---------------------------- MODULE StaffSession ----------------------------
(***************************************************************************)
(* The session of a tablet on a counter (packages/api/src/auth:            *)
(* staffSession.ts, and who drives it in apps/web/src/staff: StaffRoute,   *)
(* PinScreen, useStaffSession).  The tablet is enrolled with a device      *)
(* token; people sign in on it with a PIN, their session is renewed with a *)
(* handle that rotates, and the tablet locks itself when nobody touches    *)
(* it.  Locking keeps the device token and drops the session.              *)
(*                                                                         *)
(* One sign-in is one chain; token n of a chain is the handle and the      *)
(* access token of the same pair.  Storage answers in the order it was     *)
(* asked: what is written counts at once, what the code does after         *)
(* awaiting the write comes when its turn in `pending` does.               *)
(***************************************************************************)
EXTENDS Naturals, Sequences, FiniteSets

CONSTANTS MaxChains,    \* sign-ins
          MaxRenewals,  \* a chain's handle expires after so many renewals
          Idle,         \* ticks without a tap before the tablet locks itself
          Life,         \* ticks an access token lives
          MaxAway,      \* calls on their way when somebody does something
          MaxTroubles   \* lost answers, reloads, revocations, features switched off

ASSUME StaffAssumption ==
   /\ {MaxChains, MaxRenewals, MaxAway, MaxTroubles} \subseteq Nat
   /\ {Idle, Life} \subseteq Nat \ {0}

VARIABLES
   state, device, identity,  \* the snapshot: its state, the device's kind once
                             \* it is known, and the chain whose person it names
   access, age,              \* the access token in memory, and its age
   stored, deviceToken,      \* the storage: the handle and the device token
   pending,                  \* what waits for the storage, in order
   renewal,                  \* the renewal in flight
   pin, call, setup,         \* a PIN, a device-token call, an enrolment under way
   leaving,                  \* a sign-out or an unpairing under way
   armed, due, untouched,    \* the idle check: cancelIdle, ticks to go, and
                             \* ticks since lastTouchMs
   chains, head,             \* server: sign-ins so far, each chain's current
                             \* handle, 0 once it is over
   revoked, off,             \* server: is the device revoked, its feature off?
   over, late, lost,         \* history: chains the tablet has locked; was one
                             \* locked while a renewal was away; spent handles
                             \* whose answer was lost
   troubles

snapshot == <<state, device, identity>>
tokens   == <<access, age, stored, deviceToken>>
idleVars == <<armed, due, untouched>>
away     == <<pin, call, setup, leaving>>
server   == <<chains, head, revoked, off>>
history  == <<over, late, lost>>
vars == <<snapshot, tokens, pending, renewal, away, idleVars, server,
          history, troubles>>

None    == [chain |-> 0, n |-> 0]
Chains  == 1..MaxChains
Tokens  == [chain : Chains, n : 1..MaxRenewals + 1]
Kinds   == {"tablet", "phone"}
NoTimer == Idle + 1

Stages  == {"idle", "reading", "asking", "granted", "refused", "revoked", "off", "settling"}
Away    == [stage : Stages, held : Tokens \union {None}]
Calls   == [what : {"device", "roster"}, kind : Kinds, stage : Stages]
Setups  == [kind : Kinds, stage : {"idle", "minted", "writing", "reading"},
            held : Tokens \union {None}]

Resting    == [stage |-> "idle", held |-> None]
NoCall     == [what |-> "device", kind |-> "tablet", stage |-> "idle"]
NoSetup    == [kind |-> "tablet", stage |-> "idle", held |-> None]
NotLeaving == [at |-> "no", token |-> None]

(* A continuation: what to do once the storage has answered, for whom, and  *)
(* what the storage held before.                                            *)
Pending == [then : {"locked", "unenrolled", "signedIn", "enrolled"},
            chain : Chains \union {0},
            by : {"renewal", "pin", "call", "setup", "leaving", "idle", "floor"},
            handle : Tokens \union {None}, token : Kinds \union {"none"}]

TypeOK ==
   /\ state \in {"unknown", "unenrolled", "locked", "signedIn"}
   /\ device \in Kinds \union {"none"} /\ identity \in Chains \union {0}
   /\ access \in Tokens \union {None} /\ age \in 0..Life
   /\ stored \in Tokens \union {None} /\ deviceToken \in Kinds \union {"none"}
   /\ pending \in Seq(Pending)
   /\ renewal \in Away /\ pin \in Away
   /\ call \in Calls /\ setup \in Setups
   /\ leaving \in [at : {"no", "read", "told", "unpaired", "settling"},
                  token : Tokens \union {None}]
   /\ armed \in BOOLEAN /\ due \in 0..NoTimer /\ untouched \in 0..Idle
   /\ chains \in 0..MaxChains /\ head \in [Chains -> 0..MaxRenewals + 1]
   /\ revoked \in BOOLEAN /\ off \in BOOLEAN
   /\ over \subseteq Chains /\ late \in BOOLEAN /\ lost \subseteq Tokens
   /\ troubles \in 0..MaxTroubles

Init ==
   /\ state = "unknown" /\ device = "none" /\ identity = 0
   /\ access = None /\ age = 0 /\ stored = None /\ deviceToken = "none"
   /\ pending = <<>> /\ renewal = Resting
   /\ pin = Resting /\ call = NoCall /\ setup = NoSetup /\ leaving = NotLeaving
   /\ armed = FALSE /\ due = NoTimer /\ untouched = 0
   /\ chains = 0 /\ head = [c \in Chains |-> 0] /\ revoked = FALSE /\ off = FALSE
   /\ over = {} /\ late = FALSE /\ lost = {}
   /\ troubles = 0

-----------------------------------------------------------------------------
Trouble == troubles < MaxTroubles /\ troubles' = troubles + 1

Successor(token) == [token EXCEPT !.n = @ + 1]

(* Mutant: a handle is renewed however old the session is. *)
RenewedForEver(token) == head[token.chain] = token.n

mayRenew(token) == head[token.chain] = token.n /\ token.n <= MaxRenewals

InFlight(asked) == asked.stage \notin {"idle", "settling"}

Quiet ==
   /\ pending = <<>> /\ renewal = Resting /\ pin = Resting /\ call = NoCall
   /\ setup = NoSetup /\ leaving = NotLeaving

(* Bound: nobody does anything while so many calls are on their way. *)
Room ==
   Cardinality({f \in {"renewal", "pin", "call", "leaving"} :
      CASE f = "renewal" -> renewal # Resting [] f = "pin" -> pin # Resting
        [] f = "call" -> call # NoCall [] OTHER -> leaving # NotLeaving}) < MaxAway

(* History: credentials change under a renewal that may still be granted,   *)
(* or the device token goes under a call that may still bring a session.    *)
Overlap(by, then) ==
   late' = \/ late
           \/ by # "renewal" /\ InFlight(renewal)
           \/ then = "unenrolled" /\ by # "pin" /\ InFlight(pin)

await(by, then, chain) ==
   pending' = Append(pending, [then |-> then, chain |-> chain, by |-> by,
                               handle |-> stored, token |-> deviceToken])

(* Mutant: the handle stays in the storage. *)
dropKeepingHandle(by, then) ==
   /\ access' = None /\ age' = 0 /\ UNCHANGED stored
   /\ armed' = FALSE /\ due' = NoTimer /\ UNCHANGED untouched
   /\ await(by, then, 0) /\ Overlap(by, then)
   /\ UNCHANGED <<over, lost>>

drop(by, then) ==
   /\ access' = None /\ age' = 0 /\ stored' = None
   /\ armed' = FALSE /\ due' = NoTimer /\ UNCHANGED untouched
   /\ await(by, then, 0) /\ Overlap(by, then)
   /\ UNCHANGED <<over, lost>>

(* The token goes at once; the tablet is locked when the storage has let go *)
(* of the handle.  The person it names stays on the screen underneath.      *)
lock(by) == drop(by, "locked") /\ UNCHANGED deviceToken

(* unenrol, and forgetDevice after a phone unpaired itself. *)
unenrol(by) == drop(by, "unenrolled") /\ deviceToken' = "none"

(* Mutant: the rotated handle is not written. *)
adoptUnstored(by, token) ==
   /\ access' = token /\ age' = 0 /\ UNCHANGED stored
   /\ await(by, "signedIn", token.chain) /\ Overlap(by, "signedIn")
   /\ UNCHANGED <<deviceToken, over, lost>>

adopt(by, token) ==
   /\ access' = token /\ age' = 0 /\ stored' = token
   /\ await(by, "signedIn", token.chain) /\ Overlap(by, "signedIn")
   /\ UNCHANGED <<deviceToken, over, lost>>

(* Single-flight: a renewal already in flight is the one to wait for. *)
renew == renewal' = IF renewal.stage = "idle" THEN [stage |-> "reading", held |-> stored]
                    ELSE renewal

(* Mutant: the check is armed for the whole of the idle time. *)
armIdleAnew(since) == armed' = TRUE /\ due' = Idle

armIdle(since) == armed' = TRUE /\ due' = Idle - since

-----------------------------------------------------------------------------
(* Mutant: a renewal does not say whose session it is. *)
ShowAsWas(entry) ==
   /\ state' = entry.then
   /\ device' = IF entry.then = "unenrolled" THEN "none" ELSE device
   /\ identity' = CASE entry.then = "unenrolled" -> 0
                     [] entry.then = "signedIn" /\ entry.by # "renewal" -> entry.chain
                     [] OTHER -> identity
   /\ over' = IF entry.then = "signedIn" THEN over ELSE over \union ({identity} \ {0})
   /\ IF entry.then = "signedIn"
      THEN /\ untouched' = 0 /\ armIdle(0)
      ELSE UNCHANGED idleVars
   /\ UNCHANGED <<tokens, late, lost>>

(* What the code does once the storage has answered. *)
Show(entry) ==
   /\ state' = entry.then
   /\ device' = IF entry.then = "unenrolled" THEN "none" ELSE device
   /\ identity' = CASE entry.then = "unenrolled" -> 0
                     [] entry.then = "signedIn" -> entry.chain
                     [] OTHER -> identity
   /\ over' = IF entry.then = "signedIn" THEN over ELSE over \union ({identity} \ {0})
   /\ IF entry.then = "signedIn"
      THEN /\ untouched' = 0 /\ armIdle(0)
      ELSE UNCHANGED idleVars
   /\ UNCHANGED <<tokens, late, lost>>

(* Whoever awaited it goes on. *)
Proceed(by) ==
   /\ renewal' = IF by = "renewal" THEN Resting ELSE renewal
   /\ pin' = IF by = "pin" THEN Resting ELSE pin
   /\ call' = IF by = "call" THEN NoCall ELSE call
   /\ leaving' = IF by = "leaving" THEN NotLeaving ELSE leaving
   /\ setup' = IF by = "setup" THEN [setup EXCEPT !.stage = "reading", !.held = None] ELSE setup

Stored ==
   /\ pending # <<>> /\ Head(pending).then # "enrolled"
   /\ Show(Head(pending)) /\ Proceed(Head(pending).by) /\ pending' = Tail(pending)
   /\ UNCHANGED <<server, troubles>>

-----------------------------------------------------------------------------
(* At launch.  A stored handle is a claim: the tablet starts locked and the *)
(* renewal decides.                                                         *)
restore ==
   /\ state = "unknown"
   /\ IF deviceToken = "none" THEN state' = "unenrolled" /\ UNCHANGED renewal
      ELSE /\ state' = "locked"
           /\ IF stored = None THEN UNCHANGED renewal ELSE renew
   /\ UNCHANGED <<device, identity, tokens, pending, away, idleVars, server,
                  history, troubles>>

RenewalRead ==
   /\ renewal.stage = "reading"
   /\ CASE renewal.held # None ->
              /\ renewal' = [renewal EXCEPT !.stage = "asking"]
              /\ UNCHANGED <<tokens, pending, idleVars, history>>
        [] renewal.held = None /\ state = "signedIn" ->
              lock("renewal") /\ renewal' = [renewal EXCEPT !.stage = "settling"]
        [] OTHER ->
              /\ access' = None /\ age' = 0 /\ renewal' = Resting
              /\ UNCHANGED <<stored, deviceToken, pending, idleVars, history>>
   /\ UNCHANGED <<snapshot, away, server, troubles>>

(* The answer, whatever the tablet has become since it was asked for. *)
RenewalAnswered ==
   /\ renewal.stage \in {"granted", "refused", "off", "revoked"}
   /\ renewal' = [renewal EXCEPT !.stage = "settling"]
   /\ CASE renewal.stage = "granted" ->
              adopt("renewal", Successor(renewal.held)) /\ UNCHANGED idleVars
        [] renewal.stage = "revoked" -> unenrol("renewal")
        [] OTHER -> lock("renewal")
   /\ UNCHANGED <<snapshot, away, server, troubles>>

(* Nobody will read the answer: the server renewed already, or it does yet, *)
(* or it never does.                                                        *)
Abandon ==
   \/ /\ lost' = IF renewal.stage = "granted" THEN lost \union {renewal.held} ELSE lost
      /\ UNCHANGED head
   \/ /\ renewal.stage = "asking" /\ mayRenew(renewal.held)
      /\ head' = [head EXCEPT ![renewal.held.chain] = @ + 1]
      /\ lost' = lost \union {renewal.held}

(* Offline, a timeout or a 5xx: the handle is kept, and the tablet is not   *)
(* locked because the wifi dropped.                                         *)
RenewalLost ==
   /\ renewal.stage \in {"asking", "granted"} /\ Trouble /\ Abandon /\ renewal' = Resting
   /\ UNCHANGED <<snapshot, tokens, pending, away, idleVars, chains, revoked, off,
                  over, late>>

-----------------------------------------------------------------------------
(* The keypad.  It shows while the tablet is locked. *)
signInWithPin ==
   /\ state = "locked" /\ pin = Resting /\ pending = <<>> /\ chains < MaxChains /\ Room
   /\ IF deviceToken = "none"
      THEN unenrol("pin") /\ pin' = [Resting EXCEPT !.stage = "settling"]
      ELSE /\ pin' = [Resting EXCEPT !.stage = "asking"]
           /\ UNCHANGED <<tokens, pending, idleVars, history>>
   /\ UNCHANGED <<snapshot, renewal, call, setup, leaving, server, troubles>>

PinAnswered ==
   /\ pin.stage \in {"granted", "revoked"}
   /\ pin' = [pin EXCEPT !.stage = "settling"]
   /\ IF pin.stage = "granted" THEN adopt("pin", pin.held) /\ UNCHANGED idleVars
      ELSE unenrol("pin")
   /\ UNCHANGED <<snapshot, renewal, call, setup, leaving, server, troubles>>

(* A wrong PIN, a lockout, or no answer. *)
PinRefused ==
   /\ pin.stage \in {"asking", "granted"} /\ pin' = Resting
   /\ UNCHANGED <<snapshot, tokens, pending, renewal, call, setup, leaving, idleVars,
                  server, history, troubles>>

-----------------------------------------------------------------------------
(* refreshDevice, run by the screen while it does not know its device, and  *)
(* the roster, which the keypad reads and reads again.                      *)
refreshDevice ==
   /\ state \in {"locked", "signedIn"} /\ device = "none" /\ call = NoCall
   /\ IF deviceToken = "none"
      THEN await("call", "unenrolled", 0) /\ call' = [NoCall EXCEPT !.stage = "settling"]
      ELSE /\ call' = [what |-> "device", kind |-> deviceToken, stage |-> "asking"]
           /\ UNCHANGED pending
   /\ UNCHANGED <<snapshot, tokens, renewal, pin, setup, leaving, idleVars, server,
                  history, troubles>>

roster ==
   /\ state = "locked" /\ call = NoCall
   /\ IF deviceToken = "none"
      THEN unenrol("call") /\ call' = [NoCall EXCEPT !.what = "roster", !.stage = "settling"]
      ELSE /\ call' = [what |-> "roster", kind |-> deviceToken, stage |-> "asking"]
           /\ UNCHANGED <<tokens, pending, idleVars, history>>
   /\ UNCHANGED <<snapshot, renewal, pin, setup, leaving, server, troubles>>

(* Mutant: a revoked device is an expired session. *)
CallAnsweredLocking ==
   /\ call.stage \in {"granted", "revoked", "off"}
   /\ call' = [call EXCEPT !.stage = "settling"] /\ lock("call") /\ UNCHANGED device
   /\ UNCHANGED <<state, identity, renewal, pin, setup, leaving, server, troubles>>

CallAnswered ==
   /\ call.stage \in {"granted", "revoked", "off"}
   /\ IF call.stage = "granted"
      THEN /\ device' = IF call.what = "device" THEN call.kind ELSE device
           /\ call' = NoCall /\ UNCHANGED <<tokens, pending, idleVars, history>>
      ELSE /\ call' = [call EXCEPT !.stage = "settling"] /\ UNCHANGED device
           /\ IF call.stage = "revoked" THEN unenrol("call") ELSE lock("call")
   /\ UNCHANGED <<state, identity, renewal, pin, setup, leaving, server, troubles>>

CallLost ==
   /\ call.stage = "asking" /\ Trouble /\ call' = NoCall
   /\ UNCHANGED <<snapshot, tokens, pending, renewal, pin, setup, leaving, idleVars,
                  server, history>>

-----------------------------------------------------------------------------
(* A code from a manager enrols a tablet, or pairs one person's phone and   *)
(* signs them in at once.  Typing it takes longer than any request.         *)
enrol(kind) ==
   /\ state = "unenrolled" /\ Quiet
   /\ revoked' = FALSE
   /\ IF kind = "tablet"
      THEN /\ setup' = [kind |-> kind, stage |-> "minted", held |-> None]
           /\ UNCHANGED <<chains, head>>
      ELSE /\ chains < MaxChains /\ chains' = chains + 1 /\ head' = [head EXCEPT ![chains + 1] = 1]
           /\ setup' = [kind |-> kind, stage |-> "minted", held |-> [chain |-> chains + 1, n |-> 1]]
   /\ UNCHANGED <<snapshot, tokens, pending, renewal, pin, call, leaving, idleVars,
                  off, history, troubles>>

SetupAnswered ==
   /\ setup.stage = "minted" /\ setup' = [setup EXCEPT !.stage = "writing"]
   /\ deviceToken' = setup.kind /\ await("setup", "enrolled", 0)
   /\ UNCHANGED <<snapshot, access, age, stored, renewal, pin, call, leaving, idleVars, server, history, troubles>>

Enrolled ==
   /\ pending # <<>> /\ Head(pending).then = "enrolled"
   /\ IF setup.kind = "tablet"
      THEN /\ pending' = Tail(pending) /\ setup' = [setup EXCEPT !.stage = "reading"]
           /\ UNCHANGED <<tokens, history>>
      ELSE /\ access' = setup.held /\ age' = 0 /\ stored' = setup.held
           /\ pending' = Append(Tail(pending),
                 [then |-> "signedIn", chain |-> setup.held.chain, by |-> "setup",
                  handle |-> stored, token |-> deviceToken])
           /\ Overlap("setup", "signedIn")
           /\ UNCHANGED <<deviceToken, setup, over, lost>>
   /\ UNCHANGED <<snapshot, renewal, pin, call, leaving, idleVars, server, troubles>>

(* The device read back: the names of a tablet's branch, or those the       *)
(* pairing itself gave when it fails.                                       *)
SetupRead ==
   /\ setup.stage = "reading" /\ setup' = NoSetup
   /\ \/ /\ device' = setup.kind /\ UNCHANGED troubles
         /\ IF setup.kind = "tablet" THEN state' = "locked" /\ identity' = 0
            ELSE UNCHANGED <<state, identity>>
      \/ setup.kind = "tablet" /\ Trouble /\ UNCHANGED snapshot
   /\ UNCHANGED <<tokens, pending, renewal, pin, call, leaving, idleVars, server,
                  history>>

-----------------------------------------------------------------------------
(* "Tap to sign out": the handle is read, the server told as best it can    *)
(* be, and the tablet locked.  A phone may unpair itself.                   *)
signOut ==
   /\ state = "signedIn" /\ leaving = NotLeaving /\ pending = <<>> /\ Room
   /\ leaving' = [at |-> "read", token |-> stored]
   /\ UNCHANGED <<snapshot, tokens, pending, renewal, pin, call, setup, idleVars,
                  server, history, troubles>>

unpair ==
   /\ state = "signedIn" /\ device = "phone" /\ leaving = NotLeaving /\ pending = <<>> /\ Room
   /\ leaving' = [at |-> "unpaired", token |-> None] /\ revoked' = TRUE
   /\ UNCHANGED <<snapshot, tokens, pending, renewal, pin, call, setup, idleVars,
                  chains, head, off, history, troubles>>

Left ==
   /\ leaving.at \in {"told", "unpaired"}
   /\ leaving' = [at |-> "settling", token |-> None]
   /\ IF leaving.at = "told" THEN lock("leaving") ELSE unenrol("leaving")
   /\ UNCHANGED <<snapshot, renewal, pin, call, setup, server, troubles>>

-----------------------------------------------------------------------------
(* A tap. *)
touch ==
   /\ state = "signedIn"
   /\ untouched' = 0
   /\ IF armed THEN UNCHANGED <<armed, due>> ELSE armIdle(0)
   /\ UNCHANGED <<snapshot, tokens, pending, renewal, away, server, over, late, lost,
                  troubles>>

(* The check set for the deadline as it was finds that it has moved, or     *)
(* locks the tablet.                                                        *)
IdleCheck ==
   /\ due = 0
   /\ CASE state # "signedIn" ->
              due' = NoTimer /\ UNCHANGED <<tokens, pending, armed, untouched, history>>
        [] state = "signedIn" /\ untouched >= Idle -> lock("idle")
        [] OTHER -> armIdle(untouched) /\ UNCHANGED <<tokens, pending, untouched, history>>
   /\ UNCHANGED <<snapshot, renewal, away, server, troubles>>

(* A tick is longer than any request or write. *)
Tick ==
   /\ Quiet /\ due # 0 /\ (state = "signedIn" \/ due # NoTimer)
   /\ due' = IF due = NoTimer THEN due ELSE due - 1
   /\ untouched' = IF untouched < Idle THEN untouched + 1 ELSE untouched
   /\ age' = IF age < Life THEN age + 1 ELSE age
   /\ UNCHANGED <<snapshot, access, stored, deviceToken, pending, renewal, away, armed, server, over, late, lost, troubles>>

-----------------------------------------------------------------------------
(* The floor asks the server again and again while somebody is signed in:   *)
(* a token past its time is renewed first.                                  *)
poll ==
   /\ state = "signedIn" /\ (access = None \/ age = Life) /\ renewal = Resting
   /\ renew
   /\ UNCHANGED <<snapshot, tokens, pending, away, idleVars, server, history, troubles>>

(* A request is refused with a 401, perhaps after the tablet was locked:    *)
(* the client renews (or, with another token here by now, asks once more).  *)
Unauthorized ==
   /\ state # "unknown" /\ renewal = Resting /\ Room
   /\ revoked \/ \E c \in 1..chains : head[c] = 0
   /\ renew
   /\ UNCHANGED <<snapshot, tokens, pending, away, idleVars, server, history, troubles>>

(* A request is refused because the platform switched the feature off:      *)
(* whoever hears it first locks the tablet.                                 *)
FeatureOff ==
   /\ off /\ state = "signedIn" /\ access # None
   /\ lock("floor")
   /\ UNCHANGED <<snapshot, renewal, away, server, troubles>>

-----------------------------------------------------------------------------
(* The server (external). *)
ServeRenewal ==
   /\ renewal.stage = "asking"
   /\ LET granted == ~revoked /\ mayRenew(renewal.held)
          c == renewal.held.chain
      IN  /\ renewal' = [renewal EXCEPT !.stage = IF revoked THEN "revoked"
                                                  ELSE IF ~granted THEN "refused"
                                                  ELSE IF off THEN "off" ELSE "granted"]
          /\ head' = [head EXCEPT ![c] = IF granted THEN @ + 1 ELSE 0]
   /\ UNCHANGED <<snapshot, tokens, pending, away, idleVars, chains, revoked, off,
                  history, troubles>>

ServePin ==
   /\ pin.stage = "asking" /\ chains < MaxChains
   /\ IF revoked THEN pin' = [pin EXCEPT !.stage = "revoked"] /\ UNCHANGED <<chains, head>>
      ELSE /\ ~off /\ chains' = chains + 1 /\ head' = [head EXCEPT ![chains + 1] = 1]
           /\ pin' = [stage |-> "granted", held |-> [chain |-> chains + 1, n |-> 1]]
   /\ UNCHANGED <<snapshot, tokens, pending, renewal, call, setup, leaving, idleVars,
                  revoked, off, history, troubles>>

ServeCall ==
   /\ call.stage = "asking"
   /\ call' = [call EXCEPT !.stage = IF revoked THEN "revoked"
                      ELSE IF off /\ call.kind = "phone" /\ call.what = "device" THEN "off"
                      ELSE "granted"]
   /\ UNCHANGED <<snapshot, tokens, pending, renewal, pin, setup, leaving, idleVars,
                  server, history, troubles>>

ServeSignOut ==
   /\ leaving.at = "read" /\ leaving' = [leaving EXCEPT !.at = "told"]
   /\ \/ UNCHANGED head
      \/ leaving.token # None /\ head' = [head EXCEPT ![leaving.token.chain] = 0]
   /\ UNCHANGED <<snapshot, tokens, pending, renewal, pin, call, setup, idleVars,
                  chains, revoked, off, history, troubles>>

(* A manager revokes the device, ends a session, or the platform switches   *)
(* a feature off and on.                                                    *)
Manager ==
   /\ \/ Trouble /\ deviceToken # "none" /\ revoked' = TRUE /\ UNCHANGED <<head, off>>
      \/ /\ Trouble /\ \E c \in 1..chains : head' = [head EXCEPT ![c] = 0]
         /\ UNCHANGED <<revoked, off>>
      \/ Trouble /\ off' = TRUE /\ UNCHANGED <<head, revoked>>
      \/ off /\ off' = FALSE /\ UNCHANGED <<head, revoked, troubles>>
   /\ UNCHANGED <<snapshot, tokens, pending, renewal, away, idleVars, chains, history>>

(* The page dies: what the storage was asked last may not have been done,   *)
(* and whatever answer was on its way goes with it.                         *)
Reload ==
   /\ Trouble
   /\ \E i \in 1..Len(pending) + 1 :
         /\ stored' = IF i > Len(pending) THEN stored ELSE pending[i].handle
         /\ deviceToken' = IF i > Len(pending) THEN deviceToken ELSE pending[i].token
   /\ state' = "unknown" /\ device' = "none" /\ identity' = 0
   /\ access' = None /\ age' = 0 /\ pending' = <<>> /\ renewal' = Resting
   /\ pin' = Resting /\ call' = NoCall /\ setup' = NoSetup /\ leaving' = NotLeaving
   /\ armed' = FALSE /\ due' = NoTimer /\ untouched' = 0
   /\ \/ UNCHANGED head
      \/ /\ renewal.stage = "asking" /\ mayRenew(renewal.held)
         /\ head' = [head EXCEPT ![renewal.held.chain] = @ + 1]
   /\ lost' = lost \union {t \in {stored', renewal.held} : t # None /\ t.n < head'[t.chain]}
   /\ UNCHANGED <<chains, revoked, off, over, late>>

-----------------------------------------------------------------------------
Page ==
   \/ Stored \/ Enrolled \/ restore \/ RenewalRead \/ RenewalAnswered \/ PinAnswered
   \/ CallAnswered \/ SetupAnswered \/ SetupRead \/ Left \/ refreshDevice \/ roster
   \/ IdleCheck \/ poll \/ Unauthorized \/ FeatureOff

Person == signInWithPin \/ signOut \/ unpair \/ touch \/ \E kind \in Kinds : enrol(kind)

Network ==
   \/ ServeRenewal \/ ServePin \/ ServeCall \/ ServeSignOut
   \/ RenewalLost \/ PinRefused \/ CallLost \/ Manager \/ Reload

Next == Page \/ Person \/ Network \/ Tick

(* The event loop runs what is due, a request is answered or times out, the *)
(* floor polls and the keypad reads its roster; nobody has to do anything.  *)
Fairness ==
   /\ WF_vars(Stored \/ Enrolled) /\ WF_vars(restore) /\ WF_vars(RenewalRead)
   /\ WF_vars(RenewalAnswered) /\ WF_vars(PinAnswered) /\ WF_vars(CallAnswered)
   /\ WF_vars(SetupAnswered) /\ WF_vars(SetupRead) /\ WF_vars(Left)
   /\ WF_vars(refreshDevice \/ roster) /\ WF_vars(poll)
   /\ WF_vars(Unauthorized) /\ WF_vars(FeatureOff)
   /\ WF_vars(ServeRenewal) /\ WF_vars(ServePin \/ PinRefused) /\ WF_vars(ServeCall)
   /\ WF_vars(ServeSignOut)

Spec == Init /\ [][Next]_vars

LiveSpec == Spec /\ Fairness

-----------------------------------------------------------------------------
(* The handle a renewal presents is its chain's current one, or the chain   *)
(* is over, or the answer to it was lost: a handle that rotates is never    *)
(* spent twice, which would lock the tablet during a rush (staffSession.ts, *)
(* renew).                                                                  *)
SpentOnce ==
   renewal.stage = "asking" => \/ head[renewal.held.chain] \in {0, renewal.held.n}
                               \/ renewal.held \in lost

(* Once the storage has answered, the state the screens go by, the token in *)
(* memory and the handle in storage tell one story.                         *)
Settled ==
   pending = <<>> /\ ~late =>
      /\ state = "signedIn" => access # None /\ stored = access /\ identity = access.chain
      /\ state = "locked" => access = None
      /\ state = "unenrolled" => access = None /\ stored = None

(* Whoever is signed in will be locked out when they leave: a check is set, *)
(* for the deadline or before.                                              *)
WillLock == state = "signedIn" /\ pending = <<>> => armed /\ due + untouched <= Idle

LockedIsOverUnlessLate == state = "signedIn" /\ ~late => identity \notin over

(* A revoked device is not an expired session: the tablet ends at the       *)
(* enrolment screen, not at a keypad it can never get past.                 *)
RevokedEnds == revoked ~> (state = "unenrolled" \/ ~revoked)

(* "Nobody is signed in on it": a session the tablet was locked on does not *)
(* come back; the way back is four digits.                                  *)
LockedIsOver == state = "signedIn" => identity \notin over

=============================================================================
