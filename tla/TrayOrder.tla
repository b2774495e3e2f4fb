----------------------------- MODULE TrayOrder -----------------------------
(***************************************************************************)
(* A diner's tray and its one call to the kitchen (apps/diner: src/order/  *)
(* tray.ts, send.ts, TrayProvider.tsx; src/tab/ordering.ts; app/tab/       *)
(* [tabId]/tray.tsx and menu.tsx).  The server is external: it answers an  *)
(* order whose command id it knows with the order it has, places or        *)
(* refuses any other, and may take an order the phone has given up on.     *)
(* A phone that knows itself offline sends nothing.                        *)
(***************************************************************************)
EXTENDS Naturals

CONSTANTS Items,        \* dishes; one with a note or shared is a dish of its own
          MaxTaps,      \* dishes tapped
          MaxSends,     \* orders sent
          MaxRefusals,  \* orders the kitchen refuses
          MaxTroubles,  \* signals lost and found, the tab left
          BodiesLost    \* may a success arrive without its body?

ASSUME TrayAssumption ==
   /\ MaxTaps \in Nat /\ MaxSends \in Nat /\ MaxRefusals \in Nat /\ MaxTroubles \in Nat
   /\ BodiesLost \in BOOLEAN

VARIABLES
   lines,        \* the tray: how many of each dish
   pendingSend,  \* the send in flight or in doubt ({} if none)
   lastSent,     \* is the confirmation of an order on the bar?
   screen,       \* the screen on top
   online,       \* the phone's connection, as the phone knows it
   attempts,     \* requests in flight, and those given up on that may still arrive
   placed, made, \* server: the command ids it has placed, how much it has made
   asked,        \* history: how much the diner has asked for
   slipped,      \* history: the id of an order that is placed or may land was let go of
   sends, refusals, taps, troubles

trayVars == <<lines, pendingSend, lastSent>>
serverVars == <<placed, made, refusals>>
countVars == <<sends, taps>>
vars == <<lines, pendingSend, lastSent, screen, online, attempts, placed, made,
          asked, slipped, sends, refusals, taps, troubles>>

Ids == 1..MaxSends
Contents == [Items -> 0..MaxTaps]
Nothing == [i \in Items |-> 0]

PendingSend == [commandId : Ids, contents : Contents, uncertain : BOOLEAN]

(* A request: of the tray screen that is open now (isPending) or of one     *)
(* that was left; sent again under an id already used; still awaited.       *)
Attempts == [n : Ids, commandId : Ids, contents : Contents, onlineAtSend : BOOLEAN,
             mine : BOOLEAN, again : BOOLEAN, awaited : BOOLEAN,
             answer : {"none", "placed", "refused"}]

TypeOK ==
   /\ lines \in Contents /\ lastSent \in BOOLEAN
   /\ pendingSend \subseteq PendingSend /\ \A p, q \in pendingSend : p = q
   /\ screen \in {"menu", "tray"} /\ online \in BOOLEAN
   /\ attempts \subseteq Attempts /\ \A a, b \in attempts : a.n = b.n => a = b
   /\ placed \subseteq Ids /\ made \in [Items -> Nat] /\ asked \in [Items -> Nat]
   /\ slipped \in BOOLEAN
   /\ sends \in 0..MaxSends /\ refusals \in 0..MaxRefusals
   /\ taps \in 0..MaxTaps /\ troubles \in 0..MaxTroubles

Init ==
   /\ lines = Nothing /\ pendingSend = {} /\ lastSent = FALSE
   /\ screen = "menu" /\ online = TRUE /\ attempts = {}
   /\ placed = {} /\ made = Nothing /\ asked = Nothing /\ slipped = FALSE
   /\ sends = 0 /\ refusals = 0 /\ taps = 0 /\ troubles = 0

Trouble == troubles < MaxTroubles /\ troubles' = troubles + 1

(* What becomes of a request: its screen is left, its screens are, an       *)
(* answer is on its way; and of a send whose outcome is unknown.            *)
LeftBehind(a)     == [a EXCEPT !.mine = FALSE]
GivenUp(a)        == [a EXCEPT !.awaited = FALSE]
Answer(a, answer) == [a EXCEPT !.answer = answer]
Doubted(p)        == [p EXCEPT !.uncertain = TRUE]

(* The tray is locked while it is unknown whether the last send went.       *)
trayLocked == \E p \in pendingSend : p.uncertain

isPending == \E a \in attempts : a.awaited /\ a.mine

(* Mutant: the menu does not look at the lock.                              *)
frozenOnTray == screen = "tray" /\ isPending

(* What a screen lets be changed: the menu looks at the lock alone, and so  *)
(* does the reducer.                                                        *)
frozen == trayLocked \/ (screen = "tray" /\ isPending)

InFlight == \E a \in attempts : a.awaited

-----------------------------------------------------------------------------
(* Filling the tray.                                                        *)

(* A tap on the menu, or on the stepper of a line in the tray.              *)
Add(i) ==
   /\ ~frozen /\ taps < MaxTaps
   /\ screen = "tray" => lines[i] > 0
   /\ lines' = [lines EXCEPT ![i] = @ + 1]
   /\ lastSent' = (lastSent /\ screen = "tray")
   /\ asked' = [asked EXCEPT ![i] = @ + 1]
   /\ taps' = taps + 1 /\ slipped' = (slipped \/ InFlight)
   /\ UNCHANGED <<pendingSend, screen, online, attempts, serverVars, sends, troubles>>

(* One fewer.  What is on its way, or may have been made unknown to the     *)
(* diner, stays asked for.                                                  *)
Remove(i) ==
   /\ ~frozen /\ lines[i] > 0
   /\ lines' = [lines EXCEPT ![i] = @ - 1]
   /\ asked' = IF InFlight \/ slipped THEN asked ELSE [asked EXCEPT ![i] = @ - 1]
   /\ slipped' = (slipped \/ InFlight)
   /\ UNCHANGED <<pendingSend, lastSent, screen, online, attempts, serverVars, countVars, troubles>>

(* The tray screen opened and left; a request outlives the screen.          *)
Navigate ==
   /\ screen' = IF screen = "menu" THEN "tray" ELSE "menu"
   /\ attempts' = {LeftBehind(a) : a \in attempts}
   /\ UNCHANGED <<trayVars, online, serverVars, asked, slipped, countVars, troubles>>

(* The tab's screens left altogether: the tray goes with its provider.      *)
LeaveTab ==
   /\ Trouble
   /\ lines' = Nothing /\ pendingSend' = {} /\ lastSent' = FALSE /\ screen' = "menu"
   /\ attempts' = {GivenUp(a) : a \in attempts}
   /\ asked' = IF pendingSend # {} \/ slipped THEN asked
                                              ELSE [i \in Items |-> asked[i] - lines[i]]
   /\ slipped' = (slipped \/ pendingSend # {} \/ InFlight)
   /\ UNCHANGED <<online, serverVars, countVars>>

(* "See the bill" on the confirmation.                                      *)
DismissSent ==
   /\ lastSent /\ lines = Nothing /\ screen = "menu" /\ lastSent' = FALSE
   /\ UNCHANGED <<lines, pendingSend, screen, online, attempts, serverVars, asked, slipped,
                  countVars, troubles>>

-----------------------------------------------------------------------------
(* Sending it.                                                              *)

(* Mutant: a send always gets a new id.                                     *)
commandAnew == sends + 1

(* The pending send's id for the same contents, a fresh one otherwise.      *)
commandFor ==
   IF \E p \in pendingSend : p.contents = lines
   THEN (CHOOSE p \in pendingSend : TRUE).commandId
   ELSE sends + 1

(* Mutant: an earlier pending send is kept beside the new one.              *)
sendingBeside ==
   pendingSend' = pendingSend \union
      {[commandId |-> commandFor, contents |-> lines, uncertain |-> FALSE]}

sending == pendingSend' = {[commandId |-> commandFor, contents |-> lines, uncertain |-> FALSE]}

sendTray ==
   /\ screen = "tray" /\ lines # Nothing /\ ~isPending /\ sends < MaxSends
   /\ sends' = sends + 1
   /\ sending
   /\ attempts' = attempts \union
         {[n |-> sends', commandId |-> commandFor, contents |-> lines, onlineAtSend |-> online,
           mine |-> TRUE, again |-> commandFor # sends', awaited |-> TRUE, answer |-> "none"]}
   /\ UNCHANGED <<lines, lastSent, screen, online, serverVars, asked, slipped, taps, troubles>>

(* An answer says the order is placed: the tray is emptied.                 *)
Sent(a) ==
   /\ a.awaited /\ a.answer = "placed"
   /\ lines' = Nothing /\ pendingSend' = {} /\ lastSent' = TRUE
   /\ attempts' = attempts \ {a}
   /\ UNCHANGED <<screen, online, serverVars, asked, slipped, countVars, troubles>>

(* Mutant: a failure lets go of the id even when the order may have landed. *)
sendFailedForGood(uncertain) == pendingSend' = {}

sendFailed(uncertain) ==
   pendingSend' = IF uncertain THEN {Doubted(p) : p \in pendingSend} ELSE {}

(* Another request under the same id was made: it is in flight, or got no   *)
(* answer, and may have been placed or be placed yet.                       *)
InDoubt(a) ==
   a.again \/ trayLocked \/ \E b \in attempts : b # a /\ b.commandId = a.commandId

(* Mutant: the connection is looked at when the failure arrives.            *)
uncertainNow(a, timedOut) == timedOut \/ online

(* orderFailureKind for a request whose answer never began: a phone that    *)
(* was offline as the order left is sure nothing went, unless it timed out. *)
uncertain(a, timedOut) == timedOut \/ a.onlineAtSend

Refused(a) ==
   /\ a.awaited /\ a.answer = "refused"
   /\ sendFailed(FALSE) /\ attempts' = attempts \ {a}
   /\ slipped' = (slipped \/ InDoubt(a))
   /\ UNCHANGED <<lines, lastSent, screen, online, serverVars, asked, countVars, troubles>>

(* A success loses its connection, or the time runs out, between headers    *)
(* and body.  The client reads the body as null, the mapping of null to an  *)
(* order throws, and orderFailureKind files that under 'error': a plain     *)
(* failure, with an order that is placed still on the tray.  A refusal is   *)
(* told by its status and stays a refusal.                                  *)
BodyLost(a) ==
   /\ BodiesLost /\ a.awaited /\ a.answer = "placed"
   /\ sendFailed(FALSE) /\ attempts' = attempts \ {a}
   /\ slipped' = TRUE
   /\ UNCHANGED <<lines, lastSent, screen, online, serverVars, asked, countVars, troubles>>

(* A timeout, a server error or a lost connection before any of the answer  *)
(* is here.  The request may have arrived, or arrive later.                 *)
NoAnswer(a) ==
   /\ a.awaited
   /\ \E timedOut \in BOOLEAN :
         /\ sendFailed(uncertain(a, timedOut))
         /\ slipped' = (slipped \/ (~(timedOut \/ a.onlineAtSend) /\ InDoubt(a)))
   /\ attempts' = (attempts \ {a}) \union
         (IF a.answer = "none" /\ a.onlineAtSend THEN {GivenUp(a)} ELSE {})
   /\ UNCHANGED <<lines, lastSent, screen, online, serverVars, asked, countVars, troubles>>

-----------------------------------------------------------------------------
(* The server (external).                                                   *)
Arrive(a) ==
   /\ a.answer = "none" /\ a.onlineAtSend
   /\ \/ /\ a.commandId \in placed
         /\ attempts' = (attempts \ {a}) \union {Answer(a, "placed")}
         /\ UNCHANGED serverVars
      \/ /\ a.commandId \notin placed
         /\ placed' = placed \union {a.commandId}
         /\ made' = [i \in Items |-> made[i] + a.contents[i]]
         /\ attempts' = (attempts \ {a}) \union {Answer(a, "placed")}
         /\ UNCHANGED refusals
      \/ /\ a.commandId \notin placed /\ refusals < MaxRefusals /\ refusals' = refusals + 1
         /\ attempts' = (attempts \ {a}) \union {Answer(a, "refused")}
         /\ UNCHANGED <<placed, made>>
   /\ UNCHANGED <<trayVars, screen, online, asked, slipped, countVars, troubles>>

Signal ==
   /\ Trouble /\ online' = ~online
   /\ UNCHANGED <<trayVars, screen, attempts, serverVars, asked, slipped, countVars>>

Next ==
   \/ \E i \in Items : Add(i) \/ Remove(i)
   \/ Navigate \/ LeaveTab \/ DismissSent \/ sendTray
   \/ \E a \in attempts : Sent(a) \/ Refused(a) \/ BodyLost(a) \/ NoAnswer(a) \/ Arrive(a)
   \/ Signal

Spec == Init /\ [][Next]_vars

-----------------------------------------------------------------------------
(* A diner is never made more of a dish than was asked for, whatever times  *)
(* out, is resent or arrives late (ordering.ts 52-55: sending the same tray *)
(* again with the same id "cannot place it twice").                         *)
NeverTwice == \A i \in Items : made[i] <= asked[i]

(* It holds unless the tray changed while an order was in flight, the tab   *)
(* was left with one in flight, an order in doubt was checked and that      *)
(* check, of which only its own fate is known, was refused or never left,   *)
(* or a success came without its body (tray.ts 66-75, 369-378; send.ts      *)
(* 28-54).                                                                  *)
NeverTwiceUnlessSlipped == slipped \/ NeverTwice

(* When nothing is in flight or in doubt, and no id slipped in one of the   *)
(* ways above, the books balance: what was asked for has been made or is in *)
(* the tray and not both, so nothing is lost either.                        *)
Balanced ==
   pendingSend = {} /\ ~InFlight /\ ~slipped
      => \A i \in Items : asked[i] = made[i] + lines[i]

(* A locked tray holds what its command id was issued for, so checking      *)
(* again asks after that order and no other (tray.tsx 107-109).             *)
CheckedAsSent == \A p \in pendingSend : p.uncertain /\ ~slipped => p.contents = lines
=============================================================================
