---------------------------- MODULE AuthSession ----------------------------
(***************************************************************************)
(* A person's session in the tabs of one browser: the refresh token every  *)
(* tab shares, each tab's access token, the renewal that trades one for    *)
(* the other under a Web Lock, signing in and out, and the requests of the *)
(* API client that a 401 sends back to the session (packages/api/src:      *)
(* auth/session.ts, client.ts).  The server is external: it rotates the    *)
(* refresh token at every renewal and ends the whole chain when a spent    *)
(* one comes back.                                                         *)
(*                                                                         *)
(* One sign-in is one chain of tokens; token n of a chain is the refresh   *)
(* token and the access token of the same pair.                            *)
(***************************************************************************)
EXTENDS Naturals, Sequences, FiniteSets

CONSTANTS Pages,        \* the tabs of the browser, each with its own session
          MaxChains,    \* sign-ins
          MaxRenewals,  \* the refresh token of a chain expires after so many
          MaxTroubles,  \* answers lost, closed tabs, chains ended early
          Locks,        \* does the browser have Web Locks?
          Apart         \* nobody signs in or out while another tab renews

ASSUME SessionAssumption ==
   /\ {MaxChains, MaxRenewals, MaxTroubles} \subseteq Nat
   /\ Locks \in BOOLEAN /\ Apart \in BOOLEAN

VARIABLES
   stored,                       \* the refresh token in the shared storage
   state, access,                \* per tab: AuthState and the access token
   stage, held, superseded,      \* per tab: the renewal in flight, the token it
                                 \* read, and has the session changed since
   leaving,                      \* per tab: a sign-out under way
   request,                      \* per tab: one request of the API client
   chains, head,                 \* server: sign-ins so far, each chain's current
                                 \* token, 0 once it is over
   lost,                         \* history: spent tokens whose answer was lost
   left,                         \* history, per tab: chains it has signed out of
   troubles                      \* what has gone wrong so far

tabVars    == <<state, access, stage, held, superseded, leaving, request>>
serverVars == <<chains, head>>
vars == <<stored, state, access, stage, held, superseded, leaving, request,
          chains, head, lost, left, troubles>>

None   == [chain |-> 0, n |-> 0]
Chains == 1..MaxChains
Tokens == [chain : Chains, n : 1..MaxRenewals + 1]
Stages == {"idle", "queued", "reading", "asking", "granted", "refused"}

NoRequest == [phase |-> "none", token |-> None, retry |-> FALSE]
NotLeaving == [at |-> "no", token |-> None]

TypeOK ==
   /\ stored \in Tokens \union {None}
   /\ state \in [Pages -> {"unknown", "signedOut", "signedIn"}]
   /\ access \in [Pages -> Tokens \union {None}]
   /\ stage \in [Pages -> Stages] /\ held \in [Pages -> Tokens \union {None}]
   /\ superseded \in [Pages -> BOOLEAN]
   /\ leaving \in [Pages -> [at : {"no", "read", "revoked"}, token : Tokens \union {None}]]
   /\ request \in [Pages -> [phase : {"none", "token", "sent", "again"},
                             token : Tokens \union {None}, retry : BOOLEAN]]
   /\ chains \in 0..MaxChains /\ head \in [Chains -> 0..MaxRenewals + 1]
   /\ lost \subseteq Tokens
   /\ left \in [Pages -> SUBSET Chains]
   /\ troubles \in 0..MaxTroubles

Init ==
   /\ stored = None
   /\ state = [t \in Pages |-> "unknown"] /\ access = [t \in Pages |-> None]
   /\ stage = [t \in Pages |-> "idle"] /\ held = [t \in Pages |-> None]
   /\ superseded = [t \in Pages |-> FALSE]
   /\ leaving = [t \in Pages |-> NotLeaving] /\ request = [t \in Pages |-> NoRequest]
   /\ chains = 0 /\ head = [c \in Chains |-> 0]
   /\ lost = {} /\ left = [t \in Pages |-> {}]
   /\ troubles = 0

-----------------------------------------------------------------------------
Trouble == troubles < MaxTroubles /\ troubles' = troubles + 1

Successor(token) == [token EXCEPT !.n = @ + 1]

isCurrent(token) == token # None /\ head[token.chain] = token.n

(* Mutant: a refresh token is renewed however old it is. *)
RenewedForEver(token) == isCurrent(token)

mayRenew(token) == isCurrent(token) /\ token.n <= MaxRenewals

InsideLock(t) == stage[t] \notin {"idle", "queued"}

Sent(token, isRetry) == [phase |-> "sent", token |-> token, retry |-> isRetry]

RetryLater == [phase |-> "token", token |-> None, retry |-> TRUE]

(* Single-flight: a renewal already in flight is the one to wait for. *)
refresh(t) == stage' = [stage EXCEPT ![t] = IF @ = "idle" THEN "queued" ELSE @]

(* The renewal ends with an access token or None for whoever awaits it. *)
Resume(t, token) ==
   request' = [request EXCEPT ![t] =
      IF @.phase = "token" THEN Sent(token, @.retry)
      ELSE IF @.phase = "again" THEN IF token # None THEN Sent(token, TRUE) ELSE NoRequest
      ELSE @]

End(t, token) ==
   /\ stage' = [stage EXCEPT ![t] = "idle"] /\ held' = [held EXCEPT ![t] = None]
   /\ superseded' = [superseded EXCEPT ![t] = FALSE]
   /\ Resume(t, token)

(* adopt and forget: the session changes, and a renewal that began before   *)
(* is superseded.  The storage runs what it is asked in order, so a write   *)
(* counts from the moment it is asked.                                      *)
become(t, token, kind) ==
   /\ access' = [access EXCEPT ![t] = token] /\ stored' = token
   /\ state' = [state EXCEPT ![t] = kind]

adopt(t, token) == become(t, token, "signedIn")

forget(t) == become(t, None, "signedOut")

Supersede(t) == superseded' = [superseded EXCEPT ![t] = InsideLock(t)]

-----------------------------------------------------------------------------
restore(t) ==
   /\ state[t] = "unknown"
   /\ state' = [state EXCEPT ![t] = IF stored = None THEN "signedOut" ELSE "signedIn"]
   /\ UNCHANGED <<stored, access, stage, held, superseded, leaving, request, serverVars,
                  lost, left, troubles>>

(* Mutant: a renewal does not wait for the lock. *)
AcquireAtOnce(t) ==
   /\ stage[t] = "queued"
   /\ stage' = [stage EXCEPT ![t] = "reading"] /\ held' = [held EXCEPT ![t] = stored]
   /\ UNCHANGED <<stored, state, access, superseded, leaving, request, serverVars, lost, left,
                  troubles>>

(* The lock is granted and the token read inside it. *)
Acquire(t) ==
   /\ stage[t] = "queued"
   /\ Locks => \A u \in Pages : ~InsideLock(u)
   /\ stage' = [stage EXCEPT ![t] = "reading"] /\ held' = [held EXCEPT ![t] = stored]
   /\ UNCHANGED <<stored, state, access, superseded, leaving, request, serverVars, lost, left,
                  troubles>>

(* Somebody signed in or out meanwhile: theirs is the session now. *)
Superseded(t) ==
   /\ stage[t] \in {"reading", "granted", "refused"} /\ superseded[t]
   /\ End(t, access[t])
   /\ UNCHANGED <<stored, state, access, leaving, serverVars, lost, left, troubles>>

Read(t) ==
   /\ stage[t] = "reading" /\ ~superseded[t]
   /\ IF held[t] = None
      THEN /\ access' = [access EXCEPT ![t] = None] /\ state' = [state EXCEPT ![t] = "signedOut"]
           /\ End(t, None)
      ELSE stage' = [stage EXCEPT ![t] = "asking"]
           /\ UNCHANGED <<state, access, held, superseded, request>>
   /\ UNCHANGED <<stored, leaving, serverVars, lost, left, troubles>>

(* Mutant: a pair is kept whoever signed in or out meanwhile. *)
GrantedRegardless(t) ==
   /\ stage[t] = "granted"
   /\ adopt(t, Successor(held[t])) /\ End(t, Successor(held[t]))
   /\ UNCHANGED <<leaving, serverVars, lost, left, troubles>>

Granted(t) ==
   /\ stage[t] = "granted" /\ ~superseded[t]
   /\ adopt(t, Successor(held[t])) /\ End(t, Successor(held[t]))
   /\ UNCHANGED <<leaving, serverVars, lost, left, troubles>>

(* Mutant: a refusal ends whatever session the tab has by then. *)
RefusedRegardless(t) ==
   /\ stage[t] = "refused"
   /\ forget(t) /\ End(t, None)
   /\ UNCHANGED <<leaving, serverVars, lost, left, troubles>>

(* The backend says no: expired, revoked or spent. *)
Refused(t) ==
   /\ stage[t] = "refused" /\ ~superseded[t]
   /\ forget(t) /\ End(t, None)
   /\ UNCHANGED <<leaving, serverVars, lost, left, troubles>>

(* Nobody will read the answer: the server renewed already, or the request  *)
(* is still on its way and it does, or it never does.                       *)
Abandon(t) ==
   \/ /\ lost' = IF stage[t] = "granted" THEN lost \union {held[t]} ELSE lost
      /\ UNCHANGED head
   \/ /\ stage[t] = "asking" /\ mayRenew(held[t])
      /\ head' = [head EXCEPT ![held[t].chain] = @ + 1] /\ lost' = lost \union {held[t]}

(* Offline, a timeout or a 5xx: the token is kept, and the requests that    *)
(* wait for the renewal fail.                                               *)
Unreachable(t) ==
   /\ stage[t] \in {"asking", "granted"} /\ Trouble /\ Abandon(t)
   /\ IF superseded[t] THEN End(t, access[t])
      ELSE /\ stage' = [stage EXCEPT ![t] = "idle"] /\ held' = [held EXCEPT ![t] = None]
           /\ request' = [request EXCEPT ![t] = IF @.phase \in {"token", "again"}
                                                THEN NoRequest ELSE @]
           /\ UNCHANGED superseded
   /\ UNCHANGED <<stored, state, access, leaving, chains, left>>

(* The renewal is granted and the body of its answer lost: adopt has moved  *)
(* the generation on before it reads the pair that is not there, so the     *)
(* failure passes for a superseded renewal's.  The spent token stays.       *)
BodyLost(t) ==
   /\ stage[t] = "granted" /\ Trouble /\ Abandon(t)
   /\ End(t, access[t])
   /\ UNCHANGED <<stored, state, access, leaving, chains, left>>

-----------------------------------------------------------------------------
Quiet(t) == Apart => \A u \in Pages \ {t} : stage[u] = "idle"

signIn(t) ==
   /\ state[t] = "signedOut" /\ leaving[t] = NotLeaving /\ chains < MaxChains /\ Quiet(t)
   /\ chains' = chains + 1 /\ head' = [head EXCEPT ![chains + 1] = 1]
   /\ adopt(t, [chain |-> chains + 1, n |-> 1]) /\ Supersede(t)
   /\ UNCHANGED <<stage, held, leaving, request, lost, left, troubles>>

(* Sign-out reads the token, revokes it as best it can, then forgets. *)
signOut(t) ==
   /\ state[t] = "signedIn" /\ leaving[t] = NotLeaving /\ Quiet(t)
   /\ leaving' = [leaving EXCEPT ![t] = [at |-> "read", token |-> stored]]
   /\ UNCHANGED <<stored, state, access, stage, held, superseded, request, serverVars,
                  lost, left, troubles>>

revoke(t) ==
   /\ leaving[t].at = "read"
   /\ leaving' = [leaving EXCEPT ![t].at = "revoked"]
   /\ \/ UNCHANGED head
      \/ leaving[t].token # None /\ head' = [head EXCEPT ![leaving[t].token.chain] = 0]
   /\ UNCHANGED <<stored, state, access, stage, held, superseded, request, chains,
                  lost, left, troubles>>

SignedOut(t) ==
   /\ leaving[t].at = "revoked" /\ Quiet(t)
   /\ forget(t) /\ Supersede(t)
   /\ leaving' = [leaving EXCEPT ![t] = NotLeaving]
   /\ left' = [left EXCEPT ![t] = @ \union ({leaving[t].token.chain, access[t].chain} \ {0})]
   /\ UNCHANGED <<stage, held, request, serverVars, lost, troubles>>

-----------------------------------------------------------------------------
(* The API client: one refresh, one retry.  Time passes as it likes, so an  *)
(* access token may be past its time at any moment, and a token sent may be *)
(* refused with a 401 (expired, or ended by "sign out everywhere else").    *)
Send(t) ==
   /\ request[t] = NoRequest /\ state[t] # "unknown"
   /\ \/ access[t] # None /\ request' = [request EXCEPT ![t] = Sent(access[t], FALSE)]
                         /\ UNCHANGED stage
      \/ state[t] = "signedOut" /\ request' = [request EXCEPT ![t] = Sent(None, FALSE)]
                                /\ UNCHANGED stage
      \/ state[t] # "signedOut" /\ request' = [request EXCEPT ![t].phase = "token"]
                                /\ refresh(t)
   /\ UNCHANGED <<stored, state, access, held, superseded, leaving, serverVars, lost,
                  left, troubles>>

(* A request sent without a token is never refreshed for.  One that finds  *)
(* another token here is sent again with it, or with the one that replaces  *)
(* it if it is past its time.                                               *)
Unauthorized(t) ==
   /\ request[t].phase = "sent" /\ request[t].token # None /\ ~request[t].retry
   /\ IF access[t] \notin {None, request[t].token}
      THEN \/ request' = [request EXCEPT ![t] = Sent(access[t], TRUE)] /\ UNCHANGED stage
           \/ request' = [request EXCEPT ![t] = RetryLater] /\ refresh(t)
      ELSE request' = [request EXCEPT ![t].phase = "again"] /\ refresh(t)
   /\ UNCHANGED <<stored, state, access, held, superseded, leaving, serverVars, lost,
                  left, troubles>>

Answered(t) ==
   /\ request[t].phase = "sent" /\ request' = [request EXCEPT ![t] = NoRequest]
   /\ UNCHANGED <<stored, state, access, stage, held, superseded, leaving, serverVars,
                  lost, left, troubles>>

-----------------------------------------------------------------------------
(* The server (external). *)
Renew(t) ==
   /\ stage[t] = "asking"
   /\ LET c == held[t].chain
      IN  IF mayRenew(held[t])
          THEN /\ head' = [head EXCEPT ![c] = @ + 1]
               /\ stage' = [stage EXCEPT ![t] = "granted"]
          ELSE /\ head' = [head EXCEPT ![c] = 0]
               /\ stage' = [stage EXCEPT ![t] = "refused"]
   /\ UNCHANGED <<stored, state, access, held, superseded, leaving, request, chains,
                  lost, left, troubles>>

(* A deletion, a displacement, or the refresh token's own expiry. *)
EndChain(c) ==
   /\ c <= chains /\ head[c] # 0 /\ Trouble /\ head' = [head EXCEPT ![c] = 0]
   /\ UNCHANGED <<stored, tabVars, chains, lost, left>>

(* The tab is closed or reloaded: the lock goes with it, and whatever       *)
(* answer was on its way.                                                   *)
Close(t) ==
   /\ Trouble
   /\ state' = [state EXCEPT ![t] = "unknown"] /\ access' = [access EXCEPT ![t] = None]
   /\ stage' = [stage EXCEPT ![t] = "idle"] /\ held' = [held EXCEPT ![t] = None]
   /\ superseded' = [superseded EXCEPT ![t] = FALSE]
   /\ leaving' = [leaving EXCEPT ![t] = NotLeaving]
   /\ request' = [request EXCEPT ![t] = NoRequest]
   /\ left' = [left EXCEPT ![t] = {}]
   /\ Abandon(t)
   /\ UNCHANGED <<stored, chains>>

-----------------------------------------------------------------------------
Renewal(t) == Acquire(t) \/ Superseded(t) \/ Read(t) \/ Granted(t) \/ Refused(t)

Person(t) == signIn(t) \/ signOut(t) \/ Send(t) \/ Close(t)

Leaving(t) == revoke(t) \/ SignedOut(t)

Next ==
   \/ \E t \in Pages : \/ restore(t) \/ Person(t) \/ Renewal(t) \/ Leaving(t)
                       \/ Unreachable(t) \/ BodyLost(t)
                       \/ Unauthorized(t) \/ Answered(t) \/ Renew(t)
   \/ \E c \in Chains : EndChain(c)

Spec == Init /\ [][Next]_vars

-----------------------------------------------------------------------------
(* The token a renewal presents is the chain's current one, or the chain is *)
(* over, or an answer to it was lost: two tabs never spend the same token   *)
(* (session.ts, webLocksExclusive).                                         *)
SpentOnce ==
   \A t \in Pages : stage[t] = "asking" =>
      \/ head[held[t].chain] \in {0, held[t].n}
      \/ held[t] \in lost

(* Only a sign-out empties the storage of a token the server would still    *)
(* renew: a refusal meant for one session never ends the one that replaced  *)
(* it (session.ts, generation).                                             *)
LiveTokenKept ==
   [][isCurrent(stored) /\ stored' = None => \E t \in Pages : SignedOut(t)]_vars

(* A session the person left does not come back in that tab: neither an     *)
(* answer to a renewal that was under way nor the retry of a request that   *)
(* was out brings its token back.                                           *)
LeftForGood == \A t \in Pages : access[t].chain \notin left[t]
=============================================================================
