------------------------- MODULE AuthSessionProofs -------------------------
(***************************************************************************)
(* What is proved of the session in the tabs of one browser, for every     *)
(* number of tabs, sign-ins, renewals and troubles, and wherever people    *)
(* sign in and out meanwhile.                                              *)
(***************************************************************************)
EXTENDS AuthSession, TLAPS

(* A renewal that has asked holds a token, and the server renews none that  *)
(* is past its time.                                                        *)
Renewable ==
   \A t \in Pages :
      /\ stage[t] \in {"asking", "granted", "refused"} => held[t] # None
      /\ stage[t] = "granted" => held[t].n <= MaxRenewals

TypeInv == TypeOK /\ Renewable

Requests == [phase : {"none", "token", "sent", "again"}, token : Tokens \union {None},
             retry : BOOLEAN]

-----------------------------------------------------------------------------
LEMMA TokenFacts ==
  /\ None.chain = 0 /\ None.n = 0 /\ None \notin Tokens
  /\ \A k \in Tokens : k.chain \in Chains /\ k.n \in 1..MaxRenewals + 1
  /\ \A k \in Tokens : k.n <= MaxRenewals => /\ Successor(k) \in Tokens
                                           /\ Successor(k).chain = k.chain
                                           /\ Successor(k).n = k.n + 1
BY SessionAssumption DEF SessionAssumption, Tokens, None, Chains, Successor

LEMMA EndType ==
  ASSUME TypeOK, NEW t \in Pages, NEW token \in Tokens \union {None}, End(t, token)
  PROVE  /\ stage' \in [Pages -> Stages] /\ held' \in [Pages -> Tokens \union {None}]
         /\ superseded' \in [Pages -> BOOLEAN] /\ request' \in [Pages -> Requests]
<1>1. request' \in [Pages -> Requests]
  BY DEF End, Resume, Sent, NoRequest, TypeOK, Requests
<1> QED BY <1>1 DEF End, TypeOK, Stages

(* Joining or starting a renewal touches nothing inside the lock. *)
LEMMA RefreshStage ==
  ASSUME TypeOK, NEW t \in Pages, refresh(t) \/ UNCHANGED stage
  PROVE  /\ stage' \in [Pages -> Stages]
         /\ \A u \in Pages : stage'[u] = stage[u] \/ {stage[u], stage'[u]} \subseteq {"idle", "queued"}
BY DEF refresh, TypeOK, Stages

LEMMA HeadType ==
  ASSUME TypeOK
  PROVE  /\ \A k \in Tokens : mayRenew(k) =>
                /\ k.n <= MaxRenewals /\ head[k.chain] = k.n
                /\ [head EXCEPT ![k.chain] = @ + 1] \in [Chains -> 0..MaxRenewals + 1]
         /\ \A c : [head EXCEPT ![c] = 0] \in [Chains -> 0..MaxRenewals + 1]
<1>1. MaxRenewals \in Nat
  BY SessionAssumption DEF SessionAssumption
<1>2. head \in [Chains -> 0..MaxRenewals + 1]
  BY DEF TypeOK
<1>3. ASSUME NEW k \in Tokens, mayRenew(k)
      PROVE  /\ k.n <= MaxRenewals /\ head[k.chain] = k.n
             /\ [head EXCEPT ![k.chain] = @ + 1] \in [Chains -> 0..MaxRenewals + 1]
  <2>1. k.n <= MaxRenewals /\ head[k.chain] = k.n /\ k.chain \in Chains /\ k.n \in 1..MaxRenewals + 1
    BY <1>3, TokenFacts DEF mayRenew, isCurrent
  <2>2. head[k.chain] + 1 \in 0..MaxRenewals + 1
    BY <1>1, <2>1
  <2> QED BY <1>2, <2>1, <2>2
<1>4. 0 \in 0..MaxRenewals + 1
  BY <1>1
<1>5. ASSUME NEW c PROVE [head EXCEPT ![c] = 0] \in [Chains -> 0..MaxRenewals + 1]
  BY <1>2, <1>4
<1> QED BY <1>3, <1>5

LEMMA AbandonType ==
  ASSUME TypeInv, NEW t \in Pages, Abandon(t)
  PROVE  head' \in [Chains -> 0..MaxRenewals + 1] /\ lost' \subseteq Tokens
<1>1. stage[t] \in {"asking", "granted"} => held[t] \in Tokens
  BY DEF TypeInv, TypeOK, Renewable
<1>2. CASE UNCHANGED head
  BY <1>1, <1>2 DEF Abandon, TypeInv, TypeOK
<1>3. CASE stage[t] = "asking" /\ mayRenew(held[t])
  BY <1>1, <1>3, HeadType DEF Abandon, TypeInv, TypeOK
<1> QED BY <1>2, <1>3 DEF Abandon

-----------------------------------------------------------------------------
LEMMA InitType == Init => TypeInv
BY SessionAssumption
   DEF Init, TypeInv, TypeOK, Renewable, SessionAssumption, NoRequest, NotLeaving, Stages

LEMMA NextType == TypeInv /\ [Next]_vars => TypeInv'
<1> SUFFICES ASSUME TypeInv, [Next]_vars PROVE TypeInv'
  OBVIOUS
<1> USE SessionAssumption, TokenFacts DEF SessionAssumption, tabVars, serverVars, vars, TypeInv
<1>1. ASSUME NEW t \in Pages, restore(t) PROVE TypeInv'
  BY <1>1 DEF restore, TypeOK, Renewable
<1>2. ASSUME NEW t \in Pages, Acquire(t) PROVE TypeInv'
  BY <1>2 DEF Acquire, TypeOK, Renewable, Stages
<1>3. ASSUME NEW t \in Pages, Superseded(t) PROVE TypeInv'
  <2>1. End(t, access[t]) /\ access[t] \in Tokens \union {None}
    BY <1>3 DEF Superseded, TypeOK
  <2>2. TypeOK'
    BY <1>3, <2>1, EndType DEF Superseded, TypeOK, Requests
  <2> QED BY <1>3, <2>2 DEF Superseded, End, TypeOK, Renewable
<1>4. ASSUME NEW t \in Pages, Read(t) PROVE TypeInv'
  <2>1. CASE held[t] = None
    <3>1. End(t, None)
      BY <1>4, <2>1 DEF Read
    <3>2. access' \in [Pages -> Tokens \union {None}]
          /\ state' \in [Pages -> {"unknown", "signedOut", "signedIn"}]
      BY <1>4, <2>1 DEF Read, TypeOK
    <3>3. TypeOK'
      BY <1>4, <3>1, <3>2, EndType DEF Read, TypeOK, Requests
    <3> QED BY <1>4, <3>1, <3>3 DEF Read, End, TypeOK, Renewable
  <2>2. CASE held[t] # None
    BY <1>4, <2>2 DEF Read, TypeOK, Renewable, Stages
  <2> QED BY <2>1, <2>2
<1>5. ASSUME NEW t \in Pages, Granted(t) PROVE TypeInv'
  <2>1. Successor(held[t]) \in Tokens /\ End(t, Successor(held[t]))
    BY <1>5 DEF Granted, TypeOK, Renewable
  <2>2. TypeOK'
    BY <1>5, <2>1, EndType DEF Granted, adopt, become, TypeOK, Requests
  <2> QED BY <1>5, <2>2 DEF Granted, End, TypeOK, Renewable
<1>6. ASSUME NEW t \in Pages, Refused(t) PROVE TypeInv'
  <2>1. End(t, None)
    BY <1>6 DEF Refused
  <2>2. TypeOK'
    BY <1>6, <2>1, EndType DEF Refused, forget, become, TypeOK, Requests
  <2> QED BY <1>6, <2>2 DEF Refused, End, TypeOK, Renewable
<1>7. ASSUME NEW t \in Pages, Unreachable(t) PROVE TypeInv'
  <2>1. head' \in [Chains -> 0..MaxRenewals + 1] /\ lost' \subseteq Tokens
    BY <1>7, AbandonType DEF Unreachable
  <2>2. troubles' \in 0..MaxTroubles
    BY <1>7 DEF Unreachable, Trouble, TypeOK
  <2>3. CASE superseded[t]
    <3>1. End(t, access[t]) /\ access[t] \in Tokens \union {None}
      BY <1>7, <2>3 DEF Unreachable, TypeOK
    <3>2. TypeOK'
      BY <1>7, <2>1, <2>2, <3>1, EndType DEF Unreachable, TypeOK, Requests
    <3> QED BY <1>7, <3>1, <3>2 DEF Unreachable, End, TypeOK, Renewable
  <2>4. CASE ~superseded[t]
    <3>1. request' \in [Pages -> Requests]
      <4>1. request \in [Pages -> Requests] /\ NoRequest \in Requests
        BY DEF TypeOK, Requests, NoRequest
      <4> QED BY <1>7, <2>4, <4>1 DEF Unreachable
    <3>2. /\ stage' = [stage EXCEPT ![t] = "idle"] /\ held' = [held EXCEPT ![t] = None]
          /\ superseded' = superseded
      BY <1>7, <2>4 DEF Unreachable
    <3>3. TypeOK'
      BY <1>7, <2>1, <2>2, <3>1, <3>2 DEF Unreachable, TypeOK, Requests, Stages
    <3> QED BY <3>2, <3>3 DEF TypeOK, Renewable
  <2> QED BY <2>3, <2>4
<1>b. ASSUME NEW t \in Pages, BodyLost(t) PROVE TypeInv'
  <2>1. head' \in [Chains -> 0..MaxRenewals + 1] /\ lost' \subseteq Tokens
    BY <1>b, AbandonType DEF BodyLost
  <2>2. troubles' \in 0..MaxTroubles
    BY <1>b DEF BodyLost, Trouble, TypeOK
  <2>3. End(t, access[t]) /\ access[t] \in Tokens \union {None}
    BY <1>b DEF BodyLost, TypeOK
  <2>4. TypeOK'
    BY <1>b, <2>1, <2>2, <2>3, EndType DEF BodyLost, TypeOK, Requests
  <2> QED BY <1>b, <2>3, <2>4 DEF BodyLost, End, TypeOK, Renewable
<1>8. ASSUME NEW t \in Pages, signIn(t) PROVE TypeInv'
  <2> DEFINE new == [chain |-> chains + 1, n |-> 1]
  <2>1. new \in Tokens /\ chains' \in 0..MaxChains
    BY <1>8 DEF signIn, TypeOK, Tokens, Chains
  <2>2. head' \in [Chains -> 0..MaxRenewals + 1]
    <3>1. 1 \in 0..MaxRenewals + 1
      OBVIOUS
    <3> QED BY <1>8, <3>1 DEF signIn, TypeOK
  <2>3. stored' = new /\ access' = [access EXCEPT ![t] = new]
    BY <1>8 DEF signIn, adopt, become
  <2> HIDE DEF new
  <2>4. TypeOK'
    BY <1>8, <2>1, <2>2, <2>3 DEF signIn, adopt, become, Supersede, InsideLock, TypeOK
  <2> QED BY <1>8, <2>4 DEF signIn, Renewable
<1>9. ASSUME NEW t \in Pages, signOut(t) PROVE TypeInv'
  BY <1>9 DEF signOut, TypeOK, Renewable
<1>10. ASSUME NEW t \in Pages, revoke(t) PROVE TypeInv'
  <2>1. head' \in [Chains -> 0..MaxRenewals + 1]
    BY <1>10, HeadType DEF revoke, TypeOK
  <2> QED BY <1>10, <2>1 DEF revoke, TypeOK, Renewable
<1>11. ASSUME NEW t \in Pages, SignedOut(t) PROVE TypeInv'
  <2>1. left' \in [Pages -> SUBSET Chains]
    <3>1. {leaving[t].token.chain, access[t].chain} \ {0} \subseteq Chains
      BY DEF TypeOK
    <3> QED BY <1>11, <3>1 DEF SignedOut, TypeOK
  <2>2. leaving' \in [Pages -> [at : {"no", "read", "revoked"}, token : Tokens \union {None}]]
    BY <1>11 DEF SignedOut, NotLeaving, TypeOK
  <2>3. TypeOK'
    BY <1>11, <2>1, <2>2 DEF SignedOut, forget, become, Supersede, InsideLock, TypeOK
  <2> QED BY <1>11, <2>3 DEF SignedOut, Renewable
<1>12. ASSUME NEW t \in Pages, Send(t) \/ Unauthorized(t) PROVE TypeInv'
  <2>1. request' \in [Pages -> Requests]
    <3>1. /\ request \in [Pages -> Requests] /\ access[t] \in Tokens \union {None}
          /\ \A k \in Tokens \union {None}, b \in BOOLEAN : Sent(k, b) \in Requests
          /\ RetryLater \in Requests
      BY DEF TypeOK, Requests, Sent, RetryLater
    <3>2. CASE \E k \in Tokens \union {None}, b \in BOOLEAN :
                  request' = [request EXCEPT ![t] = Sent(k, b)]
      BY <3>1, <3>2
    <3>3. CASE \E p \in {"token", "again"} : request' = [request EXCEPT ![t].phase = p]
      BY <3>1, <3>3 DEF Requests
    <3>4. CASE request' = [request EXCEPT ![t] = RetryLater]
      BY <3>1, <3>4
    <3> QED BY <1>12, <3>1, <3>2, <3>3, <3>4 DEF Send, Unauthorized
  <2>2. refresh(t) \/ UNCHANGED stage
    BY <1>12 DEF Send, Unauthorized
  <2>3. TypeOK'
    BY <1>12, <2>1, <2>2, RefreshStage DEF Send, Unauthorized, TypeOK, Requests
  <2> QED BY <1>12, <2>2, <2>3, RefreshStage DEF Send, Unauthorized, Renewable
<1>13. ASSUME NEW t \in Pages, Answered(t) PROVE TypeInv'
  BY <1>13 DEF Answered, NoRequest, TypeOK, Renewable
<1>14. ASSUME NEW t \in Pages, Renew(t) PROVE TypeInv'
  <2>1. held[t] \in Tokens
    BY <1>14 DEF Renew, TypeOK, Renewable
  <2>2. head' \in [Chains -> 0..MaxRenewals + 1]
    BY <1>14, <2>1, HeadType DEF Renew
  <2>3. stage' \in [Pages -> Stages]
    <3>1. {"granted", "refused"} \subseteq Stages
      BY DEF Stages
    <3>2. \E x \in {"granted", "refused"} : stage' = [stage EXCEPT ![t] = x]
      BY <1>14 DEF Renew
    <3> QED BY <3>1, <3>2 DEF TypeOK
  <2>4. TypeOK'
    BY <1>14, <2>2, <2>3 DEF Renew, TypeOK
  <2>5. CASE mayRenew(held[t])
    BY <1>14, <2>1, <2>4, <2>5 DEF Renew, TypeOK, Renewable, mayRenew
  <2>6. CASE ~mayRenew(held[t])
    BY <1>14, <2>1, <2>4, <2>6 DEF Renew, TypeOK, Renewable
  <2> QED BY <2>5, <2>6
<1>15. ASSUME NEW t \in Pages, Close(t) PROVE TypeInv'
  <2>1. head' \in [Chains -> 0..MaxRenewals + 1] /\ lost' \subseteq Tokens
    BY <1>15, AbandonType DEF Close
  <2>2. troubles' \in 0..MaxTroubles
    BY <1>15 DEF Close, Trouble, TypeOK
  <2>3. TypeOK'
    BY <1>15, <2>1, <2>2 DEF Close, NotLeaving, NoRequest, TypeOK, Stages
  <2> QED BY <1>15, <2>3 DEF Close, TypeOK, Renewable
<1>16. ASSUME NEW c \in Chains, EndChain(c) PROVE TypeInv'
  <2>1. troubles' \in 0..MaxTroubles
    BY <1>16 DEF EndChain, Trouble, TypeOK
  <2> QED BY <1>16, <2>1, HeadType DEF EndChain, TypeOK, Renewable
<1>17. CASE UNCHANGED vars
  BY <1>17 DEF TypeOK, Renewable
<1> QED BY <1>1, <1>2, <1>3, <1>4, <1>5, <1>6, <1>7, <1>b, <1>8, <1>9, <1>10, <1>11, <1>12, <1>13,
           <1>14, <1>15, <1>16, <1>17 DEF Next, Person, Renewal, Leaving

(* Tabs, tokens, chains and requests keep their types. *)
THEOREM SessionTypeCorrect == Spec => []TypeOK
<1>1. Spec => []TypeInv
  BY InitType, NextType, PTL DEF Spec
<1>2. TypeInv => TypeOK
  BY DEF TypeInv
<1> QED BY <1>1, <1>2, PTL

-----------------------------------------------------------------------------
(* What the Web Lock buys.  One renewal at a time reads, spends and stores. *)
OneInside == \A t, u \in Pages : InsideLock(t) /\ InsideLock(u) => t = u

(* The chain of the token just spent has moved on by one, or is over; and   *)
(* there is nothing to supersede where nothing is under way.                *)
Rotated ==
   \A t \in Pages :
      /\ stage[t] = "granted" => head[held[t].chain] \in {0, held[t].n + 1}
      /\ superseded[t] => InsideLock(t)

(* No token is of a chain nobody has begun. *)
Begun == /\ stored.chain <= chains
         /\ \A t \in Pages : held[t].chain <= chains

Presentable(token) == head[token.chain] \in {0, token.n} \/ token \in lost

(* The stored token may be presented, unless its renewal is just granted.   *)
StoredGood ==
   stored # None => \/ Presentable(stored)
                    \/ \E t \in Pages : stage[t] = "granted" /\ held[t] = stored

HeldGood ==
   \A t \in Pages : stage[t] \in {"reading", "asking"} /\ held[t] # None => Presentable(held[t])

(* What superseded a renewal replaced the token it read. *)
Moved == \A t \in Pages : superseded[t] => stored = None \/ stored # held[t]

Shared == Begun /\ StoredGood /\ HeldGood /\ Moved

LockInv == TypeInv /\ OneInside /\ Rotated /\ Shared

-----------------------------------------------------------------------------
(* Chains that end and answers that are lost leave a token presentable. *)
LEMMA StillPresentable ==
  ASSUME TypeOK, NEW k \in Tokens, Presentable(k), lost \subseteq lost',
         head' = head \/ \E c \in Chains : head' = [head EXCEPT ![c] = 0]
  PROVE  Presentable(k)'
BY TokenFacts DEF TypeOK, Presentable

(* Steps outside the lock, or that end a chain. *)
LEMMA OutsideKeeps ==
  ASSUME LockInv, TypeInv',
         \A t \in Pages : stage'[t] = stage[t] \/ {stage[t], stage'[t]} \subseteq {"idle", "queued"},
         UNCHANGED <<stored, held, superseded, chains, lost>>,
         head' = head \/ \E c \in Chains : head' = [head EXCEPT ![c] = 0]
  PROVE  LockInv'
<1> USE DEF LockInv, Shared
<1>1. OneInside' /\ Begun' /\ Moved'
  BY DEF OneInside, Begun, Moved, InsideLock
<1>2. \A c \in Chains : head'[c] \in {0, head[c]}
  BY DEF TypeInv, TypeOK
<1>3. Rotated'
  BY <1>2, TokenFacts DEF Rotated, InsideLock, TypeInv, TypeOK, Renewable
<1>4. \A k \in Tokens : Presentable(k) => Presentable(k)'
  BY StillPresentable DEF TypeInv
<1>5. StoredGood' /\ HeldGood'
  BY <1>4 DEF StoredGood, HeldGood, TypeInv, TypeOK
<1> QED BY <1>1, <1>3, <1>5

(* A renewal that ends with the stored token as it was, its answer, if the  *)
(* server gave one, superseded or recorded as lost.                         *)
LEMMA EndKeeps ==
  ASSUME LockInv, TypeInv', NEW t \in Pages,
         stage' = [stage EXCEPT ![t] = "idle"], held' = [held EXCEPT ![t] = None],
         superseded' = [superseded EXCEPT ![t] = FALSE],
         UNCHANGED <<stored, chains>>, lost \subseteq lost',
         \A k \in Tokens : Presentable(k) => Presentable(k)',
         stage[t] = "granted" /\ stored = held[t] => Presentable(stored)',
         \A u \in Pages \ {t} : stage[u] = "granted" => head'[held[u].chain] \in {0, held[u].n + 1}
  PROVE  LockInv'
<1> USE DEF LockInv, Shared
<1>1. OneInside'
  BY DEF OneInside, InsideLock, TypeInv, TypeOK
<1>2. Begun' /\ Moved'
  BY DEF Begun, Moved, TypeInv, TypeOK, None
<1>3. Rotated'
  BY DEF Rotated, InsideLock, TypeInv, TypeOK
<1>4. StoredGood' /\ HeldGood'
  BY DEF StoredGood, HeldGood, TypeInv, TypeOK
<1> QED BY <1>1, <1>2, <1>3, <1>4

(* An answer nobody will read is lost before its token is presented again. *)
LEMMA AbandonKeeps ==
  ASSUME LockInv, NEW t \in Pages, Abandon(t)
  PROVE  /\ lost \subseteq lost'
         /\ \A k \in Tokens : Presentable(k) => Presentable(k)'
         /\ stage[t] = "granted" => held[t] \in lost'
         /\ \A u \in Pages \ {t} : stage[u] = "granted" => head'[held[u].chain] \in {0, held[u].n + 1}
<1> USE DEF LockInv
<1>1. CASE UNCHANGED head
  BY <1>1 DEF Abandon, Presentable, Rotated
<1>2. CASE stage[t] = "asking" /\ mayRenew(held[t])
  <2>1. /\ held[t] \in Tokens /\ head[held[t].chain] = held[t].n
        /\ held[t].n \in 1..MaxRenewals + 1 /\ held[t].chain \in Chains
    BY <1>2, HeadType, TokenFacts DEF TypeInv, TypeOK, Renewable
  <2>2. \A u \in Pages \ {t} : stage[u] # "granted"
    BY <1>2 DEF OneInside, InsideLock
  <2>3. CASE UNCHANGED head
    BY <2>3, <1>1
  <2>4. CASE head' = [head EXCEPT ![held[t].chain] = @ + 1] /\ lost' = lost \union {held[t]}
    <3>1. ASSUME NEW k \in Tokens, Presentable(k) PROVE Presentable(k)'
      <4>1. k.chain = held[t].chain /\ k.n = held[t].n => k = held[t]
        BY <2>1 DEF Tokens
      <4> QED BY <2>1, <2>4, <3>1, <4>1, TokenFacts DEF Presentable, TypeInv, TypeOK
    <3> QED BY <1>2, <2>2, <2>4, <3>1
  <2> QED BY <1>2, <2>3, <2>4 DEF Abandon
<1> QED BY <1>1, <1>2 DEF Abandon

-----------------------------------------------------------------------------
LEMMA InitLock == Init => LockInv
<1> SUFFICES ASSUME Init PROVE LockInv
  OBVIOUS
<1>1. TypeInv
  BY InitType
<1> QED BY <1>1 DEF Init, LockInv, Shared, OneInside, Rotated, Begun, StoredGood, HeldGood, Moved,
                    InsideLock, None

LEMMA LockKept == ASSUME Locks, LockInv, [Next]_vars PROVE LockInv'
<1>0. TypeInv'
  BY NextType DEF LockInv
<1> USE <1>0 DEF serverVars
<1>1. ASSUME NEW t \in Pages, restore(t) PROVE LockInv'
  BY <1>1, OutsideKeeps DEF restore
<1>2. ASSUME NEW t \in Pages, Acquire(t) PROVE LockInv'
  <2>1. \A u \in Pages : ~InsideLock(u)
    BY <1>2 DEF Acquire
  <2>2. stored # None => Presentable(stored)
    BY <2>1 DEF LockInv, Shared, StoredGood, InsideLock
  <2>3. OneInside' /\ Rotated' /\ Begun'
    BY <1>2, <2>1 DEF Acquire, LockInv, Shared, OneInside, Rotated, Begun, InsideLock, TypeInv, TypeOK
  <2>4. StoredGood' /\ HeldGood'
    BY <1>2, <2>1, <2>2 DEF Acquire, StoredGood, HeldGood, Presentable, InsideLock, LockInv,
                             TypeInv, TypeOK
  <2>5. Moved'
    BY <1>2, <2>1 DEF Acquire, LockInv, Shared, Rotated, Moved
  <2> QED BY <2>3, <2>4, <2>5 DEF LockInv, Shared
<1>3. ASSUME NEW t \in Pages, Superseded(t) PROVE LockInv'
  <2>1. \A k \in Tokens : Presentable(k) => Presentable(k)'
    BY <1>3 DEF Superseded, Presentable
  <2>2. stage[t] = "granted" /\ stored = held[t] => Presentable(stored)'
    BY <1>3 DEF Superseded, LockInv, Shared, Moved, TypeInv, Renewable
  <2> QED BY <1>3, <2>1, <2>2, EndKeeps DEF Superseded, End, LockInv, Rotated
<1>4. ASSUME NEW t \in Pages, Read(t) PROVE LockInv'
  <2>1. \A k \in Tokens : Presentable(k) => Presentable(k)'
    BY <1>4 DEF Read, Presentable
  <2>2. CASE held[t] = None
    BY <1>4, <2>1, <2>2, EndKeeps DEF Read, End, LockInv, Rotated
  <2>3. CASE held[t] # None
    <3>1. stage[t] = "reading" /\ stage' = [stage EXCEPT ![t] = "asking"]
      BY <1>4, <2>3 DEF Read
    <3>2. UNCHANGED <<stored, held, superseded, chains, head, lost>>
      BY <1>4, <2>3 DEF Read
    <3>3. OneInside' /\ Rotated'
      BY <3>1, <3>2 DEF OneInside, Rotated, InsideLock, LockInv, TypeInv, TypeOK
    <3>4. Begun' /\ Moved'
      BY <3>2 DEF Begun, Moved, LockInv, Shared
    <3>5. StoredGood' /\ HeldGood'
      BY <3>1, <3>2 DEF StoredGood, HeldGood, Presentable, LockInv, Shared, TypeInv, TypeOK
    <3> QED BY <3>3, <3>4, <3>5 DEF LockInv, Shared
  <2> QED BY <2>2, <2>3
<1>5. ASSUME NEW t \in Pages, Granted(t) PROVE LockInv'
  <2> DEFINE new == Successor(held[t])
  <2>1. /\ new \in Tokens /\ new.chain = held[t].chain /\ new.n = held[t].n + 1
        /\ head[new.chain] \in {0, new.n}
    BY <1>5, TokenFacts DEF Granted, LockInv, Rotated, TypeInv, TypeOK, Renewable
  <2>2. stored' = new /\ UNCHANGED <<head, chains, lost>>
    BY <1>5 DEF Granted, adopt, become
  <2>3. /\ stage' = [stage EXCEPT ![t] = "idle"] /\ held' = [held EXCEPT ![t] = None]
        /\ superseded' = [superseded EXCEPT ![t] = FALSE]
    BY <1>5 DEF Granted, End
  <2>4. \A u \in Pages \ {t} : ~InsideLock(u)
    BY <1>5 DEF Granted, InsideLock, LockInv, OneInside
  <2>5. stored'.chain <= chains'
    BY <2>1, <2>2 DEF LockInv, Shared, Begun
  <2>6. StoredGood'
    BY <2>1, <2>2 DEF StoredGood, Presentable
  <2> HIDE DEF new
  <2>7. OneInside' /\ Rotated' /\ HeldGood' /\ Moved'
    BY <2>2, <2>3, <2>4 DEF OneInside, Rotated, HeldGood, Moved, InsideLock, LockInv, Shared,
                            TypeInv, TypeOK
  <2>8. Begun'
    BY <2>2, <2>3, <2>5 DEF Begun, None, LockInv, Shared, TypeInv, TypeOK
  <2> QED BY <2>6, <2>7, <2>8 DEF LockInv, Shared
<1>6. ASSUME NEW t \in Pages, Refused(t) PROVE LockInv'
  <2>1. stored' = None /\ UNCHANGED <<head, chains, lost>>
    BY <1>6 DEF Refused, forget, become
  <2>2. /\ stage' = [stage EXCEPT ![t] = "idle"] /\ held' = [held EXCEPT ![t] = None]
        /\ superseded' = [superseded EXCEPT ![t] = FALSE]
    BY <1>6 DEF Refused, End
  <2> QED BY <2>1, <2>2 DEF LockInv, Shared, OneInside, Rotated, Begun, StoredGood, HeldGood,
                            Moved, Presentable, InsideLock, TypeInv, TypeOK, None
<1>7. ASSUME NEW t \in Pages, Unreachable(t) PROVE LockInv'
  <2>1. Abandon(t) /\ UNCHANGED <<stored, chains>>
    BY <1>7 DEF Unreachable
  <2>2. /\ stage' = [stage EXCEPT ![t] = "idle"] /\ held' = [held EXCEPT ![t] = None]
        /\ superseded' = [superseded EXCEPT ![t] = FALSE]
    BY <1>7 DEF Unreachable, End, LockInv, TypeInv, TypeOK
  <2>3. stage[t] = "granted" /\ stored = held[t] => Presentable(stored)'
    BY <2>1, AbandonKeeps DEF Presentable
  <2> QED BY <2>1, <2>2, <2>3, AbandonKeeps, EndKeeps
<1>b. ASSUME NEW t \in Pages, BodyLost(t) PROVE LockInv'
  <2>1. Abandon(t) /\ UNCHANGED <<stored, chains>>
    BY <1>b DEF BodyLost
  <2>2. stage[t] = "granted" /\ stored = held[t] => Presentable(stored)'
    BY <2>1, AbandonKeeps DEF Presentable
  <2> QED BY <1>b, <2>1, <2>2, AbandonKeeps, EndKeeps DEF BodyLost, End
<1>8. ASSUME NEW t \in Pages, signIn(t) PROVE LockInv'
  <2> DEFINE new == [chain |-> chains + 1, n |-> 1]
  <2>1. /\ stored' = new /\ head' = [head EXCEPT ![chains + 1] = 1] /\ chains' = chains + 1
        /\ UNCHANGED <<stage, held, lost>>
        /\ superseded' = [superseded EXCEPT ![t] = InsideLock(t)]
    BY <1>8 DEF signIn, adopt, become, Supersede
  <2>2. chains \in Nat /\ chains + 1 \in Chains
    BY <1>8, SessionAssumption DEF signIn, SessionAssumption, Chains, LockInv, TypeInv, TypeOK
  <2>3. new \in Tokens /\ \A u \in Pages : held[u] # new /\ held[u].chain # chains + 1
    BY <2>2, SessionAssumption DEF SessionAssumption, Tokens, LockInv, Shared, Begun, TypeInv, TypeOK
  <2>4. Presentable(stored)'
    BY <2>1, <2>2 DEF Presentable, LockInv, TypeInv, TypeOK
  <2>5. \A u \in Pages : head'[held[u].chain] = head[held[u].chain]
    BY <2>1, <2>3
  <2>6. StoredGood' /\ Begun'
    <3>1. stored'.chain <= chains'
      BY <2>1, <2>2
    <3>2. \A u \in Pages : held'[u].chain <= chains'
      <4> SUFFICES ASSUME NEW u \in Pages PROVE held[u].chain <= chains + 1
        BY <2>1
      <4>1. held[u].chain <= chains /\ held[u].chain \in Nat
        BY TokenFacts DEF Begun, LockInv, Shared, TypeInv, TypeOK, Chains
      <4> QED BY <2>2, <4>1
    <3> QED BY <2>4, <3>1, <3>2 DEF StoredGood, Begun
  <2>7. OneInside' /\ Rotated' /\ HeldGood'
    BY <2>1, <2>5 DEF OneInside, Rotated, HeldGood, Presentable, InsideLock, LockInv, Shared,
                      TypeInv, TypeOK
  <2>8. Moved'
    BY <2>1, <2>3 DEF Moved
  <2> QED BY <2>6, <2>7, <2>8 DEF LockInv, Shared
<1>9. ASSUME NEW t \in Pages, signOut(t) PROVE LockInv'
  BY <1>9, OutsideKeeps DEF signOut
<1>10. ASSUME NEW t \in Pages, revoke(t) PROVE LockInv'
  <2>1. leaving[t].token # None => leaving[t].token.chain \in Chains
    BY TokenFacts DEF LockInv, TypeInv, TypeOK
  <2> QED BY <1>10, <2>1, OutsideKeeps DEF revoke
<1>11. ASSUME NEW t \in Pages, SignedOut(t) PROVE LockInv'
  <2>1. /\ stored' = None /\ UNCHANGED <<head, chains, lost, stage, held>>
        /\ superseded' = [superseded EXCEPT ![t] = InsideLock(t)]
    BY <1>11 DEF SignedOut, forget, become, Supersede
  <2> QED BY <2>1 DEF LockInv, Shared, OneInside, Rotated, Begun, StoredGood, HeldGood, Moved,
                      Presentable, InsideLock, TypeInv, TypeOK, None
<1>12. ASSUME NEW t \in Pages, Send(t) \/ Unauthorized(t) PROVE LockInv'
  <2>1. refresh(t) \/ UNCHANGED stage
    BY <1>12 DEF Send, Unauthorized
  <2> QED BY <1>12, <2>1, RefreshStage, OutsideKeeps DEF Send, Unauthorized, LockInv, TypeInv
<1>13. ASSUME NEW t \in Pages, Answered(t) PROVE LockInv'
  BY <1>13, OutsideKeeps DEF Answered
<1>14. ASSUME NEW t \in Pages, Renew(t) PROVE LockInv'
  <2>1. /\ held[t] \in Tokens /\ held[t].chain \in Chains
        /\ UNCHANGED <<stored, held, superseded, chains, lost>>
    BY <1>14, TokenFacts DEF Renew, LockInv, TypeInv, TypeOK, Renewable
  <2>2. \A u \in Pages \ {t} : ~InsideLock(u)
    BY <1>14 DEF Renew, InsideLock, LockInv, OneInside
  <2>3. CASE mayRenew(held[t])
    <3>1. /\ head[held[t].chain] = held[t].n /\ held[t].n \in 1..MaxRenewals + 1
          /\ head' = [head EXCEPT ![held[t].chain] = @ + 1]
          /\ stage' = [stage EXCEPT ![t] = "granted"]
      BY <1>14, <2>1, <2>3, HeadType, TokenFacts DEF Renew, LockInv, TypeInv
    <3>2. OneInside' /\ HeldGood'
      BY <1>14, <2>1, <2>2, <3>1 DEF Renew, OneInside, HeldGood, InsideLock, LockInv, TypeInv, TypeOK
    <3>5. Begun' /\ Moved'
      BY <2>1 DEF Begun, Moved, LockInv, Shared
    <3>6. head'[held[t].chain] = held[t].n + 1
      BY <2>1, <3>1 DEF LockInv, TypeInv, TypeOK
    <3>7. Rotated'
      BY <1>14, <2>1, <2>2, <3>1, <3>6 DEF Renew, Rotated, InsideLock, LockInv, TypeInv, TypeOK
    <3>3. stored # None /\ stored # held[t] => Presentable(stored)'
      <4> SUFFICES ASSUME stored # None, stored # held[t] PROVE Presentable(stored)'
        OBVIOUS
      <4>1. Presentable(stored) /\ stored \in Tokens
        BY <2>2 DEF InsideLock, LockInv, Shared, StoredGood, TypeInv, TypeOK
      <4>2. stored.chain = held[t].chain => stored.n # held[t].n
        BY <2>1, <4>1 DEF Tokens
      <4> QED BY <2>1, <3>1, <4>1, <4>2, TokenFacts DEF Presentable, LockInv, TypeInv, TypeOK
    <3>4. StoredGood'
      BY <2>1, <3>1, <3>3 DEF StoredGood, LockInv, TypeInv, TypeOK
    <3> QED BY <3>2, <3>4, <3>5, <3>7 DEF LockInv, Shared
  <2>4. CASE ~mayRenew(held[t])
    <3>1. /\ head' = [head EXCEPT ![held[t].chain] = 0] /\ stage' = [stage EXCEPT ![t] = "refused"]
      BY <1>14, <2>4 DEF Renew
    <3>2. \A k \in Tokens : Presentable(k) => Presentable(k)'
      BY <2>1, <3>1, StillPresentable DEF LockInv, TypeInv
    <3>3. OneInside' /\ Rotated' /\ Begun' /\ Moved'
      BY <2>1, <2>2, <3>1 DEF OneInside, Rotated, Begun, Moved, InsideLock, LockInv, Shared,
                              TypeInv, TypeOK
    <3>4. HeldGood' /\ StoredGood'
      BY <1>14, <2>1, <2>2, <3>1, <3>2 DEF Renew, HeldGood, StoredGood, InsideLock, LockInv, Shared,
                                    TypeInv, TypeOK
    <3> QED BY <3>3, <3>4 DEF LockInv, Shared
  <2> QED BY <2>3, <2>4
<1>15. ASSUME NEW t \in Pages, Close(t) PROVE LockInv'
  <2>1. Abandon(t) /\ UNCHANGED <<stored, chains>>
    BY <1>15 DEF Close
  <2>2. stage[t] = "granted" /\ stored = held[t] => Presentable(stored)'
    BY <2>1, AbandonKeeps DEF Presentable
  <2> QED BY <1>15, <2>1, <2>2, AbandonKeeps, EndKeeps DEF Close
<1>16. ASSUME NEW c \in Chains, EndChain(c) PROVE LockInv'
  BY <1>16, OutsideKeeps DEF EndChain, tabVars
<1>17. CASE UNCHANGED vars
  BY <1>17, OutsideKeeps DEF vars
<1> QED BY <1>1, <1>2, <1>3, <1>4, <1>5, <1>6, <1>7, <1>b, <1>8, <1>9, <1>10, <1>11, <1>12, <1>13,
           <1>14, <1>15, <1>16, <1>17 DEF Next, Person, Renewal, Leaving

(* In a browser with Web Locks two tabs never spend the same refresh token, *)
(* whoever signs in or out in any of them meanwhile.                        *)
THEOREM OneSpender == Locks /\ Spec => []SpentOnce
<1>1. ASSUME Locks PROVE Spec => []LockInv
  <2>1. LockInv /\ [Next]_vars => LockInv'
    BY <1>1, LockKept
  <2> QED BY InitLock, <2>1, PTL DEF Spec
<1>2. LockInv => SpentOnce
  BY TokenFacts DEF LockInv, Shared, HeldGood, Presentable, SpentOnce, TypeInv, TypeOK, Renewable
<1>3. ASSUME Locks PROVE Spec => []SpentOnce
  BY <1>1, <1>2, <1>3, PTL
<1> QED BY <1>3

-----------------------------------------------------------------------------
(* Leaving a session, when nobody signs in or out while another tab renews *)
(* (Apart): a session left does not come back, and only leaving it empties *)
(* the storage of a token the server would still renew.                    *)

(* No token, wherever it is, is of a chain nobody has begun.                *)
Dated ==
   /\ stored.chain <= chains
   /\ \A t \in Pages : /\ held[t].chain <= chains /\ access[t].chain <= chains
                       /\ leaving[t].token.chain <= chains
                       /\ \A c \in left[t] : c <= chains

(* A renewal that nothing has superseded is of the session in the storage's *)
(* line, and no tab has left that session.                                  *)
Gone ==
   \A t \in Pages :
      /\ access[t].chain \notin left[t] /\ stored.chain \notin left[t]
      /\ \A u \in Pages : InsideLock(u) /\ ~superseded[u] => held[u].chain \notin left[t]

LeftInv == TypeInv /\ Dated /\ Gone

LEMMA InitLeft == Init => LeftInv
<1> SUFFICES ASSUME Init PROVE LeftInv
  OBVIOUS
<1>1. TypeInv
  BY InitType
<1> QED BY <1>1, TokenFacts DEF Init, LeftInv, Dated, Gone, NotLeaving, InsideLock

(* Requests, locks and what the server does on its own.                     *)
LEMMA ElsewhereKeeps ==
   ASSUME LeftInv, TypeInv', UNCHANGED <<stored, access, held, superseded, chains, left>>,
          \A t \in Pages : leaving'[t].token.chain <= chains,
          \A t \in Pages : InsideLock(t)' => InsideLock(t)
   PROVE  LeftInv'
BY DEF LeftInv, Dated, Gone

(* A renewal that ends in one tab, with what it leaves in the storage.      *)
LEMMA EndLeaves ==
   ASSUME LeftInv, TypeInv', NEW t \in Pages,
          stage' = [stage EXCEPT ![t] = "idle"], held' = [held EXCEPT ![t] = None],
          \A u \in Pages \ {t} : superseded'[u] = superseded[u] /\ access'[u] = access[u],
          UNCHANGED <<leaving, chains>>,
          left' = left \/ left' = [left EXCEPT ![t] = {}],
          stored' = stored \/ \A u \in Pages : stored'.chain \notin left[u],
          access'[t] = access[t] \/ access'[t].chain \notin left[t],
          stored'.chain <= chains, access'[t].chain <= chains
   PROVE  LeftInv'
<1>1. TypeOK /\ Dated /\ Gone
  BY DEF LeftInv, TypeInv
<1>2. held'[t] = None /\ \A u \in Pages \ {t} : held'[u] = held[u]
  BY <1>1 DEF TypeOK
<1>3. \A u \in Pages : left'[u] \subseteq left[u]
  BY <1>1 DEF TypeOK
<1>4. stage'[t] = "idle" /\ \A u \in Pages \ {t} : stage'[u] = stage[u]
  BY <1>1 DEF TypeOK
<1>5. Dated'
  BY <1>1, <1>2, <1>3, TokenFacts DEF Dated, TypeOK
<1>6. Gone'
  BY <1>1, <1>2, <1>3, <1>4 DEF Gone, InsideLock
<1> QED BY <1>5, <1>6 DEF LeftInv

LEMMA LeftKept == ASSUME Apart, LeftInv, [Next]_vars PROVE LeftInv'
<1>0. TypeInv' /\ TypeInv /\ TypeOK /\ Dated /\ Gone
  BY NextType DEF LeftInv, TypeInv
<1>a. chains \in Nat /\ \A t \in Pages : leaving[t].token.chain <= chains
  BY <1>0, SessionAssumption DEF Dated, TypeOK, SessionAssumption
<1>1. ASSUME NEW t \in Pages, restore(t) \/ Answered(t) PROVE LeftInv'
  BY <1>0, <1>1, ElsewhereKeeps DEF restore, Answered, Dated, InsideLock, serverVars
<1>2. ASSUME NEW t \in Pages, Acquire(t) PROVE LeftInv'
  BY <1>0, <1>2 DEF Acquire, LeftInv, Dated, Gone, InsideLock, TypeOK, serverVars
<1>3. ASSUME NEW t \in Pages, Superseded(t) PROVE LeftInv'
  BY <1>0, <1>3, EndLeaves DEF Superseded, End, Dated, TypeOK, serverVars
<1>4. ASSUME NEW t \in Pages, Read(t) PROVE LeftInv'
  <2>1. CASE held[t] = None
    <3>1. access' = [access EXCEPT ![t] = None]
      BY <1>4, <2>1 DEF Read
    <3>2. access'[t].chain = 0 /\ 0 \notin left[t]
      BY <1>0, <3>1, TokenFacts DEF TypeOK, Chains
    <3> QED BY <1>0, <1>4, <2>1, <3>1, <3>2, <1>a, EndLeaves DEF Read, End, Dated, TypeOK, serverVars
  <2>2. CASE held[t] # None
    BY <1>0, <1>4, <2>2, ElsewhereKeeps DEF Read, Dated, InsideLock, TypeOK, serverVars
  <2> QED BY <2>1, <2>2
<1>5. ASSUME NEW t \in Pages, Granted(t) PROVE LeftInv'
  <2> DEFINE new == Successor(held[t])
  <2>1. new.chain = held[t].chain
    BY <1>0, <1>5, TokenFacts DEF Granted, TypeInv, TypeOK, Renewable
  <2>2. stored' = new /\ access' = [access EXCEPT ![t] = new] /\ UNCHANGED <<leaving, chains, left>>
    BY <1>5 DEF Granted, adopt, become, serverVars
  <2>3. /\ stage' = [stage EXCEPT ![t] = "idle"] /\ held' = [held EXCEPT ![t] = None]
        /\ superseded' = [superseded EXCEPT ![t] = FALSE]
    BY <1>5 DEF Granted, End
  <2>4. \A u \in Pages : held[t].chain \notin left[u]
    BY <1>0, <1>5 DEF Granted, Gone, InsideLock
  <2> HIDE DEF new
  <2> QED BY <1>0, <2>1, <2>2, <2>3, <2>4, EndLeaves DEF Dated, TypeOK
<1>6. ASSUME NEW t \in Pages, Refused(t) PROVE LeftInv'
  <2>1. /\ stored' = None /\ access' = [access EXCEPT ![t] = None]
        /\ UNCHANGED <<leaving, chains, left>>
    BY <1>6 DEF Refused, forget, become, serverVars
  <2>2. /\ stage' = [stage EXCEPT ![t] = "idle"] /\ held' = [held EXCEPT ![t] = None]
        /\ superseded' = [superseded EXCEPT ![t] = FALSE]
    BY <1>6 DEF Refused, End
  <2>3. None.chain = 0 /\ \A u \in Pages : 0 \notin left[u]
    BY <1>0, TokenFacts DEF TypeOK, Chains
  <2>4. access'[t] = None /\ \A u \in Pages \ {t} :
           superseded'[u] = superseded[u] /\ access'[u] = access[u]
    BY <1>0, <2>1, <2>2 DEF TypeOK
  <2>5. stored'.chain <= chains /\ access'[t].chain <= chains
    BY <1>a, <2>1, <2>3, <2>4
  <2> QED BY <1>0, <2>1, <2>2, <2>3, <2>4, <2>5, EndLeaves
<1>7. ASSUME NEW t \in Pages, Unreachable(t) \/ BodyLost(t) PROVE LeftInv'
  <2>1. /\ stage' = [stage EXCEPT ![t] = "idle"] /\ held' = [held EXCEPT ![t] = None]
        /\ UNCHANGED <<stored, access, leaving, chains, left>>
        /\ superseded' = [superseded EXCEPT ![t] = FALSE] \/ UNCHANGED superseded
    BY <1>7 DEF Unreachable, BodyLost, End
  <2> QED BY <1>0, <2>1, EndLeaves DEF Dated, TypeOK
<1>8. ASSUME NEW t \in Pages, signIn(t) PROVE LeftInv'
  <2> DEFINE new == [chain |-> chains + 1, n |-> 1]
  <2>1. /\ stored' = new /\ access' = [access EXCEPT ![t] = new] /\ chains' = chains + 1
        /\ UNCHANGED <<stage, held, leaving, left>>
        /\ superseded' = [superseded EXCEPT ![t] = InsideLock(t)]
    BY <1>8 DEF signIn, adopt, become, Supersede
  <2>2. new.chain = chains + 1 /\ \A u \in Pages : chains + 1 \notin left[u]
    BY <1>0, <1>a DEF Dated, TypeOK, Chains
  <2> HIDE DEF new
  <2>3. \A u \in Pages : access'[u] \in {access[u], new} /\ (access'[u] = new => u = t \/ access[u] = new)
    BY <1>0, <2>1 DEF TypeOK
  <2>4. Dated'
    <3>1. \A k \in Tokens \union {None} : k.chain <= chains => k.chain <= chains + 1
      BY <1>a, TokenFacts DEF Chains
    <3>2. \A u \in Pages : /\ held[u] \in Tokens \union {None} /\ access[u] \in Tokens \union {None}
                           /\ leaving[u].token \in Tokens \union {None} /\ left[u] \subseteq Nat
      BY <1>0 DEF TypeOK, Chains
    <3> QED BY <1>0, <1>a, <2>1, <2>2, <2>3, <3>1, <3>2 DEF Dated
  <2>5. Gone'
    <3>1. \A u \in Pages : InsideLock(u)' => InsideLock(u)
      BY <2>1 DEF InsideLock
    <3>2. \A u \in Pages : InsideLock(u) /\ ~superseded'[u] => ~superseded[u]
      <4>1. \A u \in Pages \ {t} : superseded'[u] = superseded[u]
        BY <1>0, <2>1 DEF TypeOK
      <4>2. InsideLock(t) => superseded'[t]
        BY <1>0, <2>1 DEF TypeOK
      <4> QED BY <4>1, <4>2
    <3> QED BY <1>0, <2>1, <2>2, <2>3, <3>1, <3>2 DEF Gone
  <2> QED BY <1>0, <2>4, <2>5 DEF LeftInv
<1>9. ASSUME NEW t \in Pages, signOut(t) PROVE LeftInv'
  <2>1. \A u \in Pages : leaving'[u].token.chain <= chains
    BY <1>0, <1>9 DEF signOut, Dated, TypeOK
  <2> QED BY <1>0, <1>9, <2>1, ElsewhereKeeps DEF signOut, serverVars, InsideLock
<1>10. ASSUME NEW t \in Pages, revoke(t) PROVE LeftInv'
  <2>1. \A u \in Pages : leaving'[u].token = leaving[u].token
    BY <1>0, <1>10 DEF revoke, TypeOK
  <2> QED BY <1>0, <1>a, <1>10, <2>1, ElsewhereKeeps DEF revoke, InsideLock
<1>11. ASSUME NEW t \in Pages, SignedOut(t) PROVE LeftInv'
  <2>1. /\ stored' = None /\ access' = [access EXCEPT ![t] = None]
        /\ UNCHANGED <<stage, held, chains>>
        /\ superseded' = [superseded EXCEPT ![t] = InsideLock(t)]
        /\ leaving' = [leaving EXCEPT ![t] = NotLeaving]
        /\ left' = [left EXCEPT ![t] = @ \union ({leaving[t].token.chain, access[t].chain} \ {0})]
    BY <1>11 DEF SignedOut, forget, become, Supersede, serverVars
  <2>2. \A u \in Pages \ {t} : ~InsideLock(u)
    BY <1>11 DEF SignedOut, Quiet, InsideLock
  <2>3. None.chain = 0 /\ \A u \in Pages : 0 \notin left'[u]
    BY <1>0, TokenFacts DEF TypeInv, TypeOK, Chains
  <2>4. InsideLock(t)' => superseded'[t]
    BY <1>0, <2>1 DEF TypeOK, InsideLock
  <2>5. \A u \in Pages \ {t} : /\ access'[u] = access[u] /\ left'[u] = left[u]
                               /\ leaving'[u] = leaving[u] /\ ~InsideLock(u)'
    BY <1>0, <2>1, <2>2 DEF TypeOK, InsideLock
  <2>6. access'[t] = None /\ leaving'[t].token = None
    BY <1>0, <2>1 DEF TypeOK, NotLeaving
  <2>7. \A c \in left'[t] : c <= chains
    BY <1>0, <2>1 DEF TypeOK, Dated
  <2>8. Dated'
    BY <1>0, <1>a, <2>1, <2>3, <2>5, <2>6, <2>7 DEF Dated
  <2>9. Gone'
    BY <1>0, <2>1, <2>3, <2>4, <2>5, <2>6 DEF Gone
  <2> QED BY <1>0, <2>8, <2>9 DEF LeftInv
<1>12. ASSUME NEW t \in Pages, Send(t) \/ Unauthorized(t) PROVE LeftInv'
  <2>1. refresh(t) \/ UNCHANGED stage
    BY <1>12 DEF Send, Unauthorized
  <2>2. \A u \in Pages : InsideLock(u)' => InsideLock(u)
    BY <1>0, <2>1, RefreshStage DEF InsideLock
  <2> QED BY <1>0, <1>a, <1>12, <2>2, ElsewhereKeeps DEF Send, Unauthorized, serverVars
<1>13. ASSUME NEW t \in Pages, Renew(t) PROVE LeftInv'
  <2>1. \A u \in Pages : InsideLock(u)' => InsideLock(u)
    BY <1>0, <1>13 DEF Renew, InsideLock, TypeOK
  <2> QED BY <1>0, <1>a, <1>13, <2>1, ElsewhereKeeps DEF Renew
<1>14. ASSUME NEW t \in Pages, Close(t) PROVE LeftInv'
  <2>1. /\ stage' = [stage EXCEPT ![t] = "idle"] /\ held' = [held EXCEPT ![t] = None]
        /\ access' = [access EXCEPT ![t] = None] /\ left' = [left EXCEPT ![t] = {}]
        /\ superseded' = [superseded EXCEPT ![t] = FALSE]
        /\ leaving' = [leaving EXCEPT ![t] = NotLeaving] /\ UNCHANGED <<stored, chains>>
    BY <1>14 DEF Close
  <2>2. \A u \in Pages \ {t} : /\ access'[u] = access[u] /\ left'[u] = left[u]
                               /\ leaving'[u] = leaving[u] /\ held'[u] = held[u]
                               /\ stage'[u] = stage[u] /\ superseded'[u] = superseded[u]
    BY <1>0, <2>1 DEF TypeOK
  <2>3. /\ access'[t] = None /\ leaving'[t].token = None /\ held'[t] = None
        /\ left'[t] = {} /\ stage'[t] = "idle"
    BY <1>0, <2>1 DEF TypeOK, NotLeaving
  <2>4. Dated'
    BY <1>0, <1>a, <2>1, <2>2, <2>3, TokenFacts DEF Dated
  <2>5. Gone'
    BY <1>0, <2>1, <2>2, <2>3 DEF Gone, InsideLock
  <2> QED BY <1>0, <2>4, <2>5 DEF LeftInv
<1>15. ASSUME NEW c \in Chains, EndChain(c) PROVE LeftInv'
  BY <1>0, <1>a, <1>15, ElsewhereKeeps DEF EndChain, tabVars, InsideLock
<1>16. CASE UNCHANGED vars
  BY <1>0, <1>a, <1>16, ElsewhereKeeps DEF vars, InsideLock
<1> QED BY <1>1, <1>2, <1>3, <1>4, <1>5, <1>6, <1>7, <1>8, <1>9, <1>10, <1>11, <1>12, <1>13,
           <1>14, <1>15, <1>16 DEF Next, Person, Renewal, Leaving

(* A session a person left does not come back in that tab, by a renewal     *)
(* that was under way or by anything another tab stores (session.ts,        *)
(* generation).                                                             *)
THEOREM NotComingBack == Apart /\ Spec => []LeftForGood
<1>1. ASSUME Apart PROVE Spec => []LeftInv
  <2>1. LeftInv /\ [Next]_vars => LeftInv'
    BY <1>1, LeftKept
  <2> QED BY InitLeft, <2>1, PTL DEF Spec
<1>2. LeftInv => LeftForGood
  BY DEF LeftInv, Gone, LeftForGood
<1>3. ASSUME Apart PROVE Spec => []LeftForGood
  BY <1>1, <1>2, <1>3, PTL
<1> QED BY <1>3

-----------------------------------------------------------------------------
(* A renewal that nothing has superseded is of the token in the storage,    *)
(* and one refused was of a chain that is over.                             *)
Lined ==
   \A t \in Pages : ~superseded[t] =>
      /\ InsideLock(t) => stored = held[t]
      /\ stage[t] = "refused" => head[held[t].chain] = 0

LineInv == LockInv /\ LeftInv /\ Lined

LEMMA InitLine == Init => LineInv
<1> SUFFICES ASSUME Init PROVE LineInv
  OBVIOUS
<1>1. LockInv /\ LeftInv
  BY InitLock, InitLeft
<1> QED BY <1>1 DEF Init, LineInv, Lined, InsideLock

(* Steps that leave the storage and the renewals under way as they are, and *)
(* at most end a chain.                                                     *)
LEMMA LinedApart ==
   ASSUME LineInv, UNCHANGED <<stored, held, superseded>>,
          \A t \in Pages : stage'[t] = stage[t] \/ {stage[t], stage'[t]} \subseteq {"idle", "queued"},
          head' = head \/ \E c \in Chains : head' = [head EXCEPT ![c] = 0]
   PROVE  Lined'
<1>1. head \in [Chains -> 0..MaxRenewals + 1] /\ Lined
  BY DEF LineInv, LeftInv, TypeInv, TypeOK
<1>2. \A c : head[c] = 0 /\ c \in Chains => head'[c] = 0
  BY <1>1
<1>3. \A t \in Pages : stage[t] = "refused" => held[t].chain \in Chains
  BY TokenFacts DEF LineInv, LeftInv, TypeInv, TypeOK, Renewable
<1> QED BY <1>1, <1>2, <1>3 DEF Lined, InsideLock

(* Steps of the tab whose renewal it is, or when none is under way: the     *)
(* others are not inside the lock.                                          *)
LEMMA LinedAlone ==
   ASSUME LineInv, NEW t \in Pages, \A u \in Pages \ {t} : ~InsideLock(u)',
          ~InsideLock(t)' \/ superseded'[t]
   PROVE  Lined'
BY DEF Lined, InsideLock

LEMMA LineKept == ASSUME Locks, Apart, LineInv, [Next]_vars PROVE LineInv'
<1>0. LockInv' /\ LeftInv'
  BY LockKept, LeftKept DEF LineInv
<1>a. TypeOK /\ TypeInv /\ OneInside /\ Rotated /\ Lined
  BY DEF LineInv, LockInv, TypeInv
<1>b. \A t \in Pages : InsideLock(t) => \A u \in Pages \ {t} : ~InsideLock(u)
  BY <1>a DEF OneInside
<1> SUFFICES Lined'
  BY <1>0 DEF LineInv
<1>1. ASSUME NEW t \in Pages, restore(t) \/ signOut(t) \/ revoke(t) \/ Answered(t) PROVE Lined'
  <2>1. leaving[t].token # None => leaving[t].token.chain \in Chains
    BY <1>a, TokenFacts DEF TypeOK
  <2> QED BY <1>1, <2>1, LinedApart DEF restore, signOut, revoke, Answered, serverVars
<1>2. ASSUME NEW t \in Pages, Acquire(t) PROVE Lined'
  <2>1. \A u \in Pages : ~InsideLock(u) /\ ~superseded[u]
    BY <1>2, <1>a DEF Acquire, Rotated
  <2> QED BY <1>2, <1>a, <2>1 DEF Acquire, Lined, InsideLock, TypeOK
<1>3. ASSUME NEW t \in Pages,
             Superseded(t) \/ Granted(t) \/ Refused(t) \/ Unreachable(t) \/ BodyLost(t)
             \/ (Read(t) /\ held[t] = None)
      PROVE  Lined'
  <2>1. InsideLock(t) /\ stage' = [stage EXCEPT ![t] = "idle"]
    BY <1>3 DEF Superseded, Granted, Refused, Unreachable, BodyLost, Read, End, InsideLock
  <2> QED BY <1>a, <1>b, <2>1, LinedAlone DEF InsideLock, TypeOK
<1>4. ASSUME NEW t \in Pages, Read(t), held[t] # None PROVE Lined'
  <2>1. /\ stage[t] = "reading" /\ stage' = [stage EXCEPT ![t] = "asking"]
        /\ UNCHANGED <<stored, held, superseded, head>>
    BY <1>4 DEF Read, serverVars
  <2> QED BY <2>1, <1>a DEF Lined, InsideLock, TypeOK
<1>d. ASSUME NEW t \in Pages, Read(t) PROVE Lined'
  BY <1>3, <1>4, <1>d
<1>e. ASSUME NEW t \in Pages, Superseded(t) \/ Granted(t) \/ Refused(t) \/ Unreachable(t)
             \/ BodyLost(t)
      PROVE  Lined'
  BY <1>3, <1>e
<1>5. ASSUME NEW t \in Pages, signIn(t) \/ SignedOut(t) PROVE Lined'
  <2>1. /\ superseded' = [superseded EXCEPT ![t] = InsideLock(t)] /\ UNCHANGED stage
        /\ \A u \in Pages \ {t} : ~InsideLock(u)
    BY <1>5 DEF signIn, SignedOut, Supersede, Quiet, InsideLock
  <2>2. InsideLock(t) => superseded'[t]
    BY <1>a, <2>1 DEF TypeOK
  <2> QED BY <2>1, <2>2, LinedAlone DEF InsideLock
<1>6. ASSUME NEW t \in Pages, Send(t) \/ Unauthorized(t) PROVE Lined'
  <2>1. refresh(t) \/ UNCHANGED stage
    BY <1>6 DEF Send, Unauthorized
  <2> QED BY <1>6, <1>a, <2>1, RefreshStage, LinedApart DEF Send, Unauthorized, serverVars
<1>7. ASSUME NEW t \in Pages, Renew(t) PROVE Lined'
  <2>1. InsideLock(t) /\ held[t].chain \in Chains /\ UNCHANGED <<stored, held, superseded>>
    BY <1>7, <1>a, TokenFacts DEF Renew, InsideLock, TypeInv, TypeOK, Renewable
  <2>2. \/ stage' = [stage EXCEPT ![t] = "granted"]
        \/ stage' = [stage EXCEPT ![t] = "refused"] /\ head' = [head EXCEPT ![held[t].chain] = 0]
    BY <1>7 DEF Renew
  <2> QED BY <1>a, <1>b, <2>1, <2>2 DEF Lined, InsideLock, TypeOK
<1>8. ASSUME NEW t \in Pages, Close(t) PROVE Lined'
  <2>1. /\ stage' = [stage EXCEPT ![t] = "idle"] /\ Abandon(t) /\ UNCHANGED stored
        /\ held' = [held EXCEPT ![t] = None] /\ superseded' = [superseded EXCEPT ![t] = FALSE]
    BY <1>8 DEF Close
  <2>2. CASE InsideLock(t)
    BY <1>a, <1>b, <2>1, <2>2, LinedAlone DEF InsideLock, TypeOK
  <2>3. CASE ~InsideLock(t)
    <3>1. UNCHANGED head
      BY <2>1, <2>3 DEF Abandon, InsideLock
    <3> QED BY <1>a, <2>1, <3>1 DEF Lined, InsideLock, TypeOK
  <2> QED BY <2>2, <2>3
<1>9. ASSUME NEW c \in Chains, EndChain(c) PROVE Lined'
  BY <1>9, LinedApart DEF EndChain, tabVars
<1>10. CASE UNCHANGED vars
  BY <1>10, LinedApart DEF vars
<1> QED BY <1>1, <1>2, <1>d, <1>e, <1>5, <1>6, <1>7, <1>8, <1>9, <1>10
        DEF Next, Person, Renewal, Leaving

(* What empties the storage of a token the server would still renew.        *)
LEMMA OnlyLeaving ==
   ASSUME LineInv, Next, isCurrent(stored), stored' = None
   PROVE  \E t \in Pages : SignedOut(t)
<1>1. TypeInv /\ TypeOK /\ Lined /\ stored # None /\ stored \in Tokens
  BY DEF LineInv, LockInv, TypeInv, TypeOK, isCurrent
<1>2. ASSUME NEW t \in Pages, Granted(t) PROVE FALSE
  <2>1. stored' = Successor(held[t]) /\ Successor(held[t]) \in Tokens
    BY <1>1, <1>2, TokenFacts DEF Granted, adopt, become, TypeInv, TypeOK, Renewable
  <2> QED BY <2>1, TokenFacts
<1>3. ASSUME NEW t \in Pages, Refused(t) PROVE FALSE
  <2>1. stored = held[t] /\ head[held[t].chain] = 0
    BY <1>1, <1>3 DEF Refused, Lined, InsideLock
  <2>2. stored.n \in 1..MaxRenewals + 1 /\ stored.n = 0
    BY <1>1, <2>1, TokenFacts DEF isCurrent
  <2> QED BY <2>2
<1>4. ASSUME NEW t \in Pages, signIn(t) PROVE FALSE
  <2>1. stored' = [chain |-> chains + 1, n |-> 1]
    BY <1>4 DEF signIn, adopt, become
  <2> QED BY <2>1 DEF None
<1>5. ASSUME UNCHANGED stored PROVE FALSE
  BY <1>1, <1>5
<1>6. ASSUME NEW t \in Pages,
             \/ restore(t) \/ signOut(t) \/ Send(t) \/ Close(t) \/ Acquire(t) \/ Superseded(t)
             \/ Read(t) \/ Unreachable(t) \/ BodyLost(t) \/ revoke(t) \/ Unauthorized(t)
             \/ Answered(t) \/ Renew(t)
      PROVE  UNCHANGED stored
  BY <1>6 DEF restore, signOut, Send, Close, Acquire, Superseded, Read, Unreachable, BodyLost, revoke,
              Unauthorized, Answered, Renew
<1>7. ASSUME NEW c \in Chains, EndChain(c) PROVE UNCHANGED stored
  BY <1>7 DEF EndChain
<1> QED BY <1>2, <1>3, <1>4, <1>5, <1>6, <1>7 DEF Next, Person, Renewal, Leaving

(* A refusal meant for one session never ends the one that replaced it: in  *)
(* a browser with Web Locks only a sign-out empties the storage of a token  *)
(* that is still good (session.ts 150-190).                                 *)
THEOREM OnlySignOutEmpties == Locks /\ Apart /\ Spec => LiveTokenKept
<1>1. ASSUME Locks, Apart PROVE Spec => []LineInv
  <2>1. LineInv /\ [Next]_vars => LineInv'
    BY <1>1, LineKept
  <2> QED BY InitLine, <2>1, PTL DEF Spec
<1>2. LineInv /\ [Next]_vars =>
         [isCurrent(stored) /\ stored' = None => \E t \in Pages : SignedOut(t)]_vars
  BY OnlyLeaving
<1>3. ASSUME Locks, Apart PROVE Spec => LiveTokenKept
  BY <1>1, <1>2, <1>3, PTL DEF Spec, LiveTokenKept
<1> QED BY <1>3
=============================================================================
