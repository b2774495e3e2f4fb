------------------------- MODULE StaffSessionProofs -------------------------
(***************************************************************************)
(* What is proved of the session of a tablet on a counter, for any number  *)
(* of sign-ins, renewals, ticks, calls on their way and troubles.          *)
(***************************************************************************)
EXTENDS StaffSession, FiniteSetTheorems, TLAPS

-----------------------------------------------------------------------------
(* The types, in the parts a step may disturb; and what is known of a       *)
(* handle once it has been read: there is one, and one that was renewed     *)
(* could be.                                                                *)
SomeToken == Tokens \union {None}

SnapOK == /\ state \in {"unknown", "unenrolled", "locked", "signedIn"}
          /\ device \in Kinds \union {"none"} /\ identity \in Chains \union {0}
TokensOK == /\ access \in SomeToken /\ age \in 0 .. Life
            /\ stored \in SomeToken /\ deviceToken \in Kinds \union {"none"}
PendingOK == pending \in Seq(Pending)
AwayOK == /\ pin \in Away /\ call \in Calls /\ setup \in Setups
          /\ leaving \in [at : {"no", "read", "told", "unpaired", "settling"}, token : SomeToken]
IdleOK == armed \in BOOLEAN /\ due \in 0 .. NoTimer /\ untouched \in 0 .. Idle
ServerOK == /\ chains \in 0 .. MaxChains /\ head \in [Chains -> 0 .. MaxRenewals + 1]
            /\ revoked \in BOOLEAN /\ off \in BOOLEAN
HistoryOK == over \subseteq Chains /\ late \in BOOLEAN /\ lost \subseteq Tokens
RenewalOK ==
   /\ renewal \in Away
   /\ renewal.stage \in {"asking", "granted", "refused", "revoked", "off"} => renewal.held # None
   /\ renewal.stage = "granted" => renewal.held.n <= MaxRenewals
TroublesOK == troubles \in 0 .. MaxTroubles

Typed == /\ SnapOK /\ TokensOK /\ PendingOK /\ AwayOK /\ IdleOK /\ ServerOK /\ HistoryOK
         /\ RenewalOK /\ TroublesOK

LEMMA TypedIs == Typed => TypeOK
BY DEF Typed, SnapOK, TokensOK, PendingOK, AwayOK, IdleOK, ServerOK, HistoryOK, RenewalOK,
       TroublesOK, SomeToken, TypeOK

LEMMA Bounds ==
  /\ MaxChains \in Nat /\ MaxRenewals \in Nat /\ MaxTroubles \in Nat
  /\ Idle \in Nat /\ Idle >= 1 /\ Life \in Nat /\ Life >= 1 /\ NoTimer = Idle + 1
  /\ 0 \in 0 .. Life /\ 0 \in 0 .. Idle /\ 0 \in 0 .. NoTimer /\ NoTimer \in 0 .. NoTimer
  /\ Idle \in 0 .. NoTimer /\ 0 \in 0 .. MaxTroubles /\ 0 \in 0 .. MaxChains
  /\ 0 \in 0 .. MaxRenewals + 1
<1>1. /\ MaxChains \in Nat /\ MaxRenewals \in Nat /\ MaxTroubles \in Nat
      /\ Idle \in Nat /\ Idle >= 1 /\ Life \in Nat /\ Life >= 1 /\ NoTimer = Idle + 1
  BY StaffAssumption DEF StaffAssumption, NoTimer
<1> HIDE DEF NoTimer
<1> QED BY <1>1

LEMMA TokenIs ==
  /\ None.chain = 0 /\ None.n = 0 /\ None \notin Tokens
  /\ \A t \in Tokens : /\ t.chain \in Chains /\ t.n \in 1 .. MaxRenewals + 1
                       /\ t.n \in Nat /\ t.chain \in Nat /\ t # None
BY Bounds DEF None, Tokens, Chains

LEMMA Rests ==
  /\ Resting \in Away /\ Resting.stage = "idle" /\ Resting.held = None
  /\ NoCall \in Calls /\ NoSetup \in Setups
  /\ NotLeaving \in [at : {"no", "read", "told", "unpaired", "settling"}, token : SomeToken]
BY DEF Resting, Away, Stages, NoCall, Calls, Kinds, NoSetup, Setups, NotLeaving, SomeToken

LEMMA Troubled == ASSUME Trouble, TroublesOK PROVE TroublesOK'
BY Bounds DEF Trouble, TroublesOK

LEMMA InitTyped == ASSUME Init PROVE Typed
<1>0. SnapOK
  BY DEF Init, SnapOK
<1>1. IdleOK
  BY Bounds, Zenon DEF Init, IdleOK
<1>2. TokensOK /\ HistoryOK /\ TroublesOK
  BY Bounds, Zenon DEF Init, TokensOK, HistoryOK, SomeToken, TroublesOK
<1>3. PendingOK /\ AwayOK /\ RenewalOK
  BY Rests DEF Init, PendingOK, AwayOK, RenewalOK
<1>4. ServerOK
  BY Bounds, Zenon DEF Init, ServerOK
<1> QED BY <1>0, <1>1, <1>2, <1>3, <1>4 DEF Typed

-----------------------------------------------------------------------------
(* What the storage is asked, and what a drop and an adoption leave.        *)
Bys == {"renewal", "pin", "call", "setup", "leaving", "idle", "floor"}

LEMMA AwaitTyped ==
  ASSUME Typed, NEW by \in Bys, NEW then \in {"locked", "unenrolled", "signedIn", "enrolled"},
         NEW chain \in Chains \union {0}, await(by, then, chain)
  PROVE  PendingOK'
<1>1. [then |-> then, chain |-> chain, by |-> by, handle |-> stored, token |-> deviceToken]
        \in Pending
  BY DEF Typed, TokensOK, SomeToken, Pending, Bys
<1> QED BY <1>1 DEF Typed, PendingOK, await

LEMMA OverlapTyped == ASSUME Typed, NEW by, NEW then, Overlap(by, then) PROVE late' \in BOOLEAN
BY Zenon DEF Overlap

LEMMA DropTyped ==
  ASSUME Typed, NEW by \in Bys, NEW then \in {"locked", "unenrolled"}, drop(by, then),
         deviceToken' \in Kinds \union {"none"}
  PROVE  TokensOK' /\ IdleOK' /\ PendingOK' /\ HistoryOK'
<1>1. access' = None /\ age' = 0 /\ stored' = None /\ armed' = FALSE /\ due' = NoTimer
      /\ UNCHANGED <<untouched, over, lost>>
  BY DEF drop
<1>2. PendingOK'
  BY AwaitTyped DEF drop
<1>3. late' \in BOOLEAN
  BY OverlapTyped DEF drop
<1>4. TokensOK' /\ IdleOK'
  BY <1>1, Bounds DEF Typed, TokensOK, IdleOK, SomeToken
<1> QED BY <1>1, <1>2, <1>3, <1>4 DEF Typed, HistoryOK

LEMMA LockTyped ==
  ASSUME Typed, NEW by \in Bys, lock(by)
  PROVE  TokensOK' /\ IdleOK' /\ PendingOK' /\ HistoryOK'
BY DropTyped DEF lock, Typed, TokensOK

LEMMA UnenrolTyped ==
  ASSUME Typed, NEW by \in Bys, unenrol(by)
  PROVE  TokensOK' /\ IdleOK' /\ PendingOK' /\ HistoryOK'
BY DropTyped DEF unenrol

LEMMA AdoptTyped ==
  ASSUME Typed, NEW by \in Bys, NEW token \in SomeToken, adopt(by, token)
  PROVE  TokensOK' /\ PendingOK' /\ HistoryOK'
<1>1. access' = token /\ age' = 0 /\ stored' = token /\ UNCHANGED <<deviceToken, over, lost>>
  BY DEF adopt
<1>2. token.chain \in Chains \union {0}
  BY TokenIs DEF SomeToken
<1>3. PendingOK'
  BY <1>2, AwaitTyped DEF adopt
<1>4. late' \in BOOLEAN
  BY OverlapTyped DEF adopt
<1> QED BY <1>1, <1>3, <1>4, Bounds DEF Typed, TokensOK, HistoryOK

LEMMA RenewTyped == ASSUME Typed, renew PROVE RenewalOK'
BY DEF Typed, RenewalOK, TokensOK, SomeToken, renew, Away, Stages

LEMMA HeadPending ==
  ASSUME PendingOK, pending # <<>>
  PROVE  Head(pending) \in Pending /\ Tail(pending) \in Seq(Pending) /\ Head(pending) = pending[1]
         /\ Len(pending) \in Nat /\ Len(pending) >= 1
BY DEF PendingOK

-----------------------------------------------------------------------------
(* Each step keeps the types.                                               *)
LEMMA StoredTyped == ASSUME Typed, Stored PROVE Typed'
<1> DEFINE entry == Head(pending)
<1>1. /\ entry \in Pending /\ entry.then # "enrolled" /\ pending' = Tail(pending) /\ PendingOK'
      /\ Show(entry) /\ Proceed(entry.by) /\ UNCHANGED <<server, troubles>>
  BY HeadPending DEF Stored, Typed, PendingOK
<1>2. entry.then \in {"locked", "unenrolled", "signedIn"} /\ entry.chain \in Chains \union {0}
  BY <1>1 DEF Pending
<1> HIDE DEF entry
<1>3. SnapOK'
  BY <1>1, <1>2 DEF Typed, SnapOK, Show
<1>4. IdleOK'
  <2>1. Idle - 0 = Idle
    BY Bounds
  <2> QED BY <1>1, <2>1, Bounds DEF Typed, IdleOK, Show, armIdle, idleVars
<1>5. TokensOK' /\ HistoryOK'
  BY <1>1 DEF Typed, SnapOK, TokensOK, HistoryOK, Show, tokens
<1>6. RenewalOK'
  BY <1>1, Rests DEF Typed, RenewalOK, Proceed
<1>7. AwayOK'
  <2>1. [setup EXCEPT !.stage = "reading", !.held = None] \in Setups
    BY DEF Typed, AwayOK, Setups
  <2> QED BY <1>1, <2>1, Rests DEF Typed, AwayOK, Proceed
<1>8. ServerOK' /\ TroublesOK'
  BY <1>1 DEF Typed, ServerOK, TroublesOK, server
<1> QED BY <1>1, <1>3, <1>4, <1>5, <1>6, <1>7, <1>8 DEF Typed

LEMMA restoreTyped == ASSUME Typed, restore PROVE Typed'
<1>1. UNCHANGED <<device, identity, tokens, pending, away, idleVars, server, history, troubles>>
      /\ state' \in {"unenrolled", "locked"}
  BY DEF restore
<1>2. RenewalOK'
  <2>1. CASE UNCHANGED renewal
    BY <2>1 DEF Typed, RenewalOK
  <2>2. CASE renew
    BY <2>2, RenewTyped
  <2> QED BY <2>1, <2>2 DEF restore
<1> QED BY <1>1, <1>2 DEF Typed, SnapOK, TokensOK, PendingOK, AwayOK, IdleOK, ServerOK, HistoryOK,
           TroublesOK, tokens, away, idleVars, server, history

LEMMA RenewalReadTyped == ASSUME Typed, RenewalRead PROVE Typed'
<1>1. UNCHANGED <<snapshot, away, server, troubles>> /\ renewal.stage = "reading"
  BY DEF RenewalRead
<1>2. SnapOK' /\ AwayOK' /\ ServerOK' /\ TroublesOK'
  BY <1>1 DEF Typed, SnapOK, AwayOK, ServerOK, TroublesOK, snapshot, away, server
<1>3. CASE renewal.held # None /\ renewal' = [renewal EXCEPT !.stage = "asking"]
           /\ UNCHANGED <<tokens, pending, idleVars, history>>
  <2>1. RenewalOK'
    BY <1>3 DEF Typed, RenewalOK, Away, Stages
  <2>2. TokensOK' /\ PendingOK' /\ IdleOK' /\ HistoryOK'
    BY <1>3 DEF Typed, TokensOK, PendingOK, IdleOK, HistoryOK, tokens, idleVars, history
  <2> QED BY <1>2, <2>1, <2>2 DEF Typed
<1>4. CASE lock("renewal") /\ renewal' = [renewal EXCEPT !.stage = "settling"]
  <2>1. RenewalOK'
    BY <1>4 DEF Typed, RenewalOK, Away, Stages
  <2>2. "renewal" \in Bys
    BY DEF Bys
  <2> QED BY <1>2, <1>4, <2>1, <2>2, LockTyped DEF Typed
<1>5. CASE access' = None /\ age' = 0 /\ renewal' = Resting
           /\ UNCHANGED <<stored, deviceToken, pending, idleVars, history>>
  <2>1. RenewalOK'
    BY <1>5, Rests DEF RenewalOK
  <2>2. TokensOK' /\ PendingOK' /\ IdleOK' /\ HistoryOK'
    BY <1>5, Bounds DEF Typed, TokensOK, SomeToken, PendingOK, IdleOK, HistoryOK, idleVars, history
  <2> QED BY <1>2, <2>1, <2>2 DEF Typed
<1> QED BY <1>3, <1>4, <1>5 DEF RenewalRead

LEMMA SuccessorIs ==
  ASSUME NEW t \in Tokens, t.n <= MaxRenewals
  PROVE  Successor(t) \in Tokens /\ Successor(t).chain = t.chain /\ Successor(t).n = t.n + 1
<1>1. t.n + 1 \in 1 .. MaxRenewals + 1
  BY TokenIs, Bounds
<1> QED BY <1>1 DEF Successor, Tokens

LEMMA HeldIs ==
  ASSUME Typed
  PROVE  /\ renewal.held \in SomeToken /\ renewal.stage \in Stages
         /\ renewal.stage \in {"asking", "granted", "refused", "revoked", "off"} =>
               renewal.held \in Tokens /\ renewal.held.chain \in Chains /\ renewal.held.n \in Nat
         /\ renewal.stage = "granted" => Successor(renewal.held) \in Tokens
<1>1. renewal.held \in SomeToken /\ renewal.stage \in Stages
  BY DEF Typed, RenewalOK, Away, SomeToken
<1> QED BY <1>1, TokenIs, SuccessorIs DEF Typed, RenewalOK, SomeToken

LEMMA RenewalAnsweredTyped == ASSUME Typed, RenewalAnswered PROVE Typed'
<1>1. UNCHANGED <<snapshot, away, server, troubles>>
      /\ renewal' = [renewal EXCEPT !.stage = "settling"]
  BY DEF RenewalAnswered
<1>2. SnapOK' /\ AwayOK' /\ ServerOK' /\ TroublesOK'
  BY <1>1 DEF Typed, SnapOK, AwayOK, ServerOK, TroublesOK, snapshot, away, server
<1>3. RenewalOK' /\ "renewal" \in Bys
  BY <1>1 DEF Typed, RenewalOK, Away, Stages, Bys
<1>4. CASE renewal.stage = "granted" /\ adopt("renewal", Successor(renewal.held)) /\ UNCHANGED idleVars
  <2>1. Successor(renewal.held) \in SomeToken
    BY <1>4, HeldIs DEF SomeToken
  <2>2. TokensOK' /\ PendingOK' /\ HistoryOK'
    BY <1>3, <1>4, <2>1, AdoptTyped
  <2>3. IdleOK'
    BY <1>4 DEF Typed, IdleOK, idleVars
  <2> QED BY <1>2, <1>3, <2>2, <2>3 DEF Typed
<1>5. CASE unenrol("renewal") \/ lock("renewal")
  BY <1>2, <1>3, <1>5, LockTyped, UnenrolTyped DEF Typed
<1> QED BY <1>4, <1>5 DEF RenewalAnswered

(* A chain's handle may be counted on, or the chain ended. *)
LEMMA HeadCounts ==
  ASSUME Typed, NEW c \in Chains, NEW n \in 0 .. MaxRenewals + 1
  PROVE  [head EXCEPT ![c] = n] \in [Chains -> 0 .. MaxRenewals + 1]
BY DEF Typed, ServerOK

LEMMA HeadRenewed ==
  ASSUME Typed, NEW t \in Tokens, mayRenew(t)
  PROVE  head[t.chain] + 1 \in 0 .. MaxRenewals + 1
<1>1. head[t.chain] = t.n /\ t.n \in 1 .. MaxRenewals + 1 /\ t.n <= MaxRenewals
  BY TokenIs DEF mayRenew
<1> QED BY <1>1, Bounds

LEMMA RenewalLostTyped == ASSUME Typed, RenewalLost PROVE Typed'
<1>1. UNCHANGED <<snapshot, tokens, pending, away, idleVars, chains, revoked, off, over, late>>
      /\ renewal' = Resting /\ Trouble /\ Abandon /\ renewal.stage \in {"asking", "granted"}
  BY DEF RenewalLost
<1>2. SnapOK' /\ TokensOK' /\ PendingOK' /\ AwayOK' /\ IdleOK'
  BY <1>1 DEF Typed, SnapOK, TokensOK, PendingOK, AwayOK, IdleOK, snapshot, tokens, away, idleVars
<1>3. RenewalOK' /\ TroublesOK'
  BY <1>1, Rests, Troubled DEF Typed, RenewalOK
<1>4. renewal.held \in Tokens
  BY <1>1, HeldIs
<1>5. head' \in [Chains -> 0 .. MaxRenewals + 1] /\ lost' \subseteq Tokens
  <2>1. CASE UNCHANGED head /\ lost' \subseteq lost \union {renewal.held}
    BY <1>4, <2>1 DEF Typed, ServerOK, HistoryOK
  <2>2. CASE /\ mayRenew(renewal.held) /\ head' = [head EXCEPT ![renewal.held.chain] = @ + 1]
             /\ lost' = lost \union {renewal.held}
    <3>1. head[renewal.held.chain] + 1 \in 0 .. MaxRenewals + 1 /\ renewal.held.chain \in Chains
      BY <1>4, <2>2, HeadRenewed, TokenIs
    <3> QED BY <1>4, <2>2, <3>1, HeadCounts DEF Typed, HistoryOK
  <2> QED BY <1>1, <2>1, <2>2 DEF Abandon
<1> QED BY <1>1, <1>2, <1>3, <1>5 DEF Typed, ServerOK, HistoryOK

LEMMA signInWithPinTyped == ASSUME Typed, signInWithPin PROVE Typed'
<1>1. UNCHANGED <<snapshot, renewal, call, setup, leaving, server, troubles>>
  BY DEF signInWithPin
<1>2. SnapOK' /\ RenewalOK' /\ ServerOK' /\ TroublesOK'
  BY <1>1 DEF Typed, SnapOK, RenewalOK, ServerOK, TroublesOK, snapshot, server
<1>3. AwayOK'
  <2>1. [Resting EXCEPT !.stage = "settling"] \in Away /\ [Resting EXCEPT !.stage = "asking"] \in Away
    BY DEF Resting, Away, Stages
  <2> QED BY <1>1, <2>1 DEF Typed, AwayOK, signInWithPin
<1>4. CASE unenrol("pin")
  <2>1. "pin" \in Bys
    BY DEF Bys
  <2> QED BY <1>2, <1>3, <1>4, <2>1, UnenrolTyped DEF Typed
<1>5. CASE UNCHANGED <<tokens, pending, idleVars, history>>
  BY <1>2, <1>3, <1>5 DEF Typed, TokensOK, PendingOK, IdleOK, HistoryOK, tokens, idleVars, history
<1> QED BY <1>4, <1>5 DEF signInWithPin

LEMMA PinAnsweredTyped == ASSUME Typed, PinAnswered PROVE Typed'
<1>1. UNCHANGED <<snapshot, renewal, call, setup, leaving, server, troubles>>
      /\ pin' = [pin EXCEPT !.stage = "settling"]
  BY DEF PinAnswered
<1>2. SnapOK' /\ RenewalOK' /\ ServerOK' /\ TroublesOK'
  BY <1>1 DEF Typed, SnapOK, RenewalOK, ServerOK, TroublesOK, snapshot, server
<1>3. AwayOK' /\ pin.held \in SomeToken /\ "pin" \in Bys
  <2>1. pin' \in Away /\ pin.held \in SomeToken
    BY <1>1 DEF Typed, AwayOK, Away, Stages, SomeToken
  <2> QED BY <1>1, <2>1 DEF Typed, AwayOK, Bys
<1>4. CASE unenrol("pin")
  BY <1>2, <1>3, <1>4, UnenrolTyped DEF Typed
<1>5. CASE adopt("pin", pin.held) /\ UNCHANGED idleVars
  <2>1. TokensOK' /\ PendingOK' /\ HistoryOK'
    BY <1>3, <1>5, AdoptTyped
  <2>2. IdleOK'
    BY <1>5 DEF Typed, IdleOK, idleVars
  <2> QED BY <1>2, <1>3, <2>1, <2>2 DEF Typed
<1> QED BY <1>4, <1>5 DEF PinAnswered

(* The steps of the calls and of the network that touch only the calls. *)
LEMMA OnlyAwayTyped ==
  ASSUME Typed, UNCHANGED <<tokens, pending, renewal, idleVars, server, history>>,
         SnapOK', AwayOK', TroublesOK'
  PROVE  Typed'
BY DEF Typed, TokensOK, PendingOK, RenewalOK, IdleOK, ServerOK, HistoryOK,
       tokens, idleVars, server, history

LEMMA PinRefusedTyped == ASSUME Typed, PinRefused PROVE Typed'
<1>1. UNCHANGED <<snapshot, tokens, pending, renewal, call, setup, leaving, idleVars,
                  server, history, troubles>> /\ pin' = Resting
  BY DEF PinRefused
<1>2. SnapOK' /\ AwayOK' /\ TroublesOK'
  BY <1>1, Rests DEF Typed, SnapOK, AwayOK, TroublesOK, snapshot
<1> QED BY <1>1, <1>2, OnlyAwayTyped

LEMMA refreshDeviceTyped == ASSUME Typed, refreshDevice PROVE Typed'
<1>1. UNCHANGED <<snapshot, tokens, renewal, pin, setup, leaving, idleVars, server,
                  history, troubles>>
  BY DEF refreshDevice
<1>2. SnapOK' /\ TokensOK' /\ RenewalOK' /\ IdleOK' /\ ServerOK' /\ HistoryOK' /\ TroublesOK'
  BY <1>1 DEF Typed, SnapOK, TokensOK, RenewalOK, IdleOK, ServerOK, HistoryOK, TroublesOK,
              snapshot, tokens, idleVars, server, history
<1>3. PendingOK'
  <2>1. CASE await("call", "unenrolled", 0)
    <3>1. "call" \in Bys
      BY DEF Bys
    <3> QED BY <2>1, <3>1, AwaitTyped
  <2>2. CASE UNCHANGED pending
    BY <2>2 DEF Typed, PendingOK
  <2> QED BY <2>1, <2>2 DEF refreshDevice
<1>4. call' \in Calls
  <2>1. deviceToken # "none" => [what |-> "device", kind |-> deviceToken, stage |-> "asking"] \in Calls
    BY DEF Typed, TokensOK, Calls, Stages
  <2>2. [NoCall EXCEPT !.stage = "settling"] \in Calls
    BY DEF NoCall, Calls, Kinds, Stages
  <2> QED BY <2>1, <2>2 DEF refreshDevice
<1>5. AwayOK'
  BY <1>1, <1>4 DEF Typed, AwayOK
<1> QED BY <1>2, <1>3, <1>5 DEF Typed

LEMMA rosterTyped == ASSUME Typed, roster PROVE Typed'
<1>1. UNCHANGED <<snapshot, renewal, pin, setup, leaving, server, troubles>>
  BY DEF roster
<1>2. SnapOK' /\ RenewalOK' /\ ServerOK' /\ TroublesOK'
  BY <1>1 DEF Typed, SnapOK, RenewalOK, ServerOK, TroublesOK, snapshot, server
<1>3. call' \in Calls
  <2>1. deviceToken # "none" => [what |-> "roster", kind |-> deviceToken, stage |-> "asking"] \in Calls
    BY DEF Typed, TokensOK, Calls, Stages
  <2>2. [NoCall EXCEPT !.what = "roster", !.stage = "settling"] \in Calls
    BY DEF NoCall, Calls, Kinds, Stages
  <2> QED BY <2>1, <2>2 DEF roster
<1>4. AwayOK' /\ "call" \in Bys
  BY <1>1, <1>3 DEF Typed, AwayOK, Bys
<1>5. CASE unenrol("call")
  BY <1>2, <1>4, <1>5, UnenrolTyped DEF Typed
<1>6. CASE UNCHANGED <<tokens, pending, idleVars, history>>
  BY <1>2, <1>4, <1>6 DEF Typed, TokensOK, PendingOK, IdleOK, HistoryOK, tokens, idleVars, history
<1> QED BY <1>5, <1>6 DEF roster

LEMMA CallAnsweredTyped == ASSUME Typed, CallAnswered PROVE Typed'
<1>1. UNCHANGED <<state, identity, renewal, pin, setup, leaving, server, troubles>>
  BY DEF CallAnswered
<1>2. RenewalOK' /\ ServerOK' /\ TroublesOK'
  BY <1>1 DEF Typed, RenewalOK, ServerOK, TroublesOK, server
<1>3. call.kind \in Kinds /\ [call EXCEPT !.stage = "settling"] \in Calls
  BY DEF Typed, AwayOK, Calls, Stages
<1>4. SnapOK' /\ call' \in Calls
  BY <1>1, <1>3, Rests DEF Typed, SnapOK, CallAnswered
<1>5. AwayOK' /\ "call" \in Bys
  BY <1>1, <1>4 DEF Typed, AwayOK, Bys
<1>6. CASE unenrol("call") \/ lock("call")
  BY <1>2, <1>4, <1>5, <1>6, LockTyped, UnenrolTyped DEF Typed
<1>7. CASE UNCHANGED <<tokens, pending, idleVars, history>>
  BY <1>2, <1>4, <1>5, <1>7
     DEF Typed, TokensOK, PendingOK, IdleOK, HistoryOK, tokens, idleVars, history
<1> QED BY <1>6, <1>7 DEF CallAnswered

LEMMA CallLostTyped == ASSUME Typed, CallLost PROVE Typed'
<1>1. UNCHANGED <<snapshot, tokens, pending, renewal, pin, setup, leaving, idleVars,
                  server, history>> /\ call' = NoCall /\ TroublesOK'
  BY Troubled DEF CallLost, Typed
<1>2. SnapOK' /\ AwayOK'
  BY <1>1, Rests DEF Typed, SnapOK, AwayOK, snapshot
<1> QED BY <1>1, <1>2, OnlyAwayTyped

(* A new chain. *)
LEMMA NewChain ==
  ASSUME Typed, chains < MaxChains
  PROVE  /\ chains + 1 \in Chains /\ chains + 1 \in 0 .. MaxChains
         /\ [chain |-> chains + 1, n |-> 1] \in Tokens
         /\ [head EXCEPT ![chains + 1] = 1] \in [Chains -> 0 .. MaxRenewals + 1]
<1>1. chains + 1 \in Chains /\ chains + 1 \in 0 .. MaxChains /\ 1 \in 1 .. MaxRenewals + 1
      /\ 1 \in 0 .. MaxRenewals + 1
  BY Bounds DEF Typed, ServerOK, Chains
<1>2. [chain |-> chains + 1, n |-> 1] \in Tokens
  BY <1>1 DEF Tokens
<1> QED BY <1>1, <1>2, HeadCounts

LEMMA enrolTyped == ASSUME Typed, NEW kind \in Kinds, enrol(kind) PROVE Typed'
<1>1. UNCHANGED <<snapshot, tokens, pending, renewal, pin, call, leaving, idleVars,
                  off, history, troubles>> /\ revoked' = FALSE
  BY DEF enrol
<1>2. SnapOK' /\ TokensOK' /\ PendingOK' /\ RenewalOK' /\ IdleOK' /\ HistoryOK' /\ TroublesOK'
  BY <1>1 DEF Typed, SnapOK, TokensOK, PendingOK, RenewalOK, IdleOK, HistoryOK, TroublesOK,
              snapshot, tokens, idleVars, history
<1>3. \A t \in SomeToken : [kind |-> kind, stage |-> "minted", held |-> t] \in Setups
  BY DEF Setups, SomeToken
<1>4. CASE setup' = [kind |-> kind, stage |-> "minted", held |-> None] /\ UNCHANGED <<chains, head>>
  <2>1. setup' \in Setups
    BY <1>3, <1>4 DEF SomeToken
  <2> QED BY <1>1, <1>2, <1>4, <2>1 DEF Typed, AwayOK, ServerOK
<1>5. CASE /\ chains < MaxChains /\ chains' = chains + 1 /\ head' = [head EXCEPT ![chains + 1] = 1]
           /\ setup' = [kind |-> kind, stage |-> "minted", held |-> [chain |-> chains + 1, n |-> 1]]
  <2>1. setup' \in Setups
    BY <1>3, <1>5, NewChain DEF SomeToken
  <2>2. ServerOK'
    BY <1>1, <1>5, NewChain DEF Typed, ServerOK
  <2> QED BY <1>1, <1>2, <2>1, <2>2 DEF Typed, AwayOK
<1> QED BY <1>4, <1>5 DEF enrol

LEMMA SetupAnsweredTyped == ASSUME Typed, SetupAnswered PROVE Typed'
<1>1. UNCHANGED <<snapshot, access, age, stored, renewal, pin, call, leaving, idleVars, server,
                  history, troubles>> /\ setup' = [setup EXCEPT !.stage = "writing"]
      /\ deviceToken' = setup.kind /\ await("setup", "enrolled", 0)
  BY DEF SetupAnswered
<1>2. SnapOK' /\ RenewalOK' /\ IdleOK' /\ ServerOK' /\ HistoryOK' /\ TroublesOK'
  BY <1>1 DEF Typed, SnapOK, RenewalOK, IdleOK, ServerOK, HistoryOK, TroublesOK,
              snapshot, idleVars, server, history
<1>3. setup.kind \in Kinds /\ setup' \in Setups
  BY <1>1 DEF Typed, AwayOK, Setups
<1>4. TokensOK' /\ AwayOK'
  BY <1>1, <1>3 DEF Typed, TokensOK, AwayOK
<1>5. PendingOK'
  <2>1. "setup" \in Bys
    BY DEF Bys
  <2> QED BY <1>1, <2>1, AwaitTyped
<1> QED BY <1>2, <1>4, <1>5 DEF Typed

LEMMA EnrolledTyped == ASSUME Typed, Enrolled PROVE Typed'
<1>1. UNCHANGED <<snapshot, renewal, pin, call, leaving, idleVars, server, troubles>>
      /\ pending # <<>>
  BY DEF Enrolled
<1>2. SnapOK' /\ RenewalOK' /\ IdleOK' /\ ServerOK' /\ TroublesOK'
  BY <1>1 DEF Typed, SnapOK, RenewalOK, IdleOK, ServerOK, TroublesOK, snapshot, idleVars, server
<1>3. Tail(pending) \in Seq(Pending)
  BY <1>1, HeadPending DEF Typed
<1>4. CASE pending' = Tail(pending) /\ setup' = [setup EXCEPT !.stage = "reading"]
           /\ UNCHANGED <<tokens, history>>
  <2>1. setup' \in Setups
    BY <1>4 DEF Typed, AwayOK, Setups
  <2> QED BY <1>1, <1>2, <1>3, <1>4, <2>1
          DEF Typed, AwayOK, TokensOK, PendingOK, HistoryOK, tokens, history
<1>5. CASE /\ access' = setup.held /\ age' = 0 /\ stored' = setup.held
           /\ pending' = Append(Tail(pending),
                 [then |-> "signedIn", chain |-> setup.held.chain, by |-> "setup",
                  handle |-> stored, token |-> deviceToken])
           /\ Overlap("setup", "signedIn")
           /\ UNCHANGED <<deviceToken, setup, over, lost>>
  <2>1. setup.held \in SomeToken
    BY DEF Typed, AwayOK, Setups, SomeToken
  <2>2. setup.held.chain \in Chains \union {0}
    BY <2>1, TokenIs DEF SomeToken
  <2>3. [then |-> "signedIn", chain |-> setup.held.chain, by |-> "setup",
         handle |-> stored, token |-> deviceToken] \in Pending
    BY <2>2 DEF Typed, TokensOK, SomeToken, Pending
  <2>4. late' \in BOOLEAN
    BY <1>5, OverlapTyped
  <2>5. TokensOK'
    BY <1>5, <2>1, Bounds DEF Typed, TokensOK
  <2> QED BY <1>1, <1>2, <1>3, <1>5, <2>3, <2>4, <2>5 DEF Typed, AwayOK, PendingOK, HistoryOK
<1> QED BY <1>4, <1>5 DEF Enrolled

LEMMA SetupReadTyped == ASSUME Typed, SetupRead PROVE Typed'
<1>1. UNCHANGED <<tokens, pending, renewal, pin, call, leaving, idleVars, server, history>>
      /\ setup' = NoSetup
  BY DEF SetupRead
<1>2. setup.kind \in Kinds
  BY DEF Typed, AwayOK, Setups
<1>3. SnapOK'
  BY <1>2 DEF Typed, SnapOK, SetupRead, snapshot
<1>4. TroublesOK'
  BY Troubled DEF Typed, TroublesOK, SetupRead
<1> QED BY <1>1, <1>3, <1>4, Rests, OnlyAwayTyped DEF Typed, AwayOK

LEMMA signOutTyped == ASSUME Typed, signOut \/ unpair PROVE Typed'
<1>1. UNCHANGED <<snapshot, tokens, pending, renewal, pin, call, setup, idleVars, history, troubles>>
  BY DEF signOut, unpair
<1>2. UNCHANGED <<chains, head, off>> /\ (revoked' = TRUE \/ revoked' = revoked)
  BY DEF signOut, unpair, server
<1>3. \/ leaving' = [at |-> "read", token |-> stored]
      \/ leaving' = [at |-> "unpaired", token |-> None]
  BY DEF signOut, unpair
<1>4. leaving' \in [at : {"no", "read", "told", "unpaired", "settling"}, token : SomeToken]
  BY <1>3 DEF Typed, TokensOK, SomeToken
<1>5. revoked' \in BOOLEAN
  BY <1>2, Zenon DEF Typed, ServerOK
<1> QED BY <1>1, <1>2, <1>4, <1>5 DEF Typed, SnapOK, TokensOK, PendingOK, AwayOK, IdleOK, ServerOK,
           HistoryOK, RenewalOK, TroublesOK, snapshot, tokens, idleVars, history

LEMMA LeftTyped == ASSUME Typed, Left PROVE Typed'
<1>1. UNCHANGED <<snapshot, renewal, pin, call, setup, server, troubles>>
      /\ leaving' = [at |-> "settling", token |-> None]
  BY DEF Left
<1>2. SnapOK' /\ RenewalOK' /\ ServerOK' /\ TroublesOK' /\ AwayOK'
  BY <1>1 DEF Typed, SnapOK, RenewalOK, ServerOK, TroublesOK, AwayOK, SomeToken, snapshot, server
<1>3. "leaving" \in Bys
  BY DEF Bys
<1>4. lock("leaving") \/ unenrol("leaving")
  BY DEF Left
<1> QED BY <1>2, <1>3, <1>4, LockTyped, UnenrolTyped DEF Typed

(* The steps that touch only the idle check. *)
LEMMA OnlyIdleTyped ==
  ASSUME Typed, UNCHANGED <<snapshot, access, stored, deviceToken, pending, renewal, away, server,
                            history, troubles>>, IdleOK', age' \in 0 .. Life
  PROVE  Typed'
BY DEF Typed, SnapOK, TokensOK, PendingOK, RenewalOK, AwayOK, ServerOK, HistoryOK, TroublesOK,
       snapshot, away, server, history

LEMMA touchTyped == ASSUME Typed, touch PROVE Typed'
<1>1. UNCHANGED <<snapshot, tokens, pending, renewal, away, server, history, troubles>>
      /\ untouched' = 0 /\ (UNCHANGED <<armed, due>> \/ (armed' = TRUE /\ due' = Idle - 0))
  BY DEF touch, armIdle, history
<1>2. Idle - 0 = Idle
  BY Bounds
<1>3. IdleOK'
  BY <1>1, <1>2, Bounds DEF Typed, IdleOK
<1> QED BY <1>1, <1>3, OnlyIdleTyped DEF Typed, TokensOK, tokens

LEMMA IdleCheckTyped == ASSUME Typed, IdleCheck PROVE Typed'
<1>1. UNCHANGED <<snapshot, renewal, away, server, troubles>>
  BY DEF IdleCheck
<1>2. SnapOK' /\ RenewalOK' /\ AwayOK' /\ ServerOK' /\ TroublesOK'
  BY <1>1 DEF Typed, SnapOK, RenewalOK, AwayOK, ServerOK, TroublesOK, snapshot, away, server
<1>3. CASE lock("idle")
  <2>1. "idle" \in Bys
    BY DEF Bys
  <2> QED BY <1>2, <1>3, <2>1, LockTyped DEF Typed
<1>4. CASE due' = NoTimer /\ UNCHANGED <<tokens, pending, armed, untouched, history>>
  <2>1. IdleOK'
    BY <1>4, Bounds DEF Typed, IdleOK
  <2> QED BY <1>1, <1>4, <2>1, OnlyIdleTyped DEF Typed, TokensOK, tokens
<1>5. CASE ~(untouched >= Idle) /\ armIdle(untouched) /\ UNCHANGED <<tokens, pending, untouched, history>>
  <2>1. Idle - untouched \in 0 .. NoTimer
    BY <1>5, Bounds DEF Typed, IdleOK
  <2>2. IdleOK'
    BY <1>5, <2>1 DEF Typed, IdleOK, armIdle
  <2> QED BY <1>1, <1>5, <2>2, OnlyIdleTyped DEF Typed, TokensOK, tokens
<1>6. IdleCheck
  OBVIOUS
<1> QED BY <1>3, <1>4, <1>5, <1>6 DEF IdleCheck

LEMMA TickTyped == ASSUME Typed, Tick PROVE Typed'
<1>1. /\ UNCHANGED <<snapshot, access, stored, deviceToken, pending, renewal, away, armed, server,
                     over, late, lost, troubles>> /\ due # 0
      /\ due' = IF due = NoTimer THEN due ELSE due - 1
      /\ untouched' = IF untouched < Idle THEN untouched + 1 ELSE untouched
      /\ age' = IF age < Life THEN age + 1 ELSE age
  BY DEF Tick
<1>2. due \in Nat /\ due <= NoTimer /\ untouched \in Nat /\ untouched <= Idle
      /\ age \in Nat /\ age <= Life /\ NoTimer \in Nat /\ armed \in BOOLEAN
  BY Bounds DEF Typed, IdleOK, TokensOK
<1>3. due' \in 0 .. NoTimer /\ untouched' \in 0 .. Idle /\ age' \in 0 .. Life
  BY <1>1, <1>2, Bounds
<1> QED BY <1>1, <1>2, <1>3, OnlyIdleTyped DEF IdleOK, history

LEMMA pollTyped == ASSUME Typed, poll \/ Unauthorized PROVE Typed'
<1>1. UNCHANGED <<snapshot, tokens, pending, away, idleVars, server, history, troubles>> /\ renew
  BY DEF poll, Unauthorized
<1> QED BY <1>1, RenewTyped DEF Typed, SnapOK, TokensOK, PendingOK, AwayOK, IdleOK, ServerOK,
           HistoryOK, TroublesOK, snapshot, tokens, away, idleVars, server, history

LEMMA FeatureOffTyped == ASSUME Typed, FeatureOff PROVE Typed'
<1>1. UNCHANGED <<snapshot, renewal, away, server, troubles>> /\ lock("floor") /\ "floor" \in Bys
  BY DEF FeatureOff, Bys
<1> QED BY <1>1, LockTyped DEF Typed, SnapOK, RenewalOK, AwayOK, ServerOK, TroublesOK,
           snapshot, away, server

LEMMA ServeRenewalTyped == ASSUME Typed, ServeRenewal PROVE Typed'
<1> DEFINE c == renewal.held.chain
           granted == ~revoked /\ mayRenew(renewal.held)
           stage == IF revoked THEN "revoked" ELSE IF ~granted THEN "refused"
                    ELSE IF off THEN "off" ELSE "granted"
<1>1. /\ UNCHANGED <<snapshot, tokens, pending, away, idleVars, chains, revoked, off,
                     history, troubles>>
      /\ renewal' = [renewal EXCEPT !.stage = stage]
      /\ head' = [head EXCEPT ![c] = IF granted THEN head[c] + 1 ELSE 0]
  BY DEF ServeRenewal
<1>2. renewal.held \in Tokens /\ c \in Chains /\ renewal \in Away /\ renewal.held # None
  BY HeldIs DEF ServeRenewal, Typed, RenewalOK
<1>3. stage \in {"revoked", "refused", "off", "granted"} /\ (stage = "granted" => granted)
  OBVIOUS
<1>4. renewal' \in Away /\ renewal'.stage = stage /\ renewal'.held = renewal.held
  <2> HIDE DEF stage
  <2> QED BY <1>1, <1>2, <1>3 DEF Away, Stages
<1>5. RenewalOK'
  BY <1>2, <1>3, <1>4 DEF RenewalOK, mayRenew
<1>6. (IF granted THEN head[c] + 1 ELSE 0) \in 0 .. MaxRenewals + 1
  BY <1>2, HeadRenewed, Bounds
<1>7. head' \in [Chains -> 0 .. MaxRenewals + 1]
  <2> HIDE DEF c, granted
  <2> QED BY <1>1, <1>2, <1>6, HeadCounts
<1> QED BY <1>1, <1>5, <1>7 DEF Typed, SnapOK, TokensOK, PendingOK, AwayOK, IdleOK, ServerOK,
           HistoryOK, TroublesOK, snapshot, tokens, away, idleVars, history

LEMMA ServePinTyped == ASSUME Typed, ServePin PROVE Typed'
<1>1. UNCHANGED <<snapshot, tokens, pending, renewal, call, setup, leaving, idleVars,
                  revoked, off, history, troubles>> /\ chains < MaxChains
  BY DEF ServePin
<1>2. SnapOK' /\ TokensOK' /\ PendingOK' /\ RenewalOK' /\ IdleOK' /\ HistoryOK' /\ TroublesOK'
  BY <1>1 DEF Typed, SnapOK, TokensOK, PendingOK, RenewalOK, IdleOK, HistoryOK, TroublesOK,
              snapshot, tokens, idleVars, history
<1>3. CASE pin' = [pin EXCEPT !.stage = "revoked"] /\ UNCHANGED <<chains, head>>
  <2>1. pin' \in Away
    BY <1>3 DEF Typed, AwayOK, Away, Stages
  <2> QED BY <1>1, <1>2, <1>3, <2>1 DEF Typed, AwayOK, ServerOK
<1>4. CASE /\ chains' = chains + 1 /\ head' = [head EXCEPT ![chains + 1] = 1]
           /\ pin' = [stage |-> "granted", held |-> [chain |-> chains + 1, n |-> 1]]
  <2>1. pin' \in Away
    BY <1>1, <1>4, NewChain DEF Away, Stages
  <2>2. ServerOK'
    BY <1>1, <1>4, NewChain DEF Typed, ServerOK
  <2> QED BY <1>1, <1>2, <2>1, <2>2 DEF Typed, AwayOK
<1> QED BY <1>3, <1>4 DEF ServePin

LEMMA ServeCallTyped == ASSUME Typed, ServeCall PROVE Typed'
<1>1. UNCHANGED <<snapshot, tokens, pending, renewal, pin, setup, leaving, idleVars,
                  server, history, troubles>>
  BY DEF ServeCall
<1>2. call' \in Calls
  <2> DEFINE stage == IF revoked THEN "revoked"
                      ELSE IF off /\ call.kind = "phone" /\ call.what = "device" THEN "off"
                      ELSE "granted"
  <2>1. stage \in Stages /\ call' = [call EXCEPT !.stage = stage]
    BY DEF ServeCall, Stages
  <2> HIDE DEF stage
  <2> QED BY <2>1 DEF Typed, AwayOK, Calls
<1>3. SnapOK' /\ AwayOK' /\ TroublesOK'
  BY <1>1, <1>2 DEF Typed, SnapOK, AwayOK, TroublesOK, snapshot
<1> QED BY <1>1, <1>3, OnlyAwayTyped

LEMMA ServeSignOutTyped == ASSUME Typed, ServeSignOut PROVE Typed'
<1>1. UNCHANGED <<snapshot, tokens, pending, renewal, pin, call, setup, idleVars,
                  chains, revoked, off, history, troubles>>
      /\ leaving' = [leaving EXCEPT !.at = "told"]
  BY DEF ServeSignOut
<1>2. leaving' \in [at : {"no", "read", "told", "unpaired", "settling"}, token : SomeToken]
      /\ leaving.token \in SomeToken
  BY <1>1 DEF Typed, AwayOK
<1>3. head' \in [Chains -> 0 .. MaxRenewals + 1]
  <2>1. CASE UNCHANGED head
    BY <2>1 DEF Typed, ServerOK
  <2>2. CASE leaving.token # None /\ head' = [head EXCEPT ![leaving.token.chain] = 0]
    <3>1. leaving.token.chain \in Chains
      BY <1>2, <2>2, TokenIs DEF SomeToken
    <3> QED BY <2>2, <3>1, HeadCounts, Bounds
  <2> QED BY <2>1, <2>2 DEF ServeSignOut
<1> QED BY <1>1, <1>2, <1>3 DEF Typed, SnapOK, TokensOK, PendingOK, RenewalOK, AwayOK, IdleOK,
           ServerOK, HistoryOK, TroublesOK, snapshot, tokens, idleVars, history

LEMMA ManagerTyped == ASSUME Typed, Manager PROVE Typed'
<1>1. UNCHANGED <<snapshot, tokens, pending, renewal, away, idleVars, chains, history>>
  BY DEF Manager
<1>2. TroublesOK'
  BY Troubled DEF Typed, TroublesOK, Manager
<1>3. revoked' \in BOOLEAN /\ off' \in BOOLEAN
  <2>1. revoked \in BOOLEAN /\ off \in BOOLEAN
    BY DEF Typed, ServerOK
  <2> QED BY <2>1, Zenon DEF Manager
<1>4. head' \in [Chains -> 0 .. MaxRenewals + 1]
  <2>1. CASE UNCHANGED head
    BY <2>1 DEF Typed, ServerOK
  <2>2. ASSUME NEW c \in 1 .. chains, head' = [head EXCEPT ![c] = 0]
        PROVE  head' \in [Chains -> 0 .. MaxRenewals + 1]
    <3>1. c \in Chains
      BY Bounds DEF Typed, ServerOK, Chains
    <3> QED BY <2>2, <3>1, HeadCounts, Bounds
  <2> QED BY <2>1, <2>2 DEF Manager
<1> QED BY <1>1, <1>2, <1>3, <1>4 DEF Typed, SnapOK, TokensOK, PendingOK, RenewalOK, AwayOK, IdleOK,
           ServerOK, HistoryOK, snapshot, tokens, away, idleVars, history

LEMMA ReloadTyped == ASSUME Typed, Reload PROVE Typed'
<1>1. /\ state' = "unknown" /\ device' = "none" /\ identity' = 0
      /\ access' = None /\ age' = 0 /\ pending' = <<>> /\ renewal' = Resting
      /\ pin' = Resting /\ call' = NoCall /\ setup' = NoSetup /\ leaving' = NotLeaving
      /\ armed' = FALSE /\ due' = NoTimer /\ untouched' = 0
      /\ UNCHANGED <<chains, revoked, off, over, late>> /\ Trouble
  BY DEF Reload
<1>2. stored' \in SomeToken /\ deviceToken' \in Kinds \union {"none"}
  <2>1. PICK i \in 1 .. Len(pending) + 1 :
           /\ stored' = IF i > Len(pending) THEN stored ELSE pending[i].handle
           /\ deviceToken' = IF i > Len(pending) THEN deviceToken ELSE pending[i].token
    BY DEF Reload
  <2>2. Len(pending) \in Nat /\ \A j \in 1 .. Len(pending) : pending[j] \in Pending
    BY DEF Typed, PendingOK
  <2>3. CASE i > Len(pending)
    BY <2>1, <2>3 DEF Typed, TokensOK
  <2>4. CASE ~(i > Len(pending))
    <3>1. pending[i] \in Pending
      BY <2>2, <2>4
    <3> QED BY <2>1, <2>4, <3>1 DEF Pending, SomeToken
  <2> QED BY <2>3, <2>4
<1>3. head' \in [Chains -> 0 .. MaxRenewals + 1]
  <2>1. CASE UNCHANGED head
    BY <2>1 DEF Typed, ServerOK
  <2>2. CASE /\ renewal.stage = "asking" /\ mayRenew(renewal.held)
             /\ head' = [head EXCEPT ![renewal.held.chain] = @ + 1]
    <3>1. renewal.held \in Tokens /\ renewal.held.chain \in Chains
      BY <2>2, HeldIs
    <3>2. head[renewal.held.chain] + 1 \in 0 .. MaxRenewals + 1
      BY <2>2, <3>1, HeadRenewed
    <3> QED BY <2>2, <3>1, <3>2, HeadCounts
  <2> QED BY <2>1, <2>2 DEF Reload
<1>4. lost' \subseteq Tokens
  <2>1. lost' = lost \union {t \in {stored', renewal.held} : t # None /\ t.n < head'[t.chain]}
    BY DEF Reload
  <2>2. stored' \in SomeToken /\ renewal.held \in SomeToken /\ lost \subseteq Tokens
    BY <1>2, HeldIs DEF Typed, HistoryOK
  <2> QED BY <2>1, <2>2 DEF SomeToken
<1>5. SnapOK' /\ IdleOK'
  BY <1>1, Bounds, Zenon DEF SnapOK, IdleOK
<1>6. TokensOK' /\ PendingOK' /\ AwayOK' /\ RenewalOK' /\ TroublesOK'
  <2>1. None \in SomeToken /\ <<>> \in Seq(Pending)
    BY DEF SomeToken
  <2> QED BY <1>1, <1>2, <2>1, Rests, Bounds, Troubled, Zenon
          DEF Typed, TokensOK, PendingOK, AwayOK, RenewalOK
<1> QED BY <1>1, <1>3, <1>4, <1>5, <1>6 DEF Typed, ServerOK, HistoryOK

LEMMA StepTyped == Typed /\ [Next]_vars => Typed'
<1> SUFFICES ASSUME Typed, [Next]_vars PROVE Typed'
  OBVIOUS
<1>1. CASE UNCHANGED vars
  BY <1>1 DEF vars, Typed, SnapOK, TokensOK, PendingOK, RenewalOK, AwayOK, IdleOK, ServerOK,
     HistoryOK, TroublesOK, snapshot, tokens, away, idleVars, server, history
<1>2. CASE Page
  BY <1>2, StoredTyped, EnrolledTyped, restoreTyped, RenewalReadTyped, RenewalAnsweredTyped,
     PinAnsweredTyped, CallAnsweredTyped, SetupAnsweredTyped, SetupReadTyped, LeftTyped,
     refreshDeviceTyped, rosterTyped, IdleCheckTyped, pollTyped, FeatureOffTyped DEF Page
<1>3. CASE Person
  BY <1>3, signInWithPinTyped, signOutTyped, touchTyped, enrolTyped DEF Person
<1>4. CASE Network
  BY <1>4, ServeRenewalTyped, ServePinTyped, ServeCallTyped, ServeSignOutTyped, RenewalLostTyped,
     PinRefusedTyped, CallLostTyped, ManagerTyped, ReloadTyped DEF Network
<1> QED BY <1>1, <1>2, <1>3, <1>4, TickTyped DEF Next

LEMMA AlwaysTyped == Spec => []Typed
BY InitTyped, StepTyped, PTL DEF Spec

(* The tablet, its session and the server keep their types; a handle is     *)
(* never renewed past the time its session has.                             *)
THEOREM TypeCorrect == Spec => []TypeOK
BY AlwaysTyped, TypedIs, PTL

-----------------------------------------------------------------------------
(* A tablet somebody is signed in on has its check set, for the deadline or *)
(* before, unless the storage is being asked to end the session.            *)
Drops == {"locked", "unenrolled"}

NoDropPending == \A i \in 1 .. Len(pending) : pending[i].then \notin Drops

Armed == state = "signedIn" /\ NoDropPending => armed /\ due + untouched <= Idle

(* What the storage is asked comes last, and nothing else changes place.    *)
LEMMA Awaited ==
  ASSUME PendingOK, NEW by, NEW then, NEW chain, await(by, then, chain)
  PROVE  /\ Len(pending) \in Nat /\ Len(pending') = Len(pending) + 1
         /\ \A i \in 1 .. Len(pending) : pending'[i] = pending[i] /\ i \in 1 .. Len(pending')
         /\ Len(pending') \in 1 .. Len(pending')
         /\ pending'[Len(pending')] = [then |-> then, chain |-> chain, by |-> by,
                                       handle |-> stored, token |-> deviceToken]
<1> DEFINE entry == [then |-> then, chain |-> chain, by |-> by, handle |-> stored,
                     token |-> deviceToken]
<1>1. pending' = Append(pending, entry) /\ pending \in Seq(Pending)
  BY DEF await, PendingOK
<1> HIDE DEF entry
<1>2. /\ Len(pending) \in Nat /\ Len(pending') = Len(pending) + 1
      /\ \A i \in 1 .. Len(pending) : pending'[i] = pending[i] /\ i \in 1 .. Len(pending')
      /\ Len(pending') \in 1 .. Len(pending') /\ pending'[Len(pending')] = entry
  BY <1>1
<1> QED BY <1>2 DEF entry

LEMMA DropAwaited ==
  ASSUME PendingOK, NEW by, NEW then \in Drops, NEW chain, await(by, then, chain)
  PROVE  ~NoDropPending'
<1>1. /\ Len(pending') \in 1 .. Len(pending')
      /\ pending'[Len(pending')] = [then |-> then, chain |-> chain, by |-> by,
                                    handle |-> stored, token |-> deviceToken]
  BY Awaited
<1>2. pending'[Len(pending')].then = then
  BY <1>1
<1> QED BY <1>1, <1>2 DEF NoDropPending

LEMMA Dropped ==
  ASSUME PendingOK, NEW by, lock(by) \/ unenrol(by)
  PROVE  ~NoDropPending'
<1>1. CASE lock(by)
  BY <1>1, DropAwaited DEF lock, drop, Drops
<1>2. CASE unenrol(by)
  BY <1>2, DropAwaited DEF unenrol, drop, Drops
<1> QED BY <1>1, <1>2

LEMMA AwaitKeeps ==
  ASSUME PendingOK, NEW by, NEW then, NEW chain, await(by, then, chain), NoDropPending'
  PROVE  NoDropPending
BY Awaited DEF NoDropPending

LEMMA Popped ==
  ASSUME PendingOK, pending # <<>>
  PROVE  /\ Len(pending) \in Nat /\ Len(Tail(pending)) = Len(pending) - 1
         /\ \A i \in 1 .. Len(pending) : i # 1 =>
               i - 1 \in 1 .. Len(Tail(pending)) /\ Tail(pending)[i - 1] = pending[i]
         /\ \A i \in 1 .. Len(Tail(pending)) :
               i + 1 \in 1 .. Len(pending) /\ Tail(pending)[i] = pending[i + 1]
         /\ Head(pending) = pending[1] /\ 1 \in 1 .. Len(pending)
BY DEF PendingOK

LEMMA StillArmed ==
  ASSUME Armed, state' = state \/ state' # "signedIn", UNCHANGED idleVars,
         NoDropPending' => NoDropPending
  PROVE  Armed'
BY DEF Armed, idleVars

LEMMA ArmedAnew ==
  ASSUME Typed, NEW since \in 0 .. Idle, armIdle(since), untouched' = since
  PROVE  Armed'
BY Bounds DEF armIdle, Armed

LEMMA StoredArmed == ASSUME Typed, Armed, Stored PROVE Armed'
<1> DEFINE entry == Head(pending)
<1>1. /\ entry \in Pending /\ entry.then # "enrolled" /\ pending # <<>>
      /\ Show(entry) /\ pending' = Tail(pending) /\ entry = pending[1]
  BY HeadPending DEF Stored, Typed
<1>2. entry.then \in {"locked", "unenrolled", "signedIn"}
  BY <1>1 DEF Pending
<1> HIDE DEF entry
<1>3. CASE entry.then = "signedIn"
  BY <1>1, <1>3, Bounds, ArmedAnew DEF Show
<1>4. CASE entry.then # "signedIn"
  BY <1>1, <1>4 DEF Show, Armed
<1> QED BY <1>3, <1>4

LEMMA EnrolledArmed == ASSUME Typed, Armed, Enrolled PROVE Armed'
<1>1. /\ pending # <<>> /\ Head(pending).then = "enrolled" /\ PendingOK
      /\ UNCHANGED <<state, idleVars>>
  BY DEF Enrolled, snapshot, Typed
<1>2. Tail(pending) \in Seq(Pending)
  BY <1>1 DEF PendingOK
<1>3. \/ pending' = Tail(pending)
      \/ \E entry : pending' = Append(Tail(pending), entry)
  BY DEF Enrolled
<1>4. \A i \in 1 .. Len(Tail(pending)) : i \in 1 .. Len(pending') /\ pending'[i] = Tail(pending)[i]
  BY <1>2, <1>3
<1>5. NoDropPending' => NoDropPending
  <2> SUFFICES ASSUME NoDropPending', NEW i \in 1 .. Len(pending)
               PROVE  pending[i].then \notin Drops
    BY DEF NoDropPending
  <2>1. CASE i = 1
    BY <1>1, <2>1, Popped DEF Drops
  <2>2. CASE i # 1
    <3>1. i - 1 \in 1 .. Len(Tail(pending)) /\ Tail(pending)[i - 1] = pending[i]
      BY <1>1, <2>2, Popped
    <3>2. i - 1 \in 1 .. Len(pending') /\ pending'[i - 1] = pending[i]
      BY <1>4, <3>1
    <3> QED BY <3>2 DEF NoDropPending
  <2> QED BY <2>1, <2>2
<1> QED BY <1>1, <1>5, StillArmed

LEMMA touchArmed == ASSUME Typed, Armed, touch PROVE Armed'
<1>1. untouched' = 0 /\ UNCHANGED <<state, pending>>
      /\ (IF armed THEN UNCHANGED <<armed, due>> ELSE armIdle(0))
  BY DEF touch, snapshot
<1>2. CASE armed
  <2>1. UNCHANGED <<armed, due>> /\ due \in Nat /\ untouched \in Nat /\ Idle \in Nat
    BY <1>1, <1>2, Bounds DEF Typed, IdleOK
  <2> QED BY <1>1, <2>1 DEF Armed, NoDropPending
<1>3. CASE ~armed
  BY <1>1, <1>3, Bounds, ArmedAnew
<1> QED BY <1>2, <1>3

LEMMA IdleCheckArmed == ASSUME Typed, Armed, IdleCheck PROVE Armed'
<1>1. CASE lock("idle")
  BY <1>1, Dropped DEF Armed, Typed
<1>2. CASE state # "signedIn"
  BY <1>2 DEF Armed, IdleCheck, snapshot
<1>3. CASE armIdle(untouched) /\ UNCHANGED untouched
  BY <1>3, ArmedAnew DEF Typed, IdleOK
<1>4. IdleCheck
  OBVIOUS
<1> QED BY <1>1, <1>2, <1>3, <1>4 DEF IdleCheck

LEMMA TickArmed == ASSUME Typed, Armed, Tick PROVE Armed'
<1>1. /\ UNCHANGED <<state, pending, armed>> /\ due # 0
      /\ due' = IF due = NoTimer THEN due ELSE due - 1
      /\ untouched' = IF untouched < Idle THEN untouched + 1 ELSE untouched
  BY DEF Tick, snapshot
<1>2. due \in Nat /\ untouched \in Nat /\ untouched <= Idle /\ Idle \in Nat /\ NoTimer = Idle + 1
  BY Bounds DEF Typed, IdleOK
<1> QED BY <1>1, <1>2 DEF Armed, NoDropPending

(* The rest: they leave the check and the state alone, or drop the session. *)
LEMMA StepArmed == Typed /\ Armed /\ [Next]_vars => Armed'
<1> SUFFICES ASSUME Typed, Armed, [Next]_vars PROVE Armed'
  OBVIOUS
<1> DEFINE Same == UNCHANGED <<state, pending, idleVars>>
<1>0. PendingOK
  BY DEF Typed
<1>1. CASE Same
  BY <1>1, StillArmed DEF NoDropPending
<1>2. CASE UNCHANGED vars
  BY <1>1, <1>2 DEF vars, snapshot
<1>3. CASE restore
  BY <1>3, StillArmed DEF restore, NoDropPending, snapshot
<1>4. CASE RenewalRead
  <2>1. CASE lock("renewal")
    BY <1>0, <2>1, Dropped DEF Armed
  <2>2. CASE Same
    BY <1>1, <2>2
  <2> QED BY <1>4, <2>1, <2>2 DEF RenewalRead, snapshot
<1>5. CASE RenewalAnswered
  <2>1. CASE lock("renewal") \/ unenrol("renewal")
    BY <1>0, <2>1, Dropped DEF Armed
  <2>2. CASE UNCHANGED <<state, idleVars>> /\ \E token : adopt("renewal", token)
    <3>1. NoDropPending' => NoDropPending
      BY <1>0, <2>2, AwaitKeeps DEF adopt
    <3> QED BY <2>2, <3>1, StillArmed
  <2> QED BY <1>5, <2>1, <2>2 DEF RenewalAnswered, snapshot
<1>6. CASE PinAnswered
  <2>1. CASE unenrol("pin")
    BY <1>0, <2>1, Dropped DEF Armed
  <2>2. CASE UNCHANGED <<state, idleVars>> /\ \E token : adopt("pin", token)
    <3>1. NoDropPending' => NoDropPending
      BY <1>0, <2>2, AwaitKeeps DEF adopt
    <3> QED BY <2>2, <3>1, StillArmed
  <2> QED BY <1>6, <2>1, <2>2 DEF PinAnswered, snapshot
<1>7. CASE CallAnswered
  <2>1. CASE lock("call") \/ unenrol("call")
    BY <1>0, <2>1, Dropped DEF Armed
  <2>2. CASE Same
    BY <1>1, <2>2
  <2> QED BY <1>7, <2>1, <2>2 DEF CallAnswered
<1>8. CASE SetupAnswered
  <2>1. await("setup", "enrolled", 0) /\ UNCHANGED <<state, idleVars>>
    BY <1>8 DEF SetupAnswered, snapshot
  <2> QED BY <1>0, <2>1, AwaitKeeps, StillArmed
<1>9. CASE SetupRead
  <2>1. UNCHANGED <<pending, idleVars>> /\ (state' = state \/ state' = "locked")
    BY <1>9 DEF SetupRead, snapshot
  <2> QED BY <2>1, StillArmed DEF NoDropPending
<1>10. CASE Left
  BY <1>0, <1>10, Dropped DEF Left, Armed
<1>11. CASE refreshDevice
  <2>1. CASE await("call", "unenrolled", 0)
    BY <1>0, <2>1, DropAwaited DEF Armed, Drops
  <2>2. CASE Same
    BY <1>1, <2>2
  <2> QED BY <1>11, <2>1, <2>2 DEF refreshDevice, snapshot
<1>12. CASE roster \/ signInWithPin
  <2>1. CASE unenrol("call") \/ unenrol("pin")
    BY <1>0, <2>1, Dropped DEF Armed
  <2>2. CASE Same
    BY <1>1, <2>2
  <2> QED BY <1>12, <2>1, <2>2 DEF roster, signInWithPin, snapshot
<1>13. CASE FeatureOff
  BY <1>0, <1>13, Dropped DEF FeatureOff, Armed
<1>14. CASE Reload
  BY <1>14 DEF Reload, Armed
<1>15. CASE poll \/ Unauthorized \/ signOut \/ unpair \/ \E kind \in Kinds : enrol(kind)
  BY <1>1, <1>15 DEF poll, Unauthorized, signOut, unpair, enrol, snapshot
<1>16. CASE Network /\ ~Reload
  BY <1>1, <1>16 DEF Network, ServeRenewal, ServePin, ServeCall, ServeSignOut, RenewalLost,
     PinRefused, CallLost, Manager, snapshot
<1> QED BY <1>2, <1>3, <1>4, <1>5, <1>6, <1>7, <1>8, <1>9, <1>10, <1>11, <1>12, <1>13, <1>14,
        <1>15, <1>16, StoredArmed, EnrolledArmed, touchArmed, IdleCheckArmed, TickArmed
        DEF Next, Page, Person

(* Whoever is signed in will be locked out when they leave: once the        *)
(* storage has answered, a check is set for the deadline or before, however *)
(* taps, renewals, PINs, refusals and reloads came before it.               *)
THEOREM SomebodyLeavesItLocks == Spec => []WillLock
<1>1. Init => Armed
  BY DEF Init, Armed
<1>2. Armed /\ Typed => WillLock
  BY DEF Armed, WillLock, NoDropPending
<1> QED BY <1>1, <1>2, StepArmed, AlwaysTyped, PTL DEF Spec

-----------------------------------------------------------------------------
(* A renewal and an enrolment wait for one answer of the storage at a time, *)
(* and for nothing else while they do.                                      *)
Waits(by) == \E i \in 1 .. Len(pending) : pending[i].by = by

Alone(by) == \A i, j \in 1 .. Len(pending) : pending[i].by = by /\ pending[j].by = by => i = j

Turns ==
   /\ Alone("renewal") /\ (Waits("renewal") => renewal.stage = "settling")
   /\ Alone("setup") /\ (Waits("setup") => setup.stage = "writing")
   /\ \A i \in 1 .. Len(pending) : pending[i].then = "enrolled" => pending[i].by = "setup"

LEMMA TurnTaken ==
  ASSUME PendingOK, NEW by, NEW then, NEW chain, await(by, then, chain), NEW b
  PROVE  /\ Waits(b)' => Waits(b) \/ b = by
         /\ Alone(b) /\ (b = by => ~Waits(b)) => Alone(b)'
<1>1. /\ Len(pending) \in Nat /\ Len(pending') = Len(pending) + 1
      /\ \A i \in 1 .. Len(pending) : pending'[i] = pending[i]
      /\ pending'[Len(pending')] = [then |-> then, chain |-> chain, by |-> by,
                                    handle |-> stored, token |-> deviceToken]
  BY Awaited
<1>2. pending'[Len(pending')].by = by
  BY <1>1
<1>3. \A i \in 1 .. Len(pending') : i \in 1 .. Len(pending) \/ i = Len(pending')
  BY <1>1
<1>4. \A i \in 1 .. Len(pending') : pending'[i].by = b =>
         (i \in 1 .. Len(pending) /\ pending[i].by = b) \/ (i = Len(pending') /\ b = by)
  BY <1>1, <1>2, <1>3
<1> QED BY <1>4, Zenon DEF Waits, Alone

LEMMA TurnGone ==
  ASSUME PendingOK, pending # <<>>, pending' = Tail(pending), NEW b
  PROVE  /\ Waits(b)' => Waits(b) /\ (Alone(b) => Head(pending).by # b)
         /\ Alone(b) => Alone(b)'
<1>1. /\ Len(pending) \in Nat /\ Len(Tail(pending)) = Len(pending) - 1
      /\ \A i \in 1 .. Len(Tail(pending)) :
            i + 1 \in 1 .. Len(pending) /\ Tail(pending)[i] = pending[i + 1]
      /\ Head(pending) = pending[1] /\ 1 \in 1 .. Len(pending)
  BY Popped
<1>2. \A i \in 1 .. Len(pending') : i + 1 \in 1 .. Len(pending) /\ pending'[i] = pending[i + 1]
                                    /\ i + 1 # 1
  BY <1>1
<1>3. ASSUME NEW i \in 1 .. Len(pending'), pending'[i].by = b
      PROVE  Waits(b) /\ (Alone(b) => Head(pending).by # b)
  <2>1. i + 1 \in 1 .. Len(pending) /\ pending[i + 1].by = b /\ i + 1 # 1
    BY <1>2, <1>3
  <2> QED BY <1>1, <2>1 DEF Waits, Alone
<1>4. ASSUME Alone(b), NEW i \in 1 .. Len(pending'), NEW j \in 1 .. Len(pending'),
             pending'[i].by = b, pending'[j].by = b
      PROVE  i = j
  <2>1. /\ i + 1 \in 1 .. Len(pending) /\ pending[i + 1].by = b
        /\ j + 1 \in 1 .. Len(pending) /\ pending[j + 1].by = b
    BY <1>2, <1>4
  <2>2. i + 1 = j + 1
    BY <1>4, <2>1 DEF Alone
  <2> QED BY <2>2
<1> QED BY <1>3, <1>4, Zenon DEF Waits, Alone

LEMMA TurnsIfSame ==
  ASSUME Turns, UNCHANGED pending, renewal.stage = "settling" => renewal'.stage = "settling",
         setup.stage = "writing" => setup'.stage = "writing"
  PROVE  Turns'
BY DEF Turns, Alone, Waits

LEMMA TurnsIfAwaited ==
  ASSUME Typed, Turns, NEW by \in Bys, NEW then, NEW chain, await(by, then, chain),
         by # "renewal" => (renewal.stage = "settling" => renewal'.stage = "settling"),
         by = "renewal" => renewal.stage # "settling" /\ renewal'.stage = "settling",
         by # "setup" => (setup.stage = "writing" => setup'.stage = "writing"),
         by = "setup" => setup.stage # "writing" /\ setup'.stage = "writing",
         then = "enrolled" => by = "setup"
  PROVE  Turns'
<1>1. PendingOK
  BY DEF Typed
<1>2. \A b : /\ Waits(b)' => Waits(b) \/ b = by
             /\ Alone(b) /\ (b = by => ~Waits(b)) => Alone(b)'
  BY <1>1, TurnTaken
<1>3. Alone("renewal")' /\ (Waits("renewal")' => renewal'.stage = "settling")
  BY <1>2 DEF Turns
<1>4. Alone("setup")' /\ (Waits("setup")' => setup'.stage = "writing")
  BY <1>2 DEF Turns
<1>5. \A i \in 1 .. Len(pending') : pending'[i].then = "enrolled" => pending'[i].by = "setup"
  <2>1. /\ Len(pending) \in Nat /\ Len(pending') = Len(pending) + 1
        /\ \A i \in 1 .. Len(pending) : pending'[i] = pending[i]
        /\ pending'[Len(pending')] = [then |-> then, chain |-> chain, by |-> by,
                                      handle |-> stored, token |-> deviceToken]
    BY <1>1, Awaited
  <2>2. pending'[Len(pending')].by = by /\ pending'[Len(pending')].then = then
    BY <2>1
  <2>3. \A i \in 1 .. Len(pending') : i \in 1 .. Len(pending) \/ i = Len(pending')
    BY <2>1
  <2> QED BY <2>1, <2>2, <2>3 DEF Turns
<1> QED BY <1>3, <1>4, <1>5 DEF Turns

LEMMA TurnsIfPopped ==
  ASSUME Typed, Turns, pending # <<>>, pending' = Tail(pending),
         Head(pending).by # "renewal" => renewal' = renewal,
         Head(pending).by # "setup" => setup' = setup
  PROVE  Turns'
<1>1. PendingOK
  BY DEF Typed
<1>2. \A b : /\ Waits(b)' => Waits(b) /\ (Alone(b) => Head(pending).by # b)
             /\ Alone(b) => Alone(b)'
  BY <1>1, TurnGone
<1>3. Alone("renewal")' /\ (Waits("renewal")' => renewal'.stage = "settling")
  BY <1>2 DEF Turns
<1>4. Alone("setup")' /\ (Waits("setup")' => setup'.stage = "writing")
  BY <1>2 DEF Turns
<1>5. \A i \in 1 .. Len(pending') : pending'[i].then = "enrolled" => pending'[i].by = "setup"
  <2>1. \A i \in 1 .. Len(pending') : i + 1 \in 1 .. Len(pending) /\ pending'[i] = pending[i + 1]
    BY <1>1, Popped
  <2> QED BY <2>1 DEF Turns
<1> QED BY <1>3, <1>4, <1>5 DEF Turns

LEMMA EnrolledTurns == ASSUME Typed, Turns, Enrolled PROVE Turns'
<1>1. /\ pending # <<>> /\ Head(pending).then = "enrolled" /\ PendingOK /\ UNCHANGED renewal
      /\ Head(pending) = pending[1] /\ 1 \in 1 .. Len(pending)
  BY Popped DEF Enrolled, Typed
<1>2. Head(pending).by = "setup"
  BY <1>1 DEF Turns
<1>3. CASE pending' = Tail(pending)
  BY <1>1, <1>2, <1>3, TurnsIfPopped
<1>4. CASE /\ pending' = Append(Tail(pending),
                 [then |-> "signedIn", chain |-> setup.held.chain, by |-> "setup",
                  handle |-> stored, token |-> deviceToken])
           /\ UNCHANGED setup
  <2> DEFINE entry == [then |-> "signedIn", chain |-> setup.held.chain, by |-> "setup",
                       handle |-> stored, token |-> deviceToken]
  <2>1. Tail(pending) \in Seq(Pending) /\ pending' = Append(Tail(pending), entry)
        /\ entry.by = "setup" /\ entry.then = "signedIn"
    BY <1>1, <1>4, HeadPending
  <2> HIDE DEF entry
  <2>2. /\ Len(pending) \in Nat /\ Len(Tail(pending)) = Len(pending) - 1
        /\ \A i \in 1 .. Len(pending) : i # 1 =>
              i - 1 \in 1 .. Len(Tail(pending)) /\ Tail(pending)[i - 1] = pending[i]
        /\ \A i \in 1 .. Len(Tail(pending)) :
              i + 1 \in 1 .. Len(pending) /\ Tail(pending)[i] = pending[i + 1]
    BY <1>1, Popped
  <2>3. /\ Len(pending') = Len(pending) /\ pending'[Len(pending)] = entry
        /\ \A i \in 1 .. Len(pending') : i # Len(pending) =>
              i + 1 \in 1 .. Len(pending) /\ pending'[i] = pending[i + 1]
    BY <2>1, <2>2
  <2>4. Waits("setup") /\ (\A i \in 1 .. Len(pending) : i # 1 => pending[i].by # "setup")
    BY <1>1, <1>2, <2>2 DEF Turns, Alone, Waits
  <2>5. \A i \in 1 .. Len(pending') : pending'[i].by = "setup" => i = Len(pending)
    <3> SUFFICES ASSUME NEW i \in 1 .. Len(pending'), i # Len(pending)
                 PROVE  pending'[i].by # "setup"
      OBVIOUS
    <3>1. i + 1 \in 1 .. Len(pending) /\ i + 1 # 1 /\ pending'[i] = pending[i + 1]
      BY <2>2, <2>3
    <3> QED BY <2>4, <3>1
  <2>6. Alone("setup")' /\ setup'.stage = "writing"
    BY <1>4, <2>4, <2>5 DEF Turns, Alone
  <2>7. \A i \in 1 .. Len(pending') : pending'[i].by = "renewal" =>
           i + 1 \in 1 .. Len(pending) /\ pending[i + 1].by = "renewal"
    BY <2>1, <2>3
  <2>8. Alone("renewal")' /\ (Waits("renewal")' => Waits("renewal"))
    <3>1. ASSUME NEW i \in 1 .. Len(pending'), NEW j \in 1 .. Len(pending'),
                 pending'[i].by = "renewal", pending'[j].by = "renewal"
          PROVE  i = j
      <4>1. i + 1 = j + 1
        BY <2>7, <3>1 DEF Turns, Alone
      <4> QED BY <4>1
    <3>2. Alone("renewal")'
      BY <3>1 DEF Alone
    <3>3. ASSUME NEW i \in 1 .. Len(pending'), pending'[i].by = "renewal" PROVE Waits("renewal")
      BY <2>7, <3>3 DEF Waits
    <3> QED BY <3>2, <3>3, Zenon DEF Waits
  <2>9. \A i \in 1 .. Len(pending') : pending'[i].then = "enrolled" => pending'[i].by = "setup"
    BY <2>1, <2>3 DEF Turns
  <2> QED BY <1>1, <2>6, <2>8, <2>9 DEF Turns
<1> QED BY <1>3, <1>4 DEF Enrolled

LEMMA StepTurns == Typed /\ Turns /\ [Next]_vars => Turns'
<1> SUFFICES ASSUME Typed, Turns, [Next]_vars PROVE Turns'
  OBVIOUS
<1> DEFINE Same == UNCHANGED <<pending, renewal, setup>>
<1> DEFINE Asked(by) == UNCHANGED <<renewal, setup>> /\
                        \E then \in {"locked", "unenrolled", "signedIn"} : \E chain : await(by, then, chain)
<1>1. Same => Turns'
  BY TurnsIfSame
<1>2. Asked("pin") \/ Asked("call") \/ Asked("leaving") \/ Asked("idle") \/ Asked("floor") => Turns'
  BY TurnsIfAwaited DEF Bys
<1>3. CASE UNCHANGED vars
  BY <1>1, <1>3 DEF vars, away
<1>4. CASE Stored
  BY <1>4, TurnsIfPopped DEF Stored, Proceed
<1>5. CASE restore \/ poll \/ Unauthorized
  <2>1. UNCHANGED <<pending, setup>> /\ (renew \/ UNCHANGED renewal)
    BY <1>5 DEF restore, poll, Unauthorized, away
  <2> QED BY <2>1, TurnsIfSame DEF renew
<1>6. CASE RenewalRead
  <2>1. UNCHANGED setup /\ renewal.stage = "reading"
    BY <1>6 DEF RenewalRead, away
  <2>2. CASE lock("renewal") /\ renewal' = [renewal EXCEPT !.stage = "settling"]
    <3>1. renewal'.stage = "settling" /\ "renewal" \in Bys
      BY <2>2 DEF Typed, RenewalOK, Away, Bys
    <3> QED BY <2>1, <2>2, <3>1, TurnsIfAwaited DEF lock, drop
  <2>3. CASE UNCHANGED pending
    BY <2>1, <2>3, TurnsIfSame
  <2> QED BY <1>6, <2>2, <2>3 DEF RenewalRead
<1>7. CASE RenewalAnswered
  <2>1. /\ UNCHANGED setup /\ renewal.stage # "settling" /\ "renewal" \in Bys
        /\ renewal' = [renewal EXCEPT !.stage = "settling"]
    BY <1>7 DEF RenewalAnswered, away, Bys
  <2>2. renewal'.stage = "settling"
    BY <2>1 DEF Typed, RenewalOK, Away
  <2>3. \E then \in {"locked", "unenrolled", "signedIn"} : \E chain : await("renewal", then, chain)
    BY <1>7 DEF RenewalAnswered, adopt, lock, unenrol, drop
  <2> QED BY <2>1, <2>2, <2>3, TurnsIfAwaited
<1>8. CASE PinAnswered
  <2>1. Asked("pin")
    BY <1>8 DEF PinAnswered, adopt, unenrol, drop
  <2> QED BY <1>2, <2>1
<1>9. CASE CallAnswered
  <2>1. Same \/ Asked("call")
    BY <1>9 DEF CallAnswered, lock, unenrol, drop
  <2> QED BY <1>1, <1>2, <2>1
<1>10. CASE SetupAnswered
  <2>1. /\ UNCHANGED renewal /\ setup.stage = "minted" /\ await("setup", "enrolled", 0)
        /\ setup' = [setup EXCEPT !.stage = "writing"] /\ "setup" \in Bys
    BY <1>10 DEF SetupAnswered, Bys
  <2>2. setup'.stage = "writing"
    BY <2>1 DEF Typed, AwayOK, Setups
  <2> QED BY <2>1, <2>2, TurnsIfAwaited
<1>11. CASE SetupRead \/ \E kind \in Kinds : enrol(kind)
  <2>1. UNCHANGED <<pending, renewal>> /\ setup.stage # "writing"
    BY <1>11 DEF SetupRead, enrol, Quiet, NoSetup
  <2> QED BY <2>1, TurnsIfSame
<1>12. CASE Left
  <2>1. Asked("leaving")
    BY <1>12 DEF Left, lock, unenrol, drop
  <2> QED BY <1>2, <2>1
<1>13. CASE refreshDevice \/ roster
  <2>1. Same \/ Asked("call")
    BY <1>13 DEF refreshDevice, roster, unenrol, drop
  <2> QED BY <1>1, <1>2, <2>1
<1>14. CASE signInWithPin
  <2>1. Same \/ Asked("pin")
    BY <1>14 DEF signInWithPin, unenrol, drop
  <2> QED BY <1>1, <1>2, <2>1
<1>15. CASE IdleCheck
  <2>1. Same \/ Asked("idle")
    BY <1>15 DEF IdleCheck, lock, drop, away
  <2> QED BY <1>1, <1>2, <2>1
<1>16. CASE FeatureOff
  <2>1. Asked("floor")
    BY <1>16 DEF FeatureOff, lock, drop, away
  <2> QED BY <1>2, <2>1
<1>17. CASE signOut \/ unpair \/ touch \/ Tick
  BY <1>1, <1>17 DEF signOut, unpair, touch, Tick, away
<1>18. CASE ServeRenewal \/ RenewalLost
  <2>1. UNCHANGED <<pending, setup>> /\ renewal.stage # "settling"
    BY <1>18 DEF ServeRenewal, RenewalLost, away
  <2> QED BY <2>1, TurnsIfSame
<1>19. CASE ServePin \/ ServeCall \/ ServeSignOut \/ PinRefused \/ CallLost \/ Manager
  BY <1>1, <1>19 DEF ServePin, ServeCall, ServeSignOut, PinRefused, CallLost, Manager, away
<1>20. CASE Reload
  BY <1>20 DEF Reload, Turns, Alone, Waits
<1> QED BY <1>3, <1>4, <1>5, <1>6, <1>7, <1>8, <1>9, <1>10, <1>11, <1>12, <1>13, <1>14, <1>15,
        <1>16, <1>17, <1>18, <1>19, <1>20, EnrolledTurns DEF Next, Page, Person, Network

LEMMA AlwaysTurns == Spec => []Turns
<1>1. Init => Turns
  BY DEF Init, Turns, Alone, Waits
<1> QED BY <1>1, StepTurns, AlwaysTyped, PTL DEF Spec

-----------------------------------------------------------------------------
(* The chain of an answer on its way is one the tablet has not seen; and a  *)
(* handle it holds is no older than its chain's current one unless that     *)
(* chain is over, or an answer was lost, or is there to be read.            *)
Enrolling == \E i \in 1 .. Len(pending) : pending[i].then = "enrolled"

Minted == setup.kind = "phone" /\ (setup.stage = "minted" \/ Enrolling)

Seen(c) == \/ c \in over \/ c = identity \/ c = stored.chain \/ c = renewal.held.chain
           \/ \E i \in 1 .. Len(pending) : c = pending[i].chain \/ c = pending[i].handle.chain

Unseen(t) == t \in Tokens /\ t.n = 1 /\ t.chain <= chains /\ ~Seen(t.chain) /\ head[t.chain] \in {0, 1}

Fresh == /\ \A c \in Chains : Seen(c) => c <= chains
         /\ pin.stage = "granted" => Unseen(pin.held)
         /\ Minted => Unseen(setup.held)
         /\ Minted /\ pin.stage = "granted" => pin.held.chain # setup.held.chain

NotAhead(t) == t # None => head[t.chain] = 0 \/ t.n <= head[t.chain]

Good(t) == t # None => head[t.chain] \in {0, t.n} \/ t \in lost

Spent ==
   /\ NotAhead(stored) /\ NotAhead(renewal.held)
   /\ \A i \in 1 .. Len(pending) : NotAhead(pending[i].handle)
   /\ Good(stored) \/ (renewal.stage \in {"granted", "off"} /\ renewal.held = stored)
   /\ renewal.stage \in {"reading", "asking"} => Good(renewal.held)
   /\ renewal.stage = "granted" => head[renewal.held.chain] \in {0, renewal.held.n + 1}

(* What the page does to the handles it holds: it may take a new one.       *)
Joined(c) == \A i \in 1 .. Len(pending') : \/ \E j \in 1 .. Len(pending) : pending'[i] = pending[j]
                                           \/ pending'[i].handle = stored /\ pending'[i].chain \in {0, c}

HeadFalls == \A c \in Chains : head'[c] = head[c] \/ head'[c] = 0

RenewalMoves(new) ==
   \/ renewal' = renewal
   \/ /\ renewal'.stage \in {"idle", "settling"} /\ renewal'.held \in {renewal.held, None}
      /\ renewal.stage \in {"granted", "off"} => stored' \in {None, new}
   \/ renewal.stage = "idle" /\ renewal'.stage = "reading" /\ renewal'.held = stored
   \/ renewal.stage = "reading" /\ renewal'.stage = "asking" /\ renewal'.held = renewal.held

Moves(new) ==
   /\ HeadFalls /\ chains' = chains /\ lost' = lost
   /\ over' \subseteq over \union {identity}
   /\ identity' \in {0, identity} \/ \E j \in 1 .. Len(pending) : identity' = pending[j].chain
   /\ Joined(new.chain) /\ stored' \in {stored, None, new}
   /\ RenewalMoves(new)
   /\ pin'.stage = "granted" => pin' = pin /\ (new # None => new.chain # pin.held.chain)
   /\ Minted' => Minted /\ setup'.held = setup.held /\ (new # None => new.chain # setup.held.chain)

Sound(t) == t # None => t \in Tokens /\ t.chain <= chains /\ NotAhead(t) /\ Good(t)

LEMMA NoneSound == Sound(None) /\ None.chain = 0 /\ None \in SomeToken /\ None.chain \notin Chains
BY DEF Sound, None, SomeToken, Chains

LEMMA SeenKept ==
  ASSUME NEW new \in SomeToken, Moves(new), NEW c \in Chains, Seen(c)'
  PROVE  Seen(c) \/ (c = new.chain /\ new # None)
<1>0. c # 0 /\ None.chain = 0
  BY DEF Chains, None
<1>1. CASE c \in over' \/ c = identity'
  BY <1>0, <1>1 DEF Moves, Seen
<1>2. CASE c = stored'.chain
  BY <1>0, <1>2 DEF Moves, Seen
<1>3. CASE c = renewal'.held.chain
  BY <1>0, <1>3 DEF Moves, RenewalMoves, Seen
<1>4. ASSUME NEW i \in 1 .. Len(pending'), c = pending'[i].chain \/ c = pending'[i].handle.chain
      PROVE  Seen(c) \/ (c = new.chain /\ new # None)
  <2>1. CASE \E j \in 1 .. Len(pending) : pending'[i] = pending[j]
    BY <1>4, <2>1 DEF Seen
  <2>2. CASE pending'[i].handle = stored /\ pending'[i].chain \in {0, new.chain}
    BY <1>0, <1>4, <2>2 DEF Seen
  <2> QED BY <2>1, <2>2 DEF Moves, Joined
<1> QED BY <1>1, <1>2, <1>3, <1>4 DEF Seen

LEMMA UnseenKept ==
  ASSUME NEW new \in SomeToken, Moves(new), NEW t \in Tokens, Unseen(t),
         new # None => new.chain # t.chain
  PROVE  Unseen(t)'
<1>1. t.chain \in Chains /\ ~Seen(t.chain)
  BY TokenIs DEF Unseen
<1>2. ~Seen(t.chain)'
  BY <1>1, SeenKept
<1>3. head'[t.chain] \in {0, 1} /\ chains' = chains
  BY <1>1 DEF Moves, HeadFalls, Unseen
<1> QED BY <1>2, <1>3 DEF Unseen

LEMMA FreshKept ==
  ASSUME Typed, Fresh, NEW new \in SomeToken, Sound(new), Moves(new)
  PROVE  Fresh'
<1>1. \A c \in Chains : Seen(c)' => c <= chains'
  BY SeenKept DEF Fresh, Sound, Moves
<1>2. ASSUME pin'.stage = "granted" PROVE Unseen(pin.held)' /\ pin.stage = "granted" /\ pin' = pin
  <2>1. PICK t : t = pin.held
    OBVIOUS
  <2>2. pin' = pin /\ pin.stage = "granted" /\ (new # None => new.chain # t.chain)
    BY <1>2, <2>1 DEF Moves
  <2>3. Unseen(t)
    BY <2>1, <2>2 DEF Fresh
  <2>4. Unseen(t)'
    BY <2>2, <2>3, UnseenKept DEF Unseen
  <2> QED BY <2>1, <2>2, <2>4 DEF Unseen, Seen
<1>3. ASSUME Minted' PROVE Unseen(setup.held)' /\ Minted /\ setup'.held = setup.held
  <2>1. PICK t : t = setup.held
    OBVIOUS
  <2>2. setup'.held = setup.held /\ Minted /\ (new # None => new.chain # t.chain)
    BY <1>3, <2>1 DEF Moves
  <2>3. Unseen(t)
    BY <2>1, <2>2 DEF Fresh
  <2>4. Unseen(t)'
    BY <2>2, <2>3, UnseenKept DEF Unseen
  <2> QED BY <2>1, <2>2, <2>4 DEF Unseen, Seen
<1> QED BY <1>1, <1>2, <1>3 DEF Fresh

LEMMA SoundKept ==
  ASSUME HeadFalls, lost' = lost, NEW t \in SomeToken
  PROVE  (NotAhead(t) => NotAhead(t)') /\ (Good(t) => Good(t)')
<1>1. CASE t = None
  BY <1>1 DEF NotAhead, Good
<1>2. CASE t \in Tokens
  <2>1. t.chain \in Chains /\ t.n \in Nat
    BY <1>2, TokenIs
  <2>2. head'[t.chain] = head[t.chain] \/ head'[t.chain] = 0
    BY <2>1 DEF HeadFalls
  <2>3. NotAhead(t) => NotAhead(t)'
    BY <2>2 DEF NotAhead
  <2>4. Good(t) => Good(t)'
    BY <2>2 DEF Good
  <2> QED BY <2>3, <2>4
<1> QED BY <1>1, <1>2 DEF SomeToken

LEMMA SpentKept ==
  ASSUME Typed, Spent, NEW new \in SomeToken, Sound(new), Moves(new)
  PROVE  Spent'
<1>0. /\ stored \in SomeToken /\ renewal.held \in SomeToken /\ None \in SomeToken
      /\ \A i \in 1 .. Len(pending) : pending[i].handle \in SomeToken
  <2>1. stored \in SomeToken /\ renewal.held \in SomeToken /\ None \in SomeToken
    BY DEF Typed, TokensOK, RenewalOK, Away, SomeToken
  <2>2. \A i \in 1 .. Len(pending) : pending[i] \in Pending
    BY DEF Typed, PendingOK
  <2>3. \A entry \in Pending : entry.handle \in SomeToken
    BY DEF Pending, SomeToken
  <2> QED BY <2>1, <2>2, <2>3
<1>1. \A t \in SomeToken : (NotAhead(t) => NotAhead(t)') /\ (Good(t) => Good(t)')
  BY SoundKept DEF Moves
<1>2. NotAhead(None) /\ Good(None) /\ NotAhead(new) /\ Good(new)
  BY DEF Sound, NotAhead, Good
<1>3. ASSUME NEW t \in SomeToken, NotAhead(t) PROVE NotAhead(t)'
  BY <1>1, <1>3
<1>4. ASSUME NEW t \in SomeToken, Good(t) PROVE Good(t)'
  BY <1>1, <1>4
<1>5. NotAhead(stored)'
  <2>1. PICK t : t = stored'
    OBVIOUS
  <2>2. t \in SomeToken /\ NotAhead(t)
    BY <1>0, <1>2, <2>1 DEF Moves, Spent
  <2> QED BY <1>3, <2>1, <2>2 DEF NotAhead
<1>6. NotAhead(renewal.held)'
  <2>1. PICK t : t = renewal'.held
    OBVIOUS
  <2>2. t \in SomeToken /\ NotAhead(t)
    BY <1>0, <1>2, <2>1 DEF Moves, RenewalMoves, Spent
  <2> QED BY <1>3, <2>1, <2>2 DEF NotAhead
<1>7. \A i \in 1 .. Len(pending') : NotAhead(pending[i].handle)'
  <2> SUFFICES ASSUME NEW i \in 1 .. Len(pending') PROVE NotAhead(pending[i].handle)'
    OBVIOUS
  <2>1. PICK t : t = pending'[i].handle
    OBVIOUS
  <2>2. t \in SomeToken /\ NotAhead(t)
    BY <1>0, <1>2, <2>1 DEF Moves, Joined, Spent
  <2> QED BY <1>3, <2>1, <2>2 DEF NotAhead
<1>8. Good(stored)' \/ (renewal'.stage \in {"granted", "off"} /\ renewal'.held = stored')
  <2>1. PICK t : t = stored'
    OBVIOUS
  <2>2. CASE t \in {None, new}
    BY <1>2, <1>4, <2>1, <2>2, <1>0 DEF Good
  <2>3. CASE t = stored /\ Good(stored)
    BY <1>0, <1>4, <2>1, <2>3 DEF Good
  <2>4. CASE t = stored /\ t \notin {None, new} /\ renewal.stage \in {"granted", "off"} /\ renewal.held = stored
    BY <2>1, <2>4 DEF Moves, RenewalMoves
  <2> QED BY <2>1, <2>2, <2>3, <2>4 DEF Moves, Spent
<1>9. renewal'.stage \in {"reading", "asking"} => Good(renewal.held)'
  <2> SUFFICES ASSUME renewal'.stage \in {"reading", "asking"} PROVE Good(renewal.held)'
    OBVIOUS
  <2>1. PICK t : t = renewal'.held
    OBVIOUS
  <2>2. t \in SomeToken /\ Good(t)
    BY <1>0, <2>1 DEF Moves, RenewalMoves, Spent
  <2> QED BY <1>4, <2>1, <2>2 DEF Good
<1>10. renewal'.stage = "granted" => head'[renewal'.held.chain] \in {0, renewal'.held.n + 1}
  <2> SUFFICES ASSUME renewal'.stage = "granted"
               PROVE  head'[renewal'.held.chain] \in {0, renewal'.held.n + 1}
    OBVIOUS
  <2>1. renewal' = renewal
    BY DEF Moves, RenewalMoves
  <2>2. renewal.held \in Tokens /\ renewal.held.chain \in Chains
    BY <1>0, <2>1, TokenIs DEF Typed, RenewalOK, SomeToken
  <2> QED BY <2>1, <2>2 DEF Moves, HeadFalls, Spent
<1> QED BY <1>5, <1>6, <1>7, <1>8, <1>9, <1>10 DEF Spent

-----------------------------------------------------------------------------
(* What the page does with the handles, step by step.                       *)
LEMMA JoinedAwait ==
  ASSUME PendingOK, NEW by, NEW then, NEW chain, await(by, then, chain)
  PROVE  /\ \A c : chain \in {0, c} => Joined(c)
         /\ then # "enrolled" => (Enrolling' => Enrolling)
<1>1. /\ Len(pending) \in Nat /\ Len(pending') = Len(pending) + 1
      /\ \A i \in 1 .. Len(pending) : pending'[i] = pending[i]
      /\ pending'[Len(pending')] = [then |-> then, chain |-> chain, by |-> by,
                                    handle |-> stored, token |-> deviceToken]
  BY Awaited
<1>2. /\ pending'[Len(pending')].then = then /\ pending'[Len(pending')].chain = chain
      /\ pending'[Len(pending')].handle = stored
  BY <1>1
<1>3. \A i \in 1 .. Len(pending') : i \in 1 .. Len(pending) \/ i = Len(pending')
  BY <1>1
<1>4. ASSUME NEW c, chain \in {0, c} PROVE Joined(c)
  BY <1>1, <1>2, <1>3, <1>4, Zenon DEF Joined
<1>5. ASSUME then # "enrolled", Enrolling' PROVE Enrolling
  BY <1>1, <1>2, <1>3, <1>5 DEF Enrolling
<1> QED BY <1>4, <1>5

LEMMA JoinedTail ==
  ASSUME PendingOK, pending # <<>>, pending' = Tail(pending)
  PROVE  (\A c : Joined(c)) /\ (Enrolling' => Enrolling)
<1>1. \A i \in 1 .. Len(pending') : i + 1 \in 1 .. Len(pending) /\ pending'[i] = pending[i + 1]
  BY Popped
<1> QED BY <1>1 DEF Joined, Enrolling

LEMMA QuietKept ==
  ASSUME Typed, Fresh, Spent, HeadFalls, UNCHANGED <<chains, lost, over>>, identity' \in {0, identity},
         Joined(0), stored' \in {stored, None}, RenewalMoves(None),
         pin'.stage = "granted" => pin' = pin, Minted' => Minted /\ setup'.held = setup.held
  PROVE  Fresh' /\ Spent'
<1>1. Moves(None)
  BY NoneSound DEF Moves
<1> QED BY <1>1, NoneSound, FreshKept, SpentKept

(* Nothing but the calls and the clock changes. *)
LEMMA SameKept ==
  ASSUME Typed, Fresh, Spent, HeadFalls,
         UNCHANGED <<chains, lost, over, identity, pending, stored, renewal, setup>>,
         pin'.stage = "granted" => pin' = pin
  PROVE  Fresh' /\ Spent'
<1>1. Joined(0) /\ RenewalMoves(None) /\ (Minted' => Minted /\ setup'.held = setup.held)
  BY DEF Joined, RenewalMoves, Minted, Enrolling
<1> QED BY <1>1, QuietKept

LEMMA RenewKept ==
  ASSUME Typed, Fresh, Spent, renew,
         UNCHANGED <<chains, head, lost, over, identity, pending, stored, setup, pin>>
  PROVE  Fresh' /\ Spent'
<1>1. RenewalMoves(None)
  BY DEF renew, RenewalMoves
<1>2. Joined(0) /\ HeadFalls /\ (Minted' => Minted /\ setup'.held = setup.held)
  BY DEF Joined, HeadFalls, Minted, Enrolling
<1> QED BY <1>1, <1>2, QuietKept

LEMMA AwaitKept ==
  ASSUME Typed, Fresh, Spent, NEW by, NEW then, await(by, then, 0), then # "enrolled",
         UNCHANGED <<chains, head, lost, over, identity, setup>>, stored' \in {stored, None},
         pin'.stage = "granted" => pin' = pin,
         \/ renewal' = renewal
         \/ renewal'.stage = "settling" /\ renewal'.held = renewal.held /\ stored' = None
  PROVE  Fresh' /\ Spent'
<1>1. Joined(0) /\ (Enrolling' => Enrolling)
  BY JoinedAwait DEF Typed
<1>2. HeadFalls /\ RenewalMoves(None) /\ (Minted' => Minted /\ setup'.held = setup.held)
  BY <1>1 DEF HeadFalls, RenewalMoves, Minted
<1> QED BY <1>1, <1>2, QuietKept

LEMMA DropKept ==
  ASSUME Typed, Fresh, Spent, NEW by, lock(by) \/ unenrol(by),
         UNCHANGED <<chains, head, identity, setup>>, pin'.stage = "granted" => pin' = pin,
         \/ renewal' = renewal
         \/ renewal'.stage = "settling" /\ renewal'.held = renewal.held
  PROVE  Fresh' /\ Spent'
<1>1. PICK then \in {"locked", "unenrolled"} : drop(by, then)
  BY DEF lock, unenrol
<1> QED BY <1>1, AwaitKept DEF drop

LEMMA StoredKept == ASSUME Typed, Turns, Fresh, Spent, Stored PROVE Fresh' /\ Spent'
<1> DEFINE entry == Head(pending)
<1>1. /\ pending # <<>> /\ entry = pending[1] /\ 1 \in 1 .. Len(pending) /\ pending' = Tail(pending)
      /\ entry.then # "enrolled" /\ PendingOK /\ UNCHANGED server
  BY Popped DEF Stored, Typed
<1>2. \A c : Joined(c) /\ (Enrolling' => Enrolling)
  BY <1>1, JoinedTail
<1>3. /\ over' \subseteq over \union {identity} /\ UNCHANGED <<stored, lost>>
      /\ identity' \in {0, identity} \/ identity' = entry.chain
  BY DEF Stored, Show, tokens
<1>4. RenewalMoves(None)
  <2>1. CASE entry.by # "renewal"
    BY <2>1 DEF Stored, Proceed, RenewalMoves
  <2>2. CASE entry.by = "renewal"
    <3>1. renewal' = Resting /\ renewal.stage = "settling"
      BY <1>1, <2>2 DEF Stored, Proceed, Turns, Waits
    <3> QED BY <3>1, Rests DEF RenewalMoves
  <2> QED BY <2>1, <2>2
<1>5. pin'.stage = "granted" => pin' = pin
  BY Rests DEF Stored, Proceed
<1>6. Minted' => Minted /\ setup'.held = setup.held
  <2>1. CASE entry.by # "setup"
    BY <1>2, <2>1 DEF Stored, Proceed, Minted
  <2>2. CASE entry.by = "setup"
    <3>1. setup'.stage = "reading"
      BY <2>2 DEF Stored, Proceed, Typed, AwayOK, Setups
    <3>2. ~Waits("setup")'
      BY <1>1, <2>2, TurnGone DEF Turns
    <3>3. \A i \in 1 .. Len(pending') : i + 1 \in 1 .. Len(pending) /\ pending'[i] = pending[i + 1]
      BY <1>1, Popped
    <3>4. ~Enrolling'
      BY <3>2, <3>3 DEF Enrolling, Turns, Waits
    <3> QED BY <3>1, <3>4 DEF Minted
  <2> QED BY <2>1, <2>2
<1>7. Moves(None)
  BY <1>1, <1>2, <1>3, <1>4, <1>5, <1>6, NoneSound DEF Moves, HeadFalls, server
<1> QED BY <1>7, NoneSound, FreshKept, SpentKept

LEMMA UnseenSound == ASSUME NEW t, Unseen(t) PROVE Sound(t) /\ t \in SomeToken /\ t # None
BY TokenIs DEF Unseen, Sound, NotAhead, Good, SomeToken

LEMMA Appended ==
  ASSUME NEW tail \in Seq(Pending), NEW entry
  PROVE  /\ Len(tail) \in Nat /\ Len(Append(tail, entry)) = Len(tail) + 1
         /\ Append(tail, entry)[Len(tail) + 1] = entry
         /\ \A i \in 1 .. Len(tail) : Append(tail, entry)[i] = tail[i]
OBVIOUS

LEMMA EnrolledKept == ASSUME Typed, Turns, Fresh, Spent, Enrolled PROVE Fresh' /\ Spent'
<1>1. /\ pending # <<>> /\ Head(pending).then = "enrolled" /\ Head(pending) = pending[1] /\ PendingOK
      /\ 1 \in 1 .. Len(pending)
      /\ UNCHANGED <<identity, renewal, pin, chains, head>>
  BY Popped DEF Enrolled, Typed, snapshot, server
<1>2. HeadFalls
  BY <1>1 DEF HeadFalls
<1>3. CASE setup.kind = "tablet"
  <2>1. /\ pending' = Tail(pending) /\ setup' = [setup EXCEPT !.stage = "reading"]
        /\ UNCHANGED <<stored, over, lost>>
    BY <1>3 DEF Enrolled, tokens, history
  <2>2. setup'.kind = "tablet"
    BY <1>3, <2>1 DEF Typed, AwayOK, Setups
  <2>3. Joined(0) /\ RenewalMoves(None) /\ ~Minted'
    BY <1>1, <2>1, <2>2, JoinedTail DEF RenewalMoves, Minted
  <2> QED BY <1>1, <1>2, <2>1, <2>3, QuietKept
<1>4. CASE setup.kind # "tablet"
  <2>1. /\ stored' = setup.held /\ UNCHANGED <<setup, over, lost>>
        /\ pending' = Append(Tail(pending),
                 [then |-> "signedIn", chain |-> setup.held.chain, by |-> "setup",
                  handle |-> stored, token |-> deviceToken])
    BY <1>4 DEF Enrolled
  <2>2. Minted /\ Waits("setup") /\ setup.stage = "writing" /\ pending[1].by = "setup"
    BY <1>1, <1>4 DEF Minted, Enrolling, Turns, Waits, Typed, AwayOK, Setups, Kinds
  <2>3. PICK new : new = setup.held
    OBVIOUS
  <2>4. Unseen(new) /\ (pin.stage = "granted" => new.chain # pin.held.chain)
    BY <2>2, <2>3 DEF Fresh
  <2> DEFINE entry == [then |-> "signedIn", chain |-> new.chain, by |-> "setup",
                       handle |-> stored, token |-> deviceToken]
  <2> DEFINE tail == Tail(pending)
  <2>5. tail \in Seq(Pending) /\ pending' = Append(tail, entry)
        /\ entry.then = "signedIn" /\ entry.chain = new.chain /\ entry.handle = stored
    BY <1>1, <2>1, <2>3, HeadPending
  <2>6. \A i \in 1 .. Len(pending') :
           \/ pending'[i] = entry
           \/ i + 1 \in 1 .. Len(pending) /\ i + 1 # 1 /\ pending'[i] = pending[i + 1]
    <3> HIDE DEF entry
    <3>1. \A i \in 1 .. Len(tail) : i + 1 \in 1 .. Len(pending) /\ tail[i] = pending[i + 1]
      BY <1>1, Popped
    <3> HIDE DEF tail
    <3>2. /\ Len(tail) \in Nat /\ Len(pending') = Len(tail) + 1 /\ pending'[Len(tail) + 1] = entry
          /\ \A i \in 1 .. Len(tail) : pending'[i] = tail[i]
      BY <2>5, Appended
    <3>3. \A i \in 1 .. Len(pending') : i = Len(tail) + 1 \/ (i \in 1 .. Len(tail) /\ i + 1 # 1)
      BY <3>2
    <3> QED BY <3>1, <3>2, <3>3
  <2> HIDE DEF entry, tail
  <2>7. Joined(new.chain)
    BY <2>5, <2>6 DEF Joined
  <2>8. ~Minted'
    <3>1. \A i \in 1 .. Len(pending) : i # 1 => pending[i].then # "enrolled"
      BY <1>1, <2>2 DEF Turns, Alone
    <3>2. ~Enrolling'
      BY <2>5, <2>6, <3>1 DEF Enrolling
    <3> QED BY <2>1, <2>2, <3>2 DEF Minted
  <2>9. Moves(new)
    BY <1>1, <1>2, <2>1, <2>3, <2>4, <2>7, <2>8 DEF Moves, RenewalMoves
  <2> QED BY <2>4, <2>9, UnseenSound, FreshKept, SpentKept
<1> QED BY <1>3, <1>4

LEMMA AdoptMoves ==
  ASSUME Typed, NEW by, NEW new, adopt(by, new), UNCHANGED <<identity, chains, head, setup>>,
         pin'.stage = "granted" => pin' = pin /\ new.chain # pin.held.chain,
         Minted => new.chain # setup.held.chain,
         renewal' = renewal \/ (renewal'.stage = "settling" /\ renewal'.held = renewal.held)
  PROVE  Moves(new)
<1>1. stored' = new /\ await(by, "signedIn", new.chain) /\ UNCHANGED <<over, lost>> /\ PendingOK
  BY DEF adopt, Typed
<1>2. Joined(new.chain) /\ (Enrolling' => Enrolling)
  BY <1>1, JoinedAwait
<1> QED BY <1>1, <1>2 DEF Moves, HeadFalls, RenewalMoves, Minted

LEMMA RenewalAnsweredKept == ASSUME Typed, Fresh, Spent, RenewalAnswered PROVE Fresh' /\ Spent'
<1>1. /\ renewal.stage \in {"granted", "refused", "off", "revoked"}
      /\ UNCHANGED <<identity, pin, chains, head, setup>>
      /\ renewal' = [renewal EXCEPT !.stage = "settling"]
  BY DEF RenewalAnswered, snapshot, away, server
<1>2. renewal'.stage = "settling" /\ renewal'.held = renewal.held
  BY <1>1 DEF Typed, RenewalOK, Away
<1>3. CASE lock("renewal") \/ unenrol("renewal")
  BY <1>1, <1>2, <1>3, DropKept
<1>4. CASE renewal.stage = "granted" /\ adopt("renewal", Successor(renewal.held))
  <2>1. PICK new : new = Successor(renewal.held)
    OBVIOUS
  <2>2. renewal.held \in Tokens /\ renewal.held.chain \in Chains /\ new \in Tokens
    BY <1>4, <2>1, HeldIs
  <2>3. new.chain = renewal.held.chain /\ new.n = renewal.held.n + 1 /\ new.n \in Nat
    BY <2>1, <2>2, TokenIs DEF Successor, Tokens
  <2>4. new.chain \in Chains /\ Seen(new.chain)
    BY <2>2, <2>3 DEF Seen
  <2>5. head[new.chain] \in {0, new.n} /\ new.chain <= chains
    BY <1>4, <2>3, <2>4 DEF Spent, Fresh
  <2>6. Sound(new) /\ new \in SomeToken
    BY <2>2, <2>3, <2>5 DEF Sound, NotAhead, Good, SomeToken
  <2>7. /\ pin.stage = "granted" => new.chain # pin.held.chain
        /\ Minted => new.chain # setup.held.chain
    BY <2>4 DEF Fresh, Unseen
  <2>8. Moves(new)
    BY <1>1, <1>2, <1>4, <2>1, <2>7, AdoptMoves
  <2> QED BY <2>6, <2>8, FreshKept, SpentKept
<1> QED BY <1>3, <1>4 DEF RenewalAnswered

LEMMA PinAnsweredKept == ASSUME Typed, Fresh, Spent, PinAnswered PROVE Fresh' /\ Spent'
<1>1. /\ pin.stage \in {"granted", "revoked"} /\ UNCHANGED <<identity, renewal, chains, head, setup>>
      /\ pin' = [pin EXCEPT !.stage = "settling"]
  BY DEF PinAnswered, snapshot, server
<1>2. pin'.stage # "granted"
  BY <1>1 DEF Typed, AwayOK, Away
<1>3. CASE unenrol("pin")
  BY <1>1, <1>2, <1>3, DropKept
<1>4. CASE pin.stage = "granted" /\ adopt("pin", pin.held)
  <2>1. PICK new : new = pin.held
    OBVIOUS
  <2>2. Unseen(new) /\ (Minted => new.chain # setup.held.chain)
    BY <1>4, <2>1 DEF Fresh
  <2>3. Moves(new)
    BY <1>1, <1>2, <1>4, <2>1, <2>2, AdoptMoves
  <2> QED BY <2>2, <2>3, UnseenSound, FreshKept, SpentKept
<1> QED BY <1>3, <1>4 DEF PinAnswered

-----------------------------------------------------------------------------
(* What the server does with them.                                          *)

LEMMA HandleIs ==
  ASSUME Typed, NEW i \in 1 .. Len(pending)
  PROVE  pending[i] \in Pending /\ pending[i].handle \in SomeToken
<1>1. pending[i] \in Pending
  BY DEF Typed, PendingOK
<1> QED BY <1>1 DEF Pending, SomeToken

(* A new chain is one the tablet has not seen. *)
LEMMA NewChainKept ==
  ASSUME Typed, Fresh, Spent, chains < MaxChains, chains' = chains + 1,
         head' = [head EXCEPT ![chains + 1] = 1],
         UNCHANGED <<over, identity, pending, stored, renewal, lost>>
  PROVE  /\ Spent' /\ \A c \in Chains : Seen(c)' => c <= chains'
         /\ \A t : Unseen(t) => t.chain # chains + 1 /\ Unseen(t)'
         /\ \A t : t = [chain |-> chains + 1, n |-> 1] => Unseen(t)'
<1>0. chains \in Nat /\ chains' \in Nat /\ chains + 1 \in Chains /\ Chains \subseteq Nat
      /\ chains' \notin 1 .. chains
  BY Bounds DEF Typed, ServerOK, Chains
<1>1. head'[chains + 1] = 1 /\ \A c \in Chains : c <= chains => head'[c] = head[c]
  BY <1>0 DEF Typed, ServerOK
<1>2. \A c : Seen(c)' <=> Seen(c)
  BY DEF Seen
<1>3. \A c \in Chains : Seen(c)' => c <= chains'
  BY <1>0, <1>2 DEF Fresh
<1>4. ASSUME NEW t, Unseen(t) PROVE t.chain # chains + 1 /\ Unseen(t)'
  <2>1. t.chain \in Chains /\ t.chain <= chains /\ t.chain \in Nat
    BY <1>4, TokenIs DEF Unseen
  <2>2. t.chain <= chains + 1 /\ t.chain # chains + 1
    BY <1>0, <2>1
  <2>3. head'[t.chain] = head[t.chain] /\ ~Seen(t.chain)' /\ t \in Tokens /\ t.n = 1
        /\ head[t.chain] \in {0, 1}
    BY <1>1, <1>2, <1>4, <2>1 DEF Unseen
  <2>4. t.chain <= chains'
    BY <2>2
  <2> QED BY <2>2, <2>3, <2>4 DEF Unseen
<1>5. ASSUME NEW t, t = [chain |-> chains + 1, n |-> 1] PROVE Unseen(t)'
  <2>1. t \in Tokens /\ t.n = 1 /\ t.chain = chains + 1
    BY <1>0, <1>5, Bounds DEF Tokens
  <2>2. ~Seen(t.chain)
    BY <1>0, <2>1 DEF Fresh
  <2> QED BY <1>0, <1>1, <1>2, <2>1, <2>2 DEF Unseen
<1>6. ASSUME NEW t \in SomeToken, t # None => Seen(t.chain)
      PROVE  t # None => head'[t.chain] = head[t.chain]
  BY <1>1, <1>6, TokenIs DEF SomeToken, Fresh
<1>7. /\ stored # None => head'[stored.chain] = head[stored.chain]
      /\ renewal.held # None => head'[renewal.held.chain] = head[renewal.held.chain]
  BY <1>6, HeldIs DEF Typed, TokensOK, Seen
<1>8. \A i \in 1 .. Len(pending) : pending[i].handle # None =>
         head'[pending[i].handle.chain] = head[pending[i].handle.chain]
  <2> SUFFICES ASSUME NEW i \in 1 .. Len(pending)
               PROVE  pending[i].handle # None =>
                         head'[pending[i].handle.chain] = head[pending[i].handle.chain]
    OBVIOUS
  <2>1. pending[i].handle \in SomeToken
    BY HandleIs
  <2> QED BY <1>6, <2>1 DEF Seen
<1>9. /\ NotAhead(stored)' <=> NotAhead(stored)
      /\ NotAhead(renewal.held)' <=> NotAhead(renewal.held)
      /\ Good(stored)' <=> Good(stored)
      /\ Good(renewal.held)' <=> Good(renewal.held)
  BY <1>7 DEF NotAhead, Good
<1>10. \A i \in 1 .. Len(pending) : NotAhead(pending[i].handle)'
  BY <1>8 DEF NotAhead, Spent
<1>11. renewal.stage = "granted" => head'[renewal.held.chain] \in {0, renewal.held.n + 1}
  BY <1>7 DEF Spent, Typed, RenewalOK
<1>12. Spent'
  BY <1>9, <1>10, <1>11 DEF Spent
<1> QED BY <1>3, <1>4, <1>5, <1>12

LEMMA enrolKept == ASSUME Typed, Fresh, Spent, NEW kind \in Kinds, enrol(kind) PROVE Fresh' /\ Spent'
<1>1. /\ UNCHANGED <<identity, stored, over, lost, pending, renewal, pin>> /\ Quiet
  BY DEF enrol, snapshot, tokens, history
<1>2. pin.stage # "granted" /\ pin'.stage # "granted"
  BY <1>1, Rests DEF Quiet
<1>3. CASE kind = "tablet"
  <2>1. setup'.kind = "tablet" /\ UNCHANGED <<chains, head>>
    BY <1>3 DEF enrol
  <2>2. HeadFalls /\ Joined(0) /\ RenewalMoves(None) /\ ~Minted'
    BY <1>1, <2>1 DEF HeadFalls, Joined, RenewalMoves, Minted
  <2> QED BY <1>1, <1>2, <2>1, <2>2, QuietKept
<1>4. CASE kind # "tablet"
  <2>1. /\ chains < MaxChains /\ chains' = chains + 1 /\ head' = [head EXCEPT ![chains + 1] = 1]
        /\ setup' = [kind |-> kind, stage |-> "minted", held |-> [chain |-> chains + 1, n |-> 1]]
    BY <1>4 DEF enrol
  <2>2. PICK t : t = [chain |-> chains + 1, n |-> 1]
    OBVIOUS
  <2>3. Spent' /\ (\A c \in Chains : Seen(c)' => c <= chains') /\ Unseen(t)' /\ setup'.held = t
    BY <1>1, <2>1, <2>2, NewChainKept
  <2>4. Unseen(setup.held)'
    BY <2>3 DEF Unseen, Seen
  <2> QED BY <1>2, <2>3, <2>4 DEF Fresh
<1> QED BY <1>3, <1>4

LEMMA ServePinKept == ASSUME Typed, Fresh, Spent, ServePin PROVE Fresh' /\ Spent'
<1>1. /\ UNCHANGED <<identity, stored, over, lost, pending, renewal, setup>> /\ chains < MaxChains
      /\ pin.stage = "asking"
  BY DEF ServePin, snapshot, tokens, history
<1>2. CASE pin' = [pin EXCEPT !.stage = "revoked"] /\ UNCHANGED <<chains, head>>
  <2>1. pin'.stage # "granted" /\ HeadFalls
    BY <1>2 DEF Typed, AwayOK, Away, HeadFalls
  <2> QED BY <1>1, <1>2, <2>1, SameKept
<1>3. CASE /\ chains' = chains + 1 /\ head' = [head EXCEPT ![chains + 1] = 1]
           /\ pin' = [stage |-> "granted", held |-> [chain |-> chains + 1, n |-> 1]]
  <2>2. PICK t, s : t = [chain |-> chains + 1, n |-> 1] /\ s = setup.held
    OBVIOUS
  <2>3. /\ Spent' /\ (\A c \in Chains : Seen(c)' => c <= chains') /\ Unseen(t)' /\ pin'.held = t
        /\ Unseen(s) => s.chain # chains + 1 /\ Unseen(s)'
    BY <1>1, <1>3, <2>2, NewChainKept
  <2>4. Unseen(pin.held)'
    BY <2>3 DEF Unseen, Seen
  <2>5. ASSUME Minted' PROVE Unseen(setup.held)' /\ setup'.held.chain # pin'.held.chain
    <3>1. Minted /\ Unseen(s)
      BY <1>1, <2>2, <2>5 DEF Fresh, Minted, Enrolling
    <3>2. setup'.held = s /\ Unseen(s)' /\ s.chain # chains + 1 /\ t.chain = chains + 1
      BY <1>1, <2>2, <2>3, <3>1
    <3> QED BY <2>3, <3>2 DEF Unseen, Seen
  <2> QED BY <2>3, <2>4, <2>5 DEF Fresh
<1> QED BY <1>1, <1>2, <1>3 DEF ServePin

(* What the tablet has not seen the server does not renew. *)
LEMMA FreshIfSeen ==
  ASSUME Fresh, chains' = chains, \A c \in Chains : Seen(c)' => Seen(c),
         \A c \in Chains : ~Seen(c) => head'[c] = head[c] \/ head'[c] = 0,
         UNCHANGED <<pin, setup, pending>>
  PROVE  Fresh'
<1>1. ASSUME NEW t, Unseen(t) PROVE Unseen(t)'
  <2>1. t.chain \in Chains
    BY <1>1, TokenIs DEF Unseen
  <2> QED BY <1>1, <2>1 DEF Unseen
<1>2. PICK p, s : p = pin.held /\ s = setup.held
  OBVIOUS
<1>3. pin'.stage = "granted" => Unseen(pin.held)'
  <2> SUFFICES ASSUME pin'.stage = "granted" PROVE Unseen(pin.held)'
    OBVIOUS
  <2>1. Unseen(p) /\ pin'.held = p
    BY <1>2 DEF Fresh
  <2>2. Unseen(p)'
    BY <1>1, <2>1
  <2> QED BY <2>1, <2>2 DEF Unseen, Seen
<1>4. Minted' => Minted /\ Unseen(setup.held)'
  <2> SUFFICES ASSUME Minted' PROVE Minted /\ Unseen(setup.held)'
    OBVIOUS
  <2>1. Minted /\ Unseen(s) /\ setup'.held = s
    BY <1>2 DEF Fresh, Minted, Enrolling
  <2>2. Unseen(s)'
    BY <1>1, <2>1
  <2> QED BY <2>1, <2>2 DEF Unseen, Seen
<1> QED BY <1>3, <1>4 DEF Fresh

(* A renewal granted: every other handle of the chain was spent before. *)
LEMMA Advanced ==
  ASSUME Typed, renewal.stage = "asking", mayRenew(renewal.held),
         head' = [head EXCEPT ![renewal.held.chain] = @ + 1], lost \subseteq lost'
  PROVE  /\ \A c \in Chains : c # renewal.held.chain => head'[c] = head[c]
         /\ head'[renewal.held.chain] = renewal.held.n + 1
         /\ \A t \in SomeToken : (NotAhead(t) => NotAhead(t)')
                                 /\ (Good(t) /\ t # renewal.held => Good(t)')
<1>1. renewal.held \in Tokens /\ renewal.held.chain \in Chains /\ renewal.held.n \in Nat
  BY HeldIs
<1>2. /\ \A c \in Chains : c # renewal.held.chain => head'[c] = head[c]
      /\ head'[renewal.held.chain] = renewal.held.n + 1 /\ head[renewal.held.chain] = renewal.held.n
      /\ renewal.held.n >= 1
  BY <1>1, TokenIs DEF Typed, ServerOK, mayRenew
<1>3. ASSUME NEW t \in Tokens
      PROVE  (NotAhead(t) => NotAhead(t)') /\ (Good(t) /\ t # renewal.held => Good(t)')
  <2>1. t.chain \in Chains /\ t.n \in Nat /\ t.n >= 1
    BY TokenIs
  <2>2. CASE t.chain # renewal.held.chain
    <3>1. head'[t.chain] = head[t.chain]
      BY <1>2, <2>1, <2>2
    <3>2. NotAhead(t) => NotAhead(t)'
      BY <3>1 DEF NotAhead
    <3>3. Good(t) => Good(t)'
      BY <3>1 DEF Good
    <3> QED BY <3>2, <3>3
  <2>3. CASE t.chain = renewal.held.chain
    <3>1. NotAhead(t) => NotAhead(t)'
      BY <1>1, <1>2, <2>1, <2>3 DEF NotAhead
    <3>2. t.n = renewal.held.n => t = renewal.held
      BY <1>1, <2>3 DEF Tokens
    <3>3. Good(t) /\ t # renewal.held => t \in lost
      BY <1>1, <1>2, <2>1, <2>3, <3>2, TokenIs DEF Good
    <3>4. Good(t) /\ t # renewal.held => Good(t)'
      BY <3>3 DEF Good
    <3> QED BY <3>1, <3>4
  <2> QED BY <2>2, <2>3
<1>4. (NotAhead(None) => NotAhead(None)') /\ (Good(None) => Good(None)')
  BY DEF NotAhead, Good
<1> QED BY <1>2, <1>3, <1>4 DEF SomeToken

LEMMA SeenIfSame ==
  ASSUME UNCHANGED <<over, identity, stored, pending>>, renewal'.held \in {renewal.held, None}
  PROVE  \A c \in Chains : Seen(c)' => Seen(c)
<1>1. None.chain \notin Chains
  BY NoneSound
<1> QED BY <1>1 DEF Seen

LEMMA AdvancedSpent ==
  ASSUME Typed, Spent, renewal.stage = "asking", mayRenew(renewal.held),
         head' = [head EXCEPT ![renewal.held.chain] = @ + 1], lost \subseteq lost',
         UNCHANGED <<stored, pending>>, renewal'.held \in {renewal.held, None},
         \/ renewal'.stage = "off" /\ renewal'.held = renewal.held
         \/ renewal'.stage = "granted" /\ renewal'.held = renewal.held
         \/ renewal'.stage = "idle" /\ renewal.held \in lost'
  PROVE  Spent'
<1>1. /\ head'[renewal.held.chain] = renewal.held.n + 1
      /\ \A t \in SomeToken : (NotAhead(t) => NotAhead(t)')
                              /\ (Good(t) /\ t # renewal.held => Good(t)')
  BY Advanced
<1>2. stored \in SomeToken /\ renewal.held \in SomeToken /\ None \in SomeToken
  BY HeldIs DEF Typed, TokensOK, SomeToken
<1>3. PICK s, h : s = stored /\ h = renewal.held
  OBVIOUS
<1>4. NotAhead(s)' /\ NotAhead(h)' /\ NotAhead(None)' /\ (s # h => Good(s)')
  BY <1>1, <1>2, <1>3 DEF Spent, NotAhead
<1>5. NotAhead(stored)' /\ NotAhead(renewal.held)'
  BY <1>3, <1>4 DEF NotAhead
<1>6. Good(stored)' \/ (renewal'.stage \in {"granted", "off"} /\ renewal'.held = stored')
  BY <1>3, <1>4 DEF Good
<1>7. \A i \in 1 .. Len(pending') : NotAhead(pending[i].handle)'
  <2> SUFFICES ASSUME NEW i \in 1 .. Len(pending') PROVE NotAhead(pending[i].handle)'
    OBVIOUS
  <2>1. PICK t : t = pending[i].handle
    OBVIOUS
  <2>2. t \in SomeToken /\ NotAhead(t)
    BY <2>1, HandleIs DEF Spent
  <2>3. NotAhead(t)'
    BY <1>1, <2>2
  <2> QED BY <2>1, <2>3 DEF NotAhead
<1> QED BY <1>1, <1>5, <1>6, <1>7 DEF Spent

LEMMA ServeRenewalKept == ASSUME Typed, Fresh, Spent, ServeRenewal PROVE Fresh' /\ Spent'
<1> DEFINE c == renewal.held.chain
           granted == ~revoked /\ mayRenew(renewal.held)
           stage == IF revoked THEN "revoked" ELSE IF ~granted THEN "refused"
                    ELSE IF off THEN "off" ELSE "granted"
<1>1. /\ UNCHANGED <<identity, stored, pending, pin, setup, chains, over, lost>>
      /\ renewal' = [renewal EXCEPT !.stage = stage] /\ renewal.stage = "asking"
      /\ head' = [head EXCEPT ![c] = IF granted THEN @ + 1 ELSE 0]
  BY DEF ServeRenewal, snapshot, tokens, away, history
<1>2. /\ ~granted => stage \in {"revoked", "refused"}
      /\ granted => stage \in {"granted", "off"}
  OBVIOUS
<1>3. c \in Chains /\ renewal.held \in Tokens /\ renewal \in Away
  BY <1>1, HeldIs DEF Typed, RenewalOK
<1>4. renewal'.held = renewal.held /\ renewal'.stage = stage
  <2> HIDE DEF stage
  <2> QED BY <1>1, <1>3 DEF Away
<1>5. Seen(c)
  BY DEF Seen
<1>6. \A d \in Chains : Seen(d)' => Seen(d)
  BY <1>1, <1>4, SeenIfSame
<1>7. CASE granted
  <2>1. head' = [head EXCEPT ![c] = @ + 1]
    BY <1>1, <1>7
  <2>2. \A d \in Chains : d # c => head'[d] = head[d]
    BY <1>1, <1>7, <2>1, Advanced
  <2>3. Fresh'
    BY <1>1, <1>5, <1>6, <2>2, FreshIfSeen
  <2>4. Spent'
    BY <1>1, <1>2, <1>4, <1>7, <2>1, AdvancedSpent
  <2> QED BY <2>3, <2>4
<1>8. CASE ~granted
  <2>1. HeadFalls
    BY <1>1, <1>3, <1>8 DEF HeadFalls, Typed, ServerOK
  <2>2. Fresh'
    BY <1>1, <1>6, <2>1, FreshIfSeen DEF HeadFalls
  <2>3. \A t \in SomeToken : (NotAhead(t) => NotAhead(t)') /\ (Good(t) => Good(t)')
    BY <1>1, <2>1, SoundKept
  <2>4. PICK s, h : s = stored /\ h = renewal.held
    OBVIOUS
  <2>5. s \in SomeToken /\ h \in SomeToken
    BY <2>4, HeldIs DEF Typed, TokensOK, SomeToken
  <2>6. NotAhead(s)' /\ NotAhead(h)' /\ Good(s)'
    BY <1>1, <2>3, <2>4, <2>5 DEF Spent
  <2>7. NotAhead(stored)' /\ NotAhead(renewal.held)' /\ Good(stored)'
    BY <1>1, <1>4, <2>4, <2>6 DEF NotAhead, Good
  <2>8. \A i \in 1 .. Len(pending') : NotAhead(pending[i].handle)'
    <3> SUFFICES ASSUME NEW i \in 1 .. Len(pending') PROVE NotAhead(pending[i].handle)'
      OBVIOUS
    <3>1. PICK t : t = pending[i].handle
      OBVIOUS
    <3>2. t \in SomeToken /\ NotAhead(t)
      BY <1>1, <3>1, HandleIs DEF Spent
    <3>3. NotAhead(t)'
      BY <2>3, <3>2
    <3> QED BY <1>1, <3>1, <3>3 DEF NotAhead
  <2>9. renewal'.stage \notin {"reading", "asking", "granted"}
    BY <1>2, <1>4, <1>8
  <2> QED BY <2>2, <2>7, <2>8, <2>9 DEF Spent
<1> QED BY <1>7, <1>8

LEMMA RenewalLostKept == ASSUME Typed, Fresh, Spent, RenewalLost PROVE Fresh' /\ Spent'
<1>1. /\ UNCHANGED <<identity, stored, pending, pin, setup, chains, over>>
      /\ renewal' = Resting /\ renewal.stage \in {"asking", "granted"} /\ Abandon
  BY DEF RenewalLost, snapshot, tokens, away
<1>2. renewal'.held = None /\ renewal'.stage = "idle"
  BY <1>1, Rests
<1>3. \A d \in Chains : Seen(d)' => Seen(d)
  BY <1>1, <1>2, SeenIfSame
<1>4. CASE UNCHANGED head /\ lost' = IF renewal.stage = "granted" THEN lost \union {renewal.held} ELSE lost
  <2>1. Fresh'
    BY <1>1, <1>3, <1>4, FreshIfSeen
  <2>2. PICK s : s = stored
    OBVIOUS
  <2>3. NotAhead(stored)' /\ NotAhead(renewal.held)'
    BY <1>1, <1>2, <1>4 DEF NotAhead, Spent
  <2>4. Good(stored)'
    BY <1>1, <1>4 DEF Good, Spent
  <2>5. \A i \in 1 .. Len(pending') : NotAhead(pending[i].handle)'
    BY <1>1, <1>4 DEF NotAhead, Spent
  <2> QED BY <1>2, <2>1, <2>3, <2>4, <2>5 DEF Spent
<1>5. CASE /\ renewal.stage = "asking" /\ mayRenew(renewal.held)
           /\ head' = [head EXCEPT ![renewal.held.chain] = @ + 1]
           /\ lost' = lost \union {renewal.held}
  <2>1. \A d \in Chains : d # renewal.held.chain => head'[d] = head[d]
    BY <1>5, Advanced
  <2>2. Seen(renewal.held.chain)
    BY DEF Seen
  <2>3. Fresh'
    BY <1>1, <1>3, <2>1, <2>2, FreshIfSeen
  <2>4. Spent'
    BY <1>1, <1>2, <1>5, AdvancedSpent
  <2> QED BY <2>3, <2>4
<1> QED BY <1>1, <1>4, <1>5 DEF Abandon

LEMMA ReloadKept == ASSUME Typed, Fresh, Spent, Reload PROVE Fresh' /\ Spent'
<1>1. /\ identity' = 0 /\ pending' = <<>> /\ renewal' = Resting /\ pin' = Resting
      /\ setup' = NoSetup /\ UNCHANGED <<chains, over>>
      /\ lost' = lost \union {t \in {stored', renewal.held} : t # None /\ t.n < head'[t.chain]}
  BY DEF Reload
<1>2. /\ renewal'.held = None /\ renewal'.stage = "idle" /\ pin'.stage = "idle"
      /\ setup'.kind = "tablet" /\ None \in SomeToken
  BY <1>1, Rests DEF NoSetup, SomeToken
<1>3. stored' = stored \/ \E i \in 1 .. Len(pending) : stored' = pending[i].handle
  <2>1. PICK i \in 1 .. Len(pending) + 1 :
           stored' = IF i > Len(pending) THEN stored ELSE pending[i].handle
    BY DEF Reload
  <2>2. Len(pending) \in Nat
    BY DEF Typed, PendingOK
  <2>3. CASE i > Len(pending)
    BY <2>1, <2>3
  <2>4. CASE ~(i > Len(pending))
    <3>1. i \in 1 .. Len(pending)
      BY <2>2, <2>4
    <3> QED BY <2>1, <2>4, <3>1
  <2> QED BY <2>3, <2>4
<1>4. \A c \in Chains : Seen(c)' => Seen(c)
  <2> SUFFICES ASSUME NEW c \in Chains, Seen(c)' PROVE Seen(c)
    OBVIOUS
  <2>1. c # 0 /\ None.chain = 0
    BY DEF Chains, None
  <2>2. c \in over \/ c = stored'.chain
    BY <1>1, <1>2, <2>1 DEF Seen
  <2> QED BY <1>3, <2>2 DEF Seen
<1>5. Fresh'
  BY <1>1, <1>2, <1>4 DEF Fresh, Minted
<1>6. PICK t : t = stored'
  OBVIOUS
<1>7. t \in SomeToken /\ NotAhead(t)
  BY <1>3, <1>6, HandleIs DEF Typed, TokensOK, SomeToken, Spent
<1>8. \A u \in SomeToken : NotAhead(u) => NotAhead(u)'
  <2>1. CASE UNCHANGED head
    BY <2>1 DEF NotAhead
  <2>2. CASE /\ renewal.stage = "asking" /\ mayRenew(renewal.held)
             /\ head' = [head EXCEPT ![renewal.held.chain] = @ + 1]
    BY <1>1, <2>2, Advanced
  <2> QED BY <2>1, <2>2 DEF Reload
<1>9. NotAhead(t)'
  BY <1>7, <1>8
<1>10. NotAhead(stored)' /\ NotAhead(renewal.held)'
  BY <1>2, <1>6, <1>9 DEF NotAhead
<1>11. Good(stored)'
  <2> SUFFICES ASSUME t # None PROVE head'[t.chain] \in {0, t.n} \/ t \in lost'
    BY <1>6 DEF Good
  <2>1. t \in Tokens /\ t.chain \in Chains /\ t.n \in Nat
    BY <1>7, TokenIs DEF SomeToken
  <2>2. head'[t.chain] \in Nat
    BY <2>1, ReloadTyped DEF Typed, ServerOK
  <2>3. head'[t.chain] = 0 \/ t.n <= head'[t.chain]
    BY <1>9 DEF NotAhead
  <2>4. t.n < head'[t.chain] => t \in lost'
    BY <1>1, <1>6
  <2> QED BY <2>1, <2>2, <2>3, <2>4
<1> QED BY <1>1, <1>2, <1>5, <1>10, <1>11 DEF Spent

(* The rest: they write no handle, or let go of the one there was. *)
LEMMA StepKept == Typed /\ Turns /\ Fresh /\ Spent /\ [Next]_vars => Fresh' /\ Spent'
<1> SUFFICES ASSUME Typed, Turns, Fresh, Spent, [Next]_vars PROVE Fresh' /\ Spent'
  OBVIOUS
<1> DEFINE Same == /\ UNCHANGED <<chains, lost, over, identity, pending, stored, renewal, setup>>
                   /\ HeadFalls
                   /\ pin'.stage = "granted" => pin' = pin
<1>0. UNCHANGED head => HeadFalls
  BY DEF HeadFalls
<1>1. Same => Fresh' /\ Spent'
  BY SameKept
<1>2. CASE UNCHANGED vars
  BY <1>0, <1>1, <1>2 DEF vars, snapshot, tokens, away, server, history
<1>3. CASE restore \/ poll \/ Unauthorized
  <2>1. UNCHANGED <<chains, head, lost, over, identity, pending, stored, setup, pin>>
    BY <1>3 DEF restore, poll, Unauthorized, snapshot, tokens, away, server, history
  <2>2. renew \/ UNCHANGED renewal
    BY <1>3 DEF restore, poll, Unauthorized
  <2> QED BY <1>0, <1>1, <2>1, <2>2, RenewKept
<1>4. CASE RenewalRead
  <2>1. UNCHANGED <<identity, pin, setup, chains, head>> /\ renewal.stage = "reading" /\ HeadFalls
    BY <1>0, <1>4 DEF RenewalRead, snapshot, away, server
  <2>2. CASE lock("renewal") /\ renewal' = [renewal EXCEPT !.stage = "settling"]
    <3>1. renewal'.stage = "settling" /\ renewal'.held = renewal.held
      BY <2>2 DEF Typed, RenewalOK, Away
    <3> QED BY <2>1, <2>2, <3>1, DropKept
  <2>3. CASE /\ UNCHANGED <<stored, pending, over, lost>>
             /\ renewal' = [renewal EXCEPT !.stage = "asking"] \/ renewal' = Resting
    <3>1. \/ renewal'.stage = "asking" /\ renewal'.held = renewal.held
          \/ renewal'.stage = "idle" /\ renewal'.held = None
      BY <2>3, Rests DEF Typed, RenewalOK, Away
    <3>2. RenewalMoves(None) /\ Joined(0) /\ (Minted' => Minted /\ setup'.held = setup.held)
      BY <2>1, <2>3, <3>1 DEF RenewalMoves, Joined, Minted, Enrolling
    <3> QED BY <2>1, <2>3, <3>2, QuietKept
  <2> QED BY <1>4, <2>2, <2>3 DEF RenewalRead, tokens, history
<1>5. CASE CallAnswered
  <2>1. UNCHANGED <<identity, pin, setup, chains, head, renewal>>
    BY <1>5 DEF CallAnswered, server
  <2>2. CASE lock("call") \/ unenrol("call")
    BY <2>1, <2>2, DropKept
  <2>3. CASE UNCHANGED <<tokens, pending, idleVars, history>>
    BY <1>0, <1>1, <2>1, <2>3 DEF tokens, history
  <2> QED BY <1>5, <2>2, <2>3 DEF CallAnswered
<1>6. CASE SetupAnswered
  <2>1. /\ UNCHANGED <<identity, stored, renewal, pin, chains, head, over, lost>> /\ HeadFalls
        /\ setup.stage = "minted" /\ setup' = [setup EXCEPT !.stage = "writing"]
        /\ await("setup", "enrolled", 0) /\ PendingOK
    BY <1>0, <1>6 DEF SetupAnswered, snapshot, server, history, Typed
  <2>2. Joined(0)
    BY <2>1, JoinedAwait
  <2>3. setup'.kind = setup.kind /\ setup'.held = setup.held
    BY <2>1 DEF Typed, AwayOK, Setups
  <2>4. RenewalMoves(None) /\ (Minted' => Minted /\ setup'.held = setup.held)
    BY <2>1, <2>3 DEF RenewalMoves, Minted
  <2> QED BY <2>1, <2>2, <2>4, QuietKept
<1>7. CASE SetupRead
  <2>1. /\ UNCHANGED <<pending, stored, renewal, pin, chains, head, over, lost>> /\ HeadFalls
        /\ setup' = NoSetup /\ (identity' = identity \/ identity' = 0)
    BY <1>0, <1>7 DEF SetupRead, snapshot, tokens, server, history
  <2>2. RenewalMoves(None) /\ Joined(0) /\ ~Minted'
    BY <2>1 DEF RenewalMoves, Joined, Minted, NoSetup
  <2> QED BY <2>1, <2>2, QuietKept
<1>8. CASE Left
  BY <1>8, DropKept DEF Left, snapshot, server
<1>9. CASE refreshDevice
  <2>1. UNCHANGED <<identity, stored, renewal, pin, setup, chains, head, over, lost>>
    BY <1>9 DEF refreshDevice, snapshot, tokens, server, history
  <2>2. CASE await("call", "unenrolled", 0)
    BY <2>1, <2>2, AwaitKept
  <2>3. CASE UNCHANGED pending
    BY <1>0, <1>1, <2>1, <2>3
  <2> QED BY <1>9, <2>2, <2>3 DEF refreshDevice
<1>10. CASE roster
  <2>1. UNCHANGED <<identity, renewal, pin, setup, chains, head>>
    BY <1>10 DEF roster, snapshot, server
  <2>2. CASE unenrol("call")
    BY <2>1, <2>2, DropKept
  <2>3. CASE UNCHANGED <<tokens, pending, idleVars, history>>
    BY <1>0, <1>1, <2>1, <2>3 DEF tokens, history
  <2> QED BY <1>10, <2>2, <2>3 DEF roster
<1>11. CASE signInWithPin
  <2>1. UNCHANGED <<identity, renewal, setup, chains, head>>
    BY <1>11 DEF signInWithPin, snapshot, server
  <2>2. pin'.stage # "granted"
    BY <1>11 DEF signInWithPin, Resting
  <2>3. CASE unenrol("pin")
    BY <2>1, <2>2, <2>3, DropKept
  <2>4. CASE UNCHANGED <<tokens, pending, idleVars, history>>
    BY <1>0, <1>1, <2>1, <2>2, <2>4 DEF tokens, history
  <2> QED BY <1>11, <2>3, <2>4 DEF signInWithPin
<1>12. CASE IdleCheck
  <2>1. UNCHANGED <<identity, renewal, pin, setup, chains, head>>
    BY <1>12 DEF IdleCheck, snapshot, away, server
  <2>2. CASE lock("idle")
    BY <2>1, <2>2, DropKept
  <2>3. CASE UNCHANGED <<tokens, pending, history>>
    BY <1>0, <1>1, <2>1, <2>3 DEF tokens, history
  <2> QED BY <1>12, <2>2, <2>3 DEF IdleCheck
<1>13. CASE FeatureOff
  BY <1>13, DropKept DEF FeatureOff, snapshot, away, server
<1>14. CASE signOut \/ unpair \/ touch \/ Tick \/ ServeCall \/ PinRefused \/ CallLost
  <2>1. UNCHANGED <<chains, lost, over, identity, pending, stored, renewal, setup, head>>
    BY <1>14 DEF signOut, unpair, touch, Tick, ServeCall, PinRefused, CallLost, snapshot, tokens,
                 away, server, history
  <2>2. pin' = pin \/ pin' = Resting
    BY <1>14 DEF signOut, unpair, touch, Tick, ServeCall, PinRefused, CallLost, away
  <2> QED BY <1>0, <1>1, <2>1, <2>2, Rests
<1>15. CASE ServeSignOut
  <2>1. UNCHANGED <<chains, lost, over, identity, pending, stored, renewal, setup, pin>>
    BY <1>15 DEF ServeSignOut, snapshot, tokens, history
  <2>2. HeadFalls
    BY <1>0, <1>15 DEF ServeSignOut, HeadFalls, Typed, ServerOK
  <2> QED BY <1>1, <2>1, <2>2
<1>16. CASE Manager
  <2>1. UNCHANGED <<chains, lost, over, identity, pending, stored, renewal, setup, pin>>
    BY <1>16 DEF Manager, snapshot, tokens, away, history
  <2>2. HeadFalls
    BY <1>0, <1>16 DEF Manager, HeadFalls, Typed, ServerOK
  <2> QED BY <1>1, <2>1, <2>2
<1> QED BY <1>2, <1>3, <1>4, <1>5, <1>6, <1>7, <1>8, <1>9, <1>10, <1>11, <1>12, <1>13, <1>14,
        <1>15, <1>16, StoredKept, EnrolledKept, RenewalAnsweredKept, PinAnsweredKept, enrolKept,
        ServePinKept, ServeRenewalKept, RenewalLostKept, ReloadKept DEF Next, Page, Person, Network

LEMMA AlwaysFresh == Spec => [](Fresh /\ Spent)
<1>1. Init => Fresh /\ Spent
  <2> SUFFICES ASSUME Init PROVE Fresh /\ Spent
    OBVIOUS
  <2>1. /\ over = {} /\ identity = 0 /\ stored = None /\ renewal = Resting /\ pending = <<>>
        /\ pin = Resting /\ setup = NoSetup
    BY DEF Init
  <2>2. renewal.held = None /\ renewal.stage = "idle" /\ pin.stage = "idle" /\ setup.kind = "tablet"
    BY <2>1, Rests DEF NoSetup
  <2>3. Fresh
    BY <2>1, <2>2, NoneSound DEF Fresh, Seen, Minted, Chains
  <2>4. Spent
    BY <2>1, <2>2 DEF Spent, NotAhead, Good
  <2> QED BY <2>3, <2>4
<1> QED BY <1>1, StepKept, AlwaysTyped, AlwaysTurns, PTL DEF Spec

(* The handle a renewal presents is its chain's current one, or the chain   *)
(* is over, or the answer to it was lost: renewals share one flight, write  *)
(* the rotated handle before anybody reads it again, and a PIN, a pairing   *)
(* or a reload brings no handle that was spent, so the tablet is not locked *)
(* for presenting one.                                                      *)
THEOREM HandleSpentOnce == Spec => []SpentOnce
<1>1. Typed /\ Spent => SpentOnce
  <2> SUFFICES ASSUME Typed, Spent, renewal.stage = "asking"
               PROVE  head[renewal.held.chain] \in {0, renewal.held.n} \/ renewal.held \in lost
    BY DEF SpentOnce
  <2>1. renewal.held # None /\ Good(renewal.held)
    BY DEF Spent, Typed, RenewalOK
  <2> QED BY <2>1 DEF Good
<1> QED BY <1>1, AlwaysTyped, AlwaysFresh, PTL

-----------------------------------------------------------------------------
(* The storage, what it was asked last and the token in memory tell one     *)
(* story, unless credentials changed under an answer on its way (`late`):   *)
(* there is a handle only with a device token, whatever is under way is for *)
(* the session there is, the last thing asked of the storage is true of     *)
(* what it holds, and nothing else happens while a tablet is enrolled.      *)
Unknown == state = "unknown" => access = None /\ Quiet

Setting == setup.stage = "minted" \/ Enrolling \/ (setup.stage # "idle" /\ setup.kind = "tablet")

Fits(then, chain) == IF then = "signedIn" THEN access # None /\ stored = access /\ chain = access.chain
                     ELSE access = None /\ stored = None

Ends == IF pending # <<>> THEN Fits(pending[Len(pending)].then, pending[Len(pending)].chain)
        ELSE /\ state = "signedIn" => access # None /\ stored = access /\ identity = access.chain
             /\ state = "locked" => access = None
             /\ state = "unenrolled" => access = None /\ stored = None

Handles == /\ deviceToken = "none" => stored = None
           /\ \A i \in 1 .. Len(pending) : pending[i].token = "none" => pending[i].handle = None

Flights == /\ InFlight(renewal) => renewal.held = stored
           /\ InFlight(pin) => deviceToken # "none"

Enrols == Setting =>
   /\ state = "unenrolled" /\ access = None /\ stored = None
   /\ pin = Resting /\ call = NoCall /\ leaving = NotLeaving
   /\ pending = <<>> \/ (Len(pending) = 1 /\ Enrolling /\ deviceToken = setup.kind)

Story == Handles /\ Flights /\ Ends /\ Enrols

LEMMA StepUnknown == Typed /\ Unknown /\ [Next]_vars => Unknown'
<1> SUFFICES ASSUME Typed, Unknown, [Next]_vars, state' = "unknown" PROVE access' = None /\ Quiet'
  BY DEF Unknown
<1>0. Quiet => /\ ~Stored /\ ~Enrolled /\ ~RenewalRead /\ ~RenewalAnswered /\ ~PinAnswered
               /\ ~CallAnswered /\ ~SetupAnswered /\ ~SetupRead /\ ~Left /\ ~ServeRenewal /\ ~ServePin
               /\ ~ServeCall /\ ~ServeSignOut /\ ~RenewalLost /\ ~PinRefused /\ ~CallLost
  BY DEF Quiet, Resting, NoCall, NoSetup, NotLeaving, Stored, Enrolled, RenewalRead, RenewalAnswered,
         PinAnswered, CallAnswered, SetupAnswered, SetupRead, Left, ServeRenewal, ServePin,
         ServeCall, ServeSignOut, RenewalLost, PinRefused, CallLost
<1>1. CASE Reload
  BY <1>1 DEF Reload, Quiet
<1>2. CASE Stored
  <2>1. state' = Head(pending).then /\ Head(pending) \in Pending
    BY <1>2, HeadPending DEF Stored, Show, Typed
  <2> QED BY <2>1 DEF Pending
<1>3. CASE state = "unknown" /\ ~Reload
  <2>1. access = None /\ Quiet
    BY <1>3 DEF Unknown
  <2>2. \/ UNCHANGED vars \/ IdleCheck \/ Manager \/ Tick
    BY <1>0, <1>3, <2>1 DEF Next, Page, Person, Network, restore, refreshDevice, roster, poll,
       Unauthorized, FeatureOff, signInWithPin, signOut, unpair, touch, enrol
  <2>3. UNCHANGED <<access, pending, renewal, pin, call, setup, leaving>>
    <3>1. CASE UNCHANGED vars \/ Manager \/ Tick
      BY <3>1 DEF vars, tokens, away, Manager, Tick
    <3>2. CASE IdleCheck
      BY <1>3, <3>2 DEF IdleCheck, tokens, away
    <3> QED BY <2>2, <3>1, <3>2
  <2> QED BY <2>1, <2>3 DEF Quiet
<1>4. CASE state # "unknown" /\ ~Reload /\ ~Stored
  <2>1. state' = state \/ state' = "locked" \/ state' = "unenrolled"
    BY <1>4 DEF Next, Page, Person, Network, vars, snapshot, Enrolled, restore, RenewalRead,
       RenewalAnswered, PinAnswered, CallAnswered, SetupAnswered, SetupRead, Left, refreshDevice,
       roster, IdleCheck, poll, Unauthorized, FeatureOff, signInWithPin, signOut, unpair, touch,
       enrol, ServeRenewal, ServePin, ServeCall, ServeSignOut, RenewalLost, PinRefused, CallLost,
       Manager, Tick
  <2> QED BY <1>4, <2>1
<1> QED BY <1>1, <1>2, <1>3, <1>4

LEMMA LateStays == Typed /\ [Next]_vars => (late => late')
<1> SUFFICES ASSUME Typed, [Next]_vars, late PROVE late'
  OBVIOUS
<1>1. /\ \A by, then : Overlap(by, then) => late'
      /\ \A by : lock(by) \/ unenrol(by) => late'
      /\ \A by, token : adopt(by, token) => late'
      /\ UNCHANGED late => late'
  BY DEF Overlap, lock, unenrol, drop, adopt
<1>2. CASE Next
  <2>1. CASE Page
    BY <1>1, <2>1 DEF Page, history, Stored, Show, Enrolled, restore, RenewalRead,
       RenewalAnswered, PinAnswered, CallAnswered, SetupAnswered, SetupRead, Left, refreshDevice,
       roster, IdleCheck, poll, Unauthorized, FeatureOff
  <2>2. CASE Person
    BY <1>1, <2>2 DEF Person, history, signInWithPin, signOut, unpair, touch, enrol
  <2>3. CASE Network \/ Tick
    BY <1>1, <2>3 DEF Network, history, ServeRenewal, ServePin, ServeCall, ServeSignOut, RenewalLost,
       PinRefused, CallLost, Manager, Tick, Reload
  <2> QED BY <1>2, <2>1, <2>2, <2>3 DEF Next
<1> QED BY <1>1, <1>2 DEF vars, history

(* What the storage is asked last is the last it answers. *)
LEMMA EndsAwaited ==
  ASSUME Typed, NEW by, NEW then, NEW chain, await(by, then, chain)
  PROVE  /\ pending' # <<>> /\ pending'[Len(pending')].then = then
         /\ pending'[Len(pending')].chain = chain
         /\ Handles => \A i \in 1 .. Len(pending') : pending'[i].token = "none" => pending'[i].handle = None
<1>1. /\ Len(pending) \in Nat /\ Len(pending') = Len(pending) + 1
      /\ \A i \in 1 .. Len(pending) : pending'[i] = pending[i]
      /\ pending'[Len(pending')] = [then |-> then, chain |-> chain, by |-> by,
                                    handle |-> stored, token |-> deviceToken]
  BY Awaited DEF Typed
<1>2. /\ pending'[Len(pending')].then = then /\ pending'[Len(pending')].chain = chain
      /\ pending'[Len(pending')].handle = stored /\ pending'[Len(pending')].token = deviceToken
  BY <1>1
<1>3. \A i \in 1 .. Len(pending') : i \in 1 .. Len(pending) \/ i = Len(pending')
  BY <1>1
<1>4. pending' # <<>>
  BY <1>1
<1> QED BY <1>1, <1>2, <1>3, <1>4 DEF Handles

LEMMA StoryDropped ==
  ASSUME Typed, Story, ~late', ~Setting, NEW by, NEW then \in Drops, drop(by, then),
         deviceToken' = deviceToken \/ (then = "unenrolled" /\ deviceToken' = "none"),
         UNCHANGED setup, renewal' = renewal \/ (by = "renewal" /\ renewal'.stage = "settling"),
         by = "renewal" => renewal'.stage = "settling",
         pin' = pin \/ (by = "pin" /\ pin'.stage = "settling"),
         by = "pin" => pin'.stage = "settling"
  PROVE  Story'
<1>1. access' = None /\ stored' = None /\ await(by, then, 0) /\ Overlap(by, then)
  BY DEF drop
<1>2. Handles' /\ Ends'
  BY <1>1, EndsAwaited DEF Story, Handles, Ends, Fits, Drops
<1>3. Flights'
  BY <1>1 DEF Overlap, Flights, InFlight, Story
<1>4. ~Setting'
  BY <1>1, JoinedAwait DEF Setting, Typed, Drops
<1> QED BY <1>2, <1>3, <1>4 DEF Story, Enrols

LEMMA StoryAdopted ==
  ASSUME Typed, Story, ~late', ~Setting, NEW by, NEW new \in Tokens, adopt(by, new),
         deviceToken # "none",
         UNCHANGED setup, renewal' = renewal \/ (by = "renewal" /\ renewal'.stage = "settling"),
         by = "renewal" => renewal'.stage = "settling",
         pin' = pin \/ (by = "pin" /\ pin'.stage = "settling")
  PROVE  Story'
<1>1. access' = new /\ stored' = new /\ await(by, "signedIn", new.chain) /\ Overlap(by, "signedIn")
      /\ deviceToken' = deviceToken /\ new # None
  BY TokenIs DEF adopt
<1>2. Handles' /\ Ends'
  BY <1>1, EndsAwaited DEF Story, Handles, Ends, Fits
<1>3. Flights'
  BY <1>1 DEF Overlap, Flights, InFlight, Story
<1>4. ~Setting'
  BY <1>1, JoinedAwait DEF Setting, Typed
<1> QED BY <1>2, <1>3, <1>4 DEF Story, Enrols

LEMMA StorySame ==
  ASSUME Story, UNCHANGED <<state, identity, access, stored, deviceToken, pending, setup>>,
         InFlight(renewal)' => renewal'.held = stored \/ (InFlight(renewal) /\ renewal'.held = renewal.held),
         InFlight(pin)' => InFlight(pin) \/ deviceToken # "none",
         Setting => UNCHANGED <<pin, call, leaving>>
  PROVE  Story'
<1>1. Handles' /\ Ends'
  BY DEF Story, Handles, Ends, Fits
<1>2. Flights'
  BY DEF Story, Flights, InFlight
<1>3. Enrols'
  BY DEF Story, Enrols, Setting, Enrolling
<1> QED BY <1>1, <1>2, <1>3 DEF Story

LEMMA StoredStory == ASSUME Typed, Turns, Story, Stored PROVE Story'
<1> DEFINE entry == Head(pending)
<1>1. /\ pending # <<>> /\ entry = pending[1] /\ 1 \in 1 .. Len(pending) /\ pending' = Tail(pending)
      /\ entry.then # "enrolled" /\ PendingOK /\ UNCHANGED tokens /\ entry \in Pending
      /\ Len(pending) \in Nat
  BY Popped, HeadPending DEF Stored, Show, Typed
<1>2. /\ Len(pending') = Len(pending) - 1
      /\ \A i \in 1 .. Len(pending') : i + 1 \in 1 .. Len(pending) /\ pending'[i] = pending[i + 1]
  BY <1>1, Popped
<1>3. Handles'
  BY <1>1, <1>2 DEF Story, Handles, tokens
<1>4. Flights'
  BY <1>1, Rests DEF Story, Flights, InFlight, tokens, Stored, Proceed
<1>5. Ends'
  <2>1. CASE Len(pending) = 1
    <3>1. pending' = <<>> /\ Fits(entry.then, entry.chain)
      BY <1>1, <1>2, <2>1 DEF Story, Ends
    <3>2. entry.then \in {"locked", "unenrolled", "signedIn"}
      BY <1>1 DEF Pending
    <3>3. state' = entry.then /\ (entry.then = "signedIn" => identity' = entry.chain)
      BY DEF Stored, Show
    <3> QED BY <1>1, <3>1, <3>2, <3>3 DEF Ends, Fits, tokens
  <2>2. CASE Len(pending) # 1
    <3>1. Len(pending') \in 1 .. Len(pending') /\ Len(pending') + 1 = Len(pending)
      BY <1>1, <1>2, <2>2
    <3>2. pending' # <<>> /\ pending'[Len(pending')] = pending[Len(pending)]
      BY <1>2, <3>1
    <3> QED BY <1>1, <3>2 DEF Story, Ends, Fits, tokens
  <2> QED BY <2>1, <2>2
<1>6. ~Setting
  BY <1>1 DEF Story, Enrols, Enrolling
<1>7. ~Setting'
  <2>1. Enrolling' => Enrolling
    BY <1>1, JoinedTail
  <2>2. CASE setup' = setup
    BY <1>6, <2>1, <2>2 DEF Setting
  <2>3. CASE setup' # setup
    <3>1. entry.by = "setup" /\ setup' = [setup EXCEPT !.stage = "reading", !.held = None]
      BY <2>3 DEF Stored, Proceed
    <3>2. setup'.stage = "reading" /\ setup'.kind = setup.kind /\ setup.stage = "writing"
      BY <1>1, <3>1 DEF Typed, AwayOK, Setups, Turns, Waits
    <3> QED BY <1>6, <2>1, <3>2 DEF Setting
  <2> QED BY <2>2, <2>3
<1> QED BY <1>3, <1>4, <1>5, <1>7 DEF Story, Enrols

LEMMA Emptied ==
  ASSUME NEW tail \in Seq(Pending), Len(tail) = 0
  PROVE  tail = <<>> /\ \A entry : Len(Append(tail, entry)) = 1 /\ Append(tail, entry)[1] = entry
                                   /\ Append(tail, entry) # <<>>
OBVIOUS

LEMMA EnrolledStory == ASSUME Typed, Turns, Fresh, Story, Enrolled, ~late' PROVE Story'
<1>1. /\ pending # <<>> /\ Head(pending).then = "enrolled" /\ Head(pending) = pending[1] /\ PendingOK
      /\ 1 \in 1 .. Len(pending)
      /\ UNCHANGED <<state, identity, renewal, pin, call, leaving>>
  BY Popped DEF Enrolled, Typed, snapshot
<1>2. Enrolling
  BY <1>1 DEF Enrolling
<1>3. /\ state = "unenrolled" /\ access = None /\ stored = None
      /\ pin = Resting /\ call = NoCall /\ leaving = NotLeaving
      /\ Len(pending) = 1 /\ deviceToken = setup.kind
  BY <1>1, <1>2 DEF Story, Enrols, Setting
<1>4. Tail(pending) \in Seq(Pending) /\ Len(Tail(pending)) = 0 /\ Tail(pending) = <<>>
  <2>1. Tail(pending) \in Seq(Pending) /\ Len(Tail(pending)) = 0
    BY <1>1, <1>3, HeadPending, Popped
  <2> QED BY <2>1, Emptied
<1>5. setup.stage = "writing" /\ setup.kind \in Kinds
  BY <1>1 DEF Turns, Waits, Typed, AwayOK, Setups
<1>6. CASE setup.kind = "tablet"
  <2>1. /\ pending' = <<>> /\ setup' = [setup EXCEPT !.stage = "reading"]
        /\ UNCHANGED <<access, stored, deviceToken>>
    BY <1>4, <1>6 DEF Enrolled, tokens
  <2>2. Handles' /\ Ends' /\ Enrols'
    BY <1>1, <1>3, <2>1 DEF Handles, Ends, Enrols, Story
  <2>3. Flights'
    BY <1>1, <2>1 DEF Flights, InFlight, Story
  <2> QED BY <2>2, <2>3 DEF Story
<1>7. CASE setup.kind # "tablet"
  <2> DEFINE entry == [then |-> "signedIn", chain |-> setup.held.chain, by |-> "setup",
                       handle |-> stored, token |-> deviceToken]
  <2>1. /\ access' = setup.held /\ stored' = setup.held /\ UNCHANGED <<deviceToken, setup>>
        /\ pending' = Append(Tail(pending), entry) /\ Overlap("setup", "signedIn")
    BY <1>7 DEF Enrolled
  <2>2. Minted
    BY <1>2, <1>5, <1>7 DEF Minted, Kinds
  <2>3. setup.held # None
    BY <2>2, UnseenSound DEF Fresh
  <2>4. Len(Append(Tail(pending), entry)) = 1 /\ Append(Tail(pending), entry)[1] = entry
        /\ Append(Tail(pending), entry) # <<>>
    BY <1>4, Emptied
  <2>5. Len(pending') = 1 /\ pending'[1] = entry /\ pending' # <<>>
    BY <2>1, <2>4
  <2>6. deviceToken' # "none"
    BY <1>3, <1>5, <2>1 DEF Kinds
  <2>7. Handles'
    <3>1. pending'[1].handle = None /\ \A i \in 1 .. Len(pending') : i = 1
      BY <1>3, <2>5
    <3> QED BY <2>6, <3>1 DEF Handles
  <2>8. Ends'
    BY <2>1, <2>3, <2>5 DEF Ends, Fits
  <2>9. Flights'
    BY <1>1, <2>1, <2>6 DEF Overlap, Flights, InFlight, Story
  <2>10. ~Setting'
    BY <1>5, <1>7, <2>1, <2>5 DEF Setting, Enrolling
  <2> QED BY <2>7, <2>8, <2>9, <2>10 DEF Story, Enrols
<1> QED BY <1>6, <1>7

LEMMA restoreStory == ASSUME Typed, Unknown, Story, restore PROVE Story'
<1>1. /\ UNCHANGED <<access, stored, deviceToken, pending, pin, call, setup, leaving, identity>>
      /\ access = None /\ pending = <<>> /\ setup = NoSetup
      /\ renew \/ UNCHANGED renewal
      /\ \/ deviceToken = "none" /\ state' = "unenrolled"
         \/ state' = "locked"
  BY DEF restore, Unknown, Quiet, tokens, away, snapshot
<1>2. ~Setting'
  BY <1>1 DEF Setting, Enrolling, NoSetup
<1>3. Handles' /\ Ends'
  BY <1>1 DEF Story, Handles, Ends
<1>4. Flights'
  BY <1>1 DEF Story, Flights, InFlight, renew
<1> QED BY <1>2, <1>3, <1>4 DEF Story, Enrols

LEMMA RenewalReadStory == ASSUME Typed, Story, RenewalRead, ~late' PROVE Story'
<1>1. UNCHANGED <<state, identity, pin, call, setup, leaving>> /\ renewal.stage = "reading"
  BY DEF RenewalRead, snapshot, away
<1>2. CASE lock("renewal") /\ renewal' = [renewal EXCEPT !.stage = "settling"] /\ state = "signedIn"
  <2>1. renewal'.stage = "settling" /\ ~Setting
    BY <1>2 DEF Typed, RenewalOK, Away, Story, Enrols
  <2> QED BY <1>1, <1>2, <2>1, StoryDropped DEF lock, Drops
<1>3. CASE renewal' = [renewal EXCEPT !.stage = "asking"] /\ UNCHANGED <<tokens, pending>>
  <2>1. renewal'.held = renewal.held /\ InFlight(renewal)
    BY <1>1, <1>3 DEF Typed, RenewalOK, Away, InFlight
  <2> QED BY <1>1, <1>3, <2>1, StorySame DEF tokens
<1>4. CASE /\ renewal.held = None /\ state # "signedIn"
           /\ access' = None /\ renewal' = Resting /\ UNCHANGED <<stored, deviceToken, pending>>
  <2>1. stored = None
    BY <1>1, <1>4 DEF Story, Flights, InFlight
  <2>2. Handles' /\ Enrols'
    BY <1>1, <1>4 DEF Story, Handles, Enrols, Setting, Enrolling
  <2>3. Ends'
    BY <1>1, <1>4, <2>1 DEF Story, Ends, Fits
  <2>4. Flights'
    BY <1>1, <1>4, Rests DEF Story, Flights, InFlight
  <2> QED BY <2>2, <2>3, <2>4 DEF Story
<1> QED BY <1>2, <1>3, <1>4 DEF RenewalRead

LEMMA RenewalAnsweredStory == ASSUME Typed, Story, RenewalAnswered, ~late' PROVE Story'
<1>1. /\ renewal.stage \in {"granted", "refused", "off", "revoked"}
      /\ UNCHANGED <<pin, setup>> /\ renewal' = [renewal EXCEPT !.stage = "settling"]
  BY DEF RenewalAnswered, away
<1>2. renewal'.stage = "settling" /\ renewal.held \in Tokens /\ renewal.held # None
      /\ (renewal.stage = "granted" => Successor(renewal.held) \in Tokens)
  BY <1>1, HeldIs DEF Typed, RenewalOK, Away
<1>3. stored # None /\ deviceToken # "none" /\ ~Setting
  BY <1>1, <1>2 DEF Story, Flights, InFlight, Handles, Enrols
<1>4. CASE lock("renewal") \/ unenrol("renewal")
  BY <1>1, <1>2, <1>3, <1>4, StoryDropped DEF lock, unenrol, Drops
<1>5. CASE renewal.stage = "granted" /\ adopt("renewal", Successor(renewal.held))
  BY <1>1, <1>2, <1>3, <1>5, StoryAdopted
<1> QED BY <1>4, <1>5 DEF RenewalAnswered

LEMMA PinAnsweredStory == ASSUME Typed, Fresh, Story, PinAnswered, ~late' PROVE Story'
<1>1. /\ pin.stage \in {"granted", "revoked"} /\ UNCHANGED <<renewal, setup>>
      /\ pin' = [pin EXCEPT !.stage = "settling"]
  BY DEF PinAnswered
<1>2. pin'.stage = "settling" /\ (pin.stage = "granted" => pin.held \in Tokens)
  BY <1>1 DEF Typed, AwayOK, Away, Fresh, Unseen
<1>3. deviceToken # "none" /\ ~Setting
  BY <1>1, Rests DEF Story, Flights, InFlight, Enrols
<1>4. CASE unenrol("pin")
  BY <1>1, <1>2, <1>3, <1>4, StoryDropped DEF unenrol, Drops
<1>5. CASE pin.stage = "granted" /\ adopt("pin", pin.held)
  BY <1>1, <1>2, <1>3, <1>5, StoryAdopted
<1> QED BY <1>4, <1>5 DEF PinAnswered

LEMMA SetupAnsweredStory == ASSUME Typed, Turns, Story, SetupAnswered PROVE Story'
<1>1. /\ setup.stage = "minted" /\ setup' = [setup EXCEPT !.stage = "writing"]
      /\ deviceToken' = setup.kind /\ await("setup", "enrolled", 0)
      /\ UNCHANGED <<state, identity, access, stored, renewal, pin, call, leaving>>
  BY DEF SetupAnswered, snapshot
<1>2. setup'.stage = "writing" /\ setup'.kind = setup.kind /\ setup.kind \in Kinds /\ setup.kind # "none"
  BY <1>1 DEF Typed, AwayOK, Setups, Kinds
<1>3. ~Enrolling
  BY <1>1 DEF Enrolling, Turns, Waits
<1>4. /\ state = "unenrolled" /\ access = None /\ stored = None
      /\ pin = Resting /\ call = NoCall /\ leaving = NotLeaving /\ pending = <<>>
  BY <1>1, <1>3 DEF Story, Enrols, Setting
<1>5. Handles' /\ Ends'
  BY <1>1, <1>2, <1>4, EndsAwaited DEF Story, Handles, Ends, Fits
<1>6. Flights'
  BY <1>1, <1>2 DEF Story, Flights, InFlight
<1>7. Len(pending') = 1 /\ Enrolling'
  <2>1. Len(pending') = 1 /\ pending'[Len(pending')].then = "enrolled"
    <3>1. Len(pending') = Len(pending) + 1 /\ pending'[Len(pending')].then = "enrolled"
      BY <1>1, EndsAwaited, Awaited DEF Typed
    <3>2. Len(pending) = 0
      BY <1>4
    <3> QED BY <3>1, <3>2
  <2> QED BY <2>1 DEF Enrolling
<1> QED BY <1>1, <1>2, <1>4, <1>5, <1>6, <1>7 DEF Story, Enrols

LEMMA SetupReadStory == ASSUME Typed, Turns, Story, SetupRead PROVE Story'
<1>1. /\ setup.stage = "reading" /\ setup' = NoSetup
      /\ UNCHANGED <<access, stored, deviceToken, pending, renewal, pin, call, leaving>>
      /\ \/ setup.kind = "tablet" /\ state' = "locked" /\ identity' = 0
         \/ UNCHANGED <<state, identity>>
  BY DEF SetupRead, tokens, snapshot
<1>2. ~Enrolling /\ ~Enrolling'
  BY <1>1 DEF Enrolling, Turns, Waits
<1>3. ~Setting'
  BY <1>1, <1>2 DEF Setting, NoSetup
<1>4. Handles' /\ Flights'
  BY <1>1 DEF Story, Handles, Flights, InFlight
<1>5. Ends'
  <2>1. CASE UNCHANGED <<state, identity>>
    BY <1>1, <2>1 DEF Story, Ends, Fits
  <2>2. CASE setup.kind = "tablet" /\ state' = "locked"
    <3>1. access = None /\ pending = <<>>
      BY <1>1, <1>2, <2>2 DEF Story, Enrols, Setting
    <3> QED BY <1>1, <2>2, <3>1 DEF Ends
  <2> QED BY <1>1, <2>1, <2>2
<1> QED BY <1>3, <1>4, <1>5 DEF Story, Enrols

LEMMA enrolStory == ASSUME Typed, Story, NEW kind \in Kinds, enrol(kind) PROVE Story'
<1>1. /\ state = "unenrolled" /\ Quiet
      /\ UNCHANGED <<state, identity, access, stored, deviceToken, pending, renewal, pin, call, leaving>>
  BY DEF enrol, snapshot, tokens
<1>2. pending = <<>> /\ pin = Resting /\ call = NoCall /\ leaving = NotLeaving
  BY <1>1 DEF Quiet
<1>3. access = None /\ stored = None
  BY <1>1, <1>2 DEF Story, Ends
<1>4. Handles' /\ Flights' /\ Ends'
  BY <1>1, <1>2 DEF Story, Handles, Flights, InFlight, Ends
<1> QED BY <1>1, <1>2, <1>3, <1>4 DEF Story, Enrols

LEMMA refreshDeviceStory == ASSUME Typed, Story, refreshDevice PROVE Story'
<1>1. /\ UNCHANGED <<state, identity, access, stored, deviceToken, renewal, pin, setup, leaving>>
      /\ ~Setting
  BY DEF refreshDevice, snapshot, tokens, Story, Enrols
<1>2. CASE UNCHANGED pending
  BY <1>1, <1>2, StorySame
<1>3. CASE deviceToken = "none" /\ await("call", "unenrolled", 0)
  <2>1. stored = None
    BY <1>3 DEF Story, Handles
  <2>2. access = None
    BY <2>1 DEF refreshDevice, Story, Ends, Fits
  <2>3. Handles' /\ Ends'
    BY <1>1, <1>3, <2>1, <2>2, EndsAwaited DEF Story, Handles, Ends, Fits
  <2>4. Flights'
    BY <1>1 DEF Story, Flights, InFlight
  <2>5. ~Setting'
    BY <1>1, <1>3, JoinedAwait DEF Setting, Typed
  <2> QED BY <2>3, <2>4, <2>5 DEF Story, Enrols
<1> QED BY <1>2, <1>3 DEF refreshDevice

LEMMA ReloadStory == ASSUME Typed, Story, Reload PROVE Story'
<1>1. /\ pending' = <<>> /\ renewal' = Resting /\ pin' = Resting /\ setup' = NoSetup /\ state' = "unknown"
  BY DEF Reload
<1>2. deviceToken' = "none" => stored' = None
  <2>1. PICK i \in 1 .. Len(pending) + 1 :
           /\ stored' = IF i > Len(pending) THEN stored ELSE pending[i].handle
           /\ deviceToken' = IF i > Len(pending) THEN deviceToken ELSE pending[i].token
    BY DEF Reload
  <2>2. Len(pending) \in Nat
    BY DEF Typed, PendingOK
  <2>3. CASE i > Len(pending)
    BY <2>1, <2>3 DEF Story, Handles
  <2>4. CASE ~(i > Len(pending))
    <3>1. i \in 1 .. Len(pending)
      BY <2>2, <2>4
    <3> QED BY <2>1, <2>4, <3>1 DEF Story, Handles
  <2> QED BY <2>3, <2>4
<1>3. Handles' /\ Ends'
  BY <1>1, <1>2 DEF Handles, Ends
<1>4. Flights'
  BY <1>1, Rests DEF Flights, InFlight
<1>5. ~Setting'
  BY <1>1 DEF Setting, Enrolling, NoSetup
<1> QED BY <1>3, <1>4, <1>5 DEF Story, Enrols

(* The rest: they change no credential, or let go of them. *)
LEMMA StepStory ==
  Typed /\ Turns /\ Fresh /\ Unknown /\ Story /\ [Next]_vars /\ ~late' => Story'
<1> SUFFICES ASSUME Typed, Turns, Fresh, Unknown, Story, [Next]_vars, ~late' PROVE Story'
  OBVIOUS
<1> DEFINE Same == UNCHANGED <<state, identity, access, stored, deviceToken, pending, setup>>
<1>0. Setting => state = "unenrolled" /\ pin = Resting /\ call = NoCall /\ leaving = NotLeaving
  BY DEF Story, Enrols
<1>1. Same /\ UNCHANGED <<renewal, pin>> /\ (Setting => UNCHANGED <<call, leaving>>) => Story'
  BY StorySame DEF InFlight
<1>2. CASE UNCHANGED vars
  BY <1>1, <1>2 DEF vars, snapshot, tokens, away
<1>3. CASE poll \/ Unauthorized
  <2>1. Same /\ UNCHANGED <<pin, call, leaving>> /\ renew
    BY <1>3 DEF poll, Unauthorized, snapshot, tokens, away
  <2>2. InFlight(renewal)' => renewal'.held = stored \/ (InFlight(renewal) /\ renewal'.held = renewal.held)
    BY <2>1 DEF renew, InFlight
  <2> QED BY <2>1, <2>2, StorySame DEF InFlight
<1>4. CASE CallAnswered
  <2>1. UNCHANGED <<state, identity, renewal, pin, setup, leaving>> /\ ~Setting
    BY <1>0, <1>4 DEF CallAnswered, NoCall
  <2>2. CASE lock("call") \/ unenrol("call")
    BY <2>1, <2>2, StoryDropped DEF lock, unenrol, Drops
  <2>3. CASE UNCHANGED <<tokens, pending>>
    BY <1>1, <2>1, <2>3 DEF tokens
  <2> QED BY <1>4, <2>2, <2>3 DEF CallAnswered
<1>5. CASE Left
  <2>1. UNCHANGED <<renewal, pin, setup>> /\ ~Setting
    BY <1>0, <1>5 DEF Left, NotLeaving
  <2> QED BY <1>5, <2>1, StoryDropped DEF Left, lock, unenrol, Drops
<1>6. CASE roster
  <2>1. UNCHANGED <<state, identity, renewal, pin, setup, leaving>> /\ ~Setting
    BY <1>0, <1>6 DEF roster, snapshot
  <2>2. CASE unenrol("call")
    BY <2>1, <2>2, StoryDropped DEF unenrol, Drops
  <2>3. CASE UNCHANGED <<tokens, pending>>
    BY <1>1, <2>1, <2>3 DEF tokens
  <2> QED BY <1>6, <2>2, <2>3 DEF roster
<1>7. CASE signInWithPin
  <2>1. UNCHANGED <<state, identity, renewal, call, setup, leaving>> /\ ~Setting
    BY <1>0, <1>7 DEF signInWithPin, snapshot
  <2>2. CASE unenrol("pin") /\ pin' = [Resting EXCEPT !.stage = "settling"]
    <3>1. pin'.stage = "settling"
      BY <2>2 DEF Resting
    <3> QED BY <2>1, <2>2, <3>1, StoryDropped DEF unenrol, Drops
  <2>3. CASE deviceToken # "none" /\ UNCHANGED <<tokens, pending>>
    BY <2>1, <2>3, StorySame DEF tokens, InFlight
  <2> QED BY <1>7, <2>2, <2>3 DEF signInWithPin
<1>8. CASE IdleCheck
  <2>1. UNCHANGED <<state, identity, renewal, pin, call, setup, leaving>>
    BY <1>8 DEF IdleCheck, snapshot, away
  <2>2. CASE lock("idle") /\ state = "signedIn"
    BY <1>0, <2>1, <2>2, StoryDropped DEF lock, Drops
  <2>3. CASE UNCHANGED <<tokens, pending>>
    BY <1>1, <2>1, <2>3 DEF tokens
  <2> QED BY <1>8, <2>2, <2>3 DEF IdleCheck
<1>9. CASE FeatureOff
  <2>1. UNCHANGED <<renewal, pin, setup>> /\ ~Setting
    BY <1>0, <1>9 DEF FeatureOff, away
  <2> QED BY <1>9, <2>1, StoryDropped DEF FeatureOff, lock, Drops
<1>10. CASE signOut \/ unpair
  BY <1>0, <1>1, <1>10 DEF signOut, unpair, snapshot, tokens
<1>11. CASE touch \/ Tick \/ Manager
  BY <1>1, <1>11 DEF touch, Tick, Manager, snapshot, tokens, away
<1>12. CASE ServeRenewal
  <2>1. Same /\ UNCHANGED <<pin, call, leaving>> /\ renewal.stage = "asking"
    BY <1>12 DEF ServeRenewal, snapshot, tokens, away
  <2>2. renewal'.held = renewal.held /\ InFlight(renewal)
    BY <1>12, <2>1 DEF ServeRenewal, Typed, RenewalOK, Away, InFlight
  <2> QED BY <2>1, <2>2, StorySame DEF InFlight
<1>13. CASE RenewalLost
  <2>1. Same /\ UNCHANGED <<pin, call, leaving>> /\ renewal' = Resting
    BY <1>13 DEF RenewalLost, snapshot, tokens, away
  <2> QED BY <2>1, Rests, StorySame DEF InFlight
<1>14. CASE ServePin \/ PinRefused
  <2>1. Same /\ UNCHANGED <<renewal, call, leaving>> /\ pin.stage \in {"asking", "granted"}
    BY <1>14 DEF ServePin, PinRefused, snapshot, tokens
  <2>2. InFlight(pin) /\ ~Setting
    BY <1>0, <2>1, Rests DEF InFlight
  <2> QED BY <2>1, <2>2, StorySame DEF InFlight
<1>15. CASE ServeCall \/ CallLost \/ ServeSignOut
  <2>1. Same /\ UNCHANGED <<renewal, pin>> /\ ~Setting
    BY <1>0, <1>15 DEF ServeCall, CallLost, ServeSignOut, snapshot, tokens, NoCall, NotLeaving
  <2> QED BY <1>1, <2>1
<1> QED BY <1>2, <1>3, <1>4, <1>5, <1>6, <1>7, <1>8, <1>9, <1>10, <1>11, <1>12, <1>13, <1>14,
        <1>15, StoredStory, EnrolledStory, restoreStory, RenewalReadStory, RenewalAnsweredStory,
        PinAnsweredStory, SetupAnsweredStory, SetupReadStory, enrolStory, refreshDeviceStory,
        ReloadStory DEF Next, Page, Person, Network

LEMMA AlwaysStory == Spec => [](Unknown /\ (~late => Story))
<1>1. Init => Unknown /\ Story
  <2> SUFFICES ASSUME Init PROVE Unknown /\ Story
    OBVIOUS
  <2>1. /\ pending = <<>> /\ access = None /\ stored = None /\ state = "unknown"
        /\ renewal = Resting /\ pin = Resting /\ setup = NoSetup /\ Quiet
    BY DEF Init, Quiet
  <2>2. Handles /\ Ends /\ ~Setting /\ Unknown
    BY <2>1 DEF Handles, Ends, Setting, Enrolling, NoSetup, Unknown
  <2>3. Flights
    BY <2>1, Rests DEF Flights, InFlight
  <2> QED BY <2>2, <2>3 DEF Story, Enrols
<1>2. /\ Typed /\ Turns /\ Fresh /\ Unknown /\ (~late => Story) /\ [Next]_vars
      => Unknown' /\ (~late => Story)'
  BY StepUnknown, LateStays, StepStory
<1> QED BY <1>1, <1>2, AlwaysTyped, AlwaysTurns, AlwaysFresh, PTL DEF Spec

(* Once the storage has answered, the state the screens go by, the token in *)
(* memory and the handle in storage tell one story: somebody is signed in   *)
(* with the token and the handle of the chain that names them, nobody with  *)
(* a token is on a locked screen, and a tablet that is not enrolled keeps   *)
(* nothing - unless credentials changed under an answer on its way.         *)
THEOREM OneStory == Spec => []Settled
<1>1. (~late => Story) => Settled
  BY DEF Settled, Story, Ends
<1> QED BY <1>1, AlwaysStory, PTL

-----------------------------------------------------------------------------
(* A chain the tablet was locked on, or will be once the storage has        *)
(* answered as far as its k-th answer, is `Gone`: nothing the storage holds *)
(* or held, and nobody who is to be signed in, is of such a chain.          *)
Gone(c, k) ==
   \/ c \in over
   \/ \E d \in 1 .. k : /\ pending[d].then \in Drops
                        /\ \/ c = identity
                           \/ \E i \in 1 .. d - 1 : pending[i].then = "signedIn" /\ pending[i].chain = c

Over ==
   /\ \A j \in 1 .. Len(pending) : pending[j].then = "signedIn" =>
         pending[j].chain \in Chains /\ ~Gone(pending[j].chain, j)
   /\ \A j \in 1 .. Len(pending) : pending[j].handle # None => ~Gone(pending[j].handle.chain, j - 1)
   /\ stored # None => ~Gone(stored.chain, Len(pending))
   /\ state = "signedIn" => identity \notin over

LEMMA UnseenNotGone ==
  ASSUME NEW c, ~Seen(c), NEW k \in Nat, k <= Len(pending), Len(pending) \in Nat
  PROVE  ~Gone(c, k)
<1>1. \A d \in 1 .. k : d \in 1 .. Len(pending) /\ \A i \in 1 .. d - 1 : i \in 1 .. Len(pending)
  OBVIOUS
<1> QED BY <1>1 DEF Gone, Seen

LEMMA OverSame ==
  ASSUME Over, UNCHANGED <<over, identity, pending, stored>>, state' = "signedIn" => state = "signedIn"
  PROVE  Over'
BY DEF Over, Gone

LEMMA OverAwaited ==
  ASSUME Typed, Over, NEW by, NEW then, NEW chain, await(by, then, chain),
         UNCHANGED <<state, identity, over>>,
         then = "signedIn" => chain \in Chains /\ ~Gone(chain, Len(pending)),
         stored' # None => then = "signedIn" /\ stored'.chain = chain
  PROVE  Over'
<1>0. PICK L : L = Len(pending)
  OBVIOUS
<1>1. /\ L \in Nat /\ Len(pending') = L + 1
      /\ \A i \in 1 .. L : pending'[i] = pending[i]
      /\ pending'[L + 1] = [then |-> then, chain |-> chain, by |-> by,
                            handle |-> stored, token |-> deviceToken]
  BY <1>0, Awaited DEF Typed
<1>2. /\ pending'[L + 1].then = then /\ pending'[L + 1].chain = chain
      /\ pending'[L + 1].handle = stored
  BY <1>1
<1>3. ASSUME NEW c, NEW k \in Nat, k <= L, Gone(c, k)' PROVE Gone(c, k)
  <2>1. \A d \in 1 .. k : d \in 1 .. L /\ \A i \in 1 .. d - 1 : i \in 1 .. L
    BY <1>1, <1>3
  <2> QED BY <1>1, <1>3, <2>1 DEF Gone
<1>4. ASSUME NEW c, then \notin Drops, Gone(c, L + 1)' PROVE Gone(c, L)
  <2>1. Gone(c, L)'
    <3>1. \A d \in 1 .. L + 1 : d \in 1 .. L \/ d = L + 1
      BY <1>1
    <3> QED BY <1>2, <1>4, <3>1 DEF Gone
  <2> QED BY <1>1, <1>3, <2>1
<1>5. \A j \in 1 .. Len(pending') : j = L + 1 \/ (j \in 1 .. L /\ j - 1 \in Nat /\ j - 1 <= L /\ j <= L /\ j \in Nat)
  BY <1>1
<1>6. (L + 1) - 1 = L /\ L <= L
  BY <1>1
<1>7. ASSUME NEW j \in 1 .. Len(pending'), pending'[j].then = "signedIn"
      PROVE  pending'[j].chain \in Chains /\ ~Gone(pending[j].chain, j)'
  <2>1. PICK c : c = pending'[j].chain
    OBVIOUS
  <2>2. c \in Chains /\ ~Gone(c, j)'
    <3>1. CASE j = L + 1
      <4>1. then = "signedIn" /\ c = chain /\ then \notin Drops
        BY <1>2, <1>7, <2>1, <3>1 DEF Drops
      <4> QED BY <1>0, <1>4, <3>1, <4>1
    <3>2. CASE j \in 1 .. L /\ j <= L /\ j \in Nat
      <4>1. c = pending[j].chain /\ pending[j].then = "signedIn"
        BY <1>1, <1>7, <2>1, <3>2
      <4>2. c \in Chains /\ ~Gone(c, j)
        BY <1>0, <3>2, <4>1 DEF Over
      <4> QED BY <1>3, <3>2, <4>2
    <3> QED BY <1>5, <3>1, <3>2
  <2> QED BY <2>1, <2>2 DEF Gone
<1>8. ASSUME NEW j \in 1 .. Len(pending'), pending'[j].handle # None
      PROVE  ~Gone(pending[j].handle.chain, j - 1)'
  <2>1. PICK c : c = pending'[j].handle.chain
    OBVIOUS
  <2>2. ~Gone(c, j - 1)'
    <3>1. CASE j = L + 1
      <4>1. j - 1 = L /\ c = stored.chain /\ stored # None
        BY <1>2, <1>6, <1>8, <2>1, <3>1
      <4>2. ~Gone(c, L)
        BY <1>0, <4>1 DEF Over
      <4> QED BY <1>1, <1>3, <1>6, <4>1, <4>2
    <3>2. CASE j \in 1 .. L /\ j - 1 \in Nat /\ j - 1 <= L
      <4>1. c = pending[j].handle.chain /\ pending[j].handle # None
        BY <1>1, <1>8, <2>1, <3>2
      <4>2. ~Gone(c, j - 1)
        BY <1>0, <3>2, <4>1 DEF Over
      <4> QED BY <1>3, <3>2, <4>2
    <3> QED BY <1>5, <3>1, <3>2
  <2> QED BY <2>1, <2>2 DEF Gone
<1>9. ASSUME stored' # None PROVE ~Gone(stored.chain, Len(pending))'
  <2>1. PICK c : c = stored'.chain
    OBVIOUS
  <2>2. c = chain /\ then \notin Drops /\ ~Gone(c, L)
    BY <1>0, <1>9, <2>1 DEF Drops
  <2>3. ~Gone(c, L + 1)'
    BY <1>4, <2>2
  <2> QED BY <1>1, <2>1, <2>3 DEF Gone
<1>10. state' = "signedIn" => identity' \notin over'
  BY DEF Over
<1> QED BY <1>7, <1>8, <1>9, <1>10 DEF Over

LEMMA OverDropped ==
  ASSUME Typed, Over, NEW by, lock(by) \/ unenrol(by), UNCHANGED <<state, identity>>
  PROVE  Over'
<1>1. PICK then \in Drops : await(by, then, 0) /\ stored' = None /\ UNCHANGED over
  BY DEF lock, unenrol, drop, Drops
<1> QED BY <1>1, OverAwaited DEF Drops

LEMMA StoredOver == ASSUME Typed, Over, Stored PROVE Over'
<1> DEFINE entry == Head(pending)
           L == Len(pending)
<1>1. /\ pending # <<>> /\ entry = pending[1] /\ 1 \in 1 .. L /\ pending' = Tail(pending)
      /\ entry.then # "enrolled" /\ PendingOK /\ UNCHANGED stored /\ entry \in Pending
      /\ L \in Nat /\ Len(pending') = L - 1 /\ L >= 1
      /\ \A i \in 1 .. Len(pending') : i + 1 \in 1 .. L /\ pending'[i] = pending[i + 1]
  BY Popped, HeadPending DEF Stored, Show, Typed, tokens
<1>2. /\ state' = entry.then /\ entry.then \in {"locked", "unenrolled", "signedIn"}
      /\ entry.then = "unenrolled" => identity' = 0
      /\ entry.then = "signedIn" => identity' = entry.chain /\ over' = over
      /\ entry.then = "locked" => identity' = identity
      /\ over' \subseteq over \union {identity}
  BY <1>1 DEF Stored, Show, Pending
<1> HIDE DEF entry, L
<1>3. ASSUME NEW c \in Chains, NEW k \in Nat, k <= Len(pending'), Gone(c, k)' PROVE Gone(c, k + 1)
  <2>1. c # 0 /\ 1 \in 1 .. k + 1
    BY DEF Chains
  <2>2. CASE c \in over'
    <3>1. CASE c \in over
      BY <3>1 DEF Gone
    <3>2. CASE c \notin over
      <4>1. c = identity /\ pending[1].then \in Drops
        BY <1>1, <1>2, <2>2, <3>2 DEF Drops
      <4> QED BY <2>1, <4>1 DEF Gone
    <3> QED BY <3>1, <3>2
  <2>3. ASSUME NEW d \in 1 .. k, pending'[d].then \in Drops,
               \/ c = identity'
               \/ \E i \in 1 .. d - 1 : pending'[i].then = "signedIn" /\ pending'[i].chain = c
        PROVE  Gone(c, k + 1)
    <3>1. /\ d + 1 \in 1 .. k + 1 /\ d \in 1 .. Len(pending') /\ 1 \in 1 .. (d + 1) - 1
          /\ \A i \in 1 .. d - 1 : i \in 1 .. Len(pending') /\ i + 1 \in 1 .. (d + 1) - 1
      BY <1>1, <1>3
    <3>2. pending[d + 1].then \in Drops
      BY <1>1, <2>3, <3>1
    <3>3. CASE c = identity'
      <4>1. CASE entry.then = "signedIn"
        <5>1. pending[1].then = "signedIn" /\ pending[1].chain = c
          BY <1>1, <1>2, <3>3, <4>1
        <5> QED BY <3>1, <3>2, <5>1 DEF Gone
      <4>2. CASE entry.then # "signedIn"
        <5>1. c = identity
          BY <1>2, <2>1, <3>3, <4>2
        <5> QED BY <3>1, <3>2, <5>1 DEF Gone
      <4> QED BY <4>1, <4>2
    <3>4. ASSUME NEW i \in 1 .. d - 1, pending'[i].then = "signedIn", pending'[i].chain = c
          PROVE  Gone(c, k + 1)
      <4>1. /\ i + 1 \in 1 .. (d + 1) - 1 /\ pending[i + 1].then = "signedIn"
            /\ pending[i + 1].chain = c
        BY <1>1, <3>1, <3>4
      <4> QED BY <3>1, <3>2, <4>1 DEF Gone
    <3> QED BY <2>3, <3>3, <3>4
  <2> QED BY <1>3, <2>2, <2>3 DEF Gone
<1>4. ASSUME NEW j \in 1 .. Len(pending'), pending'[j].then = "signedIn"
      PROVE  pending'[j].chain \in Chains /\ ~Gone(pending[j].chain, j)'
  <2>1. PICK c : c = pending'[j].chain
    OBVIOUS
  <2>2. j + 1 \in 1 .. L /\ pending[j + 1].then = "signedIn" /\ c = pending[j + 1].chain
    BY <1>1, <1>4, <2>1
  <2>3. c \in Chains /\ ~Gone(c, j + 1)
    BY <2>2 DEF Over, L
  <2>4. j \in Nat /\ j <= Len(pending')
    BY <1>1
  <2>5. ~Gone(c, j)'
    BY <1>3, <2>3, <2>4
  <2> QED BY <2>1, <2>3, <2>5 DEF Gone
<1>5. ASSUME NEW j \in 1 .. Len(pending'), pending'[j].handle # None
      PROVE  ~Gone(pending[j].handle.chain, j - 1)'
  <2>1. PICK c : c = pending'[j].handle.chain
    OBVIOUS
  <2>2. j + 1 \in 1 .. L /\ pending[j + 1].handle # None /\ c = pending[j + 1].handle.chain
    BY <1>1, <1>5, <2>1
  <2>3. (j + 1) - 1 = (j - 1) + 1 /\ j - 1 \in Nat /\ j - 1 <= Len(pending')
    BY <1>1
  <2>4. ~Gone(c, (j - 1) + 1)
    BY <2>2, <2>3 DEF Over, L
  <2>5. c \in Chains
    BY <2>2, HandleIs, TokenIs DEF L, SomeToken
  <2>6. ~Gone(c, j - 1)'
    BY <1>3, <2>3, <2>4, <2>5
  <2> QED BY <2>1, <2>6 DEF Gone
<1>6. ASSUME stored' # None PROVE ~Gone(stored.chain, Len(pending))'
  <2>1. PICK c : c = stored'.chain
    OBVIOUS
  <2>2. c \in Chains /\ ~Gone(c, L)
    BY <1>1, <1>6, <2>1, TokenIs DEF Over, L, Typed, TokensOK, SomeToken
  <2>3. Len(pending') \in Nat /\ Len(pending') <= Len(pending') /\ Len(pending') + 1 = L
    BY <1>1
  <2>4. PICK n : n = Len(pending')
    OBVIOUS
  <2>5. ~Gone(c, n)'
    BY <1>3, <2>2, <2>3, <2>4
  <2> QED BY <2>1, <2>4, <2>5 DEF Gone
<1>7. state' = "signedIn" => identity' \notin over'
  <2> SUFFICES ASSUME state' = "signedIn" PROVE identity' \notin over'
    OBVIOUS
  <2>1. pending[1].then = "signedIn" /\ identity' = pending[1].chain /\ over' = over
    BY <1>1, <1>2
  <2>2. ~Gone(pending[1].chain, 1)
    BY <1>1, <2>1 DEF Over, L
  <2> QED BY <2>1, <2>2 DEF Gone
<1> QED BY <1>4, <1>5, <1>6, <1>7 DEF Over

(* A token nobody has seen, or the one that renews what the storage holds,  *)
(* brings nobody back.                                                      *)
LEMMA OverAdopted ==
  ASSUME Typed, Over, NEW by, NEW new \in Tokens, adopt(by, new), UNCHANGED <<state, identity>>,
         ~Gone(new.chain, Len(pending))
  PROVE  Over'
<1>1. /\ await(by, "signedIn", new.chain) /\ stored' = new /\ UNCHANGED over
      /\ new.chain \in Chains
  BY TokenIs DEF adopt
<1> QED BY <1>1, OverAwaited

LEMMA EnrolledOver == ASSUME Typed, Turns, Fresh, Story, Over, Enrolled PROVE Over'
<1>1. /\ pending # <<>> /\ Head(pending).then = "enrolled" /\ Head(pending) = pending[1] /\ PendingOK
      /\ 1 \in 1 .. Len(pending) /\ UNCHANGED <<state, identity, over>>
  BY Popped DEF Enrolled, Typed, snapshot, history
<1>2. Enrolling
  BY <1>1 DEF Enrolling
<1>3. state = "unenrolled" /\ stored = None /\ Len(pending) = 1
  BY <1>1, <1>2 DEF Story, Enrols, Setting
<1>4. Tail(pending) \in Seq(Pending) /\ Len(Tail(pending)) = 0 /\ Tail(pending) = <<>>
  <2>1. Tail(pending) \in Seq(Pending) /\ Len(Tail(pending)) = 0
    BY <1>1, <1>3, HeadPending, Popped
  <2> QED BY <2>1, Emptied
<1>5. CASE setup.kind = "tablet"
  <2>1. pending' = <<>> /\ stored' = None
    BY <1>3, <1>4, <1>5 DEF Enrolled, tokens
  <2> QED BY <1>1, <1>3, <2>1 DEF Over
<1>6. CASE setup.kind # "tablet"
  <2> DEFINE entry == [then |-> "signedIn", chain |-> setup.held.chain, by |-> "setup",
                       handle |-> stored, token |-> deviceToken]
  <2>1. stored' = setup.held /\ pending' = Append(Tail(pending), entry)
    BY <1>6 DEF Enrolled
  <2>2. Len(Append(Tail(pending), entry)) = 1 /\ Append(Tail(pending), entry)[1] = entry
    BY <1>4, Emptied
  <2>3. Len(pending') = 1 /\ pending'[1].then = "signedIn" /\ pending'[1].chain = setup.held.chain
        /\ pending'[1].handle = None
    BY <1>3, <2>1, <2>2
  <2>4. Minted
    <3>1. setup.kind \in Kinds
      BY DEF Typed, AwayOK, Setups
    <3> QED BY <1>2, <1>6, <3>1 DEF Minted, Kinds
  <2>5. PICK c : c = setup.held.chain
    OBVIOUS
  <2>6. c \in Chains /\ c \notin over
    BY <2>4, <2>5, TokenIs DEF Fresh, Unseen, Seen
  <2>7. ~Gone(c, 1)'
    <3>1. \A d \in 1 .. 1 : d = 1
      OBVIOUS
    <3> QED BY <1>1, <2>3, <2>6, <3>1 DEF Gone, Drops
  <2>8. \A j \in 1 .. Len(pending') : j = 1
    BY <2>3
  <2>9. ASSUME NEW j \in 1 .. Len(pending')
        PROVE  pending'[j].chain \in Chains /\ ~Gone(pending[j].chain, j)' /\ pending'[j].handle = None
    <3>1. j = 1
      BY <2>8
    <3> QED BY <2>3, <2>5, <2>6, <2>7, <3>1 DEF Gone
  <2>10. ~Gone(stored.chain, Len(pending))'
    BY <2>1, <2>3, <2>5, <2>7 DEF Gone
  <2> QED BY <1>1, <1>3, <2>9, <2>10 DEF Over
<1> QED BY <1>5, <1>6

LEMMA ReloadOver == ASSUME Typed, Over, Reload PROVE Over'
<1>1. pending' = <<>> /\ state' = "unknown" /\ UNCHANGED over
  BY DEF Reload
<1>2. stored' # None => stored'.chain \notin over
  <2>1. PICK i \in 1 .. Len(pending) + 1 :
           stored' = IF i > Len(pending) THEN stored ELSE pending[i].handle
    BY DEF Reload
  <2>2. Len(pending) \in Nat
    BY DEF Typed, PendingOK
  <2>3. CASE i > Len(pending)
    BY <2>1, <2>3 DEF Over, Gone
  <2>4. CASE ~(i > Len(pending))
    <3>1. i \in 1 .. Len(pending)
      BY <2>2, <2>4
    <3> QED BY <2>1, <2>4, <3>1 DEF Over, Gone
  <2> QED BY <2>3, <2>4
<1>3. Len(pending') = 0
  BY <1>1
<1>4. stored' # None => ~Gone(stored.chain, Len(pending))'
  BY <1>1, <1>2, <1>3 DEF Gone
<1> QED BY <1>1, <1>3, <1>4 DEF Over

LEMMA SetupReadOver == ASSUME Typed, Turns, Story, Over, SetupRead PROVE Over'
<1>1. /\ setup.stage = "reading" /\ UNCHANGED <<stored, pending, over>>
      /\ \/ setup.kind = "tablet" /\ state' = "locked"
         \/ UNCHANGED <<state, identity>>
  BY DEF SetupRead, tokens, history, snapshot
<1>2. CASE UNCHANGED <<state, identity>>
  BY <1>1, <1>2, OverSame
<1>3. CASE setup.kind = "tablet" /\ state' = "locked"
  <2>1. ~Enrolling
    BY <1>1 DEF Enrolling, Turns, Waits
  <2>2. stored = None /\ pending = <<>>
    BY <1>1, <1>3, <2>1 DEF Story, Enrols, Setting
  <2> QED BY <1>1, <1>3, <2>2 DEF Over
<1> QED BY <1>1, <1>2, <1>3

LEMMA RenewalAnsweredOver == ASSUME Typed, Story, Over, RenewalAnswered PROVE Over'
<1>1. renewal.stage \in {"granted", "refused", "off", "revoked"} /\ UNCHANGED <<state, identity>>
  BY DEF RenewalAnswered, snapshot
<1>2. CASE lock("renewal") \/ unenrol("renewal")
  BY <1>1, <1>2, OverDropped
<1>3. CASE renewal.stage = "granted" /\ adopt("renewal", Successor(renewal.held))
  <2>1. stored = renewal.held /\ renewal.held \in Tokens /\ stored # None
    BY <1>3, HeldIs, TokenIs DEF Story, Flights, InFlight
  <2>2. Successor(renewal.held) \in Tokens /\ Successor(renewal.held).chain = stored.chain
    BY <1>3, <2>1, HeldIs, SuccessorIs DEF Typed, RenewalOK
  <2>3. ~Gone(stored.chain, Len(pending))
    BY <2>1 DEF Over
  <2> QED BY <1>1, <1>3, <2>2, <2>3, OverAdopted
<1> QED BY <1>2, <1>3 DEF RenewalAnswered

LEMMA PinAnsweredOver == ASSUME Typed, Fresh, Over, PinAnswered PROVE Over'
<1>1. pin.stage \in {"granted", "revoked"} /\ UNCHANGED <<state, identity>>
  BY DEF PinAnswered, snapshot
<1>2. CASE unenrol("pin")
  BY <1>1, <1>2, OverDropped
<1>3. CASE pin.stage = "granted" /\ adopt("pin", pin.held)
  <2>1. pin.held \in Tokens /\ ~Seen(pin.held.chain)
    BY <1>3 DEF Fresh, Unseen
  <2>2. Len(pending) \in Nat /\ Len(pending) <= Len(pending)
    BY DEF Typed, PendingOK
  <2>3. ~Gone(pin.held.chain, Len(pending))
    BY <2>1, <2>2, UnseenNotGone
  <2> QED BY <1>1, <1>3, <2>1, <2>3, OverAdopted
<1> QED BY <1>2, <1>3 DEF PinAnswered

LEMMA StepOver ==
  Typed /\ Turns /\ Fresh /\ Unknown /\ Story /\ Over /\ [Next]_vars => Over'
<1> SUFFICES ASSUME Typed, Turns, Fresh, Unknown, Story, Over, [Next]_vars PROVE Over'
  OBVIOUS
<1> DEFINE Same == UNCHANGED <<state, identity, over, pending, stored>>
           DroppedBy(by) == (lock(by) \/ unenrol(by)) /\ UNCHANGED <<state, identity>>
<1>1. Same => Over'
  BY OverSame
<1>2. \A by : DroppedBy(by) => Over'
  BY OverDropped
<1>3. CASE UNCHANGED vars
  BY <1>1, <1>3 DEF vars, snapshot, tokens, history
<1>4. CASE restore
  BY <1>4, OverSame DEF restore, tokens, history
<1>5. CASE RenewalRead
  BY <1>1, <1>2, <1>5 DEF RenewalRead, snapshot, tokens, history
<1>6. CASE CallAnswered \/ Left \/ roster \/ signInWithPin \/ IdleCheck \/ FeatureOff
  <2>1. Same \/ \E by : DroppedBy(by)
    BY <1>6 DEF CallAnswered, Left, roster, signInWithPin, IdleCheck, FeatureOff, snapshot, tokens, history
  <2> QED BY <1>1, <1>2, <2>1
<1>7. CASE SetupAnswered
  <2>1. await("setup", "enrolled", 0) /\ UNCHANGED <<state, identity, over, stored>>
    BY <1>7 DEF SetupAnswered, snapshot, history
  <2>2. stored = None
    BY <1>7 DEF SetupAnswered, Story, Enrols, Setting
  <2> QED BY <2>1, <2>2, OverAwaited
<1>8. CASE refreshDevice
  <2>1. UNCHANGED <<state, identity, over, stored>>
    BY <1>8 DEF refreshDevice, snapshot, tokens, history
  <2>2. CASE deviceToken = "none" /\ await("call", "unenrolled", 0)
    <3>1. stored = None
      BY <2>2 DEF Story, Handles
    <3> QED BY <2>1, <2>2, <3>1, OverAwaited
  <2>3. CASE UNCHANGED pending
    BY <1>1, <2>1, <2>3
  <2> QED BY <1>8, <2>2, <2>3 DEF refreshDevice
<1>9. CASE poll \/ Unauthorized \/ signOut \/ unpair \/ touch \/ Tick \/ \E kind \in Kinds : enrol(kind)
  BY <1>1, <1>9 DEF poll, Unauthorized, signOut, unpair, touch, Tick, enrol, snapshot, tokens, history
<1>10. CASE Network /\ ~Reload
  BY <1>1, <1>10 DEF Network, ServeRenewal, ServePin, ServeCall, ServeSignOut, RenewalLost,
     PinRefused, CallLost, Manager, snapshot, tokens, history
<1>11. CASE Reload
  BY <1>11, ReloadOver
<1> QED BY <1>3, <1>4, <1>5, <1>6, <1>7, <1>8, <1>9, <1>10, <1>11, StoredOver, EnrolledOver,
        RenewalAnsweredOver, PinAnsweredOver, SetupReadOver DEF Next, Page, Person

(* "Nobody is signed in on it": a session the tablet was locked on comes    *)
(* back by no renewal, PIN, pairing or reload, in whatever order the        *)
(* answers come - unless credentials changed under an answer on its way.    *)
THEOREM LockedStaysOver == Spec => []LockedIsOverUnlessLate
<1>1. Init => Over
  BY DEF Init, Over
<1>2. /\ Typed /\ Turns /\ Fresh /\ Unknown /\ (~late => Story) /\ (~late => Over) /\ [Next]_vars
      => (~late => Over)'
  BY LateStays, StepOver
<1>3. (~late => Over) => LockedIsOverUnlessLate
  BY DEF Over, LockedIsOverUnlessLate
<1> QED BY <1>1, <1>2, <1>3, AlwaysTyped, AlwaysTurns, AlwaysFresh, AlwaysStory, PTL DEF Spec
=============================================================================
