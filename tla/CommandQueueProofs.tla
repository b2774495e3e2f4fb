------------------------- MODULE CommandQueueProofs -------------------------
(***************************************************************************)
(* What is proved of the staff command queue, for every set of commands,   *)
(* tables, tabs, staff and kinds, and any number of troubles.              *)
(***************************************************************************)
EXTENDS CommandQueue, TLAPS

-----------------------------------------------------------------------------
(* A legal starting status is a table status. *)
LEMMA LegalFromStatus == \A k \in TableActionKind : LEGAL_FROM[k] \subseteq TableStatus
BY DEF LEGAL_FROM, TableActionKind, TableStatus

(* Every table action leads to a table status. *)
LEMMA ResultIsStatus == \A k \in TableActionKind : RESULT_STATUS[k] \in TableStatus
BY DEF RESULT_STATUS, TableActionKind, TableStatus

(* A sync takes a subset of what it is given into the pass. *)
LEMMA SyncType ==
  ASSUME NEW commands \in SUBSET QueuedCommand, sync(commands),
         running \in BOOLEAN, again \in BOOLEAN, todo \subseteq QueuedCommand,
         blocked \subseteq Scopes
  PROVE  /\ running' \in BOOLEAN /\ again' \in BOOLEAN
         /\ todo' \subseteq QueuedCommand /\ blocked' \subseteq Scopes
BY DEF sync, sendableInOrder

-----------------------------------------------------------------------------
LEMMA InitType == Init => TypeOK
<1> SUFFICES ASSUME Init PROVE TypeOK
  OBVIOUS
<1>1. floor \in [Tables -> TableDetail \union {Unread}]
  BY DEF Init
<1>2. tables \in [Tables -> TableDetail]
  BY DEF Init, TableDetail, TableStatus
<1>3. answer \in [outcome : Outcomes \union {"none"}, seen : TableStatus \union {"unknown"}]
  BY DEF Init, NoAnswer
<1>4. nextSeq \in 1..MaxSeq + 1
  BY PolicyAssumption DEF Init, PolicyAssumption
<1>5. budget \in [TroubleKinds -> Nat] /\ chose \in [Ids -> SUBSET Staff]
  BY QueueAssumption DEF Init, QueueAssumption
<1> QED BY <1>1, <1>2, <1>3, <1>4, <1>5 DEF Init, TypeOK

LEMMA EnqueueType ==
  ASSUME TypeOK, NEW i \in Ids, NEW kind \in Kinds, NEW scope \in Scopes, enqueue(i, kind, scope)
  PROVE  TypeOK'
<1> DEFINE expected == projectedStatus(floor, queue, scope)
           chained  == expected # floor[scope].status
           precondition ==
             IF isTableAction(kind)
             THEN [status  |-> expected,
                   version |-> IF chained THEN NoVersion ELSE floor[scope].version]
             ELSE NoPrecondition
           fresh == [id |-> i, kind |-> kind, scope |-> scope, seq |-> nextSeq, attempts |-> 0,
                     takenOffline |-> ~online, precondition |-> precondition, by |-> actor]
<1> USE DEF vars, reducerVars, passVars, sendVars, screenVars, diskVars, serverVars, historyVars
<1>1. queue' = queue \union {fresh} /\ (isTableAction(kind) <=> scope \in Tables)
  BY PolicyAssumption DEF enqueue, PolicyAssumption
<1>2. precondition \in TablePrecondition
  <2>1. CASE isTableAction(kind)
    <3>1. scope \in Tables /\ floor[scope] # Unread /\ expected \in LEGAL_FROM[kind]
      BY <2>1 DEF enqueue
    <3>2. expected \in TableStatus
      BY <2>1, <3>1, LegalFromStatus DEF isTableAction
    <3>3. floor[scope].version \in Nat
      BY <3>1 DEF TypeOK, TableDetail
    <3> HIDE DEF expected
    <3> QED BY <2>1, <3>2, <3>3 DEF TablePrecondition, NoVersion
  <2>2. CASE ~isTableAction(kind)
    BY <2>2 DEF TablePrecondition
  <2> QED BY <2>1, <2>2
<1>3. fresh \in QueuedCommand
  <2> HIDE DEF precondition
  <2>1. nextSeq \in 0..MaxSeq
    BY PolicyAssumption DEF enqueue, TypeOK, PolicyAssumption
  <2> QED BY <1>1, <1>2, <2>1 DEF QueuedCommand, TypeOK
<1> HIDE DEF fresh
<1>4. /\ running' \in BOOLEAN /\ again' \in BOOLEAN
      /\ todo' \subseteq QueuedCommand /\ blocked' \subseteq Scopes
  <2>1. sync(shown)
    BY DEF enqueue
  <2> QED BY <2>1, SyncType DEF TypeOK
<1>5. nextSeq' \in 1..MaxSeq + 1
  BY PolicyAssumption DEF enqueue, TypeOK, PolicyAssumption
<1>6. chose' \in [Ids -> SUBSET Staff]
  BY DEF enqueue, TypeOK
<1> QED BY <1>1, <1>3, <1>4, <1>5, <1>6 DEF enqueue, TypeOK

LEMMA DiscardType == ASSUME TypeOK, NEW e \in conflicts, discard(e) PROVE TypeOK'
<1> USE DEF vars, reducerVars, passVars, sendVars, screenVars, diskVars, serverVars
<1>1. e.command.id \in Ids
  BY DEF TypeOK, ConflictEntry, QueuedCommand
<1> QED BY <1>1 DEF discard, TypeOK

LEMMA ApplyAnywayType == ASSUME TypeOK, NEW e \in conflicts, applyAnyway(e) PROVE TypeOK'
<1> USE DEF vars, reducerVars, passVars, sendVars, screenVars, diskVars, serverVars
<1> DEFINE retried == [e.command EXCEPT !.precondition = NoPrecondition, !.seq = nextSeq,
                            !.attempts = 0, !.takenOffline = FALSE, !.by = actor]
<1>1. e.command \in QueuedCommand
  BY DEF TypeOK, ConflictEntry
<1>2. nextSeq \in 0..MaxSeq /\ nextSeq' \in 1..MaxSeq + 1
  BY PolicyAssumption DEF applyAnyway, TypeOK, PolicyAssumption
<1>3. actor \in Staff /\ NoPrecondition \in TablePrecondition
  BY DEF TypeOK, TablePrecondition
<1>4. retried \in QueuedCommand
  BY <1>1, <1>2, <1>3 DEF QueuedCommand
<1>5. queue' = queue \union {retried} /\ conflicts' \subseteq conflicts
  BY DEF applyAnyway
<1> HIDE DEF retried
<1>6. /\ running' \in BOOLEAN /\ again' \in BOOLEAN
      /\ todo' \subseteq QueuedCommand /\ blocked' \subseteq Scopes
  <2>1. sync(shown)
    BY DEF applyAnyway
  <2> QED BY <2>1, SyncType DEF TypeOK
<1>7. chose' \in [Ids -> SUBSET Staff]
  BY <1>1, <1>3 DEF applyAnyway, TypeOK
<1> QED BY <1>2, <1>4, <1>5, <1>6, <1>7 DEF applyAnyway, TypeOK

LEMMA ClaimType == ASSUME TypeOK, NEW c \in queue, claim(c) PROVE TypeOK'
<1> USE DEF vars, reducerVars, passVars, sendVars, screenVars, diskVars, serverVars
<1> DEFINE taken == {d \in queue : d.scope = c.scope /\ d.seq <= c.seq /\ isHeld(d, actor)}
<1>1. \A d \in QueuedCommand : [d EXCEPT !.by = actor] \in QueuedCommand
  BY DEF TypeOK, QueuedCommand
<1>2. queue' \subseteq QueuedCommand
  BY <1>1 DEF claim, TypeOK
<1>3. /\ running' \in BOOLEAN /\ again' \in BOOLEAN
      /\ todo' \subseteq QueuedCommand /\ blocked' \subseteq Scopes
  <2>1. sync(shown)
    BY DEF claim
  <2> QED BY <2>1, SyncType DEF TypeOK
<1>4. chose' \in [Ids -> SUBSET Staff]
  BY DEF claim, TypeOK
<1> QED BY <1>2, <1>3, <1>4 DEF claim, TypeOK

LEMMA DropType == ASSUME TypeOK, NEW c \in queue, drop(c) PROVE TypeOK'
<1> USE DEF vars, reducerVars, passVars, sendVars, screenVars, diskVars, serverVars
<1>1. c.id \in Ids
  BY DEF TypeOK, QueuedCommand
<1> QED BY <1>1 DEF drop, TypeOK

-----------------------------------------------------------------------------
LEMMA ScreenType ==
  ASSUME TypeOK, Screen PROVE TypeOK'
<1> USE DEF vars, reducerVars, passVars, sendVars, screenVars, diskVars, serverVars
<1>1. \A k \in TroubleKinds : Suffer(k) => budget' \in [TroubleKinds -> Nat]
  BY DEF Suffer, TypeOK
<1>2. CASE Connection
  BY <1>1, <1>2 DEF Connection, TypeOK, TroubleKinds
<1>3. CASE Lock
  BY <1>1, <1>3 DEF Lock, TypeOK, TroubleKinds
<1>4. ASSUME NEW p \in Staff, SignIn(p) PROVE TypeOK'
  BY <1>4 DEF SignIn, TypeOK
<1>5. CASE ReadFloor
  BY <1>5 DEF ReadFloor, TypeOK
<1>6. CASE Commit
  <2>1. queue \in SUBSET QueuedCommand
    BY DEF TypeOK
  <2>2. /\ running' \in BOOLEAN /\ again' \in BOOLEAN
        /\ todo' \subseteq QueuedCommand /\ blocked' \subseteq Scopes
    BY <1>6, <2>1, SyncType DEF Commit, TypeOK
  <2> QED BY <1>6, <2>2 DEF Commit, TypeOK
<1> QED BY <1>2, <1>3, <1>4, <1>5, <1>6 DEF Screen

-----------------------------------------------------------------------------
LEMMA HydratedType == ASSUME TypeOK, hydrated PROVE TypeOK'
<1> USE DEF vars, reducerVars, passVars, sendVars, screenVars, diskVars, serverVars
<1>1. PICK highest \in 0..MaxSeq, n \in 0..MaxSeq :
         /\ highest + n <= MaxSeq
         /\ \E place \in [takenEarly -> highest + 1 .. highest + n] :
               queue' = diskQueue \union {renumbered(c, place) : c \in takenEarly}
         /\ nextSeq' = highest + n + 1
  BY DEF hydrated
<1>2. PICK place \in [takenEarly -> highest + 1 .. highest + n] :
         queue' = diskQueue \union {renumbered(c, place) : c \in takenEarly}
  BY <1>1
<1>3. nextSeq' \in 1..MaxSeq + 1
  BY <1>1, PolicyAssumption DEF PolicyAssumption
<1>4. \A c \in takenEarly : renumbered(c, place) \in QueuedCommand
  <2> SUFFICES ASSUME NEW c \in takenEarly PROVE renumbered(c, place) \in QueuedCommand
    OBVIOUS
  <2>1. place[c] \in 0..MaxSeq
    BY <1>1, PolicyAssumption DEF PolicyAssumption
  <2>2. c \in QueuedCommand
    BY DEF takenEarly, TypeOK
  <2> QED BY <2>1, <2>2 DEF renumbered, QueuedCommand
<1>5. queue' \subseteq QueuedCommand
  BY <1>2, <1>4 DEF TypeOK
<1>6. conflicts' \subseteq ConflictEntry
  BY DEF hydrated, mergedConflicts, TypeOK
<1> QED BY <1>3, <1>5, <1>6 DEF hydrated, TypeOK

LEMMA StoreType == ASSUME TypeOK, Store PROVE TypeOK'
<1> USE DEF vars, reducerVars, passVars, sendVars, screenVars, diskVars, serverVars
<1>1. CASE saveQueue
  <2>1. IdsOf(queue) \subseteq Ids
    BY DEF TypeOK, IdsOf, QueuedCommand
  <2> QED BY <1>1, <2>1 DEF saveQueue, TypeOK
<1>2. CASE saveConflicts
  BY <1>2 DEF saveConflicts, TypeOK
<1>3. CASE hydrated
  BY <1>3, HydratedType
<1>4. CASE Reload
  <2>1. budget' \in [TroubleKinds -> Nat]
    BY <1>4 DEF Reload, Suffer, TypeOK, TroubleKinds
  <2>2. answer' \in [outcome : Outcomes \union {"none"}, seen : TableStatus \union {"unknown"}]
    BY <1>4 DEF Reload, NoAnswer
  <2>3. floor' \in [Tables -> TableDetail \union {Unread}]
    BY <1>4 DEF Reload
  <2>4. nextSeq' \in 1..MaxSeq + 1
    BY <1>4, PolicyAssumption DEF Reload, PolicyAssumption
  <2> QED BY <1>4, <2>1, <2>2, <2>3, <2>4 DEF Reload, TypeOK
<1> QED BY <1>1, <1>2, <1>3, <1>4 DEF Store

-----------------------------------------------------------------------------
(* What an answer does keeps the reducer's state well typed. *)
LEMMA ConflictedType ==
  ASSUME TypeOK, NEW i, NEW why \in Reasons, NEW status \in TableStatus \union {"unknown"},
         conflicted(i, why, status)
  PROVE  queue' \subseteq QueuedCommand /\ conflicts' \subseteq ConflictEntry
         /\ dirty' \in {"no", "render", "effect"}
<1>1. \A c \in FirstWithId(queue, i) :
        [command |-> c, reason |-> why, seen |-> status] \in ConflictEntry
  BY DEF FirstWithId, WithId, TypeOK, ConflictEntry
<1> QED BY <1>1 DEF conflicted, TypeOK, WithId

LEMMA DeferredType ==
  ASSUME TypeOK, NEW i, deferred(i)
  PROVE  queue' \subseteq QueuedCommand /\ conflicts' = conflicts
         /\ dirty' \in {"no", "render", "effect"}
<1>1. \A c \in QueuedCommand : [c EXCEPT !.attempts = @ + 1] \in QueuedCommand
  BY DEF QueuedCommand
<1> QED BY <1>1 DEF deferred, TypeOK, WithId

LEMMA PassType == ASSUME TypeOK, Pass PROVE TypeOK'
<1> USE DEF vars, reducerVars, passVars, sendVars, screenVars, diskVars, serverVars
<1>1. CASE Locked
  BY <1>1 DEF Locked, TypeOK
<1>2. ASSUME NEW c \in todo, PassOver(c) PROVE TypeOK'
  <2>1. c.scope \in Scopes
    BY DEF TypeOK, QueuedCommand
  <2> QED BY <1>2, <2>1 DEF PassOver, TypeOK
<1>3. ASSUME NEW c \in todo, RefuseHere(c) PROVE TypeOK'
  <2>1. c.scope \in Tables /\ floor[c.scope].status # Unread.status
    BY <1>3 DEF RefuseHere, preconditionHolds
  <2>2. floor[c.scope].status \in TableStatus
    BY <2>1 DEF TypeOK, TableDetail, Unread
  <2>3. queue' \subseteq QueuedCommand /\ conflicts' \subseteq ConflictEntry
        /\ dirty' \in {"no", "render", "effect"}
    BY <1>3, <2>2, ConflictedType DEF RefuseHere, Reasons
  <2> QED BY <1>3, <2>3 DEF RefuseHere, TypeOK
<1>4. ASSUME NEW c \in todo, SendOut(c) PROVE TypeOK'
  <2>1. [command |-> c, as |-> actor, retry |-> FALSE] \in Request
    BY DEF TypeOK, Request
  <2>2. waiting' \subseteq Request /\ net' \subseteq Request
    BY <1>4, <2>1 DEF SendOut, TypeOK
  <2>3. answer' \in [outcome : Outcomes \union {"none"}, seen : TableStatus \union {"unknown"}]
    BY <1>4 DEF SendOut, NoAnswer
  <2> QED BY <1>4, <2>2, <2>3 DEF SendOut, TypeOK
<1>5. CASE Finish
  <2>1. sendableInOrder(shown, actor) \subseteq QueuedCommand
    BY DEF sendableInOrder, TypeOK
  <2> QED BY <1>5, <2>1 DEF Finish, TypeOK
<1> QED BY <1>1, <1>2, <1>3, <1>4, <1>5 DEF Pass

LEMMA AnswersType == ASSUME TypeOK, Answers PROVE TypeOK'
<1> USE DEF vars, reducerVars, passVars, sendVars, screenVars, diskVars, serverVars
<1>1. NoAnswer \in [outcome : Outcomes \union {"none"}, seen : TableStatus \union {"unknown"}]
  BY DEF NoAnswer
<1>2. \A r \in waiting : r.command.id \in Ids /\ r.command.scope \in Scopes
  BY DEF TypeOK, Request, QueuedCommand
<1>3. answer.seen \in TableStatus \union {"unknown"}
  BY DEF TypeOK
<1>4. ASSUME NEW r \in waiting, Receive(r) PROVE TypeOK'
  <2>1. CASE removed(r.command.id) /\ UNCHANGED decided
    BY <1>1, <1>4, <2>1 DEF Receive, removed, WithId, TypeOK
  <2>2. CASE /\ answer.outcome \in Reasons
             /\ conflicted(r.command.id, answer.outcome, answer.seen) /\ UNCHANGED decided
    <3>1. queue' \subseteq QueuedCommand /\ conflicts' \subseteq ConflictEntry
          /\ dirty' \in {"no", "render", "effect"}
      BY <1>3, <2>2, ConflictedType
    <3> QED BY <1>1, <1>4, <2>2, <3>1 DEF Receive, TypeOK
  <2>3. CASE liveRace(r.command.id)
    BY <1>1, <1>2, <1>4, <2>3 DEF Receive, liveRace, WithId, TypeOK
  <2> QED BY <1>4, <2>1, <2>2, <2>3 DEF Receive
<1>5. ASSUME NEW r \in waiting, GiveUp(r) PROVE TypeOK'
  <2>1. budget' \in [TroubleKinds -> Nat]
    BY <1>5 DEF GiveUp, Suffer, TypeOK, TroubleKinds
  <2>2. queue' \subseteq QueuedCommand /\ conflicts' = conflicts
        /\ dirty' \in {"no", "render", "effect"}
    BY <1>5, DeferredType DEF GiveUp
  <2>3. net' \subseteq Request /\ blocked' \subseteq Scopes
    BY <1>2, <1>5 DEF GiveUp, TypeOK
  <2> QED BY <1>1, <1>5, <2>1, <2>2, <2>3 DEF GiveUp, TypeOK
<1>6. ASSUME NEW r \in waiting, SendAgain(r) PROVE TypeOK'
  <2> DEFINE anew == [r EXCEPT !.as = actor, !.retry = TRUE]
  <2>1. anew \in Request
    BY DEF TypeOK, Request
  <2>2. waiting' = {anew} /\ net' = net \union waiting'
    BY <1>6 DEF SendAgain
  <2>3. resent' \subseteq [id : Ids, as : Staff]
    BY <1>2, <1>6 DEF SendAgain, TypeOK
  <2> HIDE DEF anew
  <2>4. waiting' \subseteq Request /\ net' \subseteq Request
    BY <2>1, <2>2 DEF TypeOK
  <2> QED BY <1>1, <1>6, <2>3, <2>4 DEF SendAgain, TypeOK
<1>7. ASSUME NEW r \in waiting, TurnedAway(r) PROVE TypeOK'
  <2>1. queue' \subseteq QueuedCommand /\ conflicts' = conflicts
        /\ dirty' \in {"no", "render", "effect"}
    BY <1>7, DeferredType DEF TurnedAway
  <2>2. blocked' \subseteq Scopes
    BY <1>2, <1>7 DEF TurnedAway, TypeOK
  <2> QED BY <1>1, <1>7, <2>1, <2>2 DEF TurnedAway, TypeOK
<1> QED BY <1>4, <1>5, <1>6, <1>7 DEF Answers

-----------------------------------------------------------------------------
(* The server's verdict is an outcome; where it names a status, the command *)
(* is a table action, so the status is a table's.                           *)
LEMMA VerdictType ==
  ASSUME TypeOK, NEW r \in net, NEW outcome \in Verdicts(r)
  PROVE  /\ outcome \in Outcomes
         /\ outcome \in {"precondition", "conflict"} => tables[r.command.scope].status \in TableStatus
<1>1. r.command \in QueuedCommand
  BY DEF TypeOK, Request
<1>2. isTableAction(r.command.kind) => tables[r.command.scope].status \in TableStatus
  BY <1>1 DEF TypeOK, QueuedCommand, TableDetail
<1> QED BY <1>2 DEF Verdicts, OnItsTable, Outcomes

LEMMA ReplyType ==
  ASSUME TypeOK, NEW r, NEW outcome \in Outcomes, NEW status \in TableStatus \union {"unknown"},
         Reply(r, outcome, status)
  PROVE  answer' \in [outcome : Outcomes \union {"none"}, seen : TableStatus \union {"unknown"}]
BY DEF Reply, TypeOK

LEMMA ServerType == ASSUME TypeOK, Server PROVE TypeOK'
<1> USE DEF vars, reducerVars, passVars, sendVars, screenVars, diskVars, serverVars
<1>1. \A r \in net : r.command \in QueuedCommand /\ r.as \in Staff
  BY DEF TypeOK, Request
<1>2. \A k \in TroubleKinds : Suffer(k) => budget' \in [TroubleKinds -> Nat]
  BY DEF Suffer, TypeOK
<1>3. ASSUME NEW r \in net, Serve(r) PROVE TypeOK'
  <2>1. PICK outcome \in Verdicts(r) :
          /\ IF outcome = "applied"
             THEN /\ recorded' = recorded \union {[id |-> r.command.id, as |-> r.as]}
                  /\ tables' = IF isTableAction(r.command.kind)
                               THEN [tables EXCEPT ![r.command.scope] =
                                       [status  |-> RESULT_STATUS[r.command.kind],
                                        version |-> @.version + 1]]
                               ELSE tables
             ELSE UNCHANGED <<recorded, tables>>
          /\ Reply(r, outcome, IF outcome \in {"precondition", "conflict"}
                               THEN tables[r.command.scope].status ELSE "unknown")
    BY <1>3 DEF Serve
  <2> DEFINE status == IF outcome \in {"precondition", "conflict"}
                       THEN tables[r.command.scope].status ELSE "unknown"
  <2>2. outcome \in Outcomes /\ status \in TableStatus \union {"unknown"}
    BY VerdictType
  <2>3. answer' \in [outcome : Outcomes \union {"none"}, seen : TableStatus \union {"unknown"}]
    <3>1. Reply(r, outcome, status)
      BY <2>1
    <3> HIDE DEF status
    <3> QED BY <2>2, <3>1, ReplyType
  <2>4. recorded' \subseteq [id : Ids, as : Staff]
    BY <1>1, <2>1 DEF TypeOK, QueuedCommand
  <2>5. tables' \in [Tables -> TableDetail]
    <3>1. CASE outcome = "applied" /\ isTableAction(r.command.kind)
      <4>1. r.command.scope \in Tables /\ RESULT_STATUS[r.command.kind] \in TableStatus
        BY <1>1, <3>1, ResultIsStatus DEF QueuedCommand, isTableAction
      <4>2. tables' = [tables EXCEPT ![r.command.scope] =
                         [status |-> RESULT_STATUS[r.command.kind], version |-> @.version + 1]]
        BY <2>1, <3>1
      <4> QED BY <4>1, <4>2 DEF TypeOK, TableDetail
    <3>2. CASE ~(outcome = "applied" /\ isTableAction(r.command.kind))
      BY <2>1, <3>2 DEF TypeOK
    <3> QED BY <3>1, <3>2
  <2> QED BY <1>3, <2>3, <2>4, <2>5 DEF Serve, TypeOK
<1>4. ASSUME NEW r \in net, Refuse(r) PROVE TypeOK'
  <2>1. answer' \in [outcome : Outcomes \union {"none"}, seen : TableStatus \union {"unknown"}]
    BY <1>4, ReplyType DEF Refuse, Outcomes
  <2>2. budget' \in [TroubleKinds -> Nat]
    BY <1>2, <1>4 DEF Refuse, TroubleKinds
  <2> QED BY <1>4, <2>1, <2>2 DEF Refuse, TypeOK
<1>6. ASSUME NEW r \in net, Unauthorized(r) PROVE TypeOK'
  <2>1. answer' \in [outcome : Outcomes \union {"none"}, seen : TableStatus \union {"unknown"}]
    BY <1>6 DEF Unauthorized, Outcomes
  <2>2. budget' \in [TroubleKinds -> Nat]
    BY <1>2, <1>6 DEF Unauthorized, TroubleKinds
  <2> QED BY <1>6, <2>1, <2>2 DEF Unauthorized, TypeOK
<1>5. ASSUME NEW t \in Tables, Elsewhere(t) PROVE TypeOK'
  <2>1. budget' \in [TroubleKinds -> Nat]
    BY <1>2, <1>5 DEF Elsewhere, TroubleKinds
  <2>2. tables' \in [Tables -> TableDetail]
    BY <1>5, ResultIsStatus DEF Elsewhere, TypeOK, TableDetail
  <2> QED BY <1>5, <2>1, <2>2 DEF Elsewhere, TypeOK
<1> QED BY <1>3, <1>4, <1>5, <1>6 DEF Server

-----------------------------------------------------------------------------
LEMMA NextType == TypeOK /\ [Next]_vars => TypeOK'
<1> SUFFICES ASSUME TypeOK, [Next]_vars PROVE TypeOK'
  OBVIOUS
<1>1. CASE Person
  BY <1>1, EnqueueType, DiscardType, ApplyAnywayType, ClaimType, DropType DEF Person
<1>2. CASE Screen
  BY <1>2, ScreenType
<1>3. CASE Store
  BY <1>3, StoreType
<1>4. CASE Pass
  BY <1>4, PassType
<1>5. CASE Answers
  BY <1>5, AnswersType
<1>6. CASE Server
  BY <1>6, ServerType
<1>7. CASE UNCHANGED vars
  BY <1>7 DEF vars, TypeOK
<1> QED BY <1>1, <1>2, <1>3, <1>4, <1>5, <1>6, <1>7 DEF Next

(* The queue, the store, the pass, the server and what travels between them *)
(* keep their types: in particular every conflict names a status the panel  *)
(* can show, also when the floor had not been read (sync.ts, sendCommand).  *)
THEOREM TypeCorrect == Spec => []TypeOK
<1> QED BY InitType, NextType, PTL DEF Spec

-----------------------------------------------------------------------------
(* Every copy of a command the device holds: queued, as last committed, in  *)
(* the pass, on the disk, or listed.                                        *)
Copies == queue \union shown \union todo \union diskQueue
          \union {e.command : e \in conflicts \union diskConflicts}

(* Under the name of somebody who asked for the command, or of one the      *)
(* client's own retry after a 401 met.                                      *)
Accounted(r) == r.as \in chose[r.command.id] \/ [id |-> r.command.id, as |-> r.as] \in resent

(* The strengthening of RecordedByConsentUnlessResent: a recorded command   *)
(* was a request first, a request was a copy in the pass or one the client  *)
(* sent again, and a copy may come from any list, the disk's included.      *)
ConsentInv ==
   /\ \A c \in Copies : c.by \in chose[c.id]
   /\ \A r \in waiting \union net : Accounted(r)
   /\ RecordedByConsentUnlessResent

LEMMA CopiesType == TypeOK => Copies \subseteq QueuedCommand
BY DEF TypeOK, Copies, ConflictEntry

(* A step keeps ConsentInv if nobody's consent is withdrawn, and whatever   *)
(* is new in a list, on its way or recorded has somebody's.                 *)
LEMMA ConsentKept ==
  ASSUME TypeOK, ConsentInv,
         \A i \in Ids : chose[i] \subseteq chose'[i],
         resent \subseteq resent',
         \A c \in Copies' : \/ \E d \in Copies : d.id = c.id /\ d.by = c.by
                            \/ c.by \in chose'[c.id],
         \A r \in (waiting \union net)' : r \in waiting \union net \/ Accounted(r)',
         \A x \in recorded' : x \in recorded \/ x.as \in chose'[x.id] \/ x \in resent'
  PROVE  ConsentInv'
<1>1. \A c \in Copies : c.id \in Ids
  BY CopiesType DEF QueuedCommand
<1>2. \A r \in waiting \union net : r.command.id \in Ids
  BY DEF TypeOK, Request, QueuedCommand
<1>3. \A x \in recorded : x.id \in Ids
  BY DEF TypeOK
<1>4. \A c \in Copies' : c.by \in chose'[c.id]
  <2> SUFFICES ASSUME NEW c \in Copies', NEW d \in Copies, d.id = c.id, d.by = c.by
               PROVE  c.by \in chose'[c.id]
    OBVIOUS
  <2>1. d.by \in chose[d.id] /\ d.id \in Ids
    BY <1>1 DEF ConsentInv
  <2> QED BY <2>1
<1>5. \A r \in (waiting \union net)' : Accounted(r)'
  BY <1>2 DEF ConsentInv, Accounted
<1>6. \A x \in recorded' : x.as \in chose'[x.id] \/ x \in resent'
  BY <1>3 DEF ConsentInv, RecordedByConsentUnlessResent
<1> QED BY <1>4, <1>5, <1>6 DEF ConsentInv, RecordedByConsentUnlessResent

LEMMA InitConsent == Init => ConsentInv
BY DEF Init, ConsentInv, Copies, RecordedByConsentUnlessResent

LEMMA PersonConsent == ASSUME TypeOK, ConsentInv, Person PROVE ConsentInv'
<1> USE DEF vars, reducerVars, passVars, sendVars, screenVars, diskVars, serverVars
<1>1. \A c \in Copies : c \in QueuedCommand
  BY CopiesType
<1>2. ASSUME sync(shown) PROVE todo' \subseteq todo \union shown
  BY <1>2 DEF sync, sendableInOrder
<1>3. ASSUME NEW i \in Ids, NEW kind \in Kinds, NEW scope \in Scopes, enqueue(i, kind, scope)
      PROVE  ConsentInv'
  <2>1. chose' = [chose EXCEPT ![i] = {actor}] /\ chose[i] = {} /\ sync(shown)
    BY <1>3 DEF enqueue
  <2>2. \A j \in Ids : chose[j] \subseteq chose'[j]
    BY <2>1 DEF TypeOK
  <2>3. PICK f : queue' = queue \union {f} /\ f.id = i /\ f.by = actor
    <3> DEFINE precondition ==
          IF isTableAction(kind)
          THEN [status  |-> projectedStatus(floor, queue, scope),
                version |-> IF projectedStatus(floor, queue, scope) # floor[scope].status
                            THEN NoVersion ELSE floor[scope].version]
          ELSE NoPrecondition
        g == [id |-> i, kind |-> kind, scope |-> scope, seq |-> nextSeq, attempts |-> 0,
              takenOffline |-> ~online, precondition |-> precondition, by |-> actor]
    <3>1. queue' = queue \union {g}
      BY <1>3 DEF enqueue
    <3>2. g.id = i /\ g.by = actor
      OBVIOUS
    <3> HIDE DEF g
    <3> QED BY <3>1, <3>2
  <2>4. f.by \in chose'[f.id]
    BY <2>1, <2>3 DEF TypeOK
  <2>5. \A c \in Copies' : c \in Copies \/ c = f
    BY <1>2, <1>3, <2>1, <2>3 DEF enqueue, Copies
  <2> QED BY <1>3, <2>2, <2>4, <2>5, ConsentKept DEF enqueue
<1>4. ASSUME NEW e \in conflicts, discard(e) PROVE ConsentInv'
  <2>1. Copies' \subseteq Copies /\ chose' = chose
    BY <1>4 DEF discard, Copies
  <2> QED BY <1>4, <2>1, ConsentKept DEF discard
<1>5. ASSUME NEW e \in conflicts, applyAnyway(e) PROVE ConsentInv'
  <2>1. e.command \in Copies /\ e.command \in QueuedCommand
    BY <1>1 DEF Copies
  <2>2. chose' = [chose EXCEPT ![e.command.id] = @ \union {actor}] /\ sync(shown)
    BY <1>5 DEF applyAnyway
  <2>3. e.command.id \in Ids
    BY <2>1 DEF QueuedCommand
  <2>4. \A j \in Ids : chose[j] \subseteq chose'[j]
    BY <2>2 DEF TypeOK
  <2>5. PICK f : queue' = queue \union {f} /\ f.id = e.command.id /\ f.by = actor
    <3> DEFINE g == [e.command EXCEPT !.precondition = NoPrecondition, !.seq = nextSeq,
                            !.attempts = 0, !.takenOffline = FALSE, !.by = actor]
    <3>1. queue' = queue \union {g}
      BY <1>5 DEF applyAnyway
    <3>2. g.id = e.command.id /\ g.by = actor
      BY <2>1 DEF QueuedCommand
    <3> QED BY <3>1, <3>2
  <2>6. f.by \in chose'[f.id]
    BY <2>2, <2>3, <2>5 DEF TypeOK
  <2>7. \A c \in Copies' : c \in Copies \/ c = f
    BY <1>2, <1>5, <2>2, <2>5 DEF applyAnyway, Copies
  <2> QED BY <1>5, <2>4, <2>6, <2>7, ConsentKept DEF applyAnyway
<1>6. ASSUME NEW c \in queue, claim(c) PROVE ConsentInv'
  <2> DEFINE taken == {d \in queue : d.scope = c.scope /\ d.seq <= c.seq /\ isHeld(d, actor)}
             mine  == {[d EXCEPT !.by = actor] : d \in taken}
  <2>1. /\ queue' = (queue \ taken) \union mine /\ sync(shown)
        /\ chose' = [i \in Ids |-> IF i \in IdsOf(taken) THEN chose[i] \union {actor}
                                   ELSE chose[i]]
    BY <1>6 DEF claim
  <2>2. \A j \in Ids : chose[j] \subseteq chose'[j]
    BY <2>1 DEF TypeOK
  <2>3. \A m \in mine : m.by \in chose'[m.id]
    <3> SUFFICES ASSUME NEW d \in taken PROVE [d EXCEPT !.by = actor].by \in chose'[[d EXCEPT !.by = actor].id]
      OBVIOUS
    <3>1. d \in QueuedCommand /\ d.id \in IdsOf(taken)
      BY <1>1 DEF Copies, IdsOf
    <3>2. [d EXCEPT !.by = actor].by = actor /\ [d EXCEPT !.by = actor].id = d.id /\ d.id \in Ids
      BY <3>1 DEF QueuedCommand
    <3> QED BY <2>1, <3>1, <3>2
  <2>4. \A d \in Copies' : d \in Copies \/ d \in mine
    BY <1>2, <1>6, <2>1 DEF claim, Copies
  <2> HIDE DEF mine
  <2> QED BY <1>6, <2>2, <2>3, <2>4, ConsentKept DEF claim
<1>7. ASSUME NEW c \in queue, drop(c) PROVE ConsentInv'
  <2>1. Copies' \subseteq Copies /\ chose' = chose
    BY <1>7 DEF drop, Copies
  <2> QED BY <1>7, <2>1, ConsentKept DEF drop
<1> QED BY <1>3, <1>4, <1>5, <1>6, <1>7 DEF Person

(* The screen, the store and the pass move copies between the lists; only   *)
(* SendOut makes a request, and never of a held command.                    *)
LEMMA ScreenConsent == ASSUME TypeOK, ConsentInv, Screen PROVE ConsentInv'
<1> USE DEF vars, reducerVars, passVars, sendVars, screenVars, diskVars, serverVars
<1>1. /\ UNCHANGED <<chose, waiting, net, recorded, resent>>
      /\ Copies' \subseteq Copies
  <2>1. ASSUME sync(queue) PROVE todo' \subseteq todo \union queue
    BY <2>1 DEF sync, sendableInOrder
  <2>2. CASE Commit
    BY <2>1, <2>2 DEF Commit, Copies
  <2>3. CASE Connection \/ Lock \/ (\E p \in Staff : SignIn(p)) \/ ReadFloor
    BY <2>3 DEF Connection, Lock, SignIn, ReadFloor, Copies
  <2> QED BY <2>2, <2>3 DEF Screen
<1> QED BY <1>1, ConsentKept

LEMMA StoreConsent == ASSUME TypeOK, ConsentInv, Store PROVE ConsentInv'
<1> USE DEF vars, reducerVars, passVars, sendVars, screenVars, diskVars, serverVars
<1>1. CASE saveQueue \/ saveConflicts
  <2>1. Copies' \subseteq Copies /\ UNCHANGED <<chose, waiting, net, recorded, resent>>
    BY <1>1 DEF saveQueue, saveConflicts, Copies
  <2> QED BY <2>1, ConsentKept
<1>2. CASE hydrated
  <2>1. UNCHANGED <<chose, waiting, net, recorded, resent, shown, todo, diskQueue, diskConflicts>>
    BY <1>2 DEF hydrated
  <2>2. conflicts' \subseteq conflicts \union diskConflicts
    BY <1>2 DEF hydrated, mergedConflicts
  <2>3. \A c \in queue' : \E d \in Copies : d.id = c.id /\ d.by = c.by
    <3>1. PICK place : queue' = diskQueue \union {renumbered(c, place) : c \in takenEarly}
      BY <1>2 DEF hydrated
    <3>2. ASSUME NEW d \in takenEarly
          PROVE  renumbered(d, place).id = d.id /\ renumbered(d, place).by = d.by
      <4>1. d \in QueuedCommand
        BY DEF takenEarly, TypeOK
      <4> QED BY <4>1 DEF renumbered, QueuedCommand
    <3> QED BY <3>1, <3>2 DEF Copies, takenEarly
  <2>4. \A c \in Copies' : \E d \in Copies : d.id = c.id /\ d.by = c.by
    BY <2>1, <2>2, <2>3 DEF Copies
  <2> QED BY <2>1, <2>4, ConsentKept
<1>3. CASE Reload
  <2>1. Copies' \subseteq Copies /\ UNCHANGED <<chose, net, recorded, resent>> /\ waiting' = {}
    BY <1>3 DEF Reload, Copies
  <2> QED BY <2>1, ConsentKept
<1> QED BY <1>1, <1>2, <1>3 DEF Store

LEMMA PassConsent == ASSUME TypeOK, ConsentInv, Pass PROVE ConsentInv'
<1> USE DEF vars, reducerVars, passVars, sendVars, screenVars, diskVars, serverVars
<1>1. CASE Locked \/ (\E c \in todo : PassOver(c)) \/ Finish
  <2>1. Copies' \subseteq Copies /\ UNCHANGED <<chose, waiting, net, recorded, resent>>
    BY <1>1 DEF Locked, PassOver, Finish, sendableInOrder, Copies
  <2> QED BY <2>1, ConsentKept
<1>2. ASSUME NEW c \in todo, RefuseHere(c) PROVE ConsentInv'
  <2>1. conflicted(c.id, "precondition", floor[c.scope].status)
    BY <1>2 DEF RefuseHere
  <2>2. queue' \subseteq queue /\ \A e \in conflicts' : e \in conflicts \/ e.command \in queue
    BY <2>1 DEF conflicted, FirstWithId, WithId
  <2>3. Copies' \subseteq Copies /\ UNCHANGED <<chose, waiting, net, recorded, resent>>
    BY <1>2, <2>2 DEF RefuseHere, Copies
  <2> QED BY <2>3, ConsentKept
<1>3. ASSUME NEW c \in todo, SendOut(c) PROVE ConsentInv'
  <2>1. c.by = actor /\ c \in Copies
    BY <1>3 DEF SendOut, MayLeave, isHeld, Copies
  <2>2. actor \in chose[c.id]
    BY <2>1 DEF ConsentInv
  <2>3. \A r \in (waiting \union net)' : r \in waiting \union net \/ Accounted(r)'
    BY <1>3, <2>2 DEF SendOut, Accounted
  <2>4. Copies' \subseteq Copies /\ UNCHANGED <<chose, recorded, resent>>
    BY <1>3 DEF SendOut, Copies
  <2> QED BY <2>3, <2>4, ConsentKept
<1> QED BY <1>1, <1>2, <1>3 DEF Pass

LEMMA AnswersConsent == ASSUME TypeOK, ConsentInv, Answers PROVE ConsentInv'
<1> USE DEF vars, reducerVars, passVars, sendVars, screenVars, diskVars, serverVars
<1>1. ASSUME NEW r \in waiting, Receive(r) PROVE ConsentInv'
  <2>1. queue' \subseteq queue /\ \A e \in conflicts' : e \in conflicts \/ e.command \in queue
    BY <1>1 DEF Receive, removed, conflicted, liveRace, FirstWithId, WithId
  <2>2. Copies' \subseteq Copies /\ UNCHANGED <<chose, net, recorded, resent>> /\ waiting' = {}
    BY <1>1, <2>1 DEF Receive, Copies
  <2> QED BY <2>2, ConsentKept
<1>2. ASSUME NEW r \in waiting, GiveUp(r) \/ TurnedAway(r) PROVE ConsentInv'
  <2>1. deferred(r.command.id)
    BY <1>2 DEF GiveUp, TurnedAway
  <2>2. \A c \in queue' : \E d \in queue : d.id = c.id /\ d.by = c.by
    <3>1. \A d \in queue : LET later == [d EXCEPT !.attempts = @ + 1]
                          IN  later.id = d.id /\ later.by = d.by
      BY DEF TypeOK, QueuedCommand
    <3> QED BY <2>1, <3>1 DEF deferred, WithId
  <2>3. UNCHANGED <<conflicts, shown, todo, diskQueue, diskConflicts>>
    BY <1>2, <2>1 DEF GiveUp, TurnedAway, deferred
  <2>4. \A c \in Copies' : \E d \in Copies : d.id = c.id /\ d.by = c.by
    BY <2>2, <2>3 DEF Copies
  <2>5. UNCHANGED <<chose, recorded, resent>> /\ waiting' = {} /\ net' \subseteq net
    BY <1>2 DEF GiveUp, TurnedAway
  <2> QED BY <2>4, <2>5, ConsentKept
<1>3. ASSUME NEW r \in waiting, SendAgain(r) PROVE ConsentInv'
  <2> DEFINE anew == [r EXCEPT !.as = actor, !.retry = TRUE]
  <2>1. anew.as = actor /\ anew.command = r.command
    BY DEF TypeOK, Request
  <2>2. /\ waiting' = {anew} /\ net' = net \union {anew}
        /\ UNCHANGED <<chose, recorded>> /\ Copies' = Copies
    BY <1>3 DEF SendAgain, Copies
  <2>3. /\ resent \subseteq resent'
        /\ actor # r.as => [id |-> r.command.id, as |-> actor] \in resent'
    BY <1>3 DEF SendAgain
  <2>4. Accounted(r)
    BY DEF ConsentInv
  <2> HIDE DEF anew
  <2>5. anew.as \in chose'[anew.command.id] \/ [id |-> anew.command.id, as |-> anew.as] \in resent'
    BY <2>1, <2>2, <2>3, <2>4 DEF Accounted
  <2>6. \A q \in (waiting \union net)' : q \in waiting \union net \/ Accounted(q)'
    BY <2>2, <2>5 DEF Accounted
  <2> QED BY <2>2, <2>3, <2>6, ConsentKept
<1> QED BY <1>1, <1>2, <1>3 DEF Answers

LEMMA ServerConsent == ASSUME TypeOK, ConsentInv, Server PROVE ConsentInv'
<1> USE DEF vars, reducerVars, passVars, sendVars, screenVars, diskVars, serverVars
<1>1. Copies' = Copies /\ UNCHANGED <<chose, waiting, resent>> /\ net' \subseteq net
  BY DEF Server, Serve, Refuse, Unauthorized, Elsewhere, Copies
<1>2. \A x \in recorded' : x \in recorded \/ x.as \in chose[x.id] \/ x \in resent
  <2>1. ASSUME NEW r \in net, Serve(r)
        PROVE  \A x \in recorded' : x \in recorded \/ x.as \in chose[x.id] \/ x \in resent
    <3>1. Accounted(r)
      BY DEF ConsentInv
    <3>2. \A x \in recorded' : x \in recorded \/ x = [id |-> r.command.id, as |-> r.as]
      BY <2>1 DEF Serve
    <3> QED BY <3>1, <3>2 DEF Accounted
  <2> QED BY <2>1 DEF Server, Refuse, Unauthorized, Elsewhere
<1> QED BY <1>1, <1>2, ConsentKept

LEMMA NextConsent == TypeOK /\ ConsentInv /\ [Next]_vars => ConsentInv'
<1> SUFFICES ASSUME TypeOK, ConsentInv, [Next]_vars PROVE ConsentInv'
  OBVIOUS
<1>1. CASE Next
  BY <1>1, PersonConsent, ScreenConsent, StoreConsent, PassConsent, AnswersConsent,
     ServerConsent DEF Next
<1>2. CASE UNCHANGED vars
  BY <1>2 DEF vars, ConsentInv, Copies, Accounted, RecordedByConsentUnlessResent
<1> QED BY <1>1, <1>2

(* Whatever the interleaving of taps, passes, locks, sign-ins, reloads and  *)
(* late requests, the server records a command only under the name of       *)
(* somebody who took it, claimed it or applied it anyway - or of the person *)
(* under whom the client itself sent it again after a 401, having left      *)
(* under another's: the loop's own asking leaves no other gap.              *)
THEOREM OnlyByConsentUnlessResent == Spec => []RecordedByConsentUnlessResent
<1>1. Spec => []ConsentInv
  BY TypeCorrect, InitConsent, NextConsent, PTL DEF Spec
<1>2. ConsentInv => RecordedByConsentUnlessResent
  BY DEF ConsentInv
<1> QED BY <1>1, <1>2, PTL

-----------------------------------------------------------------------------
(* What a step does to the two lists of the device, whichever action it is. *)
Memory == IdsOf(queue) \union ConflictIds(conflicts)
Disk   == IdsOf(diskQueue) \union ConflictIds(diskConflicts)

storeVars == <<ready, diskQueue, diskConflicts, torn, owed>>

(* What left the lists was recorded or settled by a person. *)
Shrinks == /\ queue' \subseteq queue /\ conflicts' \subseteq conflicts
           /\ Memory \subseteq Memory' \union RecordedIds \union decided'
           /\ UNCHANGED <<nextSeq, storeVars>>

Alike(c, d) == c.id = d.id /\ c.seq = d.seq /\ c.scope = d.scope

(* Each command keeps its id and its place: another attempt, another name. *)
Reworks == /\ \E f : /\ \A c \in queue : Alike(f[c], c)
                     /\ queue' = {f[c] : c \in queue}
           /\ UNCHANGED <<conflicts, nextSeq, storeVars>>

Adds == /\ \E f : /\ queue' = queue \union {f} /\ f.id \in Ids /\ chose[f.id] = {}
                  /\ f.seq = nextSeq
        /\ ready \/ EarlyTaps
        /\ nextSeq' = nextSeq + 1 /\ UNCHANGED <<conflicts, storeVars>>

Retries == /\ \E f : /\ queue' = queue \union {f} /\ f.id \in ConflictIds(conflicts)
                     /\ f.seq = nextSeq
                     /\ conflicts' = {x \in conflicts : x.command.id # f.id}
           /\ nextSeq' = nextSeq + 1 /\ UNCHANGED storeVars

Lists == /\ \E i, why, status : conflicted(i, why, status)
         /\ UNCHANGED <<nextSeq, storeVars>>

(* One send is awaited at a time, and it is told of a success only once the *)
(* server has recorded the command.                                         *)
AnswerInv ==
   /\ \A r, s \in waiting : r = s
   /\ answer.outcome \in {"applied", "replayed"} => \A r \in waiting : r.command.id \in RecordedIds

LEMMA NextAnswer == ASSUME TypeOK, AnswerInv, [Next]_vars PROVE AnswerInv'
<1> USE DEF vars, reducerVars, passVars, sendVars, screenVars, diskVars, serverVars
<1>1. ASSUME waiting' \subseteq waiting, answer' = answer \/ waiting' = {}, UNCHANGED recorded
      PROVE  AnswerInv'
  BY <1>1 DEF AnswerInv, RecordedIds
<1>2. ASSUME NEW c \in todo, SendOut(c) PROVE AnswerInv'
  BY <1>2 DEF SendOut, AnswerInv, NoAnswer
<1>3. ASSUME NEW r \in net, Serve(r) PROVE AnswerInv'
  <2>1. PICK outcome \in Verdicts(r) :
          /\ IF outcome = "applied"
             THEN recorded' = recorded \union {[id |-> r.command.id, as |-> r.as]}
             ELSE UNCHANGED recorded
          /\ \E status : Reply(r, outcome, status)
    BY <1>3 DEF Serve
  <2>2. RecordedIds \subseteq RecordedIds' /\ waiting' = waiting
    BY <1>3, <2>1 DEF RecordedIds, Serve
  <2>3. outcome \in {"applied", "replayed"} => r.command.id \in RecordedIds'
    <3>1. CASE outcome = "applied"
      <4> DEFINE new == [id |-> r.command.id, as |-> r.as]
      <4>1. new \in recorded' /\ new.id = r.command.id
        BY <2>1, <3>1
      <4> QED BY <4>1 DEF RecordedIds
    <3>2. CASE outcome = "replayed"
      <4>1. r.command.id \in RecordedIds
        BY <3>2 DEF Verdicts, OnItsTable
      <4> QED BY <2>2, <4>1
    <3> QED BY <3>1, <3>2
  <2>4. CASE r \in waiting
    <3>1. answer'.outcome = outcome
      BY <2>1, <2>4 DEF Reply
    <3>2. \A s \in waiting' : s = r
      BY <2>2, <2>4 DEF AnswerInv
    <3> QED BY <2>2, <2>3, <3>1, <3>2 DEF AnswerInv
  <2>5. CASE r \notin waiting
    <3>1. answer' = answer
      BY <2>1, <2>5 DEF Reply
    <3> QED BY <2>2, <3>1 DEF AnswerInv
  <2> QED BY <2>4, <2>5
<1>4. ASSUME NEW r \in net, Refuse(r) PROVE AnswerInv'
  <2>1. answer' = answer \/ answer'.outcome = "refused"
    BY <1>4 DEF Refuse, Reply
  <2> QED BY <1>4, <2>1 DEF Refuse, AnswerInv, RecordedIds
<1>13. ASSUME NEW r \in net, Unauthorized(r) PROVE AnswerInv'
  BY <1>13 DEF Unauthorized, AnswerInv
<1>12. ASSUME NEW r \in waiting, SendAgain(r) PROVE AnswerInv'
  BY <1>12 DEF SendAgain, AnswerInv, NoAnswer
<1>5. CASE Person
  <2>1. ASSUME NEW i \in Ids, NEW kind \in Kinds, NEW scope \in Scopes, enqueue(i, kind, scope)
        PROVE  UNCHANGED <<waiting, answer, recorded>>
    BY <2>1 DEF enqueue
  <2>2. ASSUME NEW e \in conflicts, discard(e) \/ applyAnyway(e)
        PROVE  UNCHANGED <<waiting, answer, recorded>>
    BY <2>2 DEF discard, applyAnyway
  <2>3. ASSUME NEW c \in queue, claim(c) \/ drop(c)
        PROVE  UNCHANGED <<waiting, answer, recorded>>
    BY <2>3 DEF claim, drop
  <2> QED BY <1>1, <1>5, <2>1, <2>2, <2>3 DEF Person
<1>6. CASE Screen
  BY <1>1, <1>6 DEF Screen, Connection, Lock, SignIn, ReadFloor, Commit
<1>7. CASE Store
  BY <1>1, <1>7 DEF Store, saveQueue, saveConflicts, hydrated, Reload
<1>8. CASE Pass
  BY <1>1, <1>2, <1>8 DEF Pass, Locked, PassOver, RefuseHere, Finish
<1>9. CASE Answers
  BY <1>1, <1>9, <1>12 DEF Answers, Receive, TurnedAway, GiveUp
<1>10. CASE Server
  <2>1. ASSUME NEW t \in Tables, Elsewhere(t) PROVE AnswerInv'
    BY <1>1, <2>1 DEF Elsewhere
  <2> QED BY <1>3, <1>4, <1>10, <1>13, <2>1 DEF Server
<1>11. CASE UNCHANGED vars
  BY <1>1, <1>11
<1> QED BY <1>5, <1>6, <1>7, <1>8, <1>9, <1>10, <1>11 DEF Next

-----------------------------------------------------------------------------
LEMMA PersonShape == ASSUME TypeOK, Person PROVE Shrinks \/ Reworks \/ Adds \/ Retries
<1> USE DEF vars, reducerVars, passVars, sendVars, screenVars, diskVars, serverVars, storeVars
<1>1. ASSUME NEW i \in Ids, NEW kind \in Kinds, NEW scope \in Scopes, enqueue(i, kind, scope)
      PROVE  Adds
  <2> DEFINE precondition ==
        IF isTableAction(kind)
        THEN [status  |-> projectedStatus(floor, queue, scope),
              version |-> IF projectedStatus(floor, queue, scope) # floor[scope].status
                          THEN NoVersion ELSE floor[scope].version]
        ELSE NoPrecondition
      g == [id |-> i, kind |-> kind, scope |-> scope, seq |-> nextSeq, attempts |-> 0,
            takenOffline |-> ~online, precondition |-> precondition, by |-> actor]
  <2>1. queue' = queue \union {g}
    BY <1>1 DEF enqueue
  <2>2. g.id = i /\ g.seq = nextSeq
    OBVIOUS
  <2> HIDE DEF g
  <2>3. \E f : /\ queue' = queue \union {f} /\ f.id \in Ids /\ chose[f.id] = {}
               /\ f.seq = nextSeq
    BY <1>1, <2>1, <2>2 DEF enqueue
  <2> QED BY <1>1, <2>3 DEF enqueue, Adds
<1>2. ASSUME NEW e \in conflicts, discard(e) PROVE Shrinks
  BY <1>2 DEF discard, Shrinks, Memory, IdsOf, ConflictIds
<1>3. ASSUME NEW e \in conflicts, applyAnyway(e) PROVE Retries
  <2> DEFINE g == [e.command EXCEPT !.precondition = NoPrecondition, !.seq = nextSeq,
                          !.attempts = 0, !.takenOffline = FALSE, !.by = actor]
  <2>1. e.command \in QueuedCommand
    BY DEF TypeOK, ConflictEntry
  <2>2. queue' = queue \union {g}
    BY <1>3 DEF applyAnyway
  <2>3. g.id = e.command.id /\ g.seq = nextSeq
    BY <2>1 DEF QueuedCommand
  <2> HIDE DEF g
  <2>4. g.id \in ConflictIds(conflicts)
    BY <2>3 DEF ConflictIds
  <2> QED BY <1>3, <2>2, <2>3, <2>4 DEF applyAnyway, Retries
<1>4. ASSUME NEW c \in queue, claim(c) PROVE Reworks
  <2> DEFINE taken == {d \in queue : d.scope = c.scope /\ d.seq <= c.seq /\ isHeld(d, actor)}
             f == [d \in queue |-> IF d \in taken THEN [d EXCEPT !.by = actor] ELSE d]
  <2>1. queue' = (queue \ taken) \union {[d EXCEPT !.by = actor] : d \in taken}
    BY <1>4 DEF claim
  <2>2. \A d \in queue : Alike(f[d], d)
    BY DEF TypeOK, QueuedCommand, Alike
  <2>3. taken \subseteq queue
    OBVIOUS
  <2> HIDE DEF taken
  <2>4. queue' = {f[d] : d \in queue}
    BY <2>1, <2>3
  <2> HIDE DEF f
  <2> QED BY <1>4, <2>2, <2>4 DEF claim, Reworks
<1>5. ASSUME NEW c \in queue, drop(c) PROVE Shrinks
  BY <1>5 DEF drop, Shrinks, Memory, IdsOf, ConflictIds, WithId
<1> QED BY <1>1, <1>2, <1>3, <1>4, <1>5 DEF Person

LEMMA PassShape == ASSUME TypeOK, Pass PROVE Shrinks \/ Lists
<1> USE DEF vars, reducerVars, passVars, sendVars, screenVars, diskVars, serverVars, storeVars
<1>1. CASE Locked \/ (\E c \in todo : PassOver(c) \/ SendOut(c)) \/ Finish
  BY <1>1 DEF Locked, PassOver, SendOut, Finish, Shrinks, Memory
<1>2. ASSUME NEW c \in todo, RefuseHere(c) PROVE Lists
  BY <1>2 DEF RefuseHere, Lists
<1> QED BY <1>1, <1>2 DEF Pass

LEMMA AnswersShape == ASSUME TypeOK, AnswerInv, Answers PROVE Shrinks \/ Reworks \/ Lists
<1> USE DEF vars, reducerVars, passVars, sendVars, screenVars, diskVars, serverVars, storeVars
<1>1. ASSUME NEW r \in waiting, Receive(r) PROVE Shrinks \/ Lists
  <2>1. CASE answer.outcome \in {"applied", "replayed"} /\ removed(r.command.id)
    <3>1. r.command.id \in RecordedIds
      BY <2>1 DEF AnswerInv
    <3> QED BY <1>1, <2>1, <3>1 DEF Receive, removed, Shrinks, Memory, IdsOf, ConflictIds, WithId
  <2>2. CASE conflicted(r.command.id, answer.outcome, answer.seen)
    BY <1>1, <2>2 DEF Receive, Lists
  <2>3. CASE liveRace(r.command.id)
    BY <1>1, <2>3 DEF Receive, liveRace, Shrinks, Memory, IdsOf, ConflictIds, WithId
  <2> QED BY <1>1, <2>1, <2>2, <2>3 DEF Receive
<1>2. ASSUME NEW r \in waiting, GiveUp(r) \/ TurnedAway(r) PROVE Reworks
  <2> DEFINE same == WithId(queue, r.command.id)
             f == [d \in queue |-> IF d \in same THEN [d EXCEPT !.attempts = @ + 1] ELSE d]
  <2>1. queue' = (queue \ same) \union {[d EXCEPT !.attempts = @ + 1] : d \in same}
        /\ UNCHANGED conflicts
    BY <1>2 DEF GiveUp, TurnedAway, deferred
  <2>2. \A d \in queue : Alike(f[d], d)
    BY DEF TypeOK, QueuedCommand, Alike
  <2>3. same \subseteq queue
    BY DEF WithId
  <2> HIDE DEF same
  <2>4. queue' = {f[d] : d \in queue}
    BY <2>1, <2>3
  <2> HIDE DEF f
  <2> QED BY <1>2, <2>1, <2>2, <2>4 DEF GiveUp, TurnedAway, Reworks
<1>3. ASSUME NEW r \in waiting, SendAgain(r) PROVE Shrinks
  BY <1>3 DEF SendAgain, Shrinks, Memory
<1> QED BY <1>1, <1>2, <1>3 DEF Answers

LEMMA StepShape ==
  ASSUME TypeOK, AnswerInv, [Next]_vars
  PROVE  Shrinks \/ Reworks \/ Adds \/ Retries \/ Lists \/ Store
<1> USE DEF vars, reducerVars, passVars, sendVars, screenVars, diskVars, serverVars, storeVars
<1>1. CASE Screen
  BY <1>1 DEF Screen, Connection, Lock, SignIn, ReadFloor, Commit, Shrinks, Memory
<1>2. CASE Server
  BY <1>2 DEF Server, Serve, Refuse, Unauthorized, Elsewhere, Shrinks, Memory
<1>3. CASE UNCHANGED vars
  BY <1>3 DEF Shrinks, Memory
<1> QED BY <1>1, <1>2, <1>3, PersonShape, PassShape, AnswersShape DEF Next

-----------------------------------------------------------------------------
Numbered(commands) == \A c, d \in commands : c.seq = d.seq => c = d

(* The strengthening of ReplayOrderUnambiguous: the store's queue was the   *)
(* memory's once, so its numbers tell its commands apart too.               *)
NumberInv == ReplayOrderUnambiguous /\ Numbered(diskQueue)

LEMMA InitNumber == Init => NumberInv
BY DEF Init, NumberInv, ReplayOrderUnambiguous, Numbered

(* What was tapped before the store was read goes behind it, in its order.  *)
LEMMA HydratedNumber == ASSUME TypeOK, NumberInv, hydrated PROVE NumberInv'
<1> USE DEF vars, reducerVars, passVars, sendVars, screenVars, diskVars, serverVars
<1>1. PICK highest \in 0..MaxSeq, n \in 0..MaxSeq :
         /\ highest + n <= MaxSeq
         /\ \A c \in stored : c.seq <= highest
         /\ \E place \in [takenEarly -> highest + 1 .. highest + n] :
               /\ \A c, d \in takenEarly : c.seq < d.seq => place[c] < place[d]
               /\ queue' = diskQueue \union {renumbered(c, place) : c \in takenEarly}
         /\ nextSeq' = highest + n + 1
  BY DEF hydrated
<1>2. PICK place \in [takenEarly -> highest + 1 .. highest + n] :
         /\ \A c, d \in takenEarly : c.seq < d.seq => place[c] < place[d]
         /\ queue' = diskQueue \union {renumbered(c, place) : c \in takenEarly}
  BY <1>1
<1>3. highest \in Nat /\ n \in Nat /\ nextSeq' = highest + n + 1
  BY <1>1, PolicyAssumption DEF PolicyAssumption
<1>4. \A c \in takenEarly : /\ c.seq \in Int /\ c \in queue
                            /\ place[c] \in Int /\ highest + 1 <= place[c] /\ place[c] <= highest + n
                            /\ renumbered(c, place).seq = place[c]
  <2> SUFFICES ASSUME NEW c \in takenEarly
               PROVE  /\ c.seq \in Int /\ c \in queue
                      /\ place[c] \in Int /\ highest + 1 <= place[c] /\ place[c] <= highest + n
                      /\ renumbered(c, place).seq = place[c]
    OBVIOUS
  <2>1. c \in QueuedCommand /\ c \in queue
    BY DEF takenEarly, TypeOK
  <2>2. c.seq \in Int /\ renumbered(c, place).seq = place[c]
    BY <2>1, PolicyAssumption DEF QueuedCommand, renumbered, PolicyAssumption
  <2>3. place[c] \in highest + 1 .. highest + n
    BY <1>2
  <2> QED BY <1>3, <2>1, <2>2, <2>3
<1>5. \A c \in diskQueue : c.seq \in Int /\ c.seq <= highest
  <2> SUFFICES ASSUME NEW c \in diskQueue PROVE c.seq \in Int /\ c.seq <= highest
    OBVIOUS
  <2>1. c \in stored /\ c \in QueuedCommand
    BY DEF stored, TypeOK
  <2> QED BY <1>1, <2>1, PolicyAssumption DEF QueuedCommand, PolicyAssumption
<1>6. \A c, d \in takenEarly : place[c] = place[d] => c = d
  <2> SUFFICES ASSUME NEW c \in takenEarly, NEW d \in takenEarly, place[c] = place[d]
               PROVE  c = d
    OBVIOUS
  <2>1. ~(c.seq < d.seq) /\ ~(d.seq < c.seq)
    BY <1>2, <1>4
  <2>2. c.seq = d.seq
    BY <1>4, <2>1
  <2> QED BY <1>4, <2>2 DEF NumberInv, ReplayOrderUnambiguous
<1>7. \A c \in queue' : \/ c \in diskQueue
                        \/ \E d \in takenEarly : c = renumbered(d, place)
  BY <1>2
<1>8. \A c \in queue' : c.seq < nextSeq'
  BY <1>3, <1>4, <1>5, <1>7
<1>9. \A c, d \in queue' : c.seq = d.seq => c = d
  <2> SUFFICES ASSUME NEW c \in queue', NEW d \in queue', c.seq = d.seq PROVE c = d
    OBVIOUS
  <2>1. CASE c \in diskQueue /\ d \in diskQueue
    BY <2>1 DEF NumberInv, Numbered
  <2>2. ASSUME NEW x \in takenEarly, c = renumbered(x, place), d \in diskQueue PROVE FALSE
    BY <1>3, <1>4, <1>5, <2>2
  <2>3. ASSUME NEW x \in takenEarly, d = renumbered(x, place), c \in diskQueue PROVE FALSE
    BY <1>3, <1>4, <1>5, <2>3
  <2>4. ASSUME NEW x \in takenEarly, NEW y \in takenEarly,
               c = renumbered(x, place), d = renumbered(y, place)
        PROVE  c = d
    BY <1>4, <1>6, <2>4
  <2> QED BY <1>7, <2>1, <2>2, <2>3, <2>4
<1>10. diskQueue' = diskQueue
  BY DEF hydrated
<1> QED BY <1>8, <1>9, <1>10 DEF NumberInv, ReplayOrderUnambiguous, Numbered

LEMMA NextNumber == ASSUME TypeOK, AnswerInv, NumberInv, [Next]_vars PROVE NumberInv'
<1> USE DEF storeVars
<1>1. \A c \in queue : c.seq \in Int /\ c.seq < nextSeq /\ nextSeq \in Int
  BY PolicyAssumption DEF TypeOK, QueuedCommand, NumberInv, ReplayOrderUnambiguous, PolicyAssumption
<1>2. nextSeq \in Int
  BY PolicyAssumption DEF TypeOK, PolicyAssumption
<1>3. ASSUME queue' \subseteq queue, UNCHANGED <<nextSeq, diskQueue>> PROVE NumberInv'
  BY <1>3 DEF NumberInv, ReplayOrderUnambiguous, Numbered
<1>4. CASE Shrinks
  BY <1>3, <1>4 DEF Shrinks
<1>5. CASE Lists
  BY <1>3, <1>5 DEF Lists, conflicted
<1>6. CASE Reworks
  <2>1. PICK f : (\A c \in queue : f[c].id = c.id /\ f[c].seq = c.seq) /\ queue' = {f[c] : c \in queue}
    BY <1>6 DEF Reworks, Alike
  <2>2. UNCHANGED <<nextSeq, diskQueue>>
    BY <1>6 DEF Reworks
  <2> QED BY <2>1, <2>2 DEF NumberInv, ReplayOrderUnambiguous, Numbered
<1>7. CASE Adds \/ Retries
  <2>1. PICK f : queue' = queue \union {f} /\ f.seq = nextSeq
    BY <1>7 DEF Adds, Retries
  <2>2. nextSeq' = nextSeq + 1 /\ UNCHANGED diskQueue
    BY <1>7 DEF Adds, Retries
  <2>3. \A c \in queue' : c.seq < nextSeq'
    BY <1>1, <1>2, <2>1, <2>2
  <2>4. \A c, d \in queue' : c.seq = d.seq => c = d
    BY <1>1, <1>2, <2>1 DEF NumberInv, ReplayOrderUnambiguous
  <2> QED BY <2>2, <2>3, <2>4 DEF NumberInv, ReplayOrderUnambiguous, Numbered
<1>8. CASE saveQueue
  BY <1>8 DEF saveQueue, reducerVars, NumberInv, ReplayOrderUnambiguous, Numbered
<1>9. CASE saveConflicts
  BY <1>3, <1>9 DEF saveConflicts, reducerVars
<1>10. CASE hydrated
  BY <1>10, HydratedNumber
<1>11. CASE Reload
  BY <1>11 DEF Reload, diskVars, NumberInv, ReplayOrderUnambiguous, Numbered
<1> QED BY <1>4, <1>5, <1>6, <1>7, <1>8, <1>9, <1>10, <1>11, StepShape DEF Store

LEMMA InitAnswer == Init => AnswerInv
BY DEF Init, AnswerInv, NoAnswer

LEMMA AnswerKept == Spec => []AnswerInv
<1>1. TypeOK /\ AnswerInv /\ [Next]_vars => AnswerInv'
  BY NextAnswer
<1> QED BY <1>1, TypeCorrect, InitAnswer, PTL DEF Spec

(* Whatever was tapped, claimed, applied anyway or deferred, and whenever   *)
(* the page was reloaded, the numbers tell the queued commands apart and    *)
(* the next tap goes behind them all.                                       *)
THEOREM ReplayOrderIsTotal == Spec => []ReplayOrderUnambiguous
<1>1. TypeOK /\ AnswerInv /\ NumberInv /\ [Next]_vars => NumberInv'
  BY NextNumber
<1>2. Spec => []NumberInv
  BY <1>1, TypeCorrect, AnswerKept, InitNumber, PTL DEF Spec
<1>3. NumberInv => ReplayOrderUnambiguous
  BY DEF NumberInv
<1> QED BY <1>2, <1>3, PTL

-----------------------------------------------------------------------------
OnceEach(commands, entries) ==
   /\ \A c, d \in commands : c.id = d.id => c = d
   /\ \A e, f \in entries : e.command.id = f.command.id => e = f
   /\ IdsOf(commands) \intersect ConflictIds(entries) = {}

(* The strengthening of OneCopy: the store too has a command once, unless   *)
(* only one of its two puts is done, and before it has been read what was   *)
(* tapped is not in it.                                                     *)
CopyInv ==
   /\ OneCopy
   /\ torn => ready
   /\ ~torn => OnceEach(diskQueue, diskConflicts)
   /\ ~ready => Memory \intersect Disk = {}

(* The page does not die between the two puts of one commit: what happens   *)
(* then is another question (it breaks both properties proved from here).   *)
NotBetweenPuts == "torn" \notin CrashAt

LEMMA InitCopy == Init => CopyInv
BY DEF Init, CopyInv, OneCopy, OnceEach, Memory, Disk, IdsOf, ConflictIds

LEMMA OneCopyOnce == OneCopy <=> OnceEach(queue, conflicts)
BY DEF OneCopy, OnceEach

(* Steps that leave the store alone keep CopyInv if the lists stay apart    *)
(* and nothing of the store's enters them.                                  *)
LEMMA MemoryStep ==
  ASSUME CopyInv, UNCHANGED storeVars, OnceEach(queue', conflicts'),
         \A i \in Memory' : i \in Memory \/ (~ready => i \notin Disk)
  PROVE  CopyInv'
<1>1. OneCopy'
  BY DEF OneCopy, OnceEach
<1>2. UNCHANGED <<ready, diskQueue, diskConflicts, torn>> /\ Disk' = Disk
  BY DEF storeVars, Disk
<1>3. (torn => ready)' /\ (~torn => OnceEach(diskQueue, diskConflicts))'
  BY <1>2 DEF CopyInv
<1>4. (~ready => Memory \intersect Disk = {})'
  BY <1>2 DEF CopyInv
<1> QED BY <1>1, <1>3, <1>4 DEF CopyInv

(* The first command with an id is the only one, when ids are told apart.   *)
LEMMA FirstIsOnly ==
  ASSUME TypeOK, OneCopy, NEW i
  PROVE  FirstWithId(queue, i) = WithId(queue, i)
<1>1. \A c, d \in WithId(queue, i) : c = d /\ c.seq <= d.seq
  <2>1. \A c \in queue : c.seq \in Int
    BY PolicyAssumption DEF TypeOK, QueuedCommand, PolicyAssumption
  <2> QED BY <2>1 DEF WithId, OneCopy
<1> QED BY <1>1 DEF FirstWithId

(* A command an answer lists is listed once and queued no longer. *)
LEMMA ListedOnce ==
  ASSUME TypeOK, OneCopy, NEW i, NEW why, NEW status, conflicted(i, why, status)
  PROVE  OnceEach(queue', conflicts') /\ Memory' = Memory
<1> DEFINE same   == WithId(queue, i)
           listed == {[command |-> c, reason |-> why, seen |-> status] : c \in same}
<1>1. queue' = queue \ same /\ conflicts' = conflicts \union listed
  <2>1. FirstWithId(queue, i) = same
    BY FirstIsOnly
  <2>2. queue' = queue \ same
        /\ conflicts' = conflicts \union
              {[command |-> c, reason |-> why, seen |-> status] : c \in FirstWithId(queue, i)}
    BY DEF conflicted
  <2> HIDE DEF same
  <2> QED BY <2>1, <2>2
<1>2. \A c \in same : c \in queue /\ c.id = i
  BY DEF WithId
<1>3. \A e \in listed : e.command \in same
  OBVIOUS
<1>4. \A c \in same : \E e \in listed : e.command = c
  <2> SUFFICES ASSUME NEW c \in same PROVE \E e \in listed : e.command = c
    OBVIOUS
  <2> DEFINE entry == [command |-> c, reason |-> why, seen |-> status]
  <2>1. entry \in listed /\ entry.command = c
    OBVIOUS
  <2> HIDE DEF entry, listed
  <2> QED BY <2>1
<1>5. \A e, f \in listed : e = f
  <2>1. \A c, d \in same : c = d
    BY <1>2 DEF OneCopy
  <2> HIDE DEF same
  <2> QED BY <2>1
<1>6. \A c \in queue : c \in same <=> c.id = i
  BY DEF WithId
<1> HIDE DEF same, listed
<1>7. \A e, f \in conflicts' : e.command.id = f.command.id => e = f
  BY <1>1, <1>2, <1>3, <1>5 DEF OneCopy, IdsOf, ConflictIds
<1>8. IdsOf(queue') \intersect ConflictIds(conflicts') = {}
  <2>1. \A c \in queue' : c \in queue /\ c.id # i
    BY <1>1, <1>6
  <2>2. \A e \in conflicts' : e \in conflicts \/ e.command.id = i
    BY <1>1, <1>2, <1>3
  <2>3. \A c \in queue, e \in conflicts : c.id # e.command.id
    BY DEF OneCopy, IdsOf, ConflictIds
  <2>4. \A c \in queue', e \in conflicts' : c.id # e.command.id
    BY <2>1, <2>2, <2>3
  <2> QED BY <2>4 DEF IdsOf, ConflictIds
<1>9. Memory' = Memory
  <2>1. Memory' \subseteq Memory
    BY <1>1, <1>2, <1>3 DEF Memory, IdsOf, ConflictIds
  <2>2. Memory \subseteq Memory'
    <3>1. \A c \in queue : c \in queue' \/ \E e \in conflicts' : e.command = c
      BY <1>1, <1>4
    <3> QED BY <1>1, <3>1 DEF Memory, IdsOf, ConflictIds
  <2> QED BY <2>1, <2>2
<1> QED BY <1>1, <1>7, <1>8, <1>9 DEF OnceEach, OneCopy

(* The store's two lists and what it has not seen yet make one memory.      *)
LEMMA HydratedOnce ==
  ASSUME TypeOK, CopyInv, hydrated
  PROVE  OnceEach(queue', conflicts') /\ Memory' = Memory \union Disk
<1>1. PICK place : queue' = diskQueue \union {renumbered(c, place) : c \in takenEarly}
  BY DEF hydrated
<1>2. \A c \in takenEarly : renumbered(c, place).id = c.id /\ c \in queue
                            /\ c.id \notin IdsOf(diskQueue)
  BY DEF takenEarly, renumbered, TypeOK, QueuedCommand
<1>3. /\ conflicts' = mergedConflicts
      /\ ~ready /\ ~torn
  BY DEF hydrated, CopyInv
<1>4. /\ \A c, d \in diskQueue : c.id = d.id => c = d
      /\ \A e, f \in diskConflicts : e.command.id = f.command.id => e = f
      /\ IdsOf(diskQueue) \intersect ConflictIds(diskConflicts) = {}
      /\ Memory \intersect Disk = {}
  BY <1>3 DEF CopyInv, OnceEach
<1>5. \A c \in queue' : c \in diskQueue \/ \E d \in takenEarly : c = renumbered(d, place)
  BY <1>1
<1>6. \A e \in conflicts' : e \in diskConflicts \/ (e \in conflicts /\ e.command.id \notin ConflictIds(diskConflicts))
  BY <1>3 DEF mergedConflicts
<1>7. takenEarly = queue
  BY <1>4 DEF takenEarly, Memory, Disk, IdsOf
<1>8. \A c, d \in queue' : c.id = d.id => c = d
  <2> SUFFICES ASSUME NEW c \in queue', NEW d \in queue', c.id = d.id PROVE c = d
    OBVIOUS
  <2>1. CASE c \in diskQueue /\ d \in diskQueue
    BY <1>4, <2>1
  <2>2. ASSUME NEW x \in takenEarly, NEW y \in takenEarly,
               c = renumbered(x, place), d = renumbered(y, place)
        PROVE  c = d
    <3>1. x = y
      BY <1>2, <2>2 DEF CopyInv, OneCopy
    <3> QED BY <2>2, <3>1
  <2> QED BY <1>2, <1>5, <2>1, <2>2 DEF IdsOf
<1>9. \A e, f \in conflicts' : e.command.id = f.command.id => e = f
  BY <1>4, <1>6 DEF CopyInv, OneCopy, ConflictIds
<1>10. IdsOf(queue') \subseteq IdsOf(queue) \union IdsOf(diskQueue)
  BY <1>2, <1>5 DEF IdsOf
<1>11. ConflictIds(conflicts') \subseteq ConflictIds(conflicts) \union ConflictIds(diskConflicts)
  BY <1>6 DEF ConflictIds
<1>12. IdsOf(queue') \intersect ConflictIds(conflicts') = {}
  BY <1>4, <1>10, <1>11 DEF CopyInv, OneCopy, Memory, Disk
<1>13. IdsOf(queue) \union IdsOf(diskQueue) \subseteq IdsOf(queue')
  <2>1. \A c \in queue : renumbered(c, place) \in queue' /\ renumbered(c, place).id = c.id
    BY <1>1, <1>2, <1>7
  <2>2. IdsOf(queue) \subseteq IdsOf(queue')
    BY <2>1 DEF IdsOf
  <2> QED BY <1>1, <2>2 DEF IdsOf
<1>14. ConflictIds(conflicts) \union ConflictIds(diskConflicts) \subseteq ConflictIds(conflicts')
  BY <1>3 DEF mergedConflicts, ConflictIds
<1>15. Memory' = Memory \union Disk
  BY <1>10, <1>11, <1>13, <1>14 DEF Memory, Disk
<1> QED BY <1>8, <1>9, <1>12, <1>15 DEF OnceEach

(* A fresh id is nobody's: not in the memory, and not in the store. *)
LEMMA FreshId ==
  ASSUME TypeOK, ConsentInv, NEW i, chose[i] = {}
  PROVE  i \notin Memory \union Disk
<1>1. \A c \in Copies : chose[c.id] # {}
  BY DEF ConsentInv
<1>2. \A j \in Memory \union Disk : \E c \in Copies : c.id = j
  BY DEF Memory, Disk, IdsOf, ConflictIds, Copies
<1> QED BY <1>1, <1>2

LEMMA StoreCopy ==
  ASSUME TypeOK, CopyInv, NotBetweenPuts, Store PROVE CopyInv'
<1> USE DEF reducerVars, diskVars
<1>1. CASE saveQueue
  <2>1. UNCHANGED <<queue, conflicts, ready, diskConflicts>> /\ ready /\ diskQueue' = queue
        /\ torn' = (diskConflicts # conflicts)
    BY <1>1 DEF saveQueue
  <2>2. OneCopy'
    BY <2>1 DEF CopyInv, OneCopy
  <2>3. (~torn => OnceEach(diskQueue, diskConflicts))'
    BY <2>1 DEF CopyInv, OneCopy, OnceEach
  <2> QED BY <2>1, <2>2, <2>3 DEF CopyInv
<1>2. CASE saveConflicts
  <2>1. UNCHANGED <<queue, conflicts, ready, diskQueue>> /\ ready /\ diskQueue = queue
        /\ diskConflicts' = conflicts /\ ~torn'
    BY <1>2 DEF saveConflicts
  <2>2. OneCopy'
    BY <2>1 DEF CopyInv, OneCopy
  <2>3. (~torn => OnceEach(diskQueue, diskConflicts))'
    BY <2>1 DEF CopyInv, OneCopy, OnceEach
  <2> QED BY <2>1, <2>2, <2>3 DEF CopyInv
<1>3. CASE hydrated
  <2>1. OnceEach(queue', conflicts')
    BY <1>3, HydratedOnce
  <2>2. ready' /\ UNCHANGED <<diskQueue, diskConflicts, torn>>
    BY <1>3 DEF hydrated
  <2> QED BY <2>1, <2>2 DEF CopyInv, OneCopy, OnceEach
<1>4. CASE Reload
  <2>1. /\ queue' = {} /\ conflicts' = {} /\ UNCHANGED <<diskQueue, diskConflicts, torn>>
        /\ ~torn
    BY <1>4 DEF Reload, Moment, NotBetweenPuts
  <2>2. Memory' = {} /\ OneCopy'
    BY <2>1 DEF Memory, OneCopy, IdsOf, ConflictIds
  <2> QED BY <2>1, <2>2 DEF CopyInv
<1> QED BY <1>1, <1>2, <1>3, <1>4 DEF Store

LEMMA NextCopy ==
  ASSUME TypeOK, ConsentInv, AnswerInv, CopyInv, NotBetweenPuts, [Next]_vars PROVE CopyInv'
<1>1. OnceEach(queue, conflicts) /\ OneCopy
  BY DEF CopyInv, OneCopy, OnceEach
<1>2. CASE Shrinks
  <2>1. queue' \subseteq queue /\ conflicts' \subseteq conflicts /\ UNCHANGED storeVars
    BY <1>2 DEF Shrinks
  <2>2. OnceEach(queue', conflicts') /\ Memory' \subseteq Memory
    BY <1>1, <2>1 DEF OnceEach, Memory, IdsOf, ConflictIds
  <2> QED BY <2>1, <2>2, MemoryStep
<1>3. CASE Reworks
  <2>1. PICK f : (\A c \in queue : f[c].id = c.id /\ f[c].seq = c.seq) /\ queue' = {f[c] : c \in queue}
    BY <1>3 DEF Reworks, Alike
  <2>2. UNCHANGED <<conflicts, storeVars>>
    BY <1>3 DEF Reworks
  <2>3. IdsOf(queue') = IdsOf(queue)
    BY <2>1 DEF IdsOf
  <2>4. \A c, d \in queue' : c.id = d.id => c = d
    BY <1>1, <2>1 DEF OnceEach
  <2>5. OnceEach(queue', conflicts') /\ Memory' = Memory
    BY <1>1, <2>2, <2>3, <2>4 DEF OnceEach, Memory
  <2> QED BY <2>2, <2>5, MemoryStep
<1>4. CASE Adds
  <2>1. PICK f : queue' = queue \union {f} /\ chose[f.id] = {}
    BY <1>4 DEF Adds
  <2>2. f.id \notin Memory \union Disk
    BY <2>1, FreshId
  <2>3. UNCHANGED <<conflicts, storeVars>>
    BY <1>4 DEF Adds
  <2>4. \A c \in queue : c.id # f.id
    BY <2>2 DEF Memory, IdsOf
  <2>5. OnceEach(queue', conflicts')
    BY <1>1, <2>1, <2>2, <2>3, <2>4 DEF OnceEach, Memory, IdsOf
  <2>6. Memory' \subseteq Memory \union {f.id}
    BY <2>1, <2>3 DEF Memory, IdsOf
  <2> QED BY <2>2, <2>3, <2>5, <2>6, MemoryStep
<1>5. CASE Retries
  <2>1. PICK f : /\ queue' = queue \union {f} /\ f.id \in ConflictIds(conflicts)
                 /\ conflicts' = {x \in conflicts : x.command.id # f.id}
    BY <1>5 DEF Retries
  <2>2. UNCHANGED storeVars
    BY <1>5 DEF Retries
  <2>3. \A c \in queue : c.id # f.id
    BY <1>1, <2>1 DEF OnceEach, IdsOf
  <2>4. OnceEach(queue', conflicts')
    BY <1>1, <2>1, <2>3 DEF OnceEach, IdsOf, ConflictIds
  <2>5. Memory' \subseteq Memory
    BY <2>1 DEF Memory, IdsOf, ConflictIds
  <2> QED BY <2>2, <2>4, <2>5, MemoryStep
<1>6. CASE Lists
  <2>1. PICK i, why, status : conflicted(i, why, status)
    BY <1>6 DEF Lists
  <2>2. OnceEach(queue', conflicts') /\ Memory' = Memory
    BY <1>1, <2>1, ListedOnce
  <2> QED BY <1>6, <2>2, MemoryStep DEF Lists
<1> QED BY <1>2, <1>3, <1>4, <1>5, <1>6, StoreCopy, StepShape

LEMMA CopiesKept == NotBetweenPuts => (Spec => []CopyInv)
<1> SUFFICES ASSUME NotBetweenPuts PROVE Spec => []CopyInv
  OBVIOUS
<1>1. TypeOK /\ ConsentInv /\ AnswerInv /\ CopyInv /\ [Next]_vars => CopyInv'
  BY NextCopy
<1>2. Spec => []ConsentInv
  BY TypeCorrect, InitConsent, NextConsent, PTL DEF Spec
<1> QED BY <1>1, <1>2, TypeCorrect, AnswerKept, InitCopy, PTL DEF Spec

(* Unless the page dies between the two puts of one commit, a command is    *)
(* queued once or listed once, through taps before the store was read, the  *)
(* merge behind it, refusals, commands applied anyway, claims and reloads.  *)
THEOREM EachCommandOnce == NotBetweenPuts => (Spec => []OneCopy)
<1>1. CopyInv => OneCopy
  BY DEF CopyInv
<1> QED BY <1>1, CopiesKept, PTL

-----------------------------------------------------------------------------
(* The strengthening of NothingSilentlyDropped: what the store is owed is   *)
(* accounted for without the memory too, which a reload empties.            *)
KeptInv ==
   /\ NothingSilentlyDropped
   /\ ~torn => owed \subseteq RecordedIds \union decided \union Disk

LEMMA InitKept == Init => KeptInv
BY DEF Init, KeptInv, NothingSilentlyDropped

LEMMA SettledGrows ==
  ASSUME [Next]_vars PROVE RecordedIds \subseteq RecordedIds' /\ decided \subseteq decided'
<1> USE DEF vars, reducerVars, passVars, sendVars, screenVars, diskVars, serverVars
<1>1. recorded \subseteq recorded' /\ decided \subseteq decided'
  <2>1. CASE Person
    <3>1. ASSUME NEW i \in Ids, NEW kind \in Kinds, NEW scope \in Scopes, enqueue(i, kind, scope)
          PROVE  UNCHANGED <<recorded, decided>>
      BY <3>1 DEF enqueue
    <3>2. ASSUME NEW e \in conflicts, discard(e) \/ applyAnyway(e)
          PROVE  recorded' = recorded /\ decided \subseteq decided'
      BY <3>2 DEF discard, applyAnyway
    <3>3. ASSUME NEW c \in queue, claim(c) \/ drop(c)
          PROVE  recorded' = recorded /\ decided \subseteq decided'
      BY <3>3 DEF claim, drop
    <3> QED BY <2>1, <3>1, <3>2, <3>3 DEF Person
  <2>2. CASE Screen
    BY <2>2 DEF Screen, Connection, Lock, SignIn, ReadFloor, Commit
  <2>3. CASE Store
    BY <2>3 DEF Store, saveQueue, saveConflicts, hydrated, Reload
  <2>4. CASE Pass
    BY <2>4 DEF Pass, Locked, PassOver, RefuseHere, SendOut, Finish
  <2>5. CASE Answers
    BY <2>5 DEF Answers, Receive, SendAgain, TurnedAway, GiveUp, liveRace
  <2>6. CASE Server
    BY <2>6 DEF Server, Serve, Refuse, Unauthorized, Elsewhere
  <2>7. CASE UNCHANGED vars
    BY <2>7
  <2> QED BY <2>1, <2>2, <2>3, <2>4, <2>5, <2>6, <2>7 DEF Next
<1> QED BY <1>1 DEF RecordedIds

(* Steps of the memory forget a command only when it is settled. *)
LEMMA MemoryKept ==
  ASSUME TypeOK, CopyInv, KeptInv, [Next]_vars, UNCHANGED storeVars,
         Memory \subseteq Memory' \union RecordedIds \union decided'
  PROVE  KeptInv'
<1>1. UNCHANGED <<ready, owed, torn>> /\ Disk' = Disk
  BY DEF storeVars, Disk
<1>2. RecordedIds \subseteq RecordedIds' /\ decided \subseteq decided'
  BY SettledGrows
<1>3. owed \subseteq RecordedIds \union decided \union Memory \union (IF ready THEN {} ELSE Disk)
  BY DEF KeptInv, NothingSilentlyDropped, Memory, Disk
<1>4. owed' \subseteq RecordedIds' \union decided' \union Memory' \union (IF ready' THEN {} ELSE Disk')
  BY <1>1, <1>2, <1>3
<1>5. NothingSilentlyDropped'
  BY <1>4 DEF NothingSilentlyDropped, Memory, Disk
<1>6. (~torn => owed \subseteq RecordedIds \union decided \union Disk)'
  BY <1>1, <1>2 DEF KeptInv
<1> QED BY <1>5, <1>6 DEF KeptInv

LEMMA StoreKept ==
  ASSUME TypeOK, CopyInv, KeptInv, NotBetweenPuts, Store PROVE KeptInv'
<1> USE DEF reducerVars, diskVars, serverVars
<1>1. owed \subseteq RecordedIds \union decided \union Memory \union (IF ready THEN {} ELSE Disk)
  BY DEF KeptInv, NothingSilentlyDropped, Memory, Disk
<1>2. ASSUME owed' \subseteq RecordedIds' \union decided' \union Memory'
                             \union (IF ready' THEN {} ELSE Disk'),
             ~torn' => owed' \subseteq RecordedIds' \union decided' \union Disk'
      PROVE  KeptInv'
  BY <1>2 DEF KeptInv, NothingSilentlyDropped, Memory, Disk
<1>3. UNCHANGED <<recorded, decided>> /\ RecordedIds' = RecordedIds
  BY DEF Store, saveQueue, saveConflicts, hydrated, Reload, RecordedIds
<1>4. CASE saveQueue
  <2>1. UNCHANGED <<queue, conflicts, ready>> /\ ready /\ diskQueue' = queue
        /\ UNCHANGED diskConflicts /\ torn' = (diskConflicts # conflicts)
        /\ owed' = owed \union IdsOf(queue)
    BY <1>4 DEF saveQueue
  <2>2. Memory' = Memory /\ IdsOf(queue) \subseteq Memory
    BY <2>1 DEF Memory
  <2>3. ~torn' => Disk' = Memory
    BY <2>1 DEF Disk, Memory
  <2> QED BY <1>1, <1>2, <1>3, <2>1, <2>2, <2>3
<1>5. CASE saveConflicts
  <2>1. UNCHANGED <<queue, conflicts, ready, diskQueue, owed>> /\ ready /\ diskQueue = queue
        /\ diskConflicts' = conflicts
    BY <1>5 DEF saveConflicts
  <2>2. Memory' = Memory /\ Disk' = Memory
    BY <2>1 DEF Memory, Disk
  <2> QED BY <1>1, <1>2, <1>3, <2>1, <2>2
<1>6. CASE hydrated
  <2>1. Memory' = Memory \union Disk
    BY <1>6, HydratedOnce
  <2>2. UNCHANGED <<owed, diskQueue, diskConflicts, torn>> /\ ready'
    BY <1>6 DEF hydrated
  <2>3. Disk' = Disk
    BY <2>2 DEF Disk
  <2> QED BY <1>1, <1>2, <1>3, <2>1, <2>2, <2>3 DEF KeptInv
<1>7. CASE Reload
  <2>1. UNCHANGED <<owed, diskQueue, diskConflicts, torn>> /\ ~torn /\ ready' = FALSE
    BY <1>7 DEF Reload, Moment, NotBetweenPuts
  <2>2. Disk' = Disk
    BY <2>1 DEF Disk
  <2> QED BY <1>2, <1>3, <2>1, <2>2 DEF KeptInv
<1> QED BY <1>4, <1>5, <1>6, <1>7 DEF Store

LEMMA NextKept ==
  ASSUME TypeOK, AnswerInv, CopyInv, KeptInv, NotBetweenPuts, [Next]_vars PROVE KeptInv'
<1>1. CASE Shrinks
  BY <1>1, MemoryKept DEF Shrinks
<1>2. CASE Reworks
  <2>1. PICK f : (\A c \in queue : f[c].id = c.id /\ f[c].seq = c.seq) /\ queue' = {f[c] : c \in queue}
    BY <1>2 DEF Reworks, Alike
  <2>2. IdsOf(queue') = IdsOf(queue)
    BY <2>1 DEF IdsOf
  <2>3. Memory' = Memory /\ UNCHANGED storeVars
    BY <1>2, <2>2 DEF Reworks, Memory
  <2> QED BY <2>3, MemoryKept
<1>3. CASE Adds
  <2>1. Memory \subseteq Memory' /\ UNCHANGED storeVars
    BY <1>3 DEF Adds, Memory, IdsOf
  <2> QED BY <2>1, MemoryKept
<1>4. CASE Retries
  <2>1. PICK f : /\ queue' = queue \union {f}
                 /\ conflicts' = {x \in conflicts : x.command.id # f.id}
    BY <1>4 DEF Retries
  <2>2. Memory \subseteq Memory'
    <3>1. IdsOf(queue) \subseteq IdsOf(queue') /\ f.id \in IdsOf(queue')
      BY <2>1 DEF IdsOf
    <3>2. ConflictIds(conflicts) \subseteq ConflictIds(conflicts') \union {f.id}
      BY <2>1 DEF ConflictIds
    <3> QED BY <3>1, <3>2 DEF Memory
  <2> QED BY <1>4, <2>2, MemoryKept DEF Retries
<1>5. CASE Lists
  <2>1. PICK i, why, status : conflicted(i, why, status)
    BY <1>5 DEF Lists
  <2>2. Memory' = Memory
    BY <2>1, ListedOnce DEF CopyInv
  <2> QED BY <1>5, <2>2, MemoryKept DEF Lists
<1> QED BY <1>1, <1>2, <1>3, <1>4, <1>5, StoreKept, StepShape

(* Unless the page dies between the two puts of one commit, every command   *)
(* the store has held is still queued or listed, was recorded by the        *)
(* server, or was settled by a person: through every loss of the            *)
(* connection, an answer, the lock, and any number of reloads.              *)
THEOREM NothingIsDropped == NotBetweenPuts => (Spec => []NothingSilentlyDropped)
<1> SUFFICES ASSUME NotBetweenPuts PROVE Spec => []NothingSilentlyDropped
  OBVIOUS
<1>1. TypeOK /\ AnswerInv /\ CopyInv /\ KeptInv /\ [Next]_vars => KeptInv'
  BY NextKept
<1>2. Spec => []KeptInv
  BY <1>1, TypeCorrect, AnswerKept, CopiesKept, InitKept, PTL DEF Spec
<1>3. KeptInv => NothingSilentlyDropped
  BY DEF KeptInv
<1> QED BY <1>2, <1>3, PTL

-----------------------------------------------------------------------------
(* No reload, and no tap before the store has been read: the numbers of one *)
(* session, which are the only ones that say what was taken first.          *)
Unbroken == CrashAt = {} /\ ~EarlyTaps

(* What is in the queue now was in it before, in the same place, or is      *)
(* younger than all of it.                                                  *)
Follows == \A d \in queue' : nextSeq <= d.seq \/ \E e \in queue : Alike(e, d)

(* Until the store has been read there is nothing to order. *)
EmptyFirst ==
   ~ready => /\ queue = {} /\ conflicts = {} /\ nextSeq = 1
             /\ diskQueue = {} /\ diskConflicts = {}

Dated == /\ \A c \in shown \union todo : c.seq < nextSeq
         /\ \A r \in waiting \union net : r.command.seq < nextSeq

(* What the loop reads may be behind the queue, but has no gap in it.       *)
ShownInOrder ==
   \A c \in shown, d \in queue : d.seq < c.seq => \E e \in shown : Alike(e, d)

(* Whatever the queue holds ahead of a command the pass has still to send   *)
(* will be met first, holds its scope back, is being awaited, or is done.   *)
Excused(c, d) ==
   \/ \E e \in todo : Alike(e, d)
   \/ c.scope \in blocked
   \/ \E r \in waiting : r.command.id = d.id /\ r.command.scope = d.scope
   \/ d.id \in RecordedIds

PassInOrder ==
   \A c \in todo, d \in queue :
      d.scope = c.scope /\ d.id # c.id /\ d.seq < c.seq => Excused(c, d)

(* A request on its way has nothing of its scope unrecorded behind it, and  *)
(* the one awaited may be sent again.                                       *)
NetInOrder ==
   \A r \in waiting \union net, d \in queue :
      d.scope = r.command.scope /\ d.id # r.command.id /\ d.seq < r.command.seq
         => d.id \in RecordedIds

(* The strengthening of NoOvertaking, from the queue by way of what the     *)
(* loop reads and the pass it makes of it to the requests on their way.     *)
OrderInv == EmptyFirst /\ Dated /\ ShownInOrder /\ PassInOrder /\ NetInOrder

LEMMA InitOrder == Init => OrderInv
BY DEF Init, OrderInv, EmptyFirst, Dated, ShownInOrder, PassInOrder, NetInOrder

LEMMA QueueFollows ==
  ASSUME TypeOK, AnswerInv, EmptyFirst, Unbroken, [Next]_vars
  PROVE  EmptyFirst' /\ Follows /\ nextSeq <= nextSeq'
<1> USE DEF storeVars, reducerVars, diskVars
<1>1. nextSeq \in Int /\ nextSeq >= 1
  BY PolicyAssumption DEF TypeOK, PolicyAssumption
<1>2. ASSUME queue' \subseteq queue PROVE Follows
  BY <1>2 DEF Follows, Alike
<1>3. CASE Shrinks
  <2>1. Follows
    BY <1>2, <1>3 DEF Shrinks
  <2> QED BY <1>1, <1>3, <2>1 DEF Shrinks, EmptyFirst
<1>4. CASE Lists
  <2>1. PICK i, why, status : conflicted(i, why, status)
    BY <1>4 DEF Lists
  <2>2. queue' \subseteq queue /\ (queue = {} => conflicts' = conflicts)
    BY <2>1 DEF conflicted, FirstWithId, WithId
  <2>3. Follows
    BY <1>2, <2>2
  <2> QED BY <1>1, <1>4, <2>2, <2>3 DEF Lists, EmptyFirst
<1>5. CASE Reworks
  <2>1. PICK f : (\A c \in queue : Alike(f[c], c)) /\ queue' = {f[c] : c \in queue}
    BY <1>5 DEF Reworks
  <2>2. Follows
    BY <2>1 DEF Follows, Alike
  <2> QED BY <1>1, <1>5, <2>1, <2>2 DEF Reworks, EmptyFirst
<1>6. CASE Adds \/ Retries
  <2>1. PICK f : queue' = queue \union {f} /\ f.seq = nextSeq
    BY <1>6 DEF Adds, Retries
  <2>2. Follows
    BY <1>1, <2>1 DEF Follows, Alike
  <2>3. ready
    BY <1>6 DEF Adds, Retries, Unbroken, EmptyFirst, ConflictIds
  <2>4. nextSeq' = nextSeq + 1 /\ ready' = ready
    BY <1>6 DEF Adds, Retries
  <2> QED BY <1>1, <2>2, <2>3, <2>4 DEF EmptyFirst
<1>7. CASE saveQueue \/ saveConflicts
  <2>1. UNCHANGED <<queue, nextSeq, ready>> /\ ready
    BY <1>7 DEF saveQueue, saveConflicts
  <2> QED BY <1>1, <1>2, <2>1 DEF EmptyFirst
<1>8. CASE hydrated
  <2>1. PICK highest \in 0..MaxSeq, n \in 0..MaxSeq : nextSeq' = highest + n + 1
    BY <1>8 DEF hydrated
  <2>2. PICK place : queue' = diskQueue \union {renumbered(c, place) : c \in takenEarly}
    BY <1>8 DEF hydrated
  <2>3. queue = {} /\ diskQueue = {} /\ nextSeq = 1 /\ ready'
    BY <1>8 DEF hydrated, EmptyFirst
  <2>4. queue' = {}
    BY <2>2, <2>3 DEF takenEarly
  <2>5. nextSeq <= nextSeq'
    BY <2>1, <2>3, PolicyAssumption DEF PolicyAssumption
  <2> QED BY <2>3, <2>4, <2>5 DEF EmptyFirst, Follows
<1>9. CASE Reload
  BY <1>9 DEF Reload, Unbroken
<1> QED BY <1>3, <1>4, <1>5, <1>6, <1>7, <1>8, <1>9, StepShape DEF Store

(* What is sent again is the same command.                                  *)
LEMMA SentAgain ==
  ASSUME TypeOK, NEW r \in waiting, SendAgain(r)
  PROVE  \E q : /\ waiting' = {q} /\ net' = net \union {q} /\ q.command = r.command
<1> DEFINE q == [r EXCEPT !.as = actor, !.retry = TRUE]
<1>1. q.command = r.command
  BY DEF TypeOK, Request
<1>2. waiting' = {q} /\ net' = net \union {q}
  BY DEF SendAgain
<1> HIDE DEF q
<1> QED BY <1>1, <1>2

(* Where the copies of a command a step leaves behind come from.            *)
LEMMA CopiesStep ==
  ASSUME TypeOK, [Next]_vars
  PROVE  /\ shown' = shown \/ (shown' = queue /\ queue' = queue) \/ shown' = {}
         /\ todo' \subseteq todo \union shown \union queue
         /\ \A r \in waiting' : r.command \in todo \/ \E q \in waiting : q.command = r.command
         /\ net' \subseteq net \union waiting'
<1> USE DEF vars, reducerVars, passVars, sendVars, screenVars, diskVars, serverVars
<1> DEFINE Goal == /\ shown' = shown \/ (shown' = queue /\ queue' = queue) \/ shown' = {}
                   /\ todo' \subseteq todo \union shown \union queue
                   /\ \A r \in waiting' : r.command \in todo \/ \E q \in waiting : q.command = r.command
                   /\ net' \subseteq net \union waiting'
<1>1. \A s : sync(s) => todo' \subseteq todo \union s
  BY DEF sync, sendableInOrder
<1>2. CASE Person
  <2>1. ASSUME NEW i \in Ids, NEW kind \in Kinds, NEW scope \in Scopes, enqueue(i, kind, scope)
        PROVE  sync(shown) /\ UNCHANGED <<shown, waiting, net>>
    BY <2>1 DEF enqueue
  <2>2. ASSUME NEW e \in conflicts, discard(e) PROVE UNCHANGED <<todo, shown, waiting, net>>
    BY <2>2 DEF discard
  <2>3. ASSUME NEW e \in conflicts, applyAnyway(e)
        PROVE  sync(shown) /\ UNCHANGED <<shown, waiting, net>>
    BY <2>3 DEF applyAnyway
  <2>4. ASSUME NEW c \in queue, claim(c) PROVE sync(shown) /\ UNCHANGED <<shown, waiting, net>>
    BY <2>4 DEF claim
  <2>5. ASSUME NEW c \in queue, drop(c) PROVE UNCHANGED <<todo, shown, waiting, net>>
    BY <2>5 DEF drop
  <2>6. /\ sync(shown) \/ todo' = todo
        /\ UNCHANGED <<shown, waiting, net>>
    BY <1>2, <2>1, <2>2, <2>3, <2>4, <2>5 DEF Person
  <2> QED BY <1>1, <2>6
<1>3. CASE Screen
  <2>1. CASE Commit
    <3>1. /\ sync(queue) \/ todo' = todo
          /\ shown' = queue /\ UNCHANGED <<queue, waiting, net>>
      BY <2>1 DEF Commit
    <3> QED BY <1>1, <3>1
  <2> QED BY <1>3, <2>1 DEF Screen, Connection, Lock, SignIn, ReadFloor
<1>4. CASE Store
  BY <1>4 DEF Store, saveQueue, saveConflicts, hydrated, Reload
<1>5. CASE Pass
  <2>1. CASE Locked \/ \E c \in todo : PassOver(c) \/ RefuseHere(c)
    BY <2>1 DEF Locked, PassOver, RefuseHere
  <2>2. ASSUME NEW c \in todo, SendOut(c) PROVE Goal
    <3>1. /\ todo' \subseteq todo /\ waiting' = {[command |-> c, as |-> actor, retry |-> FALSE]}
          /\ net' \subseteq net \union waiting' /\ shown' = shown
      BY <2>2 DEF SendOut
    <3> QED BY <3>1
  <2>3. CASE Finish
    BY <2>3 DEF Finish, sendableInOrder
  <2> QED BY <1>5, <2>1, <2>2, <2>3 DEF Pass
<1>6. CASE Answers
  <2>1. ASSUME NEW r \in waiting, SendAgain(r) PROVE Goal
    BY <2>1, SentAgain DEF SendAgain
  <2> QED BY <1>6, <2>1 DEF Answers, Receive, TurnedAway, GiveUp
<1>7. CASE Server
  BY <1>7 DEF Server, Serve, Refuse, Unauthorized, Elsewhere
<1>8. CASE UNCHANGED vars
  BY <1>8
<1> QED BY <1>2, <1>3, <1>4, <1>5, <1>6, <1>7, <1>8 DEF Next

LEMMA SeqsAreNumbers ==
  ASSUME TypeOK
  PROVE  /\ nextSeq \in Int
         /\ \A c \in queue \union shown \union todo : c.seq \in Int
         /\ \A r \in waiting \union net : r.command.seq \in Int
BY PolicyAssumption DEF TypeOK, QueuedCommand, Request, PolicyAssumption

(* What stands ahead of a command that was already numbered stood there.    *)
LEMMA WasAhead ==
  ASSUME TypeOK, TypeOK', Follows, NEW c, c.seq \in Int, c.seq < nextSeq,
         NEW d \in queue', d.seq < c.seq
  PROVE  \E b \in queue : Alike(b, d)
<1>1. d.seq \in Int
  BY PolicyAssumption DEF TypeOK, QueuedCommand, PolicyAssumption
<1> QED BY <1>1, SeqsAreNumbers DEF Follows, Alike

LEMMA NextDated ==
  ASSUME TypeOK, TypeOK', NumberInv, Dated, nextSeq <= nextSeq', [Next]_vars
  PROVE  Dated'
<1>1. nextSeq \in Int /\ nextSeq' \in Int
  BY PolicyAssumption DEF TypeOK, PolicyAssumption
<1>2. \A c \in queue \union shown \union todo : c.seq \in Int /\ c.seq < nextSeq
  BY SeqsAreNumbers DEF Dated, NumberInv, ReplayOrderUnambiguous
<1>3. \A r \in waiting \union net : r.command.seq \in Int /\ r.command.seq < nextSeq
  BY SeqsAreNumbers DEF Dated
<1>4. \A c \in shown' \union todo' : c.seq < nextSeq'
  <2>1. \A c \in shown' \union todo' : c \in queue \union shown \union todo
    BY CopiesStep
  <2> QED BY <1>1, <1>2, <2>1
<1>5. \A r \in waiting' \union net' : r.command.seq < nextSeq'
  <2>1. \A r \in waiting' \union net' :
          r.command \in todo \/ \E q \in waiting \union net : q.command = r.command
    BY CopiesStep
  <2> QED BY <1>1, <1>2, <1>3, <2>1
<1> QED BY <1>4, <1>5 DEF Dated

LEMMA NextShown ==
  ASSUME TypeOK, TypeOK', Dated, ShownInOrder, Follows, [Next]_vars
  PROVE  ShownInOrder'
<1>1. CASE shown' = shown
  <2> SUFFICES ASSUME NEW c \in shown, NEW d \in queue', d.seq < c.seq
               PROVE  \E e \in shown : Alike(e, d)
    BY <1>1 DEF ShownInOrder
  <2>1. c.seq \in Int /\ c.seq < nextSeq
    BY SeqsAreNumbers DEF Dated
  <2>2. PICK b \in queue : Alike(b, d)
    BY <2>1, WasAhead
  <2>3. PICK e \in shown : Alike(e, b)
    BY <2>2 DEF ShownInOrder, Alike
  <2> QED BY <2>2, <2>3 DEF Alike
<1>2. CASE shown' = queue /\ queue' = queue
  BY <1>2 DEF ShownInOrder, Alike
<1>3. CASE shown' = {}
  BY <1>3 DEF ShownInOrder
<1> QED BY <1>1, <1>2, <1>3, CopiesStep

(* A pass that begins begins in order: what stands ahead of a command it    *)
(* may send is not held either.                                             *)
LEMMA FreshPass ==
  ASSUME TypeOK', ShownInOrder', NEW a, todo' = sendableInOrder(shown', a)
  PROVE  PassInOrder'
<1> SUFFICES ASSUME NEW c \in todo', NEW d \in queue', d.scope = c.scope, d.seq < c.seq
             PROVE  \E e \in todo' : Alike(e, d)
  BY DEF PassInOrder, Excused
<1>1. c \in shown' /\ \A h \in shown' : h.scope = c.scope /\ isHeld(h, a) => c.seq < h.seq
  BY DEF sendableInOrder
<1>2. PICK e \in shown' : Alike(e, d)
  BY <1>1 DEF ShownInOrder
<1>3. c.seq \in Int /\ e.seq \in Int /\ \A h \in shown' : h.seq \in Int
  BY <1>1, PolicyAssumption DEF TypeOK, QueuedCommand, PolicyAssumption
<1>4. e.scope = c.scope /\ e.seq < c.seq
  BY <1>2 DEF Alike
<1>5. e \in todo'
  BY <1>1, <1>3, <1>4 DEF sendableInOrder
<1> QED BY <1>2, <1>5

(* While the pass is elsewhere its excuses stand.                           *)
LEMMA PassKept ==
  ASSUME TypeOK, TypeOK', Dated, PassInOrder, Follows, RecordedIds \subseteq RecordedIds',
         todo' = todo, blocked \subseteq blocked',
         \A r \in waiting : \/ \E q \in waiting' : q.command = r.command
                            \/ r.command.scope \in blocked'
                            \/ \A d \in queue' : d.id # r.command.id
  PROVE  PassInOrder'
<1> SUFFICES ASSUME NEW c \in todo, NEW d \in queue', d.scope = c.scope, d.id # c.id,
                    d.seq < c.seq
             PROVE  Excused(c, d)'
  BY DEF PassInOrder, Excused
<1>1. c.seq \in Int /\ c.seq < nextSeq
  BY SeqsAreNumbers DEF Dated
<1>2. PICK b \in queue : Alike(b, d)
  BY <1>1, WasAhead
<1>3. Excused(c, b)
  BY <1>2 DEF PassInOrder, Alike
<1>4. CASE \E r \in waiting : r.command.id = b.id /\ r.command.scope = b.scope
  BY <1>2, <1>4 DEF Excused, Alike
<1> QED BY <1>2, <1>3, <1>4 DEF Excused, Alike

LEMMA SyncPass ==
  ASSUME TypeOK, TypeOK', Dated, PassInOrder, Follows, RecordedIds \subseteq RecordedIds',
         ShownInOrder', NEW s, s = shown', sync(s), waiting' = waiting
  PROVE  PassInOrder'
<1>1. CASE UNCHANGED <<todo, blocked>>
  BY <1>1, PassKept
<1>2. CASE todo' = sendableInOrder(s, actor)
  BY <1>2, FreshPass
<1> QED BY <1>1, <1>2 DEF sync

(* From one await to the next the pass takes the oldest it has left: what   *)
(* it leaves behind is held back with its scope, listed or on its way.      *)
LEMMA SteppedPass ==
  ASSUME TypeOK, PassInOrder, RecordedIds \subseteq RecordedIds', queue' \subseteq queue,
         NEW c0, todo' = todo \ {c0}, blocked \subseteq blocked', waiting \subseteq waiting',
         \/ c0.scope \in blocked'
         \/ \A d \in queue' : d.id # c0.id
         \/ \E r \in waiting' : r.command = c0
  PROVE  PassInOrder'
<1> SUFFICES ASSUME NEW c \in todo', NEW d \in queue', d.scope = c.scope, d.id # c.id,
                    d.seq < c.seq
             PROVE  Excused(c, d)'
  BY DEF PassInOrder, Excused
<1>1. Excused(c, d)
  BY DEF PassInOrder
<1>2. CASE \E e \in todo : Alike(e, d)
  <2>1. PICK e \in todo : Alike(e, d)
    BY <1>2
  <2>2. CASE e = c0
    BY <2>1, <2>2 DEF Excused, Alike
  <2>3. CASE e # c0
    BY <2>1, <2>3 DEF Excused
  <2> QED BY <2>2, <2>3
<1> QED BY <1>1, <1>2 DEF Excused

LEMMA PassPass ==
  ASSUME TypeOK, TypeOK', PassInOrder, ShownInOrder', RecordedIds \subseteq RecordedIds', Pass
  PROVE  PassInOrder'
<1> USE DEF reducerVars, sendVars
<1>1. CASE Locked
  BY <1>1 DEF Locked, PassInOrder
<1>2. ASSUME NEW c \in todo, PassOver(c) PROVE PassInOrder'
  <2>1. /\ UNCHANGED <<queue, waiting>> /\ todo' = todo \ {c}
        /\ blocked' = blocked \union {c.scope}
    BY <1>2 DEF PassOver
  <2> QED BY <2>1, SteppedPass
<1>3. ASSUME NEW c \in todo, RefuseHere(c) PROVE PassInOrder'
  <2>1. /\ UNCHANGED <<blocked, waiting>> /\ todo' = todo \ {c}
        /\ queue' = queue \ WithId(queue, c.id)
    BY <1>3 DEF RefuseHere, conflicted
  <2>2. queue' \subseteq queue /\ \A d \in queue' : d.id # c.id
    BY <2>1 DEF WithId
  <2> QED BY <2>1, <2>2, SteppedPass
<1>4. ASSUME NEW c \in todo, SendOut(c) PROVE PassInOrder'
  <2> DEFINE r == [command |-> c, as |-> actor, retry |-> FALSE]
  <2>1. /\ UNCHANGED <<blocked, queue>> /\ todo' = todo \ {c} /\ waiting = {}
        /\ waiting' = {r}
    BY <1>4 DEF SendOut, NextInPass, Stepping
  <2>2. r.command = c
    OBVIOUS
  <2> HIDE DEF r
  <2> QED BY <2>1, <2>2, SteppedPass
<1>5. CASE Finish
  <2>1. todo' = {} \/ (todo' = sendableInOrder(shown, actor) /\ shown' = shown)
    BY <1>5 DEF Finish
  <2>2. CASE todo' = {}
    BY <2>2 DEF PassInOrder
  <2>3. CASE todo' = sendableInOrder(shown, actor) /\ shown' = shown
    <3>1. todo' = sendableInOrder(shown', actor)
      BY <2>3
    <3> QED BY <3>1, FreshPass
  <2> QED BY <2>1, <2>2, <2>3
<1> QED BY <1>1, <1>2, <1>3, <1>4, <1>5 DEF Pass

LEMMA AnswersPass ==
  ASSUME TypeOK, TypeOK', AnswerInv, Dated, PassInOrder, Follows,
         RecordedIds \subseteq RecordedIds', Answers
  PROVE  PassInOrder'
<1>1. ASSUME NEW r \in waiting, Receive(r) PROVE PassInOrder'
  <2>1. UNCHANGED <<todo, blocked>> /\ queue' = queue \ WithId(queue, r.command.id)
    BY <1>1 DEF Receive, removed, conflicted, liveRace, passVars
  <2>2. \A s \in waiting : \A d \in queue' : d.id # s.command.id
    BY <2>1 DEF AnswerInv, WithId
  <2> QED BY <2>1, <2>2, PassKept
<1>2. ASSUME NEW r \in waiting, GiveUp(r) \/ TurnedAway(r) PROVE PassInOrder'
  <2>1. todo' = todo /\ blocked' = blocked \union {r.command.scope}
    BY <1>2 DEF GiveUp, TurnedAway
  <2>2. \A s \in waiting : s.command.scope \in blocked'
    BY <2>1 DEF AnswerInv
  <2> QED BY <2>1, <2>2, PassKept
<1>3. ASSUME NEW r \in waiting, SendAgain(r) PROVE PassInOrder'
  <2>1. UNCHANGED <<todo, blocked>>
    BY <1>3 DEF SendAgain, passVars
  <2>2. \A s \in waiting : \E q \in waiting' : q.command = s.command
    BY <1>3, SentAgain DEF AnswerInv
  <2> QED BY <2>1, <2>2, PassKept
<1> QED BY <1>1, <1>2, <1>3 DEF Answers

LEMMA NextPass ==
  ASSUME TypeOK, TypeOK', AnswerInv, EmptyFirst, Dated, PassInOrder, Follows, Unbroken,
         ShownInOrder', [Next]_vars
  PROVE  PassInOrder'
<1> USE DEF vars, reducerVars, passVars, sendVars, screenVars, diskVars, serverVars
<1>0. RecordedIds \subseteq RecordedIds'
  BY SettledGrows
<1>1. ASSUME UNCHANGED <<todo, blocked, waiting>> PROVE PassInOrder'
  BY <1>0, <1>1, PassKept
<1>2. ASSUME sync(shown) \/ UNCHANGED passVars, UNCHANGED <<shown, waiting>> PROVE PassInOrder'
  <2>1. CASE sync(shown)
    <3>1. shown = shown' /\ waiting' = waiting
      BY <1>2
    <3> QED BY <1>0, <2>1, <3>1, SyncPass
  <2> QED BY <1>1, <1>2, <2>1
<1>3. CASE Person
  <2>1. ASSUME NEW i \in Ids, NEW kind \in Kinds, NEW scope \in Scopes, enqueue(i, kind, scope)
        PROVE  sync(shown) /\ UNCHANGED <<shown, waiting>>
    BY <2>1 DEF enqueue
  <2>2. ASSUME NEW e \in conflicts, discard(e) PROVE UNCHANGED <<passVars, shown, waiting>>
    BY <2>2 DEF discard
  <2>3. ASSUME NEW e \in conflicts, applyAnyway(e) PROVE sync(shown) /\ UNCHANGED <<shown, waiting>>
    BY <2>3 DEF applyAnyway
  <2>4. ASSUME NEW c \in queue, claim(c) PROVE sync(shown) /\ UNCHANGED <<shown, waiting>>
    BY <2>4 DEF claim
  <2>5. ASSUME NEW c \in queue, drop(c) PROVE UNCHANGED <<passVars, shown, waiting>>
    BY <2>5 DEF drop
  <2>6. (sync(shown) \/ UNCHANGED passVars) /\ UNCHANGED <<shown, waiting>>
    BY <1>3, <2>1, <2>2, <2>3, <2>4, <2>5 DEF Person
  <2> QED BY <1>2, <2>6
<1>4. CASE Commit
  <2>1. (sync(queue) \/ UNCHANGED passVars) /\ shown' = queue /\ waiting' = waiting
    BY <1>4 DEF Commit
  <2>2. CASE sync(queue)
    <3>1. queue = shown' /\ waiting' = waiting
      BY <2>1
    <3> QED BY <1>0, <2>2, <3>1, SyncPass
  <2> QED BY <1>1, <2>1, <2>2
<1>5. CASE Connection \/ Lock \/ (\E p \in Staff : SignIn(p)) \/ ReadFloor
  BY <1>1, <1>5 DEF Connection, Lock, SignIn, ReadFloor
<1>6. CASE Store
  <2>1. ~Reload
    BY DEF Reload, Unbroken
  <2> QED BY <1>1, <1>6, <2>1 DEF Store, saveQueue, saveConflicts, hydrated
<1>7. CASE Pass
  BY <1>0, <1>7, PassPass
<1>8. CASE Answers
  BY <1>0, <1>8, AnswersPass
<1>9. CASE Server
  BY <1>1, <1>9 DEF Server, Serve, Refuse, Unauthorized, Elsewhere
<1>10. CASE UNCHANGED vars
  BY <1>1, <1>10
<1> QED BY <1>3, <1>4, <1>5, <1>6, <1>7, <1>8, <1>9, <1>10 DEF Next, Screen

(* What leaves is the oldest of its scope that is not recorded yet.         *)
LEMMA NextNet ==
  ASSUME TypeOK, TypeOK', Dated, PassInOrder, NetInOrder, Follows, [Next]_vars
  PROVE  NetInOrder'
<1>0. RecordedIds \subseteq RecordedIds'
  BY SettledGrows
<1>1. ASSUME \A r \in waiting' \union net' : \E q \in waiting \union net : q.command = r.command
      PROVE  NetInOrder'
  <2> SUFFICES ASSUME NEW r \in waiting \union net, NEW d \in queue', d.scope = r.command.scope,
                      d.id # r.command.id, d.seq < r.command.seq
               PROVE  d.id \in RecordedIds'
    BY <1>1 DEF NetInOrder
  <2>1. r.command.seq \in Int /\ r.command.seq < nextSeq
    BY SeqsAreNumbers DEF Dated
  <2>2. PICK b \in queue : Alike(b, d)
    BY <2>1, WasAhead
  <2> QED BY <1>0, <2>1, <2>2 DEF NetInOrder, Alike
<1>2. ASSUME NEW c \in todo, SendOut(c) PROVE NetInOrder'
  <2> DEFINE r == [command |-> c, as |-> actor, retry |-> FALSE]
  <2>1. /\ queue' = queue /\ waiting' = {r} /\ net' \subseteq net \union {r} /\ waiting = {}
        /\ c.scope \notin blocked /\ \A e \in todo : c.seq <= e.seq
    BY <1>2 DEF SendOut, NextInPass, Stepping, MayLeave, reducerVars
  <2>2. \A d \in queue : d.scope = c.scope /\ d.id # c.id /\ d.seq < c.seq => d.id \in RecordedIds
    <3> SUFFICES ASSUME NEW d \in queue, d.scope = c.scope, d.id # c.id, d.seq < c.seq
                 PROVE  d.id \in RecordedIds
      OBVIOUS
    <3>1. c.seq \in Int /\ d.seq \in Int
      BY SeqsAreNumbers
    <3>2. ~ \E e \in todo : Alike(e, d)
      BY <2>1, <3>1 DEF Alike
    <3> QED BY <2>1, <3>2 DEF PassInOrder, Excused
  <2>3. r.command = c
    OBVIOUS
  <2> HIDE DEF r
  <2> QED BY <1>0, <2>1, <2>2, <2>3 DEF NetInOrder
<1>3. \/ waiting' \subseteq waiting /\ net' \subseteq net
      \/ \E c \in todo : SendOut(c)
      \/ \E r \in waiting : SendAgain(r)
  <2> USE DEF vars, reducerVars, passVars, sendVars, screenVars, diskVars, serverVars
  <2>1. CASE Person
    <3>1. \A i \in Ids, kind \in Kinds, scope \in Scopes : enqueue(i, kind, scope) => UNCHANGED <<waiting, net>>
      BY DEF enqueue
    <3>2. \A e \in conflicts : discard(e) \/ applyAnyway(e) => UNCHANGED <<waiting, net>>
      BY DEF discard, applyAnyway
    <3>3. \A c \in queue : claim(c) \/ drop(c) => UNCHANGED <<waiting, net>>
      BY DEF claim, drop
    <3> QED BY <2>1, <3>1, <3>2, <3>3 DEF Person
  <2>2. CASE Screen
    BY <2>2 DEF Screen, Connection, Lock, SignIn, ReadFloor, Commit
  <2>3. CASE Store
    BY <2>3 DEF Store, saveQueue, saveConflicts, hydrated, Reload
  <2>4. CASE Pass
    BY <2>4 DEF Pass, Locked, PassOver, RefuseHere, Finish
  <2>5. CASE Answers
    BY <2>5 DEF Answers, Receive, TurnedAway, GiveUp
  <2>6. CASE Server
    BY <2>6 DEF Server, Serve, Refuse, Unauthorized, Elsewhere
  <2>7. CASE UNCHANGED vars
    BY <2>7
  <2> QED BY <2>1, <2>2, <2>3, <2>4, <2>5, <2>6, <2>7 DEF Next
<1>4. ASSUME NEW r \in waiting, SendAgain(r) PROVE NetInOrder'
  <2>1. \A p \in waiting' \union net' : p.command = r.command \/ p \in net
    BY <1>4, SentAgain
  <2> QED BY <1>1, <2>1
<1> QED BY <1>1, <1>2, <1>3, <1>4

LEMMA NextOrder ==
  ASSUME TypeOK, TypeOK', AnswerInv, NumberInv, OrderInv, Unbroken, [Next]_vars
  PROVE  OrderInv'
<1>1. EmptyFirst' /\ Follows /\ nextSeq <= nextSeq'
  BY QueueFollows DEF OrderInv
<1>2. Dated'
  BY <1>1, NextDated DEF OrderInv
<1>3. ShownInOrder'
  BY <1>1, NextShown DEF OrderInv
<1>4. PassInOrder'
  BY <1>1, <1>3, NextPass DEF OrderInv
<1>5. NetInOrder'
  BY <1>1, NextNet DEF OrderInv
<1> QED BY <1>1, <1>2, <1>3, <1>4, <1>5 DEF OrderInv

(* Within one session of the page the server never records a command while  *)
(* one taken before it on the same table or tab waits unrecorded: whatever  *)
(* is refused, listed, claimed, dropped, applied anyway or given up, and    *)
(* whoever signs in between.  No request is even on its way before that.    *)
THEOREM OrderIsKept == Unbroken => (Spec => NoOvertaking)
<1> SUFFICES ASSUME Unbroken PROVE Spec => NoOvertaking
  OBVIOUS
<1>1. TypeOK /\ TypeOK' /\ AnswerInv /\ NumberInv /\ OrderInv /\ [Next]_vars => OrderInv'
  BY NextOrder
<1>2. TypeOK /\ AnswerInv /\ NumberInv /\ [Next]_vars => NumberInv'
  BY NextNumber
<1>3. Spec => []OrderInv
  BY <1>1, <1>2, TypeCorrect, AnswerKept, InitNumber, InitOrder, PTL DEF Spec
<1>4. OrderInv => \A r \in net : RecordedNow(r) => IdsOf(Ahead(r.command)) \subseteq RecordedIds
  <2> SUFFICES ASSUME OrderInv, NEW r \in net, NEW d \in Ahead(r.command)
               PROVE  d.id \in RecordedIds
    BY DEF IdsOf
  <2>1. /\ d \in queue /\ d.scope = r.command.scope /\ d.id # r.command.id
        /\ d.seq < r.command.seq
    BY DEF Ahead, OrderInv, EmptyFirst
  <2> QED BY <2>1 DEF OrderInv, NetInOrder
<1> QED BY <1>3, <1>4, PTL DEF NoOvertaking
=============================================================================
