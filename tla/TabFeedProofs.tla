--------------------------- MODULE TabFeedProofs ---------------------------
(***************************************************************************)
(* The live bill of TabFeed keeps the promise of FollowedBill, for any     *)
(* number of events, pages, polls and troubles.  The step that could break *)
(* it is a run of the queue telling its callers: the invariant below says  *)
(* why, when the run's read is in, the bill holds what they announce.      *)
(***************************************************************************)
EXTENDS TabFeed, TLAPS

(* Nothing refers to an event that has not happened, and a poll reads on    *)
(* from where it began.                                                     *)
WithinLog ==
   /\ bill <= Len(log) /\ cursor <= Len(log) /\ sequence <= Len(log)
   /\ \A since \in read : since <= Len(log)
   /\ \A n \in mode : n <= Len(log)
   /\ \A p \in poll : p.start <= p.after /\ p.after <= p.since /\ p.since <= Len(log)

(* Before there is a bill the stream reads no events.                       *)
BillFirst ==
   bill = NoBill => /\ ~known /\ poll = {}
                    /\ \A marks \in waiting \union batch : marks = {}

(* Markers wait for events the fold has passed.                             *)
MarksPassed == \A marks \in waiting \union batch : \A i \in marks : i <= cursor

(* The read a run waits for left after everything its callers announce, and *)
(* once it is in the bill holds it, unless it failed or went back.          *)
RunCarries ==
   /\ due => \A since \in read : \A marks \in batch : \A i \in marks : i <= since
   /\ ~due /\ ~failed /\ ~back => \A marks \in batch : \A i \in marks : i <= bill

Flags ==
   /\ failed \in BOOLEAN /\ known \in BOOLEAN /\ due \in BOOLEAN
   /\ connected \in BOOLEAN /\ back \in BOOLEAN

FeedInv == TypeOK /\ WithinLog /\ BillFirst /\ MarksPassed /\ RunCarries

-----------------------------------------------------------------------------
(* Each step keeps the parts of the invariant.  What an action leaves alone *)
(* it keeps, so each has its own lemma.                                     *)

LEMMA InitInv == Init => FeedInv
<1> SUFFICES ASSUME Init PROVE FeedInv
  OBVIOUS
<1>1. /\ MaxEvents \in Nat /\ 1 <= MaxEvents /\ MaxTroubles \in Nat
      /\ 0 \in Positions /\ 0 \in 0..MaxTroubles
  BY FeedAssumption DEF Positions
<1>2. log \in Seq(Kinds) /\ Len(log) \in 0..1
  <2>1. CASE log = <<>>
    BY <2>1
  <2>2. CASE log = <<"other">>
    BY <2>2 DEF Kinds
  <2> QED BY <2>1, <2>2 DEF Init
<1>3. Len(log) <= MaxEvents /\ Len(log) \in Positions
  BY <1>1, <1>2 DEF Positions
<1>4. Flags
  <2>1. (cursor > 0) \in BOOLEAN
    OBVIOUS
  <2> QED BY <2>1, Zenon DEF Init, Flags
<1>5. CASE bill = NoBill
  <2>1. /\ bill = -1 /\ cursor = 0 /\ sequence = 0 /\ ~(cursor > 0) /\ seeded = -1
        /\ read = {Len(log)} /\ bill \in -1..MaxEvents
    BY <1>1, <1>5 DEF Init, NoBill, AtLeast
  <2>2. ~known
    BY <2>1, Zenon DEF Init
  <2>3. TypeOK
    BY <1>1, <1>2, <1>3, <1>4, <2>1 DEF Init, Flags, TypeOK, NoBill
  <2> QED BY <1>1, <1>2, <2>1, <2>2, <2>3
          DEF FeedInv, Init, WithinLog, BillFirst, MarksPassed, RunCarries
<1>6. CASE bill = Len(log)
  <2>1. /\ cursor = bill /\ sequence = bill /\ seeded = bill
        /\ read = {} /\ bill \in 0..MaxEvents /\ bill \in -1..MaxEvents /\ bill # -1
    BY <1>1, <1>2, <1>3, <1>6 DEF Init, NoBill, AtLeast
  <2>2. TypeOK
    BY <1>1, <1>2, <1>3, <1>4, <1>6, <2>1 DEF Init, Flags, TypeOK, NoBill
  <2> QED BY <1>1, <1>2, <1>3, <1>6, <2>1, <2>2
          DEF FeedInv, Init, WithinLog, BillFirst, MarksPassed, RunCarries, NoBill
<1> QED BY <1>5, <1>6 DEF Init

USE DEF NoBill

LEMMA HappenInv == FeedInv /\ Happen => FeedInv'
<1> SUFFICES ASSUME FeedInv, Happen PROVE FeedInv'
  OBVIOUS
<1> USE DEF billVars, feedVars, queueVars
<1>1. log' \in Seq(Kinds) /\ Len(log') = Len(log) + 1 /\ Len(log') <= MaxEvents
  BY FeedAssumption DEF FeedInv, TypeOK, Happen, FeedAssumption
<1>2. TypeOK'
  BY <1>1 DEF FeedInv, TypeOK, Happen
<1>3. WithinLog'
  BY <1>1 DEF FeedInv, TypeOK, WithinLog, Happen, Positions
<1>4. (BillFirst /\ MarksPassed /\ RunCarries)'
  BY DEF FeedInv, Happen, BillFirst, MarksPassed, RunCarries
<1> QED BY <1>2, <1>3, <1>4 DEF FeedInv

LEMMA FallsBehindType == \A n : FallsBehind(n) \in BOOLEAN
BY DEF FallsBehind

(* A bill put up while no read is awaited still holds what waits to be      *)
(* announced, or is marked as gone back.                                    *)
LEMMA ShowsCarries ==
  ASSUME FeedInv, NEW n \in 0..Len(log), Shows(n), ~due
  PROVE  ~back' => \A marks \in batch : \A i \in marks : i <= n
<1> SUFFICES ASSUME ~FallsBehind(n), NEW marks \in batch, NEW i \in marks
             PROVE  i <= n
  BY DEF Shows
<1>1. i \in Nat /\ i <= cursor /\ cursor \in Nat /\ sequence \in Nat /\ bill \in Int
  BY DEF FeedInv, TypeOK, MarksPassed, Events, Positions, NoBill
<1>2. CASE failed \/ back
  BY <1>1, <1>2 DEF FallsBehind, Passed
<1>3. CASE ~failed /\ ~back
  BY <1>1, <1>3 DEF FallsBehind, FeedInv, RunCarries
<1> QED BY <1>2, <1>3

LEMMA ReadLandsInv == FeedInv /\ ReadLands => FeedInv'
<1> SUFFICES ASSUME FeedInv, ReadLands PROVE FeedInv'
  OBVIOUS
<1> USE DEF billVars, feedVars, queueVars
<1>0. PICK since \in read : \E n \in since..Len(log) : Shows(n)
  BY DEF ReadLands
<1>1. PICK n \in since..Len(log) : Shows(n)
  BY <1>0
<1>2. since \in 0..Len(log) /\ n \in 0..Len(log) /\ since <= n
  BY <1>1 DEF FeedInv, TypeOK, WithinLog, Positions
<1>3. Flags'
  BY <1>1, FallsBehindType, Zenon DEF FeedInv, TypeOK, Flags, ReadLands, Shows
<1>4. TypeOK'
  BY <1>1, <1>2, <1>3, FeedAssumption DEF FeedInv, TypeOK, Flags, ReadLands, Shows
<1>5. WithinLog' /\ BillFirst' /\ MarksPassed'
  BY <1>1, <1>2 DEF FeedInv, WithinLog, BillFirst, MarksPassed, ReadLands, Shows
<1>6. RunCarries'
  <2>1. CASE due
    BY <1>1, <1>2, <2>1
       DEF FeedInv, TypeOK, WithinLog, RunCarries, ReadLands, Shows, Events, Positions
  <2>2. CASE ~due
    BY <1>1, <1>2, <2>2, ShowsCarries DEF FeedInv, TypeOK, RunCarries, ReadLands, Shows
  <2> QED BY <2>1, <2>2
<1> QED BY <1>4, <1>5, <1>6 DEF FeedInv

LEMMA ReadFailsInv == FeedInv /\ ReadFails => FeedInv'
<1> SUFFICES ASSUME FeedInv, ReadFails PROVE FeedInv'
  OBVIOUS
<1> USE DEF billVars, feedVars, queueVars
<1>1. Flags'
  BY Zenon DEF FeedInv, TypeOK, Flags, ReadFails
<1>2. TypeOK'
  BY <1>1, FeedAssumption DEF FeedInv, TypeOK, Flags, ReadFails, Trouble
<1>3. WithinLog' /\ BillFirst' /\ MarksPassed' /\ RunCarries'
  BY DEF FeedInv, WithinLog, BillFirst, MarksPassed, RunCarries, ReadFails
<1> QED BY <1>2, <1>3 DEF FeedInv

(* The read asked again.                                                    *)
ReadOK ==
   /\ read \subseteq Positions /\ \A m, n \in read : m = n
   /\ \A since \in read : since <= Len(log)
   /\ failed \in BOOLEAN

LEMMA InvalidateFacts ==
  ASSUME FeedInv, invalidate, log' = log
  PROVE  /\ ReadOK'
         /\ bill # NoBill => read' = {Len(log)} /\ failed' = failed
<1>1. Len(log) \in Positions
  BY FeedAssumption DEF FeedInv, TypeOK, Positions
<1>2. failed' \in BOOLEAN /\ (bill # NoBill => failed' = failed)
  BY Zenon DEF FeedInv, TypeOK, invalidate
<1>3. ReadOK'
  BY <1>1, <1>2 DEF FeedInv, TypeOK, WithinLog, invalidate, ReadOK
<1> QED BY <1>2, <1>3 DEF invalidate

LEMMA ReadElsewhereInv == FeedInv /\ ReadElsewhere => FeedInv'
<1> SUFFICES ASSUME FeedInv, ReadElsewhere PROVE FeedInv'
  OBVIOUS
<1> USE DEF billVars, feedVars, queueVars
<1>1. ReadOK' /\ (bill # NoBill => read' = {Len(log)} /\ failed' = failed)
  BY InvalidateFacts DEF ReadElsewhere
<1>2. TypeOK'
  BY <1>1, FeedAssumption DEF FeedInv, TypeOK, ReadElsewhere, Trouble, ReadOK
<1>3. WithinLog' /\ BillFirst' /\ MarksPassed'
  BY <1>1 DEF FeedInv, WithinLog, BillFirst, MarksPassed, ReadElsewhere, ReadOK
<1>4. RunCarries'
  <2>1. \A marks \in batch : \A i \in marks : i <= Len(log)
    BY DEF FeedInv, TypeOK, WithinLog, MarksPassed, Events, Positions
  <2>2. CASE bill = NoBill
    BY <2>2 DEF FeedInv, BillFirst, RunCarries, ReadElsewhere
  <2>3. CASE bill # NoBill
    BY <1>1, <2>1, <2>3 DEF FeedInv, RunCarries, ReadElsewhere
  <2> QED BY <2>2, <2>3
<1> QED BY <1>2, <1>3, <1>4 DEF FeedInv

LEMMA ModeInv == FeedInv /\ (SetMode \/ ServeMode) => FeedInv'
<1> USE DEF billVars, feedVars, queueVars
<1>1. ASSUME FeedInv, SetMode PROVE FeedInv'
  <2>1. TypeOK'
    BY <1>1, FeedAssumption DEF FeedInv, TypeOK, SetMode, Trouble, Positions
  <2>2. WithinLog' /\ BillFirst' /\ MarksPassed' /\ RunCarries'
    BY <1>1 DEF FeedInv, TypeOK, WithinLog, BillFirst, MarksPassed, RunCarries, SetMode
  <2> QED BY <2>1, <2>2 DEF FeedInv
<1>2. ASSUME FeedInv, ServeMode PROVE FeedInv'
  <2>1. log' \in Seq(Kinds) /\ Len(log') = Len(log) + 1 /\ Len(log') <= MaxEvents
        /\ Len(log') \in Positions
    BY <1>2, FeedAssumption DEF FeedInv, TypeOK, ServeMode, Kinds, Positions
  <2>2. TypeOK'
    BY <1>2, <2>1 DEF FeedInv, TypeOK, ServeMode
  <2>3. WithinLog'
    BY <1>2, <2>1 DEF FeedInv, TypeOK, WithinLog, ServeMode, Positions
  <2>4. BillFirst' /\ MarksPassed' /\ RunCarries'
    BY <1>2 DEF FeedInv, BillFirst, MarksPassed, RunCarries, ServeMode
  <2> QED BY <2>2, <2>3, <2>4 DEF FeedInv
<1> QED BY <1>1, <1>2

LEMMA ModeAnsweredInv == FeedInv /\ ModeAnswered => FeedInv'
<1> SUFFICES ASSUME FeedInv, ModeAnswered PROVE FeedInv'
  OBVIOUS
<1> USE DEF billVars, feedVars, queueVars
<1>1. PICK n \in mode \ {0} : Shows(n)
  BY DEF ModeAnswered
<1>2. n \in 0..Len(log)
  BY <1>1 DEF FeedInv, TypeOK, WithinLog, Positions
<1>3. Flags'
  BY <1>1, FallsBehindType, Zenon DEF FeedInv, TypeOK, Flags, ModeAnswered, Shows
<1>4. TypeOK'
  BY <1>1, <1>2, <1>3, FeedAssumption DEF FeedInv, TypeOK, Flags, ModeAnswered, Shows
<1>5. WithinLog' /\ BillFirst' /\ MarksPassed'
  BY <1>1, <1>2 DEF FeedInv, WithinLog, BillFirst, MarksPassed, ModeAnswered, Shows
<1>6. RunCarries'
  BY <1>1, <1>2, ShowsCarries DEF FeedInv, RunCarries, ModeAnswered, Shows
<1> QED BY <1>4, <1>5, <1>6 DEF FeedInv

LEMMA ModeFailedInv == FeedInv /\ ModeFailed => FeedInv'
<1> SUFFICES ASSUME FeedInv, ModeFailed PROVE FeedInv'
  OBVIOUS
<1> USE DEF billVars, feedVars, queueVars
<1>1. ReadOK' /\ (bill # NoBill => read' = {Len(log)} /\ failed' = failed)
  BY InvalidateFacts DEF ModeFailed
<1>2. TypeOK'
  BY <1>1, FeedAssumption DEF FeedInv, TypeOK, ModeFailed, ReadOK
<1>3. WithinLog' /\ BillFirst' /\ MarksPassed'
  BY <1>1 DEF FeedInv, WithinLog, BillFirst, MarksPassed, ModeFailed, ReadOK
<1>4. RunCarries'
  <2>1. \A marks \in batch : \A i \in marks : i <= Len(log)
    BY DEF FeedInv, TypeOK, WithinLog, MarksPassed, Events, Positions
  <2>2. CASE bill = NoBill
    BY <2>2 DEF FeedInv, BillFirst, RunCarries, ModeFailed
  <2>3. CASE bill # NoBill
    BY <1>1, <2>1, <2>3 DEF FeedInv, RunCarries, ModeFailed
  <2> QED BY <2>2, <2>3
<1> QED BY <1>2, <1>3, <1>4 DEF FeedInv

-----------------------------------------------------------------------------
(* The queue of reads, for callers with markers of events up to c, on the   *)
(* bill of event b.                                                         *)
CallersOK(callers, c, b) ==
   /\ callers \subseteq SUBSET Events
   /\ \A marks \in callers : \A i \in marks : i <= c
   /\ b = NoBill => \A marks \in callers : marks = {}

LEMMA QueueIsOK ==
  ASSUME FeedInv
  PROVE  /\ CallersOK(waiting, cursor, bill) /\ CallersOK(batch, cursor, bill)
         /\ due \in BOOLEAN /\ ReadOK /\ RunCarries
BY DEF FeedInv, TypeOK, WithinLog, BillFirst, MarksPassed, CallersOK, ReadOK

LEMMA CallersRise ==
  ASSUME NEW callers, NEW c \in Int, NEW d \in Int, c <= d, NEW b,
         CallersOK(callers, c, b)
  PROVE  CallersOK(callers, d, b)
<1> SUFFICES ASSUME NEW marks \in callers, NEW i \in marks PROVE i <= d
  BY DEF CallersOK
<1> QED BY FeedAssumption DEF CallersOK, Events

LEMMA RunOK ==
  ASSUME FeedInv, UNCHANGED <<log, bill, back>>, NEW c \in 0..Len(log),
         NEW callers, CallersOK(callers, c, bill), Run(callers)
  PROVE  /\ CallersOK(batch', c, bill)
         /\ due' \in BOOLEAN /\ ReadOK' /\ RunCarries'
<1>1. batch' = callers /\ due' = TRUE /\ invalidate
  BY DEF Run
<1>2. ReadOK' /\ (bill # NoBill => read' = {Len(log)} /\ failed' = failed)
  BY <1>1, InvalidateFacts
<1>3. \A marks \in callers : \A i \in marks : i <= Len(log)
  BY FeedAssumption DEF CallersOK, Events, FeedInv, TypeOK
<1>4. RunCarries'
  BY <1>1, <1>2, <1>3 DEF RunCarries, CallersOK
<1>5. due' \in BOOLEAN
  BY <1>1, Zenon
<1> QED BY <1>1, <1>2, <1>4, <1>5

LEMMA RequestOK ==
  ASSUME FeedInv, UNCHANGED <<log, bill, back>>, NEW c \in 0..Len(log), cursor <= c,
         NEW marks, CallersOK({marks}, c, bill), request(marks)
  PROVE  /\ CallersOK(waiting', c, bill) /\ CallersOK(batch', c, bill)
         /\ due' \in BOOLEAN /\ ReadOK' /\ RunCarries'
<1>0. cursor \in Int
  BY DEF FeedInv, TypeOK, Positions
<1>1. CallersOK(waiting, c, bill) /\ CallersOK(batch, c, bill)
  BY <1>0, QueueIsOK, CallersRise
<1>2. CASE batch = {}
  <2>1. Run({marks}) /\ waiting' = waiting
    BY <1>2 DEF request
  <2> QED BY <1>1, <2>1, RunOK
<1>3. CASE batch # {}
  <2>1. waiting' = waiting \union {marks} /\ UNCHANGED <<batch, due, read, failed>>
    BY <1>3 DEF request
  <2>2. CallersOK(waiting', c, bill)
    BY <1>1, <2>1 DEF CallersOK
  <2>3. due' \in BOOLEAN /\ ReadOK' /\ RunCarries'
    BY <2>1, QueueIsOK DEF ReadOK, RunCarries
  <2> QED BY <1>1, <2>1, <2>2, <2>3
<1> QED BY <1>2, <1>3

LEMMA NextRunOK ==
  ASSUME FeedInv, UNCHANGED <<log, bill, back>>, nextRun
  PROVE  /\ CallersOK(waiting', cursor, bill) /\ CallersOK(batch', cursor, bill)
         /\ due' \in BOOLEAN /\ ReadOK' /\ RunCarries'
<1>1. CallersOK(waiting, cursor, bill) /\ cursor \in 0..Len(log)
  BY QueueIsOK DEF FeedInv, TypeOK, WithinLog, Positions
<1>2. CASE waiting # {}
  <2>1. Run(waiting) /\ waiting' = {}
    BY <1>2 DEF nextRun
  <2> QED BY <1>1, <2>1, RunOK DEF CallersOK
<1>3. CASE waiting = {}
  <2>1. batch' = {} /\ UNCHANGED <<waiting, due, read, failed>>
    BY <1>3 DEF nextRun
  <2>2. due' \in BOOLEAN /\ ReadOK' /\ RunCarries'
    BY <2>1, QueueIsOK DEF ReadOK, RunCarries
  <2> QED BY <1>1, <2>1, <2>2 DEF CallersOK
<1> QED BY <1>2, <1>3

LEMMA RunSettlesInv == FeedInv /\ RunSettles => FeedInv'
<1> SUFFICES ASSUME FeedInv, RunSettles PROVE FeedInv'
  OBVIOUS
<1> USE DEF billVars, feedVars, queueVars
<1>1. /\ CallersOK(waiting', cursor, bill) /\ CallersOK(batch', cursor, bill)
      /\ due' \in BOOLEAN /\ ReadOK' /\ RunCarries'
  BY NextRunOK DEF RunSettles
<1>2. markers' \subseteq Events
  BY DEF FeedInv, TypeOK, RunSettles
<1>3. Flags'
  BY <1>1, Zenon DEF FeedInv, TypeOK, Flags, ReadOK, RunSettles
<1>4. TypeOK'
  BY <1>1, <1>2, <1>3 DEF FeedInv, TypeOK, Flags, CallersOK, ReadOK, RunSettles
<1>5. WithinLog' /\ BillFirst' /\ MarksPassed'
  BY <1>1 DEF FeedInv, WithinLog, BillFirst, MarksPassed, CallersOK, ReadOK, RunSettles
<1> QED BY <1>1, <1>4, <1>5 DEF FeedInv

LEMMA PollInv == FeedInv /\ Poll => FeedInv'
<1> SUFFICES ASSUME FeedInv, Poll PROVE FeedInv'
  OBVIOUS
<1> USE DEF billVars, feedVars, queueVars
<1>1. Len(log) \in Positions /\ sequence \in Positions /\ cursor \in 0..Len(log)
      /\ 1 \in 1..MaxPages /\ sequence <= Len(log)
  BY FeedAssumption DEF FeedInv, TypeOK, WithinLog, Positions
<1>2. CASE known
  <2>1. /\ poll' = {[start |-> sequence, after |-> sequence, since |-> Len(log), page |-> 1]}
        /\ UNCHANGED <<queueVars, read, failed>>
    BY <1>2 DEF Poll
  <2>2. TypeOK'
    BY <1>1, <2>1 DEF FeedInv, TypeOK, Poll
  <2>3. WithinLog'
    BY <1>1, <2>1 DEF FeedInv, WithinLog, Poll, Positions
  <2>4. BillFirst' /\ MarksPassed' /\ RunCarries'
    BY <1>2, <2>1 DEF FeedInv, BillFirst, MarksPassed, RunCarries, Poll
  <2> QED BY <2>2, <2>3, <2>4 DEF FeedInv
<1>3. CASE ~known
  <2>1. request({}) /\ poll' = poll
    BY <1>3 DEF Poll
  <2>2. CallersOK({{}}, cursor, bill) /\ cursor <= cursor
    BY <1>1 DEF CallersOK
  <2>3. /\ CallersOK(waiting', cursor, bill) /\ CallersOK(batch', cursor, bill)
        /\ due' \in BOOLEAN /\ ReadOK' /\ RunCarries'
    BY <1>1, <2>1, <2>2, RequestOK DEF Poll
  <2>4. TypeOK'
    BY <2>1, <2>3 DEF FeedInv, TypeOK, CallersOK, ReadOK, Poll
  <2>5. WithinLog' /\ BillFirst' /\ MarksPassed'
    BY <2>1, <2>3 DEF FeedInv, WithinLog, BillFirst, MarksPassed, CallersOK, ReadOK, Poll
  <2> QED BY <2>3, <2>4, <2>5 DEF FeedInv
<1> QED BY <1>2, <1>3

(* Folding a page in: the markers it asks for are of events it has passed.  *)
LEMMA ApplyOK ==
  ASSUME FeedInv, UNCHANGED <<log, bill, back>>, bill # NoBill,
         NEW first \in Positions, NEW last \in Positions, first <= last, last <= Len(log),
         applyTabEvents(first, last)
  PROVE  /\ cursor' \in Positions /\ cursor <= cursor' /\ cursor' <= Len(log)
         /\ CallersOK(waiting', cursor', bill) /\ CallersOK(batch', cursor', bill)
         /\ due' \in BOOLEAN /\ ReadOK' /\ RunCarries'
<1>0. /\ cursor \in Positions /\ cursor \in Int /\ last \in Int /\ cursor \in 0..Len(log)
      /\ last \in 0..Len(log)
  BY FeedAssumption DEF FeedInv, TypeOK, WithinLog, Positions
<1>1. ASSUME UNCHANGED <<queueVars, read, failed>>
      PROVE  due' \in BOOLEAN /\ ReadOK' /\ RunCarries'
  BY <1>1, QueueIsOK DEF queueVars, ReadOK, RunCarries
<1>2. CASE first = last
  BY <1>0, <1>1, <1>2, QueueIsOK DEF applyTabEvents, queueVars
<1>3. CASE first # last /\ first # cursor
  <2>1. request({}) /\ cursor' = cursor /\ CallersOK({{}}, cursor, bill)
    BY <1>3 DEF applyTabEvents, CallersOK
  <2>2. cursor <= cursor
    BY <1>0
  <2>3. /\ CallersOK(waiting', cursor, bill) /\ CallersOK(batch', cursor, bill)
        /\ due' \in BOOLEAN /\ ReadOK' /\ RunCarries'
    BY <1>0, <2>1, <2>2, RequestOK
  <2> QED BY <1>0, <2>1, <2>2, <2>3
<1>4. CASE first # last /\ first = cursor
  <2>1. cursor' = last /\ cursor <= last
    BY <1>4 DEF applyTabEvents
  <2>2. CASE Changing(first, last) # {}
    <3>1. request(Announced(first, last))
      BY <1>4, <2>2 DEF applyTabEvents
    <3>2. CallersOK({Announced(first, last)}, last, bill)
      BY FeedAssumption DEF CallersOK, Announced, Events, Positions
    <3> QED BY <1>0, <2>1, <3>1, <3>2, RequestOK
  <2>3. CASE Changing(first, last) = {}
    <3>1. UNCHANGED <<queueVars, read, failed>>
      BY <1>4, <2>3 DEF applyTabEvents
    <3>2. CallersOK(waiting, last, bill) /\ CallersOK(batch, last, bill)
      BY <1>0, <2>1, QueueIsOK, CallersRise
    <3> QED BY <1>0, <1>1, <2>1, <3>1, <3>2 DEF queueVars
  <2> QED BY <2>2, <2>3
<1> QED BY <1>2, <1>3, <1>4

LEMMA PageAnsweredInv == FeedInv /\ PageAnswered => FeedInv'
<1> SUFFICES ASSUME FeedInv, PageAnswered PROVE FeedInv'
  OBVIOUS
<1> USE DEF billVars, feedVars, queueVars
<1>0. PICK p \in poll : \E m \in p.since..Len(log) :
         LET last == AtMost(m, p.after + PageSize)
         IN  IF last < m /\ p.page < MaxPages
             THEN /\ poll' = {[start |-> p.start, after |-> last, since |-> Len(log), page |-> p.page + 1]}
                  /\ UNCHANGED <<feedVars, queueVars, read, failed, connected>>
             ELSE /\ poll' = {} /\ connected' = TRUE
                  /\ applyTabEvents(p.start, last)
                  /\ sequence' = AtLeast(sequence, last) /\ UNCHANGED known
  BY Zenon DEF PageAnswered
<1>1. PICK m \in p.since..Len(log) :
         LET last == AtMost(m, p.after + PageSize)
         IN  IF last < m /\ p.page < MaxPages
             THEN /\ poll' = {[start |-> p.start, after |-> last, since |-> Len(log), page |-> p.page + 1]}
                  /\ UNCHANGED <<feedVars, queueVars, read, failed, connected>>
             ELSE /\ poll' = {} /\ connected' = TRUE
                  /\ applyTabEvents(p.start, last)
                  /\ sequence' = AtLeast(sequence, last) /\ UNCHANGED known
  BY <1>0
<1> DEFINE last == AtMost(m, p.after + PageSize)
<1>2. /\ p \in [start : Positions, after : Positions, since : Positions, page : 1..MaxPages]
      /\ p.start <= p.after /\ p.after <= p.since /\ p.since <= Len(log)
      /\ Len(log) \in Positions /\ sequence \in Positions /\ sequence <= Len(log)
      /\ bill # NoBill
  BY FeedAssumption DEF FeedInv, TypeOK, WithinLog, BillFirst, Positions
<1>3. last \in Positions /\ p.start <= last /\ p.after <= last /\ last <= Len(log)
  BY <1>2, FeedAssumption DEF AtMost, Positions
<1>4. UNCHANGED <<log, bill, mode, seeded, markers, back, troubles>>
  BY DEF PageAnswered
<1>5. CASE last < m /\ p.page < MaxPages
  <2>1. /\ poll' = {[start |-> p.start, after |-> last, since |-> Len(log), page |-> p.page + 1]}
        /\ UNCHANGED <<feedVars, queueVars, read, failed, connected>>
    BY <1>1, <1>5
  <2>3. p.page + 1 \in 1..MaxPages
    BY <1>2, <1>5, FeedAssumption
  <2> HIDE DEF last
  <2>4. TypeOK'
    BY <1>2, <1>3, <1>4, <2>1, <2>3 DEF FeedInv, TypeOK
  <2>5. WithinLog'
    BY <1>2, <1>3, <1>4, <2>1 DEF FeedInv, WithinLog, Positions
  <2>6. BillFirst' /\ MarksPassed' /\ RunCarries'
    BY <1>2, <1>4, <2>1 DEF FeedInv, BillFirst, MarksPassed, RunCarries
  <2> QED BY <2>4, <2>5, <2>6 DEF FeedInv
<1>6. CASE ~(last < m /\ p.page < MaxPages)
  <2>1. /\ poll' = {} /\ connected' = TRUE
        /\ applyTabEvents(p.start, last)
        /\ sequence' = AtLeast(sequence, last) /\ UNCHANGED known
    BY <1>1, <1>6
  <2> HIDE DEF last
  <2>2. /\ cursor' \in Positions /\ cursor <= cursor' /\ cursor' <= Len(log)
        /\ CallersOK(waiting', cursor', bill) /\ CallersOK(batch', cursor', bill)
        /\ due' \in BOOLEAN /\ ReadOK' /\ RunCarries'
    BY <1>2, <1>3, <1>4, <2>1, ApplyOK
  <2>3. sequence' \in Positions /\ sequence' <= Len(log)
    BY <1>2, <1>3, <2>1 DEF AtLeast
  <2>4. connected' \in BOOLEAN
    BY <2>1, Zenon
  <2>5. TypeOK'
    BY <1>4, <2>1, <2>2, <2>3, <2>4 DEF FeedInv, TypeOK, CallersOK, ReadOK
  <2>6. WithinLog' /\ BillFirst' /\ MarksPassed'
    BY <1>2, <1>4, <2>1, <2>2, <2>3
       DEF FeedInv, WithinLog, BillFirst, MarksPassed, CallersOK, ReadOK
  <2> QED BY <2>2, <2>5, <2>6 DEF FeedInv
<1> QED BY <1>5, <1>6

LEMMA PollFailsInv == FeedInv /\ PollFails => FeedInv'
<1> SUFFICES ASSUME FeedInv, PollFails PROVE FeedInv'
  OBVIOUS
<1> USE DEF billVars, feedVars, queueVars
<1>1. Flags'
  BY Zenon DEF FeedInv, TypeOK, Flags, PollFails
<1>2. TypeOK'
  BY <1>1, FeedAssumption DEF FeedInv, TypeOK, Flags, PollFails, Trouble
<1>3. WithinLog' /\ BillFirst' /\ MarksPassed' /\ RunCarries'
  BY DEF FeedInv, WithinLog, BillFirst, MarksPassed, RunCarries, PollFails
<1> QED BY <1>2, <1>3 DEF FeedInv

LEMMA SeedInv == FeedInv /\ Seed => FeedInv'
<1> SUFFICES ASSUME FeedInv, Seed PROVE FeedInv'
  OBVIOUS
<1> USE DEF billVars, feedVars, queueVars
<1>0. bill \in Positions /\ bill <= Len(log) /\ bill # NoBill /\ cursor \in Positions
  BY FeedAssumption DEF FeedInv, TypeOK, WithinLog, Positions, Seed
<1>1. /\ cursor' \in Positions /\ cursor <= cursor' /\ cursor' <= Len(log)
      /\ sequence' \in Positions /\ sequence' <= Len(log)
  BY <1>0 DEF FeedInv, TypeOK, WithinLog, Seed, seed, Positions
<1>2. Flags'
  <2>1. known' \in BOOLEAN
    BY Zenon DEF FeedInv, TypeOK, Seed, seed
  <2> QED BY <2>1, Zenon DEF FeedInv, TypeOK, Flags, Seed
<1>3. TypeOK'
  BY <1>0, <1>1, <1>2, FeedAssumption DEF FeedInv, TypeOK, Flags, Seed, Positions
<1>4. WithinLog' /\ BillFirst'
  BY <1>0, <1>1 DEF FeedInv, WithinLog, BillFirst, Seed
<1>5. MarksPassed'
  BY <1>0, <1>1 DEF FeedInv, TypeOK, MarksPassed, Seed, Positions, Events
<1>6. RunCarries'
  BY DEF FeedInv, RunCarries, Seed
<1> QED BY <1>3, <1>4, <1>5, <1>6 DEF FeedInv

LEMMA MarkersAgeInv == FeedInv /\ MarkersAge => FeedInv'
<1> SUFFICES ASSUME FeedInv, MarkersAge PROVE FeedInv'
  OBVIOUS
<1> USE DEF billVars, feedVars, queueVars
<1>1. TypeOK'
  BY DEF FeedInv, TypeOK, MarkersAge
<1>2. WithinLog' /\ BillFirst' /\ MarksPassed' /\ RunCarries'
  BY DEF FeedInv, WithinLog, BillFirst, MarksPassed, RunCarries, MarkersAge
<1> QED BY <1>1, <1>2 DEF FeedInv

LEMMA ReopenInv == FeedInv /\ Reopen => FeedInv'
<1> SUFFICES ASSUME FeedInv, Reopen PROVE FeedInv'
  OBVIOUS
<1>1. /\ Len(log) \in Positions /\ bill \in -1..MaxEvents /\ bill <= Len(log)
      /\ cursor' \in Positions /\ cursor' <= Len(log)
      /\ bill = NoBill => cursor' = 0
  BY FeedAssumption DEF FeedInv, TypeOK, WithinLog, Reopen, AtLeast, Positions
<1>2. Flags'
  <2>1. (cursor' > 0) \in BOOLEAN
    OBVIOUS
  <2> QED BY <2>1, Zenon DEF FeedInv, TypeOK, Flags, Reopen
<1>3. bill = NoBill => ~known'
  <2>1. bill = NoBill => ~(cursor' > 0)
    BY <1>1
  <2> QED BY <2>1, Zenon DEF Reopen
<1>4. TypeOK'
  BY <1>1, <1>2, FeedAssumption DEF FeedInv, TypeOK, Flags, Reopen, Trouble
<1>5. WithinLog'
  BY <1>1 DEF FeedInv, WithinLog, Reopen
<1>6. BillFirst' /\ MarksPassed' /\ RunCarries'
  BY <1>3 DEF BillFirst, MarksPassed, RunCarries, Reopen
<1> QED BY <1>4, <1>5, <1>6 DEF FeedInv

LEMMA StutterInv == FeedInv /\ UNCHANGED vars => FeedInv'
BY DEF FeedInv, TypeOK, WithinLog, BillFirst, MarksPassed, RunCarries,
       vars, billVars, feedVars, queueVars

LEMMA StepInv == FeedInv /\ [Next]_vars => FeedInv'
BY HappenInv, ReadLandsInv, ReadFailsInv, ReadElsewhereInv, ModeInv, ModeAnsweredInv,
   ModeFailedInv, RunSettlesInv, PollInv, PageAnsweredInv, PollFailsInv, SeedInv,
   MarkersAgeInv, ReopenInv, StutterInv DEF Next

LEMMA Invariance == Spec => []FeedInv
BY InitInv, StepInv, PTL DEF Spec

(* Every variable keeps its type, for any number of events, pages, polls    *)
(* and troubles (tab/tabFeed.ts, tab/refetchQueue.ts).                      *)
THEOREM TypeCorrect == Spec => []TypeOK
<1>1. FeedInv => TypeOK
  BY DEF FeedInv
<1> QED BY <1>1, Invariance, PTL

-----------------------------------------------------------------------------
(* Nothing the feed has passed is lost.  What that needs besides: before    *)
(* there is a bill nothing has been passed, and a run that waits for its    *)
(* read has one.                                                            *)
StartsAtZero == bill = NoBill => cursor = 0 /\ sequence = 0
RunHasRead == due => read # {}

LossInv == StartsAtZero /\ RunHasRead /\ NothingReadIsLost

Covered(n) == n <= bill \/ Owed(n) \/ failed \/ back

LEMMA Positioned ==
  ASSUME FeedInv
  PROVE  /\ Len(log) \in Nat /\ bill \in Int /\ bill <= Len(log)
         /\ Passed \subseteq 0..Len(log) /\ cursor \in Passed /\ sequence \in Passed
         /\ \A since \in read : since \in 0..Len(log)
<1>1. \A p \in poll : p.start \in 0..Len(log)
  BY FeedAssumption DEF FeedInv, TypeOK, WithinLog, Positions
<1> QED BY <1>1, FeedAssumption DEF FeedInv, TypeOK, WithinLog, Positions, Passed

(* A change passed stays covered by a step that leaves the bill alone and   *)
(* owes what was owed.                                                      *)
LEMMA QuietKeeps ==
  ASSUME FeedInv, LossInv, UNCHANGED <<log, bill, back>>,
         failed => failed' \/ bill = NoBill,
         \A n \in 1..Len(log) : Owed(n) => Owed(n)',
         \A k \in Passed' : k \in Passed \/ k \in 0..bill \/ \A n \in Changing(0, k) : Owed(n)'
  PROVE  NothingReadIsLost'
<1> SUFFICES ASSUME NEW k \in Passed', NEW n \in Changing(0, k)
             PROVE  n <= bill \/ Owed(n)' \/ failed' \/ back
  BY DEF NothingReadIsLost, Changing
<1>1. CASE k \in Passed
  <2>1. k \in 0..Len(log) /\ n \in 1..k /\ n \in 1..Len(log)
    BY <1>1, Positioned DEF Changing
  <2>2. bill # NoBill
    BY <1>1, <2>1 DEF LossInv, StartsAtZero, FeedInv, BillFirst, Passed
  <2>3. Covered(n)
    BY <1>1 DEF LossInv, NothingReadIsLost, Covered
  <2> QED BY <2>1, <2>2, <2>3 DEF Covered
<1>2. CASE k \in 0..bill
  BY <1>2, Positioned DEF Changing
<1>3. CASE \A i \in Changing(0, k) : Owed(i)'
  BY <1>3
<1> QED BY <1>1, <1>2, <1>3

(* A bill put up that is short of what was passed, after an error or after  *)
(* an older bill, is marked as gone back.                                   *)
LEMMA ShowsKeeps ==
  ASSUME FeedInv, LossInv, NEW m \in 0..Len(log), Shows(m), UNCHANGED <<log, feedVars, poll>>,
         \A n \in 1..Len(log) : Owed(n) => Owed(n)' \/ n <= m
  PROVE  NothingReadIsLost'
<1> SUFFICES ASSUME NEW k \in Passed, NEW n \in Changing(0, k), ~FallsBehind(m)
             PROVE  n <= m \/ Owed(n)'
  BY DEF NothingReadIsLost, Changing, Shows, Passed, feedVars
<1>1. k \in 0..Len(log) /\ n \in 1..k /\ n \in 1..Len(log) /\ bill <= m
  BY Positioned DEF Changing, FallsBehind
<1>2. Covered(n)
  BY DEF LossInv, NothingReadIsLost, Covered
<1>3. CASE failed \/ back
  BY <1>1, <1>3 DEF FallsBehind
<1>4. CASE n <= bill
  BY <1>1, <1>4, Positioned
<1>5. CASE Owed(n)
  BY <1>1, <1>5
<1> QED BY <1>2, <1>3, <1>4, <1>5 DEF Covered

(* A tab read asked again still brings what was owed.                       *)
LEMMA InvalidateOwes ==
  ASSUME FeedInv, LossInv, invalidate, UNCHANGED <<log, waiting, due>>
  PROVE  /\ \A n \in 1..Len(log) : Owed(n) => Owed(n)'
         /\ due' => read' # {}
<1>1. read' = read \/ read' = {Len(log)}
  BY DEF invalidate
<1> QED BY <1>1, Positioned DEF Owed, LossInv, RunHasRead

LEMMA RunOwes ==
  ASSUME FeedInv, NEW callers, Run(callers), UNCHANGED log, bill # NoBill
  PROVE  (\A n \in 1..Len(log) : Owed(n)') /\ read' # {}
BY Positioned DEF Run, invalidate, Owed

(* A request owes everything that has happened.                             *)
LEMMA RequestOwes ==
  ASSUME FeedInv, LossInv, NEW marks, request(marks), UNCHANGED log, bill # NoBill
  PROVE  (\A n \in 1..Len(log) : Owed(n)') /\ (due' => read' # {})
<1>1. CASE batch = {}
  BY <1>1, RunOwes DEF request
<1>2. CASE batch # {}
  BY <1>2 DEF request, Owed, LossInv, RunHasRead
<1> QED BY <1>1, <1>2

(* Before there is a bill a request keeps the read it joins.                *)
LEMMA EarlyRequest ==
  ASSUME FeedInv, LossInv, NEW marks, request(marks), UNCHANGED log, bill = NoBill
  PROVE  due' => read' # {}
BY DEF request, Run, invalidate, LossInv, RunHasRead

LEMMA InitLoses == Init => LossInv
<1> SUFFICES ASSUME Init PROVE LossInv
  OBVIOUS
<1>1. FeedInv
  BY InitInv
<1>2. cursor = AtLeast(0, bill) /\ sequence = cursor /\ poll = {} /\ due = FALSE
  BY DEF Init
<1>3. bill = NoBill \/ cursor <= bill
  BY <1>1, <1>2, Positioned DEF AtLeast, Init
<1>4. bill = NoBill => cursor = 0
  BY <1>2 DEF AtLeast
<1>5. \A n \in Changing(0, cursor) : n <= bill
  BY <1>1, <1>3, <1>4, Positioned DEF Changing
<1> QED BY <1>2, <1>4, <1>5 DEF LossInv, StartsAtZero, RunHasRead, NothingReadIsLost, Passed

LEMMA HappenLoses ==
  ASSUME FeedInv, LossInv, Happen \/ ServeMode
  PROVE  LossInv'
<1> USE DEF billVars, feedVars, queueVars
<1>1. PICK kind \in Kinds : log' = Append(log, kind)
  BY DEF Happen, ServeMode, Kinds
<1>2. UNCHANGED <<bill, failed, read, cursor, sequence, poll, waiting, due, back>>
  BY DEF Happen, ServeMode
<1>3. \A k \in Passed : Changing(0, k)' = Changing(0, k)
  <2> SUFFICES ASSUME NEW k \in Passed, NEW i \in 1..k
               PROVE  log'[i] = log[i]
    BY DEF Changing
  <2>1. i \in 1..Len(log)
    BY Positioned
  <2> QED BY <1>1, <2>1 DEF FeedInv, TypeOK
<1>4. NothingReadIsLost'
  <2> SUFFICES ASSUME NEW k \in Passed, NEW n \in Changing(0, k)
               PROVE  Covered(n)
    BY <1>2, <1>3 DEF NothingReadIsLost, Passed, Owed, Covered
  <2> QED BY DEF LossInv, NothingReadIsLost, Covered
<1> QED BY <1>2, <1>4 DEF LossInv, StartsAtZero, RunHasRead

LEMMA ReadLandsLoses ==
  ASSUME FeedInv, LossInv, ReadLands
  PROVE  LossInv'
<1> USE DEF billVars, feedVars, queueVars
<1>0. PICK since \in read : \E n \in since..Len(log) : Shows(n)
  BY DEF ReadLands
<1>1. PICK m \in since..Len(log) : Shows(m)
  BY <1>0
<1>2. since \in 0..Len(log) /\ m \in 0..Len(log) /\ since <= m
  BY <1>1, Positioned
<1>3. \A n \in 1..Len(log) : Owed(n) => Owed(n)' \/ n <= m
  <2> SUFFICES ASSUME NEW n \in 1..Len(log), due, NEW other \in read, n <= other
               PROVE  n <= m
    BY DEF Owed, ReadLands
  <2>1. other = since
    BY <1>0 DEF FeedInv, TypeOK
  <2> QED BY <1>2, <2>1
<1>4. NothingReadIsLost'
  BY <1>1, <1>2, <1>3, ShowsKeeps DEF ReadLands
<1>5. StartsAtZero' /\ RunHasRead'
  BY <1>1, <1>2 DEF StartsAtZero, RunHasRead, ReadLands, Shows
<1> QED BY <1>4, <1>5 DEF LossInv

LEMMA ModeAnsweredLoses ==
  ASSUME FeedInv, LossInv, ModeAnswered
  PROVE  LossInv'
<1> USE DEF billVars, feedVars, queueVars
<1>1. PICK m \in mode \ {0} : Shows(m)
  BY DEF ModeAnswered
<1>2. m \in 0..Len(log)
  BY <1>1 DEF FeedInv, TypeOK, WithinLog, Positions
<1>3. NothingReadIsLost'
  BY <1>1, <1>2, ShowsKeeps DEF ModeAnswered, Owed
<1>4. StartsAtZero' /\ RunHasRead'
  BY <1>1, <1>2 DEF LossInv, StartsAtZero, RunHasRead, ModeAnswered, Shows
<1> QED BY <1>3, <1>4 DEF LossInv

LEMMA ReadFailsLoses ==
  ASSUME FeedInv, LossInv, ReadFails
  PROVE  LossInv'
BY DEF LossInv, StartsAtZero, RunHasRead, NothingReadIsLost, ReadFails, feedVars

LEMMA ReadAgainLoses ==
  ASSUME FeedInv, LossInv, ReadElsewhere \/ ModeFailed
  PROVE  LossInv'
<1> USE DEF billVars, feedVars, queueVars
<1>1. invalidate /\ UNCHANGED <<log, bill, cursor, sequence, poll, waiting, due, back>>
  BY DEF ReadElsewhere, ModeFailed
<1>2. Passed' = Passed
  BY <1>1 DEF Passed
<1>3. failed => failed' \/ bill = NoBill
  BY <1>1, Zenon DEF invalidate
<1>4. NothingReadIsLost'
  BY <1>1, <1>2, <1>3, QuietKeeps, InvalidateOwes
<1> QED BY <1>1, <1>4, InvalidateOwes DEF LossInv, StartsAtZero, RunHasRead

LEMMA RunSettlesLoses ==
  ASSUME FeedInv, LossInv, RunSettles
  PROVE  LossInv'
<1> USE DEF billVars, feedVars, queueVars
<1>1. nextRun /\ ~due /\ UNCHANGED <<log, bill, cursor, sequence, poll, back>>
  BY DEF RunSettles
<1>2. Passed' = Passed
  BY <1>1 DEF Passed
<1>3. CASE waiting = {}
  <2>1. UNCHANGED <<waiting, due, read, failed>>
    BY <1>1, <1>3 DEF nextRun
  <2> QED BY <1>1, <1>2, <2>1 DEF LossInv, StartsAtZero, RunHasRead, NothingReadIsLost, Owed, Changing
<1>4. CASE waiting # {}
  <2>1. Run(waiting) /\ invalidate
    BY <1>1, <1>4 DEF nextRun, Run
  <2>2. failed => failed' \/ bill = NoBill
    BY <2>1, Zenon DEF invalidate
  <2>3. read' # {}
    BY <2>1 DEF invalidate
  <2>4. CASE bill # NoBill
    <3>1. \A n \in 1..Len(log) : Owed(n)'
      BY <1>1, <2>1, <2>4, RunOwes
    <3>2. NothingReadIsLost'
      BY <1>1, <1>2, <2>2, <3>1, QuietKeeps
    <3> QED BY <1>1, <2>3, <3>2 DEF LossInv, StartsAtZero, RunHasRead
  <2>5. CASE bill = NoBill
    <3>1. \A k \in Passed : k = 0
      BY <2>5 DEF LossInv, StartsAtZero, FeedInv, BillFirst, Passed
    <3>2. NothingReadIsLost'
      BY <1>2, <3>1 DEF NothingReadIsLost, Changing
    <3> QED BY <1>1, <2>3, <3>2 DEF LossInv, StartsAtZero, RunHasRead
  <2> QED BY <2>4, <2>5
<1> QED BY <1>3, <1>4

LEMMA PollLoses ==
  ASSUME FeedInv, LossInv, Poll
  PROVE  LossInv'
<1> USE DEF billVars, feedVars, queueVars
<1>1. UNCHANGED <<log, bill, cursor, sequence, back>> /\ poll = {}
  BY DEF Poll
<1>2. CASE known
  <2>1. /\ poll' = {[start |-> sequence, after |-> sequence, since |-> Len(log), page |-> 1]}
        /\ UNCHANGED <<waiting, due, read, failed>>
    BY <1>2 DEF Poll
  <2>2. Passed' = Passed
    BY <1>1, <2>1 DEF Passed
  <2> QED BY <1>1, <2>1, <2>2 DEF LossInv, StartsAtZero, RunHasRead, NothingReadIsLost, Owed, Changing
<1>3. CASE ~known
  <2>1. request({}) /\ poll' = {}
    BY <1>1, <1>3 DEF Poll
  <2>2. Passed' = Passed
    BY <1>1, <2>1 DEF Passed
  <2>3. CASE bill # NoBill
    <3>1. (\A n \in 1..Len(log) : Owed(n)') /\ RunHasRead'
      BY <1>1, <2>1, <2>3, RequestOwes DEF RunHasRead
    <3>2. failed => failed' \/ bill = NoBill
      BY <2>1, Zenon DEF request, Run, invalidate
    <3>3. NothingReadIsLost'
      BY <1>1, <2>2, <3>1, <3>2, QuietKeeps
    <3> QED BY <1>1, <3>1, <3>3 DEF LossInv, StartsAtZero
  <2>4. CASE bill = NoBill
    <3>1. \A k \in Passed : k = 0
      BY <2>4 DEF LossInv, StartsAtZero, FeedInv, BillFirst, Passed
    <3>2. NothingReadIsLost'
      BY <2>2, <3>1 DEF NothingReadIsLost, Changing
    <3> QED BY <1>1, <2>1, <2>4, <3>2, EarlyRequest DEF LossInv, StartsAtZero, RunHasRead
  <2> QED BY <2>3, <2>4
<1> QED BY <1>2, <1>3

(* Folding what lies between first and last: what was passed stays covered, *)
(* and what is passed now is owed or changes nothing.                       *)
LEMMA ApplyOwes ==
  ASSUME FeedInv, LossInv, bill # NoBill, UNCHANGED <<log, bill, back>>,
         NEW first \in Passed, NEW last \in 0..Len(log), first <= last,
         applyTabEvents(first, last)
  PROVE  /\ due' => read' # {}
         /\ \A n \in 1..Len(log) : Owed(n) => Owed(n)'
         /\ failed => failed'
         /\ cursor' = cursor \/ cursor' = last
         /\ \A n \in Changing(0, last) : n <= bill \/ Owed(n)' \/ failed' \/ back
<1> USE DEF queueVars
<1>0. \A n \in Changing(0, first) : Covered(n)
  BY DEF LossInv, NothingReadIsLost, Covered
<1>00. first \in 0..Len(log)
  BY Positioned
<1>1. CASE /\ UNCHANGED <<queueVars, read, failed>> /\ cursor' \in {cursor, last}
           /\ Changing(first, last) = {}
  <2>1. \A n \in Changing(0, last) : n \in Changing(0, first)
    BY <1>00, <1>1 DEF Changing
  <2>2. \A n : Owed(n)' <=> Owed(n)
    BY <1>1 DEF Owed
  <2> QED BY <1>0, <1>1, <2>1, <2>2 DEF Covered, LossInv, RunHasRead
<1>2. ASSUME NEW marks, request(marks), cursor' \in {cursor, last}
      PROVE  /\ due' => read' # {}
             /\ \A n \in 1..Len(log) : Owed(n)'
             /\ failed => failed'
             /\ \A n \in Changing(0, last) : Owed(n)'
  <2>1. failed => failed'
    BY <1>2, Zenon DEF request, Run, invalidate
  <2>2. Changing(0, last) \subseteq 1..Len(log)
    BY Positioned DEF Changing
  <2> QED BY <1>2, <2>1, <2>2, RequestOwes
<1>3. CASE first = last
  <2>1. Changing(first, last) = {}
    BY <1>00, <1>3 DEF Changing
  <2> QED BY <1>1, <1>3, <2>1 DEF applyTabEvents
<1>4. CASE first # last /\ first # cursor
  BY <1>2, <1>4 DEF applyTabEvents
<1>5. CASE first # last /\ first = cursor /\ Changing(first, last) # {}
  BY <1>2, <1>5 DEF applyTabEvents
<1>6. CASE first # last /\ first = cursor /\ Changing(first, last) = {}
  BY <1>1, <1>6 DEF applyTabEvents
<1> QED BY <1>3, <1>4, <1>5, <1>6

LEMMA PageAnsweredLoses ==
  ASSUME FeedInv, LossInv, PageAnswered
  PROVE  LossInv'
<1> USE DEF billVars, feedVars, queueVars
<1>0. UNCHANGED <<log, bill, back>>
  BY DEF PageAnswered
<1>1. PICK p \in poll : \E m \in p.since..Len(log) :
         LET last == AtMost(m, p.after + PageSize)
         IN  IF last < m /\ p.page < MaxPages
             THEN /\ poll' = {[start |-> p.start, after |-> last, since |-> Len(log), page |-> p.page + 1]}
                  /\ UNCHANGED <<feedVars, queueVars, read, failed, connected>>
             ELSE /\ poll' = {} /\ connected' = TRUE
                  /\ applyTabEvents(p.start, last)
                  /\ sequence' = AtLeast(sequence, last) /\ UNCHANGED known
  BY Zenon DEF PageAnswered
<1>2. PICK m \in p.since..Len(log) :
         LET last == AtMost(m, p.after + PageSize)
         IN  IF last < m /\ p.page < MaxPages
             THEN /\ poll' = {[start |-> p.start, after |-> last, since |-> Len(log), page |-> p.page + 1]}
                  /\ UNCHANGED <<feedVars, queueVars, read, failed, connected>>
             ELSE /\ poll' = {} /\ connected' = TRUE
                  /\ applyTabEvents(p.start, last)
                  /\ sequence' = AtLeast(sequence, last) /\ UNCHANGED known
  BY <1>1
<1> DEFINE last == AtMost(m, p.after + PageSize)
<1>3. /\ p.start \in Passed /\ p.start \in Nat /\ p.start <= last
      /\ last \in 0..Len(log) /\ bill # NoBill
  <2>1. /\ p \in [start : Positions, after : Positions, since : Positions, page : 1..MaxPages]
        /\ p.start <= p.after /\ p.after <= p.since /\ p.since <= Len(log)
        /\ Len(log) \in Nat /\ bill # NoBill
    BY FeedAssumption DEF FeedInv, TypeOK, WithinLog, BillFirst, Positions
  <2>2. /\ p.start \in Nat /\ p.after \in Nat /\ p.since \in Nat /\ PageSize \in Nat
        /\ m \in Nat /\ p.since <= m /\ m <= Len(log)
    BY <2>1, FeedAssumption DEF Positions
  <2>3. last \in 0..Len(log) /\ p.start <= last
    BY <2>1, <2>2 DEF AtMost
  <2> QED BY <2>1, <2>2, <2>3 DEF Passed, Positions
<1>4. CASE last < m /\ p.page < MaxPages
  <2>1. /\ poll' = {[start |-> p.start, after |-> last, since |-> Len(log), page |-> p.page + 1]}
        /\ UNCHANGED <<cursor, sequence, waiting, due, read, failed>>
    BY <1>2, <1>4
  <2> HIDE DEF last
  <2>2. Passed' \subseteq Passed
    BY <1>3, <2>1 DEF Passed
  <2> QED BY <1>0, <2>1, <2>2 DEF LossInv, StartsAtZero, RunHasRead, NothingReadIsLost, Owed, Changing
<1>5. CASE ~(last < m /\ p.page < MaxPages)
  <2>1. poll' = {} /\ applyTabEvents(p.start, last) /\ sequence' = AtLeast(sequence, last)
    BY <1>2, <1>5
  <2> HIDE DEF last
  <2>2. /\ due' => read' # {}
        /\ \A n \in 1..Len(log) : Owed(n) => Owed(n)'
        /\ failed => failed'
        /\ cursor' = cursor \/ cursor' = last
        /\ \A n \in Changing(0, last) : n <= bill \/ Owed(n)' \/ failed' \/ back
    BY <1>0, <1>3, <2>1, ApplyOwes
  <2>3. \A k \in Passed' : k \in Passed \/ k = last
    BY <2>1, <2>2 DEF Passed, AtLeast
  <2>4. NothingReadIsLost'
    <3> SUFFICES ASSUME NEW k \in Passed', NEW n \in Changing(0, k)
                 PROVE  n <= bill \/ Owed(n)' \/ failed' \/ back
      BY <1>0 DEF NothingReadIsLost, Changing
    <3>1. CASE k \in Passed
      <4>1. n \in 1..Len(log)
        BY <3>1, Positioned DEF Changing
      <4>2. Covered(n)
        BY <3>1 DEF LossInv, NothingReadIsLost, Covered
      <4> QED BY <2>2, <4>1, <4>2 DEF Covered
    <3>2. CASE k = last
      BY <2>2, <3>2
    <3> QED BY <2>3, <3>1, <3>2
  <2> QED BY <1>0, <1>3, <2>2, <2>4 DEF LossInv, StartsAtZero, RunHasRead
<1> QED BY <1>4, <1>5

LEMMA PollFailsLoses ==
  ASSUME FeedInv, LossInv, PollFails
  PROVE  LossInv'
<1> USE DEF billVars, feedVars, queueVars
<1>1. Passed' \subseteq Passed
  BY DEF PollFails, Passed
<1> QED BY <1>1 DEF LossInv, StartsAtZero, RunHasRead, NothingReadIsLost, Owed, Changing, PollFails

LEMMA SeedLoses ==
  ASSUME FeedInv, LossInv, Seed
  PROVE  LossInv'
<1> USE DEF billVars, feedVars, queueVars
<1>1. UNCHANGED <<log, bill, failed, read, waiting, due, poll, back>> /\ bill # NoBill
  BY DEF Seed
<1>2. \A k \in Passed' : k \in Passed \/ k \in 0..bill
  <2>1. bill \in Nat
    BY <1>1 DEF FeedInv, TypeOK
  <2> QED BY <1>1, <2>1 DEF Seed, seed, Passed
<1>3. \A n : Owed(n)' <=> Owed(n)
  BY <1>1 DEF Owed
<1>4. NothingReadIsLost'
  BY <1>1, <1>2, <1>3, QuietKeeps
<1> QED BY <1>1, <1>4 DEF LossInv, StartsAtZero, RunHasRead

LEMMA MarkersAgeLoses ==
  ASSUME FeedInv, LossInv, MarkersAge
  PROVE  LossInv'
BY DEF LossInv, StartsAtZero, RunHasRead, NothingReadIsLost, Owed, Changing, Passed,
       MarkersAge, billVars, feedVars, queueVars

LEMMA ReopenLoses ==
  ASSUME FeedInv, LossInv, Reopen
  PROVE  LossInv'
<1>1. /\ cursor' = AtLeast(0, bill) /\ sequence' = cursor' /\ poll' = {} /\ due' = FALSE
      /\ UNCHANGED <<log, bill>>
  BY DEF Reopen
<1>2. bill \in Int /\ (bill = NoBill => cursor' = 0) /\ (bill # NoBill => cursor' = bill)
  BY <1>1 DEF AtLeast, FeedInv, TypeOK
<1>3. \A k \in Passed' : \A n \in Changing(0, k) : n <= bill
  BY <1>1, <1>2 DEF Passed, Changing
<1> QED BY <1>1, <1>2, <1>3 DEF LossInv, StartsAtZero, RunHasRead, NothingReadIsLost, Changing

LEMMA StepLoses == FeedInv /\ LossInv /\ [Next]_vars => LossInv'
<1>1. ASSUME FeedInv, LossInv, SetMode PROVE LossInv'
  BY <1>1 DEF LossInv, StartsAtZero, RunHasRead, NothingReadIsLost, Owed, Changing, Passed,
              SetMode, billVars, feedVars, queueVars
<1>2. ASSUME FeedInv, LossInv, UNCHANGED vars PROVE LossInv'
  BY <1>2 DEF LossInv, StartsAtZero, RunHasRead, NothingReadIsLost, Owed, Changing, Passed,
              vars, billVars, feedVars, queueVars
<1> QED BY <1>1, <1>2, HappenLoses, ReadLandsLoses, ReadFailsLoses, ReadAgainLoses,
           ModeAnsweredLoses, RunSettlesLoses, PollLoses, PageAnsweredLoses, PollFailsLoses,
           SeedLoses, MarkersAgeLoses, ReopenLoses DEF Next

(* However polls, pages, reads, requests and failures interleave, a change  *)
(* the feed has passed is on the bill or a read that will bring it is owed  *)
(* (tab/tabFeed.ts 74-119; tab/refetchQueue.ts 34-72).                      *)
THEOREM NothingPassedIsLost == Spec => []NothingReadIsLost
<1>1. LossInv => NothingReadIsLost
  BY DEF LossInv
<1> QED BY <1>1, InitLoses, StepLoses, Invariance, PTL DEF Spec

-----------------------------------------------------------------------------
(* The refinement: each step moves the bill on, sets it back openly, tells, *)
(* forgets, settles or shows nothing of itself.                             *)

Settling == mode # {} \/ \E since \in read : since < bill

LEMMA Sizes ==
  ASSUME FeedInv
  PROVE  bill \in Int /\ Len(log) \in Nat /\ bill <= Len(log) /\ read \subseteq Int
BY FeedAssumption DEF FeedInv, TypeOK, WithinLog, Positions

(* Reading again ends a crossing.                                           *)
LEMMA InvalidateSettles == FeedInv /\ invalidate => \A since \in read' : ~(since < bill)
<1> SUFFICES ASSUME FeedInv, invalidate, NEW since \in read' PROVE ~(since < bill)
  OBVIOUS
<1>1. CASE bill = NoBill
  <2>1. since \in Nat
    BY <1>1, FeedAssumption DEF FeedInv, TypeOK, Positions, invalidate
  <2> QED BY <1>1, <2>1
<1>2. CASE bill # NoBill
  BY <1>2, Sizes DEF invalidate
<1> QED BY <1>1, <1>2

LEMMA ShowsMoves ==
  ASSUME FeedInv, NEW n \in 0..Len(log), Shows(n), UNCHANGED <<log, markers>>,
         n < bill => Settling, Settling' => Settling
  PROVE  Promise!MovesOn \/ Promise!SetBack
<1>1. CASE n < bill
  <2>1. back'
    BY <1>1, Zenon DEF Shows, FallsBehind
  <2> QED BY <1>1, <2>1 DEF Shows, Settling, Promise!SetBack
<1>2. CASE ~(n < bill)
  BY <1>2, Sizes DEF Shows, Settling, Promise!MovesOn
<1> QED BY <1>1, <1>2

LEMMA SettlesTells ==
  ASSUME FeedInv, RunSettles
  PROVE  Promise!Tells \/ Promise!IsSettled \/ UNCHANGED Promise!promiseVars
<1>0. nextRun /\ UNCHANGED <<log, bill, mode, back>>
  BY DEF RunSettles
<1>1. UNCHANGED read \/ \A since \in read' : ~(since < bill)
  BY <1>0, InvalidateSettles DEF nextRun, Run
<1>2. CASE failed'
  <2>1. UNCHANGED <<log, bill, mode, back, markers>>
    BY <1>2 DEF RunSettles
  <2>2. CASE UNCHANGED read
    BY <2>1, <2>2 DEF Promise!promiseVars
  <2>3. CASE \A since \in read' : ~(since < bill)
    BY <2>1, <2>3 DEF Promise!promiseVars, Promise!IsSettled
  <2> QED BY <1>1, <2>2, <2>3
<1>3. CASE ~failed'
  <2>1. markers' = markers \union UNION batch /\ ~due
    BY <1>3 DEF RunSettles
  <2>2. ASSUME ~back, NEW marks \in batch, NEW i \in marks
        PROVE  i \in 1..bill
    <3>1. i \in Nat /\ 1 <= i /\ bill \in Int
      BY FeedAssumption DEF FeedInv, TypeOK, Events
    <3>2. ~failed
      <4>1. bill # NoBill
        BY DEF FeedInv, BillFirst
      <4> QED BY <1>0, <1>3, <4>1, Zenon DEF nextRun, Run, invalidate
    <3> QED BY <2>1, <2>2, <3>1, <3>2 DEF FeedInv, RunCarries
  <2>3. Settling' => Settling
    BY <1>0, <1>1 DEF Settling
  <2> QED BY <1>0, <2>1, <2>2, <2>3 DEF Promise!Tells, Settling
<1> QED BY <1>2, <1>3

(* A step that shows the diner nothing, and at most settles what crossed.   *)
LEMMA Unseen ==
  ASSUME UNCHANGED <<log, bill, markers, back>>, Settling' => Settling
  PROVE  Promise!IsSettled \/ UNCHANGED Promise!promiseVars
<1>1. CASE Settling'
  <2>1. (mode # {} \/ \E since \in read : since < bill)' = (mode # {} \/ \E since \in read : since < bill)
    BY <1>1, Zenon DEF Settling
  <2> QED BY <2>1, Zenon DEF Promise!promiseVars
<1>2. CASE ~Settling'
  BY <1>2, Zenon DEF Settling, Promise!IsSettled
<1> QED BY <1>1, <1>2

LEMMA StepKeeps == FeedInv /\ [Next]_vars => [Promise!PromiseNext]_Promise!promiseVars
<1> SUFFICES ASSUME FeedInv, [Next]_vars
             PROVE  Promise!PromiseNext \/ UNCHANGED Promise!promiseVars
  OBVIOUS
<1> USE DEF Promise!PromiseNext
<1>1. CASE Happen \/ ServeMode
  <2>1. \E kind \in Kinds : log' = Append(log, kind)
    BY <1>1 DEF Happen, ServeMode, Kinds
  <2>2. UNCHANGED <<bill, markers, back, read>> /\ (mode' # {} <=> mode # {})
    BY <1>1 DEF Happen, ServeMode, billVars
  <2>3. (mode # {} \/ \E since \in read : since < bill)' = (mode # {} \/ \E since \in read : since < bill)
    BY <2>2, Zenon
  <2> QED BY <2>1, <2>2, <2>3 DEF Promise!Happens
<1>2. CASE ReadLands
  <2>0. PICK since \in read : \E n \in since..Len(log) : Shows(n)
    BY <1>2 DEF ReadLands
  <2>1. PICK n \in since..Len(log) : Shows(n)
    BY <2>0
  <2>2. n \in 0..Len(log) /\ UNCHANGED <<log, markers, mode>> /\ read' = {}
    BY <1>2, <2>1 DEF FeedInv, TypeOK, Positions, ReadLands
  <2>3. (n < bill => Settling) /\ (Settling' => Settling)
    BY <2>0, <2>1, <2>2, Sizes DEF Settling
  <2> QED BY <2>1, <2>2, <2>3, ShowsMoves
<1>3. CASE ModeAnswered
  <2>1. PICK n \in mode \ {0} : Shows(n)
    BY <1>3 DEF ModeAnswered
  <2>2. n \in 0..Len(log) /\ UNCHANGED <<log, markers>>
    BY <1>3, <2>1 DEF FeedInv, TypeOK, WithinLog, Positions, ModeAnswered
  <2>3. Settling
    BY <2>1 DEF Settling
  <2> QED BY <2>1, <2>2, <2>3, ShowsMoves
<1>4. CASE RunSettles
  BY <1>4, SettlesTells
<1>5. CASE MarkersAge
  BY <1>5 DEF MarkersAge, billVars, Promise!Forgets
<1>6. CASE Reopen
  BY <1>6, Sizes DEF Reopen, Promise!Forgets
<1>7. CASE SetMode
  BY <1>7 DEF SetMode, billVars, Promise!AsksToSettle
<1>8. CASE \/ ReadFails \/ ReadElsewhere \/ ModeFailed
           \/ Poll \/ PageAnswered \/ PollFails \/ Seed
  <2>1. UNCHANGED <<log, bill, markers, back>> /\ (mode' = mode \/ mode' = {})
    BY <1>8 DEF ReadFails, ReadElsewhere, ModeFailed, Poll, PageAnswered, PollFails, Seed, billVars
  <2>2. read' = read \/ read' = {} \/ invalidate
    BY <1>8 DEF ReadFails, ReadElsewhere, ModeFailed, Poll, PageAnswered, PollFails, Seed,
                billVars, applyTabEvents, request, Run
  <2>3. Settling' => Settling
    BY <2>1, <2>2, InvalidateSettles DEF Settling
  <2> QED BY <2>1, <2>3, Unseen
<1>9. CASE UNCHANGED vars
  BY <1>9 DEF vars, billVars, Promise!promiseVars
<1> QED BY <1>1, <1>2, <1>3, <1>4, <1>5, <1>6, <1>7, <1>8, <1>9 DEF Next

LEMMA InitKeeps == Init => Promise!PromiseInit
<1> SUFFICES ASSUME Init PROVE Promise!PromiseInit
  OBVIOUS
<1>1. FeedInv /\ bill \in -1..MaxEvents /\ Len(log) \in Nat
  BY InitInv DEF FeedInv, TypeOK
<1>2. bill <= Len(log) /\ log \in Seq(Kinds)
  BY <1>1 DEF FeedInv, TypeOK, WithinLog
<1>3. ~Settling
  BY <1>1 DEF Init, Settling
<1> QED BY <1>1, <1>2, <1>3, FeedAssumption
        DEF Init, Settling, Promise!PromiseInit, Promise!NoBill

(* The live bill implements FollowedBill: it goes back only where a change  *)
(* of the split crosses a read, and announces nothing it does not hold,     *)
(* however pages, reads, requests and failures interleave (tab/tabFeed.ts   *)
(* 74-85; tab/refetchQueue.ts 34-72; data/orderQueries.ts 132-148).         *)
THEOREM ThePromiseIsKept == Spec => KeepsThePromise
<1>1. Spec => Promise!PromiseInit /\ [][Promise!PromiseNext]_Promise!promiseVars
  BY InitKeeps, StepKeeps, Invariance, PTL DEF Spec
<1> QED BY <1>1 DEF KeepsThePromise, Promise!PromiseSpec
=============================================================================
