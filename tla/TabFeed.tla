------------------------------ MODULE TabFeed ------------------------------
(***************************************************************************)
(* The bill on a diner's phone, followed live: the tab's numbered events   *)
(* are polled, a page of them says whether the bill changed, the bill is   *)
(* then read again through a queue that keeps one read in flight and one   *)
(* waiting, and what staff changed is announced once the read is in        *)
(* (apps/diner/src: tab/tabFeed.ts, tab/refetchQueue.ts, tab/events.ts,    *)
(* data/orderQueries.ts; packages/realtime/src/sequenceStream.ts).         *)
(* The server and the query cache are external.  The server answers as of  *)
(* some moment between a request and its answer.                           *)
(***************************************************************************)
EXTENDS Integers, Sequences, FiniteSets

CONSTANTS MaxEvents,   \* what happens on the tab
          PageSize,    \* events to a page
          MaxPages,    \* pages to one poll (MAX_PAGES_PER_POLL)
          MaxTroubles  \* failed requests, reads asked for elsewhere, screens reopened

ASSUME FeedAssumption ==
   /\ MaxEvents \in Nat \ {0} /\ MaxTroubles \in Nat
   /\ PageSize \in Nat \ {0} /\ MaxPages \in Nat \ {0}

VARIABLES
   log,                        \* server: the tab's events so far
   bill,                       \* the event the cached tab read is of
   failed,                     \* did the last tab read end in an error?
   read,                       \* the tab read in flight: the events there were when it left
   mode,                       \* the change of the split in flight: {0}, {n} once it is event n
   cursor, sequence, known,    \* the fold's position; the stream's, and has it one?
   poll,                       \* the poll in flight
   seeded,                     \* the maxSequence the seeding effect last ran for
   waiting, batch, due,        \* the queue's callers, by the markers they hold; is the run's read out?
   markers, connected,         \* what the screen announces, and whether it says it is up to date
   back,                       \* history: an older answer was put over the bill
   troubles

billVars == <<bill, failed, read>>
feedVars == <<cursor, sequence, known>>
queueVars == <<waiting, batch, due>>
vars == <<log, bill, failed, read, mode, cursor, sequence, known, poll, seeded,
          waiting, batch, due, markers, connected, back, troubles>>

(* What happens on a tab: staff ordering, voiding or comping; anything else *)
(* that changes the bill or the roster; a permission, which changes neither.*)
Kinds == {"staff", "other", "permission"}
BILL_CHANGING == {"staff", "other"}
ANNOUNCED == {"staff"}

NoBill == -1
Events == 1..MaxEvents
Positions == 0..MaxEvents

Changing(m, n) == {i \in (m + 1)..n : log[i] \in BILL_CHANGING}
Announced(m, n) == {i \in (m + 1)..n : log[i] \in ANNOUNCED}

AtMost(a, b) == IF a <= b THEN a ELSE b
AtLeast(a, b) == IF a <= b THEN b ELSE a

TypeOK ==
   /\ log \in Seq(Kinds) /\ Len(log) <= MaxEvents
   /\ bill \in NoBill..MaxEvents /\ failed \in BOOLEAN
   /\ read \subseteq Positions /\ \A m, n \in read : m = n
   /\ mode \subseteq Positions /\ \A m, n \in mode : m = n
   /\ cursor \in Positions /\ sequence \in Positions /\ known \in BOOLEAN
   /\ poll \subseteq [start : Positions, after : Positions, since : Positions, page : 1..MaxPages]
   /\ \A p, q \in poll : p = q
   /\ seeded \in NoBill..MaxEvents
   /\ waiting \subseteq SUBSET Events /\ batch \subseteq SUBSET Events /\ due \in BOOLEAN
   /\ markers \subseteq Events /\ connected \in BOOLEAN
   /\ back \in BOOLEAN /\ troubles \in 0..MaxTroubles

Init ==
   /\ log \in {<<>>, <<"other">>} /\ bill \in {NoBill, Len(log)} /\ failed = FALSE
   /\ read = (IF bill = NoBill THEN {Len(log)} ELSE {}) /\ mode = {}
   /\ cursor = AtLeast(0, bill) /\ sequence = cursor /\ known = (cursor > 0)
   /\ poll = {} /\ seeded = bill
   /\ waiting = {} /\ batch = {} /\ due = FALSE
   /\ markers = {} /\ connected = FALSE
   /\ back = FALSE /\ troubles = 0

Trouble == troubles < MaxTroubles /\ troubles' = troubles + 1

(* The server (external).                                                   *)
Happen ==
   /\ Len(log) < MaxEvents
   /\ \E kind \in Kinds : log' = Append(log, kind)
   /\ UNCHANGED <<billVars, mode, feedVars, poll, seeded, queueVars, markers, connected, back, troubles>>

-----------------------------------------------------------------------------
(* The cached tab read.                                                     *)

(* Mutant: the read on its way is left to land beside the new one.          *)
invalidateBeside ==
   read' = read \union {Len(log)} /\ failed' = (failed /\ bill # NoBill)

(* invalidateQueries (external): the read in flight is asked again, unless  *)
(* there is no bill yet, when it is joined; without a bill an error is      *)
(* forgotten as the next read leaves.                                       *)
invalidate ==
   /\ read' = IF read # {} /\ bill = NoBill THEN read ELSE {Len(log)}
   /\ failed' = (failed /\ bill # NoBill)

(* How far the feed has passed: the fold, the stream, and the poll under    *)
(* way, which a fold moved meanwhile may have left ahead of the stream.     *)
Passed == {cursor, sequence} \union {p.start : p \in poll}

(* Has the bill fallen behind, when it becomes that of event n?  It has     *)
(* when it goes back, or stands short of what the feed has passed after an  *)
(* error or an earlier fall.                                                *)
FallsBehind(n) == n < bill \/ ((failed \/ back) /\ \E k \in Passed : n < k)

Shows(n) == bill' = n /\ failed' = FALSE /\ back' = FallsBehind(n)

ReadLands ==
   /\ \E since \in read : \E n \in since..Len(log) : Shows(n)
   /\ read' = {} /\ due' = FALSE
   /\ UNCHANGED <<log, mode, feedVars, poll, seeded, waiting, batch, markers, connected, troubles>>

ReadFails ==
   /\ read # {} /\ Trouble /\ read' = {} /\ failed' = TRUE /\ due' = FALSE
   /\ UNCHANGED <<log, bill, mode, feedVars, poll, seeded, waiting, batch, markers, connected, back>>

(* The tab is read for another reason: an order placed, a name given, a     *)
(* push, the screen come back to.                                           *)
ReadElsewhere ==
   /\ Trouble /\ invalidate
   /\ UNCHANGED <<log, bill, mode, feedVars, poll, seeded, queueVars, markers, connected, back>>

(* useSetSettlementMode: the server's answer is put in the cache as it is;  *)
(* a refusal reads the tab.                                                 *)
SetMode ==
   /\ mode = {} /\ bill # NoBill /\ Trouble /\ mode' = {0}
   /\ UNCHANGED <<log, billVars, feedVars, poll, seeded, queueVars, markers, connected, back>>

ServeMode ==
   /\ mode = {0} /\ Len(log) < MaxEvents
   /\ log' = Append(log, "other") /\ mode' = {Len(log')}
   /\ UNCHANGED <<billVars, feedVars, poll, seeded, queueVars, markers, connected, back, troubles>>

ModeAnswered ==
   /\ \E n \in mode \ {0} : Shows(n)
   /\ mode' = {}
   /\ UNCHANGED <<log, read, feedVars, poll, seeded, queueVars, markers, connected, troubles>>

ModeFailed ==
   /\ mode # {} /\ mode' = {} /\ invalidate
   /\ UNCHANGED <<log, bill, feedVars, poll, seeded, queueVars, markers, connected, back, troubles>>

-----------------------------------------------------------------------------
(* The queue of reads (refetchQueue.ts).                                    *)
Run(callers) == batch' = callers /\ due' = TRUE /\ invalidate

(* Mutant: a request made during a run is answered by that run.             *)
requestJoiningTheRun(marks) ==
   IF batch = {} THEN Run({marks}) /\ UNCHANGED waiting
                 ELSE batch' = batch \union {marks} /\ UNCHANGED <<waiting, due, read, failed>>

(* A request made during a run waits for the next one.                      *)
request(marks) ==
   IF batch = {} THEN Run({marks}) /\ UNCHANGED waiting
                 ELSE waiting' = waiting \union {marks} /\ UNCHANGED <<batch, due, read, failed>>

(* Mutant: what waited for a run is not run when it ends.                   *)
nextRunForgotten == batch' = {} /\ UNCHANGED <<waiting, due, read, failed>>

(* The run after one that has ended: for everyone who asked during it.      *)
nextRun ==
   IF waiting # {} THEN Run(waiting) /\ waiting' = {}
                   ELSE batch' = {} /\ UNCHANGED <<waiting, due, read, failed>>

(* Mutant: what a run was for is announced though its read failed.          *)
AnnouncedAnyway ==
   /\ batch # {} /\ ~due
   /\ nextRun
   /\ markers' = markers \union UNION batch /\ UNCHANGED connected
   /\ UNCHANGED <<log, bill, mode, feedVars, poll, seeded, back, troubles>>

(* The run ends some time after its tab read has, with the read of the      *)
(* shares; its callers look at how the tab read stands now.                 *)
RunSettles ==
   /\ batch # {} /\ ~due
   /\ nextRun
   /\ IF failed' THEN connected' = FALSE /\ UNCHANGED markers
                 ELSE markers' = markers \union UNION batch /\ UNCHANGED connected
   /\ UNCHANGED <<log, bill, mode, feedVars, poll, seeded, back, troubles>>

-----------------------------------------------------------------------------
(* The feed (tabFeed.ts, sequenceStream.ts).                                *)

(* The timer, or the screen's first poll.                                   *)
Poll ==
   /\ poll = {}
   /\ IF known
      THEN /\ poll' = {[start |-> sequence, after |-> sequence, since |-> Len(log), page |-> 1]}
           /\ UNCHANGED <<queueVars, read, failed>>
      ELSE request({}) /\ UNCHANGED poll
   /\ UNCHANGED <<log, bill, mode, feedVars, seeded, markers, connected, back, troubles>>

(* Mutant: a page that does not follow on is folded in all the same.        *)
applyWithoutGaps(first, last) ==
   /\ cursor' = last
   /\ IF first = cursor /\ Changing(first, last) # {} THEN request(Announced(first, last))
                                  ELSE UNCHANGED <<queueVars, read, failed>>

(* The events after one and up to another.  A page that does not begin      *)
(* where the fold stands moves nothing and reads the bill.                  *)
applyTabEvents(first, last) ==
   IF first = last
   THEN UNCHANGED <<cursor, queueVars, read, failed>>
   ELSE IF first # cursor
   THEN request({}) /\ UNCHANGED cursor
   ELSE /\ cursor' = last
        /\ IF Changing(first, last) # {} THEN request(Announced(first, last))
                                         ELSE UNCHANGED <<queueVars, read, failed>>

(* One page of the poll.  It reads on while there is more, up to MaxPages.  *)
PageAnswered ==
   /\ \E p \in poll : \E m \in p.since..Len(log) :
         LET last == AtMost(m, p.after + PageSize)
         IN  IF last < m /\ p.page < MaxPages
             THEN /\ poll' = {[start |-> p.start, after |-> last, since |-> Len(log), page |-> p.page + 1]}
                  /\ UNCHANGED <<feedVars, queueVars, read, failed, connected>>
             ELSE /\ poll' = {} /\ connected' = TRUE
                  /\ applyTabEvents(p.start, last)
                  /\ sequence' = AtLeast(sequence, last) /\ UNCHANGED known
   /\ UNCHANGED <<log, bill, mode, seeded, markers, back, troubles>>

PollFails ==
   /\ poll # {} /\ Trouble /\ poll' = {} /\ connected' = FALSE
   /\ UNCHANGED <<log, billVars, mode, feedVars, seeded, queueVars, markers, back>>

seed(n) ==
   IF n <= cursor THEN UNCHANGED feedVars
                  ELSE cursor' = n /\ sequence' = n /\ known' = TRUE

(* The effect that runs when the bill's maxSequence has changed.            *)
Seed ==
   /\ bill # NoBill /\ bill # seeded
   /\ seeded' = bill /\ seed(bill)
   /\ UNCHANGED <<log, billVars, mode, poll, queueVars, markers, connected, back, troubles>>

(* MARKER_LIFETIME_MS after they arrived.                                   *)
MarkersAge ==
   /\ markers # {} /\ markers' = {}
   /\ UNCHANGED <<log, billVars, mode, feedVars, poll, seeded, queueVars, connected, back, troubles>>

(* The bill left and come back to: a new feed, seeded from the cache; the   *)
(* read it finds old is asked again.                                        *)
Reopen ==
   /\ Trouble
   /\ cursor' = AtLeast(0, bill) /\ sequence' = cursor' /\ known' = (cursor' > 0)
   /\ poll' = {} /\ seeded' = bill
   /\ waiting' = {} /\ batch' = {} /\ due' = FALSE
   /\ markers' = {} /\ connected' = FALSE /\ back' = FALSE
   /\ read' = IF read = {} THEN {Len(log)} ELSE read
   /\ failed' = (failed /\ bill # NoBill)
   /\ UNCHANGED <<log, bill, mode>>

-----------------------------------------------------------------------------
Next ==
   \/ Happen \/ ReadLands \/ ReadFails \/ ReadElsewhere
   \/ SetMode \/ ServeMode \/ ModeAnswered \/ ModeFailed
   \/ RunSettles \/ Poll \/ PageAnswered \/ PollFails \/ Seed \/ MarkersAge \/ Reopen

Spec == Init /\ [][Next]_vars

(* The timer ticks, effects run after a render, and every request is        *)
(* answered or fails: the query layer and the client give up by a timeout.  *)
Fairness ==
   /\ WF_vars(Poll) /\ WF_vars(PageAnswered) /\ WF_vars(ReadLands)
   /\ WF_vars(RunSettles) /\ WF_vars(Seed)

LiveSpec == Spec /\ Fairness

-----------------------------------------------------------------------------
(* A read that will bring event n is owed: somebody waits for a run, or the *)
(* read the run waits for left after n.                                     *)
Owed(n) == waiting # {} \/ (due /\ \E since \in read : n <= since)

(* Nothing the feed has passed is lost: every change it has folded in or    *)
(* jumped over is on the bill, or a read that will bring it is owed, unless *)
(* the bill's last read failed or an older answer was put over it           *)
(* (tabFeed.ts 74-85; refetchQueue.ts 10-15; events.ts 160-164).            *)
NothingReadIsLost ==
   \A k \in Passed : \A n \in Changing(0, k) : n <= bill \/ Owed(n) \/ failed \/ back

(* The bill is what FollowedBill promises: it never goes back to an earlier *)
(* state of the tab and announces nothing it does not hold, however pages,  *)
(* reads and requests interleave, but for an answer of the settlement       *)
(* change that crosses a read (orderQueries.ts 138-140).                    *)
Promise == INSTANCE FollowedBill
           WITH settling <- mode # {} \/ \E since \in read : since < bill
KeepsThePromise == Promise!PromiseSpec

(* Whatever changes the bill reaches the screen, also without anybody       *)
(* touching it, unless a read fails or an older answer is put over it       *)
(* (refetchQueue.ts 10-15: never "one order out of date until something     *)
(* else happened to move it").                                              *)
CatchesUp ==
   \A n \in Events :
      (n <= Len(log) /\ log[n] \in BILL_CHANGING) ~> (n <= bill \/ failed \/ back)
=============================================================================
