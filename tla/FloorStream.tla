---------------------------- MODULE FloorStream ----------------------------
(***************************************************************************)
(* The floor on a staff tablet: read whole, then kept up by a polled       *)
(* stream of numbered changes folded into the cached read, with a safety   *)
(* read behind it (packages/realtime/src/sequenceStream.ts; apps/web/src/  *)
(* staff: live/stream.ts, live/sequence.ts, floor/useFloorLiveStream.ts).  *)
(* The server is external: it numbers the rows of every branch in one      *)
(* sequence, and answers a read or a poll as of some moment between its    *)
(* being asked and its answer.                                             *)
(***************************************************************************)
EXTENDS Naturals, Sequences, FiniteSets

CONSTANTS Tables,      \* the tables of the branch
          Seated,      \* those with a party to begin with
          Booked,      \* those with a booking coming to begin with
          MaxRows,     \* changes the server writes
          PageSize,    \* rows to a page of the stream
          MaxTroubles  \* requests that fail, tablets locked and unlocked

ASSUME StreamAssumption ==
   /\ Tables # {} /\ Seated \subseteq Tables /\ Booked \subseteq Tables
   /\ MaxRows \in Nat /\ PageSize \in Nat \ {0} /\ MaxTroubles \in Nat

VARIABLES
   log,             \* server: the rows so far, each with the room after it
   wired,           \* server: does it have the stream at all?
   floor,           \* the cached floor: its lastSequence and its tables
   read,            \* the floor query's read in flight ({} if none)
   told,            \* has the effect told the stream where the floor is?
   active,          \* FALSE while the tablet is locked: no queries, no stream
   sequence, known, unavailable,  \* the stream's own
   polls,           \* pages asked for, of this stream and of those it replaced
   skipped,         \* history: rows passed over since the floor was last read
   missed,          \* history: the last read failed, or was older than the floor shown
   troubles         \* what has gone wrong so far

serverVars == <<log, wired>>
streamVars == <<sequence, known, unavailable>>
historyVars == <<skipped, missed>>
vars == <<log, wired, floor, read, told, active, sequence, known, unavailable,
          polls, skipped, missed, troubles>>

Rows == 0..MaxRows
Room == [status : {"free", "occupied"}, tab : {"none", "waiting", "admitted"},
         booked : BOOLEAN, version : Rows]
Kinds == {"moved", "tabAwaitingAdmission", "tabAdmitted", "tabAdmissionRejected",
          "bookingChanged", "preOrderChanged", "elsewhere"}
Detail == [physicalStatus : {"free", "occupied"}, state : {"free", "occupied", "reservedSoon"},
           openTab : BOOLEAN, awaiting : BOOLEAN, booked : BOOLEAN, rowVersion : Rows]

NoFloor == [lastSequence |-> 0, details |-> <<>>]

TypeOK ==
   /\ log \in Seq([kind : Kinds, table : Tables, room : [Tables -> Room]]) /\ Len(log) <= MaxRows
   /\ wired \in BOOLEAN
   /\ floor = NoFloor \/ floor \in [lastSequence : Rows, details : [Tables -> Detail]]
   /\ read \subseteq Rows /\ \A m, n \in read : m = n
   /\ told \in BOOLEAN /\ active \in BOOLEAN
   /\ sequence \in Rows /\ known \in BOOLEAN /\ unavailable \in BOOLEAN
   /\ polls \subseteq [after : Rows, since : Rows, mine : BOOLEAN]
   /\ skipped \in BOOLEAN /\ missed \in BOOLEAN /\ troubles \in 0..MaxTroubles

-----------------------------------------------------------------------------
(* The server (external): the room after n rows, the branch's own rows      *)
(* after one and up to another, and the end of its stream.                  *)
Opening ==
   [t \in Tables |-> [status |-> IF t \in Seated THEN "occupied" ELSE "free", tab |-> "none",
                      booked |-> t \in Booked, version |-> 0]]

RoomAt(n) == IF n = 0 THEN Opening ELSE log[n].room

OwnRows(m, n) == {i \in 1..Len(log) : m < i /\ i <= n /\ log[i].kind # "elsewhere"}

LastOf(rows) == CHOOSE n \in rows \union {0} : \A i \in rows : i <= n

EndAt(n) == LastOf(OwnRows(0, n))

drawn(table) == IF table.status = "free" /\ table.booked THEN "reservedSoon" ELSE table.status

(* A floor read as of row n. *)
FloorAt(n) ==
   [lastSequence |-> EndAt(n),
    details |-> [t \in Tables |->
       LET table == RoomAt(n)[t]
       IN  [physicalStatus |-> table.status, state |-> drawn(table),
            openTab |-> table.tab # "none", awaiting |-> table.tab = "waiting",
            booked |-> table.booked, rowVersion |-> table.version]]]

Write(t, kind, table) ==
   /\ Len(log) < MaxRows
   /\ log' = Append(log, [kind |-> kind, table |-> t,
                          room |-> [RoomAt(Len(log)) EXCEPT ![t] = table]])
   /\ UNCHANGED <<wired, floor, read, told, active, streamVars, polls, historyVars, troubles>>

Become(table, status) ==
   [table EXCEPT !.status = status, !.version = IF table.status = status THEN @ ELSE @ + 1]

Change(t) ==
   LET table == RoomAt(Len(log))[t]
   IN  \/ \E to \in {"free", "occupied"} \ {table.status} :
             Write(t, "moved", [Become(table, to) EXCEPT !.tab = IF to = "free" THEN "none" ELSE @])
       \/ table.tab = "none"
          /\ Write(t, "tabAwaitingAdmission", [Become(table, "occupied") EXCEPT !.tab = "waiting"])
       \/ table.tab = "waiting" /\ Write(t, "tabAdmitted", [table EXCEPT !.tab = "admitted"])
       \/ table.tab = "waiting"
          /\ \E to \in {"free", "occupied"} :
                Write(t, "tabAdmissionRejected", [Become(table, to) EXCEPT !.tab = "none"])
       \/ Write(t, "bookingChanged", [table EXCEPT !.booked = ~@])
       \/ \E kind \in {"preOrderChanged", "elsewhere"} : Write(t, kind, table)

-----------------------------------------------------------------------------
Init ==
   /\ log = <<>> /\ wired \in BOOLEAN
   /\ floor = NoFloor /\ read = {0} /\ told = TRUE /\ active = TRUE
   /\ sequence = 0 /\ known = FALSE /\ unavailable = FALSE
   /\ polls = {} /\ skipped = FALSE /\ missed = FALSE /\ troubles = 0

Trouble == troubles < MaxTroubles /\ troubles' = troubles + 1

(* Mutant: a read asked again leaves the one on its way to land as well. *)
ReadsOverlap(cancelRefetch) ==
   read' = IF ~active \/ (read # {} /\ ~cancelRefetch) THEN read ELSE read \union {Len(log)}

(* invalidateQueries: the read is asked again; one on its way is cancelled  *)
(* when the caller says so and there is a floor to go on showing.           *)
invalidateQueries(cancelRefetch) ==
   read' = IF ~active \/ (read # {} /\ ~(cancelRefetch /\ floor # NoFloor))
           THEN read ELSE {Len(log)}

onResync == invalidateQueries(FALSE)

(* The floor query's answer, and the effect that tells the stream of it.    *)
ReadLands ==
   /\ \E n \in read : \E m \in n..Len(log) : floor' = FloorAt(m)
   /\ read' = {} /\ told' = FALSE /\ skipped' = FALSE
   /\ missed' = (floor # NoFloor /\ floor'.lastSequence < floor.lastSequence)
   /\ UNCHANGED <<serverVars, active, streamVars, polls, troubles>>

ReadFails ==
   /\ read # {} /\ Trouble /\ read' = {} /\ missed' = TRUE
   /\ UNCHANGED <<serverVars, floor, told, active, streamVars, polls, skipped>>

setSequence ==
   /\ ~told /\ told' = TRUE
   /\ IF active THEN sequence' = floor.lastSequence /\ known' = TRUE
                ELSE UNCHANGED <<sequence, known>>
   /\ UNCHANGED <<serverVars, floor, read, active, unavailable, polls, historyVars, troubles>>

(* Mutant: once the stream knows where it is, the floor is not read again.  *)
UntilKnown ==
   /\ active /\ ~known /\ invalidateQueries(FALSE)
   /\ UNCHANGED <<serverVars, floor, told, active, streamVars, polls, historyVars, troubles>>

(* The safety read, every 30 seconds in front of somebody. *)
SafetyRead ==
   /\ active /\ invalidateQueries(FALSE)
   /\ UNCHANGED <<serverVars, floor, told, active, streamVars, polls, historyVars, troubles>>

(* A command was answered, or lost a race. *)
CommandRead ==
   /\ active /\ invalidateQueries(TRUE)
   /\ UNCHANGED <<serverVars, floor, told, active, streamVars, polls, historyVars, troubles>>

-----------------------------------------------------------------------------
(* A poll of the interval, of a device picked up, of a connection back. *)
Poll ==
   /\ active /\ \A p \in polls : ~p.mine
   /\ IF unavailable \/ ~known
      THEN onResync /\ UNCHANGED polls
      ELSE /\ polls' = polls \union {[after |-> sequence, since |-> Len(log), mine |-> TRUE]}
           /\ UNCHANGED read
   /\ UNCHANGED <<serverVars, floor, told, active, streamVars, historyVars, troubles>>

(* Mutant: a table that is freed is folded in, whatever booking is coming. *)
BookingsOnly(i) == log[i].kind = "bookingChanged"

(* A row that cannot be folded without inventing something. *)
MustRead(i) ==
   /\ log[i].kind # "preOrderChanged"
   /\ \/ log[i].kind = "bookingChanged"
      \/ log[i].room[log[i].table].status = "free" /\ floor.details[log[i].table].booked

Signals == {"tabAwaitingAdmission", "tabAdmitted", "tabAdmissionRejected"}

(* The rows of a page that redraw a table. *)
Redraws(rows, t) ==
   {i \in rows : log[i].table = t /\ log[i].kind # "preOrderChanged" /\ i > floor.lastSequence}

(* A table's detail with the rows of a page folded in, in their order: the  *)
(* last says the status, the last signal says whether a scan waits, and the *)
(* tab is the row's own unless a plain row leaves it be.                    *)
Folded(rows, t) ==
   LET mine     == Redraws(rows, t)
       status   == log[LastOf(mine)].room[t].status
       signals  == {i \in mine : log[i].kind \in Signals}
       settles  == {i \in mine : log[i].kind \in Signals \/ log[i].room[t].status = "free"}
   IN  IF mine = {} THEN floor.details[t]
       ELSE [floor.details[t] EXCEPT
               !.physicalStatus = status, !.state = status,
               !.awaiting = IF signals = {} THEN @
                            ELSE log[LastOf(signals)].kind = "tabAwaitingAdmission",
               !.openTab = IF settles = {} THEN @
                           ELSE /\ log[LastOf(settles)].room[t].status # "free"
                                /\ log[LastOf(settles)].kind # "tabAdmissionRejected"]

PageRows(after, n) ==
   {i \in OwnRows(after, n) : Cardinality(OwnRows(after, i)) <= PageSize}

(* Mutant: a page with more after it says it is the end of the stream. *)
EndOfBranch(after, n) == EndAt(n)

(* How far a page has been read: its own last row if there is more after.   *)
PageEnd(after, n) ==
   IF OwnRows(after, n) = PageRows(after, n) THEN EndAt(n) ELSE LastOf(PageRows(after, n))

AtLeast(m, n) == IF m < n THEN n ELSE m

(* applyFloorChanges on a page's rows, and what its outcome sets off. *)
onItems(p, rows) ==
   LET fresh == {i \in rows : i > floor.lastSequence}
   IN  \/ /\ fresh = {}
          /\ UNCHANGED <<floor, read, told, historyVars>>
       \/ /\ \E i \in fresh : MustRead(i)
          /\ invalidateQueries(TRUE) /\ UNCHANGED <<floor, told, historyVars>>
       \/ /\ fresh # {} /\ \A i \in fresh : ~MustRead(i)
          /\ floor' = [lastSequence |-> LastOf(fresh),
                       details |-> [t \in Tables |-> Folded(rows, t)]]
          /\ told' = FALSE
          /\ skipped' = (skipped \/ OwnRows(floor.lastSequence, p.after) # {})
          /\ UNCHANGED <<read, missed>>

Page(p) ==
   /\ wired /\ p \in polls /\ polls' = polls \ {p}
   /\ \E n \in p.since..Len(log) :
         LET rows == PageRows(p.after, n)
         IN  /\ onItems(p, rows)
             /\ sequence' = IF ~p.mine THEN sequence
                            ELSE AtLeast(IF floor' # floor THEN floor'.lastSequence ELSE sequence,
                                         PageEnd(p.after, n))
   /\ UNCHANGED <<serverVars, active, known, unavailable, troubles>>

PageFails(p) ==
   /\ wired /\ p \in polls /\ Trouble /\ polls' = polls \ {p}
   /\ UNCHANGED <<serverVars, floor, read, told, active, streamVars, historyVars>>

(* The server has not shipped the stream: full reads from here on. *)
NotWired(p) ==
   /\ ~wired /\ p \in polls /\ polls' = polls \ {p}
   /\ unavailable' = (unavailable \/ p.mine) /\ onResync
   /\ UNCHANGED <<serverVars, floor, told, active, sequence, known, historyVars, troubles>>

-----------------------------------------------------------------------------
(* The tablet is locked: its stream stops, but not a page on its way. *)
Lock ==
   /\ active /\ Trouble /\ active' = FALSE
   /\ polls' = {[p EXCEPT !.mine = FALSE] : p \in polls}
   /\ UNCHANGED <<serverVars, floor, read, told, streamVars, historyVars>>

(* Unlocked: a new stream, which has read nothing yet and starts by asking  *)
(* for the floor; an effect not yet run may find no stream to tell.         *)
Unlock ==
   /\ ~active /\ active' = TRUE
   /\ sequence' = 0 /\ known' = FALSE /\ unavailable' = FALSE
   /\ read' = IF read = {} THEN {Len(log)} ELSE read
   /\ told' \in {told, TRUE}
   /\ UNCHANGED <<serverVars, floor, polls, historyVars, troubles>>

-----------------------------------------------------------------------------
Reads == ReadLands \/ ReadFails \/ setSequence \/ SafetyRead \/ CommandRead

Answer == \E p \in polls : Page(p) \/ NotWired(p)

Next ==
   \/ \E t \in Tables : Change(t)
   \/ Reads \/ Poll \/ Answer \/ (\E p \in polls : PageFails(p)) \/ Lock \/ Unlock

Spec == Init /\ [][Next]_vars

FairSpec ==
   Spec /\ WF_vars(ReadLands) /\ WF_vars(setSequence) /\ WF_vars(SafetyRead)
        /\ WF_vars(Poll) /\ WF_vars(Answer)

-----------------------------------------------------------------------------
(* Every table is drawn as the room was at the floor's own sequence.        *)
Agrees(t) ==
   LET seen == floor.details[t] truth == FloorAt(floor.lastSequence).details[t]
   IN  /\ seen.physicalStatus = truth.physicalStatus /\ seen.state = truth.state
       /\ seen.booked = truth.booked /\ seen.openTab = truth.openTab
       /\ (seen.openTab /\ seen.awaiting) = truth.awaiting

FloorFaithful == floor # NoFloor => \A t \in Tables : Agrees(t)

(* Folding a page is as good as reading the floor: no row is folded twice,  *)
(* out of order, or into a table it does not describe, unless a page was    *)
(* folded into a floor that had never seen the rows before it               *)
(* (applyFloorChanges).                                                     *)
FaithfulUnlessSkipped == skipped \/ FloorFaithful

(* What the floor lacks and the stream will not bring is owed a read, and   *)
(* one is out (useFloorLiveStream, onChanges); but for a read that failed,  *)
(* or that the stream overtook, which wait for the safety read.             *)
OwedARead ==
   ~missed => /\ skipped => read # {}
              /\ OwnRows(floor.lastSequence, sequence) # {} => read # {}

(* A tablet left in front of somebody comes to show the room as it is,      *)
(* whatever was skipped on the way.                                         *)
Converges == <>[](active => /\ floor # NoFloor /\ floor.lastSequence = EndAt(Len(log))
                            /\ FloorFaithful)
=============================================================================
