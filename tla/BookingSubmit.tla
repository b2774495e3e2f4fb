---------------------------- MODULE BookingSubmit ----------------------------
(***************************************************************************)
(* A diner books a table, or moves a booking (apps/diner:                  *)
(* src/booking/useBookingSubmit.ts with the form around it, src/lib/       *)
(* confirm.ts, and app/reserve/confirm.tsx, the screen an SMS code leads   *)
(* to).  Each screen has one command id for all its tries.  A table the    *)
(* next booking needs is only booked with a promise to free it by then,    *)
(* asked before anything is sent; an answer that never comes leaves the    *)
(* outcome unknown, and the button says "Check again"; one that loses its  *)
(* body on the way is taken for a failure.                                 *)
(* A time stands for all that is chosen: day, time, party and table.       *)
(***************************************************************************)
EXTENDS Naturals

CONSTANTS Times,
          MaxBy,         \* the instants a table can have to be free by
          MaxPresses,    \* presses of Book
          MaxElsewhere,  \* what others do to the tables
          MaxTroubles    \* answers or their bodies lost, throttled, refused

ASSUME BookingAssumption ==
   /\ Times # {} /\ MaxBy \in Nat \ {0}
   /\ MaxPresses \in Nat /\ MaxElsewhere \in Nat /\ MaxTroubles \in Nat

VARIABLES
   change,               \* is a booking being moved?
   screen,               \* the screen in front
   time, carried,        \* the time on the form, and on the confirm screen
   id, unknown,          \* each screen's command id, and its doubt
   named, ask, yes,      \* what the server named, what is asked, and the yes kept
   flight,               \* each screen's request away, with its answer
   room,                 \* what was last read of each time: free, free until, taken
   believed,             \* does the app think the number proved?
   ids,                  \* command ids made so far
   shown,                \* what the success screen came from: the request
   tables, made, proved, adrift,  \* server: the tables, what each id made, the
                                  \* number, and requests nobody waits for
   agreed, dropped,      \* history: what was promised when; ids whose doubt was
                         \* dropped without the server judging the request, or
                         \* whose success came without its body
   presses, elsewhere, troubles

own == <<id, unknown, named, ask, yes>>
app == <<change, screen, time, carried, own, room, believed, ids, shown>>
server == <<tables, made, proved, adrift>>
history == <<agreed, dropped>>
bounds == <<presses, elsewhere, troubles>>
vars == <<app, flight, server, history, bounds>>

Screens == {"form", "confirm"}
Free  == 0
Bys   == 1..MaxBy
Taken == MaxBy + 1
Past  == MaxBy + 2
MaxIds == MaxPresses + 2
Nothing == [time |-> CHOOSE t \in Times : TRUE, promise |-> Free, is |-> FALSE]

Requests == [id : 1..MaxIds, time : Times, promise : 0..MaxBy]
Answers == {"none", "made", "refused", "promise", "taken", "past", "unproved", "throttled", "lost",
            "unread"}
Flights == [asked : Requests, answer : Answers, by : 0..MaxBy, gone : BOOLEAN]
Namings == [time : Times, by : 0..MaxBy]

TypeOK ==
   /\ change \in BOOLEAN /\ screen \in Screens \union {"success", "left"}
   /\ time \in Times /\ carried \in Times
   /\ id \in [Screens -> 1..MaxIds] /\ unknown \in [Screens -> BOOLEAN]
   /\ named \in [Screens -> SUBSET Namings] /\ ask \in [Screens -> 0..MaxBy]
   /\ yes \in [Screens -> 0..MaxBy]
   /\ flight \in [Screens -> SUBSET Flights]
   /\ \A s \in Screens : \A f, g \in flight[s] : f = g
   /\ \A s \in Screens : \A n, m \in named[s] : n = m
   /\ room \in [Times -> 0..Past] /\ tables \in [Times -> 0..Past]
   /\ believed \in BOOLEAN /\ proved \in BOOLEAN
   /\ ids \in 1..MaxIds /\ shown \subseteq Requests
   /\ made \in [1..MaxIds -> [time : Times, promise : 0..MaxBy, is : BOOLEAN]]
   /\ adrift \subseteq Requests
   /\ agreed \subseteq Times \X Bys /\ dropped \subseteq 1..MaxIds
   /\ presses \in 0..MaxPresses /\ elsewhere \in 0..MaxElsewhere /\ troubles \in 0..MaxTroubles

Away(asked, answer, by, gone) == [asked |-> asked, answer |-> answer, by |-> by, gone |-> gone]

Init ==
   /\ change \in BOOLEAN /\ screen = "form"
   /\ time \in Times /\ carried = time
   /\ id = [s \in Screens |-> 1] /\ unknown = [s \in Screens |-> FALSE] /\ ids = 1
   /\ named = [s \in Screens |-> {}] /\ ask = [s \in Screens |-> Free]
   /\ yes = [s \in Screens |-> Free]
   /\ flight = [s \in Screens |-> {}]
   /\ tables \in [Times -> {Free, 1}] /\ room = tables
   /\ proved \in BOOLEAN /\ believed \in {proved, TRUE} /\ (change => proved)
   /\ shown = {} /\ made = [i \in 1..MaxIds |-> Nothing] /\ adrift = {}
   /\ agreed = {} /\ dropped = {}
   /\ presses = 0 /\ elsewhere = 0 /\ troubles = 0

Trouble == troubles < MaxTroubles /\ troubles' = troubles + 1

TimeOn(s) == IF s = "form" THEN time ELSE carried
Pending(s) == \E f \in flight[s] : ~f.gone

-----------------------------------------------------------------------------
(* The promise to free the table.                                           *)

FromRoom(s) == IF room[TimeOn(s)] \in Bys THEN room[TimeOn(s)] ELSE Free

(* Mutant: the room read last wins over what the server named.              *)
freeByNeededRoomFirst(s) ==
   IF FromRoom(s) # Free THEN FromRoom(s)
   ELSE IF \E n \in named[s] : n.time = TimeOn(s)
        THEN (CHOOSE n \in named[s] : TRUE).by ELSE Free

(* The instant the diner must agree to: what the server named for this very *)
(* time, or else the room's.                                                *)
freeByNeeded(s) ==
   IF \E n \in named[s] : n.time = TimeOn(s) THEN (CHOOSE n \in named[s] : TRUE).by
   ELSE FromRoom(s)

freeByAnswered(by, needed) == needed = Free \/ by = needed

promise(by, needed) == IF needed # Free THEN by ELSE Free

-----------------------------------------------------------------------------
(* Mutant: the form remembers a yes too, and its time can change.           *)
keptEverywhere(s, by) == by

(* Only the confirm screen remembers a yes for its next try.                *)
kept(s, by) == IF s = "form" THEN Free ELSE by

Request(s, i, by) == [id |-> i, time |-> TimeOn(s), promise |-> promise(by, freeByNeeded(s))]

(* Mutant: a new command id on every press.                                 *)
SendAnew(s, by) ==
   /\ ids' = ids + 1 /\ id' = [id EXCEPT ![s] = ids']
   /\ ask' = [ask EXCEPT ![s] = Free] /\ yes' = [yes EXCEPT ![s] = kept(s, by)]
   /\ flight' = [flight EXCEPT ![s] = {Away(Request(s, ids', by), "none", Free, FALSE)}]
   /\ UNCHANGED <<screen, carried, unknown, named, believed, proved>>

Send(s, by) ==
   /\ ask' = [ask EXCEPT ![s] = Free] /\ yes' = [yes EXCEPT ![s] = kept(s, by)]
   /\ flight' = [flight EXCEPT ![s] = {Away(Request(s, id[s], by), "none", Free, FALSE)}]
   /\ UNCHANGED <<screen, carried, id, unknown, named, believed, proved, ids>>

(* The SMS detour: the confirm screen, with an id of its own and the        *)
(* promise carried along.                                                   *)
Detour(by) ==
   /\ flight["confirm"] = {} /\ ids < MaxIds
   /\ screen' = "confirm" /\ carried' = time /\ ids' = ids + 1
   /\ id' = [id EXCEPT !["confirm"] = ids + 1]
   /\ unknown' = [unknown EXCEPT !["confirm"] = FALSE]
   /\ named' = [named EXCEPT !["confirm"] = {}]
   /\ ask' = [s \in Screens |-> Free]
   /\ yes' = [yes EXCEPT !["confirm"] = promise(by, freeByNeeded("form"))]
   /\ believed' = TRUE /\ proved' = TRUE
   /\ UNCHANGED flight

mayConfirm(s) == ~Pending(s) /\ flight[s] = {} /\ room[TimeOn(s)] \in 0..MaxBy

confirm(s, by) ==
   /\ screen = s /\ mayConfirm(s)
   /\ IF ~freeByAnswered(by, freeByNeeded(s))
      THEN /\ ask' = [ask EXCEPT ![s] = freeByNeeded(s)]
           /\ yes' = [yes EXCEPT ![s] = kept(s, by)]
           /\ UNCHANGED <<screen, carried, id, unknown, named, flight, believed, proved, ids>>
      ELSE IF s = "form" /\ ~change /\ ~believed THEN Detour(by)
      ELSE Send(s, by)
   /\ UNCHANGED <<change, time, room, shown, tables, made, adrift, dropped, elsewhere, troubles>>

(* Book, Save changes, or Check again.                                      *)
Press(s) ==
   /\ ask[s] = Free /\ presses < MaxPresses /\ presses' = presses + 1
   /\ s = "confirm" => believed
   /\ confirm(s, yes[s]) /\ UNCHANGED agreed

(* A yes goes nowhere when the time can no longer be booked.                *)
acceptFreeBy(s) ==
   /\ screen = s /\ ask[s] # Free
   /\ agreed' = agreed \union {<<TimeOn(s), ask[s]>>}
   /\ \/ confirm(s, ask[s])
      \/ /\ ~mayConfirm(s)
         /\ ask' = [ask EXCEPT ![s] = Free] /\ yes' = [yes EXCEPT ![s] = kept(s, ask[s])]
         /\ UNCHANGED <<change, screen, time, carried, id, unknown, named, room, believed,
                        ids, shown, flight, server, dropped, elsewhere, troubles>>
   /\ UNCHANGED presses

declineFreeBy(s) ==
   /\ screen = s /\ ask[s] # Free /\ ask' = [ask EXCEPT ![s] = Free]
   /\ UNCHANGED <<change, screen, time, carried, id, unknown, named, yes, room, believed,
                  ids, shown, flight, server, history, bounds>>

(* The pickers stay open while a request is away; only a question is in     *)
(* front of them.                                                           *)
pickTime ==
   /\ screen = "form" /\ ask["form"] = Free
   /\ \E t \in Times \ {time} : time' = t
   /\ UNCHANGED <<change, screen, carried, own, room, believed, ids, shown, flight,
                  server, history, bounds>>

(* Back from the confirm screen, or out of the form.                        *)
Back ==
   /\ screen \in Screens /\ ask[screen] = Free
   /\ screen' = IF screen = "confirm" THEN "form" ELSE "left"
   /\ flight' = [flight EXCEPT ![screen] = {Away(f.asked, f.answer, f.by, TRUE) : f \in flight[screen]}]
   /\ dropped' = IF unknown[screen] \/ flight[screen] # {}
                 THEN dropped \union {id[screen]} ELSE dropped
   /\ UNCHANGED <<change, time, carried, own, room, believed, ids, shown, server, agreed, bounds>>

(* On the confirm screen, the code asked for again.                         *)
Verify ==
   /\ screen = "confirm" /\ ~believed /\ believed' = TRUE /\ proved' = TRUE
   /\ UNCHANGED <<change, screen, time, carried, own, room, ids, shown, flight, tables,
                  made, adrift, history, bounds>>

(* The app forgets the number, as on a session that ended.                  *)
SessionEnds ==
   /\ believed /\ ~change /\ Trouble /\ believed' = FALSE
   /\ UNCHANGED <<change, screen, time, carried, own, room, ids, shown, flight, server,
                  history, presses, elsewhere>>

(* The slot's tables are read again.                                        *)
ReadRoom ==
   /\ \E t \in Times : room[t] # tables[t] /\ room' = [room EXCEPT ![t] = tables[t]]
   /\ UNCHANGED <<change, screen, time, carried, own, believed, ids, shown, flight,
                  server, history, bounds>>

-----------------------------------------------------------------------------
(* The answers.                                                             *)

(* Mutant: a lost answer is a failed one.                                   *)
doubtOnlyWhileAway(answer) == FALSE

(* A server error or no answer at all.  A success without its body leaves   *)
(* none: toBooking(null) throws, which bookingFailure calls 'generic'.      *)
doubt(answer) == answer = "lost"

(* What the screen that asked makes of a refusal.  A time that has passed   *)
(* moves a new booking on to another.                                       *)
fail(s, f) ==
   /\ unknown' = [unknown EXCEPT ![s] = doubt(f.answer)]
   /\ IF f.answer = "promise"
      THEN /\ named' = [named EXCEPT ![s] = {[time |-> f.asked.time, by |-> f.by]}]
           /\ ask' = [ask EXCEPT ![s] = f.by]
      ELSE UNCHANGED <<named, ask>>
   /\ believed' = (believed /\ ~(f.answer = "unproved" /\ ~change))
   /\ screen' = IF s = "confirm" /\ f.answer = "taken" THEN "form" ELSE screen
   /\ IF s = "form" /\ f.answer = "past" /\ ~change THEN time' \in Times ELSE UNCHANGED time
   /\ UNCHANGED <<id, yes>>

(* A refusal that reaches a confirm screen already left still takes a       *)
(* screen away.                                                             *)
failUnseen(f) ==
   /\ screen' = IF f.answer = "taken" /\ screen = "form" THEN "left" ELSE screen
   /\ UNCHANGED <<own, believed, time>>

(* Has the server judged the request, with none of its copies on the way?   *)
Judged(f) ==
   /\ f.answer \in {"refused", "promise", "taken", "past", "lost"}
   /\ \A r \in adrift : r.id # f.asked.id

Answered(s) ==
   /\ screen \in Screens
   /\ \E f \in flight[s] :
         /\ f.answer # "none"
         /\ IF f.answer = "made"
            THEN /\ screen' = "success" /\ shown' = {f.asked}
                 /\ dropped' = dropped \union {id[z] : z \in {y \in Screens : unknown[y]}}
                 /\ UNCHANGED <<own, believed, time>>
            ELSE /\ UNCHANGED shown
                 /\ IF f.gone THEN failUnseen(f) ELSE fail(s, f)
                 /\ dropped' = dropped
                       \union (IF ~f.gone /\ Judged(f) THEN {} ELSE {f.asked.id})
                       \union (IF screen' = "left" THEN {id["form"]} ELSE {})
   /\ flight' = [flight EXCEPT ![s] = {}]
   /\ UNCHANGED <<change, carried, room, ids, server, agreed, bounds>>

-----------------------------------------------------------------------------
(* The server (external).  A repeated id is answered with what it made.     *)
Verdict(r) ==
   IF made[r.id].is THEN "made"
   ELSE IF tables[r.time] = Taken THEN "taken"
   ELSE IF tables[r.time] = Past THEN "past"
   ELSE IF tables[r.time] \in Bys /\ tables[r.time] # r.promise THEN "promise"
   ELSE "made"

Effect(r) ==
   IF Verdict(r) = "made" /\ ~made[r.id].is
   THEN /\ made' = [made EXCEPT ![r.id] = [time |-> r.time, promise |-> r.promise, is |-> TRUE]]
        /\ tables' = [tables EXCEPT ![r.time] = Taken]
   ELSE UNCHANGED <<made, tables>>

(* It checks the number, and how often one asks, before anything else.      *)
Serve(s) ==
   /\ \E f \in flight[s] :
         /\ f.answer = "none"
         /\ \/ /\ ~proved /\ flight' = [flight EXCEPT ![s] = {Away(f.asked, "unproved", f.by, f.gone)}]
               /\ UNCHANGED <<made, tables, troubles>>
            \/ /\ Trouble /\ \E answer \in {"throttled", "refused"} :
                     /\ answer = "refused" => ~made[f.asked.id].is
                     /\ flight' = [flight EXCEPT ![s] = {Away(f.asked, answer, f.by, f.gone)}]
               /\ UNCHANGED <<made, tables>>
            \/ /\ proved /\ Effect(f.asked)
               /\ flight' = [flight EXCEPT ![s] = {Away(f.asked, Verdict(f.asked),
                     IF Verdict(f.asked) = "promise" THEN tables[f.asked.time] ELSE Free, f.gone)}]
               /\ UNCHANGED troubles
   /\ UNCHANGED <<app, proved, adrift, history, presses, elsewhere>>

(* An answer known by its status alone: a success cannot be read, and a     *)
(* refusal that is told by its code is a refusal like any other, without    *)
(* judgement when it was for the number.                                    *)
Bare(answer) ==
   IF answer = "made" THEN "unread" ELSE IF answer = "unproved" THEN "throttled" ELSE "refused"

(* The connection goes, or the time runs out, between headers and body: the *)
(* client reads the body as null.                                           *)
BodyLost(s) ==
   /\ Trouble
   /\ \E f \in flight[s] :
         /\ f.answer \in {"made", "promise", "taken", "past", "unproved"}
         /\ flight' = [flight EXCEPT ![s] = {Away(f.asked, Bare(f.answer), Free, f.gone)}]
   /\ UNCHANGED <<app, server, history, presses, elsewhere>>

(* No answer: the request is lost, or its answer is, or it comes late.      *)
NoAnswer(s) ==
   /\ Trouble
   /\ \E f \in flight[s] :
         /\ f.answer \notin {"lost", "unread"}
         /\ flight' = [flight EXCEPT ![s] = {Away(f.asked, "lost", Free, f.gone)}]
         /\ \/ UNCHANGED adrift
            \/ f.answer = "none" /\ adrift' = adrift \union {f.asked}
   /\ UNCHANGED <<app, tables, made, proved, history, presses, elsewhere>>

ArrivesLate ==
   /\ \E r \in adrift : adrift' = adrift \ {r} /\ IF proved THEN Effect(r) ELSE UNCHANGED <<made, tables>>
   /\ UNCHANGED <<app, flight, proved, history, bounds>>

(* Others book, cancel, or time passes.                                     *)
Elsewhere ==
   /\ elsewhere < MaxElsewhere /\ elsewhere' = elsewhere + 1
   /\ \E t \in Times : /\ ~\E i \in 1..MaxIds : made[i].is /\ made[i].time = t
                       /\ \E is \in 0..Past : tables[t] # is /\ tables' = [tables EXCEPT ![t] = is]
   /\ UNCHANGED <<app, flight, made, proved, adrift, history, presses, troubles>>

-----------------------------------------------------------------------------
Diner ==
   \/ pickTime \/ Back \/ Verify
   \/ \E s \in Screens : Press(s) \/ acceptFreeBy(s) \/ declineFreeBy(s)

Network ==
   \/ SessionEnds \/ ReadRoom \/ ArrivesLate \/ Elsewhere
   \/ \E s \in Screens : Answered(s) \/ Serve(s) \/ BodyLost(s) \/ NoAnswer(s)

Next == Diner \/ Network

Spec == Init /\ [][Next]_vars

(* A request is answered or given up, and a diner asked says yes.           *)
Fairness ==
   \A s \in Screens : /\ WF_vars(acceptFreeBy(s)) /\ WF_vars(Answered(s))
                      /\ WF_vars(Serve(s) \/ NoAnswer(s))

LiveSpec == Spec /\ Fairness

-----------------------------------------------------------------------------
(* A booking that holds the diner to a promise holds them to one they made, *)
(* to that instant and with that time in front of them (useBookingSubmit.ts *)
(* 319-331: "what goes is the instant the diner agreed to"), also when it   *)
(* was made on the form and sent from the confirm screen, or answered late. *)
PromiseWasMade ==
   \A i \in 1..MaxIds : made[i].is /\ made[i].promise # Free => <<made[i].time, made[i].promise>> \in agreed

(* A booking is never made behind the diner's back: its success is shown,   *)
(* or an answer is awaited, or the screen with its id says it cannot tell,  *)
(* unless the doubt was dropped without the server having judged, or the    *)
(* success came without its body and was taken for a failure (confirm.tsx   *)
(* 114: "the last attempt may have committed").                             *)
NeverForgotten ==
   \A i \in 1..MaxIds : made[i].is =>
      \/ \E r \in shown : r.id = i
      \/ \E s \in Screens : \/ id[s] = i /\ unknown[s] /\ screen \in Screens
                            \/ \E f \in flight[s] : f.asked.id = i
      \/ i \in dropped

(* Questions come to an end: a diner who agrees to what is asked is not     *)
(* asked in a ring between what the server named and an older room          *)
(* (lib/confirm.ts 54-60: "a ping-pong").                                   *)
QuestionsEnd == <>[](\A s \in Screens : screen = s => ask[s] = Free)
=============================================================================
