------------------------- MODULE BookingSubmitProofs -------------------------
(***************************************************************************)
(* No booking holds its diner to a promise they did not make, for any      *)
(* times, instants, presses and troubles.  The promise reaches the server  *)
(* through a request, and a request takes it from a yes that either was    *)
(* said a moment ago or is kept by the confirm screen, whose time stands   *)
(* still: the invariant below says so of each place a promise rests in.    *)
(***************************************************************************)
EXTENDS BookingSubmit, TLAPS

Held(r, promises) == r.promise # Free => <<r.time, r.promise>> \in promises

(* The form keeps no yes; the confirm screen's was said to its own time.    *)
YesHeld ==
   /\ yes["form"] = Free
   /\ yes["confirm"] # Free => <<carried, yes["confirm"]>> \in agreed

(* What a request promises was agreed to, awaited or adrift.                *)
RequestsHeld ==
   /\ \A s \in Screens : \A f \in flight[s] : Held(f.asked, agreed)
   /\ \A r \in adrift : Held(r, agreed)

BookingInv == TypeOK /\ YesHeld /\ RequestsHeld /\ PromiseWasMade

(* The parts of TypeOK that move together.                                  *)
FormType ==
   /\ change \in BOOLEAN /\ screen \in Screens \union {"success", "left"}
   /\ time \in Times /\ carried \in Times
   /\ believed \in BOOLEAN /\ ids \in 1..MaxIds /\ shown \subseteq Requests
   /\ room \in [Times -> 0..Past]

OwnType ==
   /\ id \in [Screens -> 1..MaxIds] /\ unknown \in [Screens -> BOOLEAN]
   /\ named \in [Screens -> SUBSET Namings] /\ ask \in [Screens -> 0..MaxBy]
   /\ yes \in [Screens -> 0..MaxBy]
   /\ \A s \in Screens : \A n, m \in named[s] : n = m

FlightType ==
   /\ flight \in [Screens -> SUBSET Flights]
   /\ \A s \in Screens : \A f, g \in flight[s] : f = g

ServerType ==
   /\ tables \in [Times -> 0..Past] /\ proved \in BOOLEAN
   /\ made \in [1..MaxIds -> [time : Times, promise : 0..MaxBy, is : BOOLEAN]]
   /\ adrift \subseteq Requests

HistoryType ==
   /\ agreed \subseteq Times \X Bys /\ dropped \subseteq 1..MaxIds
   /\ presses \in 0..MaxPresses /\ elsewhere \in 0..MaxElsewhere /\ troubles \in 0..MaxTroubles

LEMMA TypeParts ==
   /\ TypeOK <=> FormType /\ OwnType /\ FlightType /\ ServerType /\ HistoryType
   /\ TypeOK' <=> FormType' /\ OwnType' /\ FlightType' /\ ServerType' /\ HistoryType'
BY Zenon DEF TypeOK, FormType, OwnType, FlightType, ServerType, HistoryType

LEMMA Constants ==
   /\ MaxBy \in Nat /\ 1 <= MaxBy /\ Times # {}
   /\ MaxPresses \in Nat /\ MaxElsewhere \in Nat /\ MaxTroubles \in Nat
   /\ MaxIds \in Nat /\ 2 <= MaxIds
BY BookingAssumption DEF MaxIds

-----------------------------------------------------------------------------
LEMMA InitInv == Init => BookingInv
<1> SUFFICES ASSUME Init PROVE BookingInv
  OBVIOUS
<1>1. FormType
  <2>1. room \in [Times -> 0..Past] /\ ids \in 1..MaxIds
    BY Constants DEF Init, Free, Past
  <2>2. change \in BOOLEAN /\ believed \in BOOLEAN /\ proved \in BOOLEAN
    BY Zenon DEF Init
  <2> QED BY <2>1, <2>2, Zenon DEF Init, FormType, Screens
<1>2. OwnType
  <2>1. 1 \in 1..MaxIds /\ Free \in 0..MaxBy
    BY Constants DEF Free
  <2> QED BY <2>1 DEF Init, OwnType, Screens
<1>3. FlightType
  BY DEF Init, FlightType
<1>4. ServerType
  <2>1. Nothing \in [time : Times, promise : 0..MaxBy, is : BOOLEAN]
    BY Constants DEF Nothing, Free
  <2>2. tables \in [Times -> 0..Past]
    BY Constants DEF Init, Free, Past
  <2> QED BY <2>1, <2>2, Zenon DEF Init, ServerType
<1>5. HistoryType
  BY Constants DEF Init, HistoryType
<1>6. YesHeld /\ RequestsHeld /\ PromiseWasMade
  BY DEF Init, YesHeld, RequestsHeld, PromiseWasMade, Screens, Nothing
<1> QED BY <1>1, <1>2, <1>3, <1>4, <1>5, <1>6, TypeParts DEF BookingInv

-----------------------------------------------------------------------------
(* What the form makes of what it knows.                                    *)

LEMMA NeededType ==
   ASSUME TypeOK, NEW s \in Screens PROVE freeByNeeded(s) \in 0..MaxBy
<1>1. room \in [Times -> 0..Past] /\ time \in Times /\ carried \in Times
  BY DEF TypeOK
<1>2. FromRoom(s) \in 0..MaxBy
  BY <1>1, Constants DEF FromRoom, TimeOn, Bys, Free
<1>3. CASE \E n \in named[s] : n.time = TimeOn(s)
  <2> DEFINE n == CHOOSE n \in named[s] : TRUE
  <2>1. n \in named[s]
    BY <1>3
  <2>2. named[s] \subseteq Namings
    BY DEF TypeOK
  <2>3. n.by \in 0..MaxBy
    BY <2>1, <2>2 DEF Namings
  <2>4. freeByNeeded(s) = n.by
    BY <1>3 DEF freeByNeeded
  <2> QED BY <2>3, <2>4
<1> QED BY <1>2, <1>3 DEF freeByNeeded

LEMMA RequestType ==
   ASSUME TypeOK, NEW s \in Screens, NEW i \in 1..MaxIds, NEW by \in 0..MaxBy
   PROVE  Request(s, i, by) \in Requests
<1>1. TimeOn(s) \in Times
  BY DEF TypeOK, TimeOn
<1>2. promise(by, freeByNeeded(s)) \in 0..MaxBy
  BY Constants DEF promise, Free
<1> QED BY <1>1, <1>2 DEF Request, Requests

LEMMA AwayType ==
   ASSUME NEW r \in Requests, NEW a \in Answers, NEW by \in 0..MaxBy, NEW g \in BOOLEAN
   PROVE  /\ Away(r, a, by, g) \in Flights
          /\ Away(r, a, by, g).asked = r
BY DEF Away, Flights

(* A promise sent is the yes that was given, to the time in front.          *)
LEMMA RequestCarries ==
   ASSUME NEW s, NEW i, NEW by
   PROVE  /\ Request(s, i, by).promise # Free => Request(s, i, by).promise = by
          /\ Request(s, i, by).time = TimeOn(s)
BY DEF Request, promise

-----------------------------------------------------------------------------
(* The three ways out of confirm.  agreed' is what was agreed to when it    *)
(* was called, from a press or from a yes.                                  *)

YesIn(s, by) ==
   /\ agreed \subseteq agreed' /\ agreed' \subseteq Times \X Bys
   /\ by # Free => <<TimeOn(s), by>> \in agreed'

LEMMA YesKept ==
   ASSUME BookingInv, NEW s \in Screens, NEW by \in 0..MaxBy, YesIn(s, by),
          yes' = [yes EXCEPT ![s] = kept(s, by)], UNCHANGED carried
   PROVE  YesHeld' /\ yes' \in [Screens -> 0..MaxBy]
<1>1. yes \in [Screens -> 0..MaxBy] /\ YesHeld
  BY DEF BookingInv, TypeOK
<1>2. kept(s, by) \in 0..MaxBy
  BY Constants DEF kept, Free
<1>3. CASE s = "form"
  BY <1>1, <1>2, <1>3 DEF YesHeld, YesIn, kept, Screens
<1>4. CASE s = "confirm"
  BY <1>1, <1>2, <1>4 DEF YesHeld, YesIn, kept, Screens, TimeOn
<1> QED BY <1>3, <1>4, <1>1, <1>2 DEF Screens

(* What was agreed to stays so, and requests and bookings with it.          *)
LEMMA StaysHeld ==
   ASSUME BookingInv, agreed \subseteq agreed', UNCHANGED made, UNCHANGED adrift
   PROVE  /\ PromiseWasMade' /\ \A r \in adrift' : Held(r, agreed')
          /\ \A s \in Screens : \A f \in flight[s] : Held(f.asked, agreed')
BY DEF BookingInv, PromiseWasMade, RequestsHeld, Held

LEMMA AskKeeps ==
   ASSUME BookingInv, NEW s \in Screens, NEW by \in 0..MaxBy, YesIn(s, by),
          ask' = [ask EXCEPT ![s] = freeByNeeded(s)],
          yes' = [yes EXCEPT ![s] = kept(s, by)],
          UNCHANGED <<carried, id, unknown, named, flight, made, adrift>>
   PROVE  OwnType' /\ FlightType' /\ YesHeld' /\ RequestsHeld' /\ PromiseWasMade'
<1>1. TypeOK /\ OwnType /\ FlightType
  BY TypeParts DEF BookingInv
<1>2. OwnType'
  BY <1>1, YesKept, NeededType DEF OwnType
<1>3. FlightType'
  BY <1>1 DEF FlightType
<1>4. RequestsHeld' /\ PromiseWasMade'
  BY StaysHeld DEF RequestsHeld, YesIn
<1> QED BY <1>2, <1>3, <1>4, YesKept

LEMMA SendKeeps ==
   ASSUME BookingInv, NEW s \in Screens, NEW by \in 0..MaxBy, YesIn(s, by),
          Send(s, by), UNCHANGED <<made, adrift>>
   PROVE  OwnType' /\ FlightType' /\ YesHeld' /\ RequestsHeld' /\ PromiseWasMade'
<1>1. TypeOK /\ OwnType /\ FlightType
  BY TypeParts DEF BookingInv
<1> DEFINE r == Request(s, id[s], by)
           sent == Away(r, "none", Free, FALSE)
<1>2. id[s] \in 1..MaxIds
  BY <1>1 DEF OwnType
<1>3. r \in Requests
  BY <1>1, <1>2, RequestType
<1>4. sent \in Flights /\ sent.asked = r
  <2>1. "none" \in Answers /\ Free \in 0..MaxBy /\ FALSE \in BOOLEAN
    BY Constants DEF Answers, Free
  <2> HIDE DEF r
  <2> QED BY <1>3, <2>1, AwayType, Zenon
<1>5. flight' = [flight EXCEPT ![s] = {sent}]
  BY DEF Send
<1>6. OwnType'
  <2>1. /\ ask' = [ask EXCEPT ![s] = Free] /\ yes' = [yes EXCEPT ![s] = kept(s, by)]
        /\ UNCHANGED <<carried, id, unknown, named>>
    BY DEF Send
  <2>2. yes' \in [Screens -> 0..MaxBy]
    BY <2>1, YesKept
  <2> QED BY <1>1, <2>1, <2>2, Constants DEF OwnType, Free
<1>7. FlightType'
  <2> HIDE DEF sent
  <2> QED BY <1>1, <1>4, <1>5 DEF FlightType
<1>8. Held(r, agreed')
  BY RequestCarries DEF YesIn, Held
<1>9. RequestsHeld' /\ PromiseWasMade'
  <2>1. flight \in [Screens -> SUBSET Flights]
    BY <1>1 DEF FlightType
  <2>2. ASSUME NEW z \in Screens, NEW f \in flight'[z] PROVE Held(f.asked, agreed')
    <3>1. CASE z = s
      <4>1. f.asked = r
        BY <1>4, <1>5, <2>1, <3>1
      <4> QED BY <4>1, <1>8
    <3>2. CASE z # s
      <4>1. f \in flight[z]
        BY <1>5, <2>1, <3>2
      <4> QED BY <4>1, StaysHeld DEF YesIn
    <3> QED BY <3>1, <3>2
  <2> QED BY <2>2, StaysHeld DEF RequestsHeld, YesIn
<1> QED BY <1>6, <1>7, <1>9, YesKept DEF Send

LEMMA DetourKeeps ==
   ASSUME BookingInv, NEW by \in 0..MaxBy, YesIn("form", by),
          Detour(by), UNCHANGED <<made, adrift>>
   PROVE  OwnType' /\ FlightType' /\ YesHeld' /\ RequestsHeld' /\ PromiseWasMade'
<1>1. TypeOK /\ OwnType /\ FlightType /\ YesHeld
  BY TypeParts DEF BookingInv
<1> DEFINE given == promise(by, freeByNeeded("form"))
<1>2. given \in 0..MaxBy /\ (given # Free => given = by)
  BY Constants DEF promise, Free
<1>3. ids + 1 \in 1..MaxIds
  BY <1>1, Constants DEF Detour, TypeOK
<1>4. OwnType'
  <2> HIDE DEF given
  <2>1. yes' = [yes EXCEPT !["confirm"] = given]
    BY DEF Detour, given
  <2> QED BY <1>1, <1>2, <1>3, <2>1, Constants DEF OwnType, Detour, Screens, Free
<1>5. FlightType'
  BY <1>1 DEF FlightType, Detour
<1>6. YesHeld'
  <2>1. yes' = [yes EXCEPT !["confirm"] = given] /\ carried' = time
    BY DEF Detour
  <2>2. yes \in [Screens -> 0..MaxBy]
    BY <1>1 DEF OwnType
  <2> HIDE DEF given
  <2> QED BY <1>1, <1>2, <2>1, <2>2 DEF YesHeld, YesIn, TimeOn, Screens
<1>7. RequestsHeld' /\ PromiseWasMade'
  BY StaysHeld DEF RequestsHeld, YesIn, Detour
<1> QED BY <1>4, <1>5, <1>6, <1>7

(* Whichever way confirm takes.                                             *)
LEMMA ConfirmKeeps ==
   ASSUME BookingInv, NEW s \in Screens, NEW by \in 0..MaxBy, YesIn(s, by),
          confirm(s, by), presses' \in 0..MaxPresses
   PROVE  BookingInv'
<1>1. FormType /\ ServerType /\ HistoryType
  BY TypeParts DEF BookingInv
<1>2. UNCHANGED <<change, time, room, shown, tables, made, adrift, dropped, elsewhere, troubles>>
  BY DEF confirm
<1>3. OwnType' /\ FlightType' /\ YesHeld' /\ RequestsHeld' /\ PromiseWasMade'
  <2>1. CASE ~freeByAnswered(by, freeByNeeded(s))
    BY <1>2, <2>1, AskKeeps DEF confirm
  <2>2. CASE freeByAnswered(by, freeByNeeded(s)) /\ s = "form" /\ ~change /\ ~believed
    BY <1>2, <2>2, DetourKeeps DEF confirm
  <2>3. CASE /\ freeByAnswered(by, freeByNeeded(s))
             /\ ~(s = "form" /\ ~change /\ ~believed)
    BY <1>2, <2>3, SendKeeps DEF confirm
  <2> QED BY <2>1, <2>2, <2>3
<1>4. /\ \/ screen' = "confirm" /\ ids' = ids + 1 /\ ids < MaxIds
            /\ believed' = TRUE /\ proved' = TRUE
         \/ UNCHANGED <<screen, ids, believed, proved>>
      /\ carried' \in {time, carried}
  BY DEF confirm, Detour, Send
<1>5. believed' \in BOOLEAN /\ proved' \in BOOLEAN
  BY <1>1, <1>4, Zenon DEF FormType, ServerType
<1>6. ids' \in 1..MaxIds /\ screen' \in Screens \union {"success", "left"} /\ carried' \in Times
  BY <1>1, <1>4, Constants DEF FormType, Screens
<1>7. FormType'
  BY <1>1, <1>2, <1>5, <1>6, Zenon DEF FormType
<1>8. ServerType'
  BY <1>1, <1>2, <1>5, Zenon DEF ServerType
<1>9. HistoryType'
  BY <1>1, <1>2 DEF HistoryType, YesIn
<1> QED BY <1>3, <1>7, <1>8, <1>9, TypeParts DEF BookingInv

LEMMA PressKeeps == ASSUME BookingInv, NEW s \in Screens, Press(s) PROVE BookingInv'
<1>1. TypeOK /\ YesHeld
  BY DEF BookingInv
<1>2. yes[s] \in 0..MaxBy /\ presses' \in 0..MaxPresses
  BY <1>1, Constants DEF TypeOK, Press
<1>3. YesIn(s, yes[s])
  BY <1>1 DEF TypeOK, Press, YesIn, YesHeld, TimeOn, Screens
<1>4. confirm(s, yes[s])
  BY DEF Press
<1> QED BY <1>2, <1>3, <1>4, ConfirmKeeps

LEMMA AcceptKeeps == ASSUME BookingInv, NEW s \in Screens, acceptFreeBy(s) PROVE BookingInv'
<1>1. TypeOK /\ FormType /\ OwnType /\ FlightType /\ ServerType /\ HistoryType
  BY TypeParts DEF BookingInv
<1>2. ask[s] \in 0..MaxBy /\ ask[s] # Free /\ TimeOn(s) \in Times
  BY <1>1 DEF OwnType, FormType, acceptFreeBy, TimeOn
<1>3. agreed' = agreed \union {<<TimeOn(s), ask[s]>>} /\ UNCHANGED presses
  BY DEF acceptFreeBy
<1>4. YesIn(s, ask[s])
  BY <1>1, <1>2, <1>3, Constants DEF YesIn, HistoryType, Bys, Free
<1>5. CASE confirm(s, ask[s])
  BY <1>1, <1>2, <1>3, <1>4, <1>5, ConfirmKeeps DEF HistoryType
<1>6. CASE ~mayConfirm(s) /\ ~confirm(s, ask[s])
  <2>1. /\ ask' = [ask EXCEPT ![s] = Free] /\ yes' = [yes EXCEPT ![s] = kept(s, ask[s])]
        /\ UNCHANGED <<change, screen, time, carried, id, unknown, named, room, believed,
                       ids, shown, flight, server, dropped, elsewhere, troubles>>
    BY <1>6 DEF acceptFreeBy
  <2>2. yes' \in [Screens -> 0..MaxBy] /\ YesHeld'
    BY <1>2, <1>4, <2>1, YesKept
  <2>3. OwnType'
    BY <1>1, <2>1, <2>2, Constants DEF OwnType, Free
  <2>4. FormType' /\ FlightType' /\ ServerType'
    BY <1>1, <2>1, Zenon DEF FormType, FlightType, ServerType, server
  <2>5. HistoryType'
    BY <1>1, <1>3, <1>4, <2>1 DEF HistoryType, YesIn
  <2>6. RequestsHeld' /\ PromiseWasMade'
    BY <1>4, <2>1, StaysHeld DEF RequestsHeld, YesIn, server
  <2> QED BY <2>2, <2>3, <2>4, <2>5, <2>6, TypeParts DEF BookingInv
<1> QED BY <1>5, <1>6 DEF acceptFreeBy

-----------------------------------------------------------------------------
(* The diner's other actions.                                               *)

(* Nothing is promised, sent or booked.                                     *)
LEMMA PromisesKept ==
   ASSUME BookingInv, UNCHANGED <<carried, yes, made, adrift, agreed>>,
          \A s \in Screens : \A f \in flight'[s] :
             \E g \in flight[s] : f.asked = g.asked
   PROVE  YesHeld' /\ RequestsHeld' /\ PromiseWasMade'
BY DEF BookingInv, YesHeld, RequestsHeld, PromiseWasMade, Held

LEMMA DinerKeeps ==
   ASSUME BookingInv, pickTime \/ Verify \/ \E s \in Screens : declineFreeBy(s)
   PROVE  BookingInv'
<1>1. FormType /\ OwnType /\ FlightType /\ ServerType /\ HistoryType
  BY TypeParts DEF BookingInv
<1>2. /\ UNCHANGED <<change, screen, carried, id, unknown, named, yes, room, ids, shown,
                     flight, tables, made, adrift, history, bounds>>
      /\ time' \in Times
      /\ \/ UNCHANGED ask
         \/ \E s \in Screens : ask' = [ask EXCEPT ![s] = Free]
      /\ (believed' = TRUE /\ proved' = TRUE) \/ UNCHANGED <<believed, proved>>
  BY <1>1 DEF FormType, pickTime, Verify, declineFreeBy, own, server
<1>3. believed' \in BOOLEAN /\ proved' \in BOOLEAN
  BY <1>1, <1>2, Zenon DEF FormType, ServerType
<1>4. ask' \in [Screens -> 0..MaxBy]
  BY <1>1, <1>2, Constants DEF OwnType, Free
<1>5. FormType' /\ OwnType' /\ FlightType' /\ ServerType' /\ HistoryType'
  BY <1>1, <1>2, <1>3, <1>4, Zenon
     DEF FormType, OwnType, FlightType, ServerType, HistoryType, history, bounds
<1>6. YesHeld' /\ RequestsHeld' /\ PromiseWasMade'
  BY <1>2, PromisesKept DEF history
<1> QED BY <1>5, <1>6, TypeParts DEF BookingInv

LEMMA BackKeeps == ASSUME BookingInv, Back PROVE BookingInv'
<1>1. FormType /\ OwnType /\ FlightType /\ ServerType /\ HistoryType
  BY TypeParts DEF BookingInv
<1>2. screen \in Screens
  BY DEF Back
<1> DEFINE left == {Away(f.asked, f.answer, f.by, TRUE) : f \in flight[screen]}
<1>3. left \subseteq Flights /\ \A f \in left : \E g \in flight[screen] : f.asked = g.asked
  <2>1. ASSUME NEW f \in flight[screen]
        PROVE  /\ Away(f.asked, f.answer, f.by, TRUE) \in Flights
               /\ Away(f.asked, f.answer, f.by, TRUE).asked = f.asked
    <3>1. f.asked \in Requests /\ f.answer \in Answers /\ f.by \in 0..MaxBy
      BY <1>1, <1>2 DEF FlightType, Flights
    <3> QED BY <3>1, AwayType, Zenon
  <2> QED BY <2>1, Zenon
<1>4. \A f, g \in left : f = g
  BY <1>1, <1>2 DEF FlightType
<1>5. flight' = [flight EXCEPT ![screen] = left]
  BY DEF Back
<1> HIDE DEF left
<1>6. FlightType'
  BY <1>1, <1>2, <1>3, <1>4, <1>5 DEF FlightType
<1>7. FormType' /\ OwnType' /\ ServerType'
  <2>1. screen' \in Screens \union {"success", "left"}
    BY DEF Back, Screens
  <2> QED BY <1>1, <2>1, Zenon DEF Back, FormType, OwnType, ServerType, own, server
<1>8. HistoryType'
  <2>1. dropped' \subseteq 1..MaxIds
    BY <1>1, <1>2 DEF Back, HistoryType, OwnType
  <2> QED BY <1>1, <2>1 DEF Back, HistoryType, bounds
<1>9. YesHeld' /\ RequestsHeld' /\ PromiseWasMade'
  <2>1. \A s \in Screens : \A f \in flight'[s] : \E g \in flight[s] : f.asked = g.asked
    BY <1>1, <1>2, <1>3, <1>5 DEF FlightType
  <2>2. UNCHANGED <<carried, yes, made, adrift, agreed>>
    BY DEF Back, own, server
  <2> QED BY <2>1, <2>2, PromisesKept
<1> QED BY <1>6, <1>7, <1>8, <1>9, TypeParts DEF BookingInv

-----------------------------------------------------------------------------
(* The answers, and the server.                                             *)

LEMMA AnsweredKeeps == ASSUME BookingInv, NEW s \in Screens, Answered(s) PROVE BookingInv'
<1>1. FormType /\ OwnType /\ FlightType /\ ServerType /\ HistoryType
  BY TypeParts DEF BookingInv
<1>2. PICK f \in flight[s] :
         /\ f.answer # "none"
         /\ IF f.answer = "made"
            THEN /\ screen' = "success" /\ shown' = {f.asked}
                 /\ dropped' = dropped \union {id[z] : z \in {y \in Screens : unknown[y]}}
                 /\ UNCHANGED <<own, believed, time>>
            ELSE /\ UNCHANGED shown
                 /\ IF f.gone THEN failUnseen(f) ELSE fail(s, f)
                 /\ dropped' = dropped
                       \union (IF ~f.gone /\ Judged(f) THEN {} ELSE {f.asked.id})
                       \union (IF screen' = "left" THEN {id["form"]} ELSE {})
  BY DEF Answered
<1>3. flight' = [flight EXCEPT ![s] = {}] /\ screen \in Screens
      /\ UNCHANGED <<change, carried, room, ids, server, agreed, bounds>>
  BY DEF Answered
<1>4. f.asked \in Requests /\ f.asked.id \in 1..MaxIds /\ f.asked.time \in Times
      /\ f.by \in 0..MaxBy
  BY <1>1 DEF FlightType, Flights, Requests
<1>5. /\ screen' \in Screens \union {"success", "left"} /\ time' \in Times
      /\ shown' \subseteq Requests
      /\ UNCHANGED <<id, yes>>
  BY <1>1, <1>2, <1>3, <1>4 DEF FormType, fail, failUnseen, own, Screens
<1>6. believed' \in BOOLEAN
  <2>1. believed' = believed \/ believed' = (believed /\ ~(f.answer = "unproved" /\ ~change))
    BY <1>2, Zenon DEF fail, failUnseen
  <2> QED BY <1>1, <2>1, Zenon DEF FormType
<1>7. dropped' \subseteq 1..MaxIds
  <2>1. {id[z] : z \in {y \in Screens : unknown[y]}} \subseteq 1..MaxIds /\ id["form"] \in 1..MaxIds
    BY <1>1 DEF OwnType, Screens
  <2>2. dropped \subseteq 1..MaxIds
    BY <1>1 DEF HistoryType
  <2>3. CASE f.answer = "made"
    BY <1>2, <2>1, <2>2, <2>3
  <2>4. CASE f.answer # "made"
    BY <1>2, <1>4, <2>1, <2>2, <2>4
  <2> QED BY <2>3, <2>4
<1>8. OwnType'
  <2>1. CASE UNCHANGED own
    BY <1>1, <2>1, Zenon DEF OwnType, own
  <2>2. CASE fail(s, f)
    <3>1. unknown' \in [Screens -> BOOLEAN]
      <4>1. doubt(f.answer) \in BOOLEAN
        BY Zenon DEF doubt
      <4> QED BY <1>1, <2>2, <4>1, Zenon DEF OwnType, fail
    <3>2. CASE UNCHANGED <<named, ask>>
      BY <1>1, <1>5, <3>1, <3>2, Zenon DEF OwnType
    <3>3. CASE f.answer = "promise"
      <4> DEFINE n == [time |-> f.asked.time, by |-> f.by]
      <4>1. named' = [named EXCEPT ![s] = {n}] /\ ask' = [ask EXCEPT ![s] = f.by]
        BY <2>2, <3>3 DEF fail
      <4>2. n \in Namings
        BY <1>4, <3>3 DEF Namings
      <4> HIDE DEF n
      <4> QED BY <1>1, <1>4, <1>5, <3>1, <4>1, <4>2 DEF OwnType
    <3> QED BY <2>2, <3>2, <3>3 DEF fail
  <2> QED BY <1>2, <2>1, <2>2 DEF failUnseen
<1>9. FlightType' /\ \A z \in Screens : \A g \in flight'[z] : g \in flight[z]
  BY <1>1, <1>3 DEF FlightType
<1>10. YesHeld' /\ RequestsHeld' /\ PromiseWasMade'
  BY <1>3, <1>5, <1>9, PromisesKept DEF server
<1>11. FormType' /\ ServerType'
  BY <1>1, <1>3, <1>5, <1>6, Zenon DEF FormType, ServerType, server
<1>12. HistoryType'
  BY <1>1, <1>3, <1>7 DEF HistoryType, bounds
<1> QED BY <1>8, <1>9, <1>10, <1>11, <1>12, TypeParts DEF BookingInv

(* What the server does with a request that promises only what was agreed.  *)
LEMMA EffectKeeps ==
   ASSUME BookingInv, NEW r \in Requests, Held(r, agreed), Effect(r), UNCHANGED agreed
   PROVE  /\ made' \in [1..MaxIds -> [time : Times, promise : 0..MaxBy, is : BOOLEAN]]
          /\ tables' \in [Times -> 0..Past]
          /\ PromiseWasMade'
<1>1. ServerType /\ PromiseWasMade
  BY TypeParts DEF BookingInv
<1>2. r.id \in 1..MaxIds /\ r.time \in Times /\ r.promise \in 0..MaxBy
  BY DEF Requests
<1>3. CASE UNCHANGED <<made, tables>>
  BY <1>1, <1>3 DEF ServerType, PromiseWasMade
<1>4. CASE /\ made' = [made EXCEPT ![r.id] = [time |-> r.time, promise |-> r.promise, is |-> TRUE]]
           /\ tables' = [tables EXCEPT ![r.time] = Taken]
  <2> DEFINE m == [time |-> r.time, promise |-> r.promise, is |-> TRUE]
  <2>1. m \in [time : Times, promise : 0..MaxBy, is : BOOLEAN]
    BY <1>2
  <2>2. m.time = r.time /\ m.promise = r.promise
    OBVIOUS
  <2>3. made' = [made EXCEPT ![r.id] = m]
    BY <1>4
  <2>4. tables' \in [Times -> 0..Past]
    BY <1>1, <1>2, <1>4, Constants DEF ServerType, Taken, Past
  <2> HIDE DEF m
  <2>5. made' \in [1..MaxIds -> [time : Times, promise : 0..MaxBy, is : BOOLEAN]]
    BY <1>1, <1>2, <2>1, <2>3 DEF ServerType
  <2>6. ASSUME NEW i \in 1..MaxIds, made'[i].is, made'[i].promise # Free
        PROVE  <<made'[i].time, made'[i].promise>> \in agreed'
    <3>1. CASE i = r.id
      <4>1. made'[i] = m
        BY <1>1, <2>3, <3>1 DEF ServerType
      <4> QED BY <2>2, <2>6, <4>1 DEF Held
    <3>2. CASE i # r.id
      <4>1. made'[i] = made[i]
        BY <1>1, <2>3, <3>2 DEF ServerType
      <4> QED BY <1>1, <2>6, <4>1 DEF PromiseWasMade
    <3> QED BY <3>1, <3>2
  <2> QED BY <2>4, <2>5, <2>6 DEF PromiseWasMade
<1> QED BY <1>3, <1>4 DEF Effect

(* An answer on its way changes nothing of the request it answers.          *)
LEMMA AnswerKeeps ==
   ASSUME BookingInv, NEW s \in Screens, NEW f \in flight[s],
          NEW a \in Answers, NEW by \in 0..MaxBy,
          flight' = [flight EXCEPT ![s] = {Away(f.asked, a, by, f.gone)}]
   PROVE  /\ FlightType'
          /\ \A z \in Screens : \A g \in flight'[z] : \E h \in flight[z] : g.asked = h.asked
<1>1. FlightType
  BY TypeParts DEF BookingInv
<1>2. f.asked \in Requests /\ f.gone \in BOOLEAN
  BY <1>1 DEF FlightType, Flights
<1> DEFINE g == Away(f.asked, a, by, f.gone)
<1>3. g \in Flights /\ g.asked = f.asked
  BY <1>2, AwayType, Zenon
<1>4. flight' = [flight EXCEPT ![s] = {g}]
  OBVIOUS
<1> HIDE DEF g
<1> QED BY <1>1, <1>3, <1>4 DEF FlightType

LEMMA ServeKeeps == ASSUME BookingInv, NEW s \in Screens, Serve(s) PROVE BookingInv'
<1>1. FormType /\ OwnType /\ FlightType /\ ServerType /\ HistoryType
  BY TypeParts DEF BookingInv
<1>2. PICK f \in flight[s] :
         /\ f.answer = "none"
         /\ \/ /\ ~proved /\ flight' = [flight EXCEPT ![s] = {Away(f.asked, "unproved", f.by, f.gone)}]
               /\ UNCHANGED <<made, tables, troubles>>
            \/ /\ Trouble /\ \E answer \in {"throttled", "refused"} :
                     /\ answer = "refused" => ~made[f.asked.id].is
                     /\ flight' = [flight EXCEPT ![s] = {Away(f.asked, answer, f.by, f.gone)}]
               /\ UNCHANGED <<made, tables>>
            \/ /\ proved /\ Effect(f.asked)
               /\ flight' = [flight EXCEPT ![s] = {Away(f.asked, Verdict(f.asked),
                     IF Verdict(f.asked) = "promise" THEN tables[f.asked.time] ELSE Free, f.gone)}]
               /\ UNCHANGED troubles
  BY DEF Serve
<1>3. UNCHANGED <<app, proved, adrift, history, presses, elsewhere>>
  BY DEF Serve
<1>4. f.asked \in Requests /\ f.by \in 0..MaxBy /\ Held(f.asked, agreed)
  BY <1>1 DEF FlightType, Flights, BookingInv, RequestsHeld
<1>5. PICK a \in Answers, by \in 0..MaxBy :
         flight' = [flight EXCEPT ![s] = {Away(f.asked, a, by, f.gone)}]
  <2>1. CASE \E a \in {"unproved", "throttled", "refused"} :
                flight' = [flight EXCEPT ![s] = {Away(f.asked, a, f.by, f.gone)}]
    BY <1>4, <2>1 DEF Answers
  <2>2. CASE flight' = [flight EXCEPT ![s] = {Away(f.asked, Verdict(f.asked),
                     IF Verdict(f.asked) = "promise" THEN tables[f.asked.time] ELSE Free, f.gone)}]
    <3> DEFINE by == IF Verdict(f.asked) = "promise" THEN tables[f.asked.time] ELSE Free
    <3>1. Verdict(f.asked) \in Answers
      BY DEF Verdict, Answers
    <3>2. by \in 0..MaxBy
      BY Constants DEF Verdict, Bys, Free
    <3> HIDE DEF by
    <3>3. flight' = [flight EXCEPT ![s] = {Away(f.asked, Verdict(f.asked), by, f.gone)}]
      BY <2>2 DEF by
    <3> QED BY <3>1, <3>2, <3>3
  <2> QED BY <1>2, <2>1, <2>2
<1>6. /\ FlightType'
      /\ \A z \in Screens : \A g \in flight'[z] : \E h \in flight[z] : g.asked = h.asked
  BY <1>5, AnswerKeeps
<1>7. /\ made' \in [1..MaxIds -> [time : Times, promise : 0..MaxBy, is : BOOLEAN]]
      /\ tables' \in [Times -> 0..Past]
      /\ PromiseWasMade'
  <2>1. CASE UNCHANGED <<made, tables>>
    BY <1>1, <1>3, <2>1 DEF ServerType, BookingInv, PromiseWasMade, history
  <2>2. CASE Effect(f.asked)
    BY <1>3, <1>4, <2>2, EffectKeeps DEF history
  <2> QED BY <1>2, <2>1, <2>2
<1>8. troubles' \in 0..MaxTroubles
  BY <1>1, <1>2, Constants DEF HistoryType, Trouble
<1>9. FormType' /\ OwnType' /\ ServerType' /\ HistoryType'
  BY <1>1, <1>3, <1>7, <1>8, Zenon
     DEF FormType, OwnType, ServerType, HistoryType, app, own, history
<1>10. YesHeld' /\ RequestsHeld'
  BY <1>3, <1>6 DEF BookingInv, YesHeld, RequestsHeld, Held, app, own, history
<1> QED BY <1>6, <1>7, <1>9, <1>10, TypeParts DEF BookingInv

LEMMA NoAnswerKeeps == ASSUME BookingInv, NEW s \in Screens, NoAnswer(s) PROVE BookingInv'
<1>1. FormType /\ OwnType /\ FlightType /\ ServerType /\ HistoryType
  BY TypeParts DEF BookingInv
<1>2. PICK f \in flight[s] :
         /\ flight' = [flight EXCEPT ![s] = {Away(f.asked, "lost", Free, f.gone)}]
         /\ adrift' = adrift \/ adrift' = adrift \union {f.asked}
  BY DEF NoAnswer
<1>3. UNCHANGED <<app, tables, made, proved, history, presses, elsewhere>> /\ Trouble
  BY DEF NoAnswer
<1>4. f.asked \in Requests /\ Held(f.asked, agreed)
  BY <1>1 DEF FlightType, Flights, BookingInv, RequestsHeld
<1>5. /\ FlightType'
      /\ \A z \in Screens : \A g \in flight'[z] : \E h \in flight[z] : g.asked = h.asked
  <2>1. "lost" \in Answers /\ Free \in 0..MaxBy
    BY Constants DEF Answers, Free
  <2> QED BY <1>2, <2>1, AnswerKeeps
<1>6. adrift' \subseteq Requests /\ \A r \in adrift' : Held(r, agreed)
  BY <1>1, <1>2, <1>4 DEF ServerType, BookingInv, RequestsHeld
<1>7. troubles' \in 0..MaxTroubles
  BY <1>1, <1>3, Constants DEF HistoryType, Trouble
<1>8. FormType' /\ OwnType' /\ ServerType' /\ HistoryType'
  BY <1>1, <1>3, <1>6, <1>7, Zenon
     DEF FormType, OwnType, ServerType, HistoryType, app, own, history
<1>9. YesHeld' /\ RequestsHeld' /\ PromiseWasMade'
  BY <1>3, <1>5, <1>6
     DEF BookingInv, YesHeld, RequestsHeld, PromiseWasMade, Held, app, own, history
<1> QED BY <1>5, <1>8, <1>9, TypeParts DEF BookingInv

LEMMA BodyLostKeeps == ASSUME BookingInv, NEW s \in Screens, BodyLost(s) PROVE BookingInv'
<1>1. FormType /\ OwnType /\ FlightType /\ ServerType /\ HistoryType
  BY TypeParts DEF BookingInv
<1>2. PICK f \in flight[s] :
         flight' = [flight EXCEPT ![s] = {Away(f.asked, Bare(f.answer), Free, f.gone)}]
  BY DEF BodyLost
<1>3. UNCHANGED <<app, server, history, presses, elsewhere>> /\ Trouble
  BY DEF BodyLost
<1>4. /\ FlightType'
      /\ \A z \in Screens : \A g \in flight'[z] : \E h \in flight[z] : g.asked = h.asked
  <2>1. Bare(f.answer) \in Answers /\ Free \in 0..MaxBy
    BY Constants DEF Bare, Answers, Free
  <2> QED BY <1>2, <2>1, AnswerKeeps
<1>5. troubles' \in 0..MaxTroubles
  BY <1>1, <1>3, Constants DEF HistoryType, Trouble
<1>6. FormType' /\ OwnType' /\ ServerType' /\ HistoryType'
  BY <1>1, <1>3, <1>5, Zenon
     DEF FormType, OwnType, ServerType, HistoryType, app, own, server, history
<1>7. YesHeld' /\ RequestsHeld' /\ PromiseWasMade'
  BY <1>3, <1>4, PromisesKept DEF app, own, server, history
<1> QED BY <1>4, <1>6, <1>7, TypeParts DEF BookingInv

LEMMA LateKeeps == ASSUME BookingInv, ArrivesLate PROVE BookingInv'
<1>1. FormType /\ OwnType /\ FlightType /\ ServerType /\ HistoryType
  BY TypeParts DEF BookingInv
<1>2. PICK r \in adrift :
         adrift' = adrift \ {r} /\ IF proved THEN Effect(r) ELSE UNCHANGED <<made, tables>>
  BY DEF ArrivesLate
<1>3. UNCHANGED <<app, flight, proved, history, bounds>>
  BY DEF ArrivesLate
<1>4. r \in Requests /\ Held(r, agreed)
  BY <1>1 DEF ServerType, BookingInv, RequestsHeld
<1>5. /\ made' \in [1..MaxIds -> [time : Times, promise : 0..MaxBy, is : BOOLEAN]]
      /\ tables' \in [Times -> 0..Past]
      /\ PromiseWasMade'
  <2>1. CASE UNCHANGED <<made, tables>>
    BY <1>1, <1>3, <2>1 DEF ServerType, BookingInv, PromiseWasMade, history
  <2>2. CASE Effect(r)
    BY <1>3, <1>4, <2>2, EffectKeeps DEF history
  <2> QED BY <1>2, <2>1, <2>2
<1>6. adrift' \subseteq adrift
  BY <1>2
<1>7. adrift' \subseteq Requests
  BY <1>1, <1>6 DEF ServerType
<1>8. FormType' /\ OwnType' /\ FlightType' /\ ServerType' /\ HistoryType'
  BY <1>1, <1>3, <1>5, <1>7, Zenon
     DEF FormType, OwnType, FlightType, ServerType, HistoryType, app, own, history, bounds
<1>9. YesHeld' /\ RequestsHeld'
  BY <1>3, <1>6 DEF BookingInv, YesHeld, RequestsHeld, Held, app, own, history
<1> QED BY <1>5, <1>8, <1>9, TypeParts DEF BookingInv

LEMMA OutsideKeeps == ASSUME BookingInv, SessionEnds \/ ReadRoom \/ Elsewhere PROVE BookingInv'
<1>1. FormType /\ OwnType /\ FlightType /\ ServerType /\ HistoryType
  BY TypeParts DEF BookingInv
<1>2. /\ UNCHANGED <<change, screen, time, carried, own, ids, shown, flight, made, proved,
                     adrift, history, presses>>
      /\ believed' = FALSE \/ UNCHANGED believed
  BY DEF SessionEnds, ReadRoom, Elsewhere, app, server, bounds
<1>3. room' \in [Times -> 0..Past] /\ tables' \in [Times -> 0..Past]
  BY <1>1 DEF FormType, ServerType, SessionEnds, ReadRoom, Elsewhere, app, server
<1>4. elsewhere' \in 0..MaxElsewhere /\ troubles' \in 0..MaxTroubles
  BY <1>1, Constants DEF HistoryType, SessionEnds, ReadRoom, Elsewhere, Trouble, bounds
<1>5. believed' \in BOOLEAN
  BY <1>1, <1>2, Zenon DEF FormType
<1>6. FormType' /\ OwnType' /\ FlightType' /\ ServerType' /\ HistoryType'
  BY <1>1, <1>2, <1>3, <1>4, <1>5, Zenon
     DEF FormType, OwnType, FlightType, ServerType, HistoryType, own, history
<1>7. YesHeld' /\ RequestsHeld' /\ PromiseWasMade'
  BY <1>2, PromisesKept DEF own, history
<1> QED BY <1>6, <1>7, TypeParts DEF BookingInv

-----------------------------------------------------------------------------
LEMMA StepInv == ASSUME BookingInv, [Next]_vars PROVE BookingInv'
<1>1. CASE Diner
  BY <1>1, DinerKeeps, BackKeeps, PressKeeps, AcceptKeeps DEF Diner
<1>2. CASE Network
  BY <1>2, OutsideKeeps, LateKeeps, AnsweredKeeps, ServeKeeps, BodyLostKeeps,
     NoAnswerKeeps DEF Network
<1>3. CASE UNCHANGED vars
  <2>1. FormType' /\ OwnType' /\ FlightType' /\ ServerType' /\ HistoryType'
    BY <1>3, TypeParts, Zenon
       DEF BookingInv, FormType, OwnType, FlightType, ServerType, HistoryType,
           vars, app, own, server, history, bounds
  <2>2. YesHeld' /\ RequestsHeld' /\ PromiseWasMade'
    BY <1>3, PromisesKept DEF vars, app, own, server, history
  <2> QED BY <2>1, <2>2, TypeParts DEF BookingInv
<1> QED BY <1>1, <1>2, <1>3 DEF Next

(* Every value stays in its set: instants within the horizon, one request   *)
(* away per screen, an id for every try of a screen (useBookingSubmit.ts).  *)
THEOREM TypeCorrect == Spec => []TypeOK
<1>1. BookingInv => TypeOK
  BY DEF BookingInv
<1> QED BY <1>1, InitInv, StepInv, PTL DEF Spec

(* A booking holds its diner only to what they agreed to, for that time and *)
(* to that instant, whichever screen sent it and whenever it arrived        *)
(* (useBookingSubmit.ts 319-331).                                           *)
THEOREM OnlyWhatWasPromised == Spec => []PromiseWasMade
<1>1. BookingInv => PromiseWasMade
  BY DEF BookingInv
<1> QED BY <1>1, InitInv, StepInv, PTL DEF Spec

-----------------------------------------------------------------------------
(* No booking is forgotten.  A command id belongs to one screen, only the   *)
(* screen in front is answered, and a request that others may still carry   *)
(* out is either away unanswered or its doubt has been dropped.             *)

IdsApart ==
   /\ id["form"] = 1 /\ id["confirm"] <= ids
   /\ \A s \in Screens : \A f \in flight[s] : f.asked.id = id[s]
   /\ flight["confirm"] # {} \/ screen = "confirm" => id["confirm"] # 1

OneInFront ==
   screen = "form" => /\ \A f \in flight["confirm"] : f.gone
                      /\ unknown["confirm"] => id["confirm"] \in dropped

ShownLast == screen \in Screens => shown = {}

AdriftOwned ==
   \A r \in adrift : \/ r.id \in dropped
                     \/ \E s \in Screens : \E f \in flight[s] : f.asked.id = r.id /\ f.answer = "lost"

(* What the server refused it has not made, also not from an earlier try.   *)
Refusals == {"refused", "promise", "taken", "past"}

RefusedUnmade ==
   \A s \in Screens : \A f \in flight[s] :
      f.answer \in Refusals => ~made[f.asked.id].is \/ f.asked.id \in dropped

DoubtInv == IdsApart /\ OneInFront /\ ShownLast /\ AdriftOwned /\ RefusedUnmade /\ NeverForgotten

Accounted(i) ==
   \/ \E r \in shown : r.id = i
   \/ \E s \in Screens : id[s] = i /\ unknown[s] /\ screen \in Screens
   \/ \E s \in Screens : \E f \in flight[s] : f.asked.id = i
   \/ i \in dropped

LEMMA ForgottenNever == /\ NeverForgotten <=> \A i \in 1..MaxIds : made[i].is => Accounted(i)
                        /\ NeverForgotten' <=> \A i \in 1..MaxIds : made'[i].is => Accounted(i)'
<1>1. NeverForgotten <=> \A i \in 1..MaxIds : made[i].is => Accounted(i)
  BY DEF NeverForgotten, Accounted
<1>2. NeverForgotten' <=> \A i \in 1..MaxIds : made'[i].is => Accounted(i)'
  BY DEF NeverForgotten, Accounted
<1> QED BY <1>1, <1>2

LEMMA AdriftAccounted ==
   ASSUME DoubtInv, NEW r \in adrift PROVE Accounted(r.id)
BY DEF DoubtInv, AdriftOwned, Accounted

LEMMA InitDoubt == Init => DoubtInv
<1> SUFFICES ASSUME Init PROVE DoubtInv
  OBVIOUS
<1>1. \A i \in 1..MaxIds : ~made[i].is
  BY DEF Init, Nothing
<1>2. id["form"] = 1 /\ id["confirm"] = 1 /\ ids = 1 /\ ~unknown["confirm"] /\ screen = "form"
  BY DEF Init, Screens
<1>3. \A s \in Screens : flight[s] = {}
  BY DEF Init
<1> QED BY <1>1, <1>2, <1>3
    DEF Init, Screens, DoubtInv, IdsApart, OneInFront, ShownLast, AdriftOwned, RefusedUnmade,
        NeverForgotten

(* Steps that send nothing, answer nothing, and leave no screen.            *)
LEMMA QuietDoubt ==
   ASSUME BookingInv, DoubtInv, ids' \in Nat, ids <= ids',
          UNCHANGED <<id, unknown, flight, made, adrift, shown, dropped, screen>>
   PROVE  DoubtInv'
<1>1. id["confirm"] \in Nat /\ ids \in Nat
  BY DEF BookingInv, TypeOK, Screens
<1>2. IdsApart'
  BY <1>1 DEF DoubtInv, IdsApart
<1>3. OneInFront' /\ ShownLast' /\ AdriftOwned' /\ RefusedUnmade' /\ NeverForgotten'
  BY DEF DoubtInv, OneInFront, ShownLast, AdriftOwned, RefusedUnmade, NeverForgotten
<1> QED BY <1>2, <1>3 DEF DoubtInv

LEMMA SendDoubt ==
   ASSUME BookingInv, DoubtInv, NEW s \in Screens, NEW by, screen = s, flight[s] = {},
          Send(s, by), UNCHANGED <<made, adrift, shown, dropped>>
   PROVE  DoubtInv'
<1> DEFINE sent == Away(Request(s, id[s], by), "none", Free, FALSE)
<1>1. /\ flight' = [flight EXCEPT ![s] = {sent}] /\ sent.asked.id = id[s] /\ sent.answer = "none"
      /\ UNCHANGED <<screen, id, unknown, ids>>
  BY DEF Send, Away, Request
<1>2. flight \in [Screens -> SUBSET Flights]
  BY DEF BookingInv, TypeOK
<1> HIDE DEF sent
<1>3. \A z \in Screens : flight'[z] = IF z = s THEN {sent} ELSE flight[z]
  BY <1>1, <1>2
<1>4. IdsApart'
  BY <1>1, <1>3 DEF DoubtInv, IdsApart, Screens
<1>5. OneInFront' /\ ShownLast' /\ RefusedUnmade'
  BY <1>1, <1>3 DEF DoubtInv, OneInFront, ShownLast, RefusedUnmade, Refusals, Screens
<1>6. AdriftOwned'
  BY <1>1, <1>3 DEF DoubtInv, AdriftOwned
<1>7. NeverForgotten'
  <2> SUFFICES ASSUME NEW i \in 1..MaxIds, Accounted(i) PROVE Accounted(i)'
    BY ForgottenNever DEF DoubtInv
  <2> QED BY <1>1, <1>3 DEF Accounted
<1> QED BY <1>4, <1>5, <1>6, <1>7 DEF DoubtInv

LEMMA DetourDoubt ==
   ASSUME BookingInv, DoubtInv, NEW by, screen = "form",
          Detour(by), UNCHANGED <<made, adrift, shown, dropped>>
   PROVE  DoubtInv'
<1>1. /\ id \in [Screens -> 1..MaxIds] /\ unknown \in [Screens -> BOOLEAN] /\ ids \in 1..MaxIds
  BY DEF BookingInv, TypeOK
<1>2. /\ screen' = "confirm" /\ ids' = ids + 1 /\ UNCHANGED flight /\ flight["confirm"] = {}
      /\ id'["form"] = id["form"] /\ id'["confirm"] = ids + 1
      /\ unknown'["form"] = unknown["form"] /\ ~unknown'["confirm"]
  BY <1>1 DEF Detour, Screens
<1>3. IdsApart'
  BY <1>1, <1>2, Constants DEF DoubtInv, IdsApart, Screens
<1>4. OneInFront' /\ ShownLast' /\ AdriftOwned' /\ RefusedUnmade'
  BY <1>2 DEF DoubtInv, OneInFront, ShownLast, AdriftOwned, RefusedUnmade, Screens
<1>5. NeverForgotten'
  <2> SUFFICES ASSUME NEW i \in 1..MaxIds, Accounted(i) PROVE Accounted(i)'
    BY ForgottenNever DEF DoubtInv
  <2>1. ASSUME NEW s \in Screens, id[s] = i, unknown[s] PROVE Accounted(i)'
    <3>1. CASE s = "form"
      BY <1>2, <2>1, <3>1 DEF Accounted, Screens
    <3>2. CASE s = "confirm"
      BY <2>1, <3>2 DEF Accounted, DoubtInv, OneInFront
    <3> QED BY <3>1, <3>2 DEF Screens
  <2> QED BY <1>2, <2>1 DEF Accounted
<1> QED BY <1>3, <1>4, <1>5 DEF DoubtInv

LEMMA ConfirmDoubt ==
   ASSUME BookingInv, DoubtInv, NEW s \in Screens, NEW by, confirm(s, by)
   PROVE  DoubtInv'
<1>1. /\ screen = s /\ flight[s] = {} /\ ids \in Nat
      /\ UNCHANGED <<shown, made, adrift, dropped>>
  BY DEF confirm, mayConfirm, BookingInv, TypeOK
<1>2. CASE ~freeByAnswered(by, freeByNeeded(s))
  BY <1>1, <1>2, QuietDoubt DEF confirm
<1>3. CASE freeByAnswered(by, freeByNeeded(s)) /\ s = "form" /\ ~change /\ ~believed
  BY <1>1, <1>3, DetourDoubt DEF confirm
<1>4. CASE freeByAnswered(by, freeByNeeded(s)) /\ ~(s = "form" /\ ~change /\ ~believed)
  BY <1>1, <1>4, SendDoubt DEF confirm
<1> QED BY <1>2, <1>3, <1>4

LEMMA DinerDoubt ==
   ASSUME BookingInv, DoubtInv,
          \/ pickTime \/ Verify
          \/ \E s \in Screens : Press(s) \/ acceptFreeBy(s) \/ declineFreeBy(s)
   PROVE  DoubtInv'
<1>1. ids \in Nat
  BY DEF BookingInv, TypeOK
<1>2. CASE pickTime \/ Verify \/ \E s \in Screens : declineFreeBy(s)
  BY <1>1, <1>2, QuietDoubt DEF pickTime, Verify, declineFreeBy, own, server, history
<1>3. ASSUME NEW s \in Screens, Press(s) PROVE DoubtInv'
  BY <1>3, ConfirmDoubt DEF Press
<1>4. ASSUME NEW s \in Screens, acceptFreeBy(s) PROVE DoubtInv'
  <2>1. CASE confirm(s, ask[s])
    BY <2>1, ConfirmDoubt
  <2>2. CASE ~confirm(s, ask[s])
    BY <1>1, <1>4, <2>2, QuietDoubt DEF acceptFreeBy, server
  <2> QED BY <2>1, <2>2
<1> QED BY <1>2, <1>3, <1>4

(* A screen left behind: its request is unwatched, its doubt dropped.       *)
LEMMA BackDoubt == ASSUME BookingInv, DoubtInv, Back PROVE DoubtInv'
<1>1. /\ flight \in [Screens -> SUBSET Flights] /\ unknown \in [Screens -> BOOLEAN]
      /\ screen \in Screens
  BY DEF BookingInv, TypeOK, Back
<1> DEFINE left == {Away(f.asked, f.answer, f.by, TRUE) : f \in flight[screen]}
<1>2. \A g \in left : g.gone /\ \E f \in flight[screen] : g.asked = f.asked /\ g.answer = f.answer
  BY DEF Away
<1>3. \A f \in flight[screen] : \E g \in left : g.asked = f.asked /\ g.answer = f.answer
  <2> TAKE f \in flight[screen]
  <2> DEFINE g == Away(f.asked, f.answer, f.by, TRUE)
  <2>1. g \in left /\ g.asked = f.asked /\ g.answer = f.answer
    BY DEF Away
  <2> QED BY <2>1
<1>4. /\ flight' = [flight EXCEPT ![screen] = left]
      /\ screen' = IF screen = "confirm" THEN "form" ELSE "left"
      /\ dropped' = IF unknown[screen] \/ flight[screen] # {}
                    THEN dropped \union {id[screen]} ELSE dropped
      /\ UNCHANGED <<id, unknown, ids, shown, made, adrift>>
  BY DEF Back, own, server
<1> HIDE DEF left
<1>5. \A z \in Screens : flight'[z] = IF z = screen THEN left ELSE flight[z]
  BY <1>1, <1>4
<1>6. dropped \subseteq dropped' /\ (unknown[screen] => id[screen] \in dropped')
      /\ (screen' = "form" => screen = "confirm") /\ (screen' \in Screens => screen' = "form")
      /\ screen' # "confirm"
  BY <1>4 DEF Screens
<1>7. IdsApart'
  <2>1. \A s \in Screens : \A f \in flight'[s] : f.asked.id = id[s]
    BY <1>2, <1>5 DEF DoubtInv, IdsApart
  <2>2. flight'["confirm"] # {} => flight["confirm"] # {}
    BY <1>2, <1>5 DEF Screens
  <2> QED BY <1>4, <1>6, <2>1, <2>2 DEF DoubtInv, IdsApart
<1>8. OneInFront' /\ ShownLast'
  <2>1. ShownLast'
    BY <1>1, <1>4 DEF DoubtInv, ShownLast
  <2>2. OneInFront'
    BY <1>1, <1>2, <1>4, <1>5, <1>6 DEF OneInFront, Screens
  <2> QED BY <2>1, <2>2
<1>9. AdriftOwned'
  <2> SUFFICES ASSUME NEW r \in adrift, r.id \notin dropped
               PROVE  \E s \in Screens : \E f \in flight'[s] : f.asked.id = r.id /\ f.answer = "lost"
    BY <1>4, <1>6 DEF AdriftOwned
  <2>1. PICK s \in Screens : \E f \in flight[s] : f.asked.id = r.id /\ f.answer = "lost"
    BY DEF DoubtInv, AdriftOwned
  <2> QED BY <1>3, <1>5, <2>1
<1>10. RefusedUnmade'
  BY <1>2, <1>4, <1>5, <1>6 DEF DoubtInv, RefusedUnmade
<1>11. NeverForgotten'
  <2> SUFFICES ASSUME NEW i \in 1..MaxIds, Accounted(i) PROVE Accounted(i)'
    BY <1>4, ForgottenNever DEF DoubtInv
  <2>1. ASSUME NEW s \in Screens, NEW f \in flight[s], f.asked.id = i PROVE Accounted(i)'
    BY <1>3, <1>5, <2>1 DEF Accounted
  <2>2. ASSUME NEW s \in Screens, id[s] = i, unknown[s] PROVE Accounted(i)'
    <3>1. CASE s = screen
      BY <1>6, <2>2, <3>1 DEF Accounted
    <3>2. CASE s # screen /\ screen = "form"
      BY <1>6, <2>2, <3>2 DEF Accounted, Screens, DoubtInv, OneInFront
    <3>3. CASE screen = "confirm"
      BY <1>4, <1>6, <2>2, <3>3 DEF Accounted, Screens
    <3> QED BY <1>1, <3>1, <3>2, <3>3 DEF Screens
  <2> QED BY <1>4, <1>6, <2>1, <2>2 DEF Accounted
<1> QED BY <1>7, <1>8, <1>9, <1>10, <1>11 DEF DoubtInv

(* An answer reaches its screen, or what is left of it.                     *)
LEMMA AnsweredDoubt ==
   ASSUME BookingInv, DoubtInv, NEW s \in Screens, Answered(s) PROVE DoubtInv'
<1>1. /\ flight \in [Screens -> SUBSET Flights] /\ unknown \in [Screens -> BOOLEAN]
      /\ \A z \in Screens : \A f, g \in flight[z] : f = g
      /\ id \in [Screens -> 1..MaxIds]
  BY DEF BookingInv, TypeOK
<1>2. PICK f \in flight[s] :
         /\ f.answer # "none"
         /\ IF f.answer = "made"
            THEN /\ screen' = "success" /\ shown' = {f.asked}
                 /\ dropped' = dropped \union {id[z] : z \in {y \in Screens : unknown[y]}}
                 /\ UNCHANGED <<own, believed, time>>
            ELSE /\ UNCHANGED shown
                 /\ IF f.gone THEN failUnseen(f) ELSE fail(s, f)
                 /\ dropped' = dropped
                       \union (IF ~f.gone /\ Judged(f) THEN {} ELSE {f.asked.id})
                       \union (IF screen' = "left" THEN {id["form"]} ELSE {})
  BY DEF Answered
<1>3. /\ flight' = [flight EXCEPT ![s] = {}] /\ screen \in Screens
      /\ UNCHANGED <<ids, made, adrift>>
  BY DEF Answered, server
<1>4. \A z \in Screens : flight'[z] = IF z = s THEN {} ELSE flight[z]
  BY <1>1, <1>3
<1>5. /\ dropped \subseteq dropped' /\ UNCHANGED id
      /\ \A z \in Screens \ {s} : unknown'[z] = unknown[z]
      /\ screen' = screen \/ screen' \in {"success", "left", "form"}
      /\ f.asked.id = id[s]
  BY <1>1, <1>2, <1>3 DEF own, fail, failUnseen, DoubtInv, IdsApart
   (* The one way back to the form from here, and the only answer that is   *)
   (* neither shown nor counted as dropped.                                 *)
<1>6. ASSUME screen' = "form", screen # "form"
      PROVE  s = "confirm" /\ ~f.gone /\ f.answer = "taken" /\ ~unknown'["confirm"]
  <2>1. f.answer # "made" /\ ~f.gone /\ fail(s, f)
    BY <1>2, <1>6 DEF failUnseen
  <2>2. s = "confirm" /\ f.answer = "taken"
    BY <1>6, <2>1 DEF fail
  <2>3. unknown'["confirm"] = (f.answer = "lost")
    BY <1>1, <2>1, <2>2 DEF fail, doubt
  <2> QED BY <2>1, <2>2, <2>3
<1>7. ASSUME f.answer # "made", f.asked.id \notin dropped'
      PROVE  /\ ~f.gone /\ Judged(f) /\ screen' \in Screens
             /\ unknown'[s] <=> f.answer = "lost"
  <2>1. ~f.gone /\ Judged(f) /\ fail(s, f)
    BY <1>2, <1>7
  <2>2. screen' \in Screens
    BY <1>3, <2>1 DEF fail, Screens
  <2>3. unknown'[s] = doubt(f.answer)
    BY <1>1, <2>1 DEF fail
  <2> QED BY <2>1, <2>2, <2>3 DEF doubt
<1>8. IdsApart'
  BY <1>3, <1>4, <1>5 DEF DoubtInv, IdsApart, Screens
<1>9. OneInFront'
  <2> SUFFICES ASSUME screen' = "form"
               PROVE  /\ \A g \in flight'["confirm"] : g.gone
                      /\ unknown'["confirm"] => id["confirm"] \in dropped'
    BY <1>5 DEF OneInFront
  <2>1. CASE screen # "form"
    BY <1>4, <1>6, <2>1 DEF Screens
  <2>2. CASE screen = "form"
    <3>1. CASE s = "form"
      BY <1>4, <1>5, <2>2, <3>1 DEF DoubtInv, OneInFront, Screens
    <3>2. CASE s = "confirm"
      <4>1. f.gone
        BY <2>2, <3>2 DEF DoubtInv, OneInFront
      <4>2. id["confirm"] \in dropped' \/ f.answer = "made"
        BY <1>2, <1>5, <3>2, <4>1
      <4>3. f.answer # "made"
        BY <1>2
      <4> QED BY <1>4, <3>2, <4>2, <4>3 DEF Screens
    <3> QED BY <3>1, <3>2 DEF Screens
  <2> QED BY <2>1, <2>2
<1>10. ShownLast'
  BY <1>2, <1>3 DEF DoubtInv, ShownLast, Screens
<1>11. AdriftOwned'
  <2> SUFFICES ASSUME NEW r \in adrift, r.id \notin dropped'
               PROVE  \E z \in Screens : \E g \in flight'[z] : g.asked.id = r.id /\ g.answer = "lost"
    BY <1>3 DEF AdriftOwned
  <2>1. PICK z \in Screens : \E g \in flight[z] : g.asked.id = r.id /\ g.answer = "lost"
    BY <1>5 DEF DoubtInv, AdriftOwned
  <2>2. CASE z = s
    <3>1. f.asked.id = r.id /\ f.answer = "lost"
      BY <1>1, <2>1, <2>2
    <3>2. ~Judged(f)
      BY <3>1 DEF Judged
    <3> QED BY <1>7, <3>1, <3>2
  <2>3. CASE z # s
    BY <1>4, <2>1, <2>3
  <2> QED BY <2>2, <2>3
<1>12. RefusedUnmade'
  BY <1>3, <1>4, <1>5 DEF DoubtInv, RefusedUnmade
<1>13. NeverForgotten'
  <2> SUFFICES ASSUME NEW i \in 1..MaxIds, made[i].is, Accounted(i) PROVE Accounted(i)'
    BY <1>3, ForgottenNever DEF DoubtInv
  <2>1. CASE i = f.asked.id
    <3>1. CASE f.answer = "made"
      BY <1>2, <2>1, <3>1 DEF Accounted
    <3>2. CASE f.answer # "made" /\ i \notin dropped'
      <4>1. Judged(f) /\ screen' \in Screens /\ (unknown'[s] <=> f.answer = "lost")
        BY <1>7, <2>1, <3>2
      <4>2. f.answer = "lost"
        BY <1>5, <2>1, <3>2, <4>1 DEF Judged, DoubtInv, RefusedUnmade, Refusals
      <4> QED BY <1>5, <2>1, <4>1, <4>2 DEF Accounted
    <3> QED BY <3>1, <3>2 DEF Accounted
  <2>2. CASE i # f.asked.id
    <3>1. ASSUME NEW r \in shown, r.id = i PROVE Accounted(i)'
      BY <1>3 DEF DoubtInv, ShownLast
    <3>2. ASSUME NEW z \in Screens, NEW g \in flight[z], g.asked.id = i PROVE Accounted(i)'
      <4>1. z # s
        BY <1>1, <2>2, <3>2
      <4> QED BY <1>4, <3>2, <4>1 DEF Accounted
    <3>3. ASSUME NEW z \in Screens, id[z] = i, unknown[z] PROVE Accounted(i)'
      <4>1. z # s /\ unknown'[z] = unknown[z]
        BY <1>5, <2>2, <3>3
      <4>2. CASE screen' \in Screens
        BY <1>5, <3>3, <4>1, <4>2 DEF Accounted
      <4>3. CASE screen' = "success"
        <5>1. f.answer = "made"
          BY <1>2, <1>3, <4>3 DEF fail, failUnseen, Screens
        <5>2. id[z] \in dropped'
          BY <1>2, <3>3, <5>1
        <5> QED BY <3>3, <5>2 DEF Accounted
      <4>4. CASE screen' = "left"
        <5>1. f.answer # "made"
          BY <1>2, <4>4
        <5>2. id["form"] \in dropped'
          BY <1>2, <4>4, <5>1
        <5>3. CASE z = "form"
          BY <3>3, <5>2, <5>3 DEF Accounted
        <5>4. CASE z = "confirm"
          <6>1. screen = "form"
            BY <1>2, <1>3, <4>4 DEF fail, failUnseen, Screens
          <6> QED BY <1>5, <3>3, <5>4, <6>1 DEF Accounted, DoubtInv, OneInFront
        <5> QED BY <5>3, <5>4 DEF Screens
      <4> QED BY <1>3, <1>5, <4>2, <4>3, <4>4 DEF Screens
    <3> QED BY <1>5, <3>1, <3>2, <3>3 DEF Accounted
  <2> QED BY <2>1, <2>2
<1> QED BY <1>8, <1>9, <1>10, <1>11, <1>12, <1>13 DEF DoubtInv

-----------------------------------------------------------------------------
(* The server, and requests that arrive late.                               *)

(* A request carried out makes a booking only of its own id.                *)
LEMMA EffectMakes ==
   ASSUME BookingInv, NEW r \in Requests, Effect(r) \/ UNCHANGED <<made, tables>>
   PROVE  \A i \in 1..MaxIds : i # r.id => made'[i] = made[i]
<1>1. made \in [1..MaxIds -> [time : Times, promise : 0..MaxBy, is : BOOLEAN]]
  BY DEF BookingInv, TypeOK
<1> QED BY <1>1 DEF Effect

(* The request away on screen s gets an answer, and may have been carried   *)
(* out.  Its id is no other screen's.                                       *)
LEMMA ServedDoubt ==
   ASSUME BookingInv, DoubtInv, NEW s \in Screens, NEW f \in flight[s], NEW a, NEW by,
          flight' = [flight EXCEPT ![s] = {Away(f.asked, a, by, f.gone)}],
          UNCHANGED <<screen, id, unknown, ids, shown, dropped>>,
          \/ UNCHANGED <<made, adrift>> /\ a \in {"unproved", "throttled", "unread"}
          \/ /\ UNCHANGED <<made, adrift>> /\ a = "refused"
             /\ ~made[f.asked.id].is \/ f.asked.id \in dropped
          \/ UNCHANGED <<made, adrift>> /\ a = "lost"
          \/ UNCHANGED made /\ a = "lost" /\ adrift' = adrift \union {f.asked}
          \/ Effect(f.asked) /\ UNCHANGED adrift /\ a = Verdict(f.asked),
          f.answer # "lost"
   PROVE  DoubtInv'
<1>1. /\ flight \in [Screens -> SUBSET Flights] /\ id \in [Screens -> 1..MaxIds]
      /\ \A z \in Screens : \A g, h \in flight[z] : g = h
      /\ made \in [1..MaxIds -> [time : Times, promise : 0..MaxBy, is : BOOLEAN]]
  BY DEF BookingInv, TypeOK
<1>2. f.asked \in Requests /\ f.asked.id = id[s] /\ f.asked.id \in 1..MaxIds
  BY <1>1 DEF Flights, DoubtInv, IdsApart
<1> DEFINE g == Away(f.asked, a, by, f.gone)
<1>3. flight' = [flight EXCEPT ![s] = {g}] /\ g.asked = f.asked /\ g.answer = a /\ g.gone = f.gone
  BY DEF Away
<1> HIDE DEF g
<1>4. \A z \in Screens : flight'[z] = IF z = s THEN {g} ELSE flight[z]
  BY <1>1, <1>3
<1>5. \A i \in 1..MaxIds : i # f.asked.id => made'[i] = made[i]
  BY <1>2, EffectMakes DEF Effect
<1>6. \A z \in Screens \ {s} : \A h \in flight[z] : h.asked.id # f.asked.id /\ h.asked.id \in 1..MaxIds
  <2> SUFFICES ASSUME NEW z \in Screens \ {s}, NEW h \in flight[z]
               PROVE  h.asked.id # f.asked.id /\ h.asked.id \in 1..MaxIds
    OBVIOUS
  <2>1. h.asked.id = id[z] /\ flight["confirm"] # {}
    BY DEF DoubtInv, IdsApart, Screens
  <2> QED BY <1>1, <1>2, <2>1 DEF DoubtInv, IdsApart, Screens
<1>7. IdsApart' /\ OneInFront' /\ ShownLast'
  BY <1>2, <1>3, <1>4 DEF DoubtInv, IdsApart, OneInFront, ShownLast
<1>8. AdriftOwned'
  <2> SUFFICES ASSUME NEW r \in adrift', r.id \notin dropped
               PROVE  \E z \in Screens : \E h \in flight'[z] : h.asked.id = r.id /\ h.answer = "lost"
    BY DEF AdriftOwned
  <2>1. CASE r \in adrift
    <3>1. PICK z \in Screens : \E h \in flight[z] : h.asked.id = r.id /\ h.answer = "lost"
      BY <2>1 DEF DoubtInv, AdriftOwned
    <3>2. z # s
      BY <1>1, <3>1
    <3> QED BY <1>4, <3>1, <3>2
  <2>2. CASE r \notin adrift
    <3>1. r = f.asked /\ a = "lost"
      BY <2>2
    <3> QED BY <1>3, <1>4, <3>1
  <2> QED BY <2>1, <2>2
<1>9. a \in Refusals => UNCHANGED made /\ (~made[f.asked.id].is \/ f.asked.id \in dropped)
  BY DEF Effect, Verdict, Refusals
<1>10. RefusedUnmade'
  <2> SUFFICES ASSUME NEW z \in Screens, NEW h \in flight'[z], h.answer \in Refusals
               PROVE  ~made'[h.asked.id].is \/ h.asked.id \in dropped
    BY DEF RefusedUnmade
  <2>1. CASE z = s
    BY <1>3, <1>4, <1>9, <2>1
  <2>2. CASE z # s
    BY <1>4, <1>5, <1>6, <2>2 DEF DoubtInv, RefusedUnmade
  <2> QED BY <2>1, <2>2
<1>11. NeverForgotten'
  <2> SUFFICES ASSUME NEW i \in 1..MaxIds, made'[i].is PROVE Accounted(i)'
    BY ForgottenNever DEF DoubtInv
  <2>1. CASE i = f.asked.id
    BY <1>3, <1>4, <2>1 DEF Accounted
  <2>2. CASE i # f.asked.id
    <3>1. Accounted(i)
      BY <1>5, <2>2, ForgottenNever DEF DoubtInv
    <3>2. ASSUME NEW z \in Screens, NEW h \in flight[z], h.asked.id = i PROVE Accounted(i)'
      <4>1. z # s
        BY <1>1, <2>2, <3>2
      <4> QED BY <1>4, <3>2, <4>1 DEF Accounted
    <3> QED BY <3>1, <3>2 DEF Accounted
  <2> QED BY <2>1, <2>2
<1> QED BY <1>7, <1>8, <1>10, <1>11 DEF DoubtInv

LEMMA ServeDoubt == ASSUME BookingInv, DoubtInv, NEW s \in Screens, Serve(s) PROVE DoubtInv'
<1>1. PICK f \in flight[s] :
         /\ f.answer = "none"
         /\ \/ /\ ~proved /\ flight' = [flight EXCEPT ![s] = {Away(f.asked, "unproved", f.by, f.gone)}]
               /\ UNCHANGED <<made, tables, troubles>>
            \/ /\ Trouble /\ \E answer \in {"throttled", "refused"} :
                     /\ answer = "refused" => ~made[f.asked.id].is
                     /\ flight' = [flight EXCEPT ![s] = {Away(f.asked, answer, f.by, f.gone)}]
               /\ UNCHANGED <<made, tables>>
            \/ /\ proved /\ Effect(f.asked)
               /\ flight' = [flight EXCEPT ![s] = {Away(f.asked, Verdict(f.asked),
                     IF Verdict(f.asked) = "promise" THEN tables[f.asked.time] ELSE Free, f.gone)}]
               /\ UNCHANGED troubles
  BY DEF Serve
<1>2. UNCHANGED <<screen, id, unknown, ids, shown, dropped, adrift>>
  BY DEF Serve, app, own, history
<1>3. CASE flight' = [flight EXCEPT ![s] = {Away(f.asked, "unproved", f.by, f.gone)}] /\ UNCHANGED made
  BY <1>1, <1>2, <1>3, ServedDoubt
<1>4. ASSUME NEW answer \in {"throttled", "refused"}, answer = "refused" => ~made[f.asked.id].is,
             flight' = [flight EXCEPT ![s] = {Away(f.asked, answer, f.by, f.gone)}], UNCHANGED made
      PROVE  DoubtInv'
  BY <1>1, <1>2, <1>4, ServedDoubt
<1>5. CASE /\ Effect(f.asked)
           /\ flight' = [flight EXCEPT ![s] = {Away(f.asked, Verdict(f.asked),
                     IF Verdict(f.asked) = "promise" THEN tables[f.asked.time] ELSE Free, f.gone)}]
  BY <1>1, <1>2, <1>5, ServedDoubt
<1> QED BY <1>1, <1>3, <1>4, <1>5

LEMMA BodyLostDoubt == ASSUME BookingInv, DoubtInv, NEW s \in Screens, BodyLost(s) PROVE DoubtInv'
<1>1. PICK f \in flight[s] :
         /\ f.answer \in {"made", "promise", "taken", "past", "unproved"}
         /\ flight' = [flight EXCEPT ![s] = {Away(f.asked, Bare(f.answer), Free, f.gone)}]
  BY DEF BodyLost
<1>2. UNCHANGED <<screen, id, unknown, ids, shown, dropped, made, adrift>>
  BY DEF BodyLost, app, own, server, history
<1>3. f.answer \in Refusals => ~made[f.asked.id].is \/ f.asked.id \in dropped
  BY DEF DoubtInv, RefusedUnmade
<1>4. CASE f.answer \in {"made", "unproved"}
  <2>1. Bare(f.answer) \in {"throttled", "unread"}
    BY <1>4 DEF Bare
  <2> QED BY <1>1, <1>2, <2>1, ServedDoubt
<1>5. CASE f.answer \in {"promise", "taken", "past"}
  <2>1. Bare(f.answer) = "refused" /\ f.answer \in Refusals
    BY <1>5 DEF Bare, Refusals
  <2> QED BY <1>1, <1>2, <1>3, <2>1, ServedDoubt
<1> QED BY <1>1, <1>4, <1>5

LEMMA NoAnswerDoubt == ASSUME BookingInv, DoubtInv, NEW s \in Screens, NoAnswer(s) PROVE DoubtInv'
<1>1. PICK f \in flight[s] :
         /\ f.answer # "lost"
         /\ flight' = [flight EXCEPT ![s] = {Away(f.asked, "lost", Free, f.gone)}]
         /\ UNCHANGED adrift \/ adrift' = adrift \union {f.asked}
  BY DEF NoAnswer
<1>2. UNCHANGED <<screen, id, unknown, ids, shown, dropped, made>>
  BY DEF NoAnswer, app, own, history
<1> QED BY <1>1, <1>2, ServedDoubt

LEMMA LateDoubt == ASSUME BookingInv, DoubtInv, ArrivesLate PROVE DoubtInv'
<1>1. PICK r \in adrift : adrift' = adrift \ {r} /\ (Effect(r) \/ UNCHANGED <<made, tables>>)
  BY DEF ArrivesLate
<1>2. UNCHANGED <<screen, id, unknown, ids, shown, dropped, flight>>
  BY DEF ArrivesLate, app, own, history
<1>3. /\ flight \in [Screens -> SUBSET Flights] /\ id \in [Screens -> 1..MaxIds]
      /\ \A z \in Screens : \A g, h \in flight[z] : g = h
      /\ adrift \subseteq Requests
  BY DEF BookingInv, TypeOK
<1>4. r \in Requests /\ \A i \in 1..MaxIds : i # r.id => made'[i] = made[i]
  BY <1>1, <1>3, EffectMakes
<1>5. IdsApart' /\ OneInFront' /\ ShownLast' /\ AdriftOwned'
  BY <1>1, <1>2 DEF DoubtInv, IdsApart, OneInFront, ShownLast, AdriftOwned
<1>6. RefusedUnmade'
  <2> SUFFICES ASSUME NEW s \in Screens, NEW f \in flight[s], f.answer \in Refusals,
                      f.asked.id \notin dropped
               PROVE  ~made'[f.asked.id].is
    BY <1>2 DEF RefusedUnmade
  <2>1. f.asked.id = id[s] /\ f.asked.id \in 1..MaxIds
    BY <1>3 DEF DoubtInv, IdsApart
  <2>2. f.asked.id # r.id
    <3> SUFFICES ASSUME f.asked.id = r.id PROVE FALSE
      OBVIOUS
    <3>1. PICK z \in Screens : \E h \in flight[z] : h.asked.id = r.id /\ h.answer = "lost"
      BY DEF DoubtInv, AdriftOwned
    <3>2. z # s
      BY <1>3, <3>1 DEF Refusals
    <3>3. id[z] = id[s] /\ flight["confirm"] # {}
      BY <2>1, <3>1, <3>2 DEF DoubtInv, IdsApart, Screens
    <3> QED BY <3>2, <3>3 DEF DoubtInv, IdsApart, Screens
  <2> QED BY <1>4, <2>1, <2>2 DEF DoubtInv, RefusedUnmade
<1>7. NeverForgotten'
  <2> SUFFICES ASSUME NEW i \in 1..MaxIds, made'[i].is PROVE Accounted(i)'
    BY ForgottenNever
  <2>1. Accounted(i)
    BY <1>1, <1>4, AdriftAccounted, ForgottenNever DEF DoubtInv
  <2> QED BY <1>2, <2>1 DEF Accounted
<1> QED BY <1>5, <1>6, <1>7 DEF DoubtInv

LEMMA StepDoubt == ASSUME BookingInv, DoubtInv, [Next]_vars PROVE DoubtInv'
<1>1. ids \in Nat
  BY DEF BookingInv, TypeOK
<1>2. CASE SessionEnds \/ ReadRoom \/ Elsewhere \/ UNCHANGED vars
  BY <1>1, <1>2, QuietDoubt
     DEF SessionEnds, ReadRoom, Elsewhere, vars, app, own, server, history
<1>3. CASE Diner
  BY <1>3, DinerDoubt, BackDoubt DEF Diner
<1>4. CASE Network
  BY <1>2, <1>4, LateDoubt, AnsweredDoubt, ServeDoubt, BodyLostDoubt,
     NoAnswerDoubt DEF Network
<1> QED BY <1>2, <1>3, <1>4 DEF Next

(* A booking made is shown, awaited or in doubt on the screen that has its  *)
(* id, unless its doubt was dropped unjudged or its success came without a  *)
(* body and was taken for a failure, however tries, answers and requests    *)
(* that arrive late cross (useBookingSubmit.ts 130-178, 279;                *)
(* app/reserve/confirm.tsx 114).                                            *)
THEOREM NoBookingIsForgotten == Spec => []NeverForgotten
<1>1. BookingInv /\ DoubtInv => NeverForgotten
  BY DEF DoubtInv
<1> QED BY <1>1, InitInv, StepInv, InitDoubt, StepDoubt, PTL DEF Spec
=============================================================================
