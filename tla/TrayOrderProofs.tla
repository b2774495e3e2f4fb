--------------------------- MODULE TrayOrderProofs ---------------------------
(***************************************************************************)
(* The diner's books for any dishes, taps, sends, refusals and troubles:   *)
(* as long as no id that is placed or may land was let go of, what was     *)
(* asked for is what was made plus what the tray still holds, so nothing   *)
(* is made twice and nothing is lost.  The invariant ties every request    *)
(* that can still arrive to the pending send, and the pending send to the  *)
(* tray.                                                                   *)
(***************************************************************************)
EXTENDS TrayOrder, TLAPS

(* Ids are counted up.                                                      *)
Counted ==
   /\ \A i \in Items : lines[i] <= taps
   /\ \A a \in attempts : a.n <= sends /\ a.commandId <= sends
   /\ \A p \in pendingSend : p.commandId <= sends
   /\ \A c \in placed : c <= sends

(* Only what left the phone is answered.                                    *)
Answers ==
   \A a \in attempts : /\ a.answer # "none" => a.onlineAtSend
                       /\ a.answer = "placed" => a.commandId \in placed

(* A send whose outcome is not in doubt is in flight.                       *)
AwaitedOrLocked == \A p \in pendingSend : p.uncertain \/ InFlight

(* What is asked for is made or in the tray, and on its way at most once.   *)
Books ==
   /\ pendingSend = {} => /\ \A i \in Items : asked[i] = made[i] + lines[i]
                          /\ InFlight => lines = Nothing
   /\ \A p \in pendingSend :
         /\ p.contents = lines
         /\ p.commandId \in placed => \A i \in Items : asked[i] = made[i]
         /\ p.commandId \notin placed => \A i \in Items : asked[i] = made[i] + lines[i]

(* Every request that can still place an order is the pending send.         *)
OneOrder ==
   /\ \A a \in attempts : \A p \in pendingSend : a.awaited => a.commandId = p.commandId
   /\ \A a \in attempts :
         a.answer = "none" /\ a.onlineAtSend /\ a.commandId \notin placed
            => \E p \in pendingSend : p.commandId = a.commandId /\ a.contents = lines

(* A pending send that was placed is locked, or known as sent again, or its *)
(* answer is on its way.                                                    *)
Noted ==
   \A p \in pendingSend : p.commandId \in placed =>
      \/ p.uncertain
      \/ \E b \in attempts : b.commandId = p.commandId /\ (b.answer = "placed" \/ b.again)

Kept == slipped \/ (Books /\ OneOrder /\ Noted)

(* The parts of TypeOK that move together.                                  *)
TrayType ==
   /\ lines \in Contents /\ taps \in 0..MaxTaps /\ \A i \in Items : lines[i] <= taps

SendType ==
   /\ pendingSend \subseteq PendingSend /\ \A p, q \in pendingSend : p = q
   /\ attempts \subseteq Attempts /\ \A a, b \in attempts : a.n = b.n => a = b
   /\ sends \in 0..MaxSends /\ placed \subseteq Ids
   /\ \A a \in attempts : a.n <= sends /\ a.commandId <= sends
   /\ \A p \in pendingSend : p.commandId <= sends
   /\ \A c \in placed : c <= sends

BookType == made \in [Items -> Nat] /\ asked \in [Items -> Nat]

FlagType == lastSent \in BOOLEAN /\ online \in BOOLEAN /\ slipped \in BOOLEAN

CountType ==
   /\ screen \in {"menu", "tray"} /\ refusals \in 0..MaxRefusals /\ troubles \in 0..MaxTroubles

TypeInv == TrayType /\ SendType /\ BookType /\ FlagType /\ CountType

TrayInv == TypeInv /\ Answers /\ AwaitedOrLocked /\ Kept

LEMMA TypeParts == TypeInv <=> TypeOK /\ Counted
BY Zenon DEF TypeInv, TypeOK, Counted, TrayType, SendType, BookType, FlagType, CountType

LEMMA Constants ==
   /\ MaxTaps \in Nat /\ MaxSends \in Nat /\ MaxRefusals \in Nat /\ MaxTroubles \in Nat
   /\ Nothing \in Contents /\ \A i \in Items : Nothing[i] = 0
BY TrayAssumption DEF Nothing, Contents

-----------------------------------------------------------------------------
(* What becomes of a request keeps what it asks for.                        *)
SameOrder(a, b) ==
   /\ b.n = a.n /\ b.commandId = a.commandId /\ b.contents = a.contents
   /\ b.onlineAtSend = a.onlineAtSend /\ b.again = a.again

LEMMA LeftBehindIs ==
   ASSUME NEW a \in Attempts
   PROVE  /\ LeftBehind(a) \in Attempts /\ SameOrder(a, LeftBehind(a))
          /\ LeftBehind(a).awaited = a.awaited /\ LeftBehind(a).answer = a.answer
BY Zenon DEF Attempts, LeftBehind, SameOrder

LEMMA GivenUpIs ==
   ASSUME NEW a \in Attempts
   PROVE  /\ GivenUp(a) \in Attempts /\ SameOrder(a, GivenUp(a))
          /\ ~GivenUp(a).awaited /\ GivenUp(a).answer = a.answer
BY Zenon DEF Attempts, GivenUp, SameOrder

LEMMA AnswerIs ==
   ASSUME NEW a \in Attempts, NEW x \in {"placed", "refused"}
   PROVE  /\ Answer(a, x) \in Attempts /\ SameOrder(a, Answer(a, x))
          /\ Answer(a, x).awaited = a.awaited /\ Answer(a, x).answer = x
BY Zenon DEF Attempts, Answer, SameOrder

LEMMA DoubtedIs ==
   ASSUME NEW p \in PendingSend
   PROVE  /\ Doubted(p) \in PendingSend /\ Doubted(p).uncertain
          /\ Doubted(p).commandId = p.commandId /\ Doubted(p).contents = p.contents
BY Zenon DEF PendingSend, Doubted

LEMMA InitInv == Init => TrayInv
<1> SUFFICES ASSUME Init PROVE TrayInv
  OBVIOUS
<1>1. TrayType /\ BookType
  BY Constants DEF Init, TrayType, BookType, Nothing
<1>2. SendType /\ CountType
  BY Constants DEF Init, SendType, CountType
<1>3. FlagType
  BY Zenon DEF Init, FlagType
<1>4. Books
  BY Constants DEF Init, Books, InFlight
<1>5. Answers /\ AwaitedOrLocked /\ OneOrder /\ Noted
  BY DEF Init, Answers, AwaitedOrLocked, OneOrder, Noted
<1> QED BY <1>1, <1>2, <1>3, <1>4, <1>5 DEF TrayInv, TypeInv, Kept

-----------------------------------------------------------------------------
(* The tray changed: with nothing slipped, nothing was pending.             *)

LEMMA Idle ==
   ASSUME TrayInv, ~frozen, ~InFlight, ~slipped
   PROVE  pendingSend = {} /\ \A i \in Items : asked[i] = made[i] + lines[i]
<1>1. \A p \in pendingSend : FALSE
  BY DEF TrayInv, AwaitedOrLocked, frozen, trayLocked
<1>2. pendingSend = {}
  BY <1>1
<1> QED BY <1>2 DEF TrayInv, Kept, Books

LEMMA AddKeeps == ASSUME TrayInv, NEW i \in Items, Add(i) PROVE TrayInv'
<1>1. /\ lines' = [lines EXCEPT ![i] = @ + 1] /\ asked' = [asked EXCEPT ![i] = @ + 1]
      /\ taps' = taps + 1 /\ taps < MaxTaps /\ ~frozen
      /\ UNCHANGED <<pendingSend, screen, online, attempts, placed, made, refusals, sends, troubles>>
  BY DEF Add, serverVars
<1>2. lastSent' = (lastSent /\ screen = "tray") /\ slipped' = (slipped \/ InFlight)
  BY DEF Add
<1>3. TrayType' /\ BookType'
  BY <1>1, Constants DEF TrayInv, TypeInv, TrayType, BookType, Contents
<1>4. SendType' /\ CountType' /\ Answers' /\ AwaitedOrLocked'
  BY <1>1, Zenon
     DEF TrayInv, TypeInv, SendType, CountType, Answers, AwaitedOrLocked, InFlight
<1>5. FlagType'
  BY <1>1, <1>2, Zenon DEF TrayInv, TypeInv, FlagType
<1>6. ASSUME ~slipped' PROVE (Books /\ OneOrder /\ Noted)'
  <2>1. ~slipped /\ ~InFlight
    BY <1>2, <1>6, Zenon
  <2>2. pendingSend = {} /\ \A j \in Items : asked[j] = made[j] + lines[j]
    BY <1>1, <2>1, Idle
  <2>3. \A j \in Items : asked'[j] = made'[j] + lines'[j]
    BY <1>1, <2>2 DEF TrayInv, TypeInv, TrayType, BookType, Contents
  <2>4. Books' /\ Noted'
    BY <1>1, <2>1, <2>2, <2>3 DEF Books, Noted, InFlight
  <2>5. OneOrder'
    BY <1>1, <2>1, <2>2 DEF TrayInv, Kept, OneOrder
  <2> QED BY <2>4, <2>5
<1> QED BY <1>3, <1>4, <1>5, <1>6 DEF TrayInv, TypeInv, Kept

LEMMA RemoveKeeps == ASSUME TrayInv, NEW i \in Items, Remove(i) PROVE TrayInv'
<1>1. /\ lines' = [lines EXCEPT ![i] = @ - 1] /\ lines[i] > 0 /\ ~frozen
      /\ asked' = IF InFlight \/ slipped THEN asked ELSE [asked EXCEPT ![i] = @ - 1]
      /\ UNCHANGED <<pendingSend, lastSent, screen, online, attempts, placed, made, refusals,
                     sends, taps, troubles>>
  BY DEF Remove, serverVars, countVars
<1>2. slipped' = (slipped \/ InFlight)
  BY DEF Remove
<1>3. TrayType'
  BY <1>1, Constants DEF TrayInv, TypeInv, TrayType, Contents
<1>4. SendType' /\ CountType' /\ Answers' /\ AwaitedOrLocked'
  BY <1>1, Zenon
     DEF TrayInv, TypeInv, SendType, CountType, Answers, AwaitedOrLocked, InFlight
<1>5. FlagType'
  BY <1>1, <1>2, Zenon DEF TrayInv, TypeInv, FlagType
<1>6. CASE ~slipped /\ ~InFlight
  <2>1. pendingSend = {} /\ \A j \in Items : asked[j] = made[j] + lines[j]
    BY <1>1, <1>6, Idle
  <2>2. asked' = [asked EXCEPT ![i] = @ - 1]
    BY <1>1, <1>6
  <2>3. BookType' /\ \A j \in Items : asked'[j] = made'[j] + lines'[j]
    BY <1>1, <2>1, <2>2, Constants DEF TrayInv, TypeInv, TrayType, BookType, Contents
  <2>4. Books' /\ Noted'
    BY <1>1, <1>6, <2>1, <2>3 DEF Books, Noted, InFlight
  <2>5. OneOrder'
    BY <1>1, <1>6, <2>1 DEF TrayInv, Kept, OneOrder
  <2> QED BY <1>3, <1>4, <1>5, <2>3, <2>4, <2>5 DEF TrayInv, TypeInv, Kept
<1>7. CASE slipped \/ InFlight
  <2>1. slipped'
    BY <1>2, <1>7, Zenon
  <2>2. BookType'
    BY <1>1, <1>7 DEF TrayInv, TypeInv, BookType
  <2> QED BY <1>3, <1>4, <1>5, <2>1, <2>2 DEF TrayInv, TypeInv, Kept
<1> QED BY <1>6, <1>7

-----------------------------------------------------------------------------
(* Screens come and go.                                                     *)

LEMMA NavigateKeeps == ASSUME TrayInv, Navigate PROVE TrayInv'
<1>1. /\ attempts' = {LeftBehind(a) : a \in attempts} /\ screen' \in {"menu", "tray"}
      /\ UNCHANGED <<lines, pendingSend, lastSent, online, placed, made, refusals, asked,
                     slipped, sends, taps, troubles>>
  BY DEF Navigate, trayVars, serverVars, countVars
<1>2. attempts \subseteq Attempts
  BY DEF TrayInv, TypeInv, SendType
<1> DEFINE Twin(a, b) == SameOrder(a, b) /\ b.awaited = a.awaited /\ b.answer = a.answer
<1>3. \A b \in attempts' : \E a \in attempts : b = LeftBehind(a) /\ Twin(a, b)
  BY <1>1, <1>2, LeftBehindIs
<1>4. \A a \in attempts : \E b \in attempts' : Twin(a, b)
  BY <1>1, <1>2, LeftBehindIs
<1>5. attempts' \subseteq Attempts
  BY <1>1, <1>2, LeftBehindIs
<1>6. SendType'
  BY <1>1, <1>3, <1>5 DEF TrayInv, TypeInv, SendType, SameOrder
<1>7. TrayType' /\ BookType' /\ FlagType' /\ CountType'
  BY <1>1, Zenon DEF TrayInv, TypeInv, TrayType, BookType, FlagType, CountType
<1>8. InFlight' <=> InFlight
  BY <1>3, <1>4 DEF InFlight
<1>9. Answers' /\ AwaitedOrLocked'
  BY <1>1, <1>3, <1>8 DEF TrayInv, Answers, AwaitedOrLocked, SameOrder
<1>10. ASSUME ~slipped PROVE (Books /\ OneOrder /\ Noted)'
  <2>1. Books /\ OneOrder /\ Noted
    BY <1>10, Zenon DEF TrayInv, Kept
  <2>2. Books'
    BY <1>1, <1>8, <2>1 DEF Books
  <2>3. OneOrder'
    BY <1>1, <1>3, <2>1 DEF OneOrder, SameOrder
  <2>4. Noted'
    BY <1>1, <1>4, <2>1 DEF Noted, SameOrder
  <2> QED BY <2>2, <2>3, <2>4
<1>11. Kept'
  BY <1>1, <1>10, Zenon DEF Kept
<1> QED BY <1>6, <1>7, <1>9, <1>11 DEF TrayInv, TypeInv

LEMMA LeaveKeeps == ASSUME TrayInv, LeaveTab PROVE TrayInv'
<1>1. /\ lines' = Nothing /\ pendingSend' = {} /\ lastSent' = FALSE /\ screen' = "menu"
      /\ attempts' = {GivenUp(a) : a \in attempts}
      /\ asked' = IF pendingSend # {} \/ slipped THEN asked
                                              ELSE [i \in Items |-> asked[i] - lines[i]]
      /\ troubles < MaxTroubles /\ troubles' = troubles + 1
      /\ UNCHANGED <<online, placed, made, refusals, sends, taps>>
  BY DEF LeaveTab, serverVars, countVars, Trouble
<1>2. slipped' = (slipped \/ pendingSend # {} \/ InFlight)
  BY DEF LeaveTab
<1>3. attempts \subseteq Attempts
  BY DEF TrayInv, TypeInv, SendType
<1>4. /\ attempts' \subseteq Attempts
      /\ \A b \in attempts' : ~b.awaited
      /\ \A b \in attempts' : \E a \in attempts :
            b = GivenUp(a) /\ SameOrder(a, b) /\ b.answer = a.answer
  BY <1>1, <1>3, GivenUpIs
<1>5. SendType'
  BY <1>1, <1>4 DEF TrayInv, TypeInv, SendType, SameOrder
<1>6. TrayType'
  BY <1>1, Constants DEF TrayInv, TypeInv, TrayType
<1>7. CountType'
  BY <1>1, Constants DEF TrayInv, TypeInv, CountType
<1>8. FlagType'
  BY <1>1, <1>2, Zenon DEF TrayInv, TypeInv, FlagType
<1>9. Answers' /\ AwaitedOrLocked'
  BY <1>1, <1>4 DEF TrayInv, Answers, AwaitedOrLocked, SameOrder
<1>10. ~InFlight'
  BY <1>4 DEF InFlight
<1>11. BookType' /\ Kept'
  <2>1. CASE ~slipped /\ pendingSend = {}
    <3>1. \A i \in Items : asked[i] = made[i] + lines[i]
      BY <2>1 DEF TrayInv, Kept, Books
    <3>2. asked' = [i \in Items |-> asked[i] - lines[i]]
      BY <1>1, <2>1
    <3>3. BookType' /\ \A i \in Items : asked'[i] = made'[i] + lines'[i]
      BY <1>1, <3>1, <3>2, Constants DEF TrayInv, TypeInv, TrayType, BookType, Contents
    <3>4. Books' /\ Noted'
      BY <1>1, <1>10, <3>3 DEF Books, Noted
    <3>5. OneOrder'
      BY <1>1, <1>4, <2>1 DEF TrayInv, Kept, OneOrder, SameOrder
    <3> QED BY <3>3, <3>4, <3>5 DEF Kept
  <2>2. CASE slipped \/ pendingSend # {}
    <3>1. slipped'
      BY <1>2, <2>2, Zenon
    <3>2. BookType'
      BY <1>1, <2>2 DEF TrayInv, TypeInv, BookType
    <3> QED BY <3>1, <3>2 DEF Kept
  <2> QED BY <2>1, <2>2
<1> QED BY <1>5, <1>6, <1>7, <1>8, <1>9, <1>11 DEF TrayInv, TypeInv

LEMMA OutsideKeeps == ASSUME TrayInv, DismissSent \/ Signal PROVE TrayInv'
<1>1. /\ UNCHANGED <<lines, pendingSend, attempts, placed, made, refusals, screen, asked,
                     slipped, sends, taps>>
      /\ lastSent' = FALSE \/ UNCHANGED lastSent
      /\ online' = ~online \/ UNCHANGED online
      /\ (troubles < MaxTroubles /\ troubles' = troubles + 1) \/ UNCHANGED troubles
  BY Zenon DEF DismissSent, Signal, trayVars, serverVars, countVars, Trouble
<1>2. CountType'
  BY <1>1, Constants DEF TrayInv, TypeInv, CountType
<1>3. FlagType'
  BY <1>1, Zenon DEF TrayInv, TypeInv, FlagType
<1> QED BY <1>1, <1>2, <1>3, Zenon
        DEF TrayInv, TypeInv, TrayType, SendType, BookType, Answers, AwaitedOrLocked,
            Kept, Books, OneOrder, Noted, InFlight

-----------------------------------------------------------------------------
(* A send.                                                                  *)

(* It asks for the tray under the pending id, or under one nobody has used. *)
LEMMA CommandIs ==
   ASSUME TrayInv
   PROVE  \/ \E p \in pendingSend : p.contents = lines /\ commandFor = p.commandId
          \/ (\A p \in pendingSend : p.contents # lines) /\ commandFor = sends + 1
<1>1. CASE \E p \in pendingSend : p.contents = lines
  <2>1. PICK p \in pendingSend : p.contents = lines
    BY <1>1
  <2> DEFINE q == CHOOSE q \in pendingSend : TRUE
  <2>2. q \in pendingSend
    BY <2>1
  <2>3. q = p
    BY <2>1, <2>2 DEF TrayInv, TypeInv, SendType
  <2>4. commandFor = q.commandId
    BY <1>1 DEF commandFor
  <2> QED BY <2>1, <2>3, <2>4
<1>2. CASE ~\E p \in pendingSend : p.contents = lines
  BY <1>2 DEF commandFor
<1> QED BY <1>1, <1>2

LEMMA SendKeeps == ASSUME TrayInv, sendTray PROVE TrayInv'
<1> DEFINE p == [commandId |-> commandFor, contents |-> lines, uncertain |-> FALSE]
           a == [n |-> sends + 1, commandId |-> commandFor, contents |-> lines,
                 onlineAtSend |-> online, mine |-> TRUE, again |-> commandFor # sends + 1,
                 awaited |-> TRUE, answer |-> "none"]
<1>1. /\ lines # Nothing /\ sends < MaxSends /\ sends' = sends + 1
      /\ pendingSend' = {p} /\ attempts' = attempts \union {a}
      /\ UNCHANGED <<lines, lastSent, screen, online, placed, made, refusals, asked, slipped,
                     taps, troubles>>
  BY DEF sendTray, sending, serverVars
<1>2. TrayType /\ SendType /\ BookType /\ FlagType /\ CountType
  BY DEF TrayInv, TypeInv
<1>3. commandFor \in 1..(sends + 1) /\ commandFor \in Ids
  <2>1. sends \in Nat /\ sends + 1 \in Ids
    BY <1>1, <1>2, Constants DEF SendType, Ids
  <2>2. CASE commandFor = sends + 1
    BY <2>1, <2>2
  <2>3. CASE \E q \in pendingSend : commandFor = q.commandId
    <3>1. PICK q \in pendingSend : commandFor = q.commandId
      BY <2>3
    <3>2. q.commandId \in Ids /\ q.commandId <= sends
      BY <1>2 DEF SendType, PendingSend
    <3> QED BY <2>1, <3>1, <3>2 DEF Ids
  <2> QED BY <2>2, <2>3, CommandIs
<1>4. p.commandId = commandFor /\ p.contents = lines /\ ~p.uncertain
  OBVIOUS
<1>5. /\ a.n = sends + 1 /\ a.commandId = commandFor /\ a.contents = lines
      /\ a.awaited /\ a.answer = "none"
  OBVIOUS
<1>6. a.again <=> commandFor # sends + 1
  BY Zenon
<1>7. p \in PendingSend
  BY <1>2, <1>3, Zenon DEF PendingSend, TrayType
<1>8. a \in Attempts
  <2>1. sends + 1 \in Ids
    BY <1>1, <1>2, Constants DEF SendType, Ids
  <2>2. online \in BOOLEAN /\ (commandFor # sends + 1) \in BOOLEAN
    BY <1>2, Zenon DEF FlagType
  <2> QED BY <1>2, <1>3, <2>1, <2>2, Zenon DEF Attempts, TrayType
<1> HIDE DEF p, a
<1>9. SendType'
  <2>1. sends' \in 0..MaxSends
    BY <1>1, <1>2, Constants DEF SendType
  <2>2. \A b \in attempts : b.n \in Nat /\ b.commandId \in Nat
    BY <1>2, Constants DEF SendType, Attempts, Ids
  <2>3. \A b, c \in attempts' : b.n = c.n => b = c
    BY <1>1, <1>2, <1>5, <2>2 DEF SendType
  <2>4. \A b \in attempts' : b.n <= sends' /\ b.commandId <= sends'
    BY <1>1, <1>2, <1>3, <1>5, <2>2 DEF SendType
  <2>5. \A c \in placed' : c <= sends'
    BY <1>1, <1>2, Constants DEF SendType, Ids
  <2> QED BY <1>1, <1>2, <1>3, <1>4, <1>7, <1>8, <2>1, <2>3, <2>4, <2>5 DEF SendType
<1>10. TrayType' /\ BookType' /\ FlagType' /\ CountType'
  BY <1>1, <1>2, Zenon DEF TrayType, BookType, FlagType, CountType
<1>11. Answers' /\ AwaitedOrLocked'
  BY <1>1, <1>5 DEF TrayInv, Answers, AwaitedOrLocked, InFlight
<1>12. ASSUME ~slipped PROVE (Books /\ OneOrder /\ Noted)'
  <2>1. Books /\ OneOrder /\ Noted
    BY <1>12, Zenon DEF TrayInv, Kept
  <2>2. CASE \E q \in pendingSend : q.contents = lines /\ commandFor = q.commandId
    <3>1. PICK q \in pendingSend : q.contents = lines /\ commandFor = q.commandId
      BY <2>2
    <3>2. pendingSend = {q}
      BY <1>2, <3>1 DEF SendType
    <3>3. commandFor # sends + 1
      BY <1>2, <3>1, Constants DEF SendType, PendingSend, Ids
    <3>4. Books'
      BY <1>1, <1>4, <2>1, <3>1 DEF Books
    <3>5. OneOrder'
      BY <1>1, <1>4, <1>5, <2>1, <3>1, <3>2 DEF OneOrder
    <3>6. Noted'
      BY <1>1, <1>4, <1>5, <1>6, <3>3 DEF Noted
    <3> QED BY <3>4, <3>5, <3>6
  <2>3. CASE (\A q \in pendingSend : q.contents # lines) /\ commandFor = sends + 1
    <3>1. pendingSend = {}
      BY <2>1, <2>3 DEF Books
    <3>2. ~InFlight
      BY <1>1, <2>1, <3>1 DEF Books
    <3>3. commandFor \notin placed
      BY <1>2, <2>3, Constants DEF SendType, Ids
    <3>4. Books'
      BY <1>1, <1>4, <2>1, <3>1, <3>3 DEF Books
    <3>5. OneOrder'
      BY <1>1, <1>4, <1>5, <2>1, <3>1, <3>2 DEF OneOrder, InFlight
    <3>6. Noted'
      BY <1>1, <1>4, <3>3 DEF Noted
    <3> QED BY <3>4, <3>5, <3>6
  <2> QED BY <2>2, <2>3, CommandIs
<1>13. Kept'
  BY <1>1, <1>12, Zenon DEF Kept
<1> QED BY <1>9, <1>10, <1>11, <1>13 DEF TrayInv, TypeInv

-----------------------------------------------------------------------------
(* The answers.                                                             *)

LEMMA SentKeeps == ASSUME TrayInv, NEW a \in attempts, Sent(a) PROVE TrayInv'
<1>1. /\ a.awaited /\ a.answer = "placed"
      /\ lines' = Nothing /\ pendingSend' = {} /\ lastSent' = TRUE
      /\ attempts' = attempts \ {a}
      /\ UNCHANGED <<screen, online, placed, made, refusals, asked, slipped, sends, taps, troubles>>
  BY DEF Sent, serverVars, countVars
<1>2. TrayType /\ SendType /\ BookType /\ FlagType /\ CountType
  BY DEF TrayInv, TypeInv
<1>3. TrayType'
  BY <1>1, <1>2, Constants DEF TrayType
<1>4. SendType'
  BY <1>1, <1>2 DEF SendType
<1>5. BookType' /\ FlagType' /\ CountType'
  BY <1>1, <1>2, Zenon DEF BookType, FlagType, CountType
<1>6. Answers' /\ AwaitedOrLocked'
  BY <1>1 DEF TrayInv, Answers, AwaitedOrLocked
<1>7. ASSUME ~slipped PROVE (Books /\ OneOrder /\ Noted)'
  <2>1. Books /\ OneOrder /\ Noted
    BY <1>7, Zenon DEF TrayInv, Kept
  <2>2. \A p \in pendingSend : p.commandId \in placed
    BY <1>1, <2>1 DEF OneOrder, TrayInv, Answers
  <2>3. \A i \in Items : asked[i] = made[i]
    <3>1. CASE pendingSend = {}
      <4>1. lines = Nothing /\ \A i \in Items : asked[i] = made[i] + lines[i]
        BY <1>1, <2>1, <3>1 DEF Books, InFlight
      <4>2. ASSUME NEW i \in Items PROVE asked[i] = made[i]
        <5>1. made[i] \in Nat /\ lines[i] = 0
          BY <1>2, <4>1, Constants DEF BookType
        <5>2. asked[i] = made[i] + lines[i]
          BY <4>1
        <5> QED BY <5>1, <5>2
      <4> QED BY <4>2
    <3>2. CASE pendingSend # {}
      BY <2>1, <2>2, <3>2 DEF Books
    <3> QED BY <3>1, <3>2
  <2>4. Books'
    BY <1>1, <1>2, <2>3, Constants DEF Books, BookType
  <2>5. OneOrder'
    BY <1>1, <2>1, <2>2 DEF OneOrder
  <2>6. Noted'
    BY <1>1 DEF Noted
  <2> QED BY <2>4, <2>5, <2>6
<1>8. Kept'
  BY <1>1, <1>7, Zenon DEF Kept
<1> QED BY <1>3, <1>4, <1>5, <1>6, <1>8 DEF TrayInv, TypeInv

(* Letting go of the pending send, unless another request may have made it. *)
LEMMA LetGoKeeps ==
   ASSUME TrayInv, NEW a \in attempts, a.awaited, a.answer = "refused" \/ ~a.onlineAtSend,
          ~InDoubt(a), ~slipped, pendingSend' = {}, attempts' = attempts \ {a},
          UNCHANGED <<lines, placed, made, asked>>
   PROVE  (Books /\ OneOrder /\ Noted)'
<1>1. Books /\ OneOrder /\ Noted
  BY Zenon DEF TrayInv, Kept
<1>2. /\ ~a.again /\ \A p \in pendingSend : ~p.uncertain
      /\ \A b \in attempts : b # a => b.commandId # a.commandId
  BY Zenon DEF InDoubt, trayLocked
<1>3. a.answer # "placed"
  BY DEF TrayInv, Answers
<1>4. \A p \in pendingSend : p.commandId = a.commandId
  BY <1>1 DEF OneOrder
<1>5. \A p \in pendingSend : p.commandId \notin placed
  BY <1>1, <1>2, <1>3, <1>4 DEF Noted
<1>6. \A i \in Items : asked[i] = made[i] + lines[i]
  BY <1>1, <1>5 DEF Books
<1>7. InFlight' => lines = Nothing
  <2>1. CASE pendingSend = {}
    BY <1>1, <2>1 DEF Books, InFlight
  <2>2. CASE pendingSend # {}
    BY <1>1, <1>2, <1>4, <2>2 DEF OneOrder, InFlight
  <2> QED BY <2>1, <2>2
<1>8. Books' /\ Noted'
  BY <1>6, <1>7 DEF Books, Noted
<1>9. OneOrder'
  BY <1>1, <1>2, <1>4 DEF OneOrder
<1> QED BY <1>8, <1>9

LEMMA RefusedKeeps == ASSUME TrayInv, NEW a \in attempts, Refused(a) PROVE TrayInv'
<1>1. /\ a.awaited /\ a.answer = "refused" /\ pendingSend' = {} /\ attempts' = attempts \ {a}
      /\ UNCHANGED <<lines, lastSent, screen, online, placed, made, refusals, asked, sends,
                     taps, troubles>>
  BY DEF Refused, sendFailed, serverVars, countVars
<1>2. slipped' = (slipped \/ InDoubt(a))
  BY DEF Refused
<1>3. SendType'
  BY <1>1 DEF TrayInv, TypeInv, SendType
<1>4. TrayType' /\ BookType' /\ CountType'
  BY <1>1, Zenon DEF TrayInv, TypeInv, TrayType, BookType, CountType
<1>5. FlagType'
  BY <1>1, <1>2, Zenon DEF TrayInv, TypeInv, FlagType
<1>6. Answers' /\ AwaitedOrLocked'
  BY <1>1 DEF TrayInv, Answers, AwaitedOrLocked
<1>7. ASSUME ~slipped' PROVE (Books /\ OneOrder /\ Noted)'
  <2>1. ~slipped /\ ~InDoubt(a)
    BY <1>2, <1>7, Zenon
  <2> QED BY <1>1, <2>1, LetGoKeeps
<1>8. Kept'
  BY <1>7, Zenon DEF Kept
<1> QED BY <1>3, <1>4, <1>5, <1>6, <1>8 DEF TrayInv, TypeInv

(* A success without its body lets go of an id that is placed.              *)
LEMMA BodyLostKeeps == ASSUME TrayInv, NEW a \in attempts, BodyLost(a) PROVE TrayInv'
<1>1. /\ a.awaited /\ a.answer = "placed" /\ pendingSend' = {} /\ attempts' = attempts \ {a}
      /\ UNCHANGED <<lines, lastSent, screen, online, placed, made, refusals, asked, sends,
                     taps, troubles>>
  BY DEF BodyLost, sendFailed, serverVars, countVars
<1>2. slipped'
  BY DEF BodyLost
<1>3. SendType'
  BY <1>1 DEF TrayInv, TypeInv, SendType
<1>4. TrayType' /\ BookType' /\ CountType'
  BY <1>1, Zenon DEF TrayInv, TypeInv, TrayType, BookType, CountType
<1>5. slipped' = TRUE
  BY DEF BodyLost
<1>6. FlagType'
  BY <1>1, <1>5, Zenon DEF TrayInv, TypeInv, FlagType
<1>7. Answers' /\ AwaitedOrLocked'
  BY <1>1 DEF TrayInv, Answers, AwaitedOrLocked
<1> QED BY <1>2, <1>3, <1>4, <1>6, <1>7 DEF TrayInv, TypeInv, Kept

(* A request without an answer may still arrive: the pending send is locked *)
(* with its id.                                                             *)
LEMMA DoubtKeeps ==
   ASSUME TrayInv, NEW a \in attempts,
          pendingSend' = {Doubted(p) : p \in pendingSend},
          \A b \in attempts' : \E c \in attempts :
             SameOrder(c, b) /\ b.answer = c.answer /\ (b.awaited => c.awaited),
          UNCHANGED <<lines, placed, made, asked>>
   PROVE  /\ pendingSend' \subseteq PendingSend /\ \A p, q \in pendingSend' : p = q
          /\ \A p \in pendingSend' : p.uncertain /\ p.commandId <= sends
          /\ ~slipped => (Books /\ OneOrder /\ Noted)'
<1>1. SendType
  BY DEF TrayInv, TypeInv
<1>2. \A q \in pendingSend' : \E p \in pendingSend :
         /\ q = Doubted(p) /\ q \in PendingSend /\ q.uncertain
         /\ q.commandId = p.commandId /\ q.contents = p.contents
  BY <1>1, DoubtedIs DEF SendType
<1>3. \A p \in pendingSend : \E q \in pendingSend' :
         q.commandId = p.commandId /\ q.contents = p.contents
  BY <1>1, DoubtedIs DEF SendType
<1>4. ASSUME ~slipped PROVE (Books /\ OneOrder /\ Noted)'
  <2>1. Books /\ OneOrder /\ Noted
    BY <1>4, Zenon DEF TrayInv, Kept
  <2>2. InFlight' => InFlight
    BY DEF InFlight
  <2>3. pendingSend' = {} => pendingSend = {}
    BY <1>3
  <2>4. Books'
    BY <1>2, <2>1, <2>2, <2>3 DEF Books
  <2>5. OneOrder'
    <3>1. ASSUME NEW b \in attempts', NEW q \in pendingSend', b.awaited
          PROVE  b.commandId = q.commandId
      <4>1. PICK c \in attempts : SameOrder(c, b) /\ c.awaited
        BY <3>1
      <4>2. PICK p \in pendingSend : q.commandId = p.commandId
        BY <1>2
      <4> QED BY <2>1, <4>1, <4>2 DEF OneOrder, SameOrder
    <3>2. ASSUME NEW b \in attempts', b.answer = "none", b.onlineAtSend,
                 b.commandId \notin placed'
          PROVE  \E q \in pendingSend' : q.commandId = b.commandId /\ b.contents = lines'
      <4>1. PICK c \in attempts : SameOrder(c, b) /\ b.answer = c.answer
        OBVIOUS
      <4>2. PICK p \in pendingSend : p.commandId = c.commandId /\ c.contents = lines
        BY <2>1, <3>2, <4>1 DEF OneOrder, SameOrder
      <4> QED BY <1>3, <4>1, <4>2 DEF SameOrder
    <3> QED BY <3>1, <3>2 DEF OneOrder
  <2>6. Noted'
    BY <1>2 DEF Noted
  <2> QED BY <2>4, <2>5, <2>6
<1>5. /\ pendingSend' \subseteq PendingSend
      /\ \A p \in pendingSend' : p.uncertain /\ p.commandId <= sends
  BY <1>1, <1>2 DEF SendType
<1>6. \A p, q \in pendingSend' : p = q
  BY <1>1, <1>2 DEF SendType
<1> QED BY <1>4, <1>5, <1>6

LEMMA NoAnswerKeeps == ASSUME TrayInv, NEW a \in attempts, NoAnswer(a) PROVE TrayInv'
<1>1. PICK timedOut \in BOOLEAN :
         /\ sendFailed(uncertain(a, timedOut))
         /\ slipped' = (slipped \/ (~(timedOut \/ a.onlineAtSend) /\ InDoubt(a)))
  BY DEF NoAnswer
<1>2. /\ a.awaited
      /\ attempts' = (attempts \ {a}) \union
            (IF a.answer = "none" /\ a.onlineAtSend THEN {GivenUp(a)} ELSE {})
      /\ UNCHANGED <<lines, lastSent, screen, online, placed, made, refusals, asked, sends,
                     taps, troubles>>
  BY DEF NoAnswer, serverVars, countVars
<1>3. TrayType /\ SendType /\ BookType /\ FlagType /\ CountType
  BY DEF TrayInv, TypeInv
<1>4. a \in Attempts /\ a.onlineAtSend \in BOOLEAN
  BY <1>3 DEF SendType, Attempts
<1>5. /\ attempts' \subseteq Attempts
      /\ \A b \in attempts' : \E c \in attempts :
            /\ SameOrder(c, b) /\ b.answer = c.answer
            /\ b # c => c = a /\ b = GivenUp(a)
            /\ b = a => FALSE
            /\ b.awaited => b = c
  <2>1. \A c \in attempts : SameOrder(c, c)
    BY DEF SameOrder
  <2>2. GivenUp(a) # a
    BY <1>2, <1>4, GivenUpIs
  <2> QED BY <1>2, <1>3, <1>4, <2>1, <2>2, GivenUpIs DEF SendType
<1>6. FlagType'
  BY <1>1, <1>2, <1>3, Zenon DEF FlagType
<1>7. TrayType' /\ BookType' /\ CountType'
  BY <1>2, <1>3, Zenon DEF TrayType, BookType, CountType
<1>8. Answers'
  BY <1>2, <1>5 DEF TrayInv, Answers, SameOrder
<1>9. /\ \A b, c \in attempts' : b.n = c.n => b = c
      /\ \A b \in attempts' : b.n <= sends /\ b.commandId <= sends
  BY <1>3, <1>5 DEF SendType, SameOrder
<1>10. CASE timedOut \/ a.onlineAtSend
  <2>1. uncertain(a, timedOut)
    BY <1>10, Zenon DEF uncertain
  <2>2. pendingSend' = {Doubted(p) : p \in pendingSend}
    BY <1>1, <2>1 DEF sendFailed
  <2>3. \A b \in attempts' : \E c \in attempts :
           SameOrder(c, b) /\ b.answer = c.answer /\ (b.awaited => c.awaited)
    BY <1>5
  <2>4. /\ pendingSend' \subseteq PendingSend /\ \A p, q \in pendingSend' : p = q
        /\ \A p \in pendingSend' : p.uncertain /\ p.commandId <= sends
        /\ ~slipped => (Books /\ OneOrder /\ Noted)'
    BY <1>2, <2>2, <2>3, DoubtKeeps
  <2>5. SendType'
    BY <1>2, <1>3, <1>5, <1>9, <2>4 DEF SendType
  <2>6. AwaitedOrLocked'
    BY <2>4 DEF AwaitedOrLocked
  <2>7. Kept'
    BY <1>1, <2>4, Zenon DEF Kept
  <2> QED BY <1>6, <1>7, <1>8, <2>5, <2>6, <2>7 DEF TrayInv, TypeInv
<1>11. CASE ~timedOut /\ ~a.onlineAtSend
  <2>1. ~uncertain(a, timedOut)
    BY <1>11, Zenon DEF uncertain
  <2>2. pendingSend' = {}
    BY <1>1, <2>1 DEF sendFailed
  <2>3. attempts' = attempts \ {a}
    BY <1>2, <1>11
  <2>4. SendType'
    BY <1>2, <1>3, <1>5, <1>9, <2>2 DEF SendType
  <2>5. AwaitedOrLocked'
    BY <2>2 DEF AwaitedOrLocked
  <2>6. ASSUME ~slipped' PROVE (Books /\ OneOrder /\ Noted)'
    <3>1. ~slipped /\ ~InDoubt(a)
      BY <1>1, <1>11, <2>6, Zenon
    <3> QED BY <1>2, <1>11, <2>2, <2>3, <3>1, LetGoKeeps
  <2>7. Kept'
    BY <2>6, Zenon DEF Kept
  <2> QED BY <1>6, <1>7, <1>8, <2>4, <2>5, <2>7 DEF TrayInv, TypeInv
<1> QED BY <1>10, <1>11

-----------------------------------------------------------------------------
(* The server.                                                              *)

LEMMA ArriveKeeps == ASSUME TrayInv, NEW a \in attempts, Arrive(a) PROVE TrayInv'
<1>1. /\ a.answer = "none" /\ a.onlineAtSend
      /\ UNCHANGED <<lines, pendingSend, lastSent, screen, online, asked, slipped, sends, taps,
                     troubles>>
  BY DEF Arrive, trayVars, countVars
<1>2. PICK x \in {"placed", "refused"} :
         /\ attempts' = (attempts \ {a}) \union {Answer(a, x)}
         /\ \/ x = "placed" /\ a.commandId \in placed /\ UNCHANGED <<placed, made, refusals>>
            \/ /\ x = "placed" /\ a.commandId \notin placed
               /\ placed' = placed \union {a.commandId}
               /\ made' = [i \in Items |-> made[i] + a.contents[i]]
               /\ UNCHANGED refusals
            \/ /\ x = "refused" /\ a.commandId \notin placed
               /\ refusals < MaxRefusals /\ refusals' = refusals + 1
               /\ UNCHANGED <<placed, made>>
  BY DEF Arrive, serverVars
<1>3. TrayType /\ SendType /\ BookType /\ FlagType /\ CountType
  BY DEF TrayInv, TypeInv
<1> DEFINE d == Answer(a, x)
<1>4. a \in Attempts /\ a.commandId \in Ids /\ a.contents \in Contents
  BY <1>3 DEF SendType, Attempts
<1>5. d \in Attempts /\ SameOrder(a, d) /\ d.awaited = a.awaited /\ d.answer = x
  BY <1>4, AnswerIs
<1>6. attempts' = (attempts \ {a}) \union {d}
  BY <1>2
<1> HIDE DEF d
<1>7. placed' \in {placed, placed \union {a.commandId}}
  BY <1>2
<1>8. SendType'
  BY <1>1, <1>3, <1>4, <1>5, <1>6, <1>7 DEF SendType, SameOrder
<1>9. BookType'
  BY <1>1, <1>2, <1>3, <1>4, Constants DEF BookType, Contents
<1>10. CountType'
  BY <1>1, <1>2, <1>3, Constants DEF CountType
<1>11. TrayType' /\ FlagType'
  BY <1>1, <1>3, Zenon DEF TrayType, FlagType
<1>12. InFlight' <=> InFlight
  BY <1>5, <1>6 DEF InFlight
<1>13. Answers'
  BY <1>1, <1>2, <1>5, <1>6 DEF TrayInv, Answers, SameOrder
<1>14. AwaitedOrLocked'
  BY <1>1, <1>12 DEF TrayInv, AwaitedOrLocked
<1>15. ASSUME ~slipped PROVE (Books /\ OneOrder /\ Noted)'
  <2>1. Books /\ OneOrder /\ Noted
    BY <1>15, Zenon DEF TrayInv, Kept
  <2>2. OneOrder'
    BY <1>1, <1>2, <1>5, <1>6, <1>7, <2>1 DEF OneOrder, SameOrder
  <2>3. CASE UNCHANGED <<placed, made>>
    <3>1. Books'
      BY <1>1, <1>12, <2>1, <2>3 DEF Books
    <3>2. Noted'
      BY <1>1, <1>5, <1>6, <2>1, <2>3 DEF Noted, SameOrder
    <3> QED BY <2>2, <3>1, <3>2
  <2>4. CASE /\ x = "placed" /\ a.commandId \notin placed
             /\ placed' = placed \union {a.commandId}
             /\ made' = [i \in Items |-> made[i] + a.contents[i]]
    <3>1. PICK p \in pendingSend : p.commandId = a.commandId /\ a.contents = lines
      BY <1>1, <2>1, <2>4 DEF OneOrder
    <3>2. pendingSend = {p}
      BY <1>3, <3>1 DEF SendType
    <3>3. \A i \in Items : asked[i] = made'[i]
      BY <1>3, <2>1, <2>4, <3>1 DEF Books
    <3>4. Books'
      BY <1>1, <2>1, <2>4, <3>1, <3>2, <3>3 DEF Books
    <3>5. Noted'
      BY <1>1, <1>5, <1>6, <2>4, <3>1, <3>2 DEF Noted, SameOrder
    <3> QED BY <2>2, <3>4, <3>5
  <2> QED BY <1>2, <2>3, <2>4
<1>16. Kept'
  BY <1>1, <1>15, Zenon DEF Kept
<1> QED BY <1>8, <1>9, <1>10, <1>11, <1>13, <1>14, <1>16 DEF TrayInv, TypeInv

-----------------------------------------------------------------------------
LEMMA StepInv == ASSUME TrayInv, [Next]_vars PROVE TrayInv'
<1>1. CASE Next
  BY <1>1, AddKeeps, RemoveKeeps, NavigateKeeps, LeaveKeeps, OutsideKeeps, SendKeeps,
     SentKeeps, RefusedKeeps, BodyLostKeeps, NoAnswerKeeps, ArriveKeeps DEF Next
<1>2. CASE UNCHANGED vars
  BY <1>2, Zenon
     DEF TrayInv, TypeInv, TrayType, SendType, BookType, FlagType, CountType, Answers,
         AwaitedOrLocked, Kept, Books, OneOrder, Noted, InFlight, vars
<1> QED BY <1>1, <1>2

LEMMA InvHolds == Spec => []TrayInv
<1> QED BY InitInv, StepInv, PTL DEF Spec

(* The tray, its send and the server's books stay what they are: one        *)
(* pending send, ids counted up, and what was asked for never negative.     *)
THEOREM TypeCorrect == Spec => []TypeOK
<1>1. TrayInv => TypeOK
  BY TypeParts DEF TrayInv
<1> QED BY <1>1, InvHolds, PTL

(* Whatever times out, is resent or arrives late, no more of a dish is made *)
(* than was asked for, unless the id of an order that is placed or may land *)
(* was let go of in one of the ways NeverTwiceUnlessSlipped names, a        *)
(* success without its body among them (ordering.ts 52-55).                 *)
THEOREM AtMostOnce == Spec => []NeverTwiceUnlessSlipped
<1>1. TrayInv => NeverTwiceUnlessSlipped
  <2> SUFFICES ASSUME TrayInv, ~slipped, NEW i \in Items PROVE made[i] <= asked[i]
    BY DEF NeverTwiceUnlessSlipped, NeverTwice
  <2>1. Books /\ made[i] \in Nat /\ asked[i] \in Nat /\ lines[i] \in Nat
    BY Constants DEF TrayInv, TypeInv, Kept, BookType, TrayType, Contents
  <2> QED BY <2>1 DEF Books
<1> QED BY <1>1, InvHolds, PTL

(* With nothing in flight or in doubt, and no id of an order that is placed *)
(* or may land let go of, what was asked for was made or is still in the    *)
(* tray, and not both: nothing is lost either.                              *)
THEOREM NothingLost == Spec => []Balanced
<1>1. TrayInv => Balanced
  BY DEF TrayInv, Kept, Books, Balanced
<1> QED BY <1>1, InvHolds, PTL

(* A locked tray is what its command id was issued for (tray.tsx 107-109).  *)
THEOREM LockedAsSent == Spec => []CheckedAsSent
<1>1. TrayInv => CheckedAsSent
  BY DEF TrayInv, Kept, Books, CheckedAsSent
<1> QED BY <1>1, InvHolds, PTL
=============================================================================
