-------------------------- MODULE GuestThreadProofs --------------------------
(***************************************************************************)
(* What is proved of a guest's thread, for any texts and any number of     *)
(* them, of messages of the venue, replies, troubles and screens opened:   *)
(* nothing is written twice but for a reply, what the thread has shown     *)
(* stays on it, and a mark reads nothing the guest has not seen but behind *)
(* their own text.                                                         *)
(***************************************************************************)
EXTENDS GuestThread, FiniteSetTheorems, WellFoundedInduction, TLAPS

-----------------------------------------------------------------------------
(* Numbers: a set of them has a least; a bounded one a greatest; and what   *)
(* no step of a range changes is the same at its end as at its start.       *)
LEMMA Least ==
  ASSUME NEW T \in SUBSET Nat, T # {} PROVE \E x \in T : \A y \in T : x <= y
<1> DEFINE Less == OpToRel(<, Nat)
<1>1. IsWellFoundedOn(Less, Nat)
  BY NatLessThanWellFounded
<1>2. \A x, y \in Nat : y < x => <<y, x>> \in Less
  BY DEF OpToRel
<1> HIDE DEF Less
<1>3. PICK x \in T : \A y \in T : ~(<<y, x>> \in Less)
  BY <1>1, WFMin
<1>4. \A y \in T : ~(y < x)
  BY <1>2, <1>3
<1> QED BY <1>4

LEMMA Greatest ==
  ASSUME NEW T \in SUBSET Nat, NEW b \in Nat, T # {}, \A x \in T : x <= b
  PROVE  \E x \in T : \A y \in T : y <= x
<1> DEFINE Below == {b - x : x \in T}
<1>1. Below \in SUBSET Nat /\ Below # {}
  <2>1. \A x \in T : b - x \in Nat
    OBVIOUS
  <2> QED BY <2>1
<1>2. PICK z \in Below : \A y \in Below : z <= y
  BY <1>1, Least
<1>3. PICK x \in T : z = b - x
  BY <1>2
<1>4. \A y \in T : b - y \in Below
  OBVIOUS
<1> HIDE DEF Below
<1>5. \A y \in T : b - x <= b - y
  BY <1>2, <1>3, <1>4
<1> QED BY <1>5

-----------------------------------------------------------------------------
(* Types, by what each part of the system keeps; a read that counts         *)
(* something unread has a message to show for it, and so has the thread.    *)
OneAwaited(some) == \A s, r \in some : s.mine /\ r.mine => s = r

LogType ==
   /\ log \in Seq(Messages)
   /\ readMark \in 0..Len(log) /\ marks \subseteq 1..Len(log)

ThreadType ==
   /\ thread \in [loaded : BOOLEAN, shown : SUBSET Places, pending : SUBSET Ids, unread : BOOLEAN]
   /\ thread.shown \subseteq 1..Len(log)
   /\ thread.unread => thread.shown # {}

FetchType ==
   /\ fetch \in [at : {"none", "away", "back"}, upTo : 0..Len(log), unread : BOOLEAN]
   /\ fetch.unread => fetch.upTo > 0
   /\ stale \in BOOLEAN

ScreenType ==
   /\ screen \in {"closed", "front"} /\ marked \in {0} \union Places
   /\ draft \subseteq Words /\ \A v, w \in draft : v = w
   /\ attempt \subseteq [text : Texts, id : Ids] /\ \A a, b \in attempt : a = b

SendsType == sends \subseteq Sends /\ OneAwaited(sends)

CountType ==
   /\ commandIds \in [Texts -> 0..MaxIds]
   /\ ids \in 0..MaxIds /\ words \in 0..MaxWords /\ troubles \in 0..MaxTroubles

PastType ==
   /\ seen \union settled \subseteq 1..Len(log) /\ settledAway \subseteq settled
   /\ unmarked \in BOOLEAN

Typed == LogType /\ ThreadType /\ FetchType /\ ScreenType /\ SendsType /\ CountType /\ PastType

LEMMA TypedIsTypeOK == Typed => TypeOK
BY DEF Typed, TypeOK, LogType, ThreadType, FetchType, ScreenType, SendsType, OneAwaited, CountType,
       PastType

LEMMA Bounds ==
  /\ MaxIds \in Nat /\ MaxWords \in Nat /\ MaxTroubles \in Nat
  /\ Ids \subseteq Places
BY ThreadAssumption DEF ThreadAssumption, Ids, Places

ReadsUpTo(n) == [at : {"none", "away", "back"}, upTo : 0..n, unread : BOOLEAN]

LEMMA NoReads ==
  /\ \A n \in Nat : NoRead \in ReadsUpTo(n) /\ Asking \in ReadsUpTo(n)
  /\ NoRead.at = "none" /\ ~NoRead.unread /\ Asking.at = "away" /\ ~Asking.unread /\ Asking # NoRead
<1>1. ASSUME NEW n \in Nat PROVE NoRead \in ReadsUpTo(n)
  <2>1. 0 \in 0..n
    OBVIOUS
  <2> QED BY <2>1 DEF NoRead, ReadsUpTo
<1>2. ASSUME NEW n \in Nat
      PROVE  Asking \in ReadsUpTo(n) /\ Asking.at = "away" /\ Asking.unread = NoRead.unread
  BY <1>1 DEF Asking, ReadsUpTo
<1>3. NoRead.at = "none" /\ ~NoRead.unread
  BY DEF NoRead
<1>4. Asking # NoRead
  BY <1>2, <1>3
<1> QED BY <1>1, <1>2, <1>3, <1>4

LEMMA InitTyped == Init => Typed
<1> SUFFICES ASSUME Init PROVE Typed
  OBVIOUS
<1>1. log \in Seq(Messages) /\ Len(log) = 0
  BY DEF Init
<1>2. thread \in [loaded : BOOLEAN, shown : SUBSET Places, pending : SUBSET Ids, unread : BOOLEAN]
  BY DEF Init
<1>3. thread.shown = {} /\ thread.unread = FALSE
  BY DEF Init
<1>4. FetchType
  BY <1>1, NoReads DEF Init, FetchType, ReadsUpTo
<1>5. CountType
  BY Bounds DEF Init, CountType
<1>6. LogType /\ ThreadType
  BY <1>1, <1>2, <1>3 DEF Init, LogType, ThreadType
<1>7. ScreenType /\ SendsType
  BY DEF Init, ScreenType, SendsType, OneAwaited
<1>8. PastType
  BY DEF Init, PastType
<1> QED BY <1>4, <1>5, <1>6, <1>7, <1>8 DEF Typed

(* The log only grows, by whole messages.                                   *)
Grows == \E m \in Messages : log' = log \/ log' = Append(log, m)

LEMMA Longer ==
  ASSUME LogType, Grows
  PROVE  /\ log' \in Seq(Messages) /\ Len(log) \in Nat /\ Len(log') \in Nat /\ Len(log) <= Len(log')
         /\ \A i \in 1..Len(log) : log'[i] = log[i]
<1>1. log \in Seq(Messages)
  BY DEF LogType
<1>2. PICK m \in Messages : log' = log \/ log' = Append(log, m)
  BY DEF Grows
<1>3. CASE log' = log
  BY <1>1, <1>3
<1>4. CASE log' = Append(log, m)
  <2>1. Append(log, m) \in Seq(Messages) /\ Len(Append(log, m)) = Len(log) + 1
    BY <1>1
  <2>2. \A i \in 1..Len(log) : Append(log, m)[i] = log[i]
    BY <1>1
  <2> QED BY <1>1, <1>4, <2>1, <2>2
<1> QED BY <1>2, <1>3, <1>4

LEMMA FetchKept ==
  ASSUME Typed, Grows, fetch' \in {fetch, Asking, NoRead}, stale' \in BOOLEAN
  PROVE  FetchType'
<1>1. Len(log) \in Nat /\ Len(log') \in Nat /\ Len(log) <= Len(log')
  BY Longer DEF Typed
<1>2. FetchType
  BY DEF Typed
<1>3. CASE fetch' = fetch
  BY <1>1, <1>2, <1>3 DEF FetchType
<1>4. CASE fetch' \in {Asking, NoRead}
  BY <1>1, <1>4, NoReads DEF FetchType, ReadsUpTo
<1> QED BY <1>3, <1>4

LEMMA Invalidated ==
  ASSUME invalidate PROVE fetch' \in {fetch, Asking} /\ stale' \in BOOLEAN
BY DEF invalidate

LEMMA ThreadKept ==
  ASSUME Typed, Grows, UNCHANGED thread PROVE ThreadType'
<1>1. Len(log) \in Nat /\ Len(log') \in Nat /\ Len(log) <= Len(log')
  BY Longer DEF Typed
<1>2. 1..Len(log) \subseteq 1..Len(log')
  BY <1>1
<1> QED BY <1>2 DEF Typed, ThreadType

LEMMA LogKept ==
  ASSUME Typed, Grows, UNCHANGED readMark, marks' \subseteq marks PROVE LogType'
<1>1. log' \in Seq(Messages) /\ Len(log) \in Nat /\ Len(log') \in Nat /\ Len(log) <= Len(log')
  BY Longer DEF Typed
<1> QED BY <1>1 DEF Typed, LogType

LEMMA PastKept ==
  ASSUME Typed, Grows, UNCHANGED pastVars PROVE PastType'
<1>1. Len(log) \in Nat /\ Len(log') \in Nat /\ Len(log) <= Len(log')
  BY Longer DEF Typed
<1> QED BY <1>1 DEF Typed, PastType, pastVars

LEMMA SameLog == ASSUME UNCHANGED log PROVE Grows
<1>1. [author |-> "venue"] \in Messages
  BY DEF Messages
<1> QED BY <1>1 DEF Grows

-----------------------------------------------------------------------------
(* What becomes of a send keeps its id, its words and where it was made; no *)
(* screen awaits one that it did not await.                                 *)
Kin(r, q) == r.id = q.id /\ r.words = q.words /\ r.from = q.from /\ (r.mine => q.mine)

Descends(some) == \A r \in some : \E q \in sends : Kin(r, q)

LEMMA SendFields ==
  ASSUME NEW s \in Sends
  PROVE  s.id \in Ids /\ s.words \in Words /\ s.mine \in BOOLEAN /\ s.from \in {"screen", "banner"}
BY DEF Sends

LEMMA WordFields ==
  ASSUME NEW w \in Words PROVE w.text \in Texts /\ w.n \in 1..MaxWords /\ w.reply \in BOOLEAN
BY DEF Words

LEMMA OneMoved ==
  ASSUME NEW s \in Sends, NEW at \in {"away", "written", "refused", "adrift"}
  PROVE  [s EXCEPT !.at = at] \in Sends /\ Kin([s EXCEPT !.at = at], s)
         /\ [s EXCEPT !.at = at].mine = s.mine
BY DEF Sends, Kin

LEMMA OneUnawaited ==
  ASSUME NEW s \in Sends
  PROVE  Unawaited(s) \in Sends /\ Kin(Unawaited(s), s) /\ ~Unawaited(s).mine
BY DEF Sends, Kin, Unawaited

LEMMA SendMoved ==
  ASSUME SendsType, NEW s \in sends, NEW at \in {"away", "written", "refused", "adrift"}
  PROVE  Moved(s, at) \subseteq Sends /\ OneAwaited(Moved(s, at)) /\ Descends(Moved(s, at))
<1>1. s \in Sends /\ sends \subseteq Sends /\ OneAwaited(sends)
  BY DEF SendsType
<1>2. PICK r : r = [s EXCEPT !.at = at]
  OBVIOUS
<1>3. r \in Sends /\ Kin(r, s) /\ r.mine = s.mine
  BY <1>1, <1>2, OneMoved
<1>4. Moved(s, at) = (sends \ {s}) \union {r}
  BY <1>2 DEF Moved
<1>5. OneAwaited(Moved(s, at))
  BY <1>1, <1>3, <1>4 DEF OneAwaited
<1>6. \A q \in sends : Kin(q, q)
  BY DEF Kin
<1> QED BY <1>1, <1>3, <1>4, <1>5, <1>6 DEF Descends

LEMMA SendsUnawaited ==
  ASSUME NEW some, some \subseteq Sends, Descends(some)
  PROVE  /\ {Unawaited(s) : s \in some} \subseteq Sends
         /\ \A r \in {Unawaited(s) : s \in some} : ~r.mine
         /\ Descends({Unawaited(s) : s \in some})
<1>1. ASSUME NEW r \in {Unawaited(s) : s \in some}
      PROVE  r \in Sends /\ ~r.mine /\ \E q \in sends : Kin(r, q)
  <2>1. PICK s \in some : r = Unawaited(s)
    OBVIOUS
  <2>2. r \in Sends /\ Kin(r, s) /\ ~r.mine
    BY <2>1, OneUnawaited
  <2>3. PICK q \in sends : Kin(s, q)
    BY DEF Descends
  <2> QED BY <2>2, <2>3 DEF Kin
<1> QED BY <1>1 DEF Descends

LEMMA SendGivenUp ==
  ASSUME SendsType, NEW s \in sends
  PROVE  /\ GivenUp(s) \subseteq Sends /\ Descends(GivenUp(s))
         /\ \A r \in GivenUp(s) : r.mine => r \in sends \ {s}
<1>1. s \in Sends /\ sends \subseteq Sends
  BY DEF SendsType
<1>2. \A q \in sends : Kin(q, q)
  BY DEF Kin
<1>3. PICK u : u = Unawaited(s)
  OBVIOUS
<1>4. u \in Sends /\ Kin(u, s) /\ ~u.mine
  BY <1>1, <1>3, OneUnawaited
<1>5. PICK r : r = [u EXCEPT !.at = "adrift"]
  OBVIOUS
<1>6. r \in Sends /\ Kin(r, u) /\ ~r.mine
  BY <1>4, <1>5, OneMoved
<1>7. Kin(r, s)
  BY <1>4, <1>6 DEF Kin
<1>8. GivenUp(s) \subseteq (sends \ {s}) \union {r}
  BY <1>3, <1>5 DEF GivenUp, Moved
<1> QED BY <1>1, <1>2, <1>6, <1>7, <1>8 DEF Descends

LEMMA Fewer ==
  ASSUME SendsType, NEW s
  PROVE  sends \ {s} \subseteq Sends /\ OneAwaited(sends \ {s}) /\ Descends(sends \ {s})
BY DEF SendsType, OneAwaited, Descends, Kin

LEMMA NobodyAwaits ==
  ASSUME NEW some, \A r \in some : ~r.mine PROVE OneAwaited(some)
BY DEF OneAwaited

LEMMA ScreenKept == ASSUME Typed, UNCHANGED screenVars PROVE ScreenType'
BY DEF Typed, ScreenType, screenVars

LEMMA SendsKept == ASSUME Typed, UNCHANGED sends PROVE SendsType'
BY DEF Typed, SendsType, OneAwaited

LEMMA CountKept ==
  ASSUME Typed, UNCHANGED <<commandIds, ids, words>>, UNCHANGED troubles \/ Trouble
  PROVE  CountType'
BY Bounds DEF Typed, CountType, Trouble

LEMMA Newest ==
  ASSUME Typed
  PROVE  /\ newestShownMessage \in {0} \union thread.shown
         /\ \A n \in thread.shown : n \in Nat /\ n <= newestShownMessage
<1>1. Len(log) \in Nat /\ thread.shown \subseteq 1..Len(log)
  BY DEF Typed, LogType, ThreadType
<1>2. {0} \union thread.shown \in SUBSET Nat /\ \A n \in {0} \union thread.shown : n <= Len(log)
  BY <1>1
<1>3. \E m \in {0} \union thread.shown : \A n \in {0} \union thread.shown : n <= m
  BY <1>1, <1>2, Greatest
<1> QED BY <1>2, <1>3 DEF newestShownMessage

-----------------------------------------------------------------------------
LEMMA OpenTyped ==
  ASSUME Typed, UNCHANGED log, NEW given, given \subseteq Words, \A v, w \in given : v = w, open(given)
  PROVE  ThreadType' /\ FetchType' /\ ScreenType' /\ PastType'
<1>1. Grows
  BY SameLog
<1>2. ThreadType'
  BY <1>1, ThreadKept DEF open
<1>3. fetch' \in {fetch, Asking} /\ stale' = stale
  BY DEF open
<1>4. FetchType'
  BY <1>1, <1>3, FetchKept DEF Typed, FetchType
<1>5. ScreenType'
  BY DEF open, ScreenType
<1>6. PastType'
  BY DEF open, Look, Venue, Typed, PastType
<1> QED BY <1>2, <1>4, <1>5, <1>6

LEMMA OpenKeepsType == ASSUME Typed, Open PROVE Typed'
<1>1. open({}) /\ UNCHANGED <<serverVars, commandIds, sends, marks, countVars>>
  BY DEF Open
<1>2. Grows
  BY <1>1, SameLog DEF serverVars
<1>3. ThreadType' /\ FetchType' /\ ScreenType' /\ PastType'
  BY <1>1, OpenTyped DEF serverVars
<1>4. LogType'
  BY <1>1, <1>2, LogKept DEF serverVars
<1>5. SendsType' /\ CountType'
  BY <1>1, SendsKept, CountKept DEF countVars
<1> QED BY <1>3, <1>4, <1>5 DEF Typed

LEMMA LeaveKeepsType == ASSUME Typed, Leave PROVE Typed'
<1>1. UNCHANGED <<serverVars, cacheVars, commandIds, marks, countVars, pastVars>>
  BY DEF Leave
<1>2. Grows
  BY <1>1, SameLog DEF serverVars
<1>3. LogType' /\ ThreadType' /\ PastType'
  BY <1>1, <1>2, LogKept, ThreadKept, PastKept DEF serverVars, cacheVars
<1>4. FetchType'
  BY <1>1, <1>2, FetchKept DEF cacheVars, Typed, FetchType
<1>5. ScreenType'
  BY DEF Leave, ScreenType
<1>6. CountType'
  BY <1>1, CountKept DEF countVars
<1>7. SendsType'
  <2>1. sends \subseteq Sends /\ Descends(sends)
    BY DEF Typed, SendsType, Descends, Kin
  <2>2. sends' = {Unawaited(s) : s \in sends}
    BY DEF Leave
  <2>3. sends' \subseteq Sends /\ \A r \in sends' : ~r.mine
    BY <2>1, <2>2, SendsUnawaited
  <2>4. OneAwaited(sends')
    BY <2>3, NobodyAwaits
  <2> QED BY <2>3, <2>4 DEF SendsType, OneAwaited
<1> QED BY <1>3, <1>4, <1>5, <1>6, <1>7 DEF Typed

(* A read is asked, answered, landed or lost.                               *)
LEMMA ReadsKeepType == ASSUME Typed, Reads PROVE Typed'
<1>0. UNCHANGED <<serverVars, screenVars, commandIds, sends, marks, ids, words>>
      /\ (UNCHANGED troubles \/ Trouble)
  BY DEF Reads, poll, Refetch, ServeRead, ReadLands, ReadFails, countVars
<1>1. Grows
  BY <1>0, SameLog DEF serverVars
<1>2. LogType' /\ ScreenType' /\ SendsType' /\ CountType'
  BY <1>0, <1>1, LogKept, ScreenKept, SendsKept, CountKept DEF serverVars
<1>3. LogType /\ ThreadType /\ FetchType /\ PastType /\ Len(log) \in Nat /\ Len(log') = Len(log)
  BY <1>0 DEF Typed, LogType, serverVars
<1>4. CASE poll \/ Refetch \/ ReadFails
  <2>1. UNCHANGED <<thread, stale, pastVars>> /\ fetch' \in {Asking, NoRead}
    BY <1>4 DEF poll, Refetch, ReadFails
  <2>2. ThreadType' /\ PastType'
    BY <1>1, <2>1, ThreadKept, PastKept
  <2>3. FetchType'
    BY <1>1, <1>3, <2>1, FetchKept DEF FetchType
  <2> QED BY <1>2, <2>2, <2>3 DEF Typed
<1>5. CASE ServeRead
  <2>1. UNCHANGED <<thread, stale, pastVars>>
    BY <1>5 DEF ServeRead
  <2>2. ThreadType' /\ PastType'
    BY <1>1, <2>1, ThreadKept, PastKept
  <2>3. PICK new \in BOOLEAN : new = (\E v \in Venue : v > readMark)
    OBVIOUS
  <2>4. fetch' = [at |-> "back", upTo |-> Len(log), unread |-> new]
    BY <1>5, <2>3 DEF ServeRead
  <2>5. new => Len(log) > 0
    <3> SUFFICES ASSUME new PROVE Len(log) > 0
      OBVIOUS
    <3>1. PICK v \in Venue : v > readMark
      BY <2>3
    <3> QED BY <1>3, <3>1 DEF Venue
  <2>6. FetchType'
    BY <1>3, <2>1, <2>4, <2>5 DEF FetchType
  <2> QED BY <1>2, <2>2, <2>6 DEF Typed
<1>6. CASE ReadLands
  <2>1. thread' = [loaded |-> TRUE, shown |-> 1..fetch.upTo, pending |-> {}, unread |-> fetch.unread]
        /\ fetch' = NoRead /\ stale' = FALSE
    BY <1>6 DEF ReadLands
  <2>2. fetch.upTo \in 0..Len(log) /\ fetch.unread \in BOOLEAN /\ (fetch.unread => fetch.upTo > 0)
    BY <1>3 DEF FetchType
  <2>3. 1..fetch.upTo \subseteq 1..Len(log) /\ 1..fetch.upTo \subseteq Places
    BY <1>3, <2>2 DEF Places
  <2>4. ThreadType'
    <3>1. thread' \in [loaded : BOOLEAN, shown : SUBSET Places, pending : SUBSET Ids, unread : BOOLEAN]
      BY <2>1, <2>2, <2>3
    <3>2. thread'.unread => thread'.shown # {}
      BY <1>3, <2>1, <2>2
    <3>3. thread'.shown \subseteq 1..Len(log')
      BY <1>3, <2>1, <2>3
    <3> QED BY <3>1, <3>2, <3>3 DEF ThreadType
  <2>5. FetchType'
    BY <1>1, <2>1, FetchKept
  <2>6. seen' \subseteq seen \union Venue /\ UNCHANGED <<settled, settledAway, unmarked>>
    BY <1>6 DEF ReadLands, Look
  <2>7. PastType'
    BY <1>3, <2>6 DEF PastType, Venue
  <2> QED BY <1>2, <2>4, <2>5, <2>7 DEF Typed
<1> QED BY <1>4, <1>5, <1>6 DEF Reads

LEMMA useMarkReadWhenSeenKeepsType == ASSUME Typed, useMarkReadWhenSeen PROVE Typed'
<1>1. UNCHANGED <<serverVars, fetch, stale, screen, draft, attempt, commandIds, sends, countVars, pastVars>>
  BY DEF useMarkReadWhenSeen
<1>2. Grows
  BY <1>1, SameLog DEF serverVars
<1>3. SendsType' /\ CountType' /\ PastType'
  BY <1>1, <1>2, SendsKept, CountKept, PastKept DEF countVars
<1>4. FetchType'
  BY <1>1, <1>2, FetchKept DEF Typed, FetchType
<1>5. PICK n : n = newestShownMessage
  OBVIOUS
<1>6. thread.shown # {} /\ thread.shown \subseteq 1..Len(log) /\ Len(log) \in Nat
  BY DEF useMarkReadWhenSeen, markDue, Typed, ThreadType, LogType
<1>7. n \in 1..Len(log)
  BY <1>5, <1>6, Newest
<1>8. marks' = marks \union {n} /\ marked' = n /\ thread' = [thread EXCEPT !.unread = FALSE]
  BY <1>5 DEF useMarkReadWhenSeen
<1>9. LogType'
  BY <1>1, <1>7, <1>8 DEF Typed, LogType, serverVars
<1>10. ScreenType'
  BY <1>1, <1>6, <1>7, <1>8 DEF Typed, ScreenType, Places
<1>11. ThreadType'
  BY <1>1, <1>8 DEF Typed, ThreadType, serverVars
<1> QED BY <1>3, <1>4, <1>9, <1>10, <1>11 DEF Typed

(* A mark reaches the server, or is lost.                                   *)
LEMMA MarkGoneKeepsType ==
  ASSUME Typed, NEW m, ServeMark(m) \/ LoseMark(m) PROVE Typed'
<1>1. UNCHANGED <<log, cacheVars, screenVars, commandIds, sends, ids, words, seen, settled, settledAway>>
      /\ m \in marks /\ marks' = marks \ {m} /\ (UNCHANGED troubles \/ Trouble)
  BY DEF ServeMark, LoseMark, serverVars, countVars, pastVars
<1>2. Grows
  BY <1>1, SameLog
<1>3. ThreadType' /\ ScreenType' /\ SendsType' /\ CountType'
  BY <1>1, <1>2, ThreadKept, ScreenKept, SendsKept, CountKept DEF cacheVars
<1>4. FetchType'
  BY <1>1, <1>2, FetchKept DEF Typed, FetchType, cacheVars
<1>5. readMark' \in {readMark, m}
  BY DEF ServeMark, LoseMark, serverVars
<1>6. LogType'
  BY <1>1, <1>5 DEF Typed, LogType
<1>7. unmarked' \in BOOLEAN
  BY DEF ServeMark, LoseMark, pastVars, Typed, PastType
<1>8. PastType'
  BY <1>1, <1>7 DEF Typed, PastType
<1> QED BY <1>3, <1>4, <1>6, <1>8 DEF Typed

-----------------------------------------------------------------------------
LEMMA TypeKeepsType == ASSUME Typed, NEW text \in Texts, Type(text) PROVE Typed'
<1>1. UNCHANGED <<serverVars, cacheVars, screen, attempt, marked, commandIds, sends, marks, ids, troubles,
                  pastVars>>
  BY DEF Type
<1>2. Grows
  BY <1>1, SameLog DEF serverVars
<1>3. LogType' /\ ThreadType' /\ PastType' /\ SendsType'
  BY <1>1, <1>2, LogKept, ThreadKept, PastKept, SendsKept DEF serverVars, cacheVars
<1>4. FetchType'
  BY <1>1, <1>2, FetchKept DEF Typed, FetchType, cacheVars
<1>5. words + 1 \in 1..MaxWords
  BY Bounds DEF Type, Typed, CountType
<1>6. [text |-> text, n |-> words + 1, reply |-> FALSE] \in Words
  BY <1>5 DEF Words
<1>7. ScreenType'
  BY <1>1, <1>6 DEF Type, Typed, ScreenType
<1>8. CountType'
  BY <1>1, <1>5 DEF Type, Typed, CountType
<1> QED BY <1>3, <1>4, <1>7, <1>8 DEF Typed

LEMMA sendDraftKeepsType == ASSUME Typed, sendDraft PROVE Typed'
<1>1. PICK w \in draft, id \in Ids :
        /\ \/ [text |-> w.text, id |-> id] \in attempt /\ UNCHANGED ids
           \/ (\A a \in attempt : a.text # w.text) /\ id = ids + 1 /\ ids' = id
        /\ attempt' = {[text |-> w.text, id |-> id]} /\ draft' = {}
        /\ thread' = [thread EXCEPT !.pending = @ \union {id}] /\ fetch' = NoRead
        /\ sends' = sends \union {[id |-> id, words |-> w, from |-> "screen", mine |-> TRUE, at |-> "away"]}
        /\ ~busy
        /\ UNCHANGED <<serverVars, stale, screen, marked, commandIds, marks, words, troubles, pastVars>>
  BY DEF sendDraft
<1>2. Grows
  BY <1>1, SameLog DEF serverVars
<1>3. LogType' /\ PastType'
  BY <1>1, <1>2, LogKept, PastKept DEF serverVars
<1>4. FetchType'
  BY <1>1, <1>2, FetchKept DEF Typed, FetchType
<1>5. w \in Words
  BY DEF Typed, ScreenType
<1>6. ScreenType'
  BY <1>1, <1>5, WordFields DEF Typed, ScreenType
<1>7. CountType'
  BY <1>1, Bounds DEF Typed, CountType, Ids
<1>8. ThreadType'
  BY <1>1 DEF Typed, ThreadType, serverVars
<1>9. SendsType'
  <2>1. PICK r : r = [id |-> id, words |-> w, from |-> "screen", mine |-> TRUE, at |-> "away"]
    OBVIOUS
  <2>2. r \in Sends
    BY <1>5, <2>1 DEF Sends
  <2>3. sends' = sends \union {r} /\ \A s \in sends : ~s.mine
    BY <1>1, <2>1 DEF busy
  <2> QED BY <2>2, <2>3 DEF Typed, SendsType, OneAwaited
<1> QED BY <1>3, <1>4, <1>6, <1>7, <1>8, <1>9 DEF Typed

LEMMA ReplyKeepsType == ASSUME Typed, NEW text \in Texts, Reply(text) PROVE Typed'
<1>1. PICK id \in Ids :
        /\ words < MaxWords /\ words' = words + 1
        /\ \/ id = commandIds[text] /\ UNCHANGED <<commandIds, ids>>
           \/ /\ commandIds[text] = 0 /\ id = ids + 1 /\ ids' = id
              /\ commandIds' = [commandIds EXCEPT ![text] = id]
        /\ sends' = sends \union
              {[id |-> id, words |-> [text |-> text, n |-> words + 1, reply |-> TRUE],
                from |-> "banner", mine |-> FALSE, at |-> "away"]}
        /\ invalidate
        /\ UNCHANGED <<serverVars, thread, screenVars, marks, troubles, pastVars>>
  BY DEF Reply
<1>2. Grows
  BY <1>1, SameLog DEF serverVars
<1>3. LogType' /\ ThreadType' /\ ScreenType' /\ PastType'
  BY <1>1, <1>2, LogKept, ThreadKept, ScreenKept, PastKept DEF serverVars
<1>4. FetchType'
  BY <1>1, <1>2, Invalidated, FetchKept
<1>5. words + 1 \in 1..MaxWords
  BY <1>1, Bounds DEF Typed, CountType
<1>6. CountType'
  BY <1>1, <1>5, Bounds DEF Typed, CountType, Ids
<1>7. SendsType'
  <2>1. PICK w : w = [text |-> text, n |-> words + 1, reply |-> TRUE]
    OBVIOUS
  <2>2. w \in Words
    BY <1>5, <2>1 DEF Words
  <2>3. PICK r : r = [id |-> id, words |-> w, from |-> "banner", mine |-> FALSE, at |-> "away"]
    OBVIOUS
  <2>4. r \in Sends /\ ~r.mine
    BY <2>2, <2>3 DEF Sends
  <2>5. sends' = sends \union {r}
    BY <1>1, <2>1, <2>3
  <2> QED BY <2>4, <2>5 DEF Typed, SendsType, OneAwaited
<1> QED BY <1>3, <1>4, <1>6, <1>7 DEF Typed

-----------------------------------------------------------------------------
(* A text on its way: written or refused by the server, answered or not.    *)
LEMMA WriteKeepsType == ASSUME Typed, NEW s, Write(s) PROVE Typed'
<1>1. UNCHANGED <<readMark, cacheVars, screenVars, commandIds, marks, countVars, pastVars>>
      /\ s \in sends
  BY DEF Write
<1>2. s \in Sends /\ SendsType
  BY <1>1 DEF Typed, SendsType
<1>3. PICK m : m = [author |-> "guest", id |-> s.id, words |-> s.words]
  OBVIOUS
<1>4. m \in Messages
  BY <1>2, <1>3, SendFields DEF Messages
<1>5. Grows
  BY <1>3, <1>4 DEF Write, Grows
<1>6. LogType' /\ ThreadType' /\ ScreenType' /\ CountType' /\ PastType'
  BY <1>1, <1>5, LogKept, ThreadKept, ScreenKept, CountKept, PastKept DEF cacheVars, countVars
<1>7. FetchType'
  BY <1>1, <1>5, FetchKept DEF Typed, FetchType, cacheVars
<1>8. sends' = sends \ {s} \/ sends' = Moved(s, "written")
  BY DEF Write
<1>9. SendsType'
  BY <1>1, <1>2, <1>8, SendMoved, Fewer DEF SendsType, OneAwaited
<1> QED BY <1>6, <1>7, <1>9 DEF Typed

LEMMA RefuseKeepsType == ASSUME Typed, NEW s, Refuse(s) PROVE Typed'
<1>1. UNCHANGED <<serverVars, cacheVars, screenVars, commandIds, marks, ids, words, pastVars>>
      /\ s \in sends /\ Trouble /\ sends' = Moved(s, "refused")
  BY DEF Refuse
<1>2. Grows
  BY <1>1, SameLog DEF serverVars
<1>3. LogType' /\ ThreadType' /\ ScreenType' /\ CountType' /\ PastType'
  BY <1>1, <1>2, LogKept, ThreadKept, ScreenKept, CountKept, PastKept DEF serverVars, cacheVars
<1>4. FetchType'
  BY <1>1, <1>2, FetchKept DEF Typed, FetchType, cacheVars
<1>5. SendsType'
  BY <1>1, SendMoved DEF Typed, SendsType, OneAwaited
<1> QED BY <1>3, <1>4, <1>5 DEF Typed

LEMMA SentKeepsType == ASSUME Typed, NEW s, Sent(s) PROVE Typed'
<1>1. UNCHANGED <<serverVars, screen, draft, marked, commandIds, marks, countVars, seen, unmarked>>
      /\ s \in sends /\ sends' = sends \ {s} /\ invalidate
  BY DEF Sent
<1>2. Grows
  BY <1>1, SameLog DEF serverVars
<1>3. LogType' /\ CountType'
  BY <1>1, <1>2, LogKept, CountKept DEF serverVars, countVars
<1>4. FetchType'
  BY <1>1, <1>2, Invalidated, FetchKept
<1>5. SendsType'
  BY <1>1, Fewer DEF Typed, SendsType, OneAwaited
<1>6. attempt' \in {{}, attempt}
  BY DEF Sent
<1>7. ScreenType'
  BY <1>1, <1>6 DEF Typed, ScreenType
<1>8. Len(log) \in Nat /\ log' = log /\ Message(s.id) \subseteq 1..Len(log)
      /\ Message(s.id) \subseteq Places
  BY <1>1 DEF Typed, LogType, Message, Guest, serverVars, Places
<1>9. ThreadType'
  <2>1. CASE ~thread.loaded
    BY <1>8, <2>1 DEF Sent, settleSentMessage, Typed, ThreadType
  <2>2. CASE thread.loaded
    <3>1. thread' = [thread EXCEPT !.shown = @ \union Message(s.id), !.pending = @ \ {s.id}]
      BY <2>2 DEF Sent, settleSentMessage
    <3>2. thread.shown \union Message(s.id) \in SUBSET Places
      BY <1>8 DEF Typed, ThreadType
    <3>3. thread' \in [loaded : BOOLEAN, shown : SUBSET Places, pending : SUBSET Ids, unread : BOOLEAN]
          /\ thread'.shown = thread.shown \union Message(s.id) /\ thread'.unread = thread.unread
      BY <3>1, <3>2 DEF Typed, ThreadType
    <3> QED BY <1>8, <3>3 DEF Typed, ThreadType
  <2> QED BY <2>1, <2>2
<1>10. PastType'
  BY <1>1, <1>8 DEF Sent, settleSentMessage, Typed, PastType
<1> QED BY <1>3, <1>4, <1>5, <1>7, <1>9, <1>10 DEF Typed

(* The pending message goes, and its words come back.                       *)
LEMMA DroppedType ==
  ASSUME Typed, NEW s \in sends, dropPendingMessage(s)
  PROVE  LogType' /\ ThreadType' /\ FetchType' /\ PastType' /\ draft' \subseteq Words
         /\ \A v, w \in draft' : v = w
<1>1. UNCHANGED <<serverVars, screen, marked, commandIds, marks, ids, words, pastVars>> /\ invalidate
      /\ thread' = [thread EXCEPT !.pending = @ \ {s.id}] /\ draft' \in {draft, {s.words}}
  BY DEF dropPendingMessage
<1>2. Grows
  BY <1>1, SameLog DEF serverVars
<1>3. LogType' /\ PastType'
  BY <1>1, <1>2, LogKept, PastKept DEF serverVars
<1>4. FetchType'
  BY <1>1, <1>2, Invalidated, FetchKept
<1>5. ThreadType'
  BY <1>1 DEF Typed, ThreadType, serverVars
<1>6. s.words \in Words /\ ScreenType
  BY SendFields DEF Typed, SendsType
<1>7. draft' \subseteq Words /\ \A v, w \in draft' : v = w
  BY <1>1, <1>6 DEF ScreenType
<1> QED BY <1>3, <1>4, <1>5, <1>7

LEMMA GivenUpType ==
  ASSUME SendsType, NEW s \in sends PROVE GivenUp(s) \subseteq Sends /\ OneAwaited(GivenUp(s))
BY SendGivenUp DEF SendsType, OneAwaited

LEMMA NoTextKeepsType == ASSUME Typed, NEW s, Refused(s) \/ NoAnswer(s) PROVE Typed'
<1>1. s \in sends /\ dropPendingMessage(s) /\ UNCHANGED attempt /\ (UNCHANGED troubles \/ Trouble)
      /\ (sends' = sends \ {s} \/ sends' = GivenUp(s))
  BY DEF Refused, NoAnswer
<1>2. UNCHANGED <<screen, marked, commandIds, ids, words>>
  BY <1>1 DEF dropPendingMessage
<1>3. LogType' /\ ThreadType' /\ FetchType' /\ PastType'
  BY <1>1, DroppedType
<1>4. ScreenType'
  BY <1>1, <1>2, DroppedType DEF Typed, ScreenType
<1>5. CountType'
  BY <1>1, <1>2, CountKept
<1>6. SendsType'
  BY <1>1, Fewer, GivenUpType DEF Typed, SendsType, OneAwaited
<1> QED BY <1>3, <1>4, <1>5, <1>6 DEF Typed

LEMMA ReplySentKeepsType == ASSUME Typed, NEW s, ReplySent(s) PROVE Typed'
<1>1. UNCHANGED <<serverVars, thread, screenVars, commandIds, marks, countVars, pastVars>>
      /\ s \in sends /\ sends' = sends \ {s} /\ invalidate
  BY DEF ReplySent
<1>2. Grows
  BY <1>1, SameLog DEF serverVars
<1>3. LogType' /\ ThreadType' /\ ScreenType' /\ CountType' /\ PastType'
  BY <1>1, <1>2, LogKept, ThreadKept, ScreenKept, CountKept, PastKept DEF serverVars, countVars
<1>4. FetchType'
  BY <1>1, <1>2, Invalidated, FetchKept
<1>5. SendsType'
  BY <1>1, Fewer DEF Typed, SendsType, OneAwaited
<1> QED BY <1>3, <1>4, <1>5 DEF Typed

LEMMA ReplyFailedKeepsType == ASSUME Typed, NEW s, ReplyFailed(s) PROVE Typed'
<1>1. UNCHANGED <<serverVars, commandIds, marks, ids, words>> /\ (UNCHANGED troubles \/ Trouble)
      /\ s \in sends /\ sends' = {Unawaited(r) : r \in GivenUp(s)} /\ open({s.words})
  BY DEF ReplyFailed
<1>2. Grows
  BY <1>1, SameLog DEF serverVars
<1>3. LogType' /\ CountType'
  BY <1>1, <1>2, LogKept, CountKept DEF serverVars
<1>4. s.words \in Words
  BY <1>1, SendFields DEF Typed, SendsType
<1>5. ThreadType' /\ FetchType' /\ ScreenType' /\ PastType'
  BY <1>1, <1>4, OpenTyped DEF serverVars
<1>6. GivenUp(s) \subseteq Sends /\ Descends(GivenUp(s))
  BY <1>1, SendGivenUp DEF Typed
<1>7. sends' \subseteq Sends /\ \A r \in sends' : ~r.mine
  BY <1>1, <1>6, SendsUnawaited
<1>8. SendsType'
  BY <1>7 DEF SendsType, OneAwaited
<1> QED BY <1>3, <1>5, <1>8 DEF Typed

LEMMA VenueWritesKeepsType == ASSUME Typed, VenueWrites PROVE Typed'
<1>1. UNCHANGED <<readMark, thread, screenVars, commandIds, sends, marks, countVars, pastVars>>
      /\ log' = Append(log, [author |-> "venue"]) /\ (invalidate \/ UNCHANGED <<fetch, stale>>)
  BY DEF VenueWrites
<1>2. Grows
  BY <1>1 DEF Grows, Messages
<1>3. LogType' /\ ThreadType' /\ ScreenType' /\ SendsType' /\ CountType' /\ PastType'
  BY <1>1, <1>2, LogKept, ThreadKept, ScreenKept, SendsKept, CountKept, PastKept DEF countVars
<1>4. fetch' \in {fetch, Asking} /\ stale' \in BOOLEAN
  BY <1>1, Invalidated DEF Typed, FetchType
<1>5. FetchType'
  BY <1>2, <1>4, FetchKept
<1> QED BY <1>3, <1>5 DEF Typed

LEMMA StutterKeepsType == ASSUME Typed, UNCHANGED vars PROVE Typed'
BY DEF vars, serverVars, cacheVars, screenVars, countVars, pastVars, Typed, LogType, ThreadType,
       FetchType, ScreenType, SendsType, OneAwaited, CountType, PastType

LEMMA StepTyped == Typed /\ [Next]_vars => Typed'
<1> SUFFICES ASSUME Typed, [Next]_vars PROVE Typed'
  OBVIOUS
<1>1. CASE Reads
  BY <1>1, ReadsKeepType
<1>2. CASE Person
  BY <1>2, OpenKeepsType, LeaveKeepsType, sendDraftKeepsType, TypeKeepsType, ReplyKeepsType DEF Person
<1>3. CASE Marks
  BY <1>3, useMarkReadWhenSeenKeepsType, MarkGoneKeepsType DEF Marks
<1>4. CASE Texting
  BY <1>4, WriteKeepsType, RefuseKeepsType, SentKeepsType, NoTextKeepsType, ReplySentKeepsType,
     ReplyFailedKeepsType DEF Texting
<1>5. CASE VenueWrites
  BY <1>5, VenueWritesKeepsType
<1>6. CASE UNCHANGED vars
  BY <1>6, StutterKeepsType
<1> QED BY <1>1, <1>2, <1>3, <1>4, <1>5, <1>6 DEF Next

(* The thread, its reads, the texts and marks on their way and the server's *)
(* log keep their types; one text of the screen's own is awaited at a time. *)
THEOREM TypeCorrect == Spec => []TypeOK
<1>1. Spec => []Typed
  BY InitTyped, StepTyped, PTL DEF Spec
<1> QED BY <1>1, TypedIsTypeOK, PTL

-----------------------------------------------------------------------------
(* Nothing is written twice.  Words have gone out under an id when a send   *)
(* or a message carries both; they are meant while they are in the field,   *)
(* or once they have gone out.                                              *)
Went(w, id) ==
   \/ \E s \in sends : s.words = w /\ s.id = id
   \/ \E m \in Guest : log[m].words = w /\ log[m].id = id

Meant(w) == w \in draft \/ \E id \in Ids : Went(w, id)

(* A text awaited is of the screen in front, which remembers its id.        *)
Screened ==
   \A s \in sends : s.mine => /\ s.from = "screen" /\ screen = "front"
                              /\ attempt = {[text |-> s.words.text, id |-> s.id]}

Replied == \A s \in sends : s.from = "banner" => s.words.reply

(* A number stands for one text, typed once.                                *)
Numbered == \A w \in Words : Meant(w) => w.n <= words
OneMeaning == \A v, w \in Words : Meant(v) /\ Meant(w) /\ v.n = w.n => v = w

(* Words from the field go out under one id, and those that have come back  *)
(* to it will go out under it again.                                        *)
OneId == \A w \in Words : \A i, j \in Ids : ~w.reply /\ Went(w, i) /\ Went(w, j) => i = j
Again ==
   \A w \in draft, i \in Ids : ~w.reply /\ Went(w, i) =>
      [text |-> w.text, id |-> i] \in attempt /\ \A s \in sends : ~s.mine

OneWritten == \A m, n \in Guest : log[m].id = log[n].id => m = n

OnceInv ==
   Typed /\ Screened /\ Replied /\ Numbered /\ OneMeaning /\ OneId /\ Again /\ OneWritten

LEMMA InitOnce == Init => OnceInv
<1> SUFFICES ASSUME Init PROVE OnceInv
  OBVIOUS
<1>1. sends = {} /\ draft = {} /\ Len(log) = 0
  BY DEF Init
<1>2. \A w : ~Meant(w)
  BY <1>1 DEF Meant, Went, Guest
<1>3. OneWritten
  BY <1>1 DEF OneWritten, Guest
<1> QED BY <1>1, <1>2, <1>3, InitTyped
        DEF OnceInv, Screened, Replied, Numbered, OneMeaning, OneId, Again, Meant

LEMMA GuestWords ==
  ASSUME Typed, NEW m \in Guest PROVE log[m].words \in Words /\ log[m].id \in Ids
<1>1. log[m] \in Messages /\ log[m].author = "guest"
  BY DEF Guest, Typed, LogType
<1> QED BY <1>1 DEF Messages

(* What no send or message carried before, nothing carries after: the       *)
(* numbers stay with their texts.                                           *)
LEMMA NothingNew ==
  ASSUME OnceInv, Typed', words <= words',
         \A w \in Words, i \in Ids : Went(w, i)' => Went(w, i),
         \A w \in Words : Meant(w)' => Meant(w)
  PROVE  Numbered' /\ OneMeaning' /\ OneId'
<1>1. Numbered /\ OneMeaning /\ OneId /\ words \in Nat /\ words' \in Nat
  BY Bounds DEF OnceInv, Typed, CountType
<1>2. Numbered'
  <2> SUFFICES ASSUME NEW w \in Words, Meant(w)' PROVE w.n <= words'
    BY DEF Numbered
  <2>1. w.n <= words /\ w.n \in Nat
    BY <1>1, Bounds, WordFields DEF Numbered
  <2> QED BY <1>1, <2>1
<1>3. OneMeaning'
  BY <1>1 DEF OneMeaning
<1>4. OneId'
  BY <1>1 DEF OneId
<1> QED BY <1>2, <1>3, <1>4

(* The log as it was, and every send one of before.                         *)
LEMMA WentBefore ==
  ASSUME UNCHANGED log, Descends(sends'), NEW w, NEW i, Went(w, i)' PROVE Went(w, i)
<1>1. CASE \E s \in sends' : s.words = w /\ s.id = i
  BY <1>1 DEF Descends, Kin, Went
<1>2. CASE \E m \in Guest' : log'[m].words = w /\ log'[m].id = i
  BY <1>2 DEF Guest, Went
<1> QED BY <1>1, <1>2 DEF Went

LEMMA RepliedBefore == ASSUME Replied, Descends(sends') PROVE Replied'
BY DEF Replied, Descends, Kin

LEMMA SameSends == Descends(sends)
BY DEF Descends, Kin

(* A step that writes nothing and sends nothing new, and leaves the field   *)
(* as it is, with the last text tried, or empties it.                       *)
LEMMA QuietOnce ==
  ASSUME OnceInv, Typed', UNCHANGED log, words <= words', Descends(sends'), Screened',
         draft' = {} \/ (draft' = draft /\ UNCHANGED attempt)
  PROVE  OnceInv'
<1>1. \A w, i : Went(w, i)' => Went(w, i)
  BY WentBefore
<1>2. \A w : Meant(w)' => Meant(w)
  BY <1>1 DEF Meant
<1>3. Numbered' /\ OneMeaning' /\ OneId'
  BY <1>1, <1>2, NothingNew
<1>4. Again'
  <2> SUFFICES ASSUME NEW w \in draft', NEW i \in Ids, ~w.reply, Went(w, i)'
               PROVE  [text |-> w.text, id |-> i] \in attempt' /\ \A s \in sends' : ~s.mine
    BY DEF Again
  <2>1. w \in draft /\ UNCHANGED attempt /\ Went(w, i)
    BY <1>1
  <2>2. [text |-> w.text, id |-> i] \in attempt /\ \A s \in sends : ~s.mine
    BY <2>1 DEF OnceInv, Again
  <2> QED BY <2>1, <2>2 DEF Descends, Kin
<1>5. OneWritten' /\ Replied'
  BY RepliedBefore DEF OnceInv, OneWritten, Guest
<1> QED BY <1>3, <1>4, <1>5 DEF OnceInv

LEMMA ScreenedBefore ==
  ASSUME Screened, Descends(sends'), UNCHANGED <<screen, attempt>> PROVE Screened'
BY DEF Screened, Descends, Kin

(* Reads and marks, whoever asks for them.                                  *)
LEMMA ReadsAndMarksOnce ==
  ASSUME OnceInv, Typed', Reads \/ Marks \/ UNCHANGED vars PROVE OnceInv'
<1>1. UNCHANGED <<log, screen, draft, attempt, sends, words>>
  BY DEF Reads, poll, Refetch, ServeRead, ReadLands, ReadFails, Marks, useMarkReadWhenSeen, ServeMark,
         LoseMark, vars, serverVars, screenVars, countVars
<1>2. Descends(sends') /\ words <= words'
  BY <1>1, SameSends, Bounds DEF OnceInv, Typed, CountType
<1>3. Screened'
  BY <1>1, <1>2, ScreenedBefore DEF OnceInv
<1> QED BY <1>1, <1>2, <1>3, QuietOnce

LEMMA OpenOnce == ASSUME OnceInv, Typed', Open PROVE OnceInv'
<1>1. UNCHANGED <<log, sends, words>> /\ draft' = {} /\ screen = "closed"
  BY DEF Open, open, serverVars, countVars
<1>2. Descends(sends') /\ words <= words'
  BY <1>1, SameSends, Bounds DEF OnceInv, Typed, CountType
<1>3. Screened'
  BY <1>1 DEF OnceInv, Screened
<1> QED BY <1>1, <1>2, <1>3, QuietOnce

LEMMA LeaveOnce == ASSUME OnceInv, Typed', Leave PROVE OnceInv'
<1>1. UNCHANGED <<log, words>> /\ draft' = {} /\ sends' = {Unawaited(s) : s \in sends}
  BY DEF Leave, serverVars, countVars
<1>2. Descends(sends') /\ \A s \in sends' : ~s.mine
  BY <1>1, SameSends, SendsUnawaited DEF OnceInv, Typed, SendsType
<1>3. Screened' /\ words <= words'
  BY <1>1, <1>2, Bounds DEF OnceInv, Screened, Typed, CountType
<1> QED BY <1>1, <1>2, <1>3, QuietOnce

LEMMA LessSends ==
  ASSUME OnceInv, NEW s \in sends, NEW at \in {"written", "refused"},
         sends' = Moved(s, at) \/ sends' = sends \ {s} \/ sends' = GivenUp(s)
  PROVE  Descends(sends')
<1>1. SendsType
  BY DEF OnceInv, Typed
<1>2. Descends(Moved(s, at)) /\ Descends(sends \ {s}) /\ Descends(GivenUp(s))
  BY <1>1, SendMoved, Fewer, SendGivenUp
<1>3. CASE sends' = Moved(s, at)
  BY <1>2, <1>3 DEF Descends
<1>4. CASE sends' = sends \ {s}
  BY <1>2, <1>4 DEF Descends
<1>5. CASE sends' = GivenUp(s)
  BY <1>2, <1>5 DEF Descends
<1> QED BY <1>3, <1>4, <1>5

LEMMA RefuseOnce == ASSUME OnceInv, Typed', NEW s, Refuse(s) \/ ReplySent(s) PROVE OnceInv'
<1>1. UNCHANGED <<log, draft, attempt, screen, words>> /\ s \in sends
      /\ (sends' = Moved(s, "refused") \/ sends' = sends \ {s})
  BY DEF Refuse, ReplySent, serverVars, screenVars, countVars
<1>2. Descends(sends') /\ words <= words'
  BY <1>1, LessSends, Bounds DEF OnceInv, Typed, CountType
<1>3. Screened'
  BY <1>1, <1>2, ScreenedBefore DEF OnceInv
<1> QED BY <1>1, <1>2, <1>3, QuietOnce

(* A text the screen has awaited leaves it no words to send again.          *)
LEMMA SentOnce == ASSUME OnceInv, Typed', NEW s, Sent(s) PROVE OnceInv'
<1>1. UNCHANGED <<log, draft, screen, words>> /\ s \in sends /\ sends' = sends \ {s}
      /\ attempt' = IF s.mine THEN {} ELSE attempt
  BY DEF Sent, serverVars, countVars
<1>2. Descends(sends') /\ words <= words'
  BY <1>1, LessSends, Bounds DEF OnceInv, Typed, CountType
<1>3. CASE ~s.mine
  <2>1. Screened'
    BY <1>1, <1>2, <1>3, ScreenedBefore DEF OnceInv
  <2> QED BY <1>1, <1>2, <1>3, <2>1, QuietOnce
<1>4. CASE s.mine
  <2>1. \A w, i : Went(w, i)' => Went(w, i)
    BY <1>1, <1>2, WentBefore
  <2>2. \A w : Meant(w)' => Meant(w)
    BY <1>1, <2>1 DEF Meant
  <2>3. Numbered' /\ OneMeaning' /\ OneId'
    BY <1>2, <2>1, <2>2, NothingNew
  <2>4. Screened'
    BY <1>1, <1>4 DEF OnceInv, Typed, SendsType, OneAwaited, Screened
  <2>5. \A w \in draft, i \in Ids : ~(~w.reply /\ Went(w, i))
    BY <1>1, <1>4 DEF OnceInv, Again
  <2>6. Again'
    BY <1>1, <2>1, <2>5 DEF Again
  <2>7. OneWritten' /\ Replied'
    BY <1>1, <1>2, RepliedBefore DEF OnceInv, OneWritten, Guest
  <2> QED BY <2>3, <2>4, <2>6, <2>7 DEF OnceInv
<1> QED BY <1>3, <1>4

(* The server writes the words of a send under its id, once for each id.    *)
LEMMA WriteOnce == ASSUME OnceInv, Typed', NEW s, Write(s) PROVE OnceInv'
<1>1. UNCHANGED <<draft, attempt, screen, words>> /\ s \in sends
      /\ (sends' = Moved(s, "written") \/ sends' = sends \ {s})
  BY DEF Write, screenVars, countVars
<1>2. Descends(sends') /\ words <= words'
  BY <1>1, LessSends, Bounds DEF OnceInv, Typed, CountType
<1>3. Screened' /\ Replied'
  BY <1>1, <1>2, ScreenedBefore, RepliedBefore DEF OnceInv
<1>4. CASE log' = log
  BY <1>1, <1>2, <1>3, <1>4, QuietOnce
<1>5. CASE log' # log
  <2>1. Message(s.id) = {} /\ log' = Append(log, [author |-> "guest", id |-> s.id, words |-> s.words])
    BY <1>5 DEF Write
  <2>2. PICK L : L = Len(log)
    OBVIOUS
  <2>3. L \in Nat /\ Len(log') = L + 1 /\ (\A m \in 1..L : log'[m] = log[m])
        /\ log'[L + 1] = [author |-> "guest", id |-> s.id, words |-> s.words]
    BY <2>1, <2>2 DEF OnceInv, Typed, LogType
  <2>4. Guest' = Guest \union {L + 1} /\ Guest \subseteq 1..L
    BY <2>2, <2>3 DEF Guest
  <2>5. ASSUME NEW w, NEW i, Went(w, i)' PROVE Went(w, i)
    <3>1. CASE \E r \in sends' : r.words = w /\ r.id = i
      BY <1>2, <3>1 DEF Descends, Kin, Went
    <3>2. CASE \E m \in Guest' : log'[m].words = w /\ log'[m].id = i
      <4>1. PICK m \in Guest' : log'[m].words = w /\ log'[m].id = i
        BY <3>2
      <4>2. CASE m \in Guest
        BY <2>3, <2>4, <4>1, <4>2 DEF Went
      <4>3. CASE m = L + 1
        BY <1>1, <2>3, <4>1, <4>3 DEF Went
      <4> QED BY <2>4, <4>1, <4>2, <4>3
    <3> QED BY <2>5, <3>1, <3>2 DEF Went
  <2>6. \A w : Meant(w)' => Meant(w)
    BY <1>1, <2>5 DEF Meant
  <2>7. Numbered' /\ OneMeaning' /\ OneId'
    BY <1>2, <2>5, <2>6, NothingNew
  <2>8. Again'
    <3> SUFFICES ASSUME NEW w \in draft', NEW i \in Ids, ~w.reply, Went(w, i)'
                 PROVE  [text |-> w.text, id |-> i] \in attempt' /\ \A r \in sends' : ~r.mine
      BY DEF Again
    <3>1. [text |-> w.text, id |-> i] \in attempt /\ \A r \in sends : ~r.mine
      BY <1>1, <2>5 DEF OnceInv, Again
    <3> QED BY <1>1, <1>2, <3>1 DEF Descends, Kin
  <2>9. OneWritten'
    <3>1. \A m \in Guest : log'[m] = log[m] /\ log[m].id # s.id
      BY <2>1, <2>3, <2>4 DEF Message
    <3> QED BY <2>3, <2>4, <3>1 DEF OnceInv, OneWritten
  <2> QED BY <1>3, <2>7, <2>8, <2>9 DEF OnceInv
<1> QED BY <1>4, <1>5

LEMMA VenueWritesOnce == ASSUME OnceInv, Typed', VenueWrites PROVE OnceInv'
<1>1. UNCHANGED <<screen, draft, attempt, sends, words>> /\ log' = Append(log, [author |-> "venue"])
  BY DEF VenueWrites, screenVars, countVars
<1>2. PICK L : L = Len(log)
  OBVIOUS
<1>3. L \in Nat /\ Len(log') = L + 1 /\ (\A m \in 1..L : log'[m] = log[m])
      /\ log'[L + 1] = [author |-> "venue"]
  BY <1>1, <1>2 DEF OnceInv, Typed, LogType
<1>4. Guest' = Guest /\ \A m \in Guest : log'[m] = log[m]
  BY <1>2, <1>3 DEF Guest
<1>5. \A w, i : Went(w, i)' = Went(w, i)
  BY <1>1, <1>4 DEF Went
<1>6. Numbered' /\ OneMeaning' /\ OneId'
  BY <1>1, <1>5, Bounds, NothingNew DEF OnceInv, Typed, CountType, Meant
<1>7. Again' /\ Screened' /\ Replied'
  BY <1>1, <1>5 DEF OnceInv, Again, Screened, Replied
<1>8. OneWritten'
  BY <1>4 DEF OnceInv, OneWritten
<1> QED BY <1>6, <1>7, <1>8 DEF OnceInv

(* New words have a number of their own; words sent from the field are what *)
(* the last text tried says, or are tried for the first time.               *)
LEMMA TypeOnce == ASSUME OnceInv, Typed', NEW text \in Texts, Type(text) PROVE OnceInv'
<1>1. UNCHANGED <<log, screen, attempt, sends>> /\ words' = words + 1
      /\ draft' = {[text |-> text, n |-> words + 1, reply |-> FALSE]}
  BY DEF Type, serverVars
<1>2. PICK v : v = [text |-> text, n |-> words + 1, reply |-> FALSE]
  OBVIOUS
<1>3. v \in Words /\ v.n = words + 1 /\ words \in Nat /\ draft' = {v}
  BY <1>1, <1>2, Bounds DEF OnceInv, Typed, ScreenType, CountType
<1>4. \A w, i : Went(w, i)' = Went(w, i)
  BY <1>1 DEF Went, Guest
<1>5. \A w \in Words : Meant(w) => w.n \in Nat /\ w.n <= words
  BY WordFields, Bounds DEF OnceInv, Numbered
<1>6. \A w : Meant(w)' => Meant(w) \/ w = v
  BY <1>3, <1>4 DEF Meant
<1>7. Numbered'
  BY <1>1, <1>3, <1>5, <1>6 DEF Numbered
<1>8. OneMeaning'
  <2> SUFFICES ASSUME NEW u \in Words, NEW w \in Words, Meant(u)', Meant(w)', u.n = w.n
               PROVE  u = w
    BY DEF OneMeaning
  <2>1. CASE Meant(u) /\ Meant(w)
    BY <2>1 DEF OnceInv, OneMeaning
  <2>2. CASE u = v \/ w = v
    BY <1>3, <1>5, <1>6, <2>2
  <2> QED BY <1>6, <2>1, <2>2
<1>9. OneId'
  BY <1>4 DEF OnceInv, OneId
<1>10. Again'
  <2>1. \A i \in Ids : ~Went(v, i)
    BY <1>3, <1>5 DEF Meant
  <2> QED BY <1>3, <1>4, <2>1 DEF Again
<1>11. Screened' /\ Replied' /\ OneWritten'
  BY <1>1 DEF OnceInv, Screened, Replied, OneWritten, Guest
<1> QED BY <1>7, <1>8, <1>9, <1>10, <1>11 DEF OnceInv

LEMMA sendDraftOnce == ASSUME OnceInv, Typed', sendDraft PROVE OnceInv'
<1>1. PICK w \in draft, id \in Ids :
        /\ [text |-> w.text, id |-> id] \in attempt \/ \A a \in attempt : a.text # w.text
        /\ attempt' = {[text |-> w.text, id |-> id]} /\ draft' = {}
        /\ sends' = sends \union {[id |-> id, words |-> w, from |-> "screen", mine |-> TRUE, at |-> "away"]}
        /\ ~busy /\ screen = "front"
        /\ UNCHANGED <<log, screen, words>>
  BY DEF sendDraft, serverVars
<1>2. PICK r : r = [id |-> id, words |-> w, from |-> "screen", mine |-> TRUE, at |-> "away"]
  OBVIOUS
<1>3. sends' = sends \union {r} /\ r.id = id /\ r.words = w /\ r.from = "screen" /\ r.mine
  BY <1>1, <1>2
<1>4. \A s \in sends : ~s.mine
  BY <1>1 DEF busy
<1>5. w \in Words
  BY DEF OnceInv, Typed, ScreenType
<1>6. \A v, i : Went(v, i)' => Went(v, i) \/ (v = w /\ i = id)
  BY <1>1, <1>3 DEF Went, Guest
<1>7. \A v : Meant(v)' => Meant(v)
  BY <1>1, <1>6 DEF Meant
<1>8. Numbered' /\ OneMeaning'
  BY <1>1, <1>7 DEF OnceInv, Numbered, OneMeaning
<1>9. OneId'
  <2>1. ASSUME NEW j \in Ids, ~w.reply, Went(w, j) PROVE j = id
    <3>1. [text |-> w.text, id |-> j] \in attempt
      BY <1>1, <2>1 DEF OnceInv, Again
    <3>2. [text |-> w.text, id |-> id] \in attempt
      BY <1>1, <3>1
    <3>3. [text |-> w.text, id |-> j] = [text |-> w.text, id |-> id]
      BY <3>1, <3>2 DEF OnceInv, Typed, ScreenType
    <3>4. [text |-> w.text, id |-> j].id = [text |-> w.text, id |-> id].id
      BY <3>3
    <3> QED BY <3>4
  <2> QED BY <1>6, <2>1 DEF OnceInv, OneId
<1>10. Again'
  BY <1>1 DEF Again
<1>11. Screened' /\ Replied' /\ OneWritten'
  BY <1>1, <1>3, <1>4 DEF OnceInv, Screened, Replied, OneWritten, Guest
<1> QED BY <1>8, <1>9, <1>10, <1>11 DEF OnceInv

LEMMA ReplyOnce == ASSUME OnceInv, Typed', NEW text \in Texts, Reply(text) PROVE OnceInv'
<1>1. PICK id \in Ids :
        /\ words < MaxWords /\ words' = words + 1
        /\ sends' = sends \union
              {[id |-> id, words |-> [text |-> text, n |-> words + 1, reply |-> TRUE],
                from |-> "banner", mine |-> FALSE, at |-> "away"]}
        /\ UNCHANGED <<log, screen, draft, attempt>>
  BY DEF Reply, serverVars, screenVars
<1>2. PICK v : v = [text |-> text, n |-> words + 1, reply |-> TRUE]
  OBVIOUS
<1>3. words \in Nat /\ v.n = words + 1 /\ v.reply
  BY <1>2, Bounds DEF OnceInv, Typed, CountType
<1>4. PICK r : r = [id |-> id, words |-> v, from |-> "banner", mine |-> FALSE, at |-> "away"]
  OBVIOUS
<1>5. sends' = sends \union {r} /\ r.words = v /\ r.from = "banner" /\ ~r.mine /\ r.id = id
  BY <1>1, <1>2, <1>4
<1>6. \A w, i : Went(w, i)' => Went(w, i) \/ w = v
  BY <1>1, <1>5 DEF Went, Guest
<1>7. \A w : Meant(w)' => Meant(w) \/ w = v
  BY <1>1, <1>6 DEF Meant
<1>8. \A w \in Words : Meant(w) => w.n \in Nat /\ w.n <= words
  BY WordFields, Bounds DEF OnceInv, Numbered
<1>9. Numbered'
  BY <1>1, <1>3, <1>7, <1>8 DEF Numbered
<1>10. OneMeaning'
  <2> SUFFICES ASSUME NEW u \in Words, NEW w \in Words, Meant(u)', Meant(w)', u.n = w.n
               PROVE  u = w
    BY DEF OneMeaning
  <2>1. CASE Meant(u) /\ Meant(w)
    BY <2>1 DEF OnceInv, OneMeaning
  <2>2. CASE u = v \/ w = v
    BY <1>3, <1>7, <1>8, <2>2
  <2> QED BY <1>7, <2>1, <2>2
<1>11. OneId'
  BY <1>3, <1>6 DEF OnceInv, OneId
<1>12. Again'
  BY <1>1, <1>3, <1>5, <1>6 DEF OnceInv, Again
<1>13. Screened' /\ Replied' /\ OneWritten'
  BY <1>1, <1>3, <1>5 DEF OnceInv, Screened, Replied, OneWritten, Guest
<1> QED BY <1>9, <1>10, <1>11, <1>12, <1>13 DEF OnceInv

(* Words that come back to the field are of the one text it awaited.        *)
LEMMA NoTextOnce == ASSUME OnceInv, Typed', NEW s, Refused(s) \/ NoAnswer(s) PROVE OnceInv'
<1>1. s \in sends /\ UNCHANGED <<log, screen, attempt, words>>
      /\ draft' = (IF s.mine /\ draft = {} THEN {s.words} ELSE draft)
      /\ (sends' = sends \ {s} \/ sends' = GivenUp(s))
  BY DEF Refused, NoAnswer, dropPendingMessage, serverVars
<1>2. Descends(sends') /\ words <= words'
  BY <1>1, LessSends, Bounds DEF OnceInv, Typed, CountType
<1>3. Screened' /\ Replied'
  BY <1>1, <1>2, ScreenedBefore, RepliedBefore DEF OnceInv
<1>4. CASE ~(s.mine /\ draft = {})
  BY <1>1, <1>2, <1>3, <1>4, QuietOnce
<1>5. CASE s.mine /\ draft = {}
  <2>1. draft' = {s.words} /\ s.words \in Words /\ s.id \in Ids
    BY <1>1, <1>5, SendFields DEF OnceInv, Typed, SendsType
  <2>2. \A w, i : Went(w, i)' => Went(w, i)
    BY <1>1, <1>2, WentBefore
  <2>3. Went(s.words, s.id)
    BY <1>1 DEF Went
  <2>4. \A w : Meant(w)' => Meant(w)
    BY <2>1, <2>2, <2>3 DEF Meant
  <2>5. Numbered' /\ OneMeaning' /\ OneId'
    BY <1>2, <2>2, <2>4, NothingNew
  <2>6. \A r \in sends' : ~r.mine
    <3>1. \A r \in sends' : r.mine => r \in sends \ {s}
      BY <1>1, SendGivenUp DEF OnceInv, Typed
    <3> QED BY <1>1, <1>5, <3>1 DEF OnceInv, Typed, SendsType, OneAwaited
  <2>7. Again'
    <3> SUFFICES ASSUME NEW i \in Ids, ~s.words.reply, Went(s.words, i)
                 PROVE  [text |-> s.words.text, id |-> i] \in attempt
      BY <1>1, <2>1, <2>2, <2>6 DEF Again
    <3>1. i = s.id
      BY <2>1, <2>3 DEF OnceInv, OneId
    <3> QED BY <1>1, <1>5, <3>1 DEF OnceInv, Screened
  <2>8. OneWritten'
    BY <1>1 DEF OnceInv, OneWritten, Guest
  <2> QED BY <1>3, <2>5, <2>7, <2>8 DEF OnceInv
<1> QED BY <1>4, <1>5

LEMMA ReplyFailedOnce == ASSUME OnceInv, Typed', NEW s, ReplyFailed(s) PROVE OnceInv'
<1>1. s \in sends /\ s.from = "banner" /\ UNCHANGED <<log, words>> /\ draft' = {s.words}
      /\ sends' = {Unawaited(r) : r \in GivenUp(s)}
  BY DEF ReplyFailed, open, serverVars
<1>2. s.words.reply /\ s.words \in Words /\ s.id \in Ids /\ words <= words'
  BY <1>1, SendFields, Bounds DEF OnceInv, Replied, Typed, SendsType, CountType
<1>3. GivenUp(s) \subseteq Sends /\ Descends(GivenUp(s))
  BY <1>1, SendGivenUp DEF OnceInv, Typed
<1>4. PICK some : some = {Unawaited(r) : r \in GivenUp(s)}
  OBVIOUS
<1>5. Descends(some) /\ \A r \in some : ~r.mine
  BY <1>3, <1>4, SendsUnawaited
<1>6. Descends(sends') /\ \A r \in sends' : ~r.mine
  BY <1>1, <1>4, <1>5 DEF Descends
<1>7. \A w, i : Went(w, i)' => Went(w, i)
  BY <1>1, <1>6, WentBefore
<1>8. \A w : Meant(w)' => Meant(w)
  BY <1>1, <1>2, <1>7 DEF Meant, Went
<1>9. Numbered' /\ OneMeaning' /\ OneId'
  BY <1>2, <1>7, <1>8, NothingNew
<1>10. Again' /\ Screened'
  BY <1>1, <1>2, <1>6 DEF Again, Screened
<1>11. Replied' /\ OneWritten'
  BY <1>1, <1>6, RepliedBefore DEF OnceInv, OneWritten, Guest
<1> QED BY <1>9, <1>10, <1>11 DEF OnceInv

LEMMA StepOnce == OnceInv /\ [Next]_vars => OnceInv'
<1> SUFFICES ASSUME OnceInv, [Next]_vars PROVE OnceInv'
  OBVIOUS
<1>0. Typed'
  BY StepTyped DEF OnceInv
<1>1. CASE Reads \/ Marks \/ UNCHANGED vars
  BY <1>0, <1>1, ReadsAndMarksOnce
<1>2. CASE Person
  BY <1>0, <1>2, OpenOnce, LeaveOnce, sendDraftOnce, TypeOnce, ReplyOnce DEF Person
<1>3. CASE Texting
  BY <1>0, <1>3, WriteOnce, RefuseOnce, SentOnce, NoTextOnce, ReplyFailedOnce DEF Texting
<1>4. CASE VenueWrites
  BY <1>0, <1>4, VenueWritesOnce
<1> QED BY <1>1, <1>2, <1>3, <1>4 DEF Next

(* The same words tried again are not written twice, unless they began as a *)
(* reply in a banner: a send not answered leaves its words in the field and *)
(* its id with them, until the server's answer or another text takes them.  *)
THEOREM WrittenOnce == Spec => []SentOnceUnlessReplied
<1>1. Spec => []OnceInv
  BY InitOnce, StepOnce, PTL DEF Spec
<1>2. OnceInv => SentOnceUnlessReplied
  <2> SUFFICES ASSUME OnceInv, NEW m \in Guest, NEW n \in Guest, log[m].words.n = log[n].words.n
               PROVE  m = n \/ log[m].words.reply
    BY DEF SentOnceUnlessReplied
  <2>1. log[m].words \in Words /\ log[m].id \in Ids /\ log[n].words \in Words /\ log[n].id \in Ids
    BY GuestWords DEF OnceInv
  <2>2. Went(log[m].words, log[m].id) /\ Went(log[n].words, log[n].id)
    BY DEF Went
  <2>3. log[m].words = log[n].words
    BY <2>1, <2>2 DEF OnceInv, OneMeaning, Meant
  <2>4. ~log[m].words.reply => log[m].id = log[n].id
    BY <2>1, <2>2, <2>3 DEF OnceInv, OneId
  <2> QED BY <2>4 DEF OnceInv, OneWritten
<1> QED BY <1>1, <1>2, PTL

-----------------------------------------------------------------------------
(* What is read and what is shown.  A mark up to m reads what was seen, or  *)
(* what is behind a text of the guest's own.                                *)
Covered(m) == \A v \in Venue : v <= m => v \in seen \/ \E g \in settled : v < g /\ g <= m

MarksCovered == \A m \in marks \union {readMark} : Covered(m)

(* The thread shows the log from its start, and after it only texts put     *)
(* there by the answers to their sends; a screen in front has shown it.     *)
Contiguous == \A n \in thread.shown : n \in settled \/ 1..n \subseteq thread.shown

InFront == screen = "front" => thread.shown \intersect Venue \subseteq seen

(* An answer that comes while a read has its own calls the read off, unless *)
(* no screen is open.                                                       *)
NothingLate == fetch.at = "back" => thread.shown \ (1..fetch.upTo) \subseteq settledAway

ShownInv == Typed /\ MarksCovered /\ Contiguous /\ InFront /\ NothingLate

LEMMA InitShown == Init => ShownInv
<1> SUFFICES ASSUME Init PROVE ShownInv
  OBVIOUS
<1>1. Len(log) = 0 /\ thread.shown = {} /\ fetch.at = "none" /\ screen = "closed"
  BY NoReads DEF Init
<1>2. Venue = {}
  BY <1>1 DEF Venue
<1> QED BY <1>1, <1>2, InitTyped
        DEF ShownInv, MarksCovered, Covered, Contiguous, InFront, NothingLate

(* The log grows beyond what anybody has been told of.                      *)
LEMMA CoveredKept ==
  ASSUME Typed, Grows, seen \subseteq seen', settled \subseteq settled', NEW m \in 0..Len(log), Covered(m)
  PROVE  Covered(m)'
<1>1. Len(log) \in Nat /\ \A i \in 1..Len(log) : log'[i] = log[i]
  BY Longer DEF Typed
<1> SUFFICES ASSUME NEW v \in Venue', v <= m
             PROVE  v \in seen' \/ \E g \in settled' : v < g /\ g <= m
  BY DEF Covered
<1>2. v \in 1..Len(log)
  BY <1>1, Longer DEF Venue, Typed
<1>3. v \in Venue
  BY <1>1, <1>2 DEF Venue
<1> QED BY <1>3 DEF Covered

LEMMA MarksKept ==
  ASSUME ShownInv, Grows, seen \subseteq seen', settled \subseteq settled',
         marks' \subseteq marks, readMark' \in marks \union {readMark}
  PROVE  MarksCovered'
<1>1. \A m \in marks \union {readMark} : m \in 0..Len(log) /\ Covered(m)
  BY DEF ShownInv, Typed, LogType, MarksCovered
<1>2. \A m \in marks \union {readMark} : Covered(m)'
  BY <1>1, CoveredKept DEF ShownInv
<1> QED BY <1>2 DEF MarksCovered

LEMMA InFrontKept ==
  ASSUME ShownInv, Grows, thread'.shown = thread.shown, seen \subseteq seen', screen' \in {screen, "closed"}
  PROVE  InFront'
<1>1. Len(log) \in Nat /\ \A i \in 1..Len(log) : log'[i] = log[i]
  BY Longer DEF ShownInv, Typed
<1>2. thread.shown \intersect Venue' \subseteq thread.shown \intersect Venue
  BY <1>1 DEF Venue, ShownInv, Typed, ThreadType
<1> QED BY <1>2 DEF InFront, ShownInv

(* The thread stays as it is, with a read as it was, asked anew or over.    *)
LEMMA QuietShown ==
  ASSUME ShownInv, Typed', Grows, thread'.shown = thread.shown, seen \subseteq seen',
         settled = settled', settledAway = settledAway', screen' \in {screen, "closed"},
         fetch' \in {fetch, Asking, NoRead}, marks' \subseteq marks, readMark' \in marks \union {readMark}
  PROVE  ShownInv'
<1>1. MarksCovered' /\ InFront'
  BY MarksKept, InFrontKept
<1>2. Contiguous'
  BY DEF Contiguous, ShownInv
<1>3. NothingLate'
  BY NoReads DEF NothingLate, ShownInv
<1> QED BY <1>1, <1>2, <1>3 DEF ShownInv

LEMMA OpenedShown ==
  ASSUME ShownInv, Typed', NEW given, open(given), UNCHANGED serverVars, UNCHANGED marks PROVE ShownInv'
<1>1. Grows /\ log' = log /\ readMark' = readMark
  BY SameLog DEF serverVars
<1>2. seen' = seen \union (thread.shown \intersect Venue) /\ UNCHANGED <<thread, settled, settledAway>>
      /\ fetch' \in {fetch, Asking}
  BY DEF open, Look
<1>3. MarksCovered'
  BY <1>1, <1>2, MarksKept
<1>4. Contiguous' /\ InFront'
  BY <1>1, <1>2 DEF Contiguous, InFront, Venue, ShownInv
<1>5. NothingLate'
  BY <1>2, NoReads DEF NothingLate, ShownInv
<1> QED BY <1>3, <1>4, <1>5 DEF ShownInv

LEMMA ReadLandsShown == ASSUME ShownInv, Typed', ReadLands PROVE ShownInv'
<1>1. Grows /\ UNCHANGED <<log, readMark, marks, screen, settled, settledAway>> /\ fetch' = NoRead
      /\ thread'.shown = 1..fetch.upTo /\ Look(IF screen = "front" THEN 1..fetch.upTo ELSE {})
  BY SameLog DEF ReadLands, serverVars, screenVars
<1>2. seen \subseteq seen' /\ (screen = "front" => (1..fetch.upTo) \intersect Venue \subseteq seen')
  BY <1>1 DEF Look
<1>3. MarksCovered'
  BY <1>1, <1>2, MarksKept
<1>4. fetch.upTo \in Nat
  BY DEF ShownInv, Typed, FetchType, LogType
<1>5. Contiguous'
  BY <1>1, <1>4 DEF Contiguous
<1>6. InFront'
  BY <1>1, <1>2 DEF InFront, Venue
<1>7. NothingLate'
  BY <1>1, NoReads DEF NothingLate
<1> QED BY <1>3, <1>5, <1>6, <1>7 DEF ShownInv

LEMMA ServeReadShown == ASSUME ShownInv, Typed', ServeRead PROVE ShownInv'
<1>1. Grows /\ UNCHANGED <<log, readMark, marks, screen, thread, seen, settled, settledAway>>
      /\ fetch'.upTo = Len(log)
  BY SameLog DEF ServeRead, serverVars, screenVars, pastVars
<1>2. MarksCovered' /\ InFront'
  BY <1>1, MarksKept, InFrontKept
<1>3. Contiguous'
  BY <1>1 DEF Contiguous, ShownInv
<1>4. NothingLate'
  BY <1>1 DEF NothingLate, ShownInv, Typed, ThreadType
<1> QED BY <1>2, <1>3, <1>4 DEF ShownInv

(* The mark goes up to the newest message on the screen: the log up to it   *)
(* is on the screen and was seen, or it is a text of the guest's own.       *)
LEMMA useMarkReadWhenSeenShown == ASSUME ShownInv, Typed', useMarkReadWhenSeen PROVE ShownInv'
<1>1. Grows /\ UNCHANGED <<log, readMark, screen, fetch, seen, settled, settledAway>> /\ screen = "front"
      /\ thread.unread
  BY SameLog DEF useMarkReadWhenSeen, markDue, serverVars, pastVars
<1>2. PICK n : n = newestShownMessage
  OBVIOUS
<1>3. marks' = marks \union {n} /\ thread'.shown = thread.shown
  BY <1>2 DEF useMarkReadWhenSeen, ShownInv, Typed, ThreadType
<1>4. n \in thread.shown /\ n \in Nat
  BY <1>1, <1>2, Newest DEF ShownInv, Typed, ThreadType
<1>5. Covered(n)
  <2> SUFFICES ASSUME NEW v \in Venue, v <= n
               PROVE  v \in seen \/ \E g \in settled : v < g /\ g <= n
    BY DEF Covered
  <2>1. v \in Nat /\ v >= 1
    BY DEF Venue
  <2>2. CASE v \in thread.shown
    BY <1>1, <2>2 DEF ShownInv, InFront
  <2>3. CASE v \notin thread.shown
    <3>1. v # n /\ v \in 1..n
      BY <1>4, <2>1, <2>3
    <3>2. n \in settled
      BY <1>4, <2>3, <3>1 DEF ShownInv, Contiguous
    <3> QED BY <1>4, <2>1, <3>1, <3>2
  <2> QED BY <2>2, <2>3
<1>6. MarksCovered'
  BY <1>1, <1>3, <1>5 DEF MarksCovered, Covered, Venue, ShownInv
<1>7. Contiguous' /\ NothingLate'
  BY <1>1, <1>3 DEF Contiguous, NothingLate, ShownInv
<1>8. InFront'
  BY <1>1, <1>3, InFrontKept
<1> QED BY <1>6, <1>7, <1>8 DEF ShownInv

(* The answer to a send puts the guest's text on the thread.                *)
LEMMA SentShown == ASSUME ShownInv, Typed', NEW s, Sent(s) PROVE ShownInv'
<1>1. Grows /\ UNCHANGED <<log, readMark, marks, screen, seen>> /\ invalidate /\ settleSentMessage(s)
  BY SameLog DEF Sent, serverVars
<1>2. settled' = settled \union Message(s.id) /\ settledAway \subseteq settledAway'
      /\ (screen = "closed" => Message(s.id) \subseteq settledAway')
  BY <1>1 DEF settleSentMessage
<1>3. \/ thread' = thread
      \/ thread.loaded /\ thread'.shown = thread.shown \union Message(s.id)
  BY <1>1 DEF settleSentMessage, ShownInv, Typed, ThreadType
<1>4. MarksCovered'
  BY <1>1, <1>2, MarksKept
<1>5. thread.shown \subseteq thread'.shown /\ thread'.shown \subseteq thread.shown \union Message(s.id)
  BY <1>3
<1>6. Contiguous'
  BY <1>2, <1>5 DEF Contiguous, ShownInv
<1>7. InFront'
  <2>1. \A m \in Message(s.id) : m \notin Venue
    BY DEF Message, Guest, Venue
  <2> QED BY <1>1, <1>5, <2>1 DEF InFront, Venue, ShownInv
<1>8. NothingLate'
  <2>1. CASE fetch' = Asking
    BY <2>1, NoReads DEF NothingLate
  <2>2. CASE fetch' = fetch /\ screen = "closed"
    BY <1>2, <1>5, <2>2 DEF NothingLate, ShownInv
  <2>3. CASE fetch' = fetch /\ thread' = thread
    BY <1>2, <2>3 DEF NothingLate, ShownInv
  <2> QED BY <1>1, <1>3, <2>1, <2>2, <2>3 DEF invalidate
<1> QED BY <1>4, <1>6, <1>7, <1>8 DEF ShownInv

LEMMA QuietTexts ==
  ASSUME Typed, NEW s, Refuse(s) \/ Refused(s) \/ NoAnswer(s) \/ ReplySent(s)
  PROVE  /\ UNCHANGED <<serverVars, marks, screen, seen, settled, settledAway>>
         /\ thread'.shown = thread.shown /\ fetch' \in {fetch, Asking}
<1>1. UNCHANGED <<serverVars, marks, screen, pastVars>>
      /\ (thread' = thread \/ thread' = [thread EXCEPT !.pending = @ \ {s.id}])
      /\ (fetch' = fetch \/ invalidate)
  BY DEF Refuse, Refused, NoAnswer, dropPendingMessage, ReplySent, cacheVars, screenVars
<1> QED BY <1>1, Invalidated DEF Typed, ThreadType, pastVars

LEMMA StepShown == ShownInv /\ [Next]_vars => ShownInv'
<1> SUFFICES ASSUME ShownInv, [Next]_vars PROVE ShownInv'
  OBVIOUS
<1>0. Typed /\ Typed'
  BY StepTyped DEF ShownInv
<1>1. CASE poll \/ Refetch \/ ReadFails
  <2>1. UNCHANGED <<serverVars, marks, screen, thread, pastVars>> /\ fetch' \in {Asking, NoRead}
    BY <1>1 DEF poll, Refetch, ReadFails, screenVars
  <2>2. Grows /\ UNCHANGED readMark
    BY <2>1, SameLog DEF serverVars
  <2> QED BY <1>0, <2>1, <2>2, QuietShown DEF pastVars
<1>2. CASE ServeRead \/ ReadLands
  BY <1>0, <1>2, ServeReadShown, ReadLandsShown
<1>3. CASE Open
  BY <1>0, <1>3, OpenedShown DEF Open
<1>4. CASE Leave
  <2>1. UNCHANGED <<serverVars, marks, thread, fetch, pastVars>> /\ screen' = "closed"
    BY <1>4 DEF Leave, cacheVars
  <2>2. Grows /\ UNCHANGED readMark
    BY <2>1, SameLog DEF serverVars
  <2> QED BY <1>0, <2>1, <2>2, QuietShown DEF pastVars
<1>5. CASE sendDraft
  <2>1. UNCHANGED <<serverVars, marks, screen, pastVars>> /\ fetch' = NoRead
        /\ \E id \in Ids : thread' = [thread EXCEPT !.pending = @ \union {id}]
    BY <1>5 DEF sendDraft
  <2>2. Grows /\ UNCHANGED readMark
    BY <2>1, SameLog DEF serverVars
  <2>3. thread'.shown = thread.shown
    BY <1>0, <2>1 DEF Typed, ThreadType
  <2> QED BY <1>0, <2>1, <2>2, <2>3, QuietShown DEF pastVars
<1>6. ASSUME NEW x \in Texts, Type(x) \/ Reply(x) PROVE ShownInv'
  <2>1. UNCHANGED <<serverVars, marks, screen, thread, pastVars>> /\ (UNCHANGED fetch \/ invalidate)
    BY <1>6 DEF Type, Reply, cacheVars, screenVars
  <2>2. Grows /\ UNCHANGED readMark /\ fetch' \in {fetch, Asking}
    BY <2>1, SameLog, Invalidated DEF serverVars
  <2> QED BY <1>0, <2>1, <2>2, QuietShown DEF pastVars
<1>7. CASE useMarkReadWhenSeen
  BY <1>0, <1>7, useMarkReadWhenSeenShown
<1>8. ASSUME NEW m \in marks, ServeMark(m) \/ LoseMark(m) PROVE ShownInv'
  <2>1. UNCHANGED <<log, screen, thread, fetch, seen, settled, settledAway>> /\ marks' = marks \ {m}
        /\ readMark' \in {readMark, m}
    BY <1>8 DEF ServeMark, LoseMark, serverVars, cacheVars, screenVars, pastVars
  <2>2. Grows
    BY <2>1, SameLog
  <2> QED BY <1>0, <2>1, <2>2, QuietShown
<1>9. ASSUME NEW s \in sends, Write(s) PROVE ShownInv'
  <2>1. UNCHANGED <<readMark, marks, screen, thread, fetch, pastVars>>
    BY <1>9 DEF Write, cacheVars, screenVars
  <2>2. PICK m : m = [author |-> "guest", id |-> s.id, words |-> s.words]
    OBVIOUS
  <2>3. m \in Messages
    BY <1>0, <2>2, SendFields DEF Messages, Typed, SendsType
  <2>4. Grows
    BY <1>9, <2>2, <2>3 DEF Write, Grows
  <2> QED BY <1>0, <2>1, <2>4, QuietShown DEF pastVars
<1>10. ASSUME NEW s \in sends, Refuse(s) \/ Refused(s) \/ NoAnswer(s) \/ ReplySent(s) PROVE ShownInv'
  <2>1. /\ UNCHANGED <<serverVars, marks, screen, seen, settled, settledAway>>
        /\ thread'.shown = thread.shown /\ fetch' \in {fetch, Asking}
    BY <1>0, <1>10, QuietTexts
  <2>2. Grows /\ UNCHANGED readMark
    BY <2>1, SameLog DEF serverVars
  <2> QED BY <1>0, <2>1, <2>2, QuietShown
<1>11. ASSUME NEW s \in sends, Sent(s) \/ ReplyFailed(s) PROVE ShownInv'
  BY <1>0, <1>11, SentShown, OpenedShown DEF ReplyFailed
<1>12. CASE VenueWrites
  <2>1. UNCHANGED <<readMark, marks, screen, thread, pastVars>> /\ (UNCHANGED fetch \/ invalidate)
        /\ log' = Append(log, [author |-> "venue"])
    BY <1>12 DEF VenueWrites, screenVars
  <2>2. Grows /\ fetch' \in {fetch, Asking}
    BY <2>1, Invalidated DEF Grows, Messages
  <2> QED BY <1>0, <2>1, <2>2, QuietShown DEF pastVars
<1>13. CASE UNCHANGED vars
  <2>1. UNCHANGED <<serverVars, marks, screen, thread, fetch, pastVars>>
    BY <1>13 DEF vars, cacheVars, screenVars
  <2>2. Grows /\ UNCHANGED readMark
    BY <2>1, SameLog DEF serverVars
  <2> QED BY <1>0, <2>1, <2>2, QuietShown DEF pastVars
<1> QED BY <1>1, <1>2, <1>3, <1>4, <1>5, <1>6, <1>7, <1>8, <1>9, <1>10, <1>11, <1>12, <1>13
        DEF Next, Reads, Person, Marks, Texting

LEMMA AlwaysShown == Spec => []ShownInv
BY InitShown, StepShown, PTL DEF Spec

(* A mark reads nothing the guest has not seen, wherever reads, texts and   *)
(* the venue's messages cross, but behind a text of the guest's own that    *)
(* the answer to its send put on the thread first.                          *)
THEOREM NoMarkUnseen == Spec => []UnseenOnlyBehindOwn
<1>1. ShownInv => UnseenOnlyBehindOwn
  BY DEF ShownInv, MarksCovered, Covered, UnseenOnlyBehindOwn
<1> QED BY <1>1, AlwaysShown, PTL

(* What the thread has shown stays on it: a read from before the answer to  *)
(* a send does not land after it, unless no screen was open as it came.     *)
THEOREM NothingVanishes == Spec => SettledStays
<1>1. ASSUME ShownInv, [Next]_vars PROVE [thread.shown \ thread'.shown \subseteq settledAway]_vars
  <2>0. Typed
    BY <1>1 DEF ShownInv
  <2>1. CASE ReadLands
    BY <1>1, <2>1 DEF ReadLands, ShownInv, NothingLate
  <2>2. CASE poll \/ Refetch \/ ServeRead \/ ReadFails \/ Open \/ Leave \/ VenueWrites
    BY <2>2 DEF poll, Refetch, ServeRead, ReadFails, Open, open, Leave, VenueWrites, cacheVars
  <2>3. CASE sendDraft
    <3>1. \E id \in Ids : thread' = [thread EXCEPT !.pending = @ \union {id}]
      BY <2>3 DEF sendDraft
    <3> QED BY <2>0, <3>1 DEF Typed, ThreadType
  <2>4. ASSUME NEW x \in Texts, Type(x) \/ Reply(x)
        PROVE  thread.shown \ thread'.shown \subseteq settledAway
    BY <2>4 DEF Type, Reply, cacheVars
  <2>5. CASE Marks
    <3>1. thread' = thread \/ thread' = [thread EXCEPT !.unread = FALSE]
      BY <2>5 DEF Marks, useMarkReadWhenSeen, ServeMark, LoseMark, cacheVars
    <3> QED BY <2>0, <3>1 DEF Typed, ThreadType
  <2>6. ASSUME NEW s \in sends, Write(s) \/ ReplyFailed(s)
        PROVE  thread.shown \ thread'.shown \subseteq settledAway
    BY <2>6 DEF Write, ReplyFailed, open, cacheVars
  <2>7. ASSUME NEW s \in sends, Refuse(s) \/ Refused(s) \/ NoAnswer(s) \/ ReplySent(s)
        PROVE  thread.shown \ thread'.shown \subseteq settledAway
    BY <2>0, <2>7, QuietTexts
  <2>8. ASSUME NEW s \in sends, Sent(s) PROVE thread.shown \ thread'.shown \subseteq settledAway
    BY <2>0, <2>8 DEF Sent, settleSentMessage, Typed, ThreadType
  <2> QED BY <1>1, <2>1, <2>2, <2>3, <2>4, <2>5, <2>6, <2>7, <2>8 DEF Next, Reads, Person, Texting
<1> QED BY <1>1, AlwaysShown, PTL DEF Spec, SettledStays
=============================================================================
