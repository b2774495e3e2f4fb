------------------------- MODULE FloorStreamProofs -------------------------
(***************************************************************************)
(* What is proved of the floor on a staff tablet, for any tables, any      *)
(* number of rows the server writes, any size of page and any number of    *)
(* troubles.                                                               *)
(*                                                                         *)
(* The rows a page brings are folded, not read, so the proof is about the  *)
(* log: what each kind of row may change of its table, and that between    *)
(* two rows nothing changes but by the rows in between.                    *)
(***************************************************************************)
EXTENDS FloorStream, FiniteSetTheorems, WellFoundedInduction, TLAPS

-----------------------------------------------------------------------------
(* Numbers: a set of them has a least; a bounded one a greatest; and what   *)
(* no step of a range changes is the same at its end as at its start.       *)
LEMMA Least ==
  ASSUME NEW T \in SUBSET Nat, T # {} PROVE \E x \in T : \A y \in T : x <= y
<1> DEFINE Less == OpToRel(<, Nat)
<1>1. IsWellFoundedOn(Less, Nat)
  BY NatLessThanWellFounded
<1>2. \A x, y \in Nat : y < x => <<y, x>> \in Less
  BY DEF OpToRel
<1> HIDE DEF Less
<1>3. PICK x \in T : \A y \in T : ~(<<y, x>> \in Less)
  BY <1>1, WFMin
<1>4. \A y \in T : ~(y < x)
  BY <1>2, <1>3
<1> QED BY <1>4

LEMMA Greatest ==
  ASSUME NEW T \in SUBSET Nat, NEW b \in Nat, T # {}, \A x \in T : x <= b
  PROVE  \E x \in T : \A y \in T : y <= x
<1> DEFINE Below == {b - x : x \in T}
<1>1. Below \in SUBSET Nat /\ Below # {}
  <2>1. \A x \in T : b - x \in Nat
    OBVIOUS
  <2> QED BY <2>1
<1>2. PICK z \in Below : \A y \in Below : z <= y
  BY <1>1, Least
<1>3. PICK x \in T : z = b - x
  BY <1>2
<1>4. \A y \in T : b - y \in Below
  OBVIOUS
<1> HIDE DEF Below
<1>5. \A y \in T : b - x <= b - y
  BY <1>2, <1>3, <1>4
<1> QED BY <1>5

LEMMA Steady ==
  ASSUME NEW f, NEW a \in Nat, NEW b \in Nat, a <= b, \A i \in a + 1 .. b : f[i] = f[i - 1]
  PROVE  f[b] = f[a]
<1> DEFINE Moved == {i \in a .. b : f[i] # f[a]}
<1> SUFFICES ASSUME Moved # {} PROVE FALSE
  OBVIOUS
<1>1. PICK x \in Moved : \A y \in Moved : x <= y
  <2>1. Moved \in SUBSET Nat
    OBVIOUS
  <2> QED BY <2>1, Least
<1>2. x \in a + 1 .. b /\ x - 1 \in a .. b /\ x - 1 \notin Moved
  BY <1>1
<1>3. f[x - 1] = f[a] /\ f[x] = f[x - 1]
  BY <1>2
<1> QED BY <1>1, <1>3

LEMMA LastOfBounded ==
  ASSUME NEW rows \in SUBSET Nat, NEW b \in Nat, \A i \in rows : i <= b
  PROVE  /\ LastOf(rows) \in rows \union {0} /\ LastOf(rows) \in 0 .. b
         /\ \A i \in rows : i <= LastOf(rows)
<1>1. \E n \in rows \union {0} : \A i \in rows : i <= n
  <2>1. CASE rows = {}
    BY <2>1
  <2>2. CASE rows # {}
    BY <2>2, Greatest
  <2> QED BY <2>1, <2>2
<1>2. LastOf(rows) \in rows \union {0} /\ \A i \in rows : i <= LastOf(rows)
  BY <1>1 DEF LastOf
<1>3. \A i \in rows \union {0} : i \in 0 .. b
  OBVIOUS
<1> QED BY <1>2, <1>3

-----------------------------------------------------------------------------
(* The log.  Every table of every row is sound: its version counts its      *)
(* changes, and only an occupied table has a tab.  A row changes the table  *)
(* it names, as its kind may, and no other.                                 *)
Entry == [kind : Kinds, table : Tables, room : [Tables -> Room]]

LogType == log \in Seq(Entry) /\ Len(log) <= MaxRows

Sound(table, n) ==
   table \in Room /\ table.version <= n /\ (table.tab # "none" => table.status = "occupied")

Turns(kind, was, is) ==
   /\ kind # "bookingChanged" => is.booked = was.booked
   /\ kind = "moved" => is.tab = IF is.status = "free" THEN "none" ELSE was.tab
   /\ kind = "tabAwaitingAdmission" => is.tab = "waiting"
   /\ kind = "tabAdmitted" => is.tab = "admitted"
   /\ kind = "tabAdmissionRejected" => is.tab = "none"
   /\ kind \in {"preOrderChanged", "elsewhere"} => is = was

RowOK(i) ==
   /\ \A t \in Tables : Sound(log[i].room[t], i)
   /\ \A t \in Tables : t # log[i].table => log[i].room[t] = RoomAt(i - 1)[t]
   /\ Turns(log[i].kind, RoomAt(i - 1)[log[i].table], log[i].room[log[i].table])

LogInv == LogType /\ \A i \in 1 .. Len(log) : RowOK(i)

LEMMA Sizes == MaxRows \in Nat /\ PageSize \in Nat /\ PageSize >= 1 /\ MaxTroubles \in Nat
               /\ Rows = 0 .. MaxRows /\ 0 \in Rows
BY StreamAssumption DEF StreamAssumption, Rows

LEMMA LogFacts ==
  ASSUME LogType
  PROVE  /\ Len(log) \in Nat /\ Len(log) \in Rows /\ Len(log) <= MaxRows
         /\ \A i \in 1 .. Len(log) : log[i] \in Entry /\ log[i].kind \in Kinds
                                     /\ log[i].table \in Tables /\ log[i].room \in [Tables -> Room]
<1>1. Len(log) \in Nat /\ \A i \in 1 .. Len(log) : log[i] \in Entry
  BY DEF LogType
<1>2. Len(log) \in Rows
  BY <1>1, Sizes DEF LogType
<1> QED BY <1>1, <1>2 DEF LogType, Entry

LEMMA OpeningSound == Opening \in [Tables -> Room] /\ \A t \in Tables : Sound(Opening[t], 0)
<1>1. \A t \in Tables : Opening[t] \in Room /\ Opening[t].version = 0 /\ Opening[t].tab = "none"
  BY Sizes DEF Opening, Room
<1>2. Opening = [t \in Tables |-> Opening[t]]
  BY DEF Opening
<1>3. Opening \in [Tables -> Room]
  BY <1>1, <1>2
<1> QED BY <1>1, <1>3 DEF Sound

LEMMA RoomSound ==
  ASSUME LogInv, NEW n \in 0 .. Len(log)
  PROVE  RoomAt(n) \in [Tables -> Room] /\ \A t \in Tables : Sound(RoomAt(n)[t], n)
<1>1. CASE n = 0
  BY <1>1, OpeningSound DEF RoomAt
<1>2. CASE n # 0
  <2>1. n \in 1 .. Len(log) /\ RoomAt(n) = log[n].room
    BY <1>2, LogFacts DEF LogInv, RoomAt
  <2> QED BY <2>1, LogFacts DEF LogInv, RowOK
<1> QED BY <1>1, <1>2

(* A row of another table, of a pre-order or of another branch changes      *)
(* nothing of a table.                                                      *)
LEMMA RowKeeps ==
  ASSUME LogInv, NEW i \in 1 .. Len(log), NEW t \in Tables,
         log[i].table # t \/ log[i].kind \in {"preOrderChanged", "elsewhere"}
  PROVE  RoomAt(i)[t] = RoomAt(i - 1)[t]
<1>1. RowOK(i) /\ RoomAt(i) = log[i].room
  BY LogFacts DEF LogInv, RoomAt
<1> QED BY <1>1 DEF RowOK, Turns

LEMMA BecomeIs ==
  ASSUME NEW r \in Room, NEW to \in {"free", "occupied"}
  PROVE  LET b == Become(r, to)
         IN  /\ b = [status |-> to, tab |-> r.tab, booked |-> r.booked, version |-> b.version]
             /\ b.version \in {r.version, r.version + 1}
<1> DEFINE w == IF r.status = to THEN r.version ELSE r.version + 1
           x == [r EXCEPT !.status = to, !.version = w]
<1>1. Become(r, to) = x
  BY DEF Become
<1>2. w \in {r.version, r.version + 1} /\ w \in Nat
  BY Sizes DEF Room
<1> HIDE DEF w
<1>3. r \in [status : {"free", "occupied"}, tab : {"none", "waiting", "admitted"},
             booked : BOOLEAN, version : Nat]
  BY Sizes DEF Room
<1>4. x.status = to /\ x.tab = r.tab /\ x.booked = r.booked /\ x.version = w
  BY <1>3
<1>5. x \in [status : {"free", "occupied"}, tab : {"none", "waiting", "admitted"},
             booked : BOOLEAN, version : Nat]
  BY <1>2, <1>3
<1> HIDE DEF x
<1>6. x = [status |-> to, tab |-> r.tab, booked |-> r.booked, version |-> x.version]
  BY <1>4, <1>5
<1> QED BY <1>1, <1>2, <1>4, <1>6

LEMMA RebookIs ==
  ASSUME NEW r, r = [status |-> r.status, tab |-> r.tab, booked |-> r.booked, version |-> r.version]
  PROVE  [r EXCEPT !.booked = ~@]
           = [status |-> r.status, tab |-> r.tab, booked |-> ~r.booked, version |-> r.version]
<1> DEFINE w == ~r.booked
<1>1. [r EXCEPT !.booked = ~@] = [r EXCEPT !.booked = w]
  BY Zenon
<1> HIDE DEF w
<1>2. [r EXCEPT !.booked = w]
         = [status |-> r.status, tab |-> r.tab, booked |-> w, version |-> r.version]
  OBVIOUS
<1> QED BY <1>1, <1>2 DEF w

(* What a change of the room writes. *)
Written(t, kind, is) ==
   /\ log' = Append(log, [kind |-> kind, table |-> t,
                          room |-> [RoomAt(Len(log)) EXCEPT ![t] = is]])
   /\ Len(log) < MaxRows /\ kind \in Kinds

LEMMA ChangeWrites ==
  ASSUME LogInv, NEW t \in Tables, Change(t)
  PROVE  \E kind, is : /\ Written(t, kind, is)
                       /\ Turns(kind, RoomAt(Len(log))[t], is) /\ Sound(is, Len(log) + 1)
<1> DEFINE table == RoomAt(Len(log))[t]
<1>1. Len(log) \in Nat
  BY LogFacts DEF LogInv
<1>2. Sound(table, Len(log)) /\ table \in Room
  BY <1>1, RoomSound DEF Sound
<1>3. /\ table = [status |-> table.status, tab |-> table.tab,
                  booked |-> table.booked, version |-> table.version]
      /\ table.status \in {"free", "occupied"} /\ table.tab \in {"none", "waiting", "admitted"}
      /\ table.booked \in BOOLEAN /\ table.version \in Nat /\ table.version <= Len(log)
      /\ table.tab # "none" => table.status = "occupied"
  BY <1>2, Sizes DEF Sound, Room
<1>4. ASSUME NEW is, NEW kind \in Kinds, Write(t, kind, is) PROVE Written(t, kind, is)
  BY <1>4 DEF Write, Written
<1>5. ASSUME Len(log) < MaxRows, NEW is,
             is = [status |-> is.status, tab |-> is.tab, booked |-> is.booked, version |-> is.version],
             is.status \in {"free", "occupied"}, is.tab \in {"none", "waiting", "admitted"},
             is.booked \in BOOLEAN, is.version \in {table.version, table.version + 1},
             is.tab # "none" => is.status = "occupied"
      PROVE  Sound(is, Len(log) + 1)
  <2>1. is.version \in Rows /\ is.version <= Len(log) + 1
    BY <1>1, <1>3, <1>5, Sizes
  <2> QED BY <1>5, <2>1 DEF Sound, Room
<1>6. ASSUME NEW to \in {"free", "occupied"}
      PROVE  LET b == Become(table, to)
             IN  /\ b = [status |-> to, tab |-> table.tab, booked |-> table.booked,
                         version |-> b.version]
                 /\ b.version \in {table.version, table.version + 1}
  BY <1>2, BecomeIs
<1> HIDE DEF table
<1>7. ASSUME NEW to \in {"free", "occupied"},
             Write(t, "moved", [Become(table, to) EXCEPT !.tab = IF to = "free" THEN "none" ELSE @])
      PROVE  \E kind, is : Written(t, kind, is) /\ Turns(kind, table, is) /\ Sound(is, Len(log) + 1)
  <2> DEFINE is == [Become(table, to) EXCEPT !.tab = IF to = "free" THEN "none" ELSE @]
  <2>1. is = [status |-> to, tab |-> IF to = "free" THEN "none" ELSE table.tab,
              booked |-> table.booked, version |-> Become(table, to).version]
    BY <1>6
  <2>2. Written(t, "moved", is) /\ Len(log) < MaxRows
    BY <1>4, <1>7 DEF Kinds, Written
  <2> HIDE DEF is
  <2>3. Turns("moved", table, is) /\ Sound(is, Len(log) + 1)
    BY <1>3, <1>5, <1>6, <2>1, <2>2 DEF Turns
  <2> QED BY <2>2, <2>3
<1>8. ASSUME Write(t, "tabAwaitingAdmission", [Become(table, "occupied") EXCEPT !.tab = "waiting"])
      PROVE  \E kind, is : Written(t, kind, is) /\ Turns(kind, table, is) /\ Sound(is, Len(log) + 1)
  <2> DEFINE is == [Become(table, "occupied") EXCEPT !.tab = "waiting"]
  <2>1. is = [status |-> "occupied", tab |-> "waiting",
              booked |-> table.booked, version |-> Become(table, "occupied").version]
    BY <1>6
  <2>2. Written(t, "tabAwaitingAdmission", is) /\ Len(log) < MaxRows
    BY <1>4, <1>8 DEF Kinds, Written
  <2> HIDE DEF is
  <2>3. Turns("tabAwaitingAdmission", table, is) /\ Sound(is, Len(log) + 1)
    BY <1>3, <1>5, <1>6, <2>1, <2>2 DEF Turns
  <2> QED BY <2>2, <2>3
<1>9. ASSUME table.tab = "waiting", Write(t, "tabAdmitted", [table EXCEPT !.tab = "admitted"])
      PROVE  \E kind, is : Written(t, kind, is) /\ Turns(kind, table, is) /\ Sound(is, Len(log) + 1)
  <2> DEFINE is == [table EXCEPT !.tab = "admitted"]
  <2>1. is = [status |-> table.status, tab |-> "admitted",
              booked |-> table.booked, version |-> table.version]
    BY <1>3
  <2>2. Written(t, "tabAdmitted", is) /\ Len(log) < MaxRows
    BY <1>4, <1>9 DEF Kinds, Written
  <2> HIDE DEF is
  <2>3. Turns("tabAdmitted", table, is) /\ Sound(is, Len(log) + 1)
    BY <1>3, <1>5, <1>9, <2>1, <2>2 DEF Turns
  <2> QED BY <2>2, <2>3
<1>10. ASSUME NEW to \in {"free", "occupied"},
             Write(t, "tabAdmissionRejected", [Become(table, to) EXCEPT !.tab = "none"])
      PROVE  \E kind, is : Written(t, kind, is) /\ Turns(kind, table, is) /\ Sound(is, Len(log) + 1)
  <2> DEFINE is == [Become(table, to) EXCEPT !.tab = "none"]
  <2>1. is = [status |-> to, tab |-> "none", booked |-> table.booked,
              version |-> Become(table, to).version]
    BY <1>6
  <2>2. Written(t, "tabAdmissionRejected", is) /\ Len(log) < MaxRows
    BY <1>4, <1>10 DEF Kinds, Written
  <2> HIDE DEF is
  <2>3. Turns("tabAdmissionRejected", table, is) /\ Sound(is, Len(log) + 1)
    BY <1>3, <1>5, <1>6, <2>1, <2>2 DEF Turns
  <2> QED BY <2>2, <2>3
<1>11. ASSUME Write(t, "bookingChanged", [table EXCEPT !.booked = ~@])
      PROVE  \E kind, is : Written(t, kind, is) /\ Turns(kind, table, is) /\ Sound(is, Len(log) + 1)
  <2> DEFINE is == [table EXCEPT !.booked = ~@]
  <2>1. is = [status |-> table.status, tab |-> table.tab,
              booked |-> ~table.booked, version |-> table.version]
    BY <1>3, RebookIs
  <2>2. Written(t, "bookingChanged", is) /\ Len(log) < MaxRows
    BY <1>4, <1>11 DEF Kinds, Written
  <2> HIDE DEF is
  <2>3. is.booked \in BOOLEAN
    BY <2>1, Zenon
  <2>4. Turns("bookingChanged", table, is) /\ Sound(is, Len(log) + 1)
    BY <1>3, <1>5, <2>1, <2>2, <2>3 DEF Turns
  <2> QED BY <2>2, <2>4
<1>12. ASSUME NEW kind \in {"preOrderChanged", "elsewhere"}, Write(t, kind, table)
      PROVE  \E k, is : Written(t, k, is) /\ Turns(k, table, is) /\ Sound(is, Len(log) + 1)
  <2>1. kind \in Kinds
    BY DEF Kinds
  <2>2. Written(t, kind, table) /\ Len(log) < MaxRows
    BY <1>4, <1>12, <2>1 DEF Written
  <2>3. Turns(kind, table, table) /\ Sound(table, Len(log) + 1)
    BY <1>3, <1>5, <2>2 DEF Turns
  <2> QED BY <2>2, <2>3
<1> QED BY <1>7, <1>8, <1>9, <1>10, <1>11, <1>12 DEF Change, table

(* A row written leaves the rows before it, and the rooms up to them, as    *)
(* they were.                                                               *)
Grown ==
   /\ Len(log') >= Len(log)
   /\ \A i \in 1 .. Len(log) : log'[i] = log[i]
   /\ \A n \in 0 .. Len(log) : RoomAt(n)' = RoomAt(n)
   /\ \A m \in Nat, n \in 0 .. Len(log) : OwnRows(m, n)' = OwnRows(m, n)

LEMMA ChangeGrows ==
  ASSUME LogInv, NEW t \in Tables, Change(t)
  PROVE  LogInv' /\ Grown /\ Len(log') = Len(log) + 1
<1>1. PICK kind, is : /\ Written(t, kind, is)
                      /\ Turns(kind, RoomAt(Len(log))[t], is) /\ Sound(is, Len(log) + 1)
  BY ChangeWrites
<1>0. PICK last \in Nat : last = Len(log)
  BY LogFacts DEF LogInv
<1> DEFINE room == [RoomAt(last) EXCEPT ![t] = is]
           entry == [kind |-> kind, table |-> t, room |-> room]
<1>2. last = Len(log) /\ last < MaxRows /\ log \in Seq(Entry) /\ last \in 0 .. last
  BY <1>0, <1>1, LogFacts DEF LogInv, LogType, Written
<1>3. RoomAt(last) \in [Tables -> Room] /\ \A u \in Tables : Sound(RoomAt(last)[u], last)
  BY <1>2, RoomSound
<1>4. /\ room \in [Tables -> Room] /\ room[t] = is
      /\ \A u \in Tables : u # t => room[u] = RoomAt(last)[u]
  BY <1>1, <1>3 DEF Sound
<1>5. entry \in Entry /\ log' = Append(log, entry)
  BY <1>1, <1>2, <1>4 DEF Written, Entry
<1> HIDE DEF room
<1>6. /\ log' \in Seq(Entry) /\ Len(log') = last + 1 /\ log'[last + 1] = entry
      /\ \A i \in 1 .. last : log'[i] = log[i]
  BY <1>2, <1>5
<1>7. \A n \in 0 .. last : RoomAt(n)' = RoomAt(n)
  BY <1>6 DEF RoomAt
<1>8. \A m \in Nat, n \in 0 .. last : OwnRows(m, n)' = OwnRows(m, n)
  <2> SUFFICES ASSUME NEW m \in Nat, NEW n \in 0 .. last PROVE OwnRows(m, n)' = OwnRows(m, n)
    OBVIOUS
  <2>1. \A i \in 1 .. last + 1 : i <= n => i \in 1 .. last
    BY <1>2
  <2>2. \A i \in 1 .. last : i \in 1 .. last + 1
    BY <1>2
  <2> QED BY <1>2, <1>6, <2>1, <2>2 DEF OwnRows
<1>9. Grown
  BY <1>2, <1>6, <1>7, <1>8 DEF Grown
<1>10. ASSUME NEW i \in 1 .. last PROVE RowOK(i)'
  <2>1. RowOK(i) /\ i - 1 \in 0 .. last
    BY <1>2 DEF LogInv
  <2> QED BY <1>6, <1>7, <2>1 DEF RowOK
<1>11. RowOK(last + 1)'
  <2>1. RoomAt(last + 1 - 1)' = RoomAt(last)
    <3>1. last + 1 - 1 = last
      OBVIOUS
    <3> QED BY <1>2, <1>7, <3>1
  <2>2. log'[last + 1].room = room /\ log'[last + 1].table = t /\ log'[last + 1].kind = kind
    BY <1>6
  <2>3. \A u \in Tables : Sound(room[u], last + 1)
    <3>1. \A u \in Tables : Sound(RoomAt(last)[u], last + 1)
      <4> SUFFICES ASSUME NEW u \in Tables PROVE Sound(RoomAt(last)[u], last + 1)
        OBVIOUS
      <4>1. Sound(RoomAt(last)[u], last) /\ RoomAt(last)[u].version \in Nat
        BY <1>3, Sizes DEF Sound, Room
      <4> QED BY <1>2, <4>1 DEF Sound
    <3>2. Sound(room[t], last + 1)
      BY <1>1, <1>2, <1>4
    <3> QED BY <1>4, <3>1, <3>2
  <2> QED BY <1>1, <1>2, <1>4, <2>1, <2>2, <2>3 DEF RowOK
<1>12. \A i \in 1 .. Len(log') : RowOK(i)'
  <2>1. \A i \in 1 .. Len(log') : i \in 1 .. last \/ i = last + 1
    BY <1>2, <1>6
  <2> QED BY <1>10, <1>11, <2>1
<1>13. LogType'
  BY <1>2, <1>6, Sizes DEF LogType
<1> QED BY <1>2, <1>6, <1>9, <1>12, <1>13 DEF LogInv

-----------------------------------------------------------------------------
(* The branch's own rows, and the end of its stream.                        *)
LEMMA OwnRowsAre ==
  ASSUME LogType, NEW m \in Nat, NEW n \in Nat
  PROVE  /\ OwnRows(m, n) \in SUBSET Nat
         /\ \A i \in OwnRows(m, n) : /\ i \in 1 .. Len(log) /\ m < i /\ i <= n
                                     /\ log[i].kind # "elsewhere"
         /\ \A i \in 1 .. Len(log) :
               m < i /\ i <= n /\ log[i].kind # "elsewhere" => i \in OwnRows(m, n)
BY LogFacts DEF OwnRows

LEMMA EndIs ==
  ASSUME LogType, NEW n \in 0 .. Len(log)
  PROVE  /\ EndAt(n) \in 0 .. n
         /\ EndAt(n) = 0 \/ EndAt(n) \in OwnRows(0, n)
         /\ \A i \in OwnRows(0, n) : i <= EndAt(n)
<1>1. n \in Nat /\ OwnRows(0, n) \in SUBSET Nat /\ \A i \in OwnRows(0, n) : i <= n
  BY LogFacts, OwnRowsAre
<1> QED BY <1>1, LastOfBounded DEF EndAt

(* Between the end of the branch's stream and a row after it nothing of the *)
(* branch has changed.                                                      *)
LEMMA NothingAfterEnd ==
  ASSUME LogInv, NEW n \in 0 .. Len(log), NEW t \in Tables
  PROVE  RoomAt(EndAt(n))[t] = RoomAt(n)[t]
<1> DEFINE f == [i \in Nat |-> RoomAt(i)[t]]
           e == EndAt(n)
<1>1. e \in 0 .. n /\ n \in Nat /\ Len(log) \in Nat /\ e \in Nat /\ e <= n
  BY EndIs, LogFacts DEF LogInv
<1>2. \A i \in e + 1 .. n : RoomAt(i)[t] = RoomAt(i - 1)[t]
  <2> SUFFICES ASSUME NEW i \in e + 1 .. n PROVE RoomAt(i)[t] = RoomAt(i - 1)[t]
    OBVIOUS
  <2>1. i \in 1 .. Len(log) /\ i <= n /\ 0 < i /\ ~(i <= e)
    BY <1>1
  <2>2. i \notin OwnRows(0, n)
    BY <2>1, EndIs DEF LogInv
  <2>3. log[i].kind = "elsewhere"
    BY <1>1, <2>1, <2>2, OwnRowsAre DEF LogInv
  <2> QED BY <2>1, <2>3, RowKeeps
<1> HIDE DEF e
<1>3. \A i \in e + 1 .. n : f[i] = f[i - 1]
  BY <1>1, <1>2
<1>4. f[n] = f[e]
  <2> HIDE DEF f
  <2> QED BY <1>1, <1>3, Steady
<1> QED BY <1>1, <1>4 DEF e

FloorType == [lastSequence : Rows, details : [Tables -> Detail]]

LEMMA FloorAtIs ==
  ASSUME LogInv, NEW n \in 0 .. Len(log)
  PROVE  /\ FloorAt(n) \in FloorType /\ FloorAt(n) # NoFloor
         /\ FloorAt(n).lastSequence = EndAt(n) /\ EndAt(n) \in 0 .. n
<1>1. EndAt(n) \in 0 .. n /\ Len(log) \in Nat /\ Len(log) <= MaxRows /\ n \in Nat
  BY EndIs, LogFacts DEF LogInv
<1>2. EndAt(n) \in Rows
  BY <1>1, Sizes
<1>3. \A t \in Tables : RoomAt(n)[t] \in Room
  BY RoomSound
<1> DEFINE drawnAs(t) ==
      LET table == RoomAt(n)[t]
      IN  [physicalStatus |-> table.status, state |-> drawn(table),
           openTab |-> table.tab # "none", awaiting |-> table.tab = "waiting",
           booked |-> table.booked, rowVersion |-> table.version]
<1>4. \A t \in Tables : drawnAs(t) \in Detail
  <2> SUFFICES ASSUME NEW t \in Tables PROVE drawnAs(t) \in Detail
    OBVIOUS
  <2> DEFINE table == RoomAt(n)[t]
  <2>1. table \in Room
    BY <1>3
  <2>2. drawn(table) \in {"free", "occupied", "reservedSoon"}
    BY <2>1 DEF drawn, Room
  <2> HIDE DEF table
  <2>3. (table.tab # "none") \in BOOLEAN /\ (table.tab = "waiting") \in BOOLEAN
    OBVIOUS
  <2>4. [physicalStatus |-> table.status, state |-> drawn(table),
         openTab |-> table.tab # "none", awaiting |-> table.tab = "waiting",
         booked |-> table.booked, rowVersion |-> table.version] \in Detail
    BY <2>1, <2>2, <2>3 DEF Room, Detail
  <2> QED BY <2>4 DEF table
<1>5. FloorAt(n) = [lastSequence |-> EndAt(n), details |-> [t \in Tables |-> drawnAs(t)]]
  BY DEF FloorAt
<1> HIDE DEF drawnAs
<1>6. FloorAt(n) \in FloorType
  BY <1>2, <1>4, <1>5 DEF FloorType
<1>7. FloorAt(n) # NoFloor
  <2>1. DOMAIN FloorAt(n).details = Tables /\ DOMAIN <<>> = {}
    BY <1>5
  <2>2. FloorAt(n).details # <<>>
    BY <2>1, StreamAssumption DEF StreamAssumption
  <2> QED BY <2>2 DEF NoFloor
<1> QED BY <1>1, <1>5, <1>6, <1>7

(* A folded floor is one too: any floor with tables is told from none.      *)
LEMMA FloorIsSome == ASSUME NEW f \in FloorType PROVE f # NoFloor
<1>1. DOMAIN f.details = Tables /\ DOMAIN <<>> = {}
  BY DEF FloorType
<1>2. f.details # <<>>
  BY <1>1, StreamAssumption DEF StreamAssumption
<1> QED BY <1>2 DEF NoFloor

-----------------------------------------------------------------------------
(* A page of the stream: the first of the branch's own rows after a row,    *)
(* and how far it says it has been read.                                    *)
LEMMA LastOfSome ==
  ASSUME NEW rows \in SUBSET Nat, NEW b \in Nat, \A i \in rows : 0 < i /\ i <= b, rows # {}
  PROVE  LastOf(rows) \in rows /\ \A i \in rows : i <= LastOf(rows)
<1>1. LastOf(rows) \in rows \union {0} /\ \A i \in rows : i <= LastOf(rows)
  BY LastOfBounded
<1>2. LastOf(rows) # 0
  <2>1. PICK r \in rows : 0 < r /\ r <= LastOf(rows)
    BY <1>1
  <2> QED BY <1>1, <2>1
<1> QED BY <1>1, <1>2

LEMMA PageIsPrefix ==
  ASSUME LogType, NEW after \in Nat, NEW n \in Nat,
         NEW j \in PageRows(after, n), NEW i \in OwnRows(after, n), i < j
  PROVE  i \in PageRows(after, n)
<1>1. j \in OwnRows(after, n) /\ Cardinality(OwnRows(after, j)) <= PageSize
  BY DEF PageRows
<1>2. i \in Nat /\ j \in Nat
  BY <1>1, OwnRowsAre
<1>3. OwnRows(after, j) \in SUBSET Nat /\ \A k \in OwnRows(after, j) : k <= j
  BY <1>2, OwnRowsAre
<1>4. IsFiniteSet(OwnRows(after, j))
  BY <1>2, <1>3, FS_BoundedSetOfNaturals
<1>5. OwnRows(after, i) \in SUBSET OwnRows(after, j)
  BY <1>2, LogFacts DEF OwnRows
<1>6. /\ Cardinality(OwnRows(after, i)) <= Cardinality(OwnRows(after, j))
      /\ Cardinality(OwnRows(after, i)) \in Nat /\ Cardinality(OwnRows(after, j)) \in Nat
  <2>1. IsFiniteSet(OwnRows(after, i))
    BY <1>4, <1>5, FS_Subset
  <2> QED BY <1>4, <1>5, <2>1, FS_Subset, FS_CardinalityType
<1>7. Cardinality(OwnRows(after, i)) <= PageSize
  BY <1>1, <1>6, Sizes
<1> QED BY <1>7 DEF PageRows

LEMMA PageIs ==
  ASSUME LogType, NEW after \in Nat, NEW n \in 0 .. Len(log)
  PROVE  LET rows == PageRows(after, n)
         IN  /\ rows \subseteq OwnRows(after, n) /\ rows \in SUBSET Nat
             /\ \A i \in rows : i \in 1 .. Len(log) /\ i <= n /\ after < i
             /\ PageEnd(after, n) \in 0 .. n
             /\ rows # {} => PageEnd(after, n) \in rows /\ PageEnd(after, n) = LastOf(rows)
             /\ rows = {} => PageEnd(after, n) <= after
<1> DEFINE rows == PageRows(after, n)
           own  == OwnRows(after, n)
<1>1. n \in Nat /\ Len(log) \in Nat
  BY LogFacts
<1>2. rows \subseteq own
  BY DEF PageRows
<1>3. own \in SUBSET Nat /\ \A i \in own : i \in 1 .. Len(log) /\ i <= n /\ after < i /\ 0 < i
  BY <1>1, OwnRowsAre
<1>4. EndAt(n) \in 0 .. n /\ (EndAt(n) = 0 \/ EndAt(n) \in OwnRows(0, n))
      /\ \A i \in OwnRows(0, n) : i <= EndAt(n)
  BY EndIs
<1>5. own \subseteq OwnRows(0, n) /\ \A i \in OwnRows(0, n) : i \in Nat /\ (after < i => i \in own)
  BY <1>1, OwnRowsAre DEF OwnRows
<1>6. rows # {} => LastOf(rows) \in rows /\ \A i \in rows : i <= LastOf(rows)
  BY <1>1, <1>2, <1>3, LastOfSome
<1>7. rows = {} => LastOf(rows) = 0
  BY DEF LastOf
<1>8. PageEnd(after, n) = IF own = rows THEN EndAt(n) ELSE LastOf(rows)
  BY DEF PageEnd
<1> HIDE DEF rows, own
<1>9. CASE own = rows /\ rows # {}
  <2>1. LastOf(rows) \in own /\ LastOf(rows) <= EndAt(n) /\ after < LastOf(rows)
    BY <1>3, <1>4, <1>5, <1>6, <1>9
  <2>2. EndAt(n) \in Nat /\ LastOf(rows) \in Nat /\ EndAt(n) > 0 /\ after < EndAt(n)
    <3>1. LastOf(rows) \in Nat
      BY <1>3, <2>1
    <3>2. EndAt(n) \in Nat
      BY <1>1, <1>4
    <3> QED BY <2>1, <3>1, <3>2
  <2>3. EndAt(n) \in own
    BY <1>4, <1>5, <2>2
  <2>4. EndAt(n) = LastOf(rows)
    BY <1>6, <1>9, <2>1, <2>2, <2>3
  <2> QED BY <1>2, <1>3, <1>4, <1>6, <1>8, <1>9, <2>4 DEF rows, own
<1>10. CASE own = rows /\ rows = {}
  <2>1. EndAt(n) <= after
    BY <1>4, <1>5, <1>10
  <2> QED BY <1>2, <1>3, <1>4, <1>8, <1>10, <2>1 DEF rows, own
<1>11. CASE own # rows /\ rows # {}
  BY <1>1, <1>2, <1>3, <1>6, <1>8, <1>11 DEF rows, own
<1>12. CASE own # rows /\ rows = {}
  BY <1>1, <1>2, <1>3, <1>7, <1>8, <1>12 DEF rows, own
<1> QED BY <1>9, <1>10, <1>11, <1>12

-----------------------------------------------------------------------------
(* Folding.  A table's detail shows a room.                                 *)
Shows(d, room) ==
   /\ d.physicalStatus = room.status /\ d.state = drawn(room)
   /\ d.booked = room.booked /\ d.openTab = (room.tab # "none")
   /\ (d.openTab /\ d.awaiting) = (room.tab = "waiting")

LEMMA AgreesShows ==
  ASSUME NEW t \in Tables
  PROVE  Agrees(t) <=> Shows(floor.details[t], RoomAt(floor.lastSequence)[t])
BY DEF Agrees, FloorAt, Shows

LEMMA ReadShows ==
  ASSUME LogInv, NEW n \in 0 .. Len(log), NEW t \in Tables
  PROVE  Shows(FloorAt(n).details[t], RoomAt(n)[t])
BY RoomSound DEF FloorAt, Shows

(* A folded detail is a detail. *)
LEMMA FoldedType ==
  ASSUME LogInv, floor \in FloorType, NEW rows \in SUBSET (1 .. Len(log)), NEW t \in Tables
  PROVE  /\ Folded(rows, t) \in Detail
         /\ Redraws(rows, t) = {} => Folded(rows, t) = floor.details[t]
<1> DEFINE mine     == Redraws(rows, t)
           status   == log[LastOf(mine)].room[t].status
           signals  == {i \in mine : log[i].kind \in Signals}
           settles  == {i \in mine : log[i].kind \in Signals \/ log[i].room[t].status = "free"}
           d        == floor.details[t]
           awaiting == IF signals = {} THEN d.awaiting
                       ELSE log[LastOf(signals)].kind = "tabAwaitingAdmission"
           openTab  == IF settles = {} THEN d.openTab
                       ELSE /\ log[LastOf(settles)].room[t].status # "free"
                            /\ log[LastOf(settles)].kind # "tabAdmissionRejected"
<1>1. d \in Detail
  BY DEF FloorType
<1>2. mine = {} => Folded(rows, t) = d
  BY DEF Folded
<1>3. CASE mine # {}
  <2>1. mine \in SUBSET Nat /\ \A i \in mine : 0 < i /\ i <= Len(log) /\ i \in 1 .. Len(log)
    <3>1. Len(log) \in Nat /\ mine \subseteq 1 .. Len(log)
      BY LogFacts DEF LogInv, Redraws
    <3> QED BY <3>1
  <2>2. LastOf(mine) \in 1 .. Len(log)
    BY <1>3, <2>1, LastOfSome, LogFacts DEF LogInv
  <2>3. status \in {"free", "occupied"}
    <3>1. log[LastOf(mine)].room[t] \in Room
      BY <2>2, LogFacts DEF LogInv
    <3> QED BY <3>1 DEF Room
  <2>4. awaiting \in BOOLEAN /\ openTab \in BOOLEAN
    <3>1. d.awaiting \in BOOLEAN /\ d.openTab \in BOOLEAN
      BY <1>1 DEF Detail
    <3> HIDE DEF mine, d
    <3> QED BY <3>1, Zenon
  <2>5. Folded(rows, t) = [d EXCEPT !.physicalStatus = status, !.state = status,
                                    !.awaiting = awaiting, !.openTab = openTab]
    BY <1>3, Zenon DEF Folded
  <2> HIDE DEF status, awaiting, openTab, d, mine
  <2>6. [d EXCEPT !.physicalStatus = status, !.state = status,
                  !.awaiting = awaiting, !.openTab = openTab] \in Detail
    BY <1>1, <2>3, <2>4 DEF Detail
  <2> QED BY <1>3, <2>5, <2>6 DEF mine
<1> QED BY <1>1, <1>2, <1>3

(* A row of the table turns it as its kind may.                             *)
LEMMA RowTurns ==
  ASSUME LogInv, NEW i \in 1 .. Len(log), NEW t \in Tables
  PROVE  /\ RoomAt(i) = log[i].room
         /\ log[i].table = t => Turns(log[i].kind, RoomAt(i - 1)[t], RoomAt(i)[t])
<1>1. RowOK(i) /\ RoomAt(i) = log[i].room
  BY LogFacts DEF LogInv, RoomAt
<1> QED BY <1>1 DEF RowOK

(* Over a range of rows a table keeps what none of them changes: all of it, *)
(* its booking, or its tab.                                                 *)
LEMMA SteadyTable ==
  ASSUME LogInv, NEW t \in Tables, NEW a \in 0 .. Len(log), NEW b \in 0 .. Len(log), a <= b,
         \A i \in 1 .. Len(log) : a < i /\ i <= b =>
            log[i].table # t \/ log[i].kind \in {"preOrderChanged", "elsewhere"}
  PROVE  RoomAt(b)[t] = RoomAt(a)[t]
<1> DEFINE f == [i \in Nat |-> RoomAt(i)[t]]
<1>1. Len(log) \in Nat /\ a \in Nat /\ b \in Nat
  BY LogFacts DEF LogInv
<1>2. \A i \in a + 1 .. b : f[i] = f[i - 1]
  <2>0. \A i \in a + 1 .. b : i \in Nat /\ i - 1 \in Nat
    BY <1>1
  <2> SUFFICES ASSUME NEW i \in a + 1 .. b PROVE RoomAt(i)[t] = RoomAt(i - 1)[t]
    BY <2>0
  <2>1. i \in 1 .. Len(log) /\ a < i /\ i <= b
    BY <1>1
  <2> QED BY <2>1, RowKeeps
<1>3. f[b] = f[a]
  <2> HIDE DEF f
  <2> QED BY <1>1, <1>2, Steady
<1> QED BY <1>1, <1>3

LEMMA SteadyBooked ==
  ASSUME LogInv, NEW t \in Tables, NEW a \in 0 .. Len(log), NEW b \in 0 .. Len(log), a <= b,
         \A i \in 1 .. Len(log) : a < i /\ i <= b =>
            log[i].table # t \/ log[i].kind # "bookingChanged"
  PROVE  RoomAt(b)[t].booked = RoomAt(a)[t].booked
<1> DEFINE f == [i \in Nat |-> RoomAt(i)[t].booked]
<1>1. Len(log) \in Nat /\ a \in Nat /\ b \in Nat
  BY LogFacts DEF LogInv
<1>2. \A i \in a + 1 .. b : f[i] = f[i - 1]
  <2>0. \A i \in a + 1 .. b : i \in Nat /\ i - 1 \in Nat
    BY <1>1
  <2> SUFFICES ASSUME NEW i \in a + 1 .. b PROVE RoomAt(i)[t].booked = RoomAt(i - 1)[t].booked
    BY <2>0
  <2>1. i \in 1 .. Len(log) /\ a < i /\ i <= b
    BY <1>1
  <2>2. CASE log[i].table # t
    BY <2>1, <2>2, RowKeeps
  <2>3. CASE log[i].table = t
    BY <2>1, <2>3, RowTurns DEF Turns
  <2> QED BY <2>2, <2>3
<1>3. f[b] = f[a]
  <2> HIDE DEF f
  <2> QED BY <1>1, <1>2, Steady
<1> QED BY <1>1, <1>3

LEMMA SteadyTab ==
  ASSUME LogInv, NEW t \in Tables, NEW a \in 0 .. Len(log), NEW b \in 0 .. Len(log), a <= b,
         \A i \in 1 .. Len(log) : a < i /\ i <= b =>
            \/ log[i].table # t \/ log[i].kind \in {"preOrderChanged", "elsewhere"}
            \/ log[i].kind = "moved" /\ log[i].room[t].status # "free"
  PROVE  RoomAt(b)[t].tab = RoomAt(a)[t].tab
<1> DEFINE f == [i \in Nat |-> RoomAt(i)[t].tab]
<1>1. Len(log) \in Nat /\ a \in Nat /\ b \in Nat
  BY LogFacts DEF LogInv
<1>2. \A i \in a + 1 .. b : f[i] = f[i - 1]
  <2>0. \A i \in a + 1 .. b : i \in Nat /\ i - 1 \in Nat
    BY <1>1
  <2> SUFFICES ASSUME NEW i \in a + 1 .. b PROVE RoomAt(i)[t].tab = RoomAt(i - 1)[t].tab
    BY <2>0
  <2>1. i \in 1 .. Len(log) /\ a < i /\ i <= b
    BY <1>1
  <2>2. CASE log[i].table # t \/ log[i].kind \in {"preOrderChanged", "elsewhere"}
    BY <2>1, <2>2, RowKeeps
  <2>3. CASE log[i].table = t /\ log[i].kind = "moved" /\ log[i].room[t].status # "free"
    BY <2>1, <2>3, RowTurns DEF Turns
  <2> QED BY <2>1, <2>2, <2>3
<1>3. f[b] = f[a]
  <2> HIDE DEF f
  <2> QED BY <1>1, <1>2, Steady
<1> QED BY <1>1, <1>3

(* The rows of a page that nothing lies before, and that may be folded,     *)
(* leave each table as it was read, and so as the room is at the last one.  *)
LEMMA FoldShows ==
  ASSUME LogInv, floor \in FloorType, NEW t \in Tables,
         NEW rows \in SUBSET (1 .. Len(log)), NEW last \in 0 .. Len(log),
         floor.lastSequence <= last,
         \A i \in rows : i <= last /\ log[i].kind # "elsewhere",
         \A i \in 1 .. Len(log) :
            floor.lastSequence < i /\ i <= last /\ log[i].kind # "elsewhere" => i \in rows,
         \A i \in rows : floor.lastSequence < i => ~MustRead(i),
         Shows(floor.details[t], RoomAt(floor.lastSequence)[t])
  PROVE  Shows(Folded(rows, t), RoomAt(last)[t])
<1> DEFINE first    == floor.lastSequence
           mine     == Redraws(rows, t)
           status   == log[LastOf(mine)].room[t].status
           signals  == {i \in mine : log[i].kind \in Signals}
           settles  == {i \in mine : log[i].kind \in Signals \/ log[i].room[t].status = "free"}
           d        == floor.details[t]
           awaiting == IF signals = {} THEN d.awaiting
                       ELSE log[LastOf(signals)].kind = "tabAwaitingAdmission"
           openTab  == IF settles = {} THEN d.openTab
                       ELSE /\ log[LastOf(settles)].room[t].status # "free"
                            /\ log[LastOf(settles)].kind # "tabAdmissionRejected"
           was      == RoomAt(first)[t]
           is       == RoomAt(last)[t]
<1>1. /\ Len(log) \in Nat /\ first \in Nat /\ first \in 0 .. Len(log) /\ last \in Nat
      /\ first <= last /\ last <= Len(log)
  BY LogFacts, Sizes DEF LogInv, FloorType
<1>2. /\ mine \subseteq 1 .. Len(log) /\ mine \in SUBSET Nat
      /\ \A i \in mine : /\ first < i /\ i <= last /\ 0 < i /\ i <= Len(log)
                         /\ log[i].table = t /\ ~MustRead(i)
                         /\ log[i].kind \notin {"elsewhere", "preOrderChanged"}
  <2>1. \A i \in mine : i \in rows /\ first < i /\ log[i].table = t
                        /\ log[i].kind # "preOrderChanged"
    <3> HIDE DEF first
    <3>1. \A i \in rows : i > first => first < i
      BY <1>1
    <3> QED BY <3>1 DEF Redraws, first
  <2> HIDE DEF mine
  <2>2. \A i \in rows : i \in Nat /\ 0 < i /\ i <= Len(log) /\ i \in 1 .. Len(log)
    BY <1>1
  <2> QED BY <2>1, <2>2
<1>3. \A i \in 1 .. Len(log) : first < i /\ i <= last /\ i \notin mine =>
         log[i].table # t \/ log[i].kind \in {"preOrderChanged", "elsewhere"}
  <2> SUFFICES ASSUME NEW i \in 1 .. Len(log), first < i, i <= last,
                      log[i].table = t, log[i].kind \notin {"preOrderChanged", "elsewhere"}
               PROVE  i \in mine
    OBVIOUS
  <2>1. i \in rows
    OBVIOUS
  <2> QED BY <2>1 DEF Redraws
<1>4. \A i \in mine : log[i].kind # "bookingChanged"
  BY <1>2 DEF MustRead
<1>5. CASE mine = {}
  <2>1. is = was
    <3>1. \A i \in 1 .. Len(log) : first < i /\ i <= last =>
             log[i].table # t \/ log[i].kind \in {"preOrderChanged", "elsewhere"}
      BY <1>3, <1>5
    <3> HIDE DEF mine
    <3> QED BY <1>1, <3>1, SteadyTable
  <2>2. Folded(rows, t) = d
    BY <1>5, FoldedType
  <2> QED BY <2>1, <2>2
<1>6. CASE mine # {}
  <2> DEFINE end == LastOf(mine)
  <2>1. end \in mine /\ end \in 1 .. Len(log) /\ \A i \in mine : i <= end
    <3> HIDE DEF mine
    <3> QED BY <1>1, <1>2, <1>6, LastOfSome
  <2>2. is = log[end].room[t]
    <3>1. \A i \in 1 .. Len(log) : end < i /\ i <= last =>
             log[i].table # t \/ log[i].kind \in {"preOrderChanged", "elsewhere"}
      <4> SUFFICES ASSUME NEW i \in 1 .. Len(log), end < i, i <= last
                   PROVE  log[i].table # t \/ log[i].kind \in {"preOrderChanged", "elsewhere"}
        OBVIOUS
      <4>1. first < i /\ i \notin mine
        <5> HIDE DEF mine, end, first
        <5> QED BY <1>1, <1>2, <2>1
      <4> QED BY <1>3, <4>1
    <3>2. end \in 0 .. Len(log) /\ end <= last
      <4> HIDE DEF mine, end
      <4> QED BY <1>1, <1>2, <2>1
    <3>3. is = RoomAt(end)[t]
      <4> HIDE DEF mine, end
      <4> QED BY <1>1, <3>1, <3>2, SteadyTable
    <3> QED BY <2>1, <3>3, RowTurns
  <2>3. is.booked = was.booked
    <3>1. \A i \in 1 .. Len(log) : first < i /\ i <= last =>
            log[i].table # t \/ log[i].kind # "bookingChanged"
      BY <1>3, <1>4
    <3> QED BY <1>1, <3>1, SteadyBooked
  <2>4. status = is.status
    BY <2>2
  <2>5. ~(is.status = "free" /\ d.booked)
    BY <1>2, <2>1, <2>2 DEF MustRead
  <2>6. d.booked = was.booked /\ d.openTab = (was.tab # "none")
        /\ (d.openTab /\ d.awaiting) = (was.tab = "waiting")
    BY DEF Shows
  <2>7. Sound(is, last) /\ is \in Room
    BY RoomSound DEF Sound
  <2>8. drawn(is) = is.status
    BY <2>3, <2>5, <2>6 DEF drawn
  (* The tab: as the last row that settles it left it, or as it was. *)
  <2>9. \A i \in mine : i \notin settles =>
           log[i].kind = "moved" /\ log[i].room[t].status # "free"
    <3>1. \A i \in mine : log[i].kind \in Kinds
      BY <1>2, LogFacts DEF LogInv
    <3> QED BY <1>2, <1>4, <3>1 DEF Kinds, Signals
  <2>10. ASSUME NEW a \in 0 .. Len(log), first <= a, a <= last, \A i \in settles : i <= a
         PROVE  is.tab = RoomAt(a)[t].tab
    <3>1. \A i \in 1 .. Len(log) : a < i /\ i <= last =>
            \/ log[i].table # t \/ log[i].kind \in {"preOrderChanged", "elsewhere"}
            \/ log[i].kind = "moved" /\ log[i].room[t].status # "free"
      <4> SUFFICES ASSUME NEW i \in 1 .. Len(log), a < i, i <= last
                   PROVE  \/ log[i].table # t \/ log[i].kind \in {"preOrderChanged", "elsewhere"}
                          \/ log[i].kind = "moved" /\ log[i].room[t].status # "free"
        OBVIOUS
      <4>1. first < i /\ i \notin settles
        <5> HIDE DEF settles, first
        <5> QED BY <1>1, <2>10
      <4>2. i \in mine \/ i \notin mine
        OBVIOUS
      <4> HIDE DEF mine, settles
      <4> QED BY <1>3, <2>9, <4>1, <4>2
    <3> QED BY <1>1, <2>10, <3>1, SteadyTab
  <2> DEFINE s == LastOf(settles)
             g == LastOf(signals)
  <2>11. settles # {} => /\ s \in settles /\ s \in 1 .. Len(log) /\ s <= last /\ first <= s
                         /\ \A i \in settles : i <= s
    <3>1. settles \in SUBSET Nat /\ \A i \in settles : i \in mine /\ 0 < i /\ i <= Len(log)
      BY <1>2
    <3> HIDE DEF settles, mine
    <3>2. ASSUME settles # {} PROVE s \in settles /\ \A i \in settles : i <= s
      BY <1>1, <3>1, <3>2, LastOfSome
    <3>3. ASSUME NEW i \in mine PROVE i \in 1 .. Len(log) /\ i <= last /\ first <= i
      <4> HIDE DEF first
      <4> QED BY <1>1, <1>2, <3>3
    <3> HIDE DEF s
    <3> QED BY <3>1, <3>2, <3>3
  <2>12. signals # {} => g \in signals /\ \A i \in signals : i <= g
    <3>1. signals \in SUBSET Nat /\ \A i \in signals : 0 < i /\ i <= Len(log)
      BY <1>2
    <3> HIDE DEF signals
    <3> QED BY <1>1, <3>1, LastOfSome
  <2>13. signals \subseteq settles
    OBVIOUS
  <2>14. settles # {} => is.tab = log[s].room[t].tab
    <3>1. ASSUME settles # {} PROVE is.tab = RoomAt(s)[t].tab /\ s \in 1 .. Len(log)
      <4> HIDE DEF settles, s
      <4> QED BY <1>1, <2>10, <2>11, <3>1
    <3> HIDE DEF settles, s
    <3> QED BY <3>1, RowTurns
  <2>15. settles = {} => is.tab = was.tab
    BY <1>1, <2>10
  <2>16. ASSUME NEW i \in settles
         PROVE  LET x == log[i].room[t]
                IN  /\ Turns(log[i].kind, RoomAt(i - 1)[t], x)
                    /\ x.tab # "none" => x.status = "occupied"
                    /\ log[i].kind \in Signals \/ (log[i].kind = "moved" /\ x.status = "free")
    <3>1. i \in 1 .. Len(log) /\ log[i].table = t /\ log[i].kind \in Kinds
      BY <1>2, LogFacts DEF LogInv
    <3>2. Turns(log[i].kind, RoomAt(i - 1)[t], log[i].room[t]) /\ Sound(log[i].room[t], i)
      BY <3>1, RowTurns DEF LogInv, RowOK
    <3>3. log[i].kind \in Signals \/ (log[i].kind = "moved" /\ log[i].room[t].status = "free")
      BY <1>2, <1>4, <3>1 DEF Kinds, Signals
    <3> QED BY <3>2, <3>3 DEF Sound
  <2>17. openTab <=> is.tab # "none"
    <3>1. CASE settles = {}
      BY <2>6, <2>15, <3>1
    <3>2. CASE settles # {}
      <4>1. s \in settles /\ is.tab = log[s].room[t].tab
        BY <2>11, <2>14, <3>2
      <4>2. openTab <=> log[s].room[t].status # "free" /\ log[s].kind # "tabAdmissionRejected"
        BY <3>2
      <4> HIDE DEF settles, s, openTab
      <4> QED BY <2>16, <4>1, <4>2 DEF Turns, Signals
    <3> QED BY <3>1, <3>2
  <2>18. (openTab /\ awaiting) <=> is.tab = "waiting"
    <3>1. CASE signals = {} /\ settles = {}
      BY <2>6, <2>15, <3>1
    <3>2. CASE signals = {} /\ settles # {}
      <4>1. s \in settles /\ s \notin signals /\ is.tab = log[s].room[t].tab
        BY <2>11, <2>14, <3>2
      <4>2. log[s].kind \notin Signals
        BY <4>1
      <4> HIDE DEF settles, s, signals, openTab, awaiting
      <4>3. is.tab = "none"
        BY <2>16, <4>1, <4>2 DEF Turns
      <4> QED BY <2>17, <4>3
    <3>3. CASE signals # {}
      <4>1. s \in settles /\ g \in signals /\ g \in settles /\ is.tab = log[s].room[t].tab
        BY <2>11, <2>12, <2>14, <3>3
      <4>2. awaiting <=> log[g].kind = "tabAwaitingAdmission"
        BY <3>3
      <4>3. CASE s = g
        <5>1. log[s].kind \in Signals
          BY <4>1, <4>3
        <5> HIDE DEF settles, s, signals, openTab, awaiting, g
        <5> QED BY <2>16, <2>17, <4>1, <4>2, <4>3, <5>1 DEF Turns, Signals
      <4>4. CASE s # g
        <5>1. s \notin signals
          <6>1. g <= s /\ (s \in signals => s <= g)
            BY <2>11, <2>12, <4>1
          <6>2. s \in Nat /\ g \in Nat
            BY <1>2, <4>1
          <6> HIDE DEF s, g, signals
          <6> QED BY <4>4, <6>1, <6>2
        <5>2. log[s].kind \notin Signals
          BY <4>1, <5>1
        <5> HIDE DEF settles, s, signals, openTab, awaiting, g
        <5>3. is.tab = "none"
          BY <2>16, <4>1, <5>2 DEF Turns
        <5> QED BY <2>17, <5>3
      <4> QED BY <4>3, <4>4
    <3> QED BY <3>1, <3>2, <3>3
  <2>19. Folded(rows, t) = [d EXCEPT !.physicalStatus = status, !.state = status,
                                     !.awaiting = awaiting, !.openTab = openTab]
    BY <1>6, Zenon DEF Folded
  <2>20. d \in Detail
    BY DEF FloorType
  <2>21. awaiting \in BOOLEAN /\ openTab \in BOOLEAN
    <3>1. d.awaiting \in BOOLEAN /\ d.openTab \in BOOLEAN
      BY <2>20 DEF Detail
    <3> HIDE DEF mine, d
    <3> QED BY <3>1, Zenon
  <2> HIDE DEF status, awaiting, openTab, d, mine, is, was
  <2>22. LET e == [d EXCEPT !.physicalStatus = status, !.state = status,
                            !.awaiting = awaiting, !.openTab = openTab]
         IN  e.physicalStatus = status /\ e.state = status /\ e.booked = d.booked
             /\ e.awaiting = awaiting /\ e.openTab = openTab
    BY <2>20 DEF Detail
  <2>23. /\ Folded(rows, t).physicalStatus = is.status /\ Folded(rows, t).state = drawn(is)
         /\ Folded(rows, t).booked = is.booked
         /\ Folded(rows, t).awaiting = awaiting /\ Folded(rows, t).openTab = openTab
    BY <2>3, <2>4, <2>6, <2>8, <2>19, <2>22
  <2>24. openTab = (is.tab # "none")
    BY <2>17, <2>21, Zenon
  <2>25. (openTab /\ awaiting) = (is.tab = "waiting")
    BY <2>18, <2>21, Zenon
  <2>26. Shows(Folded(rows, t), is)
    BY <2>23, <2>24, <2>25, Zenon DEF Shows
  <2> QED BY <2>26 DEF is
<1> QED BY <1>5, <1>6

-----------------------------------------------------------------------------
(* What holds of the tablet beside the types: nothing it has or has asked   *)
(* for is ahead of the server, and a stream only starts from a floor.       *)
Placed ==
   /\ floor.lastSequence \in 0 .. Len(log) /\ sequence \in 0 .. Len(log)
   /\ \A n \in read : n \in 0 .. Len(log)
   /\ \A p \in polls : /\ p.after \in 0 .. Len(log) /\ p.since \in 0 .. Len(log)
                       /\ p.mine => active
   /\ known \/ polls # {} \/ ~told => floor # NoFloor

TypeInv == LogInv /\ TypeOK /\ Placed

LEMMA SameLog ==
  ASSUME LogInv, UNCHANGED log
  PROVE  LogInv' /\ \A n : RoomAt(n)' = RoomAt(n)
BY DEF LogInv, LogType, RowOK, RoomAt

(* The parts of the types a step may disturb. *)
FloorOK == floor = NoFloor \/ floor \in FloorType
ReadOK  == read \subseteq Rows /\ \A m, n \in read : m = n
PollsOK == polls \subseteq [after : Rows, since : Rows, mine : BOOLEAN]
FlagsOK == /\ wired \in BOOLEAN /\ told \in BOOLEAN /\ active \in BOOLEAN
           /\ known \in BOOLEAN /\ unavailable \in BOOLEAN
           /\ skipped \in BOOLEAN /\ missed \in BOOLEAN

LEMMA Parts ==
  TypeOK <=> /\ LogType /\ FloorOK /\ ReadOK /\ PollsOK /\ FlagsOK
             /\ sequence \in Rows /\ troubles \in 0 .. MaxTroubles
BY DEF TypeOK, LogType, Entry, FloorOK, FloorType, ReadOK, PollsOK, FlagsOK

LEMMA InitTyped == ASSUME Init PROVE TypeInv
<1>1. LogType /\ Len(log) = 0
  <2>1. log = <<>> /\ <<>> \in Seq(Entry) /\ Len(<<>>) = 0
    BY DEF Init
  <2> QED BY <2>1, Sizes DEF LogType
<1>2. LogInv
  <2>1. 1 .. Len(log) = {}
    BY <1>1
  <2> QED BY <1>1, <2>1 DEF LogInv
<1>3. NoFloor.lastSequence = 0
  BY DEF NoFloor
<1>4. Placed
  BY <1>1, <1>3 DEF Init, Placed
<1>5. FloorOK /\ ReadOK /\ PollsOK /\ sequence \in Rows /\ troubles \in 0 .. MaxTroubles
  BY Sizes DEF Init, FloorOK, ReadOK, PollsOK
<1>6. FlagsOK
  BY Zenon DEF Init, FlagsOK
<1>7. TypeOK
  BY <1>1, <1>5, <1>6, Parts
<1> QED BY <1>2, <1>4, <1>7 DEF TypeInv

LEMMA PartsNext ==
  TypeOK' <=> /\ LogType' /\ FloorOK' /\ ReadOK' /\ PollsOK' /\ FlagsOK'
              /\ sequence' \in Rows /\ troubles' \in 0 .. MaxTroubles
BY DEF TypeOK, LogType, Entry, FloorOK, FloorType, ReadOK, PollsOK, FlagsOK

LEMMA Troubled ==
  ASSUME Trouble, troubles \in 0 .. MaxTroubles PROVE troubles' \in 0 .. MaxTroubles
BY Sizes DEF Trouble

(* A read asked again is the one on its way, or one asked now. *)
LEMMA AskedAgain ==
  ASSUME NEW c \in BOOLEAN, invalidateQueries(c)
  PROVE  /\ read' = read \/ read' = {Len(log)}
         /\ c /\ active /\ floor # NoFloor => read' = {Len(log)}
BY DEF invalidateQueries

LEMMA ChangeTyped ==
  ASSUME TypeInv, NEW t \in Tables, Change(t) PROVE TypeInv'
<1>1. LogInv' /\ Len(log') = Len(log) + 1 /\ Len(log) \in Nat
  BY ChangeGrows, LogFacts DEF TypeInv, LogInv
<1>2. UNCHANGED <<wired, floor, read, told, active, streamVars, polls, historyVars, troubles>>
  BY DEF Change, Write
<1>3. TypeOK'
  <2>1. FloorOK' /\ ReadOK' /\ PollsOK' /\ FlagsOK' /\ sequence' \in Rows
        /\ troubles' \in 0 .. MaxTroubles
    BY <1>2, Parts DEF TypeInv, FloorOK, ReadOK, PollsOK, FlagsOK, streamVars, historyVars
  <2> QED BY <1>1, <2>1, PartsNext DEF LogInv
<1>4. Placed'
  BY <1>1, <1>2 DEF TypeInv, Placed, streamVars
<1> QED BY <1>1, <1>3, <1>4 DEF TypeInv

(* Every other step leaves the log; what the types ask of the rest. *)
LEMMA QuietTyped ==
  ASSUME TypeInv, UNCHANGED serverVars, FloorOK', ReadOK', PollsOK', FlagsOK',
         sequence' \in Rows, troubles' \in 0 .. MaxTroubles, Placed'
  PROVE  TypeInv'
<1>1. LogInv'
  BY SameLog DEF TypeInv, serverVars
<1>2. TypeOK'
  BY <1>1, PartsNext DEF LogInv
<1> QED BY <1>1, <1>2 DEF TypeInv

LEMMA ReadLandsTyped == ASSUME TypeInv, ReadLands PROVE TypeInv'
<1>1. PICK n \in read : \E m \in n .. Len(log) : floor' = FloorAt(m)
  BY DEF ReadLands
<1>2. PICK m \in n .. Len(log) : floor' = FloorAt(m)
  BY <1>1
<1>3. n \in 0 .. Len(log) /\ Len(log) \in Nat
  BY LogFacts DEF TypeInv, Placed, LogInv
<1>4. m \in 0 .. Len(log)
  BY <1>3
<1>5. floor' \in FloorType /\ floor' # NoFloor /\ floor'.lastSequence \in 0 .. Len(log)
  <2>1. FloorAt(m) \in FloorType /\ FloorAt(m) # NoFloor /\ FloorAt(m).lastSequence \in 0 .. m
    BY <1>4, FloorAtIs DEF TypeInv
  <2> QED BY <1>2, <1>3, <1>4, <2>1
<1>6. UNCHANGED <<serverVars, active, streamVars, polls, troubles>> /\ read' = {} /\ told' = FALSE
      /\ skipped' = FALSE /\ missed' \in BOOLEAN
  BY DEF ReadLands
<1>7. FloorOK' /\ ReadOK' /\ PollsOK' /\ FlagsOK' /\ sequence' \in Rows
      /\ troubles' \in 0 .. MaxTroubles
  BY <1>5, <1>6, Parts
     DEF TypeInv, FloorOK, ReadOK, PollsOK, FlagsOK, serverVars, streamVars, FloorType
<1>8. Placed'
  BY <1>5, <1>6 DEF TypeInv, Placed, serverVars, streamVars
<1> QED BY <1>6, <1>7, <1>8, QuietTyped

LEMMA ReadFailsTyped == ASSUME TypeInv, ReadFails PROVE TypeInv'
<1>1. UNCHANGED <<serverVars, floor, told, active, streamVars, polls, skipped>>
      /\ read' = {} /\ missed' = TRUE /\ troubles' \in 0 .. MaxTroubles
  BY Parts, Troubled DEF TypeInv, ReadFails
<1>2. FloorOK' /\ ReadOK' /\ PollsOK' /\ FlagsOK' /\ sequence' \in Rows
  BY <1>1, Parts DEF TypeInv, FloorOK, ReadOK, PollsOK, FlagsOK, serverVars, streamVars
<1>3. Placed'
  BY <1>1 DEF TypeInv, Placed, serverVars, streamVars
<1> QED BY <1>1, <1>2, <1>3, QuietTyped

LEMMA setSequenceTyped == ASSUME TypeInv, setSequence PROVE TypeInv'
<1>1. UNCHANGED <<serverVars, floor, read, active, unavailable, polls, historyVars, troubles>>
      /\ told' = TRUE /\ ~told /\ sequence' \in {sequence, floor.lastSequence}
      /\ known' \in {TRUE, known}
  BY DEF setSequence
<1>2. floor # NoFloor /\ floor.lastSequence \in Rows
  BY <1>1, Parts DEF TypeInv, Placed, FloorOK, FloorType
<1>3. FloorOK' /\ ReadOK' /\ PollsOK' /\ FlagsOK' /\ sequence' \in Rows
      /\ troubles' \in 0 .. MaxTroubles
  BY <1>1, <1>2, Parts
     DEF TypeInv, FloorOK, ReadOK, PollsOK, FlagsOK, serverVars, historyVars
<1>4. Placed'
  BY <1>1, <1>2 DEF TypeInv, Placed, serverVars
<1> QED BY <1>1, <1>3, <1>4, QuietTyped

(* The steps that only ask for the floor. *)
LEMMA AsksTyped ==
  ASSUME TypeInv, read' = read \/ read' = {Len(log)},
         UNCHANGED <<serverVars, floor, told, active, streamVars, polls, historyVars, troubles>>
  PROVE  TypeInv'
<1>1. Len(log) \in Nat /\ Len(log) \in Rows
  BY LogFacts DEF TypeInv, LogInv
<1>2. FloorOK' /\ ReadOK' /\ PollsOK' /\ FlagsOK' /\ sequence' \in Rows
      /\ troubles' \in 0 .. MaxTroubles
  BY <1>1, Parts
     DEF TypeInv, FloorOK, ReadOK, PollsOK, FlagsOK, serverVars, streamVars, historyVars
<1>3. Placed'
  BY <1>1 DEF TypeInv, Placed, serverVars, streamVars
<1> QED BY <1>2, <1>3, QuietTyped

LEMMA PollTyped == ASSUME TypeInv, Poll PROVE TypeInv'
<1>1. UNCHANGED <<serverVars, floor, told, active, streamVars, historyVars, troubles>> /\ active
  BY DEF Poll
<1>2. CASE UNCHANGED polls
  <2>1. read' = read \/ read' = {Len(log)}
    BY AskedAgain DEF Poll, onResync
  <2> QED BY <1>1, <1>2, <2>1, AsksTyped
<1>3. CASE ~UNCHANGED polls
  <2> DEFINE p == [after |-> sequence, since |-> Len(log), mine |-> TRUE]
  <2>1. known /\ polls' = polls \union {p} /\ UNCHANGED read
    BY <1>3 DEF Poll
  <2>2. Len(log) \in Nat /\ Len(log) \in Rows /\ sequence \in Rows /\ sequence \in 0 .. Len(log)
    BY LogFacts, Parts DEF TypeInv, LogInv, Placed
  <2>3. p \in [after : Rows, since : Rows, mine : BOOLEAN]
    BY <2>2
  <2>4. FloorOK' /\ ReadOK' /\ PollsOK' /\ FlagsOK' /\ sequence' \in Rows
        /\ troubles' \in 0 .. MaxTroubles
    <3> HIDE DEF p
    <3> QED BY <1>1, <2>1, <2>3, Parts
            DEF TypeInv, FloorOK, ReadOK, PollsOK, FlagsOK, serverVars, streamVars, historyVars
  <2>5. p.after = sequence /\ p.since = Len(log) /\ p.mine = TRUE
    OBVIOUS
  <2>6. Placed'
    <3> HIDE DEF p
    <3> QED BY <1>1, <2>1, <2>2, <2>5 DEF TypeInv, Placed, serverVars, streamVars
  <2> QED BY <1>1, <2>4, <2>6, QuietTyped
<1> QED BY <1>2, <1>3

(* The floor a page folded makes: one that is further on. *)
Fresh(rows) == {i \in rows : i > floor.lastSequence}

LEMMA FoldFloor ==
  ASSUME TypeInv, floor # NoFloor, NEW rows \in SUBSET (1 .. Len(log)), Fresh(rows) # {},
         floor' = [lastSequence |-> LastOf(Fresh(rows)),
                   details |-> [t \in Tables |-> Folded(rows, t)]]
  PROVE  /\ floor' \in FloorType /\ floor' # NoFloor /\ floor' # floor
         /\ floor'.lastSequence \in rows /\ floor'.lastSequence > floor.lastSequence
         /\ \A i \in rows : i <= floor'.lastSequence
         /\ floor'.lastSequence = LastOf(rows)
         /\ \A t \in Tables : floor'.details[t] = Folded(rows, t)
<1> DEFINE fresh == Fresh(rows)
           first == floor.lastSequence
           last  == LastOf(fresh)
<1>1. Len(log) \in Nat /\ Len(log) <= MaxRows /\ LogInv
  BY LogFacts DEF TypeInv, LogInv
<1>2. floor \in FloorType /\ first \in Nat
  BY <1>1, Parts DEF TypeInv, FloorOK, Placed
<1>3. rows \in SUBSET Nat /\ \A i \in rows : 0 < i /\ i <= Len(log)
  BY <1>1
<1>4. fresh \in SUBSET rows /\ \A i \in rows : i \in fresh <=> i > first
  BY DEF Fresh
<1>5. \A t \in Tables : Folded(rows, t) \in Detail
  BY <1>1, <1>2, FoldedType
<1>6. floor'.lastSequence = last /\ \A t \in Tables : floor'.details[t] = Folded(rows, t)
  OBVIOUS
<1> HIDE DEF fresh, first
<1>7. last \in fresh /\ \A i \in fresh : i <= last
  BY <1>1, <1>3, <1>4, LastOfSome DEF fresh
<1> HIDE DEF last
<1>8. last \in rows /\ last > first /\ last \in Nat
  BY <1>3, <1>4, <1>7
<1>9. \A i \in rows : i <= last
  <2> SUFFICES ASSUME NEW i \in rows PROVE i <= last
    OBVIOUS
  <2>1. CASE i > first
    BY <1>4, <1>7, <2>1
  <2>2. CASE ~(i > first)
    BY <1>2, <1>3, <1>8, <2>2
  <2> QED BY <2>1, <2>2
<1>10. LastOf(rows) = last
  <2>1. LastOf(rows) \in rows /\ \A i \in rows : i <= LastOf(rows)
    BY <1>1, <1>3, <1>8, LastOfSome
  <2>2. LastOf(rows) \in Nat
    BY <1>3, <2>1
  <2> QED BY <1>8, <1>9, <2>1, <2>2
<1>11. floor' \in FloorType
  <2>1. last \in Rows
    BY <1>1, <1>3, <1>8, Sizes
  <2> QED BY <1>5, <2>1 DEF FloorType, last, fresh
<1>12. floor' # floor
  BY <1>6, <1>8, <1>2 DEF first
<1>13. floor' # NoFloor
  BY <1>11, FloorIsSome
<1> QED BY <1>6, <1>8, <1>9, <1>10, <1>11, <1>12, <1>13 DEF first

(* What a page does, in its three cases; in all of them it is of a floor.   *)
PageSays(p, n) ==
   sequence' = IF ~p.mine THEN sequence
               ELSE AtLeast(IF floor' # floor THEN floor'.lastSequence ELSE sequence,
                            PageEnd(p.after, n))

LEMMA PageIsOne ==
  ASSUME TypeInv, NEW p \in polls, Page(p)
  PROVE  /\ floor # NoFloor /\ p.after \in 0 .. Len(log) /\ p.after \in Nat /\ p.mine \in BOOLEAN
         /\ polls' = polls \ {p} /\ UNCHANGED <<serverVars, active, known, unavailable, troubles>>
         /\ \E n \in 0 .. Len(log) :
               /\ PageRows(p.after, n) \in SUBSET (1 .. Len(log))
               /\ onItems(p, PageRows(p.after, n)) /\ PageSays(p, n)
<1>1. floor # NoFloor /\ p.after \in 0 .. Len(log) /\ p.since \in 0 .. Len(log)
      /\ Len(log) \in Nat /\ p.mine \in BOOLEAN
  BY LogFacts, Parts DEF TypeInv, Placed, LogInv, PollsOK
<1>2. PICK n \in p.since .. Len(log) : onItems(p, PageRows(p.after, n)) /\ PageSays(p, n)
  BY DEF Page, PageSays
<1>3. n \in 0 .. Len(log)
  BY <1>1
<1>4. p.after \in Nat /\ LogType
  BY <1>1 DEF TypeInv, LogInv
<1>5. PageRows(p.after, n) \in SUBSET (1 .. Len(log))
  BY <1>3, <1>4, PageIs
<1> QED BY <1>1, <1>2, <1>3, <1>4, <1>5 DEF Page

LEMMA PageTyped == ASSUME TypeInv, NEW p \in polls, Page(p) PROVE TypeInv'
<1>1. /\ floor # NoFloor /\ p.after \in 0 .. Len(log) /\ p.after \in Nat
      /\ polls' = polls \ {p} /\ UNCHANGED <<serverVars, active, known, unavailable, troubles>>
  BY PageIsOne
<1>2. PICK n \in 0 .. Len(log) : /\ PageRows(p.after, n) \in SUBSET (1 .. Len(log))
                                 /\ onItems(p, PageRows(p.after, n)) /\ PageSays(p, n)
  BY PageIsOne
<1> DEFINE rows == PageRows(p.after, n)
<1>3. Len(log) \in Nat /\ Len(log) \in Rows /\ Len(log) <= MaxRows /\ n \in Nat
  BY LogFacts DEF TypeInv, LogInv
<1>4. PageEnd(p.after, n) \in 0 .. n
  BY <1>1, PageIs DEF TypeInv, LogInv
<1>5. /\ FloorOK' /\ floor' # NoFloor /\ floor'.lastSequence \in 0 .. Len(log)
      /\ read' = read \/ read' = {Len(log)}
      /\ told' \in BOOLEAN /\ skipped' \in BOOLEAN /\ missed' \in BOOLEAN
  <2>1. told \in BOOLEAN /\ skipped \in BOOLEAN /\ missed \in BOOLEAN
    BY Parts DEF TypeInv, FlagsOK
  <2>2. CASE UNCHANGED <<floor, told, historyVars>> /\ (read' = read \/ read' = {Len(log)})
    BY <1>1, <2>1, <2>2, Parts DEF TypeInv, FloorOK, Placed, historyVars
  <2>3. CASE /\ Fresh(rows) # {}
             /\ floor' = [lastSequence |-> LastOf(Fresh(rows)),
                          details |-> [t \in Tables |-> Folded(rows, t)]]
             /\ told' = FALSE
             /\ skipped' = (skipped \/ OwnRows(floor.lastSequence, p.after) # {})
             /\ UNCHANGED <<read, missed>>
    <3>1. floor' \in FloorType /\ floor' # NoFloor /\ floor'.lastSequence \in rows
      BY <1>1, <1>2, <2>3, FoldFloor
    <3>2. floor'.lastSequence \in 0 .. Len(log)
      BY <1>2, <1>3, <3>1
    <3>3. skipped' \in BOOLEAN
      BY <2>1, <2>3, Zenon
    <3> QED BY <2>1, <2>3, <3>1, <3>2, <3>3 DEF FloorOK
  <2>4. onItems(p, rows)
    BY <1>2
  <2> HIDE DEF rows
  <2> QED BY <2>2, <2>3, <2>4, AskedAgain DEF onItems, Fresh, historyVars
<1>6. sequence' \in 0 .. Len(log)
  <2>1. sequence \in 0 .. Len(log)
    BY DEF TypeInv, Placed
  <2>2. PageEnd(p.after, n) \in 0 .. Len(log)
    BY <1>3, <1>4
  <2> QED BY <1>2, <1>3, <1>5, <2>1, <2>2 DEF PageSays, AtLeast
<1>7. ReadOK'
  BY <1>3, <1>5, Parts DEF TypeInv, ReadOK
<1>8. PollsOK' /\ FlagsOK' /\ troubles' \in 0 .. MaxTroubles
  BY <1>1, <1>5, Parts DEF TypeInv, PollsOK, FlagsOK, serverVars
<1>9. sequence' \in Rows
  BY <1>3, <1>6, Sizes
<1>10. Placed'
  BY <1>1, <1>3, <1>5, <1>6 DEF TypeInv, Placed, serverVars
<1> QED BY <1>1, <1>5, <1>7, <1>8, <1>9, <1>10, QuietTyped

LEMMA PageFailsTyped == ASSUME TypeInv, NEW p \in polls, PageFails(p) PROVE TypeInv'
<1>1. UNCHANGED <<serverVars, floor, read, told, active, streamVars, historyVars>>
      /\ polls' = polls \ {p} /\ troubles' \in 0 .. MaxTroubles
  BY Parts, Troubled DEF TypeInv, PageFails
<1>2. FloorOK' /\ ReadOK' /\ PollsOK' /\ FlagsOK' /\ sequence' \in Rows
  BY <1>1, Parts
     DEF TypeInv, FloorOK, ReadOK, PollsOK, FlagsOK, serverVars, streamVars, historyVars
<1>3. Placed'
  BY <1>1 DEF TypeInv, Placed, serverVars, streamVars
<1> QED BY <1>1, <1>2, <1>3, QuietTyped

LEMMA NotWiredTyped == ASSUME TypeInv, NEW p \in polls, NotWired(p) PROVE TypeInv'
<1>1. UNCHANGED <<serverVars, floor, told, active, sequence, known, historyVars, troubles>>
      /\ polls' = polls \ {p} /\ unavailable' = (unavailable \/ p.mine)
      /\ (read' = read \/ read' = {Len(log)})
  BY AskedAgain DEF NotWired, onResync
<1>2. Len(log) \in Nat /\ Len(log) \in Rows
  BY LogFacts DEF TypeInv, LogInv
<1>3. unavailable' \in BOOLEAN
  BY <1>1, Zenon
<1>4. FloorOK' /\ ReadOK' /\ PollsOK' /\ FlagsOK' /\ sequence' \in Rows
      /\ troubles' \in 0 .. MaxTroubles
  BY <1>1, <1>2, <1>3, Parts
     DEF TypeInv, FloorOK, ReadOK, PollsOK, FlagsOK, serverVars, historyVars
<1>5. Placed'
  BY <1>1, <1>2 DEF TypeInv, Placed, serverVars
<1> QED BY <1>1, <1>4, <1>5, QuietTyped

(* A page on its way when the tablet is locked is asked by nobody any more. *)
LEMMA LockedPolls ==
  ASSUME PollsOK, Lock
  PROVE  /\ polls' \subseteq [after : Rows, since : Rows, mine : BOOLEAN]
         /\ \A q \in polls' : q.mine = FALSE
                              /\ \E p \in polls : q.after = p.after /\ q.since = p.since
         /\ polls = {} => polls' = {}
<1>1. polls' = {[p EXCEPT !.mine = FALSE] : p \in polls}
  BY DEF Lock
<1>2. \A p \in polls :
         LET q == [p EXCEPT !.mine = FALSE]
         IN  /\ q \in [after : Rows, since : Rows, mine : BOOLEAN]
             /\ q.mine = FALSE /\ q.after = p.after /\ q.since = p.since
  BY DEF PollsOK
<1> QED BY <1>1, <1>2

LEMMA LockTyped == ASSUME TypeInv, Lock PROVE TypeInv'
<1>1. UNCHANGED <<serverVars, floor, read, told, streamVars, historyVars>>
      /\ active' = FALSE /\ troubles' \in 0 .. MaxTroubles
  BY Parts, Troubled DEF TypeInv, Lock
<1>2. /\ polls' \subseteq [after : Rows, since : Rows, mine : BOOLEAN]
      /\ \A q \in polls' : q.mine = FALSE
                           /\ \E p \in polls : q.after = p.after /\ q.since = p.since
      /\ polls = {} => polls' = {}
  BY LockedPolls, Parts DEF TypeInv
<1>3. FloorOK' /\ ReadOK' /\ PollsOK' /\ FlagsOK' /\ sequence' \in Rows
  BY <1>1, <1>2, Parts
     DEF TypeInv, FloorOK, ReadOK, PollsOK, FlagsOK, serverVars, streamVars, historyVars
<1>4. Placed'
  BY <1>1, <1>2 DEF TypeInv, Placed, serverVars, streamVars
<1> QED BY <1>1, <1>3, <1>4, QuietTyped

LEMMA UnlockTyped == ASSUME TypeInv, Unlock PROVE TypeInv'
<1>1. UNCHANGED <<serverVars, floor, polls, historyVars, troubles>>
      /\ ~active /\ active' = TRUE /\ sequence' = 0 /\ known' = FALSE /\ unavailable' = FALSE
      /\ (read' = read \/ read' = {Len(log)}) /\ told' \in {told, TRUE}
  BY DEF Unlock
<1>2. Len(log) \in Nat /\ Len(log) \in Rows
  BY LogFacts DEF TypeInv, LogInv
<1>3. told' \in BOOLEAN /\ (~told' => ~told)
  <2>1. told \in BOOLEAN
    BY Parts DEF TypeInv, FlagsOK
  <2>2. told' = told \/ told' = TRUE
    BY <1>1
  <2> QED BY <2>1, <2>2, Zenon
<1>4. FloorOK' /\ ReadOK' /\ PollsOK' /\ FlagsOK' /\ sequence' \in Rows
      /\ troubles' \in 0 .. MaxTroubles
  BY <1>1, <1>2, <1>3, Sizes, Parts
     DEF TypeInv, FloorOK, ReadOK, PollsOK, FlagsOK, serverVars, historyVars
<1>5. Placed'
  BY <1>1, <1>2, <1>3 DEF TypeInv, Placed, serverVars
<1> QED BY <1>1, <1>4, <1>5, QuietTyped

LEMMA StepTyped == TypeInv /\ [Next]_vars => TypeInv'
<1> SUFFICES ASSUME TypeInv, [Next]_vars PROVE TypeInv'
  OBVIOUS
<1>1. CASE UNCHANGED vars
  BY <1>1, AsksTyped DEF vars, serverVars, streamVars, historyVars
<1>2. ASSUME NEW t \in Tables, Change(t) PROVE TypeInv'
  BY <1>2, ChangeTyped
<1>3. CASE Reads
  <2>1. ASSUME NEW c \in BOOLEAN, invalidateQueries(c),
               UNCHANGED <<serverVars, floor, told, active, streamVars, polls, historyVars, troubles>>
        PROVE  TypeInv'
    BY <2>1, AskedAgain, AsksTyped
  <2>2. CASE SafetyRead
    BY <2>1, <2>2 DEF SafetyRead
  <2>3. CASE CommandRead
    BY <2>1, <2>3 DEF CommandRead
  <2> QED BY <1>3, <2>2, <2>3, ReadLandsTyped, ReadFailsTyped, setSequenceTyped DEF Reads
<1>4. ASSUME NEW p \in polls, Page(p) \/ NotWired(p) \/ PageFails(p) PROVE TypeInv'
  BY <1>4, PageTyped, NotWiredTyped, PageFailsTyped
<1> QED BY <1>1, <1>2, <1>3, <1>4, PollTyped, LockTyped, UnlockTyped DEF Next, Answer

(* The floor, the reads and the pages are what they are said to be.         *)
THEOREM TypeCorrect == Spec => []TypeOK
<1>1. TypeInv => TypeOK
  BY DEF TypeInv
<1> QED BY InitTyped, StepTyped, <1>1, PTL DEF Spec

-----------------------------------------------------------------------------
(* Faith: the floor is drawn as the room was at its own sequence.           *)
Drawn == \A t \in Tables : Shows(floor.details[t], RoomAt(floor.lastSequence)[t])

LEMMA DrawnIs == FaithfulUnlessSkipped <=> (skipped \/ floor = NoFloor \/ Drawn)
BY AgreesShows DEF FaithfulUnlessSkipped, FloorFaithful, Drawn

LEMMA DrawnNext ==
  ASSUME TypeInv, UNCHANGED log, floor'.lastSequence \in 0 .. Len(log),
         \A t \in Tables : Shows(floor'.details[t], RoomAt(floor'.lastSequence)[t])
  PROVE  FaithfulUnlessSkipped'
<1>1. RoomAt(floor.lastSequence)' = RoomAt(floor'.lastSequence)
  BY DEF RoomAt
<1>2. Drawn'
  BY <1>1 DEF Drawn, Shows
<1>3. FaithfulUnlessSkipped' <=> (skipped' \/ floor' = NoFloor \/ Drawn')
  BY DEF FaithfulUnlessSkipped, FloorFaithful, Drawn, Agrees, FloorAt, Shows
<1> QED BY <1>2, <1>3

LEMMA SameFaith ==
  ASSUME TypeInv, FaithfulUnlessSkipped, UNCHANGED <<log, floor, skipped>>
  PROVE  FaithfulUnlessSkipped'
<1>1. skipped \/ floor = NoFloor \/ Drawn
  BY DrawnIs
<1>2. Drawn => Drawn'
  BY DEF Drawn, RoomAt
<1>3. FaithfulUnlessSkipped' <=> (skipped' \/ floor' = NoFloor \/ Drawn')
  BY DEF FaithfulUnlessSkipped, FloorFaithful, Drawn, Agrees, FloorAt, Shows
<1> QED BY <1>1, <1>2, <1>3

LEMMA ChangeFaith ==
  ASSUME TypeInv, FaithfulUnlessSkipped, NEW t \in Tables, Change(t)
  PROVE  FaithfulUnlessSkipped'
<1>1. UNCHANGED <<floor, skipped>>
  BY DEF Change, Write, historyVars
<1>2. PICK first \in 0 .. Len(log) : first = floor.lastSequence
  BY DEF TypeInv, Placed
<1>3. RoomAt(first)' = RoomAt(first)
  BY ChangeGrows DEF TypeInv, Grown
<1>4. \A u \in Tables : Agrees(u)' <=> Shows(floor.details[u], RoomAt(first)'[u])
  BY <1>1, <1>2 DEF Agrees, FloorAt, Shows, RoomAt
<1>5. \A u \in Tables : Agrees(u) <=> Shows(floor.details[u], RoomAt(first)[u])
  BY <1>2, AgreesShows
<1>6. \A u \in Tables : Agrees(u)' <=> Agrees(u)
  BY <1>3, <1>4, <1>5
<1> QED BY <1>1, <1>6 DEF FaithfulUnlessSkipped, FloorFaithful

LEMMA ReadLandsFaith ==
  ASSUME TypeInv, FaithfulUnlessSkipped, ReadLands PROVE FaithfulUnlessSkipped'
<1>1. PICK n \in read : \E m \in n .. Len(log) : floor' = FloorAt(m)
  BY DEF ReadLands
<1>2. PICK m \in n .. Len(log) : floor' = FloorAt(m)
  BY <1>1
<1>3. m \in 0 .. Len(log) /\ Len(log) \in Nat /\ LogInv
  BY LogFacts DEF TypeInv, Placed, LogInv
<1>4. floor'.lastSequence = EndAt(m) /\ EndAt(m) \in 0 .. Len(log)
  <2>1. FloorAt(m).lastSequence = EndAt(m) /\ EndAt(m) \in 0 .. m
    BY <1>3, FloorAtIs
  <2> QED BY <1>2, <1>3, <2>1
<1>5. \A t \in Tables : Shows(floor'.details[t], RoomAt(EndAt(m))[t])
  BY <1>2, <1>3, ReadShows, NothingAfterEnd
<1>6. UNCHANGED log
  BY DEF ReadLands, serverVars
<1> QED BY <1>4, <1>5, <1>6, DrawnNext

(* A page folded in: the rows up to its last are all in it, or were in the  *)
(* floor before, unless rows were passed over.                              *)
LEMMA PageFolds ==
  ASSUME TypeInv, FaithfulUnlessSkipped, NEW p \in polls, floor # NoFloor,
         p.after \in Nat, NEW n \in 0 .. Len(log), NEW rows \in SUBSET (1 .. Len(log)),
         rows = PageRows(p.after, n), Fresh(rows) # {}, \A i \in Fresh(rows) : ~MustRead(i),
         ~skipped, OwnRows(floor.lastSequence, p.after) = {}, UNCHANGED log,
         floor' = [lastSequence |-> LastOf(Fresh(rows)),
                   details |-> [t \in Tables |-> Folded(rows, t)]]
  PROVE  FaithfulUnlessSkipped'
<1> DEFINE first == floor.lastSequence
           last  == floor'.lastSequence
<1>1. LogInv /\ LogType /\ Len(log) \in Nat /\ n \in Nat
  BY LogFacts DEF TypeInv, LogInv
<1>2. /\ last \in rows /\ last > first /\ \A i \in rows : i <= last
      /\ \A t \in Tables : floor'.details[t] = Folded(rows, t)
  BY FoldFloor
<1>3. floor \in FloorType /\ Drawn /\ first \in Nat /\ first \in 0 .. Len(log)
  BY <1>1, DrawnIs, Parts DEF TypeInv, FloorOK, Placed
<1>4. last \in 1 .. Len(log) /\ last \in 0 .. Len(log) /\ first <= last /\ last \in Nat
  <2> HIDE DEF last, first
  <2> QED BY <1>1, <1>2, <1>3
<1>5. \A i \in rows : i <= n /\ log[i].kind # "elsewhere"
  BY <1>1, PageIs, OwnRowsAre
<1>6. ASSUME NEW i \in 1 .. Len(log), first < i, i <= last, log[i].kind # "elsewhere"
      PROVE  i \in rows
  <2>1. i \in Nat
    BY <1>1
  <2>2. p.after < i
    <3>1. i \notin OwnRows(first, p.after)
      OBVIOUS
    <3>2. ~(i <= p.after)
      BY <1>1, <1>3, <1>6, <3>1, OwnRowsAre
    <3> QED BY <2>1, <3>2
  <2>3. i <= n
    <3>1. last <= n
      BY <1>2, <1>5
    <3> HIDE DEF last
    <3> QED BY <1>1, <1>4, <1>6, <2>1, <3>1
  <2>4. i \in OwnRows(p.after, n)
    BY <1>1, <1>6, <2>2, <2>3, OwnRowsAre
  <2>5. CASE i = last
    BY <1>2, <2>5
  <2>6. CASE i < last
    <3>1. last \in PageRows(p.after, n)
      BY <1>2
    <3> HIDE DEF last
    <3> QED BY <1>1, <2>4, <2>6, <3>1, PageIsPrefix
  <2> HIDE DEF last
  <2> QED BY <1>4, <1>6, <2>1, <2>5, <2>6
<1>7. \A i \in rows : first < i => ~MustRead(i)
  <2> SUFFICES ASSUME NEW i \in rows, first < i PROVE ~MustRead(i)
    OBVIOUS
  <2>1. i > first
    BY <1>1, <1>3
  <2> QED BY <2>1 DEF Fresh
<1>8. \A t \in Tables : Shows(Folded(rows, t), RoomAt(last)[t])
  <2> SUFFICES ASSUME NEW t \in Tables PROVE Shows(Folded(rows, t), RoomAt(last)[t])
    OBVIOUS
  <2>1. Shows(floor.details[t], RoomAt(floor.lastSequence)[t])
    BY <1>3 DEF Drawn
  <2>2. \A i \in rows : i <= last /\ log[i].kind # "elsewhere"
    BY <1>2, <1>5
  <2>3. \A i \in 1 .. Len(log) :
           floor.lastSequence < i /\ i <= last /\ log[i].kind # "elsewhere" => i \in rows
    BY <1>6
  <2>4. floor.lastSequence <= last
    BY <1>4
  <2> HIDE DEF last
  <2> QED BY <1>1, <1>3, <1>4, <1>7, <2>1, <2>2, <2>3, <2>4, FoldShows
<1>9. \A t \in Tables : Shows(floor'.details[t], RoomAt(floor'.lastSequence)[t])
  BY <1>2, <1>8
<1> QED BY <1>4, <1>9, DrawnNext

LEMMA PageFaith ==
  ASSUME TypeInv, FaithfulUnlessSkipped, NEW p \in polls, Page(p) PROVE FaithfulUnlessSkipped'
<1>1. floor # NoFloor /\ p.after \in Nat /\ UNCHANGED log
  BY PageIsOne DEF serverVars
<1>2. PICK n \in 0 .. Len(log) : /\ PageRows(p.after, n) \in SUBSET (1 .. Len(log))
                                 /\ onItems(p, PageRows(p.after, n))
  BY PageIsOne
<1> DEFINE rows == PageRows(p.after, n)
<1>3. CASE UNCHANGED <<floor, skipped>>
  BY <1>1, <1>3, SameFaith
<1>4. CASE /\ Fresh(rows) # {} /\ \A i \in Fresh(rows) : ~MustRead(i)
           /\ floor' = [lastSequence |-> LastOf(Fresh(rows)),
                        details |-> [t \in Tables |-> Folded(rows, t)]]
           /\ skipped' = (skipped \/ OwnRows(floor.lastSequence, p.after) # {})
  <2>1. CASE skipped'
    BY <2>1 DEF FaithfulUnlessSkipped
  <2>2. CASE ~skipped'
    <3>1. ~skipped /\ OwnRows(floor.lastSequence, p.after) = {}
      BY <1>4, <2>2
    <3> QED BY <1>1, <1>2, <1>4, <3>1, PageFolds
  <2> QED BY <2>1, <2>2
<1>5. onItems(p, rows)
  BY <1>2
<1> HIDE DEF rows
<1> QED BY <1>3, <1>4, <1>5 DEF onItems, Fresh, historyVars

LEMMA StepFaithful == TypeInv /\ FaithfulUnlessSkipped /\ [Next]_vars => FaithfulUnlessSkipped'
<1> SUFFICES ASSUME TypeInv, FaithfulUnlessSkipped, [Next]_vars PROVE FaithfulUnlessSkipped'
  OBVIOUS
<1>1. CASE UNCHANGED vars
  BY <1>1, SameFaith DEF vars
<1>2. ASSUME NEW t \in Tables, Change(t) PROVE FaithfulUnlessSkipped'
  BY <1>2, ChangeFaith
<1>3. CASE Reads
  <2>1. ReadFails \/ setSequence \/ SafetyRead \/ CommandRead => UNCHANGED <<log, floor, skipped>>
    BY DEF ReadFails, setSequence, SafetyRead, CommandRead, serverVars, historyVars
  <2> QED BY <1>3, <2>1, ReadLandsFaith, SameFaith DEF Reads
<1>4. ASSUME NEW p \in polls, Page(p) \/ NotWired(p) \/ PageFails(p) PROVE FaithfulUnlessSkipped'
  <2>1. NotWired(p) \/ PageFails(p) => UNCHANGED <<log, floor, skipped>>
    BY DEF NotWired, PageFails, serverVars, historyVars
  <2> QED BY <1>4, <2>1, PageFaith, SameFaith
<1>5. CASE Poll \/ Lock \/ Unlock
  <2>1. UNCHANGED <<log, floor, skipped>>
    BY <1>5 DEF Poll, Lock, Unlock, serverVars, historyVars
  <2> QED BY <2>1, SameFaith
<1> QED BY <1>1, <1>2, <1>3, <1>4, <1>5 DEF Next, Answer

(* Folding the stream is as good as reading the floor: whatever the server  *)
(* writes, however its rows are cut into pages, however pages and reads     *)
(* overlap, and whichever stream asked for them, every table is drawn as    *)
(* the room was at the floor's own sequence, unless a page was folded over  *)
(* rows the floor had not seen (applyFloorChanges).                         *)
THEOREM FoldingIsFaithful == Spec => []FaithfulUnlessSkipped
<1>1. Init => FaithfulUnlessSkipped
  BY DEF Init, FaithfulUnlessSkipped, FloorFaithful
<1> QED BY InitTyped, StepTyped, StepFaithful, <1>1, PTL DEF Spec

-----------------------------------------------------------------------------
(* The debt: of every row the stream has read to, or has a page asked from, *)
(* a row the floor lacks is owed a read; and the reads that are out were    *)
(* asked no earlier.                                                        *)
Reached == {sequence} \union {p.after : p \in polls}

Owes(x) ==
   \E i \in 1 .. Len(log) : floor.lastSequence < i /\ i <= x /\ log[i].kind # "elsewhere"

Paid(x) == Owes(x) => (missed \/ read # {}) /\ \A n \in read : x <= n

DebtInv ==
   /\ skipped => missed \/ read # {}
   /\ \A x \in Reached : Paid(x)

LEMMA OwesIs ==
  ASSUME TypeInv, NEW x \in Nat PROVE Owes(x) <=> OwnRows(floor.lastSequence, x) # {}
<1>1. PICK first \in Nat : first = floor.lastSequence
  BY LogFacts DEF TypeInv, Placed, LogInv
<1>2. LogType
  BY DEF TypeInv, LogInv
<1> QED BY <1>1, <1>2, OwnRowsAre DEF Owes, OwnRows

LEMMA ReachedIs ==
  ASSUME TypeInv
  PROVE  /\ Len(log) \in Nat /\ floor.lastSequence \in Nat /\ read \in SUBSET Nat
         /\ sequence \in Reached /\ \A p \in polls : p.after \in Reached
         /\ \A x \in Reached : x \in 0 .. Len(log) /\ x \in Nat
<1>1. Len(log) \in Nat
  BY LogFacts DEF TypeInv, LogInv
<1> QED BY <1>1 DEF TypeInv, Placed, Reached

(* With no new row and the same floor a row reached before stays paid for   *)
(* if the reads that are out are those of before, or one asked now.         *)
LEMMA StillPaid ==
  ASSUME TypeInv, NEW x \in 0 .. Len(log), Paid(x), UNCHANGED <<log, floor, missed>>,
         read' = read \/ read' = {Len(log)}
  PROVE  Paid(x)'
<1>1. Owes(x)' <=> Owes(x)
  BY DEF Owes
<1>2. x <= Len(log)
  BY ReachedIs
<1> QED BY <1>1, <1>2 DEF Paid

LEMMA AsksDebt ==
  ASSUME TypeInv, DebtInv, UNCHANGED <<log, floor, skipped, missed>>,
         read' = read \/ read' = {Len(log)}, \A x \in Reached' : x \in Reached \/ Paid(x)'
  PROVE  DebtInv'
<1>1. \A x \in Reached : Paid(x)'
  BY ReachedIs, StillPaid DEF DebtInv
<1> QED BY <1>1 DEF DebtInv

LEMMA InitDebt == ASSUME Init PROVE DebtInv
<1>1. log = <<>> /\ Len(<<>>) = 0 /\ 1 .. 0 = {}
  BY DEF Init
<1>2. \A x : ~Owes(x)
  BY <1>1 DEF Owes
<1> QED BY <1>2 DEF Init, DebtInv, Paid

LEMMA ChangeDebt == ASSUME TypeInv, DebtInv, NEW t \in Tables, Change(t) PROVE DebtInv'
<1>1. UNCHANGED <<floor, read, polls, sequence, skipped, missed>>
  BY DEF Change, Write, streamVars, historyVars
<1>2. Grown /\ Len(log') = Len(log) + 1
  BY ChangeGrows DEF TypeInv
<1>3. ASSUME NEW x \in 0 .. Len(log), Paid(x) PROVE Paid(x)'
  <2>1. ASSUME Owes(x)' PROVE Owes(x)
    <3>1. PICK i \in 1 .. Len(log') : floor.lastSequence < i /\ i <= x /\ log'[i].kind # "elsewhere"
      BY <1>1, <2>1 DEF Owes
    <3>2. i \in 1 .. Len(log)
      BY <1>2, <3>1, ReachedIs
    <3> QED BY <1>2, <3>1, <3>2 DEF Grown, Owes
  <2> QED BY <1>1, <1>3, <2>1 DEF Paid
<1>4. Reached' = Reached
  BY <1>1 DEF Reached
<1> QED BY <1>1, <1>3, <1>4, ReachedIs DEF DebtInv

LEMMA ReadLandsDebt == ASSUME TypeInv, DebtInv, ReadLands PROVE DebtInv'
<1>1. PICK n \in read : \E m \in n .. Len(log) : floor' = FloorAt(m)
  BY DEF ReadLands
<1>2. PICK m \in n .. Len(log) : floor' = FloorAt(m)
  BY <1>1
<1>3. m \in 0 .. Len(log) /\ Len(log) \in Nat /\ n \in Nat /\ n <= m /\ m \in Nat
  BY LogFacts DEF TypeInv, Placed, LogInv
<1>4. /\ UNCHANGED <<log, sequence, polls>> /\ read' = {} /\ skipped' = FALSE
      /\ missed' = (floor # NoFloor /\ floor'.lastSequence < floor.lastSequence)
  BY DEF ReadLands, serverVars, streamVars
<1>5. floor'.lastSequence = EndAt(m) /\ EndAt(m) \in Nat
      /\ \A i \in 1 .. Len(log) : i <= m /\ log[i].kind # "elsewhere" => i <= EndAt(m)
  <2>1. LogType
    BY DEF TypeInv, LogInv
  <2>2. floor'.lastSequence = EndAt(m) /\ EndAt(m) \in 0 .. m
    BY <1>2, <1>3, FloorAtIs DEF TypeInv
  <2>3. \A i \in OwnRows(0, m) : i <= EndAt(m)
    BY <1>3, <2>1, EndIs
  <2>4. \A i \in 1 .. Len(log) : i <= m /\ log[i].kind # "elsewhere" => i \in OwnRows(0, m)
    BY <1>3, <2>1, OwnRowsAre
  <2> QED BY <1>3, <2>2, <2>3, <2>4
<1>6. ASSUME NEW x \in Reached PROVE Paid(x)'
  <2> SUFFICES ASSUME Owes(x)' PROVE missed'
    BY <1>4, Zenon DEF Paid
  <2>1. PICK i \in 1 .. Len(log) : EndAt(m) < i /\ i <= x /\ log[i].kind # "elsewhere"
    BY <1>4, <1>5 DEF Owes
  <2>2. i \in Nat /\ i >= 1 /\ x \in Nat /\ floor.lastSequence \in Nat
    BY <1>3, ReachedIs
  <2>3. ~(i <= m)
    BY <1>3, <1>5, <2>1, <2>2
  <2>4. ~Owes(x)
    <3>1. ~(x <= n)
      BY <1>3, <2>1, <2>2, <2>3
    <3> QED BY <3>1 DEF DebtInv, Paid
  <2>5. i <= floor.lastSequence
    BY <2>1, <2>2, <2>4 DEF Owes
  <2>6. floor # NoFloor
    BY <2>2, <2>5 DEF NoFloor
  <2>7. floor'.lastSequence < floor.lastSequence
    BY <1>5, <2>1, <2>2, <2>5
  <2> QED BY <1>4, <2>6, <2>7, Zenon
<1>7. Reached' = Reached
  BY <1>4 DEF Reached
<1> QED BY <1>4, <1>6, <1>7 DEF DebtInv

LEMMA ReadFailsDebt == ASSUME TypeInv, DebtInv, ReadFails PROVE DebtInv'
<1>1. read' = {} /\ missed' = TRUE
  BY DEF ReadFails
<1> QED BY <1>1 DEF DebtInv, Paid

LEMMA setSequenceDebt == ASSUME TypeInv, DebtInv, setSequence PROVE DebtInv'
<1>1. UNCHANGED <<log, floor, read, polls, skipped, missed>>
      /\ sequence' \in {sequence, floor.lastSequence}
  BY DEF setSequence, serverVars, historyVars
<1>2. ~Owes(floor.lastSequence)'
  BY <1>1, ReachedIs DEF Owes
<1>3. \A x \in Reached' : x \in Reached \/ x = floor.lastSequence
  BY <1>1 DEF Reached
<1>4. \A x \in Reached' : x \in Reached \/ Paid(x)'
  <2> SUFFICES ASSUME NEW x \in Reached', x = floor.lastSequence PROVE Paid(x)'
    BY <1>3
  <2>1. ~Owes(x)'
    BY <1>1, ReachedIs DEF Owes
  <2> QED BY <2>1 DEF Paid
<1> QED BY <1>1, <1>4, AsksDebt

LEMMA PollDebt == ASSUME TypeInv, DebtInv, Poll PROVE DebtInv'
<1>1. UNCHANGED <<log, floor, sequence, skipped, missed>>
  BY DEF Poll, serverVars, streamVars, historyVars
<1>2. read' = read \/ read' = {Len(log)}
  BY AskedAgain DEF Poll, onResync
<1>3. Reached' \subseteq Reached
  <2>1. [after |-> sequence, since |-> Len(log), mine |-> TRUE].after = sequence
    OBVIOUS
  <2> QED BY <1>1, <2>1 DEF Poll, Reached
<1> QED BY <1>1, <1>2, <1>3, AsksDebt

LEMMA UnlockDebt == ASSUME TypeInv, DebtInv, Unlock PROVE DebtInv'
<1>1. UNCHANGED <<log, floor, polls, skipped, missed>> /\ sequence' = 0
      /\ (read' = read \/ read' = {Len(log)})
  BY DEF Unlock, serverVars, historyVars
<1>2. \A x \in Reached' : x \in Reached \/ x = 0
  BY <1>1 DEF Reached
<1>3. \A x \in Reached' : x \in Reached \/ Paid(x)'
  <2> SUFFICES ASSUME NEW x \in Reached', x = 0 PROVE Paid(x)'
    BY <1>2
  <2>1. ~Owes(x)'
    BY <1>1, ReachedIs DEF Owes
  <2> QED BY <2>1 DEF Paid
<1> QED BY <1>1, <1>3, AsksDebt

(* The steps that lose, or hand over, what was asked. *)
LEMMA LosesDebt ==
  ASSUME TypeInv, DebtInv, UNCHANGED <<log, floor, sequence, skipped, missed>>,
         read' = read \/ read' = {Len(log)},
         \A q \in polls' : \E p \in polls : q.after = p.after
  PROVE  DebtInv'
<1>1. Reached' \subseteq Reached
  BY DEF Reached
<1> QED BY <1>1, AsksDebt

(* A page answered: what it reaches is in the floor now, or was reached     *)
(* before, or the floor is read again.                                      *)
LEMMA PageDebt == ASSUME TypeInv, DebtInv, NEW p \in polls, Page(p) PROVE DebtInv'
<1>1. /\ floor # NoFloor /\ p.after \in 0 .. Len(log) /\ p.after \in Nat /\ p.mine \in BOOLEAN
      /\ polls' = polls \ {p} /\ UNCHANGED <<log, active>> /\ p.after \in Reached
  BY PageIsOne, ReachedIs DEF serverVars
<1>2. PICK n \in 0 .. Len(log) : /\ PageRows(p.after, n) \in SUBSET (1 .. Len(log))
                                 /\ onItems(p, PageRows(p.after, n)) /\ PageSays(p, n)
  BY PageIsOne
<1> DEFINE rows == PageRows(p.after, n)
<1>3. Len(log) \in Nat /\ LogType /\ floor.lastSequence \in Nat
  BY ReachedIs DEF TypeInv, LogInv
<1>0. PICK end \in 0 .. n : end = PageEnd(p.after, n)
  BY <1>1, <1>3, PageIs
<1>4. /\ end \in Nat /\ end <= Len(log)
      /\ rows # {} => end \in rows /\ end = LastOf(rows)
      /\ rows = {} => end <= p.after
  <2>1. (rows # {} => end \in rows /\ end = LastOf(rows)) /\ (rows = {} => end <= p.after)
    BY <1>0, <1>1, <1>3, PageIs
  <2> HIDE DEF rows
  <2>2. n \in Nat /\ n <= Len(log)
    BY <1>3
  <2> QED BY <1>3, <2>1, <2>2
<1>5. onItems(p, rows) /\ PageSays(p, n) /\ rows \in SUBSET (1 .. Len(log))
  BY <1>2
<1>6. sequence \in Reached /\ sequence \in Nat
  BY ReachedIs
<1>7. \A x \in Reached' : x \in Reached \/ (x = sequence' /\ p.mine)
  <2>1. ~p.mine => sequence' = sequence
    BY <1>5 DEF PageSays
  <2> QED BY <1>1, <2>1 DEF Reached
<1>8. CASE Fresh(rows) = {} /\ UNCHANGED <<floor, read, historyVars>>
  <2>1. p.mine => sequence' \in {sequence, end}
    BY <1>0, <1>5, <1>8 DEF PageSays, AtLeast
  <2>2. Paid(end)'
    <3>1. CASE rows = {}
      <4>1. Owes(end) => Owes(p.after)
        BY <1>1, <1>3, <1>4, <3>1 DEF Owes
      <4>2. Paid(p.after)
        BY <1>1 DEF DebtInv
      <4>3. Paid(end)
        <5>1. \A k \in read : k \in Nat
          BY ReachedIs
        <5>2. end <= p.after /\ end \in Nat
          BY <1>4, <3>1
        <5> QED BY <1>1, <4>1, <4>2, <5>1, <5>2 DEF Paid
      <4>4. Owes(end)' => Owes(end)
        BY <1>1, <1>8 DEF Owes
      <4> QED BY <1>8, <4>3, <4>4 DEF Paid, historyVars
    <3>2. CASE rows # {}
      <4>1. end \in rows /\ end \notin Fresh(rows)
        BY <1>4, <1>8, <3>2
      <4>2. end <= floor.lastSequence
        BY <1>3, <1>4, <4>1 DEF Fresh
      <4>3. ~Owes(end)'
        BY <1>1, <1>3, <1>4, <1>8, <4>2 DEF Owes
      <4> QED BY <4>3 DEF Paid
    <3> QED BY <3>1, <3>2
  <2>3. \A x \in Reached' : x \in Reached \/ Paid(x)'
    <3> SUFFICES ASSUME NEW x \in Reached', x = end PROVE Paid(x)'
      BY <1>6, <1>7, <2>1
    <3> QED BY <2>2
  <2> QED BY <1>1, <1>8, <2>3, AsksDebt DEF historyVars
<1>9. CASE invalidateQueries(TRUE) /\ UNCHANGED <<floor, historyVars>>
  <2>1. read' = read \/ read' = {Len(log)}
    BY <1>9, AskedAgain
  <2>2. p.mine => read' = {Len(log)}
    <3>1. p.mine => active
      BY DEF TypeInv, Placed
    <3> QED BY <1>1, <1>9, <3>1, AskedAgain
  <2>3. p.mine => sequence' <= Len(log)
    <3>1. sequence <= Len(log)
      BY <1>3, <1>6, ReachedIs
    <3>2. p.mine => sequence' \in {sequence, end}
      BY <1>0, <1>5, <1>9 DEF PageSays, AtLeast
    <3> QED BY <1>4, <3>1, <3>2
  <2>4. \A x \in Reached' : x \in Reached \/ Paid(x)'
    <3> SUFFICES ASSUME NEW x \in Reached', x = sequence', p.mine PROVE Paid(x)'
      BY <1>7
    <3>1. read' = {Len(log)} /\ x <= Len(log)
      BY <2>2, <2>3
    <3> QED BY <3>1 DEF Paid
  <2> QED BY <1>1, <1>9, <2>1, <2>4, AsksDebt DEF historyVars
<1>10. CASE /\ Fresh(rows) # {}
            /\ floor' = [lastSequence |-> LastOf(Fresh(rows)),
                         details |-> [t \in Tables |-> Folded(rows, t)]]
            /\ skipped' = (skipped \/ OwnRows(floor.lastSequence, p.after) # {})
            /\ UNCHANGED <<read, missed>>
  <2>1. /\ floor' # floor /\ floor'.lastSequence \in rows
        /\ floor'.lastSequence > floor.lastSequence /\ floor'.lastSequence = LastOf(rows)
    BY <1>1, <1>5, <1>10, FoldFloor
  <2>2. floor'.lastSequence = end /\ end > floor.lastSequence
    BY <1>4, <2>1
  <2>3. p.mine => sequence' = end
    BY <1>0, <1>4, <1>5, <2>1, <2>2 DEF PageSays, AtLeast
  <2>4. ASSUME NEW x \in Nat PROVE Owes(x)' => Owes(x)
    <3> QED BY <1>1, <1>3, <1>4, <2>2 DEF Owes
  <2>5. ~Owes(end)'
    <3>1. \A i \in 1 .. Len(log) : ~(end < i /\ i <= end)
      BY <1>3, <1>4
    <3> QED BY <1>1, <2>2, <3>1 DEF Owes
  <2>6. \A x \in Reached' : Paid(x)'
    <3> SUFFICES ASSUME NEW x \in Reached', Owes(x)' PROVE Paid(x)'
      BY DEF Paid
    <3>1. x # end
      <4> SUFFICES ASSUME x = end PROVE FALSE
        OBVIOUS
      <4>1. PICK i \in 1 .. Len(log) : floor'.lastSequence < i /\ i <= x
        BY <1>1 DEF Owes
      <4> QED BY <1>3, <1>4, <2>2, <4>1
    <3>2. x \in Reached
      BY <1>7, <2>3, <3>1
    <3>3. Paid(x) /\ Owes(x)
      BY <2>4, <3>2, ReachedIs DEF DebtInv
    <3> QED BY <1>10, <3>3 DEF Paid
  <2>7. skipped' => missed' \/ read' # {}
    <3>1. CASE skipped
      BY <1>10, <3>1 DEF DebtInv
    <3>2. CASE OwnRows(floor.lastSequence, p.after) # {}
      <4>1. Owes(p.after)
        BY <1>1, <3>2, OwesIs
      <4> QED BY <1>1, <1>10, <4>1 DEF DebtInv, Paid
    <3> QED BY <1>10, <3>1, <3>2
  <2> QED BY <2>6, <2>7 DEF DebtInv
<1> HIDE DEF rows
<1> QED BY <1>5, <1>8, <1>9, <1>10 DEF onItems, Fresh, historyVars

LEMMA StepDebt == TypeInv /\ DebtInv /\ [Next]_vars => DebtInv'
<1> SUFFICES ASSUME TypeInv, DebtInv, [Next]_vars PROVE DebtInv'
  OBVIOUS
<1>0. \A q \in polls : \E p \in polls : q.after = p.after
  OBVIOUS
<1>1. CASE UNCHANGED vars
  BY <1>0, <1>1, LosesDebt DEF vars
<1>2. ASSUME NEW t \in Tables, Change(t) PROVE DebtInv'
  BY <1>2, ChangeDebt
<1>3. CASE SafetyRead \/ CommandRead
  <2>1. UNCHANGED <<log, floor, sequence, polls, skipped, missed>>
    BY <1>3 DEF SafetyRead, CommandRead, serverVars, streamVars, historyVars
  <2>2. read' = read \/ read' = {Len(log)}
    BY <1>3, AskedAgain DEF SafetyRead, CommandRead
  <2> QED BY <1>0, <2>1, <2>2, LosesDebt
<1>4. CASE Reads
  BY <1>3, <1>4, ReadLandsDebt, ReadFailsDebt, setSequenceDebt DEF Reads
<1>5. ASSUME NEW p \in polls, NotWired(p) \/ PageFails(p) PROVE DebtInv'
  <2>1. UNCHANGED <<log, floor, sequence, skipped, missed>> /\ polls' = polls \ {p}
    BY <1>5 DEF NotWired, PageFails, serverVars, streamVars, historyVars
  <2>2. read' = read \/ read' = {Len(log)}
    BY <1>5, AskedAgain DEF NotWired, PageFails, onResync
  <2> QED BY <2>1, <2>2, LosesDebt
<1>6. CASE Lock
  <2>1. UNCHANGED <<log, floor, sequence, read, skipped, missed>>
    BY <1>6 DEF Lock, serverVars, streamVars, historyVars
  <2>2. \A q \in polls' : \E p \in polls : q.after = p.after
    BY <1>6, LockedPolls, Parts DEF TypeInv
  <2> QED BY <2>1, <2>2, LosesDebt
<1>7. ASSUME NEW p \in polls, Page(p) PROVE DebtInv'
  BY <1>7, PageDebt
<1> QED BY <1>1, <1>2, <1>4, <1>5, <1>6, <1>7, PollDebt, UnlockDebt DEF Next, Answer

LEMMA DebtIsOwed == TypeInv /\ DebtInv => OwedARead
<1> SUFFICES ASSUME TypeInv, DebtInv, ~missed PROVE
        (skipped => read # {}) /\ (OwnRows(floor.lastSequence, sequence) # {} => read # {})
  BY DEF OwedARead
<1> QED BY OwesIs, ReachedIs DEF DebtInv, Paid

(* No row is lost between the stream and the floor: what the stream has     *)
(* read past and the floor does not show, or what a page was folded over,   *)
(* has a read on its way, asked late enough to bring it; but for a read     *)
(* that failed, or that the stream overtook (useFloorLiveStream, onChanges).*)
THEOREM MissedIsOwed == Spec => []OwedARead
BY InitTyped, InitDebt, StepTyped, StepDebt, DebtIsOwed, PTL DEF Spec
=============================================================================
