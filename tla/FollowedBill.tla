---------------------------- MODULE FollowedBill ----------------------------
(***************************************************************************)
(* What a diner's phone promises about the bill it shows while others at   *)
(* the table order and staff change things (apps/diner/src/tab/tabFeed.ts  *)
(* 5-19, refetchQueue.ts 1-21, events.ts 4-17), with nothing said of how:  *)
(* the bill only ever moves to a later state of the tab, and a change is   *)
(* announced only on a bill that has it.  The one excuse is the split: its  *)
(* change answers with a bill of its own, which may cross a read.          *)
(***************************************************************************)
EXTENDS Integers, Sequences

CONSTANT Kinds        \* what can happen on a tab

VARIABLES
   log,      \* the tab's events so far, numbered by their place
   bill,     \* the event the bill on screen is of, NoBill before the first read
   markers,  \* the events announced on screen
   settling, \* is a change of the split, or a read its answer has overtaken, on its way?
   back      \* does the bill stand behind what was seen of the tab?

promiseVars == <<log, bill, markers, settling, back>>

NoBill == -1

PromiseInit ==
   /\ log \in Seq(Kinds) /\ bill \in NoBill..Len(log)
   /\ markers = {} /\ ~settling /\ back = FALSE

Happens ==
   \E kind \in Kinds : log' = Append(log, kind) /\ UNCHANGED <<bill, markers, settling, back>>

(* Only the diner's own change of the split makes a crossing possible.      *)
AsksToSettle == settling' /\ UNCHANGED <<log, bill, markers, back>>

IsSettled == ~settling' /\ UNCHANGED <<log, bill, markers, back>>

MovesOn == bill' \in bill..Len(log) /\ (settling' => settling) /\ UNCHANGED <<log, markers>>

SetBack ==
   /\ settling /\ bill' \in 0..Len(log) /\ back'
   /\ UNCHANGED <<log, markers>>

(* A marker is put up only on a bill that already holds what it says.       *)
Tells ==
   /\ markers \subseteq markers'
   /\ back \/ \A n \in markers' \ markers : n \in 1..bill
   /\ (settling' => settling) /\ UNCHANGED <<log, bill, back>>

Forgets == markers' = {} /\ (back' => back) /\ (settling' => settling) /\ UNCHANGED <<log, bill>>

PromiseNext ==
   Happens \/ AsksToSettle \/ IsSettled \/ MovesOn \/ SetBack \/ Tells \/ Forgets

PromiseSpec == PromiseInit /\ [][PromiseNext]_promiseVars
=============================================================================
