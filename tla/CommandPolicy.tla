--------------------------- MODULE CommandPolicy ---------------------------
(***************************************************************************)
(* The pure half of the staff tablet's command queue: what a command is,   *)
(* where a table move may start and where it leads, whose turn a command   *)
(* is, what may be sent now, what the local check says before a send, and  *)
(* when "send it anyway" is offered (apps/web/src/staff/commands: types,   *)
(* reducer selectors, conflictPolicy).                                     *)
(*                                                                         *)
(* A queue is a set of commands: the code's array is always read in order  *)
(* of `seq`, so the array order carries no information of its own.         *)
(***************************************************************************)
EXTENDS Integers

CONSTANTS Ids,      \* client command ids, one per tap
          Tables,   \* the tables of the floor
          Tabs,     \* open tabs: the scopes of orders
          Staff,    \* people who can sign in on the tablet
          Kinds,    \* the command kinds a run uses
          MaxSeq    \* bound on the device's sequence numbers

TableActionKind == {"seatWalkIn", "seatReservation", "seatHeldParty", "hold",
                    "releaseHold", "freeTable", "outOfService", "returnToService"}

StaffCommandKind == TableActionKind \union
   {"placeOrder", "setOrderStatus", "acknowledgeServiceRequest", "recordCashPayment"}

(* Cash is the one kind that never queues. *)
isQueueable(kind) == kind \in StaffCommandKind \ {"recordCashPayment"}

isTableAction(kind) == kind \in TableActionKind

ASSUME PolicyAssumption == /\ MaxSeq \in Nat
                           /\ Kinds \subseteq StaffCommandKind
                           /\ Tables \intersect Tabs = {}

TableStatus == {"free", "held", "occupied", "outOfService"}

Scopes == Tables \union Tabs

(* A precondition is a status and a row version; version 0 is the code's   *)
(* null version, and NoPrecondition its null precondition.                 *)
NoVersion == 0
NoPrecondition == [status |-> "none", version |-> NoVersion]
TablePrecondition == [status : TableStatus, version : Nat] \union {NoPrecondition}

QueuedCommand ==
   {c \in [id : Ids, kind : Kinds, scope : Scopes, seq : 0..MaxSeq, attempts : Nat,
           takenOffline : BOOLEAN, precondition : TablePrecondition, by : Staff] :
      isTableAction(c.kind) <=> c.scope \in Tables}

Reasons == {"precondition", "conflict", "refused"}

(* `seen` is the status the refusal carried, "unknown" when it had none. *)
ConflictEntry == [command : QueuedCommand, reason : Reasons,
                  seen : TableStatus \union {"unknown"}]

(* A table as the server has it, and as the last floor read gave it: Unread *)
(* before the first read, when the code's floor is null.                    *)
TableDetail == [status : TableStatus, version : Nat]
Unread == [status |-> "none", version |-> NoVersion]

-----------------------------------------------------------------------------
LEGAL_FROM ==
   [seatWalkIn      |-> {"free", "held"},
    seatReservation |-> {"free", "held"},
    seatHeldParty   |-> {"held"},
    hold            |-> {"free"},
    releaseHold     |-> {"held"},
    freeTable       |-> {"occupied"},
    outOfService    |-> {"free", "held"},
    returnToService |-> {"outOfService"}]

RESULT_STATUS ==
   [seatWalkIn      |-> "occupied",
    seatReservation |-> "occupied",
    seatHeldParty   |-> "occupied",
    hold            |-> "held",
    releaseHold     |-> "free",
    freeTable       |-> "free",
    outOfService    |-> "outOfService",
    returnToService |-> "free"]

ON_A_PARTY == {"freeTable", "releaseHold", "seatHeldParty"}

(* Where "anyway" may start: a table nobody is waiting for. *)
ANYWAY_FROM(kind) ==
   CASE kind \in {"seatWalkIn", "seatReservation", "hold", "outOfService"} -> {"free"}
     [] kind = "returnToService" -> {"outOfService"}
     [] OTHER -> {}

-----------------------------------------------------------------------------
IdsOf(commands) == {c.id : c \in commands}

WithId(commands, i) == {c \in commands : c.id = i}

(* Array.find by id: the first in replay order, as a set of at most one. *)
FirstWithId(commands, i) ==
   {c \in WithId(commands, i) : \A d \in WithId(commands, i) : c.seq <= d.seq}

(* Is this command waiting for somebody other than the person signed in? *)
isHeld(command, actor) == command.by # actor

(* Everything but a held command and whatever queued behind it in its scope. *)
sendableInOrder(commands, actor) ==
   {c \in commands : \A h \in commands :
        h.scope = c.scope /\ isHeld(h, actor) => c.seq < h.seq}

(* `queued` on the wire: the command waited, in a retry or with the wifi off. *)
Waited(command) == command.attempts > 0 \/ command.takenOffline

(* The physical status a table will have once the queue has drained. *)
projectedStatus(floor, commands, t) ==
   LET moves == {c \in commands : c.scope = t /\ isTableAction(c.kind)}
   IN  IF moves = {} THEN floor[t].status
       ELSE LET last == CHOOSE c \in moves : \A d \in moves : d.seq <= c.seq
            IN  RESULT_STATUS[last.kind]

(* Mutant: no floor read yet counts as a mismatch. *)
holdsOnlyIfRead(command, floor) ==
   command.precondition # NoPrecondition /\ command.scope \in Tables
      => floor[command.scope].status = command.precondition.status

(* The local check before a send: the status only, never the version. *)
preconditionHolds(command, floor) ==
   command.precondition # NoPrecondition /\ command.scope \in Tables
      => floor[command.scope].status \in {Unread.status, command.precondition.status}

(* "Send it anyway" is offered only where it acts on nobody. *)
canSendAnyway(entry) ==
   LET kind == entry.command.kind
   IN  /\ isTableAction(kind)
       /\ kind \notin ON_A_PARTY
       /\ entry.reason # "refused"
       /\ entry.seen = "unknown" \/ entry.seen \in LEGAL_FROM[kind] \intersect ANYWAY_FROM(kind)

=============================================================================
