---------------------------- MODULE CommandQueue ----------------------------
(***************************************************************************)
(* The staff tablet's offline command queue: the reducer, the replay pass  *)
(* of useCommandQueue, the answers of sendCommand, the IndexedDB copy, and *)
(* around them the person at the screen, the connection, the server that   *)
(* judges a command, and another tablet moving the same tables.            *)
(*                                                                         *)
(* The screen is one JavaScript thread.  A pass runs without interruption  *)
(* from one awaited send to the next (Stepping): nothing else on the       *)
(* device happens there.  A dispatch changes the reducer's state at once   *)
(* and what the loop reads (stateRef) only at the next Commit, which also  *)
(* runs the effects.                                                       *)
(***************************************************************************)
EXTENDS CommandPolicy

CONSTANTS Troubles,   \* [kind of trouble -> how often it may happen]
          CrashAt,    \* the moments a reload may fall on
          EarlyTaps   \* may a tap come before the store has been read?

(* "elsewhere" is what is decided away from this tablet: another tablet     *)
(* moves a table, or the server refuses a command on its own merits;        *)
(* "expired", that it answers a send 401 for the token it came with.        *)
TroubleKinds == {"giveUp", "offline", "lock", "elsewhere", "expired", "crash"}

ASSUME QueueAssumption == /\ Troubles \in [TroubleKinds -> Nat]
                          /\ CrashAt \subseteq {"saved", "unsaved", "torn"}
                          /\ EarlyTaps \in BOOLEAN

VARIABLES
   queue, conflicts, nextSeq,       \* the reducer's state
   dirty,                           \* "no", or what the next commit will do
   shown,                           \* stateRef.current.queue, as last committed
   ready,                           \* the store has been read
   running, again, todo, blocked,   \* the replay pass
   waiting, answer,                 \* the awaited send, and its answer
   resent,                          \* history: what the client sent again, after a
                                    \* 401, under another name than it had left under
   online, enabled, actor, floor,   \* what the screen is given
   diskQueue, diskConflicts,        \* IndexedDB
   torn,                            \* between its two puts: only the queue's is done
   tables, recorded, net,           \* the server, and requests on their way to it
   chose, owed, decided,            \* history: who asked for a command, what the
                                    \* store has held, what a person settled
   budget                           \* troubles still allowed

reducerVars  == <<queue, conflicts, nextSeq, dirty>>
passVars     == <<running, again, todo, blocked>>
sendVars     == <<waiting, answer, resent>>
screenVars   == <<online, enabled, actor, floor>>
diskVars     == <<diskQueue, diskConflicts, torn>>
serverVars   == <<tables, recorded>>
historyVars  == <<chose, decided>>
vars == <<queue, conflicts, nextSeq, dirty, shown, ready, running, again, todo, blocked,
          waiting, answer, resent, online, enabled, actor, floor, diskQueue, diskConflicts, torn,
          tables, recorded, net, chose, owed, decided, budget>>

(* A request is the command as the loop read it, under the session token    *)
(* of the person signed in when it left; `retry` marks the one the client   *)
(* itself sends again after a 401.                                          *)
Request == [command : QueuedCommand, as : Staff, retry : BOOLEAN]

Outcomes == {"applied", "replayed", "precondition", "conflict", "refused", "unauthorized"}
NoAnswer == [outcome |-> "none", seen |-> "unknown"]

TypeOK ==
   /\ queue \subseteq QueuedCommand /\ conflicts \subseteq ConflictEntry
   /\ nextSeq \in 1..MaxSeq + 1 /\ dirty \in {"no", "render", "effect"}
   /\ shown \subseteq QueuedCommand /\ ready \in BOOLEAN
   /\ running \in BOOLEAN /\ again \in BOOLEAN
   /\ todo \subseteq QueuedCommand /\ blocked \subseteq Scopes
   /\ waiting \subseteq Request
   /\ answer \in [outcome : Outcomes \union {"none"}, seen : TableStatus \union {"unknown"}]
   /\ resent \subseteq [id : Ids, as : Staff]
   /\ online \in BOOLEAN /\ enabled \in BOOLEAN /\ actor \in Staff
   /\ floor \in [Tables -> TableDetail \union {Unread}]
   /\ diskQueue \subseteq QueuedCommand /\ diskConflicts \subseteq ConflictEntry
   /\ torn \in BOOLEAN
   /\ tables \in [Tables -> TableDetail]
   /\ recorded \subseteq [id : Ids, as : Staff] /\ net \subseteq Request
   /\ chose \in [Ids -> SUBSET Staff] /\ owed \subseteq Ids /\ decided \subseteq Ids
   /\ budget \in [TroubleKinds -> Nat]

Init ==
   /\ queue = {} /\ conflicts = {} /\ nextSeq = 1 /\ dirty = "no" /\ shown = {}
   /\ ready = FALSE /\ running = FALSE /\ again = FALSE /\ todo = {} /\ blocked = {}
   /\ waiting = {} /\ answer = NoAnswer /\ resent = {}
   /\ online = TRUE /\ enabled = TRUE /\ actor \in Staff
   /\ tables = [t \in Tables |-> [status |-> "free", version |-> 1]]
   /\ floor = [t \in Tables |-> Unread]
   /\ diskQueue = {} /\ diskConflicts = {} /\ torn = FALSE /\ recorded = {} /\ net = {}
   /\ chose = [i \in Ids |-> {}] /\ owed = {} /\ decided = {} /\ budget = Troubles

-----------------------------------------------------------------------------
Stepping == running /\ waiting = {}

ConflictIds(entries) == {e.command.id : e \in entries}

RecordedIds == {r.id : r \in recorded}

(* What has been committed is on the disk, as it is within milliseconds of  *)
(* a commit: a tap or an answer from the network is never that soon.        *)
Saved == dirty = "no" /\ (ready => diskQueue = queue /\ diskConflicts = conflicts)

Suffer(trouble) == /\ budget[trouble] > 0
                   /\ budget' = [budget EXCEPT ![trouble] = @ - 1]

(* sync(): a pass over what stateRef holds, unless one is already running.  *)
sync(commands) ==
   IF running
   THEN again' = TRUE /\ UNCHANGED <<running, todo, blocked>>
   ELSE /\ UNCHANGED again
        /\ IF enabled /\ online /\ commands # {}
           THEN running' = TRUE /\ todo' = sendableInOrder(commands, actor) /\ blocked' = {}
           ELSE UNCHANGED <<running, todo, blocked>>

-----------------------------------------------------------------------------
(* What a person does.  Each tap dispatches, and most also ask for a sync,  *)
(* which still sees the queue as it was before the dispatch.                *)
Tap == ~Stepping /\ enabled /\ Saved

enqueue(i, kind, scope) ==
   /\ Tap /\ (ready \/ EarlyTaps)
   /\ chose[i] = {} /\ nextSeq <= MaxSeq /\ isQueueable(kind)
   /\ LET expected == projectedStatus(floor, queue, scope)
          chained  == expected # floor[scope].status
          precondition ==
             IF isTableAction(kind)
             THEN [status  |-> expected,
                   version |-> IF chained THEN NoVersion ELSE floor[scope].version]
             ELSE NoPrecondition
      IN  /\ IF isTableAction(kind)
             THEN scope \in Tables /\ floor[scope] # Unread /\ expected \in LEGAL_FROM[kind]
             ELSE scope \in Tabs
          /\ queue' = queue \union
                {[id |-> i, kind |-> kind, scope |-> scope, seq |-> nextSeq, attempts |-> 0,
                  takenOffline |-> ~online, precondition |-> precondition, by |-> actor]}
   /\ nextSeq' = nextSeq + 1 /\ dirty' = "effect"
   /\ chose' = [chose EXCEPT ![i] = {actor}]
   /\ sync(shown)
   /\ UNCHANGED <<conflicts, shown, ready, sendVars, screenVars, diskVars, serverVars,
                  net, owed, decided, budget>>

discard(e) ==
   /\ Tap
   /\ conflicts' = {x \in conflicts : x.command.id # e.command.id} /\ dirty' = "render"
   /\ decided' = decided \union {e.command.id}
   /\ UNCHANGED <<queue, nextSeq, shown, ready, passVars, sendVars, screenVars, diskVars,
                  serverVars, net, chose, owed, budget>>

(* "Apply anyway": a live decision under the name of whoever makes it.      *)
applyAnyway(e) ==
   /\ Tap /\ canSendAnyway(e) /\ nextSeq <= MaxSeq
   /\ \A x \in conflicts : x.command.id = e.command.id => e.command.seq <= x.command.seq
   /\ conflicts' = {x \in conflicts : x.command.id # e.command.id}
   /\ queue' = queue \union
         {[e.command EXCEPT !.precondition = NoPrecondition, !.seq = nextSeq,
                            !.attempts = 0, !.takenOffline = FALSE, !.by = actor]}
   /\ nextSeq' = nextSeq + 1 /\ dirty' = "effect"
   /\ chose' = [chose EXCEPT ![e.command.id] = @ \union {actor}]
   /\ sync(shown)
   /\ UNCHANGED <<shown, ready, sendVars, screenVars, diskVars, serverVars,
                  net, owed, decided, budget>>

(* "Send it under my name": with everything of somebody else's ahead of it. *)
claim(c) ==
   /\ Tap /\ isHeld(c, actor)
   /\ LET taken == {d \in queue : d.scope = c.scope /\ d.seq <= c.seq /\ isHeld(d, actor)}
      IN  /\ queue' = (queue \ taken) \union {[d EXCEPT !.by = actor] : d \in taken}
          /\ chose' = [i \in Ids |-> IF i \in IdsOf(taken) THEN chose[i] \union {actor}
                                     ELSE chose[i]]
   /\ dirty' = "effect"
   /\ sync(shown)
   /\ UNCHANGED <<conflicts, nextSeq, shown, ready, sendVars, screenVars, diskVars,
                  serverVars, net, owed, decided, budget>>

drop(c) ==
   /\ Tap /\ isHeld(c, actor)
   /\ queue' = queue \ WithId(queue, c.id) /\ dirty' = "effect"
   /\ decided' = decided \union {c.id}
   /\ UNCHANGED <<conflicts, nextSeq, shown, ready, passVars, sendVars, screenVars,
                  diskVars, serverVars, net, chose, owed, budget>>

-----------------------------------------------------------------------------
(* The screen around the queue: connection, lock, sign-in, floor read.      *)
Connection ==
   /\ ~Stepping /\ dirty' = "effect"
   /\ \/ online /\ online' = FALSE /\ Suffer("offline")
      \/ ~online /\ online' = TRUE /\ UNCHANGED budget
   /\ UNCHANGED <<queue, conflicts, nextSeq, shown, ready, passVars, sendVars, enabled, actor,
                  floor, diskVars, serverVars, net, chose, owed, decided>>

Lock ==
   /\ ~Stepping /\ enabled /\ enabled' = FALSE /\ dirty' = "effect" /\ Suffer("lock")
   /\ UNCHANGED <<queue, conflicts, nextSeq, shown, ready, passVars, sendVars, online, actor,
                  floor, diskVars, serverVars, net, chose, owed, decided>>

SignIn(p) ==
   /\ ~Stepping /\ ~enabled /\ enabled' = TRUE /\ actor' = p /\ dirty' = "effect"
   /\ UNCHANGED <<queue, conflicts, nextSeq, shown, ready, passVars, sendVars, online, floor,
                  diskVars, serverVars, net, chose, owed, decided, budget>>

ReadFloor ==
   /\ ~Stepping /\ online /\ enabled /\ floor # tables /\ floor' = tables
   /\ UNCHANGED <<reducerVars, shown, ready, passVars, sendVars, online, enabled, actor,
                  diskVars, serverVars, net, chose, owed, decided, budget>>

(* React commits: stateRef is written, then the replay effect runs if one   *)
(* of its dependencies changed.                                             *)
Commit ==
   /\ ~Stepping /\ dirty # "no" /\ dirty' = "no" /\ shown' = queue
   /\ IF dirty = "effect" /\ ready /\ online /\ enabled /\ queue # {}
      THEN sync(queue)
      ELSE UNCHANGED passVars
   /\ UNCHANGED <<queue, conflicts, nextSeq, ready, sendVars, screenVars, diskVars, serverVars,
                  net, chose, owed, decided, budget>>

-----------------------------------------------------------------------------
(* The store.  Each list is one atomic put; the queue's goes first.         *)
saveQueue ==
   /\ ready /\ dirty = "no" /\ diskQueue # queue /\ diskQueue' = queue
   /\ torn' = (diskConflicts # conflicts)
   /\ owed' = owed \union IdsOf(queue)
   /\ UNCHANGED <<reducerVars, shown, ready, passVars, sendVars, screenVars, diskConflicts,
                  serverVars, net, chose, decided, budget>>

saveConflicts ==
   /\ ready /\ dirty = "no" /\ diskQueue = queue /\ diskConflicts # conflicts
   /\ diskConflicts' = conflicts /\ torn' = FALSE
   /\ UNCHANGED <<reducerVars, shown, ready, passVars, sendVars, screenVars, diskQueue,
                  serverVars, net, chose, owed, decided, budget>>

(* The store has been read: what was tapped meanwhile goes behind it,       *)
(* renumbered in the order it was tapped.                                   *)
stored == diskQueue \union {e.command : e \in diskConflicts}

takenEarly == {c \in queue : c.id \notin IdsOf(diskQueue)}

(* Mutant: the store's conflict list is not read back. *)
OwnConflictsOnly == conflicts

mergedConflicts == diskConflicts \union
   {e \in conflicts : e.command.id \notin ConflictIds(diskConflicts)}

(* Mutant: what was tapped early keeps the number it was tapped under. *)
NotRenumbered(c, place) == c

renumbered(c, place) == [c EXCEPT !.seq = place[c]]

hydrated ==
   /\ ~Stepping /\ ~ready
   /\ \E highest \in 0..MaxSeq, n \in 0..MaxSeq :
         /\ highest + n <= MaxSeq
         /\ highest = 0 \/ \E c \in stored : c.seq = highest
         /\ \A c \in stored : c.seq <= highest
         /\ \E place \in [takenEarly -> highest + 1 .. highest + n] :
               /\ \A c, d \in takenEarly : c.seq < d.seq => place[c] < place[d]
               /\ \A p \in highest + 1 .. highest + n : \E c \in takenEarly : place[c] = p
               /\ queue' = diskQueue \union {renumbered(c, place) : c \in takenEarly}
         /\ nextSeq' = highest + n + 1
   /\ conflicts' = mergedConflicts
   /\ ready' = TRUE /\ dirty' = "effect"
   /\ UNCHANGED <<shown, passVars, sendVars, screenVars, diskVars, serverVars, net, chose,
                  owed, decided, budget>>

(* Where a reload falls: between the two puts, before both, or after.       *)
Moment == IF torn THEN "torn"
          ELSE IF ready /\ (diskQueue # queue \/ diskConflicts # conflicts) THEN "unsaved"
          ELSE "saved"

(* The page is reloaded, or the tablet restarted: only the store survives,  *)
(* and requests already on their way.  The gate is up again.                *)
Reload ==
   /\ ~Stepping /\ Suffer("crash")
   /\ Moment \in CrashAt
   /\ queue' = {} /\ conflicts' = {} /\ nextSeq' = 1 /\ dirty' = "no" /\ shown' = {}
   /\ ready' = FALSE /\ running' = FALSE /\ again' = FALSE /\ todo' = {} /\ blocked' = {}
   /\ waiting' = {} /\ answer' = NoAnswer
   /\ enabled' = FALSE /\ floor' = [t \in Tables |-> Unread]
   /\ UNCHANGED <<resent, online, actor, diskVars, serverVars, net, chose, owed, decided>>

-----------------------------------------------------------------------------
(* What an answer does to the reducer's state.                              *)
removed(i) == queue' = queue \ WithId(queue, i) /\ dirty' = "effect" /\ UNCHANGED conflicts

(* Mutant: the replay effect watches the queue's length, not the queue. *)
deferredUnnoticed(i) ==
   /\ queue' = (queue \ WithId(queue, i)) \union
                   {[c EXCEPT !.attempts = @ + 1] : c \in WithId(queue, i)}
   /\ dirty' = "render" /\ UNCHANGED conflicts

deferred(i) ==
   /\ queue' = (queue \ WithId(queue, i)) \union
                   {[c EXCEPT !.attempts = @ + 1] : c \in WithId(queue, i)}
   /\ dirty' = "effect" /\ UNCHANGED conflicts

(* Mutant: the command is listed and stays in the queue. *)
ListedAndQueued(i, why, status) ==
   /\ conflicts' = conflicts \union
         {[command |-> c, reason |-> why, seen |-> status] : c \in FirstWithId(queue, i)}
   /\ dirty' = "effect" /\ UNCHANGED queue

conflicted(i, why, status) ==
   /\ queue' = queue \ WithId(queue, i)
   /\ conflicts' = conflicts \union
         {[command |-> c, reason |-> why, seen |-> status] : c \in FirstWithId(queue, i)}
   /\ dirty' = IF WithId(queue, i) = {} THEN dirty ELSE "effect"

(* The one entry that leaves the list without a choice: a lost live race,   *)
(* which the person still at the panel is told of at once.                  *)
liveRace(i) ==
   /\ queue' = queue \ WithId(queue, i)
   /\ conflicts' = {e \in conflicts : e.command.id # i} /\ dirty' = "effect"
   /\ decided' = decided \union {i}

-----------------------------------------------------------------------------
(* The replay pass, from one await to the next.                             *)
NextInPass(c) == Stepping /\ \A d \in todo : c.seq <= d.seq

(* Mutant: whose command it is is not asked again before each send. *)
MayLeaveWhosever(c) == c.scope \notin blocked

(* Mutant: a deferred command does not block its scope. *)
MayLeaveUnblocked(c) == ~isHeld(c, actor)

MayLeave(c) == ~isHeld(c, actor) /\ c.scope \notin blocked

Locked ==
   /\ Stepping /\ todo # {} /\ ~enabled /\ todo' = {}
   /\ UNCHANGED <<reducerVars, shown, ready, running, again, blocked, sendVars, screenVars,
                  diskVars, serverVars, net, chose, owed, decided, budget>>

PassOver(c) ==
   /\ NextInPass(c) /\ enabled /\ ~MayLeave(c)
   /\ todo' = todo \ {c}
   /\ blocked' = blocked \union {c.scope}
   /\ UNCHANGED <<reducerVars, shown, ready, running, again, sendVars, screenVars, diskVars,
                  serverVars, net, chose, owed, decided, budget>>

RefuseHere(c) ==
   /\ NextInPass(c) /\ enabled /\ MayLeave(c)
   /\ ~preconditionHolds(c, floor)
   /\ todo' = todo \ {c}
   /\ conflicted(c.id, "precondition", floor[c.scope].status)
   /\ UNCHANGED <<nextSeq, shown, ready, running, again, blocked, sendVars, screenVars,
                  diskVars, serverVars, net, chose, owed, decided, budget>>

SendOut(c) ==
   /\ NextInPass(c) /\ enabled /\ MayLeave(c)
   /\ preconditionHolds(c, floor)
   /\ todo' = todo \ {c}
   /\ waiting' = {[command |-> c, as |-> actor, retry |-> FALSE]} /\ answer' = NoAnswer
   /\ net' = IF online THEN net \union waiting' ELSE net
   /\ UNCHANGED <<reducerVars, shown, ready, running, again, blocked, resent, screenVars,
                  diskVars, serverVars, chose, owed, decided, budget>>

(* The pass ends.  A sync asked for meanwhile runs in a microtask: before   *)
(* React has committed what the pass dispatched, so over the same stateRef. *)
Finish ==
   /\ Stepping /\ todo = {} /\ blocked' = {} /\ again' = FALSE
   /\ IF again /\ enabled /\ online /\ shown # {}
      THEN running' = TRUE /\ todo' = sendableInOrder(shown, actor)
      ELSE running' = FALSE /\ todo' = {}
   /\ UNCHANGED <<reducerVars, shown, ready, sendVars, screenVars, diskVars, serverVars, net,
                  chose, owed, decided, budget>>

-----------------------------------------------------------------------------
(* The awaited send comes back.                                             *)
Receive(r) ==
   /\ r \in waiting /\ answer.outcome # "none" /\ online /\ Saved
   /\ waiting' = {} /\ answer' = NoAnswer
   /\ LET i == r.command.id
      IN  \/ /\ answer.outcome \in {"applied", "replayed"} /\ removed(i) /\ UNCHANGED decided
          \/ /\ answer.outcome \in Reasons
             /\ conflicted(i, answer.outcome, answer.seen) /\ UNCHANGED decided
          \/ /\ answer.outcome = "conflict" /\ r.command.attempts = 0   \* within the window
             /\ liveRace(i)
   /\ UNCHANGED <<nextSeq, shown, ready, passVars, resent, screenVars, diskVars, serverVars,
                  net, chose, owed, budget>>

(* A 401: the client sends the same request again, once, with the token the *)
(* session has by then - its own renewed, or that of whoever has signed in  *)
(* since.  The loop that asked whose command it is is not asked again.      *)
SendAgain(r) ==
   /\ r \in waiting /\ answer.outcome = "unauthorized" /\ online /\ enabled /\ Saved
   /\ ~r.retry
   /\ waiting' = {[r EXCEPT !.as = actor, !.retry = TRUE]} /\ answer' = NoAnswer
   /\ net' = net \union waiting'
   /\ resent' = IF actor = r.as THEN resent
                ELSE resent \union {[id |-> r.command.id, as |-> actor]}
   /\ UNCHANGED <<reducerVars, shown, ready, passVars, screenVars, diskVars, serverVars,
                  chose, owed, decided, budget>>

(* A 401 nothing can be done about: nobody is signed in, or it is the       *)
(* second.  No verdict on the command, which waits for whoever is next.     *)
TurnedAway(r) ==
   /\ r \in waiting /\ answer.outcome = "unauthorized" /\ online /\ Saved
   /\ ~enabled \/ r.retry
   /\ waiting' = {} /\ answer' = NoAnswer
   /\ deferred(r.command.id) /\ blocked' = blocked \union {r.command.scope}
   /\ UNCHANGED <<nextSeq, shown, ready, running, again, todo, resent, screenVars, diskVars,
                  serverVars, net, chose, owed, decided, budget>>

(* No answer: offline, a timeout, a 5xx, a body lost on its way, a renewal  *)
(* that failed after a 401.  The request may still be on its way, or may    *)
(* already have been recorded.                                              *)
GiveUp(r) ==
   /\ r \in waiting /\ Saved
   /\ IF online /\ (r \in net \/ answer.outcome # "none")
      THEN Suffer("giveUp") ELSE UNCHANGED budget
   /\ net' \in {net, net \ {r}}
   /\ waiting' = {} /\ answer' = NoAnswer
   /\ deferred(r.command.id) /\ blocked' = blocked \union {r.command.scope}
   /\ UNCHANGED <<nextSeq, shown, ready, running, again, todo, resent, screenVars, diskVars,
                  serverVars, chose, owed, decided>>

-----------------------------------------------------------------------------
(* The server, as the tablet's code relies on it (external).                *)
Fails(r) ==
   LET c == r.command
       t == tables[c.scope]
   IN  \/ c.precondition.status # t.status
       \/ c.precondition.version \notin {NoVersion, t.version}

OnItsTable(r) ==
   LET status == tables[r.command.scope].status
   IN  IF status \in LEGAL_FROM[r.command.kind] THEN "applied"
       ELSE IF status \in {"occupied", "held"} THEN "conflict"
       ELSE "refused"

(* What it may answer.  A precondition binds a command that waited; whether *)
(* it binds a live tap too is left open.                                    *)
Verdicts(r) ==
   LET c == r.command
   IN  IF c.id \in RecordedIds THEN {"replayed"}
       ELSE IF ~isTableAction(c.kind) THEN {"applied"}
       ELSE IF c.precondition = NoPrecondition
            THEN IF Waited(c) THEN {"refused"} ELSE {OnItsTable(r)}
       ELSE IF ~Fails(r) THEN {OnItsTable(r)}
       ELSE IF Waited(c) THEN {"precondition"} ELSE {"precondition", OnItsTable(r)}

Reply(r, outcome, status) ==
   IF r \in waiting THEN answer' = [outcome |-> outcome, seen |-> status] ELSE UNCHANGED answer

(* It records only successes, by command id.                                *)
Serve(r) ==
   LET c == r.command
   IN  /\ ~Stepping /\ r \in net /\ net' = net \ {r}
       /\ \E outcome \in Verdicts(r) :
          /\ IF outcome = "applied"
             THEN /\ recorded' = recorded \union {[id |-> c.id, as |-> r.as]}
                  /\ tables' = IF isTableAction(c.kind)
                               THEN [tables EXCEPT ![c.scope] =
                                       [status |-> RESULT_STATUS[c.kind], version |-> @.version + 1]]
                               ELSE tables
             ELSE UNCHANGED <<recorded, tables>>
          /\ Reply(r, outcome, IF outcome \in {"precondition", "conflict"}
                               THEN tables[c.scope].status ELSE "unknown")
       /\ UNCHANGED <<reducerVars, shown, ready, passVars, waiting, resent, screenVars,
                      diskVars, chose, owed, decided, budget>>

(* Refused on its own merits: a dish, a guest, a permission, a feature.     *)
Refuse(r) ==
   /\ ~Stepping /\ r \in net /\ r.command.id \notin RecordedIds /\ Suffer("elsewhere")
   /\ net' = net \ {r} /\ Reply(r, "refused", "unknown")
   /\ UNCHANGED <<reducerVars, shown, ready, passVars, waiting, resent, screenVars, diskVars,
                  serverVars, chose, owed, decided>>

(* The token the request came with is no longer good: its person signed out *)
(* or was locked out, it ran out on the way, the session was revoked.  For  *)
(* a request nobody awaits any more that is a loss, which GiveUp foresees.  *)
Unauthorized(r) ==
   /\ ~Stepping /\ r \in net \intersect waiting /\ Suffer("expired")
   /\ net' = net \ {r} /\ answer' = [outcome |-> "unauthorized", seen |-> "unknown"]
   /\ UNCHANGED <<reducerVars, shown, ready, passVars, waiting, resent, screenVars, diskVars,
                  serverVars, chose, owed, decided>>

(* Another tablet moves a table.                                            *)
Elsewhere(t) ==
   /\ ~Stepping /\ Suffer("elsewhere")
   /\ \E kind \in Kinds \intersect TableActionKind :
         /\ tables[t].status \in LEGAL_FROM[kind]
         /\ tables' = [tables EXCEPT ![t] =
                          [status |-> RESULT_STATUS[kind], version |-> @.version + 1]]
   /\ UNCHANGED <<reducerVars, shown, ready, passVars, sendVars, screenVars, diskVars, recorded,
                  net, chose, owed, decided>>

-----------------------------------------------------------------------------
Person ==
   \/ \E i \in Ids, kind \in Kinds, scope \in Scopes : enqueue(i, kind, scope)
   \/ \E e \in conflicts : discard(e) \/ applyAnyway(e)
   \/ \E c \in queue : claim(c) \/ drop(c)

Screen == Connection \/ Lock \/ (\E p \in Staff : SignIn(p)) \/ ReadFloor \/ Commit

Store == saveQueue \/ saveConflicts \/ hydrated \/ Reload

Pass == Locked \/ (\E c \in todo : PassOver(c) \/ RefuseHere(c) \/ SendOut(c)) \/ Finish

Answers == \E r \in waiting : Receive(r) \/ SendAgain(r) \/ TurnedAway(r) \/ GiveUp(r)

Server == (\E r \in net : Serve(r) \/ Refuse(r) \/ Unauthorized(r))
          \/ (\E t \in Tables : Elsewhere(t))

Next == Person \/ Screen \/ Store \/ Pass \/ Answers \/ Server

Spec == Init /\ [][Next]_vars

(* The JavaScript event loop runs what is due, IndexedDB completes what it  *)
(* was asked, a request is answered or times out, and the floor is read     *)
(* again.  Nobody has to tap, lock, sign in or reconnect.                   *)
Fairness ==
   /\ WF_vars(Commit) /\ WF_vars(saveQueue) /\ WF_vars(saveConflicts) /\ WF_vars(hydrated)
   /\ WF_vars(Pass) /\ WF_vars(Answers) /\ WF_vars(\E r \in net : Serve(r))
   /\ WF_vars(ReadFloor)

FairSpec == Spec /\ Fairness

-----------------------------------------------------------------------------
(* A command the server records for the first time in this step, with the   *)
(* request that carried it.                                                 *)
RecordedNow(r) == r \in net /\ r.command.id \notin RecordedIds
                  /\ r.command.id \in {x.id : x \in recorded'}

(* A command the server has recorded was sent under the name of somebody    *)
(* who took it, claimed it or chose to apply it anyway: never silently      *)
(* under whoever happened to be signed in (conflictPolicy.ts, isHeld).      *)
(* The code does not keep it: SendAgain is the way, and the only one.       *)
RecordedByConsent == \A x \in recorded : x.as \in chose[x.id]

(* The same, but for what the client itself sent again after a 401 under    *)
(* the name of somebody who signed in while the send was awaited: every     *)
(* other record carries the name of a person who asked for the command.     *)
RecordedByConsentUnlessResent ==
   \A x \in recorded : x.as \in chose[x.id] \/ x \in resent

(* Nothing is silently dropped: what the store has held is still queued or  *)
(* listed, was recorded by the server, or was settled by a person           *)
(* (reducer.ts, invariant 1).                                               *)
NothingSilentlyDropped ==
   LET memory == IdsOf(queue) \union ConflictIds(conflicts)
       disk   == IdsOf(diskQueue) \union ConflictIds(diskConflicts)
   IN  owed \subseteq RecordedIds \union decided \union memory
                        \union (IF ready THEN {} ELSE disk)

(* A command is in one place: queued once or listed once, never both, so    *)
(* nobody adjudicates what is still being sent.                             *)
OneCopy ==
   /\ \A c, d \in queue : c.id = d.id => c = d
   /\ \A e, f \in conflicts : e.command.id = f.command.id => e = f
   /\ IdsOf(queue) \intersect ConflictIds(conflicts) = {}

(* Replay is by `seq`, and no two queued commands share one, also across a  *)
(* reload with commands taken before the store was read.                    *)
ReplayOrderUnambiguous ==
   /\ \A c, d \in queue : c.seq = d.seq => c = d
   /\ \A c \in queue : c.seq < nextSeq

(* Still to be sent ahead of c, on its table or tab: queued earlier, or     *)
(* stored by an earlier session and not read yet.                           *)
Ahead(c) ==
   {d \in queue : d.scope = c.scope /\ d.id # c.id
                  /\ \A e \in {c} \union WithId(queue, c.id) : d.seq < e.seq}
   \union {d \in diskQueue : ~ready /\ d.scope = c.scope /\ d.id # c.id
                              /\ (c.id \in IdsOf(queue) \/ d.seq < c.seq)}

(* Order is preserved per scope: the server never records a command while   *)
(* one taken before it on the same table is still waiting unrecorded        *)
(* (reducer.ts, invariant 3).                                               *)
NoOvertaking ==
   [][\A r \in net : RecordedNow(r) => IdsOf(Ahead(r.command)) \subseteq RecordedIds]_vars

(* Once the tablet stays online and unlocked, whatever its person may send  *)
(* leaves the queue: no tap waits for a trigger that never comes.           *)
Drains == <>[](online /\ enabled) => <>[](sendableInOrder(queue, actor) = {})

(* A command the server already recorded is never put before a person as    *)
(* one that failed (sync.ts, "Already processed").                          *)
LandedNeverListed ==
   [][\A e \in conflicts' \ conflicts : e.command.id \notin RecordedIds]_vars
=============================================================================
