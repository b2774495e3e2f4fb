---------------------------- MODULE GuestThread ----------------------------
(***************************************************************************)
(* A guest's thread with the venue on their phone: the cached thread and   *)
(* its reads, a text shown before the server has it and settled or taken   *)
(* out by the answer, the read mark, and the reply typed into a push's     *)
(* banner (packages/api/src/react/messages.ts; apps/diner/src:             *)
(* messages/ThreadScreen.tsx, push/usePushNotifications.ts).  The server   *)
(* is external; a message's place in its log is its createdAtUtc.          *)
(***************************************************************************)
EXTENDS Naturals, Sequences, FiniteSets

CONSTANTS Texts,        \* what a guest may write
          MaxIds,       \* command ids
          MaxWords,     \* texts typed, replies in a banner
          MaxVenue,     \* messages of the venue
          MaxWritten,   \* texts, replies and messages of the venue together
          MaxTroubles   \* requests lost, refused or not answered

ASSUME ThreadAssumption ==
   {MaxIds, MaxWords, MaxVenue, MaxWritten, MaxTroubles} \subseteq Nat

VARIABLES
   log, readMark,               \* server: the messages, and read up to
   thread,                      \* cache: what the screen shows of them
   fetch, stale,                \* the read on its way; is the cache invalidated?
   screen, draft, attempt,      \* the screen, its field, the last text tried
   marked,                      \* the newest message it marked read
   commandIds,                  \* the banner's id for each text
   sends, marks,                \* the requests on their way
   ids, words, troubles,        \* counters
   seen, settled, settledAway,  \* history: messages seen; put on the thread by
                                \* the answer to their send, by one nobody awaited
   unmarked                     \* history: was a mark lost?

serverVars == <<log, readMark>>
cacheVars  == <<thread, fetch, stale>>
screenVars == <<screen, draft, attempt, marked>>
countVars  == <<ids, words, troubles>>
pastVars   == <<seen, settled, settledAway, unmarked>>
vars == <<serverVars, cacheVars, screenVars, commandIds, sends, marks, countVars, pastVars>>

Ids      == 1..MaxIds
Places   == Nat \ {0}

(* A text as somebody meant it once: its number, and was it first typed     *)
(* into a banner?                                                           *)
Words    == [text : Texts, n : 1..MaxWords, reply : BOOLEAN]
Messages == [author : {"venue"}] \union [author : {"guest"}, id : Ids, words : Words]

(* A send: its id and words, who sends them, is the screen still there.     *)
Sends == [id : Ids, words : Words, from : {"screen", "banner"}, mine : BOOLEAN,
          at : {"away", "written", "refused", "adrift"}]

NoRead == [at |-> "none", upTo |-> 0, unread |-> FALSE]
Asking == [NoRead EXCEPT !.at = "away"]

TypeOK ==
   /\ log \in Seq(Messages)
   /\ readMark \in 0..Len(log)
   /\ thread \in [loaded : BOOLEAN, shown : SUBSET Places, pending : SUBSET Ids, unread : BOOLEAN]
   /\ thread.shown \subseteq 1..Len(log)
   /\ fetch \in [at : {"none", "away", "back"}, upTo : 0..Len(log), unread : BOOLEAN]
   /\ stale \in BOOLEAN
   /\ screen \in {"closed", "front"} /\ marked \in {0} \union Places
   /\ draft \subseteq Words /\ \A v, w \in draft : v = w
   /\ attempt \subseteq [text : Texts, id : Ids] /\ \A a, b \in attempt : a = b
   /\ commandIds \in [Texts -> 0..MaxIds]
   /\ sends \subseteq Sends
   /\ \A s, r \in sends : s.mine /\ r.mine => s = r
   /\ marks \subseteq 1..Len(log)
   /\ ids \in 0..MaxIds /\ words \in 0..MaxWords /\ troubles \in 0..MaxTroubles
   /\ seen \union settled \subseteq 1..Len(log) /\ settledAway \subseteq settled
   /\ unmarked \in BOOLEAN

Init ==
   /\ log = <<>> /\ readMark = 0
   /\ thread = [loaded |-> FALSE, shown |-> {}, pending |-> {}, unread |-> FALSE]
   /\ fetch = NoRead /\ stale = FALSE
   /\ screen = "closed" /\ draft = {} /\ attempt = {} /\ marked = 0
   /\ commandIds = [x \in Texts |-> 0]
   /\ sends = {} /\ marks = {}
   /\ ids = 0 /\ words = 0 /\ troubles = 0
   /\ seen = {} /\ settled = {} /\ settledAway = {} /\ unmarked = FALSE

-----------------------------------------------------------------------------
Trouble == troubles < MaxTroubles /\ troubles' = troubles + 1

Venue == {m \in 1..Len(log) : log[m].author = "venue"}
Guest == {m \in 1..Len(log) : log[m].author = "guest"}

Reading == fetch # NoRead

MayWrite == words + Cardinality(Venue) < MaxWritten

(* Mutant: a read on its way is joined, not put in its place. *)
invalidateJoining ==
   /\ stale' = TRUE
   /\ fetch' = IF screen = "closed" \/ Reading THEN fetch ELSE Asking

(* invalidateQueries: a thread on some screen is read again, in place of a  *)
(* read on its way unless there is nothing yet to go on showing; one on no  *)
(* screen is only marked.                                                   *)
invalidate ==
   /\ stale' = TRUE
   /\ fetch' = IF screen = "closed" \/ (Reading /\ ~thread.loaded) THEN fetch ELSE Asking

(* Mutant: the time of a pending message counts, from a clock that is ahead. *)
newestOfAny ==
   IF thread.pending # {} THEN Len(log) + 1
   ELSE CHOOSE m \in {0} \union thread.shown : \A n \in thread.shown : n <= m

newestShownMessage == CHOOSE m \in {0} \union thread.shown : \A n \in thread.shown : n <= m

(* Mutant: once a screen has marked the thread read, it is done. *)
markDueOnce == screen = "front" /\ thread.unread /\ marked = 0

(* The effect that marks the thread read runs before anything else happens  *)
(* on the phone: up to the newest message on the screen, once for each.     *)
markDue == screen = "front" /\ thread.unread /\ marked # newestShownMessage

(* What the screen in front shows of the venue's has been seen.             *)
Look(shown) == seen' = seen \union (shown \intersect Venue)

(* A screen opens with the words it is given; what the one under it awaited *)
(* is awaited no more.  The thread is read unless it is fresh.              *)
open(given) ==
   /\ screen' = "front" /\ draft' = given /\ attempt' = {} /\ marked' = 0
   /\ \/ fetch' = IF Reading THEN fetch ELSE Asking
      \/ thread.loaded /\ ~stale /\ UNCHANGED fetch
   /\ Look(thread.shown)
   /\ UNCHANGED <<thread, stale, settled, settledAway, unmarked>>

Unawaited(s) == [s EXCEPT !.mine = FALSE]

Open ==
   /\ screen = "closed" /\ open({})
   /\ UNCHANGED <<serverVars, commandIds, sends, marks, countVars>>

Leave ==
   /\ screen = "front" /\ ~markDue
   /\ screen' = "closed" /\ draft' = {} /\ attempt' = {} /\ marked' = 0
   /\ sends' = {Unawaited(s) : s \in sends}
   /\ UNCHANGED <<serverVars, cacheVars, commandIds, marks, countVars, pastVars>>

-----------------------------------------------------------------------------
(* Every ten seconds in front, never while a text is on its way.            *)
poll ==
   /\ screen = "front" /\ thread.pending = {} /\ ~Reading /\ ~markDue
   /\ fetch' = Asking
   /\ UNCHANGED <<serverVars, thread, stale, screenVars, commandIds, sends, marks, countVars,
                  pastVars>>

(* The app comes back to the front, or the connection does.                 *)
Refetch ==
   /\ screen # "closed" /\ ~Reading /\ ~markDue /\ fetch' = Asking
   /\ UNCHANGED <<serverVars, thread, stale, screenVars, commandIds, sends, marks, countVars,
                  pastVars>>

ServeRead ==
   /\ fetch.at = "away"
   /\ fetch' = [at |-> "back", upTo |-> Len(log),
                unread |-> \E v \in Venue : v > readMark]
   /\ UNCHANGED <<serverVars, thread, stale, screenVars, commandIds, sends, marks, countVars,
                  pastVars>>

ReadLands ==
   /\ fetch.at = "back" /\ ~markDue
   /\ thread' = [loaded |-> TRUE, shown |-> 1..fetch.upTo, pending |-> {}, unread |-> fetch.unread]
   /\ fetch' = NoRead /\ stale' = FALSE
   /\ Look(IF screen = "front" THEN 1..fetch.upTo ELSE {})
   /\ UNCHANGED <<serverVars, screenVars, commandIds, sends, marks, countVars, settled,
                  settledAway, unmarked>>

ReadFails ==
   /\ Reading /\ ~markDue /\ Trouble
   /\ fetch' = NoRead
   /\ UNCHANGED <<serverVars, thread, stale, screenVars, commandIds, sends, marks, ids, words,
                  pastVars>>

-----------------------------------------------------------------------------
useMarkReadWhenSeen ==
   /\ markDue
   /\ marked' = newestShownMessage /\ marks' = marks \union {newestShownMessage}
   /\ thread' = [thread EXCEPT !.unread = FALSE]
   /\ UNCHANGED <<serverVars, fetch, stale, screen, draft, attempt, commandIds, sends, countVars,
                  pastVars>>

(* The server's mark moves on, never back.                                  *)
ServeMark(m) ==
   /\ m \in marks /\ marks' = marks \ {m}
   /\ readMark' = IF m > readMark THEN m ELSE readMark
   /\ UNCHANGED <<log, cacheVars, screenVars, commandIds, sends, countVars, pastVars>>

LoseMark(m) ==
   /\ m \in marks /\ Trouble /\ marks' = marks \ {m}
   /\ unmarked' = TRUE
   /\ UNCHANGED <<serverVars, cacheVars, screenVars, commandIds, sends, ids, words, seen,
                  settled, settledAway>>

-----------------------------------------------------------------------------
Type(text) ==
   /\ screen = "front" /\ thread.loaded /\ ~markDue /\ words < MaxWords /\ MayWrite
   /\ words' = words + 1 /\ draft' = {[text |-> text, n |-> words + 1, reply |-> FALSE]}
   /\ UNCHANGED <<serverVars, cacheVars, screen, attempt, marked, commandIds, sends, marks, ids,
                  troubles, pastVars>>

(* Mutant: Send does not wait for the text before. *)
neverBusy == FALSE

busy == \E s \in sends : s.mine

(* sendDraft and onMutate: the text tried last goes again under its id, any *)
(* other under a new one; a read on its way is given up.                    *)
sendDraft ==
   \E w \in draft, id \in Ids :
      /\ screen = "front" /\ thread.loaded /\ ~busy /\ ~markDue
      /\ \/ [text |-> w.text, id |-> id] \in attempt /\ UNCHANGED ids
         \/ (\A a \in attempt : a.text # w.text) /\ id = ids + 1 /\ ids' = id
      /\ attempt' = {[text |-> w.text, id |-> id]} /\ draft' = {}
      /\ thread' = [thread EXCEPT !.pending = @ \union {id}] /\ fetch' = NoRead
      /\ sends' = sends \union {[id |-> id, words |-> w, from |-> "screen",
                                 mine |-> TRUE, at |-> "away"]}
      /\ UNCHANGED <<serverVars, stale, screen, marked, commandIds, marks, words, troubles, pastVars>>

(* The words typed into a banner, the same ones under the same id; what the *)
(* push is about is read again.                                             *)
Reply(text) ==
   \E id \in Ids :
      /\ ~markDue /\ Venue # {} /\ words < MaxWords /\ MayWrite
      /\ words' = words + 1
      /\ \/ id = commandIds[text] /\ UNCHANGED <<commandIds, ids>>
         \/ /\ commandIds[text] = 0 /\ id = ids + 1 /\ ids' = id
            /\ commandIds' = [commandIds EXCEPT ![text] = id]
      /\ sends' = sends \union
            {[id |-> id, words |-> [text |-> text, n |-> words + 1, reply |-> TRUE],
              from |-> "banner", mine |-> FALSE, at |-> "away"]}
      /\ invalidate
      /\ UNCHANGED <<serverVars, thread, screenVars, marks, troubles, pastVars>>

Moved(s, at) == (sends \ {s}) \union {[s EXCEPT !.at = at]}

Message(id) == {m \in Guest : log[m].id = id}

(* The server writes a message once for each id.                            *)
Write(s) ==
   /\ s \in sends /\ s.at \in {"away", "adrift"}
   /\ log' = IF Message(s.id) # {} THEN log
             ELSE Append(log, [author |-> "guest", id |-> s.id, words |-> s.words])
   /\ sends' = IF s.at = "adrift" THEN sends \ {s} ELSE Moved(s, "written")
   /\ UNCHANGED <<readMark, cacheVars, screenVars, commandIds, marks, countVars, pastVars>>

Refuse(s) ==
   /\ s \in sends /\ s.at = "away" /\ Trouble
   /\ sends' = Moved(s, "refused")
   /\ UNCHANGED <<serverVars, cacheVars, screenVars, commandIds, marks, ids, words, pastVars>>

(* onSuccess: the server's message takes the place of the pending one.      *)
settleSentMessage(s) ==
   /\ thread' = IF ~thread.loaded THEN thread
                ELSE [thread EXCEPT !.shown = @ \union Message(s.id), !.pending = @ \ {s.id}]
   /\ settled' = settled \union Message(s.id)
   /\ settledAway' = IF screen = "closed" THEN settledAway \union Message(s.id) ELSE settledAway

Sent(s) ==
   /\ s \in sends /\ s.from = "screen" /\ s.at = "written" /\ ~markDue
   /\ sends' = sends \ {s}
   /\ settleSentMessage(s) /\ invalidate
   /\ attempt' = IF s.mine THEN {} ELSE attempt
   /\ UNCHANGED <<serverVars, screen, draft, marked, commandIds, marks, countVars, seen,
                  unmarked>>

(* onError: the pending message goes, and the words return to a field that  *)
(* is still there and empty.                                                *)
dropPendingMessage(s) ==
   /\ ~markDue
   /\ thread' = [thread EXCEPT !.pending = @ \ {s.id}]
   /\ draft' = IF s.mine /\ draft = {} THEN {s.words} ELSE draft
   /\ invalidate
   /\ UNCHANGED <<serverVars, screen, marked, commandIds, marks, ids, words, pastVars>>

Refused(s) ==
   /\ s \in sends /\ s.from = "screen" /\ s.at = "refused" /\ sends' = sends \ {s}
   /\ dropPendingMessage(s) /\ UNCHANGED <<attempt, troubles>>

GivenUp(s) == IF s.at = "away" THEN Moved(Unawaited(s), "adrift") \ {s} ELSE sends \ {s}

(* Mutant: words that come back are another command. *)
NoAnswerAnew(s) ==
   /\ s \in sends /\ s.from = "screen" /\ s.at \in {"away", "written"} /\ Trouble
   /\ sends' = GivenUp(s) /\ dropPendingMessage(s)
   /\ attempt' = IF s.mine THEN {} ELSE attempt

NoAnswer(s) ==
   /\ s \in sends /\ s.from = "screen" /\ s.at \in {"away", "written"} /\ Trouble
   /\ sends' = GivenUp(s) /\ dropPendingMessage(s) /\ UNCHANGED attempt

(* The banner's reply: through, or its words in the field of the thread.    *)
ReplySent(s) ==
   /\ s \in sends /\ s.from = "banner" /\ s.at = "written" /\ ~markDue
   /\ sends' = sends \ {s}
   /\ invalidate
   /\ UNCHANGED <<serverVars, thread, screenVars, commandIds, marks, countVars, pastVars>>

ReplyFailed(s) ==
   /\ s \in sends /\ s.from = "banner" /\ ~markDue
   /\ \/ s.at = "refused" /\ UNCHANGED troubles
      \/ s.at \in {"away", "written"} /\ Trouble
   /\ sends' = {Unawaited(r) : r \in GivenUp(s)} /\ open({s.words})
   /\ UNCHANGED <<serverVars, commandIds, marks, ids, words>>

(* The venue writes; its push has a thread on the screen read again.        *)
VenueWrites ==
   /\ Cardinality(Venue) < MaxVenue /\ MayWrite
   /\ log' = Append(log, [author |-> "venue"])
   /\ (invalidate /\ ~markDue) \/ UNCHANGED <<fetch, stale>>
   /\ UNCHANGED <<readMark, thread, screenVars, commandIds, sends, marks, countVars, pastVars>>

-----------------------------------------------------------------------------
Reads  == poll \/ Refetch \/ ServeRead \/ ReadLands \/ ReadFails
Person == Open \/ Leave \/ sendDraft \/ \E x \in Texts : Type(x) \/ Reply(x)
Marks  == useMarkReadWhenSeen \/ \E m \in marks : ServeMark(m) \/ LoseMark(m)
Texting ==
   \E s \in sends : \/ Write(s) \/ Refuse(s) \/ Sent(s) \/ Refused(s) \/ NoAnswer(s)
                    \/ ReplySent(s) \/ ReplyFailed(s)

Next == Reads \/ Person \/ Marks \/ Texting \/ VenueWrites

Spec == Init /\ [][Next]_vars

(* Requests are served and answered, the poll's timer and the effects run.  *)
Fairness ==
   /\ WF_vars(poll) /\ WF_vars(ServeRead) /\ WF_vars(ReadLands)
   /\ WF_vars(useMarkReadWhenSeen) /\ WF_vars(\E m \in marks : ServeMark(m))
   /\ WF_vars(\E s \in sends : Write(s) \/ Sent(s) \/ Refused(s))

FairSpec == Spec /\ Fairness

-----------------------------------------------------------------------------
(* A mark reads nothing the guest has not seen: a message that arrives      *)
(* between the poll and the call stays unread (messages.ts 491-494).  But   *)
(* for one way: a text of the guest's own, put on the thread by the answer  *)
(* to its send ahead of what the venue wrote before it.                     *)
UnseenOnlyBehindOwn ==
   \A v \in Venue : v <= readMark =>
      v \in seen \/ \E g \in settled : v < g /\ g <= readMark

(* The same words tried again are not written twice (contracts/messages.ts, *)
(* SendMessageCommand: the id is reused on a retry), unless they began as a *)
(* reply in a banner, whose id the field of the thread does not know.       *)
SentOnceUnlessReplied ==
   \A m, n \in Guest : log[m].words.n = log[n].words.n => m = n \/ log[m].words.reply

(* What the thread has shown stays on it: a read from before a send's       *)
(* answer does not take its message off again, unless nothing was on the    *)
(* screen as the answer came (messages.ts 426-432).                         *)
SettledStays == [][thread.shown \ thread'.shown \subseteq settledAway]_vars

(* A guest who stays comes to see all the venue wrote, and the venue to     *)
(* know it, if no mark is lost (messages.ts 487-497).                       *)
CaughtUp ==
   <>[](screen = "front") /\ []~unmarked
      => <>[](Venue \subseteq thread.shown /\ \A v \in Venue : v <= readMark)
=============================================================================
