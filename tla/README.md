# Yalla front end: the verification project

Yalla is a restaurant platform. This repository holds its clients: a staff
tablet for the floor and the kitchen (`apps/web/src/staff`), an owner console
and public pages (`apps/web/src/console`, `public`), a diner app
(`apps/diner`), and the packages they share (`packages/*`). The server is not
here. What can go wrong in these clients is mostly about time: bad wifi, a
tablet that changes hands, two tabs of one browser, a stream of changes and a
full read that cross. These modules model that part, in TLA+.

## 1. Inventory

| Component | State it keeps | Operations | Talks to |
| --- | --- | --- | --- |
| **Staff command queue** (`apps/web/src/staff/commands`, `offline/commandStore.ts`, `floor/useTableActions.ts`) | the queue, the conflict list, the next sequence number; the running pass; two IndexedDB keys | enqueue, discard, apply anyway, claim, drop, hydrate, sync, the four kinds of answer | the server; the floor (preconditions); the staff session (who is signed in, locked); the browser's online flag |
| **Auth session and API client** (`packages/api/src/auth/session.ts`, `client.ts`) | per tab an access token, a state, a renewal in flight and a generation; one stored refresh token for all tabs | restore, refresh, sign in, sign out; send, one refresh and one retry on a 401 | the server; the Web Lock and the storage shared with the other tabs |
| **Floor live stream** (`packages/realtime/src/sequenceStream.ts`, `apps/web/src/staff/live`, `floor/useFloorLiveStream.ts`) | the cached floor with its `lastSequence`; the stream's sequence, known and unavailable flags; reads and pages in flight | poll, fold a page, invalidate, tell the stream where the floor is, lock and unlock, the safety read | the server; React Query's cache; the queue (commands invalidate the floor) |
| **Staff session** (`packages/api/src/auth/staffSession.ts`, the PIN, pairing and enrolment screens) | the snapshot the screens go by; the access token; the renewal handle and the device token in storage; the renewal in flight; the idle timer and the last touch | enrol, pair, restore, PIN sign-in, renew, lock, unenrol, sign out, touch | the server; the storage; the floor's polling and the API client (they ask for tokens); the queue (who is signed in, locked) |
| **Diner tab feed and refetch coalescer** (`apps/diner/src/tab`, `data/orderQueries.ts`) | the fold's cursor, the stream's sequence, runs waiting and running, the cached bill with its read in flight, markers | seed, poll, fold a page, ask for a run, announce, set the split | the sequence stream, React Query's cache, the server |
| **Diner tray and order send** (`apps/diner/src/order`, the tray screen) | lines; the pending send: its command id, the contents it is for, whether its outcome is unknown | add, take away, send, an answer or none, leave | the server; the phone's connection |
| **Booking submit** (`apps/diner/src/booking`, `src/lib/confirm.ts`, `app/reserve/confirm.tsx`) | per screen a command id, a doubt, the instant the server named, the question open; the choice on the form; the promise carried to the confirm screen | pick, book, save, check again, say yes or no, prove the number, go back | the server; the slot's tables as last read; the session's profile |
| **Guest messages** (`packages/api/src/react/messages.ts`, `apps/diner/src/messages`, `push/usePushNotifications.ts`) | the cached thread with pending texts; the field and the last text tried; what was marked read; a command id per text replied from a banner | open, poll, type, send, reply from a banner, mark read, an answer or none | the server; React Query's cache; pushes |
| **Takeaway cart** (`apps/diner/src/takeaway/cart.ts`) | lines of one venue | add, edit, place | the server |
| **Realtime hub connection** (`packages/realtime/src/connection.ts`) | connection state, groups | connect, subscribe, reconnect | SignalR; no application uses it yet |
| **Diner stores, push registration, session store** | favourites, the open tab, a push token | small writes | device storage, the operating system |
| **Web offline menu cache, service worker** | the last menu, cached assets | save, read | the browser |
| **Staff screens, kitchen board, pairing, hand-over; console; public site** | what is on the screen | forms over queries | the gateways |
| **HTTP gateways, contracts, mocks, generated types** | none (the mocks: in-memory servers) | requests and responses | the server |
| **Format, i18n, tokens; end-to-end tests** | none | pure functions, constants, tests | – |

**How they interact.** A tap on a table becomes a command with a precondition
built from the *floor* and from the commands still *queued*. A replay pass
sends the queue one command at a time under the token of whoever is signed in.
Every answer invalidates the floor. The floor is also kept up by a stream of
numbered rows, folded in page by page, and each read tells the stream where to
go on from. Behind everything, a session trades a refresh token for access
tokens, and the tabs of a browser share that token; on a shared tablet the
session is the *staff session*, where a device token stays and people come and
go by PIN. On the diner's side a *tab feed* of the same stream says when the
shared bill must be read again, the *tray* sends orders onto it, the *booking*
screens trade a choice and a promise for a table, and the *thread* carries what
guest and venue write to each other, from the screen or from a push's banner.

**What is hard.**

* *Concurrency*: a pass awaits a send while the person, the connection and the
  reducer go on; two tabs share a storage; pages of a stopped stream land in
  the floor of its successor.
* *Stale state*: the pass reads refs as of the last commit; the floor given to
  a send is older than the command just sent; a row does not carry the version
  it produced.
* *Failure*: answers lost after the server has acted; requests that arrive
  after the client has given up; reloads between a tap and its save, and
  between the two writes of one save; failed reads; one step of an enrolment.
* *Retries*: the same command id for the same intent, a fresh one for another,
  and nothing but the client to know which is which.
* *Ordering*: per table and tab; taps made before the store has been read;
  rows, reads and effects crossing.

**What makes each correct.** The queue: nothing silently dropped, one copy of
a command, order per scope, nothing sent under a name that did not choose to,
and a queue that drains. The session: a token spent once, a session left stays
left, a refusal touches only the session it is about. The stream: folding rows
is as good as reading the floor, whatever was passed over is owed a read, and
the screen comes to show the room. The staff session: a handle spent once, what
is shown agrees with what is stored, a tablet left alone locks and stays
locked, a revoked one says so. The tab feed: the bill never goes back, nothing
is announced before it is on the bill, and every change arrives. The tray: no
dish made twice and none lost. The booking: no promise made for the diner, no
booking made behind their back, no endless questions. The thread: a text is
written once, nothing is marked read that nobody has seen, what is shown does
not vanish, and a guest who stays sees it all.

## 2. Modules

| Module | What it is |
| --- | --- |
| `CommandPolicy` | the pure half of the queue: kinds, transitions, projections, the local check, what may be sent now |
| `CommandQueue` | the queue in its surroundings (EXTENDS `CommandPolicy`) |
| `MCCommandQueue` | the troubles each run of the queue allows |
| `CommandQueueProofs` | its theorems |
| `AuthSession`, `MCAuthSession` | the session in the tabs of one browser, its symmetry set |
| `AuthSessionProofs` | its theorems: tokens spent once; sessions left and ended |
| `FloorStream`, `MCFloorStream` | the floor, its stream and its reads |
| `FloorStreamProofs` | its theorems |
| `StaffSession`, `MCStaffSession` | the session of a shared tablet or a paired phone |
| `StaffSessionProofs` | its theorems |
| `FollowedBill` | what a diner is promised of a shared bill (abstract) |
| `TabFeed`, `MCTabFeed` | the feed, the stream, the refetch queue and the cached bill, which implement it |
| `TabFeedProofs` | its theorems, the refinement among them |
| `TrayOrder`, `MCTrayOrder` | the tray and the sending of an order |
| `TrayOrderProofs` | its theorems |
| `BookingSubmit`, `MCBookingSubmit` | the two screens a table is booked from |
| `BookingSubmitProofs` | its theorems |
| `GuestThread`, `MCGuestThread` | a guest's thread with the venue |
| `GuestThreadProofs` | its theorems |

### CommandQueue

The screen is one JavaScript thread. Between two awaited sends a pass runs
without interruption: while `Stepping` holds (a pass is running and waits for
nothing) only pass actions are enabled on the device. A dispatch changes `queue`,
`conflicts` and `nextSeq` at once, but `stateRef`, which the pass reads, only
at the next `Commit`: that is `shown`. `dirty` says what the next commit will
do: render only, or also run the replay effect.

| Model | Code |
| --- | --- |
| `enqueue` | `useTableActions.act` with the reducer's `enqueue` and the `sync()` after it |
| `discard`, `applyAnyway`, `claim`, `drop` | the reducer's `discardConflict`, `retryConflict`, `claimed`, `dropped` |
| `Connection`, `Lock`, `SignIn`, `ReadFloor`, `Commit` | the hook's inputs, its ref effect and replay effect |
| `saveQueue`, `saveConflicts`, `hydrated`, `Reload` | the two save effects, the restore, a new mount |
| `PassOver`, `RefuseHere`, `SendOut`, `Locked`, `Finish` | the loop of `sync` and `sendCommand`'s local check; `finally` with its microtask |
| `Receive`, `GiveUp` | an answer, or none |
| `SendAgain`, `TurnedAway` | a 401: the client's one retry, or a deferral (`client.ts:298-311`, `sync.ts:107-122`) |
| `Serve`, `Refuse`, `Unauthorized`, `Elsewhere` | the server and another tablet (external) |

A request is the command as the pass read it, with the name whose token it
left under; a request not answered may still be on its way (`net`). On a 401
the queue's client sends the same request again, once, under the token the
session has by then, which may be another person's: `SendAgain` takes the name
from `actor` anew, and `resent` (history) records when it is not the one the
request had left under. The server
records by command id, so a second arrival is `replayed`. It must check the
precondition of a command that waited. Whether it also checks that of a live
tap, the client's own sources tell differently (`sync.ts:168-172` says no; the
mock and the generated schema always do), so `Verdicts` allows both.

The array of the code is a set here: every reader of it sorts by `seq`.
`Saved` says that a tap or an answer comes only once the last commit is on the
disk; a reload does not wait for it (`Moment`, `CrashAt`).

### AuthSession

One sign-in is a chain, token `n` of it the pair the `n`-th renewal gave.
`Acquire` is the lock and the read inside it, `Read`/`Renew`/`Granted`/
`Refused`/`Unreachable` the steps of the renewal, `superseded` the code's
generation check, set by `adopt` and `forget` in that tab. `BodyLost` is a
renewal granted whose body never comes: `adopt(null)` moves the generation on
before it throws, so the `catch` takes it for a superseded renewal, answers with
the access token the tab had, and leaves the spent refresh token stored. `Send`,
`Unauthorized` and `Answered` are the API client: one refresh, one retry.
`Renew` is the server's rule as the code states it: a current token is
rotated, a spent one ends the chain. There is no clock: an access token may be
past its time at any moment, and a refresh token after `MaxRenewals`.
The storage runs what it is asked in order, so a write counts from the moment
it is asked.

### FloorStream

The server's log holds each row with the room after it, so that a *read as of
row n* and a *fold up to row n* can be compared. `Page` is one page landing:
`onItems` is `applyFloorChanges` with its outcome, then the sequence moves as
`poll` moves it. `invalidateQueries(cancelRefetch)` is React Query's: a read on
its way is shared, or cancelled if the caller says so and there is a floor to
go on showing. `setSequence` is the effect that tells the stream. A locked
tablet's stream stops but its page does not: such a page has `mine = FALSE`.
Rows of other branches and of the pre-order kind redraw nothing, and the first
are not even sent.

### StaffSession

Each function of `staffSession.ts` is cut where it awaits. What it does before a
storage write is one action; the write settles in `Stored`, in the order the
writes were asked for (`pending`), and only then is the snapshot set. An entry
of `pending` keeps what the storage held before it, for a page that dies
(`Reload`). `drop` is what `lock`, `unenrol` and `forgetDevice` share.

| Model | Code |
| --- | --- |
| `restore`, `renew`, `RenewalRead`, `RenewalAnswered`, `RenewalLost` | `restore`; `renew`, its read and its answers |
| `signInWithPin`, `PinAnswered`, `PinRefused` | the PIN keypad |
| `refreshDevice`, `roster`, `CallAnswered`, `CallLost` | the calls made with the device token |
| `enrol`, `SetupAnswered`, `Enrolled`, `SetupRead` | `enrol` and `pairPhone`, step by step |
| `signOut`, `unpair`, `Left`, `touch`, `IdleCheck`, `Tick` | leaving, taps, the idle timer |
| `poll`, `Unauthorized`, `FeatureOff` | who asks for a token, a 401, a feature switched off |
| `ServeRenewal`, `ServePin`, `ServeCall`, `ServeSignOut`, `Manager` | the server (external) |

The read of the device token and the call it is for are one step (with no token,
`refreshDevice` shows the tablet unenrolled only after the writes asked before
it), one such call is out at a time, and a person acts when no write is
pending. A 401 is a request
for a renewal that may come at any time while something is revoked or ended. A
tick is longer than any request, so the idle time never passes within one.

### FollowedBill, TabFeed

`FollowedBill` has the tab's log, the bill (as of which event), the change of
the split on its way (`settling`) and the announced markers. The bill moves on,
never back, but for a settlement answer that crosses a read; a marker is told
only of an event the bill holds. `TabFeed` is the code: `applyTabEvents` is the
fold of a page, `seed` the jump a tab read makes, `request`, `Run`, `nextRun`
and `RunSettles` are the coalescer, `invalidate` is React Query's (external:
a read in flight is cancelled and asked again, or joined while there is no bill
yet). A request is answered as of some moment between its leaving and its
landing. `Promise == INSTANCE FollowedBill` maps `settling` to "the change is
away, or a read older than the bill is".

### TrayOrder

`attempts` holds every request that has left, awaited by a screen or not.
`frozen` is what the screens let be changed: the tray screen looks at its own
mutation too, the menu and the reducer only at the lock. `asked` counts what
the diner wanted, `made` what the server made. Some things the code cannot tell
apart are named in `slipped`: the tray changed while an order was away, the tab
was left with one away, an order in doubt was checked and the check itself
was refused or never left, or a success lost its body on the way. That last is
`BodyLost`: `readBody` makes it null (`client.ts:94-109`), `placeOrderResult`
throws a `TypeError`, `orderFailureKind` answers `'error'`, and `sendFailed` lets
go of the id of an order that is placed. `BodiesLost` says whether a run has
it. A phone that knows itself offline sends nothing.

### BookingSubmit

A time stands for all that is chosen: day, time, party, table. For the form
and for the confirm screen, `id` is the command id, `unknown` the doubt,
`named` the instant the server named and for which time, `ask` the open
question and `yes` the promise remembered.
`confirm` asks first, then takes the SMS detour, or sends; `fail` is the answer
by what it does; an answer that finds its screen gone is `gone`. `room` is the
last read of the slot's tables, which may be old. `agreed` is history: what the
diner said yes to, with which time in front of them. An answer may lose its
body (`BodyLost`): the client then knows its status alone (`Bare`), so a refusal
told by its code becomes a plain one, and a success (`"unread"`) becomes a
`TypeError`, which `bookingFailure` calls `'generic'` and which *clears* the
doubt (`useBookingSubmit.ts:279`, `confirm.tsx:286`). `dropped` is history: ids
whose doubt the code lets go of without the server having judged the request,
as a throttled try, an unproved number, or leaving the screen do, and those
whose success came without its body.

### GuestThread

The server's log is one sequence, a message's place in it its `createdAtUtc`.
`thread` is the cached thread: the log's places it shows, the texts pending on
it, whether it counts something unread. A read is answered as of some moment of
its way; `invalidate` is React Query's (a thread on no screen is only marked
stale, a read on its way is replaced once there is a thread to go on showing).
`sendDraft` is the tap and `onMutate`; `Sent`, `Refused` and `NoAnswer` the
answer with the hook's callback and, while that screen is still there (`mine`),
the screen's own. A text given up on may still arrive (`adrift`). `Reply` is the
tap in the banner with the read it asks for, `ReplyFailed` opens the thread with
its words. The effect that marks the thread read runs before anything else does
on the phone: while `markDue` holds, only the server and the network go on.
`seen`, `settled`, `settledAway` and `unmarked` are history. The id a banner's
reply gets is kept by its words (`commandIds`); words that open in the field
after it do not bring it along.

## 3. The runs

| Run | Result | Shows |
| --- | --- | --- |
| `queue_shared_tablet` | passes | `RecordedByConsentUnlessResent`, `NoOvertaking`: two people, a table and its tab, an answer missing, a token run out under a send, one command refused or one table moved elsewhere |
| `queue_reload` | passes | `TypeOK`, `NothingSilentlyDropped`, `OneCopy`, `ReplayOrderUnambiguous`, `Drains`: a reload, the connection lost, an answer missing, taps before the store is read |
| `queue_landed` | violated | `LandedNeverListed` |
| `auth_tabs` | passes | `TypeOK`, `SpentOnce`, `LeftForGood`, `LiveTokenKept`: two tabs, nobody signs in or out in one while the other renews |
| `floor_live` | passes | `TypeOK`, `FaithfulUnlessSkipped`, `OwedARead`, `Converges` |
| `staff_tablet` | passes | `TypeOK`, `SpentOnce`, `Settled`, `WillLock`, `LockedIsOverUnlessLate`, `RevokedEnds`: everything above, with one trouble |
| `staff_late_renewal` | violated | `LockedIsOver` |
| `tab_feed` | passes | `TypeOK`, `NothingReadIsLost`, `KeepsThePromise` (the refinement of `FollowedBill`), `CatchesUp` |
| `tray_send` | passes | `TypeOK`, `NeverTwiceUnlessSlipped`, `Balanced`, `CheckedAsSent` |
| `tray_twice` | violated | `NeverTwice` |
| `booking_submit` | passes | `TypeOK`, `PromiseWasMade`, `NeverForgotten`, `QuestionsEnd` |
| `guest_thread` | passes | `TypeOK`, `SentOnceUnlessReplied`, `UnseenOnlyBehindOwn`, `SettledStays`, `CaughtUp` |

### What the violated runs show

1. **A command that landed is listed as one that failed** (`queue_landed`,
   `sync.ts:71`). A seat lands, its answer is lost, the floor is read again:
   the retry is judged here against the table its own first send occupied, and
   never reaches the server, which would have said "already processed".
2. **A locked tablet opens again** (`staff_late_renewal`,
   `staffSession.ts:272`). A renewal leaves, the tablet is locked, the renewal
   is granted and adopted: the person it was locked on is signed in, without a
   PIN. `AuthSession` has a generation check at this place; this session has
   none. `LockedIsOverUnlessLate` says that nothing else brings a session back.
3. **An order is made twice** (`tray_twice`, `ordering.ts:69`). Its answer is
   lost, "Check again" is pressed with no signal, the check is sure not to have
   gone and its failure drops the id the *first* request may have used. With
   the signal back, Send has a fresh id. In this run every answer that begins
   arrives whole; with `BodiesLost = TRUE` TLC finds the shorter way, a success
   that loses its body and a second Send. `NeverTwiceUnlessSlipped` says that
   there is no other way but those `slipped` names.

Two more disagreements are kept in the models and named as exceptions in
properties that pass:

* **A command re-sent under the next person's name** (`client.ts:298-308`). A
  command of Narek's is away; the tablet is locked and Ani signs in; the server
  answers 401; the client sends the same POST again with Ani's token, and the
  server records it as hers. `sync.ts:112-114` says of a 401 that it "is not a
  verdict on the command, and the next person signed in decides whose it is".
  `RecordedByConsent` is this claim without the exception: put it in place of
  `RecordedByConsentUnlessResent` in `queue_shared_tablet` and TLC finds that
  trace.
* **A success that loses its body** (`client.ts:94-109`, read at line 282,
  outside the `try`). It is `data: null` to the mapper, which throws a
  `TypeError`. The tray takes it for a plain failure of an order that is placed
  (`slipped`), the booking screens for one of a booking that is made
  (`dropped`), against `ordering.ts:52-55` and `confirm.tsx:114`; without those
  exceptions `NeverTwiceUnlessSlipped`, `Balanced` and `NeverForgotten` fail. The
  web session keeps a refresh token that is spent, and the next renewal signs
  the person out. The command queue defers any error it does not know, and the
  thread keeps the text and its id: both send the same id again.

Also met, and kept in the models, without a run of their own: a
chain of this tablet judged by the floor from before its first command
(`useCommandQueue.ts:253`); a command applied anyway, unanswered, sent again as
queued and without its precondition (`sync.ts:228`); a crash between the two
writes of one commit (`CrashAt` with `"torn"` breaks `NothingSilentlyDropped`
and `OneCopy`); two taps before the store is read, the second of which sends the
first, because `sync` does not ask whether the store has been read: ahead of a
stored command of the same table (`useCommandQueue.ts:216`, `EarlyTaps` breaks
`NoOvertaking` after a reload);
a refusal in one tab emptying the storage of a sign-in in the other (`Apart =
FALSE` breaks `LiveTokenKept`); a page folded over rows that were passed over
(`skipped` in `FaithfulUnlessSkipped`); a row that keeps the version of the read
before it (`sequence.ts:180`); a booking "checked again" under a new time that
answers with the one of the old time (`useBookingSubmit.ts:130`); a "taken"
that reaches a confirm screen already left and takes the form off the stack
with it (`confirm.tsx:254`, `failUnseen`); an enrolment whose device read fails
and whose screen keeps asking for a spent code (`staffSession.ts:329`); a
renewal the floor's polling asked for, which restarts the idle time of a tablet
nobody touches (`staffSession.ts:229`); a venue message marked read unseen behind
the guest's own text, which its answer put on the thread first
(`messages.ts:510`, `UnseenOnlyBehindOwn` names the way); a banner's reply whose
answer was lost, sent again from the field with another id
(`usePushNotifications.ts:215`, excepted in `SentOnceUnlessReplied`); the same
words replied to a later message, which are the earlier command and are never
written (`usePushNotifications.ts:233`).

### Bounds, and why they are enough

* *Queue*: two commands are what a chain, an overtaking and a merge need; one
  table (with its tab, where scopes must not mix) is enough, because every rule
  is per scope; `MaxSeq` leaves room for a renumbering and for one command
  applied anyway. `Troubles` counts how often each kind of trouble may happen:
  in `queue_shared_tablet` one unanswered send, one hand-over, one token run
  out, one thing decided elsewhere; in `queue_reload` one reload, one lost connection, one
  unanswered send. A send that cannot be answered because the tablet is offline
  is not counted. `queue_shared_tablet` checks safety only, and uses that neither
  the ids nor the two people are told apart by the code (a symmetry set).
* *Session*: two tabs race as well as more do; two chains are a sign-in and
  its successor; one renewal before a refresh token expires reaches rotation
  and expiry; one trouble is an answer or its body lost, a closed tab or a chain
  ended. The   tabs are interchangeable and no property names one, so the run uses them as a
  symmetry set; it checks invariants and one action property, no liveness.
* *Stream*: two rows and pages of one row give a page that is full, a row
  passed over and the row after it; two tables, one with a party and a booking,
  one with neither. One trouble is a failed request or a lock.
* *Staff session*: two sign-ins show one person under another; one renewal
  before a handle expires; an idle time of two ticks and a token life of one,
  so that a renewal falls within it;
  two calls away at once, one trouble.
* *Tab feed*: three events are a page, one beyond it and one after; pages of one
  event and two pages to a poll give polls that end before the log does; two
  troubles are a failed read with a settlement change, or a reopened screen.
* *Tray*: two dishes, two taps and three sends reach a tray changed, refused and
  sent again; two troubles are the signal lost and back, or a tab left. Lost
  bodies are not counted: in `tray_send` any success may lose its body, in
  `tray_twice` none does.
* *Booking*: two times, two instants, three presses: a try, a "Check again" and
  one more; one thing others do, one trouble (an answer or its body
  lost, or a try throttled).
* *Thread*: one text said twice is what a retry and a reply have in common; two
  ids tell a retry from a new try; three messages, one or two of them the
  venue's, put one between two reads of another; one trouble is a lost answer, a
  refusal, a failed read or a lost mark.

Deadlock is checked where the system cannot stop (`floor_live`).
In the other runs people need do nothing once the commands, sign-ins, taps and
presses of the instance are used up.

### Fairness

`queue_reload` assumes that the event loop runs what is due (commits, saves,
the restore, the pass), that a request is served and answered or times out, and
that the floor is read again. `floor_live` assumes that reads and pages are
answered, that the effect runs, and that the poll and the 30-second safety read
keep coming while the tablet is unlocked. Nobody has to tap, sign in, unlock or
reconnect: `Drains` and `Converges` say what follows *if* the tablet stays
online and unlocked. `staff_tablet` assumes the same of storage writes and
requests, and that the floor polls and the keypad reads its roster: `RevokedEnds`
needs nobody to touch the tablet. `tab_feed` assumes that the poll's timer keeps
coming, that reads land (or fail, which `CatchesUp` excepts) and effects run.
`booking_submit` assumes answers, and a diner who says yes: `QuestionsEnd` is
about a person who agrees to everything and is asked again, and a refusal ends
the questions at once. `guest_thread` assumes that
requests are served and answered, that the poll's timer keeps coming and effects
run; `CaughtUp` is about a guest who in the end stays on the thread, when no
mark is lost. The web session has no liveness property: a renewal that
is never answered leaves through the client's own timeout, and nothing promises
that a person signs in again.

## 4. What is proved

For every value of the constants that satisfies their assumptions
(`PolicyAssumption`, `QueueAssumption`, `SessionAssumption`, `StreamAssumption`,
`StaffAssumption`, `FeedAssumption`, `TrayAssumption`, `BookingAssumption`,
`ThreadAssumption`: bounds are numbers, sets are what they are said to be), and
so for any number of people, commands, tables, tabs, rows, events, dishes,
tries, texts and troubles. Each proof is one inductive invariant, whose parts
are named below, one lemma per group of actions, and a temporal step at the end.

**The queue** (`CommandQueueProofs`)

* `TypeCorrect`: `Spec => []TypeOK`.
* `OnlyByConsentUnlessResent`: `Spec => []RecordedByConsentUnlessResent`. It is not
  inductive: the server records what a request carries, the request comes from
  what the pass read, that from what was committed, that from the queue, which
  may come from the disk. The invariant `ConsentInv` says of every copy of a
  command (`Copies`) that its `by` chose it, and of every request that its name
  did, or is one `SendAgain` put there and `resent` records. `claim` and `applyAnyway` are the two ways to a new name, and both add
  the person to `chose`; that a pass checks `isHeld` before each send is what
  closes the proof, and that the client's retry does not check it is why the
  exception is there: the code does not keep `RecordedByConsent`.
* `ReplayOrderIsTotal`: `Spec => []ReplayOrderUnambiguous`. The four theorems
  from here on share one lemma, `StepShape`: whatever the action, the two lists
  shrink, are reworked in place, gain a fresh command, take back a listed one,
  list one, or are the store's. `NumberInv` adds that the numbers of the
  *stored* queue tell its commands apart; `hydrated` needs that the merge puts
  what was tapped early behind all of it.
* `EachCommandOnce`: `NotBetweenPuts => (Spec => []OneCopy)`, and
  `NothingIsDropped`: `NotBetweenPuts => (Spec => []NothingSilentlyDropped)`.
  `CopyInv` adds that the store holds a command once too, unless only one of
  its two puts is done (`torn`), and shares none with the memory before it has
  been read; `KeptInv` that the store alone accounts for what it has held, which
  a reload relies on. `NotBetweenPuts` excludes the page dying between the two
  writes of one commit, which breaks both properties (section 3). A reload at
  any other moment is covered.
* `OrderIsKept`: `Unbroken => (Spec => NoOvertaking)`. The invariant follows a
  command from the queue through what the loop reads to the request: `shown`
  has no gap in it (`ShownInOrder`); what the queue holds ahead of a command
  still to be sent will be met first, holds its scope back, is awaited or is
  done (`PassInOrder`, `Excused`); so nothing is even on its way while an older
  command of its scope is unrecorded (`NetInOrder`). `Unbroken` is no reload
  and no tap before the store has been read: after a reload `seq` starts again
  and no longer says what was taken first, and early taps do overtake a stored
  command (section 3).

**The sessions**

* `AuthSessionProofs!SessionTypeCorrect`: `Spec => []TypeOK`, from
  `TypeInv`, which adds that a renewal granted is of a token that could be
  renewed.
* `AuthSessionProofs!OneSpender`: `Locks /\ Spec => []SpentOnce`. `LockInv`
  adds that at most one tab is inside the lock (`OneInside`), that a granted
  token's successor is its chain's current one (`Rotated`), and that the stored
  token and the tokens held are presentable: current, of a chain that is over,
  or one whose answer was lost (`Shared`). Without Web Locks the claim is
  false, which is why `Locks` is a hypothesis; TLC shows the same when the lock
  is not waited for.
* `AuthSessionProofs!NotComingBack`: `Apart /\ Spec => []LeftForGood`. `LeftInv`
  adds that no token is of a chain nobody has begun (`Dated`), and that neither
  the token in the storage nor the one of any renewal not superseded, in
  whatever tab, is of a chain the tab has left (`Gone`).
* `AuthSessionProofs!OnlySignOutEmpties`: `Locks /\ Apart /\ Spec =>
  LiveTokenKept`. `Lined` adds that a renewal nothing has superseded is of the
  token in the storage, and one refused of a chain that is over; a refusal
  therefore empties nothing alive. Without `Apart` both are about another tab's
  sign-in, which the generation of *this* tab does not see (section 3).
* `StaffSessionProofs!TypeCorrect`: `Spec => []TypeOK`.
* `!SomebodyLeavesItLocks`: `Spec => []WillLock`. `Armed` is the same said also
  while the storage still owes answers, but for those that end the session.
* `!HandleSpentOnce`: `Spec => []SpentOnce`. There is no lock here: that a
  handle is presented once rests on renewals sharing one flight (`Turns`: a
  renewal, like an enrolment, waits for one answer of the storage at a time),
  on a new chain being one the tablet has not seen (`Fresh`), and on every
  handle stored, held or waiting to be stored being current or of a chain that
  is over, but for the one a granted renewal is about to replace (`Spent`).
* `!OneStory`: `Spec => []Settled`. `Settled` is about a tablet at rest; `Story`
  is what holds on the way there: the *last* thing the storage was asked agrees
  with what it holds, and whatever is under way is for the session there is.
* `!LockedStaysOver`: `Spec => []LockedIsOverUnlessLate`. `Over` says for each
  place in the order of the storage's answers which sessions will have been
  left by then (`Gone`), and that no handle or sign-in waiting behind is of one.
  `late` is the exception in both: an answer adopted after its session was left,
  which `staff_late_renewal` shows does bring it back.

**The floor** (`FloorStreamProofs`)

* `TypeCorrect`: `Spec => []TypeOK`, from `TypeInv`: `LogInv` says what each kind
  of row may change of its table, and of no other; `Placed` that nothing the
  tablet has or has asked for is ahead of the server.
* `FoldingIsFaithful`: `Spec => []FaithfulUnlessSkipped`. Folding is a statement
  about ranges of the log: between two rows a table keeps what no row in
  between changes, which `Steady` proves by a least counterexample (the
  induction the prover can do). From it, a page folded over a floor shows each
  table as the room was at its last row.
* `MissedIsOwed`: `Spec => []OwedARead`. `DebtInv` says it of every row the stream
  has read to *or has a page asked from* (`Reached`), because a page in flight
  starts from there, and adds that the reads that are out were asked late
  enough to bring it.

**The diner**

* `TabFeedProofs!TypeCorrect`: `Spec => []TypeOK`.
* `!ThePromiseIsKept`: `Spec => KeepsThePromise`, the refinement.
  `FeedInv` is needed because a marker is announced by `RunSettles`, long after
  its page was folded: `WithinLog` keeps every position within the log,
  `BillFirst` says that before there is a bill the stream reads no events and
  nobody waits with markers, `MarksPassed` that markers wait for events the
  fold has passed, and `RunCarries` that the run a marker waits for read the
  bill after its event, so that once in, the bill holds it, unless the read
  failed or went back. Every step of
  `TabFeed` is then a step of `FollowedBill` or a stutter.
* `!NothingPassedIsLost`: `Spec => []NothingReadIsLost`, of every position the
  feed ever took (`Passed`), with the fold, the stream or the poll under way.
  `LossInv` adds that before there is a bill nothing has been passed
  (`StartsAtZero`) and that a run waiting for its read has one (`RunHasRead`).
* `TrayOrderProofs!TypeCorrect`, `!AtMostOnce` (`[]NeverTwiceUnlessSlipped`),
  `!NothingLost` (`[]Balanced`) and `!LockedAsSent` (`[]CheckedAsSent`), from one
  invariant, `TrayInv`, whether or not bodies are lost. Unless something slipped
  (`Kept`; a lost body is one of the ways), what was asked for
  is made, or on the tray and sent at most once (`Books`); every request that
  can still place an order is the pending send (`OneOrder`); and a pending send
  that was placed is locked, sent again, or has its answer on the way (`Noted`).
  None of them is inductive alone: whether an answer may empty the tray depends
  on which order it answers, and whether a failure may free the id on whether
  that order was placed.
* `BookingSubmitProofs!TypeCorrect` and `!OnlyWhatWasPromised`
  (`[]PromiseWasMade`). A booking is made from a request that left long ago,
  with a promise that came from a screen that may have asked about another time
  since. `BookingInv` therefore says of every place a promise is kept that the
  diner made it: remembered on a screen for the time it is about (`YesHeld`),
  in the requests away (`RequestsHeld`), in the booking itself.
* `!NoBookingIsForgotten`: `[]NeverForgotten`. `DoubtInv` adds that a command id
  is one screen's (`IdsApart`), that only the screen in front is answered
  (`OneInFront`), that a request others may still carry out is away or its doubt
  was dropped (`AdriftOwned`), and that what the server refused it has not made
  (`RefusedUnmade`). The id of a success without its body is among the dropped:
  what is proved is that no *other* answer, lost or late, loses a booking.
* `GuestThreadProofs!TypeCorrect`; `!WrittenOnce` (`[]SentOnceUnlessReplied`):
  `OnceInv` says of every text typed that its words go out under one id
  (`OneId`), come back to the field with that id (`Again`), and that a number
  stands for one text (`OneMeaning`), which is why a reply from a banner, with
  an id the field does not know, has to be excepted.
* `!NoMarkUnseen` (`[]UnseenOnlyBehindOwn`) and `!NothingVanishes`
  (`SettledStays`, an action property), from `ShownInv`: the thread shows the log
  from its start and beyond it only texts their answers put there
  (`Contiguous`), a screen in front has shown it (`InFront`), a read that is
  back is not older than an answer that came meanwhile unless no screen was
  open (`NothingLate`), so every mark covers what was seen (`MarksCovered`).

Every safety property of a passing run, type invariants and action properties
included, is thereby a theorem, `NoOvertaking`, `OneCopy` and
`NothingSilentlyDropped` under the hypotheses named.

Only model-checked: the liveness properties (`Drains`, `Converges`, `RevokedEnds`,
`CatchesUp`, `QuestionsEnd`, `CaughtUp`), because the prover has neither
fairness nor ENABLED; and the violated properties, which a counterexample
settles.

## 5. What is left out, and why

* *The server* is modelled from how the clients use it. Its own tests of a
  dish, a guest or a permission are one choice (`Refuse`).
* *The queue*: order contents, the list of recent sends, cash (which never
  queues), the kitchen's queue, whose floor is always null, and the remount
  when the route changes between floor and kitchen. The 10-second window of a
  live race is a choice. A mock's session without a person is not modelled: on
  a real tablet somebody is signed in, or it is locked. The renewal that a send
  or its retry may wait for takes no time here: the name is the one at the
  moment the request goes out, and a late renewal that brings the first person
  back is `StaffSession`'s matter (`staff_late_renewal`). The hook's actor
  changes with the session, not one render later. An answer that loses its body
  is an error like another, which defers (`GiveUp`).
* *The session*: a slow storage write, the console's separate session. On the
  diner's side a request the client sends again after a 401 carries the same
  command id and, as a phone is one diner's, the same person's token: to `TrayOrder`, `BookingSubmit` and
  `GuestThread` it is one request that took longer.
* *The stream*: geometry, tables added or removed, takeaway and other signals
  and the queries they invalidate; a floor read that finds no branch; a tablet
  hidden and shown again, which only delays polls; admission decisions patched
  into the cache by the tablet that took them.
* *The staff session*: `signIn(tokens)`, which no tablet screen calls, pairing a
  phone that is paired, forgetting the device from the "feature off" screen, the
  wording of the last sign-out, storage writes that fail. A renewal whose body is
  lost throws like an outage and is `RenewalLost`.
* *The tab feed*: the shares read beside the bill, which nothing waits for but
  the end of a run; a server without an event stream (`onUnavailable`).
* *The tray*: what closes ordering on the tab, prices, the nudge of the bar. A
  note or a shared flag makes another dish of the same item.
* *The booking*: an id spent by somebody else (`commandInUse`), the pause after
  no-shows, the note's validation (one of the refusals), what is invalidated
  after a booking, the web's own booking page. A lost body is one of a success
  or of a refusal told by its code; that of a 5xx changes nothing.
* *Guest messages*: "seen" means rendered in a thread that is in front; a guest
  scrolled up past "New message" counts as having seen it. A lost body keeps the
  text and its id, like no answer. Not modelled: the staff tablet's pane and the console's history (the same
  hooks, one more reader of the server), the unread summary and its counts, the
  answer buttons (one request each), a thread that closes or takes no texts while
  it is open, a thread screen under another one, which is not come back to.
* *The hub connection*: nothing in the applications subscribes to a hub, so no
  caller says what it must promise; the feeds poll.
* *The takeaway cart*: sequential and local until placed, and placed by the
  tray's pattern with an id of its own.
* *The rest*: the menu cache, the service worker and the stores have one writer
  each; the console, the public site, the gateways, formatting, translations and
  tokens hold no state that actors share, which is most of the repository's
  lines.

## 6. Plan

1. **Done**: `CommandPolicy`, `CommandQueue`, `AuthSession`, `FloorStream`,
   `StaffSession`, `FollowedBill` and `TabFeed`, `TrayOrder`, `BookingSubmit`,
   `GuestThread`, their runs, and the theorems of section 4.
2. Composition: `StaffSession`'s lock and person in place of the queue's `Lock`
   and `SignIn`, which are its interface already.
3. Abstract specifications of what exists: a `ReplicatedFloor` for the stream,
   an at-most-once, in-order `CommandLog` for the queue, *one order per intent*
   for the tray; and their refinements, for which section 4 has the invariants.
4. `OrderIsKept` across a reload: it needs a history of what was taken first, as
   `seq` begins again with the page.
5. The hub connection, once an application subscribes to one.
