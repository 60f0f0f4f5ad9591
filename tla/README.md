# Verification of zapi-pwa

TLA+ models of the parts of zapi-pwa where order, failure and concurrency decide
whether the program is right; TLC runs that check them on small instances; and
TLAPS proofs of their safety properties for every value of the constants.
Source paths below are relative to the repository, with `waclaw-go/`, `pwa/`,
`daemon/` and `shared/` short for the directories in `packages/`.

## 1. The system

Four programs and two services work together:

    WhatsApp --- waclaw-go ---(SSE /events)--- daemon ---(POST on-audio)--- pwa
                 |   |  ^                        |                          |
                 |   |  '------(POST send)-------'                          |
                 |   '--(PostgREST)------- Supabase ------------------------'
                 '--- SQLite per session            Redis (legacy queue) ---'

`waclaw-go` holds the WhatsApp sessions, `daemon` listens to its event stream
and forwards audio messages, `pwa` is the Next.js application and its API, and
the tables are in Supabase.

| Component | State | Operations | What is hard | What makes it correct |
|---|---|---|---|---|
| Event bus, `waclaw-go/internal/events/bus.go` | subscriber map under an RWMutex; per subscriber a channel, a closed flag, a drop counter | Subscribe, unsub, Publish | unsub and Publish share flag and channel outside the lock; buffers fill | closed once; per-subscriber order; nothing lost uncounted; Publish never blocks nor panics |
| Scheduler, `waclaw-go/internal/scheduler/scheduler.go`, and the API `pwa/src/app/api/scheduled` | rows of `waclaw_scheduled_messages` with a status; nothing in memory | POST, DELETE; poll, claim, send, mark, fail, reschedule | two processes during a deployment, crashes and lost answers between the requests, cancel racing claim | sent once and canceled for good, as far as the claim can tell; series go on from what was sent; a crash costs one row |
| Recurrence, `scheduler/recurrence.go` | none | nextOccurrence, nextWeeklyDay | wrap-around of weeks, months without the day, intervals below 1, end dates | every listed day, progress, nothing past the end |
| Daemon, `daemon/src` | a task per event in memory | connect, forward with retries, reply | retries overlap the request they replace; a crash forgets all tasks | tasks end, 4xx is final, replies only of what is stored |
| Audio route, `pwa/src/app/api/internal/on-audio/route.ts`, `lib/filter.ts` | rows of `messages` and `transcriptions` | lookup, duplicate check, filter, transcribe, insert, answer | check and insert are seconds apart and no key backs the check; each query may fail and reads as empty | one row and one reply per audio, failures retried, nothing lost |
| Event stream, `httpserver/events_sse.go`; stream client, `daemon/src/waclaw-client.ts` | a subscription of the bus per connection; a backoff | connect, heartbeat, reconnect | greeting before subscribing; what is published while disconnected; backoff never reset | what is lost is bounded by the disconnection |
| Monitor, `internal/monitor/monitor.go` | cached sets of groups and instances | refresh, handle, save | stale cache, saves without retry | a message of a monitored group is saved unless dropped |
| Daily jobs, `scheduler/reporter.go` | day of the last report and cleanup, in memory | dailyJobs | restart within the hour, failure after the mark | one report a day |
| Sessions and manager, `internal/session` | state, QR, client, store, container; the map of sessions | Create, Connect, events, Close, Delete, ShutdownAll | unlocked opens, unconditional state changes, Close racing Connect and callbacks | closed stays closed, handles released, nobody uses a nil handle |
| Media queue, `session/media_queue.go`, `backfill.go` | a bounded channel, files, `local_path` | enqueue or drop, download, rehydrate | drop at the limit, session closed under a worker | a dropped job comes back; a file is stored under its message |
| Message store, `internal/store` | SQLite tables and the LID map | upserts, merge of LID chats | merge without a transaction | no message disappears in a merge |
| Legacy queue, `pwa/src/lib/queue.ts`, `circuit-breaker.ts`, `api/worker`, `api/webhook` | Redis list, dead letters, circuit keys | enqueue, work, retry | crash after rpop, a client that parses, rows without jobs | a job that was queued is done or still there |
| Instances and pairing, `api/instances`, `QRConnectWizard.tsx`, `SettingsModal.tsx` | rows of `instances`, waclaw sessions, the QR view | create, reconnect, delete, poll | two systems changed without a transaction; polls of a view that was left | rows and sessions together; the code shown is the one of the line being linked |
| Groups, `api/instances/[id]/groups`, the tab "Grupos" | rows, the window's copy of them | load, authorise, flag, remove | the copy is changed whatever the answer | copy and rows agree |
| Tasks, `api/tasks`, `useTasks.ts`, `TaskDetailModal.tsx` | rows of tasks and participants, a WhatsApp group, list and dialog | create, add, remove, patch, delete, poll | group created lazily, calls to waclaw that fail, loads that overtake | one group; rows and members agree; the dialog's task is the selected one |
| Conversation, `useMessages.ts`, `ChatPanel.tsx` | React state: list, cache, flags, stars, transcriptions | load, page, poll, send, delete, star, transcribe | late answers of the previous chat, optimistic changes, effects that see only the length of the list | the list is the chat's, without duplicates; nothing stays busy; audios paid for once |
| List of chats, `useChats.ts` | chats, moments of reading in localStorage | load, poll, read, chat menu | loads overlap with reading and a change of session | a chat is unread when and only when it has something new |
| Dialogs, `ScheduleMessageModal.tsx`, `SummaryModal.tsx`, `ContactPickerModal.tsx` | form, rows, summary, flags; they stay mounted | open, load, post, generate, send | answers for another chat | what is shown is of the chat |
| Admin, other routes | rows | CRUD | - | an admin remains |

The hazards of this code, each at its line with the properties that cover it,
are in `PROJECT.json`; those without a property say why, and a note beside a property
says what it sets aside.

## 2. Modules

| Module | Models |
|---|---|
| `EventBus` | the bus, one action per shared access of Subscribe, unsub and Publish |
| `LossyFanOut` | what the bus promises: independent bounded channels that lose an event only when full |
| `EventBusProofs` | theorems about `EventBus`, and that it implements `LossyFanOut` |
| `Recurrence` | nextOccurrence on day numbers, with the Gregorian calendar behind `AddDate` |
| `RecurrenceSeries` | the days a recurring message is sent on, for the checks against the calendar |
| `RecurrenceProofs`, `SeriesProofs` | theorems about the two |
| `Scheduler` (extends `Recurrence`) | the table, the API calls and any number of scheduler processes |
| `Outbox` | what scheduled messages promise: taken only by who has seen them pending and due, and sent, settled or continued once by each |
| `SchedulerProofs` | theorems about `Scheduler`, and that it implements `Outbox` |
| `AudioPipeline` | the daemon's tasks and the route's requests, with the filter and the rows |
| `Inbox` | what the audio route promises: an audio put down once, a reply only for what is put down, the end of a delivery for good |
| `AudioProofs` | theorems about `AudioPipeline`, and that it implements `Inbox` |
| `ChatView` | useMessages: the list of the selected chat under loads, polls, pages, sends, deletions |
| `Stars` | its stars, the clicks on them, `api/starred` |
| `Transcripts` | its transcriptions of audios, `api/transcribe`, `api/transcribe-raw` |
| `Dialogs` | the dialogs for scheduled messages, summaries and contacts |
| `Browser` | the four together |
| `BrowserProofs` | theorems about the four and `Browser` |
| `TaskGroup` | `api/tasks`: one task, its participants, its WhatsApp group |
| `TaskView` | useTasks and useTaskDetail: list and dialog of tasks |
| `TaskProofs` | theorems about the two |
| `Setup` | creating, pairing and deleting a line, from wizard and settings window |
| `GroupSettings` | the tab "Grupos" and the API of its rows |
| `ChatList` | useChats and the chat menu |
| `TranscriptionQueue` | webhook, Redis queue and the worker's dequeue |
| `Services` | `TaskGroup`, `TaskView`, `Setup`, `GroupSettings` and `ChatList` together |
| `ServicesProofs` | theorems about `Setup`, `GroupSettings`, `ChatList` and `Services` |
| `MC*` | constants for TLC |

`Browser` and `Services` put modules that share no state into one
specification: the variable `part`, chosen at the start, says which of them moves, and the
others keep their initial state. What holds of such a specification is thus what holds of each
module by itself, for TLC's runs and for the proofs, and the number of states is a sum.

### EventBus

A call of Publish is named by its event, a call of unsub by a `Closers` element.
Publish takes its snapshot in one step, as it holds the read lock
(`bus.go:69-74`). Then, per subscriber and without a lock, `LoadClosed` reads the
flag (77) and `Send` is the non-blocking select (80-84); what happens when the
channel has been closed in between is `SendOnClosed`. unsub is three steps: the
delete under the lock, the compare-and-swap, the close. The channel is a history
(`log`, everything sent) and a count of what was received, so that order and
loss can be stated. The drop counter is the set of dropped events, its number
being the counter. `SubscriberCount` only reads and is left out.

### Recurrence, RecurrenceSeries

Adding days and months in America/Sao_Paulo keeps the time of day, and the zone
has had no daylight saving time since 2019, so an occurrence is a day number.
`AddMonths` has the overflow of Go's `AddDate`. Values of
`recurrence_pattern` that are unknown and times that do not parse count as no
pattern: the code returns "no occurrence" for all of them. The interval is not
looked at in a weekly plan with listed days, as in `nextWeeklyDay`.

### Scheduler

`status`, `due`, `plan` are the columns; `parent` and `sends` are history. Each
HTTP request of a scheduler is an action, and a `Fate` decides whether it
arrives and whether its answer does. Send's outcome is that of `SendText` or
`SendFile`; an error may hide a message that went out. `Crash` may come between
any two steps, `Restart` is systemd's. PostgREST answers 204 to every PATCH that it
carries out, with `Prefer: return=minimal` also to one that matched no row, and
`patchStatus` takes each 204 for a success. So a scheduler can claim a row that has
left `pending` since it was fetched: claimed by another scheduler, or canceled.
`blind` is the history of such claims. Each property says what holds all the same, and of
whom: whoever sends what another sends, passes over a cancel or overwrites a settled row
has claimed blindly. What the code's own comment promises without that condition is
`CancelHolds`, which the run `scheduler_canceled` refutes. `author`, which scheduler wrote
a next occurrence, and `parent` are history too. `Outbox` forgets requests, faults,
marks and processes: it keeps what a hand has seen, holds and has sent, and a message it lets
be taken twice, or after it was canceled, only by a hand that had seen it before. Rows that recur are written by the user
through the table's own API: `POST /api/scheduled` has no recurrence fields.

### AudioPipeline

`task` and `attempt` are the daemon's local variables in `onAudioMessage` and
`forwardAudioEvent`; `phase` is where a request of the route is, each value the
query or call it makes next, so that every `await` is a step others can
interleave with. `row` holds the rows of `messages`, named by the request that
inserted them. A request goes on after the daemon has given up on it (`Drop`):
the route does not notice. `Kill` is the platform's end of a request
(`maxDuration`) or an unhandled error. Queries whose error the code ignores are
modelled as it reads them: none. `maybeSingle()` fails on two rows, so that with
two rows of an audio every later request passes the duplicate check. `raced` is
history: the audios for which a request was between check and insert while
another one passed the check, or whose check failed. The daemon may read an
event twice (the stream has no ids; WhatsApp repeats messages), which is a
second delivery of the audio. `Inbox` forgets requests, phases and retries. It
keeps which copies of an audio are put down, which texts are wanted back and
where a delivery has got to; it lets an audio be put down again only where `raced` says
that a duplicate check was overtaken or failed.

Not in the model: the summary and the footer (text only), the prefetch of the
bytes (it decides where the route gets them, not whether), and status values of
answers the daemon does not tell apart.

### The browser: ChatView, Stars, Transcripts, Dialogs

A request remembers the chat it was made for, and its answer finds whatever is
shown by then; only a load carries a version (`useMessages.ts:91, 106`).
`ChatView` has the order of the effects: the cache is written through
(500-506) before the page's load runs, so a chat just selected may find the list
of the chat before in its cache; that list is replaced by the load. A message is
an element with a chat and a second; a page is cut by waclaw's own query
(`store/messages.go:73-116`), in whole seconds. Two histories say what has broken
the order of the list, in `mixed`: "chat", a poll, a page or a deletion that was
asked for another chat has changed it; "order", one that was asked of another
list has, one that a load has replaced meanwhile or that a deleted message was put
back into. A request carries the version of the list it was asked of for this purpose
(`by`; `Outdated` makes it that of no list), though the code looks at the version of loads only.
The next load that is shown makes both good again.

`Stars` and `Transcripts` have the effects keyed on `messages.length`:
`Replace` is a list of the same length, which they do not see, `Extend` a longer
one. `Transcripts` counts the calls to Whisper. In `Dialogs` one variable says
which dialog is open; all stay mounted and keep their state.

### TaskGroup, TaskView

`TaskGroup` is one task. A request is at its next query or call, so that requests
overlap at every `await`. The routes read the errors of waclaw and of few
queries; `Noticed` and `Unnoticed` say which. A call to waclaw may fail before or after
WhatsApp has acted: `made` are the groups there are, `strayed` those whose
creation was not answered. `MakeGroup`, `Admit` and `Dismiss` are the handlers of
`task_groups.go`, which answer 200 whatever WhatsApp said of each contact
(67-78, 138-143); `refused` are the contacts whom it did not add or remove the last time.

`TaskView` has versions instead of contents: what matters is which write a shown task
has seen. Loads of the list overlap, and the answer to one may be any table since it was
sent. `Changed` is the end of addParticipant or removeParticipant, which loads the
detail of the task that its closure had (`useTasks.ts:159-181`), whatever is selected by
then and whatever else is being loaded. The detail dialog's draft is left
out: it is sent as typed.

### Setup, GroupSettings, ChatList

`Setup` has an instance and its session as one element. A flow is one click, from
POST to the end of the pairing or to the deleted row; several overlap. waclaw may have
made a session though the answer to its POST is lost or cannot be read
(`api/instances/route.ts:79-97`). The
wizard's poll of `/api/instances/{id}/status` always fails, as waclaw has no such
route (`server.go:114-119`), and is left out. `GroupSettings` and `ChatList` have
a request with the instance or session it was sent for, which the answer does not
look at. Not in `ChatList`: pin, mute and block, which only change a field, and
the merging of phone and LID chats.

### TranscriptionQueue

Every audio that comes to the webhook is stored as `pending_transcription`
(`webhook/route.ts:118`), but only one with an address, in a chat that is not the user's
own, gets a job (133). `lib/redis.ts` is the client of `@upstash/redis` with its default
options, which parses what Redis answers; `dequeue` parses it again, which throws, and
answers that there is no job (`queue.ts:32-37`). So `Parse` drops every job, and the steps of
the worker that come after it, the retries, the dead letters and the circuit breaker are never reached.
They are not modelled. Nothing in the repository calls `/api/worker`; the model has calls
of it from outside.

## 3. Runs

| Run | Shows | Size |
|---|---|---|
| `bus` | TypeOK, ClosedOnce, PublishOrder, NoSilentLoss, PublishEnds, ImplementsFanOut | 226,464 states |
| `bus_panic` | Publish can panic: NoSendOnClosed is violated | counterexample |
| `recurrence` | EndRespected, EveryListedDay, SameDayOfMonth, SeriesEnds | 35,398 states |
| `scheduler` | TypeOK, SentOnce, CanceledIsSilent, SeriesFollowsSends, SeriesAdvances, FaultsStrandOne, ImplementsOutbox, SettledIsFinal, DueIsHandled | 406,059 states |
| `scheduler_sent` | a sent message stays in processing: MarkedSent is violated | counterexample |
| `scheduler_canceled` | a canceled message is sent: CancelHolds is violated | counterexample |
| `audio` | TypeOK, ProcessedOnce, NothingLost, ImplementsInbox | 1,145,956 states |
| `audio_live` | TaskEnds | 373,728 states |
| `audio_retry` | a retry is turned away by its own failure: FailureIsRetried is violated | counterexample |
| `browser` | BrowserTypeOK, ListIsRight, StarsAgree, DialogsAreOfChat, PaidOnce, PollCatchesUp, BusyEnds, AudioSettles | 317,685 states |
| `services` | ServicesTypeOK, OneGroup, JoinedAreMembers, DetailIsSelected, RowsMatchSessions, ScreenIsTrue, ListConverges, UnreadShows | 570,100 states |
| `queue_dropped` | a queued job is dropped when it is popped: NoJobDropped is violated | counterexample |

`browser` and `services` are instances of `Browser` and `Services`.

Bounds, and why they are enough:

- `bus`: two events are enough for order and overlap of two Publish calls; two
  subscribers, with buffers of one event (given as 0, the clamped case) and two,
  make one full while the other is not; three unsub calls make two race on one
  subscriber.
- `recurrence`: every set of weekdays; daily and monthly plans with intervals 0
  (clamped), 1 and 13; first days in each weekday, at the end of January, on the
  leap day of 2024 and past the end date. All series end on day 500 at the
  latest, so the state space is finite without a bound of its own.
- `scheduler`: two schedulers race, and with three rows a series has three occurrences or
  forks; one fault is a lost request, a lost answer or a crash, anywhere. One row is posted, a
  daily one with the interval 0 that the column admits (`MCSpec`), for the day it is
  posted on (`Horizon` 0); one that does not recur is one at the end of its
  series, and rows of different series share nothing but a scheduler's batch, whose order
  is free. Ids are handed out in order and the fault is the first scheduler's, which
  breaks a symmetry that a liveness property does not allow to be declared. `LastDay`
  bounds the clock. The two violations need neither fault nor second scheduler, and have rows
  with and without recurrence, posted up to a day ahead.
- `audio`: two deliveries of one audio, two attempts each, are up to four requests
  that overlap; two faults, each any query, call, request or answer, a kill or a
  crash, are enough to use up a task's attempts. Symmetry is used for
  deliveries. Audios do not interact. The safety run has the audios of others, where the
  group's settings decide most, the liveness run the user's own and those of a chat
  of two; between them they have every case of the filter. Settings are those the filter tells
  apart: not listed, transcribed with a reply, without. `audio_live` has the code's three attempts and
  as many faults, and one delivery, as tasks do not wait for each other; it uses
  no symmetry.

- `browser`: two chats are enough for an answer that comes too late; two messages of
  one chat, a page of one, so that there are older and newer ones, one of them
  sent by the user; two requests under way, one fault of any request, two loads,
  one deletion, one text or file of the page's own (`l1`). The page either
  deletes or sends, and the schedule dialog stays closed while the picker waits for its
  contact (`MCNext`): each pair shares no state that a property relates. Two messages break the
  order of a list only by a page asked for before one of the page's own, or a deletion; a load that
  overtakes a page or a poll of its chat takes three. The proof of ListIsRight found this
  case, and covers any number. Two audios, two runs
  of the effect; two clicks on stars; one scheduled row.
- `services`, the task: three requests, two contacts, one fault. Two requests overlap, or three
  follow one another, so that the third meets what the two before have left (`MCSpec`); the contacts,
  and the tasks of the browser, come in order, which stands for their symmetry.
- `services`, the list and dialog: two tasks with three changes and two opened dialogs are enough for the
  detail of one to come after that of the other, and for a reload by an old closure. Two loads of the
  list overlap before a task is opened, and no other load runs while the list is loaded: list and dialog
  share the tasks only.
- `services`, the others: two sessions and two clicks at once, of three; one poll of the QR view
  under way; two instances and one group, two requests of three; one chat in two
  sessions, a clock of two seconds, two loads, two actions. One fault in each.
- `queue_dropped`: one job is enough.

The runs set CHECK_DEADLOCK FALSE where the modelled calls may all be over: a bus
whose calls have returned, a series past its end, a table of settled rows, a user who has made all the clicks of
the bound.

Each property has a mutant of a modelled definition, listed in `PROJECT.json`
and defined beside its original, under which TLC finds it violated.

### Fairness

- `EventBus`: weak fairness of a begun Publish call. The Go runtime keeps
  running a goroutine that is not blocked. Nothing is assumed of subscribers.
- `RecurrenceSeries`: weak fairness of the series itself.
- `Scheduler`: weak fairness of a running scheduler's step (a ticker every 30 s,
  HTTP requests that end) and of its restart (`Restart=always` in
  `waclaw-go.service`). Nothing is assumed of users or of the clock.
- `AudioPipeline`: weak fairness of a begun task and a begun request, which the
  event loop runs on; a request that hangs is ended by the platform. Nothing is
  assumed of deliveries, and a crash may end every task.

- `ChatView`: weak fairness of the poll, an interval of 3 s, and of the answers of
  requests of one kind. Nothing is assumed of the user or of what arrives.
- `Transcripts`: weak fairness of the answer to a run of the effect and of the
  requests it sends. `Dialogs`: of the answers to a POST and to the load after it.
- `TaskView`: weak fairness of the poll (`useTasks.ts:116-133`), its answers and
  those to other loads and to changes; `ListConverges` is about the table once the bounded changes are
  over.
- `ChatList`: weak fairness of the 30 s poll and its answers.
- `Stars`, `TaskGroup`, `Setup` and `GroupSettings` have no liveness property.

### What the violations show

1. `bus_panic`: `bus.go:23` says all methods are safe for concurrent use. unsub may
   close the channel between Publish's load of the flag and its send, and a send
   on a closed channel panics. What holds is PanicNeedsUnsub, which is proved: a call
   panics only if one of its own subscribers has left since it began.
2. `scheduler_sent`: `scheduler.go:149` says a row is marked sent or failed. The
   claim leaves `pending`, and the mark to `sent` goes through `patchStatus`,
   which filters on `status=eq.pending`; it matches nothing and the result is
   ignored. Rows whose message went out stay in `processing`.
3. `scheduler_canceled`: `scheduler.go:153-155` calls the claim an optimistic lock, and
   a claim that fails "already claimed". The PATCH of a row that was canceled since the
   fetch matches nothing, is answered 204 all the same, and the row is sent. It stays `canceled`,
   as the mark to `sent` matches nothing either. Two schedulers that fetch one row both send
   it in the same way; what holds is SentOnce, CanceledIsSilent and SettledIsFinal, which name
   the blind claim as the one cause.
4. `audio_retry`: `forwarder.ts:22-28` says 5xx is retried. The row the route
   inserts when transcription fails is what the retry's duplicate check finds.
5. `queue_dropped`: the plan of the pipeline
   (`docs/superpowers/plans/2026-04-09-plan2-transcription-pipeline.md:7`) has the worker
   transcribe what it dequeues. Each job is parsed by the Redis client and again by `dequeue`, which
   throws after the `RPOP`: no job is ever processed, and its row waits for ever.

Also met while modelling, and kept as the code has it. The properties set these cases
aside by history variables, named in their comments, and hold for the rest.

- Audio: `filter.ts:26` says groups not in the authorized list are skipped, but an
  own audio there is processed and answered (`filter.ts:72-76`, whose own comment
  says so); when the query for a group fails, an own audio is answered though
  `send_reply` is off; the reset of the daemon's backoff (`waclaw-client.ts:30`) is
  never reached, since `connect` only ever throws.
- Conversation: polls and pages of older messages are not matched with the chat, nor
  with the list they were asked of, so that one that a load of the same chat overtakes can show
  a message twice (`mixed`); a message of the same second as the last, or an older one that arrives
  late, is never polled for (`late`), nor is anything in a chat without messages of
  the store; loads, pages and texts have no catch, so a broken connection leaves
  their flag up (`broken`); a deleted message can come back with a load (`removed`).
  A list of the same length stays without stars and transcriptions (`unapplied`,
  `unasked`); an answer that comes after the list has changed is dropped and the
  audio says "processing" (`dropped`).
- Dialogs: a late load shows another chat's rows, a renewed token empties the form,
  a file read late is attached to another chat's form, and a summary sent to the
  chat is still there for the next one (`disturbed`). "Enviar no chat" makes a
  second summary rather than sending the one shown.
- Tasks: two first participants at once create a group each (`raced`); a group that
  WhatsApp made though the call failed is not in the task's row, and the next participant is
  given another (`strayed`); a contact whom WhatsApp refused counts as joined
  (`refused`); errors of updates are not looked at, and without a session a participant's row
  says joined (`adrift`); of two loads of details under way the answer that comes last is
  shown, also if a change of the participants of a task shown before asked for it (`crossed`), and a load that
  fails leaves the task before in the dialog (`misread`); a failed delete still closes the dialog.
- Lines: a failing insert leaves a session without a row, a lost answer to the creation of the
  session or a failing delete in waclaw too (`torn`); the view keeps the code of the line before when `/auth` answers
  without one (`kept`); the timer that would close the QR view tests a flag its own
  poll has set (`SettingsModal.tsx:231-242`), so the view never closes.
- Groups: writes are not checked for success and loads not matched with the
  instance (`disturbed`).
- Chat list: the first load of a session overwrites a later moment of reading (`fresh`); a chat
  that the user once marked as unread stays excused when it is read afterwards (`marked`). The
  model has one clock where the code compares the browser's with WhatsApp's, so that it says
  nothing of clocks that differ.
- Queue: an audio without an address, or in the user's own chat, is stored as pending and never gets a
  job; a crash between insert and `LPUSH` has the same effect, and a webhook delivered again inserts another row.
- Polls of a conversation's list wait for their answers in `ChatView`, where the interval
  of `useMessages.ts:515-549` does not; in `Transcripts` a recording is sent before
  anything else has asked for its text.

## 4. Proofs

All theorems are checked by TLAPS to the last leaf. They hold for every value of
the constants that satisfies the assumptions of its module, which are named and say no
more than the types of the constants: bounds are numbers, a message has a chat and a
second, a plan is a plan; `NoChat`, `NoSession` and the like are no
members of the sets they stand beside; a page, an attempt, the clock is at least one;
and the messages of a conversation are finitely many. TLC evaluates them in every run.

| Theorem | Establishes |
|---|---|
| `EventBusProofs!TypeCorrect` | TypeOK, with the buffers' bound |
| `EventBusProofs!CloseOnce` | ClosedOnce |
| `EventBusProofs!OrderedDelivery` | PublishOrder |
| `EventBusProofs!NothingLostSilently` | NoSilentLoss |
| `EventBusProofs!BusImplementsFanOut` | the refinement of LossyFanOut |
| `EventBusProofs!PublishAlwaysGoesOn` * | PublishGoesOn: a call only loses subscribers to visit, and each of its steps takes it further |
| `EventBusProofs!OnlyUnsubPanics` * | PanicNeedsUnsub |
| `RecurrenceProofs!WeeklyMissesNoDay`, `NextIsLater` | the next listed day is the next one; every next occurrence is later |
| `RecurrenceProofs!AddMonthsKeepsDay` | AddDate keeps the day of the month or spills into the first three of the next, for every day |
| `SeriesProofs!SeriesRespectsEnd`, `SeriesHitsEveryListedDay`, `SeriesKeepsItsDay` | EndRespected, EveryListedDay, SameDayOfMonth |
| `SchedulerProofs!TypeCorrect` | TypeOK |
| `SchedulerProofs!MessageSentOnce` | SentOnce, for the server that answers 204 to an empty PATCH, as all of these |
| `SchedulerProofs!CancellationHolds`, `SettledRowsStay` | CanceledIsSilent, SettledIsFinal |
| `SchedulerProofs!SeriesOfSentMessages`, `SeriesGoForward` | SeriesFollowsSends, SeriesAdvances |
| `SchedulerProofs!SchedulersImplementOutbox` | the refinement of Outbox |
| `SchedulerProofs!OneRowAFault` | FaultsStrandOne |
| `AudioProofs!TypeCorrect` | TypeOK |
| `AudioProofs!AudioProcessedOnce` | ProcessedOnce |
| `AudioProofs!PipelineImplementsInbox` | the refinement of Inbox |
| `AudioProofs!RepliesComeFromRows` * | RepliesAreStored, which is about single requests where Inbox is about audios |
| `AudioProofs!NoFaultNoLoss` | NothingLost |
| `AudioProofs!WaitingIsServed` * | WaitsForRoute: a task never waits for a request that is not there |
| `AudioProofs!PipelineGoesOn` * | AlwaysFurther: tasks and requests have fewer steps left with each of their own, and never more |
| `TaskProofs!TypeCorrect` | `TaskGroup!TypeOK` |
| `TaskProofs!TaskHasOneGroup` | OneGroup |
| `TaskProofs!JoinedAreInGroup` | JoinedAreMembers |
| `TaskProofs!DialogActsOnItsTask` | DetailIsSelected |
| `BrowserProofs!TypeCorrect`, `BrowserTypesCorrect` | `Transcripts!TypeOK`, BrowserTypeOK |
| `BrowserProofs!ListStaysRight` | ListIsRight |
| `BrowserProofs!StarsStayTrue` | StarsAgree |
| `BrowserProofs!AudioPaidOnce` | PaidOnce |
| `BrowserProofs!DialogsStayWithTheirChat` | DialogsAreOfChat |
| `BrowserProofs!FlagsWaitForAnswers` *, `DialogsWaitForAnswers` * | FlagsAwaited of `ChatView` and of `Dialogs`: what is busy has its request under way |
| `BrowserProofs!NoAudioForgotten` * | AudiosAwaited: an audio shown is settled or being asked for |
| `ServicesProofs!ServicesTypesCorrect` | ServicesTypeOK |
| `ServicesProofs!RowsAndSessions` | RowsMatchSessions |
| `ServicesProofs!ScreensStayTrue` | ScreenIsTrue |

A star marks what no run of section 3 lists. TLC has found it to hold on the constants of the
run of its module, with two faults where faults matter, before it was proved.

The inductive invariants, `IInv` or a name that says which module it is of:

- `EventBus`. One unsub call per subscriber has swapped the flag and not closed
  yet, and the channel is closed only after such a call: this gives ClosedOnce.
  Every event in a channel or a drop set belongs to a begun Publish call that no
  longer has the subscriber to visit, and an event sent earlier was not begun
  after a later one was over: this gives order and, with the audience, no silent
  loss; it is also what makes each step of the bus a step of LossyFanOut. `RaceInv`: whom a
  call has still to visit was subscribed when it began, and whoever is in the map is listening,
  so that the closed channel a send meets is one an unsub call has closed since.
- `Scheduler`. `SendInv`: a scheduler claims a row once, blindly or not, since its batch loses the
  row and a later fetch sees it no longer pending. `ClaimInv`: one scheduler at most has claimed a row
  that it found pending, and such a row is not canceled, now or later; so a second sender, or one of a canceled row, is in
  `blind`. `OwnInv`: while that scheduler has it, the row is in processing, or marked failed by a blind
  one, which leaves nothing else to overwrite. `SeriesInv`: a next occurrence has one author, which sent the
  row before it and is through with it, and lies ahead, by `NextIsLater`. For the steps of Outbox, `DueInv`: what was
  fetched as due remains due. That a fault strands one row: a row leaves the hands of its
  scheduler sent, marked, or by a request that was lost; and a crash lets go of the one row its
  scheduler has claimed, as the rest of its batch is still pending (`Costs`, `FewStranded`).
- `AudioPipeline`. `OneHolder`: of an audio that was never overtaken, at most one
  request is past the check or stored. `RequestInv` ties a request's place to its
  row, `TaskInv` a task's end to its last answer, `ReplyInv` a reply to the row of its request.
  With these a step of a request puts an audio down in Inbox or stutters, and one of a task
  answers, gives up or stutters. `TaskLeft` and `RouteLeft` count the steps a task and a request
  have left: two for each attempt and one for the reply, at most six for a request.
- `TaskGroup`. `OrderInv`, `Alone`: unless requests have overlapped, all but the last are
  over. `GroupInv`: a group that a request has been told of is the task's, or that request is about to
  record it, and what a request has read of the group is still so. `HalfInv`: between its call to waclaw and
  its row a request knows which contacts are members without a row, or rows without a member, but
  for those whom WhatsApp has refused; everybody else's row agrees with the group.
- `TaskView`, `DetailInv`: while no load of another task's detail has run beside or after the last one of the
  selected task, the loads under way are its own, and what they have left is too.
- `ChatView`. `NetInv`: one page is under way at a time, one poll per list, and what
  was asked by the list's version was asked for its chat. `OrderInv`: the list is in
  order of time, repeats nothing, and every request under way that was asked of this list
  will fit it: a page is before all of it, a poll after all of it, a deleted message fits where
  it was. The last is what NoDuplicates lacks to be inductive: the merge of a poll looks for
  messages it has, a page is put in front unseen. FlagsAwaited is inductive with the types of requests: the
  version grows with each load, so the last load's request alone takes the flag down.
- `Stars`. Of a message whose clicks did not overlap with each other or with the hydration,
  set and table agree, or differ by as much as its one click has done.
- `Transcripts`. An audio has one request at most, and that audio is in flight as the
  hook has it; as long as nothing has failed, an audio paid for is stored, or with
  Whisper by one of the two routes. So whoever asks Whisper has found the audio
  neither stored nor, by the first part, under way. `AwaitInv`: an audio with its text says so, or has a
  request under way or an answer that was dropped; and what the hook holds to be in flight is.
- `Dialogs`. What a closed form may keep is an attachment; what an open one may lack is the
  attachment being read; a summary that was neither late nor sent is of the open dialog.
- `Setup`. A row has had a session; the session of a row about to be inserted is
  there, has no row and belongs to that click only; the session of a row about to be
  deleted has gone, unless a fault tore them apart. Without the second part two
  clicks could insert or lose the same row. `OwnPolls`: a poll of the QR view that has not been
  cancelled asks for the instance being linked, so that its code may be shown.
- `GroupSettings`. While nothing is disturbed one request is under way; a load brings the rows
  of its instance as they are, and a write changes the copy as it has changed the rows (`Fits`).
- `ChatList`. Nothing is later than the clock, and a chat with a message after its moment of reading is
  new - in the store, in the list and in every answer under way, whenever it was read (`RowIs`).

The compositions need nothing more: their parts share the count of faults only, and a part
that does not move is in its initial state.

Only model-checked: the liveness properties (PublishEnds, SeriesEnds, DueIsHandled,
TaskEnds, PollCatchesUp, BusyEnds, AudioSettles, ListConverges, UnreadShows), which are out of the
prover's reach, and the five violations. What some of them rest on is proved: that a begun call,
task or request only goes on (PublishGoesOn, AlwaysFurther) and that what is waited for is
there (WaitsForRoute, FlagsAwaited, AudiosAwaited). What remains for TLC is the step from
there to "eventually": that a guard is true infinitely often, so that fairness applies. Every
invariant and action property that a passing run checks, and all three refinements, are proved.

## 5. Not modelled, and the plan

What is left, in the order of its worth:

1. `SessionLifecycle`: the handles of Session and Manager, Connect, the QR watcher,
   whatsmeow's callbacks, Close and shutdown. `Setup` has only the states its clients
   see. Properties: no use of a released handle, Delete leaves nothing; "Safe to call
   multiple times; subsequent calls are no-ops" (`session.go:459`).
2. `MediaQueue`: bounded queue, workers, rehydration.
3. `EventStream`: EventBus composed with the SSE handler, the daemon's connection and
   the monitor: what is lost, and only then.
4. `ChatMerge`: the merge of LID chats, statement by statement; daily jobs; roles.
5. Proofs: a measure for a scheduler's pass over its batch, and
   for `TaskView` and `ChatList` that a poll under way has the table of a moment since it was
   sent, as AlwaysFurther and FlagsAwaited are for theirs; abstract specifications of a task's
   group and of a line, with the refinements.

Not modelled for good: the thread and the direct messages of a task, user settings,
avatars, push, rename and reorder of instances, one query or call each; rendering,
formatting, exports, plain reads, what the worker would do with a job if it got one, configuration and start-up wiring, which keep no
state between calls.
