# Formal models of clinic-backend

TLA+ modules for the backend of the computer clinic (`src/`, Go): customers book
repair appointments ("tickets"), staff move the resulting records through their
states and may undo what they did, administrators open service dates and rooms, and
everything is kept in PostgreSQL (SQLite in development), Redis and an S3 object store.
The modules are checked with TLC on small instances; the statements listed under
"What is proved" are checked by TLAPS for every value of the constants.

## The system

| Component | State | Operations | What makes it hard |
|---|---|---|---|
| Record actions and revert (`record/service/transitions.go`, `revert.go`, `record_action.go`, `action_redis.go`, `admin_record_service.go`) | `clinic_record` (status, approver, `action_seq`), side rows (arrival, worker, rejection, referral), a journal of reversible actions per staff member in Redis | `MarkConfirmed` .. `MarkNoShow`, `Update`, `Revert` | the status guard is outside the transaction, reads are not locked, the journal is written after the commit, sequence numbers are given back |
| Nightly cleanup (`record/service/cleanup.go`, `app/run.go`) | same rows | `CloseExpiredRecords` at start and every midnight | runs beside staff requests |
| Tickets (`record/service/ticket_service.go`) | `clinic_record` (owner, room, day, status) | `Create`, `UpdateForUser`, `DeleteForUser` | capacity and one-booking rules are counted first and written later |
| Service dates (`scheduling/service/service_date_service.go`) | `clinic_service_date` with unique (room, date) | `Create`, `Update`, `Delete` | moving, cutting or deleting a date with tickets |
| Rooms (`room/service/room_service.go`) | `clinic_room` | `Create`, `Update`, `Delete` | a room in use |
| Photos (`record/service/photo_service.go`) | `clinic_record_photo` rows, objects in the store | `Append`, `Replace`, `Reorder`, `Delete`, `DeleteByRecord` | two stores and no common transaction, crashes between them |
| Message queues (`message/queue.go`, `manager.go`) | one bounded FIFO and one worker per sender | `Enqueue`, `run`, shutdown | wakeups, retries, a send that timed out after it was delivered |
| NapCat client (`message/napcat`) | HTTP client, directory of friends and groups fetched every few minutes | `Send`, `Refresh` | a directory behind the account's |
| Tagger (`agent`, `agent/tagger`, `tagging/service`) | pools of chat sessions, bounded job queue, tag catalogue in the database and in memory | `Enqueue`, `Run`, `Pool.Tag`, `Session.Chat`, `SeedCatalog`, `Backfill` | slots on error paths, rollback of failed turns, tags removed by a new build, changes announced late |
| Sync counters (`changes`) | one counter per group in Redis | `Bump`, `Snapshot` | bump after write, best effort |
| Work schedules (`scheduling/service/work_schedule_service.go`) | schedules, weekly slots, staff assignments | `Create`, `Update`, `Delete`, `UpdateWeekday`, `AddStaff`, `RemoveStaff` | at most one enabled schedule, rows written from what was read before, no foreign keys |
| Staff, authentication (`staff`, `auth`) | staff rows with a login version, work years, sessions | login (CAS, bearer token), session check, logout, `Create`, `Delete` | first login twice, deletion with open sessions, a raised `STAFF_VERSION` |
| Announcements (`announcement`) | announcements, one "tos" | `Create`, `Update`, `Delete` | unique index, a creation in two statements |
| Legacy API, HTTP handlers, object storage client, start-up | none of their own | | |

**Interactions.** All services share the tables: a staff action, a revert and the cleanup
change the statuses that bookings count; a customer's delete removes rows staff actions
write; photo requests lock the record row that the delete removes; creating a ticket
feeds the tagger, every mutating request bumps a sync counter; an admin's session decides who may change
schedules, staff and announcements, and deleting a staff member meets schedules that name them. Requests are served by one
goroutine each, several replicas may run, and nothing but the database orders them:
transactions are plain `gorm` ones (READ COMMITTED on PostgreSQL, serialized on SQLite) and
only the photo service takes a row lock.

**What is correct.** Record actions: a status comes with its side rows, the journal describes
what the record was, a revert takes back exactly the newest change and only one's own.
Bookings: no more working tickets than places, one coming booking per customer, tickets on
dates and rooms that exist. Photos: contiguous, bounded, every listed photo readable, no
object leaked when nothing fails. Queues: bounded, FIFO, no message stuck. Tagger: slots
conserved, failed turns leave no trace, every record has a tag that exists. Administration: one row per
account, nobody acts on a session that should have ended, one enabled schedule, no orphaned slots. `PROJECT.json` lists the hazards line by line.

## Modules

| Module | Models | Composition |
|---|---|---|
| `UndoStack` | what the journal promises: a stack of changes per document | abstract |
| `RecordActions` | record actions, journal, revert, delete, cleanup | implements `UndoStack` through the instance `Undo` |
| `RecordActionsProofs`, `RecordUndoProofs` | theorems about it | extend it |
| `Booking` | tickets, service dates, rooms, the calendar | |
| `BookingProofs` | theorems about it | extends it |
| `PhotoList` | what viewers of a record's photos may see | abstract |
| `Photos` | photo rows, row lock, object store | implements `PhotoList` through the instance `List` |
| `PhotosProofs` | theorems about it | extends it |
| `MessageFifo` | what a sender's queue promises | abstract |
| `MessageQueue` | `Manager.Enqueue`, `senderQueue`, the worker, shutdown | implements `MessageFifo` through the instance `Fifo` |
| `MessageQueueProofs` | theorems about it | extends it |
| `TagAgent` | what a caller of a tagging agent is promised | abstract |
| `TaggerPool` | `agent/tagger.Pool`, `agent.Session` | implements `TagAgent` through the instance `Agent` |
| `TaggerPoolProofs` | theorems about it | extends it |
| `LiquidMetal` | the tags, statuses and stored index of the liquid-metal classification | |
| `Tagging` | start-up of the catalogue, record requests, the job queue, the workers, the record counter | composes an instance of `TaggerPool` (record tags), one of `TagAgent` (the second pool), `LiquidMetal` |
| `TaggingProofs` | theorems about it | extends it, with `TaggerPoolProofs` for its pool |
| `Accounts` | staff rows, logins, sessions, authorisation, redeployment | |
| `WorkSchedules`, `Announcements` | the two services on top of authorised requests | extend `Accounts` |
| `Roster` | administration as a whole | composes the three |
| `RosterProofs` | theorems about it | extends it |
| `MC*` | constants and symmetry for TLC | |

### RecordActions

`row` is `clinic_record` (status, approver, `action_seq`), `side` the four side tables,
`journal` the sorted sets in Redis, `req` what each request is doing, `expired` the records
the cleanup's cutoff has passed. `clock` counts committed steps and is the order of
`CreatedAt`; `origin` is history: which step last moved a record to a sequence number.
A handler is cut where other requests can get in between:

| Code | Actions |
|---|---|
| `Mark*`, `Update`: `First` and the status test, before the transaction | `Check` |
| the reload in the transaction (`prevSeq := rec.ActionSeq`) | `ReadRecord` |
| `snapshotTx` | `Snapshot` |
| the writes, the second reload, the commit | `Commit` |
| `recordAction` (an error is logged) | `Push`, `PushFails` |
| `Revert`: `Latest` / `First` and the comparison / `restoreSnapshotTx` and commit / `Consume` | `FindLatest` / `Match` / `Restore` / `Consume`, `ConsumeFails` |
| the window's pruning, key expiry, a flushed Redis | `SlideWindow` |
| `DeleteForUser` | `BeginDelete`, `FinishDelete` |
| error returns, aborted transactions, client gone, process stopped | `Fail` |
| `CloseExpiredRecords` | `CloseExpired` (and `DayEnds`) |

The contents of side rows (times, reasons, notes) are the number of the step that wrote
them. The writes of a transaction are one step since each takes the row lock of
`clinic_record`; `Update`, which locks the worker row first, can deadlock with another
writer, and then the database aborts one of them (`Fail`). `Serializable` says whether
transactions exclude each other (SQLite) or not (PostgreSQL).

### Booking

`ticket`, `date` and `room` are the three tables; a ticket keeps the class of its status
(working, completed, closed), all that the counts distinguish. Every operation is a check
followed by a write: `BeginBooking` and `AcceptBooking` are `validateCreate` up to and
after the count of places, `Insert` the insertion; `BeginMove`, `AcceptMove`, `Move` are
`UpdateForUser`; `BeginRemove`/`Remove`, `BeginOpen`/`OpenDate`, `BeginEdit`/`Edit`,
`BeginClose`/`CloseDate`, `BeginDisable`/`Disable`, `Enable`, `BeginDrop`/`Drop` the deletion of a ticket,
the three operations on service dates and those on rooms. `Finish`, `Revert` and
`CloseExpired` are what the record actions do to a ticket as these services see it,
`DayPasses` is midnight. `Counted` is `TicketedCountExcludeStatuses` with the day it depends on.

### Photos

One record, since no statement of the photo service spans two. `photos` are the rows,
`lock` the row lock of `lockPhotoRecordTx`, `objects` the object store (external, modelled
from `photoStorage`), `req` the requests. `Put` is the upload before the transaction, `Lock`,
`Read`, `Commit` the transaction of the four operations, `Clean` the removal of objects
afterwards, `Abort` the error paths, `Crash` the loss of the process. `DeleteRecord` and
`Sweep` are `DeleteForUser` and the `DeleteByRecord` it calls after its commit.

### MessageQueue

One sender: queues of different senders share only the shutdown. `items`, `notify` and `closed` are the fields of
`senderQueue` (and `Manager.closed`), `worker`, `runner` and `producer` say where `senderQueue.run`, `Manager.Run` and each
call of `Enqueue` are; `fate`, `calls` and `lateCalls` are history.

| Code | Actions |
|---|---|
| `Enqueue` up to the delivery id / `push` under the lock / its error returns / `signal` | `Enqueue` / `Push` / `Refuse` / `Signal` |
| `head` under the lock / its select on `notify` / on the context, also in `waitTimer` | `Look` / `Wake` / `GiveUp` |
| the call of `Send` / its return (external) | `Send` / `Answer` |
| `ctx.Err()` after `Send` / `complete` and the last `fail` / any other `fail` | `StopAfterSend` / `Settle` / `Retry` |
| `Run`: start, `closed`, `close` of the queue (lock, signal), `wg.Wait` | `Start`, `CloseManager`, `CloseQueue`, `SignalClose`, `Return` |
| SIGTERM | `Cancel` |

How long the worker waits before a send (`GapPolicy`, `MinGap`, backoff) is left out: the timer may fire at any time. `Answer` may be
any of ok, an error and an error that wraps `ErrPermanent`, whatever happened to the message, so a message may arrive
more than once; the bound is on the calls.

### TaggerPool and Tagging

`idle` is the channel of `Pool`, `session` the chat session of each slot (messages, token count, `exhausted`), `call` where
each caller of `Pool.Tag` is. The provider is external: any answer, any error, late or never, any context size. `Step` with
its `Fail` and `Answer` is the return from the provider and everything up to the deferred put-back, since no other
goroutine can reach the session in between.

`Tagging` adds what surrounds the pool. `mode` follows `app.Run`; `tags` is the table, `loaded` the map in memory;
`record` holds the two columns tagging writes; `handler` and `worker` are the requests and the goroutines of
`RecordTagger.Run`; `jobs` is its channel; `sync` is history: whether a change is still to be announced.

| Code | Actions |
|---|---|
| `SeedDefault`, `SeedCatalog`, `Load`, `BackfillRecords` in `app.Run` | the same names |
| `Create`, `DeleteForUser`, a staff action / `Enqueue` / the view read before the answer / `SyncBumpMiddleware` | `Create`, `Delete`, `Edit` / `Enqueue` / `View` / `RequestBump` |
| `loop` receiving a job | `Receive` |
| `applyRecordTag`: the agent / the update / every path without one | `AskTag` / `StoreTag` / `SkipTag` |
| `applyLiquidMetal`, likewise | `AskMetal` / `StoreMetal` / `SkipMetal` |
| the bump at the end of `process` | `Finish` |
| SIGTERM or a crash, the next start with another build | `Stop`, `Start` |

The two workers' pools run the same code, so only one is modelled in detail and the other by what the first is shown to
implement (`PoolIsTagAgent`). There is no liveness property: a caller of `Pool.Tag` may wait for the provider as long as its timeout allows, a job
may be dropped when the channel is full, and nothing obliges Redis to count.

### Accounts, WorkSchedules, Announcements, Roster

`staff`, `years`, `session` are three tables, `required` the process's `STAFF_VERSION`, `stamped` history: who has logged in since it was raised.
A request walks through the statements of its handler: `find`, `create`, `role`, `years`, `version`, `open` is
`GetOrCreateByAccountID`, `UpdateRole`, `EnsureWorkYears`, `UpdateVersion` and `SessionService.Create`, shared by a CAS login, a
bearer token and an admin's `StaffHandler.Create`, each of which stops or goes on differently; `load` and `csrf` are the two reads of a request with a cookie;
`serve` is an authorised request. `Deploy` is the end of the process with the next start, `End` a refusal or a database error at any statement.

| Code | Actions |
|---|---|
| `Login`, a bearer token, `StaffHandler.Create` | `LoginArrives`, `BearerArrives`, `CreateStaff`, then `Find`, `Create`, `SetRole`, `AddYears`, `StampVersion`, `OpenSession` |
| `handleSession` / `optionalTrySession` / `ValidateCSRF` / `Logout` | `SessionArrives`, `LoadStaff` / `LoadForReader` / `CheckCSRF` / `Logout` |
| `StaffService.Delete` | `DeleteStaff` |
| `WorkScheduleService.Create`, `Update`, `Delete`, `UpdateWeekday` | `CreateSchedule`, `BeginUpdate` / `Update`, `DeleteSchedule`, `BeginWeekday` / `UpdateWeekday` |
| `AddStaff` / `RemoveStaff`, statement by statement | `BeginAdd`, `FindSlot`, `NewSlot`, `CheckAssigned` or `CheckFails`, `Insert` / `BeginRemove`, `Remove` |
| `AnnouncementService.Create` / `Update` / `Delete` | `BeginPublish`, `Publish`, `Hide` / `BeginEdit`, `Edit` / `Withdraw` |

The rows follow the default database, SQLite: a transaction runs alone, foreign keys are not enforced, keys of
deleted rows are not used again. A week is a sequence of slots, each with the sequence of its staff as the client gave it, so a staff member
named twice is assigned twice (`Times`); `AddStaff` looks for an assignment first, and takes a look that fails for "none" (`CheckFails`).
Two variables are history: `raced` says that a schedule was changed while another request was at work on it, `blind` for which slots and staff members a look failed
though an assignment was there. Sessions have no clock: one that has expired is one that is not used again, and any of them may be purged at a login.

## Runs

| Run | Question | Bounds |
|---|---|---|
| `records_serial` | one request at a time: is a revert the undo of the newest own change, does the module implement `UndoStack`? | 1 record, 2 staff, 3 committed steps (reverts are not counted): two actions by different people, reverts and a cleanup fit, with an entry lost or expired anywhere |
| `records_sqlite` | overlapping requests, serialized transactions: do rows, statuses and snapshots stay consistent? | 1 record, 1 staff, 2 requests, 3 committed steps |
| `records_revert` | the same question for reverts, overlapping | violated, see findings |
| `booking_serial` | one request at a time: dates, rooms and capacities respected? | 2 tickets, 2 dates, 2 rooms, 2 days, capacity 1 |
| `booking_concurrent` | overlapping requests: how far can a date be overbooked, can a customer book twice? | 2 customers, 3 tickets, 2 dates, 2 requests |
| `booking_overbooked`, `booking_upcoming` | the documented rules | violated, see findings |
| `photos_safe` | overlapping operations with failures and crashes | 2 requests, 4 uploads, 2 photos: the limit is reached and each operation meets every other |
| `photos_live` | nothing fails: objects and photos cleaned up? | 2 requests, 3 uploads |
| `message_queue` | concurrent producers, retries, shutdown: FIFO, no lost wakeup, every accepted message settled? | 2 producers, 3 messages, queue of 2, 2 attempts: the queue is full, a producer signals while the worker looks, retries run out |
| `tagging` | the tagger through failures, timeouts and a redeployment with another catalogue: slots, sessions, tags that exist, changes announced | 2 workers (so 2 sessions), 2 records, queue of 1, 2 builds' catalogues, 2 starts, 3 requests, a context of 4 tokens: a job is dropped, a session is reset, a tag in use is removed |
| `roster` | logins, deletion of staff, a raised `STAFF_VERSION`, admins' requests on schedules and announcements: who can act, what stays unique, what overlapping requests do to the roster | 2 accounts, 3 staff keys (an account may come back under a new one), 2 sessions, 2 requests at a time and 3 in all, 2 schedules, 2 slots, a week that is empty or names a staff member twice, 2 announcements, 1 raise |

Exact constants are in the `.cfg` files. The bounds are enough in the sense that every action
fires, every refusal occurs and a mutant of each property's code is caught within them
(the mutants are listed in `PROJECT.json`): the interesting conflicts are between two
requests, and a third adds length, not a new kind of conflict.

`CHECK_DEADLOCK FALSE` is set where the bounds on steps, tickets or days let a behaviour
end; the system itself is a server that waits for requests.

**Fairness.** Only `photos_live` and the queue's liveness need it. `Photos`: weak fairness of each request's own
steps (a goroutine that has begun is scheduled), and strong fairness of `Lock` (a database grants a row
lock that is released again and again to every waiter). `MessageQueue`: weak fairness of the worker, of `Run` and of each
call of `Enqueue` that has begun (goroutines are scheduled, timers fire, and `Send` gets a context with `SendTimeout`,
`queue.go:178`); `AcceptedSettled` excuses messages still waiting when the process is stopped, as `Run`'s comment does. No
request is ever obliged to arrive.

The tagging and roster runs check safety only.

### Findings

* `records_revert`: a revert gives the sequence number back (`revert.go:183`), so the number is used twice.
  A revert that is submitted twice can undo the nightly cleanup that ran in between. `ApartRevertIsLIFO` shows that it takes
  two reverts of one entry.
* `booking_overbooked`: a revert brings a ticket back without looking at the capacity (`revert.go:179`).
* `booking_upcoming`: `validateUpdate` (`ticket_service.go:411`) does not check the one-booking rule, which
  API.md says is enforced on updates too.

## What is proved

`RecordActionsProofs` (for all records, staff, requests, step bounds):

* `TypeCorrect`: `Spec => []TypeOK` for both databases. `TypeOK` is inductive as it stands because it carries the
  bound "no sequence number is ahead of the step count", which is what makes a restored number legal.
* `SerializedStatusBacked`, `SerializedDeleteComplete`, `SerializedSnapshotsExact`: under `Serializable`. None of the
  three is inductive: `StatusBackedByRows` because a revert writes back whatever a journal entry says, so every
  snapshot held in the journal or by a request must itself be sound; `DeletedLeavesNoRows` because the
  delete removes the rows it saw, so what a transaction has read must still be there. `SerialInv` states just that
  (transactions exclude each other, reads are current, snapshots are sound); `records_sqlite` checks the three.
  The lemmas `QuietStep` (steps that leave the tables alone), `WriteStep` (one commit), `CloseExpiredSound` and
  `PushesStay` split `StepSerial` into its actions. `SerializedTransactionsIsolated` is `SerialInv` itself, which is inductive with `TypeOK`.
* `AloneStatusBacked`, `AloneDeleteComplete`, `AloneApproved`: for one request at a time (`OneAtATime`), on *either* database.
  On PostgreSQL the cleanup may commit between two statements of a transaction, so that a snapshot has the status before it and the side
  rows after it. `AloneInv` shows why this does no harm: the cleanup takes neither a side row nor an approver away
  (`CloseExpiredKeeps`), so even a torn snapshot is `Whole`, and a delete has seen every side row but a finish time.

`RecordUndoProofs`, under `Serializable` and no failed `Consume`, for any number of overlapping requests as long as
`RevertsApart`: no two requests are reverting the same journal entry at once (the theorems have it as `[]RevertsApart` on the left):

* `ApartJournalIsHistory`: entries that may still be undone are the record's history at their sequence numbers.
* `ApartRevertIsLIFO`: every revert undoes the newest change, which is the acting staff member's own, and restores exactly
  the state before it. So in serialized transactions the finding `records_revert` takes a revert that is submitted twice (or
  an entry that `Consume` failed to remove); overlapping actions, deletes, cleanups and reverts of different entries cannot cause it.
* `ApartImplementsUndoStack`: `Spec /\ []RevertsApart => UndoStackImplemented`, the refinement of `UndoStack`.
* `SequentialJournalIsHistory`, `SequentialRevertIsLIFO`, `ImplementsUndoStack`: with one request at a time the
  proviso holds by itself (`AloneApart`); these are what `records_serial` checks.

`JournalIsHistory` is not inductive alone: an entry on its way to the journal must be in nobody else's hands yet (`PushesFresh`),
and one a request has found must not be spent by another (`HeldUnspent`), which is where `RevertsApart` comes in. The mapping is the history that
`JournalIsHistory` ties to the journal, so the three commits that are no stutter have a lemma each (`CommitChanges`,
`RestoreUndoes`, `DeleteRemoves`), and so has the cleanup (`CleanupChanges`). With several records the
cleanup also stamps records that were completed before, without a new sequence number; the run, which has one record, never meets
this, and the abstract `SystemChange` names them (`E`).

`BookingProofs` (any number of tickets, customers, rooms, dates, days, capacities):

* `TypeCorrect`: `Spec => []TypeOK`, with the uniqueness of (room, date).
* For overlapping requests, when each customer waits for the answers (`CustomersWait`) and staff take nothing back: `NoSecondBooking`
  (nobody gets a booking while another comes up) and, when administrators leave the dates alone too, `OverbookingIsBounded`.
* `OneUpcomingUnlessRevived`, under the same assumptions: `OneUpcoming` holds unless a step `RevivesSecond`, that is a customer moves an
  expired, unfinished ticket to a day ahead while another booking comes up. This is the gap the finding `booking_upcoming` shows, and
  without reverts the only one.
* `TicketsStayWithoutAdmin`, for overlapping requests, reverts included, while administrators leave the dates alone and customers wait:
  every ticket is on a service date of a room that exists. Requests that overlap an administrator's are what breaks it.
* For requests served one at a time (`OneAtATime`): `TicketsStayOnDates`, `RoomsRetireIdle`, `OnlyRevertsOverbookDates`, and
  `NothingElseOverbooks`: `NeverOverbooked` holds if staff revert nothing. So the finding `booking_overbooked`
  takes a revert or overlapping requests, and the latter is what `OverbookingIsBounded` bounds.

`OneUpcomingUnlessRevived` needs that a booking or move that has passed its check cannot be joined by another one of its customer
(`BookedOnce`: `Single`, `MovesAlone`, `AcceptedAlone`); `TicketsStayWithoutAdmin` that the date and room a request was told of stay
where they are (`RoomsStand`). `ExcessNeverGrows` is the step both theorems about overbooking share.
`NoSecondBooking` rests on `Customers` (two requests are never of one customer, and a request that moves a ticket knows whose it is
and where) and on `AcceptedAlone`: a booking between its check and its insertion is the customer's only one, which no other step undoes.
`OverbookingIsBounded` needs an invariant that counts: a request whose count left it a place is *armed* (`Armed`), and the tickets
at a date that no armed request moves, plus its armed requests, are at most capacity + requests - 1 (`Bounded`). Arming happens
only below the capacity (`ArmingKeeps`), a write turns one armed request into one ticket (`LeavingKeeps`, by `Exchange`),
and a request carries at most one ticket (`CarriedByArmed`). The bound itself is not inductive: it says nothing of requests that are
about to write. The serial theorems share `SerialInv`: what a request was told when it checked (`Checked`) still holds when it writes,
since only midnight and the nightly cleanup come in between, and these end tickets and move none (`EndedSets`, `CheckedKept`).

`MessageQueueProofs` (any number of producers, capacity, attempts):

* `TypeCorrect`, `WorkerOwnsHead`, `WakeupsArrive`, `LateCallsBounded`: the four invariants of `message_queue`.
* `ImplementsFifo`: `Spec => FifoImplemented`, the refinement of `MessageFifo`.
* `NoMessageLost`: a message is accepted exactly as long as it is in the queue, a refused one was never handed to the platform, none is
  dropped without a try. `MessagesSettleOnce`: what became of a message is never changed.
* `AcceptedGoOn`: the safety half of `AcceptedSettled`: until the shutdown, an accepted message is in the queue of a
  worker that runs (or has yet to be started) and is awake or about to be woken. What is left to fairness is that it takes its steps.

They follow from one inductive invariant, `IInv`. `TypeOK` bounds the calls of `Send` per message, which needs the link
between `calls` and the `attempts` of the head (`AttemptsAreCalls`: equal, except that one call more is out while its
answer has not been looked at); that in turn needs that no other queued message was ever sent and that delivery ids are
never in two places (`IdsDrawn`, `IdsDistinct`). `ShutdownOrder` says which of the two `closed` flags are set when,
`LateCallIsLast` that a worker that sent after the cancellation can only stop. The refinement has one lemma per step that
is not a stutter (`PushAccepts`, `SendTries`, `SettleLeaves`, `ReturnShuts`) and `StutterStep` for the others. The fates of
messages have an invariant of their own on top of it, `Fates`: a number that is drawn and not pushed is undecided, and a worker
stops only for the shutdown.

`PhotosProofs` (any number of requests, photos and uploads, with failures and crashes):

* `TypeCorrect`, `PositionsContiguous`, `PhotosReadable`, `KeysNeverShared`: the invariants of `photos_safe`.
* `ReordersAreAsAsked`: its action property. `ImplementsList`: `Spec => PhotosAreAList`, the refinement of `PhotoList`.
* `NothingForgotten`: the safety half of `ObjectsNotLeaked` and `DeletedLosesPhotos`. As long as no request is cut off and no removal
  fails (`Forgets`), whenever all requests are answered the store holds the objects of the listed photos and no others, and nothing
  for a deleted record. `NothingForgottenUnfailing` is the case where nothing may fail, which `photos_live` checks.

The inductive invariant `IInv` is `TypeOK` and four parts. `Listing` is contiguity plus what a sum over rows needs: the
rows are finitely many and their ids are distinct. `RequestsSound` says that what a transaction has read is still what
the table holds; it follows from the row lock alone and is the reason why a count of rows is a free position.
`KeysOwned` says that an object is either one row's or one request's, never both; without it a cleanup could remove an
object in use, so `RowsHaveObjects` would not be inductive. The pure part (`RowsBefore`, `OrderIsByPosition`, `Appended`,
`Removed`, `Reordered`) is about sets of rows and the sequence `ORDER BY position` makes of them: `Removed` is where the
shift by one is shown to close the gap, `RowsBefore` that a position is one more than the number of rows before it. Each kind of commit
has one lemma for the invariant (`AppendStep` ... `SweepStep`) and one for the refinement (`AppendAdds`, `ReplaceKeeps`,
`DeleteTakes`, `ReorderRearranges`). `Tidy` adds for `NothingForgotten` that every object is a photo's or still
carried by a request that will remove it (`Accounted`), and that the photos of a deleted record are gone or about to be swept (`Swept`).

`TaggerPoolProofs` (any number of slots and callers, any context size):

* `PoolSound`: `PoolInv`, that is types, `SlotsConserved` and `SessionsWhole`, which is inductive as the conjunction: a session
  that comes back is whole only because the caller that held it held it alone.
* `PoolImplementsAgent`: the pool implements `TagAgent`. The mapping forgets the slots: a call that waits for a slot, asks,
  or puts it back is pending for its caller, and only the answer is visible.

`TaggingProofs` (any number of records, requests, workers, slots; every build of the catalogue):

* `TypeCorrect`, `SlotsSuffice`, `NoTraceOfFailures`, `EveryTagResolves`, `NoChangeForgotten`: the five properties of `tagging`.

The inductive invariant `TaggingInv` adds four parts to them. The pool's `PoolInv` carries over to the instance because every step
of `Tagging` is one of the pool's or leaves it alone. `CatalogReady` says what has been seeded and loaded at each step of the
start-up, which is why a process that serves has every tag a record may name; `RecordsTagged` that a record names a tag of the
table or none, and none no longer once requests are served; `AnswersCurrent` that an answer a worker still holds belongs to the running build, which
is what keeps a late answer from bringing a removed tag back; `NothingYet` that a worker owes no bump before it has written.
`SlotsSuffice` is then a pigeonhole argument over the sessions that workers hold.

`RosterProofs` (any number of staff, sessions, requests, schedules, slots, announcements, deployments):

* `TypeCorrect`, `SessionsNeedALogin`, `DeletedStaffCannotAct`, `OneOfEach`, `HiddenAsMeant`, `RosterStaysSound`, `AddsStayBounded`: all of `roster`.

Five inductive invariants, one per concern, each using the ones before. `Typed` says for every program counter what the request
carries, so that a row it names was found. `AccountsInv`: no version is ahead of the deployed one, and every session, and every
request on its way, is earned by a login; its steps only add to the staff table or delete (`StaffGrows`). `Unique`: one enabled
schedule, one terms of service, and who is still to hide what. `UntilRaced` is `~raced => Sound`: besides what
`RosterSound` says, `Sound` holds of every request that what it has read of its schedule still stands. Each schedule request changes
rows of one schedule only (`OnlyAbout`) and is alone on it (`AloneOn`) unless the step sets `raced`; without that premise
the formula is false, since overlapping requests on one schedule leave what the hazard list names. `RosterSound` says nothing of how often a staff
member is assigned: a single week may name one twice. What the code does promise is about `AddStaff`, and `AddsBounded` holds of overlapping
requests too. Its invariant `AddsInv` counts, for a slot and a staff member, the assignments together with the requests that found none and are about to
insert one (`Inserting`): a request joins them only while there is no assignment, and an insert moves one from the second number to the first, so the sum stays within
the number of requests. Slots that a week fills when it makes them are kept apart by the second part, that nobody is about to insert for a slot that is not
made yet. When requests have not overlapped, `Sound` says that the look still stands, so the insert makes the only one.

Only model-checked: what needs fairness, since TLAPS does not reason about `ENABLED`. These are `AcceptedSettled` (message queue),
`ObjectsNotLeaked` and `DeletedLosesPhotos` (photos); the theorems `AcceptedGoOn` and `NothingForgotten` are their safety
halves. Every other property of a passing run is stated by a theorem, some under the assumptions that run's configuration makes true
(one request at a time, serialized transactions) and some under weaker ones.

## Assumptions

* One backend process runs at a time where the process keeps state of its own (tagger, message queues, `STAFF_VERSION`).
* PostgreSQL runs at its default isolation level, SQLite runs transactions one after the other; both are external.
* The provider reports context sizes of at least one token per message.

## Differences noticed while modelling

These have no run of their own; they are properties of the input or of an answer that the models leave out, or a wording.

* `CONFIGURATION.md:49` says that sessions created with an older version are rejected. The version is kept in the staff
  row, not in the session, and any login or bearer request of the staff member stamps it (`cas_auth.go:102`,
  `keycloak_auth.go:101`): the older sessions are then accepted again. `OldSessionsNeedALogin` states what does hold.
* `ApprovedOncePastPending` is a property of one request at a time. The guard of `MarkArrived` and the others tests the status before its
  transaction: when a confirmation is reverted between the test and the writes, the record is marked as arrived and has no approver, in
  serialized transactions too.
* `API.md:1113-1114` says that a revert is refused when the record has changed since the action. When the cleanup completes a record
  it also stamps `finish_time` of every expired record completed before (`cleanup.go:44`), whose `action_seq` stays: the
  earlier finish time is lost, and a revert does not notice.
* A bearer request that resolved its staff member before they were deleted is served (`DeletedCannotAct` is about requests that arrive after the deletion).
* `ServiceAvailability` reads schedule, slots and assignments in separate statements, and counts assignments of staff members who were deleted.
* `createWeekdaysInTx` checks neither the work year nor duplicates, which `AddStaff` does: a request with `"staff_ids": [1, 1]` assigns twice
  (`work_schedule_service.go:164`; modelled, in `roster`'s weeks). `AddStaff` does not check that the room exists.
* `AddStaff` returns the assignment it finds when its query succeeds, and inserts one otherwise (`work_schedule_service.go:483`): an error
  of the database counts as "not assigned" (modelled, `CheckFails`).
* `binding:"required"` on the weekday (`work_schedule_handler.go:26`, `:58`) refuses 0, which is Sunday.
* Two requests that enable two schedules, or create two terms of service, at once: the index refuses the second one, which is
  answered 500 and not 409.

## Not modelled

* The fine interleaving of `Booking` with the steps of record actions (a staff action is atomic there).
* Commits that are reported as failed and did take effect (`photo_service.go:170`). The photo module would have to tell "failed" from "unknown".
* Lock order between `Update` and other record actions (`transitions.go:163`): PostgreSQL aborts one of the two, which is `Fail`.
* Sync counters other than the records', and the client that polls them; the counter itself is in `Tagging`.
* The identity provider and its keys (JWKS cache, signatures, clock skew), API-key clients, cookies.
* The NapCat client: one HTTP call per message, which is `Send` and `Answer` of `MessageQueue`, and a directory that is replaced as a whole.
* Lists, views, filters, the availability calendar, the HTTP layer, formatting, the contents of messages and of the
  model's answers; the legacy API (translations onto the services); the object storage client beyond `Photos`'s `objects`.

## Plan

Done: records, bookings, photos, message queues, tagging, administration, and the theorems above. Left, in the order of value:

1. What overlapping requests may still do to approvers and tickets, stated as bounds like `OverbookingBounded` instead of assumptions.
2. A polling client for all counters, with reads in between the write and the bump.
3. `RowLocks`: the lock order of `Update` against the others, with deadlock detection as the abstract remedy.
