# A verification of the DDD service

TLA+ specifications of the service in this repository, checked with TLC on
small instances and, where it matters most, proved with TLAPS for every value
of the constants.  `PROJECT.json` lists the components, the runs, the map from
every definition to the lines it models, the hazards and the theorems.

## 1. The system

One process type serves HTTP (`app/restful_server.py`, gunicorn with uvicorn
workers); each request is a coroutine.  Another (`app/message_queue_consumer.py`)
supervises a worker process that consumes messages from RabbitMQ.  A container
started in a third mode migrates the database (`alembic upgrade head`).  All use
PostgreSQL through SQLAlchemy, but for the consumer, whose handler only logs.

| component | state it keeps | operations | what makes it correct |
|---|---|---|---|
| domain entity (`domain/entity/your_aggregate.py`) | value, status, operation histories, pending events | create, update, void, delete | a voided aggregate refuses every history entry; a history tells only what changed |
| command endpoint (`port/restful/handler/.../your_aggregate_handler.py`) | the answer so far | `command`: one controller call per payload element | the answer says what was committed |
| controller decorator (`adapter/controller/base.py`) | none; uses the request's session provider and publisher | `connect_db_session`: open, run, flush, commit or roll back, publish | a call is one transaction; messages leave after it |
| session provider (`adapter/repository/base.py`) | the session and a count of nested scopes, per request | `__aenter__`, `__aexit__` | only the outermost scope commits; every path returns to zero |
| repository (`adapter/repository/`) | rows of `your_aggregate`, its archive and `domain_event` | `_load` (FOR UPDATE), `_get_model`, `_save`, `_search` | no lost update, no resurrection, one archive entry and one event per change |
| event bus and handlers (`core/ddd_base/event_bus.py`, `adapter/event_handler/`) | subscriptions, fixed at import | `publish_all`, one handler for creation, one for voiding | a handler's writes belong to the call that caused them |
| publisher (`packages/message_queue/rabbitmq_message_queue.py`) | messages waiting for the end of the call | `push_message`, `publish_messages`, `clean_messages`, `publish_raw_message` | announces what was committed and nothing else |
| event tracing (`core/ddd_base/use_case.py`) | a slot in each use case, shared by the coroutines of a worker | set by the controller and the handlers, taken at the save | an event carries the trace of its own request |
| consumer (`packages/message_queue/rabbitmq_message_queue.py`) | the delivery in hand, attempts left in the message | handle, delay, retry, acknowledge, stop | no message lost, attempts bounded |
| supervisor (`app/message_queue_consumer.py`) | the future of `serve`, `restart_count` | run `serve` again, give up, shut down, be interrupted | restarts are for real failures; the shutdown ends and leaves no consumer |
| search and export (`_search`, `create_search_key_regexp`, `create_sort_by_exp`) | none | filter, sort, count, page | the rows asked for, in the order asked for, over all pages |
| migrations (`alembic/env.py`) | the advisory lock, the version table | `run_migrations_online` | every revision once and in order; one at a time once there is a version table |

How they interact.  A request's coroutine calls the controller; the decorator
enters the request's session provider, sets the trace of its use case and runs
the use case, which loads with a row lock, changes the entity and saves.  Saving
flushes and then runs the event's handlers in the same coroutine, in a nested
scope of the same session.  Leaving the outermost scope commits; only then is
what the handlers queued published to RabbitMQ.  Requests meet in PostgreSQL
(rows and locks), coroutines of one worker also in the use cases, which are
singletons.  The consumer reads its queue on its own; the supervisor knows it by
its future and by signals.  Migrations meet each other only, in PostgreSQL's
catalogue, version table and advisory lock.

The hard behaviours are the interleaving of requests on the same rows, the
nesting of session scopes by event handlers, failures in the middle of a call,
commit and publication being two steps, slots shared across awaits, two
statements of one search, the acknowledgements and retries of the consumer, its
restarts and shutdown, and migrations that start at once.
`PROJECT.json` lists each, at its line, under `hazards`.

## 2. The modules

| module | models | composed with |
|---|---|---|
| `YourAggregate` | the entity: a row, what each command makes of it, its operation history and its event | |
| `AggregateLedger` | the abstract specification: what the three tables promise | |
| `CommandService` | the write path: requests, sessions, locks, transactions, event handlers, announcements, failures | EXTENDS `YourAggregate`; `Ledger == INSTANCE AggregateLedger` |
| `CommandServiceProofs` | the theorems about `CommandService`: locks, journals, rows | EXTENDS it |
| `CommandCallsProofs` | those about its calls: atomicity, answers, announcements | EXTENDS `CommandServiceProofs` |
| `Tracing` | the slots of the use cases and the trace of each event | |
| `TracingProofs` | the theorems about `Tracing` | EXTENDS it |
| `AtLeastOnce` | the abstract specification of the consumer: messages pending, handled, given up | |
| `MessageConsumer` | the consumer process, its queue, retries, failures and stop | `Promise == INSTANCE AtLeastOnce` |
| `MessageConsumerProofs` | the theorems about `MessageConsumer` | EXTENDS it |
| `ConsumerBoundsProofs` | those that bound its repetitions and attempts | EXTENDS `MessageConsumerProofs` |
| `Supervisor` | the pool, its restarts, the shutdown, signals to one process or all | EXTENDS `MessageConsumer`, whose `Restart` it decides |
| `SupervisorProofs` | the theorems about `Supervisor` | EXTENDS it and `ConsumerBoundsProofs` |
| `Migration` | processes that migrate one database at once | |
| `MigrationProofs` | the theorems about `Migration` | EXTENDS it |
| `Search` | filters, search keys, order, pages; a client reading pages while others write | |
| `SearchProofs` | the theorems about `Search` | EXTENDS it |
| `MC...` | instances of the six for TLC | EXTENDS each |

### State and actions of CommandService

A request is a coroutine, so a step runs from one await to the next; `pc` names
the await at which it is suspended.

| model | code |
|---|---|
| `pc`, `at`, `resp` | where `command` and the controller's loop are, and the answers so far |
| `session_count`, `msgs` | the request's `SessionProvider` and `RabbitMqPublisher`, context variables set anew by the middleware |
| `agg`, `found` | the entity in the coroutine's hands; what `save_your_aggregate` found |
| `written`, `logged` | the transaction's uncommitted rows and archive/event entries |
| `rows`, `journal`, `lock` | the tables and PostgreSQL's row locks |
| `Enter` | the next payload element: `__aenter__` of the outermost scope |
| `BeginCreate`, `BeginLoad`, `Load`, `LoadRefused`, `LoadMissing` | the use cases up to `_save`: `SELECT ... FOR UPDATE`, then the entity's operation |
| `GetModel`, `Save` | `save_your_aggregate`, `_save` with its flush, then `publish_all` into the nested scope |
| `ReadVoided` | `handle_your_aggregate_voided`, an unlocked read and `push_message` |
| `BeginCommit`, `Commit`, `CommitFails` | `__aexit__` of the outermost scope |
| `Publish`, `PublishFails` | `publish_messages`, after the commit; one that fails may have reached the broker or not, and keeps its messages or not |
| `StatementFails`, `DeadlockVictim`, `Unwind`, `Crash` | a statement's exception, PostgreSQL's deadlock detector, the except clauses, the death of the worker; `Unwind` leaves the nested scopes one by one |

The database is PostgreSQL's READ COMMITTED: a transaction sees its own writes
over the committed rows; `FOR UPDATE` and writes wait for the row's lock and
then see the latest committed row.  A new uuid is nobody else's: `BeginCreate`
takes an unused id, and its lock at once, so that no two requests draw the same.
One controller call has one item when it comes through REST and several only
through the controller; both are modelled.  `Crash` takes one request at a time.

### The other modules

`Tracing` has the same steps, for the coroutines of one worker, without rows and
locks: a load, a save or a commit may always fail (`Leave`).  `use_case` holds
the slots of the controller's and the handlers' use case.  Each event records
for which request, item and handler it was made and which requests had overlapped
its call; the properties read these, no action does.  Every request is its own
trace id.

`MessageConsumer` keeps a delivered message at the head of `queue` until its
acknowledgement; a retry or a deferred message is a new copy at the tail.  `pc`
names the point of `start_consume` or of the callback, or how `serve` ended.
The code sets no prefetch limit, so a process that lost its connection may have
any number of deliveries left (`prefetched`): it handles them, and the
acknowledgements go into a connection that is gone.  `abandoned` are the messages
that were delivered and, for all the broker knows, never acknowledged, these among
them; `End` puts them back when the connection closes.  Before
`RabbitMqConsumer.__init__` (`"start"`) its signal handler is not there, and a
signal meets the one the worker inherited, in which it hangs (`"hung"`).  Time is whether a waiting
message is due.  A publication that fails may have reached the queue
(`MaybeSent`), and `RetryFails` has every way on of the except clauses: the
exception ends `start_consume`, breaks its loop, or lets it subscribe again.

`Supervisor` adds the main thread: `Resubmit`, `GiveUp`, `LoopEnds` and
`SubmitFails` are what a done future leads to in the loop, `Terminate`,
`WaitEnds` and `WaitTimesOut` the shutdown, `Interrupt`, `InterruptGroup` and
`Exit` a signal to the supervisor, which leaves the main thread where it was and
waits in `executor.shutdown`.  The future is what `MessageConsumer`'s `pc` says.
What the pool does is modelled from its use: a worker that dies breaks it, a
submission to a broken pool raises, and idle workers, forked with the
supervisor's signal handler, wait in it for a lock nobody will release
(`idle_stuck`): only the kill ends them.  `WorkerSignalled` says what a signal
meets in the busy worker: the handler of its consumer, the inherited one if it has
not made a consumer yet, or that of the consumer it had before a restart, which
does nothing to the new one.

`Migration` has a step for each statement of `run_migrations_online` and of the
`run_migrations` it calls.  `pending` is what an open transaction has created, for
which a CREATE of another waits and then fails; `holder` has the advisory lock.
The first migration finds no version table and takes no lock: `CheckVersionTable`
goes past `Lock`.  `conflicted` is a process that failed because of another,
`failed` one that failed by itself or died; both are started again (`Retry`).

`Search` splits a search into the statements `Count` and `Page`; `Write` is
another request's commit between any two statements.  Strings are sequences of
letters, because what a regular expression with anchors finds in them is the
point.  Where the ORDER BY leaves a choice, every order is possible.

## 3. What the runs check

| run | instance | what it shows |
|---|---|---|
| `commands` | 3 requests, each any one command on one stored or a new aggregate, an update that changes nothing and a voiding in a batch that fails half way and is tried again by the same request included; statements fail, workers die | types; the committed journal is legal and the row is what it left; creations are complete; what is saved is current; writers hold locks; the ledger is implemented; voided and deleted are final; a voiding answered with success is announced once |
| `batches` | 3 requests with batches on two aggregates in both orders, and a deletion; statements and commits fail; deadlocks | calls are atomic, and complete if answered with success |
| `calls` | 2 requests of one or two calls, or a batch on two aggregates in either order; statements and publications fail, workers die; fair | nothing is held between calls; answers are true; only committed voidings are announced; every request is answered |
| `spurious_announcement` | 1 request of two calls; COMMIT fails | *violated*: the next call publishes the announcement of a voiding that was rolled back |
| `traces` | 3 requests of one worker: a voiding, a creation, a batch, two calls | of the events with no parent no more carry a request's trace than it has begun calls; no slot reaches a later call; a call that overlaps no other is traced right |
| `deliveries` | 3 messages with 2 and 0 attempts and no limit, the last perhaps malformed; every fault, 2 mishaps | `AtLeastOnce` is implemented; no message is lost; repetitions and attempts are bounded, doubling with each mishap; none is given up early |
| `supervision` | an unlimited message and one with 2 attempts, perhaps malformed; every fault, 1 mishap, 2 restarts, signals to the consumer, the supervisor or all; fair | restarts are paid for by failures; messages that parse are settled while the supervisor watches, the limited and the unlimited alike; a consumer told to stop stops, and is never left behind; the shutdown ends |
| `lost_connection` | the connection breaks | *violated*: `start_consume` does not consume again |
| `migrations` | 3 processes, 3 revisions of which one changes data only; every state the database may be in; 2 mishaps; fair | each revision is committed once and in order; with a version table nobody fails because of another and what the lock's holder read is current; the lock ends with its process; all processes are done in the end |
| `searching` | 3 aggregates, every table over 4 rows, every operator, filter and order, pages of one; 2 writes | each statement finds what was asked for; a quiet or growing table hides no row from a client that pages |
| `search_keys` | two search keys | *violated*: an exact match with two keys matches more |
| `date_range` | the parameter's one value | *violated*: the range is ignored |

The violations are quoted with the lines they contradict under `findings`.

**Bounds.**  Conflicts are between two transactions on a row, deadlocks between
two on two rows; three requests add the case of a third that comes after.  One
stored aggregate and a new one cover every branch of a load and of a save.
Batches of two distinguish "all" from "some"; two calls in one request show what
one leaves to the next.  Nothing in the code counts requests, ids or items.  The
suffix that the creation's handler appends is closed at one: the values are two
originals and their suffixed forms.  In `traces` at most one body is a long one
(`OneLong`), which keeps three coroutines within reach: a slot has one writer
and one thief, and the third is the innocent.  In `MessageConsumer`,
`MaxMishaps` bounds failing connections, publications and crashes and
`MaxFailures` the failing of a message without limit.  Two mishaps in `deliveries`
let a publication fail and leave two copies, of which a lost connection then brings
both back: the repetitions double twice, and the bounds follow the number of mishaps
from there, which the proofs show for any number.  `supervision` needs one, besides
the failures of the handler and the signals, which are not counted: a mishap by which
`serve` ends, and a second end by a message that does not parse or by a signal.  In `Supervisor` two
restarts stand for ten: the code only compares `restart_count` with
`RESTART_MAX_NUM`, and two allow the case that one failure follows another and
the case that the limit is met with a failure or a signal to spare.  In
`Migration` two processes race and a third comes after, during or before; three
revisions have a first, a middle and a last one, and the middle one creates
nothing, so that only the version table protects it; two mishaps let both racers
fail.  In `Search` a page
boundary between any two of three rows, with two writes around it, covers
insertion, update and deletion before and after it.

**Fairness.**  `calls` assumes that a coroutine whose await completed is resumed
(the event loop) and that PostgreSQL breaks deadlocks; failing, crashing and
publishing badly are never required.  `supervision` assumes that the operating
system runs the supervisor and the worker, each of them weakly fair, and that
time passes, for delayed messages and for the supervisor's timeouts; no fault and
no signal is required.  `EveryMessageIsSettled` is about the time that the
supervisor watches, for every message that parses, and leaves out what a connection
error in a retry's publication parks with a consumer that goes on, and a worker that
a signal hung before it had its consumer: it never ends by itself, and the supervisor
sees a future that runs.  `migrations` assumes that every
process runs, that waiting in PostgreSQL ends with what is waited for, and that a
container whose migration failed is started again, which is the platform's doing
(a `restart` policy) and not `startup.sh`'s.

**Deadlock** is checked in every run; `AllOver` is the stuttering of a system
whose requests, messages, processes or pages are done, or whose worker hangs in its
inherited handler.  `SAllOver` also covers an
interrupted supervisor that waits for idle workers for ever: the code does that.

## 4. What is proved

Every safety invariant, action property and refinement that the runs check is a
theorem.

`CommandServiceProofs` proves, for all requests, ids, values, bodies, seeds and
faults, that `IInv` is an invariant of `CommandService`, and from it: the types
(`TypeCorrect`), `AuditTrailAlways`, `CreationAlwaysComplete`, `NeverStale`,
`WritersAlwaysHoldTheLock`, `NothingEverHeldBetweenCalls` (for failing commits
too, which the run `calls` leaves out), the refinement `ImplementsTheLedger` and
the action property `Finality`.  `AnnouncedAlwaysVoided` needs that COMMIT never
fails, and `spurious_announcement` shows why.  The assumptions are those on the
constants, named in the modules, which TLC evaluates in every run.

The invariants the runs check are not inductive: `AuditTrail` speaks of
committed rows, and a commit is legal only because of what the transaction has
gathered.  `IInv` says it for every coroutine:

- `Progress`: where it is in its payload, and the session count that belongs to
  each await;
- `Released`: outside a transaction it holds no lock and nothing uncommitted;
- `LineLegal`: the committed journal continued by what it has logged is legal
  and its view of the row is what that line leaves;
- `HandsLegal`: so is the line continued by the entity in its hands, whose lock
  it holds;
- `CreationPending`: a creation without its update is the one it is at.

`WritersHoldTheLock` is what carries these over the steps of the *others*: a
commit changes the journal of an id only under its lock, so every line another
request relies on stays as it was (`OthersKeep`).  Each action has a lemma; the
quiet ones share `QuietStep`.

`CommandCallsProofs` proves that a call is all its items or nothing
(`CallsAlwaysAtomic`), that its answer says which (`AnswersAlwaysTrue`) and that a
voiding answered with success is announced once (`VoidingAlwaysAnnouncedOnce`).
`IInv` says whether each line is legal, not whether it is all there; `CallInv` adds

- `InCall`: the item and the scope reached, and the event in hand;
- `WorkDone`: what is logged is the current call's, and as many entries as the
  items done so far make;
- `Outcome`: the committed journals have all of an answered call, or none of it,
  as its answer says; of the call whose answer is due, as its stage says; nothing
  of the calls to come.

Entries are counted as places in the journals, so that a commit, which appends the
logged entries, adds exactly as many (`OneMorePlace`, `Joined`).  The third property
is about a service whose commits and publications do not fail, as it says itself:
after a COMMIT that failed, the next call of the request announces what was rolled
back (`spurious_announcement`), and a later voiding announces it again; of a
publication that fails nobody knows whether it arrived.  `Announcing` says that no
two requests have the same id to announce (`Apart`: the lock and the finality of a
voiding), that none has one that is out (`Untold`), that the exchange has each once
(`ToldOnce`) and what was answered (`Kept`).

`MessageConsumerProofs` proves, for every queue of messages, attempt numbers,
malformed messages and any number of failures, that `MessageConsumer` loses no
message (`NothingEverLost`), gives none up before its attempts failed
(`NeverGivenUpEarly`) and implements `AtLeastOnce` (`ImplementsAtLeastOnce`).
The invariant adds to these `InHand` (the callback's message is the head of the
queue: its copy can be found again when the callback fails) and
`AttemptsAreCounted` (every copy, and the message in hand, has left what its
failures and the mishaps have not used up: without it the last decrement says
nothing of the earlier ones).  The argument turns positions in the queue into the
set of copies that wait (`PendingIsUnsettled`), of which a step takes one, adds
one or moves one; each step then settles a message, brings one back, or stutters
in `AtLeastOnce` (`Settles`, `ComesBack`, `Stutters`), and `NothingGetsLost` takes
`NoMessageIsLost` over every step of `AtLeastOnce` at once.

`ConsumerBoundsProofs` proves how far mishaps multiply a message.  One mishap may
make two copies of it (a retry's publication that arrived although it failed, whose
callback is never acknowledged); another, a lost connection, brings back *every*
delivery the process had or took from it, handled or not, because nothing limits
the prefetch.  So n mishaps make of one message `Repetitions(n)` = 2^(n+1) - 1 at
most: it is handled, and waits, no more often than that (`RepetitionsAlwaysBounded`),
and its handler fails `attempt_number` times that often (`AttemptsAlwaysBounded`).
The two are one argument with two weights: a copy counts 1, or the attempts it has
left.  `StillDue` is the weight of the queue and of the abandoned, less the delivery
in hand, plus the message in hand until it is handled or published, plus
`ComingBack`: the deliveries that a lost connection left with the process.
`BoundsInv` says that what happened and what is due together are within the bound;
it is inductive only with

- `Prefetches`: these deliveries are the front of the queue, and a process without
  a connection to lose has none;
- `OnlyCopies`: what is published again has at most the attempts it came with.

A step without a mishap is paid for by what was due; a mishap at most doubles what
was used and due, and adds the delivery in hand (`Paid`, `StepPays`; `RepetitionsGrow`
is the same recurrence of the bound).  The lemmas about weights (`Units`, `Weight`: of
an append, a tail, a concatenation, a front) hold for any weight.

`SupervisorProofs` proves, for every limit on restarts and every signal, that each
restart has a cause (`RestartsAlwaysHaveCauses`) and that the end of the supervisor
is the end of its consumer (`NothingEverLeftBehind`); and that a consumer which is
restarted, signalled and killed still loses nothing, keeps both bounds and implements
`AtLeastOnce`: each step of `Supervisor` is one of `MessageConsumer`, or
leaves its variables alone (`AnyStep`).  `CausesInv` says when a restart is paid
for: as soon as something happened that will end the process (`Owed`), and before
the loop takes notice.

`MigrationProofs` proves, for any number of processes, revisions and failures,
everything the run checks but the liveness.  `RevisionsAreAppliedOnce` does not
follow from the lock, which a first migration does not take.  `IInv` has

- `Committed`: the committed objects are those of the committed revision;
- `CreatedByOne`: no object is in two open transactions, and none of them has
  what is committed;
- `Prepared`: what a process has created and read at each statement;
- `OneCommits`: one process at most has its stamp and not its commit, and it
  has read the committed version;
- `Locked`: with a version table from the beginning, whoever is past the lock
  holds it and read the committed version;
- `LockEndsWithItsProcess`.

`TracingProofs` proves, for any number of requests, bodies and items, that a trace or
parent only comes from a call that overlapped, and that an undisturbed call is traced
right.  These speak of events that were saved; `IInv` says of what the next save will
find

- `AllMet`: of two calls that run each has met the other;
- `SlotsAreMet`: what a running call can find in the slots is its own or of a
  call it met, whoever put it there and however that call ended;
- `QuietSlots`: a call that met nobody finds what it put, the trace at its first
  load and nothing later, the parent in its handler;
- `OwnEvents`: the event it hands to the event bus is its own.

`SaveStep` derives these properties of one more event (and that a child is in its
parent's trace, as a step of the proof) from the slot it was
saved from, once for the controller and the handlers; `GoesOn` and `Entered`
carry the rest over the steps inside a call and into one.

`TracesAlwaysTakenOnce` counts: the events without a parent that carry a request's trace, whoever
saved them, and the one that waits in the slot if it is that trace, are together at most
the calls the request has begun: two saves never take the same filling of a slot.

`SearchProofs` proves, for any number of rows, any request and any number of writes,
that a client that reads page after page gets every row once from a quiet table
(`QuietPagesAlwaysComplete`), and every row of the beginning from one that grows
(`InsertsNeverHide`).  A row's `Place` is the number of rows before it in the order:
it belongs to the row and the table and to no page, and so can be compared between
two statements.  Where the order has no ties, a statement returns each row at its
place (`PlaceInList`), and an insertion only moves places up (`Growth`); so what is
in a place before the offset was read (`PagesAreRanked`, `Passed`).

`ResultsAlwaysAsked` shows that with one search key a statement finds what was
asked for, whatever the letters.  It is about the requests that the descriptions
are about (`Described`), as are all those of the run: a key comes with fields to
look for it in, and the fields, the date field too, are ones the repository knows
(`date_range` shows what happens to another).  Its core is `OneKeyIsDescribed`: the
anchored regular expression finds the prefix, the suffix and the exact match that
the description names.

The proofs use nothing about the constants but the assumptions named in the
modules; a theorem that needs more has it as a hypothesis in its statement.

Only model-checked: all liveness (`RequestsFinish`, `EveryMessageIsSettled`,
`StopsWhenTold`, `ShutdownEnds`, `EveryProcessIsDone`), which rests on fairness and
ENABLED, out of the prover's reach; and the absence of deadlock.  The properties
that TLC refutes are not theorems, but for `AnnouncedWasVoided`, which is one where
COMMIT does not fail.

## 5. Not modelled, and why

- Cancellation of a coroutine (`CancelledError` passes the `except Exception`
  clauses), and a rollback that raises itself before `clean_messages`.
- A creation without a value object: saving it raises before its handler could
  see it.
- A kill of the supervisor itself, whose workers it leaves without a parent.
- The pool of 50 connections: a request uses one session at a time.
- A restart of the broker (the exchange is not durable, messages are
  transient), and several consumers on one queue.
- Between the loop's test and `start_consuming` a signal has nothing to cancel:
  such a consumer runs until the supervisor kills it.  `StopsWhenTold` leaves
  out that gap; `ShutdownEnds` does not.
- The death of an idle worker of the pool, which breaks it as that of the busy one
  does; `serve` of an unknown exchange, which cannot be submitted; messages that
  handlers queue in the consumer, for the one there is queues none.
- How a container is stopped and started: `startup.sh` runs its program as a child
  of bash, and signals and restarts are the platform's.
- Alembic's offline mode and downgrades, which `startup.sh` does not run, and the
  time PostgreSQL takes to notice that a client is gone: a dead process's lock is
  released at once.
- A negative offset, which PostgreSQL refuses; a negative limit is none, as 0 is.
- Reading one aggregate; the layout of answers and spreadsheets; HTTP, tokens, logging,
  configuration; the template tool.

## 6. Plan

Done: the entity, the ledger, the write path, tracing, the consumer with its
abstract specification, the supervisor, the migrations and search, each with
proofs of all of its safety properties.  Next, in this order:

1. What the liveness runs rest on and can be proved as safety: that a request
   between its calls, a process in the middle of a migration or a supervisor in
   its shutdown always has a step of its own to take, stated without ENABLED as
   the guards of its actions.
2. Search without the assumption that created_at has no ties: which rows a client
   may miss then, as a property with its proof.
