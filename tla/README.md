# TLA+ specifications of Monit

Monit is a website monitor written in Go. Every instance of the service runs an HTTP API and a
pipeline of goroutines that checks the registered URLs; all instances share one PostgreSQL
database and one Redis. This directory has TLA+ models of the parts that carry its logic, TLC
configurations that check them on small instances, and TLAPS proofs of the properties that
matter most, for every value of the constants.

Paths below are relative to the repository (`src/` in `PROJECT.json`). `PROJECT.json` maps every
definition to the lines it stands for, lists the runs, the mutants that show that each property can
be broken by a plausible bug, the findings, and the hazards the properties were written for.

## Inventory

| Component | State | Operations | Module |
|---|---|---|---|
| Scheduler (`internals/modules/scheduler`, Lua scripts) | `monitor:schedule`, `monitor:inflight` (Redis sorted sets), the batch being dispatched | fetch a batch and move it to inflight, dispatch, back off when `jobChan` is full | `Pipeline`, abstractly `CheckCycle` |
| Reclaimer | `monitor:inflight` | put entries whose visibility timeout is over back into the schedule | `Pipeline` |
| Executor | `jobChan`, worker pool, HTTP semaphore, `resultChan` | load the monitor, check the URL, classify the outcome | `Pipeline`, loading in `MonitorService` |
| Result processor | `resultChan`, `successChan`, `failureChan`, worker pools | route, acknowledge, reschedule, quick retry, open and close incidents | `Pipeline` (jobs), `Incident` (incidents) |
| Incident and retry keys | hash `monitor:incident:<id>`, counter `monitor:retry:<id>`, table `monitor_incidents` | count, mark alerted, mark stored, create, close, clear, expire | `Incident`, abstractly `IncidentTracker` |
| Alert service | `alertChan`, worker pool | consume alerts (the code logs them) | `Incident`, `Pipeline`, `Shutdown` |
| Monitor service | table `monitors`, `users.monitors_count`, cache `monitor:<id>` | create, get, enable, disable, load for the executor; list page by page | `MonitorService`; `Listing`, `Api` |
| Startup and shutdown (`cmd/api`, `internals/app/container.go`) | the context, the channels' closed flags, wait groups | signal, closing stage by stage, waiting | `Shutdown` |
| User service, authentication (`internals/modules/user`, `internals/security`, `internals/middleware/authentication.go`) | table `users`, tokens that clients hold | register, login, profile, let a request through | `Accounts`; the monitor count in `MonitorService` |
| Errors and responses (`pkg/apperror`, `pkg/utils`) | none | wrap a query's error, choose the status | operators of `Accounts` |
| Routing | none | which operations are behind the authentication, request timeout | `Api` |
| Configuration, other middleware, generated queries | none that changes at run time | | constants and guards of the modules above |

How they interact. A monitor created through the API is stored in PostgreSQL and put into
`monitor:schedule`. A scheduler moves due monitors to `monitor:inflight` and sends them down
`jobChan`. An executor worker loads the monitor through the cache, takes a slot of the HTTP
semaphore, and an HTTP goroutine performs the check and sends the result down `resultChan`. The
router hands it to a success or a failure worker, which updates the incident, acknowledges (removes
the inflight entry) and schedules the next check. Entries that are never acknowledged are put back
by the reclaimer of any instance.

What is hard about it:

* *Crashes and failed calls.* Nothing is transactional across Redis, PostgreSQL and the process.
  Errors are mostly logged and ignored, so what survives depends on the order of the calls.
* *Interleavings.* Several instances work on the same sorted sets; inside one there are hundreds of
  goroutines; a monitor can be in the hands of two of them when the visibility timeout ends early or
  a `ZADD` is repeated by `retry()`.
* *Bounded resources.* Five channels, four pools and a semaphore in a row: a full one blocks the
  stage before it, and a failure worker that waits for room in `alertChan` has not acknowledged yet.
* *Concurrent requests.* Registrations race for an address, status updates of one monitor overtake
  each other, and a client pages through a list that changes under it.
* *Stale reads.* The executor and API requests fill the same cache, for 24 hours, with rows they read
  before a concurrent update.
* *Shutdown.* The context that every Redis and PostgreSQL call uses is cancelled before the drain
  begins, and closing a channel somebody still sends on panics.

What makes each part correct: a monitor is never lost and never handled twice (pipeline); an alert
is raised once per incident, after the threshold, and the incident row can be closed again
(incidents); the quota holds, a monitor is served to its owner only, and enabling and disabling take
effect (monitor service); an account that was created is kept and can log in, errors are answered
as what they are, a list is complete (API); nothing panics, nothing is left behind and the process ends (shutdown).

## Modules

### Pipeline and CheckCycle

One variable per Redis sorted set (`schedule`, `inflight`), the batch of every scheduler (`popped`),
the job copies that channels and goroutines hold (`job`), and per instance the alerts in `alertChan`
and with the alert workers. A copy has a monitor, an instance, a
stage and, once checked, a result; a channel, a pool or the semaphore is the set of copies at its
stages, and its capacity is a guard on the size of that set. `retired`, `exposed` and `reissued`
are history variables that name why a monitor may be missing from Redis or be there twice.

* A score is a wall-clock deadline that is only compared with "now", so a schedule entry is
  "waiting" or "due", an inflight entry "held" or "expired", and `BecomesDue` and `Expires` are the
  passing of time.
* A Lua script is one step. A `ZADD` through `ScheduleMonitor` is one step that works or fails after
  `retry()` has given up (`ScheduleFails`); `ScheduleReplyLost` is an attempt that was carried out
  without the caller learning of it, after which the call goes on. Every `Schedule` call has it: of
  the workers, of the request that creates the monitor and of a scheduler under backpressure, whose
  entry (2 s) is due before a reply is given up (3 s).
* Handlers are cut where another process can tell: `AckBeforeReschedule` and `Reschedule` are two
  steps, so is the quick retry (`ScheduleRetry`, then the deferred `AckAfterRetry`), so are the
  `INSERT` of `CreateMonitor` and its `ZADD` ("creating"), and a scheduler's decision to put a job
  back and the `ZADD` it waits for ("backoff"). The `INSERT` may commit while its reply is lost: then
  the request returns the error and nobody schedules the monitor, which is `exposed`.
* A failure worker that won the alert (`DecideAlert`) blocks in `SendAlert` while `alertChan` is full,
  its deferred calls still to come; `TakeAlert` and `HandleAlert` are the alert workers. Who wins is
  `Incident`'s question, so here any failure may.
* `Outcomes` says what the checked sites do. It is all of `Results` but in `pipeline_instances`.
* `NotMonitored` may happen to any loaded job: the row can be gone or disabled, which
  `MonitorService` looks at in detail. The `retryCount` decides between `TakeRetryPath` and
  `AckBeforeReschedule` in `Incident`; here both are possible.
* `Crash` empties an instance and leaves Redis alone.
* The order within a channel is left open: all properties hold for any order.
* `JobIds` bounds the job copies alive at once; with none free, `Dispatch`, `Backpressure` and
  `CreateMonitor` wait.

`CheckCycle` is what all this promises of a monitor: it is at one place at a time and goes from the
request that stores it into the schedule, from there into a batch, to the goroutines (a scheduler
that puts it back is one of them) and from them into the schedule again, or its checks end; it gets
lost only in a step that counts a fault, and only the reclaimer brings it back. A monitor that was handed out twice is "reissued" and nothing is
promised of it. `Place` is the refinement mapping: the schedule entry, the batch or the copies that
somebody will still act on say where a monitor is, in this order. A step of the system may move
several monitors (a batch, a crash), so a step of `CheckCycle` lets every monitor move.

### Incident and IncidentTracker

One monitor and the workers that handle its results, possibly several at once. `handler` says which
call of `handleSuccess` or `handleFailure` a worker makes next; each call is a step that works,
fails, or, for `HINCRBY` and `INCR`, is repeated by `retry()` although it had worked. The hash is
three variables, "missing" is zero and false. `TakeTerminal` is a result that ends the monitoring.
`IncidentTracker` is what the hash promises to the rest: failures are counted, one alert after the
threshold, recovery forgets. The status hash is left out, as nothing reads it.

When the hash is deleted by a success or a disabling while another worker is between `HINCRBY` and
`HSETNX`, the `HSETNX` creates a hash that holds nothing but `alerted`. The history variable
`orphaned` names these workers, and the tracker allows for exactly them: `late` is a decision taken
at the threshold, before the last recovery, whose alert may still come. Nothing else may raise an
alert below the threshold, whatever overlaps, fails or crashes. `raced` names the overlaps and
disablings after which a row may stay open with no flag that says so.

### MonitorService

The two tables, the cache, and per request or executor worker the call it makes next. The pipeline
is reduced to what the service can see: an entry in `monitor:schedule`, an entry in
`monitor:inflight`, and the worker that has the monitor, first the executor's, then the result's. The
acknowledgement and the `ZADD` are two steps (`Acknowledge`, `Reschedule`); after a quick retry the
acknowledgement comes last (`lateAck`), when the monitor may have been handed out again. `Crash` ends
any of the requests and workers. One handling per monitor is looked at; the overlapping ones of a
reissued monitor are in `Pipeline`. `Creators`, `Readers` and `Updaters` say which
requests do what, so that an instance can have two concurrent updates without the product of
everything. `Direct` requests call the service without the HTTP handler's validation: as the handler
is written it rejects the body that disables a monitor (see Observations), and the service's own
behaviour deserves to be checked all the same. Failed reads that change nothing are
not steps.

An `INSERT` or `UPDATE` that reports an error may have committed (`InsertMonitor`, `SetEnabled`), and
then nobody goes on to schedule the monitor. `dropped` is the set of monitors that are in neither
sorted set and with nobody who will put them there. `EnabledIsTracked` says how an enabled monitor
gets there: a `ZADD` that fails, or that a crash forestalls, after an `INSERT`, an `UPDATE` or an
acknowledgement; an `INSERT` or `UPDATE` in doubt; a terminal failure; the `ZREM` of a disabling that
an enabling has overtaken; a late acknowledgement that takes the entry of the next handling. Nothing
else does, and each of them lasts, since enabling an enabled monitor is a no-op.

### Accounts, Listing and Api

`Accounts` has the row of one e-mail address, whether a client holds an unexpired token, and the
requests in progress, call by call: `Register` hashes, `CreateUser` inserts under the `UNIQUE`
constraint, `GetUserByEmail` reads the row and `Authorise` compares with what was read. A hash is a
term that only the same password verifies. A query may fail in the three ways the code tells apart
(`QueryErrors`); one that ends with the context or the connection may have been carried out
(`InDoubt`). `WrapRepoError`, `LogInError` and `GetHTTPStatus` turn it into the answer, which the
history keeps. The middleware is the guard of `Authenticate`.

`Listing` is one user's rows with their `updated_at`, the order `ORDER BY` gives them (any, among
equal times), and a client that goes through the pages. An `INSERT` takes its time when it starts
and is visible when it commits, so rows may appear in the middle of the list.

`Api` composes the two: creating monitors and reading pages are requests behind the middleware of
`Accounts`, acting on the rows of `Listing`, with logins, expiring tokens and failures in between.
Quota, cache and schedule of these monitors are in `MonitorService`.

### Shutdown

One instance from the first job to its exit. Messages have no identity: `at` counts them at each
stage. `main` is where the main goroutine is in `main` and `Container.Shutdown`, `closed` is the set
of closed channels, and a send on one of them is `Panic`. A goroutine pool is over when its channel
is closed and empty and none of its members holds a message. After the signal calls to Redis and
PostgreSQL fail: nothing is fetched, and a message taken then ("lateLoad", "lateSuccess",
"lateFailure") goes no further; `abandoned` remembers it. The HTTP check has a context of its own and
is not cut short. A failure worker that has sent its alert is not free: its deferred `AckJob` and
`ScheduleMonitor` follow ("alerted"), and `WorkersClosingWait` waits for them. An alert worker holds
an alert while it handles it ("handlingAlert").

`DrainedBeforeExit` says that nobody but the scheduler and the reclaimer, which are not waited for,
has anything left when Redis is closed. It does not say that the messages were of use:
`FullyProcessed`, the README's "every in-flight message is fully processed", is violated.

## Runs

| Run | Instance | Shows |
|---|---|---|
| `pipeline` | 1 monitor, 1 instance, 2 copies, all capacities 1, every outcome, 1 fault, fairness (0.23 M states) | `TypeOK`; `CrashCover`: Redis keeps a record of every monitor but for the named exceptions; `NoLossWithoutFaults`; `NeverWedged`: the chain of full channels never blocks for good; `CopiesAdvance`: no stage hands a copy back; `EventuallyChecked` |
| `pipeline_instances` | 2 monitors, 2 instances, 2 copies, all capacities 1, checks succeed, 1 fault (1.3 M) | `CrashCover`; `NoDoubleExecution`, with backpressure and its repeated `ZADD`; refinement of `CheckCycle` |
| `incident` | 2 workers, disabling, count up to 7, 2 faults, fairness (0.65 M) | `TypeOK`, `OpenRowTracked`, `AlertNotLost`, `AlertOncePerIncident`, refinement of `IncidentTracker`, `SustainedFailureAlerts` |
| `monitor_service` | 2 users, 1 monitor, 2 requests (both create and update, one reads, one comes through the HTTP handler), quota 1, 2 faults, fairness (0.22 M) | `TypeOK`, `QuotaExact`, `ServedToOwner`, `EnabledIsTracked`, `StaleDiesOut`, `DisabledStops`, `EnabledResumes` |
| `api` | 2 requests, 2 passwords, 2 monitors, limits 0 and 1, 1 fault, fairness (0.55 M) | `TypeOK`, `CreatedIsKept`, `RefusedAlike`, `FailureNotBlamedOnClient`, `TokenEarned`, `CreatedLogsIn`, `ListingComplete`, `WalkBounded`, `ListingEnds` |
| `shutdown` | channels of 1, 2 workers, 2 HTTP slots, 2 failure workers, 1 alert worker, 4 jobs, fairness (115 k) | `TypeOK`, `StagesNeverPanic`, `DrainedBeforeExit`, `DrainNeverStuck`, `DrainAdvances`, `ShutdownCompletes` |
| `pipeline_crash_loss` | 1 monitor, 1 copy, 1 crash | *violated*: a crash between ack and `ZADD` loses the monitor |
| `pipeline_interval` | 1 monitor, no faults | *violated*: checked monitors are due again at once |
| `incident_close` | 1 worker, 1 fault | *violated*: the hash goes although closing the row failed |
| `incident_record` | 1 worker, no faults | *violated*: an alert after timeouts has no incident row |
| `shutdown_panic` | 2 jobs | *violated*: the scheduler sends on the closed `jobChan` |
| `shutdown_drain` | 2 jobs | *violated*: a job taken after the signal leaves its channel and nothing comes of it |

The violated properties are statements of the repository's README, comments or log messages; each
is quoted in `PROJECT.json` under "findings".

Why the bounds are enough. Capacities of one make every channel, pool and semaphore full as soon as
there are two jobs, which is where blocking, backpressure and the limits of the scripts happen. Two
job copies of one monitor are what a reissue makes, and two instances are what a race for the sorted
sets takes; with two monitors one of them fills `jobChan` and the other is put back. One fault puts
a crash or a failed call between any two steps; two in `incident` reach the threshold with a
repeated increment and still fail a later call, and two in `monitor_service` put a crash after a
statement in doubt. A count up to seven leaves room for failures after
the alert. Two workers are what it takes for a hash to be deleted under a decision to alert. A quota
of one with two creators has them race for the last place, and updaters of one monitor overtake each
other. Two passwords are a race for an address, and two monitors with pages of one a list that
changes between its pages; the limit 0 is the one the handler replaces. The theorems below do not
depend on these bounds.

`CHECK_DEADLOCK FALSE` is set where the system may really stop: a pipeline whose monitors were all
retired or lost, an incident whose monitor was stopped or reached the bound, and an instance that
has exited.

## Fairness

* `Pipeline`: time passes (weak fairness of `BecomesDue` and `Expires`), tickers tick (fetch and
  reclaim), a scheduler works through its batch, alert workers run, and a job copy that can go on again and again does
  (strong fairness of `JobStep`): blocked senders and receivers of Go channels, the semaphore
  included, are served in FIFO order, and an HTTP check ends after 15 s. Crashes and faults are never
  required to happen, or to stop other than by their bound. A monitor can be sent
  back by backpressure for ever, when `jobChan` is full at every fetch; no fairness the code has
  excludes that, and `EventuallyChecked` names it.
* `Incident`: workers and alert workers run, and an unstopped monitor gets another result, which is
  `EventuallyChecked` of the pipeline. The two compose in this order.
* `MonitorService`: requests finish, the pipeline moves, cache entries expire. New requests are never
  required to come.
* `Api`: a request that has begun is answered (`middleware.Timeout` ends its context after five
  seconds, and every call takes the context). Clients need not ask; `CreatedLogsIn` and
  `ListingEnds` say what happens if they keep asking.
* `Shutdown`: in each of scheduler, executor, result processor and main, some goroutine that can go
  on does. Nothing says that the signal comes.

## Proofs

| Module | Theorem | Statement |
|---|---|---|
| `PipelineProofs` | `TypeCorrect` | `Spec => []TypeOK` |
| | `CrashCovered` | `Spec => []CrashCover` |
| | `NothingLost` | `Spec => []NoLossWithoutFaults` |
| | `HandledOnce` | `Spec => []NoDoubleExecution` |
| | `NeverBlocked` | `Spec => []SomeoneCanMove` |
| | `CopiesGoForward` | `Spec => CopiesAdvance` |
| | `CycleImplemented` | `Spec => ImplementsCycle` |
| `IncidentProofs` | `TypeCorrect` | `Spec => []TypeOK` |
| | `OneAlert` | `Spec => []AlertOncePerIncident` |
| | `TrackerImplemented` | `Spec => ImplementsTracker` |
| | `AlertKept` | `Spec => []AlertNotLost` |
| | `OpenRowKnown` | `Spec => []OpenRowTracked` |
| `MonitorServiceProofs` | `TypeCorrect` | `Spec => []TypeOK` |
| | `OnlyOwners` | `Spec => []ServedToOwner` |
| | `EnabledTracked` | `Spec => []EnabledIsTracked` |
| | `QuotaKept` | `Spec => []QuotaExact` |
| | `StaleGoes` | `Spec => StaleDiesOut` |
| `ApiProofs` | `TypeCorrect` | `ApiSpec => []TypeOK` |
| | `AccountKept` | `ApiSpec => []CreatedIsKept` |
| | `RefusalsAlike` | `ApiSpec => []RefusedAlike` |
| | `FailuresOwned` | `ApiSpec => []FailureNotBlamedOnClient` |
| | `TokensEarned` | `ApiSpec => TokenEarned` |
| | `ListingIsComplete` | `ApiSpec => []ListingComplete` |
| | `WalkIsBounded` | `ApiSpec => []WalkBounded` |
| `ShutdownProofs` | `TypeCorrect` | `Spec => []TypeOK` |
| | `NoStagePanics` | `Spec => []StagesNeverPanic` |
| | `Drained` | `Spec => []DrainedBeforeExit` |
| | `NeverStuck` | `Spec => []DrainNeverStuck` |
| | `DrainIsFinite` | `Spec => DrainAdvances` |

They rest on the assumptions on the constants only: sizes and counts are positive
(`config/models.go` validates them), the quota is a natural number, the limits clients ask for are
any integers, every operation of the API is behind the authentication (`Guarded`), the sets of monitors, job copies and
requests that are counted are finite, and `NoOne`, the owner of a monitor that has no row yet, is no
user (`UsersAssumption`).

The arguments:

* `CrashCover` is inductive together with `TypeOK`. The interesting steps are those that come before a
  `ZADD`, the `INSERT` and most acknowledgements: they open the window the property names
  (`WindowKept`, `WindowKeptByCopy` for the steps of other copies). An acknowledgement after the
  `ZADD` exposes the monitor exactly when the schedule entry has been taken in between.
* `NoLossWithoutFaults` and `NoDoubleExecution` are both about the token of a monitor: its schedule
  entry, its place in a batch, or the one copy somebody will still act on. `TokenStep` shows once
  that every step of the system moves the token of a monitor in one of eight ways (`Stays`, `Popped`,
  `Dispatched`, `Done`, `Reclaimed`, `Repeated`, `Entered`, `Crashed`); both theorems then follow by
  looking at the eight ways instead of thirty actions. A scheduler that puts a job back is a goroutine
  like the others: `Dispatched` hands it the token and `Done` takes it off, so that the repeated `ZADD`
  of the backpressure is a `Repeated` like any other. `NoDoubleExecution` needs
  the strengthening `NotYetCreated`: a monitor that does not exist has no token, else creating it
  could add a second one.
* `NeverBlocked` says what `NeverWedged` says, with the guards of `JobStep` and `AlertStep` written
  out (`CanMove`, `AlertCanMove`) in place of `ENABLED`; TLC finds them equal in every state of the
  `pipeline` instance. It needs `ResultsKnown`: from the check on a
  copy has a result, so the router and the failure workers always have a case for it. The argument
  (`LastCopyCanMove`) goes backwards: if no alert worker can go on, `alertChan` is empty, so a failure
  worker can send its alert; if no result worker holds a copy, the worker channels can be emptied; if
  they are empty the router can send; and so on through `resultChan`, the HTTP goroutines and the
  executor workers up to `jobChan`.
* `CopiesAdvance` goes through the steps of a copy: each lowers `MovesLeft`, the length of the
  longest way the copy still has to go (twelve at most). Together with `NeverBlocked` it is what a
  proof of `EventuallyChecked` would need to know about the copies of an instance: there is always
  one that can move, and the moves run out.
* `ImplementsCycle` reuses the token. In each of the eight ways of `TokenStep` the place of a monitor
  stays or makes one of the moves of `CheckCycle` (`PlaceMoves`), where `PlaceOf` and `PlaceNext` say
  what each place means before and after the step. It needs `NoDoubleExecution`, without which a
  token that leaves one place might still be at another, `NotYetCreated`, and that the moves which
  lose a token count a fault (`FaultsCounted` for the counter itself).
* `OneAlert` needs that a worker wins only while `alerted` is false: `alerts = 1` implies `alerted`
  (`WonMeansAlerted`).
* `TrackerImplemented` needs `AtThreshold`: a worker about to mark the incident has seen the
  threshold and still finds it, unless the hash was deleted meanwhile, and then it is `orphaned`.
  The step lemmas say what a mark (`MarkedStep`), a deletion (`DeletedStep`, `DeletedRecovers`) and
  every other step do to the tracker.
* `AlertNotLost` is inductive with `TypeOK`: without a fault a worker that won the mark goes from
  `markDBIncident` through `createIncident` to `sendAlert` (`StillOnItsWay`), and nobody else can
  take it off its way.
* `OpenRowTracked` is not inductive: that a row is flagged depends on where the handlers are. The
  strengthening `InOrder` says that, without faults and overlaps, one handler at most is busy
  (`OneBusy`), that it has set the flag before it inserts (`FlagFirst`) and closed the row before it
  deletes the hash (`ClosedFirst`).
* `ServedToOwner` needs that whatever the cache, a request or an answer has seen is a row that
  exists (`SeenExists`): rows are never deleted and never change hands (`RowsStay`), so what was
  read before somebody else's update is still the owner's.
* `EnabledIsTracked` is inductive with `TypeOK`. `ScheduleAccounts` and `AckAccounts` collect what a
  `ZADD` and a last acknowledgement may do to the entries of one monitor; the requests
  (`TrackedRequest`), the workers (`TrackedLoader`) and a crash (`TrackedCrash`), which takes away
  exactly those who were about to schedule, are taken apart from there.
* `QuotaExact` counts two sets, the rows of a user and the creations that have counted and not yet
  inserted. `IncrementMonitorCount` adds to the second, an insertion moves one from the second to the
  first, a failed insertion or a crash (`QuotaCrash`) loses it, everything else leaves both alone (`QuotaRest`). The second move
  needs `NoRowNoOwner`: the monitor inserted was nobody's, so it is not counted twice and nobody
  loses one.
* `StaleDiesOut` takes what `Stale` denies apart (`FreshParts`): the cache, the worker and the requests
  that are about to fill the cache. A request reads the row as it is or passes on what it has
  (`FreshRequest`), a worker goes by the cache or by the row (`FreshLoader`); both only copy, so fresh
  copies have fresh descendants while the row stays the same.
* `CreatedIsKept` is inductive with `TypeOK`: the `UNIQUE` constraint lets the hash be written once.
  `TokenEarned` follows from `HashIsCurrent`, that the hash a login has read is still the account's,
  however late it is compared. `RefusedAlike` and `FailureNotBlamedOnClient` come down to what
  `WrapRepoError`, `LogInError` and `GetHTTPStatus` make of each error (`RefusedAnswers`,
  `FailureAnswers`), stated once for every error.
* `ListingComplete` is about positions. `InsertsApart`: a row being inserted belongs to one request
  and is in no page, so committed rows never change and their times stay. `WalkAhead`: a row that was
  there when the walk began and has not been seen has at least `offset` earlier rows; rows that
  appear can only push it back. When a page is turned, the rows in the window of an order are as
  many as the window is wide (`RankWindow`), a row's place is the number of rows earlier than it
  (`RankIsEarlier`), so an unseen row is still ahead (`TurnAhead`), and a short page means that there
  is none.
* `WalkBounded` uses `RankWindow` too: a window that reaches beyond the last row holds fewer rows than
  the limit, so a page from which the client goes on ends within the list (`FullPageFits`), and the
  list never shrinks. As `EffectiveLimit` is positive, the offset grows with every page: a walk has at
  most one page more than the list has rows.
* `StagesNeverPanic` and `DrainedBeforeExit` follow from `Order`: which channels are closed and how
  far `main` is determine each other (`CloseOrder`), and every stage upstream of a closed channel is
  empty (`OverIsEmpty`), by the order of the waits. A failure worker between its alert and its deferred
  calls is upstream of `alertChan`'s closing like one that has yet to send.
* `DrainNeverStuck` and `DrainAdvances` are the two halves of why a shutdown ends, for any sizes. The
  first: if scheduler, executor and result processor can do nothing, every stage is empty, the last
  one first (`IdleIsEmpty`: an empty channel has room, an idle pool has a free goroutine), and then
  main can go on, because it waits only for goroutines whose channel it has closed (`WaitsClosed`).
  The guards are written out (`SchedulerCan`, `ExecutorCan`, `ResultCan`, `MainCan`); TLC finds each
  equal to `ENABLED` of the step it stands for in every state of the `shutdown` instance after the
  signal. The second: every step after the signal lowers `Work`, which adds up how far every message
  is from its end, how far main is from its own, and what the router and the scheduler still have to
  do. No message ever gains a stage, because nothing is fetched any more (`HopWork`, `DoneWork`); an alert
  that is sent makes two of one, the alert and the worker's deferred calls, together nearer to their
  end than the one was (`SendAlertWork`); and
  every other step is one of main, the router or the scheduler that is never repeated.

Every strengthening was checked by TLC on the instance of the run before it was proved.

Only model-checked: the liveness properties (`EventuallyChecked`, `SustainedFailureAlerts`,
`DisabledStops`, `EnabledResumes`, `CreatedLogsIn`, `ListingEnds`, `ShutdownCompletes`), and
`NeverWedged` as it is stated, since the prover handles neither fairness nor `ENABLED`. Every other
property of a passing run is a theorem. Of five of them the safety core is proved for all sizes:
`DrainNeverStuck` and `DrainAdvances` leave to `ShutdownCompletes` only that a goroutine that can go
on does; `WalkBounded` leaves to `ListingEnds` only that the client keeps asking and is answered; and
`NeverBlocked` with `CopiesAdvance` covers the part of `EventuallyChecked` between `jobChan` and the
end of the handling. `StaleDiesOut` leaves to `DisabledStops` and `EnabledResumes` that the stale copies
of an old row, which only copy themselves, reach an end by expiry and by the requests finishing.

## Not modelled

* Handling an alert: the code logs it. `pkg/redisstore/status.go`: written, never read.
* `doWork` and `doWorkOld` of the scheduler and the scripts only they use: never called.
* The HTTP exchange itself: a check is a choice among the four kinds of outcome.
* Eviction by Redis (`allkeys-lru` in `docker-compose.yaml`): it can remove the sorted sets
  themselves, and no property of the code would be left.
* Logging, metrics, request ids, `AllowAdmin` (used by no route), reading the configuration: no
  state that anything depends on. The cryptography of argon2id and JWT is taken to do what it says.
* Bodies that do not decode or validate, other than the one that disables a monitor: they are
  answered 400 before anything changes.
* API requests during the shutdown: they have contexts of their own and do not use the channels.
* The table `alerts` and its query: no code calls it.

## Observations

Met while modelling; no property is stated about them.

* A registration of a taken address is an `AlreadyExists`, which `GetHTTPStatus` has no case for:
  the client is answered 500, although the comment at `user/repository.go:53` says "Unique constraint
  -> conflict". The same default makes a `RequestTimeout` a 500.
* A client whose registration timed out after the `INSERT` had committed cannot tell: trying again
  is answered like any taken address. `CreatedIsKept` speaks of those that were answered 201.
* Rows of the same microsecond have no order of their own in `ORDER BY updated_at`: two pages may
  order them differently, and one of them can be missed (`ListingComplete` excludes them by
  `Distinct`).
* `validate:"required"` on a bool (`monitor/dto.go:35`) rejects `false`, although the comment at
  `monitor/handler.go:187` documents the body as "enable: false/true": through the HTTP API a monitor
  can only be enabled (`Accepted`, `RejectStatus`), and the disabling that `MonitorService` checks is
  reached by direct callers of the service only.
* Once dropped from the schedule an enabled monitor stays unchecked: enabling it is a no-op
  (`service.go:159`), and disabling it is rejected by the handler.

## Plan

1. *Done:* the pipeline with its alert workers, incidents with overlapping handlers and disabling, the
   monitor service with concurrent updates, in-doubt statements and crashes, accounts, listing and
   their composition, the shutdown with its deferred calls.
2. *Done:* proofs of every invariant, action property and refinement that the passing runs check,
   and of the safety steps of five liveness arguments.
3. Left to prove: the same for `SustainedFailureAlerts`, whose measure would have to count retries.
4. Left to model: backpressure and the order of scores, that is when a monitor can be starved by a
   full `jobChan`; and what `Listing` promises as a specification of its own that `Api` implements.
