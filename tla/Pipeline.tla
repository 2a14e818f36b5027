------------------------------ MODULE Pipeline ------------------------------
(***************************************************************************)
(* The job pipeline of Monit: two Redis sorted sets (monitor:schedule and  *)
(* monitor:inflight) shared by all instances of the service and, inside    *)
(* every instance, the goroutines that carry a job from the scheduler      *)
(* through the executor and the result router to the result workers.       *)
(*                                                                         *)
(* Scores are wall-clock deadlines that are only ever compared with "now", *)
(* so a schedule entry is "waiting" or "due" and an inflight entry is      *)
(* "held" or "expired"; the passing of time turns one into the other.      *)
(* A job copy (the JobPayload or HTTPResult some channel or goroutine      *)
(* holds, or the monitor id a scheduler or a request is about to ZADD) has *)
(* an identity from JobIds and a stage; a channel is the set of            *)
(* copies at its stage, so the order within a channel is left open: every  *)
(* channel has several readers, and nothing in the code depends on it.     *)
(***************************************************************************)
EXTENDS Naturals, FiniteSets

CONSTANTS
    Monitors,            \* monitor ids
    Instances,           \* running instances of the service
    JobIds,              \* identities of job copies: bounds the copies alive at once
    BatchSize,           \* scheduler.batch_size
    ReclaimLimit,        \* reclaimer.limit
    JobChannelSize,      \* app.job_channel_size
    WorkerCount,         \* executor.worker_count
    HTTPSemCount,        \* executor.http_semaphore_count
    ResultChannelSize,   \* app.result_channel_size
    SuccessChannelSize,  \* result_processor.success_channel_size
    FailureChannelSize,  \* result_processor.failure_channel_size
    SuccessWorkerCount,  \* result_processor.success_worker_count
    FailureWorkerCount,  \* result_processor.failure_worker_count
    AlertChannelSize,    \* app.alert_channel_size
    AlertWorkerCount,    \* alert.worker_count
    Outcomes,            \* the results the checked sites may cause
    MaxFaults            \* bound on crashes and failed Redis/DB calls

\* What executeHTTPCheck and classifyError can report: success, a wrong status or
\* latency ("failed"), INVALID_REQUEST or DNS_FAILURE ("terminal"), any other
\* transport error ("retryable").
Results == {"success", "failed", "terminal", "retryable"}

\* config/models.go: the loader rejects sizes and counts below one.
ASSUME PipelineAssumption ==
    /\ IsFiniteSet(Monitors) /\ IsFiniteSet(JobIds)
    /\ BatchSize \in Nat \ {0} /\ ReclaimLimit \in Nat \ {0}
    /\ JobChannelSize \in Nat \ {0} /\ WorkerCount \in Nat \ {0}
    /\ HTTPSemCount \in Nat \ {0} /\ ResultChannelSize \in Nat \ {0}
    /\ SuccessChannelSize \in Nat \ {0} /\ FailureChannelSize \in Nat \ {0}
    /\ SuccessWorkerCount \in Nat \ {0} /\ FailureWorkerCount \in Nat \ {0}
    /\ AlertChannelSize \in Nat \ {0} /\ AlertWorkerCount \in Nat \ {0}
    /\ Outcomes \subseteq Results /\ MaxFaults \in Nat

VARIABLES
    schedule,  \* monitor:schedule, the entry of each monitor
    inflight,  \* monitor:inflight, the entry of each monitor
    popped,    \* per instance, the batch doWorkWithReliability still iterates over
    job,       \* the job copies in channels and goroutines
    alertChan, \* per instance, the alerts in alertChan
    alerting,  \* per instance, the alert workers that hold an alert
    created,   \* monitors CreateMonitor has stored in the database
    faults,    \* crashes and failed calls so far
    \* History: why a monitor may be missing from Redis, or be there twice.
    retired,   \* checks ended by design: terminal failure, disabled or deleted
    exposed,   \* Redis has no record of it: stale ack, failed ZADD, INSERT in doubt,
               \* crash between the ack (the INSERT) and the ZADD
    reissued   \* handed out again, by the reclaimer or by a repeated ZADD, while a
               \* copy was still handled

redis   == <<schedule, inflight>>
alerts  == <<alertChan, alerting>>
history == <<retired, exposed, reissued>>
vars    == <<redis, popped, job, alerts, created, faults, history>>

-----------------------------------------------------------------------------
(* Job copies *)

QueueStages  == {"jobChan", "resultChan", "successChan", "failureChan"}
WorkerStages == {"loading", "acquiring", "requeue"}  \* an executor worker holds it
HTTPStages   == {"checking", "sending"}              \* an HTTP goroutine holds it
\* A result worker has it: "retrying" (quick retry), "alerting" (about to send to
\* alertChan), "alerted" (sent, the deferred calls still to come).
ResultStages == {"success", "failure", "retrying", "alerting", "alerted"}
LiveStages   == QueueStages \cup WorkerStages \cup HTTPStages \cup ResultStages
                \cup {"routing", "backoff"}  \* "backoff": the scheduler puts it back
\* Redis may have no record of it: "creating" (stored in the database) and "reschedule"
\* (acknowledged: the deferred calls of both handlers), the ZADD still to come.
WindowStages == {"creating", "reschedule"}
\* "ackOnly": already rescheduled, acknowledgement still to come.
Stages == LiveStages \cup WindowStages \cup {"ackOnly"}

Job   == [mon: Monitors, inst: Instances, stage: Stages, res: Results \cup {"none"}]
NoJob == [stage |-> "free"]

At(i, S) == {j \in JobIds : job[j].stage \in S /\ job[j].inst = i}
Free(j)  == job[j].stage = "free"
\* Some channel or goroutine, of any instance, still has a copy of m.
Held(m)  == \/ \E j \in JobIds : job[j].stage \in Stages /\ job[j].mon = m
            \/ \E i \in Instances : m \in popped[i]

Move(j, stage) == job' = [job EXCEPT ![j].stage = stage]
Drop(j)        == job' = [job EXCEPT ![j] = NoJob]
NewCopy(m, i, stage) ==
    \E j \in JobIds :
        /\ Free(j)
        /\ job' = [job EXCEPT ![j] = [mon |-> m, inst |-> i, stage |-> stage, res |-> "none"]]
Fault          == faults < MaxFaults /\ faults' = faults + 1

Init ==
    /\ schedule = [m \in Monitors |-> "absent"]
    /\ inflight = [m \in Monitors |-> "absent"]
    /\ popped = [i \in Instances |-> {}]
    /\ job = [j \in JobIds |-> NoJob]
    /\ alertChan = [i \in Instances |-> 0]
    /\ alerting = [i \in Instances |-> 0]
    /\ created = {}
    /\ faults = 0
    /\ retired = {} /\ exposed = {} /\ reissued = {}

-----------------------------------------------------------------------------
(* Redis operations *)

\* The score of now + seconds: with no delay the entry is due at once.
NextRun(seconds) == IF seconds = 0 THEN "due" ELSE "waiting"

\* ZADD monitor:schedule, which overwrites the entry's score.
Schedule(m, seconds) ==
    /\ schedule' = [schedule EXCEPT ![m] = NextRun(seconds)]
    /\ exposed' = exposed \ {m}
    /\ retired' = retired \ {m}
    /\ UNCHANGED <<faults, reissued>>

\* All three attempts of retry() failed: the error is logged, nothing else.
ScheduleFails(m) ==
    /\ Fault
    /\ exposed' = exposed \cup {m}
    /\ UNCHANGED <<schedule, retired, reissued>>

ScheduleMonitor(m, seconds) == Schedule(m, seconds) \/ ScheduleFails(m)

\* The same call by somebody who leaves the inflight entry alone: it is still there, or
\* its removal exposed the monitor already.
ScheduleCovered(m, seconds) ==
    Schedule(m, seconds) \/ (Fault /\ UNCHANGED <<schedule, history>>)

\* ZREM monitor:inflight.
AckJob(m) == inflight' = [inflight EXCEPT ![m] = "absent"] /\ UNCHANGED faults

\* A failed ack is logged and the handler goes on.
AckFails  == Fault /\ UNCHANGED inflight

\* The LIMIT of ZRANGEBYSCORE: as many of the members as the limit allows.
Limited(members, limit) ==
    {S \in SUBSET members :
        IF Cardinality(members) <= limit THEN S = members ELSE Cardinality(S) = limit}

-----------------------------------------------------------------------------
(* Time *)

\* The score of a schedule entry is no longer in the future.
BecomesDue(m) ==
    /\ schedule[m] = "waiting"
    /\ schedule' = [schedule EXCEPT ![m] = "due"]
    /\ UNCHANGED <<inflight, popped, job, alerts, created, faults, history>>

\* The visibility timeout of an inflight entry is over.
Expires(m) ==
    /\ inflight[m] = "held"
    /\ inflight' = [inflight EXCEPT ![m] = "expired"]
    /\ UNCHANGED <<schedule, popped, job, alerts, created, faults, history>>

-----------------------------------------------------------------------------
(* Monitor service: a new monitor enters the schedule *)

IntervalSec == 60  \* the least interval CreateMonitorRequest accepts

\* The INSERT of CreateMonitor, in a request to instance i.  In doubt (committed, but
\* the reply is lost or the request's 5s are over) the call returns with the error.
CreateMonitor(m, i) ==
    /\ m \notin created
    /\ created' = created \cup {m}
    /\ \/ NewCopy(m, i, "creating") /\ UNCHANGED <<faults, exposed>>
       \/ Fault /\ exposed' = exposed \cup {m} /\ UNCHANGED job
    /\ UNCHANGED <<redis, popped, alerts, retired, reissued>>

\* Its ScheduleMonitor call.
ScheduleCreated(j) ==
    /\ job[j].stage = "creating"
    /\ ScheduleMonitor(job[j].mon, IntervalSec)
    /\ Drop(j)
    /\ UNCHANGED <<inflight, popped, alerts, created>>

-----------------------------------------------------------------------------
(* Scheduler *)

Due == {m \in Monitors : schedule[m] = "due"}

\* Faulty: fetchDueMonitorsScript, which doWork used before inflight existed.
MoveToInflightUnrecorded(S) ==
    /\ schedule' = [m \in Monitors |-> IF m \in S THEN "absent" ELSE schedule[m]]
    /\ UNCHANGED inflight

\* Faulty: the script without its ZREM.
MoveToInflightKept(S) ==
    /\ inflight' = [m \in Monitors |-> IF m \in S THEN "held" ELSE inflight[m]]
    /\ UNCHANGED schedule

\* fetchAndMoveToInflightScript: the due members leave the schedule and enter
\* inflight with a fresh deadline, in one atomic step.
MoveToInflight(S) ==
    /\ schedule' = [m \in Monitors |-> IF m \in S THEN "absent" ELSE schedule[m]]
    /\ inflight' = [m \in Monitors |-> IF m \in S THEN "held" ELSE inflight[m]]

\* The scheduler is one goroutine: it waits for its own ZADDs.
SchedulerFree(i) == At(i, {"backoff"}) = {}

FetchAndMoveToInflight(i) ==
    /\ popped[i] = {} /\ SchedulerFree(i)
    /\ Due # {}
    /\ \E S \in Limited(Due, BatchSize) :
          /\ MoveToInflight(S)
          /\ \/ /\ popped' = [popped EXCEPT ![i] = S]
                /\ UNCHANGED faults
             \/ Fault /\ UNCHANGED popped    \* the script ran, its reply was lost
    /\ UNCHANGED <<job, alerts, created, history>>

\* The non-blocking send: jobChan has room.
Dispatch(i, m) ==
    /\ m \in popped[i] /\ SchedulerFree(i)
    /\ Cardinality(At(i, {"jobChan"})) < JobChannelSize
    /\ NewCopy(m, i, "jobChan")
    /\ popped' = [popped EXCEPT ![i] = @ \ {m}]
    /\ UNCHANGED <<redis, alerts, created, faults, history>>

\* Faulty: a full jobChan drops the job.
BackpressureDrops(i, m) ==
    /\ m \in popped[i] /\ SchedulerFree(i)
    /\ Cardinality(At(i, {"jobChan"})) >= JobChannelSize
    /\ popped' = [popped EXCEPT ![i] = @ \ {m}]
    /\ UNCHANGED <<redis, job, alerts, created, faults, history>>

\* The default branch: jobChan is full, the scheduler is about to put the job back.
Backpressure(i, m) ==
    /\ m \in popped[i] /\ SchedulerFree(i)
    /\ Cardinality(At(i, {"jobChan"})) >= JobChannelSize
    /\ NewCopy(m, i, "backoff")
    /\ popped' = [popped EXCEPT ![i] = @ \ {m}]
    /\ UNCHANGED <<redis, alerts, created, faults, history>>

\* ... with a 2s backoff.  The inflight entry stays, and is all that is left of the
\* monitor when the ZADD fails.
PutBack(j) ==
    /\ job[j].stage = "backoff"
    /\ ScheduleCovered(job[j].mon, 2)
    /\ Drop(j)
    /\ UNCHANGED <<inflight, popped, alerts, created>>

-----------------------------------------------------------------------------
(* Reclaimer *)

Expired == {m \in Monitors : inflight[m] = "expired"}

\* Faulty: the ZADD of the script goes to inflight again.
ReclaimRenewed ==
    /\ Expired # {}
    /\ \E S \in Limited(Expired, ReclaimLimit) :
          inflight' = [m \in Monitors |-> IF m \in S THEN "held" ELSE inflight[m]]
    /\ UNCHANGED <<schedule, popped, job, alerts, created, faults, history>>

\* reclaimMonitorsScript: expired members go back to the schedule, due now.
ReclaimMonitors ==
    /\ Expired # {}
    /\ \E S \in Limited(Expired, ReclaimLimit) :
          /\ inflight' = [m \in Monitors |-> IF m \in S THEN "absent" ELSE inflight[m]]
          /\ schedule' = [m \in Monitors |-> IF m \in S THEN "due" ELSE schedule[m]]
          /\ reissued' = reissued \cup {m \in S : Held(m)}
    /\ UNCHANGED <<popped, job, alerts, created, faults, retired, exposed>>

-----------------------------------------------------------------------------
(* Executor *)

\* A worker ranges over jobChan.
TakeJob(j) ==
    /\ job[j].stage = "jobChan"
    /\ Cardinality(At(job[j].inst, WorkerStages)) < WorkerCount
    /\ Move(j, "loading")
    /\ UNCHANGED <<redis, popped, alerts, created, faults, history>>

\* The monitor is loaded and enabled.
Loaded(j) ==
    /\ job[j].stage = "loading"
    /\ Move(j, "acquiring")
    /\ UNCHANGED <<redis, popped, alerts, created, faults, history>>

\* Not found, or disabled: the worker moves on; the inflight entry is not removed.
NotMonitored(j) ==
    /\ job[j].stage = "loading"
    /\ Drop(j)
    /\ retired' = retired \cup {job[j].mon}
    /\ UNCHANGED <<redis, popped, alerts, created, faults, exposed, reissued>>

\* Any other error of LoadMonitor: the worker goes on to schedule the monitor again.
LoadFails(j) ==
    /\ job[j].stage = "loading"
    /\ Fault
    /\ Move(j, "requeue")
    /\ UNCHANGED <<redis, popped, alerts, created, history>>

\* ... in 5 seconds.  When that ZADD fails too, the inflight entry is what is left.
Requeue(j) ==
    /\ job[j].stage = "requeue"
    /\ ScheduleCovered(job[j].mon, 5)
    /\ Drop(j)
    /\ UNCHANGED <<inflight, popped, alerts, created>>

\* httpSem <- struct{}{}, then the HTTP goroutine is on its own.
AcquireSemaphore(j) ==
    /\ job[j].stage = "acquiring"
    /\ Cardinality(At(job[j].inst, HTTPStages)) < HTTPSemCount
    /\ Move(j, "checking")
    /\ UNCHANGED <<redis, popped, alerts, created, faults, history>>

ExecuteHTTPCheck(j, res) ==
    /\ job[j].stage = "checking"
    /\ job' = [job EXCEPT ![j].stage = "sending", ![j].res = res]
    /\ UNCHANGED <<redis, popped, alerts, created, faults, history>>

\* resultChan <- result; the semaphore is released afterwards.
SendResult(j) ==
    /\ job[j].stage = "sending"
    /\ Cardinality(At(job[j].inst, {"resultChan"})) < ResultChannelSize
    /\ Move(j, "resultChan")
    /\ UNCHANGED <<redis, popped, alerts, created, faults, history>>

-----------------------------------------------------------------------------
(* Result processor: the router and the two worker pools *)

RouterTakes(j) ==
    /\ job[j].stage = "resultChan"
    /\ At(job[j].inst, {"routing"}) = {}
    /\ Move(j, "routing")
    /\ UNCHANGED <<redis, popped, alerts, created, faults, history>>

\* Faulty: the router has no case for retryable failures and waits.
RouteForgets(j) ==
    /\ job[j].stage = "routing" /\ job[j].res # "retryable"
    /\ IF job[j].res = "success" THEN Move(j, "successChan") ELSE Move(j, "failureChan")
    /\ UNCHANGED <<redis, popped, alerts, created, faults, history>>

\* Faulty: a result whose channel is full goes to the back of resultChan.
RouteRequeues(j) ==
    /\ job[j].stage = "routing"
    /\ LET to == IF job[j].res = "success" THEN "successChan" ELSE "failureChan"
           size == IF job[j].res = "success" THEN SuccessChannelSize ELSE FailureChannelSize
       IN Move(j, IF Cardinality(At(job[j].inst, {to})) < size THEN to ELSE "resultChan")
    /\ UNCHANGED <<redis, popped, alerts, created, faults, history>>

Route(j) ==
    /\ job[j].stage = "routing"
    /\ \/ /\ job[j].res = "success"
          /\ Cardinality(At(job[j].inst, {"successChan"})) < SuccessChannelSize
          /\ Move(j, "successChan")
       \/ /\ job[j].res # "success"
          /\ Cardinality(At(job[j].inst, {"failureChan"})) < FailureChannelSize
          /\ Move(j, "failureChan")
    /\ UNCHANGED <<redis, popped, alerts, created, faults, history>>

\* The stages at which a success (failure) worker is busy with a result.
WorkerBusy(i, ok) ==
    {j \in At(i, ResultStages \cup {"reschedule", "ackOnly"}) :
        (job[j].res = "success") = ok}

WorkerTakes(j) ==
    /\ \/ /\ job[j].stage = "successChan"
          /\ Cardinality(WorkerBusy(job[j].inst, TRUE)) < SuccessWorkerCount
          /\ Move(j, "success")
       \/ /\ job[j].stage = "failureChan"
          /\ Cardinality(WorkerBusy(job[j].inst, FALSE)) < FailureWorkerCount
          /\ Move(j, "failure")
    /\ UNCHANGED <<redis, popped, alerts, created, faults, history>>

\* executeHTTPCheck never fills HTTPResult.IntervalSec, so both handlers pass the
\* zero value of int32 on to ScheduleMonitor.
ResultIntervalSec == 0

\* MarkIncidentAlertedIfNotSet has made the failure worker the one to alert; whom it
\* picks is modelled in Incident.
DecideAlert(j) ==
    /\ job[j].stage = "failure" /\ job[j].res \in {"failed", "retryable"}
    /\ Move(j, "alerting")
    /\ UNCHANGED <<redis, popped, alerts, created, faults, history>>

\* Faulty: an alertChan that never blocks its sender.
SendAlertUnbounded(j) ==
    /\ job[j].stage = "alerting"
    /\ alertChan' = [alertChan EXCEPT ![job[j].inst] = @ + 1]
    /\ Move(j, "alerted")
    /\ UNCHANGED <<redis, popped, alerting, created, faults, history>>

\* alertChan <- AlertEvent{}: the worker waits for room, its deferred calls not yet made.
SendAlert(j) ==
    /\ job[j].stage = "alerting"
    /\ alertChan[job[j].inst] < AlertChannelSize
    /\ alertChan' = [alertChan EXCEPT ![job[j].inst] = @ + 1]
    /\ Move(j, "alerted")
    /\ UNCHANGED <<redis, popped, alerting, created, faults, history>>

\* Faulty: reschedule is false on this path too.
AckWithoutReschedule(j) ==
    /\ job[j].stage \in {"success", "failure"} /\ job[j].res # "terminal"
    /\ AckJob(job[j].mon)
    /\ Drop(j)
    /\ UNCHANGED <<schedule, popped, alerts, created, history>>

\* The deferred ack of a result that will be rescheduled: every success, and every
\* failure but a terminal one or one that got a quick retry.
AckBeforeReschedule(j) ==
    /\ \/ job[j].stage \in {"success", "alerted"}
       \/ job[j].stage = "failure" /\ job[j].res \in {"failed", "retryable"}
    /\ AckJob(job[j].mon) \/ AckFails
    /\ Move(j, "reschedule")
    /\ UNCHANGED <<schedule, popped, alerts, created, history>>

\* The ScheduleMonitor call that follows it.
Reschedule(j) ==
    /\ job[j].stage = "reschedule"
    /\ ScheduleMonitor(job[j].mon, ResultIntervalSec)
    /\ Drop(j)
    /\ UNCHANGED <<inflight, popped, alerts, created>>

\* Terminal failure: only the deferred ack, reschedule is false.
StopMonitoring(j) ==
    /\ job[j].stage = "failure" /\ job[j].res = "terminal"
    /\ AckJob(job[j].mon) \/ AckFails
    /\ Drop(j)
    /\ retired' = retired \cup {job[j].mon}
    /\ UNCHANGED <<schedule, popped, alerts, created, exposed, reissued>>

\* A retryable failure within its budget, or one whose IncrementRetry failed, gets a
\* quick retry: reschedule is false.
TakeRetryPath(j) ==
    /\ job[j].stage = "failure" /\ job[j].res = "retryable"
    /\ Move(j, "retrying")
    /\ UNCHANGED <<redis, popped, alerts, created, faults, history>>

\* The retry comes after 5s, or after the result's own interval when IncrementRetry
\* failed.
RetryDelays == {5, ResultIntervalSec}

\* On this path ScheduleMonitor runs before the deferred ack.
ScheduleRetry(j) ==
    /\ job[j].stage = "retrying"
    /\ \E seconds \in RetryDelays : ScheduleMonitor(job[j].mon, seconds)
    /\ Move(j, "ackOnly")
    /\ UNCHANGED <<inflight, popped, alerts, created>>

\* The deferred ack after it.  If the retry has been dispatched again by now, the
\* entry removed is the new dispatch's.
AckAfterRetry(j) ==
    /\ job[j].stage = "ackOnly"
    /\ \/ /\ AckJob(job[j].mon)
          /\ exposed' = IF schedule[job[j].mon] = "absent"
                           THEN exposed \cup {job[j].mon} ELSE exposed
       \/ AckFails /\ UNCHANGED exposed
    /\ Drop(j)
    /\ UNCHANGED <<schedule, popped, alerts, created, retired, reissued>>

\* The delays a ZADD may have been given.
Delays(stage) == CASE stage = "creating"   -> {IntervalSec}
                   [] stage = "backoff"    -> {2}
                   [] stage = "requeue"    -> {5}
                   [] stage = "retrying"   -> RetryDelays
                   [] stage = "reschedule" -> {ResultIntervalSec}

\* retry(): a ZADD was carried out but its reply was lost.  The goroutine is still in
\* the call and will send it again, whoever has taken the entry by then.
ScheduleReplyLost(j) ==
    /\ job[j].stage \in {"creating", "backoff", "requeue", "retrying", "reschedule"}
    /\ Fault
    /\ \E seconds \in Delays(job[j].stage) :
          schedule' = [schedule EXCEPT ![job[j].mon] = NextRun(seconds)]
    /\ reissued' = reissued \cup {job[j].mon}
    /\ exposed' = exposed \ {job[j].mon}
    /\ retired' = retired \ {job[j].mon}
    /\ UNCHANGED <<inflight, popped, job, alerts, created>>

-----------------------------------------------------------------------------
(* Alert service *)

\* A worker of instance i ranges over alertChan ...
TakeAlert(i) ==
    /\ alertChan[i] > 0 /\ alerting[i] < AlertWorkerCount
    /\ alertChan' = [alertChan EXCEPT ![i] = @ - 1]
    /\ alerting' = [alerting EXCEPT ![i] = @ + 1]
    /\ UNCHANGED <<redis, popped, job, created, faults, history>>

\* ... and logs the alert.
HandleAlert(i) ==
    /\ alerting[i] > 0
    /\ alerting' = [alerting EXCEPT ![i] = @ - 1]
    /\ UNCHANGED <<redis, popped, job, alertChan, created, faults, history>>

-----------------------------------------------------------------------------
Recorded(m) == schedule[m] # "absent" \/ inflight[m] # "absent"

(* Crash of an instance, which docker restarts with empty channels.  A job in one *)
(* of the windows is in no Redis set, unless another copy put it there.           *)
Crash(i) ==
    /\ Fault
    /\ popped' = [popped EXCEPT ![i] = {}]
    /\ job' = [j \in JobIds |-> IF j \in At(i, Stages) THEN NoJob ELSE job[j]]
    /\ alertChan' = [alertChan EXCEPT ![i] = 0]
    /\ alerting' = [alerting EXCEPT ![i] = 0]
    /\ exposed' = exposed \cup
          {m \in Monitors : ~ Recorded(m) /\ \E j \in At(i, WindowStages) : job[j].mon = m}
    /\ UNCHANGED <<redis, created, retired, reissued>>

-----------------------------------------------------------------------------
JobStep(j) ==
    \/ TakeJob(j) \/ Loaded(j) \/ NotMonitored(j) \/ LoadFails(j) \/ Requeue(j)
    \/ AcquireSemaphore(j)
    \/ \E res \in Outcomes : ExecuteHTTPCheck(j, res)
    \/ SendResult(j) \/ RouterTakes(j) \/ Route(j) \/ WorkerTakes(j)
    \/ DecideAlert(j) \/ SendAlert(j) \/ AckBeforeReschedule(j) \/ Reschedule(j)
    \/ StopMonitoring(j) \/ TakeRetryPath(j) \/ ScheduleRetry(j) \/ AckAfterRetry(j)
    \/ ScheduleCreated(j) \/ PutBack(j) \/ ScheduleReplyLost(j)

SchedulerStep(i) ==
    \/ FetchAndMoveToInflight(i)
    \/ \E m \in Monitors : Dispatch(i, m) \/ Backpressure(i, m)

AlertStep(i) == TakeAlert(i) \/ HandleAlert(i)

Next ==
    \/ \E m \in Monitors : BecomesDue(m) \/ Expires(m)
    \/ \E m \in Monitors, i \in Instances : CreateMonitor(m, i)
    \/ \E i \in Instances : SchedulerStep(i) \/ AlertStep(i) \/ Crash(i)
    \/ ReclaimMonitors
    \/ \E j \in JobIds : JobStep(j)

Spec == Init /\ [][Next]_vars
-----------------------------------------------------------------------------
(* Safety *)

\* Type correctness: schedule and inflight entries, batches and job copies have one of
\* the states the code can put them into, and the alert channel and pool keep to their
\* sizes.
TypeOK ==
    /\ schedule \in [Monitors -> {"absent", "waiting", "due"}]
    /\ inflight \in [Monitors -> {"absent", "held", "expired"}]
    /\ popped \in [Instances -> SUBSET Monitors]
    /\ job \in [JobIds -> Job \cup {NoJob}]
    /\ alertChan \in [Instances -> 0 .. AlertChannelSize]
    /\ alerting \in [Instances -> 0 .. AlertWorkerCount]
    /\ created \subseteq Monitors
    /\ faults \in 0 .. MaxFaults
    /\ retired \subseteq Monitors /\ exposed \subseteq Monitors /\ reissued \subseteq Monitors

\* A request has stored m, or a worker has acknowledged it, and is about to schedule it.
InWindow(m) == \E j \in JobIds : job[j].stage \in WindowStages /\ job[j].mon = m

\* Crash cover: whatever has crashed or failed so far, Redis still has a record of
\* every stored monitor from which the scheduler or the reclaimer will pick it up again.
\* The exceptions are the ones named: its checks were ended by design, somebody is
\* between the INSERT, or the ack, and the ZADD, or the monitor was exposed.
CrashCover ==
    \A m \in created \ retired : Recorded(m) \/ InWindow(m) \/ m \in exposed

\* The copies of m some goroutine will still act on.  One that only has its
\* acknowledgement left is done with the job.
Pending(m) == {j \in JobIds : job[j].stage \in Stages \ {"ackOnly"} /\ job[j].mon = m}

\* Without a crash or a failed call no monitor is ever dropped: it is in the schedule,
\* in a batch or with a goroutine that will still act on it.  Its inflight entry does
\* not count: an acknowledgement may have removed the entry of a later dispatch.
NoLossWithoutFaults ==
    faults = 0 =>
        \A m \in created \ retired :
            \/ schedule[m] # "absent"
            \/ Pending(m) # {}
            \/ \E i \in Instances : m \in popped[i]

\* One token per monitor: with any number of instances, crashes and failed calls, a
\* monitor is in the schedule, in one scheduler's batch or in one channel or
\* goroutine, never in two of them, unless it was handed out again while a copy was
\* still handled: by the reclaimer (a visibility timeout shorter than the handling) or
\* by the first of two ZADDs of one Schedule call, of a worker, of a request or of a
\* scheduler under backpressure.
NoDoubleExecution ==
    \A m \in Monitors \ reissued :
        /\ \A j, k \in Pending(m) : j = k
        /\ \A i, k \in Instances : m \in popped[i] \cap popped[k] => i = k
        /\ schedule[m] # "absent" => Pending(m) = {} /\ \A i \in Instances : m \notin popped[i]
        /\ Pending(m) # {} => \A i \in Instances : m \notin popped[i]

\* Where a monitor is on its way from one check to the next.  A copy that only has its
\* acknowledgement left does not count: the monitor is scheduled again by then.
Place(m) ==
    IF m \in reissued THEN "reissued"
    ELSE IF schedule[m] # "absent" THEN "scheduled"
    ELSE IF \E i \in Instances : m \in popped[i] THEN "batch"
    ELSE IF Pending(m) # {} THEN "handled"
    ELSE IF m \in retired THEN "ended"
    ELSE IF m \in created THEN "lost" ELSE "new"

\* The instances together, with their channels, pools, crashes and lost replies,
\* implement the CheckCycle: a monitor is handled only after a scheduler has taken it,
\* is scheduled again only by who has it, and gets lost only in a step that fails.
Cycle == INSTANCE CheckCycle WITH place <- [m \in Monitors |-> Place(m)]
ImplementsCycle == Cycle!Spec

\* How many moves a copy at a stage has left at most.
MovesLeft(stage) ==
    CASE stage = "jobChan"                       -> 12
      [] stage = "loading"                       -> 11
      [] stage = "acquiring"                     -> 10
      [] stage = "checking"                      -> 9
      [] stage = "sending"                       -> 8
      [] stage = "resultChan"                    -> 7
      [] stage = "routing"                       -> 6
      [] stage \in {"successChan", "failureChan"} -> 5
      [] stage \in {"success", "failure"}        -> 4
      [] stage = "alerting"                      -> 3
      [] stage \in {"alerted", "retrying"}       -> 2
      [] stage \in {"creating", "backoff", "requeue", "reschedule", "ackOnly"} -> 1

\* No stage hands a copy back to an earlier one, of this or another instance, and no copy
\* turns into another monitor's: with a bounded number of moves each, the copies of a
\* crowded instance make way for one another.
CopiesAdvance ==
    [][\A j \in JobIds :
          \/ Free(j) \/ job'[j] = job[j] \/ Free(j)'
          \/ /\ MovesLeft(job'[j].stage) < MovesLeft(job[j].stage)
             /\ job'[j].mon = job[j].mon /\ job'[j].inst = job[j].inst]_vars

\* The pipeline never wedges: as long as an instance has a job copy somewhere, one of
\* its goroutines can move a copy on, or an alert out of the way of one, however full
\* its five channels, four worker pools and HTTP semaphore are.
NeverWedged ==
    \A i \in Instances :
        At(i, Stages) # {} =>
            (\E j \in At(i, Stages) : ENABLED JobStep(j)) \/ ENABLED AlertStep(i)

\* README.md: "Ensures **zero job loss** even if executor workers crash".  The result
\* workers acknowledge before they reschedule, so a crash in between leaves a monitor
\* in no Redis set and in no process.
CrashLosesNoJob ==
    [][\A i \in Instances : Crash(i) =>
          \A m \in created \ retired :
              (\E j \in JobIds : job[j].stage \in Stages \ {"creating"} /\ job[j].mon = m)
                  => (Recorded(m) \/ Held(m))']_vars

\* README.md: a checked monitor is rescheduled at its normal interval.  The code
\* hands a zero interval to ScheduleMonitor, so it is due again at once.
RescheduledAtInterval ==
    [][\A j \in JobIds :
          job[j].stage = "reschedule" /\ Reschedule(j) /\ faults' = faults
              => schedule'[job[j].mon] = "waiting"]_vars

-----------------------------------------------------------------------------
(* Liveness *)

\* Time passes, tickers tick, a scheduler finishes its batch and every goroutine
\* runs.  An HTTP check ends (15s timeout).  Channels and the semaphore serve their
\* waiters in order, so a copy that can move on again and again does.
Fairness ==
    /\ \A m \in Monitors : WF_vars(BecomesDue(m)) /\ WF_vars(Expires(m))
    /\ WF_vars(ReclaimMonitors)
    /\ \A i \in Instances :
          /\ WF_vars(FetchAndMoveToInflight(i)) /\ WF_vars(AlertStep(i))
          /\ \A m \in Monitors : SF_vars(Dispatch(i, m) \/ Backpressure(i, m))
    /\ \A j \in JobIds : SF_vars(JobStep(j))

FairSpec == Spec /\ Fairness

Checking(m) == \E j \in JobIds : job[j].stage = "checking" /\ job[j].mon = m

\* A scheduler found jobChan full when it had m.
BackedOff(m) == \E j \in JobIds : job[j].stage = "backoff" /\ job[j].mon = m

\* A monitor Redis has a record of is checked in the end, through crashes, lost replies
\* and failed loads, unless its checks end by design or it is exposed.  What no fairness
\* of the code excludes is a jobChan that is full whenever a scheduler comes with m.
EventuallyChecked ==
    \A m \in Monitors :
        \/ m \in created /\ Recorded(m) ~> Checking(m) \/ m \in retired \/ m \in exposed
        \/ []<>BackedOff(m)
=============================================================================
