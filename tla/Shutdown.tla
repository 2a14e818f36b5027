------------------------------ MODULE Shutdown ------------------------------
(***************************************************************************)
(* The graceful shutdown of one instance: the signal cancels the context   *)
(* every background call uses, main closes the channels stage by stage     *)
(* (Container.Shutdown), and each stage ends when its channel is closed    *)
(* and empty.  A send on a closed channel panics and takes the process     *)
(* down.                                                                   *)
(*                                                                         *)
(* What happens to the monitors in Redis is the subject of Pipeline; here  *)
(* a message has no identity, and at[s] is the number of them at stage s.  *)
(* A goroutine pool is the messages its goroutines hold and its size.      *)
(***************************************************************************)
EXTENDS Naturals

CONSTANTS
    JobChannelSize, ResultChannelSize, SuccessChannelSize, FailureChannelSize,
    AlertChannelSize,
    WorkerCount, HTTPSemCount, SuccessWorkerCount, FailureWorkerCount, AlertWorkerCount,
    BatchSize,   \* scheduler.batch_size
    MaxFetched   \* bound on the jobs fetched in the life of the process

ASSUME ShutdownAssumption ==
    /\ JobChannelSize \in Nat \ {0} /\ ResultChannelSize \in Nat \ {0}
    /\ SuccessChannelSize \in Nat \ {0} /\ FailureChannelSize \in Nat \ {0}
    /\ AlertChannelSize \in Nat \ {0}
    /\ WorkerCount \in Nat \ {0} /\ HTTPSemCount \in Nat \ {0}
    /\ SuccessWorkerCount \in Nat \ {0} /\ FailureWorkerCount \in Nat \ {0}
    /\ AlertWorkerCount \in Nat \ {0}
    /\ BatchSize \in Nat \ {0} /\ MaxFetched \in Nat

VARIABLES
    signalled,  \* SIGINT or SIGTERM arrived: ctx is cancelled
    main,       \* where the main goroutine is
    closed,     \* the channels that were closed
    scheduler,  \* "running" or "stopped"
    fetched,    \* jobs fetched so far
    at,         \* messages in the channels and with the goroutines
    panicked,   \* the closed channel somebody sent on, or "none"
    \* History
    abandoned   \* a message was taken up after the signal and nothing came of it

control == <<signalled, main, closed, scheduler, fetched>>
others  == <<control, abandoned>>
vars    == <<others, at, panicked>>

Channels == {"jobChan", "resultChan", "successChan", "failureChan", "alertChan"}

\* Taken after the signal, when every call to Redis and PostgreSQL fails.
LateStages   == {"lateLoad", "lateSuccess", "lateFailure"}
WorkerStages == {"loading", "lateLoad", "acquiring"}
HTTPStages   == {"checking", "sending"}
RouterStages == {"routeSuccess", "routeFailure"}
\* "alerted": the alert is sent, the deferred AckJob and ScheduleMonitor are not done.
ResultStages == {"success", "failure", "lateSuccess", "lateFailure", "alerting", "alerted"}
AlertStages  == {"handlingAlert"}
\* "batch": fetched jobs the scheduler still has to send.
Stages == {"batch"} \cup Channels \cup WorkerStages \cup HTTPStages \cup RouterStages
          \cup ResultStages \cup AlertStages

Size(chan) == CASE chan = "jobChan"     -> JobChannelSize
                [] chan = "resultChan"  -> ResultChannelSize
                [] chan = "successChan" -> SuccessChannelSize
                [] chan = "failureChan" -> FailureChannelSize
                [] chan = "alertChan"   -> AlertChannelSize

MainSteps == {"running", "closeJobs", "waitWorkers", "waitHTTP", "closeResults",
              "waitResults", "closeAlerts", "waitAlerts", "closeRedis", "exited"}

None(S) == \A s \in S : at[s] = 0

Alive == panicked = "none" /\ main # "exited"

Advance(from, to) == at' = [at EXCEPT ![from] = @ - 1, ![to] = @ + 1]
Finish(from)      == at' = [at EXCEPT ![from] = @ - 1]

Panic(chan) == panicked' = chan /\ UNCHANGED at

\* Faulty: a send that finds no room goes through.
SendUnbounded(from, chan) ==
    /\ at[from] > 0
    /\ \/ chan \in closed /\ Panic(chan)
       \/ chan \notin closed /\ Advance(from, chan) /\ UNCHANGED panicked

\* chan <- message by a goroutine at stage from: blocks while chan is full.
Send(from, chan) ==
    /\ at[from] > 0
    /\ \/ chan \in closed /\ Panic(chan)
       \/ /\ chan \notin closed /\ at[chan] < Size(chan)
          /\ Advance(from, chan)
          /\ UNCHANGED panicked

Init ==
    /\ signalled = FALSE
    /\ main = "running"
    /\ closed = {}
    /\ scheduler = "running" /\ fetched = 0
    /\ at = [s \in Stages |-> 0]
    /\ panicked = "none" /\ abandoned = FALSE

Signal ==
    /\ Alive
    /\ ~signalled
    /\ signalled' = TRUE
    /\ UNCHANGED <<main, closed, scheduler, fetched, at, panicked, abandoned>>

-----------------------------------------------------------------------------
(* Scheduler *)

\* A tick.  With a cancelled context the script is not run and nothing is fetched.
Fetch ==
    /\ Alive
    /\ scheduler = "running" /\ at["batch"] = 0 /\ ~signalled
    /\ \E n \in 1 .. BatchSize :
          /\ fetched + n <= MaxFetched
          /\ at' = [at EXCEPT !["batch"] = n]
          /\ fetched' = fetched + n
    /\ UNCHANGED <<signalled, main, closed, scheduler, panicked, abandoned>>

\* The select of doWorkWithReliability, case jobChan <- job: ready when there is room,
\* and when the channel is closed.
SendJob == Alive /\ Send("batch", "jobChan") /\ UNCHANGED others

\* case <-ctx.Done(): the rest of the batch is left to the reclaimer.
LeaveBatch ==
    /\ Alive
    /\ at["batch"] > 0 /\ signalled
    /\ at' = [at EXCEPT !["batch"] = 0]
    /\ UNCHANGED <<others, panicked>>

\* default: no other case is ready.
Backpressure ==
    /\ Alive
    /\ at["batch"] > 0 /\ ~signalled
    /\ "jobChan" \notin closed /\ at["jobChan"] >= JobChannelSize
    /\ Finish("batch")
    /\ UNCHANGED <<others, panicked>>

StopScheduler ==
    /\ Alive
    /\ scheduler = "running" /\ at["batch"] = 0 /\ signalled
    /\ scheduler' = "stopped"
    /\ UNCHANGED <<signalled, main, closed, fetched, at, panicked, abandoned>>

-----------------------------------------------------------------------------
(* Executor *)

TakeJob ==
    /\ Alive
    /\ at["jobChan"] > 0
    /\ at["loading"] + at["lateLoad"] + at["acquiring"] < WorkerCount
    /\ Advance("jobChan", IF signalled THEN "lateLoad" ELSE "loading")
    /\ UNCHANGED <<others, panicked>>

Loaded ==
    /\ Alive
    /\ at["loading"] > 0
    /\ Advance("loading", "acquiring")
    /\ UNCHANGED <<others, panicked>>

\* Faulty: a job that could not be loaded goes back into jobChan.
NotLoadedRequeued ==
    Alive /\ (\E s \in {"loading", "lateLoad"} : Send(s, "jobChan")) /\ UNCHANGED others

\* A worker is done with its message; a late one has got no call through.
Done(s) == at[s] > 0 /\ Finish(s) /\ abandoned' = (abandoned \/ s \in LateStages)

\* Not found, disabled or failed; after the signal it can only fail, and so does the
\* ScheduleMonitor that follows.
NotLoaded ==
    /\ Alive
    /\ \E s \in {"loading", "lateLoad"} : Done(s)
    /\ UNCHANGED <<control, panicked>>

AcquireSemaphore ==
    /\ Alive
    /\ at["acquiring"] > 0
    /\ at["checking"] + at["sending"] < HTTPSemCount
    /\ Advance("acquiring", "checking")
    /\ UNCHANGED <<others, panicked>>

\* The check has a context of its own: the signal does not end it.
ExecuteHTTPCheck ==
    /\ Alive
    /\ at["checking"] > 0
    /\ Advance("checking", "sending")
    /\ UNCHANGED <<others, panicked>>

SendResult == Alive /\ Send("sending", "resultChan") /\ UNCHANGED others

-----------------------------------------------------------------------------
(* Result processor and alert service *)

RouterTakes ==
    /\ Alive
    /\ at["resultChan"] > 0 /\ None(RouterStages)
    /\ \E s \in RouterStages : Advance("resultChan", s)
    /\ UNCHANGED <<others, panicked>>

Route ==
    /\ Alive
    /\ Send("routeSuccess", "successChan") \/ Send("routeFailure", "failureChan")
    /\ UNCHANGED others

\* Faulty: the router returns and leaves its channels open.
RouterEndsSilently ==
    /\ Alive
    /\ "resultChan" \in closed /\ None({"resultChan"} \cup RouterStages)
    /\ UNCHANGED vars

\* The router's range loop is over; it closes failureChan, then successChan.
RouterEnds ==
    /\ Alive
    /\ "resultChan" \in closed /\ None({"resultChan"} \cup RouterStages)
    /\ \/ "failureChan" \notin closed /\ closed' = closed \cup {"failureChan"}
       \/ /\ "failureChan" \in closed /\ "successChan" \notin closed
          /\ closed' = closed \cup {"successChan"}
    /\ UNCHANGED <<signalled, main, scheduler, fetched, at, panicked, abandoned>>

TakeSuccess ==
    /\ Alive
    /\ at["successChan"] > 0
    /\ at["success"] + at["lateSuccess"] < SuccessWorkerCount
    /\ Advance("successChan", IF signalled THEN "lateSuccess" ELSE "success")
    /\ UNCHANGED <<others, panicked>>

\* A failure worker that is free again.
FailureWorkerFree ==
    at["failure"] + at["lateFailure"] + at["alerting"] + at["alerted"] < FailureWorkerCount

TakeFailure ==
    /\ Alive
    /\ at["failureChan"] > 0 /\ FailureWorkerFree
    /\ Advance("failureChan", IF signalled THEN "lateFailure" ELSE "failure")
    /\ UNCHANGED <<others, panicked>>

\* handleSuccess or handleFailure returns, its deferred calls made.
Handled ==
    /\ Alive
    /\ \E s \in ResultStages \ {"alerting"} : Done(s)
    /\ UNCHANGED <<control, panicked>>

\* A failure that won the right to alert, before the signal or with its calls under way.
MarkAlerted ==
    /\ Alive
    /\ at["failure"] > 0
    /\ Advance("failure", "alerting")
    /\ UNCHANGED <<others, panicked>>

\* alertChan <- AlertEvent; the worker goes on to its deferred calls.
SendAlert ==
    /\ Alive
    /\ at["alerting"] > 0
    /\ \/ "alertChan" \in closed /\ Panic("alertChan")
       \/ /\ "alertChan" \notin closed /\ at["alertChan"] < AlertChannelSize
          /\ at' = [at EXCEPT !["alerting"] = @ - 1, !["alerted"] = @ + 1, !["alertChan"] = @ + 1]
          /\ UNCHANGED panicked
    /\ UNCHANGED others

TakeAlert ==
    /\ Alive
    /\ at["alertChan"] > 0 /\ at["handlingAlert"] < AlertWorkerCount
    /\ Advance("alertChan", "handlingAlert")
    /\ UNCHANGED <<others, panicked>>

HandleAlert ==
    /\ Alive
    /\ at["handlingAlert"] > 0
    /\ Finish("handlingAlert")
    /\ UNCHANGED <<others, panicked>>

-----------------------------------------------------------------------------
(* The main goroutine *)

Go(step)    ==
    main' = step /\ UNCHANGED <<signalled, scheduler, fetched, at, panicked, abandoned>>
Close(chan) == closed' = closed \cup {chan}

\* <-ctx.Done(), then the HTTP server's Shutdown, which returns after ten seconds.
ShutdownServer ==
    Alive /\ main = "running" /\ signalled /\ Go("closeJobs") /\ UNCHANGED closed

CloseJobChan ==
    Alive /\ main = "closeJobs" /\ Close("jobChan") /\ Go("waitWorkers")

\* Executor.Stop: workerWg.Wait(): a worker returns when jobChan is closed and empty.
WaitWorkers ==
    /\ Alive
    /\ main = "waitWorkers"
    /\ "jobChan" \in closed /\ None({"jobChan"} \cup WorkerStages)
    /\ Go("waitHTTP") /\ UNCHANGED closed

\* Faulty: Stop waits for the workers only.
WaitHTTPSkipped ==
    Alive /\ main = "waitHTTP" /\ Go("closeResults") /\ UNCHANGED closed

\* httpWg.Wait().
WaitHTTP ==
    Alive /\ main = "waitHTTP" /\ None(HTTPStages) /\ Go("closeResults") /\ UNCHANGED closed

\* Faulty: the result channel is left open.
CloseResultChanForgotten ==
    Alive /\ main = "closeResults" /\ Go("waitResults") /\ UNCHANGED closed

CloseResultChan ==
    Alive /\ main = "closeResults" /\ Close("resultChan") /\ Go("waitResults")

\* The router is not in the wait group; the workers return when it has closed their
\* channels.
WorkersClosingWait ==
    /\ Alive
    /\ main = "waitResults"
    /\ {"successChan", "failureChan"} \subseteq closed
    /\ None({"successChan", "failureChan"} \cup ResultStages)
    /\ Go("closeAlerts") /\ UNCHANGED closed

CloseAlertChan ==
    Alive /\ main = "closeAlerts" /\ Close("alertChan") /\ Go("waitAlerts")

\* Faulty: main does not wait for the alert workers.
WorkerClosingWaitSkipped ==
    Alive /\ main = "waitAlerts" /\ Go("closeRedis") /\ UNCHANGED closed

WorkerClosingWait ==
    /\ Alive
    /\ main = "waitAlerts"
    /\ "alertChan" \in closed /\ None({"alertChan"} \cup AlertStages)
    /\ Go("closeRedis") /\ UNCHANGED closed

Exit == Alive /\ main = "closeRedis" /\ Go("exited") /\ UNCHANGED closed

-----------------------------------------------------------------------------
SchedulerStep == Fetch \/ SendJob \/ LeaveBatch \/ Backpressure \/ StopScheduler

ExecutorStep ==
    TakeJob \/ Loaded \/ NotLoaded \/ AcquireSemaphore \/ ExecuteHTTPCheck \/ SendResult

ResultStep ==
    RouterTakes \/ Route \/ RouterEnds \/ TakeSuccess \/ TakeFailure \/ Handled
    \/ MarkAlerted \/ SendAlert \/ TakeAlert \/ HandleAlert

MainStep ==
    \/ ShutdownServer \/ CloseJobChan \/ WaitWorkers \/ WaitHTTP \/ CloseResultChan
    \/ WorkersClosingWait \/ CloseAlertChan \/ WorkerClosingWait \/ Exit

Next == Signal \/ SchedulerStep \/ ExecutorStep \/ ResultStep \/ MainStep

Spec == Init /\ [][Next]_vars

\* In each part of the process some goroutine that can go on does.  Whether the signal
\* comes is left open.
Fairness ==
    /\ WF_vars(SchedulerStep) /\ WF_vars(ExecutorStep) /\ WF_vars(ResultStep)
    /\ WF_vars(MainStep)

FairSpec == Spec /\ Fairness

-----------------------------------------------------------------------------
(* Properties *)

\* Type correctness; no channel holds more than its capacity, however senders block.
TypeOK ==
    /\ signalled \in BOOLEAN
    /\ main \in MainSteps
    /\ closed \subseteq Channels
    /\ scheduler \in {"running", "stopped"}
    /\ fetched \in 0 .. MaxFetched
    /\ at \in [Stages -> Nat] /\ at["batch"] <= BatchSize
    /\ \A c \in Channels : at[c] <= Size(c)
    /\ panicked \in Channels \cup {"none"} /\ abandoned \in BOOLEAN

\* The order of the shutdown protects the HTTP goroutines, the router and the failure
\* workers: none of them ever sends on a closed channel.
StagesNeverPanic == panicked \in {"none", "jobChan"}

\* Before main closes the Redis client every message has left every channel, and no
\* executor, result or alert goroutine holds one, not even a failure worker whose alert is
\* sent and whose deferred calls to Redis are not made.  (The scheduler and the reclaimer
\* are not waited for.  What becomes of the messages is FullyProcessed's question.)
DrainedBeforeExit == main \in {"closeRedis", "exited"} => None(Stages \ {"batch"})

\* How far the messages before the result channel, with the router, with the result
\* workers and on the way to an alert are from their end, and main from its.
JobWork ==
    14 * at["batch"] + 13 * at["jobChan"] + 12 * (at["loading"] + at["lateLoad"])
    + 11 * at["acquiring"] + 10 * at["checking"] + 9 * at["sending"]
RouterWork == 8 * at["resultChan"] + 7 * (at["routeSuccess"] + at["routeFailure"])
ResultWork ==
    6 * (at["successChan"] + at["failureChan"])
    + 5 * (at["success"] + at["failure"] + at["lateSuccess"] + at["lateFailure"])
AlertWork == 4 * at["alerting"] + 2 * at["alertChan"] + at["alerted"] + at["handlingAlert"]
MainWork ==
    CASE main = "running"      -> 9 [] main = "closeJobs"   -> 8 [] main = "waitWorkers" -> 7
      [] main = "waitHTTP"     -> 6 [] main = "closeResults" -> 5 [] main = "waitResults" -> 4
      [] main = "closeAlerts"  -> 3 [] main = "waitAlerts"  -> 2 [] main = "closeRedis"  -> 1
      [] main = "exited"       -> 0
One(b) == IF b THEN 1 ELSE 0
Work == JobWork + RouterWork + ResultWork + AlertWork + MainWork
        + One("failureChan" \notin closed) + One("successChan" \notin closed)
        + One(scheduler = "running") + One(panicked = "none")

\* From the signal on every step of every goroutine is one less to go: no message is sent
\* back, no new one is fetched, no stage is reopened, so the drain cannot go on for ever.
DrainAdvances == [][signalled => Work' < Work]_vars

\* What the goroutines can do once the context is cancelled.
CanSend(from, chan) == at[from] > 0 /\ (chan \in closed \/ at[chan] < Size(chan))

SchedulerCan == at["batch"] > 0 \/ scheduler = "running"

ExecutorCan ==
    \/ at["jobChan"] > 0 /\ at["loading"] + at["lateLoad"] + at["acquiring"] < WorkerCount
    \/ at["acquiring"] > 0 /\ at["checking"] + at["sending"] < HTTPSemCount
    \/ ~None({"loading", "lateLoad", "checking"})
    \/ CanSend("sending", "resultChan")

ResultCan ==
    \/ at["resultChan"] > 0 /\ None(RouterStages)
    \/ CanSend("routeSuccess", "successChan") \/ CanSend("routeFailure", "failureChan")
    \/ /\ "resultChan" \in closed /\ None({"resultChan"} \cup RouterStages)
       /\ ~({"successChan", "failureChan"} \subseteq closed)
    \/ at["successChan"] > 0 /\ at["success"] + at["lateSuccess"] < SuccessWorkerCount
    \/ at["failureChan"] > 0 /\ FailureWorkerFree
    \/ ~None(ResultStages \ {"alerting"})
    \/ CanSend("alerting", "alertChan")
    \/ at["alertChan"] > 0 /\ at["handlingAlert"] < AlertWorkerCount
    \/ ~None(AlertStages)

MainCan ==
    \/ main \in {"running", "closeJobs", "closeResults", "closeAlerts", "closeRedis"}
    \/ main = "waitWorkers" /\ "jobChan" \in closed /\ None({"jobChan"} \cup WorkerStages)
    \/ main = "waitHTTP" /\ None(HTTPStages)
    \/ /\ main = "waitResults" /\ {"successChan", "failureChan"} \subseteq closed
       /\ None({"successChan", "failureChan"} \cup ResultStages)
    \/ main = "waitAlerts" /\ "alertChan" \in closed /\ None({"alertChan"} \cup AlertStages)

\* However full the channels are when the signal comes, and whatever the stages wait for,
\* there is no circle of waits: as long as the process is up somebody can go on.
DrainNeverStuck == signalled /\ Alive => SchedulerCan \/ ExecutorCan \/ ResultCan \/ MainCan

\* The shutdown ends: none of the waits is for a goroutine that waits for main, however
\* full the channels are when the signal comes.
ShutdownCompletes == signalled ~> main = "exited" \/ panicked # "none"

\* README.md: "1. close(jobChan) <- Scheduler stops producing".  Nobody waits for the
\* scheduler, whose select may still pick the send.
SchedulerStopsFirst == panicked # "jobChan"

\* README.md: the order of the shutdown ensures that "every in-flight message is fully
\* processed before the process exits".  The workers drain their channels with a context
\* that is cancelled: every call they make fails.
FullyProcessed == main = "exited" => ~abandoned
=============================================================================
