------------------------------ MODULE Incident ------------------------------
(***************************************************************************)
(* The incident state machine of one monitor: handleSuccess and            *)
(* handleFailure, call by call, against the Redis hash monitor:incident,   *)
(* the counter monitor:retry, the monitor_incidents table and alertChan.   *)
(* The keys and rows of different monitors are disjoint, so one monitor    *)
(* is enough.                                                              *)
(*                                                                         *)
(* Workers are the result workers that handle results of this monitor at   *)
(* the same time.  As long as the reclaimer does not reissue a monitor     *)
(* that is still handled there is one (Pipeline!NoDoubleExecution); with   *)
(* more of them the handlers interleave.                                   *)
(***************************************************************************)
EXTENDS Naturals, FiniteSets

CONSTANTS
    Workers,           \* handlers of results of the monitor running at once
    MayDisable,        \* whether UpdateMonitorStatus(enable = false) may happen
    AlertChannelSize,  \* app.alert_channel_size
    MaxCount,          \* bound on failure_count: no failure arrives beyond it
    MaxFaults          \* bound on crashes, failed calls and late retries

ASSUME IncidentAssumption ==
    /\ MayDisable \in BOOLEAN
    /\ AlertChannelSize \in Nat \ {0} /\ MaxCount \in Nat /\ MaxFaults \in Nat

VARIABLES
    failureCount,  \* failure_count of the hash, 0 when missing
    alerted,       \* alerted of the hash
    dbIncident,    \* db_incident of the hash
    retryCount,    \* monitor:retry, 0 when missing
    openRow,       \* the table has a row of the monitor with end_time NULL
    alertChan,     \* events in alertChan
    handler,       \* what each worker is doing
    stopped,       \* a terminal failure ended the checks
    faults,
    \* History
    alerts,        \* workers that won the right to alert in the life of this hash
    winners,       \* those of them that have not put their alert into alertChan yet
    announced,     \* the alert of this hash reached alertChan
    orphaned,      \* workers between HINCRBY and HSETNX whose hash was deleted
    raced          \* handlers overlapped, or the monitor was disabled, since the last
                   \* result that one worker alone took with no open row

hash    == <<failureCount, alerted, dbIncident>>
history == <<alerts, winners, announced, orphaned, raced>>
vars    == <<hash, retryCount, openRow, alertChan, handler, stopped, faults, history>>

AlertThreshold == 3  \* failCount < 3
RetryBudget    == 2  \* retryCount <= 2

\* A retryable failure carries no HTTP status.
Results == {"success", "failed", "retryable"}

SuccessSteps == {"getIncident", "closeIncident", "clearIncident", "clearRetry"}
FailureSteps == {"incrementRetry", "clearSpentRetry", "incrementIncident", "markAlerted",
                 "markDBIncident", "createIncident", "sendAlert"}
Steps == SuccessSteps \cup FailureSteps

Idle == [step |-> "idle", res |-> "none"]
Busy == {w \in Workers : handler[w].step # "idle"}

Go(w, step) == handler' = [handler EXCEPT ![w].step = step]
Return(w)   == handler' = [handler EXCEPT ![w] = Idle]
Fault       == faults < MaxFaults /\ faults' = faults + 1

Init ==
    /\ failureCount = 0 /\ alerted = FALSE /\ dbIncident = FALSE
    /\ retryCount = 0
    /\ openRow = FALSE
    /\ alertChan = 0
    /\ handler = [w \in Workers |-> Idle]
    /\ stopped = FALSE
    /\ faults = 0
    /\ alerts = 0 /\ winners = {} /\ announced = FALSE /\ orphaned = {} /\ raced = FALSE

-----------------------------------------------------------------------------
(* Results arrive *)

FirstStep(res) == CASE res = "success"   -> "getIncident"
                    [] res = "retryable" -> "incrementRetry"
                    [] res = "failed"    -> "incrementIncident"

TakeResult(w, res) ==
    /\ handler[w] = Idle
    /\ ~stopped
    /\ res = "success" \/ failureCount + Cardinality(Busy) < MaxCount
    /\ handler' = [handler EXCEPT ![w] = [step |-> FirstStep(res), res |-> res]]
    /\ raced' = (Busy # {} \/ (raced /\ openRow))
    /\ UNCHANGED <<hash, retryCount, openRow, alertChan, stopped, faults,
                   alerts, winners, announced, orphaned>>

\* INVALID_REQUEST or DNS_FAILURE: no incident, no retry, no next check.
TakeTerminal(w) ==
    /\ handler[w] = Idle
    /\ ~stopped
    /\ stopped' = TRUE
    /\ UNCHANGED <<hash, retryCount, openRow, alertChan, handler, faults, history>>

-----------------------------------------------------------------------------
(* handleSuccess *)

\* HGETALL of a missing hash is an empty map, not nil: without an incident the worker
\* goes on to the DEL all the same.  An error skips the recovery.
GetIncident(w) ==
    /\ handler[w].step = "getIncident"
    /\ \/ /\ Go(w, IF dbIncident THEN "closeIncident" ELSE "clearIncident")
          /\ UNCHANGED faults
       \/ Fault /\ Return(w)
    /\ UNCHANGED <<hash, retryCount, openRow, alertChan, stopped, history>>

\* UPDATE monitor_incidents SET end_time: every open row of the monitor.
CloseRows == openRow' = FALSE

\* An error of CloseIncident, no open row included, is only logged.
CloseIncident(w) ==
    /\ handler[w].step = "closeIncident"
    /\ \/ CloseRows /\ UNCHANGED faults
       \/ Fault /\ UNCHANGED openRow
    /\ Go(w, "clearIncident")
    /\ UNCHANGED <<hash, retryCount, alertChan, stopped, history>>

\* DEL monitor:incident, by a worker or by disableMonitor.
DelIncident ==
    /\ failureCount' = 0 /\ alerted' = FALSE /\ dbIncident' = FALSE
    /\ alerts' = 0 /\ winners' = {} /\ announced' = FALSE
    /\ orphaned' = orphaned \cup {w \in Workers : handler[w].step = "markAlerted"}

ClearIncident(w) ==
    /\ handler[w].step = "clearIncident"
    /\ \/ DelIncident /\ UNCHANGED <<faults, raced>>
       \/ Fault /\ UNCHANGED <<hash, history>>
    /\ Go(w, "clearRetry")
    /\ UNCHANGED <<retryCount, openRow, alertChan, stopped>>

ClearRetry(w) ==
    /\ handler[w].step = "clearRetry"
    /\ \/ retryCount' = 0 /\ UNCHANGED faults
       \/ Fault /\ UNCHANGED retryCount
    /\ Return(w)
    /\ UNCHANGED <<hash, openRow, alertChan, stopped, history>>

-----------------------------------------------------------------------------
(* handleFailure *)

\* INCR, then EXPIRE; retry() repeats both when either fails.  When it gives up the
\* handler returns, and the counter may have grown.
IncrementRetry(w) ==
    /\ handler[w].step = "incrementRetry"
    /\ \/ \E n \in {1, 2} :
             /\ retryCount' = retryCount + n
             /\ IF n = 1 THEN UNCHANGED faults ELSE Fault
             /\ IF retryCount' <= RetryBudget THEN Return(w) ELSE Go(w, "clearSpentRetry")
       \/ Fault /\ retryCount' \in retryCount .. retryCount + 2 /\ Return(w)
    /\ UNCHANGED <<hash, openRow, alertChan, stopped, history>>

\* Faulty: a spent retry budget is reset and the failure forgotten.
ClearSpentRetryReturns(w) ==
    /\ handler[w].step = "clearSpentRetry"
    /\ retryCount' = 0
    /\ Return(w)
    /\ UNCHANGED <<hash, openRow, alertChan, stopped, faults, history>>

ClearSpentRetry(w) ==
    /\ handler[w].step = "clearSpentRetry"
    /\ \/ retryCount' = 0 /\ UNCHANGED faults
       \/ Fault /\ UNCHANGED retryCount
    /\ Go(w, "incrementIncident")
    /\ UNCHANGED <<hash, openRow, alertChan, stopped, history>>

\* Faulty: one failure too few before the alert.
IncrementIncidentEager(w) ==
    /\ handler[w].step = "incrementIncident"
    /\ failureCount' = failureCount + 1
    /\ IF failureCount' + 1 < AlertThreshold THEN Return(w) ELSE Go(w, "markAlerted")
    /\ UNCHANGED <<alerted, dbIncident, retryCount, openRow, alertChan, stopped, faults, history>>

\* HINCRBY, repeated up to three times when its reply is lost.
IncrementIncident(w) ==
    /\ handler[w].step = "incrementIncident"
    /\ \/ \E n \in 1 .. 3 :
             /\ failureCount' = failureCount + n
             /\ IF n = 1 THEN UNCHANGED faults ELSE Fault
             /\ IF failureCount' < AlertThreshold THEN Return(w) ELSE Go(w, "markAlerted")
       \/ Fault /\ failureCount' \in failureCount .. failureCount + 3 /\ Return(w)
    /\ UNCHANGED <<alerted, dbIncident, retryCount, openRow, alertChan, stopped, history>>

\* Faulty: MarkIncidentAlerted, a plain HSET, decides nothing.
MarkIncidentAlerted(w) ==
    /\ handler[w].step = "markAlerted"
    /\ alerted' = TRUE /\ alerts' = alerts + 1 /\ winners' = winners \cup {w}
    /\ orphaned' = orphaned \ {w}
    /\ Go(w, "markDBIncident")
    /\ UNCHANGED <<failureCount, dbIncident, retryCount, openRow, alertChan, stopped, faults,
                   announced, raced>>

\* HSETNX alerted.  The worker that sets the field alerts; an error, which may have
\* set it too, counts as "already alerted".
MarkIncidentAlertedIfNotSet(w) ==
    /\ handler[w].step = "markAlerted"
    /\ \/ /\ ~alerted
          /\ alerted' = TRUE /\ alerts' = alerts + 1 /\ winners' = winners \cup {w}
          /\ Go(w, "markDBIncident")
          /\ UNCHANGED faults
       \/ alerted /\ Return(w) /\ UNCHANGED <<alerted, alerts, winners, faults>>
       \/ Fault /\ alerted' \in {alerted, TRUE} /\ Return(w) /\ UNCHANGED <<alerts, winners>>
    /\ orphaned' = orphaned \ {w}
    /\ UNCHANGED <<failureCount, dbIncident, retryCount, openRow, alertChan, stopped,
                   announced, raced>>

\* Faulty: the flag is written as "false", as MarkIncidentAlerted does.
MarkDBIncidentFalse(w) ==
    /\ handler[w].step = "markDBIncident"
    /\ dbIncident' = FALSE
    /\ Go(w, "createIncident")
    /\ UNCHANGED <<failureCount, alerted, retryCount, openRow, alertChan, stopped, faults, history>>

MarkDBIncidentCreated(w) ==
    /\ handler[w].step = "markDBIncident"
    /\ \/ dbIncident' = TRUE /\ UNCHANGED faults
       \/ Fault /\ UNCHANGED dbIncident
    /\ Go(w, "createIncident")
    /\ UNCHANGED <<failureCount, alerted, retryCount, openRow, alertChan, stopped, history>>

\* The table accepts http_status 100 to 599 only; a retryable failure has status 0.
Storable(res) == res = "failed"

\* INSERT INTO monitor_incidents, which the table may reject.
InsertRow(res) == openRow' = (openRow \/ Storable(res))

\* Faulty: no alert when the insert fails.
CreateIncidentOrReturn(w) ==
    /\ handler[w].step = "createIncident"
    /\ InsertRow(handler[w].res)
    /\ IF openRow' THEN Go(w, "sendAlert") ELSE Return(w)
    /\ UNCHANGED <<hash, retryCount, alertChan, stopped, faults, history>>

\* A failed or rejected insert is logged and the alert is sent anyway.
CreateIncident(w) ==
    /\ handler[w].step = "createIncident"
    /\ \/ InsertRow(handler[w].res) /\ UNCHANGED faults
       \/ Fault /\ UNCHANGED openRow
    /\ Go(w, "sendAlert")
    /\ UNCHANGED <<hash, retryCount, alertChan, stopped, history>>

\* Faulty: the channel is taken to have room.
SendAlertUnbounded(w) ==
    /\ handler[w].step = "sendAlert"
    /\ alertChan' = alertChan + 1
    /\ announced' = (announced \/ w \in winners) /\ winners' = winners \ {w}
    /\ Return(w)
    /\ UNCHANGED <<hash, retryCount, openRow, stopped, faults, alerts, orphaned, raced>>

\* alertChan <- AlertEvent blocks while the channel is full.
SendAlert(w) ==
    /\ handler[w].step = "sendAlert"
    /\ alertChan < AlertChannelSize
    /\ alertChan' = alertChan + 1
    /\ announced' = (announced \/ w \in winners) /\ winners' = winners \ {w}
    /\ Return(w)
    /\ UNCHANGED <<hash, retryCount, openRow, stopped, faults, alerts, orphaned, raced>>

-----------------------------------------------------------------------------
(* Alert service, disabling, time and crashes *)

HandleAlerts ==
    /\ alertChan > 0
    /\ alertChan' = alertChan - 1
    /\ UNCHANGED <<hash, retryCount, openRow, handler, stopped, faults, history>>

\* disableMonitor deletes the hash, whatever the workers are doing, and leaves the
\* row and the retry counter alone.
DisableMonitor ==
    /\ MayDisable
    /\ hash # <<0, FALSE, FALSE>>
    /\ DelIncident
    /\ raced' = TRUE
    /\ UNCHANGED <<retryCount, openRow, alertChan, handler, stopped, faults>>

\* The counter lives five minutes after the last INCR; a retry comes after five
\* seconds, so one that finds it gone was late and counts as a fault.
RetryExpires ==
    /\ retryCount > 0
    /\ Fault
    /\ retryCount' = 0
    /\ UNCHANGED <<hash, openRow, alertChan, handler, stopped, history>>

\* The process dies: handlers and queued alerts are gone, Redis and the table stay.
Crash ==
    /\ Fault
    /\ handler' = [w \in Workers |-> Idle]
    /\ alertChan' = 0
    /\ winners' = {} /\ orphaned' = {}
    /\ UNCHANGED <<hash, retryCount, openRow, stopped, alerts, announced, raced>>

-----------------------------------------------------------------------------
Take(w) == (\E res \in Results : TakeResult(w, res)) \/ TakeTerminal(w)

HandleStep(w) ==
    \/ GetIncident(w) \/ CloseIncident(w) \/ ClearIncident(w) \/ ClearRetry(w)
    \/ IncrementRetry(w) \/ ClearSpentRetry(w) \/ IncrementIncident(w)
    \/ MarkIncidentAlertedIfNotSet(w) \/ MarkDBIncidentCreated(w) \/ CreateIncident(w)
    \/ SendAlert(w)

Next ==
    \/ \E w \in Workers : Take(w) \/ HandleStep(w)
    \/ HandleAlerts \/ DisableMonitor \/ RetryExpires \/ Crash

Spec == Init /\ [][Next]_vars

\* Workers and alert workers run, and an unstopped monitor is checked again
\* (Pipeline!EventuallyChecked).
Fairness ==
    /\ \A w \in Workers : WF_vars(Take(w)) /\ WF_vars(HandleStep(w))
    /\ WF_vars(HandleAlerts)

FairSpec == Spec /\ Fairness

-----------------------------------------------------------------------------
(* Properties *)

\* Type correctness; alertChan in particular never holds more than its capacity.
TypeOK ==
    /\ failureCount \in Nat /\ alerted \in BOOLEAN /\ dbIncident \in BOOLEAN
    /\ retryCount \in Nat
    /\ openRow \in BOOLEAN
    /\ alertChan \in 0 .. AlertChannelSize
    /\ handler \in [Workers -> {Idle} \cup [step: Steps, res: Results]]
    /\ stopped \in BOOLEAN
    /\ faults \in 0 .. MaxFaults
    /\ alerts \in Nat /\ winners \subseteq Workers /\ announced \in BOOLEAN
    /\ orphaned \subseteq Workers /\ raced \in BOOLEAN

\* However many workers handle failures of the monitor at once, and whatever deletes
\* the hash meanwhile, one of them at most wins the right to alert in the life of a
\* hash (HSETNX).
AlertOncePerIncident == alerts <= 1

\* An open row can be closed by the next success, because the hash says that it exists:
\* the flag is set before the insert and deleted after the close.  Overlapping handlers
\* or a disabling break this (a success may delete the flag of a row opened after its
\* close; disableMonitor never closes the row), but only until the next close of a row.
OpenRowTracked == faults = 0 /\ ~raced /\ openRow => dbIncident

\* Without a crash or a failed call the hash that is marked alerted has had its own
\* alert put into alertChan, or the worker that marked it is on its way there, however
\* handlers and disablings interleave.
AlertNotLost ==
    faults = 0 /\ alerted =>
        \/ announced
        \/ \E w \in winners :
               handler[w].step \in {"markDBIncident", "createIncident", "sendAlert"}

\* The hash is the IncidentTracker, whatever fails, crashes, overlaps or is disabled: no
\* alert before the threshold and none after a recovery, but for the workers whose hash
\* is deleted between HINCRBY and HSETNX: HSETNX creates the hash anew, alerted.
Tracker == INSTANCE IncidentTracker WITH count <- failureCount, late <- orphaned # {}
ImplementsTracker == Tracker!Spec

HandlingFailure == \E w \in Workers : handler[w].step \in FailureSteps
HandlingSuccess == \E w \in Workers : handler[w].step \in SuccessSteps

\* A monitor that keeps failing is alerted about in the end: retries run out and the
\* failures after that reach the threshold, unless it is disabled again and again.
SustainedFailureAlerts ==
    \/ []<><<DisableMonitor>>_vars
    \/ HandlingFailure ~> alerted \/ stopped \/ HandlingSuccess

\* success_worker.go logs "failed to close incident in DB, keeping redis incident".
\* The code deletes the hash all the same, and the open row is forgotten.
CloseFailureKeepsIncident ==
    [][\A w \in Workers : ClearIncident(w) /\ openRow /\ dbIncident => dbIncident']_vars

\* README.md: past the threshold, "Create DB incident + Send alert".  For a retryable
\* failure the insert is always rejected: the alert goes out without a row.
AlertHasRecord == [][\A w \in Workers : SendAlert(w) /\ faults = 0 => openRow]_vars
=============================================================================
