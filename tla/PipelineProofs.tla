--------------------------- MODULE PipelineProofs ---------------------------
(* Proofs about Pipeline, for any number of monitors, instances, job copies   *)
(* and faults and any configured sizes.                                       *)
EXTENDS Pipeline, FiniteSetTheorems, TLAPS

-----------------------------------------------------------------------------
(* What the two ways of changing a job copy do *)

\* NoJob is at none of the stages.
LEMMA StageFacts ==
    /\ NoJob.stage \notin Stages
    /\ \A x \in Job : x.stage \in Stages /\ x.mon \in Monitors /\ x.inst \in Instances
  BY DEF NoJob, Job, Stages, LiveStages, QueueStages, WorkerStages, HTTPStages, ResultStages, WindowStages

\* A copy at a stage is a job of some monitor and instance.
LEMMA CopyIsJob ==
    ASSUME TypeOK, NEW j \in JobIds, job[j].stage \in Stages
    PROVE  job[j] \in Job /\ job[j].mon \in Monitors /\ job[j].inst \in Instances
  BY StageFacts DEF TypeOK

\* Move changes the stage of one copy.
LEMMA MoveFacts ==
    ASSUME TypeOK, NEW j \in JobIds, job[j].stage \in Stages, NEW s \in Stages, Move(j, s)
    PROVE  /\ job' \in [JobIds -> Job \cup {NoJob}]
           /\ \A k \in JobIds \ {j} : job'[k] = job[k]
           /\ job'[j].stage = s /\ job'[j].mon = job[j].mon /\ job'[j].res = job[j].res
  <1>1. job[j] \in Job
    BY CopyIsJob
  <1>2. [job[j] EXCEPT !.stage = s] \in Job
    BY <1>1 DEF Job
  <1>3. job' = [job EXCEPT ![j] = [job[j] EXCEPT !.stage = s]]
    BY DEF Move
  <1> QED
    BY <1>1, <1>2, <1>3 DEF TypeOK, Job

\* Drop frees one copy.
LEMMA DropFacts ==
    ASSUME TypeOK, NEW j \in JobIds, Drop(j)
    PROVE  /\ job' \in [JobIds -> Job \cup {NoJob}]
           /\ \A k \in JobIds \ {j} : job'[k] = job[k]
           /\ job'[j].stage = "free"
  BY DEF TypeOK, Drop, NoJob

\* NewCopy turns one free identity into a copy of m with instance i.
LEMMA NewCopyFacts ==
    ASSUME TypeOK, NEW m \in Monitors, NEW i \in Instances, NEW s \in Stages,
           NewCopy(m, i, s)
    PROVE  /\ job' \in [JobIds -> Job \cup {NoJob}]
           /\ \E j \in JobIds :
                 /\ Free(j) /\ \A k \in JobIds \ {j} : job'[k] = job[k]
                 /\ job'[j] = [mon |-> m, inst |-> i, stage |-> s, res |-> "none"]
  <1>1. PICK j \in JobIds : Free(j) /\ job' = [job EXCEPT ![j] =
            [mon |-> m, inst |-> i, stage |-> s, res |-> "none"]]
    BY DEF NewCopy
  <1>2. [mon |-> m, inst |-> i, stage |-> s, res |-> "none"] \in Job
    BY DEF Job
  <1> QED
    BY <1>1, <1>2 DEF TypeOK

-----------------------------------------------------------------------------
(* Type correctness *)

\* The outcomes of ScheduleMonitor keep the types of what they change.
LEMMA ScheduleMonitorType ==
    ASSUME TypeOK, NEW m \in Monitors, NEW s \in Nat, ScheduleMonitor(m, s)
    PROVE  /\ schedule' \in [Monitors -> {"absent", "waiting", "due"}]
           /\ faults' \in 0 .. MaxFaults
           /\ retired' \subseteq Monitors /\ exposed' \subseteq Monitors
           /\ reissued' \subseteq Monitors
  BY PipelineAssumption
     DEF ScheduleMonitor, Schedule, ScheduleFails, Fault, NextRun, TypeOK

\* A fault keeps within its bound.
LEMMA FaultType ==
    ASSUME TypeOK, Fault
    PROVE  faults' \in 0 .. MaxFaults
  BY PipelineAssumption DEF Fault, TypeOK

\* The invariants below see a step of a copy only through these facts.
LEMMA QuietMove ==
    ASSUME TypeOK, NEW j \in JobIds, NEW s \in Stages, job[j].stage \in Stages,
           Move(j, s), UNCHANGED <<redis, popped, alerts, created, faults, history>>
    PROVE  TypeOK'
  BY MoveFacts DEF TypeOK, redis, alerts, history

\* Every variable keeps to its type: what Init sets up and every step maintains.
LEMMA TypeStep == TypeOK /\ [Next]_vars => TypeOK'
<1> SUFFICES ASSUME TypeOK, [Next]_vars PROVE TypeOK'
  OBVIOUS
<1> USE DEF redis, alerts, history
<1>1. ASSUME NEW m \in Monitors, NEW i \in Instances, CreateMonitor(m, i) PROVE TypeOK'
  <2>1. "creating" \in Stages
    BY DEF Stages, WindowStages
  <2>2. job' \in [JobIds -> Job \cup {NoJob}]
    BY <1>1, <2>1, NewCopyFacts DEF CreateMonitor, TypeOK
  <2> QED
    BY <1>1, <2>2, FaultType DEF CreateMonitor, TypeOK
<1>2. ASSUME NEW m \in Monitors, BecomesDue(m) \/ Expires(m) PROVE TypeOK'
  BY <1>2 DEF BecomesDue, Expires, TypeOK
<1>3. ASSUME NEW i \in Instances, FetchAndMoveToInflight(i) PROVE TypeOK'
  <2>1. PICK S \in Limited(Due, BatchSize) :
            /\ MoveToInflight(S)
            /\ \/ popped' = [popped EXCEPT ![i] = S] /\ UNCHANGED faults
               \/ Fault /\ UNCHANGED popped
    BY <1>3 DEF FetchAndMoveToInflight
  <2>2. S \subseteq Monitors
    BY DEF Limited, Due
  <2>3. popped' \in [Instances -> SUBSET Monitors] /\ faults' \in 0 .. MaxFaults
    BY <2>1, <2>2, FaultType DEF TypeOK
  <2> QED
    BY <1>3, <2>1, <2>3 DEF FetchAndMoveToInflight, MoveToInflight, TypeOK
<1>4. ASSUME NEW i \in Instances, NEW m \in Monitors, Dispatch(i, m) \/ Backpressure(i, m)
      PROVE  TypeOK'
  <2>1. {"jobChan", "backoff"} \subseteq Stages
    BY DEF Stages, LiveStages, QueueStages
  <2>2. job' \in [JobIds -> Job \cup {NoJob}]
    BY <1>4, <2>1, NewCopyFacts DEF Dispatch, Backpressure
  <2> QED
    BY <1>4, <2>2 DEF Dispatch, Backpressure, TypeOK
<1>5. ASSUME NEW i \in Instances, TakeAlert(i) \/ HandleAlert(i) PROVE TypeOK'
  BY <1>5, PipelineAssumption DEF TakeAlert, HandleAlert, TypeOK
<1>6. CASE ReclaimMonitors
  BY <1>6 DEF ReclaimMonitors, Limited, Expired, TypeOK
<1>7. ASSUME NEW j \in JobIds, TakeJob(j) \/ Loaded(j) \/ AcquireSemaphore(j)
             \/ SendResult(j) \/ RouterTakes(j) \/ Route(j) \/ WorkerTakes(j)
             \/ TakeRetryPath(j) \/ DecideAlert(j)
      PROVE  TypeOK'
  BY <1>7, QuietMove DEF TakeJob, Loaded, AcquireSemaphore, SendResult, RouterTakes, Route,
     WorkerTakes, TakeRetryPath, DecideAlert, Stages, LiveStages, QueueStages, WorkerStages, HTTPStages, ResultStages, WindowStages
<1>8. ASSUME NEW j \in JobIds, NotMonitored(j) \/ Requeue(j) \/ PutBack(j) PROVE TypeOK'
  <2>1. job[j].stage \in Stages
    BY <1>8 DEF NotMonitored, Requeue, PutBack, Stages, LiveStages, WorkerStages
  <2> QED
    BY <1>8, <2>1, CopyIsJob, DropFacts, FaultType
    DEF NotMonitored, Requeue, PutBack, ScheduleCovered, Schedule, NextRun, TypeOK
<1>9. ASSUME NEW j \in JobIds, LoadFails(j) PROVE TypeOK'
  <2>1. job[j].stage \in Stages /\ "requeue" \in Stages
    BY <1>9 DEF LoadFails, Stages, LiveStages, WorkerStages
  <2> QED
    BY <1>9, <2>1, MoveFacts, FaultType DEF LoadFails, TypeOK
<1>10. ASSUME NEW j \in JobIds, ScheduleReplyLost(j) PROVE TypeOK'
  <2>1. job[j].mon \in Monitors
    BY <1>10, CopyIsJob DEF ScheduleReplyLost, Stages, LiveStages, WorkerStages, ResultStages, WindowStages
  <2>2. PICK seconds : schedule' = [schedule EXCEPT ![job[j].mon] = NextRun(seconds)]
    BY <1>10 DEF ScheduleReplyLost
  <2> QED
    BY <1>10, <2>1, <2>2, FaultType DEF ScheduleReplyLost, NextRun, TypeOK
<1>11. ASSUME NEW j \in JobIds, NEW r \in Results, ExecuteHTTPCheck(j, r) PROVE TypeOK'
  <2>1. job[j] \in Job
    BY <1>11, CopyIsJob DEF ExecuteHTTPCheck, Stages, LiveStages, HTTPStages
  <2>2. [[job[j] EXCEPT !.stage = "sending"] EXCEPT !.res = r] \in Job
    BY <2>1 DEF Job, Stages, LiveStages, HTTPStages
  <2>3. job' = [job EXCEPT ![j] = [[job[j] EXCEPT !.stage = "sending"] EXCEPT !.res = r]]
    BY <1>11 DEF ExecuteHTTPCheck, TypeOK
  <2> QED
    BY <1>11, <2>2, <2>3 DEF ExecuteHTTPCheck, TypeOK
<1>12. ASSUME NEW j \in JobIds, AckBeforeReschedule(j) PROVE TypeOK'
  BY <1>12, MoveFacts, FaultType DEF AckBeforeReschedule, AckJob, AckFails, TypeOK, Stages,
     LiveStages, ResultStages, WindowStages
<1>13. ASSUME NEW j \in JobIds, Reschedule(j) \/ ScheduleCreated(j) PROVE TypeOK'
  <2>1. /\ job[j].mon \in Monitors
        /\ \E s \in {0, 60} : ScheduleMonitor(job[j].mon, s)
    BY <1>13, CopyIsJob
    DEF Reschedule, ScheduleCreated, ResultIntervalSec, IntervalSec, Stages, WindowStages
  <2> QED
    BY <1>13, <2>1, ScheduleMonitorType, DropFacts DEF Reschedule, ScheduleCreated, TypeOK
<1>14. ASSUME NEW j \in JobIds, StopMonitoring(j) \/ AckAfterRetry(j) PROVE TypeOK'
  <2>1. job[j].mon \in Monitors
    BY <1>14, CopyIsJob DEF StopMonitoring, AckAfterRetry, Stages, LiveStages, ResultStages
  <2> QED
    BY <1>14, <2>1, FaultType, DropFacts
    DEF StopMonitoring, AckAfterRetry, AckJob, AckFails, TypeOK
<1>15. ASSUME NEW j \in JobIds, ScheduleRetry(j) PROVE TypeOK'
  <2>1. job[j].stage \in Stages /\ "ackOnly" \in Stages
    BY <1>15 DEF ScheduleRetry, Stages, LiveStages, ResultStages
  <2>2. PICK s \in {5, 0} : ScheduleMonitor(job[j].mon, s)
    BY <1>15 DEF ScheduleRetry, RetryDelays, ResultIntervalSec
  <2> QED
    BY <1>15, <2>1, <2>2, CopyIsJob, ScheduleMonitorType, MoveFacts DEF ScheduleRetry, TypeOK
<1>16. ASSUME NEW i \in Instances, Crash(i) PROVE TypeOK'
  BY <1>16, FaultType, PipelineAssumption DEF Crash, TypeOK
<1>17. ASSUME NEW j \in JobIds, SendAlert(j) PROVE TypeOK'
  <2>1. job[j].stage \in Stages /\ "alerted" \in Stages /\ job[j].inst \in Instances
    BY <1>17, CopyIsJob DEF SendAlert, Stages, LiveStages, ResultStages
  <2>2. alertChan' \in [Instances -> 0 .. AlertChannelSize]
    BY <1>17, <2>1, PipelineAssumption DEF SendAlert, TypeOK
  <2> QED
    BY <1>17, <2>1, <2>2, MoveFacts DEF SendAlert, TypeOK
<1>18. CASE UNCHANGED vars
  BY <1>18 DEF vars, TypeOK
<1> QED
  BY <1>1, <1>2, <1>3, <1>4, <1>5, <1>6, <1>7, <1>8, <1>11, <1>12, <1>13, <1>14, <1>15,
     <1>16, <1>17, <1>18, <1>9, <1>10, PipelineAssumption
  DEF Next, SchedulerStep, AlertStep, JobStep

\* The initial state has the types.
LEMMA TypeInit == Init => TypeOK
  BY PipelineAssumption DEF Init, TypeOK

\* Type correctness of the pipeline, the base of the results below.
THEOREM TypeCorrect == Spec => []TypeOK
  BY TypeInit, TypeStep, PTL DEF Spec

-----------------------------------------------------------------------------
(* Crash cover *)

\* A step that leaves the copies in a window alone keeps the window.
LEMMA WindowKept ==
    ASSUME NEW m, InWindow(m),
           \A k \in JobIds : job[k].stage \in WindowStages => job'[k] = job[k]
    PROVE  InWindow(m)'
  BY DEF InWindow

\* The same for a step that concerns one copy, at another stage.
LEMMA WindowKeptByCopy ==
    ASSUME NEW m, InWindow(m), NEW j \in JobIds, job[j].stage \notin WindowStages,
           \A k \in JobIds \ {j} : job'[k] = job[k]
    PROVE  InWindow(m)'
  <1>1. \A k \in JobIds : job[k].stage \in WindowStages => job'[k] = job[k]
    OBVIOUS
  <1> QED
    BY <1>1, WindowKept

\* Crash cover is inductive: every step that takes a monitor out of one place puts it
\* into the next in the same step, or is one of the exceptions.
LEMMA CrashCoverStep == TypeOK /\ CrashCover /\ [Next]_vars => CrashCover'
<1> SUFFICES ASSUME TypeOK, CrashCover, [Next]_vars,
                    NEW m \in created' \ retired'
             PROVE  Recorded(m)' \/ InWindow(m)' \/ m \in exposed'
  BY DEF CrashCover
<1> USE DEF redis, alerts, history
<1>m. m \in Monitors
  BY TypeStep DEF TypeOK
<1>c. m \in created \ retired => Recorded(m) \/ InWindow(m) \/ m \in exposed
  BY DEF CrashCover
<1>q. ASSUME UNCHANGED <<schedule, inflight, created, retired, exposed>>,
             InWindow(m) => InWindow(m)'
      PROVE  Recorded(m)' \/ InWindow(m)' \/ m \in exposed'
  BY <1>c, <1>q DEF Recorded
<1>n. ASSUME NEW n \in Monitors, NEW i \in Instances, NEW s \in Stages, NewCopy(n, i, s)
      PROVE  /\ InWindow(m) => InWindow(m)'
             /\ m = n /\ s \in WindowStages => InWindow(m)'
  <2>1. PICK j \in JobIds :
            /\ Free(j) /\ \A k \in JobIds \ {j} : job'[k] = job[k]
            /\ job'[j] = [mon |-> n, inst |-> i, stage |-> s, res |-> "none"]
    BY <1>n, NewCopyFacts
  <2>2. job[j].stage \notin WindowStages
    BY <2>1 DEF Free, WindowStages
  <2>3. InWindow(m) => InWindow(m)'
    BY <2>1, <2>2, WindowKeptByCopy
  <2> QED
    BY <2>1, <2>3 DEF InWindow
<1>1. ASSUME NEW n \in Monitors, NEW i \in Instances, CreateMonitor(n, i)
      PROVE  Recorded(m)' \/ InWindow(m)' \/ m \in exposed'
  <2>s. "creating" \in Stages \cap WindowStages
    BY DEF Stages, WindowStages
  <2>1. CASE NewCopy(n, i, "creating") /\ UNCHANGED <<faults, exposed>>
    BY <1>1, <1>n, <2>1, <2>s, <1>m, <1>c DEF CreateMonitor, Recorded
  <2>2. CASE Fault /\ exposed' = exposed \cup {n} /\ UNCHANGED job
    <3>1. InWindow(m) => InWindow(m)'
      BY <2>2, WindowKept
    <3> QED
      BY <1>1, <2>2, <3>1, <1>m, <1>c DEF CreateMonitor, Recorded
  <2> QED
    BY <1>1, <2>1, <2>2 DEF CreateMonitor
<1>2. ASSUME NEW n \in Monitors, BecomesDue(n) \/ Expires(n)
      PROVE  Recorded(m)' \/ InWindow(m)' \/ m \in exposed'
  <2>1. InWindow(m) => InWindow(m)'
    BY <1>2, WindowKept DEF BecomesDue, Expires
  <2> QED
    BY <1>2, <2>1, <1>m, <1>c DEF BecomesDue, Expires, Recorded, TypeOK
<1>3. ASSUME NEW i \in Instances, FetchAndMoveToInflight(i)
      PROVE  Recorded(m)' \/ InWindow(m)' \/ m \in exposed'
  <2>1. InWindow(m) => InWindow(m)'
    BY <1>3, WindowKept DEF FetchAndMoveToInflight
  <2>2. PICK S : MoveToInflight(S)
    BY <1>3 DEF FetchAndMoveToInflight
  <2> QED
    BY <1>3, <2>1, <2>2, <1>m, <1>c
    DEF FetchAndMoveToInflight, MoveToInflight, Recorded, TypeOK
<1>4. ASSUME NEW i \in Instances, NEW n \in Monitors, Dispatch(i, n) \/ Backpressure(i, n)
      PROVE  Recorded(m)' \/ InWindow(m)' \/ m \in exposed'
  <2>1. {"jobChan", "backoff"} \subseteq Stages
    BY DEF Stages, LiveStages, QueueStages
  <2>2. InWindow(m) => InWindow(m)'
    BY <1>4, <1>n, <2>1 DEF Dispatch, Backpressure
  <2> QED
    BY <1>4, <2>2, <1>q DEF Dispatch, Backpressure
<1>5. ASSUME NEW i \in Instances, TakeAlert(i) \/ HandleAlert(i)
      PROVE  Recorded(m)' \/ InWindow(m)' \/ m \in exposed'
  <2>1. InWindow(m) => InWindow(m)'
    BY <1>5, WindowKept DEF TakeAlert, HandleAlert
  <2> QED
    BY <1>5, <2>1, <1>q DEF TakeAlert, HandleAlert
<1>6. CASE ReclaimMonitors
  <2>1. InWindow(m) => InWindow(m)'
    BY <1>6, WindowKept DEF ReclaimMonitors
  <2>2. PICK S :
            /\ inflight' = [n \in Monitors |-> IF n \in S THEN "absent" ELSE inflight[n]]
            /\ schedule' = [n \in Monitors |-> IF n \in S THEN "due" ELSE schedule[n]]
    BY <1>6 DEF ReclaimMonitors
  <2> QED
    BY <1>6, <2>1, <2>2, <1>m, <1>c DEF ReclaimMonitors, Recorded, TypeOK
<1>7. ASSUME NEW j \in JobIds, NEW s \in Stages, job[j].stage \in LiveStages, Move(j, s),
             UNCHANGED <<redis, popped, created, history>>
      PROVE  Recorded(m)' \/ InWindow(m)' \/ m \in exposed'
  <2>1. job[j].stage \in Stages /\ job[j].stage \notin WindowStages
    BY <1>7 DEF Stages, LiveStages, QueueStages, WorkerStages, HTTPStages, ResultStages, WindowStages
  <2>2. InWindow(m) => InWindow(m)'
    BY <1>7, <2>1, MoveFacts, WindowKeptByCopy
  <2> QED
    BY <1>7, <2>2, <1>q
<1>8. ASSUME NEW j \in JobIds, NotMonitored(j) \/ Requeue(j) \/ PutBack(j)
      PROVE  Recorded(m)' \/ InWindow(m)' \/ m \in exposed'
  <2>1. InWindow(m) => InWindow(m)'
    BY <1>8, DropFacts, WindowKeptByCopy DEF NotMonitored, Requeue, PutBack, WindowStages
  <2>2. job[j].mon \in Monitors
    BY <1>8, CopyIsJob DEF NotMonitored, Requeue, PutBack, Stages, LiveStages, WorkerStages
  <2> QED
    BY <1>8, <2>1, <2>2, <1>m, <1>c
    DEF NotMonitored, Requeue, PutBack, ScheduleCovered, Schedule, NextRun, Recorded, TypeOK
<1>9. ASSUME NEW j \in JobIds, ScheduleReplyLost(j)
       PROVE  Recorded(m)' \/ InWindow(m)' \/ m \in exposed'
  <2>1. job[j].mon \in Monitors
    BY <1>9, CopyIsJob DEF ScheduleReplyLost, Stages, LiveStages, WorkerStages, ResultStages, WindowStages
  <2>2. PICK seconds : schedule' = [schedule EXCEPT ![job[j].mon] = NextRun(seconds)]
    BY <1>9 DEF ScheduleReplyLost
  <2>3. InWindow(m) => InWindow(m)'
    BY <1>9, WindowKept DEF ScheduleReplyLost
  <2> QED
    BY <1>9, <2>1, <2>2, <2>3, <1>m, <1>c DEF ScheduleReplyLost, NextRun, Recorded, TypeOK
<1>10. ASSUME NEW j \in JobIds, NEW r \in Results, ExecuteHTTPCheck(j, r)
      PROVE  Recorded(m)' \/ InWindow(m)' \/ m \in exposed'
  <2>1. InWindow(m) => InWindow(m)'
    BY <1>10, WindowKeptByCopy DEF ExecuteHTTPCheck, WindowStages, TypeOK
  <2> QED
    BY <1>10, <2>1, <1>q DEF ExecuteHTTPCheck
<1>11. ASSUME NEW j \in JobIds, AckBeforeReschedule(j)
       PROVE  Recorded(m)' \/ InWindow(m)' \/ m \in exposed'
  <2>1. /\ job[j].stage \in Stages /\ job[j].stage \notin WindowStages
        /\ job[j].mon \in Monitors /\ "reschedule" \in Stages
    BY <1>11, CopyIsJob
    DEF AckBeforeReschedule, Stages, LiveStages, ResultStages, WindowStages
  <2>2. /\ \A k \in JobIds \ {j} : job'[k] = job[k]
        /\ job'[j].stage = "reschedule" /\ job'[j].mon = job[j].mon
    BY <1>11, <2>1, MoveFacts DEF AckBeforeReschedule
  <2>3. InWindow(m) => InWindow(m)'
    BY <2>1, <2>2, WindowKeptByCopy
  <2>4. CASE m = job[j].mon
    BY <2>2, <2>4 DEF InWindow, WindowStages
  <2>5. CASE m # job[j].mon
    BY <1>11, <2>1, <2>3, <2>5, <1>m, <1>c
    DEF AckBeforeReschedule, AckJob, AckFails, Recorded, TypeOK
  <2> QED
    BY <2>4, <2>5
<1>12. ASSUME NEW j \in JobIds, Reschedule(j) \/ ScheduleCreated(j)
       PROVE  Recorded(m)' \/ InWindow(m)' \/ m \in exposed'
  <2>1. job[j].mon \in Monitors /\ \E s : ScheduleMonitor(job[j].mon, s)
    BY <1>12, CopyIsJob DEF Reschedule, ScheduleCreated, Stages, WindowStages
  <2>2. \A k \in JobIds \ {j} : job'[k] = job[k]
    BY <1>12, DropFacts DEF Reschedule, ScheduleCreated
  <2>3. CASE m = job[j].mon
    BY <2>1, <2>3, <1>m DEF ScheduleMonitor, Schedule, ScheduleFails, NextRun,
       Recorded, TypeOK
  <2>4. CASE m # job[j].mon
    <3>1. InWindow(m) => InWindow(m)'
      BY <2>2, <2>4 DEF InWindow
    <3> QED
      BY <1>12, <2>1, <2>4, <3>1, <1>m, <1>c DEF Reschedule, ScheduleCreated,
         ScheduleMonitor, Schedule, ScheduleFails, Recorded, TypeOK
  <2> QED
    BY <2>3, <2>4
<1>13. ASSUME NEW j \in JobIds, StopMonitoring(j) \/ AckAfterRetry(j)
       PROVE  Recorded(m)' \/ InWindow(m)' \/ m \in exposed'
  <2>1. InWindow(m) => InWindow(m)'
    BY <1>13, DropFacts, WindowKeptByCopy DEF StopMonitoring, AckAfterRetry, WindowStages
  <2>2. job[j].mon \in Monitors
    BY <1>13, CopyIsJob DEF StopMonitoring, AckAfterRetry, Stages, LiveStages, ResultStages
  <2>3. CASE StopMonitoring(j)
    BY <2>1, <2>2, <2>3, <1>m, <1>c DEF StopMonitoring, AckJob, AckFails, Recorded, TypeOK
  <2>4. CASE AckAfterRetry(j)
    BY <2>1, <2>2, <2>4, <1>m, <1>c DEF AckAfterRetry, AckJob, AckFails, Recorded, TypeOK
  <2> QED
    BY <1>13, <2>3, <2>4
<1>14. ASSUME NEW j \in JobIds, ScheduleRetry(j)
       PROVE  Recorded(m)' \/ InWindow(m)' \/ m \in exposed'
  <2>1. /\ job[j].stage \in Stages /\ job[j].stage \notin WindowStages
        /\ job[j].mon \in Monitors /\ "ackOnly" \in Stages
    BY <1>14, CopyIsJob DEF ScheduleRetry, Stages, LiveStages, ResultStages, WindowStages
  <2>2. InWindow(m) => InWindow(m)'
    BY <1>14, <2>1, MoveFacts, WindowKeptByCopy DEF ScheduleRetry
  <2>3. PICK s \in RetryDelays : ScheduleMonitor(job[j].mon, s)
    BY <1>14 DEF ScheduleRetry
  <2> QED
    BY <1>14, <2>1, <2>2, <2>3, <1>m, <1>c DEF ScheduleRetry, ScheduleMonitor, Schedule,
       ScheduleFails, NextRun, Recorded, TypeOK
<1>15. ASSUME NEW i \in Instances, Crash(i)
       PROVE  Recorded(m)' \/ InWindow(m)' \/ m \in exposed'
  <2>1. CASE \E j \in At(i, WindowStages) : job[j].mon = m
    BY <1>15, <2>1, <1>m DEF Crash, Recorded
  <2>2. CASE ~ \E j \in At(i, WindowStages) : job[j].mon = m
    <3>1. InWindow(m) => InWindow(m)'
      BY <1>15, <2>2 DEF Crash, At, InWindow
    <3> QED
      BY <1>15, <3>1, <1>c DEF Crash, Recorded
  <2> QED
    BY <2>1, <2>2
<1>16. CASE UNCHANGED vars
  <2>1. InWindow(m) => InWindow(m)'
    BY <1>16, WindowKept DEF vars
  <2> QED
    BY <1>16, <2>1, <1>q DEF vars
<1>17. ASSUME NEW j \in JobIds, TakeJob(j) \/ Loaded(j) \/ AcquireSemaphore(j)
              \/ SendResult(j) \/ RouterTakes(j) \/ Route(j) \/ WorkerTakes(j)
              \/ TakeRetryPath(j) \/ LoadFails(j) \/ DecideAlert(j) \/ SendAlert(j)
       PROVE  Recorded(m)' \/ InWindow(m)' \/ m \in exposed'
  BY <1>17, <1>7 DEF TakeJob, Loaded, AcquireSemaphore, SendResult, RouterTakes, Route,
     WorkerTakes, TakeRetryPath, LoadFails, DecideAlert, SendAlert, Stages, LiveStages, QueueStages, WorkerStages, HTTPStages, ResultStages, WindowStages
<1> QED
  BY <1>1, <1>2, <1>3, <1>4, <1>5, <1>6, <1>8, <1>10, <1>11, <1>12, <1>13, <1>14, <1>15,
     <1>16, <1>17, <1>9, PipelineAssumption DEF Next, SchedulerStep, AlertStep, JobStep

\* No crash and no failed call ever leaves Redis without a record of a monitor that is
\* still to be checked, but for the exceptions CrashCover names.
THEOREM CrashCovered == Spec => []CrashCover
<1>1. Init => CrashCover
  BY DEF Init, CrashCover
<1> QED
  BY <1>1, TypeCorrect, CrashCoverStep, PTL DEF Spec

-----------------------------------------------------------------------------
(* One token per monitor *)

\* Pending copies stay when one of them moves on.
LEMMA PendingMove ==
    ASSUME TypeOK, NEW j \in JobIds, NEW s \in Stages \ {"ackOnly"},
           job[j].stage \in Stages \ {"ackOnly"}, Move(j, s), NEW m
    PROVE  Pending(m)' = Pending(m)
  BY MoveFacts DEF Pending

\* A copy that was given its quick retry is no longer pending.
LEMMA PendingRetried ==
    ASSUME TypeOK, NEW j \in JobIds, job[j].stage \in Stages, Move(j, "ackOnly"), NEW m
    PROVE  Pending(m)' = Pending(m) \ {j}
  <1>1. "ackOnly" \in Stages
    BY DEF Stages
  <1> QED
    BY <1>1, MoveFacts DEF Pending

\* Neither is one that was freed.
LEMMA PendingDrop ==
    ASSUME TypeOK, NEW j \in JobIds, Drop(j), NEW m
    PROVE  Pending(m)' = Pending(m) \ {j}
  <1>1. "free" \notin Stages
    BY DEF Stages, LiveStages, QueueStages, WorkerStages, HTTPStages, ResultStages, WindowStages
  <1> QED
    BY <1>1, DropFacts DEF Pending

\* Pending copies are job copies: without a change there, they stay.
LEMMA PendingUnchanged ==
    ASSUME UNCHANGED job, NEW m PROVE Pending(m)' = Pending(m)
  BY DEF Pending

\* The schedulers that still have m in their batch.
Poppers(m) == {i \in Instances : m \in popped[i]}

\* How a step may move the token of a monitor: what NoLossWithoutFaults and
\* NoDoubleExecution need to know of it.
Stays(m) ==
    /\ schedule[m] = "absent" <=> schedule'[m] = "absent"
    /\ Pending(m)' = Pending(m) /\ Poppers(m)' = Poppers(m)
Popped(m) ==
    /\ schedule[m] # "absent" /\ schedule'[m] = "absent"
    /\ Pending(m)' = Pending(m)
    /\ \/ \E i \in Instances : Poppers(m)' = Poppers(m) \cup {i}
       \/ Poppers(m)' = Poppers(m) /\ faults' = faults + 1
Dispatched(m) ==
    /\ UNCHANGED schedule
    /\ \E i \in Poppers(m) : Poppers(m)' = Poppers(m) \ {i}
    /\ \E j \in JobIds : Pending(m)' = Pending(m) \cup {j}
Done(m) ==
    /\ Poppers(m)' = Poppers(m)
    /\ \E j \in Pending(m) : Pending(m)' = Pending(m) \ {j}
    /\ \/ schedule'[m] # "absent"
       \/ schedule'[m] = schedule[m] /\ (faults' = faults + 1 \/ m \in retired')
Reclaimed(m) ==
    /\ inflight[m] # "absent"
    /\ schedule'[m] # "absent"
    /\ Pending(m)' = Pending(m) /\ Poppers(m)' = Poppers(m)
    /\ (Pending(m) # {} \/ Poppers(m) # {}) => m \in reissued'
Repeated(m) ==
    /\ Pending(m) # {}
    /\ schedule'[m] # "absent"
    /\ Pending(m)' = Pending(m) /\ Poppers(m)' = Poppers(m)
    /\ m \in reissued'
Entered(m) ==
    /\ m \in created' \ created
    /\ UNCHANGED schedule /\ Poppers(m)' = Poppers(m)
    /\ \/ \E j \in JobIds : Pending(m)' = Pending(m) \cup {j}
       \/ Pending(m)' = Pending(m) /\ faults' = faults + 1
Crashed(m) ==
    /\ UNCHANGED schedule
    /\ Pending(m)' \subseteq Pending(m) /\ Poppers(m)' \subseteq Poppers(m)
    /\ faults' = faults + 1

TokenMoves(m) ==
    \/ Stays(m) \/ Popped(m) \/ Dispatched(m) \/ Done(m)
    \/ Reclaimed(m) \/ Repeated(m) \/ Entered(m) \/ Crashed(m)

\* What no step undoes, and what enters inflight: nothing but a monitor that leaves
\* the schedule.
Monotone(m) ==
    /\ faults' \in {faults, faults + 1}
    /\ created \subseteq created' /\ reissued \subseteq reissued'
    /\ m \in created' \ created => Entered(m)
    /\ m \in retired \ retired' => schedule'[m] # "absent"
    /\ m \in retired' \ retired => Done(m)
    /\ m \in reissued' \ reissued => Reclaimed(m) \/ Repeated(m)
    /\ inflight'[m] # "absent" => inflight[m] # "absent" \/ schedule[m] # "absent"

\* A new copy of n is one more pending copy of n.
LEMMA PendingNew ==
    ASSUME TypeOK, NEW n \in Monitors, NEW i \in Instances, NEW s \in Stages \ {"ackOnly"},
           NewCopy(n, i, s), NEW m
    PROVE  \E j \in JobIds :
               Pending(m)' = IF m = n THEN Pending(m) \cup {j} ELSE Pending(m)
  <1>1. PICK j \in JobIds :
            /\ Free(j) /\ \A k \in JobIds \ {j} : job'[k] = job[k]
            /\ job'[j] = [mon |-> n, inst |-> i, stage |-> s, res |-> "none"]
    BY NewCopyFacts
  <1>2. job'[j].stage = s /\ job'[j].mon = n
    BY <1>1
  <1>3. job[j].stage \notin Stages
    BY <1>1, StageFacts DEF Free, NoJob
  <1>4. Pending(m)' = IF m = n THEN Pending(m) \cup {j} ELSE Pending(m)
    BY <1>1, <1>2, <1>3 DEF Pending
  <1> QED
    BY <1>4

\* Every step moves the token of every monitor in one of the ways above.
LEMMA TokenStep ==
    ASSUME TypeOK, [Next]_vars, NEW m \in Monitors
    PROVE  TokenMoves(m) /\ Monotone(m)
<1> USE DEF redis, alerts, history
<1>f. faults \in Nat /\ (Fault => faults' = faults + 1)
  BY PipelineAssumption DEF TypeOK, Fault
<1>1. ASSUME NEW n \in Monitors, NEW i \in Instances, CreateMonitor(n, i)
      PROVE  TokenMoves(m) /\ Monotone(m)
  <2>s. "creating" \in Stages \ {"ackOnly"}
    BY DEF Stages, WindowStages
  <2>1. Poppers(m)' = Poppers(m)
    BY <1>1 DEF CreateMonitor, Poppers
  <2>2. \/ UNCHANGED faults /\ \E j \in JobIds :
               Pending(m)' = IF m = n THEN Pending(m) \cup {j} ELSE Pending(m)
        \/ faults' = faults + 1 /\ Pending(m)' = Pending(m)
    BY <1>1, <1>f, <2>s, PendingNew, PendingUnchanged DEF CreateMonitor
  <2>3. CASE m = n
    <3>1. Entered(m)
      BY <1>1, <2>1, <2>2, <2>3 DEF Entered, CreateMonitor
    <3> QED
      BY <1>1, <1>f, <2>2, <2>3, <3>1 DEF TokenMoves, Monotone, CreateMonitor
  <2>4. CASE m # n
    BY <1>1, <1>f, <2>1, <2>2, <2>4 DEF TokenMoves, Stays, Monotone, CreateMonitor
  <2> QED
    BY <2>3, <2>4
<1>2. ASSUME NEW n \in Monitors, BecomesDue(n) \/ Expires(n)
      PROVE  TokenMoves(m) /\ Monotone(m)
  <2>1. Pending(m)' = Pending(m) /\ Poppers(m)' = Poppers(m)
    BY <1>2, PendingUnchanged DEF BecomesDue, Expires, Poppers
  <2> QED
    BY <1>2, <2>1 DEF TokenMoves, Stays, Monotone, BecomesDue, Expires, TypeOK
<1>3. ASSUME NEW i \in Instances, FetchAndMoveToInflight(i)
      PROVE  TokenMoves(m) /\ Monotone(m)
  <2>1. PICK S \in Limited(Due, BatchSize) :
            /\ MoveToInflight(S)
            /\ \/ popped' = [popped EXCEPT ![i] = S] /\ UNCHANGED faults
               \/ Fault /\ UNCHANGED popped
    BY <1>3 DEF FetchAndMoveToInflight
  <2>2. S \subseteq Due /\ popped[i] = {}
    BY <1>3 DEF Limited, FetchAndMoveToInflight
  <2>3. Pending(m)' = Pending(m)
    BY <1>3, PendingUnchanged DEF FetchAndMoveToInflight
  <2>4. Monotone(m)
    BY <1>3, <1>f, <2>1, <2>2
    DEF Monotone, FetchAndMoveToInflight, MoveToInflight, Due, TypeOK
  <2>5. CASE m \in S
    <3>1. schedule[m] # "absent" /\ schedule'[m] = "absent"
      BY <2>1, <2>2, <2>5 DEF MoveToInflight, Due
    <3>2. \/ Poppers(m)' = Poppers(m) \cup {i}
          \/ Poppers(m)' = Poppers(m) /\ faults' = faults + 1
      BY <2>1, <2>5, <1>f DEF Poppers, TypeOK
    <3> QED
      BY <2>3, <2>4, <3>1, <3>2 DEF TokenMoves, Popped
  <2>6. CASE m \notin S
    <3>1. Poppers(m)' = Poppers(m)
      BY <2>1, <2>2, <2>6 DEF Poppers, TypeOK
    <3> QED
      BY <2>1, <2>3, <2>4, <2>6, <3>1 DEF TokenMoves, Stays, MoveToInflight
  <2> QED
    BY <2>5, <2>6
<1>4. ASSUME NEW i \in Instances, NEW n \in Monitors, Dispatch(i, n) \/ Backpressure(i, n)
      PROVE  TokenMoves(m) /\ Monotone(m)
  <2>1. {"jobChan", "backoff"} \subseteq Stages \ {"ackOnly"}
    BY DEF Stages, LiveStages, QueueStages
  <2>2. PICK j \in JobIds : Pending(m)' = IF m = n THEN Pending(m) \cup {j} ELSE Pending(m)
    BY <1>4, <2>1, PendingNew DEF Dispatch, Backpressure
  <2>3. Poppers(m)' = IF m = n THEN Poppers(m) \ {i} ELSE Poppers(m)
    BY <1>4 DEF Dispatch, Backpressure, Poppers, TypeOK
  <2>4. Monotone(m)
    BY <1>4 DEF Monotone, Dispatch, Backpressure
  <2>5. m = n => i \in Poppers(m)
    BY <1>4 DEF Dispatch, Backpressure, Poppers
  <2>6. UNCHANGED schedule
    BY <1>4 DEF Dispatch, Backpressure
  <2> QED
    BY <2>2, <2>3, <2>4, <2>5, <2>6 DEF TokenMoves, Stays, Dispatched
<1>5. ASSUME NEW i \in Instances, TakeAlert(i) \/ HandleAlert(i)
      PROVE  TokenMoves(m) /\ Monotone(m)
  <2>1. Pending(m)' = Pending(m) /\ Poppers(m)' = Poppers(m)
    BY <1>5, PendingUnchanged DEF TakeAlert, HandleAlert, Poppers
  <2> QED
    BY <1>5, <2>1 DEF TokenMoves, Stays, Monotone, TakeAlert, HandleAlert
<1>6. CASE ReclaimMonitors
  <2>1. PICK S \in Limited(Expired, ReclaimLimit) :
            /\ inflight' = [n \in Monitors |-> IF n \in S THEN "absent" ELSE inflight[n]]
            /\ schedule' = [n \in Monitors |-> IF n \in S THEN "due" ELSE schedule[n]]
            /\ reissued' = reissued \cup {n \in S : Held(n)}
    BY <1>6 DEF ReclaimMonitors
  <2>2. Pending(m)' = Pending(m) /\ Poppers(m)' = Poppers(m)
    BY <1>6, PendingUnchanged DEF ReclaimMonitors, Poppers
  <2>4. S \subseteq Expired
    BY DEF Limited
  <2>5. Pending(m) # {} \/ Poppers(m) # {} => Held(m)
    BY DEF Pending, Poppers, Held
  <2>8. m \in S => Reclaimed(m)
    BY <2>1, <2>2, <2>4, <2>5 DEF Reclaimed, Expired
  <2>3. Monotone(m)
    BY <1>6, <2>1, <2>8 DEF Monotone, ReclaimMonitors
  <2>6. CASE m \in S
    BY <2>3, <2>6, <2>8 DEF TokenMoves
  <2>7. CASE m \notin S
    BY <2>1, <2>2, <2>3, <2>7 DEF TokenMoves, Stays
  <2> QED
    BY <2>6, <2>7
<1>7. ASSUME NEW j \in JobIds, NEW s \in LiveStages, job[j].stage \in LiveStages, Move(j, s),
             UNCHANGED <<redis, popped, created, history>>, UNCHANGED faults \/ Fault
      PROVE  TokenMoves(m) /\ Monotone(m)
  <2>1. job[j].stage \in Stages \ {"ackOnly"} /\ s \in Stages \ {"ackOnly"}
    BY <1>7 DEF Stages, LiveStages, QueueStages, WorkerStages, HTTPStages, ResultStages, WindowStages
  <2>2. Pending(m)' = Pending(m) /\ Poppers(m)' = Poppers(m)
    BY <1>7, <2>1, PendingMove DEF Poppers
  <2> QED
    BY <1>7, <1>f, <2>2 DEF TokenMoves, Stays, Monotone
<1>8. ASSUME NEW j \in JobIds, TakeJob(j) \/ Loaded(j) \/ AcquireSemaphore(j)
             \/ SendResult(j) \/ RouterTakes(j) \/ Route(j) \/ WorkerTakes(j)
             \/ TakeRetryPath(j) \/ LoadFails(j) \/ DecideAlert(j) \/ SendAlert(j)
      PROVE  TokenMoves(m) /\ Monotone(m)
  BY <1>8, <1>7 DEF TakeJob, Loaded, AcquireSemaphore, SendResult, RouterTakes, Route,
     WorkerTakes, TakeRetryPath, LoadFails, DecideAlert, SendAlert, LiveStages, QueueStages, WorkerStages, HTTPStages, ResultStages, WindowStages
<1>9. ASSUME NEW j \in JobIds, NotMonitored(j) \/ Requeue(j) \/ StopMonitoring(j)
             \/ Reschedule(j) \/ ScheduleCreated(j) \/ PutBack(j)
      PROVE  TokenMoves(m) /\ Monotone(m)
  <2>1. job[j].stage \in Stages \ {"ackOnly"} /\ job[j].mon \in Monitors
    BY <1>9, CopyIsJob DEF NotMonitored, Requeue, StopMonitoring, Reschedule, ScheduleCreated,
       PutBack, Stages,
       LiveStages, QueueStages, WorkerStages, HTTPStages, ResultStages, WindowStages
  <2>2. Pending(m)' = Pending(m) \ {j} /\ Poppers(m)' = Poppers(m)
    BY <1>9, PendingDrop DEF NotMonitored, Requeue, StopMonitoring, Reschedule,
       ScheduleCreated, PutBack, Poppers
  <2>3. CASE m = job[j].mon
    <3>1. j \in Pending(m)
      BY <2>1, <2>3 DEF Pending
    <3>2. \/ schedule'[m] # "absent"
          \/ schedule'[m] = schedule[m] /\ (faults' = faults + 1 \/ m \in retired')
      BY <1>9, <1>f, <2>1, <2>3 DEF NotMonitored, Requeue, StopMonitoring, Reschedule,
         ScheduleCreated, PutBack, ScheduleMonitor, ScheduleCovered, Schedule, ScheduleFails, NextRun, TypeOK
    <3>4. Done(m)
      BY <2>2, <3>1, <3>2 DEF Done
    <3>3. Monotone(m)
      BY <1>9, <1>f, <2>1, <2>3, <3>4 DEF Monotone, NotMonitored, Requeue, StopMonitoring,
         Reschedule, ScheduleCreated, PutBack, ScheduleMonitor, ScheduleCovered, Schedule,
         ScheduleFails, NextRun, AckJob, AckFails, TypeOK
    <3> QED
      BY <3>3, <3>4 DEF TokenMoves
  <2>4. CASE m # job[j].mon
    <3>1. Pending(m)' = Pending(m)
      BY <2>2, <2>4 DEF Pending
    <3>2. schedule'[m] = schedule[m]
      BY <1>9, <2>1, <2>4 DEF NotMonitored, Requeue, StopMonitoring, Reschedule,
         ScheduleCreated, PutBack, ScheduleMonitor, ScheduleCovered, Schedule, ScheduleFails, TypeOK
    <3>3. Monotone(m)
      BY <1>9, <1>f, <2>1, <2>4 DEF Monotone, NotMonitored, Requeue, StopMonitoring,
         Reschedule, ScheduleCreated, PutBack, ScheduleMonitor, ScheduleCovered, Schedule,
         ScheduleFails, AckJob, AckFails, TypeOK
    <3> QED
      BY <2>2, <3>1, <3>2, <3>3 DEF TokenMoves, Stays
  <2> QED
    BY <2>3, <2>4
<1>10. ASSUME NEW j \in JobIds, NEW r \in Results, ExecuteHTTPCheck(j, r)
       PROVE  TokenMoves(m) /\ Monotone(m)
  <2>1. job[j] \in Job /\ job[j].stage = "checking"
    BY <1>10, CopyIsJob DEF ExecuteHTTPCheck, Stages, LiveStages, HTTPStages
  <2>2. /\ \A k \in JobIds \ {j} : job'[k] = job[k]
        /\ job'[j].stage = "sending" /\ job'[j].mon = job[j].mon
    <3>1. job' = [job EXCEPT ![j] = [[job[j] EXCEPT !.stage = "sending"] EXCEPT !.res = r]]
      BY <1>10 DEF ExecuteHTTPCheck, TypeOK
    <3> QED
      BY <2>1, <3>1 DEF TypeOK, Job
  <2>3. {"checking", "sending"} \subseteq Stages \ {"ackOnly"}
    BY DEF Stages, LiveStages, HTTPStages
  <2>4. Pending(m)' = Pending(m) /\ Poppers(m)' = Poppers(m)
    BY <1>10, <2>1, <2>2, <2>3 DEF Pending, Poppers, ExecuteHTTPCheck
  <2> QED
    BY <1>10, <2>4 DEF TokenMoves, Stays, Monotone, ExecuteHTTPCheck
<1>11. ASSUME NEW j \in JobIds, AckBeforeReschedule(j) PROVE TokenMoves(m) /\ Monotone(m)
  <2>1. /\ job[j].stage \in Stages \ {"ackOnly"} /\ "reschedule" \in Stages \ {"ackOnly"}
        /\ job[j].mon \in Monitors
    BY <1>11, CopyIsJob
    DEF AckBeforeReschedule, Stages, LiveStages, ResultStages, WindowStages
  <2>2. Pending(m)' = Pending(m) /\ Poppers(m)' = Poppers(m)
    BY <1>11, <2>1, PendingMove DEF AckBeforeReschedule, Poppers
  <2> QED
    BY <1>11, <1>f, <2>1, <2>2
    DEF TokenMoves, Stays, Monotone, AckBeforeReschedule, AckJob, AckFails, TypeOK
<1>12. ASSUME NEW j \in JobIds, ScheduleRetry(j) PROVE TokenMoves(m) /\ Monotone(m)
  <2>1. job[j].stage \in Stages \ {"ackOnly"} /\ job[j].mon \in Monitors
    BY <1>12, CopyIsJob DEF ScheduleRetry, Stages, LiveStages, ResultStages
  <2>2. Pending(m)' = Pending(m) \ {j} /\ Poppers(m)' = Poppers(m)
    BY <1>12, <2>1, PendingRetried DEF ScheduleRetry, Poppers
  <2>3. PICK s \in RetryDelays : ScheduleMonitor(job[j].mon, s)
    BY <1>12 DEF ScheduleRetry
  <2>4. CASE m = job[j].mon
    <3>1. j \in Pending(m)
      BY <2>1, <2>4 DEF Pending
    <3> QED
      BY <1>12, <1>f, <2>2, <2>3, <2>4, <3>1 DEF TokenMoves, Done, Monotone, ScheduleRetry,
         ScheduleMonitor, Schedule, ScheduleFails, NextRun, TypeOK
  <2>5. CASE m # job[j].mon
    <3>1. Pending(m)' = Pending(m)
      BY <2>2, <2>5 DEF Pending
    <3> QED
      BY <1>12, <1>f, <2>1, <2>2, <2>3, <2>5, <3>1 DEF TokenMoves, Stays, Monotone,
         ScheduleRetry, ScheduleMonitor, Schedule, ScheduleFails, TypeOK
  <2> QED
    BY <2>4, <2>5
<1>13. ASSUME NEW j \in JobIds, AckAfterRetry(j) PROVE TokenMoves(m) /\ Monotone(m)
  <2>1. job[j].stage = "ackOnly" /\ job[j].mon \in Monitors
    BY <1>13, CopyIsJob DEF AckAfterRetry, Stages
  <2>2. Pending(m)' = Pending(m) /\ Poppers(m)' = Poppers(m)
    <3>1. Pending(m)' = Pending(m) \ {j}
      BY <1>13, PendingDrop DEF AckAfterRetry
    <3> QED
      BY <1>13, <2>1, <3>1 DEF Pending, Poppers, AckAfterRetry
  <2> QED
    BY <1>13, <1>f, <2>1, <2>2
    DEF TokenMoves, Stays, Monotone, AckAfterRetry, AckJob, AckFails, TypeOK
<1>14. ASSUME NEW j \in JobIds, ScheduleReplyLost(j) PROVE TokenMoves(m) /\ Monotone(m)
  <2>1. job[j].stage \in Stages \ {"ackOnly"} /\ job[j].mon \in Monitors
    BY <1>14, CopyIsJob DEF ScheduleReplyLost, Stages, LiveStages, WorkerStages, ResultStages, WindowStages
  <2>2. PICK seconds : schedule' = [schedule EXCEPT ![job[j].mon] = NextRun(seconds)]
    BY <1>14 DEF ScheduleReplyLost
  <2>3. Pending(m)' = Pending(m) /\ Poppers(m)' = Poppers(m)
    BY <1>14, PendingUnchanged DEF ScheduleReplyLost, Poppers
  <2>7. ASSUME m = job[j].mon PROVE Repeated(m)
    <3>1. j \in Pending(m)
      BY <2>1, <2>7 DEF Pending
    <3> QED
      BY <1>14, <2>2, <2>3, <2>7, <3>1 DEF Repeated, ScheduleReplyLost, NextRun, TypeOK
  <2>4. Monotone(m)
    BY <1>14, <1>f, <2>1, <2>2, <2>7 DEF Monotone, ScheduleReplyLost, NextRun, TypeOK
  <2>5. CASE m = job[j].mon
    BY <2>4, <2>5, <2>7 DEF TokenMoves
  <2>6. CASE m # job[j].mon
    BY <2>1, <2>2, <2>3, <2>4, <2>6 DEF TokenMoves, Stays, TypeOK
  <2> QED
    BY <2>5, <2>6
<1>15. ASSUME NEW i \in Instances, Crash(i) PROVE TokenMoves(m) /\ Monotone(m)
  <2>1. Pending(m)' \subseteq Pending(m)
    BY <1>15, StageFacts DEF Crash, Pending
  <2>2. Poppers(m)' \subseteq Poppers(m)
    BY <1>15 DEF Crash, Poppers, TypeOK
  <2> QED
    BY <1>15, <1>f, <2>1, <2>2 DEF TokenMoves, Crashed, Monotone, Crash
<1>16. CASE UNCHANGED vars
  <2>1. Pending(m)' = Pending(m) /\ Poppers(m)' = Poppers(m)
    BY <1>16, PendingUnchanged DEF vars, Poppers
  <2> QED
    BY <1>16, <2>1 DEF TokenMoves, Stays, Monotone, vars
<1> QED
  BY <1>1, <1>2, <1>3, <1>4, <1>5, <1>6, <1>8, <1>9, <1>10, <1>11, <1>12, <1>13, <1>15,
     <1>16, <1>14, PipelineAssumption DEF Next, SchedulerStep, AlertStep, JobStep

\* Without a crash or a failed call no monitor is dropped.
THEOREM NothingLost == Spec => []NoLossWithoutFaults
<1>1. Init => NoLossWithoutFaults
  BY DEF Init, NoLossWithoutFaults
<1>2. TypeOK /\ NoLossWithoutFaults /\ [Next]_vars => NoLossWithoutFaults'
  <2> SUFFICES ASSUME TypeOK, NoLossWithoutFaults, [Next]_vars, faults' = 0,
                      NEW m \in created' \ retired'
               PROVE  schedule'[m] # "absent" \/ Pending(m)' # {} \/ Poppers(m)' # {}
    BY DEF NoLossWithoutFaults, Poppers
  <2>1. m \in Monitors
    BY TypeStep DEF TypeOK
  <2>2. TokenMoves(m) /\ Monotone(m)
    BY <2>1, TokenStep
  <2>f. faults' # faults + 1 /\ faults = 0
    BY <2>2 DEF Monotone, TypeOK
  <2>3. CASE m \in created \ retired
    <3>1. schedule[m] # "absent" \/ Pending(m) # {} \/ Poppers(m) # {}
      BY <2>f, <2>2, <2>3 DEF NoLossWithoutFaults, Monotone, Poppers
    <3> QED
      BY <2>f, <2>2, <3>1 DEF TokenMoves, Stays, Popped, Dispatched, Done, Reclaimed,
         Repeated, Entered, Crashed
  <2>4. CASE m \notin created \/ m \in retired
    BY <2>f, <2>2, <2>4 DEF Monotone, Entered
  <2> QED
    BY <2>3, <2>4
<1> QED
  BY <1>1, <1>2, TypeCorrect, PTL DEF Spec

\* Nothing of a monitor exists before CreateMonitor: why scheduling it is safe.
NotYetCreated ==
    \A m \in Monitors \ created :
        /\ schedule[m] = "absent" /\ inflight[m] = "absent"
        /\ Pending(m) = {} /\ Poppers(m) = {} /\ m \notin retired

\* At most one token, as a property of the three places of one monitor.
OneToken(m) ==
    /\ \A j, k \in Pending(m) : j = k
    /\ \A i, k \in Poppers(m) : i = k
    /\ schedule[m] # "absent" => Pending(m) = {} /\ Poppers(m) = {}
    /\ Pending(m) # {} => Poppers(m) = {}

\* NoDoubleExecution says just that of every monitor that was not reissued.
LEMMA NoDoubleIsOneToken ==
    NoDoubleExecution <=> \A m \in Monitors \ reissued : OneToken(m)
  BY DEF NoDoubleExecution, OneToken, Poppers

\* No step makes something of a monitor that CreateMonitor has not stored.
LEMMA NotYetCreatedStep == TypeOK /\ NotYetCreated /\ [Next]_vars => NotYetCreated'
<1> SUFFICES ASSUME TypeOK, NotYetCreated, [Next]_vars, NEW m \in Monitors \ created'
             PROVE  /\ schedule'[m] = "absent" /\ inflight'[m] = "absent"
                    /\ Pending(m)' = {} /\ Poppers(m)' = {} /\ m \notin retired'
  BY DEF NotYetCreated
<1>1. TokenMoves(m) /\ Monotone(m)
  BY TokenStep
<1>2. /\ schedule[m] = "absent" /\ inflight[m] = "absent"
      /\ Pending(m) = {} /\ Poppers(m) = {} /\ m \notin retired
  BY <1>1 DEF NotYetCreated, Monotone
<1> QED
  BY <1>1, <1>2 DEF TokenMoves, Monotone, Stays, Popped, Dispatched, Done, Reclaimed,
     Repeated, Entered, Crashed

\* A monitor is never handled twice at a time, by any number of instances and after
\* any crashes and failed calls, unless the reclaimer reissued it too early or a ZADD
\* whose reply was lost was sent again.
THEOREM HandledOnce == Spec => []NoDoubleExecution
<1>1. Init => NoDoubleExecution /\ NotYetCreated
  BY DEF Init, NoDoubleExecution, NotYetCreated, Pending, Poppers, NoJob, Stages, LiveStages,
     QueueStages, WorkerStages, HTTPStages, ResultStages, WindowStages
<1>2. TypeOK /\ NotYetCreated /\ NoDoubleExecution /\ [Next]_vars => NoDoubleExecution'
  <2> SUFFICES ASSUME TypeOK, NotYetCreated, NoDoubleExecution, [Next]_vars,
                      NEW m \in Monitors \ reissued'
               PROVE  OneToken(m)'
    BY DEF NoDoubleExecution, OneToken, Poppers
  <2>1. TokenMoves(m) /\ Monotone(m)
    BY TokenStep
  <2>2. OneToken(m)
    BY <2>1, NoDoubleIsOneToken DEF Monotone
  <2>3. CASE Stays(m) \/ Crashed(m)
    BY <2>2, <2>3 DEF OneToken, Stays, Crashed
  <2>4. CASE Popped(m)
    BY <2>2, <2>4 DEF OneToken, Popped
  <2>5. CASE Dispatched(m)
    BY <2>2, <2>5 DEF OneToken, Dispatched
  <2>7. CASE Done(m)
    BY <2>2, <2>7 DEF OneToken, Done
  <2>8. CASE Reclaimed(m) \/ Repeated(m)
    BY <2>2, <2>8 DEF OneToken, Reclaimed, Repeated
  <2>9. CASE Entered(m)
    BY <2>2, <2>9 DEF OneToken, Entered, NotYetCreated
  <2> QED
    BY <2>1, <2>3, <2>4, <2>5, <2>7, <2>8, <2>9 DEF TokenMoves
<1> QED
  BY <1>1, <1>2, TypeCorrect, NotYetCreatedStep, PTL DEF Spec

-----------------------------------------------------------------------------
(* The check cycle *)

\* Where a monitor is, by the three places of its token.
LEMMA PlaceOf ==
    ASSUME NEW m
    PROVE  /\ Place(m) \in Cycle!Places
           /\ m \in reissued => Place(m) = "reissued"
           /\ m \notin reissued =>
                 /\ schedule[m] # "absent" => Place(m) = "scheduled"
                 /\ schedule[m] = "absent" /\ Poppers(m) # {} => Place(m) = "batch"
                 /\ schedule[m] = "absent" /\ Poppers(m) = {} =>
                       /\ Pending(m) # {} => Place(m) = "handled"
                       /\ Pending(m) = {} /\ m \in retired => Place(m) = "ended"
                       /\ Pending(m) = {} /\ m \notin retired /\ m \in created =>
                             Place(m) = "lost"
                       /\ Pending(m) = {} /\ m \notin retired /\ m \notin created =>
                             Place(m) = "new"
  BY DEF Place, Poppers, Cycle!Places

\* The same after the step.
LEMMA PlaceNext ==
    ASSUME NEW m
    PROVE  /\ Place(m)' \in Cycle!Places
           /\ m \in reissued' => Place(m)' = "reissued"
           /\ m \notin reissued' =>
                 /\ schedule'[m] # "absent" => Place(m)' = "scheduled"
                 /\ schedule'[m] = "absent" /\ Poppers(m)' # {} => Place(m)' = "batch"
                 /\ schedule'[m] = "absent" /\ Poppers(m)' = {} =>
                       /\ Pending(m)' # {} => Place(m)' = "handled"
                       /\ Pending(m)' = {} /\ m \in retired' => Place(m)' = "ended"
                       /\ Pending(m)' = {} /\ m \notin retired' /\ m \in created' =>
                             Place(m)' = "lost"
                       /\ Pending(m)' = {} /\ m \notin retired' /\ m \notin created' =>
                             Place(m)' = "new"
  BY DEF Place, Poppers, Cycle!Places

\* The steps of the cycle, and the ones that take a failure.
Moves(p, q) ==
    \/ p = q
    \/ p = "new" /\ q = "handled"
    \/ p = "scheduled" /\ q = "batch"
    \/ p = "batch" /\ q = "handled"
    \/ p = "handled" /\ q \in {"scheduled", "ended"}
    \/ p \in {"lost", "ended"} /\ q = "scheduled"
    \/ p # "new" /\ q = "reissued"
    \/ p \in {"new", "scheduled", "batch", "handled"} /\ q \in {"lost", "ended"}
       /\ faults' = faults + 1

\* Every step of the pipeline moves every monitor along the cycle: the eight ways a token
\* moves, one by one.
LEMMA PlaceMoves ==
    ASSUME TypeOK, NotYetCreated, NoDoubleExecution, [Next]_vars, NEW m \in Monitors
    PROVE  Moves(Place(m), Place(m)')
<1>1. TokenMoves(m) /\ Monotone(m)
  BY TokenStep
<1>n. m \notin created =>
          /\ schedule[m] = "absent" /\ inflight[m] = "absent"
          /\ Pending(m) = {} /\ Poppers(m) = {} /\ m \notin retired
  BY DEF NotYetCreated
<1>2. CASE m \in reissued
  BY <1>1, <1>2, PlaceOf, PlaceNext DEF Monotone, Moves
<1>3. CASE m \in reissued' /\ m \notin reissued
  <2>1. inflight[m] # "absent" \/ Pending(m) # {}
    BY <1>1, <1>3 DEF Monotone, Reclaimed, Repeated
  <2>2. m \in created
    BY <2>1, <1>n
  <2>3. Place(m) # "new" /\ Place(m)' = "reissued"
    BY <1>3, <2>2, PlaceNext DEF Place
  <2> QED
    BY <2>3 DEF Moves
<1>4. CASE m \notin reissued' /\ m \notin reissued
  <2>o. OneToken(m)
    BY <1>4, NoDoubleIsOneToken
  <2>m. /\ m \in created' \ created => Entered(m)
        /\ m \in retired \ retired' => schedule'[m] # "absent"
        /\ m \in retired' \ retired => Done(m)
        /\ created \subseteq created'
    BY <1>1 DEF Monotone
  <2>1. CASE Done(m)
    BY <1>4, <2>o, <2>m, <2>1, <1>n, PlaceOf, PlaceNext DEF Done, OneToken, Moves
  <2>2. CASE Entered(m)
    BY <1>4, <2>m, <2>2, <1>n, PlaceOf, PlaceNext DEF Entered, Done, Moves
  <2>3. CASE ~ Done(m) /\ ~ Entered(m)
    <3>1. /\ m \in created' <=> m \in created
          /\ m \in retired' => m \in retired
          /\ m \in retired \ retired' => schedule'[m] # "absent"
      BY <2>3, <2>m
    <3>2. CASE Stays(m)
      BY <1>4, <3>1, <3>2, PlaceOf, PlaceNext DEF Stays, Moves
    <3>3. CASE Popped(m)
      BY <1>4, <2>o, <3>1, <3>3, <1>n, PlaceOf, PlaceNext DEF Popped, OneToken, Moves
    <3>4. CASE Dispatched(m)
      BY <1>4, <2>o, <3>1, <3>4, PlaceOf, PlaceNext DEF Dispatched, OneToken, Moves
    <3>6. CASE Reclaimed(m)
      BY <1>4, <3>1, <3>6, <1>n, PlaceOf, PlaceNext DEF Reclaimed, Moves
    <3>7. CASE Repeated(m)
      BY <1>4, <3>7 DEF Repeated
    <3>8. CASE Crashed(m)
      BY <1>4, <2>o, <3>1, <3>8, <1>n, PlaceOf, PlaceNext DEF Crashed, OneToken, Moves
    <3> QED
      BY <1>1, <2>3, <3>2, <3>3, <3>4, <3>6, <3>7, <3>8 DEF TokenMoves
  <2> QED
    BY <2>1, <2>2, <2>3
<1> QED
  BY <1>1, <1>2, <1>3, <1>4 DEF Monotone

\* A step counts one crash or failed call at most.
LEMMA FaultsCounted == [Next]_vars => faults' \in {faults, faults + 1}
<1> SUFFICES ASSUME [Next]_vars PROVE UNCHANGED faults \/ Fault
  BY DEF Fault
<1> USE DEF redis, alerts, history
<1>1. ASSUME NEW m \in Monitors, BecomesDue(m) \/ Expires(m)
      PROVE  UNCHANGED faults \/ Fault
  BY <1>1 DEF BecomesDue, Expires
<1>6. ASSUME NEW m \in Monitors, NEW i \in Instances, CreateMonitor(m, i)
      PROVE  UNCHANGED faults \/ Fault
  BY <1>6 DEF CreateMonitor
<1>2. ASSUME NEW i \in Instances, SchedulerStep(i) \/ AlertStep(i) \/ Crash(i)
      PROVE  UNCHANGED faults \/ Fault
  BY <1>2 DEF SchedulerStep, FetchAndMoveToInflight, Dispatch, Backpressure, AlertStep,
     TakeAlert, HandleAlert, Crash
<1>3. CASE ReclaimMonitors
  BY <1>3 DEF ReclaimMonitors
<1>4. ASSUME NEW j \in JobIds, JobStep(j) PROVE UNCHANGED faults \/ Fault
  BY <1>4 DEF JobStep, TakeJob, Loaded, NotMonitored, LoadFails, Requeue, AcquireSemaphore,
     ExecuteHTTPCheck, SendResult, RouterTakes, Route, WorkerTakes, DecideAlert, SendAlert,
     AckBeforeReschedule, Reschedule, StopMonitoring, TakeRetryPath, ScheduleRetry,
     AckAfterRetry, ScheduleCreated, PutBack, ScheduleReplyLost, ScheduleMonitor,
     ScheduleCovered, Schedule, ScheduleFails, AckJob, AckFails
<1>5. CASE UNCHANGED vars
  BY <1>5 DEF vars
<1> QED
  BY <1>1, <1>2, <1>3, <1>4, <1>5, <1>6 DEF Next

\* The pipeline implements the CheckCycle, for any number of instances, copies and
\* faults: initially every monitor is new, and every step is one of the cycle.
THEOREM CycleImplemented == Spec => ImplementsCycle
<1>1. Init => Cycle!Init
  <2>1. ASSUME Init, NEW m \in Monitors PROVE Place(m) = "new"
    BY <2>1 DEF Init, Place, Pending, NoJob, Stages, LiveStages, QueueStages, WorkerStages,
       HTTPStages, ResultStages, WindowStages
  <2> QED
    BY <2>1 DEF Init, Cycle!Init
<1>2. TypeOK /\ NotYetCreated /\ NoDoubleExecution /\ [Next]_vars => [Cycle!Next]_(Cycle!vars)
  <2> SUFFICES ASSUME TypeOK, NotYetCreated, NoDoubleExecution, [Next]_vars
               PROVE  Cycle!Next \/ UNCHANGED Cycle!vars
    OBVIOUS
  <2>1. \A m \in Monitors : Moves(Place(m), Place(m)') /\ Place(m)' \in Cycle!Places
    BY PlaceMoves, PlaceNext
  <2>2. faults' \in {faults, faults + 1}
    BY FaultsCounted
  <2>3. Cycle!Next
    <3> DEFINE place == [m \in Monitors |-> Place(m)]
    <3>1. place' \in [Monitors -> Cycle!Places]
      BY <2>1
    <3>2. ASSUME NEW m \in Monitors PROVE place'[m] = place[m] \/ Cycle!Step(m)
      <4>1. /\ Moves(place[m], place'[m]) /\ place[m] \in Cycle!Places
        BY <2>1, PlaceOf
      <4> HIDE DEF place
      <4> QED
        BY <4>1 DEF Moves, place, Cycle!Places, Cycle!Step, Cycle!Go, Cycle!Create, Cycle!Take, Cycle!Send,
           Cycle!Finish, Cycle!Recover, Cycle!Reissue, Cycle!Lose
    <3> QED
      BY <2>2, <3>1, <3>2 DEF Cycle!Next
  <2> QED
    BY <2>3
<1>3. Init => NotYetCreated
  BY DEF Init, NotYetCreated, Pending, Poppers, NoJob, Stages, LiveStages, QueueStages,
     WorkerStages, HTTPStages, ResultStages, WindowStages
<1> QED
  BY <1>1, <1>2, <1>3, TypeCorrect, HandledOnce, NotYetCreatedStep, PTL
  DEF Spec, ImplementsCycle, Cycle!Spec

-----------------------------------------------------------------------------
(* No stage waits for one that waits for it *)

\* A copy that has been checked carries its result, and the failure workers only ever
\* get failures.
KnownResult(x) ==
    /\ x.stage \in {"sending", "resultChan", "routing", "successChan", "failureChan", "failure"}
           => x.res \in Results
    /\ x.stage \in {"failureChan", "failure"} => x.res # "success"

ResultsKnown == \A j \in JobIds : KnownResult(job[j])

\* Results are known from the check on, whatever else happens to a copy.
LEMMA ResultsKnownStep == TypeOK /\ ResultsKnown /\ [Next]_vars => ResultsKnown'
<1> SUFFICES ASSUME TypeOK, ResultsKnown, [Next]_vars, NEW k \in JobIds
             PROVE  KnownResult(job'[k])
  BY DEF ResultsKnown
<1>k. KnownResult(job[k]) /\ KnownResult(NoJob)
  BY DEF ResultsKnown, KnownResult, NoJob
<1>1. ASSUME UNCHANGED job PROVE KnownResult(job'[k])
  BY <1>1, <1>k
<1>2. ASSUME NEW i \in Instances, NEW m \in Monitors,
             \/ NewCopy(m, i, "creating") \/ NewCopy(m, i, "jobChan") \/ NewCopy(m, i, "backoff")
      PROVE  KnownResult(job'[k])
  <2>1. PICK j \in JobIds, s \in {"creating", "jobChan", "backoff"} :
            job' = [job EXCEPT ![j] = [mon |-> m, inst |-> i, stage |-> s, res |-> "none"]]
    BY <1>2 DEF NewCopy
  <2> QED
    BY <2>1, <1>k DEF KnownResult, TypeOK
<1>3. ASSUME NEW j \in JobIds, Drop(j) PROVE KnownResult(job'[k])
  BY <1>3, <1>k, DropFacts DEF KnownResult
<1>4. ASSUME NEW j \in JobIds, NEW s \in Stages, job[j].stage \in Stages, Move(j, s),
             s \in {"resultChan", "routing", "successChan", "failureChan", "failure"} =>
                 job[j].res \in Results,
             s \in {"failureChan", "failure"} => job[j].res # "success", s # "sending"
      PROVE  KnownResult(job'[k])
  <2>1. CASE k = j
    BY <1>4, <2>1, MoveFacts DEF KnownResult
  <2>2. CASE k # j
    BY <1>4, <2>2, <1>k, MoveFacts
  <2> QED
    BY <2>1, <2>2
<1>5. ASSUME NEW j \in JobIds, TakeJob(j) \/ Loaded(j) \/ LoadFails(j) \/ AcquireSemaphore(j)
             \/ DecideAlert(j) \/ SendAlert(j) \/ AckBeforeReschedule(j) \/ TakeRetryPath(j)
             \/ ScheduleRetry(j)
      PROVE  KnownResult(job'[k])
  BY <1>5, <1>4 DEF TakeJob, Loaded, LoadFails, AcquireSemaphore, DecideAlert, SendAlert,
     AckBeforeReschedule, TakeRetryPath, ScheduleRetry, Stages, LiveStages, QueueStages, WorkerStages, HTTPStages, ResultStages, WindowStages
<1>6. ASSUME NEW j \in JobIds, SendResult(j) \/ RouterTakes(j) \/ Route(j) \/ WorkerTakes(j)
      PROVE  KnownResult(job'[k])
  <2>1. KnownResult(job[j])
    BY DEF ResultsKnown
  <2> QED
    BY <1>6, <2>1, <1>4 DEF SendResult, RouterTakes, Route, WorkerTakes, KnownResult, Stages,
       LiveStages, QueueStages, WorkerStages, HTTPStages, ResultStages, WindowStages
<1>7. ASSUME NEW j \in JobIds, NEW r \in Results, ExecuteHTTPCheck(j, r)
      PROVE  KnownResult(job'[k])
  <2>1. job[j] \in Job
    BY <1>7, CopyIsJob DEF ExecuteHTTPCheck, Stages, LiveStages, HTTPStages
  <2>2. /\ job'[j].stage = "sending" /\ job'[j].res = r
        /\ k # j => job'[k] = job[k]
    BY <1>7, <2>1 DEF ExecuteHTTPCheck, TypeOK, Job
  <2> QED
    BY <2>2, <1>k DEF KnownResult
<1>8. ASSUME NEW i \in Instances, Crash(i) PROVE KnownResult(job'[k])
  BY <1>8, <1>k DEF Crash
<1> QED
  BY <1>1, <1>2, <1>3, <1>5, <1>6, <1>7, <1>8, PipelineAssumption
  DEF Next, SchedulerStep, AlertStep, JobStep, vars, CreateMonitor, BecomesDue, Expires,
      Dispatch, Backpressure, FetchAndMoveToInflight, TakeAlert, HandleAlert, ReclaimMonitors,
      NotMonitored, Requeue, Reschedule, StopMonitoring, AckAfterRetry, ScheduleCreated,
      PutBack, ScheduleReplyLost

\* The guards of JobStep: what a copy waits for at each stage.  At the stages of the
\* first line a goroutine holds the copy and waits for nobody but Redis, PostgreSQL or
\* the checked site; at the others it waits for room in the next channel or pool.
CanMove(j) ==
    LET i == job[j].inst
        Room(S, size) == Cardinality(At(i, S)) < size
    IN \/ job[j].stage \in {"loading", "requeue", "checking", "success", "retrying",
                            "reschedule", "ackOnly", "alerted", "creating", "backoff"}
       \/ job[j].stage = "failure" /\ job[j].res \in {"failed", "retryable", "terminal"}
       \/ job[j].stage = "alerting" /\ alertChan[i] < AlertChannelSize
       \/ job[j].stage = "jobChan" /\ Room(WorkerStages, WorkerCount)
       \/ job[j].stage = "acquiring" /\ Room(HTTPStages, HTTPSemCount)
       \/ job[j].stage = "sending" /\ Room({"resultChan"}, ResultChannelSize)
       \/ job[j].stage = "resultChan" /\ At(i, {"routing"}) = {}
       \/ /\ job[j].stage = "routing"
          /\ IF job[j].res = "success" THEN Room({"successChan"}, SuccessChannelSize)
                                       ELSE Room({"failureChan"}, FailureChannelSize)
       \/ /\ job[j].stage = "successChan"
          /\ Cardinality(WorkerBusy(i, TRUE)) < SuccessWorkerCount
       \/ /\ job[j].stage = "failureChan"
          /\ Cardinality(WorkerBusy(i, FALSE)) < FailureWorkerCount

\* The guards of AlertStep.
AlertCanMove(i) ==
    \/ alertChan[i] > 0 /\ alerting[i] < AlertWorkerCount
    \/ alerting[i] > 0

\* As long as an instance has a copy anywhere, one of its copies, or an alert in the way
\* of one, finds its guard true.
SomeoneCanMove ==
    \A i \in Instances :
        At(i, Stages) # {} => (\E j \in At(i, Stages) : CanMove(j)) \/ AlertCanMove(i)

\* The argument goes backwards from the alert workers: if none of them can go on, they
\* hold nothing and alertChan is empty, so no failure worker waits to send an alert; who
\* holds a copy behind the result channels can finish; if nobody does, these channels can
\* be emptied, else the router can send, else take, and so on up to jobChan.
LEMMA LastCopyCanMove == TypeOK /\ ResultsKnown => SomeoneCanMove
<1> SUFFICES ASSUME TypeOK, ResultsKnown, NEW i \in Instances, NEW c \in At(i, Stages),
                    \A j \in At(i, Stages) : ~CanMove(j), ~AlertCanMove(i)
             PROVE  FALSE
  BY DEF SomeoneCanMove
<1>a. alertChan[i] < AlertChannelSize
  <2>1. /\ alertChan[i] \in Nat /\ alerting[i] \in Nat
        /\ AlertChannelSize \in Nat \ {0} /\ AlertWorkerCount \in Nat \ {0}
    BY PipelineAssumption DEF TypeOK
  <2> QED
    BY <2>1 DEF AlertCanMove
<1>e. Cardinality({}) = 0
  BY FS_EmptySet
<1>c. /\ WorkerCount > 0 /\ HTTPSemCount > 0 /\ ResultChannelSize > 0
      /\ SuccessChannelSize > 0 /\ FailureChannelSize > 0
      /\ SuccessWorkerCount > 0 /\ FailureWorkerCount > 0
  BY PipelineAssumption
<1> DEFINE None(S) == \A j \in JobIds : job[j].inst = i => job[j].stage \notin S
<1>w. ASSUME NEW j \in JobIds, job[j].inst = i, job[j].stage \in Stages
      PROVE  /\ job[j].stage \notin {"loading", "requeue", "checking", "success", "retrying",
                                     "reschedule", "ackOnly", "alerted", "creating", "backoff",
                                     "alerting"}
             /\ ~(job[j].stage = "failure" /\ job[j].res \in {"failed", "retryable", "terminal"})
             /\ job[j].stage = "successChan" => WorkerBusy(i, TRUE) # {}
             /\ job[j].stage = "failureChan" => WorkerBusy(i, FALSE) # {}
             /\ job[j].stage = "routing" =>
                    At(i, {"successChan"}) # {} \/ At(i, {"failureChan"}) # {}
             /\ job[j].stage = "resultChan" => At(i, {"routing"}) # {}
             /\ job[j].stage = "sending" => At(i, {"resultChan"}) # {}
             /\ job[j].stage = "acquiring" => At(i, HTTPStages) # {}
             /\ job[j].stage = "jobChan" => At(i, WorkerStages) # {}
  <2>1. j \in At(i, Stages)
    BY <1>w DEF At
  <2>2. ~CanMove(j)
    BY <2>1
  <2> QED
    BY <1>w, <2>2, <1>a, <1>e, <1>c DEF CanMove
<1>1. None({"loading", "requeue", "checking", "success", "retrying", "reschedule", "ackOnly",
            "alerted", "creating", "backoff", "alerting"})
  BY <1>w DEF Stages, LiveStages, WorkerStages, HTTPStages, ResultStages, WindowStages
<1>2. None({"failure"})
  BY <1>w DEF ResultsKnown, KnownResult, Results, Stages, LiveStages, ResultStages
<1>3. WorkerBusy(i, TRUE) = {} /\ WorkerBusy(i, FALSE) = {}
  BY <1>1, <1>2 DEF WorkerBusy, At, ResultStages
<1>4. None({"successChan", "failureChan"})
  BY <1>3, <1>w DEF Stages, LiveStages, QueueStages
<1>5. None({"routing"})
  <2>1. At(i, {"successChan"}) = {} /\ At(i, {"failureChan"}) = {}
    BY <1>4 DEF At
  <2> QED
    BY <2>1, <1>w DEF Stages, LiveStages
<1>6. None({"resultChan"})
  <2>1. At(i, {"routing"}) = {}
    BY <1>5 DEF At
  <2> QED
    BY <2>1, <1>w DEF Stages, LiveStages, QueueStages
<1>7. None(HTTPStages)
  <2>1. At(i, {"resultChan"}) = {}
    BY <1>6 DEF At
  <2> QED
    BY <2>1, <1>1, <1>w DEF Stages, LiveStages, HTTPStages
<1>8. None(WorkerStages)
  <2>1. At(i, HTTPStages) = {}
    BY <1>7 DEF At
  <2> QED
    BY <2>1, <1>1, <1>w DEF Stages, LiveStages, WorkerStages
<1>9. None({"jobChan"})
  <2>1. At(i, WorkerStages) = {}
    BY <1>8 DEF At
  <2> QED
    BY <2>1, <1>w DEF Stages, LiveStages, QueueStages
<1> QED
  BY <1>1, <1>2, <1>4, <1>5, <1>6, <1>7, <1>8, <1>9
  DEF At, Stages, LiveStages, QueueStages, WorkerStages, HTTPStages, ResultStages, WindowStages

\* However full the five channels, the four worker pools and the HTTP semaphore of an
\* instance are, one of its goroutines finds room for the copy or the alert it holds: no
\* cycle of stages waits for itself.  NeverWedged says the same with ENABLED.
THEOREM NeverBlocked == Spec => []SomeoneCanMove
<1>1. Init => ResultsKnown
  BY DEF Init, ResultsKnown, KnownResult, NoJob
<1> QED
  BY <1>1, TypeCorrect, ResultsKnownStep, LastCopyCanMove, PTL DEF Spec
-----------------------------------------------------------------------------
(* A copy only ever goes forward *)

Forward(k) ==
    \/ Free(k) \/ job'[k] = job[k] \/ Free(k)'
    \/ /\ MovesLeft(job'[k].stage) < MovesLeft(job[k].stage)
       /\ job'[k].mon = job[k].mon /\ job'[k].inst = job[k].inst

\* The moves left at the stages a copy goes through, one after the other.
LEMMA MovesLeftOf ==
    /\ MovesLeft("loading") < MovesLeft("jobChan")
    /\ MovesLeft("acquiring") < MovesLeft("loading")
    /\ MovesLeft("requeue") < MovesLeft("loading")
    /\ MovesLeft("checking") < MovesLeft("acquiring")
    /\ MovesLeft("sending") < MovesLeft("checking")
    /\ MovesLeft("resultChan") < MovesLeft("sending")
    /\ MovesLeft("routing") < MovesLeft("resultChan")
    /\ \A s \in {"successChan", "failureChan"} : MovesLeft(s) < MovesLeft("routing")
    /\ MovesLeft("success") < MovesLeft("successChan")
    /\ MovesLeft("failure") < MovesLeft("failureChan")
    /\ \A s \in {"alerting", "retrying", "reschedule"} : MovesLeft(s) < MovesLeft("failure")
    /\ MovesLeft("alerted") < MovesLeft("alerting")
    /\ \A s \in {"success", "alerted"} : MovesLeft("reschedule") < MovesLeft(s)
    /\ MovesLeft("ackOnly") < MovesLeft("retrying")
  BY DEF MovesLeft

\* A copy that is moved to a later stage keeps its monitor and its instance.
LEMMA MoveForward ==
    ASSUME TypeOK, NEW j \in JobIds, NEW s \in Stages, job[j].stage \in Stages, Move(j, s),
           MovesLeft(s) < MovesLeft(job[j].stage), NEW k \in JobIds
    PROVE  Forward(k)
<1>1. CASE k = j
  <2>1. job[j] \in Job
    BY CopyIsJob
  <2>2. job'[j].inst = job[j].inst
    BY <2>1 DEF Move, TypeOK, Job
  <2> QED
    BY <1>1, <2>2, MoveFacts DEF Forward
<1>2. CASE k # j
  BY <1>2, MoveFacts DEF Forward
<1> QED
  BY <1>1, <1>2

\* Every step takes the copies it moves forward.
LEMMA ForwardStep == ASSUME TypeOK, [Next]_vars, NEW k \in JobIds PROVE Forward(k)
<1>1. ASSUME UNCHANGED job PROVE Forward(k)
  BY <1>1 DEF Forward
<1>2. ASSUME NEW i \in Instances, NEW m \in Monitors, NEW s, NewCopy(m, i, s)
      PROVE  Forward(k)
  BY <1>2 DEF NewCopy, Forward, TypeOK
<1>3. ASSUME NEW j \in JobIds, Drop(j) PROVE Forward(k)
  BY <1>3, DropFacts DEF Forward, Free
<1>4. ASSUME NEW j \in JobIds, TakeJob(j) \/ Loaded(j) \/ LoadFails(j) \/ AcquireSemaphore(j)
             \/ SendResult(j) \/ RouterTakes(j) \/ Route(j) \/ WorkerTakes(j)
      PROVE  Forward(k)
  <2>1. \E s \in Stages : Move(j, s) /\ MovesLeft(s) < MovesLeft(job[j].stage)
    BY <1>4, MovesLeftOf DEF TakeJob, Loaded, LoadFails, AcquireSemaphore, SendResult,
       RouterTakes, Route, WorkerTakes, Stages, LiveStages, QueueStages, WorkerStages,
       HTTPStages, ResultStages
  <2>2. job[j].stage \in Stages
    BY <1>4 DEF TakeJob, Loaded, LoadFails, AcquireSemaphore, SendResult, RouterTakes, Route,
       WorkerTakes, Stages, LiveStages, QueueStages, WorkerStages, HTTPStages, ResultStages
  <2> QED
    BY <2>1, <2>2, MoveForward
<1>5. ASSUME NEW j \in JobIds, DecideAlert(j) \/ SendAlert(j) \/ AckBeforeReschedule(j)
             \/ TakeRetryPath(j) \/ ScheduleRetry(j)
      PROVE  Forward(k)
  <2>1. \E s \in Stages : Move(j, s) /\ MovesLeft(s) < MovesLeft(job[j].stage)
    BY <1>5, MovesLeftOf DEF DecideAlert, SendAlert, AckBeforeReschedule, TakeRetryPath,
       ScheduleRetry, Stages, LiveStages, ResultStages, WindowStages
  <2>2. job[j].stage \in Stages
    BY <1>5 DEF DecideAlert, SendAlert, AckBeforeReschedule, TakeRetryPath, ScheduleRetry,
       Stages, LiveStages, ResultStages
  <2> QED
    BY <2>1, <2>2, MoveForward
<1>7. ASSUME NEW j \in JobIds, NEW r \in Results, ExecuteHTTPCheck(j, r)
      PROVE  Forward(k)
  <2>1. job[j] \in Job /\ job[j].stage = "checking"
    BY <1>7, CopyIsJob DEF ExecuteHTTPCheck, Stages, LiveStages, HTTPStages
  <2>2. /\ job'[j].stage = "sending" /\ job'[j].mon = job[j].mon /\ job'[j].inst = job[j].inst
        /\ k # j => job'[k] = job[k]
    BY <1>7, <2>1 DEF ExecuteHTTPCheck, TypeOK, Job
  <2> QED
    BY <2>1, <2>2 DEF Forward, MovesLeft
<1>8. ASSUME NEW i \in Instances, Crash(i) PROVE Forward(k)
  BY <1>8 DEF Crash, Forward, Free, NoJob
<1> QED
  BY <1>1, <1>2, <1>3, <1>4, <1>5, <1>7, <1>8, PipelineAssumption
  DEF Next, SchedulerStep, AlertStep, JobStep, vars, CreateMonitor, BecomesDue, Expires,
      Dispatch, Backpressure, FetchAndMoveToInflight, TakeAlert, HandleAlert, ReclaimMonitors,
      NotMonitored, Requeue, Reschedule, StopMonitoring, AckAfterRetry, ScheduleCreated,
      PutBack, ScheduleReplyLost

\* For any sizes, instances and faults: a copy makes at most twelve moves, all forward.
\* With NeverBlocked, which says that some copy of a crowded instance can move, no copy is
\* handed round for ever.
THEOREM CopiesGoForward == Spec => CopiesAdvance
<1>1. TypeOK /\ [Next]_vars =>
          [\A j \in JobIds :
              \/ Free(j) \/ job'[j] = job[j] \/ Free(j)'
              \/ /\ MovesLeft(job'[j].stage) < MovesLeft(job[j].stage)
                 /\ job'[j].mon = job[j].mon /\ job'[j].inst = job[j].inst]_vars
  BY ForwardStep DEF Forward
<1> QED
  BY <1>1, TypeCorrect, PTL DEF Spec, CopiesAdvance
=============================================================================
