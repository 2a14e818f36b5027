--------------------------- MODULE ShutdownProofs ---------------------------
(* Proofs about Shutdown, for any channel and pool sizes.                     *)
EXTENDS Shutdown, TLAPS

-----------------------------------------------------------------------------
(* What a step does to the messages *)

\* The channels are stages, and their capacities are numbers.
LEMMA SizeType == \A c \in Channels : c \in Stages /\ Size(c) \in Nat
  BY ShutdownAssumption DEF Channels, Stages, Size

\* Advance takes one message from one stage to another.
LEMMA AdvanceFacts ==
    ASSUME at \in [Stages -> Nat], NEW from \in Stages, NEW to \in Stages, from # to,
           at[from] > 0, Advance(from, to)
    PROVE  /\ at' \in [Stages -> Nat]
           /\ at'[from] = at[from] - 1 /\ at'[to] = at[to] + 1
           /\ \A s \in Stages \ {from, to} : at'[s] = at[s]
  BY DEF Advance

\* Finish takes one message out of a stage.
LEMMA FinishFacts ==
    ASSUME at \in [Stages -> Nat], NEW from \in Stages, at[from] > 0, Finish(from)
    PROVE  /\ at' \in [Stages -> Nat]
           /\ at'[from] = at[from] - 1
           /\ \A s \in Stages \ {from} : at'[s] = at[s]
  BY DEF Finish

\* A send advances one message into a channel that is open and has room, or panics.
LEMMA SendFacts ==
    ASSUME at \in [Stages -> Nat], NEW from \in Stages, NEW c \in Channels, from # c,
           Send(from, c)
    PROVE  \/ c \in closed /\ panicked' = c /\ at' = at
           \/ /\ c \notin closed /\ panicked' = panicked
              /\ at[c] < Size(c) /\ at[from] > 0
              /\ at' \in [Stages -> Nat]
              /\ at'[from] = at[from] - 1 /\ at'[c] = at[c] + 1
              /\ \A s \in Stages \ {from, c} : at'[s] = at[s]
  BY AdvanceFacts, SizeType DEF Send, Panic

\* The stages, one by one.
LEMMA StageList ==
    Stages = {"batch", "jobChan", "resultChan", "successChan", "failureChan", "alertChan",
              "loading", "lateLoad", "acquiring", "checking", "sending",
              "routeSuccess", "routeFailure", "success", "failure", "lateSuccess",
              "lateFailure", "alerting", "alerted", "handlingAlert"}
  BY DEF Stages, Channels, WorkerStages, HTTPStages, RouterStages, ResultStages, AlertStages

\* The sent alert goes one way and the worker that sent it another.
LEMMA SendAlertFacts ==
    ASSUME at \in [Stages -> Nat], SendAlert
    PROVE  \/ "alertChan" \in closed /\ panicked' = "alertChan" /\ at' = at
           \/ /\ "alertChan" \notin closed /\ panicked' = panicked
              /\ at["alertChan"] < Size("alertChan") /\ at["alerting"] > 0
              /\ at' \in [Stages -> Nat]
              /\ at'["alerting"] = at["alerting"] - 1
              /\ at'["alerted"] = at["alerted"] + 1 /\ at'["alertChan"] = at["alertChan"] + 1
              /\ \A s \in Stages \ {"alerting", "alerted", "alertChan"} : at'[s] = at[s]
<1>1. Size("alertChan") = AlertChannelSize
  BY DEF Size
<1>2. {"alerting", "alerted", "alertChan"} \subseteq Stages
  BY StageList
<1>3. CASE "alertChan" \in closed
  BY <1>3 DEF SendAlert, Panic
<1>4. CASE "alertChan" \notin closed
  <2>1. /\ at["alertChan"] < AlertChannelSize /\ at["alerting"] > 0 /\ panicked' = panicked
        /\ at' = [at EXCEPT !["alerting"] = @ - 1, !["alerted"] = @ + 1, !["alertChan"] = @ + 1]
    BY <1>4 DEF SendAlert
  <2> QED
    BY <1>1, <1>2, <1>4, <2>1
<1> QED
  BY <1>3, <1>4

\* A worker that is done with a message leaves everything but the message alone.
LEMMA DoneFacts ==
    ASSUME TypeOK, NotLoaded \/ Handled
    PROVE  \E s \in {"loading", "lateLoad"} \cup (ResultStages \ {"alerting"}) :
              /\ s \in Stages /\ at[s] > 0 /\ Finish(s)
              /\ abandoned' \in BOOLEAN /\ UNCHANGED <<control, panicked>>
  BY StageList DEF NotLoaded, Handled, Done, ResultStages

-----------------------------------------------------------------------------
(* Type correctness *)

\* A message that goes to a goroutine.
LEMMA AdvanceType ==
    ASSUME TypeOK, NEW from \in Stages, NEW to \in Stages \ (Channels \cup {"batch"}),
           from # to, at[from] > 0, Advance(from, to), UNCHANGED <<others, panicked>>
    PROVE  TypeOK'
  <1>1. /\ at' \in [Stages -> Nat]
        /\ \A s \in Stages \ {to} : at'[s] <= at[s]
    BY AdvanceFacts DEF TypeOK
  <1>2. "batch" \in Stages \ {to} /\ \A c \in Channels : c \in Stages \ {to}
    BY SizeType, StageList
  <1>3. at'["batch"] <= BatchSize /\ \A c \in Channels : at'[c] <= Size(c)
    BY <1>1, <1>2, SizeType, ShutdownAssumption DEF TypeOK
  <1> QED
    BY <1>1, <1>3 DEF TypeOK, others, control, Size

\* A message that a goroutine is done with.
LEMMA FinishType ==
    ASSUME TypeOK, NEW from \in Stages, at[from] > 0, Finish(from),
           UNCHANGED <<control, panicked>>, abandoned' \in BOOLEAN
    PROVE  TypeOK'
  <1>1. /\ at' \in [Stages -> Nat]
        /\ \A s \in Stages : at'[s] <= at[s]
    BY FinishFacts DEF TypeOK
  <1>2. at'["batch"] <= BatchSize /\ \A c \in Channels : at'[c] <= Size(c)
    BY <1>1, SizeType, StageList, ShutdownAssumption DEF TypeOK
  <1> QED
    BY <1>1, <1>2 DEF TypeOK, control, Size

\* A message that is sent.
LEMMA SendType ==
    ASSUME TypeOK, NEW from \in Stages, NEW c \in Channels, from # c, Send(from, c),
           UNCHANGED others
    PROVE  TypeOK'
  <1>1. CASE c \in closed /\ panicked' = c /\ at' = at
    BY <1>1 DEF TypeOK, others, control, Size
  <1>2. CASE /\ c \notin closed /\ panicked' = panicked
             /\ at[c] < Size(c) /\ at[from] > 0
             /\ at' \in [Stages -> Nat]
             /\ at'[from] = at[from] - 1 /\ at'[c] = at[c] + 1
             /\ \A s \in Stages \ {from, c} : at'[s] = at[s]
    <2>1. \A s \in Stages \ {c} : at'[s] <= at[s]
      BY <1>2 DEF TypeOK
    <2>2. "batch" \in Stages \ {c} /\ \A d \in Channels : d \in Stages
      BY SizeType, StageList DEF Channels
    <2>3. at'["batch"] <= BatchSize
      BY <1>2, <2>1, <2>2, ShutdownAssumption DEF TypeOK
    <2>4. ASSUME NEW d \in Channels PROVE at'[d] <= Size(d)
      <3>1. CASE d = c
        BY <1>2, <3>1, <2>2, SizeType DEF TypeOK
      <3>2. CASE d # c
        BY <1>2, <3>2, <2>1, <2>2, SizeType DEF TypeOK
      <3> QED
        BY <3>1, <3>2
    <2> QED
      BY <1>2, <2>3, <2>4 DEF TypeOK, others, control, Size
  <1> QED
    BY <1>1, <1>2, SendFacts DEF TypeOK

\* An alert that is sent.
LEMMA SendAlertType ==
    ASSUME TypeOK, SendAlert PROVE TypeOK'
  <1>0. UNCHANGED others /\ at \in [Stages -> Nat]
    BY DEF SendAlert, TypeOK
  <1>1. CASE "alertChan" \in closed /\ panicked' = "alertChan" /\ at' = at
    BY <1>0, <1>1 DEF TypeOK, others, control, Size, Channels
  <1>2. CASE /\ panicked' = panicked /\ at["alertChan"] < Size("alertChan")
             /\ at' \in [Stages -> Nat] /\ at'["alertChan"] = at["alertChan"] + 1
             /\ \A s \in Stages \ {"alerting", "alerted", "alertChan"} : at'[s] = at[s]
    <2>1. at'["batch"] <= BatchSize
      BY <1>2, StageList DEF TypeOK
    <2>2. ASSUME NEW d \in Channels PROVE at'[d] <= Size(d)
      <3>1. CASE d = "alertChan"
        BY <1>0, <1>2, <3>1, SizeType, StageList
      <3>2. CASE d # "alertChan"
        BY <1>2, <3>2, SizeType DEF TypeOK, Channels
      <3> QED
        BY <3>1, <3>2
    <2> QED
      BY <1>0, <1>2, <2>1, <2>2 DEF TypeOK, others, control, Size
  <1> QED
    BY <1>0, <1>1, <1>2, SendAlertFacts

\* Every step keeps the types.
LEMMA TypeStep == TypeOK /\ [Next]_vars => TypeOK'
<1> SUFFICES ASSUME TypeOK, [Next]_vars PROVE TypeOK'
  OBVIOUS
<1>1. CASE Signal \/ StopScheduler
  BY <1>1 DEF Signal, StopScheduler, TypeOK, Size
<1>2. CASE Fetch
  <2>1. PICK n \in 1 .. BatchSize : /\ fetched + n <= MaxFetched
                                    /\ at' = [at EXCEPT !["batch"] = n]
                                    /\ fetched' = fetched + n
    BY <1>2 DEF Fetch
  <2>2. /\ at' \in [Stages -> Nat] /\ at'["batch"] <= BatchSize
        /\ \A c \in Channels : at'[c] = at[c]
    BY <2>1, StageList, SizeType, ShutdownAssumption DEF TypeOK, Channels
  <2>3. fetched' \in 0 .. MaxFetched
    BY <2>1, ShutdownAssumption DEF TypeOK
  <2> QED
    BY <1>2, <2>2, <2>3 DEF Fetch, TypeOK, Size
<1>3. CASE SendJob \/ SendResult \/ Route
  BY <1>3, SendType, StageList DEF SendJob, SendResult, Route, Channels
<1>4. CASE LeaveBatch
  <2>1. /\ at' \in [Stages -> Nat] /\ at'["batch"] <= BatchSize
        /\ \A c \in Channels : at'[c] = at[c]
    BY <1>4, StageList, SizeType, ShutdownAssumption DEF LeaveBatch, TypeOK, Channels
  <2> QED
    BY <1>4, <2>1 DEF LeaveBatch, TypeOK, others, control, Size
<1>5. CASE Backpressure \/ NotLoaded \/ Handled \/ HandleAlert
  <2>1. CASE Backpressure \/ HandleAlert
    <3>1. UNCHANGED <<control, panicked>> /\ abandoned' \in BOOLEAN
      BY <2>1 DEF Backpressure, HandleAlert, others, TypeOK
    <3> QED
      BY <2>1, <3>1, FinishType, StageList DEF Backpressure, HandleAlert
  <2>2. CASE NotLoaded \/ Handled
    BY <2>2, DoneFacts, FinishType
  <2> QED
    BY <1>5, <2>1, <2>2
<1>6. CASE TakeJob \/ Loaded \/ AcquireSemaphore \/ ExecuteHTTPCheck
  BY <1>6, AdvanceType, StageList
  DEF TakeJob, Loaded, AcquireSemaphore, ExecuteHTTPCheck, Channels
<1>7. CASE RouterTakes \/ TakeSuccess \/ TakeFailure \/ MarkAlerted \/ TakeAlert
  BY <1>7, AdvanceType, StageList
  DEF RouterTakes, TakeSuccess, TakeFailure, MarkAlerted, TakeAlert, Channels, RouterStages
<1>8. CASE RouterEnds
  BY <1>8 DEF RouterEnds, TypeOK, Channels, Size
<1>9. CASE MainStep
  BY <1>9 DEF MainStep, ShutdownServer, CloseJobChan, WaitWorkers, WaitHTTP, CloseResultChan,
     WorkersClosingWait, CloseAlertChan, WorkerClosingWait, Exit, Go, Close, TypeOK,
     MainSteps, Channels, Size
<1>10. CASE UNCHANGED vars
  BY <1>10 DEF vars, others, control, TypeOK, Size
<1> QED
  BY <1>1, <1>2, <1>3, <1>4, <1>5, <1>6, <1>7, <1>8, <1>9, <1>10, SendAlertType
  DEF Next, SchedulerStep, ExecutorStep, ResultStep

\* Type correctness of the shutdown: channels keep to their capacities to the end.
THEOREM TypeCorrect == Spec => []TypeOK
<1>1. Init => TypeOK
  <2> SUFFICES ASSUME Init PROVE TypeOK
    OBVIOUS
  <2>1. \A c \in Channels : at[c] <= Size(c)
    BY SizeType DEF Init
  <2>2. at \in [Stages -> Nat] /\ at["batch"] <= BatchSize
    BY StageList, ShutdownAssumption DEF Init
  <2>3. fetched \in 0 .. MaxFetched
    BY ShutdownAssumption DEF Init
  <2> QED
    BY <2>1, <2>2, <2>3, Zenon DEF Init, TypeOK, MainSteps
<1> QED
  BY <1>1, TypeStep, PTL DEF Spec

-----------------------------------------------------------------------------
(* The order of the shutdown *)

WorkersGone == {"waitHTTP", "closeResults", "waitResults", "closeAlerts", "waitAlerts",
                "closeRedis", "exited"}
HTTPGone    == WorkersGone \ {"waitHTTP"}
ResultsGone == {"closeAlerts", "waitAlerts", "closeRedis", "exited"}
AlertsGone  == {"closeRedis", "exited"}

\* A channel is closed only after all who send on it are gone, the scheduler excepted.
CloseOrder ==
    /\ main \in WorkersGone => "jobChan" \in closed
    /\ "resultChan" \in closed => main \in HTTPGone
    /\ "failureChan" \in closed => "resultChan" \in closed
    /\ "successChan" \in closed => "resultChan" \in closed
    /\ main \in ResultsGone => "failureChan" \in closed /\ "successChan" \in closed
    /\ "alertChan" \in closed => main \in ResultsGone
    /\ main \in AlertsGone => "alertChan" \in closed

RouterGone == "failureChan" \in closed \/ "successChan" \in closed

\* The stages main has waited for, or whose goroutine has returned.
Over(s) ==
    \/ main \in WorkersGone /\ s \in {"jobChan"} \cup WorkerStages
    \/ main \in HTTPGone /\ s \in HTTPStages
    \/ RouterGone /\ s \in {"resultChan"} \cup RouterStages
    \/ main \in ResultsGone /\ s \in {"successChan", "failureChan"} \cup ResultStages
    \/ main \in AlertsGone /\ s \in {"alertChan"} \cup AlertStages

\* A stage that is over is empty for good.
OverIsEmpty == \A s \in Stages : Over(s) => at[s] = 0

Order == CloseOrder /\ OverIsEmpty /\ StagesNeverPanic

\* A message advances into a stage that is over only from one that is over: never.
LEMMA AdvanceOrder ==
    ASSUME TypeOK, Order, NEW from \in Stages, NEW to \in Stages, from # to, at[from] > 0,
           Over(to) => Over(from), Advance(from, to), UNCHANGED <<others, panicked>>
    PROVE  Order'
  <1>1. at[from] # 0 /\ ~Over(from) /\ ~Over(to)
    BY DEF Order, OverIsEmpty, TypeOK
  <1>2. \A s \in Stages \ {from, to} : at'[s] = at[s]
    BY AdvanceFacts DEF TypeOK
  <1>3. main' = main /\ closed' = closed /\ panicked' = panicked
    BY DEF others, control
  <1>4. \A s \in Stages : Over(s)' <=> Over(s)
    BY <1>3 DEF Over, RouterGone
  <1>5. OverIsEmpty'
    BY <1>1, <1>2, <1>4 DEF Order, OverIsEmpty
  <1> QED
    BY <1>3, <1>5 DEF Order, CloseOrder, StagesNeverPanic

\* A message less does no harm.
LEMMA FinishOrder ==
    ASSUME TypeOK, Order, NEW from \in Stages, at[from] > 0, Finish(from),
           UNCHANGED <<control, panicked>>
    PROVE  Order'
  <1>1. at[from] # 0 /\ ~Over(from)
    BY DEF Order, OverIsEmpty, TypeOK
  <1>2. \A s \in Stages \ {from} : at'[s] = at[s]
    BY FinishFacts DEF TypeOK
  <1>3. main' = main /\ closed' = closed /\ panicked' = panicked
    BY DEF control
  <1>4. \A s \in Stages : Over(s)' <=> Over(s)
    BY <1>3 DEF Over, RouterGone
  <1>5. OverIsEmpty'
    BY <1>1, <1>2, <1>4 DEF Order, OverIsEmpty
  <1> QED
    BY <1>3, <1>5 DEF Order, CloseOrder, StagesNeverPanic

\* A goroutine that sends finds its channel open: the channel is closed only when the
\* goroutine's stage is over.
LEMMA SendOrder ==
    ASSUME TypeOK, Order, NEW from \in Stages, NEW c \in Channels, from # c,
           Send(from, c), UNCHANGED others, c \in closed => Over(from),
           Over(c) => c \in closed
    PROVE  Order'
  <1>1. at[from] > 0 /\ at[from] # 0
    BY DEF Send, TypeOK
  <1>2. c \notin closed
    BY <1>1 DEF Order, OverIsEmpty
  <1>3. Advance(from, c) /\ UNCHANGED panicked /\ c \in Stages
    BY <1>2, SizeType DEF Send
  <1> QED
    BY <1>1, <1>2, <1>3, AdvanceOrder

\* Every step keeps the order.
LEMMA OrderStep == TypeOK /\ Order /\ [Next]_vars => Order'
<1> SUFFICES ASSUME TypeOK, Order, [Next]_vars PROVE Order'
  OBVIOUS
<1>t. at \in [Stages -> Nat] /\ CloseOrder
  BY DEF TypeOK, Order
<1>g. /\ HTTPGone \subseteq WorkersGone /\ ResultsGone \subseteq HTTPGone
      /\ AlertsGone \subseteq ResultsGone
  BY DEF WorkersGone, HTTPGone, ResultsGone, AlertsGone
<1>1. ASSUME others' = others \/ UNCHANGED <<main, closed>>,
             panicked' = panicked, \A s \in Stages \ {"batch"} : at'[s] = at[s]
      PROVE  Order'
  <2>1. main' = main /\ closed' = closed
    BY <1>1 DEF others, control
  <2>2. \A s \in Stages : (Over(s)' <=> Over(s)) /\ ~Over("batch")
    BY <2>1 DEF Over, RouterGone, WorkerStages, HTTPStages, RouterStages, ResultStages,
       AlertStages
  <2>3. OverIsEmpty'
    BY <1>1, <2>2 DEF Order, OverIsEmpty
  <2> QED
    BY <1>1, <2>1, <2>3 DEF Order, CloseOrder, StagesNeverPanic
<1>2. CASE Signal \/ StopScheduler \/ Fetch \/ LeaveBatch
  BY <1>1, <1>2, <1>t DEF Signal, StopScheduler, Fetch, LeaveBatch
<1>3. CASE SendJob
  <2>1. "batch" \in Stages /\ "jobChan" \in Channels
    BY StageList DEF Channels
  <2>2. CASE "jobChan" \in closed
    <3>1. panicked' = "jobChan" /\ at' = at /\ main' = main /\ closed' = closed
      BY <1>3, <1>t, <2>1, <2>2, SendFacts DEF SendJob, others, control
    <3> QED
      BY <3>1 DEF Order, CloseOrder, OverIsEmpty, Over, RouterGone, StagesNeverPanic
  <2>3. CASE "jobChan" \notin closed
    <3>1. ~Over("jobChan")
      BY <2>3, <1>t, <1>g DEF CloseOrder, Over, RouterStages, HTTPStages, ResultStages, AlertStages
    <3> QED
      BY <1>3, <2>1, <2>3, <3>1, SendOrder DEF SendJob
  <2> QED
    BY <2>2, <2>3
<1>4. CASE SendResult
  <2>1. "resultChan" \in closed => Over("sending")
    BY <1>t DEF CloseOrder, Over, HTTPStages
  <2>2. Over("resultChan") => "resultChan" \in closed
    BY <1>t DEF CloseOrder, Over, RouterGone, WorkerStages, HTTPStages, ResultStages, AlertStages
  <2> QED
    BY <1>4, <2>1, <2>2, SendOrder, StageList DEF SendResult, Channels
<1>5. CASE Route
  <2>1. /\ "successChan" \in closed => Over("routeSuccess")
        /\ "failureChan" \in closed => Over("routeFailure")
    BY DEF Over, RouterGone, RouterStages
  <2>2. /\ Over("successChan") => "successChan" \in closed
        /\ Over("failureChan") => "failureChan" \in closed
    BY <1>t DEF CloseOrder, Over, WorkerStages, HTTPStages, RouterStages, AlertStages
  <2> QED
    BY <1>5, <2>1, <2>2, SendOrder, StageList DEF Route, Channels
<1>6. CASE SendAlert
  <2>1. "alertChan" \in closed => Over("alerting")
    BY <1>t DEF CloseOrder, Over, ResultStages
  <2>2. Over("alertChan") \/ Over("alerted") => Over("alerting")
    BY <1>g DEF Over, WorkerStages, HTTPStages, RouterStages, ResultStages, AlertStages
  <2>3. at["alerting"] # 0 /\ ~Over("alerting") /\ main' = main /\ closed' = closed
    BY <1>6, <1>t, StageList DEF SendAlert, Order, OverIsEmpty, others, control
  <2>4. /\ panicked' = panicked
        /\ \A s \in Stages \ {"alerting", "alerted", "alertChan"} : at'[s] = at[s]
    BY <1>6, <1>t, <2>1, <2>3, SendAlertFacts
  <2>5. \A s \in Stages : Over(s)' <=> Over(s)
    BY <2>3 DEF Over, RouterGone
  <2>6. OverIsEmpty'
    BY <2>2, <2>3, <2>4, <2>5 DEF Order, OverIsEmpty
  <2> QED
    BY <2>3, <2>4, <2>6 DEF Order, CloseOrder, StagesNeverPanic
<1>15. CASE TakeAlert
  <2>1. Over("handlingAlert") => Over("alertChan")
    BY DEF Over, WorkerStages, HTTPStages, RouterStages, ResultStages, AlertStages
  <2> QED
    BY <1>15, <2>1, AdvanceOrder, StageList DEF TakeAlert
<1>7. CASE Backpressure \/ NotLoaded \/ Handled \/ HandleAlert
  <2>1. CASE Backpressure \/ HandleAlert
    BY <2>1, FinishOrder, StageList DEF Backpressure, HandleAlert, others
  <2>2. CASE NotLoaded \/ Handled
    BY <2>2, DoneFacts, FinishOrder
  <2> QED
    BY <1>7, <2>1, <2>2
<1>8. CASE TakeJob \/ Loaded
  <2>1. \A s \in WorkerStages : Over(s) => Over("jobChan") /\ Over("loading")
    BY DEF Over, WorkerStages, HTTPStages, RouterStages, ResultStages, AlertStages
  <2> QED
    BY <1>8, <2>1, AdvanceOrder, StageList DEF TakeJob, Loaded, WorkerStages
<1>9. CASE AcquireSemaphore \/ ExecuteHTTPCheck
  <2>1. /\ Over("checking") => Over("acquiring")
        /\ Over("sending") => Over("checking")
    BY <1>g DEF Over, WorkerStages, HTTPStages, RouterStages, ResultStages, AlertStages
  <2> QED
    BY <1>9, <2>1, AdvanceOrder, StageList DEF AcquireSemaphore, ExecuteHTTPCheck
<1>10. CASE RouterTakes
  <2>1. \A s \in RouterStages : Over(s) => Over("resultChan")
    BY DEF Over, WorkerStages, HTTPStages, RouterStages, ResultStages, AlertStages
  <2> QED
    BY <1>10, <2>1, AdvanceOrder, StageList DEF RouterTakes, RouterStages
<1>11. CASE TakeSuccess \/ TakeFailure \/ MarkAlerted
  <2>1. \A s \in ResultStages :
            Over(s) => Over("successChan") /\ Over("failureChan") /\ Over("failure")
    BY DEF Over, WorkerStages, HTTPStages, RouterStages, ResultStages, AlertStages
  <2> QED
    BY <1>11, <2>1, AdvanceOrder, StageList
    DEF TakeSuccess, TakeFailure, MarkAlerted, ResultStages
<1>12. CASE RouterEnds
  <2>1. main' = main /\ at' = at /\ panicked' = panicked /\ closed \subseteq closed'
    BY <1>12 DEF RouterEnds
  <2>2. CloseOrder'
    BY <1>12, <1>t DEF RouterEnds, CloseOrder
  <2>3. \A s \in {"resultChan"} \cup RouterStages : at[s] = 0
    BY <1>12 DEF RouterEnds, None
  <2>4. \A s \in Stages : Over(s)' => Over(s) \/ s \in {"resultChan"} \cup RouterStages
    BY <2>1 DEF Over
  <2> QED
    BY <2>1, <2>2, <2>3, <2>4 DEF Order, OverIsEmpty, StagesNeverPanic
<1>13. ASSUME MainStep PROVE Order'
  <2>1. at' = at /\ panicked' = panicked
    BY <1>13 DEF MainStep, ShutdownServer, CloseJobChan, WaitWorkers, WaitHTTP,
       CloseResultChan, WorkersClosingWait, CloseAlertChan, WorkerClosingWait, Exit, Go
  <2>2. CloseOrder'
    BY <1>13, <1>t DEF MainStep, ShutdownServer, CloseJobChan, WaitWorkers, WaitHTTP,
       CloseResultChan, WorkersClosingWait, CloseAlertChan, WorkerClosingWait, Exit, Go,
       Close, CloseOrder, WorkersGone, HTTPGone, ResultsGone, AlertsGone
  <2>3. RouterGone' <=> RouterGone
    BY <1>13 DEF MainStep, ShutdownServer, CloseJobChan, WaitWorkers, WaitHTTP,
       CloseResultChan, WorkersClosingWait, CloseAlertChan, WorkerClosingWait, Exit, Go,
       Close, RouterGone
  <2>4. CASE WaitWorkers
    <3>1. \A s \in {"jobChan"} \cup WorkerStages : at[s] = 0
      BY <2>4 DEF WaitWorkers, None
    <3>2. \A s \in Stages : Over(s)' => Over(s) \/ s \in {"jobChan"} \cup WorkerStages
      BY <2>4, <2>3 DEF WaitWorkers, Go, Over, HTTPGone, ResultsGone, AlertsGone
    <3> QED
      BY <2>1, <2>2, <3>1, <3>2 DEF Order, OverIsEmpty, StagesNeverPanic
  <2>5. CASE WaitHTTP
    <3>1. \A s \in HTTPStages : at[s] = 0
      BY <2>5 DEF WaitHTTP, None
    <3>2. \A s \in Stages : Over(s)' => Over(s) \/ s \in HTTPStages
      BY <2>5, <2>3 DEF WaitHTTP, Go, Over, WorkersGone, ResultsGone, AlertsGone
    <3> QED
      BY <2>1, <2>2, <3>1, <3>2 DEF Order, OverIsEmpty, StagesNeverPanic
  <2>6. CASE WorkersClosingWait
    <3>1. \A s \in {"successChan", "failureChan"} \cup ResultStages : at[s] = 0
      BY <2>6 DEF WorkersClosingWait, None
    <3>2. \A s \in Stages : Over(s)' =>
              Over(s) \/ s \in {"successChan", "failureChan"} \cup ResultStages
      BY <2>6, <2>3 DEF WorkersClosingWait, Go, Over, WorkersGone, HTTPGone, AlertsGone
    <3> QED
      BY <2>1, <2>2, <3>1, <3>2 DEF Order, OverIsEmpty, StagesNeverPanic
  <2>7. CASE WorkerClosingWait
    <3>1. \A s \in {"alertChan"} \cup AlertStages : at[s] = 0
      BY <2>7 DEF WorkerClosingWait, None
    <3>2. \A s \in Stages : Over(s)' => Over(s) \/ s \in {"alertChan"} \cup AlertStages
      BY <2>7, <2>3 DEF WorkerClosingWait, Go, Over, WorkersGone, HTTPGone, ResultsGone
    <3> QED
      BY <2>1, <2>2, <3>1, <3>2 DEF Order, OverIsEmpty, StagesNeverPanic
  <2>8. CASE ShutdownServer \/ CloseJobChan \/ CloseResultChan \/ CloseAlertChan \/ Exit
    <3>1. \A s \in Stages : Over(s)' => Over(s)
      BY <2>8, <2>3 DEF ShutdownServer, CloseJobChan, CloseResultChan, CloseAlertChan, Exit,
         Go, Over, WorkersGone, HTTPGone, ResultsGone, AlertsGone
    <3> QED
      BY <2>1, <2>2, <3>1 DEF Order, OverIsEmpty, StagesNeverPanic
  <2> QED
    BY <1>13, <2>4, <2>5, <2>6, <2>7, <2>8 DEF MainStep
<1>14. CASE UNCHANGED vars
  BY <1>1, <1>14 DEF vars
<1> QED
  BY <1>2, <1>3, <1>4, <1>5, <1>6, <1>7, <1>8, <1>9, <1>10, <1>11, <1>12, <1>13, <1>14,
     <1>15
  DEF Next, SchedulerStep, ExecutorStep, ResultStep

\* The order holds throughout.
LEMMA Ordered == Spec => []Order
<1>1. Init => Order
  BY DEF Init, Order, CloseOrder, OverIsEmpty, StagesNeverPanic, WorkersGone,
     HTTPGone, ResultsGone, AlertsGone
<1> QED
  BY <1>1, TypeCorrect, OrderStep, PTL DEF Spec

\* No HTTP goroutine, router or failure worker ever sends on a closed channel.
THEOREM NoStagePanics == Spec => []StagesNeverPanic
  BY Ordered, PTL DEF Order

\* When main closes the Redis client every channel and every pool is empty, the failure
\* workers with deferred calls to make and the alert workers included, for any sizes.
THEOREM Drained == Spec => []DrainedBeforeExit
<1>1. Order => DrainedBeforeExit
  <2> SUFFICES ASSUME Order, main \in AlertsGone, NEW s \in Stages \ {"batch"}
               PROVE  at[s] = 0
    BY DEF DrainedBeforeExit, None, AlertsGone
  <2>1. Over(s)
    BY StageList DEF Order, CloseOrder, Over, RouterGone, WorkersGone, HTTPGone,
       ResultsGone, AlertsGone, WorkerStages, HTTPStages, RouterStages, ResultStages,
       AlertStages
  <2> QED
    BY <2>1 DEF Order, OverIsEmpty
<1> QED
  BY <1>1, Ordered, PTL

-----------------------------------------------------------------------------
(* The drain comes to an end *)

\* The work that is not with the messages.
OtherWork == MainWork + One("failureChan" \notin closed) + One("successChan" \notin closed)
             + One(scheduler = "running") + One(panicked = "none")

\* The work that is with them.
MessageWork == JobWork + RouterWork + ResultWork + AlertWork

\* The parts of the work are numbers, before and after a step.
LEMMA WorkParts ==
    ASSUME TypeOK, TypeOK'
    PROVE  /\ JobWork \in Nat /\ RouterWork \in Nat /\ ResultWork \in Nat
           /\ JobWork' \in Nat /\ RouterWork' \in Nat /\ ResultWork' \in Nat
           /\ AlertWork \in Nat /\ AlertWork' \in Nat
<1>1. \A s \in Stages : at[s] \in Nat /\ at'[s] \in Nat
  BY DEF TypeOK
<1>2. JobWork \in Nat
  BY <1>1, StageList DEF JobWork
<1>3. JobWork' \in Nat
  BY <1>1, StageList DEF JobWork
<1>4. RouterWork \in Nat /\ RouterWork' \in Nat
  BY <1>1, StageList DEF RouterWork
<1>5. ResultWork \in Nat
  BY <1>1, StageList DEF ResultWork
<1>6. ResultWork' \in Nat
  BY <1>1, StageList DEF ResultWork
<1>7. AlertWork \in Nat /\ AlertWork' \in Nat
  BY <1>1, StageList DEF AlertWork
<1> QED
  BY <1>2, <1>3, <1>4, <1>5, <1>6, <1>7

\* And so are their sums.
LEMMA WorkType ==
    ASSUME TypeOK, TypeOK'
    PROVE  /\ MessageWork \in Nat /\ MessageWork' \in Nat
           /\ MainWork \in Nat /\ MainWork' \in Nat
           /\ OtherWork \in Nat /\ OtherWork' \in Nat
           /\ Work = MessageWork + OtherWork /\ Work' = MessageWork' + OtherWork'
<1>2. MessageWork \in Nat /\ MessageWork' \in Nat
  BY WorkParts DEF MessageWork
<1>3. MainWork \in Nat /\ MainWork' \in Nat
  BY DEF MainWork, TypeOK, MainSteps
<1>4. /\ One("failureChan" \notin closed) \in Nat /\ One("failureChan" \notin closed') \in Nat
      /\ One("successChan" \notin closed) \in Nat /\ One("successChan" \notin closed') \in Nat
      /\ One(scheduler = "running") \in Nat /\ One(scheduler' = "running") \in Nat
      /\ One(panicked = "none") \in Nat /\ One(panicked' = "none") \in Nat
  BY DEF One
<1>5. OtherWork \in Nat /\ OtherWork' \in Nat
  BY <1>3, <1>4 DEF OtherWork
<1>6. Work = MessageWork + OtherWork
  BY <1>3, <1>4, WorkParts DEF Work, OtherWork, MessageWork
<1>7. Work' = MessageWork' + OtherWork'
  BY <1>3, <1>4, WorkParts DEF Work, OtherWork, MessageWork
<1> QED
  BY <1>2, <1>3, <1>5, <1>6, <1>7

\* The stages of each part, and the hops a message makes.
JobStages   == {"batch", "jobChan"} \cup WorkerStages \cup HTTPStages
RouterParts == {"resultChan"} \cup RouterStages
ResultParts == {"successChan", "failureChan", "success", "failure", "lateSuccess",
                "lateFailure"}
AlertParts  == {"alerting", "alertChan", "alerted", "handlingAlert"}
Hops == {<<"jobChan", "loading">>, <<"jobChan", "lateLoad">>,
         <<"loading", "acquiring">>, <<"acquiring", "checking">>,
         <<"checking", "sending">>, <<"batch", "jobChan">>,
         <<"sending", "resultChan">>, <<"resultChan", "routeSuccess">>,
         <<"resultChan", "routeFailure">>, <<"routeSuccess", "successChan">>,
         <<"routeFailure", "failureChan">>, <<"successChan", "success">>,
         <<"successChan", "lateSuccess">>,
         <<"failureChan", "failure">>, <<"failureChan", "lateFailure">>,
         <<"failure", "alerting">>, <<"alertChan", "handlingAlert">>}

\* A part of the work in which no stage changes is the same.
LEMMA SameWork ==
    /\ (\A s \in JobStages : at'[s] = at[s]) => JobWork' = JobWork
    /\ (\A s \in RouterParts : at'[s] = at[s]) => RouterWork' = RouterWork
    /\ (\A s \in ResultParts : at'[s] = at[s]) => ResultWork' = ResultWork
    /\ (\A s \in AlertParts : at'[s] = at[s]) => AlertWork' = AlertWork
<1>1. (\A s \in JobStages : at'[s] = at[s]) => JobWork' = JobWork
  BY DEF JobStages, WorkerStages, HTTPStages, JobWork
<1>2. (\A s \in RouterParts : at'[s] = at[s]) => RouterWork' = RouterWork
  BY DEF RouterParts, RouterStages, RouterWork
<1>3. (\A s \in ResultParts : at'[s] = at[s]) => ResultWork' = ResultWork
  BY DEF ResultParts, ResultWork
<1>4. (\A s \in AlertParts : at'[s] = at[s]) => AlertWork' = AlertWork
  BY DEF AlertParts, AlertWork
<1> QED
  BY <1>1, <1>2, <1>3, <1>4

\* The four parts have no stage in common.
LEMMA PartsApart ==
    /\ \A s \in JobStages : s \in Stages \ (RouterParts \cup ResultParts \cup AlertParts)
    /\ \A s \in RouterParts : s \in Stages \ (JobStages \cup ResultParts \cup AlertParts)
    /\ \A s \in ResultParts : s \in Stages \ (JobStages \cup RouterParts \cup AlertParts)
    /\ \A s \in AlertParts : s \in Stages \ (JobStages \cup RouterParts \cup ResultParts)
  BY StageList DEF JobStages, RouterParts, ResultParts, AlertParts, WorkerStages, HTTPStages,
     RouterStages

\* A message that advances to a later stage makes less work.
LEMMA HopWork ==
    ASSUME TypeOK, TypeOK', NEW from \in Stages, NEW to \in Stages, <<from, to>> \in Hops,
           at[from] > 0, Advance(from, to)
    PROVE  MessageWork' < MessageWork
<1>t. \A s \in Stages : at[s] \in Nat
  BY DEF TypeOK
<1>h. from # to
  BY DEF Hops
<1>a. /\ at'[from] = at[from] - 1 /\ at'[to] = at[to] + 1
      /\ \A s \in Stages \ {from, to} : at'[s] = at[s]
  BY <1>h, AdvanceFacts DEF TypeOK
<1>j. ASSUME from \in JobStages, to \in JobStages, JobWork' < JobWork
      PROVE  MessageWork' < MessageWork
  <2>1. RouterWork' = RouterWork /\ ResultWork' = ResultWork /\ AlertWork' = AlertWork
    BY <1>j, <1>a, SameWork, PartsApart
  <2> QED
    BY <1>j, <2>1, WorkParts DEF MessageWork
<1>r. ASSUME from \in RouterParts, to \in RouterParts, RouterWork' < RouterWork
      PROVE  MessageWork' < MessageWork
  <2>1. JobWork' = JobWork /\ ResultWork' = ResultWork /\ AlertWork' = AlertWork
    BY <1>r, <1>a, SameWork, PartsApart
  <2> QED
    BY <1>r, <2>1, WorkParts DEF MessageWork
<1>w. ASSUME from \in ResultParts, to \in ResultParts, ResultWork' < ResultWork
      PROVE  MessageWork' < MessageWork
  <2>1. JobWork' = JobWork /\ RouterWork' = RouterWork /\ AlertWork' = AlertWork
    BY <1>w, <1>a, SameWork, PartsApart
  <2> QED
    BY <1>w, <2>1, WorkParts DEF MessageWork
<1>1. CASE from = "jobChan" /\ to = "loading"
  <2>1. JobWork' < JobWork
    BY <1>1, <1>a, <1>t, StageList DEF JobWork
  <2> QED
    BY <1>1, <2>1, <1>j DEF JobStages, WorkerStages, HTTPStages
<1>2. CASE from = "jobChan" /\ to = "lateLoad"
  <2>1. JobWork' < JobWork
    BY <1>2, <1>a, <1>t, StageList DEF JobWork
  <2> QED
    BY <1>2, <2>1, <1>j DEF JobStages, WorkerStages, HTTPStages
<1>3. CASE from = "loading" /\ to = "acquiring"
  <2>1. JobWork' < JobWork
    BY <1>3, <1>a, <1>t, StageList DEF JobWork
  <2> QED
    BY <1>3, <2>1, <1>j DEF JobStages, WorkerStages, HTTPStages
<1>4. CASE from = "acquiring" /\ to = "checking"
  <2>1. JobWork' < JobWork
    BY <1>4, <1>a, <1>t, StageList DEF JobWork
  <2> QED
    BY <1>4, <2>1, <1>j DEF JobStages, WorkerStages, HTTPStages
<1>5. CASE from = "checking" /\ to = "sending"
  <2>1. JobWork' < JobWork
    BY <1>5, <1>a, <1>t, StageList DEF JobWork
  <2> QED
    BY <1>5, <2>1, <1>j DEF JobStages, WorkerStages, HTTPStages
<1>6. CASE from = "batch" /\ to = "jobChan"
  <2>1. JobWork' < JobWork
    BY <1>6, <1>a, <1>t, StageList DEF JobWork
  <2> QED
    BY <1>6, <2>1, <1>j DEF JobStages, WorkerStages, HTTPStages
<1>7. CASE from = "resultChan" /\ to = "routeSuccess"
  <2>1. RouterWork' < RouterWork
    BY <1>7, <1>a, <1>t, StageList DEF RouterWork
  <2> QED
    BY <1>7, <2>1, <1>r DEF RouterParts, RouterStages
<1>8. CASE from = "resultChan" /\ to = "routeFailure"
  <2>1. RouterWork' < RouterWork
    BY <1>8, <1>a, <1>t, StageList DEF RouterWork
  <2> QED
    BY <1>8, <2>1, <1>r DEF RouterParts, RouterStages
<1>9. CASE from = "successChan" /\ to = "success"
  <2>1. ResultWork' < ResultWork
    BY <1>9, <1>a, <1>t, StageList DEF ResultWork
  <2> QED
    BY <1>9, <2>1, <1>w DEF ResultParts
<1>10. CASE from = "successChan" /\ to = "lateSuccess"
  <2>1. ResultWork' < ResultWork
    BY <1>10, <1>a, <1>t, StageList DEF ResultWork
  <2> QED
    BY <1>10, <2>1, <1>w DEF ResultParts
<1>11. CASE from = "failureChan" /\ to = "failure"
  <2>1. ResultWork' < ResultWork
    BY <1>11, <1>a, <1>t, StageList DEF ResultWork
  <2> QED
    BY <1>11, <2>1, <1>w DEF ResultParts
<1>12. CASE from = "failureChan" /\ to = "lateFailure"
  <2>1. ResultWork' < ResultWork
    BY <1>12, <1>a, <1>t, StageList DEF ResultWork
  <2> QED
    BY <1>12, <2>1, <1>w DEF ResultParts
<1>13. CASE from = "failure" /\ to = "alerting"
  <2>1. ResultWork' = ResultWork - 5
    BY <1>13, <1>a, <1>t, StageList DEF ResultWork
  <2>2. AlertWork' = AlertWork + 4
    BY <1>13, <1>a, <1>t, StageList DEF AlertWork
  <2>3. JobWork' = JobWork /\ RouterWork' = RouterWork
    BY <1>13, <1>a, SameWork, PartsApart DEF ResultParts, AlertParts
  <2> QED
    BY <2>1, <2>2, <2>3, WorkParts DEF MessageWork
<1>14. CASE from = "alertChan" /\ to = "handlingAlert"
  <2>1. AlertWork' < AlertWork
    BY <1>14, <1>a, <1>t, StageList DEF AlertWork
  <2>2. JobWork' = JobWork /\ RouterWork' = RouterWork /\ ResultWork' = ResultWork
    BY <1>14, <1>a, SameWork, PartsApart DEF AlertParts
  <2> QED
    BY <2>1, <2>2, WorkParts DEF MessageWork
<1>15. CASE from = "sending" /\ to = "resultChan"
  <2>1. JobWork' = JobWork - 9
    BY <1>15, <1>a, <1>t, StageList DEF JobWork
  <2>2. RouterWork' = RouterWork + 8
    BY <1>15, <1>a, <1>t, StageList DEF RouterWork
  <2>3. ResultWork' = ResultWork /\ AlertWork' = AlertWork
    BY <1>15, <1>a, SameWork, PartsApart DEF JobStages, HTTPStages, RouterParts
  <2> QED
    BY <2>1, <2>2, <2>3, WorkParts DEF MessageWork
<1>16. CASE \/ from = "routeSuccess" /\ to = "successChan"
            \/ from = "routeFailure" /\ to = "failureChan"
  <2>1. RouterWork' = RouterWork - 7
    BY <1>16, <1>a, <1>t, StageList DEF RouterWork
  <2>2. ResultWork' = ResultWork + 6
    <3>1. /\ at'[to] = at[to] + 1 /\ to \in {"successChan", "failureChan"}
          /\ \A s \in ResultParts \ {to} : at'[s] = at[s]
          /\ \A s \in ResultParts : at[s] \in Nat
      BY <1>16, <1>a, <1>t, PartsApart DEF RouterParts, RouterStages
    <3>2. PICK n \in Nat : n = at["successChan"] + at["failureChan"]
      BY <3>1 DEF ResultParts
    <3>3. PICK k \in Nat :
             k = at["success"] + at["failure"] + at["lateSuccess"] + at["lateFailure"]
      BY <3>1 DEF ResultParts
    <3>4. at'["successChan"] + at'["failureChan"] = n + 1
      BY <3>1, <3>2 DEF ResultParts
    <3>5. at'["success"] + at'["failure"] + at'["lateSuccess"] + at'["lateFailure"] = k
      BY <3>1, <3>3 DEF ResultParts
    <3>6. ResultWork = 6 * n + 5 * k /\ ResultWork' = 6 * (n + 1) + 5 * k
      BY <3>2, <3>3, <3>4, <3>5, Zenon DEF ResultWork
    <3> QED
      BY <3>6
  <2>3. JobWork' = JobWork /\ AlertWork' = AlertWork
    BY <1>16, <1>a, SameWork, PartsApart DEF RouterParts, RouterStages, ResultParts
  <2> QED
    BY <2>1, <2>2, <2>3, WorkParts DEF MessageWork
<1> QED
  BY <1>1, <1>2, <1>3, <1>4, <1>5, <1>6, <1>7, <1>8, <1>9, <1>10,
     <1>11, <1>12, <1>13, <1>14, <1>15, <1>16 DEF Hops

\* A message that is done with makes less work.
LEMMA DoneWork ==
    ASSUME TypeOK, TypeOK', NEW from \in Stages, at'[from] < at[from],
           from \in {"batch", "loading", "lateLoad", "success", "failure", "lateSuccess",
                     "lateFailure", "alerted", "handlingAlert"},
           \A s \in Stages \ {from} : at'[s] = at[s]
    PROVE  MessageWork' < MessageWork
<1>t. \A s \in Stages : at[s] \in Nat /\ at'[s] \in Nat
  BY DEF TypeOK
<1>j. ASSUME from \in {"batch", "loading", "lateLoad"}, JobWork' < JobWork
      PROVE  MessageWork' < MessageWork
  <2>1. RouterWork' = RouterWork /\ ResultWork' = ResultWork /\ AlertWork' = AlertWork
    BY <1>j, SameWork, PartsApart DEF JobStages, WorkerStages
  <2> QED
    BY <1>j, <2>1, WorkParts DEF MessageWork
<1>w. ASSUME from \in {"success", "failure", "lateSuccess", "lateFailure"},
             ResultWork' < ResultWork
      PROVE  MessageWork' < MessageWork
  <2>1. JobWork' = JobWork /\ RouterWork' = RouterWork /\ AlertWork' = AlertWork
    BY <1>w, SameWork, PartsApart DEF ResultParts
  <2> QED
    BY <1>w, <2>1, WorkParts DEF MessageWork
<1>l. ASSUME from \in {"alerted", "handlingAlert"}, AlertWork' < AlertWork
      PROVE  MessageWork' < MessageWork
  <2>1. JobWork' = JobWork /\ RouterWork' = RouterWork /\ ResultWork' = ResultWork
    BY <1>l, SameWork, PartsApart DEF AlertParts
  <2> QED
    BY <1>l, <2>1, WorkParts DEF MessageWork
<1>1. CASE from = "batch"
  BY <1>1, <1>j, <1>t, StageList DEF JobWork
<1>2. CASE from = "loading"
  BY <1>2, <1>j, <1>t, StageList DEF JobWork
<1>3. CASE from = "lateLoad"
  BY <1>3, <1>j, <1>t, StageList DEF JobWork
<1>4. CASE from = "success"
  BY <1>4, <1>w, <1>t, StageList DEF ResultWork
<1>5. CASE from = "failure"
  BY <1>5, <1>w, <1>t, StageList DEF ResultWork
<1>6. CASE from = "lateSuccess"
  BY <1>6, <1>w, <1>t, StageList DEF ResultWork
<1>7. CASE from = "lateFailure"
  BY <1>7, <1>w, <1>t, StageList DEF ResultWork
<1>8. CASE from = "alerted"
  BY <1>8, <1>l, <1>t, StageList DEF AlertWork
<1>9. CASE from = "handlingAlert"
  BY <1>9, <1>l, <1>t, StageList DEF AlertWork
<1> QED
  BY <1>1, <1>2, <1>3, <1>4, <1>5, <1>6, <1>7, <1>8, <1>9

\* A sent alert is one hop less, for the alert and for the worker together.
LEMMA SendAlertWork ==
    ASSUME TypeOK, TypeOK', at["alerting"] > 0,
           at'["alerting"] = at["alerting"] - 1, at'["alerted"] = at["alerted"] + 1,
           at'["alertChan"] = at["alertChan"] + 1,
           \A s \in Stages \ {"alerting", "alerted", "alertChan"} : at'[s] = at[s]
    PROVE  MessageWork' < MessageWork
<1>t. \A s \in Stages : at[s] \in Nat
  BY DEF TypeOK
<1>1. AlertWork' < AlertWork
  BY <1>t, StageList DEF AlertWork
<1>2. JobWork' = JobWork /\ RouterWork' = RouterWork /\ ResultWork' = ResultWork
  BY SameWork, PartsApart DEF AlertParts
<1> QED
  BY <1>1, <1>2, WorkParts DEF MessageWork

\* A step that takes a message on to a later stage, or out of the system, is progress.
LEMMA MessageAdvances ==
    ASSUME TypeOK, TypeOK', MessageWork' < MessageWork, UNCHANGED <<control, panicked>>
    PROVE  Work' < Work
<1>1. OtherWork' = OtherWork
  BY DEF OtherWork, MainWork, control
<1> QED
  BY <1>1, WorkType

\* And so is any other step of the drain, which leaves the messages where they are.
LEMMA OthersAdvance ==
    ASSUME TypeOK, TypeOK', OtherWork' < OtherWork, UNCHANGED at
    PROVE  Work' < Work
<1>1. MessageWork' = MessageWork
  BY SameWork DEF MessageWork
<1> QED
  BY <1>1, WorkType

\* So is a panic, the last step of all.
LEMMA PanicAdvances ==
    ASSUME TypeOK, TypeOK', panicked = "none", UNCHANGED <<others, at>>,
           NEW c \in Channels, panicked' = c
    PROVE  Work' < Work
<1>1. One(panicked' = "none") < One(panicked = "none") /\ MainWork' = MainWork
  BY DEF One, Channels, MainWork, others, control
<1>2. MainWork \in Nat
  BY DEF MainWork, TypeOK, MainSteps
<1>3. OtherWork' < OtherWork
  BY <1>1, <1>2 DEF OtherWork, One, others, control
<1> QED
  BY <1>3, OthersAdvance

\* A send is progress: the message is in the channel, or the process has panicked.
LEMMA SendAdvances ==
    ASSUME TypeOK, TypeOK', panicked = "none", UNCHANGED others,
           NEW from \in Stages, NEW c \in Channels, from # c, Send(from, c),
           Advance(from, c) => MessageWork' < MessageWork
    PROVE  Work' < Work
<1>1. CASE panicked' = c /\ at' = at
  BY <1>1, PanicAdvances
<1>2. CASE Advance(from, c) /\ UNCHANGED panicked
  BY <1>2, MessageAdvances DEF others
<1> QED
  BY <1>1, <1>2 DEF Send, Panic

\* From the signal on every step makes less of the work.
LEMMA DrainStep == TypeOK /\ TypeOK' /\ [Next]_vars /\ signalled => Work' < Work \/ UNCHANGED vars
<1> SUFFICES ASSUME TypeOK, TypeOK', Next, signalled PROVE Work' < Work
  OBVIOUS
<1>a. at \in [Stages -> Nat] /\ \A s \in Stages : at[s] \in Nat
  BY DEF TypeOK
<1>1. CASE Signal \/ Fetch
  BY <1>1 DEF Signal, Fetch
<1>2. CASE LeaveBatch
  <2>1. at'["batch"] < at["batch"] /\ \A s \in Stages \ {"batch"} : at'[s] = at[s]
    BY <1>2, <1>a, StageList DEF LeaveBatch
  <2>2. MessageWork' < MessageWork
    BY <2>1, DoneWork, StageList
  <2> QED
    BY <1>2, <2>2, MessageAdvances DEF LeaveBatch, others
<1>3. ASSUME NEW from \in {"batch", "loading", "lateLoad", "success", "failure", "lateSuccess",
                           "lateFailure", "alerted", "handlingAlert"},
             at[from] > 0, Finish(from), UNCHANGED <<control, panicked>>
      PROVE  Work' < Work
  <2>1. from \in Stages
    BY StageList
  <2>2. at'[from] < at[from] /\ \A s \in Stages \ {from} : at'[s] = at[s]
    BY <1>3, <1>a, <2>1, FinishFacts
  <2> QED
    BY <1>3, <2>1, <2>2, DoneWork, MessageAdvances
<1>4. CASE Backpressure \/ NotLoaded \/ Handled \/ HandleAlert
  <2>1. CASE Backpressure \/ HandleAlert
    BY <1>3, <2>1 DEF Backpressure, HandleAlert, others
  <2>2. CASE NotLoaded \/ Handled
    BY <1>3, <2>2, DoneFacts DEF ResultStages
  <2> QED
    BY <1>4, <2>1, <2>2
<1>5. ASSUME NEW from \in Stages, NEW to \in Stages, <<from, to>> \in Hops, at[from] > 0,
             Advance(from, to), UNCHANGED <<others, panicked>>
      PROVE  Work' < Work
  BY <1>5, HopWork, MessageAdvances DEF others
<1>6. CASE TakeJob \/ Loaded \/ AcquireSemaphore \/ ExecuteHTTPCheck
  BY <1>5, <1>6, StageList DEF TakeJob, Loaded, AcquireSemaphore, ExecuteHTTPCheck, Hops
<1>7. CASE RouterTakes \/ TakeSuccess \/ TakeFailure \/ MarkAlerted \/ TakeAlert
  BY <1>5, <1>7, StageList DEF RouterTakes, TakeSuccess, TakeFailure, MarkAlerted, TakeAlert,
     Hops, RouterStages
<1>8. ASSUME NEW from \in Stages, NEW c \in Channels, <<from, c>> \in Hops, Send(from, c),
             Alive, UNCHANGED others
      PROVE  Work' < Work
  <2>1. from # c /\ at[from] > 0 /\ c \in Stages
    BY <1>8, SizeType DEF Send, Hops
  <2>2. Advance(from, c) => MessageWork' < MessageWork
    BY <1>8, <2>1, HopWork
  <2> QED
    BY <1>8, <2>1, <2>2, SendAdvances DEF Alive
<1>9. CASE SendJob \/ SendResult \/ Route
  BY <1>8, <1>9, StageList DEF SendJob, SendResult, Route, Channels, Hops
<1>13. CASE SendAlert
  <2>1. panicked = "none" /\ UNCHANGED others
    BY <1>13 DEF SendAlert, Alive
  <2>2. CASE panicked' = "alertChan" /\ at' = at
    BY <2>1, <2>2, PanicAdvances DEF Channels
  <2>3. CASE /\ at["alerting"] > 0 /\ panicked' = panicked
             /\ at'["alerting"] = at["alerting"] - 1
             /\ at'["alerted"] = at["alerted"] + 1 /\ at'["alertChan"] = at["alertChan"] + 1
             /\ \A s \in Stages \ {"alerting", "alerted", "alertChan"} : at'[s] = at[s]
    BY <2>1, <2>3, SendAlertWork, MessageAdvances DEF others
  <2> QED
    BY <1>13, <1>a, <2>2, <2>3, SendAlertFacts
<1>10. CASE StopScheduler
  <2>1. /\ main' = main /\ closed' = closed /\ panicked' = panicked
        /\ scheduler = "running" /\ scheduler' = "stopped" /\ at' = at
    BY <1>10 DEF StopScheduler
  <2>2. MainWork' = MainWork
    BY <2>1 DEF MainWork
  <2>3. OtherWork' < OtherWork
    BY <2>1, <2>2, WorkType DEF OtherWork, One
  <2> QED
    BY <2>1, <2>3, OthersAdvance
<1>11. CASE RouterEnds
  <2>1. main' = main /\ scheduler' = scheduler /\ panicked' = panicked /\ at' = at
    BY <1>11 DEF RouterEnds
  <2>2. MainWork' = MainWork
    BY <2>1 DEF MainWork
  <2>3. \/ /\ "failureChan" \notin closed /\ "failureChan" \in closed'
           /\ "successChan" \notin closed' <=> "successChan" \notin closed
        \/ /\ "successChan" \notin closed /\ "successChan" \in closed'
           /\ "failureChan" \notin closed' <=> "failureChan" \notin closed
    BY <1>11 DEF RouterEnds
  <2>4. OtherWork' < OtherWork
    BY <2>1, <2>2, <2>3, WorkType DEF OtherWork, One
  <2> QED
    BY <2>1, <2>4, OthersAdvance
<1>12. CASE MainStep
  <2>1. /\ UNCHANGED <<scheduler, at, panicked>>
        /\ "failureChan" \notin closed' <=> "failureChan" \notin closed
        /\ "successChan" \notin closed' <=> "successChan" \notin closed
    BY <1>12 DEF MainStep, ShutdownServer, CloseJobChan, WaitWorkers, WaitHTTP,
       CloseResultChan, WorkersClosingWait, CloseAlertChan, WorkerClosingWait, Exit, Go, Close
  <2>2. MainWork' < MainWork
    <3>1. CASE ShutdownServer
      <4>1. main = "running" /\ main' = "closeJobs"
        BY <3>1 DEF ShutdownServer, Go
      <4> QED
        BY <4>1 DEF MainWork
    <3>2. CASE CloseJobChan
      <4>1. main = "closeJobs" /\ main' = "waitWorkers"
        BY <3>2 DEF CloseJobChan, Go
      <4> QED
        BY <4>1 DEF MainWork
    <3>3. CASE WaitWorkers
      <4>1. main = "waitWorkers" /\ main' = "waitHTTP"
        BY <3>3 DEF WaitWorkers, Go
      <4> QED
        BY <4>1 DEF MainWork
    <3>4. CASE WaitHTTP
      <4>1. main = "waitHTTP" /\ main' = "closeResults"
        BY <3>4 DEF WaitHTTP, Go
      <4> QED
        BY <4>1 DEF MainWork
    <3>5. CASE CloseResultChan
      <4>1. main = "closeResults" /\ main' = "waitResults"
        BY <3>5 DEF CloseResultChan, Go
      <4> QED
        BY <4>1 DEF MainWork
    <3>6. CASE WorkersClosingWait
      <4>1. main = "waitResults" /\ main' = "closeAlerts"
        BY <3>6 DEF WorkersClosingWait, Go
      <4> QED
        BY <4>1 DEF MainWork
    <3>7. CASE CloseAlertChan
      <4>1. main = "closeAlerts" /\ main' = "waitAlerts"
        BY <3>7 DEF CloseAlertChan, Go
      <4> QED
        BY <4>1 DEF MainWork
    <3>8. CASE WorkerClosingWait
      <4>1. main = "waitAlerts" /\ main' = "closeRedis"
        BY <3>8 DEF WorkerClosingWait, Go
      <4> QED
        BY <4>1 DEF MainWork
    <3>9. CASE Exit
      <4>1. main = "closeRedis" /\ main' = "exited"
        BY <3>9 DEF Exit, Go
      <4> QED
        BY <4>1 DEF MainWork
    <3> QED
      BY <1>12, <3>1, <3>2, <3>3, <3>4, <3>5, <3>6, <3>7, <3>8, <3>9 DEF MainStep
  <2>3. OtherWork' < OtherWork
    BY <2>1, <2>2, WorkType DEF OtherWork, One
  <2> QED
    BY <2>1, <2>3, OthersAdvance
<1> QED
  BY <1>1, <1>2, <1>4, <1>6, <1>7, <1>9, <1>10, <1>11, <1>12, <1>13
  DEF Next, SchedulerStep, ExecutorStep, ResultStep

\* After the signal no run of the process is longer than the work it has left.
THEOREM DrainIsFinite == Spec => DrainAdvances
<1>1. TypeOK /\ TypeOK' /\ [Next]_vars => [signalled => Work' < Work]_vars
  BY DrainStep
<1> QED
  BY <1>1, TypeCorrect, PTL DEF Spec, DrainAdvances
-----------------------------------------------------------------------------
(* The drain never gets stuck *)

\* Main waits for goroutines only after it has closed the channel that ends them.
WaitsClosed ==
    /\ main = "waitWorkers" => "jobChan" \in closed
    /\ main = "waitResults" => "resultChan" \in closed
    /\ main = "waitAlerts" => "alertChan" \in closed

\* Every step keeps it so: no channel is reopened.
LEMMA WaitsClosedStep == WaitsClosed /\ [Next]_vars => WaitsClosed'
<1> SUFFICES ASSUME WaitsClosed, [Next]_vars PROVE WaitsClosed'
  OBVIOUS
<1>1. CASE MainStep
  BY <1>1 DEF MainStep, ShutdownServer, CloseJobChan, WaitWorkers, WaitHTTP, CloseResultChan,
     WorkersClosingWait, CloseAlertChan, WorkerClosingWait, Exit, Go, Close, WaitsClosed
<1>2. CASE RouterEnds
  BY <1>2 DEF RouterEnds, WaitsClosed
<1>3. ASSUME UNCHANGED <<main, closed>> PROVE WaitsClosed'
  BY <1>3 DEF WaitsClosed
<1>4. CASE Signal \/ SchedulerStep
  BY <1>3, <1>4 DEF Signal, SchedulerStep, Fetch, SendJob, LeaveBatch, Backpressure,
     StopScheduler, others, control
<1>5. CASE ExecutorStep
  BY <1>3, <1>5 DEF ExecutorStep, TakeJob, Loaded, NotLoaded, AcquireSemaphore,
     ExecuteHTTPCheck, SendResult, others, control
<1>6. CASE RouterTakes \/ Route \/ TakeSuccess \/ TakeFailure \/ Handled \/ MarkAlerted
           \/ SendAlert \/ TakeAlert \/ HandleAlert
  BY <1>3, <1>6 DEF RouterTakes, Route, TakeSuccess, TakeFailure, Handled, MarkAlerted,
     SendAlert, TakeAlert, HandleAlert, others, control
<1>7. CASE UNCHANGED vars
  BY <1>3, <1>7 DEF vars, others, control
<1> QED
  BY <1>1, <1>2, <1>4, <1>5, <1>6, <1>7 DEF Next, ResultStep

\* A send from a stage that holds a message into an empty channel is never held up.
LEMMA RoomInEmpty ==
    ASSUME TypeOK, NEW from \in Stages, NEW c \in Channels, at[c] = 0, ~CanSend(from, c)
    PROVE  at[from] = 0
<1>1. Size(c) > 0 /\ Size(c) \in Nat
  BY ShutdownAssumption DEF Channels, Size
<1> QED
  BY <1>1 DEF CanSend, TypeOK

\* If the scheduler, the executor and the result processor can do nothing, every stage is
\* empty: the last ones first, then those that only waited for room in front of them.
LEMMA IdleIsEmpty ==
    ASSUME TypeOK, ~SchedulerCan, ~ExecutorCan, ~ResultCan
    PROVE  \A s \in Stages : at[s] = 0
<1>t. \A s \in Stages : at[s] \in Nat
  BY DEF TypeOK
<1>1. at["batch"] = 0
  BY <1>t, StageList DEF SchedulerCan
<1>2. /\ at["handlingAlert"] = 0 /\ at["success"] = 0 /\ at["failure"] = 0
      /\ at["lateSuccess"] = 0 /\ at["lateFailure"] = 0 /\ at["alerted"] = 0
  BY DEF ResultCan, None, ResultStages, AlertStages
<1>c. at["alertChan"] = 0
  <2>1. ~(at["alertChan"] > 0 /\ at["handlingAlert"] < AlertWorkerCount)
    BY DEF ResultCan
  <2> QED
    BY <1>t, <1>2, <2>1, StageList, ShutdownAssumption
<1>3. at["alerting"] = 0
  <2>1. ~CanSend("alerting", "alertChan")
    BY DEF ResultCan
  <2> QED
    BY <1>c, <2>1, RoomInEmpty, StageList DEF Channels
<1>4. at["successChan"] = 0 /\ at["failureChan"] = 0
  <2>1. ~(at["successChan"] > 0 /\ at["success"] + at["lateSuccess"] < SuccessWorkerCount)
    BY DEF ResultCan
  <2>2. ~(/\ at["failureChan"] > 0
          /\ at["failure"] + at["lateFailure"] + at["alerting"] + at["alerted"]
                < FailureWorkerCount)
    BY DEF ResultCan, FailureWorkerFree
  <2> QED
    BY <1>t, <1>2, <1>3, <2>1, <2>2, StageList, ShutdownAssumption
<1>5. at["routeSuccess"] = 0 /\ at["routeFailure"] = 0
  <2>1. ~CanSend("routeSuccess", "successChan") /\ ~CanSend("routeFailure", "failureChan")
    BY DEF ResultCan
  <2> QED
    BY <1>4, <2>1, RoomInEmpty, StageList DEF Channels
<1>6. at["resultChan"] = 0
  <2>1. ~(at["resultChan"] > 0 /\ None(RouterStages))
    BY DEF ResultCan
  <2> QED
    BY <1>t, <1>5, <2>1, StageList DEF None, RouterStages
<1>7. at["loading"] = 0 /\ at["lateLoad"] = 0 /\ at["checking"] = 0
  BY DEF ExecutorCan, None
<1>8. at["sending"] = 0
  <2>1. ~CanSend("sending", "resultChan")
    BY DEF ExecutorCan
  <2> QED
    BY <1>6, <2>1, RoomInEmpty, StageList DEF Channels
<1>9. at["acquiring"] = 0
  <2>1. ~(at["acquiring"] > 0 /\ at["checking"] + at["sending"] < HTTPSemCount)
    BY DEF ExecutorCan
  <2> QED
    BY <1>t, <1>7, <1>8, <2>1, StageList, ShutdownAssumption
<1>10. at["jobChan"] = 0
  <2>1. ~(at["jobChan"] > 0 /\ at["loading"] + at["lateLoad"] + at["acquiring"] < WorkerCount)
    BY DEF ExecutorCan
  <2> QED
    BY <1>t, <1>7, <1>9, <2>1, StageList, ShutdownAssumption
<1> QED
  BY <1>1, <1>2, <1>c, <1>3, <1>4, <1>5, <1>6, <1>7, <1>8, <1>9, <1>10, StageList

\* While the process drains somebody can always go on: main, if nobody else.
THEOREM NeverStuck == Spec => []DrainNeverStuck
<1>1. TypeOK /\ WaitsClosed => DrainNeverStuck
  <2> SUFFICES ASSUME TypeOK, WaitsClosed, Alive, ~SchedulerCan, ~ExecutorCan, ~ResultCan
               PROVE  MainCan
    BY DEF DrainNeverStuck
  <2>1. \A s \in Stages : at[s] = 0
    BY IdleIsEmpty
  <2>2. /\ None({"jobChan"} \cup WorkerStages) /\ None(HTTPStages)
        /\ None({"resultChan"} \cup RouterStages) /\ None({"alertChan"} \cup AlertStages)
        /\ None({"successChan", "failureChan"} \cup ResultStages)
    BY <2>1, StageList DEF None, WorkerStages, HTTPStages, RouterStages, ResultStages,
       AlertStages
  <2>3. "resultChan" \in closed => {"successChan", "failureChan"} \subseteq closed
    BY <2>2 DEF ResultCan
  <2> QED
    BY <2>2, <2>3 DEF MainCan, WaitsClosed, Alive, TypeOK, MainSteps
<1>2. Init => WaitsClosed
  BY DEF Init, WaitsClosed
<1> QED
  BY <1>1, <1>2, TypeCorrect, WaitsClosedStep, PTL DEF Spec
=============================================================================
