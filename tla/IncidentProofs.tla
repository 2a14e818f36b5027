--------------------------- MODULE IncidentProofs ---------------------------
(* Proofs about Incident, for any number of workers, faults and failures.     *)
EXTENDS Incident, TLAPS

-----------------------------------------------------------------------------
(* Type correctness *)

\* What Go and Return do to the handlers.
LEMMA GoFacts ==
    ASSUME TypeOK, NEW w \in Workers, handler[w].step \in Steps, NEW s \in Steps, Go(w, s)
    PROVE  /\ handler' \in [Workers -> {Idle} \cup [step: Steps, res: Results]]
           /\ handler'[w].step = s
           /\ \A v \in Workers \ {w} : handler'[v] = handler[v]
  <1>1. handler[w] \in [step: Steps, res: Results]
    BY DEF TypeOK, Idle, Steps, SuccessSteps, FailureSteps
  <1>2. [handler[w] EXCEPT !.step = s] \in [step: Steps, res: Results]
    BY <1>1
  <1>3. handler' = [handler EXCEPT ![w] = [handler[w] EXCEPT !.step = s]]
    BY DEF Go
  <1> QED
    BY <1>1, <1>2, <1>3 DEF TypeOK

\* Return makes one worker idle.
LEMMA ReturnFacts ==
    ASSUME TypeOK, NEW w \in Workers, Return(w)
    PROVE  /\ handler' \in [Workers -> {Idle} \cup [step: Steps, res: Results]]
           /\ handler'[w].step = "idle"
           /\ \A v \in Workers \ {w} : handler'[v] = handler[v]
  BY DEF TypeOK, Return, Idle

\* A fault keeps within its bound.
LEMMA FaultType ==
    ASSUME TypeOK, Fault
    PROVE  faults' \in 0 .. MaxFaults
  BY IncidentAssumption DEF Fault, TypeOK

\* The provers treat truth values and numbers apart, and so do the two parts of TypeOK.
Flags == /\ alerted \in BOOLEAN /\ dbIncident \in BOOLEAN /\ openRow \in BOOLEAN
         /\ stopped \in BOOLEAN /\ announced \in BOOLEAN /\ raced \in BOOLEAN
Counters == /\ failureCount \in Nat /\ retryCount \in Nat /\ alerts \in Nat
            /\ alertChan \in 0 .. AlertChannelSize /\ faults \in 0 .. MaxFaults
Handlers == handler \in [Workers -> {Idle} \cup [step: Steps, res: Results]]
Marked   == winners \subseteq Workers /\ orphaned \subseteq Workers

\* TypeOK is its parts, before and after a step.
LEMMA TypeParts ==
    /\ TypeOK <=> Flags /\ Counters /\ Handlers /\ Marked
    /\ TypeOK' <=> Flags' /\ Counters' /\ Handlers' /\ Marked'
  BY DEF TypeOK, Flags, Counters, Handlers, Marked

\* Every step adds workers to the two sets of the history, or removes some.
LEMMA MarkedStep == Marked /\ [Next]_vars => Marked'
<1> SUFFICES ASSUME Marked, [Next]_vars PROVE Marked'
  OBVIOUS
<1> USE DEF hash, history, Marked
<1>1. ASSUME NEW w \in Workers, Take(w) PROVE Marked'
  BY <1>1, Zenon DEF Take, TakeTerminal, TakeResult
<1>2. ASSUME NEW w \in Workers, GetIncident(w) \/ CloseIncident(w) \/ ClearRetry(w)
             \/ IncrementRetry(w) \/ ClearSpentRetry(w) \/ IncrementIncident(w)
             \/ MarkDBIncidentCreated(w) \/ CreateIncident(w)
      PROVE  Marked'
  BY <1>2, Zenon DEF GetIncident, CloseIncident, ClearRetry, IncrementRetry, ClearSpentRetry,
     IncrementIncident, MarkDBIncidentCreated, CreateIncident
<1>3. ASSUME DelIncident PROVE Marked'
  BY <1>3 DEF DelIncident
<1>4. ASSUME NEW w \in Workers, ClearIncident(w) PROVE Marked'
  BY <1>3, <1>4 DEF ClearIncident
<1>5. ASSUME NEW w \in Workers, MarkIncidentAlertedIfNotSet(w) PROVE Marked'
  <2>1. winners' \in {winners, winners \cup {w}} /\ orphaned' = orphaned \ {w}
    BY <1>5, Zenon DEF MarkIncidentAlertedIfNotSet
  <2> QED
    BY <2>1
<1>6. ASSUME NEW w \in Workers, SendAlert(w) PROVE Marked'
  <2>1. winners' = winners \ {w} /\ UNCHANGED orphaned
    BY <1>6, Zenon DEF SendAlert
  <2> QED
    BY <2>1
<1>7. CASE HandleAlerts \/ RetryExpires \/ UNCHANGED vars
  BY <1>7, Zenon DEF HandleAlerts, RetryExpires, vars
<1>8. CASE DisableMonitor
  BY <1>3, <1>8 DEF DisableMonitor
<1>9. CASE Crash
  BY <1>9 DEF Crash
<1> QED
  BY <1>1, <1>2, <1>4, <1>5, <1>6, <1>7, <1>8, <1>9, Zenon DEF Next, HandleStep

\* Every step keeps the types.
LEMMA TypeStep == TypeOK /\ [Next]_vars => TypeOK'
<1> SUFFICES ASSUME TypeOK, [Next]_vars PROVE TypeOK'
  OBVIOUS
<1> USE DEF hash, history
<1>t. Flags /\ Counters /\ Handlers /\ Marked
  BY TypeParts
<1>m. Marked'
  BY <1>t, MarkedStep
<1>s. Steps = {"getIncident", "closeIncident", "clearIncident", "clearRetry",
               "incrementRetry", "clearSpentRetry", "incrementIncident", "markAlerted",
               "markDBIncident", "createIncident", "sendAlert"}
  BY DEF Steps, SuccessSteps, FailureSteps
<1>1. ASSUME NEW w \in Workers, Take(w) PROVE TypeOK'
  <2>1. \A res \in Results : FirstStep(res) \in Steps
    BY <1>s DEF FirstStep, Results
  <2>2. \A res \in Results : [step |-> FirstStep(res), res |-> res] \in [step: Steps, res: Results]
    BY <2>1
  <2>3. Handlers'
    BY <1>1, <1>t, <2>2 DEF Take, TakeTerminal, TakeResult, Handlers
  <2>4. Counters'
    BY <1>1, <1>t DEF Take, TakeTerminal, TakeResult, Counters
  <2>5. Flags'
    <3>1. CASE TakeTerminal(w)
      BY <3>1, <1>t, Zenon DEF TakeTerminal, Flags
    <3>2. ASSUME NEW res \in Results, TakeResult(w, res) PROVE Flags'
      <4>1. raced' \in BOOLEAN
        BY <3>2, Zenon DEF TakeResult
      <4> QED
        BY <3>2, <4>1, <1>t, Zenon DEF TakeResult, Flags
    <3> QED
      BY <1>1, <3>1, <3>2 DEF Take
  <2> QED
    BY <2>3, <2>4, <2>5, <1>m, TypeParts
<1>2. ASSUME NEW w \in Workers,
             GetIncident(w) \/ CloseIncident(w) \/ ClearIncident(w) \/ ClearRetry(w)
      PROVE  TypeOK'
  <2>1. Handlers'
    BY <1>2, <1>s, GoFacts, ReturnFacts
    DEF GetIncident, CloseIncident, ClearIncident, ClearRetry, Handlers
  <2>2. Counters'
    BY <1>2, <1>t, FaultType
    DEF GetIncident, CloseIncident, ClearIncident, ClearRetry, DelIncident, Counters
  <2>3. Flags'
    BY <1>2, <1>t, Zenon
    DEF GetIncident, CloseIncident, CloseRows, ClearIncident, ClearRetry, DelIncident, Flags
  <2> QED
    BY <2>1, <2>2, <2>3, <1>m, TypeParts
<1>3. ASSUME NEW w \in Workers, IncrementRetry(w) \/ ClearSpentRetry(w) \/ IncrementIncident(w)
      PROVE  TypeOK'
  <2>1. Handlers'
    BY <1>3, <1>s, GoFacts, ReturnFacts
    DEF IncrementRetry, ClearSpentRetry, IncrementIncident, Handlers
  <2>2. faults' \in 0 .. MaxFaults
    BY <1>3, <1>t, FaultType DEF IncrementRetry, ClearSpentRetry, IncrementIncident, Counters
  <2>3. Counters'
    BY <1>3, <1>t, <2>2 DEF IncrementRetry, ClearSpentRetry, IncrementIncident, Counters
  <2>4. Flags'
    BY <1>3, <1>t, Zenon DEF IncrementRetry, ClearSpentRetry, IncrementIncident, Flags
  <2> QED
    BY <2>1, <2>3, <2>4, <1>m, TypeParts
<1>4. ASSUME NEW w \in Workers, MarkIncidentAlertedIfNotSet(w) \/ MarkDBIncidentCreated(w)
             \/ CreateIncident(w) \/ SendAlert(w)
      PROVE  TypeOK'
  <2>1. Handlers'
    BY <1>4, <1>s, GoFacts, ReturnFacts
    DEF MarkIncidentAlertedIfNotSet, MarkDBIncidentCreated, CreateIncident, SendAlert, Handlers
  <2>2. Counters'
    <3>1. faults' \in 0 .. MaxFaults
      BY <1>4, <1>t, FaultType, Zenon
      DEF MarkIncidentAlertedIfNotSet, MarkDBIncidentCreated, CreateIncident, SendAlert, Counters
    <3>2. UNCHANGED <<failureCount, retryCount>> /\ alerts' \in {alerts, alerts + 1}
      BY <1>4, Zenon
      DEF MarkIncidentAlertedIfNotSet, MarkDBIncidentCreated, CreateIncident, SendAlert
    <3>3. \/ UNCHANGED alertChan
          \/ alertChan < AlertChannelSize /\ alertChan' = alertChan + 1
      BY <1>4, Zenon
      DEF MarkIncidentAlertedIfNotSet, MarkDBIncidentCreated, CreateIncident, SendAlert
    <3> QED
      BY <1>t, <3>1, <3>2, <3>3, IncidentAssumption DEF Counters
  <2>3. Flags'
    <3>1. CASE MarkIncidentAlertedIfNotSet(w)
      <4>1. alerted' \in {alerted, TRUE}
        BY <3>1, Zenon DEF MarkIncidentAlertedIfNotSet
      <4> QED
        BY <3>1, <4>1, <1>t, Zenon DEF MarkIncidentAlertedIfNotSet, Flags
    <3>2. CASE MarkDBIncidentCreated(w)
      BY <3>2, <1>t, Zenon DEF MarkDBIncidentCreated, Flags
    <3>4. CASE SendAlert(w)
      <4>1. announced' \in BOOLEAN
        BY <3>4, Zenon DEF SendAlert
      <4> QED
        BY <3>4, <4>1, <1>t, Zenon DEF SendAlert, Flags
    <3>3. CASE CreateIncident(w)
      <4>1. openRow' = (openRow \/ handler[w].res = "failed") \/ UNCHANGED openRow
        BY <3>3, Zenon DEF CreateIncident, InsertRow, Storable
      <4>2. openRow' \in BOOLEAN
        BY <4>1, <1>t, Zenon DEF Flags
      <4> QED
        BY <3>3, <4>2, <1>t, Zenon DEF CreateIncident, Flags
    <3> QED
      BY <1>4, <3>1, <3>2, <3>3, <3>4
  <2> QED
    BY <2>1, <2>2, <2>3, <1>m, TypeParts
<1>5. CASE HandleAlerts \/ DisableMonitor \/ RetryExpires \/ Crash
  <2>1. Handlers'
    BY <1>5, <1>t DEF HandleAlerts, DisableMonitor, RetryExpires, Crash, Handlers
  <2>2. Counters'
    <3>1. faults' \in 0 .. MaxFaults
      BY <1>5, <1>t, FaultType, Zenon
      DEF HandleAlerts, DisableMonitor, RetryExpires, Crash, Counters
    <3>2. /\ failureCount' \in {failureCount, 0} /\ retryCount' \in {retryCount, 0}
          /\ alerts' \in {alerts, 0}
      BY <1>5, Zenon DEF HandleAlerts, DisableMonitor, DelIncident, RetryExpires, Crash
    <3>3. \/ alertChan' \in {alertChan, 0}
          \/ alertChan > 0 /\ alertChan' = alertChan - 1
      BY <1>5, Zenon DEF HandleAlerts, DisableMonitor, DelIncident, RetryExpires, Crash
    <3> QED
      BY <1>t, <3>1, <3>2, <3>3, IncidentAssumption DEF Counters
  <2>3. Flags'
    BY <1>5, <1>t, Zenon
    DEF HandleAlerts, DisableMonitor, DelIncident, RetryExpires, Crash, Flags
  <2> QED
    BY <2>1, <2>2, <2>3, <1>m, TypeParts
<1>6. CASE UNCHANGED vars
  BY <1>6, <1>t, <1>m, TypeParts DEF vars, Flags, Counters, Handlers
<1> QED
  BY <1>1, <1>2, <1>3, <1>4, <1>5, <1>6 DEF Next, HandleStep

\* Type correctness of the incident state machine.
THEOREM TypeCorrect == Spec => []TypeOK
<1>1. Init => TypeOK
  <2> SUFFICES ASSUME Init PROVE Flags /\ Counters /\ Handlers /\ Marked
    BY TypeParts
  <2>1. Flags
    BY Zenon DEF Init, Flags
  <2>2. Counters /\ Handlers /\ Marked
    BY IncidentAssumption DEF Init, Counters, Handlers, Marked
  <2> QED
    BY <2>1, <2>2
<1> QED
  BY <1>1, TypeStep, PTL DEF Spec

-----------------------------------------------------------------------------
(* One alert per incident *)

\* A worker has won in this incident exactly if that left the hash alerted.
WonMeansAlerted == alerts = 0 \/ (alerts = 1 /\ alerted)

\* For any number of workers, and with monitors disabled under their hands, one worker
\* at most wins the right to alert in an incident.
THEOREM OneAlert == Spec => []AlertOncePerIncident
<1>1. Init => WonMeansAlerted
  BY DEF Init, WonMeansAlerted
<1>2. WonMeansAlerted /\ [Next]_vars => WonMeansAlerted'
  <2> SUFFICES ASSUME WonMeansAlerted, [Next]_vars PROVE WonMeansAlerted'
    OBVIOUS
  <2>1. \/ UNCHANGED <<alerts, alerted>>
        \/ alerts' = 0
        \/ ~ alerted /\ alerts' = alerts + 1 /\ alerted'
        \/ alerts' = alerts /\ alerted' \in {alerted, TRUE}
    <3> USE DEF hash, history
    <3>1. ASSUME NEW w \in Workers, Take(w) PROVE UNCHANGED <<alerts, alerted>>
      BY <3>1, Zenon DEF Take, TakeResult, TakeTerminal
    <3>2. ASSUME NEW w \in Workers, HandleStep(w), ~ MarkIncidentAlertedIfNotSet(w)
          PROVE  UNCHANGED <<alerts, alerted>> \/ alerts' = 0
      BY <3>2, Zenon DEF HandleStep, GetIncident, CloseIncident, ClearIncident, DelIncident,
         ClearRetry, IncrementRetry, ClearSpentRetry, IncrementIncident,
         MarkDBIncidentCreated, CreateIncident, SendAlert
    <3>3. ASSUME NEW w \in Workers, MarkIncidentAlertedIfNotSet(w)
          PROVE  \/ UNCHANGED <<alerts, alerted>>
                 \/ ~ alerted /\ alerts' = alerts + 1 /\ alerted'
                 \/ alerts' = alerts /\ alerted' \in {alerted, TRUE}
      BY <3>3, Zenon DEF MarkIncidentAlertedIfNotSet
    <3>4. CASE HandleAlerts \/ DisableMonitor \/ RetryExpires \/ Crash
      BY <3>4, Zenon DEF HandleAlerts, DisableMonitor, DelIncident, RetryExpires, Crash
    <3>5. CASE UNCHANGED vars
      BY <3>5, Zenon DEF vars
    <3> QED
      BY <3>1, <3>2, <3>3, <3>4, <3>5, Zenon DEF Next
  <2>2. ~ alerted /\ alerts' = alerts + 1 => alerts' = 1
    <3>1. ~ alerted => alerts = 0
      BY Zenon DEF WonMeansAlerted
    <3>2. alerts = 0 /\ alerts' = alerts + 1 => alerts' = 1
      OBVIOUS
    <3> QED
      BY <3>1, <3>2, Zenon
  <2>3. alerted /\ alerted' \in {alerted, TRUE} => alerted'
    BY Zenon
  <2> QED
    BY <2>1, <2>2, <2>3, Zenon DEF WonMeansAlerted
<1>3. WonMeansAlerted => AlertOncePerIncident
  BY DEF WonMeansAlerted, AlertOncePerIncident
<1> QED
  BY <1>1, <1>2, <1>3, PTL DEF Spec

-----------------------------------------------------------------------------
(* The hash implements IncidentTracker *)

\* A worker that goes for the alert found the threshold reached.  It still is, unless
\* the hash was deleted since.
AtThreshold ==
    \A w \in Workers : handler[w].step = "markAlerted" =>
        failureCount >= AlertThreshold \/ w \in orphaned

\* A step of w that leaves the count alone and does not send w to the alert.
LEMMA QuietStep ==
    ASSUME AtThreshold, NEW w \in Workers, UNCHANGED failureCount, orphaned \ {w} \subseteq orphaned',
           handler'[w].step # "markAlerted", \A v \in Workers \ {w} : handler'[v] = handler[v]
    PROVE  AtThreshold'
  BY DEF AtThreshold

\* Whoever deletes the hash orphans every worker that goes for the alert.
LEMMA DeletedStep ==
    ASSUME DelIncident,
           \A v \in Workers : handler'[v].step = "markAlerted" => handler[v].step = "markAlerted"
    PROVE  AtThreshold'
  BY DEF DelIncident, AtThreshold

\* No step, fault or crash takes the count below the threshold while a worker goes for
\* the alert, without the worker being recorded as orphaned.
LEMMA AtThresholdStep == TypeOK /\ AtThreshold /\ [Next]_vars => AtThreshold'
<1> SUFFICES ASSUME TypeOK, AtThreshold, [Next]_vars PROVE AtThreshold'
  OBVIOUS
<1> USE DEF hash, history
<1>s. /\ {"getIncident", "closeIncident", "clearIncident", "clearRetry", "incrementRetry",
          "clearSpentRetry", "incrementIncident", "markAlerted", "markDBIncident",
          "createIncident", "sendAlert"} \subseteq Steps
      /\ "idle" \notin Steps
  BY DEF Steps, SuccessSteps, FailureSteps
<1>1. ASSUME NEW w \in Workers, Take(w) PROVE AtThreshold'
  <2>1. CASE TakeTerminal(w)
    BY <2>1 DEF TakeTerminal, AtThreshold
  <2>2. ASSUME NEW res \in Results, TakeResult(w, res) PROVE AtThreshold'
    <3>1. FirstStep(res) # "markAlerted"
      BY DEF FirstStep, Results
    <3> QED
      BY <2>2, <3>1, QuietStep DEF TakeResult, TypeOK
  <2> QED
    BY <1>1, <2>1, <2>2 DEF Take
<1>2. ASSUME NEW w \in Workers, GetIncident(w) \/ CloseIncident(w) \/ ClearRetry(w)
             \/ IncrementRetry(w) \/ ClearSpentRetry(w) \/ MarkIncidentAlertedIfNotSet(w)
             \/ MarkDBIncidentCreated(w) \/ CreateIncident(w) \/ SendAlert(w)
      PROVE  AtThreshold'
  <2>1. UNCHANGED failureCount /\ orphaned' \in {orphaned, orphaned \ {w}}
    BY <1>2, Zenon DEF GetIncident, CloseIncident, ClearRetry, IncrementRetry,
       ClearSpentRetry, MarkIncidentAlertedIfNotSet, MarkDBIncidentCreated, CreateIncident,
       SendAlert
  <2>2. /\ handler[w].step \in Steps
        /\ \/ Return(w)
           \/ \E s \in Steps \ {"markAlerted"} : Go(w, s)
    BY <1>2, <1>s DEF GetIncident, CloseIncident, ClearRetry, IncrementRetry,
       ClearSpentRetry, MarkIncidentAlertedIfNotSet, MarkDBIncidentCreated, CreateIncident,
       SendAlert
  <2>3. /\ handler'[w].step # "markAlerted"
        /\ \A v \in Workers \ {w} : handler'[v] = handler[v]
    BY <2>2, GoFacts, ReturnFacts
  <2> QED
    BY <2>1, <2>3, QuietStep
<1>3. ASSUME NEW w \in Workers, ClearIncident(w) PROVE AtThreshold'
  <2>1. /\ handler'[w].step = "clearRetry"
        /\ \A v \in Workers \ {w} : handler'[v] = handler[v]
    BY <1>3, <1>s, GoFacts DEF ClearIncident
  <2>2. CASE DelIncident
    BY <2>1, <2>2, DeletedStep
  <2>3. CASE UNCHANGED <<hash, history>>
    BY <2>1, <2>3, QuietStep
  <2> QED
    BY <1>3, <2>2, <2>3 DEF ClearIncident
<1>4. ASSUME NEW w \in Workers, IncrementIncident(w) PROVE AtThreshold'
  <2>1. failureCount' \in Nat /\ failureCount' >= failureCount /\ UNCHANGED orphaned
    BY <1>4 DEF IncrementIncident, TypeOK
  <2>2. /\ handler'[w].step = "markAlerted" => failureCount' >= AlertThreshold
        /\ \A v \in Workers \ {w} : handler'[v] = handler[v]
    <3>1. CASE Return(w)
      BY <3>1, ReturnFacts
    <3>2. CASE Go(w, "markAlerted") /\ ~ (failureCount' < AlertThreshold)
      BY <1>4, <1>s, <2>1, <3>2, GoFacts DEF IncrementIncident, AlertThreshold
    <3> QED
      BY <1>4, <3>1, <3>2 DEF IncrementIncident
  <2> QED
    BY <2>1, <2>2 DEF AtThreshold, AlertThreshold, TypeOK
<1>5. CASE HandleAlerts \/ RetryExpires \/ Crash
  BY <1>5 DEF HandleAlerts, RetryExpires, Crash, AtThreshold, Idle
<1>6. CASE UNCHANGED vars
  BY <1>6 DEF vars, AtThreshold
<1>7. CASE DisableMonitor
  BY <1>7, DeletedStep DEF DisableMonitor
<1> QED
  BY <1>1, <1>2, <1>3, <1>4, <1>5, <1>6, <1>7 DEF Next, HandleStep

\* The variables of the tracker, as the hash and the history give them.
tracked == <<failureCount, alerted, orphaned # {}>>

\* Deleting the hash is a recovery, and orphans no worker below the threshold.
LEMMA DeletedRecovers == ASSUME AtThreshold, DelIncident PROVE Tracker!Recover
<1>1. orphaned' # {} => orphaned # {} \/ failureCount >= AlertThreshold
  BY DEF AtThreshold, DelIncident
<1> QED
  BY <1>1, Zenon DEF DelIncident, Tracker!Recover

\* Every step of the handlers is a step of the tracker, or leaves it alone.
LEMMA TrackerStep == TypeOK /\ AtThreshold /\ [Next]_vars => [Tracker!Next]_tracked
<1> SUFFICES ASSUME TypeOK, AtThreshold, [Next]_vars
             PROVE  Tracker!Next \/ UNCHANGED tracked
  BY Zenon
<1> USE DEF hash, history
<1>1. ASSUME NEW w \in Workers, MarkIncidentAlertedIfNotSet(w)
      PROVE  Tracker!Next \/ UNCHANGED tracked
  <2>1. (failureCount >= AlertThreshold \/ orphaned # {}) /\ UNCHANGED failureCount
    BY <1>1, Zenon DEF MarkIncidentAlertedIfNotSet, AtThreshold
  <2>2. UNCHANGED alerted \/ alerted' = TRUE
    BY <1>1, Zenon DEF MarkIncidentAlertedIfNotSet
  <2>3. alerted \in BOOLEAN
    BY Zenon DEF TypeOK
  <2>4. alerted /\ alerted' = TRUE => UNCHANGED alerted
    BY <2>3, Zenon
  <2>5. orphaned' # {} => orphaned # {}
    <3>1. orphaned' = orphaned \ {w}
      BY <1>1, Zenon DEF MarkIncidentAlertedIfNotSet
    <3> QED
      BY <3>1
  <2>6. CASE UNCHANGED alerted
    <3>1. \/ (orphaned # {}) /\ (orphaned' # {}) = FALSE
          \/ (orphaned' # {}) = (orphaned # {})
      BY <2>5
    <3> QED
      BY <2>1, <2>6, <3>1, Zenon DEF Tracker!Next, Tracker!DropLate, tracked
  <2>7. CASE ~ alerted /\ alerted' = TRUE
    BY <2>1, <2>5, <2>7, Zenon DEF Tracker!Next, Tracker!Alert
  <2> QED
    BY <2>2, <2>4, <2>6, <2>7, Zenon
<1>2. ASSUME NEW w \in Workers, IncrementIncident(w)
      PROVE  Tracker!Next \/ UNCHANGED tracked
  <2>1. UNCHANGED <<alerted, orphaned>>
    BY <1>2, Zenon DEF IncrementIncident
  <2>2. failureCount' \in Nat /\ (failureCount' = failureCount \/ failureCount' > failureCount)
    BY <1>2 DEF IncrementIncident, TypeOK
  <2> QED
    BY <2>1, <2>2, Zenon DEF Tracker!Next, Tracker!Fail, tracked
<1>3. ASSUME NEW w \in Workers, ClearIncident(w)
      PROVE  Tracker!Next \/ UNCHANGED tracked
  BY <1>3, DeletedRecovers, Zenon DEF ClearIncident, Tracker!Next, tracked
<1>4. ASSUME NEW w \in Workers, GetIncident(w) \/ CloseIncident(w) \/ ClearRetry(w)
             \/ IncrementRetry(w) \/ ClearSpentRetry(w) \/ MarkDBIncidentCreated(w)
             \/ CreateIncident(w) \/ SendAlert(w) \/ Take(w)
      PROVE  UNCHANGED tracked
  BY <1>4, Zenon DEF GetIncident, CloseIncident, ClearRetry, IncrementRetry, ClearSpentRetry,
     MarkDBIncidentCreated, CreateIncident, SendAlert, Take, TakeResult, TakeTerminal, tracked
<1>5. CASE HandleAlerts \/ RetryExpires \/ UNCHANGED vars
  BY <1>5, Zenon DEF HandleAlerts, RetryExpires, vars, tracked
<1>6. CASE DisableMonitor
  BY <1>6, DeletedRecovers, Zenon DEF DisableMonitor, Tracker!Next
<1>7. CASE Crash
  <2>1. \/ (orphaned # {}) /\ (orphaned' # {}) = FALSE
        \/ (orphaned' # {}) = (orphaned # {})
    BY <1>7 DEF Crash
  <2> QED
    BY <1>7, <2>1, Zenon DEF Crash, Tracker!Next, Tracker!DropLate, tracked
<1> QED
  BY <1>1, <1>2, <1>3, <1>4, <1>5, <1>6, <1>7, Zenon DEF Next, HandleStep

\* However handlers overlap and whatever fails, crashes or is disabled, the two-call
\* sequence HINCRBY, HSETNX and the deletions of the hash together behave as the
\* IncidentTracker.
THEOREM TrackerImplemented == Spec => ImplementsTracker
<1>1. Init => AtThreshold /\ Tracker!Init
  <2>1. Init => AtThreshold
    BY DEF Init, AtThreshold, Idle
  <2>2. Init => Tracker!Init
    BY Zenon DEF Init, Tracker!Init
  <2> QED
    BY <2>1, <2>2
<1>2. TypeOK /\ AtThreshold /\ [Next]_vars => AtThreshold' /\ [Tracker!Next]_tracked
  BY AtThresholdStep, TrackerStep
<1>3. tracked = Tracker!vars
  BY DEF tracked, Tracker!vars
<1> QED
  BY <1>1, <1>2, <1>3, TypeCorrect, PTL DEF Spec, ImplementsTracker, Tracker!Spec, tracked, Tracker!vars

-----------------------------------------------------------------------------
(* Without a failed call, what a step does to its own handler and to the others *)

\* A failed call stays on record.
LEMMA FaultRecorded == ASSUME TypeOK, Fault PROVE faults' # 0
  BY IncidentAssumption DEF Fault, TypeOK

\* A history without failed calls never had one, and the step is none either.
LEMMA FaultsGrow == ASSUME TypeOK, [Next]_vars, faults' = 0 PROVE faults = 0 /\ ~ Fault
<1>1. UNCHANGED faults \/ Fault
  <2> USE DEF hash, history
  <2>1. ASSUME NEW w \in Workers, Take(w) \/ HandleStep(w) PROVE UNCHANGED faults \/ Fault
    BY <2>1, Zenon DEF Take, TakeResult, TakeTerminal, HandleStep, GetIncident, CloseIncident,
       ClearIncident, ClearRetry, IncrementRetry, ClearSpentRetry, IncrementIncident,
       MarkIncidentAlertedIfNotSet, MarkDBIncidentCreated, CreateIncident, SendAlert
  <2>2. CASE HandleAlerts \/ DisableMonitor \/ RetryExpires \/ Crash \/ UNCHANGED vars
    BY <2>2, Zenon DEF HandleAlerts, DisableMonitor, RetryExpires, Crash, vars
  <2> QED
    BY <2>1, <2>2, Zenon DEF Next
<1> QED
  BY <1>1, FaultRecorded

\* A step of w leaves the other handlers alone.
LEMMA HandlerMoves ==
    ASSUME TypeOK, NEW w \in Workers, HandleStep(w)
    PROVE  /\ handler[w].step \in Steps
           /\ \A v \in Workers : v # w => handler'[v] = handler[v]
<1>s. /\ {"getIncident", "closeIncident", "clearIncident", "clearRetry", "incrementRetry",
          "clearSpentRetry", "incrementIncident", "markAlerted", "markDBIncident",
          "createIncident", "sendAlert"} \subseteq Steps
  BY DEF Steps, SuccessSteps, FailureSteps
<1>1. handler[w].step \in Steps /\ (Return(w) \/ \E s \in Steps : Go(w, s))
  BY <1>s DEF HandleStep, GetIncident, CloseIncident, ClearIncident, ClearRetry,
     IncrementRetry, ClearSpentRetry, IncrementIncident, MarkIncidentAlertedIfNotSet,
     MarkDBIncidentCreated, CreateIncident, SendAlert
<1> QED
  BY <1>1, GoFacts, ReturnFacts

-----------------------------------------------------------------------------
(* An alert that was decided on is not lost *)

OnItsWay(w) == handler[w].step \in {"markDBIncident", "createIncident", "sendAlert"}

\* AlertNotLost survives a step of w that raises no alert, forgets no winner and keeps w
\* on its way.
LEMMA StillOnItsWay ==
    ASSUME AlertNotLost, faults = 0, alerted' => alerted, announced => announced',
           winners \subseteq winners', NEW w, w \in winners /\ OnItsWay(w) => OnItsWay(w)',
           \A v \in winners : v # w => handler'[v] = handler[v]
    PROVE  AlertNotLost'
<1>1. CASE ~ alerted'
  BY <1>1 DEF AlertNotLost
<1>2. CASE announced'
  BY <1>2 DEF AlertNotLost
<1>3. CASE alerted' /\ ~ announced'
  <2>1. PICK v \in winners : OnItsWay(v)
    BY <1>3, Zenon DEF AlertNotLost, OnItsWay
  <2>2. OnItsWay(v)'
    BY <2>1 DEF OnItsWay
  <2> QED
    BY <2>1, <2>2 DEF AlertNotLost, OnItsWay
<1> QED
  BY <1>1, <1>2, <1>3

\* The worker that won the mark keeps the alert until it is in alertChan: no step of
\* another worker, and no deletion of the hash, takes it away.
LEMMA AlertNotLostStep == TypeOK /\ AlertNotLost /\ [Next]_vars => AlertNotLost'
<1> SUFFICES ASSUME TypeOK, AlertNotLost, [Next]_vars, faults' = 0 PROVE AlertNotLost'
  BY DEF AlertNotLost
<1> USE DEF hash, history
<1>0. faults = 0 /\ ~ Fault /\ winners \subseteq Workers
  BY FaultsGrow DEF TypeOK
<1>s. {"markDBIncident", "createIncident", "sendAlert"} \subseteq Steps
  BY DEF Steps, SuccessSteps, FailureSteps
<1>1. ASSUME NEW w \in Workers, Take(w) PROVE AlertNotLost'
  <2>1. UNCHANGED <<alerted, announced, winners>>
    BY <1>1, Zenon DEF Take, TakeResult, TakeTerminal
  <2>2. ~ OnItsWay(w) /\ \A v \in Workers : v # w => handler'[v] = handler[v]
    BY <1>1 DEF Take, TakeResult, TakeTerminal, OnItsWay, Idle, TypeOK
  <2> QED
    BY <1>0, <2>1, <2>2, StillOnItsWay
<1>2. ASSUME NEW w \in Workers, GetIncident(w) \/ CloseIncident(w) \/ ClearRetry(w)
             \/ IncrementRetry(w) \/ ClearSpentRetry(w) \/ IncrementIncident(w)
             \/ MarkDBIncidentCreated(w) \/ CreateIncident(w)
      PROVE  AlertNotLost'
  <2>1. UNCHANGED <<alerted, announced, winners>>
    BY <1>2, Zenon DEF GetIncident, CloseIncident, ClearRetry, IncrementRetry,
       ClearSpentRetry, IncrementIncident, MarkDBIncidentCreated, CreateIncident
  <2>2. \A v \in Workers : v # w => handler'[v] = handler[v]
    BY <1>2, HandlerMoves DEF HandleStep
  <2>3. OnItsWay(w) => OnItsWay(w)'
    BY <1>2, <1>s, GoFacts DEF GetIncident, CloseIncident, ClearRetry, IncrementRetry,
       ClearSpentRetry, IncrementIncident, MarkDBIncidentCreated, CreateIncident, OnItsWay
  <2> QED
    BY <1>0, <2>1, <2>2, <2>3, StillOnItsWay
<1>3. CASE DelIncident
  <2>1. ~ alerted'
    BY <1>3, Zenon DEF DelIncident
  <2> QED
    BY <2>1 DEF AlertNotLost
<1>4. ASSUME NEW w \in Workers, ClearIncident(w) PROVE AlertNotLost'
  BY <1>0, <1>3, <1>4, Zenon DEF ClearIncident
<1>5. ASSUME NEW w \in Workers, MarkIncidentAlertedIfNotSet(w) PROVE AlertNotLost'
  <2>1. CASE winners' = winners \cup {w} /\ Go(w, "markDBIncident")
    <3>1. handler'[w].step = "markDBIncident"
      BY <1>5, <1>s, <2>1, GoFacts DEF MarkIncidentAlertedIfNotSet, Steps, FailureSteps
    <3> QED
      BY <2>1, <3>1 DEF AlertNotLost
  <2>2. CASE alerted /\ UNCHANGED <<alerted, winners>>
    <3>1. UNCHANGED announced /\ handler[w].step = "markAlerted"
      BY <1>5, Zenon DEF MarkIncidentAlertedIfNotSet
    <3>2. ~ OnItsWay(w) /\ \A v \in Workers : v # w => handler'[v] = handler[v]
      BY <1>5, <3>1, HandlerMoves DEF HandleStep, OnItsWay
    <3> QED
      BY <1>0, <2>2, <3>1, <3>2, StillOnItsWay
  <2> QED
    BY <1>0, <1>5, <2>1, <2>2, Zenon DEF MarkIncidentAlertedIfNotSet
<1>6. ASSUME NEW w \in Workers, SendAlert(w) PROVE AlertNotLost'
  <2>1. CASE w \in winners
    <3>1. announced'
      BY <1>6, <2>1, Zenon DEF SendAlert
    <3> QED
      BY <3>1 DEF AlertNotLost
  <2>2. CASE w \notin winners
    <3>1. (announced => announced') /\ UNCHANGED alerted /\ winners' = winners \ {w}
      BY <1>6, Zenon DEF SendAlert
    <3>2. \A v \in Workers : v # w => handler'[v] = handler[v]
      BY <1>6, HandlerMoves DEF HandleStep
    <3>3. winners \subseteq winners'
      BY <2>2, <3>1
    <3> QED
      BY <1>0, <2>2, <3>1, <3>2, <3>3, StillOnItsWay
  <2> QED
    BY <2>1, <2>2
<1>7. CASE HandleAlerts \/ UNCHANGED vars
  <2>1. UNCHANGED <<alerted, announced, winners, handler>>
    BY <1>7, Zenon DEF HandleAlerts, vars
  <2> QED
    BY <1>0, <2>1, Zenon DEF AlertNotLost
<1>8. CASE DisableMonitor
  BY <1>3, <1>8, Zenon DEF DisableMonitor
<1>9. CASE RetryExpires \/ Crash
  BY <1>0, <1>9, Zenon DEF RetryExpires, Crash
<1> QED
  BY <1>1, <1>2, <1>4, <1>5, <1>6, <1>7, <1>8, <1>9, Zenon DEF Next, HandleStep

\* For any number of workers: a hash marked alerted has had its alert put into alertChan,
\* or has a worker that will do so.
THEOREM AlertKept == Spec => []AlertNotLost
<1>1. Init => AlertNotLost
  BY Zenon DEF Init, AlertNotLost
<1> QED
  BY <1>1, AlertNotLostStep, TypeCorrect, PTL DEF Spec

-----------------------------------------------------------------------------
(* An open row is known to the hash *)

\* The order of the calls, as long as one worker handles results at a time: the flag is
\* in the hash before the row is inserted, and the row is closed before the hash goes.
OneBusy     == \A w, v \in Workers : handler[w].step # "idle" /\ handler[v].step # "idle" => w = v
FlagFirst   == \A w \in Workers : handler[w].step = "createIncident" => dbIncident
ClosedFirst == \A w \in Workers : handler[w].step = "clearIncident" => ~ openRow
RowKnown    == openRow => dbIncident
InOrder     == faults = 0 /\ ~ raced => OneBusy /\ FlagFirst /\ ClosedFirst /\ RowKnown

\* A step of the one worker that is not idle: what it has to establish is about itself.
LEMMA AloneStep ==
    ASSUME OneBusy, NEW w \in Workers, handler[w].step # "idle",
           \A v \in Workers : v # w => handler'[v] = handler[v],
           handler'[w].step = "createIncident" => dbIncident',
           handler'[w].step = "clearIncident" => ~ openRow',
           RowKnown'
    PROVE  InOrder'
<1>1. \A v \in Workers : v # w => handler'[v].step = "idle"
  BY DEF OneBusy
<1>2. OneBusy'
  BY <1>1 DEF OneBusy
<1>3. FlagFirst' /\ ClosedFirst'
  BY <1>1 DEF FlagFirst, ClosedFirst
<1> QED
  BY <1>2, <1>3 DEF InOrder

\* The order of the calls within a handler is kept by every step, as long as no two
\* handlers overlap and no call fails.
LEMMA InOrderStep == TypeOK /\ InOrder /\ [Next]_vars => InOrder'
<1> SUFFICES ASSUME TypeOK, InOrder, [Next]_vars, faults' = 0, ~ raced' PROVE InOrder'
  BY DEF InOrder
<1> USE DEF hash, history
<1>0. faults = 0 /\ ~ Fault
  BY FaultsGrow
<1>s. /\ {"getIncident", "closeIncident", "clearIncident", "clearRetry", "incrementRetry",
          "clearSpentRetry", "incrementIncident", "markAlerted", "markDBIncident",
          "createIncident", "sendAlert"} \subseteq Steps
      /\ "idle" \notin Steps
  BY DEF Steps, SuccessSteps, FailureSteps
<1>1. ASSUME NEW w \in Workers, NEW res \in Results, TakeResult(w, res) PROVE InOrder'
  <2>1. Busy = {} /\ ~ (raced /\ openRow)
    BY <1>1, Zenon DEF TakeResult
  <2>2. \A v \in Workers : handler[v].step = "idle"
    BY <2>1 DEF Busy
  <2>3. FirstStep(res) \notin {"createIncident", "clearIncident"}
    BY DEF FirstStep, Results
  <2>4. /\ handler'[w].step = FirstStep(res)
        /\ \A v \in Workers : v # w => handler'[v].step = "idle"
    BY <1>1, <2>2 DEF TakeResult, TypeOK
  <2>5. OneBusy' /\ FlagFirst' /\ ClosedFirst'
    BY <2>3, <2>4 DEF OneBusy, FlagFirst, ClosedFirst
  <2>6. UNCHANGED <<openRow, dbIncident>>
    BY <1>1, Zenon DEF TakeResult
  <2>7. RowKnown'
    BY <1>0, <2>1, <2>6, Zenon DEF RowKnown, InOrder
  <2> QED
    BY <2>5, <2>7 DEF InOrder
<1>2. CASE UNCHANGED <<raced, openRow, dbIncident, handler>>
  BY <1>0, <1>2, Zenon DEF InOrder, OneBusy, FlagFirst, ClosedFirst, RowKnown
<1>3. ASSUME NEW w \in Workers, HandleStep(w) PROVE InOrder'
  <2>1. UNCHANGED raced
    BY <1>0, <1>3, Zenon DEF HandleStep, GetIncident, CloseIncident, ClearIncident,
       ClearRetry, IncrementRetry, ClearSpentRetry, IncrementIncident,
       MarkIncidentAlertedIfNotSet, MarkDBIncidentCreated, CreateIncident, SendAlert
  <2>2. OneBusy /\ FlagFirst /\ ClosedFirst /\ RowKnown
    BY <1>0, <2>1, Zenon DEF InOrder
  <2>3. /\ handler[w].step # "idle"
        /\ \A v \in Workers : v # w => handler'[v] = handler[v]
    BY <1>3, <1>s, HandlerMoves
  <2>4. CASE GetIncident(w)
    <3>1. UNCHANGED <<openRow, dbIncident>>
      BY <2>4, Zenon DEF GetIncident
    <3>2. CASE dbIncident /\ Go(w, "closeIncident")
      <4>1. handler'[w].step = "closeIncident"
        BY <1>s, <2>4, <3>2, GoFacts DEF GetIncident
      <4> QED
        BY <2>2, <2>3, <3>1, <4>1, AloneStep DEF RowKnown
    <3>3. CASE ~ dbIncident /\ Go(w, "clearIncident")
      <4>1. handler'[w].step = "clearIncident"
        BY <1>s, <2>4, <3>3, GoFacts DEF GetIncident
      <4>2. ~ openRow'
        BY <2>2, <3>1, <3>3, Zenon DEF RowKnown
      <4> QED
        BY <2>2, <2>3, <4>1, <4>2, AloneStep DEF RowKnown
    <3> QED
      BY <1>0, <2>4, <3>2, <3>3 DEF GetIncident
  <2>5. CASE CloseIncident(w)
    <3>1. ~ openRow'
      BY <1>0, <2>5, Zenon DEF CloseIncident, CloseRows
    <3>2. handler'[w].step = "clearIncident"
      BY <1>s, <2>5, GoFacts DEF CloseIncident
    <3> QED
      BY <2>2, <2>3, <3>1, <3>2, AloneStep DEF RowKnown
  <2>6. CASE ClearIncident(w)
    <3>1. handler[w].step = "clearIncident" /\ UNCHANGED openRow
      BY <2>6, Zenon DEF ClearIncident
    <3>2. ~ openRow'
      BY <2>2, <3>1, Zenon DEF ClosedFirst
    <3>3. handler'[w].step = "clearRetry"
      BY <1>s, <2>6, GoFacts DEF ClearIncident
    <3> QED
      BY <2>2, <2>3, <3>2, <3>3, AloneStep DEF RowKnown
  <2>7. CASE MarkDBIncidentCreated(w)
    <3>1. dbIncident'
      BY <1>0, <2>7, Zenon DEF MarkDBIncidentCreated
    <3>2. handler'[w].step = "createIncident"
      BY <1>s, <2>7, GoFacts DEF MarkDBIncidentCreated
    <3> QED
      BY <2>2, <2>3, <3>1, <3>2, AloneStep DEF RowKnown
  <2>8. CASE CreateIncident(w)
    <3>1. dbIncident'
      BY <2>2, <2>8, Zenon DEF CreateIncident, FlagFirst
    <3>2. handler'[w].step = "sendAlert"
      BY <1>s, <2>8, GoFacts DEF CreateIncident
    <3> QED
      BY <2>2, <2>3, <3>1, <3>2, AloneStep DEF RowKnown
  <2>9. CASE ClearRetry(w) \/ IncrementRetry(w) \/ ClearSpentRetry(w) \/ IncrementIncident(w)
             \/ MarkIncidentAlertedIfNotSet(w) \/ SendAlert(w)
    <3>1. UNCHANGED <<openRow, dbIncident>>
      BY <2>9, Zenon DEF ClearRetry, IncrementRetry, ClearSpentRetry, IncrementIncident,
         MarkIncidentAlertedIfNotSet, SendAlert
    <3>2. RowKnown'
      BY <2>2, <3>1, Zenon DEF RowKnown
    <3>3. \/ Return(w)
          \/ \E s \in Steps \ {"createIncident", "clearIncident"} : Go(w, s)
      BY <1>s, <2>9 DEF ClearRetry, IncrementRetry, ClearSpentRetry, IncrementIncident,
         MarkIncidentAlertedIfNotSet, SendAlert
    <3>4. handler[w].step \in Steps
      BY <1>3, HandlerMoves
    <3>5. handler'[w].step \notin {"createIncident", "clearIncident"}
      BY <3>3, <3>4, GoFacts, ReturnFacts
    <3> QED
      BY <2>2, <2>3, <3>2, <3>5, AloneStep
  <2> QED
    BY <1>3, <2>4, <2>5, <2>6, <2>7, <2>8, <2>9, Zenon DEF HandleStep
<1>4. ASSUME NEW w \in Workers, TakeTerminal(w) PROVE InOrder'
  BY <1>2, <1>4, Zenon DEF TakeTerminal
<1>5. CASE HandleAlerts \/ UNCHANGED vars
  BY <1>2, <1>5, Zenon DEF HandleAlerts, vars
<1>6. CASE DisableMonitor \/ RetryExpires \/ Crash
  BY <1>0, <1>6, Zenon DEF DisableMonitor, RetryExpires, Crash
<1> QED
  BY <1>1, <1>3, <1>4, <1>5, <1>6, Zenon DEF Next, Take

\* However often the row is opened and closed: while results are handled one at a time
\* and nothing fails, the hash knows of an open row.
THEOREM OpenRowKnown == Spec => []OpenRowTracked
<1>1. Init => InOrder
  <2> SUFFICES ASSUME Init PROVE InOrder
    OBVIOUS
  <2>1. \A w \in Workers : handler[w].step = "idle"
    BY DEF Init, Idle
  <2>2. OneBusy /\ FlagFirst /\ ClosedFirst
    BY <2>1 DEF OneBusy, FlagFirst, ClosedFirst
  <2>3. RowKnown
    BY Zenon DEF Init, RowKnown
  <2> QED
    BY <2>2, <2>3 DEF InOrder
<1>2. InOrder => OpenRowTracked
  BY Zenon DEF InOrder, RowKnown, OpenRowTracked
<1> QED
  BY <1>1, <1>2, InOrderStep, TypeCorrect, PTL DEF Spec
=============================================================================
