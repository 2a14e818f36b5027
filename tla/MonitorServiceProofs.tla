------------------------ MODULE MonitorServiceProofs ------------------------
(* Proofs about MonitorService, for any users, monitors, requests, quota and  *)
(* number of failed calls.                                                    *)
EXTENDS MonitorService, FiniteSetTheorems, TLAPS

-----------------------------------------------------------------------------
(* Requests, executor workers and faults *)

Loader == {Waiting} \cup
          [step: {"cached", "row", "fill", "check", "reschedule"}, seen: States \cup {"none"}]

\* The step a request is at tells which fields it has.
LEMMA RequestFields ==
    ASSUME NEW q \in Request
    PROVE  /\ q.step = "insert" => q = [step |-> "insert", user |-> q.user] /\ q.user \in Users
           /\ q.step \in {"schedule", "delCache", "delSchedule"} =>
                  q = [step |-> q.step, mon |-> q.mon] /\ q.mon \in Monitors
           /\ q.step = "get" => q.user \in Users /\ q.mon \in Monitors
           /\ q.step = "fill" => q.user \in Users /\ q.mon \in Monitors /\ q.seen \in States
           /\ q.step = "set" => q.mon \in Monitors /\ q.enable \in BOOLEAN
  BY DEF Request, Ready

\* Every record an action stores for a request is a request.
LEMMA RequestRecords ==
    /\ Ready \in Request
    /\ \A u \in Users : [step |-> "insert", user |-> u] \in Request
    /\ \A m \in Monitors : \A s \in {"schedule", "delCache", "delSchedule"} :
          [step |-> s, mon |-> m] \in Request
    /\ \A u \in Users, m \in Monitors : [step |-> "get", user |-> u, mon |-> m] \in Request
    /\ \A u \in Users, m \in Monitors, s \in States :
          [step |-> "fill", user |-> u, mon |-> m, seen |-> s] \in Request
    /\ \A m \in Monitors, e \in BOOLEAN : [step |-> "set", mon |-> m, enable |-> e] \in Request
    /\ \A e \in BOOLEAN : [step |-> "rejected", enable |-> e] \in Request
  BY DEF Request, Ready

\* A fault keeps within its bound.
LEMMA FaultType ==
    ASSUME faults \in 0 .. MaxFaults, Fault
    PROVE  faults' \in 0 .. MaxFaults /\ faults' # 0
  BY MonitorServiceAssumption DEF Fault

-----------------------------------------------------------------------------
(* Type correctness *)

\* The parts of TypeOK, each of which few actions touch.
StoreOK == /\ monitorsCount \in [Users -> Nat]
           /\ row \in [Monitors -> States \cup {"none"}]
           /\ owner \in [Monitors -> Users \cup {NoOne}]
CacheOK == cache \in [Monitors -> States \cup {"none"}]
QueueOK == /\ scheduled \in [Monitors -> BOOLEAN] /\ inflight \in [Monitors -> BOOLEAN]
           /\ lateAck \in [Monitors -> BOOLEAN]
           /\ dropped \subseteq Monitors
LoaderOK  == loader \in [Monitors -> Loader]
RequestOK == request \in [Requests -> Request]
FaultsOK  == faults \in 0 .. MaxFaults
ServedOK  == served \subseteq Users \X Monitors

\* TypeOK is its parts, before and after a step.
LEMMA TypeParts ==
    /\ TypeOK <=> /\ StoreOK /\ CacheOK /\ QueueOK /\ LoaderOK
                  /\ RequestOK /\ FaultsOK /\ ServedOK
    /\ TypeOK' <=> /\ StoreOK' /\ CacheOK' /\ QueueOK' /\ LoaderOK'
                   /\ RequestOK' /\ FaultsOK' /\ ServedOK'
  BY DEF TypeOK, StoreOK, CacheOK, QueueOK, LoaderOK, Loader, RequestOK, FaultsOK, ServedOK

\* A ZADD, whether it works or fails.
LEMMA ScheduleType ==
    ASSUME scheduled \in [Monitors -> BOOLEAN], dropped \subseteq Monitors, FaultsOK,
           NEW m \in Monitors
    PROVE  /\ Schedule(m) => scheduled' \in [Monitors -> BOOLEAN] /\ dropped' \subseteq Monitors
           /\ ScheduleMonitor(m) => /\ scheduled' \in [Monitors -> BOOLEAN]
                                    /\ dropped' \subseteq Monitors /\ FaultsOK'
  BY FaultType DEF Schedule, ScheduleMonitor, Drop, Set, FaultsOK

\* An AckJob, whether it works or fails, and whether it is the last call or not.
LEMMA AckType ==
    ASSUME inflight \in [Monitors -> BOOLEAN], dropped \subseteq Monitors, FaultsOK,
           NEW m \in Monitors
    PROVE  /\ AckJob(m) => inflight' \in [Monitors -> BOOLEAN] /\ FaultsOK'
           /\ AckLast(m) => /\ inflight' \in [Monitors -> BOOLEAN] /\ FaultsOK'
                            /\ dropped' \subseteq Monitors
  BY FaultType DEF AckJob, AckLast, Set, FaultsOK

\* A new request, an answered one, and one that moves to its next call.
LEMMA RequestType ==
    ASSUME RequestOK, NEW p \in Requests
    PROVE  /\ Done(p) => RequestOK'
           /\ \A q \in Request : request' = [request EXCEPT ![p] = q] => RequestOK'
  BY RequestRecords DEF RequestOK, Done

\* A request begins.
LEMMA NewRequestType ==
    ASSUME TypeOK, NEW p \in Requests, NewRequest(p) PROVE TypeOK'
<1> USE TypeParts DEF store, queue
<1>1. ASSUME NEW u \in Users, IncrementMonitorCount(p, u) PROVE TypeOK'
  <2>1. StoreOK'
    BY <1>1 DEF IncrementMonitorCount, StoreOK
  <2>2. RequestOK'
    BY <1>1, RequestType, RequestRecords DEF IncrementMonitorCount
  <2> QED
    BY <1>1, <2>1, <2>2
    DEF IncrementMonitorCount, CacheOK, QueueOK, LoaderOK, FaultsOK, ServedOK
<1>2. ASSUME NEW u \in Users, NEW m \in Monitors, GetCachedMonitor(p, u, m) PROVE TypeOK'
  <2>1. RequestOK'
    <3>1. UNCHANGED request \/ request' = [request EXCEPT ![p] = [step |-> "get", user |-> u, mon |-> m]]
      BY <1>2 DEF GetCachedMonitor
    <3> QED
      BY <3>1, RequestType, RequestRecords DEF RequestOK
  <2>2. FaultsOK' /\ ServedOK'
    BY <1>2, FaultType DEF GetCachedMonitor, FaultsOK, ServedOK
  <2> QED
    BY <1>2, <2>1, <2>2 DEF GetCachedMonitor, StoreOK, CacheOK, QueueOK, LoaderOK
<1>3. ASSUME NEW u \in Users, NEW m \in Monitors, NEW enable \in BOOLEAN,
             ReadStatus(p, u, m, enable) \/ RejectStatus(p, enable)
      PROVE  TypeOK'
  <2>1. RequestOK'
    BY <1>3, RequestType, RequestRecords DEF ReadStatus, RejectStatus
  <2> QED
    BY <1>3, <2>1 DEF ReadStatus, RejectStatus, StoreOK, CacheOK, QueueOK, LoaderOK, FaultsOK, ServedOK
<1> QED
  BY <1>1, <1>2, <1>3 DEF NewRequest

\* A request makes its next call.
LEMMA RequestStepType ==
    ASSUME TypeOK, NEW p \in Requests, RequestStep(p) PROVE TypeOK'
<1> USE TypeParts DEF store, queue
<1>f. request[p] \in Request
  BY DEF RequestOK
<1>1. CASE InsertMonitor(p)
  <2>1. request[p].user \in Users
    BY <1>1, <1>f, RequestFields DEF InsertMonitor
  <2>2. StoreOK'
    BY <1>1, <2>1 DEF InsertMonitor, InsertRow, Set, StoreOK, States
  <2>3. RequestOK'
    BY <1>1, RequestType, RequestRecords DEF InsertMonitor
  <2>4. FaultsOK' /\ QueueOK'
    BY <1>1, FaultType DEF InsertMonitor, Drop, FaultsOK, QueueOK
  <2> QED
    BY <1>1, <2>2, <2>3, <2>4 DEF InsertMonitor, CacheOK, LoaderOK, ServedOK
<1>2. CASE ScheduleRequested(p)
  <2>1. request[p].mon \in Monitors
    BY <1>2, <1>f, RequestFields DEF ScheduleRequested
  <2>2. QueueOK' /\ FaultsOK'
    BY <1>2, <2>1, ScheduleType DEF ScheduleRequested, QueueOK
  <2>3. RequestOK'
    BY <1>2, RequestType DEF ScheduleRequested
  <2> QED
    BY <1>2, <2>2, <2>3 DEF ScheduleRequested, StoreOK, CacheOK, LoaderOK, ServedOK
<1>3. CASE GetRow(p)
  <2>1. request[p].user \in Users /\ request[p].mon \in Monitors
    BY <1>3, <1>f, RequestFields DEF GetRow
  <2>2. RequestOK'
    <3>1. CASE Found(request[p].mon, request[p].user)
      BY <1>3, <2>1, <3>1, RequestType, RequestRecords DEF GetRow, Found, StoreOK
    <3> QED
      BY <1>3, <3>1, RequestType DEF GetRow
  <2>3. FaultsOK'
    BY <1>3, FaultType DEF GetRow, FaultsOK
  <2> QED
    BY <1>3, <2>2, <2>3 DEF GetRow, StoreOK, CacheOK, QueueOK, LoaderOK, ServedOK
<1>4. CASE CacheAndServe(p)
  <2>1. request[p].user \in Users /\ request[p].mon \in Monitors /\ request[p].seen \in States
    BY <1>4, <1>f, RequestFields DEF CacheAndServe
  <2>2. CacheOK' /\ FaultsOK' /\ ServedOK'
    BY <1>4, <2>1, FaultType DEF CacheAndServe, Set, CacheOK, FaultsOK, ServedOK
  <2>3. RequestOK'
    BY <1>4, RequestType DEF CacheAndServe
  <2> QED
    BY <1>4, <2>2, <2>3 DEF CacheAndServe, StoreOK, QueueOK, LoaderOK
<1>5. CASE SetEnabled(p)
  <2>1. request[p].mon \in Monitors /\ request[p].enable \in BOOLEAN
    BY <1>5, <1>f, RequestFields DEF SetEnabled
  <2>2. StoreOK'
    BY <1>5, <2>1 DEF SetEnabled, UpdateRow, State, States, Set, StoreOK
  <2>3. RequestOK'
    BY <1>5, <2>1, RequestType, RequestRecords DEF SetEnabled
  <2>4. FaultsOK' /\ QueueOK'
    BY <1>5, <2>1, FaultType DEF SetEnabled, Drop, FaultsOK, QueueOK
  <2> QED
    BY <1>5, <2>2, <2>3, <2>4 DEF SetEnabled, CacheOK, LoaderOK, ServedOK
<1>6. CASE DelCached(p)
  <2>1. /\ request[p] = [step |-> "delCache", mon |-> request[p].mon]
        /\ request[p].mon \in Monitors
    BY <1>6, <1>f, RequestFields DEF DelCached
  <2>2. CacheOK' /\ FaultsOK'
    BY <1>6, <2>1, FaultType DEF DelCached, Set, CacheOK, FaultsOK
  <2>3. RequestOK'
    <3>1. [request[p] EXCEPT !.step = "delSchedule"] = [step |-> "delSchedule", mon |-> request[p].mon]
      BY <2>1
    <3>2. request' = [request EXCEPT ![p] = [request[p] EXCEPT !.step = "delSchedule"]]
      BY <1>6 DEF DelCached, Step
    <3> QED
      BY <2>1, <3>1, <3>2, RequestType, RequestRecords
  <2> QED
    BY <1>6, <2>2, <2>3 DEF DelCached, StoreOK, QueueOK, LoaderOK, ServedOK
<1>7. CASE DelSchedule(p)
  <2>1. request[p].mon \in Monitors
    BY <1>7, <1>f, RequestFields DEF DelSchedule
  <2>2. QueueOK' /\ FaultsOK'
    BY <1>7, <2>1, FaultType DEF DelSchedule, Set, QueueOK, FaultsOK
  <2>3. RequestOK'
    BY <1>7, RequestType DEF DelSchedule
  <2> QED
    BY <1>7, <2>2, <2>3 DEF DelSchedule, StoreOK, CacheOK, LoaderOK, ServedOK
<1>8. CASE Answer(p)
  BY <1>8, RequestType DEF Answer, StoreOK, CacheOK, QueueOK, LoaderOK, FaultsOK, ServedOK
<1> QED
  BY <1>1, <1>2, <1>3, <1>4, <1>5, <1>6, <1>7, <1>8 DEF RequestStep

\* The pipeline takes the monitor on, or a cache entry expires.
LEMMA LoaderStepType ==
    ASSUME TypeOK, NEW m \in Monitors, LoaderStep(m) \/ CacheExpires(m) PROVE TypeOK'
<1> USE TypeParts DEF store, queue
<1>w. Waiting \in Loader
  BY DEF Loader
<1>l. \A s \in {"cached", "row", "fill", "check", "reschedule"}, v \in States \cup {"none"} :
         LoadStep(m, s, v) => LoaderOK'
  BY DEF LoadStep, Set, LoaderOK, Loader
<1>u. \A v \in States \cup {"none"} : Use(m, v) => LoaderOK'
  BY <1>w, <1>l DEF Use, Set, LoaderOK, States
<1>r. row[m] \in States \cup {"none"} /\ cache[m] \in States \cup {"none"}
  BY DEF StoreOK, CacheOK
<1>s. loader[m].seen \in States \cup {"none"}
  BY DEF LoaderOK, Loader, Waiting
<1>1. CASE StartLoad(m)
  <2>1. QueueOK'
    BY <1>1 DEF StartLoad, Set, QueueOK
  <2>2. LoaderOK'
    BY <1>1, <1>l DEF StartLoad
  <2> QED
    BY <1>1, <2>1, <2>2 DEF StartLoad, StoreOK, CacheOK, RequestOK, FaultsOK, ServedOK
<1>2. CASE LoadCached(m)
  <2>1. LoaderOK'
    BY <1>2, <1>l, <1>u, <1>r DEF LoadCached
  <2>2. FaultsOK'
    BY <1>2, FaultType DEF LoadCached, FaultsOK
  <2> QED
    BY <1>2, <2>1, <2>2 DEF LoadCached, StoreOK, CacheOK, QueueOK, RequestOK, ServedOK
<1>3. CASE LoadRow(m)
  <2>1. LoaderOK'
    <3>1. LoadStep(m, "fill", row[m]) \/ loader' = Set(loader, m, Waiting)
      BY <1>3 DEF LoadRow
    <3>2. LoadStep(m, "fill", row[m]) => LoaderOK'
      BY <1>l, <1>r
    <3> QED
      BY <3>1, <3>2, <1>w DEF LoaderOK, Set
  <2>2. QueueOK'
    BY <1>3, ScheduleType DEF LoadRow, QueueOK
  <2>3. FaultsOK'
    BY <1>3, FaultType DEF LoadRow, FaultsOK
  <2> QED
    BY <1>3, <2>1, <2>2, <2>3 DEF LoadRow, StoreOK, CacheOK, RequestOK, ServedOK
<1>4. CASE LoadFill(m)
  <2>1. LoaderOK'
    BY <1>4, <1>u, <1>s DEF LoadFill
  <2>2. CacheOK' /\ FaultsOK'
    BY <1>4, <1>s, FaultType DEF LoadFill, Set, CacheOK, FaultsOK
  <2> QED
    BY <1>4, <2>1, <2>2 DEF LoadFill, StoreOK, QueueOK, RequestOK, ServedOK
<1>5. CASE Acknowledge(m)
  <2>1. LoaderOK'
    BY <1>5, <1>l DEF Acknowledge
  <2>2. QueueOK' /\ FaultsOK'
    BY <1>5, AckType DEF Acknowledge, QueueOK
  <2> QED
    BY <1>5, <2>1, <2>2 DEF Acknowledge, StoreOK, CacheOK, RequestOK, ServedOK
<1>8. CASE Reschedule(m) \/ QuickRetry(m)
  <2>1. LoaderOK'
    BY <1>8, <1>w DEF Reschedule, QuickRetry, Set, LoaderOK
  <2>2. QueueOK' /\ FaultsOK'
    <3>1. /\ scheduled' \in [Monitors -> BOOLEAN] /\ dropped' \subseteq Monitors /\ FaultsOK'
          /\ UNCHANGED inflight
      BY <1>8, ScheduleType DEF Reschedule, QuickRetry, QueueOK
    <3>2. lateAck' \in [Monitors -> BOOLEAN]
      BY <1>8 DEF Reschedule, QuickRetry, Set, QueueOK
    <3> QED
      BY <3>1, <3>2 DEF QueueOK
  <2> QED
    BY <1>8, <2>1, <2>2 DEF Reschedule, QuickRetry, StoreOK, CacheOK, RequestOK, ServedOK
<1>9. CASE StopMonitoring(m) \/ AckLate(m)
  <2>1. LoaderOK'
    BY <1>9, <1>w DEF StopMonitoring, AckLate, Set, LoaderOK
  <2>2. QueueOK' /\ FaultsOK'
    <3>1. inflight' \in [Monitors -> BOOLEAN] /\ dropped' \subseteq Monitors /\ FaultsOK'
      BY <1>9, AckType DEF StopMonitoring, AckLate, QueueOK
    <3>2. scheduled' = scheduled /\ lateAck' \in [Monitors -> BOOLEAN]
      BY <1>9 DEF StopMonitoring, AckLate, Set, QueueOK
    <3> QED
      BY <3>1, <3>2 DEF QueueOK
  <2> QED
    BY <1>9, <2>1, <2>2 DEF StopMonitoring, AckLate, StoreOK, CacheOK, RequestOK, ServedOK
<1>6. CASE Reclaim(m)
  <2>1. QueueOK'
    BY <1>6, ScheduleType DEF Reclaim, Set, QueueOK
  <2> QED
    BY <1>6, <2>1 DEF Reclaim, StoreOK, CacheOK, LoaderOK, RequestOK, FaultsOK, ServedOK
<1>7. CASE CacheExpires(m)
  <2>1. CacheOK'
    BY <1>7 DEF CacheExpires, Set, CacheOK
  <2> QED
    BY <1>7, <2>1 DEF CacheExpires, StoreOK, QueueOK, LoaderOK, RequestOK, FaultsOK, ServedOK
<1> QED
  BY <1>1, <1>2, <1>3, <1>4, <1>5, <1>6, <1>7, <1>8, <1>9 DEF LoaderStep

\* A crash only forgets.
LEMMA CrashType ==
    ASSUME TypeOK, NEW P \in SUBSET Requests, NEW M \in SUBSET Monitors, Crash(P, M)
    PROVE  TypeOK'
<1> USE TypeParts DEF store, queue
<1>1. RequestOK'
  BY RequestRecords DEF Crash, RequestOK
<1>2. LoaderOK'
  BY DEF Crash, LoaderOK, Loader
<1>3. dropped' \subseteq Monitors
  <2>1. {request[p].mon : p \in {q \in P : request[q].step = "schedule"}} \subseteq Monitors
    BY RequestFields DEF RequestOK
  <2> QED
    BY <2>1 DEF Crash, Drop, QueueOK
<1>4. QueueOK' /\ FaultsOK'
  BY <1>3, FaultType DEF Crash, QueueOK, FaultsOK
<1> QED
  BY <1>1, <1>2, <1>4 DEF Crash, StoreOK, CacheOK, ServedOK

\* Every step keeps the types.
LEMMA TypeStep == TypeOK /\ [Next]_vars => TypeOK'
<1> SUFFICES ASSUME TypeOK, [Next]_vars PROVE TypeOK'
  OBVIOUS
<1>1. CASE UNCHANGED vars
  BY <1>1 DEF vars, store, queue, TypeOK
<1> QED
  BY <1>1, NewRequestType, RequestStepType, LoaderStepType, CrashType DEF Next

\* Type correctness of the monitor service: whatever requests, the executor and failed
\* calls leave behind in the tables, the cache and the queue is something the code can read.
THEOREM TypeCorrect == Spec => []TypeOK
<1>1. Init => TypeOK
  BY MonitorServiceAssumption, RequestRecords DEF Init, TypeOK, States, Waiting
<1> QED
  BY <1>1, TypeStep, PTL DEF Spec

-----------------------------------------------------------------------------
(* A monitor is only served to its owner *)

\* A row, once inserted, stays, and so does its owner.
LEMMA RowsStay ==
    ASSUME TypeOK, [Next]_vars, NEW m \in Monitors, row[m] # "none"
    PROVE  row'[m] # "none" /\ owner'[m] = owner[m]
<1> USE DEF store, queue
<1>1. ASSUME NEW p \in Requests, NewRequest(p) PROVE UNCHANGED <<row, owner>>
  BY <1>1 DEF NewRequest, IncrementMonitorCount, GetCachedMonitor, ReadStatus, RejectStatus
<1>2. ASSUME NEW p \in Requests, InsertMonitor(p) PROVE row'[m] # "none" /\ owner'[m] = owner[m]
  BY <1>2 DEF InsertMonitor, InsertRow, Set, TypeOK
<1>3. ASSUME NEW p \in Requests, SetEnabled(p) PROVE row'[m] # "none" /\ owner'[m] = owner[m]
  BY <1>3 DEF SetEnabled, UpdateRow, State, Set, TypeOK
<1>4. ASSUME NEW p \in Requests, RequestStep(p), ~ InsertMonitor(p), ~ SetEnabled(p)
      PROVE  UNCHANGED <<row, owner>>
  BY <1>4 DEF RequestStep, ScheduleRequested, GetRow, CacheAndServe, DelCached, DelSchedule,
     Answer
<1>5. ASSUME NEW n \in Monitors, LoaderStep(n) \/ CacheExpires(n) PROVE UNCHANGED <<row, owner>>
  BY <1>5 DEF LoaderStep, StartLoad, LoadCached, LoadRow, LoadFill, Acknowledge, Reschedule,
     StopMonitoring, QuickRetry, AckLate, Reclaim, CacheExpires
<1>6. CASE UNCHANGED vars
  BY <1>6 DEF vars
<1>7. ASSUME NEW P, NEW M, Crash(P, M) PROVE UNCHANGED <<row, owner>>
  BY <1>7 DEF Crash
<1> QED
  BY <1>1, <1>2, <1>3, <1>4, <1>5, <1>6, <1>7 DEF Next

\* What was read from a row, into the cache, by an executor worker or by a request, and
\* what was served, is about a row that exists and, where it names one, about its owner.
CacheExists   == \A m \in Monitors : Cached(m) \/ loader[m].seen # "none" => row[m] # "none"
RequestExists == \A p \in Requests : request[p].step = "fill" =>
                     Found(request[p].mon, request[p].user)
ServedExists  == \A s \in served : Found(s[2], s[1])
SeenExists    == CacheExists /\ RequestExists /\ ServedExists

\* A step that reads nothing new keeps all of it.
LEMMA NothingSeen ==
    ASSUME TypeOK, SeenExists, [Next]_vars
    PROVE  /\ (\A m \in Monitors : /\ cache'[m] \in {cache[m], "none"}
                                    /\ loader'[m].seen \in {loader[m].seen, "none"})
                 => CacheExists'
           /\ (\A p \in Requests : request'[p].step = "fill" => request'[p] = request[p])
                 => RequestExists'
           /\ served' = served => ServedExists'
<1>1. \A m \in Monitors : \A u : Found(m, u) => Found(m, u)'
  BY RowsStay DEF Found
<1>2. \A m \in Monitors : row[m] # "none" => row'[m] # "none"
  BY RowsStay
<1>3. ASSUME NEW p \in Requests, request[p].step = "fill" PROVE request[p].mon \in Monitors
  BY <1>3, RequestFields DEF TypeOK
<1>4. \A s \in served : s[2] \in Monitors
  BY DEF TypeOK
<1> QED
  BY <1>1, <1>2, <1>3, <1>4 DEF SeenExists, CacheExists, Cached, RequestExists, ServedExists, Found

\* Every read is of a row that exists and belongs to the user it is read for.
LEMMA SeenStep == TypeOK /\ SeenExists /\ [Next]_vars => SeenExists'
<1> SUFFICES ASSUME TypeOK, SeenExists, [Next]_vars PROVE SeenExists'
  OBVIOUS
<1> USE DEF store, queue
<1>k. /\ UNCHANGED <<cache, loader>> => CacheExists'
      /\ UNCHANGED request => RequestExists'
      /\ UNCHANGED served => ServedExists'
  BY NothingSeen
<1>d. ASSUME NEW p \in Requests, NEW q, request' = [request EXCEPT ![p] = q], q.step # "fill"
      PROVE  RequestExists'
  BY <1>d, NothingSeen DEF TypeOK
<1>r. Ready.step # "fill"
  BY DEF Ready
<1>1. ASSUME NEW p \in Requests, NewRequest(p) PROVE SeenExists'
  <2>1. UNCHANGED <<cache, loader, row, owner>>
    BY <1>1 DEF NewRequest, IncrementMonitorCount, GetCachedMonitor, ReadStatus, RejectStatus
  <2>2. RequestExists'
    <3>1. \/ UNCHANGED request
          \/ \E q : q.step # "fill" /\ request' = [request EXCEPT ![p] = q]
      BY <1>1 DEF NewRequest, IncrementMonitorCount, GetCachedMonitor, ReadStatus, RejectStatus
    <3> QED
      BY <3>1, <1>d, <1>k
  <2>3. ServedExists'
    <3>1. CASE UNCHANGED served
      BY <3>1, <1>k
    <3>2. ASSUME NEW u \in Users, NEW m \in Monitors,
                 Cached(m), owner[m] = u, served' = served \cup {<<u, m>>}
          PROVE  ServedExists'
      BY <2>1, <3>2 DEF SeenExists, CacheExists, ServedExists, Found
    <3> QED
      BY <1>1, <3>1, <3>2
      DEF NewRequest, IncrementMonitorCount, GetCachedMonitor, ReadStatus, RejectStatus
  <2> QED
    BY <2>1, <2>2, <2>3, <1>k DEF SeenExists
<1>2. ASSUME NEW p \in Requests, GetRow(p) PROVE SeenExists'
  <2>1. UNCHANGED <<cache, loader, served, row, owner>>
    BY <1>2 DEF GetRow
  <2>2. RequestExists'
    <3>1. CASE Done(p)
      BY <3>1, <1>d, <1>r DEF Done
    <3>2. CASE /\ Found(request[p].mon, request[p].user)
               /\ request' = [request EXCEPT ![p] =
                     [step |-> "fill", user |-> request[p].user, mon |-> request[p].mon,
                      seen |-> row[request[p].mon]]]
      BY <2>1, <3>2 DEF SeenExists, RequestExists, Found, TypeOK
    <3> QED
      BY <1>2, <3>1, <3>2 DEF GetRow
  <2> QED
    BY <2>1, <2>2, <1>k DEF SeenExists
<1>3. ASSUME NEW p \in Requests, CacheAndServe(p) PROVE SeenExists'
  <2>1. /\ Found(request[p].mon, request[p].user)
        /\ request[p].mon \in Monitors
        /\ UNCHANGED <<row, owner, loader>>
    BY <1>3, RequestFields DEF CacheAndServe, SeenExists, RequestExists, TypeOK
  <2>2. CacheExists'
    BY <1>3, <2>1 DEF CacheAndServe, Set, SeenExists, CacheExists, Cached, Found, TypeOK
  <2>3. ServedExists'
    BY <1>3, <2>1 DEF CacheAndServe, SeenExists, ServedExists, Found
  <2>4. RequestExists'
    BY <1>3, <1>d, <1>r DEF CacheAndServe, Done
  <2> QED
    BY <2>2, <2>3, <2>4 DEF SeenExists
<1>4. ASSUME NEW p \in Requests, RequestStep(p), ~ GetRow(p), ~ CacheAndServe(p)
      PROVE  SeenExists'
  <2>1. UNCHANGED <<loader, served>>
    BY <1>4 DEF RequestStep, InsertMonitor, ScheduleRequested, SetEnabled, DelCached, DelSchedule,
       Answer
  <2>2. \A m \in Monitors : cache'[m] \in {cache[m], "none"}
    BY <1>4 DEF RequestStep, InsertMonitor, ScheduleRequested, SetEnabled, DelCached, DelSchedule,
       Answer, Set, TypeOK
  <2>3. \E q : q.step # "fill" /\ request' = [request EXCEPT ![p] = q]
    <3>1. CASE Done(p)
      BY <3>1, <1>r DEF Done
    <3>2. CASE InsertMonitor(p) \/ SetEnabled(p)
      BY <3>1, <3>2 DEF InsertMonitor, SetEnabled
    <3>3. CASE DelCached(p)
      <4>1. request[p] = [step |-> "delCache", mon |-> request[p].mon]
        BY <3>3, RequestFields DEF DelCached, TypeOK
      <4>2. [request[p] EXCEPT !.step = "delSchedule"].step = "delSchedule"
        BY <4>1
      <4> QED
        BY <3>3, <4>2 DEF DelCached, Step
    <3> QED
      BY <1>4, <3>1, <3>2, <3>3 DEF RequestStep, ScheduleRequested, DelSchedule, Answer
  <2>4. CacheExists'
    BY <2>1, <2>2, NothingSeen
  <2> QED
    BY <2>1, <2>3, <2>4, <1>d, <1>k DEF SeenExists
<1>5. ASSUME NEW m \in Monitors, LoaderStep(m) \/ CacheExpires(m) PROVE SeenExists'
  <2>1. UNCHANGED <<request, served, row>>
    BY <1>5 DEF LoaderStep, StartLoad, LoadCached, LoadRow, LoadFill, Acknowledge, Reschedule,
       StopMonitoring, QuickRetry, AckLate, Reclaim, CacheExpires
  <2>2. /\ cache'[m] \in {cache[m], loader[m].seen, "none"}
        /\ loader'[m].seen \in {loader[m].seen, cache[m], row[m], "none"}
        /\ \A n \in Monitors \ {m} : cache'[n] = cache[n] /\ loader'[n] = loader[n]
    BY <1>5 DEF LoaderStep, StartLoad, LoadCached, LoadRow, LoadFill, Acknowledge, Reschedule,
       StopMonitoring, QuickRetry, AckLate, Reclaim, CacheExpires, Use, LoadStep, Set, Waiting,
       TypeOK
  <2>3. CacheExists'
    BY <2>1, <2>2 DEF SeenExists, CacheExists, Cached
  <2> QED
    BY <2>1, <2>3, <1>k DEF SeenExists
<1>6. CASE UNCHANGED vars
  BY <1>6, <1>k DEF vars, SeenExists
<1>7. ASSUME NEW P \in SUBSET Requests, NEW M \in SUBSET Monitors, Crash(P, M)
      PROVE  SeenExists'
  <2>1. \A m \in Monitors : cache'[m] = cache[m] /\ loader'[m].seen \in {loader[m].seen, "none"}
    BY <1>7 DEF Crash, Waiting, TypeOK
  <2>2. \A p \in Requests : request'[p].step = "fill" => request'[p] = request[p]
    BY <1>7, <1>r DEF Crash, TypeOK
  <2> QED
    BY <1>7, <2>1, <2>2, NothingSeen DEF Crash, SeenExists
<1> QED
  BY <1>1, <1>2, <1>3, <1>4, <1>5, <1>6, <1>7 DEF Next

\* Through the cache and past it, a monitor is only ever served to its owner, for any
\* number of users and requests.
THEOREM OnlyOwners == Spec => []ServedToOwner
<1>1. Init => SeenExists
  BY DEF Init, SeenExists, CacheExists, Cached, Waiting, RequestExists, Ready, ServedExists
<1>2. SeenExists => ServedToOwner
  BY DEF SeenExists, ServedExists, Found, ServedToOwner
<1> QED
  BY <1>1, <1>2, SeenStep, TypeCorrect, PTL DEF Spec

-----------------------------------------------------------------------------
(* An enabled monitor is in the schedule, inflight, or about to be scheduled *)

\* EnabledIsTracked of one monitor.
Pending(m) == \E p \in Requests : request[p].step = "schedule" /\ request[p].mon = m
Tracked(m) == row[m] = "enabled" /\ m \notin dropped =>
                  scheduled[m] \/ inflight[m] \/ loader[m].step = "reschedule" \/ Pending(m)

\* A monitor that a step leaves alone, but for requests other than the ones about to
\* schedule it, stays tracked.
LEMMA LeftAlone ==
    ASSUME NEW m \in Monitors, Tracked(m),
           row'[m] = row[m], scheduled'[m] = scheduled[m], inflight'[m] = inflight[m],
           loader'[m] = loader[m], m \in dropped => m \in dropped',
           \A p \in Requests : request[p].step = "schedule" /\ request[p].mon = m =>
               request'[p] = request[p]
    PROVE  Tracked(m)'
  BY DEF Tracked, Pending

\* A ZADD that works and one that fails both account for the monitor.
LEMMA ScheduleAccounts ==
    ASSUME TypeOK, NEW m \in Monitors, ScheduleMonitor(m)
    PROVE  /\ scheduled'[m] \/ inflight[m] \/ m \in dropped'
           /\ \A n \in Monitors : n # m => scheduled'[n] = scheduled[n]
           /\ \A n \in Monitors : n \in dropped => n = m \/ n \in dropped'
  BY DEF ScheduleMonitor, Schedule, Drop, Set, TypeOK

\* So does an AckJob that nothing follows.
LEMMA AckAccounts ==
    ASSUME TypeOK, NEW m \in Monitors, AckLast(m)
    PROVE  /\ scheduled[m] \/ inflight'[m] \/ m \in dropped'
           /\ \A n \in Monitors : n # m => inflight'[n] = inflight[n]
           /\ dropped \subseteq dropped'
  BY DEF AckLast, AckJob, Set, TypeOK

\* A request that changes changes alone, and was not about to schedule anything unless
\* that is the call it makes.
LEMMA TrackedRequest ==
    ASSUME TypeOK, EnabledIsTracked, NEW p \in Requests, NewRequest(p) \/ RequestStep(p),
           NEW m \in Monitors
    PROVE  Tracked(m)'
<1> USE DEF store, queue
<1>t. Tracked(m)
  BY DEF EnabledIsTracked, Tracked, Pending
<1>f. request[p] \in Request
  BY DEF TypeOK
<1>l. loader'[m] = loader[m]
  BY DEF NewRequest, IncrementMonitorCount, GetCachedMonitor, ReadStatus, RejectStatus,
     RequestStep, InsertMonitor, ScheduleRequested, GetRow, CacheAndServe, SetEnabled,
     DelCached, DelSchedule, Answer
<1>o. ASSUME NEW q, request' = [request EXCEPT ![p] = q]
      PROVE  request'[p] = q /\ \A r \in Requests \ {p} : request'[r] = request[r]
  BY <1>o DEF TypeOK
<1>e. ASSUME request[p].step # "schedule", \A r \in Requests \ {p} : request'[r] = request[r],
             row'[m] = row[m], scheduled'[m] = scheduled[m], inflight'[m] = inflight[m],
             m \in dropped => m \in dropped'
      PROVE  Tracked(m)'
  BY <1>e, <1>l, <1>t, LeftAlone
<1>1. CASE NewRequest(p)
  <2>1. /\ request[p] = Ready
        /\ UNCHANGED <<row, scheduled, inflight, dropped>>
        /\ UNCHANGED request \/ \E q : request' = [request EXCEPT ![p] = q]
    BY <1>1 DEF NewRequest, IncrementMonitorCount, GetCachedMonitor, ReadStatus, RejectStatus
  <2> QED
    BY <2>1, <1>e, <1>o DEF Ready
<1>2. CASE InsertMonitor(p)
  <2>0. UNCHANGED <<scheduled, inflight>> /\ dropped \subseteq dropped'
    BY <1>2 DEF InsertMonitor, Drop
  <2>1. CASE Done(p) /\ UNCHANGED row
    BY <1>2, <2>0, <2>1, <1>e, <1>o DEF InsertMonitor, Done
  <2>2. ASSUME NEW n \in Monitors, row' = Set(row, n, "enabled"),
               request' = [request EXCEPT ![p] = [step |-> "schedule", mon |-> n]]
        PROVE  Tracked(m)'
    <3>1. CASE m = n
      BY <2>2, <3>1, <1>o DEF Tracked, Pending
    <3>2. CASE m # n
      BY <1>2, <2>0, <2>2, <3>2, <1>e, <1>o DEF InsertMonitor, Set, TypeOK
    <3> QED
      BY <3>1, <3>2
  <2>3. ASSUME NEW n \in Monitors, row' = Set(row, n, "enabled"), Done(p), Drop({n})
        PROVE  Tracked(m)'
    <3>1. CASE m = n
      BY <2>0, <2>3, <3>1 DEF Tracked, Drop
    <3>2. CASE m # n
      BY <1>2, <2>0, <2>3, <3>2, <1>e, <1>o DEF InsertMonitor, Done, Set, TypeOK
    <3> QED
      BY <3>1, <3>2
  <2> QED
    BY <1>2, <2>1, <2>2, <2>3 DEF InsertMonitor, InsertRow
<1>3. CASE ScheduleRequested(p)
  <2>1. request[p].mon \in Monitors
    BY <1>3, <1>f, RequestFields DEF ScheduleRequested
  <2>2. CASE request[p].mon = m
    BY <1>3, <2>2, ScheduleAccounts DEF ScheduleRequested, Tracked
  <2>3. CASE request[p].mon # m
    <3>1. scheduled'[m] = scheduled[m] /\ (m \in dropped => m \in dropped')
      BY <1>3, <2>1, <2>3, ScheduleAccounts DEF ScheduleRequested
    <3>2. row'[m] = row[m] /\ inflight'[m] = inflight[m]
      BY <1>3 DEF ScheduleRequested
    <3>3. \A r \in Requests : request[r].step = "schedule" /\ request[r].mon = m =>
             request'[r] = request[r]
      BY <1>3, <2>3, <1>o DEF ScheduleRequested, Done
    <3> QED
      BY <3>1, <3>2, <3>3, <1>l, <1>t, LeftAlone
  <2> QED
    BY <2>2, <2>3
<1>4. CASE GetRow(p) \/ CacheAndServe(p) \/ Answer(p)
  BY <1>4, <1>e, <1>o DEF GetRow, CacheAndServe, Answer, Done
<1>5. CASE SetEnabled(p)
  <2>1. request[p].mon \in Monitors
    BY <1>5, <1>f, RequestFields DEF SetEnabled
  <2>0. UNCHANGED <<scheduled, inflight>> /\ dropped \subseteq dropped'
    BY <1>5 DEF SetEnabled, Drop
  <2>2. CASE Done(p) /\ UNCHANGED row
    BY <1>5, <2>0, <2>2, <1>e, <1>o DEF SetEnabled, Done
  <2>3. CASE /\ row' = Set(row, request[p].mon, State(request[p].enable))
             /\ request' = [request EXCEPT ![p] =
                   [step |-> IF request[p].enable THEN "schedule" ELSE "delCache",
                    mon |-> request[p].mon]]
    <3>1. CASE request[p].mon = m
      BY <2>1, <2>3, <3>1, <1>o DEF Tracked, Pending, Set, State, TypeOK
    <3>2. CASE request[p].mon # m
      BY <1>5, <2>0, <2>1, <2>3, <3>2, <1>e, <1>o DEF SetEnabled, Set, TypeOK
    <3> QED
      BY <3>1, <3>2
  <2>4. CASE /\ row' = Set(row, request[p].mon, State(request[p].enable))
             /\ Done(p) /\ Drop({request[p].mon})
    <3>1. CASE request[p].mon = m
      BY <2>0, <2>4, <3>1 DEF Tracked, Drop
    <3>2. CASE request[p].mon # m
      BY <1>5, <2>0, <2>1, <2>4, <3>2, <1>e, <1>o DEF SetEnabled, Done, Set, TypeOK
    <3> QED
      BY <3>1, <3>2
  <2> QED
    BY <1>5, <2>2, <2>3, <2>4 DEF SetEnabled, UpdateRow
<1>6. CASE DelCached(p)
  BY <1>6, <1>e, <1>o DEF DelCached, Step
<1>7. CASE DelSchedule(p)
  <2>1. request[p].mon \in Monitors
    BY <1>7, <1>f, RequestFields DEF DelSchedule
  <2>2. CASE UNCHANGED <<scheduled, dropped>>
    BY <1>7, <2>2, <1>e, <1>o DEF DelSchedule, Done
  <2>3. CASE /\ scheduled' = Set(scheduled, request[p].mon, FALSE)
             /\ dropped' = IF row[request[p].mon] = "enabled" /\ ~inflight[request[p].mon]
                              THEN dropped \cup {request[p].mon} ELSE dropped
    <3>1. CASE request[p].mon = m
      BY <1>7, <2>3, <3>1 DEF DelSchedule, Tracked
    <3>2. CASE request[p].mon # m
      BY <1>7, <2>1, <2>3, <3>2, <1>e, <1>o DEF DelSchedule, Done, Set, TypeOK
    <3> QED
      BY <3>1, <3>2
  <2> QED
    BY <1>7, <2>2, <2>3 DEF DelSchedule
<1> QED
  BY <1>1, <1>2, <1>3, <1>4, <1>5, <1>6, <1>7 DEF RequestStep

\* The pipeline takes a monitor out of one set when it is in the other, schedules it, or
\* is on record for dropping it.
LEMMA TrackedLoader ==
    ASSUME TypeOK, EnabledIsTracked, NEW n \in Monitors, LoaderStep(n) \/ CacheExpires(n),
           NEW m \in Monitors
    PROVE  Tracked(m)'
<1> USE DEF store, queue
<1>t. Tracked(m)
  BY DEF EnabledIsTracked, Tracked, Pending
<1>1. UNCHANGED <<row, request>>
  BY DEF LoaderStep, StartLoad, LoadCached, LoadRow, LoadFill, Acknowledge, Reschedule,
     StopMonitoring, QuickRetry, AckLate, Reclaim, CacheExpires
<1>l. ASSUME NEW k \in Monitors, k # n PROVE loader'[k] = loader[k]
  BY <1>l DEF LoaderStep, StartLoad, LoadCached, LoadRow, LoadFill, Acknowledge, Reschedule,
     StopMonitoring, QuickRetry, AckLate, Reclaim, CacheExpires, Use, LoadStep, Set, TypeOK
<1>2. \/ /\ UNCHANGED <<scheduled, inflight, dropped>>
         /\ loader[n].step # "reschedule"
      \/ UNCHANGED <<scheduled, inflight, dropped, loader>>
      \/ /\ \/ scheduled'[n] \/ inflight'[n] \/ n \in dropped'
            \/ loader'[n].step = "reschedule"
         /\ \A k \in Monitors : k # n => scheduled'[k] = scheduled[k]
         /\ \A k \in Monitors : k # n => inflight'[k] = inflight[k]
         /\ \A k \in Monitors : k \in dropped => k = n \/ k \in dropped'
  <2>1. CASE StartLoad(n)
    BY <2>1 DEF StartLoad, Set, TypeOK
  <2>2. CASE LoadRow(n) \/ Reclaim(n)
    BY <2>2 DEF LoadRow, Reclaim, Schedule, Set, TypeOK
  <2>3. CASE Acknowledge(n)
    BY <2>3 DEF Acknowledge, AckJob, LoadStep, Set, TypeOK
  <2>4. CASE Reschedule(n) \/ QuickRetry(n)
    BY <2>4, ScheduleAccounts DEF Reschedule, QuickRetry
  <2>5. CASE StopMonitoring(n) \/ AckLate(n)
    BY <2>5, AckAccounts DEF StopMonitoring, AckLate
  <2>6. CASE LoadCached(n) \/ LoadFill(n)
    BY <2>6 DEF LoadCached, LoadFill
  <2>7. CASE CacheExpires(n)
    BY <2>7 DEF CacheExpires
  <2> QED
    BY <2>1, <2>2, <2>3, <2>4, <2>5, <2>6, <2>7 DEF LoaderStep
<1>3. CASE /\ m = n
           /\ \/ scheduled'[n] \/ inflight'[n] \/ n \in dropped'
              \/ loader'[n].step = "reschedule"
  BY <1>3 DEF Tracked
<1>4. CASE /\ scheduled'[m] = scheduled[m] /\ inflight'[m] = inflight[m]
           /\ loader[m].step = "reschedule" => loader'[m].step = "reschedule"
           /\ m \in dropped => m \in dropped'
  BY <1>1, <1>4, <1>t DEF Tracked, Pending
<1>5. CASE UNCHANGED <<scheduled, inflight, dropped>> /\ m = n
  BY <1>2, <1>3, <1>4, <1>5
<1>6. CASE m # n
  BY <1>2, <1>4, <1>6, <1>l
<1> QED
  BY <1>2, <1>3, <1>5, <1>6

\* A crash drops the monitors of whoever was about to schedule one.
LEMMA TrackedCrash ==
    ASSUME TypeOK, EnabledIsTracked, NEW P \in SUBSET Requests, NEW M \in SUBSET Monitors,
           Crash(P, M), NEW m \in Monitors
    PROVE  Tracked(m)'
<1> USE DEF store, queue
<1>t. Tracked(m)
  BY DEF EnabledIsTracked, Tracked, Pending
<1>1. UNCHANGED <<row, scheduled, inflight>> /\ dropped \subseteq dropped'
  BY DEF Crash, Drop
<1>2. CASE scheduled[m] \/ inflight[m]
  BY <1>1, <1>2 DEF Tracked
<1>3. CASE ~scheduled[m] /\ ~inflight[m] /\ loader[m].step = "reschedule"
  <2>1. CASE m \in M
    BY <1>3, <2>1 DEF Crash, Drop, Tracked
  <2>2. CASE m \notin M
    BY <1>3, <2>2 DEF Crash, Tracked
  <2> QED
    BY <2>1, <2>2
<1>4. ASSUME ~scheduled[m], ~inflight[m], NEW p \in Requests,
             request[p].step = "schedule", request[p].mon = m
      PROVE  Tracked(m)'
  <2>1. CASE p \in P
    BY <1>4, <2>1 DEF Crash, Drop, Tracked
  <2>2. CASE p \notin P
    <3>1. request'[p] = request[p]
      BY <2>2 DEF Crash
    <3> QED
      BY <1>4, <3>1 DEF Tracked, Pending
  <2> QED
    BY <2>1, <2>2
<1>5. CASE row[m] # "enabled" \/ m \in dropped
  BY <1>1, <1>5 DEF Tracked
<1> QED
  BY <1>t, <1>2, <1>3, <1>4, <1>5 DEF Tracked, Pending

\* Through failed and in-doubt calls, crashes and late acknowledgements, an enabled monitor
\* drops out of both Redis sets, with nobody about to schedule it, by the exceptions that
\* EnabledIsTracked names and no other way, for any number of monitors and requests.
THEOREM EnabledTracked == Spec => []EnabledIsTracked
<1>1. Init => EnabledIsTracked
  BY DEF Init, EnabledIsTracked
<1>2. TypeOK /\ EnabledIsTracked /\ [Next]_vars => EnabledIsTracked'
  <2> SUFFICES ASSUME TypeOK, EnabledIsTracked, [Next]_vars PROVE EnabledIsTracked'
    OBVIOUS
  <2>1. CASE UNCHANGED vars
    BY <2>1 DEF vars, store, queue, EnabledIsTracked
  <2>2. CASE Next
    <3>1. \A m \in Monitors : Tracked(m)'
      BY <2>2, TrackedRequest, TrackedLoader, TrackedCrash DEF Next
    <3> QED
      BY <3>1 DEF EnabledIsTracked, Tracked, Pending
  <2> QED
    BY <2>1, <2>2
<1> QED
  BY <1>1, <1>2, TypeCorrect, PTL DEF Spec

-----------------------------------------------------------------------------
(* The quota: creations that have counted a monitor and not inserted it yet are counted *)

Owned(u)     == {m \in Monitors : owner[m] = u}
Inserting(u) == {p \in Requests : request[p].step = "insert" /\ request[p].user = u}

\* QuotaExact of one user.
QuotaOf(u) == /\ Counted(u) <= monitorsCount[u] /\ monitorsCount[u] <= MonitorQuota
              /\ faults = 0 => Counted(u) = monitorsCount[u]

\* Only a monitor without an owner can be inserted, so an insertion takes nobody's away.
NoRowNoOwner == \A m \in Monitors : row[m] = "none" => owner[m] = NoOne

\* What the quota counts: a user's rows and the insertions still to come.
LEMMA CountedParts ==
    \A u : /\ Counted(u) = Cardinality(Owned(u)) + Cardinality(Inserting(u))
           /\ Counted(u)' = Cardinality(Owned(u)') + Cardinality(Inserting(u)')
  BY DEF Counted, Owned, Inserting

\* Both are finite, so they can be counted.
LEMMA CountedFinite ==
    \A u : /\ IsFiniteSet(Owned(u)) /\ IsFiniteSet(Inserting(u))
           /\ Cardinality(Owned(u)) \in Nat /\ Cardinality(Inserting(u)) \in Nat
<1> SUFFICES ASSUME NEW u
             PROVE  /\ IsFiniteSet(Owned(u)) /\ IsFiniteSet(Inserting(u))
                    /\ Cardinality(Owned(u)) \in Nat /\ Cardinality(Inserting(u)) \in Nat
  OBVIOUS
<1>1. Owned(u) \in SUBSET Monitors /\ Inserting(u) \in SUBSET Requests
  BY DEF Owned, Inserting
<1>2. IsFiniteSet(Owned(u)) /\ IsFiniteSet(Inserting(u))
  BY <1>1, FS_Subset, MonitorServiceAssumption
<1> QED
  BY <1>2, FS_CardinalityType

\* A step that moves no request into or out of "insert" and no monitor to a new owner
\* leaves the quota as it is, and a failed call only loosens it.
LEMMA QuotaUnmoved ==
    ASSUME TypeOK, TypeOK', faults' = 0 => faults = 0, NEW u \in Users, QuotaOf(u),
           monitorsCount' = monitorsCount, Owned(u)' = Owned(u), Inserting(u)' = Inserting(u)
    PROVE  QuotaOf(u)'
<1>1. Counted(u)' = Counted(u)
  BY CountedParts
<1> QED
  BY <1>1 DEF QuotaOf

\* Only the request a step belongs to enters or leaves "insert".
Others(p) == \A r \in Requests : r # p => request'[r] = request[r]

\* A step of one request adds it to, or removes it from, those about to insert.
LEMMA InsertingMoves ==
    ASSUME NEW p \in Requests, Others(p), NEW u
    PROVE  /\ request'[p].step = "insert" /\ request'[p].user = u =>
                  Inserting(u)' = Inserting(u) \cup {p}
           /\ ~ (request'[p].step = "insert" /\ request'[p].user = u) =>
                  Inserting(u)' = Inserting(u) \ {p}
  BY DEF Inserting, Others

\* A request that was not about to insert and is not now moves nobody's quota.
LEMMA InsertingStays ==
    ASSUME NEW p \in Requests, Others(p), NEW u,
           request[p].step # "insert", request'[p].step # "insert"
    PROVE  Inserting(u)' = Inserting(u)
  BY DEF Inserting, Others

\* The UPDATE counts one more for the user, and the request takes it with it.
LEMMA QuotaIncrement ==
    ASSUME TypeOK, TypeOK', NEW p \in Requests, NEW v \in Users, IncrementMonitorCount(p, v),
           NEW u \in Users, QuotaOf(u)
    PROVE  QuotaOf(u)'
<1> USE DEF store, queue
<1> DEFINE q == [step |-> "insert", user |-> v]
<1>1. /\ request'[p] = q /\ Others(p)
      /\ p \notin Inserting(u)
      /\ Owned(u)' = Owned(u) /\ faults' = faults
  BY DEF IncrementMonitorCount, Inserting, Owned, Ready, Others, TypeOK
<1>2. CASE u = v
  <2>1. Inserting(u)' = Inserting(u) \cup {p}
    BY <1>1, <1>2, InsertingMoves
  <2>2. Cardinality(Inserting(u)') = Cardinality(Inserting(u)) + 1
    BY <1>1, <2>1, CountedFinite, FS_AddElement
  <2>3. Counted(u)' = Counted(u) + 1 /\ Counted(u) \in Nat
    BY <1>1, <2>2, CountedParts, CountedFinite
  <2>4. monitorsCount'[u] = monitorsCount[u] + 1 /\ monitorsCount[u] < MonitorQuota
    BY <1>2 DEF IncrementMonitorCount, HasQuota, TypeOK
  <2>5. monitorsCount[u] \in Nat
    BY DEF TypeOK
  <2> QED
    BY <1>1, <2>3, <2>4, <2>5, MonitorServiceAssumption DEF QuotaOf
<1>3. CASE u # v
  <2>1. Inserting(u)' = Inserting(u) \ {p}
    BY <1>1, <1>3, InsertingMoves
  <2>2. Counted(u)' = Counted(u)
    BY <1>1, <2>1, CountedParts
  <2>3. monitorsCount'[u] = monitorsCount[u]
    BY <1>3 DEF IncrementMonitorCount, TypeOK
  <2> QED
    BY <1>1, <2>2, <2>3 DEF QuotaOf
<1> QED
  BY <1>2, <1>3

\* The INSERT turns the request's monitor into a row; when it fails the count stays and
\* the monitor is nobody's.
LEMMA QuotaInsert ==
    ASSUME TypeOK, TypeOK', NoRowNoOwner, NEW p \in Requests, InsertMonitor(p),
           NEW u \in Users, QuotaOf(u)
    PROVE  QuotaOf(u)'
<1> USE DEF store, queue
<1>f. request[p].step = "insert" /\ request[p].user \in Users
  BY RequestFields DEF InsertMonitor, TypeOK
<1>n. Counted(u) \in Nat /\ monitorsCount[u] \in Nat /\ monitorsCount' = monitorsCount
  BY CountedParts, CountedFinite DEF TypeOK, InsertMonitor
<1>z. faults' = 0 => faults = 0
  BY FaultType DEF InsertMonitor, TypeOK
<1>1. ASSUME NEW m \in Monitors, InsertRow(m, request[p].user),
             Done(p) \/ request' = [request EXCEPT ![p] = [step |-> "schedule", mon |-> m]]
      PROVE  QuotaOf(u)'
  <2>0. request'[p].step # "insert" /\ Others(p)
    BY <1>1 DEF Done, Ready, Others, TypeOK
  <2>1. Inserting(u)' = Inserting(u) \ {p}
    BY <2>0, InsertingMoves
  <2>2. owner[m] = NoOne /\ m \notin Owned(u)
    BY <1>1, UsersAssumption DEF InsertRow, NoRowNoOwner, Owned
  <2>3. owner'[m] = request[p].user /\ \A k \in Monitors : k # m => owner'[k] = owner[k]
    BY <1>1 DEF InsertRow, Set, TypeOK
  <2>4. CASE request[p].user = u
    <3>1. p \in Inserting(u)
      BY <1>f, <2>4 DEF Inserting
    <3>2. Owned(u)' = Owned(u) \cup {m}
      BY <2>3, <2>4 DEF Owned
    <3>3. Cardinality(Inserting(u)') = Cardinality(Inserting(u)) - 1
      BY <2>1, <3>1, CountedFinite, FS_RemoveElement
    <3>4. Cardinality(Owned(u)') = Cardinality(Owned(u)) + 1
      BY <2>2, <3>2, CountedFinite, FS_AddElement
    <3>5. Counted(u)' = Counted(u)
      BY <3>3, <3>4, CountedParts, CountedFinite
    <3> QED
      BY <1>n, <1>z, <3>5 DEF QuotaOf
  <2>5. CASE request[p].user # u
    <3>1. p \notin Inserting(u) /\ Owned(u)' = Owned(u)
      BY <2>2, <2>3, <2>5 DEF Inserting, Owned
    <3>2. Counted(u)' = Counted(u)
      BY <2>1, <3>1, CountedParts
    <3> QED
      BY <1>n, <1>z, <3>2 DEF QuotaOf
  <2> QED
    BY <2>4, <2>5
<1>2. CASE Fault /\ Done(p) /\ UNCHANGED <<row, owner>>
  <2>0. request'[p].step # "insert" /\ Others(p)
    BY <1>2 DEF Done, Ready, Others, TypeOK
  <2>1. Inserting(u)' = Inserting(u) \ {p} /\ Owned(u)' = Owned(u)
    BY <1>2, <2>0, InsertingMoves DEF Owned
  <2>2. /\ Cardinality(Inserting(u)') \in Nat
        /\ Cardinality(Inserting(u)') <= Cardinality(Inserting(u))
    <3>1. Inserting(u) \ {p} \in SUBSET Inserting(u) /\ IsFiniteSet(Inserting(u))
      BY CountedFinite
    <3>2. /\ IsFiniteSet(Inserting(u) \ {p})
          /\ Cardinality(Inserting(u) \ {p}) <= Cardinality(Inserting(u))
      BY <3>1, FS_Subset
    <3> QED
      BY <2>1, <3>2, FS_CardinalityType
  <2>3. Counted(u)' <= Counted(u) /\ Counted(u)' \in Nat
    <3>1. Cardinality(Owned(u)) \in Nat /\ Cardinality(Inserting(u)) \in Nat
      BY CountedFinite
    <3>2. /\ Counted(u) = Cardinality(Owned(u)) + Cardinality(Inserting(u))
          /\ Counted(u)' = Cardinality(Owned(u)) + Cardinality(Inserting(u)')
      BY <2>1, CountedParts
    <3> QED
      BY <2>2, <3>1, <3>2
  <2>4. faults' # 0
    BY <1>2, FaultType DEF TypeOK
  <2> QED
    BY <1>n, <2>3, <2>4, MonitorServiceAssumption DEF QuotaOf
<1> QED
  BY <1>1, <1>2 DEF InsertMonitor

\* A crash takes requests that have counted with it, and leaves the count.
LEMMA QuotaCrash ==
    ASSUME TypeOK, TypeOK', NEW P \in SUBSET Requests, NEW M \in SUBSET Monitors, Crash(P, M),
           NEW u \in Users, QuotaOf(u)
    PROVE  QuotaOf(u)'
<1> USE DEF store, queue
<1>1. UNCHANGED <<monitorsCount, owner>> /\ faults' # 0
  BY FaultType DEF Crash, TypeOK
<1>2. Inserting(u)' \in SUBSET Inserting(u) /\ Owned(u)' = Owned(u)
  BY <1>1 DEF Crash, Inserting, Owned, Ready, TypeOK
<1>3. /\ Cardinality(Inserting(u)') \in Nat
      /\ Cardinality(Inserting(u)') <= Cardinality(Inserting(u))
  BY <1>2, CountedFinite, FS_Subset, FS_CardinalityType
<1>4. /\ Counted(u) = Cardinality(Owned(u)) + Cardinality(Inserting(u))
      /\ Counted(u)' = Cardinality(Owned(u)) + Cardinality(Inserting(u)')
  BY <1>2, CountedParts
<1>5. Cardinality(Owned(u)) \in Nat /\ Cardinality(Inserting(u)) \in Nat
  BY CountedFinite
<1>6. Counted(u)' <= Counted(u) /\ Counted(u)' \in Nat /\ Counted(u) \in Nat
  BY <1>3, <1>4, <1>5
<1>7. monitorsCount[u] \in Nat
  BY DEF TypeOK
<1> QED
  BY <1>1, <1>6, <1>7, MonitorServiceAssumption DEF QuotaOf

\* Everything else neither counts nor inserts.
LEMMA QuotaRest ==
    ASSUME TypeOK, [Next]_vars
    PROVE  \/ \E p \in Requests, v \in Users : IncrementMonitorCount(p, v)
           \/ \E p \in Requests : InsertMonitor(p)
           \/ \E P \in SUBSET Requests, M \in SUBSET Monitors : Crash(P, M)
           \/ /\ UNCHANGED <<monitorsCount, owner>>
              /\ faults' = 0 => faults = 0
              /\ \A u : Inserting(u)' = Inserting(u)
<1> USE DEF store, queue
<1>f. Fault => (faults' = 0 => faults = 0)
  BY FaultType DEF TypeOK
<1>u. UNCHANGED request => \A u : Inserting(u)' = Inserting(u)
  BY DEF Inserting
<1>1. ASSUME NEW p \in Requests, NEW v \in Users, NEW m \in Monitors, NEW enable \in BOOLEAN,
             GetCachedMonitor(p, v, m) \/ ReadStatus(p, v, m, enable) \/ RejectStatus(p, enable)
      PROVE  /\ UNCHANGED <<monitorsCount, owner>>
             /\ faults' = 0 => faults = 0
             /\ \A u : Inserting(u)' = Inserting(u)
  <2>1. UNCHANGED <<monitorsCount, owner>> /\ (faults' = 0 => faults = 0)
    BY <1>1, <1>f DEF GetCachedMonitor, ReadStatus, RejectStatus
  <2>2. request[p].step # "insert"
    BY <1>1 DEF GetCachedMonitor, ReadStatus, RejectStatus, Ready
  <2>3. UNCHANGED request \/ (request'[p].step # "insert" /\ Others(p))
    BY <1>1 DEF GetCachedMonitor, ReadStatus, RejectStatus, Others, TypeOK
  <2> QED
    BY <2>1, <2>2, <2>3, <1>u, InsertingStays
<1>2. ASSUME NEW p \in Requests, RequestStep(p), ~ InsertMonitor(p)
      PROVE  /\ UNCHANGED <<monitorsCount, owner>>
             /\ faults' = 0 => faults = 0
             /\ \A u : Inserting(u)' = Inserting(u)
  <2>1. UNCHANGED <<monitorsCount, owner>> /\ (faults' = 0 => faults = 0)
    BY <1>2, <1>f DEF RequestStep, ScheduleRequested, ScheduleMonitor, GetRow, CacheAndServe,
                      SetEnabled, DelCached, DelSchedule, Answer
  <2>2. request[p].step # "insert"
    BY <1>2 DEF RequestStep, ScheduleRequested, GetRow, CacheAndServe, SetEnabled, DelCached,
                DelSchedule, Answer
  <2>3. request'[p].step # "insert" /\ Others(p)
    <3>1. CASE Done(p)
      BY <3>1 DEF Done, Ready, Others, TypeOK
    <3>2. CASE GetRow(p)
      BY <3>1, <3>2 DEF GetRow, Others, TypeOK
    <3>3. CASE SetEnabled(p)
      BY <3>1, <3>3 DEF SetEnabled, Others, TypeOK
    <3>4. CASE DelCached(p)
      <4>1. request' = [request EXCEPT ![p] = [request[p] EXCEPT !.step = "delSchedule"]]
        BY <3>4 DEF DelCached, Step
      <4>2. request[p] = [step |-> "delCache", mon |-> request[p].mon]
        BY <3>4, RequestFields DEF DelCached, TypeOK
      <4> QED
        BY <4>1, <4>2 DEF Others, TypeOK
    <3> QED
      BY <1>2, <3>1, <3>2, <3>3, <3>4
         DEF RequestStep, ScheduleRequested, CacheAndServe, DelSchedule, Answer
  <2> QED
    BY <2>1, <2>2, <2>3, InsertingStays
<1>3. ASSUME NEW m \in Monitors, LoaderStep(m) \/ CacheExpires(m)
      PROVE  UNCHANGED <<monitorsCount, owner, request>> /\ (faults' = 0 => faults = 0)
  BY <1>3, <1>f DEF LoaderStep, StartLoad, LoadCached, LoadRow, LoadFill, Acknowledge,
     Reschedule, StopMonitoring, QuickRetry, AckLate, AckLast, AckJob, ScheduleMonitor, Reclaim,
     CacheExpires
<1>4. CASE UNCHANGED vars
  BY <1>4, <1>u DEF vars
<1> QED
  BY <1>1, <1>2, <1>3, <1>4, <1>u DEF Next, NewRequest

\* However many creations interleave, for any number of users, monitors and requests: no
\* user exceeds the quota, and without failed calls the count is exact.
THEOREM QuotaKept == Spec => []QuotaExact
<1> DEFINE IInv == NoRowNoOwner /\ \A u \in Users : QuotaOf(u)
<1>1. Init => IInv
  <2> SUFFICES ASSUME Init PROVE IInv
    OBVIOUS
  <2>1. NoRowNoOwner
    BY DEF Init, NoRowNoOwner
  <2>2. ASSUME NEW u \in Users PROVE QuotaOf(u)
    <3>1. Owned(u) = {} /\ Inserting(u) = {}
      BY <2>2, UsersAssumption DEF Init, Owned, Inserting, Ready
    <3>2. Counted(u) = 0
      BY <3>1, FS_EmptySet, CountedParts
    <3> QED
      BY <3>2, MonitorServiceAssumption DEF Init, QuotaOf
  <2> QED
    BY <2>1, <2>2
<1>2. TypeOK /\ TypeOK' /\ IInv /\ [Next]_vars => IInv'
  <2> SUFFICES ASSUME TypeOK, TypeOK', NoRowNoOwner, \A u \in Users : QuotaOf(u), [Next]_vars
               PROVE  IInv'
    OBVIOUS
  <2>1. NoRowNoOwner'
    <3> SUFFICES ASSUME NEW m \in Monitors, row'[m] = "none" PROVE owner'[m] = NoOne
      BY DEF NoRowNoOwner
    <3>1. row[m] = "none" /\ owner[m] = NoOne
      BY RowsStay DEF NoRowNoOwner
    <3>2. CASE \E p \in Requests : InsertMonitor(p)
      BY <3>1, <3>2 DEF InsertMonitor, InsertRow, Set, TypeOK
    <3>3. CASE UNCHANGED owner
      BY <3>1, <3>3
    <3> QED
      BY <3>2, <3>3, QuotaRest DEF IncrementMonitorCount, Crash, store
  <2>2. ASSUME NEW u \in Users PROVE QuotaOf(u)'
    <3>1. CASE /\ UNCHANGED <<monitorsCount, owner>>
               /\ faults' = 0 => faults = 0
               /\ \A v : Inserting(v)' = Inserting(v)
      <4>1. Owned(u)' = Owned(u)
        BY <3>1 DEF Owned
      <4> QED
        BY <2>2, <3>1, <4>1, QuotaUnmoved
    <3> QED
      BY <2>2, <3>1, QuotaRest, QuotaIncrement, QuotaInsert, QuotaCrash
  <2> QED
    BY <2>1, <2>2
<1>3. IInv => QuotaExact
  BY DEF QuotaOf, QuotaExact
<1> QED
  BY <1>1, <1>2, <1>3, TypeCorrect, PTL DEF Spec

-----------------------------------------------------------------------------
(* What is stale dies out *)

\* Stale of one monitor, turned round and taken apart: the cache, the worker and every
\* request that is about to fill the cache have the Enabled v.
CacheFresh(m, v)   == cache[m] \in {"none", v}
LoaderFresh(m, v)  == /\ loader[m].step = "check" => v = "enabled"
                      /\ loader[m].step = "fill" => loader[m].seen = v
FillsFresh(p, m, v) == request[p].step = "fill" /\ request[p].mon = m => request[p].seen = v

\* The parts make up what Stale denies, before and after a step.
LEMMA FreshParts ==
    ASSUME NEW m \in Monitors
    PROVE  /\ ~Stale(m) <=> /\ CacheFresh(m, row[m]) /\ LoaderFresh(m, row[m])
                            /\ \A p \in Requests : FillsFresh(p, m, row[m])
           /\ ~Stale(m)' <=> /\ CacheFresh(m, row[m])' /\ LoaderFresh(m, row[m])'
                             /\ \A p \in Requests : FillsFresh(p, m, row[m])'
  BY DEF Stale, CacheFresh, LoaderFresh, FillsFresh

\* A request takes the row as it is or forgets what it took, and fills the cache with it.
LEMMA FreshRequest ==
    ASSUME TypeOK, NEW p \in Requests, NewRequest(p) \/ RequestStep(p), NEW m \in Monitors,
           CacheFresh(m, row[m]), \A r \in Requests : FillsFresh(r, m, row[m])
    PROVE  /\ cache'[m] \in {"none", row[m]}
           /\ \A r \in Requests : request'[r].step = "fill" /\ request'[r].mon = m =>
                 request'[r].seen = row[m]
           /\ UNCHANGED loader
<1> USE DEF store, queue
<1> DEFINE Fresh(q) == q.step = "fill" /\ q.mon = m => q.seen = row[m]
<1>o. ASSUME NEW q, Fresh(q), request' = [request EXCEPT ![p] = q]
      PROVE  \A r \in Requests : Fresh(request'[r])
  BY <1>o DEF FillsFresh, TypeOK
<1>n. ASSUME NEW q, q.step # "fill", request' = [request EXCEPT ![p] = q]
      PROVE  \A r \in Requests : Fresh(request'[r])
  BY <1>n, <1>o
<1>u. UNCHANGED request => \A r \in Requests : Fresh(request'[r])
  BY DEF FillsFresh
<1>d. Done(p) => \A r \in Requests : Fresh(request'[r])
  BY <1>n DEF Done, Ready
<1>1. UNCHANGED loader
  BY DEF NewRequest, IncrementMonitorCount, GetCachedMonitor, ReadStatus, RejectStatus,
     RequestStep, InsertMonitor, ScheduleRequested, GetRow, CacheAndServe, SetEnabled,
     DelCached, DelSchedule, Answer
<1>2. CASE CacheAndServe(p)
  <2>1. request[p].mon \in Monitors /\ FillsFresh(p, m, row[m])
    BY <1>2, RequestFields DEF CacheAndServe, TypeOK
  <2>2. cache'[m] \in {"none", row[m]}
    BY <1>2, <2>1 DEF CacheAndServe, Set, CacheFresh, FillsFresh, TypeOK
  <2> QED
    BY <1>1, <1>2, <2>2, <1>d DEF CacheAndServe
<1>3. CASE ~ CacheAndServe(p)
  <2>1. cache'[m] \in {cache[m], "none"}
    BY <1>3 DEF NewRequest, IncrementMonitorCount, GetCachedMonitor, ReadStatus, RejectStatus,
       RequestStep, InsertMonitor, ScheduleRequested, GetRow, SetEnabled, DelCached, DelSchedule,
       Answer, Set, TypeOK
  <2>2. \A r \in Requests : Fresh(request'[r])
    <3>1. CASE NewRequest(p)
      <4>1. \/ UNCHANGED request
            \/ \E q : q.step # "fill" /\ request' = [request EXCEPT ![p] = q]
        BY <3>1 DEF NewRequest, IncrementMonitorCount, GetCachedMonitor, ReadStatus, RejectStatus
      <4> QED
        BY <4>1, <1>n, <1>u
    <3>2. CASE GetRow(p)
      <4> DEFINE q == [step |-> "fill", user |-> request[p].user, mon |-> request[p].mon,
                       seen |-> row[request[p].mon]]
      <4>1. Fresh(q)
        OBVIOUS
      <4>2. Done(p) \/ request' = [request EXCEPT ![p] = q]
        BY <3>2 DEF GetRow
      <4> QED
        BY <4>1, <4>2, <1>o, <1>d
    <3>3. CASE InsertMonitor(p) \/ SetEnabled(p)
      <4>1. Done(p) \/ \E q : q.step # "fill" /\ request' = [request EXCEPT ![p] = q]
        BY <3>3 DEF InsertMonitor, SetEnabled
      <4> QED
        BY <4>1, <1>n, <1>d
    <3>4. CASE DelCached(p)
      <4>1. request[p] = [step |-> "delCache", mon |-> request[p].mon]
        BY <3>4, RequestFields DEF DelCached, TypeOK
      <4>2. [request[p] EXCEPT !.step = "delSchedule"].step # "fill"
        BY <4>1
      <4> QED
        BY <3>4, <4>2, <1>n DEF DelCached, Step
    <3> QED
      BY <1>3, <3>1, <3>2, <3>3, <3>4, <1>d DEF RequestStep, ScheduleRequested, DelSchedule, Answer
  <2> QED
    BY <1>1, <2>1, <2>2 DEF CacheFresh
<1> QED
  BY <1>2, <1>3

\* A worker goes by the cache or by the row it has read, and fills the cache with the
\* latter.
LEMMA FreshLoader ==
    ASSUME TypeOK, NEW n \in Monitors, LoaderStep(n) \/ CacheExpires(n), NEW m \in Monitors,
           CacheFresh(m, row[m]), LoaderFresh(m, row[m])
    PROVE  /\ cache'[m] \in {"none", row[m]}
           /\ loader'[m].step = "check" => row[m] = "enabled"
           /\ loader'[m].step = "fill" => loader'[m].seen = row[m]
           /\ UNCHANGED request
<1> USE DEF store, queue
<1>1. UNCHANGED request
  BY DEF LoaderStep, StartLoad, LoadCached, LoadRow, LoadFill, Acknowledge, Reschedule,
     StopMonitoring, QuickRetry, AckLate, Reclaim, CacheExpires
<1>2. CASE n # m
  <2>1. cache'[m] = cache[m] /\ loader'[m] = loader[m]
    BY <1>2 DEF LoaderStep, StartLoad, LoadCached, LoadRow, LoadFill, Acknowledge, Reschedule,
       StopMonitoring, QuickRetry, AckLate, Reclaim, CacheExpires, Use, LoadStep, Set, TypeOK
  <2> QED
    BY <1>1, <2>1 DEF CacheFresh, LoaderFresh
<1>3. CASE n = m
  <2>c. cache'[m] = cache[m] => cache'[m] \in {"none", row[m]}
    BY DEF CacheFresh
  <2>w. \A s \in {"cached", "row", "reschedule"} : \A v :
           loader' = Set(loader, m, Waiting) \/ LoadStep(m, s, v) =>
              loader'[m].step \notin {"check", "fill"}
    BY DEF LoadStep, Set, Waiting, TypeOK
  <2>f. LoadStep(m, "fill", row[m]) => loader'[m].step = "fill" /\ loader'[m].seen = row[m]
    BY DEF LoadStep, Set, TypeOK
  <2>u. \A v : Use(m, v) => /\ loader'[m].step # "fill"
                            /\ loader'[m].step = "check" => v = "enabled"
    BY <2>w DEF Use, LoadStep, Set, Waiting, TypeOK
  <2>1. CASE StartLoad(m)
    BY <1>1, <2>1, <2>c, <2>w DEF StartLoad
  <2>2. CASE LoadCached(m)
    BY <1>1, <2>2, <2>c, <2>w, <2>u DEF LoadCached, CacheFresh, Cached
  <2>3. CASE LoadRow(m)
    BY <1>1, <2>3, <2>c, <2>w, <2>f DEF LoadRow
  <2>4. CASE LoadFill(m)
    <3>1. loader[m].seen = row[m]
      BY <2>4 DEF LoadFill, LoaderFresh
    <3> QED
      BY <1>1, <2>4, <3>1, <2>c, <2>u DEF LoadFill, Set, TypeOK
  <2>5. CASE Acknowledge(m) \/ Reschedule(m) \/ StopMonitoring(m) \/ QuickRetry(m)
    BY <1>1, <2>5, <2>c, <2>w DEF Acknowledge, Reschedule, StopMonitoring, QuickRetry
  <2>6. CASE AckLate(m) \/ Reclaim(m) \/ CacheExpires(m)
    BY <1>1, <2>6, <2>c DEF AckLate, Reclaim, CacheExpires, LoaderFresh, Set, TypeOK
  <2> QED
    BY <1>3, <2>1, <2>2, <2>3, <2>4, <2>5, <2>6 DEF LoaderStep
<1> QED
  BY <1>2, <1>3

\* While the row stays as it is, no step makes a stale copy out of fresh ones.
LEMMA FreshStep ==
    ASSUME TypeOK, [Next]_vars, NEW m \in Monitors, row'[m] = row[m], ~Stale(m)
    PROVE  ~Stale(m)'
<1> USE DEF store, queue
<1>p. /\ CacheFresh(m, row[m]) /\ LoaderFresh(m, row[m])
      /\ \A p \in Requests : FillsFresh(p, m, row[m])
  BY FreshParts
<1>1. ASSUME NEW p \in Requests, NewRequest(p) \/ RequestStep(p) PROVE ~Stale(m)'
  <2>1. CacheFresh(m, row[m])' /\ LoaderFresh(m, row[m])'
    BY <1>1, <1>p, FreshRequest DEF CacheFresh, LoaderFresh
  <2>2. \A r \in Requests : FillsFresh(r, m, row[m])'
    BY <1>1, <1>p, FreshRequest DEF FillsFresh
  <2> QED
    BY <2>1, <2>2, FreshParts
<1>2. ASSUME NEW n \in Monitors, LoaderStep(n) \/ CacheExpires(n) PROVE ~Stale(m)'
  <2>1. CacheFresh(m, row[m])' /\ LoaderFresh(m, row[m])'
    BY <1>2, <1>p, FreshLoader DEF CacheFresh, LoaderFresh
  <2>2. \A r \in Requests : FillsFresh(r, m, row[m])'
    BY <1>2, <1>p, FreshLoader DEF FillsFresh
  <2> QED
    BY <2>1, <2>2, FreshParts
<1>3. CASE UNCHANGED vars
  BY <1>3 DEF vars, Stale
<1>4. ASSUME NEW P \in SUBSET Requests, NEW M \in SUBSET Monitors, Crash(P, M) PROVE ~Stale(m)'
  <2>1. CacheFresh(m, row[m])' /\ LoaderFresh(m, row[m])'
    BY <1>4, <1>p DEF Crash, Waiting, CacheFresh, LoaderFresh
  <2>2. \A r \in Requests : FillsFresh(r, m, row[m])'
    BY <1>4, <1>p DEF Crash, Ready, FillsFresh
  <2> QED
    BY <2>1, <2>2, FreshParts
<1> QED
  BY <1>1, <1>2, <1>3, <1>4 DEF Next

\* For any number of monitors, requests and failed calls: when no cache entry, worker or
\* request has an Enabled other than the row's, none gets one until the row is updated,
\* so a disabled monitor is then checked no more and an enabled one is not skipped.
THEOREM StaleGoes == Spec => StaleDiesOut
<1>1. TypeOK /\ [Next]_vars =>
        [\A m \in Monitors : row'[m] = row[m] /\ ~Stale(m) => ~Stale(m)']_vars
  BY FreshStep
<1> QED
  BY <1>1, TypeCorrect, PTL DEF Spec, StaleDiesOut
=============================================================================
