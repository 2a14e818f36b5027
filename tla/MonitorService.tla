--------------------------- MODULE MonitorService ---------------------------
(***************************************************************************)
(* The monitor service: creating monitors under the user's quota, reading  *)
(* them through the Redis cache, enabling and disabling them, and the      *)
(* executor's LoadMonitor that goes through the same cache.  Requests run  *)
(* concurrently, each call to PostgreSQL or Redis is a step of its own.    *)
(*                                                                         *)
(* The job pipeline is reduced to what the service can see of it: an entry *)
(* in monitor:schedule, an entry in monitor:inflight and, per monitor, the *)
(* one worker that handles it.  Handlings of a reissued monitor that       *)
(* overlap are Pipeline's subject.                                         *)
(***************************************************************************)
EXTENDS Naturals, FiniteSets

CONSTANTS
    Users,
    Monitors,      \* ids the database hands out
    Requests,      \* HTTP requests in progress at once
    Creators,      \* the ones of them that may create a monitor,
    Readers,       \* ... read one,
    Updaters,      \* ... or update its status
    Direct,        \* the ones that call the service without the HTTP handler's validation
    MonitorQuota,  \* monitors_count < 10 in incrementMonitorCount
    MaxFaults      \* bound on failed and in-doubt PostgreSQL and Redis calls and crashes

ASSUME MonitorServiceAssumption ==
    /\ IsFiniteSet(Monitors) /\ IsFiniteSet(Requests)
    /\ Creators \cup Readers \cup Updaters = Requests
    /\ Direct \subseteq Requests
    /\ MonitorQuota \in Nat /\ MaxFaults \in Nat

VARIABLES
    monitorsCount,  \* users.monitors_count
    row,            \* the monitors table: "none", "enabled" or "disabled"
    owner,          \* its user_id
    cache,          \* the key monitor:<id>: "none", or the Enabled it was stored with
    scheduled,      \* monitor:schedule has the monitor
    inflight,       \* monitor:inflight has it
    lateAck,        \* a failure worker has scheduled it for a quick retry and not yet acked
    loader,         \* the worker that has it: the executor's, then the result's
    request,        \* the requests in progress
    faults,
    \* History
    served,         \* who was answered with which monitor
    dropped         \* monitors that one of EnabledIsTracked's exceptions took out of both
                    \* sorted sets, and nothing put back

store == <<monitorsCount, row, owner>>
queue == <<scheduled, inflight, lateAck, dropped>>
vars  == <<store, cache, queue, loader, request, faults, served>>

States  == {"enabled", "disabled"}
NoOne   == "no one"  \* a monitor without a row has no user_id
Ready   == [step |-> "ready"]
Waiting == [step |-> "waiting", seen |-> "none"]

ASSUME UsersAssumption == NoOne \notin Users

Fault == faults < MaxFaults /\ faults' = faults + 1

\* The column and the cached Enabled, as the properties speak of them.
State(enable) == IF enable THEN "enabled" ELSE "disabled"

Step(p, step) == request' = [request EXCEPT ![p].step = step]
Done(p)       == request' = [request EXCEPT ![p] = Ready]
Set(f, m, v)  == [f EXCEPT ![m] = v]

Init ==
    /\ monitorsCount = [u \in Users |-> 0]
    /\ row = [m \in Monitors |-> "none"]
    /\ owner = [m \in Monitors |-> NoOne]
    /\ cache = [m \in Monitors |-> "none"]
    /\ scheduled = [m \in Monitors |-> FALSE]
    /\ inflight = [m \in Monitors |-> FALSE]
    /\ lateAck = [m \in Monitors |-> FALSE]
    /\ loader = [m \in Monitors |-> Waiting]
    /\ request = [p \in Requests |-> Ready]
    /\ faults = 0
    /\ served = {}
    /\ dropped = {}

\* ZADD monitor:schedule.
Schedule(m) == scheduled' = Set(scheduled, m, TRUE) /\ dropped' = dropped \ {m}

\* Nobody goes on to schedule the monitors of M: the ones in neither set are dropped.
Drop(M) == dropped' = dropped \cup {m \in M : ~scheduled[m] /\ ~inflight[m]}

\* ScheduleMonitor: a failed ZADD is only logged.
ScheduleMonitor(m) ==
    \/ Schedule(m) /\ UNCHANGED faults
    \/ Fault /\ Drop({m}) /\ UNCHANGED scheduled

-----------------------------------------------------------------------------
(* CreateMonitor *)

\* Faulty: the UPDATE without its monitors_count < 10.
IncrementUnguarded(p, u) ==
    /\ request[p] = Ready
    /\ monitorsCount[u] <= MonitorQuota
    /\ monitorsCount' = [monitorsCount EXCEPT ![u] = @ + 1]
    /\ request' = [request EXCEPT ![p] = [step |-> "insert", user |-> u]]
    /\ UNCHANGED <<row, owner, cache, queue, loader, faults, served>>

\* WHERE monitors_count < 10 of incrementMonitorCount.
HasQuota(u) == monitorsCount[u] < MonitorQuota

\* One UPDATE checks and increments the count; no row affected is "quota exceed".
IncrementMonitorCount(p, u) ==
    /\ request[p] = Ready
    /\ HasQuota(u)
    /\ monitorsCount' = [monitorsCount EXCEPT ![u] = @ + 1]
    /\ request' = [request EXCEPT ![p] = [step |-> "insert", user |-> u]]
    /\ UNCHANGED <<row, owner, cache, queue, loader, faults, served>>

\* INSERT INTO monitors, whose enabled column defaults to true.
InsertRow(m, u) ==
    /\ row[m] = "none"
    /\ row' = Set(row, m, "enabled")
    /\ owner' = Set(owner, m, u)

\* When the INSERT fails the request does, and the count stays incremented.  It may have
\* committed all the same, its reply lost or the request's time over: then the enabled row
\* is there and nobody schedules it.
InsertMonitor(p) ==
    /\ request[p].step = "insert"
    /\ \/ \E m \in Monitors :
             /\ InsertRow(m, request[p].user)
             /\ \/ /\ request' = [request EXCEPT ![p] = [step |-> "schedule", mon |-> m]]
                   /\ UNCHANGED <<faults, dropped>>
                \/ Fault /\ Done(p) /\ Drop({m})
       \/ Fault /\ Done(p) /\ UNCHANGED <<row, owner, dropped>>
    /\ UNCHANGED <<monitorsCount, cache, scheduled, inflight, lateAck, loader, served>>

\* The last step of CreateMonitor, and of enabling.
ScheduleRequested(p) ==
    /\ request[p].step = "schedule"
    /\ ScheduleMonitor(request[p].mon)
    /\ Done(p)
    /\ UNCHANGED <<store, cache, inflight, lateAck, loader, served>>

-----------------------------------------------------------------------------
(* GetMonitor *)

\* GET monitor:<id> finds an entry.
Cached(m) == cache[m] # "none"

\* Faulty: a hit is served to whoever asks.
GetCachedForAnyone(p, u, m) ==
    /\ request[p] = Ready
    /\ IF Cached(m)
          THEN served' = served \cup {<<u, m>>} /\ UNCHANGED request
          ELSE /\ request' = [request EXCEPT ![p] = [step |-> "get", user |-> u, mon |-> m]]
               /\ UNCHANGED served
    /\ UNCHANGED <<store, cache, queue, loader, faults>>

\* A hit is good only for the owner; a miss, an error and a hit on somebody else's
\* monitor all go to the database.
GetCachedMonitor(p, u, m) ==
    /\ request[p] = Ready
    /\ \/ /\ Cached(m) /\ owner[m] = u
          /\ served' = served \cup {<<u, m>>}
          /\ UNCHANGED <<request, faults>>
       \/ /\ \/ (~ Cached(m) \/ owner[m] # u) /\ UNCHANGED faults
             \/ Fault
          /\ request' = [request EXCEPT ![p] = [step |-> "get", user |-> u, mon |-> m]]
          /\ UNCHANGED served
    /\ UNCHANGED <<store, cache, queue, loader>>

\* SELECT ... WHERE id = $1 AND user_id = $2 finds a row.
Found(m, u) == row[m] # "none" /\ owner[m] = u

\* Faulty: the missing row is not told from a found one.
GetRowUnchecked(p) ==
    /\ request[p].step = "get"
    /\ request' = [request EXCEPT ![p] =
          [step |-> "fill", user |-> request[p].user, mon |-> request[p].mon,
           seen |-> row[request[p].mon]]]
    /\ UNCHANGED <<store, cache, queue, loader, faults, served>>

GetRow(p) ==
    /\ request[p].step = "get"
    /\ \/ /\ Found(request[p].mon, request[p].user)
          /\ request' = [request EXCEPT ![p] =
                [step |-> "fill", user |-> request[p].user, mon |-> request[p].mon,
                 seen |-> row[request[p].mon]]]
          /\ UNCHANGED faults
       \/ ~ Found(request[p].mon, request[p].user) /\ Done(p) /\ UNCHANGED faults
       \/ Fault /\ Done(p)
    /\ UNCHANGED <<store, cache, queue, loader, served>>

\* Faulty: the entry is stored without the row's Enabled.
CacheAsEnabled(p) ==
    /\ request[p].step = "fill"
    /\ cache' = Set(cache, request[p].mon, "enabled")
    /\ served' = served \cup {<<request[p].user, request[p].mon>>}
    /\ Done(p)
    /\ UNCHANGED <<store, queue, loader, faults>>

\* SET monitor:<id> with what was read; the answer does not depend on it.
CacheAndServe(p) ==
    /\ request[p].step = "fill"
    /\ \/ cache' = Set(cache, request[p].mon, request[p].seen) /\ UNCHANGED faults
       \/ Fault /\ UNCHANGED cache
    /\ served' = served \cup {<<request[p].user, request[p].mon>>}
    /\ Done(p)
    /\ UNCHANGED <<store, queue, loader>>

-----------------------------------------------------------------------------
(* UpdateMonitorStatus *)

\* The validator's "required" demands a value other than the zero value of the type.
Required(enable) == enable # FALSE

Accepted(p, enable) == p \in Direct \/ Required(enable)

\* The monitor as it is; nothing to do when it is not the user's or already so.
ReadStatus(p, u, m, enable) ==
    /\ request[p] = Ready
    /\ Accepted(p, enable)
    /\ Found(m, u) /\ row[m] # State(enable)
    /\ request' = [request EXCEPT ![p] = [step |-> "set", mon |-> m, enable |-> enable]]
    /\ UNCHANGED <<store, cache, queue, loader, faults, served>>

\* The handler answers 400 and the service is not called.
RejectStatus(p, enable) ==
    /\ request[p] = Ready
    /\ ~ Accepted(p, enable)
    /\ request' = [request EXCEPT ![p] = [step |-> "rejected", enable |-> enable]]
    /\ UNCHANGED <<store, cache, queue, loader, faults, served>>

Answer(p) ==
    /\ request[p].step = "rejected"
    /\ Done(p)
    /\ UNCHANGED <<store, cache, queue, loader, faults, served>>

\* UPDATE monitors SET enabled, whatever the row says by now.
UpdateRow(m, enable) == row' = Set(row, m, State(enable))

\* Faulty: enabling changes the row and nothing else.
SetEnabledOnly(p) ==
    /\ request[p].step = "set"
    /\ UpdateRow(request[p].mon, request[p].enable)
    /\ IF request[p].enable
          THEN Done(p)
          ELSE request' = [request EXCEPT ![p] = [step |-> "delCache", mon |-> @.mon]]
    /\ UNCHANGED <<monitorsCount, owner, cache, queue, loader, faults, served>>

\* Enabling goes on to schedule the monitor, disabling to clean Redis up; an UPDATE that
\* fails, or commits without a reply, does neither.
SetEnabled(p) ==
    /\ request[p].step = "set"
    /\ \/ /\ UpdateRow(request[p].mon, request[p].enable)
          /\ \/ /\ request' = [request EXCEPT ![p] =
                      [step |-> IF @.enable THEN "schedule" ELSE "delCache", mon |-> @.mon]]
                /\ UNCHANGED <<faults, dropped>>
             \/ Fault /\ Done(p) /\ Drop({request[p].mon})
       \/ Fault /\ Done(p) /\ UNCHANGED <<row, dropped>>
    /\ UNCHANGED <<monitorsCount, owner, cache, scheduled, inflight, lateAck, loader, served>>

\* disableMonitor, first call: errors are ignored.
DelCached(p) ==
    /\ request[p].step = "delCache"
    /\ \/ cache' = Set(cache, request[p].mon, "none") /\ UNCHANGED faults
       \/ Fault /\ UNCHANGED cache
    /\ Step(p, "delSchedule")
    /\ UNCHANGED <<store, queue, loader, served>>

\* ... the others: the schedule entry, and the incident and status hashes of Incident.
DelSchedule(p) ==
    /\ request[p].step = "delSchedule"
    /\ \/ /\ scheduled' = Set(scheduled, request[p].mon, FALSE)
          /\ dropped' = IF row[request[p].mon] = "enabled" /\ ~inflight[request[p].mon]
                           THEN dropped \cup {request[p].mon} ELSE dropped
          /\ UNCHANGED faults
       \/ Fault /\ UNCHANGED <<scheduled, dropped>>
    /\ Done(p)
    /\ UNCHANGED <<store, cache, inflight, lateAck, loader, served>>

-----------------------------------------------------------------------------
(* The executor's side *)

LoadStep(m, step, seen) == loader' = Set(loader, m, [step |-> step, seen |-> seen])

\* The scheduler hands the monitor to an executor worker.
StartLoad(m) ==
    /\ scheduled[m] /\ loader[m] = Waiting
    /\ scheduled' = Set(scheduled, m, FALSE)
    /\ inflight' = Set(inflight, m, TRUE)
    /\ LoadStep(m, "cached", "none")
    /\ UNCHANGED <<store, cache, lateAck, request, faults, served, dropped>>

\* Faulty: the worker goes by the schedule and does not look at Enabled.
UseUnchecked(m, seen) == LoadStep(m, "check", seen)

\* startWork with the loaded monitor: a check if it is enabled, otherwise nothing.
Use(m, seen) == IF seen = "enabled" THEN LoadStep(m, "check", seen)
                ELSE loader' = Set(loader, m, Waiting)

\* LoadMonitor: the cache first; a miss and an error go to the database.
LoadCached(m) ==
    /\ loader[m].step = "cached"
    /\ \/ Cached(m) /\ Use(m, cache[m]) /\ UNCHANGED faults
       \/ ~ Cached(m) /\ LoadStep(m, "row", "none") /\ UNCHANGED faults
       \/ Cached(m) /\ Fault /\ LoadStep(m, "row", "none")
    /\ UNCHANGED <<store, cache, queue, request, served>>

\* GetByID; when it fails the worker schedules the monitor again and gives up.
LoadRow(m) ==
    /\ loader[m].step = "row"
    /\ \/ LoadStep(m, "fill", row[m]) /\ UNCHANGED <<scheduled, dropped, faults>>
       \/ /\ Fault
          /\ loader' = Set(loader, m, Waiting)
          /\ Schedule(m) \/ UNCHANGED <<scheduled, dropped>>
    /\ UNCHANGED <<store, cache, inflight, lateAck, request, served>>

\* The cache gets the row as it was read, 24 hours to live.
LoadFill(m) ==
    /\ loader[m].step = "fill"
    /\ \/ cache' = Set(cache, m, loader[m].seen) /\ UNCHANGED faults
       \/ Fault /\ UNCHANGED cache
    /\ Use(m, loader[m].seen)
    /\ UNCHANGED <<store, queue, request, served>>

\* ZREM monitor:inflight; an error is only logged.
AckJob(m) ==
    \/ inflight' = Set(inflight, m, FALSE) /\ UNCHANGED faults
    \/ Fault /\ UNCHANGED inflight

\* An AckJob that no ScheduleMonitor follows.
AckLast(m) ==
    /\ AckJob(m)
    /\ dropped' = IF scheduled[m] \/ inflight'[m] THEN dropped ELSE dropped \cup {m}

\* The check has ended and its result is handled: the deferred AckJob of handleSuccess
\* and handleFailure ...
Acknowledge(m) ==
    /\ loader[m].step = "check"
    /\ AckJob(m)
    /\ LoadStep(m, "reschedule", "none")
    /\ UNCHANGED <<store, cache, scheduled, lateAck, dropped, request, served>>

\* ... and the ScheduleMonitor after it.
Reschedule(m) ==
    /\ loader[m].step = "reschedule"
    /\ ScheduleMonitor(m)
    /\ loader' = Set(loader, m, Waiting)
    /\ UNCHANGED <<store, cache, inflight, lateAck, request, served>>

\* A terminal failure is acknowledged and not rescheduled.
StopMonitoring(m) ==
    /\ loader[m].step = "check"
    /\ AckLast(m)
    /\ loader' = Set(loader, m, Waiting)
    /\ UNCHANGED <<store, cache, scheduled, lateAck, request, served>>

\* A retryable failure is rescheduled first, so that the monitor may be handed out again
\* before this worker's AckJob.  (Bound: one such worker per monitor.)
QuickRetry(m) ==
    /\ loader[m].step = "check" /\ ~lateAck[m]
    /\ ScheduleMonitor(m)
    /\ loader' = Set(loader, m, Waiting)
    /\ lateAck' = Set(lateAck, m, TRUE)
    /\ UNCHANGED <<store, cache, inflight, request, served>>

\* The AckJob takes out the entry that is there, also that of the next handling.
AckLate(m) ==
    /\ lateAck[m]
    /\ AckLast(m)
    /\ lateAck' = Set(lateAck, m, FALSE)
    /\ UNCHANGED <<store, cache, scheduled, loader, request, served>>

\* The reclaimer, once nobody handles the entry.
Reclaim(m) ==
    /\ inflight[m] /\ loader[m] = Waiting
    /\ inflight' = Set(inflight, m, FALSE)
    /\ Schedule(m)
    /\ UNCHANGED <<store, cache, lateAck, loader, request, faults, served>>

\* An instance crashes: the requests P and the workers of the monitors M are gone.
Crash(P, M) ==
    /\ Fault
    /\ request' = [p \in Requests |-> IF p \in P THEN Ready ELSE request[p]]
    /\ loader' = [m \in Monitors |-> IF m \in M THEN Waiting ELSE loader[m]]
    /\ lateAck' = [m \in Monitors |-> m \notin M /\ lateAck[m]]
    /\ Drop({m \in M : loader[m].step = "reschedule"}
            \cup {request[p].mon : p \in {q \in P : request[q].step = "schedule"}})
    /\ UNCHANGED <<store, cache, scheduled, inflight, served>>

\* Faulty: entries never expire.
CacheExpiresNever(m) == FALSE /\ UNCHANGED vars

CacheExpires(m) ==
    /\ Cached(m)
    /\ cache' = Set(cache, m, "none")
    /\ UNCHANGED <<store, queue, loader, request, faults, served>>

-----------------------------------------------------------------------------
RequestStep(p) ==
    \/ InsertMonitor(p) \/ ScheduleRequested(p)
    \/ GetRow(p) \/ CacheAndServe(p)
    \/ SetEnabled(p) \/ DelCached(p) \/ DelSchedule(p) \/ Answer(p)

NewRequest(p) ==
    \E u \in Users :
        \/ p \in Creators /\ IncrementMonitorCount(p, u)
        \/ p \in Readers /\ \E m \in Monitors : GetCachedMonitor(p, u, m)
        \/ /\ p \in Updaters
           /\ \E m \in Monitors, enable \in BOOLEAN :
                 ReadStatus(p, u, m, enable) \/ RejectStatus(p, enable)

LoaderStep(m) ==
    \/ StartLoad(m) \/ LoadCached(m) \/ LoadRow(m) \/ LoadFill(m)
    \/ Acknowledge(m) \/ Reschedule(m) \/ StopMonitoring(m)
    \/ QuickRetry(m) \/ AckLate(m) \/ Reclaim(m)

Next ==
    \/ \E p \in Requests : NewRequest(p) \/ RequestStep(p)
    \/ \E m \in Monitors : LoaderStep(m) \/ CacheExpires(m)
    \/ \E P \in SUBSET Requests, M \in SUBSET Monitors : Crash(P, M)

Spec == Init /\ [][Next]_vars

\* Requests finish, the pipeline keeps moving and cache entries expire.
Fairness ==
    /\ \A p \in Requests : WF_vars(RequestStep(p))
    /\ \A m \in Monitors : WF_vars(LoaderStep(m)) /\ WF_vars(CacheExpires(m))

FairSpec == Spec /\ Fairness

-----------------------------------------------------------------------------
(* Properties *)

Request ==
    {Ready}
    \cup [step: {"insert"}, user: Users]
    \cup [step: {"schedule", "delCache", "delSchedule"}, mon: Monitors]
    \cup [step: {"get"}, user: Users, mon: Monitors]
    \cup [step: {"fill"}, user: Users, mon: Monitors, seen: States]
    \cup [step: {"set"}, mon: Monitors, enable: BOOLEAN]
    \cup [step: {"rejected"}, enable: BOOLEAN]

\* Type correctness: rows, cache entries, executor workers and requests have one of the
\* states the code can put them into.
TypeOK ==
    /\ monitorsCount \in [Users -> Nat]
    /\ row \in [Monitors -> States \cup {"none"}]
    /\ owner \in [Monitors -> Users \cup {NoOne}]
    /\ cache \in [Monitors -> States \cup {"none"}]
    /\ scheduled \in [Monitors -> BOOLEAN] /\ inflight \in [Monitors -> BOOLEAN]
    /\ lateAck \in [Monitors -> BOOLEAN]
    /\ loader \in [Monitors -> {Waiting} \cup
                   [step: {"cached", "row", "fill", "check", "reschedule"},
                    seen: States \cup {"none"}]]
    /\ request \in [Requests -> Request]
    /\ faults \in 0 .. MaxFaults
    /\ served \subseteq Users \X Monitors
    /\ dropped \subseteq Monitors

\* Monitors of u, and requests that have counted one they still have to insert.
Counted(u) ==
    Cardinality({m \in Monitors : owner[m] = u})
    + Cardinality({p \in Requests : request[p].step = "insert" /\ request[p].user = u})

\* However many creations run at once, no user gets more monitors than the quota, and
\* without failed calls the count is exact.  (A failed insert leaks one: the count and
\* the insert are not in a transaction.)
QuotaExact ==
    \A u \in Users :
        /\ Counted(u) <= monitorsCount[u] /\ monitorsCount[u] <= MonitorQuota
        /\ faults = 0 => Counted(u) = monitorsCount[u]

\* A monitor is only ever served to its owner, from the cache that other requests and
\* the executor fill as well as from the database.
ServedToOwner == \A s \in served : owner[s[2]] = s[1]

\* However creations, updates, the pipeline and crashes interleave, an enabled monitor is
\* in the schedule or inflight, or somebody is about to schedule it.  The exceptions, which
\* last until it is scheduled again (and, the row being enabled, an enabling is a no-op):
\* a ZADD that fails, or that a crash forestalls, after the INSERT, the UPDATE or the
\* AckJob; an INSERT or UPDATE that commits and reports an error; a terminal failure; a
\* disabling whose ZREM an enabling overtook; a quick retry's AckJob that takes the entry
\* of the next handling.
EnabledIsTracked ==
    \A m \in Monitors : row[m] = "enabled" /\ m \notin dropped =>
        \/ scheduled[m] \/ inflight[m]
        \/ loader[m].step = "reschedule"
        \/ \E p \in Requests : request[p].step = "schedule" /\ request[p].mon = m

\* Somebody goes by an Enabled that is not the row's: the cache, an executor worker, a
\* request that is about to fill the cache.
Stale(m) ==
    \/ cache[m] \notin {"none", row[m]}
    \/ loader[m].step = "check" /\ row[m] # "enabled"
    \/ loader[m].step = "fill" /\ loader[m].seen # row[m]
    \/ \E p \in Requests :
          request[p].step = "fill" /\ request[p].mon = m /\ request[p].seen # row[m]

\* What is stale dies out.  Requests and workers pass on what they have read, but when the
\* last stale copy is gone there is no new one, and no check of a disabled monitor, until
\* the row changes again.
StaleDiesOut ==
    [][\A m \in Monitors : row'[m] = row[m] /\ ~Stale(m) => ~Stale(m)']_vars

\* A monitor that stays disabled is checked no more in the end, although a worker or a
\* request that read the old row may have put it back into the cache.
DisabledStops ==
    \A m \in Monitors :
        <>[](row[m] = "disabled") => <>[](loader[m].step # "check")

\* A monitor that stays enabled and in the schedule is checked again and again, although
\* the cache may say "disabled" for as long as its entry lives.
EnabledResumes ==
    \A m \in Monitors :
        <>[](row[m] = "enabled" /\ m \notin dropped) => []<>(loader[m].step = "check")
=============================================================================
