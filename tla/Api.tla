-------------------------------- MODULE Api ---------------------------------
(***************************************************************************)
(* The HTTP API of one user: Accounts, with the operations on monitors     *)
(* behind its authentication middleware, and Listing, whose rows these     *)
(* operations create, update and read.  Quota, cache and schedule are in   *)
(* MonitorService.                                                         *)
(***************************************************************************)
EXTENDS Accounts, Integers

CONSTANTS Monitors, Updated, Limits

VARIABLES updatedAt, committed, disabled, page

List == INSTANCE Listing

accountVars == vars
listVars    == <<updatedAt, committed, disabled, page>>
apiVars     == <<accountVars, listVars>>

\* The operations modelled here that the router mounts behind authMW.Handle.
Operations == {"getProfile", "createMonitor", "getAllMonitors"}

ASSUME ApiAssumption ==
    /\ Guarded = Operations
    /\ IsFiniteSet(Monitors) /\ Updated \subseteq Monitors
    /\ Limits \subseteq Int

ApiInit == Init /\ List!Init

\* The middleware has let the request through; the token may expire meanwhile.
Handling(r, op) ==
    /\ request[r].step = op
    /\ UNCHANGED <<account, token, created, refusals>>

\* CreateMonitor refuses the body or the user (the quota is in MonitorService), or
\* PostgreSQL starts the INSERT.
CreateMonitor(r) ==
    /\ Handling(r, "createMonitor")
    /\ \/ \E m \in Monitors :
             /\ List!BeginInsert(m)
             /\ request' = [request EXCEPT ![r] = [step |-> "inserting", mon |-> m]]
       \/ Done(r) /\ UNCHANGED listVars
    /\ UNCHANGED failed

\* Repository.Create, later: it commits, or not, and the reply may be lost.
MonitorCreated(r) ==
    /\ Handling(r, "inserting")
    /\ \/ List!CommitInsert(request[r].mon) /\ UNCHANGED failed
       \/ \E err \in QueryErrors :
             /\ Fail(WrapRepoError(err, FALSE))
             /\ \/ InDoubt(err) /\ List!CommitInsert(request[r].mon)
                \/ List!AbortInsert(request[r].mon)
    /\ Done(r)

\* UpdateMonitorStatus, called without the handler, which only lets through what is a
\* no-op for an enabled monitor (MonitorService!Required).
UpdateMonitorStatus == (\E m \in Updated : List!UpdateStatus(m)) /\ UNCHANGED accountVars

\* A failed SELECT answers no page; the client asks for it again.
GetAllMonitors(r) ==
    /\ Handling(r, "getAllMonitors")
    /\ \/ List!GetAllMonitors /\ UNCHANGED failed
       \/ page.step = "done" /\ UNCHANGED <<listVars, failed>>
       \/ (\E err \in QueryErrors : Fail(WrapRepoError(err, FALSE))) /\ UNCHANGED listVars
    /\ Done(r)

MonitorStep(r) == CreateMonitor(r) \/ MonitorCreated(r) \/ GetAllMonitors(r)

ApiNext ==
    \/ Next /\ UNCHANGED listVars
    \/ \E r \in Requests : MonitorStep(r)
    \/ UpdateMonitorStatus

ApiSpec == ApiInit /\ [][ApiNext]_apiVars

\* A request that has begun is answered within the five seconds of middleware.Timeout.
Answered(r) == (RequestStep(r) /\ UNCHANGED listVars) \/ MonitorStep(r)

ApiFairSpec == ApiSpec /\ \A r \in Requests : WF_apiVars(Answered(r))

-----------------------------------------------------------------------------
(* Properties *)

\* Type correctness; in particular the column password_hash holds hashes only.
TypeOK ==
    /\ account \in Hashes \cup {NoAccount}
    /\ token \in BOOLEAN
    /\ request \in [Requests ->
          {Ready} \cup [step: {"createUser", "getUser"}, pass: Passwords]
          \cup [step: {"compare"}, pass: Passwords, hash: Hashes]
          \cup [step: Operations] \cup [step: {"inserting"}, mon: Monitors]]
    /\ faults \in 0 .. MaxFaults
    /\ created \subseteq Passwords
    /\ failures \subseteq Nat
    /\ updatedAt \in [Monitors -> Nat]
    /\ committed \subseteq Monitors /\ disabled \subseteq committed
    /\ page \in {List!NotStarted} \cup
          [step: {"paging", "done"}, asked: Limits, offset: Nat,
           before: SUBSET Monitors, seen: SUBSET Monitors]

\* See Listing: here the pages are requests of their own, with logins, expired tokens
\* and failures in between.
ListingComplete == List!ListingComplete
WalkBounded     == List!WalkBounded

\* A client that keeps asking for the next page comes to the end of the list.
ListingEnds ==
    []<>(\E r \in Requests : request[r].step = "getAllMonitors") => <>(page.step = "done")
=============================================================================
