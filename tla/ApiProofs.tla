------------------------------ MODULE ApiProofs ------------------------------
(* Proofs about Api, for any number of requests, passwords, monitors and      *)
(* faults.                                                                    *)
EXTENDS Api, FiniteSetTheorems, TLAPS

-----------------------------------------------------------------------------
(* Types *)

Handled == {Ready} \cup [step: {"createUser", "getUser"}, pass: Passwords]
           \cup [step: {"compare"}, pass: Passwords, hash: Hashes]
           \cup [step: Operations] \cup [step: {"inserting"}, mon: Monitors]

\* What a request carries with it at each step.
LEMMA RequestFields ==
    ASSUME NEW q \in Handled
    PROVE  /\ q.step \in {"createUser", "getUser"} => q.pass \in Passwords
           /\ q.step = "compare" => q.pass \in Passwords /\ q.hash \in Hashes
           /\ q.step = "inserting" => q.mon \in Monitors
  BY DEF Handled, Ready, Operations

\* The records the operations put into request are of its type.
LEMMA RequestRecords ==
    /\ Ready \in Handled
    /\ \A p \in Passwords : /\ [step |-> "createUser", pass |-> p] \in Handled
                            /\ [step |-> "getUser", pass |-> p] \in Handled
    /\ \A p \in Passwords, h \in Hashes : [step |-> "compare", pass |-> p, hash |-> h] \in Handled
    /\ \A op \in Operations : [step |-> op] \in Handled
    /\ \A m \in Monitors : [step |-> "inserting", mon |-> m] \in Handled
  BY DEF Handled

\* A hash is never taken for a missing row.
LEMMA HashPasswordType ==
    \A p \in Passwords : HashPassword(p) \in Hashes /\ HashPassword(p) # NoAccount
  BY DEF HashPassword, Hashes, NoAccount

Walks == {List!NotStarted} \cup
         [step: {"paging", "done"}, asked: Limits, offset: Nat,
          before: SUBSET Monitors, seen: SUBSET Monitors]

\* The parts of TypeOK that are about the account, the requests, failed calls and the list.
AccountOK == account \in Hashes \cup {NoAccount} /\ created \subseteq Passwords
TokenOK   == token \in BOOLEAN
RequestOK == request \in [Requests -> Handled]
FailedOK  == faults \in 0 .. MaxFaults /\ failures \subseteq Nat
RowsOK    == /\ updatedAt \in [Monitors -> Nat]
             /\ committed \subseteq Monitors /\ disabled \subseteq committed
PageOK    == page \in Walks

\* TypeOK is the conjunction of its parts, before and after a step.
LEMMA TypeParts ==
    /\ TypeOK <=> AccountOK /\ TokenOK /\ RequestOK /\ FailedOK /\ RowsOK /\ PageOK
    /\ TypeOK' <=> AccountOK' /\ TokenOK' /\ RequestOK' /\ FailedOK' /\ RowsOK' /\ PageOK'
  BY DEF TypeOK, AccountOK, TokenOK, RequestOK, FailedOK, RowsOK, PageOK, Handled, Walks

\* Every error has a status.
LEMMA StatusType == \A kind : GetHTTPStatus(kind) \in Nat
  BY DEF GetHTTPStatus

\* An answered failure keeps the types of the history.
LEMMA FailType ==
    ASSUME FailedOK PROVE \A kind : Fail(kind) => FailedOK'
<1>1. MaxFaults \in Nat
  BY AccountsAssumption
<1>2. ASSUME NEW kind, Fail(kind) PROVE FailedOK'
  <2>1. faults' \in 0 .. MaxFaults
    BY <1>1, <1>2 DEF FailedOK, Fail
  <2>2. failures' \subseteq Nat
    BY <1>2, StatusType DEF FailedOK, Fail
  <2> QED
    BY <2>1, <2>2 DEF FailedOK
<1> QED
  BY <1>2

\* A request that is answered, or goes on to a step of its type, keeps the type.
LEMMA RequestType ==
    ASSUME RequestOK, NEW r \in Requests
    PROVE  /\ Done(r) => RequestOK'
           /\ \A q \in Handled : request' = [request EXCEPT ![r] = q] => RequestOK'
  BY RequestRecords DEF RequestOK, Done

\* A limit that was asked for becomes a positive one.
LEMMA LimitType == \A limit \in Limits : List!EffectiveLimit(limit) \in Nat \ {0}
  BY ApiAssumption DEF List!EffectiveLimit

\* The operations on accounts keep the types.
LEMMA AccountStepType ==
    ASSUME TypeOK, Next PROVE AccountOK' /\ TokenOK' /\ RequestOK' /\ FailedOK'
<1> USE TypeParts DEF failed
<1>1. ASSUME NEW r \in Requests, NEW p \in Passwords, Register(r, p) \/ LogIn(r, p)
      PROVE  AccountOK' /\ TokenOK' /\ RequestOK' /\ FailedOK'
  <2>1. UNCHANGED <<account, token, created>>
    BY <1>1 DEF Register, LogIn
  <2>2. RequestOK'
    BY <1>1, RequestType, RequestRecords DEF Register, LogIn, RequestOK
  <2>3. FailedOK'
    BY <1>1, FailType DEF Register, LogIn, FailedOK
  <2> QED
    BY <2>1, <2>2, <2>3 DEF AccountOK, TokenOK
<1>2. ASSUME NEW r \in Requests, NEW op \in Guarded, Authenticate(r, op)
      PROVE  AccountOK' /\ TokenOK' /\ RequestOK' /\ FailedOK'
  <2>1. UNCHANGED <<account, token, created, failed>>
    BY <1>2 DEF Authenticate
  <2>2. RequestOK'
    BY <1>2, RequestType, RequestRecords, ApiAssumption DEF Authenticate
  <2> QED
    BY <2>1, <2>2 DEF AccountOK, TokenOK, FailedOK
<1>3. ASSUME NEW r \in Requests, CreateUser(r)
      PROVE  AccountOK' /\ TokenOK' /\ RequestOK' /\ FailedOK'
  <2>1. request[r].pass \in Passwords
    BY <1>3, RequestFields DEF CreateUser, RequestOK
  <2>2. AccountOK'
    BY <1>3, <2>1, HashPasswordType DEF CreateUser, InsertUser, AccountOK
  <2>3. RequestOK' /\ FailedOK'
    BY <1>3, RequestType, FailType DEF CreateUser, FailedOK
  <2> QED
    BY <1>3, <2>2, <2>3 DEF CreateUser, TokenOK
<1>4. ASSUME NEW r \in Requests, GetUserByEmail(r)
      PROVE  AccountOK' /\ TokenOK' /\ RequestOK' /\ FailedOK'
  <2>1. request[r].pass \in Passwords
    BY <1>4, RequestFields DEF GetUserByEmail, RequestOK
  <2>2. UNCHANGED <<account, token, created>>
    BY <1>4 DEF GetUserByEmail
  <2>3. RequestOK'
    BY <1>4, <2>1, RequestType, RequestRecords DEF GetUserByEmail, UserFound, AccountOK
  <2>4. FailedOK'
    BY <1>4, FailType DEF GetUserByEmail, FailedOK
  <2> QED
    BY <2>2, <2>3, <2>4 DEF AccountOK, TokenOK
<1>5. ASSUME NEW r \in Requests, Authorise(r)
      PROVE  AccountOK' /\ TokenOK' /\ RequestOK' /\ FailedOK'
  <2>1. TokenOK'
    BY <1>5, Zenon DEF Authorise, GenerateAccessToken, TokenOK
  <2>2. RequestOK' /\ FailedOK'
    BY <1>5, RequestType, FailType DEF Authorise, FailedOK
  <2> QED
    BY <1>5, <2>1, <2>2 DEF Authorise, AccountOK
<1>6. ASSUME NEW r \in Requests, GetProfile(r)
      PROVE  AccountOK' /\ TokenOK' /\ RequestOK' /\ FailedOK'
  BY <1>6, RequestType, FailType DEF GetProfile, GetUserByID, AccountOK, TokenOK, FailedOK
<1>7. CASE TokenExpires
  BY <1>7 DEF TokenExpires, AccountOK, TokenOK, RequestOK, FailedOK
<1> QED
  BY <1>1, <1>2, <1>3, <1>4, <1>5, <1>6, <1>7 DEF Next, NewRequest, RequestStep

\* So do the operations on monitors.
LEMMA MonitorStepType ==
    ASSUME TypeOK, NEW r \in Requests, MonitorStep(r)
    PROVE  AccountOK' /\ TokenOK' /\ RequestOK' /\ FailedOK' /\ RowsOK'
<1> USE TypeParts DEF failed, listVars, List!rows
<1>0. AccountOK' /\ TokenOK'
  BY DEF MonitorStep, CreateMonitor, MonitorCreated, GetAllMonitors, Handling, AccountOK, TokenOK
<1>n. Cardinality(Monitors) \in Nat
  BY ApiAssumption, FS_CardinalityType
<1>1. CASE CreateMonitor(r)
  <2>1. RowsOK'
    <3>1. ASSUME NEW m \in Monitors, List!BeginInsert(m) PROVE RowsOK'
      BY <1>n, <3>1 DEF List!BeginInsert, List!Now, RowsOK
    <3>2. CASE UNCHANGED listVars
      BY <3>2 DEF RowsOK
    <3> QED
      BY <1>1, <3>1, <3>2 DEF CreateMonitor
  <2>2. RequestOK'
    BY <1>1, RequestType, RequestRecords DEF CreateMonitor
  <2> QED
    BY <1>0, <1>1, <2>1, <2>2 DEF CreateMonitor, FailedOK
<1>2. CASE MonitorCreated(r)
  <2>1. request[r].mon \in Monitors
    BY <1>2, RequestFields DEF MonitorCreated, Handling, RequestOK
  <2>2. RowsOK'
    <3>1. CASE List!CommitInsert(request[r].mon)
      BY <2>1, <3>1 DEF List!CommitInsert, RowsOK
    <3>2. CASE List!AbortInsert(request[r].mon)
      BY <2>1, <3>2 DEF List!AbortInsert, RowsOK
    <3> QED
      BY <1>2, <3>1, <3>2 DEF MonitorCreated
  <2>3. RequestOK' /\ FailedOK'
    BY <1>2, RequestType, FailType DEF MonitorCreated, FailedOK
  <2> QED
    BY <1>0, <2>2, <2>3
<1>3. CASE GetAllMonitors(r)
  <2>1. RowsOK'
    BY <1>3 DEF GetAllMonitors, List!GetAllMonitors, RowsOK
  <2>2. RequestOK' /\ FailedOK'
    BY <1>3, RequestType, FailType DEF GetAllMonitors, FailedOK
  <2> QED
    BY <1>0, <2>1, <2>2
<1> QED
  BY <1>1, <1>2, <1>3 DEF MonitorStep

\* Listing counts as this module does.
LEMMA ListCardinality == \A S : List!Cardinality(S) = Cardinality(S)
  BY Zenon DEF List!Cardinality, Cardinality

\* The next page: where the walk is afterwards.
Start(asked) == [step |-> "paging", asked |-> asked, offset |-> 0,
                 before |-> committed, seen |-> {}]
Turn(at, rank) ==
    LET limit  == List!EffectiveLimit(at.asked)
        answer == List!Page(rank, limit, at.offset)
    IN [at EXCEPT !.seen = @ \cup answer,
                  !.offset = @ + limit,
                  !.step = IF Cardinality(answer) < limit THEN "done" ELSE @]

\* GetAllMonitors turns one page of a walk that is under way, or of a new one.
LEMMA PageTurned ==
    ASSUME TypeOK, List!GetAllMonitors
    PROVE  /\ UNCHANGED <<updatedAt, committed, disabled>>
           /\ \E rank \in List!Orders, at \in Walks :
                 /\ at.step = "paging" /\ at # List!NotStarted /\ page' = Turn(at, rank)
                 /\ \/ at = page
                    \/ page = List!NotStarted /\ \E asked \in Limits : at = Start(asked)
<1> USE TypeParts
<1>1. ASSUME NEW rank \in List!Orders, page = List!NotStarted, NEW asked \in Limits,
             page' = Turn(Start(asked), rank)
      PROVE  \E rk \in List!Orders, at \in Walks :
                 /\ at.step = "paging" /\ at # List!NotStarted /\ page' = Turn(at, rk)
                 /\ \/ at = page
                    \/ page = List!NotStarted /\ \E a \in Limits : at = Start(a)
  <2>1. Start(asked) \in Walks /\ Start(asked).step = "paging" /\ Start(asked) # List!NotStarted
    BY <1>1 DEF Start, Walks, RowsOK, List!NotStarted
  <2> QED
    BY <1>1, <2>1
<1>2. ASSUME NEW rank \in List!Orders, page # List!NotStarted, page' = Turn(page, rank),
             page.step \in {"notStarted", "paging"}
      PROVE  \E rk \in List!Orders, at \in Walks :
                 /\ at.step = "paging" /\ at # List!NotStarted /\ page' = Turn(at, rk)
                 /\ \/ at = page
                    \/ page = List!NotStarted /\ \E a \in Limits : at = Start(a)
  <2>1. page \in Walks /\ page.step = "paging"
    BY <1>2 DEF PageOK, Walks
  <2> QED
    BY <1>2, <2>1
<1>3. UNCHANGED <<updatedAt, committed, disabled>> /\ page.step \in {"notStarted", "paging"}
  BY DEF List!GetAllMonitors, List!rows
<1>4. PICK rank \in List!Orders, asked \in IF page = List!NotStarted THEN Limits ELSE {page.asked} :
          LET at     == IF page = List!NotStarted THEN Start(asked) ELSE page
              limit  == List!EffectiveLimit(asked)
              answer == List!Page(rank, limit, at.offset)
          IN page' = [at EXCEPT !.seen = @ \cup answer,
                                !.offset = @ + limit,
                                !.step = IF Cardinality(answer) < limit THEN "done" ELSE @]
  BY ListCardinality DEF List!GetAllMonitors, Start
<1>5. CASE page = List!NotStarted
  <2>1. asked \in Limits /\ Start(asked).asked = asked
    BY <1>4, <1>5 DEF Start
  <2>2. page' = Turn(Start(asked), rank)
    BY <1>4, <1>5, <2>1 DEF Turn
  <2> QED
    BY <1>1, <1>3, <1>5, <2>1, <2>2
<1>6. CASE page # List!NotStarted
  <2>1. asked = page.asked
    BY <1>4, <1>6
  <2>2. page' = Turn(page, rank)
    BY <1>4, <1>6, <2>1 DEF Turn
  <2> QED
    BY <1>2, <1>3, <1>6, <2>2
<1> QED
  BY <1>5, <1>6

\* A page adds what it answers to the walk and moves its offset on.
LEMMA TurnFields ==
    ASSUME TypeOK, NEW at \in Walks, at # List!NotStarted, NEW rank \in List!Orders
    PROVE  LET limit  == List!EffectiveLimit(at.asked)
               answer == List!Page(rank, limit, at.offset)
               to     == Turn(at, rank)
           IN /\ to \in Walks /\ to # List!NotStarted
              /\ to.seen = at.seen \cup answer
              /\ to.offset = at.offset + limit
              /\ to.before = at.before
              /\ to.step = IF Cardinality(answer) < limit THEN "done" ELSE at.step
              /\ limit \in Nat \ {0} /\ at.offset \in Nat
<1> DEFINE limit  == List!EffectiveLimit(at.asked)
           answer == List!Page(rank, limit, at.offset)
           Walk   == [step: {"paging", "done"}, asked: Limits, offset: Nat,
                      before: SUBSET Monitors, seen: SUBSET Monitors]
<1>1. at \in Walk
  BY DEF Walks
<1>2. limit \in Nat \ {0}
  BY <1>1, LimitType
<1>3. answer \subseteq Monitors
  BY TypeParts DEF List!Page, List!Orders, RowsOK
<1>4. Turn(at, rank) = [at EXCEPT !.seen = @ \cup answer,
                                  !.offset = @ + limit,
                                  !.step = IF Cardinality(answer) < limit THEN "done" ELSE @]
  BY DEF Turn
<1> HIDE DEF limit, answer
<1>5. Turn(at, rank) \in Walk
  <2>1. at.asked \in Limits /\ at.before \in SUBSET Monitors /\ at.seen \in SUBSET Monitors
        /\ at.offset \in Nat /\ at.step \in {"paging", "done"}
    BY <1>1
  <2>2. at.seen \cup answer \in SUBSET Monitors /\ at.offset + limit \in Nat
    BY <1>2, <1>3, <2>1
  <2>3. (IF Cardinality(answer) < limit THEN "done" ELSE at.step) \in {"paging", "done"}
    BY <2>1
  <2>4. Turn(at, rank) =
           [step |-> IF Cardinality(answer) < limit THEN "done" ELSE at.step,
            asked |-> at.asked, offset |-> at.offset + limit, before |-> at.before,
            seen |-> at.seen \cup answer]
    BY <1>1, <1>4
  <2> QED
    BY <2>1, <2>2, <2>3, <2>4
<1>6. Turn(at, rank) # List!NotStarted
  BY <1>5 DEF List!NotStarted
<1>7. /\ Turn(at, rank).seen = at.seen \cup answer
      /\ Turn(at, rank).offset = at.offset + limit
      /\ Turn(at, rank).before = at.before
      /\ Turn(at, rank).step = IF Cardinality(answer) < limit THEN "done" ELSE at.step
      /\ at.offset \in Nat
  BY <1>1, <1>4
<1>8. Turn(at, rank) \in Walks
  BY <1>5 DEF Walks
<1> QED
  BY <1>2, <1>6, <1>7, <1>8 DEF limit, answer

\* Turning a page, the only step that moves the walk, keeps the walk's type.
LEMMA PageType == ASSUME TypeOK, [ApiNext]_apiVars PROVE PageOK'
<1> USE TypeParts DEF listVars, List!rows
<1>1. CASE List!GetAllMonitors
  BY <1>1, PageTurned, TurnFields DEF PageOK
<1>2. UNCHANGED page \/ List!GetAllMonitors
  BY DEF ApiNext, MonitorStep, CreateMonitor, MonitorCreated, GetAllMonitors,
     UpdateMonitorStatus, List!BeginInsert, List!CommitInsert, List!AbortInsert,
     List!UpdateStatus, apiVars
<1> QED
  BY <1>1, <1>2 DEF PageOK

\* Every step of the API keeps every variable to its type.
LEMMA TypeStep == TypeOK /\ [ApiNext]_apiVars => TypeOK'
<1> SUFFICES ASSUME TypeOK, [ApiNext]_apiVars PROVE TypeOK'
  OBVIOUS
<1> USE DEF listVars
<1>0. PageOK'
  BY PageType
<1>1. CASE Next /\ UNCHANGED listVars
  BY <1>0, <1>1, AccountStepType, TypeParts DEF RowsOK
<1>2. CASE \E r \in Requests : MonitorStep(r)
  BY <1>0, <1>2, MonitorStepType, TypeParts
<1>3. CASE UpdateMonitorStatus
  <2>1. RowsOK'
    BY <1>3, TypeParts, ApiAssumption
    DEF UpdateMonitorStatus, List!UpdateStatus, List!SetEnabled, RowsOK
  <2>2. AccountOK' /\ TokenOK' /\ RequestOK' /\ FailedOK'
    BY <1>3, TypeParts
    DEF UpdateMonitorStatus, accountVars, vars, failed, AccountOK, TokenOK, RequestOK, FailedOK
  <2> QED
    BY <1>0, <2>1, <2>2, TypeParts
<1>4. CASE UNCHANGED apiVars
  BY <1>4 DEF apiVars, accountVars, vars, failed, TypeOK
<1> QED
  BY <1>1, <1>2, <1>3, <1>4 DEF ApiNext

\* Type correctness of the API; the column password_hash holds hashes only.
THEOREM TypeCorrect == ApiSpec => []TypeOK
<1>1. ApiInit => TypeOK
  <2> SUFFICES ASSUME ApiInit PROVE TypeOK
    OBVIOUS
  <2>1. AccountOK /\ RequestOK /\ FailedOK
    <3>1. MaxFaults \in Nat
      BY AccountsAssumption
    <3> QED
      BY <3>1, RequestRecords DEF ApiInit, Init, AccountOK, RequestOK, FailedOK
  <2>2. TokenOK
    BY Zenon DEF ApiInit, Init, TokenOK
  <2>3. RowsOK /\ PageOK
    BY DEF ApiInit, List!Init, RowsOK, PageOK, Walks
  <2> QED
    BY <2>1, <2>2, <2>3, TypeParts
<1> QED
  BY <1>1, TypeStep, PTL DEF ApiSpec

-----------------------------------------------------------------------------
(* The account *)

\* Only CreateUser writes the row, and only where there is none; only with the row it
\* wrote is a registration answered 201.
LEMMA AccountMoves ==
    ASSUME TypeOK, [ApiNext]_apiVars
    PROVE  \/ UNCHANGED <<account, created>>
           \/ \E p \in Passwords : /\ account = NoAccount /\ account' = HashPassword(p)
                                   /\ created' \in {created, created \cup {p}}
<1> USE DEF failed
<1>1. ASSUME NEW r \in Requests, CreateUser(r)
      PROVE  \/ UNCHANGED <<account, created>>
             \/ \E p \in Passwords : /\ account = NoAccount /\ account' = HashPassword(p)
                                     /\ created' \in {created, created \cup {p}}
  <2>1. request[r].pass \in Passwords
    BY <1>1, TypeParts, RequestFields DEF CreateUser, RequestOK
  <2> QED
    BY <1>1, <2>1 DEF CreateUser, InsertUser
<1>2. ASSUME NEW r \in Requests, NewRequest(r) \/ GetUserByEmail(r) \/ Authorise(r)
             \/ GetProfile(r) \/ MonitorStep(r)
      PROVE  UNCHANGED <<account, created>>
  BY <1>2 DEF NewRequest, Register, LogIn, Authenticate, GetUserByEmail, Authorise,
     GetProfile, MonitorStep, CreateMonitor, MonitorCreated, GetAllMonitors, Handling
<1>3. CASE TokenExpires \/ UpdateMonitorStatus \/ UNCHANGED apiVars
  BY <1>3 DEF TokenExpires, UpdateMonitorStatus, apiVars, accountVars, vars
<1> QED
  BY <1>1, <1>2, <1>3 DEF ApiNext, Next, RequestStep

\* For any number of concurrent registrations: who was answered 201 owns the account for
\* ever.
THEOREM AccountKept == ApiSpec => []CreatedIsKept
<1>1. ApiInit => CreatedIsKept
  BY DEF ApiInit, Init, CreatedIsKept
<1>2. TypeOK /\ CreatedIsKept /\ [ApiNext]_apiVars => CreatedIsKept'
  <2> SUFFICES ASSUME TypeOK, CreatedIsKept, [ApiNext]_apiVars PROVE CreatedIsKept'
    OBVIOUS
  <2>1. CASE UNCHANGED <<account, created>>
    BY <2>1 DEF CreatedIsKept
  <2>2. ASSUME NEW p \in Passwords, account = NoAccount, account' = HashPassword(p),
               created' \in {created, created \cup {p}}
        PROVE  CreatedIsKept'
    <3>1. created = {}
      BY <2>2, TypeParts, HashPasswordType DEF CreatedIsKept, AccountOK
    <3> QED
      BY <2>2, <3>1 DEF CreatedIsKept
  <2> QED
    BY <2>1, <2>2, AccountMoves
<1> QED
  BY <1>1, <1>2, TypeCorrect, PTL DEF ApiSpec

-----------------------------------------------------------------------------
(* Answers *)

\* How a login is refused, whatever the reason.
Refused == <<401, "Unauthorised">>

\* An unknown address and a wrong password are refused with one and the same answer.
LEMMA RefusedAnswers ==
    /\ FromAppError(LogInError(WrapRepoError("noRows", TRUE))) = Refused
    /\ FromAppError("Unauthorised") = Refused
  BY DEF FromAppError, LogInError, WrapRepoError, GetHTTPStatus, Refused

\* All refused logins look the same to the client.
THEOREM RefusalsAlike == ApiSpec => []RefusedAlike
<1> DEFINE IInv == refusals \subseteq {Refused}
<1>1. ApiInit => IInv
  BY DEF ApiInit, Init
<1>2. IInv /\ [ApiNext]_apiVars => IInv'
  <2> SUFFICES ASSUME IInv, [ApiNext]_apiVars PROVE IInv'
    OBVIOUS
  <2> USE DEF failed
  <2>1. ASSUME NEW r \in Requests, GetUserByEmail(r) \/ Authorise(r)
        PROVE  refusals' \in {refusals, refusals \cup {Refused}}
    BY <2>1, RefusedAnswers DEF GetUserByEmail, Authorise
  <2>2. ASSUME NEW r \in Requests, NewRequest(r) \/ CreateUser(r) \/ GetProfile(r)
               \/ MonitorStep(r)
        PROVE  UNCHANGED refusals
    BY <2>2 DEF NewRequest, Register, LogIn, Authenticate, CreateUser, GetProfile, MonitorStep,
       CreateMonitor, MonitorCreated, GetAllMonitors, Handling
  <2>3. CASE TokenExpires \/ UpdateMonitorStatus \/ UNCHANGED apiVars
    BY <2>3 DEF TokenExpires, UpdateMonitorStatus, apiVars, accountVars, vars
  <2> QED
    BY <2>1, <2>2, <2>3 DEF ApiNext, Next, RequestStep
<1>3. IInv => RefusedAlike
  <2> SUFFICES ASSUME IInv PROVE Cardinality(refusals) <= 1
    BY DEF RefusedAlike
  <2>1. IsFiniteSet({Refused}) /\ Cardinality({Refused}) = 1
    BY FS_Singleton
  <2>2. Cardinality(refusals) <= Cardinality({Refused})
    BY <2>1, FS_Subset
  <2> QED
    BY <2>1, <2>2
<1> QED
  BY <1>1, <1>2, <1>3, PTL DEF ApiSpec

\* What a failed query, a failed hashing or a failed signing is answered with.
LEMMA FailureAnswers ==
    /\ \A err \in QueryErrors, possible \in BOOLEAN :
          /\ GetHTTPStatus(WrapRepoError(err, possible)) = 500
          /\ GetHTTPStatus(LogInError(WrapRepoError(err, possible))) = 500
    /\ GetHTTPStatus("Dependency") = 502 /\ GetHTTPStatus("Internal") = 500
  BY DEF QueryErrors, WrapRepoError, LogInError, GetHTTPStatus

\* A failed call adds a status of 500 or 502 to the history.
FailureAdded == failures' \in {failures, failures \cup {500}, failures \cup {502}}

\* Whatever failed and however it was wrapped, the status added is 500 or 502.
LEMMA FailuresAdded ==
    /\ UNCHANGED failed => FailureAdded
    /\ Fail("Dependency") \/ Fail("Internal") => FailureAdded
    /\ \A err \in QueryErrors, possible \in BOOLEAN :
          /\ Fail(WrapRepoError(err, possible)) => FailureAdded
          /\ Fail(LogInError(WrapRepoError(err, possible))) => FailureAdded
<1>1. UNCHANGED failed => FailureAdded
  BY DEF failed, FailureAdded
<1>2. ASSUME NEW kind, Fail(kind), GetHTTPStatus(kind) \in {500, 502} PROVE FailureAdded
  BY <1>2 DEF Fail, FailureAdded
<1> QED
  BY <1>1, <1>2, FailureAnswers

\* A failed call is never answered 4xx, wherever in the operation it happens.
THEOREM FailuresOwned == ApiSpec => []FailureNotBlamedOnClient
<1>1. ApiInit => FailureNotBlamedOnClient
  BY DEF ApiInit, Init, FailureNotBlamedOnClient
<1>2. FailureNotBlamedOnClient /\ [ApiNext]_apiVars => FailureNotBlamedOnClient'
  <2> SUFFICES ASSUME FailureNotBlamedOnClient, [ApiNext]_apiVars
               PROVE  FailureNotBlamedOnClient'
    OBVIOUS
  <2>1. ASSUME NEW r \in Requests, NewRequest(r) PROVE FailureAdded
    BY <2>1, FailuresAdded DEF NewRequest, Register, LogIn, Authenticate
  <2>2. ASSUME NEW r \in Requests, RequestStep(r) PROVE FailureAdded
    <3>1. CASE CreateUser(r)
      BY <3>1, FailuresAdded DEF CreateUser
    <3>2. CASE GetUserByEmail(r)
      BY <3>2, FailuresAdded DEF GetUserByEmail
    <3>3. CASE Authorise(r)
      BY <3>3, FailuresAdded DEF Authorise
    <3>4. CASE GetProfile(r)
      BY <3>4, FailuresAdded DEF GetProfile, GetUserByID
    <3> QED
      BY <2>2, <3>1, <3>2, <3>3, <3>4 DEF RequestStep
  <2>3. ASSUME NEW r \in Requests, MonitorStep(r) PROVE FailureAdded
    BY <2>3, FailuresAdded DEF MonitorStep, CreateMonitor, MonitorCreated, GetAllMonitors
  <2>4. ASSUME TokenExpires \/ UpdateMonitorStatus \/ UNCHANGED apiVars PROVE FailureAdded
    BY <2>4, FailuresAdded DEF TokenExpires, UpdateMonitorStatus, apiVars, accountVars, vars
  <2>5. FailureAdded
    BY <2>1, <2>2, <2>3, <2>4, Zenon DEF ApiNext, Next
  <2> QED
    BY <2>5 DEF FailureNotBlamedOnClient, FailureAdded
<1> QED
  BY <1>1, <1>2, PTL DEF ApiSpec

-----------------------------------------------------------------------------
(* Tokens *)

\* The row that a login has read is still the account's when the password is compared.
HashIsCurrent == \A r \in Requests : request[r].step = "compare" => request[r].hash = account

\* No step changes the hash of an account, and a login reads it from the row: the
\* comparison never uses a stale one.
LEMMA HashIsCurrentStep == TypeOK /\ HashIsCurrent /\ [ApiNext]_apiVars => HashIsCurrent'
<1> SUFFICES ASSUME TypeOK, HashIsCurrent, [ApiNext]_apiVars,
                    NEW r \in Requests, request'[r].step = "compare"
             PROVE  request'[r].hash = account'
  BY DEF HashIsCurrent
<1> USE DEF failed
<1>1. CASE request'[r] = request[r]
  <2>1. request[r].hash = account /\ account \in Hashes
    BY <1>1, TypeParts, RequestFields DEF HashIsCurrent, RequestOK
  <2>2. account # NoAccount
    BY <2>1 DEF Hashes, NoAccount
  <2> QED
    BY <1>1, <2>1, <2>2, AccountMoves
<1>2. CASE request'[r].hash = account /\ UNCHANGED account
  BY <1>2
<1>o. ASSUME NEW s \in Requests, NEW q, request' = [request EXCEPT ![s] = q]
      PROVE  request'[s] = q /\ \A v \in Requests : v # s => request'[v] = request[v]
  BY <1>o, TypeParts DEF RequestOK
<1>3. ASSUME NEW s \in Requests, Done(s) PROVE request'[r] = request[r]
  BY <1>3, <1>o DEF Done, Ready
<1>4. ASSUME NEW s \in Requests, NewRequest(s) PROVE request'[r] = request[r]
  <2>1. ASSUME NEW op \in Guarded, request' = [request EXCEPT ![s] = [step |-> op]]
        PROVE  request'[r] = request[r]
    <3>1. op # "compare"
      BY <2>1, ApiAssumption DEF Operations
    <3> QED
      BY <2>1, <3>1, <1>o
  <2>2. ASSUME NEW p \in Passwords, Register(s, p) \/ LogIn(s, p)
        PROVE  request'[r] = request[r]
    BY <2>2, <1>o DEF Register, LogIn
  <2> QED
    BY <1>4, <2>1, <2>2 DEF NewRequest, Authenticate
<1>5. ASSUME NEW s \in Requests, GetUserByEmail(s), ~ Done(s)
      PROVE  request'[r] = request[r] \/ (request'[r].hash = account /\ UNCHANGED account)
  <2> DEFINE q == [step |-> "compare", pass |-> request[s].pass, hash |-> account]
  <2>1. request' = [request EXCEPT ![s] = q] /\ UNCHANGED account
    BY <1>5 DEF GetUserByEmail
  <2>2. request'[s] = q /\ \A v \in Requests : v # s => request'[v] = request[v]
    BY <2>1, TypeParts DEF RequestOK
  <2> QED
    BY <2>1, <2>2
<1>6. ASSUME NEW s \in Requests, MonitorStep(s) PROVE request'[r] = request[r]
  <2>1. ASSUME NEW m, request' = [request EXCEPT ![s] = [step |-> "inserting", mon |-> m]]
        PROVE  request'[r] = request[r]
    BY <2>1, <1>o
  <2> QED
    BY <1>6, <1>3, <2>1 DEF MonitorStep, CreateMonitor, MonitorCreated, GetAllMonitors
<1>7. CASE TokenExpires \/ UpdateMonitorStatus \/ UNCHANGED apiVars
  BY <1>1, <1>7 DEF TokenExpires, UpdateMonitorStatus, apiVars, accountVars, vars
<1> QED
  BY <1>1, <1>2, <1>3, <1>4, <1>5, <1>6, <1>7
  DEF ApiNext, Next, RequestStep, CreateUser, Authorise, GetProfile

\* A token is issued for the password of the account as it is at that moment only.
THEOREM TokensEarned == ApiSpec => TokenEarned
<1>1. ApiInit => HashIsCurrent
  BY DEF ApiInit, Init, HashIsCurrent, Ready
<1>2. ASSUME HashIsCurrent, [ApiNext]_apiVars
      PROVE  [token' /\ ~ token =>
                 \E r \in Requests : /\ request[r].step = "compare"
                                     /\ account = HashPassword(request[r].pass)]_vars
  <2> USE DEF failed
  <2>1. ASSUME NEW r \in Requests, Authorise(r), ~ UNCHANGED token
        PROVE  request[r].step = "compare" /\ account = HashPassword(request[r].pass)
    BY <1>2, <2>1 DEF Authorise, ComparePassword, HashPassword, HashIsCurrent
  <2>2. ASSUME NEW r \in Requests, NewRequest(r) \/ CreateUser(r) \/ GetUserByEmail(r)
               \/ GetProfile(r) \/ MonitorStep(r)
        PROVE  UNCHANGED token
    BY <2>2 DEF NewRequest, Register, LogIn, Authenticate, CreateUser, GetUserByEmail,
       GetProfile, MonitorStep, CreateMonitor, MonitorCreated, GetAllMonitors, Handling
  <2>3. CASE UpdateMonitorStatus \/ UNCHANGED apiVars
    BY <2>3 DEF UpdateMonitorStatus, apiVars, accountVars
  <2>4. CASE TokenExpires
    BY <2>4, Zenon DEF TokenExpires
  <2> QED
    BY <1>2, <2>1, <2>2, <2>3, <2>4, Zenon DEF ApiNext, Next, RequestStep
<1> QED
  BY <1>1, <1>2, HashIsCurrentStep, TypeCorrect, PTL DEF ApiSpec, TokenEarned

-----------------------------------------------------------------------------
(* Rows: what a SELECT has seen stays as it is *)

\* A row that is being inserted belongs to one request, has its time, and is not seen yet.
Inserting(r) == request[r].step = "inserting"
InsertsApart ==
    /\ \A m \in committed : updatedAt[m] # 0
    /\ \A r \in Requests : Inserting(r) =>
          updatedAt[request[r].mon] # 0 /\ request[r].mon \notin committed
    /\ \A r, s \in Requests : Inserting(r) /\ Inserting(s) /\ request[r].mon = request[s].mon =>
          r = s

\* What a step that is not about an insert does: none begins.
LEMMA OtherRequests ==
    ASSUME TypeOK, [ApiNext]_apiVars,
           \A r \in Requests : ~ CreateMonitor(r) /\ ~ MonitorCreated(r)
    PROVE  /\ \A r \in Requests : Inserting(r)' => request'[r] = request[r]
           /\ UNCHANGED <<updatedAt, committed>>
<1> USE DEF failed, listVars, List!rows
<1>d. ASSUME NEW s \in Requests, Done(s)
      PROVE  \A r \in Requests : Inserting(r)' => request'[r] = request[r]
  BY <1>d, TypeParts DEF Done, Ready, RequestOK, Inserting
<1>u. UNCHANGED request => \A r \in Requests : Inserting(r)' => request'[r] = request[r]
  OBVIOUS
<1>1. ASSUME NEW s \in Requests, NewRequest(s)
      PROVE  \A r \in Requests : Inserting(r)' => request'[r] = request[r]
  <2>1. ASSUME NEW op \in Guarded, request' = [request EXCEPT ![s] = [step |-> op]]
        PROVE  \A r \in Requests : Inserting(r)' => request'[r] = request[r]
    <3>1. op # "inserting"
      BY <2>1, ApiAssumption DEF Operations
    <3> QED
      BY <2>1, <3>1, TypeParts DEF RequestOK, Inserting
  <2>2. ASSUME NEW p \in Passwords, Register(s, p) \/ LogIn(s, p)
        PROVE  \A r \in Requests : Inserting(r)' => request'[r] = request[r]
    BY <2>2, TypeParts DEF Register, LogIn, RequestOK, Inserting
  <2> QED
    BY <1>1, <2>1, <2>2 DEF NewRequest, Authenticate
<1>2. ASSUME NEW s \in Requests, RequestStep(s)
      PROVE  \A r \in Requests : Inserting(r)' => request'[r] = request[r]
  <2>1. ASSUME request' = [request EXCEPT ![s] =
                              [step |-> "compare", pass |-> @.pass, hash |-> account]]
        PROVE  \A r \in Requests : Inserting(r)' => request'[r] = request[r]
    BY <2>1, TypeParts DEF RequestOK, Inserting
  <2> QED
    BY <1>2, <1>d, <2>1 DEF RequestStep, CreateUser, GetUserByEmail, Authorise, GetProfile
<1>3. ASSUME NEW s \in Requests, GetAllMonitors(s)
      PROVE  /\ \A r \in Requests : Inserting(r)' => request'[r] = request[r]
             /\ UNCHANGED <<updatedAt, committed>>
  BY <1>3, <1>d DEF GetAllMonitors, List!GetAllMonitors
<1>4. CASE TokenExpires /\ UNCHANGED listVars
  BY <1>4, <1>u DEF TokenExpires
<1>5. CASE UpdateMonitorStatus \/ UNCHANGED apiVars
  BY <1>5, <1>u
  DEF UpdateMonitorStatus, List!UpdateStatus, List!SetEnabled, apiVars, accountVars, vars
<1> QED
  BY <1>1, <1>2, <1>3, <1>4, <1>5 DEF ApiNext, Next, MonitorStep

\* A row is written by its insert and by nobody else.
LEMMA InsertsApartStep ==
    ASSUME TypeOK, InsertsApart, [ApiNext]_apiVars
    PROVE  /\ InsertsApart'
           /\ committed \subseteq committed'
           /\ \A m \in committed : updatedAt'[m] = updatedAt[m]
<1> USE DEF failed, listVars, List!rows
<1>1. CASE UNCHANGED <<updatedAt, committed>>
           /\ \A r \in Requests : Inserting(r)' => request'[r] = request[r]
  <2>1. \A r \in Requests : Inserting(r)' => Inserting(r) /\ request'[r].mon = request[r].mon
    BY <1>1 DEF Inserting
  <2> QED
    BY <1>1, <2>1 DEF InsertsApart
<1>2. ASSUME NEW r \in Requests, CreateMonitor(r)
      PROVE  /\ InsertsApart'
             /\ committed \subseteq committed'
             /\ \A m \in committed : updatedAt'[m] = updatedAt[m]
  <2>1. ASSUME NEW m \in Monitors, List!BeginInsert(m),
               request' = [request EXCEPT ![r] = [step |-> "inserting", mon |-> m]]
        PROVE  /\ InsertsApart'
               /\ committed \subseteq committed'
               /\ \A k \in committed : updatedAt'[k] = updatedAt[k]
    <3>1. /\ request'[r] = [step |-> "inserting", mon |-> m]
          /\ \A s \in Requests : s # r => request'[s] = request[s]
      BY <2>1, TypeParts DEF RequestOK
    <3>2. /\ updatedAt[m] = 0 /\ updatedAt'[m] # 0 /\ UNCHANGED committed
          /\ \A k \in Monitors : k # m => updatedAt'[k] = updatedAt[k]
      <4>1. \A t \in List!Now : t # 0
        BY DEF List!Now
      <4> QED
        BY <2>1, <4>1, TypeParts DEF List!BeginInsert, RowsOK
    <3>3. m \notin committed
      BY <3>2 DEF InsertsApart
    <3>4. \A k \in committed : k \in Monitors /\ k # m
      BY <3>3, TypeParts DEF RowsOK
    <3>5. \A s \in Requests : Inserting(s) => request[s].mon \in Monitors /\ request[s].mon # m
      BY <3>2, TypeParts, RequestFields DEF InsertsApart, Inserting, RequestOK
    <3>6. \A s \in Requests : Inserting(s)' =>
              IF s = r THEN request'[s].mon = m
                       ELSE Inserting(s) /\ request'[s].mon = request[s].mon
      BY <3>1 DEF Inserting
    <3> QED
      BY <3>2, <3>3, <3>4, <3>5, <3>6 DEF InsertsApart
  <2>2. CASE Done(r) /\ UNCHANGED listVars
    BY <1>1, <2>2, TypeParts DEF Done, Ready, RequestOK, Inserting
  <2> QED
    BY <1>2, <2>1, <2>2 DEF CreateMonitor
<1>3. ASSUME NEW r \in Requests, MonitorCreated(r)
      PROVE  /\ InsertsApart'
             /\ committed \subseteq committed'
             /\ \A m \in committed : updatedAt'[m] = updatedAt[m]
  <2> DEFINE m == request[r].mon
  <2>1. /\ Inserting(r) /\ m \in Monitors
        /\ updatedAt[m] # 0 /\ m \notin committed
    BY <1>3, TypeParts, RequestFields DEF MonitorCreated, Handling, Inserting, RequestOK, InsertsApart
  <2>2. \A s \in Requests : Inserting(s)' =>
            Inserting(s) /\ request'[s].mon = request[s].mon /\ request[s].mon # m
    <3>1. request'[r] = Ready /\ \A s \in Requests : s # r => request'[s] = request[s]
      BY <1>3, TypeParts DEF MonitorCreated, Done, RequestOK
    <3> QED
      BY <2>1, <3>1 DEF Inserting, InsertsApart, Ready
  <2>3. CASE List!CommitInsert(m)
    BY <2>1, <2>2, <2>3 DEF List!CommitInsert, InsertsApart
  <2>4. CASE List!AbortInsert(m)
    <3>1. UNCHANGED committed /\ \A k \in Monitors : k # m => updatedAt'[k] = updatedAt[k]
      BY <2>4, TypeParts DEF List!AbortInsert, RowsOK
    <3>2. \A k \in committed : k \in Monitors /\ k # m
      BY <2>1, TypeParts DEF RowsOK
    <3>3. \A s \in Requests : Inserting(s) => request[s].mon \in Monitors
      BY TypeParts, RequestFields DEF Inserting, RequestOK
    <3> QED
      BY <2>2, <3>1, <3>2, <3>3 DEF InsertsApart
  <2> QED
    BY <1>3, <2>3, <2>4 DEF MonitorCreated
<1> QED
  BY <1>1, <1>2, <1>3, OtherRequests

-----------------------------------------------------------------------------
(* Pages: what a walk has not seen is still ahead of it *)

\* An order of n rows has one row at each place, so hi - lo of them from lo on.
LEMMA RankWindow ==
    ASSUME NEW C, IsFiniteSet(C), NEW rank \in [C -> 0 .. Cardinality(C) - 1],
           \A a, b \in C : a # b => rank[a] # rank[b],
           NEW lo \in Nat, NEW hi \in Nat, lo <= hi, hi <= Cardinality(C)
    PROVE  Cardinality({m \in C : lo <= rank[m] /\ rank[m] < hi}) = hi - lo
<1> DEFINE n == Cardinality(C)
           Places == 0 .. n - 1
           Window == {m \in C : lo <= rank[m] /\ rank[m] < hi}
           at == [m \in Window |-> rank[m]]
<1>1. n \in Nat
  BY FS_CardinalityType
<1>2. IsFiniteSet(Places) /\ Cardinality(Places) = n
  <2>1. 0 \in Int /\ n - 1 \in Int
    BY <1>1
  <2>2. IsFiniteSet(0 .. n - 1) /\
        Cardinality(0 .. n - 1) = IF 0 > n - 1 THEN 0 ELSE (n - 1) - 0 + 1
    BY <2>1, FS_Interval
  <2> QED
    BY <1>1, <2>2
<1>3. rank \in Injection(C, Places)
  BY DEF Injection, IsInjective
<1>4. rank \in Surjection(C, Places)
  BY <1>2, <1>3, FS_Injection
<1>5. \A t \in Places : \E m \in C : rank[m] = t
  BY <1>4 DEF Surjection
<1>6. at \in [Window -> lo .. hi - 1]
  BY <1>1
<1>7. at \in Injection(Window, lo .. hi - 1)
  BY <1>6 DEF Injection, IsInjective
<1>8. at \in Surjection(Window, lo .. hi - 1)
  <2>1. ASSUME NEW t \in lo .. hi - 1 PROVE \E m \in Window : at[m] = t
    <3>1. t \in Places
      BY <1>1, <2>1
    <3> QED
      BY <1>5, <2>1, <3>1
  <2> QED
    BY <1>6, <2>1 DEF Surjection
<1>9. at \in Bijection(Window, lo .. hi - 1)
  BY <1>7, <1>8 DEF Bijection
<1>10. IsFiniteSet(Window)
  BY FS_Subset
<1>11. Cardinality(lo .. hi - 1) = Cardinality(Window)
  BY <1>9, <1>10, FS_Bijection DEF ExistsBijection
<1>12. Cardinality(lo .. hi - 1) = hi - lo
  BY FS_Interval
<1> QED
  BY <1>11, <1>12

Earlier(m) == {a \in committed : updatedAt[a] < updatedAt[m]}

\* The rows that a walk has yet to show have at least as many rows before them as it has
\* skipped: they cannot slip to a page it has left behind.
AheadOf(at) ==
    /\ at.before \subseteq committed
    /\ List!Distinct =>
          \A m \in at.before : \/ m \in at.seen
                               \/ at.step = "paging" /\ at.offset <= Cardinality(Earlier(m))
WalkAhead == page # List!NotStarted => AheadOf(page)

\* The sets whose members are counted are finite.
LEMMA CommittedFinite ==
    ASSUME TypeOK
    PROVE  IsFiniteSet(committed) /\ \A m : IsFiniteSet(Earlier(m))
<1>1. committed \in SUBSET Monitors
  BY TypeParts DEF RowsOK
<1>2. IsFiniteSet(committed)
  BY <1>1, ApiAssumption, FS_Subset
<1>3. \A m : Earlier(m) \in SUBSET committed
  BY DEF Earlier
<1> QED
  BY <1>2, <1>3, FS_Subset

\* Without two rows of the same time there is one order, and the place of a row in it is
\* the number of rows before it.
LEMMA RankIsEarlier ==
    ASSUME TypeOK, List!Distinct, NEW rank \in List!Orders, NEW m \in committed
    PROVE  rank[m] = Cardinality(Earlier(m)) /\ rank[m] \in Nat /\ rank[m] < Cardinality(committed)
<1>1. /\ IsFiniteSet(committed) /\ Cardinality(committed) \in Nat
      /\ rank \in [committed -> 0 .. Cardinality(committed) - 1]
      /\ \A a, b \in committed : a # b => rank[a] # rank[b]
      /\ \A a, b \in committed : updatedAt[a] < updatedAt[b] => rank[a] < rank[b]
  BY CommittedFinite, FS_CardinalityType, ListCardinality DEF List!Orders
<1>2. rank[m] \in Nat /\ rank[m] < Cardinality(committed)
  BY <1>1
<1>3. \A a \in committed : rank[a] \in Nat /\ updatedAt[a] \in Nat
  BY <1>1, TypeParts DEF RowsOK
<1>4. \A a \in committed : rank[a] < rank[m] <=> updatedAt[a] < updatedAt[m]
  <2> SUFFICES ASSUME NEW a \in committed, rank[a] < rank[m] PROVE updatedAt[a] < updatedAt[m]
    BY <1>1
  <2>1. a # m
    BY <1>2
  <2>2. updatedAt[a] # updatedAt[m]
    BY <2>1 DEF List!Distinct
  <2>3. ~ (updatedAt[m] < updatedAt[a])
    BY <1>1, <1>3
  <2> QED
    BY <1>3, <2>2, <2>3
<1>5. Earlier(m) = {a \in committed : 0 <= rank[a] /\ rank[a] < rank[m]}
  BY <1>3, <1>4 DEF Earlier
<1>6. Cardinality({a \in committed : 0 <= rank[a] /\ rank[a] < rank[m]}) = rank[m] - 0
  <2>1. 0 \in Nat /\ 0 <= rank[m] /\ rank[m] <= Cardinality(committed)
    BY <1>1, <1>2
  <2> QED
    BY <1>1, <1>2, <2>1, RankWindow
<1> QED
  BY <1>2, <1>5, <1>6

\* A row that is not on the page is on a later one, and then the page is full.
LEMMA TurnAhead ==
    ASSUME TypeOK, NEW at \in Walks, at # List!NotStarted, at.step = "paging", AheadOf(at),
           NEW rank \in List!Orders
    PROVE  AheadOf(Turn(at, rank))
<1> DEFINE limit  == List!EffectiveLimit(at.asked)
           answer == List!Page(rank, limit, at.offset)
           to     == Turn(at, rank)
<1>1. /\ to.seen = at.seen \cup answer /\ to.offset = at.offset + limit
      /\ to.before = at.before
      /\ to.step = IF Cardinality(answer) < limit THEN "done" ELSE at.step
      /\ limit \in Nat /\ at.offset \in Nat
  BY TurnFields
<1>2. ASSUME List!Distinct, NEW m \in at.before, m \notin to.seen
      PROVE  to.step = "paging" /\ to.offset <= Cardinality(Earlier(m))
  <2>1. m \in committed /\ m \notin answer /\ at.offset <= Cardinality(Earlier(m))
    BY <1>1, <1>2 DEF AheadOf
  <2>2. /\ rank[m] = Cardinality(Earlier(m)) /\ rank[m] \in Nat
        /\ rank[m] < Cardinality(committed)
    BY <1>2, <2>1, RankIsEarlier
  <2>3. /\ IsFiniteSet(committed) /\ Cardinality(committed) \in Nat
        /\ rank \in [committed -> 0 .. Cardinality(committed) - 1]
        /\ \A a, b \in committed : a # b => rank[a] # rank[b]
    BY CommittedFinite, FS_CardinalityType, ListCardinality DEF List!Orders
  <2>4. answer = {a \in committed : at.offset <= rank[a] /\ rank[a] < at.offset + limit}
    BY <2>3 DEF List!Page
  <2>5. at.offset + limit <= rank[m]
    <3>1. ~ (at.offset <= rank[m] /\ rank[m] < at.offset + limit)
      BY <2>1, <2>4
    <3> QED
      BY <1>1, <2>1, <2>2, <3>1
  <2>6. Cardinality({a \in committed : at.offset <= rank[a] /\ rank[a] < at.offset + limit})
        = (at.offset + limit) - at.offset
    <3>1. /\ at.offset \in Nat /\ at.offset + limit \in Nat
          /\ at.offset <= at.offset + limit /\ at.offset + limit <= Cardinality(committed)
      BY <1>1, <2>2, <2>3, <2>5
    <3> QED
      BY <2>3, <3>1, RankWindow
  <2>7. Cardinality(answer) = limit
    BY <1>1, <2>4, <2>6
  <2> QED
    BY <1>1, <2>2, <2>5, <2>7
<1> QED
  BY <1>1, <1>2 DEF AheadOf

\* Turning a page leaves no unseen row behind, and no insertion or update moves a row
\* that was there when the walk began.
LEMMA WalkAheadStep ==
    ASSUME TypeOK, TypeOK', InsertsApart, WalkAhead, [ApiNext]_apiVars
    PROVE  WalkAhead'
<1> USE DEF listVars
<1>r. committed \subseteq committed' /\ \A m \in committed : updatedAt'[m] = updatedAt[m]
  BY InsertsApartStep
<1>1. CASE List!GetAllMonitors
  <2>1. UNCHANGED <<updatedAt, committed>>
    BY <1>1, PageTurned
  <2>2. PICK rank \in List!Orders, at \in Walks :
            /\ at.step = "paging" /\ at # List!NotStarted /\ page' = Turn(at, rank)
            /\ \/ at = page
               \/ page = List!NotStarted /\ \E asked \in Limits : at = Start(asked)
    BY <1>1, PageTurned
  <2>3. AheadOf(at)
    <3>1. CASE at = page
      BY <2>2, <3>1 DEF WalkAhead
    <3>2. ASSUME NEW asked, at = Start(asked) PROVE AheadOf(at)
      <4>1. at.before = committed /\ at.offset = 0 /\ at.step = "paging"
        BY <3>2 DEF Start
      <4>2. \A m \in committed : 0 <= Cardinality(Earlier(m))
        BY CommittedFinite, FS_CardinalityType
      <4> QED
        BY <4>1, <4>2 DEF AheadOf
    <3> QED
      BY <2>2, <3>1, <3>2
  <2>4. AheadOf(Turn(at, rank))
    BY <2>2, <2>3, TurnAhead
  <2> QED
    BY <2>1, <2>2, <2>4 DEF WalkAhead, AheadOf, Earlier, List!Distinct
<1>2. CASE UNCHANGED page
  <2> SUFFICES ASSUME page # List!NotStarted PROVE AheadOf(page)'
    BY <1>2 DEF WalkAhead
  <2>1. AheadOf(page)
    BY DEF WalkAhead
  <2>2. page.before \subseteq committed'
    BY <1>r, <2>1 DEF AheadOf
  <2>3. List!Distinct' => List!Distinct
    BY <1>r DEF List!Distinct
  <2>f. \A m : IsFiniteSet(Earlier(m)')
    <3>1. \A m : Earlier(m)' \in SUBSET Monitors
      BY TypeParts DEF Earlier, RowsOK
    <3> QED
      BY <3>1, ApiAssumption, FS_Subset
  <2>4. ASSUME NEW m \in committed PROVE Cardinality(Earlier(m)) <= Cardinality(Earlier(m)')
    <3>1. Earlier(m) \in SUBSET Earlier(m)'
      BY <1>r, <2>4 DEF Earlier
    <3> QED
      BY <2>f, <3>1, FS_Subset
  <2>5. \A m : Cardinality(Earlier(m)) \in Nat /\ Cardinality(Earlier(m)') \in Nat
    BY <2>f, CommittedFinite, FS_CardinalityType
  <2>6. page.offset \in Nat
    BY TypeParts DEF PageOK, Walks
  <2>7. ASSUME List!Distinct', NEW m \in page.before, m \notin page.seen
        PROVE  page.step = "paging" /\ page.offset <= Cardinality(Earlier(m)')
    <3>1. m \in committed /\ page.step = "paging" /\ page.offset <= Cardinality(Earlier(m))
      BY <2>1, <2>3, <2>7 DEF AheadOf
    <3>2. Cardinality(Earlier(m)) <= Cardinality(Earlier(m)')
      BY <2>4, <3>1
    <3> QED
      BY <2>5, <2>6, <3>1, <3>2
  <2> QED
    BY <1>2, <2>2, <2>7 DEF AheadOf
<1>3. UNCHANGED page \/ List!GetAllMonitors
  BY DEF ApiNext, MonitorStep, CreateMonitor, MonitorCreated, GetAllMonitors,
     UpdateMonitorStatus, List!BeginInsert, List!CommitInsert, List!AbortInsert,
     List!UpdateStatus, apiVars
<1> QED
  BY <1>1, <1>2, <1>3

\* For any number of monitors, any limits and any inserts, updates, failures and logins
\* between the pages: a walk that has come to the end has shown every monitor that was
\* there when it began.
THEOREM ListingIsComplete == ApiSpec => []ListingComplete
<1> DEFINE IInv == InsertsApart /\ WalkAhead
<1>1. ApiInit => IInv
  BY DEF ApiInit, Init, List!Init, InsertsApart, Inserting, Ready, WalkAhead
<1>2. TypeOK /\ TypeOK' /\ IInv /\ [ApiNext]_apiVars => IInv'
  BY InsertsApartStep, WalkAheadStep
<1>3. IInv => ListingComplete
  <2> SUFFICES ASSUME WalkAhead, page.step = "done", List!Distinct
               PROVE  page.before \subseteq page.seen
    BY DEF ListingComplete, List!ListingComplete
  <2>1. page # List!NotStarted
    BY DEF List!NotStarted
  <2> QED
    BY <2>1 DEF WalkAhead, AheadOf
<1> QED
  BY <1>1, <1>2, <1>3, TypeCorrect, PTL DEF ApiSpec
-----------------------------------------------------------------------------
(* Pages: a walk cannot go on past the end of the list *)

\* From a place within the list a page that is full ends within it.
LEMMA FullPageFits ==
    ASSUME TypeOK, NEW rank \in List!Orders, NEW offset \in Nat, NEW limit \in Nat,
           offset <= Cardinality(committed),
           ~ (Cardinality(List!Page(rank, limit, offset)) < limit)
    PROVE  offset + limit <= Cardinality(committed)
<1>1. /\ IsFiniteSet(committed) /\ Cardinality(committed) \in Nat
      /\ rank \in [committed -> 0 .. Cardinality(committed) - 1]
      /\ \A a, b \in committed : a # b => rank[a] # rank[b]
  BY CommittedFinite, FS_CardinalityType, ListCardinality DEF List!Orders
<1>2. SUFFICES ASSUME offset + limit > Cardinality(committed) PROVE FALSE
  BY <1>1
<1>3. \A m \in committed : rank[m] \in Nat /\ rank[m] < Cardinality(committed)
  BY <1>1
<1>4. List!Page(rank, limit, offset)
      = {m \in committed : offset <= rank[m] /\ rank[m] < Cardinality(committed)}
  <2>1. \A m \in committed : rank[m] < offset + limit
    BY <1>1, <1>2, <1>3
  <2> QED
    BY <1>1, <1>3, <2>1 DEF List!Page
<1>5. Cardinality({m \in committed : offset <= rank[m] /\ rank[m] < Cardinality(committed)})
      = Cardinality(committed) - offset
  <2>1. Cardinality(committed) <= Cardinality(committed)
    BY <1>1
  <2> QED
    BY <1>1, <2>1, RankWindow
<1> QED
  BY <1>1, <1>2, <1>4, <1>5

\* Turning a page keeps a walk that goes on within the list, and the list does not shrink.
LEMMA WalkBoundedStep ==
    ASSUME TypeOK, TypeOK', InsertsApart, WalkBounded, [ApiNext]_apiVars
    PROVE  WalkBounded'
<1> USE ListCardinality DEF WalkBounded, List!WalkBounded, listVars
<1>1. CASE List!GetAllMonitors
  <2>1. UNCHANGED committed
    BY <1>1, PageTurned
  <2>2. PICK rank \in List!Orders, at \in Walks :
            /\ at.step = "paging" /\ at # List!NotStarted /\ page' = Turn(at, rank)
            /\ \/ at = page
               \/ page = List!NotStarted /\ \E asked \in Limits : at = Start(asked)
    BY <1>1, PageTurned
  <2>3. at.offset <= Cardinality(committed)
    <3>1. CASE at = page
      BY <2>2, <3>1
    <3>2. ASSUME NEW asked, at = Start(asked) PROVE at.offset <= Cardinality(committed)
      BY <3>2, CommittedFinite, FS_CardinalityType DEF Start
    <3> QED
      BY <2>2, <3>1, <3>2
  <2> DEFINE limit  == List!EffectiveLimit(at.asked)
             answer == List!Page(rank, limit, at.offset)
  <2>4. /\ page'.offset = at.offset + limit
        /\ page'.step = IF Cardinality(answer) < limit THEN "done" ELSE at.step
        /\ limit \in Nat /\ at.offset \in Nat
    BY <2>2, TurnFields
  <2>5. page'.step = "paging" => page'.offset <= Cardinality(committed)
    BY <2>3, <2>4, FullPageFits
  <2> QED
    BY <2>1, <2>5
<1>2. CASE UNCHANGED page
  <2>1. committed \in SUBSET committed'
    BY InsertsApartStep
  <2>2. IsFiniteSet(committed) /\ IsFiniteSet(committed')
    <3>1. committed \in SUBSET Monitors /\ committed' \in SUBSET Monitors
      BY TypeParts DEF RowsOK
    <3> QED
      BY <3>1, ApiAssumption, FS_Subset
  <2>3. /\ Cardinality(committed) <= Cardinality(committed')
        /\ Cardinality(committed) \in Nat /\ Cardinality(committed') \in Nat
    BY <2>1, <2>2, FS_Subset, FS_CardinalityType
  <2>4. page.step = "paging" => page.offset \in Nat
    BY TypeParts DEF PageOK, Walks, List!NotStarted
  <2> QED
    BY <1>2, <2>3, <2>4
<1>3. UNCHANGED page \/ List!GetAllMonitors
  BY DEF ApiNext, MonitorStep, CreateMonitor, MonitorCreated, GetAllMonitors,
     UpdateMonitorStatus, List!BeginInsert, List!CommitInsert, List!AbortInsert,
     List!UpdateStatus, apiVars
<1> QED
  BY <1>1, <1>2, <1>3

\* For any limit, the nonsensical ones too, a client that still pages is within the list:
\* with each page at least one row long, its walk is no longer than the list.
THEOREM WalkIsBounded == ApiSpec => []WalkBounded
<1> DEFINE IInv == InsertsApart /\ WalkBounded
<1>1. ApiInit => IInv
  BY DEF ApiInit, Init, List!Init, List!NotStarted, InsertsApart, Inserting, Ready,
     WalkBounded, List!WalkBounded
<1>2. TypeOK /\ TypeOK' /\ IInv /\ [ApiNext]_apiVars => IInv'
  BY InsertsApartStep, WalkBoundedStep
<1> QED
  BY <1>1, <1>2, TypeCorrect, PTL DEF ApiSpec
=============================================================================
