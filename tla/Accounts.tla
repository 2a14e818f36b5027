------------------------------ MODULE Accounts ------------------------------
(***************************************************************************)
(* Registration, login and the authentication middleware, call by call.    *)
(* Requests for different email addresses touch different rows of users,   *)
(* so one address is enough.  What lies behind the middleware, except the  *)
(* profile, is left to the modules that extend this one.                   *)
(***************************************************************************)
EXTENDS Naturals, FiniteSets

CONSTANTS
    Requests,    \* HTTP requests in progress at once
    Passwords,   \* that clients register and log in with
    Guarded,     \* operations behind the authentication middleware
    MaxFaults    \* bound on failed calls, timeouts and lost replies

ASSUME AccountsAssumption == MaxFaults \in Nat /\ "getProfile" \in Guarded

VARIABLES
    account,   \* password_hash of the row in users, or NoAccount
    token,     \* a client has an unexpired token of the account
    request,   \* the requests in progress
    faults,
    \* History
    created,   \* passwords whose registration was answered 201
    refusals,  \* how refused logins were answered
    failures   \* with which status requests were answered when a call failed

failed == <<faults, failures>>
vars   == <<account, token, request, failed, created, refusals>>

Ready == [step |-> "ready"]
NoAccount == [alg |-> "none"]

Done(r) == request' = [request EXCEPT ![r] = Ready]

Init ==
    /\ account = NoAccount
    /\ token = FALSE
    /\ request = [r \in Requests |-> Ready]
    /\ faults = 0
    /\ created = {}
    /\ refusals = {}
    /\ failures = {}

-----------------------------------------------------------------------------
(* Errors and their answers *)

\* Kinds without a case of their own, AlreadyExists, RequestTimeout and DatabaseErr
\* among them, are answered 500.
GetHTTPStatus(kind) ==
    CASE kind = "InvalidInput" -> 400
      [] kind = "Unauthorised" -> 401
      [] kind = "Forbidden"    -> 403
      [] kind = "NotFound"     -> 404
      [] kind = "Conflict"     -> 409
      [] kind = "Dependency"   -> 502
      [] OTHER                 -> 500

\* What a client sees of an error: FromAppError writes its status and its kind.
FromAppError(kind) == <<GetHTTPStatus(kind), kind>>

\* What pgx reports when a query fails.
QueryErrors == {"deadline", "pgError", "connection"}

\* The statement may have committed all the same.
InDoubt(err) == err \in {"deadline", "connection"}

\* The kind of a failed query; a SELECT of one row may also find none.
WrapRepoError(err, isNotFoundErrPossible) ==
    CASE err = "deadline"                           -> "RequestTimeout"
      [] err = "noRows" /\ isNotFoundErrPossible    -> "NotFound"
      [] err = "pgError"                            -> "DatabaseErr"
      [] OTHER                                      -> "Internal"

\* A call fails and the request is answered with an error of this kind.
Fail(kind) ==
    /\ faults < MaxFaults
    /\ faults' = faults + 1
    /\ failures' = failures \cup {GetHTTPStatus(kind)}

-----------------------------------------------------------------------------
(* Register *)

\* Faulty: the password is hashed by the handler and again by the service.
HashPasswordTwice(p) == [alg |-> "argon2id", of |-> [alg |-> "argon2id", of |-> p]]

HashPassword(p) == [alg |-> "argon2id", of |-> p]

\* The handler and the hashing; a body that does not decode or validate is answered 400.
Register(r, p) ==
    /\ request[r] = Ready
    /\ \/ /\ request' = [request EXCEPT ![r] = [step |-> "createUser", pass |-> p]]
          /\ UNCHANGED failed
       \/ Fail("Dependency") /\ UNCHANGED request
    /\ UNCHANGED <<account, token, created, refusals>>

\* Faulty: ON CONFLICT (email) DO UPDATE.
InsertUserUpsert(p) == account' = HashPassword(p)

\* INSERT INTO users, whose email is UNIQUE.
InsertUser(p) == account = NoAccount /\ account' = HashPassword(p)

\* A unique violation is answered as an error; so is an insert that fails, or that
\* commits although the context of the request has expired or the connection breaks.
\* CreateUser tells these failures apart by itself, as WrapRepoError does.
CreateUser(r) ==
    /\ request[r].step = "createUser"
    /\ \/ /\ InsertUser(request[r].pass)
          /\ created' = created \cup {request[r].pass}
          /\ UNCHANGED failed
       \/ account # NoAccount /\ UNCHANGED <<account, created, failed>>
       \/ /\ \E err \in QueryErrors :
                /\ Fail(WrapRepoError(err, FALSE))
                /\ \/ InDoubt(err) /\ InsertUser(request[r].pass)
                   \/ UNCHANGED account
          /\ UNCHANGED created
    /\ Done(r)
    /\ UNCHANGED <<token, refusals>>

-----------------------------------------------------------------------------
(* LogIn *)

LogIn(r, p) ==
    /\ request[r] = Ready
    /\ request' = [request EXCEPT ![r] = [step |-> "getUser", pass |-> p]]
    /\ UNCHANGED <<account, token, failed, created, refusals>>

\* Faulty: the error is passed on as it is.
LogInErrorAsIs(kind) == kind

\* Faulty: every error means that the credentials are wrong.
LogInErrorAlways(kind) == "Unauthorised"

\* LogIn turns NotFound into Unauthorised and passes every other error on.
LogInError(kind) == IF kind = "NotFound" THEN "Unauthorised" ELSE kind

\* SELECT ... WHERE email = $1 finds a row.
UserFound == account # NoAccount

GetUserByEmail(r) ==
    /\ request[r].step = "getUser"
    /\ \/ /\ UserFound
          /\ request' = [request EXCEPT ![r] =
                            [step |-> "compare", pass |-> @.pass, hash |-> account]]
          /\ UNCHANGED <<refusals, failed>>
       \/ /\ ~ UserFound
          /\ refusals' = refusals \cup {FromAppError(LogInError(WrapRepoError("noRows", TRUE)))}
          /\ Done(r)
          /\ UNCHANGED failed
       \/ /\ \E err \in QueryErrors : Fail(LogInError(WrapRepoError(err, TRUE)))
          /\ Done(r)
          /\ UNCHANGED refusals
    /\ UNCHANGED <<account, token, created>>

\* Faulty: the result of the comparison is not looked at.
ComparePasswordUnread(p, hash) == hash # NoAccount

\* Faulty: the column is taken for the password itself.
ComparePasswordPlain(p, hash) == hash = p

\* Argon2id verifies p against a hash of p only; anything else in the column is an error.
ComparePassword(p, hash) == hash = [alg |-> "argon2id", of |-> p]

\* The token the client is answered with; it lives for auth.token_ttl.
GenerateAccessToken == token' = TRUE

\* The password is compared with the row read before, and a token signed.
Authorise(r) ==
    /\ request[r].step = "compare"
    /\ \/ /\ ComparePassword(request[r].pass, request[r].hash)
          /\ GenerateAccessToken
          /\ UNCHANGED <<refusals, failed>>
       \/ /\ ~ ComparePassword(request[r].pass, request[r].hash)
          /\ refusals' = refusals \cup {FromAppError("Unauthorised")}
          /\ UNCHANGED <<token, failed>>
       \/ Fail("Internal") /\ UNCHANGED <<token, refusals>>
    /\ Done(r)
    /\ UNCHANGED <<account, created>>

-----------------------------------------------------------------------------
(* The middleware and the profile *)

\* A token signed with the secret that has not expired: only GenerateAccessToken makes one.
ValidateAccessToken == token

\* A missing, malformed, forged or expired token is answered 401 and goes no further.
Authenticate(r, op) ==
    /\ request[r] = Ready
    /\ ValidateAccessToken
    /\ request' = [request EXCEPT ![r] = [step |-> op]]
    /\ UNCHANGED <<account, token, failed, created, refusals>>

\* The row of the claims' user, which no code deletes; the query may fail.
GetUserByID == UNCHANGED failed \/ \E err \in QueryErrors : Fail(WrapRepoError(err, TRUE))

GetProfile(r) ==
    /\ request[r].step = "getProfile"
    /\ GetUserByID
    /\ Done(r)
    /\ UNCHANGED <<account, token, created, refusals>>

TokenExpires ==
    /\ token
    /\ token' = FALSE
    /\ UNCHANGED <<account, request, failed, created, refusals>>

-----------------------------------------------------------------------------
NewRequest(r) ==
    \/ \E p \in Passwords : Register(r, p) \/ LogIn(r, p)
    \/ \E op \in Guarded : Authenticate(r, op)

RequestStep(r) == CreateUser(r) \/ GetUserByEmail(r) \/ Authorise(r) \/ GetProfile(r)

Next == (\E r \in Requests : NewRequest(r) \/ RequestStep(r)) \/ TokenExpires

-----------------------------------------------------------------------------
(* Properties *)

Hashes == [alg: {"argon2id"}, of: Passwords]

\* A client that was told its account exists keeps it: of the concurrent and repeated
\* registrations of an address one at most is answered 201, and the stored hash is the
\* one of its password for ever.
CreatedIsKept == \A p \in created : account = HashPassword(p)

\* A refused login does not tell whether the address is registered: a missing row and a
\* wrong password are answered with the same status and kind (service.go, LogIn).
RefusedAlike == Cardinality(refusals) <= 1

\* A failure of the server is never answered as a mistake of the client: a client that
\* is answered 4xx need not try again.
FailureNotBlamedOnClient == \A status \in failures : status >= 500

\* A token is only issued to a login whose password is the account's at that moment,
\* although the row was read in an earlier step and registrations go on meanwhile.
TokenEarned ==
    [][token' /\ ~ token =>
          \E r \in Requests : /\ request[r].step = "compare"
                              /\ account = HashPassword(request[r].pass)]_vars

\* Who was told that the account was created gets a token when trying to log in again
\* and again: what Register stores is what LogIn accepts.
CreatedLogsIn ==
    \A p \in Passwords :
        /\ <>(p \in created)
        /\ []<>(\E r \in Requests : request[r] = [step |-> "getUser", pass |-> p])
        => []<>token
=============================================================================
