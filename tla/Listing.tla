------------------------------ MODULE Listing -------------------------------
(***************************************************************************)
(* GET /monitors: one user's rows, read page by page with LIMIT and OFFSET *)
(* while monitors are created and updated.  A client goes through the      *)
(* pages: it starts at offset 0, moves on by the limit it was answered     *)
(* with, and stops at a page that is not full.                             *)
(***************************************************************************)
EXTENDS Integers, FiniteSets

CONSTANTS
    Monitors,  \* ids of the user's monitors
    Updated,   \* the ones whose status is updated
    Limits     \* limits that clients ask for

VARIABLES
    updatedAt,  \* the column, 0 while there is no row
    committed,  \* rows that a SELECT sees
    disabled,   \* rows with enabled = false
    page        \* the client's way through the list

rows == <<updatedAt, committed, disabled>>

NotStarted == [step |-> "notStarted"]

Init ==
    /\ updatedAt = [m \in Monitors |-> 0]
    /\ committed = {}
    /\ disabled = {}
    /\ page = NotStarted

-----------------------------------------------------------------------------
(* Rows *)

\* now() of the statement: the clock may not have moved since the last one.
Now == {t \in 1 .. Cardinality(Monitors) :
           /\ \A m \in Monitors : updatedAt[m] <= t
           /\ t = 1 \/ \E m \in Monitors : updatedAt[m] \in {t - 1, t}}

\* The INSERT takes its time when it starts, and is seen when it commits.
BeginInsert(m) ==
    /\ updatedAt[m] = 0
    /\ \E t \in Now : updatedAt' = [updatedAt EXCEPT ![m] = t]
    /\ UNCHANGED <<committed, disabled, page>>

CommitInsert(m) == committed' = committed \cup {m} /\ UNCHANGED <<updatedAt, disabled, page>>

AbortInsert(m) ==
    /\ updatedAt' = [updatedAt EXCEPT ![m] = 0]
    /\ UNCHANGED <<committed, disabled, page>>

\* Faulty: the update moves the row to the end of the list.
Touch(m) == updatedAt' = [updatedAt EXCEPT ![m] = Cardinality(Monitors) + 1]

\* UPDATE monitors SET enabled: the other columns, updated_at too, stay.
SetEnabled(m) == UNCHANGED updatedAt

UpdateStatus(m) ==
    /\ m \in committed
    /\ disabled' = IF m \in disabled THEN disabled \ {m} ELSE disabled \cup {m}
    /\ SetEnabled(m)
    /\ UNCHANGED <<committed, page>>

-----------------------------------------------------------------------------
(* Pages *)

\* Faulty: the limit is taken as it is.
LimitAsGiven(limit) == limit

\* GetAllMonitors, the handler: limits that make no sense become ten.
EffectiveLimit(limit) == IF limit <= 0 THEN 10 ELSE limit

\* ORDER BY updated_at: rows of the same time come in any order.
Orders ==
    {rank \in [committed -> 0 .. Cardinality(committed) - 1] :
        \A a, b \in committed : /\ a # b => rank[a] # rank[b]
                                /\ updatedAt[a] < updatedAt[b] => rank[a] < rank[b]}

\* Faulty: the answer begins with the first row again.
PageFromStart(rank, limit, offset) == {m \in DOMAIN rank : rank[m] < offset + limit}

\* LIMIT and OFFSET.
Page(rank, limit, offset) ==
    {m \in DOMAIN rank : offset <= rank[m] /\ rank[m] < offset + limit}

\* The next page of a traversal; the first one fixes the limit and, for the history,
\* the rows that exist.
GetAllMonitors ==
    /\ page.step \in {"notStarted", "paging"}
    /\ \E rank \in Orders, asked \in IF page = NotStarted THEN Limits ELSE {page.asked} :
          LET at     == IF page = NotStarted
                           THEN [step |-> "paging", asked |-> asked, offset |-> 0,
                                 before |-> committed, seen |-> {}]
                           ELSE page
              limit  == EffectiveLimit(asked)
              answer == Page(rank, limit, at.offset)
          IN page' = [at EXCEPT !.seen = @ \cup answer,
                                !.offset = @ + limit,
                                !.step = IF Cardinality(answer) < limit THEN "done" ELSE @]
    /\ UNCHANGED rows

-----------------------------------------------------------------------------
(* Properties *)

Distinct == \A a, b \in committed : updatedAt[a] = updatedAt[b] => a = b

\* A client that has gone through all pages has seen every monitor that existed when it
\* began, whatever was created, committed out of order or updated meanwhile: updated_at
\* never changes, so rows only ever move towards later pages.  (Two rows of the same
\* microsecond have no fixed order, and one of them may be missed.)
ListingComplete == page.step = "done" /\ Distinct => page.before \subseteq page.seen

\* A client that still goes on has been shown full pages only and has not been sent past
\* the end of the list, whatever the limit it asked for: every page takes it at least one
\* row further, so it cannot go on for longer than there are rows.
WalkBounded == page.step = "paging" => page.offset <= Cardinality(committed)
=============================================================================
