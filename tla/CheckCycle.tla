----------------------------- MODULE CheckCycle -----------------------------
(***************************************************************************)
(* What the pipeline promises of every monitor, whatever the number of     *)
(* instances: it goes round one cycle.  It is stored, scheduled, taken     *)
(* into the batch of one scheduler, handled by one goroutine after the     *)
(* other (a scheduler that puts it back is one of them) and scheduled      *)
(* again, in this order and at one place at a time.  It leaves             *)
(* the cycle when its checks are ended or in a step that fails, and the    *)
(* reclaimer may put it back.  Nothing is promised of a monitor that was   *)
(* handed out again while somebody still had it.                           *)
(***************************************************************************)
EXTENDS Naturals

CONSTANT Monitors

VARIABLES
    place,  \* where each monitor is
    faults  \* crashes and failed calls so far

vars == <<place, faults>>

Places == {"new", "scheduled", "batch", "handled", "ended", "lost", "reissued"}

Init == place = [m \in Monitors |-> "new"] /\ faults = 0

Go(m, from, to) == place[m] \in from /\ place'[m] \in to

\* The request that stores it has it until it is scheduled.
Create(m)  == Go(m, {"new"}, {"handled"})
\* A scheduler has it, and sends it on or goes on to put it back.
Take(m)    == Go(m, {"scheduled"}, {"batch"})
Send(m)    == Go(m, {"batch"}, {"handled"})
\* The handling is over: the next check, or no more of them.
Finish(m)  == Go(m, {"handled"}, {"scheduled", "ended"})
\* The reclaimer finds it.
Recover(m) == Go(m, {"lost", "ended"}, {"scheduled"})
\* The visibility timeout was too short, or a ZADD was sent twice.
Reissue(m) == Go(m, Places \ {"new"}, {"reissued"})
\* A call that failed, or the crash of an instance, which may have had many.
Lose(m)    == /\ faults' = faults + 1
              /\ Go(m, {"new", "scheduled", "batch", "handled"}, {"lost", "ended"})

Step(m) ==
    \/ Create(m) \/ Take(m) \/ Send(m) \/ Finish(m) \/ Recover(m) \/ Reissue(m) \/ Lose(m)

\* One step of the system may move a whole batch.
Next ==
    /\ faults' \in {faults, faults + 1}
    /\ place' \in [Monitors -> Places]
    /\ \A m \in Monitors : place'[m] = place[m] \/ Step(m)

Spec == Init /\ [][Next]_vars
=============================================================================
