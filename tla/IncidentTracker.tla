-------------------------- MODULE IncidentTracker --------------------------
(* What the incident hash of a monitor promises: failures are counted, the    *)
(* alert is raised once, after AlertThreshold of them, and recovery forgets   *)
(* both.  A recovery may overtake a decision to alert; that alert may then    *)
(* still be raised, below the threshold.                                      *)
EXTENDS Naturals

CONSTANT AlertThreshold

VARIABLES
    count,    \* failures since the last recovery
    alerted,  \* the alert was raised since then
    late      \* a decision to alert taken before the last recovery is pending

vars == <<count, alerted, late>>

Init == count = 0 /\ alerted = FALSE /\ late = FALSE

\* A failure is counted; a repeated HINCRBY may count it more than once.
Fail == count' \in Nat /\ count' > count /\ UNCHANGED <<alerted, late>>

Alert ==
    /\ count >= AlertThreshold \/ late
    /\ ~alerted
    /\ alerted' = TRUE
    /\ late' => late
    /\ UNCHANGED count

\* Only a decision taken at the threshold can come late.
Recover ==
    /\ count' = 0 /\ alerted' = FALSE
    /\ late' => late \/ count >= AlertThreshold

\* A late decision comes to nothing: the alert was raised already, or the worker died.
DropLate == late /\ late' = FALSE /\ UNCHANGED <<count, alerted>>

Next == Fail \/ Alert \/ Recover \/ DropLate

Spec == Init /\ [][Next]_vars
=============================================================================
