----------------------------- MODULE RunSummary -----------------------------
(***************************************************************************)
(* What the statistics that run() returns promise about the submissions of *)
(* a benchmark: they have every one that was counted when run() returned.  *)
(* A submitter that is left running may count one more; only if its time   *)
(* is not over, because run() waits for two hours at most, any number.     *)
(***************************************************************************)
EXTENDS Naturals

VARIABLES
    counted,    \* submissions counted, as accepted or as failed
    reported,   \* submissions in the statistics that run() has returned
    over,       \* run() has returned
    capped      \* the duration is longer than run() waits

vars == <<counted, reported, over, capped>>

Init ==
    /\ counted = 0
    /\ reported = 0
    /\ over = FALSE
    /\ capped \in BOOLEAN

Count ==
    /\ over => capped \/ counted = reported
    /\ counted' = counted + 1
    /\ UNCHANGED <<reported, over, capped>>

Return ==
    /\ ~over
    /\ over' = TRUE
    /\ reported' = counted
    /\ UNCHANGED <<counted, capped>>

Next == Count \/ Return

Spec == Init /\ [][Next]_vars
=============================================================================
