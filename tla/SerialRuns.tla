----------------------------- MODULE SerialRuns -----------------------------
(***************************************************************************)
(* What the web server promises its clients about the runs of one slot,    *)
(* the diagnostics of POST /api/run or the jobs of the Tools tab: they run *)
(* one at a time, and each run that is accepted ends with one outcome that *)
(* never changes afterwards.                                               *)
(***************************************************************************)
CONSTANTS
    Runs,  \* the runs a client may ask for
    None   \* no run

VARIABLES
    current,  \* the run in progress, or None
    outcome   \* how each run ended, "pending" before it has

vars == <<current, outcome>>

Outcomes == {"done", "stopped", "error"}

Init == current = None /\ outcome = [r \in Runs |-> "pending"]

Accept(r) ==
    /\ current = None /\ outcome[r] = "pending"
    /\ current' = r
    /\ UNCHANGED outcome

End(r) ==
    /\ current = r
    /\ current' = None
    /\ \E o \in Outcomes : outcome' = [outcome EXCEPT ![r] = o]

Next == \E r \in Runs : Accept(r) \/ End(r)

SafeSpec == Init /\ [][Next]_vars
Spec == SafeSpec /\ \A r \in Runs : WF_vars(End(r))
=============================================================================
