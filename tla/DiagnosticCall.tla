--------------------------- MODULE DiagnosticCall ---------------------------
(***************************************************************************)
(* What a caller may expect of one call of full_diagnostic: it comes to an *)
(* end, and returns a report marked "interrupted" only if it was asked to  *)
(* stop.  RunControl builds on this: its actions Complete, Interrupt and   *)
(* Raise are the three ways to end.                                        *)
(***************************************************************************)
VARIABLES
    asked,   \* whether the call was asked to stop
    outcome  \* how it ended, "pending" before it has

vars == <<asked, outcome>>

Init == asked = FALSE /\ outcome = "pending"

Ask == asked' = TRUE /\ UNCHANGED outcome

\* A second interruption may end it at once.
End ==
    /\ outcome = "pending"
    /\ \/ outcome' \in {"full", "raised"}
       \/ asked /\ outcome' = "partial"
    /\ asked' \in {asked, TRUE}

SafeSpec == Init /\ [][Ask \/ End]_vars
Spec == SafeSpec /\ WF_vars(End)
=============================================================================
