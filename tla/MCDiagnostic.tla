---------------------------- MODULE MCDiagnostic ----------------------------
(* Instances of Diagnostic for TLC. *)
EXTENDS Diagnostic

\* What POST /api/run asks for by default on Linux, a bare daemon run, and all.
SomeOptions == {{"mtr", "bufferbloat"}, {}, Optional}
=============================================================================
