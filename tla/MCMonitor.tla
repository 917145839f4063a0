----------------------------- MODULE MCMonitor -----------------------------
(* Instances of Monitor for TLC. *)
EXTENDS Monitor

\* A gateway that may not be found, and a name that is always resolved.
TwoKeys == <<"gateway", "dns">>
GatewayComesAndGoes == {{"gateway", "dns"}, {"dns"}}
=============================================================================
