------------------------------ MODULE Verdicts ------------------------------
(***************************************************************************)
(* The findings drawn from a summary of the reliability probe              *)
(* (probes/verdicts.py, and wellknown_verdict of probes/webprobes.py).     *)
(*                                                                         *)
(* A tally t counts the trials t.n and the first attempts that failed,     *)
(* t.ff.  A summary s has such a tally of all trials in s.all, of each     *)
(* address family in s.v4 and s.v6, of the sequential pass in s.low and of *)
(* every target in s.targets, with is_ip; s.recovered and s.hard count the *)
(* first failures that a retry mended or did not, s.phases the phase each  *)
(* first failure came from.  A tally that was not taken is None.           *)
(***************************************************************************)
EXTENDS Layers

Reliability(severity, title) == Finding("reliability", severity, title, "")

\* The share of first failures is at least, or at most, so many percent.
AtLeast(t, percent) == 100 * t.ff >= percent * t.n
AtMost(t, percent)  == 100 * t.ff <= percent * t.n

Ipv6Verdict(s) ==
    When(s.v4 # None /\ s.v6 # None /\ AtLeast(s.v6, 30) /\ AtMost(s.v4, 10),
         {Reliability("bad", "ipv6_only")})

\* That the shares differ by 15 percent follows.
ConcurrencyVerdict(s) ==
    When(s.low # None /\ AtMost(s.low, 10) /\ AtLeast(s.all, 25),
         {Reliability("bad", "parallel_only")})

\* The worst name fails often and the worst address does not.
NameVerdict(s) ==
    LET names == {t \in s.targets : ~t.is_ip}
        addresses == s.targets \ names
    IN When(/\ addresses # {}
            /\ \E t \in names : AtLeast(t, 25)
            /\ \A t \in addresses : AtMost(t, 10),
            {Reliability("warning", "name_resolution")})

\* Phases with at least half of the first failures; "unknown" does not compete.
\* Of two equal ones Python takes the first in this order.
PhaseOrder == <<"dns", "tcp", "tls", "ttfb", "body">>
IsTop(s, k) ==
    LET count(m) == s.phases[PhaseOrder[m]]
    IN count(k) > 0 /\ \A m \in 1..5 : count(m) < count(k) \/ (count(m) = count(k) /\ m >= k)
PhaseVerdict(s) ==
    LET dominates(k) == IsTop(s, k) /\ 2 * s.phases[PhaseOrder[k]] >= s.all.ff
        named(k)     == PhaseOrder[k] = "dns" /\ NameVerdict(s) # {}
    IN When(AtLeast(s.all, 10),
            {Reliability("warning", PhaseOrder[k]) : k \in {m \in 1..5 : dominates(m) /\ ~named(m)}})

RetryVerdict(s) ==
    When(100 * s.recovered >= 15 * s.all.n /\ (s.hard <= 1 \/ 20 * s.hard <= s.all.n),
         {Reliability("warning", "retry_masked")})

Causes(s) == Ipv6Verdict(s) \union ConcurrencyVerdict(s) \union NameVerdict(s)
             \union PhaseVerdict(s) \union RetryVerdict(s)

\* Mutant: without a cause the connection is called reliable.
VerdictCausesOnly(s) ==
    IF Causes(s) # {} THEN Causes(s) ELSE {Reliability("clean", "reliable")}
reliability_verdict(s) ==
    IF Causes(s) # {} THEN Causes(s)
    ELSE {IF AtLeast(s.all, 10) THEN Reliability("warning", "first_attempts")
                                ELSE Reliability("clean", "reliable")}

\* The headline of the site fleet, and the findings above it.
wellknown_verdict(s) ==
    LET hard(floor, percent) == s.hard > floor /\ 100 * s.hard > percent * s.all.n
        failing == AtLeast(s.all, 10) \/ hard(2, 2)
        badly == AtLeast(s.all, 25) \/ hard(5, 5)
    IN [headline |-> Reliability(IF ~failing THEN "clean" ELSE IF badly THEN "bad" ELSE "warning",
                                 "site_fleet"),
        others |-> {v \in reliability_verdict(s) : v.severity # "clean"}]
=============================================================================
