---------------------------- MODULE Measurements ----------------------------
(***************************************************************************)
(* What the probes hand to the analysis: rows of counts and percentiles    *)
(* (netdiag_core/probes/ping.py, dns_tcp.py, webprobes.py).  Times are     *)
(* whole milliseconds and shares whole percents.  A value that Python has  *)
(* as None, or leaves out, is None.                                        *)
(***************************************************************************)
EXTENDS Integers, FiniteSets

CONSTANT None

\* x or 0
OrZero(x) == IF x = None THEN 0 ELSE x

Percent(part, whole) == (100 * part) \div whole

\* The row of a burst of pings; latency has the percentile and the jitter of
\* the answers.  Percentiles need an answer and jitter two.
PingRow(host, lost, sent, latency) ==
    [host   |-> host,
     loss   |-> Percent(lost, sent),
     p95    |-> IF lost = sent THEN None ELSE latency.p95,
     jitter |-> IF sent - lost < 2 THEN None ELSE latency.jitter]

\* The row of repeated lookups of a name, or of repeated connects to a target.
TryRow(target, failures, count, p95) ==
    [target |-> target,
     fail   |-> Percent(failures, count),
     p95    |-> IF failures = count THEN None ELSE p95]

\* The row of repeated HTTP HEAD requests.
HttpRow(host, failures, count, p95) ==
    [host     |-> host,
     failures |-> failures,
     p95      |-> IF failures = count THEN None ELSE p95]

\* The small image downloads; a run in which all fail has an error instead.
Downloads(success, failures) ==
    [success  |-> success,
     failures |-> failures,
     error    |-> success = 0 /\ failures > 0]

\* Mutant: loss below 5 % is not looked at.
ClassifySomeLossClean(row) ==
    IF row.loss >= 5 THEN "bad_loss"
    ELSE IF OrZero(row.p95) >= 150 THEN "latency_spikes"
    ELSE IF OrZero(row.jitter) >= 80 THEN "high_jitter"
    ELSE "clean"
classify_ping(row) ==
    IF row.loss >= 5 THEN "bad_loss"
    ELSE IF row.loss >= 1 THEN "some_loss"
    ELSE IF OrZero(row.p95) >= 300 THEN "bad_latency_spikes"
    ELSE IF OrZero(row.p95) >= 150 THEN "latency_spikes"
    ELSE IF OrZero(row.jitter) >= 80 THEN "high_jitter"
    ELSE "clean"
=============================================================================
