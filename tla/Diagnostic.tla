----------------------------- MODULE Diagnostic -----------------------------
(***************************************************************************)
(* One call of full_diagnostic (netdiag_core/orchestrate.py) and what      *)
(* cli_main (cli.py) does with its report: the order of the probes, the    *)
(* places where the Stop button and Ctrl-C are noticed, what has been      *)
(* recorded by then, and the analysis of complete and of partial reports.  *)
(*                                                                         *)
(* A probe answers "ok", or "dead" when every attempt failed, so that its  *)
(* percentiles are None (stats.py:22).  That a tool is missing is an "ok"  *)
(* answer too: None is what the probe found out.                           *)
(***************************************************************************)
EXTENDS Naturals, Sequences

CONSTANTS
    Loops,     \* how many hosts, DNS names and TCP targets there are
    Options,   \* the sets of optional probes a caller may ask for
    MaxCtrlC   \* how often Ctrl-C is pressed at most

\* Probes behind a flag of the caller.
Optional == {"bufferbloat", "mtr", "speedtest", "iperf3", "download_test",
             "connection_test", "reliability_test", "wellknown_test"}

ASSUME DiagnosticAssumption ==
    /\ Loops \in Nat
    /\ Options \subseteq SUBSET Optional
    /\ MaxCtrlC \in Nat

VARIABLES
    caller,       \* "gui" polls a stop flag, "daemon" has a callback only, "cli" neither
    options,      \* the optional probes it asks for
    found,        \* which of "iface" and "gateway" were detected
    pc,           \* where the call is
    i,            \* the probe it is at, an index of Order
    results,      \* what each probe recorded in the results dict
    interrupted,  \* results["interrupted"]
    stop,         \* the caller's stop flag
    ctrlC,        \* how often Ctrl-C was pressed
    files         \* what cli_main has written

vars == <<caller, options, found, pc, i, results, interrupted, stop, ctrlC, files>>

Repeat(probe) == [n \in 1..Loops |-> probe]

\* The order of the probes; "mtu" is the second half of the connection test.
Order == <<"interface", "wifi", "ethtool", "gateway">>
         \o Repeat("internet") \o Repeat("dns") \o Repeat("tcp")
         \o <<"tcp_sockets", "bufferbloat", "mtr", "speedtest", "iperf3",
              "download_test", "connection_test", "mtu", "reliability_test",
              "wellknown_test">>

Places == {"detect", "boundary", "announce", "probing", "record", "analyse",
           "returned", "raised"}
TypeOK ==
    /\ caller \in {"gui", "daemon", "cli"}
    /\ options \in SUBSET Optional
    /\ found \in SUBSET {"iface", "gateway"}
    /\ pc \in Places
    /\ i \in 1..(Len(Order) + 1)
    /\ results \in [1..Len(Order) -> {"none", "ok", "dead"}]
    /\ interrupted \in BOOLEAN
    /\ stop \in BOOLEAN
    /\ ctrlC \in 0..MaxCtrlC
    /\ files \in SUBSET {"report", "history", "aborted"}

Init ==
    /\ caller \in {"gui", "daemon", "cli"} /\ options \in Options /\ found = {}
    /\ pc = "detect" /\ i = 1
    /\ results = [n \in 1..Len(Order) |-> "none"]
    /\ interrupted = FALSE /\ stop = FALSE /\ ctrlC = 0 /\ files = {}

call == <<caller, options>>
env == <<stop, ctrlC>>

-----------------------------------------------------------------------------
(* The probe at i.  A definition that follows the comment "Mutant:" is the  *)
(* next one with a bug; no action uses it.                                  *)

Probe == Order[i]
More == i <= Len(Order)

\* The conditions around a probe.
Wanted(probe) ==
    /\ probe \in {"interface", "wifi", "ethtool", "tcp_sockets", "bufferbloat"}
         => "iface" \in found
    /\ probe = "gateway" => "gateway" \in found
    /\ probe \in Optional => probe \in options
    /\ probe = "mtu" => "connection_test" \in options
    /\ probe = "mtr" => Loops > 0

\* Where _stopcheck is called before the probe.
Checked == Probe \in {"gateway", "internet"} \union Optional

\* Probes that call the callback on their way.
Chatty == Probe \in {"gateway", "internet", "reliability_test", "wellknown_test"}

\* Mutant: the callback does not raise.
StopSeenAtBoundaries == caller = "gui" /\ stop /\ pc = "boundary"
\* Only the GUI passes should_stop and a callback that raises.
StopSeen == caller = "gui" /\ stop

Answers == IF Probe \in {"gateway", "internet", "dns"} THEN {"ok", "dead"} ELSE {"ok"}

\* Mutant: nothing comes after a probe that is not wanted.
AdvanceUnlessLast == i' = IF i < Len(Order) THEN i + 1 ELSE i
Advance == i' = i + 1

\* Mutant: an interrupted call does not say so.
MarkForgotten == UNCHANGED interrupted
Mark == interrupted' = TRUE

\* Mutant: an answer is recorded only if there was one.
StoreIfAnswered(a) == results' = IF a = "ok" THEN [results EXCEPT ![i] = a] ELSE results
Store(a) == results' = [results EXCEPT ![i] = a]

\* p95_ms of a dead gateway and of a dead DNS name is None, and None is
\* compared with a number: in _diag_gateway and in health_score.
Scorable == \A n \in 1..Len(Order) :
                Order[n] \in {"gateway", "dns"} => results[n] # "dead"

\* Mutant: the exception is turned into an answer no caller knows.
VerdictCaught == IF Scorable THEN "returned" ELSE "failed"
Verdict == IF Scorable THEN "returned" ELSE "raised"

\* Mutant: an interrupted call is not saved.
WritingUnlessInterrupted ==
    caller = "cli" /\ pc = "returned" /\ files \in {{}, {"report"}} /\ ~interrupted
\* cli_main has the report and has not written everything.
Writing == caller = "cli" /\ pc = "returned" /\ files \in {{}, {"report"}}

-----------------------------------------------------------------------------
Detect(f) ==
    /\ pc = "detect"
    /\ found' = f /\ pc' = "boundary"
    /\ UNCHANGED <<call, i, results, interrupted, env, files>>

\* The except clauses: what was recorded is analysed.
Unwind ==
    /\ Mark /\ pc' = "analyse"
    /\ UNCHANGED <<call, found, i, results, env, files>>

Skip ==
    /\ pc = "boundary" /\ More /\ ~Wanted(Probe)
    /\ Advance
    /\ UNCHANGED <<call, found, pc, results, interrupted, env, files>>

Begin ==
    /\ pc = "boundary" /\ More /\ Wanted(Probe) /\ ~(Checked /\ StopSeen)
    /\ pc' = "announce"
    /\ UNCHANGED <<call, found, i, results, interrupted, env, files>>

\* The callback before the probe, which reports it as running.
Announce ==
    /\ pc = "announce" /\ ~StopSeen
    /\ pc' = "probing"
    /\ UNCHANGED <<call, found, i, results, interrupted, env, files>>

\* The probe returns and its answer goes into the results dict.
Answer(a) ==
    /\ pc = "probing" /\ a \in Answers
    /\ Store(a) /\ pc' = "record"
    /\ UNCHANGED <<call, found, i, interrupted, env, files>>

\* The callback after the probe, which reports it as done.
Record ==
    /\ pc = "record" /\ ~StopSeen
    /\ Advance /\ pc' = "boundary"
    /\ UNCHANGED <<call, found, results, interrupted, env, files>>

\* _stopcheck and the callback raise UserInterrupted; inside a probe only the
\* chatty ones notice, and what the probe measured so far is lost.
StopNoticed ==
    /\ StopSeen
    /\ \/ pc = "boundary" /\ More /\ Wanted(Probe) /\ Checked
       \/ pc \in {"announce", "record"}
       \/ pc = "probing" /\ Chatty
    /\ Unwind

LastProbe ==
    /\ pc = "boundary" /\ i = Len(Order) + 1
    /\ pc' = "analyse"
    /\ UNCHANGED <<call, found, i, results, interrupted, env, files>>

\* reconcile_icmp, diagnose and health_score, outside of the try.
Analyse ==
    /\ pc = "analyse"
    /\ pc' = Verdict
    /\ UNCHANGED <<call, found, i, results, interrupted, env, files>>

-----------------------------------------------------------------------------
(* The caller and the user.                                                 *)

PressStop ==
    /\ caller = "gui" /\ ~stop
    /\ stop' = TRUE
    /\ UNCHANGED <<call, found, pc, i, results, interrupted, ctrlC, files>>

\* KeyboardInterrupt is caught around the probes only.
PressCtrlC ==
    /\ caller = "cli" /\ ctrlC < MaxCtrlC
    /\ ctrlC' = ctrlC + 1
    /\ \/ /\ pc \in {"boundary", "announce", "probing", "record"}
          /\ Mark /\ pc' = "analyse" /\ UNCHANGED files
       \/ /\ pc \in {"detect", "analyse"}
          /\ pc' = "raised" /\ UNCHANGED <<interrupted, files>>
       \/ /\ Writing
          /\ files' = files \union {"aborted"} /\ UNCHANGED <<pc, interrupted>>
    /\ UNCHANGED <<call, found, i, results, stop>>

\* cli_main writes the report files, then the session file.
Write ==
    /\ Writing
    /\ files' = files \union {IF files = {} THEN "report" ELSE "history"}
    /\ UNCHANGED <<call, found, pc, i, results, interrupted, env>>

-----------------------------------------------------------------------------
Step ==
    \/ \E f \in SUBSET {"iface", "gateway"} : Detect(f)
    \/ Skip \/ Begin \/ Announce \/ Record \/ StopNoticed \/ LastProbe \/ Analyse
    \/ \E a \in {"ok", "dead"} : Answer(a)
    \/ Write

Next == Step \/ PressStop \/ PressCtrlC

\* The call goes on by itself: every probe is bounded by its timeouts.  Nobody
\* has to press anything.
Spec == Init /\ [][Next]_vars /\ WF_vars(Step)

-----------------------------------------------------------------------------
(* Properties                                                               *)

\* Once Stop was pressed no new probe starts, also before the probes that have
\* no _stopcheck of their own (orchestrate.py:21-22).
NoProbeAfterStop == [][stop /\ pc' = "probing" => pc = "probing"]_vars

\* What is recorded is coherent, whenever the call is interrupted: every wanted
\* probe before the current one has its answer, and no other probe has one.
ReportIsPrefix ==
    \A n \in 1..Len(Order) :
        /\ n < i => (Wanted(Order[n]) <=> results[n] # "none")
        /\ n > i => results[n] = "none"

\* A report that is not marked as interrupted holds every probe that was asked
\* for and possible, and no other.
UnmarkedIsComplete ==
    pc \in {"analyse", "returned"} /\ ~interrupted =>
        \A n \in 1..Len(Order) : (Wanted(Order[n]) <=> results[n] # "none")

\* The call keeps the contract RunControl builds on.
Call == INSTANCE DiagnosticCall
          WITH asked <- stop \/ ctrlC > 0,
               outcome <- CASE pc = "returned" /\ interrupted -> "partial"
                            [] pc = "returned" /\ ~interrupted -> "full"
                            [] pc = "raised" -> "raised"
                            [] OTHER -> "pending"
KeepsContract == Call!Spec

\* Ctrl-C during the probes still leaves report and session file, unless it is
\* pressed again or the report cannot be scored.
InterruptedRunIsSaved ==
    caller = "cli" /\ interrupted /\ ctrlC = 1 /\ Scorable
        ~> files = {"report", "history"} \/ ctrlC > 1

\* "On interrupt a coherent partial report is still reconciled, diagnosed, and
\* scored" (orchestrate.py:4-6).
StoppedRunIsScored == interrupted /\ stop => pc # "raised"
=============================================================================
