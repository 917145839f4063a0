-------------------------- MODULE DiagnosticProofs --------------------------
(***************************************************************************)
(* Proofs about Diagnostic, for any number of hosts, names and targets,    *)
(* any options and any number of interruptions.                            *)
(***************************************************************************)
EXTENDS Diagnostic, SequenceTheorems, TLAPS

-----------------------------------------------------------------------------
(* The proofs need no more of Order than that it is a sequence.             *)

Probes == {"interface", "wifi", "ethtool", "gateway", "internet", "dns", "tcp",
           "tcp_sockets", "mtu"} \union Optional

\* One step for each element, whatever the probe.
LEMMA RepeatIsSeq == ASSUME NEW probe \in Probes PROVE Repeat(probe) \in Seq(Probes)
  BY DiagnosticAssumption, SeqDef DEF Repeat

\* The order of the probes is a sequence of probes.
LEMMA OrderIsSeq == Order \in Seq(Probes)
  <1>1. /\ Repeat("internet") \in Seq(Probes)
        /\ Repeat("dns") \in Seq(Probes)
        /\ Repeat("tcp") \in Seq(Probes)
    BY RepeatIsSeq DEF Probes
  <1>2. <<"interface", "wifi", "ethtool", "gateway">> \in Seq(Probes)
    BY DEF Probes
  <1>3. <<"tcp_sockets", "bufferbloat", "mtr", "speedtest", "iperf3", "download_test",
          "connection_test", "mtu", "reliability_test", "wellknown_test">> \in Seq(Probes)
    BY DEF Probes, Optional
  <1> HIDE DEF Probes
  <1> QED
    BY <1>1, <1>2, <1>3 DEF Order

\* It has a length, which is never computed.
LEMMA OrderLen == Len(Order) \in Nat
  BY OrderIsSeq

-----------------------------------------------------------------------------
(* Type correctness.  The index stays in range because the call is at a     *)
(* probe whenever it reports one.                                           *)

AtProbe == pc \in {"announce", "probing", "record"} => More
TypeInv == TypeOK /\ AtProbe

\* A call that was just made has its types.
LEMMA InitTypeInv == Init => TypeInv
  <1> SUFFICES ASSUME Init PROVE TypeInv
    OBVIOUS
  <1>1. i \in 1..(Len(Order) + 1)
    BY OrderLen DEF Init
  <1>2. options \in SUBSET Optional /\ ctrlC \in 0..MaxCtrlC
    BY DiagnosticAssumption DEF Init
  <1> QED
    BY <1>1, <1>2 DEF Init, TypeInv, AtProbe, TypeOK, Places

\* Probes, callbacks and interruptions keep the types.
LEMMA NextTypeInv == TypeInv /\ [Next]_vars => TypeInv'
  <1> SUFFICES ASSUME TypeInv, [Next]_vars PROVE TypeInv'
    OBVIOUS
  <1> USE OrderLen DEF TypeInv, AtProbe, TypeOK, Places, call, env, More
  <1>1. ASSUME NEW f \in SUBSET {"iface", "gateway"}, Detect(f) PROVE TypeInv'
    <2>1. found' \in SUBSET {"iface", "gateway"}
      BY <1>1 DEF Detect
    <2> QED
      BY <1>1, <2>1 DEF Detect
  <1>2. CASE Skip \/ Record
    <2>1. i \in 1..Len(Order) /\ i' = i + 1
      BY <1>2 DEF Skip, Record, Advance
    <2>2. i' \in 1..(Len(Order) + 1)
      BY <2>1
    <2> QED
      BY <1>2, <2>2 DEF Skip, Record
  <1>3. CASE Begin \/ Announce \/ LastProbe
    BY <1>3 DEF Begin, Announce, LastProbe
  <1>4. ASSUME NEW a \in {"ok", "dead"}, Answer(a) PROVE TypeInv'
    BY <1>4 DEF Answer, Store
  <1>5. CASE StopNoticed
    BY <1>5 DEF StopNoticed, Unwind, Mark
  <1>6. CASE Analyse
    BY <1>6 DEF Analyse, Verdict
  <1>7. CASE Write
    BY <1>7 DEF Write, Writing
  <1>8. CASE PressStop
    BY <1>8 DEF PressStop
  <1>9. CASE PressCtrlC
    <2>1. ctrlC' \in 0..MaxCtrlC
      BY <1>9, DiagnosticAssumption DEF PressCtrlC
    <2> QED
      BY <1>9, <2>1 DEF PressCtrlC, Mark, Writing
  <1>10. CASE UNCHANGED vars
    BY <1>10 DEF vars
  <1> QED
    BY <1>1, <1>2, <1>3, <1>4, <1>5, <1>6, <1>7, <1>8, <1>9, <1>10 DEF Next, Step

\* Every variable keeps its type.
THEOREM TypeCorrect == Spec => []TypeOK
  <1>1. TypeInv => TypeOK
    BY DEF TypeInv
  <1> QED
    BY <1>1, InitTypeInv, NextTypeInv, PTL DEF Spec

-----------------------------------------------------------------------------
(* Reports are coherent.  ReportIsPrefix speaks of the probes before and    *)
(* after the current one; to carry it over a step the invariant adds what   *)
(* is known of the current one, and that only a call that went through all  *)
(* probes comes to the analysis unmarked.                                   *)

CurrentProbe ==
    /\ pc \in {"announce", "probing", "record"} => More /\ Wanted(Probe)
    /\ pc \in {"detect", "boundary", "announce", "probing"} /\ More => results[i] = "none"
    /\ pc = "record" => results[i] # "none"
    /\ pc = "detect" => i = 1

UnmarkedAtEnd ==
    /\ pc \in {"analyse", "returned"} /\ ~interrupted => i = Len(Order) + 1
    /\ pc \in {"detect", "boundary", "announce", "probing", "record"} => ~interrupted

ReportInv == ReportIsPrefix /\ CurrentProbe /\ UnmarkedAtEnd

\* A call that was just made has recorded nothing.
LEMMA InitReport == Init => ReportInv
  BY OrderLen DEF Init, ReportInv, ReportIsPrefix, CurrentProbe, UnmarkedAtEnd, More

\* A probe is recorded after it answered, and left out only if it was not
\* wanted or the call is marked.
LEMMA NextReport == TypeOK /\ ReportInv /\ [Next]_vars => ReportInv'
  <1> SUFFICES ASSUME TypeOK, ReportInv, [Next]_vars PROVE ReportInv'
    OBVIOUS
  <1> USE OrderLen DEF TypeOK, ReportInv, ReportIsPrefix, CurrentProbe, UnmarkedAtEnd,
                       call, env, More, Probe, Wanted
  <1>1. ASSUME NEW f \in SUBSET {"iface", "gateway"}, Detect(f) PROVE ReportInv'
    BY <1>1 DEF Detect
  <1>2. CASE Skip
    BY <1>2 DEF Skip, Advance
  <1>3. CASE Record
    BY <1>3 DEF Record, Advance
  <1>4. CASE Begin
    BY <1>4 DEF Begin
  <1>5. CASE Announce
    BY <1>5 DEF Announce
  <1>6. CASE LastProbe
    BY <1>6 DEF LastProbe
  <1>7. ASSUME NEW a \in {"ok", "dead"}, Answer(a) PROVE ReportInv'
    BY <1>7 DEF Answer, Store
  <1>8. CASE StopNoticed
    BY <1>8 DEF StopNoticed, Unwind, Mark
  <1>9. CASE Analyse
    BY <1>9 DEF Analyse, Verdict
  <1>10. CASE Write
    BY <1>10 DEF Write
  <1>11. CASE PressStop
    BY <1>11 DEF PressStop
  <1>12. CASE PressCtrlC
    BY <1>12 DEF PressCtrlC, Mark, Writing
  <1>13. CASE UNCHANGED vars
    BY <1>13 DEF vars
  <1> QED
    BY <1>1, <1>2, <1>3, <1>4, <1>5, <1>6, <1>7, <1>8, <1>9, <1>10, <1>11, <1>12,
       <1>13 DEF Next, Step

\* The report is coherent with the place the call has come to.
LEMMA ReportInvariant == Spec => []ReportInv
  BY InitReport, NextReport, TypeCorrect, PTL DEF Spec

\* Whenever a call is interrupted, what it recorded is the answers of exactly
\* the wanted probes before the one it was at.
THEOREM ReportCoherent == Spec => []ReportIsPrefix
  BY ReportInvariant, PTL DEF ReportInv

\* A report without the "interrupted" mark is complete.
THEOREM UnmarkedComplete == Spec => []UnmarkedIsComplete
  <1>1. TypeOK /\ ReportInv => UnmarkedIsComplete
    BY OrderLen DEF TypeOK, ReportInv, ReportIsPrefix, UnmarkedAtEnd, UnmarkedIsComplete
  <1> QED
    BY <1>1, TypeCorrect, ReportInvariant, PTL

-----------------------------------------------------------------------------
(* Stop.                                                                    *)

OnlyGuiStops == stop => caller = "gui"

\* Once Stop was pressed no new probe starts.
THEOREM StopStartsNothing == Spec => NoProbeAfterStop
  <1>1. Init => OnlyGuiStops
    BY DEF Init, OnlyGuiStops
  <1>2. OnlyGuiStops /\ [Next]_vars => OnlyGuiStops'
    BY DEF OnlyGuiStops, Next, Step, vars, call, env, Detect, Skip, Begin, Announce,
           Answer, Record, StopNoticed, Unwind, LastProbe, Analyse, Write, PressStop,
           PressCtrlC
  <1>3. TypeOK /\ OnlyGuiStops /\ [Next]_vars
          => [stop /\ pc' = "probing" => pc = "probing"]_vars
    BY DEF TypeOK, Places, OnlyGuiStops, Next, Step, vars, call, env, Detect, Skip,
           Begin, Announce, Answer, Record, StopNoticed, Unwind, LastProbe, Analyse,
           Verdict, Write, PressStop, PressCtrlC, StopSeen
  <1> QED
    BY <1>1, <1>2, <1>3, TypeCorrect, PTL DEF Spec, NoProbeAfterStop

-----------------------------------------------------------------------------
(* The contract RunControl builds on.  A call is marked only by what asks   *)
(* it to stop, so that a partial report was asked for.                      *)

MarkWasAsked == interrupted => stop \/ ctrlC > 0

CallAsked == stop \/ ctrlC > 0
CallOutcome == CASE pc = "returned" /\ interrupted -> "partial"
                 [] pc = "returned" /\ ~interrupted -> "full"
                 [] pc = "raised" -> "raised"
                 [] OTHER -> "pending"

\* Stop and Ctrl-C are never taken back, and nothing else marks a call.
LEMMA MarkKept == TypeOK /\ MarkWasAsked /\ [Next]_vars => MarkWasAsked'
  <1> SUFFICES ASSUME TypeOK, MarkWasAsked, [Next]_vars PROVE MarkWasAsked'
    OBVIOUS
  <1>1. ctrlC \in Nat
    BY DiagnosticAssumption DEF TypeOK
  <1>2. CASE StopNoticed
    BY <1>2 DEF StopNoticed, StopSeen, Unwind, MarkWasAsked, env
  <1>3. CASE PressCtrlC
    BY <1>1, <1>3 DEF PressCtrlC, MarkWasAsked
  <1>4. CASE PressStop
    BY <1>4 DEF PressStop, MarkWasAsked
  <1>5. ASSUME UNCHANGED <<interrupted, env>> PROVE MarkWasAsked'
    BY <1>5 DEF MarkWasAsked, env
  <1> QED
    BY <1>2, <1>3, <1>4, <1>5 DEF Next, Step, vars, Detect, Skip, Begin, Announce, Answer,
                                  Record, LastProbe, Analyse, Write, env

\* A call that was just made is pending and was not asked to stop.
LEMMA InitIsCalled == Init => Call!Init
  BY DEF Init, Call!Init

\* Steps that end nothing and ask for nothing stutter; what asks it to stop is
\* Ask, except for a Ctrl-C that ends the call at once.
LEMMA NextKeepsContract ==
    TypeOK /\ MarkWasAsked /\ [Next]_vars => [Call!Ask \/ Call!End]_(Call!vars)
  <1> SUFFICES ASSUME TypeOK, MarkWasAsked, [Next]_vars
               PROVE  [Call!Ask \/ Call!End]_(Call!vars)
    OBVIOUS
  <1>1. /\ Call!Ask <=> CallAsked' = TRUE /\ CallOutcome' = CallOutcome
        /\ Call!End <=> /\ CallOutcome = "pending"
                        /\ \/ CallOutcome' \in {"full", "raised"}
                           \/ CallAsked /\ CallOutcome' = "partial"
                        /\ CallAsked' \in {CallAsked, TRUE}
        /\ UNCHANGED Call!vars <=> CallAsked' = CallAsked /\ CallOutcome' = CallOutcome
    BY DEF Call!Ask, Call!End, Call!vars, CallAsked, CallOutcome
  <1>2. ASSUME UNCHANGED <<pc, interrupted, env>> PROVE UNCHANGED Call!vars
    BY <1>1, <1>2 DEF CallAsked, CallOutcome, env
  <1>3. ASSUME UNCHANGED env, pc \notin {"returned", "raised"}, pc' \notin {"returned", "raised"}
        PROVE  UNCHANGED Call!vars
    BY <1>1, <1>3 DEF CallAsked, CallOutcome, env
  <1>4. CASE Analyse
    <2>1. pc = "analyse" /\ pc' \in {"returned", "raised"} /\ UNCHANGED <<interrupted, env>>
      BY <1>4 DEF Analyse, Verdict
    <2>2. CallOutcome = "pending" /\ CallAsked' = CallAsked
      BY <2>1 DEF CallOutcome, CallAsked, env
    <2>3. CASE pc' = "raised"
      <3>1. CallOutcome' = "raised"
        BY <2>3 DEF CallOutcome
      <3> QED
        BY <1>1, <2>2, <3>1
    <2>4. CASE pc' = "returned" /\ interrupted
      <3>1. CallOutcome' = "partial" /\ CallAsked
        BY <2>1, <2>4 DEF CallOutcome, CallAsked, MarkWasAsked
      <3> QED
        BY <1>1, <2>2, <3>1
    <2>5. CASE pc' = "returned" /\ ~interrupted
      <3>1. CallOutcome' = "full"
        BY <2>1, <2>5 DEF CallOutcome
      <3> QED
        BY <1>1, <2>2, <3>1
    <2> QED
      BY <2>1, <2>3, <2>4, <2>5
  <1>5. CASE PressStop
    <2>1. CallAsked' = TRUE /\ CallOutcome' = CallOutcome
      BY <1>5 DEF PressStop, CallAsked, CallOutcome
    <2> QED
      BY <1>1, <2>1
  <1>6. CASE PressCtrlC
    <2>1. ctrlC' > 0
      BY <1>6, DiagnosticAssumption DEF PressCtrlC, TypeOK
    <2>2. CallAsked' = TRUE
      BY <2>1 DEF CallAsked
    <2>3. CASE pc' = "analyse" /\ pc \notin {"returned", "raised"}
      <3>1. CallOutcome' = CallOutcome
        BY <2>3 DEF CallOutcome
      <3> QED
        BY <1>1, <2>2, <3>1
    <2>4. CASE pc' = "raised" /\ pc \in {"detect", "analyse"}
      <3>1. CallOutcome = "pending" /\ CallOutcome' = "raised"
        BY <2>4 DEF CallOutcome
      <3> QED
        BY <1>1, <2>2, <3>1
    <2>5. CASE UNCHANGED <<pc, interrupted>>
      <3>1. CallOutcome' = CallOutcome
        BY <2>5 DEF CallOutcome
      <3> QED
        BY <1>1, <2>2, <3>1
    <2> QED
      BY <1>6, <2>3, <2>4, <2>5 DEF PressCtrlC
  <1>7. CASE Skip \/ Begin \/ Announce \/ Record \/ StopNoticed \/ LastProbe
    BY <1>3, <1>7 DEF Skip, Begin, Announce, Record, StopNoticed, Unwind, LastProbe
  <1>8. ASSUME NEW f, Detect(f) PROVE UNCHANGED Call!vars
    BY <1>3, <1>8 DEF Detect
  <1>9. ASSUME NEW a, Answer(a) PROVE UNCHANGED Call!vars
    BY <1>3, <1>9 DEF Answer
  <1>10. CASE Write \/ UNCHANGED vars
    BY <1>2, <1>10 DEF Write, vars, env
  <1> QED
    BY <1>4, <1>5, <1>6, <1>7, <1>8, <1>9, <1>10 DEF Next, Step

\* The safety half of KeepsContract: full_diagnostic ends once, and returns a
\* report marked "interrupted" only if Stop or Ctrl-C asked for it.
THEOREM CallKeepsContract == Spec => Call!SafeSpec
  <1>1. Init => MarkWasAsked
    BY DEF Init, MarkWasAsked
  <1> QED
    BY <1>1, MarkKept, InitIsCalled, NextKeepsContract, TypeCorrect, PTL DEF Spec, Call!SafeSpec
=============================================================================
