--------------------------- MODULE AnalysisProofs ---------------------------
(***************************************************************************)
(* What the analysis says of a run, for every well-formed report: proofs   *)
(* about its rules, carried by one invariant of the steps.                 *)
(***************************************************************************)
EXTENDS Analysis, CountingLemmas, SequenceTheorems

\* Every step keeps what the one before it computed.
StageInv ==
    /\ WellFormed(results)
    /\ stage \in {"measured", "reconciled", "diagnosed", "scored", "exported", "raised"}
    /\ stage # "measured" => recon = reconcile_icmp(results)
    /\ findings # {} => stage # "measured" /\ findings = diagnose(results, recon)
    /\ stage \in {"diagnosed", "scored", "exported"} => findings = diagnose(results, recon)
    /\ Rated => Scorable(results) /\ score = health_score(results, recon)
    /\ ~Rated => score = None
    /\ stage = "exported" => report = build_isp_report(results, recon, findings)
    /\ stage # "exported" => report = None
    /\ Exported(results) # None

\* Each result of the analysis is that of the results and the step before.
LEMMA StageInvariant == Spec => []StageInv
  <1>1. Init => StageInv
    BY AnalysisAssumption, ExportAssumption DEF Init, StageInv, Rated
  <1>2. StageInv /\ [Next]_vars => StageInv'
    <2> SUFFICES ASSUME StageInv, [Next]_vars PROVE StageInv'
      OBVIOUS
    <2> USE DEF StageInv, Rated
    <2>1. CASE Reconcile
      BY <2>1 DEF Reconcile
    <2>2. CASE Diagnose
      BY <2>2 DEF Diagnose
    <2>3. CASE Rate
      BY <2>3 DEF Rate
    <2>4. CASE Fail
      BY <2>4 DEF Fail
    <2>5. CASE Export
      BY <2>5 DEF Export
    <2>6. CASE UNCHANGED vars
      BY <2>6 DEF vars
    <2> QED BY <2>1, <2>2, <2>3, <2>4, <2>5, <2>6 DEF Next
  <1> QED BY <1>1, <1>2, PTL DEF Spec

-----------------------------------------------------------------------------
(* The reconciliation.                                                      *)

\* The least failure rate of the targets of a host is that of one of them.
LEMMA TcpFailProperties ==
    ASSUME NEW r, WellFormed(r), NEW t \in r.tcp
    PROVE  /\ TcpFail(r, t.target.host) \in Nat /\ TcpFail(r, t.target.host) <= t.fail
           /\ \E u \in r.tcp : u.target.host = t.target.host /\ u.fail = TcpFail(r, t.target.host)
  <1> DEFINE same == {u \in r.tcp : u.target.host = t.target.host}
             T == {u.fail : u \in same}
  <1>1. T \subseteq Nat /\ t.fail \in T /\ t \in same
    BY DEF WellFormed, TriesOK, Share
  <1>2. TcpFail(r, t.target.host) = Min(T)
    BY <1>1 DEF TcpFail
  <1>3. Min(T) \in T /\ \A y \in T : Min(T) <= y
    <2> HIDE DEF T
    <2> QED BY <1>1, LeastOfNaturals DEF Min
  <1>4. PICK u \in same : Min(T) = u.fail
    BY <1>3
  <1> HIDE DEF T
  <1> QED BY <1>1, <1>2, <1>3, <1>4

\* The code's filtered hosts are those that lose a fifth of their pings and are
\* reached all the same.
LEMMA FilteredMeans ==
    ASSUME NEW r, WellFormed(r), NEW row \in r.internet
    PROVE  /\ Filtered(r, row) <=> HeavyPhantom(r, row)
           /\ row.host \in reconcile_icmp(r).filtered <=> HeavyPhantom(r, row)
  <1> DEFINE h == row.host
  <1>1. Filtered(r, row) <=> HeavyPhantom(r, row)
    <2>1. CASE \E t \in r.tcp : t.target.host = h
      <3>1. PICK u \in r.tcp : u.target.host = h /\ u.fail = TcpFail(r, h)
        BY <2>1, TcpFailProperties
      <3>2. \A t \in r.tcp : t.target.host = h =>
              TcpFail(r, h) \in Nat /\ TcpFail(r, h) <= t.fail /\ t.fail \in Nat
        BY TcpFailProperties DEF WellFormed, TriesOK, Share
      <3>3. TcpFail(r, h) \in Nat /\ TcpFail(r, h) # None
        BY <3>1, <3>2, AnalysisAssumption
      <3>4. (\E t \in r.tcp : t.target.host = h /\ t.fail <= 20) <=> TcpFail(r, h) <= 20
        BY <3>1, <3>2
      <3> QED BY <2>1, <3>3, <3>4 DEF Filtered, HeavyPhantom, Reached
    <2>2. CASE \A t \in r.tcp : t.target.host # h
      <3>1. TcpFail(r, h) = None
        BY <2>2 DEF TcpFail
      <3> QED BY <2>2, <3>1 DEF Filtered, HeavyPhantom, Reached
    <2> QED BY <2>1, <2>2
  <1>2. row.host \in reconcile_icmp(r).filtered <=> Filtered(r, row)
    BY DEF reconcile_icmp, WellFormed, RowsOK
  <1> QED BY <1>1, <1>2

\* Troubled is what the classification of pings calls unclean.
LEMMA TroubledIsUnclean ==
    ASSUME NEW row, row.loss \in Share, row.p95 \in Measured, row.jitter \in Measured
    PROVE  Troubled(row) <=> classify_ping(row) # "clean"
  <1>1. row.loss \in Int /\ OrZero(row.p95) \in Nat /\ OrZero(row.jitter) \in Nat
    BY AnalysisAssumption DEF Share, Measured, OrZero
  <1> QED BY <1>1 DEF Troubled, classify_ping

-----------------------------------------------------------------------------
(* The findings: which rule says what.                                      *)

Severities == {"bad", "warning", "info", "clean"}

\* Titles that only one rule uses.
PathTitles == {"external_path", "both_unstable", "rate_limited"}
OwnTitles == PathTitles \union {"no_issues"}

\* A finding of a rule that has nothing to do with genuine loss.
Ordinary(f) == f.severity \in Severities /\ f.title \notin OwnTitles

\* The causes that the reliability probe may find are warnings at least.
LEMMA CausesWarn ==
    ASSUME NEW s, NEW v \in Causes(s)
    PROVE  v.layer = "reliability" /\ v.severity \in {"bad", "warning"} /\ Ordinary(v)
  <1>1. CASE v \in Ipv6Verdict(s)
    <2>1. v = Finding("reliability", "bad", "ipv6_only", "")
      BY <1>1 DEF When, Ipv6Verdict, Reliability
    <2> QED BY <2>1 DEF Finding, Ordinary, OwnTitles, PathTitles, Severities
  <1>2. CASE v \in ConcurrencyVerdict(s)
    <2>1. v = Finding("reliability", "bad", "parallel_only", "")
      BY <1>2 DEF When, ConcurrencyVerdict, Reliability
    <2> QED BY <2>1 DEF Finding, Ordinary, OwnTitles, PathTitles, Severities
  <1>3. CASE v \in NameVerdict(s)
    <2>1. v = Finding("reliability", "warning", "name_resolution", "")
      BY <1>3 DEF When, NameVerdict, Reliability
    <2> QED BY <2>1 DEF Finding, Ordinary, OwnTitles, PathTitles, Severities
  <1>4. CASE v \in PhaseVerdict(s)
    <2>1. PICK k \in 1..5 : v = Finding("reliability", "warning", PhaseOrder[k], "")
      BY <1>4 DEF When, PhaseVerdict, Reliability
    <2>2. PhaseOrder[k] \in {"dns", "tcp", "tls", "ttfb", "body"}
      BY DEF PhaseOrder
    <2> QED BY <2>1, <2>2 DEF Finding, Ordinary, OwnTitles, PathTitles, Severities
  <1>5. CASE v \in RetryVerdict(s)
    <2>1. v = Finding("reliability", "warning", "retry_masked", "")
      BY <1>5 DEF When, RetryVerdict, Reliability
    <2> QED BY <2>1 DEF Finding, Ordinary, OwnTitles, PathTitles, Severities
  <1> QED BY <1>1, <1>2, <1>3, <1>4, <1>5 DEF Causes

\* Every verdict of the reliability probe is about reliability.
LEMMA VerdictsAreOrdinary ==
    ASSUME NEW s, NEW v \in reliability_verdict(s)
    PROVE  v.layer = "reliability" /\ Ordinary(v)
  <1>1. CASE Causes(s) # {}
    BY <1>1, CausesWarn DEF reliability_verdict
  <1>2. CASE Causes(s) = {}
    <2>1. PICK s1 \in {"warning", "clean"}, t \in {"first_attempts", "reliable"} :
             v = Finding("reliability", s1, t, "")
      BY <1>2 DEF reliability_verdict, Reliability
    <2> QED BY <2>1 DEF Finding, Ordinary, OwnTitles, PathTitles, Severities
  <1> QED BY <1>1, <1>2

\* The rules about the customer's own equipment.
LEMMA LocalFindings ==
    ASSUME NEW r, NEW f \in _diag_interface(r) \union _diag_wifi(r) \union _diag_gateway(r)
    PROVE  f.layer \in {"interface", "wifi", "gateway"} /\ Ordinary(f)
  <1>1. CASE f \in _diag_interface(r)
    <2>1. PICK t \in {"errors", "half_duplex", "no_link"} : f = Finding("interface", "bad", t, "")
      BY <1>1 DEF When, _diag_interface
    <2> QED BY <2>1 DEF Finding, Ordinary, OwnTitles, PathTitles, Severities
  <1>2. CASE f \in _diag_wifi(r)
    <2>1. \/ f \in SignalFinding(r.wifi.signal)
          \/ f = Finding("wifi", "warning", "crowded", "")
      BY <1>2 DEF When, _diag_wifi
    <2>2. PICK s \in {"bad", "warning", "info"}, t \in {"very_weak", "weak", "fair", "crowded"} :
             f = Finding("wifi", s, t, "")
      BY <2>1 DEF SignalFinding
    <2> QED BY <2>2 DEF Finding, Ordinary, OwnTitles, PathTitles, Severities
  <1>3. CASE f \in _diag_gateway(r)
    <2>1. PICK s \in {"bad", "clean"}, t \in {"unstable", "stable"} :
             f = Finding("gateway", s, t, "")
      BY <1>3 DEF When, _diag_gateway
    <2> QED BY <2>1 DEF Finding, Ordinary, OwnTitles, PathTitles, Severities
  <1> QED BY <1>1, <1>2, <1>3

\* The rule about HTTP to many hosts.
LEMMA ConnectionFindings ==
    ASSUME NEW r, NEW f \in _diag_connection(r)
    PROVE  f.layer # "isp" /\ Ordinary(f)
  <1>1. \/ f \in {Finding("internet", "warning", "http_failing", h.host) :
                     h \in {x \in r.connection.http : x.failures > 0}}
        \/ f \in {Finding("internet", "warning", "http_slow", h.host) :
                     h \in {x \in r.connection.http : x.failures = 0 /\ x.p95 > 500}}
        \/ f \in {Finding("interface", "warning", "low_mtu", "")}
    BY Zenon DEF When, _diag_connection
  <1>2. PICK l \in {"internet", "interface"}, t \in {"http_failing", "http_slow", "low_mtu"},
             h \in {x.host : x \in r.connection.http} \union {""} :
           f = Finding(l, "warning", t, h)
    BY <1>1
  <1> QED BY <1>2 DEF Finding, Ordinary, OwnTitles, PathTitles, Severities

\* The rules about the applications.
LEMMA AppFindings ==
    ASSUME NEW r, WellFormed(r),
           NEW f \in UNION {_diag_bufferbloat(r), _diag_dns(r), _diag_tcp(r), _diag_iperf(r),
                           _diag_speed(r), _diag_download(r), _diag_connection(r),
                           _diag_reliability(r), _diag_wellknown(r)}
    PROVE  f.layer # "isp" /\ Ordinary(f)
  <1>1. CASE f \in _diag_bufferbloat(r)
    <2>1. PICK s \in {"bad", "warning"}, t \in {"severe", "mild"} :
             f = Finding("bufferbloat", s, t, "")
      BY <1>1 DEF When, _diag_bufferbloat
    <2> QED BY <2>1 DEF Finding, Ordinary, OwnTitles, PathTitles, Severities
  <1>2. CASE f \in _diag_dns(r) \union _diag_tcp(r)
    <2>1. PICK l \in {"dns", "tcp"}, t \in {"unreliable", "failing"} : f = Finding(l, "bad", t, "")
      BY <1>2 DEF When, _diag_dns, _diag_tcp
    <2> QED BY <2>1 DEF Finding, Ordinary, OwnTitles, PathTitles, Severities
  <1>3. CASE f \in _diag_iperf(r) \union _diag_speed(r)
    <2>1. PICK l \in {"internet", "tcp"}, s \in {"info", "warning"},
               t \in {"iperf_failed", "iperf_retransmits", "speed_failed", "slow"} :
             f = Finding(l, s, t, "")
      BY <1>3 DEF _diag_iperf, _diag_speed, When
    <2> QED BY <2>1 DEF Finding, Ordinary, OwnTitles, PathTitles, Severities
  <1>4. CASE f \in _diag_download(r)
    <2>1. PICK s \in {"clean", "bad", "warning"} : f = Finding("internet", s, "downloads", "")
      BY <1>4 DEF When, _diag_download
    <2> QED BY <2>1 DEF Finding, Ordinary, OwnTitles, PathTitles, Severities
  <1>5. CASE f \in _diag_connection(r)
    BY <1>5, ConnectionFindings
  <1>6. CASE f \in _diag_reliability(r)
    <2>1. r.reliability # None /\ f \in r.reliability.verdict
      BY <1>6 DEF When, _diag_reliability
    <2>2. f \in reliability_verdict(r.reliability)
      BY <2>1 DEF WellFormed, VerdictsOK, Known
    <2>3. f.layer = "reliability" /\ Ordinary(f)
      BY <2>2, VerdictsAreOrdinary
    <2> QED BY <2>3
  <1>7. CASE f \in _diag_wellknown(r)
    <2> DEFINE s == r.wellknown
    <2>1. s # None /\ (f = s.verdict.headline \/ f \in s.verdict.others)
      BY <1>7 DEF When, _diag_wellknown
    <2>2. s.verdict = wellknown_verdict(s)
      BY <2>1 DEF WellFormed, VerdictsOK, Known
    <2>3. CASE f = s.verdict.headline
      <3>1. PICK v \in {"clean", "bad", "warning"} :
               wellknown_verdict(s).headline = Reliability(v, "site_fleet")
        BY DEF wellknown_verdict
      <3>2. f = Finding("reliability", v, "site_fleet", "")
        BY <2>2, <2>3, <3>1 DEF Reliability
      <3> QED BY <3>2 DEF Finding, Ordinary, OwnTitles, PathTitles, Severities
    <2>4. CASE f \in s.verdict.others
      <3>1. f \in reliability_verdict(s)
        BY <2>2, <2>4 DEF wellknown_verdict
      <3>2. f.layer = "reliability" /\ Ordinary(f)
        BY <3>1, VerdictsAreOrdinary
      <3> QED BY <3>2
    <2> QED BY <2>1, <2>3, <2>4
  <1> QED BY <1>1, <1>2, <1>3, <1>4, <1>5, <1>6, <1>7

\* The rules about the path: rate limiting, and what it does not explain.
LEMMA LossFindings ==
    ASSUME NEW r, NEW rec, NEW f \in _diag_loss(r, rec)
    PROVE  /\ f.layer # "isp" /\ f.severity \in Severities \ {"clean"} /\ f.title \in PathTitles
           /\ f.title = "external_path" =>
                /\ GatewayClean(r)
                /\ \E row \in RealBad(r, rec) :
                     f.about = row.host /\ (f.severity = "bad" => row.loss >= 5)
           /\ f.title = "both_unstable" => RealBad(r, rec) # {}
           /\ f.title = "rate_limited" => f.severity = "info"
  <1>1. CASE f = Finding("internet", "info", "rate_limited", "")
    BY <1>1 DEF Finding, PathTitles, Severities
  <1>2. ASSUME GatewayClean(r), NEW row \in RealBad(r, rec),
               f = Finding("internet", IF row.loss >= 5 THEN "bad" ELSE "warning",
                           "external_path", row.host)
        PROVE  /\ f.layer = "internet" /\ f.severity \in {"bad", "warning"}
               /\ f.title = "external_path" /\ f.about = row.host
               /\ f.severity = "bad" => row.loss >= 5
    BY <1>2 DEF Finding
  <1>3. CASE RealBad(r, rec) # {} /\ f = Finding("meta", "warning", "both_unstable", "")
    BY <1>3 DEF Finding, PathTitles, Severities
  <1>4. \/ f = Finding("internet", "info", "rate_limited", "")
        \/ GatewayClean(r) /\ \E row \in RealBad(r, rec) :
               f = Finding("internet", IF row.loss >= 5 THEN "bad" ELSE "warning",
                           "external_path", row.host)
        \/ RealBad(r, rec) # {} /\ f = Finding("meta", "warning", "both_unstable", "")
    BY DEF When, _diag_loss
  <1> QED BY <1>1, <1>2, <1>3, <1>4 DEF PathTitles, Severities

\* Percentages are numbers.
LEMMA ShareIsInteger == \A x \in Share : x \in Int
  BY DEF Share

\* The loss at the last hop is a number.
LEMMA DestLossIsInteger ==
    ASSUME NEW r, WellFormed(r), r.mtr # <<>>
    PROVE  DestLoss(r) \in Int
  <1>1. r.mtr \in Seq(Share)
    BY DEF WellFormed, PathOK
  <1>2. Len(r.mtr) \in 1..Len(r.mtr)
    BY <1>1, EmptySeq, LenProperties
  <1>3. r.mtr[Len(r.mtr)] \in Share
    BY <1>1, <1>2, ElementOfSeq
  <1>4. r.mtr[Len(r.mtr)] \in Int
    BY <1>3, ShareIsInteger, Zenon
  <1> QED BY <1>4, Zenon DEF DestLoss

\* The rule about the trace.
LEMMA MtrFindings ==
    ASSUME NEW r, WellFormed(r), NEW rec, rec.transport \in BOOLEAN, NEW f \in _diag_mtr(r, rec)
    PROVE  /\ f.layer = "isp" /\ Ordinary(f) /\ f.severity # "clean"
           /\ f.severity \in {"bad", "warning"} =>
                r.mtr # <<>> /\ DestLoss(r) > 5 /\ ~rec.transport
           /\ f.severity = "bad" => ~r.vpn
  <1>1. r.mtr # <<>> /\ f \in MtrFinding(r, rec)
    BY DEF When, _diag_mtr
  <1>2. DestLoss(r) \in Int
    BY <1>1, DestLossIsInteger
  <1>3. DestLoss(r) > 5 <=> ~(DestLoss(r) <= 5)
    BY <1>2
  <1>4. CASE DestLoss(r) > 5 /\ rec.transport
    <2>1. MtrFinding(r, rec) = {Finding("isp", "info", "disproved", "")}
      BY <1>3, <1>4, Zenon DEF MtrFinding
    <2>2. f = Finding("isp", "info", "disproved", "")
      BY <1>1, <2>1
    <2> QED BY <2>2 DEF Finding, Ordinary, OwnTitles, PathTitles, Severities
  <1>5. CASE DestLoss(r) > 5 /\ ~rec.transport /\ r.vpn
    <2>1. MtrFinding(r, rec) = {Finding("isp", "warning", "vpn_tunnel", "")}
      BY <1>3, <1>5, Zenon DEF MtrFinding
    <2>2. f = Finding("isp", "warning", "vpn_tunnel", "")
      BY <1>1, <2>1
    <2> QED BY <1>1, <1>5, <2>2 DEF Finding, Ordinary, OwnTitles, PathTitles, Severities
  <1>6. CASE DestLoss(r) > 5 /\ ~rec.transport /\ ~r.vpn
    <2> DEFINE hop == IF FirstLossyHop(r) <= 2 THEN "loss_first_hops" ELSE "loss_transit"
    <2>1. MtrFinding(r, rec) = {Finding("isp", "bad", hop, "")}
      BY <1>3, <1>6, Zenon DEF MtrFinding
    <2>2. hop \in {"loss_first_hops", "loss_transit"}
      OBVIOUS
    <2> HIDE DEF hop
    <2>3. f = Finding("isp", "bad", hop, "")
      BY <1>1, <2>1
    <2> QED BY <1>1, <1>6, <2>2, <2>3 DEF Finding, Ordinary, OwnTitles, PathTitles, Severities
  <1>7. CASE DestLoss(r) <= 5
    <2>1. MtrFinding(r, rec) = When(LossyMidHops(r) # {}, {Finding("isp", "info", "mid_hop", "")})
      BY <1>3, <1>7, Zenon DEF MtrFinding
    <2>2. f = Finding("isp", "info", "mid_hop", "")
      BY <1>1, <2>1 DEF When
    <2> QED BY <2>2 DEF Finding, Ordinary, OwnTitles, PathTitles, Severities
  <1> QED BY <1>3, <1>4, <1>5, <1>6, <1>7

-----------------------------------------------------------------------------
(* The diagnosis.                                                           *)

\* What each layer finds is part of the diagnosis.
LEMMA LayersAreKept ==
    ASSUME NEW r, NEW rec
    PROVE  LayerFindings(r, rec) \subseteq diagnose(r, rec)
  BY DEF diagnose, When

\* Where the findings of a diagnosis come from.
LEMMA FindingOrigins ==
    ASSUME NEW r, WellFormed(r), NEW rec, rec.transport \in BOOLEAN,
           NEW f \in LayerFindings(r, rec)
    PROVE  \/ f.layer # "isp" /\ Ordinary(f)
           \/ f \in _diag_loss(r, rec)
           \/ f \in _diag_mtr(r, rec)
  <1>1. CASE f \in _diag_interface(r) \union _diag_wifi(r) \union _diag_gateway(r)
    <2>1. f.layer \in {"interface", "wifi", "gateway"} /\ Ordinary(f)
      BY <1>1, LocalFindings
    <2> QED BY <2>1
  <1>2. CASE f \in UNION {_diag_bufferbloat(r), _diag_dns(r), _diag_tcp(r), _diag_iperf(r),
                          _diag_speed(r), _diag_download(r), _diag_connection(r),
                          _diag_reliability(r), _diag_wellknown(r)}
    BY <1>2, AppFindings, Zenon
  <1>3. CASE f \in _diag_loss(r, rec) \union _diag_mtr(r, rec)
    BY <1>3
  <1> QED BY <1>1, <1>2, <1>3 DEF LayerFindings

\* What is true of every finding of a layer.
LEMMA LayersAreTrue ==
    ASSUME NEW r, WellFormed(r), NEW rec, rec.transport \in BOOLEAN,
           NEW f \in LayerFindings(r, rec)
    PROVE  /\ f.severity \in Severities /\ f.title # "no_issues"
           /\ f.title = "external_path" =>
                /\ GatewayClean(r)
                /\ \E row \in RealBad(r, rec) :
                     f.about = row.host /\ (f.severity = "bad" => row.loss >= 5)
           /\ f.title = "both_unstable" => RealBad(r, rec) # {}
           /\ f.layer = "isp" =>
                /\ f.severity \in {"bad", "warning"} =>
                     r.mtr # <<>> /\ DestLoss(r) > 5 /\ ~rec.transport
                /\ f.severity = "bad" => ~r.vpn
  <1>1. CASE f.layer # "isp" /\ Ordinary(f)
    BY <1>1 DEF Ordinary, OwnTitles, PathTitles
  <1>2. CASE f \in _diag_loss(r, rec)
    <2>1. /\ f.layer # "isp" /\ f.severity \in Severities /\ f.title \in PathTitles
          /\ f.title = "external_path" =>
                /\ GatewayClean(r)
                /\ \E row \in RealBad(r, rec) :
                     f.about = row.host /\ (f.severity = "bad" => row.loss >= 5)
          /\ f.title = "both_unstable" => RealBad(r, rec) # {}
      BY <1>2, LossFindings
    <2>2. f.title # "no_issues"
      BY <2>1 DEF PathTitles
    <2> QED BY <2>1, <2>2
  <1>3. CASE f \in _diag_mtr(r, rec)
    <2>1. /\ f.layer = "isp" /\ Ordinary(f)
          /\ f.severity \in {"bad", "warning"} =>
               r.mtr # <<>> /\ DestLoss(r) > 5 /\ ~rec.transport
          /\ f.severity = "bad" => ~r.vpn
      BY <1>3, MtrFindings
    <2>2. f.severity \in Severities /\ f.title \notin OwnTitles
      BY <2>1 DEF Ordinary
    <2>3. f.title # "external_path" /\ f.title # "both_unstable" /\ f.title # "no_issues"
      BY <2>2 DEF OwnTitles, PathTitles
    <2> QED BY <2>1, <2>2, <2>3
  <1> QED BY <1>1, <1>2, <1>3, FindingOrigins

\* The two findings that diagnose() adds to those of the layers, and when.
LEMMA OtherFindings ==
    ASSUME NEW r, WellFormed(r), NEW rec, rec.transport \in BOOLEAN, NEW f \in diagnose(r, rec)
    PROVE  \/ f \in LayerFindings(r, rec)
           \/ f.layer = "meta" /\ f.severity = "warning" /\ f.title = "interrupted"
           \/ f.layer = "meta" /\ f.severity = "clean" /\ f.title = "no_issues"
  <1>1. f \in LayerFindings(r, rec) \/ f = Interrupted \/ f = AllClear
    BY DEF diagnose, When
  <1>2. CASE f = Interrupted
    BY <1>2 DEF Interrupted, Finding
  <1>3. CASE f = AllClear
    BY <1>3 DEF AllClear, Finding
  <1> QED BY <1>1, <1>2, <1>3

\* The all-clear is given if no layer has anything to say and nothing was cut short.
LEMMA AllClearMeans ==
    ASSUME NEW r, WellFormed(r), NEW rec, rec.transport \in BOOLEAN, AllClear \in diagnose(r, rec)
    PROVE  ~r.interrupted /\ \A f \in LayerFindings(r, rec) : f.severity = "clean"
  <1>1. AllClear.title = "no_issues" /\ Interrupted.title = "interrupted"
        /\ Interrupted.severity = "warning"
    BY DEF AllClear, Interrupted, Finding
  <1>2. AllClear \notin LayerFindings(r, rec) /\ AllClear # Interrupted
    BY <1>1, LayersAreTrue
  <1> DEFINE found == When(r.interrupted, {Interrupted}) \union LayerFindings(r, rec)
  <1>3. AllClean(found)
    BY <1>2, Zenon DEF diagnose, When
  <1>4. ~r.interrupted
    BY <1>1, <1>3 DEF AllClean, When
  <1> QED BY <1>3, <1>4 DEF AllClean

\* What rate limiting does not explain: hosts in trouble that are not phantoms.
LEMMA RealBadMeans ==
    ASSUME NEW r, WellFormed(r), NEW row
    PROVE  row \in RealBad(r, reconcile_icmp(r)) <=>
             row \in r.internet /\ Troubled(row) /\ ~HeavyPhantom(r, row)
  <1>1. ASSUME row \in r.internet
        PROVE  /\ Troubled(row) <=> classify_ping(row) # "clean"
               /\ row.host \in reconcile_icmp(r).filtered <=> HeavyPhantom(r, row)
    <2>1. row.loss \in Share /\ row.p95 \in Measured /\ row.jitter \in Measured
      BY <1>1 DEF WellFormed, RowsOK
    <2> QED BY <1>1, <2>1, TroubledIsUnclean, FilteredMeans
  <1> QED BY <1>1 DEF RealBad

\* The reconciliation says whether the transport works.
LEMMA TransportIsStored ==
    ASSUME NEW r
    PROVE  /\ reconcile_icmp(r).transport = TransportWorks(r)
           /\ reconcile_icmp(r).transport \in BOOLEAN
  <1>1. reconcile_icmp(r).transport = TransportWorks(r)
    BY DEF reconcile_icmp
  <1>2. TransportWorks(r) \in BOOLEAN
    BY DEF TransportWorks
  <1> QED BY <1>1, <1>2

-----------------------------------------------------------------------------
(* The health score.                                                        *)

\* The greater of two numbers.
LEMMA MaxOfTwo ==
    ASSUME NEW a \in Int, NEW b \in Int
    PROVE  Max({a, b}) = IF a >= b THEN a ELSE b
  <1> DEFINE top == IF a >= b THEN a ELSE b
  <1>1. top \in {a, b} /\ \A y \in {a, b} : top >= y
    OBVIOUS
  <1>2. Max({a, b}) \in {a, b} /\ \A y \in {a, b} : Max({a, b}) >= y
    BY <1>1 DEF Max
  <1> HIDE DEF top
  <1> DEFINE m == Max({a, b})
  <1>3. m \in Int /\ top \in Int /\ m >= top /\ top >= m
    BY <1>1, <1>2
  <1> HIDE DEF m
  <1>4. m = top
    BY <1>3
  <1> QED BY <1>4 DEF m, top

\* Points are naturals.
LEMMA PointsAreNatural == \A x \in 0..Full : x \in Nat /\ x \in Int /\ x <= Full
  BY DEF Full

\* Points are between 0 and Full, and fewer if more is taken off.
LEMMA ClampBounds ==
    ASSUME NEW x \in Int, x <= Full
    PROVE  Clamp(x) \in 0..Full
  <1>1. Clamp(x) = IF 0 >= x THEN 0 ELSE x
    BY MaxOfTwo DEF Clamp
  <1> QED BY <1>1 DEF Full

\* What is above a limit is never negative.
LEMMA OverIsNatural ==
    ASSUME NEW x \in Int, NEW limit \in Int
    PROVE  Over(x, limit) \in Nat
  <1>1. x - limit \in Int
    OBVIOUS
  <1> QED BY <1>1, MaxOfTwo DEF Over

\* A total of which each of n parts may be greater by c.
LEMMA ShiftedQuotient ==
    ASSUME NEW a \in Nat, NEW b \in Nat, NEW c \in Nat, NEW n \in Nat, n > 0, a <= b + c * n
    PROVE  a \div n <= b \div n + c
  <1> DEFINE q == a \div n
             p == b \div n
  <1>1. q \in Nat /\ p \in Nat /\ n * q <= a /\ b < n * p + n
    OBVIOUS
  <1> HIDE DEF q, p
  <1>2. n * q < n * (p + c + 1)
    <2>1. n * (p + c + 1) = n * p + c * n + n /\ n * p \in Nat /\ c * n \in Nat /\ n * q \in Nat
      BY <1>1
    <2> QED BY <1>1, <2>1
  <1>3. q < p + c + 1
    BY <1>1, <1>2
  <1> QED BY <1>1, <1>3 DEF q, p

\* A total of n parts, none greater than M, divided by n.
LEMMA QuotientBound ==
    ASSUME NEW M \in Nat, NEW n \in Nat, n > 0, NEW a \in Nat, a <= M * n
    PROVE  a \div n \in 0..M
  OBVIOUS

\* A mean is between 0 and the greatest that a row may have.
LEMMA MeanBounds ==
    ASSUME NEW F, NEW S, IsFiniteSet(S), S # {}, DOMAIN F = S, NEW M \in Nat,
           \A x \in S : F[x] \in 0..M
    PROVE  Mean(F) \in 0..M
  <1>1. Cardinality(S) \in Nat /\ Cardinality(S) > 0
    BY FS_CardinalityType, FS_EmptySet
  <1>2. SumFunctionOnSet(F, S) \in Nat /\ SumFunctionOnSet(F, S) <= M * Cardinality(S)
    BY SumIsNatural, SumAtMost
  <1>3. Mean(F) = SumFunctionOnSet(F, S) \div Cardinality(S)
    BY DEF Mean, SumFunction
  <1> QED BY <1>1, <1>2, <1>3, QuotientBound

\* Rounding to the even neighbour keeps the order and the range.
LEMMA RoundOrder ==
    ASSUME NEW a \in Nat, NEW b \in Nat, a <= b, b <= 100 * Full
    PROVE  /\ Round(a, Full) \in 0..100 /\ Round(b, Full) \in 0..100
           /\ Round(a, Full) <= Round(b, Full)
  BY DEF Round, Full

\* What is rounded lies at most one half away.
LEMMA RoundIsNear ==
    ASSUME NEW a \in Nat
    PROVE  /\ Round(a, Full) \in Nat
           /\ 2 * a - Full <= 2 * Full * Round(a, Full) /\ 2 * Full * Round(a, Full) <= 2 * a + Full
  BY DEF Round, Full

\* Seven percent and a half more are at most eight whole ones.
LEMMA RoundedGain ==
    ASSUME NEW a \in Nat, NEW b \in Nat, b <= a + 90000
    PROVE  Round(b, Full) <= Round(a, Full) + 8
  BY RoundIsNear DEF Full

-----------------------------------------------------------------------------
(* The points of the layers.                                                *)

\* The least failure rate of a host, if TCP to it was tried.
LEMMA TcpFailIsShare ==
    ASSUME NEW r, WellFormed(r), NEW h
    PROVE  OrZero(TcpFail(r, h)) \in Nat
  <1>1. CASE \E t \in r.tcp : t.target.host = h
    <2>1. TcpFail(r, h) \in Nat
      BY <1>1, TcpFailProperties
    <2> QED BY <2>1 DEF OrZero
  <1>2. CASE ~\E t \in r.tcp : t.target.host = h
    <2>1. TcpFail(r, h) = None
      BY <1>2 DEF TcpFail
    <2> QED BY <2>1 DEF OrZero
  <1> QED BY <1>1, <1>2

\* Every host of a report gets between no and all points.
LEMMA HostPointsBounds ==
    ASSUME NEW r, WellFormed(r), NEW rec, rec = reconcile_icmp(r), NEW row \in r.internet
    PROVE  HostPoints(row, rec) \in 0..Full
  <1>1. CASE row.host \in rec.filtered
    <2>1. rec.tcp_fail[row.host] = TcpFail(r, row.host)
      BY DEF reconcile_icmp
    <2>2. OrZero(rec.tcp_fail[row.host]) \in Nat
      BY <2>1, TcpFailIsShare
    <2> DEFINE x == Full - 180 * OrZero(rec.tcp_fail[row.host])
    <2>3. x \in Int /\ x <= Full
      BY <2>2 DEF Full
    <2> HIDE DEF x
    <2>4. Clamp(x) \in 0..Full
      BY <2>3, ClampBounds
    <2> QED BY <1>1, <2>4 DEF HostPoints, x
  <1>2. CASE row.host \notin rec.filtered
    <2>1. row.loss \in Nat /\ OrZero(row.p95) \in Nat
      BY AnalysisAssumption DEF WellFormed, RowsOK, Share, Measured, OrZero
    <2>2. Over(OrZero(row.p95), 40) \in Nat
      BY <2>1, OrZero(row.p95) \in Int, 40 \in Int, OverIsNatural, Zenon
    <2> DEFINE x == Full - 960 * row.loss - 36 * Over(OrZero(row.p95), 40)
    <2>3. x \in Int /\ x <= Full
      BY <2>1, <2>2 DEF Full
    <2> HIDE DEF x
    <2>4. Clamp(x) \in 0..Full
      BY <2>3, ClampBounds
    <2> QED BY <1>2, <2>4 DEF HostPoints, x
  <1> QED BY <1>1, <1>2

\* The hosts on the Internet have between 0 and all of the points.
LEMMA InternetPointsBounds ==
    ASSUME NEW r, WellFormed(r), NEW rec, rec = reconcile_icmp(r)
    PROVE  InternetPoints(r, rec) \in 0..Full
  <1>1. CASE r.internet = {}
    BY <1>1 DEF InternetPoints, Full
  <1>2. CASE r.internet # {}
    <2> DEFINE F == [row \in r.internet |-> HostPoints(row, rec)]
    <2>1. \A row \in r.internet : F[row] \in 0..Full
      BY HostPointsBounds
    <2>2. Full \in Nat /\ IsFiniteSet(r.internet) /\ DOMAIN F = r.internet
      BY DEF Full, WellFormed, RowsOK
    <2>3. InternetPoints(r, rec) = Mean(F)
      BY <1>2 DEF InternetPoints
    <2> HIDE DEF F
    <2> QED BY <1>2, <2>1, <2>2, <2>3, MeanBounds
  <1> QED BY <1>1, <1>2

\* The other layers, which no reconciliation touches.
LEMMA LayerPointsBounds ==
    ASSUME NEW r, WellFormed(r), Scorable(r)
    PROVE  /\ InterfacePoints(r) \in 0..Full /\ WifiPoints(r) \in 0..Full
           /\ GatewayPoints(r) \in 0..Full /\ BufferbloatPoints(r) \in 0..Full
           /\ DnsPoints(r) \in 0..Full /\ TcpPoints(r) \in 0..Full
  <1>0. Full \in Nat /\ 0 \in 0..Full
    BY DEF Full
  <1>1. InterfacePoints(r) \in 0..Full
    <2>1. CASE r.interface # None
      <3>1. r.interface.errors \in Nat
        BY <2>1 DEF WellFormed, LinkOK, Known
      <3>2. Full - 600 * r.interface.errors \in Int /\ Full - 600 * r.interface.errors <= Full
        BY <1>0, <3>1
      <3>3. Clamp(Full - 600 * r.interface.errors) \in 0..Full
        BY <3>2, ClampBounds
      <3> QED BY <2>1, <3>3 DEF InterfacePoints
    <2> QED BY <1>0, <2>1 DEF InterfacePoints
  <1>2. WifiPoints(r) \in 0..Full
    <2>1. CASE r.wifi # None /\ r.wifi.signal # None
      <3>1. r.wifi.signal \in Int
        BY <2>1 DEF WellFormed, LinkOK, Known
      <3> DEFINE y == -55 - r.wifi.signal
                 m == Max({0, y})
                 x == Full - 360 * m
      <3>2. y \in Int
        BY <3>1
      <3> HIDE DEF y
      <3>3. m \in Nat
        <4>1. m = IF 0 >= y THEN 0 ELSE y
          BY <3>2, 0 \in Int, MaxOfTwo, Zenon
        <4> QED BY <3>2, <4>1
      <3> HIDE DEF m
      <3>4. x \in Int /\ x <= Full
        BY <1>0, <3>3
      <3> HIDE DEF x
      <3>5. Clamp(x) \in 0..Full
        BY <3>4, ClampBounds
      <3> QED BY <2>1, <3>5 DEF WifiPoints, x, m, y
    <2> QED BY <1>0, <2>1 DEF WifiPoints
  <1>3. GatewayPoints(r) \in 0..Full
    <2>1. CASE r.gateway # None
      <3>1. r.gateway.loss \in Nat /\ r.gateway.p95 \in Int
        BY <2>1 DEF WellFormed, RowsOK, Known, Share, Measured, Scorable
      <3>2. Over(r.gateway.p95, 10) \in Nat
        BY <3>1, 10 \in Int, OverIsNatural, Zenon
      <3> DEFINE x == Full - 960 * r.gateway.loss - 60 * Over(r.gateway.p95, 10)
      <3>3. x \in Int /\ x <= Full
        BY <1>0, <3>1, <3>2
      <3> HIDE DEF x
      <3>4. Clamp(x) \in 0..Full
        BY <3>3, ClampBounds
      <3> QED BY <2>1, <3>4 DEF GatewayPoints, x
    <2> QED BY <1>0, <2>1 DEF GatewayPoints
  <1>4. BufferbloatPoints(r) \in 0..Full
    <2>1. CASE r.bufferbloat # None
      <3>1. r.bufferbloat \in Int
        BY <2>1 DEF WellFormed, PathOK, Measured
      <3>2. Over(r.bufferbloat, 10) \in Nat
        BY <3>1, 10 \in Int, OverIsNatural, Zenon
      <3> DEFINE x == Full - 360 * Over(r.bufferbloat, 10)
      <3>3. x \in Int /\ x <= Full
        BY <1>0, <3>2
      <3> HIDE DEF x
      <3>4. Clamp(x) \in 0..Full
        BY <3>3, ClampBounds
      <3> QED BY <2>1, <3>4 DEF BufferbloatPoints, x
    <2> QED BY <1>0, <2>1 DEF BufferbloatPoints
  <1>5. DnsPoints(r) \in 0..Full
    <2>1. CASE r.dns # {}
      <3> DEFINE x(d) == Full - 1800 * d.fail - 60 * Over(d.p95, 50)
                 F == [d \in r.dns |-> Clamp(x(d))]
      <3>1. ASSUME NEW d \in r.dns PROVE F[d] \in 0..Full
        <4>1. d.fail \in Nat /\ d.p95 \in Int
          BY DEF WellFormed, TriesOK, Share, Measured, Scorable
        <4>2. Over(d.p95, 50) \in Nat
          BY <4>1, OverIsNatural
        <4>3. x(d) \in Int /\ x(d) <= Full
          BY <1>0, <4>1, <4>2
        <4> HIDE DEF x
        <4>4. Clamp(x(d)) \in 0..Full
          BY <4>3, ClampBounds
        <4> QED BY <4>4
      <3>2. DnsPoints(r) = Mean(F)
        BY <2>1 DEF DnsPoints
      <3>3. IsFiniteSet(r.dns) /\ DOMAIN F = r.dns
        BY DEF WellFormed, TriesOK
      <3> HIDE DEF F
      <3> QED BY <1>0, <2>1, <3>1, <3>2, <3>3, MeanBounds
    <2> QED BY <1>0, <2>1 DEF DnsPoints
  <1>6. TcpPoints(r) \in 0..Full
    <2>1. CASE r.tcp # {}
      <3> DEFINE x(t) == Full - 1800 * t.fail
                 F == [t \in r.tcp |-> Clamp(x(t))]
      <3>1. ASSUME NEW t \in r.tcp PROVE F[t] \in 0..Full
        <4>1. t.fail \in Nat
          BY DEF WellFormed, TriesOK, Share
        <4>2. x(t) \in Int /\ x(t) <= Full
          BY <1>0, <4>1
        <4> HIDE DEF x
        <4>3. Clamp(x(t)) \in 0..Full
          BY <4>2, ClampBounds
        <4> QED BY <4>3
      <3>2. TcpPoints(r) = Mean(F)
        BY <2>1 DEF TcpPoints
      <3>3. IsFiniteSet(r.tcp) /\ DOMAIN F = r.tcp
        BY DEF WellFormed, TriesOK
      <3> HIDE DEF F
      <3> QED BY <1>0, <2>1, <3>1, <3>2, <3>3, MeanBounds
    <2> QED BY <1>0, <2>1 DEF TcpPoints
  <1> QED BY <1>1, <1>2, <1>3, <1>4, <1>5, <1>6

\* The score of a report is between 0 and 100, and a report whose hosts get
\* more points has no lower one.
LEMMA ScoreOrder ==
    ASSUME NEW r, WellFormed(r), Scorable(r), NEW i \in 0..Full, NEW j \in 0..Full, i <= j
    PROVE  LET points(n) == 10 * InterfacePoints(r) + 15 * WifiPoints(r) + 25 * GatewayPoints(r)
                            + 25 * n + 10 * DnsPoints(r) + 5 * TcpPoints(r)
                            + 10 * BufferbloatPoints(r)
           IN  /\ Round(points(i), Full) \in 0..100 /\ Round(points(j), Full) \in 0..100
               /\ Round(points(i), Full) <= Round(points(j), Full)
               /\ j <= i + 3600 => Round(points(j), Full) <= Round(points(i), Full) + 8
  <1> DEFINE a == InterfacePoints(r)
             b == WifiPoints(r)
             c == GatewayPoints(r)
             d == DnsPoints(r)
             e == TcpPoints(r)
             g == BufferbloatPoints(r)
             points(n) == 10 * a + 15 * b + 25 * c + 25 * n + 10 * d + 5 * e + 10 * g
  <1>1. a \in 0..Full /\ b \in 0..Full /\ c \in 0..Full /\ d \in 0..Full /\ e \in 0..Full /\ g \in 0..Full
    BY LayerPointsBounds
  <1> HIDE DEF a, b, c, d, e, g
  <1>2. Full \in Nat
    BY DEF Full
  <1>3. points(i) \in Nat /\ points(j) \in Nat /\ points(i) <= points(j) /\ points(j) <= 100 * Full
    BY <1>1, <1>2
  <1> HIDE DEF points
  <1>4. /\ Round(points(i), Full) \in 0..100 /\ Round(points(j), Full) \in 0..100
        /\ Round(points(i), Full) <= Round(points(j), Full)
    BY <1>3, RoundOrder
  <1>5. ASSUME j <= i + 3600 PROVE Round(points(j), Full) <= Round(points(i), Full) + 8
    <2>1. points(j) <= points(i) + 90000
      BY <1>1, <1>2, <1>5 DEF points
    <2> QED BY <1>3, <2>1, RoundedGain
  <1> QED BY <1>4, <1>5 DEF points, a, b, c, d, e, g

\* The score is a percentage (score.py).
LEMMA ScoreBounds ==
    ASSUME NEW r, WellFormed(r), Scorable(r)
    PROVE  health_score(r, reconcile_icmp(r)) \in 0..100
  <1> DEFINE i == InternetPoints(r, reconcile_icmp(r))
  <1>1. i \in 0..Full
    BY InternetPointsBounds
  <1> HIDE DEF i
  <1>2. i <= i
    BY <1>1 DEF Full
  <1> QED BY <1>1, <1>2, ScoreOrder DEF health_score, WeightedPoints, i

-----------------------------------------------------------------------------
(* A report whose phantom loss is mended.                                   *)

\* A filtered host of whose connects at most so many percent fail.
Phantom(r, row, most) ==
    HeavyPhantom(r, row) /\ OrZero(TcpFail(r, row.host)) <= most
MendedRow(r, row, most) == IF Phantom(r, row, most) THEN [row EXCEPT !.loss = 0] ELSE row
Mended(r, most) == [r EXCEPT !.internet = {MendedRow(r, row, most) : row \in r.internet}]

\* Nothing but the loss is mended.
LEMMA MendedFields ==
    ASSUME NEW r, WellFormed(r), NEW most \in Nat
    PROVE  /\ Mended(r, most).internet = {MendedRow(r, row, most) : row \in r.internet}
           /\ \A k \in Keys \ {"internet"} : Mended(r, most)[k] = r[k]
           /\ DOMAIN Mended(r, most) = Keys
           /\ \A row \in r.internet :
                /\ MendedRow(r, row, most).host = row.host
                /\ DOMAIN MendedRow(r, row, most) = RowKeys
                /\ MendedRow(r, row, most).p95 = row.p95 /\ MendedRow(r, row, most).jitter = row.jitter
                /\ MendedRow(r, row, most).loss \in Share
  <1>1. DOMAIN r = Keys /\ "internet" \in Keys
    BY DEF WellFormed, Keys
  <1>2. /\ Mended(r, most).internet = {MendedRow(r, row, most) : row \in r.internet}
        /\ \A k \in Keys \ {"internet"} : Mended(r, most)[k] = r[k]
        /\ DOMAIN Mended(r, most) = Keys
    BY <1>1 DEF Mended
  <1>3. ASSUME NEW row \in r.internet
        PROVE  /\ MendedRow(r, row, most).host = row.host
               /\ DOMAIN MendedRow(r, row, most) = RowKeys
               /\ MendedRow(r, row, most).p95 = row.p95 /\ MendedRow(r, row, most).jitter = row.jitter
               /\ MendedRow(r, row, most).loss \in Share
    <2>1. DOMAIN row = RowKeys /\ row.loss \in Share
      BY DEF WellFormed, RowsOK
    <2>2. {"host", "loss", "p95", "jitter"} = RowKeys /\ 0 \in Share
      BY DEF RowKeys, Share
    <2> QED BY <2>1, <2>2 DEF MendedRow
  <1> QED BY <1>2, <1>3

\* A report with the phantom losses mended is one a run may give.
LEMMA MendedIsWellFormed ==
    ASSUME NEW r, WellFormed(r), NEW most \in Nat
    PROVE  WellFormed(Mended(r, most))
  <1> DEFINE b == Mended(r, most)
  <1>1. \A k \in Keys \ {"internet"} : b[k] = r[k]
    BY MendedFields
  <1>2. /\ b.gateway = r.gateway /\ b.dns = r.dns /\ b.tcp = r.tcp /\ b.mtr = r.mtr
        /\ b.vpn = r.vpn /\ b.bufferbloat = r.bufferbloat /\ b.interface = r.interface
        /\ b.wifi = r.wifi /\ b.download = r.download /\ b.connection = r.connection
        /\ b.reliability = r.reliability /\ b.wellknown = r.wellknown
        /\ b.retransmits = r.retransmits /\ b.iperf = r.iperf /\ b.speedtest = r.speedtest
    BY <1>1 DEF Keys
  <1>3. DOMAIN b = Keys /\ b.internet = {MendedRow(r, row, most) : row \in r.internet}
    BY MendedFields
  <1> HIDE DEF b
  <1>4. IsFiniteSet(b.internet)
    <2> DEFINE f == [row \in r.internet |-> MendedRow(r, row, most)]
    <2>1. f \in Surjection(r.internet, b.internet)
      BY <1>3 DEF Surjection
    <2>2. IsFiniteSet(r.internet)
      BY DEF WellFormed, RowsOK
    <2> QED BY <2>1, <2>2, FS_Surjection
  <1>5. ASSUME NEW v \in b.internet, NEW w \in b.internet, v.host = w.host PROVE v = w
    <2>1. PICK x \in r.internet : v = MendedRow(r, x, most)
      BY <1>3
    <2>2. PICK y \in r.internet : w = MendedRow(r, y, most)
      BY <1>3
    <2>3. x.host = y.host
      BY <1>5, <2>1, <2>2, MendedFields
    <2>4. x = y
      BY <2>3 DEF WellFormed, RowsOK
    <2> QED BY <2>1, <2>2, <2>4
  <1>6. ASSUME NEW v \in b.internet
        PROVE  DOMAIN v = RowKeys /\ v.loss \in Share /\ v.p95 \in Measured /\ v.jitter \in Measured
    <2>1. PICK x \in r.internet : v = MendedRow(r, x, most)
      BY <1>3
    <2>2. x.p95 \in Measured /\ x.jitter \in Measured
      BY DEF WellFormed, RowsOK
    <2> QED BY <2>1, <2>2, MendedFields
  <1>7. RowsOK(b)
    BY <1>2, <1>4, <1>5, <1>6 DEF WellFormed, RowsOK
  <1>8. TriesOK(b) /\ PathOK(b)
    BY <1>2 DEF WellFormed, TriesOK, PathOK
  <1>9. LinkOK(b) /\ AppsOK(b)
    BY <1>2 DEF WellFormed, LinkOK, AppsOK
  <1>10. VerdictsOK(b)
    BY <1>2 DEF WellFormed, VerdictsOK
  <1>11. WellFormed(b)
    BY <1>3, <1>7, <1>8, <1>9, <1>10 DEF WellFormed
  <1> QED BY <1>11 DEF b

\* The connections, which the mending leaves alone, filter the same hosts.
LEMMA MendedTransport ==
    ASSUME NEW r, WellFormed(r), NEW most \in Nat
    PROVE  /\ \A h : TcpFail(Mended(r, most), h) = TcpFail(r, h)
           /\ TransportWorks(Mended(r, most)) = TransportWorks(r)
  <1>1. Mended(r, most).dns = r.dns /\ Mended(r, most).tcp = r.tcp /\ Mended(r, most).download = r.download
    BY MendedFields DEF Keys
  <1> QED BY <1>1, Zenon DEF TcpFail, TransportWorks, HttpWorks

\* A mended row gets no more points than its host, up to the connects that fail.
LEMMA MendedHostPoints ==
    ASSUME NEW r, WellFormed(r), NEW most \in Nat, NEW row \in r.internet
    PROVE  HostPoints(MendedRow(r, row, most), reconcile_icmp(Mended(r, most)))
             <= HostPoints(row, reconcile_icmp(r)) + 180 * most
  <1> DEFINE rec == reconcile_icmp(r)
             better == reconcile_icmp(Mended(r, most))
             m == MendedRow(r, row, most)
             p == HostPoints(m, better)
             q == HostPoints(row, rec)
  <1> SUFFICES p <= q + 180 * most
    OBVIOUS
  <1>1. m \in Mended(r, most).internet /\ m.host = row.host
    BY MendedFields
  <1>2. p \in 0..Full /\ q \in 0..Full
    BY <1>1, HostPointsBounds, MendedIsWellFormed
  <1>3. p \in Int /\ q \in Int /\ p <= Full
    <2> HIDE DEF p, q
    <2> QED BY <1>2, PointsAreNatural, Zenon
  <1>4. CASE Phantom(r, row, most)
    <2> DEFINE k == OrZero(TcpFail(r, row.host))
               x == Full - 180 * k
    <2>1. row.host \in rec.filtered
      BY <1>4, FilteredMeans DEF Phantom
    <2>2. k \in Nat /\ k <= most
      BY <1>4, TcpFailIsShare DEF Phantom
    <2>3. rec.tcp_fail[row.host] = TcpFail(r, row.host)
      BY DEF reconcile_icmp
    <2>4. q = Clamp(x)
      BY <2>1, <2>3 DEF HostPoints
    <2> HIDE DEF p, q, k
    <2>5. Clamp(x) = IF 0 >= x THEN 0 ELSE x
      <3>1. x \in Int
        BY <2>2 DEF Full
      <3> HIDE DEF x
      <3> QED BY <3>1, MaxOfTwo DEF Clamp
    <2> QED BY <1>3, <2>2, <2>4, <2>5 DEF Full
  <1>5. CASE ~Phantom(r, row, most)
    <2>1. m = row
      BY <1>5 DEF MendedRow
    <2>2. row.host \in rec.filtered <=> Filtered(r, row)
      BY DEF reconcile_icmp, WellFormed, RowsOK
    <2>3. row.host \in better.filtered <=> Filtered(Mended(r, most), row)
      <3>1. \A v, w \in Mended(r, most).internet : v.host = w.host => v = w
        BY MendedIsWellFormed DEF WellFormed, RowsOK
      <3> QED BY <1>1, <2>1, <3>1 DEF reconcile_icmp
    <2>4. Filtered(Mended(r, most), row) <=> Filtered(r, row)
      BY MendedTransport DEF Filtered
    <2>5. better.tcp_fail[row.host] = rec.tcp_fail[row.host]
      BY <1>1, <2>1, MendedTransport DEF reconcile_icmp
    <2> HIDE DEF rec, better
    <2>6. HostPoints(row, better) = HostPoints(row, rec)
      BY <2>2, <2>3, <2>4, <2>5 DEF HostPoints
    <2>7. p = q
      BY <2>1, <2>6
    <2> HIDE DEF p, q
    <2> QED BY <1>3, <2>7
  <1> QED BY <1>4, <1>5

\* Nor does the mean of the points.
LEMMA MendedInternetPoints ==
    ASSUME NEW r, WellFormed(r), NEW most \in Nat
    PROVE  InternetPoints(Mended(r, most), reconcile_icmp(Mended(r, most)))
             <= InternetPoints(r, reconcile_icmp(r)) + 180 * most
  <1> DEFINE b == Mended(r, most)
             F == [row \in r.internet |-> HostPoints(row, reconcile_icmp(r))]
             G == [row \in b.internet |-> HostPoints(row, reconcile_icmp(b))]
             m == [row \in r.internet |-> MendedRow(r, row, most)]
  <1>1. /\ WellFormed(b) /\ b.internet = {m[row] : row \in r.internet}
        /\ IsFiniteSet(r.internet) /\ IsFiniteSet(b.internet)
    <2>1. WellFormed(b) /\ b.internet = {MendedRow(r, row, most) : row \in r.internet}
      BY MendedIsWellFormed, MendedFields
    <2>2. {MendedRow(r, row, most) : row \in r.internet} = {m[row] : row \in r.internet}
      OBVIOUS
    <2> HIDE DEF b, m
    <2>3. IsFiniteSet(r.internet) /\ IsFiniteSet(b.internet)
      BY <2>1 DEF WellFormed, RowsOK
    <2> QED BY <2>1, <2>2, <2>3
  <1>2. ASSUME NEW x \in r.internet
        PROVE  F[x] \in Nat /\ G[m[x]] \in Nat /\ G[m[x]] <= F[x] + 180 * most
    <2>1. m[x] = MendedRow(r, x, most) /\ m[x] \in b.internet
      BY <1>1
    <2>2. /\ HostPoints(x, reconcile_icmp(r)) \in 0..Full
          /\ HostPoints(m[x], reconcile_icmp(b)) \in 0..Full
      BY <1>1, <2>1, HostPointsBounds
    <2>3. HostPoints(m[x], reconcile_icmp(b)) <= HostPoints(x, reconcile_icmp(r)) + 180 * most
      BY <2>1, MendedHostPoints
    <2>4. /\ F[x] = HostPoints(x, reconcile_icmp(r))
          /\ G[m[x]] = HostPoints(m[x], reconcile_icmp(b))
      BY <2>1
    <2> HIDE DEF F, G, m, b
    <2>5. F[x] \in 0..Full /\ G[m[x]] \in 0..Full /\ G[m[x]] <= F[x] + 180 * most
      BY <2>2, <2>3, <2>4
    <2> QED BY <2>5, PointsAreNatural, Zenon
  <1>3. ASSUME NEW x \in r.internet, NEW y \in r.internet, m[x] = m[y] PROVE x = y
    <2>1. x.host = y.host
      BY <1>3, MendedFields
    <2> QED BY <2>1 DEF WellFormed, RowsOK
  <1>4. DOMAIN F = r.internet /\ DOMAIN G = b.internet
    OBVIOUS
  <1>5. /\ r.internet = {} <=> b.internet = {}
        /\ InternetPoints(r, reconcile_icmp(r)) = IF r.internet = {} THEN 0 ELSE Mean(F)
        /\ InternetPoints(b, reconcile_icmp(b)) = IF b.internet = {} THEN 0 ELSE Mean(G)
    BY <1>1 DEF InternetPoints
  <1>6. Cardinality(b.internet) = Cardinality(r.internet)
    <2>1. m \in Surjection(r.internet, b.internet) /\ m \in Injection(r.internet, b.internet)
      BY <1>1, <1>3 DEF Surjection, Injection, IsInjective
    <2> HIDE DEF m
    <2> QED BY <1>1, <2>1, FS_Surjection
  <1> HIDE DEF F, G, m, b
  <1> DEFINE c == 180 * most
             H == [x \in r.internet |-> F[x] + c]
             sumF == SumFunctionOnSet(F, r.internet)
             sumG == SumFunctionOnSet(G, b.internet)
             n == Cardinality(r.internet)
  <1>7. sumG <= sumF + c * n /\ sumG \in Nat /\ sumF \in Nat
    <2>1. c \in Nat /\ \A x \in r.internet : H[x] = F[x] + c
      OBVIOUS
    <2> HIDE DEF c, H
    <2>2. \A x \in r.internet : H[x] \in Nat /\ G[m[x]] \in Nat /\ G[m[x]] <= H[x]
      BY <1>2, <2>1 DEF c
    <2>3. SumFunctionOnSet(G, {m[x] : x \in r.internet}) <= SumFunctionOnSet(H, r.internet)
      BY <1>1, <1>3, <2>2, SumOfSmaller
    <2>4. SumFunctionOnSet(H, r.internet) = SumFunctionOnSet(F, r.internet) + c * Cardinality(r.internet)
      BY <1>1, <1>2, <2>1, SumShifted
    <2>5. \A y \in b.internet : G[y] \in Nat
      BY <1>1, <1>2
    <2>6. sumG \in Nat /\ sumF \in Nat
      BY <1>1, <1>2, <2>5, SumIsNatural
    <2> QED BY <1>1, <2>3, <2>4, <2>6
  <1>8. CASE r.internet = {}
    BY <1>5, <1>8 DEF b
  <1>9. CASE r.internet # {}
    <2>1. n \in Nat /\ n > 0
      BY <1>1, <1>9, FS_CardinalityType, FS_EmptySet
    <2>2. /\ InternetPoints(r, reconcile_icmp(r)) = sumF \div n
          /\ InternetPoints(b, reconcile_icmp(b)) = sumG \div n
      BY <1>4, <1>5, <1>6, <1>9 DEF Mean, SumFunction
    <2>3. c \in Nat
      OBVIOUS
    <2> HIDE DEF c, n, sumF, sumG
    <2>4. sumG \div n <= sumF \div n + c
      BY <1>7, <2>1, <2>3, ShiftedQuotient
    <2> QED BY <2>2, <2>4 DEF b, c
  <1> QED BY <1>8, <1>9

\* Mending phantom losses raises the score by at most the connects that fail.
LEMMA MendedScore ==
    ASSUME NEW r, WellFormed(r), NEW most \in Nat, Scorable(r)
    PROVE  LET gain == health_score(Mended(r, most), reconcile_icmp(Mended(r, most)))
                       - health_score(r, reconcile_icmp(r))
           IN  /\ most = 0 => gain <= 0
               /\ most = 20 => gain <= 8
  <1> DEFINE b == Mended(r, most)
             i == InternetPoints(b, reconcile_icmp(b))
             j == InternetPoints(r, reconcile_icmp(r))
  <1>1. i \in 0..Full /\ j \in 0..Full /\ i <= j + 180 * most
    BY MendedIsWellFormed, InternetPointsBounds, MendedInternetPoints
  <1>2. /\ b.interface = r.interface /\ b.wifi = r.wifi /\ b.gateway = r.gateway
        /\ b.dns = r.dns /\ b.tcp = r.tcp /\ b.bufferbloat = r.bufferbloat
    BY MendedFields DEF Keys
  <1>3. /\ InterfacePoints(b) = InterfacePoints(r) /\ WifiPoints(b) = WifiPoints(r)
        /\ GatewayPoints(b) = GatewayPoints(r) /\ DnsPoints(b) = DnsPoints(r)
        /\ TcpPoints(b) = TcpPoints(r) /\ BufferbloatPoints(b) = BufferbloatPoints(r)
    <2> HIDE DEF b
    <2>1. InterfacePoints(b) = InterfacePoints(r) /\ WifiPoints(b) = WifiPoints(r)
      BY <1>2 DEF InterfacePoints, WifiPoints
    <2>2. GatewayPoints(b) = GatewayPoints(r) /\ BufferbloatPoints(b) = BufferbloatPoints(r)
      BY <1>2 DEF GatewayPoints, BufferbloatPoints
    <2>3. DnsPoints(b) = DnsPoints(r) /\ TcpPoints(b) = TcpPoints(r)
      BY <1>2 DEF DnsPoints, TcpPoints
    <2> QED BY <2>1, <2>2, <2>3
  <1> DEFINE points(n) == 10 * InterfacePoints(r) + 15 * WifiPoints(r) + 25 * GatewayPoints(r)
                          + 25 * n + 10 * DnsPoints(r) + 5 * TcpPoints(r)
                          + 10 * BufferbloatPoints(r)
  <1>4. /\ health_score(b, reconcile_icmp(b)) = Round(points(i), Full)
        /\ health_score(r, reconcile_icmp(r)) = Round(points(j), Full)
    BY <1>3, Zenon DEF health_score, WeightedPoints
  <1> HIDE DEF i, j
  <1>5. i \in Nat /\ j \in Nat /\ i \in Int /\ j \in Int
    BY <1>1, PointsAreNatural, Zenon
  <1>6. /\ Round(points(i), Full) \in Int /\ Round(points(j), Full) \in Int
        /\ i <= j => Round(points(i), Full) <= Round(points(j), Full)
        /\ j <= i /\ i <= j + 3600 => Round(points(i), Full) <= Round(points(j), Full) + 8
    <2>1. /\ Round(points(i), Full) \in 0..100 /\ Round(points(j), Full) \in 0..100
          /\ i <= j => Round(points(i), Full) <= Round(points(j), Full)
          /\ j <= i /\ i <= j + 3600 => Round(points(i), Full) <= Round(points(j), Full) + 8
      <3>1. CASE i <= j
        <4>1. /\ Round(points(i), Full) \in 0..100 /\ Round(points(j), Full) \in 0..100
              /\ Round(points(i), Full) <= Round(points(j), Full)
          BY <1>1, <3>1, ScoreOrder
        <4> HIDE DEF points
        <4> QED BY <4>1
      <3>2. CASE ~(i <= j)
        <4>1. j <= i
          BY <1>5, <3>2
        <4>2. /\ Round(points(i), Full) \in 0..100 /\ Round(points(j), Full) \in 0..100
              /\ i <= j + 3600 => Round(points(i), Full) <= Round(points(j), Full) + 8
          BY <1>1, <4>1, ScoreOrder
        <4> HIDE DEF points
        <4> QED BY <3>2, <4>2
      <3> QED BY <3>1, <3>2
    <2> HIDE DEF points
    <2> QED BY <2>1
  <1> DEFINE u == Round(points(i), Full)
             v == Round(points(j), Full)
  <1>7. CASE i <= j
    <2>1. u \in Int /\ v \in Int /\ u <= v
      BY <1>6, <1>7
    <2> HIDE DEF u, v, points
    <2>2. u - v <= 0 /\ u - v <= 8
      BY <2>1
    <2> QED BY <1>4, <2>2 DEF u, v, b
  <1>8. CASE ~(i <= j)
    <2>1. u \in Int /\ v \in Int /\ most # 0 /\ (most = 20 => u <= v + 8)
      BY <1>1, <1>5, <1>6, <1>8
    <2> HIDE DEF u, v, points
    <2>2. most # 0 /\ (most = 20 => u - v <= 8)
      BY <2>1
    <2> QED BY <1>4, <2>2 DEF u, v, b
  <1> QED BY <1>7, <1>8

-----------------------------------------------------------------------------
(* What holds in every state that the invariant describes.                  *)

\* From the diagnosis on, the findings are those of diagnose().
LEMMA DiagnosedFromResults ==
    ASSUME StageInv, findings # {} \/ stage \in {"diagnosed", "scored", "exported"}
    PROVE  /\ WellFormed(results) /\ recon = reconcile_icmp(results)
           /\ findings = diagnose(results, recon) /\ recon.transport \in BOOLEAN
           /\ recon.transport = TransportWorks(results)
  <1>1. WellFormed(results) /\ recon = reconcile_icmp(results) /\ findings = diagnose(results, recon)
    BY DEF StageInv
  <1> QED BY <1>1, TransportIsStored

\* The results of every stage report no heavy phantom loss.
LEMMA StageGivesNoHeavyPhantomLoss == StageInv => NoHeavyPhantomLoss
  <1> SUFFICES ASSUME StageInv PROVE NoHeavyPhantomLoss
    OBVIOUS
  <1>1. ASSUME NEW f \in WithSeverity(findings, {"bad", "warning"})
        PROVE  /\ f.title = "external_path" =>
                    ~\E row \in results.internet : row.host = f.about /\ HeavyPhantom(results, row)
               /\ f.title = "both_unstable" =>
                    \E row \in results.internet : Troubled(row) /\ ~HeavyPhantom(results, row)
               /\ f.layer = "isp" => ~TransportWorks(results)
    <2>1. f \in findings /\ f.severity \in {"bad", "warning"}
      BY DEF WithSeverity
    <2>2. /\ WellFormed(results) /\ recon = reconcile_icmp(results)
          /\ f \in diagnose(results, recon) /\ recon.transport \in BOOLEAN
          /\ recon.transport = TransportWorks(results)
      BY <2>1, DiagnosedFromResults
    <2>3. CASE f.layer = "meta" /\ f.title \in {"interrupted", "no_issues"}
      BY <2>3
    <2>4. CASE f \in LayerFindings(results, recon)
      <3>1. /\ f.title = "external_path" =>
                  \E row \in RealBad(results, recon) : f.about = row.host
            /\ f.title = "both_unstable" => RealBad(results, recon) # {}
            /\ f.layer = "isp" => ~recon.transport
        BY <2>1, <2>2, <2>4, LayersAreTrue
      <3>2. \A row \in RealBad(results, recon) :
              row \in results.internet /\ Troubled(row) /\ ~HeavyPhantom(results, row)
        BY <2>2, RealBadMeans
      <3>3. ASSUME f.title = "external_path", NEW w \in results.internet, w.host = f.about
            PROVE  ~HeavyPhantom(results, w)
        <4>1. PICK row \in RealBad(results, recon) : f.about = row.host
          BY <3>1, <3>3
        <4>2. row = w
          BY <2>2, <3>2, <3>3, <4>1 DEF WellFormed, RowsOK
        <4> QED BY <3>2, <4>1, <4>2
      <3>4. ASSUME f.title = "both_unstable"
            PROVE  \E row \in results.internet : Troubled(row) /\ ~HeavyPhantom(results, row)
        BY <3>1, <3>2, <3>4
      <3>5. f.layer = "isp" => ~TransportWorks(results)
        BY <2>2, <3>1
      <3> QED BY <3>3, <3>4, <3>5
    <2> QED BY <2>2, <2>3, <2>4, OtherFindings
  <1>2. ASSUME stage = "exported", NEW row \in results.internet
        PROVE  report.verdicts[row.host] = "rate_limited" <=> HeavyPhantom(results, row)
    <2> DEFINE w == CHOOSE x \in results.internet : x.host = row.host
    <2>1. /\ WellFormed(results) /\ recon = reconcile_icmp(results)
          /\ report = build_isp_report(results, recon, findings)
      BY <1>2, DiagnosedFromResults DEF StageInv
    <2>2. row.host \in recon.filtered <=> HeavyPhantom(results, row)
      BY <2>1, FilteredMeans
    <2>3. w.host = row.host
      OBVIOUS
    <2>4. report.verdicts[row.host] = HostVerdict(w, recon)
      BY <2>1 DEF build_isp_report
    <2> HIDE DEF w
    <2>5. HostVerdict(w, recon) = "rate_limited" <=> row.host \in recon.filtered
      BY <2>3 DEF HostVerdict
    <2> QED BY <2>2, <2>4, <2>5
  <1> QED BY <1>1, <1>2 DEF NoHeavyPhantomLoss

\* The findings of every stage name every bad host.
LEMMA StageGivesEveryBadHost == StageInv => EveryBadHostReported
  <1> SUFFICES ASSUME StageInv, Rated, results.gateway # None,
                      NEW row \in results.internet, Troubled(row)
               PROVE  \E f \in findings :
                        \/ f.title = "external_path" /\ f.about = row.host
                        \/ f.title = "both_unstable" /\ Troubled(results.gateway)
                        \/ f.title = "rate_limited" /\ row.host \in recon.filtered /\ row.loss >= 20
    BY DEF EveryBadHostReported
  <1>1. /\ WellFormed(results) /\ recon = reconcile_icmp(results)
        /\ findings = diagnose(results, recon)
    BY DiagnosedFromResults DEF Rated
  <1>2. _diag_loss(results, recon) \subseteq findings
    BY <1>1, LayersAreKept DEF LayerFindings
  <1>3. classify_ping(row) # "clean"
    BY <1>1, TroubledIsUnclean DEF WellFormed, RowsOK
  <1>4. CASE row.host \in recon.filtered
    <2> DEFINE f == Finding("internet", "info", "rate_limited", "")
    <2>1. f \in _diag_loss(results, recon)
      BY <1>4 DEF _diag_loss, When
    <2>2. f.title = "rate_limited"
      BY DEF Finding
    <2>3. row.loss >= 20
      BY <1>1, <1>4, FilteredMeans DEF HeavyPhantom
    <2> QED BY <1>2, <1>4, <2>1, <2>2, <2>3
  <1>5. CASE row.host \notin recon.filtered /\ GatewayClean(results)
    <2> DEFINE f == Finding("internet", IF row.loss >= 5 THEN "bad" ELSE "warning",
                            "external_path", row.host)
    <2>1. row \in RealBad(results, recon)
      BY <1>3, <1>5 DEF RealBad
    <2>2. f \in _diag_loss(results, recon)
      BY <1>5, <2>1 DEF _diag_loss, When
    <2>3. f.title = "external_path" /\ f.about = row.host
      BY DEF Finding
    <2> QED BY <1>2, <2>2, <2>3
  <1>6. CASE row.host \notin recon.filtered /\ ~GatewayClean(results)
    <2> DEFINE f == Finding("meta", "warning", "both_unstable", "")
    <2>1. RealBad(results, recon) # {}
      BY <1>3, <1>6 DEF RealBad
    <2>2. f \in _diag_loss(results, recon)
      BY <1>6, <2>1 DEF _diag_loss, When
    <2>3. f.title = "both_unstable"
      BY DEF Finding
    <2>4. Troubled(results.gateway)
      BY <1>1, <1>6, TroubledIsUnclean DEF GatewayClean, WellFormed, RowsOK, Known
    <2> QED BY <1>2, <2>2, <2>3, <2>4
  <1> QED BY <1>4, <1>5, <1>6

\* No layer complains.
Quiet(fs) == \A f \in fs : f.severity \notin {"bad", "warning"}

\* A measurement that is missing counts as 0.
LEMMA OrZeroIsNatural == \A x \in Measured : OrZero(x) \in Nat
  BY DEF Measured, OrZero

\* A probe whose first attempts often fail gives a verdict that warns.
LEMMA FlakyWarns ==
    ASSUME NEW r, WellFormed(r), Flaky(r.reliability) \/ Flaky(r.wellknown)
    PROVE  \E f \in _diag_reliability(r) \union _diag_wellknown(r) :
             f.layer = "reliability" /\ f.severity \in {"bad", "warning"}
  <1>1. CASE Flaky(r.reliability)
    <2> DEFINE s == r.reliability
    <2>1. s # None /\ AtLeast(s.all, 10) /\ s.verdict = reliability_verdict(s)
      BY <1>1 DEF Flaky, WellFormed, VerdictsOK, Known
    <2>2. PICK v \in reliability_verdict(s) : v.layer = "reliability" /\ v.severity \in {"bad", "warning"}
      <3>1. CASE Causes(s) # {}
        BY <3>1, CausesWarn DEF reliability_verdict
      <3>2. CASE Causes(s) = {}
        <4> DEFINE v == Finding("reliability", "warning", "first_attempts", "")
        <4>1. v \in reliability_verdict(s)
          BY <2>1, <3>2 DEF reliability_verdict, Reliability
        <4>2. v.layer = "reliability" /\ v.severity = "warning"
          BY DEF Finding
        <4> QED BY <4>1, <4>2
      <3> QED BY <3>1, <3>2
    <2>3. v \in _diag_reliability(r)
      BY <2>1, <2>2 DEF _diag_reliability, When
    <2> QED BY <2>2, <2>3
  <1>2. CASE Flaky(r.wellknown)
    <2> DEFINE s == r.wellknown
    <2>1. s # None /\ AtLeast(s.all, 10) /\ s.verdict = wellknown_verdict(s)
      BY <1>2 DEF Flaky, WellFormed, VerdictsOK, Known
    <2>2. PICK x \in {"bad", "warning"} : wellknown_verdict(s).headline = Reliability(x, "site_fleet")
      BY <2>1 DEF wellknown_verdict
    <2> DEFINE f == Finding("reliability", x, "site_fleet", "")
    <2>3. f \in _diag_wellknown(r)
      BY <2>1, <2>2 DEF _diag_wellknown, When, Reliability
    <2>4. f.layer = "reliability" /\ f.severity = x
      BY DEF Finding
    <2> QED BY <2>3, <2>4
  <1> QED BY <1>1, <1>2

\* If no layer complains, the lookups and the connects are normal.
LEMMA QuietTries ==
    ASSUME NEW r, WellFormed(r), NEW rec, Quiet(LayerFindings(r, rec))
    PROVE  NormalTries(r)
  <1>1. Quiet(_diag_dns(r)) /\ Quiet(_diag_tcp(r))
    BY DEF Quiet, LayerFindings
  <1>2. Finding("dns", "bad", "unreliable", "") \notin _diag_dns(r)
    BY <1>1 DEF Quiet, Finding
  <1>3. Finding("tcp", "bad", "failing", "") \notin _diag_tcp(r)
    BY <1>1 DEF Quiet, Finding
  <1>4. ASSUME NEW d \in r.dns PROVE d.fail = 0 /\ OrZero(d.p95) <= 300
    <2>1. ~(d.fail > 0 \/ OrZero(d.p95) > 300)
      BY <1>2 DEF _diag_dns, When
    <2>2. d.fail \in Nat /\ OrZero(d.p95) \in Nat
      BY OrZeroIsNatural DEF WellFormed, TriesOK, Share
    <2> QED BY <2>1, <2>2
  <1>5. ASSUME NEW t \in r.tcp PROVE t.fail = 0 /\ OrZero(t.p95) <= 500
    <2>1. ~(t.fail > 0 \/ OrZero(t.p95) > 500)
      BY <1>3 DEF _diag_tcp, When
    <2>2. t.fail \in Nat /\ OrZero(t.p95) \in Nat
      BY OrZeroIsNatural DEF WellFormed, TriesOK, Share
    <2> QED BY <2>1, <2>2
  <1> QED BY <1>4, <1>5 DEF NormalTries

\* So is a gateway that was measured.
LEMMA QuietGateway ==
    ASSUME NEW r, WellFormed(r), NEW rec, Quiet(LayerFindings(r, rec)), r.gateway # None
    PROVE  GatewayClean(r) /\ NormalGateway(r)
  <1>1. Quiet(_diag_gateway(r))
    BY DEF Quiet, LayerFindings
  <1>2. Finding("gateway", "bad", "unstable", "") \notin _diag_gateway(r)
    BY <1>1 DEF Quiet, Finding
  <1>3. ~GatewayTroubled(r)
    BY <1>2 DEF _diag_gateway, When
  <1>4. ~Troubled(r.gateway)
    BY <1>3, TroubledIsUnclean DEF GatewayTroubled, GatewayClean, WellFormed, RowsOK, Known
  <1>5. OrZero(r.retransmits) <= 50
    BY <1>3, OrZeroIsNatural DEF GatewayTroubled, WellFormed, LinkOK
  <1> QED BY <1>3, <1>4, <1>5 DEF GatewayTroubled, NormalGateway

\* And beside such a gateway, no host is in trouble but by a phantom loss.
LEMMA QuietHosts ==
    ASSUME NEW r, WellFormed(r), NEW rec, rec = reconcile_icmp(r),
           Quiet(LayerFindings(r, rec)), r.gateway # None,
           NEW row \in r.internet, Troubled(row)
    PROVE  HeavyPhantom(r, row)
  <1> SUFFICES ASSUME ~HeavyPhantom(r, row) PROVE FALSE
    OBVIOUS
  <1> DEFINE severity == IF row.loss >= 5 THEN "bad" ELSE "warning"
             f == Finding("internet", severity, "external_path", row.host)
  <1>1. Quiet(_diag_loss(r, rec))
    BY DEF Quiet, LayerFindings
  <1>2. row \in RealBad(r, rec)
    BY RealBadMeans
  <1>3. f \in _diag_loss(r, rec)
    BY <1>2, QuietGateway DEF _diag_loss, When
  <1>4. severity \in {"bad", "warning"}
    OBVIOUS
  <1> HIDE DEF severity
  <1>5. f.severity \in {"bad", "warning"}
    BY <1>4 DEF Finding
  <1> QED BY <1>1, <1>3, <1>5 DEF Quiet

\* And the transport works if the trace loses packets at its last hop.
LEMMA QuietTrace ==
    ASSUME NEW r, WellFormed(r), NEW rec, rec.transport \in BOOLEAN,
           Quiet(LayerFindings(r, rec)), r.mtr # <<>>, DestLoss(r) > 5
    PROVE  rec.transport
  <1> SUFFICES ASSUME ~rec.transport PROVE FALSE
    OBVIOUS
  <1> DEFINE hop == IF FirstLossyHop(r) <= 2 THEN "loss_first_hops" ELSE "loss_transit"
             f == IF r.vpn THEN Finding("isp", "warning", "vpn_tunnel", "")
                           ELSE Finding("isp", "bad", hop, "")
  <1>1. ~(DestLoss(r) <= 5)
    BY DestLossIsInteger
  <1>2. MtrFinding(r, rec) = {f}
    <2>1. CASE r.vpn
      <3>1. MtrFinding(r, rec) = {Finding("isp", "warning", "vpn_tunnel", "")}
        BY <1>1, <2>1, Zenon DEF MtrFinding
      <3> QED BY <2>1, <3>1
    <2>2. CASE ~r.vpn
      <3>1. MtrFinding(r, rec) = {Finding("isp", "bad", hop, "")}
        BY <1>1, <2>2, Zenon DEF MtrFinding
      <3> HIDE DEF hop
      <3> QED BY <2>2, <3>1
    <2> QED BY <2>1, <2>2
  <1>3. f.severity \in {"bad", "warning"}
    <2> HIDE DEF hop
    <2> QED BY DEF Finding
  <1> HIDE DEF f
  <1>4. f \in LayerFindings(r, rec)
    BY <1>2 DEF LayerFindings, _diag_mtr, When
  <1> QED BY <1>3, <1>4 DEF Quiet

\* If all layers are clean, they do not complain, and say nothing of rate limits:
\* beside a gateway that was measured, no host is in trouble.
LEMMA CleanHosts ==
    ASSUME NEW r, WellFormed(r), NEW rec, rec = reconcile_icmp(r),
           AllClean(LayerFindings(r, rec)), r.gateway # None, NEW row \in r.internet
    PROVE  ~Troubled(row)
  <1>1. Quiet(LayerFindings(r, rec))
    BY DEF Quiet, AllClean
  <1>2. AllClean(_diag_loss(r, rec))
    BY DEF AllClean, LayerFindings
  <1>3. Finding("internet", "info", "rate_limited", "") \notin _diag_loss(r, rec)
    BY <1>2 DEF AllClean, Finding
  <1>4. rec.filtered = {}
    BY <1>3 DEF _diag_loss, When
  <1>5. ~HeavyPhantom(r, row)
    BY <1>4, FilteredMeans
  <1> QED BY <1>1, <1>5, QuietHosts

\* Nor does any hop of the trace lose packets.
LEMMA CleanTrace ==
    ASSUME NEW r, WellFormed(r), NEW rec, rec.transport \in BOOLEAN,
           AllClean(LayerFindings(r, rec))
    PROVE  NormalTrace(r)
  <1>1. r.mtr \in Seq(Share) /\ Len(r.mtr) \in Nat
    BY LenProperties DEF WellFormed, PathOK
  <1>2. ASSUME NEW n \in 1..Len(r.mtr) PROVE r.mtr[n] \in Int /\ r.mtr # <<>>
    <2>1. r.mtr[n] \in Share
      BY <1>1, ElementOfSeq
    <2>2. r.mtr[n] \in Int
      BY <2>1, ShareIsInteger, Zenon
    <2> QED BY <1>1, <2>2, EmptySeq
  <1>3. ASSUME r.mtr # <<>> PROVE DestLoss(r) <= 5 /\ LossyMidHops(r) = {}
    <2>1. AllClean(_diag_mtr(r, rec)) /\ _diag_mtr(r, rec) = MtrFinding(r, rec)
      BY <1>3 DEF AllClean, LayerFindings, _diag_mtr, When
    <2>2. \A f \in MtrFinding(r, rec) : FALSE
      BY <2>1, MtrFindings DEF AllClean
    <2>3. DestLoss(r) \in Int
      BY <1>3, DestLossIsInteger
    <2>4. DestLoss(r) <= 5
      <3> SUFFICES ASSUME DestLoss(r) > 5 PROVE FALSE
        BY <2>3
      <3>1. ~(DestLoss(r) <= 5)
        BY <2>3
      <3>2. Quiet(LayerFindings(r, rec))
        BY DEF Quiet, AllClean
      <3>3. rec.transport
        BY <1>3, <3>2, QuietTrace
      <3>4. MtrFinding(r, rec) = {Finding("isp", "info", "disproved", "")}
        BY <3>1, <3>3, Zenon DEF MtrFinding
      <3> QED BY <2>2, <3>4
    <2>5. ~(DestLoss(r) > 5)
      BY <2>3, <2>4
    <2>6. MtrFinding(r, rec) = When(LossyMidHops(r) # {}, {Finding("isp", "info", "mid_hop", "")})
      BY <2>4, <2>5, Zenon DEF MtrFinding
    <2>7. LossyMidHops(r) = {}
      BY <2>2, <2>6 DEF When
    <2> QED BY <2>4, <2>7
  <1>4. ASSUME NEW n \in 1..Len(r.mtr) PROVE r.mtr[n] <= 5
    <2>1. CASE n = Len(r.mtr)
      BY <1>2, <1>3, <2>1 DEF DestLoss
    <2>2. CASE n # Len(r.mtr)
      <3>1. n \in 1..(Len(r.mtr) - 1)
        BY <1>1, <2>2
      <3>2. ~(r.mtr[n] > 5)
        BY <1>2, <1>3, <3>1 DEF LossyMidHops
      <3> QED BY <1>2, <3>2
    <2> QED BY <2>1, <2>2
  <1> QED BY <1>4 DEF NormalTrace

\* The interface, its link and the WiFi are normal.
LEMMA CleanLink ==
    ASSUME NEW r, WellFormed(r), NEW rec, AllClean(LayerFindings(r, rec))
    PROVE  NormalLink(r)
  <1>1. AllClean(_diag_interface(r)) /\ AllClean(_diag_wifi(r))
    BY DEF AllClean, LayerFindings
  <1>2. ASSUME r.interface # None
        PROVE  r.interface.errors = 0 /\ r.interface.overruns = 0 /\ r.interface.carrier = 0
    <2>1. Finding("interface", "bad", "errors", "") \notin _diag_interface(r)
      BY <1>1 DEF AllClean, Finding
    <2>2. ~(r.interface.errors + r.interface.overruns > 0 \/ r.interface.carrier > 0)
      BY <1>2, <2>1 DEF _diag_interface, When
    <2>3. r.interface.errors \in Nat /\ r.interface.overruns \in Nat /\ r.interface.carrier \in Nat
      BY <1>2 DEF WellFormed, LinkOK, Known
    <2> QED BY <2>2, <2>3
  <1>3. ASSUME r.ethtool # None PROVE r.ethtool.duplex # "Half" /\ r.ethtool.link # "no"
    <2>1. Finding("interface", "bad", "half_duplex", "") \notin _diag_interface(r)
      BY <1>1 DEF AllClean, Finding
    <2>2. Finding("interface", "bad", "no_link", "") \notin _diag_interface(r)
      BY <1>1 DEF AllClean, Finding
    <2> QED BY <1>3, <2>1, <2>2 DEF _diag_interface, When
  <1>4. ASSUME r.wifi # None, r.wifi.signal # None PROVE r.wifi.signal >= -60
    <2> SUFFICES ASSUME ~(r.wifi.signal >= -60) PROVE FALSE
      OBVIOUS
    <2> DEFINE dbm == r.wifi.signal
    <2>1. dbm \in Int /\ dbm < -60
      BY <1>4 DEF WellFormed, LinkOK, Known
    <2>2. PICK s \in {"bad", "warning", "info"}, t \in {"very_weak", "weak", "fair"} :
             Finding("wifi", s, t, "") \in SignalFinding(dbm)
      BY <2>1 DEF SignalFinding
    <2> DEFINE f == Finding("wifi", s, t, "")
    <2>3. f \in _diag_wifi(r)
      BY <1>4, <2>2 DEF _diag_wifi, When
    <2>4. f.severity # "clean"
      BY DEF Finding
    <2> QED BY <1>1, <2>3, <2>4 DEF AllClean
  <1>5. ASSUME r.wifi # None, r.wifi.util # None PROVE r.wifi.util <= 60
    <2>1. Finding("wifi", "warning", "crowded", "") \notin _diag_wifi(r)
      BY <1>1 DEF AllClean, Finding
    <2>2. ~(r.wifi.util > 60)
      BY <1>5, <2>1 DEF _diag_wifi, When
    <2>3. r.wifi.util \in Int
      BY <1>5 DEF WellFormed, LinkOK, Known
    <2> QED BY <2>2, <2>3
  <1> QED BY <1>2, <1>3, <1>4, <1>5 DEF NormalLink, Known

\* What the rule about HTTP to many hosts finds.
LEMMA ConnectionFinds ==
    ASSUME NEW r, r.connection # None, NEW f,
           \/ \E h \in r.connection.http :
                h.failures > 0 /\ f = Finding("internet", "warning", "http_failing", h.host)
           \/ \E h \in r.connection.http :
                /\ h.failures = 0 /\ h.p95 > 500
                /\ f = Finding("internet", "warning", "http_slow", h.host)
           \/ /\ r.connection.mtu # None /\ r.connection.mtu < 1400
              /\ f = Finding("interface", "warning", "low_mtu", "")
    PROVE  f \in _diag_connection(r)
  <1> DEFINE c == r.connection
             F == {x \in c.http : x.failures > 0}
             S == {x \in c.http : x.failures = 0 /\ x.p95 > 500}
             failing == {Finding("internet", "warning", "http_failing", h.host) : h \in F}
             slow == {Finding("internet", "warning", "http_slow", h.host) : h \in S}
             mtu == When(c.mtu # None /\ c.mtu < 1400, {Finding("interface", "warning", "low_mtu", "")})
  <1>1. _diag_connection(r) = When(c # None, (failing \union slow) \union mtu)
    BY Zenon DEF _diag_connection
  <1>2. f \in failing \/ f \in slow \/ f \in mtu
    <2>1. ASSUME NEW h \in F PROVE Finding("internet", "warning", "http_failing", h.host) \in failing
      OBVIOUS
    <2>2. ASSUME NEW h \in S PROVE Finding("internet", "warning", "http_slow", h.host) \in slow
      OBVIOUS
    <2>3. c.mtu # None /\ c.mtu < 1400 => Finding("interface", "warning", "low_mtu", "") \in mtu
      BY DEF When
    <2>4. /\ \A h \in c.http : h.failures > 0 => h \in F
          /\ \A h \in c.http : h.failures = 0 /\ h.p95 > 500 => h \in S
      OBVIOUS
    <2> HIDE DEF F, S, failing, slow, mtu
    <2> QED BY <2>1, <2>2, <2>3, <2>4
  <1> HIDE DEF failing, slow, mtu
  <1> QED BY <1>1, <1>2 DEF When

\* So are bufferbloat, iperf, the speed test, HTTP and the MTU.
LEMMA CleanApps ==
    ASSUME NEW r, WellFormed(r), NEW rec, AllClean(LayerFindings(r, rec))
    PROVE  NormalApps(r)
  <1>1. /\ AllClean(_diag_bufferbloat(r)) /\ AllClean(_diag_iperf(r))
        /\ AllClean(_diag_speed(r)) /\ AllClean(_diag_connection(r))
    BY DEF AllClean, LayerFindings
  <1>2. OrZero(r.bufferbloat) <= 20
    <2>1. CASE r.bufferbloat = None
      BY <2>1 DEF OrZero
    <2>2. CASE r.bufferbloat # None
      <3>1. Finding("bufferbloat", "bad", "severe", "") \notin _diag_bufferbloat(r)
        BY <1>1 DEF AllClean, Finding
      <3>2. Finding("bufferbloat", "warning", "mild", "") \notin _diag_bufferbloat(r)
        BY <1>1 DEF AllClean, Finding
      <3>3. ~(r.bufferbloat > 30) /\ r.bufferbloat \notin 21..30
        BY <2>2, <3>1, <3>2 DEF _diag_bufferbloat, When
      <3>4. r.bufferbloat \in Nat
        BY <2>2 DEF WellFormed, PathOK, Measured
      <3> QED BY <2>2, <3>3, <3>4 DEF OrZero
    <2> QED BY <2>1, <2>2
  <1>3. ASSUME r.iperf # None PROVE ~r.iperf.error /\ r.iperf.retrans <= 20
    <2>1. Finding("internet", "info", "iperf_failed", "") \notin _diag_iperf(r)
      BY <1>1 DEF AllClean, Finding
    <2>2. Finding("tcp", "warning", "iperf_retransmits", "") \notin _diag_iperf(r)
      BY <1>1 DEF AllClean, Finding
    <2>3. ~r.iperf.error
      BY <1>3, <2>1 DEF _diag_iperf, When
    <2>4. ~(r.iperf.retrans > 20)
      BY <1>3, <2>2, <2>3 DEF _diag_iperf, When
    <2>5. r.iperf.retrans \in Nat
      BY <1>3 DEF WellFormed, AppsOK, Known
    <2> QED BY <2>3, <2>4, <2>5
  <1>4. ASSUME r.speedtest # None PROVE r.speedtest.mbps # None /\ r.speedtest.mbps >= 10
    <2>1. Finding("internet", "info", "speed_failed", "") \notin _diag_speed(r)
      BY <1>1 DEF AllClean, Finding
    <2>2. Finding("internet", "warning", "slow", "") \notin _diag_speed(r)
      BY <1>1 DEF AllClean, Finding
    <2>3. r.speedtest.mbps # None
      BY <1>4, <2>1 DEF _diag_speed, When
    <2>4. ~(r.speedtest.mbps < 10)
      BY <1>4, <2>2, <2>3 DEF _diag_speed, When
    <2>5. r.speedtest.mbps \in Nat
      BY <1>4, <2>3 DEF WellFormed, AppsOK, Known, Measured
    <2> QED BY <2>3, <2>4, <2>5
  <1>5. ASSUME r.connection # None, NEW h \in r.connection.http PROVE h.failures = 0 /\ h.p95 <= 500
    <2> DEFINE failing == Finding("internet", "warning", "http_failing", h.host)
               slow == Finding("internet", "warning", "http_slow", h.host)
    <2>1. failing \notin _diag_connection(r)
      BY <1>1 DEF AllClean, Finding
    <2>2. slow \notin _diag_connection(r)
      BY <1>1 DEF AllClean, Finding
    <2>3. h.failures \in Nat /\ (h.failures = 0 => h.p95 \in Nat)
      BY <1>5 DEF WellFormed, AppsOK, Known
    <2>4. ASSUME h.failures > 0 PROVE failing \in _diag_connection(r)
      BY <1>5, <2>4, ConnectionFinds, Zenon
    <2>5. ASSUME h.failures = 0, h.p95 > 500 PROVE slow \in _diag_connection(r)
      <3>1. \E g \in r.connection.http :
              g.failures = 0 /\ g.p95 > 500 /\ slow = Finding("internet", "warning", "http_slow", g.host)
        BY <1>5, <2>5
      <3> HIDE DEF slow
      <3> QED BY <1>5, <3>1, ConnectionFinds, Zenon
    <2> HIDE DEF failing, slow
    <2> QED BY <2>1, <2>2, <2>3, <2>4, <2>5
  <1>6. ASSUME r.connection # None, r.connection.mtu # None PROVE r.connection.mtu >= 1400
    <2> DEFINE low == Finding("interface", "warning", "low_mtu", "")
    <2>1. low \notin _diag_connection(r)
      BY <1>1 DEF AllClean, Finding
    <2> HIDE DEF low
    <2>2. ASSUME r.connection.mtu < 1400 PROVE FALSE
      <3>1. low = Finding("interface", "warning", "low_mtu", "")
        BY DEF low
      <3>2. low \in _diag_connection(r)
        BY <1>6, <2>2, <3>1, ConnectionFinds, Zenon
      <3> QED BY <2>1, <3>2
    <2>3. r.connection.mtu \in Nat
      BY <1>6 DEF WellFormed, AppsOK, Known, Measured
    <2> QED BY <2>2, <2>3
  <1> QED BY <1>2, <1>3, <1>4, <1>5, <1>6 DEF NormalApps, Known

\* And no download failed, unless all did.
LEMMA CleanDownloads ==
    ASSUME NEW r, WellFormed(r), NEW rec, AllClean(LayerFindings(r, rec)), r.download # None
    PROVE  r.download.failures = 0 \/ r.download.success = 0
  <1> SUFFICES ASSUME r.download.failures # 0, r.download.success # 0 PROVE FALSE
    OBVIOUS
  <1> DEFINE d == r.download
             severity == IF 5 * d.failures >= d.success + d.failures THEN "bad" ELSE "warning"
             f == Finding("internet", severity, "downloads", "")
  <1>1. ~d.error
    BY DEF WellFormed, AppsOK, Known
  <1>2. f \in _diag_download(r)
    BY <1>1 DEF _diag_download, When
  <1>3. severity # "clean"
    OBVIOUS
  <1> HIDE DEF severity
  <1>4. f.severity # "clean"
    BY <1>3 DEF Finding
  <1> QED BY <1>2, <1>4 DEF AllClean, LayerFindings

\* The findings of every stage are clear only where the results are.
LEMMA StageGivesAllClear == StageInv => AllClearIsTrue
  <1> SUFFICES ASSUME StageInv, AllClear \in findings PROVE AllClearIsTrue!2
    BY DEF AllClearIsTrue
  <1>1. /\ WellFormed(results) /\ recon = reconcile_icmp(results)
        /\ findings = diagnose(results, recon) /\ recon.transport \in BOOLEAN
    BY DiagnosedFromResults
  <1>2. ~results.interrupted /\ AllClean(LayerFindings(results, recon))
    BY <1>1, AllClearMeans DEF AllClean
  <1>3. Quiet(LayerFindings(results, recon))
    BY <1>2 DEF Quiet, AllClean
  <1>4. ASSUME results.gateway # None
        PROVE  NormalGateway(results) /\ \A row \in results.internet : ~Troubled(row)
    BY <1>1, <1>2, <1>3, <1>4, QuietGateway, CleanHosts
  <1>5. NormalTries(results)
    BY <1>1, <1>3, QuietTries
  <1>6. NormalTrace(results)
    BY <1>1, <1>2, CleanTrace
  <1>7. NormalLink(results) /\ NormalApps(results)
    BY <1>1, <1>2, CleanLink, CleanApps
  <1>8. \A d \in Known(results.download) : d.failures = 0 \/ d.success = 0
    BY <1>1, <1>2, CleanDownloads DEF Known
  <1>9. ~Flaky(results.reliability) /\ ~Flaky(results.wellknown)
    BY <1>1, <1>3, FlakyWarns DEF Quiet, LayerFindings
  <1> QED BY <1>2, <1>4, <1>5, <1>6, <1>7, <1>8, <1>9

\* What the report asks for, and the findings it asks it for.
LEMMA AsksHaveReasons ==
    ASSUME NEW fs, NEW a \in Asks(fs)
    PROVE  /\ a.ask = "routing" =>
                \E f \in fs : f.severity = "bad" /\ f.title = "external_path" /\ f.about = a.about
           /\ a.ask = "packet_loss" => \E f \in fs : f.severity = "bad" /\ f.layer = "isp"
           /\ a.ask = "nothing_reproduced" => WithSeverity(fs, {"bad", "warning"}) = {}
  <1>1. CASE a \in IspAsks(fs)
    <2>1. CASE \E f \in WithSeverity(fs, {"bad"}) :
                 f.layer = "isp" /\ a = [ask |-> "packet_loss", about |-> f.about]
      BY <2>1 DEF WithSeverity
    <2>2. CASE \E f \in WithSeverity(fs, {"bad"}) :
                 f.title = "external_path" /\ a = [ask |-> "routing", about |-> f.about]
      BY <2>2 DEF WithSeverity
    <2>3. CASE WithSeverity(fs, {"bad", "warning"}) = {}
               /\ a = [ask |-> "nothing_reproduced", about |-> ""]
      BY <2>3
    <2> QED BY <1>1, <2>1, <2>2, <2>3, Zenon DEF IspAsks, When
  <1>2. CASE a = [ask |-> "review", about |-> ""]
    BY <1>2
  <1> QED BY <1>1, <1>2 DEF Asks

\* A report that was built has evidence for what it asks.
LEMMA StageGivesEvidence == StageInv => AsksHaveEvidence
  <1> SUFFICES ASSUME StageInv, stage = "exported", NEW a \in report.asks
               PROVE  AsksHaveEvidence!2!(a)
    BY DEF AsksHaveEvidence
  <1> DEFINE r == results
             Last == r.mtr[Len(r.mtr)]
  <1>1. /\ WellFormed(results) /\ recon = reconcile_icmp(results)
        /\ findings = diagnose(results, recon) /\ recon.transport \in BOOLEAN
        /\ recon.transport = TransportWorks(results)
    BY DiagnosedFromResults
  <1>2. report.asks = Asks(findings) /\ report.upstream = Upstream(findings)
    BY DEF StageInv, build_isp_report
  <1>3. ASSUME NEW f \in findings, f.severity = "bad" PROVE f \in LayerFindings(results, recon)
    BY <1>1, <1>3, OtherFindings
  <1>4. ASSUME a.ask = "routing"
        PROVE  /\ r.gateway # None /\ ~Troubled(r.gateway)
               /\ \E row \in r.internet :
                    row.host = a.about /\ row.loss >= 5 /\ ~HeavyPhantom(r, row)
    <2>1. PICK f \in findings : f.severity = "bad" /\ f.title = "external_path" /\ f.about = a.about
      BY <1>2, <1>4, AsksHaveReasons
    <2>2. /\ GatewayClean(r)
          /\ \E row \in RealBad(r, recon) : f.about = row.host /\ row.loss >= 5
      BY <1>1, <1>3, <2>1, LayersAreTrue
    <2>3. PICK row \in RealBad(r, recon) : a.about = row.host /\ row.loss >= 5
      BY <2>1, <2>2
    <2>4. row \in r.internet /\ ~HeavyPhantom(r, row)
      BY <1>1, <2>3, RealBadMeans
    <2>5. r.gateway # None /\ ~Troubled(r.gateway)
      BY <1>1, <2>2, TroubledIsUnclean DEF GatewayClean, WellFormed, RowsOK, Known
    <2> QED BY <2>3, <2>4, <2>5
  <1>5. ASSUME a.ask = "packet_loss"
        PROVE  r.mtr # <<>> /\ Last > 5 /\ ~r.vpn /\ ~TransportWorks(r)
    <2>1. PICK f \in findings : f.severity = "bad" /\ f.layer = "isp"
      BY <1>2, <1>5, AsksHaveReasons
    <2>2. r.mtr # <<>> /\ DestLoss(r) > 5 /\ ~recon.transport /\ ~r.vpn
      BY <1>1, <1>3, <2>1, LayersAreTrue
    <2> QED BY <1>1, <2>2 DEF DestLoss
  <1>6. ASSUME a.ask = "nothing_reproduced"
        PROVE  /\ report.upstream = {} /\ ~r.interrupted /\ NormalTries(r)
               /\ r.gateway # None =>
                    /\ NormalGateway(r)
                    /\ \A row \in r.internet : Troubled(row) => HeavyPhantom(r, row)
               /\ r.mtr # <<>> /\ Last > 5 => TransportWorks(r)
    <2>1. WithSeverity(findings, {"bad", "warning"}) = {}
      BY <1>2, <1>6, AsksHaveReasons
    <2>2. report.upstream = {}
      BY <1>2, <2>1 DEF Upstream, WithSeverity
    <2>3. Quiet(findings) /\ Quiet(LayerFindings(r, recon))
      BY <1>1, <2>1, LayersAreKept DEF Quiet, WithSeverity
    <2>4. ~r.interrupted
      <3> SUFFICES ASSUME r.interrupted PROVE FALSE
        OBVIOUS
      <3>1. Interrupted \in findings
        BY <1>1 DEF diagnose, When
      <3>2. Interrupted.severity = "warning"
        BY DEF Interrupted, Finding
      <3> QED BY <2>3, <3>1, <3>2 DEF Quiet
    <2>5. NormalTries(r)
      BY <1>1, <2>3, QuietTries
    <2>6. ASSUME r.gateway # None
          PROVE  NormalGateway(r) /\ \A row \in r.internet : Troubled(row) => HeavyPhantom(r, row)
      BY <1>1, <2>3, <2>6, QuietGateway, QuietHosts
    <2>7. r.mtr # <<>> /\ Last > 5 => TransportWorks(r)
      BY <1>1, <2>3, QuietTrace DEF DestLoss
    <2> QED BY <2>2, <2>4, <2>5, <2>6, <2>7
  <1> QED BY <1>4, <1>5, <1>6

\* The findings of every stage include the flaky first attempts.
LEMMA StageGivesFlaky == StageInv => FlakyIsReported
  <1>1. ASSUME StageInv, stage \in {"diagnosed", "scored", "exported"},
               Flaky(results.reliability) \/ Flaky(results.wellknown)
        PROVE  \E f \in findings : f.layer = "reliability" /\ f.severity \in {"bad", "warning"}
    <2>1. WellFormed(results) /\ findings = diagnose(results, recon)
      BY <1>1, DiagnosedFromResults
    <2>2. _diag_reliability(results) \union _diag_wellknown(results) \subseteq findings
      BY <2>1, LayersAreKept DEF LayerFindings
    <2> QED BY <1>1, <2>1, <2>2, FlakyWarns
  <1>2. ASSUME StageInv, stage = "exported",
               Flaky(results.reliability) \/ Flaky(results.wellknown),
               NEW a \in report.asks, a.ask = "nothing_reproduced"
        PROVE  FALSE
    <2>1. \E f \in findings : f.severity \in {"bad", "warning"}
      BY <1>1, <1>2
    <2>2. report.asks = Asks(findings)
      BY <1>2 DEF StageInv, build_isp_report
    <2> QED BY <1>2, <2>1, <2>2, AsksHaveReasons DEF WithSeverity
  <1> QED BY <1>1, <1>2 DEF FlakyIsReported

\* The score of every stage is free of phantom losses.
LEMMA StageGivesNoPhantomLoss == StageInv => ScoreIgnoresPhantomLoss
  <1> SUFFICES ASSUME StageInv, Rated PROVE ScoreIgnoresPhantomLoss
    BY DEF ScoreIgnoresPhantomLoss
  <1>1. /\ WellFormed(results) /\ Scorable(results) /\ recon = reconcile_icmp(results)
        /\ score = health_score(results, recon)
    BY DEF StageInv, Rated
  <1> DEFINE explained(row, most) ==
                 HeavyPhantom(results, row) /\ OrZero(TcpFail(results, row.host)) <= most
             mended(most) == {IF explained(row, most) THEN [row EXCEPT !.loss = 0] ELSE row :
                                row \in results.internet}
             better(most) == [results EXCEPT !.internet = mended(most)]
             gain(most) == health_score(better(most), reconcile_icmp(better(most))) - score
  <1>2. ASSUME NEW most PROVE better(most) = Mended(results, most)
    BY Zenon DEF Mended, MendedRow, Phantom
  <1> HIDE DEF better
  <1>3. gain(0) <= 0
    BY <1>1, <1>2, MendedScore
  <1>4. gain(20) <= 8
    BY <1>1, <1>2, MendedScore
  <1> QED BY <1>3, <1>4 DEF ScoreIgnoresPhantomLoss, better

\* The results of every stage have their types.
LEMMA StageGivesTypes == StageInv => TypeOK
  <1> SUFFICES ASSUME StageInv PROVE TypeOK
    OBVIOUS
  <1>1. ASSUME NEW f \in findings PROVE f.severity \in {"bad", "warning", "info", "clean"}
    <2>1. /\ WellFormed(results) /\ f \in diagnose(results, recon) /\ recon.transport \in BOOLEAN
      BY DiagnosedFromResults
    <2>2. CASE f \in LayerFindings(results, recon)
      BY <2>1, <2>2, LayersAreTrue DEF Severities
    <2> QED BY <2>1, <2>2, OtherFindings
  <1>2. ASSUME stage \in {"diagnosed", "scored", "exported"} PROVE findings # {}
    <2>1. findings = diagnose(results, recon)
      BY <1>2, DiagnosedFromResults
    <2> DEFINE found == When(results.interrupted, {Interrupted}) \union LayerFindings(results, recon)
    <2>2. findings = found \union When(AllClean(found), {AllClear})
      BY <2>1, Zenon DEF diagnose
    <2> HIDE DEF found
    <2>3. CASE found = {}
      BY <2>2, <2>3 DEF AllClean, When
    <2> QED BY <2>2, <2>3
  <1>3. Rated => score \in 0..100 /\ score # None
    <2>1. ASSUME Rated PROVE score \in 0..100
      BY <2>1, ScoreBounds DEF StageInv, Rated
    <2>2. \A x \in 0..100 : x # None
      BY AnalysisAssumption
    <2> QED BY <2>1, <2>2
  <1>4. ~Rated => score = None
    BY DEF StageInv
  <1>5. stage = "exported" <=> report # None
    <2>1. ASSUME stage = "exported" PROVE report = Exported(results)
      BY <2>1, DiagnosedFromResults DEF StageInv, Exported
    <2> QED BY <2>1 DEF StageInv
  <1>6. stage \in {"measured", "reconciled", "diagnosed", "scored", "exported", "raised"}
    BY DEF StageInv
  <1> QED BY <1>1, <1>2, <1>3, <1>4, <1>5, <1>6 DEF TypeOK

-----------------------------------------------------------------------------
(* The theorems.                                                            *)

\* For any measurements, a host that the transport reaches although it lost 20 %
\* of its pings or more is named by no problem of the path and is rate limited
\* in the report, as is no other host; the rules that name no host complain of
\* another one, or of a trace while the transport does not work
\* (reconcile.py:14-19, 50-54).  Of lighter loss this says nothing.
THEOREM LossSafety == Spec => []NoHeavyPhantomLoss
  BY StageInvariant, StageGivesNoHeavyPhantomLoss, PTL

\* Whatever the hosts, their number and their loss: where a gateway was
\* measured, _diag_loss passes over none that is in trouble, and it takes only
\* those for rate limited that lost a fifth of their pings.
THEOREM BadHostSafety == Spec => []EveryBadHostReported
  BY StageInvariant, StageGivesEveryBadHost, PTL

\* diagnose() says "no issues" only of complete runs whose measurements each of
\* its fourteen rules takes for normal, but for two exceptions that it does not
\* look at: hosts and retransmits without a gateway, downloads that all failed.
THEOREM AllClearSafety == Spec => []AllClearIsTrue
  BY StageInvariant, StageGivesAllClear, PTL

\* What build_isp_report asks for, the measurements bear out, for any of them:
\* a clean gateway and 5 % of loss, no heavy phantom, behind a "routing" ask;
\* loss at the last hop without VPN and transport behind "packet_loss"; normal
\* lookups, connects and gateway behind "nothing reproduced".
THEOREM AskSafety == Spec => []AsksHaveEvidence
  BY StageInvariant, StageGivesEvidence, PTL

\* Retries never hide that a tenth of the first attempts failed, of however
\* many trials and for whatever cause the verdicts find.
THEOREM FlakySafety == Spec => []FlakyIsReported
  BY StageInvariant, StageGivesFlaky, PTL

\* For any number of hosts and any losses: had the filtered hosts whose TCP never
\* fails, or is not tested, answered all pings, then health_score would be no
\* higher; had all filtered hosts done so, by 8 points at most.
THEOREM ScoreSafety == Spec => []ScoreIgnoresPhantomLoss
  BY StageInvariant, StageGivesNoPhantomLoss, PTL

\* Every analysis that reaches the score has one from 0 to 100 and a finding,
\* and the report is there exactly when it was exported.
THEOREM TypeCorrect == Spec => []TypeOK
  BY StageInvariant, StageGivesTypes, PTL
=============================================================================
