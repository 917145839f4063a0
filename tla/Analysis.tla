------------------------------ MODULE Analysis ------------------------------
(***************************************************************************)
(* From measurements to a report: reconciliation, diagnosis and health     *)
(* score, which full_diagnostic computes one after the other outside of    *)
(* its try (orchestrate.py:278-283), and the report for the ISP, which is  *)
(* built from the saved session when somebody exports it.                  *)
(***************************************************************************)
EXTENDS Verdicts, Score, IspReport

CONSTANT Reports   \* families of measurements a run may end with, a sequence of sets

Known(x) == IF x = None THEN {} ELSE {x}
Share == 0..100
Measured == Nat \union {None}

Keys == {"interface", "ethtool", "wifi", "gateway", "retransmits", "internet", "tcp", "dns",
         "bufferbloat", "mtr", "vpn", "iperf", "speedtest", "download", "connection",
         "reliability", "wellknown", "interrupted"}
RowKeys == {"host", "loss", "p95", "jitter"}

\* What the probes make sure of.  Each host is pinged once: of a host that is
\* listed twice the exported table would show one verdict (reporting.py:193).
RowsOK(r) ==
    /\ IsFiniteSet(r.internet)
    /\ \A v, w \in r.internet : v.host = w.host => v = w
    /\ \A row \in r.internet \union Known(r.gateway) :
         DOMAIN row = RowKeys /\ row.loss \in Share /\ row.p95 \in Measured /\ row.jitter \in Measured
TriesOK(r) ==
    /\ IsFiniteSet(r.dns) /\ \A d \in r.dns : d.fail \in Share /\ d.p95 \in Measured
    /\ IsFiniteSet(r.tcp) /\ \A t \in r.tcp : t.fail \in Share /\ t.p95 \in Measured
PathOK(r) == r.mtr \in Seq(Share) /\ r.vpn \in BOOLEAN /\ r.bufferbloat \in Measured
LinkOK(r) ==
    /\ \A nic \in Known(r.interface) : nic.errors \in Nat /\ nic.overruns \in Nat /\ nic.carrier \in Nat
    /\ \A wifi \in Known(r.wifi) : wifi.signal \in Int \union {None} /\ wifi.util \in Int \union {None}
    /\ r.retransmits \in Measured
AppsOK(r) ==
    /\ \A i \in Known(r.iperf) : i.error \in BOOLEAN /\ i.retrans \in Nat
    /\ \A s \in Known(r.speedtest) : s.mbps \in Measured
    /\ \A d \in Known(r.download) :
         /\ d.success \in Nat /\ d.failures \in Nat
         /\ d.error <=> d.success = 0 /\ d.failures > 0
    /\ \A c \in Known(r.connection) :
         /\ \A h \in c.http : h.failures \in Nat /\ (h.failures = 0 => h.p95 \in Nat)
         /\ c.mtu \in Measured
VerdictsOK(r) ==
    /\ \A s \in Known(r.reliability) : s.verdict = reliability_verdict(s)
    /\ \A s \in Known(r.wellknown) : s.verdict = wellknown_verdict(s)
WellFormed(r) ==
    /\ DOMAIN r = Keys
    /\ RowsOK(r) /\ TriesOK(r) /\ PathOK(r) /\ LinkOK(r) /\ AppsOK(r) /\ VerdictsOK(r)

ASSUME AnalysisAssumption ==
    /\ None \notin Int
    /\ \A k \in DOMAIN Reports : \A r \in Reports[k] : WellFormed(r)

VARIABLES
    results,    \* what the probes recorded
    recon,      \* results["icmp_reconciliation"]
    findings,   \* results["diagnosis"]
    score,      \* results["health_score"]
    report,     \* the exported report
    stage       \* how far the analysis is

vars == <<results, recon, findings, score, report, stage>>

Init ==
    /\ \E k \in DOMAIN Reports : results \in Reports[k]
    /\ stage = "measured"
    /\ recon = None /\ findings = {} /\ score = None /\ report = None

-----------------------------------------------------------------------------
\* The layers in their order.
LayerFindings(r, rec) ==
    UNION {_diag_interface(r), _diag_wifi(r), _diag_gateway(r),
           _diag_loss(r, rec), _diag_mtr(r, rec), _diag_bufferbloat(r),
           _diag_dns(r), _diag_tcp(r), _diag_iperf(r), _diag_speed(r), _diag_download(r),
           _diag_connection(r), _diag_reliability(r), _diag_wellknown(r)}

\* Mutant: a warning does not count against the all-clear.
AllCleanUnlessBad(fs) == \A f \in fs : f.severity # "bad"
AllClean(fs) == \A f \in fs : f.severity = "clean"

AllClear == Finding("meta", "clean", "no_issues", "")
Interrupted == Finding("meta", "warning", "interrupted", "")

diagnose(r, rec) ==
    LET found == When(r.interrupted, {Interrupted}) \union LayerFindings(r, rec)
    IN found \union When(AllClean(found), {AllClear})

\* A report is a text, and no text is None.
Exported(r) ==
    LET rec == reconcile_icmp(r) IN build_isp_report(r, rec, diagnose(r, rec))
ASSUME ExportAssumption ==
    \A k \in DOMAIN Reports : \A r \in Reports[k] : Exported(r) # None

\* The latency of the gateway is printed, and compared with a number first.
Diagnosable(r) == r.gateway # None => r.gateway.p95 # None

-----------------------------------------------------------------------------
Reconcile ==
    /\ stage = "measured"
    /\ recon' = reconcile_icmp(results) /\ stage' = "reconciled"
    /\ UNCHANGED <<results, findings, score, report>>

Diagnose ==
    /\ stage = "reconciled" /\ Diagnosable(results)
    /\ findings' = diagnose(results, recon) /\ stage' = "diagnosed"
    /\ UNCHANGED <<results, recon, score, report>>

Rate ==
    /\ stage = "diagnosed" /\ Scorable(results)
    /\ score' = health_score(results, recon) /\ stage' = "scored"
    /\ UNCHANGED <<results, recon, findings, report>>

\* A TypeError: the run ends without a report.
Fail ==
    /\ \/ stage = "reconciled" /\ ~Diagnosable(results)
       \/ stage = "diagnosed" /\ ~Scorable(results)
    /\ stage' = "raised"
    /\ UNCHANGED <<results, recon, findings, score, report>>

Export ==
    /\ stage = "scored"
    /\ report' = build_isp_report(results, recon, findings) /\ stage' = "exported"
    /\ UNCHANGED <<results, recon, findings, score>>

Next == Reconcile \/ Diagnose \/ Rate \/ Fail \/ Export

Spec == Init /\ [][Next]_vars

-----------------------------------------------------------------------------
(* Properties                                                               *)

Rated == stage \in {"scored", "exported"}

\* The analysis ends with findings and a score from 0 to 100, however bad the
\* measurements are and whichever layers are missing (score.py:1).
TypeOK ==
    /\ stage \in {"measured", "reconciled", "diagnosed", "scored", "exported", "raised"}
    /\ \A f \in findings : f.severity \in {"bad", "warning", "info", "clean"}
    /\ stage \in {"diagnosed", "scored", "exported"} => findings # {}
    /\ Rated <=> score # None
    /\ Rated => score \in 0..100
    /\ stage = "exported" <=> report # None

\* What reconcile_icmp takes for a proof that a host is reached: TCP connects to
\* it, or it is no TCP target and lookups and transfers elsewhere work.
Reached(r, host) ==
    \/ \E t \in r.tcp : t.target.host = host /\ t.fail <= 20
    \/ (\A t \in r.tcp : t.target.host # host) /\ TransportWorks(r)

\* Only loss of a fifth or more is held against that proof (reconcile.py:50-54).
HeavyPhantom(r, row) == row.loss >= 20 /\ Reached(r, row.host)

\* A host is in trouble by what a user sees: loss from 1 %, slow from 150 ms,
\* or jitter from 80 ms.
Troubled(row) == row.loss >= 1 \/ OrZero(row.p95) >= 150 \/ OrZero(row.jitter) >= 80

\* Rate limiting is kept apart from packet loss (reconcile.py:14-19), where the
\* loss is 20 % or more: no problem of the path names a heavy phantom, the
\* warning about the whole path needs another host in trouble, a trace is held
\* against the ISP only while the transport does not work, and the report calls
\* rate limited the heavy phantoms and no other host.  Lighter loss is
\* reported also where TCP contradicts it (constants.py:12-13, layers_path.py:108).
NoHeavyPhantomLoss ==
    /\ \A f \in WithSeverity(findings, {"bad", "warning"}) :
         /\ f.title = "external_path" =>
              ~\E row \in results.internet : row.host = f.about /\ HeavyPhantom(results, row)
         /\ f.title = "both_unstable" =>
              \E row \in results.internet : Troubled(row) /\ ~HeavyPhantom(results, row)
         /\ f.layer = "isp" => ~TransportWorks(results)
    /\ stage = "exported" =>
         \A row \in results.internet :
            report.verdicts[row.host] = "rate_limited" <=> HeavyPhantom(results, row)

\* Phantom loss never drags the score down (score.py:3-4).  Suppose that all
\* filtered hosts had answered every ping.  Those whose TCP never fails, or is
\* not tested, would not gain a point by it; all of them together at most 8,
\* since they are charged for connects that fail, of which there are up to 20 %.
ScoreIgnoresPhantomLoss ==
    LET explained(row, most) ==
            HeavyPhantom(results, row) /\ OrZero(TcpFail(results, row.host)) <= most
        mended(most) == {IF explained(row, most) THEN [row EXCEPT !.loss = 0] ELSE row :
                            row \in results.internet}
        better(most) == [results EXCEPT !.internet = mended(most)]
        gain(most) == health_score(better(most), reconcile_icmp(better(most))) - score
    IN Rated => gain(0) <= 0 /\ gain(20) <= 8

\* "Missing layers [...] are excluded from the weight denominator"
\* (docs/requirements.md:166): the score is the weighted mean of the layers that
\* were measured.  score.py:88-90 adds the weights of the missing ones again.
MeasuredWeight ==
    LET weight(measured, n) == IF measured THEN n ELSE 0
    IN weight(results.interface # None, 10)
       + weight(results.wifi # None /\ results.wifi.signal # None, 15)
       + weight(results.gateway # None, 25) + weight(results.internet # {}, 25)
       + weight(results.dns # {}, 10) + weight(results.tcp # {}, 5)
       + weight(results.bufferbloat # None, 10)
MissingLayersExcluded ==
    Rated /\ MeasuredWeight > 0 =>
        score = Round(WeightedPoints(results, recon), (Full * MeasuredWeight) \div 100)

\* If a gateway was measured, no host in trouble goes unmentioned: it is one of
\* those found to be rate limited, and lost a fifth of its pings, or it is found
\* to suffer from the path or from the local network.
EveryBadHostReported ==
    Rated /\ results.gateway # None =>
        \A row \in {w \in results.internet : Troubled(w)} :
            \E f \in findings :
                \/ f.title = "external_path" /\ f.about = row.host
                \/ f.title = "both_unstable" /\ Troubled(results.gateway)
                \/ f.title = "rate_limited" /\ row.host \in recon.filtered /\ row.loss >= 20

Flaky(probe) == probe # None /\ AtLeast(probe.all, 10)

\* What the rules take for normal, each at a threshold of its own.
NormalGateway(r) == ~Troubled(r.gateway) /\ OrZero(r.retransmits) <= 50
NormalTries(r) ==
    /\ \A d \in r.dns : d.fail = 0 /\ OrZero(d.p95) <= 300
    /\ \A t \in r.tcp : t.fail = 0 /\ OrZero(t.p95) <= 500
NormalTrace(r) == \A n \in 1..Len(r.mtr) : r.mtr[n] <= 5
NormalLink(r) ==
    /\ \A nic \in Known(r.interface) : nic.errors = 0 /\ nic.overruns = 0 /\ nic.carrier = 0
    /\ \A eth \in Known(r.ethtool) : eth.duplex # "Half" /\ eth.link # "no"
    /\ \A wifi \in Known(r.wifi) : /\ wifi.signal # None => wifi.signal >= -60
                                   /\ wifi.util # None => wifi.util <= 60
NormalApps(r) ==
    /\ OrZero(r.bufferbloat) <= 20
    /\ \A i \in Known(r.iperf) : ~i.error /\ i.retrans <= 20
    /\ \A s \in Known(r.speedtest) : s.mbps # None /\ s.mbps >= 10
    /\ \A c \in Known(r.connection) :
         /\ \A h \in c.http : h.failures = 0 /\ h.p95 <= 500
         /\ c.mtu # None => c.mtu >= 1400

\* "No issues detected" is said of complete runs only, and of measurements that
\* are normal for each of the fourteen rules of diagnose(), with two exceptions:
\* without a gateway nobody looks at the hosts and the retransmits
\* (layers_path.py:54-76, layers_local.py:125), and nobody looks at downloads of
\* which all failed (layers_app.py:110).  There the code says that all is well.
AllClearIsTrue ==
    AllClear \in findings =>
        /\ ~results.interrupted
        /\ results.gateway # None =>
             NormalGateway(results) /\ \A row \in results.internet : ~Troubled(row)
        /\ NormalTries(results) /\ NormalTrace(results) /\ NormalLink(results) /\ NormalApps(results)
        /\ \A d \in Known(results.download) : d.failures = 0 \/ d.success = 0
        /\ ~Flaky(results.reliability) /\ ~Flaky(results.wellknown)

\* Every ask has its evidence in the measurements, far from the rule that made
\* the finding it was picked by (reporting.py:252-259).
\*   routing: a gateway that answers its pings cleanly, and 5 % of loss or more
\*     of the host it names, which is no heavy phantom;
\*   packet loss: more than 5 % at the last hop of a trace that went through no
\*     VPN, while the transport does not work;
\*   nothing was reproduced: a complete run in which lookups, connects and a
\*     known gateway are normal, and what loss there is, is explained.
\* It does not say that the gateway is well: a routing ask is made beside bad
\* retransmits, a packet loss ask beside a gateway that loses packets.
AsksHaveEvidence ==
    stage = "exported" =>
        \A a \in report.asks :
            /\ a.ask = "routing" =>
                 /\ results.gateway # None /\ ~Troubled(results.gateway)
                 /\ \E row \in results.internet :
                      row.host = a.about /\ row.loss >= 5 /\ ~HeavyPhantom(results, row)
            /\ a.ask = "packet_loss" =>
                 /\ results.mtr # <<>> /\ results.mtr[Len(results.mtr)] > 5
                 /\ ~results.vpn /\ ~TransportWorks(results)
            /\ a.ask = "nothing_reproduced" =>
                 /\ report.upstream = {} /\ ~results.interrupted /\ NormalTries(results)
                 /\ results.gateway # None =>
                      /\ NormalGateway(results)
                      /\ \A row \in results.internet : Troubled(row) => HeavyPhantom(results, row)
                 /\ results.mtr # <<>> /\ results.mtr[Len(results.mtr)] > 5 => TransportWorks(results)

\* Where at least a tenth of the first attempts failed, retries do not hide it:
\* the diagnosis warns, and the report does not claim that all was well.
FlakyIsReported ==
    /\ stage \in {"diagnosed", "scored", "exported"}
       /\ (Flaky(results.reliability) \/ Flaky(results.wellknown))
         => \E f \in findings : f.layer = "reliability" /\ f.severity \in {"bad", "warning"}
    /\ stage = "exported" /\ (Flaky(results.reliability) \/ Flaky(results.wellknown))
         => ~\E a \in report.asks : a.ask = "nothing_reproduced"
=============================================================================
