------------------------------- MODULE Layers -------------------------------
(***************************************************************************)
(* The rules of diagnose(), one operator per _diag_ function               *)
(* (analysis/layers_local.py, layers_path.py, layers_app.py).  Each takes  *)
(* a results report and gives its findings.  A finding keeps its layer and *)
(* its severity, an idea for a title and the host or target it is about;   *)
(* texts are left out, and so is the order of the list.                    *)
(***************************************************************************)
EXTENDS Reconcile, Sequences

\* Names of hosts are strings, and "" is no host in particular.
Finding(layer, severity, title, about) ==
    [layer |-> layer, severity |-> severity, title |-> title, about |-> about]

When(condition, findings) == IF condition THEN findings ELSE {}

-----------------------------------------------------------------------------
(* Interface, WiFi and gateway.                                             *)

\* r.interface counts errors and drops, overruns and frame errors, carrier
\* changes; r.ethtool has duplex and link.
_diag_interface(r) ==
    LET nic == r.interface
        eth == r.ethtool
    IN When(nic # None /\ (nic.errors + nic.overruns > 0 \/ nic.carrier > 0),
            {Finding("interface", "bad", "errors", "")})
       \union When(eth # None /\ eth.duplex = "Half",
                   {Finding("interface", "bad", "half_duplex", "")})
       \union When(eth # None /\ eth.link = "no",
                   {Finding("interface", "bad", "no_link", "")})

\* How a signal in dBm is judged; a fair one is worth a note.
SignalFinding(dbm) ==
    IF dbm < -80      THEN {Finding("wifi", "bad", "very_weak", "")}
    ELSE IF dbm < -70 THEN {Finding("wifi", "warning", "weak", "")}
    ELSE IF dbm < -60 THEN {Finding("wifi", "info", "fair", "")}
    ELSE {}

_diag_wifi(r) ==
    When(r.wifi # None,
         When(r.wifi.signal # None, SignalFinding(r.wifi.signal))
         \union When(r.wifi.util # None /\ r.wifi.util > 60,
                     {Finding("wifi", "warning", "crowded", "")}))

\* Mutant: any gateway will do.
GatewayFound(r) == r.gateway # None
GatewayClean(r) == r.gateway # None /\ classify_ping(r.gateway) = "clean"

\* r.retransmits is what the socket statistics add up to, None without them.
GatewayTroubled(r) ==
    ~GatewayClean(r) \/ OrZero(r.retransmits) > 50

_diag_gateway(r) ==
    When(r.gateway # None,
         {IF GatewayTroubled(r) THEN Finding("gateway", "bad", "unstable", "")
                                ELSE Finding("gateway", "clean", "stable", "")})

-----------------------------------------------------------------------------
(* The path: genuine loss, the trace, and bufferbloat.                      *)

\* Mutant: a filtered host is judged by its pings.
UncleanRows(r, recon) == {row \in r.internet : classify_ping(row) # "clean"}
\* real_bad: what rate limiting does not explain.
RealBad(r, recon) ==
    {row \in r.internet : row.host \notin recon.filtered /\ classify_ping(row) # "clean"}

_diag_loss(r, recon) ==
    LET bad == RealBad(r, recon)
    IN When(recon.filtered # {}, {Finding("internet", "info", "rate_limited", "")})
       \union When(GatewayClean(r),
                   {Finding("internet", IF row.loss >= 5 THEN "bad" ELSE "warning",
                            "external_path", row.host) : row \in bad})
       \union When(r.gateway # None /\ ~GatewayClean(r) /\ bad # {},
                   {Finding("meta", "warning", "both_unstable", "")})

\* r.mtr is the loss at each hop of the trace, <<>> without one.
DestLoss(r) == r.mtr[Len(r.mtr)]
LossyMidHops(r) == {n \in 1..(Len(r.mtr) - 1) : r.mtr[n] > 5}
FirstLossyHop(r) == Min(LossyMidHops(r) \union {Len(r.mtr)})

\* Only loss that reaches the last hop is loss, and only if nothing disproves it.
MtrFinding(r, recon) ==
    CASE DestLoss(r) > 5 /\ recon.transport ->
             {Finding("isp", "info", "disproved", "")}
      [] DestLoss(r) > 5 /\ ~recon.transport /\ r.vpn ->
             {Finding("isp", "warning", "vpn_tunnel", "")}
      [] DestLoss(r) > 5 /\ ~recon.transport /\ ~r.vpn ->
             {Finding("isp", "bad",
                      IF FirstLossyHop(r) <= 2 THEN "loss_first_hops" ELSE "loss_transit", "")}
      [] DestLoss(r) <= 5 ->
             When(LossyMidHops(r) # {}, {Finding("isp", "info", "mid_hop", "")})

_diag_mtr(r, recon) == When(r.mtr # <<>>, MtrFinding(r, recon))

\* r.bufferbloat is loaded over idle latency in tenths, None if not measured.
_diag_bufferbloat(r) ==
    When(r.bufferbloat # None,
         When(r.bufferbloat > 30, {Finding("bufferbloat", "bad", "severe", "")})
         \union When(r.bufferbloat \in 21..30, {Finding("bufferbloat", "warning", "mild", "")}))

-----------------------------------------------------------------------------
(* The applications.                                                        *)

_diag_dns(r) ==
    When(\E d \in r.dns : d.fail > 0 \/ OrZero(d.p95) > 300,
         {Finding("dns", "bad", "unreliable", "")})

_diag_tcp(r) ==
    When(\E t \in r.tcp : t.fail > 0 \/ OrZero(t.p95) > 500,
         {Finding("tcp", "bad", "failing", "")})

\* r.iperf has an error, or the share of retransmits in tenths of a percent.
_diag_iperf(r) ==
    When(r.iperf # None,
         IF r.iperf.error THEN {Finding("internet", "info", "iperf_failed", "")}
         ELSE When(r.iperf.retrans > 20, {Finding("tcp", "warning", "iperf_retransmits", "")}))

\* r.speedtest has the download rate in Mbps, None if the tool failed.
_diag_speed(r) ==
    When(r.speedtest # None,
         IF r.speedtest.mbps = None THEN {Finding("internet", "info", "speed_failed", "")}
         ELSE When(r.speedtest.mbps < 10, {Finding("internet", "warning", "slow", "")}))

\* A run of which every download failed has an error and gives no finding.
_diag_download(r) ==
    LET d == r.download
    IN When(d # None /\ ~d.error,
            {IF d.failures = 0
             THEN Finding("internet", "clean", "downloads", "")
             ELSE Finding("internet",
                          IF 5 * d.failures >= d.success + d.failures THEN "bad" ELSE "warning",
                          "downloads", "")})

\* r.connection has the HTTP rows and the path MTU, None without a ping tool.
_diag_connection(r) ==
    When(r.connection # None,
         {Finding("internet", "warning", "http_failing", h.host) :
             h \in {x \in r.connection.http : x.failures > 0}}
         \union {Finding("internet", "warning", "http_slow", h.host) :
             h \in {x \in r.connection.http : x.failures = 0 /\ x.p95 > 500}}
         \union When(r.connection.mtu # None /\ r.connection.mtu < 1400,
                     {Finding("interface", "warning", "low_mtu", "")}))

\* r.reliability and r.wellknown are summaries with their verdicts.
_diag_reliability(r) ==
    When(r.reliability # None, {v \in r.reliability.verdict : v.severity # "clean"})

\* The headline stays whatever it says.
_diag_wellknown(r) ==
    When(r.wellknown # None,
         {r.wellknown.verdict.headline}
         \union {v \in r.wellknown.verdict.others : v.severity # "clean"})
=============================================================================
