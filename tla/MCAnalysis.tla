----------------------------- MODULE MCAnalysis -----------------------------
(* Instances of Analysis for TLC: reports that differ from a healthy one in *)
(* one family of measurements.                                              *)
EXTENDS Analysis, TLC

Fast == [p95 |-> 40, jitter |-> 5]
Slow == [p95 |-> 200, jitter |-> 5]
Stuck == [p95 |-> 400, jitter |-> 200]
Jittery == [p95 |-> 100, jitter |-> 90]
A == "1.1.1.1"     \* pinged, and a TCP target
B == "9.9.9.9"     \* pinged only
W == "google.com"  \* a TCP target only, and a DNS name

Gateway(lost, latency) == PingRow("gateway", lost, 100, latency)
Row(h, lost) == PingRow(h, lost, 100, Fast)
Tcp(a, w) == {TryRow([host |-> A, port |-> 443], a, 100, 40), TryRow([host |-> W, port |-> 443], w, 100, 40)}
Dns(f) == {TryRow(W, f, 100, 40)}

Healthy ==
    [interface |-> [errors |-> 0, overruns |-> 0, carrier |-> 0], ethtool |-> None,
     wifi |-> [signal |-> -50, util |-> None], gateway |-> Gateway(0, Fast), retransmits |-> 0,
     internet |-> {Row(A, 0), Row(B, 0)}, tcp |-> Tcp(0, 0), dns |-> Dns(0),
     bufferbloat |-> 10, mtr |-> <<0, 0, 0>>, vpn |-> FALSE, iperf |-> None, speedtest |-> None,
     download |-> None, connection |-> None, reliability |-> None, wellknown |-> None,
     interrupted |-> FALSE]

\* Pings against connections.
Gateways == {None} \union {Gateway(l, Fast) : l \in {0, 1, 5, 100}} \union {Gateway(0, Slow)}
PathReports ==
    {[Healthy EXCEPT !.gateway = g, !.internet = {PingRow(A, la, 100, lat), Row(B, lb)},
                     !.tcp = Tcp(a, w), !.dns = Dns(d), !.download = dl] :
        g \in Gateways, la \in {0, 4, 5, 19, 20, 100}, lat \in {Fast, Jittery}, lb \in {0, 5, 20, 100},
        a \in {0, 20, 21}, w \in {0, 100}, d \in {0, 21, 100},
        dl \in {None, Downloads(80, 20), Downloads(0, 100)}}

\* Traces, with and without a tunnel and a transport that works.
Traces == {<<>>} \union [1..1 -> {0, 5, 6}] \union [1..3 -> {0, 6, 100}] \union [1..4 -> {0, 6}]
TraceReports ==
    {[Healthy EXCEPT !.mtr = t, !.vpn = v, !.dns = Dns(d), !.tcp = Tcp(d, w), !.gateway = g] :
        t \in Traces, v \in BOOLEAN, d \in {0, 50}, w \in {0, 50},
        g \in {Gateway(0, Fast), Gateway(5, Fast)}}

\* The customer's own equipment, with a clean and a lossy path behind it.
LocalReports ==
    {[Healthy EXCEPT !.interface = nic, !.ethtool = eth, !.wifi = wifi, !.retransmits = n,
                     !.gateway = g, !.bufferbloat = b,
                     !.internet = {Row(A, 0), Row(B, lost)}] :
        nic \in {None} \union {[errors |-> e, overruns |-> o, carrier |-> c] :
                                 e \in {0, 30}, o \in {0, 1}, c \in {0, 1}},
        eth \in {None, [duplex |-> "Full", link |-> "yes"], [duplex |-> "Half", link |-> "no"]},
        wifi \in {None, [signal |-> None, util |-> 61]}
                 \union {[signal |-> s, util |-> 60] : s \in {-60, -70, -80, -95}},
        n \in {None, 50, 51}, g \in {Gateway(0, Fast), Gateway(0, Jittery)},
        b \in {None, 20, 21, 31, 60}, lost \in {0, 10}}

\* The optional tests.
Http == {{HttpRow(A, f, 5, p)} : f \in {0, 1, 5}, p \in {500, 501}}
AppReports ==
    {[Healthy EXCEPT !.iperf = i, !.speedtest = s, !.download = dl, !.connection = c,
                     !.interrupted = x, !.dns = {TryRow(W, 0, 100, p)}] :
        i \in {None, [error |-> TRUE, retrans |-> 0], [error |-> FALSE, retrans |-> 21]},
        s \in {None, [mbps |-> None], [mbps |-> 9], [mbps |-> 10]},
        dl \in {None, Downloads(100, 0), Downloads(99, 1), Downloads(0, 100)},
        c \in {None} \union {[http |-> h, mtu |-> m] : h \in Http, m \in {None, 96, 1399, 1400}},
        x \in BOOLEAN, p \in {40, 301}}

\* Interrupted before anything was measured, after some pings, after the DNS.
PartialReports ==
    {[Healthy EXCEPT !.interrupted = TRUE, !.gateway = g, !.internet = rows, !.dns = d, !.tcp = {},
                     !.retransmits = None, !.bufferbloat = None, !.mtr = <<>>] :
        g \in Gateways, rows \in {{}, {Row(A, 0)}, {Row(A, 100)}, {Row(A, 30), Row(B, 2)}},
        d \in {{}, Dns(0), Dns(30)}}

\* Summaries of 20 trials of a name and 10 or 20 of an address; f4, f6 and fip
\* first attempts failed, all but h of them were mended.
Tally(n, ff) == [n |-> n, ff |-> ff]
Summary(f4, f6, fip, h, low, share, phase) ==
    LET ff == f4 + f6 + fip
        top == (share * ff) \div 100
    IN [all |-> Tally(30, ff), v4 |-> Tally(20, f4 + fip), v6 |-> Tally(10, f6),
        low |-> low,
        targets |-> {[is_ip |-> FALSE, n |-> 20, ff |-> f4 + f6], [is_ip |-> TRUE, n |-> 10, ff |-> fip]},
        hard |-> IF h < ff THEN h ELSE ff, recovered |-> IF h < ff THEN ff - h ELSE 0,
        phases |-> [p \in {"dns", "tcp", "tls", "ttfb", "body", "unknown"} |->
                      IF p = phase THEN top ELSE IF p = "unknown" THEN ff - top ELSE 0]]
Summaries ==
    {Summary(f4, f6, fip, h, low, share, phase) :
        f4 \in {0, 1, 3, 10}, f6 \in {0, 2, 3, 10}, fip \in {0, 1, 5}, h \in {0, 1, 2, 6},
        low \in {None, Tally(5, 0), Tally(5, 5)}, share \in {40, 100}, phase \in {"dns", "tls"}}
ReliabilityReports ==
    {[Healthy EXCEPT !.reliability = s @@ [verdict |-> reliability_verdict(s)],
                     !.wellknown = IF w THEN s @@ [verdict |-> wellknown_verdict(s)] ELSE None] :
        s \in Summaries, w \in BOOLEAN}

AllReports == <<PathReports, TraceReports, LocalReports, AppReports, PartialReports,
                ReliabilityReports>>

\* Families by themselves, for the runs that look for one case.
PathOnly == <<PathReports>>
TraceOnly == <<TraceReports>>
LocalOnly == <<LocalReports>>
PartialOnly == <<PartialReports>>
=============================================================================
