------------------------------- MODULE Score --------------------------------
(***************************************************************************)
(* health_score (analysis/score.py): seven layers with weights that add up *)
(* to 100.  A layer that was not measured counts as 0, since its weight    *)
(* stays in the denominator.  Points are exact, in 1/120, so that halves,  *)
(* tenths and means of up to four rows are whole.                          *)
(***************************************************************************)
EXTENDS Reconcile, Functions

Full == 12000

\* Mutant: the points of a layer may be negative.
NotBelowZero(points) == points
Clamp(points) == Max({0, points})

Over(x, limit) == Max({0, x - limit})

\* Of the points of each row.
Mean(points) == SumFunction(points) \div Cardinality(DOMAIN points)

InterfacePoints(r) == IF r.interface = None THEN 0 ELSE Clamp(Full - 600 * r.interface.errors)

WifiPoints(r) == IF r.wifi = None \/ r.wifi.signal = None THEN 0
                 ELSE Clamp(Full - 360 * Max({0, -55 - r.wifi.signal}))

GatewayPoints(r) == IF r.gateway = None THEN 0
                    ELSE Clamp(Full - 960 * r.gateway.loss - 60 * Over(r.gateway.p95, 10))

\* Mutant: the pings of a filtered host count.
HostPointsOfPings(row, recon) == Clamp(Full - 960 * row.loss - 36 * Over(OrZero(row.p95), 40))
\* A filtered host is scored by its connections.
HostPoints(row, recon) ==
    IF row.host \in recon.filtered
    THEN Clamp(Full - 180 * OrZero(recon.tcp_fail[row.host]))
    ELSE Clamp(Full - 960 * row.loss - 36 * Over(OrZero(row.p95), 40))
InternetPoints(r, recon) ==
    IF r.internet = {} THEN 0 ELSE Mean([row \in r.internet |-> HostPoints(row, recon)])

DnsPoints(r) ==
    IF r.dns = {} THEN 0
    ELSE Mean([d \in r.dns |-> Clamp(Full - 1800 * d.fail - 60 * Over(d.p95, 50))])

TcpPoints(r) ==
    IF r.tcp = {} THEN 0 ELSE Mean([t \in r.tcp |-> Clamp(Full - 1800 * t.fail)])

BufferbloatPoints(r) == IF r.bufferbloat = None THEN 0
                        ELSE Clamp(Full - 360 * Over(r.bufferbloat, 10))

\* p95_ms of the gateway and of a DNS name is compared with a number, so that
\* None raises a TypeError.
Scorable(r) == /\ r.gateway # None => r.gateway.p95 # None
               /\ \A d \in r.dns : d.p95 # None

\* Half of a point goes to the even neighbour.
Round(a, b) ==
    LET q == a \div b
    IN IF 2 * (a % b) > b \/ (2 * (a % b) = b /\ q % 2 = 1) THEN q + 1 ELSE q

WeightedPoints(r, recon) ==
    10 * InterfacePoints(r) + 15 * WifiPoints(r) + 25 * GatewayPoints(r)
    + 25 * InternetPoints(r, recon) + 10 * DnsPoints(r) + 5 * TcpPoints(r)
    + 10 * BufferbloatPoints(r)

health_score(r, recon) == Round(WeightedPoints(r, recon), Full)
=============================================================================
