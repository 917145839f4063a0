----------------------------- MODULE Reconcile ------------------------------
(***************************************************************************)
(* Lost pings against working connections (analysis/reconcile.py): high    *)
(* ICMP loss that TCP to the same host, or DNS with TCP or HTTPS to others, *)
(* disproves is rate limiting and not packet loss.                         *)
(*                                                                         *)
(* A results report r has the rows of the pings in r.internet, of the      *)
(* connects in r.tcp (targets are [host, port]) and of the lookups in      *)
(* r.dns.                                                                  *)
(***************************************************************************)
EXTENDS Measurements, FiniteSetsExt

\* The failures of the target of this host that failed least, if it has any.
TcpFail(r, host) ==
    LET same == {t \in r.tcp : t.target.host = host}
    IN IF same = {} THEN None ELSE Min({t.fail : t \in same})

Works(rows) == \E t \in rows : t.fail <= 20
HttpWorks(r) == r.download # None /\ r.download.success > 0 /\ ~r.download.error

TransportWorks(r) == Works(r.dns) /\ (Works(r.tcp) \/ HttpWorks(r))

\* tcp_contradicts or global_contradicts
Filtered(r, row) ==
    /\ row.loss >= 20
    /\ IF TcpFail(r, row.host) # None
       THEN TcpFail(r, row.host) <= 20
       ELSE TransportWorks(r)

\* The reconciliation that is stored with the report.
reconcile_icmp(r) ==
    [filtered  |-> {row.host : row \in {w \in r.internet : Filtered(r, w)}},
     real_loss |-> {row.host : row \in {w \in r.internet : w.loss >= 5 /\ ~Filtered(r, w)}},
     tcp_fail  |-> [h \in {row.host : row \in r.internet} |-> TcpFail(r, h)],
     transport |-> TransportWorks(r)]
=============================================================================
