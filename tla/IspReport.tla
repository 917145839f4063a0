----------------------------- MODULE IspReport ------------------------------
(***************************************************************************)
(* The evidence report for the ISP (build_isp_report in reporting.py):     *)
(* what it attributes to whom, which findings it lists, the verdict of     *)
(* each host and what it asks for.  r is a results report with its stored  *)
(* reconciliation and findings.                                            *)
(***************************************************************************)
EXTENDS Layers

WithSeverity(findings, severities) == {f \in findings : f.severity \in severities}

LocalBad(findings) ==
    {f \in WithSeverity(findings, {"bad", "warning"}) : f.layer \in {"interface", "wifi"}}

\* Section 3.  The pings of the gateway are classified again; its finding,
\* which counts retransmits too, is not looked at.
Attribution(r, findings) ==
    IF GatewayClean(r) /\ LocalBad(findings) = {} THEN "healthy" ELSE "issues"
Upstream(findings) == {f \in WithSeverity(findings, {"bad"}) : f.layer \in {"isp", "internet"}}

\* Section 4: what is not clean, or everything if all is.
Listed(findings) ==
    LET nontrivial == {f \in findings : f.severity # "clean"}
    IN IF nontrivial = {} THEN findings ELSE nontrivial

\* Section 5: the verdict beside the pings of a host.
HostVerdict(row, recon) ==
    IF row.host \in recon.filtered THEN "rate_limited"
    ELSE IF row.loss >= 5 THEN "real_loss" ELSE "ok"

\* Section 6.
IspAsks(findings) ==
    {[ask |-> "packet_loss", about |-> f.about] :
        f \in {x \in WithSeverity(findings, {"bad"}) : x.layer = "isp"}}
    \union {[ask |-> "routing", about |-> f.about] :
        f \in {x \in WithSeverity(findings, {"bad"}) : x.title = "external_path"}}
    \union When(WithSeverity(findings, {"bad", "warning"}) = {},
                {[ask |-> "nothing_reproduced", about |-> ""]})
Asks(findings) == IF IspAsks(findings) = {} THEN {[ask |-> "review", about |-> ""]}
                                            ELSE IspAsks(findings)

build_isp_report(r, recon, findings) ==
    [attribution |-> Attribution(r, findings),
     upstream    |-> Upstream(findings),
     listed      |-> Listed(findings),
     verdicts    |-> [h \in {row.host : row \in r.internet} |->
                        HostVerdict(CHOOSE row \in r.internet : row.host = h, recon)],
     asks        |-> Asks(findings)]
=============================================================================
