-------------------------- MODULE FindingTemplates --------------------------
(***************************************************************************)
(* The severity each template of llm/fallback.py gives to its finding, and *)
(* what syslog and the gossip make of it.  The wording is left out.        *)
(***************************************************************************)
EXTENDS Naturals

Severity == {"info", "warning", "critical"}

Rank(severity) ==
    CASE severity = "info" -> 1 [] severity = "warning" -> 2 [] OTHER -> 3

(* fault: the name syslog has for it *)
AnomalySeverityCrit(immediate) == IF immediate THEN "crit" ELSE "warning"

AnomalySeverity(immediate) == IF immediate THEN "critical" ELSE "warning"

BgpSeverity(old, new) ==
    IF old = "Established" /\ new # "Established" THEN "warning" ELSE "info"

LinkSeverity(new) == IF new = "down" THEN "warning" ELSE "info"

OpticSeverity(rx) == IF rx = "dark" THEN "critical" ELSE "warning"

(* of the local event; a correlation is at least a warning *)
CorrelationSeverity(severity) == IF severity = "info" THEN "warning" ELSE severity

TopologySeverity(change) == IF change = "neighbor_added" THEN "info" ELSE "warning"

(* SyslogConfig.min_severity is "warning"; share_finding names the two. *)
Emits(severity) == Rank(severity) >= Rank("warning")

(* fault: one of the two forgotten *)
GossipsCritical(severity) == severity \in {"critical"}

Gossips(severity) == severity \in {"warning", "critical"}
=============================================================================
