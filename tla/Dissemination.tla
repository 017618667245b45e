--------------------------- MODULE Dissemination ---------------------------
(***************************************************************************)
(* What the gossip of findings promises, without threads, calls, caches or *)
(* crashes: a switch that holds a finding at distance h from its origin    *)
(* may hand it to a direct peer, which then holds it at distance h + 1,    *)
(* and nobody hands a finding on once it has travelled FindingTtl hops     *)
(* (watchtower.yml.example, finding_ttl).  FindingGossip implements this.  *)
(***************************************************************************)
EXTENDS Naturals

CONSTANTS
    Node,        \* the switches, each running one daemon
    Peers,       \* Peers[n]: the LLDP neighbours n gossips to
    Finding,     \* findings: records with at least a field origin
    FindingTtl   \* config.peer.finding_ttl

VARIABLE
    holds        \* <<n, f, h>>: n holds finding f, received over h hops

----------------------------------------------------------------------------

Init == holds = {}

(* The origin commits a finding of its own. *)
Create(f) == holds' = holds \cup {<<f.origin, f, 0>>}

(* The origin always calls its peers, whatever finding_ttl is; a relay does *)
(* only while hops are left. *)
MayRelay(h) == h = 0 \/ h < FindingTtl

Learn(m, n, f, h) ==
    /\ <<m, f, h>> \in holds
    /\ n \in Peers[m]
    /\ MayRelay(h)
    /\ holds' = holds \cup {<<n, f, h + 1>>}

Next ==
    \/ \E f \in Finding : Create(f)
    \/ \E m, n \in Node, f \in Finding, h \in 0 .. FindingTtl : Learn(m, n, f, h)

Spec == Init /\ [][Next]_holds

----------------------------------------------------------------------------

TypeOK == holds \subseteq Node \X Finding \X Nat

(* A finding arrives along a real chain of peers that starts at its origin: *)
(* whoever holds it at distance h > 0 got it from a peer that holds it at   *)
(* distance h - 1, and only the origin holds it at distance 0 (the          *)
(* origin_hostname and ttl that _gossip_finding passes on). *)
Provenance ==
    \A e \in holds :
        IF e[3] = 0
        THEN e[1] = e[2].origin
        ELSE \E m \in Node : e[1] \in Peers[m] /\ <<m, e[2], e[3] - 1>> \in holds

(* No finding is held further from its origin than finding_ttl hops (one    *)
(* hop when finding_ttl is 0, since share_finding does not look at it). *)
WithinTtl == \A e \in holds : e[3] <= IF FindingTtl = 0 THEN 1 ELSE FindingTtl

============================================================================
