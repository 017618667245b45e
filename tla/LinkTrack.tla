----------------------------- MODULE LinkTrack -----------------------------
(***************************************************************************)
(* What a daemon makes of LLDP in its poll cycle: the topology table, the  *)
(* clients for the peers in it, the changes between two cycles' snapshots, *)
(* and the pairs of local and peer events on one link.  Cables are moved   *)
(* and peers report events at any moment.  The collector, the resolver and *)
(* the journal may fail.  A host stands for its port as well.              *)
(***************************************************************************)
EXTENDS FindingTemplates, FiniteSets, FiniteSetsExt

CONSTANTS
    Port,
    Host,       \* numbered in the order of their names
    Blank,      \* a neighbour without a system name, which sorts first
    None,
    Cabling,    \* Cabling[p]: the neighbour at first
    Window,     \* cycles in the 300 seconds an event is recent
    LocalEvent, PeerEvent,  \* bound: the events that may occur
    MaxMoves,   \* bound: cables moved
    MaxFaults   \* bound: failures

ASSUME LinkAssumption ==
    /\ IsFiniteSet(Port)
    /\ Host \subseteq Nat \ {0} /\ Blank = 0 /\ None \notin Nat
    /\ Cabling \in [Port -> Host]
    /\ {Window, MaxMoves, MaxFaults} \subseteq Nat
    /\ LocalEvent \cap PeerEvent = {}

Neighbor == Host \cup {Blank}

Event == LocalEvent \cup PeerEvent

VARIABLES
    wire,      \* the neighbour LLDP knows on each port
    lldp,      \* the cycle's lldp_data
    topology,  \* the topology table: <<port, neighbour>>
    clients,   \* keys of _clients
    snapshot,  \* _last_snapshot
    place,     \* event -> its port or the peer that sent it; None before
    age,       \* event -> cycles since
    reported,  \* pairs <<local, peer>> with a finding, which may be made again
    told,      \* the neighbour of each port, as the findings have it
    heard,     \* the same, as the findings sent to the peers have it
    forgotten, \* ports whose last change an abandoned cycle left unsaid
    missed,    \* ports of which a change was ever left unsaid
    pc, todo,
    moves, faults

network == <<wire, moves>>
log == <<place, age>>
said == <<reported, told, heard, forgotten, missed>>
vars == <<network, lldp, topology, clients, snapshot, log, said, pc, todo, faults>>

Nowhere == [p \in Port |-> None]

Init ==
    /\ wire = Cabling
    /\ lldp = Nowhere
    /\ topology = {} /\ clients = {}
    /\ snapshot = None
    /\ place = [e \in Event |-> None] /\ age = [e \in Event |-> 0]
    /\ reported = {}
    /\ told = Nowhere /\ heard = Nowhere
    /\ forgotten = {} /\ missed = {}
    /\ pc = "collect" /\ todo = {}
    /\ moves = 0 /\ faults = 0

----------------------------------------------------------------------------
(* The network. *)

CableMoves ==
    /\ moves < MaxMoves
    /\ moves' = moves + 1
    /\ \E p \in Port : \E n \in (Neighbor \cup {None}) \ {wire[p]} :
           wire' = [wire EXCEPT ![p] = n]
    /\ UNCHANGED <<lldp, topology, clients, snapshot, log, said, pc, todo, faults>>

(* A worker records what a peer has shared. *)
PeerEventArrives ==
    /\ \E e \in PeerEvent, h \in Host :
           place[e] = None /\ place' = [place EXCEPT ![e] = h]
    /\ UNCHANGED <<network, lldp, topology, clients, snapshot, age, said, pc, todo, faults>>

----------------------------------------------------------------------------
(* The poll cycle. *)

Fails == faults < MaxFaults /\ faults' = faults + 1

Works == UNCHANGED faults

CollectLldp ==
    /\ pc = "collect"
    /\ \/ lldp' = wire /\ Works
       \/ lldp' = Nowhere /\ Fails
    /\ pc' = "store"
    /\ UNCHANGED <<network, topology, clients, snapshot, log, said, todo>>

(* Rows are added, and never removed. *)
StoreNeighbors ==
    /\ pc = "store"
    /\ topology' = topology \cup {<<p, lldp[p]>> : p \in {q \in Port : lldp[q] # None}}
    /\ pc' = "refresh"
    /\ UNCHANGED <<network, lldp, clients, snapshot, log, said, todo, faults>>

(* fault: the peers of this cycle only *)
DiscoverNow == {lldp[p] : p \in Port} \ {Blank, None}

(* fault: a nameless neighbour is taken for a peer *)
DiscoverNameless == {row[2] : row \in topology}

DiscoverPeers == {row[2] : row \in topology} \ {Blank}

(* A name that does not resolve is no peer in this cycle. *)
RefreshPeers ==
    /\ pc = "refresh"
    /\ \/ clients' = DiscoverPeers /\ Works
       \/ \E h \in DiscoverPeers : clients' = DiscoverPeers \ {h} /\ Fails
    /\ pc' = "detect"
    /\ UNCHANGED <<network, lldp, topology, snapshot, log, said, todo>>

(* An event of a port, of whatever kind, may be recorded. *)
Detect ==
    /\ pc = "detect"
    /\ \/ UNCHANGED place
       \/ \E e \in LocalEvent, p \in Port :
              place[e] = None /\ place' = [place EXCEPT ![e] = p]
    /\ pc' = "correlate"
    /\ UNCHANGED <<network, lldp, topology, clients, snapshot, age, said, todo, faults>>

(* get_neighbor: the first row by name, of all the port ever had *)
NeighborOf(p) ==
    LET names == {row[2] : row \in {r \in topology : r[1] = p}}
    IN  IF names = {} THEN None ELSE Min(names)

(* fault: only what this cycle has recorded *)
RecentNow(e) == place[e] # None /\ age[e] = 0

Recent(e) == place[e] # None /\ age[e] <= Window

Correlate ==
    /\ pc = "correlate"
    /\ todo' = {x \in LocalEvent \X PeerEvent :
                    Recent(x[1]) /\ Recent(x[2]) /\ place[x[2]] = NeighborOf(place[x[1]])}
    /\ pc' = "pairs"
    /\ UNCHANGED <<network, lldp, topology, clients, snapshot, log, said, faults>>

ReportPair ==
    /\ pc = "pairs"
    /\ \E x \in todo :
           /\ reported' = reported \cup {x}
           /\ todo' = todo \ {x}
    /\ UNCHANGED <<network, lldp, topology, clients, snapshot, log, told, heard, forgotten, missed,
                   pc, faults>>

PairsDone ==
    /\ pc = "pairs" /\ todo = {}
    /\ pc' = "diff"
    /\ UNCHANGED <<network, lldp, topology, clients, snapshot, log, said, todo, faults>>

Current == [p \in Port |-> IF lldp[p] = Blank THEN None ELSE lldp[p]]

ChangeType(old, new) ==
    CASE old = None -> "neighbor_added"
      [] old # None /\ new = None -> "neighbor_removed"
      [] OTHER -> "neighbor_changed"

(* fault: only the ports of this cycle are compared *)
ChangesOfPresent ==
    {[port |-> p, type |-> ChangeType(snapshot[p], Current[p])] :
        p \in {q \in Port : snapshot[q] # Current[q] /\ Current[q] # None}}

Changes ==
    {[port |-> p, type |-> ChangeType(snapshot[p], Current[p])] :
        p \in {q \in Port : snapshot[q] # Current[q]}}

(* The first snapshot is taken as it is. *)
DiffTopology ==
    /\ pc = "diff"
    /\ IF snapshot = None
       THEN todo' = {} /\ told' = Current /\ heard' = Current
       ELSE todo' = Changes /\ UNCHANGED <<told, heard>>
    /\ snapshot' = Current
    /\ pc' = "changes"
    /\ UNCHANGED <<network, lldp, topology, clients, log, reported, forgotten, missed, faults>>

ReportChange ==
    /\ pc = "changes"
    /\ \E c \in todo :
           /\ told' = [told EXCEPT ![c.port] = snapshot[c.port]]
           /\ heard' = IF Gossips(TopologySeverity(c.type))
                       THEN [heard EXCEPT ![c.port] = snapshot[c.port]] ELSE heard
           /\ forgotten' = forgotten \ {c.port}
           /\ todo' = todo \ {c}
    /\ UNCHANGED <<network, lldp, topology, clients, snapshot, log, reported, missed, pc, faults>>

Aged == [e \in Event |-> IF place[e] # None /\ age[e] <= Window THEN age[e] + 1 ELSE age[e]]

EndCycle ==
    /\ pc = "changes" /\ todo = {}
    /\ pc' = "collect"
    /\ age' = Aged
    /\ lldp' = Nowhere
    /\ UNCHANGED <<network, topology, clients, snapshot, place, said, todo, faults>>

(* A write to the journal fails: the rest of the cycle is left out. *)
Abandon ==
    /\ pc \in {"store", "refresh", "detect", "correlate", "pairs", "diff", "changes"}
    /\ Fails
    /\ \E rows \in SUBSET {<<p, lldp[p]>> : p \in {q \in Port : lldp[q] # None}} :
           topology' = IF pc = "store" THEN topology \cup rows ELSE topology
    /\ LET unsaid == IF pc = "changes" THEN {c.port : c \in todo} ELSE {}
       IN  forgotten' = forgotten \cup unsaid /\ missed' = missed \cup unsaid
    /\ pc' = "collect" /\ todo' = {} /\ lldp' = Nowhere
    /\ age' = Aged
    /\ UNCHANGED <<network, clients, snapshot, place, reported, told, heard>>

Cycle ==
    \/ CollectLldp \/ StoreNeighbors \/ RefreshPeers \/ Detect
    \/ Correlate \/ ReportPair \/ PairsDone
    \/ DiffTopology \/ ReportChange \/ EndCycle
    \/ Abandon

Next == Cycle \/ CableMoves \/ PeerEventArrives

Spec == Init /\ [][Next]_vars

(* The poll loop runs on. *)
FairSpec == Spec /\ WF_vars(Cycle)

----------------------------------------------------------------------------
TypeOK ==
    /\ wire \in [Port -> Neighbor \cup {None}] /\ lldp \in [Port -> Neighbor \cup {None}]
    /\ topology \subseteq Port \X Neighbor
    /\ clients \subseteq Host
    /\ snapshot \in [Port -> Host \cup {None}] \cup {None}
    /\ \A e \in LocalEvent : place[e] \in Port \cup {None}
    /\ \A e \in PeerEvent : place[e] \in Host \cup {None}
    /\ age \in [Event -> 0 .. Window + 1]
    /\ reported \subseteq LocalEvent \X PeerEvent
    /\ told \in [Port -> Host \cup {None}] /\ heard \in [Port -> Host \cup {None}]
    /\ forgotten \subseteq missed /\ missed \subseteq Port
    /\ pc \in {"collect", "store", "refresh", "detect", "correlate", "pairs", "diff", "changes"}
    /\ moves \in 0 .. MaxMoves /\ faults \in 0 .. MaxFaults

(* The findings about a port end in the neighbour the next cycle is compared  *)
(* with, though the snapshot is replaced before they are made                 *)
(* (topology_diff.py:113, main.py:211-236); only the ports an abandoned cycle *)
(* left out, and nothing was said of since, may differ.                       *)
TopologyTold ==
    snapshot # None =>
        \A p \in Port \ forgotten :
            \/ told[p] = snapshot[p]
            \/ pc = "changes" /\ \E c \in todo : c.port = p

(* Peers hear of what was lost or changed, never of what came: they may miss  *)
(* a neighbour, but believe in none the findings have taken off the port.     *)
(* This ends with the first change of the port an abandoned cycle leaves out. *)
PeersHearLosses == \A p \in Port \ missed : heard[p] \in {told[p], None}

(* A host that is cabled to the switch keeps its client, whatever LLDP says   *)
(* of it for a cycle (main.py:154, topology.py:16-28): only a resolver that   *)
(* fails takes it away, until the next cycle.                                 *)
ConnectedPeersStay ==
    [][\A h \in clients \ clients' : faults' # faults \/ \A p \in Port : wire[p] # h]_vars

(* A failing collector makes every neighbour seem removed (main.py:422); when *)
(* the cables rest, the findings end up with what is there, but for changes   *)
(* an abandoned cycle left out.                                               *)
AlarmsCorrected ==
    <>[](\A p \in Port \ forgotten :
            told[p] = IF wire[p] = Blank THEN None ELSE wire[p])

(* Two new events of the two ends of a link are put together, though a cycle  *)
(* be abandoned, as long as the port never had another neighbour.             *)
PairsReported ==
    \A l \in LocalEvent, e \in PeerEvent :
        (place[l] # None /\ place[e] # None /\ age[l] = 0 /\ age[e] = 0
            /\ {r \in topology : r[1] = place[l]} = {<<place[l], place[e]>>})
        ~> (<<l, e>> \in reported
            \/ \E r \in topology : r[1] = place[l] /\ r[2] # place[e])
=============================================================================
