-------------------------- MODULE LinkTrackProofs --------------------------
(***************************************************************************)
(* What findings and peers are told of the topology, and that the clients  *)
(* of connected peers stay: for any ports, hosts, window and events, and   *)
(* any number of moves and failures.                                       *)
(***************************************************************************)
EXTENDS LinkTrack, TLAPS

(* Types that TypeOK leaves out, and the clients come from the table. *)
Shaped ==
    /\ place \in [Event -> Port \cup Host \cup {None}]
    /\ pc = "pairs" => todo \subseteq LocalEvent \X PeerEvent
    /\ clients \subseteq DiscoverPeers

(* The changes ahead: one for a port, of the type that what was told of it  *)
(* and the snapshot make, unless an earlier change was left unsaid.         *)
Pending ==
    pc = "changes" =>
        /\ snapshot \in [Port -> Host \cup {None}]
        /\ \A c \in todo :
               /\ c.port \in Port
               /\ c.port \notin forgotten
                    => c.type = ChangeType(told[c.port], snapshot[c.port])
        /\ \A c, d \in todo : c.port = d.port => c = d

Inv == TypeOK /\ Shaped /\ Pending /\ TopologyTold /\ PeersHearLosses

LEMMA InvInit == Init => Inv
  <1> SUFFICES ASSUME Init PROVE Inv
    OBVIOUS
  <1>1. TypeOK
    BY LinkAssumption DEF Init, TypeOK, Nowhere, Neighbor, Event
  <1>2. Shaped
    BY DEF Init, Shaped, Event, DiscoverPeers
  <1>3. Pending /\ TopologyTold /\ PeersHearLosses
    BY DEF Init, Pending, TopologyTold, PeersHearLosses, Nowhere
  <1> QED BY <1>1, <1>2, <1>3 DEF Inv

----------------------------------------------------------------------------
LEMMA DiscoveredAreHosts ==
  ASSUME TypeOK PROVE DiscoverPeers \subseteq Host
  BY DEF TypeOK, DiscoverPeers, Neighbor

LEMMA CurrentType ==
  ASSUME TypeOK PROVE Current \in [Port -> Host \cup {None}]
  BY DEF TypeOK, Current, Neighbor

(* A change is of a neighbour that came exactly if there was none. *)
LEMMA AddedType ==
  ASSUME NEW old, NEW new
  PROVE  ChangeType(old, new) = "neighbor_added" <=> old = None
  BY DEF ChangeType

LEMMA SilentOnAdded ==
  ASSUME NEW type PROVE Gossips(TopologySeverity(type)) <=> type # "neighbor_added"
  BY DEF Gossips, TopologySeverity

----------------------------------------------------------------------------
(* The network moves a cable; the daemon sees nothing of it yet. *)
LEMMA CableMovesKeepsInv == ASSUME Inv, CableMoves PROVE Inv'
  <1> USE DEF Inv
  <1>1. UNCHANGED <<lldp, topology, clients, snapshot, place, age, reported, told, heard,
                    forgotten, missed, pc, todo, faults>>
    BY DEF CableMoves, log, said
  <1>2. wire' \in [Port -> Neighbor \cup {None}] /\ moves' \in 0 .. MaxMoves
    BY LinkAssumption DEF CableMoves, TypeOK
  <1>3. TypeOK'
    BY <1>1, <1>2 DEF TypeOK
  <1>4. Shaped' /\ Pending' /\ TopologyTold' /\ PeersHearLosses'
    BY <1>1 DEF Shaped, Pending, TopologyTold, PeersHearLosses, DiscoverPeers
  <1> QED BY <1>3, <1>4

LEMMA PeerEventArrivesKeepsInv == ASSUME Inv, PeerEventArrives PROVE Inv'
  <1> USE DEF Inv
  <1>1. PICK e \in PeerEvent, h \in Host :
            place[e] = None /\ place' = [place EXCEPT ![e] = h]
    BY DEF PeerEventArrives
  <1>2. UNCHANGED <<wire, moves, lldp, topology, clients, snapshot, age, reported, told, heard,
                    forgotten, missed, pc, todo, faults>>
    BY DEF PeerEventArrives, network, said
  <1>3. /\ \A l \in LocalEvent : place'[l] = place[l]
        /\ \A d \in PeerEvent : place'[d] \in Host \cup {None}
        /\ place' \in [Event -> Port \cup Host \cup {None}]
    BY <1>1, LinkAssumption DEF Shaped, TypeOK, Event
  <1>4. TypeOK'
    BY <1>2, <1>3 DEF TypeOK
  <1>5. Shaped' /\ Pending' /\ TopologyTold' /\ PeersHearLosses'
    BY <1>2, <1>3 DEF Shaped, Pending, TopologyTold, PeersHearLosses, DiscoverPeers
  <1> QED BY <1>4, <1>5

(* The steps that read LLDP, fill the table and choose the clients. *)
LEMMA CollectKeepsInv ==
  ASSUME Inv, CollectLldp \/ StoreNeighbors \/ RefreshPeers PROVE Inv'
  <1> USE DEF Inv
  <1>1. /\ UNCHANGED <<wire, moves, snapshot, place, age, reported, told, heard, forgotten,
                       missed, todo>>
        /\ pc \in {"collect", "store", "refresh"} /\ pc' \in {"store", "refresh", "detect"}
        /\ faults' \in 0 .. MaxFaults
    BY LinkAssumption DEF CollectLldp, StoreNeighbors, RefreshPeers, Works, Fails, network, log,
       said, TypeOK
  <1>2. lldp' \in [Port -> Neighbor \cup {None}]
    BY DEF CollectLldp, StoreNeighbors, RefreshPeers, TypeOK, Nowhere
  <1>3. topology' \subseteq Port \X Neighbor /\ topology \subseteq topology'
    BY DEF CollectLldp, StoreNeighbors, RefreshPeers, TypeOK
  <1>4. clients' \subseteq DiscoverPeers /\ DiscoverPeers \subseteq DiscoverPeers'
    BY <1>3 DEF CollectLldp, StoreNeighbors, RefreshPeers, Shaped, DiscoverPeers
  <1>5. TypeOK'
    BY <1>1, <1>2, <1>3, <1>4, DiscoveredAreHosts DEF TypeOK
  <1>6. Shaped' /\ Pending' /\ TopologyTold' /\ PeersHearLosses'
    BY <1>1, <1>4 DEF Shaped, Pending, TopologyTold, PeersHearLosses
  <1> QED BY <1>5, <1>6

LEMMA DetectKeepsInv == ASSUME Inv, Detect PROVE Inv'
  <1> USE DEF Inv
  <1>1. /\ UNCHANGED <<wire, moves, lldp, topology, clients, snapshot, age, reported, told, heard,
                       forgotten, missed, todo, faults>>
        /\ pc = "detect" /\ pc' = "correlate"
    BY DEF Detect, network, said
  <1>2. /\ place' \in [Event -> Port \cup Host \cup {None}]
        /\ \A l \in LocalEvent :
               place'[l] \in Port \cup {None} /\ (place'[l] = None => place[l] = None)
        /\ \A e \in PeerEvent : place'[e] \in Host \cup {None}
    BY LinkAssumption DEF Detect, Shaped, TypeOK, Event
  <1>3. TypeOK'
    BY <1>1, <1>2 DEF TypeOK
  <1>4. Shaped' /\ Pending' /\ TopologyTold' /\ PeersHearLosses'
    BY <1>1, <1>2 DEF Shaped, Pending, TopologyTold, PeersHearLosses, DiscoverPeers
  <1> QED BY <1>3, <1>4

(* The pairs of a cycle, one after the other. *)
LEMMA PairsKeepInv == ASSUME Inv, Correlate \/ ReportPair \/ PairsDone PROVE Inv'
  <1> USE DEF Inv
  <1>1. /\ UNCHANGED <<wire, moves, lldp, topology, clients, snapshot, place, age, told,
                       heard, forgotten, missed, faults>>
        /\ pc \in {"correlate", "pairs"} /\ pc' \in {"pairs", "diff"}
    BY DEF Correlate, ReportPair, PairsDone, network, log, said
  <1>2. /\ reported' \subseteq LocalEvent \X PeerEvent
        /\ pc' = "pairs" => todo' \subseteq LocalEvent \X PeerEvent
    BY DEF Correlate, ReportPair, PairsDone, said, TypeOK, Shaped
  <1>3. TypeOK' /\ Shaped'
    BY <1>1, <1>2 DEF TypeOK, Shaped, DiscoverPeers
  <1>4. Pending' /\ TopologyTold' /\ PeersHearLosses'
    BY <1>1 DEF Pending, TopologyTold, PeersHearLosses
  <1> QED BY <1>3, <1>4

(* The snapshot is replaced, and what differs from the old one is ahead. *)
LEMMA DiffTopologyKeepsInv == ASSUME Inv, DiffTopology PROVE Inv'
  <1> USE DEF Inv
  <1>1. /\ UNCHANGED <<wire, moves, lldp, topology, clients, place, age, reported, forgotten,
                       missed, faults>>
        /\ pc = "diff" /\ pc' = "changes" /\ snapshot' = Current
    BY DEF DiffTopology, network, log
  <1>2. Current \in [Port -> Host \cup {None}]
    BY CurrentType
  <1>4. CASE snapshot = None
    <2>1. todo' = {} /\ told' = Current /\ heard' = Current
      BY <1>4 DEF DiffTopology
    <2>2. Shaped' /\ Pending' /\ TopologyTold' /\ PeersHearLosses'
      BY <2>1, <1>1, <1>2 DEF Shaped, Pending, TopologyTold, PeersHearLosses, DiscoverPeers
    <2>3. TypeOK'
      BY <2>1, <1>1, <1>2 DEF TypeOK
    <2> QED BY <2>2, <2>3
  <1>5. CASE snapshot # None
    <2>1. todo' = Changes /\ UNCHANGED <<told, heard>>
      BY <1>5 DEF DiffTopology
    <2>2. TypeOK' /\ Shaped'
      BY <2>1, <1>1, <1>2 DEF TypeOK, Shaped, DiscoverPeers
    <2>3. \A p \in Port \ forgotten : told[p] = snapshot[p]
      BY <1>1, <1>5 DEF TopologyTold
    <2>4. \A c \in Changes :
             /\ c.port \in Port
             /\ snapshot[c.port] # Current[c.port]
             /\ c.type = ChangeType(snapshot[c.port], Current[c.port])
             /\ \A d \in Changes : c.port = d.port => c = d
      <3> SUFFICES ASSUME NEW c \in Changes, NEW d \in Changes
                   PROVE  /\ c.port \in Port
                          /\ snapshot[c.port] # Current[c.port]
                          /\ c.type = ChangeType(snapshot[c.port], Current[c.port])
                          /\ c.port = d.port => c = d
        OBVIOUS
      <3>1. PICK p \in {q \in Port : snapshot[q] # Current[q]} :
                c = [port |-> p, type |-> ChangeType(snapshot[p], Current[p])]
        BY DEF Changes
      <3>2. PICK q \in Port : d = [port |-> q, type |-> ChangeType(snapshot[q], Current[q])]
        BY DEF Changes
      <3> QED BY <3>1, <3>2
    <2>5. \A p \in Port : snapshot[p] # Current[p] => \E c \in Changes : c.port = p
      <3> SUFFICES ASSUME NEW p \in Port, snapshot[p] # Current[p]
                   PROVE  \E c \in Changes : c.port = p
        OBVIOUS
      <3>1. [port |-> p, type |-> ChangeType(snapshot[p], Current[p])] \in Changes
        BY DEF Changes
      <3> QED BY <3>1
    <2>6. Pending'
      BY <2>1, <2>3, <2>4, <1>1, <1>2 DEF Pending
    <2>7. TopologyTold'
      BY <2>1, <2>3, <2>5, <1>1 DEF TopologyTold
    <2>8. PeersHearLosses'
      BY <2>1, <1>1 DEF PeersHearLosses
    <2> QED BY <2>2, <2>6, <2>7, <2>8
  <1> QED BY <1>4, <1>5

(* One change is told; the peers hear of it unless a neighbour came.  Then  *)
(* there was none before, and they believe in none.                         *)
LEMMA ReportChangeKeepsInv == ASSUME Inv, ReportChange PROVE Inv'
  <1> USE DEF Inv
  <1>1. PICK c \in todo :
           /\ told' = [told EXCEPT ![c.port] = snapshot[c.port]]
           /\ heard' = IF Gossips(TopologySeverity(c.type))
                       THEN [heard EXCEPT ![c.port] = snapshot[c.port]] ELSE heard
           /\ forgotten' = forgotten \ {c.port}
           /\ todo' = todo \ {c}
    BY DEF ReportChange
  <1>2. /\ UNCHANGED <<wire, moves, lldp, topology, clients, snapshot, place, age, reported,
                       missed, pc, faults>>
        /\ pc = "changes"
    BY DEF ReportChange, network, log
  <1>3. /\ c.port \in Port
        /\ c.port \notin forgotten => c.type = ChangeType(told[c.port], snapshot[c.port])
        /\ \A d \in todo' : d \in todo /\ d.port # c.port
        /\ snapshot \in [Port -> Host \cup {None}]
    BY <1>1, <1>2 DEF Pending
  <1>4. /\ told'[c.port] = snapshot[c.port]
        /\ \A p \in Port : p # c.port => told'[p] = told[p] /\ heard'[p] = heard[p]
        /\ told' \in [Port -> Host \cup {None}] /\ heard' \in [Port -> Host \cup {None}]
    BY <1>1, <1>3 DEF TypeOK
  <1>5. c.port \notin missed => heard'[c.port] \in {snapshot[c.port], None}
    <2>1. CASE Gossips(TopologySeverity(c.type))
      BY <2>1, <1>1, <1>3 DEF TypeOK
    <2>2. CASE ~Gossips(TopologySeverity(c.type))
      <3> SUFFICES ASSUME c.port \notin missed PROVE heard'[c.port] = None
        OBVIOUS
      <3>1. c.type = "neighbor_added"
        BY <2>2, SilentOnAdded
      <3>2. c.type = ChangeType(told[c.port], snapshot[c.port])
        BY <1>3 DEF TypeOK
      <3>3. told[c.port] = None
        BY <3>1, <3>2, AddedType
      <3>4. heard[c.port] = None
        BY <3>3, <1>3 DEF PeersHearLosses
      <3> QED BY <3>4, <2>2, <1>1
    <2> QED BY <2>1, <2>2
  <1>6. TypeOK' /\ Shaped'
    BY <1>1, <1>2, <1>4 DEF TypeOK, Shaped, DiscoverPeers
  <1>7. Pending'
    <2>1. \A d \in todo' : d.port \notin forgotten' => d.port \notin forgotten
      BY <1>1, <1>3
    <2> QED BY <2>1, <1>2, <1>3, <1>4 DEF Pending
  <1>8. TopologyTold'
    <2> SUFFICES ASSUME NEW p \in Port, p \notin forgotten', snapshot # None
                 PROVE  \/ told'[p] = snapshot[p]
                        \/ \E d \in todo' : d.port = p
      BY <1>2 DEF TopologyTold
    <2>1. CASE p = c.port
      BY <2>1, <1>4
    <2>2. CASE p # c.port
      BY <2>2, <1>1, <1>2, <1>4 DEF TopologyTold
    <2> QED BY <2>1, <2>2
  <1>9. PeersHearLosses'
    BY <1>2, <1>4, <1>5 DEF PeersHearLosses
  <1> QED BY <1>6, <1>7, <1>8, <1>9

----------------------------------------------------------------------------
(* Between two cycles the recent events grow older. *)
LEMMA AgedOlder ==
  ASSUME TypeOK
  PROVE  Aged \in [Event -> 0 .. Window + 1]
  BY LinkAssumption DEF TypeOK, Aged

LEMMA EndCycleKeepsInv == ASSUME Inv, EndCycle PROVE Inv'
  <1>1. /\ UNCHANGED <<wire, moves, topology, clients, snapshot, place, reported, told, heard,
                       forgotten, missed, faults>>
        /\ pc = "changes" /\ pc' = "collect" /\ todo = {} /\ age' = Aged /\ lldp' = Nowhere
    BY DEF EndCycle, network, said
  <1>2. TypeOK'
    BY <1>1, AgedOlder DEF Inv, TypeOK, Nowhere
  <1>3. Shaped' /\ Pending' /\ TopologyTold' /\ PeersHearLosses'
    BY <1>1 DEF Inv, Shaped, Pending, TopologyTold, PeersHearLosses, DiscoverPeers
  <1> QED BY <1>2, <1>3 DEF Inv

(* The changes that were ahead are left unsaid, and their ports noted. *)
LEMMA AbandonKeepsInv == ASSUME Inv, Abandon PROVE Inv'
  <1> DEFINE unsaid == IF pc = "changes" THEN {c.port : c \in todo} ELSE {}
  <1>1. /\ UNCHANGED <<wire, moves, clients, snapshot, place, reported, told, heard>>
        /\ pc' = "collect" /\ todo' = {} /\ age' = Aged /\ lldp' = Nowhere
        /\ forgotten' = forgotten \cup unsaid /\ missed' = missed \cup unsaid
        /\ faults < MaxFaults /\ faults' = faults + 1
    BY DEF Abandon, Fails, network
  <1>2. topology \subseteq topology' /\ topology' \subseteq Port \X Neighbor
    BY DEF Abandon, Inv, TypeOK
  <1>3. unsaid \subseteq Port
    BY DEF Inv, Pending
  <1>4. TypeOK'
    <2>1. faults' \in 0 .. MaxFaults
      BY <1>1, LinkAssumption DEF Inv, TypeOK
    <2>2. forgotten' \subseteq missed' /\ missed' \subseteq Port
      BY <1>1, <1>3 DEF Inv, TypeOK
    <2> QED BY <2>1, <2>2, <1>1, <1>2, AgedOlder DEF Inv, TypeOK, Nowhere
  <1>5. Shaped' /\ Pending'
    BY <1>1, <1>2 DEF Inv, Shaped, Pending, DiscoverPeers
  <1>6. TopologyTold' /\ PeersHearLosses'
    <2>1. \A p \in Port \ forgotten' : snapshot # None => told[p] = snapshot[p]
      BY <1>1 DEF Inv, TopologyTold
    <2> QED BY <2>1, <1>1 DEF Inv, TopologyTold, PeersHearLosses
  <1> QED BY <1>4, <1>5, <1>6 DEF Inv

----------------------------------------------------------------------------
LEMMA StutterKeepsInv == ASSUME Inv, UNCHANGED vars PROVE Inv'
  BY DEF Inv, vars, network, log, said, TypeOK, Shaped, Pending, TopologyTold, PeersHearLosses, DiscoverPeers

(* The inductive invariant of the link tracking. *)
THEOREM LinkTrackInvariant == Spec => []Inv
  <1>1. ASSUME Inv, [Next]_vars PROVE Inv'
    BY <1>1, CableMovesKeepsInv, PeerEventArrivesKeepsInv, CollectKeepsInv, DetectKeepsInv,
       PairsKeepInv, DiffTopologyKeepsInv, ReportChangeKeepsInv,
       EndCycleKeepsInv, AbandonKeepsInv, StutterKeepsInv DEF Next, Cycle
  <1> QED BY InvInit, <1>1, PTL DEF Spec

(* Every variable the poll cycle keeps of the links has its type. *)
THEOREM LinkTrackTypeOK == Spec => []TypeOK
  <1>1. Inv => TypeOK
    BY DEF Inv
  <1> QED BY LinkTrackInvariant, <1>1, PTL

(* The findings about a port end in the neighbour of the last snapshot, but *)
(* for the ports of an abandoned cycle (topology_diff.py:113).              *)
THEOREM TopologyAlwaysTold == Spec => []TopologyTold
  <1>1. Inv => TopologyTold
    BY DEF Inv
  <1> QED BY LinkTrackInvariant, <1>1, PTL

(* Peers believe in no neighbour the findings have taken off a port, though *)
(* they never hear of one that comes (main.py:367).                         *)
THEOREM PeersAlwaysHearLosses == Spec => []PeersHearLosses
  <1>1. Inv => PeersHearLosses
    BY DEF Inv
  <1> QED BY LinkTrackInvariant, <1>1, PTL

(* A row once in the topology table makes a client in every refresh, so a   *)
(* host that is still cabled to the switch keeps its client unless a        *)
(* resolver fails (topology.py:16-28, main.py:154).                         *)
THEOREM ConnectedPeersAlwaysStay == Spec => ConnectedPeersStay
  <1>1. ASSUME Inv, [Next]_vars
        PROVE  \A h \in clients \ clients' : faults' # faults \/ \A p \in Port : wire[p] # h
    <2>1. CASE RefreshPeers
      <3>1. faults \in Nat /\ clients \subseteq DiscoverPeers
        BY <1>1, LinkAssumption DEF Inv, TypeOK, Shaped
      <3>2. clients' = DiscoverPeers \/ faults' = faults + 1
        BY <2>1 DEF RefreshPeers, Works, Fails
      <3> QED BY <3>1, <3>2
    <2>2. CASE ~RefreshPeers
      <3>1. UNCHANGED clients
        BY <1>1, <2>2 DEF Next, Cycle, CollectLldp, StoreNeighbors, Detect, Correlate, ReportPair,
           PairsDone, DiffTopology, ReportChange, EndCycle, Abandon, CableMoves,
           PeerEventArrives, vars
      <3> QED BY <3>1
    <2> QED BY <2>1, <2>2
  <1>2. Inv /\ [Next]_vars =>
            [\A h \in clients \ clients' : faults' # faults \/ \A p \in Port : wire[p] # h]_vars
    BY <1>1
  <1> QED BY LinkTrackInvariant, <1>2, PTL DEF Spec, ConnectedPeersStay
=============================================================================
