---------------------------- MODULE MCPollCycle ----------------------------
EXTENDS PollCycle

CONSTANTS s1, p1

(* throttled, paused and dormant; full differs from throttled in pace only *)
MCSnapshot == {ReadResources(700, 20, 50), ReadResources(100, 90, 50),
               ReadResources(100, 20, 96)}

MCHeight == [anomaly |-> 2, bgp_change |-> 1, link_change |-> 1, optic_degradation |-> 3,
             correlation |-> 2, topology_change |-> 1]
=============================================================================
