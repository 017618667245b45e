------------------------------ MODULE Governor ------------------------------
(***************************************************************************)
(* The resource governor: the state it derives from a resource snapshot,   *)
(* and what each state lets the daemon do.  Pure; PollCycle keeps the      *)
(* state.                                                                  *)
(***************************************************************************)
EXTENDS Naturals

GovernorState == {"full", "throttled", "paused", "dormant"}

(* ResourceConfig; what is above 95 percent is a crisis whatever it says *)
Limits == [max_cpu_percent |-> 20, max_memory_mb |-> 768,
           throttle_cpu_percent |-> 15, throttle_memory_mb |-> 600,
           system_cpu_ceiling |-> 80, system_memory_ceiling |-> 85]

ResourceSnapshot == [watchtower_cpu_percent : Nat, watchtower_memory_mb : Nat,
                     system_cpu_percent : Nat, system_memory_percent : Nat]

(* Nothing measures the daemon's own CPU usage, so it is 0; what cannot be *)
(* read is 0 as well. *)
ReadResources(memory, system_cpu, system_memory) ==
    [watchtower_cpu_percent |-> 0, watchtower_memory_mb |-> memory,
     system_cpu_percent |-> system_cpu, system_memory_percent |-> system_memory]

Crisis(s) == s.system_cpu_percent > 95 \/ s.system_memory_percent > 95

Pressure(s) ==
    \/ s.system_cpu_percent > Limits.system_cpu_ceiling
    \/ s.system_memory_percent > Limits.system_memory_ceiling
    \/ s.watchtower_cpu_percent > Limits.max_cpu_percent
    \/ s.watchtower_memory_mb > Limits.max_memory_mb

NearLimits(s) ==
    \/ s.watchtower_cpu_percent > Limits.throttle_cpu_percent
    \/ s.watchtower_memory_mb > Limits.throttle_memory_mb

ComputeState(s) ==
    CASE Crisis(s) -> "dormant"
      [] ~Crisis(s) /\ Pressure(s) -> "paused"
      [] ~Crisis(s) /\ ~Pressure(s) /\ NearLimits(s) -> "throttled"
      [] OTHER -> "full"

CanInvestigate(state) == state \in {"full", "throttled"}

ShouldCollect(state) == state # "dormant"
=============================================================================
