----------------------------- MODULE PollCycle -----------------------------
(***************************************************************************)
(* The poll cycle of one daemon: the governor is asked, the collectors     *)
(* read the switch, anomalies and changes become events and findings, the  *)
(* peers and the banner are told.  The switch changes at any moment; a     *)
(* collector may fail, and so may every write to the journal, which        *)
(* abandons the cycle; the process may be killed and started again.  LLDP  *)
(* is the subject of LinkTrack: here the cycle's step with the neighbours  *)
(* succeeds or fails, and the correlations and topology changes of a cycle *)
(* are any.                                                                *)
(***************************************************************************)
EXTENDS Governor, FindingTemplates, Banner, SequencesExt

CONSTANTS
    Session,       \* BGP neighbours
    Port,          \* ports, with an operational state and an optic
    SessionState,  \* states of a session, "Established" among them
    Verdict,       \* what the analyzer may say of counters: "anomaly", "immediate"
    Rx,            \* levels of received power, "good" among them
    Change,        \* types of topology changes
    Unknown,       \* no key in a dict: of the database, or of the daemon
    NoItem,
    Snapshot,      \* what the governor may read
    Height,        \* Height[kind]: lines of a finding in the banner
    MaxChanges,    \* bound: changes of the switch, its cables and its peers
    MaxFaults      \* bound: collectors and writes that fail, and crashes

Subject == Session \cup Port

Recorded == {"anomaly", "bgp_change", "link_change", "optic_degradation"}

Kind == Recorded \cup {"correlation", "topology_change"}

ASSUME PollAssumption ==
    /\ Session \cap Port = {}
    /\ IsFiniteSet(Subject)
    /\ "Established" \in SessionState
    /\ Unknown \notin SessionState \cup {"up", "down", "good", "weak", "dark"}
    /\ Verdict \subseteq {"anomaly", "immediate"}
    /\ Rx \subseteq {"good", "weak", "dark"} /\ "good" \in Rx
    /\ Change \subseteq {"neighbor_added", "neighbor_removed", "neighbor_changed"}
    /\ Snapshot \subseteq ResourceSnapshot
    /\ Height \in [Kind -> 1 .. 3]
    /\ {MaxChanges, MaxFaults} \subseteq Nat /\ MaxLines \in Int

Event(kind, subject, old, new) ==
    [kind |-> kind, subject |-> subject, old |-> old, new |-> new]

Value == SessionState \cup Verdict \cup Rx \cup Change \cup Severity
             \cup {"up", "down", "baseline", "local", "lldp", Unknown}

EventSet == [kind : Kind, subject : Subject, old : Value, new : Value]

ASSUME ItemAssumption == NoItem \notin EventSet

States(x) == IF x \in Session THEN SessionState ELSE {"up", "down"}

VARIABLES
    status, optic,   \* the switch: session and link states, received power
    state,           \* _state of the governor
    deferred,        \* the anomalies _investigations_deferred counts
    got, gotRx, gotStats,  \* what the collectors returned, for the time of a cycle
    last,            \* _last_bgp_states and _last_oper_states
    pc, todo,        \* the step of the cycle, and what its loop has ahead
    item,            \* the event or result that is being reported
    call,            \* the next call of its handler; "done" when there is none
    events, fresh,   \* local events of the journal; those of this cycle
    findings,        \* the findings table: the event each is about, its severity
    syslog, shared,  \* findings emitted, findings gossiped
    announced,       \* events told to the direct peers
    told,            \* what this process has said last of a session or link
    banner,          \* what the banner file says
    completed,       \* the last cycle got as far as the banner
    changes, faults

world == <<status, optic, changes>>
collected == <<got, gotRx, gotStats>>
journal == <<events, fresh, findings>>
output == <<syslog, shared, announced, banner>>
vars == <<world, collected, journal, output, state, deferred, last, pc, todo, item, call,
          told, completed, faults>>

Nil == [got |-> [x \in Subject |-> Unknown], gotRx |-> [p \in Port |-> Unknown]]

Init ==
    /\ status = [x \in Subject |-> IF x \in Session THEN "Established" ELSE "up"]
    /\ optic = [p \in Port |-> "good"]
    /\ state = "full"
    /\ deferred = {}
    /\ got = Nil.got /\ gotRx = Nil.gotRx /\ gotStats = {}
    /\ last = [x \in Subject |-> Unknown]
    /\ pc = "idle"
    /\ todo = {}
    /\ item = NoItem /\ call = "done"
    /\ events = {} /\ fresh = {} /\ findings = {}
    /\ syslog = {} /\ shared = {} /\ announced = {}
    /\ told = [x \in Subject |-> Unknown]
    /\ banner = [shown |-> {}, total |-> 0, lines |-> 1]
    /\ completed = TRUE
    /\ changes = 0 /\ faults = 0

----------------------------------------------------------------------------
(* The switch.  It is not looked at after the collectors: a later change is *)
(* one before the next cycle. *)

SwitchChanges ==
    /\ changes < MaxChanges
    /\ pc \in {"idle", "port_stats", "interface_state", "bgp_state", "optic_health"}
    /\ changes' = changes + 1
    /\ \/ \E x \in Subject : \E v \in (States(x) \cup {Unknown}) \ {status[x]} :
              status' = [status EXCEPT ![x] = v] /\ UNCHANGED optic
       \/ \E p \in Port : \E v \in Rx \ {optic[p]} :
              optic' = [optic EXCEPT ![p] = v] /\ UNCHANGED status
    /\ UNCHANGED <<collected, journal, output, state, deferred, last, pc, todo, item, call,
                   told, completed, faults>>

----------------------------------------------------------------------------
(* The governor, and the collectors in their order. *)

BeginCycle ==
    /\ pc = "idle"
    /\ \E s \in Snapshot : state' = ComputeState(s)
    /\ pc' = IF ShouldCollect(state') THEN "port_stats" ELSE "idle"
    /\ UNCHANGED <<world, collected, journal, output, deferred, last, todo, item, call,
                   told, completed, faults>>

(* _safe_collect: a reading, or nothing when the collector raises *)
SafeCollect(reading, reading0, nothing, step) ==
    /\ \/ reading' = reading0 /\ UNCHANGED faults
       \/ reading' = nothing /\ faults < MaxFaults /\ faults' = faults + 1
    /\ pc' = step
    /\ UNCHANGED <<world, journal, output, state, deferred, last, item, call, told, completed>>

CollectPortStats ==
    /\ pc = "port_stats"
    /\ SafeCollect(gotStats, Port, {}, "interface_state")
    /\ UNCHANGED <<got, gotRx, todo>>

Reading(S) == [x \in Subject |-> IF x \in S THEN status[x] ELSE got[x]]

Nothing(S) == [x \in Subject |-> IF x \in S THEN Unknown ELSE got[x]]

CollectInterfaceState ==
    /\ pc = "interface_state"
    /\ SafeCollect(got, Reading(Port), Nothing(Port), "bgp_state")
    /\ UNCHANGED <<gotRx, gotStats, todo>>

CollectBgpState ==
    /\ pc = "bgp_state"
    /\ SafeCollect(got, Reading(Session), Nothing(Session), "optic_health")
    /\ UNCHANGED <<gotRx, gotStats, todo>>

CollectOpticHealth ==
    /\ pc = "optic_health"
    /\ SafeCollect(gotRx, optic, [p \in Port |-> Unknown], "neighbors")
    /\ UNCHANGED <<got, gotStats, todo>>

----------------------------------------------------------------------------
(* The loops: over the ports' counters, the sessions, the links, the optics, *)
(* then over the results of the two analyzers of LLDP data. *)

Detecting == {"anomaly", "bgp", "link", "optic"}

Analyses == {"correlation", "topology"}

Loops == Detecting \cup Analyses

Following(step) ==
    CASE step = "neighbors" -> "anomaly"   [] step = "anomaly" -> "bgp"
      [] step = "bgp" -> "link"            [] step = "link" -> "optic"
      [] step = "optic" -> "heartbeat"     [] step = "heartbeat" -> "correlation"
      [] step = "correlation" -> "topology" [] step = "topology" -> "banner"

SeverityOf(e) ==
    CASE e.kind = "anomaly" -> AnomalySeverity(e.new = "immediate")
      [] e.kind = "bgp_change" -> BgpSeverity(e.old, e.new)
      [] e.kind = "link_change" -> LinkSeverity(e.new)
      [] e.kind = "optic_degradation" -> OpticSeverity(e.new)
      [] e.kind = "correlation" -> CorrelationSeverity(e.new)
      [] e.kind = "topology_change" -> TopologySeverity(e.new)

AnomalyEvents(p) ==
    {Event("anomaly", p, "baseline", v) : v \in Verdict}

ChangeEvents(kind, x) ==
    IF last[x] \in {Unknown, got[x]} THEN {} ELSE {Event(kind, x, last[x], got[x])}

(* -7 dBm and more is good, less than -10 dBm is dark. *)
OpticEvents(p) ==
    IF gotRx[p] = "good"
    THEN {} ELSE {Event("optic_degradation", p, "good", gotRx[p])}

(* An event of a port, with its severity, may match a peer's. *)
Correlations(p) ==
    {Event("correlation", p, "local", SeverityOf(e)) : e \in {d \in events : d.subject = p}}

TopologyChanges(p) ==
    {Event("topology_change", p, "lldp", c) : c \in Change}

Detected(x) ==
    CASE pc = "anomaly" -> AnomalyEvents(x)
      [] pc = "bgp" -> ChangeEvents("bgp_change", x)
      [] pc = "link" -> ChangeEvents("link_change", x)
      [] pc = "optic" -> OpticEvents(x)
      [] pc = "correlation" -> Correlations(x)
      [] pc = "topology" -> TopologyChanges(x)
      [] OTHER -> {}

Keys(loop) ==
    CASE loop = "anomaly" -> gotStats
      [] loop = "bgp" -> {s \in Session : got[s] # Unknown}
      [] loop = "link" -> {p \in Port : got[p] # Unknown}
      [] loop = "optic" -> {p \in Port : gotRx[p] # Unknown}
      [] loop \in Analyses -> Port
      [] OTHER -> {}

(* fault: the new state is remembered before its finding is made *)
RecordEventRemembering(x) ==
    /\ pc \in Detecting
    /\ item = NoItem
    /\ x \in todo
    /\ \E e \in Detected(x) :
           item' = e /\ events' = events \cup {e} /\ fresh' = fresh \cup {e}
    /\ call' = "create"
    /\ last' = IF pc \in {"bgp", "link"} THEN [last EXCEPT ![x] = got[x]] ELSE last
    /\ UNCHANGED <<world, collected, findings, output, state, deferred, pc, todo,
                   told, completed, faults>>

(* The event is committed; its finding is the next call's. *)
RecordEvent(x) ==
    /\ pc \in Detecting
    /\ item = NoItem
    /\ x \in todo
    /\ \E e \in Detected(x) :
           item' = e /\ events' = events \cup {e} /\ fresh' = fresh \cup {e}
    /\ call' = "create"
    /\ UNCHANGED <<world, collected, findings, output, state, deferred, last, pc, todo,
                   told, completed, faults>>

(* A result of an analyzer is not recorded as an event.  It comes of a change too, *)
(* of a cable or at a peer. *)
TakeResult(x) ==
    /\ pc \in Analyses
    /\ changes < MaxChanges /\ changes' = changes + 1
    /\ item = NoItem
    /\ x \in todo
    /\ item' \in Detected(x)
    /\ call' = "create"
    /\ UNCHANGED <<status, optic, collected, journal, output, state, deferred, last, pc, todo,
                   told, completed, faults>>

(* What the loop does last with each key: only sessions and links are remembered. *)
Remember(x) ==
    /\ todo' = todo \ {x}
    /\ last' = IF pc \in {"bgp", "link"} THEN [last EXCEPT ![x] = got[x]] ELSE last

(* Nothing to report: no change, a first sight, counters in their baseline, no result. *)
PassOver(x) ==
    /\ item = NoItem
    /\ x \in todo
    /\ pc \in {"anomaly"} \cup Analyses \/ Detected(x) = {}
    /\ Remember(x)
    /\ told' = IF pc \in {"bgp", "link"} /\ last[x] = Unknown
               THEN [told EXCEPT ![x] = got[x]] ELSE told
    /\ UNCHANGED <<world, collected, journal, output, state, deferred, pc, item, call,
                   completed, faults>>

----------------------------------------------------------------------------
(* The handlers: what is called for an event or a result, in which order. *)

(* fault: the peers before the log *)
AfterPeersFirst(kind, c) ==
    CASE c = "create" -> "share_finding"
      [] c = "share_finding" -> "emit"
      [] c = "emit" /\ kind \in Recorded -> "share_event"
      [] OTHER -> "done"

(* A correlation is not told to the peers, a topology change only as a finding. *)
After(kind, c) ==
    CASE c = "create" -> "emit"
      [] c = "emit" /\ kind \in Recorded -> "share_event"
      [] c = "emit" /\ kind = "topology_change" -> "share_finding"
      [] c = "share_event" -> "share_finding"
      [] OTHER -> "done"

(* After the last call the new state is remembered, and the loop goes on. *)
Proceed ==
    /\ call' = After(item.kind, call)
    /\ IF call' = "done"
       THEN item' = NoItem /\ Remember(item.subject)
       ELSE UNCHANGED <<item, todo, last>>

Finding(e) == [event |-> e, severity |-> SeverityOf(e)]

Investigates(e) == e.kind = "anomaly" => CanInvestigate(state)

CreateFinding ==
    /\ call = "create"
    /\ Investigates(item)
    /\ findings' = findings \cup {Finding(item)}
    /\ told' = IF pc \in {"bgp", "link"} THEN [told EXCEPT ![item.subject] = item.new] ELSE told
    /\ Proceed
    /\ UNCHANGED <<world, collected, events, fresh, output, state, deferred, pc, completed, faults>>

Defer ==
    /\ call = "create"
    /\ ~Investigates(item)
    /\ deferred' = deferred \cup {item}
    /\ Remember(item.subject)
    /\ item' = NoItem /\ call' = "done"
    /\ UNCHANGED <<world, collected, journal, output, state, pc, told, completed, faults>>

EmitFinding ==
    /\ call = "emit"
    /\ syslog' = IF Emits(SeverityOf(item)) THEN syslog \cup {Finding(item)} ELSE syslog
    /\ Proceed
    /\ UNCHANGED <<world, collected, journal, shared, announced, banner, state, deferred, pc,
                   told, completed, faults>>

ShareEvent ==
    /\ call = "share_event"
    /\ announced' = IF state # "dormant" THEN announced \cup {item} ELSE announced
    /\ Proceed
    /\ UNCHANGED <<world, collected, journal, syslog, shared, banner, state, deferred, pc,
                   told, completed, faults>>

ShareFinding ==
    /\ call = "share_finding"
    /\ shared' = IF state # "dormant" /\ Gossips(SeverityOf(item))
                 THEN shared \cup {Finding(item)} ELSE shared
    /\ Proceed
    /\ UNCHANGED <<world, collected, journal, syslog, announced, banner, state, deferred, pc,
                   told, completed, faults>>

----------------------------------------------------------------------------
(* The steps between and after the loops. *)

(* Also the end of a loop.  Which ports an analyzer has results for, LinkTrack says. *)
NextStep ==
    /\ pc \in Loops \cup {"neighbors", "heartbeat"}
    /\ todo = {} /\ item = NoItem
    /\ pc' = Following(pc)
    /\ todo' = Keys(pc')
    /\ UNCHANGED <<world, collected, journal, output, state, deferred, last, item, call, told,
                   completed, faults>>

(* fault: ordered as text, "warning" is the worst *)
ByName(S) ==
    LET Of(severity) == SetToSeq({f \in S : f.severity = severity})
    IN  Of("warning") \o Of("info") \o Of("critical")

(* get_active: worst first, in some order among equals *)
WorstFirst(S) ==
    LET Of(severity) == SetToSeq({f \in S : f.severity = severity})
    IN  Of("critical") \o Of("warning") \o Of("info")

WriteBanner ==
    /\ pc = "banner"
    /\ LET active == WorstFirst(findings)
           heights == [i \in DOMAIN active |-> Height[active[i].event.kind]]
       IN  banner' = [shown |-> {active[i] : i \in 1 .. Shown(heights)},
                      total |-> Len(active), lines |-> Lines(heights)]
    /\ completed' = TRUE
    /\ pc' = "prune"
    /\ UNCHANGED <<world, collected, journal, syslog, shared, announced, state, deferred, last,
                   todo, item, call, told, faults>>

(* Old events go, at once or not at all; a finding only when it is resolved, *)
(* which the daemon never does. *)
Prune ==
    /\ pc = "prune"
    /\ events' \in {events, fresh} /\ fresh' = {}
    /\ pc' = "idle"
    /\ got' = Nil.got /\ gotRx' = Nil.gotRx /\ gotStats' = {}
    /\ UNCHANGED <<world, findings, output, state, deferred, last, todo, item, call,
                   told, completed, faults>>

(* No cycle is under way: the locals of _poll_cycle are gone. *)
CycleGone ==
    /\ pc' = "idle" /\ todo' = {} /\ item' = NoItem /\ call' = "done"
    /\ got' = Nil.got /\ gotRx' = Nil.gotRx /\ gotStats' = {}
    /\ fresh' = {}
    /\ faults < MaxFaults /\ faults' = faults + 1

(* An exception out of the journal, or of the banner's file, ends the cycle; *)
(* of a handler's calls only the first two write. *)
Abandon ==
    /\ \/ call = "create" /\ Investigates(item)
       \/ pc \in Detecting /\ item = NoItem /\ \E x \in todo : Detected(x) # {}
       \/ pc \in {"neighbors", "heartbeat", "banner", "prune"}
    /\ completed' = (pc = "prune")
    /\ CycleGone
    /\ UNCHANGED <<world, events, findings, output, state, deferred, last, told>>

(* The process is killed between two steps, and started again. *)
Crash ==
    /\ completed' = IF pc = "idle" THEN completed ELSE pc = "prune"
    /\ state' = "full"
    /\ last' = [x \in Subject |-> Unknown] /\ told' = [x \in Subject |-> Unknown]
    /\ CycleGone
    /\ UNCHANGED <<world, events, findings, output, deferred>>

PollStep ==
    \/ BeginCycle
    \/ CollectPortStats \/ CollectInterfaceState \/ CollectBgpState \/ CollectOpticHealth
    \/ \E x \in todo : RecordEvent(x) \/ TakeResult(x) \/ PassOver(x)
    \/ CreateFinding \/ Defer \/ EmitFinding \/ ShareEvent \/ ShareFinding
    \/ NextStep
    \/ WriteBanner \/ Prune
    \/ Abandon

Next == PollStep \/ SwitchChanges \/ Crash

Spec == Init /\ [][Next]_vars

(* The poll loop runs on; the switch need not change, nor anything fail. *)
FairSpec == Spec /\ WF_vars(PollStep)

----------------------------------------------------------------------------
(* Properties. *)

TypeOK ==
    /\ status \in [Subject -> SessionState \cup {"up", "down", Unknown}]
    /\ optic \in [Port -> Rx]
    /\ state \in GovernorState
    /\ got \in [Subject -> SessionState \cup {"up", "down", Unknown}]
    /\ gotRx \in [Port -> Rx \cup {Unknown}]
    /\ gotStats \subseteq Port
    /\ todo \subseteq Keys(pc)
    /\ item # NoItem => item.subject \in todo /\ item \in Detected(item.subject)
    /\ call \in {"create", "emit", "share_event", "share_finding", "done"}
    /\ item = NoItem <=> call = "done"
    /\ fresh \subseteq events
    /\ \A f \in findings : f.severity \in Severity /\ f.event.kind \in Kind
    /\ changes \in 0 .. MaxChanges /\ faults \in 0 .. MaxFaults

Unreported ==
    {e \in events \ (deferred \cup {item}) : \A f \in findings : f.event # e}

Serious(S) == {f \in S : f.severity # "info"}

Gossiped(S) == {f \in Serious(S) : f.event.kind # "correlation"}

ToldInFull(f) ==
    /\ f \in Serious(findings) => f \in syslog
    /\ f \in Gossiped(findings) => f \in shared
    /\ f.event.kind \in Recorded => f.event \in announced

(* but for the finding whose handler is between its calls *)
Untold == {f \in findings : (call = "create" \/ f.event # item) /\ ~ToldInFull(f)}

(* No change of a session or link is skipped: what the daemon compares the    *)
(* next reading with is what its newest finding says (or its first reading),  *)
(* but for the one being reported; and every event recorded has its finding   *)
(* or is counted as deferred, but for the one being reported and at most one  *)
(* for each failure: that between the event, the finding and the memory       *)
(* (main.py:252-282, 297-327, 340-368).                                       *)
NothingSkipped ==
    /\ \A x \in Subject : told[x] = last[x] \/ (item # NoItem /\ item.subject = x)
    /\ Cardinality(Unreported) <= faults

(* The handlers agree on who hears of what (main.py:197-208, 221-236, 262-280, *)
(* 311-327, 352-368, 400-413): the log says only what the table holds, peers   *)
(* are told only what the log says, and of correlations nothing.  And each     *)
(* handler comes to its end: a serious finding is in the log and with the      *)
(* peers, and any event with the direct peers, but for the one being reported  *)
(* and at most one for each failure (a crash); no restart makes that good.     *)
OutputsAgree ==
    /\ syslog \subseteq Serious(findings)
    /\ shared \subseteq Gossiped(syslog)
    /\ announced \subseteq {f.event : f \in findings}
    /\ Cardinality(Untold) <= faults

(* The banner keeps config.banner.max_lines. *)
BannerFits == banner.lines <= MaxLines

(* After a cycle that got as far as the banner, it counts every active        *)
(* finding, shows at least one if there is any, and shows none while it hides *)
(* a worse one.                                                               *)
BannerTellsWorst ==
    pc = "idle" /\ completed =>
        /\ banner.total = Cardinality(findings)
        /\ banner.shown = {} => findings = {}
        /\ \A f \in banner.shown, g \in findings \ banner.shown :
               Rank(f.severity) >= Rank(g.severity)

(* However cycles are abandoned, a change that lasts is reported in the end:  *)
(* what the daemon has said last of each session and link is what they are,   *)
(* unless the governor keeps the daemon dormant for ever.                     *)
ChangesReported ==
    []<>(state # "dormant")
        => <>[](\A x \in Subject : status[x] # Unknown => told[x] = status[x])
=============================================================================
