-------------------------- MODULE PollCycleProofs --------------------------
(***************************************************************************)
(* No change is skipped by the poll cycle, and the handlers agree on who   *)
(* hears of what, for any set of sessions and ports, any severity of       *)
(* pressure, and failures and crashes anywhere and as often as MaxFaults   *)
(* says.  The banner keeps its lines and shows the worst findings,         *)
(* whatever max_lines and the heights of the findings.                     *)
(***************************************************************************)
EXTENDS PollCycle, FiniteSetTheorems, TLAPS

(* What the memory, the events and the findings consist of. *)
Known ==
    /\ last \in [Subject -> Value] /\ told \in [Subject -> Value]
    /\ events \subseteq EventSet /\ \A e \in events : e.kind \in Recorded
    /\ \A f \in findings : f.event \in EventSet /\ f = Finding(f.event)
    /\ IsFiniteSet(events) /\ IsFiniteSet(findings)

(* A dormant daemon begins no cycle, and its governor is not asked again in one. *)
Awake == pc # "idle" => state # "dormant"

(* How far the handler is: what its calls so far have done. *)
HandlerAt(e) ==
    /\ SeverityOf(e) \in Severity
    /\ told[e.subject] = IF call # "create" /\ pc \in {"bgp", "link"}
                         THEN e.new ELSE last[e.subject]
    /\ call # "create" => Finding(e) \in findings
    /\ call \in {"share_event", "share_finding"} /\ Emits(SeverityOf(e)) => Finding(e) \in syslog
    /\ call = "share_event" => e.kind \in Recorded
    /\ call = "share_finding" => e.kind # "correlation"
    /\ call = "share_finding" /\ e.kind \in Recorded => e \in announced

Progress == item # NoItem => HandlerAt(item)

Inv == TypeOK /\ Known /\ Awake /\ Progress /\ NothingSkipped /\ OutputsAgree

record == <<told, last, events, findings, deferred, item, call, syslog, shared, announced>>

LEMMA InvInit == Init => Inv
  <1> SUFFICES ASSUME Init PROVE Inv
    OBVIOUS
  <1>1. TypeOK
    BY PollAssumption DEF Init, TypeOK, Keys, Analyses, GovernorState, Subject, Nil
  <1>2. Known /\ Awake /\ Progress
    BY FS_EmptySet DEF Init, Known, Value, Awake, Progress
  <1>3. Unreported = {} /\ Untold = {}
    BY DEF Init, Unreported, Untold
  <1>4. NothingSkipped /\ OutputsAgree
    BY <1>3, FS_EmptySet DEF Init, NothingSkipped, OutputsAgree, Serious, Gossiped
  <1> QED BY <1>1, <1>2, <1>4 DEF Inv

----------------------------------------------------------------------------
LEMMA KeysAreSubjects == TypeOK => Keys(pc) \subseteq Subject
  BY DEF TypeOK, Keys, Subject

LEMMA SeverityIsOne ==
  ASSUME NEW e \in EventSet, e.kind # "correlation" PROVE SeverityOf(e) \in Severity
  BY DEF EventSet, Kind, Recorded, SeverityOf, Severity, AnomalySeverity, BgpSeverity, LinkSeverity,
         OpticSeverity, TopologySeverity

(* What a loop finds: an event about the key it is at, of the loop's kind,  *)
(* whose new value is the one that will be remembered.                      *)
LEMMA DetectedEvent ==
  ASSUME TypeOK, Known, NEW x \in todo, NEW e \in Detected(x)
  PROVE  /\ e \in EventSet /\ e # NoItem
         /\ e.subject = x
         /\ pc \in Loops
         /\ e.kind = "anomaly" <=> pc = "anomaly"
         /\ pc \in Detecting => e.kind \in Recorded
         /\ pc \in {"bgp", "link"} => e.new = got[x]
         /\ SeverityOf(e) \in Severity
  <1>0. x \in Subject
    BY KeysAreSubjects DEF TypeOK
  <1>1. CASE pc = "anomaly"
    <2>1. PICK v \in Verdict : e = Event("anomaly", x, "baseline", v)
      BY <1>1 DEF Detected, AnomalyEvents
    <2>2. e \in EventSet /\ e.subject = x /\ e.kind = "anomaly"
      BY <2>1, <1>0 DEF Event, EventSet, Value, Kind, Recorded
    <2> QED BY <2>2, <1>1, ItemAssumption, SeverityIsOne DEF Loops, Detecting, Recorded
  <1>2. CASE pc \in {"bgp", "link"}
    <2>1. PICK kind \in {"bgp_change", "link_change"} : e = Event(kind, x, last[x], got[x])
      BY <1>2 DEF Detected, ChangeEvents
    <2>2. last[x] \in Value /\ got[x] \in Value
      BY <1>0 DEF Known, TypeOK, Value
    <2>3. e \in EventSet /\ e.subject = x /\ e.kind = kind /\ e.new = got[x]
      BY <2>1, <2>2, <1>0 DEF Event, EventSet, Kind, Recorded
    <2> QED BY <2>3, <1>2, ItemAssumption, SeverityIsOne DEF Loops, Detecting, Recorded
  <1>3. CASE pc = "optic"
    <2>1. x \in Port /\ e = Event("optic_degradation", x, "good", gotRx[x])
      BY <1>3 DEF TypeOK, Keys, Detected, OpticEvents
    <2>2. gotRx[x] \in Value /\ "good" \in Value
      BY <2>1, PollAssumption DEF TypeOK, Value
    <2>3. e \in EventSet /\ e.subject = x /\ e.kind = "optic_degradation"
      BY <2>1, <2>2, <1>0 DEF Event, EventSet, Kind, Recorded
    <2> QED BY <2>3, <1>3, ItemAssumption, SeverityIsOne DEF Loops, Detecting, Recorded
  <1>4. CASE pc = "correlation"
    <2>1. PICK d \in events : e = Event("correlation", x, "local", SeverityOf(d))
      BY <1>4 DEF Detected, Correlations
    <2>2. SeverityOf(d) \in Severity
      BY SeverityIsOne DEF Known, Recorded
    <2>3. /\ e \in EventSet /\ e.subject = x /\ e.kind = "correlation"
          /\ e.new = SeverityOf(d)
      BY <2>1, <2>2, <1>0 DEF Event, EventSet, Value, Kind
    <2>4. SeverityOf(e) = CorrelationSeverity(e.new)
      BY <2>3 DEF SeverityOf
    <2>5. SeverityOf(e) \in Severity
      BY <2>2, <2>3, <2>4 DEF CorrelationSeverity, Severity
    <2> QED BY <2>3, <2>5, <1>4, ItemAssumption DEF Loops, Analyses, Detecting
  <1>5. CASE pc = "topology"
    <2>1. PICK c \in Change : e = Event("topology_change", x, "lldp", c)
      BY <1>5 DEF Detected, TopologyChanges
    <2>2. e \in EventSet /\ e.subject = x /\ e.kind = "topology_change"
      BY <2>1, <1>0 DEF Event, EventSet, Value, Kind
    <2> QED BY <2>2, <1>5, ItemAssumption, SeverityIsOne DEF Loops, Analyses, Detecting
  <1> QED BY <1>1, <1>2, <1>3, <1>4, <1>5 DEF Detected

(* The item in hand is one the loop has found. *)
LEMMA ItemEvent ==
  ASSUME TypeOK, Known, call # "done"
  PROVE  /\ item \in EventSet /\ item # NoItem
         /\ item.subject \in todo /\ item.subject \in Subject
         /\ item \in Detected(item.subject)
         /\ pc \in Loops
         /\ item.kind = "anomaly" <=> pc = "anomaly"
         /\ pc \in Detecting => item.kind \in Recorded
         /\ pc \in {"bgp", "link"} => item.new = got[item.subject]
  <1>1. item # NoItem /\ item.subject \in todo /\ item \in Detected(item.subject)
    BY DEF TypeOK
  <1> QED BY <1>1, DetectedEvent, KeysAreSubjects DEF TypeOK

(* Syslog's threshold and the gossip's draw the same line. *)
LEMMA SeriousOnes ==
  ASSUME NEW s \in Severity
  PROVE  /\ Emits(s) <=> s # "info"
         /\ Gossips(s) <=> s # "info"
  BY DEF Severity, Emits, Gossips, Rank

----------------------------------------------------------------------------
(* What is unreported or untold is finite: a part of a table. *)
LEMMA CountedSets ==
  ASSUME Known
  PROVE  IsFiniteSet(Unreported) /\ IsFiniteSet(Untold)
  BY FS_Subset DEF Known, Unreported, Untold

(* A step that leaves out nothing more. *)
LEMMA CountsStay ==
  ASSUME Inv, Unreported' \subseteq Unreported, Untold' \subseteq Untold,
         faults' \in Nat, faults' >= faults
  PROVE  Cardinality(Unreported') <= faults' /\ Cardinality(Untold') <= faults'
  <1>1. IsFiniteSet(Unreported) /\ IsFiniteSet(Untold)
    BY CountedSets DEF Inv
  <1>2. /\ IsFiniteSet(Unreported') /\ Cardinality(Unreported') <= Cardinality(Unreported)
        /\ IsFiniteSet(Untold') /\ Cardinality(Untold') <= Cardinality(Untold)
    BY <1>1, FS_Subset
  <1>3. /\ Cardinality(Unreported) \in Nat /\ Cardinality(Unreported') \in Nat
        /\ Cardinality(Untold) \in Nat /\ Cardinality(Untold') \in Nat
    BY <1>1, <1>2, FS_CardinalityType
  <1>4. Cardinality(Unreported) <= faults /\ Cardinality(Untold) <= faults /\ faults \in Nat
    BY DEF Inv, NothingSkipped, OutputsAgree, TypeOK
  <1> QED BY <1>2, <1>3, <1>4

(* One element more, and one failure more. *)
LEMMA OneMore ==
  ASSUME NEW S, NEW T, NEW x, IsFiniteSet(S), T \subseteq S \cup {x}
  PROVE  IsFiniteSet(T) /\ Cardinality(T) <= Cardinality(S) + 1
  <1>1. /\ IsFiniteSet(S \cup {x})
        /\ Cardinality(S \cup {x}) = IF x \in S THEN Cardinality(S) ELSE Cardinality(S) + 1
    BY FS_AddElement
  <1>2. Cardinality(S) \in Nat /\ Cardinality(S \cup {x}) \in Nat
    BY <1>1, FS_CardinalityType
  <1>3. IsFiniteSet(T) /\ Cardinality(T) <= Cardinality(S \cup {x})
    BY <1>1, FS_Subset
  <1>4. Cardinality(T) \in Nat
    BY <1>3, FS_CardinalityType
  <1> QED BY <1>1, <1>2, <1>3, <1>4

LEMMA CountsGrow ==
  ASSUME Inv, NEW e, NEW f,
         Unreported' \subseteq Unreported \cup {e}, Untold' \subseteq Untold \cup {f},
         faults' = faults + 1
  PROVE  Cardinality(Unreported') <= faults' /\ Cardinality(Untold') <= faults'
  <1>1. IsFiniteSet(Unreported) /\ IsFiniteSet(Untold)
    BY CountedSets DEF Inv
  <1>2. /\ IsFiniteSet(Unreported') /\ Cardinality(Unreported') <= Cardinality(Unreported) + 1
        /\ IsFiniteSet(Untold') /\ Cardinality(Untold') <= Cardinality(Untold) + 1
    BY <1>1, OneMore
  <1>3. /\ Cardinality(Unreported) \in Nat /\ Cardinality(Unreported') \in Nat
        /\ Cardinality(Untold) \in Nat /\ Cardinality(Untold') \in Nat
    BY <1>1, <1>2, FS_CardinalityType
  <1>4. Cardinality(Unreported) <= faults /\ Cardinality(Untold) <= faults /\ faults \in Nat
    BY DEF Inv, NothingSkipped, OutputsAgree, TypeOK
  <1> QED BY <1>2, <1>3, <1>4

(* Steps that touch none of the record keep what is said of it. *)
LEMMA RecordUntouched ==
  ASSUME Inv, UNCHANGED record, item = NoItem \/ pc' = pc, faults' \in Nat, faults' >= faults
  PROVE  Known' /\ Progress' /\ NothingSkipped' /\ OutputsAgree'
  <1> USE DEF Inv
  <1>1. Known' /\ Progress'
    BY DEF record, Known, Progress, HandlerAt
  <1>2. Unreported' = Unreported /\ Untold' = Untold
    BY DEF record, Unreported, Untold, ToldInFull
  <1>3. Cardinality(Unreported') <= faults' /\ Cardinality(Untold') <= faults'
    BY <1>2, CountsStay
  <1> QED BY <1>1, <1>3 DEF record, NothingSkipped, OutputsAgree

(* Outside the loops nothing is ahead and nothing in hand. *)
LEMMA NothingInHand ==
  ASSUME TypeOK, pc \notin Loops
  PROVE  todo = {} /\ item = NoItem /\ call = "done"
  BY DEF TypeOK, Keys, Loops, Detecting, Analyses

LEMMA SwitchChangesKeepsInv == ASSUME Inv, SwitchChanges PROVE Inv'
  <1> USE DEF Inv
  <1>1. UNCHANGED <<record, pc, todo, got, gotRx, gotStats, fresh, state, faults>>
    BY DEF SwitchChanges, collected, journal, output, record
  <1>2. todo = {} /\ item = NoItem /\ call = "done"
    BY NothingInHand DEF SwitchChanges, Loops, Detecting, Analyses
  <1>3. /\ status' \in [Subject -> SessionState \cup {"up", "down", Unknown}]
        /\ optic' \in [Port -> Rx]
        /\ changes' \in 0 .. MaxChanges
    BY PollAssumption DEF TypeOK, SwitchChanges, States
  <1>4. TypeOK' /\ Awake'
    BY <1>1, <1>2, <1>3 DEF TypeOK, record, Awake
  <1>5. faults' \in Nat /\ faults' >= faults
    BY <1>1 DEF TypeOK
  <1> QED BY <1>1, <1>4, <1>5, RecordUntouched

LEMMA BeginCycleKeepsInv == ASSUME Inv, BeginCycle PROVE Inv'
  <1> USE DEF Inv
  <1>1. todo = {} /\ item = NoItem /\ call = "done"
    BY NothingInHand DEF BeginCycle, Loops, Detecting, Analyses
  <1>2. state' \in GovernorState /\ Awake'
    BY DEF BeginCycle, ComputeState, GovernorState, ShouldCollect, Awake
  <1>3. UNCHANGED <<record, faults>>
    BY DEF BeginCycle, journal, output, record
  <1>4. TypeOK'
    BY <1>1, <1>2 DEF TypeOK, BeginCycle, world, collected, journal
  <1>5. faults' \in Nat /\ faults' >= faults
    BY <1>3 DEF TypeOK
  <1> QED BY <1>1, <1>2, <1>3, <1>4, <1>5, RecordUntouched

(* Every collector answers what is there, or nothing. *)
LEMMA CollectKeepsInv ==
  ASSUME Inv,
         CollectPortStats \/ CollectInterfaceState \/ CollectBgpState \/ CollectOpticHealth
  PROVE  Inv'
  <1> USE DEF Inv
  <1>1. todo = {} /\ item = NoItem /\ call = "done" /\ pc # "idle"
    BY NothingInHand
    DEF CollectPortStats, CollectInterfaceState, CollectBgpState, CollectOpticHealth, Loops,
        Detecting, Analyses
  <1>2. /\ UNCHANGED <<world, journal, output, state, deferred, last, item, call, told, todo>>
        /\ pc' \in {"interface_state", "bgp_state", "optic_health", "neighbors"}
        /\ faults' \in 0 .. MaxFaults /\ faults' >= faults
    BY PollAssumption DEF CollectPortStats, CollectInterfaceState, CollectBgpState,
       CollectOpticHealth, SafeCollect, TypeOK
  <1>3. /\ got' \in [Subject -> SessionState \cup {"up", "down", Unknown}]
        /\ gotRx' \in [Port -> Rx \cup {Unknown}]
        /\ gotStats' \subseteq Port
    BY DEF CollectPortStats, CollectInterfaceState, CollectBgpState, CollectOpticHealth,
       SafeCollect, TypeOK, Reading, Nothing
  <1>4. TypeOK' /\ Awake'
    BY <1>1, <1>2, <1>3 DEF TypeOK, world, journal, Awake
  <1>5. UNCHANGED record /\ faults' \in Nat
    BY <1>2 DEF record, journal, output
  <1> QED BY <1>1, <1>2, <1>4, <1>5, RecordUntouched

(* The event is recorded, and is the item in hand from then on. *)
LEMMA RecordEventKeepsInv ==
  ASSUME Inv, NEW x \in todo, RecordEvent(x) PROVE Inv'
  <1> USE DEF Inv
  <1>1. PICK e \in Detected(x) :
            item' = e /\ events' = events \cup {e} /\ fresh' = fresh \cup {e}
    BY DEF RecordEvent
  <1>2. /\ e \in EventSet /\ e # NoItem /\ e.subject = x
        /\ e.kind \in Recorded /\ SeverityOf(e) \in Severity
        /\ x \in Subject /\ pc \in Detecting
        /\ item = NoItem /\ call = "done" /\ call' = "create"
    BY DetectedEvent, KeysAreSubjects DEF RecordEvent, TypeOK
  <1>3. UNCHANGED <<world, collected, findings, output, state, deferred, last, pc, todo,
                    told, completed, faults>>
    BY DEF RecordEvent
  <1>4. Keys(pc)' = Keys(pc)
    BY <1>3 DEF Keys, collected
  <1>5. Detected(x)' = Detected(x)
    BY <1>2, <1>3 DEF Detected, Detecting, AnomalyEvents, ChangeEvents, OpticEvents, collected
  <1>6. TypeOK' /\ Awake'
    BY <1>1, <1>2, <1>3, <1>4, <1>5 DEF TypeOK, world, collected, Awake
  <1>7. Known'
    <2>1. IsFiniteSet(events')
      BY <1>1, FS_AddElement DEF Known
    <2> QED BY <2>1, <1>1, <1>2, <1>3 DEF Known
  <1>8. Progress'
    <2>1. told[x] = last[x]
      BY <1>2 DEF NothingSkipped
    <2> QED BY <2>1, <1>1, <1>2, <1>3 DEF Progress, HandlerAt
  <1>9. Unreported' \subseteq Unreported /\ Untold' \subseteq Untold
    <2>1. ASSUME NEW d \in Unreported' PROVE d \in Unreported
      <3>1. d \in events /\ d # NoItem
        BY <2>1, <1>1, ItemAssumption DEF Unreported, Known
      <3> QED BY <3>1, <2>1, <1>2, <1>3 DEF Unreported
    <2>2. \A f \in findings : ToldInFull(f)' = ToldInFull(f)
      BY <1>3 DEF ToldInFull, output
    <2>3. \A f \in findings : f.event # NoItem
      BY ItemAssumption DEF Known
    <2> QED BY <2>1, <2>2, <2>3, <1>2, <1>3 DEF Untold
  <1>10. faults' \in Nat /\ faults' >= faults
    BY <1>3 DEF TypeOK
  <1>11. Cardinality(Unreported') <= faults' /\ Cardinality(Untold') <= faults'
    BY <1>9, <1>10, CountsStay
  <1>12. NothingSkipped' /\ OutputsAgree'
    BY <1>2, <1>3, <1>11 DEF NothingSkipped, OutputsAgree, output
  <1> QED BY <1>6, <1>7, <1>8, <1>12

(* A result of an analyzer is taken up as an event is, but not recorded. *)
LEMMA TakeResultKeepsInv ==
  ASSUME Inv, NEW x \in todo, TakeResult(x) PROVE Inv'
  <1> USE DEF Inv
  <1> DEFINE e == item'
  <1>1. e \in Detected(x)
    BY DEF TakeResult
  <1>2. /\ e \in EventSet /\ e # NoItem /\ e.subject = x /\ SeverityOf(e) \in Severity
        /\ x \in Subject /\ pc \in Analyses
        /\ item = NoItem /\ call = "done" /\ call' = "create"
        /\ changes' \in 0 .. MaxChanges
    BY <1>1, DetectedEvent, KeysAreSubjects, PollAssumption DEF TakeResult, TypeOK
  <1>3. UNCHANGED <<status, optic, collected, journal, output, state, deferred, last, pc, todo,
                    told, completed, faults>>
    BY DEF TakeResult
  <1> HIDE DEF e
  <1>4. Keys(pc)' = Keys(pc)
    BY <1>3 DEF Keys, collected
  <1>5. Detected(x)' = Detected(x)
    BY <1>2, <1>3 DEF Detected, Analyses, Correlations, TopologyChanges, journal
  <1>6. TypeOK' /\ Awake'
    BY <1>1, <1>2, <1>3, <1>4, <1>5 DEF e, TypeOK, collected, journal, Awake
  <1>7. Known'
    BY <1>3 DEF Known, journal
  <1>8. Progress'
    <2>1. told[x] = last[x]
      BY <1>2 DEF NothingSkipped
    <2> QED BY <2>1, <1>2, <1>3 DEF e, Progress, HandlerAt, Analyses
  <1>9. Unreported' \subseteq Unreported /\ Untold' \subseteq Untold
    <2>1. NoItem \notin events
      BY ItemAssumption DEF Known
    <2>2. \A f \in findings : ToldInFull(f)' = ToldInFull(f)
      BY <1>3 DEF ToldInFull, output, journal
    <2>3. Unreported' \subseteq Unreported
      BY <2>1, <1>2, <1>3 DEF Unreported, journal
    <2>4. \A f \in findings : f.event # NoItem
      BY ItemAssumption DEF Known
    <2> QED BY <2>2, <2>3, <2>4, <1>2, <1>3 DEF Untold, journal
  <1>10. faults' \in Nat /\ faults' >= faults
    BY <1>3 DEF TypeOK
  <1>11. Cardinality(Unreported') <= faults' /\ Cardinality(Untold') <= faults'
    BY <1>9, <1>10, CountsStay
  <1>12. NothingSkipped' /\ OutputsAgree'
    BY <1>2, <1>3, <1>11 DEF NothingSkipped, OutputsAgree, output, journal
  <1> QED BY <1>6, <1>7, <1>8, <1>12

(* Without an event, the new state is remembered only where it is the one   *)
(* last told, or the first.                                                 *)
LEMMA PassOverKeepsInv ==
  ASSUME Inv, NEW x \in todo, PassOver(x) PROVE Inv'
  <1> USE DEF Inv
  <1>1. x \in Subject
    BY KeysAreSubjects DEF TypeOK
  <1>2. /\ UNCHANGED <<world, collected, journal, output, state, deferred, pc, item, call,
                       completed, faults>>
        /\ item = NoItem
        /\ todo' = todo \ {x}
    BY DEF PassOver, Remember
  <1>3. last' \in [Subject -> Value] /\ told' \in [Subject -> Value]
    BY <1>1 DEF PassOver, Remember, Known, TypeOK, Value
  <1>4. \A y \in Subject : told'[y] = last'[y]
    <2>1. \A y \in Subject : told[y] = last[y]
      BY <1>2 DEF NothingSkipped
    <2>2. CASE pc \in {"bgp", "link"}
      <3>1. last' = [last EXCEPT ![x] = got[x]]
        BY <2>2 DEF PassOver, Remember
      <3>2. CASE last[x] = Unknown
        BY <3>1, <3>2, <2>1, <2>2, <1>1 DEF PassOver, Known
      <3>3. CASE last[x] # Unknown
        <4>1. Detected(x) = {} /\ told' = told
          BY <2>2, <3>3 DEF PassOver, Analyses
        <4>2. last[x] = got[x]
          BY <4>1, <3>3, <2>2 DEF Detected, ChangeEvents
        <4> QED BY <4>1, <4>2, <3>1, <2>1, <1>1 DEF Known
      <3> QED BY <3>2, <3>3
    <2>3. CASE pc \notin {"bgp", "link"}
      BY <2>1, <2>3 DEF PassOver, Remember
    <2> QED BY <2>2, <2>3
  <1>5. TypeOK' /\ Awake'
    <2>1. Keys(pc)' = Keys(pc)
      BY <1>2 DEF Keys, collected
    <2> QED BY <2>1, <1>2 DEF TypeOK, world, collected, journal, Awake
  <1>6. Known' /\ Progress'
    BY <1>2, <1>3 DEF Known, Progress, journal, output
  <1>7. Unreported' = Unreported /\ Untold' = Untold
    BY <1>2 DEF Unreported, Untold, ToldInFull, journal, output
  <1>8. faults' \in Nat /\ faults' >= faults
    BY <1>2 DEF TypeOK
  <1>9. Cardinality(Unreported') <= faults' /\ Cardinality(Untold') <= faults'
    BY <1>7, <1>8, CountsStay
  <1>10. NothingSkipped' /\ OutputsAgree'
    BY <1>2, <1>4, <1>9 DEF NothingSkipped, OutputsAgree, journal, output
  <1> QED BY <1>5, <1>6, <1>10

----------------------------------------------------------------------------
(* The handlers. *)

(* A call in a handler leaves the loop where it is, unless it is the last. *)
LEMMA CallKeepsTypes ==
  ASSUME Inv, call # "done", Proceed,
         UNCHANGED <<world, collected, events, fresh, state, pc, faults>>,
         findings' \subseteq findings \cup {Finding(item)}
  PROVE  /\ TypeOK' /\ Awake'
         /\ last' \in [Subject -> Value]
         /\ call' # "create"
         /\ IF call' = "done" THEN item' = NoItem ELSE item' = item /\ last' = last
  <1> USE DEF Inv
  <1>1. /\ item # NoItem /\ item \in EventSet /\ item.subject \in Subject
        /\ item.subject \in todo /\ item \in Detected(item.subject)
        /\ SeverityOf(item) \in Severity
    BY ItemEvent DEF Progress, HandlerAt
  <1>2. call' \in {"emit", "share_event", "share_finding", "done"}
    BY DEF Proceed, After
  <1>3. IF call' = "done" THEN item' = NoItem /\ todo' = todo \ {item.subject}
                          ELSE item' = item /\ todo' = todo /\ last' = last
    BY DEF Proceed, Remember
  <1>4. last' \in [Subject -> Value]
    BY <1>1 DEF Proceed, Remember, Known, TypeOK, Value
  <1>5. Keys(pc)' = Keys(pc)
    BY DEF Keys, collected
  <1>6. call' # "done" => Detected(item.subject)' = Detected(item.subject)
    BY <1>3 DEF Detected, AnomalyEvents, ChangeEvents, OpticEvents, Correlations,
                TopologyChanges, collected
  <1>7. \A f \in findings' : f.severity \in Severity /\ f.event.kind \in Kind
    BY <1>1 DEF TypeOK, Finding, EventSet
  <1>8. TypeOK' /\ Awake'
    BY <1>1, <1>2, <1>3, <1>5, <1>6, <1>7 DEF TypeOK, Awake, world, collected
  <1> QED BY <1>2, <1>3, <1>4, <1>8

(* What is told last is remembered when the handler is done. *)
LEMMA CallKeepsTold ==
  ASSUME Inv, call # "done", Proceed, pc' = pc,
         \A y \in Subject :
             told'[y] = IF y = item.subject /\ pc \in {"bgp", "link"} THEN item.new ELSE
                        IF y = item.subject THEN last[y] ELSE told[y]
  PROVE  \A y \in Subject : told'[y] = last'[y] \/ (item' # NoItem /\ item'.subject = y)
  <1> USE DEF Inv
  <1>1. /\ item # NoItem /\ item.subject \in Subject
        /\ pc \in {"bgp", "link"} => item.new = got[item.subject]
    BY ItemEvent
  <1>2. ASSUME NEW y \in Subject, y # item.subject PROVE told'[y] = last'[y]
    <2>1. told[y] = last[y]
      BY <1>2 DEF NothingSkipped
    <2>2. last'[y] = last[y]
      BY <1>1, <1>2 DEF Proceed, Remember, Known
    <2> QED BY <2>1, <2>2, <1>2
  <1>3. CASE call' = "done"
    <2>1. told'[item.subject] = last'[item.subject]
      BY <1>1, <1>3 DEF Proceed, Remember, Known
    <2> QED BY <2>1, <1>2
  <1>4. CASE call' # "done"
    BY <1>1, <1>2, <1>4 DEF Proceed
  <1> QED BY <1>3, <1>4

(* Nothing more is unreported or untold, if the last call leaves its        *)
(* finding told in full.                                                    *)
LEMMA CallKeepsCounts ==
  ASSUME Inv, call # "done", Proceed, UNCHANGED <<events, deferred, faults>>,
         NEW g, g = Finding(item),
         findings' = findings \cup {g},
         syslog \subseteq syslog', shared \subseteq shared', announced \subseteq announced',
         call' = "done" => ToldInFull(g)'
  PROVE  Cardinality(Unreported') <= faults' /\ Cardinality(Untold') <= faults'
  <1> USE DEF Inv
  <1>1. item # NoItem /\ g.event = item
    BY ItemEvent DEF Finding
  <1>2. call' # "create" /\ (item' = item \/ (item' = NoItem /\ call' = "done"))
    BY DEF Proceed, After
  <1>3. Unreported' \subseteq Unreported
    BY <1>1, <1>2 DEF Unreported
  <1>4. ASSUME NEW f \in Untold' PROVE f \in Untold
    <2>1. f \in findings' /\ f.event # item' /\ ~ToldInFull(f)'
      BY <1>2, <1>4 DEF Untold
    <2>2. f.event # item
      <3>1. CASE call' = "done"
        <4>1. f # g
          BY <3>1, <2>1
        <4>2. f \in findings
          BY <4>1, <2>1
        <4> QED BY <4>1, <4>2 DEF Known
      <3>2. CASE call' # "done"
        BY <3>2, <2>1, <1>2
      <3> QED BY <3>1, <3>2
    <2>3. f \in findings
      BY <2>1, <2>2, <1>1
    <2>4. ~ToldInFull(f)
      BY <2>1, <2>3 DEF ToldInFull, Serious, Gossiped
    <2> QED BY <2>2, <2>3, <2>4 DEF Untold
  <1>5. faults' \in Nat /\ faults' >= faults
    BY DEF TypeOK
  <1> QED BY <1>3, <1>4, <1>5, CountsStay

(* The finding is in the table, and told is what it says. *)
LEMMA CreateFindingKeepsInv == ASSUME Inv, CreateFinding PROVE Inv'
  <1> USE DEF Inv
  <1> DEFINE x == item.subject
  <1>1. /\ item \in EventSet /\ item # NoItem /\ x \in Subject
        /\ pc \in {"bgp", "link"} => item.new = got[x]
        /\ SeverityOf(item) \in Severity
        /\ told[x] = last[x]
        /\ call = "create" /\ Proceed
    BY ItemEvent DEF CreateFinding, Progress, HandlerAt
  <1>2. /\ findings' = findings \cup {Finding(item)}
        /\ told' = IF pc \in {"bgp", "link"} THEN [told EXCEPT ![x] = item.new] ELSE told
        /\ UNCHANGED <<world, collected, events, fresh, output, state, deferred, pc, completed,
                       faults>>
    BY DEF CreateFinding
  <1>3. call' = "emit" /\ item' = item /\ last' = last
    BY <1>1 DEF Proceed, After
  <1>4. TypeOK' /\ Awake' /\ last' \in [Subject -> Value]
    BY <1>1, <1>2, CallKeepsTypes
  <1>5. told' \in [Subject -> Value]
    BY <1>1, <1>2 DEF Known, EventSet
  <1>6. Known'
    <2>1. IsFiniteSet(findings')
      BY <1>2, FS_AddElement DEF Known
    <2>2. Finding(item) = Finding(Finding(item).event) /\ Finding(item).event = item
      BY DEF Finding
    <2> QED BY <2>1, <2>2, <1>1, <1>2, <1>4, <1>5 DEF Known
  <1>7. \A y \in Subject :
            told'[y] = IF y = x /\ pc \in {"bgp", "link"} THEN item.new ELSE
                       IF y = x THEN last[y] ELSE told[y]
    BY <1>1, <1>2 DEF Known
  <1>8. Progress'
    BY <1>1, <1>2, <1>3, <1>7 DEF Progress, HandlerAt
  <1>9. Cardinality(Unreported') <= faults' /\ Cardinality(Untold') <= faults'
    <2>1. PICK g : g = Finding(item)
      OBVIOUS
    <2> QED BY <2>1, <1>1, <1>2, <1>3, CallKeepsCounts DEF output
  <1>10. NothingSkipped'
    <2>1. \A y \in Subject : told'[y] = last'[y] \/ (item' # NoItem /\ item'.subject = y)
      BY <1>1, <1>2, <1>7, CallKeepsTold
    <2> QED BY <2>1, <1>9 DEF NothingSkipped
  <1>11. OutputsAgree'
    BY <1>9, <1>2 DEF OutputsAgree, Serious, Gossiped, output
  <1> QED BY <1>4, <1>6, <1>8, <1>10, <1>11

(* The calls that tell the finding or its event.                            *)
LEMMA TellingKeepsInv ==
  ASSUME Inv, call \in {"emit", "share_event", "share_finding"}, Proceed,
         UNCHANGED <<world, collected, journal, banner, state, deferred, pc, told, faults>>,
         syslog' = IF call = "emit" /\ Emits(SeverityOf(item))
                   THEN syslog \cup {Finding(item)} ELSE syslog,
         announced' = IF call = "share_event" THEN announced \cup {item} ELSE announced,
         shared' = IF call = "share_finding" /\ Gossips(SeverityOf(item))
                   THEN shared \cup {Finding(item)} ELSE shared
  PROVE  Inv'
  <1> USE DEF Inv
  <1>0. PICK f : f = Finding(item)
    OBVIOUS
  <1> DEFINE serious == SeverityOf(item) # "info"
  <1>1. /\ item \in EventSet /\ item # NoItem /\ item.subject \in Subject
        /\ HandlerAt(item)
    BY ItemEvent DEF Progress
  <1>2. /\ f.event = item /\ f.severity = SeverityOf(item)
        /\ f \in findings /\ findings' = findings
        /\ Emits(SeverityOf(item)) <=> serious
        /\ Gossips(SeverityOf(item)) <=> serious
        /\ item.kind \in Kind
    BY <1>0, <1>1, SeriousOnes DEF HandlerAt, Finding, journal, EventSet
  <1> HIDE DEF serious
  <1>3. /\ TypeOK' /\ Awake' /\ last' \in [Subject -> Value] /\ call' # "create"
        /\ IF call' = "done" THEN item' = NoItem ELSE item' = item /\ last' = last
    BY CallKeepsTypes DEF journal
  <1>4. Known'
    BY <1>3 DEF Known, journal
  <1>5. call' = After(item.kind, call)
    BY DEF Proceed
  <1>6. /\ serious /\ call' \in {"share_event", "share_finding"} => f \in syslog'
        /\ serious /\ call' = "done" => f \in syslog'
        /\ call' = "share_event" => item.kind \in Recorded
        /\ call' = "share_finding" => item.kind # "correlation"
        /\ call' \in {"share_finding", "done"} /\ item.kind \in Recorded => item \in announced'
        /\ call' = "done" /\ item.kind # "correlation" /\ serious => f \in shared'
    <2>1. CASE call = "emit"
      <3>1. serious => f \in syslog'
        BY <2>1, <1>0, <1>2
      <3>2. /\ call' = "share_event" => item.kind \in Recorded
            /\ call' = "share_finding" => item.kind = "topology_change"
            /\ call' = "done" => item.kind = "correlation"
        BY <2>1, <1>2, <1>5 DEF After, Kind, Recorded
      <3> QED BY <3>1, <3>2 DEF Recorded
    <2>2. CASE call = "share_event"
      <3>1. call' = "share_finding" /\ item.kind \in Recorded /\ item \in announced'
        BY <2>2, <1>1, <1>5 DEF After, HandlerAt
      <3>2. serious => f \in syslog'
        BY <2>2, <1>0, <1>1, <1>2 DEF HandlerAt
      <3> QED BY <3>1, <3>2 DEF Recorded
    <2>3. CASE call = "share_finding"
      <3>1. call' = "done"
        BY <2>3, <1>5 DEF After
      <3>2. /\ serious => f \in syslog' /\ f \in shared'
            /\ item.kind \in Recorded => item \in announced'
        BY <2>3, <1>0, <1>1, <1>2 DEF HandlerAt
      <3> QED BY <3>1, <3>2
    <2> QED BY <2>1, <2>2, <2>3
  <1>7. Progress'
    <2>1. SUFFICES ASSUME item' # NoItem PROVE HandlerAt(item)'
      BY DEF Progress
    <2>2. item' = item /\ last' = last /\ call' # "done" /\ call' # "create"
      BY <2>1, <1>3
    <2> QED BY <2>2, <1>0, <1>1, <1>2, <1>6 DEF HandlerAt
  <1>8. ToldInFull(f)' \/ call' # "done"
    <2>1. SUFFICES ASSUME call' = "done" PROVE ToldInFull(f)'
      OBVIOUS
    <2>2. f \in Serious(findings)' => serious
      BY <1>2 DEF Serious, serious
    <2>3. f \in Gossiped(findings)' => serious /\ item.kind # "correlation"
      BY <1>2 DEF Gossiped, Serious, serious
    <2>4. f.event.kind \in Recorded => f.event \in announced'
      BY <2>1, <1>2, <1>6
    <2> QED BY <2>1, <2>2, <2>3, <2>4, <1>6 DEF ToldInFull
  <1>9. Cardinality(Unreported') <= faults' /\ Cardinality(Untold') <= faults'
    <2>1. /\ findings' = findings \cup {f}
          /\ syslog \subseteq syslog' /\ shared \subseteq shared' /\ announced \subseteq announced'
          /\ UNCHANGED <<events, deferred, faults>>
      BY <1>2 DEF journal
    <2> QED BY <2>1, <1>0, <1>8, CallKeepsCounts
  <1>10. NothingSkipped'
    <2>1. \A y \in Subject :
              told'[y] = IF y = item.subject /\ pc \in {"bgp", "link"} THEN item.new ELSE
                         IF y = item.subject THEN last[y] ELSE told[y]
      BY <1>1 DEF HandlerAt
    <2>2. \A y \in Subject : told'[y] = last'[y] \/ (item' # NoItem /\ item'.subject = y)
      BY <2>1, CallKeepsTold
    <2> QED BY <2>2, <1>9 DEF NothingSkipped
  <1>11. OutputsAgree'
    <2>1. syslog' \subseteq Serious(findings')
      BY <1>0, <1>2 DEF serious, OutputsAgree, Serious
    <2>2. shared' \subseteq Gossiped(syslog')
      <3>1. call = "share_finding" /\ serious => f \in Gossiped(syslog')
        <4> SUFFICES ASSUME call = "share_finding", serious PROVE f \in Gossiped(syslog')
          OBVIOUS
        <4>1. f \in syslog' /\ item.kind # "correlation"
          BY <1>0, <1>1, <1>2 DEF HandlerAt
        <4> QED BY <4>1, <1>2 DEF Gossiped, Serious, serious
      <3>2. syslog \subseteq syslog'
        OBVIOUS
      <3> QED BY <3>1, <3>2, <1>0, <1>2 DEF OutputsAgree, Gossiped, Serious
    <2>3. announced' \subseteq {g.event : g \in findings'}
      BY <1>2 DEF OutputsAgree
    <2> QED BY <2>1, <2>2, <2>3, <1>9 DEF OutputsAgree
  <1> QED BY <1>3, <1>4, <1>7, <1>10, <1>11

LEMMA TellKeepsInv ==
  ASSUME Inv, EmitFinding \/ ShareEvent \/ ShareFinding PROVE Inv'
  <1>1. state # "dormant" \/ call = "emit"
    <2>1. call # "done" => pc \in Loops
      BY ItemEvent DEF Inv
    <2> QED BY <2>1 DEF Inv, Awake, Loops, Detecting, Analyses, EmitFinding, ShareEvent,
                        ShareFinding
  <1>2. CASE EmitFinding
    BY <1>2, TellingKeepsInv DEF EmitFinding
  <1>3. CASE ShareEvent
    BY <1>1, <1>3, TellingKeepsInv DEF ShareEvent
  <1>4. CASE ShareFinding
    BY <1>1, <1>4, TellingKeepsInv DEF ShareFinding
  <1> QED BY <1>2, <1>3, <1>4

(* Only anomalies are deferred, and of them nothing is remembered. *)
LEMMA DeferKeepsInv == ASSUME Inv, Defer PROVE Inv'
  <1> USE DEF Inv
  <1>1. /\ pc = "anomaly" /\ item # NoItem /\ item.subject \in Subject
        /\ told[item.subject] = last[item.subject]
    BY ItemEvent DEF Defer, Investigates, Progress, HandlerAt
  <1>2. /\ deferred' = deferred \cup {item} /\ item' = NoItem
        /\ call = "create" /\ call' = "done"
        /\ todo' = todo \ {item.subject} /\ last' = last
        /\ UNCHANGED <<world, collected, journal, output, state, pc, told, faults>>
    BY <1>1 DEF Defer, Remember
  <1>3. TypeOK' /\ Awake' /\ Progress'
    <2>1. Keys(pc)' = Keys(pc)
      BY <1>2 DEF Keys, collected
    <2> QED BY <2>1, <1>2 DEF TypeOK, world, collected, journal, Awake, Progress
  <1>4. Known'
    BY <1>2 DEF Known, journal
  <1>5. Unreported' \subseteq Unreported /\ Untold' \subseteq Untold
    BY <1>2 DEF Unreported, Untold, ToldInFull, journal, output
  <1>6. Cardinality(Unreported') <= faults' /\ Cardinality(Untold') <= faults'
    BY <1>2, <1>5, CountsStay DEF TypeOK
  <1>7. NothingSkipped' /\ OutputsAgree'
    BY <1>1, <1>2, <1>6 DEF NothingSkipped, OutputsAgree, journal, output
  <1> QED BY <1>3, <1>4, <1>7

----------------------------------------------------------------------------
(* The steps that end a loop, write the banner or prune take no item along. *)
LEMMA OtherStepsKeepInv ==
  ASSUME Inv, NextStep \/ WriteBanner \/ Prune PROVE Inv'
  <1> USE DEF Inv
  <1>1. todo = {} /\ item = NoItem /\ call = "done" /\ pc # "idle"
    BY NothingInHand DEF NextStep, WriteBanner, Prune, Loops, Detecting, Analyses, TypeOK
  <1>2. faults' = faults /\ faults' \in Nat /\ faults' >= faults
    BY DEF NextStep, WriteBanner, Prune, TypeOK
  <1>3. CASE NextStep
    <2>1. UNCHANGED record
      BY <1>3 DEF NextStep, record, journal, output
    <2>2. todo' = Keys(pc') /\ Keys(pc)' = Keys(pc')
      BY <1>3 DEF NextStep, Keys, collected
    <2>3. TypeOK' /\ Awake'
      BY <1>1, <1>3, <2>2 DEF TypeOK, NextStep, world, collected, journal, Awake
    <2> QED BY <1>1, <1>2, <2>1, <2>3, RecordUntouched
  <1>4. CASE WriteBanner
    <2>1. UNCHANGED record
      BY <1>4 DEF WriteBanner, record, journal
    <2>2. TypeOK' /\ Awake'
      BY <1>1, <1>4 DEF TypeOK, WriteBanner, world, collected, journal, Awake
    <2> QED BY <1>1, <1>2, <2>1, <2>2, RecordUntouched
  <1>5. CASE Prune
    <2>1. /\ events' \subseteq events /\ fresh' = {} /\ todo' = {} /\ item' = NoItem
          /\ UNCHANGED <<world, findings, output, state, deferred, last, call, told>>
          /\ pc' = "idle"
      BY <1>1, <1>5 DEF Prune, TypeOK
    <2>2. /\ got' \in [Subject -> SessionState \cup {"up", "down", Unknown}]
          /\ gotRx' \in [Port -> Rx \cup {Unknown}]
          /\ gotStats' \subseteq Port
      BY <1>5 DEF Prune, Nil
    <2>3. TypeOK' /\ Awake' /\ Progress'
      BY <1>1, <1>2, <2>1, <2>2 DEF TypeOK, world, Awake, Progress
    <2>4. Known'
      BY <2>1, FS_Subset DEF Known
    <2>5. Unreported' \subseteq Unreported /\ Untold' \subseteq Untold
      BY <1>1, <2>1 DEF Unreported, Untold, ToldInFull, output
    <2>6. Cardinality(Unreported') <= faults' /\ Cardinality(Untold') <= faults'
      BY <1>2, <2>5, CountsStay
    <2>7. NothingSkipped' /\ OutputsAgree'
      BY <1>1, <2>1, <2>6 DEF NothingSkipped, OutputsAgree, output
    <2> QED BY <2>3, <2>4, <2>7
  <1> QED BY <1>3, <1>4, <1>5

(* What both an exception and a crash leave. *)
LEMMA CycleGoneKeepsTypes ==
  ASSUME Inv, CycleGone, UNCHANGED <<world, events, findings>>, state' \in GovernorState
  PROVE  TypeOK' /\ Awake' /\ Progress' /\ faults' = faults + 1
  <1>1. /\ got' \in [Subject -> SessionState \cup {"up", "down", Unknown}]
        /\ gotRx' \in [Port -> Rx \cup {Unknown}]
        /\ gotStats' \subseteq Port
        /\ faults' \in 0 .. MaxFaults /\ faults' = faults + 1
    BY PollAssumption DEF Inv, CycleGone, TypeOK, Nil
  <1> QED BY <1>1 DEF Inv, CycleGone, TypeOK, world, Awake, Progress

(* An exception comes before the finding is made and the memory touched, so *)
(* the change is found again; the item in hand is the one unreported.       *)
LEMMA AbandonKeepsInv == ASSUME Inv, Abandon PROVE Inv'
  <1> USE DEF Inv
  <1>1. /\ CycleGone /\ call' = "done" /\ item' = NoItem
        /\ UNCHANGED <<world, events, findings, output, state, deferred, last, told>>
        /\ call \in {"create", "done"}
    <2>1. pc \in {"neighbors", "heartbeat", "banner", "prune"} => call = "done"
      BY NothingInHand DEF Loops, Detecting, Analyses
    <2> QED BY <2>1 DEF Abandon, CycleGone, TypeOK
  <1>2. TypeOK' /\ Awake' /\ Progress' /\ faults' = faults + 1
    BY <1>1, CycleGoneKeepsTypes DEF TypeOK
  <1>3. Known'
    BY <1>1 DEF Known
  <1>4. Unreported' \subseteq Unreported \cup {item} /\ Untold' \subseteq Untold \cup {item}
    <2>1. Unreported' \subseteq Unreported \cup {item}
      BY <1>1 DEF Unreported
    <2>2. item = NoItem => \A f \in findings : f.event # item
      BY ItemAssumption DEF Known
    <2>3. Untold' \subseteq Untold
      <3>1. \A f \in findings : ToldInFull(f)' = ToldInFull(f)
        BY <1>1 DEF ToldInFull, output
      <3> QED BY <3>1, <2>2, <1>1 DEF Untold, TypeOK
    <2> QED BY <2>1, <2>3
  <1>5. Cardinality(Unreported') <= faults' /\ Cardinality(Untold') <= faults'
    BY <1>2, <1>4, CountsGrow
  <1>6. \A y \in Subject : told'[y] = last'[y]
    BY <1>1 DEF NothingSkipped, Progress, HandlerAt, TypeOK
  <1>7. NothingSkipped' /\ OutputsAgree'
    BY <1>1, <1>5, <1>6 DEF NothingSkipped, OutputsAgree, output
  <1> QED BY <1>2, <1>3, <1>7

(* A crash may come after the finding as well: then it is the one untold. *)
LEMMA CrashKeepsInv == ASSUME Inv, Crash PROVE Inv'
  <1> USE DEF Inv
  <1>1. /\ CycleGone /\ call' = "done" /\ item' = NoItem
        /\ UNCHANGED <<world, events, findings, output, deferred>>
        /\ state' \in GovernorState
        /\ last' = [x \in Subject |-> Unknown] /\ told' = last'
    BY DEF Crash, CycleGone, GovernorState
  <1>2. TypeOK' /\ Awake' /\ Progress' /\ faults' = faults + 1
    BY <1>1, CycleGoneKeepsTypes
  <1>3. Known'
    BY <1>1 DEF Known, Value
  <1>4. Unreported' \subseteq Unreported \cup {item}
    BY <1>1 DEF Unreported
  <1>5. Untold' \subseteq Untold \cup {Finding(item)}
    <2>1. \A f \in findings : ToldInFull(f)' = ToldInFull(f)
      BY <1>1 DEF ToldInFull, output
    <2>2. \A f \in findings : f.event = item => f = Finding(item)
      BY DEF Known
    <2> QED BY <2>1, <2>2, <1>1 DEF Untold
  <1>6. Cardinality(Unreported') <= faults' /\ Cardinality(Untold') <= faults'
    BY <1>2, <1>4, <1>5, CountsGrow
  <1>7. NothingSkipped' /\ OutputsAgree'
    BY <1>1, <1>6 DEF NothingSkipped, OutputsAgree, output
  <1> QED BY <1>2, <1>3, <1>7

LEMMA StutterKeepsInv == ASSUME Inv, UNCHANGED vars PROVE Inv'
  <1> USE DEF Inv
  <1>1. UNCHANGED <<record, state, got, gotRx, gotStats, todo, pc, fresh, faults, status, optic,
                    changes>>
    BY DEF vars, world, collected, journal, output, record
  <1>2. Keys(pc)' = Keys(pc) /\ \A x : Detected(x)' = Detected(x)
    BY <1>1 DEF Keys, Detected, AnomalyEvents, ChangeEvents, OpticEvents, Correlations,
                TopologyChanges, record
  <1>3. TypeOK' /\ Awake'
    BY <1>1, <1>2 DEF TypeOK, record, Awake
  <1>4. faults' \in Nat /\ faults' >= faults
    BY <1>1 DEF TypeOK
  <1> QED BY <1>1, <1>3, <1>4, RecordUntouched

(* The inductive invariant: the types, the values the daemon handles, how   *)
(* far a handler is, and the two properties.                                *)
THEOREM PollCycleInvariant == Spec => []Inv
  <1>1. ASSUME Inv, [Next]_vars PROVE Inv'
    <2> USE <1>1
    <2>1. CASE SwitchChanges
      BY <2>1, SwitchChangesKeepsInv
    <2>2. CASE BeginCycle
      BY <2>2, BeginCycleKeepsInv
    <2>3. CASE CollectPortStats \/ CollectInterfaceState \/ CollectBgpState \/ CollectOpticHealth
      BY <2>3, CollectKeepsInv
    <2>4. ASSUME NEW x \in todo, RecordEvent(x) \/ TakeResult(x) \/ PassOver(x) PROVE Inv'
      BY <2>4, RecordEventKeepsInv, TakeResultKeepsInv, PassOverKeepsInv
    <2>5. CASE CreateFinding
      BY <2>5, CreateFindingKeepsInv
    <2>6. CASE EmitFinding \/ ShareEvent \/ ShareFinding
      BY <2>6, TellKeepsInv
    <2>7. CASE Defer
      BY <2>7, DeferKeepsInv
    <2>8. CASE NextStep \/ WriteBanner \/ Prune
      BY <2>8, OtherStepsKeepInv
    <2>9. CASE Abandon
      BY <2>9, AbandonKeepsInv
    <2>10. CASE Crash
      BY <2>10, CrashKeepsInv
    <2>11. CASE UNCHANGED vars
      BY <2>11, StutterKeepsInv
    <2> QED BY <2>1, <2>2, <2>3, <2>4, <2>5, <2>6, <2>7, <2>8, <2>9, <2>10, <2>11 DEF Next, PollStep
  <1> QED BY <1>1, InvInit, PTL DEF Spec

(* Types: what is ahead in a loop has been collected, and the item in hand  *)
(* is one the loop finds.                                                   *)
THEOREM PollCycleTypeOK == Spec => []TypeOK
  <1>1. Inv => TypeOK
    BY DEF Inv
  <1> QED BY <1>1, PollCycleInvariant, PTL

(* Whatever fails and however often, no change of a session or link goes    *)
(* unsaid, and each failure leaves at most one event without its finding.   *)
THEOREM NothingSkippedEver == Spec => []NothingSkipped
  <1>1. Inv => NothingSkipped
    BY DEF Inv
  <1> QED BY <1>1, PollCycleInvariant, PTL

(* Each handler tells all it should, in an order that never has the peers   *)
(* know more than the log, nor the log more than the table; each failure    *)
(* leaves at most one finding that is told in part.                         *)
THEOREM OutputsAgreeEver == Spec => []OutputsAgree
  <1>1. Inv => OutputsAgree
    BY DEF Inv
  <1> QED BY <1>1, PollCycleInvariant, PTL
----------------------------------------------------------------------------
(* The banner. *)

(* Heights of a sequence of findings. *)
HeightsOf(active) == [i \in DOMAIN active |-> Height[active[i].event.kind]]

Heights(n) == [1 .. n -> 1 .. 3]

(* An interval is finite, and has as many elements as its ends say. *)
LEMMA IntervalSize ==
  \A a, b \in Int : IsFiniteSet(a .. b) /\ Cardinality(a .. b) = IF a > b THEN 0 ELSE b - a + 1
  BY FS_Interval

(* The first finding takes its lines and a blank one; more findings take    *)
(* more lines.                                                              *)
LEMMA UsedGrows ==
  ASSUME NEW n \in Nat, NEW h \in Heights(n)
  PROVE  /\ Used(h, 0) = 0
         /\ n >= 1 => Used(h, 1) <= 4
         /\ \A k \in 0 .. n : Used(h, k) \in Nat
         /\ \A j, k \in 0 .. n : j <= k => Used(h, j) <= Used(h, k)
  <1> DEFINE Rows(k) == UNION {{i} \X (0 .. h[i]) : i \in 1 .. k}
  <1>1. \A k : Used(h, k) = Cardinality(Rows(k))
    BY DEF Used
  <1>2. ASSUME NEW k \in 0 .. n PROVE IsFiniteSet(Rows(k)) /\ Cardinality(Rows(k)) <= 4 * k
    <2>1. PICK t \in Nat : t = 3
      OBVIOUS
    <2>2. Rows(k) \subseteq (1 .. k) \X (0 .. t)
      <3> SUFFICES ASSUME NEW i \in 1 .. k PROVE {i} \X (0 .. h[i]) \subseteq (1 .. k) \X (0 .. t)
        OBVIOUS
      <3>1. h[i] \in 1 .. 3
        BY DEF Heights
      <3> QED BY <2>1, <3>1
    <2>3. /\ IsFiniteSet(1 .. k) /\ Cardinality(1 .. k) = k
          /\ IsFiniteSet(0 .. t) /\ Cardinality(0 .. t) = 4
      <3>1. k \in Int /\ t \in Int /\ 0 \in Int /\ 1 \in Int
        BY <2>1
      <3>2. IsFiniteSet(1 .. k) /\ Cardinality(1 .. k) = IF 1 > k THEN 0 ELSE k - 1 + 1
        BY <3>1, IntervalSize, Zenon
      <3>3. IsFiniteSet(0 .. t) /\ Cardinality(0 .. t) = IF 0 > t THEN 0 ELSE t - 0 + 1
        BY <3>1, IntervalSize, Zenon
      <3> HIDE DEF Rows
      <3> QED BY <2>1, <3>1, <3>2, <3>3
    <2>4. /\ IsFiniteSet((1 .. k) \X (0 .. t))
          /\ Cardinality((1 .. k) \X (0 .. t)) = k * 4
      BY <2>3, FS_Product
    <2> QED BY <2>2, <2>4, FS_Subset
  <1>3. Rows(0) = {}
    OBVIOUS
  <1>4. \A j, k \in 0 .. n : j <= k => Rows(j) \subseteq Rows(k)
    <2> SUFFICES ASSUME NEW j \in 0 .. n, NEW k \in 0 .. n, j <= k, NEW r \in Rows(j)
                 PROVE  r \in Rows(k)
      OBVIOUS
    <2>1. PICK i \in 1 .. j : r \in {i} \X (0 .. h[i])
      OBVIOUS
    <2>2. i \in 1 .. k
      OBVIOUS
    <2> QED BY <2>1, <2>2
  <1> HIDE DEF Rows
  <1>5. Cardinality(Rows(0)) = 0
    BY <1>3, FS_EmptySet
  <1>6. \A k \in 0 .. n : Cardinality(Rows(k)) \in Nat
    BY <1>2, FS_CardinalityType
  <1>7. \A j, k \in 0 .. n : j <= k => Cardinality(Rows(j)) <= Cardinality(Rows(k))
    BY <1>2, <1>4, FS_Subset
  <1>8. n >= 1 => Cardinality(Rows(1)) <= 4
    BY <1>2
  <1> QED BY <1>1, <1>5, <1>6, <1>7, <1>8

(* The findings shown are the first so many, all that fit and none that     *)
(* does not: the count of those that fit is also the number of the last.    *)
LEMMA ShownFits ==
  ASSUME NEW n \in Nat, NEW h \in Heights(n), MaxLines \in Int
  PROVE  /\ Shown(h) \in 0 .. n
         /\ \A k \in 1 .. n : k <= Shown(h) <=> Used(h, k) <= Budget
  <1> DEFINE Fit == {k \in 1 .. n : Used(h, k) <= Budget}
             c == Cardinality(Fit)
  <1>1. Len(h) = n
    BY DEF Heights
  <1>2. Shown(h) = c
    BY <1>1 DEF Shown
  <1>3. IsFiniteSet(1 .. n) /\ Cardinality(1 .. n) = n
    BY IntervalSize
  <1>4. IsFiniteSet(Fit) /\ c \in Nat /\ c <= n
    <2>1. Fit \in SUBSET (1 .. n)
      OBVIOUS
    <2>2. IsFiniteSet(Fit) /\ c <= n
      BY <1>3, <2>1, FS_Subset
    <2> QED BY <2>2, FS_CardinalityType
  <1>5. Budget \in Int
    BY DEF Budget
  <1>6. ASSUME NEW j \in 1 .. n, NEW k \in Fit, j <= k PROVE j \in Fit
    <2>1. Used(h, j) <= Used(h, k) /\ Used(h, j) \in Nat /\ Used(h, k) \in Nat
      BY <1>6, UsedGrows
    <2> QED BY <2>1, <1>5
  <1>7. ASSUME NEW k \in 1 .. n, k \in Fit PROVE k <= c
    <2>1. 1 .. k \subseteq Fit
      BY <1>6, <1>7
    <2>2. Cardinality(1 .. k) <= c
      BY <2>1, <1>4, FS_Subset
    <2> QED BY <2>2, IntervalSize
  <1>8. ASSUME NEW k \in 1 .. n, k \notin Fit PROVE k > c
    <2>1. ASSUME NEW x \in Fit PROVE x \in 1 .. (k - 1)
      <3>1. ~(k <= x)
        BY <1>6, <1>8
      <3> QED BY <3>1
    <2>2. IsFiniteSet(1 .. (k - 1)) /\ Cardinality(1 .. (k - 1)) = k - 1
      BY IntervalSize
    <2>3. c <= k - 1
      BY <2>1, <2>2, FS_Subset
    <2> QED BY <2>3, <1>4
  <1>9. \A k \in 1 .. n : k \in Fit <=> Used(h, k) <= Budget
    OBVIOUS
  <1> HIDE DEF Fit
  <1> QED BY <1>2, <1>4, <1>7, <1>8, <1>9

(* With room for header, overflow and footer the banner keeps its lines;    *)
(* with four more it shows a finding if there is one.                       *)
LEMMA LinesFit ==
  ASSUME NEW n \in Nat, NEW h \in Heights(n), MaxLines \in Int, MaxLines >= 7
  PROVE  /\ Lines(h) <= MaxLines
         /\ MaxLines >= 11 /\ n >= 1 => Shown(h) >= 1
  <1>1. Budget = MaxLines - 7
    BY DEF Budget
  <1>2. Shown(h) \in 0 .. n
    BY ShownFits
  <1>3. Used(h, Shown(h)) <= Budget /\ Used(h, Shown(h)) \in Nat
    <2>1. CASE Shown(h) = 0
      BY <1>1, <2>1, UsedGrows
    <2>2. CASE Shown(h) \in 1 .. n
      BY <2>2, ShownFits, UsedGrows
    <2> QED BY <1>2, <2>1, <2>2
  <1>4. Lines(h) <= MaxLines
    BY <1>1, <1>3 DEF Lines
  <1>5. MaxLines >= 11 /\ n >= 1 => Shown(h) >= 1
    <2> SUFFICES ASSUME MaxLines >= 11, n >= 1 PROVE Shown(h) >= 1
      OBVIOUS
    <2>1. Used(h, 1) <= 4 /\ Used(h, 1) \in Nat
      BY UsedGrows
    <2>2. Used(h, 1) <= Budget
      BY <2>1, <1>1
    <2> QED BY <2>2, <1>2, ShownFits
  <1> QED BY <1>4, <1>5

(* Two sets with no element in common have the elements of both. *)
LEMMA DisjointUnion ==
  ASSUME NEW A, NEW B, IsFiniteSet(A), IsFiniteSet(B), A \cap B = {}
  PROVE  /\ IsFiniteSet(A \cup B)
         /\ Cardinality(A \cup B) = Cardinality(A) + Cardinality(B)
  <1>1. Cardinality(A) \in Nat /\ Cardinality(B) \in Nat
    BY FS_CardinalityType
  <1>2. Cardinality(A \cap B) = 0
    BY FS_EmptySet
  <1>3. /\ IsFiniteSet(A \cup B)
        /\ Cardinality(A \cup B) = Cardinality(A) + Cardinality(B) - Cardinality(A \cap B)
    BY FS_Union
  <1> QED BY <1>1, <1>2, <1>3

(* A finite set as a sequence: each element in it, as many as there are.    *)
LEMMA SequenceOfSet ==
  ASSUME NEW S, IsFiniteSet(S)
  PROVE  /\ SetToSeq(S) \in Seq(S)
         /\ Len(SetToSeq(S)) = Cardinality(S)
         /\ \A x \in S : \E i \in 1 .. Cardinality(S) : SetToSeq(S)[i] = x
  <1> DEFINE n == Cardinality(S)
             q == SetToSeq(S)
  <1>1. n \in Nat /\ ExistsBijection(1 .. n, S)
    BY FS_CardinalityType
  <1>2. PICK b \in [1 .. n -> S] : IsInjective(b)
    BY <1>1 DEF ExistsBijection, Bijection, Injection
  <1>3. q \in [1 .. n -> S] /\ IsInjective(q)
    BY <1>2 DEF SetToSeq
  <1>4. q \in Injection(1 .. n, S)
    BY <1>3 DEF Injection
  <1>5. IsFiniteSet(1 .. n) /\ Cardinality(1 .. n) = n
    BY <1>1, IntervalSize
  <1>6. q \in Surjection(1 .. n, S)
    BY <1>4, <1>5, FS_Injection
  <1>7. \A x \in S : \E i \in 1 .. n : q[i] = x
    BY <1>6 DEF Surjection
  <1>8. q \in Seq(S) /\ Len(q) = n
    BY <1>1, <1>3
  <1> QED BY <1>7, <1>8

(* The severities, worst first. *)
LEMMA RanksFall ==
  /\ Rank("critical") = 3 /\ Rank("warning") = 2 /\ Rank("info") = 1
  BY DEF Rank

(* get_active: each finding once, none after one that is less severe.       *)
LEMMA WorstComeFirst ==
  ASSUME NEW S, IsFiniteSet(S), \A f \in S : f.severity \in Severity
  PROVE  LET q == WorstFirst(S)
         IN  /\ q \in Seq(S)
             /\ Len(q) = Cardinality(S)
             /\ \A f \in S : \E i \in 1 .. Len(q) : q[i] = f
             /\ \A i, j \in 1 .. Len(q) : i <= j => Rank(q[i].severity) >= Rank(q[j].severity)
  <1> DEFINE Has(severity) == {f \in S : f.severity = severity}
             c == SetToSeq(Has("critical"))
             w == SetToSeq(Has("warning"))
             o == SetToSeq(Has("info"))
             q == (c \o w) \o o
  <1>1. WorstFirst(S) = q
    BY DEF WorstFirst
  <1>2. \A s : IsFiniteSet(Has(s))
    BY FS_Subset
  <1>3. /\ c \in Seq(Has("critical")) /\ w \in Seq(Has("warning")) /\ o \in Seq(Has("info"))
        /\ Len(c) = Cardinality(Has("critical"))
        /\ Len(w) = Cardinality(Has("warning"))
        /\ Len(o) = Cardinality(Has("info"))
        /\ \A f \in Has("critical") : \E i \in 1 .. Len(c) : c[i] = f
        /\ \A f \in Has("warning") : \E i \in 1 .. Len(w) : w[i] = f
        /\ \A f \in Has("info") : \E i \in 1 .. Len(o) : o[i] = f
    BY <1>2, SequenceOfSet
  <1>4. Len(c) + Len(w) + Len(o) = Cardinality(S)
    <2> DEFINE CW == Has("critical") \cup Has("warning")
    <2>1. S = CW \cup Has("info")
      BY DEF Severity
    <2>2. Has("critical") \cap Has("warning") = {} /\ CW \cap Has("info") = {}
      OBVIOUS
    <2> HIDE DEF Has
    <2>3. IsFiniteSet(CW) /\ Cardinality(CW) = Len(c) + Len(w)
      <3>1. /\ IsFiniteSet(CW)
            /\ Cardinality(CW) = Cardinality(Has("critical")) + Cardinality(Has("warning"))
        BY <1>2, <2>2, DisjointUnion, Zenon
      <3> QED BY <1>3, <3>1
    <2> HIDE DEF CW
    <2>4. Cardinality(CW \cup Has("info")) = Cardinality(CW) + Len(o)
      BY <1>2, <1>3, <2>2, <2>3, DisjointUnion
    <2> QED BY <2>1, <2>3, <2>4
  <1>5. /\ c \in Seq(S) /\ w \in Seq(S) /\ o \in Seq(S)
        /\ \A i \in 1 .. Len(c) : c[i].severity = "critical"
        /\ \A i \in 1 .. Len(w) : w[i].severity = "warning"
        /\ \A i \in 1 .. Len(o) : o[i].severity = "info"
    <2>1. ASSUME NEW T, NEW r \in Seq(T) PROVE \A i \in 1 .. Len(r) : r[i] \in T
      OBVIOUS
    <2>2. /\ \A i \in 1 .. Len(c) : c[i] \in Has("critical")
          /\ \A i \in 1 .. Len(w) : w[i] \in Has("warning")
          /\ \A i \in 1 .. Len(o) : o[i] \in Has("info")
      <3> HIDE DEF Has, c, w, o
      <3> QED BY <1>3, <2>1
    <2>3. c \in Seq(S) /\ w \in Seq(S) /\ o \in Seq(S)
      <3>1. ASSUME NEW T \in SUBSET S, NEW r \in Seq(T) PROVE r \in Seq(S)
        OBVIOUS
      <3>2. \A s : Has(s) \in SUBSET S
        OBVIOUS
      <3> HIDE DEF Has, c, w, o
      <3> QED BY <1>3, <3>1, <3>2
    <2> HIDE DEF c, w, o
    <2> QED BY <2>2, <2>3
  <1> DEFINE cut == Len(c) + Len(w)
  <1>6. /\ Len(c) \in Nat /\ Len(w) \in Nat /\ Len(o) \in Nat
        /\ q \in Seq(S) /\ Len(q) = cut + Len(o)
        /\ \A i \in 1 .. Len(c) : q[i] = c[i]
        /\ \A i \in Len(c) + 1 .. cut : q[i] = w[i - Len(c)]
        /\ \A i \in cut + 1 .. Len(q) : q[i] = o[i - cut]
    BY <1>5
  <1>7. \A f \in S : \E i \in 1 .. Len(q) : q[i] = f
    <2> SUFFICES ASSUME NEW f \in S PROVE \E i \in 1 .. Len(q) : q[i] = f
      OBVIOUS
    <2>1. CASE f \in Has("critical")
      <3>1. PICK i \in 1 .. Len(c) : c[i] = f
        BY <2>1, <1>3
      <3>2. i \in 1 .. Len(q) /\ q[i] = f
        BY <3>1, <1>6
      <3> QED BY <3>2
    <2>2. CASE f \in Has("warning")
      <3>1. PICK i \in 1 .. Len(w) : w[i] = f
        BY <2>2, <1>3
      <3>2. i + Len(c) \in Len(c) + 1 .. cut /\ i + Len(c) \in 1 .. Len(q)
        BY <1>6
      <3>3. q[i + Len(c)] = f
        BY <3>1, <3>2, <1>6
      <3> QED BY <3>2, <3>3
    <2>3. CASE f \in Has("info")
      <3>1. PICK i \in 1 .. Len(o) : o[i] = f
        BY <2>3, <1>3
      <3>2. i + cut \in cut + 1 .. Len(q) /\ i + cut \in 1 .. Len(q)
        BY <1>6
      <3>3. q[i + cut] = f
        BY <3>1, <3>2, <1>6
      <3> QED BY <3>2, <3>3
    <2> QED BY <2>1, <2>2, <2>3 DEF Severity
  <1>8. \A i \in 1 .. Len(q) :
          /\ i <= Len(c) => Rank(q[i].severity) = 3
          /\ i > Len(c) /\ i <= cut => Rank(q[i].severity) = 2
          /\ i > cut => Rank(q[i].severity) = 1
    <2> SUFFICES ASSUME NEW i \in 1 .. Len(q)
                 PROVE  /\ i <= Len(c) => Rank(q[i].severity) = 3
                        /\ i > Len(c) /\ i <= cut => Rank(q[i].severity) = 2
                        /\ i > cut => Rank(q[i].severity) = 1
      OBVIOUS
    <2>1. i <= Len(c) => q[i].severity = "critical"
      BY <1>5, <1>6
    <2>2. i > Len(c) /\ i <= cut => q[i].severity = "warning"
      BY <1>5, <1>6
    <2>3. i > cut => q[i].severity = "info"
      BY <1>5, <1>6
    <2> QED BY <2>1, <2>2, <2>3, RanksFall
  <1> HIDE DEF q, c, w, o
  <1>9. \A i, j \in 1 .. Len(q) : i <= j => Rank(q[i].severity) >= Rank(q[j].severity)
    <2> SUFFICES ASSUME NEW i \in 1 .. Len(q), NEW j \in 1 .. Len(q), i <= j
                 PROVE  Rank(q[i].severity) >= Rank(q[j].severity)
      OBVIOUS
    <2> DEFINE R(k) == Rank(q[k].severity)
    <2>1. \A k \in 1 .. Len(q) : R(k) = IF k <= Len(c) THEN 3 ELSE IF k <= cut THEN 2 ELSE 1
      BY <1>6, <1>8
    <2> HIDE DEF R
    <2>2. R(i) >= R(j)
      BY <2>1, <1>6
    <2> QED BY <2>2 DEF R
  <1> QED BY <1>1, <1>4, <1>6, <1>7, <1>9

(* What WriteBanner has put in the file. *)
LEMMA BannerWritten ==
  ASSUME TypeOK, Known, WriteBanner, MaxLines >= 7
  PROVE  /\ banner'.lines <= MaxLines
         /\ banner'.total = Cardinality(findings)
         /\ MaxLines >= 11 /\ banner'.shown = {} => findings = {}
         /\ \A f \in banner'.shown, g \in findings \ banner'.shown :
                Rank(f.severity) >= Rank(g.severity)
  <1> DEFINE q == WorstFirst(findings)
             h == HeightsOf(q)
             n == Len(q)
  <1>1. /\ q \in Seq(findings)
        /\ n = Cardinality(findings)
        /\ \A f \in findings : \E i \in 1 .. n : q[i] = f
        /\ \A i, j \in 1 .. n : i <= j => Rank(q[i].severity) >= Rank(q[j].severity)
    BY WorstComeFirst DEF TypeOK, Known
  <1>2. banner' = [shown |-> {q[i] : i \in 1 .. Shown(h)}, total |-> n, lines |-> Lines(h)]
    BY DEF WriteBanner, HeightsOf
  <1> HIDE DEF q
  <1>3. n \in Nat /\ DOMAIN q = 1 .. n /\ \A i \in 1 .. n : q[i] \in findings
    BY <1>1
  <1>4. h \in Heights(n)
    <2>1. \A i \in 1 .. n : Height[q[i].event.kind] \in 1 .. 3
      BY <1>3, PollAssumption DEF TypeOK
    <2> QED BY <1>3, <2>1 DEF HeightsOf, Heights
  <1>5. MaxLines \in Int
    BY PollAssumption
  <1> HIDE DEF h, n
  <1>6. Shown(h) \in 0 .. n
    BY <1>3, <1>4, <1>5, ShownFits
  <1>7. Lines(h) <= MaxLines /\ (MaxLines >= 11 /\ n >= 1 => Shown(h) >= 1)
    BY <1>3, <1>4, <1>5, LinesFit
  <1>8. MaxLines >= 11 /\ banner'.shown = {} => findings = {}
    <2> SUFFICES ASSUME MaxLines >= 11, findings # {} PROVE banner'.shown # {}
      OBVIOUS
    <2>1. n >= 1
      BY <1>1, <1>3
    <2>2. 1 \in 1 .. Shown(h)
      BY <1>6, <1>7, <2>1, <1>3
    <2>3. q[1] \in banner'.shown
      BY <1>2, <2>2
    <2> QED BY <2>3
  <1>9. ASSUME NEW f \in banner'.shown, NEW g \in findings \ banner'.shown
        PROVE  Rank(f.severity) >= Rank(g.severity)
    <2>1. PICK i \in 1 .. Shown(h) : f = q[i]
      BY <1>2
    <2>2. PICK j \in 1 .. n : g = q[j]
      BY <1>1
    <2>3. j \notin 1 .. Shown(h)
      BY <1>2, <2>2
    <2>4. i \in 1 .. n /\ i <= j
      BY <1>3, <1>6, <2>3
    <2> QED BY <1>1, <2>1, <2>2, <2>4
  <1> QED BY <1>1, <1>2, <1>7, <1>8, <1>9

(* A banner that is right: with eleven lines it shows something. *)
TellsWorst ==
    /\ banner.total = Cardinality(findings)
    /\ MaxLines >= 11 /\ banner.shown = {} => findings = {}
    /\ \A f \in banner.shown, g \in findings \ banner.shown :
           Rank(f.severity) >= Rank(g.severity)

(* The banner is right from when it is written until the next cycle that    *)
(* collects; a cycle that is abandoned before it has completed = FALSE.     *)
BannerInv ==
    /\ Inv
    /\ banner.lines <= MaxLines
    /\ pc = "prune" \/ (pc = "idle" /\ completed) => TellsWorst

(* The inductive invariant of the banner, for all values of max_lines that  *)
(* have room for the header.                                                *)
THEOREM BannerInvariant == ASSUME MaxLines >= 7 PROVE Spec => []BannerInv
  <1>1. Init => BannerInv
    <2> SUFFICES ASSUME Init PROVE BannerInv
      OBVIOUS
    <2>1. findings = {} /\ banner = [shown |-> {}, total |-> 0, lines |-> 1]
      BY DEF Init
    <2>2. Cardinality(findings) = 0
      BY <2>1, FS_EmptySet
    <2>3. banner.lines <= MaxLines
      BY <2>1, PollAssumption
    <2> QED BY <2>1, <2>2, <2>3, InvInit DEF BannerInv, TellsWorst
  <1>2. ASSUME Inv, Inv', BannerInv, [Next]_vars PROVE BannerInv'
    <2> USE <1>2
    <2>1. CASE WriteBanner
      <3>1. findings' = findings
        BY <2>1 DEF WriteBanner, journal
      <3> QED BY <2>1, <3>1, BannerWritten DEF BannerInv, Inv, TellsWorst
    <2>2. CASE CreateFinding
      <3>1. banner' = banner /\ pc' = pc
        BY <2>2 DEF CreateFinding, output
      <3>2. pc \notin {"idle", "prune"}
        BY <2>2, ItemEvent DEF CreateFinding, Loops, Detecting, Analyses, Inv
      <3> QED BY <3>1, <3>2 DEF BannerInv
    <2>3. ASSUME UNCHANGED <<findings, banner>>,
                 \/ pc' \notin {"idle", "prune"}
                 \/ pc' = "idle" /\ completed' = FALSE
                 \/ pc = "prune"
                 \/ pc' = pc /\ completed' = completed
          PROVE  BannerInv'
      BY <2>3 DEF BannerInv, TellsWorst
    <2>4. CASE SwitchChanges
      BY <2>3, <2>4 DEF SwitchChanges, journal, output
    <2>5. CASE BeginCycle
      BY <2>3, <2>5 DEF BeginCycle, journal, output
    <2>6. CASE CollectPortStats \/ CollectInterfaceState \/ CollectBgpState \/ CollectOpticHealth
      BY <2>3, <2>6 DEF CollectPortStats, CollectInterfaceState, CollectBgpState,
                        CollectOpticHealth, SafeCollect, journal, output
    <2>7. ASSUME NEW x \in todo, RecordEvent(x) \/ TakeResult(x) \/ PassOver(x) PROVE BannerInv'
      BY <2>3, <2>7 DEF RecordEvent, TakeResult, PassOver, journal, output
    <2>8. CASE Defer \/ EmitFinding \/ ShareEvent \/ ShareFinding
      BY <2>3, <2>8 DEF Defer, EmitFinding, ShareEvent, ShareFinding, journal, output
    <2>9. CASE NextStep
      BY <2>3, <2>9 DEF NextStep, Following, Loops, Detecting, Analyses, journal, output
    <2>10. CASE Prune
      BY <2>3, <2>10 DEF Prune, output
    <2>11. CASE Abandon
      BY <2>3, <2>11 DEF Abandon, CycleGone, output
    <2>12. CASE Crash
      BY <2>3, <2>12 DEF Crash, CycleGone, output
    <2>13. CASE UNCHANGED vars
      BY <2>3, <2>13 DEF vars, journal, output
    <2> QED BY <2>1, <2>2, <2>4, <2>5, <2>6, <2>7, <2>8, <2>9, <2>10, <2>11, <2>12,
               <2>13 DEF Next, PollStep
  <1> QED BY <1>1, <1>2, PollCycleInvariant, PTL DEF Spec

(* The banner keeps max_lines, whatever findings there are and however tall,*)
(* when it has room for its header, the overflow line and the footer.       *)
THEOREM BannerAlwaysFits == ASSUME MaxLines >= 7 PROVE Spec => []BannerFits
  <1>1. BannerInv => BannerFits
    BY DEF BannerInv, BannerFits
  <1> QED BY <1>1, BannerInvariant, PTL

(* With room for one finding of three lines, the banner counts them all,    *)
(* shows the worst, and none before a worse one.                            *)
THEOREM BannerAlwaysTellsWorst == ASSUME MaxLines >= 11 PROVE Spec => []BannerTellsWorst
  <1>1. MaxLines >= 7
    BY PollAssumption
  <1>2. BannerInv => BannerTellsWorst
    BY DEF BannerInv, BannerTellsWorst, TellsWorst
  <1> QED BY <1>1, <1>2, BannerInvariant, PTL
=============================================================================
