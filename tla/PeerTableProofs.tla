-------------------------- MODULE PeerTableProofs --------------------------
(***************************************************************************)
(* Invariants of PeerTable for any number of findings, neighbours, calls   *)
(* served at a time, lost calls and crashes.                               *)
(***************************************************************************)
EXTENDS PeerTable, TLAPS, WellFoundedInduction

(* A report that says a peer is in trouble counts findings. *)
Consistent(report) == report.severity # "ok" => report.count > 0

(* What a table says of the peer, wherever it came from. *)
RowFits(t) == t.row # None => Consistent(t.row)

(* The reports on their way to the table: in the heartbeats of the peer, and *)
(* in the answer to the daemon's own, which is read in two parts.            *)
ReportsFit ==
    /\ \A s \in Slot : call[s] # None /\ call[s].kind = "heartbeat" => Consistent(call[s].body)
    /\ main_pc = "half" /\ answer.severity # "ok" => Total > 0
    /\ main_pc \in {"answered", "written"} => Consistent(answer)

(* What is committed is in the open transaction too. *)
Ahead(old, new) ==
    /\ old.row # None => new.row # None
    /\ old.summary => new.summary

TableInv ==
    /\ TypeOK
    /\ Total <= MaxFindings
    /\ ReportsFit
    /\ RowFits(db) /\ RowFits(disk)
    /\ Ahead(disk, db)

----------------------------------------------------------------------------
(* The operators. *)

(* A non-empty set of ports has a first one. *)
LEMMA MinMember ==
    ASSUME NEW S \in SUBSET Nat, S # {}
    PROVE  Min(S) \in S
<1>1. PICK x \in S : \A y \in S : <<y, x>> \notin OpToRel(<, Nat)
  BY NatLessThanWellFounded, WFMin, Zenon
<1>2. \A y \in S : x =< y
  <2> SUFFICES ASSUME NEW y \in S PROVE x =< y
    OBVIOUS
  <2>1. ~(y < x)
    BY <1>1 DEF OpToRel
  <2>2. QED BY <2>1
<1>3. QED BY <1>2 DEF Min

(* The number of findings, and the worst severity among them. *)
LEMMA SeverityFacts ==
    ASSUME TypeOK
    PROVE  /\ Total \in Nat
           /\ CurrentSeverity \in Severity \cup {"ok"}
           /\ CurrentSeverity # "ok" => Total > 0
BY TableAssumption DEF TypeOK, Total, CurrentSeverity, Severity

(* What peer_pc goes on to. *)
LEMMA AfterType ==
    ASSUME NEW step \in {"detect", "event", "heartbeat", "topology"}
    PROVE  After(step) \in {"detect", "event", "heartbeat", "topology"}
BY DEF After

(* A call is of one of three kinds, and none of them is None. *)
LEMMA CallKinds ==
    ASSUME NEW c \in Call
    PROVE  /\ c # None
           /\ \/ /\ c \in [kind : {"heartbeat"}, body : Report, at : {"queued", "written"}]
                 /\ c.kind = "heartbeat" /\ c.body \in Report
              \/ /\ c \in [kind : {"event"}, body : {{}}, at : {"queued", "recorded", "written"}]
                 /\ c.kind = "event" /\ c.body = {}
              \/ /\ c \in [kind : {"topology"}, body : SUBSET Link, at : {"queued", "writing"}]
                 /\ c.kind = "topology" /\ c.body \in SUBSET Link
BY NoneAssumption DEF Call

(* The fields of the tables. *)
LEMMA TableFields ==
    ASSUME NEW t \in Tables
    PROVE  t.row \in Report \cup {None} /\ t.summary \in BOOLEAN /\ t.fragment \in SUBSET Link
BY DEF Tables

(* A report is not None. *)
LEMMA ReportFacts ==
    ASSUME NEW r \in Report
    PROVE  r # None /\ r.severity \in Severity \cup {"ok"} /\ r.count \in Nat
BY NoneAssumption DEF Report

(* The upsert writes the two columns and leaves the others. *)
LEMMA UpsertKeeps ==
    ASSUME TableInv, NEW r \in Report, Consistent(r), Upsert(r)
    PROVE  db' \in Tables /\ RowFits(db)' /\ Ahead(disk, db')
<1>1. db \in Tables
  BY DEF TableInv, TypeOK
<1>2. db' = [db EXCEPT !.row = r]
  BY DEF Upsert
<1>3. db' \in Tables /\ db'.row = r /\ db'.summary = db.summary
  BY <1>1, <1>2 DEF Tables
<1>4. QED BY <1>3, ReportFacts DEF TableInv, RowFits, Ahead

----------------------------------------------------------------------------
(* The steps. *)

(* The calls stay, leave, or give way to c. *)
LEMMA SlotsKeep ==
    ASSUME TableInv, NEW c \in Call \cup {None},
           c # None /\ c.kind = "heartbeat" => Consistent(c.body),
           call' \in [Slot -> Call \cup {None}],
           \A s \in Slot : call'[s] = call[s] \/ call'[s] = c \/ call'[s] = None
    PROVE  \A s \in Slot : call'[s] # None /\ call'[s].kind = "heartbeat" =>
               Consistent(call'[s].body)
BY DEF TableInv, ReportsFit

(* A step that touches neither the peer's findings nor the reports in transit. *)
LEMMA PeerStepKeeps ==
    ASSUME TableInv, FindingAppears \/ LinkAppears \/ PeerGoesOn
    PROVE  TableInv'
<1>1. peer_pc' \in {"detect", "event", "heartbeat", "topology"}
  <2>1. peer_pc' \in {"event", After(peer_pc), peer_pc}
    BY DEF FindingAppears, LinkAppears, PeerGoesOn
  <2>2. QED BY <2>1, AfterType DEF TableInv, TypeOK
<1>2. CASE FindingAppears
  <2>1. PICK s \in FindingSeverity : counts' = [counts EXCEPT ![s] = @ + 1]
    BY <1>2 DEF FindingAppears
  <2>2. UNCHANGED <<links, call, main_pc, answer, db, disk, failed, crashes>> /\ Total < MaxFindings
    BY <1>2 DEF FindingAppears
  <2>3. s \in Severity /\ counts \in [Severity -> 0 .. MaxFindings] /\ MaxFindings \in Nat
    BY TableAssumption DEF TableInv, TypeOK
  <2>4. counts' \in [Severity -> 0 .. MaxFindings] /\ Total' <= MaxFindings /\ Total' >= Total
    BY <2>1, <2>2, <2>3 DEF Total, Severity
  <2>5. Total \in Nat /\ Total' \in Nat
    BY <2>3, <2>4 DEF Total, Severity
  <2>6. TypeOK'
    BY <1>1, <2>2, <2>4 DEF TableInv, TypeOK
  <2>7. ReportsFit'
    BY <2>2, <2>4, <2>5 DEF TableInv, ReportsFit
  <2>8. QED BY <2>2, <2>4, <2>6, <2>7 DEF TableInv, RowFits, Ahead
<1>3. CASE LinkAppears \/ PeerGoesOn
  <2>1. UNCHANGED <<counts, call, main_pc, answer, db, disk, failed, crashes>>
    BY <1>3 DEF LinkAppears, PeerGoesOn, peer
  <2>2. links' \subseteq Link
    BY <1>3 DEF LinkAppears, PeerGoesOn, peer, TableInv, TypeOK
  <2>3. TypeOK'
    BY <1>1, <2>1, <2>2 DEF TableInv, TypeOK
  <2>4. Total' = Total /\ ReportsFit'
    BY <2>1 DEF TableInv, ReportsFit, Total
  <2>5. QED BY <2>1, <2>3, <2>4 DEF TableInv, RowFits, Ahead
<1>4. QED BY <1>2, <1>3

(* The peer's calls carry what it has, and are lost or outlive their client. *)
LEMMA CallsKeep ==
    ASSUME TableInv,
           ShareEvent \/ SendHeartbeat \/ ShareTopology \/ CallLost \/ CallTimesOut
    PROVE  TableInv'
<1>1. /\ Total \in Nat /\ CurrentSeverity \in Severity \cup {"ok"}
      /\ CurrentSeverity # "ok" => Total > 0
  BY SeverityFacts DEF TableInv
<1>2. 0 \in Slot /\ Slot \subseteq Nat
  BY TableAssumption DEF Slot
<1> DEFINE Carried(c) == c # None /\ c.kind = "heartbeat" => Consistent(c.body)
<1>3. CASE ShareEvent \/ SendHeartbeat \/ ShareTopology
  <2>1. PICK c \in Call : /\ call' = [call EXCEPT ![0] = c]
                          /\ c.kind = "heartbeat" => Consistent(c.body)
    <3>1. CASE ShareEvent
      <4>1. [kind |-> "event", body |-> {}, at |-> "queued"] \in Call
        BY DEF Call
      <4>2. QED BY <3>1, <4>1 DEF ShareEvent, Send
    <3>2. CASE SendHeartbeat
      <4> DEFINE r == [severity |-> CurrentSeverity, count |-> Total]
      <4>1. r \in Report /\ Consistent(r)
        BY <1>1 DEF Report, Consistent
      <4>2. [kind |-> "heartbeat", body |-> r, at |-> "queued"] \in Call /\ Send("heartbeat", r)
        BY <3>2, <4>1 DEF Call, SendHeartbeat
      <4> HIDE DEF r
      <4>3. QED BY <4>1, <4>2 DEF Send
    <3>3. CASE ShareTopology
      <4>1. links \in SUBSET Link
        BY DEF TableInv, TypeOK
      <4>2. [kind |-> "topology", body |-> links, at |-> "queued"] \in Call
        BY <4>1 DEF Call
      <4>3. QED BY <3>3, <4>2 DEF ShareTopology, Send
    <3>4. QED BY <1>3, <3>1, <3>2, <3>3
  <2>2. UNCHANGED <<counts, links, peer_pc, main_pc, answer, db, disk, failed, crashes>>
    BY <1>3 DEF ShareEvent, SendHeartbeat, ShareTopology, Send, peer
  <2>3. call' \in [Slot -> Call \cup {None}] /\ \A s \in Slot : call'[s] = call[s] \/ call'[s] = c
    BY <1>2, <2>1 DEF TableInv, TypeOK
  <2>4. \A s \in Slot : Carried(call'[s])
    BY <2>1, <2>3, SlotsKeep
  <2>5. TypeOK'
    BY <2>2, <2>3 DEF TableInv, TypeOK
  <2>6. Total' = Total /\ ReportsFit'
    BY <2>2, <2>4 DEF TableInv, ReportsFit, Total
  <2>7. QED BY <2>2, <2>5, <2>6 DEF TableInv, RowFits, Ahead
<1>4. CASE CallLost \/ CallTimesOut
  <2>1. /\ failed < MaxFailed /\ failed' = failed + 1 /\ peer_pc' = After(peer_pc)
        /\ UNCHANGED <<counts, links, main_pc, answer, db, disk, crashes>>
    BY <1>4 DEF CallLost, CallTimesOut, peer
  <2>2. /\ call' \in [Slot -> Call \cup {None}]
        /\ \A s \in Slot : call'[s] = call[s] \/ call'[s] = call[0] \/ call'[s] = None
    <3>1. CASE CallLost
      BY <1>2, <3>1 DEF CallLost, TableInv, TypeOK
    <3>2. CASE CallTimesOut
      <4>1. PICK s \in Slot \ {0} : call' = [call EXCEPT ![s] = call[0], ![0] = None]
        BY <3>2 DEF CallTimesOut
      <4>2. QED BY <1>2, <4>1 DEF TableInv, TypeOK
    <3>3. QED BY <1>4, <3>1, <3>2
  <2>3. \A s \in Slot : Carried(call'[s])
    <3>1. call[0] \in Call \cup {None} /\ Carried(call[0])
      BY <1>2 DEF TableInv, TypeOK, ReportsFit
    <3>2. QED BY <2>2, <3>1, SlotsKeep
  <2>4. failed' \in 0 .. MaxFailed
    BY <2>1, TableAssumption DEF TableInv, TypeOK
  <2>5. TypeOK'
    BY <2>1, <2>2, <2>4, AfterType DEF TableInv, TypeOK
  <2>6. Total' = Total /\ ReportsFit'
    BY <2>1, <2>3 DEF TableInv, ReportsFit, Total
  <2>7. QED BY <2>1, <2>5, <2>6 DEF TableInv, RowFits, Ahead
<1>5. QED BY <1>3, <1>4

(* Of a call only how far its handler has come changes, or which links are left. *)
LEMMA HandlerKeeps ==
    ASSUME TableInv, NEW s \in Slot, NEW c \in Call, call[s] # None,
           call' = [call EXCEPT ![s] = c],
           c.kind = call[s].kind, c.kind = "heartbeat" => c.body = call[s].body
    PROVE  /\ call' \in [Slot -> Call \cup {None}]
           /\ \A u \in Slot : call'[u] # None /\ call'[u].kind = "heartbeat" =>
                  Consistent(call'[u].body)
<1>1. c.kind = "heartbeat" => Consistent(c.body)
  BY DEF TableInv, ReportsFit
<1>2. /\ call' \in [Slot -> Call \cup {None}]
      /\ \A u \in Slot : call'[u] = call[u] \/ call'[u] = c
  BY DEF TableInv, TypeOK
<1>3. QED BY <1>1, <1>2, SlotsKeep

(* A handler moves on by one step. *)
LEMMA HandlerAtKeeps ==
    ASSUME TableInv, NEW s \in Slot, NEW kind, NEW from, NEW to, At(s, kind, from), HandlerAt(s, to),
           \/ kind = "heartbeat" /\ to = "written"
           \/ kind = "event" /\ to \in {"recorded", "written"}
           \/ kind = "topology" /\ to = "writing"
    PROVE  /\ call' \in [Slot -> Call \cup {None}]
           /\ \A u \in Slot : call'[u] # None /\ call'[u].kind = "heartbeat" =>
                  Consistent(call'[u].body)
           /\ UNCHANGED peer_pc
<1> DEFINE c == [call[s] EXCEPT !.at = to]
<1>1. call[s] \in Call /\ call[s] # None /\ call[s].kind = kind
  BY DEF At, TableInv, TypeOK
<1>2. c \in Call /\ c.kind = kind /\ c.body = call[s].body
  BY <1>1, CallKinds DEF Call
<1>3. call' = [call EXCEPT ![s] = c] /\ UNCHANGED peer_pc
  BY DEF HandlerAt
<1> HIDE DEF c
<1>4. QED BY <1>1, <1>2, <1>3, HandlerKeeps

(* A handler returns. *)
LEMMA ReturnKeeps ==
    ASSUME TableInv, NEW s \in Slot, Return(s)
    PROVE  /\ call' \in [Slot -> Call \cup {None}]
           /\ \A u \in Slot : call'[u] # None /\ call'[u].kind = "heartbeat" =>
                  Consistent(call'[u].body)
           /\ peer_pc' \in {"detect", "event", "heartbeat", "topology"}
<1>1. /\ call' \in [Slot -> Call \cup {None}]
      /\ \A u \in Slot : call'[u] = call[u] \/ call'[u] = None
  BY DEF Return, TableInv, TypeOK
<1>2. peer_pc' \in {"detect", "event", "heartbeat", "topology"}
  BY AfterType DEF Return, TableInv, TypeOK
<1>3. QED BY <1>1, <1>2, SlotsKeep

(* The workers: what they put into the table fits, and what they commit is *)
(* the whole transaction. *)
LEMMA HandleKeeps ==
    ASSUME TableInv, NEW s \in Slot, Handle(s)
    PROVE  TableInv' /\ Ahead(disk, disk')
<1> DEFINE Carried == \A u \in Slot : call'[u] # None /\ call'[u].kind = "heartbeat" =>
                          Consistent(call'[u].body)
<1>1. ASSUME call' \in [Slot -> Call \cup {None}], Carried,
             peer_pc' \in {"detect", "event", "heartbeat", "topology"},
             UNCHANGED <<counts, links, main_pc, answer, failed, crashes>>,
             db' \in Tables, RowFits(db)',
             \/ UNCHANGED disk /\ Ahead(disk, db')
             \/ disk' = db /\ UNCHANGED db
      PROVE  TableInv' /\ Ahead(disk, disk')
  <2>1. TypeOK'
    BY <1>1 DEF TableInv, TypeOK
  <2>2. Total' = Total /\ ReportsFit'
    BY <1>1 DEF TableInv, ReportsFit, Total
  <2>3. RowFits(disk)' /\ Ahead(disk, db)' /\ Ahead(disk, disk')
    BY <1>1 DEF TableInv, RowFits, Ahead
  <2>4. QED BY <1>1, <2>1, <2>2, <2>3 DEF TableInv
<1>2. CASE HandleHeartbeat(s)
  <2>1. /\ At(s, "heartbeat", "queued") /\ Upsert(call[s].body) /\ HandlerAt(s, "written")
        /\ UNCHANGED <<counts, links, main_pc, answer, disk, failed, crashes>>
    BY <1>2 DEF HandleHeartbeat, peer
  <2>2. call[s] # None /\ call[s] \in Call /\ call[s].kind = "heartbeat"
    BY <2>1 DEF At, TableInv, TypeOK
  <2>3. call[s].body \in Report /\ Consistent(call[s].body)
    BY <2>2, CallKinds DEF TableInv, ReportsFit
  <2>4. db' \in Tables /\ RowFits(db)' /\ Ahead(disk, db')
    BY <2>1, <2>3, UpsertKeeps
  <2>5. call' \in [Slot -> Call \cup {None}] /\ Carried /\ UNCHANGED peer_pc
    BY <2>1, HandlerAtKeeps
  <2>6. QED BY <1>1, <2>1, <2>4, <2>5 DEF TableInv, TypeOK
<1>3. CASE HandleEvent(s)
  <2>1. /\ At(s, "event", "queued") /\ disk' = db /\ HandlerAt(s, "recorded")
        /\ UNCHANGED <<counts, links, main_pc, answer, db, failed, crashes>>
    BY <1>3 DEF HandleEvent, peer
  <2>2. call' \in [Slot -> Call \cup {None}] /\ Carried /\ UNCHANGED peer_pc
    BY <2>1, HandlerAtKeeps
  <2>3. QED BY <1>1, <2>1, <2>2 DEF TableInv, TypeOK, RowFits
<1>4. CASE UpdateEventSummary(s)
  <2>1. /\ At(s, "event", "recorded") /\ HandlerAt(s, "written")
        /\ db' = [db EXCEPT !.summary = @ \/ db.row # None]
        /\ UNCHANGED <<counts, links, main_pc, answer, disk, failed, crashes>>
    BY <1>4 DEF UpdateEventSummary, peer
  <2>2. call' \in [Slot -> Call \cup {None}] /\ Carried /\ UNCHANGED peer_pc
    BY <2>1, HandlerAtKeeps
  <2>3. db' \in Tables /\ db'.row = db.row /\ (db.summary => db'.summary)
    <3>1. db \in Tables
      BY DEF TableInv, TypeOK
    <3>2. QED BY <2>1, <3>1 DEF Tables
  <2>4. RowFits(db)' /\ Ahead(disk, db')
    BY <2>3 DEF TableInv, RowFits, Ahead
  <2>5. QED BY <1>1, <2>1, <2>2, <2>3, <2>4 DEF TableInv, TypeOK
<1>5. CASE HandleTopology(s) \/ InsertLink(s)
  <2>1. db' \in Tables /\ db'.row = db.row /\ db'.summary = db.summary
    <3>1. db \in Tables /\ call[s] \in Call /\ call[s].kind = "topology"
      BY <1>5 DEF HandleTopology, InsertLink, At, TableInv, TypeOK
    <3>2. CASE HandleTopology(s)
      <4>1. db' = [db EXCEPT !.fragment = {}]
        BY <3>2 DEF HandleTopology
      <4>2. QED BY <3>1, <4>1 DEF Tables
    <3>3. CASE InsertLink(s)
      <4> DEFINE l == Min(call[s].body)
      <4>1. db' = db \/ db' = [db EXCEPT !.fragment = @ \cup {l}]
        BY <3>3 DEF InsertLink
      <4>2. l \in Link
        <5>1. call[s].body \in SUBSET Link /\ call[s].body # {}
          BY <3>1, <3>3, CallKinds DEF InsertLink
        <5>2. QED BY <5>1, MinMember, TableAssumption
      <4> HIDE DEF l
      <4>3. QED BY <3>1, <4>1, <4>2 DEF Tables
    <3>4. QED BY <1>5, <3>2, <3>3
  <2>2. RowFits(db)' /\ Ahead(disk, db')
    BY <2>1 DEF TableInv, RowFits, Ahead
  <2>3. UNCHANGED <<counts, links, main_pc, answer, disk, failed, crashes>>
    BY <1>5 DEF HandleTopology, InsertLink, peer
  <2>4. /\ call' \in [Slot -> Call \cup {None}] /\ Carried
        /\ peer_pc' \in {"detect", "event", "heartbeat", "topology"}
    <3>1. CASE HandleTopology(s)
      <4>1. At(s, "topology", "queued") /\ HandlerAt(s, "writing")
        BY <3>1 DEF HandleTopology
      <4>2. QED BY <4>1, HandlerAtKeeps DEF TableInv, TypeOK
    <3>2. CASE InsertLink(s)
      <4> DEFINE l == Min(call[s].body)
                 c == [call[s] EXCEPT !.body = @ \ {l}]
      <4>1. \/ Return(s)
            \/ call' = [call EXCEPT ![s] = c] /\ UNCHANGED peer_pc
        BY <3>2 DEF InsertLink
      <4>2. call[s] # None /\ call[s] \in Call /\ call[s].kind = "topology"
        BY <3>2 DEF InsertLink, At, TableInv, TypeOK
      <4>3. c \in Call /\ c.kind = "topology"
        BY <4>2, CallKinds DEF Call
      <4> HIDE DEF c
      <4>4. QED BY <4>1, <4>2, <4>3, ReturnKeeps, HandlerKeeps DEF TableInv, TypeOK
    <3>3. QED BY <1>5, <3>1, <3>2
  <2>5. QED BY <1>1, <2>1, <2>2, <2>3, <2>4
<1>6. CASE Commit(s)
  <2>1. /\ Return(s) /\ disk' = db
        /\ UNCHANGED <<counts, links, main_pc, answer, db, failed, crashes>>
    BY <1>6 DEF Commit, peer
  <2>2. /\ call' \in [Slot -> Call \cup {None}] /\ Carried
        /\ peer_pc' \in {"detect", "event", "heartbeat", "topology"}
    BY <2>1, ReturnKeeps
  <2>3. QED BY <1>1, <2>1, <2>2 DEF TableInv, TypeOK, RowFits
<1>7. QED BY <1>2, <1>3, <1>4, <1>5, <1>6 DEF Handle

(* The poll loop's heartbeat.  The count is read after the severity, and the *)
(* peer's findings have not become fewer meanwhile. *)
LEMMA MainKeeps ==
    ASSUME TableInv, Main
    PROVE  TableInv' /\ Ahead(disk, disk')
<1>1. /\ Total \in Nat /\ CurrentSeverity \in Severity \cup {"ok"}
      /\ CurrentSeverity # "ok" => Total > 0
  BY SeverityFacts DEF TableInv
<1>2. NoReport \in Report /\ answer \in Report
  BY DEF NoReport, Report, TableInv, TypeOK
<1>3. UNCHANGED <<counts, links, peer_pc, call, failed, crashes>>
  BY DEF Main, AskPeer, PeerAnswers, NoAnswer, StoreAnswer, CommitAnswer, peer
<1>4. /\ main_pc' \in {"idle", "asked", "half", "answered", "written"}
      /\ answer' \in Report
      /\ main_pc' = "half" /\ answer'.severity # "ok" => Total > 0
      /\ main_pc' \in {"answered", "written"} => Consistent(answer')
  <2>1. CASE AskPeer \/ NoAnswer \/ CommitAnswer
    <3>1. main_pc' \in {"idle", "asked"} /\ answer' \in {answer, NoReport}
      BY <2>1 DEF AskPeer, NoAnswer, CommitAnswer
    <3>2. QED BY <1>2, <3>1
  <2>2. CASE StoreAnswer
    BY <1>2, <2>2 DEF StoreAnswer, TableInv, ReportsFit
  <2>3. CASE PeerAnswers /\ main_pc = "asked"
    <3>1. answer' = [answer EXCEPT !.severity = CurrentSeverity] /\ main_pc' = "half"
      BY <2>3 DEF PeerAnswers, Read
    <3>2. answer' \in Report /\ answer'.severity = CurrentSeverity
      BY <1>1, <1>2, <3>1 DEF Report
    <3>3. QED BY <1>1, <3>1, <3>2
  <2>4. CASE PeerAnswers /\ main_pc = "half"
    <3>1. answer' = [answer EXCEPT !.count = Total] /\ main_pc' = "answered"
      BY <2>4 DEF PeerAnswers, Read
    <3>2. answer' \in Report /\ answer'.count = Total /\ answer'.severity = answer.severity
      BY <1>1, <1>2, <3>1 DEF Report
    <3>3. Consistent(answer')
      BY <2>4, <3>2 DEF TableInv, ReportsFit, Consistent
    <3>4. QED BY <3>1, <3>2, <3>3
  <2>5. QED BY <2>1, <2>2, <2>3, <2>4 DEF Main, PeerAnswers
<1>5. /\ db' \in Tables /\ disk' \in Tables
      /\ RowFits(db)' /\ RowFits(disk)' /\ Ahead(disk', db') /\ Ahead(disk, disk')
  <2>1. CASE StoreAnswer
    <3>1. UNCHANGED disk /\ Upsert(answer) /\ Consistent(answer)
      BY <2>1 DEF StoreAnswer, TableInv, ReportsFit
    <3>2. QED BY <1>2, <3>1, UpsertKeeps DEF TableInv, TypeOK, RowFits, Ahead
  <2>2. CASE CommitAnswer
    BY <2>2 DEF CommitAnswer, TableInv, TypeOK, RowFits, Ahead
  <2>3. CASE AskPeer \/ PeerAnswers \/ NoAnswer
    <3>1. UNCHANGED <<db, disk>>
      BY <2>3 DEF AskPeer, PeerAnswers, NoAnswer
    <3>2. QED BY <3>1 DEF TableInv, TypeOK, RowFits, Ahead
  <2>4. QED BY <2>1, <2>2, <2>3 DEF Main
<1>6. TypeOK'
  BY <1>3, <1>4, <1>5 DEF TableInv, TypeOK
<1>7. Total' = Total /\ ReportsFit'
  BY <1>3, <1>4 DEF TableInv, ReportsFit, Total
<1>8. QED BY <1>5, <1>6, <1>7 DEF TableInv

(* A commit by anybody, and a crash, which loses what is not committed. *)
LEMMA CommitCrashKeeps ==
    ASSUME TableInv, OtherCommit \/ Crash
    PROVE  TableInv' /\ Ahead(disk, disk')
<1>1. CASE OtherCommit
  <2>1. disk' = db /\ UNCHANGED <<counts, links, peer_pc, call, main_pc, answer, db, failed, crashes>>
    BY <1>1 DEF OtherCommit, peer
  <2>2. TypeOK' /\ ReportsFit' /\ Total' = Total
    BY <2>1 DEF TableInv, TypeOK, ReportsFit, Total
  <2>3. QED BY <2>1, <2>2 DEF TableInv, RowFits, Ahead
<1>2. CASE Crash
  <2>1. /\ crashes < MaxCrashes /\ crashes' = crashes + 1 /\ db' = disk
        /\ call' = [s \in Slot |-> None]
        /\ main_pc' = "idle" /\ answer' = NoReport
        /\ peer_pc' = IF call[0] # None THEN After(peer_pc) ELSE peer_pc
        /\ UNCHANGED <<counts, links, disk, failed>>
    BY <1>2 DEF Crash, peer
  <2>2. crashes' \in 0 .. MaxCrashes /\ NoReport \in Report
    BY <2>1, TableAssumption DEF TableInv, TypeOK, NoReport, Report
  <2>3. TypeOK'
    BY <2>1, <2>2, AfterType DEF TableInv, TypeOK
  <2>4. Total' = Total /\ ReportsFit'
    BY <2>1 DEF TableInv, ReportsFit, Total
  <2>5. QED BY <2>1, <2>3, <2>4 DEF TableInv, RowFits, Ahead
<1>3. QED BY <1>1, <1>2

----------------------------------------------------------------------------
(* The invariant, and what follows from it. *)

(* Nothing is known of the peer at first. *)
LEMMA InitEstablishes == Init => TableInv
<1> SUFFICES ASSUME Init PROVE TableInv
  OBVIOUS
<1>1. NoReport \in Report
  BY DEF NoReport, Report
<1>2. db \in Tables /\ db.row = None /\ db.summary = FALSE /\ disk = db
  BY DEF Init, Tables
<1>3. counts \in [Severity -> 0 .. MaxFindings] /\ Total = 0
  BY TableAssumption DEF Init, Total, Severity
<1>4. TypeOK
  BY <1>1, <1>2, <1>3, TableAssumption DEF Init, TypeOK
<1>5. ReportsFit /\ Total <= MaxFindings
  BY <1>3, TableAssumption DEF Init, ReportsFit
<1>6. QED BY <1>2, <1>4, <1>5 DEF TableInv, RowFits, Ahead

(* Every step keeps the invariant, and what is committed of the peer. *)
LEMMA StepKeeps == TableInv /\ [Next]_vars => TableInv' /\ Ahead(disk, disk')
<1> SUFFICES ASSUME TableInv, [Next]_vars PROVE TableInv' /\ Ahead(disk, disk')
  OBVIOUS
<1>1. ASSUME UNCHANGED disk
      PROVE  Ahead(disk, disk')
  BY <1>1 DEF Ahead
<1>2. CASE FindingAppears \/ LinkAppears \/ PeerGoesOn
  <2>1. UNCHANGED disk
    BY <1>2 DEF FindingAppears, LinkAppears, PeerGoesOn
  <2>2. QED BY <1>1, <1>2, <2>1, PeerStepKeeps
<1>3. CASE ShareEvent \/ SendHeartbeat \/ ShareTopology \/ CallLost \/ CallTimesOut
  <2>1. UNCHANGED disk
    BY <1>3 DEF ShareEvent, SendHeartbeat, ShareTopology, Send, CallLost, CallTimesOut
  <2>2. QED BY <1>1, <1>3, <2>1, CallsKeep
<1>4. CASE (\E s \in Slot : Handle(s)) \/ Main \/ OtherCommit \/ Crash
  BY <1>4, HandleKeeps, MainKeeps, CommitCrashKeeps
<1>5. CASE UNCHANGED vars
  <2>1. UNCHANGED <<counts, links, peer_pc, call, main_pc, answer, db, disk, failed, crashes>>
    BY <1>5 DEF vars, peer
  <2>2. TypeOK' /\ ReportsFit' /\ Total' = Total
    BY <2>1 DEF TableInv, TypeOK, ReportsFit, Total
  <2>3. QED BY <1>1, <2>1, <2>2 DEF TableInv, RowFits, Ahead
<1>6. QED BY <1>2, <1>3, <1>4, <1>5 DEF Next, PeerLoop

(* The invariant holds of every reachable state. *)
THEOREM TableInvariance == Spec => []TableInv
BY InitEstablishes, StepKeeps, PTL DEF Spec

(* Every variable of the table and of its two writers has its type. *)
THEOREM PeerTableTypeOK == Spec => []TypeOK
<1>1. TableInv => TypeOK
  BY DEF TableInv
<1>2. QED BY <1>1, TableInvariance, PTL

(* No row, committed or not, says that a peer is in trouble and has no findings: *)
(* in the answer to a heartbeat the severity is read before the count, and the   *)
(* upsert writes both columns of one report.                                     *)
THEOREM TroubleIsCounted == Spec => []SevereHasFindings
<1>1. TableInv => SevereHasFindings
  BY DEF TableInv, RowFits, Consistent, SevereHasFindings
<1>2. QED BY <1>1, TableInvariance, PTL

(* What has been committed of a peer survives every later commit and crash:  *)
(* the transaction a commit takes, whoever began it, holds all that is on    *)
(* disk, and no statement takes a row or a summary out of it.                *)
THEOREM KnowledgeStays == Spec => KnownStaysKnown
<1>1. TableInv /\ [Next]_vars =>
          [/\ disk.row # None => disk'.row # None
           /\ disk.summary => disk'.summary]_vars
  BY StepKeeps DEF Ahead
<1>2. QED BY <1>1, TableInvariance, PTL DEF Spec, KnownStaysKnown

============================================================================
