----------------------------- MODULE PeerTable -----------------------------
(***************************************************************************)
(* What a daemon keeps about one peer: the peer's row in peer_state and    *)
(* its fragment in peer_topology.  The row is written by the workers that  *)
(* serve the peer's heartbeats and events, and by the poll loop with the   *)
(* answers to its own heartbeats; fragments by the workers.  All threads   *)
(* share one connection, and so one transaction: what one has executed,    *)
(* any other may commit.  Calls are lost, or go on in the server after     *)
(* their client gave up; the daemon crashes.  The peer creates findings    *)
(* and adds neighbours in its poll loop only, and never removes any.       *)
(***************************************************************************)
EXTENDS FindingTemplates, FiniteSets, FiniteSetsExt

CONSTANTS
    FindingSeverity,  \* severities the peer's findings have
    Link,             \* rows of the peer's topology, in the order of their ports
    None,
    MaxFindings,      \* bound: findings of the peer
    MaxLate,          \* bound: calls served at a time though their client gave up
    MaxFailed,        \* bound: calls that are lost or time out
    MaxCrashes        \* bound: crashes of the daemon

ASSUME TableAssumption ==
    /\ FindingSeverity \subseteq Severity
    /\ Link \subseteq Nat /\ IsFiniteSet(Link)
    /\ {MaxFindings, MaxLate, MaxFailed, MaxCrashes} \subseteq Nat

Report == [severity : Severity \cup {"ok"}, count : Nat]

Slot == 0 .. MaxLate   \* 0 has the call the peer's poll loop waits for

Call ==
    [kind : {"heartbeat"}, body : Report, at : {"queued", "written"}]
        \cup [kind : {"event"}, body : {{}}, at : {"queued", "recorded", "written"}]
        \cup [kind : {"topology"}, body : SUBSET Link, at : {"queued", "writing"}]

Tables == [row : Report \cup {None}, summary : BOOLEAN, fragment : SUBSET Link]

ASSUME NoneAssumption == None \notin Report \cup Call

VARIABLES
    counts,    \* the peer: its active findings of each severity
    links,     \* the peer: its topology
    peer_pc,   \* the peer's poll loop: what it does, or calls for
    call,      \* slot -> a call of the peer, and how far its handler has come
    main_pc,   \* the daemon's poll loop, in its own heartbeat to the peer
    answer,    \* what the peer's handler has put in its response so far
    db, disk,  \* the tables as the daemon's threads see them; as committed
    failed, crashes

peer == <<counts, links>>
vars == <<peer, peer_pc, call, main_pc, answer, db, disk, failed, crashes>>

NoReport == [severity |-> "ok", count |-> 0]

Init ==
    /\ counts = [s \in Severity |-> 0]
    /\ links = {}
    /\ peer_pc = "detect"
    /\ call = [s \in Slot |-> None]
    /\ main_pc = "idle"
    /\ answer = NoReport
    /\ db = [row |-> None, summary |-> FALSE, fragment |-> {}]
    /\ disk = db
    /\ failed = 0 /\ crashes = 0

Total == counts["info"] + counts["warning"] + counts["critical"]

(* fault: a word of its own for no findings *)
CurrentSeverityUnknown ==
    CASE counts["critical"] > 0 -> "critical"
      [] counts["critical"] = 0 /\ counts["warning"] > 0 -> "warning"
      [] counts["critical"] = 0 /\ counts["warning"] = 0 /\ counts["info"] > 0 -> "info"
      [] OTHER -> "unknown"

CurrentSeverity ==
    CASE counts["critical"] > 0 -> "critical"
      [] counts["critical"] = 0 /\ counts["warning"] > 0 -> "warning"
      [] counts["critical"] = 0 /\ counts["warning"] = 0 /\ counts["info"] > 0 -> "info"
      [] OTHER -> "ok"

----------------------------------------------------------------------------
(* The peer's poll loop: it detects, sends a heartbeat, and shares its *)
(* topology when the interval has passed.                              *)

After(step) ==
    CASE step = "event" -> "detect"      [] step = "detect" -> "heartbeat"
      [] step = "heartbeat" -> "topology" [] step = "topology" -> "detect"

FindingAppears ==
    /\ peer_pc = "detect"
    /\ Total < MaxFindings
    /\ \E s \in FindingSeverity : counts' = [counts EXCEPT ![s] = @ + 1]
    /\ peer_pc' = "event"
    /\ UNCHANGED <<links, call, main_pc, answer, db, disk, failed, crashes>>

LinkAppears ==
    /\ peer_pc = "detect"
    /\ \E l \in Link \ links : links' = links \cup {l}
    /\ UNCHANGED <<counts, peer_pc, call, main_pc, answer, db, disk, failed, crashes>>

(* Nothing more to detect, or the interval between shares not over. *)
PeerGoesOn ==
    /\ peer_pc \in {"detect", "topology"}
    /\ call[0] = None
    /\ peer_pc' = After(peer_pc)
    /\ UNCHANGED <<peer, call, main_pc, answer, db, disk, failed, crashes>>

Send(step, body) ==
    /\ peer_pc = step
    /\ call[0] = None
    /\ call' = [call EXCEPT ![0] = [kind |-> step, body |-> body, at |-> "queued"]]
    /\ UNCHANGED <<peer, peer_pc, main_pc, answer, db, disk, failed, crashes>>

ShareEvent == Send("event", {})

SendHeartbeat ==
    Send("heartbeat", [severity |-> CurrentSeverity, count |-> Total])

ShareTopology == Send("topology", links)

CallLost ==
    /\ failed < MaxFailed
    /\ call[0] # None /\ call[0].at = "queued"
    /\ failed' = failed + 1
    /\ call' = [call EXCEPT ![0] = None]
    /\ peer_pc' = After(peer_pc)
    /\ UNCHANGED <<peer, main_pc, answer, db, disk, crashes>>

(* The deadline passes; the call stays in the server. *)
CallTimesOut ==
    /\ failed < MaxFailed
    /\ failed' = failed + 1
    /\ call[0] # None
    /\ \E s \in Slot \ {0} :
           call[s] = None /\ call' = [call EXCEPT ![s] = call[0], ![0] = None]
    /\ peer_pc' = After(peer_pc)
    /\ UNCHANGED <<peer, main_pc, answer, db, disk, crashes>>

----------------------------------------------------------------------------
(* The daemon's workers: one statement, or one commit, a step. *)

At(s, kind, step) == call[s] # None /\ call[s].kind = kind /\ call[s].at = step

HandlerAt(s, step) == call' = [call EXCEPT ![s].at = step] /\ UNCHANGED peer_pc

Return(s) ==
    /\ call' = [call EXCEPT ![s] = None]
    /\ peer_pc' = IF s = 0 THEN After(peer_pc) ELSE peer_pc

(* fault: INSERT OR REPLACE, which empties the other columns *)
UpsertReplacing(report) == db' = [db EXCEPT !.row = report, !.summary = FALSE]

(* fault: INSERT OR IGNORE *)
UpsertIgnoring(report) == db' = [db EXCEPT !.row = IF @ = None THEN report ELSE @]

Upsert(report) == db' = [db EXCEPT !.row = report]

HandleHeartbeat(s) ==
    /\ At(s, "heartbeat", "queued")
    /\ Upsert(call[s].body)
    /\ HandlerAt(s, "written")
    /\ UNCHANGED <<peer, main_pc, answer, disk, failed, crashes>>

(* The event gets a row and a commit of its own. *)
HandleEvent(s) ==
    /\ At(s, "event", "queued")
    /\ disk' = db
    /\ HandlerAt(s, "recorded")
    /\ UNCHANGED <<peer, main_pc, answer, db, failed, crashes>>

(* An UPDATE: a peer without a row gets none. *)
UpdateEventSummary(s) ==
    /\ At(s, "event", "recorded")
    /\ db' = [db EXCEPT !.summary = @ \/ db.row # None]
    /\ HandlerAt(s, "written")
    /\ UNCHANGED <<peer, main_pc, answer, disk, failed, crashes>>

(* fault: what is stored stays *)
HandleTopologyAdding(s) ==
    /\ At(s, "topology", "queued")
    /\ UNCHANGED db
    /\ HandlerAt(s, "writing")
    /\ UNCHANGED <<peer, main_pc, answer, disk, failed, crashes>>

HandleTopology(s) ==
    /\ At(s, "topology", "queued")
    /\ db' = [db EXCEPT !.fragment = {}]
    /\ HandlerAt(s, "writing")
    /\ UNCHANGED <<peer, main_pc, answer, disk, failed, crashes>>

(* A row that another handler has put there meanwhile breaks the key: the *)
(* handler ends without commit or rollback.                               *)
InsertLink(s) ==
    /\ At(s, "topology", "writing")
    /\ call[s].body # {}
    /\ LET l == Min(call[s].body)
       IN  IF l \in db.fragment
           THEN Return(s) /\ UNCHANGED db
           ELSE /\ db' = [db EXCEPT !.fragment = @ \cup {l}]
                /\ call' = [call EXCEPT ![s].body = @ \ {l}]
                /\ UNCHANGED peer_pc
    /\ UNCHANGED <<peer, main_pc, answer, disk, failed, crashes>>

Commit(s) ==
    /\ \/ At(s, "heartbeat", "written") \/ At(s, "event", "written")
       \/ At(s, "topology", "writing") /\ call[s].body = {}
    /\ disk' = db
    /\ Return(s)
    /\ UNCHANGED <<peer, main_pc, answer, db, failed, crashes>>

Handle(s) ==
    \/ HandleHeartbeat(s) \/ HandleEvent(s) \/ UpdateEventSummary(s)
    \/ HandleTopology(s) \/ InsertLink(s) \/ Commit(s)

----------------------------------------------------------------------------
(* The daemon's poll loop: a heartbeat to the peer, whose worker reads the *)
(* severity and then the count.                                            *)

AskPeer ==
    /\ main_pc = "idle"
    /\ main_pc' = "asked"
    /\ UNCHANGED <<peer, peer_pc, call, answer, db, disk, failed, crashes>>

(* fault: the count is read first *)
ReadCountFirst(step) ==
    IF step = "asked" THEN [answer EXCEPT !.count = Total]
    ELSE [answer EXCEPT !.severity = CurrentSeverity]

Read(step) ==
    IF step = "asked" THEN [answer EXCEPT !.severity = CurrentSeverity]
    ELSE [answer EXCEPT !.count = Total]

PeerAnswers ==
    /\ main_pc \in {"asked", "half"}
    /\ answer' = Read(main_pc)
    /\ main_pc' = IF main_pc = "asked" THEN "half" ELSE "answered"
    /\ UNCHANGED <<peer, peer_pc, call, db, disk, failed, crashes>>

(* No answer within the deadline: nothing is written. *)
NoAnswer ==
    /\ main_pc \in {"asked", "half"}
    /\ main_pc' = "idle"
    /\ answer' = NoReport
    /\ UNCHANGED <<peer, peer_pc, call, db, disk, failed, crashes>>

StoreAnswer ==
    /\ main_pc = "answered"
    /\ Upsert(answer)
    /\ main_pc' = "written"
    /\ UNCHANGED <<peer, peer_pc, call, answer, disk, failed, crashes>>

CommitAnswer ==
    /\ main_pc = "written"
    /\ disk' = db
    /\ main_pc' = "idle"
    /\ answer' = NoReport
    /\ UNCHANGED <<peer, peer_pc, call, db, failed, crashes>>

(* Another thread, or the poll loop in another step, commits what it wrote. *)
OtherCommit ==
    /\ disk # db
    /\ disk' = db
    /\ UNCHANGED <<peer, peer_pc, call, main_pc, answer, db, failed, crashes>>

Crash ==
    /\ crashes < MaxCrashes
    /\ crashes' = crashes + 1
    /\ db' = disk
    /\ call' = [s \in Slot |-> None]
    /\ peer_pc' = IF call[0] # None THEN After(peer_pc) ELSE peer_pc
    /\ main_pc' = "idle" /\ answer' = NoReport
    /\ UNCHANGED <<peer, disk, failed>>

PeerLoop == PeerGoesOn \/ ShareEvent \/ SendHeartbeat \/ ShareTopology

Main == AskPeer \/ PeerAnswers \/ NoAnswer \/ StoreAnswer \/ CommitAnswer

Next ==
    \/ FindingAppears \/ LinkAppears \/ PeerLoop \/ CallLost \/ CallTimesOut
    \/ \E s \in Slot : Handle(s)
    \/ Main \/ OtherCommit
    \/ Crash

Spec == Init /\ [][Next]_vars

(* The poll loops run, and a worker is free for each call: there are four. *)
(* The interval between shares passes, as often as the loop asks.          *)
FairSpec ==
    /\ Spec
    /\ WF_vars(PeerLoop) /\ SF_vars(ShareTopology)
    /\ WF_vars(Main)
    /\ \A s \in Slot : WF_vars(Handle(s))

----------------------------------------------------------------------------
TypeOK ==
    /\ counts \in [Severity -> 0 .. MaxFindings] /\ links \subseteq Link
    /\ peer_pc \in {"detect", "event", "heartbeat", "topology"}
    /\ call \in [Slot -> Call \cup {None}]
    /\ main_pc \in {"idle", "asked", "half", "answered", "written"}
    /\ answer \in Report
    /\ db \in Tables /\ disk \in Tables
    /\ failed \in 0 .. MaxFailed /\ crashes \in 0 .. MaxCrashes

(* No row says that a peer is in trouble and has no findings, though its two  *)
(* columns come from two queries, a finding may appear between them, and rows *)
(* from both directions overwrite each other (peer/__init__.py:199-209, 319-  *)
(* 326).                                                                      *)
SevereHasFindings ==
    \A t \in {db, disk} : t.row # None /\ t.row.severity # "ok" => t.row.count > 0

(* What has been committed of a peer stays through a crash, and no heartbeat  *)
(* wipes out what an event has said (state.py:30-63).                         *)
KnownStaysKnown ==
    [][ /\ disk.row # None => disk'.row # None
        /\ disk.summary => disk'.summary ]_vars

(* Stale answers and late calls may overwrite newer rows, and crashes lose     *)
(* rows; once the peer's findings stay the same, the row agrees with them for  *)
(* good.                                                                      *)
TableConverges ==
    <>[](disk.row = [severity |-> CurrentSeverity, count |-> Total])

(* A fragment may be torn by another thread's commit, by a crash or by a late *)
(* call (state.py:108-126); it is whole again and again.                      *)
FragmentRefreshed == []<>(disk.fragment = links)
=============================================================================
