----------------------------- MODULE SeenCache -----------------------------
(***************************************************************************)
(* The dedup cache of one PeerManager with every operation on the          *)
(* OrderedDict a step of its own: the pool threads of the gRPC server      *)
(* (handle_finding) and the poll loop (share_finding) use it without a     *)
(* lock.  FindingGossip takes _mark_seen as one step; this module shows    *)
(* what the interleavings inside it can do to the cache.                   *)
(***************************************************************************)
EXTENDS SeenFindings, FiniteSets

CONSTANTS
    Id,       \* finding ids
    Worker,   \* the pool threads
    Main,     \* the poll-loop thread
    MaxSeen,  \* _MAX_SEEN_FINDINGS
    NoId

ASSUME ThreadAssumption == IsFiniteSet(Worker) /\ Main \notin Worker
ASSUME MaxSeenAssumption == MaxSeen \in Nat \ {0}
ASSUME IdAssumption == NoId \notin Id

Thread == Worker \cup {Main}

VARIABLES
    seen,     \* _seen_finding_ids, oldest first
    since,    \* history: id put last in the cache -> the ids put there after it
    pc,
    arg       \* thread -> the finding_id it handles

vars == <<seen, since, pc, arg>>

PC == {"idle", "has", "member", "move", "length", "pop", "insert"}

----------------------------------------------------------------------------

Init ==
    /\ seen = <<>>
    /\ since = <<>>
    /\ pc = [t \in Thread |-> "idle"]
    /\ arg = [t \in Thread |-> NoId]

Goto(t, from, to) ==
    /\ pc[t] = from
    /\ pc' = [pc EXCEPT ![t] = to]

Return(t, from) ==
    /\ Goto(t, from, "idle")
    /\ arg' = [arg EXCEPT ![t] = NoId]

(* fault: the id is not kept *)
StartNoId(t, id) ==
    /\ Goto(t, "idle", IF t = Main THEN "member" ELSE "has")
    /\ UNCHANGED <<seen, since, arg>>

(* handle_finding asks first; share_finding marks at once. *)
Start(t, id) ==
    /\ Goto(t, "idle", IF t = Main THEN "member" ELSE "has")
    /\ arg' = [arg EXCEPT ![t] = id]
    /\ UNCHANGED <<seen, since>>

(* _has_seen is true: the finding is a duplicate. *)
Hit(t) ==
    /\ HasSeen(seen, arg[t])
    /\ Return(t, "has")
    /\ UNCHANGED <<seen, since>>

Miss(t) ==
    /\ Goto(t, "has", "member")
    /\ ~HasSeen(seen, arg[t])
    /\ UNCHANGED <<seen, since, arg>>

(* finding_id in self._seen_finding_ids *)
Member(t) ==
    /\ Goto(t, "member", IF HasSeen(seen, arg[t]) THEN "move" ELSE "length")
    /\ UNCHANGED <<seen, since, arg>>

(* The id is now the last of the cache. *)
PutLast(id) ==
    since' = [x \in DOMAIN since \cup {id} |-> IF x = id THEN {} ELSE since[x] \cup {id}]

(* fault: a duplicate does not make the id recent *)
MoveLeftOut(t) ==
    /\ HasSeen(seen, arg[t])
    /\ PutLast(arg[t])
    /\ Return(t, "move")
    /\ UNCHANGED seen

Move(t) ==
    /\ HasSeen(seen, arg[t])
    /\ seen' = MoveToEnd(seen, arg[t])
    /\ PutLast(arg[t])
    /\ Return(t, "move")

(* The id has been evicted since: KeyError, which ends the caller's work. *)
MoveRaises(t) ==
    /\ ~HasSeen(seen, arg[t])
    /\ Return(t, "move")
    /\ UNCHANGED <<seen, since>>

(* fault: the cache counts as full one entry late *)
FullOneLate == Len(seen) > MaxSeen

(* fault: room is made whether or not it is needed *)
FullAlways == TRUE

Full == Len(seen) >= MaxSeen

Length(t) ==
    /\ Goto(t, "length", IF Full THEN "pop" ELSE "insert")
    /\ UNCHANGED <<seen, since, arg>>

(* popitem(last=False); on an empty dict it would raise *)
Pop(t) ==
    /\ seen # <<>>
    /\ Goto(t, "pop", "insert")
    /\ seen' = Tail(seen)
    /\ UNCHANGED <<since, arg>>

(* An id another thread has inserted meanwhile keeps its place. *)
Insert(t) ==
    /\ \/ HasSeen(seen, arg[t]) /\ UNCHANGED <<seen, since>>
       \/ ~HasSeen(seen, arg[t]) /\ seen' = Append(seen, arg[t]) /\ PutLast(arg[t])
    /\ Return(t, "insert")

Next ==
    \E t \in Thread :
        \/ \E id \in Id : Start(t, id)
        \/ Hit(t)
        \/ Miss(t)
        \/ Member(t)
        \/ Move(t)
        \/ MoveRaises(t)
        \/ Length(t)
        \/ Pop(t)
        \/ Insert(t)

Spec == Init /\ [][Next]_vars

----------------------------------------------------------------------------

TypeOK ==
    /\ seen \in Seq(Id)
    /\ DOMAIN since \subseteq Id /\ \A id \in DOMAIN since : since[id] \subseteq Id \ {id}
    /\ pc \in [Thread -> PC]
    /\ arg \in [Thread -> Id \cup {NoId}]
    /\ \A t \in Thread : pc[t] # "idle" => arg[t] \in Id

(* Threads that have made up their mind to add one entry. *)
Inserting == {t \in Thread : pc[t] = "insert"}

(* The test of the length and the insertion are apart, so every thread but one *)
(* can add an entry to a full cache; but the excess never grows beyond that, *)
(* however many findings are marked. *)
OvershootBounded == Len(seen) + Cardinality(Inserting) <= MaxSeen + Cardinality(Thread) - 1

(* An id is evicted, oldest first, only while the cache is nearly full: other *)
(* threads may have evicted since the length was tested, one entry each.  So a *)
(* finding stays known until almost MaxSeen others have been marked, and *)
(* popitem never finds the dict empty (it would raise KeyError out of the *)
(* handler or out of the poll cycle). *)
EvictsNearlyFull ==
    \A t \in Thread : pc[t] = "pop" => Len(seen) + Cardinality(Thread) > MaxSeen

(* The cache forgets a finding only after so many others: whatever the        *)
(* threads do between the test, the eviction, the move and the insertion, an  *)
(* id that is in the cache no more was followed by almost MaxSeen other ids   *)
(* since it was put last, so a copy still on its way meets its mark unless    *)
(* that many findings have overtaken it (lines 446-456).                      *)
RemembersRecent ==
    \A id \in DOMAIN since :
        \/ HasSeen(seen, id)
        \/ Cardinality(since[id]) + Cardinality(Thread) >= MaxSeen

============================================================================
