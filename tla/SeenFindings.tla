---------------------------- MODULE SeenFindings ----------------------------
(***************************************************************************)
(* The set of finding ids a PeerManager has seen: an OrderedDict used as a *)
(* bounded set (peer/__init__.py, _mark_seen and _has_seen).  It is a      *)
(* sequence without repetitions, oldest id first.                          *)
(***************************************************************************)
EXTENDS Naturals, Sequences

HasSeen(seen, id) == \E i \in DOMAIN seen : seen[i] = id

PositionOf(seen, id) == CHOOSE i \in DOMAIN seen : seen[i] = id

(* OrderedDict.move_to_end *)
MoveToEnd(seen, id) ==
    LET i == PositionOf(seen, id)
    IN  SubSeq(seen, 1, i - 1) \o SubSeq(seen, i + 1, Len(seen)) \o <<id>>

(* popitem(last=False) when full, then the insertion *)
MarkSeen(seen, id, max) ==
    IF HasSeen(seen, id) THEN MoveToEnd(seen, id)
    ELSE IF Len(seen) >= max THEN Append(Tail(seen), id)
    ELSE Append(seen, id)

============================================================================
