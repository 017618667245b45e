----------------------- MODULE SeenFindingsTheorems -----------------------
(***************************************************************************)
(* What _mark_seen does to the dedup cache, for a cache of any size.       *)
(***************************************************************************)
EXTENDS SeenFindings, SequenceTheorems, FiniteSetTheorems, TLAPS

Distinct(seen) == \A i, j \in DOMAIN seen : seen[i] = seen[j] => i = j

(* The place PositionOf finds is a place of the id in the cache. *)
LEMMA PositionOfProperties ==
    ASSUME NEW S, NEW seen \in Seq(S), NEW id, HasSeen(seen, id)
    PROVE  /\ PositionOf(seen, id) \in 1 .. Len(seen)
           /\ seen[PositionOf(seen, id)] = id
BY DEF HasSeen, PositionOf

(* OrderedDict.move_to_end, place by place: the ids before id stay, those *)
(* behind it move up, and id is last. *)
LEMMA MoveToEndPlaces ==
    ASSUME NEW S, NEW seen \in Seq(S), NEW id \in S, HasSeen(seen, id)
    PROVE  LET i == PositionOf(seen, id)
               moved == MoveToEnd(seen, id)
           IN  /\ moved \in Seq(S)
               /\ Len(moved) = Len(seen)
               /\ \A k \in 1 .. i - 1 : moved[k] = seen[k]
               /\ \A k \in i .. Len(seen) - 1 : moved[k] = seen[k + 1]
               /\ moved[Len(seen)] = id
<1> DEFINE i == PositionOf(seen, id)
           front == SubSeq(seen, 1, i - 1)
           back == SubSeq(seen, i + 1, Len(seen))
<1>1. i \in 1 .. Len(seen) /\ Len(seen) \in Nat
  BY PositionOfProperties
<1> HIDE DEF i
<1>2. /\ front \in Seq(S) /\ Len(front) = i - 1
      /\ \A k \in 1 .. i - 1 : front[k] = seen[k]
  <2>1. \A k \in 1 .. i - 1 : seen[k] \in S
    BY <1>1
  <2>2. QED BY <1>1, <2>1, SubSeqProperties
<1>3. /\ back \in Seq(S) /\ Len(back) = Len(seen) - i
      /\ \A k \in 1 .. Len(seen) - i : back[k] = seen[k + i]
  <2>1. \A k \in i + 1 .. Len(seen) : seen[k] \in S
    BY <1>1
  <2>2. /\ back \in Seq(S)
        /\ Len(back) = IF i + 1 <= Len(seen) THEN Len(seen) - (i + 1) + 1 ELSE 0
        /\ \A k \in 1 .. Len(seen) - (i + 1) + 1 : back[k] = seen[(i + 1) + k - 1]
    BY <1>1, <2>1, SubSeqProperties
  <2>3. QED BY <1>1, <2>2
<1>4. <<id>> \in Seq(S) /\ Len(<<id>>) = 1
  OBVIOUS
<1>5. MoveToEnd(seen, id) = (front \o back) \o <<id>>
  BY DEF MoveToEnd, i
<1> HIDE DEF front, back
<1>6. /\ front \o back \in Seq(S)
      /\ Len(front \o back) = Len(seen) - 1
      /\ \A k \in 1 .. i - 1 : (front \o back)[k] = seen[k]
      /\ \A k \in i .. Len(seen) - 1 : (front \o back)[k] = seen[k + 1]
  <2>1. /\ front \o back \in Seq(S)
        /\ Len(front \o back) = Len(front) + Len(back)
        /\ \A k \in 1 .. Len(front) + Len(back) : (front \o back)[k] =
               IF k <= Len(front) THEN front[k] ELSE back[k - Len(front)]
    BY <1>2, <1>3, ConcatProperties
  <2>2. ASSUME NEW k \in i .. Len(seen) - 1
        PROVE  (front \o back)[k] = seen[k + 1]
    <3>1. /\ k \in 1 .. Len(front) + Len(back) /\ ~(k <= Len(front))
          /\ k - (i - 1) \in 1 .. Len(seen) - i
      BY <1>1, <1>2, <1>3
    <3>2. (front \o back)[k] = back[k - (i - 1)]
      BY <1>2, <2>1, <3>1
    <3>3. back[k - (i - 1)] = seen[(k - (i - 1)) + i]
      BY <1>3, <3>1
    <3>4. (k - (i - 1)) + i = k + 1
      BY <1>1
    <3>5. QED BY <3>2, <3>3, <3>4
  <2>3. Len(front \o back) = Len(seen) - 1
    BY <1>1, <1>2, <1>3, <2>1
  <2>4. ASSUME NEW k \in 1 .. i - 1
        PROVE  (front \o back)[k] = seen[k]
    <3>1. k \in 1 .. Len(front) + Len(back) /\ k <= Len(front)
      BY <1>1, <1>2, <1>3
    <3>2. QED BY <1>2, <2>1, <3>1
  <2>5. QED BY <2>1, <2>2, <2>3, <2>4
<1>7. /\ (front \o back) \o <<id>> \in Seq(S)
      /\ Len((front \o back) \o <<id>>) = Len(seen)
      /\ \A k \in 1 .. Len(seen) - 1 : ((front \o back) \o <<id>>)[k] = (front \o back)[k]
      /\ ((front \o back) \o <<id>>)[Len(seen)] = id
  <2> DEFINE most == front \o back
  <2>1. most \in Seq(S) /\ Len(most) = Len(seen) - 1
    BY <1>6
  <2> HIDE DEF most
  <2>2. QED BY <1>1, <2>1 DEF most
<1>8. QED BY <1>1, <1>5, <1>6, <1>7 DEF i

(* A hit reorders the cache and neither adds, drops nor doubles an id. *)
LEMMA MoveToEndKeeps ==
    ASSUME NEW S, NEW seen \in Seq(S), NEW id \in S, HasSeen(seen, id)
    PROVE  /\ \A x : HasSeen(MoveToEnd(seen, id), x) <=> HasSeen(seen, x)
           /\ Distinct(seen) => Distinct(MoveToEnd(seen, id))
<1> DEFINE i == PositionOf(seen, id)
           moved == MoveToEnd(seen, id)
           from(k) == IF k < i THEN k ELSE IF k < Len(seen) THEN k + 1 ELSE i
<1>1. i \in 1 .. Len(seen) /\ Len(seen) \in Nat /\ seen[i] = id
  BY PositionOfProperties
<1>2. /\ moved \in Seq(S) /\ Len(moved) = Len(seen)
      /\ \A k \in 1 .. Len(seen) : moved[k] = seen[from(k)]
  BY <1>1, MoveToEndPlaces
<1>3. /\ \A k \in 1 .. Len(seen) : from(k) \in 1 .. Len(seen)
      /\ \A k, l \in 1 .. Len(seen) : from(k) = from(l) => k = l
      /\ \A l \in 1 .. Len(seen) : \E k \in 1 .. Len(seen) : from(k) = l
  <2>1. \A l \in 1 .. Len(seen) : \E k \in 1 .. Len(seen) : from(k) = l
    <3>1. TAKE l \in 1 .. Len(seen)
    <3>2. CASE l < i
      BY <1>1, <3>2
    <3>3. CASE l = i
      <4>1. from(Len(seen)) = i
        BY <1>1
      <4>2. QED BY <1>1, <3>3, <4>1
    <3>4. CASE l > i
      <4>1. l - 1 \in 1 .. Len(seen) /\ from(l - 1) = l
        BY <1>1, <3>4
      <4>2. QED BY <4>1
    <3>5. QED BY <1>1, <3>2, <3>3, <3>4
  <2>2. \A k \in 1 .. Len(seen) : from(k) \in 1 .. Len(seen)
    BY <1>1
  <2>3. \A k, l \in 1 .. Len(seen) : from(k) = from(l) => k = l
    BY <1>1
  <2>4. QED BY <2>1, <2>2, <2>3
<1> HIDE DEF i, moved, from
<1>4. /\ DOMAIN moved = 1 .. Len(seen)
      /\ DOMAIN seen = 1 .. Len(seen)
  BY <1>2
<1>5. \A x : HasSeen(moved, x) <=> HasSeen(seen, x)
  BY <1>2, <1>3, <1>4 DEF HasSeen
<1>6. Distinct(seen) => Distinct(moved)
  BY <1>2, <1>3, <1>4 DEF Distinct
<1>7. QED BY <1>5, <1>6 DEF moved

(* The insertion of an id that is not there, and the eviction of the oldest. *)
LEMMA AppendKeeps ==
    ASSUME NEW S, NEW seen \in Seq(S), NEW id \in S
    PROVE  /\ Append(seen, id) \in Seq(S) /\ Len(Append(seen, id)) = Len(seen) + 1
           /\ \A x : HasSeen(Append(seen, id), x) <=> HasSeen(seen, x) \/ x = id
           /\ Distinct(seen) /\ ~HasSeen(seen, id) => Distinct(Append(seen, id))
<1>1. /\ Append(seen, id) \in Seq(S) /\ Len(Append(seen, id)) = Len(seen) + 1
      /\ \A k \in 1 .. Len(seen) : Append(seen, id)[k] = seen[k]
      /\ Append(seen, id)[Len(seen) + 1] = id
  OBVIOUS
<1>2. /\ DOMAIN seen = 1 .. Len(seen) /\ Len(seen) \in Nat
      /\ DOMAIN Append(seen, id) = 1 .. Len(seen) + 1
  BY <1>1
<1>3. \A x : HasSeen(Append(seen, id), x) <=> HasSeen(seen, x) \/ x = id
  <2>1. ASSUME NEW x, HasSeen(Append(seen, id), x), x # id
        PROVE  HasSeen(seen, x)
    <3>1. PICK k \in 1 .. Len(seen) + 1 : Append(seen, id)[k] = x
      BY <1>2, <2>1 DEF HasSeen
    <3>2. k \in 1 .. Len(seen)
      BY <1>1, <1>2, <2>1, <3>1
    <3>3. QED BY <1>1, <1>2, <3>1, <3>2 DEF HasSeen
  <2>2. QED BY <1>1, <1>2, <2>1 DEF HasSeen
<1>4. Distinct(seen) /\ ~HasSeen(seen, id) => Distinct(Append(seen, id))
  BY <1>1, <1>2 DEF HasSeen, Distinct
<1>5. QED BY <1>1, <1>3, <1>4

(* The eviction of the oldest id forgets that id and no other. *)
LEMMA TailKeeps ==
    ASSUME NEW S, NEW seen \in Seq(S), seen # <<>>
    PROVE  /\ Tail(seen) \in Seq(S) /\ Len(Tail(seen)) = Len(seen) - 1
           /\ \A x : HasSeen(Tail(seen), x) => HasSeen(seen, x)
           /\ \A x : HasSeen(seen, x) => HasSeen(Tail(seen), x) \/ x = Head(seen)
           /\ Distinct(seen) => Distinct(Tail(seen))
<1>1. /\ Tail(seen) \in Seq(S) /\ Len(Tail(seen)) = Len(seen) - 1
      /\ Head(seen) = seen[1]
      /\ \A k \in 1 .. Len(seen) - 1 : Tail(seen)[k] = seen[k + 1]
  OBVIOUS
<1>2. /\ DOMAIN seen = 1 .. Len(seen) /\ Len(seen) \in Nat \ {0}
      /\ DOMAIN Tail(seen) = 1 .. Len(seen) - 1
  BY <1>1
<1>3. \A x : HasSeen(Tail(seen), x) => HasSeen(seen, x)
  BY <1>1, <1>2 DEF HasSeen
<1>4. ASSUME NEW x, HasSeen(seen, x), x # Head(seen)
      PROVE  HasSeen(Tail(seen), x)
  <2>1. PICK k \in 1 .. Len(seen) : seen[k] = x
    BY <1>2, <1>4 DEF HasSeen
  <2>2. k - 1 \in 1 .. Len(seen) - 1 /\ Tail(seen)[k - 1] = x
    BY <1>1, <1>2, <1>4, <2>1
  <2>3. QED BY <1>2, <2>2 DEF HasSeen
<1>5. Distinct(seen) => Distinct(Tail(seen))
  BY <1>1, <1>2 DEF Distinct
<1>6. QED BY <1>1, <1>3, <1>4, <1>5

(* One call of _mark_seen that nobody disturbs: the id is known afterwards, the *)
(* cache has no more than max ids and no id twice, and of the ids known before *)
(* only the oldest may be gone. *)
THEOREM MarkSeenProperties ==
    ASSUME NEW S, NEW seen \in Seq(S), NEW id \in S, NEW max \in Nat \ {0}
    PROVE  LET marked == MarkSeen(seen, id, max)
           IN  /\ marked \in Seq(S)
               /\ HasSeen(marked, id)
               /\ Len(seen) <= max => Len(marked) <= max
               /\ Distinct(seen) => Distinct(marked)
               /\ \A x : HasSeen(marked, x) => HasSeen(seen, x) \/ x = id
               /\ \A x : HasSeen(seen, x) => HasSeen(marked, x) \/ x = Head(seen)
<1> DEFINE marked == MarkSeen(seen, id, max)
<1>1. CASE HasSeen(seen, id)
  <2>1. marked = MoveToEnd(seen, id)
    BY <1>1 DEF MarkSeen
  <2>2. marked \in Seq(S) /\ Len(marked) = Len(seen)
    BY <1>1, <2>1, MoveToEndPlaces
  <2>3. QED BY <1>1, <2>1, <2>2, MoveToEndKeeps
<1>2. CASE ~HasSeen(seen, id) /\ Len(seen) >= max
  <2>1. marked = Append(Tail(seen), id) /\ seen # <<>>
    BY <1>2 DEF MarkSeen
  <2>2. Tail(seen) \in Seq(S) /\ ~HasSeen(Tail(seen), id) /\ Len(Tail(seen)) = Len(seen) - 1
    BY <1>2, <2>1, TailKeeps
  <2>3. /\ Distinct(seen) => Distinct(Tail(seen))
        /\ \A x : HasSeen(Tail(seen), x) => HasSeen(seen, x)
        /\ \A x : HasSeen(seen, x) => HasSeen(Tail(seen), x) \/ x = Head(seen)
    BY <2>1, TailKeeps
  <2> DEFINE rest == Tail(seen)
  <2> HIDE DEF rest
  <2>4. /\ Append(rest, id) \in Seq(S) /\ Len(Append(rest, id)) = Len(rest) + 1
        /\ \A x : HasSeen(Append(rest, id), x) <=> HasSeen(rest, x) \/ x = id
        /\ Distinct(rest) => Distinct(Append(rest, id))
    BY <2>2, AppendKeeps DEF rest
  <2>5. QED BY <2>1, <2>2, <2>3, <2>4 DEF rest
<1>3. CASE ~HasSeen(seen, id) /\ ~(Len(seen) >= max)
  <2>1. marked = Append(seen, id)
    BY <1>3 DEF MarkSeen
  <2>2. QED BY <1>3, <2>1, AppendKeeps
<1>4. QED BY <1>1, <1>2, <1>3

(* A cache that has room for every id there is never evicts one: the call adds *)
(* the id and forgets nothing. *)
LEMMA MarkSeenWithRoom ==
    ASSUME NEW N \in Nat, NEW max \in Nat, N <= max,
           NEW seen \in Seq(1 .. N), Distinct(seen), NEW id \in 1 .. N
    PROVE  /\ MarkSeen(seen, id, max) \in Seq(1 .. N)
           /\ Distinct(MarkSeen(seen, id, max))
           /\ \A x : HasSeen(MarkSeen(seen, id, max), x) <=> HasSeen(seen, x) \/ x = id
<1>1. CASE HasSeen(seen, id)
  <2>1. MarkSeen(seen, id, max) = MoveToEnd(seen, id)
    BY <1>1 DEF MarkSeen
  <2>2. MoveToEnd(seen, id) \in Seq(1 .. N)
    BY <1>1, MoveToEndPlaces
  <2>3. QED BY <1>1, <2>1, <2>2, MoveToEndKeeps
<1>2. CASE ~HasSeen(seen, id)
  <2> DEFINE longer == Append(seen, id)
             size == Len(seen) + 1
  <2>1. /\ longer \in Seq(1 .. N) /\ Len(longer) = size /\ Distinct(longer)
        /\ \A x : HasSeen(longer, x) <=> HasSeen(seen, x) \/ x = id
    BY <1>2, AppendKeeps
  <2> HIDE DEF longer
  <2>2. size \in Nat /\ longer \in [1 .. size -> 1 .. N]
    BY <2>1
  <2>3. size <= N
    <3> SUFFICES ASSUME ~(size <= N) PROVE FALSE
      OBVIOUS
    <3>1. /\ IsFiniteSet(1 .. size) /\ Cardinality(1 .. size) = size
          /\ IsFiniteSet(1 .. N) /\ Cardinality(1 .. N) = N
      <4>1. 1 <= size /\ 0 <= N
        BY <2>2
      <4>2. QED BY <2>2, <4>1, FS_Interval
    <3>2. Cardinality(1 .. N) < Cardinality(1 .. size)
      BY <2>2, <3>1
    <3>3. \E i, j \in 1 .. size : i # j /\ longer[i] = longer[j]
      BY <2>2, <3>1, <3>2, FS_PigeonHole
    <3>4. QED BY <2>1, <2>2, <3>3 DEF Distinct
  <2>4. MarkSeen(seen, id, max) = longer
    BY <1>2, <2>3 DEF MarkSeen, longer
  <2>5. QED BY <2>1, <2>4
<1>3. QED BY <1>1, <1>2

============================================================================
