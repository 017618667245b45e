-------------------------- MODULE SeenCacheProofs --------------------------
(***************************************************************************)
(* The invariants of SeenCache for any number of threads and ids and any   *)
(* size of the cache: how far it grows, when it evicts, and how many other *)
(* marks it takes to forget an id.                                         *)
(***************************************************************************)
EXTENDS SeenCache, SeenFindingsTheorems, FiniteSetTheorems

Popping == {t \in Thread : pc[t] = "pop"}

(* Whoever is about to evict found the cache full, and each of the others that *)
(* are not about to evict may have taken one entry away since. *)
EvictionBudget ==
    Popping # {} => Len(seen) + Cardinality(Thread) >= MaxSeen + Cardinality(Popping)

(* The history agrees with the order of the cache: what stands behind an id was *)
(* put there after it. *)
Behind ==
    /\ \A i \in 1 .. Len(seen) : seen[i] \in DOMAIN since
    /\ \A i, j \in 1 .. Len(seen) : i < j => seen[j] \in since[seen[i]]
    /\ \A id \in DOMAIN since : IsFiniteSet(since[id])

(* The cache and its history; the keys of a dict are distinct. *)
Ordered == Distinct(seen) /\ Behind /\ RemembersRecent

IInv == TypeOK /\ OvershootBounded /\ EvictionBudget /\ Ordered

----------------------------------------------------------------------------

(* There are finitely many threads, and at least the poll loop. *)
LEMMA ThreadFinite == IsFiniteSet(Thread) /\ Cardinality(Thread) \in Nat \ {0}
<1>1. IsFiniteSet(Thread)
  BY ThreadAssumption, FS_AddElement DEF Thread
<1>2. Thread # {}
  BY DEF Thread
<1>3. QED BY <1>1, <1>2, FS_CardinalityType, FS_EmptySet

(* Sets of threads are finite and at most as large as Thread. *)
LEMMA ThreadsCount ==
    ASSUME NEW T \in SUBSET Thread
    PROVE  IsFiniteSet(T) /\ Cardinality(T) \in Nat /\ Cardinality(T) <= Cardinality(Thread)
BY ThreadFinite, FS_Subset, FS_CardinalityType

(* The two sets that the budgets count, as numbers. *)
LEMMA Sizes ==
    /\ Cardinality(Inserting) \in Nat /\ Cardinality(Inserting) <= Cardinality(Thread)
    /\ Cardinality(Popping) \in Nat /\ Cardinality(Popping) <= Cardinality(Thread)
BY ThreadsCount DEF Inserting, Popping

(* How one step of the thread t changes the two sets that the budgets count. *)
LEMMA CountsAfterGoto ==
    ASSUME TypeOK, NEW t \in Thread, NEW from \in PC, NEW to \in PC, Goto(t, from, to)
    PROVE  /\ Inserting' = IF to = "insert" THEN Inserting \cup {t} ELSE Inserting \ {t}
           /\ Popping' = IF to = "pop" THEN Popping \cup {t} ELSE Popping \ {t}
           /\ t \in Inserting <=> from = "insert"
           /\ t \in Popping <=> from = "pop"
           /\ pc' \in [Thread -> PC]
BY DEF TypeOK, Goto, Inserting, Popping

(* One step of t changes the size of either set by at most one: by t itself. *)
LEMMA SizesAfterGoto ==
    ASSUME TypeOK, NEW t \in Thread, NEW from \in PC, NEW to \in PC, Goto(t, from, to),
           from # to
    PROVE  /\ Cardinality(Inserting)' = IF to = "insert" THEN Cardinality(Inserting) + 1
                                        ELSE IF from = "insert" THEN Cardinality(Inserting) - 1
                                        ELSE Cardinality(Inserting)
           /\ Cardinality(Popping)' = IF to = "pop" THEN Cardinality(Popping) + 1
                                      ELSE IF from = "pop" THEN Cardinality(Popping) - 1
                                      ELSE Cardinality(Popping)
<1>1. IsFiniteSet(Inserting) /\ IsFiniteSet(Popping)
  BY ThreadsCount DEF Inserting, Popping
<1>2. /\ Cardinality(Inserting \cup {t}) =
             IF t \in Inserting THEN Cardinality(Inserting) ELSE Cardinality(Inserting) + 1
      /\ Cardinality(Inserting \ {t}) =
             IF t \in Inserting THEN Cardinality(Inserting) - 1 ELSE Cardinality(Inserting)
      /\ Cardinality(Popping \cup {t}) =
             IF t \in Popping THEN Cardinality(Popping) ELSE Cardinality(Popping) + 1
      /\ Cardinality(Popping \ {t}) =
             IF t \in Popping THEN Cardinality(Popping) - 1 ELSE Cardinality(Popping)
  BY <1>1, FS_AddElement, FS_RemoveElement
<1>3. /\ Inserting' = IF to = "insert" THEN Inserting \cup {t} ELSE Inserting \ {t}
      /\ Popping' = IF to = "pop" THEN Popping \cup {t} ELSE Popping \ {t}
      /\ t \in Inserting <=> from = "insert"
      /\ t \in Popping <=> from = "pop"
  BY CountsAfterGoto
<1>4. Cardinality(Inserting') = IF to = "insert" THEN Cardinality(Inserting) + 1
                                ELSE IF from = "insert" THEN Cardinality(Inserting) - 1
                                ELSE Cardinality(Inserting)
  <2>1. CASE to = "insert"
    BY <1>2, <1>3, <2>1
  <2>2. CASE to # "insert"
    BY <1>2, <1>3, <2>2
  <2>3. QED BY <2>1, <2>2
<1>5. Cardinality(Popping') = IF to = "pop" THEN Cardinality(Popping) + 1
                              ELSE IF from = "pop" THEN Cardinality(Popping) - 1
                              ELSE Cardinality(Popping)
  <2>1. CASE to = "pop"
    BY <1>2, <1>3, <2>1
  <2>2. CASE to # "pop"
    BY <1>2, <1>3, <2>2
  <2>3. QED BY <2>1, <2>2
<1>6. QED BY <1>4, <1>5

----------------------------------------------------------------------------

(* Whoever evicts has found the cache nearly full. *)
LEMMA EvictsNearlyFullFollows == IInv => EvictsNearlyFull
<1> SUFFICES ASSUME IInv, NEW t \in Thread, pc[t] = "pop"
               PROVE  Len(seen) + Cardinality(Thread) > MaxSeen
    BY DEF EvictsNearlyFull
<1>1. Popping # {} /\ IsFiniteSet(Popping)
    BY ThreadsCount DEF Popping
<1>2. Cardinality(Popping) \in Nat \ {0}
    BY <1>1, FS_EmptySet, FS_CardinalityType
<1>3. Len(seen) \in Nat
    BY DEF IInv, TypeOK
<1>4. QED BY <1>1, <1>2, <1>3, ThreadFinite, MaxSeenAssumption DEF IInv, EvictionBudget

(* The ids in a cache without repetitions are as many as its places, and those *)
(* behind the first one fewer. *)
LEMMA BehindTheFirst ==
    ASSUME seen \in Seq(Id), seen # <<>>, Distinct(seen)
    PROVE  LET back == {seen[j] : j \in 2 .. Len(seen)}
           IN  IsFiniteSet(back) /\ Cardinality(back) = Len(seen) - 1
<1> DEFINE n == Len(seen)
           back == {seen[j] : j \in 2 .. n}
           f == [j \in 2 .. n |-> seen[j]]
<1>1. n \in Nat \ {0} /\ \A j \in 1 .. n : seen[j] \in Id
  OBVIOUS
<1>2. IsFiniteSet(2 .. n) /\ Cardinality(2 .. n) = n - 1
  BY <1>1, FS_Interval
<1>3. f \in Bijection(2 .. n, back)
  <2>1. f \in [2 .. n -> back]
    OBVIOUS
  <2>2. \A i, j \in 2 .. n : f[i] = f[j] => i = j
    BY <1>1 DEF Distinct
  <2>3. \A x \in back : \E j \in 2 .. n : f[j] = x
    OBVIOUS
  <2> HIDE DEF f, back
  <2>4. f \in Injection(2 .. n, back) /\ f \in Surjection(2 .. n, back)
    BY <2>1, <2>2, <2>3 DEF Injection, Surjection, IsInjective
  <2>5. QED BY <2>4 DEF Bijection
<1> HIDE DEF f, back, n
<1>4. ExistsBijection(2 .. n, back)
  BY <1>3 DEF ExistsBijection
<1>5. IsFiniteSet(back) /\ Cardinality(back) = Cardinality(2 .. n)
  BY <1>2, <1>4, FS_Bijection
<1>6. QED BY <1>2, <1>5 DEF n, back

(* An id that becomes the last of the cache, while the others keep their order, *)
(* leaves the history right. *)
LEMMA PutLastKeeps ==
    ASSUME TypeOK, Ordered, NEW id \in Id, PutLast(id),
           seen' \in Seq(Id), seen' # <<>>, seen'[Len(seen')] = id, Distinct(seen'),
           \A i, j \in 1 .. Len(seen') - 1 : i < j =>
               \E a, b \in 1 .. Len(seen) : a < b /\ seen[a] = seen'[i] /\ seen[b] = seen'[j],
           \A i \in 1 .. Len(seen') - 1 : \E a \in 1 .. Len(seen) : seen[a] = seen'[i],
           \A x : HasSeen(seen, x) => HasSeen(seen', x)
    PROVE  Ordered'
<1> USE DEF Ordered
<1>1. /\ DOMAIN since' = DOMAIN since \cup {id}
      /\ since'[id] = {}
      /\ \A x \in DOMAIN since : x # id => since'[x] = since[x] \cup {id}
  BY DEF PutLast
<1>2. Len(seen') \in Nat \ {0} /\ Len(seen) \in Nat
  BY DEF TypeOK
<1>3. \A i \in 1 .. Len(seen') - 1 : seen'[i] # id /\ seen'[i] \in DOMAIN since
  <2> SUFFICES ASSUME NEW i \in 1 .. Len(seen') - 1
               PROVE  seen'[i] # id /\ seen'[i] \in DOMAIN since
    OBVIOUS
  <2>1. i \in 1 .. Len(seen') /\ Len(seen') \in 1 .. Len(seen') /\ i # Len(seen')
    BY <1>2
  <2>2. seen'[i] # id
    BY <2>1 DEF Distinct
  <2>3. QED BY <2>2 DEF Behind
<1>4. \A i \in 1 .. Len(seen') : i = Len(seen') \/ i \in 1 .. Len(seen') - 1
  BY <1>2
<1>5. ASSUME NEW i \in 1 .. Len(seen'), NEW j \in 1 .. Len(seen'), i < j
      PROVE  seen'[j] \in since'[seen'[i]]
  <2>1. i \in 1 .. Len(seen') - 1
    BY <1>2, <1>5
  <2>2. since'[seen'[i]] = since[seen'[i]] \cup {id}
    BY <1>1, <1>3, <2>1
  <2>3. CASE j = Len(seen')
    BY <2>2, <2>3
  <2>4. CASE j \in 1 .. Len(seen') - 1
    <3>1. PICK a \in 1 .. Len(seen), b \in 1 .. Len(seen) :
              a < b /\ seen[a] = seen'[i] /\ seen[b] = seen'[j]
      BY <1>5, <2>1, <2>4
    <3>2. seen[b] \in since[seen[a]]
      BY <3>1 DEF Behind
    <3>3. QED BY <2>2, <3>1, <3>2
  <2>5. QED BY <1>4, <2>3, <2>4
<1>6. \A x \in DOMAIN since' : IsFiniteSet(since'[x])
  <2> SUFFICES ASSUME NEW x \in DOMAIN since' PROVE IsFiniteSet(since'[x])
    OBVIOUS
  <2>1. CASE x = id
    BY <1>1, <2>1, FS_EmptySet
  <2>2. CASE x # id
    <3>1. x \in DOMAIN since /\ since'[x] = since[x] \cup {id}
      BY <1>1, <2>2
    <3>2. IsFiniteSet(since[x])
      BY <3>1 DEF Behind
    <3>3. IsFiniteSet(since[x] \cup {id})
      BY <3>2, FS_AddElement
    <3>4. QED BY <3>1, <3>3
  <2>3. QED BY <2>1, <2>2
<1>7. Behind'
  <2>1. \A i \in 1 .. Len(seen') : seen'[i] \in DOMAIN since'
    BY <1>1, <1>3, <1>4
  <2>2. QED BY <1>5, <1>6, <2>1 DEF Behind
<1>8. ASSUME NEW x \in DOMAIN since', ~HasSeen(seen', x)
      PROVE  Cardinality(since'[x]) + Cardinality(Thread) >= MaxSeen
  <2>1. HasSeen(seen', id)
    <3>1. Len(seen') \in DOMAIN seen'
      BY <1>2
    <3>2. QED BY <3>1 DEF HasSeen
  <2>2. x # id /\ x \in DOMAIN since /\ ~HasSeen(seen, x)
    BY <1>1, <1>8, <2>1
  <2>3. Cardinality(since[x]) + Cardinality(Thread) >= MaxSeen /\ IsFiniteSet(since[x])
    BY <2>2 DEF RemembersRecent, Behind
  <2>4. /\ Cardinality(since[x] \cup {id}) >= Cardinality(since[x])
        /\ Cardinality(since[x] \cup {id}) \in Nat /\ Cardinality(since[x]) \in Nat
    BY <2>3, FS_AddElement, FS_CardinalityType
  <2>5. since'[x] = since[x] \cup {id}
    BY <1>1, <2>2
  <2>6. QED BY <2>3, <2>4, <2>5, ThreadFinite, MaxSeenAssumption
<1>9. QED BY <1>7, <1>8 DEF RemembersRecent

(* Eviction takes the oldest: the rest of the cache was put there after it. *)
LEMMA TailForgetsTheOldest ==
    ASSUME TypeOK, Ordered, seen # <<>>, seen' = Tail(seen), since' = since,
           Len(seen) + Cardinality(Thread) > MaxSeen
    PROVE  Ordered'
<1> USE DEF Ordered
<1>1. /\ seen \in Seq(Id) /\ Len(seen) \in Nat \ {0}
      /\ Len(seen') = Len(seen) - 1
      /\ \A i \in 1 .. Len(seen') : i + 1 \in 1 .. Len(seen) /\ seen'[i] = seen[i + 1]
  BY DEF TypeOK
<1>2. Distinct(seen')
  BY <1>1, TailKeeps DEF Distinct
<1>3. Behind'
  <2>1. \A i, j \in 1 .. Len(seen') : i < j => i + 1 < j + 1
    BY <1>1
  <2>2. QED BY <1>1, <2>1 DEF Behind
<1>4. ASSUME NEW x \in DOMAIN since, ~HasSeen(seen', x)
      PROVE  Cardinality(since[x]) + Cardinality(Thread) >= MaxSeen
  <2>1. CASE ~HasSeen(seen, x)
    BY <2>1 DEF RemembersRecent
  <2>2. CASE HasSeen(seen, x)
    <3>1. PICK i \in 1 .. Len(seen) : seen[i] = x
      BY <1>1, <2>2 DEF HasSeen
    <3>2. i = 1
      <4> SUFFICES ASSUME i # 1 PROVE FALSE
        OBVIOUS
      <4>1. i - 1 \in 1 .. Len(seen') /\ (i - 1) + 1 = i
        BY <1>1
      <4>2. seen'[i - 1] = x /\ i - 1 \in DOMAIN seen'
        BY <1>1, <3>1, <4>1
      <4>3. QED BY <1>4, <4>2 DEF HasSeen
    <3> DEFINE back == {seen[j] : j \in 2 .. Len(seen)}
    <3>3. IsFiniteSet(back) /\ Cardinality(back) = Len(seen) - 1
      BY <1>1, BehindTheFirst
    <3>4. back \subseteq since[x]
      BY <1>1, <3>1, <3>2 DEF Behind
    <3>5. IsFiniteSet(since[x])
      BY DEF Behind
    <3> HIDE DEF back
    <3>6. Cardinality(back) <= Cardinality(since[x]) /\ Cardinality(since[x]) \in Nat
      BY <3>4, <3>5, FS_Subset, FS_CardinalityType
    <3>7. QED BY <1>1, <3>3, <3>6, ThreadFinite, MaxSeenAssumption
  <2>3. QED BY <2>1, <2>2
<1>5. QED BY <1>2, <1>3, <1>4 DEF RemembersRecent

(* An empty cache that nobody uses satisfies the inductive invariant. *)
LEMMA InitEstablishes == Init => IInv
<1> SUFFICES ASSUME Init PROVE IInv
  OBVIOUS
<1>1. TypeOK
  BY DEF Init, TypeOK, PC
<1>2. Inserting = {} /\ Popping = {}
  BY DEF Init, Inserting, Popping
<1>3. Len(seen) = 0 /\ Ordered
  BY DEF Init, Ordered, Distinct, Behind, RemembersRecent
<1>4. OvershootBounded
  BY <1>2, <1>3, FS_EmptySet, ThreadFinite, MaxSeenAssumption DEF OvershootBounded
<1>5. QED BY <1>1, <1>2, <1>3, <1>4 DEF IInv, EvictionBudget

(* A step that neither inserts, evicts nor decides to: only the order in the *)
(* cache may change. *)
LEMMA QuietStep ==
    ASSUME IInv, NEW t \in Thread, NEW from \in PC, NEW to \in PC, Goto(t, from, to),
           from # to, from \notin {"insert", "pop"}, to \notin {"insert", "pop"},
           TypeOK', Len(seen') = Len(seen), Ordered'
    PROVE  IInv'
<1>1. /\ Cardinality(Inserting)' = Cardinality(Inserting)
      /\ Cardinality(Popping)' = Cardinality(Popping)
      /\ Popping' = Popping
  BY SizesAfterGoto, CountsAfterGoto DEF IInv
<1>2. OvershootBounded' /\ EvictionBudget'
  BY <1>1 DEF IInv, OvershootBounded, EvictionBudget
<1>3. QED BY <1>2 DEF IInv

(* Each step of _has_seen and _mark_seen keeps the inductive invariant. *)
LEMMA NextPreserves == IInv /\ [Next]_vars => IInv'
<1> SUFFICES ASSUME IInv, [Next]_vars PROVE IInv'
  OBVIOUS
<1> USE DEF IInv
<1>1. seen \in Seq(Id) /\ Len(seen) \in Nat /\ Cardinality(Thread) \in Nat \ {0}
  BY ThreadFinite DEF TypeOK
<1>0. ASSUME UNCHANGED <<seen, since>> PROVE Ordered' /\ Len(seen') = Len(seen)
  BY <1>0 DEF Ordered, Distinct, Behind, RemembersRecent
<1>2. ASSUME NEW t \in Thread, NEW id \in Id, Start(t, id)
      PROVE  IInv'
  <2>1. TypeOK'
    BY <1>2 DEF Start, Goto, TypeOK, PC
  <2>2. QED BY <1>0, <1>2, <2>1, QuietStep DEF Start, PC
<1>3. ASSUME NEW t \in Thread, Hit(t)
      PROVE  IInv'
  <2>1. TypeOK'
    BY <1>3, IdAssumption DEF Hit, Return, Goto, TypeOK, PC
  <2>2. QED BY <1>0, <1>3, <2>1, QuietStep DEF Hit, Return, PC
<1>4. ASSUME NEW t \in Thread, Miss(t)
      PROVE  IInv'
  <2>1. TypeOK'
    BY <1>4 DEF Miss, Goto, TypeOK, PC
  <2>2. QED BY <1>0, <1>4, <2>1, QuietStep DEF Miss, PC
<1>5. ASSUME NEW t \in Thread, Member(t)
      PROVE  IInv'
  <2>1. TypeOK'
    BY <1>5 DEF Member, Goto, TypeOK, PC
  <2>2. QED BY <1>0, <1>5, <2>1, QuietStep DEF Member, PC
<1>6. ASSUME NEW t \in Thread, Move(t)
      PROVE  IInv'
  <2>1. arg[t] \in Id
    BY <1>6 DEF Move, Return, Goto, TypeOK
  <2>2. seen' \in Seq(Id) /\ Len(seen') = Len(seen)
    BY <1>6, <2>1, MoveToEndPlaces DEF Move, TypeOK
  <2>3. Ordered'
    <3> DEFINE i == PositionOf(seen, arg[t])
    <3>1. /\ i \in 1 .. Len(seen) /\ seen'[Len(seen)] = arg[t]
          /\ \A k \in 1 .. i - 1 : seen'[k] = seen[k]
          /\ \A k \in i .. Len(seen) - 1 : seen'[k] = seen[k + 1]
      BY <1>1, <1>6, <2>1, MoveToEndPlaces, PositionOfProperties DEF Move
    <3>2. Distinct(seen') /\ \A x : HasSeen(seen, x) => HasSeen(seen', x)
      BY <1>1, <1>6, <2>1, MoveToEndKeeps DEF Move, Ordered, Distinct
    <3> HIDE DEF i
    <3>3. DEFINE From(k) == IF k < i THEN k ELSE k + 1
    <3>4. \A k \in 1 .. Len(seen) - 1 : From(k) \in 1 .. Len(seen) /\ seen'[k] = seen[From(k)]
      BY <1>1, <3>1
    <3>5. \A j, k \in 1 .. Len(seen) - 1 : j < k => From(j) < From(k)
      BY <1>1, <3>1
    <3> HIDE DEF From
    <3>6. /\ seen' # <<>> /\ seen'[Len(seen')] = arg[t] /\ PutLast(arg[t])
          /\ seen' \in Seq(Id) /\ TypeOK /\ Ordered
      <4>1. Len(seen') >= 1
        BY <1>1, <2>2, <3>1
      <4>2. seen' # <<>>
        BY <4>1
      <4>3. QED BY <1>6, <2>2, <3>1, <4>2 DEF Move
    <3>7. \A j, k \in 1 .. Len(seen') - 1 : j < k =>
              \E a, b \in 1 .. Len(seen) : a < b /\ seen[a] = seen'[j] /\ seen[b] = seen'[k]
      BY <2>2, <3>4, <3>5
    <3>8. \A k \in 1 .. Len(seen') - 1 : \E a \in 1 .. Len(seen) : seen[a] = seen'[k]
      BY <2>2, <3>4
    <3>9. QED BY <2>1, <3>2, <3>6, <3>7, <3>8, PutLastKeeps
  <2>4. TypeOK'
    BY <1>6, <2>1, <2>2 DEF Move, PutLast, Return, Goto, TypeOK, PC
  <2>5. QED BY <1>6, <2>2, <2>3, <2>4, QuietStep DEF Move, Return, PC
<1>7. ASSUME NEW t \in Thread, MoveRaises(t)
      PROVE  IInv'
  <2>1. TypeOK'
    BY <1>7 DEF MoveRaises, Return, Goto, TypeOK, PC
  <2>2. QED BY <1>0, <1>7, <2>1, QuietStep DEF MoveRaises, Return, PC
<1>8. ASSUME NEW t \in Thread, Length(t)
      PROVE  IInv'
  <2>1. TypeOK' /\ Ordered' /\ seen' = seen
    BY <1>0, <1>8 DEF Length, Goto, TypeOK, PC
  <2>2. CASE Len(seen) >= MaxSeen
    <3>1. Goto(t, "length", "pop")
      BY <1>8, <2>2 DEF Length, Full
    <3>2. /\ Cardinality(Inserting)' = Cardinality(Inserting)
          /\ Cardinality(Popping)' = Cardinality(Popping) + 1
          /\ Cardinality(Popping)' <= Cardinality(Thread)
      <4>1. /\ Cardinality(Inserting)' = Cardinality(Inserting)
            /\ Cardinality(Popping)' = Cardinality(Popping) + 1
        BY <3>1, SizesAfterGoto DEF PC
      <4>2. Popping' \in SUBSET Thread
        BY DEF Popping
      <4>3. QED BY <4>1, <4>2, ThreadsCount
    <3>3. OvershootBounded'
      BY <2>1, <3>2 DEF OvershootBounded
    <3>4. EvictionBudget'
      BY <1>1, <2>1, <2>2, <3>2, Sizes, MaxSeenAssumption DEF EvictionBudget
    <3>5. QED BY <2>1, <3>3, <3>4
  <2>3. CASE ~(Len(seen) >= MaxSeen)
    <3>1. Goto(t, "length", "insert")
      BY <1>8, <2>3 DEF Length, Full
    <3>2. /\ Cardinality(Inserting)' = Cardinality(Inserting) + 1
          /\ Cardinality(Popping)' = Cardinality(Popping)
          /\ Popping' = Popping
      BY <3>1, SizesAfterGoto, CountsAfterGoto DEF PC
    <3>3. Cardinality(Inserting)' <= Cardinality(Thread) /\ Cardinality(Inserting)' \in Nat
      <4>1. Inserting' \in SUBSET Thread
        BY DEF Inserting
      <4>2. QED BY <4>1, ThreadsCount
    <3>4. OvershootBounded'
      BY <1>1, <2>1, <2>3, <3>3, MaxSeenAssumption DEF OvershootBounded
    <3>5. EvictionBudget'
      BY <2>1, <3>2 DEF EvictionBudget
    <3>6. QED BY <2>1, <3>4, <3>5
  <2>4. QED BY <2>2, <2>3
<1>9. ASSUME NEW t \in Thread, Pop(t)
      PROVE  IInv'
  <2>1. Goto(t, "pop", "insert") /\ seen # <<>> /\ seen' = Tail(seen)
    BY <1>9 DEF Pop
  <2>2. seen' \in Seq(Id) /\ Len(seen') = Len(seen) - 1 /\ Len(seen') \in Nat
    BY <1>1, <2>1, TailKeeps
  <2>3. Ordered'
    <3>1. EvictsNearlyFull /\ pc[t] = "pop" /\ since' = since
      BY <1>9, EvictsNearlyFullFollows DEF Pop, Goto
    <3>2. QED BY <2>1, <3>1, TailForgetsTheOldest DEF EvictsNearlyFull
  <2>4. TypeOK'
    BY <1>9, <2>2 DEF Pop, Goto, TypeOK, PC
  <2>5. /\ Cardinality(Inserting)' = Cardinality(Inserting) + 1
        /\ Cardinality(Popping)' = Cardinality(Popping) - 1
        /\ t \in Popping
    BY <2>1, SizesAfterGoto, CountsAfterGoto DEF PC
  <2>6. OvershootBounded'
    BY <1>1, <2>2, <2>5, Sizes, MaxSeenAssumption DEF OvershootBounded
  <2>7. EvictionBudget'
    BY <1>1, <2>2, <2>5, Sizes, MaxSeenAssumption DEF EvictionBudget
  <2>8. QED BY <2>3, <2>4, <2>6, <2>7
<1>10. ASSUME NEW t \in Thread, Insert(t)
       PROVE  IInv'
  <2>1. arg[t] \in Id /\ Goto(t, "insert", "idle")
    BY <1>10 DEF Insert, Return, Goto, TypeOK
  <2>2. /\ seen' \in Seq(Id) /\ Len(seen') \in Nat
        /\ Len(seen) <= Len(seen') /\ Len(seen') <= Len(seen) + 1
        /\ Ordered'
    <3>1. CASE HasSeen(seen, arg[t])
      <4>1. UNCHANGED <<seen, since>>
        BY <1>10, <3>1 DEF Insert
      <4>2. QED BY <1>0, <1>1, <4>1
    <3>2. CASE ~HasSeen(seen, arg[t])
      <4>1. seen' = Append(seen, arg[t]) /\ PutLast(arg[t])
        BY <1>10, <3>2 DEF Insert
      <4>2. /\ seen' \in Seq(Id) /\ Len(seen') = Len(seen) + 1
            /\ seen'[Len(seen')] = arg[t] /\ seen' # <<>>
            /\ \A k \in 1 .. Len(seen) : seen'[k] = seen[k]
        BY <1>1, <2>1, <4>1
      <4>3. Distinct(seen') /\ \A x : HasSeen(seen, x) => HasSeen(seen', x)
        <5>1. Distinct(seen')
          BY <1>1, <2>1, <3>2, <4>1, AppendKeeps DEF Ordered, Distinct
        <5>2. QED BY <1>1, <4>2, <5>1 DEF HasSeen
      <4>4. Ordered'
        BY <1>1, <2>1, <4>1, <4>2, <4>3, PutLastKeeps
      <4>5. QED BY <1>1, <4>2, <4>4
    <3>3. QED BY <3>1, <3>2
  <2>3. TypeOK'
    BY <1>10, <2>1, <2>2 DEF Insert, PutLast, Return, Goto, TypeOK, PC
  <2>4. /\ Cardinality(Inserting)' = Cardinality(Inserting) - 1
        /\ Cardinality(Popping)' = Cardinality(Popping)
        /\ Popping' = Popping
    BY <2>1, SizesAfterGoto, CountsAfterGoto DEF PC
  <2>5. OvershootBounded'
    BY <1>1, <2>2, <2>4, Sizes, MaxSeenAssumption DEF OvershootBounded
  <2>6. EvictionBudget'
    BY <1>1, <2>2, <2>4, Sizes, MaxSeenAssumption DEF EvictionBudget
  <2>7. QED BY <2>2, <2>3, <2>5, <2>6
<1>11. CASE UNCHANGED vars
  <2>1. /\ seen' = seen /\ since' = since /\ pc' = pc /\ arg' = arg
        /\ Inserting' = Inserting /\ Popping' = Popping
    BY <1>11 DEF vars, Inserting, Popping
  <2>2. Ordered'
    BY <1>0, <2>1
  <2>3. QED BY <2>1, <2>2 DEF TypeOK, OvershootBounded, EvictionBudget
<1>12. QED BY <1>2, <1>3, <1>4, <1>5, <1>6, <1>7, <1>8, <1>9, <1>10, <1>11 DEF Next

(* The inductive invariant holds of every reachable state of the cache. *)
THEOREM Invariance == Spec => []IInv
BY InitEstablishes, NextPreserves, PTL DEF Spec

(* The cache, the program counters and the arguments have their types, and a *)
(* thread at work handles an id. *)
THEOREM TypeCorrect == Spec => []TypeOK
<1>1. IInv => TypeOK
  BY DEF IInv
<1>2. QED BY <1>1, Invariance, PTL

(* The cache never exceeds _MAX_SEEN_FINDINGS by as many entries as there are *)
(* threads. *)
THEOREM Bounded == Spec => []OvershootBounded
<1>1. IInv => OvershootBounded
  BY DEF IInv
<1>2. QED BY <1>1, Invariance, PTL

(* _mark_seen evicts only from a cache that lacks fewer entries than there are *)
(* threads. *)
THEOREM EvictionNearlyFull == Spec => []EvictsNearlyFull
BY EvictsNearlyFullFollows, Invariance, PTL

(* popitem never finds the dict empty, as long as the cache has room for one *)
(* entry per thread: no KeyError ends a handler or a poll cycle there. *)
THEOREM PopNeverRaises ==
    ASSUME MaxSeen >= Cardinality(Thread)
    PROVE  Spec => [](\A t \in Thread : pc[t] = "pop" => seen # <<>>)
<1>1. TypeOK /\ EvictsNearlyFull => \A t \in Thread : pc[t] = "pop" => seen # <<>>
  <2> SUFFICES ASSUME TypeOK, EvictsNearlyFull, NEW t \in Thread, pc[t] = "pop"
               PROVE  seen # <<>>
    OBVIOUS
  <2>1. Len(seen) \in Nat /\ Len(seen) + Cardinality(Thread) > MaxSeen
    BY DEF TypeOK, EvictsNearlyFull
  <2>2. QED BY <2>1, ThreadFinite, MaxSeenAssumption
<1>2. QED BY <1>1, TypeCorrect, EvictionNearlyFull, PTL

(* An id is forgotten only after almost as many other marks as the cache holds, *)
(* however the threads interleave in _mark_seen. *)
THEOREM RecentRemembered == Spec => []RemembersRecent
<1>1. IInv => RemembersRecent
  BY DEF IInv, Ordered
<1>2. QED BY <1>1, Invariance, PTL

============================================================================
