------------------------ MODULE FindingGossipProofs ------------------------
(***************************************************************************)
(* Invariants of FindingGossip for any network, any number of workers, any *)
(* finding_ttl and any of the faults it models: types and calls, the loop  *)
(* over the clients, a switch's own findings, and how often it records one.*)
(***************************************************************************)
EXTENDS FindingGossip, SeenFindingsTheorems, FiniteSetTheorems

Handling == {"check", "mark", "record"}

Looping == {"loop", "call", "wait"}

Busy == {"share"} \cup Handling \cup Looping

(* A thread has a job while it works on a finding, with the hops its stage *)
(* needs, and calls only peers. *)
JobsFit ==
    \A t \in Thread :
        /\ pc[t] \in Busy <=> job[t] # NoJob
        /\ pc[t] \in Handling => job[t].ttl <= FindingTtl
        /\ pc[t] \in {"share"} \cup Looping => job[t].ttl >= 1
        /\ pc[t] \in {"call", "wait"} => peer[t] \in Node

(* A caller waits at the switch that serves it, one worker serves it, and only *)
(* callers that are served wait. *)
Paired ==
    /\ \A u \in Thread : job[u] # NoJob /\ job[u].caller # NoThread =>
           /\ u # MainOf(u[1])
           /\ pc[job[u].caller] = "wait"
           /\ peer[job[u].caller] = u[1]
    /\ \A u, v \in Thread :
           /\ job[u] # NoJob /\ job[v] # NoJob
           /\ job[u].caller # NoThread /\ job[u].caller = job[v].caller
           => u = v
    /\ \A t \in Thread : pc[t] = "wait" =>
           \E u \in Thread : job[u] # NoJob /\ job[u].caller = t

CallInv == TypeOK /\ JobsFit /\ Paired

----------------------------------------------------------------------------
(* Threads, jobs and iterators. *)

(* A thread belongs to one switch, and is its poll loop or one of its workers. *)
LEMMA ThreadFacts ==
    /\ \A t \in Thread : t[1] \in Node
    /\ \A n \in Node : MainOf(n) \in Thread /\ MainOf(n)[1] = n
    /\ \A n \in Node : \A u \in WorkersOf(n) : u \in Thread /\ u[1] = n /\ u # MainOf(n)
    /\ \A t \in Thread : t # MainOf(t[1]) => t \in WorkersOf(t[1])
    /\ \A n \in Node : \A t \in Thread : t \in ThreadsOf(n) <=> t[1] = n
    /\ NoThread \notin Thread
BY ThreadAssumption DEF Thread, MainOf, WorkersOf, ThreadsOf

(* The fields of a job have their types. *)
LEMMA JobFields ==
    ASSUME NEW j \in Job
    PROVE  j.finding \in Finding /\ j.ttl \in 0 .. FindingTtl + 1 /\ j.sender \in Node
BY DEF Job

(* A job is not NoJob, and has an id; cut off from its caller it is a job still. *)
LEMMA JobFacts ==
    ASSUME NEW j \in Job
    PROVE  /\ j # NoJob
           /\ j.finding \in Finding /\ j.ttl \in 0 .. FindingTtl + 1 /\ j.sender \in Node
           /\ j.caller \in Thread \cup {NoThread}
           /\ FindingId(j.finding) \in Id
           /\ [j EXCEPT !.caller = NoThread] \in Job
           /\ [j EXCEPT !.caller = NoThread].finding = j.finding
           /\ [j EXCEPT !.caller = NoThread].ttl = j.ttl
           /\ [j EXCEPT !.caller = NoThread].sender = j.sender
           /\ [j EXCEPT !.caller = NoThread].caller = NoThread
BY JobAssumption DEF Job, Finding, FindingId

(* Orphan cuts the threads of S off and touches nothing else. *)
LEMMA OrphanFacts ==
    ASSUME NEW S, job \in [Thread -> Job \cup {NoJob}]
    PROVE  /\ Orphan(S) \in [Thread -> Job \cup {NoJob}]
           /\ \A u \in Thread :
                 /\ Orphan(S)[u] = NoJob <=> job[u] = NoJob
                 /\ job[u] # NoJob =>
                       /\ Orphan(S)[u].finding = job[u].finding
                       /\ Orphan(S)[u].ttl = job[u].ttl
                       /\ Orphan(S)[u].sender = job[u].sender
                       /\ Orphan(S)[u].caller = IF job[u].caller \in S THEN NoThread
                                                ELSE job[u].caller
<1>1. \A v \in Thread : job[v] \in Job \cup {NoJob}
  OBVIOUS
<1>2. \A v \in Thread : job[v] # NoJob =>
          /\ [job[v] EXCEPT !.caller = NoThread] \in Job
          /\ [job[v] EXCEPT !.caller = NoThread] # NoJob
          /\ [job[v] EXCEPT !.caller = NoThread].finding = job[v].finding
          /\ [job[v] EXCEPT !.caller = NoThread].ttl = job[v].ttl
          /\ [job[v] EXCEPT !.caller = NoThread].sender = job[v].sender
          /\ [job[v] EXCEPT !.caller = NoThread].caller = NoThread
  BY <1>1, JobFacts
<1>3. QED BY <1>1, <1>2 DEF Orphan

(* The size of a client dict is a number. *)
LEMMA ClientsFinite ==
    ASSUME TypeOK, NEW n \in Node
    PROVE  Cardinality(clients[n]) \in Nat
BY NodeAssumption, FS_Subset, FS_CardinalityType DEF TypeOK

(* A fresh iterator over the clients has its type. *)
LEMMA IterateType ==
    ASSUME TypeOK, NEW t \in Thread, Iterate(t)
    PROVE  iter' \in [Thread -> Iterator]
<1>1. t[1] \in Node /\ clients[t[1]] \in SUBSET Node
  BY ThreadFacts DEF TypeOK
<1>2. Cardinality(clients[t[1]]) \in Nat
  BY <1>1, ClientsFinite
<1>3. QED BY <1>1, <1>2 DEF Iterate, Iterator, TypeOK

(* So has an iterator that has gone on by one key. *)
LEMMA AdvanceType ==
    ASSUME TypeOK, NEW t \in Thread, NEW p, IteratorValid(t), p \in iter[t].todo, Advance(t, p)
    PROVE  iter' \in [Thread -> Iterator]
<1>1. iter[t] \in Iterator /\ iter[t].left - 1 \in Nat
  BY DEF TypeOK, Iterator, IteratorValid
<1>2. [iter[t] EXCEPT !.todo = @ \ {p}, !.left = @ - 1] \in Iterator
  BY <1>1 DEF Iterator
<1>3. iter' = [iter EXCEPT ![t] = [iter[t] EXCEPT !.todo = @ \ {p}, !.left = @ - 1]]
  BY <1>1 DEF Advance, TypeOK, Iterator
<1>4. QED BY <1>2, <1>3 DEF TypeOK

----------------------------------------------------------------------------
(* The three ways a step changes who works on what. *)

(* A thread that neither calls nor returns goes to its next stage. *)
LEMMA StageKeeps ==
    ASSUME CallInv, NEW t \in Thread, NEW from, NEW to \in PC, Goto(t, from, to),
           from \in Busy <=> to \in Busy, from # "wait", to # "wait",
           to \in Handling => from \in Handling,
           to \in {"share"} \cup Looping => job[t].ttl >= 1,
           to = "call" => peer'[t] \in Node,
           job' = job, \A u \in Thread \ {t} : peer'[u] = peer[u]
    PROVE  JobsFit' /\ Paired' /\ pc' \in [Thread -> PC]
<1>1. /\ pc' \in [Thread -> PC] /\ pc[t] = from /\ pc'[t] = to
      /\ \A u \in Thread \ {t} : pc'[u] = pc[u]
  BY DEF Goto, CallInv, TypeOK
<1>2. JobsFit'
  BY <1>1 DEF JobsFit, CallInv, Busy, Handling, Looping
<1>3. Paired'
  <2>1. ASSUME NEW u \in Thread, job[u] # NoJob, job[u].caller # NoThread
        PROVE  /\ u # MainOf(u[1]) /\ pc'[job[u].caller] = "wait"
               /\ peer'[job[u].caller] = u[1]
    <3>1. job[u].caller \in Thread
      BY <2>1, JobFacts DEF CallInv, TypeOK
    <3>2. QED BY <1>1, <2>1, <3>1 DEF CallInv, Paired
  <2>2. QED BY <1>1, <2>1 DEF CallInv, Paired
<1>4. QED BY <1>1, <1>2, <1>3

(* A thread returns, to the caller that waits for it if there is one. *)
LEMMA FinishKeeps ==
    ASSUME CallInv, NEW t \in Thread, pc[t] \in Busy \ {"wait"}, Finish(t)
    PROVE  /\ JobsFit' /\ Paired'
           /\ pc' \in [Thread -> PC]
           /\ job' \in [Thread -> Job \cup {NoJob}]
           /\ iter' \in [Thread -> Iterator]
           /\ peer' \in [Thread -> Node \cup {NoPeer}]
<1> DEFINE c == job[t].caller
<1>1. /\ job[t] \in Job /\ c \in Thread \cup {NoThread}
      /\ c # NoThread => c # t /\ pc[c] = "wait" /\ job[c] # NoJob
  <2>1. job[t] \in Job
    BY DEF CallInv, JobsFit, TypeOK
  <2>2. job[t] # NoJob /\ c \in Thread \cup {NoThread}
    BY <2>1, JobFacts
  <2>3. c # NoThread => pc[c] = "wait"
    BY <2>2 DEF CallInv, Paired
  <2>4. c # NoThread => c # t /\ job[c] # NoJob
    BY <2>2, <2>3 DEF CallInv, JobsFit, Busy, Looping
  <2>5. QED BY <2>1, <2>2, <2>3, <2>4
<1>2. /\ pc' = [u \in Thread |-> CASE u = t -> "idle" [] u = c -> "loop" [] OTHER -> pc[u]]
      /\ peer' = [u \in Thread |-> IF u \in {t, c} THEN NoPeer ELSE peer[u]]
      /\ job' = [job EXCEPT ![t] = NoJob]
      /\ iter' = [iter EXCEPT ![t] = NoIteration]
  BY DEF Finish
<1> HIDE DEF c
<1>3. /\ pc'[t] = "idle" /\ job'[t] = NoJob
      /\ c # NoThread => pc'[c] = "loop"
      /\ \A u \in Thread \ {t} : job'[u] = job[u]
      /\ \A u \in Thread \ {t, c} : pc'[u] = pc[u] /\ peer'[u] = peer[u]
  <2>1. c \in Thread \cup {NoThread} /\ c # t /\ (c # NoThread => c \in Thread)
    BY <1>1, ThreadFacts
  <2>2. pc'[t] = "idle" /\ (c # NoThread => pc'[c] = "loop")
    BY <1>2, <2>1
  <2>3. job'[t] = NoJob /\ \A u \in Thread \ {t} : job'[u] = job[u]
    BY <1>2 DEF CallInv, TypeOK
  <2>4. \A u \in Thread \ {t, c} : pc'[u] = pc[u] /\ peer'[u] = peer[u]
    BY <1>2
  <2>5. QED BY <2>2, <2>3, <2>4
<1>4. /\ pc' \in [Thread -> PC] /\ job' \in [Thread -> Job \cup {NoJob}]
      /\ iter' \in [Thread -> Iterator] /\ peer' \in [Thread -> Node \cup {NoPeer}]
  <2>1. pc' \in [Thread -> PC]
    BY <1>2 DEF CallInv, TypeOK, PC
  <2>2. job' \in [Thread -> Job \cup {NoJob}] /\ peer' \in [Thread -> Node \cup {NoPeer}]
    BY <1>2 DEF CallInv, TypeOK
  <2>3. iter' \in [Thread -> Iterator]
    <3>1. NoIteration \in Iterator
      BY DEF NoIteration, Iterator
    <3>2. QED BY <1>2, <3>1 DEF CallInv, TypeOK
  <2>4. QED BY <2>1, <2>2, <2>3
<1>5. JobsFit'
  <2> SUFFICES ASSUME NEW u \in Thread
               PROVE  /\ pc'[u] \in Busy <=> job'[u] # NoJob
                      /\ pc'[u] \in Handling => job'[u].ttl <= FindingTtl
                      /\ pc'[u] \in {"share"} \cup Looping => job'[u].ttl >= 1
                      /\ pc'[u] \in {"call", "wait"} => peer'[u] \in Node
    BY DEF JobsFit
  <2>1. CASE u = t
    BY <1>3, <2>1 DEF Busy, Handling, Looping
  <2>2. CASE u = c /\ u # t
    BY <1>1, <1>3, <2>2, ThreadFacts DEF CallInv, JobsFit, Busy, Handling, Looping
  <2>3. CASE u # t /\ u # c
    BY <1>3, <2>3 DEF CallInv, JobsFit
  <2>4. QED BY <2>1, <2>2, <2>3
<1>6. Paired'
  <2>1. ASSUME NEW u \in Thread, job'[u] # NoJob, job'[u].caller # NoThread
        PROVE  /\ u # MainOf(u[1]) /\ pc'[job'[u].caller] = "wait"
               /\ peer'[job'[u].caller] = u[1]
    <3>1. u # t /\ job'[u] = job[u]
      BY <1>3, <2>1
    <3>2. job[t] # NoJob /\ job[t].caller = c
      BY <1>1, JobFacts DEF c
    <3>3. /\ u # MainOf(u[1]) /\ pc[job[u].caller] = "wait" /\ peer[job[u].caller] = u[1]
          /\ job[u].caller # c
      BY <2>1, <3>1, <3>2 DEF CallInv, Paired
    <3>4. job[u].caller \in Thread /\ job[u].caller # t
      <4>1. job[u] \in Job
        BY <2>1, <3>1 DEF CallInv, TypeOK
      <4>2. QED BY <2>1, <3>1, <3>3, <4>1, JobFacts
    <3>5. QED BY <1>3, <3>1, <3>3, <3>4
  <2>2. ASSUME NEW u \in Thread, pc'[u] = "wait"
        PROVE  \E v \in Thread : job'[v] # NoJob /\ job'[v].caller = u
    <3>1. u # t /\ u # c /\ pc[u] = "wait"
      BY <1>1, <1>3, <2>2, ThreadFacts
    <3>2. PICK v \in Thread : job[v] # NoJob /\ job[v].caller = u
      BY <3>1 DEF CallInv, Paired
    <3>3. v # t
      BY <3>1, <3>2 DEF c
    <3>4. QED BY <1>3, <3>2, <3>3
  <2>3. \A u, v \in Thread :
            /\ job'[u] # NoJob /\ job'[v] # NoJob
            /\ job'[u].caller # NoThread /\ job'[u].caller = job'[v].caller
            => u = v
    BY <1>3 DEF CallInv, Paired
  <2>4. QED BY <2>1, <2>2, <2>3 DEF Paired
<1>7. QED BY <1>4, <1>5, <1>6

(* The threads in S, which call or wait, are cut off from their callees. *)
LEMMA OrphanKeeps ==
    ASSUME CallInv, NEW S \in SUBSET Thread, \A u \in S : pc[u] \in {"call", "wait"},
           job' = Orphan(S), \A u \in S : pc'[u] = "loop",
           pc' \in [Thread -> PC],
           \A u \in Thread \ S : \/ pc'[u] = pc[u] /\ peer'[u] = peer[u]
                                 \/ pc[u] \notin Busy /\ pc'[u] \notin Busy
    PROVE  JobsFit' /\ Paired' /\ job' \in [Thread -> Job \cup {NoJob}]
<1>1. job' \in [Thread -> Job \cup {NoJob}]
  BY OrphanFacts DEF CallInv, TypeOK
<1>2. \A u \in Thread :
          /\ job'[u] = NoJob <=> job[u] = NoJob
          /\ job[u] # NoJob =>
                /\ job'[u].ttl = job[u].ttl
                /\ job'[u].caller = IF job[u].caller \in S THEN NoThread ELSE job[u].caller
  <2>1. job \in [Thread -> Job \cup {NoJob}]
    BY DEF CallInv, TypeOK
  <2>2. QED BY <2>1, OrphanFacts
<1>3. JobsFit'
  <2> SUFFICES ASSUME NEW u \in Thread
               PROVE  /\ pc'[u] \in Busy <=> job'[u] # NoJob
                      /\ pc'[u] \in Handling => job'[u].ttl <= FindingTtl
                      /\ pc'[u] \in {"share"} \cup Looping => job'[u].ttl >= 1
                      /\ pc'[u] \in {"call", "wait"} => peer'[u] \in Node
    BY DEF JobsFit
  <2>1. CASE u \in S
    <3>1. pc[u] \in Looping /\ pc'[u] = "loop" /\ pc[u] \in Busy
      BY <2>1 DEF Looping, Busy
    <3>2. job[u] # NoJob /\ job[u].ttl >= 1
      BY <3>1 DEF CallInv, JobsFit
    <3>3. QED BY <1>2, <3>1, <3>2 DEF Busy, Looping, Handling
  <2>2. CASE pc'[u] = pc[u] /\ peer'[u] = peer[u]
    <3>1. pc'[u] \in {"share"} \cup Looping \cup Handling => job[u] # NoJob
      BY <2>2 DEF CallInv, JobsFit, Busy
    <3>2. QED BY <1>2, <2>2, <3>1 DEF CallInv, JobsFit
  <2>3. CASE pc[u] \notin Busy /\ pc'[u] \notin Busy
    BY <1>2, <2>3 DEF CallInv, JobsFit, Busy, Looping
  <2>4. QED BY <2>1, <2>2, <2>3
<1>4. Paired'
  <2>1. ASSUME NEW u \in Thread, job'[u] # NoJob, job'[u].caller # NoThread
        PROVE  /\ u # MainOf(u[1]) /\ pc'[job'[u].caller] = "wait"
               /\ peer'[job'[u].caller] = u[1]
    <3>1. job[u] # NoJob /\ job[u].caller \notin S /\ job'[u].caller = job[u].caller
      BY <1>2, <2>1
    <3>2. /\ pc[job[u].caller] = "wait"
          /\ peer[job[u].caller] = u[1] /\ u # MainOf(u[1])
      BY <2>1, <3>1 DEF CallInv, Paired
    <3>a. job[u].caller \in Thread \ S
      <4>1. job[u] \in Job
        BY <3>1 DEF CallInv, TypeOK
      <4>2. QED BY <2>1, <3>1, <4>1, JobFacts
    <3>3. QED BY <3>1, <3>2, <3>a DEF Busy, Looping
  <2>2. ASSUME NEW u \in Thread, pc'[u] = "wait"
        PROVE  \E v \in Thread : job'[v] # NoJob /\ job'[v].caller = u
    <3>1. u \notin S /\ pc[u] = "wait"
      BY <2>2 DEF Busy, Looping
    <3>2. PICK v \in Thread : job[v] # NoJob /\ job[v].caller = u
      BY <3>1 DEF CallInv, Paired
    <3>3. QED BY <1>2, <3>1, <3>2
  <2>3. \A u, v \in Thread :
            /\ job'[u] # NoJob /\ job'[v] # NoJob
            /\ job'[u].caller # NoThread /\ job'[u].caller = job'[v].caller
            => u = v
    BY <1>2 DEF CallInv, Paired
  <2>4. QED BY <2>1, <2>2, <2>3 DEF Paired
<1>5. QED BY <1>1, <1>3, <1>4

(* An idle thread takes up the job j, for the thread that calls it or for *)
(* nobody who waits. *)
LEMMA StartKeeps ==
    ASSUME CallInv, NEW u \in Thread, pc[u] = "idle", NEW j \in Job,
           job' = [job EXCEPT ![u] = j], peer' = peer, pc' \in [Thread -> PC],
           \/ pc'[u] = "share" /\ j.ttl >= 1
           \/ pc'[u] = "check" /\ j.ttl <= FindingTtl,
           \/ j.caller = NoThread /\ \A v \in Thread \ {u} : pc'[v] = pc[v]
           \/ /\ j.caller \in Thread \ {u} /\ u # MainOf(u[1])
              /\ pc[j.caller] = "call" /\ pc'[j.caller] = "wait" /\ peer[j.caller] = u[1]
              /\ \A v \in Thread \ {u, j.caller} : pc'[v] = pc[v]
    PROVE  JobsFit' /\ Paired' /\ job' \in [Thread -> Job \cup {NoJob}]
<1>1. /\ job' \in [Thread -> Job \cup {NoJob}] /\ job'[u] = j /\ j # NoJob
      /\ \A v \in Thread \ {u} : job'[v] = job[v]
  BY JobFacts DEF CallInv, TypeOK
<1>2. job[u] = NoJob
  BY DEF CallInv, JobsFit, Busy, Handling, Looping
<1>3. \A v \in Thread : job[v] # NoJob => job[v].caller # j.caller \/ j.caller = NoThread
  <2> SUFFICES ASSUME NEW v \in Thread, job[v] # NoJob, job[v].caller = j.caller,
                      j.caller # NoThread
               PROVE  FALSE
    OBVIOUS
  <2>1. pc[j.caller] = "wait"
    BY DEF CallInv, Paired
  <2>2. QED BY <2>1
<1>4. JobsFit'
  <2> SUFFICES ASSUME NEW v \in Thread
               PROVE  /\ pc'[v] \in Busy <=> job'[v] # NoJob
                      /\ pc'[v] \in Handling => job'[v].ttl <= FindingTtl
                      /\ pc'[v] \in {"share"} \cup Looping => job'[v].ttl >= 1
                      /\ pc'[v] \in {"call", "wait"} => peer'[v] \in Node
    BY DEF JobsFit
  <2>1. CASE v = u
    BY <1>1, <2>1 DEF Busy, Handling, Looping
  <2>2. CASE v # u /\ pc'[v] = pc[v]
    BY <1>1, <2>2 DEF CallInv, JobsFit
  <2>3. CASE v # u /\ pc[v] = "call" /\ pc'[v] = "wait"
    BY <1>1, <2>3 DEF CallInv, JobsFit, Busy, Handling, Looping
  <2>4. QED BY <2>1, <2>2, <2>3
<1>5. Paired'
  <2>1. ASSUME NEW v \in Thread, job'[v] # NoJob, job'[v].caller # NoThread
        PROVE  /\ v # MainOf(v[1]) /\ pc'[job'[v].caller] = "wait"
               /\ peer'[job'[v].caller] = v[1]
    <3>1. CASE v = u
      BY <1>1, <2>1, <3>1
    <3>2. CASE v # u
      <4>1. job'[v] = job[v] /\ job[v] \in Job
        BY <1>1, <2>1, <3>2 DEF CallInv, TypeOK
      <4>2. /\ v # MainOf(v[1]) /\ pc[job[v].caller] = "wait" /\ peer[job[v].caller] = v[1]
        BY <2>1, <4>1 DEF CallInv, Paired
      <4>3. job[v].caller \in Thread /\ job[v].caller # u /\ job[v].caller # j.caller
        BY <1>3, <2>1, <4>1, <4>2, JobFacts
      <4>4. QED BY <4>1, <4>2, <4>3
    <3>3. QED BY <3>1, <3>2
  <2>2. ASSUME NEW v \in Thread, pc'[v] = "wait"
        PROVE  \E w \in Thread : job'[w] # NoJob /\ job'[w].caller = v
    <3>1. CASE v = j.caller
      BY <1>1, <3>1
    <3>2. CASE v # j.caller
      <4>1. v # u /\ pc[v] = "wait"
        BY <2>2, <3>2
      <4>2. PICK w \in Thread : job[w] # NoJob /\ job[w].caller = v
        BY <4>1 DEF CallInv, Paired
      <4>3. w # u
        BY <1>2, <4>2
      <4>4. QED BY <1>1, <4>2, <4>3
    <3>3. QED BY <3>1, <3>2
  <2>3. \A v, w \in Thread :
            /\ job'[v] # NoJob /\ job'[w] # NoJob
            /\ job'[v].caller # NoThread /\ job'[v].caller = job'[w].caller
            => v = w
    BY <1>1, <1>3 DEF CallInv, Paired
  <2>4. QED BY <2>1, <2>2, <2>3 DEF Paired
<1>6. QED BY <1>1, <1>4, <1>5

(* What the calls do not depend on. *)
LEMMA NothingCalls ==
    ASSUME CallInv, UNCHANGED <<pc, job, peer>>
    PROVE  JobsFit' /\ Paired'
BY DEF CallInv, JobsFit, Paired

----------------------------------------------------------------------------
(* The actions of the poll loop. *)

(* The ids a process draws stay within the bound. *)
LEMMA NextIdType ==
    ASSUME TypeOK, NEW n \in Node, counter[n] < LastId[n]
    PROVE  NextId(n) \in Id /\ NextId(n) \in 0 .. MaxSeq
<1>1. counter[n] \in 0 .. MaxSeq
  BY DEF TypeOK
<1>2. LastId[n] \in 0 .. MaxSeq /\ MaxSeq \in Nat
  BY BoundAssumption
<1>3. QED BY <1>1, <1>2 DEF NextId, Id

(* FindingsStore.create gives the poll loop its job. *)
LEMMA CreateFindingKeeps ==
    ASSUME CallInv, NEW n \in Node, CreateFinding(n)
    PROVE  CallInv'
<1> DEFINE f == [origin |-> n, boot |-> boot[n], seq |-> NextId(n)]
           j == [finding |-> f, ttl |-> FindingTtl + 1, sender |-> n, caller |-> NoThread]
<1>1. NextId(n) \in Id /\ NextId(n) \in 0 .. MaxSeq
  BY NextIdType DEF CallInv, CreateFinding
<1>2. f \in Finding
  BY <1>1 DEF CallInv, TypeOK, Finding
<1>3. j \in Job /\ j.ttl >= 1 /\ j.caller = NoThread
  BY <1>2, BoundAssumption DEF Job
<1>4. /\ Goto(MainOf(n), "idle", "share")
      /\ counter' = [counter EXCEPT ![n] = NextId(n)]
      /\ findings' = [findings EXCEPT ![n] = @ \cup {f}]
      /\ job' = [job EXCEPT ![MainOf(n)] = j]
      /\ UNCHANGED <<clients, seen, events, boot, iter, peer, late>>
  BY DEF CreateFinding
<1> HIDE DEF f, j
<1>5. /\ MainOf(n) \in Thread
      /\ pc' \in [Thread -> PC] /\ pc[MainOf(n)] = "idle" /\ pc'[MainOf(n)] = "share"
      /\ \A v \in Thread \ {MainOf(n)} : pc'[v] = pc[v]
  BY <1>4, ThreadFacts DEF Goto, CallInv, TypeOK, PC
<1>6. JobsFit' /\ Paired' /\ job' \in [Thread -> Job \cup {NoJob}]
  BY <1>3, <1>4, <1>5, StartKeeps
<1>7. findings' \in [Node -> SUBSET Finding] /\ counter' \in [Node -> 0 .. MaxSeq]
  BY <1>1, <1>2, <1>4 DEF CallInv, TypeOK
<1>8. TypeOK'
  BY <1>4, <1>5, <1>6, <1>7 DEF CallInv, TypeOK
<1>9. QED BY <1>6, <1>8 DEF CallInv

(* A rejected id only moves the counter. *)
LEMMA CreateRejectedKeeps ==
    ASSUME CallInv, NEW n \in Node, CreateRejected(n)
    PROVE  CallInv'
<1>1. counter' \in [Node -> 0 .. MaxSeq]
  <2>1. NextId(n) \in 0 .. MaxSeq
    BY NextIdType DEF CallInv, CreateRejected
  <2>2. QED BY <2>1 DEF CallInv, TypeOK, CreateRejected
<1>2. TypeOK'
  BY <1>1 DEF CallInv, TypeOK, CreateRejected, journal
<1>3. JobsFit' /\ Paired'
  BY NothingCalls DEF CreateRejected
<1>4. QED BY <1>2, <1>3 DEF CallInv

(* _mark_seen leaves a sequence of ids. *)
LEMMA MarkSeenType ==
    ASSUME CallInv, NEW t \in Thread, job[t] # NoJob
    PROVE  [seen EXCEPT ![t[1]] = MarkSeen(@, FindingId(job[t].finding), MaxSeen)]
               \in [Node -> Seq(Id)]
<1>1. job[t] \in Job /\ t[1] \in Node /\ seen[t[1]] \in Seq(Id) /\ MaxSeen \in Nat \ {0}
  BY ThreadFacts, BoundAssumption DEF CallInv, TypeOK
<1>2. FindingId(job[t].finding) \in Id
  BY <1>1, JobFacts
<1>3. MarkSeen(seen[t[1]], FindingId(job[t].finding), MaxSeen) \in Seq(Id)
  BY <1>1, <1>2, MarkSeenProperties
<1>4. QED BY <1>1, <1>3 DEF CallInv, TypeOK

(* share_finding marks the id and starts the loop over the clients. *)
LEMMA ShareFindingKeeps ==
    ASSUME CallInv, NEW n \in Node, ShareFinding(n)
    PROVE  CallInv'
<1> DEFINE t == MainOf(n)
<1>1. /\ t \in Thread /\ t[1] = n /\ Goto(t, "share", "loop") /\ Iterate(t)
      /\ seen' = [seen EXCEPT ![n] = MarkSeen(@, FindingId(job[t].finding), MaxSeen)]
      /\ UNCHANGED <<clients, journal, counter, boot, job, peer, late>>
  BY ThreadFacts DEF ShareFinding
<1> HIDE DEF t
<1>2. job[t] # NoJob /\ job[t].ttl >= 1
  BY <1>1 DEF Goto, CallInv, JobsFit, Busy
<1>3. seen' \in [Node -> Seq(Id)]
  BY <1>1, <1>2, MarkSeenType
<1>4. iter' \in [Thread -> Iterator]
  BY <1>1, IterateType DEF CallInv
<1>5. JobsFit' /\ Paired' /\ pc' \in [Thread -> PC]
  BY <1>1, <1>2, StageKeeps DEF PC, Busy, Handling, Looping
<1>6. TypeOK'
  BY <1>1, <1>3, <1>4, <1>5 DEF CallInv, TypeOK, journal
<1>7. QED BY <1>5, <1>6 DEF CallInv

(* A thread that only returns. *)
LEMMA OnlyFinishKeeps ==
    ASSUME CallInv, NEW t \in Thread, pc[t] \in Busy \ {"wait"}, Finish(t),
           UNCHANGED <<clients, seen, journal, counter, boot, late>>
    PROVE  CallInv'
<1>1. /\ JobsFit' /\ Paired' /\ pc' \in [Thread -> PC]
      /\ job' \in [Thread -> Job \cup {NoJob}] /\ iter' \in [Thread -> Iterator]
      /\ peer' \in [Thread -> Node \cup {NoPeer}]
  BY FinishKeeps
<1>2. TypeOK'
  BY <1>1 DEF CallInv, TypeOK, journal
<1>3. QED BY <1>1, <1>2 DEF CallInv

(* The steps of refresh_peers that cancel no call. *)
LEMMA RefreshKeeps ==
    ASSUME CallInv, NEW n \in Node,
           \/ BeginRefresh(n) \/ EndRefresh(n)
           \/ \E p \in Peers[n] : ConnectPeer(n, p) \/ DeletePeer(n, p)
    PROVE  CallInv'
<1> DEFINE m == MainOf(n)
<1>1. m \in Thread
  BY ThreadFacts
<1> HIDE DEF m
<1>2. CASE BeginRefresh(n)
  <2>1. /\ Goto(m, "idle", "refresh")
        /\ UNCHANGED <<clients, seen, journal, counter, boot, job, peer, late>>
    BY <1>2 DEF BeginRefresh, m
  <2>2. iter' \in [Thread -> Iterator]
    <3>1. PICK changed \in SUBSET Peers[n] : iter' = [iter EXCEPT ![m].todo = changed]
      BY <1>2 DEF BeginRefresh, m
    <3>2. changed \in SUBSET Node /\ iter[m] \in Iterator
      BY <1>1, PeersAssumption DEF CallInv, TypeOK
    <3>3. [iter[m] EXCEPT !.todo = changed] \in Iterator
      BY <3>2 DEF Iterator
    <3>4. QED BY <3>1, <3>3 DEF CallInv, TypeOK
  <2>3. JobsFit' /\ Paired' /\ pc' \in [Thread -> PC]
    BY <1>1, <2>1, StageKeeps DEF PC, Busy, Handling, Looping
  <2>4. TypeOK'
    BY <2>1, <2>2, <2>3 DEF CallInv, TypeOK, journal
  <2>5. QED BY <2>3, <2>4 DEF CallInv
<1>3. CASE EndRefresh(n)
  <2>1. /\ Goto(m, "refresh", "idle")
        /\ UNCHANGED <<clients, seen, journal, counter, boot, job, iter, peer, late>>
    BY <1>3 DEF EndRefresh, m
  <2>2. JobsFit' /\ Paired' /\ pc' \in [Thread -> PC]
    BY <1>1, <2>1, StageKeeps DEF PC, Busy, Handling, Looping
  <2>3. TypeOK'
    BY <2>1, <2>2 DEF CallInv, TypeOK, journal
  <2>4. QED BY <2>2, <2>3 DEF CallInv
<1>4. ASSUME NEW p \in Peers[n], ConnectPeer(n, p)
      PROVE  CallInv'
  <2>1. /\ clients' = [clients EXCEPT ![n] = @ \cup {p}]
        /\ UNCHANGED <<seen, journal, counter, boot, pc, job, peer, late>>
    BY <1>4 DEF ConnectPeer
  <2>2. p \in Node
    BY PeersAssumption
  <2>3. iter' \in [Thread -> Iterator]
    <3>1. \A t \in Thread : /\ [iter[t] EXCEPT !.todo = @ \ {p}] \in Iterator
                            /\ [iter[t] EXCEPT !.todo = @ \cup {p}] \in Iterator
                            /\ iter[t] \in Iterator
      BY <2>2 DEF CallInv, TypeOK, Iterator
    <3>2. QED BY <1>4, <3>1 DEF ConnectPeer
  <2>4. clients' \in [Node -> SUBSET Node]
    BY <2>1, <2>2 DEF CallInv, TypeOK
  <2>5. TypeOK'
    BY <2>1, <2>3, <2>4 DEF CallInv, TypeOK, journal
  <2>6. QED BY <2>1, <2>5, NothingCalls DEF CallInv
<1>5. ASSUME NEW p \in Peers[n], DeletePeer(n, p)
      PROVE  CallInv'
  <2>1. /\ Goto(m, "delete", "refresh")
        /\ clients' = [clients EXCEPT ![n] = @ \ {p}]
        /\ peer' = [peer EXCEPT ![m] = NoPeer]
        /\ UNCHANGED <<seen, journal, counter, boot, job, late>>
    BY <1>5 DEF DeletePeer, m
  <2>2. iter' \in [Thread -> Iterator]
    <3>1. \A t \in Thread : /\ [iter[t] EXCEPT !.todo = @ \ {p}] \in Iterator
                            /\ iter[t] \in Iterator
      BY DEF CallInv, TypeOK, Iterator
    <3>2. QED BY <1>5, <3>1 DEF DeletePeer
  <2>3. /\ clients' \in [Node -> SUBSET Node] /\ peer' \in [Thread -> Node \cup {NoPeer}]
        /\ \A u \in Thread \ {m} : peer'[u] = peer[u]
    BY <2>1 DEF CallInv, TypeOK
  <2>4. JobsFit' /\ Paired' /\ pc' \in [Thread -> PC]
    BY <1>1, <2>1, <2>3, StageKeeps DEF PC, Busy, Handling, Looping
  <2>5. TypeOK'
    BY <2>1, <2>2, <2>3, <2>4 DEF CallInv, TypeOK, journal
  <2>6. QED BY <2>4, <2>5 DEF CallInv
<1>6. QED BY <1>2, <1>3, <1>4, <1>5

(* Closing a channel orphans the requests under way on it. *)
LEMMA ClosePeerKeeps ==
    ASSUME CallInv, NEW n \in Node, NEW p \in Peers[n], ClosePeer(n, p)
    PROVE  CallInv'
<1> DEFINE m == MainOf(n)
           cancelled == {t \in WorkersOf(n) : pc[t] \in {"call", "wait"} /\ peer[t] = p}
<1>1. /\ m \in Thread /\ cancelled \in SUBSET Thread /\ m \notin cancelled
      /\ p \in Node
  BY ThreadFacts, PeersAssumption
<1>2. /\ pc[m] = "refresh"
      /\ pc' = [t \in Thread |-> CASE t = m -> "delete" [] t \in cancelled -> "loop"
                                   [] OTHER -> pc[t]]
      /\ peer' = [t \in Thread |-> CASE t = m -> p [] t \in cancelled -> NoPeer
                                     [] OTHER -> peer[t]]
      /\ job' = Orphan(cancelled)
      /\ UNCHANGED <<clients, seen, journal, counter, boot, iter, late>>
  BY DEF ClosePeer
<1>3. \A t \in cancelled : pc[t] \in {"call", "wait"}
  OBVIOUS
<1> HIDE DEF m, cancelled
<1>4. /\ pc'[m] = "delete"
      /\ \A t \in cancelled : pc'[t] = "loop"
      /\ \A t \in Thread \ (cancelled \cup {m}) : pc'[t] = pc[t] /\ peer'[t] = peer[t]
  BY <1>1, <1>2
<1>5. pc' \in [Thread -> PC] /\ peer' \in [Thread -> Node \cup {NoPeer}]
  <2>1. \A t \in Thread : pc[t] \in PC /\ peer[t] \in Node \cup {NoPeer}
    BY DEF CallInv, TypeOK
  <2>2. QED BY <1>1, <1>2, <2>1 DEF PC
<1>6. \A u \in Thread \ cancelled : \/ pc'[u] = pc[u] /\ peer'[u] = peer[u]
                                    \/ pc[u] \notin Busy /\ pc'[u] \notin Busy
  BY <1>2, <1>4 DEF Busy, Handling, Looping
<1>7. JobsFit' /\ Paired' /\ job' \in [Thread -> Job \cup {NoJob}]
  BY <1>1, <1>2, <1>3, <1>4, <1>5, <1>6, OrphanKeeps
<1>8. TypeOK'
  BY <1>2, <1>5, <1>7 DEF CallInv, TypeOK, journal
<1>9. QED BY <1>7, <1>8 DEF CallInv

----------------------------------------------------------------------------
(* The actions of the loop over the clients and of the calls. *)

(* A thread chooses the next client. *)
LEMMA CallPeerKeeps ==
    ASSUME CallInv, NEW t \in Thread, NEW p \in Node, CallPeer(t, p)
    PROVE  CallInv'
<1>1. /\ Goto(t, "loop", "call") /\ Advance(t, p) /\ IteratorValid(t) /\ p \in iter[t].todo
      /\ peer' = [peer EXCEPT ![t] = p]
      /\ UNCHANGED <<clients, seen, journal, counter, boot, job, late>>
  BY DEF CallPeer
<1>2. job[t].ttl >= 1
  BY <1>1 DEF Goto, CallInv, JobsFit, Looping
<1>3. /\ peer' \in [Thread -> Node \cup {NoPeer}] /\ peer'[t] \in Node
      /\ \A u \in Thread \ {t} : peer'[u] = peer[u]
  BY <1>1 DEF CallInv, TypeOK
<1>4. iter' \in [Thread -> Iterator]
  BY <1>1, AdvanceType DEF CallInv
<1>5. JobsFit' /\ Paired' /\ pc' \in [Thread -> PC]
  BY <1>1, <1>2, <1>3, StageKeeps DEF PC, Busy, Handling, Looping
<1>6. TypeOK'
  BY <1>1, <1>3, <1>4, <1>5 DEF CallInv, TypeOK, journal
<1>7. QED BY <1>5, <1>6 DEF CallInv

(* A thread passes over the sender. *)
LEMMA SkipSenderKeeps ==
    ASSUME CallInv, NEW t \in Thread, NEW p \in Node, SkipSender(t, p)
    PROVE  CallInv'
<1>1. iter' \in [Thread -> Iterator]
  BY AdvanceType DEF CallInv, SkipSender
<1>2. TypeOK'
  BY <1>1 DEF CallInv, TypeOK, SkipSender, journal
<1>3. JobsFit' /\ Paired'
  BY NothingCalls DEF SkipSender
<1>4. QED BY <1>2, <1>3 DEF CallInv

(* A request has a ttl that a request may have. *)
LEMMA RequestType ==
    ASSUME CallInv, NEW t \in Thread, pc[t] = "call"
    PROVE  /\ Request(t) \in Late
           /\ Request(t).to = peer[t] /\ Request(t).sender = t[1]
           /\ Request(t).finding = job[t].finding /\ Request(t).ttl = job[t].ttl - 1
<1>1. job[t] \in Job /\ job[t].ttl >= 1 /\ peer[t] \in Node /\ t[1] \in Node
  BY ThreadFacts DEF CallInv, TypeOK, JobsFit, Busy, Looping
<1>2. job[t].finding \in Finding /\ job[t].ttl - 1 \in 0 .. FindingTtl
  BY <1>1, JobFields, BoundAssumption
<1>3. QED BY <1>1, <1>2 DEF Request, ForwardTtl, Late

(* The job that Serve gives a worker. *)
ServedJob(r, c) == [finding |-> r.finding, ttl |-> r.ttl, sender |-> r.sender, caller |-> c]

(* The job of a served request is a job. *)
LEMMA ServedJobType ==
    ASSUME NEW r \in Late, NEW c \in Thread \cup {NoThread}
    PROVE  /\ ServedJob(r, c) \in Job
           /\ ServedJob(r, c).ttl <= FindingTtl
           /\ ServedJob(r, c).caller = c
BY BoundAssumption DEF ServedJob, Late, Job

(* A worker takes up a request whose caller waits. *)
LEMMA DispatchKeeps ==
    ASSUME CallInv, NEW t \in Thread, NEW u \in Thread, Dispatch(t, u)
    PROVE  CallInv'
<1> DEFINE j == ServedJob(Request(t), t)
<1>1. /\ pc[t] = "call" /\ u \in WorkersOf(peer[t]) /\ pc[u] = "idle"
      /\ pc' = [pc EXCEPT ![t] = "wait", ![u] = "check"]
      /\ job' = [job EXCEPT ![u] = j]
      /\ UNCHANGED <<clients, seen, journal, counter, boot, iter, peer, late>>
  BY DEF Dispatch, Serve, ServedJob
<1>2. j \in Job /\ j.ttl <= FindingTtl /\ j.caller = t
  BY <1>1, RequestType, ServedJobType
<1> HIDE DEF j
<1>3. peer[t] \in Node /\ t # u
  BY <1>1 DEF CallInv, JobsFit
<1>4. u[1] = peer[t] /\ u # MainOf(u[1])
  BY <1>1, <1>3, ThreadFacts
<1>5. /\ pc' \in [Thread -> PC] /\ pc'[u] = "check" /\ pc'[t] = "wait"
      /\ \A v \in Thread \ {u, t} : pc'[v] = pc[v]
  BY <1>1, <1>3 DEF CallInv, TypeOK, PC
<1>6. JobsFit' /\ Paired' /\ job' \in [Thread -> Job \cup {NoJob}]
  BY <1>1, <1>2, <1>3, <1>4, <1>5, StartKeeps
<1>7. TypeOK'
  BY <1>1, <1>5, <1>6 DEF CallInv, TypeOK, journal
<1>8. QED BY <1>6, <1>7 DEF CallInv

(* A worker takes up a request whose caller has given up. *)
LEMMA DispatchLateKeeps ==
    ASSUME CallInv, NEW r \in late, NEW u \in Thread, DispatchLate(r, u)
    PROVE  CallInv'
<1> DEFINE j == ServedJob(r, NoThread)
<1>1. /\ Goto(u, "idle", "check") /\ late' = late \ {r}
      /\ job' = [job EXCEPT ![u] = j]
      /\ UNCHANGED <<clients, seen, journal, counter, boot, iter, peer>>
  BY DEF DispatchLate, Serve, ServedJob
<1>2. j \in Job /\ j.ttl <= FindingTtl /\ j.caller = NoThread
  BY ServedJobType DEF CallInv, TypeOK
<1> HIDE DEF j
<1>3. /\ pc' \in [Thread -> PC] /\ pc[u] = "idle" /\ pc'[u] = "check"
      /\ \A v \in Thread \ {u} : pc'[v] = pc[v]
  BY <1>1 DEF Goto, CallInv, TypeOK, PC
<1>4. JobsFit' /\ Paired' /\ job' \in [Thread -> Job \cup {NoJob}]
  BY <1>1, <1>2, <1>3, StartKeeps
<1>5. TypeOK'
  BY <1>1, <1>3, <1>4 DEF CallInv, TypeOK, journal
<1>6. QED BY <1>4, <1>5 DEF CallInv

(* A deadline orphans the request it gives up. *)
LEMMA CallFailsKeeps ==
    ASSUME CallInv, NEW t \in Thread, CallFails(t)
    PROVE  CallInv'
<1>1. /\ pc[t] \in {"call", "wait"}
      /\ pc' = [pc EXCEPT ![t] = "loop"] /\ peer' = [peer EXCEPT ![t] = NoPeer]
      /\ job' = Orphan({t})
      /\ UNCHANGED <<clients, seen, journal, counter, boot, iter>>
  BY DEF CallFails
<1>2. late' \subseteq Late
  <2>1. pc[t] = "call" => Request(t) \in Late
    BY RequestType
  <2>2. QED BY <2>1 DEF CallFails, CallInv, TypeOK
<1>3. /\ pc' \in [Thread -> PC] /\ peer' \in [Thread -> Node \cup {NoPeer}] /\ pc'[t] = "loop"
      /\ \A u \in Thread \ {t} : pc'[u] = pc[u] /\ peer'[u] = peer[u]
  BY <1>1 DEF CallInv, TypeOK, PC
<1>4. {t} \in SUBSET Thread
  OBVIOUS
<1>5. JobsFit' /\ Paired' /\ job' \in [Thread -> Job \cup {NoJob}]
  BY <1>1, <1>3, <1>4, OrphanKeeps
<1>6. TypeOK'
  BY <1>1, <1>2, <1>3, <1>5 DEF CallInv, TypeOK, journal
<1>7. QED BY <1>5, <1>6 DEF CallInv

(* The steps of the loop over the clients, together. *)
LEMMA GossipKeeps ==
    ASSUME CallInv, NEW t \in Thread, Gossip(t)
    PROVE  CallInv'
<1>1. CASE IterationEnds(t) \/ IterationRaises(t)
  BY <1>1, OnlyFinishKeeps DEF IterationEnds, IterationRaises, Busy, Looping
<1>2. QED BY <1>1, CallPeerKeeps, SkipSenderKeeps, DispatchKeeps, CallFailsKeeps DEF Gossip

----------------------------------------------------------------------------
(* The actions of handle_finding. *)

(* A record has its type: the ttl of a job that was served is at most finding_ttl. *)
LEMMA RecordRowType ==
    ASSUME CallInv, NEW t \in Thread, pc[t] = "record", RecordRow(t)
    PROVE  events' \in [Node -> Seq(Row)]
<1> DEFINE row == [finding |-> job[t].finding, sender |-> job[t].sender, ttl |-> job[t].ttl]
<1>1. job[t] \in Job /\ job[t].ttl <= FindingTtl /\ t[1] \in Node
  BY ThreadFacts DEF CallInv, TypeOK, JobsFit, Busy, Handling
<1>2. job[t].finding \in Finding /\ job[t].sender \in Node /\ job[t].ttl \in 0 .. FindingTtl
  BY <1>1, JobFields, BoundAssumption
<1>3. row \in Row
  BY <1>2 DEF Row
<1>4. events' = [events EXCEPT ![t[1]] = Append(@, row)]
  BY DEF RecordRow
<1> HIDE DEF row
<1>5. Append(events[t[1]], row) \in Seq(Row)
  BY <1>1, <1>3 DEF CallInv, TypeOK
<1>6. QED BY <1>1, <1>4, <1>5 DEF CallInv, TypeOK

(* The steps of handle_finding. *)
LEMMA HandleKeeps ==
    ASSUME CallInv, NEW t \in Thread, Handle(t)
    PROVE  CallInv'
<1>1. CASE HandleDuplicate(t)
  BY <1>1, OnlyFinishKeeps DEF HandleDuplicate, Busy, Handling
<1>2. CASE HandleNew(t)
  <2>1. /\ Goto(t, "check", "mark")
        /\ UNCHANGED <<clients, seen, journal, counter, boot, job, iter, peer, late>>
    BY <1>2 DEF HandleNew
  <2>2. JobsFit' /\ Paired' /\ pc' \in [Thread -> PC]
    BY <2>1, StageKeeps DEF PC, Busy, Handling, Looping
  <2>3. TypeOK'
    BY <2>1, <2>2 DEF CallInv, TypeOK, journal
  <2>4. QED BY <2>2, <2>3 DEF CallInv
<1>3. CASE HandleMark(t)
  <2>1. /\ Goto(t, "mark", "record")
        /\ seen' = [seen EXCEPT ![t[1]] = MarkSeen(@, FindingId(job[t].finding), MaxSeen)]
        /\ UNCHANGED <<clients, journal, counter, boot, job, iter, peer, late>>
    BY <1>3 DEF HandleMark
  <2>2. job[t] # NoJob
    BY <2>1 DEF Goto, CallInv, JobsFit, Busy, Handling
  <2>3. seen' \in [Node -> Seq(Id)]
    BY <2>1, <2>2, MarkSeenType
  <2>4. JobsFit' /\ Paired' /\ pc' \in [Thread -> PC]
    BY <2>1, StageKeeps DEF PC, Busy, Handling, Looping
  <2>5. TypeOK'
    BY <2>1, <2>3, <2>4 DEF CallInv, TypeOK, journal
  <2>6. QED BY <2>4, <2>5 DEF CallInv
<1>4. CASE HandleRecord(t)
  <2>1. /\ pc[t] = "record" /\ events' \in [Node -> Seq(Row)]
        /\ UNCHANGED <<clients, seen, findings, counter, boot, late>>
    BY <1>4, RecordRowType DEF HandleRecord
  <2>2. CASE Regossips(job[t].ttl)
    <3>1. Goto(t, "record", "loop") /\ Iterate(t) /\ UNCHANGED <<job, peer>>
      BY <1>4, <2>2 DEF HandleRecord
    <3>2. job[t].ttl >= 1
      <4>1. job[t] \in Job
        BY <2>1 DEF CallInv, JobsFit, TypeOK, Busy, Handling
      <4>2. job[t].ttl \in 0 .. FindingTtl + 1
        BY <4>1, JobFields
      <4>3. QED BY <2>2, <4>2, BoundAssumption DEF Regossips
    <3>3. JobsFit' /\ Paired' /\ pc' \in [Thread -> PC]
      BY <3>1, <3>2, StageKeeps DEF PC, Busy, Handling, Looping
    <3>4. iter' \in [Thread -> Iterator]
      BY <3>1, IterateType DEF CallInv
    <3>5. TypeOK'
      BY <2>1, <3>1, <3>3, <3>4 DEF CallInv, TypeOK
    <3>6. QED BY <3>3, <3>5 DEF CallInv
  <2>3. CASE ~Regossips(job[t].ttl)
    <3>1. Finish(t)
      BY <1>4, <2>3 DEF HandleRecord
    <3>2. /\ JobsFit' /\ Paired' /\ pc' \in [Thread -> PC]
          /\ job' \in [Thread -> Job \cup {NoJob}] /\ iter' \in [Thread -> Iterator]
          /\ peer' \in [Thread -> Node \cup {NoPeer}]
      BY <2>1, <3>1, FinishKeeps DEF Busy, Handling
    <3>3. TypeOK'
      BY <2>1, <3>2 DEF CallInv, TypeOK
    <3>4. QED BY <3>2, <3>3 DEF CallInv
  <2>4. QED BY <2>2, <2>3
<1>5. CASE RecordFails(t)
  <2>1. /\ pc[t] = "record" /\ Finish(t)
        /\ UNCHANGED <<clients, seen, findings, counter, boot, late>>
    BY <1>5 DEF RecordFails
  <2>2. events' \in [Node -> Seq(Row)]
    BY <1>5, <2>1, RecordRowType DEF RecordFails, CallInv, TypeOK
  <2>3. /\ JobsFit' /\ Paired' /\ pc' \in [Thread -> PC]
        /\ job' \in [Thread -> Job \cup {NoJob}] /\ iter' \in [Thread -> Iterator]
        /\ peer' \in [Thread -> Node \cup {NoPeer}]
    BY <2>1, FinishKeeps DEF Busy, Handling
  <2>4. TypeOK'
    BY <2>1, <2>2, <2>3 DEF CallInv, TypeOK
  <2>5. QED BY <2>3, <2>4 DEF CallInv
<1>6. QED BY <1>1, <1>2, <1>3, <1>4, <1>5 DEF Handle

----------------------------------------------------------------------------
(* A daemon dies: its threads are gone, and so are the calls they waited for *)
(* and the calls they served. *)

(* A killed daemon waits for nobody and serves nobody. *)
LEMMA RestartKeeps ==
    ASSUME CallInv, NEW n \in Node, Restart(n)
    PROVE  CallInv'
<1> DEFINE mine == ThreadsOf(n)
           waiting == {t \in Thread \ mine : pc[t] = "wait" /\ peer[t] = n}
           first == [NoIteration EXCEPT !.todo = Peers[n]]
<1>1. /\ boot[n] < MaxBoots /\ boot' = [boot EXCEPT ![n] = @ + 1]
      /\ counter' = [counter EXCEPT ![n] = 0]
      /\ seen' = [seen EXCEPT ![n] = <<>>]
      /\ clients' = [clients EXCEPT ![n] = IF n \in Churn THEN {} ELSE Peers[n]]
      /\ pc' = [t \in Thread |->
                   IF t \in mine THEN IF t = MainOf(n) /\ n \in Churn THEN "refresh" ELSE "idle"
                   ELSE IF t \in waiting THEN "loop" ELSE pc[t]]
      /\ job' = [t \in Thread |-> IF t \in mine THEN NoJob ELSE Orphan(mine)[t]]
      /\ iter' = [t \in Thread |-> IF t = MainOf(n) /\ n \in Churn THEN first
                                   ELSE IF t \in mine THEN NoIteration ELSE iter[t]]
      /\ peer' = [t \in Thread |-> IF t \in mine \cup waiting THEN NoPeer ELSE peer[t]]
      /\ late' = {r \in late : r.to # n}
      /\ UNCHANGED journal
  BY DEF Restart
<1>2. \A t \in Thread : t \in mine <=> t[1] = n
  BY ThreadFacts
<1>3. \A t \in waiting : t \in Thread \ mine /\ pc[t] = "wait" /\ peer[t] = n
  OBVIOUS
<1>4. \A t \in Thread \ mine : pc[t] = "wait" /\ peer[t] = n => t \in waiting
  OBVIOUS
<1>5. first \in Iterator /\ NoIteration \in Iterator
  BY PeersAssumption DEF NoIteration, Iterator
<1> HIDE DEF mine, waiting, first
<1>6. /\ Orphan(mine) \in [Thread -> Job \cup {NoJob}]
      /\ \A u \in Thread :
            /\ Orphan(mine)[u] = NoJob <=> job[u] = NoJob
            /\ job[u] # NoJob =>
                  /\ Orphan(mine)[u].ttl = job[u].ttl
                  /\ Orphan(mine)[u].caller = IF job[u].caller \in mine THEN NoThread
                                              ELSE job[u].caller
  <2>1. job \in [Thread -> Job \cup {NoJob}]
    BY DEF CallInv, TypeOK
  <2>2. QED BY <2>1, OrphanFacts
<1>7. TypeOK'
  <2>1. boot' \in [Node -> 1 .. MaxBoots]
    <3>1. boot[n] \in 1 .. MaxBoots /\ MaxBoots \in Nat
      BY BoundAssumption DEF CallInv, TypeOK
    <3>2. boot[n] + 1 \in 1 .. MaxBoots
      BY <1>1, <3>1
    <3>3. QED BY <1>1, <3>2 DEF CallInv, TypeOK
  <2>2. counter' \in [Node -> 0 .. MaxSeq]
    BY <1>1, BoundAssumption DEF CallInv, TypeOK
  <2>3. seen' \in [Node -> Seq(Id)]
    BY <1>1 DEF CallInv, TypeOK
  <2>4. clients' \in [Node -> SUBSET Node]
    BY <1>1, PeersAssumption DEF CallInv, TypeOK
  <2>5. pc' \in [Thread -> PC] /\ peer' \in [Thread -> Node \cup {NoPeer}]
    BY <1>1 DEF CallInv, TypeOK, PC
  <2>6. job' \in [Thread -> Job \cup {NoJob}]
    BY <1>1, <1>6
  <2>7. iter' \in [Thread -> Iterator]
    BY <1>1, <1>5 DEF CallInv, TypeOK
  <2>8. late' \subseteq Late
    BY <1>1 DEF CallInv, TypeOK
  <2>9. QED BY <1>1, <2>1, <2>2, <2>3, <2>4, <2>5, <2>6, <2>7, <2>8 DEF CallInv, TypeOK, journal
<1>8. \A u \in Thread :
          /\ u \in mine => pc'[u] \notin Busy /\ job'[u] = NoJob
          /\ u \in waiting => u \notin mine /\ pc[u] = "wait" /\ pc'[u] = "loop"
          /\ u \notin mine =>
                /\ job'[u] = NoJob <=> job[u] = NoJob
                /\ job[u] # NoJob =>
                      /\ job'[u].ttl = job[u].ttl
                      /\ job'[u].caller = IF job[u].caller \in mine THEN NoThread
                                          ELSE job[u].caller
          /\ u \notin mine \cup waiting => pc'[u] = pc[u] /\ peer'[u] = peer[u]
  <2>1. \A u \in Thread : u \in mine => pc'[u] \notin Busy /\ job'[u] = NoJob
    BY <1>1 DEF Busy, Handling, Looping
  <2>2. \A u \in Thread : u \in waiting => u \notin mine /\ pc[u] = "wait" /\ pc'[u] = "loop"
    BY <1>1, <1>3
  <2>3. \A u \in Thread : u \notin mine => job'[u] = Orphan(mine)[u]
    BY <1>1
  <2>4. \A u \in Thread : u \notin mine \cup waiting => pc'[u] = pc[u] /\ peer'[u] = peer[u]
    BY <1>1
  <2>5. QED BY <1>6, <2>1, <2>2, <2>3, <2>4
<1>9. JobsFit'
  <2> SUFFICES ASSUME NEW u \in Thread
               PROVE  /\ pc'[u] \in Busy <=> job'[u] # NoJob
                      /\ pc'[u] \in Handling => job'[u].ttl <= FindingTtl
                      /\ pc'[u] \in {"share"} \cup Looping => job'[u].ttl >= 1
                      /\ pc'[u] \in {"call", "wait"} => peer'[u] \in Node
    BY DEF JobsFit
  <2>1. CASE u \in mine
    BY <1>8, <2>1 DEF Busy, Handling, Looping
  <2>2. CASE u \in waiting
    <3>1. u \notin mine /\ pc[u] = "wait" /\ pc'[u] = "loop"
      BY <1>8, <2>2
    <3>2. job[u] # NoJob /\ job[u].ttl >= 1
      BY <3>1 DEF CallInv, JobsFit, Busy, Looping
    <3>3. QED BY <1>8, <3>1, <3>2 DEF Busy, Handling, Looping
  <2>3. CASE u \notin mine \cup waiting
    <3>1. pc'[u] \in {"share"} \cup Looping \cup Handling => job[u] # NoJob
      BY <1>8, <2>3 DEF CallInv, JobsFit, Busy
    <3>2. QED BY <1>8, <2>3, <3>1 DEF CallInv, JobsFit
  <2>4. QED BY <2>1, <2>2, <2>3
<1>10. Paired'
  <2>1. ASSUME NEW u \in Thread, job'[u] # NoJob, job'[u].caller # NoThread
        PROVE  /\ u # MainOf(u[1]) /\ pc'[job'[u].caller] = "wait"
               /\ peer'[job'[u].caller] = u[1]
    <3>1. u \notin mine /\ job[u] # NoJob
      BY <1>8, <2>1
    <3>2. job[u].caller \notin mine /\ job'[u].caller = job[u].caller
      BY <1>8, <2>1, <3>1
    <3>3. u # MainOf(u[1]) /\ pc[job[u].caller] = "wait" /\ peer[job[u].caller] = u[1]
      BY <2>1, <3>1, <3>2 DEF CallInv, Paired
    <3>4. job[u].caller \in Thread
      <4>1. job[u] \in Job
        BY <3>1 DEF CallInv, TypeOK
      <4>2. QED BY <2>1, <3>2, <4>1, JobFacts
    <3>5. job[u].caller \notin waiting
      BY <1>2, <1>3, <3>1, <3>3
    <3>6. QED BY <1>8, <3>2, <3>3, <3>4, <3>5
  <2>2. ASSUME NEW u \in Thread, pc'[u] = "wait"
        PROVE  \E v \in Thread : job'[v] # NoJob /\ job'[v].caller = u
    <3>1. u \notin mine /\ u \notin waiting /\ pc[u] = "wait"
      BY <1>8, <2>2 DEF Busy, Looping
    <3>2. PICK v \in Thread : job[v] # NoJob /\ job[v].caller = u
      BY <3>1 DEF CallInv, Paired
    <3>3. peer[u] = v[1] /\ v[1] # n
      BY <1>4, <3>1, <3>2, ThreadFacts DEF CallInv, Paired
    <3>4. v \notin mine
      BY <1>2, <3>3
    <3>5. QED BY <1>8, <3>1, <3>2, <3>4
  <2>3. ASSUME NEW u \in Thread, NEW v \in Thread, job'[u] # NoJob, job'[v] # NoJob,
               job'[u].caller # NoThread, job'[u].caller = job'[v].caller
        PROVE  u = v
    <3>1. u \notin mine /\ v \notin mine /\ job[u] # NoJob /\ job[v] # NoJob
      BY <1>8, <2>3
    <3>2. job[u].caller = job'[u].caller /\ job[v].caller = job'[v].caller
      BY <1>8, <2>3, <3>1
    <3>3. QED BY <2>3, <3>1, <3>2 DEF CallInv, Paired
  <2>4. QED BY <2>1, <2>2, <2>3 DEF Paired
<1>11. QED BY <1>7, <1>9, <1>10 DEF CallInv

----------------------------------------------------------------------------
(* The first invariant. *)

(* No thread is at work at first. *)
LEMMA InitEstablishesCallInv == Init => CallInv
<1> SUFFICES ASSUME Init PROVE CallInv
  OBVIOUS
<1>1. TypeOK
  <2>1. clients \in [Node -> SUBSET Node] /\ counter \in [Node -> 0 .. MaxSeq]
    BY PeersAssumption, BoundAssumption DEF Init
  <2>2. boot \in [Node -> 1 .. MaxBoots]
    BY BoundAssumption DEF Init
  <2>3. seen \in [Node -> Seq(Id)] /\ events \in [Node -> Seq(Row)]
    BY DEF Init
  <2>4. NoIteration \in Iterator /\ "idle" \in PC
    BY DEF NoIteration, Iterator, PC
  <2>5. QED BY <2>1, <2>2, <2>3, <2>4 DEF Init, TypeOK
<1>2. \A t \in Thread : pc[t] = "idle" /\ job[t] = NoJob
  BY DEF Init
<1>3. JobsFit
  BY <1>2 DEF JobsFit, Busy, Handling, Looping
<1>4. Paired
  BY <1>2 DEF Paired
<1>5. QED BY <1>1, <1>3, <1>4 DEF CallInv

(* The steps of a poll loop that has begun something. *)
LEMMA ContinueKeeps ==
    ASSUME CallInv, NEW n \in Node, Continue(n)
    PROVE  CallInv'
<1>1. CASE SkipShare(n)
  BY <1>1, OnlyFinishKeeps, ThreadFacts DEF SkipShare, Busy
<1>2. CASE \E p \in Peers[n] : ConnectPeer(n, p) \/ ClosePeer(n, p) \/ DeletePeer(n, p)
  BY <1>2, RefreshKeeps, ClosePeerKeeps
<1>3. QED BY <1>1, <1>2, ShareFindingKeeps, RefreshKeeps DEF Continue

(* Every step keeps the first inductive invariant. *)
LEMMA StepKeepsCallInv == CallInv /\ [Next]_vars => CallInv'
<1> SUFFICES ASSUME CallInv, [Next]_vars PROVE CallInv'
  OBVIOUS
<1>1. ASSUME NEW n \in Node, Begin(n)
      PROVE  CallInv'
  BY <1>1, CreateFindingKeeps, CreateRejectedKeeps, RefreshKeeps DEF Begin
<1>2. CASE UNCHANGED vars
  <2>1. TypeOK' /\ JobsFit' /\ Paired'
    BY <1>2, NothingCalls DEF vars, CallInv, TypeOK
  <2>2. QED BY <2>1 DEF CallInv
<1>3. CASE Quiet
  BY <1>2, <1>3 DEF Quiet
<1>4. QED
  BY <1>1, <1>2, <1>3, ContinueKeeps, RestartKeeps, GossipKeeps, HandleKeeps, DispatchLateKeeps
  DEF Next

(* The first inductive invariant holds of every reachable state. *)
THEOREM CallInvariance == Spec => []CallInv
BY InitEstablishesCallInv, StepKeepsCallInv, PTL DEF Spec

(* Every variable has its type, for any network and any faults; in particular *)
(* no request leaves with a ttl below 0 and no record has one above *)
(* finding_ttl. *)
THEOREM TypeCorrect == Spec => []TypeOK
<1>1. CallInv => TypeOK
  BY DEF CallInv
<1>2. QED BY <1>1, CallInvariance, PTL

(* Blocking calls and the workers that serve them stay paired through *)
(* deadlines, cancelled channels and restarts on either side. *)
THEOREM CallsMatched == Spec => []CallsAreMatched
<1>1. CallInv => CallsAreMatched
  <2> SUFFICES ASSUME CallInv PROVE CallsAreMatched
    OBVIOUS
  <2>1. ASSUME NEW t \in Thread, pc[t] = "wait"
        PROVE  \E u \in WorkersOf(peer[t]) :
                   /\ pc[u] # "idle" /\ job[u].caller = t
                   /\ \A v \in Thread \ {u} :
                          pc[v] # "idle" /\ job[v] # NoJob => job[v].caller # t
    <3>1. PICK u \in Thread : job[u] # NoJob /\ job[u].caller = t
      BY <2>1 DEF CallInv, Paired
    <3>2. t # NoThread
      BY ThreadFacts
    <3>3. u # MainOf(u[1]) /\ peer[t] = u[1]
      BY <3>1, <3>2 DEF CallInv, Paired
    <3>4. u \in WorkersOf(peer[t])
      BY <3>3, ThreadFacts
    <3>5. pc[u] # "idle"
      BY <3>1 DEF CallInv, JobsFit, Busy, Handling, Looping
    <3>6. \A v \in Thread \ {u} : job[v] # NoJob => job[v].caller # t
      BY <3>1, <3>2 DEF CallInv, Paired
    <3>7. QED BY <3>1, <3>4, <3>5, <3>6
  <2>2. \A u \in Thread : job[u] # NoJob /\ job[u].caller # NoThread =>
            pc[job[u].caller] = "wait" /\ peer[job[u].caller] = u[1]
    BY DEF CallInv, Paired
  <2>3. QED BY <2>1, <2>2 DEF CallsAreMatched
<1>2. QED BY <1>1, CallInvariance, PTL

----------------------------------------------------------------------------
(* The loop over the clients.  Only refresh_peers changes the dict, so where it *)
(* does not run an iterator yields every client. *)

SteadyClients ==
    \A n \in Node \ Churn : clients[n] = Peers[n] /\ pc[MainOf(n)] \notin {"refresh", "delete"}

FreshIterator(u) ==
    /\ iter[u].size = Cardinality(Peers[u[1]])
    /\ iter[u].left = Cardinality(iter[u].todo)

FreshIterators == \A u \in Thread : u[1] \notin Churn /\ pc[u] \in Looping => FreshIterator(u)

LoopInv == SteadyClients /\ FreshIterators

(* What Finish does to each thread. *)
LEMMA FinishFacts ==
    ASSUME CallInv, NEW t \in Thread, pc[t] \in Busy \ {"wait"}, Finish(t)
    PROVE  /\ job[t] # NoJob /\ pc'[t] = "idle" /\ job'[t] = NoJob
           /\ \A u \in Thread \ {t} :
                 /\ job'[u] = job[u] /\ iter'[u] = iter[u]
                 /\ \/ pc'[u] = pc[u] /\ peer'[u] = peer[u]
                    \/ u = job[t].caller /\ pc[u] = "wait" /\ pc'[u] = "loop"
<1> DEFINE c == job[t].caller
<1>1. job[t] # NoJob
  BY DEF CallInv, JobsFit
<1>2. c \in Thread \cup {NoThread} /\ (c # NoThread => pc[c] = "wait")
  <2>1. job[t] \in Job
    BY <1>1 DEF CallInv, TypeOK
  <2>2. c \in Thread \cup {NoThread}
    BY <2>1, JobFacts
  <2>3. QED BY <1>1, <2>2 DEF CallInv, Paired
<1>3. /\ pc' = [u \in Thread |-> CASE u = t -> "idle" [] u = c -> "loop" [] OTHER -> pc[u]]
      /\ peer' = [u \in Thread |-> IF u \in {t, c} THEN NoPeer ELSE peer[u]]
      /\ job' = [job EXCEPT ![t] = NoJob]
      /\ iter' = [iter EXCEPT ![t] = NoIteration]
  BY DEF Finish
<1> HIDE DEF c
<1>4. pc'[t] = "idle" /\ job'[t] = NoJob
  <2>1. t # c
    BY <1>2, ThreadFacts
  <2>2. QED BY <1>3, <2>1 DEF CallInv, TypeOK
<1>5. ASSUME NEW u \in Thread \ {t}
      PROVE  /\ job'[u] = job[u] /\ iter'[u] = iter[u]
             /\ \/ pc'[u] = pc[u] /\ peer'[u] = peer[u]
                \/ u = c /\ pc[u] = "wait" /\ pc'[u] = "loop"
  <2>1. job'[u] = job[u] /\ iter'[u] = iter[u]
    BY <1>3 DEF CallInv, TypeOK
  <2>2. CASE u = c
    <3>1. pc[u] = "wait"
      BY <1>2, <2>2, ThreadFacts
    <3>2. QED BY <1>3, <2>1, <2>2, <3>1
  <2>3. CASE u # c
    BY <1>3, <2>1, <2>3
  <2>4. QED BY <2>2, <2>3
<1>6. QED BY <1>1, <1>4, <1>5 DEF c

(* Iterators that go on or start afresh are fresh. *)
LEMMA LoopInvKeeps ==
    ASSUME CallInv, LoopInv, SteadyClients',
           \A u \in Thread : u[1] \notin Churn /\ pc'[u] \in Looping =>
               \/ pc[u] \in Looping /\ iter'[u] = iter[u]
               \/ FreshIterator(u)'
    PROVE  LoopInv'
BY DEF LoopInv, FreshIterators, FreshIterator

(* A thread that returns leaves the dict and the other iterators alone. *)
LEMMA FinishLoops ==
    ASSUME CallInv, LoopInv, NEW t \in Thread, pc[t] \in Busy \ {"wait"}, Finish(t),
           UNCHANGED clients
    PROVE  LoopInv'
<1>1. /\ pc'[t] = "idle"
      /\ \A u \in Thread \ {t} :
            iter'[u] = iter[u] /\ (pc'[u] = pc[u] \/ (pc[u] = "wait" /\ pc'[u] = "loop"))
  <2>1. pc'[t] = "idle"
    BY FinishFacts
  <2>2. \A u \in Thread \ {t} : iter'[u] = iter[u]
    BY FinishFacts
  <2>3. \A u \in Thread \ {t} : pc'[u] = pc[u] \/ (pc[u] = "wait" /\ pc'[u] = "loop")
    BY FinishFacts
  <2>4. QED BY <2>1, <2>2, <2>3
<1>2. \A u \in Thread : pc'[u] \in {"refresh", "delete"} => pc'[u] = pc[u]
  BY <1>1
<1>3. SteadyClients'
  BY <1>2, ThreadFacts DEF LoopInv, SteadyClients
<1>4. \A u \in Thread : pc'[u] \in Looping => pc[u] \in Looping /\ iter'[u] = iter[u]
  BY <1>1 DEF Looping
<1>5. QED BY <1>3, <1>4, LoopInvKeeps

(* The iterator a loop starts with is fresh. *)
LEMMA IterateLoops ==
    ASSUME CallInv, LoopInv, NEW t \in Thread, NEW from \in Busy, Goto(t, from, "loop"),
           Iterate(t), UNCHANGED clients
    PROVE  LoopInv'
<1>1. /\ pc'[t] = "loop"
      /\ \A u \in Thread \ {t} : pc'[u] = pc[u] /\ iter'[u] = iter[u]
      /\ iter'[t].todo = clients[t[1]]
      /\ iter'[t].size = Cardinality(clients[t[1]]) /\ iter'[t].left = Cardinality(clients[t[1]])
  BY DEF Goto, Iterate, CallInv, TypeOK
<1>2. SteadyClients'
  <2>1. \A u \in Thread : pc'[u] \in {"refresh", "delete"} => pc'[u] = pc[u]
    BY <1>1
  <2>2. QED BY <2>1, ThreadFacts DEF LoopInv, SteadyClients
<1>3. t[1] \notin Churn => FreshIterator(t)'
  <2>1. t[1] \notin Churn => clients[t[1]] = Peers[t[1]]
    BY ThreadFacts DEF LoopInv, SteadyClients
  <2>2. QED BY <1>1, <2>1 DEF FreshIterator
<1>4. QED BY <1>1, <1>2, <1>3, LoopInvKeeps

(* So is one that has gone on by one key. *)
LEMMA AdvanceLoops ==
    ASSUME CallInv, LoopInv, NEW t \in Thread, NEW p, p \in iter[t].todo, Advance(t, p),
           pc[t] = "loop", pc' \in [Thread -> PC], pc'[t] \in Looping,
           \A u \in Thread \ {t} : pc'[u] = pc[u], UNCHANGED clients
    PROVE  LoopInv'
<1>1. iter[t] \in Iterator
  BY DEF CallInv, TypeOK
<1>2. /\ iter'[t].todo = iter[t].todo \ {p} /\ iter'[t].left = iter[t].left - 1
      /\ iter'[t].size = iter[t].size
      /\ \A u \in Thread \ {t} : iter'[u] = iter[u]
  BY <1>1 DEF Advance, CallInv, TypeOK, Iterator
<1>3. Cardinality(iter[t].todo \ {p}) = Cardinality(iter[t].todo) - 1
  <2>1. IsFiniteSet(iter[t].todo)
    BY <1>1, NodeAssumption, FS_Subset DEF Iterator
  <2>2. QED BY <2>1, FS_RemoveElement
<1>4. t[1] \notin Churn => FreshIterator(t)'
  BY <1>2, <1>3 DEF LoopInv, FreshIterators, FreshIterator, Looping
<1>5. SteadyClients'
  <2>1. \A u \in Thread : pc'[u] \in {"refresh", "delete"} => pc'[u] = pc[u]
    BY DEF Looping
  <2>2. QED BY <2>1, ThreadFacts DEF LoopInv, SteadyClients
<1>6. QED BY <1>2, <1>4, <1>5, LoopInvKeeps

(* refresh_peers touches the clients and iterators of its own switch only. *)
LEMMA RefreshLoops ==
    ASSUME CallInv, LoopInv, NEW n \in Node,
           \/ BeginRefresh(n) \/ EndRefresh(n)
           \/ \E p \in Peers[n] : ConnectPeer(n, p) \/ ClosePeer(n, p) \/ DeletePeer(n, p)
    PROVE  n \in Churn /\ LoopInv'
<1> DEFINE OthersKeep ==
               /\ \A m \in Node \ {n} : clients'[m] = clients[m]
               /\ \A u \in Thread : u[1] # n => pc'[u] = pc[u] /\ iter'[u] = iter[u]
<1>1. n \in Churn
  BY DEF LoopInv, SteadyClients, BeginRefresh, EndRefresh, ConnectPeer, ClosePeer, DeletePeer, Goto
<1>2. OthersKeep
  <2>1. CASE BeginRefresh(n)
    BY <2>1, ThreadFacts DEF BeginRefresh, Goto, CallInv, TypeOK
  <2>2. CASE EndRefresh(n)
    BY <2>2, ThreadFacts DEF EndRefresh, Goto, CallInv, TypeOK
  <2>3. ASSUME NEW p \in Peers[n], ConnectPeer(n, p)
        PROVE  OthersKeep
    BY <2>3, ThreadFacts DEF ConnectPeer, CallInv, TypeOK
  <2>4. ASSUME NEW p \in Peers[n], ClosePeer(n, p)
        PROVE  OthersKeep
    BY <2>4, ThreadFacts DEF ClosePeer, CallInv, TypeOK
  <2>5. ASSUME NEW p \in Peers[n], DeletePeer(n, p)
        PROVE  OthersKeep
    BY <2>5, ThreadFacts DEF DeletePeer, Goto, CallInv, TypeOK
  <2>6. QED BY <2>1, <2>2, <2>3, <2>4, <2>5
<1>3. SteadyClients'
  <2>1. \A m \in Node \ Churn : MainOf(m) \in Thread /\ MainOf(m)[1] # n /\ m # n
    BY <1>1, ThreadFacts
  <2>2. QED BY <1>2, <2>1 DEF LoopInv, SteadyClients
<1>4. QED BY <1>1, <1>2, <1>3, LoopInvKeeps

(* A restarted daemon outside Churn has all its clients and no iterator. *)
LEMMA RestartLoops ==
    ASSUME CallInv, LoopInv, NEW n \in Node, Restart(n)
    PROVE  LoopInv'
<1> DEFINE waiting == {t \in Thread \ ThreadsOf(n) : pc[t] = "wait" /\ peer[t] = n}
<1>1. /\ clients' = [clients EXCEPT ![n] = IF n \in Churn THEN {} ELSE Peers[n]]
      /\ pc' = [t \in Thread |->
                   IF t \in ThreadsOf(n)
                   THEN IF t = MainOf(n) /\ n \in Churn THEN "refresh" ELSE "idle"
                   ELSE IF t \in waiting THEN "loop" ELSE pc[t]]
      /\ \A t \in Thread \ ThreadsOf(n) : iter'[t] = iter[t]
  BY ThreadFacts DEF Restart
<1>2. \A t \in waiting : pc[t] = "wait"
  OBVIOUS
<1> HIDE DEF waiting
<1>3. \A t \in Thread : pc'[t] \in Looping => pc[t] \in Looping /\ iter'[t] = iter[t]
  BY <1>1, <1>2 DEF Looping
<1>4. \A m \in Node \ Churn : clients'[m] = Peers[m]
  BY <1>1 DEF LoopInv, SteadyClients, CallInv, TypeOK
<1>5. \A m \in Node \ Churn : pc'[MainOf(m)] \notin {"refresh", "delete"}
  <2>1. ASSUME NEW m \in Node \ Churn
        PROVE  pc'[MainOf(m)] \in {"idle", "loop", pc[MainOf(m)]}
    <3>1. MainOf(m) \in Thread /\ (MainOf(m) = MainOf(n) => m = n)
      BY ThreadFacts
    <3>2. QED BY <1>1, <3>1
  <2>2. QED BY <2>1 DEF LoopInv, SteadyClients
<1>6. SteadyClients'
  BY <1>4, <1>5 DEF SteadyClients
<1>7. QED BY <1>3, <1>6, LoopInvKeeps

(* Every step keeps the clients steady and the iterators fresh. *)
LEMMA StepKeepsLoopInv == CallInv /\ LoopInv /\ [Next]_vars => LoopInv'
<1> SUFFICES ASSUME CallInv, LoopInv, [Next]_vars PROVE LoopInv'
  OBVIOUS
<1>1. ASSUME UNCHANGED <<clients, iter>>, pc' \in [Thread -> PC],
             \A u \in Thread : pc'[u] \in {"refresh", "delete"} => pc'[u] = pc[u],
             \A u \in Thread : pc'[u] \in Looping => pc[u] \in Looping
      PROVE  LoopInv'
  <2>1. SteadyClients'
    BY <1>1, ThreadFacts DEF LoopInv, SteadyClients
  <2>2. QED BY <1>1, <2>1, LoopInvKeeps
<1>2. CASE UNCHANGED vars
  BY <1>1, <1>2 DEF vars, CallInv, TypeOK
<1>3. ASSUME NEW n \in Node, CreateFinding(n) \/ CreateRejected(n)
      PROVE  LoopInv'
  <2>1. /\ UNCHANGED <<clients, iter>>
        /\ Goto(MainOf(n), "idle", "share") \/ UNCHANGED pc
    BY <1>3 DEF CreateFinding, CreateRejected
  <2>2. QED BY <1>1, <2>1 DEF Goto, CallInv, TypeOK, PC, Looping
<1>4. ASSUME NEW n \in Node, ShareFinding(n) \/ SkipShare(n)
      PROVE  LoopInv'
  BY <1>4, IterateLoops, FinishLoops, ThreadFacts DEF ShareFinding, SkipShare, Busy
<1>5. ASSUME NEW t \in Thread, NEW p \in Node, CallPeer(t, p) \/ SkipSender(t, p)
      PROVE  LoopInv'
  <2>1. /\ pc[t] = "loop" /\ p \in iter[t].todo /\ Advance(t, p) /\ UNCHANGED clients
        /\ Goto(t, "loop", "call") \/ UNCHANGED pc
    BY <1>5 DEF CallPeer, SkipSender, Goto
  <2>2. /\ pc' \in [Thread -> PC] /\ pc'[t] \in Looping
        /\ \A u \in Thread \ {t} : pc'[u] = pc[u]
    BY <2>1 DEF Goto, CallInv, TypeOK, PC, Looping
  <2>3. QED BY <2>1, <2>2, AdvanceLoops
<1>6. ASSUME NEW t \in Thread, IterationEnds(t) \/ IterationRaises(t)
      PROVE  LoopInv'
  BY <1>6, FinishLoops DEF IterationEnds, IterationRaises, Busy, Looping
<1>7. ASSUME NEW t \in Thread, NEW u \in Thread, Dispatch(t, u)
      PROVE  LoopInv'
  <2>1. /\ pc[t] = "call" /\ pc[u] = "idle"
        /\ pc' = [pc EXCEPT ![t] = "wait", ![u] = "check"]
        /\ UNCHANGED <<clients, iter>>
    BY <1>7 DEF Dispatch
  <2>2. QED BY <1>1, <2>1 DEF CallInv, TypeOK, PC, Looping
<1>8. ASSUME NEW t \in Thread, CallFails(t)
      PROVE  LoopInv'
  <2>1. /\ pc[t] \in {"call", "wait"} /\ pc' = [pc EXCEPT ![t] = "loop"]
        /\ UNCHANGED <<clients, iter>>
    BY <1>8 DEF CallFails
  <2>2. QED BY <1>1, <2>1 DEF CallInv, TypeOK, PC, Looping
<1>9. ASSUME NEW t \in Thread, Handle(t)
      PROVE  LoopInv'
  <2>1. CASE HandleNew(t) \/ HandleMark(t)
    <3>1. /\ Goto(t, "check", "mark") \/ Goto(t, "mark", "record")
          /\ UNCHANGED <<clients, iter>>
      BY <2>1 DEF HandleNew, HandleMark
    <3>2. QED BY <1>1, <3>1 DEF Goto, CallInv, TypeOK, PC, Looping
  <2>2. CASE HandleDuplicate(t) \/ RecordFails(t)
    BY <2>2, FinishLoops DEF HandleDuplicate, RecordFails, Busy, Handling
  <2>3. CASE HandleRecord(t)
    BY <2>3, IterateLoops, FinishLoops DEF HandleRecord, Busy, Handling
  <2>4. QED BY <1>9, <2>1, <2>2, <2>3 DEF Handle
<1>10. ASSUME NEW r \in late, NEW u \in Thread, DispatchLate(r, u)
       PROVE  LoopInv'
  <2>1. Goto(u, "idle", "check") /\ UNCHANGED <<clients, iter>>
    BY <1>10 DEF DispatchLate
  <2>2. QED BY <1>1, <2>1 DEF Goto, CallInv, TypeOK, PC, Looping
<1>11. CASE Quiet
  BY <1>2, <1>11 DEF Quiet
<1>12. QED
  BY <1>2, <1>3, <1>4, <1>5, <1>6, <1>7, <1>8, <1>9, <1>10, <1>11, RefreshLoops, RestartLoops
  DEF Next, Begin, Continue, Gossip

(* The clients are steady and the iterators fresh, outside Churn. *)
LEMMA LoopInvariance == Spec => [](CallInv /\ LoopInv)
<1>1. Init => LoopInv
  BY ThreadFacts DEF Init, LoopInv, SteadyClients, FreshIterators, Looping
<1>2. QED
  BY <1>1, InitEstablishesCallInv, StepKeepsCallInv, StepKeepsLoopInv, PTL DEF Spec

(* The next key of a fresh iterator over a steady dict can be called. *)
LEMMA FreshIteratorValid ==
    ASSUME CallInv, LoopInv, NEW t \in Thread, t[1] \notin Churn, pc[t] \in Looping
    PROVE  IteratorValid(t) /\ \A p \in Node : ~ChannelClosed(t[1], p)
<1>1. t[1] \in Node /\ clients[t[1]] = Peers[t[1]] /\ pc[MainOf(t[1])] # "delete"
  BY ThreadFacts DEF LoopInv, SteadyClients
<1>2. FreshIterator(t)
  BY DEF LoopInv, FreshIterators
<1>3. iter[t].todo # {} => Cardinality(iter[t].todo) > 0
  <2>1. IsFiniteSet(iter[t].todo)
    BY NodeAssumption, FS_Subset DEF CallInv, TypeOK, Iterator
  <2>2. QED BY <2>1, FS_CardinalityType, FS_EmptySet
<1>4. QED BY <1>1, <1>2, <1>3 DEF IteratorValid, FreshIterator, ChannelClosed

(* A thread leaves the loop by IterationEnds only: neither RuntimeError nor *)
(* ValueError can end it. *)
LEMMA LeavesLoopAtEnd ==
    ASSUME CallInv, LoopInv, NEW t \in Thread, t[1] \notin Churn,
           pc[t] \in Looping, pc'[t] = "idle", UNCHANGED boot, [Next]_vars
    PROVE  iter[t].todo = {}
<1>1. IteratorValid(t) /\ \A p \in Node : ~ChannelClosed(t[1], p)
  BY FreshIteratorValid
<1>2. iter[t].todo \subseteq Node
  BY DEF CallInv, TypeOK, Iterator
<1>3. ASSUME NEW u \in Thread, pc[u] \in Busy \ {"wait"}, Finish(u)
      PROVE  u = t
  BY <1>3, FinishFacts DEF Looping
<1>4. ASSUME NEW n \in Node
      PROVE  ~Begin(n) /\ ~Continue(n) /\ ~Restart(n)
  <2>1. ~Begin(n)
    BY DEF Begin, CreateFinding, CreateRejected, BeginRefresh, Goto, CallInv, TypeOK, Looping
  <2>2. ~ShareFinding(n) /\ ~EndRefresh(n)
    BY DEF ShareFinding, EndRefresh, Goto, CallInv, TypeOK, Looping
  <2>3. ~SkipShare(n)
    BY <1>3, ThreadFacts DEF SkipShare, Busy, Looping
  <2>4. \A p \in Peers[n] : ~ConnectPeer(n, p) /\ ~ClosePeer(n, p) /\ ~DeletePeer(n, p)
    BY DEF ConnectPeer, ClosePeer, DeletePeer, Goto, CallInv, TypeOK, Looping
  <2>5. ~Restart(n)
    <3>1. Restart(n) => boot'[n] = boot[n] + 1 /\ boot[n] \in Nat
      BY DEF Restart, CallInv, TypeOK
    <3>2. QED BY <3>1
  <2>6. QED BY <2>1, <2>2, <2>3, <2>4, <2>5 DEF Continue
<1>5. ASSUME NEW u \in Thread, Gossip(u)
      PROVE  iter[t].todo = {}
  <2>1. CASE IterationEnds(u)
    BY <1>3, <2>1 DEF IterationEnds, Busy, Looping
  <2>2. ~IterationRaises(u)
    <3>1. IterationRaises(u) => u = t
      BY <1>3 DEF IterationRaises, Busy, Looping
    <3>2. ~IterationRaises(t)
      BY <1>1, <1>2 DEF IterationRaises
    <3>3. QED BY <3>1, <3>2
  <2>3. \A p \in Node : ~CallPeer(u, p) /\ ~SkipSender(u, p)
    BY DEF CallPeer, SkipSender, Goto, CallInv, TypeOK, Looping
  <2>4. ~CallFails(u) /\ \A v \in Thread : ~Dispatch(u, v)
    BY DEF CallFails, Dispatch, CallInv, TypeOK, Looping
  <2>5. QED BY <1>5, <2>1, <2>2, <2>3, <2>4 DEF Gossip
<1>6. ASSUME NEW u \in Thread
      PROVE  ~Handle(u)
  <2>1. ~HandleNew(u) /\ ~HandleMark(u)
    BY DEF HandleNew, HandleMark, Goto, CallInv, TypeOK, Looping
  <2>2. ~HandleDuplicate(u) /\ ~RecordFails(u)
    BY <1>3 DEF HandleDuplicate, RecordFails, Busy, Handling, Looping
  <2>3. ~HandleRecord(u)
    <3>1. HandleRecord(u) => ~Goto(u, "record", "loop")
      BY DEF Goto, CallInv, TypeOK, Looping
    <3>2. HandleRecord(u) => pc[u] = "record" /\ Finish(u)
      BY <3>1 DEF HandleRecord
    <3>3. QED BY <1>3, <3>2 DEF Busy, Handling, Looping
  <2>4. QED BY <2>1, <2>2, <2>3 DEF Handle
<1>7. \A r \in late, u \in Thread : ~DispatchLate(r, u)
  BY DEF DispatchLate, Goto, CallInv, TypeOK, Looping
<1>8. ~Quiet /\ ~UNCHANGED vars
  BY DEF Quiet, vars, Looping
<1>9. QED BY <1>4, <1>5, <1>6, <1>7, <1>8 DEF Next

(* A switch whose refresh_peers finds nothing to change, as outside Churn, calls *)
(* every client but the sender in each loop, whatever calls fail and whoever is *)
(* killed.  With Churn it does not, as gossip_partial shows. *)
THEOREM EveryClientCalled ==
    ASSUME Churn = {}
    PROVE  Spec => LoopCallsEveryClient
<1>1. CallInv /\ LoopInv /\ [Next]_vars =>
          [\A t \in Thread : pc[t] \in {"loop", "call", "wait"} /\ pc'[t] = "idle" /\ boot' = boot =>
               iter[t].todo \cap OpenClients(t[1]) \subseteq {job[t].sender}]_vars
  BY LeavesLoopAtEnd DEF Looping
<1>2. QED BY <1>1, LoopInvariance, PTL DEF Spec, LoopCallsEveryClient

----------------------------------------------------------------------------
(* What a step does to the findings that are under way: the kinds of steps the *)
(* remaining invariants tell apart. *)

Requests == {Request(t) : t \in {u \in Thread : pc[u] = "call"}}

(* u goes on with its finding, where it stands in handle_finding or in the loop, *)
(* for the caller it had; only a fault cuts the caller off *)
GoesOn(u) ==
    /\ job[u] # NoJob /\ job'[u] # NoJob
    /\ job'[u].finding = job[u].finding
    /\ \/ job'[u].caller = job[u].caller
       \/ job'[u].caller = NoThread /\ Lossy \cup Killed \cup Churn # {}
    /\ pc'[u] = pc[u] \/ {pc[u], pc'[u]} \subseteq Looping

(* or has no finding any more; only a locked journal makes it drop one unrecorded *)
Stays(u) ==
    \/ GoesOn(u)
    \/ job'[u] = NoJob /\ pc[u] # "wait" /\ (pc[u] = "record" => Locked # {})

OthersStay(t) == \A u \in Thread \ {t} : Stays(u)

NoNewRequests == late' \subseteq late

(* Nothing is handled or written. *)
Idles ==
    /\ UNCHANGED <<seen, journal, boot>>
    /\ \A u \in Thread : Stays(u)
    /\ late' \subseteq late \cup Requests
    /\ Lossy = {} => NoNewRequests

(* t goes to the next stage of handling or sharing. *)
Moves(t, from, to) ==
    /\ pc[t] = from /\ pc'[t] = to /\ job[t] # NoJob /\ job'[t] = job[t]
    /\ OthersStay(t)
    /\ UNCHANGED <<journal, boot, late>>

Marks(t) == seen' = [seen EXCEPT ![t[1]] = MarkSeen(@, FindingId(job[t].finding), MaxSeen)]

(* The worker u takes up the request r, and its caller waits. *)
Takes(u, r) ==
    /\ u \in WorkersOf(r.to) /\ pc[u] = "idle" /\ pc'[u] = "check"
    /\ job'[u] # NoJob /\ job'[u].finding = r.finding
    /\ \/ r \in late /\ job'[u].caller = NoThread
       \/ \E t \in Thread : /\ pc[t] = "call" /\ r = Request(t)
                            /\ job'[u].caller = t /\ pc'[t] = "wait"
    /\ OthersStay(u)
    /\ UNCHANGED <<seen, journal, boot>> /\ NoNewRequests

(* t records its finding and gossips it or returns. *)
Writes(t) ==
    /\ pc[t] = "record" /\ job[t] # NoJob /\ RecordRow(t)
    /\ \/ pc'[t] = "loop" /\ job'[t] = job[t]
       \/ job'[t] = NoJob
    /\ OthersStay(t)
    /\ UNCHANGED <<seen, findings, boot>> /\ NoNewRequests

(* The poll loop of n commits the new finding f. *)
Creates(n, f) ==
    /\ f.origin = n /\ f.boot = boot[n] /\ ~IdTaken(n, FindingId(f))
    /\ FindingId(f) <= LastId[n]
    /\ findings' = [findings EXCEPT ![n] = @ \cup {f}]
    /\ pc[MainOf(n)] = "idle" /\ pc'[MainOf(n)] = "share"
    /\ job'[MainOf(n)] # NoJob
    /\ job'[MainOf(n)].finding = f /\ job'[MainOf(n)].caller = NoThread
    /\ OthersStay(MainOf(n))
    /\ UNCHANGED <<seen, events, boot>> /\ NoNewRequests

(* n forgets its threads and what it has seen. *)
Forgets(n) ==
    /\ n \in Killed
    /\ boot' = [boot EXCEPT ![n] = @ + 1]
    /\ seen' = [seen EXCEPT ![n] = <<>>]
    /\ \A u \in Thread : u[1] = n => job'[u] = NoJob
    /\ \A u \in Thread : u[1] # n => Stays(u)
    /\ UNCHANGED journal /\ NoNewRequests

(* A thread that keeps its job, or has none, goes on or stays without. *)
LEMMA StaysSame ==
    ASSUME CallInv, NEW u \in Thread, job'[u] = job[u],
           pc'[u] = pc[u] \/ {pc[u], pc'[u]} \subseteq Looping
    PROVE  Stays(u)
BY DEF Stays, GoesOn, CallInv, JobsFit, Busy, Looping, Handling

(* So does one whose caller a fault has cut off. *)
LEMMA StaysOrphaned ==
    ASSUME CallInv, NEW u \in Thread, NEW S, job'[u] = Orphan(S)[u],
           Lossy \cup Killed \cup Churn # {},
           pc'[u] = pc[u] \/ {pc[u], pc'[u]} \subseteq Looping
    PROVE  Stays(u)
<1>1. /\ job'[u] = NoJob <=> job[u] = NoJob
      /\ job[u] # NoJob =>
            /\ job'[u].finding = job[u].finding
            /\ job'[u].caller = IF job[u].caller \in S THEN NoThread ELSE job[u].caller
  <2>1. job \in [Thread -> Job \cup {NoJob}]
    BY DEF CallInv, TypeOK
  <2>2. QED BY <2>1, OrphanFacts
<1>2. job[u] = NoJob => pc[u] \notin {"wait", "record"}
  BY DEF CallInv, JobsFit, Busy, Looping, Handling
<1>3. QED BY <1>1, <1>2 DEF Stays, GoesOn

(* A thread that returns has no finding any more; its caller goes on. *)
LEMMA FinishStays ==
    ASSUME CallInv, NEW t \in Thread, pc[t] \in Busy \ {"wait"}, Finish(t)
    PROVE  /\ job'[t] = NoJob /\ OthersStay(t)
           /\ (pc[t] = "record" => Locked # {}) => \A u \in Thread : Stays(u)
<1>1. job'[t] = NoJob
  BY FinishFacts
<1>2. ASSUME NEW u \in Thread \ {t}
      PROVE  Stays(u)
  <2>1. job'[u] = job[u] /\ (pc'[u] = pc[u] \/ (pc[u] = "wait" /\ pc'[u] = "loop"))
    BY FinishFacts
  <2>2. QED BY <2>1, StaysSame DEF Looping
<1>3. QED BY <1>1, <1>2 DEF OthersStay, Stays

(* FindingsStore.create. *)
LEMMA CreateKind ==
    ASSUME CallInv, NEW n \in Node, CreateFinding(n)
    PROVE  \E f \in Finding : Creates(n, f)
<1> DEFINE m == MainOf(n)
           f == [origin |-> n, boot |-> boot[n], seq |-> NextId(n)]
           j == [finding |-> f, ttl |-> FindingTtl + 1, sender |-> n, caller |-> NoThread]
<1>1. /\ m \in Thread /\ counter[n] < LastId[n] /\ ~IdTaken(n, NextId(n))
      /\ Goto(m, "idle", "share")
      /\ findings' = [findings EXCEPT ![n] = @ \cup {f}]
      /\ job' = [job EXCEPT ![m] = j]
      /\ UNCHANGED <<clients, seen, events, boot, iter, peer, late>>
  BY ThreadFacts DEF CreateFinding
<1>2. NextId(n) \in Id /\ NextId(n) <= LastId[n]
  <2>1. counter[n] \in Nat /\ LastId[n] \in Nat
    BY BoundAssumption DEF CallInv, TypeOK
  <2>2. NextId(n) <= LastId[n]
    BY <1>1, <2>1 DEF NextId
  <2>3. QED BY <1>1, <2>2, NextIdType DEF CallInv
<1>3. f \in Finding /\ f.origin = n /\ f.boot = boot[n] /\ FindingId(f) = NextId(n)
  BY <1>2 DEF CallInv, TypeOK, Finding, FindingId
<1>4. j \in Job /\ j.finding = f /\ j.caller = NoThread
  BY <1>3, BoundAssumption DEF Job
<1> HIDE DEF m, f, j
<1>5. /\ pc[m] = "idle" /\ pc'[m] = "share" /\ job'[m] = j
      /\ \A u \in Thread \ {m} : pc'[u] = pc[u] /\ job'[u] = job[u]
  BY <1>1 DEF Goto, CallInv, TypeOK
<1>6. OthersStay(m)
  BY <1>5, StaysSame DEF OthersStay
<1>7. job'[m] # NoJob
  BY <1>4, <1>5, JobFacts
<1>8. Creates(n, f)
  BY <1>1, <1>2, <1>3, <1>4, <1>5, <1>6, <1>7 DEF Creates, NoNewRequests, m
<1>9. QED BY <1>3, <1>8

(* The steps of one thread that neither return nor take up a request. *)
LEMMA StageKind ==
    ASSUME CallInv, NEW t \in Thread, NEW from \in Busy, NEW to, Goto(t, from, to), UNCHANGED job
    PROVE  /\ pc[t] = from /\ pc'[t] = to /\ job[t] # NoJob /\ job'[t] = job[t]
           /\ OthersStay(t)
           /\ {from, to} \subseteq Looping => \A u \in Thread : Stays(u)
<1>1. /\ pc[t] = from /\ pc'[t] = to /\ job' = job
      /\ \A u \in Thread \ {t} : pc'[u] = pc[u]
  BY DEF Goto, CallInv, TypeOK
<1>2. job[t] # NoJob
  BY <1>1 DEF CallInv, JobsFit
<1>3. OthersStay(t)
  BY <1>1, StaysSame DEF OthersStay
<1>4. {from, to} \subseteq Looping => Stays(t)
  BY <1>1, StaysSame
<1>5. QED BY <1>1, <1>2, <1>3, <1>4 DEF OthersStay

(* handle_finding is taken up. *)
LEMMA TakeKind ==
    ASSUME CallInv, NEW u \in Thread, NEW r \in Late, NEW c \in Thread \cup {NoThread},
           u \in WorkersOf(r.to), pc[u] = "idle", Serve(u, r, c),
           pc'[u] = "check",
           \/ r \in late /\ c = NoThread /\ \A v \in Thread \ {u} : pc'[v] = pc[v]
           \/ /\ pc[c] = "call" /\ r = Request(c) /\ c \in Thread /\ pc'[c] = "wait"
              /\ \A v \in Thread \ {u, c} : pc'[v] = pc[v],
           UNCHANGED <<seen, journal, boot>>, NoNewRequests
    PROVE  Takes(u, r)
<1> DEFINE j == ServedJob(r, c)
<1>1. j \in Job /\ j # NoJob /\ j.caller = c /\ j.finding = r.finding
  BY ServedJobType, JobFacts DEF ServedJob
<1>2. job' = [job EXCEPT ![u] = j]
  BY DEF Serve, ServedJob
<1> HIDE DEF j
<1>3. job'[u] = j /\ \A v \in Thread \ {u} : job'[v] = job[v]
  BY <1>2 DEF CallInv, TypeOK
<1>4. \A v \in Thread \ {u} : pc'[v] = pc[v] \/ {pc[v], pc'[v]} \subseteq Looping
  BY DEF Looping
<1>5. OthersStay(u)
  BY <1>3, <1>4, StaysSame DEF OthersStay
<1>6. QED BY <1>1, <1>3, <1>5 DEF Takes

(* The kinds of steps there are. *)
StepKind ==
    \/ Idles
    \/ \E n \in Node : \E f \in Finding : Creates(n, f)
    \/ \E n \in Node : Moves(MainOf(n), "share", "loop") /\ Marks(MainOf(n))
    \/ \E t \in Thread : /\ Moves(t, "check", "mark") /\ UNCHANGED seen
                         /\ ~AlreadySeen(t[1], job[t].finding)
    \/ \E t \in Thread : Moves(t, "mark", "record") /\ Marks(t)
    \/ \E u \in Thread : \E r \in late \cup Requests : Takes(u, r)
    \/ \E t \in Thread : Writes(t)
    \/ \E n \in Node : Forgets(n)

(* A thread that only returns. *)
LEMMA FinishIdles ==
    ASSUME CallInv, NEW t \in Thread, pc[t] \in Busy \ {"wait"}, Finish(t),
           pc[t] = "record" => Locked # {}, UNCHANGED <<seen, journal, boot, late>>
    PROVE  Idles
BY FinishStays DEF Idles, NoNewRequests

(* The steps of refresh_peers. *)
LEMMA RefreshIdles ==
    ASSUME CallInv, LoopInv, NEW n \in Node,
           \/ BeginRefresh(n) \/ EndRefresh(n)
           \/ \E p \in Peers[n] : ConnectPeer(n, p) \/ ClosePeer(n, p) \/ DeletePeer(n, p)
    PROVE  Idles
<1> DEFINE m == MainOf(n)
<1>1. n \in Churn /\ m \in Thread
  BY RefreshLoops, ThreadFacts
<1>2. UNCHANGED <<seen, journal, boot, late>>
  BY DEF BeginRefresh, EndRefresh, ConnectPeer, ClosePeer, DeletePeer, journal
<1>3. ASSUME NEW from \in {"idle", "refresh", "delete"}, NEW to \in {"idle", "refresh", "delete"},
             Goto(m, from, to), UNCHANGED job
      PROVE  \A u \in Thread : Stays(u)
  <2>1. pc[m] = from /\ job' = job /\ \A u \in Thread \ {m} : pc'[u] = pc[u]
    BY <1>3 DEF Goto, CallInv, TypeOK
  <2>2. job[m] = NoJob
    BY <1>1, <2>1 DEF CallInv, JobsFit, Busy, Handling, Looping
  <2>3. Stays(m)
    BY <2>1, <2>2 DEF Stays
  <2>4. QED BY <2>1, <2>3, StaysSame
<1>4. ASSUME NEW p \in Peers[n], ClosePeer(n, p)
      PROVE  \A u \in Thread : Stays(u)
  <2> DEFINE cancelled == {t \in WorkersOf(n) : pc[t] \in {"call", "wait"} /\ peer[t] = p}
  <2>1. /\ pc[m] = "refresh"
        /\ pc' = [t \in Thread |-> CASE t = m -> "delete" [] t \in cancelled -> "loop"
                                     [] OTHER -> pc[t]]
        /\ job' = Orphan(cancelled)
    BY <1>4 DEF ClosePeer
  <2>2. \A t \in cancelled : pc[t] \in {"call", "wait"}
    OBVIOUS
  <2> HIDE DEF cancelled
  <2>3. Stays(m)
    <3>1. job[m] = NoJob
      BY <1>1, <2>1 DEF CallInv, JobsFit, Busy, Handling, Looping
    <3>2. job'[m] = NoJob
      BY <1>1, <2>1, <3>1 DEF Orphan
    <3>3. QED BY <2>1, <3>2 DEF Stays
  <2>4. ASSUME NEW u \in Thread, u # m
        PROVE  Stays(u)
    <3>1. pc'[u] = pc[u] \/ {pc[u], pc'[u]} \subseteq Looping
      <4>1. CASE u \in cancelled
        BY <2>1, <2>2, <2>4, <4>1 DEF Looping
      <4>2. CASE u \notin cancelled
        BY <2>1, <2>4, <4>2
      <4>3. QED BY <4>1, <4>2
    <3>2. Lossy \cup Killed \cup Churn # {}
      BY <1>1
    <3>3. QED BY <2>1, <3>1, <3>2, StaysOrphaned
  <2>5. QED BY <2>3, <2>4
<1>5. \A u \in Thread : Stays(u)
  <2>1. CASE BeginRefresh(n)
    BY <1>3, <2>1 DEF BeginRefresh
  <2>2. CASE EndRefresh(n)
    BY <1>3, <2>2 DEF EndRefresh
  <2>3. ASSUME NEW p \in Peers[n], ConnectPeer(n, p)
        PROVE  \A u \in Thread : Stays(u)
    BY <2>3, StaysSame DEF ConnectPeer
  <2>4. ASSUME NEW p \in Peers[n], DeletePeer(n, p)
        PROVE  \A u \in Thread : Stays(u)
    BY <1>3, <2>4 DEF DeletePeer
  <2>5. QED BY <1>4, <2>1, <2>2, <2>3, <2>4
<1>6. QED BY <1>2, <1>5 DEF Idles, NoNewRequests

(* A restart. *)
LEMMA RestartForgets ==
    ASSUME CallInv, NEW n \in Node, Restart(n)
    PROVE  Forgets(n)
<1> DEFINE mine == ThreadsOf(n)
           waiting == {t \in Thread \ mine : pc[t] = "wait" /\ peer[t] = n}
<1>1. /\ n \in Killed
      /\ boot' = [boot EXCEPT ![n] = @ + 1] /\ seen' = [seen EXCEPT ![n] = <<>>]
      /\ pc' = [t \in Thread |->
                   IF t \in mine THEN IF t = MainOf(n) /\ n \in Churn THEN "refresh" ELSE "idle"
                   ELSE IF t \in waiting THEN "loop" ELSE pc[t]]
      /\ job' = [t \in Thread |-> IF t \in mine THEN NoJob ELSE Orphan(mine)[t]]
      /\ late' \subseteq late
      /\ UNCHANGED journal
  BY DEF Restart
<1>2. \A t \in waiting : pc[t] = "wait"
  OBVIOUS
<1>3. \A t \in Thread : t \in mine <=> t[1] = n
  BY ThreadFacts
<1> HIDE DEF mine, waiting
<1>4. ASSUME NEW u \in Thread, u[1] # n
      PROVE  Stays(u)
  <2>1. /\ job'[u] = Orphan(mine)[u]
        /\ pc'[u] = pc[u] \/ {pc[u], pc'[u]} \subseteq Looping
    BY <1>1, <1>2, <1>3, <1>4 DEF Looping
  <2>2. Lossy \cup Killed \cup Churn # {}
    BY <1>1
  <2>3. QED BY <2>1, <2>2, StaysOrphaned
<1>5. \A u \in Thread : u[1] = n => job'[u] = NoJob
  BY <1>1, <1>3
<1>6. QED BY <1>1, <1>4, <1>5 DEF Forgets, NoNewRequests

(* The loop over the clients, its calls, and the handlers. *)
LEMMA GossipKind ==
    ASSUME CallInv, LoopInv, NEW t \in Thread, Gossip(t)
    PROVE  StepKind
<1>1. ASSUME NEW p \in Node, CallPeer(t, p) \/ SkipSender(t, p)
      PROVE  Idles
  <2>1. /\ UNCHANGED <<seen, journal, boot, late, job>>
        /\ Goto(t, "loop", "call") \/ UNCHANGED pc
    BY <1>1 DEF CallPeer, SkipSender
  <2>2. \A u \in Thread : Stays(u)
    BY <2>1, StageKind, StaysSame DEF Busy, Looping
  <2>3. QED BY <2>1, <2>2 DEF Idles, NoNewRequests
<1>2. CASE IterationEnds(t) \/ IterationRaises(t)
  BY <1>2, FinishIdles DEF IterationEnds, IterationRaises, Busy, Looping, StepKind
<1>3. ASSUME NEW u \in Thread, Dispatch(t, u)
      PROVE  Takes(u, Request(t)) /\ Request(t) \in Requests
  <2>1. /\ pc[t] = "call" /\ u \in WorkersOf(peer[t]) /\ pc[u] = "idle"
        /\ pc' = [pc EXCEPT ![t] = "wait", ![u] = "check"]
        /\ Serve(u, Request(t), t)
        /\ UNCHANGED <<clients, seen, journal, counter, boot, iter, peer, late>>
    BY <1>3 DEF Dispatch
  <2>2. Request(t) \in Late /\ Request(t).to = peer[t]
    BY <2>1, RequestType
  <2>3. /\ pc'[u] = "check" /\ pc'[t] = "wait"
        /\ \A v \in Thread \ {u, t} : pc'[v] = pc[v]
    BY <2>1 DEF CallInv, TypeOK
  <2>4. Takes(u, Request(t))
    BY <2>1, <2>2, <2>3, TakeKind DEF NoNewRequests
  <2>5. QED BY <2>1, <2>4 DEF Requests
<1>4. CASE CallFails(t)
  <2>1. /\ t[1] \in Lossy /\ pc[t] \in {"call", "wait"}
        /\ pc' = [pc EXCEPT ![t] = "loop"]
        /\ job' = Orphan({t})
        /\ UNCHANGED <<seen, journal, boot>>
        /\ \/ UNCHANGED late
           \/ pc[t] = "call" /\ late' = late \cup {Request(t)}
    BY <1>4 DEF CallFails
  <2>2. \A u \in Thread : Stays(u)
    <3>1. Lossy \cup Killed \cup Churn # {}
      BY <2>1
    <3>2. \A u \in Thread : pc'[u] = pc[u] \/ {pc[u], pc'[u]} \subseteq Looping
      BY <2>1 DEF Looping, CallInv, TypeOK
    <3>3. QED BY <2>1, <3>1, <3>2, StaysOrphaned
  <2>3. late' \subseteq late \cup Requests /\ Lossy # {}
    BY <2>1 DEF Requests
  <2>4. QED BY <2>1, <2>2, <2>3 DEF Idles, StepKind
<1>5. QED BY <1>1, <1>2, <1>3, <1>4 DEF Gossip, StepKind

(* The steps of handle_finding. *)
LEMMA HandleKind ==
    ASSUME CallInv, NEW t \in Thread, Handle(t)
    PROVE  StepKind
<1>1. CASE HandleDuplicate(t)
  BY <1>1, FinishIdles DEF HandleDuplicate, Busy, Handling, StepKind
<1>2. CASE HandleNew(t)
  <2>1. Moves(t, "check", "mark") /\ UNCHANGED seen /\ ~AlreadySeen(t[1], job[t].finding)
    BY <1>2, StageKind DEF HandleNew, Moves, Busy, Handling
  <2>2. QED BY <2>1 DEF StepKind
<1>3. CASE HandleMark(t)
  <2>1. Moves(t, "mark", "record") /\ Marks(t)
    BY <1>3, StageKind DEF HandleMark, Moves, Marks, Busy, Handling
  <2>2. QED BY <2>1 DEF StepKind
<1>4. CASE pc[t] = "record" /\ RecordRow(t) /\ Finish(t)
           /\ UNCHANGED <<clients, seen, findings, counter, boot, late>>
  <2>1. job[t] # NoJob
    BY <1>4 DEF CallInv, JobsFit, Busy, Handling
  <2>2. job'[t] = NoJob /\ OthersStay(t)
    BY <1>4, FinishStays DEF Busy, Handling
  <2>3. Writes(t)
    BY <1>4, <2>1, <2>2 DEF Writes, NoNewRequests
  <2>4. QED BY <2>3 DEF StepKind
<1>5. CASE HandleRecord(t)
  <2>1. CASE Regossips(job[t].ttl)
    <3>1. /\ RecordRow(t) /\ Goto(t, "record", "loop") /\ UNCHANGED job
          /\ UNCHANGED <<seen, findings, boot, late>>
      BY <1>5, <2>1 DEF HandleRecord
    <3>2. Writes(t)
      BY <3>1, StageKind DEF Writes, NoNewRequests, Busy, Handling
    <3>3. QED BY <3>2 DEF StepKind
  <2>2. CASE ~Regossips(job[t].ttl)
    BY <1>4, <1>5, <2>2 DEF HandleRecord
  <2>3. QED BY <2>1, <2>2
<1>6. CASE RecordFails(t)
  <2>1. CASE RecordRow(t)
    BY <1>4, <1>6, <2>1 DEF RecordFails
  <2>2. CASE UNCHANGED events
    BY <1>6, <2>2, FinishIdles DEF RecordFails, Busy, Handling, StepKind, journal
  <2>3. QED BY <1>6, <2>1, <2>2 DEF RecordFails
<1>7. QED BY <1>1, <1>2, <1>3, <1>5, <1>6 DEF Handle

(* Every step is of one of the kinds. *)
LEMMA StepKinds ==
    ASSUME CallInv, LoopInv, [Next]_vars
    PROVE  StepKind
<1>1. ASSUME UNCHANGED <<seen, journal, boot, late, pc, job>>
      PROVE  Idles
  BY <1>1, StaysSame DEF Idles, NoNewRequests
<1>2. CASE UNCHANGED vars \/ Quiet
  BY <1>1, <1>2 DEF Quiet, vars, journal, StepKind
<1>3. ASSUME NEW n \in Node, CreateRejected(n)
      PROVE  Idles
  BY <1>1, <1>3 DEF CreateRejected
<1>4. ASSUME NEW n \in Node, ShareFinding(n)
      PROVE  StepKind
  <2>1. /\ MainOf(n) \in Thread /\ MainOf(n)[1] = n
        /\ Goto(MainOf(n), "share", "loop") /\ UNCHANGED <<journal, boot, late, job>>
    BY <1>4, ThreadFacts DEF ShareFinding
  <2>2. Moves(MainOf(n), "share", "loop")
    BY <2>1, StageKind DEF Moves, Busy
  <2>3. Marks(MainOf(n))
    BY <1>4, <2>1 DEF ShareFinding, Marks
  <2>4. QED BY <2>2, <2>3 DEF StepKind
<1>5. ASSUME NEW n \in Node, SkipShare(n)
      PROVE  Idles
  BY <1>5, FinishIdles, ThreadFacts DEF SkipShare, Busy
<1>6. ASSUME NEW r \in late, NEW u \in Thread, DispatchLate(r, u)
      PROVE  Takes(u, r)
  <2>1. /\ r \in Late /\ u \in WorkersOf(r.to) /\ Goto(u, "idle", "check")
        /\ late' = late \ {r} /\ Serve(u, r, NoThread)
        /\ UNCHANGED <<seen, journal, boot>>
    BY <1>6 DEF DispatchLate, CallInv, TypeOK
  <2>2. /\ pc[u] = "idle" /\ pc'[u] = "check" /\ \A v \in Thread \ {u} : pc'[v] = pc[v]
    BY <2>1 DEF Goto, CallInv, TypeOK
  <2>3. NoThread \in Thread \cup {NoThread} /\ NoNewRequests
    BY <2>1 DEF NoNewRequests
  <2>4. QED BY <2>1, <2>2, <2>3, TakeKind
<1>7. ASSUME NEW n \in Node, Begin(n) \/ Continue(n) \/ Restart(n)
      PROVE  StepKind
  BY <1>3, <1>4, <1>5, <1>7, CreateKind, RefreshIdles, RestartForgets DEF Begin, Continue, StepKind
<1>8. QED BY <1>2, <1>6, <1>7, GossipKind, HandleKind DEF Next, StepKind

----------------------------------------------------------------------------
(* A process remembers its own findings, as long as the cache has room for *)
(* all ids. *)

(* The process that created f has marked it, or is gone. *)
Remembered(f) ==
    \/ f.boot < boot[f.origin]
    \/ f.boot = boot[f.origin] /\ HasSeen(seen[f.origin], FindingId(f))

(* Only a poll loop shares, its own finding; only a worker handles; nobody else *)
(* works on a finding its origin has not marked; and a worker that has missed *)
(* an own finding in the cache has it from an earlier process. *)
OwnThread(t) ==
    LET f == job[t].finding
    IN  /\ pc[t] = "share" => t = MainOf(t[1]) /\ f.origin = t[1] /\ f.boot = boot[t[1]]
        /\ pc[t] # "share" => Remembered(f)
        /\ pc[t] \in Handling => t # MainOf(t[1])
        /\ pc[t] \in {"mark", "record"} /\ f.origin = t[1] => f.boot < boot[t[1]]

OwnEvents ==
    \A n \in Node : \A i \in DOMAIN events[n] :
        events[n][i].finding.origin = n => events[n][i].finding.boot < boot[n]

OwnInv ==
    /\ \A n \in Node : Distinct(seen[n])
    /\ \A t \in Thread : job[t] # NoJob => OwnThread(t)
    /\ \A r \in late : Remembered(r.finding)
    /\ OwnEvents

(* No process forgets an id it has marked. *)
Remembers ==
    \A n \in Node :
        \/ boot'[n] = boot[n] + 1
        \/ boot'[n] = boot[n] /\ \A x : HasSeen(seen[n], x) => HasSeen(seen'[n], x)

(* What was remembered still is. *)
LEMMA RememberedStays ==
    ASSUME CallInv, Remembers, NEW f \in Finding, Remembered(f)
    PROVE  Remembered(f)'
<1>1. f.origin \in Node /\ f.boot \in Nat /\ boot[f.origin] \in Nat
  BY DEF Finding, CallInv, TypeOK
<1>2. CASE boot'[f.origin] = boot[f.origin] + 1
  BY <1>1, <1>2 DEF Remembered
<1>3. CASE /\ boot'[f.origin] = boot[f.origin]
           /\ \A x : HasSeen(seen[f.origin], x) => HasSeen(seen'[f.origin], x)
  BY <1>3 DEF Remembered
<1>4. QED BY <1>1, <1>2, <1>3 DEF Remembers

(* _mark_seen adds an id and evicts none. *)
LEMMA MarksFacts ==
    ASSUME CallInv, \A n \in Node : Distinct(seen[n]), MaxSeq <= MaxSeen,
           NEW t \in Thread, job[t] # NoJob, Marks(t)
    PROVE  /\ \A n \in Node : Distinct(seen'[n])
           /\ \A n \in Node \ {t[1]} : seen'[n] = seen[n]
           /\ \A x : HasSeen(seen'[t[1]], x) <=>
                         HasSeen(seen[t[1]], x) \/ x = FindingId(job[t].finding)
<1> DEFINE n == t[1]
           id == FindingId(job[t].finding)
<1>1. /\ n \in Node /\ seen[n] \in Seq(1 .. MaxSeq) /\ id \in 1 .. MaxSeq
      /\ MaxSeq \in Nat /\ MaxSeen \in Nat
  <2>1. n \in Node /\ job[t] \in Job
    BY ThreadFacts DEF CallInv, TypeOK
  <2>2. id \in Id
    BY <2>1, JobFacts
  <2>3. QED BY <2>1, <2>2, BoundAssumption DEF CallInv, TypeOK, Id
<1>2. seen' = [seen EXCEPT ![n] = MarkSeen(seen[n], id, MaxSeen)]
  BY DEF Marks
<1> HIDE DEF n, id
<1>3. /\ Distinct(MarkSeen(seen[n], id, MaxSeen))
      /\ \A x : HasSeen(MarkSeen(seen[n], id, MaxSeen), x) <=> HasSeen(seen[n], x) \/ x = id
  BY <1>1, MarkSeenWithRoom
<1>4. /\ seen'[n] = MarkSeen(seen[n], id, MaxSeen)
      /\ \A m \in Node \ {n} : seen'[m] = seen[m]
  BY <1>1, <1>2 DEF CallInv, TypeOK
<1>5. \A m \in Node : Distinct(seen'[m])
  BY <1>3, <1>4
<1>6. QED BY <1>3, <1>4, <1>5 DEF n, id

(* A thread that goes on fits as before. *)
LEMMA OwnThreadStays ==
    ASSUME CallInv, Remembers, NEW u \in Thread, GoesOn(u), OwnThread(u), boot'[u[1]] = boot[u[1]]
    PROVE  OwnThread(u)'
<1>1. /\ job[u] # NoJob /\ job[u] \in Job /\ job'[u].finding = job[u].finding
      /\ pc'[u] = pc[u] \/ {pc[u], pc'[u]} \subseteq Looping
  BY DEF GoesOn, CallInv, TypeOK
<1>2. job[u].finding \in Finding
  BY <1>1, JobFacts
<1>3. \A f \in Finding : Remembered(f) => Remembered(f)'
  BY RememberedStays
<1>4. QED BY <1>1, <1>2, <1>3 DEF OwnThread, Remembered, Looping, Handling

(* The part of a step's proof that does not depend on its kind: one thread s may *)
(* have done something, the others went on. *)
LEMMA OwnInvKeeps ==
    ASSUME CallInv, CallInv', OwnInv, Remembers, \A n \in Node : Distinct(seen'[n]),
           NEW s, s \in Thread /\ job'[s] # NoJob => OwnThread(s)',
           \A u \in Thread \ {s} : job'[u] = NoJob \/ (Stays(u) /\ boot'[u[1]] = boot[u[1]]),
           late' \subseteq late \cup Requests,
           OwnEvents'
    PROVE  OwnInv'
<1>1. ASSUME NEW u \in Thread \ {s}, job'[u] # NoJob
      PROVE  OwnThread(u)'
  <2>1. GoesOn(u) /\ boot'[u[1]] = boot[u[1]]
    BY <1>1 DEF Stays
  <2>2. OwnThread(u)
    BY <2>1 DEF GoesOn, OwnInv
  <2>3. QED BY <2>1, <2>2, OwnThreadStays
<1>2. ASSUME NEW r \in late \cup Requests
      PROVE  Remembered(r.finding)'
  <2>1. CASE r \in late
    <3>1. r.finding \in Finding /\ Remembered(r.finding)
      BY <2>1 DEF OwnInv, CallInv, TypeOK, Late
    <3>2. QED BY <3>1, RememberedStays
  <2>2. ASSUME NEW t \in Thread, pc[t] = "call", r = Request(t)
        PROVE  Remembered(r.finding)'
    <3>1. r.finding = job[t].finding /\ job[t] # NoJob /\ job[t] \in Job
      BY <2>2, RequestType DEF CallInv, TypeOK, JobsFit, Busy, Looping
    <3>2. r.finding \in Finding /\ Remembered(r.finding)
      BY <2>2, <3>1, JobFacts DEF OwnInv, OwnThread
    <3>3. QED BY <3>2, RememberedStays
  <2>3. QED BY <2>1, <2>2 DEF Requests
<1>3. QED BY <1>1, <1>2 DEF OwnInv

(* Every step keeps the memory of own findings. *)
LEMMA StepKeepsOwnInv ==
    ASSUME MaxSeq <= MaxSeen, CallInv, CallInv', LoopInv, OwnInv, [Next]_vars
    PROVE  OwnInv' /\ Remembers
<1> DEFINE distinct == \A n \in Node : Distinct(seen'[n])
<1>1. ASSUME UNCHANGED <<seen, boot>>
      PROVE  Remembers /\ distinct
  BY <1>1 DEF Remembers, OwnInv
<1>2. ASSUME NEW t \in Thread, job[t] # NoJob, Marks(t), UNCHANGED boot
      PROVE  /\ Remembers /\ distinct
             /\ HasSeen(seen'[t[1]], FindingId(job[t].finding))
             /\ t[1] \in Node
  <2>1. /\ distinct
        /\ \A n \in Node \ {t[1]} : seen'[n] = seen[n]
        /\ \A x : HasSeen(seen'[t[1]], x) <=>
                      HasSeen(seen[t[1]], x) \/ x = FindingId(job[t].finding)
    BY <1>2, MarksFacts DEF OwnInv
  <2>2. t[1] \in Node
    BY ThreadFacts
  <2>3. Remembers
    BY <1>2, <2>1 DEF Remembers
  <2>4. QED BY <2>1, <2>2, <2>3
<1>3. ASSUME UNCHANGED <<events, boot>>
      PROVE  OwnEvents'
  BY <1>3 DEF OwnEvents, OwnInv
<1>4. ASSUME NEW t \in Thread, NEW from, NEW to, Moves(t, from, to)
      PROVE  /\ job[t] # NoJob /\ job'[t] = job[t] /\ pc[t] = from /\ pc'[t] = to
             /\ UNCHANGED boot /\ OwnEvents'
             /\ \A u \in Thread \ {t} : Stays(u) /\ boot'[u[1]] = boot[u[1]]
             /\ late' \subseteq late \cup Requests
  BY <1>3, <1>4 DEF Moves, OthersStay, journal
<1>5. CASE Idles
  <2>1. UNCHANGED <<seen, events, boot>> /\ late' \subseteq late \cup Requests
    BY <1>5 DEF Idles, journal
  <2>2. \A u \in Thread : Stays(u) /\ boot'[u[1]] = boot[u[1]]
    BY <1>5, <2>1 DEF Idles
  <2>3. Remembers /\ distinct /\ OwnEvents'
    BY <1>1, <1>3, <2>1
  <2>4. NoThread \notin Thread
    BY ThreadFacts
  <2>5. QED BY <2>1, <2>2, <2>3, <2>4, OwnInvKeeps
<1>6. ASSUME NEW n \in Node, NEW f \in Finding, Creates(n, f)
      PROVE  OwnInv' /\ Remembers
  <2> DEFINE m == MainOf(n)
  <2>1. /\ m \in Thread /\ m[1] = n /\ pc'[m] = "share" /\ job'[m].finding = f
        /\ f.origin = n /\ f.boot = boot[n]
        /\ UNCHANGED <<seen, events, boot>> /\ late' \subseteq late
        /\ \A u \in Thread \ {m} : Stays(u) /\ boot'[u[1]] = boot[u[1]]
    BY <1>6, ThreadFacts DEF Creates, OthersStay, NoNewRequests
  <2>2. OwnThread(m)'
    BY <2>1 DEF OwnThread, Handling
  <2>3. Remembers /\ distinct /\ OwnEvents'
    BY <1>1, <1>3, <2>1
  <2>4. QED BY <2>1, <2>2, <2>3, OwnInvKeeps
<1>7. ASSUME NEW n \in Node, Moves(MainOf(n), "share", "loop"), Marks(MainOf(n))
      PROVE  OwnInv' /\ Remembers
  <2> DEFINE m == MainOf(n)
  <2>1. m \in Thread /\ m[1] = n
    BY ThreadFacts
  <2>2. /\ job[m] # NoJob /\ job'[m] = job[m] /\ pc[m] = "share" /\ pc'[m] = "loop"
        /\ UNCHANGED boot /\ OwnEvents' /\ late' \subseteq late \cup Requests
        /\ \A u \in Thread \ {m} : Stays(u) /\ boot'[u[1]] = boot[u[1]]
    BY <1>4, <1>7, <2>1
  <2>3. Remembers /\ distinct /\ HasSeen(seen'[n], FindingId(job[m].finding))
    BY <1>2, <1>7, <2>1, <2>2
  <2>4. OwnThread(m)'
    <3>1. job[m].finding.origin = n /\ job[m].finding.boot = boot[n]
      BY <2>1, <2>2 DEF OwnInv, OwnThread
    <3>2. QED BY <2>1, <2>2, <2>3, <3>1 DEF OwnThread, Remembered, Handling, FindingId
  <2>5. QED BY <2>2, <2>3, <2>4, OwnInvKeeps
<1>8. ASSUME NEW t \in Thread, Moves(t, "check", "mark"), UNCHANGED seen,
             ~AlreadySeen(t[1], job[t].finding)
      PROVE  OwnInv' /\ Remembers
  <2>1. /\ job[t] # NoJob /\ job'[t] = job[t] /\ pc[t] = "check" /\ pc'[t] = "mark"
        /\ UNCHANGED boot /\ OwnEvents' /\ late' \subseteq late \cup Requests
        /\ \A u \in Thread \ {t} : Stays(u) /\ boot'[u[1]] = boot[u[1]]
    BY <1>4, <1>8
  <2>2. Remembers /\ distinct
    BY <1>1, <1>8, <2>1
  <2>3. OwnThread(t)'
    <3>1. Remembered(job[t].finding) /\ t # MainOf(t[1])
      BY <2>1 DEF OwnInv, OwnThread, Handling
    <3>2. job[t].finding.origin = t[1] => job[t].finding.boot < boot[t[1]]
      BY <1>8, <3>1 DEF Remembered, AlreadySeen
    <3>3. QED BY <1>8, <2>1, <3>1, <3>2 DEF OwnThread, Remembered
  <2>4. QED BY <2>1, <2>2, <2>3, OwnInvKeeps
<1>9. ASSUME NEW t \in Thread, Moves(t, "mark", "record"), Marks(t)
      PROVE  OwnInv' /\ Remembers
  <2>1. /\ job[t] # NoJob /\ job'[t] = job[t] /\ pc[t] = "mark" /\ pc'[t] = "record"
        /\ UNCHANGED boot /\ OwnEvents' /\ late' \subseteq late \cup Requests
        /\ \A u \in Thread \ {t} : Stays(u) /\ boot'[u[1]] = boot[u[1]]
    BY <1>4, <1>9
  <2>2. Remembers /\ distinct
    BY <1>2, <1>9, <2>1
  <2>3. OwnThread(t)'
    <3>1. OwnThread(t)
      BY <2>1 DEF OwnInv
    <3>2. Remembered(job[t].finding) /\ job[t].finding \in Finding
      BY <2>1, <3>1, JobFacts DEF OwnThread, CallInv, TypeOK
    <3>3. Remembered(job[t].finding)' /\ UNCHANGED job[t].finding
      <4>1. \A f \in Finding : Remembered(f) => Remembered(f)'
        BY <2>2, RememberedStays
      <4>2. QED BY <2>1, <3>2, <4>1 DEF Remembered
    <3>4. QED BY <2>1, <3>1, <3>3 DEF OwnThread, Handling
  <2>4. QED BY <2>1, <2>2, <2>3, OwnInvKeeps
<1>10. ASSUME NEW u \in Thread, NEW r \in late \cup Requests, Takes(u, r)
       PROVE  OwnInv' /\ Remembers
  <2>1. /\ u \in WorkersOf(r.to) /\ pc'[u] = "check" /\ job'[u].finding = r.finding
        /\ UNCHANGED <<seen, events, boot>> /\ late' \subseteq late
        /\ \A v \in Thread \ {u} : Stays(v) /\ boot'[v[1]] = boot[v[1]]
    BY <1>10 DEF Takes, OthersStay, NoNewRequests, journal
  <2>2. Remembers /\ distinct /\ OwnEvents'
    BY <1>1, <1>3, <2>1
  <2>3. r \in Late /\ Remembered(r.finding)
    <3>1. CASE r \in late
      BY <3>1 DEF OwnInv, CallInv, TypeOK
    <3>2. ASSUME NEW t \in Thread, pc[t] = "call", r = Request(t)
          PROVE  r \in Late /\ Remembered(r.finding)
      <4>1. r \in Late /\ r.finding = job[t].finding /\ job[t] # NoJob
        BY <3>2, RequestType DEF CallInv, JobsFit, Busy, Looping
      <4>2. QED BY <3>2, <4>1 DEF OwnInv, OwnThread
    <3>3. QED BY <3>1, <3>2 DEF Requests
  <2>4. u # MainOf(u[1])
    <3>1. r.to \in Node
      BY <2>3 DEF Late
    <3>2. QED BY <2>1, <3>1, ThreadFacts
  <2>5. OwnThread(u)'
    BY <2>1, <2>3, <2>4 DEF OwnThread, Remembered
  <2>6. QED BY <2>1, <2>2, <2>5, OwnInvKeeps
<1>11. ASSUME NEW t \in Thread, Writes(t)
       PROVE  OwnInv' /\ Remembers
  <2> DEFINE n == t[1]
             row == [finding |-> job[t].finding, sender |-> job[t].sender, ttl |-> job[t].ttl]
  <2>1. /\ pc[t] = "record" /\ job[t] # NoJob /\ n \in Node
        /\ events' = [events EXCEPT ![n] = Append(@, row)]
        /\ \/ pc'[t] = "loop" /\ job'[t] = job[t]
           \/ job'[t] = NoJob
        /\ UNCHANGED <<seen, boot>> /\ late' \subseteq late
        /\ \A v \in Thread \ {t} : Stays(v) /\ boot'[v[1]] = boot[v[1]]
    BY <1>11, ThreadFacts DEF Writes, RecordRow, OthersStay, NoNewRequests
  <2>2. OwnThread(t)
    BY <2>1 DEF OwnInv
  <2>3. Remembers /\ distinct
    BY <1>1, <2>1
  <2>4. OwnEvents'
    <3>1. row.finding.origin = n => row.finding.boot < boot[n]
      BY <2>1, <2>2 DEF OwnThread
    <3> HIDE DEF row, n
    <3>2. \A m \in Node : \A i \in DOMAIN events'[m] :
              \/ i \in DOMAIN events[m] /\ events'[m][i] = events[m][i]
              \/ m = n /\ events'[m][i] = row
      BY <2>1 DEF CallInv, TypeOK
    <3>3. QED BY <2>1, <3>1, <3>2 DEF OwnInv, OwnEvents
  <2>5. job'[t] # NoJob => OwnThread(t)'
    BY <2>1, <2>2 DEF OwnThread, Remembered, Handling
  <2>6. QED BY <2>1, <2>3, <2>4, <2>5, OwnInvKeeps
<1>12. ASSUME NEW n \in Node, Forgets(n)
       PROVE  OwnInv' /\ Remembers
  <2>1. /\ boot' = [boot EXCEPT ![n] = @ + 1] /\ seen' = [seen EXCEPT ![n] = <<>>]
        /\ \A u \in Thread : u[1] = n => job'[u] = NoJob
        /\ \A u \in Thread : u[1] # n => Stays(u)
        /\ UNCHANGED events /\ late' \subseteq late
    BY <1>12 DEF Forgets, NoNewRequests, journal
  <2>2. /\ boot'[n] = boot[n] + 1 /\ seen'[n] = <<>>
        /\ \A m \in Node \ {n} : boot'[m] = boot[m] /\ seen'[m] = seen[m]
    BY <2>1 DEF CallInv, TypeOK
  <2>3. distinct
    BY <2>2 DEF OwnInv, Distinct
  <2>4. Remembers
    BY <2>2 DEF Remembers
  <2>5. OwnEvents'
    <3>1. \A m \in Node : boot[m] <= boot'[m] /\ boot[m] \in Nat /\ boot'[m] \in Nat
      <4>1. \A m \in Node : boot[m] \in Nat
        BY DEF CallInv, TypeOK
      <4>2. QED BY <2>2, <4>1
    <3>2. \A m \in Node : \A i \in DOMAIN events[m] : events[m][i].finding.boot \in Nat
      <4>1. \A m \in Node : \A i \in DOMAIN events[m] : events[m][i] \in Row
        BY DEF CallInv, TypeOK
      <4>2. QED BY <4>1 DEF Row, Finding
    <3>3. QED BY <2>1, <3>1, <3>2 DEF OwnInv, OwnEvents
  <2>6. MainOf(n) \in Thread /\ MainOf(n)[1] = n
    BY ThreadFacts
  <2>7. \A u \in Thread \ {MainOf(n)} :
            job'[u] = NoJob \/ (Stays(u) /\ boot'[u[1]] = boot[u[1]])
    BY <2>1, <2>2, ThreadFacts
  <2>8. QED BY <2>1, <2>3, <2>4, <2>5, <2>6, <2>7, OwnInvKeeps
<1>13. QED
  <2>1. StepKind
    BY StepKinds
  <2>2. QED
    BY <1>5, <1>6, <1>7, <1>8, <1>9, <1>10, <1>11, <1>12, <2>1 DEF StepKind

(* The memory of own findings, from the start on. *)
LEMMA OwnInvariance ==
    ASSUME MaxSeq <= MaxSeen
    PROVE  Spec => [](CallInv /\ LoopInv /\ OwnInv)
<1>1. Init => LoopInv
  BY ThreadFacts DEF Init, LoopInv, SteadyClients, FreshIterators, Looping
<1>2. Init => OwnInv
  BY DEF Init, OwnInv, OwnEvents, Distinct
<1>3. CallInv /\ LoopInv /\ OwnInv /\ [Next]_vars => CallInv' /\ LoopInv' /\ OwnInv'
  BY StepKeepsCallInv, StepKeepsLoopInv, StepKeepsOwnInv
<1>4. QED BY <1>1, <1>2, <1>3, InitEstablishesCallInv, PTL DEF Spec

(* A switch never records an own finding as a peer's while the process that *)
(* created it runs, whatever is lost, cancelled or late, if the cache has room *)
(* for the ids of the day. *)
THEOREM NoEcho ==
    ASSUME MaxSeq <= MaxSeen
    PROVE  Spec => []NoEchoBeforeRestart
<1>1. OwnInv => NoEchoBeforeRestart
  BY DEF OwnInv, OwnEvents, NoEchoBeforeRestart, Recorded
<1>2. QED BY <1>1, OwnInvariance, PTL

----------------------------------------------------------------------------
(* Two workers may both miss an id; a third does not once one of them has *)
(* marked it. *)

Rows(n, f) == {i \in DOMAIN events[n] : events[n][i].finding = f}

(* The workers of n that have missed the id of f and will record f. *)
Pending(n, f) == {u \in WorkersOf(n) : pc[u] \in {"mark", "record"} /\ job[u].finding = f}

(* A process records a finding once per thread at most: those that will have *)
(* all missed it before the first marked it. *)
CopyInv ==
    /\ \A n \in Node : \A f \in Finding :
          /\ Copies(n, f) + Cardinality(Pending(n, f)) <= boot[n] * Cardinality(Worker)
          /\ ~HasSeen(seen[n], FindingId(f)) => Copies(n, f) <= (boot[n] - 1) * Cardinality(Worker)
    /\ \A u \in Thread : pc[u] = "record" => HasSeen(seen[u[1]], FindingId(job[u].finding))

(* A pool has as many threads as its process has workers. *)
LEMMA WorkersFinite ==
    ASSUME NEW n \in Node
    PROVE  IsFiniteSet(WorkersOf(n)) /\ Cardinality(WorkersOf(n)) = Cardinality(Worker)
<1>1. IsFiniteSet({n}) /\ Cardinality({n}) = 1
  BY FS_Singleton
<1>2. /\ IsFiniteSet({n} \X Worker)
      /\ Cardinality({n} \X Worker) = Cardinality({n}) * Cardinality(Worker)
  BY <1>1, WorkerAssumption, FS_Product
<1>3. Cardinality(Worker) \in Nat
  BY WorkerAssumption, FS_CardinalityType
<1>4. QED BY <1>1, <1>2, <1>3 DEF WorkersOf

(* The copies are a number, and so are the pending ones, one per thread at most. *)
LEMMA CountsFinite ==
    ASSUME CallInv, NEW n \in Node, NEW f
    PROVE  /\ IsFiniteSet(Rows(n, f)) /\ Copies(n, f) \in Nat
           /\ IsFiniteSet(Pending(n, f)) /\ Cardinality(Pending(n, f)) \in Nat
           /\ Cardinality(Pending(n, f)) <= Cardinality(Worker)
           /\ Cardinality(Worker) \in Nat /\ boot[n] \in Nat
<1>1. IsFiniteSet(DOMAIN events[n])
  <2>1. events[n] \in Seq(Row)
    BY DEF CallInv, TypeOK
  <2>2. DOMAIN events[n] = 1 .. Len(events[n]) /\ Len(events[n]) \in Nat
    BY <2>1
  <2>3. QED BY <2>2, FS_Interval
<1>2. IsFiniteSet(Rows(n, f))
  BY <1>1, FS_Subset DEF Rows
<1>3. Copies(n, f) = Cardinality(Rows(n, f))
  BY DEF Copies, Rows
<1>4. Pending(n, f) \in SUBSET WorkersOf(n)
  BY DEF Pending
<1>5. IsFiniteSet(Pending(n, f)) /\ Cardinality(Pending(n, f)) <= Cardinality(Worker)
  BY <1>4, WorkersFinite, FS_Subset
<1>6. Cardinality(Worker) \in Nat /\ boot[n] \in Nat
  BY WorkerAssumption, FS_CardinalityType DEF CallInv, TypeOK
<1>7. QED BY <1>2, <1>3, <1>5, <1>6, FS_CardinalityType

(* The same after a step, with the names a step's proof needs. *)
LEMMA CountsFinitePrime ==
    ASSUME CallInv', NEW n \in Node, NEW f
    PROVE  /\ IsFiniteSet(Pending(n, f)') /\ Cardinality(Pending(n, f)') \in Nat
           /\ Cardinality(Pending(n, f)') <= Cardinality(Worker)
<1>1. Pending(n, f)' \in SUBSET WorkersOf(n)
  BY DEF Pending
<1>2. IsFiniteSet(Pending(n, f)') /\ Cardinality(Pending(n, f)') <= Cardinality(Worker)
  BY <1>1, WorkersFinite, FS_Subset
<1>3. QED BY <1>2, FS_CardinalityType

(* One more record of a finding is one more copy of it, and of no other. *)
LEMMA CopiesAfterWrite ==
    ASSUME CallInv, NEW n \in Node, NEW row, NEW f,
           events' = [events EXCEPT ![n] = Append(@, row)]
    PROVE  /\ row.finding = f => Copies(n, f)' = Copies(n, f) + 1
           /\ row.finding # f => Copies(n, f)' = Copies(n, f)
           /\ \A m \in Node \ {n} : Copies(m, f)' = Copies(m, f)
<1> DEFINE last == Len(events[n]) + 1
<1>1. /\ events[n] \in Seq(Row) /\ events'[n] = Append(events[n], row)
      /\ \A m \in Node \ {n} : events'[m] = events[m]
  BY DEF CallInv, TypeOK
<1>2. /\ DOMAIN events'[n] = DOMAIN events[n] \cup {last} /\ last \notin DOMAIN events[n]
      /\ events'[n][last] = row /\ \A i \in DOMAIN events[n] : events'[n][i] = events[n][i]
  BY <1>1
<1> HIDE DEF last
<1>3. row.finding = f => Rows(n, f)' = Rows(n, f) \cup {last}
  BY <1>2 DEF Rows
<1>4. row.finding # f => Rows(n, f)' = Rows(n, f)
  BY <1>2 DEF Rows
<1>5. last \notin Rows(n, f) /\ IsFiniteSet(Rows(n, f))
  BY <1>2, CountsFinite DEF Rows
<1>6. Cardinality(Rows(n, f) \cup {last}) = Cardinality(Rows(n, f)) + 1
  BY <1>5, FS_AddElement
<1>7. /\ Copies(n, f) = Cardinality(Rows(n, f))
      /\ Copies(n, f)' = Cardinality(Rows(n, f)')
  BY DEF Copies, Rows
<1>8. \A m \in Node \ {n} : Copies(m, f)' = Copies(m, f)
  BY <1>1 DEF Copies
<1>9. QED BY <1>3, <1>4, <1>6, <1>7, <1>8

(* A step that writes no record: whoever becomes pending has missed the id. *)
LEMMA CopyInvKeeps ==
    ASSUME CallInv, CallInv', CopyInv, Remembers, UNCHANGED <<events, boot>>,
           \A u \in Thread : pc'[u] \in {"mark", "record"} =>
               \/ pc[u] \in {"mark", "record"} /\ job'[u].finding = job[u].finding
               \/ ~HasSeen(seen[u[1]], FindingId(job'[u].finding)),
           \A u \in Thread : pc'[u] = "record" =>
               HasSeen(seen'[u[1]], FindingId(job'[u].finding))
    PROVE  CopyInv'
<1>1. ASSUME NEW n \in Node, NEW f \in Finding
      PROVE  /\ Copies(n, f)' + Cardinality(Pending(n, f)') <= boot'[n] * Cardinality(Worker)
             /\ ~HasSeen(seen'[n], FindingId(f)) =>
                    Copies(n, f)' <= (boot'[n] - 1) * Cardinality(Worker)
  <2>1. /\ Copies(n, f) \in Nat /\ Cardinality(Pending(n, f)) \in Nat
        /\ IsFiniteSet(Pending(n, f)) /\ Cardinality(Worker) \in Nat /\ boot[n] \in Nat
        /\ Cardinality(Pending(n, f)') \in Nat
        /\ Cardinality(Pending(n, f)') <= Cardinality(Worker)
    BY CountsFinite, CountsFinitePrime
  <2>2. Copies(n, f)' = Copies(n, f) /\ boot'[n] = boot[n]
    BY DEF Copies
  <2>3. ~HasSeen(seen'[n], FindingId(f)) => ~HasSeen(seen[n], FindingId(f))
    BY <2>1, <2>2 DEF Remembers
  <2>4. /\ Copies(n, f) + Cardinality(Pending(n, f)) <= boot[n] * Cardinality(Worker)
        /\ ~HasSeen(seen[n], FindingId(f)) => Copies(n, f) <= (boot[n] - 1) * Cardinality(Worker)
    BY DEF CopyInv
  <2>5. CASE ~HasSeen(seen[n], FindingId(f))
    BY <2>1, <2>2, <2>4, <2>5
  <2>6. CASE HasSeen(seen[n], FindingId(f))
    <3>1. Pending(n, f)' \subseteq Pending(n, f)
      BY <2>6, ThreadFacts DEF Pending
    <3>2. Cardinality(Pending(n, f)') <= Cardinality(Pending(n, f))
      BY <2>1, <3>1, FS_Subset
    <3>3. QED BY <2>1, <2>2, <2>3, <2>4, <2>6, <3>2
  <2>7. QED BY <2>5, <2>6
<1>2. QED BY <1>1 DEF CopyInv

(* A thread that goes on does not become pending. *)
LEMMA StaysPending ==
    ASSUME CallInv, CallInv', CopyInv, NEW u \in Thread, Stays(u), pc'[u] \in {"mark", "record"}
    PROVE  pc[u] = pc'[u] /\ job'[u].finding = job[u].finding
<1>1. job'[u] # NoJob
  BY DEF CallInv, JobsFit, Busy, Handling
<1>2. QED BY <1>1 DEF Stays, GoesOn, Looping

(* A record: a pending thread becomes a copy. *)
LEMMA WritesKeepsCopyInv ==
    ASSUME CallInv, CallInv', OwnInv, CopyInv, NEW t \in Thread, Writes(t)
    PROVE  CopyInv'
<1> DEFINE n == t[1]
           g == job[t].finding
           row == [finding |-> g, sender |-> job[t].sender, ttl |-> job[t].ttl]
<1>1. /\ pc[t] = "record" /\ job[t] # NoJob /\ n \in Node
      /\ events' = [events EXCEPT ![n] = Append(@, row)] /\ row.finding = g
      /\ UNCHANGED <<seen, boot>>
      /\ \A u \in Thread \ {t} : Stays(u)
  BY ThreadFacts DEF Writes, RecordRow, OthersStay
<1>2. t \in WorkersOf(n)
  BY <1>1, ThreadFacts DEF OwnInv, OwnThread, Handling
<1>3. HasSeen(seen[n], FindingId(g))
  BY <1>1 DEF CopyInv
<1>4. pc'[t] \notin {"mark", "record"}
  <2>1. job'[t] = NoJob => pc'[t] \notin Busy
    BY DEF CallInv, JobsFit
  <2>2. QED BY <2>1 DEF Writes, Busy, Handling
<1>5. \A u \in Thread : pc'[u] \in {"mark", "record"} =>
          u # t /\ pc[u] = pc'[u] /\ job'[u].finding = job[u].finding
  BY <1>1, <1>4, StaysPending
<1> HIDE DEF n, g, row
<1>6. ASSUME NEW m \in Node, NEW f \in Finding
      PROVE  /\ Copies(m, f)' + Cardinality(Pending(m, f)') <= boot'[m] * Cardinality(Worker)
             /\ ~HasSeen(seen'[m], FindingId(f)) =>
                    Copies(m, f)' <= (boot'[m] - 1) * Cardinality(Worker)
  <2>1. /\ Copies(m, f) \in Nat /\ Cardinality(Pending(m, f)) \in Nat
        /\ IsFiniteSet(Pending(m, f)) /\ Cardinality(Pending(m, f)') \in Nat
        /\ Cardinality(Worker) \in Nat /\ boot[m] \in Nat
    BY CountsFinite, CountsFinitePrime
  <2>2. /\ Copies(m, f) + Cardinality(Pending(m, f)) <= boot[m] * Cardinality(Worker)
        /\ ~HasSeen(seen[m], FindingId(f)) => Copies(m, f) <= (boot[m] - 1) * Cardinality(Worker)
    BY DEF CopyInv
  <2>3. Pending(m, f)' \subseteq Pending(m, f) \ {t}
    BY <1>5, ThreadFacts DEF Pending
  <2>4. CASE m = n /\ f = g
    <3>1. Copies(m, f)' = Copies(m, f) + 1
      BY <1>1, <2>4, CopiesAfterWrite
    <3>2. t \in Pending(m, f)
      BY <1>1, <1>2, <2>4 DEF Pending, g
    <3>3. /\ IsFiniteSet(Pending(m, f) \ {t})
          /\ Cardinality(Pending(m, f) \ {t}) = Cardinality(Pending(m, f)) - 1
      BY <2>1, <3>2, FS_RemoveElement
    <3>4. Cardinality(Pending(m, f)') <= Cardinality(Pending(m, f)) - 1
      BY <2>3, <3>3, FS_Subset
    <3>5. HasSeen(seen'[m], FindingId(f))
      BY <1>1, <1>3, <2>4
    <3>6. QED BY <1>1, <2>1, <2>2, <3>1, <3>4, <3>5
  <2>5. CASE ~(m = n /\ f = g)
    <3>1. Copies(m, f)' = Copies(m, f)
      BY <1>1, <2>5, CopiesAfterWrite
    <3>2. Cardinality(Pending(m, f)') <= Cardinality(Pending(m, f))
      BY <2>1, <2>3, FS_Subset
    <3>3. QED BY <1>1, <2>1, <2>2, <3>1, <3>2
  <2>6. QED BY <2>4, <2>5
<1>7. \A u \in Thread : pc'[u] = "record" => HasSeen(seen'[u[1]], FindingId(job'[u].finding))
  BY <1>1, <1>5 DEF CopyInv
<1>8. QED BY <1>6, <1>7 DEF CopyInv

(* A restart: the copies there are count as those of earlier processes. *)
LEMMA ForgetsKeepsCopyInv ==
    ASSUME CallInv, CallInv', CopyInv, NEW n \in Node, Forgets(n)
    PROVE  CopyInv'
<1>1. /\ boot'[n] = boot[n] + 1
      /\ \A m \in Node \ {n} : boot'[m] = boot[m] /\ seen'[m] = seen[m]
      /\ \A u \in Thread : u[1] = n => job'[u] = NoJob
      /\ \A u \in Thread : u[1] # n => Stays(u)
      /\ UNCHANGED events
  BY DEF Forgets, CallInv, TypeOK, journal
<1>2. \A u \in Thread : u[1] = n => pc'[u] \notin {"mark", "record"}
  BY <1>1 DEF CallInv, JobsFit, Busy, Handling
<1>3. \A u \in Thread : pc'[u] \in {"mark", "record"} =>
          u[1] # n /\ pc[u] = pc'[u] /\ job'[u].finding = job[u].finding
  BY <1>1, <1>2, StaysPending
<1>4. ASSUME NEW m \in Node, NEW f \in Finding
      PROVE  /\ Copies(m, f)' + Cardinality(Pending(m, f)') <= boot'[m] * Cardinality(Worker)
             /\ ~HasSeen(seen'[m], FindingId(f)) =>
                    Copies(m, f)' <= (boot'[m] - 1) * Cardinality(Worker)
  <2>1. /\ Copies(m, f) \in Nat /\ Cardinality(Pending(m, f)) \in Nat
        /\ IsFiniteSet(Pending(m, f)) /\ Cardinality(Pending(m, f)') \in Nat
        /\ Cardinality(Pending(m, f)') <= Cardinality(Worker)
        /\ Cardinality(Worker) \in Nat /\ boot[m] \in Nat
    BY CountsFinite, CountsFinitePrime
  <2>2. /\ Copies(m, f) + Cardinality(Pending(m, f)) <= boot[m] * Cardinality(Worker)
        /\ ~HasSeen(seen[m], FindingId(f)) => Copies(m, f) <= (boot[m] - 1) * Cardinality(Worker)
    BY DEF CopyInv
  <2>3. Copies(m, f)' = Copies(m, f)
    BY <1>1 DEF Copies
  <2>4. CASE m = n
    <3>1. Copies(m, f) <= boot[m] * Cardinality(Worker)
      BY <2>1, <2>2
    <3>2. (boot[m] + 1) * Cardinality(Worker) = boot[m] * Cardinality(Worker) + Cardinality(Worker)
      BY <2>1
    <3>3. QED BY <1>1, <2>1, <2>3, <2>4, <3>1, <3>2
  <2>5. CASE m # n
    <3>1. Pending(m, f)' \subseteq Pending(m, f)
      BY <1>3, ThreadFacts DEF Pending
    <3>2. Cardinality(Pending(m, f)') <= Cardinality(Pending(m, f))
      BY <2>1, <3>1, FS_Subset
    <3>3. QED BY <1>1, <2>1, <2>2, <2>3, <2>5, <3>2
  <2>6. QED BY <2>4, <2>5
<1>5. \A u \in Thread : pc'[u] = "record" => HasSeen(seen'[u[1]], FindingId(job'[u].finding))
  BY <1>1, <1>3, ThreadFacts DEF CopyInv
<1>6. QED BY <1>4, <1>5 DEF CopyInv

(* Every step keeps the count. *)
LEMMA StepKeepsCopyInv ==
    ASSUME MaxSeq <= MaxSeen, CallInv, CallInv', LoopInv, OwnInv, CopyInv, [Next]_vars
    PROVE  CopyInv'
<1>1. Remembers /\ StepKind
  BY StepKeepsOwnInv, StepKinds
<1>2. ASSUME UNCHANGED <<seen, events, boot>>,
             \A u \in Thread : pc'[u] \in {"mark", "record"} => Stays(u)
      PROVE  CopyInv'
  <2>1. \A u \in Thread : pc'[u] \in {"mark", "record"} =>
            pc[u] = pc'[u] /\ job'[u].finding = job[u].finding
    BY <1>2, StaysPending
  <2>2. \A u \in Thread : pc'[u] = "record" => HasSeen(seen'[u[1]], FindingId(job'[u].finding))
    BY <1>2, <2>1 DEF CopyInv
  <2>3. QED BY <1>1, <1>2, <2>1, <2>2, CopyInvKeeps
<1>3. CASE Idles
  BY <1>2, <1>3 DEF Idles, journal
<1>4. ASSUME NEW n \in Node, NEW f \in Finding, Creates(n, f)
      PROVE  CopyInv'
  BY <1>2, <1>4 DEF Creates, OthersStay
<1>5. ASSUME NEW u \in Thread, NEW r \in late \cup Requests, Takes(u, r)
      PROVE  CopyInv'
  BY <1>2, <1>5 DEF Takes, OthersStay, journal
<1>6. ASSUME NEW t \in Thread, NEW from, NEW to, Moves(t, from, to), Marks(t),
             to \in {"mark", "record"} => from = "mark"
      PROVE  CopyInv'
  <2>1. /\ job[t] # NoJob /\ job'[t] = job[t] /\ pc[t] = from /\ pc'[t] = to
        /\ UNCHANGED <<events, boot>> /\ \A u \in Thread \ {t} : Stays(u)
    BY <1>6 DEF Moves, OthersStay, journal
  <2>2. \A u \in Thread \ {t} : pc'[u] \in {"mark", "record"} =>
            pc[u] = pc'[u] /\ job'[u].finding = job[u].finding
    BY <2>1, StaysPending
  <2>3. /\ HasSeen(seen'[t[1]], FindingId(job[t].finding))
        /\ \A u \in Thread : HasSeen(seen[u[1]], FindingId(job[u].finding)) =>
                                 HasSeen(seen'[u[1]], FindingId(job[u].finding))
    <3>1. /\ \A n \in Node \ {t[1]} : seen'[n] = seen[n]
          /\ \A x : HasSeen(seen'[t[1]], x) <=>
                        HasSeen(seen[t[1]], x) \/ x = FindingId(job[t].finding)
      BY <1>6, <2>1, MarksFacts DEF OwnInv
    <3>2. QED BY <3>1, ThreadFacts
  <2>4. \A u \in Thread : pc'[u] = "record" => HasSeen(seen'[u[1]], FindingId(job'[u].finding))
    BY <2>1, <2>2, <2>3 DEF CopyInv
  <2>5. \A u \in Thread : pc'[u] \in {"mark", "record"} =>
            pc[u] \in {"mark", "record"} /\ job'[u].finding = job[u].finding
    BY <1>6, <2>1, <2>2
  <2>6. QED BY <1>1, <2>1, <2>4, <2>5, CopyInvKeeps
<1>7. ASSUME NEW t \in Thread, Moves(t, "check", "mark"), UNCHANGED seen,
             ~AlreadySeen(t[1], job[t].finding)
      PROVE  CopyInv'
  <2>1. /\ job'[t] = job[t] /\ pc[t] = "check" /\ pc'[t] = "mark"
        /\ UNCHANGED <<events, boot>> /\ \A u \in Thread \ {t} : Stays(u)
    BY <1>7 DEF Moves, OthersStay, journal
  <2>2. \A u \in Thread \ {t} : pc'[u] \in {"mark", "record"} =>
            pc[u] = pc'[u] /\ job'[u].finding = job[u].finding
    BY <2>1, StaysPending
  <2>3. \A u \in Thread : pc'[u] = "record" => HasSeen(seen'[u[1]], FindingId(job'[u].finding))
    BY <1>7, <2>1, <2>2 DEF CopyInv
  <2>4. ~HasSeen(seen[t[1]], FindingId(job'[t].finding))
    BY <1>7, <2>1 DEF AlreadySeen
  <2>5. QED BY <1>1, <2>1, <2>2, <2>3, <2>4, CopyInvKeeps
<1>8. ASSUME NEW n \in Node, Moves(MainOf(n), "share", "loop"), Marks(MainOf(n))
      PROVE  CopyInv'
  BY <1>6, <1>8, ThreadFacts
<1>9. ASSUME NEW t \in Thread, Moves(t, "mark", "record"), Marks(t)
      PROVE  CopyInv'
  BY <1>6, <1>9
<1>10. QED
  BY <1>1, <1>3, <1>4, <1>5, <1>7, <1>8, <1>9, WritesKeepsCopyInv, ForgetsKeepsCopyInv DEF StepKind

(* A journal holds at most as many copies of a finding as the processes of its *)
(* switch have had threads, if the cache has room for the ids of the day. *)
THEOREM FewCopies ==
    ASSUME MaxSeq <= MaxSeen
    PROVE  Spec => []CopiesBounded
<1> DEFINE Inv == CallInv /\ LoopInv /\ OwnInv
<1>1. Init => CopyInv
  <2> SUFFICES ASSUME Init PROVE CopyInv
    OBVIOUS
  <2>1. CallInv
    BY InitEstablishesCallInv
  <2>2. ASSUME NEW n \in Node, NEW f \in Finding
        PROVE  /\ Copies(n, f) + Cardinality(Pending(n, f)) <= boot[n] * Cardinality(Worker)
               /\ Copies(n, f) <= (boot[n] - 1) * Cardinality(Worker)
    <3>1. Rows(n, f) = {} /\ boot[n] = 1
      BY DEF Init, Rows
    <3>2. Pending(n, f) = {}
      BY ThreadFacts DEF Init, Pending
    <3>3. Copies(n, f) = 0 /\ Cardinality(Pending(n, f)) = 0
      BY <3>1, <3>2, FS_EmptySet DEF Copies, Rows
    <3>4. Cardinality(Worker) \in Nat
      BY WorkerAssumption, FS_CardinalityType
    <3>5. QED BY <3>1, <3>3, <3>4
  <2>3. \A u \in Thread : pc[u] # "record"
    BY DEF Init
  <2>4. QED BY <2>2, <2>3 DEF CopyInv
<1>2. Inv /\ Inv' /\ CopyInv /\ [Next]_vars => CopyInv'
  BY StepKeepsCopyInv
<1>3. Inv /\ CopyInv => CopiesBounded
  <2> SUFFICES ASSUME Inv, CopyInv, NEW n \in Node, NEW f \in Recorded(n)
               PROVE  Copies(n, f) <= boot[n] * Cardinality(Worker)
    BY DEF CopiesBounded
  <2>1. f \in Finding
    <3>1. \A i \in DOMAIN events[n] : events[n][i] \in Row
      BY DEF CallInv, TypeOK
    <3>2. QED BY <3>1 DEF Recorded, Row
  <2>2. Copies(n, f) + Cardinality(Pending(n, f)) <= boot[n] * Cardinality(Worker)
    BY <2>1 DEF CopyInv
  <2>3. /\ Copies(n, f) \in Nat /\ Cardinality(Pending(n, f)) \in Nat
        /\ Cardinality(Worker) \in Nat /\ boot[n] \in Nat
    BY CountsFinite
  <2>4. boot[n] * Cardinality(Worker) \in Nat
    BY <2>3
  <2>5. QED BY <2>2, <2>3, <2>4
<1>4. Spec => []Inv
  BY OwnInvariance
<1> HIDE DEF Inv
<1>5. QED BY <1>1, <1>2, <1>3, <1>4, PTL DEF Spec

============================================================================
