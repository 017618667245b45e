---------------------- MODULE FindingGossipRefinement ----------------------
(***************************************************************************)
(* FindingGossip implements Dissemination, and what Dissemination promises *)
(* holds of the journals, whatever fails.  Where ids differ a finding is   *)
(* dropped only by a switch that knows it; where nothing fails it is       *)
(* recorded once, and everywhere the forwarding should take it.            *)
(***************************************************************************)
EXTENDS FindingGossipProofs

Committed(f) == f \in findings[f.origin]

(* m may hand the finding f to its peer n, to arrive with ttl hops left *)
Handed(m, n, f, ttl) ==
    /\ n \in Peers[m]
    /\ <<m, f, FindingTtl - ttl>> \in Held
    /\ Abstract!MayRelay(FindingTtl - ttl)

(* n, which has f with ttl hops left, may hand it on *)
Offered(n, f, ttl) ==
    /\ <<n, f, FindingTtl + 1 - ttl>> \in Held
    /\ Abstract!MayRelay(FindingTtl + 1 - ttl)

(* A worker serves a finding that the sender has; a thread that gossips has *)
(* committed what it gossips. *)
ThreadFits(t) ==
    /\ job[t] # NoJob => Committed(job[t].finding)
    /\ pc[t] \in Handling => Handed(job[t].sender, t[1], job[t].finding, job[t].ttl)
    /\ pc[t] \in {"share"} \cup Looping => Offered(t[1], job[t].finding, job[t].ttl)

RequestFits(r) == Committed(r.finding) /\ Handed(r.sender, r.to, r.finding, r.ttl)

EventsCommitted == \A n \in Node : \A i \in DOMAIN events[n] : Committed(events[n][i].finding)

ClientsArePeers ==
    /\ \A n \in Node : clients[n] \subseteq Peers[n]
    /\ \A t \in Thread : iter[t].todo \subseteq Peers[t[1]]
    /\ \A t \in Thread : pc[t] \in {"call", "wait"} => peer[t] \in Peers[t[1]]

Chain ==
    /\ ClientsArePeers
    /\ EventsCommitted
    /\ \A t \in Thread : ThreadFits(t)
    /\ \A r \in late : RequestFits(r)

ChainInv == CallInv /\ Chain

----------------------------------------------------------------------------
(* What a switch holds. *)

HopsOf(row) == FindingTtl + 1 - row.ttl

Created == UNION {{<<n, f, 0>> : f \in findings[n]} : n \in Node}

Received ==
    UNION {{<<n, events[n][i].finding, FindingTtl + 1 - events[n][i].ttl>> :
               i \in DOMAIN events[n]} : n \in Node}

(* What a switch holds because it created it. *)
LEMMA CreatedMembers ==
    \A x : x \in Created <=> \E n \in Node : \E f \in findings[n] : x = <<n, f, 0>>
BY DEF Created

(* What a switch holds because it recorded it. *)
LEMMA ReceivedMembers ==
    \A x : x \in Received <=> \E n \in Node : \E i \in DOMAIN events[n] :
                                 x = <<n, events[n][i].finding, HopsOf(events[n][i])>>
<1>1. ASSUME NEW x
      PROVE  x \in Received <=>
                 \E n \in Node : x \in {<<n, events[n][i].finding, FindingTtl + 1 - events[n][i].ttl>> :
                                            i \in DOMAIN events[n]}
  BY DEF Received
<1>2. QED BY <1>1 DEF HopsOf

(* The same after a step. *)
LEMMA ReceivedMembersPrime ==
    \A x : x \in Received' <=> \E n \in Node : \E i \in DOMAIN events'[n] :
                                  x = <<n, events'[n][i].finding, HopsOf(events'[n][i])>>
<1>1. ASSUME NEW x
      PROVE  x \in Received' <=>
                 \E n \in Node : x \in {<<n, events'[n][i].finding, FindingTtl + 1 - events'[n][i].ttl>> :
                                            i \in DOMAIN events'[n]}
  BY DEF Received
<1>2. QED BY <1>1 DEF HopsOf

(* A switch holds what it created and what it recorded. *)
LEMMA HeldSplit == Held = Created \cup Received
BY DEF Held, Created, Received

(* What switches hold is a function of the journals. *)
LEMMA HeldUnchanged == UNCHANGED journal => Held' = Held
BY DEF Held, journal

(* What a switch has created is a function of the findings tables. *)
LEMMA CreatedUnchanged == UNCHANGED findings => Created' = Created
BY DEF Created

(* One more record is one more finding held, by the switch that recorded it. *)
LEMMA HeldAfterRecord ==
    ASSUME TypeOK, NEW n \in Node, NEW row \in Row,
           events' = [events EXCEPT ![n] = Append(@, row)], UNCHANGED findings
    PROVE  Held' = Held \cup {<<n, row.finding, HopsOf(row)>>}
<1> DEFINE new == <<n, row.finding, HopsOf(row)>>
           At(e, x) == \E m \in Node : \E i \in DOMAIN e[m] :
                           x = <<m, e[m][i].finding, HopsOf(e[m][i])>>
<1>1. /\ events[n] \in Seq(Row) /\ events'[n] = Append(events[n], row)
      /\ \A m \in Node \ {n} : events'[m] = events[m]
  BY DEF TypeOK
<1>2. /\ DOMAIN events'[n] = DOMAIN events[n] \cup {Len(events[n]) + 1}
      /\ events'[n][Len(events[n]) + 1] = row
      /\ \A i \in DOMAIN events[n] : events'[n][i] = events[n][i]
  BY <1>1
<1>3. ASSUME NEW x, At(events', x)
      PROVE  At(events, x) \/ x = new
  <2>0. PICK m \in Node : \E i \in DOMAIN events'[m] :
            x = <<m, events'[m][i].finding, HopsOf(events'[m][i])>>
    BY <1>3
  <2>1. PICK i \in DOMAIN events'[m] :
            x = <<m, events'[m][i].finding, HopsOf(events'[m][i])>>
    BY <2>0
  <2>2. CASE i \in DOMAIN events[m] /\ events'[m][i] = events[m][i]
    BY <2>1, <2>2
  <2>3. CASE m = n /\ events'[m][i] = row
    BY <2>1, <2>3
  <2>4. QED BY <1>1, <1>2, <2>1, <2>2, <2>3
<1>4. ASSUME NEW x, At(events, x)
      PROVE  At(events', x)
  <2>0. PICK m \in Node : \E i \in DOMAIN events[m] :
            x = <<m, events[m][i].finding, HopsOf(events[m][i])>>
    BY <1>4
  <2>1. PICK i \in DOMAIN events[m] :
            x = <<m, events[m][i].finding, HopsOf(events[m][i])>>
    BY <2>0
  <2>2. i \in DOMAIN events'[m] /\ events'[m][i] = events[m][i]
    BY <1>1, <1>2
  <2>3. QED BY <2>1, <2>2
<1>5. At(events', new)
  <2>1. PICK i \in DOMAIN events'[n] : events'[n][i] = row
    BY <1>2
  <2>2. new = <<n, events'[n][i].finding, HopsOf(events'[n][i])>>
    BY <2>1
  <2>3. QED BY <2>2
<1>6. \A x : x \in Received <=> At(events, x)
  BY ReceivedMembers
<1>7. \A x : x \in Received' <=> At(events', x)
  BY ReceivedMembersPrime
<1> HIDE DEF At, new
<1>8. Received' = Received \cup {new}
  BY <1>3, <1>4, <1>5, <1>6, <1>7
<1>9. Created' = Created
  BY CreatedUnchanged
<1>10. QED BY <1>8, <1>9, HeldSplit DEF new, Held, Created, Received

(* A committed finding is held by its origin, over no hop. *)
LEMMA HeldAfterCreate ==
    ASSUME TypeOK, NEW n \in Node, NEW f, findings' = [findings EXCEPT ![n] = @ \cup {f}],
           UNCHANGED events
    PROVE  Held' = Held \cup {<<n, f, 0>>}
<1>1. /\ findings'[n] = findings[n] \cup {f}
      /\ \A m \in Node \ {n} : findings'[m] = findings[m]
  BY DEF TypeOK
<1>2. \A x : x \in Created' <=> \E m \in Node : \E g \in findings'[m] : x = <<m, g, 0>>
  BY DEF Created
<1>3. Created' = Created \cup {<<n, f, 0>>}
  BY <1>1, <1>2, CreatedMembers
<1>4. Received' = Received
  BY DEF Received
<1>5. QED BY <1>3, <1>4, HeldSplit DEF Held, Created, Received

----------------------------------------------------------------------------
(* What switches hold and commit only grows, so what fits goes on to fit. *)

Grows == Held \subseteq Held' /\ \A n \in Node : findings[n] \subseteq findings'[n]

(* A step that writes no journal loses nothing. *)
LEMMA GrowsUnchanged == UNCHANGED journal => Grows
BY HeldUnchanged DEF Grows, journal

(* What is committed stays committed. *)
LEMMA CommittedStays ==
    ASSUME Grows, NEW f \in Finding, Committed(f)
    PROVE  Committed(f)'
BY DEF Grows, Committed, Finding

(* u goes on with its job, or has none any more *)
Same(u) ==
    \/ pc'[u] \notin Busy /\ job'[u] = NoJob
    \/ /\ job'[u] = NoJob <=> job[u] = NoJob
       /\ job[u] # NoJob => /\ job'[u].finding = job[u].finding
                            /\ job'[u].ttl = job[u].ttl
                            /\ job'[u].sender = job[u].sender
       /\ pc'[u] \in Handling => pc[u] \in Handling
       /\ pc'[u] \in {"share"} \cup Looping => pc[u] \in {"share"} \cup Looping

(* A thread that keeps its job, or drops it, still fits the journals. *)
LEMMA ThreadStays ==
    ASSUME CallInv, CallInv', Grows, NEW u \in Thread, ThreadFits(u), Same(u)
    PROVE  ThreadFits(u)'
<1>1. CASE pc'[u] \notin Busy /\ job'[u] = NoJob
  BY <1>1 DEF ThreadFits, Busy
<1>2. CASE /\ job'[u] = NoJob <=> job[u] = NoJob
           /\ job[u] # NoJob => /\ job'[u].finding = job[u].finding
                                /\ job'[u].ttl = job[u].ttl
                                /\ job'[u].sender = job[u].sender
           /\ pc'[u] \in Handling => pc[u] \in Handling
           /\ pc'[u] \in {"share"} \cup Looping => pc[u] \in {"share"} \cup Looping
  <2>1. ASSUME job'[u] # NoJob
        PROVE  job'[u].finding \in findings'[job'[u].finding.origin]
    <3>1. job[u] # NoJob /\ job'[u].finding = job[u].finding
      BY <1>2, <2>1
    <3>2. job[u].finding \in Finding /\ job[u].finding \in findings[job[u].finding.origin]
      BY <3>1, JobFields DEF CallInv, TypeOK, ThreadFits, Committed
    <3>3. job[u].finding.origin \in Node
      BY <3>2 DEF Finding
    <3>4. QED BY <3>1, <3>2, <3>3 DEF Grows
  <2>2. ASSUME pc'[u] \in Handling
        PROVE  /\ u[1] \in Peers[job'[u].sender]
               /\ <<job'[u].sender, job'[u].finding, FindingTtl - job'[u].ttl>> \in Held'
               /\ FindingTtl - job'[u].ttl = 0 \/ FindingTtl - job'[u].ttl < FindingTtl
    <3>1. pc[u] \in Handling /\ job[u] # NoJob
      BY <1>2, <2>2 DEF CallInv, JobsFit, Busy
    <3>2. /\ u[1] \in Peers[job[u].sender]
          /\ <<job[u].sender, job[u].finding, FindingTtl - job[u].ttl>> \in Held
          /\ FindingTtl - job[u].ttl = 0 \/ FindingTtl - job[u].ttl < FindingTtl
      BY <3>1 DEF ThreadFits, Handed, Abstract!MayRelay
    <3>3. QED BY <1>2, <3>1, <3>2 DEF Grows
  <2>3. ASSUME pc'[u] \in {"share"} \cup Looping
        PROVE  /\ <<u[1], job'[u].finding, FindingTtl + 1 - job'[u].ttl>> \in Held'
               /\ FindingTtl + 1 - job'[u].ttl = 0 \/ FindingTtl + 1 - job'[u].ttl < FindingTtl
    <3>1. pc[u] \in {"share"} \cup Looping /\ job[u] # NoJob
      BY <1>2, <2>3 DEF CallInv, JobsFit, Busy
    <3>2. /\ <<u[1], job[u].finding, FindingTtl + 1 - job[u].ttl>> \in Held
          /\ FindingTtl + 1 - job[u].ttl = 0 \/ FindingTtl + 1 - job[u].ttl < FindingTtl
      BY <3>1 DEF ThreadFits, Offered, Abstract!MayRelay
    <3>3. QED BY <1>2, <3>1, <3>2 DEF Grows
  <2>4. QED BY <2>1, <2>2, <2>3
            DEF ThreadFits, Committed, Handed, Offered, Abstract!MayRelay
<1>3. QED BY <1>1, <1>2 DEF Same

(* A late request still fits the journals. *)
LEMMA RequestsStay ==
    ASSUME CallInv, Chain, Grows
    PROVE  \A r \in late : RequestFits(r)'
<1> SUFFICES ASSUME NEW r \in late PROVE RequestFits(r)'
  OBVIOUS
<1>1. RequestFits(r) /\ r.finding \in Finding
  BY DEF Chain, CallInv, TypeOK, Late
<1>2. Committed(r.finding)'
  BY <1>1, CommittedStays DEF RequestFits
<1>3. Handed(r.sender, r.to, r.finding, r.ttl)'
  BY <1>1 DEF RequestFits, Handed, Abstract!MayRelay, Grows
<1>4. QED BY <1>2, <1>3 DEF RequestFits

(* The records in the journals stay committed by their origins. *)
LEMMA EventsStay ==
    ASSUME CallInv, Chain, Grows, UNCHANGED events
    PROVE  EventsCommitted'
<1> SUFFICES ASSUME NEW n \in Node, NEW i \in DOMAIN events[n]
             PROVE  Committed(events[n][i].finding)'
  BY DEF EventsCommitted
<1>1. events[n][i].finding \in Finding
  <2>1. events[n] \in Seq(Row)
    BY DEF CallInv, TypeOK
  <2>2. events[n][i] \in Row
    BY <2>1
  <2>3. QED BY <2>2 DEF Row
<1>2. QED BY <1>1, CommittedStays DEF Chain, EventsCommitted

(* The steps that leave the journals alone and let every thread go on. *)
LEMMA QuietStays ==
    ASSUME CallInv, CallInv', Chain, UNCHANGED journal, ClientsArePeers',
           \A u \in Thread : Same(u), late' \subseteq late
    PROVE  Chain'
<1>1. Grows /\ UNCHANGED events
  BY GrowsUnchanged DEF journal
<1>2. EventsCommitted'
  BY <1>1, EventsStay
<1>3. \A u \in Thread : ThreadFits(u)'
  BY <1>1, ThreadStays DEF Chain
<1>4. \A r \in late' : RequestFits(r)'
  BY <1>1, RequestsStay
<1>5. QED BY <1>2, <1>3, <1>4 DEF Chain

(* A thread that goes to its next stage keeps its job. *)
LEMMA StageSame ==
    ASSUME CallInv, NEW t \in Thread, NEW from, NEW to, Goto(t, from, to), UNCHANGED job,
           to \in Handling => from \in Handling,
           to \in {"share"} \cup Looping => from \in {"share"} \cup Looping
    PROVE  \A u \in Thread : Same(u)
BY DEF CallInv, TypeOK, Goto, Same

(* A thread that returns drops its job; its caller keeps its own. *)
LEMMA FinishSame ==
    ASSUME CallInv, NEW t \in Thread, pc[t] \in Busy \ {"wait"}, Finish(t)
    PROVE  /\ \A u \in Thread : Same(u)
           /\ \A u \in Thread : pc'[u] \in {"call", "wait"} => pc[u] = pc'[u] /\ peer'[u] = peer[u]
           /\ \A u \in Thread : iter'[u] = iter[u] \/ iter'[u].todo = {}
<1> DEFINE c == job[t].caller
<1>1. job[t] # NoJob
  BY DEF CallInv, JobsFit
<1>2. c \in Thread \cup {NoThread} /\ c # t /\ (c # NoThread => pc[c] = "wait")
  <2>1. job[t] \in Job
    BY <1>1 DEF CallInv, TypeOK
  <2>2. c \in Thread \cup {NoThread}
    BY <2>1, JobFacts
  <2>3. c # NoThread => pc[c] = "wait"
    BY <1>1 DEF CallInv, Paired
  <2>4. QED BY <2>2, <2>3, ThreadFacts
<1>3. /\ pc' = [u \in Thread |-> CASE u = t -> "idle" [] u = c -> "loop" [] OTHER -> pc[u]]
      /\ peer' = [u \in Thread |-> IF u \in {t, c} THEN NoPeer ELSE peer[u]]
      /\ job' = [job EXCEPT ![t] = NoJob]
      /\ iter' = [iter EXCEPT ![t] = NoIteration]
  BY DEF Finish
<1> HIDE DEF c
<1>4. /\ pc'[t] = "idle" /\ job'[t] = NoJob
      /\ \A u \in Thread \ {t} : job'[u] = job[u]
      /\ c # NoThread => pc'[c] = "loop"
      /\ \A u \in Thread \ {t, c} : pc'[u] = pc[u] /\ peer'[u] = peer[u]
  <2>1. pc'[t] = "idle" /\ (c # NoThread => pc'[c] = "loop")
    BY <1>2, <1>3
  <2>2. job'[t] = NoJob /\ \A u \in Thread \ {t} : job'[u] = job[u]
    BY <1>3 DEF CallInv, TypeOK
  <2>3. \A u \in Thread \ {t, c} : pc'[u] = pc[u] /\ peer'[u] = peer[u]
    BY <1>3
  <2>4. QED BY <2>1, <2>2, <2>3
<1>5. ASSUME NEW u \in Thread
      PROVE  Same(u) /\ (pc'[u] \in {"call", "wait"} => pc[u] = pc'[u] /\ peer'[u] = peer[u])
  <2>1. CASE u = t
    BY <1>4, <2>1 DEF Same, Busy, Handling, Looping
  <2>2. CASE u = c /\ c # t
    BY <1>2, <1>4, <2>2, ThreadFacts DEF Same, Handling, Looping
  <2>3. CASE u # t /\ u # c
    BY <1>4, <2>3 DEF Same
  <2>4. QED BY <2>1, <2>2, <2>3
<1>6. \A u \in Thread : iter'[u] = iter[u] \/ iter'[u].todo = {}
  BY <1>3 DEF CallInv, TypeOK, NoIteration
<1>7. QED BY <1>5, <1>6

(* A step that only returns keeps the chain. *)
LEMMA OnlyFinishStays ==
    ASSUME CallInv, CallInv', Chain, NEW t \in Thread, pc[t] \in Busy \ {"wait"}, Finish(t),
           UNCHANGED <<clients, journal, late>>
    PROVE  Chain'
<1>1. /\ \A u \in Thread : Same(u)
      /\ \A u \in Thread : pc'[u] \in {"call", "wait"} => pc[u] = pc'[u] /\ peer'[u] = peer[u]
      /\ \A u \in Thread : iter'[u] = iter[u] \/ iter'[u].todo = {}
  BY FinishSame
<1>2. ClientsArePeers'
  BY <1>1 DEF Chain, ClientsArePeers
<1>3. QED BY <1>1, <1>2, QuietStays

----------------------------------------------------------------------------
(* The steps of the abstract specification. *)

(* CreateFinding is Create. *)
LEMMA CreateFindingLearns ==
    ASSUME CallInv, CallInv', Chain, NEW n \in Node, CreateFinding(n)
    PROVE  Chain' /\ Abstract!Next
<1> DEFINE m == MainOf(n)
           f == [origin |-> n, boot |-> boot[n], seq |-> NextId(n)]
           j == [finding |-> f, ttl |-> FindingTtl + 1, sender |-> n, caller |-> NoThread]
<1>1. /\ m \in Thread /\ m[1] = n
      /\ Goto(m, "idle", "share")
      /\ findings' = [findings EXCEPT ![n] = @ \cup {f}]
      /\ job' = [job EXCEPT ![m] = j]
      /\ UNCHANGED <<clients, seen, events, boot, iter, peer, late>>
  BY ThreadFacts DEF CreateFinding
<1>2. NextId(n) \in Id
  BY NextIdType DEF CallInv, CreateFinding
<1>3. f \in Finding /\ f.origin = n
  BY <1>2 DEF CallInv, TypeOK, Finding
<1>4. j.finding = f /\ j.ttl = FindingTtl + 1 /\ j.sender = n
  OBVIOUS
<1> HIDE DEF m, f, j
<1>5. Held' = Held \cup {<<n, f, 0>>}
  BY <1>1, HeldAfterCreate DEF CallInv
<1>6. Grows
  BY <1>1, <1>5 DEF Grows, CallInv, TypeOK
<1>7. /\ pc'[m] = "share" /\ job'[m] = j /\ f \in findings'[n]
      /\ \A u \in Thread \ {m} : pc'[u] = pc[u] /\ job'[u] = job[u]
  BY <1>1 DEF Goto, CallInv, TypeOK
<1>8. ThreadFits(m)'
  <2>1. FindingTtl + 1 - job'[m].ttl = 0
    BY <1>4, <1>7, BoundAssumption
  <2>2. <<n, f, FindingTtl + 1 - job'[m].ttl>> \in Held'
    BY <1>5, <2>1
  <2>3. QED BY <1>1, <1>3, <1>4, <1>7, <2>1, <2>2
            DEF ThreadFits, Committed, Offered, Handling, Abstract!MayRelay
<1>9. \A u \in Thread : ThreadFits(u)'
  <2>1. ASSUME NEW u \in Thread, u # m
        PROVE  ThreadFits(u)'
    <3>1. Same(u) /\ ThreadFits(u)
      BY <1>7, <2>1 DEF Same, Chain
    <3>2. QED BY <1>6, <3>1, ThreadStays
  <2>2. QED BY <1>8, <2>1
<1>10. ClientsArePeers'
  <2>1. \A u \in Thread : pc'[u] \in {"call", "wait"} => pc[u] \in {"call", "wait"}
    BY <1>7
  <2>2. QED BY <1>1, <2>1 DEF Chain, ClientsArePeers
<1>11. EventsCommitted'
  BY <1>1, <1>6, EventsStay
<1>12. \A r \in late' : RequestFits(r)'
  BY <1>1, <1>6, RequestsStay
<1>13. Chain'
  BY <1>9, <1>10, <1>11, <1>12 DEF Chain
<1>14. Abstract!Next
  BY <1>3, <1>5 DEF Abstract!Next, Abstract!Create
<1>15. QED BY <1>13, <1>14

(* The record of a finding is Learn: from the switch that sent it, over one *)
(* hop more. *)
LEMMA RecordLearns ==
    ASSUME CallInv, CallInv', Chain, NEW t \in Thread, pc[t] = "record", RecordRow(t),
           UNCHANGED findings
    PROVE  /\ Grows
           /\ EventsCommitted'
           /\ <<t[1], job[t].finding, FindingTtl + 1 - job[t].ttl>> \in Held'
           /\ Abstract!Next
<1> DEFINE n == t[1]
           f == job[t].finding
           m == job[t].sender
           row == [finding |-> f, sender |-> m, ttl |-> job[t].ttl]
           h == FindingTtl - job[t].ttl
<1>1. /\ n \in Node /\ f \in Finding /\ m \in Node /\ job[t].ttl \in 0 .. FindingTtl
      /\ job[t] # NoJob
  <2>1. job[t] # NoJob /\ job[t].ttl <= FindingTtl
    BY DEF CallInv, JobsFit, Busy, Handling
  <2>2. job[t] \in Job
    BY <2>1 DEF CallInv, TypeOK
  <2>3. f \in Finding /\ m \in Node /\ job[t].ttl \in 0 .. FindingTtl + 1
    BY <2>2, JobFields
  <2>4. QED BY <2>1, <2>3, ThreadFacts, BoundAssumption
<1>2. row \in Row /\ row.finding = f /\ row.ttl = job[t].ttl
  BY <1>1 DEF Row
<1>3. events' = [events EXCEPT ![n] = Append(@, row)]
  BY DEF RecordRow
<1>4. Handed(m, n, f, job[t].ttl) /\ Committed(f)
  BY <1>1 DEF Chain, ThreadFits, Handling
<1>5. h \in 0 .. FindingTtl /\ FindingTtl + 1 - job[t].ttl = h + 1
  BY <1>1, BoundAssumption
<1>6. n \in Peers[m] /\ <<m, f, h>> \in Held /\ Abstract!MayRelay(h)
  BY <1>4 DEF Handed
<1> HIDE DEF n, f, m, row, h
<1>7. Held' = Held \cup {<<n, f, h + 1>>}
  BY <1>1, <1>2, <1>3, <1>5, HeldAfterRecord DEF CallInv, HopsOf
<1>8. Grows
  BY <1>7 DEF Grows
<1>9. EventsCommitted'
  <2> SUFFICES ASSUME NEW k \in Node, NEW i \in DOMAIN events'[k]
               PROVE  events'[k][i].finding \in findings'[events'[k][i].finding.origin]
    BY DEF EventsCommitted, Committed
  <2>1. \/ events'[k][i] = row
        \/ i \in DOMAIN events[k] /\ events'[k][i] = events[k][i]
    <3>1. events[k] \in Seq(Row) /\ events[n] \in Seq(Row)
      BY <1>1 DEF CallInv, TypeOK
    <3>2. CASE k = n
      <4>1. events'[k] = Append(events[k], row)
        BY <1>1, <1>3, <3>2 DEF CallInv, TypeOK
      <4>2. QED BY <3>1, <4>1
    <3>3. CASE k # n
      BY <1>3, <3>3 DEF CallInv, TypeOK
    <3>4. QED BY <3>2, <3>3
  <2>2. CASE events'[k][i] = row
    BY <1>2, <1>4, <2>2 DEF Committed
  <2>3. CASE i \in DOMAIN events[k] /\ events'[k][i] = events[k][i]
    BY <2>3 DEF Chain, EventsCommitted, Committed
  <2>4. QED BY <2>1, <2>2, <2>3
<1>10. Abstract!Next
  BY <1>1, <1>5, <1>6, <1>7 DEF Abstract!Next, Abstract!Learn
<1>11. QED BY <1>5, <1>7, <1>8, <1>9, <1>10 DEF n, f

(* A recorded finding is Learn in the abstract, and keeps the chain. *)
LEMMA HandleRecordLearns ==
    ASSUME CallInv, CallInv', Chain, NEW t \in Thread, HandleRecord(t)
    PROVE  Chain' /\ Abstract!Next
<1>1. /\ pc[t] = "record" /\ RecordRow(t)
      /\ UNCHANGED <<clients, seen, findings, counter, boot, late>>
  BY DEF HandleRecord
<1>2. /\ Grows /\ EventsCommitted' /\ Abstract!Next
      /\ <<t[1], job[t].finding, FindingTtl + 1 - job[t].ttl>> \in Held'
  BY <1>1, RecordLearns
<1>3. \A r \in late' : RequestFits(r)'
  BY <1>1, <1>2, RequestsStay
<1>4. CASE Regossips(job[t].ttl)
  <2>1. Goto(t, "record", "loop") /\ Iterate(t) /\ UNCHANGED <<job, peer>>
    BY <1>4 DEF HandleRecord
  <2>2. /\ pc'[t] = "loop"
        /\ \A u \in Thread \ {t} : pc'[u] = pc[u] /\ job'[u] = job[u]
    BY <2>1 DEF Goto, CallInv, TypeOK
  <2>3. job[t] # NoJob /\ job[t].ttl > 1 /\ job[t].ttl \in Nat /\ job[t].finding \in Finding
    <3>1. job[t] # NoJob
      BY <1>1 DEF CallInv, JobsFit, Busy, Handling
    <3>2. job[t].ttl \in 0 .. FindingTtl + 1 /\ job[t].finding \in Finding
      BY <3>1, JobFields DEF CallInv, TypeOK
    <3>3. QED BY <1>4, <3>1, <3>2, BoundAssumption DEF Regossips
  <2>4. FindingTtl + 1 - job[t].ttl < FindingTtl
    BY <2>3, BoundAssumption
  <2>5. job[t].finding \in findings'[job[t].finding.origin]
    <3>1. job[t].finding \in findings[job[t].finding.origin]
      BY <2>3 DEF Chain, ThreadFits, Committed
    <3>2. QED BY <1>1, <3>1
  <2>6. ThreadFits(t)'
    BY <1>2, <2>1, <2>2, <2>3, <2>4, <2>5
    DEF ThreadFits, Committed, Offered, Handling, Abstract!MayRelay
  <2>7. \A u \in Thread : ThreadFits(u)'
    <3>1. ASSUME NEW u \in Thread, u # t
          PROVE  ThreadFits(u)'
      <4>1. Same(u) /\ ThreadFits(u)
        BY <2>2, <3>1 DEF Same, Chain
      <4>2. QED BY <1>2, <4>1, ThreadStays
    <3>2. QED BY <2>6, <3>1
  <2>8. ClientsArePeers'
    <3>1. iter'[t].todo = clients[t[1]] /\ \A u \in Thread \ {t} : iter'[u] = iter[u]
      BY <2>1 DEF Iterate, CallInv, TypeOK
    <3>2. QED BY <1>1, <2>1, <2>2, <3>1, ThreadFacts DEF Chain, ClientsArePeers
  <2>9. Chain'
    BY <1>2, <1>3, <2>7, <2>8 DEF Chain
  <2>10. QED BY <1>2, <2>9
<1>5. CASE ~Regossips(job[t].ttl)
  <2>1. Finish(t)
    BY <1>5 DEF HandleRecord
  <2>2. /\ \A u \in Thread : Same(u)
        /\ \A u \in Thread : pc'[u] \in {"call", "wait"} => pc[u] = pc'[u] /\ peer'[u] = peer[u]
        /\ \A u \in Thread : iter'[u] = iter[u] \/ iter'[u].todo = {}
    BY <1>1, <2>1, FinishSame DEF Busy, Handling
  <2>3. ClientsArePeers'
    BY <1>1, <2>2 DEF Chain, ClientsArePeers
  <2>4. \A u \in Thread : ThreadFits(u)'
    BY <1>2, <2>2, ThreadStays DEF Chain
  <2>5. Chain'
    BY <1>2, <1>3, <2>3, <2>4 DEF Chain
  <2>6. QED BY <1>2, <2>5
<1>6. QED BY <1>4, <1>5

(* A failed handler has either recorded, which is Learn, or changed nothing. *)
LEMMA RecordFailsLearns ==
    ASSUME CallInv, CallInv', Chain, NEW t \in Thread, RecordFails(t)
    PROVE  Chain' /\ (Abstract!Next \/ UNCHANGED Held)
<1>1. /\ pc[t] = "record" /\ Finish(t)
      /\ UNCHANGED <<clients, seen, findings, counter, boot, late>>
      /\ RecordRow(t) \/ UNCHANGED events
  BY DEF RecordFails
<1>2. CASE UNCHANGED events
  <2>1. UNCHANGED <<clients, journal, late>>
    BY <1>1, <1>2 DEF journal
  <2>2. Chain'
    BY <1>1, <2>1, OnlyFinishStays DEF Busy, Handling
  <2>3. QED BY <2>1, <2>2, HeldUnchanged
<1>3. CASE RecordRow(t)
  <2>1. Grows /\ EventsCommitted' /\ Abstract!Next
    BY <1>1, <1>3, RecordLearns
  <2>2. /\ \A u \in Thread : Same(u)
        /\ \A u \in Thread : pc'[u] \in {"call", "wait"} => pc[u] = pc'[u] /\ peer'[u] = peer[u]
        /\ \A u \in Thread : iter'[u] = iter[u] \/ iter'[u].todo = {}
    BY <1>1, FinishSame DEF Busy, Handling
  <2>3. ClientsArePeers'
    BY <1>1, <2>2 DEF Chain, ClientsArePeers
  <2>4. \A u \in Thread : ThreadFits(u)'
    BY <2>1, <2>2, ThreadStays DEF Chain
  <2>5. \A r \in late' : RequestFits(r)'
    BY <1>1, <2>1, RequestsStay
  <2>6. QED BY <2>1, <2>3, <2>4, <2>5 DEF Chain
<1>4. QED BY <1>1, <1>2, <1>3

----------------------------------------------------------------------------
(* The steps that leave the journals alone. *)

(* A request is taken up, or put aside, with the hops its finding has left. *)
LEMMA RequestHanded ==
    ASSUME CallInv, Chain, NEW t \in Thread, pc[t] = "call"
    PROVE  RequestFits(Request(t))
<1>1. /\ Request(t).to = peer[t] /\ Request(t).sender = t[1]
      /\ Request(t).finding = job[t].finding /\ Request(t).ttl = job[t].ttl - 1
  BY RequestType
<1>2. job[t] # NoJob /\ job[t].ttl \in 0 .. FindingTtl + 1
  BY JobFields DEF CallInv, JobsFit, TypeOK, Busy, Looping
<1>3. Committed(job[t].finding) /\ Offered(t[1], job[t].finding, job[t].ttl)
  BY <1>2 DEF Chain, ThreadFits, Looping
<1>4. peer[t] \in Peers[t[1]]
  BY DEF Chain, ClientsArePeers
<1>5. FindingTtl - (job[t].ttl - 1) = FindingTtl + 1 - job[t].ttl
  BY <1>2, BoundAssumption
<1>6. QED BY <1>1, <1>3, <1>4, <1>5 DEF RequestFits, Handed, Offered

(* A worker that starts on a request that fits. *)
LEMMA ServeStays ==
    ASSUME CallInv, CallInv', Chain, UNCHANGED journal, NEW u \in Thread,
           NEW r \in Late, RequestFits(r), NEW c, u[1] = r.to,
           pc'[u] = "check", job' = [job EXCEPT ![u] = ServedJob(r, c)],
           \A v \in Thread \ {u} : pc'[v] = pc[v] \/ (pc[v] = "call" /\ pc'[v] = "wait"),
           UNCHANGED <<clients, iter, peer>>, late' \subseteq late
    PROVE  Chain'
<1>1. Grows /\ UNCHANGED events /\ UNCHANGED findings /\ Held' = Held
  BY GrowsUnchanged, HeldUnchanged DEF journal
<1>2. job'[u] = ServedJob(r, c) /\ \A v \in Thread \ {u} : job'[v] = job[v]
  BY DEF CallInv, TypeOK
<1>3. /\ job'[u].finding = r.finding /\ job'[u].ttl = r.ttl /\ job'[u].sender = r.sender
  BY <1>2 DEF ServedJob
<1>4. ThreadFits(u)'
  BY <1>1, <1>3
  DEF RequestFits, ThreadFits, Handed, Committed, Handling, Looping, Abstract!MayRelay
<1>5. ASSUME NEW v \in Thread
      PROVE  ThreadFits(v)'
  <2>1. CASE v = u
    BY <1>4, <2>1
  <2>2. CASE v # u
    <3>1. Same(v) /\ ThreadFits(v)
      BY <1>2, <2>2 DEF Same, Chain, Handling, Looping
    <3>2. QED BY <1>1, <3>1, ThreadStays
  <2>3. QED BY <2>1, <2>2
<1>6. EventsCommitted'
  BY <1>1, EventsStay
<1>7. \A q \in late' : RequestFits(q)'
  BY <1>1, RequestsStay
<1>8. ClientsArePeers'
  <2>1. \A v \in Thread : pc'[v] \in {"call", "wait"} => pc[v] \in {"call", "wait"}
    OBVIOUS
  <2>2. QED BY <2>1 DEF Chain, ClientsArePeers
<1>9. QED BY <1>5, <1>6, <1>7, <1>8 DEF Chain

(* The loop over the clients writes no journal. *)
LEMMA GossipStays ==
    ASSUME CallInv, CallInv', Chain, NEW t \in Thread, Gossip(t)
    PROVE  Chain' /\ UNCHANGED journal
<1>1. ASSUME NEW p \in Node, CallPeer(t, p)
      PROVE  Chain' /\ UNCHANGED journal
  <2>1. /\ Goto(t, "loop", "call") /\ p \in iter[t].todo /\ Advance(t, p)
        /\ peer' = [peer EXCEPT ![t] = p]
        /\ UNCHANGED <<clients, seen, journal, counter, boot, job, late>>
    BY <1>1 DEF CallPeer
  <2>2. \A u \in Thread : Same(u)
    BY <2>1, StageSame DEF Handling, Looping
  <2>3. /\ pc[t] = "loop" /\ peer'[t] = p
        /\ \A u \in Thread \ {t} : pc'[u] = pc[u] /\ peer'[u] = peer[u]
        /\ \A u \in Thread : iter'[u].todo \subseteq iter[u].todo
    BY <2>1 DEF Goto, Advance, CallInv, TypeOK, Iterator
  <2>4. ClientsArePeers'
    BY <2>1, <2>3 DEF Chain, ClientsArePeers
  <2>5. QED BY <2>1, <2>2, <2>4, QuietStays
<1>2. ASSUME NEW p \in Node, SkipSender(t, p)
      PROVE  Chain' /\ UNCHANGED journal
  <2>1. Advance(t, p) /\ UNCHANGED <<clients, seen, journal, counter, boot, pc, job, peer, late>>
    BY <1>2 DEF SkipSender
  <2>2. \A u \in Thread : Same(u)
    BY <2>1 DEF Same
  <2>3. \A u \in Thread : iter'[u].todo \subseteq iter[u].todo
    BY <2>1 DEF Advance, CallInv, TypeOK, Iterator
  <2>4. ClientsArePeers'
    BY <2>1, <2>3 DEF Chain, ClientsArePeers
  <2>5. QED BY <2>1, <2>2, <2>4, QuietStays
<1>3. CASE IterationEnds(t) \/ IterationRaises(t)
  <2>1. /\ pc[t] = "loop" /\ Finish(t)
        /\ UNCHANGED <<clients, seen, journal, counter, boot, late>>
    BY <1>3 DEF IterationEnds, IterationRaises
  <2>2. QED BY <2>1, OnlyFinishStays DEF Busy, Looping
<1>4. ASSUME NEW u \in Thread, Dispatch(t, u)
      PROVE  Chain' /\ UNCHANGED journal
  <2>1. /\ pc[t] = "call" /\ u \in WorkersOf(peer[t]) /\ pc[u] = "idle"
        /\ pc' = [pc EXCEPT ![t] = "wait", ![u] = "check"]
        /\ job' = [job EXCEPT ![u] = ServedJob(Request(t), t)]
        /\ UNCHANGED <<clients, seen, journal, counter, boot, iter, peer, late>>
    BY <1>4 DEF Dispatch, Serve, ServedJob
  <2>2. Request(t) \in Late /\ Request(t).to = peer[t] /\ RequestFits(Request(t))
    BY <2>1, RequestType, RequestHanded
  <2>3. u[1] = Request(t).to
    <3>1. peer[t] \in Node
      BY <2>1 DEF CallInv, JobsFit
    <3>2. QED BY <2>1, <2>2, <3>1, ThreadFacts
  <2>4. /\ pc'[u] = "check"
        /\ \A v \in Thread \ {u} : pc'[v] = pc[v] \/ (pc[v] = "call" /\ pc'[v] = "wait")
    BY <2>1 DEF CallInv, TypeOK
  <2>5. QED BY <2>1, <2>2, <2>3, <2>4, ServeStays
<1>5. CASE CallFails(t)
  <2>1. /\ pc[t] \in {"call", "wait"}
        /\ pc' = [pc EXCEPT ![t] = "loop"] /\ peer' = [peer EXCEPT ![t] = NoPeer]
        /\ job' = Orphan({t})
        /\ UNCHANGED <<clients, seen, journal, counter, boot, iter>>
        /\ late' = late \/ (pc[t] = "call" /\ late' = late \cup {Request(t)})
    BY <1>5 DEF CallFails
  <2>2. /\ pc'[t] = "loop"
        /\ \A u \in Thread \ {t} : pc'[u] = pc[u] /\ peer'[u] = peer[u]
    BY <2>1 DEF CallInv, TypeOK
  <2>3. \A u \in Thread :
            /\ job'[u] = NoJob <=> job[u] = NoJob
            /\ job[u] # NoJob => /\ job'[u].finding = job[u].finding
                                 /\ job'[u].ttl = job[u].ttl
                                 /\ job'[u].sender = job[u].sender
    <3>1. job \in [Thread -> Job \cup {NoJob}]
      BY DEF CallInv, TypeOK
    <3>2. QED BY <2>1, <3>1, OrphanFacts
  <2>4. \A u \in Thread : Same(u)
    BY <2>1, <2>2, <2>3 DEF Same, Handling, Looping
  <2>5. ClientsArePeers'
    BY <2>1, <2>2 DEF Chain, ClientsArePeers
  <2>6. Grows /\ UNCHANGED events /\ UNCHANGED findings /\ Held' = Held
    BY <2>1, GrowsUnchanged, HeldUnchanged DEF journal
  <2>7. \A u \in Thread : ThreadFits(u)'
    BY <2>4, <2>6, ThreadStays DEF Chain
  <2>8. ASSUME NEW r \in late'
        PROVE  RequestFits(r)'
    <3>1. RequestFits(r)
      BY <2>1, <2>8, RequestHanded DEF Chain
    <3>2. QED BY <2>6, <3>1 DEF RequestFits, Committed, Handed, Abstract!MayRelay
  <2>9. EventsCommitted'
    BY <2>6, EventsStay
  <2>10. QED BY <2>1, <2>5, <2>7, <2>8, <2>9 DEF Chain
<1>6. QED BY <1>1, <1>2, <1>3, <1>4, <1>5 DEF Gossip

(* A late request is served as it was made. *)
LEMMA DispatchLateStays ==
    ASSUME CallInv, CallInv', Chain, NEW r \in late, NEW u \in Thread, DispatchLate(r, u)
    PROVE  Chain' /\ UNCHANGED journal
<1>1. /\ Goto(u, "idle", "check") /\ u \in WorkersOf(r.to)
      /\ late' = late \ {r}
      /\ job' = [job EXCEPT ![u] = ServedJob(r, NoThread)]
      /\ UNCHANGED <<clients, seen, journal, counter, boot, iter, peer>>
  BY DEF DispatchLate, Serve, ServedJob
<1>2. r \in Late /\ RequestFits(r) /\ r.to \in Node
  BY DEF Chain, CallInv, TypeOK, Late
<1>3. u[1] = r.to
  BY <1>1, <1>2, ThreadFacts
<1>4. pc'[u] = "check" /\ \A v \in Thread \ {u} : pc'[v] = pc[v]
  BY <1>1 DEF Goto, CallInv, TypeOK
<1>5. QED BY <1>1, <1>2, <1>3, <1>4, ServeStays

(* The steps of handle_finding that record nothing. *)
LEMMA HandleStays ==
    ASSUME CallInv, CallInv', Chain, NEW t \in Thread,
           HandleDuplicate(t) \/ HandleNew(t) \/ HandleMark(t)
    PROVE  Chain' /\ UNCHANGED journal
<1>1. CASE HandleDuplicate(t)
  <2>1. /\ pc[t] = "check" /\ Finish(t)
        /\ UNCHANGED <<clients, seen, journal, counter, boot, late>>
    BY <1>1 DEF HandleDuplicate
  <2>2. QED BY <2>1, OnlyFinishStays DEF Busy, Handling
<1>2. CASE HandleNew(t) \/ HandleMark(t)
  <2>1. PICK from, to \in Handling : Goto(t, from, to)
    BY <1>2 DEF HandleNew, HandleMark, Handling
  <2>2. UNCHANGED <<clients, journal, counter, boot, job, iter, peer, late>>
    BY <1>2 DEF HandleNew, HandleMark
  <2>3. \A u \in Thread : Same(u)
    BY <2>1, <2>2, StageSame DEF Handling, Looping
  <2>4. \A u \in Thread : pc'[u] \in {"call", "wait"} => pc[u] = pc'[u]
    BY <2>1 DEF Goto, Handling, CallInv, TypeOK
  <2>5. ClientsArePeers'
    BY <2>2, <2>4 DEF Chain, ClientsArePeers
  <2>6. QED BY <2>2, <2>3, <2>5, QuietStays
<1>3. QED BY <1>1, <1>2

(* A rejected id writes no journal. *)
LEMMA CreateRejectedStays ==
    ASSUME CallInv, CallInv', Chain, NEW n \in Node, CreateRejected(n)
    PROVE  Chain' /\ UNCHANGED journal
<1>1. UNCHANGED <<clients, journal, pc, job, iter, peer, late>>
  BY DEF CreateRejected
<1>2. (\A u \in Thread : Same(u)) /\ ClientsArePeers'
  BY <1>1 DEF Same, Chain, ClientsArePeers
<1>3. QED BY <1>1, <1>2, QuietStays

(* A refresh begins with hosts that discovery can find. *)
LEMMA BeginRefreshStays ==
    ASSUME CallInv, CallInv', Chain, NEW n \in Node, BeginRefresh(n)
    PROVE  Chain' /\ UNCHANGED journal
<1> DEFINE m == MainOf(n)
<1>1. /\ m \in Thread /\ m[1] = n /\ Goto(m, "idle", "refresh")
      /\ UNCHANGED <<clients, seen, journal, counter, boot, job, peer, late>>
  BY ThreadFacts DEF BeginRefresh
<1>2. PICK changed \in SUBSET Peers[n] : iter' = [iter EXCEPT ![m].todo = changed]
  BY DEF BeginRefresh
<1> HIDE DEF m
<1>3. \A u \in Thread : Same(u)
  BY <1>1, StageSame DEF Handling, Looping
<1>4. /\ \A u \in Thread : pc'[u] \in {"call", "wait"} => pc[u] = pc'[u]
      /\ \A u \in Thread : iter'[u].todo = iter[u].todo \/ (u = m /\ iter'[u].todo = changed)
  BY <1>1, <1>2 DEF Goto, CallInv, TypeOK, Iterator
<1>5. ClientsArePeers'
  BY <1>1, <1>4 DEF Chain, ClientsArePeers
<1>6. QED BY <1>1, <1>3, <1>5, QuietStays

(* The poll loop writes no journal after the creation. *)
LEMMA ContinueStays ==
    ASSUME CallInv, CallInv', Chain, NEW n \in Node, Continue(n)
    PROVE  Chain' /\ UNCHANGED journal
<1> DEFINE m == MainOf(n)
<1>1. m \in Thread /\ m[1] = n
  BY ThreadFacts
<1> HIDE DEF m
<1>2. CASE ShareFinding(n)
  <2>1. /\ Goto(m, "share", "loop") /\ Iterate(m)
        /\ UNCHANGED <<clients, journal, counter, boot, job, peer, late>>
    BY <1>2 DEF ShareFinding, m
  <2>2. \A u \in Thread : Same(u)
    BY <1>1, <2>1, StageSame DEF Handling, Looping
  <2>3. /\ \A u \in Thread : pc'[u] \in {"call", "wait"} => pc[u] = pc'[u]
        /\ \A u \in Thread : iter'[u] = iter[u] \/ iter'[u].todo = clients[u[1]]
    BY <1>1, <2>1 DEF Goto, Iterate, CallInv, TypeOK
  <2>4. ClientsArePeers'
    BY <2>1, <2>3, ThreadFacts DEF Chain, ClientsArePeers
  <2>5. QED BY <2>1, <2>2, <2>4, QuietStays
<1>3. CASE SkipShare(n)
  <2>1. /\ pc[m] = "share" /\ Finish(m)
        /\ UNCHANGED <<clients, seen, journal, counter, boot, late>>
    BY <1>3 DEF SkipShare, m
  <2>2. QED BY <1>1, <2>1, OnlyFinishStays DEF Busy
<1>4. ASSUME NEW p \in Peers[n], ConnectPeer(n, p)
      PROVE  Chain' /\ UNCHANGED journal
  <2>1. /\ clients' = [clients EXCEPT ![n] = @ \cup {p}]
        /\ UNCHANGED <<seen, journal, counter, boot, pc, job, peer, late>>
        /\ iter' = [t \in Thread |->
                       IF t = m THEN [iter[t] EXCEPT !.todo = @ \ {p}]
                       ELSE IF t[1] = n /\ pc[t] \in {"loop", "call", "wait"}
                       THEN [iter[t] EXCEPT !.todo = @ \cup {p}]
                       ELSE iter[t]]
    BY <1>4 DEF ConnectPeer, m
  <2>2. \A u \in Thread : Same(u)
    BY <2>1 DEF Same
  <2>3. \A u \in Thread : iter'[u].todo \subseteq iter[u].todo \cup Peers[u[1]]
    <3>1. \A u \in Thread :
              /\ [iter[u] EXCEPT !.todo = @ \ {p}].todo = iter[u].todo \ {p}
              /\ [iter[u] EXCEPT !.todo = @ \cup {p}].todo = iter[u].todo \cup {p}
      BY DEF CallInv, TypeOK, Iterator
    <3>2. QED BY <2>1, <3>1
  <2>4. \A k \in Node : clients'[k] \subseteq clients[k] \cup Peers[k]
    BY <2>1 DEF CallInv, TypeOK
  <2>5. ClientsArePeers'
    BY <2>1, <2>3, <2>4, ThreadFacts DEF Chain, ClientsArePeers
  <2>6. QED BY <2>1, <2>2, <2>5, QuietStays
<1>5. ASSUME NEW p \in Peers[n], ClosePeer(n, p)
      PROVE  Chain' /\ UNCHANGED journal
  <2> DEFINE cancelled == {t \in WorkersOf(n) : pc[t] \in {"call", "wait"} /\ peer[t] = p}
  <2>1. /\ pc[m] = "refresh" /\ m \notin cancelled
        /\ pc' = [t \in Thread |-> CASE t = m -> "delete" [] t \in cancelled -> "loop"
                                     [] OTHER -> pc[t]]
        /\ peer' = [t \in Thread |-> CASE t = m -> p [] t \in cancelled -> NoPeer
                                       [] OTHER -> peer[t]]
        /\ job' = Orphan(cancelled)
        /\ UNCHANGED <<clients, seen, journal, counter, boot, iter, late>>
    BY <1>5, ThreadFacts DEF ClosePeer, m
  <2>2. \A t \in cancelled : pc[t] \in {"call", "wait"}
    OBVIOUS
  <2> HIDE DEF cancelled
  <2>3. \A u \in Thread : \/ u = m /\ pc'[u] = "delete"
                          \/ u \in cancelled /\ pc'[u] = "loop"
                          \/ pc'[u] = pc[u] /\ peer'[u] = peer[u]
    BY <2>1
  <2>4. \A u \in Thread :
            /\ job'[u] = NoJob <=> job[u] = NoJob
            /\ job[u] # NoJob => /\ job'[u].finding = job[u].finding
                                 /\ job'[u].ttl = job[u].ttl
                                 /\ job'[u].sender = job[u].sender
    <3>1. job \in [Thread -> Job \cup {NoJob}]
      BY DEF CallInv, TypeOK
    <3>2. QED BY <2>1, <3>1, OrphanFacts
  <2>5. ASSUME NEW u \in Thread
        PROVE  Same(u)
    <3>1. CASE pc'[u] = "delete"
      BY <2>4, <3>1 DEF Same, Handling, Looping
    <3>2. CASE u \in cancelled /\ pc'[u] = "loop"
      BY <2>2, <2>4, <3>2 DEF Same, Handling, Looping
    <3>3. CASE pc'[u] = pc[u]
      BY <2>4, <3>3 DEF Same
    <3>4. QED BY <2>3, <3>1, <3>2, <3>3
  <2>6. ClientsArePeers'
    BY <2>1, <2>3 DEF Chain, ClientsArePeers
  <2>7. QED BY <2>1, <2>5, <2>6, QuietStays
<1>6. ASSUME NEW p \in Peers[n], DeletePeer(n, p)
      PROVE  Chain' /\ UNCHANGED journal
  <2>1. /\ Goto(m, "delete", "refresh")
        /\ clients' = [clients EXCEPT ![n] = @ \ {p}]
        /\ peer' = [peer EXCEPT ![m] = NoPeer]
        /\ UNCHANGED <<seen, journal, counter, boot, job, late>>
        /\ iter' = [t \in Thread |->
                       IF t[1] = n THEN [iter[t] EXCEPT !.todo = @ \ {p}] ELSE iter[t]]
    BY <1>6 DEF DeletePeer, m
  <2>2. \A u \in Thread : Same(u)
    BY <1>1, <2>1, StageSame DEF Handling, Looping
  <2>3. \A u \in Thread : iter'[u].todo \subseteq iter[u].todo
    <3>1. \A u \in Thread : [iter[u] EXCEPT !.todo = @ \ {p}].todo = iter[u].todo \ {p}
      BY DEF CallInv, TypeOK, Iterator
    <3>2. QED BY <2>1, <3>1
  <2>4. /\ \A k \in Node : clients'[k] \subseteq clients[k]
        /\ \A u \in Thread : pc'[u] \in {"call", "wait"} => pc[u] = pc'[u] /\ peer'[u] = peer[u]
    BY <1>1, <2>1 DEF Goto, CallInv, TypeOK
  <2>5. ClientsArePeers'
    BY <2>3, <2>4 DEF Chain, ClientsArePeers
  <2>6. QED BY <2>1, <2>2, <2>5, QuietStays
<1>7. CASE EndRefresh(n)
  <2>1. /\ Goto(m, "refresh", "idle")
        /\ UNCHANGED <<clients, seen, journal, counter, boot, job, iter, peer, late>>
    BY <1>7 DEF EndRefresh, m
  <2>2. \A u \in Thread : Same(u)
    BY <1>1, <2>1, StageSame DEF Handling, Looping
  <2>3. \A u \in Thread : pc'[u] \in {"call", "wait"} => pc[u] = pc'[u]
    BY <1>1, <2>1 DEF Goto, CallInv, TypeOK
  <2>4. ClientsArePeers'
    BY <2>1, <2>3 DEF Chain, ClientsArePeers
  <2>5. QED BY <2>1, <2>2, <2>4, QuietStays
<1>8. QED BY <1>2, <1>3, <1>4, <1>5, <1>6, <1>7 DEF Continue

(* The journals survive a restart, and nothing else has to. *)
LEMMA RestartStays ==
    ASSUME CallInv, CallInv', Chain, NEW n \in Node, Restart(n)
    PROVE  Chain' /\ UNCHANGED journal
<1> DEFINE mine == ThreadsOf(n)
           waiting == {t \in Thread \ mine : pc[t] = "wait" /\ peer[t] = n}
           first == [NoIteration EXCEPT !.todo = Peers[n]]
<1>1. /\ clients' = [clients EXCEPT ![n] = IF n \in Churn THEN {} ELSE Peers[n]]
      /\ pc' = [t \in Thread |->
                   IF t \in mine THEN IF t = MainOf(n) /\ n \in Churn THEN "refresh" ELSE "idle"
                   ELSE IF t \in waiting THEN "loop" ELSE pc[t]]
      /\ job' = [t \in Thread |-> IF t \in mine THEN NoJob ELSE Orphan(mine)[t]]
      /\ iter' = [t \in Thread |-> IF t = MainOf(n) /\ n \in Churn THEN first
                                   ELSE IF t \in mine THEN NoIteration ELSE iter[t]]
      /\ peer' = [t \in Thread |-> IF t \in mine \cup waiting THEN NoPeer ELSE peer[t]]
      /\ late' = {r \in late : r.to # n}
      /\ UNCHANGED journal
  BY DEF Restart
<1>2. \A t \in waiting : pc[t] = "wait"
  OBVIOUS
<1>3. first.todo = Peers[n] /\ NoIteration.todo = {}
  BY DEF NoIteration
<1> HIDE DEF mine, waiting, first
<1>4. \A u \in Thread \ mine :
          /\ job'[u] = NoJob <=> job[u] = NoJob
          /\ job[u] # NoJob => /\ job'[u].finding = job[u].finding
                               /\ job'[u].ttl = job[u].ttl
                               /\ job'[u].sender = job[u].sender
  <2>1. job \in [Thread -> Job \cup {NoJob}]
    BY DEF CallInv, TypeOK
  <2>2. \A u \in Thread \ mine : job'[u] = Orphan(mine)[u]
    BY <1>1
  <2>3. QED BY <2>1, <2>2, OrphanFacts
<1>5. ASSUME NEW u \in Thread
      PROVE  Same(u) /\ (pc'[u] \in {"call", "wait"} => pc[u] = pc'[u] /\ peer'[u] = peer[u])
  <2>1. CASE u \in mine
    BY <1>1, <2>1 DEF Same, Busy, Handling, Looping
  <2>2. CASE u \notin mine /\ u \in waiting
    BY <1>1, <1>2, <1>4, <2>2 DEF Same, Handling, Looping
  <2>3. CASE u \notin mine /\ u \notin waiting
    BY <1>1, <1>4, <2>3 DEF Same
  <2>4. QED BY <2>1, <2>2, <2>3
<1>6. \A u \in Thread : iter'[u].todo \subseteq iter[u].todo \cup Peers[u[1]]
  BY <1>1, <1>3, ThreadFacts
<1>7. \A k \in Node : clients'[k] \subseteq clients[k] \cup Peers[k]
  BY <1>1 DEF CallInv, TypeOK
<1>8. ClientsArePeers'
  BY <1>5, <1>6, <1>7, ThreadFacts DEF Chain, ClientsArePeers
<1>9. late' \subseteq late
  BY <1>1
<1>10. QED BY <1>1, <1>5, <1>8, <1>9, QuietStays

----------------------------------------------------------------------------

(* Empty journals are the empty abstract state. *)
LEMMA InitEstablishesChain == Init => ChainInv /\ Abstract!Init
<1> SUFFICES ASSUME Init PROVE ChainInv /\ Abstract!Init
  OBVIOUS
<1>1. CallInv
  BY InitEstablishesCallInv
<1>2. ClientsArePeers
  BY ThreadFacts DEF Init, ClientsArePeers, NoIteration
<1>3. EventsCommitted
  BY DEF Init, EventsCommitted
<1>4. \A t \in Thread : ThreadFits(t)
  BY DEF Init, ThreadFits, Handling, Looping
<1>5. Held = {}
  <2>1. Created = {} /\ Received = {}
    BY CreatedMembers, ReceivedMembers DEF Init
  <2>2. QED BY <2>1, HeldSplit
<1>6. QED BY <1>1, <1>2, <1>3, <1>4, <1>5 DEF ChainInv, Chain, Init, Abstract!Init

(* Every step keeps the chain and is a step of Dissemination, or none. *)
LEMMA StepImplements == ChainInv /\ [Next]_vars => ChainInv' /\ [Abstract!Next]_Held
<1> SUFFICES ASSUME ChainInv, [Next]_vars
             PROVE  ChainInv' /\ [Abstract!Next]_Held
  OBVIOUS
<1>1. CallInv /\ Chain /\ CallInv'
  BY StepKeepsCallInv DEF ChainInv
<1>2. ASSUME Chain', UNCHANGED journal
      PROVE  ChainInv' /\ [Abstract!Next]_Held
  BY <1>1, <1>2, HeldUnchanged DEF ChainInv
<1>3. ASSUME NEW n \in Node, Begin(n)
      PROVE  ChainInv' /\ [Abstract!Next]_Held
  <2>1. CASE CreateFinding(n)
    BY <1>1, <2>1, CreateFindingLearns DEF ChainInv
  <2>2. CASE CreateRejected(n) \/ BeginRefresh(n)
    BY <1>1, <1>2, <2>2, CreateRejectedStays, BeginRefreshStays
  <2>3. QED BY <1>3, <2>1, <2>2 DEF Begin
<1>4. ASSUME NEW n \in Node, Continue(n) \/ Restart(n)
      PROVE  ChainInv' /\ [Abstract!Next]_Held
  BY <1>1, <1>2, <1>4, ContinueStays, RestartStays
<1>5. ASSUME NEW t \in Thread, Gossip(t)
      PROVE  ChainInv' /\ [Abstract!Next]_Held
  BY <1>1, <1>2, <1>5, GossipStays
<1>6. ASSUME NEW t \in Thread, Handle(t)
      PROVE  ChainInv' /\ [Abstract!Next]_Held
  <2>1. CASE HandleDuplicate(t) \/ HandleNew(t) \/ HandleMark(t)
    BY <1>1, <1>2, <2>1, HandleStays
  <2>2. CASE HandleRecord(t)
    BY <1>1, <2>2, HandleRecordLearns DEF ChainInv
  <2>3. CASE RecordFails(t)
    BY <1>1, <2>3, RecordFailsLearns DEF ChainInv
  <2>4. QED BY <1>6, <2>1, <2>2, <2>3 DEF Handle
<1>7. ASSUME NEW r \in late, NEW u \in Thread, DispatchLate(r, u)
      PROVE  ChainInv' /\ [Abstract!Next]_Held
  BY <1>1, <1>2, <1>7, DispatchLateStays
<1>8. CASE UNCHANGED vars
  <2>1. UNCHANGED <<clients, journal, pc, job, iter, peer, late>>
    BY <1>8 DEF vars, journal
  <2>2. (\A u \in Thread : Same(u)) /\ ClientsArePeers'
    BY <1>1, <2>1 DEF Same, Chain, ClientsArePeers
  <2>3. Chain'
    BY <1>1, <2>1, <2>2, QuietStays
  <2>4. QED BY <1>2, <2>1, <2>3
<1>9. CASE Quiet
  BY <1>8, <1>9 DEF Quiet
<1>10. QED BY <1>3, <1>4, <1>5, <1>6, <1>7, <1>8, <1>9 DEF Next

(* The second inductive invariant holds of every reachable state. *)
THEOREM ChainInvariance == Spec => []ChainInv
<1>1. Init => ChainInv
  BY InitEstablishesChain
<1>2. ChainInv /\ [Next]_vars => ChainInv'
  BY StepImplements
<1>3. QED BY <1>1, <1>2, PTL DEF Spec

(* Nothing is gossiped or journaled that its origin has not committed. *)
THEOREM OnlyCommitted == Spec => []GossipOnlyCommitted
<1>1. ChainInv => GossipOnlyCommitted
  BY DEF ChainInv, Chain, ThreadFits, RequestFits, EventsCommitted, Committed,
         GossipOnlyCommitted, Recorded
<1>2. QED BY <1>1, ChainInvariance, PTL

(* Every step of the daemons is a step of Dissemination or none, through lost *)
(* calls, failed writes, refreshes and restarts. *)
THEOREM Implements == Spec => Disseminates
<1>1. Init => Abstract!Init
  BY InitEstablishesChain
<1>2. ChainInv /\ [Next]_vars => [Abstract!Next]_Held
  BY StepImplements
<1>3. QED BY <1>1, <1>2, ChainInvariance, PTL DEF Spec, Disseminates, Abstract!Spec

----------------------------------------------------------------------------
(* What Dissemination promises, of whatever its holds stands for. *)

PromiseInv == Abstract!TypeOK /\ Abstract!Provenance /\ Abstract!WithinTtl

(* A finding of one's own is held at distance 0, by its origin. *)
LEMMA CreatePromises ==
    ASSUME PromiseInv, NEW f \in Finding, Abstract!Create(f)
    PROVE  PromiseInv'
<1> DEFINE new == <<f.origin, f, 0>>
<1>1. new \in Node \X Finding \X Nat /\ new[1] = new[2].origin /\ new[3] = 0
  BY DEF Finding
<1>2. Held' = Held \cup {new}
  BY DEF Abstract!Create
<1> HIDE DEF new
<1>3. Abstract!TypeOK'
  BY <1>1, <1>2 DEF PromiseInv, Abstract!TypeOK
<1>4. Abstract!Provenance'
  BY <1>1, <1>2 DEF PromiseInv, Abstract!Provenance
<1>5. Abstract!WithinTtl'
  BY <1>1, <1>2, BoundAssumption DEF PromiseInv, Abstract!WithinTtl
<1>6. QED BY <1>3, <1>4, <1>5 DEF PromiseInv

(* What a peer hands on has one hop more, and its holder as predecessor. *)
LEMMA LearnPromises ==
    ASSUME PromiseInv, NEW m \in Node, NEW n \in Node, NEW f \in Finding,
           NEW h \in 0 .. FindingTtl, Abstract!Learn(m, n, f, h)
    PROVE  PromiseInv'
<1> DEFINE new == <<n, f, h + 1>>
<1>1. /\ new \in Node \X Finding \X Nat
      /\ new[1] = n /\ new[2] = f /\ new[3] = h + 1 /\ new[3] # 0 /\ new[3] - 1 = h
  OBVIOUS
<1>2. Held' = Held \cup {new} /\ <<m, f, h>> \in Held /\ n \in Peers[m] /\ Abstract!MayRelay(h)
  BY DEF Abstract!Learn
<1> HIDE DEF new
<1>3. Abstract!TypeOK'
  BY <1>1, <1>2 DEF PromiseInv, Abstract!TypeOK
<1>4. Abstract!Provenance'
  <2> SUFFICES ASSUME NEW e \in Held', e[3] # 0
               PROVE  \E o \in Node : e[1] \in Peers[o] /\ <<o, e[2], e[3] - 1>> \in Held'
    BY <1>1, <1>2 DEF PromiseInv, Abstract!Provenance
  <2>1. CASE e = new
    BY <1>1, <1>2, <2>1
  <2>2. CASE e \in Held
    BY <1>2, <2>2 DEF PromiseInv, Abstract!Provenance
  <2>3. QED BY <1>2, <2>1, <2>2
<1>5. Abstract!WithinTtl'
  <2>1. new[3] <= IF FindingTtl = 0 THEN 1 ELSE FindingTtl
    BY <1>1, <1>2, BoundAssumption DEF Abstract!MayRelay
  <2>2. QED BY <1>2, <2>1 DEF PromiseInv, Abstract!WithinTtl
<1>6. QED BY <1>3, <1>4, <1>5 DEF PromiseInv

(* Whoever holds a finding got it over a chain of direct peers from its origin, *)
(* and over no more hops than finding_ttl: Dissemination keeps its promises.    *)
THEOREM Promises == Disseminates => [](Provenance /\ WithinTtl)
<1>1. Abstract!Init => PromiseInv
  BY DEF Abstract!Init, PromiseInv, Abstract!TypeOK, Abstract!Provenance, Abstract!WithinTtl
<1>2. PromiseInv /\ [Abstract!Next]_Held => PromiseInv'
  <2> SUFFICES ASSUME PromiseInv, [Abstract!Next]_Held PROVE PromiseInv'
    OBVIOUS
  <2>1. CASE UNCHANGED Held
    BY <2>1 DEF PromiseInv, Abstract!TypeOK, Abstract!Provenance, Abstract!WithinTtl
  <2>2. CASE Abstract!Next
    BY <2>2, CreatePromises, LearnPromises DEF Abstract!Next
  <2>3. QED BY <2>1, <2>2
<1>3. PromiseInv => Provenance /\ WithinTtl
  BY DEF PromiseInv, Provenance, WithinTtl
<1>4. QED BY <1>1, <1>2, <1>3, PTL DEF Disseminates, Abstract!Spec

(* Every record has a predecessor in the journal of a direct peer, one hop *)
(* closer to the origin. *)
THEOREM RecordsTraceable == Spec => []Provenance
BY Implements, Promises, PTL

(* No switch records a finding that has come over more than finding_ttl hops *)
(* (one hop when finding_ttl is 0), whatever is lost, late or restarted. *)
THEOREM HopsBounded == Spec => []WithinTtl
BY Implements, Promises, PTL

----------------------------------------------------------------------------
(* A switch has what it has seen, if ids are unique and journals are not locked. *)

(* The switches draw ids from ranges of their own. *)
DistinctIds ==
    \A m, n \in Node : m # n => (Settled[m] + 1 .. LastId[m]) \cap (Settled[n] + 1 .. LastId[n]) = {}

IdInv ==
    /\ \A n \in Node : \A f \in findings[n] :
          f.origin = n /\ FindingId(f) \in Settled[n] + 1 .. LastId[n]
    /\ \A n \in Node : \A f, g \in findings[n] : FindingId(f) = FindingId(g) => f = g

Records(u, f) == pc[u] = "record" /\ job[u].finding = f

Has(n, f) == Knows(n, f) \/ \E u \in WorkersOf(n) : Records(u, f)

SeenIsKnown ==
    \A n \in Node : \A x : HasSeen(seen[n], x) => \E f \in Finding : FindingId(f) = x /\ Has(n, f)

WorkersHandle == \A t \in Thread : pc[t] \in Handling => t # MainOf(t[1])

KnownInv == IdInv /\ SeenIsKnown /\ WorkersHandle

(* What a switch knows it goes on to know. *)
LEMMA KnowledgeGrows ==
    ASSUME CallInv, StepKind, NEW n \in Node, NEW f, Knows(n, f)
    PROVE  Knows(n, f)'
<1>1. findings[n] \subseteq findings'[n]
  BY DEF StepKind, Idles, Creates, Moves, Takes, Writes, Forgets, journal, CallInv, TypeOK
<1>2. \A i \in DOMAIN events[n] : i \in DOMAIN events'[n] /\ events'[n][i] = events[n][i]
  <2>1. ASSUME NEW t \in Thread, RecordRow(t)
        PROVE  \A i \in DOMAIN events[n] : i \in DOMAIN events'[n] /\ events'[n][i] = events[n][i]
    <3>1. PICK row : events' = [events EXCEPT ![t[1]] = Append(@, row)]
      BY <2>1 DEF RecordRow
    <3>2. events[n] \in Seq(Row) /\ t[1] \in Node
      BY ThreadFacts DEF CallInv, TypeOK
    <3>3. events'[n] = events[n] \/ events'[n] = Append(events[n], row)
      BY <3>1, <3>2 DEF CallInv, TypeOK
    <3>4. QED BY <3>2, <3>3
  <2>2. UNCHANGED events \/ \E t \in Thread : RecordRow(t)
    BY DEF StepKind, Idles, Creates, Moves, Takes, Writes, Forgets, journal
  <2>3. QED BY <2>1, <2>2
<1>3. QED BY <1>1, <1>2 DEF Knows, Recorded

(* Who records a finding knows it. *)
LEMMA RecordedNow ==
    ASSUME CallInv, NEW t \in Thread, RecordRow(t), NEW f, f = job[t].finding
    PROVE  Knows(t[1], f)'
<1> DEFINE row == [finding |-> job[t].finding, sender |-> job[t].sender, ttl |-> job[t].ttl]
<1>1. events' = [events EXCEPT ![t[1]] = Append(@, row)] /\ t[1] \in Node /\ row.finding = f
  BY ThreadFacts DEF RecordRow
<1> HIDE DEF row
<1>2. events'[t[1]] = Append(events[t[1]], row) /\ events[t[1]] \in Seq(Row)
  BY <1>1 DEF CallInv, TypeOK
<1>3. \E i \in DOMAIN events'[t[1]] : events'[t[1]][i] = row
  BY <1>2
<1>4. QED BY <1>1, <1>3 DEF Knows, Recorded

(* Who gossips or shares a finding has it. *)
LEMMA OfferedIsKnown ==
    ASSUME ChainInv, NEW t \in Thread, pc[t] \in {"share"} \cup Looping
    PROVE  Knows(t[1], job[t].finding)
<1> DEFINE n == t[1]
           f == job[t].finding
           h == FindingTtl + 1 - job[t].ttl
<1>1. <<n, f, h>> \in Created \cup Received
  BY HeldSplit DEF ChainInv, Chain, ThreadFits, Offered
<1> HIDE DEF n, f, h
<1>2. CASE <<n, f, h>> \in Created
  <2>1. PICK m \in Node : \E g \in findings[m] : <<n, f, h>> = <<m, g, 0>>
    BY <1>2, CreatedMembers
  <2>2. QED BY <2>1 DEF Knows, n, f
<1>3. CASE <<n, f, h>> \in Received
  <2>1. PICK m \in Node : \E i \in DOMAIN events[m] :
            <<n, f, h>> = <<m, events[m][i].finding, HopsOf(events[m][i])>>
    BY <1>3, ReceivedMembers
  <2>2. PICK i \in DOMAIN events[m] : <<n, f, h>> = <<m, events[m][i].finding, HopsOf(events[m][i])>>
    BY <2>1
  <2>3. QED BY <2>2 DEF Knows, Recorded, n, f
<1>4. QED BY <1>1, <1>2, <1>3

(* Whatever a switch has, its origin has committed. *)
LEMMA HasCommitted ==
    ASSUME ChainInv, IdInv, NEW n \in Node, NEW f, Has(n, f)
    PROVE  f.origin \in Node /\ f \in findings[f.origin]
<1>1. CASE f \in findings[n]
  BY <1>1 DEF IdInv
<1>2. CASE f \in Recorded(n)
  <2>1. PICK i \in DOMAIN events[n] : f = events[n][i].finding
    BY <1>2 DEF Recorded
  <2>2. events[n][i] \in Row
    BY DEF ChainInv, CallInv, TypeOK
  <2>3. QED BY <2>1, <2>2 DEF ChainInv, Chain, EventsCommitted, Committed, Row, Finding
<1>3. ASSUME NEW u \in WorkersOf(n), Records(u, f)
      PROVE  f.origin \in Node /\ f \in findings[f.origin]
  <2>1. u \in Thread /\ job[u] # NoJob /\ f = job[u].finding
    BY <1>3, ThreadFacts DEF Records, ChainInv, CallInv, JobsFit, Busy, Handling
  <2>2. job[u].finding \in Finding
    BY <2>1, JobFacts DEF ChainInv, CallInv, TypeOK
  <2>3. QED BY <2>1, <2>2 DEF ChainInv, Chain, ThreadFits, Committed, Finding
<1>4. QED BY <1>1, <1>2, <1>3 DEF Has, Knows

(* Two committed findings with one id are one. *)
LEMMA UniqueIds ==
    ASSUME DistinctIds, IdInv, NEW m \in Node, NEW n \in Node,
           NEW f \in findings[m], NEW g \in findings[n], FindingId(f) = FindingId(g)
    PROVE  f = g
BY DEF DistinctIds, IdInv

(* A thread at "record" records, or goes on to. *)
LEMMA HasStays ==
    ASSUME CallInv, CallInv', StepKind, Locked = {},
           NEW n \in Node, NEW f, Has(n, f),
           \A u \in WorkersOf(n) : Records(u, f) => Stays(u) \/ Knows(n, f)'
    PROVE  Has(n, f)'
<1>1. CASE Knows(n, f)
  BY <1>1, KnowledgeGrows DEF Has
<1>2. ASSUME NEW u \in WorkersOf(n), Records(u, f)
      PROVE  Has(n, f)'
  <2>1. u \in Thread /\ u[1] = n /\ pc[u] = "record" /\ job[u].finding = f
    BY <1>2, ThreadFacts DEF Records
  <2>2. CASE Stays(u)
    <3>1. pc'[u] = "record" /\ job'[u].finding = f
      BY <2>1, <2>2 DEF Stays, GoesOn, Looping
    <3>2. QED BY <3>1 DEF Has, Records
  <2>3. CASE Knows(n, f)'
    BY <2>3 DEF Has
  <2>4. QED BY <1>2, <2>1, <2>2, <2>3
<1>3. QED BY <1>1, <1>2 DEF Has

(* Workers handle, whatever the thread s has done and the others went on with. *)
LEMMA WorkersHandleStill ==
    ASSUME CallInv', WorkersHandle, NEW s,
           s \in Thread /\ pc'[s] \in Handling => s # MainOf(s[1]),
           \A u \in Thread \ {s} : Stays(u) \/ job'[u] = NoJob
    PROVE  WorkersHandle'
<1>1. ASSUME NEW u \in Thread \ {s}, pc'[u] \in Handling
      PROVE  u # MainOf(u[1])
  <2>1. job'[u] # NoJob
    BY <1>1 DEF CallInv, JobsFit, Busy
  <2>2. GoesOn(u)
    BY <1>1, <2>1 DEF Stays
  <2>3. pc[u] \in Handling
    BY <1>1, <2>2 DEF GoesOn, Handling, Looping
  <2>4. QED BY <2>3 DEF WorkersHandle
<1>2. QED BY <1>1 DEF WorkersHandle, MainOf

(* What a switch has seen is still known, if an id that is new in its cache is *)
(* one of a finding it has. *)
LEMMA SeenIsKnownStill ==
    ASSUME CallInv, CallInv', StepKind, Locked = {}, SeenIsKnown,
           \A n \in Node : \A x : HasSeen(seen'[n], x) =>
               \/ HasSeen(seen[n], x)
               \/ \E f \in Finding : FindingId(f) = x /\ Has(n, f)',
           \A n \in Node :
               \/ seen'[n] = <<>>
               \/ \A u \in WorkersOf(n) : \A f \in Finding : Records(u, f) => Stays(u) \/ Knows(n, f)'
    PROVE  SeenIsKnown'
<1>1. ASSUME NEW n \in Node, NEW x, HasSeen(seen'[n], x)
      PROVE  \E f \in Finding : FindingId(f) = x /\ Has(n, f)'
  <2>1. CASE HasSeen(seen[n], x)
    <3>1. PICK f \in Finding : FindingId(f) = x /\ Has(n, f)
      BY <2>1 DEF SeenIsKnown
    <3>2. seen'[n] # <<>>
      BY <1>1 DEF HasSeen
    <3>3. Has(n, f)'
      BY <3>1, <3>2, HasStays
    <3>4. QED BY <3>1, <3>3
  <2>2. QED BY <1>1, <2>1
<1>2. QED BY <1>1 DEF SeenIsKnown, FindingId

(* The ids that _mark_seen leaves in the cache were there, or are the new one. *)
LEMMA MarksOnly ==
    ASSUME CallInv, NEW t \in Thread, job[t] # NoJob, Marks(t)
    PROVE  \A n \in Node : \A x : HasSeen(seen'[n], x) =>
               HasSeen(seen[n], x) \/ (n = t[1] /\ x = FindingId(job[t].finding))
<1> DEFINE m == t[1]
           id == FindingId(job[t].finding)
<1>1. m \in Node /\ seen[m] \in Seq(Id) /\ id \in Id /\ MaxSeen \in Nat \ {0}
  <2>1. m \in Node /\ job[t] \in Job
    BY ThreadFacts DEF CallInv, TypeOK
  <2>2. QED BY <2>1, JobFacts, BoundAssumption DEF CallInv, TypeOK
<1>2. seen' = [seen EXCEPT ![m] = MarkSeen(seen[m], id, MaxSeen)]
  BY DEF Marks
<1> HIDE DEF m, id
<1>3. \A x : HasSeen(MarkSeen(seen[m], id, MaxSeen), x) => HasSeen(seen[m], x) \/ x = id
  BY <1>1, MarkSeenProperties
<1>4. /\ seen'[m] = MarkSeen(seen[m], id, MaxSeen)
      /\ \A n \in Node \ {m} : seen'[n] = seen[n]
  BY <1>1, <1>2 DEF CallInv, TypeOK
<1>5. QED BY <1>3, <1>4 DEF m, id

(* Ids stay unique within a switch: UNIQUE refuses one that is taken. *)
LEMMA StepKeepsIdInv ==
    ASSUME CallInv, IdInv, StepKind
    PROVE  IdInv'
<1>1. CASE UNCHANGED findings
  BY <1>1 DEF IdInv
<1>2. ASSUME NEW n \in Node, NEW f \in Finding, Creates(n, f)
      PROVE  IdInv'
  <2>1. /\ findings' = [findings EXCEPT ![n] = @ \cup {f}] /\ f.origin = n
        /\ FindingId(f) <= LastId[n] /\ ~(FindingId(f) <= Settled[n])
        /\ \A g \in findings[n] : FindingId(g) # FindingId(f)
    BY <1>2 DEF Creates, IdTaken
  <2>2. FindingId(f) \in Nat /\ LastId[n] \in Nat /\ Settled[n] \in Nat
    BY BoundAssumption DEF Finding, Id, FindingId
  <2>3. /\ findings'[n] = findings[n] \cup {f}
        /\ \A m \in Node \ {n} : findings'[m] = findings[m]
    BY <2>1 DEF CallInv, TypeOK
  <2>4. FindingId(f) \in Settled[n] + 1 .. LastId[n]
    BY <2>1, <2>2
  <2>5. QED BY <2>1, <2>3, <2>4 DEF IdInv, FindingId
<1>3. UNCHANGED findings \/ \E n \in Node : \E f \in Finding : Creates(n, f)
  BY DEF StepKind, Idles, Moves, Takes, Writes, Forgets, journal
<1>4. QED BY <1>1, <1>2, <1>3

(* Every step keeps it that a switch has what it has seen, if no journal is locked. *)
LEMMA StepKeepsKnownInv ==
    ASSUME Locked = {}, ChainInv, ChainInv', LoopInv, KnownInv, [Next]_vars
    PROVE  KnownInv'
<1>0. CallInv /\ CallInv' /\ IdInv /\ SeenIsKnown /\ WorkersHandle /\ StepKind /\ IdInv'
  BY StepKinds, StepKeepsIdInv DEF ChainInv, KnownInv
<1>1. ASSUME NEW s, s \in Thread /\ pc'[s] \in Handling => s # MainOf(s[1]),
             \A u \in Thread \ {s} : Stays(u) \/ job'[u] = NoJob,
             \A n \in Node : \A x : HasSeen(seen'[n], x) =>
                 \/ HasSeen(seen[n], x)
                 \/ \E f \in Finding : FindingId(f) = x /\ Has(n, f)',
             \A n \in Node :
                 \/ seen'[n] = <<>>
                 \/ \A u \in WorkersOf(n) : \A f \in Finding :
                        Records(u, f) => Stays(u) \/ Knows(n, f)'
      PROVE  KnownInv'
  BY <1>0, <1>1, WorkersHandleStill, SeenIsKnownStill DEF KnownInv
<1>2. ASSUME NEW s, s \in Thread => pc[s] # "record", OthersStay(s)
      PROVE  \A n \in Node : \A u \in WorkersOf(n) : \A f \in Finding :
                 Records(u, f) => Stays(u) \/ Knows(n, f)'
  BY <1>2, ThreadFacts DEF OthersStay, Records
<1>3. CASE Idles
  <2>1. UNCHANGED seen /\ OthersStay(NoThread)
    BY <1>3 DEF Idles, OthersStay
  <2>2. NoThread \notin Thread
    BY ThreadFacts
  <2>3. \A u \in Thread \ {NoThread} : Stays(u) \/ job'[u] = NoJob
    BY <2>1 DEF OthersStay
  <2>4. QED BY <1>1, <1>2, <2>1, <2>2, <2>3
<1>4. ASSUME NEW s \in Thread, pc[s] # "record", OthersStay(s), UNCHANGED seen,
             pc'[s] \in Handling => s # MainOf(s[1])
      PROVE  KnownInv'
  <2>1. \A u \in Thread \ {s} : Stays(u) \/ job'[u] = NoJob
    BY <1>4 DEF OthersStay
  <2>2. QED BY <1>1, <1>2, <1>4, <2>1
<1>5. ASSUME NEW t \in Thread, NEW from, NEW to, Moves(t, from, to)
      PROVE  /\ pc[t] = from /\ pc'[t] = to /\ OthersStay(t)
             /\ job[t] # NoJob /\ job'[t] = job[t] /\ UNCHANGED journal
  BY <1>5 DEF Moves
<1>6. ASSUME NEW n \in Node, NEW f \in Finding, Creates(n, f)
      PROVE  KnownInv'
  <2>1. /\ MainOf(n) \in Thread /\ pc[MainOf(n)] = "idle" /\ pc'[MainOf(n)] = "share"
        /\ OthersStay(MainOf(n)) /\ UNCHANGED seen
    BY <1>6, ThreadFacts DEF Creates
  <2>2. QED BY <1>4, <2>1 DEF Handling
<1>7. ASSUME NEW t \in Thread, NEW from, NEW to, Moves(t, from, to), Marks(t),
             from # "record",
             to \in Handling => t # MainOf(t[1]),
             Has(t[1], job[t].finding)'
      PROVE  KnownInv'
  <2>1. /\ pc[t] # "record" /\ pc'[t] = to /\ OthersStay(t)
        /\ job[t] # NoJob /\ job'[t] = job[t]
    BY <1>5, <1>7
  <2>2. job[t].finding \in Finding
    BY <1>0, <2>1, JobFacts DEF CallInv, TypeOK
  <2>3. \A n \in Node : \A x : HasSeen(seen'[n], x) =>
            HasSeen(seen[n], x) \/ (n = t[1] /\ x = FindingId(job[t].finding))
    BY <1>0, <1>7, <2>1, MarksOnly
  <2>4. \E f \in Finding : FindingId(f) = FindingId(job[t].finding) /\ Has(t[1], f)'
    <3>1. \A f : f = job[t].finding => (Has(t[1], f)' <=> Has(t[1], job[t].finding)')
      BY <2>1 DEF Has, Knows, Recorded, Records
    <3>2. QED BY <1>7, <2>2, <3>1
  <2>5. \A n \in Node : \A x : HasSeen(seen'[n], x) =>
            \/ HasSeen(seen[n], x)
            \/ \E f \in Finding : FindingId(f) = x /\ Has(n, f)'
    BY <2>3, <2>4
  <2>6. \A u \in Thread \ {t} : Stays(u) \/ job'[u] = NoJob
    BY <2>1 DEF OthersStay
  <2>7. QED BY <1>1, <1>2, <1>7, <2>1, <2>5, <2>6
<1>8. ASSUME NEW n \in Node, Moves(MainOf(n), "share", "loop"), Marks(MainOf(n))
      PROVE  KnownInv'
  <2>1. MainOf(n) \in Thread /\ MainOf(n)[1] = n
    BY ThreadFacts
  <2>2. Knows(n, job[MainOf(n)].finding)
    BY <1>5, <1>8, <2>1, OfferedIsKnown
  <2>3. Has(n, job[MainOf(n)].finding)'
    BY <1>5, <1>8, <2>1, <2>2 DEF Has, Knows, Recorded, journal
  <2>4. QED BY <1>7, <1>8, <2>1, <2>3 DEF Handling
<1>9. ASSUME NEW t \in Thread, Moves(t, "check", "mark"), UNCHANGED seen
      PROVE  KnownInv'
  BY <1>0, <1>4, <1>5, <1>9 DEF WorkersHandle, Handling
<1>10. ASSUME NEW t \in Thread, Moves(t, "mark", "record"), Marks(t)
       PROVE  KnownInv'
  <2>1. t # MainOf(t[1]) /\ pc'[t] = "record"
    BY <1>0, <1>5, <1>10 DEF WorkersHandle, Handling
  <2>2. t \in WorkersOf(t[1])
    BY <2>1, ThreadFacts
  <2>3. Has(t[1], job[t].finding)'
    BY <2>1, <2>2 DEF Has, Records, WorkersOf
  <2>4. QED BY <1>7, <1>10, <2>1, <2>3
<1>11. ASSUME NEW u \in Thread, NEW r \in late \cup Requests, Takes(u, r)
       PROVE  KnownInv'
  <2>1. /\ u \in WorkersOf(r.to) /\ pc[u] = "idle" /\ OthersStay(u) /\ UNCHANGED seen
    BY <1>11 DEF Takes
  <2>2. u # MainOf(u[1])
    BY <2>1, ThreadAssumption DEF WorkersOf, MainOf, Thread
  <2>3. QED BY <1>4, <2>1, <2>2
<1>12. ASSUME NEW t \in Thread, Writes(t)
       PROVE  KnownInv'
  <2>1. /\ pc[t] = "record" /\ RecordRow(t) /\ UNCHANGED seen
        /\ \A u \in Thread \ {t} : Stays(u)
        /\ pc'[t] = "loop" \/ job'[t] = NoJob
    BY <1>12 DEF Writes, OthersStay
  <2>2. pc'[t] \notin Handling
    BY <1>0, <2>1 DEF CallInv, JobsFit, Busy, Handling
  <2>3. \A f : f = job[t].finding => Knows(t[1], f)'
    BY <1>0, <2>1, RecordedNow
  <2>4. \A n \in Node : \A u \in WorkersOf(n) : \A f \in Finding :
            Records(u, f) => Stays(u) \/ Knows(n, f)'
    BY <2>1, <2>3, ThreadFacts DEF Records
  <2>5. QED BY <1>1, <2>1, <2>2, <2>4
<1>13. ASSUME NEW n \in Node, Forgets(n)
       PROVE  KnownInv'
  <2>1. /\ \A u \in Thread : Stays(u) \/ job'[u] = NoJob
        /\ \A u \in Thread : u[1] # n => Stays(u)
        /\ seen'[n] = <<>> /\ \A m \in Node \ {n} : seen'[m] = seen[m]
    BY <1>0, <1>13 DEF Forgets, CallInv, TypeOK
  <2>2. \A m \in Node : \A x : HasSeen(seen'[m], x) => HasSeen(seen[m], x)
    BY <2>1 DEF HasSeen
  <2>3. \A m \in Node :
            \/ seen'[m] = <<>>
            \/ \A u \in WorkersOf(m) : \A f \in Finding : Records(u, f) => Stays(u) \/ Knows(m, f)'
    BY <2>1, ThreadFacts
  <2>4. NoThread \notin Thread
    BY ThreadFacts
  <2>5. QED BY <1>1, <2>1, <2>2, <2>3, <2>4
<1>14. QED BY <1>0, <1>3, <1>6, <1>8, <1>9, <1>10, <1>11, <1>12, <1>13 DEF StepKind

(* That a switch has what it has seen, from the start on. *)
LEMMA KnownInvariance ==
    ASSUME Locked = {}
    PROVE  Spec => [](ChainInv /\ LoopInv /\ KnownInv)
<1>1. Init => LoopInv /\ KnownInv
  <2>1. Init => LoopInv
    BY ThreadFacts DEF Init, LoopInv, SteadyClients, FreshIterators, Looping
  <2>2. Init => KnownInv
    BY DEF Init, KnownInv, IdInv, SeenIsKnown, WorkersHandle, HasSeen, Handling
  <2>3. QED BY <2>1, <2>2
<1>2. CallInv /\ LoopInv /\ [Next]_vars => LoopInv'
  BY StepKeepsLoopInv
<1>3. ChainInv /\ ChainInv' /\ LoopInv /\ KnownInv /\ [Next]_vars => KnownInv'
  BY StepKeepsKnownInv
<1>4. ChainInv => CallInv
  BY DEF ChainInv
<1>5. QED BY <1>1, <1>2, <1>3, <1>4, ChainInvariance, PTL DEF Spec

(* handle_finding answers "already seen" only for a finding the switch has or is *)
(* about to record, through faults and restarts, if no two switches draw the *)
(* same id and no journal is locked. *)
THEOREM DuplicatesKnown ==
    ASSUME Locked = {}, DistinctIds
    PROVE  Spec => []DuplicateIsKnown
<1>1. ChainInv /\ KnownInv => DuplicateIsKnown
  <2> SUFFICES ASSUME ChainInv, KnownInv, NEW t \in Thread, pc[t] = "check",
                      AlreadySeen(t[1], job[t].finding)
               PROVE  \/ Knows(t[1], job[t].finding)
                      \/ \E u \in WorkersOf(t[1]) : pc[u] = "record" /\ job[u].finding = job[t].finding
    BY DEF DuplicateIsKnown
  <2> DEFINE f == job[t].finding
  <2>1. t[1] \in Node /\ f \in Finding /\ f.origin \in Node /\ f \in findings[f.origin]
    <3>1. job[t] # NoJob /\ t[1] \in Node
      BY ThreadFacts DEF ChainInv, CallInv, JobsFit, Busy, Handling
    <3>2. f \in Finding
      BY <3>1, JobFacts DEF ChainInv, CallInv, TypeOK
    <3>3. QED BY <3>1, <3>2 DEF ChainInv, Chain, ThreadFits, Committed, Finding
  <2>2. PICK g \in Finding : FindingId(g) = FindingId(f) /\ Has(t[1], g)
    BY <2>1 DEF AlreadySeen, KnownInv, SeenIsKnown
  <2>3. g.origin \in Node /\ g \in findings[g.origin]
    BY <2>1, <2>2, HasCommitted DEF KnownInv
  <2>4. g = f
    BY <2>1, <2>2, <2>3, UniqueIds DEF KnownInv
  <2>5. QED BY <2>2, <2>4 DEF Has, Records
<1>2. QED BY <1>1, KnownInvariance, PTL

----------------------------------------------------------------------------
(* A finding travels through one thread at a time, and is recorded once, if no *)
(* call fails and no daemon is killed. *)

NoFaults == Lossy = {} /\ Killed = {} /\ Churn = {}

(* u works on f and does not wait for an answer. *)
Carries(u, f) == job[u] # NoJob /\ job[u].finding = f /\ pc[u] # "wait"

OneCarrier == \A u, v \in Thread : \A f \in Finding : Carries(u, f) /\ Carries(v, f) => u = v

(* A caller waits for the answer about its own finding. *)
CallersCarry ==
    \A u \in Thread : job[u] # NoJob /\ job[u].caller # NoThread =>
        job[job[u].caller] # NoJob /\ job[job[u].caller].finding = job[u].finding

RowsSeen == \A n \in Node : \A i \in DOMAIN events[n] : HasSeen(seen[n], FindingId(events[n][i].finding))

RowsDiffer ==
    \A n \in Node : \A i, j \in DOMAIN events[n] : events[n][i].finding = events[n][j].finding => i = j

(* Who is about to record has the id in the cache or will, and no row yet. *)
RecordsFirst ==
    \A u \in Thread :
        /\ pc[u] \in {"mark", "record"} => job[u].finding \notin Recorded(u[1])
        /\ pc[u] = "record" => HasSeen(seen[u[1]], FindingId(job[u].finding))

OnceInv == late = {} /\ OneCarrier /\ CallersCarry /\ RowsSeen /\ RowsDiffer /\ RecordsFirst

(* s keeps its finding and its caller, or returns. *)
Keeps(s) ==
    /\ job[s] # NoJob /\ pc[s] # "wait"
    /\ \/ job'[s] = NoJob
       \/ job'[s].finding = job[s].finding /\ job'[s].caller = job[s].caller

(* A thread that carries on with a finding did so before, or its callee did and *)
(* has returned. *)
LEMMA CarrierBefore ==
    ASSUME CallInv, CallInv', CallersCarry, NoFaults,
           NEW s, s \in Thread => job[s] = NoJob \/ Keeps(s), OthersStay(s),
           NEW u \in Thread, job[u] # NoJob, NEW f, Carries(u, f)'
    PROVE  \/ Carries(u, f)
           \/ \E v \in Thread : Carries(v, f) /\ job'[v] = NoJob /\ job[v].caller = u
<1>1. \A w \in Thread : job[w] # NoJob => GoesOn(w) \/ Keeps(w) \/ (job'[w] = NoJob /\ pc[w] # "wait")
  BY DEF OthersStay, Stays
<1>2. \A w \in Thread : job[w] # NoJob /\ job'[w] # NoJob =>
          job'[w].finding = job[w].finding /\ job'[w].caller = job[w].caller
  BY <1>1 DEF GoesOn, Keeps, NoFaults
<1>3. job[u].finding = f
  BY <1>2 DEF Carries
<1>4. CASE pc[u] # "wait"
  BY <1>3, <1>4 DEF Carries
<1>5. CASE pc[u] = "wait"
  <2>1. PICK v \in Thread : job[v] # NoJob /\ job[v].caller = u
    BY <1>5 DEF CallInv, Paired
  <2>2. u # NoThread
    BY ThreadFacts
  <2>3. job[v].finding = f
    BY <1>3, <2>1, <2>2 DEF CallersCarry
  <2>4. job'[v] = NoJob
    <3> SUFFICES ASSUME job'[v] # NoJob PROVE FALSE
      OBVIOUS
    <3>1. job'[v].caller = u
      BY <1>2, <2>1
    <3>2. pc'[u] = "wait"
      BY <2>2, <3>1 DEF CallInv, Paired
    <3>3. QED BY <3>2 DEF Carries
  <2>5. pc[v] # "wait"
    BY <1>1, <2>1, <2>4 DEF GoesOn, Keeps
  <2>6. QED BY <2>1, <2>3, <2>4, <2>5 DEF Carries
<1>6. QED BY <1>4, <1>5

(* Without a new job there is no second carrier. *)
LEMMA OneCarrierStill ==
    ASSUME CallInv, CallInv', OneCarrier, CallersCarry, NoFaults,
           NEW s, s \in Thread => Keeps(s), OthersStay(s)
    PROVE  OneCarrier' /\ CallersCarry'
<1>1. \A w \in Thread : job'[w] # NoJob =>
          /\ job[w] # NoJob
          /\ job'[w].finding = job[w].finding /\ job'[w].caller = job[w].caller
  BY DEF OthersStay, Stays, GoesOn, Keeps, NoFaults
<1>2. ASSUME NEW u \in Thread, NEW v \in Thread, NEW f \in Finding, Carries(u, f)', Carries(v, f)'
      PROVE  u = v
  <2>1. job[u] # NoJob /\ job[v] # NoJob /\ job'[u] # NoJob /\ job'[v] # NoJob
    BY <1>1, <1>2 DEF Carries
  <2>2. \/ Carries(u, f)
        \/ \E w \in Thread : Carries(w, f) /\ job'[w] = NoJob /\ job[w].caller = u
    BY <1>2, <2>1, CarrierBefore
  <2>3. \/ Carries(v, f)
        \/ \E w \in Thread : Carries(w, f) /\ job'[w] = NoJob /\ job[w].caller = v
    BY <1>2, <2>1, CarrierBefore
  <2>4. QED BY <2>1, <2>2, <2>3 DEF OneCarrier
<1>3. ASSUME NEW u \in Thread, job'[u] # NoJob, job'[u].caller # NoThread
      PROVE  job'[job'[u].caller] # NoJob /\ job'[job'[u].caller].finding = job'[u].finding
  <2>1. pc'[job'[u].caller] = "wait" /\ job'[u].caller \in Thread
    <3>1. job'[u] \in Job
      BY <1>3 DEF CallInv, TypeOK
    <3>2. job'[u].caller \in Thread
      BY <1>3, <3>1, JobFacts
    <3>3. QED BY <1>3, <3>2 DEF CallInv, Paired
  <2>2. job'[job'[u].caller] # NoJob
    BY <2>1 DEF CallInv, JobsFit, Busy, Looping
  <2>3. job[job[u].caller].finding = job[u].finding
    BY <1>1, <1>3 DEF CallersCarry
  <2>4. QED BY <1>1, <1>3, <2>1, <2>2, <2>3
<1>4. QED BY <1>2, <1>3 DEF OneCarrier, CallersCarry

(* A new job is the only one on its finding that does not wait, if nobody worked *)
(* on that finding or its caller handed it on. *)
LEMMA OneCarrierMore ==
    ASSUME CallInv, CallInv', OneCarrier, CallersCarry, NoFaults,
           NEW s \in Thread, job[s] = NoJob, job'[s] # NoJob, OthersStay(s),
           NEW f, job'[s].finding = f, NEW c, job'[s].caller = c,
           \/ c = NoThread /\ \A u \in Thread : job[u] # NoJob => job[u].finding # f
           \/ c \in Thread /\ pc'[c] = "wait" /\ Carries(c, f)
    PROVE  OneCarrier' /\ CallersCarry'
<1>1. \A w \in Thread \ {s} : job'[w] # NoJob =>
          /\ job[w] # NoJob
          /\ job'[w].finding = job[w].finding /\ job'[w].caller = job[w].caller
  BY DEF OthersStay, Stays, GoesOn, NoFaults
<1>2. ASSUME NEW u \in Thread \ {s}, NEW g, Carries(u, g)'
      PROVE  \/ Carries(u, g)
             \/ \E w \in Thread : Carries(w, g) /\ job'[w] = NoJob /\ job[w].caller = u
  <2>1. job[u] # NoJob
    BY <1>1, <1>2 DEF Carries
  <2>2. QED BY <1>2, <2>1, CarrierBefore
<1>3. ASSUME NEW u \in Thread \ {s}, Carries(u, f)'
      PROVE  FALSE
  <2>1. CASE \A w \in Thread : job[w] # NoJob => job[w].finding # f
    <3>1. job'[u] # NoJob /\ job'[u].finding = f
      BY <1>3 DEF Carries
    <3>2. job[u] # NoJob /\ job[u].finding = f
      BY <1>1, <3>1
    <3>3. QED BY <2>1, <3>2
  <2>2. CASE c \in Thread /\ pc'[c] = "wait" /\ Carries(c, f)
    <3>1. f \in Finding
      <4>1. job[c] \in Job /\ job[c].finding = f
        BY <2>2 DEF Carries, CallInv, TypeOK
      <4>2. QED BY <4>1, JobFacts
    <3>2. job'[c] # NoJob
      BY <2>2 DEF CallInv, JobsFit, Busy, Looping
    <3>3. u # c
      BY <1>3, <2>2 DEF Carries
    <3>4. \A w \in Thread : Carries(w, f) => w = c
      BY <2>2, <3>1 DEF OneCarrier
    <3>5. QED BY <1>2, <1>3, <3>2, <3>3, <3>4
  <2>3. QED BY <2>1, <2>2
<1>4. ASSUME NEW u \in Thread, NEW v \in Thread, NEW g \in Finding, Carries(u, g)', Carries(v, g)'
      PROVE  u = v
  <2>1. CASE u = s \/ v = s
    <3>1. g = f
      BY <1>4, <2>1 DEF Carries
    <3>2. QED BY <1>3, <1>4, <2>1, <3>1
  <2>2. CASE u # s /\ v # s
    <3>1. \/ Carries(u, g)
          \/ \E w \in Thread : Carries(w, g) /\ job'[w] = NoJob /\ job[w].caller = u
      BY <1>2, <1>4, <2>2
    <3>2. \/ Carries(v, g)
          \/ \E w \in Thread : Carries(w, g) /\ job'[w] = NoJob /\ job[w].caller = v
      BY <1>2, <1>4, <2>2
    <3>3. job'[u] # NoJob /\ job'[v] # NoJob
      BY <1>4 DEF Carries
    <3>4. QED BY <3>1, <3>2, <3>3 DEF OneCarrier
  <2>3. QED BY <2>1, <2>2
<1>5. ASSUME NEW u \in Thread, job'[u] # NoJob, job'[u].caller # NoThread
      PROVE  job'[job'[u].caller] # NoJob /\ job'[job'[u].caller].finding = job'[u].finding
  <2>0. PICK d : d = job'[u].caller
    OBVIOUS
  <2>1. d \in Thread /\ pc'[d] = "wait" /\ job'[d] # NoJob
    <3>1. job'[u] \in Job
      BY <1>5 DEF CallInv, TypeOK
    <3>2. d \in Thread
      BY <1>5, <2>0, <3>1, JobFacts
    <3>3. pc'[d] = "wait"
      BY <1>5, <2>0 DEF CallInv, Paired
    <3>4. QED BY <3>2, <3>3 DEF CallInv, JobsFit, Busy, Looping
  <2>2. CASE u = s
    <3>1. d = c /\ Carries(c, f)
      BY <1>5, <2>0, <2>2
    <3>2. c # s
      BY <3>1 DEF Carries
    <3>3. job'[c].finding = job[c].finding
      BY <1>1, <2>1, <3>1, <3>2
    <3>4. QED BY <2>0, <2>1, <2>2, <3>1, <3>3 DEF Carries
  <2>3. CASE u # s
    <3>1. job[u] # NoJob /\ job'[u].finding = job[u].finding /\ d = job[u].caller
      BY <1>1, <1>5, <2>0, <2>3
    <3>2. job[d] # NoJob /\ job[d].finding = job[u].finding
      BY <1>5, <2>0, <3>1 DEF CallersCarry
    <3>3. d # s
      BY <3>2
    <3>4. QED BY <1>1, <2>0, <2>1, <3>1, <3>2, <3>3
  <2>4. QED BY <2>2, <2>3
<1>6. QED BY <1>4, <1>5 DEF OneCarrier, CallersCarry

(* Rows stay seen and distinct, and the threads behind them stay first, if at *)
(* most one row is new: that of the thread s, which has finished with it. *)
LEMMA RowsStill ==
    ASSUME CallInv, CallInv', OneCarrier, RowsSeen, RowsDiffer, RecordsFirst,
           \A n \in Node : \A x : HasSeen(seen[n], x) => HasSeen(seen'[n], x),
           NEW s, OthersStay(s),
           s \in Thread /\ pc'[s] \in {"mark", "record"} =>
               /\ job'[s].finding \notin Recorded(s[1])
               /\ pc'[s] = "record" => HasSeen(seen'[s[1]], FindingId(job'[s].finding)),
           \/ UNCHANGED events
           \/ /\ s \in Thread /\ pc[s] = "record" /\ RecordRow(s)
              /\ pc'[s] \notin {"mark", "record"}
    PROVE  RowsSeen' /\ RowsDiffer' /\ RecordsFirst'
<1>1. ASSUME NEW u \in Thread \ {s}, pc'[u] \in {"mark", "record"}
      PROVE  /\ job[u] # NoJob /\ pc[u] = pc'[u] /\ job'[u].finding = job[u].finding
             /\ job[u].finding \notin Recorded(u[1])
             /\ pc'[u] = "record" => HasSeen(seen'[u[1]], FindingId(job'[u].finding))
  <2>1. job'[u] # NoJob
    BY <1>1 DEF CallInv, JobsFit, Busy, Handling
  <2>2. GoesOn(u)
    BY <1>1, <2>1 DEF OthersStay, Stays
  <2>3. job[u] # NoJob /\ pc[u] = pc'[u] /\ job'[u].finding = job[u].finding
    BY <1>1, <2>2 DEF GoesOn, Looping
  <2>4. job[u].finding \notin Recorded(u[1])
    BY <1>1, <2>3 DEF RecordsFirst
  <2>5. pc'[u] = "record" => HasSeen(seen'[u[1]], FindingId(job'[u].finding))
    BY <2>3, ThreadFacts DEF RecordsFirst
  <2>6. QED BY <2>3, <2>4, <2>5
<1>2. CASE UNCHANGED events
  <2>1. RowsSeen' /\ RowsDiffer'
    BY <1>2 DEF RowsSeen, RowsDiffer
  <2>2. \A n : Recorded(n)' = Recorded(n)
    BY <1>2 DEF Recorded
  <2>3. ASSUME NEW u \in Thread, pc'[u] \in {"mark", "record"}
        PROVE  /\ job'[u].finding \notin Recorded(u[1])'
               /\ pc'[u] = "record" => HasSeen(seen'[u[1]], FindingId(job'[u].finding))
    <3>1. CASE u = s
      BY <2>2, <2>3, <3>1
    <3>2. CASE u # s
      BY <1>1, <2>2, <2>3, <3>2
    <3>3. QED BY <3>1, <3>2
  <2>4. RecordsFirst'
    BY <2>3 DEF RecordsFirst
  <2>5. QED BY <2>1, <2>4
<1>3. CASE /\ s \in Thread /\ pc[s] = "record" /\ RecordRow(s)
           /\ pc'[s] \notin {"mark", "record"}
  <2> DEFINE n == s[1]
             row == [finding |-> job[s].finding, sender |-> job[s].sender, ttl |-> job[s].ttl]
             k == Len(events[n]) + 1
  <2>1. /\ events' = [events EXCEPT ![n] = Append(@, row)] /\ row.finding = job[s].finding
        /\ n \in Node /\ events[n] \in Seq(Row) /\ job[s] # NoJob
    BY <1>3, ThreadFacts DEF RecordRow, CallInv, TypeOK, JobsFit, Busy, Handling
  <2>2. row.finding \notin Recorded(n) /\ HasSeen(seen'[n], FindingId(row.finding))
    BY <1>3, <2>1 DEF RecordsFirst
  <2> HIDE DEF row, n
  <2>3. /\ k \in DOMAIN events'[n] /\ events'[n][k] = row
        /\ DOMAIN events'[n] = DOMAIN events[n] \cup {k}
        /\ \A i \in DOMAIN events[n] : events'[n][i] = events[n][i]
        /\ \A m \in Node \ {n} : events'[m] = events[m]
    <3>1. events'[n] = Append(events[n], row) /\ \A m \in Node \ {n} : events'[m] = events[m]
      BY <2>1 DEF CallInv, TypeOK
    <3>2. QED BY <2>1, <3>1
  <2> HIDE DEF k
  <2>4. RowsSeen'
    <3>1. ASSUME NEW m \in Node, NEW i \in DOMAIN events'[m]
          PROVE  HasSeen(seen'[m], FindingId(events'[m][i].finding))
      <4>1. CASE m = n /\ i = k
        BY <2>2, <2>3, <4>1
      <4>2. CASE i \in DOMAIN events[m] /\ events'[m][i] = events[m][i]
        BY <4>2 DEF RowsSeen
      <4>3. QED BY <2>3, <4>1, <4>2
    <3>2. QED BY <3>1 DEF RowsSeen, FindingId
  <2>5. RowsDiffer'
    <3>1. ASSUME NEW i \in DOMAIN events'[n], NEW j \in DOMAIN events'[n],
                 events'[n][i].finding = events'[n][j].finding
          PROVE  i = j
      <4>1. \A l \in DOMAIN events[n] : events[n][l].finding # row.finding
        BY <2>2 DEF Recorded
      <4>2. CASE i = k /\ j # k
        BY <2>3, <3>1, <4>1, <4>2
      <4>3. CASE j = k /\ i # k
        BY <2>3, <3>1, <4>1, <4>3
      <4>4. CASE i # k /\ j # k
        BY <2>1, <2>3, <3>1, <4>4 DEF RowsDiffer
      <4>5. QED BY <4>2, <4>3, <4>4
    <3>2. \A m \in Node \ {n} : \A i, j \in DOMAIN events'[m] :
              events'[m][i].finding = events'[m][j].finding => i = j
      BY <2>3 DEF RowsDiffer
    <3>3. QED BY <3>1, <3>2 DEF RowsDiffer
  <2>6. ASSUME NEW u \in Thread \ {s}, pc'[u] \in {"mark", "record"}
        PROVE  job'[u].finding \notin Recorded(u[1])'
    <3>1. job[u] # NoJob /\ pc[u] = pc'[u] /\ job'[u].finding = job[u].finding
          /\ job[u].finding \notin Recorded(u[1]) /\ u[1] \in Node
      BY <1>1, <2>6, ThreadFacts
    <3>2. job[u].finding # row.finding
      <4>1. job[s].finding \in Finding
        <5>1. job[s] \in Job
          BY <1>3, <2>1 DEF CallInv, TypeOK
        <5>2. QED BY <5>1, JobFacts
      <4>2. Carries(s, job[s].finding)
        BY <1>3, <2>1 DEF Carries
      <4>3. job[u].finding = job[s].finding => Carries(u, job[s].finding)
        BY <2>6, <3>1 DEF Carries
      <4>4. QED BY <1>3, <2>1, <2>6, <4>1, <4>2, <4>3 DEF OneCarrier
    <3>3. \A i \in DOMAIN events'[u[1]] :
              events'[u[1]][i] = row \/ \E j \in DOMAIN events[u[1]] : events'[u[1]][i] = events[u[1]][j]
      BY <2>3, <3>1
    <3>4. QED BY <3>1, <3>2, <3>3 DEF Recorded
  <2>7. RecordsFirst'
    BY <1>1, <1>3, <2>6 DEF RecordsFirst
  <2>8. QED BY <2>4, <2>5, <2>7
<1>4. QED BY <1>2, <1>3

(* Every step keeps findings to one thread and one row. *)
LEMMA StepKeepsOnceInv ==
    ASSUME MaxSeq <= MaxSeen, NoFaults, ChainInv, ChainInv', LoopInv, OwnInv, OnceInv, [Next]_vars
    PROVE  OnceInv'
<1>0. /\ CallInv /\ CallInv' /\ StepKind /\ Remembers
      /\ late = {} /\ OneCarrier /\ CallersCarry /\ RowsSeen /\ RowsDiffer /\ RecordsFirst
      /\ NoThread \notin Thread
  BY StepKinds, StepKeepsOwnInv, ThreadFacts DEF ChainInv, OnceInv
<1>1. \A n \in Node : ~Forgets(n)
  BY DEF Forgets, NoFaults
<1>2. late' = {} /\ UNCHANGED boot
  BY <1>0, <1>1 DEF StepKind, Idles, Creates, Moves, Takes, Writes, NoNewRequests, NoFaults
<1>3. \A n \in Node : \A x : HasSeen(seen[n], x) => HasSeen(seen'[n], x)
  <2>1. \A n \in Node : boot'[n] # boot[n] + 1
    BY <1>0, <1>2 DEF CallInv, TypeOK
  <2>2. QED BY <1>0, <2>1 DEF Remembers
<1>4. ASSUME NEW s, s \in Thread => Keeps(s), OthersStay(s),
             s \in Thread /\ pc'[s] \in {"mark", "record"} =>
                 /\ job'[s].finding \notin Recorded(s[1])
                 /\ pc'[s] = "record" => HasSeen(seen'[s[1]], FindingId(job'[s].finding)),
             \/ UNCHANGED events
             \/ /\ s \in Thread /\ pc[s] = "record" /\ RecordRow(s)
                /\ pc'[s] \notin {"mark", "record"}
      PROVE  OnceInv'
  <2>1. OneCarrier' /\ CallersCarry'
    BY <1>0, <1>4, OneCarrierStill
  <2>2. RowsSeen' /\ RowsDiffer' /\ RecordsFirst'
    BY <1>0, <1>3, <1>4, RowsStill
  <2>3. QED BY <1>2, <2>1, <2>2 DEF OnceInv
<1>5. ASSUME NEW s \in Thread, pc[s] = "idle", job'[s] # NoJob, OthersStay(s), UNCHANGED events,
             pc'[s] \notin {"mark", "record"},
             NEW f, job'[s].finding = f, NEW c, job'[s].caller = c,
             \/ c = NoThread /\ \A u \in Thread : job[u] # NoJob => job[u].finding # f
             \/ c \in Thread /\ pc'[c] = "wait" /\ Carries(c, f)
      PROVE  OnceInv'
  <2>1. job[s] = NoJob
    BY <1>0, <1>5 DEF CallInv, JobsFit, Busy, Looping, Handling
  <2>2. OneCarrier' /\ CallersCarry'
    BY <1>0, <1>5, <2>1, OneCarrierMore
  <2>3. RowsSeen' /\ RowsDiffer' /\ RecordsFirst'
    BY <1>0, <1>3, <1>5, RowsStill
  <2>4. QED BY <1>2, <2>2, <2>3 DEF OnceInv
<1>6. CASE Idles
  <2>1. UNCHANGED events /\ OthersStay(NoThread)
    BY <1>6 DEF Idles, OthersStay, journal
  <2>2. QED BY <1>0, <1>4, <2>1
<1>7. ASSUME NEW n \in Node, NEW f \in Finding, Creates(n, f)
      PROVE  OnceInv'
  <2> DEFINE m == MainOf(n)
  <2>1. /\ m \in Thread /\ pc[m] = "idle" /\ pc'[m] = "share" /\ job'[m] # NoJob
        /\ job'[m].finding = f /\ job'[m].caller = NoThread
        /\ OthersStay(m) /\ UNCHANGED events
        /\ f.origin = n /\ f \notin findings[n]
    BY <1>7, ThreadFacts DEF Creates, IdTaken
  <2>2. \A u \in Thread : job[u] # NoJob => job[u].finding # f
    BY <2>1 DEF ChainInv, Chain, ThreadFits, Committed
  <2> HIDE DEF m
  <2>3. QED BY <1>5, <2>1, <2>2
<1>8. ASSUME NEW t \in Thread, NEW from, NEW to, Moves(t, from, to), from # "wait",
             to \in {"mark", "record"} =>
                 /\ job[t].finding \notin Recorded(t[1])
                 /\ to = "record" => HasSeen(seen'[t[1]], FindingId(job[t].finding))
      PROVE  OnceInv'
  <2>1. /\ pc[t] = from /\ pc'[t] = to /\ job[t] # NoJob /\ job'[t] = job[t]
        /\ OthersStay(t) /\ UNCHANGED events
    BY <1>8 DEF Moves, journal
  <2>2. Keeps(t)
    BY <1>8, <2>1 DEF Keeps
  <2>3. QED BY <1>4, <1>8, <2>1, <2>2
<1>9. ASSUME NEW n \in Node, Moves(MainOf(n), "share", "loop")
      PROVE  OnceInv'
  BY <1>8, <1>9, ThreadFacts
<1>10. ASSUME NEW t \in Thread, Moves(t, "check", "mark"), ~AlreadySeen(t[1], job[t].finding)
       PROVE  OnceInv'
  <2>1. job[t].finding \notin Recorded(t[1])
    BY <1>0, <1>10, ThreadFacts DEF AlreadySeen, RowsSeen, Recorded
  <2>2. QED BY <1>8, <1>10, <2>1
<1>11. ASSUME NEW t \in Thread, Moves(t, "mark", "record"), Marks(t)
       PROVE  OnceInv'
  <2>1. pc[t] = "mark" /\ job[t] # NoJob
    BY <1>11 DEF Moves
  <2>2. job[t].finding \notin Recorded(t[1])
    BY <1>0, <2>1 DEF RecordsFirst
  <2>3. HasSeen(seen'[t[1]], FindingId(job[t].finding))
    BY <1>0, <1>11, <2>1, MarksFacts DEF OwnInv
  <2>4. QED BY <1>8, <1>11, <2>2, <2>3
<1>12. ASSUME NEW u \in Thread, NEW r \in late \cup Requests, Takes(u, r)
       PROVE  OnceInv'
  <2>1. /\ pc[u] = "idle" /\ pc'[u] = "check" /\ job'[u] # NoJob /\ job'[u].finding = r.finding
        /\ OthersStay(u) /\ UNCHANGED events
    BY <1>12 DEF Takes, journal
  <2>2. PICK t \in Thread : /\ pc[t] = "call" /\ r = Request(t)
                            /\ job'[u].caller = t /\ pc'[t] = "wait"
    BY <1>0, <1>12 DEF Takes
  <2>3. r.finding = job[t].finding /\ job[t] # NoJob
    BY <1>0, <2>2 DEF Request, CallInv, JobsFit, Busy, Looping
  <2>4. Carries(t, r.finding)
    BY <2>2, <2>3 DEF Carries
  <2>5. QED BY <1>5, <2>1, <2>2, <2>4
<1>13. ASSUME NEW t \in Thread, Writes(t)
       PROVE  OnceInv'
  <2>1. /\ pc[t] = "record" /\ job[t] # NoJob /\ RecordRow(t) /\ OthersStay(t)
        /\ (pc'[t] = "loop" /\ job'[t] = job[t]) \/ job'[t] = NoJob
    BY <1>13 DEF Writes
  <2>2. pc'[t] \notin {"mark", "record"}
    BY <1>0, <2>1 DEF CallInv, JobsFit, Busy, Handling
  <2>3. Keeps(t)
    BY <2>1 DEF Keeps
  <2>4. QED BY <1>4, <2>1, <2>2, <2>3
<1>14. QED
  BY <1>0, <1>1, <1>6, <1>7, <1>9, <1>10, <1>11, <1>12, <1>13 DEF StepKind

(* A finding is carried by one thread and recorded once, from the start on. *)
LEMMA OnceInvariance ==
    ASSUME MaxSeq <= MaxSeen, NoFaults
    PROVE  Spec => [](ChainInv /\ OwnInv /\ OnceInv)
<1>1. Init => OnceInv
  BY DEF Init, OnceInv, OneCarrier, CallersCarry, RowsSeen, RowsDiffer, RecordsFirst, Carries
<1>2. ChainInv /\ ChainInv' /\ LoopInv /\ OwnInv /\ OnceInv /\ [Next]_vars => OnceInv'
  BY StepKeepsOnceInv
<1>3. QED BY <1>1, <1>2, ChainInvariance, OwnInvariance, PTL DEF Spec

(* A switch records a finding once, in any network and with any number of *)
(* workers, while no call fails and no daemon is killed. *)
THEOREM RecordedOnlyOnce ==
    ASSUME MaxSeq <= MaxSeen, NoFaults
    PROVE  Spec => []RecordedOnce
<1>1. RowsDiffer => RecordedOnce
  <2> SUFFICES ASSUME RowsDiffer, NEW n \in Node, NEW i \in DOMAIN events[n]
               PROVE  Copies(n, events[n][i].finding) = 1
    BY DEF RecordedOnce, Recorded
  <2>1. {j \in DOMAIN events[n] : events[n][j].finding = events[n][i].finding} = {i}
    BY DEF RowsDiffer
  <2>2. QED BY <2>1, FS_Singleton DEF Copies
<1>2. OnceInv => RowsDiffer
  BY DEF OnceInv
<1>3. QED BY <1>1, <1>2, OnceInvariance, PTL

----------------------------------------------------------------------------
(* What has been shared or taken gets to every peer: until a peer knows of it, *)
(* a thread of the peer handles it or a thread of the sender has the call ahead. *)

Undisturbed == NoFaults /\ Locked = {}

Handles(u, f) == job[u] # NoJob /\ job[u].finding = f /\ pc[u] \in Handling

(* t calls p about f, or is going to *)
Forwards(t, f, p) ==
    /\ job[t] # NoJob /\ job[t].finding = f
    /\ \/ pc[t] \in Looping /\ p \in iter[t].todo /\ p # job[t].sender
       \/ pc[t] = "call" /\ peer[t] = p

Covered(n, f, p) ==
    \/ Knows(p, f)
    \/ \E u \in ThreadsOf(p) : Handles(u, f)
    \/ \E t \in ThreadsOf(n) : Forwards(t, f, p)

Spread(f) == \A p \in Peers[f.origin] : Covered(f.origin, f, p)

SharedSpread ==
    \A n \in Node : \A f \in Finding :
        f \in findings[n] /\ HasSeen(seen[n], FindingId(f)) => Spread(f)

TravelSpread ==
    \A t \in Thread : \A f \in Finding :
        job[t] # NoJob /\ pc[t] # "share" /\ job[t].finding = f => Spread(f)

RowsSpread ==
    \A n \in Node : \A i \in DOMAIN events[n] : \A f \in Finding :
        events[n][i].finding = f /\ events[n][i].ttl > 1 =>
            \A p \in Peers[n] : p # events[n][i].sender => Covered(n, f, p)

OwnShared ==
    \A t \in Thread : pc[t] = "share" => job[t].sender = t[1] /\ job[t].finding.origin = t[1]

ForwardInv == late = {} /\ SharedSpread /\ TravelSpread /\ RowsSpread /\ OwnShared

CoverageGrows ==
    \A n, p \in Node : \A f \in Finding : Covered(n, f, p) => Covered(n, f, p)'

(* u is where it was, or its call has returned. *)
LeftAlone(u) ==
    job[u] # NoJob =>
        /\ job'[u] = job[u] /\ iter'[u] = iter[u]
        /\ \/ pc'[u] = pc[u] /\ peer'[u] = peer[u]
           \/ pc[u] = "wait" /\ pc'[u] = "loop"

(* The steps there are without faults. *)
LEMMA UndisturbedSteps ==
    ASSUME CallInv, LoopInv, Undisturbed, late = {}, [Next]_vars
    PROVE  \/ UNCHANGED vars
           \/ \E n \in Node : \/ CreateFinding(n) \/ CreateRejected(n)
                              \/ ShareFinding(n) \/ SkipShare(n)
           \/ \E t \in Thread :
                  \/ \E p \in Node : CallPeer(t, p) \/ SkipSender(t, p)
                  \/ IterationEnds(t)
                  \/ \E u \in Thread : Dispatch(t, u)
                  \/ HandleDuplicate(t) \/ HandleNew(t) \/ HandleMark(t) \/ HandleRecord(t)
<1>1. \A n \in Node : ~BeginRefresh(n) /\ ~Restart(n)
  BY DEF BeginRefresh, Restart, Undisturbed, NoFaults
<1>2. \A n \in Node : /\ \A p \in Peers[n] : ~ConnectPeer(n, p) /\ ~ClosePeer(n, p) /\ ~DeletePeer(n, p)
                      /\ ~EndRefresh(n)
  <2>1. \A n \in Node : pc[MainOf(n)] \notin {"refresh", "delete"}
    BY DEF LoopInv, SteadyClients, Undisturbed, NoFaults
  <2>2. QED BY <2>1 DEF ConnectPeer, ClosePeer, DeletePeer, EndRefresh, Goto
<1>3. \A t \in Thread : ~IterationRaises(t)
  <2> SUFFICES ASSUME NEW t \in Thread, IterationRaises(t) PROVE FALSE
    OBVIOUS
  <2>1. pc[t] = "loop"
    BY DEF IterationRaises
  <2>2. IteratorValid(t) /\ \A p \in Node : ~ChannelClosed(t[1], p)
    BY <2>1, FreshIteratorValid DEF Looping, Undisturbed, NoFaults
  <2>3. iter[t].todo \subseteq Node
    BY DEF CallInv, TypeOK, Iterator
  <2>4. QED BY <2>2, <2>3 DEF IterationRaises
<1>4. \A t \in Thread : ~CallFails(t) /\ ~RecordFails(t)
  BY DEF CallFails, RecordFails, Undisturbed, NoFaults
<1>5. QED
  BY <1>1, <1>2, <1>3, <1>4 DEF Next, Begin, Continue, Gossip, Handle, Quiet

(* Only what the thread s was doing has to be looked at. *)
LEMMA CoverageStill ==
    ASSUME CallInv, StepKind, NEW s, \A u \in Thread \ {s} : LeftAlone(u),
           \A n, p \in Node : \A f \in Finding :
               /\ s \in ThreadsOf(p) /\ Handles(s, f) => Covered(n, f, p)'
               /\ s \in ThreadsOf(n) /\ Forwards(s, f, p) => Covered(n, f, p)'
    PROVE  CoverageGrows
<1> SUFFICES ASSUME NEW n \in Node, NEW p \in Node, NEW f \in Finding, Covered(n, f, p)
             PROVE  Covered(n, f, p)'
  BY DEF CoverageGrows
<1>1. CASE Knows(p, f)
  BY <1>1, KnowledgeGrows DEF Covered
<1>2. ASSUME NEW u \in ThreadsOf(p), Handles(u, f), u # s
      PROVE  Handles(u, f)'
  BY <1>2, ThreadFacts DEF LeftAlone, Handles, Handling, ThreadsOf, Thread
<1>3. ASSUME NEW t \in ThreadsOf(n), Forwards(t, f, p), t # s
      PROVE  Forwards(t, f, p)'
  BY <1>3, ThreadFacts DEF LeftAlone, Forwards, Looping, ThreadsOf, Thread
<1>4. QED BY <1>1, <1>2, <1>3 DEF Covered, ThreadsOf

(* A finding that came back to a worker twice is known to the switch. *)
LEMMA DuplicateCovered ==
    ASSUME CallInv, CallInv', StepKind, DuplicateIsKnown,
           NEW t \in Thread, HandleDuplicate(t), \A u \in Thread \ {t} : LeftAlone(u),
           NEW n \in Node, NEW f, Handles(t, f)
    PROVE  Covered(n, f, t[1])'
<1>1. t[1] \in Node /\ job[t].finding = f /\ pc[t] = "check"
  BY ThreadFacts DEF HandleDuplicate, Handles
<1>2. \/ Knows(t[1], f)
      \/ \E u \in WorkersOf(t[1]) : pc[u] = "record" /\ job[u].finding = f
  BY <1>1 DEF HandleDuplicate, DuplicateIsKnown
<1>3. CASE Knows(t[1], f)
  BY <1>1, <1>3, KnowledgeGrows DEF Covered
<1>4. ASSUME NEW u \in WorkersOf(t[1]), pc[u] = "record", job[u].finding = f
      PROVE  Covered(n, f, t[1])'
  <2>1. u \in Thread \ {t} /\ u \in ThreadsOf(t[1])
    BY <1>1, <1>4, ThreadFacts
  <2>2. job[u] # NoJob
    BY <1>4, <2>1 DEF CallInv, JobsFit, Busy, Handling
  <2>3. Handles(u, f)'
    BY <1>4, <2>1, <2>2 DEF LeftAlone, Handles, Handling
  <2>4. QED BY <2>1, <2>3 DEF Covered, ThreadsOf
<1>5. QED BY <1>2, <1>3, <1>4

(* The loop and its calls lose no peer. *)
LEMMA LoopCovers ==
    ASSUME CallInv, CallInv', StepKind, NEW t \in Thread,
           \/ \E p \in Node : CallPeer(t, p) \/ SkipSender(t, p)
           \/ IterationEnds(t)
           \/ \E u \in Thread : Dispatch(t, u)
    PROVE  CoverageGrows /\ \A u \in Thread \ {t} : LeftAlone(u)
<1>1. ASSUME pc[t] \in Looping, \A u \in Thread \ {t} : LeftAlone(u),
             \A n, p \in Node : \A f \in Finding :
                 t \in ThreadsOf(n) /\ Forwards(t, f, p) => Covered(n, f, p)'
      PROVE  CoverageGrows
  <2>1. \A f : ~Handles(t, f)
    BY <1>1 DEF Handles, Handling, Looping
  <2>2. QED BY <1>1, <2>1, CoverageStill
<1>2. ASSUME NEW q \in Node, CallPeer(t, q)
      PROVE  CoverageGrows /\ \A u \in Thread \ {t} : LeftAlone(u)
  <2>1. /\ pc[t] = "loop" /\ pc'[t] = "call" /\ peer'[t] = q /\ job' = job
        /\ iter'[t].todo = iter[t].todo \ {q}
        /\ \A u \in Thread \ {t} : pc'[u] = pc[u] /\ peer'[u] = peer[u] /\ iter'[u] = iter[u]
    BY <1>2 DEF CallPeer, Goto, Advance, CallInv, TypeOK, Iterator
  <2>2. \A u \in Thread \ {t} : LeftAlone(u)
    BY <2>1 DEF LeftAlone
  <2>3. ASSUME NEW p, NEW f, Forwards(t, f, p)
        PROVE  Forwards(t, f, p)'
    BY <2>1, <2>3 DEF Forwards, Looping
  <2>4. QED BY <1>1, <2>1, <2>2, <2>3 DEF Covered, Looping, ThreadsOf
<1>3. ASSUME NEW q \in Node, SkipSender(t, q)
      PROVE  CoverageGrows /\ \A u \in Thread \ {t} : LeftAlone(u)
  <2>1. /\ pc[t] = "loop" /\ q = job[t].sender /\ UNCHANGED <<pc, job, peer>>
        /\ iter'[t].todo = iter[t].todo \ {q}
        /\ \A u \in Thread \ {t} : iter'[u] = iter[u]
    BY <1>3 DEF SkipSender, SkipsSender, Advance, CallInv, TypeOK, Iterator
  <2>2. \A u \in Thread \ {t} : LeftAlone(u)
    BY <2>1 DEF LeftAlone
  <2>3. ASSUME NEW p, NEW f, Forwards(t, f, p)
        PROVE  Forwards(t, f, p)'
    BY <2>1, <2>3 DEF Forwards
  <2>4. QED BY <1>1, <2>1, <2>2, <2>3 DEF Covered, Looping, ThreadsOf
<1>4. CASE IterationEnds(t)
  <2>1. pc[t] = "loop" /\ iter[t].todo = {} /\ Finish(t)
    BY <1>4 DEF IterationEnds
  <2>2. \A u \in Thread \ {t} : LeftAlone(u)
    BY <2>1, FinishFacts DEF LeftAlone, Busy, Looping
  <2>3. \A p, f : ~Forwards(t, f, p)
    BY <2>1 DEF Forwards
  <2>4. QED BY <1>1, <2>1, <2>2, <2>3 DEF Looping
<1>5. ASSUME NEW v \in Thread, Dispatch(t, v)
      PROVE  CoverageGrows /\ \A u \in Thread \ {t} : LeftAlone(u)
  <2>1. /\ pc[t] = "call" /\ pc'[t] = "wait" /\ pc[v] = "idle" /\ pc'[v] = "check"
        /\ v \in WorkersOf(peer[t]) /\ peer[t] \in Node /\ v # t
        /\ \A u \in Thread \ {t, v} : pc'[u] = pc[u]
        /\ UNCHANGED <<iter, peer>> /\ Serve(v, Request(t), t)
    BY <1>5 DEF Dispatch, CallInv, TypeOK, JobsFit
  <2>2. job[v] = NoJob /\ job[t] # NoJob
    BY <2>1 DEF CallInv, JobsFit, Busy, Looping, Handling
  <2>3. /\ job'[v] # NoJob /\ job'[v].finding = job[t].finding
        /\ \A u \in Thread \ {v} : job'[u] = job[u]
    <3>1. job'[v] # NoJob
      BY <2>1 DEF CallInv, JobsFit, Busy, Handling
    <3>2. /\ job'[v] = ServedJob(Request(t), t) /\ \A u \in Thread \ {v} : job'[u] = job[u]
      BY <2>1 DEF Serve, ServedJob, CallInv, TypeOK
    <3>3. ServedJob(Request(t), t).finding = job[t].finding
      BY DEF ServedJob, Request
    <3>4. QED BY <3>1, <3>2, <3>3
  <2>4. \A u \in Thread \ {t} : LeftAlone(u)
    BY <2>1, <2>2, <2>3 DEF LeftAlone
  <2>5. ASSUME NEW n \in Node, NEW p \in Node, NEW f \in Finding,
               t \in ThreadsOf(n), Forwards(t, f, p)
        PROVE  Covered(n, f, p)'
    <3>1. CASE p \in iter[t].todo /\ p # job[t].sender
      <4>1. Forwards(t, f, p)'
        BY <2>1, <2>2, <2>3, <2>5, <3>1 DEF Forwards, Looping
      <4>2. QED BY <2>5, <4>1 DEF Covered, ThreadsOf
    <3>2. CASE peer[t] = p
      <4>1. Handles(v, f)'
        BY <2>1, <2>3, <2>5 DEF Handles, Handling, Forwards
      <4>2. v \in ThreadsOf(p)
        BY <2>1, <3>2, ThreadFacts
      <4>3. QED BY <4>1, <4>2 DEF Covered, ThreadsOf
    <3>3. QED BY <2>5, <3>1, <3>2 DEF Forwards
  <2>6. QED BY <1>1, <2>1, <2>4, <2>5 DEF Looping
<1>6. QED BY <1>2, <1>3, <1>4, <1>5

(* Neither does handle_finding. *)
LEMMA HandleCovers ==
    ASSUME CallInv, CallInv', StepKind, DuplicateIsKnown, NEW t \in Thread,
           HandleDuplicate(t) \/ HandleNew(t) \/ HandleMark(t) \/ HandleRecord(t)
    PROVE  CoverageGrows /\ \A u \in Thread \ {t} : LeftAlone(u)
<1>1. pc[t] \in Handling /\ job[t] # NoJob
  <2>1. pc[t] \in Handling
    BY DEF HandleDuplicate, HandleNew, HandleMark, HandleRecord, Goto, Handling
  <2>2. QED BY <2>1 DEF CallInv, JobsFit, Busy
<1>2. ASSUME \A u \in Thread \ {t} : LeftAlone(u),
             \A n, p \in Node : \A f \in Finding :
                 t \in ThreadsOf(p) /\ Handles(t, f) => Covered(n, f, p)'
      PROVE  CoverageGrows
  <2>1. \A p, f : ~Forwards(t, f, p)
    BY <1>1 DEF Forwards, Handling, Looping
  <2>2. QED BY <1>2, <2>1, CoverageStill
<1>3. ASSUME pc'[t] \in Handling, UNCHANGED <<job, iter, peer>>,
             \A u \in Thread \ {t} : pc'[u] = pc[u]
      PROVE  CoverageGrows /\ \A u \in Thread \ {t} : LeftAlone(u)
  <2>1. \A u \in Thread \ {t} : LeftAlone(u)
    BY <1>3 DEF LeftAlone
  <2>2. \A f : Handles(t, f) => Handles(t, f)'
    BY <1>3 DEF Handles
  <2>3. QED BY <1>2, <2>1, <2>2 DEF Covered, ThreadsOf
<1>4. CASE HandleNew(t) \/ HandleMark(t)
  <2>1. /\ pc'[t] \in Handling /\ UNCHANGED <<job, iter, peer>>
        /\ \A u \in Thread \ {t} : pc'[u] = pc[u]
    BY <1>4 DEF HandleNew, HandleMark, Goto, Handling, CallInv, TypeOK
  <2>2. QED BY <1>3, <2>1
<1>5. ASSUME Finish(t)
      PROVE  \A u \in Thread \ {t} : LeftAlone(u)
  BY <1>1, <1>5, FinishFacts DEF LeftAlone, Busy, Looping, Handling
<1>6. CASE HandleDuplicate(t)
  <2>1. \A u \in Thread \ {t} : LeftAlone(u)
    BY <1>5, <1>6 DEF HandleDuplicate
  <2>2. \A n, p \in Node : \A f \in Finding :
            t \in ThreadsOf(p) /\ Handles(t, f) => Covered(n, f, p)'
    BY <1>6, <2>1, DuplicateCovered, ThreadFacts
  <2>3. QED BY <1>2, <2>1, <2>2
<1>7. CASE HandleRecord(t)
  <2>1. \A u \in Thread \ {t} : LeftAlone(u)
    <3>1. CASE Goto(t, "record", "loop") /\ Iterate(t) /\ UNCHANGED <<job, peer>>
      <4>1. \A u \in Thread \ {t} : pc'[u] = pc[u] /\ iter'[u] = iter[u]
        BY <3>1 DEF Goto, Iterate, CallInv, TypeOK
      <4>2. QED BY <3>1, <4>1 DEF LeftAlone
    <3>2. QED BY <1>5, <1>7, <3>1 DEF HandleRecord
  <2>2. ASSUME NEW f, Handles(t, f)
        PROVE  Knows(t[1], f)'
    BY <1>7, <2>2, RecordedNow DEF HandleRecord, Handles
  <2>3. \A n, p \in Node : \A f \in Finding :
            t \in ThreadsOf(p) /\ Handles(t, f) => Covered(n, f, p)'
    BY <2>2, ThreadFacts DEF Covered
  <2>4. QED BY <1>2, <2>1, <2>3
<1>8. QED BY <1>4, <1>6, <1>7

(* No peer is lost in a step without faults. *)
LEMMA StepCovers ==
    ASSUME CallInv, CallInv', LoopInv, Undisturbed, late = {}, DuplicateIsKnown, [Next]_vars
    PROVE  CoverageGrows
<1>0. StepKind
  BY StepKinds
<1>1. ASSUME NEW s, \A u \in Thread \ {s} : LeftAlone(u),
             s \in Thread => pc[s] \notin Handling \cup Looping
      PROVE  CoverageGrows
  <2>1. \A f : s \in Thread => ~Handles(s, f)
    BY <1>1 DEF Handles
  <2>2. \A f, p : s \in Thread => ~Forwards(s, f, p)
    BY <1>1 DEF Forwards, Looping
  <2>3. \A n \in Node : s \in ThreadsOf(n) => s \in Thread
    BY DEF ThreadsOf, Thread
  <2>4. QED BY <1>0, <1>1, <2>1, <2>2, <2>3, CoverageStill
<1>2. ASSUME NEW n \in Node, CreateFinding(n) \/ ShareFinding(n)
      PROVE  CoverageGrows
  <2> DEFINE m == MainOf(n)
  <2>1. /\ pc[m] \in {"idle", "share"} /\ m \in Thread /\ UNCHANGED peer
        /\ \A u \in Thread \ {m} : pc'[u] = pc[u] /\ job'[u] = job[u] /\ iter'[u] = iter[u]
    BY <1>2, ThreadFacts DEF CreateFinding, ShareFinding, Goto, Iterate, CallInv, TypeOK
  <2>2. \A u \in Thread \ {m} : LeftAlone(u)
    BY <2>1 DEF LeftAlone
  <2>3. QED BY <1>1, <2>1, <2>2 DEF Handling, Looping
<1>3. ASSUME NEW n \in Node, SkipShare(n)
      PROVE  CoverageGrows
  <2>1. pc[MainOf(n)] = "share" /\ MainOf(n) \in Thread /\ Finish(MainOf(n))
    BY <1>3, ThreadFacts DEF SkipShare
  <2>2. \A u \in Thread \ {MainOf(n)} : LeftAlone(u)
    BY <2>1, FinishFacts DEF LeftAlone, Busy
  <2>3. QED BY <1>1, <2>1, <2>2 DEF Handling, Looping
<1>4. CASE UNCHANGED <<pc, job, iter, peer>>
  <2>1. \A u \in Thread \ {NoThread} : LeftAlone(u)
    BY <1>4 DEF LeftAlone
  <2>2. NoThread \notin Thread
    BY ThreadFacts
  <2>3. QED BY <1>1, <2>1, <2>2
<1>5. CASE UNCHANGED vars \/ \E n \in Node : CreateRejected(n)
  BY <1>4, <1>5 DEF vars, CreateRejected
<1>6. ASSUME NEW t \in Thread,
             \/ \E p \in Node : CallPeer(t, p) \/ SkipSender(t, p)
             \/ IterationEnds(t)
             \/ \E u \in Thread : Dispatch(t, u)
      PROVE  CoverageGrows
  BY <1>0, <1>6, LoopCovers
<1>7. ASSUME NEW t \in Thread,
             HandleDuplicate(t) \/ HandleNew(t) \/ HandleMark(t) \/ HandleRecord(t)
      PROVE  CoverageGrows
  BY <1>0, <1>7, HandleCovers
<1>8. QED BY <1>2, <1>3, <1>5, <1>6, <1>7, UndisturbedSteps

(* What is spread stays so. *)
LEMMA SpreadStays ==
    ASSUME CoverageGrows, NEW f \in Finding, Spread(f)
    PROVE  Spread(f)'
<1>1. f.origin \in Node /\ Peers[f.origin] \subseteq Node
  BY PeersAssumption DEF Finding
<1>2. \A p \in Peers[f.origin] : Covered(f.origin, f, p)'
  BY <1>1 DEF Spread, CoverageGrows
<1>3. QED BY <1>2 DEF Spread

(* The loop over the clients has a call ahead to each peer when it begins. *)
LEMMA IterateForwards ==
    ASSUME CallInv, LoopInv, Undisturbed, NEW t \in Thread, Iterate(t), UNCHANGED job,
           job[t] # NoJob, pc'[t] = "loop", NEW f, job[t].finding = f,
           NEW p \in Peers[t[1]], p # job[t].sender
    PROVE  Covered(t[1], f, p)'
<1>1. iter'[t].todo = clients[t[1]]
  BY DEF Iterate, CallInv, TypeOK
<1>2. clients[t[1]] = Peers[t[1]] /\ t \in ThreadsOf(t[1])
  BY ThreadFacts DEF LoopInv, SteadyClients, Undisturbed, NoFaults
<1>3. Forwards(t, f, p)'
  BY <1>1, <1>2 DEF Forwards, Looping
<1>4. QED BY <1>2, <1>3 DEF Covered, ThreadsOf

(* Two findings with an id of which one is committed and the other under way are *)
(* one. *)
LEMMA SameFinding ==
    ASSUME ChainInv, IdInv, DistinctIds, NEW t \in Thread, job[t] # NoJob,
           NEW n \in Node, NEW f \in findings[n], FindingId(f) = FindingId(job[t].finding)
    PROVE  job[t].finding = f
<1>1. job[t] \in Job
  BY DEF ChainInv, CallInv, TypeOK
<1>2. job[t].finding.origin \in Node
  BY <1>1, JobFacts DEF Finding
<1>3. job[t].finding \in findings[job[t].finding.origin]
  BY DEF ChainInv, Chain, ThreadFits, Committed
<1>4. QED BY <1>2, <1>3, UniqueIds

(* The id of a new finding is in no cache of its switch. *)
LEMMA NewIdUnseen ==
    ASSUME ChainInv, KnownInv, DistinctIds, NEW n \in Node, NEW f \in Finding, Creates(n, f)
    PROVE  ~HasSeen(seen[n], FindingId(f))
<1> SUFFICES ASSUME HasSeen(seen[n], FindingId(f)) PROVE FALSE
  OBVIOUS
<1>1. PICK g \in Finding : FindingId(g) = FindingId(f) /\ Has(n, g)
  BY DEF KnownInv, SeenIsKnown
<1>2. g.origin \in Node /\ g \in findings[g.origin]
  BY <1>1, HasCommitted DEF KnownInv
<1>3. FindingId(f) \in Settled[g.origin] + 1 .. LastId[g.origin]
  BY <1>1, <1>2 DEF KnownInv, IdInv
<1>4. FindingId(f) \in Settled[n] + 1 .. LastId[n]
  <2>1. FindingId(f) <= LastId[n] /\ ~(FindingId(f) <= Settled[n])
    BY DEF Creates, IdTaken
  <2>2. FindingId(f) \in Nat /\ LastId[n] \in Nat /\ Settled[n] \in Nat
    BY BoundAssumption DEF Finding, Id, FindingId
  <2>3. QED BY <2>1, <2>2
<1>5. g.origin = n
  BY <1>2, <1>3, <1>4 DEF DistinctIds
<1>6. QED BY <1>1, <1>2, <1>5 DEF Creates, IdTaken

(* u has the job it had, at share if it was there, or none. *)
Calm(u) == job'[u] = NoJob \/ (job'[u] = job[u] /\ (pc'[u] = "share" <=> pc[u] = "share"))

(* What is shared, travels or is recorded stays spread, if the thread s and what *)
(* is new in caches and journals fit. *)
LEMMA ForwardStill ==
    ASSUME CallInv', ForwardInv, late' = {}, CoverageGrows,
           NEW s, \A u \in Thread \ {s} : Calm(u),
           s \in Thread /\ pc'[s] = "share" =>
               job'[s].sender = s[1] /\ job'[s].finding.origin = s[1],
           s \in Thread /\ pc'[s] # "share" =>
               \A f \in Finding : job'[s] # NoJob /\ job'[s].finding = f => Spread(f)',
           \A n \in Node : \A f \in Finding :
               f \in findings'[n] /\ HasSeen(seen'[n], FindingId(f)) =>
                   (f \in findings[n] /\ HasSeen(seen[n], FindingId(f))) \/ Spread(f)',
           \A n \in Node : \A i \in DOMAIN events'[n] : \A f \in Finding :
               events'[n][i].finding = f /\ events'[n][i].ttl > 1 =>
                   \/ i \in DOMAIN events[n] /\ events'[n][i] = events[n][i]
                   \/ \A p \in Peers[n] : p # events'[n][i].sender => Covered(n, f, p)'
    PROVE  ForwardInv'
<1>1. SharedSpread'
  <2>1. ASSUME NEW n \in Node, NEW f \in Finding, f \in findings'[n],
               HasSeen(seen'[n], FindingId(f))
        PROVE  Spread(f)'
    BY <2>1, SpreadStays DEF ForwardInv, SharedSpread
  <2>2. QED BY <2>1 DEF SharedSpread, FindingId
<1>2. TravelSpread'
  <2>1. ASSUME NEW t \in Thread, NEW f \in Finding,
               job'[t] # NoJob, pc'[t] # "share", job'[t].finding = f
        PROVE  Spread(f)'
    <3>1. CASE t = s
      BY <2>1, <3>1
    <3>2. CASE t # s
      <4>1. job[t] # NoJob /\ pc[t] # "share" /\ job[t].finding = f
        BY <2>1, <3>2 DEF Calm
      <4>2. QED BY <4>1, SpreadStays DEF ForwardInv, TravelSpread
    <3>3. QED BY <3>1, <3>2
  <2>2. QED BY <2>1 DEF TravelSpread
<1>3. RowsSpread'
  <2>1. ASSUME NEW n \in Node, NEW i \in DOMAIN events'[n], NEW f \in Finding,
               events'[n][i].finding = f, events'[n][i].ttl > 1,
               NEW p \in Peers[n], p # events'[n][i].sender
        PROVE  Covered(n, f, p)'
    <3>1. CASE i \in DOMAIN events[n] /\ events'[n][i] = events[n][i]
      <4>1. Covered(n, f, p) /\ p \in Node
        BY <2>1, <3>1, PeersAssumption DEF ForwardInv, RowsSpread
      <4>2. QED BY <4>1 DEF CoverageGrows
    <3>2. QED BY <2>1, <3>1
  <2>2. QED BY <2>1 DEF RowsSpread
<1>4. OwnShared'
  <2>1. ASSUME NEW t \in Thread, pc'[t] = "share"
        PROVE  job'[t].sender = t[1] /\ job'[t].finding.origin = t[1]
    <3>1. CASE t = s
      BY <2>1, <3>1
    <3>2. CASE t # s
      <4>1. job'[t] # NoJob
        BY <2>1 DEF CallInv, JobsFit, Busy
      <4>2. job'[t] = job[t] /\ pc[t] = "share"
        BY <2>1, <3>2, <4>1 DEF Calm
      <4>3. QED BY <4>2 DEF ForwardInv, OwnShared
    <3>3. QED BY <3>1, <3>2
  <2>2. QED BY <2>1 DEF OwnShared
<1>5. QED BY <1>1, <1>2, <1>3, <1>4 DEF ForwardInv

(* A step that changes no journal and no cache and begins nothing. *)
LEMMA ForwardStays ==
    ASSUME CallInv', ForwardInv, CoverageGrows, UNCHANGED <<late, seen, journal>>,
           \A u \in Thread : Calm(u)
    PROVE  ForwardInv'
<1>1. NoThread \notin Thread
  BY ThreadFacts
<1>2. late' = {} /\ seen' = seen /\ events' = events /\ findings' = findings
  BY DEF ForwardInv, journal
<1>3. QED BY <1>1, <1>2, ForwardStill

(* Marking the finding of t, which is spread. *)
LEMMA ForwardMarked ==
    ASSUME ChainInv, ChainInv', KnownInv, DistinctIds, ForwardInv, CoverageGrows,
           UNCHANGED <<late, journal>>,
           NEW t \in Thread, job[t] # NoJob, job' = job, Marks(t),
           pc'[t] # "share", \A u \in Thread \ {t} : pc'[u] = pc[u],
           \A f \in Finding : f = job[t].finding => Spread(f)'
    PROVE  ForwardInv'
<1>1. ASSUME NEW n \in Node, NEW f \in Finding, f \in findings'[n], HasSeen(seen'[n], FindingId(f))
      PROVE  (f \in findings[n] /\ HasSeen(seen[n], FindingId(f))) \/ Spread(f)'
  <2>1. f \in findings[n]
    BY <1>1 DEF journal
  <2>2. \/ HasSeen(seen[n], FindingId(f))
        \/ FindingId(f) = FindingId(job[t].finding)
    BY <1>1, MarksOnly DEF ChainInv
  <2>3. CASE FindingId(f) = FindingId(job[t].finding)
    <3>1. f = job[t].finding
      BY <2>1, <2>3, SameFinding DEF KnownInv
    <3>2. QED BY <3>1
  <2>4. QED BY <2>1, <2>2, <2>3
<1>2. \A u \in Thread \ {t} : Calm(u)
  BY DEF Calm
<1>3. late' = {} /\ events' = events /\ CallInv'
  BY DEF ForwardInv, journal, ChainInv
<1>4. QED BY <1>1, <1>2, <1>3, ForwardStill

(* Every step keeps what is under way spread. *)
LEMMA StepKeepsForwardInv ==
    ASSUME Undisturbed, DistinctIds, ChainInv, ChainInv', LoopInv, KnownInv, DuplicateIsKnown,
           ForwardInv, [Next]_vars
    PROVE  ForwardInv'
<1>0. /\ CallInv /\ CallInv' /\ StepKind /\ CoverageGrows /\ late = {}
  BY StepKinds, StepCovers DEF ChainInv, ForwardInv
<1>1. CASE UNCHANGED vars \/ \E n \in Node : CreateRejected(n)
  BY <1>0, <1>1, ForwardStays DEF vars, CreateRejected, Calm, journal
<1>2. ASSUME NEW n \in Node, CreateFinding(n)
      PROVE  ForwardInv'
  <2> DEFINE m == MainOf(n)
  <2>1. PICK f \in Finding : Creates(n, f)
    BY <1>0, <1>2, CreateKind
  <2>2. /\ m \in Thread /\ m[1] = n /\ pc'[m] = "share" /\ f.origin = n
        /\ findings' = [findings EXCEPT ![n] = @ \cup {f}]
        /\ seen' = seen /\ events' = events
        /\ job'[m].finding = f
    BY <2>1, ThreadFacts DEF Creates
  <2>3. /\ \A u \in Thread \ {m} : pc'[u] = pc[u] /\ job'[u] = job[u]
        /\ job'[m].sender = n /\ late' = {}
    BY <1>0, <1>2, <2>2 DEF CreateFinding, Goto, CallInv, TypeOK
  <2>4. ASSUME NEW k \in Node, NEW g \in Finding, g \in findings'[k], HasSeen(seen'[k], FindingId(g))
        PROVE  g \in findings[k] /\ HasSeen(seen[k], FindingId(g))
    <3>1. ~HasSeen(seen[n], FindingId(f))
      BY <2>1, NewIdUnseen
    <3>2. g \in findings[k] \/ (k = n /\ g = f)
      BY <1>0, <2>2, <2>4 DEF CallInv, TypeOK
    <3>3. QED BY <2>2, <2>4, <3>1, <3>2
  <2>5. \A u \in Thread \ {m} : Calm(u)
    BY <2>3 DEF Calm
  <2> HIDE DEF m
  <2>6. QED BY <1>0, <2>2, <2>3, <2>4, <2>5, ForwardStill
<1>3. ASSUME NEW n \in Node, ShareFinding(n)
      PROVE  ForwardInv'
  <2> DEFINE m == MainOf(n)
  <2>1. /\ m \in Thread /\ m[1] = n /\ pc[m] = "share" /\ pc'[m] = "loop"
        /\ Iterate(m) /\ job' = job /\ Marks(m) /\ UNCHANGED <<late, journal>>
        /\ \A u \in Thread \ {m} : pc'[u] = pc[u]
    <3>1. m \in Thread /\ m[1] = n
      BY ThreadFacts
    <3>2. /\ Goto(m, "share", "loop") /\ Iterate(m) /\ job' = job
          /\ UNCHANGED <<late, journal>>
          /\ seen' = [seen EXCEPT ![n] = MarkSeen(@, FindingId(job[m].finding), MaxSeen)]
      BY <1>3 DEF ShareFinding
    <3>3. Marks(m)
      BY <3>1, <3>2 DEF Marks
    <3>4. QED BY <1>0, <3>1, <3>2, <3>3 DEF Goto, CallInv, TypeOK
  <2>2. job[m] # NoJob /\ job[m].sender = n /\ job[m].finding.origin = n
    BY <1>0, <2>1 DEF CallInv, JobsFit, Busy, ForwardInv, OwnShared
  <2>3. ASSUME NEW f \in Finding, f = job[m].finding
        PROVE  Spread(f)'
    <3>1. ASSUME NEW p \in Peers[n]
          PROVE  Covered(n, f, p)'
      <4>1. p # job[m].sender
        BY <2>2, PeersAssumption
      <4>2. Covered(m[1], f, p)'
        BY <1>0, <2>1, <2>2, <2>3, <4>1, IterateForwards
      <4>3. QED BY <2>1, <4>2
    <3>2. f.origin = n
      BY <2>2, <2>3
    <3>3. QED BY <3>1, <3>2 DEF Spread
  <2> HIDE DEF m
  <2>4. QED BY <1>0, <2>1, <2>2, <2>3, ForwardMarked
<1>4. ASSUME NEW n \in Node, SkipShare(n)
      PROVE  ForwardInv'
  <2>1. pc[MainOf(n)] = "share" /\ MainOf(n) \in Thread /\ Finish(MainOf(n))
        /\ UNCHANGED <<late, seen, journal>>
    BY <1>4, ThreadFacts DEF SkipShare
  <2>2. \A u \in Thread : Calm(u)
    BY <1>0, <2>1, FinishFacts DEF Calm, Busy
  <2>3. QED BY <1>0, <2>1, <2>2, ForwardStays
<1>5. ASSUME NEW t \in Thread, NEW p \in Node, CallPeer(t, p) \/ SkipSender(t, p)
      PROVE  ForwardInv'
  <2>1. /\ UNCHANGED <<late, seen, journal, job>>
        /\ \A u \in Thread : pc'[u] = pc[u] \/ (u = t /\ pc[u] = "loop" /\ pc'[u] = "call")
    BY <1>0, <1>5 DEF CallPeer, SkipSender, Goto, CallInv, TypeOK
  <2>2. \A u \in Thread : Calm(u)
    BY <2>1 DEF Calm
  <2>3. QED BY <1>0, <2>1, <2>2, ForwardStays
<1>6. ASSUME NEW t \in Thread, IterationEnds(t) \/ HandleDuplicate(t)
      PROVE  ForwardInv'
  <2>1. pc[t] \in {"loop", "check"} /\ Finish(t) /\ UNCHANGED <<late, seen, journal>>
    BY <1>6 DEF IterationEnds, HandleDuplicate
  <2>2. \A u \in Thread : Calm(u)
    BY <1>0, <2>1, FinishFacts DEF Calm, Busy, Looping, Handling
  <2>3. QED BY <1>0, <2>1, <2>2, ForwardStays
<1>7. ASSUME NEW t \in Thread, NEW u \in Thread, Dispatch(t, u)
      PROVE  ForwardInv'
  <2>1. /\ pc[t] = "call" /\ pc'[t] = "wait" /\ pc'[u] = "check" /\ peer[t] \in Node /\ u # t
        /\ \A v \in Thread \ {t, u} : pc'[v] = pc[v]
        /\ UNCHANGED <<late, seen, journal>> /\ Serve(u, Request(t), t)
    BY <1>0, <1>7 DEF Dispatch, CallInv, TypeOK, JobsFit
  <2>2. job'[u] = ServedJob(Request(t), t) /\ \A v \in Thread \ {u} : job'[v] = job[v]
    BY <1>0, <2>1 DEF Serve, ServedJob, CallInv, TypeOK
  <2>3. job'[u].finding = job[t].finding /\ job[t] # NoJob
    BY <1>0, <2>1, <2>2 DEF ServedJob, Request, CallInv, JobsFit, Busy, Looping
  <2>4. \A v \in Thread \ {u} : Calm(v)
    BY <2>1, <2>2 DEF Calm
  <2>5. ASSUME NEW f \in Finding, job'[u].finding = f
        PROVE  Spread(f)'
    <3>1. Spread(f)
      BY <2>1, <2>3, <2>5 DEF ForwardInv, TravelSpread
    <3>2. QED BY <1>0, <3>1, SpreadStays
  <2>6. late' = {} /\ seen' = seen /\ events' = events /\ findings' = findings
    BY <1>0, <2>1 DEF journal
  <2>7. QED BY <1>0, <2>1, <2>4, <2>5, <2>6, ForwardStill
<1>8. ASSUME NEW t \in Thread, HandleNew(t)
      PROVE  ForwardInv'
  <2>1. /\ UNCHANGED <<late, seen, journal, job>>
        /\ \A u \in Thread : pc'[u] = pc[u] \/ (u = t /\ pc[u] = "check" /\ pc'[u] = "mark")
    BY <1>0, <1>8 DEF HandleNew, Goto, CallInv, TypeOK
  <2>2. \A u \in Thread : Calm(u)
    BY <2>1 DEF Calm
  <2>3. QED BY <1>0, <2>1, <2>2, ForwardStays
<1>9. ASSUME NEW t \in Thread, HandleMark(t)
      PROVE  ForwardInv'
  <2>1. /\ pc[t] = "mark" /\ pc'[t] = "record" /\ job' = job /\ Marks(t)
        /\ UNCHANGED <<late, journal>> /\ \A u \in Thread \ {t} : pc'[u] = pc[u]
    BY <1>0, <1>9 DEF HandleMark, Marks, Goto, CallInv, TypeOK
  <2>2. job[t] # NoJob
    BY <1>0, <2>1 DEF CallInv, JobsFit, Busy, Handling
  <2>3. ASSUME NEW f \in Finding, f = job[t].finding
        PROVE  Spread(f)'
    <3>1. Spread(f)
      BY <2>1, <2>2, <2>3 DEF ForwardInv, TravelSpread
    <3>2. QED BY <1>0, <3>1, SpreadStays
  <2>4. QED BY <1>0, <2>1, <2>2, <2>3, ForwardMarked
<1>10. ASSUME NEW t \in Thread, HandleRecord(t)
       PROVE  ForwardInv'
  <2> DEFINE n == t[1]
             row == [finding |-> job[t].finding, sender |-> job[t].sender, ttl |-> job[t].ttl]
  <2>1. /\ pc[t] = "record" /\ UNCHANGED <<late, seen, findings>> /\ n \in Node /\ job[t] # NoJob
        /\ events' = [events EXCEPT ![n] = Append(@, row)]
        /\ IF Regossips(job[t].ttl)
           THEN Goto(t, "record", "loop") /\ Iterate(t) /\ UNCHANGED <<job, peer>>
           ELSE Finish(t)
    BY <1>0, <1>10, ThreadFacts
       DEF HandleRecord, RecordRow, CallInv, JobsFit, Busy, Handling
  <2>2. row.finding = job[t].finding /\ row.sender = job[t].sender /\ row.ttl = job[t].ttl
    OBVIOUS
  <2>3. pc'[t] # "share" /\ (job'[t] = NoJob \/ job'[t] = job[t]) /\ \A u \in Thread \ {t} : Calm(u)
    <3>1. CASE Goto(t, "record", "loop") /\ UNCHANGED <<job, peer>>
      BY <1>0, <3>1 DEF Goto, Calm, CallInv, TypeOK
    <3>2. CASE Finish(t)
      BY <1>0, <2>1, <3>2, FinishFacts DEF Calm, Busy, Handling
    <3>3. QED BY <2>1, <3>1, <3>2
  <2>4. ASSUME NEW f \in Finding, job[t].finding = f, row.ttl > 1, NEW p \in Peers[n], p # row.sender
        PROVE  Covered(n, f, p)'
    <3>1. Goto(t, "record", "loop") /\ Iterate(t) /\ UNCHANGED job
      BY <2>1, <2>2, <2>4 DEF Regossips
    <3>2. pc'[t] = "loop"
      BY <1>0, <3>1 DEF Goto, CallInv, TypeOK
    <3>3. QED BY <1>0, <2>1, <2>2, <2>4, <3>1, <3>2, IterateForwards
  <2>5. ASSUME NEW f \in Finding, job'[t] # NoJob, job'[t].finding = f
        PROVE  Spread(f)'
    <3>1. Spread(f)
      BY <2>1, <2>3, <2>5 DEF ForwardInv, TravelSpread
    <3>2. QED BY <1>0, <3>1, SpreadStays
  <2> HIDE DEF row, n
  <2>6. \A m \in Node : \A i \in DOMAIN events'[m] :
            \/ i \in DOMAIN events[m] /\ events'[m][i] = events[m][i]
            \/ m = n /\ events'[m][i] = row
    BY <1>0, <2>1 DEF CallInv, TypeOK
  <2>7. ASSUME NEW m \in Node, NEW i \in DOMAIN events'[m], NEW f \in Finding,
               events'[m][i].finding = f, events'[m][i].ttl > 1
        PROVE  \/ i \in DOMAIN events[m] /\ events'[m][i] = events[m][i]
               \/ \A p \in Peers[m] : p # events'[m][i].sender => Covered(m, f, p)'
    <3>1. CASE m = n /\ events'[m][i] = row
      BY <2>2, <2>4, <2>7, <3>1
    <3>2. QED BY <2>6, <3>1
  <2>8. late' = {} /\ seen' = seen /\ findings' = findings
    BY <1>0, <2>1
  <2>9. QED BY <1>0, <2>3, <2>5, <2>7, <2>8, ForwardStill
<1>11. QED
  BY <1>0, <1>1, <1>2, <1>3, <1>4, <1>5, <1>6, <1>7, <1>8, <1>9, <1>10, UndisturbedSteps DEF ChainInv

(* When everything has come to rest, a finding its origin has shared, or that a *)
(* switch has taken with hops left, has got to every peer but the sender, in any *)
(* network where no call, journal or daemon fails and ids are unique. *)
THEOREM ForwardsAll ==
    ASSUME Undisturbed, DistinctIds
    PROVE  Spec => []ForwardingComplete
<1> DEFINE Inv == ChainInv /\ LoopInv /\ KnownInv
<1>1. Spec => []Inv /\ []DuplicateIsKnown
  BY KnownInvariance, DuplicatesKnown, PTL DEF Undisturbed
<1>2. Init => ForwardInv
  BY DEF Init, ForwardInv, SharedSpread, TravelSpread, RowsSpread, OwnShared
<1>3. Inv /\ Inv' /\ DuplicateIsKnown /\ ForwardInv /\ [Next]_vars => ForwardInv'
  BY StepKeepsForwardInv
<1>4. Inv /\ ForwardInv => ForwardingComplete
  <2> SUFFICES ASSUME Inv, ForwardInv, Quiescent, NEW n \in Node
               PROVE  /\ \A f \in findings[n] :
                             HasSeen(seen[n], FindingId(f)) => \A p \in Peers[n] : Knows(p, f)
                      /\ \A i \in DOMAIN events[n] :
                             events[n][i].ttl > 1 =>
                                 \A p \in Peers[n] \ {events[n][i].sender} :
                                     Knows(p, events[n][i].finding)
    BY DEF ForwardingComplete
  <2>1. \A t \in Thread : job[t] = NoJob
    BY DEF Quiescent, ChainInv, CallInv, JobsFit, Busy, Looping, Handling
  <2>2. ASSUME NEW m \in Node, NEW f, NEW p \in Node, Covered(m, f, p)
        PROVE  Knows(p, f)
    BY <2>1, <2>2 DEF Covered, Handles, Forwards, ThreadsOf, Thread
  <2>3. Peers[n] \subseteq Node
    BY PeersAssumption
  <2>4. \A f \in findings[n] :
            HasSeen(seen[n], FindingId(f)) => \A p \in Peers[n] : Knows(p, f)
    <3>1. \A f \in findings[n] : f \in Finding /\ f.origin = n
      BY DEF ChainInv, CallInv, TypeOK, KnownInv, IdInv
    <3>2. QED BY <2>2, <2>3, <3>1 DEF ForwardInv, SharedSpread, Spread
  <2>5. \A i \in DOMAIN events[n] : events[n][i].finding \in Finding
    <3>1. \A i \in DOMAIN events[n] : events[n][i] \in Row
      BY DEF ChainInv, CallInv, TypeOK
    <3>2. QED BY <3>1 DEF Row
  <2>6. \A i \in DOMAIN events[n] : events[n][i].ttl > 1 =>
            \A p \in Peers[n] \ {events[n][i].sender} : Knows(p, events[n][i].finding)
    BY <2>2, <2>3, <2>5 DEF ForwardInv, RowsSpread
  <2>7. QED BY <2>4, <2>6
<1> HIDE DEF Inv
<1>5. QED BY <1>1, <1>2, <1>3, <1>4, PTL DEF Spec

============================================================================
