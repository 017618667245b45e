--------------------------- MODULE FindingGossip ---------------------------
(***************************************************************************)
(* TTL-limited gossip of findings between the daemons of neighbouring      *)
(* switches, thread by thread.                                             *)
(*                                                                         *)
(* A daemon n has the threads <<n, Main>>, which runs the poll loop, and   *)
(* <<n, w>> for w in Worker, the pool that serves its gRPC server.  Every  *)
(* call is synchronous: the thread that gossips a finding waits for the    *)
(* peer's handler, which may gossip in its turn.  Modelled here:           *)
(*   - the creation of findings, with the ids store/findings.py gives them;*)
(*   - share_finding, handle_finding and _gossip_finding of PeerManager;   *)
(*   - the client's deadline and lost calls (Lossy), and a journal that   *)
(*     refuses a write (Locked);                                           *)
(*   - refresh_peers running beside the handlers (Churn);                  *)
(*   - a daemon killed and started again (Killed).                         *)
(* All ids are those of one UTC day: FindingId is the number after the     *)
(* date, the only part that can make two ids of a day differ.              *)
(***************************************************************************)
EXTENDS SeenFindings, FiniteSets

CONSTANTS
    Node,        \* switches
    Peers,       \* Peers[n]: the hostnames discovery can find for n
    Worker,      \* threads of a server's pool (max_workers)
    Main,        \* the poll-loop thread
    NoThread, NoJob, NoPeer,
    FindingTtl,  \* config.peer.finding_ttl
    MaxSeen,     \* _MAX_SEEN_FINDINGS
    MaxSeq,      \* bound on the numbers of ids
    Settled,     \* Settled[n]: ids n drew earlier in the day, for findings long settled
    LastId,      \* bound: LastId[n] is the last id a process of n draws
    MaxBoots,    \* bound: starts of a daemon in Killed
    Killed,      \* bound: the switches whose daemon is killed and started again
    Lossy,       \* bound: the switches whose calls may fail
    MaxLate,     \* bound: requests that a server serves although the client gave up
    Locked,      \* bound: the switches whose journal may refuse a write
    Churn        \* bound: the switches whose refresh_peers adds and removes clients

ASSUME NodeAssumption == IsFiniteSet(Node)
ASSUME PeersAssumption ==
    Peers \in [Node -> SUBSET Node] /\ \A n \in Node : n \notin Peers[n]
ASSUME ThreadAssumption ==
    /\ Main \notin Worker
    /\ NoThread \notin Node \X (Worker \cup {Main})
    /\ NoPeer \notin Node
ASSUME WorkerAssumption == IsFiniteSet(Worker)
ASSUME BoundAssumption ==
    /\ FindingTtl \in Nat
    /\ MaxSeen \in Nat \ {0}
    /\ MaxSeq \in Nat
    /\ MaxBoots \in Nat \ {0}
    /\ MaxLate \in Nat
    /\ Settled \in [Node -> 0 .. MaxSeq]
    /\ LastId \in [Node -> 0 .. MaxSeq]
    /\ Killed \cup Lossy \cup Locked \cup Churn \subseteq Node

Thread == Node \X (Worker \cup {Main})

MainOf(n) == <<n, Main>>

WorkersOf(n) == {n} \X Worker

ThreadsOf(n) == {n} \X (Worker \cup {Main})

Id == 1 .. MaxSeq

(* A finding in itself, whatever id the code gives it: the process that *)
(* created it and its number there. *)
Finding == [origin : Node, boot : 1 .. MaxBoots, seq : Id]

FindingId(f) == f.seq

(* What a thread works on: for a worker the request it serves, for Main its *)
(* own finding, as if n itself had sent it with one more hop to go. *)
Job == [finding : Finding, ttl : 0 .. FindingTtl + 1, sender : Node,
        caller : Thread \cup {NoThread}]

ASSUME JobAssumption == NoJob \notin Job

(* A request whose client no longer waits for it. *)
Late == [to : Node, finding : Finding, ttl : 0 .. FindingTtl, sender : Node]

(* The peer_finding events of the journal (raw_data of handle_finding). *)
Row == [finding : Finding, sender : Node, ttl : 0 .. FindingTtl]

(* An iterator over the dict _clients: the keys ahead, the size of the dict *)
(* when it was made, and how many keys it may still yield. *)
Iterator == [todo : SUBSET Node, size : Nat, left : Nat]

NoIteration == [todo |-> {}, size |-> 0, left |-> 0]

PC == {"idle", "share", "check", "mark", "record", "loop", "call", "wait",
       "refresh", "delete"}

VARIABLES
    clients,   \* n -> keys of _clients
    seen,      \* n -> _seen_finding_ids, oldest first
    events,    \* n -> its peer_finding events, in the order of their ids
    findings,  \* n -> the findings table: what n created itself
    counter,   \* n -> last value drawn from _counter
    boot,      \* n -> how many times n has been started
    pc, job, iter,   \* per thread
    peer,      \* thread -> the peer it calls, or removes
    late       \* requests given up by their client but not by the server

vars == <<clients, seen, events, findings, counter, boot, pc, job, iter, peer, late>>

journal == <<events, findings>>

----------------------------------------------------------------------------

Init ==
    /\ clients = Peers
    /\ seen = [n \in Node |-> <<>>]
    /\ events = [n \in Node |-> <<>>]
    /\ findings = [n \in Node |-> {}]
    /\ counter = Settled
    /\ boot = [n \in Node |-> 1]
    /\ pc = [t \in Thread |-> "idle"]
    /\ job = [t \in Thread |-> NoJob]
    /\ iter = [t \in Thread |-> NoIteration]
    /\ peer = [t \in Thread |-> NoPeer]
    /\ late = {}

Goto(t, from, to) ==
    /\ pc[t] = from
    /\ pc' = [pc EXCEPT ![t] = to]

(* The threads in S get no answer any more: whoever serves them goes on. *)
Orphan(S) ==
    [u \in Thread |->
        IF job[u] # NoJob /\ job[u].caller \in S
        THEN [job[u] EXCEPT !.caller = NoThread]
        ELSE job[u]]

(* t returns, and so does the call of the thread that waits for it: the *)
(* client ignores what the answer says. *)
Finish(t) ==
    LET caller == job[t].caller
    IN  /\ pc' = [u \in Thread |-> CASE u = t -> "idle"
                                     [] u = caller -> "loop"
                                     [] OTHER -> pc[u]]
        /\ peer' = [u \in Thread |-> IF u \in {t, caller} THEN NoPeer ELSE peer[u]]
        /\ job' = [job EXCEPT ![t] = NoJob]
        /\ iter' = [iter EXCEPT ![t] = NoIteration]

Iterate(t) ==
    LET size == Cardinality(clients[t[1]])
    IN  iter' = [iter EXCEPT ![t] = [todo |-> clients[t[1]], size |-> size, left |-> size]]

----------------------------------------------------------------------------
(* The poll loop creates a finding and shares it. *)

NextId(n) == counter[n] + 1

IdTaken(n, id) == id <= Settled[n] \/ \E f \in findings[n] : FindingId(f) = id

(* fault: the finding is gossiped before it is committed *)
CreateFindingUncommitted(n) ==
    LET f == [origin |-> n, boot |-> boot[n], seq |-> NextId(n)]
    IN  /\ counter[n] < LastId[n]
        /\ ~IdTaken(n, NextId(n))
        /\ Goto(MainOf(n), "idle", "share")
        /\ counter' = [counter EXCEPT ![n] = NextId(n)]
        /\ job' = [job EXCEPT ![MainOf(n)] =
                      [finding |-> f, ttl |-> FindingTtl + 1, sender |-> n, caller |-> NoThread]]
        /\ UNCHANGED <<clients, seen, journal, boot, iter, peer, late>>

(* FindingsStore.create: the insert is committed. *)
CreateFinding(n) ==
    LET f == [origin |-> n, boot |-> boot[n], seq |-> NextId(n)]
    IN  /\ counter[n] < LastId[n]
        /\ ~IdTaken(n, NextId(n))
        /\ Goto(MainOf(n), "idle", "share")
        /\ counter' = [counter EXCEPT ![n] = NextId(n)]
        /\ findings' = [findings EXCEPT ![n] = @ \cup {f}]
        /\ job' = [job EXCEPT ![MainOf(n)] =
                      [finding |-> f, ttl |-> FindingTtl + 1, sender |-> n, caller |-> NoThread]]
        /\ UNCHANGED <<clients, seen, events, boot, iter, peer, late>>

(* The id is in the table already: UNIQUE raises, and the poll cycle is *)
(* abandoned without sharing anything. *)
CreateRejected(n) ==
    /\ pc[MainOf(n)] = "idle"
    /\ counter[n] < LastId[n]
    /\ IdTaken(n, NextId(n))
    /\ counter' = [counter EXCEPT ![n] = NextId(n)]
    /\ UNCHANGED <<clients, seen, journal, boot, pc, job, iter, peer, late>>

(* fault: the origin does not mark its own finding *)
ShareFindingUnmarked(n) ==
    /\ Goto(MainOf(n), "share", "loop")
    /\ Iterate(MainOf(n))
    /\ UNCHANGED <<clients, seen, journal, counter, boot, job, peer, late>>

ShareFinding(n) ==
    LET t == MainOf(n)
    IN  /\ Goto(t, "share", "loop")
        /\ seen' = [seen EXCEPT ![n] = MarkSeen(@, FindingId(job[t].finding), MaxSeen)]
        /\ Iterate(t)
        /\ UNCHANGED <<clients, journal, counter, boot, job, peer, late>>

(* An info finding, or one of peer_correlate, which is not shared at all. *)
SkipShare(n) ==
    /\ pc[MainOf(n)] = "share"
    /\ Finish(MainOf(n))
    /\ UNCHANGED <<clients, seen, journal, counter, boot, late>>

----------------------------------------------------------------------------
(* The loop over the clients, in share_finding and in _gossip_finding. *)

(* CPython checks the size of the dict, then whether a key is left over. *)
IteratorValid(t) ==
    /\ Cardinality(clients[t[1]]) = iter[t].size
    /\ iter[t].todo # {} => iter[t].left > 0

SkipsSender(t, p) == p = job[t].sender

(* close() has run on the channel of p, and p is still in the dict *)
ChannelClosed(n, p) == pc[MainOf(n)] = "delete" /\ peer[MainOf(n)] = p

Advance(t, p) ==
    iter' = [iter EXCEPT ![t].todo = @ \ {p}, ![t].left = @ - 1]

CallPeer(t, p) ==
    /\ IteratorValid(t)
    /\ p \in iter[t].todo
    /\ ~SkipsSender(t, p)
    /\ ~ChannelClosed(t[1], p)
    /\ Goto(t, "loop", "call")
    /\ Advance(t, p)
    /\ peer' = [peer EXCEPT ![t] = p]
    /\ UNCHANGED <<clients, seen, journal, counter, boot, job, late>>

SkipSender(t, p) ==
    /\ pc[t] = "loop"
    /\ IteratorValid(t)
    /\ p \in iter[t].todo
    /\ SkipsSender(t, p)
    /\ Advance(t, p)
    /\ UNCHANGED <<clients, seen, journal, counter, boot, pc, job, peer, late>>

IterationEnds(t) ==
    /\ pc[t] = "loop"
    /\ IteratorValid(t)
    /\ iter[t].todo = {}
    /\ Finish(t)
    /\ UNCHANGED <<clients, seen, journal, counter, boot, late>>

(* RuntimeError when the dict has changed, ValueError from a closed channel: *)
(* neither is an RpcError, so both end the handler, and the servicer answers *)
(* accepted=False. *)
IterationRaises(t) ==
    /\ pc[t] = "loop"
    /\ \/ ~IteratorValid(t)
       \/ \E p \in iter[t].todo : ~SkipsSender(t, p) /\ ChannelClosed(t[1], p)
    /\ Finish(t)
    /\ UNCHANGED <<clients, seen, journal, counter, boot, late>>

----------------------------------------------------------------------------
(* A call of PeerClient.share_finding. *)

(* fault: no hop counts *)
ForwardTtlUncounted(ttl) == ttl

(* fault: a relay passes the ttl on as it came *)
ForwardTtlKept(ttl) == IF ttl > FindingTtl THEN FindingTtl ELSE ttl

ForwardTtl(ttl) == ttl - 1

Request(t) ==
    [to |-> peer[t], finding |-> job[t].finding, ttl |-> ForwardTtl(job[t].ttl), sender |-> t[1]]

(* The worker u starts to serve the request r for the waiting thread c. *)
Serve(u, r, c) ==
    job' = [job EXCEPT ![u] = [finding |-> r.finding, ttl |-> r.ttl, sender |-> r.sender,
                               caller |-> c]]

Dispatch(t, u) ==
    /\ pc[t] = "call"
    /\ u \in WorkersOf(peer[t])
    /\ pc[u] = "idle"
    /\ pc' = [pc EXCEPT ![t] = "wait", ![u] = "check"]
    /\ Serve(u, Request(t), t)
    /\ UNCHANGED <<clients, seen, journal, counter, boot, iter, peer, late>>

(* The server did not notice that the client has gone. *)
DispatchLate(r, u) ==
    /\ r \in late
    /\ u \in WorkersOf(r.to)
    /\ Goto(u, "idle", "check")
    /\ late' = late \ {r}
    /\ Serve(u, r, NoThread)
    /\ UNCHANGED <<clients, seen, journal, counter, boot, iter, peer>>

(* fault: a failed call is made again until it succeeds *)
CallFailsRetried(t) ==
    /\ t[1] \in Lossy
    /\ pc[t] \in {"call", "wait"}
    /\ pc' = [pc EXCEPT ![t] = "call"]
    /\ job' = Orphan({t})
    /\ UNCHANGED <<clients, seen, journal, counter, boot, iter, peer, late>>

(* fault: the answer to a call that was given up still finds its thread *)
CallFailsUncancelled(t) ==
    /\ t[1] \in Lossy
    /\ pc[t] \in {"call", "wait"}
    /\ pc' = [pc EXCEPT ![t] = "loop"]
    /\ peer' = [peer EXCEPT ![t] = NoPeer]
    /\ UNCHANGED <<clients, seen, journal, counter, boot, job, iter, late>>

(* fault: a failed call ends the loop over the clients *)
CallFailsForAll(t) ==
    /\ t[1] \in Lossy
    /\ pc[t] = "call"
    /\ Finish(t)
    /\ UNCHANGED <<clients, seen, journal, counter, boot, late>>

(* The five-second deadline or a broken connection: share_finding returns *)
(* (False, False), which nobody looks at, and the request is not repeated. *)
(* The server serves it all the same if it has it. *)
CallFails(t) ==
    /\ t[1] \in Lossy
    /\ pc[t] \in {"call", "wait"}
    /\ pc' = [pc EXCEPT ![t] = "loop"]
    /\ peer' = [peer EXCEPT ![t] = NoPeer]
    /\ job' = Orphan({t})
    /\ \/ UNCHANGED late
       \/ /\ pc[t] = "call" /\ Cardinality(late) < MaxLate
          /\ late' = late \cup {Request(t)}
    /\ UNCHANGED <<clients, seen, journal, counter, boot, iter>>

----------------------------------------------------------------------------
(* handle_finding, run by a worker. *)

(* fault: a number below one that was seen counts as seen *)
AlreadySeenBelow(n, f) == \E i \in DOMAIN seen[n] : FindingId(f) <= seen[n][i]

AlreadySeen(n, f) == HasSeen(seen[n], FindingId(f))

HandleDuplicate(t) ==
    /\ pc[t] = "check"
    /\ AlreadySeen(t[1], job[t].finding)
    /\ Finish(t)
    /\ UNCHANGED <<clients, seen, journal, counter, boot, late>>

HandleNew(t) ==
    /\ Goto(t, "check", "mark")
    /\ ~AlreadySeen(t[1], job[t].finding)
    /\ UNCHANGED <<clients, seen, journal, counter, boot, job, iter, peer, late>>

(* fault: nothing is marked *)
HandleMarkNothing(t) ==
    /\ Goto(t, "mark", "record")
    /\ UNCHANGED <<clients, seen, journal, counter, boot, job, iter, peer, late>>

HandleMark(t) ==
    /\ Goto(t, "mark", "record")
    /\ seen' = [seen EXCEPT ![t[1]] = MarkSeen(@, FindingId(job[t].finding), MaxSeen)]
    /\ UNCHANGED <<clients, journal, counter, boot, job, iter, peer, late>>

(* fault: the last hop is not made *)
RegossipsAboveTwo(ttl) == ttl > 2

Regossips(ttl) == ttl > 1

RecordRow(t) ==
    events' = [events EXCEPT ![t[1]] =
        Append(@, [finding |-> job[t].finding, sender |-> job[t].sender, ttl |-> job[t].ttl])]

(* fault: a finding that goes on is not journaled *)
HandleRecordLastHop(t) ==
    /\ pc[t] = "record"
    /\ IF Regossips(job[t].ttl)
       THEN Goto(t, "record", "loop") /\ Iterate(t) /\ UNCHANGED <<job, peer, events>>
       ELSE Finish(t) /\ RecordRow(t)
    /\ UNCHANGED <<clients, seen, findings, counter, boot, late>>

(* The event is committed, and the finding goes on if hops are left. *)
HandleRecord(t) ==
    /\ pc[t] = "record"
    /\ RecordRow(t)
    /\ IF Regossips(job[t].ttl)
       THEN Goto(t, "record", "loop") /\ Iterate(t) /\ UNCHANGED <<job, peer>>
       ELSE Finish(t)
    /\ UNCHANGED <<clients, seen, findings, counter, boot, late>>

(* The journal is locked: events.record raises, or it succeeds and *)
(* update_event_summary raises.  The id stays marked either way. *)
RecordFails(t) ==
    /\ t[1] \in Locked
    /\ pc[t] = "record"
    /\ RecordRow(t) \/ UNCHANGED events
    /\ Finish(t)
    /\ UNCHANGED <<clients, seen, findings, counter, boot, late>>

----------------------------------------------------------------------------
(* refresh_peers, in the poll loop, beside the handlers. *)

(* Discovery finds all of Peers[n] but those whose name does not resolve.  The *)
(* clients to change are the discovered hosts without one, less those for which *)
(* _connect_peer failed, and the clients whose host was not discovered. *)
BeginRefresh(n) ==
    /\ n \in Churn
    /\ Goto(MainOf(n), "idle", "refresh")
    /\ \E changed \in SUBSET Peers[n] \ {{}} :
           iter' = [iter EXCEPT ![MainOf(n)].todo = changed]
    /\ UNCHANGED <<clients, seen, journal, counter, boot, job, peer, late>>

(* A new key comes last in the dict: iterators that are under way reach it. *)
ConnectPeer(n, p) ==
    /\ pc[MainOf(n)] = "refresh"
    /\ p \in iter[MainOf(n)].todo \ clients[n]
    /\ clients' = [clients EXCEPT ![n] = @ \cup {p}]
    /\ iter' = [t \in Thread |->
                   IF t = MainOf(n) THEN [iter[t] EXCEPT !.todo = @ \ {p}]
                   ELSE IF t[1] = n /\ pc[t] \in {"loop", "call", "wait"}
                   THEN [iter[t] EXCEPT !.todo = @ \cup {p}]
                   ELSE iter[t]]
    /\ UNCHANGED <<seen, journal, counter, boot, pc, job, peer, late>>

(* Closing a channel cancels the calls on it. *)
ClosePeer(n, p) ==
    LET cancelled == {t \in WorkersOf(n) : pc[t] \in {"call", "wait"} /\ peer[t] = p}
    IN  /\ pc[MainOf(n)] = "refresh"
        /\ iter[MainOf(n)].todo \subseteq clients[n]
        /\ p \in iter[MainOf(n)].todo
        /\ pc' = [t \in Thread |-> CASE t = MainOf(n) -> "delete"
                                     [] t \in cancelled -> "loop"
                                     [] OTHER -> pc[t]]
        /\ peer' = [t \in Thread |-> CASE t = MainOf(n) -> p
                                       [] t \in cancelled -> NoPeer
                                       [] OTHER -> peer[t]]
        /\ job' = Orphan(cancelled)
        /\ UNCHANGED <<clients, seen, journal, counter, boot, iter, late>>

DeletePeer(n, p) ==
    /\ Goto(MainOf(n), "delete", "refresh")
    /\ peer[MainOf(n)] = p
    /\ clients' = [clients EXCEPT ![n] = @ \ {p}]
    /\ iter' = [t \in Thread |->
                   IF t[1] = n THEN [iter[t] EXCEPT !.todo = @ \ {p}] ELSE iter[t]]
    /\ peer' = [peer EXCEPT ![MainOf(n)] = NoPeer]
    /\ UNCHANGED <<seen, journal, counter, boot, job, late>>

EndRefresh(n) ==
    /\ iter[MainOf(n)].todo = {}
    /\ Goto(MainOf(n), "refresh", "idle")
    /\ UNCHANGED <<clients, seen, journal, counter, boot, job, iter, peer, late>>

----------------------------------------------------------------------------
(* The daemon is killed, whatever it is doing, and started again.  The journal *)
(* survives; the seen ids, the counter and the clients do not.  Outside Churn  *)
(* the first refresh has found all peers before anything else happens.         *)

Restart(n) ==
    LET mine == ThreadsOf(n)
        waiting == {t \in Thread \ mine : pc[t] = "wait" /\ peer[t] = n}
    IN  /\ n \in Killed /\ boot[n] < MaxBoots
        /\ boot' = [boot EXCEPT ![n] = @ + 1]
        /\ counter' = [counter EXCEPT ![n] = 0]
        /\ seen' = [seen EXCEPT ![n] = <<>>]
        /\ clients' = [clients EXCEPT ![n] = IF n \in Churn THEN {} ELSE Peers[n]]
        /\ pc' = [t \in Thread |->
                     IF t \in mine THEN IF t = MainOf(n) /\ n \in Churn THEN "refresh" ELSE "idle"
                     ELSE IF t \in waiting THEN "loop" ELSE pc[t]]
        /\ job' = [t \in Thread |-> IF t \in mine THEN NoJob ELSE Orphan(mine)[t]]
        /\ iter' = [t \in Thread |->
                       IF t = MainOf(n) /\ n \in Churn THEN [NoIteration EXCEPT !.todo = Peers[n]]
                       ELSE IF t \in mine THEN NoIteration ELSE iter[t]]
        /\ peer' = [t \in Thread |-> IF t \in mine \cup waiting THEN NoPeer ELSE peer[t]]
        /\ late' = {r \in late : r.to # n}
        /\ UNCHANGED journal

(* Every thread is idle and there is nothing left to do within the bounds. *)
Quiescent == \A t \in Thread : pc[t] = "idle"

Quiet == Quiescent /\ UNCHANGED vars

----------------------------------------------------------------------------

Begin(n) == CreateFinding(n) \/ CreateRejected(n) \/ BeginRefresh(n)

Continue(n) ==
    \/ ShareFinding(n)
    \/ SkipShare(n)
    \/ \E p \in Peers[n] : ConnectPeer(n, p) \/ ClosePeer(n, p) \/ DeletePeer(n, p)
    \/ EndRefresh(n)

Gossip(t) ==
    \/ \E p \in Node : CallPeer(t, p) \/ SkipSender(t, p)
    \/ IterationEnds(t)
    \/ IterationRaises(t)
    \/ \E u \in Thread : Dispatch(t, u)
    \/ CallFails(t)

Handle(t) ==
    \/ HandleDuplicate(t)
    \/ HandleNew(t)
    \/ HandleMark(t)
    \/ HandleRecord(t)
    \/ RecordFails(t)

Next ==
    \/ \E n \in Node : Begin(n) \/ Continue(n) \/ Restart(n)
    \/ \E t \in Thread : Gossip(t) \/ Handle(t)
    \/ \E r \in late, u \in Thread : DispatchLate(r, u)
    \/ Quiet

Spec == Init /\ [][Next]_vars

----------------------------------------------------------------------------

TypeOK ==
    /\ clients \in [Node -> SUBSET Node]
    /\ seen \in [Node -> Seq(Id)]
    /\ events \in [Node -> Seq(Row)]
    /\ findings \in [Node -> SUBSET Finding]
    /\ counter \in [Node -> 0 .. MaxSeq]
    /\ boot \in [Node -> 1 .. MaxBoots]
    /\ pc \in [Thread -> PC]
    /\ job \in [Thread -> Job \cup {NoJob}]
    /\ iter \in [Thread -> Iterator]
    /\ peer \in [Thread -> Node \cup {NoPeer}]
    /\ late \subseteq Late

Recorded(n) == {events[n][i].finding : i \in DOMAIN events[n]}

Knows(n, f) == f \in findings[n] \cup Recorded(n)

(* An answer reaches the thread that waits for it, and nobody waits for an *)
(* answer that nobody prepares: the blocking stub of share_finding and the *)
(* worker that serves it stay paired through deadlines, cancelled channels *)
(* and restarts on either side. *)
CallsAreMatched ==
    /\ \A t \in Thread : pc[t] = "wait" =>
           \E u \in WorkersOf(peer[t]) :
               /\ pc[u] # "idle" /\ job[u].caller = t
               /\ \A v \in Thread \ {u} : pc[v] # "idle" /\ job[v] # NoJob => job[v].caller # t
    /\ \A u \in Thread : job[u] # NoJob /\ job[u].caller # NoThread =>
           pc[job[u].caller] = "wait" /\ peer[job[u].caller] = u[1]

(* Nothing is gossiped or journaled by anyone before the origin has committed *)
(* it (FindingsStore.create commits before share_finding starts), so a crash  *)
(* of the origin never leaves the fabric with a finding its origin has not.   *)
GossipOnlyCommitted ==
    LET inJobs == {job[t].finding : t \in {u \in Thread : job[u] # NoJob}}
        inCalls == {r.finding : r \in late}
        inJournals == UNION {Recorded(n) : n \in Node}
    IN  \A f \in inJobs \cup inCalls \cup inJournals : f \in findings[f.origin]

(* handle_finding answers "already seen" only for a finding this switch has, *)
(* or is about to record in another thread: the dedup test on finding_id     *)
(* drops copies, never a finding of its own.  The docstring of               *)
(* _generate_finding_id calls the ids unique. *)
DuplicateIsKnown ==
    \A t \in Thread : pc[t] = "check" /\ AlreadySeen(t[1], job[t].finding) =>
        \/ Knows(t[1], job[t].finding)
        \/ \E u \in WorkersOf(t[1]) : pc[u] = "record" /\ job[u].finding = job[t].finding

Copies(n, f) == Cardinality({i \in DOMAIN events[n] : events[n][i].finding = f})

(* A switch records a finding once: "finding_id for deduplication", says *)
(* proto/watchtower.proto. *)
RecordedOnce == \A n \in Node : \A f \in Recorded(n) : Copies(n, f) = 1

(* Two workers may both miss a finding in _has_seen before either marks it, so *)
(* the journal can hold a finding more than once; but a process never records  *)
(* more copies than its pool has threads. *)
CopiesBounded ==
    \A n \in Node : \A f \in Recorded(n) : Copies(n, f) <= boot[n] * Cardinality(Worker)

(* A finding that comes back to its origin is recognised (share_finding marks *)
(* it before the first call): a switch records a finding of its own as a      *)
(* peer's only when it has restarted since and forgotten it. *)
NoEchoBeforeRestart ==
    \A n \in Node : \A f \in Recorded(n) : f.origin = n => f.boot < boot[n]

(* When everything has come to rest, a finding its origin has shared, or that *)
(* a switch has taken with hops left, has got to every peer (but the sender), *)
(* be it through that switch's own call or in a copy that came another way. *)
ForwardingComplete ==
    Quiescent => \A n \in Node :
        /\ \A f \in findings[n] :
               HasSeen(seen[n], FindingId(f)) => \A p \in Peers[n] : Knows(p, f)
        /\ \A i \in DOMAIN events[n] :
               LET row == events[n][i]
               IN  row.ttl > 1 => \A p \in Peers[n] \ {row.sender} : Knows(p, row.finding)

OpenClients(n) == clients[n] \ {p \in Node : ChannelClosed(n, p)}

(* A thread leaves the loop over the clients only after it has called each of *)
(* them that is still connected, but the sender: "Re-share a received finding *)
(* to other peers (excluding sender)", says _gossip_finding. *)
LoopCallsEveryClient ==
    [][\A t \in Thread : pc[t] \in {"loop", "call", "wait"} /\ pc'[t] = "idle" /\ boot' = boot =>
           iter[t].todo \cap OpenClients(t[1]) \subseteq {job[t].sender}]_vars

(* The switches within k hops of o. *)
Ball(o) ==
    LET ball[k \in 0 .. FindingTtl] ==
            IF k = 0 THEN {o} ELSE ball[k - 1] \cup UNION {Peers[m] : m \in ball[k - 1]}
    IN  ball[FindingTtl]

(* A finding its origin has gossiped reaches, when everything has come to rest, *)
(* every switch within finding_ttl hops ("max 3 hops, to build fabric-wide *)
(* awareness", WATCHTOWER_DESIGN.md). *)
ReachesTtlHops ==
    Quiescent => \A o \in Node : \A f \in findings[o] :
        HasSeen(seen[o], FindingId(f)) => \A n \in Ball(o) : Knows(n, f)

----------------------------------------------------------------------------
(* The gossip implements Dissemination: a switch holds what it created and *)
(* what it recorded, and the ttl of a record tells the hops it came. *)

Held ==
    LET created == UNION {{<<n, f, 0>> : f \in findings[n]} : n \in Node}
        received == UNION {{<<n, events[n][i].finding, FindingTtl + 1 - events[n][i].ttl>> :
                               i \in DOMAIN events[n]} : n \in Node}
    IN  created \cup received

Abstract == INSTANCE Dissemination WITH holds <- Held

(* Every record has a predecessor in the journal of a direct peer, one hop *)
(* closer to the origin: handle_finding commits a finding before it gossips *)
(* it, so the chain back to the origin survives any crash. *)
Provenance == Abstract!Provenance

(* No switch records a finding that has come further than finding_ttl. *)
WithinTtl == Abstract!WithinTtl

(* Every step is a step of Dissemination or changes nothing there. *)
Disseminates == Abstract!Spec

----------------------------------------------------------------------------
(* Liveness.  The operating system runs every thread that can run, and the   *)
(* deadline of a call expires; nothing forces a finding to be created, a     *)
(* refresh to begin, or a daemon to restart. *)

Run(t) == Gossip(t) \/ Handle(t) \/ (t = MainOf(t[1]) /\ Continue(t[1]))

FairSpec == Spec /\ \A t \in Thread : WF_vars(Run(t))

(* Calls nest (a handler gossips while its caller waits), and with as many   *)
(* threads waiting for one another as there are workers only the deadline    *)
(* of the client ends the circle: no thread, the poll loop included, is held *)
(* up for ever. *)
EveryThreadReturns == []<>Quiescent

============================================================================
