# Watchtower: a verification project

Watchtower is a daemon that runs on every SONiC switch of a fabric. It polls the
switch's databases, makes *findings* out of anomalies and state changes, journals
them in SQLite, and gossips the serious ones to the daemons of the neighbouring
switches. This directory holds TLA+ models of it, the TLC runs that check them and
the proofs that TLAPS checks. Paths below are those of `src/`; `peer` stands for
`watchtower/peer/__init__.py`.

## 1. The system

| Part (code) | State | Operations | Talks to |
|---|---|---|---|
| Poll loop (`main.py`) | last BGP and link states | `_poll_cycle`: collect, detect, create findings, share, prune | everything, one thread |
| Governor (`governor.py`) | state, interval multiplier, counters | `update`, `can_investigate`, `should_collect` | asked by the poll loop, reported in heartbeats |
| PeerManager (`peer`) | `_clients`, `_seen_finding_ids`, times of last heartbeat and share | `share_finding`, `share_event`, `send_heartbeats`, `share_topology_fragment`, `refresh_peers` in the poll thread; `handle_*` in pool threads | clients, server, journal |
| gRPC server and client (`server.py`, `client.py`) | a pool of four threads; a channel per peer | four unary calls, five-second deadline, no retries | the other daemons |
| Peer table (`peer/state.py`) | `peer_state`, `peer_topology` | heartbeat, summary and fragment updates | PeerManager, from all threads |
| Discovery (`peer/discovery.py`) | none | neighbours of the topology table that resolve | `refresh_peers` |
| Journal (`store/*.py`) | one SQLite connection for all threads: events, findings, baselines, topology | create, resolve, record, update, prune | everyone |
| Analyzers (`analyzers/*.py`) | last LLDP snapshot | anomaly test, topology diff, peer correlation | poll loop |
| Output (`output/*.py`), templates (`llm/fallback.py`), collectors, CLI, config | none that lasts | formatting and I/O | poll loop |

**What is hard.** The handlers run in four pool threads beside the poll loop and share
the client dict, the dedup cache and the SQLite connection with it, without a lock. A
call blocks its thread while the peer's handler runs, which makes calls of its own:
calls nest across switches. A client gives up after five seconds; the server does not
notice. The dedup cache, the id counter and the clients are in memory, the journal is
not, so a restart leaves them in disagreement. The poll cycle is one sequence of steps
that an exception anywhere abandons. PROJECT.json lists each of these hazards at its line.

**What makes each part correct.**
- *Gossip*: nobody gossips what its origin has not committed; every record has a chain of
  peers back to the origin, no longer than `finding_ttl`; no finding is lost as a
  "duplicate" of another; each switch records a finding once; forwarding reaches every
  peer it should; no thread is stuck for ever.
- *Dedup cache*: bounded, and an id is forgotten only after (almost) as many others as it has room for.
- *Peer table*: the newest state a peer has sent wins; a fragment is one that was sent.
- *Poll cycle and governor*: no change of state goes without its finding; the table, the log and the peers agree on the
  findings; what a governor state forbids is not done.
- *Topology and correlation*: changes are reported once, for ports that changed.
- *Baselines*: estimates stay near the samples, what is normal is not flagged, what is large is, and p50 <= p95 <= p99.

## 2. The modules

| Module | What it is |
|---|---|
| `Dissemination` | What the gossip promises, as an abstract specification: `holds` is the set of (switch, finding, hops). |
| `SeenFindings` | `_has_seen` and `_mark_seen` as operators on a sequence of ids. |
| `FindingGossip` | The gossip thread by thread; implements `Dissemination` through `Held`. |
| `SeenCache` | The dedup cache with every operation on the `OrderedDict` a step. |
| `Governor`, `FindingTemplates`, `Banner` | Pure: the governor's state from a snapshot, the severity of each kind of finding and which severities syslog and the peers are told of, the banner's budget of lines. |
| `PollCycle` | The poll cycle of one daemon, on top of these three. |
| `LinkTrack` | What the poll cycle does with LLDP: table, clients, changes, pairs of events. |
| `Baseline` | The baselines of one error counter and the anomalies told from them. |
| `PeerTable` | What a daemon keeps about one peer, and the calls between the two. |
| `MC...` | Networks, values, bounds and symmetries for TLC. |
| `SeenFindingsTheorems`, `SeenCacheProofs`, `FindingGossipProofs`, `FindingGossipRefinement`, `PollCycleProofs`, `LinkTrackProofs`, `BaselineProofs`, `PeerTableProofs` | Theorems and proofs. |

`PollCycle` composes the governor, the templates and the banner in the order of
`_poll_cycle`. It leaves the LLDP data to `LinkTrack`, which takes the same cycle's other
half with the same failures: in `PollCycle` the correlations and topology changes of a cycle are
any, in `LinkTrack` they come of the cables and the peers' events. Splitting them keeps both small, and no
step of one half reads what the other writes but the events and findings tables. `FindingGossip` starts
where `PollCycle` puts a finding into `shared`.

### FindingGossip

A thread is `<<n, Main>>` (the poll loop) or `<<n, w>>` (a pool thread). `pc` says where it
stands, `job` what it works on and for whom, `iter` the iterator of its loop over the
clients, `peer` the peer it calls.

| Actions | Code |
|---|---|
| `CreateFinding`, `CreateRejected` | `FindingsStore.create` committed, or refused by `UNIQUE` (the poll cycle is then abandoned) |
| `ShareFinding`, `SkipShare` | `share_finding` up to its loop; the findings it does not share |
| `CallPeer`, `SkipSender`, `IterationEnds`, `IterationRaises` | the loop over `_clients.items()` in `_gossip_finding` and `share_finding` |
| `Dispatch`, `DispatchLate`, `CallFails` | a call of `PeerClient.share_finding` served at once, served after its client gave up, failed |
| `HandleDuplicate`, `HandleNew`, `HandleMark`, `HandleRecord`, `RecordFails` | `handle_finding`: the test, the mark, the record and the decision to forward |
| `BeginRefresh`, `ConnectPeer`, `ClosePeer`, `DeletePeer`, `EndRefresh` | `refresh_peers`, one change of the dict at a time |
| `Restart` | the process is killed anywhere and started again |

Decisions of the model:
- The handler's test, mark and record are separate steps, as threads interleave there;
  `_mark_seen` itself is one step here and taken apart in `SeenCache`. There a mark may
  also raise `KeyError` (`MoveRaises`): to the peers that is a handler that ends before
  it has recorded, like `RecordFails`.
- An iterator over a dict fails when the size of the dict has changed and otherwise
  yields at most as many keys as the dict had. A replaced key keeps the size, so an
  iteration can also go on over a changed dict. The order of the keys is left open.
- `Main`'s own finding is a job received from itself with one hop more, so that
  `share_finding` and `_gossip_finding` are one loop: `finding_ttl` is what leaves.
- An id is its number: all findings are of one UTC day. `Settled[n]` numbers were drawn
  earlier that day by a process of `n`, for findings that are long settled. That is how a
  run gives two switches different ids; the code does nothing to.
- After a restart the daemon connects all its peers before anything else happens, except
  in `Churn`, where it starts with no clients, serves requests and refreshes as the code does.
- Closing a channel cancels the calls on it; what the server does with them goes on.
- Left out: the text of findings, `update_event_summary` (but not its failure), timestamps.

Why nobody but the deadline ends a circle of calls: with pools of `k` threads, `k`
handlers of one switch can wait for a peer whose `k` handlers wait for the switch. The
run `gossip_settles` has `k = 1`. `EveryThreadReturns` needs `CallFails` to be fair at
least where a circle closes; with no switch in `Lossy` the same configuration deadlocks.

### PollCycle

`pc` is the step of `_poll_cycle`, `todo` the keys its `for` loop has ahead, `item` the event
or result that is being reported, `call` the call its handler makes next.

| Actions | Code |
|---|---|
| `SwitchChanges` | the databases between and during two cycles: a session or link takes another state, or has none any more; an optic dims |
| `BeginCycle` | `governor.update`, and the return of a dormant daemon (`main.py:142`) |
| `CollectPortStats` ... `CollectOpticHealth` | `_safe_collect`: a reading, or `{}` |
| `RecordEvent`, `TakeResult`, `PassOver` | one key of a loop: the event is committed; the analyzer has a correlation or a topology change; nothing to report |
| `CreateFinding`, `Defer` | `findings.create` and its commit; an anomaly while investigations are not allowed |
| `EmitFinding`, `ShareEvent`, `ShareFinding` | the calls that follow, in the order `After` has for each of the six handlers; after the last one the new state is remembered |
| `NextStep` | the end of a loop, the LLDP step, the heartbeats |
| `WriteBanner`, `Prune` | the end of the cycle |
| `Abandon` | an exception out of a write, which `run` catches (`main.py:117`): of an event, of a finding, of the neighbours, of an answered heartbeat, of the banner, of the pruning |
| `Crash` | the process is killed between any two steps and started again, with an empty memory |

Decisions of the model:
- `emit_finding`, `share_event` and `share_finding` raise nothing (a failed call to a peer is logged and passed
  over), so `Abandon` comes before the finding only, `Crash` anywhere. `shared` and `announced` are what is handed to
  the peers' loop; whom it reaches is the subject of `FindingGossip` and `PeerTable`.
- Peers and syslog are enabled, with syslog's default threshold.
- A correlation or a topology change comes of a change somewhere, so each counts against `MaxChanges`; a port has at most one
  of each kind a cycle. The event of a correlation is not recorded, nor is that of a topology change.
- The switch is not looked at after the collectors, so it changes before and while they run.
- Each port has one counter, so at most one anomaly a cycle. A write fails at its statement: nothing of it is kept.
- `told` (what this process has said last of a session or link) is a ghost: set with the finding, and by a first
  reading, which has nothing to be compared with. `faults` counts the failures and crashes so far.

### LinkTrack

`wire` is what LLDP would answer, `lldp` what it did. Hosts are numbered in the order of
their names, which `get_neighbor` sorts by; `Blank` is a neighbour without a system name.
An event's age is counted in cycles, `Window` of which are its 300 seconds.

| Actions | Code |
|---|---|
| `CableMoves`, `PeerEventArrives` | the network; `handle_event` |
| `CollectLldp`, `StoreNeighbors`, `RefreshPeers` | collect, `update_neighbor` for each port, `refresh_peers` of the names that resolve |
| `Detect` | an event of the loops of `PollCycle` |
| `Correlate`, `ReportPair`, `PairsDone` | `PeerCorrelator.correlate` and its findings |
| `DiffTopology`, `ReportChange` | `TopologyDiff.diff` (which replaces the snapshot) and its findings |
| `EndCycle`, `Abandon` | the end of the cycle; an exception |

`told` and `heard` follow what the findings, and those of them that go to the peers, say of each
port; `forgotten` and `missed` hold the ports an abandoned cycle left unsaid.

### Baseline

| Actions | Code |
|---|---|
| `Compare` | `check_interface` up to the verdict: the row of this hour, warm-up, deviation |
| `Update` | `update`: the row of the hour it is *then*, seeded or learned |
| `UpdateFails` | the write fails and ends the cycle |
| `CounterMoves`, `HourTurns` | the switch and the clock |

The code's EMA moves an estimate by 0.05 times the quantile or its complement. Counted in
steps of 0.0005 these are the integers 50, 95, 99, 5 and 1, and one error is `PerCount` = 2000
steps; the sums of the model are those of the code but for floating-point rounding.
`sample_count` is asked for only against `MinSamples`, and stays there. `low` and `high` are ghosts.

### PeerTable

One daemon, one peer. `db` is what the threads see through the one connection, `disk` what is
committed. `call` holds the call the peer's poll loop waits for, and those that live on in
the server after their client has given up.

| Actions | Code |
|---|---|
| `FindingAppears`, `LinkAppears`, `PeerGoesOn`, `ShareEvent`, `SendHeartbeat`, `ShareTopology` | the peer's poll loop |
| `CallLost`, `CallTimesOut` | a call that fails, or outlives its deadline of five seconds |
| `HandleHeartbeat`, `HandleEvent`, `UpdateEventSummary`, `HandleTopology`, `InsertLink`, `Commit` | the handlers, one SQL statement a step |
| `AskPeer`, `PeerAnswers`, `NoAnswer`, `StoreAnswer`, `CommitAnswer` | the daemon's own heartbeat; the peer reads severity and count in two queries |
| `OtherCommit`, `Crash` | a commit by another thread of what this one has executed; the process is killed |

## 3. The runs

| Run | Asks | Instance | States |
|---|---|---|---|
| `gossip_concurrent` | does the dedup work when nothing fails? | triangle with a switch behind it, pools of 2, ttl 2, two findings at once | 42 thousand |
| `gossip_faults` | what survives failures? | triangle, pools of 2, ttl 4; `b` loses calls and its journal fails, `a` refreshes and restarts, one late request | 263 thousand |
| `gossip_settles` | does everything come to rest? | triangle, pools of 1, `a` and `b` lose calls, two findings | 170 thousand |
| `cache_threads` | what do interleavings do to the cache? | 2 pool threads and the poll loop, 5 ids, room for 4 | 58 thousand |
| `poll_cycle` | does a change get lost, do the outputs agree? | one session and one port, three states of the governor, two changes, one failure or crash | 1.2 million |
| `link_track` | what is told of a moving cable? | two ports, two hosts, one move, one fault, an event of each end | 125 thousand |
| `baseline` | where do the estimates go, and what is flagged? | two hours, two values, one turn, two moves, one fault | 737 thousand |
| `peer_table` | is the row right in the end? | one finding, two links, one call that fails or comes late, one crash | 204 thousand |
| `id_collision` | are ids unique? (no) | triangle, `a` and `c` create their first finding | violated |
| `gossip_reach` | does a finding get finding_ttl hops far? (no) | triangle with a tail, all within 3 hops | violated |
| `gossip_partial` | does the loop call every client? (not beside a refresh) | star, the centre refreshes | violated |
| `quantile_order` | is p95 at least p50? (no) | one hour, one move, the code's ALPHA | violated |

Why the bounds are enough, for the gossip: a triangle is the smallest network with a cycle, so findings
come back and come twice; two pool threads are the fewest that race in one handler and
one is the fewest that can close a circle of calls. `MaxSeen = 2` is not below the number of
ids in the runs of `FindingGossip`, so that no id is evicted there; eviction is the subject of `cache_threads`,
where five ids meet a cache of four: with three threads it is the least at which `RemembersRecent` asks for anything. One restart and one late request suffice for each
order of a restart and its echoes. `ttl` 3 is the default, 2 the least at
which a relay forwards, and 4 lets a finding go once round and on. In `gossip_concurrent` the fourth
switch is there because in a triangle the origin calls everybody itself; what comes from or goes to
the fourth depends on the relay. TLC does not show what more threads or a longer network could do: the theorems do.

For the daemon's own modules: one session and one port meet all six loops of `PollCycle`, and a
port has a link, an optic and counters; two changes are a change and its reversal, before, in or after
an abandoned cycle; `full` is left out of the snapshots, as it differs from `throttled` in
pace only. In `LinkTrack` two ports let one host be seen on both and a change be
abandoned behind another; `Window` 2 is the least in which a pair survives one abandoned
cycle. In `Baseline` the second hour is what a turn between verdict and update needs; steps of a fortieth
of an error (`PerCount` 40) keep the two values a few weights apart, so that an estimate crosses what lies between within a few samples,
and the theorems are for every `PerCount`. In `PeerTable` a late call beside a new one is
two handlers, the fewest that tear a fragment of two rows; `MaxFailed` bounds the calls that
go wrong, without which two handlers may break each other's fragment for ever.
`max_lines` is 11 in the run of the banner, so that one to three findings fit, against the default of 20.

Properties, by what they are about:
- `DuplicateIsKnown`, `RecordedOnce`, `CopiesBounded`, `NoEchoBeforeRestart`: dedup. Without
  deadlines a single chain of calls carries a finding, and no switch records it twice. With
  deadlines the orphaned handlers race with it, and a switch may record a
  finding once per pool thread and start.
- `ForwardingComplete`: at rest, every peer of a switch that had to forward has the finding.
- `GossipOnlyCommitted`, `Provenance`, `Disseminates`: what the fabric knows goes back to
  journals, through any failure.
- `CallsAreMatched`, `EveryThreadReturns`, `LoopCallsEveryClient`: the calls.
- `OvershootBounded`, `EvictsNearlyFull`, `RemembersRecent`: the cache. The last is what the dedup needs of it: an id is
  forgotten only when almost `MaxSeen` others have been put after it.
- `NothingSkipped`, `OutputsAgree`, `ChangesReported`: what an exception or a crash in the
  middle of a cycle may cost. A change is not skipped by an exception, since the memory is written last;
  it may instead be reported twice. The finding of an anomaly or an optic is lost, one for each failure. A crash
  between a finding's commit and its last call leaves it untold for good, again at most one for each crash; whatever
  the failure, the log says only what the table holds, and the peers only what the log says.
- `BannerFits`, `BannerTellsWorst`: the banner.
- `TopologyTold`, `PeersHearLosses`, `AlarmsCorrected`: the snapshot is replaced *before* its findings
  are made, so here an abandoned cycle does lose changes; the properties say which, and that nothing else is.
- `PairsReported`: a pair is reported though a cycle of its window is abandoned. How often, see below.
- `ConnectedPeersStay`: a host that is cabled to the switch keeps its channel though LLDP fails. Of a host whose cable is
  gone nothing is asked.
- `EstimatesWithinSeen`, `NormalNeverFlagged`, `LargeAlwaysFlagged`, `FallsSilent`: the baselines. `EstimatesWithinSeen`
  has the code's own steps; the two about flags leave room for the larger step both ways, so they say nothing for or
  against the exchanged weights (see `quantile_order`). A value may be learned by the row of the next hour, and no property forbids it.
- `SevereHasFindings`, `KnownStaysKnown`, `TableConverges`, `FragmentRefreshed`: the peer table.

Fairness (`FairSpec`): weak fairness of everything one thread does. The operating system
schedules each thread that can run; the deadline of a call in `Lossy` does expire
(`client.py:17,168`), so a call there is served or fails. Nothing forces a
finding to be created, a refresh to begin or a daemon to be restarted. A call outside `Lossy`
never fails, which only makes the run harder to pass.

In the other modules: `WF(PollStep)`, `WF(Cycle)` and `WF(Check)` say that the poll loop runs on, and
`run` does so whatever is raised (`main.py:117`); the switch, the cables, the clock and the failures are
not fair, and the failures bounded. `PeerTable` has weak fairness of both poll loops and of each handler (four
threads, at most two calls), and strong fairness of `ShareTopology`: the interval
between two shares is abstracted, and it has passed again and again when the loop asks.

What the violated runs show is in PROJECT.json under `findings`. In short: ids start at 1
on every switch and at every start (`store/findings.py:11`), and the dedup looks at nothing
else; depth-first forwarding with a ttl per path and a dedup that ignores the ttl can leave
a switch within `finding_ttl` hops uninformed; and a pool thread's loop over `_clients`
breaks off when the poll loop changes the dict; and the weights of the quantile estimates
are exchanged, so that "p95" goes to the 5th percentile. Met while modelling, but not a run: the cache may
exceed `_MAX_SEEN_FINDINGS` by up to the number of threads less one, and a hit in
`_has_seen` does not refresh an id, so the "LRU set" of `peer:62` evicts by first mark.
More of the kind:
- Heartbeats go out in every poll cycle (30 s), not every `heartbeat_interval` (10 s).
- A dormant daemon returns before its heartbeats (`main.py:142`); `governor.py:17` and
  `WATCHTOWER_DESIGN.md:356-357` promise heartbeats while dormant. A paused one makes no anomaly findings at all,
  where `WATCHTOWER_DESIGN.md:351` has template-based ones.
- `baseline_warmup_hours` (168, "1 week") is compared with a number of samples, summed over all hours.
- A change across a restart is not reported (`main.py:98`: the memory starts empty).
- The same pair of events is correlated again in every cycle of its 300 seconds (`peer_correlate.py:63` keeps the pairs of
  one call only), where `tests/test_peer_correlate.py:181` says "Same local+peer event pair should only produce one correlation".
- `peer:153` says "Remove clients for peers no longer in topology", but `TopologyStore.remove_stale` is never called, so a
  neighbour never leaves the table and its client stays.
- After an LLDP failure peers hear that neighbours were removed (warning), never that they came back
  (info): `PeersHearLosses` holds for what they are told, not for what is there.
- With `max_lines` below seven the banner's header alone is too long.

## 4. What is proved

Every safety invariant and every action property that a passing run checks, and the refinement of
`Dissemination`, are theorems: for every network, pool, ttl, cache size and pattern of failures
that the assumptions in the modules admit (finitely many switches and threads, no switch its own peer,
natural bounds) and the hypotheses named below. Each hypothesis is there because the property fails
without it, and the constants of the run that checks the property satisfy it.

**Dedup cache.**
- `SeenFindingsTheorems!MarkSeenProperties`: one undisturbed `_mark_seen`, in full; `MarkSeenWithRoom`:
  it drops nothing while there are no more ids than the cache holds.
- `SeenCacheProofs`: `TypeCorrect`, `Bounded`, `EvictionNearlyFull`, `RecentRemembered` and
  `PopNeverRaises`. `OvershootBounded` is not inductive alone: that `popitem` leaves room
  rests on how many threads are about to evict. `IInv` adds `EvictionBudget`, which
  counts the threads at `pop` and at `insert` together. `RemembersRecent` needs `Behind`: every id further back in
  the cache was put there after those before it, so that the first one, which goes, has the others after it.

**Gossip, whatever fails** (`FindingGossipProofs`, `FindingGossipRefinement`).
- `TypeCorrect`, `CallsMatched`. The inductive invariant
  `CallInv` adds to the types that a thread has a job exactly when it is at work
  (`JobsFit`, with the ttl each stage allows) and `Paired`: a waiting thread has one worker
  that serves it, at the peer it calls, and the callers of distinct workers are distinct. The
  lemmas `StageKeeps`, `FinishKeeps`, `OrphanKeeps` and `StartKeeps` are the four ways a
  step changes who works for whom; each action is one of them, `Restart` two at once.
- `Implements` (`Spec => Disseminates`); `Promises`, what `Dissemination` promises of all its
  behaviours (a Learn at distance `h + 1` has its predecessor at `h`); and from the two
  `RecordsTraceable` and `HopsBounded`. `OnlyCommitted`. The invariant
  `ChainInv` adds that what a thread or a late request carries is held by its sender
  with the right number of hops left (`Handed`, `Offered`), so that the record of it is a
  `Learn`. It needs the journals only to grow; it does not need the
  seen ids at all, which is why restarts do it no harm.
- `NoEcho` and `FewCopies`, if `MaxSeq <= MaxSeen`: the cache (a thousand ids) has room for all the ids
  in use. With more ids it may forget one that is still on its way. `OwnInv` says that the job of every
  thread, and every late request, is about a finding whose origin still has its id in the cache or has
  restarted since. `CopyInv` counts a finding's copies together with the threads that have missed it and
  will record it (`Pending`); until its id is marked there is nothing but copies of earlier processes.
- `EveryClientCalled`, if `Churn = {}`: `refresh_peers` finds nothing to change while handlers run. With a
  change the loop raises, which is what `gossip_partial` shows. `LoopInv`: the
  dict holds the peers, and an iterator has as many clients ahead of it as it counts.

**Gossip, where less fails.** These three were statements about one instance before; the steps are
sorted by what they change (`StepKind`: nothing, a creation, a move of one thread, a hand-over, a
record, a restart), and each invariant is shown for each kind.
- `DuplicatesKnown`, if `DistinctIds` (the switches draw their numbers from ranges of their own) and no
  journal is locked; failing calls, refreshes and restarts are allowed. Without the first, `id_collision` is
  the counterexample; with a locked journal a finding is marked and then not recorded. `KnownInv`: each id
  in a cache is that of a finding the switch has or is about to record.
- `RecordedOnlyOnce`, if `NoFaults` (no lossy link, no restart, no churn) and `MaxSeq <= MaxSeen`. A call that times out leaves a
  second chain behind, and then `FewCopies` is all there is. `OnceInv`: of the threads that work on a
  finding exactly one is not waiting for another (`OneCarrier`), so nobody else can have missed
  the id in the meantime.
- `ForwardsAll`, if `Undisturbed` (`NoFaults`, no locked journal) and `DistinctIds`; evictions are allowed. `ForwardInv`: for each
  finding that has been shared or taken with hops left, each peer knows it, or has a thread that handles it, or the
  sender's thread has the call ahead of it (`Covered`). At rest only the first is left. That a copy dropped as
  a duplicate does no harm is `DuplicatesKnown`.

**Peer table** (`PeerTableProofs`): `PeerTableTypeOK`, `TroubleIsCounted`, `KnowledgeStays`. `TableInv` adds what is
on its way to the table (`ReportsFit`): a heartbeat that names a severity counts a finding, and an answer
of which only the severity has been read is backed by the findings table, which only grows. `KnownStaysKnown`
needs that the open transaction holds all that is on disk (`Ahead`), as any thread's commit takes all of it.

**The daemon's own modules.**
- `PollCycleProofs`: `PollCycleTypeOK`, `NothingSkippedEver`, `OutputsAgreeEver`. The invariant adds
  `Known` (memory and ghost hold values the switch can have, every event is one a loop makes, every finding that of its event),
  `Awake` (a cycle under way is not a dormant daemon's, so its calls do reach the peers) and `Progress`, of the handler at work:
  what its calls so far have done (`HandlerAt`). At its last call that is all a finding is to be told
  (`ToldInFull`). The two properties count: an event without a finding or a finding told in part is the one in hand, until a failure
  or a crash leaves it behind (`CrashKeepsInv`) and is itself counted; what is told is never taken back (`TellingKeepsInv`).
  `NothingSkipped` leans on `TypeOK` for `item \in Detected(item.subject)`: the value that will be
  remembered is the one the finding in the making speaks of.
- `BannerAlwaysFits`, for `MaxLines >= 7`, and `BannerAlwaysTellsWorst`, for `MaxLines >= 11`: with
  less than 7 the header alone is too long, with less than 11 a first finding of three lines is not shown. No recursion is
  needed: the lines used are the size of a set (`Used`), which grows with the findings (`UsedGrows`), so those
  that fit are the first so many (`ShownFits`), and `get_active` is three sequences of sets (`WorstComeFirst`).
  `BannerInv` says from when to when the banner is right: after it is written, until a cycle collects again.
- `LinkTrackProofs`: `LinkTrackTypeOK`, `TopologyAlwaysTold`, `PeersAlwaysHearLosses`,
  `ConnectedPeersAlwaysStay`. `PeersHearLosses` is not inductive: that a change the peers do
  not hear of (`neighbor_added`) meets nobody they believe in needs `Pending`, that each change ahead has
  the type of the step from what was told.
- `BaselineProofs`: `BaselineTypeOK`, `EstimatesAlwaysWithinSeen`, `NormalNeverFlaggedEver`,
  `LargeAlwaysFlaggedEver`, for every `PerCount` and threshold. The lemma `LearnRow` has the arithmetic.
  The four are inductive together: a verdict is near what was seen because the estimate it was made with is.

What the proofs do not say: `FindingGossip` takes `_mark_seen` as one step, so its theorems
and those about `SeenCache` are separate. `NoEcho`, `FewCopies` and `RecordedOnlyOnce` are therefore about a cache
whose every `_mark_seen` is undisturbed; how far that is from the threads' is what `SeenCacheProofs` bounds.

Only model-checked: the liveness properties `EveryThreadReturns`,
`ChangesReported`, `AlarmsCorrected`, `PairsReported`, `FallsSilent`, `TableConverges`
and `FragmentRefreshed`. They are under fairness and out of the prover's reach,
as ENABLED is and induction over data (what a recursive definition, such as `Ball`,
computes for every input). Likewise the four violated properties: a counterexample is an instance.

## 5. Plan

All the modules and the safety theorems of the first plan are there. What would be next:

1. A bridge between `SeenCache` and `SeenFindings`: a `_mark_seen` that no other thread interrupts is one
   `MarkSeen`, and what the interleavings may add to it, as a refinement.
2. The safety half of what the liveness properties say: that `TableConverges` cannot be undone by a stale
   answer once the last one has been stored, that a flagged counter that stays is learned by a step each sample.
3. Several counters on a port in `PollCycle`, so that a failure may come between two anomalies of one port.

## 6. Not modelled

- Wording: of events, findings, syslog lines and the templates, and how a summary is wrapped (a finding has a height).
- Parsing in the collectors, the configuration loader, the generated protocol code, TLS and authentication: stateless I/O,
  taken as working or failing as a whole. The log filter is not used by the daemon.
- The CLI and the scripts: read-only reports by another process.
- `resolve`, `get_history`, `remove_peer`, `remove_stale`, `get_stale_peers`, `finding_from_peer_down` and the
  collector of peer events: the daemon never calls them.
- `stop()`, but for the end of the process anywhere, which the restarts and crashes of `FindingGossip` and `PeerTable` cover.
- Real time: a deadline may pass at any moment, the interval of topology shares at any cycle, and nothing
  says how late a poll cycle is. The governor's multiplier of the poll interval is part of that.
- Floating-point rounding of the estimates.

## 7. Running it

`tlc -config gossip_faults.cfg MCFindingGossip.tla` (likewise for each cfg; the module
of a run is in PROJECT.json), and `tlapm FindingGossipRefinement.tla` for the proofs.
The configurations whose property is meant to fail are `id_collision`, `gossip_reach`,
`gossip_partial` and `quantile_order`. Definitions under a comment `fault:` are plausible bugs, not used by the
specifications: PROJECT.json's `mutants` put them in the place of the definition that follows
them, and each breaks the property it is listed with.
