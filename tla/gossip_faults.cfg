SPECIFICATION Spec
CONSTANTS
  a = a  b = b  c = c  d = d  e = e
  Node = {a, b, c}
  Peers <- Triangle
  Worker = {w1, w2}
  Main = Main
  NoThread = NoThread
  NoJob = NoJob
  NoPeer = NoPeer
  FindingTtl = 4
  MaxSeen = 2
  MaxSeq = 1
  Settled <- Nothing
  LastId <- OneByA
  MaxBoots = 2
  Killed = {a}
  Lossy = {b}
  Locked = {b}
  MaxLate = 1
  Churn = {a}
SYMMETRY WorkerSymmetry
INVARIANTS
  CallsAreMatched
  CopiesBounded
  NoEchoBeforeRestart
  GossipOnlyCommitted
  Provenance
PROPERTIES
  Disseminates
