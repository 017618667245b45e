SPECIFICATION Spec
CONSTANTS
  a = a  b = b  c = c  d = d  e = e
  Node = {a, b, c}
  Peers <- Triangle
  Worker = {w1, w2}
  Main = Main
  NoThread = NoThread
  NoJob = NoJob
  NoPeer = NoPeer
  FindingTtl = 3
  MaxSeen = 2
  MaxSeq = 1
  Settled <- Nothing
  LastId <- OneByAAndC
  MaxBoots = 1
  Killed = {}
  Lossy = {}
  Locked = {}
  MaxLate = 0
  Churn = {}
INVARIANTS
  DuplicateIsKnown
