SPECIFICATION Spec
CONSTANTS
  a = a  b = b  c = c  d = d  e = e
  Node = {a, b, c, d}
  Peers <- Paw
  Worker = {w1, w2}
  Main = Main
  NoThread = NoThread
  NoJob = NoJob
  NoPeer = NoPeer
  FindingTtl = 2
  MaxSeen = 2
  MaxSeq = 2
  Settled <- OneOfD
  LastId <- SecondByDFirstByC
  MaxBoots = 1
  Killed = {}
  Lossy = {}
  Locked = {}
  MaxLate = 0
  Churn = {}
SYMMETRY PawSymmetry
INVARIANTS
  TypeOK
  DuplicateIsKnown
  RecordedOnce
  ForwardingComplete
