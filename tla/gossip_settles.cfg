SPECIFICATION FairSpec
CONSTANTS
  a = a  b = b  c = c  d = d  e = e
  Node = {a, b, c}
  Peers <- Triangle
  Worker = {w1}
  Main = Main
  NoThread = NoThread
  NoJob = NoJob
  NoPeer = NoPeer
  FindingTtl = 3
  MaxSeen = 2
  MaxSeq = 2
  Settled <- OneOfA
  LastId <- SecondByAFirstByC
  MaxBoots = 1
  Killed = {}
  Lossy = {a, b}
  Locked = {}
  MaxLate = 0
  Churn = {}
PROPERTIES
  EveryThreadReturns
  LoopCallsEveryClient
