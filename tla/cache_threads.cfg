SPECIFICATION Spec
CONSTANTS
  Id = {f1, f2, f3, f4, f5}
  Worker = {w1, w2}
  Main = Main
  NoId = NoId
  MaxSeen = 4
SYMMETRY Symmetry
INVARIANTS
  TypeOK
  OvershootBounded
  EvictsNearlyFull
  RemembersRecent
