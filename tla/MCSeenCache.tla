---------------------------- MODULE MCSeenCache ----------------------------
EXTENDS SeenCache, TLC

Symmetry == Permutations(Worker) \cup Permutations(Id)

============================================================================
