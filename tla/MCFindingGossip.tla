-------------------------- MODULE MCFindingGossip --------------------------
(***************************************************************************)
(* Values for the constants of FindingGossip.                              *)
(***************************************************************************)
EXTENDS FindingGossip, TLC

CONSTANTS a, b, c, d, e

(* Three switches, each linked to the other two. *)
Triangle == [n \in Node |-> Node \ {n}]

(* A triangle a b c, and d behind c. *)
Paw == [n \in Node |-> CASE n = a -> {b, c} [] n = b -> {a, c} [] n = c -> {a, b, d}
                         [] n = d -> {c}]

(* a and b are alike in a Paw unless they create findings. *)
PawSymmetry == Permutations(Worker) \cup Permutations({a, b})

(* The switch b in the middle of three others. *)
Star == [n \in Node |-> IF n = b THEN Node \ {b} ELSE {b}]

(* A triangle a b c with a tail c d e: e is three hops from a. *)
Kite == [n \in Node |-> CASE n = a -> {b, c} [] n = b -> {a, c} [] n = c -> {a, b, d}
                          [] n = d -> {c, e} [] n = e -> {d}]

Nothing == [n \in Node |-> 0]

(* a has created one finding earlier in the day *)
OneOfA == [n \in Node |-> IF n = a THEN 1 ELSE 0]

OneOfD == [n \in Node |-> IF n = d THEN 1 ELSE 0]

(* who creates findings, and how many *)
OneByA == [n \in Node |-> IF n = a THEN 1 ELSE 0]

(* one each; with OneOfA settled their ids differ *)
SecondByAFirstByC == [n \in Node |-> CASE n = a -> 2 [] n = c -> 1 [] OTHER -> 0]

SecondByDFirstByC == [n \in Node |-> CASE n = d -> 2 [] n = c -> 1 [] OTHER -> 0]

OneByAAndC == [n \in Node |-> IF n = b THEN 0 ELSE 1]

WorkerSymmetry == Permutations(Worker)

============================================================================
