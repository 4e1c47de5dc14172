------------------------------ MODULE MCStorage ------------------------------
(* Storage for TLC: two invocations. *)
EXTENDS Storage, TLC

CONSTANTS p1, p2, k1, k2

(* The invocations are interchangeable, and so are the keys. *)
Symmetry == Permutations({p1, p2}) \cup Permutations({k1, k2})
==============================================================================
