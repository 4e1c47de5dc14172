------------------------------ MODULE MCStream ------------------------------
(* Stream for TLC: two calls for one pack. *)
EXTENDS Stream, TLC

CONSTANTS c1, c2

TwoCalls == {c1, c2}
OneCall == {c1}

(* The calls are interchangeable; for runs without liveness properties. *)
Symmetry == Permutations(TwoCalls)
=============================================================================
