------------------------------ MODULE MCTracking ------------------------------
(* Tracking for TLC: two bots in two channels, and three without one. *)
EXTENDS Tracking, TLC

CONSTANTS c1, c2, c3, ch1, ch2

(* Little is claimed once a NICK has overtaken what was queued: such states *)
(* are followed while little is unread and no bot has gone, unless failed. *)
InOrder ==
  hasty => /\ \A c \in Clients : link[c] = "open" \/ c \in failed
           /\ Cardinality(UNION {{c} \X (1 .. Unread(c)) : c \in Clients}) <= 3

Symmetry == Permutations({c1, c2}) \cup Permutations({ch1, ch2})
===============================================================================
