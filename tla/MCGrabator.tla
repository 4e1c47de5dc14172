------------------------------ MODULE MCGrabator ------------------------------
(* One pack of a few chunks.  Positions, counts and the file are bounded   *)
(* by PackSize and TransfersPerUser alone.                                 *)
EXTENDS Grabator
==============================================================================
