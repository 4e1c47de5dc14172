------------------------------ MODULE MCFileMeta ------------------------------
(* Instances of FileMeta. *)
EXTENDS FileMeta
===============================================================================
