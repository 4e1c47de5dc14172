--------------------------- MODULE MCFunctionCache ---------------------------
(* Instances of FunctionCache. *)
EXTENDS FunctionCache
===============================================================================
