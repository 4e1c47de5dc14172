------------------------------ MODULE MCLruCache ------------------------------
(* Instances of LruCache: three threads, three keys and room for two. *)
EXTENDS LruCache, TLC

Symmetry == Permutations(Threads) \cup Permutations(Keys)
===============================================================================
