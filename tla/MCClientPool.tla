----------------------------- MODULE MCClientPool -----------------------------
(***************************************************************************)
(* Small instances of ClientPool.  Callers and servers are interchangeable.*)
(***************************************************************************)
EXTENDS ClientPool, TLC

Symmetry == Permutations(Callers) \cup Permutations(Servers)
===============================================================================
