----------------------------- MODULE MCAuthRefresh -----------------------------
(***************************************************************************)
(* Small instances of AuthRefresh.  Launches are interchangeable.          *)
(***************************************************************************)
EXTENDS AuthRefresh, TLC

Symmetry == Permutations(Launches)
===============================================================================
