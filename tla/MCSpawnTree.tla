------------------------------ MODULE MCSpawnTree ------------------------------
(* Instances of SpawnTree for TLC: the constants are given in the cfg files. *)
EXTENDS SpawnTree
===============================================================================
