-------------------------- MODULE MCSandboxLifecycle --------------------------
(***************************************************************************)
(* Small instances of SandboxLifecycle.  Processes, calls and pids are     *)
(* interchangeable.                                                        *)
(***************************************************************************)
EXTENDS SandboxLifecycle, TLC

Symmetry == Permutations(Processes) \cup Permutations(Calls) \cup Permutations(Pids)
===============================================================================
