----------------------------- MODULE MCJobManager -----------------------------
(***************************************************************************)
(* Small instances of JobManager.  Jobs are interchangeable, and so are    *)
(* the callers, so the safety runs use their permutations as symmetry.     *)
(***************************************************************************)
EXTENDS JobManager, TLC

Symmetry == Permutations(Jobs) \cup Permutations(Cancellers)
              \cup Permutations(Watchers)
===============================================================================
