--------------------------- MODULE MCJobLifecycle ---------------------------
(* Instances of JobLifecycle: two callers, interchangeable. *)
EXTENDS JobLifecycle, TLC

Symmetry == Permutations(Callers)
=============================================================================
