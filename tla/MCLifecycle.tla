----------------------------- MODULE MCLifecycle -----------------------------
(* Instances of Lifecycle for TLC. *)
EXTENDS Lifecycle, TLC

CONSTANTS o1, o2, home, other

Symmetry == Permutations({home, other})
=============================================================================
