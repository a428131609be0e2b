------------------------- MODULE MCRecoveryExecutor -------------------------
(* Instances of RecoveryExecutor for TLC.                                  *)
EXTENDS RecoveryExecutor, TLC

CONSTANTS m1, m2, m3, w1, w2

\* Plans: without a repeated ID, with both places of m1 in one batch, and
\* with the second one in a later batch.
OneEach  == <<m1, m2>>
Twice    == <<m1, m1>>
Returned == <<m1, m2, m1>>

AllChecks == {{"schema", "duplicate", "destination"}}
SomeChecks == {{"schema", "duplicate"}, {"destination"}}

Symmetry == Permutations(Workers)
=============================================================================
