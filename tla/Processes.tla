------------------------------ MODULE Processes ------------------------------
(***************************************************************************)
(* The processes of one machine: each runs one command of dlq and exits.   *)
(***************************************************************************)
EXTENDS FiniteSets

CONSTANTS Procs, None   \* None: no file, document, setting or release

ASSUME ProcessesAssumption == IsFiniteSet(Procs)
=============================================================================
