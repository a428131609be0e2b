---------------------------- MODULE MCSafetyGate ----------------------------
(* Instances of SafetyGate for TLC.                                        *)
EXTENDS SafetyGate, TLC

CONSTANTS m1, m2, m3, m4

\* Two entries share the ID m1.
TwinEntries == m1 :> 2 @@ m2 :> 1 @@ m3 :> 1 @@ m4 :> 1
OneEntry == m1 :> 1
=============================================================================
