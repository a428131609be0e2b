---------------------------- MODULE MCRabbitQueue ----------------------------
(* Instances of RabbitQueue for TLC.                                       *)
EXTENDS RabbitQueue, TLC

CONSTANTS a, b, c1, c2

\* Entries that share an ID, with others before and between them.
TwoIds == 1 :> a @@ 2 :> b @@ 3 :> a @@ 4 :> b
=============================================================================
