---------------------------- MODULE MC_Wavefront ----------------------------
(***************************************************************************)
(* Instances of Wavefront for TLC.                                         *)
(***************************************************************************)
EXTENDS Wavefront

CONSTANTS w1, w2, w3

MCWorkersTwo   == {w1, w2}
MCWorkersThree == {w1, w2, w3}

=============================================================================
