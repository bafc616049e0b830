------------------------------ MODULE MCSamples ------------------------------
(***************************************************************************)
(* Instance of NetworkSamples for TLC.                                     *)
(***************************************************************************)
EXTENDS NetworkSamples

CONSTANTS lo, eth, wifi, i1, i2

LoAndTwo == {lo, eth, wifi}
TwoIndexes == {i1, i2}
=============================================================================
