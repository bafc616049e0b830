----------------------------- MODULE MCDetector -----------------------------
(***************************************************************************)
(* Instances of TrafficDetector for TLC.                                   *)
(***************************************************************************)
EXTENDS TrafficDetector, TLC

CONSTANT norate

\* Usual traffic and twice as much: with the default thresholds of 0 and ratio
\* of 2 the higher rate is anomalous after a baseline of the lower, and normal
\* once the baseline has grown with it.
TwoRates == {1, 2}
=============================================================================
