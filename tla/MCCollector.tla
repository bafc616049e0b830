---------------------------- MODULE MCCollector ----------------------------
(***************************************************************************)
(* Instances of SSHCollector for TLC.                                      *)
(***************************************************************************)
EXTENDS SSHCollector, TLC

CONSTANTS k1, k2, s1, s2, nokey

TwoKeys    == {k1, k2}
TwoSources == {s1, s2}
\* Both keys are failures from one address; nothing is ever logged about s2.
OneAttacker == [k \in TwoKeys |-> s1]
=============================================================================
