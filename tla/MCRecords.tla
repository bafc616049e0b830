------------------------------ MODULE MCRecords ------------------------------
(***************************************************************************)
(* Instance of ApiRecords for TLC.                                         *)
(***************************************************************************)
EXTENDS ApiRecords, TLC

CONSTANTS t1, t2, alice, bob, s1, s2, open, closed, rule

TwoThreads  == {t1, t2}
TwoUsers    == {alice, bob}
TwoSids     == {s1, s2}
TwoStatuses == {open, closed}
OneRule     == {rule}
TwoChannels == {"simulation", "webhook"}

Symmetry == UNION {Permutations(S) : S \in {TwoThreads, TwoUsers, TwoSids, TwoStatuses}}
=============================================================================
