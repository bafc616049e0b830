------------------------------ MODULE MCLimits ------------------------------
(***************************************************************************)
(* Instance of RequestLimits for TLC.                                      *)
(***************************************************************************)
EXTENDS RequestLimits, TLC

CONSTANTS t1, t2, n1, n2, n3, c1, c2

TwoThreads == {t1, t2}
ThreeNames == {n1, n2, n3}
TwoClients == {c1, c2}

\* Threads are alike, and so are names and clients.
Symmetry == UNION {Permutations(S) : S \in {TwoThreads, ThreeNames, TwoClients}}
=============================================================================
