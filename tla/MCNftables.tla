----------------------------- MODULE MCNftables -----------------------------
(***************************************************************************)
(* Instances of NftablesService for TLC.                                   *)
(***************************************************************************)
EXTENDS NftablesService

CONSTANTS t1, t2, i4, i6

OneThread  == {t1}
TwoThreads == {t1, t2}
\* One address of each family.
BothFamilies == {i4, i6}
FamilySets == [ip \in BothFamilies |-> IF ip = i4 THEN "set4" ELSE "set6"]
=============================================================================
