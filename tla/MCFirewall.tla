----------------------------- MODULE MCFirewall -----------------------------
(***************************************************************************)
(* Instances of SecMonFirewall for TLC.                                    *)
(***************************************************************************)
EXTENDS SecMonFirewall, TLC

CONSTANTS t1, t2, main, i1, i2, noip

OneThread    == {t1}
TwoThreads   == {t1, t2}
OneIp        == {i1}
TwoIps       == {i1, i2}
\* A host entry for i1 and a subnet over every address.
HostNets     == {{i1}}
SubnetNets   == {{i1}, {i1, i2}}
EveryOp      == AllOps
BlockAllow   == {"block", "allow_add"}
Nobody       == {}

\* What the program can read back: the audit trail and the set of refused
\* addresses are only written, so states that differ in them alone have the
\* same futures and the same value for every property but the audit ones.
Observable == <<rows, allow, stale, attacker, kernel, phase, pc, req, fetched,
                todo, held, faults, crashes, unrepaired, unseen>>

\* The ledger and its audit trail: no step reads the kernel, the attackers' status
\* (while Attackers is empty) or the history, so they decide nothing about them.
LedgerView == <<rows, allow, stale, audit, phase, pc, req, fetched, todo, held,
                faults>>

ThreadSymmetry == Permutations(TwoThreads)
=============================================================================
