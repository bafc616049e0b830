---------------------------- MODULE BlockLedger ----------------------------
(***************************************************************************)
(* What the table blocked_ips promises to everything that reads it: a      *)
(* ledger.  An entry is opened for an address that has no open entry, it   *)
(* keeps its address for ever, and it is closed at most once.  Nothing is  *)
(* deleted, renumbered or reopened.  SecMonFirewall is shown to implement  *)
(* this for any number of concurrent requests.                             *)
(***************************************************************************)
EXTENDS Naturals, Sequences

CONSTANT Addresses      \* what an entry can be about

VARIABLE ledger         \* the entries in the order of their row ids

Entry == [address: Addresses, open: BOOLEAN]

IsOpen(a) == \E i \in DOMAIN ledger : ledger[i].address = a /\ ledger[i].open

LedgerInit == ledger = <<>>

\* A block is recorded.
Open(a) ==
    /\ ~IsOpen(a)
    /\ ledger' = Append(ledger, [address |-> a, open |-> TRUE])

\* A block is released, by an administrator or by expiry.
Close(i) ==
    /\ ledger[i].open
    /\ ledger' = [ledger EXCEPT ![i] = [address |-> ledger[i].address,
                                         open |-> FALSE]]

LedgerNext ==
    \/ \E a \in Addresses : Open(a)
    \/ \E i \in DOMAIN ledger : Close(i)

LedgerSpec == LedgerInit /\ [][LedgerNext]_ledger
============================================================================
