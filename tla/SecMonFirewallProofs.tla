------------------------ MODULE SecMonFirewallProofs ------------------------
(***************************************************************************)
(* What holds of SecMonFirewall for every number of threads, addresses,    *)
(* rows, crashes and faults.                                               *)
(*                                                                         *)
(*   TypeCorrect      every variable keeps its type                        *)
(*   OneActive        at most one active row per address                   *)
(*   LedgerRefined    the rows implement BlockLedger                       *)
(*   HeldRow          a thread's row id stays about its address            *)
(*   LedgerAudit      every row and every release has its audit record     *)
(*   ExpiryAccounts   an expiry pass settles each row it found             *)
(*                                                                         *)
(* and, when requests do not overlap,                                      *)
(*                                                                         *)
(*   AllowlistKept    no active row is about an allowlisted address        *)
(*   SyncedEnforced   a row that claims to be enforced is                  *)
(*   NoOrphans        no element without a row, until the process dies     *)
(***************************************************************************)
EXTENDS SecMonFirewall, SequenceTheorems, TLAPS

\* What a thread's program counter says about its locals: the strengthening
\* that makes the type invariant inductive.
AddressSteps == {"block_existing", "block_kernel", "block_insert",
                 "block_undo", "block_undo_audit", "unblock_kernel",
                 "unblock_update", "unblock_redo"}

AllowSteps == {"allow_select", "allow_insert", "allow_find", "allow_remove"}

LocalsInv ==
    /\ \A t \in Procs : pc[t] = "idle" =>
         fetched[t] = {} /\ todo[t] = {} /\ held[t] = 0 /\ faults[t] = 0
    /\ \A t \in Threads : pc[t] \in AddressSteps => req[t].ip \in IPs
    /\ \A t \in Threads : held[t] # 0 =>
         pc[t] \in {"unblock_kernel", "unblock_update", "unblock_redo"}
    /\ \A t \in Threads :
         pc[t] \in {"unblock_update", "unblock_redo"} => held[t] # 0
    /\ \A t \in Threads : pc[t] \in AllowSteps => req[t].net \in Networks
    /\ phase # "serving" => \A t \in Threads : pc[t] = "idle"
    /\ phase # "starting" => pc[Main] = "idle"

Inv == TypeOK /\ LocalsInv

USE ThreadsAssumption, AddressAssumption, NetworksAssumption, OpsAssumption,
    BoundsAssumption

\* What Return does to the locals: those of the thread are emptied, those of
\* the other threads stay.
Returned(t, from) ==
    /\ pc[t] = from
    /\ pc' \in [Procs -> Steps]
    /\ req' \in [Procs -> Requests \union {NoReq}]
    /\ fetched' \in [Procs -> SUBSET DOMAIN rows]
    /\ todo' \in [Procs -> SUBSET DOMAIN rows]
    /\ held' \in [Procs -> 0 .. Len(rows)]
    /\ faults' \in [Procs -> Nat]
    /\ pc'[t] = "idle" /\ req'[t] = NoReq /\ fetched'[t] = {}
    /\ todo'[t] = {} /\ held'[t] = 0 /\ faults'[t] = 0
    /\ \A u \in Procs \ {t} :
         /\ pc'[u] = pc[u] /\ req'[u] = req[u]
         /\ fetched'[u] = fetched[u] /\ todo'[u] = todo[u]
         /\ held'[u] = held[u] /\ faults'[u] = faults[u]

\* What Goto does to the program counters.
Gone(t, from, to) ==
    /\ pc[t] = from
    /\ pc' \in [Procs -> Steps]
    /\ pc'[t] = to
    /\ \A u \in Procs \ {t} : pc'[u] = pc[u]

LEMMA ProcFacts == Threads \subseteq Procs /\ Main \in Procs /\ Main \notin Threads
  BY DEF Procs

LEMMA RequestFacts ==
    \A r \in Requests \union {NoReq} :
        /\ r.ip \in IPs \union {NoIp}
        /\ r.op \in {"allow_add", "allow_remove"} => r.net \in Networks
  BY DEF Requests, NoReq

LEMMA ReturnLocals ==
    ASSUME TypeOK, NEW t \in Procs, NEW from, Return(t, from)
    PROVE  Returned(t, from)
<1>1. Len(rows) \in Nat
  BY DEF TypeOK, StoreTypeOK
<1> QED
  BY <1>1 DEF TypeOK, ProcessTypeOK, Return, Goto, Steps, Returned

LEMMA ReturnKeepsLocals ==
    ASSUME Inv, NEW t \in Threads, NEW from, Returned(t, from), phase' = phase,
           phase = "serving"
    PROVE  LocalsInv'
  BY ProcFacts DEF Inv, LocalsInv, Returned, AddressSteps, AllowSteps

LEMMA GotoPc ==
    ASSUME TypeOK, NEW t \in Procs, NEW from, NEW to \in Steps, Goto(t, from, to)
    PROVE  Gone(t, from, to)
  BY DEF TypeOK, ProcessTypeOK, Goto, Gone

\* The updates of blocked_ips keep its type, its ids and its addresses.
LEMMA RowAddress ==
    ASSUME rows \in Seq(Row)
    PROVE  \A i \in DOMAIN rows : rows[i].ip \in IPs
<1> TAKE i \in DOMAIN rows
<1>1. rows[i] \in Row
  OBVIOUS
<1> QED
  BY <1>1 DEF Row

LEMMA ReplacedRow ==
    ASSUME rows \in Seq(Row), NEW i \in DOMAIN rows, NEW r \in Row,
           r.ip = rows[i].ip
    PROVE  /\ [rows EXCEPT ![i] = r] \in Seq(Row)
           /\ Len([rows EXCEPT ![i] = r]) = Len(rows)
           /\ DOMAIN [rows EXCEPT ![i] = r] = DOMAIN rows
           /\ [rows EXCEPT ![i] = r][i] = r
           /\ \A j \in DOMAIN rows \ {i} : [rows EXCEPT ![i] = r][j] = rows[j]
<1>1. i \in 1 .. Len(rows) /\ DOMAIN rows = 1 .. Len(rows)
  OBVIOUS
<1>2. /\ [rows EXCEPT ![i] = r] \in Seq(Row)
      /\ Len([rows EXCEPT ![i] = r]) = Len(rows)
      /\ \A j \in 1 .. Len(rows) :
           [rows EXCEPT ![i] = r][j] = IF j = i THEN r ELSE rows[j]
  BY <1>1, ExceptSeq
<1>3. DOMAIN [rows EXCEPT ![i] = r] = DOMAIN rows
  OBVIOUS
<1> QED
  BY <1>1, <1>2, <1>3

LEMMA MarkedRows ==
    ASSUME rows \in Seq(Row), NEW i \in DOMAIN rows, NEW synced \in BOOLEAN
    PROVE  /\ Marked(i, synced) \in Seq(Row)
           /\ Len(Marked(i, synced)) = Len(rows)
           /\ DOMAIN Marked(i, synced) = DOMAIN rows
           /\ Marked(i, synced)[i].ip = rows[i].ip
           /\ Marked(i, synced)[i].active = rows[i].active
           /\ Marked(i, synced)[i].synced = synced
           /\ Marked(i, synced)[i].expiry = rows[i].expiry
           /\ \A j \in DOMAIN rows \ {i} : Marked(i, synced)[j] = rows[j]
<1> DEFINE new == [ip |-> rows[i].ip, active |-> rows[i].active,
                   synced |-> synced, expiry |-> rows[i].expiry]
<1>1. rows[i] \in Row
  OBVIOUS
<1>2. /\ new \in Row /\ new.ip = rows[i].ip /\ new.active = rows[i].active
      /\ new.synced = synced /\ new.expiry = rows[i].expiry
  BY <1>1 DEF Row
<1>3. Marked(i, synced) = [rows EXCEPT ![i] = new]
  BY DEF Marked
<1> HIDE DEF new
<1> QED
  BY <1>2, <1>3, ReplacedRow

LEMMA ReleasedRows ==
    ASSUME rows \in Seq(Row), NEW i \in DOMAIN rows
    PROVE  /\ Released(i) \in Seq(Row)
           /\ Len(Released(i)) = Len(rows)
           /\ DOMAIN Released(i) = DOMAIN rows
           /\ Released(i)[i].ip = rows[i].ip
           /\ ~Released(i)[i].active
           /\ Released(i)[i].expiry = rows[i].expiry
           /\ \A j \in DOMAIN rows \ {i} : Released(i)[j] = rows[j]
<1> DEFINE new == [ip |-> rows[i].ip, active |-> FALSE,
                   synced |-> TRUE, expiry |-> rows[i].expiry]
<1>1. rows[i] \in Row
  OBVIOUS
<1>2. new \in Row /\ new.ip = rows[i].ip /\ ~new.active /\ new.expiry = rows[i].expiry
  BY <1>1 DEF Row
<1>3. Released(i) = IF rows[i].active THEN [rows EXCEPT ![i] = new] ELSE rows
  BY DEF Released
<1> HIDE DEF new
<1> QED
  BY <1>2, <1>3, ReplacedRow

LEMMA TickedRows ==
    ASSUME rows \in Seq(Row), NEW i \in DOMAIN rows,
           rows' = [rows EXCEPT ![i] =
                      [ip |-> rows[i].ip, active |-> rows[i].active,
                       synced |-> rows[i].synced, expiry |-> "past"]]
    PROVE  /\ rows' \in Seq(Row)
           /\ Len(rows') = Len(rows)
           /\ DOMAIN rows' = DOMAIN rows
           /\ rows'[i].ip = rows[i].ip
           /\ rows'[i].active = rows[i].active
           /\ rows'[i].synced = rows[i].synced
           /\ rows'[i].expiry = "past"
           /\ \A j \in DOMAIN rows \ {i} : rows'[j] = rows[j]
<1> DEFINE new == [ip |-> rows[i].ip, active |-> rows[i].active,
                   synced |-> rows[i].synced, expiry |-> "past"]
<1>1. rows[i] \in Row /\ i \in 1 .. Len(rows) /\ DOMAIN rows = 1 .. Len(rows)
  OBVIOUS
<1>2. new \in Row
  BY <1>1 DEF Row
<1>3. /\ rows' \in Seq(Row)
      /\ Len(rows') = Len(rows)
      /\ \A j \in 1 .. Len(rows) : rows'[j] = IF j = i THEN new ELSE rows[j]
  BY <1>1, <1>2, ExceptSeq
<1>4. DOMAIN rows' = DOMAIN rows
  OBVIOUS
<1> QED
  BY <1>1, <1>3, <1>4

LEMMA AppendedRows ==
    ASSUME rows \in Seq(Row), NEW r \in Row
    PROVE  /\ Append(rows, r) \in Seq(Row)
           /\ Len(Append(rows, r)) = Len(rows) + 1
           /\ Len(rows) \in Nat
           /\ DOMAIN rows = 1 .. Len(rows)
           /\ DOMAIN Append(rows, r) = 1 .. (Len(rows) + 1)
           /\ Append(rows, r)[Len(rows) + 1] = r
           /\ \A j \in DOMAIN rows : Append(rows, r)[j] = rows[j]
  OBVIOUS

\* Types and locals are kept by every step.
LEMMA Invariant == Spec => []Inv
<1>1. Init => Inv
  BY DEF Init, Inv, TypeOK, StoreTypeOK, ProcessTypeOK, LocalsInv, Steps, Procs,
         AddressSteps, AllowSteps
<1>2. Inv /\ [Next]_vars => Inv'
  <2> SUFFICES ASSUME Inv, [Next]_vars PROVE Inv'
    OBVIOUS
  <2>1. ASSUME NEW t \in Threads, ListRead(t) PROVE Inv'
    <3>1. Returned(t, "list_read")
      BY <2>1, ProcFacts, ReturnLocals DEF ListRead, Inv, Steps
    <3>2. StoreTypeOK'
      BY <2>1, <3>1, ProcFacts DEF Inv, TypeOK, ListRead, StoreTypeOK, db, history
    <3>3. ProcessTypeOK'
      BY <2>1, <3>1, ProcFacts DEF Inv, TypeOK, ListRead, ProcessTypeOK, StoreTypeOK,
         db, locals, Returned, Gone, history
    <3>4. LocalsInv'
      BY <2>1, <3>1, ProcFacts DEF Inv, TypeOK, ListRead, LocalsInv, AddressSteps,
         AllowSteps, ProcessTypeOK, locals, Returned, Gone, history
    <3> QED
      BY <3>2, <3>3, <3>4 DEF Inv, TypeOK
  <2>2. ASSUME NEW t \in Threads, BlockReject(t) PROVE Inv'
    <3>1. Returned(t, "block_allowlist")
      BY <2>2, ProcFacts, ReturnLocals DEF BlockReject, Inv, Steps
    <3>2. StoreTypeOK'
      BY <2>2, <3>1, ProcFacts DEF Inv, TypeOK, BlockReject, StoreTypeOK, db, history
    <3>3. ProcessTypeOK'
      BY <2>2, <3>1, ProcFacts DEF Inv, TypeOK, BlockReject, ProcessTypeOK,
         StoreTypeOK, db, locals, Returned, Gone, history
    <3>4. LocalsInv'
      <4>1. phase' = phase /\ phase = "serving"
        BY <2>2, <3>1 DEF BlockReject, Inv, LocalsInv, Returned
      <4> QED
        BY <3>1, <4>1, ReturnKeepsLocals
    <3> QED
      BY <3>2, <3>3, <3>4 DEF Inv, TypeOK
  <2>3. ASSUME NEW t \in Threads, BlockDenied(t) PROVE Inv'
    <3>1. Returned(t, "block_allowlist")
      BY <2>3, ProcFacts, ReturnLocals DEF BlockDenied, Inv, Steps
    <3>2. StoreTypeOK'
      BY <2>3, <3>1, ProcFacts, RequestFacts DEF Inv, TypeOK, BlockDenied, StoreTypeOK,
         db, ProcessTypeOK, history
    <3>3. ProcessTypeOK'
      BY <2>3, <3>1, ProcFacts DEF Inv, TypeOK, BlockDenied, ProcessTypeOK,
         StoreTypeOK, db, locals, Returned, Gone, history
    <3>4. LocalsInv'
      BY <2>3, <3>1, ProcFacts DEF Inv, TypeOK, BlockDenied, LocalsInv, AddressSteps,
         AllowSteps, ProcessTypeOK, locals, Returned, Gone, history
    <3> QED
      BY <3>2, <3>3, <3>4 DEF Inv, TypeOK
  <2>4. ASSUME NEW t \in Threads, BlockAllowlist(t) PROVE Inv'
    <3>1. Gone(t, "block_allowlist", "block_existing")
      BY <2>4, ProcFacts, GotoPc DEF BlockAllowlist, Inv, Steps
    <3>2. StoreTypeOK'
      BY <2>4, <3>1, ProcFacts DEF Inv, TypeOK, BlockAllowlist, StoreTypeOK, db, history
    <3>3. ProcessTypeOK'
      BY <2>4, <3>1, ProcFacts DEF Inv, TypeOK, BlockAllowlist, ProcessTypeOK,
         StoreTypeOK, db, locals, Returned, Gone, history
    <3>4. LocalsInv'
      BY <2>4, <3>1, ProcFacts, RequestFacts DEF Inv, TypeOK, BlockAllowlist,
         LocalsInv, AddressSteps, AllowSteps, ProcessTypeOK, locals, Returned, Gone, history
    <3> QED
      BY <3>2, <3>3, <3>4 DEF Inv, TypeOK
  <2>5. ASSUME NEW t \in Threads, BlockLost(t) PROVE Inv'
    <3>1. Returned(t, "block_insert")
      BY <2>5, ProcFacts, ReturnLocals DEF BlockLost, Inv, Steps
    <3>2. StoreTypeOK'
      BY <2>5, <3>1, ProcFacts DEF Inv, TypeOK, BlockLost, StoreTypeOK, db, history
    <3>3. ProcessTypeOK'
      BY <2>5, <3>1, ProcFacts DEF Inv, TypeOK, BlockLost, ProcessTypeOK, StoreTypeOK,
         db, locals, Returned, Gone, history
    <3>4. LocalsInv'
      BY <2>5, <3>1, ProcFacts DEF Inv, TypeOK, BlockLost, LocalsInv, AddressSteps,
         AllowSteps, ProcessTypeOK, locals, Returned, Gone, history
    <3> QED
      BY <3>2, <3>3, <3>4 DEF Inv, TypeOK
  <2>6. ASSUME NEW t \in Threads, BlockUndo(t) PROVE Inv'
    <3>0. faults' \in [Procs -> Nat]
            /\ \A u \in Procs \ {t} : faults'[u] = faults[u]
      <4>1. faults' = faults \/ faults' = [faults EXCEPT ![t] = @ + 1]
        BY <2>6 DEF BlockUndo, CountFault, Unblocked, Unrepaired, FailedCall
      <4> QED
        BY <4>1, ProcFacts DEF Inv, TypeOK, ProcessTypeOK
    <3>1. Gone(t, "block_undo", "block_undo_audit")
      BY <2>6, ProcFacts, GotoPc DEF BlockUndo, Inv, Steps, Unblocked, Unrepaired,
         FailedCall
    <3>2. StoreTypeOK'
      <4>1. req[t].ip \in IPs
        BY <3>1, ProcFacts DEF Inv, LocalsInv, AddressSteps, Gone
      <4>2. kernel' \subseteq IPs /\ unrepaired' \subseteq IPs
        BY <2>6, <4>1 DEF BlockUndo, Unblocked, Unrepaired, FailedCall, Inv, TypeOK,
           StoreTypeOK
      <4> QED
        BY <2>6, <4>2 DEF Inv, TypeOK, BlockUndo, StoreTypeOK, db
    <3>3. ProcessTypeOK'
      BY <2>6, <3>1, <3>0, ProcFacts DEF Inv, TypeOK, BlockUndo, ProcessTypeOK,
         StoreTypeOK, db, locals, Returned, Gone, Unblocked, Unrepaired, FailedCall, history
    <3>4. LocalsInv'
      BY <2>6, <3>1, <3>0, ProcFacts DEF Inv, TypeOK, BlockUndo, LocalsInv,
         AddressSteps, AllowSteps, ProcessTypeOK, locals, Returned, Gone, Unblocked,
         Unrepaired, FailedCall, history
    <3> QED
      BY <3>2, <3>3, <3>4 DEF Inv, TypeOK
  <2>7. ASSUME NEW t \in Threads, BlockUndoAudit(t) PROVE Inv'
    <3>1. Returned(t, "block_undo_audit")
      BY <2>7, ProcFacts, ReturnLocals DEF BlockUndoAudit, Inv, Steps
    <3>2. StoreTypeOK'
      BY <2>7, <3>1, ProcFacts DEF Inv, TypeOK, BlockUndoAudit, StoreTypeOK, db, history
    <3>3. ProcessTypeOK'
      BY <2>7, <3>1, ProcFacts DEF Inv, TypeOK, BlockUndoAudit, ProcessTypeOK,
         StoreTypeOK, db, locals, Returned, Gone, history
    <3>4. LocalsInv'
      BY <2>7, <3>1, ProcFacts DEF Inv, TypeOK, BlockUndoAudit, LocalsInv,
         AddressSteps, AllowSteps, ProcessTypeOK, locals, Returned, Gone, history
    <3> QED
      BY <3>2, <3>3, <3>4 DEF Inv, TypeOK
  <2>8. ASSUME NEW t \in Threads, UnblockReject(t) PROVE Inv'
    <3>1. Returned(t, "unblock_select")
      BY <2>8, ProcFacts, ReturnLocals DEF UnblockReject, Inv, Steps
    <3>2. StoreTypeOK'
      BY <2>8, <3>1, ProcFacts DEF Inv, TypeOK, UnblockReject, StoreTypeOK, db, history
    <3>3. ProcessTypeOK'
      BY <2>8, <3>1, ProcFacts DEF Inv, TypeOK, UnblockReject, ProcessTypeOK,
         StoreTypeOK, db, locals, Returned, Gone, history
    <3>4. LocalsInv'
      <4>1. phase' = phase /\ pc[t] # "idle"
        BY <2>8, <3>1 DEF UnblockReject, Returned
      <4>2. phase = "serving"
        BY <4>1 DEF Inv, LocalsInv
      <4> QED
        BY <3>1, <4>1, <4>2, ReturnKeepsLocals
    <3> QED
      BY <3>2, <3>3, <3>4 DEF Inv, TypeOK
  <2>9. ASSUME NEW t \in Threads, UnblockSelect(t) PROVE Inv'
    <3>0. /\ held' \in [Procs -> 0 .. Len(rows)]
          /\ \A u \in Procs \ {t} : held'[u] = held[u]
      <4>1. \A i \in ActiveFor(req[t].ip) : i \in 0 .. Len(rows)
        BY DEF Inv, TypeOK, ActiveFor, ActiveRows, StoreTypeOK
      <4>2. held \in [Procs -> 0 .. Len(rows)]
        BY DEF Inv, TypeOK, ProcessTypeOK
      <4> QED
        BY <2>9, <4>1, <4>2, ProcFacts DEF UnblockSelect
    <3>1. Gone(t, "unblock_select", "unblock_kernel")
      BY <2>9, ProcFacts, GotoPc DEF UnblockSelect, Inv, Steps
    <3>2. StoreTypeOK'
      BY <2>9, <3>1, <3>0, ProcFacts DEF Inv, TypeOK, UnblockSelect, StoreTypeOK, db,
         history
    <3>3. ProcessTypeOK'
      BY <2>9, <3>1, <3>0, ProcFacts DEF Inv, TypeOK, UnblockSelect, ProcessTypeOK,
         StoreTypeOK, db, locals, Returned, Gone, history
    <3>4. LocalsInv'
      BY <2>9, <3>1, <3>0, ProcFacts, RequestFacts DEF Inv, TypeOK, UnblockSelect,
         LocalsInv, AddressSteps, AllowSteps, ProcessTypeOK, locals, Returned, Gone, history
    <3> QED
      BY <3>2, <3>3, <3>4 DEF Inv, TypeOK
  <2>10. ASSUME NEW t \in Threads, UnblockUpdate(t) PROVE Inv'
    <3>0. /\ Released(held[t]) \in Seq(Row)
          /\ Len(Released(held[t])) = Len(rows)
          /\ DOMAIN Released(held[t]) = DOMAIN rows
      BY <2>10, ProcFacts, ReleasedRows DEF UnblockUpdate, Inv, TypeOK, LocalsInv,
         ProcessTypeOK, StoreTypeOK, Return, Goto, history
    <3>1. Returned(t, "unblock_update")
      BY <2>10, ProcFacts, ReturnLocals DEF UnblockUpdate, Inv, Steps
    <3>2. StoreTypeOK'
      BY <2>10, <3>1, <3>0, ProcFacts DEF Inv, TypeOK, UnblockUpdate, StoreTypeOK, db,
         history
    <3>3. ProcessTypeOK'
      BY <2>10, <3>1, <3>0, ProcFacts DEF Inv, TypeOK, UnblockUpdate, ProcessTypeOK,
         StoreTypeOK, db, locals, Returned, Gone, history
    <3>4. LocalsInv'
      BY <2>10, <3>1, <3>0, ProcFacts DEF Inv, TypeOK, UnblockUpdate, LocalsInv,
         AddressSteps, AllowSteps, ProcessTypeOK, locals, Returned, Gone, history
    <3> QED
      BY <3>2, <3>3, <3>4 DEF Inv, TypeOK
  <2>11. ASSUME NEW t \in Threads, UnblockRedo(t) PROVE Inv'
    <3>0. req[t].ip \in IPs
      BY <2>11, ProcFacts, RequestFacts DEF UnblockRedo, Inv, TypeOK, ProcessTypeOK,
         LocalsInv, AddressSteps, Goto, Return, Blocked, Unrepaired, FailedCall, history
    <3>1. Returned(t, "unblock_redo")
      BY <2>11, ProcFacts, ReturnLocals DEF UnblockRedo, Inv, Steps, Blocked,
         Unrepaired, FailedCall
    <3>2. StoreTypeOK'
      BY <2>11, <3>1, <3>0, ProcFacts DEF Inv, TypeOK, UnblockRedo, StoreTypeOK, db,
         FailedCall, Blocked, Unrepaired, history
    <3>3. ProcessTypeOK'
      BY <2>11, <3>1, <3>0, ProcFacts DEF Inv, TypeOK, UnblockRedo, ProcessTypeOK,
         StoreTypeOK, db, locals, Returned, Gone, Blocked, Unrepaired, FailedCall, history
    <3>4. LocalsInv'
      BY <2>11, <3>1, <3>0, ProcFacts DEF Inv, TypeOK, UnblockRedo, LocalsInv,
         AddressSteps, AllowSteps, ProcessTypeOK, locals, Returned, Gone, Blocked,
         Unrepaired, FailedCall, history
    <3> QED
      BY <3>2, <3>3, <3>4 DEF Inv, TypeOK
  <2>12. ASSUME NEW t \in Threads, AllowInsert(t) PROVE Inv'
    <3>0. req[t].net \in Networks
      BY <2>12, ProcFacts DEF AllowInsert, Inv, TypeOK, LocalsInv, AllowSteps, Goto, Return
    <3>1. Returned(t, "allow_insert")
      BY <2>12, ProcFacts, ReturnLocals DEF AllowInsert, Inv, Steps
    <3>2. StoreTypeOK'
      BY <2>12, <3>1, <3>0, ProcFacts DEF Inv, TypeOK, AllowInsert, StoreTypeOK, db, history
    <3>3. ProcessTypeOK'
      BY <2>12, <3>1, <3>0, ProcFacts DEF Inv, TypeOK, AllowInsert, ProcessTypeOK,
         StoreTypeOK, db, locals, Returned, Gone, history
    <3>4. LocalsInv'
      BY <2>12, <3>1, <3>0, ProcFacts DEF Inv, TypeOK, AllowInsert, LocalsInv,
         AddressSteps, AllowSteps, ProcessTypeOK, locals, Returned, Gone, history
    <3> QED
      BY <3>2, <3>3, <3>4 DEF Inv, TypeOK
  <2>13. ASSUME NEW t \in Threads, AllowRemove(t) PROVE Inv'
    <3>1. Returned(t, "allow_remove")
      BY <2>13, ProcFacts, ReturnLocals DEF AllowRemove, Inv, Steps
    <3>2. StoreTypeOK'
      BY <2>13, <3>1, ProcFacts DEF Inv, TypeOK, AllowRemove, StoreTypeOK, db, history
    <3>3. ProcessTypeOK'
      BY <2>13, <3>1, ProcFacts DEF Inv, TypeOK, AllowRemove, ProcessTypeOK,
         StoreTypeOK, db, locals, Returned, Gone, history
    <3>4. LocalsInv'
      BY <2>13, <3>1, ProcFacts DEF Inv, TypeOK, AllowRemove, LocalsInv, AddressSteps,
         AllowSteps, ProcessTypeOK, locals, Returned, Gone, history
    <3> QED
      BY <3>2, <3>3, <3>4 DEF Inv, TypeOK
  <2>14. ASSUME NEW t \in Procs, ExpireSelect(t) PROVE Inv'
    <3>1. Gone(t, "expire_select", "expire_loop")
      BY <2>14, ProcFacts, GotoPc DEF ExpireSelect, Inv, Steps
    <3>2. StoreTypeOK'
      BY <2>14, <3>1, ProcFacts DEF Inv, TypeOK, ExpireSelect, StoreTypeOK, db, history
    <3>3. ProcessTypeOK'
      BY <2>14, <3>1, ProcFacts DEF Inv, TypeOK, ExpireSelect, ProcessTypeOK,
         StoreTypeOK, db, locals, Returned, Gone, Fetch, Overdue, ActiveRows, history
    <3>4. LocalsInv'
      BY <2>14, <3>1, ProcFacts DEF Inv, TypeOK, ExpireSelect, LocalsInv, AddressSteps,
         AllowSteps, ProcessTypeOK, locals, Returned, Gone, Fetch, history
    <3> QED
      BY <3>2, <3>3, <3>4 DEF Inv, TypeOK
  <2>15. ASSUME NEW t \in Threads, BlockExisting(t) PROVE Inv'
    <3>1. \/ Returned(t, "block_existing")
          \/ Gone(t, "block_existing", "block_kernel") /\ UNCHANGED <<locals, faults>>
      BY <2>15, ProcFacts, ReturnLocals, GotoPc DEF BlockExisting, Inv, Steps
    <3>2. StoreTypeOK'
      BY <2>15, <3>1, ProcFacts DEF Inv, TypeOK, BlockExisting, StoreTypeOK, db, history
    <3>3. ProcessTypeOK'
      BY <2>15, <3>1, ProcFacts DEF Inv, TypeOK, BlockExisting, ProcessTypeOK,
         StoreTypeOK, db, locals, Returned, Gone, history
    <3>4. LocalsInv'
      BY <2>15, <3>1, ProcFacts DEF Inv, TypeOK, BlockExisting, LocalsInv,
         AddressSteps, AllowSteps, ProcessTypeOK, locals, Returned, Gone, history
    <3> QED
      BY <3>2, <3>3, <3>4 DEF Inv, TypeOK
  <2>16. ASSUME NEW t \in Threads, BlockKernel(t) PROVE Inv'
    <3>0. req[t].ip \in IPs
      BY <2>16, ProcFacts, RequestFacts DEF BlockKernel, Inv, TypeOK, ProcessTypeOK,
         LocalsInv, AddressSteps, Goto, Return, Blocked, history
    <3>1. \/ Returned(t, "block_kernel")
          \/ Gone(t, "block_kernel", "block_insert") /\ UNCHANGED <<locals, faults>>
      BY <2>16, ProcFacts, ReturnLocals, GotoPc DEF BlockKernel, Inv, Steps, Blocked
    <3>2. StoreTypeOK'
      BY <2>16, <3>1, <3>0, ProcFacts DEF Inv, TypeOK, BlockKernel, StoreTypeOK, db,
         FailedCall, Blocked, history
    <3>3. ProcessTypeOK'
      BY <2>16, <3>1, <3>0, ProcFacts DEF Inv, TypeOK, BlockKernel, ProcessTypeOK,
         StoreTypeOK, db, locals, Returned, Gone, Blocked, history
    <3>4. LocalsInv'
      BY <2>16, <3>1, <3>0, ProcFacts DEF Inv, TypeOK, BlockKernel, LocalsInv,
         AddressSteps, AllowSteps, ProcessTypeOK, locals, Returned, Gone, Blocked, history
    <3> QED
      BY <3>2, <3>3, <3>4 DEF Inv, TypeOK
  <2>17. ASSUME NEW t \in Threads, UnblockKernel(t) PROVE Inv'
    <3>1. \/ Returned(t, "unblock_kernel")
          \/ Gone(t, "unblock_kernel", "unblock_update") /\ held[t] # 0 /\ UNCHANGED <<locals, faults>>
      BY <2>17, ProcFacts, ReturnLocals, GotoPc DEF UnblockKernel, Inv, Steps, Unblocked
    <3>2. StoreTypeOK'
      BY <2>17, <3>1, ProcFacts DEF Inv, TypeOK, UnblockKernel, StoreTypeOK, db,
         FailedCall, Unblocked, history
    <3>3. ProcessTypeOK'
      BY <2>17, <3>1, ProcFacts DEF Inv, TypeOK, UnblockKernel, ProcessTypeOK,
         StoreTypeOK, db, locals, Returned, Gone, Unblocked, history
    <3>4. LocalsInv'
      BY <2>17, <3>1, ProcFacts DEF Inv, TypeOK, UnblockKernel, LocalsInv,
         AddressSteps, AllowSteps, ProcessTypeOK, locals, Returned, Gone, Unblocked, history
    <3> QED
      BY <3>2, <3>3, <3>4 DEF Inv, TypeOK
  <2>18. ASSUME NEW t \in Threads, AllowSelect(t) PROVE Inv'
    <3>1. \/ Returned(t, "allow_select")
          \/ Gone(t, "allow_select", "allow_insert") /\ UNCHANGED <<locals, faults>>
      BY <2>18, ProcFacts, ReturnLocals, GotoPc DEF AllowSelect, Inv, Steps
    <3>2. StoreTypeOK'
      BY <2>18, <3>1, ProcFacts DEF Inv, TypeOK, AllowSelect, StoreTypeOK, db, history
    <3>3. ProcessTypeOK'
      BY <2>18, <3>1, ProcFacts DEF Inv, TypeOK, AllowSelect, ProcessTypeOK,
         StoreTypeOK, db, locals, Returned, Gone, history
    <3>4. LocalsInv'
      BY <2>18, <3>1, ProcFacts DEF Inv, TypeOK, AllowSelect, LocalsInv, AddressSteps,
         AllowSteps, ProcessTypeOK, locals, Returned, Gone, history
    <3> QED
      BY <3>2, <3>3, <3>4 DEF Inv, TypeOK
  <2>19. ASSUME NEW t \in Threads, BlockInsert(t) PROVE Inv'
    <3>0. /\ NewRow(req[t]) \in Row /\ req[t].ip \in IPs
          /\ rows' \in Seq(Row) /\ Len(rows') = Len(rows) + 1 /\ Len(rows) \in Nat
          /\ DOMAIN rows = 1 .. Len(rows) /\ DOMAIN rows' = 1 .. (Len(rows) + 1)
      BY <2>19, ProcFacts, AppendedRows, RequestFacts DEF BlockInsert, Inv, TypeOK,
         NewRow, Row, LocalsInv, AddressSteps, ProcessTypeOK, StoreTypeOK, Goto,
         Return, ShownBlocked, history
    <3>1. Returned(t, "block_insert")
      BY <2>19, ProcFacts, ReturnLocals DEF BlockInsert, Inv, Steps, ShownBlocked
    <3>2. StoreTypeOK'
      BY <2>19, <3>1, <3>0, ProcFacts DEF Inv, TypeOK, BlockInsert, StoreTypeOK, db,
         ShownBlocked, history
    <3>3. ProcessTypeOK'
      BY <2>19, <3>1, <3>0, ProcFacts DEF Inv, TypeOK, BlockInsert, ProcessTypeOK,
         StoreTypeOK, db, locals, Returned, Gone, ShownBlocked, history
    <3>4. LocalsInv'
      BY <2>19, <3>1, <3>0, ProcFacts DEF Inv, TypeOK, BlockInsert, LocalsInv,
         AddressSteps, AllowSteps, ProcessTypeOK, locals, Returned, Gone, ShownBlocked,
         history
    <3> QED
      BY <3>2, <3>3, <3>4 DEF Inv, TypeOK
  <2>20. ASSUME NEW t \in Procs, ExpireUnblock(t) PROVE Inv'
    <3>1. Gone(t, "expire_loop", "expire_release")
      BY <2>20, ProcFacts, GotoPc DEF ExpireUnblock, Inv, Steps, Unblocked
    <3>2. StoreTypeOK'
      BY <2>20, <3>1, ProcFacts DEF Inv, TypeOK, ExpireUnblock, Unblocked, StoreTypeOK,
         db, history
    <3>3. ProcessTypeOK'
      BY <2>20, <3>1, ProcFacts DEF Inv, TypeOK, ExpireUnblock, ProcessTypeOK,
         StoreTypeOK, db, locals, Returned, Gone, Unblocked, history
    <3>4. LocalsInv'
      BY <2>20, <3>1, ProcFacts DEF Inv, TypeOK, ExpireUnblock, LocalsInv,
         AddressSteps, AllowSteps, ProcessTypeOK, locals, Returned, Gone, Unblocked, history
    <3> QED
      BY <3>2, <3>3, <3>4 DEF Inv, TypeOK
  <2>21. ASSUME NEW t \in Procs, ExpireUnblockFails(t) PROVE Inv'
    <3>0. faults' \in [Procs -> Nat]
            /\ \A u \in Procs \ {t} : faults'[u] = faults[u]
      BY <2>21, ProcFacts DEF ExpireUnblockFails, Inv, TypeOK, CountFault,
         ProcessTypeOK, history
    <3>1. Gone(t, "expire_loop", "expire_mark")
      BY <2>21, ProcFacts, GotoPc DEF ExpireUnblockFails, Inv, Steps
    <3>2. StoreTypeOK'
      BY <2>21, <3>1, <3>0, ProcFacts DEF Inv, TypeOK, ExpireUnblockFails, StoreTypeOK,
         db, FailedCall, history
    <3>3. ProcessTypeOK'
      BY <2>21, <3>1, <3>0, ProcFacts DEF Inv, TypeOK, ExpireUnblockFails,
         ProcessTypeOK, StoreTypeOK, db, locals, Returned, Gone, history
    <3>4. LocalsInv'
      BY <2>21, <3>1, <3>0, ProcFacts DEF Inv, TypeOK, ExpireUnblockFails, LocalsInv,
         AddressSteps, AllowSteps, ProcessTypeOK, locals, Returned, Gone, history
    <3> QED
      BY <3>2, <3>3, <3>4 DEF Inv, TypeOK
  <2>22. ASSUME NEW t \in Procs, ExpireRelease(t) PROVE Inv'
    <3>0. /\ rows' \in Seq(Row) /\ Len(rows') = Len(rows)
          /\ DOMAIN rows' = DOMAIN rows
          /\ todo' \in [Procs -> SUBSET DOMAIN rows]
          /\ \A u \in Procs : pc[u] = "idle" => todo'[u] = {}
      BY <2>22, ProcFacts, ReleasedRows DEF ExpireRelease, Inv, TypeOK, LocalsInv,
         ProcessTypeOK, StoreTypeOK, Goto, First, history
    <3>1. Gone(t, "expire_release", "expire_loop")
      BY <2>22, ProcFacts, GotoPc DEF ExpireRelease, Inv, Steps
    <3>2. StoreTypeOK'
      BY <2>22, <3>1, <3>0, ProcFacts DEF Inv, TypeOK, ExpireRelease, StoreTypeOK, db,
         history
    <3>3. ProcessTypeOK'
      BY <2>22, <3>1, <3>0, ProcFacts DEF Inv, TypeOK, ExpireRelease, ProcessTypeOK,
         StoreTypeOK, db, locals, Returned, Gone, history
    <3>4. LocalsInv'
      BY <2>22, <3>1, <3>0, ProcFacts DEF Inv, TypeOK, ExpireRelease, LocalsInv,
         AddressSteps, AllowSteps, ProcessTypeOK, locals, Returned, Gone, history
    <3> QED
      BY <3>2, <3>3, <3>4 DEF Inv, TypeOK
  <2>23. ASSUME NEW t \in Procs, ExpireMark(t) PROVE Inv'
    <3>0. /\ rows' \in Seq(Row) /\ Len(rows') = Len(rows)
          /\ DOMAIN rows' = DOMAIN rows
          /\ todo' \in [Procs -> SUBSET DOMAIN rows]
          /\ \A u \in Procs : pc[u] = "idle" => todo'[u] = {}
      <4>1. PICK i \in todo[t] : /\ rows' = Marked(i, FALSE)
                                 /\ todo' = [todo EXCEPT ![t] = @ \ {i}]
        BY <2>23 DEF ExpireMark
      <4>2. rows \in Seq(Row) /\ i \in DOMAIN rows
        BY <2>23 DEF Inv, TypeOK, ProcessTypeOK, StoreTypeOK
      <4>3. /\ rows' \in Seq(Row) /\ Len(rows') = Len(rows)
            /\ DOMAIN rows' = DOMAIN rows
        BY <4>1, <4>2, MarkedRows
      <4> QED
        BY <2>23, <4>1, <4>2, <4>3, ProcFacts
           DEF ExpireMark, Inv, TypeOK, LocalsInv, ProcessTypeOK, Goto, history
    <3>1. Gone(t, "expire_mark", "expire_loop")
      BY <2>23, ProcFacts, GotoPc DEF ExpireMark, Inv, Steps
    <3>2. StoreTypeOK'
      BY <2>23, <3>1, <3>0, ProcFacts DEF Inv, TypeOK, ExpireMark, StoreTypeOK, db, history
    <3>3. ProcessTypeOK'
      BY <2>23, <3>1, <3>0, ProcFacts DEF Inv, TypeOK, ExpireMark, ProcessTypeOK,
         StoreTypeOK, db, locals, Returned, Gone, history
    <3>4. LocalsInv'
      BY <2>23, <3>1, <3>0, ProcFacts DEF Inv, TypeOK, ExpireMark, LocalsInv,
         AddressSteps, AllowSteps, ProcessTypeOK, locals, Returned, Gone, history
    <3> QED
      BY <3>2, <3>3, <3>4 DEF Inv, TypeOK
  <2>24. ASSUME NEW t \in Procs, ExpireDone(t) PROVE Inv'
    <3>1. \E to \in {"boot_select", "block_allowlist", "list_read"} : Gone(t, "expire_loop", to)
      BY <2>24, ProcFacts, GotoPc DEF ExpireDone, Inv, Steps
    <3>2. StoreTypeOK'
      BY <2>24, <3>1, ProcFacts DEF Inv, TypeOK, ExpireDone, StoreTypeOK, db, history
    <3>3. ProcessTypeOK'
      BY <2>24, <3>1, ProcFacts DEF Inv, TypeOK, ExpireDone, ProcessTypeOK,
         StoreTypeOK, db, locals, Returned, Gone, history
    <3>4. LocalsInv'
      BY <2>24, <3>1, ProcFacts DEF Inv, TypeOK, ExpireDone, LocalsInv, AddressSteps,
         AllowSteps, ProcessTypeOK, locals, Returned, Gone, history
    <3> QED
      BY <3>2, <3>3, <3>4 DEF Inv, TypeOK
  <2>25. CASE BootSelect
    <3>1. Gone(Main, "boot_select", "boot_loop")
      BY <2>25, ProcFacts, GotoPc DEF BootSelect, Inv, Steps
    <3>2. StoreTypeOK'
      BY <2>25, <3>1, ProcFacts DEF Inv, TypeOK, BootSelect, StoreTypeOK, db, history
    <3>3. ProcessTypeOK'
      BY <2>25, <3>1, ProcFacts DEF Inv, TypeOK, BootSelect, ProcessTypeOK,
         StoreTypeOK, db, locals, Returned, Gone, Fetch, Overdue, ActiveRows, history
    <3>4. LocalsInv'
      BY <2>25, <3>1, ProcFacts DEF Inv, TypeOK, BootSelect, LocalsInv, AddressSteps,
         AllowSteps, ProcessTypeOK, locals, Returned, Gone, Fetch, history
    <3> QED
      BY <3>2, <3>3, <3>4 DEF Inv, TypeOK
  <2>26. CASE BootBlock
    <3>0. /\ held' \in [Procs -> 0 .. Len(rows)]
          /\ \A u \in Threads : held'[u] = held[u]
          /\ \A i \in todo[Main] : rows[i].ip \in IPs
      BY <2>26, ProcFacts, RowAddress DEF BootBlock, Inv, TypeOK, StoreTypeOK,
         ProcessTypeOK, Blocked, history
    <3>1. Gone(Main, "boot_loop", "boot_mark")
      BY <2>26, ProcFacts, GotoPc DEF BootBlock, Inv, Steps, Blocked
    <3>2. StoreTypeOK'
      BY <2>26, <3>1, <3>0, ProcFacts DEF Inv, TypeOK, BootBlock, StoreTypeOK, db,
         Blocked, history
    <3>3. ProcessTypeOK'
      BY <2>26, <3>1, <3>0, ProcFacts DEF Inv, TypeOK, BootBlock, ProcessTypeOK,
         StoreTypeOK, db, locals, Returned, Gone, Blocked, history
    <3>4. LocalsInv'
      BY <2>26, <3>1, <3>0, ProcFacts DEF Inv, TypeOK, BootBlock, LocalsInv,
         AddressSteps, AllowSteps, ProcessTypeOK, locals, Returned, Gone, Blocked, history
    <3> QED
      BY <3>2, <3>3, <3>4 DEF Inv, TypeOK
  <2>27. CASE BootBlockFails
    <3>0. /\ held' \in [Procs -> 0 .. Len(rows)]
          /\ \A u \in Threads : held'[u] = held[u]
          /\ faults' \in [Procs -> Nat]
          /\ \A u \in Procs \ {Main} : faults'[u] = faults[u]
          /\ \A i \in todo[Main] : rows[i].ip \in IPs
      <4>1. \A i \in todo[Main] : rows[i].ip \in IPs
        BY ProcFacts, RowAddress DEF Inv, TypeOK, StoreTypeOK, ProcessTypeOK
      <4>2. /\ held \in [Procs -> 0 .. Len(rows)] /\ 0 \in 0 .. Len(rows)
            /\ faults \in [Procs -> Nat]
        BY DEF Inv, TypeOK, StoreTypeOK, ProcessTypeOK
      <4> QED
        BY <2>27, <4>1, <4>2, ProcFacts DEF BootBlockFails, CountFault
    <3>1. Gone(Main, "boot_loop", "boot_mark")
      BY <2>27, ProcFacts, GotoPc DEF BootBlockFails, Inv, Steps
    <3>2. StoreTypeOK'
      <4>1. kernel' \subseteq IPs
        BY <2>27, <3>0 DEF BootBlockFails, FailedCall, Inv, TypeOK, StoreTypeOK
      <4> QED
        BY <2>27, <4>1 DEF Inv, TypeOK, BootBlockFails, StoreTypeOK, db, history
    <3>3. ProcessTypeOK'
      BY <2>27, <3>1, <3>0, ProcFacts DEF Inv, TypeOK, BootBlockFails, ProcessTypeOK,
         StoreTypeOK, db, locals, Returned, Gone, history
    <3>4. LocalsInv'
      BY <2>27, <3>1, <3>0, ProcFacts DEF Inv, TypeOK, BootBlockFails, LocalsInv,
         AddressSteps, AllowSteps, ProcessTypeOK, locals, Returned, Gone, history
    <3> QED
      BY <3>2, <3>3, <3>4 DEF Inv, TypeOK
  <2>28. CASE BootMark
    <3>0. /\ rows' \in Seq(Row) /\ Len(rows') = Len(rows)
          /\ DOMAIN rows' = DOMAIN rows
          /\ todo' \in [Procs -> SUBSET DOMAIN rows]
          /\ \A u \in Procs : pc[u] = "idle" => todo'[u] = {}
          /\ held' \in [Procs -> 0 .. Len(rows)]
          /\ \A u \in Threads : held'[u] = held[u]
      <4>1. PICK i \in todo[Main] :
              /\ rows' = IF rows[i].active THEN Marked(i, held[Main] = i) ELSE rows
              /\ todo' = [todo EXCEPT ![Main] = @ \ {i}]
        BY <2>28 DEF BootMark
      <4>2. rows \in Seq(Row) /\ i \in DOMAIN rows
        BY <2>28, ProcFacts DEF Inv, TypeOK, ProcessTypeOK, StoreTypeOK
      <4>3. (held[Main] = i) \in BOOLEAN
        OBVIOUS
      <4>4. /\ Marked(i, held[Main] = i) \in Seq(Row)
            /\ Len(Marked(i, held[Main] = i)) = Len(rows)
            /\ DOMAIN Marked(i, held[Main] = i) = DOMAIN rows
        BY <4>2, <4>3, MarkedRows
      <4>5. /\ rows' \in Seq(Row) /\ Len(rows') = Len(rows)
            /\ DOMAIN rows' = DOMAIN rows
        BY <4>1, <4>2, <4>4
      <4> QED
        BY <2>28, <4>1, <4>2, <4>5, ProcFacts
           DEF BootMark, Inv, TypeOK, LocalsInv, ProcessTypeOK, StoreTypeOK, Goto, history
    <3>1. Gone(Main, "boot_mark", "boot_loop")
      BY <2>28, ProcFacts, GotoPc DEF BootMark, Inv, Steps
    <3>2. StoreTypeOK'
      BY <2>28, <3>1, <3>0, ProcFacts DEF Inv, TypeOK, BootMark, StoreTypeOK, db, history
    <3>3. ProcessTypeOK'
      BY <2>28, <3>1, <3>0, ProcFacts DEF Inv, TypeOK, BootMark, ProcessTypeOK,
         StoreTypeOK, db, locals, Returned, Gone, history
    <3>4. LocalsInv'
      BY <2>28, <3>1, <3>0, ProcFacts DEF Inv, TypeOK, BootMark, LocalsInv,
         AddressSteps, AllowSteps, ProcessTypeOK, locals, Returned, Gone, history
    <3> QED
      BY <3>2, <3>3, <3>4 DEF Inv, TypeOK
  <2>29. CASE BootDone
    <3>1. Returned(Main, "boot_loop")
      BY <2>29, ProcFacts, ReturnLocals DEF BootDone, Inv, Steps
    <3>2. StoreTypeOK'
      BY <2>29, <3>1, ProcFacts DEF Inv, TypeOK, BootDone, StoreTypeOK, db, history
    <3>3. ProcessTypeOK'
      BY <2>29, <3>1, ProcFacts DEF Inv, TypeOK, BootDone, ProcessTypeOK, StoreTypeOK,
         db, locals, Returned, Gone, history
    <3>4. LocalsInv'
      BY <2>29, <3>1, ProcFacts DEF Inv, TypeOK, BootDone, LocalsInv, AddressSteps,
         AllowSteps, ProcessTypeOK, locals, Returned, Gone, history
    <3> QED
      BY <3>2, <3>3, <3>4 DEF Inv, TypeOK
  <2>30. CASE Start
    <3>2. StoreTypeOK'
      BY <2>30, ProcFacts DEF Inv, TypeOK, Start, StoreTypeOK, db, history
    <3>3. ProcessTypeOK'
      BY <2>30, ProcFacts DEF Inv, TypeOK, Start, ProcessTypeOK, StoreTypeOK, db,
         locals, Returned, Gone, Steps, history
    <3>4. LocalsInv'
      BY <2>30, ProcFacts DEF Inv, TypeOK, Start, LocalsInv, AddressSteps, AllowSteps,
         ProcessTypeOK, locals, Returned, Gone, history
    <3> QED
      BY <3>2, <3>3, <3>4 DEF Inv, TypeOK
  <2>31. CASE Crash
    <3>2. StoreTypeOK'
      BY <2>31, ProcFacts DEF Inv, TypeOK, Crash, StoreTypeOK, db, history
    <3>3. ProcessTypeOK'
      BY <2>31, ProcFacts DEF Inv, TypeOK, Crash, ProcessTypeOK, StoreTypeOK, db,
         locals, Returned, Gone, Die, Steps, history
    <3>4. LocalsInv'
      BY <2>31, ProcFacts DEF Inv, TypeOK, Crash, LocalsInv, AddressSteps, AllowSteps,
         ProcessTypeOK, locals, Returned, Gone, Die, history
    <3> QED
      BY <3>2, <3>3, <3>4 DEF Inv, TypeOK
  <2>32. CASE Tick
    <3>0. /\ rows' \in Seq(Row) /\ Len(rows') = Len(rows)
          /\ DOMAIN rows' = DOMAIN rows
      BY <2>32, ProcFacts, TickedRows DEF Tick, Inv, TypeOK, StoreTypeOK, ActiveRows,
         history
    <3>2. StoreTypeOK'
      BY <2>32, <3>0, ProcFacts DEF Inv, TypeOK, Tick, StoreTypeOK, db, history
    <3>3. ProcessTypeOK'
      BY <2>32, <3>0, ProcFacts DEF Inv, TypeOK, Tick, ProcessTypeOK, StoreTypeOK, db,
         locals, Returned, Gone, history, Observe
    <3>4. LocalsInv'
      BY <2>32, <3>0, ProcFacts DEF Inv, TypeOK, Tick, LocalsInv, AddressSteps,
         AllowSteps, ProcessTypeOK, locals, Returned, Gone, history, Observe
    <3> QED
      BY <3>2, <3>3, <3>4 DEF Inv, TypeOK
  <2>33. ASSUME NEW t \in Threads, RequestDbError(t) PROVE Inv'
    <3>1. Returned(t, pc[t])
      BY <2>33, ProcFacts, ReturnLocals DEF RequestDbError, Inv, Steps
    <3>2. StoreTypeOK'
      BY <2>33, <3>1, ProcFacts DEF Inv, TypeOK, RequestDbError, StoreTypeOK, db, history
    <3>3. ProcessTypeOK'
      BY <2>33, <3>1, ProcFacts DEF Inv, TypeOK, RequestDbError, ProcessTypeOK,
         StoreTypeOK, db, locals, Returned, Gone, history
    <3>4. LocalsInv'
      BY <2>33, <3>1, ProcFacts DEF Inv, TypeOK, RequestDbError, LocalsInv,
         AddressSteps, AllowSteps, ProcessTypeOK, locals, Returned, Gone, history
    <3> QED
      BY <3>2, <3>3, <3>4 DEF Inv, TypeOK
  <2>34. ASSUME NEW t \in Threads, BlockInsertError(t) PROVE Inv'
    <3>0. faults' \in [Procs -> Nat]
            /\ \A u \in Procs \ {t} : faults'[u] = faults[u]
      BY <2>34, ProcFacts DEF BlockInsertError, Inv, TypeOK, CountFault, ProcessTypeOK,
         history
    <3>1. Gone(t, "block_insert", "block_undo")
      BY <2>34, ProcFacts, GotoPc DEF BlockInsertError, Inv, Steps
    <3>2. StoreTypeOK'
      BY <2>34, <3>1, <3>0, ProcFacts DEF Inv, TypeOK, BlockInsertError, StoreTypeOK,
         db, history
    <3>3. ProcessTypeOK'
      BY <2>34, <3>1, <3>0, ProcFacts DEF Inv, TypeOK, BlockInsertError, ProcessTypeOK,
         StoreTypeOK, db, locals, Returned, Gone, history
    <3>4. LocalsInv'
      BY <2>34, <3>1, <3>0, ProcFacts DEF Inv, TypeOK, BlockInsertError, LocalsInv,
         AddressSteps, AllowSteps, ProcessTypeOK, locals, Returned, Gone, history
    <3> QED
      BY <3>2, <3>3, <3>4 DEF Inv, TypeOK
  <2>35. ASSUME NEW t \in Threads, UnblockUpdateError(t) PROVE Inv'
    <3>0. faults' \in [Procs -> Nat]
            /\ \A u \in Procs \ {t} : faults'[u] = faults[u]
      BY <2>35, ProcFacts DEF UnblockUpdateError, Inv, TypeOK, CountFault,
         ProcessTypeOK, history
    <3>1. Gone(t, "unblock_update", "unblock_redo")
      BY <2>35, ProcFacts, GotoPc DEF UnblockUpdateError, Inv, Steps
    <3>2. StoreTypeOK'
      BY <2>35, <3>1, <3>0, ProcFacts DEF Inv, TypeOK, UnblockUpdateError, StoreTypeOK,
         db, history
    <3>3. ProcessTypeOK'
      BY <2>35, <3>1, <3>0, ProcFacts DEF Inv, TypeOK, UnblockUpdateError,
         ProcessTypeOK, StoreTypeOK, db, locals, Returned, Gone, history
    <3>4. LocalsInv'
      BY <2>35, <3>1, <3>0, ProcFacts DEF Inv, TypeOK, UnblockUpdateError, LocalsInv,
         AddressSteps, AllowSteps, ProcessTypeOK, locals, Returned, Gone, history
    <3> QED
      BY <3>2, <3>3, <3>4 DEF Inv, TypeOK
  <2>36. CASE BootDbError
    <3>2. StoreTypeOK'
      BY <2>36, ProcFacts DEF Inv, TypeOK, BootDbError, StoreTypeOK, db, history
    <3>3. ProcessTypeOK'
      BY <2>36, ProcFacts DEF Inv, TypeOK, BootDbError, ProcessTypeOK, StoreTypeOK, db,
         locals, Returned, Gone, Die, Steps, history
    <3>4. LocalsInv'
      BY <2>36, ProcFacts DEF Inv, TypeOK, BootDbError, LocalsInv, AddressSteps,
         AllowSteps, ProcessTypeOK, locals, Returned, Gone, Die, history
    <3> QED
      BY <3>2, <3>3, <3>4 DEF Inv, TypeOK
  <2>37. ASSUME NEW t \in Threads, Arrive(t) PROVE Inv'
    <3>2. StoreTypeOK'
      BY <2>37, ProcFacts DEF Inv, TypeOK, Arrive, StoreTypeOK, db, history
    <3>3. ProcessTypeOK'
      BY <2>37, ProcFacts DEF Inv, TypeOK, Arrive, ProcessTypeOK, StoreTypeOK, db,
         locals, Returned, Gone, FirstStep, Steps, history
    <3>4. LocalsInv'
      BY <2>37, ProcFacts, RequestFacts DEF Inv, TypeOK, Arrive, LocalsInv,
         AddressSteps, AllowSteps, ProcessTypeOK, locals, Returned, Gone, FirstStep,
         OpsAssumption, AllOps, BlockOps, history
    <3> QED
      BY <3>2, <3>3, <3>4 DEF Inv, TypeOK
  <2>38. CASE UNCHANGED vars
    BY <2>38 DEF vars, Inv, TypeOK, StoreTypeOK, ProcessTypeOK, LocalsInv, Procs
  <2>39. ASSUME NEW t \in Threads, AllowFind(t) PROVE Inv'
    <3>1. \/ Returned(t, "allow_find")
          \/ Gone(t, "allow_find", "allow_remove") /\ UNCHANGED <<locals, faults>>
      BY <2>39, ProcFacts, ReturnLocals, GotoPc DEF AllowFind, Inv, Steps
    <3>2. StoreTypeOK'
      BY <2>39, <3>1, ProcFacts DEF Inv, TypeOK, AllowFind, StoreTypeOK, db, history
    <3>3. ProcessTypeOK'
      BY <2>39, <3>1, ProcFacts DEF Inv, TypeOK, AllowFind, ProcessTypeOK, StoreTypeOK,
         db, locals, Returned, Gone, history
    <3>4. LocalsInv'
      BY <2>39, <3>1, ProcFacts DEF Inv, TypeOK, AllowFind, LocalsInv, AddressSteps,
         AllowSteps, ProcessTypeOK, locals, Returned, Gone, history
    <3> QED
      BY <3>2, <3>3, <3>4 DEF Inv, TypeOK
  <2>40. CASE Observe
    BY <2>40, AttackersAssumption DEF Observe, Inv, TypeOK, StoreTypeOK, ProcessTypeOK,
       LocalsInv, locals, history
  <2> QED
    BY <2>1, <2>2, <2>3, <2>4, <2>5, <2>6, <2>7, <2>8, <2>9, <2>10, <2>11, <2>12,
       <2>13, <2>14, <2>15, <2>16, <2>17, <2>18, <2>19, <2>20, <2>21, <2>22, <2>23,
       <2>24, <2>25, <2>26, <2>27, <2>28, <2>29, <2>30, <2>31, <2>32, <2>33, <2>34,
       <2>35, <2>36, <2>37, <2>38, <2>39, <2>40, ProcFacts DEF Next, RequestStep,
       BlockStep, UnblockStep,
       AllowStep, ExpireStep, BootStep, DbErrorStep
<1>3. QED
  BY <1>1, <1>2, PTL DEF Spec

\* Every variable keeps its type, and thread locals only name rows that exist
\* (blocked_ips, ip_allowlist, attackers and the handlers of app.py:382-1036).
THEOREM TypeCorrect == Spec => []TypeOK
<1>1. Inv => TypeOK
  BY DEF Inv
<1> QED
  BY <1>1, Invariant, PTL

----------------------------------------------------------------------------
(* What a step may do to the rows.                                         *)

\* No row changes its address or its active flag.
Kept == /\ rows' \in Seq(Row) /\ Len(rows') = Len(rows)
        /\ DOMAIN rows' = DOMAIN rows
        /\ \A j \in DOMAIN rows : /\ rows'[j].ip = rows[j].ip
                                  /\ rows'[j].active = rows[j].active

\* Row i is released.
Closed(i) == /\ rows' \in Seq(Row) /\ Len(rows') = Len(rows)
             /\ DOMAIN rows' = DOMAIN rows
             /\ rows[i].active /\ ~rows'[i].active
             /\ \A j \in DOMAIN rows : rows'[j].ip = rows[j].ip
             /\ \A j \in DOMAIN rows \ {i} : rows'[j].active = rows[j].active

\* A row is appended about an address without an active row.
Opened(r) == r.active /\ ActiveFor(r.ip) = {} /\ rows' = Append(rows, r)

\* Only block_ip's insert does that.
Inserted(t) ==
    BlockInsert(t) /\ NewRow(req[t]) \in Row /\ Opened(NewRow(req[t]))

RowsStep == \/ Kept
            \/ \E i \in DOMAIN rows : Closed(i)
            \/ \E t \in Threads : Inserted(t)

LEMMA SameRows == ASSUME Inv, rows' = rows PROVE RowsStep
  BY DEF Inv, TypeOK, StoreTypeOK, RowsStep, Kept

LEMMA MarkedStep ==
    ASSUME Inv, NEW i \in DOMAIN rows, NEW synced \in BOOLEAN,
           rows' = Marked(i, synced)
    PROVE  RowsStep
<1>1. rows \in Seq(Row)
  BY DEF Inv, TypeOK, StoreTypeOK
<1>2. Kept
  BY <1>1, MarkedRows DEF Kept
<1> QED
  BY <1>2 DEF RowsStep

LEMMA ReleasedStep ==
    ASSUME Inv, NEW i \in DOMAIN rows, rows' = Released(i)
    PROVE  RowsStep
<1>1. rows \in Seq(Row)
  BY DEF Inv, TypeOK, StoreTypeOK
<1>2. CASE rows[i].active
  <2>1. Closed(i)
    BY <1>1, <1>2, ReleasedRows DEF Closed
  <2> QED
    BY <2>1 DEF RowsStep
<1>3. CASE ~rows[i].active
  BY <1>3, SameRows DEF Released
<1> QED
  BY <1>2, <1>3

\* The rows are an append-only table whose rows are released at most once.
LEMMA RowsChange == ASSUME Inv, [Next]_vars PROVE RowsStep
<1>1. ASSUME NEW t \in Procs, ExpireStep(t) PROVE RowsStep
  <2>1. CASE ExpireRelease(t)
    BY <2>1, ReleasedStep DEF ExpireRelease, Inv, TypeOK, ProcessTypeOK, history
  <2>2. CASE ExpireMark(t)
    BY <2>2, MarkedStep DEF ExpireMark, Inv, TypeOK, ProcessTypeOK, history
  <2>3. ASSUME ~ExpireRelease(t), ~ExpireMark(t) PROVE rows' = rows
    BY <1>1, <2>3 DEF ExpireStep, ExpireSelect, ExpireUnblock, db,
       ExpireUnblockFails, ExpireDone, Unblocked, history
  <2> QED
    BY <2>1, <2>2, <2>3, SameRows
<1>2. ASSUME NEW t \in Threads, BlockStep(t) PROVE RowsStep
  <2>1. CASE BlockInsert(t)
    <3>1. NewRow(req[t]) \in Row /\ NewRow(req[t]).ip = req[t].ip
          /\ NewRow(req[t]).active
      BY <2>1, RequestFacts, ProcFacts DEF BlockInsert, Return, Goto, NewRow, Row,
         Inv, TypeOK, ProcessTypeOK, LocalsInv, AddressSteps, ShownBlocked,
         history
    <3> QED
      BY <2>1, <3>1 DEF BlockInsert, RowsStep, Opened, Inserted, ShownBlocked
  <2>2. ASSUME ~BlockInsert(t) PROVE rows' = rows
    BY <1>2, <2>2 DEF BlockStep, BlockReject, BlockDenied, BlockAllowlist,
       BlockExisting, BlockKernel, BlockLost, BlockUndo, BlockUndoAudit, db,
         Blocked, Unblocked, Unrepaired, FailedCall, history
  <2> QED
    BY <2>1, <2>2, SameRows
<1>3. ASSUME NEW t \in Threads, UnblockStep(t) PROVE RowsStep
  <2>1. CASE UnblockUpdate(t)
    <3>1. held[t] \in DOMAIN rows
      BY <2>1, ProcFacts DEF UnblockUpdate, Return, Goto, Inv, TypeOK, StoreTypeOK,
         ProcessTypeOK, LocalsInv, history
    <3> QED
      BY <2>1, <3>1, ReleasedStep DEF UnblockUpdate
  <2>2. ASSUME ~UnblockUpdate(t) PROVE rows' = rows
    BY <1>3, <2>2 DEF UnblockStep, UnblockReject, UnblockSelect, UnblockKernel,
       UnblockRedo, db, Unblocked, Blocked, Unrepaired, FailedCall, history
  <2> QED
    BY <2>1, <2>2, SameRows
<1>4. CASE BootMark
  <2>1. PICK i \in todo[Main] :
          rows' = IF rows[i].active THEN Marked(i, held[Main] = i) ELSE rows
    BY <1>4 DEF BootMark
  <2>2. i \in DOMAIN rows
    BY ProcFacts DEF Inv, TypeOK, ProcessTypeOK
  <2>3. (held[Main] = i) \in BOOLEAN
    OBVIOUS
  <2>4. CASE rows' = Marked(i, held[Main] = i)
    BY <2>2, <2>3, <2>4, MarkedStep
  <2> QED
    BY <2>1, <2>4, SameRows
<1>5. CASE Tick
  <2>1. PICK i \in ActiveRows :
          rows' = [rows EXCEPT ![i] =
                      [ip |-> rows[i].ip, active |-> rows[i].active,
                       synced |-> rows[i].synced, expiry |-> "past"]]
    BY <1>5 DEF Tick
  <2>2. rows \in Seq(Row) /\ i \in DOMAIN rows
    BY DEF Inv, TypeOK, StoreTypeOK, ActiveRows
  <2>3. Kept
    BY <2>1, <2>2, TickedRows DEF Kept
  <2> QED
    BY <2>3 DEF RowsStep
<1>6. ASSUME \/ \E t \in Threads : \/ Arrive(t) \/ ListRead(t) \/ AllowStep(t)
                                   \/ DbErrorStep(t)
             \/ BootDbError \/ BootSelect \/ BootBlock \/ BootBlockFails \/ BootDone
             \/ Start \/ Crash \/ Observe \/ UNCHANGED vars
      PROVE  rows' = rows
  BY <1>6 DEF Arrive, ListRead, AllowStep, AllowSelect, AllowInsert, AllowRemove,
     DbErrorStep, RequestDbError, BlockInsertError, UnblockUpdateError,
     BootDbError, BootSelect, BootBlock, BootBlockFails, BootDone, Start, Crash,
     Observe, vars, db, Blocked, history, AllowFind
<1> QED
  BY <1>1, <1>2, <1>3, <1>4, <1>5, <1>6, SameRows
     DEF Next, RequestStep, BootStep

----------------------------------------------------------------------------

\* No address ever has two active rows, however many requests race for it: the
\* unique index as a concurrency guard (app.py:812).
THEOREM OneActive == Spec => []OneActiveRow
<1>1. Init => OneActiveRow
  BY DEF Init, OneActiveRow, ActiveRows
<1>2. Inv /\ OneActiveRow /\ [Next]_vars => OneActiveRow'
  <2> SUFFICES ASSUME Inv, OneActiveRow, [Next]_vars PROVE OneActiveRow'
    OBVIOUS
  <2>1. CASE Kept
    BY <2>1 DEF Kept, OneActiveRow, ActiveRows
  <2>2. ASSUME NEW i \in DOMAIN rows, Closed(i) PROVE OneActiveRow'
    BY <2>2 DEF Closed, OneActiveRow, ActiveRows
  <2>3. ASSUME NEW r \in Row, Opened(r) PROVE OneActiveRow'
    <3>1. /\ DOMAIN rows = 1 .. Len(rows) /\ Len(rows) \in Nat
          /\ DOMAIN rows' = 1 .. (Len(rows) + 1)
          /\ rows'[Len(rows) + 1] = r
          /\ \A j \in DOMAIN rows : rows'[j] = rows[j]
      BY <2>3, AppendedRows DEF Opened, Inv, TypeOK, StoreTypeOK
    <3> SUFFICES ASSUME NEW i \in ActiveRows', NEW j \in ActiveRows',
                        rows'[i].ip = rows'[j].ip
                 PROVE  i = j
      BY DEF OneActiveRow
    <3>2. \A k \in ActiveRows' : k \in ActiveRows \/ k = Len(rows) + 1
      BY <3>1 DEF ActiveRows
    <3>3. \A k \in ActiveRows : rows'[k] = rows[k] /\ rows[k].ip # r.ip
      BY <3>1, <2>3 DEF ActiveRows, ActiveFor, Opened
    <3> QED
      BY <3>1, <3>2, <3>3 DEF OneActiveRow
  <2> QED
    BY <2>1, <2>2, <2>3, RowsChange DEF RowsStep, Inserted
<1> QED
  BY <1>1, <1>2, Invariant, PTL DEF Spec

----------------------------------------------------------------------------

\* The rows of blocked_ips, written by concurrent and failing requests, are the
\* ledger of BlockLedger: every step opens one entry, closes one entry or
\* changes nothing a reader of the ledger sees.
THEOREM LedgerRefined == Spec => LedgerSpec
<1> DEFINE L == [i \in DOMAIN rows |->
                   [address |-> rows[i].ip, open |-> rows[i].active]]
<1>1. Init => Ledger!LedgerInit
  BY DEF Init, Ledger!LedgerInit
<1>2. Inv /\ [Next]_vars => [Ledger!LedgerNext]_L
  <2> SUFFICES ASSUME Inv, [Next]_vars PROVE Ledger!LedgerNext \/ L' = L
    OBVIOUS
  <2>1. CASE Kept
    <3>1. L' = L
      BY <2>1 DEF Kept
    <3> QED
      BY <3>1
  <2>2. ASSUME NEW i \in DOMAIN rows, Closed(i) PROVE Ledger!LedgerNext
    <3>1. L[i].open /\ L[i].address = rows[i].ip
      BY <2>2 DEF Closed
    <3>2. L' = [L EXCEPT ![i] = [address |-> L[i].address, open |-> FALSE]]
      <4>1. rows'[i].active = FALSE
        BY <2>2 DEF Closed, Row
      <4> QED
        BY <2>2, <4>1 DEF Closed
    <3> QED
      BY <3>1, <3>2 DEF Ledger!LedgerNext, Ledger!Close
  <2>3. ASSUME NEW r \in Row, Opened(r) PROVE Ledger!LedgerNext
    <3> DEFINE e == [address |-> r.ip, open |-> TRUE]
    <3>1. r.ip \in IPs /\ r.active = TRUE
      BY <2>3 DEF Row, Opened
    <3>2. /\ DOMAIN rows = 1 .. Len(rows) /\ Len(rows) \in Nat
          /\ DOMAIN rows' = 1 .. (Len(rows) + 1)
          /\ rows'[Len(rows) + 1] = r
          /\ \A j \in DOMAIN rows : rows'[j] = rows[j]
      BY <2>3, AppendedRows DEF Opened, Inv, TypeOK, StoreTypeOK
    <3>3. ~Ledger!IsOpen(r.ip)
      BY <2>3 DEF Opened, ActiveFor, ActiveRows, Ledger!IsOpen
    <3>4. L' = Append(L, e)
      <4> DEFINE E == [address: IPs, open: BOOLEAN]
                 n == Len(rows)
      <4>1. \A i \in 1 .. n : rows[i].ip \in IPs /\ rows[i].active \in BOOLEAN
        <5> TAKE i \in 1 .. n
        <5>1. rows[i] \in Row
          BY <3>2 DEF Inv, TypeOK, StoreTypeOK
        <5> QED
          BY <5>1 DEF Row
      <4>2. e \in E
        BY <3>1
      <4>3. /\ L \in Seq(E) /\ Len(L) = n
            /\ \A i \in 1 .. n : L[i] = [address |-> rows[i].ip, open |-> rows[i].active]
        BY <3>2, <4>1
      <4>4. /\ Append(L, e) \in Seq(E) /\ Len(Append(L, e)) = n + 1
            /\ Append(L, e)[n + 1] = e
            /\ \A i \in 1 .. n : Append(L, e)[i] = L[i]
        <5> HIDE DEF L, e, E, n
        <5> QED
          BY <4>2, <4>3
      <4>5. \A i \in 1 .. n + 1 : rows'[i].ip \in IPs /\ rows'[i].active \in BOOLEAN
        <5> TAKE i \in 1 .. n + 1
        <5>1. rows' \in Seq(Row)
          BY <2>3, AppendedRows DEF Opened, Inv, TypeOK, StoreTypeOK
        <5>2. rows'[i] \in Row
          BY <3>2, <5>1
        <5> QED
          BY <5>2 DEF Row
      <4>6. /\ L' \in Seq(E) /\ Len(L') = n + 1
            /\ \A i \in 1 .. n + 1 :
                 L'[i] = [address |-> rows'[i].ip, open |-> rows'[i].active]
        BY <3>2, <4>5
      <4>7. \A i \in 1 .. n + 1 : L'[i] = Append(L, e)[i]
        <5> TAKE i \in 1 .. n + 1
        <5>1. CASE i = n + 1
          BY <5>1, <3>1, <3>2, <4>4, <4>6
        <5>2. CASE i \in 1 .. n
          BY <5>2, <3>2, <4>3, <4>4, <4>6
        <5> QED
          BY <3>2, <5>1, <5>2
      <4> HIDE DEF L, e, E, n
      <4> QED
        BY <4>4, <4>6, <4>7, SeqEqual
    <3> QED
      BY <3>1, <3>3, <3>4 DEF Ledger!LedgerNext, Ledger!Open
  <2> QED
    BY <2>1, <2>2, <2>3, RowsChange DEF RowsStep, Inserted
<1> QED
  BY <1>1, <1>2, Invariant, PTL DEF Spec, LedgerSpec, Ledger!LedgerSpec

----------------------------------------------------------------------------
(* The row a thread carries across its firewall call.                      *)

\* The request and the row of thread t stay, are given up, or are chosen now.
HeldStep(t) ==
    \/ held'[t] = 0
    \/ held'[t] = held[t] /\ req'[t] = req[t]
    \/ held'[t] \in ActiveFor(req[t].ip) /\ req'[t] = req[t]

LEMMA SameHeld ==
    ASSUME NEW t \in Threads, held' = held, req' = req
    PROVE  HeldStep(t)
  BY DEF HeldStep

LEMMA ReturnHeld ==
    ASSUME Inv, NEW t \in Threads, NEW u \in Procs, NEW from, Return(u, from)
    PROVE  HeldStep(t)
<1>1. held \in [Procs -> 0 .. Len(rows)] /\ req \in [Procs -> Requests \union {NoReq}]
  BY DEF Inv, TypeOK, ProcessTypeOK
<1> QED
  BY <1>1, ProcFacts DEF Return, HeldStep

LEMMA HeldChange ==
    ASSUME Inv, [Next]_vars, NEW t \in Threads
    PROVE  HeldStep(t)
<1>1. /\ held \in [Procs -> 0 .. Len(rows)]
      /\ req \in [Procs -> Requests \union {NoReq}]
      /\ t \in Procs /\ t # Main
  BY ProcFacts DEF Inv, TypeOK, ProcessTypeOK
<1>2. ASSUME NEW u \in Threads, Arrive(u) PROVE HeldStep(t)
  <2>1. u = t => held[t] = 0
    BY <1>1, <1>2 DEF Arrive, Inv, LocalsInv
  <2> QED
    BY <1>1, <1>2, <2>1 DEF Arrive, HeldStep
<1>3. ASSUME NEW u \in Procs, ExpireStep(u) PROVE HeldStep(t)
  BY <1>3, SameHeld DEF ExpireStep, ExpireSelect, ExpireUnblock,
     ExpireUnblockFails, ExpireRelease, ExpireMark, ExpireDone, locals, Unblocked,
         history
<1>4. ASSUME NEW u \in Threads, UnblockSelect(u) PROVE HeldStep(t)
  BY <1>1, <1>4 DEF UnblockSelect, HeldStep
<1>5. ASSUME NEW u \in Threads, RequestStep(u), ~UnblockSelect(u) PROVE HeldStep(t)
  <2>1. (held' = held /\ req' = req) \/ \E from \in Steps : Return(u, from)
    BY <1>5 DEF RequestStep, BlockStep, UnblockStep, AllowStep, ListRead,
       BlockReject, BlockDenied, BlockAllowlist, BlockExisting, BlockKernel,
       BlockInsert, BlockLost, BlockUndo, BlockUndoAudit, UnblockReject,
       UnblockKernel, UnblockUpdate, UnblockRedo, AllowSelect, AllowInsert,
       AllowRemove, locals, Steps, Blocked, ShownBlocked, Unblocked, Unrepaired,
         FailedCall, history, AllowFind
  <2> QED
    BY <2>1, ProcFacts, SameHeld, ReturnHeld
<1>6. ASSUME NEW u \in Threads, DbErrorStep(u) PROVE HeldStep(t)
  BY <1>6, ProcFacts, SameHeld, ReturnHeld
     DEF DbErrorStep, RequestDbError, BlockInsertError, UnblockUpdateError, locals, history
<1>7. ASSUME \/ BootDbError \/ Crash PROVE HeldStep(t)
  BY <1>1, <1>7 DEF BootDbError, Crash, Die, HeldStep
<1>8. CASE BootStep
  <2>1. CASE BootDone
    BY <2>1, ProcFacts, ReturnHeld DEF BootDone
  <2>2. CASE BootSelect
    BY <2>2, SameHeld DEF BootSelect
  <2>3. CASE BootBlock \/ BootBlockFails \/ BootMark
    BY <1>1, <2>3 DEF BootBlock, BootBlockFails, BootMark, HeldStep, Blocked
  <2> QED
    BY <1>8, <2>1, <2>2, <2>3 DEF BootStep
<1>9. ASSUME Start \/ Tick \/ Observe \/ UNCHANGED vars PROVE HeldStep(t)
  BY <1>9, SameHeld DEF Start, Tick, vars, locals, history, Observe
<1> QED
  BY <1>2, <1>3, <1>4, <1>5, <1>6, <1>7, <1>8, <1>9 DEF Next

\* A row keeps its id and its address for ever.
LEMMA AddressStable ==
    ASSUME Inv, [Next]_vars
    PROVE  \A i \in DOMAIN rows : i \in DOMAIN rows' /\ rows'[i].ip = rows[i].ip
<1>1. ASSUME NEW r \in Row, Opened(r)
      PROVE  \A i \in DOMAIN rows : i \in DOMAIN rows' /\ rows'[i].ip = rows[i].ip
  <2>1. rows \in Seq(Row)
    BY DEF Inv, TypeOK, StoreTypeOK
  <2> QED
    BY <1>1, <2>1, AppendedRows DEF Opened
<1> QED
  BY <1>1, RowsChange DEF RowsStep, Inserted, Kept, Closed

\* The row id that unblock_ip reads before its firewall call and updates after
\* it stays about the address it was asked to unblock (app.py:869-887).
THEOREM HeldRow == Spec => []HeldRowMatches
<1>1. Init => HeldRowMatches
  BY ProcFacts DEF Init, HeldRowMatches
<1>2. Inv /\ HeldRowMatches /\ [Next]_vars => HeldRowMatches'
  <2> SUFFICES ASSUME Inv, HeldRowMatches, [Next]_vars,
                      NEW t \in Threads, held'[t] # 0
               PROVE  rows'[held'[t]].ip = req'[t].ip
    BY DEF HeldRowMatches
  <2>1. CASE held'[t] = held[t] /\ req'[t] = req[t]
    <3>1. held[t] \in DOMAIN rows
      BY <2>1, ProcFacts DEF Inv, TypeOK, StoreTypeOK, ProcessTypeOK
    <3> QED
      BY <2>1, <3>1, AddressStable DEF HeldRowMatches
  <2>2. CASE held'[t] \in ActiveFor(req[t].ip) /\ req'[t] = req[t]
    BY <2>2, AddressStable DEF ActiveFor, ActiveRows
  <2> QED
    BY <2>1, <2>2, HeldChange DEF HeldStep
<1> QED
  BY <1>1, <1>2, Invariant, PTL DEF Spec

----------------------------------------------------------------------------
(* The audit trail of the ledger.                                          *)

\* Audit records are only added.
LEMMA AuditGrows == ASSUME [Next]_vars PROVE audit \subseteq audit'
<1>1. ASSUME NEW t \in Threads, Arrive(t) \/ RequestStep(t) \/ DbErrorStep(t)
      PROVE  audit \subseteq audit'
  BY <1>1 DEF Arrive, RequestStep, ListRead, BlockStep, BlockReject, BlockDenied,
     BlockAllowlist, BlockExisting, BlockKernel, BlockInsert, BlockLost, BlockUndo,
     BlockUndoAudit, UnblockStep, UnblockReject, UnblockSelect, UnblockKernel,
     UnblockUpdate, UnblockRedo, AllowStep, AllowSelect, AllowInsert, AllowRemove,
     DbErrorStep, RequestDbError, BlockInsertError, UnblockUpdateError, db,
         Blocked, ShownBlocked, Unblocked, Unrepaired, FailedCall, history,
         AllowFind
<1>2. ASSUME NEW t \in Procs, ExpireStep(t) PROVE audit \subseteq audit'
  BY <1>2 DEF ExpireStep, ExpireSelect, ExpireUnblock, ExpireUnblockFails,
     ExpireRelease, ExpireMark, ExpireDone, db, Unblocked, history
<1>3. CASE BootStep
  BY <1>3 DEF BootStep, BootSelect, BootBlock, BootBlockFails, BootMark, BootDone, db,
     Blocked, history
<1>4. CASE BootDbError \/ Start \/ Crash \/ Tick \/ Observe \/ UNCHANGED vars
  BY <1>4 DEF BootDbError, Start, Crash, Tick, vars, db, history, Observe
<1> QED
  BY <1>1, <1>2, <1>3, <1>4 DEF Next

Opening(log, i) == \E a \in log : a.row = i /\ a.action = "firewall_block"
Closing(log, i) == \E a \in log :
                     a.row = i /\ a.action \in {"firewall_unblock", "firewall_expire"}

\* A step that releases a row or inserts one records it.
ChangesAudited ==
    /\ \A i \in DOMAIN rows : rows[i].active /\ ~rows'[i].active => Closing(audit', i)
    /\ Len(rows') > Len(rows) => Opening(audit', Len(rows) + 1)

LEMMA StepAudited == ASSUME Inv, [Next]_vars PROVE ChangesAudited
<1>0. rows \in Seq(Row) /\ Len(rows) \in Nat
  BY DEF Inv, TypeOK, StoreTypeOK
<1>1. ASSUME rows' = rows PROVE ChangesAudited
  BY <1>0, <1>1 DEF ChangesAudited
<1>2. ASSUME Len(rows') = Len(rows), NEW i \in DOMAIN rows, NEW a \in audit',
             \A j \in DOMAIN rows \ {i} : rows'[j].active = rows[j].active,
             a.row = i, a.action \in {"firewall_unblock", "firewall_expire"}
      PROVE  ChangesAudited
  BY <1>0, <1>2 DEF ChangesAudited, Closing
<1>3. ASSUME NEW t \in Procs, ExpireRelease(t) PROVE ChangesAudited
  <2>1. PICK i \in todo[t] :
          /\ rows' = Released(i)
          /\ Record("firewall_expire", "success", rows[i].ip, i) \in audit'
    BY <1>3 DEF ExpireRelease
  <2>2. i \in DOMAIN rows
    BY DEF Inv, TypeOK, ProcessTypeOK
  <2> QED
    BY <1>0, <1>2, <2>1, <2>2, ReleasedRows DEF Record
<1>4. ASSUME NEW t \in Threads, UnblockUpdate(t) PROVE ChangesAudited
  <2>1. /\ rows' = Released(held[t])
        /\ Record("firewall_unblock", "success", req[t].ip, held[t]) \in audit'
    BY <1>4 DEF UnblockUpdate
  <2>2. held[t] \in DOMAIN rows
    BY <1>0, <1>4, ProcFacts DEF UnblockUpdate, Return, Goto, Inv, TypeOK, ProcessTypeOK,
       LocalsInv, history
  <2> QED
    BY <1>0, <1>2, <2>1, <2>2, ReleasedRows DEF Record
<1>5. ASSUME NEW t \in Threads, BlockInsert(t) PROVE ChangesAudited
  <2>1. /\ rows' = Append(rows, NewRow(req[t]))
        /\ Record("firewall_block", "success", req[t].ip, Len(rows) + 1) \in audit'
    BY <1>5 DEF BlockInsert, ShownBlocked
  <2>2. \A j \in DOMAIN rows : rows'[j] = rows[j]
    BY <1>0, <2>1
  <2> QED
    BY <2>1, <2>2 DEF Record, Opening, ChangesAudited
<1>6. ASSUME Kept PROVE ChangesAudited
  BY <1>0, <1>6 DEF Kept, ChangesAudited
<1>7. ASSUME NEW i \in DOMAIN rows, NEW synced \in BOOLEAN, rows' = Marked(i, synced)
      PROVE  ChangesAudited
  <2> DEFINE marked == Marked(i, synced)
  <2>1. /\ marked \in Seq(Row) /\ Len(marked) = Len(rows) /\ DOMAIN marked = DOMAIN rows
        /\ marked[i].ip = rows[i].ip /\ marked[i].active = rows[i].active
        /\ \A j \in DOMAIN rows \ {i} : marked[j] = rows[j]
    BY <1>0, <1>7, MarkedRows
  <2> HIDE DEF marked
  <2>2. Kept
    BY <1>7, <2>1 DEF Kept, marked
  <2> QED
    BY <1>6, <2>2
<1>8. ASSUME NEW t \in Procs, ExpireMark(t) PROVE ChangesAudited
  BY <1>7, <1>8 DEF ExpireMark, Inv, TypeOK, ProcessTypeOK, history
<1>9. CASE BootMark
  <2>1. PICK i \in todo[Main] :
          rows' = IF rows[i].active THEN Marked(i, held[Main] = i) ELSE rows
    BY <1>9 DEF BootMark
  <2>2. i \in DOMAIN rows /\ (held[Main] = i) \in BOOLEAN
    BY ProcFacts DEF Inv, TypeOK, ProcessTypeOK
  <2> QED
    BY <1>1, <1>7, <2>1, <2>2
<1>10. CASE Tick
  <2>1. PICK i \in ActiveRows :
          rows' = [rows EXCEPT ![i] =
                      [ip |-> rows[i].ip, active |-> rows[i].active,
                       synced |-> rows[i].synced, expiry |-> "past"]]
    BY <1>10 DEF Tick
  <2>2. i \in DOMAIN rows
    BY DEF ActiveRows
  <2> QED
    BY <1>0, <1>6, <2>1, <2>2, TickedRows DEF Kept
<1>11. ASSUME NEW t \in Threads, RequestStep(t) \/ Arrive(t) \/ DbErrorStep(t) PROVE ChangesAudited
  <2>1. CASE UnblockUpdate(t) \/ BlockInsert(t)
    BY <1>4, <1>5, <2>1
  <2>2. ASSUME ~UnblockUpdate(t), ~BlockInsert(t) PROVE rows' = rows
    BY <1>11, <2>2 DEF Arrive, RequestStep, ListRead, BlockStep, BlockReject, BlockDenied,
       BlockAllowlist, BlockExisting, BlockKernel, BlockLost, BlockUndo,
       BlockUndoAudit, UnblockStep, UnblockReject, UnblockSelect, UnblockKernel,
       UnblockRedo, AllowStep, AllowSelect, AllowInsert, AllowRemove,
       DbErrorStep, RequestDbError, BlockInsertError, UnblockUpdateError, db,
         Blocked, Unblocked, Unrepaired, FailedCall, history, AllowFind
  <2> QED
    BY <1>1, <2>1, <2>2
<1>12. ASSUME NEW t \in Procs, ExpireStep(t) PROVE ChangesAudited
  <2>1. ASSUME ~ExpireRelease(t), ~ExpireMark(t) PROVE rows' = rows
    BY <1>12, <2>1 DEF ExpireStep, ExpireSelect, ExpireUnblock, ExpireUnblockFails,
       ExpireDone, db, Unblocked, history
  <2> QED
    BY <1>1, <1>3, <1>8, <2>1
<1>13. CASE BootStep \/ BootDbError \/ Start \/ Crash \/ Observe \/ UNCHANGED vars
  <2>1. ASSUME ~BootMark PROVE rows' = rows
    BY <1>13, <2>1 DEF BootStep, BootSelect, BootBlock, BootBlockFails, BootDone, db,
       BootDbError, Start, Crash, Observe, vars, Blocked, history
  <2> QED
    BY <1>1, <1>9, <2>1
<1> QED
  BY <1>10, <1>11, <1>12, <1>13 DEF Next

\* Every row ever inserted, and every release of one, has its audit record, for
\* any interleaving of requests, failures and crashes: a row and its record are
\* written by one transaction (app.py:401-410, 811-830, 879-887).
THEOREM LedgerAudit == Spec => []LedgerAudited
<1> DEFINE P == \A i \in DOMAIN rows : Opening(audit, i) /\ (~rows[i].active => Closing(audit, i))
<1>0. LedgerAudited <=> P
  BY DEF LedgerAudited, Opening, Closing
<1>1. Init => P
  BY DEF Init
<1>2. Inv /\ P /\ [Next]_vars => P'
  <2> SUFFICES ASSUME Inv, P, [Next]_vars, NEW i \in DOMAIN rows'
               PROVE  Opening(audit', i) /\ (~rows'[i].active => Closing(audit', i))
    OBVIOUS
  <2>0. rows \in Seq(Row) /\ Len(rows) \in Nat /\ DOMAIN rows = 1 .. Len(rows)
    BY DEF Inv, TypeOK, StoreTypeOK
  <2>1. CASE i \in DOMAIN rows
    <3>1. Opening(audit', i) /\ (Closing(audit, i) => Closing(audit', i))
      BY <2>1, AuditGrows DEF Opening, Closing
    <3>2. rows[i].active /\ ~rows'[i].active => Closing(audit', i)
      BY <2>1, StepAudited DEF ChangesAudited
    <3> QED
      BY <2>1, <3>1, <3>2
  <2>2. CASE i \notin DOMAIN rows
    <3>1. PICK r \in Row : Opened(r)
      BY <2>2, RowsChange DEF RowsStep, Inserted, Kept, Closed
    <3>2. i = Len(rows) + 1 /\ Len(rows') > Len(rows) /\ rows'[i] = r /\ r.active
      BY <2>0, <2>2, <3>1, AppendedRows DEF Opened
    <3> QED
      BY <3>2, StepAudited DEF ChangesAudited
  <2> QED
    BY <2>1, <2>2
<1> QED
  BY <1>0, <1>1, <1>2, Invariant, PTL DEF Spec

----------------------------------------------------------------------------
(* What an expiry pass leaves behind.                                      *)

Settled(i) == ~rows[i].active \/ ~rows[i].synced

\* Only the startup handler marks a row that was settled as enforced again.
LEMMA SettledStays ==
    ASSUME Inv, [Next]_vars, ~BootMark, NEW k \in DOMAIN rows, Settled(k)
    PROVE  Settled(k)'
<1>0. rows \in Seq(Row)
  BY DEF Inv, TypeOK, StoreTypeOK
<1>1. ASSUME rows' = rows PROVE Settled(k)'
  BY <1>1 DEF Settled
<1>2. ASSUME NEW i \in DOMAIN rows, rows' = Released(i) PROVE Settled(k)'
  BY <1>0, <1>2, ReleasedRows DEF Settled
<1>3. ASSUME NEW t \in Procs, ExpireStep(t) PROVE Settled(k)'
  <2>1. CASE ExpireRelease(t)
    BY <1>2, <2>1 DEF ExpireRelease, Inv, TypeOK, ProcessTypeOK, history
  <2>2. CASE ExpireMark(t)
    <3>1. PICK i \in todo[t] : rows' = Marked(i, FALSE)
      BY <2>2 DEF ExpireMark
    <3>2. i \in DOMAIN rows
      BY DEF Inv, TypeOK, ProcessTypeOK
    <3>3. \A j \in DOMAIN rows \ {i} : Marked(i, FALSE)[j] = rows[j]
      BY <1>0, <3>2, MarkedRows, Zenon
    <3>4. Marked(i, FALSE)[i].synced = FALSE
      BY <1>0, <3>2, MarkedRows, Zenon
    <3> QED
      BY <3>1, <3>3, <3>4 DEF Settled
  <2>3. ASSUME ~ExpireRelease(t), ~ExpireMark(t) PROVE rows' = rows
    BY <1>3, <2>3 DEF ExpireStep, ExpireSelect, ExpireUnblock, db,
       ExpireUnblockFails, ExpireDone, Unblocked, history
  <2> QED
    BY <1>1, <2>1, <2>2, <2>3
<1>4. ASSUME NEW t \in Threads, RequestStep(t) \/ Arrive(t) \/ DbErrorStep(t)
      PROVE  Settled(k)'
  <2>1. CASE UnblockUpdate(t)
    <3>1. held[t] \in DOMAIN rows
      BY <1>0, <2>1, ProcFacts DEF UnblockUpdate, Return, Goto, Inv, TypeOK, ProcessTypeOK,
         LocalsInv, history
    <3> QED
      BY <1>2, <2>1, <3>1 DEF UnblockUpdate
  <2>2. CASE BlockInsert(t)
    <3>1. rows' = Append(rows, NewRow(req[t]))
      BY <2>2 DEF BlockInsert, ShownBlocked
    <3>2. rows'[k] = rows[k]
      BY <1>0, <3>1
    <3> QED
      BY <3>2 DEF Settled
  <2>3. ASSUME ~UnblockUpdate(t), ~BlockInsert(t) PROVE rows' = rows
    BY <1>4, <2>3 DEF Arrive, RequestStep, ListRead, BlockStep, BlockReject, BlockDenied,
       BlockAllowlist, BlockExisting, BlockKernel, BlockLost, BlockUndo,
       BlockUndoAudit, UnblockStep, UnblockReject, UnblockSelect, UnblockKernel,
       UnblockRedo, AllowStep, AllowSelect, AllowInsert, AllowRemove,
       DbErrorStep, RequestDbError, BlockInsertError, UnblockUpdateError, db,
         Blocked, Unblocked, Unrepaired, FailedCall, history, AllowFind
  <2> QED
    BY <1>1, <2>1, <2>2, <2>3
<1>5. CASE Tick
  <2>1. PICK i \in ActiveRows :
          rows' = [rows EXCEPT ![i] =
                      [ip |-> rows[i].ip, active |-> rows[i].active,
                       synced |-> rows[i].synced, expiry |-> "past"]]
    BY <1>5 DEF Tick
  <2>2. i \in DOMAIN rows
    BY DEF ActiveRows
  <2> QED
    BY <1>0, <2>1, <2>2, TickedRows DEF Settled
<1>6. ASSUME BootSelect \/ BootBlock \/ BootBlockFails \/ BootDone \/ BootDbError
             \/ Start \/ Crash \/ Observe \/ UNCHANGED vars
      PROVE  rows' = rows
  BY <1>6 DEF BootSelect, BootBlock, BootBlockFails, BootDone, db, BootDbError, Start,
     Crash, Observe, vars, Blocked, history
<1> QED
  BY <1>1, <1>3, <1>4, <1>5, <1>6 DEF Next, BootStep

\* What a step does to the rows a thread has fetched: they stay, are forgotten,
\* are fetched anew, or its loop leaves one behind that it has settled.
BootSteps == {"boot_loop", "boot_mark"}

FetchedStep(t) ==
    \/ fetched'[t] = {}
    \/ fetched'[t] = todo'[t]
    \/ pc'[t] \in BootSteps
    \/ /\ fetched'[t] = fetched[t] /\ todo'[t] = todo[t]
       /\ pc[t] \notin BootSteps
    \/ /\ fetched'[t] = fetched[t] /\ pc[t] \notin BootSteps
       /\ \E i \in DOMAIN rows : todo'[t] = todo[t] \ {i} /\ Settled(i)'

LEMMA FetchedChange ==
    ASSUME Inv, [Next]_vars, NEW t \in Procs
    PROVE  FetchedStep(t)
<1>0. /\ fetched \in [Procs -> SUBSET DOMAIN rows]
      /\ todo \in [Procs -> SUBSET DOMAIN rows]
      /\ pc \in [Procs -> Steps] /\ rows \in Seq(Row)
  BY DEF Inv, TypeOK, ProcessTypeOK, StoreTypeOK
<1>1. ASSUME fetched' = fetched, todo' = todo, pc'[t] = pc[t] \/ pc[t] \notin BootSteps
      PROVE  FetchedStep(t)
  BY <1>1 DEF FetchedStep
<1>2. ASSUME NEW u \in Procs, NEW from, Return(u, from) PROVE FetchedStep(t)
  BY <1>0, <1>2 DEF Return, Goto, FetchedStep
<1>3. ASSUME NEW u \in Procs, NEW from, NEW to, Goto(u, from, to),
             from \notin BootSteps, fetched' = fetched, todo' = todo
      PROVE  FetchedStep(t)
  BY <1>0, <1>1, <1>3 DEF Goto
<1>4. ASSUME NEW u \in Threads, Arrive(u) PROVE FetchedStep(t)
  BY <1>0, <1>1, <1>4, ProcFacts DEF Arrive, BootSteps
<1>5. ASSUME NEW u \in Threads, RequestStep(u) PROVE FetchedStep(t)
  <2>1. \/ \E from \in Steps : Return(u, from)
        \/ \E from \in Steps \ BootSteps, to \in Steps :
             Goto(u, from, to) /\ fetched' = fetched /\ todo' = todo
    BY <1>5 DEF RequestStep, ListRead, BlockStep, BlockReject, BlockDenied,
       BlockAllowlist, BlockExisting, BlockKernel, BlockInsert, BlockLost, BlockUndo,
       BlockUndoAudit, UnblockStep, UnblockReject, UnblockSelect, UnblockKernel,
       UnblockUpdate, UnblockRedo, AllowStep, AllowSelect, AllowInsert, AllowRemove,
       locals, Steps, BootSteps, Blocked, ShownBlocked, Unblocked, Unrepaired,
         FailedCall, history, AllowFind
  <2> QED
    BY <1>2, <1>3, <2>1, ProcFacts
<1>6. ASSUME NEW u \in Threads, DbErrorStep(u) PROVE FetchedStep(t)
  BY <1>2, <1>3, <1>6, ProcFacts DEF DbErrorStep, RequestDbError, BlockInsertError,
     UnblockUpdateError, locals, BootSteps, history
<1>7. ASSUME NEW u \in Procs, ExpireStep(u) PROVE FetchedStep(t)
  <2>1. CASE ExpireSelect(u)
    BY <1>0, <2>1 DEF ExpireSelect, Fetch, Goto, FetchedStep, BootSteps
  <2>2. CASE ExpireRelease(u)
    <3>1. PICK i \in todo[u] :
            rows' = Released(i) /\ todo' = [todo EXCEPT ![u] = @ \ {i}]
      BY <2>2 DEF ExpireRelease
    <3>2. i \in DOMAIN rows /\ Settled(i)'
      BY <1>0, <3>1, ReleasedRows DEF Settled
    <3> QED
      BY <1>0, <2>2, <3>1, <3>2 DEF ExpireRelease, Goto, FetchedStep, BootSteps
  <2>3. CASE ExpireMark(u)
    <3>1. PICK i \in todo[u] :
            rows' = Marked(i, FALSE) /\ todo' = [todo EXCEPT ![u] = @ \ {i}]
      BY <2>3 DEF ExpireMark
    <3>2. i \in DOMAIN rows /\ Settled(i)'
      BY <1>0, <3>1, MarkedRows DEF Settled
    <3> QED
      BY <1>0, <2>3, <3>1, <3>2 DEF ExpireMark, Goto, FetchedStep, BootSteps
  <2>4. CASE ExpireUnblock(u) \/ ExpireUnblockFails(u) \/ ExpireDone(u)
    BY <1>3, <2>4 DEF ExpireUnblock, ExpireUnblockFails, ExpireDone, locals, BootSteps,
       Unblocked, history
  <2> QED
    BY <1>7, <2>1, <2>2, <2>3, <2>4 DEF ExpireStep
<1>8. CASE BootStep
  <2>1. CASE BootDone
    BY <1>2, <2>1, ProcFacts DEF BootDone
  <2>2. ASSUME BootSelect \/ BootBlock \/ BootBlockFails \/ BootMark PROVE FetchedStep(t)
    <3>1. /\ pc'[Main] \in BootSteps
          /\ \A u \in Threads : fetched'[u] = fetched[u] /\ todo'[u] = todo[u] /\ pc'[u] = pc[u]
      BY <1>0, <2>2, ProcFacts DEF BootSelect, BootBlock, BootBlockFails, BootMark, Goto,
         Fetch, BootSteps, Blocked
    <3>2. \A u \in Threads : pc[u] = "idle"
      BY <2>2 DEF BootSelect, BootBlock, BootBlockFails, BootMark, Goto, Inv,
         LocalsInv, Blocked
    <3> QED
      BY <3>1, <3>2 DEF FetchedStep, Procs, BootSteps
  <2> QED
    BY <1>8, <2>1, <2>2 DEF BootStep
<1>9. CASE BootDbError \/ Crash
  BY <1>9 DEF BootDbError, Crash, Die, FetchedStep
<1>10. CASE Start
  <2>1. pc[Main] = "idle" /\ (t = Main \/ pc'[t] = pc[t])
    BY <1>0, <1>10, ProcFacts DEF Start, Inv, LocalsInv
  <2> QED
    BY <1>1, <1>10, <2>1 DEF Start, locals, BootSteps, history
<1>11. CASE Tick \/ Observe \/ UNCHANGED vars
  <2>1. fetched' = fetched /\ todo' = todo /\ pc' = pc
    BY <1>11 DEF Tick, Observe, vars, locals, history
  <2>2. pc[t] \notin BootSteps \/ pc'[t] \in BootSteps
    BY <2>1
  <2> QED
    BY <2>1, <2>2 DEF FetchedStep
<1> QED
  BY <1>4, <1>5, <1>6, <1>7, <1>8, <1>9, <1>10, <1>11 DEF Next

\* Whatever the other threads do meanwhile, each row an expiry pass found is
\* released or visibly unsynchronised once its loop has passed it, also after
\* failures of the firewall (app.py:385-405).
THEOREM ExpiryAccounts == Spec => []ExpiryAccounted
<1> DEFINE P == \A t \in Procs : pc[t] \notin BootSteps =>
                  \A k \in fetched[t] \ todo[t] : Settled(k)
<1>0. P <=> ExpiryAccounted
  BY DEF ExpiryAccounted, BootSteps, Settled
<1>1. Init => P
  BY DEF Init
<1>2. Inv /\ P /\ [Next]_vars => P'
  <2> SUFFICES ASSUME Inv, P, [Next]_vars, NEW t \in Procs, pc'[t] \notin BootSteps,
                      NEW k \in fetched'[t] \ todo'[t]
               PROVE  Settled(k)'
    OBVIOUS
  <2>0. fetched[t] \subseteq DOMAIN rows
    BY DEF Inv, TypeOK, ProcessTypeOK
  <2>1. CASE BootMark
    <3>1. pc[t] = "idle" /\ t # Main /\ fetched' = fetched
      BY <2>1, ProcFacts DEF BootMark, Goto, Inv, TypeOK, ProcessTypeOK, LocalsInv,
         BootSteps, Procs, history
    <3>2. fetched[t] = {}
      BY <3>1 DEF Inv, LocalsInv
    <3> QED
      BY <3>1, <3>2
  <2>2. CASE ~BootMark
    <3>1. CASE fetched'[t] = fetched[t] /\ todo'[t] = todo[t] /\ pc[t] \notin BootSteps
      BY <2>0, <2>2, <3>1, SettledStays
    <3>2. ASSUME fetched'[t] = fetched[t], pc[t] \notin BootSteps, NEW i \in DOMAIN rows,
                 todo'[t] = todo[t] \ {i}, Settled(i)'
          PROVE  Settled(k)'
      <4>1. CASE k = i
        BY <3>2, <4>1
      <4>2. CASE k # i
        BY <2>0, <2>2, <3>2, <4>2, SettledStays
      <4> QED
        BY <4>1, <4>2
    <3> QED
      BY <3>1, <3>2, FetchedChange DEF FetchedStep
  <2> QED
    BY <2>1, <2>2
<1> QED
  BY <1>0, <1>1, <1>2, Invariant, PTL DEF Spec

----------------------------------------------------------------------------
(* One request at a time: what the ledger, the allowlist and the kernel    *)
(* owe each other when requests do not overlap.                            *)

OneWorker == \A t, u \in Threads : t = u

\* No active row is about an allowlisted address; a thread between its look at
\* the allowlist and its insert knows its address is not allowlisted; one that
\* is about to list a network knows no active row is in it.
AllowInv ==
    /\ \A i \in ActiveRows : ~Allowlisted(rows[i].ip)
    /\ \A t \in Threads :
         pc[t] \in {"block_existing", "block_kernel", "block_insert"}
           => ~Allowlisted(req[t].ip)
    /\ \A t \in Threads : pc[t] = "allow_insert" =>
         \A i \in ActiveRows : rows[i].ip \notin req[t].net

AllowGuarded == {"block_existing", "block_kernel", "block_insert", "allow_insert"}

\* Rows are closed or kept: the active rows only become fewer.
NoneOpened ==
    /\ ActiveRows' \subseteq ActiveRows
    /\ \A i \in ActiveRows' : rows'[i].ip = rows[i].ip

LEMMA OpenedOrNot ==
    ASSUME Inv, [Next]_vars
    PROVE  NoneOpened \/ \E t \in Threads : Inserted(t)
<1>1. ASSUME Kept \/ \E i \in DOMAIN rows : Closed(i) PROVE NoneOpened
  BY <1>1 DEF Kept, Closed, NoneOpened, ActiveRows
<1> QED
  BY <1>1, RowsChange DEF RowsStep

LEMMA OpenedRows ==
    ASSUME Inv, NEW t \in Threads, Inserted(t)
    PROVE  /\ Len(rows) \in Nat
           /\ DOMAIN rows = 1 .. Len(rows)
           /\ DOMAIN rows' = 1 .. (Len(rows) + 1)
           /\ ActiveRows' = ActiveRows \union {Len(rows) + 1}
           /\ rows'[Len(rows) + 1] = NewRow(req[t])
           /\ \A i \in DOMAIN rows : rows'[i] = rows[i]
<1>1. /\ rows' = Append(rows, NewRow(req[t])) /\ NewRow(req[t]) \in Row
      /\ NewRow(req[t]).active /\ rows \in Seq(Row)
  BY DEF Inserted, Opened, Inv, TypeOK, StoreTypeOK
<1>2. /\ Len(rows) \in Nat
      /\ DOMAIN rows = 1 .. Len(rows)
      /\ DOMAIN rows' = 1 .. (Len(rows) + 1)
      /\ rows'[Len(rows) + 1] = NewRow(req[t])
      /\ \A i \in DOMAIN rows : rows'[i] = rows[i]
  BY <1>1, AppendedRows
<1> QED
  BY <1>1, <1>2 DEF ActiveRows

\* Nothing AllowInv speaks of is disturbed.
LEMMA AllowUndisturbed ==
    ASSUME AllowInv, NoneOpened, allow' \subseteq allow,
           \A t \in Threads : \/ pc'[t] \notin AllowGuarded
                              \/ pc'[t] = pc[t] /\ req'[t] = req[t]
    PROVE  AllowInv'
  BY DEF AllowInv, NoneOpened, AllowGuarded, Allowlisted

LEMMA AllowStepInv ==
    ASSUME OneWorker, Inv, AllowInv, [Next]_vars
    PROVE  AllowInv'
<1>0. /\ pc \in [Procs -> Steps] /\ req \in [Procs -> Requests \union {NoReq}]
      /\ Threads \subseteq Procs /\ Main \notin Threads
  BY ProcFacts DEF Inv, TypeOK, ProcessTypeOK
<1>1. ASSUME NEW t \in Threads, Inserted(t) PROVE AllowInv'
  <2>1. /\ pc[t] = "block_insert" /\ pc'[t] = "idle" /\ allow' = allow
    BY <1>0, <1>1 DEF Inserted, BlockInsert, Return, Goto, ShownBlocked
  <2>2. \A u \in Threads : pc'[u] = "idle"
    BY <2>1 DEF OneWorker
  <2>3. ~Allowlisted(req[t].ip) /\ NewRow(req[t]).ip = req[t].ip
    BY <2>1 DEF AllowInv, NewRow
  <2> QED
    BY <1>1, <2>1, <2>2, <2>3, OpenedRows DEF AllowInv, Allowlisted, ActiveRows
<1>2. ASSUME NoneOpened, NEW t \in Threads, pc'[t] \notin AllowGuarded, allow' \subseteq allow
      PROVE  AllowInv'
  BY <1>2, AllowUndisturbed DEF OneWorker
<1>3. ASSUME NoneOpened, NEW t \in Threads, NEW from, Return(t, from), allow' \subseteq allow
      PROVE  AllowInv'
  BY <1>0, <1>2, <1>3 DEF Return, Goto, AllowGuarded
<1>4. ASSUME NoneOpened, NEW t \in Threads, NEW from,
             NEW to \in Steps \ AllowGuarded, Goto(t, from, to), allow' \subseteq allow
      PROVE  AllowInv'
  BY <1>0, <1>2, <1>4 DEF Goto
<1>5. ASSUME NoneOpened, NEW t \in Threads, AllowStep(t) PROVE AllowInv'
  <2>1. CASE AllowInsert(t)
    <3>1. /\ pc[t] = "allow_insert" /\ pc'[t] = "idle"
          /\ allow' \subseteq allow \union {req[t].net}
      BY <1>0, <2>1 DEF AllowInsert, Return, Goto
    <3>2. \A u \in Threads : pc'[u] = "idle"
      BY <3>1 DEF OneWorker
    <3>3. \A i \in ActiveRows : rows[i].ip \notin req[t].net
      BY <3>1 DEF AllowInv
    <3>4. \A i \in ActiveRows' : i \in ActiveRows /\ rows'[i].ip = rows[i].ip
      BY <1>5 DEF NoneOpened
    <3>5. \A i \in ActiveRows' : ~Allowlisted(rows[i].ip)'
      BY <3>1, <3>3, <3>4 DEF AllowInv, Allowlisted
    <3> QED
      BY <3>2, <3>5 DEF AllowInv
  <2>2. CASE AllowRemove(t)
    BY <1>3, <1>5, <2>2 DEF AllowRemove
  <2>3. CASE AllowSelect(t)
    <3>1. CASE Return(t, "allow_select")
      BY <1>3, <1>5, <2>3, <3>1 DEF AllowSelect, db, history
    <3>2. ASSUME ~Return(t, "allow_select") PROVE AllowInv'
      <4>1. /\ \A i \in ActiveRows : rows[i].ip \notin req[t].net
            /\ pc'[t] = "allow_insert" /\ rows' = rows /\ allow' = allow /\ req' = req
        BY <1>0, <2>3, <3>2 DEF AllowSelect, Goto, db, locals, history
      <4>2. \A u \in Threads : u = t
        BY DEF OneWorker
      <4> QED
        BY <4>1, <4>2 DEF AllowInv, ActiveRows, Allowlisted
    <3> QED
      BY <3>1, <3>2
  <2>4. CASE AllowFind(t)
    BY <1>3, <1>4, <1>5, <2>4 DEF AllowFind, db, Steps, AllowGuarded, history
  <2> QED
    BY <1>5, <2>1, <2>2, <2>3, <2>4 DEF AllowStep
<1>6. ASSUME NoneOpened, NEW t \in Threads, BlockStep(t) PROVE AllowInv'
  <2>1. CASE BlockAllowlist(t)
    <3>1. /\ ~Allowlisted(req[t].ip) /\ pc'[t] = "block_existing"
          /\ rows' = rows /\ allow' = allow /\ req' = req
      BY <1>0, <2>1 DEF BlockAllowlist, Goto, db, locals, history
    <3>2. \A u \in Threads : u = t
      BY DEF OneWorker
    <3> QED
      BY <3>1, <3>2 DEF AllowInv, ActiveRows, Allowlisted
  <2>2. ASSUME \/ Goto(t, "block_existing", "block_kernel")
               \/ Goto(t, "block_kernel", "block_insert"),
               req' = req, allow' = allow
        PROVE  AllowInv'
    <3>1. ~Allowlisted(req[t].ip)
      BY <2>2 DEF Goto, AllowInv
    <3>2. \A u \in Threads : u = t
      BY DEF OneWorker
    <3>3. pc'[t] # "allow_insert"
      BY <1>0, <2>2 DEF Goto
    <3>4. \A i \in ActiveRows' : ~Allowlisted(rows[i].ip)'
      BY <1>6, <2>2 DEF AllowInv, Allowlisted, NoneOpened
    <3>5. ~Allowlisted(req[t].ip)'
      BY <2>2, <3>1 DEF Allowlisted
    <3> QED
      BY <3>2, <3>3, <3>4, <3>5 DEF AllowInv
  <2>3. CASE BlockExisting(t)
    BY <1>3, <1>6, <2>2, <2>3 DEF BlockExisting, db, locals, history
  <2>4. CASE BlockKernel(t)
    BY <1>3, <1>6, <2>2, <2>4 DEF BlockKernel, db, locals, Blocked, history
  <2>5. CASE BlockReject(t) \/ BlockDenied(t) \/ BlockInsert(t) \/ BlockLost(t)
             \/ BlockUndoAudit(t)
    BY <1>3, <1>6, <2>5 DEF BlockReject, BlockDenied, BlockInsert, BlockLost,
       BlockUndoAudit, db, ShownBlocked, history
  <2>6. CASE BlockUndo(t)
    BY <1>4, <1>6, <2>6 DEF BlockUndo, db, Steps, AllowGuarded, Unblocked, Unrepaired,
       FailedCall, history
  <2> QED
    BY <1>6, <2>1, <2>3, <2>4, <2>5, <2>6 DEF BlockStep
<1>7. ASSUME NoneOpened, NEW t \in Threads,
             ListRead(t) \/ UnblockStep(t) \/ DbErrorStep(t) \/ Arrive(t)
      PROVE  AllowInv'
  <2>1. CASE Arrive(t)
    <3>1. PICK r \in Requests : pc' = [pc EXCEPT ![t] = FirstStep(r.op)]
      BY <2>1 DEF Arrive
    <3>2. FirstStep(r.op) \notin AllowGuarded
      BY Zenon DEF FirstStep, AllowGuarded
    <3>3. pc'[t] = FirstStep(r.op)
      BY <1>0, <3>1
    <3> QED
      BY <1>2, <1>7, <2>1, <3>2, <3>3 DEF Arrive, db, history
  <2>2. CASE ListRead(t) \/ UnblockStep(t)
    BY <1>3, <1>4, <1>7, <2>2 DEF ListRead, UnblockStep, UnblockReject, UnblockSelect,
       UnblockKernel, UnblockUpdate, UnblockRedo, db, Steps, AllowGuarded,
         Unblocked, Blocked, Unrepaired, FailedCall, history
  <2>3. CASE DbErrorStep(t)
    BY <1>3, <1>4, <1>7, <2>3 DEF DbErrorStep, RequestDbError, BlockInsertError,
       UnblockUpdateError, db, Steps, AllowGuarded, history
  <2> QED
    BY <1>7, <2>1, <2>2, <2>3
<1>8. ASSUME NoneOpened, NEW t \in Procs, ExpireStep(t) PROVE AllowInv'
  <2>1. allow' = allow /\ req' = req
    BY <1>8 DEF ExpireStep, ExpireSelect, ExpireUnblock, ExpireUnblockFails,
       ExpireRelease, ExpireMark, ExpireDone, db, locals, Unblocked, history
  <2>2. pc'[t] \notin AllowGuarded /\ \A u \in Procs \ {t} : pc'[u] = pc[u]
    BY <1>0, <1>8 DEF ExpireStep, ExpireSelect, ExpireUnblock, ExpireUnblockFails,
       ExpireRelease, ExpireMark, ExpireDone, Goto, AllowGuarded, Unblocked
  <2> QED
    BY <1>0, <1>8, <2>1, <2>2, AllowUndisturbed
<1>9. ASSUME NoneOpened, BootStep \/ Start PROVE AllowInv'
  <2>1. /\ allow' = allow
        /\ \A t \in Threads : pc'[t] = pc[t] /\ req'[t] = req[t]
    BY <1>0, <1>9, ProcFacts DEF BootStep, BootSelect, BootBlock, BootBlockFails, BootMark,
       BootDone, Start, Return, Goto, db, locals, Blocked, history
  <2> QED
    BY <1>9, <2>1, AllowUndisturbed
<1>10. ASSUME NoneOpened, BootDbError \/ Crash PROVE AllowInv'
  BY <1>0, <1>10, AllowUndisturbed DEF BootDbError, Crash, Die, db, AllowGuarded, history
<1>11. ASSUME NoneOpened, Tick \/ Observe \/ UNCHANGED vars PROVE AllowInv'
  BY <1>11, AllowUndisturbed DEF Tick, Observe, vars, locals, history
<1> QED
  BY <1>1, <1>5, <1>6, <1>7, <1>8, <1>9, <1>10, <1>11, OpenedOrNot DEF Next, RequestStep

\* When requests do not overlap, no allowlisted address has an active block:
\* the two looks at the database, of block_ip at the allowlist and of
\* add_allowlist at the blocks, suffice (app.py:801-803, 1013-1016).
THEOREM AllowlistKept == ASSUME OneWorker PROVE Spec => []AllowlistRespected
<1>1. Init => AllowInv
  BY ProcFacts DEF Init, AllowInv, ActiveRows
<1>2. Inv /\ AllowInv /\ [Next]_vars => AllowInv'
  BY AllowStepInv
<1>3. AllowInv => AllowlistRespected
  BY DEF AllowInv, AllowlistRespected
<1> QED
  BY <1>1, <1>2, <1>3, Invariant, PTL DEF Spec

----------------------------------------------------------------------------
(* The hypotheses of the serial theorems: requests do not overlap, and a   *)
(* call that fails had no effect.                                          *)

Serial == OneWorker /\ LateEffects = FALSE

ExpireSteps  == {"expire_loop", "expire_release", "expire_mark"}
UnblockSteps == {"unblock_kernel", "unblock_update", "unblock_redo"}

\* What process p knows of the rows at its next step.
RowsKnownTo(p) ==
    /\ pc[p] \in ExpireSteps => todo[p] \subseteq Overdue
    /\ pc[p] \in BootSteps => todo[p] \subseteq ActiveRows
    /\ pc[p] \in {"block_kernel", "block_insert", "block_undo"}
         => ActiveFor(req[p].ip) = {}
    /\ pc[p] \in UnblockSteps =>
         /\ held[p] = 0 => ActiveFor(req[p].ip) = {}
         /\ held[p] # 0 => held[p] \in ActiveFor(req[p].ip)

\* What it knows of the kernel.
KernelKnownTo(p) ==
    /\ pc[p] = "expire_release" /\ Misreads = FALSE =>
         \A i \in todo[p] : First(todo[p], i) => rows[i].ip \notin kernel
    /\ pc[p] = "block_insert" => req[p].ip \in kernel
    /\ pc[p] \in {"unblock_update", "unblock_redo"} /\ Misreads = FALSE
         => req[p].ip \notin kernel
    /\ pc[p] = "boot_mark" /\ held[p] # 0 => rows[held[p]].ip \in kernel

RowsKnown   == \A p \in Procs : RowsKnownTo(p)
KernelKnown == \A p \in Procs : KernelKnownTo(p)

\* Between its call of the firewall and its UPDATE an unblock holds a row that is
\* still active, whose element may be gone.
Unblocking(i) ==
    \E p \in Procs : pc[p] \in {"unblock_update", "unblock_redo"} /\ held[p] = i

\* Active rows that ought to be enforced.
Claimed == {i \in ActiveRows \ Overdue : rows[i].synced}

\* Addresses the kernel drops or a failed compensation left in doubt, and those it
\* drops although no failed compensation can be the reason.
Covered == kernel \union unrepaired
Trusted == kernel \ unrepaired

EnforcedInv ==
    /\ phase = "serving" =>
         \A i \in Claimed : rows[i].ip \in Covered \/ Unblocking(i)
    /\ \A p \in Procs : pc[p] \in BootSteps =>
         \A i \in Claimed \ todo[p] : rows[i].ip \in kernel

ShownInv ==
    \A i \in ActiveRows : attacker[rows[i].ip] = "blocked" \/ rows[i].ip \in unseen

\* Between its call of the firewall and its INSERT a block has an element
\* without a row.
Blocking(ip) ==
    \E p \in Procs : pc[p] \in {"block_insert", "block_undo"} /\ req[p].ip = ip

NoOrphanInv ==
    Misreads = FALSE /\ crashes = 0 =>
        \A ip \in Trusted : ActiveFor(ip) # {} \/ Blocking(ip)

\* When requests do not overlap, only one process is ever under way.
LEMMA Alone ==
    ASSUME OneWorker, Inv, NEW p \in Procs, pc[p] # "idle"
    PROVE  \A q \in Procs \ {p} : pc[q] = "idle"
<1>1. CASE p = Main
  BY <1>1 DEF Inv, LocalsInv, Procs
<1>2. CASE p \in Threads
  BY <1>2 DEF Inv, LocalsInv, Procs, OneWorker
<1> QED
  BY <1>1, <1>2 DEF Procs

\* Step p moves, and nobody else is under way.
Moves(p) == \A q \in Procs \ {p} : pc[q] = "idle" /\ pc'[q] = "idle"

LEMMA GotoMoves ==
    ASSUME OneWorker, Inv, NEW p \in Procs, NEW from \in Steps \ {"idle"}, NEW to,
           Goto(p, from, to)
    PROVE  Moves(p) /\ pc[p] = from /\ pc'[p] = to
<1>1. pc \in [Procs -> Steps] /\ pc[p] = from /\ pc' = [pc EXCEPT ![p] = to]
  BY DEF Goto, Inv, TypeOK, ProcessTypeOK
<1> QED
  BY <1>1, Alone DEF Moves

LEMMA ReturnMoves ==
    ASSUME OneWorker, Inv, NEW p \in Procs, NEW from \in Steps \ {"idle"},
           Return(p, from)
    PROVE  Moves(p) /\ pc[p] = from /\ pc'[p] = "idle"
  BY GotoMoves DEF Return

\* What the updates of a row do to the sets of rows.
LEMMA ReleasedEffect ==
    ASSUME rows \in Seq(Row), NEW i \in DOMAIN rows, rows' = Released(i)
    PROVE  /\ ActiveRows' = ActiveRows \ {i}
           /\ Overdue' = Overdue \ {i}
           /\ Claimed' = Claimed \ {i}
           /\ \A j \in DOMAIN rows : rows'[j].ip = rows[j].ip
  BY ReleasedRows DEF ActiveRows, Overdue, Claimed

LEMMA MarkedRest ==
    ASSUME rows \in Seq(Row), NEW i \in DOMAIN rows, NEW synced \in BOOLEAN
    PROVE  /\ DOMAIN Marked(i, synced) = DOMAIN rows
           /\ Marked(i, synced)[i].ip = rows[i].ip
           /\ Marked(i, synced)[i].active = rows[i].active
           /\ Marked(i, synced)[i].expiry = rows[i].expiry
           /\ \A j \in DOMAIN rows \ {i} : Marked(i, synced)[j] = rows[j]
<1>1. /\ DOMAIN Marked(i, synced) = DOMAIN rows
      /\ Marked(i, synced)[i].ip = rows[i].ip
      /\ Marked(i, synced)[i].active = rows[i].active
  BY MarkedRows, Zenon
<1>2. Marked(i, synced)[i].expiry = rows[i].expiry
  BY MarkedRows, Zenon
<1>3. \A j \in DOMAIN rows \ {i} : Marked(i, synced)[j] = rows[j]
  BY DEF Marked
<1> QED
  BY <1>1, <1>2, <1>3

LEMMA MarkedEffect ==
    ASSUME rows \in Seq(Row), NEW i \in DOMAIN rows, NEW synced \in BOOLEAN,
           rows' = Marked(i, synced)
    PROVE  /\ ActiveRows' = ActiveRows
           /\ Overdue' = Overdue
           /\ Claimed' \subseteq Claimed \union {i}
           /\ ~synced => Claimed' \subseteq Claimed \ {i}
           /\ \A j \in DOMAIN rows : rows'[j].ip = rows[j].ip
<1>1. /\ DOMAIN rows' = DOMAIN rows
      /\ rows'[i].ip = rows[i].ip /\ rows'[i].active = rows[i].active
      /\ rows'[i].expiry = rows[i].expiry
      /\ \A j \in DOMAIN rows \ {i} : rows'[j] = rows[j]
  BY MarkedRest
<1>2. rows'[i].synced = synced
  BY MarkedRows, Zenon
<1>3. ActiveRows' = ActiveRows /\ Overdue' = Overdue
  BY <1>1 DEF ActiveRows, Overdue
<1>4. Claimed' \ {i} \subseteq Claimed
  BY <1>1, <1>3 DEF Claimed, ActiveRows
<1>5. ~synced => i \notin Claimed'
  BY <1>2, Zenon DEF Claimed
<1> QED
  BY <1>1, <1>3, <1>4, <1>5

LEMMA TickEffect ==
    ASSUME Inv, Tick
    PROVE  /\ ActiveRows' = ActiveRows
           /\ Overdue \subseteq Overdue'
           /\ Claimed' \subseteq Claimed
           /\ \A j \in DOMAIN rows : rows'[j].ip = rows[j].ip
<1>1. PICK i \in ActiveRows :
        rows' = [rows EXCEPT ![i] =
                    [ip |-> rows[i].ip, active |-> rows[i].active,
                     synced |-> rows[i].synced, expiry |-> "past"]]
  BY DEF Tick
<1>2. rows \in Seq(Row) /\ i \in DOMAIN rows
  BY DEF Inv, TypeOK, StoreTypeOK, ActiveRows
<1> QED
  BY <1>1, <1>2, TickedRows DEF ActiveRows, Overdue, Claimed

LEMMA RowsKnownMove ==
    ASSUME NEW p \in Procs, Moves(p), RowsKnownTo(p)'
    PROVE  RowsKnown'
  BY DEF Moves, RowsKnown, RowsKnownTo, ExpireSteps, BootSteps, UnblockSteps

KnowingSteps == ExpireSteps \union BootSteps \union UnblockSteps
                  \union {"block_kernel", "block_insert", "block_undo"}

LEMMA RowsKnownRest ==
    ASSUME NEW p \in Procs, Moves(p), pc'[p] \notin KnowingSteps
    PROVE  RowsKnown'
  BY RowsKnownMove DEF RowsKnownTo, KnowingSteps

\* A step that leaves rows, request and row ids alone, to a place where no more
\* is known than before.
LEMMA RowsKnownOn ==
    ASSUME OneWorker, Inv, RowsKnown, NEW p \in Procs, NEW from \in Steps \ {"idle"}, NEW to,
           Goto(p, from, to), rows' = rows, req' = req, todo' = todo, held' = held,
           \/ from \in ExpireSteps /\ to \in ExpireSteps
           \/ from \in BootSteps /\ to \in BootSteps
           \/ from \in UnblockSteps /\ to \in UnblockSteps
           \/ from \in {"block_kernel", "block_insert", "block_undo"}
              /\ to \in {"block_kernel", "block_insert", "block_undo"}
    PROVE  RowsKnown'
<1>1. Moves(p) /\ pc[p] = from /\ pc'[p] = to
  BY GotoMoves
<1>2. RowsKnownTo(p)
  BY DEF RowsKnown
<1>3. ActiveRows' = ActiveRows /\ Overdue' = Overdue /\ ActiveFor(req[p].ip)' = ActiveFor(req[p].ip)
  BY DEF ActiveRows, Overdue, ActiveFor
<1>4. RowsKnownTo(p)'
  BY <1>1, <1>2, <1>3 DEF RowsKnownTo, ExpireSteps, BootSteps, UnblockSteps
<1> QED
  BY <1>1, <1>4, RowsKnownMove

LEMMA RowsKnownStep ==
    ASSUME OneWorker, Inv, RowsKnown, [Next]_vars
    PROVE  RowsKnown'
<1>0. /\ pc \in [Procs -> Steps] /\ req \in [Procs -> Requests \union {NoReq}]
      /\ todo \in [Procs -> SUBSET DOMAIN rows] /\ held \in [Procs -> 0 .. Len(rows)]
      /\ Threads \subseteq Procs /\ Main \in Procs /\ Main \notin Threads
      /\ rows \in Seq(Row)
  BY ProcFacts DEF Inv, TypeOK, ProcessTypeOK, StoreTypeOK
<1>1. ASSUME NEW p \in Procs, NEW from \in Steps \ {"idle"}, Return(p, from)
      PROVE  RowsKnown'
  BY <1>1, ReturnMoves, RowsKnownRest
     DEF KnowingSteps, ExpireSteps, BootSteps, UnblockSteps
<1>2. ASSUME NEW p \in Procs, NEW from \in Steps \ {"idle"}, NEW to, Goto(p, from, to),
             to \notin KnowingSteps
      PROVE  RowsKnown'
  BY <1>2, GotoMoves, RowsKnownRest
<1>3. ASSUME NEW t \in Threads, Arrive(t) PROVE RowsKnown'
  <2>1. PICK r \in Requests : pc' = [pc EXCEPT ![t] = FirstStep(r.op)]
    BY <1>3 DEF Arrive
  <2>2. FirstStep(r.op) \in {"unblock_select", "allow_select", "allow_find", "expire_select"}
    BY Zenon DEF FirstStep
  <2>3. Moves(t)
    BY <1>0, <1>3, <2>1 DEF Arrive, Moves, Inv, LocalsInv, Procs, OneWorker
  <2>4. pc'[t] = FirstStep(r.op)
    BY <1>0, <2>1
  <2> QED
    BY <1>0, <2>2, <2>3, <2>4, RowsKnownRest
       DEF KnowingSteps, ExpireSteps, BootSteps, UnblockSteps
<1>4. ASSUME NEW t \in Threads, BlockStep(t) PROVE RowsKnown'
  <2>1. CASE BlockExisting(t)
    <3>1. CASE Return(t, "block_existing")
      BY <1>0, <1>1, <3>1 DEF Steps
    <3>2. CASE /\ ActiveFor(req[t].ip) = {} /\ Goto(t, "block_existing", "block_kernel")
               /\ UNCHANGED <<locals, faults>>
      <4>1. Moves(t) /\ pc'[t] = "block_kernel"
        BY <1>0, <3>2, GotoMoves DEF Steps
      <4>2. ActiveFor(req[t].ip)' = {}
        BY <2>1, <3>2 DEF BlockExisting, db, locals, ActiveFor, ActiveRows, history
      <4> QED
        BY <1>0, <4>1, <4>2, RowsKnownMove DEF RowsKnownTo, ExpireSteps, BootSteps,
           UnblockSteps
    <3> QED
      BY <2>1, <3>1, <3>2 DEF BlockExisting
  <2>2. CASE BlockKernel(t)
    BY <1>0, <1>1, <2>2, RowsKnownOn DEF BlockKernel, db, locals, Steps, Blocked, history
  <2>3. CASE BlockReject(t) \/ BlockDenied(t) \/ BlockInsert(t) \/ BlockLost(t)
             \/ BlockUndoAudit(t)
    BY <1>0, <1>1, <2>3 DEF BlockReject, BlockDenied, BlockInsert, BlockLost,
       BlockUndoAudit, Steps, ShownBlocked
  <2>4. CASE BlockAllowlist(t) \/ BlockUndo(t)
    BY <1>0, <1>2, <2>4 DEF BlockAllowlist, BlockUndo, Steps, KnowingSteps, ExpireSteps,
       BootSteps, UnblockSteps, Unblocked, Unrepaired, FailedCall
  <2> QED
    BY <1>4, <2>1, <2>2, <2>3, <2>4 DEF BlockStep
<1>5. ASSUME NEW t \in Threads, UnblockStep(t) PROVE RowsKnown'
  <2>1. CASE UnblockSelect(t)
    <3>1. Moves(t) /\ pc'[t] = "unblock_kernel"
      BY <1>0, <2>1, GotoMoves DEF UnblockSelect, Steps
    <3>2. rows' = rows /\ req' = req
      BY <2>1 DEF UnblockSelect, db, history
    <3>3. ActiveFor(req[t].ip)' = ActiveFor(req[t].ip)
      BY <3>2 DEF ActiveFor, ActiveRows
    <3>4. ActiveFor(req[t].ip) = {} \/ held'[t] \in ActiveFor(req[t].ip)
      BY <1>0, <2>1 DEF UnblockSelect
    <3>5. held[t] = 0
      BY <1>0, <2>1 DEF UnblockSelect, Goto, Inv, LocalsInv
    <3>6. held'[t] = 0 \/ held'[t] \in ActiveFor(req[t].ip)
      BY <1>0, <2>1, <3>5 DEF UnblockSelect
    <3>7. 0 \notin ActiveFor(req[t].ip)
      BY <1>0 DEF ActiveFor, ActiveRows
    <3>8. RowsKnownTo(t)'
      BY <3>1, <3>2, <3>3, <3>4, <3>6, <3>7
         DEF RowsKnownTo, ExpireSteps, BootSteps, UnblockSteps
    <3> QED
      BY <1>0, <3>1, <3>8, RowsKnownMove
  <2>2. CASE UnblockKernel(t)
    BY <1>0, <1>1, <2>2, RowsKnownOn DEF UnblockKernel, db, locals, Steps,
       UnblockSteps, Unblocked, history
  <2>3. CASE UnblockReject(t) \/ UnblockUpdate(t) \/ UnblockRedo(t)
    BY <1>0, <1>1, <2>3 DEF UnblockReject, UnblockUpdate, UnblockRedo, Steps, Blocked,
       Unrepaired, FailedCall
  <2> QED
    BY <1>5, <2>1, <2>2, <2>3 DEF UnblockStep
<1>6. ASSUME NEW t \in Threads, ListRead(t) \/ AllowStep(t) PROVE RowsKnown'
  BY <1>0, <1>1, <1>2, <1>6 DEF ListRead, AllowStep, AllowSelect, AllowInsert,
     AllowRemove, Steps, KnowingSteps, ExpireSteps, BootSteps, UnblockSteps,
         AllowFind
<1>7. ASSUME NEW t \in Threads, DbErrorStep(t) PROVE RowsKnown'
  <2>1. CASE RequestDbError(t)
    BY <1>0, <1>1, <2>1 DEF RequestDbError, PlainDbSteps, Steps
  <2>2. CASE BlockInsertError(t) \/ UnblockUpdateError(t)
    BY <1>0, <2>2, RowsKnownOn DEF BlockInsertError, UnblockUpdateError, db, locals, Steps,
       UnblockSteps, history
  <2> QED
    BY <1>7, <2>1, <2>2 DEF DbErrorStep
<1>8. ASSUME NEW p \in Procs, ExpireStep(p) PROVE RowsKnown'
  <2>1. CASE ExpireSelect(p)
    <3>1. Moves(p) /\ pc'[p] = "expire_loop"
      BY <1>0, <2>1, GotoMoves DEF ExpireSelect, Steps
    <3>2. todo'[p] = Overdue /\ Overdue' = Overdue
      BY <1>0, <2>1 DEF ExpireSelect, Fetch, db, Overdue, ActiveRows, history
    <3> QED
      BY <3>1, <3>2, RowsKnownMove DEF RowsKnownTo, ExpireSteps, BootSteps, UnblockSteps
  <2>2. CASE ExpireUnblock(p) \/ ExpireUnblockFails(p)
    BY <1>0, <2>2, RowsKnownOn DEF ExpireUnblock, ExpireUnblockFails, db, locals, Steps,
       ExpireSteps, Unblocked, history
  <2>3. ASSUME ExpireRelease(p) \/ ExpireMark(p) PROVE RowsKnown'
    <3>1. Moves(p) /\ pc[p] \in ExpireSteps /\ pc'[p] = "expire_loop"
      BY <1>0, <2>3, GotoMoves DEF ExpireRelease, ExpireMark, Steps, ExpireSteps
    <3>2. PICK i \in todo[p] : /\ todo' = [todo EXCEPT ![p] = @ \ {i}]
                               /\ rows' = Released(i) \/ rows' = Marked(i, FALSE)
      BY <2>3 DEF ExpireRelease, ExpireMark
    <3>3. i \in DOMAIN rows /\ todo[p] \subseteq Overdue /\ todo'[p] = todo[p] \ {i}
      BY <1>0, <3>1, <3>2 DEF RowsKnown, RowsKnownTo
    <3>4. Overdue' = Overdue \ {i} \/ Overdue' = Overdue
      <4>1. CASE rows' = Released(i)
        BY <1>0, <3>3, <4>1, ReleasedEffect
      <4>2. CASE rows' = Marked(i, FALSE)
        BY <1>0, <3>3, <4>2, MarkedEffect, Zenon
      <4> QED
        BY <3>2, <4>1, <4>2
    <3>5. todo'[p] \subseteq Overdue'
      BY <3>3, <3>4
    <3> QED
      BY <3>1, <3>5, RowsKnownMove DEF RowsKnownTo, ExpireSteps, BootSteps, UnblockSteps
  <2>4. CASE ExpireDone(p)
    BY <1>0, <1>2, <2>4 DEF ExpireDone, Steps, KnowingSteps, ExpireSteps, BootSteps,
       UnblockSteps
  <2> QED
    BY <1>8, <2>1, <2>2, <2>3, <2>4 DEF ExpireStep
<1>9. CASE BootStep
  <2>1. CASE BootSelect
    <3>1. Moves(Main) /\ pc'[Main] = "boot_loop"
      BY <1>0, <2>1, GotoMoves DEF BootSelect, Steps
    <3>2. todo'[Main] = ActiveRows /\ ActiveRows' = ActiveRows
      BY <1>0, <2>1 DEF BootSelect, Fetch, db, ActiveRows, history
    <3> QED
      BY <1>0, <3>1, <3>2, RowsKnownMove DEF RowsKnownTo, ExpireSteps, BootSteps,
         UnblockSteps
  <2>2. ASSUME BootBlock \/ BootBlockFails \/ BootMark PROVE RowsKnown'
    <3>1. Moves(Main) /\ pc[Main] \in BootSteps /\ pc'[Main] \in BootSteps
      BY <1>0, <2>2, GotoMoves DEF BootBlock, BootBlockFails, BootMark, Steps,
         BootSteps, Blocked
    <3>2. todo'[Main] \subseteq todo[Main]
      BY <1>0, <2>2 DEF BootBlock, BootBlockFails, BootMark, Blocked
    <3>3. ActiveRows' = ActiveRows
      <4>1. CASE BootMark
        <5>1. PICK i \in todo[Main] :
                rows' = IF rows[i].active THEN Marked(i, held[Main] = i) ELSE rows
          BY <4>1 DEF BootMark
        <5>2. i \in DOMAIN rows /\ (held[Main] = i) \in BOOLEAN
          BY <1>0
        <5>3. CASE rows' = Marked(i, held[Main] = i)
          BY <1>0, <5>2, <5>3, MarkedEffect
        <5> QED
          BY <5>1, <5>3 DEF ActiveRows
      <4>2. CASE BootBlock \/ BootBlockFails
        BY <4>2 DEF BootBlock, BootBlockFails, db, ActiveRows, Blocked, history
      <4> QED
        BY <2>2, <4>1, <4>2
    <3>4. todo[Main] \subseteq ActiveRows
      BY <1>0, <3>1 DEF RowsKnown, RowsKnownTo
    <3> QED
      BY <1>0, <3>1, <3>2, <3>3, <3>4, RowsKnownMove
         DEF RowsKnownTo, ExpireSteps, BootSteps, UnblockSteps
  <2>3. CASE BootDone
    BY <1>0, <1>1, <2>3 DEF BootDone, Steps
  <2> QED
    BY <1>9, <2>1, <2>2, <2>3 DEF BootStep
<1>10. CASE Start
  <2>1. Moves(Main) /\ pc'[Main] = "expire_select"
    BY <1>0, <1>10 DEF Start, Moves, Inv, LocalsInv, Procs
  <2> QED
    BY <1>0, <2>1, RowsKnownRest DEF KnowingSteps, ExpireSteps, BootSteps, UnblockSteps
<1>11. CASE BootDbError \/ Crash
  BY <1>11 DEF BootDbError, Crash, Die, RowsKnown, RowsKnownTo, ExpireSteps, BootSteps,
     UnblockSteps
<1>12. CASE Tick
  <2>1. /\ ActiveRows' = ActiveRows /\ Overdue \subseteq Overdue'
        /\ \A p \in Procs : ActiveFor(req[p].ip)' = ActiveFor(req[p].ip)
    BY <1>12, TickEffect DEF ActiveFor, ActiveRows, Tick, locals, history
  <2>2. pc' = pc /\ todo' = todo /\ held' = held /\ req' = req
    BY <1>12 DEF Tick, locals, history
  <2> QED
    BY <2>1, <2>2 DEF RowsKnown, RowsKnownTo
<1>13. CASE Observe \/ UNCHANGED vars
  BY <1>13 DEF Observe, locals, vars, RowsKnown, RowsKnownTo, ActiveRows, Overdue,
     ActiveFor
<1> QED
  BY <1>3, <1>4, <1>5, <1>6, <1>7, <1>8, <1>9, <1>10, <1>11, <1>12, <1>13
     DEF Next, RequestStep

KernelSteps == {"expire_release", "block_insert", "unblock_update",
                "unblock_redo", "boot_mark"}

LEMMA KernelKnownMove ==
    ASSUME NEW p \in Procs, Moves(p), KernelKnownTo(p)'
    PROVE  KernelKnown'
  BY DEF Moves, KernelKnown, KernelKnownTo

LEMMA KernelKnownRest ==
    ASSUME NEW p \in Procs, Moves(p), pc'[p] \notin KernelSteps
    PROVE  KernelKnown'
  BY KernelKnownMove DEF KernelKnownTo, KernelSteps

LEMMA KernelKnownStep ==
    ASSUME Serial, Inv, KernelKnown, [Next]_vars
    PROVE  KernelKnown'
<1>0. /\ pc \in [Procs -> Steps] /\ req \in [Procs -> Requests \union {NoReq}]
      /\ todo \in [Procs -> SUBSET DOMAIN rows] /\ held \in [Procs -> 0 .. Len(rows)]
      /\ Threads \subseteq Procs /\ Main \in Procs /\ Main \notin Threads
      /\ rows \in Seq(Row) /\ OneWorker /\ LateEffects = FALSE
  BY ProcFacts DEF Inv, TypeOK, ProcessTypeOK, StoreTypeOK, Serial
<1>1. ASSUME NEW p \in Procs, NEW from \in Steps \ {"idle"}, Return(p, from)
      PROVE  KernelKnown'
  BY <1>0, <1>1, ReturnMoves, KernelKnownRest DEF KernelSteps
<1>2. ASSUME NEW p \in Procs, NEW from \in Steps \ {"idle"}, NEW to, Goto(p, from, to),
             to \notin KernelSteps
      PROVE  KernelKnown'
  BY <1>0, <1>2, GotoMoves, KernelKnownRest
<1>3. ASSUME NEW t \in Threads, Arrive(t) PROVE KernelKnown'
  <2>1. PICK r \in Requests : pc' = [pc EXCEPT ![t] = FirstStep(r.op)]
    BY <1>3 DEF Arrive
  <2>2. FirstStep(r.op) \in {"unblock_select", "allow_select", "allow_find", "expire_select"}
    BY Zenon DEF FirstStep
  <2>3. Moves(t)
    BY <1>0, <1>3, <2>1 DEF Arrive, Moves, Inv, LocalsInv, Procs, OneWorker
  <2>4. pc'[t] = FirstStep(r.op)
    BY <1>0, <2>1
  <2> QED
    BY <1>0, <2>2, <2>3, <2>4, KernelKnownRest DEF KernelSteps
<1>4. ASSUME NEW t \in Threads, BlockStep(t) PROVE KernelKnown'
  <2>1. CASE BlockKernel(t)
    <3>1. CASE Return(t, "block_kernel")
      BY <1>0, <1>1, <3>1 DEF Steps
    <3>2. CASE /\ Goto(t, "block_kernel", "block_insert")
               /\ kernel' = kernel \union {req[t].ip}
               /\ UNCHANGED <<locals, faults>>
      <4>1. Moves(t) /\ pc'[t] = "block_insert"
        BY <1>0, <3>2, GotoMoves DEF Steps
      <4> QED
        BY <1>0, <3>2, <4>1, KernelKnownMove DEF KernelKnownTo, locals
    <3> QED
      BY <2>1, <3>1, <3>2 DEF BlockKernel, Blocked
  <2>2. CASE BlockReject(t) \/ BlockDenied(t) \/ BlockInsert(t) \/ BlockLost(t)
             \/ BlockUndoAudit(t)
    BY <1>0, <1>1, <2>2 DEF BlockReject, BlockDenied, BlockInsert, BlockLost,
       BlockUndoAudit, Steps, ShownBlocked
  <2>3. CASE BlockAllowlist(t) \/ BlockUndo(t)
    BY <1>0, <1>2, <2>3 DEF BlockAllowlist, BlockUndo, Steps, KernelSteps, Unblocked,
       Unrepaired, FailedCall
  <2>4. CASE BlockExisting(t)
    BY <1>0, <1>1, <1>2, <2>4 DEF BlockExisting, Steps, KernelSteps
  <2> QED
    BY <1>4, <2>1, <2>2, <2>3, <2>4 DEF BlockStep
<1>5. ASSUME NEW t \in Threads, UnblockStep(t) PROVE KernelKnown'
  <2>1. CASE UnblockKernel(t)
    <3>1. CASE Return(t, "unblock_kernel")
      BY <1>0, <1>1, <3>1 DEF Steps
    <3>2. CASE /\ Unblocked(req[t].ip)
               /\ Goto(t, "unblock_kernel", "unblock_update")
               /\ UNCHANGED <<locals, faults>>
      <4>1. Moves(t) /\ pc'[t] = "unblock_update"
        BY <1>0, <3>2, GotoMoves DEF Steps
      <4> QED
        BY <1>0, <3>2, <4>1, KernelKnownMove DEF KernelKnownTo, locals, Unblocked
    <3> QED
      BY <2>1, <3>1, <3>2 DEF UnblockKernel, Unblocked
  <2>2. CASE UnblockReject(t) \/ UnblockUpdate(t) \/ UnblockRedo(t)
    BY <1>0, <1>1, <2>2 DEF UnblockReject, UnblockUpdate, UnblockRedo, Steps, Blocked,
       Unrepaired, FailedCall
  <2>3. CASE UnblockSelect(t)
    BY <1>0, <1>2, <2>3 DEF UnblockSelect, Steps, KernelSteps
  <2> QED
    BY <1>5, <2>1, <2>2, <2>3 DEF UnblockStep
<1>6. ASSUME NEW t \in Threads, ListRead(t) \/ AllowStep(t) PROVE KernelKnown'
  BY <1>0, <1>1, <1>2, <1>6 DEF ListRead, AllowStep, AllowSelect, AllowInsert,
     AllowRemove, Steps, KernelSteps, AllowFind
<1>7. ASSUME NEW t \in Threads, DbErrorStep(t) PROVE KernelKnown'
  <2>1. CASE RequestDbError(t)
    BY <1>0, <1>1, <2>1 DEF RequestDbError, PlainDbSteps, Steps
  <2>2. CASE BlockInsertError(t)
    BY <1>0, <1>2, <2>2 DEF BlockInsertError, Steps, KernelSteps
  <2>3. CASE UnblockUpdateError(t)
    <3>1. Moves(t) /\ pc[t] = "unblock_update" /\ pc'[t] = "unblock_redo"
      BY <1>0, <2>3, GotoMoves DEF UnblockUpdateError, Steps
    <3>2. kernel' = kernel /\ req' = req
      BY <1>0, <2>3 DEF UnblockUpdateError, locals, history
    <3>3. Misreads = FALSE => req[t].ip \notin kernel
      BY <1>0, <3>1 DEF KernelKnown, KernelKnownTo
    <3> QED
      BY <1>0, <3>1, <3>2, <3>3, KernelKnownMove DEF KernelKnownTo
  <2> QED
    BY <1>7, <2>1, <2>2, <2>3 DEF DbErrorStep
<1>8. ASSUME NEW p \in Procs, ExpireStep(p) PROVE KernelKnown'
  <2>1. CASE ExpireUnblock(p)
    <3>1. Moves(p) /\ pc'[p] = "expire_release"
      BY <1>0, <2>1, GotoMoves DEF ExpireUnblock, Steps, Unblocked
    <3>2. PICK i \in todo[p] :
            First(todo[p], i) /\ (Misreads = FALSE => kernel' = kernel \ {rows[i].ip})
      BY <2>1 DEF ExpireUnblock, Unblocked
    <3>3. todo' = todo /\ rows' = rows
      BY <2>1 DEF ExpireUnblock, db, locals, Unblocked, history
    <3>4. ASSUME NEW j \in todo[p], First(todo[p], j) PROVE j = i
      <4>1. i \in Nat /\ j \in Nat
        BY <1>0
      <4> QED
        BY <3>2, <3>4, <4>1 DEF First
    <3>5. KernelKnownTo(p)'
      BY <3>1, <3>2, <3>3, <3>4 DEF KernelKnownTo, First
    <3> QED
      BY <3>1, <3>5, KernelKnownMove
  <2>2. CASE \/ ExpireSelect(p) \/ ExpireUnblockFails(p) \/ ExpireRelease(p)
             \/ ExpireMark(p) \/ ExpireDone(p)
    BY <1>0, <1>2, <2>2 DEF ExpireSelect, ExpireUnblockFails, ExpireRelease, ExpireMark,
       ExpireDone, Steps, KernelSteps
  <2> QED
    BY <1>8, <2>1, <2>2 DEF ExpireStep
<1>9. CASE BootStep
  <2>1. CASE BootBlock
    <3>1. Moves(Main) /\ pc'[Main] = "boot_mark"
      BY <1>0, <2>1, GotoMoves DEF BootBlock, Steps, Blocked
    <3>2. PICK i \in todo[Main] : kernel' = kernel \union {rows[i].ip} /\ held'[Main] = i
      BY <1>0, <2>1 DEF BootBlock, Blocked
    <3>3. rows' = rows
      BY <2>1 DEF BootBlock, db, Blocked, history
    <3> QED
      BY <1>0, <3>1, <3>2, <3>3, KernelKnownMove DEF KernelKnownTo
  <2>2. CASE BootBlockFails
    <3>1. Moves(Main) /\ pc'[Main] = "boot_mark" /\ held'[Main] = 0
      BY <1>0, <2>2, GotoMoves DEF BootBlockFails, Steps
    <3> QED
      BY <1>0, <3>1, KernelKnownMove DEF KernelKnownTo
  <2>3. CASE BootSelect \/ BootMark
    BY <1>0, <1>2, <2>3 DEF BootSelect, BootMark, Steps, KernelSteps
  <2>4. CASE BootDone
    BY <1>0, <1>1, <2>4 DEF BootDone, Steps
  <2> QED
    BY <1>9, <2>1, <2>2, <2>3, <2>4 DEF BootStep
<1>10. CASE Start
  <2>1. Moves(Main) /\ pc'[Main] = "expire_select"
    BY <1>0, <1>10 DEF Start, Moves, Inv, LocalsInv, Procs
  <2> QED
    BY <1>0, <2>1, KernelKnownRest DEF KernelSteps
<1>11. CASE BootDbError \/ Crash
  BY <1>11 DEF BootDbError, Crash, Die, KernelKnown, KernelKnownTo
<1>12. CASE Tick
  <2>1. \A j \in DOMAIN rows : rows'[j].ip = rows[j].ip
    BY <1>12, TickEffect
  <2>2. /\ pc' = pc /\ todo' = todo /\ held' = held /\ req' = req /\ kernel' = kernel
    BY <1>12 DEF Tick, locals, history
  <2>3. \A p \in Procs : held[p] # 0 => held[p] \in DOMAIN rows
    BY <1>0
  <2>4. \A p \in Procs : todo[p] \subseteq DOMAIN rows
    BY <1>0
  <2> QED
    BY <2>1, <2>2, <2>3, <2>4 DEF KernelKnown, KernelKnownTo, First
<1>13. CASE Observe \/ UNCHANGED vars
  BY <1>13 DEF Observe, locals, vars, KernelKnown, KernelKnownTo, First
<1> QED
  BY <1>3, <1>4, <1>5, <1>6, <1>7, <1>8, <1>9, <1>10, <1>11, <1>12, <1>13
     DEF Next, RequestStep

\* A step that adds no claim and takes no element away.
LEMMA EnforcedMove ==
    ASSUME EnforcedInv, NEW p \in Procs, Moves(p),
           pc[p] \notin {"unblock_update", "unblock_redo"}, pc'[p] \notin BootSteps,
           Claimed' \subseteq Claimed, \A i \in Claimed : rows'[i].ip = rows[i].ip,
           Covered \subseteq Covered', phase' = phase \/ phase' # "serving"
    PROVE  EnforcedInv'
<1>1. \A i \in Claimed : ~Unblocking(i)
  BY DEF Unblocking, Moves
<1>2. \A q \in Procs : pc'[q] \notin BootSteps
  BY DEF Moves, BootSteps
<1> QED
  BY <1>1, <1>2 DEF EnforcedInv

LEMMA EnforcedStep ==
    ASSUME Serial, Inv, OneActiveRow, RowsKnown, KernelKnown, EnforcedInv, [Next]_vars
    PROVE  EnforcedInv'
<1>0. /\ pc \in [Procs -> Steps] /\ req \in [Procs -> Requests \union {NoReq}]
      /\ todo \in [Procs -> SUBSET DOMAIN rows] /\ held \in [Procs -> 0 .. Len(rows)]
      /\ Threads \subseteq Procs /\ Main \in Procs /\ Main \notin Threads
      /\ rows \in Seq(Row) /\ OneWorker /\ LateEffects = FALSE
  BY ProcFacts DEF Inv, TypeOK, ProcessTypeOK, StoreTypeOK, Serial
<1>a. Claimed \subseteq ActiveRows /\ Claimed \cap Overdue = {} /\ ActiveRows \subseteq DOMAIN rows
  BY DEF Claimed, ActiveRows
<1>b. ASSUME rows' = rows
      PROVE  Claimed' = Claimed /\ ActiveRows' = ActiveRows
  BY <1>b DEF Claimed, ActiveRows, Overdue
<1>1. ASSUME NEW p \in Procs, NEW from \in Steps \ {"idle", "unblock_update", "unblock_redo"},
             NEW to, Goto(p, from, to), to \notin BootSteps,
             rows' = rows, Covered \subseteq Covered', phase' = phase
      PROVE  EnforcedInv'
  <2>1. Moves(p) /\ pc[p] = from /\ pc'[p] = to
    BY <1>0, <1>1, GotoMoves
  <2>2. Claimed' = Claimed /\ \A i \in Claimed : rows'[i].ip = rows[i].ip
    BY <1>1, <1>b
  <2> QED
    BY <1>1, <2>1, <2>2, EnforcedMove
<1>2. ASSUME NEW p \in Procs, NEW from \in Steps \ {"idle", "unblock_update", "unblock_redo"},
             Return(p, from), rows' = rows, Covered \subseteq Covered', phase' = phase
      PROVE  EnforcedInv'
  BY <1>1, <1>2 DEF Return, BootSteps
<1>3. ASSUME NEW t \in Threads, Arrive(t) PROVE EnforcedInv'
  <2>1. PICK r \in Requests : pc' = [pc EXCEPT ![t] = FirstStep(r.op)]
    BY <1>3 DEF Arrive
  <2>2. FirstStep(r.op) \in {"unblock_select", "allow_select", "allow_find", "expire_select"}
    BY Zenon DEF FirstStep
  <2>3. Moves(t)
    BY <1>0, <1>3, <2>1 DEF Arrive, Moves, Inv, LocalsInv, Procs, OneWorker
  <2>4. pc'[t] = FirstStep(r.op) /\ pc[t] = "idle"
    BY <1>0, <1>3, <2>1 DEF Arrive
  <2>5. rows' = rows /\ Covered' = Covered /\ phase' = phase
    BY <1>3 DEF Arrive, db, history, Covered
  <2> QED
    BY <1>0, <1>b, <2>2, <2>3, <2>4, <2>5, EnforcedMove DEF BootSteps
<1>4. ASSUME NEW t \in Threads, BlockStep(t) PROVE EnforcedInv'
  <2>1. CASE \/ BlockReject(t) \/ BlockDenied(t) \/ BlockAllowlist(t) \/ BlockExisting(t)
             \/ BlockLost(t) \/ BlockUndoAudit(t)
    BY <1>0, <1>1, <1>2, <2>1 DEF BlockReject, BlockDenied, BlockAllowlist, BlockExisting,
       BlockLost, BlockUndoAudit, db, Steps, BootSteps, history, Covered
  <2>2. CASE BlockKernel(t)
    BY <1>0, <1>1, <1>2, <2>2 DEF BlockKernel, FailedCall, db, Steps, BootSteps,
       Blocked, history, Covered
  <2>3. CASE BlockInsert(t)
    <3>1. Moves(t) /\ pc[t] = "block_insert" /\ pc'[t] = "idle"
          /\ kernel' = kernel /\ unrepaired' = unrepaired /\ phase' = phase
      BY <1>0, <2>3, ReturnMoves DEF BlockInsert, Steps, ShownBlocked
    <3>2. req[t].ip \in kernel
      BY <1>0, <3>1 DEF KernelKnown, KernelKnownTo
    <3>3. rows' = Append(rows, NewRow(req[t]))
      BY <2>3 DEF BlockInsert, ShownBlocked
    <3>4. \A i \in Claimed' : \/ i \in Claimed /\ rows'[i].ip = rows[i].ip
                              \/ rows'[i].ip = req[t].ip
      <4>1. /\ DOMAIN rows = 1 .. Len(rows) /\ DOMAIN rows' = 1 .. (Len(rows) + 1)
            /\ Len(rows) \in Nat /\ rows'[Len(rows) + 1] = NewRow(req[t])
            /\ \A i \in DOMAIN rows : rows'[i] = rows[i]
        BY <1>0, <3>3
      <4> QED
        BY <4>1 DEF Claimed, ActiveRows, Overdue, NewRow
    <3>5. \A i \in Claimed : ~Unblocking(i)
      BY <3>1 DEF Unblocking, Moves
    <3>6. \A q \in Procs : pc'[q] \notin BootSteps
      BY <3>1 DEF Moves, BootSteps
    <3> QED
      BY <3>1, <3>2, <3>4, <3>5, <3>6 DEF EnforcedInv, Covered
  <2>4. CASE BlockUndo(t)
    <3>1. Moves(t) /\ pc[t] = "block_undo" /\ pc'[t] = "block_undo_audit"
      BY <1>0, <2>4, GotoMoves DEF BlockUndo, Steps, Unblocked, Unrepaired, FailedCall
    <3>2. rows' = rows /\ phase' = phase /\ Covered \ {req[t].ip} \subseteq Covered'
      BY <2>4 DEF BlockUndo, db, FailedCall, Unblocked, Unrepaired, history, Covered
    <3>3. ActiveFor(req[t].ip) = {}
      BY <1>0, <3>1 DEF RowsKnown, RowsKnownTo
    <3>4. \A i \in Claimed : rows[i].ip # req[t].ip /\ ~Unblocking(i)
      BY <1>a, <3>1, <3>3 DEF ActiveFor, Unblocking, Moves
    <3>5. \A q \in Procs : pc'[q] \notin BootSteps
      BY <3>1 DEF Moves, BootSteps
    <3> QED
      BY <1>b, <3>2, <3>4, <3>5 DEF EnforcedInv
  <2> QED
    BY <1>4, <2>1, <2>2, <2>3, <2>4 DEF BlockStep
<1>5. ASSUME NEW t \in Threads, UnblockStep(t) PROVE EnforcedInv'
  <2>1. CASE UnblockReject(t) \/ UnblockSelect(t)
    BY <1>0, <1>1, <1>2, <2>1 DEF UnblockReject, UnblockSelect, db, Steps, BootSteps,
       history, Covered
  <2>2. CASE UnblockKernel(t)
    <3>1. CASE Return(t, "unblock_kernel") /\ Covered' = Covered
      BY <1>0, <1>2, <2>2, <3>1 DEF UnblockKernel, db, Steps, Unblocked, history, Covered
    <3>2. CASE /\ Return(t, "unblock_kernel") /\ held[t] = 0
               /\ Covered \ {req[t].ip} \subseteq Covered'
      <4>1. Moves(t) /\ pc[t] = "unblock_kernel" /\ pc'[t] = "idle"
        BY <1>0, <3>2, ReturnMoves DEF Steps
      <4>2. ActiveFor(req[t].ip) = {}
        BY <1>0, <3>2, <4>1 DEF RowsKnown, RowsKnownTo, UnblockSteps
      <4>3. \A i \in Claimed : rows[i].ip # req[t].ip /\ ~Unblocking(i)
        BY <1>a, <4>1, <4>2 DEF ActiveFor, Unblocking, Moves
      <4>4. \A q \in Procs : pc'[q] \notin BootSteps
        BY <4>1 DEF Moves, BootSteps
      <4>5. rows' = rows /\ phase' = phase
        BY <2>2 DEF UnblockKernel, db, Unblocked, history, Covered
      <4> QED
        BY <1>b, <3>2, <4>3, <4>4, <4>5 DEF EnforcedInv
    <3>3. CASE /\ held[t] # 0 /\ Goto(t, "unblock_kernel", "unblock_update")
               /\ Covered \ {req[t].ip} \subseteq Covered' /\ UNCHANGED <<locals, faults>>
      <4>1. Moves(t) /\ pc[t] = "unblock_kernel" /\ pc'[t] = "unblock_update"
        BY <1>0, <3>3, GotoMoves DEF Steps
      <4>2. held[t] \in ActiveFor(req[t].ip) /\ held' = held
        BY <1>0, <3>3, <4>1 DEF RowsKnown, RowsKnownTo, UnblockSteps, locals
      <4>3. \A i \in Claimed : rows[i].ip = req[t].ip => i = held[t]
        BY <1>a, <4>2 DEF OneActiveRow, ActiveFor
      <4>4. Unblocking(held[t])'
        BY <1>0, <4>1, <4>2 DEF Unblocking
      <4>5. \A i \in Claimed : ~Unblocking(i)
        BY <4>1 DEF Unblocking, Moves
      <4>6. \A q \in Procs : pc'[q] \notin BootSteps
        BY <4>1 DEF Moves, BootSteps
      <4>7. rows' = rows /\ phase' = phase
        BY <2>2 DEF UnblockKernel, db, Unblocked, history, Covered
      <4>8. \A i \in Claimed : rows[i].ip = req[t].ip => Unblocking(i)'
        <5>1. held'[t] = held[t] /\ t \in Procs
          BY <1>0, <4>2
        <5> QED
          BY <4>1, <4>3, <5>1 DEF Unblocking
      <4>9. \A i \in Claimed : rows'[i].ip \in Covered' \/ Unblocking(i)' \/ phase' # "serving"
        BY <3>3, <4>5, <4>7, <4>8 DEF EnforcedInv
      <4> QED
        BY <1>b, <4>6, <4>7, <4>9 DEF EnforcedInv
    <3> QED
      BY <1>0, <2>2, <3>1, <3>2, <3>3 DEF UnblockKernel, FailedCall, Unblocked, Covered
  <2>3. CASE UnblockUpdate(t)
    <3>1. Moves(t) /\ pc[t] = "unblock_update" /\ pc'[t] = "idle"
      BY <1>0, <2>3, ReturnMoves DEF UnblockUpdate, Steps
    <3>2. held[t] \in DOMAIN rows
      BY <1>0, <3>1 DEF Inv, LocalsInv
    <3>3. Claimed' = Claimed \ {held[t]} /\ \A j \in DOMAIN rows : rows'[j].ip = rows[j].ip
      BY <1>0, <2>3, <3>2, ReleasedEffect DEF UnblockUpdate
    <3>4. \A i \in Claimed' : ~Unblocking(i)
      BY <3>1, <3>3 DEF Unblocking, Moves
    <3>5. \A q \in Procs : pc'[q] \notin BootSteps
      BY <3>1 DEF Moves, BootSteps
    <3>6. Covered' = Covered /\ phase' = phase
      BY <2>3 DEF UnblockUpdate, Covered, history
    <3> QED
      BY <1>a, <3>3, <3>4, <3>5, <3>6 DEF EnforcedInv
  <2>4. CASE UnblockRedo(t)
    <3>1. Moves(t) /\ pc[t] = "unblock_redo" /\ pc'[t] = "idle"
      BY <1>0, <2>4, ReturnMoves DEF UnblockRedo, Steps, Blocked, Unrepaired, FailedCall
    <3>4. /\ Covered \union {req[t].ip} \subseteq Covered'
          /\ rows' = rows /\ phase' = phase
      BY <1>0, <2>4 DEF UnblockRedo, db, Blocked, Unrepaired, FailedCall, history, Covered
    <3>5. held[t] # 0
      BY <3>1 DEF Inv, LocalsInv
    <3>6. rows[held[t]].ip = req[t].ip
      BY <1>0, <3>1, <3>5 DEF RowsKnown, RowsKnownTo, UnblockSteps, ActiveFor
    <3>7. \A i \in Claimed : Unblocking(i) => i = held[t]
      BY <3>1 DEF Unblocking, Moves
    <3>8. \A q \in Procs : pc'[q] \notin BootSteps
      BY <3>1 DEF Moves, BootSteps
    <3> QED
      BY <1>b, <3>4, <3>6, <3>7, <3>8 DEF EnforcedInv
  <2> QED
    BY <1>5, <2>1, <2>2, <2>3, <2>4 DEF UnblockStep
<1>6. ASSUME NEW t \in Threads, ListRead(t) \/ AllowStep(t) PROVE EnforcedInv'
  BY <1>0, <1>1, <1>2, <1>6 DEF ListRead, AllowStep, AllowSelect, AllowInsert,
     AllowRemove, db, Steps, BootSteps, history, Covered, AllowFind
<1>7. ASSUME NEW t \in Threads, DbErrorStep(t) PROVE EnforcedInv'
  <2>1. CASE RequestDbError(t)
    BY <1>0, <1>2, <2>1 DEF RequestDbError, PlainDbSteps, db, Steps, history, Covered
  <2>2. CASE BlockInsertError(t)
    BY <1>0, <1>1, <2>2 DEF BlockInsertError, db, Steps, BootSteps, history, Covered
  <2>3. CASE UnblockUpdateError(t)
    <3>1. Moves(t) /\ pc[t] = "unblock_update" /\ pc'[t] = "unblock_redo"
      BY <1>0, <2>3, GotoMoves DEF UnblockUpdateError, Steps
    <3>2. rows' = rows /\ Covered' = Covered /\ phase' = phase /\ held' = held
      BY <2>3 DEF UnblockUpdateError, db, locals, history, Covered
    <3>3. \A i \in Claimed : Unblocking(i) => Unblocking(i)'
      <4>1. \A i \in Claimed : Unblocking(i) => held'[t] = i
        BY <3>1, <3>2 DEF Unblocking, Moves
      <4> QED
        BY <1>0, <3>1, <4>1 DEF Unblocking
    <3>4. \A q \in Procs : pc'[q] \notin BootSteps
      BY <3>1 DEF Moves, BootSteps
    <3> QED
      BY <1>b, <3>2, <3>3, <3>4 DEF EnforcedInv, Covered
  <2> QED
    BY <1>7, <2>1, <2>2, <2>3 DEF DbErrorStep
<1>8. ASSUME NEW p \in Procs, ExpireStep(p) PROVE EnforcedInv'
  <2>1. CASE ExpireUnblock(p)
    <3>1. Moves(p) /\ pc[p] = "expire_loop" /\ pc'[p] = "expire_release"
      BY <1>0, <2>1, GotoMoves DEF ExpireUnblock, Steps, Unblocked
    <3>2. PICK i \in todo[p] : Covered \ {rows[i].ip} \subseteq Covered'
      BY <2>1 DEF ExpireUnblock, Unblocked, Covered
    <3>3. rows' = rows /\ phase' = phase
      BY <2>1 DEF ExpireUnblock, db, Unblocked, history, Covered
    <3>4. i \in Overdue /\ i \in ActiveRows
      BY <3>1 DEF RowsKnown, RowsKnownTo, ExpireSteps, Overdue
    <3>5. \A j \in Claimed : rows[j].ip # rows[i].ip /\ ~Unblocking(j)
      BY <1>a, <3>1, <3>4 DEF OneActiveRow, Unblocking, Moves
    <3>6. \A q \in Procs : pc'[q] \notin BootSteps
      BY <3>1 DEF Moves, BootSteps
    <3> QED
      BY <1>b, <3>2, <3>3, <3>5, <3>6 DEF EnforcedInv
  <2>2. CASE ExpireSelect(p) \/ ExpireUnblockFails(p) \/ ExpireDone(p)
    BY <1>0, <1>1, <2>2 DEF ExpireSelect, ExpireUnblockFails, ExpireDone, FailedCall, db,
       Steps, BootSteps, history, Covered
  <2>3. ASSUME ExpireRelease(p) \/ ExpireMark(p) PROVE EnforcedInv'
    <3>1. /\ Moves(p) /\ pc[p] \in ExpireSteps /\ pc'[p] = "expire_loop"
          /\ Covered' = Covered /\ phase' = phase
      BY <1>0, <2>3, GotoMoves DEF ExpireRelease, ExpireMark, Steps, ExpireSteps, Covered,
         history, Covered
    <3>2. PICK i \in todo[p] : rows' = Released(i) \/ rows' = Marked(i, FALSE)
      BY <2>3 DEF ExpireRelease, ExpireMark
    <3>3. i \in DOMAIN rows
      BY <1>0
    <3>4. Claimed' \subseteq Claimed /\ \A j \in DOMAIN rows : rows'[j].ip = rows[j].ip
      <4>1. CASE rows' = Released(i)
        BY <1>0, <3>3, <4>1, ReleasedEffect
      <4>2. CASE rows' = Marked(i, FALSE)
        <5>1. Claimed' \subseteq Claimed \ {i}
          BY <1>0, <3>3, <4>2, MarkedEffect, Zenon
        <5>2. \A j \in DOMAIN rows : rows'[j].ip = rows[j].ip
          BY <1>0, <3>3, <4>2, MarkedEffect, Zenon
        <5> QED
          BY <5>1, <5>2
      <4> QED
        BY <3>2, <4>1, <4>2
    <3> QED
      BY <1>a, <3>1, <3>4, EnforcedMove DEF ExpireSteps, BootSteps
  <2> QED
    BY <1>8, <2>1, <2>2, <2>3 DEF ExpireStep
<1>9. CASE BootStep
  <2>0. pc[Main] \in BootSteps \union {"boot_select"} => phase # "serving"
    BY DEF Inv, LocalsInv, BootSteps
  <2>1. CASE BootSelect
    <3>1. Moves(Main) /\ pc[Main] = "boot_select" /\ pc'[Main] = "boot_loop"
      BY <1>0, <2>1, GotoMoves DEF BootSelect, Steps
    <3>2. todo'[Main] = ActiveRows /\ rows' = rows /\ phase' # "serving"
      BY <1>0, <2>0, <2>1, <3>1 DEF BootSelect, Fetch, db, history, Covered
    <3>3. \A q \in Procs : pc'[q] \in BootSteps => q = Main
      BY <3>1 DEF Moves, BootSteps
    <3> QED
      BY <1>a, <1>b, <3>2, <3>3 DEF EnforcedInv
  <2>2. CASE BootBlock \/ BootBlockFails
    <3>1. Moves(Main) /\ pc[Main] \in BootSteps /\ pc'[Main] \in BootSteps
      BY <1>0, <2>2, GotoMoves DEF BootBlock, BootBlockFails, Steps, BootSteps, Blocked
    <3>2. /\ todo' = todo /\ rows' = rows /\ phase' # "serving" /\ kernel \subseteq kernel'
      BY <1>0, <2>0, <2>2, <3>1 DEF BootBlock, BootBlockFails, db, FailedCall, Blocked,
         history, Covered
    <3>3. \A q \in Procs : pc'[q] \in BootSteps => q = Main
      BY <3>1 DEF Moves, BootSteps
    <3> QED
      BY <1>b, <3>1, <3>2, <3>3 DEF EnforcedInv
  <2>3. CASE BootMark
    <3>1. Moves(Main) /\ pc[Main] = "boot_mark" /\ pc'[Main] = "boot_loop"
      BY <1>0, <2>3, GotoMoves DEF BootMark, Steps
    <3>2. PICK i \in todo[Main] :
            /\ rows' = IF rows[i].active THEN Marked(i, held[Main] = i) ELSE rows
            /\ todo' = [todo EXCEPT ![Main] = @ \ {i}]
      BY <2>3 DEF BootMark
    <3>3. i \in DOMAIN rows /\ i # 0 /\ todo'[Main] = todo[Main] \ {i}
      BY <1>0, <3>2
    <3>4. kernel' = kernel /\ phase' # "serving"
      BY <2>0, <2>3, <3>1 DEF BootMark, BootSteps
    <3>5. \A q \in Procs : pc'[q] \in BootSteps => q = Main
      BY <3>1 DEF Moves, BootSteps
    <3>6. \A j \in Claimed \ todo[Main] : rows[j].ip \in kernel
      BY <1>0, <3>1 DEF EnforcedInv, BootSteps
    <3>7. held[Main] = i => rows[i].ip \in kernel
      BY <1>0, <3>1, <3>3 DEF KernelKnown, KernelKnownTo
    <3>8. /\ Claimed' \subseteq Claimed \union {i}
          /\ held[Main] # i => i \notin Claimed'
          /\ \A j \in DOMAIN rows : rows'[j].ip = rows[j].ip
      <4>1. CASE rows[i].active
        <5> DEFINE s == (held[Main] = i)
        <5>1. s \in BOOLEAN /\ rows' = Marked(i, s)
          BY <3>2, <4>1
        <5> HIDE DEF s
        <5>2. /\ Claimed' \subseteq Claimed \union {i}
              /\ ~s => Claimed' \subseteq Claimed \ {i}
              /\ \A j \in DOMAIN rows : rows'[j].ip = rows[j].ip
          BY <1>0, <3>3, <5>1, MarkedEffect, Zenon
        <5> QED
          BY <5>2 DEF s
      <4>2. CASE ~rows[i].active
        BY <1>b, <3>2, <4>2 DEF Claimed, ActiveRows
      <4> QED
        BY <4>1, <4>2
    <3>9. \A j \in Claimed' \ todo'[Main] : rows'[j].ip \in kernel'
      <4> TAKE j \in Claimed' \ todo'[Main]
      <4>1. CASE j = i
        BY <3>3, <3>4, <3>7, <3>8, <4>1
      <4>2. CASE j # i
        BY <1>a, <3>3, <3>4, <3>6, <3>8, <4>2
      <4> QED
        BY <4>1, <4>2
    <3> QED
      BY <3>4, <3>5, <3>9 DEF EnforcedInv
  <2>4. CASE BootDone
    <3>1. Moves(Main) /\ pc[Main] = "boot_loop" /\ pc'[Main] = "idle"
      BY <1>0, <2>4, ReturnMoves DEF BootDone, Steps
    <3>2. todo[Main] = {} /\ rows' = rows /\ kernel' = kernel
      BY <2>4 DEF BootDone, db, history, Covered
    <3>3. \A i \in Claimed : rows[i].ip \in kernel
      BY <1>0, <3>1, <3>2 DEF EnforcedInv, BootSteps
    <3>4. \A q \in Procs : pc'[q] \notin BootSteps
      BY <3>1 DEF Moves, BootSteps
    <3> QED
      BY <1>b, <3>2, <3>3, <3>4 DEF EnforcedInv, Covered
  <2> QED
    BY <1>9, <2>1, <2>2, <2>3, <2>4 DEF BootStep
<1>10. CASE Start
  <2>1. /\ Moves(Main) /\ pc'[Main] = "expire_select" /\ pc[Main] = "idle"
        /\ phase' # "serving" /\ rows' = rows /\ Covered' = Covered
    BY <1>0, <1>10 DEF Start, Moves, Inv, LocalsInv, Procs, db, history, Covered
  <2> QED
    BY <1>0, <1>b, <2>1, EnforcedMove DEF BootSteps
<1>11. CASE BootDbError \/ Crash
  BY <1>11 DEF BootDbError, Crash, Die, EnforcedInv, BootSteps
<1>12. CASE Tick
  <2>1. Claimed' \subseteq Claimed /\ \A j \in DOMAIN rows : rows'[j].ip = rows[j].ip
    BY <1>12, TickEffect
  <2>2. /\ pc' = pc /\ todo' = todo /\ held' = held /\ kernel' = kernel
        /\ Covered' = Covered /\ phase' = phase
    BY <1>12 DEF Tick, locals, history, Covered
  <2> QED
    BY <1>a, <2>1, <2>2 DEF EnforcedInv, Unblocking
<1>13. CASE Observe \/ UNCHANGED vars
  BY <1>13, <1>b DEF Observe, locals, vars, EnforcedInv, Unblocking, Covered, history
<1> QED
  BY <1>3, <1>4, <1>5, <1>6, <1>7, <1>8, <1>9, <1>10, <1>11, <1>12, <1>13
     DEF Next, RequestStep

\* Every address with an active row is shown as blocked, or had no row to show it
\* in: a release takes the only active row of its address with it.
LEMMA ShownStep ==
    ASSUME OneWorker, Inv, OneActiveRow, RowsKnown, ShownInv, [Next]_vars
    PROVE  ShownInv'
<1>0. /\ attacker \in [IPs -> {"none", "observed", "blocked"}] /\ rows \in Seq(Row)
      /\ held \in [Procs -> 0 .. Len(rows)] /\ Threads \subseteq Procs
      /\ \A i \in ActiveRows : rows[i].ip \in IPs
  BY ProcFacts, RowAddress DEF Inv, TypeOK, StoreTypeOK, ProcessTypeOK, ActiveRows
<1>1. ASSUME NEW t \in Threads, Inserted(t) PROVE ShownInv'
  <2>1. /\ pc[t] = "block_insert"
        /\ \A ip \in IPs : \/ ip # req[t].ip /\ attacker'[ip] = attacker[ip]
                          \/ attacker'[ip] = "blocked" \/ ip \in unseen'
        /\ unseen \ {req[t].ip} \subseteq unseen'
    BY <1>0, <1>1 DEF Inserted, BlockInsert, Return, Goto, ShownBlocked
  <2>2. NewRow(req[t]).ip = req[t].ip /\ req[t].ip \in IPs
    BY <2>1 DEF NewRow, Inv, LocalsInv, AddressSteps
  <2> QED
    BY <1>0, <1>1, <2>1, <2>2, OpenedRows DEF ShownInv, ActiveRows
<1>2. ASSUME NEW t \in Threads, UnblockUpdate(t) PROVE ShownInv'
  <2>1. pc[t] = "unblock_update" /\ rows' = Released(held[t])
    BY <1>2 DEF UnblockUpdate, Return, Goto
  <2>2. held[t] # 0 /\ req[t].ip \in IPs
    BY <2>1 DEF Inv, LocalsInv, AddressSteps
  <2>3. held[t] \in ActiveFor(req[t].ip)
    BY <1>0, <2>1, <2>2 DEF RowsKnown, RowsKnownTo, UnblockSteps
  <2>4. held[t] \in DOMAIN rows /\ held[t] \in ActiveRows /\ rows[held[t]].ip = req[t].ip
    BY <2>3 DEF ActiveFor, ActiveRows
  <2>5. /\ ActiveRows' = ActiveRows \ {held[t]}
        /\ \A j \in DOMAIN rows : rows'[j].ip = rows[j].ip
    BY <1>0, <2>1, <2>4, ReleasedEffect
  <2>6. \A i \in ActiveRows' : rows[i].ip # req[t].ip
    BY <2>4, <2>5 DEF OneActiveRow
  <2>7. /\ \A ip \in IPs \ {req[t].ip} : attacker'[ip] = attacker[ip]
        /\ unseen' = unseen
    BY <1>0, <1>2 DEF UnblockUpdate, history
  <2> QED
    BY <1>0, <2>5, <2>6, <2>7 DEF ShownInv, ActiveRows
<1>3. ASSUME NoneOpened, attacker' = attacker, unseen' = unseen PROVE ShownInv'
  BY <1>3 DEF NoneOpened, ShownInv
<1>4. ASSUME NEW t \in Threads, RequestStep(t) \/ Arrive(t) \/ DbErrorStep(t),
             ~UnblockUpdate(t), ~BlockInsert(t)
      PROVE  attacker' = attacker /\ unseen' = unseen
  BY <1>4 DEF Arrive, RequestStep, ListRead, BlockStep, BlockReject,
     BlockDenied, BlockAllowlist, BlockExisting, BlockKernel, BlockLost, BlockUndo,
     BlockUndoAudit, UnblockStep, UnblockReject, UnblockSelect, UnblockKernel,
     UnblockRedo, AllowStep, AllowSelect, AllowInsert, AllowRemove,
     DbErrorStep, RequestDbError, BlockInsertError, UnblockUpdateError, db,
         Blocked, Unblocked, Unrepaired, FailedCall, history, AllowFind
<1>5. ASSUME NEW p \in Procs, ExpireStep(p) PROVE attacker' = attacker /\ unseen' = unseen
  BY <1>5 DEF ExpireStep, ExpireSelect, ExpireUnblock, ExpireUnblockFails,
     ExpireRelease, ExpireMark, ExpireDone, db, Unblocked, history
<1>6. ASSUME BootStep \/ BootDbError \/ Start \/ Crash \/ Tick \/ UNCHANGED vars
      PROVE  attacker' = attacker /\ unseen' = unseen
  BY <1>6 DEF BootStep, BootSelect, BootBlock, BootBlockFails, BootMark, BootDone,
     BootDbError, Start, Crash, Tick, vars, db, Blocked, history, Observe
<1>7. ASSUME NEW t \in Threads, BlockInsert(t) PROVE Inserted(t)
  <2>1. pc[t] = "block_insert"
    BY <1>7 DEF BlockInsert, Return, Goto, ShownBlocked
  <2>2. req[t].ip \in IPs
    BY <2>1 DEF Inv, LocalsInv, AddressSteps
  <2> QED
    BY <1>7, <2>2 DEF Inserted, Opened, BlockInsert, NewRow, Row, ShownBlocked
<1>8. CASE Observe
  <2>1. rows' = rows /\ unseen' = unseen
    BY <1>8 DEF Observe, history
  <2>2. \A ip \in IPs : attacker[ip] = "blocked" => attacker'[ip] = "blocked"
    BY <1>0, <1>8 DEF Observe
  <2> QED
    BY <1>0, <2>1, <2>2 DEF ShownInv, ActiveRows
<1> QED
  BY <1>1, <1>2, <1>3, <1>4, <1>5, <1>6, <1>7, <1>8, OpenedOrNot DEF Next

\* A step that gives no element a new place and takes no element's row away.
LEMMA NoOrphanMove ==
    ASSUME NoOrphanInv, NEW p \in Procs, Moves(p),
           pc[p] \notin {"block_insert", "block_undo"}, Trusted' \subseteq Trusted,
           \A ip \in Trusted' : ActiveFor(ip) # {} => ActiveFor(ip)' # {},
           crashes' = crashes
    PROVE  NoOrphanInv'
<1>1. \A ip \in Trusted : ~Blocking(ip)
  BY DEF Blocking, Moves
<1>2. \A ip \in Trusted' : Misreads = FALSE /\ crashes' = 0 => ActiveFor(ip)' # {}
  BY <1>1 DEF NoOrphanInv
<1> QED
  BY <1>2 DEF NoOrphanInv

LEMMA NoOrphanStep ==
    ASSUME Serial, Inv, OneActiveRow, RowsKnown, KernelKnown, NoOrphanInv, [Next]_vars
    PROVE  NoOrphanInv'
<1> SUFFICES ASSUME Misreads = FALSE PROVE NoOrphanInv'
  BY DEF NoOrphanInv
<1>0. /\ pc \in [Procs -> Steps] /\ req \in [Procs -> Requests \union {NoReq}]
      /\ todo \in [Procs -> SUBSET DOMAIN rows] /\ held \in [Procs -> 0 .. Len(rows)]
      /\ Threads \subseteq Procs /\ Main \in Procs /\ Main \notin Threads
      /\ rows \in Seq(Row) /\ OneWorker /\ LateEffects = FALSE /\ crashes \in Nat
  BY ProcFacts DEF Inv, TypeOK, ProcessTypeOK, StoreTypeOK, Serial
<1>a. ASSUME ActiveRows' = ActiveRows, \A j \in ActiveRows : rows'[j].ip = rows[j].ip
      PROVE  \A ip \in IPs : ActiveFor(ip)' = ActiveFor(ip)
  BY <1>a DEF ActiveFor
<1>b. ASSUME rows' = rows
      PROVE  \A ip \in IPs : ActiveFor(ip)' = ActiveFor(ip)
  BY <1>b DEF ActiveFor, ActiveRows
<1>c. /\ Trusted \subseteq IPs /\ kernel \subseteq IPs
      /\ ActiveRows \subseteq DOMAIN rows
  BY DEF Trusted, Inv, TypeOK, StoreTypeOK, ActiveRows
<1>1. ASSUME NEW p \in Procs, NEW from \in Steps \ {"idle", "block_insert", "block_undo"},
             NEW to, Goto(p, from, to), rows' = rows, Trusted' \subseteq Trusted,
             crashes' = crashes
      PROVE  NoOrphanInv'
  <2>1. Moves(p) /\ pc[p] = from /\ pc'[p] = to
    BY <1>0, <1>1, GotoMoves
  <2> QED
    BY <1>1, <1>b, <1>c, <2>1, NoOrphanMove
<1>2. ASSUME NEW p \in Procs, NEW from \in Steps \ {"idle", "block_insert", "block_undo"},
             Return(p, from), rows' = rows, Trusted' \subseteq Trusted, crashes' = crashes
      PROVE  NoOrphanInv'
  BY <1>1, <1>2 DEF Return
<1>3. ASSUME NEW t \in Threads, Arrive(t) PROVE NoOrphanInv'
  <2>1. Moves(t) /\ pc[t] = "idle"
    BY <1>0, <1>3 DEF Arrive, Moves, Inv, LocalsInv, Procs, OneWorker
  <2>2. rows' = rows /\ Trusted' = Trusted /\ crashes' = crashes
    BY <1>3 DEF Arrive, db, history, Trusted
  <2> QED
    BY <1>0, <1>b, <1>c, <2>1, <2>2, NoOrphanMove
<1>4. ASSUME NEW t \in Threads, BlockStep(t) PROVE NoOrphanInv'
  <2>1. CASE \/ BlockReject(t) \/ BlockDenied(t) \/ BlockAllowlist(t) \/ BlockExisting(t)
             \/ BlockUndoAudit(t)
    BY <1>0, <1>1, <1>2, <2>1 DEF BlockReject, BlockDenied, BlockAllowlist, BlockExisting,
       BlockUndoAudit, db, Steps, history, Trusted
  <2>2. CASE BlockKernel(t)
    <3>1. CASE Return(t, "block_kernel") /\ Trusted' = Trusted
      BY <1>0, <1>2, <2>2, <3>1 DEF BlockKernel, db, Steps, Blocked, history, Trusted
    <3>2. CASE /\ Goto(t, "block_kernel", "block_insert")
               /\ Blocked(req[t].ip)
               /\ UNCHANGED <<locals, faults>>
      <4>1. Moves(t) /\ pc[t] = "block_kernel" /\ pc'[t] = "block_insert"
        BY <1>0, <3>2, GotoMoves DEF Steps
      <4>2. rows' = rows /\ crashes' = crashes /\ req' = req
        BY <2>2, <3>2 DEF BlockKernel, db, locals, Blocked, history, Trusted
      <4>3. Blocking(req[t].ip)'
        BY <1>0, <4>1, <4>2 DEF Blocking
      <4>4. \A ip \in Trusted : ~Blocking(ip)
        BY <4>1 DEF Blocking, Moves
      <4>5. \A ip \in Trusted' : ip = req[t].ip \/ ip \in Trusted
        BY <3>2 DEF Blocked, Trusted
      <4>6. \A ip \in Trusted' : ip = req[t].ip => Blocking(ip)'
        BY <1>0, <4>1, <4>2 DEF Blocking
      <4> QED
        BY <1>b, <1>c, <4>2, <4>4, <4>5, <4>6 DEF NoOrphanInv
    <3> QED
      BY <1>0, <2>2, <3>1, <3>2 DEF BlockKernel, FailedCall, Trusted
  <2>3. CASE BlockInsert(t)
    <3>1. /\ Moves(t) /\ pc[t] = "block_insert" /\ Trusted' = Trusted /\ crashes' = crashes
          /\ rows' = Append(rows, NewRow(req[t]))
      BY <1>0, <2>3, ReturnMoves DEF BlockInsert, Steps, Trusted, ShownBlocked
    <3>2. /\ DOMAIN rows = 1 .. Len(rows) /\ DOMAIN rows' = 1 .. (Len(rows) + 1)
          /\ Len(rows) \in Nat /\ rows'[Len(rows) + 1] = NewRow(req[t])
          /\ \A i \in DOMAIN rows : rows'[i] = rows[i]
      BY <1>0, <3>1
    <3>3. \A ip \in Trusted : ActiveFor(ip) # {} => ActiveFor(ip)' # {}
      BY <3>2 DEF ActiveFor, ActiveRows
    <3>4. \A ip \in Trusted : ip = req[t].ip => ActiveFor(ip)' # {}
      <4>1. NewRow(req[t]).active /\ NewRow(req[t]).ip = req[t].ip
        BY DEF NewRow
      <4>2. rows'[Len(rows) + 1].active /\ rows'[Len(rows) + 1].ip = req[t].ip
        BY <3>2, <4>1
      <4>3. Len(rows) + 1 \in DOMAIN rows'
        BY <3>2
      <4>4. Len(rows) + 1 \in ActiveRows'
        BY <4>2, <4>3 DEF ActiveRows
      <4> QED
        BY <4>2, <4>4 DEF ActiveFor
    <3>5. \A ip \in Trusted : Blocking(ip) => ip = req[t].ip
      BY <3>1 DEF Blocking, Moves
    <3> QED
      BY <3>1, <3>3, <3>4, <3>5 DEF NoOrphanInv
  <2>4. CASE BlockLost(t)
    <3>1. pc[t] = "block_insert" /\ ActiveFor(req[t].ip) # {}
      BY <2>4 DEF BlockLost, Return, Goto
    <3> QED
      BY <1>0, <3>1 DEF RowsKnown, RowsKnownTo
  <2>5. CASE BlockUndo(t)
    <3>1. Moves(t) /\ pc[t] = "block_undo"
      BY <1>0, <2>5, GotoMoves DEF BlockUndo, Steps, Unblocked, Unrepaired, FailedCall
    <3>4. Trusted' \subseteq Trusted \ {req[t].ip} /\ rows' = rows /\ crashes' = crashes
      BY <1>0, <2>5 DEF BlockUndo, db, Unblocked, Unrepaired, FailedCall, history, Trusted
    <3>5. \A ip \in Trusted : Blocking(ip) => ip = req[t].ip
      BY <3>1 DEF Blocking, Moves
    <3> QED
      BY <1>b, <1>c, <3>4, <3>5 DEF NoOrphanInv
  <2> QED
    BY <1>4, <2>1, <2>2, <2>3, <2>4, <2>5 DEF BlockStep
<1>5. ASSUME NEW t \in Threads, UnblockStep(t) PROVE NoOrphanInv'
  <2>1. CASE UnblockReject(t) \/ UnblockSelect(t)
    BY <1>0, <1>1, <1>2, <2>1 DEF UnblockReject, UnblockSelect, db, Steps, history, Trusted
  <2>2. CASE UnblockKernel(t)
    BY <1>0, <1>1, <1>2, <2>2 DEF UnblockKernel, FailedCall, Unblocked, db, Steps,
       history, Trusted
  <2>3. CASE UnblockUpdate(t)
    <3>1. /\ Moves(t) /\ pc[t] = "unblock_update" /\ rows' = Released(held[t])
          /\ Trusted' = Trusted /\ crashes' = crashes
      BY <1>0, <2>3, ReturnMoves DEF UnblockUpdate, Steps, Trusted, history
    <3>2. held[t] # 0 /\ req[t].ip \notin Trusted
      BY <1>0, <3>1 DEF Inv, LocalsInv, KernelKnown, KernelKnownTo, Trusted
    <3>3. held[t] \in ActiveRows /\ rows[held[t]].ip = req[t].ip
      BY <1>0, <3>1, <3>2 DEF RowsKnown, RowsKnownTo, UnblockSteps, ActiveFor
    <3>4. /\ ActiveRows' = ActiveRows \ {held[t]}
          /\ \A j \in DOMAIN rows : rows'[j].ip = rows[j].ip
      BY <1>0, <1>c, <3>1, <3>3, ReleasedEffect
    <3>5. \A ip \in Trusted : ActiveFor(ip)' = ActiveFor(ip)
      BY <1>c, <3>2, <3>3, <3>4 DEF ActiveFor
    <3> QED
      BY <1>0, <3>1, <3>5, NoOrphanMove
  <2>4. CASE UnblockRedo(t)
    <3>1. Moves(t) /\ pc[t] = "unblock_redo"
      BY <1>0, <2>4, ReturnMoves DEF UnblockRedo, Steps, Blocked, Unrepaired, FailedCall
    <3>2. Trusted' \subseteq Trusted \union {req[t].ip} /\ rows' = rows /\ crashes' = crashes
      BY <1>0, <2>4 DEF UnblockRedo, db, FailedCall, Blocked, Unrepaired, history, Trusted
    <3>3. held[t] # 0
      BY <3>1 DEF Inv, LocalsInv
    <3>4. ActiveFor(req[t].ip) # {} /\ req[t].ip \in IPs
      BY <1>0, <3>1, <3>3 DEF RowsKnown, RowsKnownTo, UnblockSteps, Inv, LocalsInv,
         AddressSteps
    <3>5. \A ip \in Trusted : ~Blocking(ip)
      BY <3>1 DEF Blocking, Moves
    <3> QED
      BY <1>b, <1>c, <3>2, <3>4, <3>5 DEF NoOrphanInv
  <2> QED
    BY <1>5, <2>1, <2>2, <2>3, <2>4 DEF UnblockStep
<1>6. ASSUME NEW t \in Threads, ListRead(t) \/ AllowStep(t) PROVE NoOrphanInv'
  BY <1>0, <1>1, <1>2, <1>6 DEF ListRead, AllowStep, AllowSelect, AllowInsert,
     AllowRemove, db, Steps, history, Trusted, AllowFind
<1>7. ASSUME NEW t \in Threads, DbErrorStep(t) PROVE NoOrphanInv'
  <2>1. CASE RequestDbError(t)
    BY <1>0, <1>2, <2>1 DEF RequestDbError, PlainDbSteps, db, Steps, history, Trusted
  <2>2. CASE BlockInsertError(t)
    <3>1. Moves(t) /\ pc[t] = "block_insert" /\ pc'[t] = "block_undo"
      BY <1>0, <2>2, GotoMoves DEF BlockInsertError, Steps
    <3>2. rows' = rows /\ Trusted' = Trusted /\ crashes' = crashes /\ req' = req
      BY <2>2 DEF BlockInsertError, db, locals, history, Trusted
    <3>3. \A ip \in Trusted : Blocking(ip) => req'[t].ip = ip
      BY <3>1, <3>2 DEF Blocking, Moves
    <3>4. \A ip \in Trusted : Blocking(ip) => Blocking(ip)'
      BY <1>0, <3>1, <3>3 DEF Blocking
    <3> QED
      BY <1>b, <1>c, <3>2, <3>4 DEF NoOrphanInv
  <2>3. CASE UnblockUpdateError(t)
    BY <1>0, <1>1, <2>3 DEF UnblockUpdateError, db, Steps, history, Trusted
  <2> QED
    BY <1>7, <2>1, <2>2, <2>3 DEF DbErrorStep
<1>8. ASSUME NEW p \in Procs, ExpireStep(p) PROVE NoOrphanInv'
  <2>1. CASE ExpireSelect(p) \/ ExpireUnblock(p) \/ ExpireUnblockFails(p) \/ ExpireDone(p)
    BY <1>0, <1>1, <2>1 DEF ExpireSelect, ExpireUnblock, ExpireUnblockFails, ExpireDone,
       FailedCall, Unblocked, db, Steps, history, Trusted
  <2>2. CASE ExpireMark(p)
    <3>1. Moves(p) /\ pc[p] = "expire_mark" /\ Trusted' = Trusted /\ crashes' = crashes
      BY <1>0, <2>2, GotoMoves DEF ExpireMark, Steps, Trusted, history
    <3>2. PICK i \in todo[p] : rows' = Marked(i, FALSE)
      BY <2>2 DEF ExpireMark
    <3>3. i \in DOMAIN rows
      BY <1>0
    <3>4. ActiveRows' = ActiveRows /\ \A j \in DOMAIN rows : rows'[j].ip = rows[j].ip
      BY <1>0, <3>2, <3>3, MarkedEffect, Zenon
    <3>5. \A ip \in IPs : ActiveFor(ip)' = ActiveFor(ip)
      BY <1>a, <1>c, <3>4
    <3> QED
      BY <1>c, <3>1, <3>5, NoOrphanMove
  <2>3. CASE ExpireRelease(p)
    <3>1. Moves(p) /\ pc[p] = "expire_release" /\ Trusted' = Trusted /\ crashes' = crashes
      BY <1>0, <2>3, GotoMoves DEF ExpireRelease, Steps, Trusted, history
    <3>2. PICK i \in todo[p] : First(todo[p], i) /\ rows' = Released(i)
      BY <2>3 DEF ExpireRelease
    <3>3. i \in DOMAIN rows
      BY <1>0
    <3>4. rows[i].ip \notin Trusted
      BY <3>1, <3>2 DEF KernelKnown, KernelKnownTo, Trusted
    <3>5. ActiveRows' = ActiveRows \ {i} /\ \A j \in DOMAIN rows : rows'[j].ip = rows[j].ip
      BY <1>0, <3>2, <3>3, ReleasedEffect
    <3>6. \A ip \in Trusted : ActiveFor(ip)' = ActiveFor(ip)
      BY <1>c, <3>4, <3>5 DEF ActiveFor
    <3> QED
      BY <3>1, <3>6, NoOrphanMove
  <2> QED
    BY <1>8, <2>1, <2>2, <2>3 DEF ExpireStep
<1>9. CASE BootStep
  <2>1. CASE BootSelect \/ BootBlockFails \/ BootDone
    BY <1>0, <1>1, <1>2, <2>1 DEF BootSelect, BootBlockFails, BootDone, FailedCall, db,
       Steps, history, Trusted
  <2>2. CASE BootBlock
    <3>1. Moves(Main) /\ pc[Main] = "boot_loop"
      BY <1>0, <2>2, GotoMoves DEF BootBlock, Steps, Blocked
    <3>2. PICK i \in todo[Main] : Trusted' \subseteq Trusted \union {rows[i].ip}
      BY <2>2 DEF BootBlock, Blocked, Trusted
    <3>3. rows' = rows /\ crashes' = crashes
      BY <2>2 DEF BootBlock, db, Blocked, history, Trusted
    <3>4. i \in ActiveRows
      BY <1>0, <3>1 DEF RowsKnown, RowsKnownTo, BootSteps
    <3>5. ActiveFor(rows[i].ip) # {} /\ rows[i].ip \in IPs
      BY <1>0, <1>c, <3>4, RowAddress DEF ActiveFor
    <3>6. \A ip \in Trusted : ~Blocking(ip)
      BY <3>1 DEF Blocking, Moves
    <3> QED
      BY <1>b, <1>c, <3>2, <3>3, <3>5, <3>6 DEF NoOrphanInv
  <2>3. CASE BootMark
    <3>1. Moves(Main) /\ pc[Main] = "boot_mark" /\ Trusted' = Trusted /\ crashes' = crashes
      BY <1>0, <2>3, GotoMoves DEF BootMark, Steps, Trusted, history
    <3>2. PICK i \in todo[Main] :
            rows' = IF rows[i].active THEN Marked(i, held[Main] = i) ELSE rows
      BY <2>3 DEF BootMark
    <3>3. i \in DOMAIN rows /\ (held[Main] = i) \in BOOLEAN
      BY <1>0
    <3>4. ActiveRows' = ActiveRows /\ \A j \in DOMAIN rows : rows'[j].ip = rows[j].ip
      <4>1. CASE rows' = Marked(i, held[Main] = i)
        BY <1>0, <3>3, <4>1, MarkedEffect
      <4> QED
        BY <3>2, <4>1 DEF ActiveRows
    <3>5. \A ip \in IPs : ActiveFor(ip)' = ActiveFor(ip)
      BY <1>a, <1>c, <3>4
    <3> QED
      BY <1>0, <1>c, <3>1, <3>5, NoOrphanMove
  <2> QED
    BY <1>9, <2>1, <2>2, <2>3 DEF BootStep
<1>10. CASE Start
  <2>1. /\ Moves(Main) /\ pc[Main] = "idle" /\ rows' = rows /\ Trusted' = Trusted
        /\ crashes' = crashes
    BY <1>0, <1>10 DEF Start, Moves, Inv, LocalsInv, Procs, db, history, Trusted
  <2> QED
    BY <1>0, <1>b, <1>c, <2>1, NoOrphanMove
<1>11. CASE BootDbError
  <2>1. /\ pc[Main] # "idle" /\ rows' = rows /\ Trusted' = Trusted /\ crashes' = crashes
        /\ pc[Main] \notin {"block_insert", "block_undo"}
        /\ pc' = [t \in Procs |-> "idle"]
    BY <1>11 DEF BootDbError, Die, db, history, Trusted
  <2>2. Moves(Main)
    BY <1>0, <2>1, Alone DEF Moves
  <2> QED
    BY <1>0, <1>b, <1>c, <2>1, <2>2, NoOrphanMove
<1>12. CASE Crash
  BY <1>0, <1>12 DEF Crash, NoOrphanInv
<1>13. CASE Tick
  <2>1. ActiveRows' = ActiveRows /\ \A j \in DOMAIN rows : rows'[j].ip = rows[j].ip
    BY <1>13, TickEffect
  <2>2. \A ip \in IPs : ActiveFor(ip)' = ActiveFor(ip)
    BY <1>a, <1>c, <2>1
  <2>3. pc' = pc /\ req' = req /\ Trusted' = Trusted /\ crashes' = crashes
    BY <1>13 DEF Tick, locals, history, Trusted
  <2> QED
    BY <1>c, <2>2, <2>3 DEF NoOrphanInv, Blocking
<1>14. CASE Observe \/ UNCHANGED vars
  BY <1>14, <1>b, <1>c DEF Observe, locals, vars, NoOrphanInv, Blocking, Trusted, history
<1> QED
  BY <1>3, <1>4, <1>5, <1>6, <1>7, <1>8, <1>9, <1>10, <1>11, <1>12, <1>13, <1>14
     DEF Next, RequestStep

\* The inductive invariant of the serial theorems.
SerialInv == /\ OneActiveRow /\ RowsKnown /\ KernelKnown
             /\ EnforcedInv /\ ShownInv /\ NoOrphanInv

LEMMA SerialInvariant == ASSUME Serial PROVE Spec => []SerialInv
<1> DEFINE Rest == RowsKnown /\ KernelKnown /\ EnforcedInv /\ ShownInv /\ NoOrphanInv
<1>1. Init => Rest
  BY ProcFacts DEF Init, RowsKnown, RowsKnownTo, ExpireSteps, BootSteps, UnblockSteps,
     KernelKnown, KernelKnownTo, EnforcedInv, ShownInv, NoOrphanInv, ActiveRows, Trusted
<1>2. Inv /\ OneActiveRow /\ Rest /\ [Next]_vars => Rest'
  BY RowsKnownStep, KernelKnownStep, EnforcedStep, ShownStep, NoOrphanStep DEF Serial
<1>3. OneActiveRow /\ Rest => SerialInv
  BY DEF SerialInv
<1> QED
  BY <1>1, <1>2, <1>3, Invariant, OneActive, PTL DEF Spec

\* When requests do not overlap and a failed firewall call had no effect, the
\* kernel enforces every active row that claims so and is not overdue whenever no
\* request is being served, but for an address whose compensation failed
\* (app.py:892), and every blocked address the collector had seen is shown as
\* blocked, across any number of failures, crashes, restarts and failed
\* reconciliations (app.py:437-465).
THEOREM SyncedEnforced == ASSUME Serial PROVE Spec => []SyncedRowsEnforced
<1>1. SerialInv => SyncedRowsEnforced
  BY ProcFacts DEF SerialInv, EnforcedInv, ShownInv, SyncedRowsEnforced, Quiet, Claimed,
     Unblocking, Covered
<1> QED
  BY <1>1, SerialInvariant, PTL

\* Under the same hypotheses, and if no look at the nft sets misses an element,
\* the kernel drops no address without an active row whenever no request is being
\* served, until the process first dies, but for one whose compensation failed:
\* every other failed INSERT is made up for (app.py:834-857).
THEOREM NoOrphans == ASSUME Serial, Misreads = FALSE PROVE Spec => []NoOrphanElement
<1>1. SerialInv => NoOrphanElement
  BY ProcFacts DEF SerialInv, NoOrphanInv, NoOrphanElement, Quiet, Blocking, Trusted
<1> QED
  BY <1>1, SerialInvariant, PTL
=============================================================================
