--------------------------- MODULE SecMonFirewall ---------------------------
(***************************************************************************)
(* The manual-block API of SecMon (backend/app.py): POST, GET and DELETE   *)
(* /firewall/blocks, the allowlist routes, the expiry pass they share and  *)
(* the reconciliation a starting process runs.                             *)
(*                                                                         *)
(* FastAPI runs these `def` handlers in a thread pool, so requests         *)
(* interleave.  The unit of atomicity is one SQLite transaction (or one    *)
(* autocommitted SELECT: sqlite3 opens a transaction only at the first     *)
(* write) or one call of the firewall service, whose own command sequence  *)
(* is the subject of NftablesService.                                      *)
(***************************************************************************)
EXTENDS Naturals, Sequences, FiniteSets

CONSTANTS
    Threads,            \* worker threads serving requests
    Main,               \* the thread that runs the startup handler
    IPs,                \* addresses parse_ip accepts, in canonical form
    NoIp,               \* stands for an address parse_ip refuses
    Networks,           \* allowlist entries, each the set of IPs it covers
    Ops,                \* the kinds of requests the clients send
    Attackers,          \* addresses with attacks in the SSH log
    MaxRows,            \* bound: blocked_ips rows ever inserted
    MaxCrashes,         \* bound: deaths of the process
    FaultsPerRequest,   \* bound: SQLite or nft errors within one request
    LateEffects,        \* may an nft call that times out have taken effect?
    Misreads            \* may a look at the nft sets miss an element?

\* A block request with duration_minutes is "block_for", without is "block".
BlockOps == {"block", "block_for"}
AllOps == BlockOps \union {"unblock", "list", "allow_add", "allow_remove"}

ASSUME ThreadsAssumption  == Main \notin Threads
ASSUME AddressAssumption  == NoIp \notin IPs
ASSUME NetworksAssumption == Networks \subseteq (SUBSET IPs) \ {{}}
ASSUME OpsAssumption      == Ops \subseteq AllOps
ASSUME AttackersAssumption == Attackers \subseteq IPs
ASSUME BoundsAssumption   == /\ MaxRows \in Nat
                             /\ MaxCrashes \in Nat
                             /\ FaultsPerRequest \in Nat
                             /\ LateEffects \in BOOLEAN
                             /\ Misreads \in BOOLEAN

Procs == Threads \union {Main}

VARIABLES
    \* SQLite
    rows,       \* blocked_ips: the n-th row inserted has id n
    allow,      \* ip_allowlist
    stale,      \* threads whose entry of it, found by its id, is deleted since
    attacker,   \* attackers.status of every address, "none" without a row
    audit,      \* audit_logs, as the set of what was recorded about which row
    \* the kernel
    kernel,     \* elements of the nft sets of table inet secmon
    \* the process
    phase,      \* "down", "starting" (startup handler) or "serving"
    pc,         \* the next database transaction or firewall call
    req,        \* the request a thread serves
    fetched,    \* ids returned by the thread's last SELECT of blocked_ips
    todo,       \* those of them its loop has not handled yet
    held,       \* unblock_ip: id of the row read before the firewall call
    faults,     \* errors met while serving the request
    \* history
    crashes,
    denied,     \* addresses a block request was refused for with 409
    unrepaired, \* addresses whose last firewall call that returned, or raised
                \* in a compensation, is a compensation that raised
    unseen      \* addresses without a row of attackers when last blocked

db      == <<rows, allow, stale, attacker, audit>>
locals  == <<req, fetched, todo, held>>
history == <<crashes, denied, unrepaired, unseen>>
vars    == <<rows, allow, stale, attacker, audit, kernel, phase, pc, req, fetched,
             todo, held, faults, crashes, denied, unrepaired, unseen>>

NoReq == [op |-> "none", ip |-> NoIp, net |-> {}]

Row == [ip: IPs, active: BOOLEAN, synced: BOOLEAN,
        expiry: {"never", "future", "past"}]

Steps == {"idle", "expire_select", "expire_loop", "expire_release",
          "expire_mark", "boot_select", "boot_loop", "boot_mark",
          "list_read", "block_allowlist", "block_existing", "block_kernel",
          "block_insert", "block_undo", "block_undo_audit",
          "unblock_select", "unblock_kernel", "unblock_update",
          "unblock_redo", "allow_select", "allow_insert", "allow_find",
          "allow_remove"}

ActiveRows    == {i \in DOMAIN rows : rows[i].active}
ActiveFor(ip) == {i \in ActiveRows : rows[i].ip = ip}
Overdue       == {i \in ActiveRows : rows[i].expiry = "past"}
Allowlisted(ip) == \E n \in allow : ip \in n

\* Mutant: the UPDATE also sets active=1.
Marked_Reopens(i, synced) ==
    [rows EXCEPT ![i] = [ip |-> rows[i].ip, active |-> TRUE,
                         synced |-> synced, expiry |-> rows[i].expiry]]

\* UPDATE ... SET firewall_synced=? WHERE id=?.
Marked(i, synced) ==
    [rows EXCEPT ![i] = [ip |-> rows[i].ip, active |-> rows[i].active,
                         synced |-> synced, expiry |-> rows[i].expiry]]

\* UPDATE ... SET active=0, firewall_synced=1 WHERE id=? AND active=1.
Released(i) ==
    IF rows[i].active
    THEN [rows EXCEPT ![i] = [ip |-> rows[i].ip, active |-> FALSE,
                              synced |-> TRUE, expiry |-> rows[i].expiry]]
    ELSE rows

\* Rows are handled in the order of their ids.
First(ids, i) == i \in ids /\ \A j \in ids : i <= j

Record(action, result, ip, row) ==
    [action |-> action, result |-> result, ip |-> ip, row |-> row]

Init ==
    /\ rows = <<>>
    /\ allow = {}
    /\ stale = {}
    /\ attacker = [ip \in IPs |-> "none"]
    /\ audit = {}
    /\ kernel = {}
    /\ phase = "down"
    /\ pc = [t \in Procs |-> "idle"]
    /\ req = [t \in Procs |-> NoReq]
    /\ fetched = [t \in Procs |-> {}]
    /\ todo = [t \in Procs |-> {}]
    /\ held = [t \in Procs |-> 0]
    /\ faults = [t \in Procs |-> 0]
    /\ crashes = 0
    /\ denied = {}
    /\ unrepaired = {}
    /\ unseen = {}

----------------------------------------------------------------------------
(* Control flow of one thread.                                             *)

Goto(t, from, to) == pc[t] = from /\ pc' = [pc EXCEPT ![t] = to]

\* The handler returns, or an exception leaves it: its locals are gone.
Return(t, from) ==
    /\ Goto(t, from, "idle")
    /\ req' = [req EXCEPT ![t] = NoReq]
    /\ fetched' = [fetched EXCEPT ![t] = {}]
    /\ todo' = [todo EXCEPT ![t] = {}]
    /\ held' = [held EXCEPT ![t] = 0]
    /\ faults' = [faults EXCEPT ![t] = 0]

\* FirewallError: nft failed or timed out, possibly after taking effect.
MayFail(t) == faults[t] < FaultsPerRequest
CountFault(t) == faults' = [faults EXCEPT ![t] = @ + 1]
FailedCall(effect) == kernel' = kernel \/ (LateEffects /\ kernel' = effect)

\* block adds the element; that it may have been there does not matter.
Blocked(ip) ==
    /\ kernel' = kernel \union {ip}
    /\ unrepaired' = unrepaired \ {ip}

\* unblock looks for the element first and, if nft does not show it, answers
\* without deleting anything.
Unblocked(ip) ==
    /\ kernel' = kernel \ {ip} \/ (Misreads /\ kernel' = kernel)
    /\ unrepaired' = unrepaired \ {ip}

\* A compensation that raises: the failure is dropped.
Unrepaired(ip, effect) ==
    /\ FailedCall(effect)
    /\ unrepaired' = unrepaired \union {ip}

Fetch(t, ids) == /\ fetched' = [fetched EXCEPT ![t] = ids]
                 /\ todo' = [todo EXCEPT ![t] = ids]

FirstStep(op) == CASE op = "unblock"      -> "unblock_select"
                   [] op = "allow_add"    -> "allow_select"
                   [] op = "allow_remove" -> "allow_find"
                   [] OTHER               -> "expire_select"

Requests ==
    {r \in [op: Ops, ip: IPs \union {NoIp}, net: Networks \union {{}}] :
        /\ r.op \notin BlockOps \union {"unblock"} => r.ip = NoIp
        /\ (r.net # {}) <=> (r.op \in {"allow_add", "allow_remove"})}

\* An authorised request reaches its handler.  Block requests are admitted
\* while the bound MaxRows leaves room for the row each may insert.
Arrive(t) ==
    /\ phase = "serving"
    /\ pc[t] = "idle"
    /\ \E r \in Requests :
        /\ r.op \in BlockOps =>
             Len(rows) + Cardinality({u \in Threads : req[u].op \in BlockOps})
               < MaxRows
        /\ req' = [req EXCEPT ![t] = r]
        /\ pc' = [pc EXCEPT ![t] = FirstStep(r.op)]
    /\ UNCHANGED <<db, kernel, phase, fetched, todo, held, faults, history>>

----------------------------------------------------------------------------
(* expire_blocks, run by block, list and the startup handler.              *)

ExpireSelect(t) ==
    /\ Goto(t, "expire_select", "expire_loop")
    /\ Fetch(t, Overdue)
    /\ UNCHANGED <<db, kernel, phase, req, held, faults, history>>

\* One iteration starts with firewall().unblock(row["src_ip"]).
ExpireUnblock(t) ==
    /\ Goto(t, "expire_loop", "expire_release")
    /\ \E i \in todo[t] : /\ First(todo[t], i)
                          /\ Unblocked(rows[i].ip)
    /\ UNCHANGED <<db, phase, locals, faults, crashes, denied, unseen>>

ExpireUnblockFails(t) ==
    /\ Goto(t, "expire_loop", "expire_mark")
    /\ MayFail(t) /\ CountFault(t)
    /\ \E i \in todo[t] : /\ First(todo[t], i)
                          /\ FailedCall(kernel \ {rows[i].ip})
    /\ UNCHANGED <<db, phase, locals, history>>

\* Mutant: expiry leaves no audit record.
ExpireRelease_Unaudited(t) ==
    /\ Goto(t, "expire_release", "expire_loop")
    /\ \E i \in todo[t] : /\ First(todo[t], i)
                          /\ rows' = Released(i)
                          /\ todo' = [todo EXCEPT ![t] = @ \ {i}]
    /\ UNCHANGED <<allow, stale, attacker, audit, kernel, phase, req, fetched, held,
                   faults, history>>

\* Mutant: the loop does not move on to the next row.
ExpireRelease_Stuck(t) ==
    /\ Goto(t, "expire_release", "expire_loop")
    /\ \E i \in todo[t] : First(todo[t], i) /\ rows' = Released(i)
    /\ UNCHANGED <<allow, stale, attacker, audit, kernel, phase, locals, faults,
                   history>>

\* The element is gone: close the row unless somebody else has, and record
\* the expiry whether or not the row was still active.
ExpireRelease(t) ==
    /\ Goto(t, "expire_release", "expire_loop")
    /\ \E i \in todo[t] :
        /\ First(todo[t], i)
        /\ rows' = Released(i)
        /\ audit' = audit \union
                      {Record("firewall_expire", "success", rows[i].ip, i)}
        /\ todo' = [todo EXCEPT ![t] = @ \ {i}]
    /\ UNCHANGED <<allow, stale, attacker, kernel, phase, req, fetched, held, faults,
                   history>>

\* Mutant: a failed removal is passed over in silence.
ExpireMark_Silent(t) ==
    /\ Goto(t, "expire_mark", "expire_loop")
    /\ \E i \in todo[t] : /\ First(todo[t], i)
                          /\ todo' = [todo EXCEPT ![t] = @ \ {i}]
    /\ UNCHANGED <<db, kernel, phase, req, fetched, held, faults, history>>

\* The element could not be removed: the row stays, marked unsynchronised.
ExpireMark(t) ==
    /\ Goto(t, "expire_mark", "expire_loop")
    /\ \E i \in todo[t] :
        /\ First(todo[t], i)
        /\ rows' = Marked(i, FALSE)
        /\ todo' = [todo EXCEPT ![t] = @ \ {i}]
    /\ UNCHANGED <<allow, stale, attacker, audit, kernel, phase, req, fetched, held,
                   faults, history>>

ExpireDone(t) ==
    /\ todo[t] = {}
    /\ Goto(t, "expire_loop", IF t = Main THEN "boot_select"
                              ELSE IF req[t].op \in BlockOps
                                   THEN "block_allowlist" ELSE "list_read")
    /\ UNCHANGED <<db, kernel, phase, locals, faults, history>>

\* GET /firewall/blocks answers with the rows it reads now.
ListRead(t) ==
    /\ Return(t, "list_read")
    /\ UNCHANGED <<db, kernel, phase, history>>

----------------------------------------------------------------------------
(* block_ip, after its expiry pass.                                        *)

\* parse_ip refuses the address; the refusal is audited and committed.
BlockReject(t) ==
    /\ req[t].ip = NoIp
    /\ Return(t, "block_allowlist")
    /\ audit' = audit \union {Record("firewall_block", "failure", NoIp, 0)}
    /\ UNCHANGED <<rows, allow, stale, attacker, kernel, phase, history>>

\* An allowlisted address is refused with 409.  The audit row is inserted in
\* the transaction that the HTTPException then rolls back.
BlockDenied(t) ==
    /\ req[t].ip # NoIp
    /\ Allowlisted(req[t].ip)
    /\ denied' = denied \union {req[t].ip}
    /\ Return(t, "block_allowlist")
    /\ UNCHANGED <<db, kernel, phase, crashes, unrepaired, unseen>>

\* Mutant: the address is not validated.
BlockAllowlist_AnyAddress(t) ==
    /\ ~Allowlisted(req[t].ip)
    /\ Goto(t, "block_allowlist", "block_existing")
    /\ UNCHANGED <<db, kernel, phase, locals, faults, history>>

BlockAllowlist(t) ==
    /\ req[t].ip # NoIp
    /\ ~Allowlisted(req[t].ip)
    /\ Goto(t, "block_allowlist", "block_existing")
    /\ UNCHANGED <<db, kernel, phase, locals, faults, history>>

BlockExisting(t) ==
    /\ \/ ActiveFor(req[t].ip) # {} /\ Return(t, "block_existing")
       \/ /\ ActiveFor(req[t].ip) = {}
          /\ Goto(t, "block_existing", "block_kernel")
          /\ UNCHANGED <<locals, faults>>
    /\ UNCHANGED <<db, kernel, phase, history>>

\* firewall().block(ip); its FirewallError becomes a 503.
BlockKernel(t) ==
    /\ \/ /\ Goto(t, "block_kernel", "block_insert")
          /\ Blocked(req[t].ip)
          /\ UNCHANGED <<locals, faults>>
       \/ /\ MayFail(t)
          /\ FailedCall(kernel \union {req[t].ip})
          /\ Return(t, "block_kernel")
          /\ UNCHANGED unrepaired
    /\ UNCHANGED <<db, phase, crashes, denied, unseen>>

NewRow(r) == [ip |-> r.ip, active |-> TRUE, synced |-> TRUE,
              expiry |-> IF r.op = "block_for" THEN "future" ELSE "never"]

\* UPDATE attackers SET status='blocked' WHERE src_ip=?: an address the collector
\* has not seen yet has no row.
ShownBlocked(ip) ==
    /\ attacker' = [attacker EXCEPT ![ip] = IF @ = "none" THEN @ ELSE "blocked"]
    /\ unseen' = IF attacker[ip] = "none" THEN unseen \union {ip} ELSE unseen \ {ip}

\* Mutant: the table has no unique index on active addresses.
BlockInsert_NoIndex(t) ==
    /\ Return(t, "block_insert")
    /\ rows' = Append(rows, NewRow(req[t]))
    /\ ShownBlocked(req[t].ip)
    /\ audit' = audit \union
         {Record("firewall_block", "success", req[t].ip, Len(rows) + 1)}
    /\ UNCHANGED <<allow, stale, kernel, phase, crashes, denied, unrepaired>>

BlockInsert(t) ==
    /\ ActiveFor(req[t].ip) = {}
    /\ Return(t, "block_insert")
    /\ rows' = Append(rows, NewRow(req[t]))
    /\ ShownBlocked(req[t].ip)
    /\ audit' = audit \union
         {Record("firewall_block", "success", req[t].ip, Len(rows) + 1)}
    /\ UNCHANGED <<allow, stale, kernel, phase, crashes, denied, unrepaired>>

\* The unique index refuses a second active row: the winner's record is
\* returned and the element is left alone.
BlockLost(t) ==
    /\ ActiveFor(req[t].ip) # {}
    /\ Return(t, "block_insert")
    /\ UNCHANGED <<db, kernel, phase, history>>

\* Mutant: a failed INSERT is not compensated.
BlockUndo_Skipped(t) ==
    /\ Goto(t, "block_undo", "block_undo_audit")
    /\ UNCHANGED <<db, kernel, phase, locals, faults, history>>

\* The compensation after a failed transaction.
BlockUndo(t) ==
    /\ Goto(t, "block_undo", "block_undo_audit")
    /\ \/ Unblocked(req[t].ip) /\ UNCHANGED faults
       \/ /\ MayFail(t) /\ CountFault(t)
          /\ Unrepaired(req[t].ip, kernel \ {req[t].ip})
    /\ UNCHANGED <<db, phase, locals, crashes, denied, unseen>>

BlockUndoAudit(t) ==
    /\ Return(t, "block_undo_audit")
    /\ audit' = audit \union {Record("firewall_block", "rollback", req[t].ip, 0)}
    /\ UNCHANGED <<rows, allow, stale, attacker, kernel, phase, history>>

----------------------------------------------------------------------------
(* unblock_ip.                                                             *)

UnblockReject(t) ==
    /\ req[t].ip = NoIp
    /\ Return(t, "unblock_select")
    /\ audit' = audit \union {Record("firewall_unblock", "failure", NoIp, 0)}
    /\ UNCHANGED <<rows, allow, stale, attacker, kernel, phase, history>>

UnblockSelect(t) ==
    /\ req[t].ip # NoIp
    /\ Goto(t, "unblock_select", "unblock_kernel")
    /\ \/ ActiveFor(req[t].ip) = {} /\ UNCHANGED held
       \/ \E i \in ActiveFor(req[t].ip) : held' = [held EXCEPT ![t] = i]
    /\ UNCHANGED <<db, kernel, phase, req, fetched, todo, faults, history>>

\* Delete at the firewall first, even when no row was found.
UnblockKernel(t) ==
    /\ \/ /\ Unblocked(req[t].ip)
          /\ \/ held[t] = 0 /\ Return(t, "unblock_kernel")
             \/ /\ held[t] # 0
                /\ Goto(t, "unblock_kernel", "unblock_update")
                /\ UNCHANGED <<locals, faults>>
       \/ /\ MayFail(t)
          /\ FailedCall(kernel \ {req[t].ip})
          /\ Return(t, "unblock_kernel")
          /\ UNCHANGED unrepaired
    /\ UNCHANGED <<db, phase, crashes, denied, unseen>>

UnblockUpdate(t) ==
    /\ Return(t, "unblock_update")
    /\ rows' = Released(held[t])
    /\ attacker' = [attacker EXCEPT ![req[t].ip] =
                      IF @ = "blocked" THEN "observed" ELSE @]
    /\ audit' = audit \union
         {Record("firewall_unblock", "success", req[t].ip, held[t])}
    /\ UNCHANGED <<allow, stale, kernel, phase, history>>

\* The compensation after a failed transaction; its own failure is dropped.
UnblockRedo(t) ==
    /\ \/ Blocked(req[t].ip)
       \/ MayFail(t) /\ Unrepaired(req[t].ip, kernel \union {req[t].ip})
    /\ Return(t, "unblock_redo")
    /\ UNCHANGED <<db, phase, crashes, denied, unseen>>

----------------------------------------------------------------------------
(* The allowlist routes.                                                   *)

\* Mutant: no look for active blocks.
AllowSelect_Unchecked(t) ==
    /\ Goto(t, "allow_select", "allow_insert")
    /\ UNCHANGED <<db, kernel, phase, locals, faults, history>>

\* The SELECT of active blocks precedes the transaction of the INSERT.
AllowSelect(t) ==
    /\ \/ /\ \E i \in ActiveRows : rows[i].ip \in req[t].net
          /\ Return(t, "allow_select")
       \/ /\ \A i \in ActiveRows : rows[i].ip \notin req[t].net
          /\ Goto(t, "allow_select", "allow_insert")
          /\ UNCHANGED <<locals, faults>>
    /\ UNCHANGED <<db, kernel, phase, history>>

\* A network already listed is refused (UNIQUE).  The UPDATE of attackers
\* compares src_ip, an address, with the canonical network, which always
\* carries a prefix length: it matches no row.
AllowInsert(t) ==
    /\ Return(t, "allow_insert")
    /\ \/ req[t].net \in allow /\ UNCHANGED <<allow, audit>>
       \/ /\ req[t].net \notin allow
          /\ allow' = allow \union {req[t].net}
          /\ audit' = audit \union {Record("allowlist_add", "success", NoIp, 0)}
    /\ UNCHANGED <<rows, stale, attacker, kernel, phase, history>>

\* DELETE /allowlist/{id}: an id that is not listed is answered with 404.
AllowFind(t) ==
    /\ \/ req[t].net \notin allow /\ Return(t, "allow_find")
       \/ /\ req[t].net \in allow
          /\ Goto(t, "allow_find", "allow_remove")
          /\ UNCHANGED <<locals, faults>>
    /\ UNCHANGED <<db, kernel, phase, history>>

\* The DELETE names the id that was found.  If another request has deleted it
\* since, a new entry of the network has a new id and stays.
AllowRemove(t) ==
    /\ Return(t, "allow_remove")
    /\ allow' = IF t \in stale THEN allow ELSE allow \ {req[t].net}
    /\ stale' = {u \in Threads \ {t} : /\ pc[u] = "allow_remove"
                                       /\ u \in stale \/ req[u].net = req[t].net}
    /\ audit' = audit \union {Record("allowlist_remove", "success", NoIp, 0)}
    /\ UNCHANGED <<rows, attacker, kernel, phase, history>>

----------------------------------------------------------------------------
(* The life of the process.                                                *)

\* systemd starts uvicorn, which runs reconcile_firewall before it accepts
\* requests; the handler begins with an expiry pass.
Start ==
    /\ phase = "down"
    /\ phase' = "starting"
    /\ pc' = [pc EXCEPT ![Main] = "expire_select"]
    /\ UNCHANGED <<db, kernel, locals, faults, history>>

BootSelect ==
    /\ Goto(Main, "boot_select", "boot_loop")
    /\ Fetch(Main, ActiveRows)
    /\ UNCHANGED <<db, kernel, phase, req, held, faults, history>>

\* firewall().block(row["src_ip"]) and the transaction that records how it
\* went are two steps; `held` carries the outcome from one to the other.
BootBlock ==
    /\ Goto(Main, "boot_loop", "boot_mark")
    /\ \E i \in todo[Main] : /\ First(todo[Main], i)
                             /\ Blocked(rows[i].ip)
                             /\ held' = [held EXCEPT ![Main] = i]
    /\ UNCHANGED <<db, phase, req, fetched, todo, faults, crashes, denied, unseen>>

BootBlockFails ==
    /\ Goto(Main, "boot_loop", "boot_mark")
    /\ MayFail(Main) /\ CountFault(Main)
    /\ \E i \in todo[Main] : /\ First(todo[Main], i)
                             /\ FailedCall(kernel \union {rows[i].ip})
    /\ held' = [held EXCEPT ![Main] = 0]
    /\ UNCHANGED <<db, phase, req, fetched, todo, history>>

\* Mutant: every row is marked synchronised.
BootMark_AlwaysSynced ==
    /\ Goto(Main, "boot_mark", "boot_loop")
    /\ \E i \in todo[Main] :
        /\ First(todo[Main], i)
        /\ rows' = IF rows[i].active THEN Marked(i, TRUE) ELSE rows
        /\ todo' = [todo EXCEPT ![Main] = @ \ {i}]
    /\ held' = [held EXCEPT ![Main] = 0]
    /\ UNCHANGED <<allow, stale, attacker, audit, kernel, phase, req, fetched, faults,
                   history>>

BootMark ==
    /\ Goto(Main, "boot_mark", "boot_loop")
    /\ \E i \in todo[Main] :
        /\ First(todo[Main], i)
        /\ rows' = IF rows[i].active THEN Marked(i, held[Main] = i) ELSE rows
        /\ audit' = audit \union
             {Record("firewall_reconcile",
                     IF held[Main] = i THEN "success" ELSE "failure",
                     rows[i].ip, i)}
        /\ todo' = [todo EXCEPT ![Main] = @ \ {i}]
    /\ held' = [held EXCEPT ![Main] = 0]
    /\ UNCHANGED <<allow, stale, attacker, kernel, phase, req, fetched, faults,
                   history>>

BootDone ==
    /\ todo[Main] = {}
    /\ Return(Main, "boot_loop")
    /\ phase' = "serving"
    /\ UNCHANGED <<db, kernel, history>>

\* Every thread dies where it stands; the database and the kernel stay, but
\* for the kernel when it is the host that goes down.
Die ==
    /\ phase' = "down"
    /\ pc' = [t \in Procs |-> "idle"]
    /\ req' = [t \in Procs |-> NoReq]
    /\ fetched' = [t \in Procs |-> {}]
    /\ todo' = [t \in Procs |-> {}]
    /\ held' = [t \in Procs |-> 0]
    /\ faults' = [t \in Procs |-> 0]

Crash ==
    /\ phase # "down"
    /\ crashes < MaxCrashes
    /\ crashes' = crashes + 1
    /\ Die
    /\ kernel' \in {kernel, {}}
    /\ UNCHANGED <<db, denied, unrepaired, unseen>>

\* sqlite3.Error in the transaction the thread was about to commit: it is
\* rolled back.  Two handlers compensate; every other error is a 500, and in
\* the startup handler the end of the process.
PlainDbSteps == {"expire_select", "expire_release", "expire_mark",
                 "list_read", "block_allowlist", "block_existing",
                 "block_undo_audit", "unblock_select", "allow_select",
                 "allow_insert", "allow_find", "allow_remove"}

RequestDbError(t) ==
    /\ pc[t] \in PlainDbSteps
    /\ MayFail(t)
    /\ Return(t, pc[t])
    /\ UNCHANGED <<db, kernel, phase, history>>

BlockInsertError(t) ==
    /\ Goto(t, "block_insert", "block_undo")
    /\ MayFail(t) /\ CountFault(t)
    /\ UNCHANGED <<db, kernel, phase, locals, history>>

UnblockUpdateError(t) ==
    /\ Goto(t, "unblock_update", "unblock_redo")
    /\ MayFail(t) /\ CountFault(t)
    /\ UNCHANGED <<db, kernel, phase, locals, history>>

BootDbError ==
    /\ pc[Main] \in {"expire_select", "expire_release", "expire_mark",
                     "boot_select", "boot_mark"}
    /\ MayFail(Main)
    /\ Die
    /\ UNCHANGED <<db, kernel, history>>

\* expires_at of a temporary block passes.
Tick ==
    /\ \E i \in ActiveRows :
        /\ rows[i].expiry = "future"
        /\ rows' = [rows EXCEPT ![i] =
                      [ip |-> rows[i].ip, active |-> rows[i].active,
                       synced |-> rows[i].synced, expiry |-> "past"]]
    /\ UNCHANGED <<allow, stale, attacker, audit, kernel, phase, pc, locals, faults,
                   history>>

\* The collector stores the first attack of an address: INSERT ... 'observed'.  Its
\* later ones leave the status as it is.
Observe ==
    /\ \E ip \in Attackers :
        /\ attacker[ip] = "none"
        /\ attacker' = [attacker EXCEPT ![ip] = "observed"]
    /\ UNCHANGED <<rows, allow, stale, audit, kernel, phase, pc, locals, faults,
                   history>>

----------------------------------------------------------------------------

ExpireStep(t) == \/ ExpireSelect(t) \/ ExpireUnblock(t)
                 \/ ExpireUnblockFails(t) \/ ExpireRelease(t)
                 \/ ExpireMark(t) \/ ExpireDone(t)

BlockStep(t) == \/ BlockReject(t) \/ BlockDenied(t) \/ BlockAllowlist(t)
                \/ BlockExisting(t) \/ BlockKernel(t) \/ BlockInsert(t)
                \/ BlockLost(t) \/ BlockUndo(t) \/ BlockUndoAudit(t)

UnblockStep(t) == \/ UnblockReject(t) \/ UnblockSelect(t) \/ UnblockKernel(t)
                  \/ UnblockUpdate(t) \/ UnblockRedo(t)

AllowStep(t) == \/ AllowSelect(t) \/ AllowInsert(t)
                \/ AllowFind(t) \/ AllowRemove(t)

DbErrorStep(t) == \/ RequestDbError(t) \/ BlockInsertError(t)
                  \/ UnblockUpdateError(t)

\* Only worker threads serve requests; only Main runs the startup handler.
\* Both run expiry passes, and any transaction can fail.
RequestStep(t) == ListRead(t) \/ BlockStep(t) \/ UnblockStep(t) \/ AllowStep(t)

BootStep == BootSelect \/ BootBlock \/ BootBlockFails \/ BootMark \/ BootDone

Next ==
    \/ \E t \in Threads : Arrive(t)
    \/ \E t \in Threads : RequestStep(t)
    \/ \E t \in Procs : ExpireStep(t)
    \/ \E t \in Threads : DbErrorStep(t)
    \/ BootDbError
    \/ BootStep
    \/ Start
    \/ Crash
    \/ Tick
    \/ Observe

Spec == Init /\ [][Next]_vars

\* The thread pool runs every started handler, nft calls and SQLite waits
\* have time limits, and systemd restarts the process.
Fairness == /\ \A t \in Threads : WF_vars(RequestStep(t) \/ ExpireStep(t))
            /\ WF_vars(ExpireStep(Main) \/ BootStep)
            /\ WF_vars(Start)

FairSpec == Spec /\ Fairness

----------------------------------------------------------------------------
(* Properties.                                                             *)

\* Every variable keeps its type; thread locals only name rows that exist.
StoreTypeOK ==
    /\ rows \in Seq(Row)
    /\ allow \subseteq Networks
    /\ stale \subseteq Threads
    /\ attacker \in [IPs -> {"none", "observed", "blocked"}]
    /\ kernel \subseteq IPs
    /\ {denied, unrepaired, unseen} \subseteq SUBSET IPs

ProcessTypeOK ==
    /\ phase \in {"down", "starting", "serving"}
    /\ pc \in [Procs -> Steps]
    /\ req \in [Procs -> Requests \union {NoReq}]
    /\ fetched \in [Procs -> SUBSET DOMAIN rows]
    /\ todo \in [Procs -> SUBSET DOMAIN rows]
    /\ held \in [Procs -> 0 .. Len(rows)]
    /\ faults \in [Procs -> Nat]
    /\ crashes \in Nat

TypeOK == StoreTypeOK /\ ProcessTypeOK

Quiet == phase = "serving" /\ \A t \in Procs : pc[t] = "idle"

\* No address has two active rows (app.py:812, the index as a concurrency
\* guard).
OneActiveRow ==
    \A i, j \in ActiveRows : rows[i].ip = rows[j].ip => i = j

\* The row id a thread carries across its firewall call is a row about the
\* address it was asked about.
HeldRowMatches ==
    \A t \in Threads : held[t] # 0 => rows[held[t]].ip = req[t].ip

\* Whatever the other requests do meanwhile, when expire_blocks has run each
\* row it found overdue is released or visibly unsynchronised
\* (app.py:385-386): a caller never goes on to show, or to rely on, an overdue
\* block as an enforced one.
ExpiryAccounted ==
    \A t \in Procs :
        pc[t] \notin {"boot_loop", "boot_mark"} =>
            \A i \in fetched[t] \ todo[t] :
                ~rows[i].active \/ ~rows[i].synced

\* Whenever no request is being served, an active row that is not overdue and
\* claims to be synchronised is enforced by the kernel, unless a compensation for
\* its address failed and no call about it has succeeded since (app.py:892).
\* Overdue rows are left out: a transaction of expire_blocks that fails leaves its
\* row claiming an element already removed, until the next pass releases it.  And
\* every address with an active row is shown as blocked among the attackers, also
\* when it was unblocked and blocked anew (app.py:827, 883-885), unless the
\* collector had not seen it when it was blocked (ssh_collector.py:159-163).
SyncedRowsEnforced ==
    Quiet => /\ \A i \in ActiveRows \ Overdue :
                  rows[i].synced => rows[i].ip \in kernel \union unrepaired
             /\ \A i \in ActiveRows :
                  attacker[rows[i].ip] = "blocked" \/ rows[i].ip \in unseen

\* As long as the process has not died, the kernel drops no address without an
\* active row whenever no request is being served, whatever failed but the
\* compensation of a failed insert (app.py:834-841): until a call about it
\* succeeds, that address stays.
NoOrphanElement ==
    Quiet /\ crashes = 0 => \A ip \in kernel \ unrepaired : ActiveFor(ip) # {}

\* No allowlisted address has an active block whenever no request is served.
AllowlistRespected ==
    Quiet => \A i \in ActiveRows : ~Allowlisted(rows[i].ip)

\* Every row in the table, and every release of one, has an audit record: no
\* interleaving or failure separates a change of the ledger from its record.
LedgerAudited ==
    \A i \in DOMAIN rows :
        /\ \E a \in audit : a.row = i /\ a.action = "firewall_block"
        /\ ~rows[i].active =>
             \E a \in audit : /\ a.row = i
                              /\ a.action \in {"firewall_unblock",
                                               "firewall_expire"}

\* A block refused because of the allowlist leaves an audit record.
DenialAudited ==
    \A ip \in denied : \E a \in audit :
        a.action = "firewall_block" /\ a.result = "denied_allowlist" /\ a.ip = ip

\* Every handler that was started returns.
RequestsReturn ==
    \A t \in Threads : pc[t] # "idle" ~> pc[t] = "idle"

\* The rows implement the abstract ledger.
Ledger == INSTANCE BlockLedger WITH
            Addresses <- IPs,
            ledger <- [i \in DOMAIN rows |->
                         [address |-> rows[i].ip, open |-> rows[i].active]]

LedgerSpec == Ledger!LedgerSpec
=============================================================================
