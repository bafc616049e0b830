--------------------------- MODULE ApiRecordsProofs ---------------------------
(***************************************************************************)
(* Proofs about ApiRecords: an administrator remains unless a demoted one  *)
(* has had the last word, the audited dispositions form a chain and wishes *)
(* about the alert stand unless two handlers overlapped, and the audit     *)
(* trail tells the state.  The first invariant adds to the property what a *)
(* handler about to write a role has checked: its target is not its user.  *)
(***************************************************************************)
EXTENDS ApiRecords, TLAPS

Types ==
    /\ role \in [Users -> Roles]
    /\ sessions \in [Sids -> Session \union {NoSession}]
    /\ pc \in [Threads -> {"idle", "select", "write"}]
    /\ DOMAIN req = Threads
    /\ req = [t \in Threads |-> req[t]]

\* A handler serves an account and a session, and none that writes a role its
\* own.
Checked(t) ==
    /\ pc[t] # "idle" => req[t].user \in Users /\ req[t].sid \in Sids
    /\ pc[t] # "idle" /\ req[t].body.op = "role" => req[t].body.to \in Roles
    /\ At(t, "role", "write") => req[t].body.target # req[t].user

Inv == Types /\ AdminRemains /\ \A t \in Threads : Checked(t)

\* A thread that answers has nothing to check, and the others have not moved.
LEMMA AnsweredChecked ==
    ASSUME Inv, NEW t \in Threads, Answered(t), NEW u \in Threads
    PROVE  /\ Checked(u)' /\ pc' \in [Threads -> {"idle", "select", "write"}]
           /\ DOMAIN req' = Threads /\ req' = [v \in Threads |-> req'[v]]
<1>1. pc' = [pc EXCEPT ![t] = "idle"] /\ req' = [req EXCEPT ![t] = NoRequest]
  BY DEF Answered
<1>2. Checked(u)'
  <2>1. CASE u = t
    BY <1>1, <2>1 DEF Inv, Types, Checked, At
  <2>2. CASE u # t
    BY <1>1, <2>2 DEF Inv, Types, Checked, At
  <2> QED
    BY <2>1, <2>2
<1> QED
  BY <1>1, <1>2 DEF Inv, Types

LEMMA ReadChecked ==
    ASSUME Inv, NEW t \in Threads, NEW row, Read(t, row), pc[t] = "select",
           req[t].body.op = "role" => req[t].body.target # req[t].user,
           NEW u \in Threads
    PROVE  /\ Checked(u)' /\ pc' \in [Threads -> {"idle", "select", "write"}]
           /\ DOMAIN req' = Threads /\ req' = [v \in Threads |-> req'[v]]
<1>1. /\ pc' = [pc EXCEPT ![t] = "write"]
      /\ req' = [req EXCEPT ![t] = [body |-> req[t].body, user |-> req[t].user,
                                    sid |-> req[t].sid, read |-> row]]
  BY DEF Read
<1>2. Checked(u)'
  <2>1. CASE u = t
    <3>1. req'[t].body = req[t].body /\ req'[t].user = req[t].user /\ req'[t].sid = req[t].sid
      BY <1>1 DEF Inv, Types
    <3> QED
      BY <1>1, <2>1, <3>1 DEF Inv, Types, Checked, At
  <2>2. CASE u # t
    BY <1>1, <2>2 DEF Inv, Types, Checked, At
  <2> QED
    BY <2>1, <2>2
<1> QED
  BY <1>1, <1>2 DEF Inv, Types

LEMMA SessionTypes ==
    ASSUME Inv
    PROVE  /\ \A s \in Sids : sessions[s].open => sessions[s].user \in Users
           /\ \A s \in Sids : Closed(s) \in [Sids -> Session \union {NoSession}]
<1>1. \A s \in Sids : sessions[s] \in Session \union {NoSession}
  BY DEF Inv, Types
<1>2. \A s \in Sids : sessions[s].open => sessions[s].user \in Users
  BY <1>1 DEF Session, NoSession
<1>3. ASSUME NEW s \in Sids
      PROVE  Closed(s) \in [Sids -> Session \union {NoSession}]
  <2>1. [user |-> sessions[s].user, open |-> FALSE] \in Session \union {NoSession}
    <3>1. CASE sessions[s] = NoSession
      BY <3>1 DEF NoSession
    <3>2. CASE sessions[s] \in Session
      <4>1. sessions[s].user \in Users /\ FALSE \in BOOLEAN
        BY <3>2 DEF Session
      <4> QED
        BY <4>1 DEF Session
    <3> QED
      BY <1>1, <3>1, <3>2
  <2> QED
    BY <2>1 DEF Inv, Types, Closed
<1> QED
  BY <1>2, <1>3

\* A step that leaves roles and stale tables alone.
Keeps == role' = role /\ stale' = stale

LEMMA KeepsRemains ==
    ASSUME Inv, stale \subseteq stale', role' = role
    PROVE  AdminRemains'
  BY DEF Inv, AdminRemains

\* The account that changes a role still is an administrator, or the table is
\* marked as written from a stale row.
LEMMA RoleStep ==
    ASSUME Inv, NEW t \in Threads, UpdateRole(t)
    PROVE  AdminRemains' /\ role' \in [Users -> Roles]
<1>1. At(t, "role", "write") /\ Checked(t) /\ role \in [Users -> Roles]
  BY DEF UpdateRole, Inv, Types
<1>2. PICK user, target, to :
        /\ user = req[t].user /\ target = req[t].body.target /\ to = req[t].body.to
  OBVIOUS
<1>3. user \in Users /\ target # user
  BY <1>1, <1>2 DEF Checked, At
<1>4. /\ role' = [role EXCEPT ![target] = to]
      /\ stale' = IF role[user] = "admin" THEN stale ELSE stale \union {"role"}
  BY <1>2 DEF UpdateRole, Mark
<1>5. to \in Roles
  BY <1>1, <1>2 DEF Checked, At
<1> QED
  BY <1>1, <1>3, <1>4, <1>5 DEF Inv, AdminRemains

LEMMA ThreadStep ==
    ASSUME Inv, NEW t \in Threads, Step(t)
    PROVE  Inv'
<1>0. Types /\ AdminRemains /\ Checked(t)
  BY DEF Inv
<1>1. CASE Login(t)
  <2>1. sessions' \in [Sids -> Session \union {NoSession}]
    BY <1>0, <1>1 DEF Types, Login, Session, NoSession
  <2>2. role' = role /\ stale' = stale /\ pc' = pc /\ req' = req
    BY <1>1 DEF Login
  <2> QED
    BY <2>1, <2>2, KeepsRemains DEF Inv, Types, Checked, At
<1>2. CASE Authenticate(t)
  <2>1. PICK s \in Sids, body \in Bodies :
          /\ sessions[s].open
          /\ req' = [req EXCEPT ![t] = [body |-> body, user |-> sessions[s].user,
                                        sid |-> s, read |-> Unset]]
          /\ pc' = [pc EXCEPT ![t] =
                      IF body.op \in {"logout", "rule"} THEN "write" ELSE "select"]
    BY <1>2 DEF Authenticate
  <2>2. /\ req'[t].user \in Users /\ req'[t].sid \in Sids
        /\ req'[t].body.op = "role" => req'[t].body.to \in Roles
        /\ At(t, "role", "write")' => FALSE
    <3>1. req'[t].user = sessions[s].user /\ req'[t].body = body /\ req'[t].sid = s
      BY <1>0, <2>1 DEF Types
    <3>2. pc'[t] = "write" => body.op \in {"logout", "rule"}
      BY <1>0, <2>1 DEF Types
    <3>3. body.op = "role" => body.to \in Roles
      BY <2>1 DEF Bodies
    <3> QED
      BY <2>1, <3>1, <3>2, <3>3, SessionTypes DEF At
  <2>3. \A u \in Threads : Checked(u)'
    BY <2>1, <2>2 DEF Inv, Types, Checked, At
  <2>4. role' = role /\ stale' = stale /\ sessions' = sessions
    BY <1>2 DEF Authenticate, records
  <2>5. Types'
    BY <1>0, <2>1, <2>4 DEF Types
  <2> QED
    BY <2>3, <2>4, <2>5, KeepsRemains DEF Inv
<1>3. ASSUME Read(t, Unset) \/ Read(t, alert) \/ Read(t, disposition), pc[t] = "select",
             req[t].body.op = "role" => req[t].body.target # req[t].user,
             UNCHANGED <<records, requests, wish, stale>>
      PROVE  Inv'
  <2>1. role' = role /\ stale' = stale /\ sessions' = sessions
    BY <1>3 DEF records
  <2>2. /\ \A u \in Threads : Checked(u)'
        /\ pc' \in [Threads -> {"idle", "select", "write"}]
        /\ DOMAIN req' = Threads /\ req' = [v \in Threads |-> req'[v]]
    BY <1>3, ReadChecked
  <2> QED
    BY <1>0, <2>1, <2>2, KeepsRemains DEF Inv, Types
<1>4. ASSUME Answered(t), AdminRemains', role' \in [Users -> Roles],
             sessions' \in [Sids -> Session \union {NoSession}]
      PROVE  Inv'
  BY <1>4, AnsweredChecked DEF Inv, Types
<1>5. CASE ReadTarget(t) \/ ReadAlert(t) \/ ReadDisposition(t) \/ ReadRule(t)
  <2>1. CASE Answered(t)
    BY <1>0, <1>4, <1>5, <2>1, KeepsRemains
       DEF ReadTarget, ReadAlert, ReadDisposition, ReadRule, records, Types
  <2>2. CASE ~Answered(t)
    BY <1>3, <1>5, <2>2 DEF ReadTarget, ReadAlert, ReadDisposition, ReadRule, At, MayChange
  <2> QED
    BY <2>1, <2>2
<1>6. CASE Fails(t)
  BY <1>0, <1>4, <1>6, KeepsRemains DEF Fails, records, Types
<1>7. CASE Logout(t)
  <2>1. req[t].sid \in Sids
    BY <1>0, <1>7 DEF Logout, At, Checked
  <2> QED
    BY <1>0, <1>4, <1>7, <2>1, KeepsRemains, SessionTypes DEF Logout, Types
<1>8. CASE UpdateRole(t)
  BY <1>0, <1>4, <1>8, RoleStep DEF UpdateRole, Types
<1>9. CASE UpdateAlert(t) \/ UpdateDisposition(t) \/ CreateRule(t) \/ TestRule(t)
  <2>1. role' = role /\ stale \subseteq stale' /\ sessions' = sessions /\ Answered(t)
    BY <1>9 DEF UpdateAlert, UpdateDisposition, CreateRule, TestRule, Mark
  <2> QED
    BY <1>0, <1>4, <2>1, KeepsRemains DEF Types
<1> QED
  BY <1>1, <1>2, <1>5, <1>6, <1>7, <1>8, <1>9 DEF Step

LEMMA Invariant == Spec => []Inv
<1>1. Init => Inv
  BY DEF Init, Inv, Types, AdminRemains, Checked, At, NoSession, NoRequest
<1>2. Inv /\ [Next]_vars => Inv'
  <2> SUFFICES ASSUME Inv, [Next]_vars PROVE Inv'
    OBVIOUS
  <2>1. CASE UNCHANGED vars
    BY <2>1 DEF vars, records, Inv, Types, AdminRemains, Checked, At
  <2>2. CASE Expire
    <3>1. sessions' \in [Sids -> Session \union {NoSession}]
      BY <2>2, SessionTypes DEF Expire
    <3> QED
      BY <2>2, <3>1, KeepsRemains DEF Expire, Inv, Types, Checked, At
  <2> QED
    BY <2>1, <2>2, ThreadStep DEF Next
<1> QED
  BY <1>1, <1>2, PTL DEF Spec

\* However many accounts, threads and requests there are, the last administrator
\* is demoted only by a request whose author was demoted after it authenticated
\* (app.py:1084-1092).
THEOREM AdminStays == Spec => []AdminRemains
  BY Invariant, PTL DEF Inv

----------------------------------------------------------------------------
(* The chain of dispositions.  The invariant adds that the row is what the *)
(* last entry of the audit trail says, whether requests overlap or not.    *)

Chain == audit["disposition"]
Entry == [old: Statuses \union {Unset}, status: Statuses]

Chosen(t) ==
    pc[t] # "idle" /\ req[t].body.op = "disposition"
      => /\ req[t].body.status \in Statuses
         /\ pc[t] = "write" => req[t].read \in Statuses \union {Unset}

ChainInv ==
    /\ Inv
    /\ \A t \in Threads : Chosen(t)
    /\ DOMAIN audit = Actions /\ audit = [op \in Actions |-> audit[op]]
    /\ Chain \in Seq(Entry)
    /\ disposition = IF Chain = <<>> THEN Unset ELSE Chain[Len(Chain)].status
    /\ DispositionChain

\* A step that writes no disposition.
LEMMA OtherSteps ==
    ASSUME ChainInv, Inv', \A t \in Threads : Chosen(t)',
           disposition' = disposition, stale \subseteq stale',
           audit' = audit \/ \E op \in Actions \ {"disposition"} : \E entry : Log(op, entry)
    PROVE  ChainInv'
<1>1. /\ Chain' = Chain /\ DOMAIN audit' = Actions
      /\ audit' = [op \in Actions |-> audit'[op]]
  <2>1. CASE audit' = audit
    BY <2>1 DEF ChainInv, Chain
  <2>2. CASE \E op \in Actions \ {"disposition"} : \E entry : Log(op, entry)
    <3>1. PICK op \in Actions \ {"disposition"} : \E entry : Log(op, entry)
      BY <2>2
    <3>2. PICK entry : audit' = [audit EXCEPT ![op] = Append(audit[op], entry)]
      BY <3>1 DEF Log
    <3> QED
      BY <3>2 DEF ChainInv, Chain, Actions
  <2> QED
    BY <2>1, <2>2
<1> QED
  BY <1>1 DEF ChainInv, DispositionChain, Chain

\* A handler that answers or reads keeps what it has chosen, and so do others.
LEMMA AnsweredChosen ==
    ASSUME ChainInv, NEW t \in Threads, Answered(t)
    PROVE  \A u \in Threads : Chosen(u)'
<1>1. \A u \in Threads : pc'[u] = (IF u = t THEN "idle" ELSE pc[u])
  BY DEF Answered, ChainInv, Inv, Types
<1>2. \A u \in Threads \ {t} : req'[u] = req[u]
  BY DEF Answered, ChainInv, Inv, Types
<1> QED
  BY <1>1, <1>2 DEF ChainInv, Chosen

LEMMA ReadChosen ==
    ASSUME ChainInv, NEW t \in Threads, NEW row, Read(t, row), pc[t] = "select",
           req[t].body.op = "disposition" => row \in Statuses \union {Unset}
    PROVE  \A u \in Threads : Chosen(u)'
<1>1. \A u \in Threads : pc'[u] = (IF u = t THEN "write" ELSE pc[u])
  BY DEF Read, ChainInv, Inv, Types
<1>2. \A u \in Threads \ {t} : req'[u] = req[u]
  BY DEF Read, ChainInv, Inv, Types
<1>3. req'[t].body = req[t].body /\ req'[t].read = row
  BY DEF Read, ChainInv, Inv, Types
<1> QED
  BY <1>1, <1>2, <1>3 DEF ChainInv, Chosen

LEMMA DispositionStep ==
    ASSUME ChainInv, Inv', NEW t \in Threads, UpdateDisposition(t)
    PROVE  ChainInv'
<1>1. PICK entry, status, old :
        /\ status = req[t].body.status /\ old = req[t].read
        /\ entry = [old |-> old, status |-> status]
  OBVIOUS
<1>2. /\ audit' = [audit EXCEPT !["disposition"] = Append(audit["disposition"], entry)]
      /\ disposition' = status
      /\ stale' = IF old = disposition THEN stale ELSE stale \union {"disposition"}
  BY <1>1 DEF UpdateDisposition, Log, Mark, OldDisposition
<1>3. status \in Statuses /\ old \in Statuses \union {Unset}
  BY <1>1 DEF UpdateDisposition, At, ChainInv, Chosen
<1>4. entry \in Entry /\ entry.old = old /\ entry.status = status
  BY <1>1, <1>3 DEF Entry
<1>5. Chain' = Append(Chain, entry) /\ Chain \in Seq(Entry)
  BY <1>2 DEF ChainInv, Chain, Actions
<1>6. /\ Chain' \in Seq(Entry) /\ Chain' # <<>> /\ Len(Chain') = Len(Chain) + 1
      /\ Chain'[Len(Chain) + 1] = entry
      /\ \A i \in 1..Len(Chain) : Chain'[i] = Chain[i]
  BY <1>4, <1>5
<1>7. DispositionChain'
  <2> SUFFICES ASSUME "disposition" \notin stale', NEW i \in 1..Len(Chain')
               PROVE  Chain'[i].old = IF i = 1 THEN Unset ELSE Chain'[i - 1].status
    BY DEF DispositionChain, Chain
  <2>1. old = disposition /\ "disposition" \notin stale
    BY <1>2
  <2>2. CASE i = Len(Chain) + 1
    <3>1. CASE Chain = <<>>
      BY <1>4, <1>6, <2>1, <2>2, <3>1 DEF ChainInv
    <3>2. CASE Chain # <<>>
      <4>1. Len(Chain) \in 1..Len(Chain) /\ i - 1 = Len(Chain) /\ i # 1
        BY <1>5, <2>2, <3>2
      <4> QED
        BY <1>4, <1>6, <2>1, <2>2, <3>2, <4>1 DEF ChainInv
    <3> QED
      BY <3>1, <3>2
  <2>3. CASE i # Len(Chain) + 1
    <3>1. i \in 1..Len(Chain) /\ (i # 1 => i - 1 \in 1..Len(Chain))
      BY <1>5, <1>6, <2>3
    <3> QED
      BY <1>6, <2>1, <3>1 DEF ChainInv, DispositionChain, Chain
  <2> QED
    BY <2>2, <2>3
<1>8. \A u \in Threads : Chosen(u)'
  BY AnsweredChosen DEF UpdateDisposition
<1>9. DOMAIN audit' = Actions /\ audit' = [op \in Actions |-> audit'[op]]
  BY <1>2 DEF ChainInv
<1> QED
  BY <1>2, <1>4, <1>6, <1>7, <1>8, <1>9 DEF ChainInv

LEMMA ChainStep ==
    ASSUME ChainInv, Inv', NEW t \in Threads, Step(t)
    PROVE  ChainInv'
<1>1. CASE Login(t)
  <2>1. pc' = pc /\ req' = req /\ disposition' = disposition /\ stale' = stale
    BY <1>1 DEF Login
  <2>2. \E entry : Log("login", entry)
    BY <1>1 DEF Login
  <2> QED
    BY <2>1, <2>2, OtherSteps DEF ChainInv, Chosen, Actions
<1>2. CASE Authenticate(t)
  <2>1. PICK s \in Sids, body \in Bodies :
          /\ req' = [req EXCEPT ![t] = [body |-> body, user |-> sessions[s].user,
                                        sid |-> s, read |-> Unset]]
          /\ pc' = [pc EXCEPT ![t] =
                      IF body.op \in {"logout", "rule"} THEN "write" ELSE "select"]
    BY <1>2 DEF Authenticate
  <2>2. /\ req'[t].body = body
        /\ pc'[t] = "write" => body.op # "disposition"
        /\ \A u \in Threads \ {t} : pc'[u] = pc[u] /\ req'[u] = req[u]
    BY <2>1 DEF ChainInv, Inv, Types
  <2>3. body.op = "disposition" => body.status \in Statuses
    BY DEF Bodies
  <2>4. \A u \in Threads : Chosen(u)'
    BY <2>2, <2>3 DEF ChainInv, Chosen
  <2> QED
    BY <1>2, <2>4, OtherSteps DEF Authenticate, records
<1>3. CASE ReadTarget(t) \/ ReadAlert(t) \/ ReadDisposition(t) \/ ReadRule(t)
  <2>1. disposition \in Statuses \union {Unset}
    <3>1. CASE Chain # <<>>
      <4>1. Len(Chain) \in 1..Len(Chain) /\ Chain \in Seq(Entry)
        BY <3>1 DEF ChainInv
      <4>2. Chain[Len(Chain)] \in Entry
        BY <4>1
      <4> QED
        BY <3>1, <4>2 DEF ChainInv, Entry
    <3>2. CASE Chain = <<>>
      BY <3>2 DEF ChainInv
    <3> QED
      BY <3>1, <3>2
  <2>2. \A u \in Threads : Chosen(u)'
    <3>1. CASE Answered(t)
      BY <3>1, AnsweredChosen
    <3>2. CASE ~Answered(t)
      BY <1>3, <2>1, <3>2, ReadChosen
         DEF ReadTarget, ReadAlert, ReadDisposition, ReadRule, At
    <3> QED
      BY <3>1, <3>2
  <2> QED
    BY <1>3, <2>2, OtherSteps DEF ReadTarget, ReadAlert, ReadDisposition, ReadRule, records
<1>4. CASE Fails(t) \/ Logout(t)
  <2>1. Answered(t) /\ disposition' = disposition /\ audit' = audit /\ stale' = stale
    BY <1>4 DEF Fails, Logout, records
  <2> QED
    BY <2>1, AnsweredChosen, OtherSteps
<1>5. CASE UpdateRole(t) \/ UpdateAlert(t) \/ CreateRule(t) \/ TestRule(t)
  <2>1. Answered(t) /\ disposition' = disposition /\ stale \subseteq stale'
    BY <1>5 DEF UpdateRole, UpdateAlert, CreateRule, TestRule, Mark
  <2>2. audit' = audit \/ \E op \in Actions \ {"disposition"} : \E entry : Log(op, entry)
    BY <1>5 DEF UpdateRole, UpdateAlert, CreateRule, TestRule, Actions
  <2> QED
    BY <2>1, <2>2, AnsweredChosen, OtherSteps
<1>6. CASE UpdateDisposition(t)
  BY <1>6, DispositionStep
<1> QED
  BY <1>1, <1>2, <1>3, <1>4, <1>5, <1>6 DEF Step

LEMMA ChainInvariant == Spec => []ChainInv
<1>1. Init /\ Inv => ChainInv
  BY DEF Init, ChainInv, Chosen, Chain, DispositionChain, Actions
<1>2. ChainInv /\ Inv' /\ [Next]_vars => ChainInv'
  <2> SUFFICES ASSUME ChainInv, Inv', [Next]_vars PROVE ChainInv'
    OBVIOUS
  <2>1. CASE UNCHANGED vars \/ Expire
    <3>1. pc' = pc /\ req' = req /\ disposition' = disposition /\ stale' = stale
          /\ audit' = audit
      BY <2>1 DEF vars, records, Expire
    <3> QED
      BY <3>1, OtherSteps DEF ChainInv, Chosen
  <2> QED
    BY <2>1, ChainStep DEF Next
<1> QED
  BY <1>1, <1>2, Invariant, PTL DEF Spec

\* For any number of threads and requests, the audit trail of dispositions is a
\* chain as long as no two handlers overlap on the row (app.py:670-678).
THEOREM ChainHolds == Spec => []DispositionChain
<1>1. ChainInv => DispositionChain
  BY DEF ChainInv
<1> QED
  BY <1>1, ChainInvariant, PTL

----------------------------------------------------------------------------
(* What the last PATCH of each field of the alert asked for.               *)

WishInv ==
    /\ WishesKept
    /\ alert = [status |-> alert.status, assignee |-> alert.assignee]

\* From the row it has read, a request writes what its user wishes, if that row is
\* the one the wishes are about.
LEMMA RowAsWished ==
    ASSUME NEW body, WishInv, alert = wish
    PROVE  NewAlert(body, alert) = Wish(body)
<1> PICK w : w = wish
  OBVIOUS
<1>1. w = [status |-> w.status, assignee |-> w.assignee] /\ alert = w
  BY DEF WishInv
<1>2. NewAlert(body, w) =
        [status   |-> IF body.status # Unset THEN body.status ELSE w.status,
         assignee |-> IF body.assignee # Unset THEN body.assignee ELSE w.assignee]
  BY DEF NewAlert
<1>3. Wish(body) = [f \in {"status", "assignee"} |-> IF body[f] # Unset THEN body[f] ELSE w[f]]
  BY DEF Wish
<1>4. w["status"] = w.status /\ w["assignee"] = w.assignee
      /\ body["status"] = body.status /\ body["assignee"] = body.assignee
  OBVIOUS
<1> QED
  BY <1>1, <1>2, <1>3, <1>4

LEMMA WishStep ==
    ASSUME WishInv, [Next]_vars
    PROVE  WishInv'
<1>1. CASE alert' = alert /\ wish' = wish /\ stale \subseteq stale'
  BY <1>1 DEF WishInv, WishesKept
<1>2. ASSUME NEW t \in Threads, UpdateAlert(t)
      PROVE  WishInv'
  <2> PICK body, read : body = req[t].body /\ read = req[t].read
    OBVIOUS
  <2>1. /\ alert' = NewAlert(body, read) /\ wish' = Wish(body)
        /\ stale' = IF read = alert THEN stale ELSE stale \union {"alert"}
    BY <1>2 DEF UpdateAlert, Mark
  <2>2. alert' = [status |-> alert'.status, assignee |-> alert'.assignee]
    BY <2>1 DEF NewAlert
  <2>3. "alert" \notin stale' => read = alert /\ alert = wish
    BY <2>1 DEF WishInv, WishesKept
  <2>4. "alert" \notin stale' => alert' = wish'
    BY <2>1, <2>3, RowAsWished
  <2> QED
    BY <2>2, <2>4 DEF WishInv, WishesKept
<1>3. CASE UNCHANGED vars \/ Expire
  BY <1>1, <1>3 DEF vars, records, Expire
<1>4. ASSUME NEW t \in Threads, Step(t), ~UpdateAlert(t)
      PROVE  alert' = alert /\ wish' = wish /\ stale \subseteq stale'
  BY <1>4 DEF Step, Login, Authenticate, Fails, Logout, ReadTarget, ReadAlert, ReadDisposition,
              ReadRule, UpdateRole, UpdateDisposition, CreateRule, TestRule, Mark, records
<1> QED
  BY <1>1, <1>2, <1>3, <1>4 DEF Next

\* For any number of threads and requests, a wish about a field of the alert stands
\* until another PATCH names that field, unless two handlers overlapped on the row
\* (app.py:935-942).
THEOREM WishesStand == Spec => []WishesKept
<1>1. Init => WishInv
  BY DEF Init, WishInv, WishesKept
<1>2. WishInv /\ [Next]_vars => WishInv'
  BY WishStep
<1>3. WishInv => WishesKept
  BY DEF WishInv
<1> QED
  BY <1>1, <1>2, <1>3, PTL DEF Spec

----------------------------------------------------------------------------
(* What the audit trail tells of each table, whatever overlaps.            *)

IsSequence(s) == \E S : s \in Seq(S)

AuditInv ==
    /\ \A op \in Actions : IsSequence(audit[op])
    /\ audit["alert"] # <<>> => Last(audit["alert"]) = alert
    /\ IsInjective(audit["rule"]) /\ Range(audit["rule"]) = rules
    /\ audit["test"] = deliveries

LEMMA OneMoreEntry ==
    ASSUME NEW s, NEW e, IsSequence(s)
    PROVE  /\ IsSequence(Append(s, e))
           /\ Last(Append(s, e)) = e
           /\ Range(Append(s, e)) = Range(s) \union {e}
           /\ IsInjective(s) /\ e \notin Range(s) => IsInjective(Append(s, e))
<1>1. PICK S : s \in Seq(S)
  BY DEF IsSequence
<1>2. PICK T : T = S \union {e}
  OBVIOUS
<1>3. s \in Seq(T)
  BY <1>1, <1>2
<1>4. /\ Append(s, e) \in Seq(T) /\ Len(Append(s, e)) = Len(s) + 1 /\ Len(s) \in Nat
      /\ Append(s, e)[Len(s) + 1] = e
      /\ \A i \in 1..Len(s) : Append(s, e)[i] = s[i]
      /\ DOMAIN s = 1..Len(s) /\ DOMAIN Append(s, e) = 1..(Len(s) + 1)
  BY <1>2, <1>3
<1> PICK r : r = Append(s, e)
  OBVIOUS
<1>5. \A i \in 1..(Len(s) + 1) : i = Len(s) + 1 \/ i \in 1..Len(s)
  BY <1>4
<1>6. Range(r) = Range(s) \union {e}
  <2>1. Range(r) \subseteq Range(s) \union {e}
    BY <1>4, <1>5 DEF Range
  <2>2. Range(s) \subseteq Range(r)
    BY <1>4 DEF Range
  <2>3. e \in Range(r)
    BY <1>4 DEF Range
  <2> QED
    BY <2>1, <2>2, <2>3
<1>7. ASSUME IsInjective(s), e \notin Range(s), NEW i \in 1..(Len(s) + 1),
             NEW j \in 1..(Len(s) + 1), r[i] = r[j]
      PROVE  i = j
  <2>1. \A n \in 1..Len(s) : s[n] # e
    BY <1>4, <1>7 DEF Range
  <2> QED
    BY <1>4, <1>5, <1>7, <2>1 DEF IsInjective
<1> QED
  BY <1>4, <1>6, <1>7 DEF IsSequence, Last, IsInjective

\* A step that appends an entry about one kind of action.
LEMMA Logged ==
    ASSUME ChainInv, AuditInv, NEW op \in Actions, NEW entry, Log(op, entry)
    PROVE  /\ audit'[op] = Append(audit[op], entry)
           /\ \A other \in Actions \ {op} : audit'[other] = audit[other]
           /\ \A other \in Actions : IsSequence(audit'[other])
<1>1. audit' = [audit EXCEPT ![op] = Append(audit[op], entry)] /\ DOMAIN audit = Actions
  BY DEF Log, ChainInv
<1>2. /\ audit'[op] = Append(audit[op], entry)
      /\ \A other \in Actions \ {op} : audit'[other] = audit[other]
  BY <1>1
<1>3. IsSequence(Append(audit[op], entry))
  BY OneMoreEntry DEF AuditInv
<1> QED
  BY <1>2, <1>3 DEF AuditInv

LEMMA AuditStep ==
    ASSUME ChainInv, AuditInv, [Next]_vars
    PROVE  AuditInv'
<1>0. {"login", "role", "alert", "disposition", "rule", "test"} = Actions
  BY DEF Actions
<1>1. CASE UNCHANGED <<audit, alert, rules, deliveries>>
  BY <1>1 DEF AuditInv
<1>2. ASSUME NEW op \in {"login", "role", "disposition"}, NEW entry, Log(op, entry),
             UNCHANGED <<alert, rules, deliveries>>
      PROVE  AuditInv'
  <2>1. /\ \A other \in Actions \ {op} : audit'[other] = audit[other]
        /\ \A other \in Actions : IsSequence(audit'[other])
    BY <1>0, <1>2, Logged
  <2>2. audit'["alert"] = audit["alert"] /\ audit'["rule"] = audit["rule"]
        /\ audit'["test"] = audit["test"]
    BY <1>0, <2>1
  <2> QED
    BY <1>2, <2>1, <2>2 DEF AuditInv
<1>3. ASSUME NEW t \in Threads, UpdateAlert(t)
      PROVE  AuditInv'
  <2> PICK row : row = NewAlert(req[t].body, req[t].read)
    OBVIOUS
  <2>1. Log("alert", row) /\ alert' = row /\ rules' = rules /\ deliveries' = deliveries
    BY <1>3 DEF UpdateAlert, AlertEntry
  <2>2. /\ audit'["alert"] = Append(audit["alert"], row)
        /\ audit'["rule"] = audit["rule"] /\ audit'["test"] = audit["test"]
        /\ \A other \in Actions : IsSequence(audit'[other])
    BY <1>0, <2>1, Logged
  <2>3. Last(audit'["alert"]) = row
    BY <1>0, <2>2, OneMoreEntry DEF AuditInv
  <2> QED
    BY <2>1, <2>2, <2>3 DEF AuditInv
<1>4. ASSUME NEW t \in Threads, CreateRule(t)
      PROVE  AuditInv'
  <2> PICK name : name = req[t].body.name
    OBVIOUS
  <2>1. CASE name \in rules
    BY <1>1, <1>4, <2>1 DEF CreateRule
  <2>2. CASE name \notin rules
    <3>1. Log("rule", name) /\ rules' = rules \union {name}
          /\ alert' = alert /\ deliveries' = deliveries
      BY <1>4, <2>2 DEF CreateRule
    <3>2. /\ audit'["rule"] = Append(audit["rule"], name)
          /\ audit'["alert"] = audit["alert"] /\ audit'["test"] = audit["test"]
          /\ \A other \in Actions : IsSequence(audit'[other])
      BY <1>0, <3>1, Logged
    <3>3. IsInjective(audit'["rule"]) /\ Range(audit'["rule"]) = rules'
      BY <1>0, <2>2, <3>1, <3>2, OneMoreEntry DEF AuditInv
    <3> QED
      BY <3>1, <3>2, <3>3 DEF AuditInv
  <2> QED
    BY <2>1, <2>2
<1>5. ASSUME NEW t \in Threads, TestRule(t)
      PROVE  AuditInv'
  <2> PICK status : status = DeliveryStatus(req[t].body.channel)
    OBVIOUS
  <2>1. Log("test", status) /\ deliveries' = Append(deliveries, status)
        /\ alert' = alert /\ rules' = rules
    BY <1>5 DEF TestRule
  <2>2. /\ audit'["test"] = Append(audit["test"], status)
        /\ audit'["alert"] = audit["alert"] /\ audit'["rule"] = audit["rule"]
        /\ \A other \in Actions : IsSequence(audit'[other])
    BY <1>0, <2>1, Logged
  <2> QED
    BY <2>1, <2>2 DEF AuditInv
<1>6. ASSUME NEW t \in Threads, Login(t) \/ UpdateRole(t) \/ UpdateDisposition(t)
      PROVE  AuditInv'
  <2>1. /\ \E op \in {"login", "role", "disposition"} : \E entry : Log(op, entry)
        /\ UNCHANGED <<alert, rules, deliveries>>
    BY <1>6 DEF Login, UpdateRole, UpdateDisposition
  <2> QED
    BY <1>2, <2>1
<1>7. CASE UNCHANGED vars \/ Expire
  BY <1>1, <1>7 DEF vars, records, Expire
<1>8. ASSUME NEW t \in Threads,
             \/ Authenticate(t) \/ Fails(t) \/ Logout(t)
             \/ ReadTarget(t) \/ ReadAlert(t) \/ ReadDisposition(t) \/ ReadRule(t)
      PROVE  AuditInv'
  BY <1>1, <1>8 DEF Authenticate, Fails, Logout, ReadTarget, ReadAlert, ReadDisposition,
                    ReadRule, records
<1> QED
  BY <1>3, <1>4, <1>5, <1>6, <1>7, <1>8 DEF Next, Step

\* For any number of threads, users and requests, the audit trail tells the alert,
\* the disposition, the rules and the deliveries, whatever overlaps or fails
\* (app.py:943, 676, 975, 991).
THEOREM TrailTells == Spec => []AuditTells
<1>1. Init => AuditInv
  <2> SUFFICES ASSUME Init PROVE AuditInv
    OBVIOUS
  <2>1. audit = [op \in Actions |-> <<>>] /\ rules = {} /\ deliveries = <<>>
    BY DEF Init
  <2>2. \A op \in Actions : audit[op] = <<>>
    BY <2>1
  <2>3. IsSequence(<<>>) /\ IsInjective(<<>>) /\ Range(<<>>) = {}
    BY DEF IsSequence, IsInjective, Range
  <2> QED
    BY <2>1, <2>2, <2>3 DEF AuditInv, Actions
<1>2. ChainInv /\ AuditInv /\ [Next]_vars => AuditInv'
  BY AuditStep
<1>3. ChainInv /\ AuditInv => AuditTells
  BY DEF ChainInv, AuditInv, AuditTells, Chain, Last
<1> QED
  BY <1>1, <1>2, <1>3, ChainInvariant, PTL DEF Spec
=============================================================================
