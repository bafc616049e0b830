------------------------------ MODULE ApiRecords ------------------------------
(***************************************************************************)
(* The handlers of backend/app.py that change accounts, sessions, alerts,  *)
(* dispositions and alert rules.  A handler authenticates, which reads the *)
(* role of its user; selects the rows it needs; and writes in one          *)
(* transaction, which its first write opens, together with its audit row.  *)
(* Handlers of other threads run between these steps.                      *)
(*                                                                         *)
(* One alert, one event and any number of rules stand for all: no handler  *)
(* relates two alerts or two events.  Refusals by the write limit (429)    *)
(* and of malformed bodies (422) change nothing and are left out; the      *)
(* limit is in RequestLimits.  No handler disables an account.             *)
(***************************************************************************)
EXTENDS Naturals, FiniteSets, Sequences, SequencesExt

CONSTANTS
    Threads,
    Users,          \* enabled accounts
    Sids,           \* session ids uuid4 may draw
    Statuses,       \* statuses of alerts and dispositions
    RuleNames,
    Channels,       \* "simulation" and what it stands for
    Nobody,         \* an alert assigned to no user (null)
    Unset,          \* a field the body of a PATCH does not have
    MaxRequests     \* bound: authenticated requests

ASSUME NobodyAssumption == Nobody \notin Users
ASSUME UnsetAssumption == Unset \notin Users \union {Nobody} \union Statuses

Roles == {"admin", "analyst", "viewer"}
Actions == {"login", "role", "alert", "disposition", "rule", "test"}

VARIABLES
    role,           \* users.role
    sessions,       \* api_sessions by id: [user, open]
    alert,          \* alerts: [status, assignee]
    disposition,    \* event_dispositions.status, Unset without a row
    rules,          \* alert_rules.name
    deliveries,     \* alert_deliveries.status, oldest first
    audit,          \* audit_logs: of each kind of action its entries, oldest
                    \* first, without who and when
    pc, req,        \* the next step of each thread and its locals
    requests,       \* requests authenticated
    wish,           \* history: what the last requests to name a status and an
                    \* assignee asked for
    stale           \* history: tables written from a row that had changed since

records == <<role, sessions, alert, disposition, rules, deliveries, audit>>
vars == <<records, pc, req, requests, wish, stale>>

Session == [user: Users, open: BOOLEAN]
NoSession == [user |-> Nobody, open |-> FALSE]
Assignees == Users \union {Nobody}
Alerts == [status: Statuses, assignee: Assignees]

\* The bodies the models of pydantic let through.
Bodies ==
    [op: {"logout"}]
      \union [op: {"role"}, target: Users, to: Roles]
      \union ([op: {"alert"}, status: Statuses \union {Unset},
               assignee: Assignees \union {Unset}]
              \ {[op |-> "alert", status |-> Unset, assignee |-> Unset]})
      \union [op: {"disposition"}, status: Statuses]
      \union [op: {"rule"}, name: RuleNames]
      \union [op: {"test"}, name: RuleNames, channel: Channels]

NoRequest == [body |-> [op |-> "none"], user |-> Nobody, sid |-> Unset,
              read |-> Unset]

Init ==
    /\ role \in [Users -> Roles]
    /\ \E u \in Users : role[u] = "admin"
    /\ sessions = [s \in Sids |-> NoSession]
    /\ alert \in [status: Statuses, assignee: {Nobody}]
    /\ disposition = Unset
    /\ rules = {}
    /\ deliveries = <<>>
    /\ audit = [op \in Actions |-> <<>>]
    /\ pc = [t \in Threads |-> "idle"]
    /\ req = [t \in Threads |-> NoRequest]
    /\ requests = 0
    /\ wish = alert
    /\ stale = {}

Answered(t) ==
    /\ pc' = [pc EXCEPT ![t] = "idle"]
    /\ req' = [req EXCEPT ![t] = NoRequest]

At(t, op, step) == pc[t] = step /\ req[t].body.op = op

Log(op, entry) == audit' = [audit EXCEPT ![op] = Append(@, entry)]

\* A write from a row that is no longer the one read marks its table.
Mark(table, fresh) == stale' = IF fresh THEN stale ELSE stale \union {table}

----------------------------------------------------------------------------
(* Sessions *)

\* login after its checks: the session and its audit row.
Login(t) ==
    /\ pc[t] = "idle"
    /\ \E u \in Users, s \in Sids :
        /\ sessions[s] = NoSession
        /\ sessions' = [sessions EXCEPT ![s] = [user |-> u, open |-> TRUE]]
        /\ Log("login", u)
    /\ UNCHANGED <<role, alert, disposition, rules, deliveries, pc, req, requests,
                   wish, stale>>

Closed(sid) == [sessions EXCEPT ![sid] = [user |-> sessions[sid].user, open |-> FALSE]]

\* The token's time is over, for the JWT and for the row alike.
Expire ==
    /\ \E s \in Sids : sessions[s].open /\ sessions' = Closed(s)
    /\ UNCHANGED <<role, alert, disposition, rules, deliveries, audit, pc, req,
                   requests, wish, stale>>

\* require_admin, require_analyst, or current_user alone.
Allowed == [logout |-> Roles, role |-> {"admin"}, alert |-> {"admin", "analyst"},
            disposition |-> {"admin", "analyst"}, rule |-> {"admin"},
            test |-> {"admin"}]

\* current_user: an open session, and the role its user has now.
Authenticate(t) ==
    /\ pc[t] = "idle"
    /\ requests < MaxRequests
    /\ \E s \in Sids, body \in Bodies :
        /\ sessions[s].open
        /\ role[sessions[s].user] \in Allowed[body.op]
        /\ req' = [req EXCEPT ![t] = [body |-> body, user |-> sessions[s].user,
                                      sid |-> s, read |-> Unset]]
        /\ pc' = [pc EXCEPT ![t] =
                    IF body.op \in {"logout", "rule"} THEN "write" ELSE "select"]
    /\ requests' = requests + 1
    /\ UNCHANGED <<records, wish, stale>>

\* A lock, a full disk or an error in the transaction: a 500, and a rollback.
Fails(t) ==
    /\ pc[t] \in {"select", "write"}
    /\ Answered(t)
    /\ UNCHANGED <<records, requests, wish, stale>>

Logout(t) ==
    /\ At(t, "logout", "write")
    /\ sessions' = Closed(req[t].sid)
    /\ Answered(t)
    /\ UNCHANGED <<role, alert, disposition, rules, deliveries, audit, requests,
                   wish, stale>>

----------------------------------------------------------------------------
(* Reading before the transaction *)

\* The handler has read its row, or refuses with 403, 404.
Read(t, row) ==
    /\ req' = [req EXCEPT ![t] = [body |-> req[t].body, user |-> req[t].user,
                                  sid |-> req[t].sid, read |-> row]]
    /\ pc' = [pc EXCEPT ![t] = "write"]

\* Mutant: administrators may change their own role.
MayChange_Own(r) == TRUE

\* "self-service elevation is intentionally forbidden"
MayChange(r) == r.body.target # r.user

ReadTarget(t) == /\ At(t, "role", "select")
                 /\ IF MayChange(req[t]) THEN Read(t, Unset) ELSE Answered(t)
                 /\ UNCHANGED <<records, requests, wish, stale>>

ReadAlert(t) == /\ At(t, "alert", "select")
                /\ Read(t, alert)
                /\ UNCHANGED <<records, requests, wish, stale>>

ReadDisposition(t) == /\ At(t, "disposition", "select")
                      /\ Read(t, disposition)
                      /\ UNCHANGED <<records, requests, wish, stale>>

ReadRule(t) == /\ At(t, "test", "select")
               /\ IF req[t].body.name \in rules THEN Read(t, Unset) ELSE Answered(t)
               /\ UNCHANGED <<records, requests, wish, stale>>

----------------------------------------------------------------------------
(* The transactions *)

\* update_user_role
UpdateRole(t) ==
    LET r == req[t]
    IN  /\ At(t, "role", "write")
        /\ role' = [role EXCEPT ![r.body.target] = r.body.to]
        /\ Log("role", r.body.target)
        /\ Mark("role", role[r.user] = "admin")
        /\ Answered(t)
        /\ UNCHANGED <<sessions, alert, disposition, rules, deliveries, requests, wish>>

\* Mutant: an assignee of null is taken for one the body does not have.
NewAlert_NullUnset(body, row) ==
    [status   |-> IF body.status # Unset THEN body.status ELSE row.status,
     assignee |-> IF body.assignee \notin {Unset, Nobody} THEN body.assignee
                  ELSE row.assignee]

\* Fields the body does not have keep the value of a row.
NewAlert(body, row) ==
    [status   |-> IF body.status # Unset THEN body.status ELSE row.status,
     assignee |-> IF body.assignee # Unset THEN body.assignee ELSE row.assignee]

\* What the user asked for, whatever the row held.
Wish(body) ==
    [f \in {"status", "assignee"} |-> IF body[f] # Unset THEN body[f] ELSE wish[f]]

\* Mutant: the audit row holds what the body says.
AlertEntry_Asked(body, row) == [row EXCEPT !.status = body.status]

AlertEntry(body, row) == row

\* update_alert
UpdateAlert(t) ==
    LET r == req[t]
        row == NewAlert(r.body, r.read)
    IN  /\ At(t, "alert", "write")
        /\ alert' = row
        /\ Log("alert", AlertEntry(r.body, row))
        /\ wish' = Wish(r.body)
        /\ Mark("alert", r.read = alert)
        /\ Answered(t)
        /\ UNCHANGED <<role, sessions, disposition, rules, deliveries, requests>>

\* Mutant: the row is read after it has been written.
OldDisposition_New(r) == r.body.status

OldDisposition(r) == r.read

\* update_event_disposition
UpdateDisposition(t) ==
    LET r == req[t]
    IN  /\ At(t, "disposition", "write")
        /\ disposition' = r.body.status
        /\ Log("disposition", [old |-> OldDisposition(r), status |-> r.body.status])
        /\ Mark("disposition", r.read = disposition)
        /\ Answered(t)
        /\ UNCHANGED <<role, sessions, alert, rules, deliveries, requests, wish>>

\* create_alert_rule: names are UNIQUE, a second one is a 409.
CreateRule(t) ==
    LET r == req[t]
    IN  /\ At(t, "rule", "write")
        /\ IF r.body.name \in rules THEN UNCHANGED <<rules, audit>>
           ELSE /\ rules' = rules \union {r.body.name}
                /\ Log("rule", r.body.name)
        /\ Answered(t)
        /\ UNCHANGED <<role, sessions, alert, disposition, deliveries, requests,
                       wish, stale>>

\* delivery_status, whose only caller passes no suppression time: nothing is
\* sent, only a simulation is recorded as done.
DeliveryStatus(channel) == IF channel = "simulation" THEN "simulated" ELSE "failed"

\* test_alert_rule
TestRule(t) ==
    LET r == req[t]
        status == DeliveryStatus(r.body.channel)
    IN  /\ At(t, "test", "write")
        /\ deliveries' = Append(deliveries, status)
        /\ Log("test", status)
        /\ Answered(t)
        /\ UNCHANGED <<role, sessions, alert, disposition, rules, requests, wish, stale>>

----------------------------------------------------------------------------

Step(t) ==
    \/ Login(t) \/ Authenticate(t) \/ Fails(t) \/ Logout(t)
    \/ ReadTarget(t) \/ ReadAlert(t) \/ ReadDisposition(t) \/ ReadRule(t)
    \/ UpdateRole(t) \/ UpdateAlert(t) \/ UpdateDisposition(t)
    \/ CreateRule(t) \/ TestRule(t)

Next == Expire \/ \E t \in Threads : Step(t)

Spec == Init /\ [][Next]_vars

----------------------------------------------------------------------------
(* Properties.                                                             *)

\* There is always an administrator: since nobody changes their own role, the
\* last one can be demoted only by a request whose author has been demoted
\* after it authenticated (app.py:1084-1092).
AdminRemains == "role" \in stale \/ \E u \in Users : role[u] = "admin"

\* What a PATCH asks for stays until another PATCH asks for something else of
\* the same field: one that only assigns takes no status back, and null
\* unassigns.  Two that overlap are the exception: the later writes the fields
\* it does not name from the row it read (app.py:935-942).
WishesKept == "alert" \in stale \/ alert = wish

\* Whatever overlaps or fails, the audit trail tells the state: its last entry
\* about the alert or the disposition is the row, each rule has one entry, and
\* the deliveries are those of its tests, in order (write_audit is called in
\* the transaction of the change, app.py:943, 676, 975, 991).
AuditTells ==
    /\ audit["alert"] # <<>> => Last(audit["alert"]) = alert
    /\ disposition = IF audit["disposition"] = <<>> THEN Unset
                     ELSE Last(audit["disposition"]).status
    /\ IsInjective(audit["rule"]) /\ Range(audit["rule"]) = rules
    /\ audit["test"] = deliveries

\* The dispositions in the audit trail form a chain, each starting from the
\* one before, unless two requests overlapped (app.py:670-678).
DispositionChain ==
    LET chain == audit["disposition"]
    IN  "disposition" \in stale
          \/ \A i \in 1..Len(chain) :
               chain[i].old = IF i = 1 THEN Unset ELSE chain[i - 1].status
=============================================================================
