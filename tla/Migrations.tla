----------------------------- MODULE Migrations -----------------------------
(***************************************************************************)
(* database/migrate.py and backend/cli/create_admin.py: processes that     *)
(* bring one SQLite database up to date, script by script, and then create *)
(* an account, while others do the same, statements fail and processes die *)
(* between two statements.                                                 *)
(*                                                                         *)
(* executescript commits what is pending and then lets each statement      *)
(* commit by itself; the INSERT of a version after it opens a transaction, *)
(* which holds the write lock until the next executescript or the end of   *)
(* the `with` block commits it.  The scripts are those of                  *)
(* database/migrations as far as repeating them matters.                   *)
(***************************************************************************)
EXTENDS Integers, Sequences

CONSTANTS
    Processes,
    Scripts,        \* the sorted *.sql files: sequences of statements
    Names,          \* account names for create_admin
    NoName,         \* what migrate has instead of a name
    MaxFaults       \* bound: deaths and failed statements

\* "create" has IF NOT EXISTS or OR IGNORE, "alter" is ALTER TABLE ADD COLUMN,
\* "record" inserts the script's own version.
Statement == [do: {"create", "alter", "record"}, object: STRING]

ASSUME ScriptsAssumption == Scripts \in Seq(Seq(Statement) \ {<<>>}) \ {<<>>}
ASSUME RecordLastAssumption ==
    \A k \in DOMAIN Scripts : \A i \in DOMAIN Scripts[k] :
        Scripts[k][i].do = "record" => i = Len(Scripts[k])
ASSUME NamesAssumption == NoName \notin Names
ASSUME FaultsAssumption == MaxFaults \in Nat

Versions == DOMAIN Scripts
None == 0

VARIABLES
    objects,        \* tables, indexes, rows and columns that exist
    versions,       \* schema_migrations
    accounts,       \* users: how many rows have a name
    audits,         \* audit_logs: create_admin entries by name
    pc, job,        \* job: the name create_admin was given, or NoName
    applied,        \* the versions read at the start
    script, line,   \* the next statement
    open,           \* the version of an uncommitted INSERT, or None
    why,            \* history: how the last run of a process ended
    faults

db == <<objects, versions, accounts, audits>>
local == <<job, applied, script, line>>
vars == <<db, pc, local, open, why, faults>>

Idle == {"off", "done", "failed"}
Running(p) == pc[p] \notin Idle

Here(p) == Scripts[script[p]][line[p]]

\* SQLite has one writer at a time.
CanWrite(p) == \A q \in Processes \ {p} : open[q] = None

----------------------------------------------------------------------------
(* migrate *)

Unapplied(p, first) == (first..Len(Scripts)) \ applied[p]

\* The loop goes on with the first script that is left, or ends.
Turn(p, todo) ==
    \/ /\ todo = {}
       /\ pc' = [pc EXCEPT ![p] = "finish"]
       /\ UNCHANGED <<script, line>>
    \/ \E k \in todo :
        /\ \A j \in todo : k <= j
        /\ pc' = [pc EXCEPT ![p] = "begin"]
        /\ script' = [script EXCEPT ![p] = k]
        /\ line' = [line EXCEPT ![p] = 1]

Start(p) ==
    /\ ~Running(p)
    /\ \E name \in Names \union {NoName} : job' = [job EXCEPT ![p] = name]
    /\ pc' = [pc EXCEPT ![p] = "read"]
    /\ why' = [why EXCEPT ![p] = "running"]
    /\ UNCHANGED <<db, applied, script, line, open, faults>>

\* schema_migrations is created if need be and read.
ReadApplied(p) ==
    /\ pc[p] = "read"
    /\ applied' = [applied EXCEPT ![p] = versions]
    /\ pc' = [pc EXCEPT ![p] = "scan"]
    /\ UNCHANGED <<db, job, script, line, open, why, faults>>

Scan(p) ==
    /\ pc[p] = "scan"
    /\ Turn(p, Unapplied(p, 1))
    /\ UNCHANGED <<db, job, applied, open, why, faults>>

\* Mutant: the version is recorded before the script has run.
BeginScript_Records(p) ==
    /\ pc[p] = "begin"
    /\ versions' = versions \union {script[p]}
    /\ open' = [open EXCEPT ![p] = None]
    /\ pc' = [pc EXCEPT ![p] = "script"]
    /\ UNCHANGED <<objects, accounts, audits, local, why, faults>>

\* executescript commits the INSERT of the version before.
BeginScript(p) ==
    /\ pc[p] = "begin"
    /\ versions' = versions \union ({open[p]} \ {None})
    /\ open' = [open EXCEPT ![p] = None]
    /\ pc' = [pc EXCEPT ![p] = "script"]
    /\ UNCHANGED <<objects, accounts, audits, local, why, faults>>

\* Mutant: no statement has an IF NOT EXISTS.
Refused_Always(statement) == statement.do # "record" /\ statement.object \in objects

\* "duplicate column name"
Refused(statement) == statement.do = "alter" /\ statement.object \in objects

Writes(statement) == statement.do = "record" \/ statement.object \notin objects

Execute(p) ==
    /\ pc[p] = "script"
    /\ ~Refused(Here(p))
    /\ Writes(Here(p)) => CanWrite(p)
    /\ IF Here(p).do = "record"
       THEN versions' = versions \union {script[p]} /\ UNCHANGED objects
       ELSE objects' = objects \union {Here(p).object} /\ UNCHANGED versions
    /\ IF line[p] < Len(Scripts[script[p]])
       THEN line' = [line EXCEPT ![p] = @ + 1] /\ UNCHANGED pc
       ELSE pc' = [pc EXCEPT ![p] = "record"] /\ UNCHANGED line
    /\ UNCHANGED <<accounts, audits, job, applied, script, open, why, faults>>

RecordVersion(p) ==
    /\ pc[p] = "record"
    /\ CanWrite(p)
    /\ open' = [open EXCEPT ![p] = script[p]]
    /\ Turn(p, Unapplied(p, script[p] + 1))
    /\ UNCHANGED <<db, job, applied, why, faults>>

\* Mutant: the connection is closed without a commit.
Finish_NoCommit(p) ==
    /\ pc[p] = "finish"
    /\ open' = [open EXCEPT ![p] = None]
    /\ pc' = [pc EXCEPT ![p] = IF job[p] = NoName THEN "done" ELSE "check"]
    /\ why' = [why EXCEPT ![p] = IF job[p] = NoName THEN "migrated" ELSE @]
    /\ UNCHANGED <<db, local, faults>>

\* The `with` block ends.
Finish(p) ==
    /\ pc[p] = "finish"
    /\ versions' = versions \union ({open[p]} \ {None})
    /\ open' = [open EXCEPT ![p] = None]
    /\ pc' = [pc EXCEPT ![p] = IF job[p] = NoName THEN "done" ELSE "check"]
    /\ why' = [why EXCEPT ![p] = IF job[p] = NoName THEN "migrated" ELSE @]
    /\ UNCHANGED <<objects, accounts, audits, local, faults>>

----------------------------------------------------------------------------
(* create_admin *)

CheckAdmin(p) ==
    /\ pc[p] = "check"
    /\ IF accounts[job[p]] > 0
       THEN /\ pc' = [pc EXCEPT ![p] = "failed"]
            /\ why' = [why EXCEPT ![p] = "exists"]
       ELSE pc' = [pc EXCEPT ![p] = "insert"] /\ UNCHANGED why
    /\ UNCHANGED <<db, local, open, faults>>

\* Mutant: users.username is not UNIQUE.
Taken_Never(name) == FALSE

Taken(name) == accounts[name] > 0

\* The account and its audit entry, in one transaction.
InsertAdmin(p) ==
    /\ pc[p] = "insert"
    /\ CanWrite(p)
    /\ ~Taken(job[p])
    /\ accounts' = [accounts EXCEPT ![job[p]] = @ + 1]
    /\ audits' = [audits EXCEPT ![job[p]] = @ + 1]
    /\ pc' = [pc EXCEPT ![p] = "done"]
    /\ why' = [why EXCEPT ![p] = "created"]
    /\ UNCHANGED <<objects, versions, local, open, faults>>

----------------------------------------------------------------------------
(* What goes wrong *)

\* An exception leaves the `with` block, which rolls back.
Raise(p, reason) ==
    /\ pc' = [pc EXCEPT ![p] = "failed"]
    /\ why' = [why EXCEPT ![p] = reason]
    /\ open' = [open EXCEPT ![p] = None]
    /\ UNCHANGED <<db, local>>

Duplicate(p) ==
    /\ \/ pc[p] = "script" /\ Refused(Here(p))
       \/ pc[p] = "insert" /\ CanWrite(p) /\ Taken(job[p])
    /\ Raise(p, IF pc[p] = "insert" THEN "exists" ELSE "duplicate")
    /\ UNCHANGED faults

\* Another process holds the lock for longer than busy_timeout.
Locked(p) ==
    /\ pc[p] \in {"record", "insert"} \/ (pc[p] = "script" /\ Writes(Here(p)))
    /\ ~CanWrite(p)
    /\ Raise(p, "locked")
    /\ UNCHANGED faults

\* The disk is full or fails.
Fails(p) ==
    /\ Running(p)
    /\ faults < MaxFaults
    /\ faults' = faults + 1
    /\ Raise(p, "error")

\* The process is killed or the host goes down; SQLite rolls back.
Die(p) ==
    /\ Running(p)
    /\ faults < MaxFaults
    /\ faults' = faults + 1
    /\ pc' = [pc EXCEPT ![p] = "off"]
    /\ why' = [why EXCEPT ![p] = "died"]
    /\ open' = [open EXCEPT ![p] = None]
    /\ UNCHANGED <<db, local>>

----------------------------------------------------------------------------

Init ==
    /\ objects = {} /\ versions = {}
    /\ accounts = [name \in Names |-> 0]
    /\ audits = [name \in Names |-> 0]
    /\ pc = [p \in Processes |-> "off"]
    /\ job = [p \in Processes |-> NoName]
    /\ applied = [p \in Processes |-> {}]
    /\ script = [p \in Processes |-> 1]
    /\ line = [p \in Processes |-> 1]
    /\ open = [p \in Processes |-> None]
    /\ why = [p \in Processes |-> "none"]
    /\ faults = 0

Run(p) ==
    \/ ReadApplied(p) \/ Scan(p) \/ BeginScript(p) \/ Execute(p) \/ RecordVersion(p)
    \/ Finish(p) \/ CheckAdmin(p) \/ InsertAdmin(p) \/ Duplicate(p) \/ Locked(p)

Next == \E p \in Processes : Start(p) \/ Run(p) \/ Fails(p) \/ Die(p)

Spec == Init /\ [][Next]_vars

\* A run goes on by itself; the operator repeats it.
FairSpec == Spec /\ \A p \in Processes : WF_vars(Run(p)) /\ WF_vars(Start(p))

----------------------------------------------------------------------------
(* Properties.                                                             *)

ObjectsOf(k) == {Scripts[k][i].object : i \in {j \in DOMAIN Scripts[k] :
                                                Scripts[k][j].do # "record"}}
AltersOf(k) == {Scripts[k][i].object : i \in {j \in DOMAIN Scripts[k] :
                                               Scripts[k][j].do = "alter"}}

\* A recorded version says that its script and all earlier ones have taken full
\* effect, whoever died or failed when (migrate.py:32-37).
VersionMeansApplied ==
    \A k \in versions : \A j \in 1..k : ObjectsOf(j) \subseteq objects

\* A run that ends well leaves every script in effect and on record, whatever
\* other runs were doing meanwhile (migrate.py:10-37).
CompleteWhenDone ==
    \A p \in Processes :
        why[p] \in {"migrated", "created", "exists"}
          => /\ versions = Versions
             /\ \A k \in Versions : ObjectsOf(k) \subseteq objects

\* A name gets one account, audited once, even if two operators ask for it at
\* once (create_admin.py:26-36).
AdminOnce ==
    \A name \in Names : accounts[name] <= 1 /\ audits[name] = accounts[name]

\* p has altered the table and will yet record it.
WillRecord(p, k) ==
    \/ open[p] = k
    \/ script[p] = k /\ (pc[p] = "record" \/ (pc[p] = "script" /\ line[p] > 1))

\* A column is there, its version is not, and nobody is left to record it: every
\* later run is refused.
Stuck == \E k \in Versions \ versions :
    AltersOf(k) \intersect objects # {} /\ ~\E p \in Processes : WillRecord(p, k)

\* Repeating the command brings the database up to date after any fault but one:
\* that which leaves an unrecorded column of a script without IF NOT EXISTS
\* (009_nftables_audit.sql:2-5, migrate.py:32-37).
EventuallyApplied == <>(versions = Versions \/ Stuck)
=============================================================================
