---------------------------- MODULE RequestLimits ----------------------------
(***************************************************************************)
(* The two attempt tables of the API process (backend/app.py):             *)
(* LOGIN_ATTEMPTS, which login keeps per user name, and WRITE_ATTEMPTS,    *)
(* which require_write_rate keeps per user and client.  Both are plain     *)
(* dicts shared by the request threads without a lock.  A handler pops the *)
(* entries that a copy of the table shows to be over, reads the entry of   *)
(* its key and writes it back later (login after the password has been     *)
(* verified), so the table may have changed before each of these steps.    *)
(*                                                                         *)
(* A table is a function from the keys it holds to their entries.  The     *)
(* order of insertion is left out: the entry evicted from a full table may *)
(* be any.  Time is time.monotonic(), in units of the bounds.              *)
(***************************************************************************)
EXTENDS Integers, FiniteSets, Sequences, Functions

CONSTANTS
    Threads,        \* request threads
    Names,          \* case-folded user names
    Clients,        \* user:client keys of authenticated writers
    LoginLimit,     \* failures before a name is blocked, 5 in the code
    BlockTime,      \* and for how long, 60 s
    WriteLimit,     \* writes a client may make in a window, 60
    Window,         \* of this length, 60 s
    TableLimit,     \* entries of a table before it evicts, 10 000
    MaxTime,        \* bound: the clock stops here
    MaxRequests     \* bound: requests started

ASSUME ThreadsAssumption == IsFiniteSet(Threads) /\ Threads # {}
ASSUME LimitsAssumption ==
    /\ {LoginLimit, BlockTime, WriteLimit, Window, TableLimit} \subseteq Nat \ {0}
    /\ {MaxTime, MaxRequests} \subseteq Nat

VARIABLES
    now,        \* time.monotonic()
    logins,     \* LOGIN_ATTEMPTS: name -> [count, until]; until 0: not blocked
    writes,     \* WRITE_ATTEMPTS: client -> [count, until]
    pc,         \* the next step of each thread
    req,        \* the locals of its handler
    requests,   \* requests started
    failed,     \* history: failures of a name answered since it last succeeded
                \* or its entry was popped
    admitted,   \* history: times of a client's admissions, oldest first
    torn,       \* history: keys with an entry evicted, popped by a purge that
                \* meant the one before it, or written over one that was no longer
                \* the entry the handler had read; and clients with an entry
                \* written or popped while another handler of theirs was under way
    revived     \* history: entries stored though the one found is gone

tables == <<logins, writes>>
history == <<failed, admitted, torn, revived>>
vars == <<now, tables, pc, req, requests, history>>

NoEntry == [count |-> 0, until |-> 0]

Get(table, key) == IF key \in DOMAIN table THEN table[key] ELSE NoEntry
Without(table, K) == Restrict(table, DOMAIN table \ K)
Put(table, key, entry) ==
    [k \in DOMAIN table \union {key} |-> IF k = key THEN entry ELSE table[k]]

NoRequest == [key |-> "none", at |-> 0, read |-> NoEntry, found |-> FALSE, out |-> {}]

Init ==
    /\ now = 0
    /\ logins = <<>> /\ writes = <<>>
    /\ pc = [t \in Threads |-> "idle"]
    /\ req = [t \in Threads |-> NoRequest]
    /\ requests = 0
    /\ failed = [k \in Names |-> 0]
    /\ admitted = [k \in Clients |-> <<>>]
    /\ torn = {}
    /\ revived = 0

Goto(t, step) == pc' = [pc EXCEPT ![t] = step]

\* A handler starts: it reads the clock, takes a copy of the table and finds in
\* it the keys of the entries that are over by then.
Starts(t, key, over, step) ==
    /\ pc[t] = "idle"
    /\ requests < MaxRequests
    /\ requests' = requests + 1
    /\ req' = [req EXCEPT ![t] = [key |-> key, at |-> now, read |-> NoEntry,
                                  found |-> FALSE, out |-> over]]
    /\ Goto(t, step)

\* It goes on with other locals.
Keeps(t, read, found, out) ==
    req' = [req EXCEPT ![t] = [key |-> req[t].key, at |-> req[t].at,
                               read |-> read, found |-> found, out |-> out]]

\* Only a handler that has answered forgets its locals.
Answered(t) == Goto(t, "idle") /\ req' = [req EXCEPT ![t] = NoRequest]

Tick ==
    /\ now < MaxTime
    /\ now' = now + 1
    /\ UNCHANGED <<tables, pc, req, requests, history>>

----------------------------------------------------------------------------
(* A full table gives up its first entry for a key it does not hold.  The    *)
(* length, the first key and the pop are looked up one after the other:       *)
(* `next(iter(...))` may find the table empty or changed, and `pop` the key   *)
(* gone.  Each raises, and the handler ends without storing anything.         *)

\* Mutant: the table is not bounded.
Full_Never(table, key) == FALSE

Full(table, key) ==
    Cardinality(DOMAIN table) >= TableLimit /\ key \notin DOMAIN table

MeasuresRoom(t, table, full, room) ==
    /\ Keeps(t, req[t].read, req[t].key \in DOMAIN table, {})
    /\ Goto(t, IF Full(table, req[t].key) THEN full ELSE room)

Chooses(t, table) ==
    \E old \in DOMAIN table : Keeps(t, req[t].read, FALSE, {old})

Evicts(t, table, other) ==
    /\ req[t].out \subseteq DOMAIN table
    /\ other = Without(table, req[t].out)
    /\ torn' = torn \union req[t].out
    /\ Keeps(t, req[t].read, FALSE, {})

OthersRun(t) == \E u \in Threads \ {t} : pc[u] # "idle"

EvictionFails(t) ==
    /\ \/ pc[t] = "login_choose" /\ (DOMAIN logins = {} \/ OthersRun(t))
       \/ pc[t] = "write_choose" /\ (DOMAIN writes = {} \/ OthersRun(t))
       \/ pc[t] = "login_evict" /\ ~ req[t].out \subseteq DOMAIN logins
       \/ pc[t] = "write_evict" /\ ~ req[t].out \subseteq DOMAIN writes
    /\ Answered(t)
    /\ UNCHANGED <<now, tables, requests, history>>

Revived(r, table) ==
    revived' = IF r.found /\ r.key \notin DOMAIN table THEN revived + 1 ELSE revived

----------------------------------------------------------------------------
(* login *)

\* A block that is over; an entry without a block never is.
BlockOver(entry, at) == entry.until # 0 /\ entry.until <= at

OverBlocks == {k \in DOMAIN logins : BlockOver(logins[k], now)}

LoginStarts(t) ==
    /\ \E key \in Names : Starts(t, key, OverBlocks, "login_purge")
    /\ UNCHANGED <<now, tables, history>>

\* One key after the other is popped, whatever its entry is by now.
LoginPurges(t) ==
    /\ pc[t] = "login_purge"
    /\ \E k \in req[t].out :
        /\ logins' = Without(logins, {k})
        /\ failed' = [failed EXCEPT ![k] = 0]
        /\ torn' = IF k \in DOMAIN logins /\ ~BlockOver(logins[k], req[t].at)
                   THEN torn \union {k} ELSE torn
        /\ Keeps(t, req[t].read, FALSE, req[t].out \ {k})
    /\ UNCHANGED <<now, writes, pc, requests, admitted, revived>>

\* Mutant: the comparison is turned round.
Refused_Turned(entry, at) == entry.until < at

Refused(entry, at) == entry.until > at

\* A blocked name is refused without a look at its password.
LoginLooks(t) ==
    /\ pc[t] = "login_purge" /\ req[t].out = {}
    /\ LET entry == Get(logins, req[t].key)
       IN  \/ Refused(entry, req[t].at) /\ Answered(t)
           \/ /\ ~Refused(entry, req[t].at)
              /\ Keeps(t, entry, FALSE, {})
              /\ Goto(t, "verify")
    /\ UNCHANGED <<now, tables, requests, history>>

\* The verified password: the entry is dropped, whatever it holds by now.
LoginSucceeds(t) ==
    LET key == req[t].key
    IN  /\ pc[t] = "verify"
        /\ logins' = Without(logins, {key})
        /\ failed' = [failed EXCEPT ![key] = 0]
        /\ torn' = IF Get(logins, key) = req[t].read THEN torn ELSE torn \union {key}
        /\ Answered(t)
        /\ UNCHANGED <<now, writes, requests, admitted, revived>>

\* The password is wrong, or the name unknown: is there room for the entry?
LoginFails(t) ==
    /\ pc[t] = "verify"
    /\ MeasuresRoom(t, logins, "login_choose", "store")
    /\ UNCHANGED <<now, tables, requests, history>>

LoginChooses(t) ==
    /\ pc[t] = "login_choose"
    /\ Chooses(t, logins)
    /\ Goto(t, "login_evict")
    /\ UNCHANGED <<now, tables, requests, history>>

LoginEvicts(t) ==
    /\ pc[t] = "login_evict"
    /\ Evicts(t, logins, logins')
    /\ failed' = [k \in Names |-> IF k \in req[t].out THEN 0 ELSE failed[k]]
    /\ Goto(t, "store")
    /\ UNCHANGED <<now, writes, requests, admitted, revived>>

\* Mutant: the failure after which a name is blocked is not the last allowed.
Failure_LateBlock(r) ==
    [count |-> r.read.count + 1,
     until |-> IF r.read.count >= LoginLimit THEN r.at + BlockTime ELSE 0]

\* The entry after one more failure, counted from what the handler read.
Failure(r) ==
    [count |-> r.read.count + 1,
     until |-> IF r.read.count + 1 >= LoginLimit THEN r.at + BlockTime ELSE 0]

LoginStores(t) ==
    LET key == req[t].key
    IN  /\ pc[t] = "store"
        /\ logins' = Put(logins, key, Failure(req[t]))
        /\ failed' = [failed EXCEPT ![key] = @ + 1]
        /\ torn' = IF Get(logins, key) = req[t].read THEN torn ELSE torn \union {key}
        /\ Revived(req[t], logins)
        /\ Answered(t)
        /\ UNCHANGED <<now, writes, requests, admitted>>

----------------------------------------------------------------------------
(* require_write_rate *)

WriteSteps == {"write_purge", "room", "write_choose", "write_evict", "admit"}

\* Is another handler of the client under way?
Overlapped(t, key) ==
    \E u \in Threads \ {t} : pc[u] \in WriteSteps /\ req[u].key = key

OverWindows == {k \in DOMAIN writes : writes[k].until <= now}

WriteStarts(t) ==
    /\ \E key \in Clients : Starts(t, key, OverWindows, "write_purge")
    /\ UNCHANGED <<now, tables, history>>

WritePurges(t) ==
    /\ pc[t] = "write_purge"
    /\ \E k \in req[t].out :
        /\ writes' = Without(writes, {k})
        /\ torn' = IF k \in DOMAIN writes
                      /\ (writes[k].until > req[t].at \/ Overlapped(t, k))
                   THEN torn \union {k} ELSE torn
        /\ Keeps(t, req[t].read, FALSE, req[t].out \ {k})
    /\ UNCHANGED <<now, logins, pc, requests, failed, admitted, revived>>

\* The window the client is in, or a new one.
Current(key, at) ==
    IF key \in DOMAIN writes /\ writes[key].until > at THEN writes[key]
    ELSE [count |-> 0, until |-> at + Window]

\* Mutant: one write more than the limit.
Admits_OneMore(entry) == entry.count <= WriteLimit

Admits(entry) == entry.count < WriteLimit

\* The look-up and the refusal (429) of a client at its limit.
WriteLooks(t) ==
    /\ pc[t] = "write_purge" /\ req[t].out = {}
    /\ LET entry == Current(req[t].key, req[t].at)
       IN  \/ ~Admits(entry) /\ Answered(t)
           \/ /\ Admits(entry)
              /\ Keeps(t, entry, FALSE, {})
              /\ Goto(t, "room")
    /\ UNCHANGED <<now, tables, requests, history>>

WriteMeasures(t) ==
    /\ pc[t] = "room"
    /\ MeasuresRoom(t, writes, "write_choose", "admit")
    /\ UNCHANGED <<now, tables, requests, history>>

WriteChooses(t) ==
    /\ pc[t] = "write_choose"
    /\ Chooses(t, writes)
    /\ Goto(t, "write_evict")
    /\ UNCHANGED <<now, tables, requests, history>>

WriteEvicts(t) ==
    /\ pc[t] = "write_evict"
    /\ Evicts(t, writes, writes')
    /\ Goto(t, "admit")
    /\ UNCHANGED <<now, logins, requests, failed, admitted, revived>>

Admission(r) == [r.read EXCEPT !.count = @ + 1]

\* Is the entry still what the handler has read, or as absent as it was?
Unmoved(r) == \/ r.key \in DOMAIN writes /\ writes[r.key] = r.read
              \/ r.key \notin DOMAIN writes /\ r.read.count = 0

WriteAdmitted(t) ==
    LET key == req[t].key
    IN  /\ pc[t] = "admit"
        /\ writes' = Put(writes, key, Admission(req[t]))
        /\ admitted' = [admitted EXCEPT ![key] = Append(@, req[t].at)]
        /\ torn' = IF Unmoved(req[t]) /\ ~Overlapped(t, key) THEN torn
                   ELSE torn \union {key}
        /\ Revived(req[t], writes)
        /\ Answered(t)
        /\ UNCHANGED <<now, logins, requests, failed>>

----------------------------------------------------------------------------

LoginStep(t) ==
    \/ LoginStarts(t) \/ LoginPurges(t) \/ LoginLooks(t) \/ LoginSucceeds(t)
    \/ LoginFails(t) \/ LoginChooses(t) \/ LoginEvicts(t) \/ LoginStores(t)

WriteStep(t) ==
    \/ WriteStarts(t) \/ WritePurges(t) \/ WriteLooks(t) \/ WriteMeasures(t)
    \/ WriteChooses(t) \/ WriteEvicts(t) \/ WriteAdmitted(t)

Step(t) == LoginStep(t) \/ WriteStep(t) \/ EvictionFails(t)

Next == Tick \/ \E t \in Threads : Step(t)

Spec == Init /\ [][Next]_vars

----------------------------------------------------------------------------
(* Properties.                                                             *)

\* LOGIN_ATTEMPT_LIMIT and WRITE_ATTEMPT_LIMIT are no bounds in themselves: the
\* threads that look at the length before any of them inserts exceed them by one
\* each, and so does every entry that is gone after its handler has found it and
\* before it stores it back.  Nothing else does (app.py:529-531, 340-342).
TablesBounded ==
    \A table \in {logins, writes} :
        Cardinality(DOMAIN table) + 1 <= TableLimit + Cardinality(Threads) + revived

\* As long as no handler of a name stores over an entry it has not read and its
\* entry is neither evicted nor popped by a purge that meant an earlier one, its
\* entry counts the failures answered since the last success or block, and the
\* name is blocked exactly when these have reached the limit: no other purge, no
\* block that ends and no eviction that fails makes it forget or invent a failure
\* (app.py:508-531).
LockoutCounts ==
    \A k \in Names \ torn :
        LET entry == Get(logins, k)
        IN  /\ entry.count = failed[k]
            /\ entry.until # 0 <=> failed[k] >= LoginLimit

\* A block ends only when its time is over.  It is lifted earlier only by handlers
\* that overlap, an eviction or a stale purge (app.py:509-514, 530-531).
BlockStands ==
    [][\A k \in Names : Get(logins, k).until > now /\ Get(logins', k).until <= now
                          => k \in torn']_vars

\* Windows are fixed, so a client may write at the end of one and at the start
\* of the next.  Since its first write opens a window, no span of a window's
\* length holds twice the writes the limit allows, as long as no two handlers of
\* the client overlap and its entry is not evicted, nor popped by a stale purge or
\* while a handler of the client is under way (app.py:332-342).
BurstBounded ==
    \A k \in Clients \ torn :
        LET burst == 2 * WriteLimit - 1
        IN  \A i \in 1..Len(admitted[k]) :
                i + burst <= Len(admitted[k])
                  => admitted[k][i + burst] >= admitted[k][i] + Window
=============================================================================
