---------------------------- MODULE SSHCollector ----------------------------
(***************************************************************************)
(* The SSH log collector (collectors/ssh_collector.py), the loop that runs *)
(* it (collectors/main.py) and the cooldown of its notifier                *)
(* (notifiers/telegram.py): one polling round after the other reads what   *)
(* the log gained, stores the failures it parses, saves its position and   *)
(* sends one alert, while the log grows and is rotated, the database and   *)
(* the cursor file fail, and the process dies and is restarted.            *)
(*                                                                         *)
(* A line of the log stands for the event key the parser derives from it   *)
(* (timestamp, address, port, user, reason), or NoKey when it yields no    *)
(* event.  Positions are counted in half lines: 2*i is the end of line i,  *)
(* 2*i-1 is within it.  Neither half of a line parses: the patterns of the *)
(* parser ask for the timestamp, which comes first, and "ssh2", last.      *)
(***************************************************************************)
EXTENDS Naturals, Sequences, FiniteSets

CONSTANTS
    Keys,           \* event keys
    NoKey,          \* stands for a line without an event
    Sources,        \* addresses
    Source,         \* the address in a key
    BatchSize,      \* lines read before each transaction
    MaxLines,       \* bound: lines ever written
    MaxRotations,   \* bound: rotations of the log
    MaxCrashes,     \* bound: deaths of the process
    MaxFaults       \* bound: SQLite, cursor file and Telegram errors

ASSUME KeysAssumption   == NoKey \notin Keys
ASSUME SourceAssumption == Source \in [Keys -> Sources]
ASSUME LimitsAssumption == /\ BatchSize \in Nat \ {0}
                           /\ MaxLines \in Nat
                           /\ MaxRotations \in Nat
                           /\ MaxCrashes \in Nat
                           /\ MaxFaults \in Nat

VARIABLES
    \* the log
    files,      \* every file that had the name auth.log, oldest first
    present,    \* does the name exist (it does not during a rotation)
    partial,    \* is the last line of the newest file still being written
    \* on disk
    events,     \* attack_events, as the set of its unique event_key
    attackers,  \* attackers.total_events
    today,      \* log_sources.events_today
    cursor,     \* what reading the cursor file gives: 0 without a number
    \* the process
    pc,         \* "down" or the next step of the round
    handle,     \* the file the round has open, 0 for none
    pos,        \* current_position
    batch,      \* keys of the events parsed from the last lines read
    last,       \* _last_inserted_events
    fresh,      \* inserted_events of the round, how often each
    cooling,    \* has the notifier sent within its cooldown
    \* history
    sent,       \* how often each key was in a delivered alert
    origin,     \* the file the saved cursor is a position of
    missed,     \* lines <<file, i>> that were passed without being read whole
    crashes, faults

log    == <<files, present, partial>>
disk   == <<events, attackers, today>>
round  == <<handle, pos, batch, last, fresh>>
vars   == <<files, present, partial, events, attackers, today, cursor, pc,
            handle, pos, batch, last, fresh, cooling, sent, origin, missed,
            crashes, faults>>

Newest == Len(files)
Size(f) == 2 * Len(files[f]) - IF f = Newest /\ partial THEN 1 ELSE 0

None == [k \in Keys |-> 0]
Plus(counts, ks) == [k \in Keys |-> counts[k] + IF k \in ks THEN 1 ELSE 0]

Init ==
    /\ files = << <<>> >> /\ present = TRUE /\ partial = FALSE
    /\ events = {} /\ attackers = [s \in Sources |-> 0] /\ today = 0
    /\ cursor = 0
    /\ pc = "down"
    /\ handle = 0 /\ pos = 0 /\ batch = {} /\ last = {} /\ fresh = None
    /\ cooling = FALSE
    /\ sent = None /\ origin = 1 /\ missed = {} /\ crashes = 0 /\ faults = 0

----------------------------------------------------------------------------
(* The log, written by sshd through syslog and rotated by logrotate.       *)

Grow(line) == files' = [files EXCEPT ![Newest] = Append(@, line)]

Written == {l \in (1 .. Newest) \X (1 .. MaxLines) : l[2] <= Len(files[l[1]])}

\* One write may end anywhere within the line.
Write ==
    /\ present /\ ~partial
    /\ Cardinality(Written) < MaxLines
    /\ \E line \in Keys \union {NoKey} : Grow(line)
    /\ partial' \in BOOLEAN
    /\ UNCHANGED <<present, disk, cursor, pc, round, cooling, sent, origin,
                   missed, crashes, faults>>

WriteRest ==
    /\ partial
    /\ partial' = FALSE
    /\ UNCHANGED <<files, present, disk, cursor, pc, round, cooling, sent,
                   origin, missed, crashes, faults>>

\* The file is renamed; the next one comes into being later.
Rename ==
    /\ present /\ ~partial
    /\ Len(files) <= MaxRotations
    /\ present' = FALSE
    /\ UNCHANGED <<files, partial, disk, cursor, pc, round, cooling, sent,
                   origin, missed, crashes, faults>>

Create ==
    /\ ~present
    /\ present' = TRUE
    /\ files' = Append(files, <<>>)
    /\ UNCHANGED <<partial, disk, cursor, pc, round, cooling, sent, origin,
                   missed, crashes, faults>>

----------------------------------------------------------------------------
(* One round: collect_from_file.                                           *)

Goto(from, to) == pc = from /\ pc' = to

\* The round returns or raises, and the loop swallows what it raises.
\* `last` is an attribute of the collector and survives.
EndRound ==
    /\ pc' = "idle"
    /\ handle' = 0 /\ pos' = 0 /\ batch' = {} /\ fresh' = None

Fault == faults < MaxFaults /\ faults' = faults + 1

\* Without a file the round raises FileNotFoundError and changes nothing.
Open ==
    /\ Goto("idle", "opened")
    /\ present
    /\ handle' = Newest
    /\ last' = {}
    /\ UNCHANGED <<log, disk, cursor, pos, batch, fresh, cooling, sent, origin,
                   missed, crashes, faults>>

\* The saved position, or 0 when it exceeds the size of the file that has
\* the name now, which need not be the one that is open.  A position saved
\* for an older file passes over the lines before it.
Seek ==
    /\ Goto("opened", "reading")
    /\ present
    /\ pos' = IF cursor > Size(Newest) THEN 0 ELSE cursor
    /\ missed' = IF origin = handle THEN missed
                 ELSE missed \union {<<handle, i>> :
                        i \in {j \in 1 .. MaxLines : 2 * (j - 1) < pos'}}
    /\ UNCHANGED <<log, disk, cursor, handle, batch, last, fresh, cooling,
                   sent, origin, crashes, faults>>

SeekFails ==
    /\ pc = "opened"
    /\ ~present
    /\ EndRound
    /\ UNCHANGED <<log, disk, cursor, last, cooling, sent, origin, missed,
                   crashes, faults>>

\* Where BatchSize calls of readline from p end.
NextPosition(p) ==
    IF Size(handle) < 2 * ((p \div 2) + BatchSize)
    THEN Size(handle) ELSE 2 * ((p \div 2) + BatchSize)

\* The lines wholly within a range, and those only partly.
Lines(f, p, q) ==
    {i \in DOMAIN files[f] : p <= 2 * (i - 1) /\ 2 * i <= q}
Fragments(f, p, q) ==
    {i \in DOMAIN files[f] : p < 2 * i /\ 2 * (i - 1) < q} \ Lines(f, p, q)

ReadBatch ==
    /\ Goto("reading", "store")
    /\ pos < Size(handle)
    /\ pos' = NextPosition(pos)
    /\ batch' = {files[handle][i] : i \in Lines(handle, pos, pos')} \ {NoKey}
    /\ missed' = missed \union
         {<<handle, i>> : i \in Fragments(handle, pos, pos')}
    /\ UNCHANGED <<log, disk, cursor, handle, last, fresh, cooling, sent,
                   origin, crashes, faults>>

----------------------------------------------------------------------------
(* _process_batch and _save_cursor_position.                               *)

KeysOf(s, ks) == {k \in ks : Source[k] = s}

\* Mutant: every parsed event is counted, stored before or not.
StoreBatch_CountsAll ==
    /\ Goto("store", "truncate")
    /\ batch # {}
    /\ events' = events \union batch
    /\ attackers' = [s \in Sources |->
                       attackers[s] + Cardinality(KeysOf(s, batch))]
    /\ today' = today + Cardinality(batch \ events)
    /\ last' = batch \ events
    /\ fresh' = Plus(fresh, batch \ events)
    /\ UNCHANGED <<log, cursor, handle, pos, batch, cooling, sent, origin,
                   missed, crashes, faults>>

\* INSERT OR IGNORE: only rows that were really inserted count for their
\* attacker and for the log source, in the same transaction.
StoreBatch ==
    /\ Goto("store", "truncate")
    /\ batch # {}
    /\ LET inserted == batch \ events IN
         /\ events' = events \union inserted
         /\ attackers' = [s \in Sources |->
                            attackers[s] + Cardinality(KeysOf(s, inserted))]
         /\ today' = today + Cardinality(inserted)
         /\ last' = inserted
         /\ fresh' = Plus(fresh, inserted)
    /\ UNCHANGED <<log, cursor, handle, pos, batch, cooling, sent, origin,
                   missed, crashes, faults>>

\* Mutant: a batch without events leaves _last_inserted_events alone.
StoreNothing_KeepsLast ==
    /\ Goto("store", "truncate")
    /\ batch = {}
    /\ fresh' = Plus(fresh, last)
    /\ UNCHANGED <<log, disk, cursor, handle, pos, batch, last, cooling, sent,
                   origin, missed, crashes, faults>>

\* A batch without events: no transaction, nothing inserted.
StoreNothing ==
    /\ Goto("store", "truncate")
    /\ batch = {}
    /\ last' = {}
    /\ UNCHANGED <<log, disk, cursor, handle, pos, batch, fresh, cooling, sent,
                   origin, missed, crashes, faults>>

\* Mutant: the database error is swallowed and the position saved.
StoreFails_Swallowed ==
    /\ Goto("store", "truncate")
    /\ batch # {}
    /\ Fault
    /\ UNCHANGED <<log, disk, cursor, round, cooling, sent, origin, missed,
                   crashes>>

\* sqlite3.Error, for example a lock held too long: rolled back and raised.
StoreFails ==
    /\ pc = "store"
    /\ batch # {}
    /\ Fault
    /\ EndRound
    /\ UNCHANGED <<log, disk, cursor, last, cooling, sent, origin, missed,
                   crashes>>

\* write_text opens the cursor file, which empties it, and then writes.
SaveTruncates ==
    /\ Goto("truncate", "write")
    /\ cursor' = 0
    /\ UNCHANGED <<log, disk, round, cooling, sent, origin, missed, crashes,
                   faults>>

SaveWrites ==
    /\ Goto("write", "reading")
    /\ cursor' = pos
    /\ origin' = handle
    /\ UNCHANGED <<log, disk, round, cooling, sent, missed, crashes, faults>>

\* OSError from the open or from the write.
SaveFails ==
    /\ pc \in {"truncate", "write"}
    /\ Fault
    /\ EndRound
    /\ UNCHANGED <<log, disk, cursor, last, cooling, sent, origin, missed,
                   crashes>>

----------------------------------------------------------------------------
(* The end of the file: _send_telegram_alerts.                             *)

\* All events of the round in one message, unless there are none or the
\* last success is too recent.
Deliver ==
    /\ pc = "reading" /\ pos >= Size(handle)
    /\ fresh # None /\ ~cooling
    /\ sent' = [k \in Keys |-> sent[k] + fresh[k]]
    /\ cooling' = TRUE
    /\ EndRound
    /\ UNCHANGED <<log, disk, cursor, last, origin, missed, crashes, faults>>

\* send_message returns False or raises, the message having arrived or not;
\* nothing is kept for later.
DeliverFails ==
    /\ pc = "reading" /\ pos >= Size(handle)
    /\ fresh # None /\ ~cooling
    /\ Fault
    /\ sent' \in {sent, [k \in Keys |-> sent[k] + fresh[k]]}
    /\ EndRound
    /\ UNCHANGED <<log, disk, cursor, last, cooling, origin, missed, crashes>>

\* Mutant: at the end of the file the round waits for it to grow.
DeliverNothing_Waits ==
    /\ pc = "reading" /\ pos >= Size(handle)
    /\ fresh = None \/ cooling
    /\ UNCHANGED vars

DeliverNothing ==
    /\ pc = "reading" /\ pos >= Size(handle)
    /\ fresh = None \/ cooling
    /\ EndRound
    /\ UNCHANGED <<log, disk, cursor, last, cooling, sent, origin, missed,
                   crashes, faults>>

CooldownEnds ==
    /\ cooling
    /\ cooling' = FALSE
    /\ UNCHANGED <<log, disk, cursor, pc, round, sent, origin, missed, crashes,
                   faults>>

----------------------------------------------------------------------------
(* The life of the process.                                                *)

Start ==
    /\ Goto("down", "idle")
    /\ UNCHANGED <<log, disk, cursor, round, cooling, sent, origin, missed,
                   crashes, faults>>

\* The process is killed anywhere, or SIGTERM ends the loop between rounds.
Crash ==
    /\ pc # "down"
    /\ crashes < MaxCrashes
    /\ crashes' = crashes + 1
    /\ pc' = "down"
    /\ handle' = 0 /\ pos' = 0 /\ batch' = {} /\ last' = {} /\ fresh' = None
    /\ cooling' = FALSE
    /\ UNCHANGED <<log, disk, cursor, sent, origin, missed, faults>>

----------------------------------------------------------------------------

LogStep == Write \/ WriteRest \/ Rename \/ Create

RoundStep == \/ Open \/ Seek \/ SeekFails \/ ReadBatch
             \/ StoreBatch \/ StoreNothing \/ StoreFails
             \/ SaveTruncates \/ SaveWrites \/ SaveFails
             \/ Deliver \/ DeliverFails \/ DeliverNothing

Next == LogStep \/ RoundStep \/ CooldownEnds \/ Start \/ Crash

Spec == Init /\ [][Next]_vars

\* The loop runs one round after the other for ever, systemd restarts the
\* process, and a line or a rotation that was begun is completed.
FairSpec == Spec /\ WF_vars(RoundStep) /\ WF_vars(Start)
                 /\ WF_vars(WriteRest) /\ WF_vars(Create)

----------------------------------------------------------------------------
(* Properties.                                                             *)

\* However often lines are read again after a crash, a failed cursor write or
\* a rotation, an attacker's total is the number of distinct events stored
\* (README.md:130, no repeated event counts twice).
CountsMatch ==
    \A s \in Sources : attackers[s] = Cardinality(KeysOf(s, events))

\* A line before the saved position of its file is stored, unless it was never
\* read whole: no failure, crash or restart makes the cursor run ahead of the
\* database.
CursorBehindStore ==
    \A i \in DOMAIN files[origin] :
        2 * i <= cursor =>
            \/ files[origin][i] \in events \union {NoKey}
            \/ <<origin, i>> \in missed

\* No event is in two alerts or twice in one, and every alert is about stored
\* events, also when lines are read again.
AlertedOnce ==
    \A k \in Keys : sent[k] <= 1 /\ (sent[k] = 1 => k \in events)

\* A line that is in the newest file, and was not passed over, is stored sooner
\* or later, or leaves with its file.
Logged(k) ==
    \E i \in DOMAIN files[Newest] :
        files[Newest][i] = k /\ <<Newest, i>> \notin missed

EventuallyStored ==
    \A k \in Keys : Logged(k) ~> (k \in events \/ ~Logged(k))
=============================================================================
