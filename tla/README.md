# SecMon, specified

TLA+ models of the core of `secmon-linux-security/`, the TLC runs that check
them and the TLAPS proofs about them.  Line numbers refer to the files of the
repository; `app.py` is `backend/app.py`.

## 1. Inventory

The repository is one program, SecMon, with scripts and documents around it.
SecMon runs as two systemd services over one SQLite database and one nftables
table, and a browser front end.

| Part | State | Operations | Hard behaviour | What makes it correct |
|---|---|---|---|---|
| Manual-block API (`app.py`) | `blocked_ips`, `ip_allowlist`, `attackers.status`, `audit_logs` | block, unblock, list with expiry, allowlist add and remove, reconciliation at startup | `def` handlers run in a thread pool; each is several transactions and firewall calls; either side can fail; the process can die in between | database and kernel agree when nothing runs; one active row per address; allowlisted addresses are not blocked; every change is audited |
| nftables service (`services/nftables.py`) | the kernel table `inet secmon`: two sets, a chain, two rules | block, unblock (status and preview read) | a call is up to eleven commands, unlocked, each of which fails or times out by itself | a successful block drops the address, a successful unblock does not; the layout is complete |
| Attempt limits (`app.py`) | `LOGIN_ATTEMPTS` and `WRITE_ATTEMPTS` in memory | purge, look-up, refusal, eviction, write back | unlocked read-modify-write, around a slow password check; a purge that acts on a copy of the table; eviction at the limit | counts are exact and blocks stand, but for overlaps, evictions and stale purges; tables stay bounded |
| Sessions, roles, alerts, rules (`app.py`) | `users`, `api_sessions`, `alerts`, `event_dispositions`, `alert_rules`, `alert_deliveries`, `audit_logs` | login, logout, role change, alert and disposition update, rule create and test | the role and the row are read before the transaction that relies on them | an administrator remains, no wish is lost, the audit trail tells the state |
| SSH collector (`collectors/ssh_collector.py`, `collectors/main.py`) | cursor file, `attack_events`, `attackers`, `log_sources` | one polling round: batches, commit, cursor, alert | crash between commit and cursor, rotation, partial lines | each logged failure is counted once |
| SSH parser (`parsers/ssh_parser.py`) | none, but it reads the clock | line to event | a year or a time the line does not show; a clock set back; one-second event keys | stamps are right, a line read again is the same event, different attempts have different keys |
| Telegram notifier (`notifiers/telegram.py`) | time of the last success | send | failure, cooldown | an alert is sent at most once |
| Network metrics (`collectors/network_metrics.py`) | `network_interfaces`, `network_samples`, the second of the last round | one sampling round; rates and totals derived by the API | the clock set, a stamp cut to the second before the counters are read, counters reset, devices replugged, rollback after partial commits, restart | rates and totals are never more than what was carried |
| Traffic detector (`services/traffic_detector.py`) | state machine per interface in memory, `traffic_alerts` | process a sample, persist, resolve by hand | memory and database diverge on rollback, restart, cooldown | an alert shown is the state of the detector |
| Migrations and `create_admin` (`database/migrate.py`, `cli/create_admin.py`) | `schema_migrations`, the schema, `users` | apply what is missing, in order; create an account | a script commits statement by statement, its version later; two operators at once | a recorded version is in effect; repeating the command helps; one account a name |
| Maintenance, gates, push scripts (`scripts/`, `run_secmon_*`) | files, git, unit states | backup, recover, deploy; agents in sequence; commit and push | partial failure between steps | not modelled |
| Front end (`frontend/src/main.ts`) | session in the browser | render, fetch | late answers | not modelled |

How they interact: the collector writes `attack_events` and `attackers`, which
the API reads and marks `blocked`; both processes share the database file and
nothing else.  Only the API calls the nftables service.  The detector runs
inside the collector process, in the transaction of the metrics round; the API
shows and closes its alerts.  The kernel table outlives the process and dies
with the host; the database outlives both.

`PROJECT.json` lists the components with what is modelled of each, and the
hazards of the code with the properties about them.

## 2. Modules

| Module | Models | Runs |
|---|---|---|
| `SecMonFirewall` | the block, unblock, list and allowlist handlers, expiry, startup reconciliation, crashes | `fw_*` |
| `BlockLedger` | what the table `blocked_ips` promises its readers; implemented by `SecMonFirewall` | `fw_concurrent` |
| `NftablesService` | block and unblock as nft commands | `nft_*` |
| `AddressSet` | the atomic firewall service `SecMonFirewall` assumes; implemented by `NftablesService` | `nft_service` |
| `RequestLimits` | the login limiter and the write-rate limiter | `api_limits` |
| `ApiRecords` | sessions, roles, alerts, dispositions, rules, their audit rows | `api_records` |
| `SSHCollector` | the rounds of the SSH collector over a growing and rotated log | `ssh_collect` |
| `EventTimes` | the parser: stamp, refusal and event key of a line | `ssh_times` |
| `NetworkSamples` | sampling rounds, and the rates and totals derived from their rows | `net_samples` |
| `TrafficDetector` | the anomaly detector, its alert rows and the sampling rounds | `atd_rounds` |
| `Migrations` | migrate and create_admin, statement by statement | `migrate_runs` |
| `MCFirewall`, `MCNftables`, `MCLimits`, `MCRecords`, `MCCollector`, `MCEventTimes`, `MCSamples`, `MCDetector`, `MCMigrations` | instances for TLC | |
| `SecMonFirewallProofs`, `NftablesServiceProofs`, `RequestLimitsProofs`, `ApiRecordsProofs`, `SSHCollectorProofs`, `NetworkSamplesProofs`, `TrafficDetectorProofs`, `MigrationsProofs` | theorems about the module of that name; those about `EventTimes` are in `SSHCollectorProofs` | |

Definitions named `X_Something`, each under a comment "Mutant", are faulty
variants of `X` that some property must reject; no specification uses them.

### SecMonFirewall

One step is one SQLite transaction, one SELECT outside a transaction (Python's
`sqlite3` opens a transaction at the first write only) or one call of the
firewall service.  `pc[t]` names the step thread `t` takes next, `req[t]` its
request; `fetched[t]` and `todo[t]` are the rows a loop selected and those it
has not handled, `held[t]` the row id `unblock_ip` read before its firewall
call.  `Main` is the thread of the startup handler.  The row with id *n* is
`rows[n]`.  A time is abstracted to what the code asks of it: a row expires
`never`, in the `future` or is `past`.  `audit` is the set of what was recorded;
`row`, which the table only gives as an address, tells records of different
rows apart.

`attacker` is the status an address has among the attackers, `none` without a
row: blocking an address only updates the row (`app.py:827`), and the collector,
in its own process, inserts it as `observed` when it stores the first attack of
one of the `Attackers` (`Observe`, `ssh_collector.py:159-163`).  `stale` are the
threads about to delete an allowlist entry that another thread has deleted since
they found it: the look-up by id (`app.py:1031`) and the DELETE
(`app.py:1034-1035`) are two steps, and an entry added again has a new id.

Three variables are history.  `denied` are the addresses a 409 was returned for,
`unrepaired` those for which a compensating call failed and no call has succeeded
since, `unseen` those that had no row among the attackers when they were last
blocked.

Authentication, the write limit and validation by Pydantic come before the
handlers' first step and are not part of the module (they are in `ApiRecords`
and `RequestLimits`): a request that arrives is authorised.  `NoIp` is an address `parse_ip` refuses.  A thread that dies with
the process leaves its transaction uncommitted.

`MaxRows` bounds the rows ever inserted, `MaxCrashes` the deaths,
`FaultsPerRequest` the errors one request meets.  `LateEffects` says whether an
nft call that raises may have taken effect; the runs that relate database and
kernel take `FALSE`: with `TRUE` an unblock that timed out after
deleting leaves a row that claims to be synchronised, since the handler has no
way to learn of it.  `fw_concurrent`, whose properties do not depend on the
kernel, takes `TRUE`.  `Misreads` says whether unblock's look at the set
(`nftables.py:128`) may miss an element, after which unblock deletes nothing and
answers well; `fw_serial` takes `FALSE`, because such an element outlives its row,
and `fw_concurrent` takes `TRUE`.

### NftablesService

One step is one nft command; nft commits each atomically.  `pc[t]` is the kind
of command, `object[t]` what it names while `_ensure_layout` runs.  A command
may raise with or without effect (time limit, nonzero exit), and with
`Misreads` a `list` or `get` may exit nonzero although the object exists, which
`_exists` reads as absent.  `ProcessDies` ends all calls, `HostDies` the ruleset
too.  `call` and `answer` are kept until the thread's next call; `misread`
counts the looks that missed an object, which is where an unblock may answer
"ok" and leave the element: `AddressSet` has the same exception, `Overlook`.

### RequestLimits

A table is a function from its keys to `[count, until]`.  A handler reads the
clock and takes a copy of the table (`list(...items())`, `app.py:332`, `509`); the
keys that are over in the copy (`req[t].out`) are popped one at a time, whatever
their entries are by then; it looks its own key up, and refuses or goes on; it
measures the table, and if that is full chooses the first key and pops it; and it
writes its entry back.  Each of these is a step, and any step of another handler may
come between two of them.  The time a handler uses is the one it read first
(`req[t].at`), as in the code.  `login` verifies the password after the look-up;
the outcome is a choice.  Which entry a full table gives up is any, since the
order of insertion is left out.  When the table is empty by the time the first
key is asked for, or changes while it is, or the chosen key is gone, Python
raises and the handler ends without storing (`EvictionFails`, `app.py:340-341`,
`529-530`).

History: `failed` and `admitted` are what the entries should say, `revived` the
entries a handler found, lost and stored again.  `torn` holds the keys whose
entry was evicted, written over by a handler that had read an older one, or popped
by a purge that meant the entry before it (of the write limiter also: written or
popped while another handler of the client is under way, because an entry that is
purged and made anew is as absent as the one the other had looked for).  The code
really does lose an update, a block or a window then, and the properties say that it
does in no other case.

### ApiRecords

A request authenticates (session and role in one read), selects the row it
needs, and writes in one transaction with its audit row; others run in between.
One alert, one event and the rules of a set stand for all.  `audit` holds the
entries of a kind of action in order.  `wish` is what the last requests to name
a field asked for; `stale` are the tables written by a handler whose row, or whose
role, had changed since it read it.  `Fails` is any 500, which rolls back.

### EventTimes

A line has a style (`iso` with a date and a time, `syslog` without a year,
`other` with a date the code does not read, `none` without any), a form (which
pattern matches) and a user, and was written at some time.  `Read` parses a line
at the time it is, and may do so again.  One unit of time is what an event key
tells apart; `Tolerance` stands for the five minutes of `ssh_parser.py:84` (the
comment above that line says two hours).  `SetBack` is the end of summer time,
since the parser works with naive local times.  `Bad` is a user name, port or
address that a validator refuses.

### NetworkSamples

A round stamps itself (`RoundBegins`, `network_metrics.py:278-282`), reads the
counters of all devices (`ReadCounters`, 284), then the index of each
(`ReadIndexes`), and stores interfaces and samples (`RoundStored`), or fails or
dies half way; time may pass and a device be replugged before each of these.  The
stamp is cut to the second (`Stamp`), and it is that second a round is refused for
and a rate divides by: a round stamped at 10.9 and the next at 15.0 are 5 s
apart to the API, and one that waits between its stamp and the counters adds
what was carried while it waited to its rate and takes it from the next.  What is
kept of a round that ends early is nothing, or the rows up to a device for which a
detector had an event, whose write commits (`CutOff`).  `Stores(k)` is the loop over the devices as far
as the k-th, a recursive function whose step `StoredOne` finds or adds the row
of a device and appends its sample.  One counter stands for the eight.  `now` is
the time that passes, in moments of which a second has `Parts`, and `now + skew`
what the wall clock shows.  Each sample keeps, as history, when its round was
really stamped and its counters read, what the device had really carried then, how
often its counter was reset and by which run of the process.  `Rate` and
`Total` are the API's queries over the rows, asked in every state.

### Migrations

`executescript` first commits what is pending and then lets each statement
commit by itself; the INSERT of the version after it opens a transaction (and
takes the write lock) that the next `executescript` or the end of the `with`
block commits.  So `open[p]` is the version process `p` has inserted and not
committed.  A statement is `create` (IF NOT EXISTS), `alter` (ADD COLUMN, which
cannot be repeated) or `record` (a script that records itself, as 001 does).
`Duplicate` is SQLite refusing a statement, `Locked` the wait for another
writer running out, `Fails` any other error, `Die` the death of process or host.

### SSHCollector

One step is one thing another process or a failure can come between: opening
the log, comparing the saved position with the file's size, reading up to
`BatchSize` lines, the transaction of a batch, the two halves of writing the
cursor file (`write_text` empties it first), and the alert.  A line stands for
the event key the parser makes of it, so two failures with one key (same second,
address, port, user and reason) are one event, as in the code.  Positions count
half lines, since `readline` at the end of a file that is being written returns
half a line; neither half parses, because the patterns need the timestamp at the
start and `ssh2` at the end (a split exactly behind the `ssh2`, or exactly
before the word the pattern starts with, is left out).  `cursor` is what reading
the cursor file gives, 0 when it is missing or empty.  `files` keeps rotated
files because a round may still have one open.  The notifier is configured; a
deployment without one only takes `DeliverNothing`.

Three variables are history.  `sent` counts deliveries.  `origin` is the file
the saved position belongs to, which the code does not record.  `missed` holds
the lines the code passes over: those split by a read and, when a new file has
already grown past the old position, those before it.  The code does lose these
lines, and the properties are about all others.

`today` is the counter `log_sources.events_today`, which the code adds to and never
resets (see section 3); no property is about it.

`MaxLines` bounds the lines ever written, `MaxRotations` the rotations,
`MaxCrashes` the deaths, `MaxFaults` the errors.

### TrafficDetector

`det[i]` is the `InterfaceDetector` of interface `i`, `row[i]` the state of its
row in `traffic_alerts`, `turn` the interface the round is at and `event` what
`process` returned for it and `persist_detection` has not yet written.  A rate
is a small number; `Reaches` is the code's comparison with
`max(fixed, mean * ratio)`.  The two counters of consecutive samples are only
compared with their limits and stop there.  The cooldown is a set of interfaces
that an interface leaves at any time.  History: `judged`, the last rate and
verdict, and `apart`, the interfaces whose row a restart or a failed write set
apart from the state machine, until the next event is written.

Two things the code does are visible in the model and not hidden by it: from
`RESOLVED` no number of anomalous samples leads to `ALERT` (`SustainedRaises`
names the exception), and with the default thresholds of 0 an interface that
was idle during warm-up is anomalous at rate 0.

`MaxRestarts` and `MaxFaults` bound restarts and SQLite errors.

## 3. Runs

| Run | Instance | What it shows |
|---|---|---|
| `fw_serial` | one request at a time, two addresses, one of which attacks, a host and a subnet allowlist entry, two rows, two crashes, two errors a request | database, kernel, allowlist and attacker list agree whenever the API is quiet, but for an address whose compensation failed (`unrepaired`) or that was blocked before it was an attacker (`unseen`); every handler returns |
| `fw_concurrent` | two threads, one address, every request, two rows, one error a request, late effects, looks that miss an element | one active row per address, an expiry pass releases or marks each row it found, every row and every release is audited, the ledger is refined |
| `fw_denial` | a block of an allowlisted address | **violated**: the audit record of the refusal is rolled back |
| `nft_service` | two threads, both families, two faults or misreads, one death | undisturbed, the layout is complete whoever builds it and addresses are soon dropped; disturbed or not, the commands implement the atomic service |
| `nft_chain_hole` | one thread, one fault | **violated**: a chain without its rules is never repaired |
| `api_limits` | two threads, three names, two clients, two attempts and writes allowed, a table of one entry, five requests, three units of time | failures are counted, blocks stand and bursts are bounded unless handlers of a key overlap, or its entry is evicted or popped by a stale purge; tables are bounded |
| `api_records` | two threads, users and sessions, one rule, two channels, three requests | an administrator remains, no wish is taken back, dispositions form a chain, unless two requests overlap on the row; the audit trail tells the state whatever overlaps |
| `ssh_collect` | two keys of one attacker, three lines, batches of two, one rotation, one death, one error | an attacker's total is the number of its stored events, the cursor never runs ahead of the database, no event is alerted twice, every logged line not passed over is stored |
| `ssh_times` | years of four units, a tolerance of one, the clock set back once by two, two lines, two readings | when a stamp is wrong, a line refused, an event doubled or two attempts taken for one, and that this happens in no other case |
| `net_samples` | a loopback and two devices, two indexes, two moments a second and four in all, two incidents (clock set, replug, unreadable file, failed round, restart) | rates are about what was carried between the readings, over a time off by less than a second and what the rounds waited; totals at most that, no second is sampled twice by one process, skipped rounds are bounded |
| `atd_rounds` | two interfaces, two rates, window 3, warm-up 2, two samples to alert and to recover, one restart, one error | an open alert is followed by its state machine and closes; sustained samples raise the alarm; a spike stays anomalous |
| `migrate_runs` | two processes, a script that records itself, one that alters a table, one that can be repeated, one account name, two faults | recorded versions are in effect, runs that end well are complete, one account a name, repeating the command helps in all cases but one |

### Races the properties leave out

`fw_serial` relates database and kernel for requests served one at a time,
because overlapping ones can set them apart; nothing in the code prevents that:

- two blocks of an address pass the look for an active row (`app.py:804`) and add
  the element; one inserts its row, an unblock of that row deletes the element
  (`app.py:875`) and releases the row, and then the other block inserts its own: an
  active row without its element;
- a block that checked the allowlist (`app.py:801`) before an entry was added
  inserts its row after `add_allowlist` looked for active blocks: the address is
  allowlisted and blocked;
- a death between the firewall call and the insert (`app.py:810`) leaves an
  element no row mentions; the reconciliation (`app.py:437`) only adds elements;
- an unblock or a compensation whose look misses the element
  (`nftables.py:128`, any nonzero exit of nft reads as absent) leaves an element
  without an active row, which nothing in the code finds.  The other direction
  holds even so: `SyncedRowsEnforced` is proved for either value of `Misreads`.

Requests served one at a time leave four cases, which `fw_serial` reaches and
its properties except or state:

- the INSERT of a block fails and so does the unblock that should take its element
  back (`app.py:834-841`): an element no row mentions, until a call about the
  address succeeds (`unrepaired`);
- the UPDATE of an unblock fails and so does the block that should put the element
  back (`app.py:892`): an active row that claims to be synchronised without
  one, again until a call succeeds (`unrepaired`);
- an address blocked before the collector has seen it has no row among the
  attackers to update (`app.py:827`), and is inserted later as `observed`: it is
  blocked and not shown so (`unseen`);
- expiry releases a row without touching the attackers (`app.py:382`), so an
  address may go on being shown as blocked when it is not; `SyncedRowsEnforced`
  only says the converse.

`AdminRemains`, `WishesKept`, `DispositionChain`, `LockoutCounts`, `BlockStands`
and `BurstBounded` name the overlaps they except in a history variable, so they
still say of overlapping requests that the damage is confined to the row or key
concerned.  Of the limits, one such overlap needs no second handler of the key: a
handler of another key takes its copy of the table, stalls, and pops an
entry made meanwhile, which may be a block just set (`app.py:332-334`, `509-511`).

`EventuallyApplied` excepts one state, `Stuck`: migration 009 adds columns without
IF NOT EXISTS, and a fault between the first of these and the record of the version
has every later run refused (`009_nftables_audit.sql:2`).

### Where documents and code disagree

Besides the two violated runs, which `PROJECT.json` lists as findings:

- `log_sources.events_today` is "received today" in
  `docs/ARCHITECTURE_AND_UI.md:321`, "Total events parsed today" in
  `docs/P1_SSH_DETECTOR_DESIGN.md:49` and "Today Count" on the page
  (`frontend/src/main.ts:1580`).  The collector adds every new event to it
  (`ssh_collector.py:292`) and nothing sets it back when the date changes, so from the
  second day on it is the number of all events ever stored.  No step of the
  collector reads the date; `CountsMatch` is about the attackers' totals only.
- The comment at `app.py:812-813` says of a block that loses against another one
  of its address that it returns the other's record and removes "our element".
  It returns the record (`app.py:820`) and leaves the element.  The code is right:
  there is one element for the address, and the winner's row relies on it.
- The comment above `ssh_parser.py:84` says two hours where the code says five minutes.
- Nothing but requests and the startup calls `expire_blocks` (`app.py:382`), where
  `docs/MVP_IMPLEMENTATION.md:273` describes a timer every minute.

### Bounds

The handlers address rows by id or by address and compare addresses only for
equality and membership in a network: two addresses give a request about the
row, about another row and a network that covers one or both.  Two rows give a
loop with a next row and an address blocked again after its release.  Two crashes
reach a crash of the reconciliation that follows a crash.  In `nft_service`, two
threads suffice for one that builds the layout and one that finds it half built,
and one address per family for both sets.  In `api_limits`, a table of one entry
is full as soon as it is used, so that every handler that inserts meets an
eviction; three names let two evict each other around a third.  Five requests
block a name and ask for it again around an eviction, fill two windows and
ask for more, or do so around a handler that stalls with its copy of the table; a
handler that stalls for a whole window and stores after its entry was
made and purged anew takes six, and is left to the proof.  In
`api_records`, three requests are two that overlap and one that reads what they
left.  In `ssh_collect`, three lines in batches of two give a round with a full and
a partial batch, a line read again with one that is new, and a new file longer
or shorter than the saved position.  In `ssh_times`, a clock of six units turns
the year once, which is all that two readings of a line can tell apart.  In
`net_samples`, two incidents are a clock set back or a replug before a restart or
a failed round; two moments a second are the least that tell a stamp
from the time it was cut from, and four give stamps of three different seconds and a
round that waits from one into the next.  In `atd_rounds`, a rate of 2 after a baseline of 1 is a spike, and
normal once the window has grown with it; the second interface is the one a
failed round skips.  In `migrate_runs`, the second fault meets the run that
repeats what the first cut off.

Two runs have a VIEW, which leaves out what no step reads and none of the run's
properties mentions: in `fw_serial` the audit trail and `denied`; in `fw_concurrent` the
kernel, all history and the attackers' status (which only the collector's step
reads, and `Attackers` is empty there).  Symmetry is used only in runs without
liveness.  `api_limits`, `net_samples` and `ssh_times` do not check deadlock: their
behaviours end when the clock and the bounded inputs are used up.

### Fairness

`SecMonFirewall!Fairness` is weak fairness of each thread's steps and
of the process start: the thread pool runs every thread it started, every nft
call and every wait for SQLite has a time limit (5 s each), and systemd restarts
the process after a failure (`Restart=on-failure`).  `NftablesService!FairSpec`
is weak fairness of each call's next command.  `SSHCollector!FairSpec` is weak
fairness of the round, of the restart, and of completing a line or a rotation
that was begun; `TrafficDetector!FairSpec` adds that an interface read again and
again yields a rate again and again (strong fairness of `Judge`): counters are
only reset by a reboot or a reloaded driver.  That also assumes that an interface with an open
alert does not disappear for good: the alert of a removed one (a container's
veth) gets no more samples and stays open until somebody closes it by hand.  `Migrations!FairSpec` says that a
run goes on and that the operator repeats a command that ended; the latter is what
`EventuallyApplied` is about.  No other fairness is assumed of clients, and none
of time or of failures.

## 4. Proofs

All theorems hold for every value of the constants the modules' named
assumptions allow: any number of threads, addresses, rows, faults and so on, with
late effects or without, with looks that miss an element or without.

Two kinds of theorem carry a hypothesis of their own.  `OneWorker` (all threads
are the same) and `Serial` (`OneWorker`, and calls that fail fail without
effect; for `NoOrphans` also `Misreads = FALSE`) are the
conditions `fw_serial` is checked under, and section 3 gives the behaviours that break the properties without them; the
theorems keep every other constant free: addresses, attackers, allowlist, rows,
crashes, errors a request.

| Theorem | Statement | Argument |
|---|---|---|
| `SecMonFirewallProofs!TypeCorrect` | `Spec => []TypeOK` | `Inv`, the type invariant with `LocalsInv`: what the program counter says about the locals (an idle thread has none, an address step has a valid address, an update step holds a row). Without it, a thread could append a row about `NoIp` or release row 0. |
| `OneActive` | `Spec => []OneActiveRow` | `RowsChange`: every step keeps the rows, releases one or appends one about an address without an active row |
| `LedgerRefined` | `Spec => LedgerSpec` | the three cases of `RowsChange` are a stutter, `Close` and `Open` of `BlockLedger` |
| `HeldRow` | `Spec => []HeldRowMatches`: the row an unblock read before its firewall call is still about its address | `HeldChange` (how a thread's row changes) and `AddressStable` (rows keep id and address) |
| `LedgerAudit` | `Spec => []LedgerAudited` | `ChangesAudited`: in each of the cases of `RowsChange` the entry is written by the same step, and the trail only grows |
| `ExpiryAccounts` | `Spec => []ExpiryAccounted` | `Settled`: a row released or marked stays so for everybody; a loop passes a row only by settling it (`FetchedStep`) |
| `AllowlistKept` | `OneWorker` gives `Spec => []AllowlistRespected` | `AllowInv` adds to it, for the two handlers, what their look at the other table found |
| `SyncedEnforced`, `NoOrphans` | `Serial` gives `Spec => []SyncedRowsEnforced` and, without `Misreads`, `Spec => []NoOrphanElement` | `SerialInv`: what the running request knows of the rows and of the kernel at each step (`RowsKnown`, `KernelKnown`: before its INSERT a block has its element in the kernel and no active row, before its UPDATE an unblock holds a row still active, whose element is gone unless the look missed it), and the properties with the rows and addresses that are on their way excepted (`Unblocking`, `Blocking`), which a quiet state has none of. A row or an address is excepted for good only while `unrepaired` holds its address; `ShownInv` says the same of the attackers and `unseen`. |
| `NftablesServiceProofs!TypeCorrect`, `ObjectsThere` | `Spec => []TypeOK`, `Spec => []ObjectsExist`: what a command names exists | `OnItsWay` (which command belongs to which call) and `LaidOut` (what a call has found or added is there). `ObjectsExist` alone is not inductive: that the chain exists does not say that the sets do. |
| `Implements` | `Spec => AtomicSpec` | the same invariant; the last command of a call is `Succeed`, a fault `Fail`, a missed element `Overlook`, any other command a stutter |
| `QuietlyDropped` | `Spec => []QuietDropped` | `RulesFollow`: elements come after the chain, and as long as nothing was disturbed a chain has each of its rules or a call that is still to add it (`Pending`) |
| `RequestLimitsProofs!TablesStayBounded` | `Spec => []TablesBounded` | `Bounded`: entries and threads that have made room and not stored yet, together, stay under the limit. Counting entries alone is not inductive, since two such threads may store one after the other. |
| `LockoutExact`, `BlocksStand` | `Spec => []LockoutCounts`, `Spec => BlockStands` | `LoginInv`: `LockoutCounts` with what each running handler has read; if the entry is still what it read, its write adds one failure, else the name is torn. A purge takes only entries that are over, whose name starts anew, or tears the name |
| `BurstsBounded` | `Spec => []BurstBounded` | `WriteInv`: the admissions are in order and spread (`Ordered`, `Spread`), the entry counts those of its window (`Standing`), and without an entry the last window is over (`WindowBefore`). `OneMore` is the step: an admission either fits into the window or opens one after the last is over. The keys in `req[t].out` say nothing about the table as it is, so a purge is judged when it pops: an entry over by the handler's clock ends a window that is over, any other tears the client. |
| `ApiRecordsProofs!AdminStays` | `Spec => []AdminRemains` | `Checked`: a handler about to write a role serves an account other than its target |
| `ChainHolds` | `Spec => []DispositionChain` | `ChainInv`: the row is the last entry of the chain, so what a handler read, if it is still the row, continues it |
| `WishesStand` | `Spec => []WishesKept` | `WishInv`: a handler that overlaps with nobody writes over the row it read, so the fields it does not name keep the last wish |
| `TrailTells` | `Spec => []AuditTells` | `AuditInv`, on top of `ChainInv`: row and entry change in one step; a rule's entry is new because the rule is (`OneMoreEntry`) |
| `SSHCollectorProofs!AlertsUnique` | `Spec => []AlertedOnce` | `AlertInv`: an event is inserted in this round (`fresh`) or in an alert (`sent`), in all at most once, and then has its row. `AlertedOnce` alone is not inductive: an event that is sent and also waits in `fresh` would be sent again. |
| `CursorFollows` | `Spec => []CursorBehindStore` | `CursorInv`: the lines before a position are stored, without event or missed, wherever a position is kept: the cursor, the open file between storing and saving, and between reading and storing with the batch counted as stored (`BehindOrRead`). `Settled` is permanent, since files only gain lines. |
| `CountsExact` | `Spec => []CountsMatch` | `CountInv` adds that rows and batch are finite (a file has finitely many lines), so that the number of an attacker's rows grows by the number inserted |
| `SSHCollectorProofs!RereadSame` | `Spec => []RereadOnce` | `ReadsParse`: every reading holds what `Parse` makes of its line at its time; the rest is about `Stamp` and `Key` |
| `TimesHonest`, `KeysApart` | `Spec => []StampsHonest`, `Spec => []KeysTellApart` | `ReadsFollow` adds that a line is read after it was written unless the clock was set back; `YearsPass` and `StampRight` do the arithmetic of the year |
| `NetworkSamplesProofs!StallsEnd` | `Spec => []StallBounded` | `StallInv`: the time of the last round, less what the wall clock shows beyond the time that passed, is ahead of when that round was kept by at most what the clock was set back since, in moments; `Seconds` and `Moments` turn the cut stamp into less than one second more. That rounds are skipped follows from it only while the process is idle. |
| `RoundsStoredOnce` | `Spec => []SampledOnce` | `OnceInv`: every sample of this run is no later than the second the process remembers, and a round under way has a later one; samples of one second and one run are of different devices. `SampledOnce` alone is not inductive: it does not say that a new round finds no sample of its second. |
| `RatesCarried` | `Spec => []RatesHonest` | `CarriedInv` and `ClockInv`: `After(a, b)` says what two readings of a device tell of the bytes in between, with a reset or without. It holds of each sample and the device as it is now, of a sample and the round under way, and, unless the clock was set, of two samples in the order of their times, which `Previous` follows (`PreviousLast`). `Cut` says of each sample that its second is the one its round was stamped in, and `Stamped`, `Observes` what a round under way knows after each of its steps; the error of the seconds follows from two cuts and two waits. |
| `TotalsCarried` | `Spec => []TotalsHonest` | from `OnceInv`, the rows of the last second are of different devices; from `CarriedInv`, none shows more than its device carried; `SumCovered` adds up: summands each covered by one of others of its own are together covered by those |
| `TrafficDetectorProofs!OpenFollowed`, `Sustained` | `Spec => []OpenAlertFollowed`, `Spec => []SustainedRaises` | `Followed`, `Announced`, `Raised`: what an event not yet written says of the machine it came from; the lemmas on `Raise` and `Calm` are the table of the state machine |
| `SpikesPersist` | `Spec => SpikeStaysAnomalous` | `StillAnomalous`: the baseline still finds anomalous what it found so last, because an anomalous rate is not trained on; and a higher rate passes every threshold a lower one passes (`ReachesMore`). That needs `Sum` to be a number (`SumType`). |
| `MigrationsProofs!VersionsTell`, `DoneComplete` | `Spec => []VersionMeansApplied`, `Spec => []CompleteWhenDone` | `Standing`: of every process, all scripts before the one it is at are in effect, of that one the statements before its line, and all up to the version it has not committed. Objects and versions are never taken back, so no step of another process disturbs it. |
| `AdminsUnique` | `Spec => []AdminOnce` | `Counted`: accounts and their entries are written together, and an insert finds none of the name |

The type facts of the modules are conjuncts of these invariants (`Types`,
`Locals`, `LogTypes`, `ReadsParse`, `Machines`, `Tables`).

`BurstBounded` is where a proof corrected the model.  Its invariant failed for a
handler that stalls for a whole window: its client's entry is purged, another
request of the client makes a new one, that is purged too, and then the first
stores what it had counted.  The entry it had read was absent and is absent
again, so comparing the two did not notice the overlap, and the behaviour takes one
request more than the run makes.  `torn` now asks for overlapping handlers
(`Overlapped`).

`SumType` is about a recursive function, where the library's induction theorems
cannot be used because they take a predicate as parameter.  `UpTo` is induction
over a set instead: the intervals `0 .. k` are well-founded by inclusion
(`FS_StrictSubsetOrderingWellFounded`), so a set that holds 0 and successors has
no least number missing.  The proofs about `NetworkSamples` use it four times:
for the loop that stores a round (`StoresGrow`: after k devices the tables are
what they were, with samples of some of these devices, one of each, behind), for
the sum (`SumsUp`), for `SumCovered`, and for the last of the earlier samples
(`PreviousLast`).  That a recursive function exists at all is part of it: its
values up to k extend to k + 1.

The two specifications of `SSHCollectorProofs` share no variable; the parser's
names its own `ParserSpec`.

Only model-checked: liveness (`RequestsReturn`, `EventuallyDropped`,
`EventuallyStored`, `OpenAlertCloses`, `EventuallyApplied`) and `ENABLED`, which are
out of the prover's reach.  Every other property of the passing runs is a
theorem.

## 5. What could come next

A composition of
`SecMonFirewall` with the commands of `NftablesService` in place of the atomic
calls: today the two meet in `AddressSet`.  The maintenance command, whose steps
fail one by one.

## 6. Not modelled

- Lists, pages, counts and the range filter of the read-only routes, the attack
  report, the front end: SELECTs and formatting.
- The text patterns of the SSH parser, argon2 and JWT, the arithmetic of the
  eight counters, sockstat: data the properties do not tell apart.
- The log source registry (`services/log_sources.py`) and the configuration:
  single statements, and settings read once.
- The durability of SQLite and the file system: with `synchronous=NORMAL`
  (`ssh_collector.py:239`) a host that loses power may lose the last commits while
  the cursor file survives.
- That an overdue block is released without a client (see section 3).
- Maintenance, deployment, gate and push scripts and the test harnesses: straight
  sequences of commands run by hand, outside the running program.
