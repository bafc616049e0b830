---------------------------- MODULE NetworkSamples ----------------------------
(***************************************************************************)
(* NetworkMetricsCollector (backend/collectors/network_metrics.py) and the *)
(* queries of backend/app.py that derive rates and totals from what it     *)
(* stores.  A round takes the second the wall clock shows, reads the       *)
(* kernel's counters, then the index of each device, and writes one        *)
(* transaction, or more if a detector has an event to commit.  The clock   *)
(* may be set, the process restarted, a device replugged, its counters     *)
(* reset or unreadable, time may pass, and a query may run, between any    *)
(* two of these steps.  Time goes by in moments, of which a second has     *)
(* several.  What the detectors make of a round is in TrafficDetector; one *)
(* counter, rx_bytes, stands for all eight.                                *)
(***************************************************************************)
EXTENDS Integers, FiniteSets, Sequences, SequencesExt

CONSTANTS
    Devices,        \* names under /sys/class/net
    Loopback,       \* the device named lo
    Indexes,        \* values of ifindex
    Null,           \* Python's None and SQL's NULL
    Detecting,      \* atd_b_enabled
    Parts,          \* moments in a second
    MaxTime,        \* bound: the moments that pass
    MaxTraffic,     \* bound: the bytes a device carries in a moment
    MaxIncidents    \* bound: times the clock is set (by a moment), a device
                    \* replugged, a read or a transaction fails, or the process
                    \* is restarted

ASSUME NullAssumption == Null \notin Indexes \union Int
ASSUME DevicesAssumption == IsFiniteSet(Devices) /\ Loopback \in Devices
ASSUME IndexesAssumption == Indexes # {}
ASSUME DetectingAssumption == Detecting \in BOOLEAN
ASSUME PartsAssumption == Parts \in Nat \ {0}
ASSUME BoundsAssumption == {MaxTime, MaxTraffic, MaxIncidents} \subseteq Nat

VARIABLES
    now,            \* moments passed, which no clock of the program shows
    skew,           \* what the wall clock shows beyond that
    device,         \* the kernel's: [index, rx], and as history the bytes
                    \* carried and the resets
    lastAt,         \* _last_sampled_at, forgotten by a restart
    pc,             \* the collector: "idle" or the next step of its round
    round,          \* the round's stamp, what it observed and, as history, the
                    \* moments of its stamp and of its counters
    interfaces,     \* rows of network_interfaces, in the order of their ids
    samples,        \* rows of network_samples, likewise
    incidents,
    clockSet,       \* history: was the clock set?
    restarts,       \* history: restarts of the process
    keptAt,         \* history: when the last round was kept that this process
                    \* remembers, in moments passed
    setBack         \* history: moments the clock was set back since then

clock == <<now, skew>>
store == <<interfaces, samples>>
counts == <<incidents, clockSet, restarts>>
stalls == <<keptAt, setBack>>
vars == <<clock, device, lastAt, pc, round, store, counts, stalls>>

Wall == now + skew

\* datetime.now(UTC).replace(microsecond=0)
Stamp == Wall \div Parts

\* Rows are told apart by name and index: devices may start with the same one.
FirstIndex == CHOOSE i \in Indexes : TRUE
NoRound == [at |-> 0, stamped |-> 0, read |-> 0, counters |-> <<>>]

Init ==
    /\ now = 1 /\ skew = 0
    /\ device = [d \in Devices |->
                   [index |-> FirstIndex, rx |-> 0, carried |-> 0, resets |-> 0]]
    /\ lastAt = Null
    /\ pc = "idle"
    /\ round = NoRound
    /\ interfaces = <<>> /\ samples = <<>>
    /\ incidents = 0 /\ clockSet = FALSE /\ restarts = 0
    /\ keptAt = 0 /\ setBack = 0

----------------------------------------------------------------------------
(* The host *)

Incident == incidents < MaxIncidents /\ incidents' = incidents + 1

Carry(d, bytes) == [d EXCEPT !.rx = @ + bytes, !.carried = @ + bytes]

\* A moment passes and the devices carry something.
Tick ==
    /\ now < MaxTime
    /\ now' = now + 1
    /\ \E bytes \in 0..MaxTraffic :
        device' = [d \in Devices |-> IF d = Loopback THEN device[d]
                                     ELSE Carry(device[d], bytes)]
    /\ UNCHANGED <<skew, lastAt, pc, round, store, counts, stalls>>

SetClock ==
    /\ Incident
    /\ clockSet' = TRUE
    /\ \E by \in {-1, 1} :
        /\ skew' = skew + by
        /\ setBack' = IF by < 0 THEN setBack + 1 ELSE setBack
    /\ UNCHANGED <<now, device, lastAt, pc, round, store,
                   restarts, keptAt>>

\* A device starts to count from zero, under its index or another.
Replug ==
    /\ Incident
    /\ \E d \in Devices \ {Loopback}, i \in Indexes :
        device' = [device EXCEPT ![d].index = i, ![d].rx = 0, ![d].resets = @ + 1]
    /\ UNCHANGED <<clock, lastAt, pc, round, store,
                   clockSet, restarts, stalls>>

----------------------------------------------------------------------------
(* The collector *)

\* Mutant: only earlier seconds are refused.
Duplicate_Earlier(at) == lastAt # Null /\ at < lastAt

\* Mutant: a full second must lie between two rounds.
Duplicate_Apart(at) == lastAt # Null /\ at <= lastAt + 1

Duplicate(at) == lastAt # Null /\ at <= lastAt

\* The guard against a second round in the same second.  A round that is
\* skipped changes nothing.
RoundBegins ==
    /\ pc = "idle"
    /\ ~Duplicate(Stamp)
    /\ lastAt' = Stamp
    /\ round' = [at |-> Stamp, stamped |-> now, read |-> now, counters |-> <<>>]
    /\ pc' = "counters"
    /\ keptAt' = now /\ setBack' = 0
    /\ UNCHANGED <<clock, device, store, counts>>

\* Reads of some devices may fail; what was not read is None.
Unread(devices) ==
    /\ devices \subseteq Devices \ {Loopback}
    /\ IF devices = {} THEN UNCHANGED incidents ELSE Incident

Observed(d, rx) ==
    [name |-> d, index |-> Null, rx |-> rx,
     carried |-> device[d].carried, resets |-> device[d].resets]

\* /proc/net/dev, one file with the counters of all devices: it, or some lines
\* of it, may be missing or malformed.
ReadCounters ==
    /\ pc = "counters"
    /\ \E devices \in SUBSET Devices :
        /\ Unread(devices)
        /\ round' = [round EXCEPT
             !.read = now,
             !.counters = [d \in Devices |->
               Observed(d, IF d \in devices THEN Null ELSE device[d].rx)]]
    /\ pc' = "indexes"
    /\ UNCHANGED <<clock, device, lastAt, store, clockSet, restarts, stalls>>

\* /sys/class/net/<name>/ifindex, one file after the other: a device may have
\* been replugged since its counters were read.
ReadIndexes ==
    /\ pc = "indexes"
    /\ \E devices \in SUBSET Devices :
        /\ Unread(devices)
        /\ round' = [round EXCEPT
             !.counters = [d \in Devices |->
               [@[d] EXCEPT !.index = IF d \in devices THEN Null
                                      ELSE device[d].index]]]
    /\ pc' = "persist"
    /\ UNCHANGED <<clock, device, lastAt, store, clockSet, restarts, stalls>>

\* name = ? AND ifindex IS ?
SameInterface(row, o) == row.name = o.name /\ row.index = o.index

\* _upsert_interface
Upsert(rows, o) ==
    IF \E i \in DOMAIN rows : SameInterface(rows[i], o) THEN rows
    ELSE Append(rows, [name |-> o.name, index |-> o.index])

IdOf(rows, o) == CHOOSE i \in DOMAIN rows : rows[i] = [name |-> o.name, index |-> o.index]

\* sorted(iterdir()); no property tells one order from another.
Sorted == SetToSeq(Devices)

\* A device's row and, but for the loopback device, its sample.
StoredOne(db, o) ==
    LET rows == Upsert(db.interfaces, o)
        sample == [interface |-> IdOf(rows, o), at |-> round.at, rx |-> o.rx,
                   stamped |-> round.stamped, read |-> round.read,
                   carried |-> o.carried, resets |-> o.resets, run |-> restarts]
    IN  [interfaces |-> rows,
         samples |-> IF o.name = Loopback THEN db.samples
                     ELSE Append(db.samples, sample)]

\* The rows about the first k devices.
Stores(k) ==
    LET stored[n \in 0..k] ==
          IF n = 0 THEN [interfaces |-> interfaces, samples |-> samples]
          ELSE StoredOne(stored[n - 1], round.counters[Sorted[n]])
    IN  /\ interfaces' = stored[k].interfaces
        /\ samples' = stored[k].samples

RoundStored ==
    /\ pc = "persist"
    /\ Stores(Len(Sorted))
    /\ pc' = "idle"
    /\ round' = NoRound
    /\ UNCHANGED <<clock, device, lastAt, counts, stalls>>

\* What is rolled back when a round ends early: all of it, or what follows the
\* last device about which a detector had an event, which commits.
CutOff == \/ UNCHANGED store
          \/ /\ Detecting /\ pc = "persist"
             /\ \E k \in DOMAIN Sorted : Sorted[k] # Loopback /\ Stores(k)

\* The database stays locked for all attempts to open it, or a statement fails.
\* The second the round was stamped with is used up.
RoundLost ==
    /\ pc = "persist"
    /\ Incident
    /\ CutOff
    /\ pc' = "idle"
    /\ round' = NoRound
    /\ UNCHANGED <<clock, device, lastAt, clockSet, restarts, stalls>>

\* The process is restarted, in the middle of a round or between two.
Restart ==
    /\ Incident
    /\ CutOff
    /\ restarts' = restarts + 1
    /\ lastAt' = Null
    /\ pc' = "idle"
    /\ round' = NoRound
    /\ keptAt' = now /\ setBack' = 0
    /\ UNCHANGED <<clock, device, clockSet>>

----------------------------------------------------------------------------
(* The queries *)

\* Mutant: the last sample of each interface.
TotalRows_PerInterface ==
    {i \in DOMAIN samples :
        \A j \in DOMAIN samples :
            samples[j].interface = samples[i].interface => samples[j].at <= samples[i].at}

\* network_overview: WHERE sampled_at = (SELECT MAX(sampled_at) ...)
TotalRows ==
    {i \in DOMAIN samples : \A j \in DOMAIN samples : samples[j].at <= samples[i].at}

Sum(values) ==
    LET upTo[n \in 0..Len(values)] == IF n = 0 THEN 0 ELSE upTo[n - 1] + values[n]
    IN  upTo[Len(values)]

\* COALESCE(SUM(rx_bytes), 0), which passes over NULL
Total == Sum([i \in 1..Len(samples) |->
                IF i \in TotalRows /\ samples[i].rx # Null THEN samples[i].rx ELSE 0])

\* traffic-series: the samples of the same interface with an earlier time.
Before(i) ==
    {j \in DOMAIN samples : /\ samples[j].interface = samples[i].interface
                            /\ samples[j].at < samples[i].at}

\* ORDER BY sampled_at DESC, id DESC LIMIT 1
Previous(i) ==
    CHOOSE j \in Before(i) :
        \A k \in Before(i) : \/ samples[k].at < samples[j].at
                             \/ samples[k].at = samples[j].at /\ k <= j

\* Mutant: the sign of the difference is dropped.
Delta_Absolute(current, prev) == IF current < prev THEN prev - current ELSE current - prev

Delta(current, prev) == current - prev

\* _derive_rates: bytes over seconds, or null.
Rate(i) ==
    IF Before(i) = {} THEN Null
    ELSE LET current == samples[i]
             prev    == samples[Previous(i)]
         IN  IF Null \in {current.rx, prev.rx} THEN Null
             ELSE IF Delta(current.rx, prev.rx) < 0 THEN Null
             ELSE [bytes |-> Delta(current.rx, prev.rx), seconds |-> current.at - prev.at]

----------------------------------------------------------------------------

Next == \/ Tick \/ SetClock \/ Replug \/ Restart
        \/ RoundBegins \/ ReadCounters \/ ReadIndexes \/ RoundStored \/ RoundLost

Spec == Init /\ [][Next]_vars

----------------------------------------------------------------------------
(* Properties.                                                             *)

\* A rate that is served is never about more bytes than the device carried
\* between the two readings, and about exactly those when its counter was not
\* reset in between: over rounds that failed, restarts, devices that come and go
\* and files that cannot be read, as long as nobody sets the clock
\* (app.py:206-244, 1227-1235).  Its seconds are off by less than one, as the
\* stamps are cut to whole seconds (network_metrics.py:278), and by what each of
\* the rounds waited between its stamp and its counters.
RatesHonest ==
    ~clockSet =>
        \A i \in DOMAIN samples :
            Rate(i) # Null =>
                LET prev    == samples[Previous(i)]
                    carried == samples[i].carried - prev.carried
                    apart   == samples[i].read - prev.read
                    waited  == samples[i].read - samples[i].stamped
                    before  == prev.read - prev.stamped
                    seconds == Rate(i).seconds * Parts
                IN  /\ Rate(i).bytes <= carried
                    /\ samples[i].resets = prev.resets => Rate(i).bytes = carried
                    /\ apart - waited - Parts < seconds
                    /\ seconds < apart + before + Parts

\* Two samples of an interface have the same time only when the process was
\* restarted between them, however often the clock was set back: totals of the
\* latest second count no round twice (network_metrics.py:278-281).  And a
\* device is one interface for each index it was seen under, also without one:
\* the UNIQUE constraint does not hold NULLs apart (network_metrics.py:228-233).
SampledOnce ==
    /\ \A i, j \in DOMAIN samples :
        i # j /\ samples[i].interface = samples[j].interface
              /\ samples[i].at = samples[j].at => samples[i].run # samples[j].run
    /\ IsInjective(interfaces)

\* The price of that guard: rounds are skipped for less than a second beyond
\* what the clock was set back since the last one (network_metrics.py:278-281).
StallBounded ==
    pc = "idle" /\ Duplicate(Stamp) => now - keptAt < setBack + Parts

\* The totals the overview shows are never more than the host has carried: a
\* device that is replugged, or whose index could not be read, counts once.  The
\* exception is a second in which the process was restarted (app.py:1119-1126).
TotalsHonest ==
    (\A i, j \in TotalRows : samples[i].run = samples[j].run)
      => Total <= Sum([k \in 1..Len(Sorted) |-> device[Sorted[k]].carried])
=============================================================================
