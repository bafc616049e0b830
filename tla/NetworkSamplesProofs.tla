------------------------- MODULE NetworkSamplesProofs -------------------------
(***************************************************************************)
(* Proofs about NetworkSamples: how long the guard against a second round  *)
(* in the same second skips rounds, that no round is stored twice, and     *)
(* that the rates and totals the API derives are what the devices carried. *)
(***************************************************************************)
EXTENDS NetworkSamples, TLAPS, FiniteSetTheorems, WellFoundedInduction

----------------------------------------------------------------------------
(* Seconds and moments.                                                    *)

\* A stamp is the second that has begun last.
LEMMA Seconds ==
    ASSUME NEW x \in Int
    PROVE  /\ x \div Parts \in Int
           /\ (x \div Parts) * Parts <= x
           /\ x < (x \div Parts) * Parts + Parts
  BY PartsAssumption

\* Seconds are as far apart as their first moments.
LEMMA Moments ==
    ASSUME NEW a \in Int, NEW b \in Int
    PROVE  /\ a * Parts \in Int
           /\ a <= b => a * Parts <= b * Parts
           /\ a < b => a * Parts + Parts <= b * Parts
           /\ (a - b) * Parts = a * Parts - b * Parts
  BY PartsAssumption

----------------------------------------------------------------------------
(* Skipped rounds.                                                         *)

\* Whenever the process remembers a round, the wall clock has lost on that
\* round's time no more than it was set back since.
StallInv ==
    /\ now \in Int /\ skew \in Int /\ keptAt \in Int /\ setBack \in Int
    /\ lastAt # Null => lastAt \in Int /\ lastAt * Parts - keptAt - skew <= setBack

\* Only a turn of the clock and a new round change what it relates.
LEMMA StallStep == ASSUME StallInv, [Next]_vars PROVE StallInv'
<1>1. CASE Tick
  BY <1>1 DEF Tick, StallInv, stalls
<1>2. CASE SetClock
  <2>1. PICK by \in {-1, 1} :
          /\ skew' = skew + by
          /\ setBack' = IF by < 0 THEN setBack + 1 ELSE setBack
    BY <1>2 DEF SetClock
  <2>2. UNCHANGED <<now, lastAt, keptAt>>
    BY <1>2 DEF SetClock
  <2>3. lastAt # Null => lastAt * Parts \in Int
    BY Moments DEF StallInv
  <2> DEFINE kept == lastAt * Parts
  <2>4. StallInv => (lastAt # Null => lastAt \in Int /\ kept - keptAt - skew <= setBack)
    BY DEF StallInv
  <2>5. lastAt' # Null => lastAt' \in Int /\ kept - keptAt' - skew' <= setBack'
    <3> HIDE DEF kept
    <3>1. CASE by = -1
      BY <2>1, <2>2, <2>3, <2>4, <3>1 DEF StallInv, kept
    <3>2. CASE by = 1
      BY <2>1, <2>2, <2>3, <2>4, <3>2 DEF StallInv, kept
    <3> QED
      BY <3>1, <3>2
  <2>6. /\ now' \in Int /\ skew' \in Int /\ keptAt' \in Int /\ setBack' \in Int
        /\ lastAt' = lastAt
    BY <2>1, <2>2 DEF StallInv
  <2> QED
    BY <2>5, <2>6 DEF StallInv
<1>3. CASE Replug
  BY <1>3 DEF Replug, StallInv, stalls, clock
<1>4. CASE Restart
  BY <1>4 DEF Restart, StallInv, clock
<1>5. CASE RoundBegins
  <2>1. Stamp \in Int /\ Stamp * Parts <= now + skew
    BY Seconds DEF StallInv, Stamp, Wall
  <2>2. Stamp * Parts \in Int
    BY <2>1, Moments
  <2>3. /\ lastAt' = Stamp /\ keptAt' = now /\ setBack' = 0
        /\ UNCHANGED <<now, skew>>
    BY <1>5 DEF RoundBegins, clock
  <2> HIDE DEF Stamp
  <2> QED
    BY <2>1, <2>2, <2>3 DEF StallInv
<1>6. CASE ReadCounters \/ ReadIndexes \/ RoundStored \/ RoundLost
  BY <1>6 DEF ReadCounters, ReadIndexes, RoundStored, RoundLost, StallInv, clock, stalls
<1>7. CASE UNCHANGED vars
  BY <1>7 DEF vars, StallInv, clock, stalls
<1> QED
  BY <1>1, <1>2, <1>3, <1>4, <1>5, <1>6, <1>7 DEF Next

\* For any devices, traffic and turns of the clock: rounds are skipped for less
\* than a second beyond what the clock was set back since the last one
\* (network_metrics.py:278-281).
THEOREM StallsEnd == Spec => []StallBounded
<1>1. Init => StallInv
  BY DEF Init, StallInv
<1>2. StallInv /\ [Next]_vars => StallInv'
  BY StallStep
<1>3. StallInv => StallBounded
  <2> SUFFICES ASSUME StallInv, Duplicate(Stamp)
               PROVE  now - keptAt < setBack + Parts
    BY DEF StallBounded
  <2>1. Stamp \in Int /\ now + skew < Stamp * Parts + Parts
    BY Seconds DEF StallInv, Stamp, Wall
  <2>2. lastAt \in Int /\ Stamp <= lastAt /\ lastAt * Parts - keptAt - skew <= setBack
    BY DEF StallInv, Duplicate
  <2>3. Stamp * Parts \in Int /\ lastAt * Parts \in Int /\ Stamp * Parts <= lastAt * Parts
    BY <2>1, <2>2, Moments
  <2> QED
    BY <2>1, <2>2, <2>3, PartsAssumption DEF StallInv
<1> QED
  BY <1>1, <1>2, <1>3, PTL DEF Spec

----------------------------------------------------------------------------
(* Induction up to a number.                                               *)

\* A set that holds 0 and, with a number below n, its successor holds n: the
\* intervals 0 .. k are well-founded by inclusion, so a smallest k outside the
\* set would exist.
LEMMA UpTo ==
    ASSUME NEW n \in Nat, NEW S, 0 \in S,
           \A k \in S : k \in 0 .. n /\ k # n => k + 1 \in S
    PROVE  n \in S
<1> DEFINE U == 0 .. n
           R == StrictSubsetOrdering(U)
           T == {0 .. k : k \in U \ S}
<1>1. SUFFICES ASSUME n \notin S PROVE FALSE
  OBVIOUS
<1>2. IsFiniteSet(U)
  BY FS_Interval
<1>3. T \subseteq FiniteSubsetsOf(U)
  <2>1. FiniteSubsetsOf(U) = SUBSET U
    BY <1>2, FS_FiniteSubsetsOfFinite
  <2>2. \A k \in U : 0 .. k \in SUBSET U
    OBVIOUS
  <2> QED
    BY <2>1, <2>2
<1>4. T # {}
  BY <1>1
<1>5. IsWellFoundedOn(R, FiniteSubsetsOf(U))
  BY FS_StrictSubsetOrderingWellFounded
<1> HIDE DEF T, R
<1>6. \E x \in T : \A y \in T : ~ (<<y, x>> \in R)
  BY <1>3, <1>4, <1>5, WFMin
<1>7. PICK k \in U \ S : \A y \in T : <<y, 0 .. k>> \notin R
  BY <1>6 DEF T
<1>8. k - 1 \in U /\ (k - 1) + 1 = k /\ k - 1 # n
  BY <1>7
<1>9. k - 1 \notin S
  BY <1>7, <1>8
<1>10. 0 .. (k - 1) \in T
  BY <1>8, <1>9 DEF T
<1>11. <<0 .. (k - 1), 0 .. k>> \in R
  <2>1. 0 .. (k - 1) \in SUBSET U /\ 0 .. k \in SUBSET U
    BY <1>7, <1>8
  <2>2. k \in 0 .. k /\ k \notin 0 .. (k - 1)
    BY <1>7
  <2>3. 0 .. (k - 1) \subseteq 0 .. k
    BY <1>7
  <2> QED
    BY <2>1, <2>2, <2>3 DEF R, StrictSubsetOrdering
<1> QED
  BY <1>7, <1>10, <1>11

----------------------------------------------------------------------------
(* What a round stores.                                                    *)

Row == [name: Devices, index: Indexes \union {Null}]
Sample == [interface: Nat, at: Int, rx: Nat \union {Null}, stamped: Int,
           read: Int, carried: Nat, resets: Nat, run: Nat]
Observation == [name: Devices, index: Indexes \union {Null}, rx: Nat \union {Null},
                carried: Nat, resets: Nat]
RowOf(o) == [name |-> o.name, index |-> o.index]

\* Rows are of distinct interfaces and samples of interfaces that have a row.
Tables(rows, rounds) ==
    /\ rows \in Seq(Row) /\ rounds \in Seq(Sample)
    /\ \A i, j \in 1 .. Len(rows) : rows[i] = rows[j] => i = j
    /\ \A i \in 1 .. Len(rounds) : rounds[i].interface \in 1 .. Len(rows)

NameOf(rows, sample) == rows[sample.interface].name

\* The sample of an observation of this round.
SampleOf(sample, o, rows) ==
    /\ sample.at = round.at /\ sample.stamped = round.stamped
    /\ sample.read = round.read /\ sample.run = restarts
    /\ sample.rx = o.rx /\ sample.carried = o.carried /\ sample.resets = o.resets
    /\ rows[sample.interface] = RowOf(o)

\* The tables with samples of some of the first k devices, one of each, behind
\* what they held.
Grown(k, rows, rounds) ==
    /\ Tables(rows, rounds)
    /\ Len(interfaces) <= Len(rows)
    /\ \A i \in 1 .. Len(interfaces) : rows[i] = interfaces[i]
    /\ Len(samples) <= Len(rounds)
    /\ \A i \in 1 .. Len(samples) : rounds[i] = samples[i]
    /\ \A i \in (Len(samples) + 1) .. Len(rounds) :
        \E n \in 1 .. k : SampleOf(rounds[i], round.counters[Sorted[n]], rows)
    /\ \A i, j \in (Len(samples) + 1) .. Len(rounds) :
        i # j => NameOf(rows, rounds[i]) # NameOf(rows, rounds[j])

\* A round that has begun has its stamp.
Stamped ==
    /\ round = [at |-> round.at, stamped |-> round.stamped, read |-> round.read,
                counters |-> round.counters]
    /\ round.at \in Int /\ round.stamped \in Int /\ round.read \in Int

\* What a round has observed, a record for each device.
Observing ==
    /\ Stamped /\ restarts \in Nat
    /\ round.counters \in [Devices -> Observation]
    /\ \A d \in Devices : round.counters[d].name = d

\* Sorted lists every device, and none twice.
LEMMA SortedDevices ==
    /\ Sorted \in Seq(Devices) /\ Len(Sorted) \in Nat
    /\ \A i, j \in 1 .. Len(Sorted) : Sorted[i] = Sorted[j] => i = j
    /\ \A d \in Devices : \E i \in 1 .. Len(Sorted) : Sorted[i] = d
<1> DEFINE n == Cardinality(Devices)
<1>1. n \in Nat /\ ExistsBijection(1 .. n, Devices)
  BY DevicesAssumption, FS_CardinalityType
<1>2. \E f \in [1 .. n -> Devices] : IsInjective(f)
  BY <1>1 DEF ExistsBijection, Bijection, Injection
<1>3. Sorted \in [1 .. n -> Devices] /\ IsInjective(Sorted)
  BY <1>2 DEF Sorted, SetToSeq
<1>4. Sorted \in Injection(1 .. n, Devices)
  BY <1>3 DEF Injection
<1>5. Cardinality(1 .. n) = n
  BY <1>1, FS_Interval
<1>6. Sorted \in Surjection(1 .. n, Devices)
  BY <1>4, <1>5, DevicesAssumption, FS_Injection
<1> HIDE DEF n
<1>7. Sorted \in Seq(Devices) /\ Len(Sorted) = n
  BY <1>1, <1>3
<1> QED
  BY <1>1, <1>3, <1>6, <1>7 DEF Surjection, IsInjective

\* _upsert_interface finds the row of the interface or adds one.
LEMMA Upserted ==
    ASSUME NEW rows \in Seq(Row), NEW o \in Observation,
           \A i, j \in 1 .. Len(rows) : rows[i] = rows[j] => i = j,
           NEW after, after = Upsert(rows, o),
           NEW id, id = IdOf(after, o)
    PROVE  /\ after \in Seq(Row)
           /\ \A i, j \in 1 .. Len(after) : after[i] = after[j] => i = j
           /\ Len(rows) <= Len(after)
           /\ \A i \in 1 .. Len(rows) : after[i] = rows[i]
           /\ id \in 1 .. Len(after) /\ after[id] = RowOf(o)
<1> DEFINE new == RowOf(o)
<1>1. new \in Row
  BY DEF Row, Observation, RowOf
<1>2. ASSUME NEW i \in 1 .. Len(rows)
      PROVE  SameInterface(rows[i], o) <=> rows[i] = new
  <2>1. rows[i] \in Row
    OBVIOUS
  <2> QED
    BY <2>1 DEF Row, RowOf, SameInterface
<1>3. /\ after \in Seq(Row)
      /\ \A i, j \in 1 .. Len(after) : after[i] = after[j] => i = j
      /\ Len(rows) <= Len(after)
      /\ \A i \in 1 .. Len(rows) : after[i] = rows[i]
      /\ \E i \in 1 .. Len(after) : after[i] = new
  <2>0. Len(rows) \in Nat /\ DOMAIN rows = 1 .. Len(rows)
    OBVIOUS
  <2>1. CASE \E i \in DOMAIN rows : SameInterface(rows[i], o)
    <3>1. after = rows
      BY <2>1 DEF Upsert
    <3>2. \E i \in 1 .. Len(rows) : rows[i] = new
      BY <1>2, <2>0, <2>1
    <3> HIDE DEF new
    <3> QED
      BY <2>0, <3>1, <3>2
  <2>2. CASE ~ \E i \in DOMAIN rows : SameInterface(rows[i], o)
    <3>1. after = Append(rows, new)
      BY <2>2 DEF Upsert, RowOf
    <3>2. \A i \in 1 .. Len(rows) : rows[i] # new
      BY <1>2, <2>0, <2>2
    <3> HIDE DEF new
    <3>3. /\ after \in Seq(Row) /\ Len(after) = Len(rows) + 1
          /\ \A i \in 1 .. Len(rows) : after[i] = rows[i]
          /\ after[Len(rows) + 1] = new
      BY <1>1, <2>0, <3>1
    <3> QED
      BY <2>0, <3>2, <3>3
  <2> QED
    BY <2>1, <2>2
<1>4. id \in 1 .. Len(after) /\ after[id] = new
  <2>1. \E i \in DOMAIN after : after[i] = new
    BY <1>3
  <2>2. id \in DOMAIN after /\ after[id] = new
    BY <2>1 DEF IdOf, RowOf
  <2> QED
    BY <1>3, <2>2
<1> QED
  BY <1>3, <1>4

\* One more device: its row is found or added and, unless it is the loopback
\* device, its sample appended.
LEMMA OneMoreStored ==
    ASSUME Observing, NEW k \in 0 .. Len(Sorted), k # Len(Sorted),
           NEW db, Grown(k, db.interfaces, db.samples),
           Len(interfaces) \in Nat, Len(samples) \in Nat
    PROVE  LET next == StoredOne(db, round.counters[Sorted[k + 1]])
           IN  Grown(k + 1, next.interfaces, next.samples)
<1> DEFINE d     == Sorted[k + 1]
           o     == round.counters[d]
           next  == StoredOne(db, o)
           rows  == db.interfaces
           smps  == db.samples
           after == Upsert(rows, o)
           id    == IdOf(after, o)
           new   == [interface |-> id, at |-> round.at, rx |-> o.rx,
                     stamped |-> round.stamped, read |-> round.read,
                     carried |-> o.carried, resets |-> o.resets, run |-> restarts]
<1>1. k \in Nat /\ k + 1 \in 1 .. Len(Sorted) /\ Len(Sorted) \in Nat
  BY SortedDevices
<1>2. d \in Devices /\ o \in Observation /\ o.name = d
  BY <1>1, SortedDevices DEF Observing
<1>3. /\ next.interfaces = after
      /\ next.samples = IF o.name = Loopback THEN smps ELSE Append(smps, new)
  BY DEF StoredOne
<1>4. Grown(k, rows, smps) /\ Tables(rows, smps)
  BY DEF Grown
<1>5. /\ after \in Seq(Row)
      /\ \A i, j \in 1 .. Len(after) : after[i] = after[j] => i = j
      /\ Len(rows) <= Len(after)
      /\ \A i \in 1 .. Len(rows) : after[i] = rows[i]
      /\ id \in 1 .. Len(after) /\ after[id] = RowOf(o)
  <2>1. /\ rows \in Seq(Row)
        /\ \A i, j \in 1 .. Len(rows) : rows[i] = rows[j] => i = j
    BY <1>4 DEF Tables
  <2> HIDE DEF rows, o
  <2> QED
    BY <1>2, <2>1, Upserted
<1>6. new \in Sample
  <2>1. id \in Nat
    BY <1>5
  <2> HIDE DEF id
  <2> QED
    BY <1>2, <2>1 DEF Observing, Stamped, Observation, Sample
<1>7. SampleOf(new, o, after)
  BY <1>5 DEF SampleOf
<1>8. new.interface = id
  OBVIOUS
<1> HIDE DEF o, d, after, id, new, next, rows, smps
<1>9. /\ rows \in Seq(Row) /\ smps \in Seq(Sample)
      /\ Len(rows) \in Nat /\ Len(smps) \in Nat /\ Len(after) \in Nat
      /\ \A i \in 1 .. Len(smps) : smps[i] \in Sample /\ smps[i].interface \in 1 .. Len(rows)
  BY <1>4, <1>5 DEF Tables
<1>10. Len(interfaces) <= Len(after) /\ \A i \in 1 .. Len(interfaces) : after[i] = interfaces[i]
  BY <1>4, <1>5, <1>9 DEF Grown
\* What was there keeps its interface.
<1>11. ASSUME NEW i \in 1 .. Len(smps)
       PROVE  /\ smps[i].interface \in 1 .. Len(after)
              /\ after[smps[i].interface] = rows[smps[i].interface]
              /\ NameOf(after, smps[i]) = NameOf(rows, smps[i])
  BY <1>5, <1>9 DEF NameOf
<1>12. ASSUME NEW i \in (Len(samples) + 1) .. Len(smps)
       PROVE  /\ i \in 1 .. Len(smps)
              /\ \E n \in 1 .. k : SampleOf(smps[i], round.counters[Sorted[n]], after)
              /\ NameOf(after, smps[i]) # d
  <2>1. i \in 1 .. Len(smps)
    BY <1>9
  <2>2. PICK n \in 1 .. k : SampleOf(smps[i], round.counters[Sorted[n]], rows)
    BY <1>4 DEF Grown
  <2>3. SampleOf(smps[i], round.counters[Sorted[n]], after)
    BY <1>11, <2>1, <2>2 DEF SampleOf
  <2>4. n \in 1 .. Len(Sorted) /\ n # k + 1
    BY <1>1
  <2>5. Sorted[n] \in Devices /\ Sorted[n] # d
    BY <1>1, <2>4, SortedDevices DEF d
  <2>6. NameOf(after, smps[i]) = Sorted[n]
    BY <2>3, <2>5 DEF SampleOf, NameOf, RowOf, Observing
  <2> QED
    BY <2>1, <2>3, <2>5, <2>6
<1>13. \A i, j \in (Len(samples) + 1) .. Len(smps) :
          i # j => NameOf(after, smps[i]) # NameOf(after, smps[j])
  BY <1>4, <1>11, <1>12 DEF Grown
<1>14. Len(samples) <= Len(smps) /\ \A i \in 1 .. Len(samples) : smps[i] = samples[i]
  BY <1>4 DEF Grown
<1>15. CASE o.name = Loopback
  <2>1. next.samples = smps
    BY <1>3, <1>15
  <2>2. Tables(after, smps)
    BY <1>5, <1>9, <1>11 DEF Tables
  <2>3. \A i \in (Len(samples) + 1) .. Len(smps) :
          \E n \in 1 .. k + 1 : SampleOf(smps[i], round.counters[Sorted[n]], after)
    BY <1>1, <1>12
  <2>4. Grown(k + 1, after, smps)
    BY <1>10, <1>13, <1>14, <2>2, <2>3 DEF Grown
  <2> QED
    BY <1>3, <2>1, <2>4 DEF next, o, d
<1>16. CASE o.name # Loopback
  <2> DEFINE longer == Append(smps, new)
  <2>1. next.samples = longer
    BY <1>3, <1>16
  <2>2. /\ longer \in Seq(Sample) /\ Len(longer) = Len(smps) + 1
        /\ \A i \in 1 .. Len(smps) : longer[i] = smps[i]
        /\ longer[Len(smps) + 1] = new
    BY <1>6, <1>9
  <2> HIDE DEF longer
  <2>3. ASSUME NEW i \in 1 .. Len(longer)
        PROVE  i \in 1 .. Len(smps) \/ (i = Len(smps) + 1 /\ longer[i] = new)
    BY <1>9, <2>2
  <2>4. Tables(after, longer)
    <3>1. \A i \in 1 .. Len(longer) : longer[i].interface \in 1 .. Len(after)
      BY <1>5, <1>8, <1>11, <2>2, <2>3
    <3> QED
      BY <1>5, <2>2, <3>1 DEF Tables
  <2>5. ASSUME NEW i \in (Len(samples) + 1) .. Len(longer)
        PROVE  \/ i \in (Len(samples) + 1) .. Len(smps) /\ longer[i] = smps[i]
               \/ i = Len(smps) + 1 /\ longer[i] = new
    BY <1>9, <2>2
  <2>6. NameOf(after, new) = d
    BY <1>2, <1>5, <1>8 DEF NameOf, RowOf
  <2>7. ASSUME NEW i \in (Len(samples) + 1) .. Len(longer)
        PROVE  \E n \in 1 .. k + 1 : SampleOf(longer[i], round.counters[Sorted[n]], after)
    <3>1. CASE i \in (Len(samples) + 1) .. Len(smps) /\ longer[i] = smps[i]
      <4>1. PICK n \in 1 .. k : SampleOf(smps[i], round.counters[Sorted[n]], after)
        BY <1>12, <3>1
      <4>2. n \in 1 .. k + 1
        BY <1>1
      <4> QED
        BY <3>1, <4>1, <4>2
    <3>2. CASE i = Len(smps) + 1 /\ longer[i] = new
      <4>1. k + 1 \in 1 .. k + 1
        BY <1>1
      <4> QED
        BY <1>7, <3>2, <4>1 DEF o, d
    <3> QED
      BY <2>5, <3>1, <3>2
  <2>8. ASSUME NEW i \in (Len(samples) + 1) .. Len(longer),
               NEW j \in (Len(samples) + 1) .. Len(longer), i # j
        PROVE  NameOf(after, longer[i]) # NameOf(after, longer[j])
    BY <1>12, <1>13, <2>5, <2>6, <2>8
  <2>9. Len(samples) <= Len(longer) /\ \A i \in 1 .. Len(samples) : longer[i] = samples[i]
    BY <1>9, <1>14, <2>2
  <2>10. Grown(k + 1, after, longer)
    BY <1>10, <2>4, <2>7, <2>8, <2>9 DEF Grown
  <2> QED
    BY <1>3, <2>1, <2>10 DEF next, o, d
<1> QED
  BY <1>15, <1>16

\* The recursive function of Stores exists, and its last value is what a round
\* that gets as far as its k-th device leaves behind.
LEMMA StoresGrow ==
    ASSUME Observing, Tables(interfaces, samples),
           NEW k \in 0 .. Len(Sorted), Stores(k)
    PROVE  Grown(k, interfaces', samples')
<1> DEFINE first == [interfaces |-> interfaces, samples |-> samples]
           o(n) == round.counters[Sorted[n]]
           Body(g, m) == [n \in 0 .. m |-> IF n = 0 THEN first ELSE StoredOne(g[n - 1], o(n))]
           stored == CHOOSE g : g = Body(g, k)
<1>0. k \in Nat /\ Len(Sorted) \in Nat /\ Len(interfaces) \in Nat /\ Len(samples) \in Nat
  BY SortedDevices DEF Tables
<1>1. interfaces' = stored[k].interfaces /\ samples' = stored[k].samples
  BY DEF Stores
<1>2. \E g : g = Body(g, k)
  <2> DEFINE S == {m \in Nat : \E g : g = Body(g, m)}
  <2>1. 0 \in S
    <3> DEFINE g == [n \in 0 .. 0 |-> first]
    <3>1. \A n \in 0 .. 0 : n = 0
      OBVIOUS
    <3>2. g = Body(g, 0)
      BY <3>1
    <3> QED
      BY <3>2
  <2>2. ASSUME NEW m \in S, m \in 0 .. k, m # k
        PROVE  m + 1 \in S
    <3>1. PICK g : g = Body(g, m)
      BY <2>2
    <3>2. m \in Nat /\ m + 1 \in Nat
      OBVIOUS
    <3> DEFINE h == [n \in 0 .. m + 1 |->
                       IF n = m + 1 THEN StoredOne(g[m], o(m + 1)) ELSE g[n]]
    <3>3. ASSUME NEW n \in 0 .. m + 1
          PROVE  h[n] = IF n = 0 THEN first ELSE StoredOne(h[n - 1], o(n))
      <4>1. CASE n = m + 1
        <5>1. n # 0 /\ n - 1 = m /\ m \in 0 .. m + 1 /\ m # m + 1
          BY <3>2, <4>1
        <5> QED
          BY <4>1, <5>1
      <4>2. CASE n # m + 1
        <5>1. n \in 0 .. m /\ (n # 0 => n - 1 \in 0 .. m + 1 /\ n - 1 # m + 1)
          BY <3>2, <4>2
        <5>2. g[n] = IF n = 0 THEN first ELSE StoredOne(g[n - 1], o(n))
          BY <3>1, <5>1
        <5>3. h[n] = g[n] /\ (n # 0 => h[n - 1] = g[n - 1])
          BY <4>2, <5>1
        <5> QED
          BY <5>2, <5>3
      <4> QED
        BY <4>1, <4>2
    <3>4. h = Body(h, m + 1)
      BY <3>3
    <3> QED
      BY <3>2, <3>4
  <2> HIDE DEF S
  <2>3. k \in S
    BY <1>0, <2>1, <2>2, UpTo
  <2> QED
    BY <2>3 DEF S
<1>3. stored = Body(stored, k)
  BY <1>2
<1> HIDE DEF stored
<1>4. ASSUME NEW n \in 0 .. k
      PROVE  stored[n] = IF n = 0 THEN first ELSE StoredOne(stored[n - 1], o(n))
  BY <1>3
<1> DEFINE S == {n \in 0 .. k : Grown(n, stored[n].interfaces, stored[n].samples)}
<1>5. 0 \in S
  <2>1. stored[0].interfaces = interfaces /\ stored[0].samples = samples
    BY <1>0, <1>4
  <2>2. (Len(samples) + 1) .. Len(samples) = {}
    BY <1>0
  <2>3. Grown(0, interfaces, samples)
    BY <1>0, <2>2 DEF Grown
  <2> QED
    BY <1>0, <2>1, <2>3
<1>6. ASSUME NEW n \in S, n \in 0 .. k, n # k
      PROVE  n + 1 \in S
  <2>1. n \in 0 .. Len(Sorted) /\ n # Len(Sorted) /\ n + 1 \in 0 .. k
    BY <1>0, <1>6
  <2>2. n + 1 # 0 /\ (n + 1) - 1 = n
    BY <1>0, <1>6
  <2>3. stored[n + 1] = StoredOne(stored[n], o(n + 1))
    BY <1>4, <2>1, <2>2
  <2>4. Grown(n, stored[n].interfaces, stored[n].samples)
    BY <1>6
  <2>5. Grown(n + 1, stored[n + 1].interfaces, stored[n + 1].samples)
    BY <1>0, <2>1, <2>3, <2>4, OneMoreStored
  <2> QED
    BY <2>1, <2>5
<1>7. k \in S
  <2> HIDE DEF S
  <2> QED
    BY <1>0, <1>5, <1>6, UpTo
<1> QED
  BY <1>1, <1>7

----------------------------------------------------------------------------
(* The invariants.                                                         *)

\* The counters of the round have been read.
Observes == pc \in {"indexes", "persist"}

Types ==
    /\ pc \in {"idle", "counters", "indexes", "persist"}
    /\ now \in Int /\ skew \in Int
    /\ lastAt \in Int \union {Null}
    /\ restarts \in Nat
    /\ device \in [Devices -> [index: Indexes, rx: Nat, carried: Nat, resets: Nat]]
    /\ Tables(interfaces, samples)
    /\ pc # "idle" => Stamped
    /\ Observes => Observing

Device(i) == NameOf(interfaces, samples[i])
Stored == 1 .. Len(samples)

\* The process remembers the time of the last sample it stored, and stamps a
\* round with a later one.
OnceInv ==
    /\ \A i \in Stored :
        /\ samples[i].run <= restarts
        /\ samples[i].run = restarts => lastAt \in Int /\ samples[i].at <= lastAt
    /\ pc # "idle" =>
        /\ lastAt = round.at
        /\ \A i \in Stored : samples[i].run = restarts => samples[i].at < round.at
    /\ \A i, j \in Stored :
        i # j /\ samples[i].at = samples[j].at /\ samples[i].run = samples[j].run
          => Device(i) # Device(j)

\* Counters of one device, b read after a: what it carried since is the
\* difference, or at least the later value if they were reset in between.
After(a, b) ==
    /\ a.carried <= b.carried
    /\ a.resets <= b.resets
    /\ a.resets = b.resets /\ a.rx # Null /\ b.rx # Null
         => b.rx - a.rx = b.carried - a.carried
    /\ a.resets # b.resets /\ b.rx # Null => b.rx <= b.carried - a.carried

Earned(a) == a.rx # Null => a.rx <= a.carried

CarriedInv ==
    /\ \A d \in Devices : Earned(device[d])
    /\ \A i \in Stored : Earned(samples[i]) /\ After(samples[i], device[Device(i)])
    /\ Observes =>
        /\ \A d \in Devices :
            Earned(round.counters[d]) /\ After(round.counters[d], device[d])
        /\ \A i \in Stored : After(samples[i], round.counters[Device(i)])

\* A stamp is the second in which it was taken, before the counters were read.
Cut(o) ==
    /\ o.at * Parts <= o.stamped /\ o.stamped < o.at * Parts + Parts
    /\ o.stamped <= o.read /\ o.stamped <= now

\* As long as nobody sets the clock, the times of the samples are in the order
\* in which they were read.
ClockInv ==
    ~clockSet =>
        /\ skew = 0
        /\ \A i \in Stored : Cut(samples[i])
        /\ pc # "idle" =>
            /\ Cut(round)
            /\ \A i \in Stored : samples[i].at <= round.at
        /\ \A i, j \in Stored :
            Device(i) = Device(j) /\ samples[i].at < samples[j].at
              => After(samples[i], samples[j])

----------------------------------------------------------------------------
(* Types, and what the steps leave behind.                                 *)

\* A counter that was not read is told from every number.
LEMMA NullIsNoNumber == Null \notin Int
  BY NullAssumption

\* The host carries, replugs a device or leaves it alone.
Moved(d) ==
    \/ device'[d] = device[d]
    \/ \E bytes \in Nat :
        /\ device'[d].rx = device[d].rx + bytes
        /\ device'[d].carried = device[d].carried + bytes
        /\ device'[d].resets = device[d].resets
    \/ /\ device'[d].rx = 0
       /\ device'[d].carried = device[d].carried
       /\ device'[d].resets = device[d].resets + 1

Counters == [index: Indexes, rx: Nat, carried: Nat, resets: Nat]

Replugged(r, i) == [r EXCEPT !.index = i, !.rx = 0, !.resets = @ + 1]

\* What Carry and Replug make of the counters of one device.
LEMMA CarryMoves ==
    ASSUME NEW r \in Counters, NEW bytes \in Nat,
           NEW e, e = Carry(r, bytes)
    PROVE  /\ e \in Counters
           /\ e.rx = r.rx + bytes /\ e.carried = r.carried + bytes /\ e.resets = r.resets
<1> DEFINE moved == [r EXCEPT !.rx = @ + bytes]
<1>1. /\ moved \in Counters /\ moved.carried = r.carried
      /\ moved.rx = r.rx + bytes /\ moved.resets = r.resets
  BY DEF Counters
<1>2. e = [moved EXCEPT !.carried = @ + bytes]
  BY Zenon DEF Counters, Carry
<1> HIDE DEF moved
<1> QED
  BY <1>1, <1>2 DEF Counters

LEMMA ReplugMoves ==
    ASSUME NEW r \in Counters, NEW i \in Indexes,
           NEW e, e = Replugged(r, i)
    PROVE  /\ e \in Counters
           /\ e.rx = 0 /\ e.carried = r.carried /\ e.resets = r.resets + 1
<1> DEFINE new == [r EXCEPT !.index = i]
           zero == [new EXCEPT !.rx = 0]
<1>1. /\ new \in Counters /\ new.carried = r.carried /\ new.resets = r.resets
  BY DEF Counters
<1>2. e = [zero EXCEPT !.resets = @ + 1]
  BY Zenon DEF Counters, Replugged
<1> HIDE DEF new
<1>3. /\ zero \in Counters /\ zero.rx = 0
      /\ zero.carried = new.carried /\ zero.resets = new.resets
  BY <1>1 DEF Counters
<1> HIDE DEF zero
<1> QED
  BY <1>1, <1>2, <1>3 DEF Counters

\* What a step may do to the counters of a device.
LEMMA DevicesMove ==
    ASSUME Types, [Next]_vars
    PROVE  /\ device' \in [Devices -> Counters]
           /\ \A d \in Devices : Moved(d)
<1>0. device \in [Devices -> Counters]
  BY DEF Types, Counters
<1>1. CASE Tick
  <2>1. PICK bytes \in 0 .. MaxTraffic :
          device' = [d \in Devices |-> IF d = Loopback THEN device[d]
                                       ELSE Carry(device[d], bytes)]
    BY <1>1 DEF Tick
  <2>2. bytes \in Nat
    BY BoundsAssumption
  <2>3. ASSUME NEW d \in Devices
        PROVE  device'[d] \in Counters /\ Moved(d)
    <3>1. device[d] \in Counters
      BY <1>0
    <3>2. CASE d = Loopback
      BY <2>1, <3>1, <3>2 DEF Moved
    <3>3. CASE d # Loopback
      <4>1. device'[d] = Carry(device[d], bytes)
        BY <2>1, <3>3
      <4>2. /\ device'[d] \in Counters
            /\ device'[d].rx = device[d].rx + bytes
            /\ device'[d].carried = device[d].carried + bytes
            /\ device'[d].resets = device[d].resets
        BY <2>2, <3>1, <4>1, CarryMoves
      <4> QED
        BY <2>2, <4>2 DEF Moved
    <3> QED
      BY <3>2, <3>3
  <2>4. device' = [d \in Devices |-> device'[d]]
    BY <2>1
  <2> QED
    BY <2>3, <2>4
<1>2. CASE Replug
  <2>1. PICK d \in Devices \ {Loopback}, i \in Indexes :
          device' = [device EXCEPT ![d].index = i, ![d].rx = 0, ![d].resets = @ + 1]
    BY <1>2 DEF Replug
  <2>2. ASSUME NEW c \in Devices
        PROVE  device'[c] \in Counters /\ Moved(c)
    <3>1. device[c] \in Counters
      BY <1>0
    <3>2. CASE c = d
      <4>1. device'[c] = Replugged(device[c], i)
        BY <1>0, <2>1, <3>2 DEF Replugged
      <4>2. /\ device'[c] \in Counters /\ device'[c].rx = 0
            /\ device'[c].carried = device[c].carried
            /\ device'[c].resets = device[c].resets + 1
        BY <3>1, <4>1, ReplugMoves
      <4> QED
        BY <4>2 DEF Moved
    <3>3. CASE c # d
      <4>1. device'[c] = device[c]
        BY <1>0, <2>1, <3>3
      <4> QED
        BY <3>1, <4>1 DEF Moved
    <3> QED
      BY <3>2, <3>3
  <2>3. device' = [c \in Devices |-> device'[c]]
    BY <1>0, <2>1
  <2> QED
    BY <2>2, <2>3
<1>3. CASE device' = device
  BY <1>0, <1>3 DEF Moved
<1> QED
  BY <1>1, <1>2, <1>3
     DEF Next, SetClock, Restart, RoundBegins, ReadCounters, ReadIndexes, RoundStored,
         RoundLost, vars

\* Only the end of a round stores, and then as much as some of the devices.
LEMMA StoreChange ==
    ASSUME Types, [Next]_vars
    PROVE  \/ UNCHANGED store
           \/ /\ pc = "persist" /\ pc' = "idle"
              /\ RoundStored \/ RoundLost \/ Restart
              /\ \E k \in 0 .. Len(Sorted) : Grown(k, interfaces', samples')
<1>1. ASSUME pc = "persist", NEW k \in 0 .. Len(Sorted), Stores(k)
      PROVE  Grown(k, interfaces', samples')
  BY <1>1, StoresGrow DEF Types, Observes
<1>2. CASE RoundStored
  <2>1. Len(Sorted) \in 0 .. Len(Sorted)
    BY SortedDevices
  <2> QED
    BY <1>1, <1>2, <2>1 DEF RoundStored
<1>3. ASSUME CutOff
      PROVE  \/ UNCHANGED store
             \/ /\ pc = "persist"
                /\ \E k \in 0 .. Len(Sorted) : Grown(k, interfaces', samples')
  <2>1. CASE pc = "persist" /\ \E k \in DOMAIN Sorted : Stores(k)
    <3>1. PICK k \in DOMAIN Sorted : Stores(k)
      BY <2>1
    <3>2. k \in 0 .. Len(Sorted)
      BY SortedDevices
    <3> QED
      BY <1>1, <2>1, <3>1, <3>2
  <2> QED
    BY <1>3, <2>1 DEF CutOff
<1>4. CASE RoundLost \/ Restart
  BY <1>3, <1>4 DEF RoundLost, Restart
<1>5. CASE Tick \/ SetClock \/ Replug \/ UNCHANGED vars
  BY <1>5 DEF Tick, SetClock, Replug, vars
<1>6. CASE RoundBegins \/ ReadCounters \/ ReadIndexes
  BY <1>6 DEF RoundBegins, ReadCounters, ReadIndexes
<1> QED
  BY <1>2, <1>4, <1>5, <1>6 DEF Next

\* A round begins with its stamp.
LEMMA RoundStamped ==
    ASSUME Types, RoundBegins
    PROVE  /\ Stamped' /\ Stamp \in Int /\ pc' = "counters"
           /\ round'.at = Stamp /\ round'.stamped = now /\ round'.read = now
<1>1. Stamp \in Int /\ now \in Int
  BY Seconds DEF Types, Stamp, Wall
<1>2. /\ round' = [at |-> Stamp, stamped |-> now, read |-> now, counters |-> <<>>]
      /\ pc' = "counters"
  BY DEF RoundBegins
<1> QED
  BY <1>1, <1>2 DEF Stamped

\* The counters of every device are read, or are None.
LEMMA RoundObserves ==
    ASSUME Types, ReadCounters
    PROVE  /\ Observing' /\ pc = "counters" /\ pc' = "indexes"
           /\ round'.at = round.at /\ round'.stamped = round.stamped
           /\ round'.read = now
           /\ \A d \in Devices :
                LET o == round'.counters[d] IN
                /\ o.rx \in {device[d].rx, Null}
                /\ o.carried = device[d].carried /\ o.resets = device[d].resets
<1>0. Stamped /\ pc = "counters" /\ pc' = "indexes"
  BY DEF Types, ReadCounters
<1>1. PICK devices \in SUBSET Devices :
        round' = [round EXCEPT
          !.read = now,
          !.counters = [d \in Devices |->
            Observed(d, IF d \in devices THEN Null ELSE device[d].rx)]]
  BY DEF ReadCounters
<1> DEFINE o == [d \in Devices |->
                   Observed(d, IF d \in devices THEN Null ELSE device[d].rx)]
<1>2. round' = [at |-> round.at, stamped |-> round.stamped, read |-> now, counters |-> o]
  <2> HIDE DEF o
  <2>1. round' = [round EXCEPT !.read = now, !.counters = o]
    BY <1>1 DEF o
  <2> QED
    BY <1>0, <2>1 DEF Stamped
<1>3. ASSUME NEW d \in Devices
      PROVE  /\ o[d] \in Observation /\ o[d].name = d
             /\ o[d].rx \in {device[d].rx, Null}
             /\ o[d].carried = device[d].carried /\ o[d].resets = device[d].resets
  <2>1. device[d] \in [index: Indexes, rx: Nat, carried: Nat, resets: Nat]
    BY DEF Types
  <2> QED
    BY <2>1 DEF Observed, Observation
<1>4. o \in [Devices -> Observation]
  BY <1>3
<1>5. now \in Int /\ restarts' \in Nat
  BY DEF Types, ReadCounters
<1> HIDE DEF o
<1> QED
  BY <1>0, <1>2, <1>3, <1>4, <1>5 DEF Observing, Stamped

\* Their indexes are read, or are None; the counters stay.
LEMMA RoundIndexed ==
    ASSUME Types, ReadIndexes
    PROVE  /\ Observing' /\ pc = "indexes" /\ pc' = "persist"
           /\ round'.at = round.at /\ round'.stamped = round.stamped
           /\ round'.read = round.read
           /\ \A d \in Devices :
                /\ round'.counters[d].rx = round.counters[d].rx
                /\ round'.counters[d].carried = round.counters[d].carried
                /\ round'.counters[d].resets = round.counters[d].resets
<1>0. Observing /\ Stamped /\ pc = "indexes" /\ pc' = "persist"
  BY DEF Types, ReadIndexes, Observes
<1>1. PICK devices \in SUBSET Devices :
        round' = [round EXCEPT
          !.counters = [d \in Devices |->
            [@[d] EXCEPT !.index = IF d \in devices THEN Null ELSE device[d].index]]]
  BY DEF ReadIndexes
<1> DEFINE o == [d \in Devices |->
                   [round.counters[d] EXCEPT
                      !.index = IF d \in devices THEN Null ELSE device[d].index]]
<1>2. round' = [at |-> round.at, stamped |-> round.stamped, read |-> round.read,
                counters |-> o]
  <2>1. round' = [round EXCEPT !.counters = o]
    BY <1>1
  <2> HIDE DEF o
  <2> QED
    BY <1>0, <2>1 DEF Stamped
<1>3. ASSUME NEW d \in Devices
      PROVE  /\ o[d] \in Observation /\ o[d].name = d
             /\ o[d].rx = round.counters[d].rx
             /\ o[d].carried = round.counters[d].carried
             /\ o[d].resets = round.counters[d].resets
  <2>1. device[d].index \in Indexes
    BY DEF Types
  <2>2. round.counters[d] \in Observation /\ round.counters[d].name = d
    BY <1>0 DEF Observing
  <2> QED
    BY <2>1, <2>2 DEF Observation
<1>4. o \in [Devices -> Observation]
  BY <1>3
<1>5. restarts' \in Nat
  BY DEF Types, ReadIndexes
<1> HIDE DEF o
<1> QED
  BY <1>0, <1>2, <1>3, <1>4, <1>5 DEF Observing, Stamped

\* Every step keeps the types and the tables in order.
LEMMA TypesStep == ASSUME Types, [Next]_vars PROVE Types'
<1>1. device' \in [Devices -> Counters]
  BY DevicesMove
<1>2. Tables(interfaces, samples)'
  <2>1. CASE UNCHANGED store
    BY <2>1 DEF Types, Tables, store
  <2>2. CASE \E k \in 0 .. Len(Sorted) : Grown(k, interfaces', samples')
    BY <2>2 DEF Grown, Tables
  <2> QED
    BY <2>1, <2>2, StoreChange
<1>3. /\ pc' \in {"idle", "counters", "indexes", "persist"}
      /\ now' \in Int /\ skew' \in Int
      /\ lastAt' \in Int \union {Null} /\ restarts' \in Nat
      /\ (pc # "idle" => Stamped)'
      /\ (Observes => Observing)'
  <2>1. CASE RoundBegins
    BY <2>1, RoundStamped DEF RoundBegins, Types, Observes, clock, counts
  <2>2. CASE Tick
    BY <2>2 DEF Tick, Types, clock, counts, Observes, Observing, Stamped
  <2>3. CASE SetClock
    <3>1. \E by \in {-1, 1} : skew' = skew + by
      BY <2>3 DEF SetClock
    <3> QED
      BY <2>3, <3>1 DEF SetClock, Types, Observes, Observing, Stamped
  <2>4. CASE Replug \/ UNCHANGED vars
    BY <2>4 DEF Replug, Types, clock, counts, Observes, Observing, Stamped, vars
  <2>5. CASE RoundStored \/ RoundLost \/ Restart
    BY <2>5 DEF RoundStored, RoundLost, Restart, Types, Observes, clock, counts
  <2>6. CASE ReadCounters
    BY <2>6, RoundObserves DEF ReadCounters, Types, Observing, clock
  <2>7. CASE ReadIndexes
    BY <2>7, RoundIndexed DEF ReadIndexes, Types, Observing, clock
  <2> QED
    BY <2>1, <2>2, <2>3, <2>4, <2>5, <2>6, <2>7 DEF Next
<1> QED
  BY <1>1, <1>2, <1>3 DEF Types, Counters

\* The program starts with empty tables.
LEMMA TypesInit == Init => Types
<1> SUFFICES ASSUME Init PROVE Types
  OBVIOUS
<1>1. FirstIndex \in Indexes
  BY IndexesAssumption DEF FirstIndex
<1>2. device \in [Devices -> [index: Indexes, rx: Nat, carried: Nat, resets: Nat]]
  BY <1>1 DEF Init
<1>3. Tables(interfaces, samples)
  <2>1. interfaces = <<>> /\ samples = <<>>
    BY DEF Init
  <2> QED
    BY <2>1 DEF Tables
<1> QED
  BY <1>2, <1>3 DEF Init, Types, Observes

\* So they are always of their types.
LEMMA Typed == Spec => []Types
  BY TypesInit, TypesStep, PTL DEF Spec

\* A sample of what the round observed of device d.
OfRound(sample, d) ==
    /\ sample.at = round.at /\ sample.stamped = round.stamped
    /\ sample.read = round.read /\ sample.run = restarts
    /\ sample.rx = round.counters[d].rx
    /\ sample.carried = round.counters[d].carried
    /\ sample.resets = round.counters[d].resets

\* Rows stay what they are; new samples are of the round that ends, and of
\* devices that differ.
LEMMA StoreGrows ==
    ASSUME Types, [Next]_vars
    PROVE  /\ \A i \in Stored :
                /\ i \in Stored' /\ samples'[i] = samples[i]
                /\ Device(i)' = Device(i) /\ Device(i) \in Devices
           /\ \A i \in Stored' \ Stored :
                /\ pc = "persist" /\ (RoundStored \/ RoundLost \/ Restart)
                /\ Device(i)' \in Devices /\ OfRound(samples'[i], Device(i)')
           /\ \A i, j \in Stored' \ Stored : i # j => Device(i)' # Device(j)'
<1>0. Tables(interfaces, samples)
  BY DEF Types
<1>1. Len(samples) \in Nat /\ Len(interfaces) \in Nat
  BY <1>0 DEF Tables
<1>2. ASSUME NEW i \in Stored
      PROVE  /\ samples[i].interface \in 1 .. Len(interfaces)
             /\ Device(i) \in Devices
  <2>1. samples[i].interface \in 1 .. Len(interfaces) /\ interfaces \in Seq(Row)
    BY <1>0 DEF Tables, Stored
  <2>2. interfaces[samples[i].interface] \in Row
    BY <2>1
  <2> QED
    BY <2>1, <2>2 DEF Device, NameOf, Row
<1>3. CASE UNCHANGED store
  <2>1. UNCHANGED <<interfaces, samples>>
    BY <1>3 DEF store
  <2> QED
    BY <1>2, <2>1 DEF Stored, Device, NameOf
<1>4. ASSUME pc = "persist", RoundStored \/ RoundLost \/ Restart,
             NEW k \in 0 .. Len(Sorted), Grown(k, interfaces', samples')
      PROVE  /\ \A i \in Stored :
                  /\ i \in Stored' /\ samples'[i] = samples[i]
                  /\ Device(i)' = Device(i) /\ Device(i) \in Devices
             /\ \A i \in Stored' \ Stored :
                  /\ pc = "persist" /\ (RoundStored \/ RoundLost \/ Restart)
                  /\ Device(i)' \in Devices /\ OfRound(samples'[i], Device(i)')
             /\ \A i, j \in Stored' \ Stored : i # j => Device(i)' # Device(j)'
  <2>1. /\ Len(samples') \in Nat /\ Len(samples) <= Len(samples')
        /\ \A i \in 1 .. Len(samples) : samples'[i] = samples[i]
        /\ Len(interfaces) <= Len(interfaces')
        /\ \A i \in 1 .. Len(interfaces) : interfaces'[i] = interfaces[i]
    BY <1>4 DEF Grown, Tables
  <2>2. ASSUME NEW i \in Stored
        PROVE  /\ i \in Stored' /\ samples'[i] = samples[i]
               /\ Device(i)' = Device(i) /\ Device(i) \in Devices
    <3>1. i \in Stored' /\ samples'[i] = samples[i]
      BY <1>1, <2>1 DEF Stored
    <3> QED
      BY <1>2, <2>1, <3>1 DEF Device, NameOf
  <2>3. Stored' \ Stored = (Len(samples) + 1) .. Len(samples')
    BY <1>1, <2>1 DEF Stored
  <2>4. ASSUME NEW i \in Stored' \ Stored
        PROVE  Device(i)' \in Devices /\ OfRound(samples'[i], Device(i)')
    <3>1. PICK n \in 1 .. k : SampleOf(samples'[i], round.counters[Sorted[n]], interfaces')
      BY <1>4, <2>3 DEF Grown
    <3>2. Sorted[n] \in Devices
      BY SortedDevices
    <3>3. round.counters[Sorted[n]].name = Sorted[n]
      BY <1>4, <3>2 DEF Types, Observes, Observing
    <3>4. Device(i)' = Sorted[n]
      BY <3>1, <3>3 DEF SampleOf, RowOf, Device, NameOf
    <3> QED
      BY <3>1, <3>2, <3>4 DEF SampleOf, OfRound
  <2>5. ASSUME NEW i \in Stored' \ Stored, NEW j \in Stored' \ Stored, i # j
        PROVE  Device(i)' # Device(j)'
    BY <1>4, <2>3, <2>5 DEF Grown, Device
  <2> QED
    BY <1>4, <2>2, <2>4, <2>5
<1> QED
  BY <1>3, <1>4, StoreChange

\* A stored sample has its fields and is of a device.
LEMMA SampleTypes ==
    ASSUME Types
    PROVE  /\ DOMAIN samples = Stored /\ Len(samples) \in Nat
           /\ \A i \in Stored : samples[i] \in Sample /\ Device(i) \in Devices
<1>1. Tables(interfaces, samples)
  BY DEF Types
<1>2. ASSUME NEW i \in Stored PROVE samples[i] \in Sample /\ Device(i) \in Devices
  <2>1. /\ samples[i].interface \in 1 .. Len(interfaces) /\ interfaces \in Seq(Row)
        /\ samples \in Seq(Sample) /\ i \in 1 .. Len(samples)
    BY <1>1 DEF Tables, Stored
  <2>2. interfaces[samples[i].interface] \in Row /\ samples[i] \in Sample
    BY <2>1
  <2> QED
    BY <2>2 DEF Device, NameOf, Row
<1> QED
  BY <1>1, <1>2 DEF Tables, Stored

----------------------------------------------------------------------------
(* No round is stored twice.                                               *)

\* The guard against a second round in the same second keeps the times of a
\* run apart, and a round has one sample of each device.
LEMMA OnceStep == ASSUME Types, OnceInv, [Next]_vars PROVE OnceInv'
<1> DEFINE New == Stored' \ Stored
           Runs(i, j) == samples'[i].at = samples'[j].at /\ samples'[i].run = samples'[j].run
<1>1. /\ \A i \in Stored :
            /\ i \in Stored' /\ samples'[i] = samples[i]
            /\ Device(i)' = Device(i) /\ Device(i) \in Devices
      /\ \A i \in New :
            /\ pc = "persist" /\ (RoundStored \/ RoundLost \/ Restart)
            /\ OfRound(samples'[i], Device(i)')
      /\ \A i, j \in New : i # j => Device(i)' # Device(j)'
  BY StoreGrows
<1>2. /\ \A i \in Stored : samples[i] \in Sample
      /\ restarts \in Nat /\ (pc # "idle" => round.at \in Int)
  BY SampleTypes DEF Types, Stamped
<1>3. ASSUME NEW i \in Stored', NEW j \in Stored', i # j, Runs(i, j)
      PROVE  Device(i)' # Device(j)'
  <2>1. ASSUME NEW a \in Stored, NEW b \in New PROVE ~ Runs(a, b)
    <3>1. /\ samples'[b].at = round.at /\ samples'[b].run = restarts /\ pc = "persist"
          /\ samples'[a] = samples[a]
      BY <1>1 DEF OfRound
    <3>2. samples[a].run = restarts => samples[a].at < round.at
      BY <3>1 DEF OnceInv
    <3> QED
      BY <1>2, <3>1, <3>2 DEF Sample
  <2>2. CASE i \in Stored /\ j \in Stored
    BY <1>1, <1>3, <2>2 DEF OnceInv
  <2>3. CASE i \in New /\ j \in New
    BY <1>1, <1>3, <2>3
  <2> QED
    BY <1>3, <2>1, <2>2, <2>3
<1>4. CASE Tick \/ SetClock \/ Replug \/ UNCHANGED vars
  <2>1. UNCHANGED <<lastAt, pc, round, restarts, samples>>
    BY <1>4 DEF Tick, SetClock, Replug, vars, counts, store
  <2> QED
    BY <1>3, <2>1 DEF OnceInv, Stored
<1>5. CASE RoundBegins
  <2>1. /\ lastAt' = Stamp /\ UNCHANGED <<restarts, samples>> /\ Stamp \in Int
        /\ round'.at = Stamp /\ (lastAt = Null \/ ~ (Stamp <= lastAt))
    BY <1>5, RoundStamped DEF RoundBegins, store, counts, Duplicate
  <2> HIDE DEF Stamp
  <2>2. ASSUME NEW i \in Stored, samples[i].run = restarts
        PROVE  samples[i].at < Stamp
    <3>1. lastAt \in Int /\ samples[i].at <= lastAt
      BY <2>2 DEF OnceInv
    <3>2. samples[i].at \in Int
      BY <1>2 DEF Sample
    <3> QED
      BY <2>1, <3>1, <3>2, NullIsNoNumber
  <2>3. Stored' = Stored /\ \A i \in Stored : samples[i].run <= restarts
    BY <2>1 DEF OnceInv, Stored
  <2>4. \A i \in Stored : samples[i].at \in Int
    BY <1>2 DEF Sample
  <2> QED
    BY <1>3, <2>1, <2>2, <2>3, <2>4 DEF OnceInv
<1>6. CASE RoundStored \/ RoundLost
  <2>1. pc = "persist" /\ pc' = "idle" /\ UNCHANGED <<lastAt, restarts>>
    BY <1>6 DEF RoundStored, RoundLost, counts
  <2>2. ASSUME NEW i \in Stored'
        PROVE  /\ samples'[i].run <= restarts
               /\ samples'[i].run = restarts => lastAt \in Int /\ samples'[i].at <= lastAt
    <3>1. CASE i \in Stored
      BY <1>1, <3>1 DEF OnceInv
    <3>2. CASE i \in New
      BY <1>1, <1>2, <2>1, <3>2 DEF OnceInv, OfRound
    <3> QED
      BY <3>1, <3>2
  <2> QED
    BY <1>3, <2>1, <2>2 DEF OnceInv
<1>7. CASE Restart
  <2>1. pc' = "idle" /\ restarts' = restarts + 1
    BY <1>7 DEF Restart
  <2>2. ASSUME NEW i \in Stored'
        PROVE  samples'[i].run <= restarts /\ samples'[i].run \in Nat
    <3>1. CASE i \in Stored
      BY <1>1, <1>2, <3>1 DEF OnceInv, Sample
    <3>2. CASE i \in New
      BY <1>1, <1>2, <3>2 DEF OfRound
    <3> QED
      BY <3>1, <3>2
  <2> QED
    BY <1>2, <1>3, <2>1, <2>2 DEF OnceInv
<1>8. CASE ReadCounters \/ ReadIndexes
  <2>1. UNCHANGED <<lastAt, restarts, samples>>
    BY <1>8 DEF ReadCounters, ReadIndexes, store
  <2>2. round'.at = round.at /\ pc # "idle"
    BY <1>8, RoundObserves, RoundIndexed
  <2> QED
    BY <1>3, <2>1, <2>2 DEF OnceInv, Stored
<1> QED
  BY <1>4, <1>5, <1>6, <1>7, <1>8 DEF Next

\* So a run of the process stores a device once in a second.
LEMMA OnceKept == Spec => [](Types /\ OnceInv)
<1>1. Init => OnceInv
  BY DEF Init, OnceInv, Stored
<1>2. Types /\ OnceInv /\ [Next]_vars => OnceInv'
  BY OnceStep
<1> QED
  BY <1>1, <1>2, Typed, PTL DEF Spec

\* For any devices, restarts and turns of the clock: an interface has one sample
\* of a second for each run of the process, and a device one interface for each
\* index, also without one (network_metrics.py:228-233, 278-281).
THEOREM RoundsStoredOnce == Spec => []SampledOnce
<1>1. ASSUME Types, OnceInv PROVE SampledOnce
  <2>1. ASSUME NEW i \in DOMAIN samples, NEW j \in DOMAIN samples, i # j,
               samples[i].interface = samples[j].interface, samples[i].at = samples[j].at
        PROVE  samples[i].run # samples[j].run
    <3>1. Device(i) = Device(j)
      BY <2>1 DEF Device, NameOf
    <3>2. i \in Stored /\ j \in Stored
      BY <1>1, SampleTypes
    <3> QED
      BY <1>1, <2>1, <3>1, <3>2 DEF OnceInv
  <2>2. IsInjective(interfaces)
    BY <1>1 DEF Types, Tables, IsInjective
  <2> QED
    BY <2>1, <2>2 DEF SampledOnce
<1> QED
  BY <1>1, OnceKept, PTL

----------------------------------------------------------------------------
(* What the counters say of the bytes carried.                             *)

Reads(a) == a.rx \in Nat \union {Null} /\ a.carried \in Nat /\ a.resets \in Nat

\* Traffic and resets keep what an earlier reading says of the device.
LEMMA AfterMove ==
    ASSUME Types, [Next]_vars, NEW d \in Devices, NEW a, Reads(a), After(a, device[d])
    PROVE  After(a, device'[d])
<1>1. device[d] \in Counters /\ Moved(d)
  BY DevicesMove DEF Types, Counters
<1>2. device[d].rx # Null
  BY <1>1, NullIsNoNumber DEF Counters
<1>3. CASE device'[d] = device[d]
  BY <1>3
<1>4. ASSUME NEW bytes \in Nat,
             /\ device'[d].rx = device[d].rx + bytes
             /\ device'[d].carried = device[d].carried + bytes
             /\ device'[d].resets = device[d].resets
      PROVE  After(a, device'[d])
  BY <1>1, <1>2, <1>4 DEF After, Counters, Reads
<1>5. CASE /\ device'[d].rx = 0
           /\ device'[d].carried = device[d].carried
           /\ device'[d].resets = device[d].resets + 1
  BY <1>1, <1>2, <1>5 DEF After, Counters, Reads
<1> QED
  BY <1>1, <1>3, <1>4, <1>5 DEF Moved

\* A reading with the same counters, or without rx, is as late.
LEMMA AfterReading ==
    ASSUME NEW a, NEW b, NEW c, After(a, b), b.rx # Null,
           c.rx \in {b.rx, Null}, c.carried = b.carried, c.resets = b.resets
    PROVE  After(a, c)
  BY DEF After

\* A counter never shows more than the device has carried.
LEMMA EarnedMove ==
    ASSUME Types, [Next]_vars, NEW d \in Devices, Earned(device[d])
    PROVE  Earned(device'[d])
<1>1. device[d] \in Counters /\ Moved(d)
  BY DevicesMove DEF Types, Counters
<1>2. device[d].rx # Null
  BY <1>1, NullIsNoNumber DEF Counters
<1> QED
  BY <1>1, <1>2 DEF Moved, Earned, Counters

\* What is observed, and then stored, is a reading of the device as it was.
LEMMA CarriedStep == ASSUME Types, CarriedInv, [Next]_vars PROVE CarriedInv'
<1>1. /\ \A i \in Stored :
            /\ i \in Stored' /\ samples'[i] = samples[i]
            /\ Device(i)' = Device(i) /\ Device(i) \in Devices
            /\ samples[i] \in Sample /\ Reads(samples[i])
      /\ \A i \in Stored' \ Stored :
            /\ pc = "persist" /\ (RoundStored \/ RoundLost \/ Restart)
            /\ Device(i)' \in Devices /\ OfRound(samples'[i], Device(i)')
  BY StoreGrows, SampleTypes DEF Reads, Sample
<1>2. \A d \in Devices :
        device[d].rx \in Nat /\ device[d].carried \in Nat /\ device[d].resets \in Nat
  BY DEF Types
<1>3. \A d \in Devices : device[d].rx # Null
  BY <1>2, NullIsNoNumber
<1>4. ASSUME Observes, NEW d \in Devices PROVE Reads(round.counters[d])
  BY <1>4 DEF Types, Observing, Observation, Reads
<1>5. \A d \in Devices : Earned(device'[d])
  BY EarnedMove DEF CarriedInv
<1>6. \A i \in Stored :
        Earned(samples'[i]) /\ After(samples'[i], device'[Device(i)'])
  BY <1>1, AfterMove DEF CarriedInv
<1>7. ASSUME Observes, NEW d \in Devices
      PROVE  Earned(round.counters[d]) /\ After(round.counters[d], device'[d])
  BY <1>4, <1>7, AfterMove DEF CarriedInv
<1>8. ASSUME NEW i \in Stored'
      PROVE  Earned(samples'[i]) /\ After(samples'[i], device'[Device(i)'])
  <2>1. CASE i \notin Stored
    <3>1. pc = "persist" /\ Device(i)' \in Devices /\ OfRound(samples'[i], Device(i)')
      BY <1>1, <2>1
    <3>2. /\ Earned(round.counters[Device(i)'])
          /\ After(round.counters[Device(i)'], device'[Device(i)'])
      BY <1>7, <3>1 DEF Observes
    <3> QED
      BY <3>1, <3>2 DEF OfRound, Earned, After
  <2> QED
    BY <1>6, <2>1
<1>9. ASSUME Observes'
      PROVE  /\ \A d \in Devices :
                  Earned(round'.counters[d]) /\ After(round'.counters[d], device'[d])
             /\ \A i \in Stored' : After(samples'[i], round'.counters[Device(i)'])
  <2>1. CASE ReadCounters
    <3>1. UNCHANGED <<device, samples>>
      BY <2>1 DEF ReadCounters, store
    <3>2. \A d \in Devices :
            LET o == round'.counters[d] IN
            /\ o.rx \in {device[d].rx, Null}
            /\ o.carried = device[d].carried /\ o.resets = device[d].resets
      BY <2>1, RoundObserves
    <3>3. ASSUME NEW d \in Devices
          PROVE  Earned(round'.counters[d]) /\ After(round'.counters[d], device'[d])
      <4>1. Earned(device[d])
        BY DEF CarriedInv
      <4> QED
        BY <1>2, <1>3, <3>1, <3>2, <4>1 DEF Earned, After
    <3>4. ASSUME NEW i \in Stored'
          PROVE  After(samples'[i], round'.counters[Device(i)'])
      <4>1. i \in Stored
        BY <3>1 DEF Stored
      <4>2. Device(i) \in Devices /\ After(samples[i], device[Device(i)])
        BY <1>1, <4>1 DEF CarriedInv
      <4>3. After(samples[i], round'.counters[Device(i)])
        BY <1>3, <3>2, <4>2, AfterReading
      <4> QED
        BY <1>1, <4>1, <4>3
    <3> QED
      BY <3>3, <3>4
  <2>2. CASE ReadIndexes
    <3>1. /\ Observes /\ UNCHANGED <<device, samples>>
          /\ \A d \in Devices :
                /\ round'.counters[d].rx = round.counters[d].rx
                /\ round'.counters[d].carried = round.counters[d].carried
                /\ round'.counters[d].resets = round.counters[d].resets
      BY <2>2, RoundIndexed DEF ReadIndexes, Observes, store
    <3>2. ASSUME NEW d \in Devices
          PROVE  Earned(round'.counters[d]) /\ After(round'.counters[d], device'[d])
      <4>1. Earned(round.counters[d]) /\ After(round.counters[d], device'[d])
        BY <1>7, <3>1
      <4> QED
        BY <3>1, <4>1 DEF Earned, After
    <3>3. ASSUME NEW i \in Stored'
          PROVE  After(samples'[i], round'.counters[Device(i)'])
      <4>1. i \in Stored
        BY <3>1 DEF Stored
      <4>2. Device(i) \in Devices /\ After(samples[i], round.counters[Device(i)])
        BY <1>1, <3>1, <4>1 DEF CarriedInv
      <4> QED
        BY <1>1, <3>1, <4>1, <4>2 DEF After
    <3> QED
      BY <3>2, <3>3
  <2>3. CASE ~ ReadCounters /\ ~ ReadIndexes
    <3>1. Observes /\ UNCHANGED <<round, samples>>
      BY <1>9, <2>3 DEF Next, Tick, SetClock, Replug, RoundBegins, RoundStored, RoundLost,
                        Restart, Observes, vars, store
    <3>2. ASSUME NEW i \in Stored'
          PROVE  After(samples'[i], round'.counters[Device(i)'])
      <4>1. i \in Stored
        BY <3>1 DEF Stored
      <4> QED
        BY <1>1, <3>1, <4>1 DEF CarriedInv
    <3> QED
      BY <1>7, <3>1, <3>2
  <2> QED
    BY <2>1, <2>2, <2>3
<1> QED
  BY <1>5, <1>8, <1>9 DEF CarriedInv

\* Every counter starts at zero.
LEMMA CarriedInit == Init => CarriedInv
  BY DEF Init, CarriedInv, Stored, Earned, Observes

\* Without a turn of the clock, times tell the order of the readings.
LEMMA ClockStep == ASSUME Types, CarriedInv, ClockInv, [Next]_vars PROVE ClockInv'
<1> SUFFICES ASSUME ~ clockSet' PROVE ClockInv'
  BY DEF ClockInv
<1>0. ~ clockSet /\ ~ SetClock
  <2>1. ~ SetClock
    BY Zenon DEF SetClock
  <2>2. UNCHANGED clockSet
    BY <2>1 DEF Next, Tick, Replug, RoundBegins, ReadCounters, ReadIndexes, RoundStored,
                RoundLost, Restart, vars, counts
  <2> QED
    BY <2>1, <2>2, Zenon
<1>1. /\ \A i \in Stored :
            /\ i \in Stored' /\ samples'[i] = samples[i]
            /\ Device(i)' = Device(i) /\ Device(i) \in Devices
            /\ samples[i].at \in Int /\ samples[i].stamped \in Int
      /\ \A i \in Stored' \ Stored :
            /\ pc = "persist" /\ (RoundStored \/ RoundLost \/ Restart)
            /\ Device(i)' \in Devices /\ OfRound(samples'[i], Device(i)')
  BY StoreGrows, SampleTypes DEF Sample
<1>2. /\ skew = 0 /\ now \in Int
      /\ \A i \in Stored : Cut(samples[i])
      /\ pc # "idle" =>
            /\ round.at \in Int /\ round.stamped \in Int /\ Cut(round)
            /\ \A i \in Stored : samples[i].at <= round.at
      /\ \A i, j \in Stored :
            Device(i) = Device(j) /\ samples[i].at < samples[j].at
              => After(samples[i], samples[j])
  BY <1>0 DEF ClockInv, Types, Stamped
<1>3. skew' = 0 /\ now' \in Int /\ now <= now'
  <2>1. CASE Tick
    BY <1>2, <2>1 DEF Tick
  <2>2. CASE ~ Tick
    <3>1. UNCHANGED <<now, skew>>
      BY <1>0, <2>2 DEF Next, Replug, RoundBegins, ReadCounters, ReadIndexes, RoundStored,
                        RoundLost, Restart, vars, clock
    <3> QED
      BY <1>2, <3>1
  <2> QED
    BY <2>1, <2>2
<1>4. ASSUME NEW i \in Stored'
      PROVE  Cut(samples[i])'
  <2>1. CASE i \in Stored
    BY <1>1, <1>2, <1>3, <2>1 DEF Cut
  <2>2. CASE i \notin Stored
    <3>1. OfRound(samples'[i], Device(i)') /\ Cut(round) /\ round.stamped \in Int
      BY <1>1, <1>2, <2>2
    <3> QED
      BY <1>2, <1>3, <3>1 DEF OfRound, Cut
  <2> QED
    BY <2>1, <2>2
<1>5. ASSUME pc' # "idle"
      PROVE  /\ Cut(round)'
             /\ \A i \in Stored' : samples'[i].at <= round'.at
  <2>1. CASE RoundBegins
    <3>1. /\ round'.at = Stamp /\ round'.stamped = now /\ round'.read = now
          /\ UNCHANGED <<samples, now>>
      BY <2>1, RoundStamped DEF RoundBegins, store, clock
    <3>2. /\ Stamp \in Int /\ Stamp * Parts <= now /\ now < Stamp * Parts + Parts
      BY <1>2, Seconds DEF Stamp, Wall
    <3> HIDE DEF Stamp
    <3>3. ASSUME NEW i \in Stored
          PROVE  samples[i].at <= Stamp
      <4>1. /\ samples[i].at \in Int /\ samples[i].stamped \in Int
            /\ samples[i].at * Parts <= samples[i].stamped /\ samples[i].stamped <= now
        BY <1>1, <1>2 DEF Cut
      <4>2. /\ Stamp * Parts \in Int /\ samples[i].at * Parts \in Int
            /\ Stamp < samples[i].at => Stamp * Parts + Parts <= samples[i].at * Parts
        BY <3>2, <4>1, Moments
      <4> QED
        BY <1>2, <3>2, <4>1, <4>2, PartsAssumption
    <3> QED
      BY <1>2, <3>1, <3>2, <3>3 DEF Cut, Stored
  <2>2. CASE ReadCounters \/ ReadIndexes
    <3>1. /\ pc # "idle" /\ UNCHANGED <<samples, now>>
          /\ round'.at = round.at /\ round'.stamped = round.stamped
          /\ round'.read \in {round.read, now}
      BY <2>2, RoundObserves, RoundIndexed DEF ReadCounters, ReadIndexes, store, clock
    <3> QED
      BY <1>2, <3>1 DEF Cut, Stored
  <2>3. CASE ~ RoundBegins /\ ~ ReadCounters /\ ~ ReadIndexes
    <3>1. pc # "idle" /\ UNCHANGED <<round, samples>>
      BY <1>5, <2>3 DEF Next, Tick, SetClock, Replug, RoundStored, RoundLost, Restart,
                        vars, store
    <3> QED
      BY <1>2, <1>3, <3>1 DEF Cut, Stored
  <2> QED
    BY <2>1, <2>2, <2>3
<1>6. ASSUME NEW i \in Stored', NEW j \in Stored',
             Device(i)' = Device(j)', samples'[i].at < samples'[j].at
      PROVE  After(samples'[i], samples'[j])
  <2>1. CASE i \in Stored /\ j \in Stored
    BY <1>1, <1>2, <1>6, <2>1
  <2>2. CASE i \in Stored /\ j \notin Stored
    <3>1. pc = "persist" /\ OfRound(samples'[j], Device(i))
      BY <1>1, <1>6, <2>2
    <3>2. After(samples[i], round.counters[Device(i)])
      BY <2>2, <3>1 DEF CarriedInv, Observes
    <3> QED
      BY <1>1, <2>2, <3>1, <3>2 DEF OfRound, After
  <2>3. CASE i \notin Stored
    <3>1. pc = "persist" /\ samples'[i].at = round.at
      BY <1>1, <2>3 DEF OfRound
    <3>2. samples'[j].at \in Int /\ samples'[j].at <= round.at
      BY <1>1, <1>2, <3>1 DEF OfRound
    <3> QED
      BY <1>2, <1>6, <3>1, <3>2
  <2> QED
    BY <2>1, <2>2, <2>3
<1> QED
  BY <1>3, <1>4, <1>5, <1>6 DEF ClockInv

\* So samples always stand in this order to the devices and to each other.
LEMMA CarriedKept == Spec => [](Types /\ CarriedInv /\ ClockInv)
<1>1. Init => ClockInv
  BY DEF Init, ClockInv, Stored
<1>2. Types /\ CarriedInv /\ ClockInv /\ [Next]_vars => CarriedInv' /\ ClockInv'
  BY CarriedStep, ClockStep
<1> QED
  BY <1>1, <1>2, CarriedInit, Typed, PTL DEF Spec

\* Of the earlier samples of an interface there is a last one.
LEMMA PreviousLast ==
    ASSUME Types, NEW i \in Stored, Before(i) # {}
    PROVE  Previous(i) \in Before(i)
<1> DEFINE Best(j, k) == \/ samples[k].at < samples[j].at
                         \/ samples[k].at = samples[j].at /\ k <= j
           Early(m) == {k \in Before(i) : k <= m}
           S == {m \in Nat : Early(m) = {} \/ \E j \in Early(m) : \A k \in Early(m) : Best(j, k)}
           L == Len(samples)
<1>0. L \in Nat /\ Before(i) \subseteq 1 .. L /\ \A k \in Before(i) : samples[k].at \in Int
  BY SampleTypes DEF Before, Stored, Sample
<1>1. 0 \in S
  <2>1. Early(0) = {}
    BY <1>0
  <2> QED
    BY <2>1
<1>2. ASSUME NEW m \in S, m \in 0 .. L, m # L
      PROVE  m + 1 \in S
  <2>0. m \in Nat /\ m + 1 \in Nat
    OBVIOUS
  <2>1. CASE m + 1 \notin Before(i)
    <3>1. Early(m + 1) = Early(m)
      BY <1>0, <2>0, <2>1
    <3> QED
      BY <2>0, <3>1
  <2>2. CASE m + 1 \in Before(i)
    <3>1. m + 1 \in Early(m + 1)
      BY <2>0, <2>2
    <3>2. \A k \in Early(m + 1) : k = m + 1 \/ k \in Early(m)
      BY <1>0, <2>0
    <3>3. \A k \in Early(m) : k \in Early(m + 1) /\ k <= m + 1
      BY <1>0, <2>0
    <3>4. CASE Early(m) = {}
      <4>1. \A k \in Early(m + 1) : Best(m + 1, k)
        BY <2>0, <3>2, <3>4
      <4> QED
        BY <2>0, <3>1, <4>1
    <3>5. CASE Early(m) # {}
      <4>1. PICK j \in Early(m) : \A k \in Early(m) : Best(j, k)
        BY <3>5
      <4>2. CASE samples[j].at <= samples[m + 1].at
        <5>1. ASSUME NEW k \in Early(m) PROVE Best(m + 1, k)
          BY <1>0, <2>2, <3>3, <4>1, <4>2
        <5>2. \A k \in Early(m + 1) : Best(m + 1, k)
          BY <2>0, <3>2, <5>1
        <5> QED
          BY <2>0, <3>1, <5>2
      <4>3. CASE ~ (samples[j].at <= samples[m + 1].at)
        <5>1. Best(j, m + 1)
          BY <1>0, <2>2, <4>3
        <5>2. \A k \in Early(m + 1) : Best(j, k)
          BY <3>2, <4>1, <5>1
        <5> QED
          BY <2>0, <3>3, <5>2
      <4> QED
        BY <4>2, <4>3
    <3> QED
      BY <3>4, <3>5
  <2> QED
    BY <2>1, <2>2
<1>3. L \in S
  <2> HIDE DEF S, L
  <2> QED
    BY <1>0, <1>1, <1>2, UpTo
<1>4. Early(L) = Before(i)
  BY <1>0
<1>5. \E j \in Before(i) : \A k \in Before(i) : Best(j, k)
  BY <1>3, <1>4
<1> QED
  BY <1>5 DEF Previous

\* For any devices and traffic, whatever fails, restarts or is replugged: as long
\* as nobody sets the clock a rate is about no more bytes than were carried
\* between its readings, and those exactly if no reset lies between, and its
\* seconds are off by less than one and by what the rounds waited between stamp
\* and counters (app.py:206-244, 1227-1235).
THEOREM RatesCarried == Spec => []RatesHonest
<1>1. ASSUME Types, CarriedInv, ClockInv PROVE RatesHonest
  <2>1. SUFFICES ASSUME ~ clockSet, NEW i \in DOMAIN samples, Rate(i) # Null
        PROVE  LET prev    == samples[Previous(i)]
                   carried == samples[i].carried - prev.carried
                   apart   == samples[i].read - prev.read
                   waited  == samples[i].read - samples[i].stamped
                   before  == prev.read - prev.stamped
                   seconds == Rate(i).seconds * Parts
               IN  /\ Rate(i).bytes <= carried
                   /\ samples[i].resets = prev.resets => Rate(i).bytes = carried
                   /\ apart - waited - Parts < seconds
                   /\ seconds < apart + before + Parts
    BY DEF RatesHonest
  <2> DEFINE j == Previous(i)
  <2>2. i \in Stored /\ Before(i) # {}
    BY <1>1, <2>1, SampleTypes DEF Rate
  <2>3. j \in Stored /\ samples[j].interface = samples[i].interface
        /\ samples[j].at < samples[i].at
    BY <1>1, <2>2, PreviousLast, SampleTypes DEF Before
  <2>4. samples[i] \in Sample /\ samples[j] \in Sample
    BY <1>1, <2>2, <2>3, SampleTypes
  <2>5. /\ samples[i].rx # Null /\ samples[j].rx # Null
        /\ Rate(i) = [bytes |-> samples[i].rx - samples[j].rx,
                      seconds |-> samples[i].at - samples[j].at]
    BY <2>1, <2>2 DEF Rate, Delta
  <2>6. After(samples[j], samples[i])
    <3>1. Device(i) = Device(j)
      BY <2>3 DEF Device, NameOf
    <3> QED
      BY <1>1, <2>1, <2>2, <2>3, <3>1 DEF ClockInv
  <2>7. Cut(samples[i]) /\ Cut(samples[j])
    BY <1>1, <2>1, <2>2, <2>3 DEF ClockInv
  <2> HIDE DEF j
  <2>8. /\ Rate(i).bytes <= samples[i].carried - samples[j].carried
        /\ samples[i].resets = samples[j].resets
             => Rate(i).bytes = samples[i].carried - samples[j].carried
    BY <2>4, <2>5, <2>6 DEF After, Sample
  <2>9. /\ samples[i].at \in Int /\ samples[i].stamped \in Int /\ samples[i].read \in Int
        /\ samples[j].at \in Int /\ samples[j].stamped \in Int /\ samples[j].read \in Int
    BY <2>4 DEF Sample
  <2>10. /\ Rate(i).seconds * Parts = samples[i].at * Parts - samples[j].at * Parts
         /\ samples[i].at * Parts \in Int /\ samples[j].at * Parts \in Int
    <3>1. Rate(i).seconds = samples[i].at - samples[j].at
      BY <2>5
    <3> QED
      BY <2>9, <3>1, Moments
  <2>11. /\ samples[i].stamped - samples[j].read - Parts < Rate(i).seconds * Parts
         /\ Rate(i).seconds * Parts < samples[i].read - samples[j].stamped + Parts
    BY <2>7, <2>9, <2>10, PartsAssumption DEF Cut
  <2>12. /\ (samples[i].read - samples[j].read) - (samples[i].read - samples[i].stamped)
              = samples[i].stamped - samples[j].read
         /\ (samples[i].read - samples[j].read) + (samples[j].read - samples[j].stamped)
              = samples[i].read - samples[j].stamped
    BY <2>9
  <2> QED
    BY <2>8, <2>11, <2>12 DEF j
<1> QED
  BY <1>1, CarriedKept, PTL

----------------------------------------------------------------------------
(* Sums, and the totals of the overview.                                   *)

\* The partial sums of a sequence.
Partial(g, values, k) ==
    \A n \in 0 .. k : g[n] = IF n = 0 THEN 0 ELSE g[n - 1] + values[n]

\* Every sequence has them: those of its first k elements extend to k + 1.
LEMMA PartialSums ==
    ASSUME NEW values \in Seq(Nat)
    PROVE  \E g \in [0 .. Len(values) -> Nat] : Partial(g, values, Len(values))
<1> DEFINE S == {k \in Nat : \E g \in [0 .. k -> Nat] : Partial(g, values, k)}
<1>0. Len(values) \in Nat
  OBVIOUS
<1>1. 0 \in S
  <2>1. [n \in 0 .. 0 |-> 0] \in [0 .. 0 -> Nat]
    OBVIOUS
  <2>2. Partial([n \in 0 .. 0 |-> 0], values, 0)
    BY DEF Partial
  <2> QED
    BY <2>1, <2>2
<1>2. ASSUME NEW k \in S, k \in 0 .. Len(values), k # Len(values)
      PROVE  k + 1 \in S
  <2>1. PICK g \in [0 .. k -> Nat] : Partial(g, values, k)
    BY <1>2
  <2>2. k \in Nat /\ k + 1 \in 1 .. Len(values) /\ values[k + 1] \in Nat
    BY <1>0, <1>2
  <2> DEFINE h == [n \in 0 .. (k + 1) |->
                     IF n = k + 1 THEN g[k] + values[k + 1] ELSE g[n]]
  <2>3. h \in [0 .. (k + 1) -> Nat]
    BY <2>1, <2>2
  <2>4. ASSUME NEW n \in 0 .. (k + 1)
        PROVE  h[n] = IF n = 0 THEN 0 ELSE h[n - 1] + values[n]
    <3>1. CASE n = k + 1
      <4>1. h[n] = g[k] + values[n] /\ n # 0 /\ n - 1 = k
        BY <2>2, <3>1
      <4>2. h[k] = g[k]
        BY <2>2
      <4> QED
        BY <4>1, <4>2
    <3>2. CASE n # k + 1
      <4>1. n \in 0 .. k /\ h[n] = g[n]
        BY <2>2, <3>2
      <4>2. g[n] = IF n = 0 THEN 0 ELSE g[n - 1] + values[n]
        BY <2>1, <4>1 DEF Partial
      <4>3. n # 0 => h[n - 1] = g[n - 1]
        BY <2>2, <4>1
      <4> QED
        BY <4>1, <4>2, <4>3
    <3> QED
      BY <3>1, <3>2
  <2>5. Partial(h, values, k + 1)
    BY <2>4 DEF Partial
  <2> HIDE DEF h
  <2>6. \E f \in [0 .. (k + 1) -> Nat] : Partial(f, values, k + 1)
    BY <2>3, <2>5
  <2>7. k + 1 \in Nat
    BY <2>2
  <2> QED
    BY <2>6, <2>7
<1> HIDE DEF S
<1>3. Len(values) \in S
  BY <1>0, <1>1, <1>2, UpTo
<1> QED
  BY <1>3 DEF S

\* So the recursive function of Sum exists, and the sum is its last value.
LEMMA SumsUp ==
    ASSUME NEW values \in Seq(Nat)
    PROVE  \E g \in [0 .. Len(values) -> Nat] :
              Partial(g, values, Len(values)) /\ Sum(values) = g[Len(values)]
<1> DEFINE L == Len(values)
           Body(g) == [n \in 0 .. L |-> IF n = 0 THEN 0 ELSE g[n - 1] + values[n]]
           upTo == CHOOSE g : g = Body(g)
<1>0. L \in Nat
  OBVIOUS
<1>1. Sum(values) = upTo[L]
  BY DEF Sum
<1>2. PICK g \in [0 .. L -> Nat] : Partial(g, values, L)
  BY PartialSums
<1>3. g = Body(g)
  BY <1>2 DEF Partial
<1>4. upTo = Body(upTo)
  BY <1>3
<1> HIDE DEF upTo
<1>5. \A n \in 0 .. L : upTo[n] = IF n = 0 THEN 0 ELSE upTo[n - 1] + values[n]
  BY <1>4
<1>6. ASSUME NEW n \in 0 .. L
      PROVE  upTo[n] \in Nat
  <2> DEFINE S == {k \in 0 .. n : upTo[k] \in Nat}
  <2>1. 0 \in S
    BY <1>0, <1>5
  <2>2. ASSUME NEW k \in S, k \in 0 .. n, k # n
        PROVE  k + 1 \in S
    <3>1. k + 1 \in 1 .. L /\ k + 1 \in 1 .. n /\ values[k + 1] \in Nat /\ (k + 1) - 1 = k
      BY <1>0, <2>2
    <3>2. upTo[k + 1] = upTo[k] + values[k + 1]
      BY <1>5, <3>1
    <3> QED
      BY <2>2, <3>1, <3>2
  <2>3. n \in Nat
    BY <1>0
  <2> HIDE DEF S
  <2>4. n \in S
    BY <2>1, <2>2, <2>3, UpTo
  <2> QED
    BY <2>4 DEF S
<1>7. upTo \in [0 .. L -> Nat]
  BY <1>4, <1>6
<1> QED
  BY <1>1, <1>5, <1>7 DEF Partial

\* Without one of its summands a sum is less by that summand.
LEMMA SumWithout ==
    ASSUME NEW w \in Seq(Nat), NEW p \in 1 .. Len(w)
    PROVE  /\ [w EXCEPT ![p] = 0] \in Seq(Nat)
           /\ Sum([w EXCEPT ![p] = 0]) = Sum(w) - w[p]
<1> DEFINE L == Len(w)
           u == [w EXCEPT ![p] = 0]
<1>0. L \in Nat
  OBVIOUS
<1>1. u \in Seq(Nat) /\ Len(u) = L
  OBVIOUS
<1>2. \A n \in 1 .. L : u[n] = IF n = p THEN 0 ELSE w[n]
  OBVIOUS
<1> HIDE DEF u
<1>3. PICK g \in [0 .. L -> Nat] : Partial(g, w, L) /\ Sum(w) = g[L]
  BY SumsUp
<1>4. PICK h \in [0 .. L -> Nat] : Partial(h, u, L) /\ Sum(u) = h[L]
  BY <1>1, SumsUp
<1> DEFINE S == {k \in 0 .. L : h[k] = g[k] - (IF k >= p THEN w[p] ELSE 0)}
<1>5. 0 \in S
  BY <1>0, <1>3, <1>4 DEF Partial
<1>6. ASSUME NEW k \in S, k \in 0 .. L, k # L
      PROVE  k + 1 \in S
  <2>1. k + 1 \in 1 .. L /\ (k + 1) - 1 = k
    BY <1>0, <1>6
  <2>2. g[k + 1] = g[k] + w[k + 1] /\ h[k + 1] = h[k] + u[k + 1]
    <3>1. k + 1 \in 0 .. L /\ k + 1 # 0
      BY <2>1
    <3> QED
      BY <1>1, <1>3, <1>4, <2>1, <3>1 DEF Partial
  <2>3. /\ g[k] \in Nat /\ h[k] \in Nat /\ w[k + 1] \in Nat /\ w[p] \in Nat
        /\ h[k] = g[k] - (IF k >= p THEN w[p] ELSE 0)
    BY <1>0, <1>6, <2>1
  <2> QED
    BY <1>2, <2>1, <2>2, <2>3
<1>7. L \in S
  BY <1>0, <1>5, <1>6, UpTo
<1>8. h[L] = g[L] - w[p]
  BY <1>0, <1>7
<1> QED
  BY <1>1, <1>3, <1>4, <1>8 DEF u

\* A number takes the place of a summand that is no less.
LEMMA InItsPlace ==
    ASSUME NEW u \in Seq(Nat), NEW p \in 1 .. Len(u), NEW all \in Nat,
           NEW a \in Nat, NEW x \in Nat, a + Sum(u) <= all, x <= u[p]
    PROVE  (a + x) + Sum([u EXCEPT ![p] = 0]) <= all
<1>1. Sum([u EXCEPT ![p] = 0]) = Sum(u) - u[p]
  BY SumWithout
<1>2. Sum(u) \in Nat
  BY SumsUp
<1>3. u[p] \in Nat
  OBVIOUS
<1> QED
  BY <1>1, <1>2, <1>3

\* Summands each of which is covered by one of others of its own are together
\* covered by those: going through the former, one by one, what is summed up
\* and what is left of the latter never exceed them.
LEMMA SumCovered ==
    ASSUME NEW v \in Seq(Nat), NEW w \in Seq(Nat),
           NEW P \in SUBSET (1 .. Len(v)), NEW cover \in [P -> 1 .. Len(w)],
           \A i, j \in P : cover[i] = cover[j] => i = j,
           \A i \in P : v[i] <= w[cover[i]],
           \A i \in (1 .. Len(v)) \ P : v[i] = 0
    PROVE  Sum(v) <= Sum(w)
<1> DEFINE Rest(k) == [n \in 1 .. Len(w) |->
                         IF \E i \in P : i <= k /\ cover[i] = n THEN 0 ELSE w[n]]
<1>0. Len(v) \in Nat /\ Len(w) \in Nat
  OBVIOUS
<1>1. ASSUME NEW k \in 0 .. Len(v)
      PROVE  /\ Rest(k) \in Seq(Nat) /\ Len(Rest(k)) = Len(w)
             /\ Sum(Rest(k)) \in Nat
  <2>1. \A n \in 1 .. Len(w) : w[n] \in Nat
    OBVIOUS
  <2>2. Rest(k) \in Seq(Nat) /\ Len(Rest(k)) = Len(w)
    BY <1>0, <2>1
  <2> HIDE DEF Rest
  <2>3. \E r \in [0 .. Len(w) -> Nat] : Sum(Rest(k)) = r[Len(w)]
    BY <2>2, SumsUp
  <2>4. Sum(Rest(k)) \in Nat
    BY <1>0, <2>3
  <2> QED
    BY <2>2, <2>4
<1>2. Rest(0) = w
  <2>1. \A n \in 1 .. Len(w) : Rest(0)[n] = w[n]
    OBVIOUS
  <2>2. w = [n \in 1 .. Len(w) |-> w[n]]
    OBVIOUS
  <2> QED
    BY <2>1, <2>2
<1>3. PICK g \in [0 .. Len(v) -> Nat] : Partial(g, v, Len(v)) /\ Sum(v) = g[Len(v)]
  BY SumsUp
<1>4. PICK r \in [0 .. Len(w) -> Nat] : Sum(w) = r[Len(w)]
  BY SumsUp
<1> DEFINE S == {k \in 0 .. Len(v) : g[k] + Sum(Rest(k)) <= Sum(w)}
<1>5. 0 \in S
  <2>1. g[0] = 0
    BY <1>0, <1>3 DEF Partial
  <2>2. Sum(w) \in Nat
    BY <1>0, <1>4
  <2> HIDE DEF Rest
  <2> QED
    BY <1>0, <1>2, <2>1, <2>2
<1>6. ASSUME NEW k \in S, k \in 0 .. Len(v), k # Len(v)
      PROVE  k + 1 \in S
  <2>1. k + 1 \in 1 .. Len(v) /\ k + 1 \in 0 .. Len(v) /\ (k + 1) - 1 = k
    BY <1>0, <1>6
  <2>2. g[k + 1] = g[k] + v[k + 1]
    <3>1. k + 1 # 0
      BY <2>1
    <3> QED
      BY <1>3, <2>1, <3>1 DEF Partial
  <2>3. /\ g[k] \in Nat /\ v[k + 1] \in Nat
        /\ Sum(Rest(k)) \in Nat /\ Sum(Rest(k + 1)) \in Nat /\ Sum(w) \in Nat
        /\ g[k] + Sum(Rest(k)) <= Sum(w)
    <3> HIDE DEF Rest
    <3>1. Sum(Rest(k)) \in Nat /\ Sum(Rest(k + 1)) \in Nat
      BY <1>1, <1>6, <2>1
    <3>2. Sum(w) \in Nat
      BY <1>0, <1>4
    <3>3. g[k] \in Nat /\ v[k + 1] \in Nat
      <4>1. \A i \in 1 .. Len(v) : v[i] \in Nat
        OBVIOUS
      <4>2. \A i \in 0 .. Len(v) : g[i] \in Nat
        BY <1>3
      <4> QED
        BY <1>6, <2>1, <4>1, <4>2
    <3> QED
      BY <1>6, <3>1, <3>2, <3>3
  <2>4. CASE k + 1 \notin P
    <3>1. ASSUME NEW i \in P
          PROVE  i <= k + 1 <=> i <= k
      BY <2>1, <2>4
    <3>2. Rest(k + 1) = Rest(k)
      BY <3>1
    <3>3. v[k + 1] = 0
      BY <2>1, <2>4
    <3> HIDE DEF Rest
    <3> QED
      BY <2>1, <2>2, <2>3, <3>2, <3>3
  <2>5. CASE k + 1 \in P
    <3> DEFINE p == cover[k + 1]
    <3>1. p \in 1 .. Len(w) /\ v[k + 1] <= w[p] /\ w[p] \in Nat
      BY <2>5
    <3>2. Rest(k)[p] = w[p]
      <4>1. ~ \E i \in P : i <= k /\ cover[i] = p
        BY <2>1, <2>5
      <4> QED
        BY <3>1, <4>1
    <3>3. Rest(k + 1) = [Rest(k) EXCEPT ![p] = 0]
      <4>1. ASSUME NEW n \in 1 .. Len(w)
            PROVE  (\E i \in P : i <= k + 1 /\ cover[i] = n)
                     <=> (n = p \/ \E i \in P : i <= k /\ cover[i] = n)
        <5>1. \A i \in P : i <= k + 1 <=> (i <= k \/ i = k + 1)
          BY <2>1
        <5> QED
          BY <2>5, <5>1
      <4> QED
        BY <4>1
    <3> HIDE DEF Rest, p
    <3>4. Rest(k) \in Seq(Nat) /\ Len(Rest(k)) = Len(w)
      BY <1>1, <1>6
    <3>5. g[k + 1] + Sum(Rest(k + 1)) <= Sum(w)
      <4>1. p \in 1 .. Len(Rest(k)) /\ v[k + 1] <= Rest(k)[p]
        BY <3>1, <3>2, <3>4
      <4>2. (g[k] + v[k + 1]) + Sum([Rest(k) EXCEPT ![p] = 0]) <= Sum(w)
        BY <2>3, <3>4, <4>1, InItsPlace
      <4> QED
        BY <2>2, <3>3, <4>2
    <3> QED
      BY <2>1, <3>5
  <2> QED
    BY <2>4, <2>5
<1>7. Len(v) \in S
  <2> HIDE DEF S
  <2> QED
    BY <1>0, <1>5, <1>6, UpTo
<1> QED
  <2>1. Sum(Rest(Len(v))) \in Nat /\ g[Len(v)] \in Nat /\ Sum(w) \in Nat
    <3> HIDE DEF Rest
    <3> QED
      BY <1>0, <1>1, <1>4
  <2> HIDE DEF Rest
  <2> QED
    BY <1>3, <1>7, <2>1

\* For any devices, replugged or not readable in between: the overview's totals
\* are no more than what the host has carried, unless the process was restarted
\* within the second they are of (app.py:1119-1126).
THEOREM TotalsCarried == Spec => []TotalsHonest
<1>1. ASSUME Types, OnceInv, CarriedInv,
             \A i, j \in TotalRows : samples[i].run = samples[j].run
      PROVE  Total <= Sum([k \in 1..Len(Sorted) |-> device[Sorted[k]].carried])
  <2> DEFINE P == {i \in TotalRows : samples[i].rx # Null}
             v == [i \in 1..Len(samples) |->
                     IF i \in TotalRows /\ samples[i].rx # Null THEN samples[i].rx ELSE 0]
             w == [k \in 1..Len(Sorted) |-> device[Sorted[k]].carried]
             cover == [i \in P |-> CHOOSE k \in 1..Len(Sorted) : Sorted[k] = Device(i)]
  <2>1. /\ Len(samples) \in Nat /\ Len(Sorted) \in Nat
        /\ TotalRows \subseteq 1 .. Len(samples)
        /\ \A i \in 1 .. Len(samples) : samples[i] \in Sample /\ Device(i) \in Devices
    BY <1>1, SampleTypes, SortedDevices DEF TotalRows, Stored
  <2>2. v \in Seq(Nat) /\ Len(v) = Len(samples)
    <3>1. \A i \in 1 .. Len(samples) : v[i] \in Nat
      BY <2>1 DEF Sample
    <3>2. v \in [1 .. Len(samples) -> Nat]
      BY <3>1
    <3> HIDE DEF v
    <3> QED
      BY <2>1, <3>2
  <2>3. w \in Seq(Nat) /\ Len(w) = Len(Sorted)
    <3>1. \A k \in 1 .. Len(Sorted) : device[Sorted[k]].carried \in Nat
      <4>1. ASSUME NEW k \in 1 .. Len(Sorted) PROVE Sorted[k] \in Devices
        BY SortedDevices
      <4> QED
        BY <1>1, <4>1 DEF Types
    <3>2. w \in [1 .. Len(Sorted) -> Nat]
      BY <3>1
    <3> HIDE DEF w
    <3> QED
      BY <2>1, <3>2
  <2>4. ASSUME NEW i \in P
        PROVE  cover[i] \in 1 .. Len(Sorted) /\ Sorted[cover[i]] = Device(i)
    <3>1. \E k \in 1 .. Len(Sorted) : Sorted[k] = Device(i)
      BY <2>1, SortedDevices
    <3> QED
      BY <3>1
  <2>5. ASSUME NEW i \in P, NEW j \in P, cover[i] = cover[j]
        PROVE  i = j
    <3>1. Device(i) = Device(j)
      BY <2>4, <2>5
    <3>2. samples[i].at = samples[j].at
      <4>1. i \in DOMAIN samples /\ j \in DOMAIN samples
        BY DEF TotalRows
      <4>2. samples[i].at <= samples[j].at /\ samples[j].at <= samples[i].at
        BY <4>1 DEF TotalRows
      <4>3. samples[i].at \in Int /\ samples[j].at \in Int
        BY <2>1 DEF Sample
      <4> QED
        BY <4>2, <4>3
    <3>3. samples[i].run = samples[j].run /\ i \in Stored /\ j \in Stored
      BY <1>1, <2>1 DEF Stored
    <3> QED
      BY <1>1, <3>1, <3>2, <3>3 DEF OnceInv
  <2>6. ASSUME NEW i \in P
        PROVE  v[i] <= w[cover[i]]
    <3>1. /\ i \in Stored /\ i \in 1 .. Len(samples)
          /\ samples[i].rx \in Nat /\ samples[i].carried \in Nat
      BY <2>1 DEF Stored, Sample
    <3>2. samples[i].rx <= samples[i].carried
      BY <1>1, <3>1 DEF CarriedInv, Earned
    <3>3. samples[i].carried <= device[Device(i)].carried
      BY <1>1, <3>1 DEF CarriedInv, After
    <3>4. w[cover[i]] = device[Device(i)].carried /\ v[i] = samples[i].rx
      BY <2>4, <3>1
    <3>5. device[Device(i)].carried \in Nat
      BY <1>1, <2>1, <3>1 DEF Types
    <3> HIDE DEF v, w, cover
    <3> QED
      BY <3>1, <3>2, <3>3, <3>4, <3>5
  <2>7. \A i \in (1 .. Len(v)) \ P : v[i] = 0
    BY <2>2
  <2>8. cover \in [P -> 1 .. Len(w)] /\ P \in SUBSET (1 .. Len(v))
    BY <2>1, <2>2, <2>3, <2>4
  <2>9. Total = Sum(v)
    BY DEF Total
  <2> HIDE DEF P, v, w, cover
  <2>10. Sum(v) <= Sum(w)
    BY <2>2, <2>3, <2>5, <2>6, <2>7, <2>8, SumCovered
  <2> QED
    BY <2>9, <2>10 DEF w
<1>2. ASSUME Types, OnceInv, CarriedInv PROVE TotalsHonest
  BY <1>1, <1>2 DEF TotalsHonest
<1> QED
  BY <1>2, OnceKept, CarriedKept, PTL
=============================================================================
