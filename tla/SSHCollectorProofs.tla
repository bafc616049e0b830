------------------------- MODULE SSHCollectorProofs -------------------------
(***************************************************************************)
(* What the SSH collector and its parser promise.  The collector, for any  *)
(* keys and bounds: no event is in a second alert, the saved position      *)
(* never runs ahead of what is stored, and an attacker's total is the      *)
(* number of its rows, whatever stores, ends a round, delivers, rotates    *)
(* the log or dies.                                                        *)
(* The parser, for any calendar and tolerance: which time a line gets,     *)
(* when it is refused, and which attempts share a key.  The two            *)
(* specifications share no variable.                                       *)
(***************************************************************************)
EXTENDS SSHCollector, EventTimes, TLAPS, FiniteSetTheorems, SequenceTheorems

\* An event the round inserted waits in `fresh` until the round ends; from
\* then on it is at most in `sent`.  Its row, which INSERT OR IGNORE made, is
\* what keeps it from being inserted again.
Told(k) == sent[k] + fresh[k]

AlertInv ==
    /\ sent \in [Keys -> Nat]
    /\ fresh \in [Keys -> Nat]
    /\ \A k \in Keys : Told(k) <= 1
    /\ \A k \in Keys : Told(k) = 1 => k \in events

\* Initially nothing is inserted and nothing sent.
LEMMA AlertInit == Init => AlertInv
BY DEF Init, AlertInv, Told, None

\* The round may end, or the process die, without an alert: what it inserted
\* is forgotten, which leaves fewer events told.
LEMMA RoundForgotten ==
    ASSUME AlertInv, fresh' = None, UNCHANGED <<sent, events>>
    PROVE  AlertInv'
BY DEF AlertInv, Told, None

\* A round that ends in an alert moves its events from `fresh` to `sent`.
LEMMA RoundDelivered ==
    ASSUME AlertInv, fresh' = None, UNCHANGED events,
           sent' = [k \in Keys |-> sent[k] + fresh[k]]
    PROVE  AlertInv'
BY DEF AlertInv, Told, None

\* Whatever touches neither alerts, inserted events nor rows.
LEMMA AlertUntouched ==
    ASSUME AlertInv, UNCHANGED <<sent, fresh, events>>
    PROVE  AlertInv'
BY DEF AlertInv, Told

\* Only keys without a row are inserted, and those were never told.
LEMMA AlertStored == ASSUME AlertInv, StoreBatch PROVE AlertInv'
<1> DEFINE inserted == batch \ events
<1>1. /\ events' = events \union inserted
      /\ fresh' = [k \in Keys |-> fresh[k] + IF k \in inserted THEN 1 ELSE 0]
      /\ sent' = sent
  BY DEF StoreBatch, Plus
<1>2. sent' \in [Keys -> Nat] /\ fresh' \in [Keys -> Nat]
  BY <1>1 DEF AlertInv
<1>3. ASSUME NEW k \in Keys
      PROVE  Told(k)' <= 1 /\ (Told(k)' = 1 => k \in events')
  <2>1. CASE k \in inserted
    <3>1. Told(k) = 0
      BY <2>1 DEF AlertInv, Told
    <3>2. QED BY <1>1, <2>1, <3>1 DEF AlertInv, Told
  <2>2. CASE k \notin inserted
    <3>1. Told(k)' = Told(k)
      BY <1>1, <2>2 DEF AlertInv, Told
    <3>2. QED BY <1>1, <3>1 DEF AlertInv
  <2>3. QED BY <2>1, <2>2
<1>4. QED BY <1>2, <1>3 DEF AlertInv

\* Every step keeps the invariant.
LEMMA AlertStep == ASSUME AlertInv, [Next]_vars PROVE AlertInv'
<1>1. CASE LogStep
  BY <1>1, AlertUntouched
     DEF LogStep, Write, WriteRest, Rename, Create, disk, round
<1>2. CASE RoundStep
  <2>1. CASE Open
    BY <2>1, AlertUntouched DEF Open, disk
  <2>2. CASE Seek
    BY <2>2, AlertUntouched DEF Seek, disk
  <2>3. CASE SeekFails \/ StoreFails \/ SaveFails \/ DeliverNothing
    BY <2>3, RoundForgotten
       DEF SeekFails, StoreFails, SaveFails, DeliverNothing, EndRound, disk
  <2>4. CASE ReadBatch
    BY <2>4, AlertUntouched DEF ReadBatch, disk
  <2>5. CASE StoreBatch
    BY <2>5, AlertStored
  <2>6. CASE StoreNothing
    BY <2>6, AlertUntouched DEF StoreNothing, disk
  <2>7. CASE SaveTruncates \/ SaveWrites
    BY <2>7, AlertUntouched DEF SaveTruncates, SaveWrites, disk, round
  <2>8. CASE Deliver
    BY <2>8, RoundDelivered DEF Deliver, EndRound, disk
  <2>9. CASE DeliverFails
    <3>1. fresh' = None /\ UNCHANGED events
      BY <2>9 DEF DeliverFails, EndRound, disk
    <3>2. CASE sent' = sent
      BY <3>1, <3>2, RoundForgotten
    <3>3. CASE sent' = [k \in Keys |-> sent[k] + fresh[k]]
      BY <3>1, <3>3, RoundDelivered
    <3>4. QED BY <2>9, <3>2, <3>3 DEF DeliverFails
  <2>10. QED BY <1>2, <2>1, <2>2, <2>3, <2>4, <2>5, <2>6, <2>7, <2>8, <2>9
             DEF RoundStep
<1>3. CASE CooldownEnds \/ Start
  BY <1>3, AlertUntouched DEF CooldownEnds, Start, disk, round
<1>4. CASE Crash
  BY <1>4, RoundForgotten DEF Crash, disk
<1>5. CASE UNCHANGED vars
  BY <1>5, AlertUntouched DEF vars
<1>6. QED BY <1>1, <1>2, <1>3, <1>4, <1>5 DEF Next

\* What the alerts promise follows from what has been told.
LEMMA AlertInvImplies == AlertInv => AlertedOnce
BY DEF AlertInv, AlertedOnce, Told

\* Lines are read again after a crash, a lost cursor or a rotation, and
\* telegram.py may fail with the message delivered or not: still no event is
\* in two alerts or twice in one, and every alert is about a stored event.
THEOREM AlertsUnique == Spec => []AlertedOnce
<1>1. Init => AlertInv
  BY AlertInit
<1>2. AlertInv /\ [Next]_vars => AlertInv'
  BY AlertStep
<1>3. AlertInv => AlertedOnce
  BY AlertInvImplies
<1>4. QED BY <1>1, <1>2, <1>3, PTL DEF Spec

----------------------------------------------------------------------------
(* The log and the positions in it. *)

LogTexts == Keys \union {NoKey}

LogTypes ==
    /\ files \in Seq(Seq(LogTexts))
    /\ Len(files) # 0
    /\ \A f \in 1 .. Len(files) : Len(files[f]) <= MaxLines
    /\ partial \in BOOLEAN
    /\ handle \in 0 .. Len(files)
    /\ origin \in 1 .. Len(files)
    /\ pos \in Nat
    /\ cursor \in Nat
    /\ batch \subseteq Keys
    /\ events \subseteq Keys

\* A file has its lines and, written to later, still has them.
LEMMA FileTypes ==
    ASSUME LogTypes
    PROVE  /\ Len(files) \in Nat \ {0}
           /\ DOMAIN files = 1 .. Len(files)
           /\ \A f \in 1 .. Len(files) :
                /\ files[f] \in Seq(LogTexts)
                /\ Len(files[f]) \in Nat
                /\ DOMAIN files[f] = 1 .. Len(files[f])
                /\ \A i \in 1 .. Len(files[f]) : files[f][i] \in LogTexts
BY DEF LogTypes

\* The bound on the lines of the whole log bounds those of each file.
LEMMA RoomInNewest ==
    ASSUME LogTypes, Cardinality(Written) < MaxLines
    PROVE  Len(files[Newest]) < MaxLines
<1> DEFINE n == Len(files[Newest])
           whole == {Newest} \X (1 .. MaxLines)
<1>1. Newest \in 1 .. Len(files) /\ n \in Nat /\ n <= MaxLines
  BY FileTypes DEF LogTypes, Newest
<1>2. MaxLines \in Nat /\ 1 \in Int /\ MaxLines \in Int
  BY LimitsAssumption
<1>3. SUFFICES ASSUME n = MaxLines PROVE FALSE
  BY <1>1, <1>2
<1>4. whole \subseteq Written
  BY <1>1, <1>3 DEF Written
<1>5. IsFiniteSet(1 .. MaxLines) /\ Cardinality(1 .. MaxLines) = MaxLines
  BY <1>2, FS_Interval
<1>6. IsFiniteSet({Newest}) /\ Cardinality({Newest}) = 1
  BY FS_Singleton
<1>7. Cardinality(whole) = 1 * MaxLines
  BY <1>5, <1>6, FS_Product
<1>8. IsFiniteSet(Written)
  <2>1. IsFiniteSet(1 .. Newest)
    BY <1>1, FS_Interval
  <2>2. IsFiniteSet((1 .. Newest) \X (1 .. MaxLines))
    BY <1>5, <2>1, FS_Product
  <2>3. Written \in SUBSET ((1 .. Newest) \X (1 .. MaxLines))
    BY DEF Written
  <2> QED
    BY <2>2, <2>3, FS_Subset
<1>9. Cardinality(whole) <= Cardinality(Written)
  BY <1>4, <1>8, FS_Subset
<1>10. Cardinality(Written) \in Nat
  BY <1>8, FS_CardinalityType
<1> QED
  BY <1>2, <1>7, <1>9, <1>10

\* What the log gains: every file keeps its lines.
Gained ==
    /\ Len(files) <= Len(files')
    /\ \A f \in 1 .. Len(files) :
         /\ Len(files[f]) <= Len(files[f]')
         /\ \A i \in 1 .. Len(files[f]) : files[f][i]' = files[f][i]

LEMMA GainedTypes ==
    ASSUME LogTypes, LogStep
    PROVE  LogTypes' /\ Gained
<1>0. Newest \in 1 .. Len(files) /\ Len(files) \in Nat
  BY FileTypes DEF LogTypes, Newest
<1>1. ASSUME Write PROVE LogTypes' /\ Gained
  <2>1. PICK line \in LogTexts : files' = [files EXCEPT ![Newest] = Append(@, line)]
    BY <1>1 DEF Write, Grow, LogTexts
  <2> DEFINE file == Append(files[Newest], line)
  <2>2. /\ file \in Seq(LogTexts)
        /\ Len(file) = Len(files[Newest]) + 1
        /\ \A i \in 1 .. Len(files[Newest]) : file[i] = files[Newest][i]
    BY <1>0, FileTypes
  <2>3. Len(file) <= MaxLines
    BY <1>0, <1>1, <2>2, FileTypes, RoomInNewest, LimitsAssumption DEF Write
  <2>4. files' = [files EXCEPT ![Newest] = file]
    BY <2>1
  <2> HIDE DEF file
  <2>5. /\ files' \in Seq(Seq(LogTexts))
        /\ Len(files') = Len(files)
        /\ \A f \in 1 .. Len(files) :
             files'[f] = IF f = Newest THEN file ELSE files[f]
    BY <1>0, <2>2, <2>4, ExceptSeq DEF LogTypes
  <2>6. /\ UNCHANGED <<handle, origin, pos, cursor, batch, events>>
        /\ partial' \in BOOLEAN
    BY <1>1 DEF Write, disk, round
  <2>7. \A f \in 1 .. Len(files) : Len(files'[f]) <= MaxLines
    BY <2>3, <2>5 DEF LogTypes
  <2>8. LogTypes'
    BY <2>5, <2>6, <2>7 DEF LogTypes
  <2>9. Gained
    BY <1>0, <2>2, <2>5, FileTypes DEF Gained
  <2> QED
    BY <2>8, <2>9
<1>2. ASSUME WriteRest \/ Rename PROVE LogTypes' /\ Gained
  <2>1. UNCHANGED <<files, handle, origin, pos, cursor, batch, events>>
        /\ partial' \in BOOLEAN
    BY <1>2 DEF WriteRest, Rename, LogTypes, disk, round
  <2> QED
    BY <2>1, FileTypes DEF LogTypes, Gained
<1>3. ASSUME Create PROVE LogTypes' /\ Gained
  <2>1. /\ UNCHANGED <<handle, origin, pos, cursor, batch, events, partial>>
        /\ files' = Append(files, <<>>)
    BY <1>3 DEF Create, disk, round
  <2>2. <<>> \in Seq(LogTexts) /\ Len(<<>>) = 0
    OBVIOUS
  <2>3. /\ files' \in Seq(Seq(LogTexts))
        /\ Len(files') = Len(files) + 1
        /\ \A f \in 1 .. Len(files) : files'[f] = files[f]
        /\ files'[Len(files) + 1] = <<>>
    BY <1>0, <2>1, <2>2 DEF LogTypes
  <2>4. ASSUME NEW f \in 1 .. Len(files') PROVE Len(files'[f]) <= MaxLines
    <3>1. CASE f = Len(files) + 1
      BY <2>2, <2>3, <3>1, LimitsAssumption
    <3>2. CASE f \in 1 .. Len(files)
      BY <2>3, <3>2 DEF LogTypes
    <3>3. Len(files') = Len(files) + 1
      BY <2>3
    <3>4. f \in 1 .. (Len(files) + 1)
      BY <3>3
    <3>5. f = Len(files) + 1 \/ f \in 1 .. Len(files)
      BY <1>0, <3>4
    <3> QED
      BY <3>1, <3>2, <3>5
  <2>5. LogTypes'
    <3>1. handle' \in 0 .. Len(files') /\ origin' \in 1 .. Len(files')
      BY <1>0, <2>1, <2>3 DEF LogTypes
    <3>2. Len(files') # 0
      BY <1>0, <2>3
    <3> QED
      BY <2>1, <2>3, <2>4, <3>1, <3>2 DEF LogTypes
  <2>6. Gained
    BY <1>0, <2>3, FileTypes DEF Gained
  <2> QED
    BY <2>5, <2>6
<1> QED
  BY <1>1, <1>2, <1>3 DEF LogStep
----------------------------------------------------------------------------
(* What lies before a position *)

\* The i-th line of a file was stored, or has no event, or was passed over.
Settled(f, i) ==
    \/ i \in 1 .. Len(files[f]) /\ files[f][i] \in events \union {NoKey}
    \/ <<f, i>> \in missed

Behind(f, p) == \A i \in 1 .. MaxLines : 2 * i <= p => Settled(f, i)

\* Between reading and storing, the lines read last may wait in `batch`.
BehindOrRead(f, p) ==
    \A i \in 1 .. MaxLines : 2 * i <= p =>
        \/ Settled(f, i)
        \/ i \in 1 .. Len(files[f]) /\ files[f][i] \in batch

\* Wherever a position is kept, the lines before it are settled: in the cursor
\* file for the file it was saved for, and in the round for the open file.
CursorInv ==
    /\ LogTypes
    /\ pc \in {"down", "idle", "opened", "reading", "store", "truncate", "write"}
    /\ Behind(origin, cursor)
    /\ pc \notin {"down", "idle"} => handle \in 1 .. Len(files)
    /\ pc \in {"reading", "truncate", "write"} => Behind(handle, pos)
    /\ pc = "store" => BehindOrRead(handle, pos)

\* What settles a line is permanent.
LEMMA StaysSettled ==
    ASSUME LogTypes, LogTypes', Gained,
           events \subseteq events', missed \subseteq missed',
           NEW f \in 1 .. Len(files), NEW i \in 1 .. MaxLines, Settled(f, i)
    PROVE  Settled(f, i)'
<1>1. CASE i \in 1 .. Len(files[f]) /\ files[f][i] \in events \union {NoKey}
  <2>1. i \in 1 .. Len(files'[f]) /\ files'[f][i] = files[f][i]
    <3>1. Len(files[f]) <= Len(files'[f]) /\ files'[f][i] = files[f][i]
      BY <1>1 DEF Gained
    <3>2. Len(files[f]) \in Nat
      BY FileTypes
    <3>3. Len(files'[f]) \in Int
      BY <1>1 DEF LogTypes, Gained
    <3> QED
      BY <1>1, <3>1, <3>2
  <2> QED
    BY <1>1, <2>1 DEF Settled
<1>2. CASE <<f, i>> \in missed
  BY <1>2 DEF Settled
<1> QED
  BY <1>1, <1>2 DEF Settled

\* So does a whole prefix of a file.
LEMMA StaysBehind ==
    ASSUME LogTypes, LogTypes', Gained,
           events \subseteq events', missed \subseteq missed',
           NEW f \in 1 .. Len(files), NEW p, Behind(f, p)
    PROVE  Behind(f, p)'
BY StaysSettled DEF Behind

\* The saved position of a step that does not save.
LEMMA CursorStays ==
    ASSUME CursorInv, LogTypes', Gained,
           events \subseteq events', missed \subseteq missed',
           UNCHANGED <<cursor, origin>>
    PROVE  Behind(origin, cursor)'
<1>1. PICK f \in 1 .. Len(files) : f = origin
  BY DEF CursorInv, LogTypes
<1>2. PICK p : p = cursor
  OBVIOUS
<1>3. Behind(f, p)
  BY <1>1, <1>2 DEF CursorInv
<1>4. Behind(f, p)'
  BY <1>3, StaysBehind DEF CursorInv
<1>5. origin' = f /\ cursor' = p
  BY <1>1, <1>2
<1> QED
  BY <1>4, <1>5

\* A step outside the round, or one that leaves the round's file and position.
LEMMA CursorKept ==
    ASSUME CursorInv, LogTypes', Gained,
           events \subseteq events', missed \subseteq missed',
           UNCHANGED <<cursor, origin, pc, handle, pos, batch>>
    PROVE  CursorInv'
<1>0. Behind(origin, cursor)'
  BY CursorStays
<1>1. ASSUME pc \notin {"down", "idle"}
      PROVE  /\ handle' \in 1 .. Len(files')
             /\ pc \in {"reading", "truncate", "write"} => Behind(handle, pos)'
             /\ pc = "store" => BehindOrRead(handle, pos)'
  <2>1. PICK f \in 1 .. Len(files) : f = handle
    BY <1>1 DEF CursorInv
  <2>2. PICK p : p = pos
    OBVIOUS
  <2>3. handle' = f /\ pos' = p
    BY <2>1, <2>2
  <2>4. handle' \in 1 .. Len(files')
    BY <2>1, <2>3 DEF LogTypes
  <2>5. ASSUME pc \in {"reading", "truncate", "write"} PROVE Behind(handle, pos)'
    <3>1. Behind(f, p)
      BY <2>1, <2>2, <2>5 DEF CursorInv
    <3>2. Behind(f, p)'
      BY <3>1, StaysBehind DEF CursorInv
    <3> QED
      BY <2>3, <3>2
  <2>6. ASSUME pc = "store" PROVE BehindOrRead(handle, pos)'
    <3>1. ASSUME NEW i \in 1 .. MaxLines, 2 * i <= p
          PROVE  \/ Settled(f, i)'
                 \/ i \in 1 .. Len(files'[f]) /\ files'[f][i] \in batch'
      <4>1. CASE Settled(f, i)
        BY <4>1, StaysSettled DEF CursorInv
      <4>2. CASE i \in 1 .. Len(files[f]) /\ files[f][i] \in batch
        <5>1. Len(files[f]) <= Len(files'[f]) /\ files'[f][i] = files[f][i]
          BY <4>2 DEF Gained
        <5>2. Len(files[f]) \in Nat /\ Len(files'[f]) \in Int
          BY FileTypes DEF CursorInv, LogTypes, Gained
        <5> QED
          BY <4>2, <5>1, <5>2
      <4> QED
        BY <2>1, <2>2, <2>6, <3>1, <4>1, <4>2 DEF CursorInv, BehindOrRead
    <3> QED
      BY <2>3, <3>1 DEF BehindOrRead, Settled
  <2> QED
    BY <2>4, <2>5, <2>6
<1> QED
  BY <1>0, <1>1 DEF CursorInv

\* A step that does not touch the log.
LEMMA GainedNothing ==
    ASSUME LogTypes, UNCHANGED files
    PROVE  Gained
BY FileTypes DEF Gained

\* A round that ends, and a process that dies, keep only the cursor.
LEMMA CursorLeft ==
    ASSUME CursorInv, UNCHANGED <<log, events, cursor, origin, missed>>,
           pc' \in {"idle", "down"}, handle' = 0, pos' = 0, batch' = {}
    PROVE  CursorInv'
<1>1. LogTypes'
  BY FileTypes DEF CursorInv, LogTypes, log
<1>2. Gained
  BY GainedNothing DEF CursorInv, log
<1>3. Behind(origin, cursor)'
  BY <1>1, <1>2, CursorStays
<1> QED
  BY <1>1, <1>3 DEF CursorInv

\* The position is the saved one, or the lines before it are passed over.
LEMMA CursorSeek == ASSUME CursorInv, Seek PROVE CursorInv'
<1>0. /\ UNCHANGED <<files, partial, events, cursor, handle, origin, batch>>
      /\ pc = "opened" /\ pc' = "reading"
      /\ handle \in 1 .. Len(files)
      /\ pos' \in {0, cursor}
  BY DEF Seek, log, disk, CursorInv, Goto
<1>1. LogTypes'
  BY <1>0 DEF CursorInv, LogTypes
<1>2. Gained
  BY <1>0, GainedNothing DEF CursorInv
<1>3. missed \subseteq missed'
  BY DEF Seek
<1>4. Behind(origin, cursor)'
  BY <1>0, <1>1, <1>2, <1>3, CursorStays
<1>5. Behind(handle, pos)'
  <2>1. CASE origin = handle
    <3>1. CASE pos' = cursor
      BY <1>0, <1>4, <2>1, <3>1 DEF Behind, Settled
    <3>2. CASE pos' = 0
      BY <3>2, LimitsAssumption DEF Behind
    <3> QED
      BY <1>0, <3>1, <3>2
  <2>2. CASE origin # handle
    <3>1. missed' = missed \union {<<handle, i>> :
                        i \in {j \in 1 .. MaxLines : 2 * (j - 1) < pos'}}
      BY <2>2 DEF Seek
    <3>2. pos' \in Nat
      BY <1>1 DEF LogTypes
    <3>3. ASSUME NEW i \in 1 .. MaxLines, 2 * i <= pos'
          PROVE  <<handle, i>> \in missed'
      <4>1. 2 * (i - 1) < pos'
        BY <3>2, <3>3, LimitsAssumption
      <4> QED
        BY <3>1, <4>1
    <3> QED
      BY <1>0, <3>3 DEF Behind, Settled
  <2> QED
    BY <2>1, <2>2
<1> QED
  BY <1>0, <1>1, <1>4, <1>5 DEF CursorInv

\* Reading ends within the file.
LEMMA Progress ==
    ASSUME LogTypes, handle \in 1 .. Len(files), pos < Size(handle)
    PROVE  /\ NextPosition(pos) \in Nat
           /\ NextPosition(pos) <= 2 * Len(files[handle])
<1>1. Len(files[handle]) \in Nat /\ pos \in Nat /\ BatchSize \in Nat \ {0}
  BY FileTypes, LimitsAssumption DEF LogTypes
<1>2. /\ Size(handle) \in Int
      /\ Size(handle) <= 2 * Len(files[handle])
  <2>1. CASE handle = Newest /\ partial
    <3>1. Size(handle) = 2 * Len(files[handle]) - 1
      BY <2>1 DEF Size
    <3> QED
      BY <1>1, <3>1
  <2>2. CASE ~(handle = Newest /\ partial)
    <3>1. Size(handle) = 2 * Len(files[handle]) - 0
      BY <2>2 DEF Size
    <3> QED
      BY <1>1, <3>1
  <2> QED
    BY <2>1, <2>2
<1>3. Size(handle) \in Nat
  BY <1>1, <1>2
<1>4. 2 * ((pos \div 2) + BatchSize) \in Nat
  BY <1>1
<1> QED
  BY <1>2, <1>3, <1>4 DEF NextPosition

\* Every line on the way is read whole or in part.
LEMMA ReadWholeOrNot ==
    ASSUME LogTypes, NEW f \in 1 .. Len(files), NEW p \in Nat, NEW q \in Nat,
           q <= 2 * Len(files[f]),
           NEW i \in 1 .. MaxLines, p < 2 * i, 2 * i <= q
    PROVE  /\ i \in 1 .. Len(files[f])
           /\ i \in Lines(f, p, q) \/ i \in Fragments(f, p, q)
<1>1. Len(files[f]) \in Nat /\ DOMAIN files[f] = 1 .. Len(files[f])
  BY FileTypes
<1>2. i \in Nat /\ 1 <= i
  BY LimitsAssumption
<1>3. i \in 1 .. Len(files[f])
  BY <1>1, <1>2
<1>4. 2 * (i - 1) < q
  BY <1>2
<1> QED
  BY <1>1, <1>3, <1>4 DEF Lines, Fragments

\* What is read waits in the batch.
LEMMA CursorRead == ASSUME CursorInv, ReadBatch PROVE CursorInv'
<1>0. /\ UNCHANGED <<files, partial, events, cursor, handle, origin>>
      /\ pc = "reading" /\ pc' = "store"
      /\ handle \in 1 .. Len(files)
      /\ pos' = NextPosition(pos) /\ pos < Size(handle)
      /\ batch' = {files[handle][i] : i \in Lines(handle, pos, pos')} \ {NoKey}
      /\ missed' = missed \union
             {<<handle, i>> : i \in Fragments(handle, pos, pos')}
  BY DEF ReadBatch, log, disk, CursorInv, Goto
<1>1. LogTypes /\ pos \in Nat
  BY DEF CursorInv, LogTypes
<1>2. pos' \in Nat /\ pos' <= 2 * Len(files[handle])
  BY <1>0, <1>1, Progress
<1>3. batch' \subseteq Keys
  <2>1. \A i \in Lines(handle, pos, pos') : files[handle][i] \in LogTexts
    BY <1>0, <1>1, FileTypes DEF Lines
  <2> QED
    BY <1>0, <2>1 DEF LogTexts
<1>4. LogTypes'
  BY <1>0, <1>1, <1>2, <1>3 DEF LogTypes
<1>5. Gained
  BY <1>0, <1>1, GainedNothing
<1>6. missed \subseteq missed'
  BY <1>0
<1>7. Behind(origin, cursor)'
  BY <1>0, <1>4, <1>5, <1>6, CursorStays
<1>8. BehindOrRead(handle, pos)'
  <2>1. PICK f \in 1 .. Len(files) : f = handle
    BY <1>0
  <2>2. PICK p \in Nat, q \in Nat : p = pos /\ q = pos'
    BY <1>1, <1>2
  <2>3. ASSUME NEW i \in 1 .. MaxLines, 2 * i <= q
        PROVE  \/ Settled(f, i)'
               \/ i \in 1 .. Len(files'[f]) /\ files'[f][i] \in batch'
    <3>1. CASE 2 * i <= p
      <4>1. Settled(f, i)
        BY <1>0, <2>1, <2>2, <3>1 DEF CursorInv, Behind
      <4> QED
        BY <1>0, <1>1, <1>4, <1>5, <1>6, <4>1, StaysSettled
    <3>2. CASE p < 2 * i
      <4>1. /\ i \in 1 .. Len(files[f])
            /\ i \in Lines(f, p, q) \/ i \in Fragments(f, p, q)
        BY <1>1, <1>2, <2>1, <2>2, <2>3, <3>2, ReadWholeOrNot
      <4>2. CASE i \in Lines(f, p, q)
        <5>1. files[f][i] \in batch' \/ files[f][i] = NoKey
          BY <1>0, <2>1, <2>2, <4>2
        <5> QED
          BY <1>0, <4>1, <5>1 DEF Settled
      <4>3. CASE i \in Fragments(f, p, q)
        <5>1. <<f, i>> \in missed'
          BY <1>0, <2>1, <2>2, <4>3
        <5> QED
          BY <5>1 DEF Settled
      <4> QED
        BY <4>1, <4>2, <4>3
    <3> QED
      BY <3>1, <3>2, LimitsAssumption
  <2>4. handle' = f /\ pos' = q
    BY <1>0, <2>1, <2>2
  <2> QED
    BY <2>3, <2>4 DEF BehindOrRead, Settled
<1> QED
  BY <1>0, <1>4, <1>7, <1>8 DEF CursorInv

\* A batch is settled by being stored, whole.
LEMMA CursorStore == ASSUME CursorInv, StoreBatch \/ StoreNothing PROVE CursorInv'
<1>0. /\ UNCHANGED <<files, partial, cursor, handle, pos, batch, origin, missed>>
      /\ pc = "store" /\ pc' = "truncate"
      /\ handle \in 1 .. Len(files)
      /\ events' = events \union batch
  BY DEF StoreBatch, StoreNothing, log, disk, CursorInv, Goto
<1>1. LogTypes'
  BY <1>0 DEF CursorInv, LogTypes
<1>2. Gained
  BY <1>0, GainedNothing DEF CursorInv
<1>3. Behind(origin, cursor)'
  BY <1>0, <1>1, <1>2, CursorStays
<1>4. Behind(handle, pos)'
  <2>1. BehindOrRead(handle, pos)
    BY <1>0 DEF CursorInv
  <2> QED
    BY <1>0, <2>1 DEF Behind, BehindOrRead, Settled
<1> QED
  BY <1>0, <1>1, <1>3, <1>4 DEF CursorInv

\* The cursor file is emptied before it is written.
LEMMA CursorSaved ==
    ASSUME CursorInv, SaveTruncates \/ SaveWrites
    PROVE  CursorInv'
<1>0. /\ UNCHANGED <<files, partial, events, handle, pos, batch, missed>>
      /\ pc \in {"truncate", "write"} /\ pc' \in {"write", "reading"}
      /\ handle \in 1 .. Len(files)
      /\ Behind(handle, pos)
  BY DEF SaveTruncates, SaveWrites, log, disk, round, CursorInv, Goto
<1>1. Behind(handle, pos)'
  BY <1>0 DEF Behind, Settled
<1>2. \/ cursor' = 0 /\ origin' = origin
      \/ cursor' = pos /\ origin' = handle
  BY DEF SaveTruncates, SaveWrites
<1>3. LogTypes'
  BY <1>0, <1>2 DEF CursorInv, LogTypes
<1>4. Behind(origin, cursor)'
  <2>1. CASE cursor' = 0
    BY <2>1, LimitsAssumption DEF Behind
  <2>2. CASE cursor' = pos /\ origin' = handle
    BY <1>0, <1>1, <2>2 DEF Behind, Settled
  <2> QED
    BY <1>2, <2>1, <2>2
<1> QED
  BY <1>0, <1>1, <1>3, <1>4 DEF CursorInv

LEMMA CursorOpen == ASSUME CursorInv, Open PROVE CursorInv'
<1>0. /\ UNCHANGED <<files, partial, events, cursor, pos, batch, origin, missed>>
      /\ pc' = "opened" /\ handle' = Newest
  BY DEF Open, log, disk, Goto
<1>1. Newest \in 1 .. Len(files)
  BY FileTypes DEF CursorInv, LogTypes, Newest
<1>2. LogTypes'
  BY <1>0, <1>1 DEF CursorInv, LogTypes
<1>3. Gained
  BY <1>0, GainedNothing DEF CursorInv
<1>4. Behind(origin, cursor)'
  BY <1>0, <1>2, <1>3, CursorStays
<1> QED
  BY <1>0, <1>1, <1>2, <1>4 DEF CursorInv

LEMMA CursorStep == ASSUME CursorInv, [Next]_vars PROVE CursorInv'
<1>1. CASE LogStep
  <2>1. LogTypes' /\ Gained
    BY <1>1, GainedTypes DEF CursorInv
  <2>2. UNCHANGED <<events, missed, cursor, origin, pc, handle, pos, batch>>
    BY <1>1 DEF LogStep, Write, WriteRest, Rename, Create, disk, round
  <2> QED
    BY <2>1, <2>2, CursorKept
<1>2. CASE RoundStep
  <2>1. CASE SeekFails \/ StoreFails \/ SaveFails \/ DeliverNothing
    BY <2>1, CursorLeft
       DEF SeekFails, StoreFails, SaveFails, DeliverNothing, EndRound, disk
  <2>2. CASE Deliver \/ DeliverFails
    BY <2>2, CursorLeft DEF Deliver, DeliverFails, EndRound, disk
  <2> QED
    BY <1>2, <2>1, <2>2, CursorOpen, CursorSeek, CursorRead, CursorStore,
       CursorSaved DEF RoundStep
<1>3. CASE CooldownEnds \/ UNCHANGED vars
  <2>1. UNCHANGED <<files, partial, events, missed, cursor, origin, pc, handle,
                    pos, batch>>
    BY <1>3 DEF CooldownEnds, vars, log, disk, round
  <2>2. LogTypes'
    BY <2>1 DEF CursorInv, LogTypes
  <2>3. Gained
    BY <2>1, GainedNothing DEF CursorInv
  <2> QED
    BY <2>1, <2>2, <2>3, CursorKept
<1>4. CASE Start
  <2>1. /\ UNCHANGED <<files, partial, events, missed, cursor, origin, handle,
                       pos, batch>>
        /\ pc' = "idle"
    BY <1>4 DEF Start, Goto, log, disk, round
  <2>2. LogTypes'
    BY <2>1 DEF CursorInv, LogTypes
  <2>3. Gained
    BY <2>1, GainedNothing DEF CursorInv
  <2>4. Behind(origin, cursor)'
    BY <2>1, <2>2, <2>3, CursorStays
  <2> QED
    BY <2>1, <2>2, <2>4 DEF CursorInv
<1>5. CASE Crash
  BY <1>5, CursorLeft DEF Crash, disk
<1> QED
  BY <1>1, <1>2, <1>3, <1>4, <1>5 DEF Next

LEMMA CursorInit == Init => CursorInv
<1> SUFFICES ASSUME Init PROVE CursorInv
  OBVIOUS
<1>1. files = << <<>> >> /\ <<>> \in Seq(LogTexts) /\ Len(<<>>) = 0
  BY DEF Init
<1>2. /\ files \in Seq(Seq(LogTexts)) /\ Len(files) = 1 /\ files[1] = <<>>
  BY <1>1
<1>3. \A f \in 1 .. Len(files) : Len(files[f]) <= MaxLines
  BY <1>1, <1>2, LimitsAssumption
<1>4. LogTypes
  <2>1. partial \in BOOLEAN /\ handle \in 0 .. Len(files) /\ origin \in 1 .. Len(files)
    <3>1. partial = FALSE /\ handle = 0 /\ origin = 1
      BY DEF Init
    <3>2. 0 \in 0 .. Len(files) /\ 1 \in 1 .. Len(files)
      BY <1>2
    <3> QED
      BY <3>1, <3>2
  <2>2. pos \in Nat /\ cursor \in Nat /\ batch \subseteq Keys /\ events \subseteq Keys
    BY DEF Init
  <2>3. Len(files) # 0
    BY <1>2
  <2> QED
    BY <1>2, <1>3, <2>1, <2>2, <2>3 DEF LogTypes
<1>5. Behind(origin, cursor)
  BY LimitsAssumption DEF Init, Behind
<1> QED
  BY <1>4, <1>5 DEF Init, CursorInv

\* The position is saved after the transaction, write_text empties the cursor
\* file first, the log is rotated under the round, a round fails anywhere and the
\* process dies anywhere: a line before the saved position is stored, has no event
\* or was passed over without being read whole.
THEOREM CursorFollows == Spec => []CursorBehindStore
<1>1. CursorInv => CursorBehindStore
  <2> SUFFICES ASSUME CursorInv, NEW i \in DOMAIN files[origin], 2 * i <= cursor
               PROVE  \/ files[origin][i] \in events \union {NoKey}
                      \/ <<origin, i>> \in missed
    BY DEF CursorBehindStore
  <2>1. /\ DOMAIN files[origin] = 1 .. Len(files[origin])
        /\ Len(files[origin]) \in Nat /\ Len(files[origin]) <= MaxLines
    BY FileTypes DEF CursorInv, LogTypes
  <2>2. i \in 1 .. MaxLines
    BY <2>1, LimitsAssumption
  <2>3. Settled(origin, i)
    BY <2>2 DEF CursorInv, Behind
  <2> QED
    BY <2>3 DEF Settled
<1>2. CursorInv /\ [Next]_vars => CursorInv'
  BY CursorStep
<1> QED
  BY <1>1, <1>2, CursorInit, PTL DEF Spec

----------------------------------------------------------------------------
(* What is counted *)

\* What the parser finds in finitely many lines is finite, so that Cardinality
\* says how many rows a transaction inserts.
CountInv ==
    /\ LogTypes
    /\ IsFiniteSet(events) /\ IsFiniteSet(batch)
    /\ attackers \in [Sources -> Nat]
    /\ CountsMatch

\* A file has finitely many lines, so any keys found in it are finitely many.
LEMMA ReadFinite ==
    ASSUME LogTypes, NEW f \in 1 .. Len(files),
           NEW ks, \A k \in ks : \E i \in DOMAIN files[f] : k = files[f][i]
    PROVE  IsFiniteSet(ks)
<1> DEFINE n == Len(files[f])
           found == {files[f][i] : i \in 1 .. n}
<1>1. n \in Nat /\ DOMAIN files[f] = 1 .. n /\ files[f] \in Seq(LogTexts)
  BY FileTypes
<1>2. files[f] \in [1 .. n -> found]
  BY <1>1
<1>3. files[f] \in Surjection(1 .. n, found)
  BY <1>2 DEF Surjection
<1>4. IsFiniteSet(1 .. n)
  BY <1>1, FS_Interval
<1>5. IsFiniteSet(found)
  BY <1>3, <1>4, FS_Surjection
<1>6. ks \in SUBSET found
  BY <1>1
<1> QED
  BY <1>5, <1>6, FS_Subset

\* Adding new elements to a finite set adds their number.
LEMMA NewOnesCount ==
    ASSUME NEW S, NEW T, IsFiniteSet(S), IsFiniteSet(T), S \cap T = {}
    PROVE  /\ IsFiniteSet(S \union T)
           /\ Cardinality(S \union T) = Cardinality(S) + Cardinality(T)
           /\ Cardinality(S) \in Nat /\ Cardinality(T) \in Nat
<1>1. Cardinality(S) \in Nat /\ Cardinality(T) \in Nat
  BY FS_CardinalityType
<1>2. Cardinality(S \cap T) = 0
  BY FS_EmptySet
<1>3. /\ IsFiniteSet(S \union T)
      /\ Cardinality(S \union T) =
           Cardinality(S) + Cardinality(T) - Cardinality(S \cap T)
  BY FS_Union
<1> QED
  BY <1>1, <1>2, <1>3

LEMMA CountStored == ASSUME CountInv, LogTypes', StoreBatch PROVE CountInv'
<1> DEFINE inserted == batch \ events
<1>1. /\ events' = events \union inserted /\ batch' = batch
      /\ attackers' = [s \in Sources |->
                         attackers[s] + Cardinality(KeysOf(s, inserted))]
  BY DEF StoreBatch
<1>2. IsFiniteSet(inserted) /\ events \cap inserted = {}
  BY FS_Difference DEF CountInv
<1> HIDE DEF inserted
<1>3. IsFiniteSet(events') /\ IsFiniteSet(batch')
  BY <1>1, <1>2, NewOnesCount DEF CountInv
<1>4. ASSUME NEW s \in Sources
      PROVE  /\ Cardinality(KeysOf(s, inserted)) \in Nat
             /\ attackers'[s] = Cardinality(KeysOf(s, events'))
  <2> DEFINE old == KeysOf(s, events)
             new == KeysOf(s, inserted)
  <2>1. old \in SUBSET events /\ new \in SUBSET inserted
    BY DEF KeysOf
  <2>2. old \cap new = {} /\ KeysOf(s, events') = old \union new
    BY <1>1, <1>2 DEF KeysOf
  <2>3. IsFiniteSet(old) /\ IsFiniteSet(new)
    BY <1>2, <2>1, FS_Subset DEF CountInv
  <2>4. attackers[s] = Cardinality(old)
    BY DEF CountInv, CountsMatch
  <2>5. attackers'[s] = attackers[s] + Cardinality(new)
    BY <1>1
  <2> HIDE DEF old, new
  <2>6. /\ Cardinality(new) \in Nat
        /\ Cardinality(old \union new) = Cardinality(old) + Cardinality(new)
    BY <2>2, <2>3, NewOnesCount
  <2>7. attackers'[s] = Cardinality(KeysOf(s, events'))
    BY <2>2, <2>4, <2>5, <2>6
  <2> QED
    BY <2>6, <2>7 DEF new
<1>5. attackers' \in [Sources -> Nat]
  <2>1. \A s \in Sources : attackers[s] \in Nat
    BY DEF CountInv
  <2> QED
    BY <1>1, <1>4, <2>1
<1> QED
  BY <1>3, <1>4, <1>5 DEF CountInv, CountsMatch

LEMMA CountRead ==
    ASSUME CountInv, handle \in 1 .. Len(files), LogTypes', ReadBatch
    PROVE  CountInv'
<1>1. UNCHANGED <<events, attackers>>
  BY DEF ReadBatch, disk
<1>2. PICK f \in 1 .. Len(files) : f = handle
  OBVIOUS
<1>3. PICK ks : ks = batch'
  OBVIOUS
<1>4. \A k \in ks : \E i \in DOMAIN files[f] : k = files[f][i]
  BY <1>2, <1>3 DEF ReadBatch, Lines
<1>5. IsFiniteSet(ks)
  BY <1>4, ReadFinite DEF CountInv
<1> QED
  BY <1>1, <1>3, <1>5 DEF CountInv, CountsMatch

\* Whatever touches no row and no counter.
LEMMA CountOthers ==
    ASSUME CountInv, LogTypes', batch' \in {batch, {}}, UNCHANGED disk
    PROVE  CountInv'
<1>1. IsFiniteSet(batch')
  BY FS_EmptySet DEF CountInv
<1> QED
  BY <1>1 DEF CountInv, CountsMatch, disk

LEMMA CountStep ==
    ASSUME CountInv, CursorInv, CursorInv', [Next]_vars
    PROVE  CountInv'
<1>0. LogTypes'
  BY DEF CursorInv
<1>1. CASE LogStep
  BY <1>0, <1>1, CountOthers
     DEF LogStep, Write, WriteRest, Rename, Create, round
<1>2. CASE RoundStep
  <2>1. CASE Open \/ Seek
    BY <1>0, <2>1, CountOthers DEF Open, Seek
  <2>2. CASE ReadBatch
    <3>1. handle \in 1 .. Len(files)
      BY <2>2 DEF CursorInv, ReadBatch, Goto
    <3> QED
      BY <1>0, <2>2, <3>1, CountRead
  <2>3. CASE StoreBatch
    BY <1>0, <2>3, CountStored
  <2>4. CASE StoreNothing \/ SaveTruncates \/ SaveWrites
    BY <1>0, <2>4, CountOthers DEF StoreNothing, SaveTruncates, SaveWrites, round
  <2>5. CASE \/ SeekFails \/ StoreFails \/ SaveFails
             \/ Deliver \/ DeliverFails \/ DeliverNothing
    BY <1>0, <2>5, CountOthers
       DEF SeekFails, StoreFails, SaveFails, Deliver, DeliverFails,
           DeliverNothing, EndRound
  <2> QED
    BY <1>2, <2>1, <2>2, <2>3, <2>4, <2>5 DEF RoundStep
<1>3. CASE CooldownEnds \/ Start \/ UNCHANGED vars
  BY <1>0, <1>3, CountOthers DEF CooldownEnds, Start, vars, round, disk
<1>4. CASE Crash
  BY <1>0, <1>4, CountOthers DEF Crash
<1> QED
  BY <1>1, <1>2, <1>3, <1>4 DEF Next

LEMMA CountInit == Init => CountInv
<1> SUFFICES ASSUME Init PROVE CountInv
  OBVIOUS
<1>1. LogTypes
  BY CursorInit DEF CursorInv
<1>2. events = {} /\ batch = {} /\ attackers = [s \in Sources |-> 0]
  BY DEF Init
<1>3. IsFiniteSet({}) /\ Cardinality({}) = 0
  BY FS_EmptySet
<1>4. \A s \in Sources : KeysOf(s, events) = {}
  BY <1>2 DEF KeysOf
<1> QED
  BY <1>1, <1>2, <1>3, <1>4 DEF CountInv, CountsMatch

\* Lines are read again after a crash, a failed cursor write or a rotation: an
\* attacker's total stays the number of distinct events stored, because only rows
\* really inserted are counted, in their transaction.
THEOREM CountsExact == Spec => []CountsMatch
<1>1. CursorInv /\ [Next]_vars => CursorInv'
  BY CursorStep
<1>2. CountInv /\ CursorInv /\ CursorInv' /\ [Next]_vars => CountInv'
  BY CountStep
<1>3. CountInv => CountsMatch
  BY DEF CountInv
<1> QED
  BY <1>1, <1>2, <1>3, CursorInit, CountInit, PTL DEF Spec

----------------------------------------------------------------------------
(* The parser: what reading a line again can change, which time a line     *)
(* gets and when it is refused, and which attempts share a key.            *)

\* Every reading is of a line, and holds what the parser made of it.
ReadsParse ==
    /\ now \in Nat /\ lines \subseteq Line
    /\ \A r \in reads :
        /\ r = [line |-> r.line, at |-> r.at, out |-> r.out]
        /\ r.line \in Line
        /\ r.out = Parse(r.line, r.at)

\* Lines of a style that has a time of its own.
LEMMA StampOf ==
    ASSUME NEW line, NEW at
    PROVE  /\ line.style = "iso" => Stamp(line, at) = line.written
           /\ line.style = "syslog"
                => Stamp(line, at) = YearOf(at) * Year + (line.written % Year)
  BY DEF Stamp, StampYear

LEMMA EventOf ==
    ASSUME NEW line, NEW at, Parse(line, at).kind = "event"
    PROVE  /\ Parse(line, at).stamp = Stamp(line, at)
           /\ Parse(line, at).user = line.user
           /\ Parse(line, at).reason = Reasons[line.form]
           /\ line.style # "other"
  BY DEF Parse, NoEvent, Refused

LEMMA ParseInvariant == ParserSpec => []ReadsParse
<1>1. ParserInit => ReadsParse
  BY DEF ParserInit, ReadsParse
<1>2. ReadsParse /\ [ParserNext]_parserVars => ReadsParse'
  <2> SUFFICES ASSUME ReadsParse, [ParserNext]_parserVars PROVE ReadsParse'
    OBVIOUS
  <2>1. CASE UNCHANGED parserVars \/ Tick \/ SetBack
    <3>1. now' \in Nat
      BY <2>1, BoundsAssumption DEF parserVars, Tick, SetBack, ReadsParse
    <3> QED
      BY <2>1, <3>1 DEF parserVars, Tick, SetBack, ReadsParse
  <2>2. CASE WriteLine
    <3>1. PICK text \in Texts :
            lines' = lines \union {[style |-> text.style, form |-> text.form,
                                     user |-> text.user, written |-> now]}
      BY <2>2 DEF WriteLine
    <3> QED
      BY <2>2, <3>1, TextsAssumption DEF WriteLine, ReadsParse, Line
  <2>3. CASE Read
    <3>1. PICK line \in lines :
            reads' = reads \union {[line |-> line, at |-> now, out |-> Parse(line, now)]}
      BY <2>3 DEF Read
    <3> QED
      BY <2>3, <3>1 DEF Read, ReadsParse
  <2> QED
    BY <2>1, <2>2, <2>3 DEF ParserNext
<1> QED
  BY <1>1, <1>2, PTL DEF ParserSpec

LEMMA ReadsAgree == ReadsParse => RereadOnce
<1> SUFFICES ASSUME ReadsParse, NEW r \in Events, NEW s \in Events,
                    r.line = s.line, Key(r.out) # Key(s.out)
             PROVE  \/ r.line.style = "none"
                    \/ (r.line.style = "syslog" /\ YearOf(r.at) # YearOf(s.at))
  BY DEF RereadOnce
<1> PICK line : line = r.line
  OBVIOUS
<1>1. /\ r.out = Parse(line, r.at) /\ s.out = Parse(line, s.at)
      /\ line.style \in Styles
      /\ r.out.kind = "event" /\ s.out.kind = "event"
  BY DEF ReadsParse, Events, Line
<1>2. /\ Key(r.out) = <<Stamp(line, r.at), line.user, Reasons[line.form]>>
      /\ Key(s.out) = <<Stamp(line, s.at), line.user, Reasons[line.form]>>
      /\ line.style \in {"iso", "syslog", "none"}
  BY <1>1, EventOf DEF Key, Styles
<1>3. Stamp(line, r.at) # Stamp(line, s.at)
  BY <1>2
<1> QED
  BY <1>2, <1>3, StampOf

\* For any calendar, tolerance and lines: reading a line again gives its event again,
\* unless the line has no time of its own, or no year and is read in another
\* (ssh_parser.py:21-25, 289-302).
THEOREM RereadSame == ParserSpec => []RereadOnce
  BY ParseInvariant, ReadsAgree, PTL

----------------------------------------------------------------------------
(* Years: the only arithmetic of the model.                                *)

LEMMA DivMod ==
    ASSUME NEW a \in Nat
    PROVE  /\ YearOf(a) \in Nat /\ a % Year \in Nat /\ a % Year < Year
           /\ a = YearOf(a) * Year + (a % Year)
  BY YearAssumption DEF YearOf

\* A later time is not in an earlier year.
LEMMA YearsPass ==
    ASSUME NEW a \in Nat, NEW b \in Nat, a <= b
    PROVE  YearOf(a) * Year <= YearOf(b) * Year
<1>1. PICK ya \in Nat, yb \in Nat : ya = YearOf(a) /\ yb = YearOf(b)
  BY DivMod
<1>2. PICK ra \in Nat, rb \in Nat : ra = a % Year /\ rb = b % Year
  BY DivMod
<1>3. a = ya * Year + ra /\ b = yb * Year + rb /\ ra < Year /\ rb < Year /\ Year \in Nat
  BY <1>1, <1>2, DivMod, YearAssumption
<1>4. CASE ya <= yb
  <2> DEFINE d == yb - ya
  <2>1. d \in Nat /\ yb = ya + d
    BY <1>1, <1>4
  <2> HIDE DEF d
  <2>2. yb * Year = ya * Year + d * Year /\ d * Year \in Nat /\ ya * Year \in Nat
    BY <1>1, <1>3, <2>1
  <2> QED
    BY <1>1, <2>2
<1>5. CASE ya > yb
  <2> DEFINE d == ya - yb - 1
  <2>1. d \in Nat /\ ya = yb + 1 + d
    BY <1>1, <1>5
  <2> HIDE DEF d
  <2>2. ya * Year = yb * Year + Year + d * Year /\ d * Year \in Nat /\ yb * Year \in Nat
    BY <1>1, <1>3, <2>1
  <2> QED
    BY <1>3, <2>2
<1> QED
  BY <1>1, <1>4, <1>5

\* Unless the clock has been set back, no line is read before it was written.
ReadsFollow ==
    /\ shifts \in Nat
    /\ \A r \in reads : r.at \in Nat
    /\ shifts = 0 => /\ \A line \in lines : line.written <= now
                    /\ \A r \in reads : r.line.written <= r.at

LEMMA FollowStep ==
    ASSUME ReadsParse, ReadsFollow, [ParserNext]_parserVars
    PROVE  ReadsFollow'
<1>1. CASE UNCHANGED parserVars
  BY <1>1 DEF parserVars, ReadsFollow
<1>2. CASE Tick
  <2>1. \A line \in lines : line.written \in Nat
    BY DEF ReadsParse, Line
  <2> QED
    BY <1>2, <2>1 DEF Tick, ReadsFollow, ReadsParse
<1>3. CASE SetBack
  BY <1>3 DEF SetBack, ReadsFollow
<1>4. CASE WriteLine
  <2>1. PICK text \in Texts :
          lines' = lines \union {[style |-> text.style, form |-> text.form,
                                   user |-> text.user, written |-> now]}
    BY <1>4 DEF WriteLine
  <2> QED
    BY <1>4, <2>1 DEF WriteLine, ReadsFollow, ReadsParse
<1>5. CASE Read
  <2>1. PICK line \in lines :
          reads' = reads \union {[line |-> line, at |-> now, out |-> Parse(line, now)]}
    BY <1>5 DEF Read
  <2> QED
    BY <1>5, <2>1 DEF Read, ReadsFollow, ReadsParse
<1> QED
  BY <1>1, <1>2, <1>3, <1>4, <1>5 DEF ParserNext

LEMMA Following == ParserSpec => [](ReadsParse /\ ReadsFollow)
<1>1. ParserInit => ReadsFollow
  BY DEF ParserInit, ReadsFollow
<1>2. ReadsParse /\ ReadsFollow /\ [ParserNext]_parserVars => ReadsFollow'
  BY FollowStep
<1> QED
  BY <1>1, <1>2, ParseInvariant, PTL DEF ParserSpec

\* What the time of a line becomes when it is read in its year, and after it.
LEMMA StampRight ==
    ASSUME NEW line \in Line, NEW at \in Nat
    PROVE  /\ \/ line.style = "iso"
              \/ line.style = "syslog" /\ YearOf(line.written) = YearOf(at)
             => Stamp(line, at) = line.written
           /\ HasStamp(line) => Stamp(line, at) \in Nat
           /\ HasStamp(line) /\ at >= line.written => Stamp(line, at) >= line.written
<1>1. line.written \in Nat
  BY DEF Line
<1> PICK w \in Nat : w = line.written
  BY <1>1
<1> DEFINE y == YearOf(at) * Year
           x == YearOf(w) * Year
           rest == w % Year
<1>2. y \in Nat /\ x \in Nat /\ rest \in Nat
  <2>1. YearOf(at) \in Nat /\ YearOf(w) \in Nat /\ rest \in Nat /\ Year \in Nat
    BY DivMod, YearAssumption
  <2> QED
    BY <2>1
<1>3. w = x + rest
  BY DivMod
<1>4. /\ line.style = "iso" => Stamp(line, at) = w
      /\ line.style = "syslog" => Stamp(line, at) = y + rest
  BY StampOf
<1>5. at >= w => y >= x
  BY YearsPass
<1>6. YearOf(w) = YearOf(at) => x = y
  OBVIOUS
<1> HIDE DEF x, y, rest
<1> QED
  BY <1>2, <1>3, <1>4, <1>5, <1>6 DEF HasStamp

\* When a complete line with a time is refused.
LEMMA RefusedOf ==
    ASSUME NEW line, NEW at, Parse(line, at) = Refused, HasStamp(line),
           line.form \in DOMAIN Reasons, line.user # Bad
    PROVE  ~NotFuture(Stamp(line, at), at)
<1>1. line.form # "foreign" /\ line.form # "marked" /\ line.style # "other"
  BY DEF Reasons, HasStamp
<1>2. CASE NotFuture(Stamp(line, at), at)
  <2>1. Parse(line, at).kind = "event"
    BY <1>1, <1>2 DEF Parse, Valid
  <2> QED
    BY <2>1 DEF Refused
<1> QED
  BY <1>2

LEMMA Honest ==
    ASSUME ReadsParse, ReadsFollow
    PROVE  StampsHonest
<1>1. ASSUME NEW r \in Events
      PROVE  /\ HasStamp(r.line) /\ r.at >= r.line.written => r.out.stamp >= r.line.written
             /\ (r.line.style = "iso" \/ (r.line.style = "syslog" /\ SameYear(r)))
                  => r.out.stamp = r.line.written
  <2>1. /\ r.out = Parse(r.line, r.at) /\ r.line \in Line /\ r.at \in Nat
        /\ r.out.kind = "event"
    BY DEF ReadsParse, ReadsFollow, Events
  <2>2. r.out.stamp = Stamp(r.line, r.at)
    BY <2>1, EventOf
  <2> QED
    BY <2>1, <2>2, StampRight DEF SameYear
<1>2. ASSUME NEW r \in reads, r.out = Refused, HasStamp(r.line),
             r.line.form \in DOMAIN Reasons, r.line.user # Bad
      PROVE  \/ (shifts > 0 /\ r.line.written > r.at + Tolerance)
             \/ (r.line.style = "syslog" /\ ~SameYear(r))
  <2>1. r.out = Parse(r.line, r.at) /\ r.line \in Line /\ r.at \in Nat
    BY DEF ReadsParse, ReadsFollow
  <2>2. ~NotFuture(Stamp(r.line, r.at), r.at)
    BY <1>2, <2>1, RefusedOf
  <2>3. CASE r.line.style = "syslog" /\ ~SameYear(r)
    BY <2>3
  <2>4. CASE ~(r.line.style = "syslog" /\ ~SameYear(r))
    <3>1. Stamp(r.line, r.at) = r.line.written /\ r.line.written \in Nat
      BY <1>2, <2>1, <2>4, StampRight DEF HasStamp, SameYear, Line
    <3>2. r.line.written > r.at + Tolerance
      BY <2>1, <2>2, <3>1, BoundsAssumption DEF NotFuture
    <3>3. shifts # 0
      BY <2>1, <3>1, <3>2, BoundsAssumption DEF ReadsFollow
    <3> QED
      BY <3>2, <3>3 DEF ReadsFollow
  <2> QED
    BY <2>3, <2>4
<1> QED
  BY <1>1, <1>2 DEF StampsHonest

LEMMA Apart ==
    ASSUME ReadsParse, ReadsFollow
    PROVE  KeysTellApart
<1> SUFFICES ASSUME NEW r \in Events, NEW s \in Events, Key(r.out) = Key(s.out)
             PROVE  /\ r.line.user = s.line.user /\ r.line.form = s.line.form
                    /\ \/ r.line.written = s.line.written
                       \/ "none" \in {r.line.style, s.line.style}
                       \/ \E q \in {r, s} : q.line.style = "syslog" /\ ~SameYear(q)
  BY DEF KeysTellApart
<1>1. ASSUME NEW q \in {r, s}
      PROVE  /\ q.out.stamp = Stamp(q.line, q.at) /\ q.out.user = q.line.user
             /\ q.out.reason = Reasons[q.line.form]
             /\ q.line \in Line /\ q.at \in Nat
             /\ q.line.form \in DOMAIN Reasons
             /\ q.line.style \in {"iso", "syslog", "none"}
  <2>1. /\ q.out = Parse(q.line, q.at) /\ q.line \in Line /\ q.at \in Nat
        /\ q.out.kind = "event"
    BY DEF ReadsParse, ReadsFollow, Events
  <2>2. q.line.form \notin {"marked", "foreign"}
    BY <2>1 DEF Parse, NoEvent, Refused
  <2>3. q.line.form \in DOMAIN Reasons /\ q.line.style \in Styles
    BY <2>1, <2>2 DEF Line, Forms
  <2> QED
    BY <2>1, <2>3, EventOf DEF Styles
<1>2. r.out.stamp = s.out.stamp /\ r.out.user = s.out.user /\ r.out.reason = s.out.reason
  BY DEF Key
<1>3. r.line.form = s.line.form
  <2>1. \A f, g \in DOMAIN Reasons : Reasons[f] = Reasons[g] => f = g
    <3>1. /\ DOMAIN Reasons = {"failed", "failed_invalid", "invalid"}
          /\ Reasons["failed"] = "Failed password"
          /\ Reasons["failed_invalid"] = "Failed password for invalid user"
          /\ Reasons["invalid"] = "Invalid user"
      BY DEF Reasons
    <3> QED
      BY <3>1
  <2> QED
    BY <1>1, <1>2, <2>1
<1>4. ASSUME NEW q \in {r, s}, q.line.style # "none",
             ~(q.line.style = "syslog" /\ ~SameYear(q))
      PROVE  q.out.stamp = q.line.written
  BY <1>1, <1>4, StampRight DEF SameYear
<1> QED
  BY <1>1, <1>2, <1>3, <1>4

\* For any calendar, tolerance, lines and turns of the clock: an event has the time
\* of its attempt, or a later year if its line has none, and a complete line is
\* refused only over a clock set back or a turn of the year
\* (ssh_parser.py:83-86, 289-302).
THEOREM TimesHonest == ParserSpec => []StampsHonest
  BY Following, Honest, PTL

\* For any calendar, tolerance, lines and turns of the clock: two attempts are one
\* event only if they agree in time, user and reason, or if one of them has no time
\* of its own or has got a later year (ssh_parser.py:21-25).
THEOREM KeysApart == ParserSpec => []KeysTellApart
  BY Following, Apart, PTL
=============================================================================
