------------------------ MODULE TrafficDetectorProofs ------------------------
(***************************************************************************)
(* Proofs about TrafficDetector: an open alert is followed by an alarmed   *)
(* state machine, a sustained spike raises the alarm, and does not lift    *)
(* the threshold it is judged by.  The invariant of the first two adds     *)
(* what an event says of the machine that produced it, until the event is  *)
(* persisted or lost; that of the third, what the last verdict says of the *)
(* baseline.                                                               *)
(***************************************************************************)
EXTENDS TrafficDetector, TLAPS, FiniteSetTheorems, WellFoundedInduction,
        SequenceTheorems

Machines == [state: States, baseline: Seq(Rates), anomalies: 0 .. Anomalies,
             normals: 0 .. Normals, seen: BOOLEAN]

Types ==
    /\ det \in [Ifaces -> Machines]
    /\ row \in [Ifaces -> {"none", "ALERT", "RESOLVED"}]
    /\ turn \in 0 .. NIfaces
    /\ event \in {"none", "ALERT", "RESOLVED"}
    /\ turn = 0 => event = "none"
    /\ apart \subseteq Ifaces

\* Pending is about the interface at which the round stands.
Pending(i) == turn = i /\ event # "none"

Followed(i) ==
    row[i] = "ALERT" /\ i \notin apart /\ ~Pending(i)
      => det[i].state \in {"ALERT", "RECOVERING"}

Announced(i) == turn = i /\ event = "ALERT" => det[i].state = "ALERT"

Raised(d) == d.anomalies >= Anomalies => d.state \in {"ALERT", "RESOLVED"}

Inv == Types /\ \A i \in Ifaces : Followed(i) /\ Announced(i) /\ Raised(det[i])

----------------------------------------------------------------------------
(* The state machine *)

LEMMA RaiseStates ==
    ASSUME NEW d, NEW run, d.state \in States
    PROVE  /\ d.state \in {"NORMAL", "WATCH"}
                => Raise(d, run) = IF run >= Anomalies THEN "ALERT" ELSE "WATCH"
           /\ d.state \in {"ALERT", "RECOVERING"} => Raise(d, run) = "ALERT"
           /\ d.state = "RESOLVED" => Raise(d, run) = "RESOLVED"
<1>1. CASE d.state \in {"NORMAL", "WATCH"}
  BY <1>1, Zenon DEF Raise
<1>2. CASE d.state = "RECOVERING"
  BY <1>2, Zenon DEF Raise
<1>3. CASE d.state \in {"ALERT", "RESOLVED"}
  BY <1>3, Zenon DEF Raise
<1> QED
  BY <1>1, <1>2, <1>3 DEF States

LEMMA CalmStates ==
    ASSUME NEW d, NEW run, d.state \in States
    PROVE  /\ Calm(d, run) \in States
           /\ d.state = "ALERT" => Calm(d, run) = "RECOVERING"
           /\ d.state = "RECOVERING" => Calm(d, run) \in {"RECOVERING", "RESOLVED"}
           /\ d.state \in {"NORMAL", "WATCH", "RESOLVED"}
                => Calm(d, run) \in {"NORMAL", "WATCH", "RESOLVED"}
<1>1. CASE d.state = "WATCH"
  BY <1>1, Zenon DEF Calm, States
<1>2. CASE d.state = "ALERT"
  BY <1>2, Zenon DEF Calm, States
<1>3. CASE d.state = "RECOVERING"
  BY <1>3, Zenon DEF Calm, States
<1>4. CASE d.state = "RESOLVED"
  BY <1>4, Zenon DEF Calm, States
<1>5. CASE d.state = "NORMAL"
  BY <1>5, Zenon DEF Calm, States
<1> QED
  BY <1>1, <1>2, <1>3, <1>4, <1>5 DEF States

LEMMA EventStates ==
    ASSUME NEW before, NEW after, NEW quiet
    PROVE  /\ EventOf(before, after, quiet) \in {"none", "ALERT", "RESOLVED"}
           /\ EventOf(before, after, quiet) = "ALERT" => after = "ALERT"
           /\ before = "RECOVERING" /\ after = "RESOLVED"
                => EventOf(before, after, quiet) = "RESOLVED"
<1>1. CASE after = "ALERT" /\ before \in {"NORMAL", "WATCH"} /\ ~quiet
  BY <1>1, Zenon DEF EventOf
<1>2. CASE after = "RESOLVED" /\ before = "RECOVERING"
  BY <1>2, Zenon DEF EventOf
<1>3. CASE /\ ~(after = "ALERT" /\ before \in {"NORMAL", "WATCH"} /\ ~quiet)
           /\ ~(after = "RESOLVED" /\ before = "RECOVERING")
  BY <1>3, Zenon DEF EventOf
<1> QED
  BY <1>1, <1>2, <1>3

LEMMA TrainSeq ==
    ASSUME NEW values \in Seq(Rates), NEW rate \in Rates
    PROVE  Train(values, rate) \in Seq(Rates)
<1>1. CASE Len(values) < Window
  BY <1>1 DEF Train
<1>2. CASE ~(Len(values) < Window)
  <2>1. values # <<>>
    BY <1>2, ConfigAssumption
  <2> QED
    BY <1>2, <2>1 DEF Train
<1> QED
  BY <1>1, <1>2

\* What a sample makes of a machine.
LEMMA JudgementStates ==
    ASSUME NEW d \in Machines, Raised(d), NEW rate \in Rates
    PROVE  /\ Judgement(d, rate) \in Machines
           /\ Raised(Judgement(d, rate))
           /\ d.state = "ALERT" => Judgement(d, rate).state \in {"ALERT", "RECOVERING"}
           /\ d.state = "RECOVERING"
                => Judgement(d, rate).state \in {"ALERT", "RECOVERING", "RESOLVED"}
<1>1. d.state \in States /\ d.baseline \in Seq(Rates) /\ d.anomalies \in 0 .. Anomalies
      /\ d.normals \in 0 .. Normals /\ d.seen \in BOOLEAN
  BY DEF Machines
<1>2. CASE Anomalous(d, rate)
  <2>1. PICK run : run = Count(d.anomalies, Anomalies)
    OBVIOUS
  <2>2. Judgement(d, rate) = [state |-> Raise(d, run), baseline |-> d.baseline,
                            anomalies |-> run, normals |-> 0, seen |-> d.seen]
    BY <1>2, <2>1 DEF Judgement
  <2>3. run \in 0 .. Anomalies
    BY <1>1, <2>1, ConfigAssumption DEF Count
  <2>4. /\ Judgement(d, rate).state = Raise(d, run)
        /\ Judgement(d, rate).anomalies = run
    BY <2>2
  <2>5. Raise(d, run) \in States
    BY <1>1, RaiseStates DEF States
  <2>6. Judgement(d, rate) \in Machines
    BY <1>1, <2>2, <2>3, <2>5, ConfigAssumption DEF Machines
  <2>7. Raised(Judgement(d, rate))
    BY <1>1, <2>3, <2>4, RaiseStates, ConfigAssumption DEF Raised, States
  <2> QED
    BY <1>1, <2>4, <2>6, <2>7, RaiseStates
<1>3. CASE ~Anomalous(d, rate)
  <2>1. PICK run : run = Count(d.normals, Normals)
    OBVIOUS
  <2>2. Judgement(d, rate) = [state |-> Calm(d, run),
                            baseline |-> Train(d.baseline, rate),
                            anomalies |-> 0, normals |-> run, seen |-> d.seen]
    BY <1>3, <2>1 DEF Judgement
  <2>3. run \in 0 .. Normals
    BY <1>1, <2>1, ConfigAssumption DEF Count
  <2>4. /\ Judgement(d, rate).state = Calm(d, run)
        /\ Judgement(d, rate).anomalies = 0
    BY <2>2
  <2>5. Calm(d, run) \in States /\ Train(d.baseline, rate) \in Seq(Rates)
    BY <1>1, CalmStates, TrainSeq
  <2>6. Judgement(d, rate) \in Machines
    BY <1>1, <2>2, <2>3, <2>5, ConfigAssumption DEF Machines
  <2>7. Raised(Judgement(d, rate))
    BY <2>4, ConfigAssumption DEF Raised
  <2> QED
    BY <1>1, <2>4, <2>6, <2>7, CalmStates
<1> QED
  BY <1>2, <1>3

----------------------------------------------------------------------------
(* The steps *)

LEMMA JudgeStep ==
    ASSUME Inv, NEW i \in Ifaces, Judge(i)
    PROVE  Inv'
<1>a. PICK rate \in Rates :
        /\ det' = [det EXCEPT ![i] = Judgement(det[i], rate)]
        /\ event' = EventOf(det[i].state, det'[i].state, i \in cooling)
  BY DEF Judge
<1>1. PICK d : /\ d = Judgement(det[i], rate)
               /\ det' = [det EXCEPT ![i] = d]
               /\ event' = EventOf(det[i].state, det'[i].state, i \in cooling)
  BY <1>a
<1>2. det[i] \in Machines /\ Raised(det[i]) /\ Followed(i) /\ turn = i /\ event = "none"
  BY DEF Inv, Types, Judge
<1>3. /\ d \in Machines /\ Raised(d)
      /\ det[i].state = "ALERT" => d.state \in {"ALERT", "RECOVERING"}
      /\ det[i].state = "RECOVERING" => d.state \in {"ALERT", "RECOVERING", "RESOLVED"}
  BY <1>1, <1>2, JudgementStates
<1>4. /\ det' \in [Ifaces -> Machines] /\ det'[i] = d
      /\ \A k \in Ifaces \ {i} : det'[k] = det[k]
  BY <1>1, <1>3 DEF Inv, Types
<1>5. /\ event' \in {"none", "ALERT", "RESOLVED"}
      /\ event' = "ALERT" => d.state = "ALERT"
      /\ det[i].state = "RECOVERING" /\ d.state = "RESOLVED" => event' = "RESOLVED"
  BY <1>1, <1>4, EventStates
<1>6. /\ turn' = IF event' = "none" THEN Follow(i) ELSE i
      /\ row' = row /\ apart' = apart
  BY <1>2 DEF Judge
<1>7. Follow(i) \in 0 .. NIfaces
  BY ConfigAssumption DEF Follow, Ifaces
<1>8. i \in 1 .. NIfaces /\ NIfaces \in Nat
  BY ConfigAssumption DEF Ifaces
<1>9. Types'
  BY <1>4, <1>5, <1>6, <1>7, <1>8 DEF Inv, Types
<1>10. ASSUME NEW k \in Ifaces
       PROVE  Followed(k)' /\ Announced(k)' /\ Raised(det'[k])
  <2>1. CASE k = i
    BY <1>2, <1>3, <1>4, <1>5, <1>6, <2>1 DEF Followed, Announced, Pending
  <2>2. CASE k # i
    BY <1>2, <1>4, <1>6, <2>2 DEF Inv, Followed, Announced, Pending
  <2> QED
    BY <2>1, <2>2
<1> QED
  BY <1>9, <1>10 DEF Inv

LEMMA PersistStep ==
    ASSUME Inv, NEW i \in Ifaces, Persist(i)
    PROVE  Inv'
<1>1. /\ row' = [row EXCEPT ![i] = event] /\ event' = "none" /\ turn' = Follow(i)
      /\ apart' = apart \ {i} /\ det' = det /\ turn = i
  BY DEF Persist
<1>2. Follow(i) \in 0 .. NIfaces
  BY ConfigAssumption DEF Follow, Ifaces
<1>3. Types'
  BY <1>1, <1>2 DEF Inv, Types, Persist
<1>4. ASSUME NEW k \in Ifaces
      PROVE  Followed(k)' /\ Announced(k)'
  <2>1. CASE k = i
    BY <1>1, <2>1 DEF Inv, Types, Followed, Announced, Pending
  <2>2. CASE k # i
    BY <1>1, <2>2 DEF Inv, Types, Followed, Announced, Pending
  <2> QED
    BY <2>1, <2>2
<1> QED
  BY <1>1, <1>3, <1>4 DEF Inv

LEMMA OtherSteps ==
    ASSUME Inv, \/ Begin \/ RoundFails \/ Restart
                \/ \E i \in Ifaces : SampleOnly(i) \/ CooldownEnds(i) \/ ResolveByHand(i)
    PROVE  Inv'
<1>0. NIfaces \in Nat \ {0} /\ Anomalies \in Nat \ {0} /\ Normals \in Nat
  BY ConfigAssumption
<1>1. CASE Begin
  BY <1>0, <1>1 DEF Begin, Inv, Types, Followed, Announced, Pending, Ifaces
<1>2. CASE RoundFails
  <2>1. Types'
    BY <1>0, <1>2 DEF RoundFails, Inv, Types, Ifaces
  <2>2. ASSUME NEW k \in Ifaces PROVE Followed(k)' /\ Announced(k)'
    BY <1>0, <1>2 DEF RoundFails, Inv, Types, Followed, Announced, Pending, Ifaces
  <2> QED
    BY <1>2, <2>1, <2>2 DEF RoundFails, Inv
<1>3. CASE Restart
  <2>1. Fresh \in Machines /\ Raised(Fresh)
    BY <1>0 DEF Fresh, Machines, States, Raised
  <2>2. Types' /\ \A k \in Ifaces : det'[k] = Fresh
    BY <1>0, <1>3, <2>1 DEF Restart, Inv, Types
  <2> QED
    BY <1>0, <1>3, <2>1, <2>2 DEF Restart, Inv, Followed, Announced, Ifaces
<1>4. ASSUME NEW i \in Ifaces, SampleOnly(i) PROVE Inv'
  <2>1. PICK d : d = [det[i] EXCEPT !.seen = TRUE] /\ det' = [det EXCEPT ![i] = d]
    BY <1>4 DEF SampleOnly
  <2>2. det[i] \in Machines /\ Raised(det[i])
    BY DEF Inv, Types
  <2>3. d \in Machines /\ d.state = det[i].state /\ d.anomalies = det[i].anomalies
    BY <2>1, <2>2 DEF Machines
  <2>4. /\ det' \in [Ifaces -> Machines]
        /\ \A k \in Ifaces : det'[k].state = det[k].state /\ Raised(det'[k])
    BY <2>1, <2>2, <2>3 DEF Inv, Types, Raised
  <2>5. turn' \in 0 .. NIfaces /\ event' = "none" /\ event = "none"
    BY <1>0, <1>4 DEF SampleOnly, Follow, Ifaces
  <2> QED
    BY <1>4, <2>4, <2>5 DEF SampleOnly, Inv, Types, Followed, Announced, Pending
<1>5. ASSUME NEW i \in Ifaces, CooldownEnds(i) PROVE Inv'
  BY <1>5 DEF CooldownEnds, Inv, Types, Followed, Announced, Pending
<1>6. ASSUME NEW i \in Ifaces, ResolveByHand(i) PROVE Inv'
  BY <1>6 DEF ResolveByHand, Inv, Types, Followed, Announced, Pending
<1> QED
  BY <1>1, <1>2, <1>3, <1>4, <1>5, <1>6

LEMMA Invariant == Spec => []Inv
<1>1. Init => Inv
  <2> SUFFICES ASSUME Init PROVE Inv
    OBVIOUS
  <2>1. NIfaces \in Nat \ {0} /\ Anomalies \in Nat \ {0} /\ Normals \in Nat
    BY ConfigAssumption
  <2>2. Fresh \in Machines /\ Raised(Fresh)
    BY <2>1 DEF Fresh, Machines, States, Raised
  <2>3. \A i \in Ifaces : det[i] = Fresh /\ row[i] = "none"
    BY DEF Init
  <2>4. Types
    BY <2>1, <2>2 DEF Init, Types
  <2> QED
    BY <2>2, <2>3, <2>4 DEF Init, Inv, Followed, Announced
<1>2. Inv /\ [Next]_vars => Inv'
  <2> SUFFICES ASSUME Inv, [Next]_vars PROVE Inv'
    OBVIOUS
  <2>1. CASE UNCHANGED vars
    BY <2>1 DEF vars, Inv, Types, Followed, Announced, Pending
  <2> QED
    BY <2>1, JudgeStep, PersistStep, OtherSteps DEF Next, RoundStep
<1> QED
  BY <1>1, <1>2, PTL DEF Spec

\* For any number of interfaces, any thresholds and windows: an alert shown as open
\* has a state machine that is alarmed, unless a restart or a failed write came
\* between (traffic_detector.py:138-166).
THEOREM OpenFollowed == Spec => []OpenAlertFollowed
<1>1. Inv => OpenAlertFollowed
  BY DEF Inv, Followed, Pending, OpenAlertFollowed
<1> QED
  BY <1>1, Invariant, PTL

\* For any configuration: as many anomalous samples in a row as configured raise the
\* alarm, except from RESOLVED (traffic_detector.py:139-150).
THEOREM Sustained == Spec => []SustainedRaises
<1>1. Inv => SustainedRaises
  BY DEF Inv, Raised, SustainedRaises
<1> QED
  BY <1>1, Invariant, PTL

----------------------------------------------------------------------------
(* Sums *)

\* A set that holds 0 and, with a number below n, its successor holds n: the
\* intervals 0 .. k are well-founded by inclusion, so a smallest k outside the
\* set would exist.
LEMMA UpTo ==
    ASSUME NEW n \in Nat, NEW S, 0 \in S,
           \A k \in S : k \in 0 .. n /\ k # n => k + 1 \in S
    PROVE  n \in S
<1> DEFINE U == 0 .. n
           R == StrictSubsetOrdering(U)
           T == {0 .. k : k \in U \ S}
<1>1. SUFFICES ASSUME n \notin S PROVE FALSE
  OBVIOUS
<1>2. IsFiniteSet(U)
  BY FS_Interval
<1>3. T \subseteq FiniteSubsetsOf(U)
  <2>1. FiniteSubsetsOf(U) = SUBSET U
    BY <1>2, FS_FiniteSubsetsOfFinite
  <2>2. \A k \in U : 0 .. k \in SUBSET U
    OBVIOUS
  <2> QED
    BY <2>1, <2>2
<1>4. T # {}
  BY <1>1
<1>5. IsWellFoundedOn(R, FiniteSubsetsOf(U))
  BY FS_StrictSubsetOrderingWellFounded
<1> HIDE DEF T, R
<1>6. \E x \in T : \A y \in T : ~ (<<y, x>> \in R)
  BY <1>3, <1>4, <1>5, WFMin
<1>7. PICK k \in U \ S : \A y \in T : <<y, 0 .. k>> \notin R
  BY <1>6 DEF T
<1>8. k - 1 \in U /\ (k - 1) + 1 = k /\ k - 1 # n
  BY <1>7
<1>9. k - 1 \notin S
  BY <1>7, <1>8
<1>10. 0 .. (k - 1) \in T
  BY <1>8, <1>9 DEF T
<1>11. <<0 .. (k - 1), 0 .. k>> \in R
  <2>1. 0 .. (k - 1) \in SUBSET U /\ 0 .. k \in SUBSET U
    BY <1>7, <1>8
  <2>2. k \in 0 .. k /\ k \notin 0 .. (k - 1)
    BY <1>7
  <2>3. 0 .. (k - 1) \subseteq 0 .. k
    BY <1>7
  <2> QED
    BY <2>1, <2>2, <2>3 DEF R, StrictSubsetOrdering
<1> QED
  BY <1>7, <1>10, <1>11

\* The partial sums of a sequence.
Partial(g, values, k) ==
    \A n \in 0 .. k : g[n] = IF n = 0 THEN 0 ELSE g[n - 1] + values[n]

\* Every sequence has them: those of its first k elements extend to k + 1.
LEMMA PartialSums ==
    ASSUME NEW values \in Seq(Nat)
    PROVE  \E g \in [0 .. Len(values) -> Nat] : Partial(g, values, Len(values))
<1> DEFINE S == {k \in Nat : \E g \in [0 .. k -> Nat] : Partial(g, values, k)}
<1>0. Len(values) \in Nat
  OBVIOUS
<1>1. 0 \in S
  <2>1. [n \in 0 .. 0 |-> 0] \in [0 .. 0 -> Nat]
    OBVIOUS
  <2>2. Partial([n \in 0 .. 0 |-> 0], values, 0)
    BY DEF Partial
  <2> QED
    BY <2>1, <2>2
<1>2. ASSUME NEW k \in S, k \in 0 .. Len(values), k # Len(values)
      PROVE  k + 1 \in S
  <2>1. PICK g \in [0 .. k -> Nat] : Partial(g, values, k)
    BY <1>2
  <2>2. k \in Nat /\ k + 1 \in 1 .. Len(values) /\ values[k + 1] \in Nat
    BY <1>0, <1>2
  <2> DEFINE h == [n \in 0 .. (k + 1) |->
                     IF n = k + 1 THEN g[k] + values[k + 1] ELSE g[n]]
  <2>3. h \in [0 .. (k + 1) -> Nat]
    BY <2>1, <2>2
  <2>4. ASSUME NEW n \in 0 .. (k + 1)
        PROVE  h[n] = IF n = 0 THEN 0 ELSE h[n - 1] + values[n]
    <3>1. CASE n = k + 1
      <4>1. h[n] = g[k] + values[n] /\ n # 0 /\ n - 1 = k
        BY <2>2, <3>1
      <4>2. h[k] = g[k]
        BY <2>2
      <4> QED
        BY <4>1, <4>2
    <3>2. CASE n # k + 1
      <4>1. n \in 0 .. k /\ h[n] = g[n]
        BY <2>2, <3>2
      <4>2. g[n] = IF n = 0 THEN 0 ELSE g[n - 1] + values[n]
        BY <2>1, <4>1 DEF Partial
      <4>3. n # 0 => h[n - 1] = g[n - 1]
        BY <2>2, <4>1
      <4> QED
        BY <4>1, <4>2, <4>3
    <3> QED
      BY <3>1, <3>2
  <2>5. Partial(h, values, k + 1)
    BY <2>4 DEF Partial
  <2> HIDE DEF h
  <2>6. \E f \in [0 .. (k + 1) -> Nat] : Partial(f, values, k + 1)
    BY <2>3, <2>5
  <2>7. k + 1 \in Nat
    BY <2>2
  <2> QED
    BY <2>6, <2>7
<1> HIDE DEF S
<1>3. Len(values) \in S
  BY <1>0, <1>1, <1>2, UpTo
<1> QED
  BY <1>3 DEF S

\* So the recursive function of Sum exists, and its values are numbers.
LEMMA SumType == ASSUME NEW values \in Seq(Nat) PROVE Sum(values) \in Nat
<1> DEFINE L == Len(values)
           Body(g) == [n \in 0 .. L |-> IF n = 0 THEN 0 ELSE g[n - 1] + values[n]]
           upTo == CHOOSE g : g = Body(g)
<1>1. Sum(values) = upTo[L]
  BY DEF Sum
<1>2. PICK g \in [0 .. L -> Nat] : Partial(g, values, L)
  BY PartialSums
<1>3. g = Body(g)
  BY <1>2 DEF Partial
<1>4. upTo = Body(upTo)
  BY <1>3
<1> DEFINE S == {k \in 0 .. L : upTo[k] \in Nat}
<1>0. L \in Nat
  OBVIOUS
<1> HIDE DEF upTo
<1>5. \A n \in 0 .. L : upTo[n] = IF n = 0 THEN 0 ELSE upTo[n - 1] + values[n]
  BY <1>4
<1>6. 0 \in S
  BY <1>0, <1>5
<1>7. ASSUME NEW k \in S, k \in 0 .. L, k # L
      PROVE  k + 1 \in S
  <2>1. k + 1 \in 1 .. L /\ values[k + 1] \in Nat /\ (k + 1) - 1 = k
    BY <1>0, <1>7
  <2>2. upTo[k + 1] = upTo[k] + values[k + 1]
    BY <1>5, <2>1
  <2> QED
    BY <1>7, <2>1, <2>2
<1>8. L \in S
  BY <1>0, <1>6, <1>7, UpTo
<1> QED
  BY <1>1, <1>8

----------------------------------------------------------------------------
(* What the last verdict says of the baseline *)

LEMMA Monotonic ==
    ASSUME NEW a \in Nat, NEW b \in Nat, NEW c \in Nat, a <= b
    PROVE  a * c <= b * c
<1>1. PICK d \in Nat : b = a + d
  <2>1. b - a \in Nat /\ b = a + (b - a)
    OBVIOUS
  <2> QED
    BY <2>1
<1>2. b * c = a * c + d * c
  BY <1>1
<1>3. a * c \in Nat /\ d * c \in Nat
  OBVIOUS
<1> QED
  BY <1>2, <1>3

\* The threshold of a baseline is passed by every rate above one that passes it.
LEMMA ReachesMore ==
    ASSUME NEW values \in Seq(Rates), NEW low \in Rates, NEW high \in Rates,
           low <= high, Reaches(low, values)
    PROVE  Reaches(high, values)
<1>1. values \in Seq(Nat) /\ low \in Nat /\ high \in Nat
  BY RatesAssumption, SeqMonotonic
<1>2. Len(values) \in Nat /\ Ratio \in Nat /\ FixedThreshold \in Nat
  BY <1>1, ConfigAssumption
<1>3. Sum(values) \in Nat
  BY <1>1, SumType
<1>4. low * Len(values) <= high * Len(values)
  BY <1>1, <1>2, Monotonic
<1>5. Ratio * Sum(values) \in Nat /\ low * Len(values) \in Nat /\ high * Len(values) \in Nat
  BY <1>1, <1>2, <1>3
<1>6. low >= FixedThreshold /\ low * Len(values) >= Ratio * Sum(values)
  BY DEF Reaches
<1>7. high * Len(values) >= Ratio * Sum(values)
  BY <1>4, <1>5, <1>6
<1> QED
  BY <1>1, <1>2, <1>6, <1>7 DEF Reaches

\* The baseline still finds anomalous what it found anomalous last: the rate
\* under judgement is not trained on.
StillAnomalous(i) ==
    judged[i].anomalous =>
        judged[i].rate \in Rates /\ Anomalous(det[i], judged[i].rate)

Verdicts == [rate: Rates \union {NoRate}, anomalous: BOOLEAN]

VerdictInv ==
    /\ det \in [Ifaces -> Machines]
    /\ judged \in [Ifaces -> Verdicts]
    /\ \A i \in Ifaces : StillAnomalous(i)

\* An anomalous rate leaves the baseline that found it anomalous; a normal one
\* takes the verdict with it.
LEMMA JudgedKept ==
    ASSUME VerdictInv, NEW i \in Ifaces, Judge(i), Inv, Inv'
    PROVE  /\ VerdictInv'
           /\ \E rate \in Rates :
                /\ judged'[i].rate = rate
                /\ judged'[i].anomalous = Anomalous(det[i], rate)
           /\ \A k \in Ifaces \ {i} : judged'[k] = judged[k]
<1>1. PICK rate \in Rates :
        /\ det' = [det EXCEPT ![i] = Judgement(det[i], rate)]
        /\ judged' = [judged EXCEPT ![i] =
                        [rate |-> rate, anomalous |-> Anomalous(det[i], rate)]]
  BY DEF Judge
<1>2. PICK v : v = [rate |-> rate, anomalous |-> Anomalous(det[i], rate)]
  OBVIOUS
<1>3. PICK d : d = Judgement(det[i], rate)
  OBVIOUS
<1>4. det' = [det EXCEPT ![i] = d] /\ judged' = [judged EXCEPT ![i] = v]
  BY <1>1, <1>2, <1>3
<1>5. /\ det'[i] = d /\ \A k \in Ifaces \ {i} : det'[k] = det[k]
      /\ judged'[i] = v /\ \A k \in Ifaces \ {i} : judged'[k] = judged[k]
  BY <1>4 DEF VerdictInv
<1>6. v.rate = rate /\ v.anomalous = Anomalous(det[i], rate)
  BY <1>2
<1>7. v \in Verdicts
  <2>1. Anomalous(det[i], rate) \in BOOLEAN
    BY DEF Anomalous, Reaches
  <2> QED
    BY <1>2, <2>1 DEF Verdicts
<1>8. judged' \in [Ifaces -> Verdicts]
  BY <1>4, <1>7 DEF VerdictInv
<1>9. StillAnomalous(i)'
  <2>1. SUFFICES ASSUME Anomalous(det[i], rate) PROVE Anomalous(d, rate)
    BY <1>5, <1>6 DEF StillAnomalous
  <2>2. d.baseline = det[i].baseline
    BY <1>3, <2>1 DEF Judgement
  <2> QED
    BY <2>1, <2>2 DEF Anomalous
<1>10. ASSUME NEW k \in Ifaces PROVE StillAnomalous(k)'
  BY <1>5, <1>9 DEF VerdictInv, StillAnomalous
<1>11. VerdictInv'
  BY <1>8, <1>10 DEF VerdictInv, Inv, Types
<1> QED
  BY <1>5, <1>6, <1>11

\* Whatever leaves the verdicts and the baselines.
LEMMA VerdictStands ==
    ASSUME VerdictInv, Inv', UNCHANGED judged,
           \A k \in Ifaces : det'[k].baseline = det[k].baseline
    PROVE  VerdictInv'
BY DEF VerdictInv, StillAnomalous, Anomalous, Inv, Types

LEMMA VerdictStep ==
    ASSUME VerdictInv, Inv, Inv', [Next]_vars
    PROVE  VerdictInv'
<1>1. ASSUME NEW i \in Ifaces, Judge(i) PROVE VerdictInv'
  BY <1>1, JudgedKept
<1>2. ASSUME NEW i \in Ifaces, SampleOnly(i) PROVE VerdictInv'
  <2>1. PICK d : d = [det[i] EXCEPT !.seen = TRUE] /\ det' = [det EXCEPT ![i] = d]
    BY <1>2 DEF SampleOnly
  <2>2. d.baseline = det[i].baseline
    BY <2>1 DEF VerdictInv, Machines
  <2>3. \A k \in Ifaces : det'[k].baseline = det[k].baseline
    BY <2>1, <2>2 DEF VerdictInv
  <2> QED
    BY <1>2, <2>3, VerdictStands DEF SampleOnly
<1>3. CASE Restart
  <2>1. \A k \in Ifaces : judged'[k] = Unjudged
    BY <1>3 DEF Restart
  <2>2. Unjudged \in Verdicts /\ Unjudged.anomalous = FALSE
    BY DEF Unjudged, Verdicts
  <2>3. judged' \in [Ifaces -> Verdicts]
    BY <1>3, <2>2 DEF Restart
  <2> QED
    BY <2>1, <2>2, <2>3 DEF VerdictInv, StillAnomalous, Inv, Types
<1>4. CASE \/ Begin \/ RoundFails \/ UNCHANGED vars
           \/ \E i \in Ifaces : Persist(i) \/ CooldownEnds(i) \/ ResolveByHand(i)
  BY <1>4, VerdictStands
     DEF Begin, RoundFails, Persist, CooldownEnds, ResolveByHand, vars
<1> QED
  BY <1>1, <1>2, <1>3, <1>4 DEF Next, RoundStep

SpikeStays ==
    \A i \in Ifaces :
        judged[i].anomalous /\ judged'[i].rate # NoRate
          /\ judged'[i].rate >= judged[i].rate => judged'[i].anomalous

LEMMA SpikeStep ==
    ASSUME VerdictInv, Inv, Inv', [Next]_vars
    PROVE  SpikeStays
<1>1. ASSUME NEW i \in Ifaces, Judge(i) PROVE SpikeStays
  <2>1. PICK rate \in Rates :
          /\ judged'[i].rate = rate
          /\ judged'[i].anomalous = Anomalous(det[i], rate)
          /\ \A k \in Ifaces \ {i} : judged'[k] = judged[k]
    BY <1>1, JudgedKept
  <2>2. ASSUME judged[i].anomalous, rate >= judged[i].rate
        PROVE  judged'[i].anomalous
    <3>1. PICK low \in Rates : low = judged[i].rate
      BY <2>2 DEF VerdictInv, StillAnomalous
    <3>2. Anomalous(det[i], low) /\ det[i].baseline \in Seq(Rates)
      BY <2>2, <3>1 DEF VerdictInv, StillAnomalous, Machines
    <3>3. low <= rate
      BY <2>2, <3>1, RatesAssumption
    <3>4. Anomalous(det[i], rate)
      BY <3>2, <3>3, ReachesMore DEF Anomalous
    <3> QED
      BY <2>1, <3>4
  <2> QED
    BY <2>1, <2>2 DEF SpikeStays
<1>2. CASE Restart
  BY <1>2 DEF Restart, Unjudged, SpikeStays
<1>3. CASE UNCHANGED judged
  BY <1>3 DEF SpikeStays
<1>4. CASE \/ Begin \/ RoundFails \/ UNCHANGED vars
           \/ \E i \in Ifaces : \/ SampleOnly(i) \/ Persist(i)
                                \/ CooldownEnds(i) \/ ResolveByHand(i)
  BY <1>3, <1>4 DEF Begin, RoundFails, SampleOnly, Persist, CooldownEnds,
                    ResolveByHand, vars
<1> QED
  BY <1>1, <1>2, <1>4 DEF Next, RoundStep

\* For any rates, thresholds and windows, and at each interface: a rate at least as
\* high as one just found anomalous is found anomalous too, however many come and
\* whatever happens between, short of a restart (traffic_detector.py:133).
THEOREM SpikesPersist == Spec => SpikeStaysAnomalous
<1>1. Init /\ Inv => VerdictInv
  <2> SUFFICES ASSUME Init, Inv PROVE VerdictInv
    OBVIOUS
  <2>1. Unjudged \in Verdicts /\ Unjudged.anomalous = FALSE
    BY DEF Unjudged, Verdicts
  <2>2. judged = [i \in Ifaces |-> Unjudged]
    BY DEF Init
  <2> QED
    BY <2>1, <2>2 DEF VerdictInv, StillAnomalous, Inv, Types
<1>2. VerdictInv /\ Inv /\ Inv' /\ [Next]_vars => VerdictInv'
  BY VerdictStep
<1>3. VerdictInv /\ Inv /\ Inv' /\ [Next]_vars => [SpikeStays]_judged
  BY SpikeStep
<1>4. SpikeStaysAnomalous <=> [][SpikeStays]_judged
  BY DEF SpikeStaysAnomalous, SpikeStays
<1> QED
  BY <1>1, <1>2, <1>3, <1>4, Invariant, PTL DEF Spec
=============================================================================
