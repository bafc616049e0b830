-------------------------- MODULE TrafficDetector --------------------------
(***************************************************************************)
(* The traffic anomaly detector (services/traffic_detector.py) as the      *)
(* sampling rounds of collectors/network_metrics.py drive it: one state    *)
(* machine per interface in memory, one row per interface in               *)
(* traffic_alerts, which a failed write, a restart or an administrator     *)
(* (PATCH /network/anomalies/{id}/resolved) can set apart from it.         *)
(*                                                                         *)
(* Rates are small numbers compared by the code's own formula.  The rows   *)
(* of network_samples are left out: the detector keeps its own previous    *)
(* sample and never reads them.  A round within the second of the last one *)
(* does nothing and is not a step.                                         *)
(***************************************************************************)
EXTENDS Integers, Sequences

CONSTANTS
    NIfaces,        \* interfaces are 1 .. NIfaces, in the order of a round
    Rates,          \* bytes per second
    NoRate,         \* no rate: first sample, counter reset, invalid counter
    FixedThreshold, \* max(fixed_rate_threshold, minimum_absolute_delta)
    Ratio,          \* deviation_ratio
    Window,         \* rolling_window
    Warmup,         \* warmup_samples
    Anomalies,      \* consecutive_anomalies
    Normals,        \* consecutive_normals
    MaxRestarts,    \* bound: restarts of the process
    MaxFaults       \* bound: SQLite errors

ASSUME RatesAssumption  == Rates \subseteq Nat /\ NoRate \notin Rates
ASSUME ConfigAssumption == /\ NIfaces \in Nat \ {0} /\ FixedThreshold \in Nat
                           /\ Ratio \in Nat \ {0} /\ Window \in Nat
                           /\ Warmup \in 1 .. Window
                           /\ Anomalies \in Nat \ {0} /\ Normals \in Nat \ {0}
                           /\ MaxRestarts \in Nat /\ MaxFaults \in Nat

VARIABLES
    det,        \* _detectors: the state machine of every interface
    cooling,    \* interfaces whose last event is within cooldown_seconds
    row,        \* traffic_alerts.state, or "none" without a row
    turn,       \* the interface the round is at, 0 between rounds
    event,      \* what process returned for it, to be persisted
    \* history
    judged,     \* the last rate of each interface and its verdict
    apart,      \* interfaces whose row a restart or a fault left behind
    restarts, faults

vars == <<det, cooling, row, turn, event, judged, apart, restarts, faults>>

Ifaces == 1 .. NIfaces
States == {"NORMAL", "WATCH", "ALERT", "RECOVERING", "RESOLVED"}

Fresh == [state |-> "NORMAL", baseline |-> <<>>, anomalies |-> 0,
          normals |-> 0, seen |-> FALSE]

Unjudged == [rate |-> NoRate, anomalous |-> FALSE]

Init ==
    /\ det = [i \in Ifaces |-> Fresh] /\ cooling = {}
    /\ row = [i \in Ifaces |-> "none"]
    /\ turn = 0 /\ event = "none"
    /\ judged = [i \in Ifaces |-> Unjudged] /\ apart = {}
    /\ restarts = 0 /\ faults = 0

----------------------------------------------------------------------------
(* InterfaceDetector.process.                                              *)

Sum(values) ==
    LET upTo[n \in 0 .. Len(values)] ==
          IF n = 0 THEN 0 ELSE upTo[n - 1] + values[n]
    IN upTo[Len(values)]

\* rate >= max(fixed, mean * ratio), without the division.
Reaches(rate, values) ==
    /\ rate >= FixedThreshold
    /\ rate * Len(values) >= Ratio * Sum(values)

Anomalous(d, rate) == Len(d.baseline) >= Warmup /\ Reaches(rate, d.baseline)

\* deque(maxlen=rolling_window).
Train(values, rate) ==
    IF Len(values) < Window THEN Append(values, rate)
    ELSE Append(Tail(values), rate)

\* A run is only compared with its limit: counting stops there.
Count(n, limit) == IF n < limit THEN n + 1 ELSE limit

\* Mutant: one more anomalous sample is asked for.
Raise_Late(d, run) ==
    CASE d.state \in {"NORMAL", "WATCH"} ->
           IF run >= Anomalies /\ d.anomalies >= Anomalies
           THEN "ALERT" ELSE "WATCH"
      [] d.state = "RECOVERING" -> "ALERT"
      [] OTHER -> d.state

Raise(d, run) ==
    CASE d.state \in {"NORMAL", "WATCH"} ->
           IF run >= Anomalies THEN "ALERT" ELSE "WATCH"
      [] d.state = "RECOVERING" -> "ALERT"
      [] OTHER -> d.state

Calm(d, run) ==
    CASE d.state = "WATCH" -> "NORMAL"
      [] d.state = "ALERT" -> "RECOVERING"
      [] d.state = "RECOVERING" /\ run >= Normals -> "RESOLVED"
      [] d.state = "RESOLVED" /\ run >= Normals -> "NORMAL"
      [] OTHER -> d.state

\* Mutant: the point under judgement is trained on.
Judgement_Trains(d, rate) ==
    IF Anomalous(d, rate)
    THEN LET run == Count(d.anomalies, Anomalies) IN
         [d EXCEPT !.state = Raise(d, run), !.anomalies = run, !.normals = 0,
                   !.baseline = Train(@, rate)]
    ELSE LET run == Count(d.normals, Normals) IN
         [d EXCEPT !.state = Calm(d, run), !.anomalies = 0, !.normals = run,
                   !.baseline = Train(@, rate)]

\* Mutant: a normal sample does not count as one.
Judgement_KeepsNormals(d, rate) ==
    IF Anomalous(d, rate)
    THEN LET run == Count(d.anomalies, Anomalies) IN
         [d EXCEPT !.state = Raise(d, run), !.anomalies = run, !.normals = 0]
    ELSE [d EXCEPT !.state = Calm(d, d.normals), !.anomalies = 0,
                   !.baseline = Train(@, rate)]

\* The machine after a sample with a rate.
Judgement(d, rate) ==
    IF Anomalous(d, rate)
    THEN LET run == Count(d.anomalies, Anomalies) IN
         [state |-> Raise(d, run), baseline |-> d.baseline,
          anomalies |-> run, normals |-> 0, seen |-> d.seen]
    ELSE LET run == Count(d.normals, Normals) IN
         [state |-> Calm(d, run), baseline |-> Train(d.baseline, rate),
          anomalies |-> 0, normals |-> run, seen |-> d.seen]

\* Mutant: the cooldown hides recoveries too.
EventOf_Hidden(before, after, quiet) ==
    CASE quiet -> "none"
      [] after = "ALERT" /\ before \in {"NORMAL", "WATCH"} -> "ALERT"
      [] after = "RESOLVED" /\ before = "RECOVERING" -> "RESOLVED"
      [] OTHER -> "none"

\* The event, named by the state its row is to have.  The cooldown hides an
\* alert but never a recovery, and turning back to ALERT is no event.
EventOf(before, after, quiet) ==
    CASE after = "ALERT" /\ before \in {"NORMAL", "WATCH"} /\ ~quiet -> "ALERT"
      [] after = "RESOLVED" /\ before = "RECOVERING" -> "RESOLVED"
      [] OTHER -> "none"

----------------------------------------------------------------------------
(* One round: collect_once.                                                *)

Follow(i) == IF i = NIfaces THEN 0 ELSE i + 1

Begin ==
    /\ turn = 0
    /\ turn' = 1
    /\ UNCHANGED <<det, cooling, row, event, judged, apart, restarts, faults>>

\* The interface's counters give no rate; the sample is remembered.  For an
\* interface that is missing from the round nothing changes either.
SampleOnly(i) ==
    /\ turn = i /\ event = "none"
    /\ det' = [det EXCEPT ![i] = [@ EXCEPT !.seen = TRUE]]
    /\ turn' = Follow(i)
    /\ UNCHANGED <<cooling, row, event, judged, apart, restarts, faults>>

\* process, and the round moves on when there is nothing to persist.
Judge(i) ==
    /\ turn = i /\ event = "none"
    /\ det[i].seen
    /\ \E rate \in Rates :
        /\ det' = [det EXCEPT ![i] = Judgement(@, rate)]
        /\ judged' = [judged EXCEPT ![i] =
                        [rate |-> rate, anomalous |-> Anomalous(det[i], rate)]]
        /\ event' = EventOf(det[i].state, det'[i].state, i \in cooling)
    /\ IF event' = "none" THEN turn' = Follow(i) /\ UNCHANGED cooling
       ELSE turn' = turn /\ cooling' = cooling \union {i}
    /\ UNCHANGED <<row, apart, restarts, faults>>

\* persist_detection: the row of this key is inserted or updated, and
\* committed at once, in the middle of the round.
Persist(i) ==
    /\ turn = i /\ event # "none"
    /\ row' = [row EXCEPT ![i] = event]
    /\ event' = "none"
    /\ turn' = Follow(i)
    /\ apart' = apart \ {i}
    /\ UNCHANGED <<det, cooling, judged, restarts, faults>>

\* An SQLite error: the round is rolled back and ends for the interfaces
\* that follow; the state machines keep what they have seen, and an event not
\* yet written is forgotten.
RoundFails ==
    /\ turn # 0
    /\ faults < MaxFaults
    /\ faults' = faults + 1
    /\ turn' = 0
    /\ event' = "none"
    /\ apart' = IF event = "none" THEN apart ELSE apart \union {turn}
    /\ UNCHANGED <<det, cooling, row, judged, restarts>>

CooldownEnds(i) ==
    /\ i \in cooling
    /\ cooling' = cooling \ {i}
    /\ UNCHANGED <<det, row, turn, event, judged, apart, restarts, faults>>

\* The rows stay, the state machines start anew.
Restart ==
    /\ restarts < MaxRestarts
    /\ restarts' = restarts + 1
    /\ det' = [i \in Ifaces |-> Fresh] /\ cooling' = {}
    /\ turn' = 0 /\ event' = "none"
    /\ judged' = [i \in Ifaces |-> Unjudged]
    /\ apart' = Ifaces
    /\ UNCHANGED <<row, faults>>

\* resolve_traffic_anomaly, in the API process: the detector is not told.
ResolveByHand(i) ==
    /\ row[i] # "none"
    /\ row' = [row EXCEPT ![i] = "RESOLVED"]
    /\ UNCHANGED <<det, cooling, turn, event, judged, apart, restarts, faults>>

----------------------------------------------------------------------------

RoundStep == Begin \/ \E i \in Ifaces : SampleOnly(i) \/ Judge(i) \/ Persist(i)

Next ==
    \/ RoundStep
    \/ RoundFails
    \/ Restart
    \/ \E i \in Ifaces : CooldownEnds(i) \/ ResolveByHand(i)

Spec == Init /\ [][Next]_vars

\* The collector loop runs rounds for ever, and counters that are read again
\* and again give a rate again and again.
FairSpec == Spec /\ WF_vars(RoundStep)
                 /\ \A i \in Ifaces : SF_vars(Judge(i))

----------------------------------------------------------------------------
(* Properties.                                                             *)

\* An alert that is shown as open has a state machine that is alarmed and will
\* close it, unless a restart or a failed write came between: no sequence of
\* spikes, recoveries, cooldowns and manual closings leaves it behind
\* (traffic_detector.py:160, cooldown must never hide the resolved signal).
OpenAlertFollowed ==
    \A i \in Ifaces :
        row[i] = "ALERT" /\ i \notin apart /\ ~(turn = i /\ event # "none") =>
            det[i].state \in {"ALERT", "RECOVERING"}

\* As many anomalous samples in a row as configured raise the alarm, unless
\* they began right after a recovery: from RESOLVED the code has no way to
\* ALERT.
SustainedRaises ==
    \A i \in Ifaces :
        det[i].anomalies >= Anomalies => det[i].state \in {"ALERT", "RESOLVED"}

\* A rate at least as high as one just found anomalous is anomalous too
\* (traffic_detector.py:133, a sustained spike must not lift its threshold).
SpikeStaysAnomalous ==
    [][\A i \in Ifaces :
         judged[i].anomalous /\ judged'[i].rate # NoRate
           /\ judged'[i].rate >= judged[i].rate => judged'[i].anomalous]_judged

\* Once the samples of an interface stay normal, an alert open about it does
\* not stay open, however much came between, if no restart or failed write
\* separated it from the state machine.
OpenAlert(i) == row[i] = "ALERT" /\ i \notin apart

OpenAlertCloses ==
    \A i \in Ifaces : <>[](~judged[i].anomalous) => <>[](~OpenAlert(i))
=============================================================================
