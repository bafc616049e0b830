--------------------------- MODULE MigrationsProofs ---------------------------
(***************************************************************************)
(* Proofs about Migrations.  The invariant says of every process which     *)
(* scripts are in effect: all before the one it is at, of that one the     *)
(* statements before its line, and all up to the version it has not yet    *)
(* committed.  Objects and versions are never taken back, so no step of    *)
(* another process, no error and no death disturbs this.                   *)
(***************************************************************************)
EXTENDS Migrations, TLAPS

InEffect(k) == ObjectsOf(k) \subseteq objects

\* Scripts before the one p is at are in effect, and recorded or about to be.
Behind(p, k) ==
    \A j \in 1..(k - 1) : InEffect(j) /\ (j \in versions \/ j = open[p])

LinesDone(p, n) ==
    \A i \in 1..n :
        i \in DOMAIN Scripts[script[p]] /\ Scripts[script[p]][i].do # "record"
          => Scripts[script[p]][i].object \in objects

Endings == {"none", "running", "migrated", "created", "exists", "duplicate",
            "locked", "error", "died"}

Types ==
    /\ versions \subseteq Versions
    /\ pc \in [Processes -> {"off", "read", "scan", "begin", "script", "record",
                             "finish", "check", "insert", "done", "failed"}]
    /\ applied \in [Processes -> SUBSET Versions]
    /\ script \in [Processes -> Versions]
    /\ line \in [Processes -> Nat]
    /\ open \in [Processes -> Versions \union {None}]
    /\ why \in [Processes -> Endings]

\* Where p stands, and what therefore holds.
Standing(p) ==
    /\ applied[p] \subseteq versions
    /\ open[p] # None => \A j \in 1..open[p] : InEffect(j)
    /\ pc[p] \in {"begin", "script", "record"} =>
         script[p] \in Versions /\ Behind(p, script[p])
    /\ pc[p] = "script" =>
         line[p] \in DOMAIN Scripts[script[p]] /\ LinesDone(p, line[p] - 1)
    /\ pc[p] = "begin" => line[p] = 1
    /\ pc[p] = "record" => InEffect(script[p])
    /\ open[p] # None => pc[p] \in {"begin", "finish"}
    /\ pc[p] \notin Idle => why[p] = "running"
    /\ pc[p] = "finish" => Behind(p, Len(Scripts) + 1)
    /\ pc[p] \in {"check", "insert"} \/ why[p] \in {"migrated", "created", "exists"}
         => Behind(p, Len(Scripts) + 1) /\ open[p] = None

Inv == /\ Types
       /\ VersionMeansApplied
       /\ \A p \in Processes : Standing(p)

LEMMA ScriptFacts ==
    /\ Len(Scripts) \in Nat \ {0}
    /\ Versions = 1..Len(Scripts) /\ 1 \in Versions /\ None \notin Versions
  BY ScriptsAssumption DEF Versions, None

LEMMA LineFacts ==
    ASSUME NEW k \in Versions
    PROVE  /\ Len(Scripts[k]) \in Nat \ {0} /\ DOMAIN Scripts[k] = 1..Len(Scripts[k])
           /\ \A i \in DOMAIN Scripts[k] : Scripts[k][i].do = "record" => i = Len(Scripts[k])
  BY ScriptsAssumption, RecordLastAssumption DEF Versions

\* What a step of p leaves alone: what is in the database stays, and so do the
\* locals of the other processes.
Frame(p) ==
    /\ objects \subseteq objects' /\ versions \subseteq versions'
    /\ \A q \in Processes \ {p} :
         /\ pc'[q] = pc[q] /\ applied'[q] = applied[q] /\ script'[q] = script[q]
         /\ line'[q] = line[q] /\ open'[q] = open[q] /\ why'[q] = why[q]

LEMMA OthersStand ==
    ASSUME NEW p \in Processes, NEW q \in Processes \ {p}, Frame(p), Standing(q)
    PROVE  Standing(q)'
  BY DEF Frame, Standing, Behind, LinesDone, InEffect

\* It is enough to look at the process that takes the step.
LEMMA OneStep ==
    ASSUME Inv, NEW p \in Processes, Frame(p), Types', VersionMeansApplied', Standing(p)'
    PROVE  Inv'
<1>1. \A q \in Processes \ {p} : Standing(q)'
  BY OthersStand DEF Inv
<1> QED
  BY <1>1 DEF Inv

\* A version joins those recorded when its script and all before are in effect.
LEMMA Recorded ==
    ASSUME VersionMeansApplied, objects \subseteq objects', NEW k,
           versions' = versions \union {k}, \A j \in 1..k : InEffect(j)'
    PROVE  VersionMeansApplied'
  BY DEF VersionMeansApplied, InEffect

LEMMA SameVersions ==
    ASSUME VersionMeansApplied, objects \subseteq objects', versions' = versions
    PROVE  VersionMeansApplied'
  BY DEF VersionMeansApplied

\* An error or a death takes the process out of every script.
LEMMA OutOfScripts ==
    ASSUME Inv, NEW p \in Processes, pc'[p] \in {"off", "read", "failed"},
           open'[p] = None, why'[p] \notin {"migrated", "created", "exists"},
           pc'[p] = "read" => why'[p] = "running", applied' = applied, versions' = versions
    PROVE  Standing(p)'
  BY DEF Inv, Standing, Idle, None

\* The next script, or the end, is reached with all before in effect.
LEMMA TurnStands ==
    ASSUME Inv, NEW p \in Processes, NEW first \in 1..(Len(Scripts) + 1),
           Turn(p, Unapplied(p, first)),
           objects' = objects, versions' = versions, applied' = applied,
           why' = why, pc[p] \notin Idle,
           open'[p] \in Versions \union {None},
           open'[p] # None => \A j \in 1..open'[p] : InEffect(j),
           \A j \in 1..(first - 1) : InEffect(j) /\ (j \in versions \/ j = open'[p])
    PROVE  Standing(p)'
<1>1. /\ pc \in [Processes -> {"off", "read", "scan", "begin", "script", "record",
                                 "finish", "check", "insert", "done", "failed"}]
      /\ script \in [Processes -> Versions] /\ line \in [Processes -> Nat]
  BY DEF Inv, Types
<1>2. \A j \in first..Len(Scripts) : j \in applied[p] => InEffect(j) /\ j \in versions
  BY ScriptFacts DEF Inv, Types, Standing, VersionMeansApplied, InEffect
<1>3. CASE Unapplied(p, first) = {}
  <2>1. pc'[p] = "finish"
    BY <1>1, <1>3 DEF Inv, Types, Turn
  <2>2. \A j \in 1..Len(Scripts) : InEffect(j) /\ (j \in versions \/ j = open'[p])
    BY <1>2, <1>3, ScriptFacts DEF Unapplied
  <2> QED
    BY <2>1, <2>2, ScriptFacts DEF Inv, Standing, Behind, InEffect
<1>4. ASSUME NEW k \in Unapplied(p, first), \A j \in Unapplied(p, first) : k <= j,
             pc' = [pc EXCEPT ![p] = "begin"], script' = [script EXCEPT ![p] = k],
             line' = [line EXCEPT ![p] = 1]
      PROVE  Standing(p)'
  <2>1. pc'[p] = "begin" /\ script'[p] = k /\ line'[p] = 1 /\ k \in Versions
    BY <1>4, ScriptFacts DEF Inv, Types, Unapplied
  <2>2. \A j \in 1..(k - 1) : InEffect(j) /\ (j \in versions \/ j = open'[p])
    BY <1>2, <1>4, <2>1, ScriptFacts DEF Unapplied
  <2> QED
    BY <2>1, <2>2 DEF Inv, Standing, Behind, InEffect
<1> QED
  BY <1>3, <1>4 DEF Turn

LEMMA TurnTypes ==
    ASSUME Inv, NEW p \in Processes, NEW first \in Nat, Turn(p, Unapplied(p, first)),
           first >= 1
    PROVE  /\ pc' \in [Processes -> {"off", "read", "scan", "begin", "script", "record",
                                     "finish", "check", "insert", "done", "failed"}]
           /\ script' \in [Processes -> Versions] /\ line' \in [Processes -> Nat]
<1>1. Unapplied(p, first) \subseteq Versions
  BY ScriptFacts DEF Unapplied
<1>2. CASE /\ pc' = [pc EXCEPT ![p] = "finish"] /\ UNCHANGED <<script, line>>
  BY <1>2 DEF Inv, Types
<1>3. ASSUME NEW k \in Unapplied(p, first), pc' = [pc EXCEPT ![p] = "begin"],
             script' = [script EXCEPT ![p] = k], line' = [line EXCEPT ![p] = 1]
      PROVE  /\ pc' \in [Processes -> {"off", "read", "scan", "begin", "script", "record",
                                       "finish", "check", "insert", "done", "failed"}]
             /\ script' \in [Processes -> Versions] /\ line' \in [Processes -> Nat]
  BY <1>1, <1>3 DEF Inv, Types
<1> QED
  BY <1>2, <1>3 DEF Turn

LEMMA RunStep ==
    ASSUME Inv, NEW p \in Processes,
           ReadApplied(p) \/ Scan(p) \/ BeginScript(p) \/ RecordVersion(p) \/ Finish(p)
    PROVE  Inv'
<1>0. /\ Types /\ Standing(p) /\ VersionMeansApplied
      /\ \A k \in versions : \A j \in 1..k : InEffect(j)
  BY DEF Inv, VersionMeansApplied, InEffect
<1>1. CASE ReadApplied(p)
  <2>1. Frame(p)
    BY <1>0, <1>1 DEF Frame, Types, ReadApplied, db
  <2>2. Types'
    BY <1>0, <1>1 DEF Types, ReadApplied, db
  <2>3. VersionMeansApplied'
    BY <1>0, <1>1, SameVersions DEF ReadApplied, db
  <2>4. pc'[p] = "scan" /\ applied'[p] = versions /\ open[p] = None /\ why[p] = "running"
    BY <1>0, <1>1 DEF Types, Standing, ReadApplied, Idle
  <2>5. Standing(p)'
    BY <1>1, <2>4 DEF Standing, ReadApplied, db, Idle
  <2> QED
    BY <2>1, <2>2, <2>3, <2>5, OneStep
<1>2. CASE Scan(p)
  <2>1. Frame(p)
    BY <1>0, <1>2 DEF Frame, Types, Scan, Turn, db
  <2>2. Types'
    BY <1>0, <1>2, TurnTypes DEF Types, Scan, db
  <2>3. VersionMeansApplied'
    BY <1>0, <1>2, SameVersions DEF Scan, db
  <2>4. open'[p] = None
    BY <1>0, <1>2 DEF Standing, Scan
  <2>5. Standing(p)'
    BY <1>2, <2>4, ScriptFacts, TurnStands, 1 \in 1..(Len(Scripts) + 1) DEF Scan, db, Idle
  <2> QED
    BY <2>1, <2>2, <2>3, <2>5, OneStep
<1>3. CASE BeginScript(p)
  <2>1. Frame(p)
    BY <1>0, <1>3 DEF Frame, Types, BeginScript, local
  <2>2. Types'
    BY <1>0, <1>3 DEF Types, BeginScript, local
  <2>3. VersionMeansApplied'
    <3>1. CASE open[p] = None
      BY <1>0, <1>3, <3>1, SameVersions DEF BeginScript
    <3>2. CASE open[p] # None
      BY <1>0, <1>3, <3>2, Recorded DEF BeginScript, Standing, InEffect
    <3> QED
      BY <3>1, <3>2
  <2>4. /\ pc[p] = "begin" /\ pc'[p] = "script" /\ open'[p] = None
        /\ versions' = versions \union ({open[p]} \ {None})
    BY <1>0, <1>3 DEF Types, BeginScript
  <2>5. script[p] \in Versions /\ line[p] = 1 /\ Behind(p, script[p])
    BY <1>0, <2>4 DEF Standing
  <2>6. Behind(p, script[p])'
    BY <1>3, <2>4, <2>5, ScriptFacts DEF Behind, BeginScript, local, InEffect
  <2>7. LinesDone(p, line[p] - 1)' /\ line[p] \in DOMAIN Scripts[script[p]]
    BY <2>5, LineFacts, <1>3 DEF LinesDone, BeginScript, local
  <2>8. Standing(p)'
    BY <1>0, <1>3, <2>4, <2>5, <2>6, <2>7 DEF Standing, BeginScript, local, Idle
  <2> QED
    BY <2>1, <2>2, <2>3, <2>8, OneStep
<1>4. CASE RecordVersion(p)
  <2>1. Frame(p)
    BY <1>0, <1>4 DEF Frame, Types, RecordVersion, Turn, db
  <2>2. script[p] \in Versions /\ pc[p] = "record" /\ open[p] = None
    BY <1>0, <1>4 DEF Standing, RecordVersion
  <2>3. Types'
    <3>1. script[p] + 1 \in Nat /\ script[p] + 1 >= 1
      BY <2>2, ScriptFacts
    <3> QED
      BY <1>0, <1>4, <2>2, <3>1, TurnTypes DEF Types, RecordVersion, db
  <2>4. VersionMeansApplied'
    BY <1>0, <1>4, SameVersions DEF RecordVersion, db
  <2>5. open'[p] = script[p]
    BY <1>0, <1>4 DEF Types, RecordVersion
  <2>6. \A j \in 1..script[p] : InEffect(j) /\ (j \in versions \/ j = script[p])
    BY <1>0, <2>2, ScriptFacts DEF Standing, Behind, None
  <2>7. Standing(p)'
    BY <1>4, <2>2, <2>5, <2>6, ScriptFacts, TurnStands,
       script[p] + 1 \in 1..(Len(Scripts) + 1) DEF RecordVersion, db, Idle
  <2> QED
    BY <2>1, <2>3, <2>4, <2>7, OneStep
<1>5. CASE Finish(p)
  <2>1. Frame(p)
    BY <1>0, <1>5 DEF Frame, Types, Finish, local
  <2>2. Types'
    <3>1. why' \in [Processes -> Endings]
      BY <1>0, <1>5 DEF Types, Finish, Endings
    <3>2. pc' \in [Processes -> {"off", "read", "scan", "begin", "script", "record",
                                "finish", "check", "insert", "done", "failed"}]
      BY <1>0, <1>5 DEF Types, Finish
    <3>3. versions' \subseteq Versions /\ open' \in [Processes -> Versions \union {None}]
      BY <1>0, <1>5 DEF Types, Finish
    <3> QED
      BY <1>0, <1>5, <3>1, <3>2, <3>3 DEF Types, Finish, local
  <2>3. VersionMeansApplied'
    <3>1. CASE open[p] = None
      BY <1>0, <1>5, <3>1, SameVersions DEF Finish
    <3>2. CASE open[p] # None
      <4>1. objects' = objects /\ versions' = versions \union {open[p]}
        BY <1>5, <3>2 DEF Finish
      <4>2. \A j \in 1..open[p] : InEffect(j)'
        BY <1>0, <3>2, <4>1 DEF Standing, InEffect
      <4> QED
        BY <1>0, <4>1, <4>2, Recorded
    <3> QED
      BY <3>1, <3>2
  <2>4. /\ pc[p] = "finish" /\ pc'[p] \in {"done", "check"} /\ open'[p] = None
        /\ why'[p] \in {"migrated", why[p]} /\ (pc'[p] = "check" => why'[p] = why[p])
        /\ versions' = versions \union ({open[p]} \ {None})
    BY <1>0, <1>5 DEF Types, Finish
  <2>5. Behind(p, Len(Scripts) + 1)'
    BY <1>0, <1>5, <2>4, ScriptFacts DEF Standing, Behind, Finish, InEffect
  <2>6. Standing(p)'
    BY <1>0, <1>5, <2>4, <2>5 DEF Standing, Finish, local, Idle
  <2> QED
    BY <2>1, <2>2, <2>3, <2>6, OneStep
<1> QED
  BY <1>1, <1>2, <1>3, <1>4, <1>5

\* A statement takes effect.  One that records the version is the last of its
\* script.
LEMMA ExecuteStep ==
    ASSUME Inv, NEW p \in Processes, Execute(p)
    PROVE  Inv'
<1>0. /\ Types /\ Standing(p) /\ VersionMeansApplied
      /\ \A k \in versions : \A j \in 1..k : InEffect(j)
  BY DEF Inv, VersionMeansApplied, InEffect
<1>k. PICK k \in Versions : k = script[p]
  BY <1>0 DEF Types
<1>n. PICK n \in Nat : n = line[p]
  BY <1>0 DEF Types
<1>1. /\ pc[p] = "script" /\ n \in DOMAIN Scripts[k] /\ k = script[p] /\ n = line[p]
      /\ LinesDone(p, n - 1) /\ Behind(p, k) /\ open[p] = None /\ why[p] = "running"
  BY <1>0, <1>k, <1>n DEF Execute, Standing, Idle
<1>2. /\ Len(Scripts[k]) \in Nat \ {0} /\ DOMAIN Scripts[k] = 1..Len(Scripts[k])
      /\ \A i \in DOMAIN Scripts[k] : Scripts[k][i].do = "record" => i = Len(Scripts[k])
  BY <1>1, LineFacts
<1>3. Frame(p)
  BY <1>0 DEF Frame, Types, Execute
<1>4. Types'
  <2>1. versions' \subseteq Versions
    BY <1>0, <1>1 DEF Types, Execute
  <2>2. /\ pc' \in [Processes -> {"off", "read", "scan", "begin", "script", "record",
                                  "finish", "check", "insert", "done", "failed"}]
        /\ line' \in [Processes -> Nat]
    <3>1. CASE line[p] < Len(Scripts[script[p]])
      BY <1>0, <3>1 DEF Types, Execute
    <3>2. CASE ~(line[p] < Len(Scripts[script[p]]))
      BY <1>0, <3>2 DEF Types, Execute
    <3> QED
      BY <3>1, <3>2
  <2> QED
    BY <1>0, <2>1, <2>2 DEF Types, Execute
<1>5. /\ script' = script /\ open' = open /\ applied' = applied /\ why' = why
      /\ \/ pc'[p] = "record" /\ n = Len(Scripts[k])
         \/ pc'[p] = "script" /\ line'[p] = n + 1 /\ n + 1 \in DOMAIN Scripts[k]
  BY <1>0, <1>1, <1>2 DEF Types, Execute
<1>6. /\ objects \subseteq objects' /\ versions \subseteq versions'
      /\ Scripts[k][n].do # "record" => Scripts[k][n].object \in objects'
      /\ \/ versions' = versions
         \/ versions' = versions \union {k} /\ n = Len(Scripts[k])
  BY <1>1, <1>2 DEF Execute, Here
<1>7. \A i \in 1..n : Scripts[k][i].do # "record" => Scripts[k][i].object \in objects'
  BY <1>1, <1>2, <1>6 DEF LinesDone
<1>8. n = Len(Scripts[k]) => InEffect(k)'
  <2>1. InEffect(k)' <=> \A i \in DOMAIN Scripts[k] :
                          Scripts[k][i].do # "record" => Scripts[k][i].object \in objects'
    BY DEF InEffect, ObjectsOf
  <2> QED
    BY <1>2, <1>7, <2>1
<1>9. VersionMeansApplied'
  <2>1. CASE versions' = versions
    BY <1>0, <1>6, <2>1, SameVersions
  <2>2. CASE versions' = versions \union {k} /\ n = Len(Scripts[k])
    <3>1. \A j \in 1..k : InEffect(j)'
      <4>1. \A j \in 1..(k - 1) : InEffect(j)'
        BY <1>1, <1>6 DEF Behind, InEffect
      <4>2. \A j \in 1..k : j \in 1..(k - 1) \/ j = k
        BY <1>1, ScriptFacts
      <4> QED
        BY <1>8, <2>2, <4>1, <4>2
    <3> QED
      BY <1>0, <1>6, <2>2, <3>1, Recorded
  <2> QED
    BY <1>6, <2>1, <2>2
<1>10. Behind(p, k)'
  BY <1>1, <1>5, <1>6 DEF Behind, InEffect
<1>11. pc'[p] = "script" => LinesDone(p, line[p] - 1)'
  BY <1>1, <1>2, <1>5, <1>7 DEF LinesDone
<1>12. Standing(p)'
  BY <1>0, <1>1, <1>5, <1>6, <1>8, <1>10, <1>11 DEF Standing, Idle, InEffect
<1> QED
  BY <1>3, <1>4, <1>9, <1>12, OneStep

\* What create_admin does, and what ends a run, leaves the schema alone.
LEMMA OtherStep ==
    ASSUME Inv, NEW p \in Processes,
           \/ Start(p) \/ CheckAdmin(p) \/ InsertAdmin(p) \/ Duplicate(p) \/ Locked(p)
           \/ Fails(p) \/ Die(p)
    PROVE  Inv'
<1>0. Types /\ Standing(p) /\ VersionMeansApplied
  BY DEF Inv
<1>1. objects' = objects /\ versions' = versions /\ applied' = applied
      /\ script' = script /\ line' = line
  BY DEF Start, CheckAdmin, InsertAdmin, Duplicate, Locked, Fails, Die, Raise, db, local
<1>2. VersionMeansApplied'
  BY <1>0, <1>1, SameVersions
<1>3. CASE Start(p)
  <2>1. pc' = [pc EXCEPT ![p] = "read"] /\ why' = [why EXCEPT ![p] = "running"] /\ open' = open
    BY <1>3 DEF Start
  <2>2. Types'
    BY <1>0, <1>1, <2>1 DEF Types, Endings
  <2>3. Frame(p) /\ open[p] = None
    BY <1>0, <1>1, <1>3, <2>1 DEF Types, Frame, Start, Running, Idle, Standing
  <2>4. Standing(p)'
    BY <1>0, <1>1, <2>1, <2>3, OutOfScripts DEF Types
  <2> QED
    BY <1>2, <2>2, <2>3, <2>4, OneStep
<1>4. CASE CheckAdmin(p) \/ InsertAdmin(p)
  <2>1. /\ pc[p] \in {"check", "insert"} /\ pc'[p] \in {"insert", "failed", "done"}
        /\ open' = open /\ (pc'[p] = "insert" => why'[p] = why[p])
    BY <1>0, <1>4 DEF CheckAdmin, InsertAdmin, Types
  <2>2. Types'
    BY <1>0, <1>1, <1>4 DEF Types, CheckAdmin, InsertAdmin, Endings
  <2>3. Frame(p)
    BY <1>0, <1>1, <1>4 DEF Types, Frame, CheckAdmin, InsertAdmin
  <2>4. Behind(p, Len(Scripts) + 1) /\ open[p] = None /\ why[p] = "running"
    BY <1>0, <2>1 DEF Standing, Idle
  <2>5. Standing(p)'
    BY <1>0, <1>1, <2>1, <2>4 DEF Standing, Behind, InEffect, Idle
  <2> QED
    BY <1>2, <2>2, <2>3, <2>5, OneStep
<1>5. ASSUME NEW reason \in {"duplicate", "exists", "locked", "error"}, Raise(p, reason),
             reason = "exists" => pc[p] = "insert"
      PROVE  Inv'
  <2>1. /\ pc' = [pc EXCEPT ![p] = "failed"] /\ why' = [why EXCEPT ![p] = reason]
        /\ open' = [open EXCEPT ![p] = None]
    BY <1>5 DEF Raise
  <2>2. Types'
    BY <1>0, <1>1, <2>1 DEF Types, Endings
  <2>3. Frame(p)
    BY <1>0, <1>1, <2>1 DEF Types, Frame
  <2>4. pc'[p] = "failed" /\ why'[p] = reason /\ open'[p] = None
    BY <1>0, <2>1 DEF Types
  <2>5. CASE reason # "exists"
    BY <1>1, <2>2, <2>3, <2>4, <2>5, <1>2, <1>5, OutOfScripts, OneStep
  <2>6. CASE reason = "exists"
    <3>1. Behind(p, Len(Scripts) + 1)
      BY <1>0, <1>5, <2>6 DEF Standing
    <3>2. open[p] = None
      BY <1>0, <1>5, <2>6 DEF Standing
    <3>3. Standing(p)'
      BY <1>0, <1>1, <2>4, <3>1, <3>2 DEF Standing, Behind, InEffect, Idle
    <3> QED
      BY <1>2, <2>2, <2>3, <3>3, OneStep
  <2> QED
    BY <2>5, <2>6
<1>6. CASE Duplicate(p) \/ Locked(p) \/ Fails(p)
  BY <1>5, <1>6 DEF Duplicate, Locked, Fails
<1>7. CASE Die(p)
  <2>1. /\ pc' = [pc EXCEPT ![p] = "off"] /\ why' = [why EXCEPT ![p] = "died"]
        /\ open' = [open EXCEPT ![p] = None]
    BY <1>7 DEF Die
  <2>2. Types'
    BY <1>0, <1>1, <2>1 DEF Types, Endings
  <2>3. Frame(p) /\ pc'[p] = "off" /\ why'[p] = "died" /\ open'[p] = None
    BY <1>0, <1>1, <2>1 DEF Types, Frame
  <2>4. Standing(p)'
    BY <1>1, <2>3, OutOfScripts
  <2> QED
    BY <1>2, <2>2, <2>3, <2>4, OneStep
<1> QED
  BY <1>3, <1>4, <1>6, <1>7

LEMMA Invariant == Spec => []Inv
<1>1. Init => Inv
  <2>1. Init => Types /\ VersionMeansApplied
    BY ScriptFacts DEF Init, Types, VersionMeansApplied, Endings
  <2>2. Init => \A p \in Processes : Standing(p)
    BY ScriptFacts DEF Init, Standing, Idle, None
  <2> QED
    BY <2>1, <2>2 DEF Inv
<1>2. Inv /\ [Next]_vars => Inv'
  <2> SUFFICES ASSUME Inv, [Next]_vars PROVE Inv'
    OBVIOUS
  <2>1. CASE UNCHANGED vars
    BY <2>1 DEF vars, db, local, Inv, Types, VersionMeansApplied, Standing,
         Behind, InEffect, LinesDone
  <2>2. ASSUME NEW p \in Processes, Start(p) \/ Run(p) \/ Fails(p) \/ Die(p) PROVE Inv'
    BY <2>2, RunStep, ExecuteStep, OtherStep DEF Run
  <2> QED
    BY <2>1, <2>2 DEF Next
<1> QED
  BY <1>1, <1>2, PTL DEF Spec

\* A recorded version says that its script and all before it have taken full
\* effect, for any scripts that record themselves last if at all, any number of
\* runs at a time, and whoever fails or dies (migrate.py:32-37).
THEOREM VersionsTell == Spec => []VersionMeansApplied
  BY Invariant, PTL DEF Inv

\* A run that ends well leaves every script in effect and recorded.
THEOREM DoneComplete == Spec => []CompleteWhenDone
<1>1. Inv => CompleteWhenDone
  <2> SUFFICES ASSUME Inv, NEW p \in Processes,
                      why[p] \in {"migrated", "created", "exists"}
               PROVE  versions = Versions /\ \A k \in Versions : InEffect(k)
    BY DEF CompleteWhenDone, InEffect
  <2>1. Behind(p, Len(Scripts) + 1) /\ open[p] = None /\ versions \subseteq Versions
    BY DEF Inv, Standing, Types
  <2>2. \A k \in Versions : k \in 1..(Len(Scripts) + 1 - 1) /\ k # None
    BY ScriptFacts
  <2>3. \A k \in Versions : InEffect(k) /\ k \in versions
    BY <2>1, <2>2 DEF Behind
  <2> QED
    BY <2>1, <2>3
<1> QED
  BY <1>1, Invariant, PTL

----------------------------------------------------------------------------
(* Accounts.  They depend on nothing above: the row is inserted, with its  *)
(* audit entry, where the name was found free under the write lock.        *)

Counted ==
    /\ accounts \in [Names -> 0..1]
    /\ audits = accounts

LEMMA CountedStep ==
    ASSUME Counted, [Next]_vars
    PROVE  Counted'
<1>1. CASE UNCHANGED <<accounts, audits>>
  BY <1>1 DEF Counted
<1>2. ASSUME NEW p \in Processes, InsertAdmin(p)
      PROVE  Counted'
  <2> PICK name : name = job[p]
    OBVIOUS
  <2>1. /\ ~(accounts[name] > 0)
        /\ accounts' = [accounts EXCEPT ![name] = @ + 1]
        /\ audits' = [audits EXCEPT ![name] = @ + 1]
    BY <1>2 DEF InsertAdmin, Taken
  <2>2. CASE name \in Names
    <3>1. accounts[name] = 0 /\ accounts[name] + 1 \in 0..1
      BY <2>1, <2>2 DEF Counted
    <3> QED
      BY <2>1, <2>2, <3>1 DEF Counted
  <2>3. CASE name \notin Names
    <3>1. accounts' = accounts /\ audits' = audits
      BY <2>1, <2>3 DEF Counted
    <3> QED
      BY <3>1 DEF Counted
  <2> QED
    BY <2>2, <2>3
<1>3. ASSUME NEW p \in Processes, Start(p) \/ Run(p) \/ Fails(p) \/ Die(p), ~InsertAdmin(p)
      PROVE  UNCHANGED <<accounts, audits>>
  BY <1>3 DEF Start, Run, Fails, Die, ReadApplied, Scan, BeginScript, Execute, RecordVersion,
              Finish, CheckAdmin, Duplicate, Locked, Raise, db
<1>4. CASE UNCHANGED vars
  BY <1>1, <1>4 DEF vars, db
<1> QED
  BY <1>1, <1>2, <1>3, <1>4 DEF Next

\* For any number of operators, names and faults, a name gets at most one account,
\* and one audit entry with it (create_admin.py:26-36).
THEOREM AdminsUnique == Spec => []AdminOnce
<1>1. Init => Counted
  BY DEF Init, Counted
<1>2. Counted /\ [Next]_vars => Counted'
  BY CountedStep
<1>3. Counted => AdminOnce
  BY DEF Counted, AdminOnce
<1> QED
  BY <1>1, <1>2, <1>3, PTL DEF Spec
=============================================================================
