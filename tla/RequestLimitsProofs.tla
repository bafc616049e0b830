-------------------------- MODULE RequestLimitsProofs --------------------------
(***************************************************************************)
(* Proofs about RequestLimits, in three parts: how far the attempt tables  *)
(* can outgrow their limits (the invariant counts a thread that has made   *)
(* room for a new entry and not stored it yet as if the entry were there), *)
(* what the entries of the names count, and the windows of the clients.    *)
(***************************************************************************)
EXTENDS RequestLimits, FiniteSetTheorems, TLAPS

\* Threads about to store an entry they have not found in the table.
Waiting(step) == {t \in Threads : pc[t] = step /\ ~req[t].found}

Bounded(table, step) ==
    /\ IsFiniteSet(DOMAIN table)
    /\ Cardinality(DOMAIN table) + Cardinality(Waiting(step)) + 1
         <= TableLimit + Cardinality(Threads) + revived

LoginPcs == {"login_purge", "verify", "login_choose", "login_evict", "store"}

Pcs == {"idle"} \union LoginPcs \union WriteSteps

\* A handler about to evict has chosen one key.
Choice(t) == pc[t] \in {"login_evict", "write_evict"} => \E old : req[t].out = {old}

Locals ==
    /\ pc \in [Threads -> Pcs]
    /\ DOMAIN req = Threads
    /\ req = [t \in Threads |-> req[t]]
    /\ revived \in Nat
    /\ \A t \in Threads : Choice(t)

Inv == Locals /\ Bounded(logins, "store") /\ Bounded(writes, "admit")

Steps == {"store", "admit"}

\* What one thread's step leaves of the locals.
Moves(t) ==
    /\ \A u \in Threads \ {t} : pc'[u] = pc[u] /\ req'[u] = req[u]
    /\ Locals'

LEMMA Counts ==
    ASSUME NEW step
    PROVE  /\ Cardinality(Threads) \in Nat /\ TableLimit \in Nat
           /\ IsFiniteSet(Waiting(step))
           /\ Cardinality(Waiting(step)) \in Nat
           /\ Cardinality(Waiting(step)) <= Cardinality(Threads)
<1>1. Waiting(step) \subseteq Threads /\ IsFiniteSet(Threads) /\ TableLimit \in Nat
  BY ThreadsAssumption, LimitsAssumption DEF Waiting
<1> QED
  BY <1>1, FS_Subset, FS_CardinalityType

\* A thread that goes elsewhere waits no longer.
LEMMA Leaves ==
    ASSUME Inv, NEW t \in Threads, Moves(t), NEW step \in Steps,
           pc'[t] # step
    PROVE  /\ Cardinality(Waiting(step))' <= Cardinality(Waiting(step))
           /\ t \in Waiting(step)
                => Cardinality(Waiting(step))' = Cardinality(Waiting(step)) - 1
           /\ Cardinality(Waiting(step))' \in Nat
<1>1. Waiting(step)' = Waiting(step) \ {t}
  BY DEF Moves, Waiting
<1>2. IsFiniteSet(Waiting(step)) /\ Cardinality(Waiting(step)) \in Nat
  BY Counts
<1>3. Cardinality(Waiting(step) \ {t}) =
        IF t \in Waiting(step) THEN Cardinality(Waiting(step)) - 1
        ELSE Cardinality(Waiting(step))
  BY <1>2, FS_RemoveElement
<1>4. IsFiniteSet(Waiting(step) \ {t})
  BY <1>2, FS_RemoveElement
<1>5. Cardinality(Waiting(step) \ {t}) \in Nat
  BY <1>4, FS_CardinalityType
<1> QED
  BY <1>1, <1>2, <1>3, <1>5

\* A thread that comes waits if it has not found its entry.
LEMMA Comes ==
    ASSUME Inv, NEW t \in Threads, Moves(t), NEW step \in Steps,
           pc[t] # step, pc'[t] = step
    PROVE  /\ Cardinality(Waiting(step))' \in Nat
           /\ Cardinality(Waiting(step))' <= Cardinality(Threads)
           /\ Cardinality(Waiting(step))' = Cardinality(Waiting(step))
                                              + (IF req'[t].found THEN 0 ELSE 1)
<1>1. Waiting(step)' = IF req'[t].found THEN Waiting(step) ELSE Waiting(step) \union {t}
  BY DEF Moves, Waiting
<1>2. t \notin Waiting(step)
  BY DEF Waiting
<1>3. IsFiniteSet(Waiting(step)) /\ Cardinality(Waiting(step)) \in Nat
  BY Counts
<1>4. Cardinality(Waiting(step) \union {t}) = Cardinality(Waiting(step)) + 1
  BY <1>2, <1>3, FS_AddElement
<1>5. Waiting(step)' \subseteq Threads /\ IsFiniteSet(Threads)
  BY ThreadsAssumption DEF Waiting
<1>6. /\ Cardinality(Waiting(step)') \in Nat
      /\ Cardinality(Waiting(step)') <= Cardinality(Threads)
  BY <1>5, FS_Subset, FS_CardinalityType
<1> QED
  BY <1>1, <1>3, <1>4, <1>6

\* The purge of a table, like any removal of keys, only makes it smaller.
LEMMA Purged ==
    ASSUME NEW table, IsFiniteSet(DOMAIN table), NEW K
    PROVE  /\ DOMAIN Without(table, K) = DOMAIN table \ K
           /\ IsFiniteSet(DOMAIN Without(table, K))
           /\ Cardinality(DOMAIN table) \in Nat
           /\ Cardinality(DOMAIN Without(table, K)) \in Nat
           /\ Cardinality(DOMAIN Without(table, K)) <= Cardinality(DOMAIN table)
<1>1. DOMAIN Without(table, K) = DOMAIN table \ K
  BY DEF Without, Restrict
<1>2. DOMAIN table \ K \subseteq DOMAIN table
  OBVIOUS
<1> QED
  BY <1>1, <1>2, FS_Subset, FS_CardinalityType

\* The one key that is evicted leaves room for another.
LEMMA Evicted ==
    ASSUME NEW table, NEW old \in DOMAIN table, IsFiniteSet(DOMAIN table)
    PROVE  /\ IsFiniteSet(DOMAIN Without(table, {old}))
           /\ Cardinality(DOMAIN table) \in Nat
           /\ Cardinality(DOMAIN Without(table, {old})) \in Nat
           /\ Cardinality(DOMAIN Without(table, {old})) = Cardinality(DOMAIN table) - 1
<1>1. DOMAIN Without(table, {old}) = DOMAIN table \ {old}
  BY DEF Without, Restrict
<1> QED
  BY <1>1, FS_RemoveElement, FS_CardinalityType

LEMMA PutCounts ==
    ASSUME NEW table, NEW key, NEW entry, IsFiniteSet(DOMAIN table)
    PROVE  /\ IsFiniteSet(DOMAIN Put(table, key, entry))
           /\ Cardinality(DOMAIN table) \in Nat
           /\ Cardinality(DOMAIN Put(table, key, entry)) =
                Cardinality(DOMAIN table) + (IF key \in DOMAIN table THEN 0 ELSE 1)
<1>1. DOMAIN Put(table, key, entry) = DOMAIN table \union {key}
  BY DEF Put
<1> QED
  BY <1>1, FS_AddElement, FS_CardinalityType

\* A table that lost entries in a step after which its thread does not wait.
LEMMA Shrinks ==
    ASSUME Inv, NEW t \in Threads, Moves(t), NEW step \in Steps, pc'[t] # step,
           NEW table, NEW other, Bounded(table, step), revived' = revived,
           IsFiniteSet(DOMAIN other), Cardinality(DOMAIN other) \in Nat,
           Cardinality(DOMAIN other) <= Cardinality(DOMAIN table)
    PROVE  Cardinality(DOMAIN other) + Cardinality(Waiting(step))' + 1
             <= TableLimit + Cardinality(Threads) + revived
<1>1. Cardinality(DOMAIN table) \in Nat /\ revived \in Nat
  BY FS_CardinalityType DEF Bounded, Inv, Locals
<1>2. Cardinality(Waiting(step))' <= Cardinality(Waiting(step))
      /\ Cardinality(Waiting(step))' \in Nat
  BY Leaves
<1> QED
  BY <1>1, <1>2, Counts DEF Bounded

\* A thread that has seen its key or room for it comes to wait for no more than that.
LEMMA Reserves ==
    ASSUME Inv, NEW t \in Threads, Moves(t), NEW step \in Steps,
           pc[t] # step, pc'[t] = step, revived' = revived,
           NEW table, Bounded(table, step), ~Full(table, req[t].key),
           req'[t].found <=> req[t].key \in DOMAIN table
    PROVE  Cardinality(DOMAIN table) + Cardinality(Waiting(step))' + 1
             <= TableLimit + Cardinality(Threads) + revived'
<1>1. /\ IsFiniteSet(DOMAIN table)
      /\ Cardinality(DOMAIN table) + Cardinality(Waiting(step)) + 1
           <= TableLimit + Cardinality(Threads) + revived
      /\ revived \in Nat
  BY DEF Bounded, Inv, Locals
<1>2. Cardinality(DOMAIN table) \in Nat
  BY <1>1, FS_CardinalityType
<1>3. req'[t].found \/ Cardinality(DOMAIN table) + 1 <= TableLimit
  BY <1>2, Counts DEF Full
<1> QED
  BY <1>1, <1>2, <1>3, Comes, Counts

\* And a thread that evicts an entry, for the one it has taken away.
LEMMA Replaces ==
    ASSUME Inv, NEW t \in Threads, Moves(t), NEW step \in Steps,
           pc[t] # step, pc'[t] = step, revived' = revived,
           NEW table, Bounded(table, step), NEW old \in DOMAIN table
    PROVE  /\ IsFiniteSet(DOMAIN Without(table, {old}))
           /\ Cardinality(DOMAIN Without(table, {old})) + Cardinality(Waiting(step))' + 1
                <= TableLimit + Cardinality(Threads) + revived'
<1>1. /\ IsFiniteSet(DOMAIN table)
      /\ Cardinality(DOMAIN table) + Cardinality(Waiting(step)) + 1
           <= TableLimit + Cardinality(Threads) + revived
      /\ revived \in Nat
  BY DEF Bounded, Inv, Locals
<1>2. Cardinality(Waiting(step))' <= Cardinality(Waiting(step)) + 1
      /\ Cardinality(Waiting(step))' \in Nat /\ Cardinality(Waiting(step)) \in Nat
  BY Comes, Counts
<1> QED
  BY <1>1, <1>2, Evicted, Counts

\* What it stores was waited for, was there, or counts as revived.
LEMMA Stores ==
    ASSUME Inv, NEW t \in Threads, Moves(t), NEW step \in Steps,
           pc[t] = step, pc'[t] # step,
           NEW table, NEW entry, Bounded(table, step), Revived(req[t], table)
    PROVE  /\ IsFiniteSet(DOMAIN Put(table, req[t].key, entry))
           /\ Cardinality(DOMAIN Put(table, req[t].key, entry))
                + Cardinality(Waiting(step))' + 1
                <= TableLimit + Cardinality(Threads) + revived'
<1>1. /\ IsFiniteSet(DOMAIN table)
      /\ Cardinality(DOMAIN table) + Cardinality(Waiting(step)) + 1
           <= TableLimit + Cardinality(Threads) + revived
      /\ revived \in Nat
  BY DEF Bounded, Inv, Locals
<1>2. t \in Waiting(step) <=> ~req[t].found
  BY DEF Waiting
<1>3. revived' = IF req[t].found /\ req[t].key \notin DOMAIN table
                 THEN revived + 1 ELSE revived
  BY DEF Revived
<1> QED
  BY <1>1, <1>2, <1>3, PutCounts, Leaves, Counts

\* The table the step does not touch.
LEMMA Untouched ==
    ASSUME Inv, NEW t \in Threads, Moves(t), NEW step \in Steps, pc'[t] # step,
           NEW table, Bounded(table, step), revived' \in {revived, revived + 1}
    PROVE  Cardinality(DOMAIN table) + Cardinality(Waiting(step))' + 1
             <= TableLimit + Cardinality(Threads) + revived'
<1>1. /\ IsFiniteSet(DOMAIN table) /\ revived \in Nat
      /\ Cardinality(DOMAIN table) + Cardinality(Waiting(step)) + 1
           <= TableLimit + Cardinality(Threads) + revived
  BY DEF Bounded, Inv, Locals
<1>2. Cardinality(Waiting(step))' <= Cardinality(Waiting(step))
      /\ Cardinality(Waiting(step))' \in Nat
  BY Leaves
<1> QED
  BY <1>1, <1>2, Counts, FS_CardinalityType

\* A step of one thread that moves its pc to `to` and rewrites its locals.
LEMMA MoveTypes ==
    ASSUME Locals, NEW t \in Threads, NEW to \in Pcs,
           NEW r, pc' = [pc EXCEPT ![t] = to], req' = [req EXCEPT ![t] = r],
           to \in {"login_evict", "write_evict"} => \E old : r.out = {old},
           revived' \in Nat
    PROVE  Moves(t) /\ pc'[t] = to /\ req'[t] = r
<1>1. /\ pc' \in [Threads -> Pcs] /\ DOMAIN req' = Threads
      /\ req' = [u \in Threads |-> req'[u]]
      /\ pc'[t] = to /\ req'[t] = r
      /\ \A u \in Threads \ {t} : pc'[u] = pc[u] /\ req'[u] = req[u]
  BY DEF Locals
<1>2. ASSUME NEW u \in Threads PROVE Choice(u)'
  BY <1>1 DEF Locals, Choice
<1> QED
  BY <1>1, <1>2 DEF Locals, Moves

\* The steps of a handler that leave both tables alone: the first, the look-up,
\* the look at the length and the choice of a key to evict.
Looks(t) ==
    \/ LoginStarts(t) \/ LoginLooks(t) \/ LoginFails(t) \/ LoginChooses(t)
    \/ WriteStarts(t) \/ WriteLooks(t) \/ WriteMeasures(t) \/ WriteChooses(t)
    \/ EvictionFails(t)

LEMMA LooksMove ==
    ASSUME Locals, NEW t \in Threads, Looks(t)
    PROVE  /\ Moves(t) /\ revived' = revived
           /\ logins' = logins /\ writes' = writes /\ now' = now
           /\ failed' = failed /\ admitted' = admitted /\ torn' = torn
<1>1. /\ revived' = revived /\ revived \in Nat
      /\ logins' = logins /\ writes' = writes /\ now' = now
      /\ failed' = failed /\ admitted' = admitted /\ torn' = torn
  BY DEF Looks, LoginStarts, LoginLooks, LoginFails, LoginChooses, WriteStarts, WriteLooks,
         WriteMeasures, WriteChooses, EvictionFails, tables, history, Locals
<1>2. CASE LoginStarts(t) \/ WriteStarts(t)
  <2>0. PICK to \in {"login_purge", "write_purge"} : \E key, over : Starts(t, key, over, to)
    BY <1>2 DEF LoginStarts, WriteStarts
  <2>1. PICK key, over : Starts(t, key, over, to)
    BY <2>0
  <2>2. PICK r : /\ r = [key |-> key, at |-> now, read |-> NoEntry,
                         found |-> FALSE, out |-> over]
                 /\ req' = [req EXCEPT ![t] = r]
    BY <2>1 DEF Starts
  <2> QED
    BY <1>1, <2>0, <2>1, <2>2, MoveTypes DEF Starts, Goto, Pcs, LoginPcs, WriteSteps
<1>3. CASE LoginLooks(t) \/ WriteLooks(t)
  <2>1. Answered(t) \/ \E to \in {"verify", "room"} : \E entry :
                         Keeps(t, entry, FALSE, {}) /\ Goto(t, to)
    BY <1>3 DEF LoginLooks, WriteLooks
  <2>2. PICK to \in {"idle", "verify", "room"} :
          pc' = [pc EXCEPT ![t] = to] /\ \E r : req' = [req EXCEPT ![t] = r]
    BY <2>1 DEF Answered, Keeps, Goto
  <2> QED
    BY <1>1, <2>2, MoveTypes DEF Pcs, LoginPcs, WriteSteps
<1>4. CASE LoginFails(t) \/ WriteMeasures(t)
  <2>1. PICK to \in {"store", "admit", "login_choose", "write_choose"} :
          pc' = [pc EXCEPT ![t] = to] /\ \E r : req' = [req EXCEPT ![t] = r]
    BY <1>4 DEF LoginFails, WriteMeasures, MeasuresRoom, Goto, Keeps
  <2> QED
    BY <1>1, <2>1, MoveTypes DEF Pcs, LoginPcs, WriteSteps
<1>5. CASE LoginChooses(t) \/ WriteChooses(t)
  <2>0. PICK to \in {"login_evict", "write_evict"} :
          pc' = [pc EXCEPT ![t] = to] /\ \E old : Keeps(t, req[t].read, FALSE, {old})
    BY <1>5 DEF LoginChooses, WriteChooses, Chooses, Goto
  <2>1. PICK old : Keeps(t, req[t].read, FALSE, {old})
    BY <2>0
  <2>2. PICK r : /\ r = [key |-> req[t].key, at |-> req[t].at, read |-> req[t].read,
                         found |-> FALSE, out |-> {old}]
                 /\ req' = [req EXCEPT ![t] = r]
    BY <2>1 DEF Keeps
  <2> QED
    BY <1>1, <2>0, <2>2, MoveTypes DEF Pcs, LoginPcs, WriteSteps
<1>6. CASE EvictionFails(t)
  BY <1>1, <1>6, MoveTypes DEF EvictionFails, Answered, Goto, Pcs
<1> QED
  BY <1>1, <1>2, <1>3, <1>4, <1>5, <1>6 DEF Looks

\* The thread waits once it has seen its key or room, and else nothing changes.
LEMMA LooksKeepBounds ==
    ASSUME Inv, NEW t \in Threads, Looks(t)
    PROVE  Inv'
<1>1. /\ Moves(t) /\ revived' = revived /\ revived \in Nat
      /\ logins' = logins /\ writes' = writes
      /\ Bounded(logins, "store") /\ Bounded(writes, "admit")
  BY LooksMove DEF Inv, Locals
<1>2. Bounded(logins, "store")'
  <2>1. CASE pc'[t] # "store"
    BY <1>1, <2>1, Untouched DEF Bounded, Steps
  <2>2. CASE pc'[t] = "store"
    <3>1. LoginFails(t)
      BY <2>2 DEF Looks, LoginStarts, LoginLooks, LoginChooses, WriteStarts, WriteLooks,
                  WriteMeasures, WriteChooses, EvictionFails, Starts, MeasuresRoom,
                  Answered, Goto, Inv, Locals
    <3>2. ~Full(logins, req[t].key) /\ pc[t] = "verify"
      BY <2>2, <3>1 DEF LoginFails, MeasuresRoom, Goto, Inv, Locals
    <3>3. req'[t].found <=> req[t].key \in DOMAIN logins
      <4>1. PICK r : /\ r = [key |-> req[t].key, at |-> req[t].at, read |-> req[t].read,
                             found |-> req[t].key \in DOMAIN logins, out |-> {}]
                     /\ req' = [req EXCEPT ![t] = r]
        BY <3>1 DEF LoginFails, MeasuresRoom, Keeps
      <4> QED
        BY <4>1 DEF Inv, Locals
    <3> QED
      BY <1>1, <2>2, <3>2, <3>3, Reserves DEF Bounded, Steps
  <2> QED
    BY <2>1, <2>2
<1>3. Bounded(writes, "admit")'
  <2>1. CASE pc'[t] # "admit"
    BY <1>1, <2>1, Untouched DEF Bounded, Steps
  <2>2. CASE pc'[t] = "admit"
    <3>1. WriteMeasures(t)
      BY <2>2 DEF Looks, LoginStarts, LoginLooks, LoginFails, LoginChooses, WriteStarts,
                  WriteLooks, WriteChooses, EvictionFails, Starts, MeasuresRoom,
                  Answered, Goto, Inv, Locals
    <3>2. ~Full(writes, req[t].key) /\ pc[t] = "room"
      BY <2>2, <3>1 DEF WriteMeasures, MeasuresRoom, Goto, Inv, Locals
    <3>3. req'[t].found <=> req[t].key \in DOMAIN writes
      <4>1. PICK r : /\ r = [key |-> req[t].key, at |-> req[t].at, read |-> req[t].read,
                             found |-> req[t].key \in DOMAIN writes, out |-> {}]
                     /\ req' = [req EXCEPT ![t] = r]
        BY <3>1 DEF WriteMeasures, MeasuresRoom, Keeps
      <4> QED
        BY <4>1 DEF Inv, Locals
    <3> QED
      BY <1>1, <2>2, <3>2, <3>3, Reserves DEF Bounded, Steps
  <2> QED
    BY <2>1, <2>2
<1> QED
  BY <1>1, <1>2, <1>3 DEF Inv, Moves

\* A purge pops one key and a success one entry.
LEMMA Pops ==
    ASSUME Inv, NEW t \in Threads, LoginPurges(t) \/ LoginSucceeds(t) \/ WritePurges(t)
    PROVE  Inv'
<1>1. Bounded(logins, "store") /\ Bounded(writes, "admit") /\ revived' = revived
      /\ revived \in Nat
  BY DEF Inv, Locals, LoginPurges, LoginSucceeds, WritePurges
<1>2. Moves(t) /\ pc'[t] \notin Steps
  <2>1. CASE LoginPurges(t) \/ WritePurges(t)
    <3>1. PICK r : req' = [req EXCEPT ![t] = r]
      BY <2>1 DEF LoginPurges, WritePurges, Keeps
    <3>2. pc' = [pc EXCEPT ![t] = pc[t]] /\ pc[t] \in {"login_purge", "write_purge"}
      BY <2>1 DEF LoginPurges, WritePurges, Inv, Locals
    <3> QED
      BY <1>1, <3>1, <3>2, MoveTypes DEF Inv, Pcs, LoginPcs, WriteSteps, Steps
  <2>2. CASE LoginSucceeds(t)
    BY <1>1, <2>2, MoveTypes DEF LoginSucceeds, Answered, Goto, Inv, Pcs, Steps
  <2> QED
    BY <2>1, <2>2
<1>3. CASE LoginPurges(t) \/ LoginSucceeds(t)
  <2>1. PICK K : logins' = Without(logins, K) /\ writes' = writes
    BY <1>3 DEF LoginPurges, LoginSucceeds
  <2>2. Bounded(logins, "store")'
    BY <1>1, <1>2, <2>1, Purged, Shrinks DEF Bounded, Steps
  <2>3. Bounded(writes, "admit")'
    BY <1>1, <1>2, <2>1, Untouched DEF Bounded, Steps
  <2> QED
    BY <1>2, <2>2, <2>3 DEF Inv, Moves
<1>4. CASE WritePurges(t)
  <2>1. PICK K : writes' = Without(writes, K) /\ logins' = logins
    BY <1>4 DEF WritePurges
  <2>2. Bounded(writes, "admit")'
    BY <1>1, <1>2, <2>1, Purged, Shrinks DEF Bounded, Steps
  <2>3. Bounded(logins, "store")'
    BY <1>1, <1>2, <2>1, Untouched DEF Bounded, Steps
  <2> QED
    BY <1>2, <2>2, <2>3 DEF Inv, Moves
<1> QED
  BY <1>3, <1>4

\* An eviction pops the key that was chosen, and the thread waits for its own.
LEMMA EvictsOne ==
    ASSUME Locals, NEW t \in Threads, LoginEvicts(t) \/ WriteEvicts(t)
    PROVE  /\ Moves(t) /\ revived' = revived /\ now' = now
           /\ req'[t].key = req[t].key /\ req'[t].at = req[t].at
           /\ req'[t].read = req[t].read
           /\ LoginEvicts(t) =>
                 /\ pc[t] = "login_evict" /\ pc'[t] = "store" /\ writes' = writes
                 /\ admitted' = admitted
                 /\ \E old \in DOMAIN logins :
                      /\ logins' = Without(logins, {old}) /\ torn' = torn \union {old}
                      /\ failed' = [k \in Names |-> IF k = old THEN 0 ELSE failed[k]]
           /\ WriteEvicts(t) =>
                 /\ pc[t] = "write_evict" /\ pc'[t] = "admit" /\ logins' = logins
                 /\ failed' = failed /\ admitted' = admitted
                 /\ \E old \in DOMAIN writes :
                      /\ writes' = Without(writes, {old}) /\ torn' = torn \union {old}
<1>1. pc[t] \in {"login_evict", "write_evict"} /\ revived' = revived /\ revived \in Nat
  BY DEF LoginEvicts, WriteEvicts, Locals
<1>2. PICK old : req[t].out = {old}
  BY <1>1 DEF Locals, Choice
<1>3. PICK r : /\ r = [key |-> req[t].key, at |-> req[t].at, read |-> req[t].read,
                       found |-> FALSE, out |-> {}]
               /\ req' = [req EXCEPT ![t] = r]
  BY DEF LoginEvicts, WriteEvicts, Evicts, Keeps
<1>4. PICK to \in {"store", "admit"} :
        /\ pc' = [pc EXCEPT ![t] = to]
        /\ LoginEvicts(t) => to = "store"
        /\ WriteEvicts(t) => to = "admit"
  BY DEF LoginEvicts, WriteEvicts, Goto
<1>5. Moves(t) /\ pc'[t] = to /\ req'[t] = r
  BY <1>1, <1>3, <1>4, MoveTypes DEF Pcs, LoginPcs, WriteSteps
<1>6. LoginEvicts(t) =>
        /\ old \in DOMAIN logins /\ logins' = Without(logins, {old})
        /\ torn' = torn \union {old} /\ writes' = writes /\ admitted' = admitted
        /\ failed' = [k \in Names |-> IF k = old THEN 0 ELSE failed[k]]
        /\ pc[t] = "login_evict" /\ now' = now
  BY <1>2 DEF LoginEvicts, Evicts
<1>7. WriteEvicts(t) =>
        /\ old \in DOMAIN writes /\ writes' = Without(writes, {old})
        /\ torn' = torn \union {old} /\ logins' = logins /\ admitted' = admitted
        /\ failed' = failed /\ pc[t] = "write_evict" /\ now' = now
  BY <1>2 DEF WriteEvicts, Evicts
<1>8. /\ req'[t].key = req[t].key /\ req'[t].at = req[t].at
      /\ req'[t].read = req[t].read /\ now' = now
  BY <1>3, <1>5, <1>6, <1>7
<1>9. LoginEvicts(t) => \E key \in DOMAIN logins :
        /\ logins' = Without(logins, {key}) /\ torn' = torn \union {key}
        /\ failed' = [k \in Names |-> IF k = key THEN 0 ELSE failed[k]]
  BY <1>6
<1>10. WriteEvicts(t) => \E key \in DOMAIN writes :
         /\ writes' = Without(writes, {key}) /\ torn' = torn \union {key}
  BY <1>7
<1> QED
  BY <1>1, <1>4, <1>5, <1>6, <1>7, <1>8, <1>9, <1>10

LEMMA EvictsBounded ==
    ASSUME Inv, NEW t \in Threads, LoginEvicts(t) \/ WriteEvicts(t)
    PROVE  Inv'
<1>1. Bounded(logins, "store") /\ Bounded(writes, "admit") /\ revived \in Nat
      /\ Locals
  BY DEF Inv, Locals
<1>2. Moves(t) /\ revived' = revived
  BY <1>1, EvictsOne
<1>3. CASE LoginEvicts(t)
  <2>1. pc[t] = "login_evict" /\ pc'[t] = "store" /\ writes' = writes
    BY <1>1, <1>3, EvictsOne
  <2>2. PICK old \in DOMAIN logins : logins' = Without(logins, {old})
    BY <1>1, <1>3, EvictsOne
  <2>3. Bounded(logins, "store")'
    BY <1>1, <1>2, <2>1, <2>2, Replaces DEF Bounded, Steps
  <2>4. Bounded(writes, "admit")'
    BY <1>1, <1>2, <2>1, Untouched DEF Bounded, Steps
  <2> QED
    BY <1>2, <2>3, <2>4 DEF Inv, Moves
<1>4. CASE WriteEvicts(t)
  <2>1. pc[t] = "write_evict" /\ pc'[t] = "admit" /\ logins' = logins
    BY <1>1, <1>4, EvictsOne
  <2>2. PICK old \in DOMAIN writes : writes' = Without(writes, {old})
    BY <1>1, <1>4, EvictsOne
  <2>3. Bounded(writes, "admit")'
    BY <1>1, <1>2, <2>1, <2>2, Replaces DEF Bounded, Steps
  <2>4. Bounded(logins, "store")'
    BY <1>1, <1>2, <2>1, Untouched DEF Bounded, Steps
  <2> QED
    BY <1>2, <2>3, <2>4 DEF Inv, Moves
<1> QED
  BY <1>3, <1>4

LEMMA StoresEntry ==
    ASSUME Inv, NEW t \in Threads, LoginStores(t) \/ WriteAdmitted(t)
    PROVE  Inv'
<1>1. /\ Bounded(logins, "store") /\ Bounded(writes, "admit") /\ revived \in Nat
      /\ pc' = [pc EXCEPT ![t] = "idle"] /\ req' = [req EXCEPT ![t] = NoRequest]
      /\ revived' \in {revived, revived + 1}
  BY DEF Inv, Locals, LoginStores, WriteAdmitted, Answered, Goto, Revived
<1>2. Moves(t) /\ pc'[t] = "idle"
  <2>1. revived' \in Nat
    BY <1>1
  <2> QED
    BY <1>1, <2>1, MoveTypes DEF Inv, Pcs
<1>3. CASE LoginStores(t)
  <2>1. /\ logins' = Put(logins, req[t].key, Failure(req[t])) /\ writes' = writes
        /\ pc[t] = "store" /\ Revived(req[t], logins)
    BY <1>3 DEF LoginStores
  <2>2. Bounded(logins, "store")'
    BY <1>1, <1>2, <2>1, Stores DEF Bounded, Steps
  <2>3. Bounded(writes, "admit")'
    BY <1>1, <1>2, <2>1, Untouched DEF Bounded, Steps
  <2> QED
    BY <1>2, <2>2, <2>3 DEF Inv, Moves
<1>4. CASE WriteAdmitted(t)
  <2>1. /\ writes' = Put(writes, req[t].key, Admission(req[t])) /\ logins' = logins
        /\ pc[t] = "admit" /\ Revived(req[t], writes)
    BY <1>4 DEF WriteAdmitted
  <2>2. Bounded(writes, "admit")'
    BY <1>1, <1>2, <2>1, Stores DEF Bounded, Steps
  <2>3. Bounded(logins, "store")'
    BY <1>1, <1>2, <2>1, Untouched DEF Bounded, Steps
  <2> QED
    BY <1>2, <2>2, <2>3 DEF Inv, Moves
<1> QED
  BY <1>3, <1>4

LEMMA InitInv == Init => Inv
<1> SUFFICES ASSUME Init PROVE Inv
  OBVIOUS
<1>1. DOMAIN logins = {} /\ DOMAIN writes = {} /\ revived = 0 /\ Locals
  BY DEF Init, Locals, Choice, Pcs
<1>2. Waiting("store") = {} /\ Waiting("admit") = {}
  BY DEF Init, Waiting
<1>3. IsFiniteSet({}) /\ Cardinality({}) = 0
  BY FS_EmptySet
<1>4. 1 <= TableLimit + Cardinality(Threads)
  BY LimitsAssumption, Counts
<1>5. TableLimit + Cardinality(Threads) \in Nat
  BY Counts
<1>6. Cardinality(Waiting("store")) = 0 /\ Cardinality(Waiting("admit")) = 0
  BY <1>2, <1>3
<1>7. /\ IsFiniteSet(DOMAIN logins) /\ Cardinality(DOMAIN logins) = 0
      /\ IsFiniteSet(DOMAIN writes) /\ Cardinality(DOMAIN writes) = 0
  BY <1>1, <1>3
<1> QED
  BY <1>1, <1>4, <1>5, <1>6, <1>7 DEF Inv, Bounded

LEMMA InvTables == Inv => TablesBounded
<1> SUFFICES ASSUME Inv, NEW table \in {logins, writes}
             PROVE  Cardinality(DOMAIN table) + 1
                      <= TableLimit + Cardinality(Threads) + revived
  BY DEF TablesBounded
<1>1. PICK step \in Steps : Bounded(table, step)
  BY DEF Inv, Steps
<1> QED
  BY <1>1, Counts, FS_CardinalityType DEF Bounded, Inv, Locals

LEMMA InvStep == Inv /\ [Next]_vars => Inv'
<1> SUFFICES ASSUME Inv, [Next]_vars PROVE Inv'
  OBVIOUS
<1>1. CASE UNCHANGED vars \/ Tick
  BY <1>1 DEF vars, Tick, tables, history, Inv, Locals, Bounded, Waiting, Choice
<1>2. CASE \E t \in Threads : Step(t)
  BY <1>2, LooksKeepBounds, Pops, EvictsBounded, StoresEntry
     DEF Step, LoginStep, WriteStep, Looks
<1> QED
  BY <1>1, <1>2 DEF Next

\* For any limits and any number of threads and keys, an attempt table exceeds its
\* limit by no more than the threads that check its length together and the
\* entries that were gone when their handlers stored them (app.py:529-531, 340-342).
THEOREM TablesStayBounded == Spec => []TablesBounded
  BY InvStep, InitInv, InvTables, PTL DEF Spec
----------------------------------------------------------------------------
(* The entries of the names: LockoutCounts is kept with what the handlers     *)
(* have read, and BlockStands follows from a handler not being refused.       *)

Entry == [count : Nat, until : Nat]

\* What the handler of a login has read, and that it was not refused on it.
LoginReads(t) ==
    pc[t] \in LoginPcs =>
        /\ req[t].key \in Names
        /\ req[t].at \in Nat /\ req[t].at <= now
        /\ pc[t] # "login_purge" =>
              req[t].read \in Entry /\ req[t].read.until <= req[t].at

LoginInv ==
    /\ now \in Nat
    /\ failed \in [Names -> Nat]
    /\ DOMAIN logins \subseteq Names
    /\ \A k \in Names : Get(logins, k) \in Entry
    /\ \A t \in Threads : LoginReads(t)
    /\ LockoutCounts

LEMMA GetWithout ==
    ASSUME NEW table, NEW K, NEW k
    PROVE  Get(Without(table, K), k) = IF k \in K THEN NoEntry ELSE Get(table, k)
  BY DEF Get, Without, Restrict

LEMMA GetPut ==
    ASSUME NEW table, NEW key, NEW entry, NEW k
    PROVE  /\ Get(Put(table, key, entry), k) = IF k = key THEN entry ELSE Get(table, k)
           /\ DOMAIN Put(table, key, entry) = DOMAIN table \union {key}
  BY DEF Get, Put

LEMMA NoEntryTypes == NoEntry \in Entry /\ NoEntry.count = 0 /\ NoEntry.until = 0
  BY DEF NoEntry, Entry

\* The threads that do not take the step keep what they have read.
LEMMA ReadsKept ==
    ASSUME NEW t \in Threads, Moves(t), now' = now,
           \A u \in Threads : LoginReads(u),
           LoginReads(t)'
    PROVE  (\A u \in Threads : LoginReads(u))'
<1> SUFFICES ASSUME NEW u \in Threads PROVE LoginReads(u)'
  OBVIOUS
<1>1. CASE u = t
  BY <1>1
<1>2. CASE u # t
  <2>1. pc'[u] = pc[u] /\ req'[u] = req[u] /\ LoginReads(u)
    BY <1>2 DEF Moves
  <2> QED
    BY <2>1 DEF LoginReads
<1> QED
  BY <1>1, <1>2

\* A step that leaves the logins alone.
LEMMA LoginsAlone ==
    ASSUME LoginInv, NEW t \in Threads, Moves(t), logins' = logins, failed' = failed,
           now' = now, torn \subseteq torn', LoginReads(t)'
    PROVE  LoginInv'
<1>1. (\A u \in Threads : LoginReads(u))'
  BY ReadsKept DEF LoginInv
<1>2. LockoutCounts'
  BY DEF LoginInv, LockoutCounts
<1> QED
  BY <1>1, <1>2 DEF LoginInv

LEMMA LoginLooksInv ==
    ASSUME Locals, LoginInv, NEW t \in Threads, Looks(t)
    PROVE  LoginInv'
<1>1. /\ Moves(t) /\ logins' = logins /\ failed' = failed /\ now' = now /\ torn' = torn
      /\ now \in Nat /\ LoginReads(t)
  BY LooksMove DEF LoginInv
<1>2. CASE LoginStarts(t)
  <2>1. PICK key \in Names : Starts(t, key, OverBlocks, "login_purge")
    BY <1>2 DEF LoginStarts
  <2>2. PICK r : /\ r = [key |-> key, at |-> now, read |-> NoEntry,
                         found |-> FALSE, out |-> OverBlocks]
                 /\ req' = [req EXCEPT ![t] = r]
    BY <2>1 DEF Starts
  <2>3. req'[t].key = key /\ req'[t].at = now /\ pc'[t] = "login_purge"
    BY <2>1, <2>2 DEF Starts, Goto, Locals
  <2>4. LoginReads(t)'
    BY <1>1, <2>3 DEF LoginReads
  <2> QED
    BY <1>1, <2>4, LoginsAlone
<1>3. CASE LoginLooks(t)
  <2> PICK entry : entry = Get(logins, req[t].key)
    OBVIOUS
  <2>1. pc[t] = "login_purge" /\ \/ Answered(t)
                                 \/ /\ ~Refused(entry, req[t].at)
                                    /\ Keeps(t, entry, FALSE, {}) /\ Goto(t, "verify")
    BY <1>3 DEF LoginLooks
  <2>2. req[t].key \in Names /\ req[t].at \in Nat /\ req[t].at <= now
    BY <1>1, <2>1 DEF LoginReads, LoginPcs
  <2>3. CASE Answered(t)
    <3>1. pc'[t] = "idle"
      BY <2>3 DEF Answered, Goto, Locals
    <3>2. LoginReads(t)'
      BY <3>1 DEF LoginReads, LoginPcs
    <3> QED
      BY <1>1, <3>2, LoginsAlone
  <2>4. CASE ~Refused(entry, req[t].at) /\ Keeps(t, entry, FALSE, {}) /\ Goto(t, "verify")
    <3>1. PICK r : /\ r = [key |-> req[t].key, at |-> req[t].at, read |-> entry,
                           found |-> FALSE, out |-> {}]
                   /\ req' = [req EXCEPT ![t] = r]
      BY <2>4 DEF Keeps
    <3>2. /\ req'[t].key = req[t].key /\ req'[t].at = req[t].at /\ req'[t].read = entry
          /\ pc'[t] = "verify"
      BY <2>4, <3>1 DEF Goto, Locals
    <3>3. entry \in Entry
      BY <2>2 DEF LoginInv
    <3>4. entry.until <= req[t].at
      BY <2>2, <2>4, <3>3 DEF Refused, Entry
    <3>5. LoginReads(t)'
      BY <1>1, <2>2, <3>2, <3>3, <3>4 DEF LoginReads
    <3> QED
      BY <1>1, <3>5, LoginsAlone
  <2> QED
    BY <2>1, <2>3, <2>4
<1>4. CASE LoginFails(t) \/ LoginChooses(t)
  <2>1. PICK read, found, out : read = req[t].read /\ Keeps(t, read, found, out)
    BY <1>4 DEF LoginFails, LoginChooses, MeasuresRoom, Chooses
  <2>2. PICK r : /\ r = [key |-> req[t].key, at |-> req[t].at, read |-> read,
                         found |-> found, out |-> out]
                 /\ req' = [req EXCEPT ![t] = r]
    BY <2>1 DEF Keeps
  <2>3. req'[t].key = req[t].key /\ req'[t].at = req[t].at /\ req'[t].read = req[t].read
    BY <2>1, <2>2 DEF Locals
  <2>4. pc[t] \in {"verify", "login_choose"}
    BY <1>4 DEF LoginFails, LoginChooses
  <2>5. LoginReads(t)'
    BY <1>1, <2>3, <2>4 DEF LoginReads, LoginPcs
  <2> QED
    BY <1>1, <2>5, LoginsAlone
<1>5. CASE \/ WriteStarts(t) \/ WriteLooks(t) \/ WriteMeasures(t) \/ WriteChooses(t)
           \/ EvictionFails(t)
  <2>1. pc'[t] \in {"idle", "write_purge", "room", "write_choose", "write_evict", "admit"}
    BY <1>5 DEF WriteStarts, Starts, WriteLooks, WriteMeasures, MeasuresRoom, WriteChooses,
                EvictionFails, Answered, Goto, Locals
  <2>2. LoginReads(t)'
    BY <2>1 DEF LoginReads, LoginPcs
  <2> QED
    BY <1>1, <2>2, LoginsAlone
<1> QED
  BY <1>2, <1>3, <1>4, <1>5 DEF Looks

\* Entries that a purge, a success or an eviction takes away leave no failures.
LEMMA LoginsTaken ==
    ASSUME LoginInv, NEW t \in Threads, Moves(t), NEW key, logins' = Without(logins, {key}),
           \A k \in Names : failed'[k] = IF k = key THEN 0 ELSE failed[k],
           failed' \in [Names -> Nat], now' = now, torn \subseteq torn', LoginReads(t)'
    PROVE  LoginInv'
<1>1. (\A u \in Threads : LoginReads(u))'
  BY ReadsKept DEF LoginInv
<1>2. \A k \in Names : Get(logins', k) \in Entry
  BY GetWithout, NoEntryTypes DEF LoginInv
<1>3. DOMAIN logins' \subseteq Names
  BY DEF LoginInv, Without, Restrict
<1>4. LockoutCounts'
  <2> SUFFICES ASSUME NEW k \in Names \ torn'
               PROVE  /\ Get(logins', k).count = failed'[k]
                      /\ Get(logins', k).until # 0 <=> failed'[k] >= LoginLimit
    BY DEF LockoutCounts
  <2>1. /\ Get(logins, k).count = failed[k]
        /\ Get(logins, k).until # 0 <=> failed[k] >= LoginLimit
    BY DEF LoginInv, LockoutCounts
  <2>2. LoginLimit \in Nat \ {0}
    BY LimitsAssumption
  <2> QED
    BY <2>1, <2>2, GetWithout, NoEntryTypes
<1> QED
  BY <1>1, <1>2, <1>3, <1>4 DEF LoginInv

LEMMA LoginPurgesInv ==
    ASSUME Locals, LoginInv, NEW t \in Threads, LoginPurges(t)
    PROVE  LoginInv'
<1>1. PICK key \in req[t].out :
        /\ logins' = Without(logins, {key}) /\ failed' = [failed EXCEPT ![key] = 0]
        /\ torn \subseteq torn' /\ now' = now /\ pc' = pc /\ revived' = revived
        /\ pc[t] = "login_purge" /\ Keeps(t, req[t].read, FALSE, req[t].out \ {key})
  BY DEF LoginPurges
<1>2. PICK r : /\ r = [key |-> req[t].key, at |-> req[t].at, read |-> req[t].read,
                       found |-> FALSE, out |-> req[t].out \ {key}]
               /\ req' = [req EXCEPT ![t] = r]
  BY <1>1 DEF Keeps
<1>3. req'[t].key = req[t].key /\ req'[t].at = req[t].at /\ pc'[t] = "login_purge"
  BY <1>1, <1>2 DEF Locals
<1>4. Moves(t)
  BY <1>1, <1>2, MoveTypes DEF Locals, Pcs, LoginPcs
<1>5. LoginReads(t)'
  BY <1>1, <1>3 DEF LoginReads, LoginPcs, LoginInv
<1>6. failed' \in [Names -> Nat]
      /\ \A k \in Names : failed'[k] = IF k = key THEN 0 ELSE failed[k]
  BY <1>1 DEF LoginInv
<1> QED
  BY <1>1, <1>4, <1>5, <1>6, LoginsTaken

LEMMA LoginSucceedsInv ==
    ASSUME Locals, LoginInv, NEW t \in Threads, LoginSucceeds(t)
    PROVE  LoginInv'
<1> PICK key : key = req[t].key
  OBVIOUS
<1>1. /\ logins' = Without(logins, {key}) /\ failed' = [failed EXCEPT ![key] = 0]
      /\ torn \subseteq torn' /\ now' = now /\ revived' = revived
      /\ pc' = [pc EXCEPT ![t] = "idle"] /\ req' = [req EXCEPT ![t] = NoRequest]
  BY DEF LoginSucceeds, Answered, Goto
<1>2. Moves(t) /\ pc'[t] = "idle"
  BY <1>1, MoveTypes DEF Locals, Pcs
<1>3. LoginReads(t)'
  BY <1>2 DEF LoginReads, LoginPcs
<1>4. failed' \in [Names -> Nat]
      /\ \A k \in Names : failed'[k] = IF k = key THEN 0 ELSE failed[k]
  BY <1>1 DEF LoginInv
<1> QED
  BY <1>1, <1>2, <1>3, <1>4, LoginsTaken

LEMMA LoginEvictsInv ==
    ASSUME Locals, LoginInv, NEW t \in Threads, LoginEvicts(t)
    PROVE  LoginInv'
<1>1. /\ Moves(t) /\ now' = now /\ pc[t] = "login_evict" /\ pc'[t] = "store"
      /\ req'[t].key = req[t].key /\ req'[t].at = req[t].at /\ req'[t].read = req[t].read
  BY EvictsOne
<1>2. PICK old \in DOMAIN logins :
        /\ logins' = Without(logins, {old}) /\ torn' = torn \union {old}
        /\ failed' = [k \in Names |-> IF k = old THEN 0 ELSE failed[k]]
  BY EvictsOne
<1>3. LoginReads(t)'
  BY <1>1 DEF LoginReads, LoginPcs, LoginInv
<1>4. failed' \in [Names -> Nat]
      /\ \A k \in Names : failed'[k] = IF k = old THEN 0 ELSE failed[k]
  BY <1>2 DEF LoginInv
<1> QED
  BY <1>1, <1>2, <1>3, <1>4, LoginsTaken

LEMMA FailureTypes ==
    ASSUME NEW r, r.at \in Nat, r.read \in Entry
    PROVE  /\ Failure(r) \in Entry
           /\ Failure(r).count = r.read.count + 1
           /\ Failure(r).until # 0 <=> r.read.count + 1 >= LoginLimit
<1>1. /\ LoginLimit \in Nat \ {0} /\ BlockTime \in Nat \ {0}
      /\ r.read.count \in Nat
  BY LimitsAssumption DEF Entry
<1>2. /\ Failure(r).count = r.read.count + 1
      /\ Failure(r).until = IF r.read.count + 1 >= LoginLimit THEN r.at + BlockTime ELSE 0
      /\ Failure(r) = [count |-> Failure(r).count, until |-> Failure(r).until]
  BY DEF Failure
<1> QED
  BY <1>1, <1>2 DEF Entry

LEMMA LoginStoresInv ==
    ASSUME Locals, LoginInv, NEW t \in Threads, LoginStores(t)
    PROVE  LoginInv'
<1> DEFINE key == req[t].key
<1>1. /\ pc[t] = "store" /\ logins' = Put(logins, key, Failure(req[t]))
      /\ failed' = [failed EXCEPT ![key] = @ + 1]
      /\ torn' = IF Get(logins, key) = req[t].read THEN torn ELSE torn \union {key}
      /\ pc' = [pc EXCEPT ![t] = "idle"] /\ req' = [req EXCEPT ![t] = NoRequest]
      /\ now' = now
  BY DEF LoginStores, Answered, Goto
<1>2. /\ key \in Names /\ req[t].at \in Nat /\ req[t].read \in Entry
  BY <1>1 DEF LoginInv, LoginReads, LoginPcs
<1>0. /\ Failure(req[t]) \in Entry
      /\ Failure(req[t]).count = req[t].read.count + 1
      /\ Failure(req[t]).until # 0 <=> req[t].read.count + 1 >= LoginLimit
  BY <1>2, FailureTypes
<1> HIDE DEF key
<1>a. \A k : Get(logins', k) = IF k = key THEN Failure(req[t]) ELSE Get(logins, k)
  BY <1>1 DEF Get, Put
<1>b. DOMAIN logins' = DOMAIN logins \union {key}
  BY <1>1, GetPut
<1>3. \A k \in Names : Get(logins', k) \in Entry
  BY <1>0, <1>a DEF LoginInv
<1>4. DOMAIN logins' \subseteq Names
  BY <1>b, <1>2 DEF LoginInv
<1>5. failed' \in [Names -> Nat]
  BY <1>1, <1>2 DEF LoginInv
<1>6. (\A u \in Threads : LoginReads(u))'
  <2>1. revived' \in Nat
    BY DEF LoginStores, Revived, Locals
  <2>2. Moves(t) /\ pc'[t] = "idle"
    BY <1>1, <2>1, MoveTypes DEF Pcs
  <2>3. LoginReads(t)'
    BY <2>2 DEF LoginReads, LoginPcs
  <2> QED
    BY <1>1, <2>2, <2>3, ReadsKept DEF LoginInv
<1>7. LockoutCounts'
  <2> SUFFICES ASSUME NEW k \in Names \ torn'
               PROVE  /\ Get(logins', k).count = failed'[k]
                      /\ Get(logins', k).until # 0 <=> failed'[k] >= LoginLimit
    BY <1>1 DEF LockoutCounts
  <2>0. k \notin torn /\ (k = key => Get(logins, key) = req[t].read)
    BY <1>1
  <2>1. /\ Get(logins, k).count = failed[k]
        /\ Get(logins, k).until # 0 <=> failed[k] >= LoginLimit
    BY <2>0 DEF LoginInv, LockoutCounts
  <2>2. failed'[k] = IF k = key THEN failed[k] + 1 ELSE failed[k]
    BY <1>1 DEF LoginInv
  <2>3. Get(logins', k) = IF k = key THEN Failure(req[t]) ELSE Get(logins, k)
    BY <1>a
  <2>4. CASE k = key
    BY <1>0, <2>0, <2>1, <2>2, <2>3, <2>4
  <2>5. CASE k # key
    BY <2>1, <2>2, <2>3, <2>5
  <2> QED
    BY <2>4, <2>5
<1> QED
  BY <1>1, <1>3, <1>4, <1>5, <1>6, <1>7 DEF LoginInv

\* The handlers of writes leave the failures and the entries of logins alone.
\* The handlers of writes leave the failures and the entries of logins alone.
LEMMA WritesKeepLogins ==
    ASSUME Locals, LoginInv, NEW t \in Threads,
           WritePurges(t) \/ WriteEvicts(t) \/ WriteAdmitted(t)
    PROVE  LoginInv'
<1>1. Moves(t) /\ pc'[t] \notin LoginPcs
  <2>1. CASE WritePurges(t)
    <3>1. PICK r : req' = [req EXCEPT ![t] = r]
      BY <2>1 DEF WritePurges, Keeps
    <3>2. pc' = [pc EXCEPT ![t] = pc[t]] /\ pc[t] = "write_purge" /\ revived' = revived
      BY <2>1 DEF WritePurges, Locals
    <3> QED
      BY <3>1, <3>2, MoveTypes DEF Locals, Pcs, LoginPcs, WriteSteps
  <2>2. CASE WriteEvicts(t)
    BY <2>2, EvictsOne DEF LoginPcs
  <2>3. CASE WriteAdmitted(t)
    <3>1. revived' \in Nat
      BY <2>3 DEF WriteAdmitted, Revived, Locals
    <3> QED
      BY <2>3, <3>1, MoveTypes DEF WriteAdmitted, Answered, Goto, Pcs, LoginPcs
  <2> QED
    BY <2>1, <2>2, <2>3
<1>2. /\ logins' = logins /\ failed' = failed /\ now' = now /\ torn \subseteq torn'
  BY DEF WritePurges, WriteEvicts, Evicts, WriteAdmitted
<1>3. LoginReads(t)'
  BY <1>1 DEF LoginReads
<1> QED
  BY <1>1, <1>2, <1>3, LoginsAlone

LEMMA LoginInvStep ==
    ASSUME Locals, LoginInv, [Next]_vars
    PROVE  LoginInv'
<1>1. CASE Tick
  BY <1>1 DEF Tick, tables, history, LoginInv, LoginReads, LockoutCounts
<1>2. CASE UNCHANGED vars
  BY <1>2 DEF vars, tables, history, LoginInv, LoginReads, LockoutCounts
<1>3. CASE \E t \in Threads : Step(t)
  BY <1>3, LoginLooksInv, LoginPurgesInv, LoginSucceedsInv, LoginEvictsInv, LoginStoresInv,
     WritesKeepLogins DEF Step, LoginStep, WriteStep, Looks
<1> QED
  BY <1>1, <1>2, <1>3 DEF Next

LEMMA LoginInitially == Init => LoginInv
<1> SUFFICES ASSUME Init PROVE LoginInv
  OBVIOUS
<1>1. DOMAIN logins = {} /\ now = 0 /\ failed = [k \in Names |-> 0]
  BY DEF Init
<1>2. \A t \in Threads : LoginReads(t)
  BY DEF Init, LoginReads, LoginPcs
<1>3. \A k \in Names : Get(logins, k) = NoEntry
  BY <1>1 DEF Get
<1>4. LockoutCounts
  BY <1>1, <1>3, NoEntryTypes, LimitsAssumption DEF LockoutCounts
<1> QED
  BY <1>1, <1>2, <1>3, <1>4, NoEntryTypes DEF LoginInv

\* What a step does to the entry of a blocked name.
LEMMA StepBlocks ==
    ASSUME Locals, LoginInv, [Next]_vars, NEW k \in Names,
           Get(logins, k).until > now, Get(logins', k).until <= now
    PROVE  k \in torn'
<1>0. Get(logins, k) \in Entry /\ now \in Nat /\ Get(logins', k) # Get(logins, k)
  BY DEF LoginInv, Entry
<1>1. CASE Tick \/ UNCHANGED vars
  BY <1>0, <1>1 DEF Tick, tables, vars
<1>2. ASSUME NEW t \in Threads, LoginPurges(t)
      PROVE  k \in torn'
  <2>1. PICK key \in req[t].out :
          /\ logins' = Without(logins, {key}) /\ pc[t] = "login_purge"
          /\ torn' = IF key \in DOMAIN logins /\ ~BlockOver(logins[key], req[t].at)
                     THEN torn \union {key} ELSE torn
    BY <1>2 DEF LoginPurges
  <2>2. k = key
    BY <1>0, <2>1, GetWithout
  <2>3. k \in DOMAIN logins /\ Get(logins, k) = logins[k]
    BY <1>0, <2>1, <2>2, GetWithout, NoEntryTypes DEF Get
  <2>4. req[t].at \in Nat /\ req[t].at <= now
    BY <2>1 DEF LoginInv, LoginReads, LoginPcs
  <2>5. ~BlockOver(logins[k], req[t].at)
    BY <1>0, <2>3, <2>4 DEF BlockOver, Entry
  <2> QED
    BY <2>1, <2>2, <2>3, <2>5
<1>3. ASSUME NEW t \in Threads, LoginSucceeds(t)
      PROVE  k \in torn'
  <2>1. /\ logins' = Without(logins, {req[t].key}) /\ pc[t] = "verify"
        /\ torn' = IF Get(logins, req[t].key) = req[t].read THEN torn
                   ELSE torn \union {req[t].key}
    BY <1>3 DEF LoginSucceeds
  <2>2. k = req[t].key
    BY <1>0, <2>1, GetWithout
  <2>3. LoginReads(t)
    BY DEF LoginInv
  <2>4. Get(logins, k) # req[t].read
    BY <1>0, <2>1, <2>3 DEF LoginReads, LoginPcs, Entry
  <2> QED
    BY <2>1, <2>2, <2>4
<1>4. ASSUME NEW t \in Threads, LoginEvicts(t)
      PROVE  k \in torn'
  <2>1. PICK old : logins' = Without(logins, {old}) /\ torn' = torn \union {old}
    BY <1>4, EvictsOne
  <2> QED
    BY <1>0, <2>1, GetWithout
<1>5. ASSUME NEW t \in Threads, LoginStores(t)
      PROVE  k \in torn'
  <2>1. /\ logins' = Put(logins, req[t].key, Failure(req[t])) /\ pc[t] = "store"
        /\ torn' = IF Get(logins, req[t].key) = req[t].read THEN torn
                   ELSE torn \union {req[t].key}
    BY <1>5 DEF LoginStores
  <2>2. k = req[t].key
    BY <1>0, <2>1 DEF Get, Put
  <2>3. LoginReads(t)
    BY DEF LoginInv
  <2>4. Get(logins, k) # req[t].read
    BY <1>0, <2>1, <2>3 DEF LoginReads, LoginPcs, Entry
  <2> QED
    BY <2>1, <2>2, <2>4
<1>6. ASSUME NEW t \in Threads, WritePurges(t) \/ WriteEvicts(t) \/ WriteAdmitted(t)
      PROVE  FALSE
  BY <1>0, <1>6 DEF WritePurges, WriteEvicts, WriteAdmitted
<1>7. ASSUME NEW t \in Threads, Looks(t)
      PROVE  FALSE
  BY <1>0, <1>7, LooksMove
<1> QED
  BY <1>1, <1>2, <1>3, <1>4, <1>5, <1>6, <1>7
     DEF Next, Step, LoginStep, WriteStep, Looks

LEMMA LoginInvariant == Spec => [](Locals /\ LoginInv)
<1>1. Init => Locals /\ LoginInv
  BY InitInv, LoginInitially DEF Inv
<1>2. Inv /\ [Next]_vars => Inv'
  BY InvStep
<1>3. Inv => Locals
  BY DEF Inv
<1>4. Locals /\ LoginInv /\ [Next]_vars => LoginInv'
  BY LoginInvStep
<1>5. Init => Inv
  BY InitInv
<1> QED
  BY <1>1, <1>2, <1>3, <1>4, <1>5, PTL DEF Spec

\* For any limits and any number of threads and names, the entry of a name counts
\* the failures answered since its last success or block, and blocks it exactly
\* from the limit on, unless handlers of the name overlapped or its entry was
\* evicted or popped by a stale purge (app.py:508-531).
THEOREM LockoutExact == Spec => []LockoutCounts
<1>1. LoginInv => LockoutCounts
  BY DEF LoginInv
<1> QED
  BY <1>1, LoginInvariant, PTL

\* For any limits and any number of threads and names, a block ends before its
\* time only by handlers that overlap, an eviction or a purge that meant an earlier
\* entry of the name (app.py:509-514, 530-531).
THEOREM BlocksStand == Spec => BlockStands
<1>1. Locals /\ LoginInv /\ [Next]_vars
        => [\A k \in Names : Get(logins, k).until > now /\ Get(logins', k).until <= now
                               => k \in torn']_vars
  BY StepBlocks
<1> QED
  BY <1>1, LoginInvariant, PTL DEF Spec, BlockStands

----------------------------------------------------------------------------
(* The windows of the clients: each window follows the one before, and the    *)
(* last admissions are those its entry counts.                                *)

\* No write is later than the one after it, nor than `end`.
Ordered(A, end) ==
    /\ \A i, j \in 1..Len(A) : i <= j => A[i] <= A[j]
    /\ \A i \in 1..Len(A) : A[i] <= end

\* The window before the one that opens at `start` with the m-th write: it was
\* opened by one of the WriteLimit writes before, and was over by then.
WindowBefore(A, m, start) ==
    m > 1 => \E c \in 1..WriteLimit : c < m /\ A[m - c] + Window <= start

\* The last c writes are those of a window that opened at `start`.
Standing(A, c, start) ==
    /\ c \in 0..WriteLimit /\ c <= Len(A)
    /\ c > 0 => A[Len(A) - c + 1] = start
    /\ WindowBefore(A, Len(A) - c + 1, start)

\* BurstBounded for one client.
Spread(A) ==
    \A i \in 1..Len(A) :
        i + (2 * WriteLimit - 1) <= Len(A)
          => A[i + (2 * WriteLimit - 1)] >= A[i] + Window

IsEntry(e) == e = [count |-> e.count, until |-> e.until]

\* What the table says of a client agrees with its admissions.
Accounted(k) ==
    LET A == admitted[k]
    IN  /\ Ordered(A, now)
        /\ Spread(A)
        /\ IF k \in DOMAIN writes
           THEN /\ IsEntry(writes[k]) /\ writes[k].count # 0 /\ writes[k].until \in Int
                /\ Standing(A, writes[k].count, writes[k].until - Window)
           ELSE Standing(A, 0, now)

\* What the handler of a write has read: as long as no other one is under way, it is
\* not behind the client's admissions, and a window it is to open follows them.
WriteReads(t) ==
    pc[t] \in WriteSteps =>
        /\ req[t].key \in Clients
        /\ req[t].at \in Nat /\ req[t].at <= now
        /\ req[t].key \notin torn =>
              LET A == admitted[req[t].key]
              IN  /\ Ordered(A, req[t].at)
                  /\ pc[t] = "write_purge" =>
                        (req[t].key \notin DOMAIN writes => Standing(A, 0, req[t].at))
                  /\ pc[t] # "write_purge" =>
                        /\ IsEntry(req[t].read)
                        /\ req[t].read.count < WriteLimit
                        /\ req[t].read.count = 0 => /\ req[t].read.until = req[t].at + Window
                                                    /\ Standing(A, 0, req[t].at)

WriteInv ==
    /\ now \in Nat
    /\ admitted \in [Clients -> Seq(Nat)]
    /\ \A t \in Threads : WriteReads(t)
    /\ \A k \in Clients \ torn : Accounted(k)

\* One more write in a window that has room, or the first of a new one.
LEMMA OneMore ==
    ASSUME NEW A \in Seq(Nat), NEW c, NEW start \in Int, NEW at \in Nat, NEW end \in Nat,
           Ordered(A, at), at <= end, Spread(A), Standing(A, c, start), c < WriteLimit,
           c = 0 => at = start
    PROVE  /\ Ordered(Append(A, at), end)
           /\ Spread(Append(A, at))
           /\ Standing(Append(A, at), c + 1, start)
<1> DEFINE n == Len(A)
           B == Append(A, at)
<1>1. /\ n \in Nat /\ Len(B) = n + 1 /\ B[n + 1] = at
      /\ \A i \in 1..n : B[i] = A[i] /\ A[i] \in Nat /\ B[i] \in Nat
  OBVIOUS
<1>2. /\ WriteLimit \in Nat /\ WriteLimit > 0 /\ Window \in Nat /\ Window > 0
      /\ c \in Nat /\ c <= n
  BY LimitsAssumption DEF Standing
<1>3. \A i, j \in 1..n : i <= j => A[i] <= A[j]
  BY DEF Ordered
<1>4. \A i \in 1..n : A[i] <= at
  BY DEF Ordered
<1> HIDE DEF n, B
<1>5. Ordered(B, end)
  <2>1. ASSUME NEW i \in 1..(n + 1), NEW j \in 1..(n + 1), i <= j
        PROVE  B[i] <= B[j]
    <3>1. CASE j = n + 1
      BY <1>1, <1>4, <2>1, <3>1
    <3>2. CASE j # n + 1
      BY <1>1, <1>3, <2>1, <3>2
    <3> QED
      BY <3>1, <3>2
  <2>2. ASSUME NEW i \in 1..(n + 1)
        PROVE  B[i] <= end
    <3>1. CASE i = n + 1
      BY <1>1, <3>1
    <3>2. CASE i # n + 1
      BY <1>1, <1>4, <3>2
    <3> QED
      BY <3>1, <3>2
  <2> QED
    BY <1>1, <2>1, <2>2 DEF Ordered
<1>6. start <= at
  <2>1. CASE c = 0
    BY <2>1
  <2>2. CASE c # 0
    <3>1. A[n - c + 1] = start /\ n - c + 1 \in 1..n
      BY <1>1, <1>2, <2>2 DEF Standing, n
    <3> QED
      BY <1>4, <3>1
  <2> QED
    BY <2>1, <2>2
<1>m. PICK m \in Nat : m = n - c + 1 /\ m >= 1
  BY <1>1, <1>2
<1>7. m > 1 => \E d \in 1..WriteLimit : d < m /\ A[m - d] + Window <= start
  BY <1>m DEF Standing, WindowBefore, n
<1>8. Standing(B, c + 1, start)
  <2>1. (n + 1) - (c + 1) + 1 = m
    BY <1>1, <1>2, <1>m
  <2>2. B[m] = start
    <3>1. CASE c = 0
      BY <1>1, <1>m, <3>1
    <3>2. CASE c # 0
      <4>1. A[m] = start /\ m \in 1..n
        BY <1>1, <1>2, <1>m, <3>2 DEF Standing, n
      <4> QED
        BY <1>1, <4>1
    <3> QED
      BY <3>1, <3>2
  <2>3. WindowBefore(B, m, start)
    <3> SUFFICES ASSUME m > 1
                 PROVE  \E d \in 1..WriteLimit : d < m /\ B[m - d] + Window <= start
      BY DEF WindowBefore
    <3>1. PICK d \in 1..WriteLimit : d < m /\ A[m - d] + Window <= start
      BY <1>7
    <3>2. m - d \in 1..n
      BY <1>1, <1>2, <1>m, <3>1
    <3>3. B[m - d] = A[m - d]
      BY <1>1, <3>2
    <3> QED
      BY <3>1, <3>3
  <2> QED
    BY <1>1, <1>2, <2>1, <2>2, <2>3 DEF Standing
<1>9. Spread(B)
  <2> DEFINE burst == 2 * WriteLimit - 1
  <2>1. burst \in Nat /\ burst > 0 /\ burst >= 2 * WriteLimit - 1
    BY <1>2
  <2> SUFFICES ASSUME NEW i \in 1..(n + 1), i + burst <= n + 1
               PROVE  B[i + burst] >= B[i] + Window
    BY <1>1 DEF Spread
  <2>2. CASE i + burst <= n
    <3>1. A[i + burst] >= A[i] + Window /\ i \in 1..n /\ i + burst \in 1..n
      BY <1>1, <2>1, <2>2 DEF Spread, n
    <3>2. B[i] = A[i] /\ B[i + burst] = A[i + burst]
      BY <1>1, <3>1
    <3> QED
      BY <3>1, <3>2
  <2> HIDE DEF burst
  <2>3. CASE i + burst = n + 1
    <3>1. m > 1
      BY <1>1, <1>2, <1>m, <2>1, <2>3
    <3>2. PICK d \in 1..WriteLimit : d < m /\ A[m - d] + Window <= start
      BY <1>7, <3>1
    <3>3. i <= m - d /\ m - d \in 1..n /\ i \in 1..n
      BY <1>1, <1>2, <1>m, <2>1, <2>3, <3>2
    <3>4. A[i] <= A[m - d]
      BY <1>3, <3>3
    <3>5. /\ A[i] \in Nat /\ A[m - d] \in Nat
          /\ B[i] = A[i] /\ B[i + burst] = at
      BY <1>1, <2>3, <3>3
    <3> QED
      BY <1>2, <1>6, <3>2, <3>4, <3>5
  <2> QED
    BY <1>1, <2>1, <2>2, <2>3
<1> QED
  BY <1>5, <1>8, <1>9 DEF B

\* A window that is over has no say any more, and time only goes on.
LEMMA WindowOver ==
    ASSUME NEW A \in Seq(Nat), NEW c, NEW start \in Int, NEW end \in Nat,
           Standing(A, c, start), c # 0, start + Window <= end
    PROVE  Standing(A, 0, end)
<1>1. c \in 1..WriteLimit /\ c <= Len(A) /\ A[Len(A) - c + 1] = start /\ Len(A) \in Nat
  BY LimitsAssumption DEF Standing
<1>2. c < Len(A) - 0 + 1 /\ A[Len(A) - 0 + 1 - c] + Window <= end
  BY <1>1
<1>3. WindowBefore(A, Len(A) - 0 + 1, end)
  BY <1>1, <1>2 DEF WindowBefore
<1> QED
  BY <1>1, <1>3, LimitsAssumption DEF Standing

LEMMA StandsLater ==
    ASSUME NEW A \in Seq(Nat), NEW start \in Nat, NEW end \in Nat, start <= end,
           Standing(A, 0, start)
    PROVE  Standing(A, 0, end)
<1>0. Len(A) \in Nat /\ Window \in Nat /\ WriteLimit \in Nat
  BY LimitsAssumption
<1>1. WindowBefore(A, Len(A) - 0 + 1, end)
  <2> SUFFICES ASSUME Len(A) - 0 + 1 > 1
               PROVE  \E c \in 1..WriteLimit :
                        c < Len(A) - 0 + 1 /\ A[Len(A) - 0 + 1 - c] + Window <= end
    BY DEF WindowBefore
  <2>1. PICK c \in 1..WriteLimit :
          c < Len(A) - 0 + 1 /\ A[Len(A) - 0 + 1 - c] + Window <= start
    BY DEF Standing, WindowBefore
  <2>2. Len(A) - 0 + 1 - c \in 1..Len(A)
    BY <1>0, <2>1
  <2>3. A[Len(A) - 0 + 1 - c] \in Nat
    BY <2>2
  <2> QED
    BY <1>0, <2>1, <2>3
<1> QED
  BY <1>0, <1>1 DEF Standing

LEMMA OrderedLater ==
    ASSUME NEW A \in Seq(Nat), NEW start \in Nat, NEW end \in Nat, start <= end,
           Ordered(A, start)
    PROVE  Ordered(A, end)
<1>1. \A i \in 1..Len(A) : A[i] \in Nat /\ A[i] <= start
  BY DEF Ordered
<1> QED
  BY <1>1 DEF Ordered

\* The threads that do not take the step keep what they have read, when it admits
\* no write and takes no entry away but those of torn keys.
LEMMA WriteReadsKept ==
    ASSUME NEW t \in Threads, Moves(t), now' = now,
           admitted' = admitted, torn \subseteq torn',
           \A u \in Threads \ {t} :
              pc[u] = "write_purge" /\ req[u].key \notin torn'
                => (req[u].key \in DOMAIN writes => req[u].key \in DOMAIN writes'),
           \A u \in Threads : WriteReads(u),
           WriteReads(t)'
    PROVE  (\A u \in Threads : WriteReads(u))'
<1> SUFFICES ASSUME NEW u \in Threads PROVE WriteReads(u)'
  OBVIOUS
<1>1. CASE u = t
  BY <1>1
<1>2. CASE u # t
  <2>1. pc'[u] = pc[u] /\ req'[u] = req[u] /\ WriteReads(u)
    BY <1>2 DEF Moves
  <2>2. CASE pc[u] = "write_purge"
    BY <1>2, <2>1, <2>2 DEF WriteReads
  <2>3. CASE pc[u] # "write_purge"
    BY <2>1, <2>3 DEF WriteReads
  <2> QED
    BY <2>2, <2>3
<1> QED
  BY <1>1, <1>2

\* A step that leaves the writes and the admissions alone.
LEMMA WritesAlone ==
    ASSUME WriteInv, NEW t \in Threads, Moves(t), writes' = writes, admitted' = admitted,
           now' = now, torn \subseteq torn', WriteReads(t)'
    PROVE  WriteInv'
<1>1. (\A u \in Threads : WriteReads(u))'
  BY WriteReadsKept DEF WriteInv
<1>2. (\A k \in Clients \ torn : Accounted(k))'
  BY DEF WriteInv, Accounted
<1> QED
  BY <1>1, <1>2 DEF WriteInv

\* What the look-up takes for the client's window.
LEMMA CurrentIs ==
    ASSUME WriteInv, NEW t \in Threads, pc[t] = "write_purge", req[t].key \notin torn,
           NEW entry, entry = Current(req[t].key, req[t].at), entry.count < WriteLimit
    PROVE  /\ IsEntry(entry)
           /\ entry.count = 0 => /\ entry.until = req[t].at + Window
                                 /\ Standing(admitted[req[t].key], 0, req[t].at)
<1> PICK key, at, A : key = req[t].key /\ at = req[t].at /\ A = admitted[key]
  OBVIOUS
<1>1. /\ key \in Clients /\ at \in Nat /\ A \in Seq(Nat) /\ key \notin torn
      /\ key \notin DOMAIN writes => Standing(A, 0, at)
  BY DEF WriteInv, WriteReads, WriteSteps
<1>2. Accounted(key) /\ Window \in Nat
  BY <1>1, LimitsAssumption DEF WriteInv
<1>3. CASE key \in DOMAIN writes /\ writes[key].until > at
  <2>1. entry = writes[key]
    BY <1>3 DEF Current
  <2> QED
    BY <1>2, <1>3, <2>1 DEF Accounted
<1>4. CASE ~(key \in DOMAIN writes /\ writes[key].until > at)
  <2>1. entry = [count |-> 0, until |-> at + Window]
    BY <1>4 DEF Current
  <2>2. CASE key \notin DOMAIN writes
    BY <1>1, <2>1, <2>2 DEF IsEntry
  <2>3. CASE key \in DOMAIN writes
    <3>1. PICK start \in Int : start = writes[key].until - Window
      BY <1>2, <2>3 DEF Accounted
    <3>2. writes[key].until \in Int
      BY <1>2, <2>3 DEF Accounted
    <3>3. start + Window <= at
      BY <1>1, <1>2, <1>4, <2>3, <3>1, <3>2
    <3>4. Standing(A, writes[key].count, start) /\ writes[key].count # 0
      BY <1>2, <2>3, <3>1 DEF Accounted
    <3>5. Standing(A, 0, at)
      BY <1>1, <3>3, <3>4, WindowOver
    <3> QED
      BY <2>1, <3>5 DEF IsEntry
  <2> QED
    BY <2>2, <2>3
<1> QED
  BY <1>3, <1>4

LEMMA WriteLooksInv ==
    ASSUME Locals, WriteInv, NEW t \in Threads, Looks(t)
    PROVE  WriteInv'
<1>1. /\ Moves(t) /\ writes' = writes /\ admitted' = admitted /\ now' = now
      /\ torn' = torn /\ now \in Nat /\ WriteReads(t)
  BY LooksMove DEF WriteInv
<1>2. CASE WriteStarts(t)
  <2>1. PICK key \in Clients : Starts(t, key, OverWindows, "write_purge")
    BY <1>2 DEF WriteStarts
  <2>2. PICK r : /\ r = [key |-> key, at |-> now, read |-> NoEntry,
                         found |-> FALSE, out |-> OverWindows]
                 /\ req' = [req EXCEPT ![t] = r]
    BY <2>1 DEF Starts
  <2>3. req'[t].key = key /\ req'[t].at = now /\ pc'[t] = "write_purge"
    BY <2>1, <2>2 DEF Starts, Goto, Locals
  <2>4. key \notin torn => /\ Ordered(admitted[key], now)
                           /\ key \notin DOMAIN writes => Standing(admitted[key], 0, now)
    BY DEF WriteInv, Accounted
  <2>5. WriteReads(t)'
    BY <1>1, <2>3, <2>4 DEF WriteReads
  <2> QED
    BY <1>1, <2>5, WritesAlone
<1>3. CASE WriteLooks(t)
  <2> PICK entry : entry = Current(req[t].key, req[t].at)
    OBVIOUS
  <2>1. pc[t] = "write_purge" /\ \/ Answered(t)
                                 \/ /\ entry.count < WriteLimit
                                    /\ Keeps(t, entry, FALSE, {}) /\ Goto(t, "room")
    BY <1>3 DEF WriteLooks, Admits
  <2>2. CASE Answered(t)
    <3>1. pc'[t] = "idle"
      BY <2>2 DEF Answered, Goto, Locals
    <3>2. WriteReads(t)'
      BY <3>1 DEF WriteReads, WriteSteps
    <3> QED
      BY <1>1, <3>2, WritesAlone
  <2>3. CASE entry.count < WriteLimit /\ Keeps(t, entry, FALSE, {}) /\ Goto(t, "room")
    <3>1. PICK r : /\ r = [key |-> req[t].key, at |-> req[t].at, read |-> entry,
                           found |-> FALSE, out |-> {}]
                   /\ req' = [req EXCEPT ![t] = r]
      BY <2>3 DEF Keeps
    <3>2. /\ req'[t].key = req[t].key /\ req'[t].at = req[t].at /\ req'[t].read = entry
          /\ pc'[t] = "room"
      BY <2>3, <3>1 DEF Goto, Locals
    <3>3. req[t].key \notin torn =>
            /\ Ordered(admitted[req[t].key], req[t].at) /\ IsEntry(entry)
            /\ entry.count = 0 => /\ entry.until = req[t].at + Window
                                  /\ Standing(admitted[req[t].key], 0, req[t].at)
      BY <1>1, <2>1, <2>3, CurrentIs DEF WriteReads, WriteSteps
    <3>4. req[t].key \in Clients /\ req[t].at \in Nat /\ req[t].at <= now
      BY <1>1, <2>1 DEF WriteReads, WriteSteps
    <3>5. WriteReads(t)'
      BY <1>1, <2>3, <3>2, <3>3, <3>4 DEF WriteReads
    <3> QED
      BY <1>1, <3>5, WritesAlone
  <2> QED
    BY <2>1, <2>2, <2>3
<1>4. CASE WriteMeasures(t) \/ WriteChooses(t)
  <2>1. PICK read, found, out : read = req[t].read /\ Keeps(t, read, found, out)
    BY <1>4 DEF WriteMeasures, WriteChooses, MeasuresRoom, Chooses
  <2>2. PICK r : /\ r = [key |-> req[t].key, at |-> req[t].at, read |-> read,
                         found |-> found, out |-> out]
                 /\ req' = [req EXCEPT ![t] = r]
    BY <2>1 DEF Keeps
  <2>3. req'[t].key = req[t].key /\ req'[t].at = req[t].at /\ req'[t].read = req[t].read
    BY <2>1, <2>2 DEF Locals
  <2>4. /\ pc[t] \in {"room", "write_choose"}
        /\ pc'[t] \in {"write_choose", "write_evict", "admit"}
    BY <1>4 DEF WriteMeasures, WriteChooses, MeasuresRoom, Goto, Locals
  <2>5. WriteReads(t)'
    BY <1>1, <2>3, <2>4 DEF WriteReads, WriteSteps
  <2> QED
    BY <1>1, <2>5, WritesAlone
<1>5. CASE \/ LoginStarts(t) \/ LoginLooks(t) \/ LoginFails(t) \/ LoginChooses(t)
           \/ EvictionFails(t)
  <2>1. pc'[t] \in {"idle"} \union LoginPcs
    BY <1>5 DEF LoginStarts, Starts, LoginLooks, LoginFails, MeasuresRoom, LoginChooses,
                EvictionFails, Answered, Goto, Locals, LoginPcs
  <2>2. WriteReads(t)'
    BY <2>1 DEF WriteReads, WriteSteps, LoginPcs
  <2> QED
    BY <1>1, <2>2, WritesAlone
<1> QED
  BY <1>2, <1>3, <1>4, <1>5 DEF Looks

\* The handlers of logins leave the writes alone.
LEMMA LoginsKeepWrites ==
    ASSUME Locals, WriteInv, NEW t \in Threads,
           LoginPurges(t) \/ LoginSucceeds(t) \/ LoginEvicts(t) \/ LoginStores(t)
    PROVE  WriteInv'
<1>1. Moves(t) /\ pc'[t] \notin WriteSteps
  <2>1. CASE LoginPurges(t)
    <3>1. PICK r : req' = [req EXCEPT ![t] = r]
      BY <2>1 DEF LoginPurges, Keeps
    <3>2. pc' = [pc EXCEPT ![t] = pc[t]] /\ pc[t] = "login_purge" /\ revived' = revived
      BY <2>1 DEF LoginPurges, Locals
    <3> QED
      BY <3>1, <3>2, MoveTypes DEF Locals, Pcs, LoginPcs, WriteSteps
  <2>2. CASE LoginEvicts(t)
    BY <2>2, EvictsOne DEF WriteSteps
  <2>3. CASE LoginSucceeds(t) \/ LoginStores(t)
    <3>1. revived' \in Nat
      BY <2>3 DEF LoginSucceeds, LoginStores, Revived, Locals
    <3> QED
      BY <2>3, <3>1, MoveTypes
         DEF LoginSucceeds, LoginStores, Answered, Goto, Pcs, WriteSteps
  <2> QED
    BY <2>1, <2>2, <2>3
<1>2. /\ writes' = writes /\ admitted' = admitted /\ now' = now /\ torn \subseteq torn'
  BY DEF LoginPurges, LoginSucceeds, LoginEvicts, Evicts, LoginStores
<1>3. WriteReads(t)'
  BY <1>1 DEF WriteReads
<1> QED
  BY <1>1, <1>2, <1>3, WritesAlone

\* A client whose entry is popped once its window is over stays accounted for.
LEMMA PopAccounts ==
    ASSUME WriteInv, NEW key, NEW k \in Clients \ torn, writes' = Without(writes, {key}),
           now' = now, admitted' = admitted,
           k = key /\ k \in DOMAIN writes => writes[k].until <= now
    PROVE  Accounted(k)'
<1>1. Accounted(k) /\ now \in Nat /\ admitted[k] \in Seq(Nat)
  BY DEF WriteInv
<1>2. CASE k = key /\ k \in DOMAIN writes
  <2>1. k \notin DOMAIN writes'
    BY <1>2 DEF Without, Restrict
  <2>2. Window \in Nat
    BY LimitsAssumption
  <2>3. PICK start \in Int : start = writes[k].until - Window /\ start + Window <= now
    BY <1>1, <1>2, <2>2 DEF Accounted
  <2>4. Standing(admitted[k], writes[k].count, start) /\ writes[k].count # 0
    BY <1>1, <1>2, <2>3 DEF Accounted
  <2>5. Standing(admitted[k], 0, now)
    BY <1>1, <2>3, <2>4, WindowOver
  <2> QED
    BY <1>1, <2>1, <2>5 DEF Accounted
<1>3. CASE ~(k = key /\ k \in DOMAIN writes)
  <2>1. /\ k \in DOMAIN writes' <=> k \in DOMAIN writes
        /\ k \in DOMAIN writes => writes'[k] = writes[k]
    BY <1>3 DEF Without, Restrict
  <2> QED
    BY <1>1, <2>1 DEF Accounted
<1> QED
  BY <1>2, <1>3

LEMMA WritePurgesInv ==
    ASSUME Locals, WriteInv, NEW t \in Threads, WritePurges(t)
    PROVE  WriteInv'
<1>1. PICK key \in req[t].out :
        /\ pc[t] = "write_purge" /\ writes' = Without(writes, {key})
        /\ torn' = IF key \in DOMAIN writes
                      /\ (writes[key].until > req[t].at \/ Overlapped(t, key))
                   THEN torn \union {key} ELSE torn
        /\ Keeps(t, req[t].read, FALSE, req[t].out \ {key})
        /\ now' = now /\ pc' = pc /\ admitted' = admitted /\ revived' = revived
  BY DEF WritePurges
<1>2. PICK r : /\ r = [key |-> req[t].key, at |-> req[t].at, read |-> req[t].read,
                       found |-> FALSE, out |-> req[t].out \ {key}]
               /\ req' = [req EXCEPT ![t] = r]
  BY <1>1 DEF Keeps
<1>3. req'[t].key = req[t].key /\ req'[t].at = req[t].at /\ pc'[t] = "write_purge"
  BY <1>1, <1>2 DEF Locals
<1>4. Moves(t)
  BY <1>1, <1>2, MoveTypes DEF Locals, Pcs, WriteSteps
<1>5. /\ WriteReads(t) /\ req[t].key \in Clients /\ req[t].at \in Nat
      /\ req[t].at <= now /\ now \in Nat /\ torn \subseteq torn'
  BY <1>1 DEF WriteInv, WriteReads, WriteSteps
<1>6. ASSUME key \in Clients \ torn', key \in DOMAIN writes
      PROVE  writes[key].until <= req[t].at /\ ~Overlapped(t, key)
  <2>1. writes[key].until \in Int
    BY <1>5, <1>6 DEF WriteInv, Accounted
  <2> QED
    BY <1>1, <1>5, <1>6, <2>1
<1>7. DOMAIN writes' = DOMAIN writes \ {key}
  BY <1>1 DEF Without, Restrict
<1>8. WriteReads(t)'
  <2> PICK c, at, A : c = req[t].key /\ at = req[t].at /\ A = admitted[c]
    OBVIOUS
  <2>0. A \in Seq(Nat)
    BY <1>5 DEF WriteInv
  <2>1. ASSUME c \notin torn', c \notin DOMAIN writes'
        PROVE  Standing(A, 0, at)
    <3>1. CASE c \notin DOMAIN writes
      BY <1>1, <1>5, <2>1, <3>1 DEF WriteReads, WriteSteps
    <3>2. CASE c \in DOMAIN writes
      <4>1. c = key /\ c \in Clients \ torn /\ Accounted(c) /\ Window \in Nat
        BY <1>5, <1>7, <2>1, <3>2, LimitsAssumption DEF WriteInv
      <4>2. writes[c].until <= at /\ writes[c].until \in Int
        BY <1>5, <1>6, <2>1, <3>2, <4>1 DEF Accounted
      <4>3. PICK start \in Int : start = writes[c].until - Window /\ start + Window <= at
        BY <1>5, <4>1, <4>2
      <4>4. Standing(A, writes[c].count, start) /\ writes[c].count # 0
        BY <3>2, <4>1, <4>3 DEF Accounted
      <4> QED
        BY <1>5, <2>0, <4>3, <4>4, WindowOver
    <3> QED
      BY <3>1, <3>2
  <2>2. c \notin torn' => Ordered(A, at)
    BY <1>1, <1>5 DEF WriteReads, WriteSteps
  <2> QED
    BY <1>1, <1>3, <1>5, <2>1, <2>2 DEF WriteReads
<1>9. ASSUME NEW u \in Threads \ {t}, pc[u] = "write_purge", req[u].key \notin torn',
             req[u].key \in DOMAIN writes
      PROVE  req[u].key \in DOMAIN writes'
  <2>1. req[u].key = key => Overlapped(t, key)
    BY <1>9 DEF Overlapped, WriteSteps
  <2>2. req[u].key # key
    BY <1>1, <1>9, <2>1
  <2> QED
    BY <1>7, <1>9, <2>2
<1>10. (\A u \in Threads : WriteReads(u))'
  BY <1>1, <1>4, <1>5, <1>8, <1>9, WriteReadsKept DEF WriteInv
<1>11. ASSUME NEW k \in Clients \ torn'
       PROVE  Accounted(k)'
  <2>1. k \in Clients \ torn
    BY <1>5, <1>11
  <2>2. k = key /\ k \in DOMAIN writes => writes[k].until <= now
    <3>1. k \in DOMAIN writes => writes[k].until \in Int
      BY <2>1 DEF WriteInv, Accounted
    <3> QED
      BY <1>5, <1>6, <1>11, <3>1
  <2> QED
    BY <1>1, <2>1, <2>2, PopAccounts
<1> QED
  BY <1>1, <1>10, <1>11 DEF WriteInv

LEMMA WriteEvictsInv ==
    ASSUME Locals, WriteInv, NEW t \in Threads, WriteEvicts(t)
    PROVE  WriteInv'
<1>1. /\ Moves(t) /\ now' = now /\ admitted' = admitted
      /\ pc[t] = "write_evict" /\ pc'[t] = "admit"
      /\ req'[t].key = req[t].key /\ req'[t].at = req[t].at /\ req'[t].read = req[t].read
  BY EvictsOne
<1>2. PICK old \in DOMAIN writes :
        writes' = Without(writes, {old}) /\ torn' = torn \union {old}
  BY EvictsOne
<1>3. DOMAIN writes' = DOMAIN writes \ {old}
  BY <1>2 DEF Without, Restrict
<1>4. WriteReads(t)'
  BY <1>1, <1>2 DEF WriteReads, WriteSteps, WriteInv
<1>5. (\A u \in Threads : WriteReads(u))'
  BY <1>1, <1>2, <1>3, <1>4, WriteReadsKept DEF WriteInv
<1>6. ASSUME NEW k \in Clients \ torn' PROVE Accounted(k)'
  BY <1>1, <1>2, <1>6, PopAccounts
<1> QED
  BY <1>1, <1>5, <1>6 DEF WriteInv

LEMMA AdmissionIs ==
    ASSUME NEW r, IsEntry(r.read)
    PROVE  /\ Admission(r).count = r.read.count + 1
           /\ Admission(r).until = r.read.until
           /\ IsEntry(Admission(r))
<1> PICK e, n : e = r.read /\ n = e.count + 1
  OBVIOUS
<1>1. e = [count |-> e.count, until |-> e.until]
  BY DEF IsEntry
<1>2. [e EXCEPT !.count = n] = [count |-> n, until |-> e.until]
  BY <1>1
<1>3. Admission(r) = [e EXCEPT !.count = n]
  BY Zenon DEF Admission
<1> QED
  BY <1>2, <1>3 DEF IsEntry

\* The window of a write that is admitted when no other handler of the client has
\* been in between.
LEMMA AdmitsInWindow ==
    ASSUME WriteInv, NEW t \in Threads, pc[t] = "admit",
           req[t].key \notin torn, Unmoved(req[t])
    PROVE  /\ req[t].read.until \in Int
           /\ Standing(admitted[req[t].key], req[t].read.count, req[t].read.until - Window)
           /\ req[t].read.count = 0 => req[t].at = req[t].read.until - Window
<1> PICK key, read, at : key = req[t].key /\ read = req[t].read /\ at = req[t].at
  OBVIOUS
<1>1. /\ key \in Clients /\ at \in Nat /\ key \notin torn
      /\ read.count < WriteLimit
      /\ read.count = 0 => read.until = at + Window /\ Standing(admitted[key], 0, at)
  BY DEF WriteInv, WriteReads, WriteSteps
<1>2. Window \in Nat
  BY LimitsAssumption
<1>3. CASE key \in DOMAIN writes /\ writes[key] = read
  <2>1. Accounted(key)
    BY <1>1 DEF WriteInv
  <2> QED
    BY <1>3, <2>1 DEF Accounted
<1>4. CASE key \notin DOMAIN writes /\ read.count = 0
  <2>1. read.until \in Int /\ at = read.until - Window
    BY <1>1, <1>2, <1>4
  <2> QED
    BY <1>1, <1>4, <2>1
<1> QED
  BY <1>3, <1>4 DEF Unmoved

LEMMA WriteAdmittedInv ==
    ASSUME Locals, WriteInv, NEW t \in Threads, WriteAdmitted(t)
    PROVE  WriteInv'
<1> PICK key, at : key = req[t].key /\ at = req[t].at
  OBVIOUS
<1>1. /\ pc[t] = "admit"
      /\ writes' = Put(writes, key, Admission(req[t]))
      /\ admitted' = [admitted EXCEPT ![key] = Append(@, at)]
      /\ torn' = IF Unmoved(req[t]) /\ ~Overlapped(t, key) THEN torn ELSE torn \union {key}
      /\ pc' = [pc EXCEPT ![t] = "idle"] /\ req' = [req EXCEPT ![t] = NoRequest]
      /\ now' = now
  BY DEF WriteAdmitted, Answered, Goto
<1>2. /\ key \in Clients /\ at \in Nat /\ at <= now /\ now \in Nat
      /\ key \notin torn => IsEntry(req[t].read)
      /\ admitted \in [Clients -> Seq(Nat)]
      /\ key \notin torn => Ordered(admitted[key], at) /\ req[t].read.count < WriteLimit
  BY <1>1 DEF WriteInv, WriteReads, WriteSteps
<1>3. admitted' \in [Clients -> Seq(Nat)]
  BY <1>1, <1>2
<1>4. \A k \in Clients : admitted'[k] = IF k = key THEN Append(admitted[key], at)
                                        ELSE admitted[k]
  BY <1>1, <1>2
<1>5. /\ DOMAIN writes' = DOMAIN writes \union {key}
      /\ writes'[key] = Admission(req[t])
      /\ \A k \in DOMAIN writes : k # key => writes'[k] = writes[k]
  BY <1>1 DEF Put
<1>6. ASSUME NEW u \in Threads PROVE WriteReads(u)'
  <2>1. CASE u = t
    BY <1>1, <2>1 DEF WriteReads, WriteSteps, Locals
  <2>2. CASE u # t
    <3>1. pc'[u] = pc[u] /\ req'[u] = req[u] /\ WriteReads(u)
      BY <1>1, <2>2 DEF Locals, WriteInv
    <3>2. CASE pc[u] \in WriteSteps /\ req[u].key = key
      <4>1. Overlapped(t, key)
        BY <2>2, <3>2 DEF Overlapped
      <4>2. key \in torn'
        BY <1>1, <4>1
      <4> QED
        BY <1>1, <3>1, <3>2, <4>2 DEF WriteReads
    <3>3. CASE pc[u] \in WriteSteps /\ req[u].key # key
      <4>1. req[u].key \in Clients /\ (req[u].key \in torn <=> req[u].key \in torn')
        BY <1>1, <3>1, <3>3 DEF WriteReads
      <4>2. /\ admitted'[req[u].key] = admitted[req[u].key]
            /\ req[u].key \in DOMAIN writes' <=> req[u].key \in DOMAIN writes
        BY <1>4, <1>5, <3>3, <4>1
      <4> QED
        BY <1>1, <3>1, <3>3, <4>1, <4>2 DEF WriteReads
    <3>4. CASE pc[u] \notin WriteSteps
      BY <3>1, <3>4 DEF WriteReads
    <3> QED
      BY <3>2, <3>3, <3>4
  <2> QED
    BY <2>1, <2>2
<1>7. ASSUME NEW k \in Clients \ torn'
      PROVE  Accounted(k)'
  <2>0. k \notin torn /\ Accounted(k)
    BY <1>1, <1>7 DEF WriteInv
  <2>1. CASE k # key
    <3>1. admitted'[k] = admitted[k]
      BY <1>4, <2>1
    <3>2. /\ k \in DOMAIN writes' <=> k \in DOMAIN writes
          /\ k \in DOMAIN writes => writes'[k] = writes[k]
      BY <1>5, <2>1
    <3> QED
      BY <1>1, <2>0, <3>1, <3>2 DEF Accounted
  <2>2. CASE k = key
    <3>1. Unmoved(req[t])
      BY <1>1, <1>7, <2>2
    <3>0. req[t].read.until \in Int /\ Window \in Int
      BY <1>1, <2>0, <2>2, <3>1, AdmitsInWindow, LimitsAssumption
    <3>a. PICK start \in Int : start = req[t].read.until - Window
      BY <3>0
    <3>2. PICK c : c = req[t].read.count
      OBVIOUS
    <3>3. /\ req[t].read.until \in Int
          /\ Standing(admitted[key], c, start)
          /\ c = 0 => at = start
      BY <1>1, <2>0, <2>2, <3>1, <3>2, <3>a, AdmitsInWindow
    <3>4. Ordered(admitted[key], at) /\ c < WriteLimit /\ Spread(admitted[key])
      BY <1>2, <2>0, <2>2, <3>2 DEF Accounted
    <3>5. admitted[key] \in Seq(Nat)
      BY <1>2
    <3>6. /\ Ordered(Append(admitted[key], at), now)
          /\ Spread(Append(admitted[key], at))
          /\ Standing(Append(admitted[key], at), c + 1, start)
      BY <1>2, <3>2, <3>3, <3>4, <3>5, OneMore
    <3>7. Admission(req[t]).count = c + 1 /\ Admission(req[t]).until = req[t].read.until
          /\ IsEntry(Admission(req[t]))
      BY <1>2, <2>0, <2>2, <3>2, AdmissionIs
    <3>8. c \in Nat
      BY <3>3, LimitsAssumption DEF Standing
    <3>9. /\ admitted'[k] = Append(admitted[key], at)
          /\ k \in DOMAIN writes' /\ writes'[k] = Admission(req[t])
      BY <1>4, <1>5, <2>2
    <3>10. /\ IsEntry(writes'[k]) /\ writes'[k].count # 0 /\ writes'[k].until \in Int
           /\ Standing(admitted'[k], writes'[k].count, writes'[k].until - Window)
      BY <3>0, <3>2, <3>a, <3>6, <3>7, <3>8, <3>9
    <3>11. Ordered(admitted'[k], now') /\ Spread(admitted'[k])
      BY <1>1, <3>6, <3>9
    <3> QED
      BY <3>9, <3>10, <3>11 DEF Accounted
  <2> QED
    BY <2>1, <2>2
<1> QED
  BY <1>1, <1>2, <1>3, <1>6, <1>7 DEF WriteInv

LEMMA TickKeepsWrites ==
    ASSUME WriteInv, Tick
    PROVE  WriteInv'
<1>1. /\ now' = now + 1 /\ now \in Nat /\ writes' = writes /\ admitted' = admitted
      /\ torn' = torn /\ pc' = pc /\ req' = req
  BY DEF Tick, tables, history, WriteInv
<1>2. \A t \in Threads : WriteReads(t)'
  BY <1>1 DEF WriteInv, WriteReads
<1>3. ASSUME NEW k \in Clients \ torn
      PROVE  Accounted(k)'
  <2>1. Accounted(k) /\ admitted[k] \in Seq(Nat) /\ now' \in Nat /\ now <= now'
    BY <1>1 DEF WriteInv
  <2>2. Ordered(admitted[k], now')
    BY <1>1, <2>1, OrderedLater DEF Accounted
  <2>3. Standing(admitted[k], 0, now) => Standing(admitted[k], 0, now')
    BY <1>1, <2>1, StandsLater
  <2> QED
    BY <1>1, <2>1, <2>2, <2>3 DEF Accounted
<1> QED
  BY <1>1, <1>2, <1>3 DEF WriteInv

LEMMA WriteInvStep ==
    ASSUME Locals, WriteInv, [Next]_vars
    PROVE  WriteInv'
<1>1. CASE Tick
  BY <1>1, TickKeepsWrites
<1>2. CASE UNCHANGED vars
  BY <1>2 DEF vars, tables, history, WriteInv, WriteReads, Accounted
<1>3. CASE \E t \in Threads : Step(t)
  BY <1>3, LoginsKeepWrites, WriteLooksInv, WritePurgesInv, WriteEvictsInv, WriteAdmittedInv
     DEF Step, LoginStep, WriteStep, Looks
<1> QED
  BY <1>1, <1>2, <1>3 DEF Next

LEMMA WriteInitially == Init => WriteInv
<1> SUFFICES ASSUME Init PROVE WriteInv
  OBVIOUS
<1>1. /\ now = 0 /\ DOMAIN writes = {} /\ admitted = [k \in Clients |-> <<>>]
      /\ pc = [t \in Threads |-> "idle"]
  BY DEF Init
<1>2. \A t \in Threads : WriteReads(t)
  BY <1>1 DEF WriteReads, WriteSteps
<1>3. ASSUME NEW k \in Clients PROVE Accounted(k)
  <2>1. admitted[k] = <<>> /\ k \notin DOMAIN writes
    BY <1>1
  <2>2. Len(<<>>) = 0 /\ WriteLimit \in Nat
    BY LimitsAssumption
  <2>3. Ordered(admitted[k], now) /\ Spread(admitted[k])
    BY <2>1, <2>2 DEF Ordered, Spread
  <2>4. Standing(admitted[k], 0, now)
    BY <2>1, <2>2 DEF Standing, WindowBefore
  <2> QED
    BY <2>1, <2>3, <2>4 DEF Accounted
<1> QED
  BY <1>1, <1>2, <1>3 DEF WriteInv

\* For any limits and any number of threads and clients, no span of a window's
\* length holds twice the writes the limit allows, unless handlers of the client
\* overlapped or its entry was evicted, popped by a stale purge or popped while a
\* handler of the client was under way (app.py:332-342).
THEOREM BurstsBounded == Spec => []BurstBounded
<1>1. Init => Inv /\ WriteInv
  BY InitInv, WriteInitially
<1>2. Inv /\ [Next]_vars => Inv'
  BY InvStep
<1>3. Inv /\ WriteInv /\ [Next]_vars => WriteInv'
  BY WriteInvStep DEF Inv
<1>4. WriteInv => BurstBounded
  BY DEF WriteInv, Accounted, Spread, BurstBounded
<1> QED
  BY <1>1, <1>2, <1>3, <1>4, PTL DEF Spec
=============================================================================
