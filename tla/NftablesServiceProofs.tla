------------------------ MODULE NftablesServiceProofs ------------------------
(***************************************************************************)
(* Proofs about NftablesService: its command sequences name only objects   *)
(* that exist and implement the atomic set of addresses of AddressSet, and *)
(* undisturbed they leave a chain that drops what is in the sets.          *)
(* The invariant says what a call has seen when it comes to its next       *)
(* command.                                                                *)
(***************************************************************************)
EXTENDS NftablesService, TLAPS

\* What _ensure_layout has gone through before it comes to an object.
Earlier(o) == IF o = "table" THEN {} ELSE IF o = "set4" THEN {"table"}
              ELSE IF o = "set6" THEN {"table", "set4"} ELSE {"table", "set4", "set6"}

\* block() alone builds the layout and adds, unblock() alone deletes.
OnItsWay(t) ==
    /\ pc[t] = "idle" <=> answer[t] # "running"
    /\ pc[t] # "idle" => call[t] \in Calls
    /\ pc[t] \in {"list", "add", "rule", "add_element"} => call[t].op = "block"
    /\ pc[t] = "delete_element" => call[t].op = "unblock"

\* The objects it has found or added are there.
LaidOut(t) ==
    /\ pc[t] = "idle" => object[t] = "table"
    /\ pc[t] \in {"list", "add"} => Earlier(object[t]) \subseteq layout
    /\ pc[t] = "rule" => Objects \subseteq layout /\ object[t] \in AddressSets
    /\ pc[t] = "get" /\ call[t].op = "block" => Objects \subseteq layout
    /\ pc[t] = "add_element" => Objects \subseteq layout

Inv == TypeOK /\ \A t \in Threads : OnItsWay(t) /\ LaidOut(t)

\* What one thread's step leaves of the others, and of what they have seen.
Moves(t) ==
    /\ \A u \in Threads \ {t} : /\ pc'[u] = pc[u] /\ object'[u] = object[u]
                                /\ call'[u] = call[u] /\ answer'[u] = answer[u]
    /\ layout \subseteq layout'

LEMMA OthersKeep ==
    ASSUME Inv, NEW t \in Threads, Moves(t), TypeOK', OnItsWay(t)', LaidOut(t)'
    PROVE  Inv'
<1>1. ASSUME NEW u \in Threads PROVE OnItsWay(u)' /\ LaidOut(u)'
  <2>1. CASE u = t
    BY <2>1
  <2>2. CASE u # t
    BY <2>2 DEF Inv, Moves, OnItsWay, LaidOut
  <2> QED
    BY <2>1, <2>2
<1> QED
  BY <1>1 DEF Inv

\* The locals of a thread after Goto and Answer.
LEMMA GoneTo ==
    ASSUME Inv, NEW t \in Threads, call' = call, layout \subseteq layout',
           NEW step \in {"list", "add", "rule", "get", "add_element", "delete_element"},
           NEW o \in Objects, Goto(t, step, o), answer[t] = "running"
    PROVE  /\ Moves(t) /\ pc'[t] = step /\ object'[t] = o
           /\ answer' = answer /\ call'[t] = call[t]
           /\ pc' \in [Threads -> {"idle", "list", "add", "rule", "get",
                                   "add_element", "delete_element"}]
           /\ object' \in [Threads -> Objects]
  BY DEF Goto, Inv, TypeOK, Moves

LEMMA Answered ==
    ASSUME Inv, NEW t \in Threads, call' = call, layout \subseteq layout',
           NEW a \in {"ok", "error"}, Answer(t, a)
    PROVE  /\ Moves(t) /\ pc'[t] = "idle" /\ answer'[t] = a
           /\ pc' \in [Threads -> {"idle", "list", "add", "rule", "get",
                                   "add_element", "delete_element"}]
           /\ object' \in [Threads -> Objects]
           /\ answer' \in [Threads -> {"unasked", "running", "ok", "error"}]
           /\ answer' = [answer EXCEPT ![t] = a]
           /\ OnItsWay(t)' /\ LaidOut(t)'
  BY DEF Answer, Inv, TypeOK, Moves, OnItsWay, LaidOut, Objects

\* Faults are counted, and a look that misses is one.
LEMMA Counted ==
    ASSUME Inv, \/ UNCHANGED <<faults, misread>> \/ CountFault \/ LooksWrong
    PROVE  faults' \in Nat /\ misread' \in 0..faults'
  BY DEF Inv, TypeOK, CountFault, LooksWrong

\* A call that ends ends as an atomic call does.
Ends(t) == Atomic!Succeed(t) \/ Atomic!Fail(t) \/ Atomic!Overlook(t)
Still == UNCHANGED Atomic!vars

LEMMA BeginStep ==
    ASSUME Inv, NEW t \in Threads, Begin(t)
    PROVE  Inv' /\ Atomic!Ask(t)
<1>1. PICK c \in Calls :
        /\ call' = [call EXCEPT ![t] = c]
        /\ pc' = [pc EXCEPT ![t] = IF c.op = "block" THEN "list" ELSE "get"]
  BY DEF Begin
<1>2. /\ answer' = [answer EXCEPT ![t] = "running"] /\ object' = object /\ pc[t] = "idle"
      /\ layout' = layout /\ elements' = elements /\ rules' = rules
      /\ faults' = faults /\ misread' = misread /\ deaths' = deaths
  BY DEF Begin, ruleset
<1>3. TypeOK' /\ Moves(t)
  BY <1>1, <1>2 DEF Inv, TypeOK, Moves
<1>4. c.op \in {"block", "unblock"}
  BY DEF Calls
<1>5. OnItsWay(t)'
  BY <1>1, <1>2, <1>4 DEF Inv, TypeOK, OnItsWay
<1>6. LaidOut(t)'
  BY <1>1, <1>2, <1>4, <1>5 DEF Inv, TypeOK, LaidOut, OnItsWay, Earlier
<1>7. Atomic!Ask(t)
  <2>1. answer[t] # "running"
    BY <1>2 DEF Inv, OnItsWay
  <2>2. c \in Atomic!Calls
    BY DEF Atomic!Calls, Calls
  <2> QED
    BY <1>1, <1>2, <2>1, <2>2 DEF Atomic!Ask
<1> QED
  BY <1>3, <1>5, <1>6, <1>7, OthersKeep

LEMMA NextEarlier ==
    ASSUME NEW o \in Objects \ {"chain"}
    PROVE  /\ NextObject[o] \in Objects
           /\ Earlier(NextObject[o]) = Earlier(o) \union {o}
<1>1. /\ NextObject["table"] = "set4" /\ NextObject["set4"] = "set6"
      /\ NextObject["set6"] = "chain"
  BY DEF NextObject
<1>2. o \in {"table", "set4", "set6"}
  BY DEF Objects, AddressSets
<1> QED
  BY <1>1, <1>2 DEF Objects, AddressSets, Earlier

\* A thread that goes on, its type and what it has seen given.
LEMMA GoesOn ==
    ASSUME Inv, NEW t \in Threads, call' = call, layout \subseteq layout',
           layout' \subseteq Objects, rules' \in [AddressSets -> Nat],
           elements' = elements, deaths' = deaths, faults' \in Nat, misread' \in 0..faults',
           NEW step \in {"list", "add", "rule", "get", "add_element", "delete_element"},
           NEW o \in Objects, Goto(t, step, o), answer[t] = "running",
           step \in {"list", "add", "rule", "add_element"} => call[t].op = "block",
           step = "delete_element" => call[t].op = "unblock",
           step \in {"list", "add"} => Earlier(o) \subseteq layout',
           step = "rule" => Objects \subseteq layout' /\ o \in AddressSets,
           step = "get" /\ call[t].op = "block" => Objects \subseteq layout',
           step = "add_element" => Objects \subseteq layout'
    PROVE  Inv'
<1>1. /\ Moves(t) /\ pc'[t] = step /\ object'[t] = o
      /\ answer' = answer /\ call'[t] = call[t]
      /\ pc' \in [Threads -> {"idle", "list", "add", "rule", "get",
                              "add_element", "delete_element"}]
      /\ object' \in [Threads -> Objects]
  BY GoneTo
<1>2. TypeOK'
  BY <1>1 DEF Inv, TypeOK
<1>3. OnItsWay(t)'
  BY <1>1 DEF Inv, OnItsWay
<1>4. LaidOut(t)'
  BY <1>1 DEF Inv, LaidOut
<1> QED
  BY <1>1, <1>2, <1>3, <1>4, OthersKeep

\* A call that answers.
LEMMA Stops ==
    ASSUME Inv, NEW t \in Threads, call' = call, layout \subseteq layout',
           layout' \subseteq Objects, rules' \in [AddressSets -> Nat],
           elements' \subseteq IPs, deaths' = deaths,
           faults' \in Nat, misread' \in 0..faults',
           NEW a \in {"ok", "error"}, Answer(t, a)
    PROVE  Inv'
<1>1. /\ Moves(t)
      /\ pc' \in [Threads -> {"idle", "list", "add", "rule", "get",
                              "add_element", "delete_element"}]
      /\ object' \in [Threads -> Objects]
      /\ answer' \in [Threads -> {"unasked", "running", "ok", "error"}]
      /\ OnItsWay(t)' /\ LaidOut(t)'
  BY Answered
<1>2. TypeOK'
  BY <1>1 DEF Inv, TypeOK
<1> QED
  BY <1>1, <1>2, OthersKeep

\* What a step on the way has in common: only commands that change the ruleset
\* do so, and faults are counted.
Way(t) ==
    /\ call' = call /\ deaths' = deaths
    /\ layout \subseteq layout' /\ layout' \subseteq Objects
    /\ rules' \in [AddressSets -> Nat]
    /\ faults' \in Nat /\ misread' \in 0..faults'
    /\ pc[t] # "idle"

LEMMA Running ==
    ASSUME Inv, NEW t \in Threads, pc[t] # "idle"
    PROVE  answer[t] = "running" /\ call[t] \in Calls
             /\ call[t].op \in {"block", "unblock"} /\ call[t].ip \in IPs
<1>1. answer[t] = "running" /\ call[t] \in Calls
  BY DEF Inv, OnItsWay
<1> QED
  BY <1>1 DEF Calls

\* A command that failed, whatever it did to the elements.
LEMMA RaisesStep ==
    ASSUME Inv, NEW t \in Threads, Way(t), Raises(t),
           elements' \in {elements, Atomic!AfterCall(call[t])}
    PROVE  Inv' /\ Atomic!Fail(t)
<1>1. answer[t] = "running" /\ call[t].ip \in IPs
  BY Running DEF Way
<1>2. Answer(t, "error") /\ misread' = misread
  BY DEF Raises, CountFault
<1>3. elements' \subseteq IPs
  BY <1>1 DEF Inv, TypeOK, Atomic!AfterCall
<1>4. Inv'
  BY <1>2, <1>3, Stops DEF Way
<1>5. Atomic!Fail(t)
  BY <1>1, <1>2 DEF Way, Answer, Atomic!Fail
<1> QED
  BY <1>4, <1>5

\* A thread that has the object it was at.
LEMMA AfterObjectStep ==
    ASSUME Inv, NEW t \in Threads, Way(t), AfterObject(t), pc[t] \in {"list", "add"},
           object[t] \in layout', elements' = elements
    PROVE  Inv' /\ answer' = answer
<1>1. /\ answer[t] = "running" /\ call[t].op = "block" /\ object[t] \in Objects
      /\ Earlier(object[t]) \subseteq layout'
  BY Running DEF Inv, OnItsWay, TypeOK, Way, LaidOut
<1>2. CASE object[t] = "chain"
  <2>1. Objects \subseteq layout' /\ "table" \in Objects
    BY <1>1, <1>2 DEF Earlier, Objects, AddressSets
  <2>2. Goto(t, "get", "table")
    BY <1>2 DEF AfterObject
  <2> QED
    BY <1>1, <2>1, <2>2, GoesOn DEF Way, Goto
<1>3. CASE object[t] # "chain"
  <2>1. PICK o : o = NextObject[object[t]]
    OBVIOUS
  <2>2. o \in Objects /\ Earlier(o) \subseteq layout'
    BY <1>1, <1>3, <2>1, NextEarlier
  <2>3. Goto(t, "list", o)
    BY <1>3, <2>1 DEF AfterObject
  <2> QED
    BY <1>1, <2>2, <2>3, GoesOn DEF Way, Goto
<1> QED
  BY <1>2, <1>3

\* Steps that leave the ruleset alone.
LEMMA WayOfLooks ==
    ASSUME Inv, NEW t \in Threads, pc[t] # "idle", call' = call, deaths' = deaths,
           layout' = layout, rules' = rules,
           UNCHANGED <<faults, misread>> \/ CountFault \/ LooksWrong
    PROVE  Way(t)
  BY Counted DEF Way, Inv, TypeOK

LEMMA ListStep ==
    ASSUME Inv, NEW t \in Threads, List(t)
    PROVE  Inv' /\ (Ends(t) \/ Still)
<1>1. /\ pc[t] = "list" /\ call' = call /\ deaths' = deaths /\ layout' = layout
      /\ rules' = rules /\ elements' = elements
  BY DEF List, ruleset
<1>2. Way(t)
  <2>1. UNCHANGED <<faults, misread>> \/ CountFault \/ LooksWrong
    BY DEF List, Raises
  <2> QED
    BY <1>1, <2>1, WayOfLooks
<1>3. /\ answer[t] = "running" /\ object[t] \in Objects /\ call[t].op = "block"
      /\ Earlier(object[t]) \subseteq layout'
  BY <1>1, Running DEF Inv, TypeOK, OnItsWay, LaidOut
<1>4. CASE object[t] \in layout /\ AfterObject(t) /\ UNCHANGED <<faults, misread>>
  <2>1. Inv' /\ answer' = answer
    BY <1>1, <1>2, <1>4, AfterObjectStep
  <2> QED
    BY <1>1, <1>4, <2>1 DEF Still, Atomic!vars
<1>5. CASE Goto(t, "add", object[t])
  <2>1. Inv'
    BY <1>1, <1>2, <1>3, <1>5, GoesOn DEF Way
  <2>2. answer' = answer
    BY <1>5 DEF Goto
  <2>3. CASE UNCHANGED <<faults, misread>>
    BY <1>1, <2>1, <2>2, <2>3 DEF Still, Atomic!vars
  <2>4. CASE LooksWrong
    BY <1>1, <1>3, <2>1, <2>2, <2>4 DEF LooksWrong, Ends, Atomic!Overlook
  <2>5. CASE Raises(t)
    <3>1. answer'[t] = "error"
      BY <2>5 DEF Raises, Answer, Inv, TypeOK
    <3> QED
      BY <1>3, <2>2, <3>1
  <2> QED
    BY <2>3, <2>4, <2>5 DEF List
<1>6. CASE Raises(t)
  BY <1>1, <1>2, <1>6, RaisesStep DEF Ends
<1> QED
  BY <1>4, <1>5, <1>6 DEF List

LEMMA AddStep ==
    ASSUME Inv, NEW t \in Threads, Add(t)
    PROVE  Inv' /\ (Ends(t) \/ Still)
<1>1. /\ pc[t] = "add" /\ call' = call /\ deaths' = deaths
      /\ rules' = rules /\ elements' = elements
      /\ layout' \in {layout, layout \union {object[t]}}
      /\ UNCHANGED <<faults, misread>> \/ CountFault
  BY DEF Add, Raises
<1>2. /\ answer[t] = "running" /\ object[t] \in Objects /\ call[t].op = "block"
      /\ Earlier(object[t]) \subseteq layout
  BY <1>1, Running DEF Inv, TypeOK, OnItsWay, LaidOut
<1>3. Way(t)
  BY <1>1, <1>2, Counted DEF Way, Inv, TypeOK
<1>4. CASE Raises(t)
  BY <1>1, <1>3, <1>4, RaisesStep DEF Ends
<1>5. CASE ~Raises(t)
  <2>1. /\ layout' = layout \union {object[t]} /\ UNCHANGED <<faults, misread>>
        /\ IF object[t] = "chain" THEN Goto(t, "rule", "set4") ELSE AfterObject(t)
    BY <1>5 DEF Add
  <2>2. Inv' /\ answer' = answer
    <3>1. CASE object[t] = "chain"
      <4>1. Objects \subseteq layout' /\ "set4" \in AddressSets /\ "set4" \in Objects
        BY <1>2, <2>1, <3>1 DEF Earlier, Objects, AddressSets
      <4> QED
        BY <1>1, <1>2, <1>3, <2>1, <3>1, <4>1, GoesOn DEF Way, Goto
    <3>2. CASE object[t] # "chain"
      BY <1>1, <1>3, <2>1, <3>2, AfterObjectStep
    <3> QED
      BY <3>1, <3>2
  <2> QED
    BY <1>1, <2>1, <2>2 DEF Still, Atomic!vars
<1> QED
  BY <1>4, <1>5

LEMMA AddRuleStep ==
    ASSUME Inv, NEW t \in Threads, AddRule(t)
    PROVE  Inv' /\ (Ends(t) \/ Still)
<1>1. /\ pc[t] = "rule" /\ call' = call /\ deaths' = deaths
      /\ layout' = layout /\ elements' = elements
      /\ rules' \in {rules, [rules EXCEPT ![object[t]] = @ + 1]}
      /\ UNCHANGED <<faults, misread>> \/ CountFault
  BY DEF AddRule, Raises
<1>2. /\ answer[t] = "running" /\ object[t] \in AddressSets /\ call[t].op = "block"
      /\ Objects \subseteq layout'
  BY <1>1, Running DEF Inv, TypeOK, OnItsWay, LaidOut
<1>3. Way(t)
  <2>1. rules' \in [AddressSets -> Nat]
    BY <1>1, <1>2 DEF Inv, TypeOK
  <2> QED
    BY <1>1, <2>1, Counted DEF Way, Inv, TypeOK
<1>4. CASE Raises(t)
  BY <1>1, <1>3, <1>4, RaisesStep DEF Ends
<1>5. CASE ~Raises(t)
  <2>1. /\ UNCHANGED <<faults, misread>>
        /\ Goto(t, "rule", "set6") \/ Goto(t, "get", "table")
    BY <1>5 DEF AddRule
  <2>2. {"set6", "table"} \subseteq Objects /\ "set6" \in AddressSets
    BY DEF Objects, AddressSets
  <2>3. Inv' /\ answer' = answer
    BY <1>1, <1>2, <1>3, <2>1, <2>2, GoesOn DEF Way, Goto
  <2> QED
    BY <1>1, <2>1, <2>3 DEF Still, Atomic!vars
<1> QED
  BY <1>4, <1>5

\* An answer that is not an error ends the call as its effect allows.
LEMMA SucceedsStep ==
    ASSUME Inv, NEW t \in Threads, Way(t), Answer(t, "ok"), misread' = misread,
           elements' = Atomic!AfterCall(call[t])
    PROVE  Inv' /\ Atomic!Succeed(t)
<1>1. answer[t] = "running" /\ call[t].ip \in IPs
  BY Running DEF Way
<1>2. elements' \subseteq IPs
  BY <1>1 DEF Inv, TypeOK, Atomic!AfterCall
<1>3. Inv'
  BY <1>2, Stops DEF Way
<1>4. Atomic!Succeed(t)
  BY <1>1 DEF Way, Answer, Atomic!Succeed
<1> QED
  BY <1>3, <1>4

LEMMA GetStep ==
    ASSUME Inv, NEW t \in Threads, Get(t)
    PROVE  Inv' /\ (Ends(t) \/ Still)
<1>1. /\ pc[t] = "get" /\ call' = call /\ deaths' = deaths /\ layout' = layout
      /\ rules' = rules /\ elements' = elements
      /\ UNCHANGED <<faults, misread>> \/ CountFault \/ LooksWrong
  BY DEF Get, Raises, ruleset
<1>2. Way(t)
  BY <1>1, WayOfLooks
<1>3. /\ answer[t] = "running" /\ call[t].op \in {"block", "unblock"}
      /\ call[t].op = "block" => Objects \subseteq layout'
      /\ elements \subseteq IPs /\ "table" \in Objects
  BY <1>1, Running DEF Inv, TypeOK, LaidOut, Objects
<1>4. CASE Raises(t)
  BY <1>1, <1>2, <1>4, RaisesStep DEF Ends
<1>5. CASE Goto(t, IF call[t].op = "block" THEN "add_element" ELSE "delete_element", "table")
  <2>1. PICK step : step = IF call[t].op = "block" THEN "add_element" ELSE "delete_element"
    OBVIOUS
  <2>2. Inv'
    BY <1>1, <1>2, <1>3, <1>5, <2>1, GoesOn DEF Way
  <2>3. answer' = answer
    BY <1>5 DEF Goto
  <2>4. CASE UNCHANGED <<faults, misread>>
    BY <1>1, <2>2, <2>3, <2>4 DEF Still, Atomic!vars
  <2>5. CASE LooksWrong
    BY <1>1, <1>3, <2>2, <2>3, <2>5 DEF LooksWrong, Ends, Atomic!Overlook
  <2> QED
    BY <1>4, <2>4, <2>5 DEF Get
<1>6. CASE Answer(t, "ok")
  <2>1. CASE (call[t].ip \in elements) = (call[t].op = "block") /\ UNCHANGED <<faults, misread>>
    <3>1. elements' = Atomic!AfterCall(call[t])
      BY <1>1, <1>3, <2>1 DEF Atomic!AfterCall
    <3> QED
      BY <1>2, <1>6, <2>1, <3>1, SucceedsStep DEF Ends
  <2>2. CASE LooksWrong /\ call[t].op # "block"
    <3>1. Inv'
      BY <1>1, <1>2, <1>3, <1>6, Stops DEF Way
    <3> QED
      BY <1>1, <1>3, <1>6, <2>2, <3>1 DEF LooksWrong, Answer, Ends, Atomic!Overlook
  <2>3. \/ (call[t].ip \in elements) = (call[t].op = "block") /\ UNCHANGED <<faults, misread>>
        \/ LooksWrong /\ call[t].op # "block"
        \/ Raises(t)
        \/ Goto(t, IF call[t].op = "block" THEN "add_element" ELSE "delete_element", "table")
    BY DEF Get
  <2> QED
    BY <1>4, <1>5, <2>1, <2>2, <2>3
<1>7. Raises(t) \/ Answer(t, "ok")
        \/ Goto(t, IF call[t].op = "block" THEN "add_element" ELSE "delete_element", "table")
  BY DEF Get
<1> QED
  BY <1>4, <1>5, <1>6, <1>7

LEMMA ElementStep ==
    ASSUME Inv, NEW t \in Threads, AddElement(t) \/ DeleteElement(t)
    PROVE  Inv' /\ Ends(t)
<1>1. /\ pc[t] \in {"add_element", "delete_element"} /\ call' = call /\ deaths' = deaths
      /\ layout' = layout /\ rules' = rules
      /\ UNCHANGED <<faults, misread>> \/ CountFault
  BY DEF AddElement, DeleteElement, Raises
<1>2. Way(t)
  BY <1>1, WayOfLooks
<1>3. /\ answer[t] = "running"
      /\ AddElement(t) => call[t].op = "block"
      /\ DeleteElement(t) => call[t].op = "unblock"
  BY <1>1, Running DEF Inv, OnItsWay, AddElement, DeleteElement
<1>4. CASE Raises(t)
  <2>1. elements' \in {elements, Atomic!AfterCall(call[t])}
    BY <1>3, <1>4 DEF AddElement, DeleteElement, Atomic!AfterCall
  <2> QED
    BY <1>2, <1>4, <2>1, RaisesStep DEF Ends
<1>5. CASE ~Raises(t)
  <2>1. CASE Answer(t, "ok") /\ elements' = Atomic!AfterCall(call[t])
               /\ UNCHANGED <<faults, misread>>
    BY <1>2, <2>1, SucceedsStep DEF Ends
  <2>2. CASE Answer(t, "error") /\ UNCHANGED <<elements, faults, misread>>
    <3>1. Inv'
      BY <1>1, <1>2, <2>2, Stops DEF Way, Inv, TypeOK
    <3> QED
      BY <1>1, <1>3, <2>2, <3>1 DEF Answer, Ends, Atomic!Fail
  <2> QED
    BY <1>3, <1>5, <2>1, <2>2 DEF AddElement, DeleteElement, Atomic!AfterCall
<1> QED
  BY <1>4, <1>5

LEMMA DeathStep ==
    ASSUME Inv, ProcessDies \/ HostDies
    PROVE  Inv' /\ Atomic!Perish
<1>1. /\ pc' = [t \in Threads |-> "idle"] /\ object' = [t \in Threads |-> "table"]
      /\ answer' = [t \in Threads |-> "error"] /\ deaths' = deaths + 1
      /\ call' = call /\ faults' = faults /\ misread' = misread
      /\ elements' \in {elements, {}} /\ layout' \in {layout, {}}
      /\ rules' \in {rules, [s \in AddressSets |-> 0]}
  BY DEF ProcessDies, HostDies, Die, ruleset
<1>2. TypeOK'
  BY <1>1 DEF Inv, TypeOK, Objects
<1>3. \A t \in Threads : OnItsWay(t)' /\ LaidOut(t)'
  BY <1>1 DEF OnItsWay, LaidOut
<1>4. Atomic!Perish
  BY <1>1 DEF Atomic!Perish
<1> QED
  BY <1>2, <1>3, <1>4 DEF Inv

LEMMA InitInv == Init => Inv
<1> SUFFICES ASSUME Init PROVE Inv
  OBVIOUS
<1>1. TypeOK
  BY DEF Init, TypeOK, Objects
<1> QED
  BY <1>1 DEF Init, Inv, OnItsWay, LaidOut

LEMMA NextInv ==
    ASSUME Inv, [Next]_vars
    PROVE  Inv' /\ [Atomic!AtomicNext]_(Atomic!vars)
<1>1. CASE UNCHANGED vars
  BY <1>1 DEF vars, Inv, TypeOK, OnItsWay, LaidOut, Atomic!vars
<1>2. CASE \E t \in Threads : Begin(t)
  BY <1>2, BeginStep DEF Atomic!AtomicNext
<1>3. ASSUME NEW t \in Threads, CallStep(t)
      PROVE  Inv' /\ [Atomic!AtomicNext]_(Atomic!vars)
  <2>1. Inv' /\ (Ends(t) \/ Still)
    BY <1>3, ListStep, AddStep, AddRuleStep, GetStep, ElementStep DEF CallStep
  <2> QED
    BY <2>1 DEF Ends, Still, Atomic!AtomicNext
<1>4. CASE ProcessDies \/ HostDies
  BY <1>4, DeathStep DEF Atomic!AtomicNext
<1> QED
  BY <1>1, <1>2, <1>3, <1>4 DEF Next

\* The variables keep their types for any number of threads, addresses, faults and
\* deaths (nftables.py:53-130).
THEOREM TypeCorrect == Spec => []TypeOK
<1>1. Inv => TypeOK
  BY DEF Inv
<1>2. Inv /\ [Next]_vars => Inv'
  BY NextInv
<1> QED
  BY <1>1, <1>2, InitInv, PTL DEF Spec

\* No command names an object that is not there, whoever created it and whichever
\* looks were wrong (nftables.py:70-79).
THEOREM ObjectsThere == Spec => []ObjectsExist
<1>1. Inv => ObjectsExist
  <2> SUFFICES ASSUME Inv, NEW t \in Threads
               PROVE  /\ pc[t] = "add" /\ object[t] # "table" => "table" \in layout
                      /\ pc[t] = "rule" => {"chain", object[t]} \subseteq layout
                      /\ pc[t] = "add_element" => SetFor[call[t].ip] \in layout
    BY DEF ObjectsExist
  <2>1. LaidOut(t) /\ object[t] \in Objects
    BY DEF Inv, TypeOK
  <2>2. pc[t] = "add_element" => SetFor[call[t].ip] \in AddressSets
    BY Running, SetForAssumption
  <2> QED
    BY <2>1, <2>2 DEF LaidOut, Earlier, Objects, AddressSets
<1>2. Inv /\ [Next]_vars => Inv'
  BY NextInv
<1> QED
  BY <1>1, <1>2, InitInv, PTL DEF Spec

\* The command sequences of any number of threads implement the atomic service that
\* SecMonFirewall takes for granted (nftables.py:117-130).
THEOREM Implements == Spec => AtomicSpec
<1>1. Init => Atomic!AtomicInit
  BY DEF Init, Atomic!AtomicInit, NoCall, Atomic!NoCall
<1>2. Inv /\ [Next]_vars => Inv' /\ [Atomic!AtomicNext]_(Atomic!vars)
  BY NextInv
<1> QED
  BY <1>1, <1>2, InitInv, PTL DEF Spec, AtomicSpec, Atomic!AtomicSpec

----------------------------------------------------------------------------
(* The drop rules: whoever adds the chain adds them, unless disturbed.     *)

\* A thread that has still to add the rule about a set.
Pending(s) == \E t \in Threads : pc[t] = "rule" /\ object[t] \in {"set4", s}

\* As long as no command was disturbed, a chain has its rules or will get them, and
\* elements were added after it.
RulesFollow ==
    /\ elements # {} => "chain" \in layout
    /\ Undisturbed /\ "chain" \in layout =>
         \A s \in AddressSets : rules[s] > 0 \/ Pending(s)

\* A step of a thread that adds neither the chain nor a rule.
LEMMA NoRuleStep ==
    ASSUME Inv, RulesFollow, NEW t \in Threads, pc[t] # "rule",
           \A u \in Threads \ {t} : pc'[u] = pc[u] /\ object'[u] = object[u],
           rules' = rules, layout \subseteq layout', "chain" \in layout' => "chain" \in layout,
           elements' = {} \/ elements # {} \/ "chain" \in layout,
           Undisturbed' => Undisturbed
    PROVE  RulesFollow'
<1>1. elements' # {} => "chain" \in layout'
  BY DEF RulesFollow
<1>2. ASSUME NEW s \in AddressSets, Pending(s)
      PROVE  Pending(s)'
  <2>1. PICK u \in Threads : pc[u] = "rule" /\ object[u] \in {"set4", s}
    BY <1>2 DEF Pending
  <2> QED
    BY <2>1 DEF Pending
<1> QED
  BY <1>1, <1>2 DEF RulesFollow

LEMMA ThreadRules ==
    ASSUME Inv, RulesFollow, NEW t \in Threads, Begin(t) \/ CallStep(t)
    PROVE  RulesFollow'
<1>0. TypeOK /\ LaidOut(t)
  BY DEF Inv
<1>1. Undisturbed' => Undisturbed
  BY <1>0 DEF Undisturbed, TypeOK, Begin, CallStep, List, Add, AddRule, Get, AddElement,
              DeleteElement, Raises, CountFault, LooksWrong
<1>2. \A u \in Threads \ {t} : pc'[u] = pc[u] /\ object'[u] = object[u]
  BY <1>0 DEF TypeOK, Begin, CallStep, List, Add, AddRule, Get, AddElement,
              DeleteElement, Raises, AfterObject, Goto, Answer
<1>3. CASE Begin(t) \/ List(t) \/ Get(t) \/ AddElement(t) \/ DeleteElement(t)
  <2>1. pc[t] # "rule" /\ rules' = rules /\ layout' = layout
    BY <1>3 DEF Begin, List, Get, AddElement, DeleteElement, ruleset
  <2>2. elements' = {} \/ elements # {} \/ "chain" \in layout
    <3>1. CASE AddElement(t)
      BY <1>0, <3>1 DEF AddElement, LaidOut, Objects
    <3>2. CASE ~AddElement(t)
      BY <1>3, <3>2 DEF Begin, List, Get, DeleteElement, ruleset
    <3> QED
      BY <3>1, <3>2
  <2> QED
    BY <1>1, <1>2, <2>1, <2>2, NoRuleStep
<1>4. CASE Add(t)
  <2>1. /\ pc[t] = "add" /\ rules' = rules /\ elements' = elements
        /\ layout \subseteq layout' /\ layout' \subseteq layout \union {object[t]}
    BY <1>4 DEF Add
  <2>2. CASE object[t] # "chain"
    BY <1>1, <1>2, <2>1, <2>2, NoRuleStep DEF RulesFollow
  <2>3. CASE object[t] = "chain" /\ Undisturbed'
    <3>1. ~Raises(t)
      BY <1>0, <2>3 DEF Raises, CountFault, Undisturbed, TypeOK
    <3>2. Goto(t, "rule", "set4")
      BY <1>4, <2>3, <3>1 DEF Add
    <3>3. pc'[t] = "rule" /\ object'[t] = "set4"
      BY <1>0, <3>2 DEF Goto, TypeOK
    <3>4. \A s \in AddressSets : Pending(s)'
      BY <3>3 DEF Pending
    <3> QED
      BY <2>1, <3>4 DEF RulesFollow
  <2>4. CASE ~Undisturbed'
    BY <2>1, <2>4 DEF RulesFollow
  <2> QED
    BY <2>2, <2>3, <2>4
<1>5. CASE AddRule(t)
  <2>1. layout' = layout /\ elements' = elements /\ pc[t] = "rule"
    BY <1>5 DEF AddRule
  <2>2. CASE ~Undisturbed'
    BY <2>1, <2>2 DEF RulesFollow
  <2>3. CASE Undisturbed'
    <3>1. ~Raises(t)
      BY <1>0, <2>3 DEF Raises, CountFault, Undisturbed, TypeOK
    <3>2. /\ rules' = [rules EXCEPT ![object[t]] = @ + 1]
          /\ IF object[t] = "set4" THEN Goto(t, "rule", "set6") ELSE Goto(t, "get", "table")
      BY <1>5, <3>1 DEF AddRule
    <3>3. rules \in [AddressSets -> Nat] /\ object[t] \in AddressSets
      BY <1>0, <2>1 DEF TypeOK, LaidOut
    <3>4. ASSUME NEW s \in AddressSets, "chain" \in layout
          PROVE  rules'[s] > 0 \/ Pending(s)'
      <4>1. CASE s = object[t]
        BY <3>2, <3>3, <4>1
      <4>2. CASE s # object[t] /\ rules[s] > 0
        BY <3>2, <3>3, <4>2
      <4>3. CASE s # object[t] /\ ~(rules[s] > 0)
        <5>1. PICK u \in Threads : pc[u] = "rule" /\ object[u] \in {"set4", s}
          BY <1>1, <2>3, <3>4, <4>3 DEF RulesFollow, Pending
        <5>2. CASE u # t
          BY <1>2, <5>1, <5>2 DEF Pending
        <5>3. CASE u = t
          <6>1. object[t] = "set4" /\ s = "set6"
            BY <4>3, <5>1, <5>3 DEF AddressSets
          <6>2. pc'[t] = "rule" /\ object'[t] = "set6"
            BY <1>0, <3>2, <6>1 DEF Goto, TypeOK
          <6> QED
            BY <6>1, <6>2 DEF Pending
        <5> QED
          BY <5>2, <5>3
      <4> QED
        BY <4>1, <4>2, <4>3
    <3> QED
      BY <2>1, <3>4 DEF RulesFollow
  <2> QED
    BY <2>2, <2>3
<1> QED
  BY <1>3, <1>4, <1>5 DEF CallStep

LEMMA RulesStep ==
    ASSUME Inv, RulesFollow, [Next]_vars
    PROVE  RulesFollow'
<1>1. CASE UNCHANGED vars
  BY <1>1 DEF vars, RulesFollow, Undisturbed, Pending
<1>2. CASE ProcessDies \/ HostDies
  <2>1. ~Undisturbed'
    BY <1>2 DEF ProcessDies, HostDies, Die, Undisturbed, Inv, TypeOK
  <2>2. elements' # {} => "chain" \in layout'
    BY <1>2 DEF ProcessDies, HostDies, ruleset, RulesFollow
  <2> QED
    BY <2>1, <2>2 DEF RulesFollow
<1> QED
  BY <1>1, <1>2, ThreadRules DEF Next

\* However many calls build the layout at once, when all are answered and none was
\* disturbed, every address in the sets is dropped (nftables.py:70-79).
THEOREM QuietlyDropped == Spec => []QuietDropped
<1>1. Init => RulesFollow
  BY DEF Init, RulesFollow
<1>2. Inv /\ [Next]_vars => Inv'
  BY NextInv
<1>3. Inv /\ RulesFollow /\ [Next]_vars => RulesFollow'
  BY RulesStep
<1>4. Inv /\ RulesFollow => QuietDropped
  <2> SUFFICES ASSUME Inv, RulesFollow, Quiet, Undisturbed, NEW ip \in elements
               PROVE  rules[SetFor[ip]] > 0
    BY DEF QuietDropped, Dropped
  <2>1. "chain" \in layout /\ SetFor[ip] \in AddressSets
    BY SetForAssumption DEF RulesFollow, Inv, TypeOK
  <2>2. ~Pending(SetFor[ip])
    BY DEF Quiet, Pending
  <2> QED
    BY <2>1, <2>2 DEF RulesFollow
<1> QED
  BY <1>1, <1>2, <1>3, <1>4, InitInv, PTL DEF Spec
=============================================================================
