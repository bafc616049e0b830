--------------------------- MODULE NftablesService ---------------------------
(***************************************************************************)
(* NftablesService (backend/services/nftables.py): block and unblock as    *)
(* the sequences of nft commands they run against `table inet secmon`.     *)
(* Request threads share one service object without a lock, so commands of *)
(* different calls interleave.  nft itself is external: each command is    *)
(* one atomic transaction of the kernel, `add` of a table, set, chain or   *)
(* element that exists succeeds, and `add rule` always appends.            *)
(***************************************************************************)
EXTENDS Naturals, FiniteSets

CONSTANTS
    Threads,        \* request threads
    IPs,            \* addresses parse_ip accepts
    SetFor,         \* the set of the family of each address
    MaxFaults,      \* bound: commands that fail or time out
    MaxDeaths,      \* bound: deaths of the process, with or without the host
    Misreads        \* may `list` and `get` exit nonzero though the object is
                    \* there (netlink busy, memory, permissions)?

AddressSets == {"set4", "set6"}
Objects == {"table", "chain"} \union AddressSets

ASSUME SetForAssumption == SetFor \in [IPs -> AddressSets]
ASSUME BoundsAssumption == /\ MaxFaults \in Nat
                           /\ MaxDeaths \in Nat
                           /\ Misreads \in BOOLEAN

VARIABLES
    layout,     \* the objects that exist in the kernel
    rules,      \* copies of the drop rule about each set
    elements,   \* addresses in the two sets
    pc,         \* the kind of the thread's next nft command
    object,     \* the object that command names, while it builds the layout
    call,       \* the request of the thread, kept after it is answered
    answer,     \* its outcome, "running" until it is known
    faults,
    misread,    \* history: looks that missed what was there
    deaths

ruleset == <<layout, rules, elements>>
vars == <<layout, rules, elements, pc, object, call, answer, faults,
          misread, deaths>>

Calls  == [op: {"block", "unblock"}, ip: IPs]
NoCall == [op |-> "none", ip |-> "none"]

\* _ensure_layout goes through the objects in this order.
NextObject == [table |-> "set4", set4 |-> "set6", set6 |-> "chain",
               chain |-> "chain"]

Init ==
    /\ layout = {}
    /\ rules = [s \in AddressSets |-> 0]
    /\ elements = {}
    /\ pc = [t \in Threads |-> "idle"]
    /\ object = [t \in Threads |-> "table"]
    /\ call = [t \in Threads |-> NoCall]
    /\ answer = [t \in Threads |-> "unasked"]
    /\ faults = 0
    /\ misread = 0
    /\ deaths = 0

Answer(t, a) ==
    /\ pc' = [pc EXCEPT ![t] = "idle"]
    /\ object' = [object EXCEPT ![t] = "table"]
    /\ answer' = [answer EXCEPT ![t] = a]

Goto(t, step, o) ==
    /\ pc' = [pc EXCEPT ![t] = step]
    /\ object' = [object EXCEPT ![t] = o]
    /\ UNCHANGED answer

CountFault == faults < MaxFaults /\ faults' = faults + 1 /\ UNCHANGED misread

\* `list` or `get` exits nonzero though the object is there.
LooksWrong == /\ Misreads
              /\ faults < MaxFaults
              /\ faults' = faults + 1
              /\ misread' = misread + 1

\* The command raises FirewallError: nonzero exit, or the time limit passed.
Raises(t) == CountFault /\ Answer(t, "error")

----------------------------------------------------------------------------

\* block() begins with _ensure_layout, unblock() with the look for its element.
Begin(t) ==
    /\ pc[t] = "idle"
    /\ \E c \in Calls :
        /\ call' = [call EXCEPT ![t] = c]
        /\ pc' = [pc EXCEPT ![t] = IF c.op = "block" THEN "list" ELSE "get"]
    /\ answer' = [answer EXCEPT ![t] = "running"]
    /\ UNCHANGED <<ruleset, object, faults, misread, deaths>>

\* An object found is passed over; one not found is added next.
AfterObject(t) == IF object[t] = "chain" THEN Goto(t, "get", "table")
                  ELSE Goto(t, "list", NextObject[object[t]])

List(t) ==
    /\ pc[t] = "list"
    /\ \/ object[t] \in layout /\ AfterObject(t) /\ UNCHANGED <<faults, misread>>
       \/ object[t] \notin layout /\ Goto(t, "add", object[t]) /\ UNCHANGED <<faults, misread>>
       \/ /\ object[t] \in layout
          /\ LooksWrong
          /\ Goto(t, "add", object[t])
       \/ Raises(t)
    /\ UNCHANGED <<ruleset, call, deaths>>

\* Mutant: the chain is added without its rules.
Add_NoRules(t) ==
    /\ pc[t] = "add"
    /\ layout' = layout \union {object[t]}
    /\ AfterObject(t)
    /\ UNCHANGED <<rules, elements, call, faults, misread, deaths>>

\* Only a thread that added the chain goes on to add its rules.
Add(t) ==
    /\ pc[t] = "add"
    /\ \/ /\ layout' = layout \union {object[t]}
          /\ IF object[t] = "chain" THEN Goto(t, "rule", "set4")
             ELSE AfterObject(t)
          /\ UNCHANGED <<faults, misread>>
       \/ Raises(t) /\ layout' \in {layout, layout \union {object[t]}}
    /\ UNCHANGED <<rules, elements, call, deaths>>

\* Mutant: only the rule about IPv4 is added.
AddRule_OneFamily(t) ==
    /\ pc[t] = "rule"
    /\ rules' = [rules EXCEPT ![object[t]] = @ + 1]
    /\ Goto(t, "get", "table")
    /\ UNCHANGED <<layout, elements, call, faults, misread, deaths>>

AddRule(t) ==
    LET appended == [rules EXCEPT ![object[t]] = @ + 1]
    IN  /\ pc[t] = "rule"
        /\ \/ /\ rules' = appended
              /\ IF object[t] = "set4" THEN Goto(t, "rule", "set6")
                 ELSE Goto(t, "get", "table")
              /\ UNCHANGED <<faults, misread>>
           \/ Raises(t) /\ rules' \in {rules, appended}
        /\ UNCHANGED <<layout, elements, call, deaths>>

\* Present for block and absent for unblock is the answer already.
Get(t) ==
    LET found  == call[t].ip \in elements
        wanted == call[t].op = "block"
        Act    == Goto(t, IF wanted THEN "add_element" ELSE "delete_element", "table")
    IN  /\ pc[t] = "get"
        /\ \/ found = wanted /\ Answer(t, "ok") /\ UNCHANGED <<faults, misread>>
           \/ found # wanted /\ Act /\ UNCHANGED <<faults, misread>>
           \/ /\ found
              /\ LooksWrong
              /\ IF wanted THEN Act ELSE Answer(t, "ok")
           \/ Raises(t)
        /\ UNCHANGED <<ruleset, call, deaths>>

AddElement(t) ==
    LET added == elements \union {call[t].ip}
    IN  /\ pc[t] = "add_element"
        /\ \/ elements' = added /\ Answer(t, "ok") /\ UNCHANGED <<faults, misread>>
           \/ Raises(t) /\ elements' \in {elements, added}
        /\ UNCHANGED <<layout, rules, call, deaths>>

\* Mutant: the exit status of `delete element` is not looked at.
DeleteElement_Unchecked(t) ==
    /\ pc[t] = "delete_element"
    /\ Answer(t, "ok")
    /\ \/ elements' = elements \ {call[t].ip} /\ UNCHANGED <<faults, misread>>
       \/ CountFault /\ UNCHANGED elements
    /\ UNCHANGED <<layout, rules, call, deaths>>

\* nft refuses to delete an element another thread has deleted meanwhile.
DeleteElement(t) ==
    LET deleted == elements \ {call[t].ip}
    IN  /\ pc[t] = "delete_element"
        /\ \/ /\ call[t].ip \in elements
              /\ elements' = deleted
              /\ Answer(t, "ok")
              /\ UNCHANGED <<faults, misread>>
           \/ /\ call[t].ip \notin elements
              /\ Answer(t, "error")
              /\ UNCHANGED <<elements, faults, misread>>
           \/ Raises(t) /\ elements' \in {elements, deleted}
        /\ UNCHANGED <<layout, rules, call, deaths>>

\* Every call ends where it stands (the command in flight is carried out just
\* before or not at all).  A reboot takes the ruleset along.
Die == /\ deaths < MaxDeaths
       /\ deaths' = deaths + 1
       /\ pc' = [t \in Threads |-> "idle"]
       /\ object' = [t \in Threads |-> "table"]
       /\ answer' = [t \in Threads |-> "error"]
       /\ UNCHANGED <<call, faults, misread>>

ProcessDies == Die /\ UNCHANGED ruleset

HostDies == /\ Die
            /\ layout' = {}
            /\ rules' = [s \in AddressSets |-> 0]
            /\ elements' = {}

CallStep(t) == \/ List(t) \/ Add(t) \/ AddRule(t)
               \/ Get(t) \/ AddElement(t) \/ DeleteElement(t)

Next == \/ \E t \in Threads : Begin(t)
        \/ \E t \in Threads : CallStep(t)
        \/ ProcessDies
        \/ HostDies

Spec == Init /\ [][Next]_vars

\* Every command has a time limit and the thread pool runs every thread.
FairSpec == Spec /\ \A t \in Threads : WF_vars(CallStep(t))

----------------------------------------------------------------------------
(* Properties.                                                             *)

\* Every variable keeps its type.
TypeOK ==
    /\ layout \subseteq Objects
    /\ rules \in [AddressSets -> Nat]
    /\ elements \subseteq IPs
    /\ pc \in [Threads -> {"idle", "list", "add", "rule", "get",
                           "add_element", "delete_element"}]
    /\ object \in [Threads -> Objects]
    /\ call \in [Threads -> Calls \union {NoCall}]
    /\ answer \in [Threads -> {"unasked", "running", "ok", "error"}]
    /\ faults \in Nat /\ misread \in 0..faults
    /\ deaths \in Nat

Quiet == \A t \in Threads : pc[t] = "idle"
Undisturbed == faults = 0 /\ deaths = 0

Dropped(ip) == ip \in elements /\ rules[SetFor[ip]] > 0

\* However the commands of concurrent calls interleave, once no call runs and
\* none was disturbed, the kernel drops every address in its sets: the thread
\* that found no chain and the threads that found it without rules together
\* leave it complete (nftables.py:70-79).
QuietDropped ==
    Quiet /\ Undisturbed => \A ip \in elements : Dropped(ip)

\* No command names an object that is not there, whichever thread created it:
\* rules come after the chain and both sets, elements after their set
\* (the order of _ensure_layout).
ObjectsExist ==
    \A t \in Threads :
        /\ pc[t] = "add" /\ object[t] # "table" => "table" \in layout
        /\ pc[t] = "rule" => {"chain", object[t]} \subseteq layout
        /\ pc[t] = "add_element" => SetFor[call[t].ip] \in layout

\* An address added while another thread still builds the chain is dropped
\* soon, unless it is unblocked before or a command is disturbed.
EventuallyDropped ==
    \A ip \in IPs :
        ip \in elements ~> Dropped(ip) \/ ip \notin elements \/ ~Undisturbed

\* When no call runs, an address whose last block() succeeded and that is
\* still in its set is dropped (nftables.py:1, "Fail-closed").
SuccessfulBlockDrops ==
    Quiet => \A t \in Threads :
               answer[t] = "ok" /\ call[t].op = "block"
                 /\ call[t].ip \in elements => Dropped(call[t].ip)

\* The commands implement the atomic service.
Atomic == INSTANCE AddressSet WITH
            Clients <- Threads, Addresses <- IPs, members <- elements,
            overlooked <- misread

AtomicSpec == Atomic!AtomicSpec
=============================================================================
