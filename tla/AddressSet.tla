----------------------------- MODULE AddressSet -----------------------------
(***************************************************************************)
(* What SecMonFirewall takes the firewall service to be: a set of          *)
(* addresses in the kernel and calls that each take effect in one step.  A *)
(* call that succeeds has had its effect when it answers; one that fails   *)
(* or is cut off by the death of the process may have had it or not.  A    *)
(* look that misses an element makes one unblock succeed without effect.   *)
(* NftablesService is shown to implement this with sequences of commands.  *)
(***************************************************************************)
EXTENDS Naturals

CONSTANTS Clients,      \* who calls the service
          Addresses     \* what it blocks

VARIABLES members,      \* the addresses in the kernel's sets
          call,         \* what each client asked for last
          answer,       \* what it was told, "running" until it is known
          overlooked    \* how often a look missed what was there

vars == <<members, call, answer, overlooked>>

Calls == [op: {"block", "unblock"}, ip: Addresses]
NoCall == [op |-> "none", ip |-> "none"]

AfterCall(c) == IF c.op = "block" THEN members \union {c.ip} ELSE members \ {c.ip}

AtomicInit == /\ members = {}
              /\ call = [c \in Clients |-> NoCall]
              /\ answer = [c \in Clients |-> "unasked"]
              /\ overlooked = 0

Ask(c) == /\ answer[c] # "running"
          /\ \E r \in Calls : call' = [call EXCEPT ![c] = r]
          /\ answer' = [answer EXCEPT ![c] = "running"]
          /\ UNCHANGED <<members, overlooked>>

Succeed(c) == /\ answer[c] = "running"
              /\ answer' = [answer EXCEPT ![c] = "ok"]
              /\ members' = AfterCall(call[c])
              /\ UNCHANGED <<call, overlooked>>

Fail(c) == /\ answer[c] = "running"
           /\ answer' = [answer EXCEPT ![c] = "error"]
           /\ members' \in {members, AfterCall(call[c])}
           /\ UNCHANGED <<call, overlooked>>

\* A look misses what is there.  The caller of an unblock may be told "ok".
Overlook(c) == /\ answer[c] = "running"
               /\ overlooked' = overlooked + 1
               /\ \/ UNCHANGED answer
                  \/ call[c].op = "unblock" /\ answer' = [answer EXCEPT ![c] = "ok"]
               /\ UNCHANGED <<members, call>>

\* The process dies in the middle of all its calls; when the host goes down
\* with it the sets are empty afterwards.
Perish == /\ answer' = [c \in Clients |-> "error"]
          /\ members' \in {members, {}}
          /\ UNCHANGED <<call, overlooked>>

AtomicNext == \/ \E c \in Clients : Ask(c) \/ Succeed(c) \/ Fail(c) \/ Overlook(c)
              \/ Perish

AtomicSpec == AtomicInit /\ [][AtomicNext]_vars
=============================================================================
