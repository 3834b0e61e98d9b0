-------------------------- MODULE ApprovalLifecycle --------------------------
(***************************************************************************)
(* What the approval queue promises about one request, whatever the store  *)
(* does to keep it: a request becomes pending once, an operator begins to  *)
(* decide it before its deadline or it expires at or after the deadline,   *)
(* and it never changes again (the status diagram of                       *)
(* src/approvals.rs:8-21).  Time may pass while an operation runs.         *)
(***************************************************************************)
EXTENDS Integers

CONSTANT Ids

VARIABLES
    status,     \* status[i]: "Absent" until request i is made
    deadline,   \* deadline[i]: when request i stops waiting
    clock

lifecycleVars == <<status, deadline, clock>>

Init ==
    /\ status = [i \in Ids |-> "Absent"]
    /\ deadline = [i \in Ids |-> 0]
    /\ clock = 0

Keeps(i) ==
    /\ status'[i] = status[i]
    /\ deadline'[i] = deadline[i]

\* i is asked for now.
Asked(i) ==
    /\ status[i] = "Absent"
    /\ status'[i] = "Pending"
    /\ deadline'[i] >= clock

\* An operator decides i, having looked in time.
Decided(i) ==
    /\ status[i] = "Pending"
    /\ clock < deadline[i]
    /\ status'[i] \in {"Approved", "Denied"}
    /\ deadline'[i] = deadline[i]

\* i is found past its deadline.
Lapsed(i) ==
    /\ status[i] = "Pending"
    /\ deadline[i] <= clock
    /\ status'[i] = "Expired"
    /\ deadline'[i] = deadline[i]

\* Time passes, and there may be an operation of the store: any number of
\* requests lapse, and at most one is asked for or decided.
Next ==
    /\ clock' >= clock
    /\ \A i \in Ids : Keeps(i) \/ Asked(i) \/ Decided(i) \/ Lapsed(i)
    /\ \A i, j \in Ids : (Asked(i) \/ Decided(i)) /\ (Asked(j) \/ Decided(j)) => i = j

Spec == Init /\ [][Next]_lifecycleVars
=============================================================================
