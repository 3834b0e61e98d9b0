--------------------------- MODULE ApprovalRecords ---------------------------
(***************************************************************************)
(* The approvals file (state/approvals.json) and the pure part of          *)
(* ApprovalStore (src/approvals.rs): what every operation computes from    *)
(* the list it has read, before it writes the list back.                   *)
(*                                                                         *)
(* An action request is abstracted to the two things the store compares:   *)
(* `key', the fields create_pending compares (reason, kind, operation,     *)
(* path, secondary path and host), and `scope', the value of               *)
(* make_scope_key, which also hashes the metadata.  Two actions with one   *)
(* key and two scopes differ in their metadata only.                       *)
(***************************************************************************)
EXTENDS Integers

CONSTANTS
    Ids,        \* uuids of approval records
    Actions,    \* action requests: records with a key and a scope
    TTLs        \* time to live a decision may carry (policy approvals.ttl_seconds)

ASSUME IdsAssumption == Ids # {}
ASSUME ActionsAssumption == \A a \in Actions : a = [key |-> a.key, scope |-> a.scope]
ASSUME TTLsAssumption == TTLs \subseteq Nat

Undecided == -1

Decisions == {"Approved", "Denied"}

\* The place of an uuid no record carries.
NoRecord == [status |-> "Absent"]

Record == [status  : {"Pending", "Approved", "Denied", "Expired"},
           action  : Actions,
           created : Nat,
           expires : Nat,
           decided : Nat \cup {Undecided}]

\* A list of records with distinct uuids, as a function of the uuid.
Files == [Ids -> Record \cup {NoRecord}]

EmptyFile == [i \in Ids |-> NoRecord]

Recorded(f) == {i \in Ids : f[i].status # "Absent"}

IsStale(r, now) == r.status = "Pending" /\ r.expires <= now

\* Fault: what is stale is dropped from the list.
DropStale(f, now) == [i \in Ids |-> IF IsStale(f[i], now) THEN NoRecord ELSE f[i]]

ExpireStale(f, now) ==
    [i \in Ids |-> IF IsStale(f[i], now)
                   THEN [f[i] EXCEPT !.status = "Expired", !.decided = now]
                   ELSE f[i]]

\* Fault: compares the scope key, as has_active_approval_for does.
ReusableByScope(f, a) ==
    {i \in Ids : f[i].status = "Pending" /\ f[i].action.scope = a.scope}

\* The pending records create_pending would reuse for action a.
Reusable(f, a) == {i \in Ids : f[i].status = "Pending" /\ f[i].action.key = a.key}

NewRecord(a, now, ttl) ==
    [status  |-> "Pending",
     action  |-> a,
     created |-> now,
     expires |-> now + ttl,
     decided |-> Undecided]

Decide(f, i, target, now) ==
    [f EXCEPT ![i] = [f[i] EXCEPT !.status = target, !.decided = now]]

\* Fault: an approval never ends.
IsActiveForever(r, a, now) == r.status = "Approved" /\ r.action.scope = a.scope

IsActive(r, a, now) ==
    /\ r.status = "Approved"
    /\ r.action.scope = a.scope
    /\ r.expires > now

\* The answer of has_active_approval_for.
HasActive(f, a, now) == \E i \in Ids : IsActive(f[i], a, now)
=============================================================================
