---------------------------- MODULE ApprovalStore ----------------------------
(***************************************************************************)
(* ApprovalStore (src/approvals.rs) with every operation taken as one      *)
(* step: what the store promises to callers that do not overlap.           *)
(* ApprovalDesk gives the same operations the steps they really take.      *)
(*                                                                         *)
(* `file' and `now' are the program's state: the approvals file and the    *)
(* wall clock, which goes on between the two readings an operation takes   *)
(* of it.  `reply' is what the last operation returned, `grants' is        *)
(* history: what operators permitted, and until when.                      *)
(***************************************************************************)
EXTENDS ApprovalRecords

CONSTANT MaxTime    \* bound: the clock stops here

ASSUME MaxTimeAssumption == MaxTime \in Nat

VARIABLES file, now, reply, grants

vars == <<file, now, reply, grants>>

\* Fault: expire_stale is not called.
Unexpired == file

\* What list_all and expire_stale give an operation to work on.
Loaded == ExpireStale(file, now)

\* The clock as an operation that reads it again may find it.
Later == now .. MaxTime

Replies(op, i, result) ==
    reply' = [op |-> op, id |-> i, result |-> result, at |-> now]

Init ==
    /\ file = EmptyFile
    /\ now = 0
    /\ reply = [op |-> "none", id |-> CHOOSE i \in Ids : TRUE, result |-> "none", at |-> 0]
    /\ grants = {}

-----------------------------------------------------------------------------
\* create_pending finds a pending record of the same key and returns it.
ReusePending(a) ==
    \E i \in Reusable(Loaded, a) :
        /\ file' = Loaded
        /\ Replies("create_pending", i, "reused")
        /\ UNCHANGED <<now, grants>>

\* create_pending appends a record with a fresh uuid, dated by a second reading.
AddPending(a, ttl) ==
    /\ Reusable(Loaded, a) = {}
    /\ now' \in Later
    /\ \E i \in Ids \ Recorded(file) :
        /\ file' = [Loaded EXCEPT ![i] = NewRecord(a, now', ttl)]
        /\ Replies("create_pending", i, "created")
    /\ UNCHANGED grants

CreatePending(a, ttl) == ReusePending(a) \/ AddPending(a, ttl)

\* Fault: the record is not checked to be pending.
OverwriteStatus(i, target) ==
    /\ Loaded[i].status # "Absent"
    /\ file' = Decide(Loaded, i, target, now)
    /\ UNCHANGED <<now, grants>>
    /\ Replies(target, i, "changed")

\* set_status and set_status_idempotent on a pending record: what expire_stale
\* left pending is decided, and dated by a second reading of the clock.
ResolvePending(i, target) ==
    /\ Loaded[i].status = "Pending"
    /\ now' \in Later
    /\ file' = Decide(Loaded, i, target, now')
    /\ grants' = IF target = "Approved"
                 THEN grants \cup {[scope |-> file[i].action.scope, until |-> file[i].expires]}
                 ELSE grants
    /\ Replies(target, i, "changed")

\* set_status_idempotent on a record that already has the target status.
ResolveAgain(i, target) ==
    /\ Loaded[i].status = target
    /\ file' = Loaded
    /\ Replies(target, i, "unchanged")
    /\ UNCHANGED <<now, grants>>

\* Both refuse any other record and return before persist: what expire_stale
\* computed is not written.
RefuseResolution(i, target) ==
    /\ Loaded[i].status \notin {"Absent", "Pending"}
    /\ UNCHANGED file
    /\ Replies(target, i, "refused")
    /\ UNCHANGED <<now, grants>>

\* No record has the id: what expire_stale computed is written all the same.
ResolveUnknown(i, target) ==
    /\ Loaded[i].status = "Absent"
    /\ file' = Loaded
    /\ Replies(target, i, "not_found")
    /\ UNCHANGED <<now, grants>>

SetStatus(i, target) ==
    \/ ResolvePending(i, target)
    \/ RefuseResolution(i, target)
    \/ ResolveUnknown(i, target)

SetStatusIdempotent(i, target) ==
    \/ ResolvePending(i, target)
    \/ ResolveAgain(i, target)
    \/ Loaded[i].status # target /\ RefuseResolution(i, target)
    \/ ResolveUnknown(i, target)

-----------------------------------------------------------------------------
\* The reading operations write what expire_stale changed.
Refreshes ==
    /\ file' = Loaded
    /\ UNCHANGED <<now, grants>>

Get(i) == Refreshes /\ Replies("get", i, Loaded[i].status)

\* list_pending and expire_now: the reply is one record of the list.
ListPending ==
    \E i \in Ids :
        /\ Loaded[i].status = "Pending"
        /\ Refreshes
        /\ Replies("list_pending", i, "Pending")

ExpireNow == Refreshes /\ UNCHANGED reply

\* The clock is read for each record: the last reading has the answer, since
\* what was over at an earlier one is over.
HasActiveApproval(a) ==
    /\ now' \in Later
    /\ file' = Loaded
    /\ reply' = [op |-> "has_active", scope |-> a.scope,
                 result |-> HasActive(Loaded, a, now'), at |-> now']
    /\ UNCHANGED grants

Tick ==
    /\ now < MaxTime
    /\ now' = now + 1
    /\ UNCHANGED <<file, reply, grants>>

Next ==
    \/ \E a \in Actions, ttl \in TTLs : CreatePending(a, ttl)
    \/ \E i \in Ids, target \in Decisions : SetStatus(i, target)
    \/ \E i \in Ids, target \in Decisions : SetStatusIdempotent(i, target)
    \/ \E i \in Ids : Get(i)
    \/ ListPending
    \/ ExpireNow
    \/ \E a \in Actions : HasActiveApproval(a)
    \/ Tick

Spec == Init /\ [][Next]_vars

-----------------------------------------------------------------------------
Scopes == {a.scope : a \in Actions}

\* The state is the shape the code gives it; replies are not from the future.
TypeOK ==
    /\ file \in Files
    /\ now \in 0 .. MaxTime
    /\ grants \subseteq [scope : Scopes, until : Nat]
    /\ reply.at \in 0 .. now

\* Retries never queue up: however callers ask, and whatever expires or is
\* decided in between, at most one request of a key waits for an operator
\* (create_pending's search, approvals.rs:96-104).
OnePendingPerKey ==
    \A i, j \in Ids :
        /\ file[i].status = "Pending"
        /\ file[j].status = "Pending"
        /\ file[i].action.key = file[j].action.key
        => i = j

\* The dates of a record come in order: it is decided after it was made, and
\* lapses at or after its deadline (approvals.rs:107-118, 188-200, 277-284).
DatesInOrder ==
    \A i \in Ids :
        /\ file[i].status = "Pending" => file[i].decided = Undecided
        /\ file[i].status \in Decisions => file[i].created <= file[i].decided
        /\ file[i].status = "Expired" => file[i].expires <= file[i].decided

\* An operator's decision counts only if it began before the deadline, by the
\* clock expire_stale read; decided_at is read later and may lie at or past
\* the deadline (approvals.rs:184-204, 213-235, 277-284).
DecidedInTime ==
    [][\A i \in Ids :
         file[i].status = "Pending" /\ file'[i].status \in Decisions
            => now < file[i].expires]_vars

\* Nothing is reported as waiting once its time is over, although expiry is
\* only computed when somebody reads the file (approvals.rs:77-86, 145-151)
\* and a request that is reused still has time left (approvals.rs:93-108).
NoStaleAnswer ==
    reply.op \in {"get", "list_pending", "create_pending"}
        /\ reply.result \in {"Pending", "reused"}
    => reply.at < file[reply.id].expires

\* has_active_approval_for says yes exactly while an approval some operator
\* gave for that scope is running: no grant is lost, invented or prolonged by
\* the operations in between (approvals.rs:153-165).
GrantsAreExact ==
    reply.op = "has_active" =>
        (reply.result <=> \E g \in grants : g.scope = reply.scope /\ reply.at < g.until)

Lifecycle == INSTANCE ApprovalLifecycle WITH
    status   <- [i \in Ids |-> file[i].status],
    deadline <- [i \in Ids |-> IF file[i].status = "Absent" THEN 0 ELSE file[i].expires],
    clock    <- now

\* Every operation does to each record what the lifecycle allows.
ImplementsLifecycle == Lifecycle!Spec
=============================================================================
