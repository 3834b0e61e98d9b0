----------------------------- MODULE ApprovalDesk ------------------------------
(***************************************************************************)
(* The callers of ApprovalStore, at the steps they really take: the        *)
(* runner and the transfer commands that ask, the Control Panel            *)
(* (src/ui.rs) and `agent-ruler approve' (src/agent_ruler.rs) that decide, *)
(* and whoever reads.  They are threads and processes over one             *)
(* approvals.json with no lock: an operation reads the file, computes, and *)
(* replaces it by a rename; resolution receipts and effects come after.    *)
(*                                                                         *)
(* Each caller makes one call.  `minted', `told', `receipts' and `effects' *)
(* are what happened outside the file: uuids generated, requests handed    *)
(* out, resolutions in the audit log, and how often the approved action    *)
(* was carried out.                                                        *)
(***************************************************************************)
EXTENDS ApprovalRecords, FiniteSets

CONSTANTS
    Callers,
    Modes,      \* circumstances to look at: how many callers call at all
                \* (calls), may two calls be in flight at once (overlap), may a
                \* call end between two of its steps (crash), may
                \* maybe_apply_approval_effect return an error (fail)?
    MaxTime     \* bound: the clock stops here

ASSUME DeskAssumption ==
    /\ Modes \subseteq [calls : Nat, overlap : BOOLEAN, crash : BOOLEAN, fail : BOOLEAN]
    /\ MaxTime \in Nat

VARIABLES
    mode,       \* the circumstances of this behaviour
    file, now,
    step,       \* step[c]: what caller c does next
    task,       \* task[c]: its call's arguments and local variables
    view,       \* view[c]: the list it computed and has yet to write
    after,      \* after[c]: the step that follows the store operation
    minted, told, receipts, effects

world == <<minted, told, receipts, effects>>
vars == <<mode, file, now, step, task, view, after, world>>

\* `id' is the request in hand; it is not looked at before it is set.
NoTask == [op |-> "none", target |-> "none", todo |-> {}, resolved |-> {},
           id |-> CHOOSE i \in Ids : TRUE]

\* Requests left pending by earlier calls, one of a key.
Queues ==
    {f \in [Ids -> {NoRecord} \cup {NewRecord(a, 0, ttl) : a \in Actions, ttl \in TTLs}] :
        \A i, j \in Recorded(f) : f[i].action.key = f[j].action.key => i = j}

Init ==
    /\ mode \in Modes
    /\ file \in Queues
    /\ now = 0
    /\ step = [c \in Callers |-> "idle"]
    /\ task = [c \in Callers |-> NoTask]
    /\ view = [c \in Callers |-> EmptyFile]
    /\ after = [c \in Callers |-> "done"]
    /\ minted = Recorded(file)
    /\ told = Recorded(file)
    /\ receipts = [i \in Ids |-> {}]
    /\ effects = [i \in Ids |-> 0]

Goto(c, s) == step' = [step EXCEPT ![c] = s]

\* The call returns, and its local variables are gone.
Return(c) == Goto(c, "done") /\ task' = [task EXCEPT ![c] = NoTask]

\* A call begins when no other is in flight, or whenever it likes.
Begins(c) ==
    /\ step[c] = "idle"
    /\ Cardinality({d \in Callers : step[d] # "idle"}) < mode.calls
    /\ mode.overlap \/ \A d \in Callers : step[d] \in {"idle", "done"}

-----------------------------------------------------------------------------
\* The file as the operation sees it: read, then expire_stale.
Loaded == ExpireStale(file, now)

\* The clock as the operation finds it when it reads it again, before it writes.
Later == now .. MaxTime

\* The time of a list's dates has come.
Dated(list) ==
    \A i \in Recorded(list) : list[i].created <= now /\ list[i].decided <= now

\* The rest of the operation: the list goes to disk if it changed.
Computed(c, list, next) ==
    \/ /\ list = file
       /\ Goto(c, next)
       /\ UNCHANGED <<view, after>>
    \/ /\ list # file
       /\ view' = [view EXCEPT ![c] = list]
       /\ after' = [after EXCEPT ![c] = next]
       /\ Goto(c, "write")

Write(c) ==
    /\ step[c] = "write"
    /\ Dated(view[c])
    /\ file' = view[c]
    /\ Goto(c, after[c])
    /\ view' = [view EXCEPT ![c] = EmptyFile]
    /\ after' = [after EXCEPT ![c] = "done"]
    /\ UNCHANGED <<now, task, world>>

\* create_pending, for an agent's action.
Ask(c, a, ttl) ==
    /\ Begins(c)
    /\ \/ \E i \in Reusable(Loaded, a) :
            /\ Computed(c, Loaded, "tell")
            /\ task' = [task EXCEPT ![c].id = i]
            /\ UNCHANGED minted
       \/ /\ Reusable(Loaded, a) = {}
          /\ \E i \in Ids \ minted, at \in Later :
               /\ Computed(c, [Loaded EXCEPT ![i] = NewRecord(a, at, ttl)], "tell")
               /\ task' = [task EXCEPT ![c].id = i]
               /\ minted' = minted \cup {i}
    /\ UNCHANGED <<file, now, told, receipts, effects>>

\* The requester is given the id of its request.
Tell(c) ==
    /\ step[c] = "tell"
    /\ told' = told \cup {task[c].id}
    /\ Return(c)
    /\ UNCHANGED <<file, now, view, after, minted, receipts, effects>>

\* get, list_pending, expire_now or has_active_approval_for.
Read(c) ==
    /\ Begins(c)
    /\ Computed(c, Loaded, "done")
    /\ UNCHANGED <<file, now, task, world>>

\* POST approve or deny of one id, or `agent-ruler approve --id'.
One(c, i, target) ==
    /\ Begins(c)
    /\ task' = [task EXCEPT ![c] = [@ EXCEPT !.op = "each", !.target = target, !.todo = {i}]]
    /\ Goto(c, "pick")
    /\ UNCHANGED <<file, now, view, after, world>>

\* list_pending, to know what to resolve: `agent-ruler approve --all'
\* ("each"), or the approve-all and deny-all buttons ("bulk").
All(c, op, target) ==
    /\ Begins(c)
    /\ Computed(c, Loaded, "pick")
    /\ task' = [task EXCEPT ![c] = [@ EXCEPT !.op = op, !.target = target,
                    !.todo = {i \in Ids : Loaded[i].status = "Pending"}]]
    /\ UNCHANGED <<file, now, world>>

-----------------------------------------------------------------------------
\* Fault: approve-all leaves the effect to somebody else.
OnChangedNoEffect(t) == IF t.op = "each" THEN "receipt" ELSE "collect"

\* Fault: bulk resolutions share the approving path.
OnChangedAsApproved(t) == IF t.op = "each" THEN "receipt" ELSE "effect"

\* What follows a resolution that changed the record: a receipt and then the
\* effect one by one, the effect alone in bulk.
OnChanged(t) ==
    IF t.op = "each" THEN "receipt"
    ELSE IF t.target = "Approved" THEN "effect" ELSE "collect"

\* What follows one that failed: `?' one by one, the next id in bulk.
OnFailed(t) == IF t.op = "each" THEN "done" ELSE "pick"

\* Fault: any record may be decided.
ResolveAny(c, i) ==
    /\ Loaded[i].status # "Absent"
    /\ Computed(c, Decide(Loaded, i, task[c].target, now), OnChanged(task[c]))

ResolvePending(c, i) ==
    /\ Loaded[i].status = "Pending"
    /\ \E at \in Later :
         Computed(c, Decide(Loaded, i, task[c].target, at), OnChanged(task[c]))

\* Fault: repeating a decision counts as a change.
ResolveRepeatedly(c, i) ==
    /\ task[c].op = "each"
    /\ Loaded[i].status = task[c].target
    /\ Computed(c, Loaded, OnChanged(task[c]))

\* set_status_idempotent only: `changed' is false.
ResolveAgain(c, i) ==
    /\ task[c].op = "each"
    /\ Loaded[i].status = task[c].target
    /\ Computed(c, Loaded, "pick")

\* An error before persist: nothing is written.
RefuseResolution(c, i) ==
    /\ Loaded[i].status \notin {"Absent", "Pending"}
    /\ task[c].op = "bulk" \/ Loaded[i].status # task[c].target
    /\ Computed(c, file, OnFailed(task[c]))

ResolveUnknown(c, i) ==
    /\ Loaded[i].status = "Absent"
    /\ Computed(c, Loaded, OnFailed(task[c]))

\* One resolution: set_status in bulk, set_status_idempotent one by one.  The
\* order of the list is left open.
Resolve(c, i) ==
    /\ step[c] = "pick"
    /\ i \in task[c].todo
    /\ ResolvePending(c, i) \/ ResolveAgain(c, i)
         \/ RefuseResolution(c, i) \/ ResolveUnknown(c, i)
    /\ task' = [task EXCEPT ![c] = [@ EXCEPT !.id = i, !.todo = task[c].todo \ {i}]]
    /\ UNCHANGED <<file, now, world>>

\* append_approval_resolution_receipt.
Receipt(c) ==
    /\ step[c] = "receipt"
    /\ receipts' = [receipts EXCEPT ![task[c].id] = @ \cup {task[c].target}]
    /\ Goto(c, IF task[c].target = "Approved" THEN "effect" ELSE "pick")
    /\ UNCHANGED <<file, now, task, view, after, minted, told, effects>>

\* maybe_apply_approval_effect carries the action out.
Effect(c) ==
    /\ step[c] = "effect"
    /\ effects' = [effects EXCEPT ![task[c].id] = @ + 1]
    /\ Goto(c, IF task[c].op = "bulk" THEN "collect" ELSE "pick")
    /\ UNCHANGED <<file, now, task, view, after, minted, told, receipts>>

\* Fault: the first effect that fails ends approve-all.
EffectFailsAll(c) ==
    /\ mode.fail
    /\ step[c] = "effect"
    /\ Return(c)
    /\ UNCHANGED <<file, now, view, after, world>>

\* It fails: one by one the call ends, in bulk the next id is tried.
EffectFails(c) ==
    /\ mode.fail
    /\ step[c] = "effect"
    /\ \/ task[c].op = "bulk" /\ Goto(c, "pick") /\ UNCHANGED task
       \/ task[c].op = "each" /\ Return(c)
    /\ UNCHANGED <<file, now, view, after, world>>

\* resolved.push, in bulk.
Collect(c) ==
    /\ step[c] = "collect"
    /\ task' = [task EXCEPT ![c].resolved = @ \cup {task[c].id}]
    /\ Goto(c, "pick")
    /\ UNCHANGED <<file, now, view, after, world>>

\* No id is left: append_bulk_approval_resolution_receipt, in bulk.
Finish(c) ==
    /\ step[c] = "pick"
    /\ task[c].todo = {}
    /\ receipts' = [i \in Ids |-> IF i \in task[c].resolved
                                  THEN receipts[i] \cup {task[c].target}
                                  ELSE receipts[i]]
    /\ Return(c)
    /\ UNCHANGED <<file, now, view, after, minted, told, effects>>

-----------------------------------------------------------------------------
\* The process dies, or the disk refuses a receipt.
Crash(c) ==
    /\ mode.crash
    /\ step[c] \notin {"idle", "done"}
    /\ Return(c)
    /\ view' = [view EXCEPT ![c] = EmptyFile]
    /\ after' = [after EXCEPT ![c] = "done"]
    /\ UNCHANGED <<file, now, world>>

Tick ==
    /\ now < MaxTime
    /\ now' = now + 1
    /\ UNCHANGED <<file, step, task, view, after, world>>

CallerStep(c) ==
    \/ \E a \in Actions, ttl \in TTLs : Ask(c, a, ttl)
    \/ Read(c)
    \/ \E i \in Ids, target \in Decisions : One(c, i, target)
    \/ \E op \in {"each", "bulk"}, target \in Decisions : All(c, op, target)
    \/ \E i \in Ids : Resolve(c, i)
    \/ Write(c)
    \/ Tell(c)
    \/ Receipt(c)
    \/ Collect(c)
    \/ Finish(c)
    \/ Effect(c)
    \/ EffectFails(c)
    \/ Crash(c)

Next ==
    /\ Tick \/ \E c \in Callers : CallerStep(c)
    /\ UNCHANGED mode

Spec == Init /\ [][Next]_vars

-----------------------------------------------------------------------------
Finished == \A c \in Callers : step[c] \in {"idle", "done"}

Steps == {"idle", "write", "tell", "pick", "receipt", "effect", "collect", "done"}

Tasks == [op : {"none", "each", "bulk"}, target : Decisions \cup {"none"},
          todo : SUBSET Ids, resolved : SUBSET Ids, id : Ids]

\* The state has its shape, and what a caller will write is a file.
TypeOK ==
    /\ file \in Files
    /\ now \in 0 .. MaxTime
    /\ step \in [Callers -> Steps]
    /\ after \in [Callers -> Steps \ {"write"}]
    /\ view \in [Callers -> Files]
    /\ task \in [Callers -> Tasks]
    /\ told \subseteq Ids /\ minted \subseteq Ids
    /\ receipts \in [Ids -> SUBSET Decisions]
    /\ effects \in [Ids -> Nat]

\* However reads and writes of overlapping callers interleave, and whatever
\* lists overwrite each other, no file ever holds two pending requests of a
\* key: retries cannot queue up even in a race (approvals.rs:88-127).
OnePendingPerKey ==
    \A i, j \in Ids :
        /\ file[i].status = "Pending"
        /\ file[j].status = "Pending"
        /\ file[i].action.key = file[j].action.key
        => i = j

\* The dates of a record come in order, whoever wrote it over whom: it is
\* decided after it was made, and lapses at or after its deadline
\* (approvals.rs:107-118, 188-200, 277-284).
DatesInOrder ==
    \A i \in Ids :
        /\ file[i].status \in Decisions => file[i].created <= file[i].decided
        /\ file[i].status = "Expired" => file[i].expires <= file[i].decided

\* A caller decides only a request whose deadline had not come when it read the
\* file.  The decision may be dated, and reach the file, after the deadline
\* (approvals.rs:184-204, 213-235, 277-284).
DecidedInTime ==
    [][\A c \in Callers, i \in Ids :
         /\ view[c][i].status \notin Decisions /\ view'[c][i].status \in Decisions
         /\ file[i].status \notin Decisions
         => now < file[i].expires]_vars

\* An approval on file is carried out: when all calls have returned, and
\* neither they nor their effects failed, no approved request waits for its
\* action, whichever of several operators approved it and whatever they
\* overwrote (ui.rs:674-690, 734-750).
ApprovedIsApplied ==
    Finished /\ ~mode.crash /\ ~mode.fail =>
        \A i \in Ids : file[i].status = "Approved" => effects[i] > 0

\* What was carried out is in the audit log as approved once all calls have
\* returned, also when the effect of another request failed (ui.rs:674-690
\* and 741-755).
EffectsAreAudited ==
    Finished /\ ~mode.crash =>
        \A i \in Ids : effects[i] > 0 => "Approved" \in receipts[i]

\* A step may never take back a decision or an expiry, while callers do not
\* overlap (approvals.rs:219-240).
DecisionIsFinal ==
    [][~mode.overlap => \A i \in Ids :
            file[i].status \notin {"Absent", "Pending"} => file'[i] = file[i]]_vars

\* No approval is carried out twice, and the audit log never holds both answers
\* to one request, however often operators repeat themselves by button, command
\* or approve-all, and die on the way (ApprovalStatusUpdate::changed,
\* approvals.rs:53-57 and ui.rs:675).
AnsweredOnce ==
    ~mode.overlap => \A i \in Ids : effects[i] <= 1 /\ Cardinality(receipts[i]) <= 1

\* "Denied: Operator has denied, action is blocked" (approvals.rs:12).
DeniedIsBlocked == \A i \in Ids : file[i].status = "Denied" => effects[i] = 0

\* The same of callers that take turns.
DeniedInTurn == ~mode.overlap => DeniedIsBlocked

\* "Approvals are persisted to disk as JSON for durability across restarts"
\* (approvals.rs:4-5): a request whose id was handed out stays on file, while
\* callers do not overlap.
RequestSurvives == ~mode.overlap => told \subseteq Recorded(file)
=============================================================================
