----------------------------- MODULE TransferFlow ------------------------------
(***************************************************************************)
(* Staging an export into the shared zone and delivering it from there     *)
(* (src/cli/transfer.rs, src/helpers/ui/transfer_api.rs), with the staged  *)
(* records of src/staged_exports.rs, the approvals the requests wait for,  *)
(* and the effect of approving them (src/helpers/approvals/effects.rs).    *)
(*                                                                         *)
(* One artifact: a workspace file `work', its path in the shared zone      *)
(* `zone' and its destination `dest', each with the content it holds.  A   *)
(* worker is one CLI process or one request handler; the steps it still    *)
(* has to take are the sequence task[w].todo.  The approval queue is the   *)
(* lifecycle ApprovalStore implements: time passing is Lapse.              *)
(***************************************************************************)
EXTENDS Naturals, Sequences

CONSTANTS
    Stages,     \* uuids of staged export records
    Ids,        \* uuids of approvals
    Contents,   \* what the artifact may contain
    Workers,
    Modes,      \* circumstances to look at: may two workers be at work at once
                \* (overlap), may one die or a step of it fail (fail)?
    MaxCalls    \* bound: how many calls are made in all

ASSUME FlowAssumption ==
    /\ Modes \subseteq [overlap : BOOLEAN, fail : BOOLEAN]
    /\ MaxCalls \in Nat

Nothing == "nothing"
Directory == "an empty directory"
Truncated == "part of a file"

ASSUME ContentsAssumption == Nothing \notin Contents

VARIABLES
    mode,               \* the circumstances of this behaviour
    work, zone, dest,   \* contents; Nothing when there is no file
    records,            \* records[s]: the staged export record
    approvals,          \* approvals[i]: the approval record
    task,               \* task[w]: what worker w is doing
    calls,              \* how many calls were made
    minted,             \* history: stage ids generated
    crossings,          \* history: copies made across a zone boundary
    receipts            \* the audit log, of crossings

disk == <<work, zone, dest>>
vars == <<mode, disk, records, approvals, task, calls, minted, crossings, receipts>>

NoStage == [state |-> "none"]
NoApproval == [status |-> "Absent"]

\* The metadata of an action request, as make_scope_key sees it.
Request(kind, s, move) == [kind |-> kind, stage |-> s, move |-> move]
Requests == [kind : {"stage", "deliver"}, stage : Stages, move : BOOLEAN]

Idle == [todo |-> <<>>]

Init ==
    /\ mode \in Modes
    /\ work \in Contents
    /\ zone = Nothing
    /\ dest = Nothing
    /\ records = [s \in Stages |-> NoStage]
    /\ approvals = [i \in Ids |-> NoApproval]
    /\ task = [w \in Workers |-> Idle]
    /\ calls = 0
    /\ minted = {}
    /\ crossings = {}
    /\ receipts = {}

Begins(w) ==
    /\ task[w] = Idle
    /\ calls < MaxCalls
    /\ calls' = calls + 1
    /\ mode.overlap \/ \A v \in Workers : task[v] = Idle

-----------------------------------------------------------------------------
(* The approval queue, an operation at a time.                             *)

\* The pending approval create_pending reuses: its key leaves out the
\* metadata, so the stage id and the move flag.
Reusable(r) == {i \in Ids : approvals[i].status = "Pending" /\ approvals[i].request.kind = r.kind}

\* Fault: an approval of the same kind will do.
IsActiveForKind(i, r) ==
    approvals[i].status = "Approved" /\ approvals[i].running /\ approvals[i].request.kind = r.kind

\* has_active_approval_for: the scope key is of all of the request.
IsActive(i, r) ==
    approvals[i].status = "Approved" /\ approvals[i].running /\ approvals[i].request = r

HasActive(r) == \E i \in Ids : IsActive(i, r)

\* create_pending, and its answer i.
CreatePending(r, i) ==
    \/ i \in Reusable(r) /\ UNCHANGED approvals
    \/ /\ Reusable(r) = {}
       /\ approvals[i].status = "Absent"
       /\ approvals' = [approvals EXCEPT ![i] =
                          [status |-> "Pending", request |-> r, running |-> TRUE]]

\* The time to live is over: of the wait, or of the approval given.
Lapse(i) ==
    /\ \/ /\ approvals[i].status = "Pending"
          /\ approvals' = [approvals EXCEPT ![i].status = "Expired", ![i].running = FALSE]
       \/ /\ approvals[i].status = "Approved" /\ approvals[i].running
          /\ approvals' = [approvals EXCEPT ![i].running = FALSE]
    /\ UNCHANGED <<disk, records, task, calls, minted, crossings, receipts>>

-----------------------------------------------------------------------------
(* What a worker is going to do.  `why' is the authority a copy is made    *)
(* on; `mark' is the state the staged record gets.                         *)

Task(steps, r, why, mark, i) ==
    [todo |-> steps, request |-> r, why |-> why, mark |-> mark, approval |-> i]

\* Fault: the record first.
RecordThenCopy(r, record) ==
    IF r.move THEN <<record, "copy", "remove", "receipt">> ELSE <<record, "copy", "receipt">>

\* Fault: moving removes before it copies.
RemoveThenCopy(r, record) ==
    IF r.move THEN <<"remove", "copy", record, "receipt">> ELSE <<"copy", record, "receipt">>

\* Fault: nothing is appended to the log.
CopyUnlogged(r, record) ==
    IF r.move THEN <<"copy", "remove", record>> ELSE <<"copy", record>>

\* commit_export or apply_plan_with_mode, the staged record, the receipt.
CopySteps(r, record) ==
    IF r.move THEN <<"copy", "remove", record, "receipt">> ELSE <<"copy", record, "receipt">>

\* A stage request writes a new record; everything else updates one.
RecordStep(r) == IF r.kind = "stage" THEN "upsert" ELSE "mark"

Done(r) == IF r.kind = "stage" THEN "Staged" ELSE "Delivered"
Awaiting(r) == IF r.kind = "stage" THEN "PendingStageApproval" ELSE "PendingDeliveryApproval"

\* build_export_plan refuses a source that is not there.
HasSource(r) == r.kind = "deliver" => zone # Nothing

\* The policy allows it, or the operator overrules it: --force, --bypass, or
\* the Control Panel's own confirmation.
GoAhead(w, r, why) ==
    /\ task' = [task EXCEPT ![w] = Task(CopySteps(r, RecordStep(r)), r, why, Done(r), "none")]
    /\ UNCHANGED approvals

\* RequireApproval with an approval running, which only the CLI looks for.
UseApproval(w, r) ==
    /\ HasActive(r)
    /\ task' = [task EXCEPT ![w] = Task(CopySteps(r, RecordStep(r)), r, "approval", Done(r), "none")]
    /\ UNCHANGED approvals

\* RequireApproval: queue it.
Queue(w, r) ==
    \E i \in Ids :
        /\ CreatePending(r, i)
        /\ task' = [task EXCEPT ![w] = Task(<<RecordStep(r)>>, r, "none", Awaiting(r), i)]

\* Deny or Quarantine.
Block(w, r) ==
    /\ task' = [task EXCEPT ![w] = Task(<<RecordStep(r)>>, r, "none", "Failed", "none")]
    /\ UNCHANGED approvals

\* The policy is reloaded for every request, so any verdict may come.
Handle(w, r) ==
    /\ Begins(w)
    /\ HasSource(r)
    /\ GoAhead(w, r, "allowed") \/ GoAhead(w, r, "operator")
         \/ UseApproval(w, r) \/ Queue(w, r) \/ Block(w, r)
    /\ UNCHANGED <<disk, records, crossings, receipts>>

\* run_export and api_export_request: the stage id is new.
Export(w, s) ==
    /\ s \notin minted
    /\ minted' = minted \cup {s}
    /\ Handle(w, Request("stage", s, FALSE))

\* run_delivery and api_deliver_request: of the record named, or of the last
\* one updated when the path is named.
Deliver(w, s, move) ==
    /\ records[s] # NoStage
    /\ Handle(w, Request("deliver", s, move))
    /\ UNCHANGED minted

\* An operator approves, and the effect is the action asked for first.
Approve(w, i) ==
    /\ Begins(w)
    /\ approvals[i].status = "Pending"
    /\ approvals' = [approvals EXCEPT ![i].status = "Approved"]
    /\ LET r == approvals[i].request IN
       task' = [task EXCEPT ![w] =
                  IF HasSource(r) THEN Task(CopySteps(r, "mark"), r, "approval", Done(r), i) ELSE Idle]
    /\ UNCHANGED <<disk, records, minted, crossings, receipts>>

Deny(w, i) ==
    /\ Begins(w)
    /\ approvals[i].status = "Pending"
    /\ approvals' = [approvals EXCEPT ![i].status = "Denied"]
    /\ UNCHANGED <<disk, records, task, minted, crossings, receipts>>

-----------------------------------------------------------------------------
(* The steps.                                                              *)

Doing(w, step) == task[w].todo # <<>> /\ Head(task[w].todo) = step

Proceed(w) ==
    task' = [task EXCEPT ![w] =
                IF Len(task[w].todo) = 1 THEN Idle ELSE [@ EXCEPT !.todo = Tail(task[w].todo)]]

\* commit_export: the content is whatever the source holds by now.
Copy(w) ==
    /\ Doing(w, "copy")
    /\ LET r == task[w].request IN
       /\ HasSource(r)
       /\ IF r.kind = "stage" THEN zone' = work /\ UNCHANGED <<work, dest>>
                              ELSE /\ dest # Directory
                                   /\ dest' = zone
                                   /\ UNCHANGED <<work, zone>>
       /\ crossings' = crossings \cup {[request |-> r, why |-> task[w].why]}
    /\ Proceed(w)
    /\ UNCHANGED <<records, approvals, calls, minted, receipts>>

\* The source is gone since the plan was made: what is no file is copied as a
\* directory, whose destination is created first.  And no file can be copied
\* over a directory.
CopyFails(w) ==
    /\ Doing(w, "copy")
    /\ task[w].request.kind = "deliver"
    /\ zone = Nothing \/ dest = Directory
    /\ dest' = IF dest = Nothing THEN Directory ELSE dest
    /\ task' = [task EXCEPT ![w] = Idle]
    /\ UNCHANGED <<work, zone, records, approvals, calls, minted, crossings, receipts>>

\* The second half of a move.
Remove(w) ==
    /\ Doing(w, "remove")
    /\ zone' = Nothing
    /\ Proceed(w)
    /\ UNCHANGED <<work, dest, records, approvals, calls, minted, crossings, receipts>>

\* upsert, for a stage request.
Upsert(w) ==
    /\ Doing(w, "upsert")
    /\ records' = [records EXCEPT ![task[w].request.stage] =
                     [state |-> task[w].mark, stageApproval |-> task[w].approval,
                      deliveryApproval |-> "none"]]
    /\ Proceed(w)
    /\ UNCHANGED <<disk, approvals, calls, minted, crossings, receipts>>

\* mark_staged, mark_delivery_pending, mark_delivered and mark_failed, which
\* do nothing when the record is not there.
Marked(record, state, i) ==
    IF record = NoStage THEN NoStage
    ELSE CASE state = "Staged" -> [record EXCEPT !.state = state, !.stageApproval = "none"]
           [] state = "PendingDeliveryApproval" -> [record EXCEPT !.state = state, !.deliveryApproval = i]
           [] state = "Delivered" -> [record EXCEPT !.state = state, !.deliveryApproval = "none"]
           [] state = "Failed" -> [record EXCEPT !.state = state]

Mark(w) ==
    /\ Doing(w, "mark")
    /\ records' = [records EXCEPT ![task[w].request.stage] =
                     Marked(@, task[w].mark, task[w].approval)]
    /\ Proceed(w)
    /\ UNCHANGED <<disk, approvals, calls, minted, crossings, receipts>>

Receipt(w) ==
    /\ Doing(w, "receipt")
    /\ receipts' = receipts \cup {[request |-> task[w].request, why |-> task[w].why]}
    /\ Proceed(w)
    /\ UNCHANGED <<disk, records, approvals, calls, minted, crossings>>

\* The process dies, or the step returns an error: a copy may be cut off.
Fail(w) ==
    /\ mode.fail
    /\ task[w] # Idle
    /\ task' = [task EXCEPT ![w] = Idle]
    /\ \/ UNCHANGED disk
       \/ /\ Doing(w, "copy") /\ task[w].request.kind = "stage"
          /\ zone' = Truncated
          /\ UNCHANGED <<work, dest>>
       \/ /\ Doing(w, "copy") /\ task[w].request.kind = "deliver"
          /\ zone # Nothing /\ dest # Directory
          /\ dest' = Truncated
          /\ UNCHANGED <<work, zone>>
    /\ UNCHANGED <<records, approvals, calls, minted, crossings, receipts>>

\* The agent goes on with its file.
AgentWrites ==
    /\ work' \in Contents \ {work}
    /\ UNCHANGED <<zone, dest, records, approvals, task, calls, minted, crossings, receipts>>

WorkerStep(w) ==
    \/ \E s \in Stages : Export(w, s)
    \/ \E s \in Stages, move \in BOOLEAN : Deliver(w, s, move)
    \/ \E i \in Ids : Approve(w, i) \/ Deny(w, i)
    \/ Copy(w)
    \/ CopyFails(w)
    \/ Remove(w)
    \/ Upsert(w)
    \/ Mark(w)
    \/ Receipt(w)
    \/ Fail(w)

Next ==
    /\ \/ \E w \in Workers : WorkerStep(w)
       \/ \E i \in Ids : Lapse(i)
       \/ AgentWrites
    /\ UNCHANGED mode

Spec == Init /\ [][Next]_vars

-----------------------------------------------------------------------------
\* A record never claims a copy that was not made: not when the process dies
\* between the copy and the record, nor when two requests share an approval
\* (transfer.rs:102-132, 275-321 and effects.rs:29-104).
RecordsFollowCopies ==
    \A s \in Stages :
        /\ records[s].state = "Staged" =>
              \E c \in crossings : c.request.kind = "stage" /\ c.request.stage = s
        /\ records[s].state = "Delivered" =>
              \E c \in crossings : c.request.kind = "deliver" /\ c.request.stage = s

\* A copy made on the strength of an approval is the copy some operator
\* approved: this record's, and a move only if a move was asked for, although
\* requests that differ in just that share one approval
\* (transfer.rs:128-129 and 287-288, effects.rs:66-104).
ApprovalsCoverCrossings ==
    \A c \in crossings :
        c.why = "approval" =>
            \E i \in Ids : approvals[i].status = "Approved" /\ approvals[i].request = c.request

\* When all is done and nothing failed, the audit log has every copy across a
\* boundary (append_receipt after every commit in transfer.rs, transfer_api.rs and
\* effects.rs).
CrossingsAreReceipted ==
    ~mode.fail /\ (\A w \in Workers : task[w] = Idle) => crossings \subseteq receipts

\* Moving loses nothing, wherever it is cut off: the step that takes the
\* artifact out of the shared zone leaves its content at the destination
\* (apply_plan_with_mode), as long as no other worker is at it.
MoveKeepsContent ==
    [][~mode.overlap /\ zone # Nothing /\ zone' = Nothing => dest' = zone]_vars
=============================================================================
