---------------------------- MODULE TransferProofs -----------------------------
(***************************************************************************)
(* What a transfer leaves behind.  First a copy of one tree onto another   *)
(* that stops and is repeated, and whether it does what the preview said,  *)
(* for every tree of any finite number of files; then requests, approvals, records   *)
(* and receipts of any number of transfers and workers.                    *)
(***************************************************************************)
EXTENDS TransferFlow, ExportGate, TLAPS

(***************************************************************************)
(* Copying.  Path by path, what a commit has visited is what the source    *)
(* has, and what the source has not is as the first commit found it.       *)
(***************************************************************************)
TreesOK ==
    /\ src \in Trees
    /\ dst \in [Paths -> Files \cup {NoFile, Cut}]
    /\ todo \subseteq Has(src)

\* The state of one path: what the source has not is as it was; what it has is
\* as it was, copied or cut off; and it is copied once a running commit has
\* visited it.
PathOK(p) ==
    /\ src[p] = NoFile => dst[p] = before[p]
    /\ src[p] # NoFile => dst[p] \in {before[p], src[p], Cut}
    /\ todo # {} /\ src[p] # NoFile /\ p \notin todo => dst[p] = src[p]

\* While the source is as it was shown, the summary is of that source and of a
\* destination that has only been written where the source has a file.
ShownOK ==
    shown.fresh =>
        /\ shown.src = src
        /\ shown.dst \in [Paths -> Files \cup {NoFile, Cut}]
        /\ shown.summary = Summary(shown.src, shown.dst)
        /\ \A p \in Paths : src[p] = NoFile => dst[p] = shown.dst[p]

GateInv ==
    /\ TreesOK
    /\ \A p \in Paths : PathOK(p)
    /\ ShownOK

-----------------------------------------------------------------------------
LEMMA GateInit == ExportInit => GateInv
<1> SUFFICES ASSUME ExportInit PROVE GateInv
  OBVIOUS
<1>1. TreesOK
  BY DEF ExportInit, TreesOK, Trees, Has
<1>2. \A p \in Paths : PathOK(p)
  BY DEF ExportInit, PathOK
<1>3. ShownOK
  BY DEF ExportInit, ShownOK, NotShown
<1> QED BY <1>1, <1>2, <1>3 DEF GateInv

\* A new plan is made of the trees there are.
LEMMA PlanKeeps == GateInv /\ BuildPlan => GateInv'
<1> SUFFICES ASSUME GateInv, BuildPlan PROVE GateInv'
  OBVIOUS
<1>1. TreesOK'
  BY DEF GateInv, BuildPlan, TreesOK
<1>2. ASSUME NEW p \in Paths PROVE PathOK(p)'
  BY <1>2 DEF GateInv, BuildPlan, PathOK
<1>3. ShownOK'
  <2>1. /\ shown'.src = src
        /\ shown'.dst = dst
        /\ shown'.summary = Summary(src, dst)
        /\ UNCHANGED <<src, dst>>
    BY DEF BuildPlan
  <2>2. dst \in [Paths -> Files \cup {NoFile, Cut}]
    BY DEF GateInv, TreesOK
  <2> QED BY <2>1, <2>2 DEF ShownOK
<1> QED BY <1>1, <1>2, <1>3 DEF GateInv

\* After the agent has written, the destination as it is is the one before.
LEMMA AgentKeeps == GateInv /\ AgentEdits => GateInv'
<1> SUFFICES ASSUME GateInv, AgentEdits PROVE GateInv'
  OBVIOUS
<1>1. TreesOK'
  <2>1. PICK p \in Paths, f \in Files \cup {NoFile} : src' = [src EXCEPT ![p] = f]
    BY DEF AgentEdits
  <2>2. src' \in Trees
    BY <2>1 DEF GateInv, TreesOK, Trees
  <2>3. todo' = {}
    BY DEF AgentEdits
  <2> QED BY <2>2, <2>3 DEF GateInv, AgentEdits, TreesOK
<1>2. ASSUME NEW p \in Paths PROVE PathOK(p)'
  BY <1>2 DEF AgentEdits, PathOK
<1>3. ShownOK'
  <2>1. ~shown'.fresh
    BY DEF AgentEdits
  <2> QED BY <2>1 DEF ShownOK
<1> QED BY <1>1, <1>2, <1>3 DEF GateInv

LEMMA CommitKeeps == GateInv /\ Commit => GateInv'
<1> SUFFICES ASSUME GateInv, Commit PROVE GateInv'
  OBVIOUS
<1>1. TreesOK'
  BY DEF GateInv, Commit, TreesOK
<1>2. ASSUME NEW p \in Paths PROVE PathOK(p)'
  BY <1>2 DEF GateInv, Commit, PathOK, Has
<1>3. ShownOK'
  BY DEF GateInv, Commit, ShownOK
<1> QED BY <1>1, <1>2, <1>3 DEF GateInv

LEMMA CopyKeeps == ASSUME NEW p \in Paths PROVE GateInv /\ CopyFile(p) => GateInv'
<1> SUFFICES ASSUME GateInv, CopyFile(p) PROVE GateInv'
  OBVIOUS
<1>1. /\ src \in Trees
      /\ src' = src /\ before' = before /\ shown' = shown
      /\ p \in todo /\ src[p] # NoFile /\ todo' = todo \ {p}
      /\ dst' = [dst EXCEPT ![p] = src[p]]
  BY DEF GateInv, TreesOK, CopyFile, Has
<1>2. TreesOK'
  BY <1>1 DEF GateInv, TreesOK, Trees, Has
<1>3. ASSUME NEW q \in Paths PROVE PathOK(q)'
  <2>1. CASE q = p
    BY <1>1, <2>1 DEF GateInv, TreesOK, PathOK
  <2>2. CASE q # p
    BY <1>1, <2>2 DEF GateInv, TreesOK, PathOK
  <2> QED BY <2>1, <2>2
<1>4. ShownOK'
  BY <1>1 DEF GateInv, ShownOK, TreesOK
<1> QED BY <1>2, <1>3, <1>4 DEF GateInv

\* Only a path that was still to visit, and so is in the source, is cut off.
LEMMA StopKeeps == GateInv /\ Stop => GateInv'
<1> SUFFICES ASSUME GateInv, Stop PROVE GateInv'
  OBVIOUS
<1>1. src' = src /\ before' = before /\ shown' = shown /\ todo' = {}
  BY DEF Stop
<1>2. CASE dst' = dst
  BY <1>1, <1>2 DEF GateInv, TreesOK, PathOK, ShownOK
<1>3. CASE \E p \in todo : dst' = [dst EXCEPT ![p] = Cut]
  <2>1. PICK p \in todo : dst' = [dst EXCEPT ![p] = Cut]
    BY <1>3
  <2>2. p \in Paths /\ src[p] # NoFile
    BY DEF GateInv, TreesOK, Has
  <2>3. TreesOK'
    BY <1>1, <2>1, <2>2 DEF GateInv, TreesOK
  <2>4. ASSUME NEW q \in Paths PROVE PathOK(q)'
    BY <1>1, <2>1, <2>2 DEF GateInv, TreesOK, PathOK
  <2>5. ShownOK'
    BY <1>1, <2>1, <2>2 DEF GateInv, ShownOK, TreesOK
  <2> QED BY <2>3, <2>4, <2>5 DEF GateInv
<1> QED BY <1>2, <1>3 DEF Stop

LEMMA GateNext == GateInv /\ [ExportNext]_exportVars => GateInv'
<1> SUFFICES ASSUME GateInv, [ExportNext]_exportVars PROVE GateInv'
  OBVIOUS
<1>1. CASE BuildPlan
  BY <1>1, PlanKeeps
<1>2. CASE AgentEdits
  BY <1>2, AgentKeeps
<1>3. CASE Commit
  BY <1>3, CommitKeeps
<1>4. ASSUME NEW p \in Paths, CopyFile(p) PROVE GateInv'
  BY <1>4, CopyKeeps
<1>5. CASE Stop
  BY <1>5, StopKeeps
<1>6. CASE UNCHANGED exportVars
  BY <1>6 DEF exportVars, GateInv, TreesOK, PathOK, ShownOK
<1> QED BY <1>1, <1>2, <1>3, <1>4, <1>5, <1>6 DEF ExportNext

LEMMA GateAlways == ExportSpec => []GateInv
<1> QED BY GateInit, GateNext, PTL DEF ExportSpec

-----------------------------------------------------------------------------
\* However often commits stop, a path holds what it held, what the source has,
\* or a cut-off copy of that (commit_export, export_gate.rs:126-173).
THEOREM Halfway == ExportSpec => []HalfwayIsEither
<1>1. GateInv => HalfwayIsEither
  BY DEF GateInv, PathOK, HalfwayIsEither
<1> QED BY <1>1, GateAlways, PTL

\* A commit that runs to its end lays the source over the destination as the
\* first commit found it, whatever was stopped and repeated in between
\* (copy_dir_recursive, export_gate.rs:145-173).
THEOREM Overlays == ExportSpec => CommitOverlays
<1>1. ASSUME GateInv, [ExportNext]_exportVars
      PROVE  [\A p \in Paths : todo = {p} /\ CopyFile(p) => dst' = Overlay(src, before)]_exportVars
  <2> SUFFICES ASSUME NEW p \in Paths, todo = {p}, CopyFile(p)
               PROVE  dst' = Overlay(src, before)
    OBVIOUS
  <2>1. dst' = [dst EXCEPT ![p] = src[p]] /\ src[p] # NoFile
    BY <1>1 DEF CopyFile, GateInv, TreesOK, Has
  <2>2. ASSUME NEW q \in Paths PROVE dst'[q] = Overlay(src, before)[q]
    BY <1>1, <2>1 DEF GateInv, TreesOK, PathOK, Overlay
  <2>3. dst' \in [Paths -> Files \cup {NoFile, Cut}]
    BY <1>1, <2>1 DEF GateInv, TreesOK, Trees
  <2> QED BY <2>2, <2>3 DEF Overlay
<1> QED BY <1>1, GateAlways, PTL DEF ExportSpec, CommitOverlays

\* The commit that runs to its end does to the destination what the operator
\* was shown, whatever was stopped and repeated in between and for trees of any
\* size (build_export_plan and copy_dir_recursive, export_gate.rs:60-173).
THEOREM PreviewIsDone == ExportSpec => ShownIsDone
<1>1. ASSUME GateInv, [ExportNext]_exportVars
      PROVE  [\A p \in Paths : shown.fresh /\ todo = {p} /\ CopyFile(p) =>
                /\ Cardinality(Has(dst') \ Has(shown.dst)) = shown.summary.added
                /\ Cardinality({q \in Has(shown.dst) : dst'[q].len # shown.dst[q].len})
                      = shown.summary.changed
                /\ Has(shown.dst) \subseteq Has(dst')]_exportVars
  <2> SUFFICES ASSUME NEW p \in Paths, shown.fresh, todo = {p}, CopyFile(p)
               PROVE  /\ Cardinality(Has(dst') \ Has(shown.dst)) = shown.summary.added
                      /\ Cardinality({q \in Has(shown.dst) : dst'[q].len # shown.dst[q].len})
                            = shown.summary.changed
                      /\ Has(shown.dst) \subseteq Has(dst')
    OBVIOUS
  <2> DEFINE d == shown.dst
             e == dst'
  <2>1. /\ shown.summary = Summary(src, d)
        /\ \A q \in Paths : src[q] = NoFile => dst[q] = d[q]
        /\ dst \in [Paths -> Files \cup {NoFile, Cut}]
        /\ \A q \in Paths : src[q] # NoFile /\ q # p => dst[q] = src[q]
    BY <1>1 DEF GateInv, ShownOK, TreesOK, PathOK
  <2>2. e = [dst EXCEPT ![p] = src[p]] /\ src[p] # NoFile
    BY <1>1 DEF CopyFile, GateInv, TreesOK, Has
  <2>3. \A q \in Paths : e[q] = IF src[q] # NoFile THEN src[q] ELSE d[q]
    BY <2>1, <2>2
  <2>4. /\ Summary(src, d).added = Cardinality(Has(src) \ Has(d))
        /\ Summary(src, d).changed
              = Cardinality({q \in Has(src) \cap Has(d) : src[q].len # d[q].len})
    BY DEF Summary
  <2> HIDE DEF d, e
  <2>5. Has(e) \ Has(d) = Has(src) \ Has(d) /\ Has(d) \subseteq Has(e)
    BY <2>3 DEF Has
  <2>6. {q \in Has(d) : e[q].len # d[q].len}
            = {q \in Has(src) \cap Has(d) : src[q].len # d[q].len}
    BY <2>3 DEF Has
  <2>7. Has(dst') = Has(e) /\ dst' = e /\ shown.dst = d
    BY DEF d, e
  <2> QED BY <2>1, <2>4, <2>5, <2>6, <2>7
<1> QED BY <1>1, GateAlways, PTL DEF ExportSpec, ShownIsDone

-----------------------------------------------------------------------------
(***************************************************************************)
(* Staging and delivering.  What a worker still has to do is the end of a  *)
(* plan, and who has passed its copy owes the record, the receipt and,     *)
(* alone at work, a destination that holds what the shared zone holds.     *)
(***************************************************************************)
Asked == {r \in Requests : r.kind = "stage" => ~r.move}

\* What may be left to do of a plan.
Todos == {<<"upsert">>, <<"mark">>, <<"receipt">>, <<"upsert", "receipt">>, <<"mark", "receipt">>,
          <<"copy", "upsert", "receipt">>, <<"copy", "mark", "receipt">>,
          <<"remove", "mark", "receipt">>, <<"copy", "remove", "mark", "receipt">>}
Bare == {<<"upsert">>, <<"mark">>}
States == {"Staged", "Delivered", "PendingStageApproval", "PendingDeliveryApproval", "Failed"}

Tasks == [todo : Todos, request : Asked, why : {"allowed", "operator", "approval", "none"},
          mark : States, approval : Ids \cup {"none"}]
Stored == [state : States, stageApproval : Ids \cup {"none"}, deliveryApproval : Ids \cup {"none"}]
Approvals == [status : {"Pending", "Approved", "Denied", "Expired"}, request : Asked, running : BOOLEAN]

FlowShape ==
    /\ mode \in Modes /\ work \in Contents
    /\ records \in [Stages -> Stored \cup {NoStage}]
    /\ approvals \in [Ids -> Approvals \cup {NoApproval}]
    /\ task \in [Workers -> Tasks \cup {Idle}]

\* Only a stage request writes a new record, only a delivery removes; the
\* record of a plan with a copy says so, of one without that it waits or failed.
PlanOK(t) ==
    /\ t.todo \in {<<"upsert">>, <<"upsert", "receipt">>, <<"copy", "upsert", "receipt">>}
           => t.request.kind = "stage"
    /\ t.todo \in {<<"mark">>, <<"remove", "mark", "receipt">>, <<"copy", "remove", "mark", "receipt">>}
           => t.request.kind = "deliver"
    /\ IF t.todo \in Bare THEN t.mark \in {Awaiting(t.request), "Failed"} ELSE t.mark = Done(t.request)

PastCopy(t) == t.todo \notin Bare /\ t.todo # <<>> /\ Head(t.todo) # "copy"
Crossing(t) == [request |-> t.request, why |-> t.why]
Backed(r) == \E i \in Ids : approvals[i].status = "Approved" /\ approvals[i].request = r

TaskOK(t) ==
    /\ PlanOK(t)
    /\ PastCopy(t) => Crossing(t) \in crossings
    /\ t.why = "approval" => Backed(t.request)

\* A copy that is in no receipt yet has a worker that will write it.
Owed ==
    ~mode.fail =>
        \A c \in crossings : c \in receipts \/ \E w \in Workers : PastCopy(task[w]) /\ Crossing(task[w]) = c

\* Where workers take turns, a move that has copied removes what it copied.
Removing(t) == t.todo = <<"remove", "mark", "receipt">>
Alone ==
    ~mode.overlap =>
        /\ \A v, w \in Workers : task[v] # Idle /\ task[w] # Idle => v = w
        /\ \A w \in Workers : Removing(task[w]) => dest = zone

FlowInv ==
    /\ FlowShape
    /\ \A w \in Workers, t \in Tasks : t = task[w] => TaskOK(t)
    /\ RecordsFollowCopies /\ ApprovalsCoverCrossings
    /\ Owed /\ Alone

LEMMA TodoSteps ==
    ASSUME NEW x \in Todos
    PROVE  /\ x # <<>> /\ Head(x) \in {"copy", "remove", "upsert", "mark", "receipt"}
           /\ Head(x) = "copy" =>
                 /\ Len(x) # 1 /\ x \notin Bare /\ Tail(x) \in Todos /\ Tail(x) \notin Bare
                 /\ Tail(x) # <<>> /\ Head(Tail(x)) # "copy"
                 /\ Tail(x) = <<"upsert", "receipt">> => x = <<"copy", "upsert", "receipt">>
                 /\ Tail(x) = <<"remove", "mark", "receipt">> => x = <<"copy", "remove", "mark", "receipt">>
                 /\ Tail(x) \notin {<<"copy", "upsert", "receipt">>, <<"copy", "remove", "mark", "receipt">>}
           /\ Head(x) = "remove" =>
                 x = <<"remove", "mark", "receipt">> /\ Len(x) # 1 /\ Tail(x) = <<"mark", "receipt">>
           /\ Head(x) \in {"upsert", "mark"} =>
                 \/ x = <<Head(x)>> /\ Len(x) = 1
                 \/ x = <<Head(x), "receipt">> /\ Len(x) # 1 /\ Tail(x) = <<"receipt">>
           /\ Head(x) = "receipt" => x = <<"receipt">> /\ Len(x) = 1
<1>1. CASE x \in {<<"upsert">>, <<"mark">>, <<"receipt">>}
  BY <1>1
<1>2. CASE x = <<"upsert", "receipt">>
  BY <1>2
<1>7. CASE x = <<"mark", "receipt">>
  BY <1>7
<1>3. CASE x = <<"copy", "upsert", "receipt">>
  BY <1>3 DEF Todos, Bare
<1>4. CASE x = <<"copy", "mark", "receipt">>
  BY <1>4 DEF Todos, Bare
<1>5. CASE x = <<"remove", "mark", "receipt">>
  BY <1>5
<1>6. CASE x = <<"copy", "remove", "mark", "receipt">>
  BY <1>6 DEF Todos, Bare
<1> QED BY <1>1, <1>2, <1>3, <1>4, <1>5, <1>6, <1>7 DEF Todos

LEMMA RestTodos ==
    /\ <<"receipt">> \in Todos \ Bare /\ <<"mark", "receipt">> \in Todos \ Bare
    /\ <<"receipt">> \notin {<<"upsert">>, <<"upsert", "receipt">>, <<"copy", "upsert", "receipt">>,
                             <<"mark">>, <<"remove", "mark", "receipt">>,
                             <<"copy", "remove", "mark", "receipt">>}
    /\ <<"mark", "receipt">> \notin {<<"upsert">>, <<"upsert", "receipt">>, <<"copy", "upsert", "receipt">>,
                             <<"mark">>, <<"remove", "mark", "receipt">>,
                             <<"copy", "remove", "mark", "receipt">>}
    /\ Head(<<"receipt">>) # "copy" /\ Head(<<"mark", "receipt">>) # "copy"
    /\ <<"receipt">> # <<>> /\ <<"mark", "receipt">> # <<>>
BY DEF Todos, Bare

LEMMA BareTodos ==
    /\ Bare \subseteq Todos
    /\ \A x \in Bare : x # <<"remove", "mark", "receipt">> /\ x # <<>>
    /\ <<"upsert">> \notin {<<"mark">>, <<"remove", "mark", "receipt">>, <<"copy", "remove", "mark", "receipt">>}
    /\ <<"mark">> \notin {<<"upsert">>, <<"upsert", "receipt">>, <<"copy", "upsert", "receipt">>}
BY DEF Todos, Bare

LEMMA InitFlow == Init => FlowInv
<1> SUFFICES ASSUME Init PROVE FlowInv
  OBVIOUS
<1> USE DEF Init
<1>1. FlowShape
  BY DEF FlowShape
<1>2. Idle \notin Tasks
  BY TodoSteps DEF Idle, Tasks
<1>3. RecordsFollowCopies /\ ApprovalsCoverCrossings
  BY DEF RecordsFollowCopies, ApprovalsCoverCrossings, NoStage
<1>4. Owed
  BY DEF Owed
<1>5. Alone
  BY DEF Alone, Removing, Idle
<1> QED BY <1>1, <1>2, <1>3, <1>4, <1>5 DEF FlowInv

\* What was copied and approved stays so, whatever becomes of one worker.
LEMMA FlowStep ==
    ASSUME FlowInv, NEW w \in Workers, NEW u \in Tasks \cup {Idle}, task' = [task EXCEPT ![w] = u],
           FlowShape', crossings \subseteq crossings', \A r : Backed(r) => Backed(r)',
           u \in Tasks => TaskOK(u)', RecordsFollowCopies', ApprovalsCoverCrossings', Owed', Alone'
    PROVE  FlowInv'
<1>1. ASSUME NEW v \in Workers, NEW t \in Tasks, t = task'[v] PROVE TaskOK(t)'
  <2>1. CASE v = w
    <3>1. t = u
      BY <1>1, <2>1 DEF FlowInv, FlowShape
    <3> QED BY <3>1
  <2>2. CASE v # w
    <3>1. t = task[v]
      BY <1>1, <2>2 DEF FlowInv, FlowShape
    <3>2. TaskOK(t)
      BY <3>1 DEF FlowInv
    <3>3. Backed(t.request) => Backed(t.request)'
      OBVIOUS
    <3> QED BY <3>2, <3>3 DEF TaskOK
  <2> QED BY <2>1, <2>2
<1> QED BY <1>1 DEF FlowInv

LEMMA TaskFacts ==
    ASSUME FlowInv, NEW w \in Workers, task[w] # Idle
    PROVE  /\ task[w] \in Tasks /\ task[w].todo \in Todos /\ task[w].request \in Asked
           /\ PlanOK(task[w]) /\ task[w].todo # <<>>
           /\ PastCopy(task[w]) => Crossing(task[w]) \in crossings
           /\ task[w].why = "approval" => Backed(task[w].request)
<1>1. task[w] \in Tasks
  BY DEF FlowInv, FlowShape
<1>2. PICK t \in Tasks : t = task[w]
  BY <1>1
<1>3. TaskOK(t)
  BY <1>2 DEF FlowInv
<1> QED BY <1>2, <1>3, TodoSteps DEF TaskOK, Tasks

LEMMA IdleFacts == Idle.todo = <<>> /\ Idle \notin Tasks /\ ~PastCopy(Idle) /\ ~Removing(Idle)
BY TodoSteps DEF Idle, Tasks, PastCopy, Removing

\* Approvals: only what waits is decided, what was given is only left to end.
LEMMA KeepsBacked ==
    ASSUME NEW r, Backed(r),
           \A i \in Ids : approvals[i].status = "Approved" =>
               approvals'[i].status = "Approved" /\ approvals'[i].request = approvals[i].request
    PROVE  Backed(r)'
BY DEF Backed

LEMMA RecordsKept ==
    ASSUME RecordsFollowCopies, records' = records, crossings \subseteq crossings'
    PROVE  RecordsFollowCopies'
BY DEF RecordsFollowCopies

LEMMA CoverKept ==
    ASSUME ApprovalsCoverCrossings, crossings' = crossings, \A r : Backed(r) => Backed(r)'
    PROVE  ApprovalsCoverCrossings'
<1> SUFFICES ASSUME NEW c \in crossings, c.why = "approval" PROVE Backed(c.request)'
  BY DEF ApprovalsCoverCrossings, Backed
<1>1. PICK r : r = c.request
  OBVIOUS
<1>2. Backed(r)
  BY <1>1 DEF ApprovalsCoverCrossings, Backed
<1> QED BY <1>1, <1>2 DEF Backed

LEMMA OwedKept ==
    ASSUME FlowInv, NEW w \in Workers, NEW u, task' = [task EXCEPT ![w] = u], mode' = mode,
           crossings' = crossings, receipts \subseteq receipts',
           ~mode.fail /\ PastCopy(task[w]) =>
               \/ PastCopy(u) /\ Crossing(u) = Crossing(task[w])
               \/ Crossing(task[w]) \in receipts'
    PROVE  Owed'
<1> SUFFICES ASSUME ~mode.fail, NEW c \in crossings, c \notin receipts'
             PROVE  \E v \in Workers : PastCopy(task'[v]) /\ Crossing(task'[v]) = c
  BY DEF Owed, PastCopy, Crossing
<1>1. PICK v \in Workers : PastCopy(task[v]) /\ Crossing(task[v]) = c
  BY DEF FlowInv, Owed
<1>2. task'[w] = u /\ \A x \in Workers : x # w => task'[x] = task[x]
  BY DEF FlowInv, FlowShape
<1>3. CASE v = w
  BY <1>1, <1>2, <1>3
<1>4. CASE v # w
  BY <1>1, <1>2, <1>4
<1> QED BY <1>3, <1>4

LEMMA AloneKept ==
    ASSUME FlowInv, NEW w \in Workers, NEW u, task' = [task EXCEPT ![w] = u], mode' = mode,
           mode.overlap \/ task[w] # Idle \/ (\A v \in Workers : task[v] = Idle),
           ~Removing(u) \/ dest' = zone'
    PROVE  Alone'
<1> SUFFICES ASSUME ~mode.overlap PROVE Alone'
  BY DEF Alone
<1>1. task'[w] = u /\ \A x \in Workers : x # w => task'[x] = task[x]
  BY DEF FlowInv, FlowShape
<1>2. \A x \in Workers : x # w => task'[x] = Idle
  BY <1>1 DEF FlowInv, Alone
<1>3. \A x \in Workers : Removing(task'[x]) => dest' = zone'
  BY <1>1, <1>2, IdleFacts
<1> QED BY <1>2, <1>3 DEF Alone, Removing

\* A step that begins a task: its copy, if it has one, is still to come.
LEMMA BeginStep ==
    ASSUME FlowInv, NEW w \in Workers, task[w] = Idle, NEW u \in Tasks \cup {Idle},
           task' = [task EXCEPT ![w] = u], mode' = mode,
           UNCHANGED <<disk, records, crossings, receipts>>,
           mode.overlap \/ \A v \in Workers : task[v] = Idle,
           approvals' \in [Ids -> Approvals \cup {NoApproval}],
           \A i \in Ids : approvals[i].status = "Approved" =>
               approvals'[i].status = "Approved" /\ approvals'[i].request = approvals[i].request,
           u \in Tasks => PlanOK(u) /\ ~PastCopy(u) /\ ~Removing(u)
                          /\ (u.why = "approval" => Backed(u.request)')
    PROVE  FlowInv'
<1>1. FlowShape'
  BY DEF FlowInv, FlowShape, disk
<1>2. \A r : Backed(r) => Backed(r)'
  BY KeepsBacked
<1>3. u \in Tasks => TaskOK(u)'
  BY DEF TaskOK
<1>4. RecordsFollowCopies' /\ ApprovalsCoverCrossings'
  BY <1>2, RecordsKept, CoverKept DEF FlowInv
<1>5. ~PastCopy(task[w]) /\ ~Removing(u)
  BY IdleFacts
<1>6. Owed' /\ Alone'
  BY <1>5, OwedKept, AloneKept
<1> QED BY <1>1, <1>2, <1>3, <1>4, <1>6, FlowStep

\* The plan of a copy, and its task.
LEMMA CopyPlan ==
    ASSUME NEW r \in Asked, NEW record, record = RecordStep(r) \/ record = "mark",
           NEW why \in {"allowed", "operator", "approval"}, NEW i \in Ids \cup {"none"}
    PROVE  LET u == Task(CopySteps(r, record), r, why, Done(r), i)
           IN  /\ u \in Tasks /\ PlanOK(u) /\ ~PastCopy(u) /\ ~Removing(u)
               /\ u.why = why /\ u.request = r
<1> DEFINE x == CopySteps(r, record)
           u == Task(x, r, why, Done(r), i)
<1>1. r.kind \in {"stage", "deliver"} /\ r.move \in BOOLEAN /\ (r.kind = "stage" => ~r.move)
  BY DEF Asked, Requests
<1>2. /\ r.move => x = <<"copy", "remove", "mark", "receipt">> /\ r.kind = "deliver"
      /\ ~r.move => \/ x = <<"copy", "mark", "receipt">>
                    \/ x = <<"copy", "upsert", "receipt">> /\ r.kind = "stage"
  BY <1>1 DEF CopySteps, RecordStep
<1>3. x \in Todos /\ x \notin Bare /\ Head(x) = "copy" /\ x # <<"remove", "mark", "receipt">>
  BY <1>1, <1>2 DEF Todos, Bare
<1>4. Done(r) \in States
  BY DEF Done, States
<1>5. /\ u.todo = x /\ u.request = r /\ u.why = why /\ u.mark = Done(r) /\ u.approval = i
      /\ u = [todo |-> x, request |-> r, why |-> why, mark |-> Done(r), approval |-> i]
  BY DEF Task
<1> HIDE DEF x, u
<1>6. u \in Tasks
  BY <1>3, <1>4, <1>5 DEF Tasks
<1>7. x \notin {<<"upsert">>, <<"mark">>, <<"upsert", "receipt">>}
  BY <1>3
<1>8. /\ x = <<"copy", "upsert", "receipt">> => r.kind = "stage"
      /\ x = <<"copy", "remove", "mark", "receipt">> => r.kind = "deliver"
  BY <1>1, <1>2
<1>9. PlanOK(u)
  BY <1>3, <1>5, <1>7, <1>8 DEF PlanOK
<1>10. ~PastCopy(u) /\ ~Removing(u)
  BY <1>3, <1>5 DEF PastCopy, Removing
<1> QED BY <1>5, <1>6, <1>9, <1>10 DEF u, x

LEMMA BarePlan ==
    ASSUME NEW r \in Asked, NEW mark \in {Awaiting(r), "Failed"}, NEW i \in Ids \cup {"none"}
    PROVE  LET u == Task(<<RecordStep(r)>>, r, "none", mark, i)
           IN  u \in Tasks /\ PlanOK(u) /\ ~PastCopy(u) /\ ~Removing(u) /\ u.why = "none"
<1> DEFINE x == <<RecordStep(r)>>
           u == Task(x, r, "none", mark, i)
<1>1. r.kind \in {"stage", "deliver"}
  BY DEF Asked, Requests
<1>2. \/ x = <<"upsert">> /\ r.kind = "stage"
      \/ x = <<"mark">> /\ r.kind = "deliver"
  BY <1>1 DEF RecordStep
<1>3. x \in Bare /\ x \in Todos /\ x # <<"remove", "mark", "receipt">>
  BY <1>2, BareTodos DEF Bare
<1>4. mark \in States
  BY DEF Awaiting, States
<1>5. /\ u.todo = x /\ u.request = r /\ u.why = "none" /\ u.mark = mark /\ u.approval = i
      /\ u = [todo |-> x, request |-> r, why |-> "none", mark |-> mark, approval |-> i]
  BY DEF Task
<1> HIDE DEF x, u
<1>6. u \in Tasks
  BY <1>3, <1>4, <1>5 DEF Tasks
<1>7. PlanOK(u)
  <2>1. CASE x = <<"upsert">> /\ r.kind = "stage"
    BY <1>3, <1>5, <2>1, BareTodos DEF PlanOK
  <2>2. CASE x = <<"mark">> /\ r.kind = "deliver"
    BY <1>3, <1>5, <2>2, BareTodos DEF PlanOK
  <2> QED BY <1>2, <2>1, <2>2
<1>8. ~PastCopy(u) /\ ~Removing(u)
  BY <1>3, <1>5 DEF PastCopy, Removing
<1> QED BY <1>5, <1>6, <1>7, <1>8 DEF u, x

\* A request is handled as the policy says, or as the operator does.
LEMMA HandleStep ==
    ASSUME FlowInv, NEW w \in Workers, NEW r \in Asked, Handle(w, r), mode' = mode
    PROVE  FlowInv'
<1>1. /\ task[w] = Idle /\ (mode.overlap \/ \A v \in Workers : task[v] = Idle)
      /\ UNCHANGED <<disk, records, crossings, receipts>>
      /\ approvals \in [Ids -> Approvals \cup {NoApproval}]
  BY DEF Handle, Begins, FlowInv, FlowShape
<1>2. ASSUME NEW why \in {"allowed", "operator"}, GoAhead(w, r, why) PROVE FlowInv'
  <2>1. PICK u : u = Task(CopySteps(r, RecordStep(r)), r, why, Done(r), "none")
    OBVIOUS
  <2>2. u \in Tasks /\ PlanOK(u) /\ ~PastCopy(u) /\ ~Removing(u) /\ u.why = why
    BY <2>1, CopyPlan
  <2>3. task' = [task EXCEPT ![w] = u] /\ approvals' = approvals
    BY <1>2, <2>1 DEF GoAhead
  <2> QED BY <1>1, <2>2, <2>3, BeginStep
<1>3. CASE UseApproval(w, r)
  <2>1. PICK u : u = Task(CopySteps(r, RecordStep(r)), r, "approval", Done(r), "none")
    OBVIOUS
  <2>2. u \in Tasks /\ PlanOK(u) /\ ~PastCopy(u) /\ ~Removing(u) /\ u.request = r
    BY <2>1, CopyPlan
  <2>3. task' = [task EXCEPT ![w] = u] /\ approvals' = approvals
    BY <1>3, <2>1 DEF UseApproval
  <2>4. Backed(u.request)'
    BY <1>3, <2>2, <2>3 DEF UseApproval, HasActive, IsActive, Backed
  <2> QED BY <1>1, <2>2, <2>3, <2>4, BeginStep
<1>4. CASE Block(w, r)
  <2>1. PICK u : u = Task(<<RecordStep(r)>>, r, "none", "Failed", "none")
    OBVIOUS
  <2>2. u \in Tasks /\ PlanOK(u) /\ ~PastCopy(u) /\ ~Removing(u) /\ u.why = "none"
    BY <2>1, BarePlan
  <2>3. task' = [task EXCEPT ![w] = u] /\ approvals' = approvals
    BY <1>4, <2>1 DEF Block
  <2> QED BY <1>1, <2>2, <2>3, BeginStep
<1>5. CASE Queue(w, r)
  <2>1. PICK i \in Ids : /\ CreatePending(r, i)
                         /\ task' = [task EXCEPT ![w] = Task(<<RecordStep(r)>>, r, "none", Awaiting(r), i)]
    BY <1>5 DEF Queue
  <2>2. PICK u : u = Task(<<RecordStep(r)>>, r, "none", Awaiting(r), i)
    OBVIOUS
  <2>3. u \in Tasks /\ PlanOK(u) /\ ~PastCopy(u) /\ ~Removing(u) /\ u.why = "none"
    BY <2>2, BarePlan
  <2>4. task' = [task EXCEPT ![w] = u]
    BY <2>1, <2>2
  <2>5. /\ approvals' \in [Ids -> Approvals \cup {NoApproval}]
        /\ \A j \in Ids : approvals[j].status = "Approved" =>
               approvals'[j].status = "Approved" /\ approvals'[j].request = approvals[j].request
    <3>1. CASE approvals' = approvals
      BY <1>1, <3>1
    <3>2. CASE /\ approvals[i].status = "Absent"
               /\ approvals' = [approvals EXCEPT ![i] =
                                  [status |-> "Pending", request |-> r, running |-> TRUE]]
      <4>1. [status |-> "Pending", request |-> r, running |-> TRUE] \in Approvals
        BY DEF Approvals
      <4> QED BY <1>1, <3>2, <4>1
    <3> QED BY <2>1, <3>1, <3>2 DEF CreatePending
  <2> QED BY <1>1, <2>3, <2>4, <2>5, BeginStep
<1> QED BY <1>2, <1>3, <1>4, <1>5 DEF Handle

\* Deciding: the effect of an approval is what was asked for first.
LEMMA Decided ==
    ASSUME FlowInv, NEW i \in Ids, approvals[i].status = "Pending", NEW status \in {"Approved", "Denied"},
           approvals' = [approvals EXCEPT ![i].status = status]
    PROVE  /\ approvals' \in [Ids -> Approvals \cup {NoApproval}]
           /\ approvals[i].request \in Asked
           /\ approvals'[i].status = status /\ approvals'[i].request = approvals[i].request
           /\ \A j \in Ids : approvals[j].status = "Approved" =>
                  approvals'[j].status = "Approved" /\ approvals'[j].request = approvals[j].request
<1>1. approvals \in [Ids -> Approvals \cup {NoApproval}]
  BY DEF FlowInv, FlowShape
<1>2. approvals[i] \in Approvals
  BY <1>1 DEF NoApproval
<1>3. PICK a : a = [approvals[i] EXCEPT !.status = status]
  OBVIOUS
<1>4. a \in Approvals /\ a.status = status /\ a.request = approvals[i].request
  BY <1>2, <1>3 DEF Approvals
<1>5. approvals' = [approvals EXCEPT ![i] = a]
  BY <1>1, <1>3
<1>6. approvals[i].request \in Asked
  BY <1>2 DEF Approvals
<1> QED BY <1>1, <1>4, <1>5, <1>6

LEMMA ApproveStep ==
    ASSUME FlowInv, NEW w \in Workers, NEW i \in Ids, Approve(w, i), mode' = mode
    PROVE  FlowInv'
<1>1. /\ task[w] = Idle /\ (mode.overlap \/ \A v \in Workers : task[v] = Idle)
      /\ UNCHANGED <<disk, records, crossings, receipts>>
      /\ task \in [Workers -> Tasks \cup {Idle}]
  BY DEF Approve, Begins, FlowInv, FlowShape
<1>2. /\ approvals' \in [Ids -> Approvals \cup {NoApproval}]
      /\ approvals[i].request \in Asked
      /\ approvals'[i].status = "Approved" /\ approvals'[i].request = approvals[i].request
      /\ \A j \in Ids : approvals[j].status = "Approved" =>
             approvals'[j].status = "Approved" /\ approvals'[j].request = approvals[j].request
  BY Decided DEF Approve
<1>3. PICK r \in Asked : r = approvals[i].request
  BY <1>2
<1>4. CASE HasSource(r)
  <2>1. PICK u : u = Task(CopySteps(r, "mark"), r, "approval", Done(r), i)
    OBVIOUS
  <2>2. u \in Tasks /\ PlanOK(u) /\ ~PastCopy(u) /\ ~Removing(u) /\ u.request = r
    BY <2>1, CopyPlan
  <2>3. task' = [task EXCEPT ![w] = u]
    BY <1>3, <1>4, <2>1 DEF Approve
  <2>4. Backed(u.request)'
    BY <1>2, <1>3, <2>2 DEF Backed
  <2> QED BY <1>1, <1>2, <2>2, <2>3, <2>4, BeginStep
<1>5. CASE ~HasSource(r)
  <2>1. task' = [task EXCEPT ![w] = Idle]
    BY <1>3, <1>5 DEF Approve
  <2> QED BY <1>1, <1>2, <2>1, IdleFacts, BeginStep
<1> QED BY <1>4, <1>5

LEMMA DenyStep ==
    ASSUME FlowInv, NEW w \in Workers, NEW i \in Ids, Deny(w, i), mode' = mode
    PROVE  FlowInv'
<1>1. /\ task[w] = Idle /\ (mode.overlap \/ \A v \in Workers : task[v] = Idle)
      /\ UNCHANGED <<disk, records, crossings, receipts, task>>
      /\ task \in [Workers -> Tasks \cup {Idle}]
  BY DEF Deny, Begins, FlowInv, FlowShape
<1>2. /\ approvals' \in [Ids -> Approvals \cup {NoApproval}]
      /\ \A j \in Ids : approvals[j].status = "Approved" =>
             approvals'[j].status = "Approved" /\ approvals'[j].request = approvals[j].request
  BY Decided DEF Deny
<1>3. task' = [task EXCEPT ![w] = Idle]
  BY <1>1
<1> QED BY <1>1, <1>2, <1>3, IdleFacts, BeginStep

\* What is left when a step of a plan with a copy is done.
LEMMA RestOK ==
    ASSUME NEW t \in Tasks, PlanOK(t), t.todo \notin Bare,
           NEW y \in {<<"receipt">>, <<"mark", "receipt">>}, NEW u, u = [t EXCEPT !.todo = y]
    PROVE  /\ u \in Tasks /\ PlanOK(u) /\ PastCopy(u) /\ ~Removing(u)
           /\ u.request = t.request /\ u.why = t.why /\ Crossing(u) = Crossing(t)
<1>1. y \in Todos /\ y \notin Bare /\ Head(y) # "copy" /\ y # <<>> /\ y # <<"remove", "mark", "receipt">>
  BY RestTodos
<1>2. u \in Tasks /\ u.todo = y /\ u.request = t.request /\ u.why = t.why /\ u.mark = t.mark
  BY <1>1 DEF Tasks
<1>3. PlanOK(u)
  BY <1>1, <1>2, RestTodos DEF PlanOK
<1> QED BY <1>1, <1>2, <1>3 DEF PastCopy, Removing, Crossing

\* A step of a worker that copies nothing.
LEMMA WorkStep ==
    ASSUME FlowInv, NEW w \in Workers, task[w] # Idle, NEW u \in Tasks \cup {Idle},
           task' = [task EXCEPT ![w] = u], UNCHANGED <<mode, work, approvals, crossings>>,
           records' \in [Stages -> Stored \cup {NoStage}], RecordsFollowCopies',
           receipts \subseteq receipts',
           u \in Tasks => PlanOK(u) /\ PastCopy(task[w]) /\ Crossing(u) = Crossing(task[w])
                          /\ PastCopy(u) /\ ~Removing(u)
                          /\ u.request = task[w].request /\ u.why = task[w].why,
           u = Idle => mode.fail \/ ~PastCopy(task[w]) \/ Crossing(task[w]) \in receipts'
    PROVE  FlowInv'
<1>1. FlowShape'
  BY DEF FlowInv, FlowShape
<1>2. \A r : Backed(r) => Backed(r)'
  BY KeepsBacked
<1>3. u \in Tasks => TaskOK(u)'
  <2> SUFFICES ASSUME u \in Tasks PROVE TaskOK(u)'
    OBVIOUS
  <2>1. Crossing(u) \in crossings
    BY TaskFacts
  <2>2. u.why = "approval" => Backed(u.request)
    BY TaskFacts
  <2>3. PICK r : r = u.request
    OBVIOUS
  <2>4. Backed(r) => Backed(r)'
    BY <1>2
  <2> QED BY <2>1, <2>2, <2>3, <2>4 DEF TaskOK, Backed
<1>4. ApprovalsCoverCrossings'
  BY <1>2, CoverKept DEF FlowInv
<1>5. ~Removing(u)
  BY IdleFacts
<1>6. Owed' /\ Alone'
  BY <1>5, OwedKept, AloneKept
<1> QED BY <1>1, <1>2, <1>3, <1>4, <1>6, FlowStep

LEMMA RemoveStep ==
    ASSUME FlowInv, NEW w \in Workers, Remove(w), mode' = mode
    PROVE  FlowInv'
<1>1. task[w] # Idle
  BY IdleFacts DEF Remove, Doing
<1>2. PICK t \in Tasks : t = task[w] /\ t.todo \in Todos /\ PlanOK(t)
  BY <1>1, TaskFacts
<1>3. Len(t.todo) # 1 /\ Tail(t.todo) = <<"mark", "receipt">> /\ t.todo = <<"remove", "mark", "receipt">>
  BY <1>2, TodoSteps DEF Remove, Doing
<1>4. t.todo \notin Bare /\ PastCopy(t)
  BY <1>2, <1>3, TodoSteps DEF PastCopy, Bare, Remove, Doing
<1>5. PICK u : u = [t EXCEPT !.todo = <<"mark", "receipt">>]
  OBVIOUS
<1>6. task' = [task EXCEPT ![w] = u]
  BY <1>2, <1>3, <1>5 DEF Remove, Proceed
<1>7. /\ u \in Tasks /\ PlanOK(u) /\ PastCopy(u) /\ ~Removing(u)
      /\ u.request = t.request /\ u.why = t.why /\ Crossing(u) = Crossing(t)
  BY <1>2, <1>4, <1>5, RestOK
<1>8. /\ UNCHANGED <<work, approvals, crossings, records, receipts>> /\ RecordsFollowCopies'
      /\ records' \in [Stages -> Stored \cup {NoStage}]
  BY RecordsKept DEF Remove, FlowInv, FlowShape
<1> QED BY <1>1, <1>2, <1>4, <1>6, <1>7, <1>8, IdleFacts, WorkStep

LEMMA ReceiptStep ==
    ASSUME FlowInv, NEW w \in Workers, Receipt(w), mode' = mode
    PROVE  FlowInv'
<1>1. task[w] # Idle
  BY IdleFacts DEF Receipt, Doing
<1>2. task[w].todo \in Todos
  BY <1>1, TaskFacts
<1>3. Len(task[w].todo) = 1
  BY <1>2, TodoSteps DEF Receipt, Doing
<1>4. task' = [task EXCEPT ![w] = Idle]
  BY <1>3 DEF Receipt, Proceed
<1>5. Crossing(task[w]) \in receipts' /\ receipts \subseteq receipts'
  BY DEF Receipt, Crossing
<1>6. /\ UNCHANGED <<work, approvals, crossings, records>> /\ RecordsFollowCopies'
      /\ records' \in [Stages -> Stored \cup {NoStage}]
  BY RecordsKept DEF Receipt, FlowInv, FlowShape, disk
<1> QED BY <1>1, <1>4, <1>5, <1>6, IdleFacts, WorkStep

\* Without the copy, or in a mode in which a step may fail.
LEMMA FailSteps ==
    ASSUME FlowInv, NEW w \in Workers, CopyFails(w) \/ Fail(w), mode' = mode
    PROVE  FlowInv'
<1>1. task[w] # Idle
  BY IdleFacts DEF CopyFails, Fail, Doing
<1>2. task' = [task EXCEPT ![w] = Idle]
  BY DEF CopyFails, Fail
<1>3. /\ UNCHANGED <<work, approvals, crossings, records, receipts>> /\ RecordsFollowCopies'
      /\ records' \in [Stages -> Stored \cup {NoStage}]
  BY RecordsKept DEF CopyFails, Fail, FlowInv, FlowShape, disk
<1>4. mode.fail \/ ~PastCopy(task[w])
  BY DEF CopyFails, Fail, PastCopy, Doing
<1> QED BY <1>1, <1>2, <1>3, <1>4, IdleFacts, WorkStep

\* The record says what the plan has got to.
RecordOf(t) == IF Head(t.todo) = "upsert" THEN [state |-> t.mark, stageApproval |-> t.approval,
                                                deliveryApproval |-> "none"]
               ELSE Marked(records[t.request.stage], t.mark, t.approval)

LEMMA RecordSteps ==
    ASSUME FlowInv, NEW w \in Workers, Upsert(w) \/ Mark(w), mode' = mode
    PROVE  FlowInv'
<1>1. task[w] # Idle
  BY IdleFacts DEF Upsert, Mark, Doing
<1>2. PICK t \in Tasks : t = task[w] /\ t.todo \in Todos /\ PlanOK(t) /\ t.request \in Asked
                         /\ (PastCopy(t) => Crossing(t) \in crossings)
  BY <1>1, TaskFacts
<1>3. /\ UNCHANGED <<work, approvals, crossings, receipts>> /\ Proceed(w)
      /\ Head(t.todo) \in {"upsert", "mark"} /\ t.todo # <<>>
      /\ records' = [records EXCEPT ![t.request.stage] = RecordOf(t)]
      /\ records \in [Stages -> Stored \cup {NoStage}]
  BY <1>2 DEF Upsert, Mark, Doing, disk, RecordOf, FlowInv, FlowShape
<1>4. \/ t.todo \in Bare /\ Len(t.todo) = 1
      \/ t.todo \notin Bare /\ Len(t.todo) # 1 /\ Tail(t.todo) = <<"receipt">>
  BY <1>2, <1>3, TodoSteps DEF Bare
<1>5. PICK s \in Stages : s = t.request.stage
  BY <1>2 DEF Asked, Requests
<1>6. t.request.kind \in {"stage", "deliver"} /\ t.approval \in Ids \cup {"none"} /\ t.mark \in States
  BY <1>2 DEF Asked, Requests, Tasks
<1>7. /\ t.todo \in Bare /\ Head(t.todo) = "upsert" => t.mark \in {"PendingStageApproval", "Failed"}
      /\ t.todo \in Bare /\ Head(t.todo) = "mark" => t.mark \in {"PendingDeliveryApproval", "Failed"}
      /\ t.todo \notin Bare => t.mark = Done(t.request) /\ PastCopy(t)
      /\ Head(t.todo) = "upsert" => t.request.kind = "stage"
  <2>1. /\ t.todo \in Bare /\ Head(t.todo) = "upsert" => t.todo = <<"upsert">>
        /\ t.todo \in Bare /\ Head(t.todo) = "mark" => t.todo = <<"mark">>
        /\ Head(t.todo) = "upsert" => t.todo \in {<<"upsert">>, <<"upsert", "receipt">>}
    BY <1>2, TodoSteps DEF Bare
  <2>2. /\ t.todo = <<"mark">> => t.request.kind = "deliver"
        /\ t.todo \in {<<"upsert">>, <<"upsert", "receipt">>} => t.request.kind = "stage"
        /\ t.todo \in Bare => t.mark \in {Awaiting(t.request), "Failed"}
        /\ t.todo \notin Bare => t.mark = Done(t.request)
    BY <1>2 DEF PlanOK
  <2>3. Head(t.todo) # "copy"
    BY <1>3
  <2> QED BY <1>3, <2>1, <2>2, <2>3 DEF Awaiting, PastCopy
<1>8. \/ RecordOf(t) = NoStage
      \/ RecordOf(t) \in Stored /\ RecordOf(t).state = t.mark
  <2>1. CASE Head(t.todo) = "upsert"
    BY <1>6, <2>1 DEF RecordOf, Stored
  <2>2. CASE Head(t.todo) = "mark"
    <3>1. t.mark \in {"Staged", "Delivered", "PendingDeliveryApproval", "Failed"}
      BY <1>7, <2>2 DEF Done
    <3>2. RecordOf(t) = Marked(records[s], t.mark, t.approval)
      BY <1>5, <2>2 DEF RecordOf
    <3>3. records[s] = NoStage \/ records[s] \in Stored
      BY <1>3
    <3>4. CASE records[s] = NoStage
      BY <3>2, <3>4 DEF Marked
    <3>5. CASE records[s] # NoStage /\ records[s] \in Stored
      BY <1>6, <3>1, <3>2, <3>5 DEF Marked, Stored
    <3> QED BY <3>3, <3>4, <3>5
  <2> QED BY <1>3, <2>1, <2>2
<1>9. /\ records' \in [Stages -> Stored \cup {NoStage}] /\ records'[s] = RecordOf(t)
      /\ \A x \in Stages : x # s => records'[x] = records[x]
  BY <1>3, <1>5, <1>8
<1>10. RecordsFollowCopies'
  <2>1. t.mark \in {"Staged", "Delivered"} =>
            Crossing(t) \in crossings /\ Crossing(t).request = t.request /\ t.mark = Done(t.request)
    BY <1>2, <1>3, <1>7 DEF Crossing
  <2>2. NoStage.state = "none"
    BY DEF NoStage
  <2>3. /\ records'[s].state = "Staged" =>
              \E c \in crossings : c.request.kind = "stage" /\ c.request.stage = s
        /\ records'[s].state = "Delivered" =>
              \E c \in crossings : c.request.kind = "deliver" /\ c.request.stage = s
    <3>1. records'[s].state = t.mark \/ records'[s].state = "none"
      BY <1>8, <1>9, <2>2
    <3>2. /\ t.mark = "Staged" /\ t.mark = Done(t.request) => t.request.kind = "stage"
          /\ t.mark = "Delivered" /\ t.mark = Done(t.request) => t.request.kind = "deliver"
      BY <1>6 DEF Done
    <3> QED BY <1>5, <2>1, <3>1, <3>2
  <2> QED BY <1>3, <1>9, <2>3 DEF RecordsFollowCopies, FlowInv
<1>11. CASE t.todo \in Bare /\ Len(t.todo) = 1
  <2>1. task' = [task EXCEPT ![w] = Idle] /\ ~PastCopy(t)
    BY <1>2, <1>3, <1>11 DEF Proceed, PastCopy
  <2> QED BY <1>1, <1>2, <1>3, <1>9, <1>10, <2>1, IdleFacts, WorkStep
<1>12. CASE t.todo \notin Bare /\ Len(t.todo) # 1 /\ Tail(t.todo) = <<"receipt">>
  <2>1. PICK u : u = [t EXCEPT !.todo = <<"receipt">>]
    OBVIOUS
  <2>2. task' = [task EXCEPT ![w] = u]
    BY <1>2, <1>3, <1>12, <2>1 DEF Proceed
  <2>3. /\ u \in Tasks /\ PlanOK(u) /\ PastCopy(u) /\ ~Removing(u)
        /\ u.request = t.request /\ u.why = t.why /\ Crossing(u) = Crossing(t)
    BY <1>2, <1>12, <2>1, RestOK
  <2> QED BY <1>1, <1>2, <1>3, <1>7, <1>9, <1>10, <1>12, <2>2, <2>3, IdleFacts, WorkStep
<1> QED BY <1>4, <1>11, <1>12

\* A copy is made, of what the source holds by now, and is to be recorded.
LEMMA CopyStep ==
    ASSUME FlowInv, NEW w \in Workers, Copy(w), mode' = mode
    PROVE  FlowInv'
<1>1. task[w] # Idle
  BY IdleFacts DEF Copy, Doing
<1>2. PICK t \in Tasks : t = task[w] /\ t.todo \in Todos /\ PlanOK(t)
                         /\ (t.why = "approval" => Backed(t.request))
  BY <1>1, TaskFacts
<1>3. /\ UNCHANGED <<work, approvals, records, receipts>> /\ Proceed(w)
      /\ Head(t.todo) = "copy" /\ t.todo # <<>>
      /\ crossings' = crossings \cup {Crossing(t)}
      /\ t.request.kind = "deliver" => dest' = zone /\ zone' = zone
  BY <1>2 DEF Copy, Doing, Crossing
<1>4. /\ Len(t.todo) # 1 /\ t.todo \notin Bare /\ Tail(t.todo) \in Todos /\ Tail(t.todo) \notin Bare
      /\ Tail(t.todo) # <<>> /\ Head(Tail(t.todo)) # "copy"
      /\ Tail(t.todo) = <<"upsert", "receipt">> => t.todo = <<"copy", "upsert", "receipt">>
      /\ Tail(t.todo) = <<"remove", "mark", "receipt">> => t.todo = <<"copy", "remove", "mark", "receipt">>
      /\ Tail(t.todo) \notin {<<"copy", "upsert", "receipt">>, <<"copy", "remove", "mark", "receipt">>}
  BY <1>2, <1>3, TodoSteps
<1>5. PICK y \in Todos : y = Tail(t.todo)
  BY <1>4
<1>6. PICK u : u = [t EXCEPT !.todo = y]
  OBVIOUS
<1>7. /\ u \in Tasks /\ u.todo = y /\ u.request = t.request /\ u.why = t.why /\ u.mark = t.mark
      /\ Crossing(u) = Crossing(t)
  BY <1>6 DEF Tasks, Crossing
<1>8. task' = [task EXCEPT ![w] = u]
  BY <1>2, <1>3, <1>4, <1>5, <1>6 DEF Proceed
<1>9. y \notin {<<"upsert">>, <<"mark">>}
  BY <1>4, <1>5 DEF Bare
<1>10. PlanOK(u) /\ PastCopy(u)
  BY <1>2, <1>4, <1>5, <1>7, <1>9 DEF PlanOK, PastCopy
<1>11. Removing(u) => dest' = zone'
  BY <1>2, <1>3, <1>4, <1>5, <1>7 DEF PlanOK, Removing
<1>12. \A r : Backed(r) => Backed(r)'
  BY <1>3, KeepsBacked
<1>13. FlowShape'
  BY <1>3, <1>7, <1>8 DEF FlowInv, FlowShape
<1>14. PICK r \in Asked : r = t.request
  BY <1>2 DEF Tasks
<1>15. TaskOK(u)'
  <2>1. u.why = "approval" => Backed(r)'
    BY <1>2, <1>7, <1>12, <1>14
  <2>2. Crossing(u) \in crossings'
    BY <1>3, <1>7
  <2> QED BY <1>7, <1>10, <1>14, <2>1, <2>2 DEF TaskOK
<1>16. ApprovalsCoverCrossings'
  <2> SUFFICES ASSUME NEW c \in crossings', c.why = "approval"
               PROVE  \E i \in Ids : approvals'[i].status = "Approved" /\ approvals'[i].request = c.request
    BY DEF ApprovalsCoverCrossings
  <2>1. CASE c \in crossings
    BY <1>3, <2>1 DEF FlowInv, ApprovalsCoverCrossings
  <2>2. CASE c = Crossing(t)
    BY <1>2, <1>3, <2>2 DEF Crossing, Backed
  <2> QED BY <1>3, <2>1, <2>2
<1>17. RecordsFollowCopies'
  BY <1>3, RecordsKept DEF FlowInv
<1>18. Alone'
  BY <1>1, <1>8, <1>11, AloneKept
<1>19. Owed'
  <2> SUFFICES ASSUME ~mode.fail, NEW c \in crossings', c \notin receipts'
               PROVE  \E v \in Workers : PastCopy(task'[v]) /\ Crossing(task'[v]) = c
    BY DEF Owed, PastCopy, Crossing
  <2>1. task'[w] = u /\ \A x \in Workers : x # w => task'[x] = task[x]
    BY <1>8 DEF FlowInv, FlowShape
  <2>2. CASE c = Crossing(t)
    BY <1>7, <1>10, <2>1, <2>2
  <2>3. CASE c \in crossings
    <3>1. PICK v \in Workers : PastCopy(task[v]) /\ Crossing(task[v]) = c
      BY <1>3, <2>3 DEF FlowInv, Owed
    <3>2. v # w
      BY <1>2, <1>3, <3>1 DEF PastCopy
    <3> QED BY <2>1, <3>1, <3>2
  <2> QED BY <1>3, <2>2, <2>3
<1>20. u \in Tasks /\ crossings \subseteq crossings'
  BY <1>3, <1>7
<1> QED BY <1>8, <1>12, <1>13, <1>15, <1>16, <1>17, <1>18, <1>19, <1>20, FlowStep

LEMMA AroundStep ==
    ASSUME FlowInv, (\E i \in Ids : Lapse(i)) \/ AgentWrites \/ UNCHANGED vars, mode' = mode
    PROVE  FlowInv'
<1>1. /\ UNCHANGED <<records, task, crossings, receipts, zone, dest>> /\ work' \in Contents
  BY DEF Lapse, AgentWrites, vars, disk, FlowInv, FlowShape
<1>2. /\ approvals' \in [Ids -> Approvals \cup {NoApproval}]
      /\ \A j \in Ids : approvals[j].status = "Approved" =>
             approvals'[j].status = "Approved" /\ approvals'[j].request = approvals[j].request
  <2>1. approvals \in [Ids -> Approvals \cup {NoApproval}]
    BY DEF FlowInv, FlowShape
  <2>2. CASE approvals' = approvals
    BY <2>1, <2>2
  <2>3. ASSUME NEW i \in Ids, Lapse(i)
        PROVE  /\ approvals' \in [Ids -> Approvals \cup {NoApproval}]
               /\ \A j \in Ids : approvals[j].status = "Approved" =>
                      approvals'[j].status = "Approved" /\ approvals'[j].request = approvals[j].request
    <3>1. approvals[i].status \in {"Pending", "Approved"}
      BY <2>3 DEF Lapse
    <3>2. approvals[i] \in Approvals
      BY <2>1, <3>1 DEF NoApproval
    <3>3. PICK a : \/ approvals[i].status = "Pending"
                      /\ a = [approvals[i] EXCEPT !.status = "Expired", !.running = FALSE]
                   \/ approvals[i].status = "Approved" /\ a = [approvals[i] EXCEPT !.running = FALSE]
      BY <3>1
    <3>4. a \in Approvals /\ (approvals[i].status = "Approved" =>
                                 a.status = "Approved" /\ a.request = approvals[i].request)
      BY <3>2, <3>3 DEF Approvals
    <3>5. approvals' = [approvals EXCEPT ![i] = a]
      <4>1. CASE approvals[i].status = "Pending"
        BY <2>1, <2>3, <3>3, <4>1 DEF Lapse
      <4>2. CASE approvals[i].status = "Approved"
        BY <2>1, <2>3, <3>3, <4>2 DEF Lapse
      <4> QED BY <3>1, <4>1, <4>2
    <3> QED BY <2>1, <3>4, <3>5
  <2> QED BY <2>2, <2>3 DEF AgentWrites, vars
<1>3. FlowShape'
  BY <1>1, <1>2 DEF FlowInv, FlowShape
<1>4. \A r : Backed(r) => Backed(r)'
  BY <1>2, KeepsBacked
<1>5. ASSUME NEW v \in Workers, NEW t \in Tasks, t = task'[v] PROVE TaskOK(t)'
  <2>1. TaskOK(t)
    BY <1>1, <1>5 DEF FlowInv
  <2>2. Backed(t.request) => Backed(t.request)'
    BY <1>4
  <2> QED BY <1>1, <2>1, <2>2 DEF TaskOK
<1>6. RecordsFollowCopies' /\ ApprovalsCoverCrossings'
  BY <1>1, <1>4, RecordsKept, CoverKept DEF FlowInv
<1>7. Owed' /\ Alone'
  BY <1>1 DEF FlowInv, Owed, Alone
<1> QED BY <1>3, <1>5, <1>6, <1>7 DEF FlowInv

LEMMA NextFlow == ASSUME FlowInv, [Next]_vars PROVE FlowInv'
<1>1. mode' = mode
  BY DEF Next, vars
<1>2. CASE (\E i \in Ids : Lapse(i)) \/ AgentWrites \/ UNCHANGED vars
  BY <1>1, <1>2, AroundStep
<1>3. ASSUME NEW w \in Workers, WorkerStep(w) PROVE FlowInv'
  <2>1. ASSUME NEW s \in Stages, Export(w, s) PROVE FlowInv'
    <3>1. PICK r : r = Request("stage", s, FALSE)
      OBVIOUS
    <3>2. r \in Asked
      BY <3>1 DEF Request, Requests, Asked
    <3> QED BY <1>1, <2>1, <3>1, <3>2, HandleStep DEF Export
  <2>2. ASSUME NEW s \in Stages, NEW move \in BOOLEAN, Deliver(w, s, move) PROVE FlowInv'
    <3>1. PICK r : r = Request("deliver", s, move)
      OBVIOUS
    <3>2. r \in Asked
      BY <3>1 DEF Request, Requests, Asked
    <3> QED BY <1>1, <2>2, <3>1, <3>2, HandleStep DEF Deliver
  <2>3. ASSUME NEW i \in Ids, Approve(w, i) \/ Deny(w, i) PROVE FlowInv'
    BY <1>1, <2>3, ApproveStep, DenyStep
  <2> QED BY <1>1, <1>3, <2>1, <2>2, <2>3, CopyStep, FailSteps, RemoveStep, RecordSteps, ReceiptStep
          DEF WorkerStep
<1> QED BY <1>2, <1>3 DEF Next

LEMMA FlowAlways == Spec => []FlowInv
<1> QED BY InitFlow, NextFlow, PTL DEF Spec

\* A record that says Staged or Delivered has its copy, for any number of
\* requests and workers, whatever fails or dies (run_export, run_delivery and
\* apply_approval_effect record after the copy).
THEOREM RecordsAlwaysFollow == Spec => []RecordsFollowCopies
<1>1. FlowInv => RecordsFollowCopies
  BY DEF FlowInv
<1> QED BY <1>1, FlowAlways, PTL

\* Every copy made on an approval is the one some operator approved, however
\* requests share approvals.
THEOREM ApprovalsAlwaysCover == Spec => []ApprovalsCoverCrossings
<1>1. FlowInv => ApprovalsCoverCrossings
  BY DEF FlowInv
<1> QED BY <1>1, FlowAlways, PTL

\* Where nothing fails, every copy is in the audit log when the work is done.
THEOREM CrossingsAlwaysReceipted == Spec => []CrossingsAreReceipted
<1>1. FlowInv => CrossingsAreReceipted
  BY IdleFacts DEF FlowInv, Owed, CrossingsAreReceipted
<1> QED BY <1>1, FlowAlways, PTL

\* A move of one worker at a time leaves at the destination what it removes.
THEOREM MovesKeepContent == Spec => MoveKeepsContent
<1>1. ASSUME FlowInv, [Next]_vars
      PROVE  [~mode.overlap /\ zone # Nothing /\ zone' = Nothing => dest' = zone]_vars
  <2> SUFFICES ASSUME ~mode.overlap, zone # Nothing, zone' = Nothing PROVE dest' = zone
    OBVIOUS
  <2>1. zone' # zone /\ zone' # Truncated /\ zone' \notin Contents
    BY ContentsAssumption DEF Nothing, Truncated
  <2>2. PICK w \in Workers : Remove(w) \/ Copy(w)
    BY <1>1, <2>1 DEF Next, vars, disk, WorkerStep, Export, Deliver, Handle, Approve, Deny, CopyFails, Upsert,
       Mark, Receipt, Fail, Lapse, AgentWrites
  <2>3. Remove(w)
    BY <1>1, <2>1, <2>2 DEF Copy, FlowInv, FlowShape
  <2>4. task[w] # Idle
    BY <2>3, IdleFacts DEF Remove, Doing
  <2>5. task[w].todo \in Todos
    BY <1>1, <2>4, TaskFacts
  <2>6. Removing(task[w])
    BY <2>3, <2>5, TodoSteps DEF Remove, Doing, Removing
  <2>7. dest = zone /\ dest' = dest
    BY <1>1, <2>3, <2>6 DEF FlowInv, Alone, Remove
  <2> QED BY <2>7
<1> QED BY <1>1, FlowAlways, PTL DEF Spec, MoveKeepsContent
=============================================================================
