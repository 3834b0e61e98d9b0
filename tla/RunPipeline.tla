------------------------------ MODULE RunPipeline ------------------------------
(***************************************************************************)
(* src/runner/ and the tool preflight of src/helpers/ui: what happens      *)
(* between a command and its launch.  Each action of the command is judged *)
(* by the policy, perhaps released by an approval, and logged; the first   *)
(* that is not allowed ends the run.  Then the command is launched in      *)
(* confinement or, where that may be, without.  A call of the tool         *)
(* preflight is a run of one action that launches nothing: the runner      *)
(* does, if the answer allows it.                                          *)
(*                                                                         *)
(* Runs are processes (or calls) of their own that share the approvals and *)
(* the receipts.  Parsing a command into its actions is left out: a        *)
(* command says which there are.  An action is its own approval scope;     *)
(* what create_pending compares is less.                                   *)
(***************************************************************************)
EXTENDS PolicyRules, Sequences, Functions

CONSTANTS
    Runs,
    Commands,       \* with a form, and actions by the preflight that finds them
    SomePolicies,   \* policies that may be on file, written by hand or set
    Degraded        \* config.allow_degraded_confinement

Stages == {"elevation", "utility", "persistence", "interpreter", "network", "exec", "tool"}

Forms == {"plain", "strict", "gateway", "tool"}

\* Fault: scripts are looked at before what the command makes persistent.
ActionsScriptsFirst(cmd) ==
    cmd.elevation \o cmd.utility \o cmd.interpreter \o cmd.persistence \o cmd.network \o cmd.exec

\* The actions of a command in the order of run_confined.
Actions(cmd) ==
    cmd.elevation \o cmd.utility \o cmd.persistence \o cmd.interpreter \o cmd.network \o cmd.exec

Requests == UNION {Range(Actions(cmd)) : cmd \in Commands}

\* What a preflight may ask about.
KindsOf(stage) ==
    CASE stage = "utility" -> FileKinds
      [] stage = "persistence" -> {"Persistence"}
      [] stage = "network" -> {"NetworkEgress"}
      [] stage = "tool" -> Kinds
      [] OTHER -> {"Execute"}

\* enforce_minimum_safety_guards
Guarded(p) ==
    [p EXCEPT !.zone = [@ EXCEPT !["SystemCritical"] = "deny", !["Secrets"] = "deny"],
              !.quarantineChain = TRUE]

\* A tool call is one action, which the tool preflight judges.
ASSUME PipelineAssumption ==
    /\ SomePolicies \subseteq Policies
    /\ \A p \in SomePolicies : Guarded(p) \in SomePolicies
    /\ Degraded \in BOOLEAN
    /\ \A cmd \in Commands :
          /\ cmd.form \in Forms
          /\ Actions(cmd) \in Seq(Requests) /\ Actions(cmd) # <<>>
          /\ cmd.form = "tool" =>
                Len(Actions(cmd)) = 1 /\ Head(Actions(cmd)).stage = "tool"
          /\ cmd.form # "tool" =>
                \A stage \in Stages \ {"tool"} :
                    cmd[stage] \in Seq({req \in Requests : req.stage = stage})
    /\ \A req \in Requests : req.kind \in KindsOf(req.stage)
    /\ Requests \subseteq
         [stage : Stages, kind : Kinds, path : Paths \cup {NoPath}, second : Paths \cup {NoPath},
          host : Hosts \cup {NoHost}, flags : SUBSET STRING]

VARIABLES
    policy,     \* policy.yaml
    queue,      \* the approvals by scope: their status, and why they were asked for
    log,        \* the receipts
    gone,       \* paths moved to quarantine
    run         \* the runs

vars == <<policy, queue, log, gone, run>>

NotAsked == [status |-> "none", reason |-> "none"]

NoCommand == [form |-> "none"]
NoPolicy == [elevation |-> FALSE]

\* ops: what the run has still to do for the action it is at; left: the
\* actions still to judge; ran: its launches; answer: what its caller is told;
\* approved (history): what has been approved while it ran.
NotStarted ==
    [ops |-> <<"begin">>, cmd |-> NoCommand, policy |-> NoPolicy, cache |-> EmptyCache,
     left |-> <<>>, decision |-> Allow, ran |-> <<>>, answer |-> "none", approved |-> {}]

Init ==
    /\ policy \in SomePolicies
    /\ queue = [q \in Requests |-> NotAsked]
    /\ log = {}
    /\ gone = {}
    /\ run = [r \in Runs |-> NotStarted]

At(r, op) == run[r].ops # <<>> /\ Head(run[r].ops) = op

Current(r) == Head(run[r].left)

Approved == {q \in Requests : queue[q].status = "approved"}

\* The policy is read once; its engine is the run's own.
Begin(r, cmd) ==
    /\ At(r, "begin")
    /\ run' = [run EXCEPT ![r] = [@ EXCEPT
                 !.ops = <<"judge">>, !.cmd = cmd, !.policy = policy,
                 !.left = Actions(cmd), !.approved = Approved]]
    /\ UNCHANGED <<policy, queue, log, gone>>

-----------------------------------------------------------------------------
(* Judging an action *)

\* preflight_elevation_actions: sudo is never run, at best it is asked about.
JudgeElevation(rules, req) ==
    IF ~rules.elevation \/ ~Has(req, "install") THEN Deny("DenyElevationUnsupported")
    ELSE IF ~Has(req, "packages") THEN Deny("DenyInvalidRequest")
    ELSE IF ~Has(req, "packagesListed") THEN Deny("DenyElevationPackageNotAllowlisted")
    ELSE Ask("ApprovalRequiredElevation")

\* finalize_with_approval
Finalize(decision, req) ==
    IF decision.verdict = "RequireApproval" /\ queue[req].status = "approved"
    THEN Allow ELSE decision

\* Fault: active approvals and reading come before what is denied regardless.
JudgeToolLate(evaluated, req) ==
    IF (Has(req, "read") /\ evaluated.verdict = "RequireApproval") \/ Finalize(evaluated, req) = Allow
    THEN Allow
    ELSE IF req.kind \in FileKinds /\ Is(req.path, "delivery") THEN Deny("DenyUserDataWrite")
    ELSE IF Has(req, "internal") THEN Deny("DenySystemCritical")
    ELSE evaluated

\* run_tool_preflight_for_runner: some tool calls are denied whatever the
\* policy says; reading is never asked about.
JudgeTool(evaluated, req) ==
    IF req.kind \in FileKinds /\ Is(req.path, "delivery") THEN Deny("DenyUserDataWrite")
    ELSE IF Has(req, "internal") THEN Deny("DenySystemCritical")
    ELSE IF Has(req, "read") /\ evaluated.verdict = "RequireApproval" THEN Allow
    ELSE Finalize(evaluated, req)

\* Actions that are decided without the policy engine.
Unevaluated(req) ==
    req.stage = "elevation" \/ (req.stage = "utility" /\ Is(req.path, "delivery"))

Judgement(r, req) ==
    LET evaluated == Evaluate(run[r].policy, run[r].cache, req)
    IN  CASE req.stage = "elevation" -> JudgeElevation(run[r].policy, req)
          [] req.stage = "utility" /\ Unevaluated(req) -> Deny("DenyUserDataWrite")
          [] req.stage = "tool" -> JudgeTool(evaluated, req)
          [] OTHER -> IF Unevaluated(req) THEN evaluated ELSE Finalize(evaluated, req)

\* What a verdict leads to besides its receipt.  The tool preflight moves nothing.
Consequence(verdict, req) ==
    CASE verdict = "RequireApproval" -> <<"queue">>
      [] verdict = "Quarantine" /\ req.stage # "tool" -> <<"move">>
      [] OTHER -> <<>>

\* The preflights log first; for the command itself the receipt comes last.
Follows(verdict, req) ==
    IF verdict = "Allow" THEN <<"log", "next">>
    ELSE IF req.stage = "exec" THEN Consequence(verdict, req) \o <<"log", "answer">>
    ELSE <<"log">> \o Consequence(verdict, req) \o <<"answer">>

Judge(r) ==
    LET req == Current(r)
        decision == Judgement(r, req)
        known == run[r].cache
    IN  /\ At(r, "judge")
        /\ run' = [run EXCEPT ![r] = [@ EXCEPT
                     !.decision = decision,
                     !.ops = Follows(decision.verdict, req),
                     !.cache = IF Unevaluated(req) THEN known ELSE CacheAfter(known, req)]]
        /\ UNCHANGED <<policy, queue, log, gone>>

Step(r) == [run EXCEPT ![r].ops = Tail(@)]

Receipt(r, label, verdict) ==
    [run |-> r, label |-> label, req |-> Current(r), verdict |-> verdict]

Log(r) ==
    /\ At(r, "log")
    /\ log' = log \cup {Receipt(r, "decision", run[r].decision.verdict)}
    /\ run' = Step(r)
    /\ UNCHANGED <<policy, queue, gone>>

\* Flags that are part of the name of the operation.
OperationFlags == {"upload", "systemScope", "userScope"}

\* create_pending: a request for the same operation, whatever its other
\* metadata, is reused while it is pending.
SameKey(q, req) ==
    [q EXCEPT !.flags = @ \cap OperationFlags] = [req EXCEPT !.flags = @ \cap OperationFlags]

Queue(r) ==
    LET req == Current(r)
        asked == [status |-> "pending", reason |-> run[r].decision.reason]
    IN  /\ At(r, "queue")
        /\ queue' = IF \E q \in Requests : SameKey(q, req) /\ queue[q] = asked THEN queue
                    ELSE [queue EXCEPT ![req] = asked]
        /\ run' = Step(r)
        /\ UNCHANGED <<policy, log, gone>>

\* quarantine_path, whose failure is ignored.
Move(r) ==
    /\ At(r, "move")
    /\ gone' \in {gone, gone \cup {Current(r).path}}
    /\ run' = Step(r)
    /\ UNCHANGED <<policy, queue, log>>

\* The action is cleared: on to the next, or to the launch.
NextAction(r) ==
    /\ At(r, "next")
    /\ run' = [run EXCEPT ![r] = [@ EXCEPT
                 !.left = IF Len(run[r].left) = 1 THEN run[r].left ELSE Tail(run[r].left),
                 !.ops = IF Len(run[r].left) > 1 THEN <<"judge">>
                         ELSE IF run[r].cmd.form = "tool" THEN <<"answer">>
                         ELSE <<"launch">>]]
    /\ UNCHANGED <<policy, queue, log, gone>>

Answer(r) ==
    /\ At(r, "answer")
    /\ run' = [run EXCEPT ![r] = [@ EXCEPT !.ops = <<>>, !.answer = run[r].decision.verdict]]
    /\ UNCHANGED <<policy, queue, log, gone>>

-----------------------------------------------------------------------------
(* The launch *)

\* Fault: the configuration is asked before the kind of runner.
CanFallBackIfDegraded(cmd) == Degraded \/ cmd.form = "gateway"

\* auto_degraded_fallback_allowed
CanFallBack(cmd) ==
    \/ cmd.form = "gateway"
    \/ cmd.form # "strict" /\ Degraded

Fallback(cmd) ==
    IF CanFallBack(cmd) THEN <<"logDegraded", "bare", "logEnd">> ELSE <<>>

Launched(r, how, ops) ==
    run' = [run EXCEPT ![r] = [@ EXCEPT !.ran = Append(run[r].ran, how), !.ops = ops]]

\* The managed gateway runs on the host.
LaunchGateway(r) ==
    /\ At(r, "launch")
    /\ run[r].cmd.form = "gateway"
    /\ Launched(r, "host", <<"logEnd">>)
    /\ UNCHANGED <<policy, queue, log, gone>>

\* The probe fails, or the bubblewrap command cannot be built.
NoConfinement(r) ==
    /\ At(r, "launch")
    /\ run[r].cmd.form # "gateway"
    /\ run' = [run EXCEPT ![r].ops = <<"logUnavailable">> \o Fallback(run[r].cmd)]
    /\ UNCHANGED <<policy, queue, log, gone>>

\* The command ends; or it fails with a text that looks like an error of the
\* confinement, be it bubblewrap's or its own.
LaunchConfined(r) ==
    /\ At(r, "launch")
    /\ run[r].cmd.form # "gateway"
    /\ \/ Launched(r, "confined", <<"logEnd">>)
       \/ Launched(r, "confined", <<"logUnavailable">> \o Fallback(run[r].cmd))
    /\ UNCHANGED <<policy, queue, log, gone>>

\* execute_degraded_fallback
LaunchBare(r) ==
    /\ At(r, "bare")
    /\ Launched(r, "bare", Tail(run[r].ops))
    /\ UNCHANGED <<policy, queue, log, gone>>

LogLaunch(r) ==
    /\ \/ /\ At(r, "logUnavailable")
          /\ log' = log \cup {Receipt(r, "unavailable", "Deny")}
       \/ /\ At(r, "logDegraded")
          /\ log' = log \cup {Receipt(r, "degraded", "Allow")}
       \/ /\ At(r, "logEnd")
          /\ log' = log \cup {Receipt(r, "end", "Allow")}
    /\ run' = Step(r)
    /\ UNCHANGED <<policy, queue, gone>>

\* An error on the way (a receipt that cannot be appended, an approval that
\* cannot be stored) or the end of the process: what is done stays.
Stop(r) ==
    /\ run[r].ops # <<>>
    /\ ~At(r, "begin")
    /\ run' = [run EXCEPT ![r].ops = <<>>]
    /\ UNCHANGED <<policy, queue, log, gone>>

-----------------------------------------------------------------------------
(* The operator, and time *)

\* api_policy_toggles: whatever is asked for, the core boundaries stay.
SetPolicy(p) ==
    /\ policy' = Guarded(p)
    /\ UNCHANGED <<queue, log, gone, run>>

Approve(q) ==
    /\ queue[q].status = "pending"
    /\ queue' = [queue EXCEPT ![q].status = "approved"]
    /\ run' = [r \in Runs |->
                 IF At(r, "begin") THEN run[r]
                 ELSE [run[r] EXCEPT !.approved = @ \cup {q}]]
    /\ UNCHANGED <<policy, log, gone>>

\* A pending request is denied or expires; an approval runs out.
Lapse(q) ==
    /\ queue[q] # NotAsked
    /\ queue' = [queue EXCEPT ![q] = NotAsked]
    /\ UNCHANGED <<policy, log, gone, run>>

RunStep(r) ==
    \/ \E cmd \in Commands : Begin(r, cmd)
    \/ Judge(r) \/ Log(r) \/ Queue(r) \/ Move(r) \/ NextAction(r) \/ Answer(r)
    \/ LaunchGateway(r) \/ NoConfinement(r) \/ LaunchConfined(r) \/ LaunchBare(r)
    \/ LogLaunch(r)
    \/ Stop(r)

Next ==
    \/ \E r \in Runs : RunStep(r)
    \/ \E p \in SomePolicies : SetPolicy(p)
    \/ \E q \in Requests : Approve(q) \/ Lapse(q)

Spec == Init /\ [][Next]_vars

-----------------------------------------------------------------------------
Ops == {"begin", "judge", "log", "queue", "move", "next", "answer", "launch", "bare",
        "logUnavailable", "logDegraded", "logEnd"}

TypeOK ==
    /\ policy \in SomePolicies
    /\ \A q \in Requests : queue[q].status \in {"none", "pending", "approved"}
    /\ gone \subseteq Paths
    /\ \A r \in Runs :
          /\ Range(run[r].ops) \subseteq Ops
          /\ run[r].cache \in [Paths -> Zones \cup {Unknown}]
          /\ run[r].approved \subseteq Requests
          /\ Range(run[r].ran) \subseteq {"confined", "bare", "host"}

\* What the policy of the run says of an action by itself.
OnItsOwn(r, req) == Evaluate(run[r].policy, EmptyCache, req).verdict

\* "Pre-execution policy checks and approval handling" (runner/mod.rs:11): no
\* command runs unless the log has each of its actions as allowed, and each is
\* allowed by the policy, or is one the policy asks about and was approved
\* while the run was there to see it.  In particular the zone cache, which the
\* actions of a command share and which depends on their order, never turns a
\* denial into something that runs; nor does an approval of another action.
LaunchIsCleared ==
    \A r \in Runs : run[r].ran # <<>> =>
        \A req \in Range(Actions(run[r].cmd)) :
            /\ [run |-> r, label |-> "decision", req |-> req, verdict |-> "Allow"] \in log
            /\ \/ OnItsOwn(r, req) = "Allow"
               \/ OnItsOwn(r, req) = "RequireApproval" /\ req \in run[r].approved

\* "Degraded mode ... is configurable and logged" (runner/mod.rs:29-32): only the
\* managed gateway runs on the host as a matter of course; anything else runs
\* without confinement only if so configured, is no strict runner, and two
\* receipts say so before it does (671-683, 737-785).
UnconfinedIsDeclared ==
    \A r \in Runs :
        /\ "host" \in Range(run[r].ran) => run[r].cmd.form = "gateway"
        /\ "bare" \in Range(run[r].ran) =>
              /\ Degraded /\ run[r].cmd.form = "plain"
              /\ {"unavailable", "degraded"} \subseteq {e.label : e \in {f \in log : f.run = r}}

\* "Every decision appends a receipt" (runner_tool_preflight_common.rs:6): what
\* an operator may be asked to approve is in the log as having been asked for,
\* wherever runs stop.  Only the command itself is queued before it is logged
\* (runner/mod.rs:152-169).
QueuedIsReceipted ==
    \A q \in Requests :
        queue[q] # NotAsked /\ q.stage # "exec" =>
            \E entry \in log : entry.req = q /\ entry.verdict = "RequireApproval"

\* Tool calls on operator internals and on the delivery directory are denied
\* whatever the policy and the approvals say, and reading is never held up for
\* an approval (runner_tool_preflight_common.rs:106-166).
ForcedStaysDenied ==
    \A r \in Runs :
        run[r].answer # "none" /\ run[r].cmd.form = "tool" =>
            LET req == Current(r)
            IN  /\ run[r].answer = "Allow" =>
                      /\ ~Has(req, "internal")
                      /\ ~(req.kind \in FileKinds /\ Is(req.path, "delivery"))
                      /\ OnItsOwn(r, req) \in {"Allow", "RequireApproval"}
                /\ Has(req, "read") => run[r].answer # "RequireApproval"
=============================================================================
