# A verification of Agent Ruler

Agent Ruler runs AI agents in confinement, lets a deterministic policy decide
what crosses a boundary, asks an operator when the policy says so, and keeps a
receipt of it.  The modules here model the parts of it where many processes
share a few files: the approval queue, the callers around it, the staged
transfers that wait for it, the copy that finally crosses the boundary, and the
sessions that tie Telegram threads to agents; the policy engine and the run
pipeline, which decide what an agent may do and then do it; the processes that
are left running, the runtime directory and the runners' homes that commands
set up and take apart; and the Telegram bridge, through which an operator talks
to agents and decides.  Everything is translated from the Rust sources under
`src/src/` and, for the bridge, from
`src/bridge/channels/telegram/channel_bridge.py`; paths below are relative to
`src/src/` unless they start with `src/`.

There is no database and, but for the lock of a bot token, no lock between
processes.  Every store reads a whole file, computes new contents, and writes
them back, some to a temporary file that is renamed, some in place.  The
processes are the Control Panel (a multi-threaded HTTP server), the CLI
(`agent-ruler setup`, `run`, `stop`, `approve`, `export`, `deliver`, `wait`),
the tool preflight calls of agents, the managed gateway and browser sessions,
and the bridges.  This is where the hard behaviours come from.

## Inventory

| Component | State | Operations | Interacts with | What makes it correct |
|---|---|---|---|---|
| Approval queue, `approvals.rs`, `helpers/approvals/utils.rs` | `approvals.json`: records pending, approved, denied, expired; deadline | create_pending, set_status, set_status_idempotent, get, list_pending, expire_now, has_active_approval_for | asked by runner, transfer, preflight; decided by UI, CLI, bridge | one pending request per action; decisions final and in time; an approval allows its own scope and no longer than it runs |
| Approval desk, `ui.rs`, `agent_ruler.rs`, `helpers/approvals/effects.rs` | local variables of each call; receipts; what effects did | approve, deny, approve-all, deny-all, `agent-ruler approve` | queue, audit log, transfers, elevation | an approval is carried out once and audited; a denial is not carried out |
| Waiting, `cli/wait.rs`, `ui.rs` | start of the wait | wait for an id with a timeout | queue, clock | ends, and its answer is true |
| Staged transfer, `cli/transfer.rs`, `helpers/ui/transfer_api.rs`, `staged_exports.rs` | `staged-exports.json`; files in three zones | export (stage), deliver, import; effects | queue, policy, export gate, audit log | records follow copies; copies follow approvals; a move loses nothing |
| Export gate, `export_gate.rs` | none | build_export_plan, commit_export | transfer | a stopped and repeated copy ends right; the preview tells the truth |
| Audit log, `receipts.rs` | `receipts.jsonl` | append, read | all | what happened is in it |
| Session store, `sessions.rs` | `sessions.json` | touch, bind, resolve thread, list | preflight, UI, bridge | a thread and a key have one session, and keep it |
| Elevation helper, `helpers/approvals/effects.rs` | nonces file | verify and spend a nonce, install packages | desk | a nonce is used once |
| Policy engine, `policy/` | rules; zone cache | evaluate, classify_zone | all that acts | deterministic; the cache changes no decision; the strongest zone wins; risk never helps |
| Policy profiles and toggles, `helpers/policy/profiles.rs`, `ui.rs` | `policy.yaml` | apply a profile, change settings | all that loads the policy | core boundaries stay |
| Run pipeline and preflight, `runner/`, `helpers/ui/runner_tool_preflight_common.rs` | none of its own | preflights, launch, tool preflight | policy, queue, audit log, confinement | nothing runs before all of it is allowed; nothing unconfined unless declared |
| Confinement, `runner/confinement/` | none | build a bubblewrap command line | kernel | the mounts match the zones |
| Managed processes, `agent_ruler.rs`, `helpers/commands/ui.rs` | pid records; processes of the system | run, stop, restart, `ui`, `stop ui` | gateway, browser sessions, bridges, Control Panel | a stop that says so has stopped; what was started can be stopped; agents run with their tool calls mediated; every command ends |
| Runtime layout and configuration, `config.rs`, `cli/setup.rs` | directories, `config.yaml`, `policy.yaml` | init, load, update, reset, purge | all | settings stored are kept |
| Runner adapters, `runners/` | a runner's managed home: configuration, wiring, credentials | provision, import, wire, validate, guard, seed, repair, reconcile, remove | layout, run | a runner is launched with Agent Ruler's tools wired as the settings say |
| Bridge supervision, `helpers/ui/runtime_api.rs` | pid files of bridges; the processes; the lock of a token | sync: stop, force, start, settle | layout, setup, run | the selected runner's bridge and no other; strangers left alone |
| Telegram bridge, `src/bridge/channels/telegram/channel_bridge.py` | what was seen and announced, short ids, last update, conversations; a queue per thread; a state file | poll approvals, announce, poll updates, decide, route, run, save | Telegram, desk over HTTP, sessions, runners | every update once; every waiting approval announced; one conversation per thread |
| OpenClaw channel bridge, bridge files, agent-side tools, introspection, doctor/update, front end | generated files | generate, render, call the API | | outside: formats and I/O, or a second copy of a protocol modelled already |

The hard behaviours are interleavings of whole-file reads and writes, process
ends between a write and what should follow it, approvals that race their
deadline or each other, repeated decisions, and effects that fail in the middle
of a batch.  PROJECT.json lists them with their lines.

## The modules

| Module | Models |
|---|---|
| `ApprovalRecords` | the record, and the pure part of `ApprovalStore` |
| `ApprovalLifecycle` | the promise: pending once, decided before the deadline or expired after it, final |
| `ApprovalStore` | each operation as one step; implements `ApprovalLifecycle` |
| `ApprovalWait` | waiting agents on top of `ApprovalStore`, with fairness |
| `ApprovalDesk` | the same operations at their real steps, with what callers do after them |
| `TransferFlow` | one artifact staged and delivered, its records, approvals and receipts |
| `ExportGate` | preview and copy of a tree |
| `PolicyRules` | every rule of the policy engine as an operator, without state |
| `PolicyEngine` | an engine with its zone cache, request after request |
| `RunPipeline` | runs of commands and tool calls, from the first preflight to the launch |
| `SessionStore` | `sessions.json` and its one temp file, as files with open handles |
| `RunnerCommands` | what a command line is: whose, a start, a stop, a restart; what it needs first |
| `ProcessTable` | processes, zombies, parents, pids that are given away again |
| `ManagedServices` | pid records; stopping a service; the bridge processes of `run` |
| `ServiceLaunch` | starting the gateway, browser sessions and the Control Panel, and stopping the latter |
| `RunCommand` | `agent-ruler run` and `stop` as processes, with the services around them; composes the four above |
| `RuntimeFiles` | the runtime directory: layout, load, settings, policy, resets, purge |
| `RunnerHome` | a runner's home and its association with the runtime, on top of `RuntimeFiles` |
| `RunnerBridge` | keeping bridge processes in step with the runner, on top of `RuntimeFiles` |
| `RuntimeSetup` | a runtime from `init` to `purge`; composes the three above |
| `TelegramChannel` | the Telegram bridge: main thread, workers, state file, Telegram and Agent Ruler around it |
| `ApprovalRecordsProofs`, `ApprovalStoreProofs`, `ApprovalDeskProofs`, `RuntimeProofs` (of `RuntimeSetup`), `TransferProofs` (of `TransferFlow` and `ExportGate`), `RunPipelineProofs` (of `PolicyEngine`, `RunPipeline` and `SessionStore`), `RunCommandProofs`, `TelegramChannelProofs` | theorems |
| `MC*` | constants and symmetry for TLC |

Definitions marked *Fault* are plausible wrong versions of the definition that
follows them; no specification uses them.  They serve to show that a property
would notice the bug.

### From code to state and actions

**ApprovalStore.**  `file` is `approvals.json` as a function from uuid to
record; `Loaded` is `list_all` and `expire_stale`, with which every operation
begins.  An action request has a `key` (what `create_pending` compares) and a
`scope` (the hash `has_active_approval_for` compares, which includes the
metadata): the two differ in the code and the difference matters.
`RefuseResolution` leaves `file` alone since the code returns before `persist`;
`ResolveUnknown` does not.  An operation reads the clock once to expire what is
over and again to date what it writes (`approvals.rs:278`, then `188` or `221`),
and `Later` lets it go on between the two.  `asked`, `grants` and `reply` are
history.

**ApprovalDesk.**  A caller's operation is a read (`Ask`, `Read`, `All`,
`Resolve`), then `Write` if the list changed, then `Tell`, `Receipt`, `Effect`,
`Collect`, `Finish` in the order of the handler.  One by one (`op = "each"`)
the receipt precedes the effect; in bulk the receipt is one for all that
succeeded.  The clock may go on between the reading that expires and the one that
dates a decision, and between that and the write.  The variable `mode` fixes for a behaviour whether calls overlap, may
crash, and whether effects may fail, so that one run covers several
circumstances and each property says under which of them it holds.
`approvals.rs` gives every temp file a fresh name, so a write is one step here.

**TransferFlow.**  `work`, `zone` and `dest` are the artifact's content in the
workspace, the shared zone and the destination.  A request fixes the sequence
of steps that remain, `task[w].todo`, as the handler does by its branch:
`CopySteps` is copy, (remove,) record, receipt.  `Queue` is the branch that
requires approval, `Approve` the desk's approval followed by the effect.  The
queue is reduced to the lifecycle: time is `Lapse`.

**ExportGate.**  A tree maps paths to files of a length and a body, since
`build_export_plan` compares lengths.  `Stop` ends a commit anywhere, perhaps
inside a file.  `shown` keeps the summary with the two trees it was made of, and
whether the source is still as it was then; only the summary is the program's.

**SessionStore.**  `Touch`, `Bind` and `Resolve` read and compute; `Open`,
`Write` and `Rename` are `fs::write` and `fs::rename` in `persist`.  All callers
use `sessions.json.tmp`'s one name, so a caller may truncate a file another is
about to rename, or go on writing to a file after it was renamed to
`sessions.json`; `handle[c]` says what its open file has become.  Text that does
not parse reads as the empty list, as in `list`.  A call that is refused
changes nothing and has no action.

**PolicyRules.**  A request is its kind, paths, host and the metadata flags some
rule reads.  A path is a name with `Marks`: the pattern lists it is on and the
other facts the code asks of it (owner, within the workspace, temporary, named
`agent-ruler`).  `canonicalize` is applied before matching, so two spellings of
a path are one path here.  A policy is the record of dispositions, switches and
host lists.  Each `evaluate_*` is an operator with the early returns in their
order; `Decide` is `evaluate` without the cache, `Evaluate` with it.

**PolicyEngine.**  `cache` is `zone_cache`: by path, not by kind, although
`classify_uncached` looks at the kind for a path on no list that root owns.
`NewEngine` is what every CLI call and every HTTP request does; the status feed
(`helpers/approvals/status.rs:74`) classifies many paths with one engine.
`told` and `ever` are history.

**RunPipeline.**  A run is a process (`agent-ruler run`) or a call of the tool
preflight.  It holds what `run_confined` holds: the policy as it was read, an
engine's cache, and the actions still to judge.  `ops` is what remains to do for
the current action, in the order of the code: `Follows` has the receipt before
the approval for preflights and after it for the command itself.  `Judge` is one
step: evaluation, and has_active_approval_for at that instant; approvals and
policy may change before the next.  A launch ends well, or with what
`has_confinement_env_error` takes for an error of the confinement, whoever wrote
it.  `Stop` is any `?` on the way and any kill.  `queue` is the approval queue
reduced to a status by scope; that of the desk and its effects is modelled
elsewhere.

**RunCommand.**  An invocation `cli[c]` has a program counter and the local
variables of `main`: the pid it read, the child it spawned, the records it still
has to stop.  `StopRead`, `Kill`, `Forget` are the three moments of every stop
between which pids may be inherited; `GatewayCheck`, `Detect`, `Launch`,
`Capture`, `Confirm`, `RecordGateway` those of starting the gateway.  A poll is
one step with each of its outcomes, the expired deadline among them.
`StopHostGateway` asks the host's own gateway to stop before the launch, and may end
any process that is not managed here.  A record
may be half written by a command that dies.  Signals may be ignored.  `Ui*` is
`ensure_*_ready` and `stop ui` with its scan of `/proc`.  `named` and `launched`
are history.  `Hurried` lets steps that touch nothing shared happen at once.
In `RunnerCommands` a runner is known by the last part of its path where the code
takes `file_name`, and by its bare name where the code compares with it; `AgentActs`
is neither, but what the property takes for an agent at work.

**RuntimeSetup.**  A command or request is the list of the steps it still has to
take (`todo`); an error ends it.  It loads `config.yaml` once and works on its
copy, as the code does, and writes the copy back: `fs::write` truncates, so the
file is torn between the two halves of a write.  `RunnerHome` has a step for
each write a runner adapter makes: `Provision`, `Import`, `Bootstrap`,
`WriteRunnerConfig`, `RepairAuth`, `Validate`; `Reconcile` and `Decide` are what
a missing runner leads to; `Guard` and `Seed` are what every `run` does first.
A home is abstracted to whether its configuration parses, whether OpenClaw is
pinned to its workspace, whose credentials it has, and what the wiring says
(`Wiring`).  What an import finds on the host is a configuration, one without what
the runner needs ("bare"), one that does not parse, or none.  A purge that is told
where the runtime is (`purge_at`) does not load it.
`RunnerBridge` follows `sync_selected_runner_telegram_bridges` step
by step; a bridge is a process with a token, and a token has one poller.  To end a
runner's bridges takes many steps (`ending`): the pids are collected while their
command lines are looked at; then each is sent TERM, and KILL if 2 s later a process,
whichever, has that pid; the pid file goes in any case, and a failure to end one is
reported after the others were seen to.  A process that gets a pid which a command
has collected already is a `latecomer`.  A bridge that ended at once is started again
if the last lines of its log say that its token is taken, even where that is an old
complaint (`tree.log`); the owner named there, if any, and every bridge of the runtime
are ended first.
`owed` is history: the settings stored last.

**TelegramChannel.**  The main thread's `tick` is `Prune`, the feed of
approvals (`Register`, `Announce`), `Poll`, the batch (`Take`, then a button or a
message), and `MainSaves`.  A worker is `Work`, `Run`, `Tell`, `WorkerSaves`,
`Reply`, and ends with `TimeOut`, which it notices before it is unregistered:
`Enqueue` and `Put` are apart for that reason.  Saving has its three system
calls, `Open`, `Write`, `Rename`, with files that threads share by name.
Telegram is a count of the updates that came and of those it has forgotten; a
poll forgets what is below its offset.  Agent Ruler hands over the newest
`FeedLimit` of the approvals that wait, newest first.  A runner is given a
conversation or begins one; one that fails (`RunFails`) may have begun one, which the
bridge then does not learn of.  `hist` has every run of every life, and the
conversations that were lost: by such a failure, or since the bridge ended before
Agent Ruler was told (`Untold`).  A message of a sender not allowed is answered and
binds nothing (`Refuse`).  Each call may fail.

## The runs

All runs are exhaustive for their constants.  Deadlock is checked in `store`,
`policy` and `export`, where some operation is always possible.  It is not in
the others: there each caller makes one call, or a bound ends the calls, and
the models stop where the system would go on.  Several runs have *scenes* or
*modes*: the initial state chooses the circumstances of a behaviour, so that
one run covers several small worlds, each without the interference that makes
the others large.

| Run | Question | Bounds |
|---|---|---|
| `store` | do the operations one at a time keep their promises and implement the lifecycle, and does every wait end with a true answer? | 2 records, 2 actions of one key that differ in scope, time to live 0 or 2, 1 waiting agent with timeout 1 |
| `desk` | callers take turns, may crash, effects may fail: one effect, one answer in the log, denied means blocked, no request lost, decisions final; overlapping: what still holds | 3 callers in turns or 2 that overlap, 2 requests, 3 actions of which 2 share a key, clock to 2 |
| `desk_denied` | overlapping: can a denied request have been carried out? **Yes** | 2 callers |
| `transfer` | records, approvals, receipts and moves | 2 workers, 2 stage records, 2 approvals, 2 contents, 4 calls |
| `export` | stopped and repeated commits: is what the operator was shown what is done? | 2 paths, 3 files, two of one length |
| `sessions` | bindings of threads and keys, with overlap or with crashes | 2 callers, 3 ids, 2 runners, 2 keys, 2 threads, 4 calls |
| `policy` | what a history of requests may not change, and what no request may achieve | 3 paths (two overlaps of lists, one path on none), 2 hosts, 76 requests of all kinds, 63 policies |
| `pipeline` | does only what is cleared run, and unconfined only what is declared? | 2 runs, 16 commands and tool calls, 3 policies, any number of edits, approvals and lapses |
| `services` | do stops tell the truth, can what was started be stopped, are agents mediated, does every command end? | 2 invocations, 5 pids, 5 processes ever, 8 scenes: overlapping ones, inherited pids, processes and commands that die, commands that only ask |
| `setup` | are settings kept, launches wired, setups valid, bridges in step, strangers left alone? | up to 5 commands, 2 at a time, 3 runners, 3 pids of bridges, 11 scenes |
| `kept_wiring` | does a reset that keeps the configuration keep the runner's wiring? **No** | 1 scene of `setup` |
| `channel` | updates once, conversations in one piece, waiting approvals announced | 2 threads, 2 workers, 2 approvals of which the feed shows 1, 3 updates, 2 lives, 7 scenes |

Why the bounds are enough.  A lost update needs two callers and one record; a
batch needs two requests, one of which goes another way than the other; the
third caller in turns is the one that repeats a decision after a crash.
Deduplication needs two actions of one key and one of another.  The deadline
has a before, an at and an after with clock 0 to 2.  A shared approval needs two
stage records.  In `transfer` four calls are: stage, ask to deliver, approve,
and one that interferes.  In `sessions` two calls make two sessions and two more
collide.  In `policy` the rules see one request at a time and the cache one
path at a time: a path on two lists, one on none and one in the workspace are
the kinds of path there are, and one host on a list and one on none those of
host.  In `pipeline` a run that asks and one that is cleared by the approval are
the two it takes; a command that needs two approvals one after the other would
need a third run.  In `services` a start has a launcher, a gateway and a bridge,
and a pid must be free for a stranger to inherit: five pids are those and one
more.  In `setup` a mistake takes a command that leaves something behind, one
that goes wrong for it, and one to notice; a bridge has a predecessor, a
successor and a stranger.  In `channel` a conversation takes two messages of one
thread, an approval a message that binds the chat, an announcement and a button;
one restart shows what a restart forgets; and two approvals that wait are one more
than a feed of one shows.  Theorems, where there are any, remove
the bounds.

Names of bounds: `MaxTime`, `LastStart`, `MaxCalls`, `MaxBorn`, `MaxWait` (the
largest wait setting), and in scenes `births`, `active`, `commands`, `lives`,
`script`.  (`FeedLimit` is the code's own limit, 200 there.)  Ids are finite sets of
model values; a call that needs a fresh uuid when none is left cannot happen.

Symmetry is used over interchangeable callers, ids and contents, never in the
run with liveness.

### What the statements that fail show

* **DeniedIsBlocked** (`desk_denied`).  It holds when callers take turns
  (DeniedInTurn).  Overlapping, a denial that read the record while it was
  pending replaces the approval whose effect has run.
* **KeptRunnerIsWired** (`kept_wiring`).  A reset that keeps the configuration
  deletes the runtime directory, and with it the runner's managed home, and
  restores `config.yaml`, which still names the runner.  OpenClaw's guard finds
  no `openclaw.json` and returns; the runner is launched with nothing wired
  until it is set up again.  (The guards of the other two write the file.)

Others met on the way, not kept as runs.

*Approvals and policy.*  An approval may be dated at or after its deadline, since the
clock is read again after expiry was decided; its effect runs all the same
(`approvals.rs:278`, `188`, `221`).  `create_pending` ignores metadata when it looks for a
request to reuse (`approvals.rs:96`), `has_active_approval_for` does not: an
agent that asks for a move and is handed the pending request for a copy is not
allowed to move when that is approved.  The mass-delete guard comes before the
zone (`policy/evaluation.rs:58`), so a deletion with a wildcard in a
system-critical directory, which the zone would have denied, is put to the
operator.  Only the effect of an approval updates
a staged record, so one whose approval was denied or expired awaits it for ever;
the preview compares lengths, so a file changed at equal length is not shown,
and counts files as removed although a commit only adds; two first messages of a
Telegram thread handled at once are answered with two sessions, of which the
later rename drops one; `classify_zone` is documented not to depend on the kind
of the request (`policy/mod.rs:100`) and does; the first-listed principle that
unknown paths are denied or asked about (`policy/mod.rs:23`) is not what the
default policy does with user data; a command that fails with the text of a
confinement error is run a second time, unconfined, where that is configured; a
request whose id was handed out may
vanish from `approvals.json` when another operation overwrites it (which is why
RequestSurvives is checked in turns only); approve-all leaves a request whose
effect failed approved and out of its receipt; a staged record may stay Staged
after another record of the same path was delivered by a move; a session key of
more than 200 characters is never found again, since `list` cuts the stored key
and lookups do not.

*Runtime and runners.*  A crash inside a keep-config reset leaves the default
settings (`config.rs:726`), as does overlapping it.  Setup saves a snapshot of the
configuration loaded before its prompts (`cli/setup.rs:173`, `206`) and so undoes
settings changed meanwhile.  `run` goes on after the operator chose to delete the
data of a missing runner (`agent_ruler.rs:377`).  A provider-auth repair that is
interrupted after its first write is never completed (`runners/openclaw.rs:881`).
`runner remove` does not synchronise bridges, so that the removed runner's goes on.
A refused token answers a settings update with an error after the other settings
are stored.  A bridge that runs keeps the old address of the Control Panel after
`ui_bind` changes.  A sync whose stop failed has removed the pid file, and a later
one that forces nothing starts a second bridge beside the first.  A process that gets
the pid of a bridge between the moment a stop collects it and the signals, which may be
seconds later, is signalled, TERM, and KILL since it exists (`runtime_api.rs:250-312`).  A bridge
that ends for some other reason is taken for one whose token is in use if an earlier
complaint is still among the last 20 lines of its log (`runtime_api.rs:405-422`), and
the other bridges of the runtime are ended for it.

*Processes.*  A runner called by a path is that runner to `runners/mod.rs:223-236`,
which takes the last part of the path, but not to `agent_ruler.rs:2679` and its like,
which compare with the bare name: `/usr/bin/claude -p` waits for a Control Panel that
answers, not for one that is checked to take its tool calls.  A command one of whose
words, a prompt of one word included, is `help` or `version` waits for none.  The stop of a gateway or browser session signals whatever process
has the recorded pid; only the Control Panel and the bridges are asked what they
are.  Two starts of the gateway that overlap start two, one of them unrecorded
(hence "taking turns" in LaunchedIsRecorded).  Asking the gateway for help
(`openclaw gateway --help`) starts it.

*The Telegram bridge.*  A runner that begins a conversation and exits with an error is
not asked for its session: that is raised before the answer is parsed
(`channel_bridge.py:1752`, `1780`), and the next message of the thread begins another.
What was learned and could not be told to Agent Ruler is lost with the process, and
begun again after a restart (`channel_bridge.py:2071-2075`).  Of the approvals that wait
the bridge asks for the newest 200 (`channel_bridge.py:34`, `194`, `ui.rs:645-654`):
older ones are not announced until fewer wait.  A message put into the queue of a worker that timed out an
instant before waits for ever (1365-1408).  A rename that fails because another
thread took the temporary file ends the worker with the tasks in its queue.  A
worker's older snapshot may replace a newer file, and an orderly stop while a
worker saves may leave an empty one, which is why HandledOnce excuses stops that
were meddled with.  Queued messages are lost with the process.  The fallback for
short ids (`AR%04d`) may name two approvals.

## Fairness

Three specifications state it.

* `ApprovalWait`: `Poll` is weakly fair for each waiting agent, whose loop in the
  handler and the CLI sleeps at most 500 ms (or `--poll-ms`) and has no other
  exit; and the clock is.  No operator and no other caller is fair: `WaitEnds`
  holds though nobody ever answers.
* `RunCommand`: an invocation's own steps are weakly fair, since each of its polls
  has a deadline in the code; the command it runs in the foreground is not, nor
  is any other process.  CommandEnds leaves out a start of an OpenCode session
  that found a stranger on its port after having made sure there was none:
  the loop then goes round without looking at its deadline
  (`agent_ruler.rs:3806`), until the stranger leaves the port.  It does the same
  while the launcher itself listens there (`agent_ruler.rs:3814-3819`), which the
  model does not have: the launcher is `agent-ruler`, which opens no port.
* `TelegramChannel`: the main thread's steps are weakly fair; fetching the
  approvals and sending an announcement are strongly fair, for both are tried
  again with every tick, and a call that is made for ever succeeds sooner or
  later.  Workers, Telegram, and people are not fair.

All other properties are safety.

## Proofs

Everything is proved from the named assumptions on constants only:
`IdsAssumption` (some id exists), `ActionsAssumption` (an action is its key and
scope), `TTLsAssumption` (times to live are naturals), `MaxTimeAssumption`,
`WaitAssumption` (the clock's bound is far enough for a wait),
`FlowAssumption`, `ContentsAssumption` (having no file is no content),
`DeskAssumption`, `MarksAssumption` and `EngineAssumption` (the types of marks,
policies and requests), `PathsAssumption` (a tree has finitely many files),
`FilesAssumption` (no file is empty), `PipelineAssumption` (the types of commands;
a tool call is one action; the guarded form of a policy is a policy; each preflight
finds actions of its own stage and kinds),
`SessionAssumption` (keys are cut to keys; no key or thread is
the word that stands for having none), `RunCommand`'s `PidAssumption` and
`SceneAssumption` (commands are non-empty sequences of words; at first a service runs
once at most; invocations are numbered apart from pids), the runtime's `PidAssumption`
(pids of bridges are positive numbers), `WaitBoundAssumption` (the longest approval
wait is a natural) and `SceneAssumption` (what is there at first has its types, files
are in their directories, and a bridge that runs is of a runner that has one),
`WorkersAssumption`, `ScenesAssumption` and `FeedLimitAssumption`
(workers are finitely many positive numbers, scripts are sequences of updates, the feed
has room for one approval or more).

*The approval queue.*  OnePendingPerKey is not inductive by itself: a new record
is added because no *pending* record of its key was found after expiry, so one
must know that expiry never makes a record pending, that dates are not in the
future, and that pending records are undecided.  `FileInv(f, now)`
(`ApprovalRecordsProofs`) says this of a list at a time, with a lemma for each
pure operation, and `FileInvLater` that time does not spoil it.  Since the clock is read
twice, that a decision is dated before its deadline is not among these, and is not
true.  Punctuality is of the step: a request is decided only by a call that read the
clock before its deadline (DecidedInTime), and its dates are in order (DatesInOrder).
`ApprovalStoreProofs` concludes TypeCorrect, Deduplication, Punctuality, and
Refinement: each operation is an `Operate` step of `ApprovalLifecycle` under the
mapping of statuses and deadlines, or a stutter.  It also has NoStaleAnswerEver
and GrantsAlwaysExact, from `AnswerInv`: the grants operators gave are exactly
those the file stands for (`Given`), which no operation forgets or prolongs, and
the record the last answer named keeps its deadline.  AnswersAlwaysHold is about
any number of agents that wait: `WaitInv` carries each answer (`AnswerFits`)
through every operation, since a record that exists keeps its deadline, one that
is settled stays, and one that is settled later is dated later (`FileStep`).

*Under races.*  `ApprovalDeskProofs` has DeduplicationUnderRaces and
PunctualityUnderRaces, the same two properties for any number of callers that read, wait and write as they like.  The point is that the
invariant holds of every `view[c]` as well as of the file, and still does when
it is written at a later time.  PunctualityUnderRaces is of the moment a caller reads
and decides, for its write may come whenever it likes.  `TargetsInv` says that whoever resolves has been
given a decision.

*In turns.*  The same module has DecisionsAreFinal, AnsweredOnceInTurn,
DeniedStaysBlocked and HandedOutRequestsSurvive for callers that take turns and
may die.  `InTurn` says why taking turns is enough: one caller at most is in
flight, the list it has yet to write `Keeps` every record settled in the file, and
before it reaches its receipt and its effect the request in hand was pending on
file, so neither can have happened before.  `OthersRest` reduces a step to the
caller that takes it, and `OperationInTurn` and `PlainStepInTurn` the thirteen
actions to two kinds of step.  Of these statements nothing is said for callers that
overlap; `desk_denied` shows that one of them is then false.

*Overlapping, nobody dying.*  EffectsAlwaysAudited and ApprovalsAlwaysApplied hold
though callers overwrite each other's lists.  `CarryInv` follows the debts: for
every effect there is an answer in the log or a caller that `WillLog` it, and for
every record that is approved in the file *or in any caller's list*, for it may be
written later, an effect or a caller that `WillApply` it.  A step moves the debts of
one caller (`PaysLog`), and a finished desk has none.

*Sessions.*  `RunPipelineProofs` has SessionsTypeCorrect, ThreadUniqueness, KeyUniqueness
and, of both, BindingsAreUnique for any number of overlapping, dying handlers.  `ListInv` holds of both files, whichever
name they are under, and of every list in memory; `ReplaceOne` is the one lemma
about changing a list, and a torn text satisfies ListInv because it reads as no
session.  The latter two have the hypothesis `ShortKeys`.  AnswersAlwaysStand is
about handlers in turns: `InTurn` says that the list in hand honours what was handed out,
and that the temporary file is the handler's own until it is renamed.

*The policy engine.*  `RunPipelineProofs` has EngineTypeCorrect (no request falls
through the rules), StrongestZoneAlways, Repeats and ClosedNetworkAlways for all
policies, marks and requests.  Repeatable is not inductive: why should the next
decision be that of before?  `EngineInv` says that every cached zone is the
classification for *some* kind, that a path that was decided on is cached, and
that each decision told is the one the cache still leads to; `RememberKeeps` is
the lemma that the cache only grows.  What is proved of decisions rests on
lemmas about the rules alone (DecideVerdict, NetworkVerdict, HostAllowedMeans),
and so does RiskNeverHelpsAlways: one lemma for each of the four parts of the
rules (FilesystemRisk, ExecutionRisk, NetworkRisk, PersistenceRisk), under every
policy and with every zone the cache may hold.

*Transfers.*  `TransferProofs` has RecordsAlwaysFollow, ApprovalsAlwaysCover,
CrossingsAlwaysReceipted and MovesKeepContent for any workers, requests,
approvals and contents, whoever overlaps or dies.  What a worker has yet to do is
the end of one of its plans (`Todos`), and `PlanOK` says which record that end will
write: only where a copy comes first, or came, does it claim one.  A worker past
its copy has its crossing in the history and, if on an approval, an approval that
backs it, which no later decision takes away (`Backed`); nobody dying, it owes the
receipt (`Owed`); and taking turns, it removes what the destination holds
(`Alone`).

*The export gate.*  In the same module.  What HalfwayIsEither says of a path is too little to carry
CommitOverlays through a second commit.  `PathOK` separates the cases: what the
source has not is as it was before the first commit; what it has is as it was,
copied, or cut off; and it is copied once a running commit has been there.
PreviewIsDone is of the end of a commit: what was counted when the operator was shown a
summary is what the destination has gained and changed by then, against the destination
shown and not the one the commit found, which an earlier stop may have left cut off.
`ShownOK` is what holds in between: while the source is as it was shown, the summary is
of that source, and where the source has nothing the destination is as it was shown.
With the invariant of CommitOverlays the sets that were counted are then equal.

*The run pipeline.*  `RunPipelineProofs` has PipelineTypes,
UnconfinedAlwaysDeclared, QueuedAlwaysReceipted and ForcedAlwaysDenied.  What a
run still has to do, `ops`, is its program counter: `Shapes` lists every value
it can have, and `JudgingOK`, `LaunchOK` and `ToolOK` say what is known at each:
a run about to queue has logged that it asks, unless it is the command itself; a
run about to launch without confinement has both receipts; a tool call was
judged by an engine that had judged nothing before.  `LogGrows` and
`OneRunSteps` reduce every action to the run that takes it: receipts are never
taken away, so what the others rely on stays.

LaunchAlwaysCleared, by `ClearInv`: a run is at a place in its command
(`OnCourse`); every action behind it is in the log as allowed and was allowed by
itself or approved (`Cleared`); and every zone in its cache was given to one of
those (`Cached`).  Why a zone of the cache allows no more than the action's own:
they differ only for a path that is in no list and belongs to root, which is
system-critical to what changes it and shared to what runs it (`TwoZones`); and as
a command is judged, what changes files or persists comes before what runs
(`Ordered`, `StageKinds`, from which preflight finds which kinds of actions).  So
the cache can only make a run of such a path be judged as system-critical, and
`FirmPolicies` is assumed: no policy is milder with system-critical paths than with
shared ones.  Every policy the Control Panel sets is firm (`GuardedFirm`), so the
assumption is about those written by hand.  It is needed: with a policy that allows
system-critical paths and denies shared ones TLC finds a script that is made
persistent and then run by one command, which alone may not be run.

*The Telegram bridge.*  `TelegramChannelProofs` has EveryUpdateHandledOnce for any
scripts, threads, workers and lives.  That no update is forgotten untaken needs
that whatever remembers a number, memory, file, temporary file, a save under
way, is right about it (`Trusted`).  That none is taken twice without excuse
needs the other side: what is later than the process remembers was taken only
in lives that ended without saving it (`Counted`), which at an orderly stop rests
on the last save being the main thread's alone (`OwnSave`), and at a start on
nobody being at the file (`Dormant`).

OneConversationAlways, by `ConvInv`: a worker that lives is the one its thread is
registered with (`Registered`), so no thread has two; what is queued or in hand is of
that thread, in order, and earlier than what the main thread has yet to hand out
(`Handed`); and whichever key is on its way (`InPlay`: Agent Ruler's, a queued
message's, the one in hand) is that of the conversation the thread is in (`Conv`: what
the bridge has learned, or else what Agent Ruler was told), or none is on its way and the
bridge's memory supplies it.  `OneRun` is what is carried over failures and restarts: each
run of a thread, in whichever life, was of that conversation or of one that is lost, and
in one life the runs are in the order of their messages.

*Starting and stopping services.*  `RunCommandProofs` has StopAlwaysTrue,
LaunchedAlwaysRecorded, UiStopAlwaysComplete and LaunchAlwaysMediated for any number of
invocations, services, pids and processes.  Pids are given away again, so no fact about
a pid lasts.  What does is `Follows`: who lives after a step lived before it, or is
the one that just began; a set of processes that are gone stays gone.  Every step of an
invocation is of one of ten kinds (`Kind`, AdvanceKinds), by what it does to the
records and what it claims, and three invariants are carried through these and not
through the forty-odd actions.  `LocalOK` says what is known at each point of an
invocation: past the wait for an interface it has one, or its command needs none.
`Tally` says of the processes it named, or the interfaces that ran when it began, that
each is gone, is the one about to be signalled, or was missed and is known to be, in
which case no success is reported.  `LaunchInv`, for invocations in turns, says that a
reported gateway is the one on record, and gone wherever a stop or a start is about to
replace the record.

The words of a command are any words.  LaunchIsMediated does not ask the program which of
them need an interface: `AgentActs` says of each runner when an agent is at work, by
whatever path it is called, and the proof has to show that each such command is one the
program makes wait (ActsNeeds): for a Control Panel that takes tool calls
if the runner is called by its name, for one that answers if by a path.  The code puts
`--plugin-dir` among the words on the way, and the lemmas Injected and ExecutedFacts show
that the command that is then run needs no interface, and sets no agent to work, where the
one asked for did not.  The third part is about commands that
stop, restart or ask after a service (`Controls`), not those that ask for help.  What
the code calls control-only also includes these and `claude web`
(`agent_ruler.rs:2475`), but `openclaw gateway --help` is launched as a gateway
(`agent_ruler.rs:2253`, `2622`) and `claude web status` as a session with tools
(`agent_ruler.rs:2677`), and both start an interface and wait for it.  The test nearest to this
(`agent_ruler.rs:5107`, "help/version invocations should not auto-start UI") asks only one of
the functions that decide it, about `openclaw --help`.

*The runtime.*  `RuntimeProofs` has RuntimeTypes, SetupAlwaysValid, SettingsAlwaysKept,
BridgeAlwaysFollows, LaunchAlwaysWired and BystandersAlwaysLive for any number of
commands, bridges and settings, from any scene.  A command is the list of its steps,
and what a property needs to know of a command is which it has taken: that it has
loaded the configuration, stopped the other bridges, written the wiring.  No variable
says so, but what is left does.  Each step has a place (`Place`), and what is left is
in the order of the places (`InOrder`), a step that puts others before the rest
included (`Begets`).  A command has milestones it cannot avoid (`Due`), and
`CourseOK` says of each that it is left or that all that is left comes later: then it
has been passed.  This holds whoever overlaps or dies (`LocalOK`).  While nobody is
disturbed (`AloneOK`) a milestone that has been passed holds true: of the settings
on file and those in hand, which differ while a write is half done (`SettingsOK`); of
the home, which is the one in hand while the other half is due (`HomeOK`); of the
bridges that live, whose runner and token are those of the configuration in hand
(`BridgeOK`).  Without AloneOK none of these is true, as `kept_wiring` and the
surprises above show; without CourseOK none is inductive, since the launch at the end
of `run` rests on the guard ten steps earlier.

Every step has a lemma that its command goes on as it should (`Moved`); `MovedKeeps`
does the rest for all of them, FirstSteps for a command that begins, and the
processes that die or inherit a pid only ever leave bridges fewer (TakeTokenKeeps,
DiesKeeps, ArrivesKeeps).  Ending bridges takes many steps, and BystandersLive, which
needs none of AloneOK and is proved for commands that overlap and die, rests on what
stays true meanwhile (`StopInv`): none of the pids a command has collected was a
bystander's when it was collected, and whoever gets one of them later is a latecomer,
who may be signalled.  With nobody disturbed StopInv also says that a stop passes nobody
over (`Caught`): a bridge it is after is of a runner still to come, collected, or
missed, which is reported.  BridgeAlwaysFollows needs that.

The proof corrected the model in one place: a bootstrap of OpenClaw that fails after it
wrote a configuration has made the directory of the home as well.

Only model-checked: liveness (WaitEnds, CommandEnds, WaitersAreAnnounced), which is
out of the prover's reach.  Every other property of a passing run is a theorem.

## What is left out of the models

*Queue and desk.*  `approvals.json` that does not parse; times to live that
overflow; the elevation helper inside an effect and its nonces.

*Transfer.*  Import, and deliveries of paths without a record.  Line diffs.  The
agent writing its files *during* a commit.  Interference from outside with the
state files.  Staged records are written in one step, although
`staged-exports.json` shares a temp name as `sessions.json` does.

*Sessions.*  Titles, labels, channels, message anchors, archiving, and listing.

*Policy and pipeline.*  Which pattern matches which path, and that a path may be
moved or change its owner while an engine has its zone; `toggle_profile`;
persistence targets named in the metadata only; presets.  Parsing commands into
actions, what bubblewrap does, and a `policy.yaml` read while it is being written
(a reader that cannot parse it gives up).

*Processes.*  A log that is unlinked while it is read.  The gateway's launcher is `agent-ruler run --foreground` and makes the
checks of its parent again; its own are left out.  `run` synchronises bridges in
`RuntimeSetup`, starts them in `RunCommand`; the two are not composed.  Runtimes
other than the one at hand, whose Control Panels `stop ui` also finds.

*Runtime and runners.*  The computation of paths and the save that load does when
a runtime was moved.  The formats of the runners' files, and which of the host's
files an import copies; which of the checks of an imported home failed
(`Resolvable` is all of them), and a bootstrap that asks the operator for a model.  The
configuration of a bridge is written in one step.
Doctor, update, introspection and smoke tests.

*Telegram bridge.*  The mode with conversations disabled, commands, full approval
ids in place of short ones, attachments, streamed answers, several bridges on one
token (that is `RunnerBridge`'s).  The number that limits the feed is a constant.  Short ids are not drawn twice.  The OpenClaw
channel bridge has the same approval half and is not modelled.

*Hazards without a property.*  PROJECT.json has some that no property covers, each with
the reason: two overlapping starts of a gateway, of which one is not recorded; a death
inside a keep-config reset; and a pid that is given away between the moment it is
collected and the signals.  In each the code does go wrong, as told above, and the
properties say under which circumstances they hold.

## Plan

1. *Next to model*: `ElevationNonce` (look up, check and store a nonce;
   overlapping effects); `StagedRecords` (the shared temp file of
   `staged-exports.json`, composed with the workers of `TransferFlow`);
   `RunCommand` over `RuntimeSetup`'s homes and bridges.
2. *Abstract specifications* still worth stating: a session directory (a
   partial map from threads to sessions that only grows) which `SessionStore`
   implements in turns; an exactly-once desk which `ApprovalDesk` implements in
   turns without crashes.
3. *Next to prove*: that these two are implemented, and the properties of what is
   modelled next.  No safety property of a passing run is left without a theorem.
