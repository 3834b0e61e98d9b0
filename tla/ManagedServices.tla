--------------------------- MODULE ManagedServices ----------------------------
(***************************************************************************)
(* Starting and stopping the services agent-ruler leaves running: the      *)
(* OpenClaw gateway with its channel bridge, the runners' Telegram         *)
(* bridges, the browser sessions of Claude Code and OpenCode, and the      *)
(* Control Panel (src/agent_ruler.rs, src/helpers/commands/ui.rs).         *)
(*                                                                         *)
(* A service is remembered by a file with its pid.  The commands are       *)
(* separate processes with no lock between them: one reads a record, then  *)
(* signals, polls or spawns, then rewrites the record, and may die in      *)
(* between.  Polls are abstracted to their outcomes; a deadline may expire *)
(* at any moment.  The gateway's launcher is `agent-ruler run --foreground'*)
(* itself; its own checks, made again under the same conditions, are left  *)
(* out.                                                                    *)
(***************************************************************************)
EXTENDS ProcessTable, RunnerCommands

CONSTANT Clis       \* invocations of agent-ruler, numbers above every pid

Services == {"gateway", "bridge", "rbridge", "claude", "opencode", "ui"}

VARIABLES
    rec,        \* rec[s]: the pid record of service s
    cli,        \* cli[c]: where invocation c is, and its local variables
    launched,   \* processes a start reported to the operator as the gateway
    scene,      \* the circumstances of this behaviour, see RunCommand
    disturbed   \* have two invocations overlapped, or has one died?

vars == <<proc, born, rec, cli, launched, disturbed>>

NoRecord == [pid |-> NoPid, launcher |-> NoPid, torn |-> FALSE]
Torn == [NoRecord EXCEPT !.torn = TRUE]
Record(p, l) == [pid |-> p, launcher |-> l, torn |-> FALSE]

\* pid, child: the process it signals or waits for, and the one it spawned;
\* plan: records still to stop; all: was every one so far stopped?
\* named: processes its records named when it read them; scan: interfaces it
\* found and has to stop; ui: what it knows of the Control Panel; since:
\* processes started before it.
Fresh == [cmd |-> <<>>, pc |-> "idle", plan |-> <<>>, all |-> TRUE, pid |-> NoPid,
          child |-> NoPid, named |-> {}, scan |-> {}, ui |-> "unknown", since |-> 0]

At(c, pc) == cli[c].pc = pc
Ended == {"idle", "done", "failed", "crashed"}
Active == {c \in Clis : cli[c].pc \notin Ended}

Step(c, changes) ==
    cli' = [cli EXCEPT ![c] = [f \in DOMAIN Fresh |->
                                IF f \in DOMAIN changes THEN changes[f] ELSE cli[c][f]]]
Goto(c, pc) == Step(c, [pc |-> pc])

\* The invocation ends, with success or an error; its children go on.  Of a
\* successful one, what it did is kept.
Ending(c, pc) ==
    cli' = [cli EXCEPT ![c] =
                IF pc = "done"
                THEN [Fresh EXCEPT !.pc = pc, !.cmd = cli[c].cmd, !.named = cli[c].named,
                                   !.since = cli[c].since]
                ELSE [Fresh EXCEPT !.pc = pc]]
Exit(c, pc) == Ending(c, pc) /\ proc' = Orphaned(proc, c)
Quit(c, pc) == Exit(c, pc) /\ UNCHANGED <<born, rec, launched, disturbed>>
Proceed(c, changes) == Step(c, changes) /\ UNCHANGED <<proc, born, rec, launched, disturbed>>

\* A record is written or removed on the way to `pc'.
Write(c, s, r, changes) ==
    /\ rec' = [rec EXCEPT ![s] = r]
    /\ Step(c, changes)
    /\ UNCHANGED <<proc, born, launched, disturbed>>

\* A pid that somebody remembers may be given away again; of the others, all
\* alike, the first one is.
Remembered == UNION ({{rec[s].pid, rec[s].launcher} : s \in Services}
                     \cup {{cli[c].pid, cli[c].child} \cup cli[c].scan : c \in Clis})
NewPids == LET unknown == FreePids \ Remembered
           IN  (FreePids \cap Remembered) \cup {p \in unknown : \A q \in unknown : p <= q}

\* A child is started, if the system can; otherwise on to `failure'.
Spawn(c, kind, pc, failure) ==
    \/ /\ born < scene.births
       /\ \E p \in NewPids :
            /\ proc' = Spawned(p, kind, c)
            /\ Step(c, [pc |-> pc, child |-> p])
       /\ born' = born + 1
       /\ UNCHANGED <<rec, launched, disturbed>>
    \/ IF failure = "failed" THEN Quit(c, failure) ELSE Proceed(c, [pc |-> failure])

-----------------------------------------------------------------------------
\* Stopping: the next record of the plan.
Rest(c) == Tail(cli[c].plan)

\* A record that cannot be parsed: an error for a gateway or a browser
\* session, garbage for a bridge.
StopRead(c) ==
    /\ At(c, "stop") /\ cli[c].plan # <<>>
    /\ LET s == Head(cli[c].plan)
           r == rec[s]
       IN  \/ /\ r = NoRecord
              /\ Proceed(c, [plan |-> Rest(c)])
           \/ /\ r.torn /\ s \in {"gateway", "claude", "opencode"}
              /\ Quit(c, "failed")
           \/ /\ r.torn /\ s \in {"bridge", "rbridge"}
              /\ Write(c, s, NoRecord, [plan |-> Rest(c)])
           \/ /\ ~r.torn /\ r.pid # NoPid
              /\ Proceed(c, [pc |-> IF Exists(r.pid) THEN "kill" ELSE "launcher",
                             pid |-> r.pid, child |-> r.launcher,
                             named |-> cli[c].named \cup IdOf(r.pid)])

\* Fault: a process that survives counts as stopped.
KillUnchecked(c) ==
    /\ At(c, "kill")
    /\ \E survives \in BOOLEAN :
        proc' = IF Exists(cli[c].pid) /\ ~survives THEN Exited(proc, {cli[c].pid}) ELSE proc
    /\ Step(c, [pc |-> "launcher"])
    /\ UNCHANGED <<born, rec, launched, disturbed>>

\* kill_process_with_retry: TERM, then KILL, to whatever has the pid now; it
\* may survive both.
Kill(c) ==
    /\ At(c, "kill")
    /\ \/ /\ proc' = IF Exists(cli[c].pid) THEN Exited(proc, {cli[c].pid}) ELSE proc
          /\ Step(c, [pc |-> "launcher"])
          /\ UNCHANGED <<born, rec, launched, disturbed>>
       \/ /\ Exists(cli[c].pid)
          /\ Proceed(c, [pc |-> "launcher", all |-> FALSE, pid |-> NoPid])

\* The gateway's launcher goes too; whether it does is not looked at.
KillLauncher(c) ==
    /\ At(c, "launcher")
    /\ \E survives \in BOOLEAN :
        proc' = IF Exists(cli[c].child) /\ cli[c].child # cli[c].pid /\ ~survives
                THEN Exited(proc, {cli[c].child}) ELSE proc
    /\ Step(c, [pc |-> "forget", child |-> NoPid])
    /\ UNCHANGED <<born, rec, launched, disturbed>>

\* Fault: the record goes though its process survived.
ForgetAnyway(c) ==
    /\ At(c, "forget")
    /\ Write(c, Head(cli[c].plan), NoRecord, [pc |-> "stop", plan |-> Rest(c), pid |-> NoPid])

\* The record goes once its process is gone.
Forget(c) ==
    /\ At(c, "forget")
    /\ IF cli[c].pid # NoPid
       THEN Write(c, Head(cli[c].plan), NoRecord, [pc |-> "stop", plan |-> Rest(c), pid |-> NoPid])
       ELSE Proceed(c, [pc |-> "stop", plan |-> Rest(c)])

StopSteps(c) == StopRead(c) \/ Kill(c) \/ KillLauncher(c) \/ Forget(c)

-----------------------------------------------------------------------------
\* Bridges: recorded before they are known to run.  A gateway does not start
\* without its channel bridge, a runner does without its Telegram bridge.
Bridge(c) == IF IsGatewayLaunch(cli[c].cmd) THEN "bridge" ELSE "rbridge"
BridgeWanted(c) == IsGatewayLaunch(cli[c].cmd) \/ Word(cli[c].cmd, 1) \in WebRunners
BridgeFailed(c) == IF Bridge(c) = "bridge" THEN "failed" ELSE "webui"

\* The channel bridge must answer on its port, too.
BridgeAnswers(c) == Bridge(c) = "bridge" => Listening("bridge") # {}

\* None is wanted, a Telegram bridge is not enabled, or it runs already.
BridgeUnneeded(c) ==
    /\ At(c, "bridge")
    /\ \/ ~BridgeWanted(c)
       \/ Bridge(c) = "rbridge"
       \/ Exists(rec[Bridge(c)].pid) /\ BridgeAnswers(c)
    /\ Proceed(c, [pc |-> "webui"])

\* A record is cleared if its process is gone, or is a channel bridge that
\* does not answer: that one is left running.
BridgeClear(c) ==
    /\ At(c, "bridge") /\ BridgeWanted(c)
    /\ Exists(rec[Bridge(c)].pid) => ~BridgeAnswers(c)
    /\ Write(c, Bridge(c), NoRecord, [pc |-> "bridgespawn"])

BridgeSpawn(c) == At(c, "bridgespawn") /\ Spawn(c, "bridge", "bridgerecord", BridgeFailed(c))

BridgeRecord(c) ==
    /\ At(c, "bridgerecord")
    /\ Write(c, Bridge(c), Record(cli[c].child, NoPid), [pc |-> "bridgewait"])

BridgeUp(c) ==
    /\ At(c, "bridgewait")
    /\ Exists(cli[c].child) /\ BridgeAnswers(c)
    /\ Proceed(c, [pc |-> "webui"])

\* It exited; or the channel bridge missed its deadline, is killed, and
\* forgotten whether or not that worked.
BridgeLost(c) ==
    /\ At(c, "bridgewait")
    /\ Exists(cli[c].child) => Bridge(c) = "bridge"
    /\ \E killed \in SUBSET ({cli[c].child} \cap Alive("bridge")) :
        proc' = LET table == Exited(proc, killed)
                IN  IF BridgeFailed(c) = "failed" THEN Orphaned(table, c) ELSE table
    /\ rec' = [rec EXCEPT ![Bridge(c)] = NoRecord]
    /\ IF BridgeFailed(c) = "failed" THEN Ending(c, "failed") ELSE Goto(c, "webui")
    /\ UNCHANGED <<born, launched, disturbed>>

BridgeSteps(c) ==
    \/ BridgeUnneeded(c) \/ BridgeClear(c) \/ BridgeSpawn(c)
    \/ BridgeRecord(c) \/ BridgeUp(c) \/ BridgeLost(c)
=============================================================================
