------------------------------ MODULE RunCommand ------------------------------
(***************************************************************************)
(* `agent-ruler run' and `agent-ruler stop' from the command line to their *)
(* end (run in src/agent_ruler.rs): several invocations, the services they *)
(* start and stop, and an operating system in which processes appear, die  *)
(* and inherit pids.                                                       *)
(***************************************************************************)
EXTENDS ServiceLaunch

CONSTANT Scenes     \* circumstances to look at: the runner set up for this
                    \* runtime, what runs at first, what may be typed, how many
                    \* invocations overlap, what may start or die by itself

ASSUME SceneAssumption ==
    /\ \A s \in Scenes :
        /\ s.runner \in Runners
        /\ \A cmd \in s.lines : cmd \in Seq(STRING) /\ Len(cmd) > 0
        /\ s.running \in Seq([kind : Kinds, of : Services])
        /\ \A p, q \in DOMAIN s.running : s.running[p].of = s.running[q].of => p = q
        /\ s.arrivals \cup s.mortal \subseteq Kinds \cup {"cli"}
        /\ s.births \in Nat /\ s.active \in Nat
    /\ Clis \subseteq Nat \ ({0} \cup Pids)

all == <<vars, scene>>

\* Services that run at first have their ports and are on record.
Init ==
    /\ scene \in Scenes
    /\ LET first == scene.running
       IN  /\ proc = [p \in Pids |->
                        IF p \in DOMAIN first
                        THEN [kind |-> first[p].kind, id |-> p, parent |-> 0, stage |-> "listens"]
                        ELSE NoProcess]
           /\ born = Len(first)
           /\ rec = [s \in Services |->
                        IF \E p \in DOMAIN first : first[p].of = s
                        THEN Record(CHOOSE p \in DOMAIN first : first[p].of = s, NoPid)
                        ELSE NoRecord]
           /\ launched = {p \in DOMAIN first : first[p].of = "gateway"}
    /\ cli = [c \in Clis |-> Fresh]
    /\ disturbed = FALSE

\* The records a command stops before anything else.
StopPlan(cmd) ==
    CASE IsGatewayStop(cmd) \/ IsGatewayRestart(cmd) -> <<"gateway", "bridge", "rbridge">>
      [] WebStop(cmd) # NoRunner -> <<WebStop(cmd)>>
      [] WebRestart(cmd) # NoRunner -> <<WebRestart(cmd)>>
      [] cmd = <<"stop", "openclaw">> -> <<"gateway", "bridge">>
      [] cmd[1] = "stop" /\ cmd[2] \in WebRunners -> <<"rbridge">>
      [] OTHER -> <<>>

Restarted(cmd) == IF IsGatewayRestart(cmd) THEN "openclaw" ELSE WebRestart(cmd)

Begin(c) ==
    /\ At(c, "idle") /\ Cardinality(Active) < scene.active
    /\ \A d \in Clis : ~At(d, "idle") \/ c <= d
    /\ \E cmd \in scene.lines :
        Step(c, [cmd |-> cmd, since |-> born, plan |-> StopPlan(cmd),
                 pc |-> IF StopPlan(cmd) # <<>> THEN "stop"
                        ELSE IF cmd = <<"stop", "ui">> THEN "uifile" ELSE "check"])
    /\ disturbed' = (disturbed \/ Active # {})
    /\ UNCHANGED <<proc, born, rec, launched, scene>>

\* Every record was tried: a restart goes on only if all are stopped.
StopEnd(c) ==
    /\ At(c, "stop") /\ cli[c].plan = <<>>
    /\ LET again == Restarted(cli[c].cmd)
       IN  IF ~cli[c].all THEN Quit(c, "failed")
           ELSE IF again = NoRunner THEN Quit(c, "done")
           ELSE Proceed(c, [pc |-> "check", cmd |-> RestartLaunch(again)])

\* The command's runner must be the one set up, and installed.
Check(c) ==
    /\ At(c, "check")
    /\ \/ /\ CommandRunner(cli[c].cmd) \in {NoRunner, scene.runner}
          /\ ~IsLegacyWebAlias(cli[c].cmd)
          /\ Proceed(c, [pc |-> "ui"])
       \/ /\ CommandRunner(cli[c].cmd) # NoRunner
          /\ Quit(c, "failed")

\* Claude Code must be logged in, as far as that can be told.
Authorize(c) ==
    /\ At(c, "auth")
    /\ \/ Proceed(c, [pc |-> "api"])
       \/ ClaudeNeedsAuth(cli[c].cmd) /\ Quit(c, "failed")

\* Anything else runs in the foreground, confined.
InBackground(cmd) == IsGatewayLaunch(cmd) \/ WebLaunch(cmd) # NoRunner

Execute(c) ==
    /\ At(c, "spawn") /\ ~InBackground(cli[c].cmd)
    /\ Proceed(c, [pc |-> "running",
                   cmd |-> InjectPluginDir(NormalizeLaunch(cli[c].cmd))])

Finish(c) == At(c, "running") /\ \E pc \in {"done", "failed"} : Quit(c, pc)

Advance(c) ==
    /\ \/ StopEnd(c) \/ Check(c) \/ Authorize(c) \/ Execute(c) \/ Finish(c)
       \/ StopSteps(c) \/ BridgeSteps(c) \/ LaunchSteps(c) \/ UiSteps(c)
    /\ UNCHANGED scene

\* An invocation dies between two steps, or with a record half written.
Crash(c) ==
    /\ c \in Active /\ "cli" \in scene.mortal
    /\ \/ rec' = rec
       \/ At(c, "record") /\ rec' = [rec EXCEPT !["gateway"] = Torn]
       \/ At(c, "webrecord") /\ rec' = [rec EXCEPT ![Session(c)] = Torn]
       \/ At(c, "bridgerecord") /\ rec' = [rec EXCEPT ![Bridge(c)] = Torn]
    /\ Exit(c, "crashed")
    /\ disturbed' = TRUE
    /\ UNCHANGED <<born, launched, scene>>

-----------------------------------------------------------------------------
\* The services and the system.
Daemon == [k \in {"gateway launcher", "web launcher"} |->
            IF k = "gateway launcher" THEN "gateway" ELSE "web"]

Daemonize(l) ==
    /\ Exists(l) /\ proc[l].kind \in DOMAIN Daemon /\ proc[l].stage = "up"
    /\ born < scene.births /\ born' = born + 1
    /\ \E p \in NewPids :
        proc' = [Spawned(p, Daemon[proc[l].kind], 0) EXCEPT ![l].stage = "recorded"]
    /\ UNCHANGED <<rec, cli, launched, disturbed, scene>>

\* One process of a kind has the port.  An interface writes its pid first.
Listen(p) ==
    /\ Exists(p)
    /\ \/ proc[p].kind \in {"gateway", "bridge", "other"} /\ proc[p].stage = "up"
       \/ proc[p].kind = "ui" /\ proc[p].stage = "recorded"
    /\ Listening(proc[p].kind) = {}
    /\ proc' = [proc EXCEPT ![p].stage = "listens"]
    /\ UNCHANGED <<born, rec, cli, launched, disturbed, scene>>

\* Its pid file is written, or half written as it dies.
UiPidGuardCreate(p) ==
    /\ p \in Alive("ui") /\ proc[p].stage = "up"
    /\ \/ /\ proc' = [proc EXCEPT ![p].stage = "recorded"]
          /\ rec' = [rec EXCEPT !["ui"] = Record(p, NoPid)]
       \/ /\ "ui" \in scene.mortal
          /\ proc' = Exited(proc, {p})
          /\ rec' = [rec EXCEPT !["ui"] = Torn]
    /\ UNCHANGED <<born, cli, launched, disturbed, scene>>

\* It ends by itself, its port being taken for one: the pid file goes,
\* whoever wrote it last.
UiPidGuardDrop(p) ==
    /\ p \in Alive("ui") /\ proc[p].stage # "up" /\ "ui" \in scene.mortal
    /\ proc' = Exited(proc, {p})
    /\ rec' = [rec EXCEPT !["ui"] = NoRecord]
    /\ UNCHANGED <<born, cli, launched, disturbed, scene>>

Die(p) ==
    /\ Exists(p) /\ proc[p].kind \in scene.mortal
    /\ proc' = Exited(proc, {p})
    /\ UNCHANGED <<born, rec, cli, launched, disturbed, scene>>

\* `agent-ruler ui' is typed, or a process of no concern begins.
Arrive(kind) ==
    /\ kind \in scene.arrivals
    /\ born < scene.births /\ born' = born + 1
    /\ \E p \in NewPids : proc' = Spawned(p, kind, 0)
    /\ UNCHANGED <<rec, cli, launched, disturbed, scene>>

Environment ==
    \/ \E p \in Pids : Daemonize(p) \/ Listen(p) \/ Die(p)
                       \/ UiPidGuardCreate(p) \/ UiPidGuardDrop(p)
    \/ \E kind \in {"ui", "other"} : Arrive(kind)

\* A step that neither reads nor writes what is shared is taken at once.
Hurried ==
    LET local == {c \in Clis :
            \/ cli[c].pc \in {"check", "auth"}
            \/ cli[c].pc = "stop" /\ cli[c].plan = <<>>
            \/ cli[c].pc \in UiPoints /\ ~UiNeeded(cli[c].cmd, cli[c].pc)}
    IN  {c \in local : \A d \in local : c <= d}

Next ==
    \/ \E c \in Clis : Hurried \subseteq {c} /\ (Advance(c) \/ Crash(c))
    \/ Hurried = {} /\ (Environment \/ \E c \in Clis : Begin(c))

\* Every poll has a deadline, every other step is the invocation's own.
Fairness == \A c \in Clis : WF_all(~At(c, "running") /\ Advance(c))
Spec == Init /\ [][Next]_all /\ Fairness

-----------------------------------------------------------------------------
\* A stop or restart that reports success has ended every process its records
\* named when it read them, though pids are inherited, others start and stop
\* services meanwhile, and signals are ignored ("Only clear pid record after
\* confirmed stop", src/src/agent_ruler.rs:4257).
StopIsTrue ==
    \A c \in Clis : At(c, "done") =>
        \A p \in Pids : Exists(p) => proc[p].id \notin cli[c].named

\* While invocations take turns and none dies, a gateway that a start has
\* reported stays on record until it is gone: refused starts, failed stops
\* and restarts never lose the way to stop it.
LaunchedIsRecorded ==
    ~disturbed => \A p \in Pids :
        Exists(p) /\ proc[p].id \in launched => rec["gateway"].pid = p

\* A `stop ui' that reports success leaves no interface running that ran when
\* it began, though the pid file names the last one that tried to start.
UiStopIsComplete ==
    \A c \in Clis : At(c, "done") /\ cli[c].cmd = <<"stop", "ui">> =>
        \A p \in Alive("ui") : proc[p].id > cli[c].since

\* A service is stopped, restarted or asked after.
Controls(cmd) ==
    /\ <<Word(cmd, 1), Word(cmd, 2)>> \in
        {<<"openclaw", "gateway">>, <<"opencode", "web">>, <<"claude", "remote-control">>}
    /\ Word(cmd, 3) \in {"stop", "status", "restart"}

\* An agent acts at this command, whatever the program makes of its words: all
\* but a runner's own housekeeping, and sessions whose tool calls are put to the
\* interface later.  A word that reads as a question for help, even in a prompt,
\* makes it pass for one, and so do the verbs that control a service.
AgentActs(cmd) ==
    /\ WordsFrom(cmd, 2) \cap HelpWords = {}
    /\ Word(cmd, 2) \in {"gateway", "web"} => WordsFrom(cmd, 3) \cap {"stop", "status"} = {}
    /\ LET first == Word(cmd, 2)
       IN  \/ CommandRunner(cmd) = "openclaw" /\ first \in {"gateway", "agent", "tui", "acp"}
           \/ /\ CommandRunner(cmd) = "claude"
              /\ first \notin ClaudeMaintenance \cup {"auth", "setup-token", "remote-control"}
           \/ CommandRunner(cmd) = "opencode" /\ (Len(cmd) = 1 \/ first \in {"run", "serve", "--continue"})

UnderWay == {"running", "capture", "confirm", "record", "webwait", "webrecord"}

\* No agent acts before a Control Panel has answered, and, where the runner is
\* not called by a path, before one that takes its tool calls has; and no
\* command that only controls a service waits for one or runs in the background
\* ("runner status command should not auto-start UI", src/src/agent_ruler.rs:5104).
LaunchIsMediated ==
    \A c \in Clis : cli[c].pc \in UnderWay =>
        LET cmd == cli[c].cmd
        IN  /\ AgentActs(cmd) \/ WebLaunch(cmd) # NoRunner => cli[c].ui # "unknown"
            /\ AgentActs(cmd) /\ Word(cmd, 1) \in Runners => cli[c].ui = "mediates"
            /\ Controls(cmd) => cli[c].ui = "unknown" /\ ~InBackground(cmd)

\* Every invocation ends, but for the command it runs in the foreground: no
\* stop, poll or start waits for ever, except a start of OpenCode's session
\* that found a stranger on its port after having made sure there was none.
CommandEnds ==
    \A c \in Clis : (c \in Active) ~> (c \notin Active \/ At(c, "running") \/ HeldUp(c))
=============================================================================
