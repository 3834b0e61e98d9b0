---------------------------- MODULE ServiceLaunch -----------------------------
(***************************************************************************)
(* Starting the gateway and the browser sessions in the background         *)
(* (spawn_background_run), getting the Control Panel up before a runner    *)
(* needs it (ensure_*_ready), and stopping the Control Panel               *)
(* (src/helpers/commands/ui.rs).                                           *)
(***************************************************************************)
EXTENDS ManagedServices

\* The gateway: one that is recorded and lives is not started again, one
\* that listens unrecorded is adopted.
Refused(s) == Exists(rec[s].pid)

GatewayCheck(c) ==
    /\ At(c, "spawn") /\ IsGatewayLaunch(cli[c].cmd)
    /\ IF Refused("gateway")
       THEN Quit(c, "failed")
       ELSE Write(c, "gateway", NoRecord, [pc |-> "detect"])

Detect(c) ==
    /\ At(c, "detect")
    /\ \/ \E p \in Listening("gateway") : Proceed(c, [pc |-> "record", pid |-> p, child |-> p])
       \/ Listening("gateway") = {} /\ Proceed(c, [pc |-> "stophost"])

\* stop_host_gateway: one the host runs for itself is told to stop.
StopHostGateway(c) ==
    /\ At(c, "stophost")
    /\ \E killed \in SUBSET Alive("other") : proc' = Exited(proc, killed)
    /\ Goto(c, "launch")
    /\ UNCHANGED <<born, rec, launched, disturbed>>

Launch(c) == At(c, "launch") /\ Spawn(c, "gateway launcher", "capture", "failed")

\* The start is given up: the channel bridge is stopped, the gateway is not.
AbandonStart(c, killed) ==
    /\ proc' = Exited(proc, killed)
    /\ Step(c, [pc |-> "stop", plan |-> <<"bridge">>, all |-> FALSE, child |-> NoPid])
    /\ UNCHANGED <<born, rec, launched, disturbed>>

\* A gateway's pid in the log, or the process that listens.
Capture(c) ==
    /\ At(c, "capture")
    /\ \E p \in Alive("gateway") : Proceed(c, [pc |-> "confirm", pid |-> p])

\* Fault: the deadline is not looked at.
CaptureFailsOnExit(c) ==
    /\ At(c, "capture") /\ ~Exists(cli[c].child)
    /\ AbandonStart(c, {})

CaptureFails(c) ==
    /\ At(c, "capture")
    /\ \E killed \in SUBSET ({cli[c].child} \cap Alive("gateway launcher")) : AbandonStart(c, killed)

\* It has stayed alive, and something listens for this home.
Confirm(c) ==
    /\ At(c, "confirm")
    /\ IF Exists(cli[c].pid) /\ Listening("gateway") # {}
       THEN Proceed(c, [pc |-> "record"])
       ELSE AbandonStart(c, {})

RecordGateway(c) ==
    /\ At(c, "record")
    /\ rec' = [rec EXCEPT !["gateway"] = Record(cli[c].pid, cli[c].child)]
    /\ launched' = launched \cup IdOf(cli[c].pid)
    /\ Exit(c, "done")
    /\ UNCHANGED <<born, disturbed>>

-----------------------------------------------------------------------------
\* A browser session: a record that cannot be read is an error here.
Session(c) == WebLaunch(cli[c].cmd)

\* The port an OpenCode session was asked to take is in use by another.
Taken(c) == IF "--port" \in WordsFrom(cli[c].cmd, 3) THEN Listening("other") ELSE {}

WebCheck(c) ==
    /\ At(c, "spawn") /\ Session(c) # NoRunner
    /\ \/ rec[Session(c)].torn /\ Quit(c, "failed")
       \/ Refused(Session(c)) /\ Quit(c, "failed")
       \/ /\ ~rec[Session(c)].torn /\ ~Refused(Session(c))
          /\ IF Taken(c) # {}
             THEN /\ rec' = [rec EXCEPT ![Session(c)] = NoRecord]
                  /\ Exit(c, "failed")
                  /\ UNCHANGED <<born, launched, disturbed>>
             ELSE Write(c, Session(c), NoRecord, [pc |-> "weblaunch"])

WebSpawn(c) ==
    /\ At(c, "weblaunch")
    /\ Spawn(c, IF Session(c) = "claude" THEN "web" ELSE "web launcher", "webport", "failed")

\* Who listens on the port at this moment is remembered as a stranger; while
\* it goes on to, the deadline of this wait is not looked at.  (Nor is it while
\* the launcher has the port: that is agent-ruler, which opens none.)
WebPort(c) ==
    /\ At(c, "webport")
    /\ \E p \in (IF Taken(c) = {} THEN {NoPid} ELSE Taken(c)) :
        Proceed(c, [pc |-> "webwait", pid |-> p])

HeldUp(c) == At(c, "webwait") /\ cli[c].pid \in Taken(c)

\* Claude Code: the child has not exited.  OpenCode: whoever listens, or in
\* the end the launcher if that lives.
WebUp(c) ==
    /\ At(c, "webwait") /\ ~HeldUp(c)
    /\ \E p \in Alive("web") \cup Alive("web launcher") \cup Taken(c) :
        /\ p # cli[c].child => Session(c) = "opencode" /\ proc[p].kind # "web launcher"
        /\ Proceed(c, [pc |-> "webrecord", pid |-> p])

WebFails(c) ==
    At(c, "webwait") /\ ~HeldUp(c) /\ ~Exists(cli[c].child) /\ Quit(c, "failed")

WebRecord(c) ==
    /\ At(c, "webrecord")
    /\ rec' = [rec EXCEPT ![Session(c)] = Record(cli[c].pid, NoPid)]
    /\ Exit(c, "done")
    /\ UNCHANGED <<born, launched, disturbed>>

-----------------------------------------------------------------------------
\* The Control Panel, wanted at up to three points of a launch.
UiPoints == {"ui", "api", "webui"}
AfterUi == [ui |-> "auth", api |-> "bridge", webui |-> "spawn"]
WaitsUi == [ui |-> "ui wait", api |-> "api wait", webui |-> "webui wait"]

UiNeeded(cmd, point) ==
    CASE point = "ui" -> RequiresUi(cmd)
      [] point = "api" -> OpenclawNeedsApi(cmd) \/ ToolPreflightNeeded(cmd)
      [] point = "webui" -> WebLaunch(cmd) # NoRunner

\* For tool calls it must have the endpoint: an older one answers 404.
UiAnswers(c, point) ==
    /\ Listening("ui") # {}
    /\ Proceed(c, [pc |-> AfterUi[point],
                   ui |-> IF point = "api" \/ cli[c].ui = "mediates" THEN "mediates" ELSE "answers"])

UiUnneeded(c, point) ==
    At(c, point) /\ ~UiNeeded(cli[c].cmd, point) /\ Proceed(c, [pc |-> AfterUi[point]])

UiReady(c, point) == At(c, point) /\ UiNeeded(cli[c].cmd, point) /\ UiAnswers(c, point)

UiStale(c) == At(c, "api") /\ UiNeeded(cli[c].cmd, "api") /\ Listening("ui") # {} /\ Quit(c, "failed")

UiStart(c, point) ==
    /\ At(c, point) /\ UiNeeded(cli[c].cmd, point) /\ Listening("ui") = {}
    /\ Spawn(c, "ui", WaitsUi[point], "failed")

UiStarted(c, point) == At(c, WaitsUi[point]) /\ UiAnswers(c, point)

\* It exited or the deadline passed; only one that answers 404 is killed.
UiGivenUp(c, point) ==
    /\ At(c, WaitsUi[point])
    /\ \E killed \in SUBSET ({cli[c].child} \cap Alive("ui")) :
        /\ killed # {} => point = "api" /\ Listening("ui") # {}
        /\ proc' = Orphaned(Exited(proc, killed), c)
    /\ Ending(c, "failed")
    /\ UNCHANGED <<born, rec, launched, disturbed>>

\* `stop ui': the recorded process if it is an interface, then every other
\* interface of this user.
UiStopRead(c) ==
    /\ At(c, "uifile")
    /\ LET r == rec["ui"]
       IN  \/ r = NoRecord /\ Proceed(c, [pc |-> "uiscan"])
           \/ r.torn /\ Quit(c, "failed")
           \/ /\ ~r.torn /\ r.pid # NoPid /\ r.pid \notin Alive("ui")
              /\ Write(c, "ui", NoRecord, [pc |-> "uiscan"])
           \/ /\ r.pid \in Alive("ui")
              /\ Proceed(c, [pc |-> "uikill", pid |-> r.pid])

\* Its entry in /proc must go: a zombie counts as running.
UiKilled(p, gone) ==
    /\ proc' = IF HasEntry(p) THEN Exited(proc, {p}) ELSE proc
    /\ gone = (HasEntry(p) => proc[p].parent = 0)
UiSurvives(p) ==
    \/ UiKilled(p, FALSE)
    \/ HasEntry(p) /\ proc' = proc

UiStopKill(c) ==
    /\ At(c, "uikill")
    /\ \/ /\ UiKilled(cli[c].pid, TRUE)
          /\ Step(c, [pc |-> "uiforget"])
       \/ /\ UiSurvives(cli[c].pid)
          /\ Step(c, [pc |-> "uiscan", all |-> FALSE])
    /\ UNCHANGED <<born, rec, launched, disturbed>>

UiStopForget(c) == At(c, "uiforget") /\ Write(c, "ui", NoRecord, [pc |-> "uiscan"])

\* Fault: one whose pid is not on file is left alone.
UiScanNone(c) == At(c, "uiscan") /\ Proceed(c, [pc |-> "uirest", scan |-> {}])

UiScan(c) == At(c, "uiscan") /\ Proceed(c, [pc |-> "uirest", scan |-> Alive("ui")])

UiStopRest(c) ==
    /\ At(c, "uirest")
    /\ \E p \in cli[c].scan :
        /\ \/ UiKilled(p, TRUE) /\ Step(c, [scan |-> cli[c].scan \ {p}])
           \/ /\ UiSurvives(p)
              /\ Step(c, [scan |-> cli[c].scan \ {p}, all |-> FALSE])
        /\ UNCHANGED <<born, rec, launched, disturbed>>

UiStopEnd(c) ==
    /\ At(c, "uirest") /\ cli[c].scan = {}
    /\ Quit(c, IF cli[c].all THEN "done" ELSE "failed")

LaunchSteps(c) ==
    \/ GatewayCheck(c) \/ Detect(c) \/ StopHostGateway(c) \/ Launch(c)
    \/ Capture(c) \/ CaptureFails(c) \/ Confirm(c) \/ RecordGateway(c)
    \/ WebCheck(c) \/ WebSpawn(c) \/ WebPort(c) \/ WebUp(c) \/ WebFails(c) \/ WebRecord(c)

UiSteps(c) ==
    \/ UiStale(c)
    \/ \E point \in UiPoints :
        \/ UiUnneeded(c, point) \/ UiReady(c, point) \/ UiStart(c, point)
        \/ UiStarted(c, point) \/ UiGivenUp(c, point)
    \/ UiStopRead(c) \/ UiStopKill(c) \/ UiStopForget(c)
    \/ UiScan(c) \/ UiStopRest(c) \/ UiStopEnd(c)
=============================================================================
