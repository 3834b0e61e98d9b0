---------------------------- MODULE RunnerCommands ----------------------------
(***************************************************************************)
(* What `agent-ruler run -- <command>' makes of a command line             *)
(* (src/agent_ruler.rs): which runner it belongs to, whether it starts,    *)
(* stops or restarts a managed service, and what has to be ready before    *)
(* it may run.  A command is the sequence of its words after any `env A=B' *)
(* prefix; words no rule looks at stand for all others.                    *)
(***************************************************************************)
EXTENDS Naturals, Sequences

Runners == {"openclaw", "claude", "opencode"}
WebRunners == {"claude", "opencode"}
NoRunner == "none"

\* Options: the words that begin with a dash.
Flags == {"-p", "--print", "--continue", "--port", "-h", "--help", "-V", "--version"}
HelpWords == {"-h", "--help", "help", "-V", "--version", "version"}
ClaudeMaintenance == {"doctor", "install", "update", "upgrade", "mcp", "plugin", "agents"}

Word(cmd, i) == IF i <= Len(cmd) THEN cmd[i] ELSE "none"
WordsFrom(cmd, i) == {cmd[j] : j \in i..Len(cmd)}

\* The runner an executable names, alone or at the end of a path.
RunnerOf == [w \in Runners \cup {"bin/openclaw", "bin/claude", "bin/opencode"} |->
    CASE w \in {"openclaw", "bin/openclaw"} -> "openclaw"
      [] w \in {"claude", "bin/claude"} -> "claude"
      [] OTHER -> "opencode"]
CommandRunner(cmd) ==
    IF Word(cmd, 1) \in DOMAIN RunnerOf THEN RunnerOf[Word(cmd, 1)] ELSE NoRunner

AsksForHelp(cmd, i) == WordsFrom(cmd, i) \cap HelpWords # {}

-----------------------------------------------------------------------------
\* Managed services: starting, stopping and restarting them.
Stops(cmd, i) == WordsFrom(cmd, i) \cap {"stop", "status"} # {}

IsGatewayLaunch(cmd) ==
    /\ Word(cmd, 1) = "openclaw" /\ Word(cmd, 2) = "gateway"
    /\ ~Stops(cmd, 3)

GatewayControl(cmd, verb) ==
    <<Word(cmd, 1), Word(cmd, 2), Word(cmd, 3)>> = <<"openclaw", "gateway", verb>>

IsGatewayStop(cmd) == GatewayControl(cmd, "stop")
IsGatewayRestart(cmd) == GatewayControl(cmd, "restart")

\* The web session of a runner that the command launches.
WebLaunch(cmd) ==
    IF /\ <<Word(cmd, 1), Word(cmd, 2)>> \in {<<"opencode", "web">>, <<"claude", "remote-control">>}
       /\ ~AsksForHelp(cmd, 3)
       /\ ~Stops(cmd, 3)
    THEN Word(cmd, 1)
    ELSE NoRunner

WebControl(cmd, verb) ==
    IF /\ <<Word(cmd, 1), Word(cmd, 2)>> \in
            {<<"opencode", "web">>, <<"claude", "web">>, <<"claude", "remote-control">>}
       /\ Word(cmd, 3) = verb
    THEN Word(cmd, 1)
    ELSE NoRunner

WebStop(cmd) == WebControl(cmd, "stop")
WebRestart(cmd) == WebControl(cmd, "restart")

\* The launch a restart goes on with.
RestartLaunch(runner) ==
    CASE runner = "openclaw" -> <<"openclaw", "gateway">>
      [] runner = "claude" -> <<"claude", "remote-control">>
      [] OTHER -> <<"opencode", "web">>

\* `claude web' is not a launcher.
IsLegacyWebAlias(cmd) ==
    /\ Word(cmd, 1) = "claude" /\ Word(cmd, 2) = "web"
    /\ ~AsksForHelp(cmd, 3)
    /\ ~Stops(cmd, 3)

IsControlOnly(cmd) ==
    \/ AsksForHelp(cmd, 2)
    \/ /\ <<Word(cmd, 1), Word(cmd, 2)>> \in
            {<<"openclaw", "gateway">>, <<"opencode", "web">>,
             <<"claude", "remote-control">>, <<"claude", "web">>}
       /\ Word(cmd, 3) \in {"stop", "status", "restart"}

-----------------------------------------------------------------------------
\* What must be ready.
RequiresUi(cmd) == CommandRunner(cmd) # NoRunner /\ ~IsControlOnly(cmd)

OpenclawNeedsApi(cmd) ==
    /\ Word(cmd, 1) = "openclaw"
    /\ \/ Word(cmd, 2) \in {"agent", "tui", "acp"}
       \/ IsGatewayLaunch(cmd)

\* A Claude Code invocation that talks to the model; `remote' says whether
\* the browser session counts.  Here and below a runner is known by its bare
\* name only, where CommandRunner knows it at the end of a path, too.
ClaudeChats(cmd, remote) ==
    /\ Word(cmd, 1) = "claude"
    /\ ~AsksForHelp(cmd, 2)
    /\ \/ Len(cmd) = 1
       \/ /\ Word(cmd, 2) = "remote-control"
          /\ remote
       \/ /\ Word(cmd, 2) \notin {"auth", "setup-token", "remote-control"}
          /\ \/ WordsFrom(cmd, 2) \cap {"-p", "--print"} # {}
             \/ Word(cmd, 2) \notin ClaudeMaintenance

ClaudeNeedsAuth(cmd) == ClaudeChats(cmd, TRUE)
ClaudeNeedsApi(cmd) == ClaudeChats(cmd, FALSE)

ClaudeNeedsPlugin(cmd) ==
    \/ ClaudeNeedsApi(cmd)
    \/ /\ Word(cmd, 1) = "claude" /\ Word(cmd, 2) = "remote-control"
       /\ ~AsksForHelp(cmd, 2)

\* Fault: only the interactive session is thought of.
OpencodeNeedsApiAtTerminal(cmd) ==
    Word(cmd, 1) = "opencode" /\ (Len(cmd) = 1 \/ Word(cmd, 2) \in Flags \ HelpWords)

OpencodeNeedsApi(cmd) ==
    /\ Word(cmd, 1) = "opencode"
    /\ ~AsksForHelp(cmd, 2)
    /\ \/ Len(cmd) = 1
       \/ Word(cmd, 2) \in {"run", "serve"} \cup Flags

ToolPreflightNeeded(cmd) == ClaudeNeedsApi(cmd) \/ OpencodeNeedsApi(cmd)

\* `openclaw gateway' runs as `openclaw gateway run'.
NormalizeLaunch(cmd) ==
    IF cmd = <<"openclaw", "gateway">> THEN Append(cmd, "run") ELSE cmd

\* --plugin-dir goes before the arguments, after the subcommand of a browser
\* session, unless the caller gave one.
InjectPluginDir(cmd) ==
    LET at == IF Word(cmd, 2) = "remote-control" THEN 2 ELSE 1
    IN  IF ClaudeNeedsPlugin(cmd) /\ "--plugin-dir" \notin WordsFrom(cmd, 2)
        THEN SubSeq(cmd, 1, at) \o <<"--plugin-dir", "governance">>
                \o SubSeq(cmd, at + 1, Len(cmd))
        ELSE cmd
=============================================================================
