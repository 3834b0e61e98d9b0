----------------------------- MODULE RuntimeFiles -----------------------------
(***************************************************************************)
(* The runtime directory of a project and the commands that lay it out,    *)
(* load it, change its settings, reset and purge it (src/config.rs,        *)
(* src/cli/setup.rs, src/helpers/ui/runtime_api.rs).                       *)
(*                                                                         *)
(* Every command is a process of its own, or a request to the Control      *)
(* Panel: it loads the runtime when it starts and works on its copy.       *)
(* There is no lock, and fs::write truncates before it writes, so that a   *)
(* file is torn from the first half of a write to the second, and stays so *)
(* if the command dies in between.  A command is the list of the steps it  *)
(* still has to take (todo); an error ends it.                             *)
(***************************************************************************)
EXTENDS Naturals, Sequences, FiniteSets

CONSTANTS
    Clis,       \* commands and requests that may be under way
    Bots,       \* pids of Telegram bridges, positive numbers
    MaxWait     \* the largest approval wait (300 s)

ASSUME PidAssumption == Bots \subseteq Nat \ {0}
ASSUME WaitBoundAssumption == MaxWait \in Nat

Runners == {"openclaw", "claudecode", "opencode"}
NoRunner == "none"
Bridged == {"claudecode", "opencode"}   \* runners with a bridge of agent-ruler's own

VARIABLES
    tree,       \* what the runtime directory holds
    cli,        \* cli[c]: the command c, its copy of the runtime and what it has to do
    installed,  \* runners whose executable is in PATH
    bot,        \* bot[b]: the bridge process with pid b
    ending,     \* ending[c]: the bridges the command c is about to end, see RunnerBridge
    begun,      \* commands begun so far
    owed,       \* the settings and policy stored last, until a reset that drops them
    disturbed,  \* since all was quiet, have commands overlapped or has one died?
    scene       \* the circumstances of this behaviour, see RuntimeSetup

all == <<tree, cli, installed, bot, ending, begun, owed, disturbed, scene>>

-----------------------------------------------------------------------------
\* A bind address has a host, "local" or the tailnet, and a port.
DefaultConfig == [runner |-> NoRunner, missing |-> FALSE, decision |-> "none",
                  bind |-> [host |-> "local", port |-> 1], wait |-> 1]

Settings(cfg, pol) == [bound |-> TRUE, bind |-> cfg.bind, wait |-> cfg.wait, policy |-> pol]
NoDebt == [Settings(DefaultConfig, "default") EXCEPT !.bound = FALSE]

\* The agent-ruler tools in a runner's configuration: the plugin or permission
\* profile, the port they call, the wait they ask for; 0 where there is none.
Unwired == [on |-> FALSE, port |-> 0, wait |-> 0]

\* A runner's managed home: its directory, its configuration file, the tools
\* wired in it, whether workspace and gateway are pinned to the runtime, and
\* where its credentials are.
NoHome == [dir |-> FALSE, file |-> "absent", tools |-> Unwired, pinned |-> FALSE, auth |-> {}]

\* The state directory with config.yaml and policy.yaml, the workspace, the
\* homes, the bridges' configurations (the token of an enabled one) and pids, and
\* in whose log a bridge has complained that another one owns its token.
Nothing == [made |-> FALSE, state |-> FALSE, yaml |-> [state |-> "absent", cfg |-> DefaultConfig],
            policy |-> "absent", workspace |-> FALSE, home |-> [k \in Runners |-> NoHome],
            channel |-> [r \in Bridged |-> 0], pidfile |-> [r \in Bridged |-> 0],
            log |-> [r \in Bridged |-> FALSE]]

\* A file is there, torn, or has its contents.
Hosts == {"local", "tailnet"}
Binds == [host : Hosts, port : Nat]
Credentials == {"settings", "login", "model", "key", "legacy", "config", "store", "profiles"}
Configs == [runner : Runners \cup {NoRunner}, missing : BOOLEAN, decision : {"none", "keep", "rerun"},
            bind : Binds, wait : Nat]
Homes == [dir : BOOLEAN, file : {"absent", "torn", "ok"},
          tools : [on : BOOLEAN, port : Nat, wait : Nat], pinned : BOOLEAN, auth : SUBSET Credentials]
Trees == [made : BOOLEAN, state : BOOLEAN, yaml : [state : {"absent", "torn", "ok"}, cfg : Configs],
          policy : {"absent", "torn", "default", "edited"}, workspace : BOOLEAN,
          home : [Runners -> Homes], channel : [Bridged -> Nat], pidfile : [Bridged -> Nat],
          log : [Bridged -> BOOLEAN]]

\* cfg, pol: the copy of the runtime it loaded; newcfg, newpol, newhome: what
\* it is writing; stage, bot: see RunnerBridge.
Idle == [cmd |-> <<"", "">>, out |-> "idle", todo |-> <<>>, cfg |-> DefaultConfig, pol |-> "absent",
         newcfg |-> DefaultConfig, newpol |-> "absent", newhome |-> NoHome, stage |-> "", bot |-> 0]

Active == {c \in Clis : cli[c].todo # <<>>}
Doing(c, step) == cli[c].todo # <<>> /\ Head(cli[c].todo) = step
Rest(c) == Tail(cli[c].todo)
Others == <<installed, bot, ending, begun, disturbed, scene>>

Step(c, todo, changes) ==
    cli' = [cli EXCEPT ![c] = [f \in DOMAIN Idle |->
                IF f = "todo" THEN todo
                ELSE IF f \in DOMAIN changes THEN changes[f] ELSE cli[c][f]]]

\* On to the steps `todo', with the files changed or not.
Go(c, todo, changes) == Step(c, todo, changes) /\ UNCHANGED <<tree, owed, Others>>
Alter(c, t, todo) == tree' = t /\ Step(c, todo, [x \in {} |-> 0]) /\ UNCHANGED <<owed, Others>>
Pass(c) == Go(c, Rest(c), [x \in {} |-> 0])

Ends(c, out) == cli' = [cli EXCEPT ![c] = [Idle EXCEPT !.out = out, !.cmd = cli[c].cmd]]
Quit(c, out) == Ends(c, out) /\ UNCHANGED <<tree, owed, Others>>

-----------------------------------------------------------------------------
\* Writing a file: it is truncated, then it has its contents.  If its directory
\* goes in between, the contents go nowhere.
WriteYaml(c, cfg, todo, changes) ==
    IF tree.state
    THEN /\ tree' = [tree EXCEPT !.yaml.state = "torn"]
         /\ Step(c, <<"yaml">> \o todo,
                 [f \in DOMAIN changes \cup {"newcfg"} |->
                    IF f = "newcfg" THEN cfg ELSE changes[f]])
         /\ UNCHANGED <<owed, Others>>
    ELSE Quit(c, "failed")

\* A write whose purpose is the settings says so by the step after it.
YamlWritten(c) ==
    /\ Doing(c, "yaml")
    /\ LET stored == Rest(c) # <<>> /\ Head(Rest(c)) = "stored"
       IN  /\ tree' = IF tree.state
                      THEN [tree EXCEPT !.yaml = [state |-> "ok", cfg |-> cli[c].newcfg]]
                      ELSE tree
           /\ Step(c, IF stored THEN Tail(Rest(c)) ELSE Rest(c), [x \in {} |-> 0])
           /\ owed' = IF stored
                      THEN Settings(cli[c].newcfg, IF owed.bound THEN owed.policy ELSE tree.policy)
                      ELSE owed
    /\ UNCHANGED Others

WritePolicy(c, pol) ==
    IF tree.state
    THEN /\ tree' = [tree EXCEPT !.policy = "torn"]
         /\ Step(c, <<"policy">> \o Rest(c), [newpol |-> pol])
         /\ UNCHANGED <<owed, Others>>
    ELSE Quit(c, "failed")

PolicyWritten(c) ==
    /\ Doing(c, "policy")
    /\ tree' = IF tree.state THEN [tree EXCEPT !.policy = cli[c].newpol] ELSE tree
    /\ Step(c, Rest(c), [x \in {} |-> 0])
    /\ owed' = IF cli[c].cmd[1] = "policy" THEN [owed EXCEPT !.policy = cli[c].newpol] ELSE owed
    /\ UNCHANGED Others

-----------------------------------------------------------------------------
\* Loading needs both files; the command goes on with a copy of them.
Loadable == tree.yaml.state = "ok" /\ tree.policy \in {"default", "edited"}

LoadRuntime(c) ==
    /\ Doing(c, "load")
    /\ IF Loadable THEN Go(c, Rest(c), [cfg |-> tree.yaml.cfg, pol |-> tree.policy])
                   ELSE Quit(c, "failed")

\* Laying a runtime out: without --force, only where there is none.
Vacant(c) ==
    /\ Doing(c, "vacant")
    /\ IF tree.made THEN Quit(c, "failed") ELSE Pass(c)

\* remove_dir_all takes the parts in whatever order it finds them.
Parts == {"state", "workspace", "homes", "bridges"}
Without(t, part) ==
    CASE part = "state" -> [t EXCEPT !.state = FALSE, !.yaml = Nothing.yaml, !.policy = "absent"]
      [] part = "workspace" -> [t EXCEPT !.workspace = FALSE]
      [] part = "homes" -> [t EXCEPT !.home = Nothing.home]
      [] part = "bridges" -> [t EXCEPT !.channel = Nothing.channel, !.pidfile = Nothing.pidfile,
                                         !.log = Nothing.log]

RemoveDirAll(c) ==
    /\ Doing(c, "remove_dir")
    /\ LET left == {part \in Parts : Without(tree, part) # tree}
       IN  \/ left = {} /\ tree' = Nothing /\ Step(c, Rest(c), [x \in {} |-> 0])
           \/ \E part \in left : tree' = Without(tree, part) /\ cli' = cli
    /\ owed' = IF cli[c].cmd[1] = "keep" THEN owed ELSE NoDebt
    /\ UNCHANGED Others

LaidOut(t) == [t EXCEPT !.made = TRUE, !.state = TRUE, !.workspace = TRUE]
MakeDirs(c) ==
    /\ Doing(c, "make_dirs")
    /\ Alter(c, LaidOut(tree), Rest(c))

WriteDefaultPolicy(c) == Doing(c, "default_policy") /\ WritePolicy(c, "default")
WriteDefaultConfig(c) ==
    /\ Doing(c, "default_config")
    /\ WriteYaml(c, DefaultConfig, Rest(c), [x \in {} |-> 0])

InitLayout == <<"make_dirs", "default_policy", "default_config">>

\* What a reset keeps is in memory only until it is written back.
RestoreConfig(c) ==
    /\ Doing(c, "restore_config")
    /\ WriteYaml(c, cli[c].cfg, Rest(c), [x \in {} |-> 0])
RestorePolicy(c) == Doing(c, "restore_policy") /\ WritePolicy(c, cli[c].pol)
EnsureArtifacts(c) == Doing(c, "ensure_artifacts") /\ Alter(c, LaidOut(tree), Rest(c))

\* Fault: it lays the runtime out after it has written back what it keeps.
KeepConfigResetBackwards ==
    <<"load", "remove_dir", "make_dirs", "restore_config", "restore_policy">> \o InitLayout
KeepConfigReset == <<"load", "remove_dir">> \o InitLayout
                   \o <<"restore_config", "restore_policy", "ensure_artifacts">>

-----------------------------------------------------------------------------
\* The Control Panel stores a setting, clamped, or none if one is refused.
ApplyPatch(c) ==
    /\ Doing(c, "patch")
    /\ \E p \in scene.patches :
        IF p.wait = 0 THEN Quit(c, "failed")
        ELSE LET cfg == [cli[c].cfg EXCEPT !.bind = p.bind,
                                           !.wait = IF p.wait > MaxWait THEN MaxWait ELSE p.wait]
             IN  WriteYaml(c, cfg, <<"stored">> \o Rest(c), [cfg |-> cfg])

SavePolicy(c) == Doing(c, "edit_policy") /\ WritePolicy(c, "edited")

\* A run binds the Control Panel to the tailnet if there is one.
AutoBind(c) ==
    /\ Doing(c, "autobind")
    /\ \E host \in scene.hosts :
        LET cfg == [cli[c].cfg EXCEPT !.bind.host = host]
        IN  IF cfg = cli[c].cfg THEN Pass(c)
            ELSE IF tree.state THEN WriteYaml(c, cfg, <<"stored">> \o Rest(c), [cfg |-> cfg])
            ELSE Go(c, Rest(c), [cfg |-> cfg])

\* Whatever had to be done is done.
Finish(c) == Doing(c, "done") /\ Quit(c, "done")

FileSteps(c) ==
    \/ YamlWritten(c) \/ PolicyWritten(c) \/ LoadRuntime(c) \/ Vacant(c) \/ RemoveDirAll(c)
    \/ MakeDirs(c) \/ WriteDefaultPolicy(c) \/ WriteDefaultConfig(c) \/ RestoreConfig(c)
    \/ RestorePolicy(c) \/ EnsureArtifacts(c) \/ ApplyPatch(c) \/ SavePolicy(c) \/ AutoBind(c)
    \/ Finish(c)
=============================================================================
