----------------------------- MODULE RuntimeSetup -----------------------------
(***************************************************************************)
(* A runtime from `init' to `purge': the commands that lay it out, set a   *)
(* runner up, change settings, run and remove the runner, and the requests *)
(* of the Control Panel that do the same, each as the list of its steps    *)
(* (src/agent_ruler.rs, src/cli/setup.rs, src/ui.rs,                       *)
(* src/helpers/ui/runtime_api.rs).                                         *)
(*                                                                         *)
(* Commands may overlap and may die between any two steps; the runner may  *)
(* rewrite its configuration, and be uninstalled.  A behaviour has a scene:*)
(* what is there at first and what may happen.                             *)
(***************************************************************************)
EXTENDS RunnerHome, RunnerBridge

CONSTANTS Scenes

Lines == ({"setup", "run", "remove"} \X Runners) \cup ({"update"} \X (Runners \cup {NoRunner}))
         \cup ({"init", "force", "keep", "purge", "purge_at", "status", "policy"} \X {NoRunner})

\* At first the files are in their directories, bridges are of runners that
\* have one; when a process that is no bridge ends is not looked at.
ASSUME SceneAssumption ==
    \A s \in Scenes :
        /\ s.tree \in Trees
        /\ (s.tree.state => s.tree.made) /\ (s.tree.yaml.state = "ok" => s.tree.state)
        /\ \A b \in Bots :
            /\ s.bots[b] \in [of : Bridged \cup {NoRunner, "other"}, ours : BOOLEAN,
                              state : {"gone", "starting", "polling"}, token : Nat]
            /\ s.bots[b].state # "gone" /\ s.bots[b].ours => s.bots[b].of \in Bridged
            /\ s.bots[b].of = "other" => s.bots[b].state = "polling"
        /\ s.lines \subseteq Lines /\ s.patches \subseteq [bind : Binds, wait : Nat]
        /\ s.hosts \subseteq Hosts /\ s.tokens \subseteq Nat
        /\ s.host \subseteq Credentials \cup {"home", "bare", "unparsable"}
        /\ s.mortal \subseteq Bridged \cup {"cli"}

Init ==
    /\ scene \in Scenes
    /\ tree = scene.tree
    /\ cli = [c \in Clis |-> Idle]
    /\ installed = scene.installed
    /\ bot = [b \in Bots |-> scene.bots[b]]
    /\ ending = [c \in Clis |-> AtRest]
    /\ begun = 0 /\ disturbed = FALSE
    /\ owed = IF scene.tree.yaml.state = "ok"
              THEN Settings(scene.tree.yaml.cfg, scene.tree.policy) ELSE NoDebt

Checked == <<"load", "reconcile">>      \* how most commands load the runtime
SetupSteps(k) ==
    <<"load", "provision", "import">>
    \o (CASE k = "openclaw" -> <<"bootstrap", "write_config", "repair_auth", "verify_import", "alias">>
          [] k = "claudecode" -> <<"guard">>
          [] k = "opencode" -> <<"write_config">>)
    \o <<"save_runner", "validate">> \o SyncSteps

RunSteps(k) ==
    <<"load", "target", "reconcile", "available", "autobind">>
    \o (CASE k = "openclaw" -> SyncSteps \o <<"alias", "guard", "repair_auth">>
          [] k = "claudecode" -> <<"seed", "guard", "check_auth">>
          [] k = "opencode" -> <<"seed", "guard">>)
    \o <<"launch">>

\* A purge of the runtime at a path or of a project does not load it.
Steps(op, k) ==
    CASE op = "init" -> <<"vacant">> \o InitLayout
      [] op = "force" -> <<"remove_dir">> \o InitLayout
      [] op = "keep" -> KeepConfigReset
      [] op = "purge" -> <<"load", "remove_dir">>
      [] op = "purge_at" -> <<"remove_dir">>
      [] op = "setup" -> SetupSteps(k)
      [] op = "remove" -> <<"load", "match", "drop_home", "drop_workspace", "unlink">>
      [] op = "status" -> Checked
      [] op = "run" -> RunSteps(k)
      [] op = "update" -> <<"load", "patch", "channel">> \o SyncSteps
      [] op = "policy" -> <<"load", "edit_policy">>

\* While all is quiet, what has been disturbed is over: what the overlapping
\* commands left behind is what the next ones find.
Begin(c, cmd) ==
    /\ cli[c].todo = <<>> /\ begun < scene.commands /\ Cardinality(Active) < scene.active
    /\ \A d \in Clis : cli[d].todo = <<>> => c <= d
    /\ begun' = begun + 1
    /\ disturbed' = (Active # {})
    /\ owed' = IF disturbed /\ Active = {} THEN NoDebt ELSE owed
    /\ cli' = [d \in Clis |->
                 IF d = c THEN [Idle EXCEPT !.cmd = cmd, !.out = "busy",
                                            !.todo = Steps(cmd[1], cmd[2]) \o <<"done">>]
                 ELSE IF Active = {} THEN Idle ELSE cli[d]]
    /\ UNCHANGED <<tree, installed, bot, ending, scene>>

\* An update may enable or disable the bridge it is about.  A token that is none
\* is refused, when the settings are stored already.
Channel(c) ==
    /\ Doing(c, "channel")
    /\ IF Kind(c) \notin Bridged THEN Alter(c, tree, Rest(c))
       ELSE \E token \in scene.tokens :
            IF IsToken(token) THEN Alter(c, [tree EXCEPT !.made = TRUE, !.channel[Kind(c)] = token], Rest(c))
                              ELSE Quit(c, "failed")

Crash(c) ==
    /\ "cli" \in scene.mortal /\ cli[c].todo # <<>>
    /\ Ends(c, "crashed")
    /\ disturbed' = TRUE
    /\ bot' = [b \in Bots |-> IF bot[b].state = "refused" /\ cli[c].bot = b THEN NoBot ELSE bot[b]]
    /\ ending' = [ending EXCEPT ![c] = AtRest]
    /\ UNCHANGED <<tree, installed, begun, owed, scene>>

\* The runner rewrites its configuration, without the tools.
Drift(k) ==
    /\ k \in scene.drifting /\ tree.home[k].file = "ok"
    /\ tree' = [tree EXCEPT !.home[k].tools = Unwired]
    /\ disturbed' = (disturbed \/ Active # {})
    /\ UNCHANGED <<cli, installed, bot, ending, begun, owed, scene>>

Reinstall(k) ==
    /\ k \in scene.vanishing /\ Active = {}
    /\ installed' = IF k \in installed THEN installed \ {k} ELSE installed \cup {k}
    /\ UNCHANGED <<tree, cli, bot, ending, begun, owed, disturbed, scene>>

Next ==
    \/ \E c \in Clis : \/ \E cmd \in scene.lines : Begin(c, cmd)
                       \/ FileSteps(c) \/ HomeSteps(c) \/ SyncStep(c) \/ Channel(c) \/ Crash(c)
    \/ \E b \in Bots : BotMove(b)
    \/ \E k \in Runners : Drift(k) \/ Reinstall(k)

Spec == Init /\ [][Next]_all

-----------------------------------------------------------------------------
\* A command that runs alone and launches a runner launches it wired to the
\* Control Panel of the settings in force, whatever the runner, an earlier
\* command, or the death of one has left in its home; of a file that does not
\* parse nothing is said, and of OpenClaw's nothing if there is none.
Launched(c) == cli[c].out # "launched" /\ cli'[c].out = "launched"
WiredNow(k) == tree.home[k].tools = Wiring(k, tree.yaml.cfg)
LaunchIsWired ==
    [][\A c \in Clis : Launched(c) /\ ~disturbed /\ tree.yaml.state = "ok" =>
            LET k == Kind(c)
            IN  \/ tree.home[k].file = "ok" /\ WiredNow(k)
                \/ tree.home[k].file = "torn"
                \/ tree.home[k].file = "absent" /\ k = "openclaw"]_all

\* The home of a runner that has been set up, and not removed since, is wired
\* when it is launched, after a reset that keeps the configuration as well.
KeptRunnerIsWired ==
    [][\A c \in Clis : Launched(c) /\ ~disturbed =>
            tree.home[Kind(c)].file = "ok" /\ WiredNow(Kind(c))]_all

\* A setup that runs alone never ends with a home that it finds invalid itself:
\* whatever it imports, it pins and wires afterwards.
SetupIsValid == \A c \in Clis : ~disturbed => cli[c].out # "invalid"

\* With all quiet, and no command overlapped or dead since the last time, the
\* settings and the policy are those stored last: setup, a missing runner, its
\* removal, a reset that keeps the configuration leave them alone.
SettingsAreKept ==
    Active = {} /\ ~disturbed /\ owed.bound /\ Loadable =>
        Settings(tree.yaml.cfg, tree.policy) = owed

\* A command that says the bridges are in step leaves no bridge of this runtime
\* but that of the runner that is set up; where it restarts it, with the token
\* it is configured with.  (An earlier one may have survived its stop and been
\* forgotten: a sync that restarts nothing leaves it beside a new one.)
BridgeFollowsRunner ==
    \A c \in Clis : cli[c].stage = "synced" /\ cli[c].todo # <<>> /\ ~disturbed =>
        \A b \in Bots : Alive(b) /\ bot[b].ours =>
            /\ bot[b].of = Selected(c)
            /\ Forced(c) => bot[b].token = tree.channel[bot[b].of]

\* A process that is no bridge is never signalled for a pid that a bridge had
\* before and that may still be recorded, with commands overlapping or dying at
\* any point.  (A latecomer may be: a pid is not looked at again between the time
\* it is collected and the signals.)
BystandersLive ==
    [][\A b \in Bots : bot[b].of = "other" => bot'[b] = bot[b]]_all
=============================================================================
