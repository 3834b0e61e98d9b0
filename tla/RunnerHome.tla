------------------------------ MODULE RunnerHome ------------------------------
(***************************************************************************)
(* What setup, run and remove do to a runner's managed home, and to the    *)
(* association of the runtime with its runner (src/runners/).              *)
(*                                                                         *)
(* The home holds the runner's configuration, rewritten by the runner as   *)
(* well; in it Agent Ruler wires its tools: OpenClaw's plugin, OpenCode's  *)
(* plugin and MCP server, the permission profile of Claude Code.  Setup    *)
(* writes the wiring and validates it, every run restores it.              *)
(***************************************************************************)
EXTENDS RuntimeFiles

Kind(c) == cli[c].cmd[2]
Home(c) == tree.home[Kind(c)]
Same == [x \in {} |-> 0]

\* What the tools must say for a runtime's settings: runners call the Control
\* Panel on loopback, so that of its bind address the port matters.
Plugin(cfg) == [on |-> TRUE, port |-> cfg.bind.port, wait |-> cfg.wait]
Profile == [on |-> TRUE, port |-> 0, wait |-> 0]
Governance(cfg) == [on |-> TRUE, port |-> cfg.bind.port, wait |-> 0]
Wiring(k, cfg) == CASE k = "openclaw" -> Plugin(cfg)
                    [] k = "claudecode" -> Profile
                    [] k = "opencode" -> Governance(cfg)

\* A home is written as a whole or is torn; its directories are made first.
WriteHome(c, home, todo) ==
    /\ tree' = [tree EXCEPT !.made = TRUE, !.home[Kind(c)].dir = TRUE, !.home[Kind(c)].file = "torn"]
    /\ Step(c, <<"home">> \o todo, [newhome |-> [home EXCEPT !.dir = TRUE, !.file = "ok"]])
    /\ UNCHANGED <<owed, Others>>

HomeWritten(c) ==
    /\ Doing(c, "home")
    /\ Alter(c, IF Home(c).dir THEN [tree EXCEPT !.home[Kind(c)] = cli[c].newhome] ELSE tree, Rest(c))

ChangeHome(c, home, todo) == Alter(c, [tree EXCEPT !.made = TRUE, !.home[Kind(c)] = home], todo)

-----------------------------------------------------------------------------
\* Setup.  OpenClaw works in the runtime's own workspace.
Provision(c) ==
    /\ Doing(c, "provision")
    /\ Alter(c, [tree EXCEPT !.made = TRUE, !.home[Kind(c)].dir = TRUE,
                             !.workspace = @ \/ Kind(c) = "openclaw"], Rest(c))

\* Is there an OpenClaw home, Claude Code's settings, OpenCode's login on the host?
\* The home may be "bare", without a configuration, or have one that does not parse.
HostHome == "home" \in scene.host
HostSettings == "settings" \in scene.host
HostLogin == "login" \in scene.host

\* The state of the host's OpenClaw replaces the managed one.
ImportHome(c) == ChangeHome(c, [NoHome EXCEPT !.dir = TRUE], <<"clone">> \o Rest(c))
CopySettings(c) ==
    WriteHome(c, [Home(c) EXCEPT !.tools = Unwired, !.auth = @ \cup {"settings"}], Rest(c))
CopyLogin(c) == ChangeHome(c, [Home(c) EXCEPT !.dir = TRUE, !.auth = @ \cup {"login"}], Rest(c))

\* OpenClaw's is imported if the operator wants it, the others' if there are any.
Import(c) ==
    /\ Doing(c, "import")
    /\ CASE Kind(c) = "openclaw" -> Pass(c) \/ (HostHome /\ ImportHome(c))
         [] Kind(c) = "claudecode" -> IF HostSettings THEN CopySettings(c) ELSE Pass(c)
         [] Kind(c) = "opencode" -> IF HostLogin THEN CopyLogin(c) ELSE Pass(c)

OnHost == (scene.host \cap Credentials) \ {"settings", "login"}
Cloned ==
    LET file == IF "bare" \in scene.host THEN "absent"
                ELSE IF "unparsable" \in scene.host THEN "torn" ELSE "ok"
    IN  [NoHome EXCEPT !.dir = TRUE, !.file = file,
                       !.auth = IF file = "ok" THEN OnHost ELSE OnHost \ {"model", "config"}]
Clone(c) ==
    /\ Doing(c, "clone")
    /\ tree' = [tree EXCEPT !.made = TRUE, !.home["openclaw"] = Cloned]
    /\ Step(c, Rest(c), [stage |-> IF Cloned.file = "absent" /\ Cloned.auth = {}
                                   THEN cli[c].stage ELSE "imported"])
    /\ UNCHANGED <<owed, Others>>

\* `openclaw onboard', then `openclaw setup', make the first configuration;
\* they are trusted only with a configuration a gateway can use.
Bootstrap(c) ==
    /\ Doing(c, "bootstrap")
    /\ IF Home(c).file # "absent" THEN Pass(c)
       ELSE \/ /\ "openclaw" \in installed
               /\ ChangeHome(c, [Home(c) EXCEPT !.dir = TRUE, !.file = "ok", !.pinned = TRUE], Rest(c))
            \/ /\ \/ tree' = tree
                  \/ /\ "openclaw" \in installed
                     /\ tree' = [tree EXCEPT !.made = TRUE,
                                             !.home["openclaw"] = [@ EXCEPT !.dir = TRUE, !.file = "ok"]]
               /\ Ends(c, "failed")
               /\ UNCHANGED <<owed, Others>>

Wired(c) == [Home(c) EXCEPT !.tools = Wiring(Kind(c), cli[c].cfg)]
Pinned(c) == [Wired(c) EXCEPT !.pinned = TRUE]

\* Fault: the sections of the host's configuration are merged last.
SetUpThenMerged(c) == IF cli[c].stage = "imported" THEN [Home(c) EXCEPT !.tools = Unwired] ELSE Pinned(c)
\* Setup merges the sections of the host's configuration, which `Clone' has
\* copied, before it pins the workspace and the gateway and wires the tools.
SetUp(c) == Pinned(c)

WriteRunnerConfig(c) ==
    /\ Doing(c, "write_config")
    /\ IF Home(c).file = "torn" THEN Quit(c, "failed")
       ELSE LET home == IF Kind(c) = "openclaw" THEN SetUp(c) ELSE Wired(c)
            IN  IF home = Home(c) /\ home.file = "ok" /\ Kind(c) # "openclaw" THEN Pass(c)
                ELSE WriteHome(c, home, Rest(c))

\* Which profiles are listed for the provider of the selected model, and where:
\* in the configuration, in the list of profiles, in one of an old form.
Listed(home) == {"config", "profiles"} \cap home.auth # {}

\* The provider of the selected model gets a credential profile, in three
\* writes, if its key is known and no profile of it is listed.
Repairable(home) ==
    /\ home.file = "ok" /\ "model" \in home.auth
    /\ {"key", "store"} \cap home.auth # {}
    /\ ~Listed(home) \/ "legacy" \in home.auth

RepairAuth(c) ==
    /\ Doing(c, "repair_auth")
    /\ IF Home(c).file = "torn"
       THEN IF cli[c].cmd[1] = "run" THEN Pass(c) ELSE Quit(c, "failed")
       ELSE IF ~Repairable(Home(c)) THEN Pass(c)
       ELSE LET todo == <<"auth_store", "auth_profiles">> \o Rest(c)
            IN  IF "config" \in Home(c).auth THEN Go(c, todo, Same)
                ELSE WriteHome(c, [Home(c) EXCEPT !.auth = @ \cup {"config"}], todo)
StoreKey(c) ==
    /\ Doing(c, "auth_store")
    /\ ChangeHome(c, [Home(c) EXCEPT !.dir = TRUE, !.auth = @ \cup {"store"}], Rest(c))
StoreProfile(c) ==
    /\ Doing(c, "auth_profiles")
    /\ ChangeHome(c, [Home(c) EXCEPT !.dir = TRUE, !.auth = (@ \cup {"profiles"}) \ {"legacy"}], Rest(c))

\* An import fails if a file of credential profiles or keys that the host has is
\* not there, or there is no model, the host's if it has one, that can be resolved.
ProfilesThere(home) == {"profiles", "legacy"} \cap OnHost # {} => {"profiles", "legacy"} \cap home.auth # {}
StoreThere(home) == "store" \in OnHost => "store" \in home.auth
Resolvable(home) == home.file = "ok" /\ "model" \in home.auth
VerifyImport(c) ==
    /\ Doing(c, "verify_import")
    /\ IF /\ cli[c].stage = "imported"
          /\ ~(ProfilesThere(Home(c)) /\ StoreThere(Home(c)) /\ Resolvable(Home(c)))
       THEN Quit(c, "failed") ELSE Pass(c)

\* OpenClaw finds the workspace through a link in its home.
MediaAlias(c) ==
    /\ Doing(c, "alias")
    /\ Alter(c, [tree EXCEPT !.made = TRUE, !.home["openclaw"].dir = TRUE, !.workspace = TRUE], Rest(c))

SaveRunner(c) ==
    /\ Doing(c, "save_runner")
    /\ LET k == Kind(c)
           cfg == [cli[c].cfg EXCEPT !.runner = k, !.missing = k \in Bridged /\ k \notin installed,
                                     !.decision = "none"]
       IN  WriteYaml(c, cfg, Rest(c), [cfg |-> cfg, stage |-> ""])

\* Claude Code's setup checks its directories only.
ValidPins(home) == home.file = "ok" /\ home.pinned
ValidPlugin(home, cfg) == home.file = "ok" /\ home.tools = Plugin(cfg)
ValidGovernance(home, cfg) == home.file = "ok" /\ home.tools = Governance(cfg)
ValidOpenclaw(home, cfg) == home.dir /\ tree.workspace /\ ValidPins(home) /\ ValidPlugin(home, cfg)
Valid(k, cfg) ==
    CASE k = "openclaw" -> ValidOpenclaw(tree.home[k], cfg)
      [] k = "claudecode" -> TRUE
      [] k = "opencode" -> ValidGovernance(tree.home[k], cfg)
Validate(c) ==
    /\ Doing(c, "validate")
    /\ IF Valid(Kind(c), cli[c].cfg) THEN Pass(c) ELSE Quit(c, "invalid")

-----------------------------------------------------------------------------
\* Is the executable there?  If not, what is to become of the data is asked
\* once and remembered; without a terminal the data is kept.
Reconcile(c) ==
    /\ Doing(c, "reconcile")
    /\ LET cfg == cli[c].cfg
           found == [cfg EXCEPT !.missing = FALSE, !.decision = "none"]
           lost == [cfg EXCEPT !.missing = TRUE, !.decision = "none"]
           Save(new, todo) == WriteYaml(c, new, todo, [cfg |-> new])
       IN  IF cfg.runner = NoRunner \/ (cfg.runner \in installed /\ cfg = found) THEN Pass(c)
           ELSE IF cfg.runner \in installed THEN Save(found, Rest(c))
           ELSE IF cfg.missing THEN Go(c, <<"decide">> \o Rest(c), Same)
           ELSE Save(lost, <<"decide">> \o Rest(c))

Decide(c) ==
    /\ Doing(c, "decide")
    /\ IF cli[c].cfg.decision # "none" THEN Pass(c)
       ELSE \E d \in {"keep"} \cup IF scene.asks THEN {"delete", "rerun"} ELSE {} :
            IF d = "delete" THEN Go(c, <<"drop_home", "drop_workspace", "unlink">> \o Rest(c), Same)
            ELSE LET cfg == [cli[c].cfg EXCEPT !.decision = d]
                 IN  WriteYaml(c, cfg, Rest(c), [cfg |-> cfg])

\* The data of the runner in c's copy of the configuration goes; OpenClaw's
\* workspace is the workspace of the runtime.
DropHome(c) ==
    /\ Doing(c, "drop_home")
    /\ Alter(c, [tree EXCEPT !.home[cli[c].cfg.runner] = NoHome], Rest(c))
DropWorkspace(c) ==
    /\ Doing(c, "drop_workspace")
    /\ Alter(c, [tree EXCEPT !.workspace = @ /\ cli[c].cfg.runner # "openclaw"], Rest(c))
Unlink(c) ==
    /\ Doing(c, "unlink")
    /\ LET cfg == [cli[c].cfg EXCEPT !.runner = NoRunner, !.missing = FALSE, !.decision = "none"]
       IN  WriteYaml(c, cfg, Rest(c), [cfg |-> cfg])

\* `runner remove' does nothing about another runner than the one asked for.
Match(c) ==
    /\ Doing(c, "match")
    /\ IF cli[c].cfg.runner = Kind(c) THEN Pass(c) ELSE Quit(c, "done")

-----------------------------------------------------------------------------
\* A run: of the runner that was set up, and with its executable there.
Target(c) ==
    /\ Doing(c, "target")
    /\ IF cli[c].cfg.runner = Kind(c) THEN Pass(c) ELSE Quit(c, "failed")
Available(c) ==
    /\ Doing(c, "available")
    /\ IF cli[c].cfg.runner = Kind(c) /\ Kind(c) \notin installed THEN Quit(c, "failed") ELSE Pass(c)

\* What a home misses is copied from the host; a failure is only reported.
SeedSettings(c) == IF HostSettings /\ Home(c).file = "absent" THEN CopySettings(c) ELSE Pass(c)
SeedLogin(c) == IF HostLogin /\ "login" \notin Home(c).auth THEN CopyLogin(c) ELSE Pass(c)
Seed(c) ==
    /\ Doing(c, "seed")
    /\ IF Kind(c) = "claudecode" THEN SeedSettings(c) ELSE SeedLogin(c)

\* Fault: the guard looks at the switch only.
LooksWired(c) == Home(c).tools.on
IsWired(c) == Home(c) = Wired(c)

\* The wiring is restored where it differs.  OpenClaw's file is not made if it
\* is not there; a file that does not parse stops a setup; a run only reports it.
Guard(c) ==
    /\ Doing(c, "guard")
    /\ IF Home(c).file = "torn" /\ cli[c].cmd[1] = "setup" THEN Quit(c, "failed")
       ELSE IF Home(c).file = "torn" \/ (Home(c).file = "absent" /\ Kind(c) = "openclaw")
          \/ (Home(c).file = "ok" /\ IsWired(c))
       THEN Pass(c)
       ELSE WriteHome(c, Wired(c), Rest(c))

\* `claude auth status' may say no.
CheckAuth(c) == Doing(c, "check_auth") /\ (Pass(c) \/ Quit(c, "failed"))

Launches(c) == Doing(c, "launch") /\ Kind(c) \in installed
Launch(c) ==
    /\ Doing(c, "launch")
    /\ IF Kind(c) \in installed THEN Quit(c, "launched") ELSE Quit(c, "failed")

HomeSteps(c) ==
    \/ HomeWritten(c) \/ Provision(c) \/ Import(c) \/ Clone(c) \/ Bootstrap(c) \/ WriteRunnerConfig(c)
    \/ RepairAuth(c) \/ StoreKey(c) \/ StoreProfile(c) \/ VerifyImport(c) \/ MediaAlias(c)
    \/ SaveRunner(c) \/ Validate(c) \/ Reconcile(c) \/ Decide(c) \/ DropHome(c) \/ DropWorkspace(c)
    \/ Unlink(c) \/ Match(c) \/ Target(c) \/ Available(c) \/ Seed(c) \/ Guard(c) \/ CheckAuth(c)
    \/ Launch(c)
=============================================================================
