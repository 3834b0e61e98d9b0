---------------------------- MODULE MCRuntimeSetup ----------------------------
(* A runtime from nothing, with an OpenClaw to import; one with bridges and   *)
(* pids inherited; one whose runner goes and comes back; commands that        *)
(* overlap; and a reset that keeps the configuration.                         *)
EXTENDS RuntimeSetup

Laid == [Nothing EXCEPT !.made = TRUE, !.state = TRUE, !.workspace = TRUE,
                        !.yaml.state = "ok", !.policy = "default"]
Ready(k, token) ==
    LET cfg == [DefaultConfig EXCEPT !.runner = k]
    IN  [Laid EXCEPT !.yaml.cfg = cfg,
                     !.home[k] = [NoHome EXCEPT !.dir = TRUE, !.file = "ok", !.tools = Wiring(k, cfg),
                                                !.pinned = (k = "openclaw")],
                     !.channel = [r \in Bridged |-> token]]
Gone == [b \in Bots |-> NoBot]
Polling(r) == [NoBot EXCEPT !.of = r, !.ours = TRUE, !.state = "polling", !.token = 1]
Elsewhere(r) == [Polling(r) EXCEPT !.ours = FALSE]

Plain == [tree |-> Laid, bots |-> Gone, installed |-> Runners, lines |-> {}, commands |-> 3,
          active |-> 1, patches |-> {[bind |-> DefaultConfig.bind, wait |-> 1]}, hosts |-> {"local"},
          asks |-> FALSE, tokens |-> {0}, host |-> {}, mortal |-> {}, arrivals |-> {},
          drifting |-> {}, vanishing |-> {}]

Patch(port, wait) == [bind |-> [host |-> "local", port |-> port], wait |-> wait]
None == "none"

Life == [Plain EXCEPT !.tree = Nothing, !.commands = 5,
            !.lines = {<<"init", None>>, <<"setup", "openclaw">>, <<"run", "openclaw">>},
            !.host = {"home", "model", "key"}, !.mortal = {"cli"}, !.drifting = {"openclaw"}]
Poor(host) == [Life EXCEPT !.tree = Laid, !.commands = 3, !.host = {"home"} \cup host]
Changes == [Plain EXCEPT !.tree = Ready("openclaw", 0),
            !.lines = {<<"update", None>>, <<"policy", None>>, <<"setup", "openclaw">>,
                       <<"run", "openclaw">>, <<"keep", None>>, <<"force", None>>, <<"purge", None>>,
                       <<"purge_at", None>>},
            !.patches = {Patch(2, 3), Patch(1, 0)}, !.hosts = {"local", "tailnet"},
            !.commands = 4, !.host = {"home", "key", "legacy"}, !.drifting = {"openclaw"}, !.mortal = {"cli"}]
Bridges == [Plain EXCEPT !.tree = [Ready("claudecode", 1) EXCEPT !.pidfile["claudecode"] = 1],
            !.bots = [Gone EXCEPT ![1] = Polling("claudecode")],
            !.lines = {<<"setup", "claudecode">>, <<"setup", "opencode">>, <<"setup", "openclaw">>,
                       <<"update", "claudecode">>, <<"update", "opencode">>, <<"run", "claudecode">>,
                       <<"run", "opencode">>},
            !.commands = 3, !.tokens = {0, 2, NotAToken}, !.host = {"settings", "login"},
            !.mortal = {"claudecode", "opencode"}, !.arrivals = {"other"}]
Owned == [Bridges EXCEPT !.tree.pidfile["claudecode"] = 0, !.tree.home = Nothing.home,
            !.bots = [Gone EXCEPT ![2] = Elsewhere("claudecode")],
            !.lines = {<<"setup", "claudecode">>, <<"update", "claudecode">>},
            !.mortal = {"cli", "claudecode"}, !.tokens = {1, 2}]
Missing(k) == [Plain EXCEPT !.tree = Ready(k, 0), !.vanishing = {k}, !.asks = TRUE,
            !.lines = {<<"status", None>>, <<"run", k>>, <<"remove", k>>, <<"setup", k>>},
            !.drifting = {k}]
Overlap == [Plain EXCEPT !.tree = Ready("claudecode", 1), !.active = 2, !.commands = 3,
            !.lines = {<<"setup", "opencode">>, <<"update", "claudecode">>, <<"keep", None>>},
            !.tokens = {0, 1}, !.mortal = {"claudecode"}, !.arrivals = {"other"}]

MCScenes == {Life, Poor({"bare"}), Poor({"bare", "legacy"}), Poor({"unparsable", "key"}),
             Changes, Bridges, Owned, Overlap} \cup {Missing(k) : k \in Runners}
Kept == {[Plain EXCEPT !.tree = Ready("openclaw", 0), !.lines = {<<"keep", None>>, <<"run", "openclaw">>}]}
=============================================================================
