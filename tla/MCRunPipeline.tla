----------------------------- MODULE MCRunPipeline -----------------------------
(* Commands that between them have an action of every stage and meet every   *)
(* verdict.  Two tool calls run one executable with other arguments: they    *)
(* differ in what an approval compares but not in what create_pending does.  *)
EXTENDS RunPipeline, TLC

CONSTANTS bin, unlisted, work, home, h1, r1, r2

SomePaths == {bin, unlisted, work, home}

PathMarks ==
    [p \in SomePaths |->
        CASE p = bin -> {"SystemCritical", "execPrefix"}
          [] p = unlisted -> {"rootOwned"}
          [] p = work -> {"Workspace", "inWorkspace"}
          [] p = home -> {"Shared", "delivery"}]

OneHost == {h1}
TwoRuns == {r1, r2}
RunSymmetry == Permutations(TwoRuns)

Req(stage, kind, path, host, flags) ==
    [stage |-> stage, kind |-> kind, path |-> path, second |-> NoPath, host |-> host,
     flags |-> flags]

Plain ==
    [form |-> "plain", elevation |-> <<>>, utility |-> <<>>, persistence |-> <<>>,
     interpreter |-> <<>>, network |-> <<>>,
     exec |-> <<Req("exec", "Execute", bin, NoHost, {})>>]

Tool(kind, path, flags) ==
    [Plain EXCEPT !.form = "tool", !.exec = <<Req("tool", kind, path, NoHost, flags)>>]

\* A shell that makes a script persistent and runs it.
InstallScript ==
    [Plain EXCEPT
        !.persistence = <<Req("persistence", "Persistence", unlisted, NoHost, {"userScope"})>>,
        !.interpreter = <<Req("interpreter", "Execute", unlisted, NoHost, {"interpreter"})>>]

Upload(flags) ==
    [Plain EXCEPT !.network = <<Req("network", "NetworkEgress", NoPath, h1, flags)>>]

RunCommands ==
    {[Plain EXCEPT !.form = "gateway"],
     [Plain EXCEPT !.form = "strict"],
     [Plain EXCEPT !.exec = <<Req("exec", "Execute", unlisted, NoHost, {})>>],
     InstallScript,
     Upload({"post"}), Upload({"post", "upload"}),
     [Plain EXCEPT !.interpreter =
        <<Req("interpreter", "Execute", work, NoHost, {"interpreter", "scriptInWorkspace"})>>],
     [Plain EXCEPT !.utility = <<Req("utility", "FileDelete", home, NoHost, {})>>],
     [Plain EXCEPT !.elevation =
        <<Req("elevation", "Execute", bin, NoHost, {"install", "packages", "packagesListed"})>>]}

ToolCommands ==
    {Tool("FileWrite", unlisted, {"read"}), Tool("FileWrite", unlisted, {"internal"}),
     Tool("FileWrite", home, {}), Tool("FileDelete", bin, {"wildcard"}),
     Tool("Execute", unlisted, {}), Tool("Execute", unlisted, {"otherArguments"}),
     Tool("Execute", work, {"downloaded"})}

AllCommands == RunCommands \cup ToolCommands

DefaultPolicy ==
    [zone |-> [Workspace |-> "allow", UserData |-> "allow", Shared |-> "approval",
               SystemCritical |-> "deny", Secrets |-> "deny"],
     denyWorkspaceExec |-> TRUE, denyTmpExec |-> TRUE, quarantineChain |-> TRUE,
     denyAutostart |-> FALSE, elevation |-> TRUE,
     defaultDeny |-> TRUE, postAsks |-> TRUE,
     allowHosts |-> {h1}, invertAllow |-> FALSE, denyHosts |-> {}, invertDeny |-> FALSE]

Trusting == [DefaultPolicy EXCEPT !.zone["Shared"] = "allow"]

\* A policy written by hand that asks about system-critical paths.
Lenient == [DefaultPolicy EXCEPT !.zone["SystemCritical"] = "approval"]

ThreePolicies == {DefaultPolicy, Trusting, Lenient}
=============================================================================
