---------------------------- MODULE MCPolicyEngine -----------------------------
(* Three paths, two hosts, and every request about them with the flags the   *)
(* callers set together.                                                     *)
EXTENDS PolicyEngine

CONSTANTS bin, unlisted, work, h1, h2

ThreePaths == {bin, unlisted, work}

PathMarks ==
    [p \in ThreePaths |->
        CASE p = bin -> {"SystemCritical", "UserData", "execPrefix"}
          [] p = unlisted -> {"rootOwned"}
          [] p = work -> {"Workspace", "inWorkspace", "Secrets"}]

TwoHosts == {h1, h2}

Req(kind, path, host, flags) ==
    [kind |-> kind, path |-> path, second |-> NoPath, host |-> host, flags |-> flags]

PathRequests ==
    {Req(k, p, NoHost, {}) :
        k \in FileKinds \cup {"Persistence", "SecretsRead", "ExportCommit"}, p \in ThreePaths}
    \cup {Req("FileDelete", p, NoHost, {f}) : p \in ThreePaths, f \in {"wildcard", "many"}}
    \cup {Req("Execute", p, NoHost, fs) :
            p \in ThreePaths,
            fs \in SUBSET {"downloaded", "interpreter", "scriptInWorkspace"} \cup {{"stream"}}}
    \cup {Req("Persistence", p, NoHost, {f}) :
            p \in ThreePaths, f \in {"suspicious", "systemScope"}}

HostRequests ==
    {Req("NetworkEgress", NoPath, h, fs) :
        h \in TwoHosts \cup {NoHost}, fs \in SUBSET {"post", "upload"}}
    \cup {Req("Download", NoPath, h, fs) :
            h \in TwoHosts \cup {NoHost}, fs \in SUBSET {"marksExecutable"}}

\* A rename that lacks its destination.
HalfRename == [kind |-> "FileRename", path |-> NoPath, second |-> work, host |-> NoHost,
               flags |-> {}]

AllRequests == PathRequests \cup HostRequests \cup {HalfRename}

Followed == {Req("FileWrite", p, NoHost, {}) : p \in ThreePaths}
            \cup {Req("Execute", p, NoHost, {}) : p \in ThreePaths}
            \cup {Req("NetworkEgress", NoPath, h1, {"post"})}

DefaultPolicy ==
    [zone |-> [Workspace |-> "allow", UserData |-> "allow", Shared |-> "approval",
               SystemCritical |-> "deny", Secrets |-> "deny"],
     denyWorkspaceExec |-> TRUE, denyTmpExec |-> TRUE, quarantineChain |-> TRUE,
     denyAutostart |-> FALSE, elevation |-> TRUE,
     defaultDeny |-> TRUE, postAsks |-> TRUE,
     allowHosts |-> {h1}, invertAllow |-> FALSE, denyHosts |-> {}, invertDeny |-> FALSE]

NetworkPolicies ==
    {[DefaultPolicy EXCEPT !.defaultDeny = d, !.postAsks = d, !.allowHosts = a,
                           !.invertAllow = ia, !.denyHosts = n, !.invertDeny = id] :
        d \in BOOLEAN, a \in {{}, {h1}}, ia \in BOOLEAN, n \in {{}, {h1}, {h2}},
        id \in BOOLEAN}

FilePolicies ==
    {[DefaultPolicy EXCEPT !.quarantineChain = q, !.denyWorkspaceExec = w,
                           !.zone["Shared"] = s, !.zone["SystemCritical"] = c] :
        q \in BOOLEAN, w \in BOOLEAN, s \in {"allow", "approval"}, c \in {"approval", "deny"}}

ManyPolicies == NetworkPolicies \cup FilePolicies
OnePolicy == {DefaultPolicy}
=============================================================================
