------------------------------ MODULE PolicyRules ------------------------------
(***************************************************************************)
(* src/policy/: what the policy engine decides of one action request,      *)
(* given the policy and the zone of its path.  Pure.                       *)
(*                                                                         *)
(* A path is abstracted to its marks: the pattern lists it is on, and what *)
(* else the code asks of it.  Which patterns match a path is fixed; the    *)
(* dispositions, switches and host lists of the policy are not.  Metadata  *)
(* entries that are "true" are flags.  The wording of details is left out. *)
(***************************************************************************)
CONSTANTS
    Paths,      \* paths of files
    Hosts,      \* hosts of network requests
    Marks       \* Marks[p]: what holds of path p

NoPath == "no path"
NoHost == "no host"

Zones == {"Secrets", "SystemCritical", "Shared", "Workspace", "UserData"}

MarkNames == Zones \cup
    {"rootOwned",       \* helpers.rs, owner_uid
     "inWorkspace",     \* is_subpath of the workspace
     "temporary",       \* helpers.rs, is_tmp_path
     "execPrefix",      \* on the list allowed_exec_prefixes
     "persistDeny",     \* on the list persistence.deny_paths
     "persistAsk",      \* on the list persistence.approval_paths
     "systemScope",     \* infer_persistence_scope gives "system"
     "autostart",       \* looks_like_user_autostart
     "ruler",           \* named agent-ruler
     "delivery"}        \* within default_delivery_dir

ASSUME MarksAssumption ==
    /\ Marks \in [Paths -> SUBSET MarkNames]
    /\ NoPath \notin Paths
    /\ NoHost \notin Hosts
    /\ \A p \in Paths : "inWorkspace" \in Marks[p] => "Workspace" \in Marks[p]

FileKinds == {"FileWrite", "FileDelete", "FileRename"}

Kinds == FileKinds \cup {"Execute", "Persistence", "SecretsRead", "ExportCommit",
                         "NetworkEgress", "Download"}

Dispositions == {"allow", "approval", "deny"}

Policies ==
    [zone : [Zones -> Dispositions],
     denyWorkspaceExec : BOOLEAN, denyTmpExec : BOOLEAN, quarantineChain : BOOLEAN,
     denyAutostart : BOOLEAN, elevation : BOOLEAN,
     defaultDeny : BOOLEAN, postAsks : BOOLEAN,
     allowHosts : SUBSET Hosts, invertAllow : BOOLEAN,
     denyHosts : SUBSET Hosts, invertDeny : BOOLEAN]

Is(path, mark) == mark \in Marks[path]
Has(req, flag) == flag \in req.flags

Allow == [verdict |-> "Allow", reason |-> "AllowedByPolicy"]
Ask(reason) == [verdict |-> "RequireApproval", reason |-> reason]
Deny(reason) == [verdict |-> "Deny", reason |-> reason]
Quarantine(reason) == [verdict |-> "Quarantine", reason |-> reason]

-----------------------------------------------------------------------------
(* Zones *)

Classify(path, kind) ==
    IF Is(path, "Secrets") THEN "Secrets"
    ELSE IF Is(path, "SystemCritical") THEN "SystemCritical"
    ELSE IF Is(path, "Shared") THEN "Shared"
    ELSE IF Is(path, "Workspace") THEN "Workspace"
    ELSE IF Is(path, "UserData") THEN "UserData"
    ELSE IF ~Is(path, "rootOwned") THEN "UserData"
    ELSE IF kind \in FileKinds \cup {"Persistence"} THEN "SystemCritical"
    ELSE "Shared"

\* The zone cache of an engine, by path.
Unknown == "unknown"
EmptyCache == [p \in Paths |-> Unknown]

ZoneOf(cache, path, kind) ==
    IF cache[path] = Unknown THEN Classify(path, kind) ELSE cache[path]

\* Fault: a path is filed under the zone of the last kind it was asked for.
RememberLast(cache, path, kind) == [cache EXCEPT ![path] = Classify(path, kind)]

Remember(cache, path, kind) == [cache EXCEPT ![path] = ZoneOf(cache, path, kind)]

DenyReason(zone) ==
    CASE zone = "SystemCritical" -> "DenySystemCritical"
      [] zone = "Secrets" -> "DenySecrets"
      [] zone = "UserData" -> "DenyUserDataWrite"
      [] OTHER -> "DenyInvalidRequest"

ByZone(policy, zone, asking, denying) ==
    CASE policy.zone[zone] = "allow" -> Allow
      [] policy.zone[zone] = "approval" -> Ask(asking)
      [] policy.zone[zone] = "deny" -> Deny(denying)

-----------------------------------------------------------------------------
(* Decisions by kind *)

EvaluateFilesystem(policy, req, zone) ==
    IF req.path = NoPath THEN Deny("DenyInvalidRequest")
    ELSE IF req.kind = "FileDelete" /\ (Has(req, "wildcard") \/ Has(req, "many"))
    THEN Ask("ApprovalRequiredMassDelete")
    ELSE ByZone(policy, zone, "ApprovalRequiredZone2", DenyReason(zone))

\* Fault: without the quarantine rule a downloaded file is asked about.
EvaluateDownloadedAsking(policy, req) ==
    IF Has(req, "interpreter") THEN Quarantine("QuarantineInterpreterDownload")
    ELSE IF policy.quarantineChain THEN Quarantine("QuarantineDownloadExecChain")
    ELSE Ask("ApprovalRequiredZone2")

EvaluateDownloaded(policy, req) ==
    IF Has(req, "interpreter") THEN Quarantine("QuarantineInterpreterDownload")
    ELSE IF policy.quarantineChain THEN Quarantine("QuarantineDownloadExecChain")
    ELSE Deny("DenyExecutionDownloaded")

EvaluateExecution(policy, req, zone) ==
    IF req.path = NoPath THEN Deny("DenyInvalidRequest")
    ELSE IF Is(req.path, "ruler") \/ Has(req, "ruler") THEN Deny("DenySystemCritical")
    ELSE IF Has(req, "stream") THEN Deny("DenyInterpreterStreamExec")
    ELSE IF Has(req, "downloaded") THEN EvaluateDownloaded(policy, req)
    ELSE IF Has(req, "interpreter") /\ Has(req, "scriptInWorkspace")
    THEN Quarantine("QuarantineInterpreterDownload")
    ELSE IF policy.denyWorkspaceExec /\ Is(req.path, "inWorkspace")
    THEN Deny("DenyExecutionFromWorkspace")
    ELSE IF policy.denyTmpExec /\ Is(req.path, "temporary") THEN Deny("DenyExecutionFromTemp")
    ELSE IF Is(req.path, "execPrefix") THEN Allow
    ELSE ByZone(policy, zone, "ApprovalRequiredZone2", DenyReason(zone))

\* Fault: whatever a list names counts as an explicit match, inverted or not.
HostAllowedIfNamed(policy, host) ==
    \/ host \in policy.allowHosts \cup policy.denyHosts
    \/ ~policy.defaultDeny

\* An empty list restricts nothing.  Under default-deny one of the lists must
\* name the host as allowed: the allowlist, or the denylist if inverted.
HostAllowed(policy, host) ==
    /\ policy.allowHosts # {} => (policy.invertAllow # (host \in policy.allowHosts))
    /\ policy.denyHosts # {} => (policy.invertDeny = (host \in policy.denyHosts))
    /\ policy.defaultDeny =>
          \/ host \in policy.allowHosts /\ ~policy.invertAllow
          \/ host \in policy.denyHosts /\ policy.invertDeny

EvaluateNetwork(policy, req) ==
    IF req.host = NoHost
    THEN IF policy.defaultDeny THEN Deny("DenyNetworkDefault") ELSE Allow
    ELSE IF ~HostAllowed(policy, req.host) THEN Deny("DenyNetworkNotAllowlisted")
    ELSE IF (policy.postAsks /\ Has(req, "post")) \/ Has(req, "upload")
    THEN Ask("ApprovalRequiredNetworkUpload")
    ELSE Allow

EvaluateDownload(policy, req) ==
    IF req.host # NoHost /\ ~HostAllowed(policy, req.host)
    THEN Deny("DenyNetworkNotAllowlisted")
    ELSE IF Has(req, "marksExecutable") THEN Ask("ApprovalRequiredZone2")
    ELSE Allow

\* The scope the metadata state, or else the one the path suggests.
InSystemScope(req) ==
    \/ Has(req, "systemScope")
    \/ ~Has(req, "userScope") /\ Is(req.path, "systemScope")

EvaluatePersistence(policy, req, zone) ==
    IF req.path = NoPath THEN Deny("DenyInvalidRequest")
    ELSE IF Has(req, "suspicious") THEN Quarantine("QuarantineHighRiskPattern")
    ELSE IF Is(req.path, "persistDeny") THEN Deny("DenyPersistence")
    ELSE IF InSystemScope(req) \/ Is(req.path, "persistAsk")
    THEN Ask("ApprovalRequiredPersistence")
    ELSE IF policy.denyAutostart /\ Is(req.path, "autostart") THEN Deny("DenyPersistence")
    ELSE ByZone(policy, zone, "ApprovalRequiredPersistence", "DenyPersistence")

EvaluateExport(req, zone) ==
    IF req.path = NoPath THEN Deny("DenyInvalidRequest")
    ELSE IF zone = "Workspace" THEN Allow
    ELSE IF zone \in {"UserData", "Shared"} THEN Ask("ApprovalRequiredExport")
    ELSE Deny(DenyReason(zone))

-----------------------------------------------------------------------------
(* PolicyEngine::evaluate *)

\* The path that is classified: the second one if there is no first.
Target(req) == IF req.path # NoPath THEN req.path ELSE req.second

Classifies(req) == req.kind \notin {"NetworkEgress", "Download"} /\ Target(req) # NoPath

\* The decision on a request whose target, if it has one, is in the zone.
Decide(policy, req, zone) ==
    IF req.kind = "NetworkEgress" THEN EvaluateNetwork(policy, req)
    ELSE IF req.kind = "Download" THEN EvaluateDownload(policy, req)
    ELSE IF Target(req) = NoPath THEN Deny("DenyInvalidRequest")
    ELSE CASE req.kind \in FileKinds -> EvaluateFilesystem(policy, req, zone)
           [] req.kind = "Execute" -> EvaluateExecution(policy, req, zone)
           [] req.kind = "Persistence" -> EvaluatePersistence(policy, req, zone)
           [] req.kind = "SecretsRead" -> Deny("DenySecrets")
           [] req.kind = "ExportCommit" -> EvaluateExport(req, zone)

ZoneFor(cache, req) ==
    IF Classifies(req) THEN ZoneOf(cache, Target(req), req.kind) ELSE Unknown

CacheAfter(cache, req) ==
    IF Classifies(req) THEN Remember(cache, Target(req), req.kind) ELSE cache

Evaluate(policy, cache, req) == Decide(policy, req, ZoneFor(cache, req))
=============================================================================
