------------------------------ MODULE PolicyEngine ------------------------------
(***************************************************************************)
(* src/policy/mod.rs: an engine answers requests one after another and     *)
(* keeps the zone of each path it has seen.  Each command line run and     *)
(* each request to the Control Panel makes a new engine.                   *)
(***************************************************************************)
EXTENDS PolicyRules, Naturals

CONSTANTS
    Asked,          \* action requests
    Watched,        \* those whose decisions are remembered
    EnginePolicies  \* policies an engine may be made with

ASSUME EngineAssumption ==
    /\ EnginePolicies \subseteq Policies
    /\ Watched \subseteq Asked
    /\ Asked \subseteq
         [kind : Kinds, path : Paths \cup {NoPath}, second : Paths \cup {NoPath},
          host : Hosts \cup {NoHost}, flags : SUBSET STRING]

VARIABLES
    enforced,   \* the policy of all engines
    cache,      \* of this engine
    watched,    \* history: a request of interest,
    told, ever  \*   the decisions on it by this engine, and by any

engineVars == <<enforced, cache, watched, told, ever>>

EngineInit ==
    /\ enforced \in EnginePolicies
    /\ cache = EmptyCache
    /\ watched \in Watched
    /\ told = {} /\ ever = {}

EvaluateRequest(req) ==
    LET decision == Evaluate(enforced, cache, req)
        news == IF req = watched THEN {decision} ELSE {}
    IN  /\ cache' = CacheAfter(cache, req)
        /\ told' = told \cup news
        /\ ever' = ever \cup news
        /\ UNCHANGED <<enforced, watched>>

\* The status feed classifies the paths of the approvals it lists.
ClassifyZone(path, kind) ==
    /\ cache' = Remember(cache, path, kind)
    /\ UNCHANGED <<enforced, watched, told, ever>>

NewEngine ==
    /\ cache' = EmptyCache
    /\ told' = {}
    /\ UNCHANGED <<enforced, watched, ever>>

EngineNext ==
    \/ \E req \in Asked : EvaluateRequest(req)
    \/ \E path \in Paths, kind \in Kinds : ClassifyZone(path, kind)
    \/ NewEngine

EngineSpec == EngineInit /\ [][EngineNext]_engineVars

-----------------------------------------------------------------------------
Verdicts == {"Allow", "RequireApproval", "Deny", "Quarantine"}

EngineTypeOK ==
    /\ enforced \in EnginePolicies
    /\ cache \in [Paths -> Zones \cup {Unknown}]
    /\ watched \in Watched
    /\ told \subseteq ever
    /\ \A decision \in ever : decision.verdict \in Verdicts

Strength(zone) ==
    CASE zone = "Secrets" -> 5 [] zone = "SystemCritical" -> 4 [] zone = "Shared" -> 3
      [] zone = "Workspace" -> 2 [] zone = "UserData" -> 1

\* "secrets > system-critical > shared > workspace > user-data ... enforces the
\* strongest deterministic policy when path patterns overlap" (zone.rs:7-8):
\* whatever was asked of it before, an engine has a path in no weaker zone
\* than any list that names it, and in that of a list if one does.
StrongestZone ==
    \A p \in Paths :
        /\ cache[p] # Unknown
        /\ Marks[p] \cap Zones # {}
        => /\ cache[p] \in Marks[p]
           /\ \A z \in Marks[p] \cap Zones : cache[p] = z \/ Strength(cache[p]) > Strength(z)

\* "Given the same policy and request, the engine always returns the same
\* decision" (mod.rs:21-22).  One engine does.  Two engines do if the path is
\* on some list or not owned by root; otherwise the zone depends on the kind of
\* the first request for the path (mod.rs:104-113, zone.rs:27-43).
Repeatable ==
    /\ \A d, e \in told : d = e
    /\ \/ \A d, e \in ever : d = e
       \/ /\ Marks[Target(watched)] \cap Zones = {}
          /\ Is(Target(watched), "rootOwned")

Severity(decision) ==
    CASE decision.verdict = "Allow" -> 0
      [] decision.verdict = "RequireApproval" -> 1
      [] decision.verdict \in {"Deny", "Quarantine"} -> 2

RiskFlags == {"ruler", "stream", "downloaded", "interpreter", "scriptInWorkspace",
              "post", "upload", "marksExecutable", "suspicious", "wildcard", "many"}

\* Signs of risk never help: with more of them a request is not decided more
\* leniently (the early returns of evaluation.rs:131-251, 316-356, 381-396, 424-437).
\* The exception is the mass-delete guard, which asks where the zone would
\* have denied (58-91).
RiskNeverHelps ==
    \A req \in Asked :
        \A riskier \in {r \in Asked :
                /\ [r EXCEPT !.flags = {}] = [req EXCEPT !.flags = {}]
                /\ req.flags \subseteq r.flags
                /\ r.flags \ req.flags \subseteq RiskFlags} :
            \/ Severity(Evaluate(enforced, cache, riskier)) >= Severity(Evaluate(enforced, cache, req))
            \/ /\ riskier.kind = "FileDelete"
               /\ enforced.zone[ZoneFor(cache, riskier)] = "deny"

\* Under default-deny no request gets through, or is put to the operator,
\* whose host no list names as allowed; and never one whose host a list names
\* as forbidden (evaluate_network_host, evaluation.rs:650-739).
ClosedNetwork ==
    LET named == (IF enforced.invertAllow THEN {} ELSE enforced.allowHosts)
                   \cup (IF enforced.invertDeny THEN enforced.denyHosts ELSE {})
        forbidden == (IF enforced.invertAllow THEN enforced.allowHosts ELSE {})
                       \cup (IF enforced.invertDeny THEN {} ELSE enforced.denyHosts)
    IN  \A req \in Asked :
            /\ req.kind \in {"NetworkEgress", "Download"}
            /\ Evaluate(enforced, cache, req).verdict # "Deny"
            => /\ req.host \notin forbidden
               /\ enforced.defaultDeny /\ req.host # NoHost => req.host \in named
=============================================================================
