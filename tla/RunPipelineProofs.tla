--------------------------- MODULE RunPipelineProofs ---------------------------
(***************************************************************************)
(* What an engine decides (PolicyEngine), for all policies, paths and      *)
(* requests; then what a run may do and what the log says of it            *)
(* (RunPipeline), for any number of runs, all commands and all policies;   *)
(* and, for all policies that are nowhere milder with system-critical      *)
(* paths than with shared ones, that nothing runs but what was cleared,    *)
(* one action after the other.                                             *)
(*                                                                         *)
(* Then the sessions that agents and threads have (SessionStore), for any  *)
(* number of handlers, overlapping, dying and writing over each other's    *)
(* json.tmp: sessions.json never holds two sessions of a thread, nor, of   *)
(* keys no longer than list keeps them, two sessions of a key.  What a     *)
(* handler writes it computed from an older file, and what it writes may   *)
(* end up under either name; so ListInv must hold of both files and of     *)
(* every list in memory.  A text torn between two lists reads as no        *)
(* session, which satisfies it.  Of handlers that take turns (InTurn): a   *)
(* thread that was said to be a session stays that session.                *)
(***************************************************************************)
EXTENDS PolicyEngine, RunPipeline, SessionStore, SequenceTheorems, TLAPS

-----------------------------------------------------------------------------
(* Zones *)

\* A path that is on a list, or is not owned by root, has one zone whatever
\* the kind of the request (classify_uncached, zone.rs:9-48).
Settled(p) == Marks[p] \cap Zones # {} \/ ~Is(p, "rootOwned")

LEMMA ClassifyIsZone ==
    ASSUME NEW p \in Paths, NEW k
    PROVE  Classify(p, k) \in Zones
  BY DEF Classify, Zones

LEMMA SettledClassify ==
    ASSUME NEW p \in Paths, NEW k, NEW j, Settled(p)
    PROVE  Classify(p, k) = Classify(p, j)
  BY DEF Classify, Settled, Is, Zones

\* The zone of a listed path is its strongest list (zone.rs:7-8).
LEMMA ClassifyIsStrongest ==
    ASSUME NEW p \in Paths, NEW k, Marks[p] \cap Zones # {}
    PROVE  /\ Classify(p, k) \in Marks[p]
           /\ \A z \in Marks[p] \cap Zones :
                 Classify(p, k) = z \/ Strength(Classify(p, k)) > Strength(z)
  <1> DEFINE c == Classify(p, k)
  <1>1. \/ c = "Secrets" /\ c \in Marks[p]
        \/ c = "SystemCritical" /\ c \in Marks[p] /\ "Secrets" \notin Marks[p]
        \/ c = "Shared" /\ c \in Marks[p] /\ {"Secrets", "SystemCritical"} \cap Marks[p] = {}
        \/ /\ c = "Workspace" /\ c \in Marks[p]
           /\ {"Secrets", "SystemCritical", "Shared"} \cap Marks[p] = {}
        \/ /\ c = "UserData" /\ c \in Marks[p]
           /\ {"Secrets", "SystemCritical", "Shared", "Workspace"} \cap Marks[p] = {}
    BY DEF Classify, Is, Zones
  <1>2. /\ Strength("Secrets") = 5 /\ Strength("SystemCritical") = 4
        /\ Strength("Shared") = 3 /\ Strength("Workspace") = 2 /\ Strength("UserData") = 1
    BY DEF Strength
  <1> HIDE DEF c
  <1>3. c \in Marks[p] /\ \A z \in Marks[p] \cap Zones : c = z \/ Strength(c) > Strength(z)
    BY <1>1, <1>2 DEF Zones
  <1> QED
    BY <1>3 DEF c

-----------------------------------------------------------------------------
(* Decisions *)

LEMMA ByZoneVerdict ==
    ASSUME NEW pol \in Policies, NEW z \in Zones, NEW a, NEW d
    PROVE  ByZone(pol, z, a, d).verdict \in Verdicts
  <1>1. pol.zone[z] \in {"allow", "approval", "deny"}
    BY DEF Policies, Dispositions
  <1> QED
    BY <1>1 DEF ByZone, Allow, Ask, Deny, Verdicts

\* The engine always comes to one of the four verdicts (evaluate, mod.rs:130-172).
LEMMA DecideVerdict ==
    ASSUME NEW pol \in Policies, NEW req \in Asked, NEW z,
           Classifies(req) => z \in Zones
    PROVE  Decide(pol, req, z).verdict \in Verdicts
  <1> USE DEF Verdicts, Allow, Ask, Deny, Quarantine
  <1>1. CASE req.kind = "NetworkEgress"
    BY <1>1 DEF Decide, EvaluateNetwork
  <1>2. CASE req.kind = "Download"
    BY <1>2 DEF Decide, EvaluateDownload
  <1>3. CASE Target(req) = NoPath /\ req.kind \notin {"NetworkEgress", "Download"}
    BY <1>3 DEF Decide
  <1>4. CASE Target(req) # NoPath /\ req.kind \notin {"NetworkEgress", "Download"}
    <2>1. z \in Zones
      BY <1>4 DEF Classifies
    <2>2. \A a, d : ByZone(pol, z, a, d).verdict \in {"Allow", "RequireApproval", "Deny", "Quarantine"}
      BY <2>1, ByZoneVerdict
    <2>3. EvaluateFilesystem(pol, req, z).verdict \in {"Allow", "RequireApproval", "Deny", "Quarantine"}
      BY <2>2 DEF EvaluateFilesystem
    <2>4. EvaluateExecution(pol, req, z).verdict \in {"Allow", "RequireApproval", "Deny", "Quarantine"}
      BY <2>2 DEF EvaluateExecution, EvaluateDownloaded
    <2>5. EvaluatePersistence(pol, req, z).verdict \in {"Allow", "RequireApproval", "Deny", "Quarantine"}
      BY <2>2 DEF EvaluatePersistence
    <2>6. EvaluateExport(req, z).verdict \in {"Allow", "RequireApproval", "Deny", "Quarantine"}
      BY DEF EvaluateExport
    <2>7. req.kind \in Kinds
      BY EngineAssumption
    <2> QED
      BY <1>4, <2>3, <2>4, <2>5, <2>6, <2>7 DEF Decide, Kinds, FileKinds
  <1> QED
    BY <1>1, <1>2, <1>3, <1>4

\* What a host must be to get past the lists (evaluate_network_host,
\* evaluation.rs:650-739).
LEMMA HostAllowedMeans ==
    ASSUME NEW pol \in Policies, NEW h, HostAllowed(pol, h)
    PROVE  /\ h \notin (IF pol.invertAllow THEN pol.allowHosts ELSE {})
                         \cup (IF pol.invertDeny THEN {} ELSE pol.denyHosts)
           /\ pol.defaultDeny =>
                h \in (IF pol.invertAllow THEN {} ELSE pol.allowHosts)
                        \cup (IF pol.invertDeny THEN pol.denyHosts ELSE {})
  BY DEF HostAllowed, Policies

\* No host gets past the network rules unless they allow it.
LEMMA NetworkVerdict ==
    ASSUME NEW pol \in Policies, NEW req \in Asked, NEW z,
           req.kind \in {"NetworkEgress", "Download"},
           Decide(pol, req, z).verdict # "Deny"
    PROVE  \/ req.host = NoHost
           \/ HostAllowed(pol, req.host)
  BY DEF Decide, EvaluateNetwork, EvaluateDownload, Deny

-----------------------------------------------------------------------------
(* The engine *)

\* A cached zone is what the path was classified as for some request, and a
\* decision on the watched request is the one its zone leads to.
EngineInv ==
    /\ enforced \in EnginePolicies
    /\ watched \in Watched
    /\ cache \in [Paths -> Zones \cup {Unknown}]
    /\ \A p \in Paths : cache[p] # Unknown => \E k \in Kinds : cache[p] = Classify(p, k)
    /\ told \subseteq ever
    /\ \A d \in told :
          /\ d = Evaluate(enforced, cache, watched)
          /\ Classifies(watched) => cache[Target(watched)] # Unknown
    /\ \A d \in ever :
          IF Classifies(watched)
          THEN \E k \in Kinds : d = Decide(enforced, watched, Classify(Target(watched), k))
          ELSE d = Decide(enforced, watched, Unknown)

LEMMA UnknownIsNoZone == Unknown \notin Zones
  BY DEF Unknown, Zones

LEMMA TargetIsPath ==
    ASSUME NEW req \in Asked, Classifies(req)
    PROVE  Target(req) \in Paths
  BY EngineAssumption DEF Classifies, Target

\* Remembering a path changes no zone that was known, and what it adds is a
\* classification (classify_zone, mod.rs:101-114).
LEMMA RememberKeeps ==
    ASSUME NEW c \in [Paths -> Zones \cup {Unknown}], NEW p \in Paths, NEW k \in Kinds,
           \A q \in Paths : c[q] # Unknown => \E j \in Kinds : c[q] = Classify(q, j)
    PROVE  /\ Remember(c, p, k) \in [Paths -> Zones \cup {Unknown}]
           /\ \A q \in Paths : c[q] # Unknown => Remember(c, p, k)[q] = c[q]
           /\ \A q \in Paths :
                 Remember(c, p, k)[q] # Unknown => \E j \in Kinds : Remember(c, p, k)[q] = Classify(q, j)
           /\ Remember(c, p, k)[p] = ZoneOf(c, p, k)
           /\ Remember(c, p, k)[p] # Unknown
  <1>1. ZoneOf(c, p, k) \in Zones
    BY ClassifyIsZone DEF ZoneOf
  <1>2. \E j \in Kinds : ZoneOf(c, p, k) = Classify(p, j)
    BY DEF ZoneOf
  <1>3. c[p] # Unknown => ZoneOf(c, p, k) = c[p]
    BY DEF ZoneOf
  <1> QED
    BY <1>1, <1>2, <1>3, UnknownIsNoZone DEF Remember

\* A decision on a request depends on the cache only through the zone of its
\* target, which no longer changes once it is known.
LEMMA EvaluateStays ==
    ASSUME NEW c, NEW d, NEW pol, NEW req \in Asked,
           Classifies(req) => c[Target(req)] # Unknown /\ d[Target(req)] = c[Target(req)]
    PROVE  Evaluate(pol, d, req) = Evaluate(pol, c, req)
  BY DEF Evaluate, ZoneFor, ZoneOf

LEMMA EngineInvInit == EngineInit => EngineInv
  BY DEF EngineInit, EngineInv, EmptyCache

LEMMA EngineClassifies ==
    ASSUME EngineInv, NEW p \in Paths, NEW k \in Kinds, ClassifyZone(p, k)
    PROVE  EngineInv'
  <1> DEFINE old == cache
             new == Remember(cache, p, k)
  <1>1. cache' = new /\ UNCHANGED <<enforced, watched, told, ever>>
    BY DEF ClassifyZone
  <1>2. /\ new \in [Paths -> Zones \cup {Unknown}]
        /\ \A q \in Paths : old[q] # Unknown => new[q] = old[q]
        /\ \A q \in Paths : new[q] # Unknown => \E j \in Kinds : new[q] = Classify(q, j)
    BY RememberKeeps DEF EngineInv
  <1>3. watched \in Asked
    BY EngineAssumption DEF EngineInv
  <1>4. ASSUME NEW d \in told
        PROVE  /\ d = Evaluate(enforced, new, watched)
               /\ Classifies(watched) => new[Target(watched)] # Unknown
    <2>1. d = Evaluate(enforced, old, watched)
      BY DEF EngineInv
    <2>2. Classifies(watched) =>
             old[Target(watched)] # Unknown /\ new[Target(watched)] = old[Target(watched)]
      BY <1>2, <1>3, TargetIsPath DEF EngineInv
    <2>3. Evaluate(enforced, new, watched) = Evaluate(enforced, old, watched)
      BY <1>3, <2>2, EvaluateStays
    <2> QED
      BY <2>1, <2>2, <2>3
  <1> HIDE DEF new
  <1> QED
    BY <1>1, <1>2, <1>4 DEF EngineInv

LEMMA EngineEvaluates ==
    ASSUME EngineInv, NEW req \in Asked, EvaluateRequest(req)
    PROVE  EngineInv'
  <1> DEFINE new == CacheAfter(cache, req)
             decision == Evaluate(enforced, cache, req)
  <1>1. /\ cache' = new /\ UNCHANGED <<enforced, watched>>
        /\ told' = told \cup (IF req = watched THEN {decision} ELSE {})
        /\ ever' = ever \cup (IF req = watched THEN {decision} ELSE {})
    BY DEF EvaluateRequest
  <1>2. watched \in Asked /\ req.kind \in Kinds
    BY EngineAssumption DEF EngineInv
  <1>3. /\ new \in [Paths -> Zones \cup {Unknown}]
        /\ \A q \in Paths : cache[q] # Unknown => new[q] = cache[q]
        /\ \A q \in Paths : new[q] # Unknown => \E j \in Kinds : new[q] = Classify(q, j)
        /\ Classifies(req) => /\ new[Target(req)] # Unknown
                              /\ new[Target(req)] = ZoneOf(cache, Target(req), req.kind)
    <2>1. CASE Classifies(req)
      BY <1>2, <2>1, TargetIsPath, RememberKeeps DEF CacheAfter, EngineInv
    <2>2. CASE ~Classifies(req)
      BY <2>2 DEF CacheAfter, EngineInv
    <2> QED
      BY <2>1, <2>2
  <1>4. ASSUME NEW d \in told
        PROVE  /\ d = Evaluate(enforced, new, watched)
               /\ Classifies(watched) => new[Target(watched)] # Unknown
    <2>1. d = Evaluate(enforced, cache, watched)
      BY DEF EngineInv
    <2>2. Classifies(watched) =>
             cache[Target(watched)] # Unknown /\ new[Target(watched)] = cache[Target(watched)]
      BY <1>2, <1>3, TargetIsPath DEF EngineInv
    <2>3. Evaluate(enforced, new, watched) = Evaluate(enforced, cache, watched)
      BY <1>2, <2>2, EvaluateStays
    <2> QED
      BY <2>1, <2>2, <2>3
  <1>5. ASSUME req = watched
        PROVE  /\ decision = Evaluate(enforced, new, watched)
               /\ Classifies(watched) => new[Target(watched)] # Unknown
    BY <1>3, <1>5 DEF Evaluate, ZoneFor, ZoneOf
  <1>6. ASSUME req = watched
        PROVE  IF Classifies(watched)
               THEN \E k \in Kinds : decision = Decide(enforced, watched, Classify(Target(watched), k))
               ELSE decision = Decide(enforced, watched, Unknown)
    <2>1. CASE Classifies(watched)
      <3>1. \E k \in Kinds : ZoneOf(cache, Target(req), req.kind) = Classify(Target(req), k)
        BY <1>2, <1>6, <2>1, TargetIsPath DEF ZoneOf, EngineInv
      <3> QED
        BY <1>6, <2>1, <3>1 DEF Evaluate, ZoneFor
    <2>2. CASE ~Classifies(watched)
      BY <1>6, <2>2 DEF Evaluate, ZoneFor
    <2> QED
      BY <2>1, <2>2
  <1> HIDE DEF new, decision
  <1> QED
    BY <1>1, <1>3, <1>4, <1>5, <1>6 DEF EngineInv

LEMMA EngineRestarts ==
    ASSUME EngineInv, NewEngine
    PROVE  EngineInv'
  BY DEF EngineInv, NewEngine, EmptyCache

LEMMA EngineStutters ==
    ASSUME EngineInv, UNCHANGED engineVars
    PROVE  EngineInv'
  BY DEF EngineInv, engineVars

LEMMA EngineInvAlways == EngineSpec => []EngineInv
  <1>1. EngineInit => EngineInv
    BY EngineInvInit
  <1>2. EngineInv /\ [EngineNext]_engineVars => EngineInv'
    BY EngineClassifies, EngineEvaluates, EngineRestarts, EngineStutters DEF EngineNext
  <1> QED
    BY <1>1, <1>2, PTL DEF EngineSpec

-----------------------------------------------------------------------------
\* The variables have their types, and every decision is one of the four
\* verdicts: no request falls through the rules (evaluate, mod.rs:130-172).
THEOREM EngineTypeCorrect == EngineSpec => []EngineTypeOK
  <1>1. EngineInv => EngineTypeOK
    <2> SUFFICES ASSUME EngineInv PROVE EngineTypeOK
      OBVIOUS
    <2>1. watched \in Asked /\ enforced \in Policies
      BY EngineAssumption DEF EngineInv
    <2>2. ASSUME NEW d \in ever PROVE d.verdict \in Verdicts
      <3>1. CASE Classifies(watched)
        <4>1. PICK k \in Kinds : d = Decide(enforced, watched, Classify(Target(watched), k))
          BY <3>1 DEF EngineInv
        <4>2. Classify(Target(watched), k) \in Zones
          BY <2>1, <3>1, TargetIsPath, ClassifyIsZone
        <4> QED
          BY <2>1, <4>1, <4>2, DecideVerdict
      <3>2. CASE ~Classifies(watched)
        <4>1. d = Decide(enforced, watched, Unknown)
          BY <3>2 DEF EngineInv
        <4> QED
          BY <2>1, <3>2, <4>1, DecideVerdict
      <3> QED
        BY <3>1, <3>2
    <2> QED
      BY <2>2 DEF EngineInv, EngineTypeOK
  <1> QED
    BY <1>1, EngineInvAlways, PTL

\* Whatever an engine was asked before, a listed path is in its strongest
\* zone (zone.rs:7-8 and the cache, mod.rs:104-113).
THEOREM StrongestZoneAlways == EngineSpec => []StrongestZone
  <1>1. EngineInv => StrongestZone
    BY ClassifyIsStrongest DEF EngineInv, StrongestZone
  <1> QED
    BY <1>1, EngineInvAlways, PTL

\* One engine always gives the same decision on a request; so do two, unless
\* the path is unlisted and owned by root (mod.rs:21-22).
THEOREM Repeats == EngineSpec => []Repeatable
  <1>1. EngineInv => Repeatable
    <2> SUFFICES ASSUME EngineInv PROVE Repeatable
      OBVIOUS
    <2>1. \A d, e \in told : d = e
      BY DEF EngineInv
    <2>2. watched \in Asked
      BY EngineAssumption DEF EngineInv
    <2>3. CASE ~Classifies(watched)
      BY <2>1, <2>3 DEF EngineInv, Repeatable
    <2>4. CASE Classifies(watched) /\ Settled(Target(watched))
      <3>1. \A k, j \in Kinds : Classify(Target(watched), k) = Classify(Target(watched), j)
        BY <2>2, <2>4, TargetIsPath, SettledClassify
      <3>2. \A d, e \in ever : d = e
        BY <2>4, <3>1 DEF EngineInv
      <3> QED
        BY <2>1, <3>2 DEF Repeatable
    <2>5. CASE Classifies(watched) /\ ~Settled(Target(watched))
      BY <2>1, <2>5 DEF Settled, Repeatable
    <2> QED
      BY <2>3, <2>4, <2>5
  <1> QED
    BY <1>1, EngineInvAlways, PTL

\* Under every policy the lists have the last word on hosts
\* (evaluate_network_host, evaluation.rs:650-739).
THEOREM ClosedNetworkAlways == EngineSpec => []ClosedNetwork
  <1>1. EngineInv => ClosedNetwork
    <2> SUFFICES ASSUME EngineInv PROVE ClosedNetwork
      OBVIOUS
    <2>1. enforced \in Policies
      BY EngineAssumption DEF EngineInv
    <2>2. ASSUME NEW req \in Asked, req.kind \in {"NetworkEgress", "Download"},
                 Evaluate(enforced, cache, req).verdict # "Deny"
          PROVE  \/ req.host = NoHost
                 \/ HostAllowed(enforced, req.host)
      BY <2>1, <2>2, NetworkVerdict DEF Evaluate
    <2>3. NoHost \notin enforced.allowHosts \cup enforced.denyHosts
      BY <2>1, MarksAssumption DEF Policies
    <2> QED
      BY <2>1, <2>2, <2>3, HostAllowedMeans DEF ClosedNetwork
  <1> QED
    BY <1>1, EngineInvAlways, PTL

-----------------------------------------------------------------------------
(* Risk                                                                    *)

\* r is req with more signs of risk.
Riskier(r, req) ==
    /\ r.kind = req.kind /\ r.path = req.path /\ r.second = req.second /\ r.host = req.host
    /\ req.flags \subseteq r.flags
    /\ r.flags \ req.flags \subseteq RiskFlags

LEMMA RiskierMeans ==
    ASSUME NEW req \in Asked, NEW r \in Asked,
           [r EXCEPT !.flags = {}] = [req EXCEPT !.flags = {}],
           req.flags \subseteq r.flags, r.flags \ req.flags \subseteq RiskFlags
    PROVE  Riskier(r, req)
  <1> DEFINE a == [r EXCEPT !.flags = {}]
             b == [req EXCEPT !.flags = {}]
  <1>1. /\ a.kind = r.kind /\ a.path = r.path /\ a.second = r.second /\ a.host = r.host
        /\ b.kind = req.kind /\ b.path = req.path /\ b.second = req.second /\ b.host = req.host
    BY EngineAssumption
  <1>2. a = b
    OBVIOUS
  <1> HIDE DEF a, b
  <1> QED
    BY <1>1, <1>2 DEF Riskier

LEMMA SeverityOf ==
    /\ Severity(Allow) = 0
    /\ \A reason : /\ Severity(Ask(reason)) = 1
                   /\ Severity(Deny(reason)) = 2 /\ Severity(Quarantine(reason)) = 2
  BY DEF Severity, Allow, Ask, Deny, Quarantine

LEMMA SeverityBound ==
    ASSUME NEW d, d.verdict \in Verdicts
    PROVE  Severity(d) \in {0, 1, 2}
  BY DEF Severity, Verdicts

\* Files: the mass-delete guard asks, where the zone allowed, asked, or denied.
LEMMA FilesystemRisk ==
    ASSUME NEW pol \in Policies, NEW req \in Asked, NEW r \in Asked, Riskier(r, req),
           NEW z \in Zones
    PROVE  \/ Severity(EvaluateFilesystem(pol, r, z)) >= Severity(EvaluateFilesystem(pol, req, z))
           \/ r.kind = "FileDelete" /\ pol.zone[z] = "deny"
  <1>1. Severity(ByZone(pol, z, "ApprovalRequiredZone2", DenyReason(z))) \in {0, 1, 2}
    BY ByZoneVerdict, SeverityBound
  <1>2. pol.zone[z] # "deny" =>
           Severity(ByZone(pol, z, "ApprovalRequiredZone2", DenyReason(z))) <= 1
    <2>1. pol.zone[z] \in {"allow", "approval", "deny"}
      BY DEF Policies, Dispositions
    <2> QED
      BY <2>1, SeverityOf DEF ByZone
  <1>3. \A flag : Has(req, flag) => Has(r, flag)
    BY DEF Riskier, Has
  <1> QED
    BY <1>1, <1>2, <1>3, SeverityOf DEF Riskier, EvaluateFilesystem

\* Programs: every sign of risk denies or quarantines, before anything allows.
LEMMA ExecutionRisk ==
    ASSUME NEW pol \in Policies, NEW req \in Asked, NEW r \in Asked, Riskier(r, req),
           NEW z \in Zones
    PROVE  Severity(EvaluateExecution(pol, r, z)) >= Severity(EvaluateExecution(pol, req, z))
  <1> DEFINE Signs(q) == \/ Is(q.path, "ruler") \/ Has(q, "ruler") \/ Has(q, "stream")
                         \/ Has(q, "downloaded")
                         \/ Has(q, "interpreter") /\ Has(q, "scriptInWorkspace")
             Rest(q) == IF pol.denyWorkspaceExec /\ Is(q.path, "inWorkspace")
                        THEN Deny("DenyExecutionFromWorkspace")
                        ELSE IF pol.denyTmpExec /\ Is(q.path, "temporary")
                        THEN Deny("DenyExecutionFromTemp")
                        ELSE IF Is(q.path, "execPrefix") THEN Allow
                        ELSE ByZone(pol, z, "ApprovalRequiredZone2", DenyReason(z))
  <1>1. \A q : q.path # NoPath /\ Signs(q) => Severity(EvaluateExecution(pol, q, z)) = 2
    BY SeverityOf DEF EvaluateExecution, EvaluateDownloaded
  <1>2. \A q : q.path # NoPath /\ ~Signs(q) => EvaluateExecution(pol, q, z) = Rest(q)
    BY DEF EvaluateExecution
  <1>3. \A q : q.path = NoPath => Severity(EvaluateExecution(pol, q, z)) = 2
    BY SeverityOf DEF EvaluateExecution
  <1>4. Rest(r) = Rest(req) /\ (Signs(req) => Signs(r)) /\ r.path = req.path
    BY DEF Riskier, Has
  <1>5. Severity(Rest(req)) \in {0, 1, 2}
    <2>1. Severity(ByZone(pol, z, "ApprovalRequiredZone2", DenyReason(z))) \in {0, 1, 2}
      BY ByZoneVerdict, SeverityBound
    <2> QED
      BY <2>1, SeverityOf
  <1> HIDE DEF Signs, Rest
  <1> QED
    BY <1>1, <1>2, <1>3, <1>4, <1>5

\* Hosts and downloads: the lists decide first, and ask of nothing else.
LEMMA NetworkRisk ==
    ASSUME NEW pol \in Policies, NEW req \in Asked, NEW r \in Asked, Riskier(r, req)
    PROVE  /\ Severity(EvaluateNetwork(pol, r)) >= Severity(EvaluateNetwork(pol, req))
           /\ Severity(EvaluateDownload(pol, r)) >= Severity(EvaluateDownload(pol, req))
  <1>1. \A flag : Has(req, flag) => Has(r, flag)
    BY DEF Riskier, Has
  <1>2. r.host = req.host
    BY DEF Riskier
  <1> QED
    BY <1>1, <1>2, SeverityOf DEF EvaluateNetwork, EvaluateDownload

LEMMA PersistenceRisk ==
    ASSUME NEW pol \in Policies, NEW req \in Asked, NEW r \in Asked, Riskier(r, req),
           NEW z \in Zones
    PROVE  Severity(EvaluatePersistence(pol, r, z)) >= Severity(EvaluatePersistence(pol, req, z))
  <1>1. r.path = req.path /\ (Has(req, "suspicious") => Has(r, "suspicious"))
    BY DEF Riskier, Has
  <1>2. InSystemScope(r) = InSystemScope(req)
    <2>1. "systemScope" \notin RiskFlags /\ "userScope" \notin RiskFlags
      BY DEF RiskFlags
    <2> QED
      BY <2>1 DEF InSystemScope, Riskier, Has
  <1>3. Severity(EvaluatePersistence(pol, req, z)) \in {0, 1, 2}
    <2>1. Severity(ByZone(pol, z, "ApprovalRequiredPersistence", "DenyPersistence")) \in {0, 1, 2}
      BY ByZoneVerdict, SeverityBound
    <2> QED
      BY <2>1, SeverityOf DEF EvaluatePersistence
  <1>4. CASE r.path # NoPath /\ Has(r, "suspicious")
    BY <1>3, <1>4, SeverityOf DEF EvaluatePersistence
  <1>5. CASE r.path = NoPath \/ ~Has(r, "suspicious")
    <2>1. EvaluatePersistence(pol, r, z) = EvaluatePersistence(pol, req, z)
      BY <1>1, <1>2, <1>5 DEF EvaluatePersistence
    <2> QED
      BY <1>3, <2>1
  <1> QED
    BY <1>4, <1>5

LEMMA DecideRisk ==
    ASSUME NEW pol \in Policies, NEW req \in Asked, NEW r \in Asked, Riskier(r, req),
           NEW z, Classifies(req) => z \in Zones
    PROVE  \/ Severity(Decide(pol, r, z)) >= Severity(Decide(pol, req, z))
           \/ r.kind = "FileDelete" /\ pol.zone[z] = "deny"
  <1>1. /\ r.kind = req.kind /\ req.kind \in Kinds /\ r.path = req.path
        /\ Target(r) = Target(req)
    BY EngineAssumption DEF Riskier, Target
  <1>2. Severity(Decide(pol, req, z)) \in {0, 1, 2}
    BY DecideVerdict, SeverityBound
  <1>3. CASE req.kind = "NetworkEgress"
    BY <1>1, <1>3, NetworkRisk DEF Decide
  <1>4. CASE req.kind = "Download"
    BY <1>1, <1>4, NetworkRisk DEF Decide
  <1>5. CASE ~Classifies(req) /\ req.kind \notin {"NetworkEgress", "Download"}
    <2>1. Decide(pol, r, z) = Decide(pol, req, z)
      BY <1>1, <1>5 DEF Decide, Classifies
    <2> QED
      BY <1>2, <2>1
  <1>6. CASE Classifies(req)
    <2>1. z \in Zones
      BY <1>6
    <2>2. Target(req) # NoPath /\ req.kind \notin {"NetworkEgress", "Download"}
      BY <1>6 DEF Classifies
    <2>3. CASE req.kind \in FileKinds
      <3>1. Decide(pol, r, z) = EvaluateFilesystem(pol, r, z)
            /\ Decide(pol, req, z) = EvaluateFilesystem(pol, req, z)
        BY <1>1, <2>2, <2>3 DEF Decide, FileKinds
      <3> QED
        BY <2>1, <3>1, FilesystemRisk
    <2>4. CASE req.kind = "Execute"
      <3>1. Decide(pol, r, z) = EvaluateExecution(pol, r, z)
            /\ Decide(pol, req, z) = EvaluateExecution(pol, req, z)
        BY <1>1, <2>2, <2>4 DEF Decide, FileKinds
      <3> QED
        BY <2>1, <3>1, ExecutionRisk
    <2>5. CASE req.kind = "Persistence"
      <3>1. Decide(pol, r, z) = EvaluatePersistence(pol, r, z)
            /\ Decide(pol, req, z) = EvaluatePersistence(pol, req, z)
        BY <1>1, <2>2, <2>5 DEF Decide, FileKinds
      <3> QED
        BY <2>1, <3>1, PersistenceRisk
    <2>6. CASE req.kind \in {"SecretsRead", "ExportCommit"}
      <3>1. Decide(pol, r, z) = Decide(pol, req, z)
        BY <1>1, <2>2, <2>6 DEF Decide, FileKinds, EvaluateExport
      <3> QED
        BY <1>2, <3>1
    <2> QED
      BY <1>1, <2>2, <2>3, <2>4, <2>5, <2>6 DEF Kinds, FileKinds
  <1> QED
    BY <1>3, <1>4, <1>5, <1>6

LEMMA EvaluateRisk ==
    ASSUME EngineInv, NEW req \in Asked, NEW r \in Asked, Riskier(r, req)
    PROVE  \/ Severity(Evaluate(enforced, cache, r)) >= Severity(Evaluate(enforced, cache, req))
           \/ r.kind = "FileDelete" /\ enforced.zone[ZoneFor(cache, r)] = "deny"
  <1>1. enforced \in Policies
    BY EngineAssumption DEF EngineInv
  <1>2. ZoneFor(cache, r) = ZoneFor(cache, req)
    BY DEF Riskier, ZoneFor, ZoneOf, Classifies, Target
  <1>3. Classifies(req) => ZoneFor(cache, req) \in Zones
    BY TargetIsPath, ClassifyIsZone DEF ZoneFor, ZoneOf, EngineInv
  <1>4. PICK z : z = ZoneFor(cache, req)
    OBVIOUS
  <1>5. Classifies(req) => z \in Zones
    BY <1>3, <1>4
  <1>6. \/ Severity(Decide(enforced, r, z)) >= Severity(Decide(enforced, req, z))
        \/ r.kind = "FileDelete" /\ enforced.zone[z] = "deny"
    BY <1>1, <1>5, DecideRisk
  <1> QED
    BY <1>2, <1>4, <1>6 DEF Evaluate

\* Under every policy, and whatever the engine was asked before, a request
\* with more signs of risk is not decided more leniently, the mass-delete
\* guard apart (evaluation.rs:58-91, 131-251, 316-356, 381-396, 424-437).
THEOREM RiskNeverHelpsAlways == EngineSpec => []RiskNeverHelps
  <1>1. EngineInv => RiskNeverHelps
    BY RiskierMeans, EvaluateRisk DEF RiskNeverHelps
  <1> QED
    BY <1>1, EngineInvAlways, PTL

-----------------------------------------------------------------------------
(* What a run may have still to do *)

AskOps == {<<"log", "queue", "answer">>, <<"queue", "log", "answer">>, <<"queue", "answer">>}

MoveOps == {<<"log", "move", "answer">>, <<"move", "log", "answer">>, <<"move", "answer">>}

JudgedOps ==
    {<<"log", "next">>, <<"next">>, <<"log", "answer">>, <<"answer">>} \cup AskOps \cup MoveOps

FallbackOps ==
    {<<"logUnavailable", "logDegraded", "bare", "logEnd">>,
     <<"logDegraded", "bare", "logEnd">>, <<"bare", "logEnd">>}

LaunchOps == {<<"launch">>, <<"logUnavailable">>, <<"logEnd">>} \cup FallbackOps

Shapes == {<<>>, <<"begin">>, <<"judge">>} \cup JudgedOps \cup LaunchOps

\* Concatenations of short sequences, which the backends do not compute.
LEMMA ConcatTwo == ASSUME NEW a, NEW b PROVE <<a>> \o <<b>> = <<a, b>>
<1> DEFINE S == {a, b}
<1>1. <<a>> \in Seq(S) /\ <<b>> \in Seq(S) /\ <<a, b>> \in Seq(S)
  OBVIOUS
<1>2. /\ <<a>> \o <<b>> \in Seq(S) /\ Len(<<a>> \o <<b>>) = 2
      /\ \A i \in 1 .. 2 : (<<a>> \o <<b>>)[i] = <<a, b>>[i]
  BY <1>1, ConcatProperties
<1> QED BY <1>1, <1>2, SeqEqual

LEMMA ConcatThree ==
    ASSUME NEW a, NEW b, NEW c
    PROVE  <<a>> \o <<b, c>> = <<a, b, c>> /\ <<a, b>> \o <<c>> = <<a, b, c>>
<1> DEFINE S == {a, b, c}
<1>1. /\ <<a>> \in Seq(S) /\ <<b, c>> \in Seq(S) /\ <<a, b, c>> \in Seq(S)
      /\ <<a, b>> \in Seq(S) /\ <<c>> \in Seq(S)
  OBVIOUS
<1>2. /\ <<a>> \o <<b, c>> \in Seq(S) /\ Len(<<a>> \o <<b, c>>) = 3
      /\ \A i \in 1 .. 3 : (<<a>> \o <<b, c>>)[i] = <<a, b, c>>[i]
  BY <1>1, ConcatProperties
<1>3. /\ <<a, b>> \o <<c>> \in Seq(S) /\ Len(<<a, b>> \o <<c>>) = 3
      /\ \A i \in 1 .. 3 : (<<a, b>> \o <<c>>)[i] = <<a, b, c>>[i]
  BY <1>1, ConcatProperties
<1> QED BY <1>1, <1>2, <1>3, SeqEqual

LEMMA ConcatFour ==
    ASSUME NEW a, NEW b, NEW c, NEW d PROVE <<a>> \o <<b, c, d>> = <<a, b, c, d>>
<1> DEFINE S == {a, b, c, d}
<1>1. <<a>> \in Seq(S) /\ <<b, c, d>> \in Seq(S) /\ <<a, b, c, d>> \in Seq(S)
  OBVIOUS
<1>2. /\ <<a>> \o <<b, c, d>> \in Seq(S) /\ Len(<<a>> \o <<b, c, d>>) = 4
      /\ \A i \in 1 .. 4 : (<<a>> \o <<b, c, d>>)[i] = <<a, b, c, d>>[i]
  BY <1>1, ConcatProperties
<1> QED BY <1>1, <1>2, SeqEqual

\* A verdict leads to one of these, where only what is asked about is queued,
\* only what is quarantined moved, and only the command itself not logged first.
LEMMA FollowsShape ==
    ASSUME NEW v, NEW req
    PROVE  /\ Follows(v, req) \in JudgedOps
           /\ Follows(v, req) \notin {<<"queue", "answer">>, <<"next">>}
           /\ Follows(v, req) = <<"log", "next">> => v = "Allow"
           /\ Follows(v, req) \in AskOps => v = "RequireApproval"
           /\ Follows(v, req) \in MoveOps => v = "Quarantine"
           /\ Follows(v, req) = <<"queue", "log", "answer">> => req.stage = "exec"
<1> DEFINE c == Consequence(v, req)
<1>1. CASE v = "Allow"
  BY <1>1 DEF Follows, JudgedOps, AskOps, MoveOps
<1>2. CASE v # "Allow" /\ v = "RequireApproval"
  <2>1. c = <<"queue">>
    BY <1>2 DEF Consequence
  <2>2. Follows(v, req) = IF req.stage = "exec" THEN <<"queue", "log", "answer">>
                          ELSE <<"log", "queue", "answer">>
    <3>1. <<"queue">> \o <<"log", "answer">> = <<"queue", "log", "answer">>
      BY ConcatThree
    <3>2. <<"log">> \o <<"queue">> = <<"log", "queue">>
      BY ConcatTwo
    <3>3. <<"log", "queue">> \o <<"answer">> = <<"log", "queue", "answer">>
      BY ConcatThree
    <3> QED BY <1>2, <2>1, <3>1, <3>2, <3>3 DEF Follows
  <2> QED BY <1>2, <2>2 DEF JudgedOps, AskOps, MoveOps
<1>3. CASE v = "Quarantine" /\ req.stage # "tool"
  <2>1. c = <<"move">>
    BY <1>3 DEF Consequence
  <2>2. Follows(v, req) = IF req.stage = "exec" THEN <<"move", "log", "answer">>
                          ELSE <<"log", "move", "answer">>
    <3>1. <<"move">> \o <<"log", "answer">> = <<"move", "log", "answer">>
      BY ConcatThree
    <3>2. <<"log">> \o <<"move">> = <<"log", "move">>
      BY ConcatTwo
    <3>3. <<"log", "move">> \o <<"answer">> = <<"log", "move", "answer">>
      BY ConcatThree
    <3> QED BY <1>3, <2>1, <3>1, <3>2, <3>3 DEF Follows
  <2> QED BY <1>3, <2>2 DEF JudgedOps, AskOps, MoveOps
<1>4. CASE /\ v \notin {"Allow", "RequireApproval"}
           /\ ~(v = "Quarantine" /\ req.stage # "tool")
  <2>1. c = <<>>
    BY <1>4 DEF Consequence
  <2>2. Follows(v, req) = <<"log", "answer">>
    <3>1. <<"log">> \in Seq({"log", "answer"}) /\ <<"log", "answer">> \in Seq({"log", "answer"})
      OBVIOUS
    <3>2. <<>> \o <<"log", "answer">> = <<"log", "answer">>
      BY <3>1, ConcatEmptySeq
    <3>3. <<"log">> \o <<>> = <<"log">>
      BY <3>1, ConcatEmptySeq
    <3>4. <<"log">> \o <<"answer">> = <<"log", "answer">>
      BY ConcatTwo
    <3> QED BY <1>4, <2>1, <3>2, <3>3, <3>4 DEF Follows
  <2> QED BY <1>4, <2>2 DEF JudgedOps, AskOps, MoveOps
<1> QED BY <1>1, <1>2, <1>3, <1>4

\* What a run is to do next says what it is to do after that.
LEMMA ShapeHeads ==
    ASSUME NEW s \in Shapes, s # <<>>
    PROVE  /\ Head(s) = "begin" => s = <<"begin">>
           /\ Head(s) = "judge" => s = <<"judge">>
           /\ Head(s) = "log" => s \in {<<"log", "next">>, <<"log", "answer">>,
                                       <<"log", "queue", "answer">>, <<"log", "move", "answer">>}
           /\ Head(s) = "queue" => s \in {<<"queue", "answer">>, <<"queue", "log", "answer">>}
           /\ Head(s) = "move" => s \in {<<"move", "answer">>, <<"move", "log", "answer">>}
           /\ Head(s) = "next" => s = <<"next">>
           /\ Head(s) = "answer" => s = <<"answer">>
           /\ Head(s) = "launch" => s = <<"launch">>
           /\ Head(s) = "bare" => s = <<"bare", "logEnd">>
           /\ Head(s) = "logUnavailable" =>
                s \in {<<"logUnavailable">>,
                       <<"logUnavailable", "logDegraded", "bare", "logEnd">>}
           /\ Head(s) = "logDegraded" => s = <<"logDegraded", "bare", "logEnd">>
           /\ Head(s) = "logEnd" => s = <<"logEnd">>
  BY DEF Shapes, JudgedOps, AskOps, MoveOps, LaunchOps, FallbackOps

LEMMA ShapeTails ==
    /\ Tail(<<"log", "next">>) = <<"next">>
    /\ Tail(<<"log", "answer">>) = <<"answer">>
    /\ Tail(<<"log", "queue", "answer">>) = <<"queue", "answer">>
    /\ Tail(<<"log", "move", "answer">>) = <<"move", "answer">>
    /\ Tail(<<"queue", "answer">>) = <<"answer">>
    /\ Tail(<<"queue", "log", "answer">>) = <<"log", "answer">>
    /\ Tail(<<"move", "answer">>) = <<"answer">>
    /\ Tail(<<"move", "log", "answer">>) = <<"log", "answer">>
    /\ Tail(<<"bare", "logEnd">>) = <<"logEnd">>
    /\ Tail(<<"logUnavailable">>) = <<>>
    /\ Tail(<<"logUnavailable", "logDegraded", "bare", "logEnd">>) =
            <<"logDegraded", "bare", "logEnd">>
    /\ Tail(<<"logDegraded", "bare", "logEnd">>) = <<"bare", "logEnd">>
    /\ Tail(<<"logEnd">>) = <<>>
  OBVIOUS

-----------------------------------------------------------------------------
(* What the rules say *)

Reasons ==
    {"AllowedByPolicy",
     "ApprovalRequiredElevation", "ApprovalRequiredExport", "ApprovalRequiredMassDelete",
     "ApprovalRequiredNetworkUpload", "ApprovalRequiredPersistence", "ApprovalRequiredZone2",
     "DenyElevationPackageNotAllowlisted", "DenyElevationUnsupported",
     "DenyExecutionDownloaded", "DenyExecutionFromTemp", "DenyExecutionFromWorkspace",
     "DenyInterpreterStreamExec", "DenyInvalidRequest", "DenyNetworkDefault",
     "DenyNetworkNotAllowlisted", "DenyPersistence", "DenySecrets", "DenySystemCritical",
     "DenyUserDataWrite",
     "QuarantineDownloadExecChain", "QuarantineHighRiskPattern",
     "QuarantineInterpreterDownload"}

Decisions == [verdict : Verdicts, reason : Reasons]

LEMMA DecisionTypes ==
    /\ Allow \in Decisions /\ Allow.verdict = "Allow"
    /\ \A why \in Reasons :
          /\ Ask(why) \in Decisions /\ Ask(why).verdict = "RequireApproval"
          /\ Deny(why) \in Decisions /\ Deny(why).verdict = "Deny"
          /\ Quarantine(why) \in Decisions
  BY DEF Decisions, Verdicts, Reasons, Allow, Ask, Deny, Quarantine

Caches == [Paths -> Zones \cup {Unknown}]

LEMMA RequestTypes ==
    ASSUME NEW req \in Requests
    PROVE  /\ req.kind \in Kinds
           /\ req.path \in Paths \cup {NoPath}
           /\ req.second \in Paths \cup {NoPath}
  BY PipelineAssumption

LEMMA ClassifyInZones == ASSUME NEW p, NEW k PROVE Classify(p, k) \in Zones
  BY DEF Classify, Zones

LEMMA CacheType ==
    ASSUME NEW c \in Caches, NEW req \in Requests
    PROVE  /\ CacheAfter(c, req) \in Caches
           /\ Classifies(req) => ZoneFor(c, req) \in Zones
<1>1. CASE ~Classifies(req)
  BY <1>1 DEF CacheAfter
<1>2. CASE Classifies(req)
  <2>1. Target(req) \in Paths
    BY <1>2, RequestTypes DEF Classifies, Target
  <2>2. ZoneOf(c, Target(req), req.kind) \in Zones
    BY <2>1, ClassifyInZones DEF ZoneOf, Caches
  <2> QED BY <1>2, <2>1, <2>2 DEF CacheAfter, ZoneFor, Remember, Caches
<1> QED BY <1>1, <1>2

LEMMA ByZoneType ==
    ASSUME NEW pol \in Policies, NEW z \in Zones, NEW a \in Reasons, NEW d \in Reasons
    PROVE  ByZone(pol, z, a, d) \in Decisions /\ ByZone(pol, z, a, d).verdict # "Quarantine"
<1>1. pol.zone[z] \in {"allow", "approval", "deny"}
  BY DEF Policies, Dispositions
<1> QED BY <1>1, DecisionTypes DEF ByZone

\* Every request gets a decision, and what is quarantined has a path.
LEMMA EvaluateType ==
    ASSUME NEW pol \in Policies, NEW c \in Caches, NEW req \in Requests
    PROVE  /\ Evaluate(pol, c, req) \in Decisions
           /\ Evaluate(pol, c, req).verdict = "Quarantine" => req.path \in Paths
<1> DEFINE z == ZoneFor(c, req)
<1> USE DecisionTypes DEF Reasons
<1>1. CASE req.kind = "NetworkEgress"
  BY <1>1 DEF Evaluate, Decide, EvaluateNetwork
<1>2. CASE req.kind = "Download"
  BY <1>2 DEF Evaluate, Decide, EvaluateDownload
<1>3. CASE Target(req) = NoPath /\ req.kind \notin {"NetworkEgress", "Download"}
  BY <1>3 DEF Evaluate, Decide
<1>4. CASE Target(req) # NoPath /\ req.kind \notin {"NetworkEgress", "Download"}
  <2> DEFINE Fine(d) == d \in Decisions /\ (d.verdict = "Quarantine" => req.path \in Paths)
  <2>1. z \in Zones
    BY <1>4, CacheType DEF Classifies
  <2>2. DenyReason(z) \in Reasons
    BY DEF DenyReason, Reasons
  <2>3. /\ Fine(ByZone(pol, z, "ApprovalRequiredZone2", DenyReason(z)))
        /\ Fine(ByZone(pol, z, "ApprovalRequiredPersistence", "DenyPersistence"))
    <3>1. {"ApprovalRequiredZone2", "ApprovalRequiredPersistence", "DenyPersistence"} \subseteq Reasons
      OBVIOUS
    <3> HIDE DecisionTypes DEF Reasons, z
    <3>2. /\ ByZone(pol, z, "ApprovalRequiredZone2", DenyReason(z)) \in Decisions
          /\ ByZone(pol, z, "ApprovalRequiredZone2", DenyReason(z)).verdict # "Quarantine"
      BY <2>1, <2>2, <3>1, ByZoneType
    <3>3. /\ ByZone(pol, z, "ApprovalRequiredPersistence", "DenyPersistence") \in Decisions
          /\ ByZone(pol, z, "ApprovalRequiredPersistence", "DenyPersistence").verdict # "Quarantine"
      BY <2>1, <3>1, ByZoneType
    <3> QED BY <3>2, <3>3
  <2>4. req.path # NoPath => req.path \in Paths
    BY RequestTypes
  <2>5. Fine(EvaluateFilesystem(pol, req, z))
    BY <2>3 DEF EvaluateFilesystem
  <2>6. Fine(EvaluateExecution(pol, req, z))
    BY <2>3, <2>4 DEF EvaluateExecution, EvaluateDownloaded
  <2>7. Fine(EvaluatePersistence(pol, req, z))
    BY <2>3, <2>4 DEF EvaluatePersistence
  <2>8. Fine(EvaluateExport(req, z))
    BY <2>2 DEF EvaluateExport
  <2>9. req.kind \in Kinds
    BY RequestTypes
  <2> QED BY <1>4, <2>5, <2>6, <2>7, <2>8, <2>9 DEF Evaluate, Decide, Kinds, FileKinds
<1> QED BY <1>1, <1>2, <1>3, <1>4

LEMMA JudgementType ==
    ASSUME NEW r \in Runs, NEW req \in Requests,
           run[r].policy \in Policies, run[r].cache \in Caches
    PROVE  /\ Judgement(r, req) \in Decisions
           /\ Judgement(r, req).verdict = "Quarantine" => req.path \in Paths
<1> DEFINE e == Evaluate(run[r].policy, run[r].cache, req)
<1>1. e \in Decisions /\ (e.verdict = "Quarantine" => req.path \in Paths)
  BY EvaluateType
<1> USE DecisionTypes DEF Reasons
<1>2. JudgeElevation(run[r].policy, req) \in Decisions
      /\ JudgeElevation(run[r].policy, req).verdict # "Quarantine"
  BY DEF JudgeElevation
<1>3. Finalize(e, req) \in {e, Allow}
  BY DEF Finalize
<1>4. JudgeTool(e, req) \in {e, Allow, Deny("DenyUserDataWrite"), Deny("DenySystemCritical")}
  BY <1>3 DEF JudgeTool
<1>5. Judgement(r, req) \in {JudgeElevation(run[r].policy, req), e, Allow,
                             Deny("DenyUserDataWrite"), Deny("DenySystemCritical")}
  BY <1>3, <1>4 DEF Judgement
<1> QED BY <1>1, <1>2, <1>5

-----------------------------------------------------------------------------
(* The invariant *)

RunRecords ==
    [ops : Shapes, cmd : Commands \cup {NoCommand}, policy : SomePolicies \cup {NoPolicy},
     cache : Caches, left : Seq(Requests), decision : Decisions,
     ran : Seq({"confined", "bare", "host"}), answer : Verdicts \cup {"none"},
     approved : SUBSET Requests]

PipelineType ==
    /\ policy \in SomePolicies
    /\ queue \in [Requests -> [status : {"none", "pending", "approved"},
                              reason : Reasons \cup {"none"}]]
    /\ gone \subseteq Paths
    /\ run \in [Runs -> RunRecords]

AskedIn(entries, req) == \E e \in entries : e.req = req /\ e.verdict = "RequireApproval"

LabelledIn(entries, r, label) == \E e \in entries : e.run = r /\ e.label = label

\* What holds of a run that is judging.
JudgingOK(me, entries) ==
    /\ me.ops = <<"begin">> =>
          me.ran = <<>> /\ me.answer = "none" /\ me.cache = EmptyCache
    /\ me.ops # <<"begin">> =>
          me.cmd \in Commands /\ me.policy \in SomePolicies /\ me.left # <<>>
    /\ me.ops \in MoveOps => Head(me.left).path \in Paths
    /\ me.ops = <<"log", "queue", "answer">> => me.decision.verdict = "RequireApproval"
    /\ me.ops = <<"queue", "answer">> => AskedIn(entries, Head(me.left))
    /\ me.ops = <<"queue", "log", "answer">> => Head(me.left).stage = "exec"

\* What holds of a run that launches or has launched.
LaunchOK(r, me, entries) ==
    /\ me.ops \in LaunchOps \/ me.ran # <<>> => me.cmd.form # "tool"
    /\ me.ops \in FallbackOps => Degraded /\ me.cmd.form = "plain"
    /\ me.ops \in {<<"logDegraded", "bare", "logEnd">>, <<"bare", "logEnd">>} =>
          LabelledIn(entries, r, "unavailable")
    /\ me.ops = <<"bare", "logEnd">> => LabelledIn(entries, r, "degraded")
    /\ "host" \in Range(me.ran) => me.cmd.form = "gateway"
    /\ "bare" \in Range(me.ran) =>
          /\ Degraded /\ me.cmd.form = "plain"
          /\ LabelledIn(entries, r, "unavailable") /\ LabelledIn(entries, r, "degraded")

\* What ForcedStaysDenied says of a tool call, of the decision it is told.
ForcedOK(me) ==
    LET req == Head(me.left)
    IN  /\ me.decision.verdict = "Allow" =>
              /\ ~Has(req, "internal")
              /\ ~(req.kind \in FileKinds /\ Is(req.path, "delivery"))
              /\ Evaluate(me.policy, EmptyCache, req).verdict \in {"Allow", "RequireApproval"}
        /\ Has(req, "read") => me.decision.verdict # "RequireApproval"

\* A tool call has one action, which is judged by an engine that has judged
\* none before.
ToolOK(me) ==
    me.ops # <<"begin">> /\ me.cmd.form = "tool" =>
        /\ Len(me.left) = 1 /\ Head(me.left).stage = "tool"
        /\ me.ops = <<"judge">> => me.cache = EmptyCache /\ me.answer = "none"
        /\ me.ops \in JudgedOps => ForcedOK(me) /\ me.answer = "none"
        /\ me.answer # "none" => ForcedOK(me) /\ me.answer = me.decision.verdict

RunOK(r, me, entries) == JudgingOK(me, entries) /\ LaunchOK(r, me, entries) /\ ToolOK(me)

PipelineInv ==
    /\ PipelineType
    /\ QueuedIsReceipted
    /\ \A r \in Runs : RunOK(r, run[r], log)

\* Receipts are never taken away, so what a run relies on stays.
LEMMA LogGrows ==
    ASSUME NEW r, NEW me, NEW old, NEW new, old \subseteq new, RunOK(r, me, old)
    PROVE  RunOK(r, me, new)
<1>1. \A req : AskedIn(old, req) => AskedIn(new, req)
  BY DEF AskedIn
<1>2. \A label : LabelledIn(old, r, label) => LabelledIn(new, r, label)
  BY DEF LabelledIn
<1>3. JudgingOK(me, new)
  BY <1>1 DEF RunOK, JudgingOK
<1>4. LaunchOK(r, me, new)
  BY <1>2 DEF RunOK, LaunchOK
<1> QED BY <1>3, <1>4 DEF RunOK

\* A step of one run, which may append receipts, leaves the others as they were.
LEMMA OneRunSteps ==
    ASSUME NEW r \in Runs, NEW me \in RunRecords, PipelineInv,
           run' = [run EXCEPT ![r] = me], log \subseteq log', RunOK(r, me, log')
    PROVE  run' \in [Runs -> RunRecords] /\ \A t \in Runs : RunOK(t, run'[t], log')
<1>1. run \in [Runs -> RunRecords]
  BY DEF PipelineInv, PipelineType
<1>2. ASSUME NEW t \in Runs PROVE RunOK(t, run'[t], log')
  <2>1. CASE t = r
    BY <1>1, <2>1
  <2>2. CASE t # r
    BY <1>1, <2>2, LogGrows DEF PipelineInv
  <2> QED BY <2>1, <2>2
<1> QED BY <1>1, <1>2

\* What is queued and logged stays logged.
LEMMA ReceiptsStay ==
    ASSUME PipelineInv, queue' = queue, log \subseteq log'
    PROVE  QueuedIsReceipted'
  BY DEF PipelineInv, QueuedIsReceipted

-----------------------------------------------------------------------------
(* Every step keeps the invariant *)

LEMMA PipelineInit == Init => PipelineInv
<1> SUFFICES ASSUME Init PROVE PipelineInv
  OBVIOUS
<1>1. NotStarted \in RunRecords
  <2>1. <<"begin">> \in Shapes /\ Allow \in Decisions /\ EmptyCache \in Caches
    BY DecisionTypes DEF Shapes, EmptyCache, Caches
  <2>2. <<>> \in Seq(Requests) /\ <<>> \in Seq({"confined", "bare", "host"})
    OBVIOUS
  <2> QED BY <2>1, <2>2 DEF NotStarted, RunRecords
<1>2. PipelineType
  BY <1>1 DEF Init, PipelineType, NotAsked
<1>3. QueuedIsReceipted
  BY DEF Init, QueuedIsReceipted
<1>4. ASSUME NEW r \in Runs PROVE RunOK(r, run[r], log)
  <2>1. run[r] = NotStarted
    BY DEF Init
  <2>2. /\ NotStarted.ops = <<"begin">> /\ NotStarted.ran = <<>>
        /\ NotStarted.answer = "none" /\ NotStarted.cache = EmptyCache
    BY DEF NotStarted
  <2>3. Range(<<>>) = {}
    BY DEF Range
  <2>4. <<"begin">> \notin MoveOps \cup LaunchOps
    BY DEF MoveOps, LaunchOps, FallbackOps
  <2>5. JudgingOK(NotStarted, log)
    BY <2>2, <2>4 DEF JudgingOK
  <2>6. LaunchOK(r, NotStarted, log)
    BY <2>2, <2>3, <2>4 DEF LaunchOK, LaunchOps
  <2>7. ToolOK(NotStarted)
    BY <2>2 DEF ToolOK
  <2> QED BY <2>1, <2>5, <2>6, <2>7 DEF RunOK
<1> QED BY <1>2, <1>3, <1>4 DEF PipelineInv

\* A run is what it is at: the record of it, and the part of the invariant.
LEMMA Running ==
    ASSUME PipelineInv, NEW r \in Runs
    PROVE  /\ run[r] \in RunRecords /\ run[r].ops \in Shapes
           /\ run[r].cache \in Caches /\ run[r].decision \in Decisions
           /\ run[r].left \in Seq(Requests)
           /\ RunOK(r, run[r], log)
           /\ run[r].ops # <<"begin">> =>
                 /\ run[r].cmd \in Commands /\ run[r].left # <<>>
                 /\ run[r].policy \in SomePolicies /\ run[r].policy \in Policies
                 /\ Current(r) \in Requests
<1>1. run[r] \in RunRecords /\ RunOK(r, run[r], log)
  BY DEF PipelineInv, PipelineType
<1>2. /\ run[r].ops \in Shapes /\ run[r].cache \in Caches /\ run[r].decision \in Decisions
      /\ run[r].left \in Seq(Requests)
  BY <1>1 DEF RunRecords
<1>3. ASSUME run[r].ops # <<"begin">>
      PROVE  /\ run[r].cmd \in Commands /\ run[r].left # <<>>
             /\ run[r].policy \in SomePolicies /\ run[r].policy \in Policies
  BY <1>1, <1>3, PipelineAssumption DEF RunOK, JudgingOK
<1>4. run[r].left # <<>> => Current(r) \in Requests
  BY <1>2, HeadTailProperties DEF Current
<1> QED BY <1>1, <1>2, <1>3, <1>4

LEMMA BeginKeeps ==
    ASSUME PipelineInv, NEW r \in Runs, NEW cmd \in Commands, Begin(r, cmd)
    PROVE  PipelineInv'
<1> DEFINE me == [run[r] EXCEPT !.ops = <<"judge">>, !.cmd = cmd, !.policy = policy,
                                !.left = Actions(cmd), !.approved = Approved]
<1>1. /\ run' = [run EXCEPT ![r] = me]
      /\ policy' = policy /\ queue' = queue /\ log' = log /\ gone' = gone
  BY DEF Begin
<1>2. run[r].ops = <<"begin">>
  BY Running, ShapeHeads DEF Begin, At
<1>3. /\ run[r] \in RunRecords /\ run[r].ran = <<>> /\ run[r].answer = "none"
      /\ run[r].cache = EmptyCache
  BY <1>2, Running DEF RunOK, JudgingOK
<1>4. Actions(cmd) \in Seq(Requests) /\ Actions(cmd) # <<>>
  BY PipelineAssumption
<1>5. me \in RunRecords
  <2>1. <<"judge">> \in Shapes
    BY DEF Shapes
  <2>2. policy \in SomePolicies /\ Approved \subseteq Requests
    BY DEF PipelineInv, PipelineType, Approved
  <2> QED BY <1>3, <1>4, <2>1, <2>2 DEF RunRecords
<1>6. RunOK(r, me, log')
  <2>1. /\ me.ops = <<"judge">> /\ me.cmd = cmd /\ me.policy \in SomePolicies
        /\ me.left = Actions(cmd) /\ me.ran = <<>> /\ me.answer = "none"
        /\ me.cache = EmptyCache
    BY <1>3 DEF RunRecords, PipelineInv, PipelineType
  <2> HIDE DEF me
  <2>2. <<"judge">> \notin MoveOps \cup LaunchOps \cup JudgedOps
    BY DEF MoveOps, AskOps, JudgedOps, LaunchOps, FallbackOps
  <2>3. JudgingOK(me, log')
    BY <1>4, <2>1, <2>2 DEF JudgingOK
  <2>4. LaunchOK(r, me, log')
    <3>1. Range(<<>>) = {}
      BY DEF Range
    <3> QED BY <2>1, <2>2, <3>1 DEF LaunchOK, LaunchOps
  <2>5. ToolOK(me)
    BY <2>1, <2>2, PipelineAssumption DEF ToolOK
  <2> QED BY <2>3, <2>4, <2>5 DEF RunOK
<1> QED
  <2> HIDE DEF me
  <2> QED BY <1>1, <1>5, <1>6, OneRunSteps, ReceiptsStay DEF PipelineInv, PipelineType

LEMMA JudgeKeeps == ASSUME PipelineInv, NEW r \in Runs, Judge(r) PROVE PipelineInv'
<1> DEFINE req == Current(r)
           d == Judgement(r, req)
           c == IF Unevaluated(req) THEN run[r].cache ELSE CacheAfter(run[r].cache, req)
           me == [run[r] EXCEPT !.decision = d, !.ops = Follows(d.verdict, req), !.cache = c]
<1>1. /\ run' = [run EXCEPT ![r] = me]
      /\ policy' = policy /\ queue' = queue /\ log' = log /\ gone' = gone
  <2>1. run' = [run EXCEPT ![r] = me]
    BY DEF Judge
  <2>2. policy' = policy /\ queue' = queue /\ log' = log /\ gone' = gone
    BY DEF Judge
  <2> QED BY <2>1, <2>2
<1>2. run[r].ops = <<"judge">>
  BY Running, ShapeHeads DEF Judge, At
<1>3. /\ run[r] \in RunRecords /\ RunOK(r, run[r], log) /\ req \in Requests
      /\ run[r].policy \in Policies /\ run[r].cache \in Caches
      /\ run[r].cmd \in Commands /\ run[r].left # <<>> /\ run[r].policy \in SomePolicies
  BY <1>2, Running
<1>4. d \in Decisions /\ (d.verdict = "Quarantine" => req.path \in Paths)
  BY <1>3, JudgementType
<1>5. c \in Caches
  BY <1>3, CacheType
<1> DEFINE f == Follows(d.verdict, req)
<1>6. /\ f \in JudgedOps /\ f \notin {<<"queue", "answer">>, <<"next">>}
      /\ f \in AskOps => d.verdict = "RequireApproval"
      /\ f \in MoveOps => d.verdict = "Quarantine"
      /\ f = <<"queue", "log", "answer">> => req.stage = "exec"
  BY FollowsShape
<1>7. /\ me.decision = d /\ me.ops = f /\ me.cache = c
      /\ me.cmd = run[r].cmd /\ me.policy = run[r].policy /\ me.left = run[r].left
      /\ me.ran = run[r].ran /\ me.answer = run[r].answer /\ Head(me.left) = req
  BY <1>3 DEF RunRecords, Current
<1>8. me \in RunRecords
  BY <1>3, <1>4, <1>5, <1>6 DEF RunRecords, Shapes
<1>9. run[r].cmd.form = "tool" => ForcedOK(me)
  <2> SUFFICES ASSUME run[r].cmd.form = "tool" PROVE ForcedOK(me)
    OBVIOUS
  <2>1. req.stage = "tool" /\ run[r].cache = EmptyCache
    BY <1>2, <1>3 DEF RunOK, ToolOK, Current
  <2> DEFINE e == Evaluate(run[r].policy, EmptyCache, req)
  <2>2. d = JudgeTool(e, req)
    BY <2>1 DEF Judgement
  <2>3. /\ d.verdict = "Allow" =>
              /\ ~Has(req, "internal")
              /\ ~(req.kind \in FileKinds /\ Is(req.path, "delivery"))
              /\ e.verdict \in {"Allow", "RequireApproval"}
        /\ Has(req, "read") => d.verdict # "RequireApproval"
    <3>1. e \in Decisions
      BY <1>3, <2>1, EvaluateType
    <3> HIDE DEF e, req, d
    <3> QED BY <2>2, <3>1 DEF JudgeTool, Finalize, Deny, Allow
  <2> HIDE DEF me
  <2> QED BY <1>7, <2>3 DEF ForcedOK
<1>10. RunOK(r, me, log')
  <2> HIDE DEF me, f, d, c
  <2>1. f \notin LaunchOps /\ f # <<"begin">> /\ f # <<"judge">>
    BY <1>6 DEF JudgedOps, AskOps, MoveOps, LaunchOps, FallbackOps
  <2>2. JudgingOK(me, log')
    BY <1>3, <1>4, <1>6, <1>7, <2>1 DEF JudgingOK, AskOps
  <2>3. LaunchOK(r, me, log')
    BY <1>1, <1>3, <1>7, <2>1 DEF RunOK, LaunchOK, LaunchOps, FallbackOps
  <2>4. ToolOK(me)
    BY <1>2, <1>3, <1>7, <1>9, <2>1 DEF RunOK, ToolOK
  <2> QED BY <2>2, <2>3, <2>4 DEF RunOK
<1> QED
  <2> HIDE DEF me
  <2> QED BY <1>1, <1>8, <1>10, OneRunSteps, ReceiptsStay DEF PipelineInv, PipelineType

\* A run that goes on to its next duty changes nothing else of itself.
LEMMA OnlyOps ==
    ASSUME PipelineInv, NEW r \in Runs, NEW s \in Shapes
    PROVE  LET me == [run[r] EXCEPT !.ops = s]
           IN  /\ me \in RunRecords /\ me.ops = s
               /\ me.cmd = run[r].cmd /\ me.policy = run[r].policy /\ me.left = run[r].left
               /\ me.cache = run[r].cache /\ me.decision = run[r].decision
               /\ me.ran = run[r].ran /\ me.answer = run[r].answer
  BY Running DEF RunRecords

\* A run whose duties are done, or cut off, keeps what it had.
LEMMA EndingOK ==
    ASSUME PipelineInv, NEW r \in Runs, run[r].ops # <<"begin">>
    PROVE  RunOK(r, [run[r] EXCEPT !.ops = <<>>], log)
<1> DEFINE me == [run[r] EXCEPT !.ops = <<>>]
<1>1. <<>> \in Shapes /\ <<>> \notin {<<"begin">>, <<"judge">>} \cup JudgedOps \cup LaunchOps
  BY DEF Shapes, JudgedOps, AskOps, MoveOps, LaunchOps, FallbackOps
<1>2. /\ me.ops = <<>>
      /\ me.cmd = run[r].cmd /\ me.policy = run[r].policy /\ me.left = run[r].left
      /\ me.cache = run[r].cache /\ me.decision = run[r].decision
      /\ me.ran = run[r].ran /\ me.answer = run[r].answer
  BY <1>1, OnlyOps
<1>3. RunOK(r, run[r], log)
  BY Running
<1> HIDE DEF me
<1>4. JudgingOK(me, log)
  BY <1>1, <1>2, <1>3 DEF RunOK, JudgingOK, JudgedOps, MoveOps
<1>5. LaunchOK(r, me, log)
  BY <1>1, <1>2, <1>3 DEF RunOK, LaunchOK, LaunchOps, FallbackOps
<1>6. ToolOK(me)
  BY <1>1, <1>2, <1>3 DEF RunOK, ToolOK, ForcedOK
<1> QED BY <1>4, <1>5, <1>6 DEF RunOK, me

LEMMA StopKeeps == ASSUME PipelineInv, NEW r \in Runs, Stop(r) PROVE PipelineInv'
<1> DEFINE me == [run[r] EXCEPT !.ops = <<>>]
<1>1. /\ run' = [run EXCEPT ![r] = me]
      /\ policy' = policy /\ queue' = queue /\ log' = log /\ gone' = gone
  BY DEF Stop
<1>2. run[r].ops # <<"begin">>
  BY DEF Stop, At
<1>3. me \in RunRecords
  BY OnlyOps, <<>> \in Shapes DEF Shapes
<1>4. RunOK(r, me, log')
  BY <1>1, <1>2, EndingOK
<1> HIDE DEF me
<1> QED BY <1>1, <1>3, <1>4, OneRunSteps, ReceiptsStay DEF PipelineInv, PipelineType

\* The receipt a run appends when it is to log its decision.
LEMMA LogKeeps == ASSUME PipelineInv, NEW r \in Runs, Log(r) PROVE PipelineInv'
<1> DEFINE o == run[r].ops
           e == Receipt(r, "decision", run[r].decision.verdict)
           me == [run[r] EXCEPT !.ops = Tail(o)]
<1>1. /\ run' = [run EXCEPT ![r] = me] /\ log' = log \cup {e}
      /\ policy' = policy /\ queue' = queue /\ gone' = gone
  BY DEF Log, Step
<1>2. o \in {<<"log", "next">>, <<"log", "answer">>, <<"log", "queue", "answer">>,
            <<"log", "move", "answer">>}
  BY Running, ShapeHeads DEF Log, At
<1>3. /\ \/ o = <<"log", "next">> /\ Tail(o) = <<"next">>
         \/ o = <<"log", "answer">> /\ Tail(o) = <<"answer">>
         \/ o = <<"log", "queue", "answer">> /\ Tail(o) = <<"queue", "answer">>
         \/ o = <<"log", "move", "answer">> /\ Tail(o) = <<"move", "answer">>
      /\ o \in JudgedOps /\ o # <<"begin">>
      /\ o = <<"log", "move", "answer">> => o \in MoveOps
  <2> HIDE DEF o
  <2>1. /\ <<"log", "next">> \in JudgedOps /\ <<"log", "answer">> \in JudgedOps
        /\ <<"log", "queue", "answer">> \in JudgedOps
        /\ <<"log", "move", "answer">> \in JudgedOps
        /\ <<"log", "move", "answer">> \in MoveOps
    BY DEF JudgedOps, AskOps, MoveOps
  <2>2. <<"begin">> \notin JudgedOps
    BY DEF JudgedOps, AskOps, MoveOps
  <2> QED BY <1>2, <2>1, <2>2, ShapeTails
<1>4. /\ Tail(o) \in JudgedOps /\ Tail(o) \in Shapes /\ Tail(o) \notin LaunchOps
      /\ Tail(o) \notin {<<"begin">>, <<"judge">>, <<"log", "queue", "answer">>,
                        <<"queue", "log", "answer">>}
      /\ Tail(o) \in MoveOps => o \in MoveOps
      /\ Tail(o) = <<"queue", "answer">> => o = <<"log", "queue", "answer">>
  BY <1>3 DEF JudgedOps, AskOps, MoveOps, LaunchOps, FallbackOps, Shapes
<1>5. /\ me \in RunRecords /\ me.ops = Tail(o)
      /\ me.cmd = run[r].cmd /\ me.policy = run[r].policy /\ me.left = run[r].left
      /\ me.cache = run[r].cache /\ me.decision = run[r].decision
      /\ me.ran = run[r].ran /\ me.answer = run[r].answer
  BY <1>4, OnlyOps
<1>6. RunOK(r, run[r], log') /\ log \subseteq log'
  BY <1>1, Running, LogGrows
<1>7. o = <<"log", "queue", "answer">> => AskedIn(log', Head(run[r].left))
  <2>1. e \in log' /\ e.req = Head(run[r].left) /\ e.verdict = run[r].decision.verdict
    BY <1>1 DEF Receipt, Current
  <2> HIDE DEF e
  <2> QED BY <1>6, <2>1 DEF RunOK, JudgingOK, AskedIn
<1>8. RunOK(r, me, log')
  <2> HIDE DEF me, o
  <2>1. run[r].ops = o
    BY DEF o
  <2>2. JudgingOK(me, log')
    BY <1>3, <1>4, <1>5, <1>6, <1>7, <2>1 DEF RunOK, JudgingOK
  <2>3. LaunchOK(r, me, log')
    BY <1>4, <1>5, <1>6 DEF RunOK, LaunchOK, LaunchOps, FallbackOps
  <2>4. ToolOK(me)
    BY <1>3, <1>4, <1>5, <1>6, <2>1 DEF RunOK, ToolOK, ForcedOK
  <2> QED BY <2>2, <2>3, <2>4 DEF RunOK
<1> HIDE DEF me
<1> QED BY <1>1, <1>5, <1>6, <1>8, OneRunSteps, ReceiptsStay DEF PipelineInv, PipelineType

\* What remains after a request was queued or a path moved.
LEMMA RefusalGoesOn ==
    ASSUME PipelineInv, NEW r \in Runs,
           run[r].ops \in {<<"queue", "answer">>, <<"queue", "log", "answer">>,
                          <<"move", "answer">>, <<"move", "log", "answer">>}
    PROVE  /\ [run[r] EXCEPT !.ops = Tail(run[r].ops)] \in RunRecords
           /\ RunOK(r, [run[r] EXCEPT !.ops = Tail(run[r].ops)], log)
<1> DEFINE o == run[r].ops
           me == [run[r] EXCEPT !.ops = Tail(o)]
<1>1. Tail(o) \in {<<"answer">>, <<"log", "answer">>}
  BY ShapeTails
<1>2. /\ Tail(o) \in Shapes /\ Tail(o) \in JudgedOps
      /\ Tail(o) \notin LaunchOps \cup MoveOps \cup AskOps \cup {<<"begin">>, <<"judge">>}
      /\ o \in JudgedOps /\ o # <<"begin">>
  BY <1>1 DEF JudgedOps, AskOps, MoveOps, LaunchOps, FallbackOps, Shapes
<1>3. /\ me \in RunRecords /\ me.ops = Tail(o)
      /\ me.cmd = run[r].cmd /\ me.policy = run[r].policy /\ me.left = run[r].left
      /\ me.cache = run[r].cache /\ me.decision = run[r].decision
      /\ me.ran = run[r].ran /\ me.answer = run[r].answer
  BY <1>2, OnlyOps
<1>4. RunOK(r, run[r], log)
  BY Running
<1>5. RunOK(r, me, log)
  <2> HIDE DEF me, o
  <2>1. run[r].ops = o
    BY DEF o
  <2>2. JudgingOK(me, log)
    BY <1>2, <1>3, <1>4, <2>1 DEF RunOK, JudgingOK, AskOps
  <2>3. LaunchOK(r, me, log)
    BY <1>2, <1>3, <1>4 DEF RunOK, LaunchOK, LaunchOps, FallbackOps
  <2>4. ToolOK(me)
    BY <1>2, <1>3, <1>4, <2>1 DEF RunOK, ToolOK, ForcedOK
  <2> QED BY <2>2, <2>3, <2>4 DEF RunOK
<1> QED BY <1>3, <1>5

\* What is put to the operator was logged, unless it is the command itself.
LEMMA QueueKeeps == ASSUME PipelineInv, NEW r \in Runs, Queue(r) PROVE PipelineInv'
<1> DEFINE req == Current(r)
           asked == [status |-> "pending", reason |-> run[r].decision.reason]
           me == [run[r] EXCEPT !.ops = Tail(run[r].ops)]
<1>1. /\ run' = [run EXCEPT ![r] = me]
      /\ queue' \in {queue, [queue EXCEPT ![req] = asked]}
      /\ policy' = policy /\ log' = log /\ gone' = gone
  BY DEF Queue, Step
<1>2. run[r].ops \in {<<"queue", "answer">>, <<"queue", "log", "answer">>}
  BY Running, ShapeHeads DEF Queue, At
<1>3. /\ RunOK(r, run[r], log) /\ run[r].ops # <<"begin">>
      /\ req \in Requests /\ run[r].decision \in Decisions
  BY <1>2, Running
<1>4. me \in RunRecords /\ RunOK(r, me, log)
  BY <1>2, RefusalGoesOn
<1>5. asked \in [status : {"none", "pending", "approved"}, reason : Reasons \cup {"none"}]
  BY <1>3 DEF Decisions
<1>6. PipelineType'
  <2>1. run' \in [Runs -> RunRecords]
    BY <1>1, <1>4 DEF PipelineInv, PipelineType
  <2> HIDE DEF asked, me
  <2> QED BY <1>1, <1>3, <1>5, <2>1 DEF PipelineInv, PipelineType
<1>7. req.stage = "exec" \/ AskedIn(log, req)
  BY <1>2, <1>3 DEF RunOK, JudgingOK, Current
<1>8. QueuedIsReceipted'
  <2> SUFFICES ASSUME NEW q \in Requests, queue'[q] # NotAsked, q.stage # "exec"
               PROVE  AskedIn(log', q)
    BY DEF QueuedIsReceipted, AskedIn
  <2>1. CASE q = req
    BY <1>1, <1>7, <2>1
  <2>2. CASE q # req
    <3>1. queue'[q] = queue[q]
      BY <1>1, <2>2 DEF PipelineInv, PipelineType
    <3> QED BY <1>1, <3>1 DEF PipelineInv, QueuedIsReceipted, AskedIn
  <2> QED BY <2>1, <2>2
<1>9. \A t \in Runs : RunOK(t, run'[t], log')
  <2> HIDE DEF me
  <2> QED BY <1>1, <1>4, OneRunSteps
<1> QED BY <1>6, <1>8, <1>9 DEF PipelineInv

LEMMA MoveKeeps == ASSUME PipelineInv, NEW r \in Runs, Move(r) PROVE PipelineInv'
<1> DEFINE me == [run[r] EXCEPT !.ops = Tail(run[r].ops)]
<1>1. /\ run' = [run EXCEPT ![r] = me]
      /\ gone' \in {gone, gone \cup {Current(r).path}}
      /\ policy' = policy /\ log' = log /\ queue' = queue
  BY DEF Move, Step
<1>2. run[r].ops \in {<<"move", "answer">>, <<"move", "log", "answer">>}
  BY Running, ShapeHeads DEF Move, At
<1>3. Current(r).path \in Paths
  BY <1>2, Running DEF RunOK, JudgingOK, MoveOps, Current
<1>4. me \in RunRecords /\ RunOK(r, me, log)
  BY <1>2, RefusalGoesOn
<1>5. gone' \subseteq Paths
  BY <1>1, <1>3 DEF PipelineInv, PipelineType
<1> HIDE DEF me
<1> QED BY <1>1, <1>4, <1>5, OneRunSteps, ReceiptsStay DEF PipelineInv, PipelineType

LEMMA NextActionKeeps == ASSUME PipelineInv, NEW r \in Runs, NextAction(r) PROVE PipelineInv'
<1> DEFINE left == IF Len(run[r].left) = 1 THEN run[r].left ELSE Tail(run[r].left)
           ops == IF Len(run[r].left) > 1 THEN <<"judge">>
                  ELSE IF run[r].cmd.form = "tool" THEN <<"answer">>
                  ELSE <<"launch">>
           me == [run[r] EXCEPT !.left = left, !.ops = ops]
<1>1. /\ run' = [run EXCEPT ![r] = me]
      /\ policy' = policy /\ queue' = queue /\ log' = log /\ gone' = gone
  BY DEF NextAction
<1>2. run[r].ops = <<"next">>
  BY Running, ShapeHeads DEF NextAction, At
<1>3. /\ run[r] \in RunRecords /\ RunOK(r, run[r], log)
      /\ run[r].left \in Seq(Requests) /\ run[r].left # <<>>
      /\ run[r].cmd \in Commands /\ run[r].policy \in SomePolicies
  BY <1>2, Running
<1>4. /\ left \in Seq(Requests) /\ left # <<>> /\ Len(run[r].left) \in Nat \ {0}
      /\ Len(run[r].left) = 1 => left = run[r].left
  <2>1. Len(run[r].left) \in Nat \ {0}
    BY <1>3, EmptySeq
  <2>2. CASE Len(run[r].left) = 1
    BY <1>3, <2>1, <2>2
  <2>3. CASE Len(run[r].left) # 1
    <3>1. /\ Tail(run[r].left) \in Seq(Requests)
          /\ Len(Tail(run[r].left)) = Len(run[r].left) - 1
      BY <1>3, HeadTailProperties
    <3>2. Len(Tail(run[r].left)) # 0
      BY <2>1, <2>3, <3>1
    <3>3. Tail(run[r].left) # <<>>
      BY <3>2, EmptySeq
    <3> QED BY <2>1, <2>3, <3>1, <3>3
  <2> QED BY <2>2, <2>3
<1>5. /\ ops \in Shapes /\ ops # <<"begin">>
      /\ ops \notin MoveOps \cup AskOps \cup FallbackOps
      /\ ops \in JudgedOps => ops = <<"answer">>
      /\ ops \in LaunchOps => ops = <<"launch">>
  BY DEF Shapes, JudgedOps, AskOps, MoveOps, LaunchOps, FallbackOps
<1>6. /\ me \in RunRecords /\ me.ops = ops /\ me.left = left
      /\ me.cmd = run[r].cmd /\ me.policy = run[r].policy
      /\ me.cache = run[r].cache /\ me.decision = run[r].decision
      /\ me.ran = run[r].ran /\ me.answer = run[r].answer
  BY <1>3, <1>4, <1>5 DEF RunRecords
<1>7. /\ ops = <<"launch">> => run[r].cmd.form # "tool"
      /\ Len(run[r].left) = 1 => ops # <<"judge">>
  <2>1. /\ <<"launch">> # <<"judge">> /\ <<"launch">> # <<"answer">>
        /\ <<"answer">> # <<"judge">>
    OBVIOUS
  <2>2. Len(run[r].left) = 1 => ~(Len(run[r].left) > 1)
    BY <1>4
  <2> QED BY <2>1, <2>2
<1>8. RunOK(r, me, log')
  <2> HIDE DEF me, ops, left
  <2>1. JudgingOK(me, log')
    BY <1>3, <1>4, <1>5, <1>6 DEF JudgingOK, AskOps
  <2>2. LaunchOK(r, me, log')
    BY <1>1, <1>3, <1>5, <1>6, <1>7 DEF RunOK, LaunchOK, FallbackOps
  <2>3. ToolOK(me)
    <3>1. <<"next">> \in JudgedOps /\ <<"next">> # <<"begin">>
      BY DEF JudgedOps
    <3> SUFFICES ASSUME run[r].cmd.form = "tool"
                 PROVE  ToolOK(me)
      BY <1>6 DEF ToolOK
    <3>2. Len(run[r].left) = 1 /\ Head(run[r].left).stage = "tool"
          /\ ForcedOK(run[r]) /\ run[r].answer = "none"
      BY <1>2, <1>3, <3>1 DEF RunOK, ToolOK
    <3> QED BY <1>4, <1>6, <1>7, <3>2 DEF ToolOK, ForcedOK
  <2> QED BY <2>1, <2>2, <2>3 DEF RunOK
<1> HIDE DEF me
<1> QED BY <1>1, <1>6, <1>8, OneRunSteps, ReceiptsStay DEF PipelineInv, PipelineType

LEMMA AnswerKeeps == ASSUME PipelineInv, NEW r \in Runs, Answer(r) PROVE PipelineInv'
<1> DEFINE me == [run[r] EXCEPT !.ops = <<>>, !.answer = run[r].decision.verdict]
<1>1. /\ run' = [run EXCEPT ![r] = me]
      /\ policy' = policy /\ queue' = queue /\ log' = log /\ gone' = gone
  BY DEF Answer
<1>2. run[r].ops = <<"answer">>
  BY Running, ShapeHeads DEF Answer, At
<1>3. /\ run[r] \in RunRecords /\ RunOK(r, run[r], log) /\ run[r].decision \in Decisions
      /\ run[r].left # <<>> /\ run[r].cmd \in Commands /\ run[r].policy \in SomePolicies
  BY <1>2, Running
<1>4. <<>> \in Shapes /\ <<>> \notin {<<"begin">>, <<"judge">>} \cup JudgedOps \cup LaunchOps
  BY DEF Shapes, JudgedOps, AskOps, MoveOps, LaunchOps, FallbackOps
<1>5. /\ me \in RunRecords /\ me.ops = <<>> /\ me.answer = run[r].decision.verdict
      /\ me.cmd = run[r].cmd /\ me.policy = run[r].policy /\ me.left = run[r].left
      /\ me.cache = run[r].cache /\ me.decision = run[r].decision /\ me.ran = run[r].ran
  BY <1>3, <1>4 DEF RunRecords, Decisions
<1>6. RunOK(r, me, log')
  <2> HIDE DEF me
  <2>1. JudgingOK(me, log')
    BY <1>3, <1>4, <1>5 DEF JudgingOK, JudgedOps
  <2>2. LaunchOK(r, me, log')
    BY <1>1, <1>3, <1>4, <1>5 DEF RunOK, LaunchOK, LaunchOps, FallbackOps
  <2>3. ToolOK(me)
    <3>1. <<"answer">> \in JudgedOps /\ <<"answer">> # <<"begin">>
      BY DEF JudgedOps
    <3> QED BY <1>2, <1>3, <1>4, <1>5, <3>1 DEF RunOK, ToolOK, ForcedOK
  <2> QED BY <2>1, <2>2, <2>3 DEF RunOK
<1> HIDE DEF me
<1> QED BY <1>1, <1>5, <1>6, OneRunSteps, ReceiptsStay DEF PipelineInv, PipelineType

-----------------------------------------------------------------------------
(* Launching *)

LEMMA RangeAppend ==
    ASSUME NEW S, NEW s \in Seq(S), NEW e \in S
    PROVE  Append(s, e) \in Seq(S) /\ Range(Append(s, e)) = Range(s) \cup {e}
<1>1. /\ Append(s, e) \in Seq(S) /\ Len(Append(s, e)) = Len(s) + 1
      /\ \A i \in 1 .. Len(s) : Append(s, e)[i] = s[i]
      /\ Append(s, e)[Len(s) + 1] = e
  BY AppendProperties
<1>2. /\ Len(s) \in Nat /\ DOMAIN s = 1 .. Len(s)
      /\ DOMAIN Append(s, e) = 1 .. Len(s) + 1
  BY <1>1, LenProperties
<1>3. DOMAIN Append(s, e) = DOMAIN s \cup {Len(s) + 1}
  BY <1>2
<1>4. \A i \in DOMAIN s : Append(s, e)[i] = s[i]
  BY <1>1, <1>2
<1> QED BY <1>1, <1>3, <1>4 DEF Range

\* After a failure there is a fallback only for what may have one.
LEMMA FallbackShape ==
    ASSUME NEW cmd \in Commands, cmd.form # "gateway", cmd.form # "tool"
    PROVE  \/ <<"logUnavailable">> \o Fallback(cmd) = <<"logUnavailable">>
           \/ /\ <<"logUnavailable">> \o Fallback(cmd) =
                    <<"logUnavailable", "logDegraded", "bare", "logEnd">>
              /\ Degraded /\ cmd.form = "plain"
<1>1. CASE CanFallBack(cmd)
  <2>1. Degraded /\ cmd.form = "plain"
    BY <1>1, PipelineAssumption DEF CanFallBack, Forms
  <2>2. <<"logUnavailable">> \o <<"logDegraded", "bare", "logEnd">> =
            <<"logUnavailable", "logDegraded", "bare", "logEnd">>
    BY ConcatFour
  <2> QED BY <1>1, <2>1, <2>2 DEF Fallback
<1>2. CASE ~CanFallBack(cmd)
  <2>1. <<"logUnavailable">> \in Seq({"logUnavailable"})
    OBVIOUS
  <2>2. <<"logUnavailable">> \o <<>> = <<"logUnavailable">>
    BY <2>1, ConcatEmptySeq
  <2> QED BY <1>2, <2>2 DEF Fallback
<1> QED BY <1>1, <1>2

\* A run that launches is right as long as what it goes on to and what it has
\* launched are.
LEMMA LaunchGoesOn ==
    ASSUME PipelineInv, NEW r \in Runs, run[r].ops \in LaunchOps,
           NEW entries, log \subseteq entries,
           NEW ops \in {<<>>} \cup LaunchOps,
           NEW ran \in Seq({"confined", "bare", "host"}),
           ops \in FallbackOps => Degraded /\ run[r].cmd.form = "plain",
           ops \in {<<"logDegraded", "bare", "logEnd">>, <<"bare", "logEnd">>} =>
               LabelledIn(entries, r, "unavailable"),
           ops = <<"bare", "logEnd">> => LabelledIn(entries, r, "degraded"),
           "host" \in Range(ran) => run[r].cmd.form = "gateway",
           "bare" \in Range(ran) =>
               /\ Degraded /\ run[r].cmd.form = "plain"
               /\ LabelledIn(entries, r, "unavailable") /\ LabelledIn(entries, r, "degraded")
    PROVE  LET me == [run[r] EXCEPT !.ran = ran, !.ops = ops]
           IN  me \in RunRecords /\ RunOK(r, me, entries)
<1> DEFINE me == [run[r] EXCEPT !.ran = ran, !.ops = ops]
<1>1. run[r].ops # <<"begin">>
  BY DEF LaunchOps, FallbackOps
<1>2. /\ run[r] \in RunRecords /\ RunOK(r, run[r], log) /\ run[r].cmd \in Commands
      /\ run[r].left # <<>> /\ run[r].policy \in SomePolicies
  BY <1>1, Running
<1>3. /\ ops \in Shapes
      /\ ops \notin {<<"begin">>, <<"judge">>} \cup JudgedOps
  <2>1. ops # <<>> => Head(ops) \in {"launch", "logUnavailable", "logDegraded", "logEnd", "bare"}
    BY DEF LaunchOps, FallbackOps
  <2>2. \A s \in {<<"begin">>, <<"judge">>} \cup JudgedOps :
          s # <<>> /\ Head(s) \in {"begin", "judge", "log", "next", "answer", "queue", "move"}
    BY DEF JudgedOps, AskOps, MoveOps
  <2>3. ops \in Shapes
    BY DEF Shapes
  <2> QED BY <2>1, <2>2, <2>3
<1>4. /\ me \in RunRecords /\ me.ops = ops /\ me.ran = ran
      /\ me.cmd = run[r].cmd /\ me.policy = run[r].policy /\ me.left = run[r].left
      /\ me.cache = run[r].cache /\ me.decision = run[r].decision
      /\ me.answer = run[r].answer
  BY <1>2, <1>3 DEF RunRecords
<1>5. run[r].cmd.form # "tool"
  BY <1>2 DEF RunOK, LaunchOK
<1> HIDE DEF me
<1>6. JudgingOK(me, entries)
  BY <1>2, <1>3, <1>4 DEF JudgingOK, JudgedOps, AskOps
<1>7. LaunchOK(r, me, entries)
  BY <1>4, <1>5 DEF LaunchOK
<1>8. ToolOK(me)
  BY <1>4, <1>5 DEF ToolOK
<1> QED BY <1>4, <1>6, <1>7, <1>8 DEF RunOK, me

LEMMA LaunchKeeps ==
    ASSUME PipelineInv, NEW r \in Runs,
           LaunchGateway(r) \/ NoConfinement(r) \/ LaunchConfined(r)
    PROVE  PipelineInv'
<1>1. run[r].ops = <<"launch">> /\ run[r].ops \in LaunchOps
  <2>1. run[r].ops = <<"launch">>
    BY Running, ShapeHeads DEF LaunchGateway, NoConfinement, LaunchConfined, At
  <2> QED BY <2>1 DEF LaunchOps
<1>2. /\ run[r] \in RunRecords /\ RunOK(r, run[r], log) /\ run[r].cmd \in Commands
      /\ run[r].cmd.form # "tool"
      /\ run[r].ran \in Seq({"confined", "bare", "host"})
  BY <1>1, Running DEF RunOK, LaunchOK, RunRecords
<1>3. /\ "host" \in Range(run[r].ran) => run[r].cmd.form = "gateway"
      /\ "bare" \in Range(run[r].ran) =>
            /\ Degraded /\ run[r].cmd.form = "plain"
            /\ LabelledIn(log, r, "unavailable") /\ LabelledIn(log, r, "degraded")
  BY <1>2 DEF RunOK, LaunchOK
<1> DEFINE failing == <<"logUnavailable">> \o Fallback(run[r].cmd)
           with(ran, ops) == [run[r] EXCEPT !.ran = ran, !.ops = ops]
<1>4. run[r].cmd.form # "gateway" =>
        /\ failing \in LaunchOps
        /\ failing \in FallbackOps => Degraded /\ run[r].cmd.form = "plain"
        /\ failing \notin {<<"logDegraded", "bare", "logEnd">>, <<"bare", "logEnd">>}
  <2>1. <<"logUnavailable">> \notin FallbackOps
    BY DEF FallbackOps
  <2>2. <<"logUnavailable", "logDegraded", "bare", "logEnd">> \notin
          {<<"logDegraded", "bare", "logEnd">>, <<"bare", "logEnd">>}
    OBVIOUS
  <2>3. <<"logUnavailable">> \in LaunchOps /\ FallbackOps \subseteq LaunchOps
        /\ <<"logUnavailable", "logDegraded", "bare", "logEnd">> \in FallbackOps
        /\ {<<"logDegraded", "bare", "logEnd">>, <<"bare", "logEnd">>} \subseteq FallbackOps
    BY DEF LaunchOps, FallbackOps
  <2>4. run[r].cmd.form # "gateway" =>
          \/ failing = <<"logUnavailable">>
          \/ /\ failing = <<"logUnavailable", "logDegraded", "bare", "logEnd">>
             /\ Degraded /\ run[r].cmd.form = "plain"
    BY <1>2, FallbackShape
  <2> HIDE DEF failing
  <2> QED BY <2>1, <2>2, <2>3, <2>4
<1>5. /\ <<"logEnd">> \in LaunchOps /\ <<"logEnd">> \notin FallbackOps
      /\ <<"logEnd">> \notin {<<"logDegraded", "bare", "logEnd">>, <<"bare", "logEnd">>}
  BY DEF LaunchOps, FallbackOps
<1>6. \A how \in {"confined", "host"} :
        /\ Append(run[r].ran, how) \in Seq({"confined", "bare", "host"})
        /\ Range(Append(run[r].ran, how)) = Range(run[r].ran) \cup {how}
  BY <1>2, RangeAppend
<1>7. \E me \in RunRecords : RunOK(r, me, log) /\ run' = [run EXCEPT ![r] = me]
  <2>1. CASE LaunchGateway(r)
    <3>1. run' = [run EXCEPT ![r] = with(Append(run[r].ran, "host"), <<"logEnd">>)]
          /\ run[r].cmd.form = "gateway"
      BY <2>1 DEF LaunchGateway, Launched
    <3>2. /\ with(Append(run[r].ran, "host"), <<"logEnd">>) \in RunRecords
          /\ RunOK(r, with(Append(run[r].ran, "host"), <<"logEnd">>), log)
      BY <1>1, <1>3, <1>5, <1>6, <3>1, LaunchGoesOn
    <3> QED BY <3>1, <3>2
  <2>2. CASE NoConfinement(r)
    <3>1. run' = [run EXCEPT ![r] = with(run[r].ran, failing)]
          /\ run[r].cmd.form # "gateway"
      <4>1. run' = [run EXCEPT ![r].ops = failing] /\ run[r].cmd.form # "gateway"
        BY <2>2 DEF NoConfinement
      <4>2. [run[r] EXCEPT !.ops = failing] = with(run[r].ran, failing)
        BY <1>2 DEF RunRecords
      <4> QED BY <4>1, <4>2
    <3>2. with(run[r].ran, failing) \in RunRecords /\ RunOK(r, with(run[r].ran, failing), log)
      <4> HIDE DEF failing
      <4> QED BY <1>1, <1>2, <1>3, <1>4, <3>1, LaunchGoesOn
    <3> QED BY <3>1, <3>2
  <2>3. CASE LaunchConfined(r)
    <3>1. PICK ops \in {<<"logEnd">>, failing} :
            run' = [run EXCEPT ![r] = with(Append(run[r].ran, "confined"), ops)]
      BY <2>3 DEF LaunchConfined, Launched
    <3>2. run[r].cmd.form # "gateway"
      BY <2>3 DEF LaunchConfined
    <3>3. /\ with(Append(run[r].ran, "confined"), ops) \in RunRecords
          /\ RunOK(r, with(Append(run[r].ran, "confined"), ops), log)
      <4> HIDE DEF failing
      <4> QED BY <1>1, <1>3, <1>4, <1>5, <1>6, <3>2, LaunchGoesOn
    <3> QED BY <3>1, <3>3
  <2> QED BY <2>1, <2>2, <2>3
<1>8. policy' = policy /\ queue' = queue /\ log' = log /\ gone' = gone
  BY DEF LaunchGateway, NoConfinement, LaunchConfined
<1> QED BY <1>7, <1>8, OneRunSteps, ReceiptsStay DEF PipelineInv, PipelineType

\* A run about to launch without confinement has both receipts already.
LEMMA LaunchBareKeeps == ASSUME PipelineInv, NEW r \in Runs, LaunchBare(r) PROVE PipelineInv'
<1>1. run[r].ops = <<"bare", "logEnd">> /\ run[r].ops \in FallbackOps /\ run[r].ops \in LaunchOps
  <2>1. run[r].ops = <<"bare", "logEnd">>
    BY Running, ShapeHeads DEF LaunchBare, At
  <2> QED BY <2>1 DEF LaunchOps, FallbackOps
<1>2. /\ run[r] \in RunRecords /\ RunOK(r, run[r], log)
      /\ run[r].ran \in Seq({"confined", "bare", "host"})
  BY Running DEF RunRecords
<1>3. /\ Degraded /\ run[r].cmd.form = "plain"
      /\ LabelledIn(log, r, "unavailable") /\ LabelledIn(log, r, "degraded")
      /\ "host" \in Range(run[r].ran) => run[r].cmd.form = "gateway"
  BY <1>1, <1>2 DEF RunOK, LaunchOK
<1> DEFINE ran == Append(run[r].ran, "bare")
           me == [run[r] EXCEPT !.ran = ran, !.ops = <<"logEnd">>]
<1>4. ran \in Seq({"confined", "bare", "host"}) /\ Range(ran) = Range(run[r].ran) \cup {"bare"}
  BY <1>2, RangeAppend
<1>5. /\ <<"logEnd">> \in LaunchOps /\ <<"logEnd">> \notin FallbackOps
      /\ <<"logEnd">> \notin {<<"logDegraded", "bare", "logEnd">>, <<"bare", "logEnd">>}
  BY DEF LaunchOps, FallbackOps
<1>6. me \in RunRecords /\ RunOK(r, me, log)
  <2> HIDE DEF ran
  <2> QED BY <1>1, <1>3, <1>4, <1>5, LaunchGoesOn
<1>7. /\ run' = [run EXCEPT ![r] = me]
      /\ policy' = policy /\ queue' = queue /\ log' = log /\ gone' = gone
  BY <1>1, ShapeTails DEF LaunchBare, Launched
<1> HIDE DEF me
<1> QED BY <1>6, <1>7, OneRunSteps, ReceiptsStay DEF PipelineInv, PipelineType

LEMMA LogLaunchKeeps == ASSUME PipelineInv, NEW r \in Runs, LogLaunch(r) PROVE PipelineInv'
<1> DEFINE o == run[r].ops
           me == [run[r] EXCEPT !.ops = Tail(o)]
<1>1. run' = [run EXCEPT ![r] = me] /\ policy' = policy /\ queue' = queue /\ gone' = gone
  BY DEF LogLaunch, Step
<1>2. PICK label \in {"unavailable", "degraded", "end"}, verdict \in {"Deny", "Allow"} :
        /\ log' = log \cup {Receipt(r, label, verdict)}
        /\ \/ label = "unavailable" /\ At(r, "logUnavailable")
           \/ label = "degraded" /\ At(r, "logDegraded")
           \/ label = "end" /\ At(r, "logEnd")
  <2>1. CASE At(r, "logUnavailable") /\ log' = log \cup {Receipt(r, "unavailable", "Deny")}
    BY <2>1
  <2>2. CASE At(r, "logDegraded") /\ log' = log \cup {Receipt(r, "degraded", "Allow")}
    BY <2>2
  <2>3. CASE At(r, "logEnd") /\ log' = log \cup {Receipt(r, "end", "Allow")}
    BY <2>3
  <2> QED BY <2>1, <2>2, <2>3 DEF LogLaunch
<1>3. log \subseteq log' /\ LabelledIn(log', r, label)
  <2>1. Receipt(r, label, verdict).run = r /\ Receipt(r, label, verdict).label = label
    BY DEF Receipt
  <2> QED BY <1>2, <2>1 DEF LabelledIn
<1>4. \/ o = <<"logUnavailable">> /\ Tail(o) = <<>>
      \/ /\ o = <<"logUnavailable", "logDegraded", "bare", "logEnd">>
         /\ label = "unavailable" /\ Tail(o) = <<"logDegraded", "bare", "logEnd">>
      \/ /\ o = <<"logDegraded", "bare", "logEnd">>
         /\ label = "degraded" /\ Tail(o) = <<"bare", "logEnd">>
      \/ o = <<"logEnd">> /\ Tail(o) = <<>>
  <2>1. o # <<>> /\ o \in Shapes
    BY <1>2, Running DEF At
  <2>2. CASE label = "unavailable" /\ Head(o) = "logUnavailable"
    BY <2>1, <2>2, ShapeHeads, ShapeTails
  <2>3. CASE label = "degraded" /\ Head(o) = "logDegraded"
    BY <2>1, <2>3, ShapeHeads, ShapeTails
  <2>4. CASE label = "end" /\ Head(o) = "logEnd"
    BY <2>1, <2>4, ShapeHeads, ShapeTails
  <2> QED BY <1>2, <2>2, <2>3, <2>4 DEF At
<1>5. /\ o \in LaunchOps /\ Tail(o) \in {<<>>} \cup LaunchOps
      /\ Tail(o) \in FallbackOps => o \in FallbackOps
  <2>1. <<>> \notin FallbackOps
    BY DEF FallbackOps
  <2>2. {<<"logUnavailable">>, <<"logEnd">>} \cup FallbackOps \subseteq LaunchOps
    BY DEF LaunchOps
  <2>3. {<<"logUnavailable", "logDegraded", "bare", "logEnd">>,
         <<"logDegraded", "bare", "logEnd">>, <<"bare", "logEnd">>} = FallbackOps
    BY DEF FallbackOps
  <2> HIDE DEF o
  <2> QED BY <1>4, <2>1, <2>2, <2>3
<1>6. RunOK(r, run[r], log') /\ run[r] \in RunRecords
      /\ run[r].ran \in Seq({"confined", "bare", "host"})
  BY <1>3, Running, LogGrows DEF RunRecords
<1>7. /\ Tail(o) \in FallbackOps => Degraded /\ run[r].cmd.form = "plain"
      /\ "host" \in Range(run[r].ran) => run[r].cmd.form = "gateway"
      /\ "bare" \in Range(run[r].ran) =>
            /\ Degraded /\ run[r].cmd.form = "plain"
            /\ LabelledIn(log', r, "unavailable") /\ LabelledIn(log', r, "degraded")
  BY <1>5, <1>6 DEF RunOK, LaunchOK
<1>8. /\ Tail(o) = <<"logDegraded", "bare", "logEnd">> => LabelledIn(log', r, "unavailable")
      /\ Tail(o) = <<"bare", "logEnd">> =>
            LabelledIn(log', r, "unavailable") /\ LabelledIn(log', r, "degraded")
  <2>1. /\ <<>> # <<"bare", "logEnd">> /\ <<>> # <<"logDegraded", "bare", "logEnd">>
        /\ <<"bare", "logEnd">> # <<"logDegraded", "bare", "logEnd">>
    OBVIOUS
  <2>2. o = <<"logDegraded", "bare", "logEnd">> => LabelledIn(log', r, "unavailable")
    BY <1>6 DEF RunOK, LaunchOK
  <2> HIDE DEF o
  <2> QED BY <1>3, <1>4, <2>1, <2>2
<1>9. me \in RunRecords /\ RunOK(r, me, log')
  <2> DEFINE same == [run[r] EXCEPT !.ran = run[r].ran, !.ops = Tail(o)]
  <2>1. same = me
    BY <1>6 DEF RunRecords
  <2>2. same \in RunRecords /\ RunOK(r, same, log')
    <3>1. Tail(o) \in {<<"logDegraded", "bare", "logEnd">>, <<"bare", "logEnd">>} =>
            LabelledIn(log', r, "unavailable")
      BY <1>8
    <3> QED BY <1>3, <1>5, <1>6, <1>7, <1>8, <3>1, LaunchGoesOn
  <2> QED BY <2>1, <2>2
<1> HIDE DEF me
<1> QED BY <1>1, <1>3, <1>9, OneRunSteps, ReceiptsStay DEF PipelineInv, PipelineType

-----------------------------------------------------------------------------
(* The operator, and time *)

LEMMA SetPolicyKeeps ==
    ASSUME PipelineInv, NEW p \in SomePolicies, SetPolicy(p) PROVE PipelineInv'
<1>1. policy' \in SomePolicies
  BY PipelineAssumption DEF SetPolicy
<1> QED BY <1>1 DEF SetPolicy, PipelineInv, PipelineType, QueuedIsReceipted

LEMMA LapseKeeps ==
    ASSUME PipelineInv, NEW q \in Requests, Lapse(q) PROVE PipelineInv'
<1>1. /\ queue' = [queue EXCEPT ![q] = NotAsked]
      /\ policy' = policy /\ log' = log /\ gone' = gone /\ run' = run
  BY DEF Lapse
<1>2. PipelineType'
  BY <1>1 DEF PipelineInv, PipelineType, NotAsked
<1>3. QueuedIsReceipted'
  <2>1. \A p \in Requests : queue'[p] # NotAsked => queue'[p] = queue[p]
    BY <1>1 DEF PipelineInv, PipelineType
  <2> QED BY <1>1, <2>1 DEF PipelineInv, QueuedIsReceipted
<1> QED BY <1>1, <1>2, <1>3 DEF PipelineInv

\* What is approved was asked for, and a run that sees it is otherwise the same.
LEMMA ApproveKeeps ==
    ASSUME PipelineInv, NEW q \in Requests, Approve(q) PROVE PipelineInv'
<1> DEFINE seen(r) == [run[r] EXCEPT !.approved = @ \cup {q}]
<1>1. /\ queue' = [queue EXCEPT ![q].status = "approved"] /\ queue[q].status = "pending"
      /\ policy' = policy /\ log' = log /\ gone' = gone
      /\ run' = [r \in Runs |-> IF At(r, "begin") THEN run[r] ELSE seen(r)]
  BY DEF Approve
<1>2. ASSUME NEW r \in Runs
      PROVE  /\ seen(r) \in RunRecords /\ seen(r).ops = run[r].ops
             /\ seen(r).cmd = run[r].cmd /\ seen(r).policy = run[r].policy
             /\ seen(r).left = run[r].left /\ seen(r).cache = run[r].cache
             /\ seen(r).decision = run[r].decision /\ seen(r).ran = run[r].ran
             /\ seen(r).answer = run[r].answer
  BY Running DEF RunRecords
<1>3. ASSUME NEW r \in Runs PROVE RunOK(r, seen(r), log)
  <2>1. RunOK(r, run[r], log)
    BY Running
  <2>2. JudgingOK(seen(r), log)
    <3> HIDE DEF seen
    <3> QED BY <1>2, <2>1 DEF RunOK, JudgingOK
  <2>3. LaunchOK(r, seen(r), log)
    <3> HIDE DEF seen
    <3> QED BY <1>2, <2>1 DEF RunOK, LaunchOK
  <2>4. ToolOK(seen(r))
    <3> HIDE DEF seen
    <3> QED BY <1>2, <2>1 DEF RunOK, ToolOK, ForcedOK
  <2> QED BY <2>2, <2>3, <2>4 DEF RunOK
<1> HIDE DEF seen
<1>4. \A r \in Runs : run'[r] \in RunRecords /\ RunOK(r, run'[r], log')
  BY <1>1, <1>2, <1>3, Running
<1>5. PipelineType'
  BY <1>1, <1>4 DEF PipelineInv, PipelineType
<1>6. QueuedIsReceipted'
  <2>1. \A p \in Requests : queue'[p] # NotAsked => queue[p] # NotAsked
    BY <1>1 DEF PipelineInv, PipelineType, NotAsked
  <2> QED BY <1>1, <2>1 DEF PipelineInv, QueuedIsReceipted
<1> QED BY <1>4, <1>5, <1>6 DEF PipelineInv

-----------------------------------------------------------------------------
(* The theorems *)

LEMMA PipelineNext == PipelineInv /\ [Next]_vars => PipelineInv'
<1> SUFFICES ASSUME PipelineInv, [Next]_vars PROVE PipelineInv'
  OBVIOUS
<1>1. ASSUME NEW r \in Runs, RunStep(r) PROVE PipelineInv'
  <2>1. ASSUME NEW cmd \in Commands, Begin(r, cmd) PROVE PipelineInv'
    BY <2>1, BeginKeeps
  <2>2. CASE Judge(r)
    BY <2>2, JudgeKeeps
  <2>3. CASE Log(r)
    BY <2>3, LogKeeps
  <2>4. CASE Queue(r)
    BY <2>4, QueueKeeps
  <2>5. CASE Move(r)
    BY <2>5, MoveKeeps
  <2>6. CASE NextAction(r)
    BY <2>6, NextActionKeeps
  <2>7. CASE Answer(r)
    BY <2>7, AnswerKeeps
  <2>8. CASE LaunchGateway(r) \/ NoConfinement(r) \/ LaunchConfined(r)
    BY <2>8, LaunchKeeps
  <2>9. CASE LaunchBare(r)
    BY <2>9, LaunchBareKeeps
  <2>10. CASE LogLaunch(r)
    BY <2>10, LogLaunchKeeps
  <2>11. CASE Stop(r)
    BY <2>11, StopKeeps
  <2> QED BY <1>1, <2>1, <2>2, <2>3, <2>4, <2>5, <2>6, <2>7, <2>8, <2>9, <2>10, <2>11
             DEF RunStep
<1>2. ASSUME NEW p \in SomePolicies, SetPolicy(p) PROVE PipelineInv'
  BY <1>2, SetPolicyKeeps
<1>3. ASSUME NEW q \in Requests, Approve(q) PROVE PipelineInv'
  BY <1>3, ApproveKeeps
<1>4. ASSUME NEW q \in Requests, Lapse(q) PROVE PipelineInv'
  BY <1>4, LapseKeeps
<1>5. CASE UNCHANGED vars
  BY <1>5 DEF vars, PipelineInv, PipelineType, QueuedIsReceipted
<1> QED BY <1>1, <1>2, <1>3, <1>4, <1>5 DEF Next

LEMMA PipelineAlways == Spec => []PipelineInv
<1> QED BY PipelineInit, PipelineNext, PTL DEF Spec

\* The state keeps its type; in particular a run never has a duty of which
\* there is no code, and only what has a path is moved (run_confined).
THEOREM PipelineTypes == Spec => []TypeOK
<1>1. PipelineInv => TypeOK
  <2> SUFFICES ASSUME PipelineInv PROVE TypeOK
    OBVIOUS
  <2>1. ASSUME NEW r \in Runs
        PROVE  /\ Range(run[r].ops) \subseteq Ops
               /\ run[r].cache \in [Paths -> Zones \cup {Unknown}]
               /\ run[r].approved \subseteq Requests
               /\ Range(run[r].ran) \subseteq {"confined", "bare", "host"}
    <3>1. run[r] \in RunRecords
      BY Running
    <3>2. run[r].ops \in Shapes /\ run[r].ran \in Seq({"confined", "bare", "host"})
      BY <3>1 DEF RunRecords
    <3>3. run[r].ops \in Seq(Ops)
      <4>1. {<<>>, <<"begin">>, <<"judge">>} \subseteq Seq(Ops)
        BY DEF Ops
      <4>2. JudgedOps \subseteq Seq(Ops)
        BY DEF Ops, JudgedOps, AskOps, MoveOps
      <4>3. LaunchOps \subseteq Seq(Ops)
        BY DEF Ops, LaunchOps, FallbackOps
      <4> QED BY <3>2, <4>1, <4>2, <4>3 DEF Shapes
    <3>4. \A S : \A s \in Seq(S) : Range(s) \subseteq S
      BY LenProperties DEF Range
    <3>5. Range(run[r].ops) \subseteq Ops
      BY <3>3, <3>4
    <3>6. Range(run[r].ran) \subseteq {"confined", "bare", "host"}
      BY <3>2, <3>4
    <3> QED BY <3>1, <3>5, <3>6 DEF RunRecords, Caches
  <2> QED BY <2>1 DEF PipelineInv, PipelineType, TypeOK
<1> QED BY <1>1, PipelineAlways, PTL

\* Only the managed gateway runs on the host, and anything else without
\* confinement only if so configured, if it is no strict runner, and after two
\* receipts that say so (runner/mod.rs:671-683, 737-785).
THEOREM UnconfinedAlwaysDeclared == Spec => []UnconfinedIsDeclared
<1>1. PipelineInv => UnconfinedIsDeclared
  <2> SUFFICES ASSUME PipelineInv, NEW r \in Runs
               PROVE  /\ "host" \in Range(run[r].ran) => run[r].cmd.form = "gateway"
                      /\ "bare" \in Range(run[r].ran) =>
                            /\ Degraded /\ run[r].cmd.form = "plain"
                            /\ {"unavailable", "degraded"} \subseteq
                                  {e.label : e \in {f \in log : f.run = r}}
    BY DEF UnconfinedIsDeclared
  <2>1. LaunchOK(r, run[r], log)
    BY Running DEF RunOK
  <2>2. \A label : LabelledIn(log, r, label) =>
          label \in {e.label : e \in {f \in log : f.run = r}}
    BY DEF LabelledIn
  <2> QED BY <2>1, <2>2 DEF LaunchOK
<1> QED BY <1>1, PipelineAlways, PTL

\* What an operator may be asked to approve is in the log as having been asked
\* for, wherever runs stop, but for the command itself
\* (runner_tool_preflight_common.rs:6, runner/mod.rs:152-169).
THEOREM QueuedAlwaysReceipted == Spec => []QueuedIsReceipted
<1>1. PipelineInv => QueuedIsReceipted
  BY DEF PipelineInv
<1> QED BY <1>1, PipelineAlways, PTL

\* Tool calls on operator internals and on the delivery directory are denied
\* whatever policy and approvals say, and reading is never held up
\* (runner_tool_preflight_common.rs:106-166).
THEOREM ForcedAlwaysDenied == Spec => []ForcedStaysDenied
<1>1. PipelineInv => ForcedStaysDenied
  <2> SUFFICES ASSUME PipelineInv, NEW r \in Runs, run[r].answer # "none",
                      run[r].cmd.form = "tool"
               PROVE  LET req == Current(r)
                      IN  /\ run[r].answer = "Allow" =>
                                /\ ~Has(req, "internal")
                                /\ ~(req.kind \in FileKinds /\ Is(req.path, "delivery"))
                                /\ OnItsOwn(r, req) \in {"Allow", "RequireApproval"}
                          /\ Has(req, "read") => run[r].answer # "RequireApproval"
    BY DEF ForcedStaysDenied
  <2>1. RunOK(r, run[r], log)
    BY Running
  <2>2. run[r].ops # <<"begin">>
    BY <2>1 DEF RunOK, JudgingOK
  <2>3. ForcedOK(run[r]) /\ run[r].answer = run[r].decision.verdict
    BY <2>1, <2>2 DEF RunOK, ToolOK
  <2> QED BY <2>3 DEF ForcedOK, OnItsOwn, Current
<1> QED BY <1>1, PipelineAlways, PTL

-----------------------------------------------------------------------------
(***************************************************************************)
(* What runs was cleared.  A command is judged from its first action to    *)
(* its last; what is behind it was allowed and logged as allowed, and what *)
(* the cache has it has from there.                                        *)
(***************************************************************************)

\* A policy is nowhere milder with system-critical paths than with shared ones.
Firm(p) ==
    /\ p.zone["SystemCritical"] = "allow" => p.zone["Shared"] = "allow"
    /\ p.zone["SystemCritical"] = "approval" => p.zone["Shared"] # "deny"

FirmPolicies == \A p \in SomePolicies : Firm(p)

\* Every policy the Control Panel sets is; what is assumed is about those
\* written by hand.
LEMMA GuardedFirm == \A p \in Policies : Firm(Guarded(p))
  BY DEF Firm, Guarded, Policies, Zones, Dispositions

\* How many actions are behind, and that those left are the rest.
Behind(me) == Len(Actions(me.cmd)) - Len(me.left)

OnCourse(me) ==
    /\ Behind(me) \in Nat
    /\ \A i \in 1 .. Len(me.left) : me.left[i] = Actions(me.cmd)[Behind(me) + i]

\* Zones in the cache were given to actions judged so far.
Cached(me, n) ==
    \A p \in Paths : me.cache[p] # Unknown =>
        \E i \in 1 .. n :
            LET req == Actions(me.cmd)[i]
            IN  /\ ~Unevaluated(req) /\ Classifies(req) /\ Target(req) = p
                /\ me.cache[p] = Classify(p, req.kind)

\* What the policy allows by itself, or was approved.
Granted(me, req) ==
    LET verdict == Evaluate(me.policy, EmptyCache, req).verdict
    IN  verdict = "Allow" \/ (verdict = "RequireApproval" /\ req \in me.approved)

Cleared(r, me, entries, req) ==
    /\ [run |-> r, label |-> "decision", req |-> req, verdict |-> "Allow"] \in entries
    /\ Granted(me, req)

Allowing == {<<"log", "next">>, <<"next">>}

ClearOK(r, me, entries) ==
    me.ops # <<"begin">> /\ me.cmd.form # "tool" =>
        /\ OnCourse(me)
        /\ \A i \in 1 .. Behind(me) : Cleared(r, me, entries, Actions(me.cmd)[i])
        /\ me.ops = <<"judge">> => Cached(me, Behind(me))
        /\ me.ops \in Allowing =>
              /\ Cached(me, Behind(me) + 1)
              /\ me.decision.verdict = "Allow" /\ Granted(me, Head(me.left))
        /\ me.ops = <<"next">> => Cleared(r, me, entries, Head(me.left))
        /\ me.ops \in LaunchOps \/ me.ran # <<>> =>
              \A i \in DOMAIN Actions(me.cmd) : Cleared(r, me, entries, Actions(me.cmd)[i])

\* A run that has begun has seen every approval that runs.
HasSeen(me, granted) == me.ops # <<"begin">> => granted \subseteq me.approved

ClearInv == \A r \in Runs : ClearOK(r, run[r], log) /\ HasSeen(run[r], Approved)

-----------------------------------------------------------------------------
(* Judging with a cache is no milder than judging alone *)

\* What is judged after an action that only runs something is nothing that
\* would change a file or persist.
Early == {"elevation", "utility", "persistence"}

Ordered(s) == \A i, j \in DOMAIN s : i < j /\ s[j].stage \in Early => s[i].stage \in Early

Staged(S) == {req \in Requests : req.stage \in S}

LEMMA EarlyOrdered == ASSUME NEW s \in Seq(Staged(Early)) PROVE Ordered(s)
  BY DEF Ordered, Staged

LEMMA OrderedConcat ==
    ASSUME NEW s \in Seq(Requests), NEW t \in Seq(Staged(Stages \ Early)), Ordered(s)
    PROVE  s \o t \in Seq(Requests) /\ Ordered(s \o t)
<1>1. t \in Seq(Requests)
  BY DEF Staged
<1>2. /\ s \o t \in Seq(Requests) /\ Len(s \o t) = Len(s) + Len(t)
      /\ \A i \in 1 .. Len(s) : (s \o t)[i] = s[i]
      /\ \A i \in 1 .. Len(t) : (s \o t)[Len(s) + i] = t[i]
  BY <1>1, ConcatProperties
<1>3. /\ Len(s) \in Nat /\ Len(t) \in Nat /\ DOMAIN s = 1 .. Len(s)
      /\ DOMAIN (s \o t) = 1 .. Len(s) + Len(t)
  BY <1>1, <1>2, LenProperties
<1>4. ASSUME NEW j \in DOMAIN (s \o t), (s \o t)[j].stage \in Early
      PROVE  j \in DOMAIN s
  <2> SUFFICES ASSUME j \notin DOMAIN s PROVE FALSE
    OBVIOUS
  <2>1. PICK i \in 1 .. Len(t) : j = Len(s) + i
    <3>1. j - Len(s) \in 1 .. Len(t) /\ j = Len(s) + (j - Len(s))
      BY <1>3
    <3> QED BY <3>1
  <2>2. t[i] \in Staged(Stages \ Early)
    BY <1>3, ElementOfSeq
  <2> QED BY <1>2, <1>4, <2>1, <2>2 DEF Staged
<1> QED
  <2> SUFFICES ASSUME NEW i \in DOMAIN (s \o t), NEW j \in DOMAIN (s \o t), i < j,
                      (s \o t)[j].stage \in Early
               PROVE  (s \o t)[i].stage \in Early
    BY <1>2 DEF Ordered
  <2>1. j \in DOMAIN s /\ i \in DOMAIN s
    <3>1. j \in DOMAIN s
      BY <1>4
    <3> QED BY <1>3, <3>1
  <2>2. (s \o t)[i] = s[i] /\ (s \o t)[j] = s[j]
    BY <1>2, <1>3, <2>1
  <2> QED BY <2>1, <2>2 DEF Ordered

LEMMA SeqOfMore == ASSUME NEW S, NEW T, S \subseteq T, NEW s \in Seq(S) PROVE s \in Seq(T)
  OBVIOUS

LEMMA ActionsOrdered ==
    ASSUME NEW cmd \in Commands, cmd.form # "tool"
    PROVE  /\ Ordered(Actions(cmd))
           /\ \A i \in DOMAIN Actions(cmd) : Actions(cmd)[i].stage # "tool"
<1> DEFINE Of(stage) == {req \in Requests : req.stage = stage}
           S(ss) == Staged(ss)
<1>1. /\ cmd.elevation \in Seq(Of("elevation")) /\ cmd.utility \in Seq(Of("utility"))
      /\ cmd.persistence \in Seq(Of("persistence"))
      /\ cmd.interpreter \in Seq(Of("interpreter")) /\ cmd.network \in Seq(Of("network"))
      /\ cmd.exec \in Seq(Of("exec"))
  BY PipelineAssumption DEF Stages
<1>2. /\ Of("elevation") \subseteq S(Early) /\ Of("utility") \subseteq S(Early)
      /\ Of("persistence") \subseteq S(Early)
      /\ Of("interpreter") \subseteq S(Stages \ Early) /\ Of("network") \subseteq S(Stages \ Early)
      /\ Of("exec") \subseteq S(Stages \ Early)
      /\ \A stage \in Stages \ {"tool"} : Of(stage) \subseteq S(Stages \ {"tool"})
      /\ \A ss : S(ss) \subseteq Requests
  BY DEF Staged, Early, Stages
<1> HIDE DEF Of, S
<1>3. /\ cmd.elevation \in Seq(S(Early)) /\ cmd.utility \in Seq(S(Early))
      /\ cmd.persistence \in Seq(S(Early))
      /\ cmd.interpreter \in Seq(S(Stages \ Early)) /\ cmd.network \in Seq(S(Stages \ Early))
      /\ cmd.exec \in Seq(S(Stages \ Early))
  <2> DEFINE E == S(Early)
             L == S(Stages \ Early)
  <2> HIDE DEF E, L
  <2>1. /\ Of("elevation") \subseteq E /\ Of("utility") \subseteq E /\ Of("persistence") \subseteq E
        /\ Of("interpreter") \subseteq L /\ Of("network") \subseteq L /\ Of("exec") \subseteq L
    BY <1>2 DEF E, L
  <2>2. /\ cmd.elevation \in Seq(E) /\ cmd.utility \in Seq(E) /\ cmd.persistence \in Seq(E)
    BY <1>1, <2>1, SeqOfMore
  <2>3. /\ cmd.interpreter \in Seq(L) /\ cmd.network \in Seq(L) /\ cmd.exec \in Seq(L)
    BY <1>1, <2>1, SeqOfMore
  <2> QED BY <2>2, <2>3 DEF E, L
<1>4. /\ cmd.elevation \in Seq(S(Stages \ {"tool"})) /\ cmd.utility \in Seq(S(Stages \ {"tool"}))
      /\ cmd.persistence \in Seq(S(Stages \ {"tool"}))
      /\ cmd.interpreter \in Seq(S(Stages \ {"tool"})) /\ cmd.network \in Seq(S(Stages \ {"tool"}))
      /\ cmd.exec \in Seq(S(Stages \ {"tool"}))
  <2>1. /\ Of("elevation") \subseteq S(Stages \ {"tool"})
        /\ Of("utility") \subseteq S(Stages \ {"tool"})
        /\ Of("persistence") \subseteq S(Stages \ {"tool"})
        /\ Of("interpreter") \subseteq S(Stages \ {"tool"})
        /\ Of("network") \subseteq S(Stages \ {"tool"})
        /\ Of("exec") \subseteq S(Stages \ {"tool"})
    BY <1>2 DEF Stages
  <2> DEFINE T == S(Stages \ {"tool"})
  <2> HIDE DEF T
  <2>2. /\ Of("elevation") \subseteq T /\ Of("utility") \subseteq T /\ Of("persistence") \subseteq T
        /\ Of("interpreter") \subseteq T /\ Of("network") \subseteq T /\ Of("exec") \subseteq T
    BY <2>1 DEF T
  <2>3. /\ cmd.elevation \in Seq(T) /\ cmd.utility \in Seq(T) /\ cmd.persistence \in Seq(T)
    BY <1>1, <2>2, SeqOfMore
  <2>4. /\ cmd.interpreter \in Seq(T) /\ cmd.network \in Seq(T) /\ cmd.exec \in Seq(T)
    BY <1>1, <2>2, SeqOfMore
  <2> QED BY <2>3, <2>4 DEF T
<1> DEFINE a == cmd.elevation \o cmd.utility \o cmd.persistence
<1>5. a \in Seq(S(Early))
  <2>1. cmd.elevation \o cmd.utility \in Seq(S(Early))
    BY <1>3, ConcatProperties
  <2> QED BY <1>3, <2>1, ConcatProperties
<1>6. Ordered(a) /\ a \in Seq(Requests)
  <2> HIDE DEF a
  <2>1. a \in Seq(Requests)
    BY <1>2, <1>5
  <2> QED BY <1>5, <2>1, EarlyOrdered DEF S
<1>7. Ordered(Actions(cmd))
  <2> HIDE DEF a
  <2> DEFINE b == a \o cmd.interpreter
             c == b \o cmd.network
             d == c \o cmd.exec
  <2>1. b \in Seq(Requests) /\ Ordered(b)
    BY <1>3, <1>6, OrderedConcat DEF S
  <2> HIDE DEF b
  <2>2. c \in Seq(Requests) /\ Ordered(c)
    BY <1>3, <2>1, OrderedConcat DEF S
  <2> HIDE DEF c
  <2>3. Ordered(d)
    BY <1>3, <2>2, OrderedConcat DEF S
  <2> QED BY <2>3 DEF a, b, c, Actions
<1>8. Actions(cmd) \in Seq(S(Stages \ {"tool"}))
  <2> DEFINE T == S(Stages \ {"tool"})
  <2> HIDE DEF T
  <2>1. \A s, t \in Seq(T) : s \o t \in Seq(T)
    BY ConcatProperties
  <2> QED BY <1>4, <2>1 DEF Actions, T
<1> QED BY <1>7, <1>8, ElementOfSeq DEF S, Staged

\* A path has one zone for all kinds, or one for running and one for changing it.
LEMMA TwoZones ==
    ASSUME NEW p, NEW j, NEW k, Classify(p, j) # Classify(p, k)
    PROVE  \/ /\ j \in FileKinds \cup {"Persistence"} /\ Classify(p, j) = "SystemCritical"
              /\ k \notin FileKinds \cup {"Persistence"} /\ Classify(p, k) = "Shared"
           \/ /\ k \in FileKinds \cup {"Persistence"} /\ Classify(p, k) = "SystemCritical"
              /\ j \notin FileKinds \cup {"Persistence"} /\ Classify(p, j) = "Shared"
  BY DEF Classify

LEMMA FirmExecution ==
    ASSUME NEW pol \in Policies, Firm(pol), NEW req
    PROVE  LET cached == EvaluateExecution(pol, req, "SystemCritical").verdict
               alone == EvaluateExecution(pol, req, "Shared").verdict
           IN  /\ cached = "Allow" => alone = "Allow"
               /\ cached = "RequireApproval" => alone \in {"Allow", "RequireApproval"}
<1>1. /\ pol.zone["SystemCritical"] \in Dispositions /\ pol.zone["Shared"] \in Dispositions
  BY DEF Policies, Zones
<1> DEFINE at(z) == ByZone(pol, z, "ApprovalRequiredZone2", DenyReason(z)).verdict
<1>2. \A z \in {"SystemCritical", "Shared"} :
        at(z) = CASE pol.zone[z] = "allow" -> "Allow"
                  [] pol.zone[z] = "approval" -> "RequireApproval"
                  [] pol.zone[z] = "deny" -> "Deny"
  BY <1>1 DEF ByZone, Dispositions, Allow, Ask, Deny
<1>3. /\ at("SystemCritical") = "Allow" => at("Shared") = "Allow"
      /\ at("SystemCritical") = "RequireApproval" => at("Shared") \in {"Allow", "RequireApproval"}
  BY <1>1, <1>2 DEF Firm, Dispositions
<1> QED BY <1>3 DEF EvaluateExecution

\* What is evaluated with a zone some earlier action left in the cache.
Left(c, req, q) ==
    /\ q \in Requests /\ q.stage # "tool" /\ ~Unevaluated(q)
    /\ Target(q) = Target(req) /\ c[Target(req)] = Classify(Target(req), q.kind)
    /\ req.stage \in Early => q.stage \in Early

LEMMA StageKinds ==
    ASSUME NEW req \in Requests, req.stage # "tool", ~Unevaluated(req)
    PROVE  /\ req.kind \in FileKinds \cup {"Persistence"} <=> req.stage \in Early
           /\ req.kind \in FileKinds \cup {"Persistence", "NetworkEgress", "Execute"}
<1>1. req.stage \in Stages /\ req.stage # "elevation" /\ req.kind \in KindsOf(req.stage)
  BY PipelineAssumption DEF Unevaluated
<1>2. CASE req.stage = "utility"
  BY <1>1, <1>2 DEF KindsOf, FileKinds, Early
<1>3. CASE req.stage = "persistence"
  BY <1>1, <1>3 DEF KindsOf, FileKinds, Early
<1>4. CASE req.stage = "network"
  BY <1>1, <1>4 DEF KindsOf, FileKinds, Early
<1>5. CASE req.stage \in {"interpreter", "exec"}
  BY <1>1, <1>5 DEF KindsOf, FileKinds, Early
<1> QED BY <1>1, <1>2, <1>3, <1>4, <1>5 DEF Stages

LEMMA CacheNoMilder ==
    ASSUME NEW pol \in Policies, Firm(pol), NEW c \in Caches,
           NEW req \in Requests, req.stage # "tool", ~Unevaluated(req),
           Classifies(req) /\ c[Target(req)] # Unknown => \E q \in Requests : Left(c, req, q)
    PROVE  LET cached == Evaluate(pol, c, req).verdict
               alone == Evaluate(pol, EmptyCache, req).verdict
           IN  /\ cached = "Allow" => alone = "Allow"
               /\ cached = "RequireApproval" => alone \in {"Allow", "RequireApproval"}
<1>1. CASE ~Classifies(req)
  BY <1>1 DEF Evaluate, ZoneFor
<1>2. CASE Classifies(req)
  <2> DEFINE p == Target(req)
             alone == Classify(p, req.kind)
  <2>1. p \in Paths
    BY <1>2, RequestTypes DEF Classifies, Target
  <2>2. ZoneFor(EmptyCache, req) = alone
    BY <1>2, <2>1 DEF ZoneFor, ZoneOf, EmptyCache
  <2>3. CASE ZoneFor(c, req) = alone
    BY <2>2, <2>3 DEF Evaluate
  <2>4. CASE ZoneFor(c, req) # alone
    <3>1. c[p] # Unknown /\ ZoneFor(c, req) = c[p]
      BY <1>2, <2>4 DEF ZoneFor, ZoneOf
    <3>2. PICK q \in Requests : Left(c, req, q)
      BY <1>2, <3>1
    <3>3. ZoneFor(c, req) = Classify(p, q.kind)
      BY <3>1, <3>2 DEF Left
    <3>4. /\ req.kind \in FileKinds \cup {"Persistence"} => q.kind \in FileKinds \cup {"Persistence"}
      <4>1. q.stage # "tool" /\ ~Unevaluated(q) /\ (req.stage \in Early => q.stage \in Early)
        BY <3>2 DEF Left
      <4> QED BY <4>1, StageKinds
    <3>5. /\ ZoneFor(c, req) = "SystemCritical" /\ alone = "Shared"
          /\ req.kind \notin FileKinds \cup {"Persistence"}
      BY <2>4, <3>3, <3>4, TwoZones
    <3>6. req.kind = "Execute" /\ p # NoPath
      BY <1>2, <3>5, StageKinds DEF Classifies
    <3>7. /\ Evaluate(pol, c, req) = EvaluateExecution(pol, req, "SystemCritical")
          /\ Evaluate(pol, EmptyCache, req) = EvaluateExecution(pol, req, "Shared")
      BY <2>2, <3>5, <3>6 DEF Evaluate, Decide, FileKinds
    <3> QED BY <3>7, FirmExecution
  <2> QED BY <2>3, <2>4
<1> QED BY <1>1, <1>2

\* Where a run is in its command.
LEMMA Whereabouts ==
    ASSUME NEW me, me.cmd \in Commands, me.left \in Seq(Requests), me.left # <<>>, OnCourse(me)
    PROVE  /\ Actions(me.cmd) \in Seq(Requests) /\ Len(Actions(me.cmd)) \in Nat
           /\ DOMAIN Actions(me.cmd) = 1 .. Len(Actions(me.cmd))
           /\ Len(me.left) \in Nat \ {0}
           /\ Behind(me) \in Nat /\ Len(Actions(me.cmd)) = Behind(me) + Len(me.left)
           /\ Behind(me) + 1 \in DOMAIN Actions(me.cmd)
           /\ Head(me.left) = Actions(me.cmd)[Behind(me) + 1]
<1> DEFINE acts == Actions(me.cmd)
           b == Behind(me)
           l == Len(me.left)
           n == Len(acts)
<1>1. l \in Nat \ {0} /\ Head(me.left) = me.left[1]
  BY EmptySeq, LenProperties
<1>2. acts \in Seq(Requests) /\ n \in Nat /\ DOMAIN acts = 1 .. n
  BY PipelineAssumption, LenProperties
<1>3. b \in Nat /\ b = n - l
  BY DEF OnCourse, Behind
<1>4. me.left[1] = acts[b + 1]
  <2>1. 1 \in 1 .. l
    BY <1>1
  <2> QED BY <2>1 DEF OnCourse
<1>5. n = b + l /\ b + 1 \in 1 .. n
  <2> HIDE DEF b, l, n
  <2> QED BY <1>1, <1>2, <1>3
<1> QED BY <1>1, <1>2, <1>3, <1>4, <1>5

\* What a run that judges allows is allowed by itself, or approved.
LEMMA JudgedAlone ==
    ASSUME FirmPolicies, PipelineInv, NEW r \in Runs, run[r].ops = <<"judge">>,
           run[r].cmd.form # "tool", ClearOK(r, run[r], log), HasSeen(run[r], Approved),
           Judgement(r, Current(r)).verdict = "Allow"
    PROVE  Granted(run[r], Current(r)) /\ ~Unevaluated(Current(r))
<1> DEFINE me == run[r]
           acts == Actions(me.cmd)
           n == Behind(me) + 1
           e == Evaluate(me.policy, me.cache, acts[n])
<1>1. /\ me.cmd \in Commands /\ me.left # <<>> /\ me.left \in Seq(Requests)
      /\ me.policy \in SomePolicies /\ me.policy \in Policies /\ me.cache \in Caches
      /\ Current(r) \in Requests
  BY Running
<1>2. OnCourse(me) /\ Cached(me, Behind(me))
  BY DEF ClearOK
<1>3. /\ Behind(me) \in Nat /\ Len(me.left) \in Nat \ {0} /\ Current(r) = acts[n]
      /\ n \in 1 .. Len(acts) /\ acts \in Seq(Requests)
  BY <1>1, <1>2, Whereabouts DEF Current
<1>4. acts[n].stage # "tool" /\ acts[n].stage \in Stages
  BY <1>1, <1>3, ActionsOrdered, PipelineAssumption
<1>5. /\ ~Unevaluated(acts[n])
      /\ Judgement(r, acts[n]) = Finalize(e, acts[n])
  <2>1. CASE acts[n].stage = "elevation"
    <3>1. Judgement(r, acts[n]) = JudgeElevation(me.policy, acts[n])
      BY <2>1 DEF Judgement
    <3> QED BY <1>3, <3>1 DEF JudgeElevation, Deny, Ask
  <2>2. CASE acts[n].stage = "utility" /\ Unevaluated(acts[n])
    <3>1. Judgement(r, acts[n]) = Deny("DenyUserDataWrite")
      BY <2>2 DEF Judgement
    <3> QED BY <1>3, <3>1 DEF Deny
  <2>3. CASE acts[n].stage # "elevation" /\ ~(acts[n].stage = "utility" /\ Unevaluated(acts[n]))
    <3>1. ~Unevaluated(acts[n])
      BY <2>3 DEF Unevaluated
    <3> QED BY <1>4, <2>3, <3>1 DEF Judgement
  <2> QED BY <2>1, <2>2, <2>3
<1>6. \/ e.verdict = "Allow"
      \/ e.verdict = "RequireApproval" /\ acts[n] \in me.approved
  <2>1. Finalize(e, acts[n]).verdict = "Allow"
    BY <1>3, <1>5
  <2>2. me.ops # <<"begin">>
    OBVIOUS
  <2>3. Approved \subseteq me.approved
    BY <2>2 DEF HasSeen
  <2>4. acts[n] \in Requests
    BY <1>1, <1>3
  <2> HIDE DEF e
  <2>5. CASE e.verdict = "RequireApproval" /\ queue[acts[n]].status = "approved"
    BY <2>3, <2>4, <2>5 DEF Approved
  <2>6. CASE ~(e.verdict = "RequireApproval" /\ queue[acts[n]].status = "approved")
    BY <2>1, <2>6 DEF Finalize
  <2> QED BY <2>5, <2>6
<1>7. Classifies(acts[n]) /\ me.cache[Target(acts[n])] # Unknown =>
        \E q \in Requests : Left(me.cache, acts[n], q)
  <2> SUFFICES ASSUME Classifies(acts[n]), me.cache[Target(acts[n])] # Unknown
               PROVE  \E q \in Requests : Left(me.cache, acts[n], q)
    OBVIOUS
  <2>1. Target(acts[n]) \in Paths
    BY <1>1, <1>3, RequestTypes DEF Classifies, Target
  <2>2. PICK i \in 1 .. Behind(me) :
          /\ ~Unevaluated(acts[i]) /\ Classifies(acts[i]) /\ Target(acts[i]) = Target(acts[n])
          /\ me.cache[Target(acts[n])] = Classify(Target(acts[n]), acts[i].kind)
    BY <1>2, <2>1 DEF Cached
  <2>3. i \in DOMAIN acts /\ n \in DOMAIN acts /\ i < n
    BY <1>3, LenProperties
  <2>4. acts[i] \in Requests /\ acts[i].stage # "tool"
        /\ (acts[n].stage \in Early => acts[i].stage \in Early)
    <3>1. acts[i] \in Requests
      BY <1>3, <2>3, ElementOfSeq, LenProperties
    <3>2. Ordered(acts) /\ acts[i].stage # "tool"
      BY <1>1, <2>3, ActionsOrdered
    <3> QED BY <2>3, <3>1, <3>2 DEF Ordered
  <2> QED BY <2>2, <2>4 DEF Left
<1>8. Firm(me.policy)
  BY <1>1 DEF FirmPolicies
<1>9. LET alone == Evaluate(me.policy, EmptyCache, acts[n]).verdict
      IN  /\ e.verdict = "Allow" => alone = "Allow"
          /\ e.verdict = "RequireApproval" => alone \in {"Allow", "RequireApproval"}
  <2>1. acts[n] \in Requests
    BY <1>1, <1>3
  <2> HIDE DEF n, acts, me
  <2> QED BY <1>1, <1>4, <1>5, <1>7, <1>8, <2>1, CacheNoMilder DEF me
<1> QED BY <1>3, <1>5, <1>6, <1>9 DEF Granted

\* The cache has then one zone more, if any.
LEMMA CachedNext ==
    ASSUME NEW me, NEW n \in Nat, me.cache \in Caches, Cached(me, n),
           Actions(me.cmd)[n + 1] \in Requests, ~Unevaluated(Actions(me.cmd)[n + 1]),
           NEW you, you.cmd = me.cmd, you.cache = CacheAfter(me.cache, Actions(me.cmd)[n + 1])
    PROVE  Cached(you, n + 1)
<1> DEFINE req == Actions(me.cmd)[n + 1]
           t == Target(req)
<1> SUFFICES ASSUME NEW p \in Paths, you.cache[p] # Unknown
             PROVE  \E i \in 1 .. n + 1 :
                      LET q == Actions(me.cmd)[i]
                      IN  /\ ~Unevaluated(q) /\ Classifies(q) /\ Target(q) = p
                          /\ you.cache[p] = Classify(p, q.kind)
  BY DEF Cached
<1>1. CASE you.cache[p] = me.cache[p]
  <2>1. PICK i \in 1 .. n :
          LET q == Actions(me.cmd)[i]
          IN  /\ ~Unevaluated(q) /\ Classifies(q) /\ Target(q) = p
              /\ me.cache[p] = Classify(p, q.kind)
    BY <1>1 DEF Cached
  <2>2. i \in 1 .. n + 1
    OBVIOUS
  <2> QED BY <1>1, <2>1, <2>2
<1>2. CASE you.cache[p] # me.cache[p]
  <2>1. Classifies(req) /\ you.cache = [me.cache EXCEPT ![t] = ZoneOf(me.cache, t, req.kind)]
    BY <1>2 DEF CacheAfter, Remember
  <2>2. p = t /\ you.cache[p] = ZoneOf(me.cache, t, req.kind)
    BY <1>2, <2>1 DEF Caches
  <2>3. you.cache[p] = Classify(p, req.kind)
    BY <1>2, <2>2 DEF ZoneOf
  <2>4. n + 1 \in 1 .. n + 1
    OBVIOUS
  <2> QED BY <2>1, <2>2, <2>3, <2>4
<1> QED BY <1>1, <1>2

-----------------------------------------------------------------------------
(* Every step keeps what was cleared *)

\* The same run, seen later: more receipts, more approvals.
LEMMA ClearedLater ==
    ASSUME NEW r, NEW me, NEW you, NEW old, NEW new, old \subseteq new,
           you.policy = me.policy, me.approved \subseteq you.approved, NEW req
    PROVE  /\ Granted(me, req) => Granted(you, req)
           /\ Cleared(r, me, old, req) => Cleared(r, you, new, req)
  BY DEF Granted, Cleared

LEMMA ClearLater ==
    ASSUME NEW r, NEW me, NEW you, NEW old, NEW new, old \subseteq new,
           you.ops = me.ops, you.cmd = me.cmd, you.left = me.left, you.cache = me.cache,
           you.decision = me.decision, you.ran = me.ran,
           you.policy = me.policy, me.approved \subseteq you.approved,
           ClearOK(r, me, old)
    PROVE  ClearOK(r, you, new)
<1>1. \A req : /\ Granted(me, req) => Granted(you, req)
               /\ Cleared(r, me, old, req) => Cleared(r, you, new, req)
  BY ClearedLater
<1>2. /\ Behind(you) = Behind(me) /\ (OnCourse(me) => OnCourse(you))
      /\ \A n : Cached(me, n) => Cached(you, n)
  BY DEF Behind, OnCourse, Cached
<1> QED BY <1>1, <1>2 DEF ClearOK

\* A run that judges no more.
LEMMA ClearQuietly ==
    ASSUME NEW r, NEW me, NEW you, NEW old, NEW new, old \subseteq new,
           me.ops # <<"begin">>, you.ops \notin Allowing \cup {<<"judge">>},
           you.ops \in LaunchOps \/ you.ran # <<>> => me.ops \in LaunchOps \/ me.ran # <<>>,
           you.cmd = me.cmd, you.left = me.left,
           you.policy = me.policy, me.approved \subseteq you.approved,
           ClearOK(r, me, old)
    PROVE  ClearOK(r, you, new)
<1>1. \A req : Cleared(r, me, old, req) => Cleared(r, you, new, req)
  BY ClearedLater
<1>2. Behind(you) = Behind(me) /\ (OnCourse(me) => OnCourse(you))
  BY DEF Behind, OnCourse
<1> QED BY <1>1, <1>2 DEF ClearOK, Allowing

\* A step of one run leaves the others as cleared as they were.
LEMMA OneClears ==
    ASSUME PipelineInv, ClearInv, NEW r \in Runs, NEW me, run' = [run EXCEPT ![r] = me],
           log \subseteq log', Approved' \subseteq Approved,
           ClearOK(r, me, log'), HasSeen(me, Approved)
    PROVE  ClearInv'
<1>1. run \in [Runs -> RunRecords]
  BY DEF PipelineInv, PipelineType
<1> SUFFICES ASSUME NEW t \in Runs
             PROVE  ClearOK(t, run'[t], log') /\ HasSeen(run'[t], Approved')
  BY DEF ClearInv
<1>2. CASE t = r
  BY <1>1, <1>2 DEF HasSeen
<1>3. CASE t # r
  <2>1. run'[t] = run[t]
    BY <1>1, <1>3
  <2>2. ClearOK(t, run[t], log')
    BY ClearLater DEF ClearInv
  <2> QED BY <2>1, <2>2 DEF ClearInv, HasSeen
<1> QED BY <1>2, <1>3

LEMMA ClearInit == Init => ClearInv
<1> SUFFICES ASSUME Init, NEW r \in Runs
             PROVE  ClearOK(r, run[r], log) /\ HasSeen(run[r], Approved)
  BY DEF ClearInv
<1>1. run[r].ops = <<"begin">>
  BY DEF Init, NotStarted
<1> QED BY <1>1 DEF ClearOK, HasSeen

LEMMA BeginClears ==
    ASSUME PipelineInv, ClearInv, NEW r \in Runs, NEW cmd \in Commands, Begin(r, cmd)
    PROVE  ClearInv'
<1> DEFINE me == [run[r] EXCEPT !.ops = <<"judge">>, !.cmd = cmd, !.policy = policy,
                                !.left = Actions(cmd), !.approved = Approved]
<1>1. /\ run' = [run EXCEPT ![r] = me]
      /\ queue' = queue /\ log' = log
  BY DEF Begin
<1>2. run[r].ops = <<"begin">>
  BY Running, ShapeHeads DEF Begin, At
<1>3. run[r] \in RunRecords /\ run[r].ran = <<>> /\ run[r].cache = EmptyCache
  BY <1>2, Running DEF RunOK, JudgingOK
<1>4. /\ me.ops = <<"judge">> /\ me.cmd = cmd /\ me.left = Actions(cmd) /\ me.ran = <<>>
      /\ me.cache = EmptyCache /\ me.approved = Approved
  BY <1>3 DEF RunRecords
<1>5. Approved' = Approved
  BY <1>1 DEF Approved
<1> HIDE DEF me
<1>6. Len(Actions(cmd)) \in Nat
  BY PipelineAssumption, LenProperties
<1>7. Behind(me) = 0 /\ OnCourse(me)
  BY <1>4, <1>6 DEF Behind, OnCourse
<1>8. Cached(me, 0)
  BY <1>4 DEF Cached, EmptyCache
<1>9. <<"judge">> \notin LaunchOps \cup Allowing \cup {<<"begin">>}
  BY DEF LaunchOps, FallbackOps, Allowing
<1>10. ClearOK(r, me, log') /\ HasSeen(me, Approved)
  BY <1>4, <1>7, <1>8, <1>9 DEF ClearOK, HasSeen
<1> QED BY <1>1, <1>5, <1>10, OneClears

LEMMA JudgeClears ==
    ASSUME FirmPolicies, PipelineInv, ClearInv, NEW r \in Runs, Judge(r) PROVE ClearInv'
<1> DEFINE req == Current(r)
           d == Judgement(r, req)
           f == Follows(d.verdict, req)
           c == IF Unevaluated(req) THEN run[r].cache ELSE CacheAfter(run[r].cache, req)
           me == [run[r] EXCEPT !.decision = d, !.ops = f, !.cache = c]
<1>1. run' = [run EXCEPT ![r] = me] /\ queue' = queue /\ log' = log
  <2>1. run' = [run EXCEPT ![r] = me]
    BY DEF Judge
  <2>2. queue' = queue /\ log' = log
    BY DEF Judge
  <2> QED BY <2>1, <2>2
<1>2. run[r].ops = <<"judge">>
  BY Running, ShapeHeads DEF Judge, At
<1>3. /\ run[r] \in RunRecords /\ req \in Requests /\ run[r].cache \in Caches
      /\ run[r].cmd \in Commands /\ run[r].left # <<>> /\ run[r].left \in Seq(Requests)
      /\ ClearOK(r, run[r], log) /\ HasSeen(run[r], Approved)
  BY <1>2, Running DEF ClearInv
<1>4. /\ me.decision = d /\ me.ops = f /\ me.cache = c
      /\ me.cmd = run[r].cmd /\ me.policy = run[r].policy /\ me.left = run[r].left
      /\ me.ran = run[r].ran /\ me.approved = run[r].approved
  BY <1>3 DEF RunRecords
<1>5. /\ f \in JudgedOps /\ f # <<"next">>
      /\ f = <<"log", "next">> => d.verdict = "Allow"
  BY FollowsShape
<1>6. f \notin LaunchOps \cup {<<"judge">>, <<"begin">>}
  <2> HIDE DEF f
  <2> QED BY <1>5 DEF JudgedOps, AskOps, MoveOps, LaunchOps, FallbackOps
<1>7. Approved' = Approved
  BY <1>1 DEF Approved
<1>8. HasSeen(me, Approved)
  BY <1>2, <1>3, <1>4 DEF HasSeen
<1>9. ClearOK(r, me, log')
  <2> HIDE DEF me, f, c, d, req
  <2>1. CASE me.cmd.form = "tool"
    BY <2>1 DEF ClearOK
  <2>2. CASE me.cmd.form # "tool" /\ f # <<"log", "next">>
    <3>1. me.ops \notin Allowing \cup {<<"judge">>}
      BY <1>4, <1>5, <1>6, <2>2 DEF Allowing
    <3>2. run[r].ops # <<"begin">>
      BY <1>2
    <3>3. me.ops \in LaunchOps \/ me.ran # <<>> => run[r].ops \in LaunchOps \/ run[r].ran # <<>>
      BY <1>4, <1>6
    <3>4. log \subseteq log'
      BY <1>1
    <3> QED BY <1>3, <1>4, <3>1, <3>2, <3>3, <3>4, ClearQuietly
  <2>3. CASE me.cmd.form # "tool" /\ f = <<"log", "next">>
    <3>1. Granted(run[r], req) /\ ~Unevaluated(req)
      BY <1>2, <1>3, <1>4, <1>5, <2>3, JudgedAlone DEF d, req
    <3>2. /\ OnCourse(run[r]) /\ Cached(run[r], Behind(run[r]))
          /\ \A i \in 1 .. Behind(run[r]) :
                Cleared(r, run[r], log, Actions(run[r].cmd)[i])
      BY <1>2, <1>3, <1>4, <2>3 DEF ClearOK
    <3>3. /\ Behind(run[r]) \in Nat /\ req = Actions(run[r].cmd)[Behind(run[r]) + 1]
      BY <1>3, <3>2, Whereabouts DEF req, Current
    <3>4. Cached(me, Behind(run[r]) + 1)
      <4>1. me.cache = CacheAfter(run[r].cache, req)
        BY <1>4, <3>1 DEF c
      <4> QED BY <1>3, <1>4, <3>1, <3>2, <3>3, <4>1, CachedNext
    <3>5. Behind(me) = Behind(run[r]) /\ OnCourse(me)
      BY <1>4, <3>2 DEF Behind, OnCourse
    <3>6. /\ Granted(me, req) /\ Head(me.left) = req
          /\ \A i \in 1 .. Behind(me) : Cleared(r, me, log', Actions(me.cmd)[i])
      <4>1. \A q : /\ Granted(run[r], q) => Granted(me, q)
                   /\ Cleared(r, run[r], log, q) => Cleared(r, me, log', q)
        BY <1>1, <1>4, ClearedLater
      <4> QED BY <1>4, <3>1, <3>2, <3>5, <4>1 DEF req, Current
    <3>7. run[r].ran # <<>> =>
            \A i \in DOMAIN Actions(me.cmd) : Cleared(r, me, log', Actions(me.cmd)[i])
      <4>1. \A q : Cleared(r, run[r], log, q) => Cleared(r, me, log', q)
        BY <1>1, <1>4, ClearedLater
      <4> QED BY <1>2, <1>3, <1>4, <2>3, <4>1 DEF ClearOK
    <3>8. me.ops # <<"judge">> /\ me.ops # <<"next">> /\ me.ops \notin LaunchOps
          /\ me.decision.verdict = "Allow" /\ me.ran = run[r].ran
      BY <1>4, <1>5, <1>6, <2>3
    <3> QED BY <3>4, <3>5, <3>6, <3>7, <3>8 DEF ClearOK
  <2> QED BY <2>1, <2>2, <2>3
<1> HIDE DEF me
<1> QED BY <1>1, <1>7, <1>8, <1>9, OneClears

\* A run that judges no more, while others' approvals at most lapse.
LEMMA QuietClears ==
    ASSUME PipelineInv, ClearInv, NEW r \in Runs, NEW me, run' = [run EXCEPT ![r] = me],
           log \subseteq log', Approved' \subseteq Approved,
           run[r].ops # <<"begin">>, me.ops \notin Allowing \cup {<<"judge">>, <<"begin">>},
           me.ops \in LaunchOps \/ me.ran # <<>> => run[r].ops \in LaunchOps \/ run[r].ran # <<>>,
           me.cmd = run[r].cmd, me.left = run[r].left,
           me.policy = run[r].policy, me.approved = run[r].approved
    PROVE  ClearInv'
<1>1. ClearOK(r, run[r], log) /\ HasSeen(run[r], Approved)
  BY DEF ClearInv
<1>2. ClearOK(r, me, log')
  BY <1>1, ClearQuietly
<1>3. HasSeen(me, Approved)
  BY <1>1 DEF HasSeen
<1> QED BY <1>2, <1>3, OneClears

\* The record of a run that goes on to other duties.
LEMMA OpsFields ==
    ASSUME NEW me \in RunRecords, NEW s
    PROVE  LET you == [me EXCEPT !.ops = s]
           IN  /\ you.ops = s /\ you.cmd = me.cmd /\ you.policy = me.policy
               /\ you.left = me.left /\ you.cache = me.cache /\ you.decision = me.decision
               /\ you.ran = me.ran /\ you.approved = me.approved
  BY DEF RunRecords

LEMMA LogClears == ASSUME PipelineInv, ClearInv, NEW r \in Runs, Log(r) PROVE ClearInv'
<1> DEFINE o == run[r].ops
           e == Receipt(r, "decision", run[r].decision.verdict)
           me == [run[r] EXCEPT !.ops = Tail(o)]
<1>1. /\ run' = [run EXCEPT ![r] = me] /\ log' = log \cup {e} /\ queue' = queue
  BY DEF Log, Step
<1>2. o \in {<<"log", "next">>, <<"log", "answer">>, <<"log", "queue", "answer">>,
            <<"log", "move", "answer">>}
  BY Running, ShapeHeads DEF Log, At
<1>3. run[r] \in RunRecords /\ ClearOK(r, run[r], log) /\ HasSeen(run[r], Approved)
  BY Running DEF ClearInv
<1>4. /\ me.ops = Tail(o) /\ me.cmd = run[r].cmd /\ me.policy = run[r].policy
      /\ me.left = run[r].left /\ me.cache = run[r].cache /\ me.decision = run[r].decision
      /\ me.ran = run[r].ran /\ me.approved = run[r].approved
  BY <1>3, OpsFields
<1>5. Approved' = Approved /\ log \subseteq log'
  BY <1>1 DEF Approved
<1>6. CASE o # <<"log", "next">>
  <2>1. /\ Tail(o) \in {<<"answer">>, <<"queue", "answer">>, <<"move", "answer">>}
        /\ o # <<"begin">>
    <3> HIDE DEF o, e, me
    <3>1. o \in {<<"log", "answer">>, <<"log", "queue", "answer">>, <<"log", "move", "answer">>}
      BY <1>2, <1>6
    <3>2. Tail(o) \in {<<"answer">>, <<"queue", "answer">>, <<"move", "answer">>}
      BY <3>1, ShapeTails
    <3>3. o # <<"begin">>
      BY <3>1
    <3> QED BY <3>2, <3>3
  <2>2. Tail(o) \notin Allowing \cup {<<"judge">>, <<"begin">>} \cup LaunchOps
    <3> HIDE DEF o
    <3> QED BY <2>1 DEF Allowing, LaunchOps, FallbackOps
  <2> HIDE DEF me
  <2> QED BY <1>1, <1>4, <1>5, <2>1, <2>2, QuietClears
<1>7. CASE o = <<"log", "next">>
  <2>1. me.ops = <<"next">> /\ o # <<"begin">>
    BY <1>4, <1>7, ShapeTails
  <2> HIDE DEF me
  <2>2. HasSeen(me, Approved)
    BY <1>3, <1>4, <2>1 DEF HasSeen
  <2>3. ClearOK(r, me, log')
    <3>1. CASE me.cmd.form = "tool"
      BY <3>1 DEF ClearOK
    <3>2. CASE me.cmd.form # "tool"
      <4>1. \A req : /\ Granted(run[r], req) => Granted(me, req)
                     /\ Cleared(r, run[r], log, req) => Cleared(r, me, log', req)
        BY <1>4, <1>5, ClearedLater
      <4>2. /\ Behind(me) = Behind(run[r]) /\ (OnCourse(run[r]) => OnCourse(me))
            /\ \A n : Cached(run[r], n) => Cached(me, n)
        BY <1>4 DEF Behind, OnCourse, Cached
      <4>3. run[r].decision.verdict = "Allow" /\ Granted(run[r], Head(run[r].left))
        BY <1>3, <1>4, <1>7, <2>1, <3>2 DEF ClearOK, Allowing
      <4>4. Cleared(r, me, log', Head(me.left))
        <5>1. e = [run |-> r, label |-> "decision", req |-> Head(me.left), verdict |-> "Allow"]
          BY <1>4, <4>3 DEF Receipt, Current
        <5>2. e \in log'
          BY <1>1
        <5> HIDE DEF e
        <5> QED BY <1>4, <4>1, <4>3, <5>1, <5>2 DEF Cleared
      <4>5. <<"next">> \notin LaunchOps \cup {<<"judge">>}
        BY DEF LaunchOps, FallbackOps
      <4> QED BY <1>3, <1>4, <1>7, <2>1, <3>2, <4>1, <4>2, <4>4, <4>5 DEF ClearOK, Allowing, Cleared
    <3> QED BY <3>1, <3>2
  <2> QED BY <1>1, <1>5, <2>2, <2>3, OneClears
<1> QED BY <1>6, <1>7

LEMMA RefusalClears ==
    ASSUME PipelineInv, ClearInv, NEW r \in Runs, Queue(r) \/ Move(r) \/ Stop(r) \/ Answer(r)
    PROVE  ClearInv'
<1>1. run[r] \in RunRecords /\ run[r].ops \in Shapes
  BY Running
<1>2. run[r].ops # <<"begin">>
  BY Running, ShapeHeads DEF Queue, Move, Stop, Answer, At
<1>3. \E s \in {<<>>, <<"answer">>, <<"log", "answer">>} : \E reply :
        run' = [run EXCEPT ![r] = [run[r] EXCEPT !.ops = s, !.answer = reply]]
  <2>1. CASE Queue(r) \/ Move(r)
    <3>1. run' = [run EXCEPT ![r] = [run[r] EXCEPT !.ops = Tail(run[r].ops)]]
      BY <2>1 DEF Queue, Move, Step
    <3>2. Tail(run[r].ops) \in {<<"answer">>, <<"log", "answer">>}
      <4>1. run[r].ops \in {<<"queue", "answer">>, <<"queue", "log", "answer">>,
                           <<"move", "answer">>, <<"move", "log", "answer">>}
        BY <1>1, <2>1, ShapeHeads DEF Queue, Move, At
      <4> QED BY <4>1, ShapeTails
    <3>3. [run[r] EXCEPT !.ops = Tail(run[r].ops)] =
            [run[r] EXCEPT !.ops = Tail(run[r].ops), !.answer = run[r].answer]
      BY <1>1 DEF RunRecords
    <3> QED BY <3>1, <3>2, <3>3
  <2>2. CASE Stop(r)
    <3>1. run' = [run EXCEPT ![r] = [run[r] EXCEPT !.ops = <<>>]]
      BY <2>2 DEF Stop
    <3>2. [run[r] EXCEPT !.ops = <<>>] = [run[r] EXCEPT !.ops = <<>>, !.answer = run[r].answer]
      BY <1>1 DEF RunRecords
    <3> QED BY <3>1, <3>2
  <2>3. CASE Answer(r)
    BY <2>3 DEF Answer
  <2> QED BY <2>1, <2>2, <2>3
<1>4. PICK s \in {<<>>, <<"answer">>, <<"log", "answer">>} : \E reply :
        run' = [run EXCEPT ![r] = [run[r] EXCEPT !.ops = s, !.answer = reply]]
  BY <1>3
<1>9. PICK reply : run' = [run EXCEPT ![r] = [run[r] EXCEPT !.ops = s, !.answer = reply]]
  BY <1>4
<1> DEFINE me == [run[r] EXCEPT !.ops = s, !.answer = reply]
<1>5. /\ me.ops = s /\ me.cmd = run[r].cmd /\ me.policy = run[r].policy
      /\ me.left = run[r].left /\ me.ran = run[r].ran /\ me.approved = run[r].approved
  BY <1>1 DEF RunRecords
<1>6. s \notin Allowing \cup {<<"judge">>, <<"begin">>} \cup LaunchOps
  BY DEF Allowing, LaunchOps, FallbackOps
<1>7. log' = log
  BY DEF Queue, Move, Stop, Answer
<1>8. Approved' \subseteq Approved
  <2>1. CASE Queue(r)
    <3> DEFINE asked == [status |-> "pending", reason |-> run[r].decision.reason]
    <3>1. queue' \in {queue, [queue EXCEPT ![Current(r)] = asked]}
      BY <2>1 DEF Queue
    <3>2. asked.status = "pending"
      OBVIOUS
    <3> HIDE DEF asked
    <3>3. queue \in [Requests -> [status : {"none", "pending", "approved"},
                                  reason : Reasons \cup {"none"}]]
      BY DEF PipelineInv, PipelineType
    <3>4. ASSUME NEW q \in Requests, queue'[q].status = "approved"
          PROVE  queue[q].status = "approved"
      BY <3>1, <3>2, <3>3, <3>4
    <3> QED BY <3>4 DEF Approved
  <2>2. CASE ~Queue(r)
    BY <2>2 DEF Move, Stop, Answer, Approved
  <2> QED BY <2>1, <2>2
<1> HIDE DEF me
<1> QED BY <1>2, <1>5, <1>6, <1>7, <1>8, <1>9, QuietClears DEF me

\* The action at hand was cleared: it is one more behind, or the last.
LEMMA NextActionClears ==
    ASSUME PipelineInv, ClearInv, NEW r \in Runs, NextAction(r) PROVE ClearInv'
<1> DEFINE left == IF Len(run[r].left) = 1 THEN run[r].left ELSE Tail(run[r].left)
           ops == IF Len(run[r].left) > 1 THEN <<"judge">>
                  ELSE IF run[r].cmd.form = "tool" THEN <<"answer">>
                  ELSE <<"launch">>
           me == [run[r] EXCEPT !.left = left, !.ops = ops]
<1>1. run' = [run EXCEPT ![r] = me] /\ queue' = queue /\ log' = log
  BY DEF NextAction
<1>2. run[r].ops = <<"next">>
  BY Running, ShapeHeads DEF NextAction, At
<1>3. /\ run[r] \in RunRecords /\ run[r].left \in Seq(Requests) /\ run[r].left # <<>>
      /\ run[r].cmd \in Commands /\ ClearOK(r, run[r], log) /\ HasSeen(run[r], Approved)
  BY <1>2, Running DEF ClearInv
<1>4. /\ me.ops = ops /\ me.left = left /\ me.cmd = run[r].cmd /\ me.policy = run[r].policy
      /\ me.cache = run[r].cache /\ me.ran = run[r].ran /\ me.approved = run[r].approved
  BY <1>3 DEF RunRecords
<1>5. Approved' = Approved /\ log \subseteq log'
  BY <1>1 DEF Approved
<1>6. HasSeen(me, Approved)
  BY <1>2, <1>3, <1>4 DEF HasSeen
<1>7. ClearOK(r, me, log')
  <2>1. CASE me.cmd.form = "tool"
    BY <2>1 DEF ClearOK
  <2>2. CASE me.cmd.form # "tool"
    <3> DEFINE you == run[r]
               acts == Actions(you.cmd)
               b == Behind(you)
    <3>1. /\ you.ops \in Allowing /\ <<"next">> # <<"begin">>
      BY <1>2 DEF Allowing
    <3>2. /\ OnCourse(you)
          /\ \A i \in 1 .. b : Cleared(r, you, log, acts[i])
          /\ Cached(you, b + 1) /\ Cleared(r, you, log, Head(you.left))
          /\ you.ran # <<>> => \A i \in DOMAIN acts : Cleared(r, you, log, acts[i])
      <4> HIDE DEF me
      <4> QED BY <1>2, <1>3, <1>4, <2>2, <3>1 DEF ClearOK
    <3>3. /\ Len(acts) \in Nat /\ DOMAIN acts = 1 .. Len(acts)
          /\ Len(you.left) \in Nat \ {0} /\ b \in Nat /\ Len(acts) = b + Len(you.left)
          /\ Head(you.left) = acts[b + 1]
      BY <1>3, <3>2, Whereabouts
    <3>4. \A req : Cleared(r, you, log, req) => Cleared(r, me, log', req)
      <4> HIDE DEF me
      <4> QED BY <1>4, <1>5, ClearedLater
    <3>5. \A i \in 1 .. b + 1 : Cleared(r, me, log', acts[i])
      <4> HIDE DEF me, acts, b, you
      <4> SUFFICES ASSUME NEW i \in 1 .. b + 1 PROVE Cleared(r, you, log, acts[i])
        BY <3>4
      <4>1. CASE i = b + 1
        BY <3>2, <3>3, <4>1
      <4>2. CASE i # b + 1
        <5>1. i \in 1 .. b
          BY <3>3, <4>2
        <5> QED BY <3>2, <5>1
      <4> QED BY <4>1, <4>2
    <3>6. me.ran # <<>> => \A i \in DOMAIN acts : Cleared(r, me, log', acts[i])
      <4> HIDE DEF me, acts
      <4> QED BY <1>4, <3>2, <3>4
    <3>7. CASE Len(you.left) = 1
      <4>1. ops = <<"launch">> /\ left = you.left
        BY <1>4, <2>2, <3>3, <3>7
      <4>2. \A i \in DOMAIN acts : Cleared(r, me, log', acts[i])
        <5> HIDE DEF me, acts, b, you
        <5> QED BY <3>3, <3>5, <3>7
      <4>3. Behind(me) = b /\ OnCourse(me)
        <5> HIDE DEF me
        <5> QED BY <1>4, <3>2, <4>1 DEF Behind, OnCourse
      <4>4. \A i \in 1 .. b : Cleared(r, me, log', acts[i])
        <5> HIDE DEF me, acts, b, you
        <5>1. \A i \in 1 .. b : i \in 1 .. b + 1
          BY <3>3
        <5> QED BY <3>5, <5>1
      <4>5. <<"launch">> \notin Allowing \cup {<<"judge">>, <<"next">>}
        BY DEF Allowing
      <4> HIDE DEF me, left, ops
      <4> QED BY <1>4, <4>1, <4>2, <4>3, <4>4, <4>5 DEF ClearOK
    <3>8. CASE Len(you.left) # 1
      <4>1. ops = <<"judge">> /\ left = Tail(you.left)
        <5>1. Len(run[r].left) > 1 /\ Len(run[r].left) # 1
          <6>1. \A n \in Nat \ {0} : n # 1 => n > 1
            OBVIOUS
          <6>2. Len(run[r].left) \in Nat \ {0} /\ Len(run[r].left) # 1
            BY <3>3, <3>8
          <6> QED BY <6>1, <6>2
        <5> HIDE DEF me
        <5> QED BY <5>1
      <4>2. /\ Len(left) = Len(you.left) - 1
            /\ \A i \in 1 .. Len(left) : left[i] = you.left[i + 1]
        BY <1>3, <3>3, <4>1, HeadTailProperties
      <4>3. Behind(me) = b + 1
        <5>1. Behind(me) = Len(acts) - Len(left)
          BY <1>4 DEF Behind
        <5> DEFINE x == Len(you.left)
                   y == Len(left)
                   z == Len(acts)
        <5>2. x \in Nat /\ b \in Nat /\ z = b + x /\ y = x - 1 /\ Behind(me) = z - y
          BY <3>3, <4>2, <5>1
        <5> HIDE DEF me, acts, b, you, left, ops, x, y, z
        <5> QED BY <5>2
      <4>4. OnCourse(me)
        <5>1. ASSUME NEW i \in 1 .. Len(left) PROVE left[i] = acts[(b + 1) + i]
          <6>1. left[i] = you.left[i + 1] /\ i + 1 \in 1 .. Len(you.left)
            <7> HIDE DEF me, acts, b, you, left
            <7> QED BY <3>3, <4>2
          <6>2. you.left[i + 1] = acts[b + (i + 1)]
            <7> HIDE DEF me, left
            <7> QED BY <3>2, <6>1 DEF OnCourse
          <6>3. b + (i + 1) = (b + 1) + i
            <7> HIDE DEF b
            <7> QED BY <3>3, <4>2
          <6> QED BY <6>1, <6>2, <6>3
        <5>2. b + 1 \in Nat
          BY <3>3
        <5> HIDE DEF me, left, b
        <5> QED BY <1>4, <4>3, <5>1, <5>2 DEF OnCourse
      <4>5. Cached(me, b + 1)
        <5> HIDE DEF me
        <5> QED BY <1>4, <3>2 DEF Cached
      <4>6. <<"judge">> \notin Allowing \cup LaunchOps \cup {<<"next">>}
        BY DEF Allowing, LaunchOps, FallbackOps
      <4> HIDE DEF me, left, ops, b
      <4> QED BY <1>4, <3>5, <3>6, <4>1, <4>3, <4>4, <4>5, <4>6 DEF ClearOK
    <3> QED BY <3>7, <3>8
  <2> QED BY <2>1, <2>2
<1> HIDE DEF me
<1> QED BY <1>1, <1>5, <1>6, <1>7, OneClears

\* A command that is launched was cleared, and stays so.
LEMMA LaunchClears ==
    ASSUME PipelineInv, ClearInv, NEW r \in Runs,
           LaunchGateway(r) \/ NoConfinement(r) \/ LaunchConfined(r) \/ LaunchBare(r) \/ LogLaunch(r)
    PROVE  ClearInv'
<1>1. run[r] \in RunRecords
  BY Running
<1>2. run[r].ops \in LaunchOps
  BY Running, ShapeHeads
     DEF LaunchGateway, NoConfinement, LaunchConfined, LaunchBare, LogLaunch, At,
         LaunchOps, FallbackOps
<1>3. /\ \E ran : \E ops \in {<<>>} \cup LaunchOps :
            run' = [run EXCEPT ![r] = [run[r] EXCEPT !.ran = ran, !.ops = ops]]
      /\ queue' = queue /\ log \subseteq log'
  <2>1. <<"logEnd">> \in LaunchOps
    BY DEF LaunchOps
  <2>2. ASSUME run[r].cmd.form # "gateway"
        PROVE  <<"logUnavailable">> \o Fallback(run[r].cmd) \in LaunchOps
    <3>1. run[r].cmd \in Commands /\ run[r].cmd.form # "tool"
      BY <1>2, Running DEF RunOK, LaunchOK, JudgingOK, LaunchOps, FallbackOps
    <3> QED BY <2>2, <3>1, FallbackShape DEF LaunchOps, FallbackOps
  <2>3. ASSUME LaunchBare(r) \/ LogLaunch(r)
        PROVE  Tail(run[r].ops) \in {<<>>} \cup LaunchOps
    <3> DEFINE o == run[r].ops
    <3>1. o \in {<<"bare", "logEnd">>, <<"logUnavailable">>, <<"logEnd">>,
                 <<"logUnavailable", "logDegraded", "bare", "logEnd">>,
                 <<"logDegraded", "bare", "logEnd">>}
      BY <2>3, Running, ShapeHeads DEF LaunchBare, LogLaunch, At
    <3> HIDE DEF o
    <3>2. Tail(o) \in {<<>>, <<"logEnd">>, <<"bare", "logEnd">>,
                       <<"logDegraded", "bare", "logEnd">>}
      BY <3>1, ShapeTails
    <3>3. Tail(o) \in {<<>>} \cup LaunchOps
      BY <3>2 DEF LaunchOps, FallbackOps
    <3> QED BY <3>3 DEF o
  <2>4. \A s : [run[r] EXCEPT !.ops = s] = [run[r] EXCEPT !.ran = run[r].ran, !.ops = s]
    BY <1>1 DEF RunRecords
  <2>5. CASE LaunchGateway(r) \/ LaunchBare(r)
    BY <2>1, <2>3, <2>5 DEF LaunchGateway, LaunchBare, Launched
  <2>6. CASE NoConfinement(r)
    BY <2>2, <2>4, <2>6 DEF NoConfinement
  <2>7. CASE LaunchConfined(r)
    BY <2>1, <2>2, <2>7 DEF LaunchConfined, Launched
  <2>8. CASE LogLaunch(r)
    BY <2>3, <2>4, <2>8 DEF LogLaunch, Step
  <2> QED BY <2>5, <2>6, <2>7, <2>8
<1>4. PICK ran : \E ops \in {<<>>} \cup LaunchOps :
        run' = [run EXCEPT ![r] = [run[r] EXCEPT !.ran = ran, !.ops = ops]]
  BY <1>3
<1>5. PICK ops \in {<<>>} \cup LaunchOps :
        run' = [run EXCEPT ![r] = [run[r] EXCEPT !.ran = ran, !.ops = ops]]
  BY <1>4
<1> DEFINE me == [run[r] EXCEPT !.ran = ran, !.ops = ops]
<1>6. /\ me.ops = ops /\ me.cmd = run[r].cmd /\ me.policy = run[r].policy
      /\ me.left = run[r].left /\ me.approved = run[r].approved
  BY <1>1 DEF RunRecords
<1>7. /\ ops \notin Allowing \cup {<<"judge">>, <<"begin">>}
      /\ <<"begin">> \notin LaunchOps
  BY DEF Allowing, LaunchOps, FallbackOps
<1>8. Approved' \subseteq Approved
  BY <1>3 DEF Approved
<1>9. run' = [run EXCEPT ![r] = me]
  BY <1>5
<1> HIDE DEF me
<1> QED BY <1>2, <1>3, <1>6, <1>7, <1>8, <1>9, QuietClears

\* What is approved is approved to every run there is.
LEMMA ApproveClears ==
    ASSUME PipelineInv, ClearInv, NEW q \in Requests, Approve(q) PROVE ClearInv'
<1> DEFINE seen(r) == [run[r] EXCEPT !.approved = @ \cup {q}]
<1>1. /\ queue' = [queue EXCEPT ![q].status = "approved"] /\ log' = log
      /\ run' = [r \in Runs |-> IF At(r, "begin") THEN run[r] ELSE seen(r)]
  BY DEF Approve
<1>2. Approved' \subseteq Approved \cup {q}
  BY <1>1 DEF PipelineInv, PipelineType, Approved
<1> SUFFICES ASSUME NEW r \in Runs
             PROVE  ClearOK(r, run'[r], log') /\ HasSeen(run'[r], Approved')
  BY DEF ClearInv
<1>3. run[r] \in RunRecords /\ ClearOK(r, run[r], log) /\ HasSeen(run[r], Approved)
  BY Running DEF ClearInv
<1>4. CASE At(r, "begin")
  <2>1. run[r].ops = <<"begin">>
    BY <1>4, Running, ShapeHeads DEF At
  <2>2. run'[r] = run[r]
    BY <1>1, <1>4
  <2> QED BY <1>1, <1>3, <2>1, <2>2 DEF HasSeen
<1>5. CASE ~At(r, "begin")
  <2>1. run'[r] = seen(r)
    BY <1>1, <1>5
  <2>2. /\ seen(r).ops = run[r].ops /\ seen(r).cmd = run[r].cmd
        /\ seen(r).policy = run[r].policy /\ seen(r).left = run[r].left
        /\ seen(r).cache = run[r].cache /\ seen(r).decision = run[r].decision
        /\ seen(r).ran = run[r].ran /\ seen(r).approved = run[r].approved \cup {q}
    BY <1>3 DEF RunRecords
  <2>3. run[r].ops # <<"begin">>
    <3>1. <<"begin">> # <<>> /\ Head(<<"begin">>) = "begin"
      OBVIOUS
    <3> HIDE DEF seen
    <3> QED BY <1>5, <3>1 DEF At
  <2> HIDE DEF seen
  <2>4. ClearOK(r, seen(r), log')
    <3>1. log \subseteq log' /\ run[r].approved \subseteq seen(r).approved
      BY <1>1, <2>2
    <3> QED BY <1>3, <2>2, <3>1, ClearLater
  <2>5. HasSeen(seen(r), Approved')
    BY <1>2, <1>3, <2>2, <2>3 DEF HasSeen
  <2> QED BY <2>1, <2>4, <2>5
<1> QED BY <1>4, <1>5

LEMMA NoRunClears ==
    ASSUME PipelineInv, ClearInv, run' = run, log' = log, Approved' \subseteq Approved
    PROVE  ClearInv'
  BY DEF ClearInv, HasSeen

LEMMA ClearNext ==
    ASSUME FirmPolicies, PipelineInv, ClearInv, [Next]_vars PROVE ClearInv'
<1>1. ASSUME NEW r \in Runs, RunStep(r) PROVE ClearInv'
  <2>1. ASSUME NEW cmd \in Commands, Begin(r, cmd) PROVE ClearInv'
    BY <2>1, BeginClears
  <2>2. CASE Judge(r)
    BY <2>2, JudgeClears
  <2>3. CASE Log(r)
    BY <2>3, LogClears
  <2>4. CASE Queue(r) \/ Move(r) \/ Stop(r) \/ Answer(r)
    BY <2>4, RefusalClears
  <2>5. CASE NextAction(r)
    BY <2>5, NextActionClears
  <2>6. CASE LaunchGateway(r) \/ NoConfinement(r) \/ LaunchConfined(r) \/ LaunchBare(r) \/ LogLaunch(r)
    BY <2>6, LaunchClears
  <2> QED BY <1>1, <2>1, <2>2, <2>3, <2>4, <2>5, <2>6 DEF RunStep
<1>2. ASSUME NEW p \in SomePolicies, SetPolicy(p) PROVE ClearInv'
  <2>1. run' = run /\ log' = log /\ queue' = queue
    BY <1>2 DEF SetPolicy
  <2> QED BY <2>1, NoRunClears DEF Approved
<1>3. ASSUME NEW q \in Requests, Approve(q) PROVE ClearInv'
  BY <1>3, ApproveClears
<1>4. ASSUME NEW q \in Requests, Lapse(q) PROVE ClearInv'
  <2>1. run' = run /\ log' = log /\ queue' = [queue EXCEPT ![q] = NotAsked]
    BY <1>4 DEF Lapse
  <2>2. Approved' \subseteq Approved
    <3>1. \A t \in Requests : queue'[t].status = "approved" => queue[t].status = "approved"
      BY <2>1 DEF PipelineInv, PipelineType, NotAsked
    <3> QED BY <3>1 DEF Approved
  <2> QED BY <2>1, <2>2, NoRunClears
<1>5. CASE UNCHANGED vars
  <2>1. run' = run /\ log' = log /\ queue' = queue
    BY <1>5 DEF vars
  <2> QED BY <2>1, NoRunClears DEF Approved
<1> QED BY <1>1, <1>2, <1>3, <1>4, <1>5 DEF Next

\* Nothing runs unless each of its actions is in the log as allowed, and is
\* allowed by itself or was approved: the zones a command's actions share
\* (policy/mod.rs:101-115) turn no denial into a launch, where policies are nowhere
\* milder with system-critical paths than with shared ones.
THEOREM LaunchAlwaysCleared == FirmPolicies => (Spec => []LaunchIsCleared)
<1> SUFFICES ASSUME FirmPolicies PROVE Spec => []LaunchIsCleared
  OBVIOUS
<1>1. PipelineInv /\ ClearInv /\ [Next]_vars => ClearInv'
  BY ClearNext
<1>2. PipelineInv /\ ClearInv => LaunchIsCleared
  <2> SUFFICES ASSUME PipelineInv, ClearInv, NEW r \in Runs, run[r].ran # <<>>,
                      NEW req \in Range(Actions(run[r].cmd))
               PROVE  /\ [run |-> r, label |-> "decision", req |-> req, verdict |-> "Allow"] \in log
                      /\ \/ OnItsOwn(r, req) = "Allow"
                         \/ OnItsOwn(r, req) = "RequireApproval" /\ req \in run[r].approved
    BY DEF LaunchIsCleared
  <2>1. run[r].cmd.form # "tool" /\ run[r].ops # <<"begin">>
    BY Running DEF RunOK, LaunchOK, JudgingOK
  <2>2. PICK i \in DOMAIN Actions(run[r].cmd) : req = Actions(run[r].cmd)[i]
    BY DEF Range
  <2>3. Cleared(r, run[r], log, req)
    BY <2>1, <2>2 DEF ClearInv, ClearOK
  <2> QED BY <2>3 DEF Cleared, Granted, OnItsOwn
<1> QED BY <1>1, <1>2, ClearInit, PipelineAlways, PTL DEF Spec
-----------------------------------------------------------------------------
\* The sessions.
\* No key is cut.
ShortKeys == \A k \in Keys : Clip[k] = k

ThreadsOnce(list) ==
    \A i, j \in Ids :
        /\ list[i] # NoSession /\ list[j] # NoSession
        /\ list[i].thread = list[j].thread
        /\ list[i].thread # None
        => i = j

KeysOnce(list) ==
    \A i, j \in Ids :
        /\ list[i] # NoSession /\ list[j] # NoSession
        /\ list[i].kind = list[j].kind
        /\ list[i].key = list[j].key
        /\ list[i].key # None
        => i = j

Findable(list) ==
    \A i \in Ids : list[i] # NoSession => list[i].key # None \/ list[i].thread # None

ListInv(list) ==
    /\ list \in Lists
    /\ Findable(list)
    /\ ThreadsOnce(list)
    /\ ShortKeys => KeysOnce(list)

TextInv(text) == text \in Contents /\ ListInv(text.list)

Handles == {None, "temp", "file", "replaced"}

\* A caller about to write has a file open.
HandlesInv == \A c \in Callers : step[c] = "write" => handle[c] # None

SessionInv ==
    /\ now \in 0 .. MaxTime
    /\ TextInv(file) /\ TextInv(temp)
    /\ step \in [Callers -> {"idle", "open", "write", "rename"}]
    /\ handle \in [Callers -> Handles]
    /\ HandlesInv
    /\ view \in [Callers -> Lists]
    /\ \A c \in Callers : ListInv(view[c])

-----------------------------------------------------------------------------
(* Lists and texts.                                                        *)

LEMMA EmptyListInv == ListInv(EmptyList)
BY DEF ListInv, EmptyList, Lists, Findable, ThreadsOnce, KeysOnce

LEMMA RecordIsSession ==
  ASSUME NEW list \in Lists, NEW i \in Ids, list[i] # NoSession
  PROVE  list[i] \in Record
BY DEF Lists

\* One session may be replaced or added if nobody else has its thread or key.
LEMMA ReplaceOne ==
  ASSUME NEW list, ListInv(list), NEW i \in Ids, NEW r \in Record,
         r.key # None \/ r.thread # None,
         r.thread # None =>
            \A j \in Ids \ {i} : list[j] # NoSession => list[j].thread # r.thread,
         ShortKeys /\ r.key # None =>
            \A j \in Ids \ {i} : list[j] # NoSession =>
                ~(list[j].kind = r.kind /\ list[j].key = r.key)
  PROVE  ListInv([list EXCEPT ![i] = r])
<1> DEFINE new == [list EXCEPT ![i] = r]
<1>1. /\ new \in Lists
      /\ new[i] = r
      /\ \A j \in Ids \ {i} : new[j] = list[j]
  BY DEF ListInv, Lists
<1> HIDE DEF new
<1>2. Findable(new)
  BY <1>1 DEF ListInv, Findable
<1>3. ThreadsOnce(new)
  BY <1>1 DEF ListInv, ThreadsOnce
<1>4. ShortKeys => KeysOnce(new)
  BY <1>1 DEF ListInv, KeysOnce
<1> QED
  BY <1>1, <1>2, <1>3, <1>4 DEF ListInv, new

\* What list returns of a session that is on file.
LEMMA LoadedFields ==
  ASSUME TextInv(file), NEW i \in Ids
  PROVE  \/ file.list[i] = NoSession /\ Loaded[i] = NoSession
         \/ /\ file.list[i] # NoSession
            /\ file.list[i] \in Record /\ Loaded[i] \in Record
            /\ Loaded[i].kind = file.list[i].kind
            /\ Loaded[i].thread = file.list[i].thread
            /\ Loaded[i].key = None <=> file.list[i].key = None
            /\ ShortKeys => Loaded[i].key = file.list[i].key
<1> DEFINE old == file.list
<1>i. ListInv(old)
  BY DEF TextInv
<1>1. Loaded[i] = IF old[i] # NoSession /\ old[i].key # None
                  THEN [old[i] EXCEPT !.key = Clip[@]]
                  ELSE old[i]
  BY DEF Loaded, old
<1> HIDE DEF old
<1>2. CASE old[i] = NoSession
  BY <1>1, <1>2 DEF old
<1>3. CASE old[i] # NoSession /\ old[i].key = None
  <2>1. old[i] \in Record
    BY <1>i, <1>3, RecordIsSession DEF ListInv
  <2> QED
    BY <1>1, <1>3, <2>1 DEF old
<1>4. CASE old[i] # NoSession /\ old[i].key # None
  <2>1. old[i] \in Record
    BY <1>i, <1>4, RecordIsSession DEF ListInv
  <2>2. old[i].key \in Keys
    BY <1>4, <2>1 DEF Record
  <2>3. Clip[old[i].key] \in Keys /\ Clip[old[i].key] # None
    BY <2>2, SessionAssumption DEF None
  <2>4. Loaded[i] = [old[i] EXCEPT !.key = Clip[old[i].key]]
    BY <1>1, <1>4
  <2>5. /\ Loaded[i] \in Record
        /\ Loaded[i].kind = old[i].kind
        /\ Loaded[i].thread = old[i].thread
        /\ Loaded[i].key = Clip[old[i].key]
    BY <2>1, <2>3, <2>4 DEF Record
  <2> QED
    BY <1>4, <2>1, <2>2, <2>3, <2>5 DEF ShortKeys, old
<1> QED
  BY <1>2, <1>3, <1>4 DEF old

\* What list returns is as good as what is on file.
LEMMA LoadedInv ==
  ASSUME TextInv(file)
  PROVE  ListInv(Loaded)
<1> DEFINE old == file.list
<1>1. ListInv(old)
  BY DEF TextInv
<1>2. ASSUME NEW i \in Ids
      PROVE  \/ old[i] = NoSession /\ Loaded[i] = NoSession
             \/ /\ old[i] # NoSession /\ old[i] \in Record /\ Loaded[i] \in Record
                /\ Loaded[i].kind = old[i].kind
                /\ Loaded[i].thread = old[i].thread
                /\ Loaded[i].key = None <=> old[i].key = None
                /\ ShortKeys => Loaded[i].key = old[i].key
  BY LoadedFields
<1> HIDE DEF old
<1>3. Loaded \in Lists
  <2>1. Loaded = [i \in Ids |-> Loaded[i]]
    BY DEF Loaded
  <2> QED
    BY <1>2, <2>1 DEF Lists
<1>4. Findable(Loaded)
  BY <1>1, <1>2 DEF ListInv, Findable
<1>5. ThreadsOnce(Loaded)
  <2> SUFFICES ASSUME NEW i \in Ids, NEW j \in Ids,
                      Loaded[i] # NoSession, Loaded[j] # NoSession,
                      Loaded[i].thread = Loaded[j].thread, Loaded[i].thread # None
               PROVE  i = j
    BY DEF ThreadsOnce
  <2>1. old[i] # NoSession /\ old[j] # NoSession
          /\ old[i].thread = old[j].thread /\ old[i].thread # None
    BY <1>2
  <2> QED
    BY <1>1, <2>1 DEF ListInv, ThreadsOnce
<1>6. ASSUME ShortKeys PROVE KeysOnce(Loaded)
  <2> SUFFICES ASSUME NEW i \in Ids, NEW j \in Ids,
                      Loaded[i] # NoSession, Loaded[j] # NoSession,
                      Loaded[i].kind = Loaded[j].kind,
                      Loaded[i].key = Loaded[j].key, Loaded[i].key # None
               PROVE  i = j
    BY DEF KeysOnce
  <2>1. old[i] # NoSession /\ old[j] # NoSession /\ old[i].kind = old[j].kind
          /\ old[i].key = old[j].key /\ old[i].key # None
    BY <1>2, <1>6
  <2> QED
    BY <1>1, <1>6, <2>1 DEF ListInv, KeysOnce
<1> QED
  BY <1>3, <1>4, <1>5, <1>6 DEF ListInv

LEMMA UnparsedInv == TextInv(Blank) /\ TextInv(Torn) /\ TextInv(Absent)
<1>1. /\ Blank \in Contents /\ Torn \in Contents /\ Absent \in Contents
      /\ Blank.list = EmptyList /\ Torn.list = EmptyList /\ Absent.list = EmptyList
  BY DEF Contents, Blank, Torn, Absent, Unparsed
<1> QED
  BY <1>1, EmptyListInv DEF TextInv

LEMMA OverInv ==
  ASSUME NEW content, NEW list, ListInv(list), NEW text \in Over(content, list)
  PROVE  TextInv(text)
<1>1. text = Whole(list) \/ text = Torn
  BY DEF Over
<1>2. CASE text = Whole(list)
  BY <1>2 DEF Whole, TextInv, Contents, ListInv
<1> QED
  BY <1>1, <1>2, UnparsedInv

-----------------------------------------------------------------------------
(* The steps.                                                              *)

LEMMA InitInv == SessionInit => SessionInv
<1> SUFFICES ASSUME SessionInit PROVE SessionInv
  OBVIOUS
<1>1. now \in 0 .. MaxTime
  BY SessionAssumption DEF SessionInit
<1>2. TextInv(file) /\ TextInv(temp)
  BY UnparsedInv DEF SessionInit
<1>3. /\ step \in [Callers -> {"idle", "open", "write", "rename"}]
      /\ handle \in [Callers -> Handles]
      /\ HandlesInv
  BY DEF SessionInit, Handles, HandlesInv
<1>4. view \in [Callers -> Lists] /\ \A c \in Callers : ListInv(view[c])
  BY EmptyListInv DEF SessionInit, ListInv
<1> QED
  BY <1>1, <1>2, <1>3, <1>4 DEF SessionInv

\* An operation that computed a list as good as the one it read.
LEMMA ComputedStep ==
  ASSUME SessionInv, NEW c \in Callers, NEW list, ListInv(list), NEW a,
         Computed(c, list, a)
  PROVE  SessionInv'
<1> USE DEF SessionInv, Computed
<1>1. list \in Lists
  BY DEF ListInv
<1>2. view' \in [Callers -> Lists] /\ \A d \in Callers : ListInv(view'[d])
  BY <1>1
<1>3. step' \in [Callers -> {"idle", "open", "write", "rename"}] /\ HandlesInv'
  BY DEF HandlesInv
<1>4. (\A d \in Callers : ListInv(view[d]))'
  BY <1>2 DEF ListInv, Findable, ThreadsOnce, KeysOnce
<1>5. TextInv(file)' /\ TextInv(temp)'
  BY DEF TextInv
<1> QED
  BY <1>2, <1>3, <1>4, <1>5

LEMMA NowIsNat ==
  ASSUME SessionInv
  PROVE  now \in Nat
BY SessionAssumption DEF SessionInv

\* What a step may rely on of the list it has read.
LEMMA LoadedSession ==
  ASSUME SessionInv, NEW i \in Sessions(Loaded)
  PROVE  /\ i \in Ids /\ Loaded[i] # NoSession
         /\ Loaded[i] \in Record
         /\ Loaded[i].key # None \/ Loaded[i].thread # None
BY LoadedInv, RecordIsSession DEF SessionInv, Sessions, ListInv, Findable

LEMMA TouchStep ==
  ASSUME SessionInv, NEW c \in Callers, NEW kind \in Runners, NEW key \in Keys,
         Touch(c, kind, key)
  PROVE  SessionInv'
<1>1. ListInv(Loaded)
  BY LoadedInv DEF SessionInv
<1>2. now \in Nat
  BY NowIsNat
<1>3. ASSUME NEW i \in Latest(OfKey(kind, key)),
             Computed(c, [Loaded EXCEPT ![i].active = now], NoAnswer)
      PROVE  SessionInv'
  <2> DEFINE r == [Loaded[i] EXCEPT !.active = now]
  <2>1. i \in Sessions(Loaded)
    BY DEF Latest, OfKey
  <2>2. /\ i \in Ids /\ Loaded[i] # NoSession /\ Loaded[i] \in Record
        /\ Loaded[i].key # None \/ Loaded[i].thread # None
    BY <2>1, LoadedSession
  <2>3. /\ r \in Record /\ r.kind = Loaded[i].kind /\ r.key = Loaded[i].key
        /\ r.thread = Loaded[i].thread
    BY <1>2, <2>2 DEF Record
  <2>4. [Loaded EXCEPT ![i].active = now] = [Loaded EXCEPT ![i] = r]
    OBVIOUS
  <2> HIDE DEF r
  <2>5. r.thread # None => \A j \in Ids \ {i} : Loaded[j] # NoSession => Loaded[j].thread # r.thread
    BY <1>1, <2>2, <2>3 DEF ListInv, ThreadsOnce
  <2>6. ShortKeys /\ r.key # None =>
          \A j \in Ids \ {i} : Loaded[j] # NoSession =>
             ~(Loaded[j].kind = r.kind /\ Loaded[j].key = r.key)
    BY <1>1, <2>2, <2>3 DEF ListInv, KeysOnce
  <2>7. ListInv([Loaded EXCEPT ![i] = r])
    BY <1>1, <2>2, <2>3, <2>5, <2>6, ReplaceOne
  <2> QED
    BY <1>3, <2>4, <2>7, ComputedStep
<1>4. ASSUME OfKey(kind, key) = {}, NEW i \in Ids,
             Computed(c, [Loaded EXCEPT ![i] =
                [kind |-> kind, key |-> key, thread |-> None, active |-> now]], NoAnswer)
      PROVE  SessionInv'
  <2> DEFINE r == [kind |-> kind, key |-> key, thread |-> None, active |-> now]
  <2>1. r \in Record /\ r.kind = kind /\ r.key = key /\ r.thread = None
    BY <1>2 DEF Record
  <2>2. r.key # None
    BY <2>1, SessionAssumption DEF None
  <2>3. \A j \in Ids \ {i} : Loaded[j] # NoSession =>
           ~(Loaded[j].kind = r.kind /\ Loaded[j].key = r.key)
    BY <1>4, <2>1 DEF OfKey, Sessions
  <2>4. Computed(c, [Loaded EXCEPT ![i] = r], NoAnswer)
    BY <1>4
  <2> HIDE DEF r
  <2>5. ListInv([Loaded EXCEPT ![i] = r])
    BY <1>1, <2>1, <2>2, <2>3, ReplaceOne
  <2> QED
    BY <2>4, <2>5, ComputedStep
<1> QED
  BY <1>3, <1>4 DEF Touch, NewSession

LEMMA BindStep ==
  ASSUME SessionInv, NEW c \in Callers, NEW i \in Ids, NEW key \in Keys,
         Bind(c, i, key)
  PROVE  SessionInv'
<1> DEFINE r == [Loaded[i] EXCEPT !.key = key, !.active = now]
<1>1. ListInv(Loaded)
  BY LoadedInv DEF SessionInv
<1>2. now \in Nat
  BY NowIsNat
<1>3. Loaded[i] # NoSession /\ Loaded[i] \in Record
  BY LoadedSession DEF Bind
<1>4. /\ r \in Record /\ r.kind = Loaded[i].kind /\ r.key = key
      /\ r.thread = Loaded[i].thread
  BY <1>2, <1>3 DEF Record
<1>5. Computed(c, [Loaded EXCEPT ![i] = r], NoAnswer)
  <2>1. [Loaded EXCEPT ![i].key = key, ![i].active = now] = [Loaded EXCEPT ![i] = r]
    BY <1>1, <1>3 DEF ListInv, Lists, Record
  <2> QED
    BY <2>1 DEF Bind
<1>6. OfKey(Loaded[i].kind, key) \subseteq {i}
  BY DEF Bind
<1> HIDE DEF r
<1>7. r.key # None
  BY <1>4, SessionAssumption DEF None
<1>8. r.thread # None => \A j \in Ids \ {i} : Loaded[j] # NoSession => Loaded[j].thread # r.thread
  BY <1>1, <1>3, <1>4 DEF ListInv, ThreadsOnce
<1>9. \A j \in Ids \ {i} : Loaded[j] # NoSession =>
         ~(Loaded[j].kind = r.kind /\ Loaded[j].key = r.key)
  BY <1>4, <1>6 DEF OfKey, Sessions
<1>10. ListInv([Loaded EXCEPT ![i] = r])
  BY <1>1, <1>4, <1>7, <1>8, <1>9, ReplaceOne
<1> QED
  BY <1>5, <1>10, ComputedStep

\* The session i may get the thread if nobody else has it.
LEMMA AttachStep ==
  ASSUME SessionInv, NEW c \in Callers, NEW kind \in Runners, NEW thread \in Threads,
         NEW i \in Sessions(Loaded), Attach(c, kind, thread, i),
         OfThread(kind, thread) \subseteq {i}
  PROVE  SessionInv'
<1> DEFINE r == [Loaded[i] EXCEPT !.thread = thread, !.active = now]
           a == [thread |-> thread, id |-> i]
<1>1. ListInv(Loaded)
  BY LoadedInv DEF SessionInv
<1>2. now \in Nat
  BY NowIsNat
<1>3. i \in Ids /\ Loaded[i] # NoSession /\ Loaded[i] \in Record
  BY LoadedSession
<1>4. /\ r \in Record /\ r.kind = Loaded[i].kind /\ r.key = Loaded[i].key
      /\ r.thread = thread
  BY <1>2, <1>3 DEF Record
<1>5. Computed(c, [Loaded EXCEPT ![i] = r], a)
  <2>1. [Loaded EXCEPT ![i].thread = thread, ![i].active = now] = [Loaded EXCEPT ![i] = r]
    BY <1>1, <1>3 DEF ListInv, Lists, Record
  <2> QED
    BY <2>1 DEF Attach
<1> HIDE DEF r
<1>6. r.thread # None
  BY <1>4, SessionAssumption DEF None
<1>7. \A j \in Ids \ {i} : Loaded[j] # NoSession => Loaded[j].thread # r.thread
  BY <1>4 DEF OfThread, Sessions
<1>8. ShortKeys /\ r.key # None =>
        \A j \in Ids \ {i} : Loaded[j] # NoSession =>
           ~(Loaded[j].kind = r.kind /\ Loaded[j].key = r.key)
  BY <1>1, <1>3, <1>4 DEF ListInv, KeysOnce
<1>9. ListInv([Loaded EXCEPT ![i] = r])
  BY <1>1, <1>3, <1>4, <1>6, <1>7, <1>8, ReplaceOne
<1> QED
  BY <1>5, <1>9, ComputedStep

LEMMA CreateStep ==
  ASSUME SessionInv, NEW c \in Callers, NEW kind \in Runners, NEW thread \in Threads,
         CreateFor(c, kind, thread), OfThread(kind, thread) = {}
  PROVE  SessionInv'
<1> DEFINE r == [kind |-> kind, key |-> None, thread |-> thread, active |-> now]
<1>1. ListInv(Loaded)
  BY LoadedInv DEF SessionInv
<1>2. r \in Record /\ r.key = None /\ r.thread = thread
  BY NowIsNat DEF Record
<1>3. r.thread # None
  BY <1>2, SessionAssumption DEF None
<1>4. PICK i \in Ids : Computed(c, [Loaded EXCEPT ![i] = r], [thread |-> thread, id |-> i])
  BY DEF CreateFor, NewSession
<1> HIDE DEF r
<1>5. \A j \in Ids \ {i} : Loaded[j] # NoSession => Loaded[j].thread # r.thread
  BY <1>2 DEF OfThread, Sessions
<1>6. ListInv([Loaded EXCEPT ![i] = r])
  BY <1>1, <1>2, <1>3, <1>5, ReplaceOne
<1> QED
  BY <1>4, <1>6, ComputedStep

LEMMA ResolveStep ==
  ASSUME SessionInv, NEW c \in Callers, NEW kind \in Runners, NEW thread \in Threads,
         Resolve(c, kind, thread)
  PROVE  SessionInv'
<1>1. CASE OfThread(kind, thread) # {}
  <2>1. PICK i \in Latest(OfThread(kind, thread)) : Attach(c, kind, thread, i)
    BY <1>1 DEF Resolve
  <2>2. i \in OfThread(kind, thread) /\ i \in Sessions(Loaded)
    BY DEF Latest, OfThread
  <2>3. thread # None
    BY SessionAssumption DEF None
  <2>4. OfThread(kind, thread) \subseteq {i}
    BY <2>2, <2>3, LoadedInv DEF SessionInv, ListInv, ThreadsOnce, OfThread, Sessions
  <2> QED
    BY <2>1, <2>2, <2>4, AttachStep
<1>2. CASE OfThread(kind, thread) = {}
  <2>1. \/ \E i \in Sessions(Loaded) : Attach(c, kind, thread, i)
        \/ CreateFor(c, kind, thread)
    BY <1>2 DEF Resolve, Latest, OfKey, Bindable
  <2> QED
    BY <1>2, <2>1, AttachStep, CreateStep
<1> QED
  BY <1>1, <1>2

LEMMA FileStep ==
  ASSUME SessionInv, NEW c \in Callers,
         Open(c) \/ Write(c) \/ Rename(c) \/ RenameFails(c) \/ EndsEarly(c)
  PROVE  SessionInv'
<1> USE DEF SessionInv
<1>1. CASE Open(c)
  <2>1. TextInv(file)' /\ TextInv(temp)'
    BY <1>1, UnparsedInv DEF Open, TextInv, Contents
  <2> QED
    BY <1>1, <2>1 DEF Open, HandlesInv, Handles, None
<1>2. CASE Write(c)
  <2>1. handle[c] \in {"temp", "file", "replaced"}
    BY <1>2 DEF Write, HandlesInv, Handles
  <2>2. \/ temp' \in Over(temp, view[c]) /\ UNCHANGED file
        \/ file' \in Over(file, view[c]) /\ UNCHANGED temp
        \/ UNCHANGED <<file, temp>>
    BY <1>2, <2>1 DEF Write
  <2>3. TextInv(file') /\ TextInv(temp')
    BY <2>2, OverInv
  <2>4. /\ step' \in [Callers -> {"idle", "open", "write", "rename"}]
        /\ handle' \in [Callers -> Handles]
        /\ HandlesInv'
    BY <1>2 DEF Write, HandlesInv, Handles
  <2> QED
    BY <1>2, <2>3, <2>4 DEF Write
<1>3. ASSUME Return(c)
      PROVE  /\ step' \in [Callers -> {"idle", "open", "write", "rename"}]
             /\ \A d \in Callers : step'[d] = "write" => d # c /\ step[d] = "write"
             /\ view' \in [Callers -> Lists]
             /\ \A d \in Callers : ListInv(view'[d])
  BY <1>3, EmptyListInv DEF Return, ListInv
<1>4. CASE Rename(c)
  <2>1. TextInv(file') /\ TextInv(temp')
    BY <1>4, UnparsedInv DEF Rename
  <2>2. handle' \in [Callers -> Handles] /\ HandlesInv'
    BY <1>3, <1>4 DEF Rename, HandlesInv, Handles, None
  <2> QED
    BY <1>3, <1>4, <2>1, <2>2 DEF Rename
<1>5. CASE RenameFails(c)
  <2>1. HandlesInv'
    BY <1>3, <1>5 DEF RenameFails, HandlesInv
  <2> QED
    BY <1>3, <1>5, <2>1 DEF RenameFails
<1>6. CASE EndsEarly(c)
  <2>1. handle' \in [Callers -> Handles] /\ HandlesInv'
    BY <1>3, <1>6 DEF EndsEarly, HandlesInv, Handles
  <2> QED
    BY <1>3, <1>6, <2>1 DEF EndsEarly
<1> QED
  BY <1>1, <1>2, <1>4, <1>5, <1>6

LEMMA StepInv == SessionInv /\ [SessionNext]_sessionVars => SessionInv'
<1> SUFFICES ASSUME SessionInv, [SessionNext]_sessionVars PROVE SessionInv'
  OBVIOUS
<1>1. CASE Tick
  BY <1>1, SessionAssumption DEF Tick, SessionInv, HandlesInv
<1>2. ASSUME NEW c \in Callers, CallerStep(c)
      PROVE  SessionInv'
  BY <1>2, TouchStep, BindStep, ResolveStep, FileStep DEF CallerStep
<1>3. CASE UNCHANGED sessionVars
  BY <1>3 DEF sessionVars, SessionInv, HandlesInv
<1> QED
  BY <1>1, <1>2, <1>3 DEF SessionNext

LEMMA InvInvariant == SessionSpec => []SessionInv
BY InitInv, StepInv, PTL DEF SessionSpec

-----------------------------------------------------------------------------
\* The state keeps its shape, and nobody's session is never on file, however
\* many handlers write however.
THEOREM SessionsTypeCorrect == SessionSpec => []SessionTypeOK
<1>1. SessionInv => SessionTypeOK
  <2> SUFFICES ASSUME SessionInv PROVE SessionTypeOK
    OBVIOUS
  <2>1. \A i \in Sessions(Loaded) : Loaded[i].key # None \/ Loaded[i].thread # None
    BY LoadedSession
  <2> QED
    BY <2>1 DEF SessionInv, SessionTypeOK, TextInv, Handles
<1> QED
  BY <1>1, InvInvariant, PTL

\* However handlers overlap and tear each other's files, no file gives two
\* sessions one Telegram thread (sessions.rs:487-513).
THEOREM ThreadUniqueness == SessionSpec => []ThreadBoundOnce
<1>1. SessionInv => ThreadBoundOnce
  BY LoadedInv DEF SessionInv, ListInv, ThreadsOnce, ThreadBoundOnce, Sessions
<1> QED
  BY <1>1, InvInvariant, PTL

\* Nor do two sessions of a runner have one key, if list never cuts a key.
THEOREM KeyUniqueness == ShortKeys => (SessionSpec => []KeyBoundOnce)
<1> SUFFICES ASSUME ShortKeys PROVE SessionSpec => []KeyBoundOnce
  OBVIOUS
<1>1. SessionInv => KeyBoundOnce
  BY LoadedInv DEF SessionInv, ListInv, KeysOnce, KeyBoundOnce, Sessions
<1> QED
  BY <1>1, InvInvariant, PTL

\* Both: no sessions.json ever binds a thread or a key of a runner twice.
THEOREM BindingsAreUnique == ShortKeys => (SessionSpec => []BoundOnce)
<1>1. ThreadBoundOnce /\ KeyBoundOnce => BoundOnce
  BY DEF BoundOnce
<1> QED BY <1>1, ThreadUniqueness, KeyUniqueness, PTL

-----------------------------------------------------------------------------
(***************************************************************************)
(* Handlers that take turns, and may die.  The list in memory keeps every  *)
(* thread of the file with its session, and nobody else writes json.tmp    *)
(* between its opening and its renaming, so a thread once said to be a     *)
(* session stays that session.                                             *)
(***************************************************************************)
OneInFlight == \A c, d \in Callers : step[c] # "idle" /\ step[d] # "idle" => c = d

\* List g has every bound session of list f, with its thread.
Inherits(f, g) ==
    \A i \in Ids : f[i] # NoSession /\ f[i].thread # None =>
        g[i] # NoSession /\ g[i].thread = f[i].thread

\* What was said is what a list has.
Honours(list, said) ==
    \A a \in said : /\ a.id \in Ids /\ a.thread \in Threads
                    /\ list[a.id] # NoSession /\ list[a.id].thread = a.thread

Said == [thread : Threads, id : Ids]

Answers(a, list) == a = NoAnswer \/ (a \in Said /\ Honours(list, {a}))

ViewOK(c) ==
    step[c] # "idle" =>
        /\ Inherits(file.list, view[c])
        /\ Sessions(view[c]) \subseteq minted
        /\ Answers(answer[c], view[c])

TempOK(c) ==
    /\ step[c] = "write" => temp = Blank /\ handle[c] = "temp"
    /\ step[c] = "rename" => temp = Whole(view[c])

InTurn ==
    /\ OneInFlight
    /\ Honours(file.list, handed)
    /\ Sessions(file.list) \subseteq minted
    /\ answer \in [Callers -> Said \cup {NoAnswer}]
    /\ \A c \in Callers : ViewOK(c) /\ TempOK(c)

TurnInv == ~mode.overlap => InTurn

LEMMA RecordsAreSessions == \A r \in Record : r # NoSession
BY DEF Record, NoSession

LEMMA LoadedBinds ==
  ASSUME SessionInv
  PROVE  /\ Inherits(file.list, Loaded)
         /\ Sessions(Loaded) = Sessions(file.list)
         /\ \A i \in Sessions(Loaded) : Loaded[i].thread = file.list[i].thread
BY LoadedFields, RecordsAreSessions DEF SessionInv, Inherits, Sessions

LEMMA BindsLater ==
  ASSUME NEW f, NEW g, NEW said, Inherits(f, g), Honours(f, said), None \notin Threads
  PROVE  Honours(g, said)
BY DEF Inherits, Honours

\* A handler that begins is alone, and one session it puts in the list takes
\* no thread from another.
Alone(c) == \A d \in Callers \ {c} : step[d] = "idle"

LEMMA TakesTurn ==
  ASSUME ~mode.overlap, InTurn, NEW c \in Callers, Begins(c) \/ step[c] # "idle"
  PROVE  Alone(c)
BY DEF Begins, InTurn, OneInFlight, Alone

LEMMA PutKeeps ==
  ASSUME SessionInv, NEW i \in Ids, NEW r \in Record,
         i \in Sessions(Loaded) => Loaded[i].thread \in {None, r.thread}
  PROVE  LET g == [Loaded EXCEPT ![i] = r]
         IN  /\ Inherits(file.list, g)
             /\ Sessions(g) \subseteq Sessions(file.list) \cup {i}
             /\ g[i] = r /\ r # NoSession
<1> DEFINE g == [Loaded EXCEPT ![i] = r]
<1>1. Loaded \in Lists
  BY LoadedInv DEF SessionInv, ListInv
<1>2. g[i] = r /\ \A j \in Ids \ {i} : g[j] = Loaded[j]
  BY <1>1 DEF Lists
<1>3. r # NoSession
  BY RecordsAreSessions
<1> HIDE DEF g
<1>4. Inherits(file.list, g) /\ Sessions(g) \subseteq Sessions(file.list) \cup {i}
  BY <1>2, <1>3, LoadedBinds DEF Inherits, Sessions
<1> QED
  BY <1>2, <1>3, <1>4 DEF g

LEMMA ComputedInTurn ==
  ASSUME SessionInv, InTurn, NEW c \in Callers, Alone(c), NEW list, NEW a,
         Computed(c, list, a), minted \subseteq minted',
         Inherits(file.list, list), Sessions(list) \subseteq minted', Answers(a, list)
  PROVE  InTurn'
<1>1. /\ step'[c] = "open" /\ view'[c] = list /\ answer'[c] = a
      /\ \A d \in Callers \ {c} : step'[d] = "idle"
  <2>1. /\ step \in [Callers -> {"idle", "open", "write", "rename"}] /\ view \in [Callers -> Lists]
        /\ answer \in [Callers -> Said \cup {NoAnswer}]
    BY DEF SessionInv, InTurn
  <2> QED
    BY <2>1 DEF Computed, Alone
<1>2. answer' \in [Callers -> Said \cup {NoAnswer}]
  BY DEF Computed, Answers, InTurn
<1>3. UNCHANGED <<file, temp, handle, handed>>
  BY DEF Computed
<1>4. OneInFlight'
  BY <1>1 DEF OneInFlight
<1>5. Honours(file.list, handed)' /\ Sessions(file'.list) \subseteq minted'
  BY <1>3 DEF InTurn, Honours, Sessions
<1>6. ASSUME NEW d \in Callers PROVE ViewOK(d)' /\ TempOK(d)'
  <2>1. CASE d = c
    BY <1>1, <1>3, <2>1 DEF ViewOK, TempOK, Inherits, Sessions, Answers, Honours
  <2>2. CASE d # c
    BY <1>1, <2>2 DEF ViewOK, TempOK
  <2> QED
    BY <2>1, <2>2
<1> QED
  BY <1>2, <1>4, <1>5, <1>6 DEF InTurn

\* A session put in the list that was free to take its thread.
LEMMA PutInTurn ==
  ASSUME SessionInv, InTurn, NEW c \in Callers, Alone(c), NEW i \in Ids, NEW r \in Record,
         i \in Sessions(Loaded) => Loaded[i].thread \in {None, r.thread},
         NEW a, a = NoAnswer \/ (a = [thread |-> r.thread, id |-> i] /\ r.thread \in Threads),
         Computed(c, [Loaded EXCEPT ![i] = r], a),
         \/ UNCHANGED minted /\ i \in Sessions(Loaded)
         \/ minted' = minted \cup {i}
  PROVE  InTurn'
<1> DEFINE g == [Loaded EXCEPT ![i] = r]
<1>1. /\ Inherits(file.list, g)
      /\ Sessions(g) \subseteq Sessions(file.list) \cup {i}
      /\ g[i] = r /\ r # NoSession
  BY PutKeeps
<1>2. Computed(c, g, a)
  OBVIOUS
<1> HIDE DEF g
<1>3. Sessions(file.list) \subseteq minted /\ Sessions(Loaded) = Sessions(file.list)
  BY LoadedBinds DEF InTurn
<1>4. minted \subseteq minted' /\ Sessions(g) \subseteq minted'
  BY <1>1, <1>3
<1>5. Answers(a, g)
  BY <1>1 DEF Answers, Said, Honours
<1> QED
  BY <1>1, <1>2, <1>4, <1>5, ComputedInTurn

LEMMA TouchInTurn ==
  ASSUME SessionInv, InTurn, ~mode.overlap, NEW c \in Callers,
         NEW kind \in Runners, NEW key \in Keys, Touch(c, kind, key)
  PROVE  InTurn'
<1>1. Alone(c) /\ now \in Nat
  BY TakesTurn, NowIsNat DEF Touch
<1>2. ASSUME NEW i \in Latest(OfKey(kind, key)), UNCHANGED minted,
             Computed(c, [Loaded EXCEPT ![i].active = now], NoAnswer)
      PROVE  InTurn'
  <2> DEFINE r == [Loaded[i] EXCEPT !.active = now]
  <2>1. i \in Sessions(Loaded)
    BY DEF Latest, OfKey
  <2>2. i \in Ids /\ Loaded[i] \in Record
    BY <2>1, LoadedSession
  <2>3. r \in Record /\ r.thread = Loaded[i].thread
    BY <1>1, <2>2 DEF Record
  <2>4. Computed(c, [Loaded EXCEPT ![i] = r], NoAnswer)
    BY <1>2
  <2> HIDE DEF r
  <2> QED
    BY <1>1, <1>2, <2>1, <2>2, <2>3, <2>4, PutInTurn
<1>3. ASSUME NEW i \in Ids, minted' = minted \cup {i}, i \notin minted,
             Computed(c, [Loaded EXCEPT ![i] =
                [kind |-> kind, key |-> key, thread |-> None, active |-> now]], NoAnswer)
      PROVE  InTurn'
  <2> DEFINE r == [kind |-> kind, key |-> key, thread |-> None, active |-> now]
  <2>1. r \in Record
    BY <1>1 DEF Record
  <2>2. i \notin Sessions(Loaded)
    BY <1>3, LoadedBinds DEF InTurn
  <2>3. Computed(c, [Loaded EXCEPT ![i] = r], NoAnswer)
    BY <1>3
  <2> HIDE DEF r
  <2> QED
    BY <1>1, <1>3, <2>1, <2>2, <2>3, PutInTurn
<1> QED
  BY <1>2, <1>3 DEF Touch, NewSession

LEMMA BindInTurn ==
  ASSUME SessionInv, InTurn, ~mode.overlap, NEW c \in Callers,
         NEW i \in Ids, NEW key \in Keys, Bind(c, i, key)
  PROVE  InTurn'
<1> DEFINE r == [Loaded[i] EXCEPT !.key = key, !.active = now]
<1>1. Alone(c) /\ now \in Nat /\ UNCHANGED minted /\ i \in Sessions(Loaded)
  BY TakesTurn, NowIsNat DEF Bind
<1>2. Loaded[i] \in Record
  BY <1>1, LoadedSession
<1>3. r \in Record /\ r.thread = Loaded[i].thread
  BY <1>1, <1>2 DEF Record
<1>4. Computed(c, [Loaded EXCEPT ![i] = r], NoAnswer)
  <2>1. Loaded \in Lists
    BY LoadedInv DEF SessionInv, ListInv
  <2>2. [Loaded EXCEPT ![i].key = key, ![i].active = now] = [Loaded EXCEPT ![i] = r]
    BY <1>2, <2>1 DEF Lists, Record
  <2> QED
    BY <2>2 DEF Bind
<1> HIDE DEF r
<1> QED
  BY <1>1, <1>3, <1>4, PutInTurn

LEMMA ResolveInTurn ==
  ASSUME SessionInv, InTurn, ~mode.overlap, NEW c \in Callers,
         NEW kind \in Runners, NEW thread \in Threads, Resolve(c, kind, thread)
  PROVE  InTurn'
<1>1. Alone(c) /\ now \in Nat
  BY TakesTurn, NowIsNat DEF Resolve
<1>2. ASSUME NEW i \in Sessions(Loaded), Attach(c, kind, thread, i)
      PROVE  InTurn'
  <2> DEFINE r == [Loaded[i] EXCEPT !.thread = thread, !.active = now]
             a == [thread |-> thread, id |-> i]
  <2>1. i \in Ids /\ Loaded[i] \in Record /\ UNCHANGED minted
        /\ Loaded[i].thread \in {None, thread}
    BY <1>2, LoadedSession DEF Attach
  <2>2. r \in Record /\ r.thread = thread
    BY <1>1, <2>1 DEF Record
  <2>3. Computed(c, [Loaded EXCEPT ![i] = r], a)
    <3>1. Loaded \in Lists
      BY LoadedInv DEF SessionInv, ListInv
    <3>2. [Loaded EXCEPT ![i].thread = thread, ![i].active = now] = [Loaded EXCEPT ![i] = r]
      BY <2>1, <3>1 DEF Lists, Record
    <3> QED
      BY <1>2, <3>2 DEF Attach
  <2>4. a = [thread |-> r.thread, id |-> i]
    BY <2>2
  <2> HIDE DEF r, a
  <2> QED
    BY <1>1, <1>2, <2>1, <2>2, <2>3, <2>4, PutInTurn
<1>3. CASE CreateFor(c, kind, thread)
  <2> DEFINE r == [kind |-> kind, key |-> None, thread |-> thread, active |-> now]
  <2>1. PICK i \in Ids : /\ i \notin minted /\ minted' = minted \cup {i}
                         /\ Computed(c, [Loaded EXCEPT ![i] = r], [thread |-> thread, id |-> i])
    BY <1>3 DEF CreateFor, NewSession
  <2>2. r \in Record /\ r.thread = thread
    BY <1>1 DEF Record
  <2>3. i \notin Sessions(Loaded)
    BY <2>1, LoadedBinds DEF InTurn
  <2> HIDE DEF r
  <2> QED
    BY <1>1, <2>1, <2>2, <2>3, PutInTurn
<1> QED
  BY <1>2, <1>3 DEF Resolve, Latest, OfThread, OfKey, Bindable

\* Opening, writing and renaming json.tmp, and dying.
LEMMA FileInTurn ==
  ASSUME SessionInv, InTurn, ~mode.overlap, NEW c \in Callers,
         Open(c) \/ Write(c) \/ Rename(c) \/ RenameFails(c) \/ EndsEarly(c)
  PROVE  InTurn'
<1>t. /\ step \in [Callers -> {"idle", "open", "write", "rename"}]
      /\ view \in [Callers -> Lists] /\ handle \in [Callers -> Handles]
      /\ answer \in [Callers -> Said \cup {NoAnswer}]
      /\ ViewOK(c) /\ TempOK(c)
      /\ Honours(file.list, handed) /\ Sessions(file.list) \subseteq minted
  BY DEF SessionInv, InTurn
<1>a. Alone(c)
  BY TakesTurn DEF Open, Write, Rename, RenameFails, EndsEarly
<1>1. CASE Open(c) \/ Write(c)
  <2>1. /\ UNCHANGED <<view, answer, minted, handed>>
        /\ \A d \in Callers \ {c} : step'[d] = "idle"
        /\ step[c] # "idle"
    BY <1>1, <1>t, <1>a DEF Open, Write, Alone
  <2>2. UNCHANGED file /\ TempOK(c)'
    <3>1. CASE Open(c)
      BY <1>t, <3>1 DEF Open, TempOK
    <3>2. CASE Write(c)
      <4>1. temp = Blank /\ handle[c] = "temp" /\ step'[c] = "rename"
        BY <1>t, <3>2 DEF Write, TempOK
      <4>2. UNCHANGED file /\ temp' \in Over(temp, view[c])
        BY <3>2, <4>1 DEF Write
      <4>3. temp' = Whole(view[c])
        BY <4>1, <4>2 DEF Over
      <4> QED
        BY <2>1, <4>1, <4>2, <4>3 DEF TempOK
    <3> QED
      BY <1>1, <3>1, <3>2
  <2>3. ViewOK(c)'
    BY <1>t, <2>1, <2>2 DEF ViewOK, Inherits, Sessions, Answers, Honours
  <2>4. \A d \in Callers \ {c} : ViewOK(d)' /\ TempOK(d)'
    BY <2>1 DEF ViewOK, TempOK
  <2>5. OneInFlight'
    BY <2>1 DEF OneInFlight
  <2>6. Honours(file.list, handed)' /\ (Sessions(file.list) \subseteq minted)'
    BY <1>t, <2>1, <2>2 DEF Honours, Sessions
  <2> QED
    BY <1>t, <2>1, <2>2, <2>3, <2>4, <2>5, <2>6 DEF InTurn
<1>2. ASSUME Return(c)
      PROVE  /\ \A d \in Callers : step'[d] = "idle"
             /\ answer' \in [Callers -> Said \cup {NoAnswer}]
  BY <1>2, <1>t, <1>a DEF Return, Alone
<1>3. ASSUME Return(c), UNCHANGED minted,
             Honours(file'.list, handed'), Sessions(file'.list) \subseteq minted
      PROVE  InTurn'
  <2>1. OneInFlight' /\ \A d \in Callers : ViewOK(d)' /\ TempOK(d)'
    BY <1>2, <1>3 DEF OneInFlight, ViewOK, TempOK
  <2>2. Honours(file.list, handed)' /\ (Sessions(file.list) \subseteq minted)'
    BY <1>3 DEF Honours, Sessions
  <2> QED
    BY <1>2, <1>3, <2>1, <2>2 DEF InTurn
<1>4. CASE Rename(c)
  <2>1. step[c] = "rename" /\ file' = temp /\ UNCHANGED minted /\ Return(c)
        /\ handed' = IF answer[c] = NoAnswer THEN handed ELSE handed \cup {answer[c]}
    BY <1>4 DEF Rename
  <2>2. file'.list = view[c]
    BY <1>t, <2>1 DEF TempOK, Whole
  <2>3. Inherits(file.list, view[c]) /\ Sessions(view[c]) \subseteq minted /\ Answers(answer[c], view[c])
    BY <1>t, <2>1 DEF ViewOK
  <2>4. Honours(view[c], handed)
    BY <1>t, <2>3, BindsLater, SessionAssumption DEF None
  <2>5. Honours(view[c], handed')
    BY <2>1, <2>3, <2>4 DEF Answers, Honours
  <2> QED
    BY <1>3, <2>1, <2>2, <2>3, <2>5
<1>5. CASE RenameFails(c) \/ EndsEarly(c)
  BY <1>3, <1>5, <1>t DEF RenameFails, EndsEarly
<1> QED
  BY <1>1, <1>4, <1>5

LEMMA InitInTurn == SessionInit => InTurn
<1> SUFFICES ASSUME SessionInit PROVE InTurn
  OBVIOUS
<1>1. Sessions(file.list) = {}
  BY DEF SessionInit, Absent, Unparsed, Sessions, EmptyList
<1> QED
  BY <1>1 DEF SessionInit, InTurn, OneInFlight, Honours, ViewOK, TempOK

LEMMA NextInTurn == SessionInv /\ TurnInv /\ [SessionNext]_sessionVars => TurnInv'
<1> SUFFICES ASSUME SessionInv, TurnInv, [SessionNext]_sessionVars, ~mode'.overlap PROVE InTurn'
  BY DEF TurnInv
<1>0. ~mode.overlap /\ InTurn
  BY DEF SessionNext, sessionVars, TurnInv
<1>1. CASE Tick \/ UNCHANGED sessionVars
  <2>1. UNCHANGED <<file, temp, step, view, handle, answer, minted, handed>>
    BY <1>1 DEF Tick, sessionVars
  <2>2. /\ OneInFlight' <=> OneInFlight
        /\ Honours(file.list, handed)' <=> Honours(file.list, handed)
        /\ (Sessions(file.list) \subseteq minted)' <=> Sessions(file.list) \subseteq minted
    BY <2>1 DEF OneInFlight, Honours, Sessions
  <2>3. \A c \in Callers : (ViewOK(c)' <=> ViewOK(c)) /\ (TempOK(c)' <=> TempOK(c))
    BY <2>1 DEF ViewOK, TempOK, Inherits, Sessions, Answers, Honours
  <2> QED
    BY <1>0, <2>1, <2>2, <2>3 DEF InTurn
<1>2. ASSUME NEW c \in Callers, CallerStep(c)
      PROVE  InTurn'
  BY <1>0, <1>2, TouchInTurn, BindInTurn, ResolveInTurn, FileInTurn DEF CallerStep
<1> QED
  BY <1>1, <1>2 DEF SessionNext

LEMMA TurnInvariance == SessionSpec => [](SessionInv /\ TurnInv)
<1>1. SessionInit => SessionInv /\ TurnInv
  BY InitInv, InitInTurn DEF TurnInv
<1>2. SessionInv /\ TurnInv /\ [SessionNext]_sessionVars => (SessionInv /\ TurnInv)'
  BY StepInv, NextInTurn
<1> QED
  BY <1>1, <1>2, PTL DEF SessionSpec

\* The thread a handler was handed a session for keeps that session, through all
\* later calls, by hand, by tool call or by command, and through the deaths of
\* handlers that take turns (sessions.rs:469-629).
THEOREM AnswersAlwaysStand == SessionSpec => []AnswersStand
<1>1. SessionInv /\ TurnInv => AnswersStand
  <2> SUFFICES ASSUME SessionInv, InTurn, NEW a \in handed
               PROVE  Loaded[a.id] # NoSession /\ Loaded[a.id].thread = a.thread
    BY DEF TurnInv, AnswersStand
  <2>1. /\ a.id \in Ids /\ a.thread \in Threads /\ None \notin Threads
        /\ file.list[a.id] # NoSession /\ file.list[a.id].thread = a.thread
    BY SessionAssumption DEF InTurn, Honours, None
  <2> QED
    BY <2>1, LoadedBinds DEF Inherits
<1> QED
  BY <1>1, TurnInvariance, PTL
=============================================================================
