-------------------------- MODULE RunCommandProofs ---------------------------
(***************************************************************************)
(* What the invocations of `agent-ruler run' and `agent-ruler stop' may    *)
(* count on, for any number of them, of services, pids and processes, and  *)
(* any words in their commands.                                            *)
(*                                                                         *)
(* All there is to say of processes is that one who lives lived before, or *)
(* is the one that just began (Follows): then a set of processes that are  *)
(* gone stays gone, though their pids are given away again.  Each step of  *)
(* an invocation is shown to be of one of ten kinds (Kind), and each kind  *)
(* to keep four facts: the tables are well formed (Base); an invocation's  *)
(* variables fit the point it is at (LocalOK); who its records named, or   *)
(* which interfaces ran when it began, is gone, not yet tried, or known to *)
(* have been missed (Tally); and with invocations that take turns, what    *)
(* was reported as the gateway is on record, or gone where a record is     *)
(* about to go (LaunchInv).                                                *)
(***************************************************************************)
EXTENDS RunCommand, SequenceTheorems, TLAPS

-----------------------------------------------------------------------------
\* The process table.
Table == [Pids -> [kind : Kinds, id : Nat, parent : Nat,
                   stage : Stages \cup {"free", "zombie"}]]

Lives(t, p) == t[p].stage \notin {"free", "zombie"}

\* Between tables t and u: who lives lived before, or is the one newcomer.
Kept(t, u, p) == Lives(t, p) /\ u[p].id = t[p].id /\ u[p].kind = t[p].kind
Follows(t, b, u, d) ==
    /\ u \in Table /\ d \in Nat
    /\ \/ d = b /\ \A p \in Pids : Lives(u, p) => Kept(t, u, p)
       \/ /\ d = b + 1
          /\ \E n \in Pids : /\ Lives(u, n) => u[n].id = d
                             /\ \A p \in Pids \ {n} : Lives(u, p) => Kept(t, u, p)

\* Living processes have numbers of their own among those given out.
Numbered(t, b) ==
    /\ t \in Table /\ b \in Nat
    /\ \A p \in Pids : Lives(t, p) => t[p].id \in 1..b
    /\ \A p, q \in Pids : Lives(t, p) /\ Lives(t, q) /\ t[p].id = t[q].id => p = q

LEMMA FollowsNumbered ==
  ASSUME NEW t, NEW b, NEW u, NEW d, Numbered(t, b), Follows(t, b, u, d)
  PROVE  Numbered(u, d) /\ b \in Nat /\ d \in Nat /\ b <= d
<1>1. b \in Nat /\ d \in Nat /\ b <= d /\ u \in Table
  BY DEF Numbered, Follows
<1>2. CASE d = b
  BY <1>1, <1>2 DEF Numbered, Follows, Kept
<1>3. CASE d = b + 1
  <2>1. PICK n \in Pids : /\ Lives(u, n) => u[n].id = d
                          /\ \A p \in Pids \ {n} : Lives(u, p) => Kept(t, u, p)
    BY <1>1, <1>3 DEF Follows
  <2>2. ASSUME NEW p \in Pids, Lives(u, p)
        PROVE  \/ p = n /\ u[p].id = b + 1
               \/ p # n /\ Kept(t, u, p) /\ u[p].id \in 1..b
    <3>1. CASE p = n
      BY <1>3, <2>1, <2>2, <3>1
    <3>2. CASE p # n
      <4>1. Kept(t, u, p)
        BY <2>1, <2>2, <3>2
      <4> QED
        BY <3>2, <4>1 DEF Numbered, Kept
    <3> QED
      BY <3>1, <3>2
  <2>3. \A p \in Pids : Lives(u, p) => u[p].id \in 1..d
    BY <1>1, <1>3, <2>2
  <2>4. ASSUME NEW p \in Pids, NEW q \in Pids, Lives(u, p), Lives(u, q), u[p].id = u[q].id
        PROVE  p = q
    <3>1. CASE p = n \/ q = n
      BY <1>1, <2>2, <2>4, <3>1
    <3>2. CASE p # n /\ q # n
      BY <2>2, <2>4, <3>2 DEF Numbered, Kept
    <3> QED
      BY <3>1, <3>2
  <2> QED
    BY <1>1, <2>3, <2>4 DEF Numbered
<1> QED
  BY <1>2, <1>3 DEF Follows

Shrinks(t, u) == u \in Table /\ \A p \in Pids : Lives(u, p) => Kept(t, u, p)

LEMMA ShrinksFollows ==
  ASSUME NEW t, NEW u, NEW b \in Nat, Shrinks(t, u)
  PROVE  Follows(t, b, u, b)
  BY DEF Follows, Shrinks

LEMMA ShrinksFacts ==
  ASSUME NEW t \in Table
  PROVE  /\ Shrinks(t, t)
         /\ \A u, v : Shrinks(t, u) /\ Shrinks(u, v) => Shrinks(t, v)
<1>1. Shrinks(t, t)
  BY DEF Shrinks, Kept
<1>2. ASSUME NEW u, NEW v, Shrinks(t, u), Shrinks(u, v) PROVE Shrinks(t, v)
  BY <1>2 DEF Shrinks, Kept
<1> QED
  BY <1>1, <1>2

Entries == [kind : Kinds, id : Nat, parent : Nat, stage : Stages \cup {"free", "zombie"}]

LEMMA EntryFacts ==
  ASSUME NEW e \in Entries
  PROVE  /\ [e EXCEPT !.stage = "zombie"] \in Entries
         /\ [e EXCEPT !.stage = "zombie"].stage = "zombie"
         /\ [e EXCEPT !.parent = 0] \in Entries
         /\ [e EXCEPT !.parent = 0].stage = e.stage
         /\ [e EXCEPT !.parent = 0].id = e.id
         /\ [e EXCEPT !.parent = 0].kind = e.kind
  BY DEF Entries

LEMMA NoProcessIsAnEntry == NoProcess \in Entries /\ NoProcess.stage = "free"
  BY DEF NoProcess, Entries, Kinds

LEMMA FollowsShrinks ==
  ASSUME NEW t, NEW b, NEW u, NEW d, Follows(t, b, u, d), NEW v, Shrinks(u, v)
  PROVE  Follows(t, b, v, d)
<1>1. v \in Table /\ d \in Nat /\ \A p \in Pids : Lives(v, p) => Kept(u, v, p)
  BY DEF Follows, Shrinks
<1>2. CASE d = b /\ \A p \in Pids : Lives(u, p) => Kept(t, u, p)
  BY <1>1, <1>2 DEF Follows, Kept
<1>3. CASE d = b + 1 /\ \E n \in Pids : /\ Lives(u, n) => u[n].id = d
                                        /\ \A p \in Pids \ {n} : Lives(u, p) => Kept(t, u, p)
  <2>1. PICK n \in Pids : /\ Lives(u, n) => u[n].id = d
                          /\ \A p \in Pids \ {n} : Lives(u, p) => Kept(t, u, p)
    BY <1>3
  <2>2. Lives(v, n) => v[n].id = d
    BY <1>1, <2>1 DEF Kept
  <2>3. \A p \in Pids \ {n} : Lives(v, p) => Kept(t, v, p)
    BY <1>1, <2>1 DEF Kept
  <2> QED
    BY <1>1, <1>3, <2>2, <2>3 DEF Follows
<1> QED
  BY <1>2, <1>3 DEF Follows

LEMMA ExitedFollows ==
  ASSUME NEW t \in Table, NEW ps
  PROVE  /\ Exited(t, ps) \in Table
         /\ \A p \in Pids : Lives(Exited(t, ps), p) => p \notin ps /\ Exited(t, ps)[p] = t[p]
<1> DEFINE u == Exited(t, ps)
<1>1. \A p \in Pids : t[p] \in Entries
  BY DEF Table, Entries
<1>2. \A p \in Pids : u[p] = IF p \notin ps THEN t[p]
                             ELSE IF t[p].parent = 0 THEN NoProcess
                             ELSE [t[p] EXCEPT !.stage = "zombie"]
  BY DEF Exited
<1>4. u = [p \in Pids |-> u[p]]
  BY DEF Exited
<1> HIDE DEF u
<1>3. ASSUME NEW p \in Pids
      PROVE  /\ u[p] \in Entries
             /\ p \in ps => u[p].stage \in {"free", "zombie"}
             /\ p \notin ps => u[p] = t[p]
  <2>1. CASE p \notin ps
    BY <1>1, <1>2, <2>1
  <2>2. CASE p \in ps /\ t[p].parent = 0
    BY <1>2, <2>2, NoProcessIsAnEntry
  <2>3. CASE p \in ps /\ t[p].parent # 0
    <3>1. u[p] = [t[p] EXCEPT !.stage = "zombie"]
      BY <1>2, <2>3
    <3>2. /\ [t[p] EXCEPT !.stage = "zombie"] \in Entries
          /\ [t[p] EXCEPT !.stage = "zombie"].stage = "zombie"
      BY <1>1, EntryFacts
    <3> QED
      BY <2>3, <3>1, <3>2
  <2> QED
    BY <2>1, <2>2, <2>3
<1>5. u \in Table
  BY <1>3, <1>4 DEF Table, Entries
<1>6. \A p \in Pids : Lives(u, p) => p \notin ps /\ u[p] = t[p]
  BY <1>3 DEF Lives
<1> QED
  BY <1>5, <1>6 DEF u

LEMMA OrphanedFollows ==
  ASSUME NEW t \in Table, NEW c
  PROVE  /\ Orphaned(t, c) \in Table
         /\ \A p \in Pids : Lives(Orphaned(t, c), p) => Kept(t, Orphaned(t, c), p)
<1> DEFINE u == Orphaned(t, c)
<1>1. \A p \in Pids : t[p] \in Entries
  BY DEF Table, Entries
<1>2. \A p \in Pids : u[p] = IF t[p].parent # c THEN t[p]
                             ELSE IF t[p].stage = "zombie" THEN NoProcess
                             ELSE [t[p] EXCEPT !.parent = 0]
  BY DEF Orphaned
<1>4. u = [p \in Pids |-> u[p]]
  BY DEF Orphaned
<1> HIDE DEF u
<1>3. ASSUME NEW p \in Pids
      PROVE  u[p] \in Entries /\ (Lives(u, p) => Kept(t, u, p))
  <2>1. CASE t[p].parent # c
    BY <1>1, <1>2, <2>1 DEF Lives, Kept
  <2>2. CASE t[p].parent = c /\ t[p].stage = "zombie"
    BY <1>2, <2>2, NoProcessIsAnEntry DEF Lives
  <2>3. CASE t[p].parent = c /\ t[p].stage # "zombie"
    <3>1. u[p] = [t[p] EXCEPT !.parent = 0]
      BY <1>2, <2>3
    <3>2. /\ [t[p] EXCEPT !.parent = 0] \in Entries
          /\ [t[p] EXCEPT !.parent = 0].stage = t[p].stage
          /\ [t[p] EXCEPT !.parent = 0].id = t[p].id
          /\ [t[p] EXCEPT !.parent = 0].kind = t[p].kind
      BY <1>1, EntryFacts
    <3> QED
      BY <3>1, <3>2 DEF Lives, Kept
  <2> QED
    BY <2>1, <2>2, <2>3
<1>5. u \in Table
  BY <1>3, <1>4 DEF Table, Entries
<1> QED
  BY <1>3, <1>5 DEF u

\* Exits and orphaning only lose processes.
LEMMA Losses ==
  ASSUME NEW t \in Table, NEW ps, NEW c
  PROVE  /\ Shrinks(t, Exited(t, ps))
         /\ Shrinks(t, Orphaned(t, c))
         /\ Shrinks(t, Orphaned(Exited(t, ps), c))
<1>1. ASSUME NEW u \in Table PROVE Shrinks(u, Exited(u, ps)) /\ Shrinks(u, Orphaned(u, c))
  <2> DEFINE v == Exited(u, ps)
             w == Orphaned(u, c)
  <2>1. v \in Table /\ \A p \in Pids : Lives(v, p) => p \notin ps /\ v[p] = u[p]
    BY ExitedFollows
  <2>2. w \in Table /\ \A p \in Pids : Lives(w, p) => Kept(u, w, p)
    BY OrphanedFollows
  <2> HIDE DEF v, w
  <2>3. Shrinks(u, v) /\ Shrinks(u, w)
    BY <2>1, <2>2 DEF Shrinks, Kept, Lives
  <2> QED
    BY <2>3 DEF v, w
<1>2. Exited(t, ps) \in Table
  BY ExitedFollows
<1>3. Shrinks(Exited(t, ps), Orphaned(Exited(t, ps), c))
  BY <1>1, <1>2
<1>4. Shrinks(t, Exited(t, ps)) /\ Shrinks(t, Orphaned(t, c))
  BY <1>1
<1> QED
  BY <1>3, <1>4, ShrinksFacts

\* A process that gets another stage, and one that begins.
LEMMA Staged ==
  ASSUME NEW t \in Table, NEW p \in Pids, Lives(t, p), NEW st \in Stages
  PROVE  Shrinks(t, [t EXCEPT ![p].stage = st])
<1>1. PICK e \in Entries : e = t[p]
  BY DEF Table, Entries
<1>2. /\ [e EXCEPT !.stage = st] \in Entries /\ [e EXCEPT !.stage = st].id = e.id
      /\ [e EXCEPT !.stage = st].kind = e.kind
  BY DEF Entries
<1>3. PICK g : g = [e EXCEPT !.stage = st]
  OBVIOUS
<1>4. [t EXCEPT ![p].stage = st] = [t EXCEPT ![p] = g]
  BY <1>1, <1>3
<1>5. g \in Entries /\ g.id = t[p].id /\ g.kind = t[p].kind
  BY <1>1, <1>2, <1>3
<1>6. [t EXCEPT ![p] = g] \in Table
  BY <1>5 DEF Table, Entries
<1>7. \A q \in Pids : [t EXCEPT ![p] = g][q] = IF q = p THEN g ELSE t[q]
  BY DEF Table
<1>8. Shrinks(t, [t EXCEPT ![p] = g])
  BY <1>5, <1>6, <1>7 DEF Shrinks, Lives, Kept
<1> QED
  BY <1>4, <1>8

LEMMA SpawnedFollows ==
  ASSUME proc \in Table, born \in Nat, NEW p \in Pids, NEW kind \in Kinds, NEW c \in Nat
  PROVE  Follows(proc, born, Spawned(p, kind, c), born + 1)
<1>1. PICK g : g = [kind |-> kind, id |-> born + 1, parent |-> c, stage |-> "up"]
  OBVIOUS
<1>2. g \in Entries /\ g.id = born + 1
  BY <1>1 DEF Entries, Stages
<1>3. Spawned(p, kind, c) = [proc EXCEPT ![p] = g]
  BY <1>1 DEF Spawned
<1>4. [proc EXCEPT ![p] = g] \in Table
  BY <1>2 DEF Table, Entries
<1>5. \A q \in Pids : [proc EXCEPT ![p] = g][q] = IF q = p THEN g ELSE proc[q]
  BY DEF Table
<1> QED
  BY <1>2, <1>3, <1>4, <1>5 DEF Follows, Kept, Lives

-----------------------------------------------------------------------------
\* The invocations: a step changes the fields it names, of one of them.
CliTable == cli = [c \in Clis |-> [f \in DOMAIN Fresh |-> cli[c][f]]]

Becomes(me, ch, you) ==
    /\ you.cmd = IF "cmd" \in DOMAIN ch THEN ch.cmd ELSE me.cmd
    /\ you.pc = IF "pc" \in DOMAIN ch THEN ch.pc ELSE me.pc
    /\ you.plan = IF "plan" \in DOMAIN ch THEN ch.plan ELSE me.plan
    /\ you.all = IF "all" \in DOMAIN ch THEN ch.all ELSE me.all
    /\ you.pid = IF "pid" \in DOMAIN ch THEN ch.pid ELSE me.pid
    /\ you.named = IF "named" \in DOMAIN ch THEN ch.named ELSE me.named
    /\ you.scan = IF "scan" \in DOMAIN ch THEN ch.scan ELSE me.scan
    /\ you.ui = IF "ui" \in DOMAIN ch THEN ch.ui ELSE me.ui
    /\ you.since = IF "since" \in DOMAIN ch THEN ch.since ELSE me.since

Ends(me, pc, you) ==
    /\ you.pc = pc /\ you.all = TRUE /\ you.ui = "unknown"
    /\ pc = "done" => you.cmd = me.cmd /\ you.named = me.named /\ you.since = me.since
    /\ pc # "done" => you.cmd = <<>> /\ you.named = {} /\ you.since = 0

Only(c) == CliTable' /\ \A d \in Clis \ {c} : cli'[d] = cli[d]

LEMMA StepChanges ==
  ASSUME CliTable, NEW c \in Clis, NEW ch, Step(c, ch)
  PROVE  Only(c) /\ Becomes(cli[c], ch, cli'[c])
<1> DEFINE g == [f \in DOMAIN Fresh |-> IF f \in DOMAIN ch THEN ch[f] ELSE cli[c][f]]
<1>1. cli' = [cli EXCEPT ![c] = g]
  BY DEF Step
<1>2. g = [f \in DOMAIN Fresh |-> g[f]]
  OBVIOUS
<1>3. \A f \in DOMAIN Fresh : g[f] = IF f \in DOMAIN ch THEN ch[f] ELSE cli[c][f]
  OBVIOUS
<1> HIDE DEF g
<1>4. cli' = [d \in Clis |-> IF d = c THEN g ELSE cli[d]]
  BY <1>1 DEF CliTable
<1>5. cli'[c] = g /\ \A d \in Clis \ {c} : cli'[d] = cli[d]
  BY <1>4
<1>6. \A d \in Clis : cli[d] = [f \in DOMAIN Fresh |-> cli[d][f]]
  BY DEF CliTable
<1>7. \A d \in Clis : cli'[d] = [f \in DOMAIN Fresh |-> cli'[d][f]]
  BY <1>2, <1>5, <1>6
<1>8. CliTable'
  BY <1>4, <1>7 DEF CliTable
<1>9. Becomes(cli[c], ch, g)
  BY <1>3 DEF Becomes, Fresh
<1> QED
  BY <1>5, <1>8, <1>9 DEF Only

LEMMA EndingChanges ==
  ASSUME CliTable, NEW c \in Clis, NEW pc, Ending(c, pc)
  PROVE  Only(c) /\ Ends(cli[c], pc, cli'[c])
<1> DEFINE g == IF pc = "done"
                THEN [Fresh EXCEPT !.pc = pc, !.cmd = cli[c].cmd, !.named = cli[c].named,
                                   !.since = cli[c].since]
                ELSE [Fresh EXCEPT !.pc = pc]
<1>1. cli' = [cli EXCEPT ![c] = g]
  BY DEF Ending
<1>2. g = [f \in DOMAIN Fresh |-> g[f]]
  BY DEF Fresh
<1>3. Ends(cli[c], pc, g)
  BY DEF Ends, Fresh
<1> HIDE DEF g
<1>4. cli' = [d \in Clis |-> IF d = c THEN g ELSE cli[d]]
  BY <1>1 DEF CliTable
<1>5. cli'[c] = g /\ \A d \in Clis \ {c} : cli'[d] = cli[d]
  BY <1>4
<1>6. \A d \in Clis : cli[d] = [f \in DOMAIN Fresh |-> cli[d][f]]
  BY DEF CliTable
<1>7. \A d \in Clis : cli'[d] = [f \in DOMAIN Fresh |-> cli'[d][f]]
  BY <1>2, <1>5, <1>6
<1>8. CliTable'
  BY <1>4, <1>7 DEF CliTable
<1> QED
  BY <1>3, <1>5, <1>8 DEF Only

-----------------------------------------------------------------------------
\* Commands that stop or restart a service before anything else.
Rules(cmd) ==
    \/ IsGatewayStop(cmd) \/ IsGatewayRestart(cmd)
    \/ WebStop(cmd) # NoRunner \/ WebRestart(cmd) # NoRunner

Words(cmd) == \E S : cmd \in Seq(S)

LEMMA WordIsAmong ==
  ASSUME NEW cmd, NEW i \in Nat, NEW w, Word(cmd, i) = w, w # "none", Words(cmd)
  PROVE  i <= Len(cmd) /\ \A j \in 1..i : w \in WordsFrom(cmd, j)
<1>1. i <= Len(cmd) /\ cmd[i] = w
  BY DEF Word
<1>2. PICK S : cmd \in Seq(S)
  BY DEF Words
<1>3. Len(cmd) \in Nat
  BY <1>2
<1>4. \A j \in 1..i : i \in j..Len(cmd)
  BY <1>1, <1>3
<1> QED
  BY <1>1, <1>4 DEF WordsFrom

LEMMA ControlsNeedNothing ==
  ASSUME NEW cmd, Words(cmd), Controls(cmd), ~Rules(cmd)
  PROVE  ~InBackground(cmd) /\ \A point \in UiPoints : ~UiNeeded(cmd, point)
<1>1. Word(cmd, 3) = "status"
  BY DEF Controls, Rules, IsGatewayStop, IsGatewayRestart, GatewayControl, WebStop, WebRestart,
         WebControl, NoRunner
<1>w. PICK w1, w2 : /\ w1 = Word(cmd, 1) /\ w2 = Word(cmd, 2)
                    /\ \/ w1 = "openclaw" /\ w2 = "gateway"
                       \/ w1 = "opencode" /\ w2 = "web"
                       \/ w1 = "claude" /\ w2 = "remote-control"
  BY DEF Controls
<1>2. Stops(cmd, 3) /\ Len(cmd) # 1
  <2>1. 3 <= Len(cmd) /\ \A j \in 1..3 : "status" \in WordsFrom(cmd, j)
    BY <1>1, WordIsAmong
  <2>2. PICK n \in Nat : n = Len(cmd)
    BY DEF Words
  <2>3. Len(cmd) # 1
    <3>1. 3 <= n
      BY <2>1, <2>2
    <3> QED
      BY <2>2, <3>1
  <2>4. "status" \in WordsFrom(cmd, 3)
    <3>1. 3 \in 1..3
      OBVIOUS
    <3> QED
      BY <2>1, <3>1
  <2>5. "status" \in WordsFrom(cmd, 3) \cap {"stop", "status"}
    BY <2>4
  <2> QED
    BY <2>3, <2>5 DEF Stops
<1>3. IsControlOnly(cmd)
  BY <1>1 DEF Controls, IsControlOnly
<1>4. ~IsGatewayLaunch(cmd) /\ WebLaunch(cmd) = NoRunner
  BY <1>2 DEF IsGatewayLaunch, WebLaunch
<1>5. ~OpenclawNeedsApi(cmd)
  BY <1>4 DEF OpenclawNeedsApi, Controls
<1>6. ~ClaudeNeedsApi(cmd)
  BY <1>2, <1>w DEF ClaudeNeedsApi, ClaudeChats
<1>7. ~OpencodeNeedsApi(cmd)
  BY <1>2, <1>w DEF OpencodeNeedsApi, Flags
<1>8. ~RequiresUi(cmd) /\ ~ToolPreflightNeeded(cmd)
  BY <1>3, <1>6, <1>7 DEF RequiresUi, ToolPreflightNeeded
<1> QED
  BY <1>4, <1>5, <1>8 DEF InBackground, UiNeeded, UiPoints

\* A command at which an agent acts is asked about as the code's own words say.
LEMMA ActsNeeds ==
  ASSUME NEW cmd, Words(cmd), ~Rules(cmd), AgentActs(cmd)
  PROVE  UiNeeded(cmd, "ui") /\ (Word(cmd, 1) \in Runners => UiNeeded(cmd, "api"))
<1>1. WordsFrom(cmd, 2) \cap HelpWords = {}
  BY DEF AgentActs
<1>2. ASSUME Word(cmd, 2) \in {"gateway", "web"}
      PROVE  ~Stops(cmd, 3) /\ Word(cmd, 3) \notin {"stop", "status"}
  <2>1. WordsFrom(cmd, 3) \cap {"stop", "status"} = {}
    BY <1>2 DEF AgentActs
  <2>2. ASSUME NEW w \in {"stop", "status"}, Word(cmd, 3) = w PROVE FALSE
    <3>1. w # "none" /\ 3 \in 1..3 /\ 3 \in Nat
      OBVIOUS
    <3>2. w \in WordsFrom(cmd, 3)
      BY <2>2, <3>1, WordIsAmong
    <3> QED
      BY <2>1, <3>2
  <2> QED
    BY <2>1, <2>2 DEF Stops
<1>3. ~AsksForHelp(cmd, 2)
  BY <1>1 DEF AsksForHelp
<1>4. CommandRunner(cmd) # NoRunner
  BY DEF AgentActs, NoRunner
<1>5. ~IsControlOnly(cmd)
  <2>1. SUFFICES ASSUME IsControlOnly(cmd) PROVE FALSE
    OBVIOUS
  <2>2. /\ <<Word(cmd, 1), Word(cmd, 2)>> \in
              {<<"openclaw", "gateway">>, <<"opencode", "web">>,
               <<"claude", "remote-control">>, <<"claude", "web">>}
        /\ Word(cmd, 3) \in {"stop", "status", "restart"}
    BY <1>3, <2>1 DEF IsControlOnly
  <2>4. Word(cmd, 2) # "remote-control"
    <3>1. SUFFICES ASSUME Word(cmd, 1) = "claude" PROVE Word(cmd, 2) # "remote-control"
      BY <2>2
    <3>2. CommandRunner(cmd) = "claude"
      BY <3>1 DEF CommandRunner, RunnerOf, Runners
    <3> QED
      BY <3>2 DEF AgentActs
  <2>5. Word(cmd, 3) = "restart"
    BY <1>2, <2>2, <2>4
  <2>3. Rules(cmd)
    BY <2>2, <2>5 DEF Rules, IsGatewayRestart, GatewayControl, WebRestart, WebControl, NoRunner
  <2> QED
    BY <2>3
<1>6. UiNeeded(cmd, "ui")
  BY <1>4, <1>5 DEF UiNeeded, RequiresUi
<1>7. ASSUME Word(cmd, 1) \in Runners PROVE UiNeeded(cmd, "api")
  <2>1. CommandRunner(cmd) = Word(cmd, 1)
    BY <1>7 DEF CommandRunner, RunnerOf, Runners
  <2>2. CASE Word(cmd, 1) = "openclaw"
    <3>1. Word(cmd, 2) \in {"gateway", "agent", "tui", "acp"}
      BY <2>1, <2>2 DEF AgentActs
    <3>2. OpenclawNeedsApi(cmd)
      BY <1>2, <2>2, <3>1 DEF OpenclawNeedsApi, IsGatewayLaunch
    <3> QED
      BY <3>2 DEF UiNeeded
  <2>3. CASE Word(cmd, 1) = "claude"
    <3>1. Word(cmd, 2) \notin ClaudeMaintenance \cup {"auth", "setup-token", "remote-control"}
      BY <2>1, <2>3 DEF AgentActs
    <3>2. ClaudeNeedsApi(cmd)
      BY <1>3, <2>3, <3>1 DEF ClaudeNeedsApi, ClaudeChats
    <3> QED
      BY <3>2 DEF UiNeeded, ToolPreflightNeeded
  <2>4. CASE Word(cmd, 1) = "opencode"
    <3>1. Len(cmd) = 1 \/ Word(cmd, 2) \in {"run", "serve", "--continue"}
      BY <2>1, <2>4 DEF AgentActs
    <3>2. OpencodeNeedsApi(cmd)
      BY <1>3, <2>4, <3>1 DEF OpencodeNeedsApi, Flags
    <3> QED
      BY <3>2 DEF UiNeeded, ToolPreflightNeeded
  <2> QED
    BY <1>7, <2>2, <2>3, <2>4 DEF Runners
<1> QED
  BY <1>6, <1>7

LEMMA StopUiPlan ==
  /\ StopPlan(<<"stop", "ui">>) = <<>>
  /\ ~Rules(<<"stop", "ui">>)
  /\ ~Controls(<<"stop", "ui">>)
<1> DEFINE cmd == <<"stop", "ui">>
<1>1. Word(cmd, 1) = "stop" /\ Word(cmd, 2) = "ui" /\ cmd[1] = "stop" /\ cmd[2] = "ui"
  BY DEF Word
<1>2. cmd # <<"stop", "openclaw">>
  OBVIOUS
<1> HIDE DEF cmd
<1>3. ~IsGatewayStop(cmd) /\ ~IsGatewayRestart(cmd) /\ WebStop(cmd) = NoRunner
      /\ WebRestart(cmd) = NoRunner /\ ~Controls(cmd)
  BY <1>1 DEF IsGatewayStop, IsGatewayRestart, GatewayControl, WebStop, WebRestart, WebControl,
              Controls
<1>4. StopPlan(cmd) = <<>>
  BY <1>1, <1>2, <1>3 DEF StopPlan, WebRunners
<1> QED
  BY <1>3, <1>4 DEF cmd, Rules

LEMMA RulesPlan == ASSUME NEW cmd, Rules(cmd) PROVE StopPlan(cmd) # <<>>
  BY DEF Rules, StopPlan

LEMMA RestartFacts ==
  ASSUME NEW r
  PROVE  LET cmd == RestartLaunch(r)
         IN  /\ cmd # <<"stop", "ui">> /\ Words(cmd) /\ ~Rules(cmd) /\ ~Controls(cmd)
<1>1. RestartLaunch(r) \in {<<"openclaw", "gateway">>, <<"claude", "remote-control">>,
                            <<"opencode", "web">>}
  BY DEF RestartLaunch
<1>2. PICK cmd : cmd = RestartLaunch(r)
  OBVIOUS
<1>3. Len(cmd) = 2 /\ cmd # <<"stop", "ui">>
  BY <1>1, <1>2
<1>4. Words(cmd)
  <2> DEFINE T == {"openclaw", "gateway", "claude", "remote-control", "opencode", "web"}
  <2>1. /\ <<"openclaw", "gateway">> \in Seq(T) /\ <<"claude", "remote-control">> \in Seq(T)
        /\ <<"opencode", "web">> \in Seq(T)
    OBVIOUS
  <2>2. cmd \in Seq(T)
    BY <1>1, <1>2, <2>1
  <2> QED
    BY <2>2 DEF Words
<1>5. Word(cmd, 3) = "none"
  BY <1>3 DEF Word
<1>6. ~Rules(cmd) /\ ~Controls(cmd)
  BY <1>5 DEF Rules, Controls, IsGatewayStop, IsGatewayRestart, GatewayControl, WebStop,
              WebRestart, WebControl, NoRunner
<1> QED
  BY <1>2, <1>3, <1>4, <1>6

\* Two words put into a sequence.
Put(cmd, at, x, y) == SubSeq(cmd, 1, at) \o <<x, y>> \o SubSeq(cmd, at + 1, Len(cmd))

IsPut(S, cmd, at, x, y, r) ==
    /\ r \in Seq(S) /\ Len(r) = Len(cmd) + 2
    /\ \A i \in 1..(Len(cmd) + 2) :
         r[i] = IF i <= at THEN cmd[i]
                ELSE IF i = at + 1 THEN x ELSE IF i = at + 2 THEN y ELSE cmd[i - 2]

LEMMA Inserted ==
  ASSUME NEW S, NEW cmd \in Seq(S), NEW at \in 1..Len(cmd), NEW x \in S, NEW y \in S
  PROVE  IsPut(S, cmd, at, x, y, Put(cmd, at, x, y))
<1>1. PICK n \in Nat : n = Len(cmd)
  OBVIOUS
<1>2. PICK a, z : a = SubSeq(cmd, 1, at) /\ z = SubSeq(cmd, at + 1, n)
  OBVIOUS
<1>3. /\ a \in Seq(S) /\ Len(a) = at /\ \A i \in 1..at : a[i] = cmd[i]
  BY <1>1, <1>2
<1>4. /\ z \in Seq(S) /\ Len(z) = n - at /\ \A i \in 1..(n - at) : z[i] = cmd[at + i]
  BY <1>1, <1>2
<1>5. PICK m, b : m = <<x, y>> /\ b = a \o m
  OBVIOUS
<1>6. m \in Seq(S) /\ Len(m) = 2 /\ m[1] = x /\ m[2] = y
  BY <1>5
<1>7. /\ b \in Seq(S) /\ Len(b) = at + 2
      /\ \A i \in 1..(at + 2) : b[i] = IF i <= at THEN a[i] ELSE m[i - at]
  <2>1. b \in Seq(S) /\ Len(b) = Len(a) + Len(m)
        /\ \A i \in 1..(Len(a) + Len(m)) : b[i] = IF i <= Len(a) THEN a[i] ELSE m[i - Len(a)]
    BY <1>3, <1>5, <1>6, ConcatProperties
  <2> QED
    BY <1>3, <1>6, <2>1
<1>8. b[at + 1] = x /\ b[at + 2] = y /\ \A i \in 1..at : b[i] = cmd[i]
  BY <1>3, <1>6, <1>7
<1>9. PICK r : r = b \o z
  OBVIOUS
<1>11. /\ r \in Seq(S) /\ Len(r) = n + 2
       /\ \A i \in 1..(n + 2) : r[i] = IF i <= at + 2 THEN b[i] ELSE z[i - (at + 2)]
  <2>1. /\ r \in Seq(S) /\ Len(r) = Len(b) + Len(z)
        /\ \A i \in 1..(Len(b) + Len(z)) : r[i] = IF i <= Len(b) THEN b[i] ELSE z[i - Len(b)]
    BY <1>4, <1>7, <1>9, ConcatProperties
  <2> QED
    BY <1>1, <1>4, <1>7, <2>1
<1>10. ASSUME NEW i \in 1..(n + 2)
       PROVE  r[i] = IF i <= at THEN cmd[i]
                     ELSE IF i = at + 1 THEN x ELSE IF i = at + 2 THEN y ELSE cmd[i - 2]
  <2>1. CASE i <= at + 2
    BY <1>1, <1>8, <1>11, <2>1
  <2>2. CASE i > at + 2
    <3>1. r[i] = z[i - (at + 2)] /\ i - (at + 2) \in 1..(n - at) /\ at + (i - (at + 2)) = i - 2
      BY <1>1, <1>11, <2>2
    <3> QED
      BY <1>1, <1>4, <2>2, <3>1
  <2> QED
    BY <2>1, <2>2
<1>12. r = Put(cmd, at, x, y)
  BY <1>1, <1>2, <1>5, <1>9 DEF Put
<1>13. IsPut(S, cmd, at, x, y, r)
  BY <1>1, <1>10, <1>11 DEF IsPut
<1> QED
  BY <1>12, <1>13

LEMMA MoreOf == ASSUME NEW S, NEW T, S \subseteq T, NEW s \in Seq(S) PROVE s \in Seq(T)
  OBVIOUS

\* Putting --plugin-dir into a command.
LEMMA Injected ==
  ASSUME NEW cmd, Words(cmd), ClaudeNeedsPlugin(cmd), "--plugin-dir" \notin WordsFrom(cmd, 2)
  PROVE  LET r == InjectPluginDir(cmd)
             remote == Word(cmd, 2) = "remote-control"
         IN  /\ Words(r) /\ r # <<"stop", "ui">>
             /\ Word(r, 1) = Word(cmd, 1)
             /\ Word(r, 2) = IF remote THEN "remote-control" ELSE "--plugin-dir"
             /\ Word(r, 3) = IF remote THEN "--plugin-dir" ELSE "governance"
             /\ remote => WordsFrom(cmd, 3) \subseteq WordsFrom(r, 3)
<1> DEFINE remote == Word(cmd, 2) = "remote-control"
<1>1. PICK S : cmd \in Seq(S)
  BY DEF Words
<1>2. PICK at : at = IF remote THEN 2 ELSE 1
  OBVIOUS
<1>3. PICK n \in Nat : n = Len(cmd)
  BY <1>1
<1>c. Word(cmd, 1) = "claude"
  BY DEF ClaudeNeedsPlugin, ClaudeNeedsApi, ClaudeChats
<1>4. at \in 1..n
  <2>3. 1 <= n /\ (remote => 2 <= n)
    BY <1>3, <1>c DEF Word
  <2> QED
    BY <1>2, <1>3, <2>3
<1>5. PICK U : U = S \cup {"--plugin-dir", "governance"}
  OBVIOUS
<1>6. cmd \in Seq(U)
  <2>1. S \subseteq U
    BY <1>5
  <2> QED
    BY <1>1, <2>1, MoreOf
<1>7. PICK x \in U, y \in U : x = "--plugin-dir" /\ y = "governance"
  BY <1>5
<1>8. PICK r : r = Put(cmd, at, x, y)
  OBVIOUS
<1>15. InjectPluginDir(cmd) = r
  BY <1>2, <1>7, <1>8 DEF InjectPluginDir, Put
<1>9. /\ r \in Seq(U) /\ Len(r) = n + 2
      /\ \A i \in 1..(n + 2) :
           r[i] = IF i <= at THEN cmd[i]
                  ELSE IF i = at + 1 THEN "--plugin-dir"
                  ELSE IF i = at + 2 THEN "governance" ELSE cmd[i - 2]
  <2>1. at \in 1..Len(cmd)
    BY <1>3, <1>4
  <2>2. IsPut(U, cmd, at, x, y, r)
    BY <1>6, <1>8, <2>1, Inserted
  <2> QED
    BY <1>3, <1>7, <2>2 DEF IsPut
<1>10. Words(r)
  BY <1>9 DEF Words
<1>11. r # <<"stop", "ui">>
  BY <1>3, <1>4, <1>9
<1>12. Word(r, 1) = Word(cmd, 1)
  BY <1>3, <1>4, <1>9 DEF Word
<1>13. CASE ~remote
  <2>1. at = 1
    BY <1>2, <1>13
  <2>2. r[2] = "--plugin-dir" /\ r[3] = "governance"
    BY <1>3, <1>4, <1>9, <2>1
  <2>3. Word(r, 2) = "--plugin-dir" /\ Word(r, 3) = "governance"
    BY <1>3, <1>4, <1>9, <2>2 DEF Word
  <2> QED
    BY <1>15, <1>10, <1>11, <1>12, <1>13, <2>3
<1>14. CASE remote
  <2>1. at = 2
    BY <1>2, <1>14
  <2>2. r[2] = cmd[2] /\ r[3] = "--plugin-dir" /\ cmd[2] = "remote-control"
    <3>1. n >= 2 /\ 2 \in 1..(n + 2) /\ 3 \in 1..(n + 2)
      BY <1>3, <1>4, <2>1
    <3>2. r[2] = cmd[2] /\ r[3] = "--plugin-dir"
      BY <1>9, <2>1, <3>1
    <3>3. cmd[2] = "remote-control"
      BY <1>3, <1>14, <3>1 DEF Word
    <3> QED
      BY <3>2, <3>3
  <2>3. Word(r, 2) = "remote-control" /\ Word(r, 3) = "--plugin-dir"
    BY <1>3, <1>4, <1>9, <2>1, <2>2 DEF Word
  <2>4. ASSUME NEW w \in WordsFrom(cmd, 3) PROVE w \in WordsFrom(r, 3)
    <3>1. PICK j \in 3..n : w = cmd[j]
      BY <1>3, <2>4 DEF WordsFrom
    <3>2. j + 2 \in 3..Len(r) /\ r[j + 2] = cmd[j]
      BY <1>3, <1>9, <2>1, <3>1
    <3> QED
      BY <3>1, <3>2 DEF WordsFrom
  <2> QED
    BY <1>15, <1>10, <1>11, <1>12, <1>14, <2>3, <2>4
<1> QED
  BY <1>13, <1>14

\* What runs in the foreground, given what was asked for.
LEMMA ExecutedFacts ==
  ASSUME NEW cmd, Words(cmd), ~InBackground(cmd), ~Rules(cmd), cmd # <<"stop", "ui">>
  PROVE  LET r == InjectPluginDir(NormalizeLaunch(cmd))
         IN  /\ Words(r) /\ r # <<"stop", "ui">> /\ ~Rules(r)
             /\ ~IsGatewayLaunch(r) /\ WebLaunch(r) = NoRunner
             /\ r = cmd \/ UiNeeded(cmd, "api") \/ (~UiNeeded(r, "api") /\ ~AgentActs(r))
             /\ Controls(r) => Controls(cmd)
<1>1. NormalizeLaunch(cmd) = cmd
  <2>1. SUFFICES ASSUME cmd = <<"openclaw", "gateway">> PROVE FALSE
    BY DEF NormalizeLaunch
  <2>2. Word(cmd, 1) = "openclaw" /\ Word(cmd, 2) = "gateway" /\ WordsFrom(cmd, 3) = {}
    BY <2>1 DEF Word, WordsFrom
  <2> QED
    BY <2>2 DEF InBackground, IsGatewayLaunch, Stops
<1>2. PICK r : r = InjectPluginDir(cmd)
  OBVIOUS
<1>3. CASE r = cmd
  BY <1>1, <1>2, <1>3 DEF InBackground
<1>4. CASE r # cmd
  <2>1. ClaudeNeedsPlugin(cmd) /\ "--plugin-dir" \notin WordsFrom(cmd, 2)
    BY <1>2, <1>4 DEF InjectPluginDir
  <2>2. PICK remote \in BOOLEAN : remote <=> Word(cmd, 2) = "remote-control"
    OBVIOUS
  <2>3. /\ Words(r) /\ r # <<"stop", "ui">>
        /\ Word(r, 1) = Word(cmd, 1)
        /\ Word(r, 2) = IF remote THEN "remote-control" ELSE "--plugin-dir"
        /\ Word(r, 3) = IF remote THEN "--plugin-dir" ELSE "governance"
        /\ remote => WordsFrom(cmd, 3) \subseteq WordsFrom(r, 3)
    BY <1>2, <2>1, <2>2, Injected
  <2>4. Word(cmd, 1) = "claude" /\ ~AsksForHelp(cmd, 2) /\ (~remote => ClaudeNeedsApi(cmd))
    BY <2>1, <2>2 DEF ClaudeNeedsPlugin, ClaudeNeedsApi, ClaudeChats
  <2>5. ~Rules(r) /\ ~Controls(r)
    BY <2>3 DEF Rules, Controls, IsGatewayStop, IsGatewayRestart, GatewayControl, WebStop,
                WebRestart, WebControl, NoRunner
  <2>6. ~IsGatewayLaunch(r)
    BY <2>3, <2>4 DEF IsGatewayLaunch
  <2>7. WebLaunch(r) = NoRunner
    <3>1. SUFFICES ASSUME WebLaunch(r) # NoRunner PROVE FALSE
      OBVIOUS
    <3>2. remote /\ ~AsksForHelp(r, 3) /\ ~Stops(r, 3)
      BY <2>2, <2>3, <2>4, <3>1 DEF WebLaunch
    <3>3. ~AsksForHelp(cmd, 3) /\ ~Stops(cmd, 3)
      BY <2>3, <3>2 DEF AsksForHelp, Stops
    <3>4. WebLaunch(cmd) = "claude"
      BY <2>2, <2>4, <3>2, <3>3 DEF WebLaunch
    <3> QED
      BY <3>4 DEF InBackground, NoRunner
  <2>8. ClaudeNeedsApi(r) => ~remote
    <3>1. SUFFICES ASSUME remote, ClaudeNeedsApi(r) PROVE FALSE
      BY <2>2
    <3>2. Len(r) # 1
      <4>1. Len(r) \in Nat
        BY <2>3 DEF Words
      <4> QED
        BY <2>3, <3>1, <4>1 DEF Word
    <3> QED
      BY <2>3, <3>1, <3>2 DEF ClaudeNeedsApi, ClaudeChats
  <2>9. UiNeeded(cmd, "api") \/ (~UiNeeded(r, "api") /\ ~AgentActs(r))
    <3>1. SUFFICES ASSUME remote PROVE ~UiNeeded(r, "api") /\ ~AgentActs(r)
      BY <2>2, <2>4 DEF UiNeeded, ToolPreflightNeeded
    <3>2. ~ClaudeNeedsApi(r) /\ Word(r, 1) = "claude" /\ Word(r, 2) = "remote-control"
      BY <2>3, <2>4, <2>8, <3>1
    <3>3. ~UiNeeded(r, "api")
      BY <3>2 DEF UiNeeded, ToolPreflightNeeded, OpenclawNeedsApi, OpencodeNeedsApi
    <3>4. CommandRunner(r) = "claude"
      BY <3>2 DEF CommandRunner, RunnerOf, Runners
    <3>5. ~AgentActs(r)
      BY <3>2, <3>4 DEF AgentActs
    <3> QED
      BY <3>3, <3>5
  <2> QED
    BY <1>1, <1>2, <2>3, <2>5, <2>6, <2>7, <2>9
<1> QED
  BY <1>3, <1>4

-----------------------------------------------------------------------------
\* What an invocation's own variables satisfy at each point of its way.
StopPcs == {"stop", "kill", "launcher", "forget"}
UiStopPcs == {"uifile", "uikill", "uiforget", "uiscan", "uirest"}
Unsure == StopPcs \cup {"uiscan", "uirest"}
PostUi == {"spawn", "detect", "stophost", "launch", "capture", "confirm", "record",
           "weblaunch", "webport", "webwait", "webrecord", "running"}
PostApi == PostUi \cup {"bridge", "bridgespawn", "bridgerecord", "bridgewait", "webui", "webui wait"}
PostFirst == PostApi \cup {"auth", "api", "api wait"}

Mediated(cmd, ui) ==
    UiNeeded(cmd, "api") \/ (AgentActs(cmd) /\ Word(cmd, 1) \in Runners) => ui = "mediates"
Answered(cmd, ui) == AgentActs(cmd) => ui # "unknown"
Reached(cmd, ui) == WebLaunch(cmd) # NoRunner => ui # "unknown"

LocalOK(me, b) ==
    /\ me.all \in BOOLEAN /\ me.since \in Nat /\ me.since <= b /\ me.named \subseteq 1..b
    /\ me.pc = "idle" => me.named = {} /\ me.all /\ me.ui = "unknown"
    /\ ~me.all => me.pc \in Unsure
    /\ me.pc \notin Ended => Words(me.cmd)
    /\ me.cmd = <<"stop", "ui">> => me.pc \in UiStopPcs \cup Ended
    /\ Rules(me.cmd) => me.pc \in StopPcs \cup Ended
    /\ \A point \in UiPoints : me.pc = WaitsUi[point] => UiNeeded(me.cmd, point)
    /\ me.pc \in PostFirst => Answered(me.cmd, me.ui)
    /\ me.pc \in PostApi => Mediated(me.cmd, me.ui)
    /\ me.pc \in PostUi => Reached(me.cmd, me.ui)
    /\ Controls(me.cmd) => me.ui = "unknown"

LEMMA UiPcs ==
  /\ WaitsUi["ui"] = "ui wait" /\ WaitsUi["api"] = "api wait" /\ WaitsUi["webui"] = "webui wait"
  /\ AfterUi["ui"] = "auth" /\ AfterUi["api"] = "bridge" /\ AfterUi["webui"] = "spawn"
  BY DEF WaitsUi, AfterUi

LEMMA LocalLater ==
  ASSUME NEW me, NEW b \in Nat, NEW d \in Nat, b <= d, LocalOK(me, b)
  PROVE  LocalOK(me, d)
<1>1. me.since <= d /\ me.named \subseteq 1..d
  BY DEF LocalOK
<1> QED
  BY <1>1 DEF LocalOK

LEMMA LocalEnds ==
  ASSUME NEW me, NEW b \in Nat, LocalOK(me, b), NEW pc \in {"done", "failed", "crashed"}, NEW you,
         Ends(me, pc, you)
  PROVE  LocalOK(you, b)
<1>1. you.pc = pc /\ you.all = TRUE /\ you.ui = "unknown"
  BY DEF Ends
<1>2. you.since \in Nat /\ you.since <= b /\ you.named \subseteq 1..b
  BY DEF Ends, LocalOK
<1>3. you.pc \in Ended /\ you.pc \notin PostFirst \cup PostApi \cup PostUi /\ you.pc # "idle"
  BY <1>1 DEF Ended, PostFirst, PostApi, PostUi
<1>4. \A point \in UiPoints : you.pc # WaitsUi[point]
  BY <1>1, UiPcs DEF UiPoints
<1> QED
  BY <1>1, <1>2, <1>3, <1>4 DEF LocalOK

\* The points that lead from one to another under a command.
Allowed(from, to, cmd) ==
    /\ from \notin Ended /\ to \notin Ended
    /\ from \in Unsure => to \in Unsure
    /\ from \in UiStopPcs => to \in UiStopPcs
    /\ from \in StopPcs => to \in StopPcs
    /\ \A point \in UiPoints : to = WaitsUi[point] => UiNeeded(cmd, point)
    /\ to \in PostFirst => from \in PostFirst \/ ~UiNeeded(cmd, "ui")
    /\ to \in PostApi => from \in PostApi \/ ~UiNeeded(cmd, "api")
    /\ to \in PostUi => from \in PostUi \/ ~UiNeeded(cmd, "webui")

LEMMA LocalAllowed ==
  ASSUME NEW me, NEW b \in Nat, LocalOK(me, b), NEW you, Allowed(me.pc, you.pc, me.cmd),
         you.cmd = me.cmd, you.since = me.since, you.ui = me.ui,
         you.named = me.named \/ you.named \subseteq 1..b,
         you.all = me.all \/ (you.all = FALSE /\ you.pc \in Unsure)
  PROVE  LocalOK(you, b)
<1>1. /\ you.all \in BOOLEAN /\ you.since \in Nat /\ you.since <= b /\ you.named \subseteq 1..b
      /\ you.pc \notin Ended
      /\ ~you.all => you.pc \in Unsure
  BY DEF LocalOK, Allowed
<1>2. you.pc # "idle" /\ me.pc \notin Ended
  BY <1>1 DEF Ended, Allowed
<1>3. /\ Words(you.cmd)
      /\ you.cmd = <<"stop", "ui">> => you.pc \in UiStopPcs \cup Ended
      /\ Rules(you.cmd) => you.pc \in StopPcs \cup Ended
      /\ Controls(you.cmd) => you.ui = "unknown"
  BY <1>2 DEF LocalOK, Allowed
<1>4. \A point \in UiPoints : you.pc = WaitsUi[point] => UiNeeded(you.cmd, point)
  BY DEF Allowed
<1>7. you.pc \in PostFirst => Words(me.cmd) /\ ~Rules(me.cmd)
  <2>1. SUFFICES ASSUME you.pc \in PostFirst PROVE Words(me.cmd) /\ ~Rules(me.cmd)
    OBVIOUS
  <2>2. you.pc \notin StopPcs \cup Ended
    BY <2>1 DEF StopPcs, Ended, PostFirst, PostApi, PostUi
  <2>3. me.pc \notin StopPcs \cup Ended
    BY <2>2 DEF Allowed
  <2> QED
    BY <2>3 DEF LocalOK
<1>8. you.pc \in PostFirst => Answered(you.cmd, you.ui)
  BY <1>7, ActsNeeds DEF LocalOK, Allowed, Answered
<1>5. you.pc \in PostApi => Mediated(you.cmd, you.ui)
  <2>1. you.pc \in PostApi => you.pc \in PostFirst
    BY DEF PostFirst
  <2> QED
    BY <1>7, <2>1, ActsNeeds DEF LocalOK, Allowed, Mediated
<1>6. you.pc \in PostUi => Reached(you.cmd, you.ui)
  <2>1. ~UiNeeded(me.cmd, "webui") => WebLaunch(me.cmd) = NoRunner
    BY DEF UiNeeded
  <2> QED
    BY <2>1 DEF LocalOK, Allowed, Reached
<1> QED
  BY <1>1, <1>2, <1>3, <1>4, <1>5, <1>6, <1>8 DEF LocalOK

-----------------------------------------------------------------------------
\* Steps that leave the gateway's record, and stop or report nothing.
RecTable == rec = [s \in Services |-> rec[s]]
Base == CliTable /\ RecTable /\ Numbered(proc, born)

Quiet ==
    /\ RecTable' /\ rec'["gateway"] = rec["gateway"]
    /\ launched' = launched /\ disturbed' = disturbed
Passes == Follows(proc, born, proc', born')
Changes(c, ch) == Only(c) /\ Becomes(cli[c], ch, cli'[c])

GatewayPcs == {"kill", "launcher", "forget", "detect", "stophost", "launch", "capture", "confirm",
               "record"}
Reports == {"done", "uirest"}

Plain(me, you) ==
    \/ you.pc \in {"failed", "crashed"} /\ you.named = {}
    \/ /\ you.named = me.named
       /\ (you.all = me.all /\ me.pc # "kill") \/ you.all = FALSE
       /\ me.pc \notin Ended /\ you.pc \notin Reports

LocalStep(c) == Only(c) /\ LocalOK(cli'[c], born') /\ Plain(cli[c], cli'[c]) /\ Passes
OrdinaryStep(c) == LocalStep(c) /\ Quiet /\ cli'[c].pc \notin GatewayPcs

LEMMA RecChanges ==
  ASSUME RecTable, NEW s, NEW r, rec' = [rec EXCEPT ![s] = r]
  PROVE  /\ RecTable'
         /\ \A t \in Services : rec'[t] = IF t = s THEN r ELSE rec[t]
<1>1. rec' = [t \in Services |-> IF t = s THEN r ELSE rec[t]]
  BY DEF RecTable
<1> QED
  BY <1>1 DEF RecTable

LEMMA Stays == ASSUME Base, UNCHANGED <<proc, born>> PROVE Passes
  BY ShrinksFacts, ShrinksFollows DEF Base, Numbered, Passes

LEMMA Same == ASSUME Base, UNCHANGED <<rec, launched, disturbed>> PROVE Quiet
  BY DEF Base, RecTable, Quiet

LEMMA RecQuiet ==
  ASSUME Base, NEW s, NEW r, rec' = [rec EXCEPT ![s] = r], s # "gateway",
         UNCHANGED <<launched, disturbed>>
  PROVE  Quiet
<1>1. "gateway" \in Services
  BY DEF Services
<1> QED
  BY <1>1, RecChanges DEF Base, Quiet

LEMMA ProceedFacts ==
  ASSUME Base, NEW c \in Clis, NEW ch, Proceed(c, ch)
  PROVE  Changes(c, ch) /\ Quiet /\ Passes /\ UNCHANGED <<proc, rec, born>>
  BY Stays, Same, StepChanges DEF Base, Proceed, Changes

LEMMA WriteFacts ==
  ASSUME Base, NEW c \in Clis, NEW ch, NEW s, NEW r, Write(c, s, r, ch)
  PROVE  /\ Changes(c, ch) /\ Passes /\ RecTable' /\ UNCHANGED <<proc, born, launched, disturbed>>
         /\ \A t \in Services : rec'[t] = IF t = s THEN r ELSE rec[t]
         /\ s # "gateway" => Quiet
<1>1. Changes(c, ch) /\ Passes /\ UNCHANGED <<proc, born, launched, disturbed>>
  BY Stays, StepChanges DEF Base, Write, Changes
<1>2. RecTable' /\ \A t \in Services : rec'[t] = IF t = s THEN r ELSE rec[t]
  BY RecChanges DEF Base, Write
<1>3. s # "gateway" => Quiet
  BY <1>1, <1>2 DEF Quiet, Services
<1> QED
  BY <1>1, <1>2, <1>3

LEMMA ExitFacts ==
  ASSUME Base, NEW c \in Clis, NEW pc, Exit(c, pc), born' = born
  PROVE  Only(c) /\ Ends(cli[c], pc, cli'[c]) /\ Passes /\ Shrinks(proc, proc')
<1>1. Only(c) /\ Ends(cli[c], pc, cli'[c])
  BY EndingChanges DEF Base, Exit
<1>2. Shrinks(proc, Orphaned(proc, c))
  BY Losses DEF Base, Numbered
<1> QED
  BY <1>1, <1>2, ShrinksFollows DEF Exit, Base, Numbered, Passes

LEMMA FailedOrdinary ==
  ASSUME Base, NEW c \in Clis, LocalOK(cli[c], born), NEW pc \in {"failed", "crashed"},
         Only(c), Ends(cli[c], pc, cli'[c]), Quiet, Passes, born' = born
  PROVE  OrdinaryStep(c)
<1>1. LocalOK(cli'[c], born)
  BY LocalEnds DEF Base, Numbered
<1>2. Plain(cli[c], cli'[c]) /\ cli'[c].pc \notin GatewayPcs
  BY DEF Plain, Ends, GatewayPcs
<1> QED
  BY <1>1, <1>2 DEF OrdinaryStep, LocalStep

LEMMA QuitOrdinary ==
  ASSUME Base, NEW c \in Clis, LocalOK(cli[c], born), Quit(c, "failed")
  PROVE  OrdinaryStep(c)
<1>1. Exit(c, "failed") /\ UNCHANGED <<born, rec, launched, disturbed>>
  BY DEF Quit
<1> QED
  BY <1>1, ExitFacts, Same, FailedOrdinary

\* A step on to `to', having changed what it knows of no service.
Minor == {"pc", "pid", "child", "plan", "scan"}

LEMMA OnLocal ==
  ASSUME Base, NEW c \in Clis, LocalOK(cli[c], born), NEW ch, Changes(c, ch), Passes,
         DOMAIN ch \subseteq Minor, "pc" \in DOMAIN ch,
         Allowed(cli[c].pc, ch.pc, cli[c].cmd), cli[c].pc # "kill", ch.pc \notin Reports
  PROVE  LocalStep(c) /\ cli'[c].pc = ch.pc
<1>1. PICK me, you : me = cli[c] /\ you = cli'[c]
  OBVIOUS
<1>2. /\ Becomes(me, ch, you) /\ LocalOK(me, born) /\ Allowed(me.pc, ch.pc, me.cmd)
      /\ me.pc # "kill"
  BY <1>1 DEF Changes
<1>3. /\ "cmd" \notin DOMAIN ch /\ "named" \notin DOMAIN ch /\ "since" \notin DOMAIN ch
      /\ "ui" \notin DOMAIN ch /\ "all" \notin DOMAIN ch
  BY DEF Minor
<1>4. /\ you.cmd = me.cmd /\ you.named = me.named /\ you.since = me.since /\ you.ui = me.ui
      /\ you.all = me.all /\ you.pc = ch.pc
  BY <1>2, <1>3 DEF Becomes
<1>5. born \in Nat
  BY DEF Base, Numbered
<1>6. LocalOK(you, born)
  BY <1>2, <1>4, <1>5, LocalAllowed
<1>7. Plain(me, you)
  BY <1>2, <1>4 DEF Plain, Allowed
<1>8. Only(c)
  BY DEF Changes
<1>9. born' \in Nat /\ born <= born'
  BY FollowsNumbered DEF Base, Passes
<1>10. LocalOK(you, born')
  BY <1>5, <1>6, <1>9, LocalLater
<1> QED
  BY <1>1, <1>4, <1>7, <1>8, <1>10 DEF LocalStep

LEMMA OnOrdinary ==
  ASSUME Base, NEW c \in Clis, LocalOK(cli[c], born), NEW ch, Changes(c, ch), Quiet, Passes,
         DOMAIN ch \subseteq Minor, "pc" \in DOMAIN ch,
         Allowed(cli[c].pc, ch.pc, cli[c].cmd), cli[c].pc # "kill",
         ch.pc \notin Reports \cup GatewayPcs
  PROVE  OrdinaryStep(c)
<1>1. LocalStep(c) /\ cli'[c].pc = ch.pc
  BY OnLocal
<1> QED
  BY <1>1 DEF OrdinaryStep

\* A child is started, or that fails.
LEMMA SpawnFacts ==
  ASSUME Base, SceneAssumption, NEW c \in Clis, NEW kind \in Kinds, NEW pc, NEW failure,
         Spawn(c, kind, pc, failure)
  PROVE  \/ /\ Quiet /\ Passes
            /\ \E p : Changes(c, [pc |-> pc, child |-> p])
         \/ failure = "failed" /\ Quit(c, failure)
         \/ failure # "failed" /\ Proceed(c, [pc |-> failure])
<1>1. CASE failure = "failed" /\ Quit(c, failure)
  BY <1>1
<1>2. CASE failure # "failed" /\ Proceed(c, [pc |-> failure])
  BY <1>2
<1>3. CASE /\ \E p \in NewPids : proc' = Spawned(p, kind, c) /\ Step(c, [pc |-> pc, child |-> p])
           /\ born' = born + 1
           /\ UNCHANGED <<rec, launched, disturbed>>
  <2>1. PICK p \in NewPids : proc' = Spawned(p, kind, c) /\ Step(c, [pc |-> pc, child |-> p])
    BY <1>3
  <2>2. p \in Pids /\ c \in Nat
    BY SceneAssumption DEF NewPids, FreePids
  <2>3. proc \in Table /\ born \in Nat
    BY DEF Base, Numbered
  <2>4. Passes
    BY <1>3, <2>1, <2>2, <2>3, SpawnedFollows DEF Passes
  <2>5. Changes(c, [pc |-> pc, child |-> p])
    BY <2>1, StepChanges DEF Base, Changes
  <2>6. Quiet
    BY <1>3, Same
  <2> QED
    BY <2>4, <2>5, <2>6
<1> QED
  BY <1>1, <1>2, <1>3 DEF Spawn

-----------------------------------------------------------------------------
\* The bridges.
LEMMA BridgeOrdinary ==
  ASSUME Base, SceneAssumption, NEW c \in Clis, LocalOK(cli[c], born), BridgeSteps(c)
  PROVE  OrdinaryStep(c)
<1>1. Bridge(c) # "gateway" /\ Bridge(c) \in Services /\ "bridge" \in Kinds
      /\ BridgeFailed(c) \in {"failed", "webui"}
  BY DEF Bridge, Services, Kinds, BridgeFailed
<1>2. CASE BridgeUnneeded(c)
  <2>1. cli[c].pc = "bridge" /\ Proceed(c, [pc |-> "webui"])
    BY <1>2 DEF BridgeUnneeded, At
  <2>2. Allowed("bridge", "webui", cli[c].cmd)
    BY UiPcs DEF Allowed, Ended, Unsure, UiStopPcs, StopPcs, UiPoints, PostFirst, PostApi, PostUi
  <2> QED
    BY <2>1, <2>2, ProceedFacts, OnOrdinary DEF Minor, Reports, GatewayPcs
<1>3. CASE BridgeClear(c)
  <2>1. cli[c].pc = "bridge" /\ Write(c, Bridge(c), NoRecord, [pc |-> "bridgespawn"])
    BY <1>3 DEF BridgeClear, At
  <2>2. Allowed("bridge", "bridgespawn", cli[c].cmd)
    BY UiPcs DEF Allowed, Ended, Unsure, UiStopPcs, StopPcs, UiPoints, PostFirst, PostApi, PostUi
  <2> QED
    BY <1>1, <2>1, <2>2, WriteFacts, OnOrdinary DEF Minor, Reports, GatewayPcs
<1>4. CASE BridgeSpawn(c)
  <2>1. cli[c].pc = "bridgespawn" /\ Spawn(c, "bridge", "bridgerecord", BridgeFailed(c))
    BY <1>4 DEF BridgeSpawn, At
  <2>2. /\ Allowed("bridgespawn", "bridgerecord", cli[c].cmd)
        /\ Allowed("bridgespawn", "webui", cli[c].cmd)
    BY UiPcs DEF Allowed, Ended, Unsure, UiStopPcs, StopPcs, UiPoints, PostFirst, PostApi, PostUi
  <2>3. CASE Quiet /\ Passes /\ \E p : Changes(c, [pc |-> "bridgerecord", child |-> p])
    <3>1. PICK p : Changes(c, [pc |-> "bridgerecord", child |-> p])
      BY <2>3
    <3> QED
      BY <2>1, <2>2, <2>3, <3>1, OnOrdinary DEF Minor, Reports, GatewayPcs
  <2>4. CASE BridgeFailed(c) = "failed" /\ Quit(c, "failed")
    BY <2>4, QuitOrdinary
  <2>5. CASE BridgeFailed(c) = "webui" /\ Proceed(c, [pc |-> "webui"])
    BY <2>1, <2>2, <2>5, ProceedFacts, OnOrdinary DEF Minor, Reports, GatewayPcs
  <2> QED
    BY <1>1, <2>1, <2>3, <2>4, <2>5, SpawnFacts
<1>5. CASE BridgeRecord(c)
  <2>1. /\ cli[c].pc = "bridgerecord"
        /\ Write(c, Bridge(c), Record(cli[c].child, NoPid), [pc |-> "bridgewait"])
    BY <1>5 DEF BridgeRecord, At
  <2>2. Allowed("bridgerecord", "bridgewait", cli[c].cmd)
    BY UiPcs DEF Allowed, Ended, Unsure, UiStopPcs, StopPcs, UiPoints, PostFirst, PostApi, PostUi
  <2> QED
    BY <1>1, <2>1, <2>2, WriteFacts, OnOrdinary DEF Minor, Reports, GatewayPcs
<1>6. CASE BridgeUp(c)
  <2>1. cli[c].pc = "bridgewait" /\ Proceed(c, [pc |-> "webui"])
    BY <1>6 DEF BridgeUp, At
  <2>2. Allowed("bridgewait", "webui", cli[c].cmd)
    BY UiPcs DEF Allowed, Ended, Unsure, UiStopPcs, StopPcs, UiPoints, PostFirst, PostApi, PostUi
  <2> QED
    BY <2>1, <2>2, ProceedFacts, OnOrdinary DEF Minor, Reports, GatewayPcs
<1>7. CASE BridgeLost(c)
  <2>1. PICK killed : proc' = LET table == Exited(proc, killed)
                              IN  IF BridgeFailed(c) = "failed" THEN Orphaned(table, c) ELSE table
    BY <1>7 DEF BridgeLost
  <2>2. /\ cli[c].pc = "bridgewait" /\ rec' = [rec EXCEPT ![Bridge(c)] = NoRecord]
        /\ IF BridgeFailed(c) = "failed" THEN Ending(c, "failed") ELSE Goto(c, "webui")
        /\ UNCHANGED <<born, launched, disturbed>>
    BY <1>7 DEF BridgeLost, At
  <2>3. proc \in Table /\ born \in Nat
    BY DEF Base, Numbered
  <2>4. Shrinks(proc, proc')
    BY <2>1, <2>3, Losses
  <2>5. Passes
    BY <2>2, <2>3, <2>4, ShrinksFollows DEF Passes
  <2>6. Quiet
    BY <1>1, <2>2, RecQuiet
  <2>7. CASE BridgeFailed(c) = "failed"
    <3>1. Ending(c, "failed")
      BY <2>2, <2>7
    <3>2. Only(c) /\ Ends(cli[c], "failed", cli'[c])
      BY <3>1, EndingChanges DEF Base
    <3> QED
      BY <2>2, <2>5, <2>6, <3>2, FailedOrdinary
  <2>8. CASE BridgeFailed(c) # "failed"
    <3>1. Changes(c, [pc |-> "webui"])
      BY <2>2, <2>8, StepChanges DEF Base, Changes, Goto
    <3>2. Allowed("bridgewait", "webui", cli[c].cmd)
      BY UiPcs DEF Allowed, Ended, Unsure, UiStopPcs, StopPcs, UiPoints, PostFirst, PostApi, PostUi
    <3> QED
      BY <2>2, <2>5, <2>6, <3>1, <3>2, OnOrdinary DEF Minor, Reports, GatewayPcs
  <2> QED
    BY <2>7, <2>8
<1> QED
  BY <1>2, <1>3, <1>4, <1>5, <1>6, <1>7 DEF BridgeSteps

-----------------------------------------------------------------------------
\* A start is given up.
LEMMA AbandonOrdinary ==
  ASSUME Base, NEW c \in Clis, LocalOK(cli[c], born), NEW killed, AbandonStart(c, killed),
         cli[c].pc \in {"capture", "confirm"}
  PROVE  OrdinaryStep(c)
<1>1. PICK me, you : me = cli[c] /\ you = cli'[c]
  OBVIOUS
<1>2. proc' = Exited(proc, killed) /\ UNCHANGED <<born, rec, launched, disturbed>>
  BY DEF AbandonStart
<1>3. Changes(c, [pc |-> "stop", plan |-> <<"bridge">>, all |-> FALSE, child |-> NoPid])
  BY StepChanges DEF Base, AbandonStart, Changes
<1>4. /\ you.cmd = me.cmd /\ you.named = me.named /\ you.since = me.since /\ you.ui = me.ui
      /\ you.all = FALSE /\ you.pc = "stop"
  BY <1>1, <1>3 DEF Changes, Becomes
<1>5. proc \in Table /\ born \in Nat
  BY DEF Base, Numbered
<1>6. Shrinks(proc, proc')
  BY <1>2, <1>5, Losses
<1>7. Passes
  BY <1>2, <1>5, <1>6, ShrinksFollows DEF Passes
<1>8. Quiet
  BY <1>2, Same
<1>9. Allowed(me.pc, "stop", me.cmd)
  BY <1>1, UiPcs DEF Allowed, Ended, Unsure, UiStopPcs, StopPcs, UiPoints, PostFirst, PostApi, PostUi
<1>10. LocalOK(you, born)
  BY <1>1, <1>4, <1>5, <1>9, LocalAllowed DEF Unsure, StopPcs
<1>11. Plain(me, you)
  BY <1>1, <1>4 DEF Plain, Reports, Ended
<1> QED
  BY <1>1, <1>2, <1>3, <1>4, <1>7, <1>8, <1>10, <1>11
     DEF OrdinaryStep, LocalStep, GatewayPcs, Changes

-----------------------------------------------------------------------------
\* The gateway's start, but for where it reports success.
LEMMA GatewayCheckLocal ==
  ASSUME Base, NEW c \in Clis, LocalOK(cli[c], born), GatewayCheck(c)
  PROVE  \/ OrdinaryStep(c)
         \/ /\ LocalStep(c) /\ cli'[c].pc = "detect" /\ ~Exists(rec["gateway"].pid)
            /\ RecTable' /\ UNCHANGED <<proc, born, launched, disturbed>>
<1>1. cli[c].pc = "spawn"
  BY DEF GatewayCheck, At
<1>2. CASE Refused("gateway")
  BY <1>2, QuitOrdinary DEF GatewayCheck
<1>3. CASE ~Refused("gateway")
  <2>1. Write(c, "gateway", NoRecord, [pc |-> "detect"])
    BY <1>3 DEF GatewayCheck
  <2>2. Allowed("spawn", "detect", cli[c].cmd)
    BY UiPcs DEF Allowed, Ended, Unsure, UiStopPcs, StopPcs, UiPoints, PostFirst, PostApi, PostUi
  <2>3. LocalStep(c) /\ cli'[c].pc = "detect"
    BY <1>1, <2>1, <2>2, WriteFacts, OnLocal DEF Minor, Reports
  <2> QED
    BY <1>3, <2>1, <2>3, WriteFacts DEF Refused
<1> QED
  BY <1>2, <1>3

\* Between that check and success nothing is put on record.
Starting == {"detect", "stophost", "launch", "capture", "confirm", "record"}

LEMMA StartingLocal ==
  ASSUME Base, SceneAssumption, NEW c \in Clis, LocalOK(cli[c], born),
         \/ Detect(c) \/ StopHostGateway(c) \/ Launch(c) \/ Capture(c) \/ CaptureFails(c)
         \/ Confirm(c)
  PROVE  \/ OrdinaryStep(c)
         \/ LocalStep(c) /\ cli[c].pc \in Starting /\ cli'[c].pc \in Starting /\ Quiet
<1>1. CASE Detect(c)
  <2>0. cli[c].pc = "detect"
    BY <1>1 DEF Detect, At
  <2>1. CASE \E p \in Listening("gateway") : Proceed(c, [pc |-> "record", pid |-> p, child |-> p])
    <3>1. PICK p : Proceed(c, [pc |-> "record", pid |-> p, child |-> p])
      BY <2>1
    <3>2. Allowed("detect", "record", cli[c].cmd)
      BY UiPcs DEF Allowed, Ended, Unsure, UiStopPcs, StopPcs, UiPoints, PostFirst, PostApi, PostUi
    <3>3. LocalStep(c) /\ cli'[c].pc = "record"
      BY <2>0, <3>1, <3>2, ProceedFacts, OnLocal DEF Minor, Reports
    <3> QED
      BY <2>0, <3>1, <3>3, ProceedFacts DEF Starting
  <2>2. CASE Proceed(c, [pc |-> "stophost"])
    <3>2. Allowed("detect", "stophost", cli[c].cmd)
      BY UiPcs DEF Allowed, Ended, Unsure, UiStopPcs, StopPcs, UiPoints, PostFirst, PostApi, PostUi
    <3>3. LocalStep(c) /\ cli'[c].pc = "stophost"
      BY <2>0, <2>2, <3>2, ProceedFacts, OnLocal DEF Minor, Reports
    <3> QED
      BY <2>0, <2>2, <3>3, ProceedFacts DEF Starting
  <2> QED
    BY <1>1, <2>1, <2>2 DEF Detect
<1>6. CASE StopHostGateway(c)
  <2>1. PICK killed : proc' = Exited(proc, killed)
    BY <1>6 DEF StopHostGateway
  <2>2. /\ cli[c].pc = "stophost" /\ Goto(c, "launch")
        /\ UNCHANGED <<born, rec, launched, disturbed>>
    BY <1>6 DEF StopHostGateway, At
  <2>3. proc \in Table /\ born \in Nat
    BY DEF Base, Numbered
  <2>4. Shrinks(proc, proc')
    BY <2>1, <2>3, Losses
  <2>5. Passes
    BY <2>2, <2>3, <2>4, ShrinksFollows DEF Passes
  <2>6. Quiet
    BY <2>2, Same
  <2>7. Changes(c, [pc |-> "launch"])
    BY <2>2, StepChanges DEF Base, Changes, Goto
  <2>8. Allowed("stophost", "launch", cli[c].cmd)
    BY UiPcs DEF Allowed, Ended, Unsure, UiStopPcs, StopPcs, UiPoints, PostFirst, PostApi, PostUi
  <2>9. LocalStep(c) /\ cli'[c].pc = "launch"
    BY <2>2, <2>5, <2>6, <2>7, <2>8, OnLocal DEF Minor, Reports
  <2> QED
    BY <2>2, <2>6, <2>9 DEF Starting
<1>2. CASE Launch(c)
  <2>1. cli[c].pc = "launch" /\ Spawn(c, "gateway launcher", "capture", "failed")
    BY <1>2 DEF Launch, At
  <2>2. CASE Quit(c, "failed")
    BY <2>2, QuitOrdinary
  <2>3. CASE Quiet /\ Passes /\ \E p : Changes(c, [pc |-> "capture", child |-> p])
    <3>0. Quiet /\ Passes
      BY <2>3
    <3>1. PICK p : Changes(c, [pc |-> "capture", child |-> p])
      BY <2>3
    <3>2. Allowed("launch", "capture", cli[c].cmd)
      BY UiPcs DEF Allowed, Ended, Unsure, UiStopPcs, StopPcs, UiPoints, PostFirst, PostApi, PostUi
    <3>3. cli[c].pc = "launch"
      BY <2>1
    <3>4. PICK ch : ch = [pc |-> "capture", child |-> p]
      OBVIOUS
    <3>5. Changes(c, ch) /\ ch.pc = "capture" /\ DOMAIN ch = {"pc", "child"}
      BY <3>1, <3>4
    <3>6. LocalStep(c) /\ cli'[c].pc = "capture"
      BY <3>0, <3>2, <3>3, <3>5, OnLocal DEF Minor, Reports
    <3> QED
      BY <3>0, <3>3, <3>6 DEF Starting
  <2>4. "gateway launcher" \in Kinds
    BY DEF Kinds
  <2> QED
    BY <2>1, <2>2, <2>3, <2>4, SpawnFacts
<1>3. CASE Capture(c)
  <2>1. cli[c].pc = "capture" /\ \E p : Proceed(c, [pc |-> "confirm", pid |-> p])
    BY <1>3 DEF Capture, At
  <2>2. PICK p : Proceed(c, [pc |-> "confirm", pid |-> p])
    BY <2>1
  <2>3. Allowed("capture", "confirm", cli[c].cmd)
    BY UiPcs DEF Allowed, Ended, Unsure, UiStopPcs, StopPcs, UiPoints, PostFirst, PostApi, PostUi
  <2>4. LocalStep(c) /\ cli'[c].pc = "confirm"
    BY <2>1, <2>2, <2>3, ProceedFacts, OnLocal DEF Minor, Reports
  <2> QED
    BY <2>1, <2>2, <2>4, ProceedFacts DEF Starting
<1>4. CASE CaptureFails(c)
  BY <1>4, AbandonOrdinary DEF CaptureFails, At
<1>5. CASE Confirm(c)
  <2>1. cli[c].pc = "confirm"
    BY <1>5 DEF Confirm, At
  <2>2. CASE AbandonStart(c, {})
    BY <2>1, <2>2, AbandonOrdinary
  <2>3. CASE Proceed(c, [pc |-> "record"])
    <3>2. Allowed("confirm", "record", cli[c].cmd)
      BY UiPcs DEF Allowed, Ended, Unsure, UiStopPcs, StopPcs, UiPoints, PostFirst, PostApi, PostUi
    <3>3. LocalStep(c) /\ cli'[c].pc = "record"
      BY <2>1, <2>3, <3>2, ProceedFacts, OnLocal DEF Minor, Reports
    <3> QED
      BY <2>1, <2>3, <3>3, ProceedFacts DEF Starting
  <2> QED
    BY <1>5, <2>2, <2>3 DEF Confirm
<1> QED
  BY <1>1, <1>2, <1>3, <1>4, <1>5, <1>6

-----------------------------------------------------------------------------
\* Success is reported.
DoneStep(c) ==
    /\ Only(c) /\ Ends(cli[c], "done", cli'[c]) /\ Passes /\ born' = born
    /\ cli[c].all /\ cli[c].pc # "kill" /\ cli[c].pc \notin Ended
    /\ cli[c].pc \in UiStopPcs => cli[c].pc = "uirest" /\ cli[c].scan = {}

LEMMA DoneFacts ==
  ASSUME Base, NEW c \in Clis, LocalOK(cli[c], born), Exit(c, "done"), born' = born,
         cli[c].pc \notin Unsure \cup UiStopPcs \cup Ended
  PROVE  DoneStep(c)
<1>1. cli[c].all
  BY DEF LocalOK
<1>2. cli[c].pc # "kill"
  BY DEF Unsure, StopPcs
<1> QED
  BY <1>1, <1>2, ExitFacts DEF DoneStep

-----------------------------------------------------------------------------
\* A browser session's start.
WebSteps(c) == WebCheck(c) \/ WebSpawn(c) \/ WebPort(c) \/ WebUp(c) \/ WebFails(c) \/ WebRecord(c)

LEMMA WebOrdinary ==
  ASSUME Base, SceneAssumption, NEW c \in Clis, LocalOK(cli[c], born), WebSteps(c)
  PROVE  OrdinaryStep(c) \/ (DoneStep(c) /\ Quiet)
<1>1. Session(c) # "gateway"
  BY DEF Session, WebLaunch, NoRunner
<1>2. CASE WebCheck(c)
  <2>1. cli[c].pc = "spawn"
    BY <1>2 DEF WebCheck, At
  <2>2. CASE Quit(c, "failed")
    BY <2>2, QuitOrdinary
  <2>3. CASE /\ rec' = [rec EXCEPT ![Session(c)] = NoRecord]
             /\ Exit(c, "failed")
             /\ UNCHANGED <<born, launched, disturbed>>
    <3>1. Quiet
      BY <1>1, <2>3, RecQuiet
    <3> QED
      BY <2>3, <3>1, ExitFacts, FailedOrdinary
  <2>4. CASE Write(c, Session(c), NoRecord, [pc |-> "weblaunch"])
    <3>1. Allowed("spawn", "weblaunch", cli[c].cmd)
      BY UiPcs DEF Allowed, Ended, Unsure, UiStopPcs, StopPcs, UiPoints, PostFirst, PostApi, PostUi
    <3> QED
      BY <1>1, <2>1, <2>4, <3>1, WriteFacts, OnOrdinary DEF Minor, Reports, GatewayPcs
  <2> QED
    BY <1>2, <2>2, <2>3, <2>4 DEF WebCheck
<1>3. CASE WebSpawn(c)
  <2>1. PICK kind \in Kinds : Spawn(c, kind, "webport", "failed")
    BY <1>3 DEF WebSpawn, Kinds
  <2>2. cli[c].pc = "weblaunch"
    BY <1>3 DEF WebSpawn, At
  <2>3. CASE Quit(c, "failed")
    BY <2>3, QuitOrdinary
  <2>4. CASE Quiet /\ Passes /\ \E p : Changes(c, [pc |-> "webport", child |-> p])
    <3>0. Quiet /\ Passes
      BY <2>4
    <3>1. PICK p : Changes(c, [pc |-> "webport", child |-> p])
      BY <2>4
    <3>2. Allowed("weblaunch", "webport", cli[c].cmd)
      BY UiPcs DEF Allowed, Ended, Unsure, UiStopPcs, StopPcs, UiPoints, PostFirst, PostApi, PostUi
    <3> QED
      BY <2>2, <3>0, <3>1, <3>2, OnOrdinary DEF Minor, Reports, GatewayPcs
  <2> QED
    BY <2>1, <2>3, <2>4, SpawnFacts
<1>4. CASE WebPort(c)
  <2>1. PICK p : Proceed(c, [pc |-> "webwait", pid |-> p])
    BY <1>4 DEF WebPort
  <2>2. cli[c].pc = "webport"
    BY <1>4 DEF WebPort, At
  <2>3. Allowed("webport", "webwait", cli[c].cmd)
    BY UiPcs DEF Allowed, Ended, Unsure, UiStopPcs, StopPcs, UiPoints, PostFirst, PostApi, PostUi
  <2> QED
    BY <2>1, <2>2, <2>3, ProceedFacts, OnOrdinary DEF Minor, Reports, GatewayPcs
<1>5. CASE WebUp(c)
  <2>1. PICK p : Proceed(c, [pc |-> "webrecord", pid |-> p])
    BY <1>5 DEF WebUp
  <2>2. cli[c].pc = "webwait"
    BY <1>5 DEF WebUp, At
  <2>3. Allowed("webwait", "webrecord", cli[c].cmd)
    BY UiPcs DEF Allowed, Ended, Unsure, UiStopPcs, StopPcs, UiPoints, PostFirst, PostApi, PostUi
  <2> QED
    BY <2>1, <2>2, <2>3, ProceedFacts, OnOrdinary DEF Minor, Reports, GatewayPcs
<1>6. CASE WebFails(c)
  BY <1>6, QuitOrdinary DEF WebFails
<1>7. CASE WebRecord(c)
  <2>1. /\ cli[c].pc = "webrecord" /\ Exit(c, "done") /\ UNCHANGED <<born, launched, disturbed>>
        /\ rec' = [rec EXCEPT ![Session(c)] = Record(cli[c].pid, NoPid)]
    BY <1>7 DEF WebRecord, At
  <2>2. Quiet
    BY <1>1, <2>1, RecQuiet
  <2>3. DoneStep(c)
    BY <2>1, DoneFacts DEF Unsure, StopPcs, UiStopPcs, Ended
  <2> QED
    BY <2>2, <2>3
<1> QED
  BY <1>2, <1>3, <1>4, <1>5, <1>6, <1>7 DEF WebSteps

-----------------------------------------------------------------------------
\* The interface has answered.
LEMMA AnsweredOrdinary ==
  ASSUME Base, NEW c \in Clis, LocalOK(cli[c], born), NEW point \in UiPoints,
         UiNeeded(cli[c].cmd, point), cli[c].pc \in {point, WaitsUi[point]}, UiAnswers(c, point)
  PROVE  OrdinaryStep(c)
<1>1. PICK me, you : me = cli[c] /\ you = cli'[c]
  OBVIOUS
<1>2. PICK ch : ch = [pc |-> AfterUi[point],
                      ui |-> IF point = "api" \/ me.ui = "mediates" THEN "mediates" ELSE "answers"]
  OBVIOUS
<1>3. Proceed(c, ch)
  BY <1>1, <1>2 DEF UiAnswers
<1>4. Changes(c, ch) /\ Quiet /\ Passes /\ born' = born
  BY <1>3, ProceedFacts
<1>5. /\ you.cmd = me.cmd /\ you.named = me.named /\ you.since = me.since /\ you.all = me.all
      /\ you.pc = AfterUi[point]
      /\ you.ui = IF point = "api" \/ me.ui = "mediates" THEN "mediates" ELSE "answers"
  BY <1>1, <1>2, <1>4 DEF Changes, Becomes
<1>6. /\ LocalOK(me, born) /\ UiNeeded(me.cmd, point)
      /\ \/ point = "ui" /\ me.pc \in {"ui", "ui wait"} /\ you.pc = "auth"
         \/ point = "api" /\ me.pc \in {"api", "api wait"} /\ you.pc = "bridge"
         \/ point = "webui" /\ me.pc \in {"webui", "webui wait"} /\ you.pc = "spawn"
  BY <1>1, <1>5, UiPcs DEF UiPoints
<1>7. me.pc \notin Ended \cup Unsure \cup UiStopPcs \cup StopPcs
  BY <1>6 DEF Ended, Unsure, UiStopPcs, StopPcs
<1>8. /\ you.all = TRUE /\ you.pc \notin Ended \cup Unsure \cup UiStopPcs \cup StopPcs
      /\ \A q \in UiPoints : you.pc # WaitsUi[q]
  BY <1>5, <1>6, <1>7, UiPcs DEF Ended, Unsure, UiStopPcs, StopPcs, UiPoints, LocalOK
<1>9. Words(me.cmd) /\ ~Rules(me.cmd) /\ me.cmd # <<"stop", "ui">>
  BY <1>6, <1>7 DEF LocalOK
<1>10. ~Controls(me.cmd)
  BY <1>6, <1>9, ControlsNeedNothing
<1>11. you.pc \in PostApi => Mediated(you.cmd, you.ui)
  <2>1. CASE point = "ui"
    BY <1>6, <2>1 DEF PostApi, PostUi
  <2>2. CASE point = "api"
    BY <1>5, <2>2 DEF Mediated
  <2>3. CASE point = "webui"
    BY <1>5, <1>6, <2>3 DEF Mediated, LocalOK, PostApi
  <2> QED
    BY <2>1, <2>2, <2>3 DEF UiPoints
<1>12. Reached(you.cmd, you.ui) /\ Answered(you.cmd, you.ui)
  BY <1>5 DEF Reached, Answered
<1>13. LocalOK(you, born)
  BY <1>5, <1>6, <1>8, <1>9, <1>10, <1>11, <1>12 DEF LocalOK
<1>14. Plain(me, you)
  BY <1>5, <1>6, <1>7 DEF Plain, Reports
<1>15. you.pc \notin GatewayPcs
  BY <1>6 DEF GatewayPcs
<1> QED
  BY <1>1, <1>4, <1>13, <1>14, <1>15 DEF OrdinaryStep, LocalStep, Changes

-----------------------------------------------------------------------------
\* The Control Panel is wanted.
UiLaunchSteps(c) ==
    \/ UiStale(c)
    \/ \E point \in UiPoints :
        \/ UiUnneeded(c, point) \/ UiReady(c, point) \/ UiStart(c, point)
        \/ UiStarted(c, point) \/ UiGivenUp(c, point)

LEMMA UiLaunchOrdinary ==
  ASSUME Base, SceneAssumption, NEW c \in Clis, LocalOK(cli[c], born), UiLaunchSteps(c)
  PROVE  OrdinaryStep(c)
<1>1. CASE UiStale(c)
  BY <1>1, QuitOrdinary DEF UiStale
<1>2. ASSUME NEW point \in UiPoints, UiUnneeded(c, point)
      PROVE  OrdinaryStep(c)
  <2>1. /\ cli[c].pc = point /\ ~UiNeeded(cli[c].cmd, point)
        /\ Proceed(c, [pc |-> AfterUi[point]])
    BY <1>2 DEF UiUnneeded, At
  <2>2. /\ Allowed(point, AfterUi[point], cli[c].cmd)
        /\ AfterUi[point] \notin Reports \cup GatewayPcs
        /\ point # "kill"
    BY <2>1, UiPcs DEF Allowed, Ended, Unsure, UiStopPcs, StopPcs, UiPoints, PostFirst, PostApi, PostUi, Reports,
                   GatewayPcs
  <2> QED
    BY <2>1, <2>2, ProceedFacts, OnOrdinary DEF Minor
<1>3. ASSUME NEW point \in UiPoints, UiReady(c, point)
      PROVE  OrdinaryStep(c)
  BY <1>3, AnsweredOrdinary DEF UiReady, At
<1>4. ASSUME NEW point \in UiPoints, UiStarted(c, point)
      PROVE  OrdinaryStep(c)
  <2>1. cli[c].pc = WaitsUi[point] /\ UiAnswers(c, point)
    BY <1>4 DEF UiStarted, At
  <2>2. UiNeeded(cli[c].cmd, point)
    BY <2>1 DEF LocalOK
  <2> QED
    BY <2>1, <2>2, AnsweredOrdinary
<1>5. ASSUME NEW point \in UiPoints, UiStart(c, point)
      PROVE  OrdinaryStep(c)
  <2>1. cli[c].pc = point /\ UiNeeded(cli[c].cmd, point)
    BY <1>5 DEF UiStart, At
  <2>2. Spawn(c, "ui", WaitsUi[point], "failed")
    BY <1>5 DEF UiStart
  <2>3. /\ Allowed(point, WaitsUi[point], cli[c].cmd)
        /\ WaitsUi[point] \notin Reports \cup GatewayPcs
        /\ point # "kill"
    BY <2>1, UiPcs DEF Allowed, Ended, Unsure, UiStopPcs, StopPcs, UiPoints, PostFirst, PostApi, PostUi, Reports,
                   GatewayPcs
  <2>4. CASE Quit(c, "failed")
    BY <2>4, QuitOrdinary
  <2>5. CASE Quiet /\ Passes /\ \E p : Changes(c, [pc |-> WaitsUi[point], child |-> p])
    <3>1. Quiet /\ Passes
      BY <2>5
    <3>2. PICK p : Changes(c, [pc |-> WaitsUi[point], child |-> p])
      BY <2>5
    <3>3. PICK ch : ch = [pc |-> WaitsUi[point], child |-> p]
      OBVIOUS
    <3>4. Changes(c, ch) /\ ch.pc = WaitsUi[point] /\ DOMAIN ch = {"pc", "child"}
      BY <3>2, <3>3
    <3> QED
      BY <2>1, <2>3, <3>1, <3>4, OnOrdinary DEF Minor
  <2>6. "ui" \in Kinds
    BY DEF Kinds
  <2> QED
    BY <2>2, <2>4, <2>5, <2>6, SpawnFacts
<1>6. ASSUME NEW point \in UiPoints, UiGivenUp(c, point)
      PROVE  OrdinaryStep(c)
  <2>1. /\ \E killed : proc' = Orphaned(Exited(proc, killed), c)
        /\ Ending(c, "failed") /\ UNCHANGED <<born, rec, launched, disturbed>>
    BY <1>6 DEF UiGivenUp
  <2>2. proc \in Table /\ born \in Nat
    BY DEF Base, Numbered
  <2>3. Shrinks(proc, proc')
    BY <2>1, <2>2, Losses
  <2>4. Passes
    BY <2>1, <2>2, <2>3, ShrinksFollows DEF Passes
  <2>5. Only(c) /\ Ends(cli[c], "failed", cli'[c])
    BY <2>1, EndingChanges DEF Base
  <2> QED
    BY <2>1, <2>4, <2>5, Same, FailedOrdinary
<1> QED
  BY <1>1, <1>2, <1>3, <1>4, <1>5, <1>6 DEF UiLaunchSteps

-----------------------------------------------------------------------------
\* Stopping it: every interface that lives is found, and one is done with
\* only when it is gone.
ScanStep(c) ==
    LET me == cli[c]
        you == cli'[c]
    IN  /\ Only(c) /\ LocalOK(you, born') /\ Quiet /\ Passes /\ you.pc = "uirest"
        /\ you.named = me.named /\ you.since = me.since /\ you.cmd = me.cmd
        /\ you.all = me.all \/ you.all = FALSE
        /\ me.pc \in {"uiscan", "uirest"}
        /\ you.all => \A p \in Pids :
             Lives(proc', p) /\ proc'[p].kind = "ui" /\ (me.pc = "uirest" => p \in me.scan)
             => p \in you.scan

LEMMA Signals ==
  ASSUME Base, NEW p, UNCHANGED <<born, rec, launched, disturbed>>
  PROVE  /\ \A gone : UiKilled(p, gone) => Passes /\ Quiet /\ (p \in Pids => ~Lives(proc', p))
         /\ UiSurvives(p) => Passes /\ Quiet
<1>1. proc \in Table /\ born \in Nat /\ Quiet
  BY Same DEF Base, Numbered
<1>2. Shrinks(proc, proc) /\ Shrinks(proc, Exited(proc, {p}))
  BY <1>1, Losses, ShrinksFacts
<1>3. proc' \in {proc, Exited(proc, {p})} => Passes
  BY <1>1, <1>2, ShrinksFollows DEF Passes
<1>4. ASSUME NEW gone, UiKilled(p, gone), p \in Pids PROVE ~Lives(proc', p)
  <2>1. CASE HasEntry(p)
    <3>1. proc' = Exited(proc, {p})
      BY <1>4, <2>1 DEF UiKilled
    <3> QED
      BY <1>1, <1>4, <3>1, ExitedFollows
  <2>2. CASE ~HasEntry(p)
    <3>1. proc' = proc
      BY <1>4, <2>2 DEF UiKilled
    <3> QED
      BY <1>4, <2>2, <3>1 DEF HasEntry, Lives
  <2> QED
    BY <2>1, <2>2
<1>5. \A gone : UiKilled(p, gone) => proc' \in {proc, Exited(proc, {p})}
  BY DEF UiKilled
<1>6. UiSurvives(p) => proc' \in {proc, Exited(proc, {p})}
  BY <1>5 DEF UiSurvives
<1> QED
  BY <1>1, <1>3, <1>4, <1>5, <1>6

UiStopSteps(c) ==
    UiStopRead(c) \/ UiStopKill(c) \/ UiStopForget(c) \/ UiScan(c) \/ UiStopRest(c) \/ UiStopEnd(c)

LEMMA UiStopLocal ==
  ASSUME Base, NEW c \in Clis, LocalOK(cli[c], born), UiStopSteps(c)
  PROVE  OrdinaryStep(c) \/ ScanStep(c) \/ (DoneStep(c) /\ Quiet)
<1> DEFINE cmd == cli[c].cmd
<1>1. CASE UiStopRead(c)
  <2>1. cli[c].pc = "uifile"
    BY <1>1 DEF UiStopRead, At
  <2>2. Allowed("uifile", "uiscan", cmd) /\ Allowed("uifile", "uikill", cmd)
    BY UiPcs DEF Allowed, Ended, Unsure, UiStopPcs, StopPcs, UiPoints, PostFirst, PostApi, PostUi
  <2>3. CASE Proceed(c, [pc |-> "uiscan"])
    BY <2>1, <2>2, <2>3, ProceedFacts, OnOrdinary DEF Minor, Reports, GatewayPcs
  <2>4. CASE Quit(c, "failed")
    BY <2>4, QuitOrdinary
  <2>5. CASE Write(c, "ui", NoRecord, [pc |-> "uiscan"])
    BY <2>1, <2>2, <2>5, WriteFacts, OnOrdinary DEF Minor, Reports, GatewayPcs
  <2>6. CASE Proceed(c, [pc |-> "uikill", pid |-> rec["ui"].pid])
    BY <2>1, <2>2, <2>6, ProceedFacts, OnOrdinary DEF Minor, Reports, GatewayPcs
  <2> QED
    BY <1>1, <2>3, <2>4, <2>5, <2>6 DEF UiStopRead
<1>2. CASE UiStopKill(c)
  <2>1. cli[c].pc = "uikill" /\ UNCHANGED <<born, rec, launched, disturbed>>
    BY <1>2 DEF UiStopKill, At
  <2>2. CASE UiKilled(cli[c].pid, TRUE) /\ Step(c, [pc |-> "uiforget"])
    <3>1. Passes /\ Quiet
      BY <2>1, <2>2, Signals
    <3>2. Changes(c, [pc |-> "uiforget"])
      BY <2>2, StepChanges DEF Base, Changes
    <3>3. Allowed("uikill", "uiforget", cmd)
      BY UiPcs DEF Allowed, Ended, Unsure, UiStopPcs, StopPcs, UiPoints, PostFirst, PostApi, PostUi
    <3> QED
      BY <2>1, <3>1, <3>2, <3>3, OnOrdinary DEF Minor, Reports, GatewayPcs
  <2>3. CASE UiSurvives(cli[c].pid) /\ Step(c, [pc |-> "uiscan", all |-> FALSE])
    <3>1. Passes /\ Quiet
      BY <2>1, <2>3, Signals
    <3>2. Changes(c, [pc |-> "uiscan", all |-> FALSE])
      BY <2>3, StepChanges DEF Base, Changes
    <3>3. PICK me, you : me = cli[c] /\ you = cli'[c]
      OBVIOUS
    <3>4. /\ you.cmd = me.cmd /\ you.named = me.named /\ you.since = me.since /\ you.ui = me.ui
          /\ you.all = FALSE /\ you.pc = "uiscan"
      BY <3>2, <3>3 DEF Changes, Becomes
    <3>5. Allowed(me.pc, "uiscan", me.cmd)
      BY <2>1, <3>3, UiPcs DEF Allowed, Ended, Unsure, UiStopPcs, StopPcs, UiPoints, PostFirst, PostApi, PostUi
    <3>6. born \in Nat /\ LocalOK(you, born)
      BY <3>3, <3>4, <3>5, LocalAllowed DEF Unsure, Base, Numbered
    <3>7. Plain(me, you)
      BY <2>1, <3>3, <3>4 DEF Plain, Reports, Ended
    <3> QED
      BY <2>1, <3>1, <3>2, <3>3, <3>4, <3>6, <3>7
         DEF OrdinaryStep, LocalStep, GatewayPcs, Changes
  <2> QED
    BY <1>2, <2>2, <2>3 DEF UiStopKill
<1>3. CASE UiStopForget(c)
  <2>1. cli[c].pc = "uiforget" /\ Write(c, "ui", NoRecord, [pc |-> "uiscan"])
    BY <1>3 DEF UiStopForget, At
  <2>2. Allowed("uiforget", "uiscan", cmd)
    BY UiPcs DEF Allowed, Ended, Unsure, UiStopPcs, StopPcs, UiPoints, PostFirst, PostApi, PostUi
  <2> QED
    BY <2>1, <2>2, WriteFacts, OnOrdinary DEF Minor, Reports, GatewayPcs
<1>4. CASE UiScan(c)
  <2>1. cli[c].pc = "uiscan" /\ Proceed(c, [pc |-> "uirest", scan |-> Alive("ui")])
    BY <1>4 DEF UiScan, At
  <2>2. Changes(c, [pc |-> "uirest", scan |-> Alive("ui")]) /\ Quiet /\ Passes
        /\ proc' = proc /\ born' = born
    BY <2>1, ProceedFacts
  <2>3. PICK me, you : me = cli[c] /\ you = cli'[c]
    OBVIOUS
  <2>4. /\ you.cmd = me.cmd /\ you.named = me.named /\ you.since = me.since /\ you.ui = me.ui
        /\ you.all = me.all /\ you.pc = "uirest" /\ you.scan = Alive("ui")
    BY <2>2, <2>3 DEF Changes, Becomes
  <2>5. Allowed(me.pc, "uirest", me.cmd)
    BY <2>1, <2>3, UiPcs DEF Allowed, Ended, Unsure, UiStopPcs, StopPcs, UiPoints, PostFirst, PostApi, PostUi
  <2>6. born \in Nat /\ LocalOK(you, born)
    BY <2>3, <2>4, <2>5, LocalAllowed DEF Base, Numbered
  <2>7. \A p \in Pids : Lives(proc', p) /\ proc'[p].kind = "ui" => p \in you.scan
    BY <2>2, <2>4 DEF Alive, Exists, HasEntry, Lives
  <2> QED
    BY <2>1, <2>2, <2>3, <2>4, <2>6, <2>7 DEF ScanStep, Changes
<1>5. CASE UiStopRest(c)
  <2>1. PICK p : /\ \/ UiKilled(p, TRUE) /\ Step(c, [scan |-> cli[c].scan \ {p}])
                    \/ UiSurvives(p) /\ Step(c, [scan |-> cli[c].scan \ {p}, all |-> FALSE])
                 /\ UNCHANGED <<born, rec, launched, disturbed>>
    BY <1>5 DEF UiStopRest
  <2>2. cli[c].pc = "uirest"
    BY <1>5 DEF UiStopRest, At
  <2>3. PICK me, you : me = cli[c] /\ you = cli'[c]
    OBVIOUS
  <2>4. Allowed(me.pc, "uirest", me.cmd) /\ born \in Nat
    BY <2>2, <2>3, UiPcs DEF Allowed, Ended, Unsure, UiStopPcs, StopPcs, UiPoints, PostFirst, PostApi, PostUi,
                   Base, Numbered
  <2>5. CASE UiKilled(p, TRUE) /\ Step(c, [scan |-> cli[c].scan \ {p}])
    <3>1. Passes /\ Quiet /\ (p \in Pids => ~Lives(proc', p))
      BY <2>1, <2>5, Signals
    <3>2. Changes(c, [scan |-> me.scan \ {p}])
      BY <2>3, <2>5, StepChanges DEF Base, Changes
    <3>3. /\ you.cmd = me.cmd /\ you.named = me.named /\ you.since = me.since /\ you.ui = me.ui
          /\ you.all = me.all /\ you.pc = "uirest" /\ you.scan = me.scan \ {p}
      BY <2>2, <2>3, <3>2 DEF Changes, Becomes
    <3>4. LocalOK(you, born)
      BY <2>3, <2>4, <3>3, LocalAllowed
    <3>5. \A q \in Pids : Lives(proc', q) /\ q \in me.scan => q \in you.scan
      BY <3>1, <3>3
    <3> QED
      BY <2>1, <2>2, <2>3, <3>1, <3>2, <3>3, <3>4, <3>5 DEF ScanStep, Changes
  <2>6. CASE UiSurvives(p) /\ Step(c, [scan |-> cli[c].scan \ {p}, all |-> FALSE])
    <3>1. Passes /\ Quiet
      BY <2>1, <2>6, Signals
    <3>2. Changes(c, [scan |-> me.scan \ {p}, all |-> FALSE])
      BY <2>3, <2>6, StepChanges DEF Base, Changes
    <3>3. /\ you.cmd = me.cmd /\ you.named = me.named /\ you.since = me.since /\ you.ui = me.ui
          /\ you.all = FALSE /\ you.pc = "uirest"
      BY <2>2, <2>3, <3>2 DEF Changes, Becomes
    <3>4. LocalOK(you, born)
      BY <2>3, <2>4, <3>3, LocalAllowed DEF Unsure
    <3> QED
      BY <2>1, <2>2, <2>3, <3>1, <3>2, <3>3, <3>4 DEF ScanStep, Changes
  <2> QED
    BY <2>1, <2>5, <2>6
<1>6. CASE UiStopEnd(c)
  <2>1. cli[c].pc = "uirest" /\ cli[c].scan = {}
    BY <1>6 DEF UiStopEnd, At
  <2>2. CASE cli[c].all
    <3>1. Quit(c, "done")
      BY <1>6, <2>2 DEF UiStopEnd
    <3>2. Only(c) /\ Ends(cli[c], "done", cli'[c]) /\ Passes /\ born' = born /\ Quiet
      BY <3>1, ExitFacts, Same DEF Quit
    <3> QED
      BY <2>1, <2>2, <3>2 DEF DoneStep, Ended
  <2>3. CASE ~cli[c].all
    BY <1>6, <2>3, QuitOrdinary DEF UiStopEnd
  <2> QED
    BY <2>2, <2>3
<1> QED
  BY <1>1, <1>2, <1>3, <1>4, <1>5, <1>6 DEF UiStopSteps

-----------------------------------------------------------------------------
\* Stopping what is on record.  A record is read, and its process named.
ReadStep(c) ==
    LET me == cli[c]
        you == cli'[c]
        pid == rec[Head(me.plan)].pid
    IN  /\ Only(c) /\ LocalOK(you, born') /\ Quiet /\ UNCHANGED <<proc, rec, born>>
        /\ me.pc = "stop" /\ you.pc = (IF Exists(pid) THEN "kill" ELSE "launcher")
        /\ you.pid = pid /\ you.plan = me.plan /\ you.all = me.all
        /\ you.named = me.named \cup IdOf(pid)

LEMMA StopReadLocal ==
  ASSUME Base, NEW c \in Clis, LocalOK(cli[c], born), StopRead(c)
  PROVE  OrdinaryStep(c) \/ ReadStep(c)
<1> DEFINE s == Head(cli[c].plan)
           r == rec[s]
<1>1. cli[c].pc = "stop"
  BY DEF StopRead, At
<1>2. /\ Allowed("stop", "stop", cli[c].cmd) /\ Allowed("stop", "kill", cli[c].cmd)
      /\ Allowed("stop", "launcher", cli[c].cmd)
  BY UiPcs DEF Allowed, Ended, Unsure, UiStopPcs, StopPcs, UiPoints, PostFirst, PostApi, PostUi
<1>3. CASE Proceed(c, [plan |-> Rest(c)])
  <2>1. Changes(c, [plan |-> Rest(c)]) /\ Quiet /\ Passes
    BY <1>3, ProceedFacts
  <2>2. PICK me, you : me = cli[c] /\ you = cli'[c]
    OBVIOUS
  <2>3. /\ you.cmd = me.cmd /\ you.named = me.named /\ you.since = me.since /\ you.ui = me.ui
        /\ you.all = me.all /\ you.pc = "stop"
    BY <1>1, <2>1, <2>2 DEF Changes, Becomes
  <2>4. born \in Nat /\ born' = born /\ LocalOK(you, born)
    BY <1>1, <1>2, <1>3, <2>2, <2>3, LocalAllowed DEF Base, Numbered, Proceed
  <2>5. Plain(me, you) /\ you.pc \notin GatewayPcs
    BY <1>1, <2>2, <2>3 DEF Plain, Reports, Ended, GatewayPcs
  <2> QED
    BY <2>1, <2>2, <2>4, <2>5 DEF OrdinaryStep, LocalStep, Changes
<1>4. CASE Quit(c, "failed")
  BY <1>4, QuitOrdinary
<1>5. CASE s \in {"bridge", "rbridge"} /\ Write(c, s, NoRecord, [plan |-> Rest(c)])
  <2>1. Changes(c, [plan |-> Rest(c)]) /\ Quiet /\ Passes
    BY <1>5, WriteFacts
  <2>2. PICK me, you : me = cli[c] /\ you = cli'[c]
    OBVIOUS
  <2>3. /\ you.cmd = me.cmd /\ you.named = me.named /\ you.since = me.since /\ you.ui = me.ui
        /\ you.all = me.all /\ you.pc = "stop"
    BY <1>1, <2>1, <2>2 DEF Changes, Becomes
  <2>4. born \in Nat /\ born' = born /\ LocalOK(you, born)
    BY <1>1, <1>2, <1>5, <2>2, <2>3, LocalAllowed DEF Base, Numbered, Write
  <2>5. Plain(me, you) /\ you.pc \notin GatewayPcs
    BY <1>1, <2>2, <2>3 DEF Plain, Reports, Ended, GatewayPcs
  <2> QED
    BY <2>1, <2>2, <2>4, <2>5 DEF OrdinaryStep, LocalStep, Changes
<1>6. CASE Proceed(c, [pc |-> IF Exists(r.pid) THEN "kill" ELSE "launcher",
                       pid |-> r.pid, child |-> r.launcher,
                       named |-> cli[c].named \cup IdOf(r.pid)])
  <2>1. PICK me, you, pid : me = cli[c] /\ you = cli'[c] /\ pid = r.pid
    OBVIOUS
  <2>2. PICK ch : ch = [pc |-> IF Exists(pid) THEN "kill" ELSE "launcher",
                        pid |-> pid, child |-> r.launcher,
                        named |-> me.named \cup IdOf(pid)]
    OBVIOUS
  <2>3. Changes(c, ch) /\ Quiet /\ UNCHANGED <<proc, rec, born>>
    BY <1>6, <2>1, <2>2, ProceedFacts
  <2>4. /\ you.cmd = me.cmd /\ you.since = me.since /\ you.ui = me.ui /\ you.plan = me.plan
        /\ you.all = me.all /\ you.pc = (IF Exists(pid) THEN "kill" ELSE "launcher")
        /\ you.pid = pid /\ you.named = me.named \cup IdOf(pid)
    BY <2>1, <2>2, <2>3 DEF Changes, Becomes
  <2>5. me.named \subseteq 1..born /\ IdOf(pid) \subseteq 1..born
    BY <2>1 DEF LocalOK, IdOf, Exists, HasEntry, Base, Numbered, Lives
  <2>6. Allowed(me.pc, you.pc, me.cmd)
    BY <1>1, <1>2, <2>1, <2>4
  <2>7. born \in Nat /\ you.named \subseteq 1..born /\ LocalOK(me, born)
    BY <2>1, <2>4, <2>5 DEF Base, Numbered
  <2>8. LocalOK(you, born)
    BY <2>4, <2>6, <2>7, LocalAllowed
  <2> QED
    BY <1>1, <2>1, <2>3, <2>4, <2>8 DEF ReadStep, Changes
<1> QED
  BY <1>3, <1>4, <1>5, <1>6 DEF StopRead

\* Then signalled: it is gone, or the stop is not sure any more.
KillStep(c) ==
    LET me == cli[c]
        you == cli'[c]
    IN  /\ Only(c) /\ LocalOK(you, born') /\ Quiet /\ Passes
        /\ me.pc = "kill" /\ you.pc = "launcher" /\ you.named = me.named /\ you.plan = me.plan
        /\ \/ /\ you.all = me.all /\ you.pid = me.pid
              /\ me.pid \in Pids => ~Lives(proc', me.pid)
           \/ you.all = FALSE /\ you.pid = NoPid

LEMMA KillLocal ==
  ASSUME Base, NEW c \in Clis, LocalOK(cli[c], born), Kill(c)
  PROVE  KillStep(c)
<1>1. cli[c].pc = "kill"
  BY DEF Kill, At
<1>2. PICK me, you : me = cli[c] /\ you = cli'[c]
  OBVIOUS
<1>3. Allowed(me.pc, "launcher", me.cmd) /\ born \in Nat /\ proc \in Table
  BY <1>1, <1>2, UiPcs DEF Allowed, Ended, Unsure, UiStopPcs, StopPcs, UiPoints, PostFirst, PostApi, PostUi,
                 Base, Numbered
<1>4. CASE /\ proc' = IF Exists(me.pid) THEN Exited(proc, {me.pid}) ELSE proc
           /\ Step(c, [pc |-> "launcher"])
           /\ UNCHANGED <<born, rec, launched, disturbed>>
  <2>1. Changes(c, [pc |-> "launcher"])
    BY <1>4, StepChanges DEF Base, Changes
  <2>2. /\ you.cmd = me.cmd /\ you.named = me.named /\ you.since = me.since /\ you.ui = me.ui
        /\ you.all = me.all /\ you.pc = "launcher" /\ you.pid = me.pid /\ you.plan = me.plan
    BY <1>2, <2>1 DEF Changes, Becomes
  <2>3. LocalOK(you, born)
    BY <1>2, <1>3, <2>2, LocalAllowed
  <2>4. Shrinks(proc, proc')
    BY <1>3, <1>4, Losses, ShrinksFacts
  <2>5. Passes
    BY <1>3, <1>4, <2>4, ShrinksFollows DEF Passes
  <2>6. me.pid \in Pids => ~Lives(proc', me.pid)
    <3>1. CASE Exists(me.pid)
      BY <1>3, <1>4, <3>1, ExitedFollows
    <3>2. CASE ~Exists(me.pid)
      BY <1>4, <3>2 DEF Exists, HasEntry, Lives
    <3> QED
      BY <3>1, <3>2
  <2> QED
    BY <1>1, <1>2, <1>4, <2>1, <2>2, <2>3, <2>5, <2>6, Same DEF KillStep, Changes
<1>5. CASE Proceed(c, [pc |-> "launcher", all |-> FALSE, pid |-> NoPid])
  <2>1. /\ Changes(c, [pc |-> "launcher", all |-> FALSE, pid |-> NoPid]) /\ Quiet /\ Passes
        /\ born' = born
    BY <1>5, ProceedFacts
  <2>2. /\ you.cmd = me.cmd /\ you.named = me.named /\ you.since = me.since /\ you.ui = me.ui
        /\ you.all = FALSE /\ you.pc = "launcher" /\ you.pid = NoPid /\ you.plan = me.plan
    BY <1>2, <2>1 DEF Changes, Becomes
  <2>3. LocalOK(you, born)
    BY <1>2, <1>3, <2>2, LocalAllowed DEF Unsure, StopPcs
  <2> QED
    BY <1>1, <1>2, <2>1, <2>2, <2>3 DEF KillStep, Changes
<1> QED
  BY <1>2, <1>4, <1>5 DEF Kill

LEMMA KillLauncherLocal ==
  ASSUME Base, NEW c \in Clis, LocalOK(cli[c], born), KillLauncher(c)
  PROVE  /\ LocalStep(c) /\ Quiet /\ cli[c].pc = "launcher" /\ cli'[c].pc = "forget"
         /\ cli'[c].pid = cli[c].pid /\ cli'[c].plan = cli[c].plan
<1>1. /\ cli[c].pc = "launcher" /\ UNCHANGED <<born, rec, launched, disturbed>>
      /\ Step(c, [pc |-> "forget", child |-> NoPid])
  BY DEF KillLauncher, At
<1>2. proc' \in {proc, Exited(proc, {cli[c].child})}
  BY DEF KillLauncher
<1>3. Shrinks(proc, proc')
  BY <1>2, Losses, ShrinksFacts DEF Base, Numbered
<1>4. Passes /\ Quiet
  BY <1>1, <1>3, ShrinksFollows, Same DEF Passes, Base, Numbered
<1>5. Changes(c, [pc |-> "forget", child |-> NoPid])
  BY <1>1, StepChanges DEF Base, Changes
<1>6. Allowed("launcher", "forget", cli[c].cmd)
  BY UiPcs DEF Allowed, Ended, Unsure, UiStopPcs, StopPcs, UiPoints, PostFirst, PostApi, PostUi
<1>7. LocalStep(c) /\ cli'[c].pc = "forget"
  BY <1>1, <1>4, <1>5, <1>6, OnLocal DEF Minor, Reports
<1>8. cli'[c].pid = cli[c].pid /\ cli'[c].plan = cli[c].plan
  BY <1>5 DEF Changes, Becomes
<1> QED
  BY <1>1, <1>4, <1>7, <1>8

LEMMA ForgetLocal ==
  ASSUME Base, NEW c \in Clis, LocalOK(cli[c], born), Forget(c)
  PROVE  \/ OrdinaryStep(c)
         \/ /\ LocalStep(c) /\ cli'[c].pc \notin GatewayPcs /\ cli[c].pc = "forget"
            /\ Head(cli[c].plan) = "gateway" /\ cli[c].pid # NoPid
            /\ RecTable' /\ UNCHANGED <<proc, born, launched, disturbed>>
<1>1. cli[c].pc = "forget"
  BY DEF Forget, At
<1>2. Allowed("forget", "stop", cli[c].cmd)
  BY UiPcs DEF Allowed, Ended, Unsure, UiStopPcs, StopPcs, UiPoints, PostFirst, PostApi, PostUi
<1>3. CASE Proceed(c, [pc |-> "stop", plan |-> Rest(c)])
  BY <1>1, <1>2, <1>3, ProceedFacts, OnOrdinary DEF Minor, Reports, GatewayPcs
<1>4. CASE /\ cli[c].pid # NoPid
           /\ Write(c, Head(cli[c].plan), NoRecord, [pc |-> "stop", plan |-> Rest(c), pid |-> NoPid])
  <2>1. PICK ch : ch = [pc |-> "stop", plan |-> Rest(c), pid |-> NoPid]
    OBVIOUS
  <2>2. Write(c, Head(cli[c].plan), NoRecord, ch)
    BY <1>4, <2>1
  <2>3. /\ Changes(c, ch) /\ Passes /\ RecTable' /\ UNCHANGED <<proc, born, launched, disturbed>>
        /\ Head(cli[c].plan) # "gateway" => Quiet
    BY <2>2, WriteFacts
  <2>4. DOMAIN ch \subseteq Minor /\ "pc" \in DOMAIN ch /\ ch.pc = "stop"
    BY <2>1 DEF Minor
  <2>5. LocalStep(c) /\ cli'[c].pc = "stop"
    BY <1>1, <1>2, <2>3, <2>4, OnLocal DEF Reports
  <2> QED
    BY <1>1, <1>4, <2>3, <2>5 DEF OrdinaryStep, GatewayPcs
<1> QED
  BY <1>3, <1>4 DEF Forget

-----------------------------------------------------------------------------
\* The rest of an invocation's way.
WayStep(c) == StopEnd(c) \/ Check(c) \/ Authorize(c) \/ Execute(c) \/ Finish(c)

LEMMA WayOrdinary ==
  ASSUME Base, NEW c \in Clis, LocalOK(cli[c], born), WayStep(c)
  PROVE  OrdinaryStep(c) \/ (DoneStep(c) /\ Quiet)
<1>0. PICK me, you : me = cli[c] /\ you = cli'[c]
  OBVIOUS
<1>a. LocalOK(me, born) /\ born \in Nat
  BY <1>0 DEF Base, Numbered
<1>1. CASE StopEnd(c)
  <2>1. me.pc = "stop"
    BY <1>0, <1>1 DEF StopEnd, At
  <2>2. CASE Quit(c, "failed")
    BY <2>2, QuitOrdinary
  <2>3. CASE me.all /\ Quit(c, "done")
    <3>1. Only(c) /\ Ends(cli[c], "done", cli'[c]) /\ Passes /\ born' = born /\ Quiet
      BY <2>3, ExitFacts, Same DEF Quit
    <3> QED
      BY <1>0, <2>1, <2>3, <3>1 DEF DoneStep, Ended, UiStopPcs
  <2>4. CASE /\ me.all
             /\ Proceed(c, [pc |-> "check", cmd |-> RestartLaunch(Restarted(me.cmd))])
    <3>1. PICK cmd : cmd = RestartLaunch(Restarted(me.cmd))
      OBVIOUS
    <3>2. Changes(c, [pc |-> "check", cmd |-> cmd]) /\ Quiet /\ Passes /\ born' = born
      BY <2>4, <3>1, ProceedFacts
    <3>3. /\ you.cmd = cmd /\ you.named = me.named /\ you.since = me.since /\ you.ui = me.ui
          /\ you.all = me.all /\ you.pc = "check"
      BY <1>0, <3>2 DEF Changes, Becomes
    <3>4. cmd # <<"stop", "ui">> /\ Words(cmd) /\ ~Rules(cmd) /\ ~Controls(cmd)
      BY <3>1, RestartFacts
    <3>5. /\ you.pc \notin PostFirst \cup PostApi \cup PostUi
          /\ \A point \in UiPoints : you.pc # WaitsUi[point]
          /\ you.pc # "idle"
      BY <3>3, UiPcs DEF PostFirst, PostApi, PostUi, UiPoints
    <3>6. LocalOK(you, born)
      BY <1>a, <2>4, <3>3, <3>4, <3>5 DEF LocalOK
    <3>7. Plain(me, you) /\ you.pc \notin GatewayPcs
      BY <2>1, <3>3 DEF Plain, Reports, Ended, GatewayPcs
    <3> QED
      BY <1>0, <3>2, <3>6, <3>7 DEF OrdinaryStep, LocalStep, Changes
  <2>5. CASE me.all
    BY <1>0, <1>1, <2>3, <2>4, <2>5 DEF StopEnd
  <2> QED
    BY <1>0, <1>1, <2>2, <2>5 DEF StopEnd
<1>2. CASE Check(c)
  <2>1. cli[c].pc = "check"
    BY <1>2 DEF Check, At
  <2>2. Allowed("check", "ui", cli[c].cmd)
    BY UiPcs DEF Allowed, Ended, Unsure, UiStopPcs, StopPcs, UiPoints, PostFirst, PostApi, PostUi
  <2>3. CASE Proceed(c, [pc |-> "ui"])
    BY <2>1, <2>2, <2>3, ProceedFacts, OnOrdinary DEF Minor, Reports, GatewayPcs
  <2> QED
    BY <1>2, <2>3, QuitOrdinary DEF Check
<1>3. CASE Authorize(c)
  <2>1. cli[c].pc = "auth"
    BY <1>3 DEF Authorize, At
  <2>2. Allowed("auth", "api", cli[c].cmd)
    BY UiPcs DEF Allowed, Ended, Unsure, UiStopPcs, StopPcs, UiPoints, PostFirst, PostApi, PostUi
  <2>3. CASE Proceed(c, [pc |-> "api"])
    BY <2>1, <2>2, <2>3, ProceedFacts, OnOrdinary DEF Minor, Reports, GatewayPcs
  <2> QED
    BY <1>3, <2>3, QuitOrdinary DEF Authorize
<1>4. CASE Execute(c)
  <2>1. me.pc = "spawn" /\ ~InBackground(me.cmd)
    BY <1>0, <1>4 DEF Execute, At
  <2>2. PICK cmd : cmd = InjectPluginDir(NormalizeLaunch(me.cmd))
    OBVIOUS
  <2>3. Proceed(c, [pc |-> "running", cmd |-> cmd])
    BY <1>0, <1>4, <2>2 DEF Execute
  <2>4. Changes(c, [pc |-> "running", cmd |-> cmd]) /\ Quiet /\ Passes /\ born' = born
    BY <2>3, ProceedFacts
  <2>5. /\ you.cmd = cmd /\ you.named = me.named /\ you.since = me.since /\ you.ui = me.ui
        /\ you.all = me.all /\ you.pc = "running"
    BY <1>0, <2>4 DEF Changes, Becomes
  <2>6. /\ Words(me.cmd) /\ ~Rules(me.cmd) /\ me.cmd # <<"stop", "ui">> /\ me.all
        /\ Mediated(me.cmd, me.ui) /\ Answered(me.cmd, me.ui)
        /\ (Controls(me.cmd) => me.ui = "unknown")
    BY <1>a, <2>1 DEF LocalOK, Ended, StopPcs, UiStopPcs, PostFirst, PostApi, PostUi, Unsure
  <2>7. /\ Words(cmd) /\ cmd # <<"stop", "ui">> /\ ~Rules(cmd)
        /\ ~IsGatewayLaunch(cmd) /\ WebLaunch(cmd) = NoRunner
        /\ cmd = me.cmd \/ UiNeeded(me.cmd, "api") \/ (~UiNeeded(cmd, "api") /\ ~AgentActs(cmd))
        /\ Controls(cmd) => Controls(me.cmd)
    BY <2>1, <2>2, <2>6, ExecutedFacts
  <2>8. /\ Mediated(cmd, me.ui) /\ Answered(cmd, me.ui) /\ Reached(cmd, me.ui)
        /\ Controls(cmd) => me.ui = "unknown"
    BY <2>6, <2>7 DEF Mediated, Answered, Reached
  <2>9. you.pc # "idle" /\ \A point \in UiPoints : you.pc # WaitsUi[point]
    BY <2>5, UiPcs DEF UiPoints
  <2>10. LocalOK(you, born)
    BY <1>a, <2>5, <2>6, <2>7, <2>8, <2>9 DEF LocalOK
  <2>11. Plain(me, you) /\ you.pc \notin GatewayPcs
    BY <2>1, <2>5 DEF Plain, Reports, Ended, GatewayPcs
  <2> QED
    BY <1>0, <2>4, <2>10, <2>11 DEF OrdinaryStep, LocalStep, Changes
<1>5. CASE Finish(c)
  <2>1. cli[c].pc = "running" /\ (Quit(c, "done") \/ Quit(c, "failed"))
    BY <1>5 DEF Finish, At
  <2>2. CASE Quit(c, "done")
    <3>1. Exit(c, "done") /\ UNCHANGED <<born, rec, launched, disturbed>>
      BY <2>2 DEF Quit
    <3> QED
      BY <2>1, <3>1, Same, DoneFacts DEF Unsure, StopPcs, UiStopPcs, Ended
  <2> QED
    BY <2>1, <2>2, QuitOrdinary
<1> QED
  BY <1>1, <1>2, <1>3, <1>4, <1>5 DEF WayStep

\* The gateway's start is reported and on record.
ReportStep(c) ==
    /\ DoneStep(c) /\ cli[c].pc = "record"
    /\ RecTable' /\ rec'["gateway"].pid = cli[c].pid
    /\ launched' = launched \cup IdOf(cli[c].pid) /\ disturbed' = disturbed

LEMMA RecordGatewayReports ==
  ASSUME Base, NEW c \in Clis, LocalOK(cli[c], born), RecordGateway(c)
  PROVE  ReportStep(c)
<1>1. /\ cli[c].pc = "record" /\ Exit(c, "done") /\ UNCHANGED <<born, disturbed>>
      /\ rec' = [rec EXCEPT !["gateway"] = Record(cli[c].pid, cli[c].child)]
      /\ launched' = launched \cup IdOf(cli[c].pid)
  BY DEF RecordGateway, At
<1>2. DoneStep(c)
  BY <1>1, DoneFacts DEF Unsure, StopPcs, UiStopPcs, Ended
<1>3. RecTable' /\ rec'["gateway"] = Record(cli[c].pid, cli[c].child)
  BY <1>1, RecChanges DEF Base, Services
<1> QED
  BY <1>1, <1>2, <1>3 DEF ReportStep, Record

-----------------------------------------------------------------------------
\* Every step of an invocation is of one of these kinds.
CheckedStep(c) ==
    /\ LocalStep(c) /\ cli[c].pc \notin Ended /\ cli'[c].pc = "detect"
    /\ ~Exists(rec["gateway"].pid)
    /\ RecTable' /\ UNCHANGED <<proc, born, launched, disturbed>>
StartingStep(c) == LocalStep(c) /\ Quiet /\ cli[c].pc \in Starting /\ cli'[c].pc \in Starting
LauncherStep(c) ==
    /\ LocalStep(c) /\ Quiet /\ cli[c].pc = "launcher" /\ cli'[c].pc = "forget"
    /\ cli'[c].pid = cli[c].pid /\ cli'[c].plan = cli[c].plan
ForgetStep(c) ==
    /\ LocalStep(c) /\ cli'[c].pc \notin GatewayPcs /\ cli[c].pc = "forget"
    /\ Head(cli[c].plan) = "gateway" /\ cli[c].pid # NoPid
    /\ RecTable' /\ UNCHANGED <<proc, born, launched, disturbed>>

Kind(c) ==
    \/ OrdinaryStep(c) \/ ScanStep(c) \/ (DoneStep(c) /\ Quiet) \/ ReportStep(c)
    \/ ReadStep(c) \/ KillStep(c) \/ LauncherStep(c) \/ ForgetStep(c)
    \/ CheckedStep(c) \/ StartingStep(c)

LEMMA AdvanceKinds ==
  ASSUME Base, SceneAssumption, NEW c \in Clis, LocalOK(cli[c], born), Advance(c)
  PROVE  Kind(c)
<1>1. CASE WayStep(c)
  BY <1>1, WayOrdinary DEF Kind
<1>2. CASE StopSteps(c)
  BY <1>2, StopReadLocal, KillLocal, KillLauncherLocal, ForgetLocal
     DEF StopSteps, Kind, LauncherStep, ForgetStep
<1>3. CASE BridgeSteps(c)
  BY <1>3, BridgeOrdinary DEF Kind
<1>4. CASE GatewayCheck(c)
  <2>1. cli[c].pc \notin Ended
    BY <1>4 DEF GatewayCheck, At, Ended
  <2> QED
    BY <1>4, <2>1, GatewayCheckLocal DEF Kind, CheckedStep
<1>5. CASE \/ Detect(c) \/ StopHostGateway(c) \/ Launch(c) \/ Capture(c) \/ CaptureFails(c)
           \/ Confirm(c)
  BY <1>5, StartingLocal DEF Kind, StartingStep
<1>6. CASE RecordGateway(c)
  BY <1>6, RecordGatewayReports DEF Kind
<1>7. CASE WebSteps(c)
  BY <1>7, WebOrdinary DEF Kind
<1>8. CASE UiLaunchSteps(c)
  BY <1>8, UiLaunchOrdinary DEF Kind
<1>9. CASE UiStopSteps(c)
  BY <1>9, UiStopLocal DEF Kind
<1>10. LaunchSteps(c) => \/ GatewayCheck(c) \/ RecordGateway(c) \/ WebSteps(c)
                         \/ Detect(c) \/ StopHostGateway(c) \/ Launch(c) \/ Capture(c)
                         \/ CaptureFails(c) \/ Confirm(c)
  BY DEF LaunchSteps, WebSteps
<1>11. UiSteps(c) => UiLaunchSteps(c) \/ UiStopSteps(c)
  BY DEF UiSteps, UiLaunchSteps, UiStopSteps
<1> QED
  BY <1>1, <1>2, <1>3, <1>4, <1>5, <1>6, <1>7, <1>8, <1>9, <1>10, <1>11 DEF Advance, WayStep

-----------------------------------------------------------------------------
\* What an invocation counts on, of the processes.
Tally(me, t) ==
    /\ \A p \in Pids : Lives(t, p) /\ t[p].id \in me.named =>
         ~me.all \/ (me.pc = "kill" /\ p = me.pid)
    /\ me.pc = "uirest" /\ me.all =>
         \A p \in Pids : Lives(t, p) /\ t[p].kind = "ui" /\ t[p].id <= me.since => p \in me.scan
    /\ me.pc = "done" /\ me.cmd = <<"stop", "ui">> =>
         \A p \in Pids : Lives(t, p) /\ t[p].kind = "ui" => t[p].id > me.since

LEMMA Newcomer ==
  ASSUME NEW t, NEW b, NEW u, NEW d, Numbered(t, b), Follows(t, b, u, d), NEW p \in Pids,
         Lives(u, p)
  PROVE  Kept(t, u, p) \/ (u[p].id = b + 1)
  BY DEF Follows

LEMMA TallyStable ==
  ASSUME NEW me, NEW t, NEW b, NEW u, NEW d, Numbered(t, b), Follows(t, b, u, d),
         LocalOK(me, b), Tally(me, t)
  PROVE  Tally(me, u)
<1>1. b \in Nat /\ me.since \in Nat /\ me.since <= b /\ me.named \subseteq 1..b
  BY DEF Numbered, LocalOK
<1>2. ASSUME NEW p \in Pids, Lives(u, p)
      PROVE  Kept(t, u, p) \/ (u[p].id = b + 1 /\ u[p].id \notin me.named
                               /\ u[p].id > me.since /\ ~(u[p].id <= me.since))
  BY <1>1, <1>2, Newcomer
<1>3. ASSUME NEW p \in Pids, Lives(u, p), u[p].id \in me.named
      PROVE  ~me.all \/ (me.pc = "kill" /\ p = me.pid)
  BY <1>2, <1>3 DEF Tally, Kept
<1>4. ASSUME me.pc = "uirest", me.all, NEW p \in Pids, Lives(u, p), u[p].kind = "ui",
             u[p].id <= me.since
      PROVE  p \in me.scan
  BY <1>2, <1>4 DEF Tally, Kept
<1>5. ASSUME me.pc = "done", me.cmd = <<"stop", "ui">>, NEW p \in Pids, Lives(u, p),
             u[p].kind = "ui"
      PROVE  u[p].id > me.since
  BY <1>2, <1>5 DEF Tally, Kept
<1> QED
  BY <1>3, <1>4, <1>5 DEF Tally

LEMMA TallyPlain ==
  ASSUME NEW me, NEW you, NEW t, Tally(me, t), Plain(me, you)
  PROVE  Tally(you, t)
<1>1. you.pc \notin {"done", "uirest"}
  BY DEF Plain, Reports
<1>2. CASE you.named = {}
  BY <1>1, <1>2 DEF Tally
<1>3. CASE you.named = me.named /\ you.all = me.all /\ me.pc # "kill"
  BY <1>1, <1>3 DEF Tally
<1>4. CASE you.all = FALSE
  BY <1>1, <1>4 DEF Tally
<1> QED
  BY <1>2, <1>3, <1>4 DEF Plain

LEMMA TallyDone ==
  ASSUME NEW me, NEW you, NEW t, NEW b, Numbered(t, b), LocalOK(me, b), Tally(me, t),
         Ends(me, "done", you),
         me.all, me.pc # "kill", me.pc \notin Ended,
         me.pc \in UiStopPcs => me.pc = "uirest" /\ me.scan = {}
  PROVE  Tally(you, t)
<1>1. you.pc = "done" /\ you.named = me.named /\ you.cmd = me.cmd /\ you.since = me.since
  BY DEF Ends
<1>2. \A p \in Pids : ~(Lives(t, p) /\ t[p].id \in me.named)
  BY DEF Tally
<1>3. ASSUME me.cmd = <<"stop", "ui">>, NEW p \in Pids, Lives(t, p), t[p].kind = "ui"
      PROVE  t[p].id > me.since
  <2>1. me.pc = "uirest" /\ me.scan = {}
    BY <1>3 DEF LocalOK
  <2>2. ~(t[p].id <= me.since)
    BY <1>3, <2>1 DEF Tally
  <2>3. t[p].id \in Nat /\ me.since \in Nat
    BY DEF Numbered, Table, LocalOK
  <2> QED
    BY <2>2, <2>3
<1> QED
  BY <1>1, <1>2, <1>3 DEF Tally

LEMMA TallyScan ==
  ASSUME NEW me, NEW you, NEW t, Tally(me, t),
         you.pc = "uirest", you.named = me.named, you.since = me.since,
         you.all = me.all \/ you.all = FALSE, me.pc \in {"uiscan", "uirest"},
         you.all => \A p \in Pids :
           Lives(t, p) /\ t[p].kind = "ui" /\ (me.pc = "uirest" => p \in me.scan) => p \in you.scan
  PROVE  Tally(you, t)
<1>1. \A p \in Pids : Lives(t, p) /\ t[p].id \in you.named => ~you.all
  BY DEF Tally
<1>2. ASSUME you.all, NEW p \in Pids, Lives(t, p), t[p].kind = "ui", t[p].id <= you.since
      PROVE  p \in you.scan
  BY <1>2 DEF Tally
<1> QED
  BY <1>1, <1>2 DEF Tally

LEMMA TallyRead ==
  ASSUME NEW me, NEW you, Numbered(proc, born), Tally(me, proc), me.pc = "stop", NEW pid,
         you.pc = (IF Exists(pid) THEN "kill" ELSE "launcher"), you.pid = pid,
         you.all = me.all, you.named = me.named \cup IdOf(pid)
  PROVE  Tally(you, proc)
<1>1. you.pc # "uirest" /\ you.pc # "done"
  OBVIOUS
<1>2. ASSUME NEW p \in Pids, Lives(proc, p), proc[p].id \in you.named
      PROVE  ~you.all \/ (you.pc = "kill" /\ p = you.pid)
  <2>1. CASE proc[p].id \in me.named
    BY <1>2, <2>1 DEF Tally
  <2>2. CASE proc[p].id \in IdOf(pid)
    <3>1. Exists(pid) /\ proc[p].id = proc[pid].id
      BY <2>2 DEF IdOf
    <3>2. pid \in Pids /\ Lives(proc, pid)
      BY <3>1 DEF Exists, HasEntry, Lives
    <3>3. p = pid
      BY <1>2, <3>1, <3>2 DEF Numbered
    <3> QED
      BY <3>1, <3>3
  <2> QED
    BY <1>2, <2>1, <2>2
<1> QED
  BY <1>1, <1>2 DEF Tally

LEMMA TallyKill ==
  ASSUME NEW me, NEW you, NEW t, Tally(me, t), you.pc = "launcher", you.named = me.named,
         \/ you.all = me.all /\ you.pid = me.pid /\ (me.pid \in Pids => ~Lives(t, me.pid))
         \/ you.all = FALSE /\ you.pid = NoPid
  PROVE  Tally(you, t)
  BY DEF Tally

LEMMA TallyKinds ==
  ASSUME Base, NEW c \in Clis, LocalOK(cli[c], born), Tally(cli[c], proc), Kind(c)
  PROVE  /\ Only(c) /\ Passes /\ LocalOK(cli'[c], born')
         /\ Tally(cli'[c], proc')
<1>1. PICK me, you : me = cli[c] /\ you = cli'[c]
  OBVIOUS
<1>2. Numbered(proc, born) /\ LocalOK(me, born) /\ born \in Nat /\ proc \in Table
  BY <1>1 DEF Base, Numbered
<1>3. Passes => Tally(me, proc') /\ Numbered(proc', born') /\ born' \in Nat
  BY <1>1, <1>2, TallyStable, FollowsNumbered DEF Passes
<1>4. CASE LocalStep(c)
  BY <1>1, <1>3, <1>4, TallyPlain DEF LocalStep
<1>5. CASE ScanStep(c)
  BY <1>1, <1>3, <1>5, TallyScan DEF ScanStep
<1>6. CASE DoneStep(c)
  <2>1. Only(c) /\ Passes /\ born' = born /\ Ends(me, "done", you)
    BY <1>1, <1>6 DEF DoneStep
  <2>2. LocalOK(you, born)
    BY <1>2, <2>1, LocalEnds
  <2>3. Tally(you, proc')
    BY <1>1, <1>2, <1>3, <1>6, <2>1, TallyDone DEF DoneStep
  <2> QED
    BY <1>1, <2>1, <2>2, <2>3
<1>7. CASE ReadStep(c)
  <2>1. PICK pid : pid = rec[Head(me.plan)].pid
    OBVIOUS
  <2>2. /\ Only(c) /\ LocalOK(you, born') /\ proc' = proc /\ born' = born /\ me.pc = "stop"
        /\ you.pc = (IF Exists(pid) THEN "kill" ELSE "launcher")
        /\ you.pid = pid /\ you.all = me.all /\ you.named = me.named \cup IdOf(pid)
    BY <1>1, <1>7, <2>1 DEF ReadStep
  <2>3. Tally(you, proc)
    BY <1>1, <1>2, <2>2, TallyRead
  <2>4. Passes
    BY <2>2, Stays
  <2> QED
    BY <1>1, <2>2, <2>3, <2>4
<1>8. CASE KillStep(c)
  <2>1. /\ Only(c) /\ LocalOK(you, born') /\ Passes
        /\ you.pc = "launcher" /\ you.named = me.named
        /\ \/ you.all = me.all /\ you.pid = me.pid /\ (me.pid \in Pids => ~Lives(proc', me.pid))
           \/ you.all = FALSE /\ you.pid = NoPid
    BY <1>1, <1>8 DEF KillStep
  <2>2. Tally(you, proc')
    BY <1>3, <2>1, TallyKill
  <2> QED
    BY <1>1, <2>1, <2>2
<1> QED
  BY <1>4, <1>5, <1>6, <1>7, <1>8
     DEF Kind, OrdinaryStep, ReportStep, LauncherStep, ForgetStep, CheckedStep, StartingStep

-----------------------------------------------------------------------------
\* The gateway: with invocations that take turns, one that was reported is on
\* record, or is gone where a stop or a start may take the record away.
Gone(t, l) == \A p \in Pids : Lives(t, p) => t[p].id \notin l
Listed(t, l, gp) == \A p \in Pids : Lives(t, p) /\ t[p].id \in l => gp = p

GatewayOK(me, t, l, gp) ==
    /\ me.pc = "kill" /\ Head(me.plan) = "gateway" => me.pid = gp
    /\ me.pc \in {"launcher", "forget"} /\ Head(me.plan) = "gateway" /\ me.pid # NoPid => Gone(t, l)
    /\ me.pc \in Starting => Gone(t, l)

TakesTurns == \A c, d \in Clis : cli[c].pc \notin Ended /\ cli[d].pc \notin Ended => c = d

GatewaysOK == \A c \in Clis : GatewayOK(cli[c], proc, launched, rec["gateway"].pid)

LaunchInv ==
    /\ launched \subseteq 1..born
    /\ ~disturbed => TakesTurns /\ Listed(proc, launched, rec["gateway"].pid) /\ GatewaysOK

LEMMA LaunchedStable ==
  ASSUME NEW t, NEW b, NEW u, NEW d, Numbered(t, b), Follows(t, b, u, d), NEW l, l \subseteq 1..b
  PROVE  /\ Gone(t, l) => Gone(u, l)
         /\ \A gp : Listed(t, l, gp) => Listed(u, l, gp)
         /\ \A me, gp : GatewayOK(me, t, l, gp) => GatewayOK(me, u, l, gp)
<1>1. b \in Nat
  BY DEF Numbered
<1>2. ASSUME NEW p \in Pids, Lives(u, p), u[p].id \in l
      PROVE  Lives(t, p) /\ t[p].id \in l
  BY <1>1, <1>2, Newcomer DEF Kept
<1>3. Gone(t, l) => Gone(u, l)
  BY <1>2 DEF Gone
<1>4. \A gp : Listed(t, l, gp) => Listed(u, l, gp)
  BY <1>2 DEF Listed
<1>5. \A me, gp : GatewayOK(me, t, l, gp) => GatewayOK(me, u, l, gp)
  BY <1>3 DEF GatewayOK
<1> QED
  BY <1>3, <1>4, <1>5

\* No step of an invocation that has ended makes it go on.
LEMMA KindsEnd ==
  ASSUME NEW c \in Clis, Kind(c)
  PROVE  cli[c].pc \notin Ended \/ (OrdinaryStep(c) /\ cli'[c].pc \in Ended)
<1>1. PICK me, you : me = cli[c] /\ you = cli'[c]
  OBVIOUS
<1>2. CASE OrdinaryStep(c)
  BY <1>2 DEF OrdinaryStep, LocalStep, Plain, Ended
<1>3. CASE ScanStep(c) \/ ReadStep(c) \/ KillStep(c) \/ LauncherStep(c) \/ ForgetStep(c)
           \/ CheckedStep(c) \/ StartingStep(c)
  BY <1>3 DEF ScanStep, ReadStep, KillStep, LauncherStep, ForgetStep, CheckedStep, StartingStep,
              Ended, Starting
<1>4. CASE DoneStep(c)
  BY <1>4 DEF DoneStep
<1> QED
  BY <1>2, <1>3, <1>4 DEF Kind, ReportStep

\* Afterwards the records cover what was launched, and the one that took the
\* step still counts on nothing false.
LEMMA GatewayKinds ==
  ASSUME Base, NEW c \in Clis, launched \subseteq 1..born,
         Listed(proc, launched, rec["gateway"].pid),
         GatewayOK(cli[c], proc, launched, rec["gateway"].pid), Kind(c), Passes
  PROVE  /\ Listed(proc', launched', rec'["gateway"].pid)
         /\ GatewayOK(cli'[c], proc', launched', rec'["gateway"].pid)
<1> DEFINE gp == rec["gateway"].pid
           hp == rec'["gateway"].pid
<1>1. PICK me, you : me = cli[c] /\ you = cli'[c]
  OBVIOUS
<1>2. /\ Numbered(proc, born) /\ born \in Nat
      /\ Gone(proc, launched) => Gone(proc', launched)
      /\ Listed(proc', launched, gp)
      /\ GatewayOK(me, proc', launched, gp)
  <2>1. Numbered(proc, born) /\ born \in Nat
    BY DEF Base, Numbered
  <2> QED
    BY <1>1, <2>1, LaunchedStable DEF Passes
<1>3. Quiet => hp = gp /\ launched' = launched
  BY DEF Quiet
<1>4. ASSUME you.pc \notin GatewayPcs PROVE GatewayOK(you, proc', launched', hp)
  BY <1>4 DEF GatewayOK, GatewayPcs, Starting
<1>5. \A t, l, p : Gone(t, l) => Listed(t, l, p)
  BY DEF Gone, Listed
<1>6. CASE OrdinaryStep(c) \/ ScanStep(c) \/ (DoneStep(c) /\ Quiet)
  <2>1. Quiet /\ you.pc \notin GatewayPcs
    BY <1>1, <1>6 DEF OrdinaryStep, ScanStep, DoneStep, Ends, GatewayPcs
  <2> QED
    BY <1>1, <1>2, <1>3, <1>4, <2>1
<1>7. CASE ReportStep(c)
  <2>1. /\ me.pc = "record" /\ hp = me.pid /\ launched' = launched \cup IdOf(me.pid)
        /\ born' = born /\ you.pc = "done"
    BY <1>1, <1>7 DEF ReportStep, DoneStep, Ends
  <2>2. Gone(proc', launched)
    BY <1>2, <2>1 DEF GatewayOK, Starting
  <2>3. ASSUME NEW p \in Pids, Lives(proc', p), proc'[p].id \in launched' PROVE hp = p
    <3>1. proc'[p].id \in IdOf(me.pid)
      BY <2>1, <2>2, <2>3 DEF Gone
    <3>2. Exists(me.pid) /\ proc'[p].id = proc[me.pid].id
      BY <3>1 DEF IdOf
    <3>3. me.pid \in Pids /\ Lives(proc, me.pid)
      BY <3>2 DEF Exists, HasEntry, Lives
    <3>4. Kept(proc, proc', p)
      <4>1. proc[me.pid].id \in 1..born
        BY <1>2, <3>3 DEF Numbered
      <4>2. proc'[p].id # born + 1
        BY <1>2, <3>2, <4>1
      <4> QED
        BY <1>2, <2>3, <4>2, Newcomer DEF Passes
    <3>5. p = me.pid
      BY <1>2, <3>2, <3>3, <3>4 DEF Numbered, Kept
    <3> QED
      BY <2>1, <3>5
  <2>4. Listed(proc', launched', hp)
    BY <2>3 DEF Listed
  <2>5. you.pc \notin GatewayPcs
    BY <2>1 DEF GatewayPcs
  <2> QED
    BY <1>1, <1>4, <2>4, <2>5
<1>8. CASE ReadStep(c)
  <2>1. PICK pid : pid = rec[Head(me.plan)].pid
    OBVIOUS
  <2>2. /\ Quiet /\ proc' = proc /\ you.pc = (IF Exists(pid) THEN "kill" ELSE "launcher")
        /\ you.pid = pid /\ you.plan = me.plan
    BY <1>1, <1>8, <2>1 DEF ReadStep
  <2>3. CASE Head(you.plan) # "gateway"
    <3>1. GatewayOK(you, proc', launched', hp)
      BY <2>2, <2>3 DEF GatewayOK, Starting
    <3> QED
      BY <1>1, <1>2, <1>3, <2>2, <3>1
  <2>4. CASE Head(you.plan) = "gateway" /\ Exists(pid)
    <3>1. pid = gp
      BY <2>1, <2>2, <2>4
    <3>2. GatewayOK(you, proc', launched', hp)
      BY <1>3, <2>2, <2>4, <3>1 DEF GatewayOK, Starting
    <3> QED
      BY <1>1, <1>2, <1>3, <2>2, <3>2
  <2>5. CASE Head(you.plan) = "gateway" /\ ~Exists(pid)
    <3>1. pid = gp
      BY <2>1, <2>2, <2>5
    <3>2. Gone(proc, launched)
      BY <2>5, <3>1 DEF Gone, Listed, Exists, HasEntry, Lives
    <3>3. GatewayOK(you, proc', launched', hp)
      BY <1>3, <2>2, <2>5, <3>2 DEF GatewayOK, Starting
    <3> QED
      BY <1>1, <1>2, <1>3, <2>2, <3>3
  <2> QED
    BY <2>3, <2>4, <2>5
<1>9. CASE KillStep(c)
  <2>1. /\ Quiet /\ me.pc = "kill" /\ you.pc = "launcher" /\ you.plan = me.plan
        /\ \/ you.pid = me.pid /\ (me.pid \in Pids => ~Lives(proc', me.pid))
           \/ you.pid = NoPid
    BY <1>1, <1>9 DEF KillStep
  <2>2. ASSUME Head(you.plan) = "gateway", you.pid # NoPid PROVE Gone(proc', launched)
    <3>1. me.pid = gp
      BY <1>2, <2>1, <2>2 DEF GatewayOK
    <3> QED
      BY <1>2, <2>1, <2>2, <3>1 DEF Gone, Listed
  <2>3. GatewayOK(you, proc', launched', hp)
    BY <1>3, <2>1, <2>2 DEF GatewayOK, Starting
  <2> QED
    BY <1>1, <1>2, <1>3, <2>1, <2>3
<1>10. CASE LauncherStep(c)
  <2>1. /\ Quiet /\ me.pc = "launcher" /\ you.pc = "forget"
        /\ you.pid = me.pid /\ you.plan = me.plan
    BY <1>1, <1>10 DEF LauncherStep
  <2>2. GatewayOK(you, proc', launched', hp)
    BY <1>2, <1>3, <2>1 DEF GatewayOK, Starting
  <2> QED
    BY <1>1, <1>2, <1>3, <2>1, <2>2
<1>11. CASE ForgetStep(c)
  <2>1. /\ you.pc \notin GatewayPcs /\ me.pc = "forget" /\ Head(me.plan) = "gateway"
        /\ me.pid # NoPid /\ launched' = launched
    BY <1>1, <1>11 DEF ForgetStep
  <2>2. Gone(proc', launched)
    BY <1>2, <2>1 DEF GatewayOK
  <2> QED
    BY <1>1, <1>4, <1>5, <2>1, <2>2
<1>12. CASE CheckedStep(c)
  <2>1. /\ you.pc = "detect" /\ ~Exists(gp) /\ proc' = proc /\ launched' = launched
    BY <1>1, <1>12 DEF CheckedStep
  <2>2. Gone(proc, launched)
    BY <2>1 DEF Gone, Listed, Exists, HasEntry, Lives
  <2>3. GatewayOK(you, proc', launched', hp)
    BY <2>1, <2>2 DEF GatewayOK
  <2> QED
    BY <1>1, <1>5, <2>1, <2>2, <2>3
<1>13. CASE StartingStep(c)
  <2>1. Quiet /\ me.pc \in Starting /\ you.pc \in Starting
    BY <1>1, <1>13 DEF StartingStep
  <2>2. Gone(proc', launched)
    BY <1>2, <2>1 DEF GatewayOK
  <2>3. GatewayOK(you, proc', launched', hp)
    BY <1>3, <2>1, <2>2 DEF GatewayOK, Starting
  <2> QED
    BY <1>1, <1>2, <1>3, <2>1, <2>3
<1> QED
  BY <1>6, <1>7, <1>8, <1>9, <1>10, <1>11, <1>12, <1>13 DEF Kind

LEMMA LaunchKinds ==
  ASSUME Base, NEW c \in Clis, LaunchInv, Kind(c), Passes, Only(c)
  PROVE  LaunchInv'
<1>1. /\ Numbered(proc, born) /\ born \in Nat /\ born' \in Nat /\ born <= born'
      /\ launched \subseteq 1..born
  BY FollowsNumbered DEF Base, Passes, Numbered, LaunchInv
<1>2. launched' \subseteq 1..born'
  <2>1. launched' \subseteq launched \cup IdOf(cli[c].pid)
    BY DEF Kind, OrdinaryStep, ScanStep, ReportStep, ReadStep, KillStep, LauncherStep, ForgetStep,
           CheckedStep, StartingStep, Quiet
  <2>2. IdOf(cli[c].pid) \subseteq 1..born
    BY <1>1 DEF IdOf, Exists, HasEntry, Lives, Numbered
  <2>3. 1..born \subseteq 1..born'
    BY <1>1
  <2> QED
    BY <1>1, <2>1, <2>2, <2>3
<1>3. disturbed' = disturbed
  BY DEF Kind, OrdinaryStep, ScanStep, ReportStep, ReadStep, KillStep, LauncherStep, ForgetStep,
         CheckedStep, StartingStep, Quiet
<1>4. SUFFICES ASSUME ~disturbed
      PROVE  /\ TakesTurns' /\ Listed(proc', launched', rec'["gateway"].pid)
             /\ \A d \in Clis : GatewayOK(cli'[d], proc', launched', rec'["gateway"].pid)
  BY <1>2, <1>3 DEF LaunchInv, GatewaysOK
<1>5. TakesTurns /\ Listed(proc, launched, rec["gateway"].pid)
      /\ \A d \in Clis : GatewayOK(cli[d], proc, launched, rec["gateway"].pid)
  BY <1>4 DEF LaunchInv, GatewaysOK
<1>6. /\ Listed(proc', launched', rec'["gateway"].pid)
      /\ GatewayOK(cli'[c], proc', launched', rec'["gateway"].pid)
  BY <1>1, <1>5, GatewayKinds
<1>7. cli[c].pc \notin Ended \/ (OrdinaryStep(c) /\ cli'[c].pc \in Ended)
  BY KindsEnd
<1>8. \A d \in Clis \ {c} : cli'[d] = cli[d]
  BY DEF Only
<1>9. TakesTurns'
  BY <1>5, <1>7, <1>8 DEF TakesTurns
<1>10. ASSUME NEW d \in Clis \ {c}
       PROVE  GatewayOK(cli'[d], proc', launched', rec'["gateway"].pid)
  <2>1. CASE cli[c].pc \notin Ended
    <3>1. cli[d].pc \in Ended
      BY <1>5, <2>1 DEF TakesTurns
    <3> QED
      BY <1>8, <3>1 DEF GatewayOK, Ended, Starting
  <2>2. CASE OrdinaryStep(c)
    <3>1. launched' = launched /\ rec'["gateway"] = rec["gateway"]
      BY <2>2 DEF OrdinaryStep, Quiet
    <3>2. GatewayOK(cli[d], proc, launched, rec["gateway"].pid)
      BY <1>5
    <3>4. \A me, gp : GatewayOK(me, proc, launched, gp) => GatewayOK(me, proc', launched, gp)
      BY <1>1, LaunchedStable DEF Passes
    <3>3. GatewayOK(cli[d], proc', launched, rec["gateway"].pid)
      BY <3>2, <3>4
    <3> QED
      BY <1>8, <3>1, <3>3
  <2> QED
    BY <1>7, <2>1, <2>2
<1> QED
  BY <1>6, <1>9, <1>10

-----------------------------------------------------------------------------
\* The inductive invariant.
EachOK == \A c \in Clis : LocalOK(cli[c], born) /\ Tally(cli[c], proc)
Inv == scene \in Scenes /\ Base /\ EachOK /\ LaunchInv

LEMMA InitInv == ASSUME SceneAssumption, Init PROVE Inv
<1> DEFINE first == scene.running
<1>1. /\ scene \in Scenes /\ first \in Seq([kind : Kinds, of : Services])
      /\ \A p, q \in DOMAIN first : first[p].of = first[q].of => p = q
  BY SceneAssumption DEF Init
<1>2. PICK n \in Nat : n = Len(first) /\ DOMAIN first = 1..n
  BY <1>1
<1>3. ASSUME NEW p \in 1..n PROVE first[p] \in [kind : Kinds, of : Services]
  <2> HIDE DEF first
  <2> QED
    BY <1>1, <1>2, ElementOfSeq
<1>4. /\ born = n /\ disturbed = FALSE
      /\ launched = {p \in 1..n : first[p].of = "gateway"}
      /\ cli = [c \in Clis |-> Fresh]
  BY <1>2 DEF Init
<1>5. proc = [p \in Pids |->
                IF p \in 1..n
                THEN [kind |-> first[p].kind, id |-> p, parent |-> 0, stage |-> "listens"]
                ELSE NoProcess]
  BY <1>2 DEF Init
<1>6. rec = [s \in Services |->
                IF \E p \in 1..n : first[p].of = s
                THEN Record(CHOOSE p \in 1..n : first[p].of = s, NoPid) ELSE NoRecord]
  BY <1>2 DEF Init
<1> HIDE DEF first
<1>7. RecTable
  BY <1>6 DEF RecTable
<1>8. CliTable
  <2>1. Fresh = [f \in DOMAIN Fresh |-> Fresh[f]]
    BY DEF Fresh
  <2>2. \A c \in Clis : cli[c] = Fresh
    BY <1>4
  <2> QED
    BY <1>4, <2>1, <2>2 DEF CliTable
<1>9. ASSUME NEW p \in Pids
      PROVE  /\ proc[p] \in Entries
             /\ Lives(proc, p) => p \in 1..n /\ proc[p].id = p
  <2>1. CASE p \in 1..n
    <3>1. proc[p] = [kind |-> first[p].kind, id |-> p, parent |-> 0, stage |-> "listens"]
      BY <1>5, <2>1
    <3>2. first[p].kind \in Kinds
      BY <1>3, <2>1
    <3> QED
      BY <2>1, <3>1, <3>2 DEF Entries, Stages
  <2>2. CASE p \notin 1..n
    <3>1. proc[p] = NoProcess
      BY <1>5, <2>2
    <3> QED
      BY <3>1, NoProcessIsAnEntry DEF Lives
  <2> QED
    BY <2>1, <2>2
<1>10. Numbered(proc, born)
  <2>1. proc = [p \in Pids |-> proc[p]]
    BY <1>5
  <2>2. proc \in Table
    BY <1>9, <2>1 DEF Table, Entries
  <2> QED
    BY <1>4, <1>9, <2>2 DEF Numbered
<1>11. ASSUME NEW c \in Clis PROVE LocalOK(cli[c], born) /\ Tally(cli[c], proc)
  <2>1. cli[c] = Fresh
    BY <1>4
  <2>2. LocalOK(Fresh, born)
    <3>1. PICK me : me = Fresh
      OBVIOUS
    <3>2. /\ me.pc = "idle" /\ me.all = TRUE /\ me.named = {} /\ me.since = 0
          /\ me.ui = "unknown"
      BY <3>1 DEF Fresh
    <3>3. /\ me.pc \in Ended /\ me.pc \notin PostFirst \cup PostApi \cup PostUi
          /\ \A point \in UiPoints : me.pc # WaitsUi[point]
      BY <3>2, UiPcs DEF Ended, PostFirst, PostApi, PostUi, UiPoints
    <3>4. me.since \in Nat /\ me.since <= born /\ me.named \subseteq 1..born
      BY <1>4, <3>2
    <3>5. LocalOK(me, born)
      BY <3>2, <3>3, <3>4 DEF LocalOK
    <3> QED
      BY <3>1, <3>5
  <2>3. Tally(Fresh, proc)
    BY DEF Fresh, Tally
  <2> QED
    BY <2>1, <2>2, <2>3
<1>12. LaunchInv
  <2>1. launched \subseteq 1..born
    BY <1>4
  <2>2. \A c \in Clis : cli[c].pc = "idle"
    BY <1>4 DEF Fresh
  <2>3. ASSUME NEW p \in Pids, Lives(proc, p), proc[p].id \in launched
        PROVE  rec["gateway"].pid = p
    <3>1. p \in 1..n /\ first[p].of = "gateway"
      BY <1>4, <1>9, <2>3
    <3>2. p = CHOOSE q \in 1..n : first[q].of = "gateway"
      BY <1>1, <1>2, <3>1 DEF first
    <3>3. rec["gateway"] = Record(CHOOSE q \in 1..n : first[q].of = "gateway", NoPid)
      BY <1>6, <3>1 DEF Services
    <3> QED
      BY <3>2, <3>3 DEF Record
  <2>4. Listed(proc, launched, rec["gateway"].pid)
    BY <2>3 DEF Listed
  <2>5. TakesTurns /\ GatewaysOK
    BY <2>2 DEF TakesTurns, GatewaysOK, GatewayOK, Ended, Starting
  <2> QED
    BY <2>1, <2>4, <2>5 DEF LaunchInv
<1> QED
  BY <1>1, <1>7, <1>8, <1>10, <1>11, <1>12 DEF Inv, Base, EachOK

\* What one invocation's step leaves of the others, and of the tables.
LEMMA OthersKept ==
  ASSUME Base, EachOK, NEW c \in Clis, Only(c), Passes, RecTable',
         LocalOK(cli'[c], born'), Tally(cli'[c], proc')
  PROVE  Base' /\ EachOK'
<1>1. /\ Numbered(proc, born) /\ Numbered(proc', born') /\ born \in Nat /\ born' \in Nat
      /\ born <= born'
  BY FollowsNumbered DEF Base, Passes
<1>2. ASSUME NEW d \in Clis PROVE LocalOK(cli'[d], born') /\ Tally(cli'[d], proc')
  <2>1. CASE d = c
    BY <2>1
  <2>2. CASE d # c
    <3>1. cli'[d] = cli[d] /\ LocalOK(cli[d], born) /\ Tally(cli[d], proc)
      BY <2>2 DEF Only, EachOK
    <3>2. LocalOK(cli[d], born')
      BY <1>1, <3>1, LocalLater
    <3>3. Tally(cli[d], proc')
      BY <1>1, <3>1, TallyStable DEF Passes
    <3> QED
      BY <3>1, <3>2, <3>3
  <2> QED
    BY <2>1, <2>2
<1>3. Base'
  BY <1>1 DEF Base, Only
<1>4. EachOK'
  BY <1>2 DEF EachOK
<1> QED
  BY <1>3, <1>4

LEMMA AdvanceInv == ASSUME SceneAssumption, Inv, NEW c \in Clis, Advance(c) PROVE Inv'
<1>1. Base /\ EachOK /\ LaunchInv /\ scene \in Scenes
  BY DEF Inv
<1>2. LocalOK(cli[c], born) /\ Tally(cli[c], proc)
  BY <1>1 DEF EachOK
<1>3. Kind(c)
  BY <1>1, <1>2, AdvanceKinds
<1>4. Only(c) /\ Passes /\ LocalOK(cli'[c], born') /\ Tally(cli'[c], proc')
  BY <1>1, <1>2, <1>3, TallyKinds
<1>5. RecTable'
  BY <1>3 DEF Kind, OrdinaryStep, ScanStep, ReportStep, ReadStep, KillStep, LauncherStep,
              ForgetStep, CheckedStep, StartingStep, Quiet
<1>6. Base' /\ EachOK'
  BY <1>1, <1>4, <1>5, OthersKept
<1>7. LaunchInv'
  BY <1>1, <1>3, <1>4, LaunchKinds
<1>8. scene' = scene
  BY DEF Advance
<1> QED
  BY <1>1, <1>6, <1>7, <1>8 DEF Inv

LEMMA CrashInv == ASSUME SceneAssumption, Inv, NEW c \in Clis, Crash(c) PROVE Inv'
<1>1. /\ Base /\ EachOK /\ LaunchInv /\ scene \in Scenes
      /\ LocalOK(cli[c], born) /\ Tally(cli[c], proc)
  BY DEF Inv, EachOK
<1>2. Exit(c, "crashed") /\ disturbed' = TRUE /\ UNCHANGED <<born, launched, scene>>
  BY DEF Crash
<1>3. RecTable'
  <2>1. CASE rec' = rec
    BY <1>1, <2>1 DEF Base, RecTable
  <2>2. CASE \E s : rec' = [rec EXCEPT ![s] = Torn]
    BY <1>1, <2>2, RecChanges DEF Base
  <2> QED
    BY <2>1, <2>2 DEF Crash
<1>4. Only(c) /\ Ends(cli[c], "crashed", cli'[c]) /\ Passes
  BY <1>1, <1>2, ExitFacts
<1>5. PICK me, you : me = cli[c] /\ you = cli'[c]
  OBVIOUS
<1>6. /\ Numbered(proc, born) /\ Numbered(proc', born') /\ born \in Nat
  BY <1>1, <1>4, FollowsNumbered DEF Base, Passes, Numbered
<1>7. LocalOK(you, born')
  BY <1>1, <1>2, <1>4, <1>5, <1>6, LocalEnds
<1>8. Tally(you, proc')
  BY <1>4, <1>5 DEF Ends, Tally
<1>9. Base' /\ EachOK'
  BY <1>1, <1>3, <1>4, <1>5, <1>7, <1>8, OthersKept
<1>10. LaunchInv'
  BY <1>1, <1>2 DEF LaunchInv
<1> QED
  BY <1>1, <1>2, <1>9, <1>10 DEF Inv

LEMMA BeginInv == ASSUME SceneAssumption, Inv, NEW c \in Clis, Begin(c) PROVE Inv'
<1>1. /\ Base /\ EachOK /\ LaunchInv /\ scene \in Scenes
      /\ LocalOK(cli[c], born) /\ Tally(cli[c], proc)
  BY DEF Inv, EachOK
<1>2. PICK cmd \in scene.lines :
        Step(c, [cmd |-> cmd, since |-> born, plan |-> StopPlan(cmd),
                 pc |-> IF StopPlan(cmd) # <<>> THEN "stop"
                        ELSE IF cmd = <<"stop", "ui">> THEN "uifile" ELSE "check"])
  BY DEF Begin
<1>3. /\ cli[c].pc = "idle" /\ disturbed' = (disturbed \/ Active # {})
      /\ UNCHANGED <<proc, born, rec, launched, scene>>
  BY DEF Begin, At
<1>4. PICK me, you : me = cli[c] /\ you = cli'[c]
  OBVIOUS
<1>5. PICK pc : pc = IF StopPlan(cmd) # <<>> THEN "stop"
                     ELSE IF cmd = <<"stop", "ui">> THEN "uifile" ELSE "check"
  OBVIOUS
<1>6. PICK ch : ch = [cmd |-> cmd, since |-> born, plan |-> StopPlan(cmd), pc |-> pc]
  OBVIOUS
<1>7. Step(c, ch)
  BY <1>2, <1>5, <1>6
<1>8. Only(c) /\ Becomes(me, ch, you)
  BY <1>1, <1>4, <1>7, StepChanges DEF Base
<1>9. /\ you.cmd = cmd /\ you.since = born /\ you.pc = pc
      /\ you.named = me.named /\ you.all = me.all /\ you.ui = me.ui
  BY <1>6, <1>8 DEF Becomes
<1>10. me.pc = "idle" /\ me.named = {} /\ me.all = TRUE /\ me.ui = "unknown" /\ born \in Nat
  BY <1>1, <1>3, <1>4 DEF LocalOK, Base, Numbered
<1>11. Words(cmd)
  BY <1>1, <1>2, SceneAssumption DEF Words
<1>12. /\ cmd = <<"stop", "ui">> => pc = "uifile"
       /\ Rules(cmd) => pc = "stop"
       /\ pc \in {"stop", "uifile", "check"}
  BY <1>5, StopUiPlan, RulesPlan
<1>13. LocalOK(you, born)
  <2>1. you.pc \notin Ended \cup PostFirst \cup PostApi \cup PostUi /\ you.pc # "idle"
        /\ \A point \in UiPoints : you.pc # WaitsUi[point]
    BY <1>9, <1>12, UiPcs DEF Ended, PostFirst, PostApi, PostUi, UiPoints
  <2>2. /\ you.all = TRUE /\ you.since \in Nat /\ you.since <= born /\ you.named \subseteq 1..born
        /\ you.ui = "unknown" /\ Words(you.cmd)
    BY <1>9, <1>10, <1>11
  <2>3. /\ you.cmd = <<"stop", "ui">> => you.pc \in UiStopPcs \cup Ended
        /\ Rules(you.cmd) => you.pc \in StopPcs \cup Ended
    BY <1>9, <1>12 DEF UiStopPcs, StopPcs
  <2> QED
    BY <2>1, <2>2, <2>3 DEF LocalOK
<1>14. Tally(you, proc)
  BY <1>9, <1>10, <1>12 DEF Tally
<1>15. Passes
  BY <1>1, <1>3, Stays
<1>16. RecTable'
  BY <1>1, <1>3 DEF Base, RecTable
<1>17. Base' /\ EachOK'
  BY <1>1, <1>3, <1>4, <1>8, <1>13, <1>14, <1>15, <1>16, OthersKept
<1>18. LaunchInv'
  <2>1. ASSUME ~disturbed, Active = {}
        PROVE  TakesTurns' /\ Listed(proc', launched', rec'["gateway"].pid)
               /\ \A d \in Clis : GatewayOK(cli'[d], proc', launched', rec'["gateway"].pid)
    <3>1. /\ \A d \in Clis : cli[d].pc \in Ended
          /\ Listed(proc, launched, rec["gateway"].pid)
          /\ \A d \in Clis : GatewayOK(cli[d], proc, launched, rec["gateway"].pid)
      BY <1>1, <2>1 DEF Active, LaunchInv, GatewaysOK
    <3>2. \A d \in Clis \ {c} : cli'[d] = cli[d]
      BY <1>8 DEF Only
    <3>3. TakesTurns'
      BY <3>1, <3>2 DEF TakesTurns
    <3>4. GatewayOK(you, proc, launched, rec["gateway"].pid)
      BY <1>9, <1>12 DEF GatewayOK, Starting
    <3> QED
      BY <1>3, <1>4, <3>1, <3>2, <3>3, <3>4
  <2> QED
    BY <1>1, <1>3, <2>1 DEF LaunchInv, GatewaysOK
<1> QED
  BY <1>1, <1>3, <1>17, <1>18 DEF Inv

\* The services and the system: no invocation moves.
LEMMA QuietInv == ASSUME Inv, Quiet, Passes, UNCHANGED <<cli, scene>> PROVE Inv'
<1>1. Base /\ EachOK /\ LaunchInv /\ scene \in Scenes
  BY DEF Inv
<1>2. /\ Numbered(proc, born) /\ Numbered(proc', born') /\ born \in Nat /\ born' \in Nat
      /\ born <= born'
  BY <1>1, FollowsNumbered DEF Base, Passes
<1>3. Base'
  BY <1>1, <1>2 DEF Base, CliTable, Quiet
<1>4. ASSUME NEW d \in Clis PROVE LocalOK(cli[d], born') /\ Tally(cli[d], proc')
  <2>1. LocalOK(cli[d], born) /\ Tally(cli[d], proc)
    BY <1>1 DEF EachOK
  <2>2. LocalOK(cli[d], born')
    BY <1>2, <2>1, LocalLater
  <2>3. Tally(cli[d], proc')
    BY <1>2, <2>1, TallyStable DEF Passes
  <2> QED
    BY <2>2, <2>3
<1>5. EachOK'
  BY <1>4 DEF EachOK
<1>6. LaunchInv'
  <2>1. launched' = launched /\ disturbed' = disturbed /\ rec'["gateway"] = rec["gateway"]
    BY DEF Quiet
  <2>2. launched \subseteq 1..born /\ launched \subseteq 1..born'
    BY <1>1, <1>2 DEF LaunchInv
  <2>3. ASSUME ~disturbed
        PROVE  /\ TakesTurns' /\ Listed(proc', launched, rec["gateway"].pid)
               /\ \A d \in Clis : GatewayOK(cli[d], proc', launched, rec["gateway"].pid)
    <3>1. /\ TakesTurns /\ Listed(proc, launched, rec["gateway"].pid)
          /\ \A d \in Clis : GatewayOK(cli[d], proc, launched, rec["gateway"].pid)
      BY <1>1, <2>3 DEF LaunchInv, GatewaysOK
    <3>2. TakesTurns'
      BY <3>1 DEF TakesTurns
    <3>3. /\ \A gp : Listed(proc, launched, gp) => Listed(proc', launched, gp)
          /\ \A me, gp : GatewayOK(me, proc, launched, gp) => GatewayOK(me, proc', launched, gp)
      BY <1>2, <2>2, LaunchedStable DEF Passes
    <3> QED
      BY <3>1, <3>2, <3>3
  <2> QED
    BY <2>1, <2>2, <2>3 DEF LaunchInv, GatewaysOK
<1> QED
  BY <1>1, <1>3, <1>5, <1>6 DEF Inv

LEMMA EnvironmentQuiet ==
  ASSUME Base, Environment
  PROVE  Quiet /\ Passes /\ UNCHANGED <<cli, scene>>
<1>1. proc \in Table /\ born \in Nat
  BY DEF Base, Numbered
<1>2. Shrinks(proc, proc') /\ born' = born => Passes
  BY <1>1, ShrinksFollows DEF Passes
<1>3. ASSUME NEW l \in Pids, Daemonize(l)
      PROVE  Quiet /\ Passes /\ UNCHANGED <<cli, scene>>
  <2>1. /\ born' = born + 1 /\ UNCHANGED <<rec, cli, launched, disturbed, scene>>
        /\ proc[l].kind \in DOMAIN Daemon /\ proc[l].stage = "up"
    BY <1>3 DEF Daemonize
  <2>k. PICK kind : kind = Daemon[proc[l].kind]
    OBVIOUS
  <2>2. PICK p \in NewPids : proc' = [Spawned(p, kind, 0) EXCEPT ![l].stage = "recorded"]
    BY <1>3, <2>k DEF Daemonize
  <2>3. kind \in Kinds /\ p \in Pids /\ p # l
    BY <2>1, <2>2, <2>k DEF Daemon, Kinds, NewPids, FreePids
  <2>4. PICK u : u = Spawned(p, kind, 0)
    OBVIOUS
  <2>5. Follows(proc, born, u, born + 1)
    BY <1>1, <2>3, <2>4, SpawnedFollows
  <2>6. u \in Table
    BY <2>5 DEF Follows
  <2>7. Lives(u, l)
    <3>1. u[l] = proc[l]
      BY <1>1, <2>3, <2>4 DEF Spawned, Table
    <3> QED
      BY <2>1, <3>1 DEF Lives
  <2>8. Shrinks(u, [u EXCEPT ![l].stage = "recorded"])
    BY <2>6, <2>7, Staged DEF Stages
  <2>9. proc' = [u EXCEPT ![l].stage = "recorded"]
    BY <2>2, <2>4
  <2>10. Passes
    BY <2>1, <2>5, <2>8, <2>9, FollowsShrinks DEF Passes
  <2> QED
    BY <2>1, <2>10, Same
<1>4. ASSUME NEW p \in Pids, Listen(p)
      PROVE  Quiet /\ Passes /\ UNCHANGED <<cli, scene>>
  <2>1. /\ Exists(p) /\ proc' = [proc EXCEPT ![p].stage = "listens"]
        /\ UNCHANGED <<born, rec, cli, launched, disturbed, scene>>
    BY <1>4 DEF Listen
  <2>2. Shrinks(proc, proc')
    BY <1>1, <2>1, Staged DEF Exists, HasEntry, Lives, Stages
  <2> QED
    BY <1>2, <2>1, <2>2, Same
<1>5. ASSUME NEW p \in Pids, Die(p)
      PROVE  Quiet /\ Passes /\ UNCHANGED <<cli, scene>>
  <2>1. /\ proc' = Exited(proc, {p})
        /\ UNCHANGED <<born, rec, cli, launched, disturbed, scene>>
    BY <1>5 DEF Die
  <2>2. Shrinks(proc, proc')
    BY <1>1, <2>1, Losses
  <2> QED
    BY <1>2, <2>1, <2>2, Same
<1>6. ASSUME NEW p \in Pids, UiPidGuardCreate(p)
      PROVE  Quiet /\ Passes /\ UNCHANGED <<cli, scene>>
  <2>1. /\ p \in Alive("ui")
        /\ UNCHANGED <<born, cli, launched, disturbed, scene>>
        /\ proc' \in {[proc EXCEPT ![p].stage = "recorded"], Exited(proc, {p})}
        /\ rec' = [rec EXCEPT !["ui"] = Record(p, NoPid)] \/ rec' = [rec EXCEPT !["ui"] = Torn]
    BY <1>6 DEF UiPidGuardCreate
  <2>2. Shrinks(proc, [proc EXCEPT ![p].stage = "recorded"]) /\ Shrinks(proc, Exited(proc, {p}))
    BY <1>1, <2>1, Staged, Losses DEF Alive, Exists, HasEntry, Lives, Stages
  <2>3. Quiet
    BY <2>1, RecQuiet
  <2> QED
    BY <1>2, <2>1, <2>2, <2>3
<1>7. ASSUME NEW p \in Pids, UiPidGuardDrop(p)
      PROVE  Quiet /\ Passes /\ UNCHANGED <<cli, scene>>
  <2>1. /\ UNCHANGED <<born, cli, launched, disturbed, scene>>
        /\ proc' = Exited(proc, {p}) /\ rec' = [rec EXCEPT !["ui"] = NoRecord]
    BY <1>7 DEF UiPidGuardDrop
  <2>2. Shrinks(proc, proc')
    BY <1>1, <2>1, Losses
  <2>3. Quiet
    BY <2>1, RecQuiet
  <2> QED
    BY <1>2, <2>1, <2>2, <2>3
<1>8. ASSUME NEW kind \in {"ui", "other"}, Arrive(kind)
      PROVE  Quiet /\ Passes /\ UNCHANGED <<cli, scene>>
  <2>1. /\ born' = born + 1 /\ UNCHANGED <<rec, cli, launched, disturbed, scene>>
    BY <1>8 DEF Arrive
  <2>2. PICK p \in NewPids : proc' = Spawned(p, kind, 0)
    BY <1>8 DEF Arrive
  <2>3. p \in Pids /\ kind \in Kinds
    BY DEF NewPids, FreePids, Kinds
  <2>4. Passes
    BY <1>1, <2>1, <2>2, <2>3, SpawnedFollows DEF Passes
  <2> QED
    BY <2>1, <2>4, Same
<1> QED
  BY <1>3, <1>4, <1>5, <1>6, <1>7, <1>8 DEF Environment

LEMMA NextInv == ASSUME SceneAssumption, Inv, [Next]_all PROVE Inv'
<1>1. ASSUME NEW c \in Clis, Advance(c) PROVE Inv'
  BY <1>1, AdvanceInv
<1>2. ASSUME NEW c \in Clis, Crash(c) PROVE Inv'
  BY <1>2, CrashInv
<1>3. ASSUME NEW c \in Clis, Begin(c) PROVE Inv'
  BY <1>3, BeginInv
<1>4. CASE Environment
  BY <1>4, EnvironmentQuiet, QuietInv DEF Inv
<1>5. CASE UNCHANGED all
  <2>1. UNCHANGED <<proc, born, rec, cli, launched, disturbed, scene>>
    BY <1>5 DEF all, vars
  <2>2. Quiet /\ Passes
    BY <2>1, Same, Stays DEF Inv
  <2> QED
    BY <2>1, <2>2, QuietInv
<1> QED
  BY <1>1, <1>2, <1>3, <1>4, <1>5 DEF Next

\* Every reachable state satisfies the four facts.
THEOREM InvAlways == Spec => []Inv
<1>1. Init => Inv
  BY InitInv, SceneAssumption
<1>2. Inv /\ [Next]_all => Inv'
  BY NextInv, SceneAssumption
<1> QED
  BY <1>1, <1>2, PTL DEF Spec

\* A stop or restart that reports success has ended every process its records
\* named, for any number of invocations, services and inherited pids.
THEOREM StopAlwaysTrue == Spec => []StopIsTrue
<1>1. Inv => StopIsTrue
  <2>1. SUFFICES ASSUME Inv, NEW c \in Clis, cli[c].pc = "done", NEW p \in Pids, Exists(p)
                 PROVE  proc[p].id \notin cli[c].named
    BY DEF StopIsTrue, At
  <2>2. LocalOK(cli[c], born) /\ Tally(cli[c], proc)
    BY <2>1 DEF Inv, EachOK
  <2>3. cli[c].all
    BY <2>1, <2>2 DEF LocalOK, Unsure, StopPcs
  <2> QED
    BY <2>1, <2>2, <2>3 DEF Tally, Exists, HasEntry, Lives
<1> QED
  BY <1>1, InvAlways, PTL

\* While invocations take turns and none dies, a gateway whose start was
\* reported stays on record until it is gone.
THEOREM LaunchedAlwaysRecorded == Spec => []LaunchedIsRecorded
<1>1. Inv => LaunchedIsRecorded
  BY DEF Inv, LaunchInv, Listed, LaunchedIsRecorded, Exists, HasEntry, Lives
<1> QED
  BY <1>1, InvAlways, PTL

\* A `stop ui' that reports success leaves no interface running that ran when
\* it began.
THEOREM UiStopAlwaysComplete == Spec => []UiStopIsComplete
<1>1. Inv => UiStopIsComplete
  BY DEF Inv, EachOK, Tally, UiStopIsComplete, At, Alive, Exists, HasEntry, Lives
<1> QED
  BY <1>1, InvAlways, PTL

\* No agent acts before a Control Panel has answered, and, where the runner is
\* not called by a path, before one that takes its tool calls has; and no
\* command that only controls a service waits for one, whatever its words are.
THEOREM LaunchAlwaysMediated == Spec => []LaunchIsMediated
<1>1. Inv => LaunchIsMediated
  <2>1. SUFFICES ASSUME Inv, NEW c \in Clis, cli[c].pc \in UnderWay
                 PROVE  /\ AgentActs(cli[c].cmd) \/ WebLaunch(cli[c].cmd) # NoRunner
                              => cli[c].ui # "unknown"
                        /\ AgentActs(cli[c].cmd) /\ Word(cli[c].cmd, 1) \in Runners
                              => cli[c].ui = "mediates"
                        /\ Controls(cli[c].cmd)
                              => cli[c].ui = "unknown" /\ ~InBackground(cli[c].cmd)
    BY DEF LaunchIsMediated
  <2>2. PICK me : me = cli[c]
    OBVIOUS
  <2>3. LocalOK(me, born)
    BY <2>1, <2>2 DEF Inv, EachOK
  <2>4. me.pc \in PostUi /\ me.pc \in PostApi /\ me.pc \in PostFirst /\ me.pc \notin Ended \cup StopPcs
    BY <2>1, <2>2 DEF UnderWay, PostUi, PostApi, PostFirst, Ended, StopPcs
  <2>5. /\ Answered(me.cmd, me.ui) /\ Mediated(me.cmd, me.ui) /\ Reached(me.cmd, me.ui)
        /\ Words(me.cmd) /\ ~Rules(me.cmd)
        /\ Controls(me.cmd) => me.ui = "unknown"
    BY <2>3, <2>4 DEF LocalOK
  <2> QED
    BY <2>2, <2>5, ControlsNeedNothing DEF Answered, Mediated, Reached
<1> QED
  BY <1>1, InvAlways, PTL
=============================================================================
