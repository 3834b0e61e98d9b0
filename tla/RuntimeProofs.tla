----------------------------- MODULE RuntimeProofs -----------------------------
(***************************************************************************)
(* A runtime through its commands (RuntimeSetup), for any number of        *)
(* commands, bridges and scenes.                                           *)
(*                                                                         *)
(* A command is a list of steps, so the invariant (Inv) says three things. *)
(* Always: the files, homes and processes have their types (Base), and     *)
(* what a command has left is in the order of the places of the steps and  *)
(* holds what is still due (LocalOK, CourseOK), whoever overlaps or dies;  *)
(* a milestone that is not among them has been passed.  As long as nobody  *)
(* is disturbed (AloneOK): what has been passed is true, of the settings   *)
(* (SettingsOK), of the runner's home (HomeOK) and of the bridges          *)
(* (BridgeOK).  One lemma per step shows that the command goes on as it    *)
(* should (Moved), and MovedKeeps that this keeps Inv.  Of the bridges a   *)
(* command is about to end, StopInv says that none was a bystander when it *)
(* was collected, and that, with nobody disturbed, none is passed over:    *)
(* that is what a stop that takes many steps leaves to be relied on.       *)
(***************************************************************************)
EXTENDS RuntimeSetup, SequenceTheorems, TLAPS

-----------------------------------------------------------------------------
\* The steps a command has left are in the order of their places.
Quick == {"yaml", "home", "policy", "stored"}   \* second halves, taken at once
Place(op, x) ==
    LET late == op = "run"
    IN  IF x \in {"yaml", "home", "policy"} THEN 0
        ELSE IF x = "stored" THEN 1
        ELSE IF x \in {"vacant", "load"} THEN 2
        ELSE IF x \in {"remove_dir", "provision", "match", "target", "patch", "edit_policy"} THEN 3
        ELSE IF x \in {"make_dirs", "import", "reconcile", "channel"} THEN 4
        ELSE IF x \in {"default_policy", "clone", "decide"} THEN 5
        ELSE IF x \in {"default_config", "bootstrap", "drop_home"} THEN 6
        ELSE IF x \in {"restore_config", "write_config", "drop_workspace"} THEN 7
        ELSE IF x \in {"restore_policy", "unlink"} THEN 8
        ELSE IF x \in {"ensure_artifacts", "available"} THEN 9
        ELSE IF x = "autobind" THEN 10
        ELSE IF x = "guard" THEN IF late THEN 31 ELSE 8
        ELSE IF x = "repair_auth" THEN IF late THEN 32 ELSE 9
        ELSE IF x = "auth_store" THEN IF late THEN 33 ELSE 10
        ELSE IF x = "auth_profiles" THEN IF late THEN 34 ELSE 11
        ELSE IF x = "verify_import" THEN 12
        ELSE IF x = "alias" THEN IF late THEN 30 ELSE 13
        ELSE IF x = "save_runner" THEN 14
        ELSE IF x = "validate" THEN 15
        ELSE IF x = "select" THEN 20
        ELSE IF x = "stop_others" THEN 21
        ELSE IF x = "force" THEN 22
        ELSE IF x = "gate" THEN 23
        ELSE IF x = "running" THEN 24
        ELSE IF x = "start" THEN 25
        ELSE IF x = "settle" THEN 26
        ELSE IF x = "synced" THEN 27
        ELSE IF x = "seed" THEN 30
        ELSE IF x = "check_auth" THEN 32
        ELSE IF x = "launch" THEN 35
        ELSE 40

\* All steps.
Syncs == {"select", "stop_others", "force", "gate", "running", "start", "settle", "synced"}
LayoutSteps == {"make_dirs", "default_policy", "policy", "default_config", "yaml"}
DropSteps == {"drop_home", "drop_workspace", "unlink", "yaml"}
HomeWork == {"home", "guard", "repair_auth", "auth_store", "auth_profiles", "alias"}
Names ==
    {"done", "vacant", "load", "remove_dir", "restore_config", "restore_policy", "ensure_artifacts",
     "provision", "import", "clone", "bootstrap", "write_config", "verify_import", "save_runner",
     "validate", "match", "reconcile", "decide", "target", "available", "autobind", "stored", "seed",
     "check_auth", "launch", "patch", "channel", "edit_policy"}
    \cup LayoutSteps \cup DropSteps \cup HomeWork \cup Syncs

Left(s) == {s[i] : i \in DOMAIN s}
InOrder(op, s) ==
    /\ s \in Seq(Names)
    /\ \A i, j \in 1..Len(s) : i < j => Place(op, s[i]) < Place(op, s[j])

\* What is left comes after step m, or is the second half of a write.
Past(op, m, S) == \A x \in S : x \in Quick \/ Place(op, m) < Place(op, x)

\* The steps of an operation.
Own(op) ==
    {"done"} \cup
    (IF op = "init" THEN {"vacant"} \cup LayoutSteps
     ELSE IF op = "force" THEN {"remove_dir"} \cup LayoutSteps
     ELSE IF op = "keep"
     THEN {"load", "remove_dir", "restore_config", "restore_policy", "ensure_artifacts"} \cup LayoutSteps
     ELSE IF op = "purge" THEN {"load", "remove_dir"}
     ELSE IF op = "purge_at" THEN {"remove_dir"}
     ELSE IF op = "setup"
     THEN {"load", "provision", "import", "clone", "bootstrap", "write_config", "verify_import",
           "save_runner", "yaml", "validate"} \cup HomeWork \cup Syncs
     ELSE IF op = "remove" THEN {"load", "match"} \cup DropSteps
     ELSE IF op = "status" THEN {"load", "reconcile", "decide"} \cup DropSteps
     ELSE IF op = "run"
     THEN {"load", "target", "reconcile", "decide", "available", "autobind", "stored", "seed",
           "check_auth", "launch"} \cup DropSteps \cup HomeWork \cup Syncs
     ELSE IF op = "update" THEN {"load", "patch", "yaml", "stored", "channel"} \cup Syncs
     ELSE IF op = "policy" THEN {"load", "edit_policy", "policy"} ELSE {})

Syncing(cmd) == cmd[1] \in {"setup", "update"} \/ cmd = <<"run", "openclaw">>
\* The steps a command takes for sure.
Due(cmd) ==
    {m \in {"stop_others", "force"} : Syncing(cmd)}
    \cup {m \in {"write_config"} : cmd[1] = "setup" /\ cmd[2] # "claudecode"}
    \cup {m \in {"alias"} : cmd = <<"setup", "openclaw">>}
    \cup {m \in {"guard"} : cmd[1] = "run"}
    \cup {m \in {"make_dirs", "restore_config", "restore_policy"} : cmd[1] = "keep"}

\* What a command's own variables are like.
Policies == {"absent", "default", "edited"}
Fields(me) ==
    /\ me.cfg \in Configs /\ me.newcfg \in Configs /\ me.newhome \in Homes
    /\ me.pol \in Policies /\ me.newpol \in Policies
\* The steps another one puts before the rest are not there before it.
Begets(x) ==
    IF x = "import" THEN {"clone"}
    ELSE IF x = "reconcile" THEN {"decide", "drop_home", "drop_workspace", "unlink"}
    ELSE IF x = "decide" THEN {"drop_home", "drop_workspace", "unlink"}
    ELSE IF x = "repair_auth" THEN {"auth_store", "auth_profiles"} ELSE {}
CourseOK(cmd, todo) ==
    LET S == Left(todo)
    IN  /\ cmd \in Lines /\ InOrder(cmd[1], todo) /\ S \subseteq Own(cmd[1]) /\ "done" \in S
        /\ \A m \in Due(cmd) : m \in S \/ Past(cmd[1], m, S)
        /\ S \cap Syncs # {} => Syncing(cmd) /\ "synced" \in S
        /\ \A x \in S : S \cap Begets(x) = {}
LocalOK(me) ==
    /\ Fields(me)
    /\ me.todo # <<>> =>
        LET S == Left(me.todo)
        IN  /\ CourseOK(me.cmd, me.todo)
            /\ S \cap {"start", "settle"} # {} /\ "stop_others" \notin S => me.cfg.runner \in Bridged
            /\ me.stage = "synced" => Syncing(me.cmd) /\ Past(me.cmd[1], "synced", S)
            /\ me.stage = "unsynced" => S \cap Syncs = {}

TreeOK(t) ==
    /\ t \in Trees
    /\ (t.state => t.made) /\ (t.yaml.state = "ok" => t.state)
Processes == [of : Bridged \cup {NoRunner, "other", "latecomer"}, ours : BOOLEAN,
              state : {"gone", "starting", "polling", "refused"}, token : Nat]
BotsOK(bots) ==
    \A b \in Bots :
        /\ bots[b] \in Processes
        /\ bots[b].state \in {"starting", "polling"} /\ bots[b].ours => bots[b].of \in Bridged
        /\ bots[b].of = "other" => bots[b].state = "polling"

-----------------------------------------------------------------------------
\* The settings, where nobody interferes.
SameSettings(cfg, o) == o.bind = cfg.bind /\ o.wait = cfg.wait
Stored(t) == t.yaml.state = "ok" /\ t.policy \in {"default", "edited"}
QuietOK(t, o) ==
    o.bound => /\ t.made
               /\ Stored(t) => SameSettings(t.yaml.cfg, o) /\ o.policy = t.policy
LoadedOK(me, t, o) ==
    LET S == Left(me.todo)
    IN  /\ t.state
        /\ "policy" \notin S => t.policy \in {"default", "edited"}
        /\ "policy" \in S => me.newpol \in {"default", "edited"} /\ me.cmd[1] = "policy"
        /\ IF "yaml" \in S THEN me.newcfg = me.cfg
           ELSE t.yaml.state = "ok" /\ SameSettings(me.cfg, t.yaml.cfg)
        /\ o.bound /\ "stored" \notin S => SameSettings(me.cfg, o)
        /\ o.bound /\ "policy" \notin S => o.policy = t.policy
        /\ "stored" \in S => "yaml" \in S
KeepOK(me, t, o) ==
    LET S == Left(me.todo)
    IN  /\ me.pol \in {"default", "edited"}
        /\ o.bound => SameSettings(me.cfg, o) /\ o.policy = me.pol
        /\ "make_dirs" \notin S => t.state
        /\ "restore_config" \notin S =>
             IF "yaml" \in S THEN me.newcfg = me.cfg ELSE t.yaml.state = "ok" /\ t.yaml.cfg = me.cfg
        /\ "restore_policy" \notin S =>
             IF "policy" \in S THEN me.newpol = me.pol ELSE t.policy = me.pol
SettingsOK(me, t, o) ==
    LET S == Left(me.todo)
        op == me.cmd[1]
    IN  /\ "yaml" \in S \/ "policy" \in S => "vacant" \notin S /\ "load" \notin S /\ "remove_dir" \notin S
        /\ op \in {"init", "force", "purge", "purge_at"} \/ "load" \in S => QuietOK(t, o)
        /\ op = "init" /\ "vacant" \notin S => ~o.bound
        /\ op = "force" /\ "remove_dir" \notin S => ~o.bound
        /\ op = "keep" /\ "load" \notin S => KeepOK(me, t, o)
        /\ op \in {"setup", "remove", "status", "run", "update", "policy"} /\ "load" \notin S =>
             LoadedOK(me, t, o)

\* The home of the runner.
Fits(k, cfg, h) == h.file = "ok" /\ h.tools = Wiring(k, cfg)
HomeOK(me, t) ==
    LET S == Left(me.todo)
        op == me.cmd[1]
        k == me.cmd[2]
        h == IF "home" \in S THEN me.newhome ELSE t.home[k]
    IN  /\ "home" \in S => t.home[k].dir /\ me.newhome.file = "ok"
        /\ "write_config" \in Due(me.cmd) \ S =>
             Fits(k, me.cfg, h) /\ (k = "openclaw" => h.pinned /\ h.dir)
        /\ "alias" \in Due(me.cmd) \ S => t.workspace
        /\ "guard" \in Due(me.cmd) \ S =>
             Fits(k, me.cfg, h) \/ h.file = "torn" \/ (h.file = "absent" /\ k = "openclaw")

\* The bridges.
Sel(cfg) == IF cfg.runner \in Bridged THEN cfg.runner ELSE NoRunner
Restarts(me) == me.cmd[1] = "setup" \/ (me.cmd[1] = "update" /\ me.cmd[2] = Sel(me.cfg))
Ours(bots) == {b \in Bots : bots[b].state \in {"starting", "polling"} /\ bots[b].ours}
BridgeOK(me, t, bots) ==
    LET S == Left(me.todo)
    IN  Syncing(me.cmd) /\ me.stage # "unsynced" =>
        /\ "stop_others" \notin S => \A b \in Ours(bots) : bots[b].of = Sel(me.cfg)
        /\ "force" \notin S /\ Restarts(me) => \A b \in Ours(bots) : bots[b].token = t.channel[bots[b].of]

AloneOK ==
    /\ \A c, d \in Active : c = d
    /\ Active = {} => QuietOK(tree, owed)
    /\ \A c \in Clis :
        /\ cli[c].out # "invalid"
        /\ c \in Active => /\ SettingsOK(cli[c], tree, owed) /\ HomeOK(cli[c], tree)
                           /\ BridgeOK(cli[c], tree, bot)

Debts == [bound : BOOLEAN, bind : Binds, wait : Nat, policy : {"absent", "torn", "default", "edited"}]
CliTable == cli = [c \in Clis |-> [f \in DOMAIN Idle |-> cli[c][f]]]
Base ==
    /\ CliTable /\ TreeOK(tree) /\ BotsOK(bot) /\ bot = [b \in Bots |-> bot[b]]
    /\ owed \in Debts /\ scene \in Scenes
Inv == Base /\ (\A c \in Clis : LocalOK(cli[c])) /\ (~disturbed => AloneOK)

\* The bridges a command is about to end.  None of them was a process that is no
\* bridge when it was collected; one that runs and is aimed at, with nobody
\* disturbed, is still to be collected, is collected, or has survived.
Stops == {"stop_others", "force", "gate", "settle"}
Endings == [step : {"rest", "term", "kill", "next"}, left : SUBSET (Bridged \cup {NoRunner}),
            of : Bridged \cup {NoRunner}, doomed : SUBSET Bots, missed : BOOLEAN]
May(me) ==
    /\ me.todo # <<>> /\ Head(me.todo) \in Stops
    /\ Head(me.todo) = "force" => Restarts(me)
    /\ Head(me.todo) = "gate" => me.stage = "off"
StopOK(me, e, bots) ==
    /\ e \in Endings
    /\ e.step \in {"rest", "next"} => e.doomed = {} /\ ~e.missed
    /\ e.step # "rest" => May(me)
    /\ \A p \in e.doomed : bots[p].of # "other"
Aims(me) == IF Head(me.todo) = "stop_others" THEN Bridged \ {Sel(me.cfg)} ELSE {Sel(me.cfg)}
Caught(me, e, bots) ==
    e.step # "rest" /\ Head(me.todo) # "settle" =>
        \A b \in Ours(bots) :
            bots[b].of \in Aims(me) => bots[b].of \in e.left \/ b \in e.doomed \/ e.missed
StopInv ==
    /\ ending = [c \in Clis |-> ending[c]]
    /\ \A c \in Clis : /\ StopOK(cli[c], ending[c], bot)
                       /\ ~disturbed => Caught(cli[c], ending[c], bot)

-----------------------------------------------------------------------------
\* The order of steps.
LEMMA Places ==
  \A op :
    /\ Place(op, "yaml") = 0 /\ Place(op, "home") = 0 /\ Place(op, "policy") = 0
    /\ Place(op, "stored") = 1 /\ Place(op, "vacant") = 2 /\ Place(op, "load") = 2
    /\ Place(op, "remove_dir") = 3 /\ Place(op, "provision") = 3 /\ Place(op, "match") = 3
    /\ Place(op, "target") = 3 /\ Place(op, "patch") = 3 /\ Place(op, "edit_policy") = 3
    /\ Place(op, "make_dirs") = 4 /\ Place(op, "import") = 4 /\ Place(op, "reconcile") = 4
    /\ Place(op, "channel") = 4 /\ Place(op, "default_policy") = 5 /\ Place(op, "clone") = 5
    /\ Place(op, "decide") = 5 /\ Place(op, "default_config") = 6 /\ Place(op, "bootstrap") = 6
    /\ Place(op, "drop_home") = 6 /\ Place(op, "restore_config") = 7
    /\ Place(op, "write_config") = 7 /\ Place(op, "drop_workspace") = 7
    /\ Place(op, "restore_policy") = 8 /\ Place(op, "unlink") = 8
    /\ Place(op, "ensure_artifacts") = 9 /\ Place(op, "available") = 9
    /\ Place(op, "autobind") = 10
    /\ Place(op, "guard") = (IF op = "run" THEN 31 ELSE 8)
    /\ Place(op, "repair_auth") = (IF op = "run" THEN 32 ELSE 9)
    /\ Place(op, "auth_store") = (IF op = "run" THEN 33 ELSE 10)
    /\ Place(op, "auth_profiles") = (IF op = "run" THEN 34 ELSE 11)
    /\ Place(op, "verify_import") = 12
    /\ Place(op, "alias") = (IF op = "run" THEN 30 ELSE 13)
    /\ Place(op, "save_runner") = 14 /\ Place(op, "validate") = 15
    /\ Place(op, "select") = 20 /\ Place(op, "stop_others") = 21 /\ Place(op, "force") = 22
    /\ Place(op, "gate") = 23 /\ Place(op, "running") = 24 /\ Place(op, "start") = 25
    /\ Place(op, "settle") = 26 /\ Place(op, "synced") = 27 /\ Place(op, "seed") = 30
    /\ Place(op, "check_auth") = 32 /\ Place(op, "launch") = 35 /\ Place(op, "done") = 40
<1> TAKE op
<1> QED
  BY SMTT(90) DEF Place

LEMMA PlaceNat == \A op, x : Place(op, x) \in 0..40
  BY DEF Place

LEMMA SyncPlaces == \A op : \A x \in Syncs : Place(op, x) \in 20..27 /\ (x = "synced" <=> Place(op, x) = 27)
<1> SUFFICES ASSUME NEW op, NEW x \in Syncs
             PROVE  Place(op, x) \in 20..27 /\ (x = "synced" <=> Place(op, x) = 27)
  OBVIOUS
<1>1. /\ Place(op, "select") = 20 /\ Place(op, "stop_others") = 21 /\ Place(op, "force") = 22
      /\ Place(op, "gate") = 23 /\ Place(op, "running") = 24 /\ Place(op, "start") = 25
      /\ Place(op, "settle") = 26 /\ Place(op, "synced") = 27
  BY Places
<1>2. \/ x = "select" \/ x = "stop_others" \/ x = "force" \/ x = "gate" \/ x = "running"
      \/ x = "start" \/ x = "settle" \/ x = "synced"
  BY DEF Syncs
<1> QED
  BY <1>1, <1>2

LEMMA LastPlace == \A op : Place(op, "done") = 40 /\ 27 < Place(op, "done")
  BY DEF Place

LEMMA Upto27 == \A n \in 20..27 : n \in 0..40 /\ ~(27 < n)
  OBVIOUS

LEMMA Later ==
  \A m, n \in 0..40 : ~(m < m) /\ (m < n => ~(n < m)) /\ (\A k \in 0..40 : m < n /\ n < k => m < k)
  OBVIOUS

\* Only second halves come before the first step of all.
LEMMA QuickPlaces == \A op, x : Place(op, x) < 2 => x \in Quick
  BY DEF Place, Quick

LEMMA Ahead ==
  ASSUME NEW op, NEW s, InOrder(op, s), s # <<>>
  PROVE  /\ InOrder(op, Tail(s)) /\ Head(s) \in Left(s) /\ Head(s) \in Names
         /\ Left(Tail(s)) = Left(s) \ {Head(s)}
         /\ \A x \in Left(s) : x = Head(s) \/ Place(op, Head(s)) < Place(op, x)
         /\ \A x \in Left(Tail(s)) : Place(op, Head(s)) < Place(op, x)
<1>1. s \in Seq(Names) /\ Len(s) \in Nat /\ Len(s) > 0 /\ DOMAIN s = 1..Len(s)
  BY DEF InOrder
<1>2. Tail(s) \in Seq(Names) /\ Len(Tail(s)) = Len(s) - 1 /\ DOMAIN Tail(s) = 1..(Len(s) - 1)
  BY <1>1
<1>3. \A i \in 1..(Len(s) - 1) : Tail(s)[i] = s[i + 1]
  BY <1>1
<1>4. Head(s) = s[1]
  BY <1>1
<1>5. InOrder(op, Tail(s))
  BY <1>1, <1>2, <1>3 DEF InOrder
<1>6. \A i \in 2..Len(s) : Place(op, s[1]) < Place(op, s[i])
  BY <1>1 DEF InOrder
<1>7. \A i \in 2..Len(s) : s[i] # s[1]
  <2>1. SUFFICES ASSUME NEW i \in 2..Len(s), s[i] = s[1] PROVE FALSE
    OBVIOUS
  <2>2. Place(op, s[1]) < Place(op, s[1])
    BY <1>6, <2>1
  <2>3. Place(op, s[1]) \in 0..40
    BY PlaceNat
  <2> QED
    BY <2>2, <2>3, Later, Zenon
<1>8. Left(Tail(s)) = {s[i] : i \in 2..Len(s)}
  <2>1. Left(Tail(s)) = {s[i + 1] : i \in 1..(Len(s) - 1)}
    BY <1>2, <1>3 DEF Left
  <2>2. \A i \in 1..(Len(s) - 1) : i + 1 \in 2..Len(s)
    BY <1>1
  <2>3. \A i \in 2..Len(s) : i - 1 \in 1..(Len(s) - 1) /\ (i - 1) + 1 = i
    BY <1>1
  <2> QED
    BY <2>1, <2>2, <2>3
<1>9. Left(s) = {s[i] : i \in 1..Len(s)}
  BY <1>1 DEF Left
<1> QED
  BY <1>1, <1>4, <1>5, <1>6, <1>7, <1>8, <1>9

LEMMA OnTop ==
  ASSUME NEW S, NEW e \in S, NEW t \in Seq(S)
  PROVE  /\ <<e>> \o t \in Seq(S) /\ Len(<<e>> \o t) = Len(t) + 1
         /\ DOMAIN (<<e>> \o t) = 1..(Len(t) + 1) /\ (<<e>> \o t)[1] = e
         /\ \A i \in 1..Len(t) : (<<e>> \o t)[i + 1] = t[i]
<1>1. <<e>> \in Seq(S) /\ Len(<<e>>) = 1 /\ <<e>>[1] = e
  OBVIOUS
<1>2. <<e>> \o t \in Seq(S) /\ Len(<<e>> \o t) = Len(t) + 1
  BY <1>1
<1> QED
  BY <1>1, <1>2

LEMMA Suffix ==
  ASSUME NEW S, NEW s \in Seq(S), NEW n \in 1..Len(s)
  PROVE  /\ SubSeq(s, n + 1, Len(s)) \in Seq(S) /\ Len(SubSeq(s, n + 1, Len(s))) = Len(s) - n
         /\ \A i \in 1..(Len(s) - n) : SubSeq(s, n + 1, Len(s))[i] = s[n + i]
<1>1. \A i \in (n + 1)..Len(s) : s[i] \in S
  OBVIOUS
<1>2. n + 1 \in Int /\ Len(s) \in Int
  OBVIOUS
<1> DEFINE t == SubSeq(s, n + 1, Len(s))
<1>3. /\ t \in Seq(S)
      /\ Len(t) = IF n + 1 <= Len(s) THEN Len(s) - (n + 1) + 1 ELSE 0
      /\ \A i \in 1..(Len(s) - (n + 1) + 1) : t[i] = s[(n + 1) + i - 1]
  BY <1>1, <1>2, SubSeqProperties
<1> HIDE DEF t
<1>4. Len(t) = Len(s) - n
  BY <1>2, <1>3
<1>5. \A i \in 1..(Len(s) - n) : i \in 1..(Len(s) - (n + 1) + 1) /\ (n + 1) + i - 1 = n + i
  BY <1>2
<1>6. \A i \in 1..(Len(s) - n) : t[i] = s[n + i]
  BY <1>3, <1>5
<1> QED
  BY <1>3, <1>4, <1>6 DEF t

LEMMA Put ==
  ASSUME NEW op, NEW t, InOrder(op, t), NEW e \in Names,
         \A x \in Left(t) : Place(op, e) < Place(op, x)
  PROVE  /\ InOrder(op, <<e>> \o t) /\ Left(<<e>> \o t) = {e} \cup Left(t)
         /\ <<e>> \o t # <<>> /\ Head(<<e>> \o t) = e
<1> DEFINE s == <<e>> \o t
<1>1. t \in Seq(Names) /\ Len(t) \in Nat /\ DOMAIN t = 1..Len(t)
  BY DEF InOrder
<1>2. s \in Seq(Names) /\ Len(s) = Len(t) + 1 /\ DOMAIN s = 1..(Len(t) + 1)
  BY <1>1, OnTop
<1>3. s[1] = e /\ \A i \in 1..Len(t) : s[i + 1] = t[i]
  BY <1>1, OnTop
<1>4. s # <<>> /\ Head(s) = e
  BY <1>2, <1>3
<1>5. Left(t) = {t[i] : i \in 1..Len(t)} /\ Left(s) = {s[i] : i \in 1..(Len(t) + 1)}
  BY <1>1, <1>2 DEF Left
<1> HIDE DEF s
<1>6. \A i \in 2..(Len(t) + 1) : i - 1 \in 1..Len(t) /\ s[i] = t[i - 1]
  <2>1. \A i \in 2..(Len(t) + 1) : i - 1 \in 1..Len(t) /\ (i - 1) + 1 = i
    BY <1>1
  <2> QED
    BY <1>3, <2>1
<1>7. Left(s) = {e} \cup Left(t)
  <2>1. \A i \in 1..(Len(t) + 1) : i = 1 \/ i \in 2..(Len(t) + 1)
    BY <1>1
  <2>2. \A i \in 1..Len(t) : i + 1 \in 1..(Len(t) + 1)
    BY <1>1
  <2>3. 1 \in 1..(Len(t) + 1)
    BY <1>1
  <2>4. Left(s) \subseteq {e} \cup Left(t)
    <3>1. \A i \in 1..(Len(t) + 1) : s[i] = e \/ s[i] \in Left(t)
      BY <1>3, <1>5, <1>6, <2>1
    <3> QED
      BY <1>5, <3>1
  <2>5. {e} \cup Left(t) \subseteq Left(s)
    BY <1>3, <1>5, <2>2, <2>3
  <2> QED
    BY <2>4, <2>5
<1>8. \A i, j \in 1..(Len(t) + 1) : i < j => Place(op, s[i]) < Place(op, s[j])
  <2>1. SUFFICES ASSUME NEW i \in 1..(Len(t) + 1), NEW j \in 1..(Len(t) + 1), i < j
                 PROVE  Place(op, s[i]) < Place(op, s[j])
    OBVIOUS
  <2>2. j \in 2..(Len(t) + 1) /\ j - 1 \in 1..Len(t)
    BY <1>1, <2>1
  <2>3. s[j] = t[j - 1] /\ t[j - 1] \in Left(t)
    BY <1>5, <1>6, <2>2
  <2>4. CASE i = 1
    BY <1>3, <2>3, <2>4
  <2>5. CASE i # 1
    <3>1. i \in 2..(Len(t) + 1) /\ i - 1 \in 1..Len(t) /\ i - 1 < j - 1
      BY <1>1, <2>1, <2>2, <2>5
    <3> QED
      BY <1>1, <1>6, <2>2, <2>3, <3>1 DEF InOrder
  <2> QED
    BY <2>4, <2>5
<1>9. InOrder(op, s)
  BY <1>2, <1>8 DEF InOrder
<1> QED
  BY <1>4, <1>7, <1>9 DEF s

\* What is left after the bridges are in step.
Beyond(s) == LET n == CHOOSE n \in DOMAIN s : s[n] = "synced" IN SubSeq(s, n + 1, Len(s))
LEMMA Skip ==
  ASSUME NEW op, NEW s, InOrder(op, s), "synced" \in Left(s),
         NEW t, t = Beyond(s)
  PROVE  InOrder(op, t) /\ Left(t) = {x \in Left(s) : 27 < Place(op, x)}
<1> DEFINE n == CHOOSE n \in DOMAIN s : s[n] = "synced"
<1>1. s \in Seq(Names) /\ Len(s) \in Nat /\ DOMAIN s = 1..Len(s)
  BY DEF InOrder
<1>2. n \in 1..Len(s) /\ s[n] = "synced"
  BY <1>1 DEF Left
<1>3. t = SubSeq(s, n + 1, Len(s))
  BY DEF Beyond
<1> HIDE DEF n
<1>4. n + 1 \in 1..(Len(s) + 1) /\ Len(s) \in n..Len(s) /\ n \in Nat
      /\ Len(s) - n \in Nat /\ (n + 1) - 1 = n /\ Len(s) - (n + 1) + 1 = Len(s) - n
  BY <1>1, <1>2
<1>41. t \in Seq(Names) /\ Len(t) = Len(s) - n
      /\ \A i \in 1..(Len(s) - n) : t[i] = s[(n + 1) + i - 1]
  <2>1. /\ t \in Seq(Names) /\ Len(t) = Len(s) - n
        /\ \A i \in 1..(Len(s) - n) : t[i] = s[n + i]
    BY <1>1, <1>2, <1>3, Suffix, Zenon
  <2>2. \A i \in 1..(Len(s) - n) : n + i = (n + 1) + i - 1
    BY <1>4
  <2> QED
    BY <2>1, <2>2
<1>42. DOMAIN t = 1..(Len(s) - n)
  BY <1>41
<1>5. \A i \in 1..(Len(s) - n) : t[i] = s[n + i] /\ n + i \in 1..Len(s)
  <2>1. \A i \in 1..(Len(s) - n) : (n + 1) + i - 1 = n + i /\ n + i \in 1..Len(s)
    BY <1>1, <1>4
  <2> QED
    BY <1>41, <2>1
<1>6. InOrder(op, t)
  <2>1. SUFFICES ASSUME NEW i \in 1..Len(t), NEW j \in 1..Len(t), i < j
                 PROVE  Place(op, t[i]) < Place(op, t[j])
    BY <1>41 DEF InOrder
  <2>2. n + i \in 1..Len(s) /\ n + j \in 1..Len(s) /\ n + i < n + j
    <3>1. i \in 1..(Len(s) - n) /\ j \in 1..(Len(s) - n)
      BY <1>41, <2>1
    <3>2. n + i < n + j
      BY <1>4, <2>1
    <3> QED
      BY <1>5, <3>1, <3>2
  <2>3. Place(op, s[n + i]) < Place(op, s[n + j])
    BY <2>2 DEF InOrder
  <2>4. t[i] = s[n + i] /\ t[j] = s[n + j]
    BY <1>41, <1>5, <2>1
  <2> QED
    BY <2>3, <2>4
<1>7. \A i \in 1..Len(s) : 27 < Place(op, s[i]) <=> n < i
  <2>1. SUFFICES ASSUME NEW i \in 1..Len(s) PROVE 27 < Place(op, s[i]) <=> n < i
    OBVIOUS
  <2>2. Place(op, s[n]) = 27
    BY <1>2, Places
  <2>3. n < i \/ n = i \/ i < n
    BY <1>1, <1>2
  <2>4. Place(op, s[i]) \in 0..40
    BY PlaceNat
  <2>5. n < i => Place(op, s[n]) < Place(op, s[i])
    BY <1>2, <2>1 DEF InOrder
  <2>6. i < n => Place(op, s[i]) < Place(op, s[n])
    BY <1>2, <2>1 DEF InOrder
  <2>7. 27 \in 0..40 /\ n \in Int /\ i \in Int /\ ~(n < n) /\ (n < i => ~(i < n) /\ i # n)
    BY <1>1, <1>4, <2>1
  <2>8. CASE n < i
    BY <2>2, <2>5, <2>8, Zenon
  <2>9. CASE n = i
    BY <2>2, <2>7, <2>9, Later, Zenon
  <2>10. CASE i < n
    <3>1. Place(op, s[i]) < 27
      BY <2>2, <2>6, <2>10, Zenon
    <3>2. ~(27 < Place(op, s[i]))
      BY <2>4, <2>7, <3>1, Later, Zenon
    <3> QED
      BY <2>7, <2>10, <3>2, Zenon
  <2> QED
    BY <2>3, <2>8, <2>9, <2>10, Zenon
<1>8. \A i \in 1..Len(s) : n < i => i - n \in 1..(Len(s) - n) /\ n + (i - n) = i
  BY <1>1, <1>2
<1>9. \A i \in 1..(Len(s) - n) : n < n + i
  BY <1>1, <1>2
<1>10. Left(t) = {t[i] : i \in 1..(Len(s) - n)} /\ Left(s) = {s[i] : i \in 1..Len(s)}
  BY <1>1, <1>42 DEF Left
<1>11. Left(t) \subseteq {x \in Left(s) : 27 < Place(op, x)}
  BY <1>5, <1>7, <1>9, <1>10
<1>12. \A i \in 1..Len(s) : 27 < Place(op, s[i]) => s[i] = t[i - n] /\ i - n \in 1..(Len(s) - n)
  BY <1>5, <1>7, <1>8
<1>13. {x \in Left(s) : 27 < Place(op, x)} \subseteq Left(t)
  BY <1>10, <1>12
<1> QED
  BY <1>6, <1>11, <1>13

-----------------------------------------------------------------------------
\* What a step of a command leaves of its own variables.
Becomes(me, todo, ch, you) ==
    /\ you.todo = todo
    /\ you.cmd = IF "cmd" \in DOMAIN ch THEN ch.cmd ELSE me.cmd
    /\ you.out = IF "out" \in DOMAIN ch THEN ch.out ELSE me.out
    /\ you.cfg = IF "cfg" \in DOMAIN ch THEN ch.cfg ELSE me.cfg
    /\ you.pol = IF "pol" \in DOMAIN ch THEN ch.pol ELSE me.pol
    /\ you.newcfg = IF "newcfg" \in DOMAIN ch THEN ch.newcfg ELSE me.newcfg
    /\ you.newpol = IF "newpol" \in DOMAIN ch THEN ch.newpol ELSE me.newpol
    /\ you.newhome = IF "newhome" \in DOMAIN ch THEN ch.newhome ELSE me.newhome
    /\ you.stage = IF "stage" \in DOMAIN ch THEN ch.stage ELSE me.stage
    /\ you.bot = IF "bot" \in DOMAIN ch THEN ch.bot ELSE me.bot

\* All but the fields in F are carried over.
Carries(me, you, F) ==
    /\ you.cmd = me.cmd /\ you.out = me.out
    /\ "cfg" \in F \/ you.cfg = me.cfg
    /\ "pol" \in F \/ you.pol = me.pol
    /\ "newcfg" \in F \/ you.newcfg = me.newcfg
    /\ "newpol" \in F \/ you.newpol = me.newpol
    /\ "newhome" \in F \/ you.newhome = me.newhome
    /\ "stage" \in F \/ you.stage = me.stage
    /\ "bot" \in F \/ you.bot = me.bot

Only(c) == CliTable' /\ \A d \in Clis \ {c} : cli'[d] = cli[d]

LEMMA StepChanges ==
  ASSUME CliTable, NEW c \in Clis, NEW todo, NEW ch, Step(c, todo, ch)
  PROVE  Only(c) /\ Becomes(cli[c], todo, ch, cli'[c])
<1> DEFINE g == [f \in DOMAIN Idle |-> IF f = "todo" THEN todo
                                       ELSE IF f \in DOMAIN ch THEN ch[f] ELSE cli[c][f]]
<1>1. cli' = [cli EXCEPT ![c] = g]
  BY DEF Step
<1>2. g = [f \in DOMAIN Idle |-> g[f]]
  OBVIOUS
<1>3. \A f \in DOMAIN Idle : g[f] = IF f = "todo" THEN todo
                                    ELSE IF f \in DOMAIN ch THEN ch[f] ELSE cli[c][f]
  OBVIOUS
<1> HIDE DEF g
<1>4. cli' = [d \in Clis |-> IF d = c THEN g ELSE cli[d]]
  BY <1>1 DEF CliTable
<1>5. cli'[c] = g /\ \A d \in Clis \ {c} : cli'[d] = cli[d]
  BY <1>4
<1>6. \A d \in Clis : cli[d] = [f \in DOMAIN Idle |-> cli[d][f]]
  BY DEF CliTable
<1>7. \A d \in Clis : cli'[d] = [f \in DOMAIN Idle |-> cli'[d][f]]
  BY <1>2, <1>5, <1>6
<1>8. CliTable'
  BY <1>4, <1>7 DEF CliTable
<1>9. Becomes(cli[c], todo, ch, g)
  BY <1>3 DEF Becomes, Idle
<1> QED
  BY <1>5, <1>8, <1>9 DEF Only

\* The end of a command.
Ended(me, out, you) ==
    /\ you.todo = <<>> /\ you.out = out /\ you.cmd = me.cmd /\ you.cfg = DefaultConfig
    /\ you.pol = "absent" /\ you.newcfg = DefaultConfig /\ you.newpol = "absent"
    /\ you.newhome = NoHome /\ you.stage = "" /\ you.bot = 0

LEMMA EndChanges ==
  ASSUME CliTable, NEW c \in Clis, NEW out, Ends(c, out)
  PROVE  Only(c) /\ Ended(cli[c], out, cli'[c])
<1> DEFINE g == [Idle EXCEPT !.out = out, !.cmd = cli[c].cmd]
<1>1. cli' = [cli EXCEPT ![c] = g]
  BY DEF Ends
<1>2. g = [f \in DOMAIN Idle |-> g[f]]
  BY DEF Idle
<1>3. Ended(cli[c], out, g)
  BY DEF Ended, Idle
<1> HIDE DEF g
<1>4. cli' = [d \in Clis |-> IF d = c THEN g ELSE cli[d]]
  BY <1>1 DEF CliTable
<1>5. cli'[c] = g /\ \A d \in Clis \ {c} : cli'[d] = cli[d]
  BY <1>4
<1>6. \A d \in Clis : cli[d] = [f \in DOMAIN Idle |-> cli[d][f]]
  BY DEF CliTable
<1>7. \A d \in Clis : cli'[d] = [f \in DOMAIN Idle |-> cli'[d][f]]
  BY <1>2, <1>5, <1>6
<1>8. CliTable'
  BY <1>4, <1>7 DEF CliTable
<1> QED
  BY <1>3, <1>5, <1>8 DEF Only

\* The changes there are.
LEMMA PlainStep ==
  ASSUME NEW me, NEW todo, NEW you, Becomes(me, todo, [x \in {} |-> 0], you)
  PROVE  you.todo = todo /\ Carries(me, you, {})
  BY DEF Becomes, Carries

LEMMA ChangeSteps ==
  ASSUME NEW me, NEW todo, NEW you, NEW u, NEW v
  PROVE  /\ Becomes(me, todo, [cfg |-> u, pol |-> v], you) =>
              you.todo = todo /\ you.cfg = u /\ you.pol = v /\ Carries(me, you, {"cfg", "pol"})
         /\ Becomes(me, todo, [cfg |-> u], you) =>
              you.todo = todo /\ you.cfg = u /\ Carries(me, you, {"cfg"})
         /\ Becomes(me, todo, [newpol |-> u], you) =>
              you.todo = todo /\ you.newpol = u /\ Carries(me, you, {"newpol"})
         /\ Becomes(me, todo, [newhome |-> u], you) =>
              you.todo = todo /\ you.newhome = u /\ Carries(me, you, {"newhome"})
         /\ Becomes(me, todo, [stage |-> u], you) =>
              you.todo = todo /\ you.stage = u /\ Carries(me, you, {"stage"})
         /\ Becomes(me, todo, [bot |-> u], you) =>
              you.todo = todo /\ you.bot = u /\ Carries(me, you, {"bot"})
         /\ Becomes(me, todo, [bot |-> u, stage |-> v], you) =>
              you.todo = todo /\ you.bot = u /\ you.stage = v /\ Carries(me, you, {"bot", "stage"})
<1>1. /\ Becomes(me, todo, [cfg |-> u, pol |-> v], you) =>
           you.todo = todo /\ you.cfg = u /\ you.pol = v /\ Carries(me, you, {"cfg", "pol"})
      /\ Becomes(me, todo, [cfg |-> u], you) =>
           you.todo = todo /\ you.cfg = u /\ Carries(me, you, {"cfg"})
      /\ Becomes(me, todo, [newpol |-> u], you) =>
           you.todo = todo /\ you.newpol = u /\ Carries(me, you, {"newpol"})
  BY DEF Becomes, Carries
<1>2. /\ Becomes(me, todo, [newhome |-> u], you) =>
           you.todo = todo /\ you.newhome = u /\ Carries(me, you, {"newhome"})
      /\ Becomes(me, todo, [stage |-> u], you) =>
           you.todo = todo /\ you.stage = u /\ Carries(me, you, {"stage"})
  BY DEF Becomes, Carries
<1>3. /\ Becomes(me, todo, [bot |-> u], you) =>
           you.todo = todo /\ you.bot = u /\ Carries(me, you, {"bot"})
      /\ Becomes(me, todo, [bot |-> u, stage |-> v], you) =>
           you.todo = todo /\ you.bot = u /\ you.stage = v /\ Carries(me, you, {"bot", "stage"})
  BY DEF Becomes, Carries
<1> QED
  BY <1>1, <1>2, <1>3

\* The first half of writing config.yaml.
YamlChanges(changes, cfg) ==
    [f \in DOMAIN changes \cup {"newcfg"} |-> IF f = "newcfg" THEN cfg ELSE changes[f]]
-----------------------------------------------------------------------------
\* A step is taken off, and the steps in E go before the rest.
Onward(op, s, t, E) ==
    /\ InOrder(op, t) /\ Left(t) = (Left(s) \ {Head(s)}) \cup E
    /\ \A x \in E : x \in Quick \/ (Head(s) \notin Quick /\ Place(op, Head(s)) < Place(op, x))

LEMMA DuePlaces ==
  ASSUME NEW cmd, NEW m \in Due(cmd)
  PROVE  /\ m \in {"stop_others", "force", "write_config", "alias", "guard", "make_dirs",
                   "restore_config", "restore_policy"}
         /\ m \notin Quick
         /\ Place(cmd[1], m) \in 0..40 /\ (27 < Place(cmd[1], m) \/ Place(cmd[1], m) < 27)
<1>1. m \in {"stop_others", "force", "write_config", "alias", "guard", "make_dirs",
              "restore_config", "restore_policy"} /\ m \notin Quick
  BY DEF Due, Quick
<1>2. Place(cmd[1], m) \in 0..40
  BY PlaceNat
<1>3. Place(cmd[1], m) # 27
  <2>1. LET op == cmd[1]
        IN  /\ Place(op, "stop_others") = 21 /\ Place(op, "force") = 22
            /\ Place(op, "write_config") = 7 /\ Place(op, "alias") = (IF op = "run" THEN 30 ELSE 13)
            /\ Place(op, "guard") = (IF op = "run" THEN 31 ELSE 8) /\ Place(op, "make_dirs") = 4
            /\ Place(op, "restore_config") = 7 /\ Place(op, "restore_policy") = 8
    BY Places
  <2> QED
    BY <1>1, <2>1
<1>4. \A n \in 0..40 : n # 27 => 27 < n \/ n < 27
  OBVIOUS
<1> QED
  BY <1>1, <1>2, <1>3, <1>4, Zenon

LEMMA Popped ==
  ASSUME NEW op, NEW s, InOrder(op, s), s # <<>>
  PROVE  Onward(op, s, Tail(s), {})
  BY Ahead DEF Onward

LEMMA Pushed ==
  ASSUME NEW op, NEW s, NEW t, NEW E, Onward(op, s, t, E), NEW e \in Names,
         e \in Quick \/ (Head(s) \notin Quick /\ Place(op, Head(s)) < Place(op, e)),
         \A x \in Left(t) : Place(op, e) < Place(op, x)
  PROVE  /\ Onward(op, s, <<e>> \o t, {e} \cup E) /\ Head(<<e>> \o t) = e
         /\ Left(<<e>> \o t) = {e} \cup Left(t)
<1>1. InOrder(op, <<e>> \o t) /\ Left(<<e>> \o t) = {e} \cup Left(t) /\ Head(<<e>> \o t) = e
  BY Put DEF Onward
<1> QED
  BY <1>1 DEF Onward

LEMMA OnwardCourse ==
  ASSUME NEW cmd, NEW s, CourseOK(cmd, s), s # <<>>, NEW t, NEW E, Onward(cmd[1], s, t, E),
         E \subseteq Own(cmd[1]) \ Syncs, Head(s) # "done",
         \A x \in Left(t) : Left(t) \cap Begets(x) = {}
  PROVE  CourseOK(cmd, t) /\ t # <<>>
<1> DEFINE S == Left(s)
<1> DEFINE T == Left(t)
<1>1. /\ cmd \in Lines /\ InOrder(cmd[1], s) /\ S \subseteq Own(cmd[1]) /\ "done" \in S
      /\ \A m \in Due(cmd) : m \in S \/ Past(cmd[1], m, S)
      /\ S \cap Syncs # {} => Syncing(cmd) /\ "synced" \in S
  BY DEF CourseOK
<1>2. /\ InOrder(cmd[1], t) /\ T = (S \ {Head(s)}) \cup E
      /\ \A x \in E : x \in Quick \/ (Head(s) \notin Quick /\ Place(cmd[1], Head(s)) < Place(cmd[1], x))
  BY DEF Onward
<1>3. Head(s) \in S /\ \A x \in S : x = Head(s) \/ Place(cmd[1], Head(s)) < Place(cmd[1], x)
  BY <1>1, Ahead
<1> HIDE DEF S, T
<1>4. T \subseteq Own(cmd[1]) /\ "done" \in T
  BY <1>1, <1>2
<1>5. t # <<>>
  BY <1>4 DEF T, Left
<1>6. \A m \in Due(cmd) : m \in T \/ Past(cmd[1], m, T)
  <2>1. SUFFICES ASSUME NEW m \in Due(cmd), m \notin T PROVE Past(cmd[1], m, T)
    OBVIOUS
  <2>2. SUFFICES ASSUME NEW x \in T, x \notin Quick PROVE Place(cmd[1], m) < Place(cmd[1], x)
    BY DEF Past
  <2>3. CASE m \in S
    <3>1. m = Head(s)
      BY <1>2, <2>1, <2>3
    <3> QED
      BY <1>2, <1>3, <2>2, <3>1
  <2>4. CASE m \notin S
    <3>1. \A y \in S : y \in Quick \/ Place(cmd[1], m) < Place(cmd[1], y)
      BY <1>1, <2>4 DEF Past
    <3>2. CASE x \in S
      BY <2>2, <3>1, <3>2
    <3>3. CASE x \in E
      <4>1. Place(cmd[1], m) < Place(cmd[1], Head(s)) /\ Place(cmd[1], Head(s)) < Place(cmd[1], x)
        BY <1>2, <1>3, <2>2, <3>1, <3>3
      <4>2. /\ Place(cmd[1], m) \in 0..40 /\ Place(cmd[1], Head(s)) \in 0..40
            /\ Place(cmd[1], x) \in 0..40
        BY PlaceNat
      <4> QED
        BY <4>1, <4>2, Later, Zenon
    <3> QED
      BY <1>2, <3>2, <3>3
  <2> QED
    BY <2>3, <2>4
<1>7. T \cap Syncs # {} => Syncing(cmd) /\ "synced" \in T
  <2>1. SUFFICES ASSUME NEW x \in T, x \in Syncs PROVE Syncing(cmd) /\ "synced" \in T
    OBVIOUS
  <2>2. x \in S /\ x # Head(s)
    BY <1>2, <2>1
  <2>3. Syncing(cmd) /\ "synced" \in S
    BY <1>1, <2>1, <2>2
  <2>4. Head(s) # "synced"
    <3>1. SUFFICES ASSUME Head(s) = "synced" PROVE FALSE
      OBVIOUS
    <3>2. Place(cmd[1], "synced") < Place(cmd[1], x) /\ Place(cmd[1], "synced") = 27
      BY <1>3, <2>2, <3>1, SyncPlaces DEF Syncs
    <3>3. ~(27 < Place(cmd[1], x))
      BY <2>1, SyncPlaces, Upto27
    <3> QED
      BY <3>2, <3>3
  <2> QED
    BY <1>2, <2>3, <2>4
<1> QED
  BY <1>1, <1>2, <1>4, <1>5, <1>6, <1>7 DEF CourseOK, T

\* Taking a step off.
LEMMA PopCourse ==
  ASSUME NEW cmd, NEW s, CourseOK(cmd, s), s # <<>>, Head(s) # "done"
  PROVE  /\ CourseOK(cmd, Tail(s)) /\ Tail(s) # <<>> /\ Left(Tail(s)) = Left(s) \ {Head(s)}
         /\ Onward(cmd[1], s, Tail(s), {})
         /\ \A x \in Left(Tail(s)) : Place(cmd[1], Head(s)) < Place(cmd[1], x)
<1>1. InOrder(cmd[1], s) /\ \A x \in Left(s) : Left(s) \cap Begets(x) = {}
  BY DEF CourseOK
<1>2. Onward(cmd[1], s, Tail(s), {}) /\ Left(Tail(s)) = Left(s) \ {Head(s)}
      /\ \A x \in Left(Tail(s)) : Place(cmd[1], Head(s)) < Place(cmd[1], x)
  BY <1>1, Popped, Ahead
<1>3. \A x \in Left(Tail(s)) : Left(Tail(s)) \cap Begets(x) = {}
  BY <1>1, <1>2
<1> QED
  BY <1>2, <1>3, OnwardCourse

\* Second halves of writes go before anything.
LEMMA QuickPush ==
  ASSUME NEW op, NEW s, NEW t, NEW E, Onward(op, s, t, E), NEW e \in {"yaml", "policy", "home"},
         \A x \in Left(t) : 0 < Place(op, x)
  PROVE  Onward(op, s, <<e>> \o t, {e} \cup E) /\ Head(<<e>> \o t) = e
<1>1. e \in Quick /\ e \in Names /\ Place(op, e) = 0
  BY Places DEF Quick, Names, LayoutSteps, HomeWork
<1> QED
  BY <1>1, Pushed

LEMMA QuickCourse ==
  ASSUME NEW cmd, NEW s, CourseOK(cmd, s), s # <<>>, Head(s) # "done", Head(s) \notin Quick,
         NEW e \in {"yaml", "policy", "home"}, e \in Own(cmd[1])
  PROVE  /\ CourseOK(cmd, <<e>> \o Tail(s)) /\ <<e>> \o Tail(s) # <<>>
         /\ Left(<<e>> \o Tail(s)) = (Left(s) \ {Head(s)}) \cup {e}
         /\ Onward(cmd[1], s, <<e>> \o Tail(s), {e}) /\ Head(<<e>> \o Tail(s)) = e
<1>1. /\ Onward(cmd[1], s, Tail(s), {}) /\ Left(Tail(s)) = Left(s) \ {Head(s)}
      /\ \A x \in Left(Tail(s)) : Place(cmd[1], Head(s)) < Place(cmd[1], x)
      /\ CourseOK(cmd, Tail(s))
  BY PopCourse
<1>2. \A x \in Left(Tail(s)) : 0 < Place(cmd[1], x)
  <2>1. SUFFICES ASSUME NEW x \in Left(Tail(s)) PROVE 0 < Place(cmd[1], x)
    OBVIOUS
  <2>2. Place(cmd[1], Head(s)) < Place(cmd[1], x) /\ Place(cmd[1], Head(s)) \in 0..40
        /\ Place(cmd[1], x) \in 0..40
    BY <1>1, PlaceNat
  <2>3. \A m, n \in 0..40 : m < n => 0 < n
    OBVIOUS
  <2> QED
    BY <2>2, <2>3, Zenon
<1>3. Onward(cmd[1], s, <<e>> \o Tail(s), {e} \cup {}) /\ Head(<<e>> \o Tail(s)) = e
  BY <1>1, <1>2, QuickPush
<1>4. Left(<<e>> \o Tail(s)) = (Left(s) \ {Head(s)}) \cup {e}
  BY <1>3 DEF Onward
<1>5. \A x \in Left(<<e>> \o Tail(s)) : Left(<<e>> \o Tail(s)) \cap Begets(x) = {}
  <2>1. \A x \in Left(s) : Left(s) \cap Begets(x) = {}
    BY DEF CourseOK
  <2>2. Begets(e) = {} /\ \A x : e \notin Begets(x)
    BY DEF Begets
  <2> QED
    BY <1>4, <2>1, <2>2
<1>6. {e} \cup {} = {e}
  OBVIOUS
<1>7. Onward(cmd[1], s, <<e>> \o Tail(s), {e})
  BY <1>3, <1>6
<1>8. {e} \subseteq Own(cmd[1]) \ Syncs
  BY DEF Syncs
<1>9. CourseOK(cmd, <<e>> \o Tail(s)) /\ <<e>> \o Tail(s) # <<>>
  BY <1>5, <1>7, <1>8, OnwardCourse
<1> QED
  BY <1>3, <1>4, <1>7, <1>9

\* What comes after the bridges are in step.
LEMMA SkipCourse ==
  ASSUME NEW cmd, NEW s, CourseOK(cmd, s), s # <<>>, Head(s) \in Syncs \ {"synced"},
         NEW t, t = Beyond(s)
  PROVE  /\ CourseOK(cmd, t) /\ t # <<>> /\ Left(t) = {x \in Left(s) : 27 < Place(cmd[1], x)}
         /\ CourseOK(cmd, <<"synced">> \o t) /\ <<"synced">> \o t # <<>>
         /\ Left(<<"synced">> \o t) = Left(t) \cup {"synced"} /\ Left(t) \cap Syncs = {}
<1> DEFINE S == Left(s)
<1> DEFINE T == Left(t)
<1> DEFINE U == Left(<<"synced">> \o t)
<1>1. /\ cmd \in Lines /\ InOrder(cmd[1], s) /\ S \subseteq Own(cmd[1]) /\ "done" \in S
      /\ \A m \in Due(cmd) : m \in S \/ Past(cmd[1], m, S)
      /\ S \cap Syncs # {} => Syncing(cmd) /\ "synced" \in S
      /\ \A x \in S : S \cap Begets(x) = {}
  BY DEF CourseOK
<1>2. Head(s) \in S
  BY <1>1, Ahead
<1>3. Syncing(cmd) /\ "synced" \in S
  BY <1>1, <1>2
<1>4. InOrder(cmd[1], t) /\ T = {x \in S : 27 < Place(cmd[1], x)}
  BY <1>1, <1>3, Skip
<1>5. Place(cmd[1], "synced") = 27 /\ "synced" \in Names
  BY SyncPlaces DEF Names, Syncs
<1>6. InOrder(cmd[1], <<"synced">> \o t) /\ U = {"synced"} \cup T /\ <<"synced">> \o t # <<>>
  <2>1. \A x \in Left(t) : Place(cmd[1], "synced") < Place(cmd[1], x)
    BY <1>4, <1>5
  <2>2. /\ InOrder(cmd[1], <<"synced">> \o t) /\ Left(<<"synced">> \o t) = {"synced"} \cup Left(t)
        /\ <<"synced">> \o t # <<>>
    BY <1>4, <1>5, <2>1, Put
  <2> QED
    BY <2>2
<1> HIDE DEF S, T, U
<1>7. "done" \in T
  <2>1. 27 < Place(cmd[1], "done")
    BY LastPlace
  <2> QED
    BY <1>1, <1>4, <2>1
<1>71. t # <<>>
  BY <1>7 DEF Left, T
<1>8. T \cap Syncs = {}
  <2>1. \A x \in Syncs : ~(27 < Place(cmd[1], x))
    BY SyncPlaces, Upto27
  <2> QED
    BY <1>4, <2>1
<1>9. \A m \in Due(cmd) : m \in T \/ (Past(cmd[1], m, T) /\ Past(cmd[1], m, U))
  <2>1. SUFFICES ASSUME NEW m \in Due(cmd), m \notin T
                 PROVE  Past(cmd[1], m, T) /\ Past(cmd[1], m, U)
    OBVIOUS
  <2>2. CASE m \in S
    <3>1. ~(27 < Place(cmd[1], m))
      BY <1>4, <2>1, <2>2
    <3>2. Place(cmd[1], m) < 27
      BY <3>1, DuePlaces
    <3>3. \A x \in T : Place(cmd[1], m) < Place(cmd[1], x)
      <4>1. SUFFICES ASSUME NEW x \in T PROVE Place(cmd[1], m) < Place(cmd[1], x)
        OBVIOUS
      <4>2. 27 < Place(cmd[1], x) /\ Place(cmd[1], x) \in 0..40 /\ Place(cmd[1], m) \in 0..40
            /\ 27 \in 0..40
        BY <1>4, PlaceNat
      <4> QED
        BY <3>2, <4>2, Later, Zenon
    <3> QED
      BY <1>5, <1>6, <3>2, <3>3 DEF Past
  <2>3. CASE m \notin S
    <3>1. Past(cmd[1], m, S)
      BY <1>1, <2>3
    <3>2. T \subseteq S /\ U \subseteq S
      BY <1>3, <1>4, <1>6
    <3> QED
      BY <3>1, <3>2 DEF Past
  <2> QED
    BY <2>2, <2>3
<1>10. T \subseteq S /\ U \subseteq S
  BY <1>3, <1>4, <1>6
<1>11. \A x \in U : T \cap Begets(x) = {} /\ U \cap Begets(x) = {}
  BY <1>1, <1>10
<1>12. CourseOK(cmd, t)
  BY <1>1, <1>4, <1>6, <1>7, <1>8, <1>9, <1>10, <1>11 DEF CourseOK, S, T, U
<1>13. CourseOK(cmd, <<"synced">> \o t)
  BY <1>1, <1>3, <1>6, <1>7, <1>8, <1>9, <1>10, <1>11 DEF CourseOK, S, T, U
<1> QED
  BY <1>4, <1>6, <1>71, <1>8, <1>12, <1>13 DEF S, T, U

-----------------------------------------------------------------------------
\* The command lines.
LEMMA LineKinds ==
  ASSUME NEW cmd \in Lines
  PROVE  /\ cmd = <<cmd[1], cmd[2]>>
         /\ cmd[1] \in {"init", "force", "keep", "purge", "purge_at", "setup", "remove", "status", "run",
                        "update", "policy"}
         /\ cmd[1] \in {"setup", "run", "remove"} => cmd[2] \in Runners
  BY DEF Lines

LEMMA DefaultTypes == DefaultConfig \in Configs /\ NoHome \in Homes /\ Nothing \in Trees
<1>1. DefaultConfig \in Configs
  BY DEF DefaultConfig, Configs, Binds, Hosts, NoRunner
<1>2. NoHome \in Homes
  BY DEF NoHome, Homes, Unwired
<1>3. Nothing \in Trees
  BY <1>1, <1>2 DEF Nothing, Trees
<1> QED
  BY <1>1, <1>2, <1>3

\* A step that is due is left until its place.
LEMMA StillDue ==
  ASSUME NEW cmd, NEW s, CourseOK(cmd, s), s # <<>>, Head(s) \notin Quick, NEW m \in Due(cmd),
         ~(Place(cmd[1], m) < Place(cmd[1], Head(s)))
  PROVE  m \in Left(s)
<1>1. Head(s) \in Left(s)
  BY Ahead DEF CourseOK
<1> QED
  BY <1>1 DEF CourseOK, Past

LEMMA EarlySync ==
  ASSUME NEW cmd, NEW s, CourseOK(cmd, s), s # <<>>, Head(s) \notin Quick, Syncing(cmd),
         Place(cmd[1], Head(s)) \in 0..20
  PROVE  {"stop_others", "force"} \subseteq Left(s)
<1>1. "stop_others" \in Due(cmd) /\ "force" \in Due(cmd)
  BY DEF Due
<1>2. Place(cmd[1], "stop_others") = 21 /\ Place(cmd[1], "force") = 22
  BY Places
<1> QED
  BY <1>1, <1>2, StillDue

\* Second halves are left only while one is next.
LEMMA NoQuick ==
  ASSUME NEW op, NEW s, InOrder(op, s), s # <<>>, Head(s) \notin Quick
  PROVE  Left(s) \cap Quick = {}
<1>1. SUFFICES ASSUME NEW x \in Left(s), x \in Quick PROVE FALSE
  OBVIOUS
<1>2. Place(op, x) \in 0..1
  <2>1. /\ Place(op, "yaml") = 0 /\ Place(op, "home") = 0 /\ Place(op, "policy") = 0
        /\ Place(op, "stored") = 1
    BY Places
  <2> QED
    BY <1>1, <2>1 DEF Quick
<1>3. Place(op, Head(s)) < Place(op, x)
  BY <1>1, Ahead
<1>4. Place(op, Head(s)) \in 0..40
  BY PlaceNat
<1>5. Place(op, Head(s)) < 2
  <2>1. \A m \in 0..40, n \in 0..1 : m < n => m < 2
    OBVIOUS
  <2> QED
    BY <1>2, <1>3, <1>4, <2>1, Zenon
<1> QED
  BY <1>5, QuickPlaces

LEMMA Locals ==
  ASSUME NEW me, LocalOK(me), me.todo # <<>>, NEW you, you.cmd = me.cmd, Fields(you),
         CourseOK(me.cmd, you.todo), NEW E, Onward(me.cmd[1], me.todo, you.todo, E),
         E \cap Syncs = {}, Head(me.todo) # "stop_others",
         \/ you.cfg.runner = me.cfg.runner
         \/ Head(me.todo) \notin Quick /\ Place(me.cmd[1], Head(me.todo)) < 20,
         you.stage = me.stage \/ you.stage \notin {"synced", "unsynced"}
  PROVE  LocalOK(you)
<1> DEFINE S == Left(me.todo)
<1> DEFINE T == Left(you.todo)
<1> DEFINE h == Head(me.todo)
<1> DEFINE op == me.cmd[1]
<1>1. /\ CourseOK(me.cmd, me.todo)
      /\ S \cap {"start", "settle"} # {} /\ "stop_others" \notin S => me.cfg.runner \in Bridged
      /\ me.stage = "synced" => Syncing(me.cmd) /\ Past(op, "synced", S)
      /\ me.stage = "unsynced" => S \cap Syncs = {}
  BY DEF LocalOK
<1>2. InOrder(op, me.todo) /\ h \in S
  BY <1>1, Ahead DEF CourseOK
<1>3. T = (S \ {h}) \cup E /\ \A x \in E : x \in Quick \/ (h \notin Quick /\ Place(op, h) < Place(op, x))
  BY DEF Onward
<1> HIDE DEF S, T
<1>4. T \cap {"start", "settle"} # {} /\ "stop_others" \notin T => you.cfg.runner \in Bridged
  <2>1. SUFFICES ASSUME NEW x \in T, x \in {"start", "settle"}, "stop_others" \notin T
                 PROVE  you.cfg.runner \in Bridged
    OBVIOUS
  <2>2. x \in S /\ "stop_others" \notin S /\ x \in Syncs
    BY <1>3, <2>1 DEF Syncs
  <2>3. me.cfg.runner \in Bridged
    BY <1>1, <2>1, <2>2
  <2>4. CASE h \notin Quick /\ Place(op, h) < 20
    <3>1. Syncing(me.cmd)
      BY <1>1, <2>2 DEF CourseOK, S
    <3>2. Place(op, h) \in 0..20
      <4>1. \A n \in 0..40 : n < 20 => n \in 0..20
        OBVIOUS
      <4> QED
        BY <2>4, <4>1, PlaceNat
    <3>3. "stop_others" \in S
      BY <1>1, <2>4, <3>1, <3>2, EarlySync DEF S
    <3> QED
      BY <2>2, <3>3
  <2> QED
    BY <2>3, <2>4
<1>5. you.stage = "synced" => Syncing(me.cmd) /\ Past(op, "synced", T)
  <2>1. SUFFICES ASSUME you.stage = "synced" PROVE Syncing(me.cmd) /\ Past(op, "synced", T)
    OBVIOUS
  <2>2. Syncing(me.cmd) /\ \A x \in S : x \in Quick \/ Place(op, "synced") < Place(op, x)
    BY <1>1, <2>1 DEF Past
  <2>3. ASSUME NEW x \in E, x \notin Quick PROVE Place(op, "synced") < Place(op, x)
    <3>1. Place(op, "synced") < Place(op, h) /\ Place(op, h) < Place(op, x)
      BY <1>2, <1>3, <2>2, <2>3
    <3>2. Place(op, "synced") \in 0..40 /\ Place(op, h) \in 0..40 /\ Place(op, x) \in 0..40
      BY PlaceNat
    <3> QED
      BY <3>1, <3>2, Later, Zenon
  <2> QED
    BY <1>3, <2>2, <2>3 DEF Past
<1>6. you.stage = "unsynced" => T \cap Syncs = {}
  BY <1>1, <1>3
<1> QED
  BY <1>1, <1>4, <1>5, <1>6 DEF LocalOK, T

-----------------------------------------------------------------------------
\* What a step leaves alone, it leaves right.
Marks == {"vacant", "load", "remove_dir", "make_dirs", "restore_config", "restore_policy", "yaml",
          "policy", "stored"}
Agree(me, you, M) == \A m \in M : m \in Left(you.todo) <=> m \in Left(me.todo)

LEMMA SettingsFrame ==
  ASSUME NEW me, NEW you, NEW t, NEW u, NEW o, SettingsOK(me, t, o), Agree(me, you, Marks),
         you.cmd = me.cmd, you.cfg = me.cfg, you.pol = me.pol, you.newcfg = me.newcfg,
         you.newpol = me.newpol, u.yaml = t.yaml, u.policy = t.policy,
         t.state => u.state, t.made => u.made
  PROVE  SettingsOK(you, u, o)
<1>1. /\ "vacant" \in Left(you.todo) <=> "vacant" \in Left(me.todo)
      /\ "load" \in Left(you.todo) <=> "load" \in Left(me.todo)
      /\ "remove_dir" \in Left(you.todo) <=> "remove_dir" \in Left(me.todo)
      /\ "make_dirs" \in Left(you.todo) <=> "make_dirs" \in Left(me.todo)
      /\ "restore_config" \in Left(you.todo) <=> "restore_config" \in Left(me.todo)
      /\ "restore_policy" \in Left(you.todo) <=> "restore_policy" \in Left(me.todo)
      /\ "yaml" \in Left(you.todo) <=> "yaml" \in Left(me.todo)
      /\ "policy" \in Left(you.todo) <=> "policy" \in Left(me.todo)
      /\ "stored" \in Left(you.todo) <=> "stored" \in Left(me.todo)
  BY DEF Agree, Marks
<1>2. QuietOK(t, o) => QuietOK(u, o)
  BY DEF QuietOK, Stored
<1>3. LoadedOK(me, t, o) => LoadedOK(you, u, o)
  BY <1>1 DEF LoadedOK
<1>4. KeepOK(me, t, o) => KeepOK(you, u, o)
  BY <1>1 DEF KeepOK
<1> QED
  BY <1>1, <1>2, <1>3, <1>4 DEF SettingsOK

HomeMarks == {"home", "write_config", "alias", "guard"}
LEMMA HomeFrame ==
  ASSUME NEW me, NEW you, NEW t, NEW u, HomeOK(me, t), Agree(me, you, HomeMarks),
         you.cmd = me.cmd, Wiring(me.cmd[2], you.cfg) = Wiring(me.cmd[2], me.cfg),
         you.newhome = me.newhome, u.home[me.cmd[2]] = t.home[me.cmd[2]],
         t.workspace => u.workspace
  PROVE  HomeOK(you, u)
<1>1. /\ "home" \in Left(you.todo) <=> "home" \in Left(me.todo)
      /\ "write_config" \in Left(you.todo) <=> "write_config" \in Left(me.todo)
      /\ "alias" \in Left(you.todo) <=> "alias" \in Left(me.todo)
      /\ "guard" \in Left(you.todo) <=> "guard" \in Left(me.todo)
  BY DEF Agree, HomeMarks
<1> QED
  BY <1>1 DEF HomeOK, Fits

LEMMA HomeEarly ==
  ASSUME NEW you, NEW u, "home" \notin Left(you.todo),
         \A m \in Due(you.cmd) : m \in HomeMarks => m \in Left(you.todo)
  PROVE  HomeOK(you, u)
  BY DEF HomeOK, HomeMarks

BridgeMarks == {"stop_others", "force"}
LEMMA BridgeFrame ==
  ASSUME NEW me, NEW you, NEW t, NEW u, NEW bots, BridgeOK(me, t, bots),
         Agree(me, you, BridgeMarks), you.cmd = me.cmd, you.cfg.runner = me.cfg.runner,
         you.stage = me.stage \/ me.stage # "unsynced", u.channel = t.channel
  PROVE  BridgeOK(you, u, bots)
<1>1. /\ "stop_others" \in Left(you.todo) <=> "stop_others" \in Left(me.todo)
      /\ "force" \in Left(you.todo) <=> "force" \in Left(me.todo)
  BY DEF Agree, BridgeMarks
<1>2. Sel(you.cfg) = Sel(me.cfg) /\ (Restarts(you) <=> Restarts(me))
  BY DEF Sel, Restarts
<1> QED
  BY <1>1, <1>2 DEF BridgeOK

LEMMA BridgeEarly ==
  ASSUME NEW you, NEW u, NEW bots, Syncing(you.cmd) => BridgeMarks \subseteq Left(you.todo)
  PROVE  BridgeOK(you, u, bots)
  BY DEF BridgeOK, BridgeMarks

-----------------------------------------------------------------------------
\* What a step of a command has to show.
Mine(me, t, o, bots) ==
    me.out # "invalid" /\ SettingsOK(me, t, o) /\ HomeOK(me, t) /\ BridgeOK(me, t, bots)
Moved(c) ==
    /\ Only(c) /\ LocalOK(cli'[c]) /\ TreeOK(tree') /\ BotsOK(bot') /\ bot' = [b \in Bots |-> bot'[b]]
    /\ scene' = scene /\ disturbed' = disturbed /\ (owed' = owed \/ owed' \in Debts)
    /\ ~disturbed /\ Mine(cli[c], tree, owed, bot) =>
         \/ cli'[c].todo = <<>> /\ QuietOK(tree', owed') /\ cli'[c].out # "invalid"
         \/ cli'[c].todo # <<>> /\ Mine(cli'[c], tree', owed', bot')

LEMMA MovedKeeps ==
  ASSUME Inv, NEW c \in Clis, cli[c].todo # <<>>, Moved(c)
  PROVE  Inv'
<1>1. \A d \in Clis \ {c} : cli'[d] = cli[d]
  BY DEF Moved, Only
<1>2. Base'
  BY DEF Base, Inv, Moved, Only
<1>3. \A d \in Clis : LocalOK(cli'[d])
  BY <1>1 DEF Inv, Moved
<1>4. ASSUME ~disturbed' PROVE AloneOK'
  <2>1. ~disturbed /\ AloneOK
    BY <1>4 DEF Inv, Moved
  <2>2. c \in Active /\ Active = {c}
    BY <2>1 DEF AloneOK, Active
  <2>3. \A d \in Clis \ {c} : cli[d].todo = <<>> /\ cli[d].out # "invalid"
    BY <2>1, <2>2 DEF AloneOK, Active
  <2>4. Mine(cli[c], tree, owed, bot)
    BY <2>1, <2>2 DEF AloneOK, Mine
  <2>5. \/ cli'[c].todo = <<>> /\ QuietOK(tree', owed') /\ cli'[c].out # "invalid"
        \/ cli'[c].todo # <<>> /\ Mine(cli'[c], tree', owed', bot')
    BY <2>1, <2>4 DEF Moved
  <2>6. Active' \subseteq {c}
    BY <1>1, <2>3 DEF Active
  <2>7. c \in Active' <=> cli'[c].todo # <<>>
    BY DEF Active
  <2>8. \A d, e \in Active' : d = e
    BY <2>6
  <2>9. Active' = {} => QuietOK(tree', owed')
    BY <2>5, <2>7
  <2>10. \A d \in Clis : cli'[d].out # "invalid"
    BY <1>1, <2>3, <2>5 DEF Mine
  <2>11. \A d \in Active' : /\ SettingsOK(cli'[d], tree', owed') /\ HomeOK(cli'[d], tree')
                            /\ BridgeOK(cli'[d], tree', bot')
    BY <2>5, <2>6, <2>7 DEF Mine
  <2> QED
    BY <2>8, <2>9, <2>10, <2>11 DEF AloneOK
<1> QED
  BY <1>2, <1>3, <1>4 DEF Inv

\* What there is when a command takes a step.
LEMMA Setting ==
  ASSUME Inv, NEW c \in Clis, cli[c].todo # <<>>
  PROVE  /\ CliTable /\ TreeOK(tree) /\ BotsOK(bot) /\ bot = [b \in Bots |-> bot[b]]
         /\ owed \in Debts /\ scene \in Scenes /\ LocalOK(cli[c]) /\ Fields(cli[c])
         /\ CourseOK(cli[c].cmd, cli[c].todo) /\ InOrder(cli[c].cmd[1], cli[c].todo)
         /\ cli[c].cmd \in Lines /\ Head(cli[c].todo) \in Left(cli[c].todo)
         /\ Left(cli[c].todo) \subseteq Own(cli[c].cmd[1]) /\ Head(cli[c].todo) \in Own(cli[c].cmd[1])
<1>1. CliTable /\ TreeOK(tree) /\ BotsOK(bot) /\ bot = [b \in Bots |-> bot[b]] /\ scene \in Scenes
      /\ LocalOK(cli[c]) /\ owed \in Debts
  BY DEF Inv, Base
<1>2. Fields(cli[c]) /\ CourseOK(cli[c].cmd, cli[c].todo)
  BY <1>1 DEF LocalOK
<1>3. /\ InOrder(cli[c].cmd[1], cli[c].todo) /\ cli[c].cmd \in Lines
      /\ Left(cli[c].todo) \subseteq Own(cli[c].cmd[1])
  BY <1>2 DEF CourseOK
<1>4. Head(cli[c].todo) \in Left(cli[c].todo)
  BY <1>3, Ahead
<1> QED
  BY <1>1, <1>2, <1>3, <1>4

\* A command that stops leaves the settings as they should be.
Settled(me, t) ==
    \/ me.cmd[1] # "keep" \/ "load" \in Left(me.todo)
    \/ Left(me.todo) \subseteq {"done"}
    \/ "make_dirs" \notin Left(me.todo) /\ ~t.state
LEMMA Quits ==
  ASSUME NEW me, NEW t, NEW o, me.cmd \in Lines, InOrder(me.cmd[1], me.todo), me.todo # <<>>,
         Head(me.todo) \notin Quick, TreeOK(t), SettingsOK(me, t, o), Settled(me, t)
  PROVE  QuietOK(t, o)
<1>1. "yaml" \notin Left(me.todo) /\ "policy" \notin Left(me.todo) /\ "stored" \notin Left(me.todo)
  BY NoQuick DEF Quick
<1>2. t.state => t.made
  BY DEF TreeOK
<1>3. LoadedOK(me, t, o) => QuietOK(t, o)
  BY <1>1, <1>2 DEF LoadedOK, QuietOK, Stored, SameSettings
<1>4. KeepOK(me, t, o) /\ Left(me.todo) \subseteq {"done"} => QuietOK(t, o)
  BY <1>1, <1>2 DEF KeepOK, QuietOK, Stored, SameSettings
<1>5. KeepOK(me, t, o) /\ "make_dirs" \notin Left(me.todo) => t.state
  BY DEF KeepOK
<1> QED
  BY <1>3, <1>4, <1>5, LineKinds DEF SettingsOK, Settled

LEMMA QuitMoves ==
  ASSUME Inv, NEW c \in Clis, cli[c].todo # <<>>, NEW out, out # "invalid", Quit(c, out),
         Head(cli[c].todo) \notin Quick, Settled(cli[c], tree)
  PROVE  Moved(c)
<1>1. /\ CliTable /\ TreeOK(tree) /\ BotsOK(bot) /\ bot = [b \in Bots |-> bot[b]]
      /\ cli[c].cmd \in Lines /\ InOrder(cli[c].cmd[1], cli[c].todo)
  BY Setting
<1>2. Ends(c, out) /\ UNCHANGED <<tree, owed, bot, disturbed, scene>>
  BY DEF Quit, Others
<1>3. Only(c) /\ Ended(cli[c], out, cli'[c])
  BY <1>1, <1>2, EndChanges
<1>4. LocalOK(cli'[c])
  BY <1>3, DefaultTypes, Zenon DEF Ended, LocalOK, Fields, Policies
<1>5. SettingsOK(cli[c], tree, owed) => QuietOK(tree, owed)
  BY <1>1, Quits
<1> QED
  BY <1>1, <1>2, <1>3, <1>4, <1>5, Zenon DEF Moved, Mine, Ended

-----------------------------------------------------------------------------
\* A command that goes on.
LEMMA Agreement ==
  ASSUME NEW me, NEW you, NEW E, NEW M, Left(you.todo) = (Left(me.todo) \ {Head(me.todo)}) \cup E,
         Head(me.todo) \notin M, E \cap M = {}
  PROVE  Agree(me, you, M)
  BY DEF Agree

LEMMA Advances ==
  ASSUME Inv, NEW c \in Clis, cli[c].todo # <<>>, Only(c), Fields(cli'[c]),
         cli'[c].cmd = cli[c].cmd, cli'[c].out = cli[c].out,
         NEW E, Onward(cli[c].cmd[1], cli[c].todo, cli'[c].todo, E), E \cap Syncs = {},
         CourseOK(cli[c].cmd, cli'[c].todo), cli'[c].todo # <<>>, Head(cli[c].todo) # "stop_others",
         \/ cli'[c].cfg.runner = cli[c].cfg.runner
         \/ Head(cli[c].todo) \notin Quick /\ Place(cli[c].cmd[1], Head(cli[c].todo)) < 20,
         cli'[c].stage = cli[c].stage \/ cli'[c].stage \notin {"synced", "unsynced"},
         TreeOK(tree'), owed' = owed \/ owed' \in Debts, UNCHANGED <<bot, scene, disturbed>>,
         ~disturbed /\ Mine(cli[c], tree, owed, bot) =>
            /\ SettingsOK(cli'[c], tree', owed') /\ HomeOK(cli'[c], tree')
            /\ BridgeOK(cli'[c], tree', bot)
  PROVE  Moved(c)
<1>1. LocalOK(cli[c]) /\ BotsOK(bot) /\ bot = [b \in Bots |-> bot[b]]
  BY Setting
<1>2. LocalOK(cli'[c])
  BY <1>1, Locals
<1> QED
  BY <1>1, <1>2 DEF Moved, Mine

\* The settings and the bridges are not its business.
LEMMA Proceeds ==
  ASSUME Inv, NEW c \in Clis, cli[c].todo # <<>>, Only(c), Carries(cli[c], cli'[c], {"newhome"}),
         cli'[c].newhome \in Homes,
         NEW E, Onward(cli[c].cmd[1], cli[c].todo, cli'[c].todo, E), E \cap (Syncs \cup Marks) = {},
         CourseOK(cli[c].cmd, cli'[c].todo), cli'[c].todo # <<>>,
         Head(cli[c].todo) \notin Marks \cup BridgeMarks,
         TreeOK(tree'), tree'.yaml = tree.yaml, tree'.policy = tree.policy,
         tree'.channel = tree.channel, tree.state => tree'.state, tree.made => tree'.made,
         UNCHANGED <<owed, bot, scene, disturbed>>,
         HomeOK(cli[c], tree) => HomeOK(cli'[c], tree')
  PROVE  Moved(c)
<1>1. /\ cli'[c].cmd = cli[c].cmd /\ cli'[c].out = cli[c].out /\ cli'[c].cfg = cli[c].cfg
      /\ cli'[c].pol = cli[c].pol /\ cli'[c].newcfg = cli[c].newcfg
      /\ cli'[c].newpol = cli[c].newpol /\ cli'[c].stage = cli[c].stage
  BY DEF Carries
<1>2. Fields(cli'[c])
  BY <1>1, Setting DEF Fields
<1>3. Left(cli'[c].todo) = (Left(cli[c].todo) \ {Head(cli[c].todo)}) \cup E
  BY DEF Onward
<1>4. Agree(cli[c], cli'[c], Marks) /\ Agree(cli[c], cli'[c], BridgeMarks)
  <2>1. E \cap Marks = {} /\ E \cap BridgeMarks = {}
    BY DEF BridgeMarks, Syncs
  <2> QED
    BY <1>3, <2>1, Agreement
<1>5. SettingsOK(cli[c], tree, owed) => SettingsOK(cli'[c], tree', owed')
  BY <1>1, <1>4, SettingsFrame
<1>6. BridgeOK(cli[c], tree, bot) => BridgeOK(cli'[c], tree', bot)
  BY <1>1, <1>4, BridgeFrame
<1>7. Head(cli[c].todo) # "stop_others" /\ E \cap Syncs = {}
  BY DEF BridgeMarks
<1> QED
  BY <1>1, <1>2, <1>5, <1>6, <1>7, Advances DEF Mine

Plain == Marks \cup HomeMarks \cup BridgeMarks \cup {"done"}

LEMMA HomeKept ==
  ASSUME NEW me, NEW you, NEW t, NEW u, NEW E, Carries(me, you, {}),
         Left(you.todo) = (Left(me.todo) \ {Head(me.todo)}) \cup E,
         Head(me.todo) \notin HomeMarks, E \cap HomeMarks = {}, u.home[me.cmd[2]] = t.home[me.cmd[2]],
         t.workspace => u.workspace
  PROVE  HomeOK(me, t) => HomeOK(you, u)
<1>1. Agree(me, you, HomeMarks)
  BY Agreement
<1> QED
  BY <1>1, HomeFrame DEF Carries

\* A step is taken off and nothing else happens.
LEMMA GoChanges ==
  ASSUME CliTable, NEW c \in Clis, NEW todo, Go(c, todo, [x \in {} |-> 0])
  PROVE  /\ Only(c) /\ Carries(cli[c], cli'[c], {}) /\ cli'[c].todo = todo
         /\ UNCHANGED <<tree, owed, installed, bot, begun, disturbed, scene>>
  BY StepChanges, PlainStep DEF Go, Others

LEMMA AlterChanges ==
  ASSUME CliTable, NEW c \in Clis, NEW t, NEW todo, Alter(c, t, todo)
  PROVE  /\ Only(c) /\ Carries(cli[c], cli'[c], {}) /\ cli'[c].todo = todo /\ tree' = t
         /\ UNCHANGED <<owed, installed, bot, begun, disturbed, scene>>
  BY StepChanges, PlainStep DEF Alter, Others

LEMMA CarriesMore == ASSUME NEW me, NEW you, NEW F, Carries(me, you, {}) PROVE Carries(me, you, F)
  BY DEF Carries

LEMMA PassMoves ==
  ASSUME Inv, NEW c \in Clis, cli[c].todo # <<>>, Pass(c),
         Head(cli[c].todo) \notin Marks \cup BridgeMarks \cup {"done"},
         HomeOK(cli[c], tree) => HomeOK(cli'[c], tree)
  PROVE  Moved(c)
<1>1. /\ CliTable /\ TreeOK(tree) /\ Fields(cli[c]) /\ CourseOK(cli[c].cmd, cli[c].todo)
  BY Setting
<1>2. /\ Only(c) /\ Carries(cli[c], cli'[c], {}) /\ cli'[c].todo = Tail(cli[c].todo)
      /\ UNCHANGED <<tree, owed, bot, disturbed, scene>>
  BY <1>1, GoChanges DEF Pass, Rest
<1>3. /\ Onward(cli[c].cmd[1], cli[c].todo, cli'[c].todo, {}) /\ CourseOK(cli[c].cmd, cli'[c].todo)
      /\ cli'[c].todo # <<>>
  BY <1>1, <1>2, PopCourse
<1>4. cli'[c].newhome \in Homes /\ Carries(cli[c], cli'[c], {"newhome"})
  BY <1>1, <1>2, CarriesMore DEF Fields, Carries
<1>5. {} \cap (Syncs \cup Marks) = {}
  OBVIOUS
<1>6. tree' = tree
  BY <1>2
<1> QED
  BY <1>1, <1>2, <1>3, <1>4, <1>5, <1>6, Proceeds

LEMMA PlainPass ==
  ASSUME Inv, NEW c \in Clis, cli[c].todo # <<>>, Pass(c), Head(cli[c].todo) \notin Plain
  PROVE  Moved(c)
<1>1. /\ CliTable /\ CourseOK(cli[c].cmd, cli[c].todo)
  BY Setting
<1>2. Carries(cli[c], cli'[c], {}) /\ cli'[c].todo = Tail(cli[c].todo) /\ tree' = tree
  BY <1>1, GoChanges DEF Pass, Rest
<1>3. Head(cli[c].todo) \notin Marks \cup BridgeMarks \cup {"done"} /\ Head(cli[c].todo) \notin HomeMarks
  BY DEF Plain
<1>4. Left(cli'[c].todo) = Left(cli[c].todo) \ {Head(cli[c].todo)}
  BY <1>1, <1>2, <1>3, PopCourse
<1>5. HomeOK(cli[c], tree) => HomeOK(cli'[c], tree)
  <2>1. Left(cli'[c].todo) = (Left(cli[c].todo) \ {Head(cli[c].todo)}) \cup {} /\ {} \cap HomeMarks = {}
    BY <1>4
  <2> QED
    BY <1>2, <1>3, <2>1, HomeKept
<1> QED
  BY <1>3, <1>5, PassMoves

\* The tree changes where only homes are, the settings are as they were.
LEMMA AlterMoves ==
  ASSUME Inv, NEW c \in Clis, cli[c].todo # <<>>, NEW t, Alter(c, t, Rest(c)), TreeOK(t),
         t.yaml = tree.yaml, t.policy = tree.policy, t.channel = tree.channel,
         tree.state => t.state, tree.made => t.made,
         Head(cli[c].todo) \notin Marks \cup BridgeMarks \cup {"done"},
         HomeOK(cli[c], tree) => HomeOK(cli'[c], t)
  PROVE  Moved(c)
<1>1. /\ CliTable /\ Fields(cli[c]) /\ CourseOK(cli[c].cmd, cli[c].todo)
  BY Setting
<1>2. /\ Only(c) /\ Carries(cli[c], cli'[c], {}) /\ cli'[c].todo = Tail(cli[c].todo) /\ tree' = t
      /\ UNCHANGED <<owed, bot, disturbed, scene>>
  BY <1>1, AlterChanges DEF Rest
<1>3. /\ Onward(cli[c].cmd[1], cli[c].todo, cli'[c].todo, {}) /\ CourseOK(cli[c].cmd, cli'[c].todo)
      /\ cli'[c].todo # <<>>
  <2>1. Head(cli[c].todo) # "done"
    OBVIOUS
  <2>2. LET s == cli[c].todo
        IN  /\ Onward(cli[c].cmd[1], s, Tail(s), {}) /\ CourseOK(cli[c].cmd, Tail(s)) /\ Tail(s) # <<>>
    BY <1>1, <2>1, PopCourse
  <2> QED
    BY <1>2, <2>2
<1>4. cli'[c].newhome \in Homes /\ Carries(cli[c], cli'[c], {"newhome"})
  BY <1>1, <1>2, CarriesMore DEF Fields, Carries
<1>5. {} \cap (Syncs \cup Marks) = {}
  OBVIOUS
<1> QED
  BY <1>2, <1>3, <1>4, <1>5, Proceeds

-----------------------------------------------------------------------------
\* Steps that only look.
LEMMA OtherQuit ==
  ASSUME Inv, NEW c \in Clis, cli[c].todo # <<>>, NEW out, out # "invalid", Quit(c, out),
         Head(cli[c].todo) \notin Quick, Head(cli[c].todo) \notin Own("keep")
  PROVE  Moved(c)
<1>1. cli[c].cmd[1] # "keep"
  BY Setting
<1> QED
  BY <1>1, QuitMoves DEF Settled

LEMMA HeadKinds ==
  /\ \A h \in {"check_auth", "available", "target", "match", "verify_import", "validate", "launch",
               "provision", "import", "clone", "bootstrap", "repair_auth", "auth_store",
               "auth_profiles", "save_runner", "reconcile", "decide", "drop_home",
               "drop_workspace", "unlink", "seed", "guard", "write_config", "alias", "patch", "channel",
               "edit_policy", "autobind", "vacant"} \cup Syncs :
       h \notin Own("keep") /\ h \notin Quick
  /\ \A h \in {"check_auth", "available", "target", "match", "verify_import", "validate", "launch",
               "provision", "import", "clone", "bootstrap", "repair_auth", "auth_store",
               "auth_profiles", "save_runner", "reconcile", "decide", "drop_home",
               "drop_workspace", "unlink", "seed", "patch", "channel", "edit_policy", "autobind",
               "default_policy", "default_config", "ensure_artifacts"} :
       h \notin Plain
<1>1. \A h \in {"check_auth", "available", "target", "match", "verify_import", "validate", "launch",
               "provision", "import", "clone", "bootstrap", "repair_auth", "auth_store",
               "auth_profiles", "save_runner", "reconcile", "decide", "drop_home",
               "drop_workspace", "unlink", "seed", "guard", "write_config", "alias", "patch", "channel",
               "edit_policy", "autobind", "vacant"} \cup Syncs :
       h \notin Own("keep") /\ h \notin Quick
  BY DEF Own, Quick, Syncs, LayoutSteps
<1>2. \A h \in {"check_auth", "available", "target", "match", "verify_import", "validate", "launch",
               "provision", "import", "clone", "bootstrap", "repair_auth", "auth_store",
               "auth_profiles", "save_runner", "reconcile", "decide", "drop_home",
               "drop_workspace", "unlink", "seed", "patch", "channel", "edit_policy", "autobind",
               "default_policy", "default_config", "ensure_artifacts"} :
       h \notin Plain
  BY DEF Plain, Marks, HomeMarks, BridgeMarks
<1> QED
  BY <1>1, <1>2

LEMMA CheckAuthMoves == ASSUME Inv, NEW c \in Clis, CheckAuth(c) PROVE Moved(c)
<1>1. cli[c].todo # <<>> /\ Head(cli[c].todo) = "check_auth" /\ (Pass(c) \/ Quit(c, "failed"))
  BY DEF CheckAuth, Doing
<1> QED
  BY <1>1, PlainPass, OtherQuit, HeadKinds

LEMMA AvailableMoves == ASSUME Inv, NEW c \in Clis, Available(c) PROVE Moved(c)
<1>1. cli[c].todo # <<>> /\ Head(cli[c].todo) = "available" /\ (Pass(c) \/ Quit(c, "failed"))
  BY DEF Available, Doing
<1> QED
  BY <1>1, PlainPass, OtherQuit, HeadKinds

LEMMA TargetMoves == ASSUME Inv, NEW c \in Clis, Target(c) PROVE Moved(c)
<1>1. cli[c].todo # <<>> /\ Head(cli[c].todo) = "target" /\ (Pass(c) \/ Quit(c, "failed"))
  BY DEF Target, Doing
<1> QED
  BY <1>1, PlainPass, OtherQuit, HeadKinds

LEMMA MatchMoves == ASSUME Inv, NEW c \in Clis, Match(c) PROVE Moved(c)
<1>1. cli[c].todo # <<>> /\ Head(cli[c].todo) = "match" /\ (Pass(c) \/ Quit(c, "done"))
  BY DEF Match, Doing
<1> QED
  BY <1>1, PlainPass, OtherQuit, HeadKinds

LEMMA VerifyImportMoves == ASSUME Inv, NEW c \in Clis, VerifyImport(c) PROVE Moved(c)
<1>1. cli[c].todo # <<>> /\ Head(cli[c].todo) = "verify_import" /\ (Pass(c) \/ Quit(c, "failed"))
  BY DEF VerifyImport, Doing
<1> QED
  BY <1>1, PlainPass, OtherQuit, HeadKinds

LEMMA LaunchMoves == ASSUME Inv, NEW c \in Clis, Launch(c) PROVE Moved(c)
<1>1. /\ cli[c].todo # <<>> /\ Head(cli[c].todo) = "launch"
      /\ Quit(c, "launched") \/ Quit(c, "failed")
  BY DEF Launch, Doing
<1> QED
  BY <1>1, OtherQuit, HeadKinds

LEMMA FinishMoves == ASSUME Inv, NEW c \in Clis, Finish(c) PROVE Moved(c)
<1>1. cli[c].todo # <<>> /\ Head(cli[c].todo) = "done" /\ Quit(c, "done")
  BY DEF Finish, Doing
<1>2. InOrder(cli[c].cmd[1], cli[c].todo)
  BY <1>1, Setting
<1>3. Left(cli[c].todo) \subseteq {"done"}
  <2>1. SUFFICES ASSUME NEW x \in Left(cli[c].todo), x # "done" PROVE FALSE
    OBVIOUS
  <2>2. Place(cli[c].cmd[1], "done") < Place(cli[c].cmd[1], x) /\ Place(cli[c].cmd[1], "done") = 40
    BY <1>1, <1>2, <2>1, Ahead, LastPlace
  <2>3. Place(cli[c].cmd[1], x) \in 0..40
    BY PlaceNat
  <2>4. \A n \in 0..40 : ~(40 < n)
    OBVIOUS
  <2> QED
    BY <2>2, <2>3, <2>4
<1>4. "done" \notin Quick
  BY DEF Quick
<1> QED
  BY <1>1, <1>3, <1>4, QuitMoves DEF Settled

-----------------------------------------------------------------------------
\* Changes of homes.
Rehomed(t, u, k, h) ==
    /\ u.home = [t.home EXCEPT ![k] = h] /\ u.yaml = t.yaml /\ u.policy = t.policy
    /\ u.channel = t.channel /\ u.pidfile = t.pidfile
    /\ t.state = u.state /\ (t.made => u.made)

LEMMA RehomedFacts ==
  ASSUME NEW t, NEW u, NEW k \in Runners, NEW h, TreeOK(t), Rehomed(t, u, k, h)
  PROVE  u.home[k] = h /\ \A j \in Runners \ {k} : u.home[j] = t.home[j]
  BY DEF TreeOK, Trees, Rehomed

NewHome(t, k, h) == [t EXCEPT !.made = TRUE, !.home[k] = h]
OtherHome(t, k, h) == [t EXCEPT !.home[k] = h]
LEMMA ChangedHome ==
  ASSUME NEW t, NEW k \in Runners, NEW h \in Homes, TreeOK(t)
  PROVE  /\ TreeOK(NewHome(t, k, h)) /\ Rehomed(t, NewHome(t, k, h), k, h)
         /\ NewHome(t, k, h).workspace = t.workspace
         /\ TreeOK(OtherHome(t, k, h)) /\ Rehomed(t, OtherHome(t, k, h), k, h)
         /\ OtherHome(t, k, h).workspace = t.workspace
  BY DEF TreeOK, Trees, Rehomed, NewHome, OtherHome

TornAt(t, k) == [t EXCEPT !.made = TRUE, !.home[k].dir = TRUE, !.home[k].file = "torn"]
LEMMA TornHome ==
  ASSUME NEW t, NEW k \in Runners, TreeOK(t), NEW u, u = TornAt(t, k)
  PROVE  /\ TreeOK(u) /\ u.home[k].dir /\ u.workspace = t.workspace
         /\ u.yaml = t.yaml /\ u.policy = t.policy /\ u.channel = t.channel
         /\ (t.state => u.state) /\ (t.made => u.made)
<1> DEFINE h == [t.home[k] EXCEPT !.dir = TRUE, !.file = "torn"]
<1>1. t.home[k] \in Homes /\ t.home \in [Runners -> Homes]
  BY DEF TreeOK, Trees
<1>2. h \in Homes /\ h.dir
  BY <1>1 DEF Homes
<1>3. u = NewHome(t, k, h)
  BY <1>1 DEF TreeOK, Trees, Homes, NewHome, TornAt
<1> HIDE DEF h
<1>4. TreeOK(u) /\ Rehomed(t, u, k, h) /\ u.workspace = t.workspace
  BY <1>2, <1>3, ChangedHome
<1>5. u.home[k] = h
  BY <1>4, RehomedFacts
<1> QED
  BY <1>2, <1>4, <1>5 DEF Rehomed

LEMMA KindOf ==
  ASSUME NEW cmd \in Lines, NEW h \in Own(cmd[1]),
         h \in {"provision", "import", "clone", "bootstrap", "write_config", "verify_import",
                "save_runner", "validate", "match", "target", "available", "autobind", "stored", "seed",
                "check_auth", "launch", "channel", "patch", "reconcile", "decide", "edit_policy"}
              \cup HomeWork \cup Syncs
  PROVE  /\ h \in {"provision", "import", "clone", "bootstrap", "write_config", "verify_import",
                   "save_runner", "validate"} => cmd[1] = "setup"
         /\ h \in {"target", "available", "autobind", "seed", "check_auth", "launch"} => cmd[1] = "run"
         /\ h \in {"patch", "channel"} => cmd[1] = "update"
         /\ h = "stored" => cmd[1] \in {"run", "update"}
         /\ h \in {"reconcile", "decide"} => cmd[1] \in {"run", "status"}
         /\ h = "match" => cmd[1] = "remove"
         /\ h = "edit_policy" => cmd[1] = "policy"
         /\ h \in HomeWork => cmd[1] \in {"setup", "run"} /\ cmd[2] \in Runners
         /\ h \in {"provision", "import", "clone", "bootstrap", "write_config", "verify_import",
                   "save_runner", "validate", "target", "available", "seed", "check_auth", "launch", "match"}
              => cmd[2] \in Runners
         /\ h \in Syncs => cmd[1] \in {"setup", "run", "update"}
<1>1. /\ cmd[1] \in {"init", "force", "keep", "purge", "purge_at", "setup", "remove", "status", "run",
                     "update", "policy"}
      /\ cmd[1] \in {"setup", "run", "remove"} => cmd[2] \in Runners
  BY LineKinds
<1>2. CASE cmd[1] \in {"init", "force", "keep", "purge", "purge_at"}
  BY <1>2 DEF Own, LayoutSteps, HomeWork, Syncs
<1>3. CASE cmd[1] = "setup"
  BY <1>1, <1>3 DEF Own, HomeWork, Syncs
<1>4. CASE cmd[1] = "run"
  BY <1>1, <1>4 DEF Own, HomeWork, Syncs, DropSteps
<1>5. CASE cmd[1] \in {"remove", "status", "update", "policy"}
  BY <1>1, <1>5 DEF Own, HomeWork, Syncs, DropSteps
<1> QED
  BY <1>1, <1>2, <1>3, <1>4, <1>5

\* Before a home is looked after there is nothing to say of it.
LEMMA HomeLater ==
  ASSUME NEW me, CourseOK(me.cmd, me.todo), me.todo # <<>>, Head(me.todo) \notin Quick,
         \A m \in Due(me.cmd) : m \in HomeMarks => Place(me.cmd[1], Head(me.todo)) < Place(me.cmd[1], m),
         NEW you, NEW E, you.cmd = me.cmd,
         Left(you.todo) = (Left(me.todo) \ {Head(me.todo)}) \cup E, "home" \notin E, NEW u
  PROVE  HomeOK(you, u)
<1>1. InOrder(me.cmd[1], me.todo)
  BY DEF CourseOK
<1>2. "home" \notin Left(you.todo)
  BY <1>1, NoQuick DEF Quick
<1>3. ASSUME NEW m \in Due(you.cmd), m \in HomeMarks PROVE m \in Left(you.todo)
  <2>1. Place(me.cmd[1], Head(me.todo)) < Place(me.cmd[1], m)
    BY <1>3
  <2>2. Place(me.cmd[1], Head(me.todo)) \in 0..40 /\ Place(me.cmd[1], m) \in 0..40
    BY PlaceNat
  <2>3. ~(Place(me.cmd[1], m) < Place(me.cmd[1], Head(me.todo))) /\ m # Head(me.todo)
    BY <2>1, <2>2, Later, Zenon
  <2>4. m \in Left(me.todo)
    BY <1>3, <2>3, StillDue
  <2> QED
    BY <2>3, <2>4
<1> QED
  BY <1>2, <1>3, HomeEarly

LEMMA HomeDue ==
  ASSUME NEW cmd \in Lines, NEW m \in Due(cmd), m \in HomeMarks
  PROVE  \/ cmd[1] = "setup" /\ m = "write_config" /\ cmd[2] # "claudecode" /\ Place(cmd[1], m) = 7
         \/ cmd = <<"setup", "openclaw">> /\ cmd[1] = "setup" /\ m = "alias" /\ Place(cmd[1], m) = 13
         \/ cmd[1] = "run" /\ m = "guard" /\ Place(cmd[1], m) = 31
<1>1. \/ cmd[1] = "setup" /\ m = "write_config" /\ cmd[2] # "claudecode"
      \/ cmd = <<"setup", "openclaw">> /\ m = "alias"
      \/ cmd[1] = "run" /\ m = "guard"
  BY DEF Due, HomeMarks
<1>2. /\ Place(cmd[1], "write_config") = 7
      /\ Place(cmd[1], "guard") = (IF cmd[1] = "run" THEN 31 ELSE 8)
      /\ Place(cmd[1], "alias") = (IF cmd[1] = "run" THEN 30 ELSE 13)
  BY Places
<1>3. CASE cmd[1] = "setup" /\ m = "write_config" /\ cmd[2] # "claudecode"
  BY <1>2, <1>3
<1>4. CASE cmd = <<"setup", "openclaw">> /\ m = "alias"
  <2>1. cmd[1] = "setup"
    BY <1>4
  <2> QED
    BY <1>2, <1>4, <2>1
<1>5. CASE cmd[1] = "run" /\ m = "guard"
  BY <1>2, <1>5
<1> QED
  BY <1>1, <1>3, <1>4, <1>5

\* Most steps come before: those of other commands, and the early ones of setup and run.
LEMMA SoonEnough ==
  ASSUME NEW cmd \in Lines, NEW h \in Own(cmd[1]), h \notin Quick,
         \/ cmd[1] \notin {"setup", "run"}
         \/ h \in {"load", "provision", "import", "clone", "bootstrap", "target", "reconcile", "decide",
                   "drop_home", "drop_workspace", "unlink", "available", "autobind", "seed"}
         \/ cmd[1] = "run" /\ h \in Syncs \cup {"alias"}
  PROVE  \A m \in Due(cmd) : m \in HomeMarks => Place(cmd[1], h) < Place(cmd[1], m)
<1>1. SUFFICES ASSUME NEW m \in Due(cmd), m \in HomeMarks PROVE Place(cmd[1], h) < Place(cmd[1], m)
  OBVIOUS
<1>2. \/ cmd[1] = "setup" /\ Place(cmd[1], m) \in {7, 13}
      \/ cmd[1] = "run" /\ Place(cmd[1], m) = 31
  BY <1>1, HomeDue
<1>3. CASE cmd[1] = "setup"
  <2>1. h \in {"load", "provision", "import", "clone", "bootstrap"}
    BY <1>2, <1>3 DEF Own, HomeWork, Syncs
  <2>2. Place(cmd[1], h) \in 0..6
    <3>1. /\ Place(cmd[1], "load") = 2 /\ Place(cmd[1], "provision") = 3 /\ Place(cmd[1], "import") = 4
          /\ Place(cmd[1], "clone") = 5 /\ Place(cmd[1], "bootstrap") = 6
      BY Places
    <3> QED
      BY <2>1, <3>1
  <2> QED
    BY <1>2, <1>3, <2>2
<1>4. CASE cmd[1] = "run"
  <2>1. h \in {"load", "target", "reconcile", "decide", "drop_home", "drop_workspace", "unlink",
               "available", "autobind", "seed", "alias"} \cup Syncs
    BY <1>4 DEF Own, HomeWork, Syncs, DropSteps
  <2>2. Place(cmd[1], h) \in 0..30
    <3>1. /\ Place(cmd[1], "load") = 2 /\ Place(cmd[1], "target") = 3 /\ Place(cmd[1], "reconcile") = 4
          /\ Place(cmd[1], "decide") = 5 /\ Place(cmd[1], "drop_home") = 6
          /\ Place(cmd[1], "drop_workspace") = 7 /\ Place(cmd[1], "unlink") = 8
          /\ Place(cmd[1], "available") = 9 /\ Place(cmd[1], "autobind") = 10
          /\ Place(cmd[1], "seed") = 30
          /\ Place(cmd[1], "alias") = (IF cmd[1] = "run" THEN 30 ELSE 13)
      BY Places
    <3>2. h \in Syncs => Place(cmd[1], h) \in 0..30
      BY SyncPlaces
    <3> QED
      BY <1>4, <2>1, <3>1, <3>2
  <2> QED
    BY <1>2, <1>4, <2>2
<1> QED
  BY <1>2, <1>3, <1>4

-----------------------------------------------------------------------------
\* Steps that change a home.
LEMMA WiringType ==
  ASSUME NEW k \in Runners, NEW cfg \in Configs
  PROVE  Wiring(k, cfg) \in [on : BOOLEAN, port : Nat, wait : Nat]
<1>1. cfg.bind.port \in Nat /\ cfg.wait \in Nat
  BY DEF Configs, Binds
<1>2. /\ Plugin(cfg) \in [on : BOOLEAN, port : Nat, wait : Nat]
      /\ Profile \in [on : BOOLEAN, port : Nat, wait : Nat]
      /\ Governance(cfg) \in [on : BOOLEAN, port : Nat, wait : Nat]
  BY <1>1 DEF Plugin, Profile, Governance
<1>3. Wiring(k, cfg) \in {Plugin(cfg), Profile, Governance(cfg)}
  BY DEF Wiring, Runners
<1> QED
  BY <1>2, <1>3

LEMMA WiringSettings ==
  ASSUME NEW k \in Runners, NEW cfg, NEW new, new.bind = cfg.bind, new.wait = cfg.wait
  PROVE  Wiring(k, new) = Wiring(k, cfg)
  BY DEF Wiring, Plugin, Profile, Governance, Runners

LEMMA AtHome ==
  ASSUME Inv, NEW c \in Clis, cli[c].todo # <<>>,
         Head(cli[c].todo) \in {"provision", "import", "clone", "bootstrap", "write_config",
                                "verify_import", "save_runner", "validate", "seed", "launch"} \cup HomeWork
  PROVE  Kind(c) \in Runners /\ Home(c) \in Homes /\ Kind(c) = cli[c].cmd[2] /\ Home(c) = tree.home[Kind(c)]
<1>1. cli[c].cmd \in Lines /\ Head(cli[c].todo) \in Own(cli[c].cmd[1]) /\ TreeOK(tree)
  BY Setting
<1>2. Kind(c) \in Runners
  BY <1>1, KindOf DEF Kind
<1> QED
  BY <1>1, <1>2 DEF Kind, Home, TreeOK, Trees

LEMMA ChangeHomeMoves ==
  ASSUME Inv, NEW c \in Clis, cli[c].todo # <<>>, NEW home \in Homes, ChangeHome(c, home, Rest(c)),
         Kind(c) \in Runners, Head(cli[c].todo) \notin Marks \cup BridgeMarks \cup {"done"},
         \/ HomeOK(cli[c], tree) => HomeOK(cli'[c], tree')
         \/ /\ Head(cli[c].todo) \notin Quick
            /\ \A m \in Due(cli[c].cmd) : m \in HomeMarks =>
                  Place(cli[c].cmd[1], Head(cli[c].todo)) < Place(cli[c].cmd[1], m)
  PROVE  Moved(c)
<1> DEFINE t == NewHome(tree, Kind(c), home)
<1>1. TreeOK(tree) /\ CliTable /\ CourseOK(cli[c].cmd, cli[c].todo)
  BY Setting
<1>2. TreeOK(t) /\ Rehomed(tree, t, Kind(c), home) /\ t.workspace = tree.workspace
  BY <1>1, ChangedHome
<1>3. Alter(c, t, Rest(c))
  BY DEF ChangeHome, NewHome
<1> HIDE DEF t
<1>4. tree' = t /\ cli'[c].cmd = cli[c].cmd /\ cli'[c].todo = Tail(cli[c].todo)
  BY <1>1, <1>3, AlterChanges DEF Carries, Rest
<1>5. HomeOK(cli[c], tree) => HomeOK(cli'[c], t)
  <2>1. CASE HomeOK(cli[c], tree) => HomeOK(cli'[c], tree')
    BY <1>4, <2>1
  <2>2. CASE /\ Head(cli[c].todo) \notin Quick
             /\ \A m \in Due(cli[c].cmd) : m \in HomeMarks =>
                   Place(cli[c].cmd[1], Head(cli[c].todo)) < Place(cli[c].cmd[1], m)
    <3>1. Head(cli[c].todo) # "done"
      OBVIOUS
    <3>2. Left(cli'[c].todo) = (Left(cli[c].todo) \ {Head(cli[c].todo)}) \cup {}
      BY <1>1, <1>4, <3>1, PopCourse
    <3>3. "home" \notin {}
      OBVIOUS
    <3> QED
      BY <1>1, <1>4, <2>2, <3>2, <3>3, HomeLater
  <2> QED
    BY <2>1, <2>2
<1> QED
  BY <1>2, <1>3, <1>5, AlterMoves DEF Rehomed

LEMMA WriteHomeChanges ==
  ASSUME Inv, NEW c \in Clis, cli[c].todo # <<>>, NEW home \in Homes, NEW todo,
         WriteHome(c, home, todo), Kind(c) \in Runners
  PROVE  /\ Only(c) /\ Carries(cli[c], cli'[c], {"newhome"}) /\ cli'[c].todo = <<"home">> \o todo
         /\ cli'[c].newhome \in Homes
         /\ cli'[c].newhome.dir /\ cli'[c].newhome.file = "ok" /\ cli'[c].newhome.tools = home.tools
         /\ cli'[c].newhome.pinned = home.pinned
         /\ TreeOK(tree') /\ tree'.home[Kind(c)].dir /\ tree'.workspace = tree.workspace
         /\ tree'.yaml = tree.yaml /\ tree'.policy = tree.policy /\ tree'.channel = tree.channel
         /\ (tree.state => tree'.state) /\ (tree.made => tree'.made)
         /\ UNCHANGED <<owed, bot, scene, disturbed>>
<1> DEFINE new == [home EXCEPT !.dir = TRUE, !.file = "ok"]
<1>1. CliTable /\ TreeOK(tree)
  BY Setting
<1>2. /\ Step(c, <<"home">> \o todo, [newhome |-> new])
      /\ tree' = TornAt(tree, Kind(c))
      /\ UNCHANGED <<owed, bot, scene, disturbed>>
  BY DEF WriteHome, Others, TornAt
<1>3. new \in Homes /\ new.dir /\ new.file = "ok" /\ new.tools = home.tools /\ new.pinned = home.pinned
  BY DEF Homes
<1> HIDE DEF new
<1>4. Only(c) /\ Becomes(cli[c], <<"home">> \o todo, [newhome |-> new], cli'[c])
  BY <1>1, <1>2, StepChanges
<1>5. /\ cli'[c].todo = <<"home">> \o todo /\ cli'[c].newhome = new
      /\ Carries(cli[c], cli'[c], {"newhome"})
  BY <1>4, ChangeSteps
<1>6. /\ TreeOK(tree') /\ tree'.home[Kind(c)].dir /\ tree'.workspace = tree.workspace
      /\ tree'.yaml = tree.yaml /\ tree'.policy = tree.policy /\ tree'.channel = tree.channel
      /\ (tree.state => tree'.state) /\ (tree.made => tree'.made)
  BY <1>1, <1>2, TornHome
<1> QED
  BY <1>2, <1>3, <1>4, <1>5, <1>6 DEF new

LEMMA HomeIsWork == "home" \in HomeWork /\ "home" \notin Syncs \cup Marks /\ "home" \in {"yaml", "policy", "home"}
  BY DEF HomeWork, Syncs, Marks

LEMMA WriteHomeMoves ==
  ASSUME Inv, NEW c \in Clis, cli[c].todo # <<>>, NEW home \in Homes, WriteHome(c, home, Rest(c)),
         Kind(c) \in Runners, Head(cli[c].todo) \notin Marks \cup BridgeMarks \cup {"done"},
         Head(cli[c].todo) \notin Quick, cli[c].cmd[1] \in {"setup", "run"},
         HomeOK(cli[c], tree) => HomeOK(cli'[c], tree')
  PROVE  Moved(c)
<1>1. CourseOK(cli[c].cmd, cli[c].todo)
  BY Setting
<1>2. /\ Only(c) /\ Carries(cli[c], cli'[c], {"newhome"})
      /\ cli'[c].todo = <<"home">> \o Tail(cli[c].todo) /\ cli'[c].newhome \in Homes
      /\ TreeOK(tree') /\ tree'.yaml = tree.yaml /\ tree'.policy = tree.policy
      /\ tree'.channel = tree.channel
      /\ (tree.state => tree'.state) /\ (tree.made => tree'.made)
      /\ UNCHANGED <<owed, bot, scene, disturbed>>
  <2>1. WriteHome(c, home, Tail(cli[c].todo))
    BY DEF Rest
  <2>2. home \in Homes /\ Kind(c) \in Runners /\ cli[c].todo # <<>>
    OBVIOUS
  <2> QED
    BY <2>1, <2>2, WriteHomeChanges
<1>3. "home" \in Own(cli[c].cmd[1])
  BY HomeIsWork DEF Own
<1>4. Head(cli[c].todo) # "done"
  OBVIOUS
<1>5. /\ CourseOK(cli[c].cmd, cli'[c].todo) /\ cli'[c].todo # <<>>
      /\ Onward(cli[c].cmd[1], cli[c].todo, cli'[c].todo, {"home"})
  <2>1. LET s == cli[c].todo
        IN  /\ CourseOK(cli[c].cmd, <<"home">> \o Tail(s)) /\ <<"home">> \o Tail(s) # <<>>
            /\ Onward(cli[c].cmd[1], s, <<"home">> \o Tail(s), {"home"})
    BY <1>1, <1>3, <1>4, HomeIsWork, QuickCourse
  <2> QED
    BY <1>2, <2>1
<1>6. {"home"} \cap (Syncs \cup Marks) = {}
  BY HomeIsWork
<1>7. Head(cli[c].todo) \notin Marks \cup BridgeMarks
  OBVIOUS
<1> QED
  BY <1>2, <1>5, <1>6, <1>7, Proceeds

-----------------------------------------------------------------------------
\* What setup does to a home.
WithDirs(t, k, w) == [t EXCEPT !.made = TRUE, !.home[k].dir = TRUE, !.workspace = w]
Dirs(t, u, k, w) ==
    /\ u.workspace = w /\ u.home[k].dir /\ u.home[k].file = t.home[k].file
    /\ u.home[k].tools = t.home[k].tools /\ u.home[k].pinned = t.home[k].pinned
    /\ (\A j \in Runners \ {k} : u.home[j] = t.home[j])
    /\ u.yaml = t.yaml /\ u.policy = t.policy /\ u.channel = t.channel
    /\ (t.state => u.state) /\ (t.made => u.made)
LEMMA DirsFacts ==
  ASSUME NEW t, NEW k \in Runners, TreeOK(t), NEW w \in BOOLEAN, NEW u, u = WithDirs(t, k, w)
  PROVE  TreeOK(u) /\ Dirs(t, u, k, w)
<1> DEFINE h == [t.home[k] EXCEPT !.dir = TRUE]
<1>1. t.home[k] \in Homes /\ t.home \in [Runners -> Homes]
  BY DEF TreeOK, Trees
<1>2. /\ h \in Homes /\ h.dir /\ h.file = t.home[k].file /\ h.tools = t.home[k].tools
      /\ h.pinned = t.home[k].pinned
  BY <1>1 DEF Homes
<1>3. u = [t EXCEPT !.made = TRUE, !.home[k] = h, !.workspace = w]
  BY <1>1 DEF TreeOK, Trees, Homes, WithDirs
<1> HIDE DEF h
<1>4. TreeOK(u) /\ Rehomed(t, u, k, h) /\ u.workspace = w
  <2>1. t = [f \in DOMAIN t |-> t[f]] /\ DOMAIN t = DOMAIN Nothing
    BY DEF TreeOK, Trees, Nothing
  <2>2. /\ u.made = TRUE /\ u.workspace = w /\ u.home = [t.home EXCEPT ![k] = h] /\ u.state = t.state
        /\ u.yaml = t.yaml /\ u.policy = t.policy /\ u.channel = t.channel /\ u.pidfile = t.pidfile
    BY <1>3, <2>1 DEF Nothing
  <2>3. u.home \in [Runners -> Homes]
    BY <1>1, <1>2, <2>2
  <2>4. u \in Trees
    BY <1>3, <2>2, <2>3 DEF TreeOK, Trees
  <2> QED
    BY <2>2, <2>4 DEF TreeOK, Rehomed
<1>5. u.home[k] = h /\ \A j \in Runners \ {k} : u.home[j] = t.home[j]
  BY <1>4, RehomedFacts
<1> QED
  BY <1>2, <1>4, <1>5 DEF Rehomed, Dirs

\* The next step, and what is left after it.
LEMMA PopLeft ==
  ASSUME Inv, NEW c \in Clis, cli[c].todo # <<>>, cli'[c].todo = Tail(cli[c].todo),
         Head(cli[c].todo) # "done"
  PROVE  Left(cli'[c].todo) = (Left(cli[c].todo) \ {Head(cli[c].todo)}) \cup {}
<1>1. CourseOK(cli[c].cmd, cli[c].todo)
  BY Setting
<1>2. LET s == cli[c].todo IN Left(Tail(s)) = Left(s) \ {Head(s)}
  BY <1>1, PopCourse
<1> QED
  BY <1>2

Sooner(c) == \A m \in Due(cli[c].cmd) : m \in HomeMarks =>
                 Place(cli[c].cmd[1], Head(cli[c].todo)) < Place(cli[c].cmd[1], m)

\* Nothing is to be said of a home before it is looked after.
LEMMA EarlyMoves ==
  ASSUME Inv, NEW c \in Clis, cli[c].todo # <<>>, NEW t, Alter(c, t, Rest(c)), TreeOK(t),
         t.yaml = tree.yaml, t.policy = tree.policy, t.channel = tree.channel,
         tree.state => t.state, tree.made => t.made,
         Head(cli[c].todo) \notin Marks \cup BridgeMarks \cup {"done"} \cup Quick,
         Sooner(c)
  PROVE  Moved(c)
<1>1. CliTable /\ CourseOK(cli[c].cmd, cli[c].todo)
  BY Setting
<1>2. cli'[c].cmd = cli[c].cmd /\ cli'[c].todo = Tail(cli[c].todo)
  BY <1>1, AlterChanges DEF Carries, Rest
<1>3. Head(cli[c].todo) # "done"
  OBVIOUS
<1>4. Left(cli'[c].todo) = (Left(cli[c].todo) \ {Head(cli[c].todo)}) \cup {}
  BY <1>2, <1>3, PopLeft
<1>5. HomeOK(cli'[c], t)
  <2>1. "home" \notin {}
    OBVIOUS
  <2> QED
    BY <1>1, <1>2, <1>4, <2>1, HomeLater DEF Sooner
<1> QED
  BY <1>5, AlterMoves

LEMMA HomeWrittenMoves == ASSUME Inv, NEW c \in Clis, HomeWritten(c) PROVE Moved(c)
<1> DEFINE t == IF Home(c).dir THEN OtherHome(tree, Kind(c), cli[c].newhome) ELSE tree
<1>1. /\ cli[c].todo # <<>> /\ Head(cli[c].todo) = "home" /\ Alter(c, t, Rest(c))
  BY DEF HomeWritten, Doing, OtherHome
<1>2. Kind(c) \in Runners /\ Home(c) = tree.home[Kind(c)] /\ Kind(c) = cli[c].cmd[2]
  BY <1>1, HomeIsWork, AtHome
<1>3. TreeOK(tree) /\ cli[c].newhome \in Homes /\ CliTable /\ "home" \in Left(cli[c].todo)
  BY <1>1, Setting DEF Fields
<1>4. /\ TreeOK(OtherHome(tree, Kind(c), cli[c].newhome))
      /\ Rehomed(tree, OtherHome(tree, Kind(c), cli[c].newhome), Kind(c), cli[c].newhome)
      /\ OtherHome(tree, Kind(c), cli[c].newhome).workspace = tree.workspace
  BY <1>2, <1>3, ChangedHome
<1>5. OtherHome(tree, Kind(c), cli[c].newhome).home[Kind(c)] = cli[c].newhome
  BY <1>2, <1>3, <1>4, RehomedFacts
<1>6. /\ TreeOK(t) /\ t.yaml = tree.yaml /\ t.policy = tree.policy /\ t.channel = tree.channel
      /\ (tree.state => t.state) /\ (tree.made => t.made) /\ t.workspace = tree.workspace
      /\ tree.home[Kind(c)].dir => t.home[Kind(c)] = cli[c].newhome
  BY <1>2, <1>3, <1>4, <1>5 DEF Rehomed
<1> HIDE DEF t
<1>7. "home" \notin Marks \cup BridgeMarks \cup {"done"}
  BY DEF Marks, BridgeMarks
<1>8. Carries(cli[c], cli'[c], {}) /\ cli'[c].todo = Tail(cli[c].todo)
  BY <1>1, <1>3, AlterChanges DEF Rest
<1>9. Left(cli'[c].todo) = (Left(cli[c].todo) \ {"home"}) \cup {}
  BY <1>1, <1>8, PopLeft
<1>10. HomeOK(cli[c], tree) => HomeOK(cli'[c], t)
  BY <1>2, <1>3, <1>6, <1>8, <1>9 DEF HomeOK, Fits, Carries
<1> QED
  BY <1>1, <1>6, <1>7, <1>10, AlterMoves

LEMMA Soon ==
  ASSUME Inv, NEW c \in Clis, cli[c].todo # <<>>, Head(cli[c].todo) \notin Quick,
         \/ Head(cli[c].todo) \in
                {"load", "provision", "import", "clone", "bootstrap", "target", "reconcile", "decide",
                 "drop_home", "drop_workspace", "unlink", "available", "autobind", "seed"}
         \/ cli[c].cmd[1] \notin {"setup", "run"}
  PROVE  Sooner(c)
<1>1. cli[c].cmd \in Lines /\ Head(cli[c].todo) \in Own(cli[c].cmd[1])
  BY Setting
<1> QED
  BY <1>1, SoonEnough DEF Sooner

LEMMA ProvisionMoves == ASSUME Inv, NEW c \in Clis, Provision(c) PROVE Moved(c)
<1> DEFINE w == tree.workspace \/ Kind(c) = "openclaw"
<1>1. TreeOK(tree)
  BY DEF Inv, Base
<1>2. /\ cli[c].todo # <<>> /\ Head(cli[c].todo) = "provision"
      /\ Alter(c, WithDirs(tree, Kind(c), w), Rest(c))
  BY <1>1 DEF Provision, Doing, WithDirs, TreeOK, Trees
<1>3. Kind(c) \in Runners
  BY <1>2, AtHome
<1>4. w \in BOOLEAN /\ (tree.workspace => w)
  BY <1>1 DEF TreeOK, Trees
<1> HIDE DEF w
<1> DEFINE t == WithDirs(tree, Kind(c), w)
<1>5. Alter(c, t, Rest(c)) /\ t = WithDirs(tree, Kind(c), w)
  BY <1>2
<1> HIDE DEF t
<1>6. /\ TreeOK(t) /\ t.yaml = tree.yaml /\ t.policy = tree.policy /\ t.channel = tree.channel
      /\ (tree.state => t.state) /\ (tree.made => t.made)
  <2>1. TreeOK(t) /\ Dirs(tree, t, Kind(c), w)
    BY <1>1, <1>3, <1>4, <1>5, DirsFacts
  <2> QED
    BY <2>1 DEF Dirs
<1>7. "provision" \notin Marks \cup BridgeMarks \cup {"done"} \cup Quick
  BY DEF Marks, BridgeMarks, Quick
<1> QED
  BY <1>2, <1>5, <1>6, <1>7, Soon, EarlyMoves

LEMMA AliasMoves == ASSUME Inv, NEW c \in Clis, MediaAlias(c) PROVE Moved(c)
<1> DEFINE t == WithDirs(tree, "openclaw", TRUE)
<1>1. TreeOK(tree) /\ CliTable
  BY DEF Inv, Base
<1>2. cli[c].todo # <<>> /\ Head(cli[c].todo) = "alias" /\ Alter(c, t, Rest(c))
  BY DEF MediaAlias, Doing, WithDirs
<1>3. Kind(c) \in Runners /\ Kind(c) = cli[c].cmd[2]
  BY <1>2, AtHome DEF HomeWork
<1>4. "openclaw" \in Runners /\ TRUE \in BOOLEAN /\ t = WithDirs(tree, "openclaw", TRUE)
  BY DEF Runners
<1> HIDE DEF t
<1>5. /\ TreeOK(t) /\ t.workspace /\ t.home["openclaw"].dir
      /\ t.home["openclaw"].file = tree.home["openclaw"].file
      /\ t.home["openclaw"].tools = tree.home["openclaw"].tools
      /\ t.home["openclaw"].pinned = tree.home["openclaw"].pinned
      /\ (\A j \in Runners \ {"openclaw"} : t.home[j] = tree.home[j])
      /\ t.yaml = tree.yaml /\ t.policy = tree.policy /\ t.channel = tree.channel
      /\ (tree.state => t.state) /\ (tree.made => t.made)
  <2>1. TreeOK(t) /\ Dirs(tree, t, "openclaw", TRUE)
    BY <1>1, <1>4, DirsFacts
  <2> QED
    BY <2>1 DEF Dirs
<1>6. "alias" \notin Marks \cup BridgeMarks \cup {"done"} /\ "alias" \notin Quick
  BY DEF Marks, BridgeMarks, Quick
<1>7. Carries(cli[c], cli'[c], {}) /\ cli'[c].todo = Tail(cli[c].todo)
  BY <1>1, <1>2, AlterChanges DEF Rest
<1>8. Left(cli'[c].todo) = (Left(cli[c].todo) \ {"alias"}) \cup {}
  BY <1>2, <1>7, PopLeft
<1>9. "home" \notin Left(cli[c].todo)
  BY <1>2, <1>6, Setting, NoQuick DEF Quick
<1>10. ASSUME HomeOK(cli[c], tree) PROVE HomeOK(cli'[c], t)
  <2>1. LET k == cli[c].cmd[2]
        IN  /\ t.home[k].file = tree.home[k].file /\ t.home[k].tools = tree.home[k].tools
            /\ t.home[k].pinned = tree.home[k].pinned /\ (tree.home[k].dir => t.home[k].dir)
    BY <1>3, <1>5
  <2> QED
    BY <1>5, <1>7, <1>8, <1>9, <1>10, <2>1 DEF HomeOK, Fits, Carries
<1> QED
  BY <1>2, <1>5, <1>6, <1>10, AlterMoves

-----------------------------------------------------------------------------
\* Steps that put others before the rest.
LEMMA SetupGaps ==
  ASSUME NEW x \in Own("setup")
  PROVE  /\ x # "clone" /\ 4 < Place("setup", x) => 5 < Place("setup", x)
         /\ x \notin Begets("repair_auth") /\ 9 < Place("setup", x) => 11 < Place("setup", x)
<1>1. x \in {"done", "load", "provision", "import", "clone", "bootstrap", "write_config",
             "verify_import", "save_runner", "yaml", "validate"} \cup HomeWork \cup Syncs
  BY DEF Own
<1>2. CASE x \in {"load", "provision", "import", "clone", "yaml", "home"}
  <2>1. /\ Place("setup", "load") = 2 /\ Place("setup", "provision") = 3 /\ Place("setup", "import") = 4
        /\ Place("setup", "clone") = 5 /\ Place("setup", "yaml") = 0 /\ Place("setup", "home") = 0
    BY Places
  <2> QED
    BY <1>2, <2>1
<1>3. CASE x \in {"bootstrap", "write_config", "guard", "repair_auth", "auth_store", "auth_profiles"}
  <2>1. /\ Place("setup", "bootstrap") = 6 /\ Place("setup", "write_config") = 7
        /\ Place("setup", "guard") = (IF "setup" = "run" THEN 31 ELSE 8)
        /\ Place("setup", "repair_auth") = (IF "setup" = "run" THEN 32 ELSE 9)
        /\ Place("setup", "auth_store") = (IF "setup" = "run" THEN 33 ELSE 10)
        /\ Place("setup", "auth_profiles") = (IF "setup" = "run" THEN 34 ELSE 11)
    BY Places
  <2> QED
    BY <1>3, <2>1 DEF Begets
<1>4. CASE x \in {"verify_import", "alias", "save_runner", "validate", "done"}
  <2>1. /\ Place("setup", "verify_import") = 12 /\ Place("setup", "save_runner") = 14
        /\ Place("setup", "alias") = (IF "setup" = "run" THEN 30 ELSE 13)
        /\ Place("setup", "validate") = 15 /\ Place("setup", "done") = 40
    BY Places, LastPlace
  <2> QED
    BY <1>4, <2>1
<1>5. CASE x \in Syncs
  <2>1. Place("setup", x) \in 20..27
    BY <1>5, SyncPlaces
  <2> QED
    BY <2>1
<1> QED
  BY <1>1, <1>2, <1>3, <1>4, <1>5 DEF HomeWork

LEMMA RunGaps ==
  ASSUME NEW op \in {"run", "status"}, NEW x \in Own(op)
  PROVE  /\ x \notin Begets("reconcile") /\ 4 < Place(op, x) => 8 < Place(op, x)
         /\ op = "run" /\ x \notin Begets("repair_auth") /\ 32 < Place(op, x) => 34 < Place(op, x)
<1>1. x \in {"done", "load", "target", "reconcile", "decide", "available", "autobind", "stored", "seed",
             "check_auth", "launch"} \cup DropSteps \cup HomeWork \cup Syncs
  BY DEF Own
<1>11. op = "status" => x \in {"done", "load", "reconcile", "decide"} \cup DropSteps
  BY DEF Own
<1>2. CASE x \in {"load", "target", "reconcile", "yaml", "stored", "home"}
  <2>1. /\ Place(op, "load") = 2 /\ Place(op, "target") = 3 /\ Place(op, "reconcile") = 4
        /\ Place(op, "yaml") = 0 /\ Place(op, "stored") = 1 /\ Place(op, "home") = 0
    BY Places
  <2> QED
    BY <1>2, <2>1
<1>3. CASE x \in {"decide", "drop_home", "drop_workspace", "unlink"}
  <2>1. /\ Place(op, "decide") = 5 /\ Place(op, "drop_home") = 6 /\ Place(op, "drop_workspace") = 7
        /\ Place(op, "unlink") = 8
    BY Places
  <2> QED
    BY <1>3, <2>1 DEF Begets
<1>4. CASE x \in {"available", "autobind", "seed", "check_auth", "launch", "done"}
  <2>1. /\ Place(op, "available") = 9 /\ Place(op, "autobind") = 10 /\ Place(op, "seed") = 30
        /\ Place(op, "check_auth") = 32 /\ Place(op, "launch") = 35 /\ Place(op, "done") = 40
    BY Places, LastPlace
  <2> QED
    BY <1>4, <2>1
<1>5. CASE x \in {"guard", "repair_auth", "auth_store", "auth_profiles", "alias"}
  <2>1. op = "run"
    BY <1>5, <1>11 DEF DropSteps
  <2>2. /\ Place(op, "guard") = (IF op = "run" THEN 31 ELSE 8)
        /\ Place(op, "repair_auth") = (IF op = "run" THEN 32 ELSE 9)
        /\ Place(op, "auth_store") = (IF op = "run" THEN 33 ELSE 10)
        /\ Place(op, "auth_profiles") = (IF op = "run" THEN 34 ELSE 11)
        /\ Place(op, "alias") = (IF op = "run" THEN 30 ELSE 13)
    BY Places
  <2> QED
    BY <1>5, <2>1, <2>2 DEF Begets
<1>6. CASE x \in Syncs
  <2>1. Place(op, x) \in 20..27
    BY <1>6, SyncPlaces
  <2> QED
    BY <2>1
<1> QED
  BY <1>1, <1>2, <1>3, <1>4, <1>5, <1>6 DEF HomeWork, DropSteps

LEMMA PushClone ==
  ASSUME NEW cmd, NEW s, CourseOK(cmd, s), s # <<>>, Head(s) = "import", cmd[1] = "setup"
  PROVE  /\ Onward(cmd[1], s, <<"clone">> \o Tail(s), {"clone"})
         /\ CourseOK(cmd, <<"clone">> \o Tail(s)) /\ <<"clone">> \o Tail(s) # <<>>
<1>1. /\ Left(Tail(s)) = Left(s) \ {"import"} /\ Onward(cmd[1], s, Tail(s), {})
      /\ \A x \in Left(Tail(s)) : Place(cmd[1], "import") < Place(cmd[1], x)
  BY PopCourse
<1>2. /\ Left(s) \subseteq Own("setup") /\ "import" \in Left(s) /\ \A x \in Left(s) : Left(s) \cap Begets(x) = {}
  BY Ahead DEF CourseOK
<1>3. "clone" \notin Left(s)
  BY <1>2 DEF Begets
<1>4. /\ Place(cmd[1], "import") = 4 /\ Place(cmd[1], "clone") = 5 /\ "clone" \in Names
      /\ "import" \notin Quick
  BY Places DEF Names, Quick
<1>5. \A x \in Left(Tail(s)) : Place(cmd[1], "clone") < Place(cmd[1], x)
  BY <1>1, <1>2, <1>3, <1>4, SetupGaps
<1>6. Onward(cmd[1], s, <<"clone">> \o Tail(s), {"clone"} \cup {})
      /\ Left(<<"clone">> \o Tail(s)) = {"clone"} \cup Left(Tail(s))
  BY <1>1, <1>4, <1>5, Pushed
<1>7. {"clone"} \cup {} = {"clone"}
  OBVIOUS
<1>8. \A x \in Left(<<"clone">> \o Tail(s)) : Left(<<"clone">> \o Tail(s)) \cap Begets(x) = {}
  BY <1>1, <1>2, <1>6 DEF Begets
<1>9. {"clone"} \subseteq Own(cmd[1]) \ Syncs
  BY DEF Own, Syncs
<1>10. Onward(cmd[1], s, <<"clone">> \o Tail(s), {"clone"})
  BY <1>6, <1>7
<1> QED
  BY <1>8, <1>9, <1>10, OnwardCourse

LEMMA QuickOn ==
  ASSUME NEW cmd, NEW s, CourseOK(cmd, s), s # <<>>, Head(s) \notin Quick, Head(s) # "done",
         NEW t, NEW E, Onward(cmd[1], s, t, E), CourseOK(cmd, t), E \subseteq Own(cmd[1]) \ Syncs,
         NEW e \in {"yaml", "policy", "home"}, e \in Own(cmd[1]), E \cap {"yaml", "policy", "home"} = {}
  PROVE  /\ Onward(cmd[1], s, <<e>> \o t, {e} \cup E) /\ CourseOK(cmd, <<e>> \o t) /\ <<e>> \o t # <<>>
         /\ {e} \cup E \subseteq Own(cmd[1]) \ Syncs
<1>1. Left(s) \cap Quick = {}
  BY NoQuick DEF CourseOK
<1>2. Left(t) = (Left(s) \ {Head(s)}) \cup E
  BY DEF Onward
<1>3. \A x \in Left(t) : 0 < Place(cmd[1], x)
  <2>1. SUFFICES ASSUME NEW x \in Left(t) PROVE 0 < Place(cmd[1], x)
    OBVIOUS
  <2>2. x \notin {"yaml", "policy", "home"}
    BY <1>1, <1>2 DEF Quick
  <2>3. Place(cmd[1], x) # 0
    BY <2>2 DEF Place
  <2>4. \A n \in 0..40 : n # 0 => 0 < n
    OBVIOUS
  <2> QED
    BY <2>3, <2>4, PlaceNat
<1>4. Onward(cmd[1], s, <<e>> \o t, {e} \cup E)
  BY <1>3, QuickPush
<1>5. Left(<<e>> \o t) = {e} \cup Left(t)
  BY <1>2, <1>4 DEF Onward
<1>6. \A x \in Left(<<e>> \o t) : Left(<<e>> \o t) \cap Begets(x) = {}
  <2>1. \A x \in Left(t) : Left(t) \cap Begets(x) = {}
    BY DEF CourseOK
  <2>2. Begets(e) = {} /\ \A x : e \notin Begets(x)
    BY DEF Begets
  <2> QED
    BY <1>5, <2>1, <2>2
<1>7. {e} \cup E \subseteq Own(cmd[1]) \ Syncs
  BY DEF Syncs
<1> QED
  BY <1>4, <1>6, <1>7, OnwardCourse

LEMMA PushStored ==
  ASSUME NEW cmd, NEW s, CourseOK(cmd, s), s # <<>>, Head(s) \notin Quick, Head(s) # "done",
         cmd[1] \in {"run", "update"}
  PROVE  /\ Onward(cmd[1], s, <<"stored">> \o Tail(s), {"stored"})
         /\ CourseOK(cmd, <<"stored">> \o Tail(s)) /\ {"stored"} \subseteq Own(cmd[1]) \ Syncs
<1>1. /\ Left(Tail(s)) = Left(s) \ {Head(s)} /\ Onward(cmd[1], s, Tail(s), {})
  BY PopCourse
<1>2. Left(s) \cap Quick = {}
  BY NoQuick DEF CourseOK
<1>3. Place(cmd[1], "stored") = 1 /\ "stored" \in Names /\ "stored" \in Quick
  BY Places DEF Names, Quick
<1>4. \A x \in Left(Tail(s)) : Place(cmd[1], "stored") < Place(cmd[1], x)
  <2>1. SUFFICES ASSUME NEW x \in Left(Tail(s)) PROVE 1 < Place(cmd[1], x)
    BY <1>3
  <2>2. x \notin Quick
    BY <1>1, <1>2
  <2>3. ~(Place(cmd[1], x) < 2) /\ Place(cmd[1], x) \in 0..40
    BY <2>2, QuickPlaces, PlaceNat
  <2>4. \A n \in 0..40 : ~(n < 2) => 1 < n
    OBVIOUS
  <2> QED
    BY <2>3, <2>4
<1>5. Onward(cmd[1], s, <<"stored">> \o Tail(s), {"stored"} \cup {})
      /\ Left(<<"stored">> \o Tail(s)) = {"stored"} \cup Left(Tail(s))
  BY <1>1, <1>3, <1>4, Pushed
<1>6. \A x \in Left(<<"stored">> \o Tail(s)) : Left(<<"stored">> \o Tail(s)) \cap Begets(x) = {}
  <2>1. \A x \in Left(s) : Left(s) \cap Begets(x) = {}
    BY DEF CourseOK
  <2>2. Begets("stored") = {} /\ \A x : "stored" \notin Begets(x)
    BY DEF Begets
  <2> QED
    BY <1>1, <1>5, <2>1, <2>2
<1>7. {"stored"} \cup {} = {"stored"}
  OBVIOUS
<1>8. {"stored"} \subseteq Own(cmd[1]) \ Syncs
  BY DEF Own, Syncs
<1>9. Onward(cmd[1], s, <<"stored">> \o Tail(s), {"stored"})
  BY <1>5, <1>7
<1> QED
  BY <1>6, <1>8, <1>9, OnwardCourse

PushedOn(op, s, t, E, e) ==
    Onward(op, s, <<e>> \o t, {e} \cup E) /\ Left(<<e>> \o t) = {e} \cup Left(t)
LEMMA PushedTo ==
  ASSUME NEW op, NEW s, NEW t, NEW E, Onward(op, s, t, E), NEW e \in Names,
         Head(s) \notin Quick, Place(op, Head(s)) < Place(op, e),
         \A x \in Left(t) : Place(op, e) < Place(op, x)
  PROVE  PushedOn(op, s, t, E, e)
<1>1. InOrder(op, <<e>> \o t) /\ Left(<<e>> \o t) = {e} \cup Left(t)
  BY Put DEF Onward
<1> QED
  BY <1>1 DEF Onward, PushedOn

LEMMA PushDecide ==
  ASSUME NEW cmd, NEW s, CourseOK(cmd, s), s # <<>>, Head(s) = "reconcile", cmd[1] \in {"run", "status"}
  PROVE  /\ Onward(cmd[1], s, <<"decide">> \o Tail(s), {"decide"})
         /\ CourseOK(cmd, <<"decide">> \o Tail(s)) /\ <<"decide">> \o Tail(s) # <<>>
         /\ {"decide"} \subseteq Own(cmd[1]) \ Syncs
<1>1. /\ Left(Tail(s)) = Left(s) \ {"reconcile"} /\ Onward(cmd[1], s, Tail(s), {})
      /\ \A x \in Left(Tail(s)) : Place(cmd[1], "reconcile") < Place(cmd[1], x)
  BY PopCourse
<1>2. /\ Left(s) \subseteq Own(cmd[1]) /\ "reconcile" \in Left(s)
      /\ \A x \in Left(s) : Left(s) \cap Begets(x) = {}
  BY Ahead DEF CourseOK
<1>3. Left(s) \cap Begets("reconcile") = {} /\ "decide" \notin Left(s)
  BY <1>2 DEF Begets
<1>4. /\ Place(cmd[1], "reconcile") = 4 /\ Place(cmd[1], "decide") = 5 /\ "decide" \in Names
      /\ "reconcile" \notin Quick
  BY Places DEF Names, Quick
<1>5. \A x \in Left(Tail(s)) : Place(cmd[1], "decide") < Place(cmd[1], x)
  <2>1. SUFFICES ASSUME NEW x \in Left(Tail(s)) PROVE 5 < Place(cmd[1], x)
    BY <1>4
  <2>2. 8 < Place(cmd[1], x)
    BY <1>1, <1>2, <1>3, <1>4, RunGaps
  <2>3. \A n \in 0..40 : 8 < n => 5 < n
    OBVIOUS
  <2> QED
    BY <2>2, <2>3, PlaceNat
<1>6. Onward(cmd[1], s, <<"decide">> \o Tail(s), {"decide"} \cup {})
      /\ Left(<<"decide">> \o Tail(s)) = {"decide"} \cup Left(Tail(s))
  <2>1. /\ Place(cmd[1], Head(s)) < Place(cmd[1], "decide") /\ Head(s) \notin Quick
        /\ "decide" \in Names
    BY <1>4
  <2>9. PushedOn(cmd[1], s, Tail(s), {}, "decide")
    BY <1>1, <1>5, <2>1, PushedTo
  <2> QED
    BY <2>9 DEF PushedOn
<1>7. {"decide"} \cup {} = {"decide"}
  OBVIOUS
<1>8. \A x \in Left(<<"decide">> \o Tail(s)) : Left(<<"decide">> \o Tail(s)) \cap Begets(x) = {}
  <2>1. Begets("decide") \subseteq Begets("reconcile")
        /\ \A x : "decide" \in Begets(x) => x = "reconcile" \/ x = "decide"
    BY DEF Begets
  <2>2. "decide" \notin Begets("decide")
    BY DEF Begets
  <2> QED
    BY <1>1, <1>2, <1>3, <1>6, <2>1, <2>2
<1>9. {"decide"} \subseteq Own(cmd[1]) \ Syncs
  BY DEF Own, Syncs
<1>10. Onward(cmd[1], s, <<"decide">> \o Tail(s), {"decide"})
  BY <1>6, <1>7
<1> QED
  BY <1>8, <1>9, <1>10, OnwardCourse

LEMMA PushDrops ==
  ASSUME NEW cmd, NEW s, CourseOK(cmd, s), s # <<>>, Head(s) = "decide", cmd[1] \in {"run", "status"},
         NEW t, t = <<"drop_home">> \o (<<"drop_workspace">> \o (<<"unlink">> \o Tail(s)))
  PROVE  /\ Onward(cmd[1], s, t, {"drop_home", "drop_workspace", "unlink"})
         /\ CourseOK(cmd, t) /\ t # <<>>
<1> DEFINE op == cmd[1]
<1>0. op = cmd[1]
  OBVIOUS
<1> HIDE DEF op
<1>1. /\ Left(Tail(s)) = Left(s) \ {"decide"} /\ Onward(op, s, Tail(s), {})
      /\ \A x \in Left(Tail(s)) : Place(op, "decide") < Place(op, x)
  BY <1>0, PopCourse
<1>2. /\ Left(s) \subseteq Own(op) /\ "decide" \in Left(s)
      /\ \A x \in Left(s) : Left(s) \cap Begets(x) = {}
  BY <1>0, Ahead DEF CourseOK
<1>3. Left(s) \cap {"drop_home", "drop_workspace", "unlink"} = {}
  BY <1>2 DEF Begets
<1>4. /\ Place(op, "reconcile") = 4 /\ Place(op, "decide") = 5 /\ Place(op, "drop_home") = 6
      /\ Place(op, "drop_workspace") = 7 /\ Place(op, "unlink") = 8
      /\ {"drop_home", "drop_workspace", "unlink"} \subseteq Names /\ "decide" \notin Quick
  BY Places DEF Names, Quick, DropSteps
<1>5. \A x \in Left(Tail(s)) : /\ Place(op, "unlink") < Place(op, x)
                               /\ Place(op, "drop_workspace") < Place(op, x)
                               /\ Place(op, "drop_home") < Place(op, x) /\ x # "reconcile"
  <2>1. SUFFICES ASSUME NEW x \in Left(Tail(s))
                 PROVE  8 < Place(op, x) /\ 7 < Place(op, x) /\ 6 < Place(op, x) /\ x # "reconcile"
    BY <1>4
  <2>2. 5 < Place(op, x) /\ x \notin Begets("reconcile") /\ x \in Own(op)
    BY <1>1, <1>2, <1>3, <1>4 DEF Begets
  <2>3. \A n \in 0..40 : (5 < n => 4 < n) /\ (8 < n => 7 < n /\ 6 < n)
    OBVIOUS
  <2>4. 4 < Place(op, x)
    BY <2>2, <2>3, PlaceNat
  <2>5. 8 < Place(op, x)
    BY <2>2, <2>4, <1>0, RunGaps
  <2>6. 7 < Place(op, x) /\ 6 < Place(op, x)
    BY <2>3, <2>5, PlaceNat
  <2>7. x # "reconcile"
    BY <1>4, <2>2
  <2> QED
    BY <2>5, <2>6, <2>7
<1> DEFINE t3 == <<"unlink">> \o Tail(s)
<1> DEFINE t2 == <<"drop_workspace">> \o t3
<1>6. Onward(op, s, t3, {"unlink"} \cup {}) /\ Left(t3) = {"unlink"} \cup Left(Tail(s))
  <2>1. Place(op, Head(s)) < Place(op, "unlink") /\ Head(s) \notin Quick /\ "unlink" \in Names
    BY <1>4
  <2>9. PushedOn(op, s, Tail(s), {}, "unlink")
    BY <1>1, <1>5, <2>1, PushedTo
  <2> QED
    BY <2>9 DEF PushedOn, t3
<1> HIDE DEF t3
<1>7. /\ Onward(op, s, t2, {"drop_workspace"} \cup ({"unlink"} \cup {}))
      /\ Left(t2) = {"drop_workspace"} \cup Left(t3)
  <2>1. Place(op, Head(s)) < Place(op, "drop_workspace") /\ Head(s) \notin Quick /\ "drop_workspace" \in Names
    BY <1>4
  <2>2. \A x \in Left(t3) : Place(op, "drop_workspace") < Place(op, x)
    BY <1>4, <1>5, <1>6
  <2>9. PushedOn(op, s, t3, {"unlink"} \cup {}, "drop_workspace")
    BY <1>6, <2>1, <2>2, PushedTo
  <2> QED
    BY <2>9 DEF PushedOn, t2
<1> HIDE DEF t2
<1>8. t = <<"drop_home">> \o t2
  BY DEF t2, t3
<1>9. /\ Onward(op, s, t, {"drop_home"} \cup ({"drop_workspace"} \cup ({"unlink"} \cup {})))
      /\ Left(t) = {"drop_home"} \cup Left(t2)
  <2>1. Place(op, Head(s)) < Place(op, "drop_home") /\ Head(s) \notin Quick /\ "drop_home" \in Names
    BY <1>4
  <2>2. \A x \in Left(t2) : Place(op, "drop_home") < Place(op, x)
    BY <1>4, <1>5, <1>6, <1>7
  <2>9. PushedOn(op, s, t2, {"drop_workspace"} \cup ({"unlink"} \cup {}), "drop_home")
    BY <1>7, <2>1, <2>2, PushedTo
  <2> QED
    BY <2>9, <1>8 DEF PushedOn
<1>10. {"drop_home"} \cup ({"drop_workspace"} \cup ({"unlink"} \cup {})) = {"drop_home", "drop_workspace", "unlink"}
  OBVIOUS
<1>11. Left(t) = {"drop_home", "drop_workspace", "unlink"} \cup Left(Tail(s))
  BY <1>6, <1>7, <1>9
<1>12. \A x \in Left(t) : Left(t) \cap Begets(x) = {}
  <2>1. \A x \in {"drop_home", "drop_workspace", "unlink"} : Begets(x) = {}
    BY DEF Begets
  <2>2. \A x \in Left(Tail(s)) : Begets(x) \cap {"drop_home", "drop_workspace", "unlink"} = {}
    BY <1>1, <1>5 DEF Begets
  <2> QED
    BY <1>1, <1>2, <1>11, <2>1, <2>2
<1>13. {"drop_home", "drop_workspace", "unlink"} \subseteq Own(op) \ Syncs
  BY <1>0, Zenon DEF Own, Syncs, DropSteps
<1>14. Onward(op, s, t, {"drop_home", "drop_workspace", "unlink"})
  BY <1>9, <1>10
<1>15. Onward(cmd[1], s, t, {"drop_home", "drop_workspace", "unlink"}) /\ {"drop_home", "drop_workspace", "unlink"} \subseteq Own(cmd[1]) \ Syncs /\ Head(s) # "done"
  BY <1>0, <1>13, <1>14
<1>16. CourseOK(cmd, t) /\ t # <<>>
  BY <1>12, <1>15, OnwardCourse
<1> QED
  BY <1>15, <1>16

LEMMA PushAuth ==
  ASSUME NEW cmd, NEW s, CourseOK(cmd, s), s # <<>>, Head(s) = "repair_auth", cmd[1] \in {"setup", "run"},
         NEW t, t = <<"auth_store">> \o (<<"auth_profiles">> \o Tail(s))
  PROVE  /\ Onward(cmd[1], s, t, {"auth_store", "auth_profiles"})
         /\ CourseOK(cmd, t) /\ t # <<>> /\ {"auth_store", "auth_profiles"} \subseteq Own(cmd[1]) \ Syncs
<1> DEFINE op == cmd[1]
<1>0. op = cmd[1]
  OBVIOUS
<1> HIDE DEF op
<1>1. /\ Left(Tail(s)) = Left(s) \ {"repair_auth"} /\ Onward(op, s, Tail(s), {})
      /\ \A x \in Left(Tail(s)) : Place(op, "repair_auth") < Place(op, x)
  BY <1>0, PopCourse
<1>2. /\ Left(s) \subseteq Own(op) /\ "repair_auth" \in Left(s)
      /\ \A x \in Left(s) : Left(s) \cap Begets(x) = {}
  BY <1>0, Ahead DEF CourseOK
<1>3. Left(s) \cap Begets("repair_auth") = {}
  BY <1>2
<1>4. /\ Place(op, "repair_auth") = (IF op = "run" THEN 32 ELSE 9)
      /\ Place(op, "auth_store") = (IF op = "run" THEN 33 ELSE 10)
      /\ Place(op, "auth_profiles") = (IF op = "run" THEN 34 ELSE 11)
      /\ {"auth_store", "auth_profiles"} \subseteq Names /\ "repair_auth" \notin Quick
  BY Places DEF Names, Quick, HomeWork
<1>5. \A x \in Left(Tail(s)) : Place(op, "auth_profiles") < Place(op, x) /\ Place(op, "auth_store") < Place(op, x)
  <2>1. SUFFICES ASSUME NEW x \in Left(Tail(s))
                 PROVE  Place(op, "auth_profiles") < Place(op, x) /\ Place(op, "auth_store") < Place(op, x)
    OBVIOUS
  <2>2. x \in Own(op) /\ x \notin Begets("repair_auth") /\ Place(op, "repair_auth") < Place(op, x)
    BY <1>1, <1>2, <1>3
  <2>3. CASE op = "run"
    <3>1. 34 < Place(op, x)
      BY <1>4, <2>2, <2>3, <1>0, RunGaps
    <3>2. \A n \in 0..40 : 34 < n => 33 < n
      OBVIOUS
    <3> QED
      BY <1>4, <2>3, <3>1, <3>2, PlaceNat
  <2>4. CASE op = "setup"
    <3>1. 11 < Place(op, x)
      BY <1>4, <2>2, <2>4, <1>0, SetupGaps
    <3>2. \A n \in 0..40 : 11 < n => 10 < n
      OBVIOUS
    <3> QED
      BY <1>4, <2>4, <3>1, <3>2, PlaceNat
  <2> QED
    BY <1>0, <2>3, <2>4
<1> DEFINE t2 == <<"auth_profiles">> \o Tail(s)
<1>6. Onward(op, s, t2, {"auth_profiles"} \cup {}) /\ Left(t2) = {"auth_profiles"} \cup Left(Tail(s))
  <2>1. Place(op, Head(s)) < Place(op, "auth_profiles") /\ Head(s) \notin Quick /\ "auth_profiles" \in Names
    BY <1>4
  <2>9. PushedOn(op, s, Tail(s), {}, "auth_profiles")
    BY <1>1, <1>5, <2>1, PushedTo
  <2> QED
    BY <2>9 DEF PushedOn, t2
<1> HIDE DEF t2
<1>7. t = <<"auth_store">> \o t2
  BY DEF t2
<1>8. /\ Onward(op, s, t, {"auth_store"} \cup ({"auth_profiles"} \cup {}))
      /\ Left(t) = {"auth_store"} \cup Left(t2)
  <2>1. Place(op, Head(s)) < Place(op, "auth_store") /\ Head(s) \notin Quick /\ "auth_store" \in Names
        /\ Place(op, "auth_store") < Place(op, "auth_profiles")
    BY <1>4
  <2>2. \A x \in Left(t2) : Place(op, "auth_store") < Place(op, x)
    BY <1>5, <1>6, <2>1
  <2>9. PushedOn(op, s, t2, {"auth_profiles"} \cup {}, "auth_store")
    BY <1>6, <2>1, <2>2, PushedTo
  <2> QED
    BY <2>9, <1>7 DEF PushedOn
<1>9. {"auth_store"} \cup ({"auth_profiles"} \cup {}) = {"auth_store", "auth_profiles"}
  OBVIOUS
<1>10. Left(t) = {"auth_store", "auth_profiles"} \cup Left(Tail(s))
  BY <1>6, <1>8
<1>11. \A x \in Left(t) : Left(t) \cap Begets(x) = {}
  <2>1. \A x \in {"auth_store", "auth_profiles"} : Begets(x) = {}
    BY DEF Begets
  <2>2. \A x \in Left(Tail(s)) : Begets(x) \cap {"auth_store", "auth_profiles"} = {}
    BY <1>1 DEF Begets
  <2> QED
    BY <1>1, <1>2, <1>10, <2>1, <2>2
<1>12. {"auth_store", "auth_profiles"} \subseteq Own(op) \ Syncs
  BY <1>0, Zenon DEF Own, Syncs, HomeWork
<1>13. Onward(op, s, t, {"auth_store", "auth_profiles"})
  BY <1>8, <1>9
<1>14. Onward(cmd[1], s, t, {"auth_store", "auth_profiles"}) /\ {"auth_store", "auth_profiles"} \subseteq Own(cmd[1]) \ Syncs /\ Head(s) # "done"
  BY <1>0, <1>12, <1>13
<1>15. CourseOK(cmd, t) /\ t # <<>>
  BY <1>11, <1>14, OnwardCourse
<1> QED
  BY <1>14, <1>15

-----------------------------------------------------------------------------
LEMMA EarlyHome ==
  ASSUME Inv, NEW c \in Clis, cli[c].todo # <<>>, cli'[c].cmd = cli[c].cmd,
         NEW E, Onward(cli[c].cmd[1], cli[c].todo, cli'[c].todo, E), "home" \notin E,
         Head(cli[c].todo) \notin Quick, Sooner(c), NEW u
  PROVE  HomeOK(cli'[c], u)
<1>1. CourseOK(cli[c].cmd, cli[c].todo)
  BY Setting
<1>2. Left(cli'[c].todo) = (Left(cli[c].todo) \ {Head(cli[c].todo)}) \cup E
  BY DEF Onward
<1> QED
  BY <1>1, <1>2, HomeLater DEF Sooner

\* Before the bridges are looked after there is nothing to say of them.
LEMMA EarlyBridges ==
  ASSUME Inv, NEW c \in Clis, cli[c].todo # <<>>, cli'[c].cmd = cli[c].cmd,
         NEW E, Onward(cli[c].cmd[1], cli[c].todo, cli'[c].todo, E),
         Head(cli[c].todo) \notin Quick \cup BridgeMarks,
         Place(cli[c].cmd[1], Head(cli[c].todo)) \in 0..20, NEW u, NEW bots
  PROVE  BridgeOK(cli'[c], u, bots)
<1>1. CourseOK(cli[c].cmd, cli[c].todo)
  BY Setting
<1>2. Left(cli'[c].todo) = (Left(cli[c].todo) \ {Head(cli[c].todo)}) \cup E
  BY DEF Onward
<1>3. Syncing(cli[c].cmd) => {"stop_others", "force"} \subseteq Left(cli[c].todo)
  BY <1>1, EarlySync
<1> QED
  BY <1>2, <1>3, BridgeEarly DEF BridgeMarks

LEMMA PushMoves ==
  ASSUME Inv, NEW c \in Clis, cli[c].todo # <<>>, NEW todo, NEW E, NEW t, Alter(c, t, todo),
         TreeOK(t), t.yaml = tree.yaml, t.policy = tree.policy, t.channel = tree.channel,
         tree.state => t.state, tree.made => t.made,
         Onward(cli[c].cmd[1], cli[c].todo, todo, E), CourseOK(cli[c].cmd, todo), todo # <<>>,
         E \cap (Syncs \cup Marks) = {}, Head(cli[c].todo) \notin Marks \cup BridgeMarks,
         \/ HomeOK(cli[c], tree) => HomeOK(cli'[c], t)
         \/ "home" \notin E /\ Head(cli[c].todo) \notin Quick /\ Sooner(c)
  PROVE  Moved(c)
<1>1. CliTable /\ Fields(cli[c])
  BY Setting
<1>2. /\ Only(c) /\ Carries(cli[c], cli'[c], {}) /\ cli'[c].todo = todo /\ tree' = t
      /\ UNCHANGED <<owed, bot, disturbed, scene>>
  BY <1>1, AlterChanges
<1>3. cli'[c].newhome \in Homes /\ Carries(cli[c], cli'[c], {"newhome"}) /\ cli'[c].cmd = cli[c].cmd
  BY <1>1, <1>2, CarriesMore DEF Fields, Carries
<1>4. HomeOK(cli[c], tree) => HomeOK(cli'[c], t)
  <2>1. CASE "home" \notin E /\ Head(cli[c].todo) \notin Quick /\ Sooner(c)
    BY <1>2, <1>3, <2>1, EarlyHome
  <2> QED
    BY <2>1
<1> QED
  BY <1>2, <1>3, <1>4, Proceeds

LEMMA SameTree ==
  ASSUME NEW c, NEW todo, Go(c, todo, [x \in {} |-> 0])
  PROVE  Alter(c, tree, todo)
  BY DEF Go, Alter

LEMMA EarlyChange ==
  ASSUME Inv, NEW c \in Clis, cli[c].todo # <<>>, NEW home \in Homes, ChangeHome(c, home, Rest(c)),
         Kind(c) \in Runners, Head(cli[c].todo) \notin Marks \cup BridgeMarks \cup {"done"} \cup Quick,
         Sooner(c)
  PROVE  Moved(c)
  BY ChangeHomeMoves DEF Sooner

LEMMA EarlyWrite ==
  ASSUME Inv, NEW c \in Clis, cli[c].todo # <<>>, NEW home \in Homes, WriteHome(c, home, Rest(c)),
         Kind(c) \in Runners, Head(cli[c].todo) \notin Marks \cup BridgeMarks \cup {"done"} \cup Quick,
         cli[c].cmd[1] \in {"setup", "run"}, Sooner(c)
  PROVE  Moved(c)
<1>1. CourseOK(cli[c].cmd, cli[c].todo)
  BY Setting
<1>2. /\ Carries(cli[c], cli'[c], {"newhome"}) /\ cli'[c].todo = <<"home">> \o Tail(cli[c].todo)
      /\ cli'[c].newhome.file = "ok" /\ tree'.home[Kind(c)].dir
  <2>1. WriteHome(c, home, Tail(cli[c].todo))
    BY DEF Rest
  <2> QED
    BY <2>1, WriteHomeChanges
<1>3. "home" \in Own(cli[c].cmd[1])
  BY HomeIsWork DEF Own
<1>4. Head(cli[c].todo) # "done" /\ Head(cli[c].todo) \notin Quick
  OBVIOUS
<1>5. LET s == cli[c].todo
      IN  Left(<<"home">> \o Tail(s)) = (Left(s) \ {Head(s)}) \cup {"home"}
  BY <1>1, <1>3, <1>4, HomeIsWork, QuickCourse
<1>6. \A m \in Due(cli[c].cmd) : m \in HomeMarks => m \in Left(cli'[c].todo)
  <2>1. SUFFICES ASSUME NEW m \in Due(cli[c].cmd), m \in HomeMarks PROVE m \in Left(cli'[c].todo)
    OBVIOUS
  <2>2. Place(cli[c].cmd[1], Head(cli[c].todo)) < Place(cli[c].cmd[1], m)
    BY <2>1 DEF Sooner
  <2>3. /\ Place(cli[c].cmd[1], Head(cli[c].todo)) \in 0..40 /\ Place(cli[c].cmd[1], m) \in 0..40
    BY PlaceNat
  <2>4. /\ ~(Place(cli[c].cmd[1], m) < Place(cli[c].cmd[1], Head(cli[c].todo)))
        /\ m # Head(cli[c].todo)
    BY <2>2, <2>3, Later, Zenon
  <2>5. m \in Left(cli[c].todo)
    BY <1>1, <1>4, <2>4, StillDue
  <2> QED
    BY <1>2, <1>5, <2>4, <2>5
<1>7. HomeOK(cli'[c], tree')
  BY <1>2, <1>6 DEF HomeOK, HomeMarks, Carries, Kind
<1> QED
  BY <1>7, WriteHomeMoves

LEMMA AuthTypes ==
  ASSUME NEW home \in Homes, NEW a \in SUBSET Credentials
  PROVE  /\ [home EXCEPT !.tools = Unwired, !.auth = @ \cup a] \in Homes
         /\ [home EXCEPT !.dir = TRUE, !.auth = @ \cup a] \in Homes
         /\ [home EXCEPT !.auth = @ \cup a] \in Homes
  BY DEF Homes, Unwired

LEMMA CopyMoves ==
  ASSUME Inv, NEW c \in Clis, cli[c].todo # <<>>, Head(cli[c].todo) \in {"import", "seed"},
         CopySettings(c) \/ CopyLogin(c)
  PROVE  Moved(c)
<1>1. Head(cli[c].todo) \notin Marks \cup BridgeMarks \cup {"done"} \cup Quick
  BY DEF Marks, BridgeMarks, Quick
<1>2. Kind(c) \in Runners /\ Home(c) \in Homes
  BY AtHome
<1>3. Sooner(c)
  BY <1>1, Soon
<1>4. cli[c].cmd[1] \in {"setup", "run"}
  BY Setting, KindOf
<1>5. {"settings"} \in SUBSET Credentials /\ {"login"} \in SUBSET Credentials
  BY DEF Credentials
<1>6. CASE CopySettings(c)
  <2>1. [Home(c) EXCEPT !.tools = Unwired, !.auth = @ \cup {"settings"}] \in Homes
    BY <1>2, <1>5, AuthTypes, Zenon
  <2> QED
    BY <1>1, <1>2, <1>3, <1>4, <1>6, <2>1, EarlyWrite DEF CopySettings
<1>7. CASE CopyLogin(c)
  <2>1. [Home(c) EXCEPT !.dir = TRUE, !.auth = @ \cup {"login"}] \in Homes
    BY <1>2, <1>5, AuthTypes, Zenon
  <2> QED
    BY <1>1, <1>2, <1>3, <1>7, <2>1, EarlyChange DEF CopyLogin
<1> QED
  BY <1>6, <1>7

LEMMA ImportMoves == ASSUME Inv, NEW c \in Clis, Import(c) PROVE Moved(c)
<1>1. cli[c].todo # <<>> /\ Head(cli[c].todo) = "import"
  BY DEF Import, Doing
<1>2. Kind(c) \in Runners /\ Kind(c) = cli[c].cmd[2]
  BY <1>1, AtHome
<1>3. Pass(c) \/ ImportHome(c) \/ CopySettings(c) \/ CopyLogin(c)
  BY <1>2 DEF Import, Runners
<1>4. CASE Pass(c)
  BY <1>1, <1>4, PlainPass, HeadKinds
<1>5. CASE CopySettings(c) \/ CopyLogin(c)
  BY <1>1, <1>5, CopyMoves
<1>6. CASE ImportHome(c)
  <2> DEFINE home == [NoHome EXCEPT !.dir = TRUE]
  <2> DEFINE t == NewHome(tree, Kind(c), home)
  <2>1. home \in Homes
    BY DefaultTypes DEF Homes
  <2>2. Alter(c, t, <<"clone">> \o Tail(cli[c].todo))
    BY <1>6 DEF ImportHome, ChangeHome, NewHome, Rest
  <2> HIDE DEF home
  <2>3. TreeOK(tree) /\ CourseOK(cli[c].cmd, cli[c].todo) /\ cli[c].cmd[1] = "setup"
    BY <1>1, Setting, KindOf
  <2>4. TreeOK(t) /\ Rehomed(tree, t, Kind(c), home)
    BY <1>2, <2>1, <2>3, ChangedHome
  <2> HIDE DEF t
  <2>5. LET s == cli[c].todo
        IN  /\ Onward(cli[c].cmd[1], s, <<"clone">> \o Tail(s), {"clone"})
            /\ CourseOK(cli[c].cmd, <<"clone">> \o Tail(s)) /\ <<"clone">> \o Tail(s) # <<>>
    BY <1>1, <2>3, PushClone
  <2>6. /\ {"clone"} \cap (Syncs \cup Marks) = {} /\ "home" \notin {"clone"}
        /\ "import" \notin Marks \cup BridgeMarks /\ "import" \notin Quick
    BY DEF Syncs, Marks, BridgeMarks, Quick
  <2>7. Sooner(c)
    BY <1>1, <2>6, Soon
  <2>8. /\ t.yaml = tree.yaml /\ t.policy = tree.policy /\ t.channel = tree.channel
        /\ (tree.state => t.state) /\ (tree.made => t.made)
    BY <2>4 DEF Rehomed
  <2> QED
    BY <1>1, <2>2, <2>4, <2>5, <2>6, <2>7, <2>8, PushMoves
<1> QED
  BY <1>3, <1>4, <1>5, <1>6

LEMMA SeedMoves == ASSUME Inv, NEW c \in Clis, Seed(c) PROVE Moved(c)
<1>1. cli[c].todo # <<>> /\ Head(cli[c].todo) = "seed"
  BY DEF Seed, Doing
<1>2. Pass(c) \/ CopySettings(c) \/ CopyLogin(c)
  BY DEF Seed, SeedSettings, SeedLogin
<1> QED
  BY <1>1, <1>2, CopyMoves, PlainPass, HeadKinds

LEMMA CloneMoves == ASSUME Inv, NEW c \in Clis, Clone(c) PROVE Moved(c)
<1> DEFINE home == Cloned
<1> DEFINE stage == IF home.file = "absent" /\ home.auth = {} THEN cli[c].stage ELSE "imported"
<1>1. /\ cli[c].todo # <<>> /\ Head(cli[c].todo) = "clone"
      /\ Step(c, Tail(cli[c].todo), [stage |-> stage])
      /\ tree' = NewHome(tree, "openclaw", home)
      /\ UNCHANGED <<owed, bot, scene, disturbed>>
  BY DEF Clone, Doing, Rest, Others, NewHome
<1>2. /\ TreeOK(tree) /\ CourseOK(cli[c].cmd, cli[c].todo) /\ CliTable /\ Fields(cli[c])
      /\ scene \in Scenes /\ "openclaw" \in Runners
  BY <1>1, Setting DEF Runners
<1>3. home \in Homes
  <2> DEFINE state == IF "bare" \in scene.host THEN "absent"
                     ELSE IF "unparsable" \in scene.host THEN "torn" ELSE "ok"
  <2> DEFINE auth == IF state = "ok" THEN OnHost ELSE OnHost \ {"model", "config"}
  <2>1. OnHost \subseteq Credentials
    BY DEF OnHost
  <2>2. auth \in SUBSET Credentials /\ state \in {"absent", "torn", "ok"}
    BY <2>1
  <2>3. home = [NoHome EXCEPT !.dir = TRUE, !.file = state, !.auth = auth]
    BY DEF Cloned
  <2> HIDE DEF state, auth, home
  <2> QED
    BY <2>2, <2>3, DefaultTypes DEF Homes
<1> HIDE DEF home, stage
<1>4. TreeOK(tree') /\ Rehomed(tree, tree', "openclaw", home)
  BY <1>1, <1>2, <1>3, ChangedHome
<1>5. Only(c) /\ Becomes(cli[c], Tail(cli[c].todo), [stage |-> stage], cli'[c])
  BY <1>1, <1>2, StepChanges
<1>6. /\ cli'[c].todo = Tail(cli[c].todo) /\ Carries(cli[c], cli'[c], {"stage"})
      /\ cli'[c].stage = cli[c].stage \/ cli'[c].stage = "imported"
  BY <1>5 DEF Becomes, Carries, stage
<1>7. /\ Onward(cli[c].cmd[1], cli[c].todo, cli'[c].todo, {}) /\ CourseOK(cli[c].cmd, cli'[c].todo)
      /\ cli'[c].todo # <<>>
  <2>1. LET s == cli[c].todo
        IN  /\ Onward(cli[c].cmd[1], s, Tail(s), {}) /\ CourseOK(cli[c].cmd, Tail(s)) /\ Tail(s) # <<>>
    BY <1>1, <1>2, PopCourse
  <2> QED
    BY <1>6, <2>1
<1>8. "clone" \notin Marks \cup BridgeMarks \cup Quick /\ Place(cli[c].cmd[1], "clone") = 5
  BY Places DEF Marks, BridgeMarks, Quick
<1>9. SettingsOK(cli[c], tree, owed) => SettingsOK(cli'[c], tree', owed')
  <2>1. Left(cli'[c].todo) = (Left(cli[c].todo) \ {Head(cli[c].todo)}) \cup {} /\ {} \cap Marks = {}
    BY <1>7 DEF Onward
  <2>2. Agree(cli[c], cli'[c], Marks)
    BY <1>1, <1>8, <2>1, Agreement
  <2> QED
    BY <1>1, <1>4, <1>6, <2>2, SettingsFrame DEF Carries, Rehomed
<1>10. HomeOK(cli'[c], tree')
  <2>1. Sooner(c) /\ "home" \notin {} /\ cli'[c].cmd = cli[c].cmd
    BY <1>1, <1>6, <1>8, Soon DEF Carries
  <2> QED
    BY <1>1, <1>7, <1>8, <2>1, EarlyHome
<1>11. BridgeOK(cli'[c], tree', bot)
  <2>1. cli'[c].cmd = cli[c].cmd /\ Place(cli[c].cmd[1], Head(cli[c].todo)) \in 0..20
    BY <1>1, <1>6, <1>8 DEF Carries
  <2> QED
    BY <1>1, <1>7, <1>8, <2>1, EarlyBridges
<1>12. /\ cli'[c].cmd = cli[c].cmd /\ cli'[c].out = cli[c].out /\ cli'[c].cfg.runner = cli[c].cfg.runner
       /\ Fields(cli'[c]) /\ {} \cap Syncs = {} /\ Head(cli[c].todo) # "stop_others"
       /\ cli'[c].stage = cli[c].stage \/ cli'[c].stage \notin {"synced", "unsynced"}
       /\ owed' = owed
  BY <1>1, <1>2, <1>6 DEF Carries, Fields
<1> QED
  BY <1>1, <1>4, <1>5, <1>7, <1>9, <1>10, <1>11, <1>12, Advances DEF Mine

LEMMA BootstrapMoves == ASSUME Inv, NEW c \in Clis, Bootstrap(c) PROVE Moved(c)
<1>1. cli[c].todo # <<>> /\ Head(cli[c].todo) = "bootstrap"
  BY DEF Bootstrap, Doing
<1>2. /\ TreeOK(tree) /\ CliTable /\ BotsOK(bot) /\ bot = [b \in Bots |-> bot[b]]
      /\ cli[c].cmd \in Lines /\ InOrder(cli[c].cmd[1], cli[c].todo) /\ cli[c].cmd[1] = "setup"
  BY <1>1, Setting, KindOf
<1>3. Kind(c) \in Runners /\ Home(c) \in Homes
  BY <1>1, AtHome
<1>4. "bootstrap" \notin Marks \cup BridgeMarks \cup {"done"} \cup Quick
  BY DEF Marks, BridgeMarks, Quick
<1>5. CASE Pass(c)
  BY <1>1, <1>5, PlainPass, HeadKinds
<1>6. CASE ChangeHome(c, [Home(c) EXCEPT !.dir = TRUE, !.file = "ok", !.pinned = TRUE], Rest(c))
  <2>1. [Home(c) EXCEPT !.dir = TRUE, !.file = "ok", !.pinned = TRUE] \in Homes
    BY <1>3 DEF Homes
  <2>2. Sooner(c)
    BY <1>1, <1>4, Soon
  <2> QED
    BY <1>1, <1>3, <1>4, <1>6, <2>1, <2>2, EarlyChange
<1>7. CASE /\ \/ tree' = tree
              \/ tree' = [tree EXCEPT !.made = TRUE,
                                      !.home["openclaw"] = [@ EXCEPT !.dir = TRUE, !.file = "ok"]]
           /\ Ends(c, "failed") /\ UNCHANGED <<owed, Others>>
  <2>1. Only(c) /\ Ended(cli[c], "failed", cli'[c])
    BY <1>2, <1>7, EndChanges
  <2>2. LocalOK(cli'[c])
    BY <2>1, DefaultTypes, Zenon DEF Ended, LocalOK, Fields, Policies
  <2>3. SettingsOK(cli[c], tree, owed) => QuietOK(tree, owed)
    BY <1>1, <1>2, <1>4, Quits DEF Settled
  <2>4. /\ TreeOK(tree') /\ tree'.yaml = tree.yaml /\ tree'.policy = tree.policy
        /\ (tree.made => tree'.made)
    <3> DEFINE home == [tree.home["openclaw"] EXCEPT !.dir = TRUE, !.file = "ok"]
    <3>1. "openclaw" \in Runners /\ tree.home["openclaw"] \in Homes
      BY <1>2 DEF Runners, TreeOK, Trees
    <3>2. home \in Homes
      BY <3>1 DEF Homes
    <3>3. CASE tree' = tree
      BY <1>2, <3>3
    <3>4. CASE tree' = [tree EXCEPT !.made = TRUE,
                                    !.home["openclaw"] = [@ EXCEPT !.dir = TRUE, !.file = "ok"]]
      <4>1. tree' = NewHome(tree, "openclaw", home)
        BY <3>4 DEF NewHome
      <4> HIDE DEF home
      <4>2. TreeOK(tree') /\ Rehomed(tree, tree', "openclaw", home)
        BY <1>2, <3>1, <3>2, <4>1, ChangedHome
      <4> QED
        BY <4>2 DEF Rehomed
    <3> QED
      BY <1>7, <3>3, <3>4
  <2>5. QuietOK(tree, owed) => QuietOK(tree', owed)
    BY <2>4 DEF QuietOK, Stored
  <2>6. UNCHANGED <<owed, bot, scene, disturbed>>
    BY <1>7 DEF Others
  <2> QED
    BY <1>2, <2>1, <2>2, <2>3, <2>4, <2>5, <2>6, Zenon DEF Moved, Mine, Ended
<1> QED
  BY <1>5, <1>6, <1>7 DEF Bootstrap

\* A milestone that is over, and one that is still ahead.
LEMMA Behind ==
  ASSUME Inv, NEW c \in Clis, cli[c].todo # <<>>, NEW m, m # Head(cli[c].todo),
         Place(cli[c].cmd[1], m) < Place(cli[c].cmd[1], Head(cli[c].todo))
  PROVE  m \notin Left(cli[c].todo)
<1>1. InOrder(cli[c].cmd[1], cli[c].todo)
  BY Setting
<1>2. \A x \in Left(cli[c].todo) : \/ x = Head(cli[c].todo)
                                   \/ Place(cli[c].cmd[1], Head(cli[c].todo)) < Place(cli[c].cmd[1], x)
  BY <1>1, Ahead
<1>3. Place(cli[c].cmd[1], m) \in 0..40 /\ Place(cli[c].cmd[1], Head(cli[c].todo)) \in 0..40
  BY PlaceNat
<1>4. ~(Place(cli[c].cmd[1], Head(cli[c].todo)) < Place(cli[c].cmd[1], m))
  BY <1>3, Later, Zenon
<1> QED
  BY <1>2, <1>4

\* What a home that is being written will be.
LEMMA WrittenHome ==
  ASSUME Inv, NEW c \in Clis, cli[c].todo # <<>>, Kind(c) \in Runners, Kind(c) = cli[c].cmd[2],
         NEW home \in Homes, NEW E, NEW todo, WriteHome(c, home, todo),
         Onward(cli[c].cmd[1], cli[c].todo, <<"home">> \o todo, E), "home" \in E,
         Head(cli[c].todo) \notin Quick, Head(cli[c].todo) # "alias", "alias" \notin E,
         HomeOK(cli[c], tree),
         "write_config" \in Due(cli[c].cmd) \ Left(<<"home">> \o todo) =>
            home.tools = Wiring(Kind(c), cli[c].cfg) /\ (Kind(c) = "openclaw" => home.pinned),
         "guard" \in Due(cli[c].cmd) \ Left(<<"home">> \o todo) =>
            home.tools = Wiring(Kind(c), cli[c].cfg)
  PROVE  HomeOK(cli'[c], tree')
<1>1. /\ Carries(cli[c], cli'[c], {"newhome"}) /\ cli'[c].todo = <<"home">> \o todo
      /\ cli'[c].newhome.dir /\ cli'[c].newhome.file = "ok" /\ cli'[c].newhome.tools = home.tools
      /\ cli'[c].newhome.pinned = home.pinned
      /\ tree'.home[Kind(c)].dir /\ tree'.workspace = tree.workspace
  BY WriteHomeChanges
<1>2. Left(cli'[c].todo) = (Left(cli[c].todo) \ {Head(cli[c].todo)}) \cup E
  BY <1>1 DEF Onward
<1>3. "alias" \in Due(cli[c].cmd) \ Left(cli'[c].todo) => tree.workspace
  BY <1>2 DEF HomeOK
<1>4. cli'[c].cmd = cli[c].cmd /\ cli'[c].cfg = cli[c].cfg /\ "home" \in Left(cli'[c].todo)
  BY <1>1, <1>2 DEF Carries
<1> QED
  BY <1>1, <1>3, <1>4 DEF HomeOK, Fits

LEMMA WiredHome ==
  ASSUME NEW home \in Homes, NEW k \in Runners, NEW cfg \in Configs
  PROVE  LET w == [home EXCEPT !.tools = Wiring(k, cfg)]
             p == [w EXCEPT !.pinned = TRUE]
         IN  /\ w \in Homes /\ w.tools = Wiring(k, cfg) /\ w.pinned = home.pinned
             /\ p \in Homes /\ p.tools = Wiring(k, cfg) /\ p.pinned = TRUE
<1>1. Wiring(k, cfg) \in [on : BOOLEAN, port : Nat, wait : Nat]
  BY WiringType
<1> DEFINE tools == Wiring(k, cfg)
<1>2. tools \in [on : BOOLEAN, port : Nat, wait : Nat]
  BY <1>1
<1> HIDE DEF tools
<1>3. LET w == [home EXCEPT !.tools = tools]
          p == [w EXCEPT !.pinned = TRUE]
      IN  /\ w \in Homes /\ w.tools = tools /\ w.pinned = home.pinned
          /\ p \in Homes /\ p.tools = tools /\ p.pinned = TRUE
  BY <1>2 DEF Homes
<1> QED
  BY <1>3 DEF tools

LEMMA WiredFacts ==
  ASSUME Inv, NEW c \in Clis, cli[c].todo # <<>>, Kind(c) \in Runners, Home(c) \in Homes
  PROVE  /\ Wired(c) \in Homes /\ Wired(c).tools = Wiring(Kind(c), cli[c].cfg)
         /\ Wired(c).pinned = Home(c).pinned
         /\ SetUp(c) \in Homes /\ SetUp(c).tools = Wiring(Kind(c), cli[c].cfg) /\ SetUp(c).pinned = TRUE
<1>1. cli[c].cfg \in Configs
  BY Setting DEF Fields
<1> QED
  BY <1>1, WiredHome, Zenon DEF Wired, SetUp, Pinned

\* The rest, with the home to be written before it.
LEMMA HomePush ==
  ASSUME Inv, NEW c \in Clis, cli[c].todo # <<>>, cli[c].cmd[1] \in {"setup", "run"},
         Head(cli[c].todo) \notin Quick, Head(cli[c].todo) # "done"
  PROVE  /\ Onward(cli[c].cmd[1], cli[c].todo, <<"home">> \o Rest(c), {"home"})
         /\ CourseOK(cli[c].cmd, <<"home">> \o Rest(c)) /\ <<"home">> \o Rest(c) # <<>>
<1>1. CourseOK(cli[c].cmd, cli[c].todo) /\ "home" \in Own(cli[c].cmd[1])
  BY HomeIsWork, Setting DEF Own
<1>2. LET s == cli[c].todo
      IN  /\ CourseOK(cli[c].cmd, <<"home">> \o Tail(s)) /\ <<"home">> \o Tail(s) # <<>>
          /\ Onward(cli[c].cmd[1], s, <<"home">> \o Tail(s), {"home"})
  BY <1>1, HomeIsWork, QuickCourse
<1> QED
  BY <1>2 DEF Rest

LEMMA WriteConfigMoves == ASSUME Inv, NEW c \in Clis, WriteRunnerConfig(c) PROVE Moved(c)
<1>1. cli[c].todo # <<>> /\ Head(cli[c].todo) = "write_config"
  BY DEF WriteRunnerConfig, Doing
<1>2. Kind(c) \in Runners /\ Home(c) \in Homes /\ Kind(c) = cli[c].cmd[2] /\ Home(c) = tree.home[Kind(c)]
  BY <1>1, AtHome
<1>3. /\ cli[c].cmd \in Lines /\ cli[c].cmd[1] = "setup" /\ CliTable /\ InOrder(cli[c].cmd[1], cli[c].todo)
  BY <1>1, Setting, KindOf
<1>4. "write_config" \notin Marks \cup BridgeMarks \cup {"done"} \cup Quick
  BY DEF Marks, BridgeMarks, Quick
<1>5. /\ Wired(c) \in Homes /\ Wired(c).tools = Wiring(Kind(c), cli[c].cfg)
      /\ SetUp(c) \in Homes /\ SetUp(c).tools = Wiring(Kind(c), cli[c].cfg) /\ SetUp(c).pinned = TRUE
  BY <1>1, <1>2, WiredFacts
<1>6. "guard" \notin Due(cli[c].cmd)
  BY <1>3 DEF Due
<1>7. CASE Quit(c, "failed")
  BY <1>1, <1>7, OtherQuit, HeadKinds
<1>8. CASE Pass(c) /\ Wired(c) = Home(c) /\ Home(c).file = "ok" /\ Kind(c) # "openclaw"
  <2>1. /\ Carries(cli[c], cli'[c], {}) /\ cli'[c].todo = Tail(cli[c].todo) /\ tree' = tree
    BY <1>3, <1>8, GoChanges DEF Pass, Rest
  <2>2. Left(cli'[c].todo) = (Left(cli[c].todo) \ {Head(cli[c].todo)}) \cup {}
    BY <1>1, <1>4, <2>1, PopLeft
  <2>3. "home" \notin Left(cli[c].todo)
    BY <1>1, <1>3, <1>4, NoQuick DEF Quick
  <2>4. Fits(cli[c].cmd[2], cli[c].cfg, tree.home[cli[c].cmd[2]])
    BY <1>2, <1>5, <1>8 DEF Fits
  <2>5. HomeOK(cli[c], tree) => HomeOK(cli'[c], tree)
    BY <1>1, <1>2, <1>6, <1>8, <2>1, <2>2, <2>3, <2>4 DEF HomeOK, Carries
  <2> QED
    BY <1>1, <1>4, <1>8, <2>5, PassMoves
<1>9. CASE \E home \in {SetUp(c), Wired(c)} :
              WriteHome(c, home, Rest(c)) /\ (Kind(c) = "openclaw" => home = SetUp(c))
  <2>1. PICK home \in {SetUp(c), Wired(c)} :
              WriteHome(c, home, Rest(c)) /\ (Kind(c) = "openclaw" => home = SetUp(c))
    BY <1>9
  <2>2. /\ home \in Homes /\ home.tools = Wiring(Kind(c), cli[c].cfg)
        /\ (Kind(c) = "openclaw" => home.pinned)
    BY <1>5, <2>1
  <2>3. Onward(cli[c].cmd[1], cli[c].todo, <<"home">> \o Rest(c), {"home"})
    BY <1>1, <1>3, <1>4, HomePush
  <2>4. HomeOK(cli[c], tree) => HomeOK(cli'[c], tree')
    BY <1>1, <1>2, <1>4, <1>6, <2>1, <2>2, <2>3, WrittenHome
  <2> QED
    BY <1>1, <1>2, <1>3, <1>4, <2>1, <2>2, <2>4, WriteHomeMoves
<1> QED
  BY <1>7, <1>8, <1>9 DEF WriteRunnerConfig

LEMMA Pairs ==
  ASSUME NEW S, NEW t \in Seq(S), NEW a \in S, NEW b \in S, NEW d \in S
  PROVE  /\ <<a, b>> \o t = <<a>> \o (<<b>> \o t)
         /\ <<a, b, d>> \o t = <<a>> \o (<<b>> \o (<<d>> \o t))
<1>1. /\ <<a>> \in Seq(S) /\ <<b>> \in Seq(S) /\ <<d>> \in Seq(S)
      /\ <<b>> \o t \in Seq(S) /\ <<d>> \o t \in Seq(S) /\ <<b, d>> \in Seq(S)
      /\ <<a, b>> \in Seq(S)
  OBVIOUS
<1>2. <<a, b>> = <<a>> \o <<b>> /\ <<b, d>> = <<b>> \o <<d>> /\ <<a, b, d>> = <<a>> \o <<b, d>>
  <2>1. ASSUME NEW x \in S, NEW y \in S PROVE <<x>> \o <<y>> = <<x, y>>
    <3> DEFINE s == <<x>> \o <<y>>
    <3>1. <<x>> \in Seq(S) /\ <<y>> \in Seq(S) /\ Len(<<x>>) = 1 /\ Len(<<y>>) = 1
      OBVIOUS
    <3>2. /\ s \in Seq(S) /\ Len(s) = 1 + 1
          /\ \A i \in 1 .. 1 + 1 : s[i] = IF i <= 1 THEN <<x>>[i] ELSE <<y>>[i - 1]
      BY <3>1, ConcatProperties
    <3> HIDE DEF s
    <3>3. Len(s) = 2 /\ s[1] = x /\ s[2] = y
      BY <3>2
    <3>4. s = <<x, y>>
      BY <3>2, <3>3
    <3> QED
      BY <3>4 DEF s
  <2>2. <<a, b, d>> = <<a>> \o <<b, d>>
    <3> DEFINE s == <<a>> \o <<b, d>>
    <3>1. <<a>> \in Seq(S) /\ <<b, d>> \in Seq(S) /\ Len(<<a>>) = 1 /\ Len(<<b, d>>) = 2
      OBVIOUS
    <3>2. /\ s \in Seq(S) /\ Len(s) = 1 + 2
          /\ \A i \in 1 .. 1 + 2 : s[i] = IF i <= 1 THEN <<a>>[i] ELSE <<b, d>>[i - 1]
      BY <3>1, ConcatProperties
    <3> HIDE DEF s
    <3>3. Len(s) = 3 /\ s[1] = a /\ s[2] = b /\ s[3] = d
      BY <3>2
    <3>4. s = <<a, b, d>>
      BY <3>2, <3>3
    <3> QED
      BY <3>4 DEF s
  <2> QED
    BY <2>1, <2>2
<1>3. /\ (<<a>> \o <<b>>) \o t = <<a>> \o (<<b>> \o t)
      /\ (<<a>> \o <<b, d>>) \o t = <<a>> \o (<<b, d>> \o t)
      /\ (<<b>> \o <<d>>) \o t = <<b>> \o (<<d>> \o t)
  BY <1>1, ConcatAssociative
<1> QED
  BY <1>2, <1>3

\* The credentials of a home.
LEMMA HomeAltered ==
  ASSUME NEW me, NEW you, NEW t, NEW u, NEW E, Carries(me, you, {}),
         Left(you.todo) = (Left(me.todo) \ {Head(me.todo)}) \cup E, "home" \notin Left(me.todo),
         Head(me.todo) \notin HomeMarks, E \cap HomeMarks = {},
         NEW k, k = me.cmd[2], u.home[k].file = t.home[k].file, u.home[k].tools = t.home[k].tools,
         u.home[k].pinned = t.home[k].pinned, u.home[k].dir, t.workspace => u.workspace
  PROVE  HomeOK(me, t) => HomeOK(you, u)
<1>1. Agree(me, you, HomeMarks)
  BY Agreement
<1>2. /\ "home" \in Left(you.todo) <=> "home" \in Left(me.todo)
      /\ "write_config" \in Left(you.todo) <=> "write_config" \in Left(me.todo)
      /\ "alias" \in Left(you.todo) <=> "alias" \in Left(me.todo)
      /\ "guard" \in Left(you.todo) <=> "guard" \in Left(me.todo)
  BY <1>1 DEF Agree, HomeMarks
<1> QED
  BY <1>2 DEF HomeOK, Fits, Carries

LEMMA StoreMoves ==
  ASSUME Inv, NEW c \in Clis, cli[c].todo # <<>>, Head(cli[c].todo) \in {"auth_store", "auth_profiles"},
         NEW home \in Homes, ChangeHome(c, home, Rest(c)),
         home.dir, home.file = Home(c).file, home.tools = Home(c).tools, home.pinned = Home(c).pinned
  PROVE  Moved(c)
<1>1. Kind(c) \in Runners /\ Kind(c) = cli[c].cmd[2] /\ Home(c) = tree.home[Kind(c)]
  BY AtHome DEF HomeWork
<1>2. TreeOK(tree) /\ CliTable /\ InOrder(cli[c].cmd[1], cli[c].todo)
  BY Setting
<1>3. /\ Head(cli[c].todo) \notin Marks \cup BridgeMarks \cup {"done"} \cup Quick
      /\ Head(cli[c].todo) \notin HomeMarks
  BY DEF Marks, BridgeMarks, Quick, HomeMarks
<1> DEFINE t == NewHome(tree, Kind(c), home)
<1>4. Alter(c, t, Rest(c))
  BY DEF ChangeHome, NewHome
<1>5. TreeOK(t) /\ Rehomed(tree, t, Kind(c), home) /\ t.workspace = tree.workspace
  BY <1>1, <1>2, ChangedHome
<1> HIDE DEF t
<1>6. t.home[Kind(c)] = home
  BY <1>1, <1>2, <1>5 DEF Rehomed, TreeOK, Trees
<1>7. tree' = t /\ Carries(cli[c], cli'[c], {}) /\ cli'[c].todo = Tail(cli[c].todo)
  BY <1>2, <1>4, AlterChanges DEF Rest
<1>8. Left(cli'[c].todo) = (Left(cli[c].todo) \ {Head(cli[c].todo)}) \cup {}
  BY <1>3, <1>7, PopLeft
<1>9. "home" \notin Left(cli[c].todo) /\ {} \cap HomeMarks = {}
  BY <1>2, <1>3, NoQuick DEF Quick
<1>10. HomeOK(cli[c], tree) => HomeOK(cli'[c], tree')
  BY <1>1, <1>3, <1>5, <1>6, <1>7, <1>8, <1>9, HomeAltered
<1> QED
  BY <1>1, <1>3, <1>10, ChangeHomeMoves

LEMMA StoreKeyMoves == ASSUME Inv, NEW c \in Clis, StoreKey(c) PROVE Moved(c)
<1> DEFINE home == [Home(c) EXCEPT !.dir = TRUE, !.auth = @ \cup {"store"}]
<1>1. cli[c].todo # <<>> /\ Head(cli[c].todo) = "auth_store" /\ ChangeHome(c, home, Rest(c))
  BY DEF StoreKey, Doing
<1>2. Home(c) \in Homes
  BY <1>1, AtHome DEF HomeWork
<1>3. /\ home \in Homes /\ home.dir /\ home.file = Home(c).file /\ home.tools = Home(c).tools
      /\ home.pinned = Home(c).pinned
  BY <1>2 DEF Homes, Credentials
<1> HIDE DEF home
<1> QED
  BY <1>1, <1>3, StoreMoves

LEMMA StoreProfileMoves == ASSUME Inv, NEW c \in Clis, StoreProfile(c) PROVE Moved(c)
<1> DEFINE home == [Home(c) EXCEPT !.dir = TRUE, !.auth = (@ \cup {"profiles"}) \ {"legacy"}]
<1>1. cli[c].todo # <<>> /\ Head(cli[c].todo) = "auth_profiles" /\ ChangeHome(c, home, Rest(c))
  BY DEF StoreProfile, Doing
<1>2. Home(c) \in Homes
  BY <1>1, AtHome DEF HomeWork
<1>3. /\ home \in Homes /\ home.dir /\ home.file = Home(c).file /\ home.tools = Home(c).tools
      /\ home.pinned = Home(c).pinned
  BY <1>2 DEF Homes, Credentials
<1> HIDE DEF home
<1> QED
  BY <1>1, <1>3, StoreMoves

LEMMA RepairMoves == ASSUME Inv, NEW c \in Clis, RepairAuth(c) PROVE Moved(c)
<1>1. cli[c].todo # <<>> /\ Head(cli[c].todo) = "repair_auth"
  BY DEF RepairAuth, Doing
<1>2. Kind(c) \in Runners /\ Home(c) \in Homes /\ Kind(c) = cli[c].cmd[2] /\ Home(c) = tree.home[Kind(c)]
  BY <1>1, AtHome DEF HomeWork
<1>3. /\ CourseOK(cli[c].cmd, cli[c].todo) /\ InOrder(cli[c].cmd[1], cli[c].todo) /\ CliTable
      /\ TreeOK(tree) /\ cli[c].todo \in Seq(Names) /\ cli[c].cmd[1] \in {"setup", "run"}
  BY <1>1, Setting, KindOf DEF HomeWork, InOrder
<1>4. /\ "repair_auth" \notin Marks \cup BridgeMarks \cup {"done"} \cup Quick
      /\ "repair_auth" \notin HomeMarks
  BY DEF Marks, BridgeMarks, Quick, HomeMarks
<1> DEFINE todo == <<"auth_store">> \o (<<"auth_profiles">> \o Tail(cli[c].todo))
<1>5. <<"auth_store", "auth_profiles">> \o Rest(c) = todo
  <2>1. Tail(cli[c].todo) \in Seq(Names) /\ "auth_store" \in Names /\ "auth_profiles" \in Names
    BY <1>1, <1>3 DEF Names, HomeWork
  <2> QED
    BY <2>1, Pairs DEF Rest
<1>6. /\ Onward(cli[c].cmd[1], cli[c].todo, todo, {"auth_store", "auth_profiles"})
      /\ CourseOK(cli[c].cmd, todo) /\ todo # <<>>
      /\ {"auth_store", "auth_profiles"} \subseteq Own(cli[c].cmd[1]) \ Syncs
  BY <1>1, <1>3, PushAuth
<1> HIDE DEF todo
<1>7. CASE Pass(c)
  BY <1>1, <1>7, PlainPass, HeadKinds
<1>8. CASE Quit(c, "failed")
  BY <1>1, <1>8, OtherQuit, HeadKinds
<1>9. CASE Go(c, todo, [x \in {} |-> 0])
  <2>1. Alter(c, tree, todo)
    BY <1>9, SameTree
  <2>2. /\ Carries(cli[c], cli'[c], {}) /\ cli'[c].todo = todo
    BY <1>3, <2>1, AlterChanges
  <2>3. /\ {"auth_store", "auth_profiles"} \cap HomeMarks = {}
        /\ {"auth_store", "auth_profiles"} \cap (Syncs \cup Marks) = {}
    BY DEF HomeMarks, Syncs, Marks
  <2>4. Left(cli'[c].todo) = (Left(cli[c].todo) \ {Head(cli[c].todo)}) \cup {"auth_store", "auth_profiles"}
    BY <1>6, <2>2 DEF Onward
  <2>5. HomeOK(cli[c], tree) => HomeOK(cli'[c], tree)
    BY <1>1, <1>4, <2>2, <2>3, <2>4, HomeKept
  <2> QED
    BY <1>1, <1>3, <1>4, <1>6, <2>1, <2>3, <2>5, PushMoves
<1>10. CASE /\ Repairable(Home(c))
            /\ WriteHome(c, [Home(c) EXCEPT !.auth = @ \cup {"config"}], todo)
  <2> DEFINE home == [Home(c) EXCEPT !.auth = @ \cup {"config"}]
  <2>1. /\ home \in Homes /\ home.file = "ok" /\ home.tools = Home(c).tools
        /\ home.pinned = Home(c).pinned
    BY <1>2, <1>10, Zenon DEF Homes, Credentials, Repairable
  <2>2. WriteHome(c, home, todo)
    BY <1>10
  <2> HIDE DEF home
  <2>3. /\ Only(c) /\ Carries(cli[c], cli'[c], {"newhome"}) /\ cli'[c].todo = <<"home">> \o todo
        /\ cli'[c].newhome \in Homes
        /\ TreeOK(tree') /\ tree'.yaml = tree.yaml /\ tree'.policy = tree.policy
        /\ tree'.channel = tree.channel
        /\ (tree.state => tree'.state) /\ (tree.made => tree'.made)
        /\ UNCHANGED <<owed, bot, scene, disturbed>>
    BY <1>1, <1>2, <2>1, <2>2, WriteHomeChanges
  <2> DEFINE E == {"home"} \cup {"auth_store", "auth_profiles"}
  <2>4. /\ Onward(cli[c].cmd[1], cli[c].todo, <<"home">> \o todo, E)
        /\ CourseOK(cli[c].cmd, <<"home">> \o todo) /\ <<"home">> \o todo # <<>>
    <3>1. /\ "home" \in Own(cli[c].cmd[1]) /\ "home" \in {"yaml", "policy", "home"}
          /\ {"auth_store", "auth_profiles"} \cap {"yaml", "policy", "home"} = {}
          /\ Head(cli[c].todo) \notin Quick /\ Head(cli[c].todo) # "done"
      BY <1>1, <1>3, <1>4, HomeIsWork DEF Own
    <3> QED
      BY <1>1, <1>3, <1>6, <3>1, QuickOn
  <2>5. E \cap (Syncs \cup Marks) = {} /\ "home" \in E /\ "alias" \notin E
    BY DEF Syncs, Marks
  <2>6. Left(<<"home">> \o todo) = (Left(cli[c].todo) \ {"repair_auth"}) \cup E
    BY <1>1, <2>4 DEF Onward
  <2> HIDE DEF E
  <2>7. ASSUME HomeOK(cli[c], tree) PROVE HomeOK(cli'[c], tree')
    <3>1. "home" \notin Left(cli[c].todo)
      BY <1>1, <1>3, <1>4, NoQuick DEF Quick
    <3>2. /\ "write_config" \in Due(cli[c].cmd) \ Left(cli[c].todo) =>
               /\ Home(c).tools = Wiring(Kind(c), cli[c].cfg)
               /\ Kind(c) = "openclaw" => Home(c).pinned
          /\ "guard" \in Due(cli[c].cmd) \ Left(cli[c].todo) =>
               Home(c).tools = Wiring(Kind(c), cli[c].cfg)
      BY <1>2, <1>10, <2>7, <3>1, Zenon DEF HomeOK, Fits, Repairable
    <3>3. /\ "write_config" \notin Left(<<"home">> \o todo) => "write_config" \notin Left(cli[c].todo)
          /\ "guard" \notin Left(<<"home">> \o todo) => "guard" \notin Left(cli[c].todo)
      BY <2>6
    <3>4. /\ "write_config" \in Due(cli[c].cmd) \ Left(<<"home">> \o todo) =>
               home.tools = Wiring(Kind(c), cli[c].cfg) /\ (Kind(c) = "openclaw" => home.pinned)
          /\ "guard" \in Due(cli[c].cmd) \ Left(<<"home">> \o todo) =>
               home.tools = Wiring(Kind(c), cli[c].cfg)
      BY <2>1, <3>2, <3>3
    <3>5. Head(cli[c].todo) \notin Quick /\ Head(cli[c].todo) # "alias"
      BY <1>1, <1>4
    <3> QED
      BY <1>1, <1>2, <2>1, <2>2, <2>4, <2>5, <2>7, <3>4, <3>5, WrittenHome
  <2>8. Head(cli[c].todo) \notin Marks \cup BridgeMarks
    BY <1>1, <1>4
  <2> QED
    BY <1>1, <2>3, <2>4, <2>5, <2>7, <2>8, Proceeds, Zenon
<1> QED
  BY <1>5, <1>7, <1>8, <1>9, <1>10 DEF RepairAuth, Same

LEMMA GuardMoves == ASSUME Inv, NEW c \in Clis, Guard(c) PROVE Moved(c)
<1>1. cli[c].todo # <<>> /\ Head(cli[c].todo) = "guard"
  BY DEF Guard, Doing
<1>2. Kind(c) \in Runners /\ Home(c) \in Homes /\ Kind(c) = cli[c].cmd[2] /\ Home(c) = tree.home[Kind(c)]
  BY <1>1, AtHome DEF HomeWork
<1>3. /\ InOrder(cli[c].cmd[1], cli[c].todo) /\ CliTable /\ cli[c].cmd[1] \in {"setup", "run"}
      /\ cli[c].cmd \in Lines
  BY <1>1, Setting, KindOf DEF HomeWork
<1>4. "guard" \notin Marks \cup BridgeMarks \cup {"done"} \cup Quick
  BY DEF Marks, BridgeMarks, Quick
<1>5. /\ Wired(c) \in Homes /\ Wired(c).tools = Wiring(Kind(c), cli[c].cfg)
      /\ Wired(c).pinned = Home(c).pinned
  BY <1>1, <1>2, WiredFacts
<1>6. "home" \notin Left(cli[c].todo)
  BY <1>1, <1>3, <1>4, NoQuick DEF Quick
<1>7. CASE Quit(c, "failed")
  BY <1>1, <1>7, OtherQuit, HeadKinds
<1>8. CASE /\ Pass(c)
           /\ \/ Home(c).file = "torn" \/ (Home(c).file = "absent" /\ Kind(c) = "openclaw")
              \/ Home(c).file = "ok" /\ Home(c) = Wired(c)
  <2>1. /\ Carries(cli[c], cli'[c], {}) /\ cli'[c].todo = Tail(cli[c].todo) /\ tree' = tree
    BY <1>3, <1>8, GoChanges DEF Pass, Rest
  <2>2. Left(cli'[c].todo) = (Left(cli[c].todo) \ {Head(cli[c].todo)}) \cup {}
    BY <1>1, <1>4, <2>1, PopLeft
  <2>3. LET k == cli[c].cmd[2]
            h == tree.home[k]
        IN  Fits(k, cli[c].cfg, h) \/ h.file = "torn" \/ (h.file = "absent" /\ k = "openclaw")
    BY <1>2, <1>5, <1>8 DEF Fits
  <2>4. HomeOK(cli[c], tree) => HomeOK(cli'[c], tree)
    BY <1>1, <1>6, <2>1, <2>2, <2>3 DEF HomeOK, Carries
  <2> QED
    BY <1>1, <1>4, <1>8, <2>4, PassMoves
<1>9. CASE WriteHome(c, Wired(c), Rest(c))
  <2>1. Onward(cli[c].cmd[1], cli[c].todo, <<"home">> \o Rest(c), {"home"})
    BY <1>1, <1>3, <1>4, HomePush
  <2>2. Left(<<"home">> \o Rest(c)) = (Left(cli[c].todo) \ {"guard"}) \cup {"home"}
    BY <1>1, <2>1 DEF Onward
  <2>3. ASSUME HomeOK(cli[c], tree) PROVE HomeOK(cli'[c], tree')
    <3>1. "write_config" \in Due(cli[c].cmd) \ Left(<<"home">> \o Rest(c)) =>
            (Kind(c) = "openclaw" => Wired(c).pinned)
      BY <1>2, <1>5, <1>6, <2>2, <2>3 DEF HomeOK
    <3> QED
      BY <1>1, <1>2, <1>4, <1>5, <1>9, <2>1, <2>3, <3>1, WrittenHome
  <2> QED
    BY <1>1, <1>2, <1>3, <1>4, <1>5, <1>9, <2>3, WriteHomeMoves
<1> QED
  BY <1>7, <1>8, <1>9 DEF Guard, IsWired

LEMMA ValidateMoves == ASSUME Inv, NEW c \in Clis, Validate(c) PROVE Moved(c)
<1>1. cli[c].todo # <<>> /\ Head(cli[c].todo) = "validate"
  BY DEF Validate, Doing
<1>2. Kind(c) \in Runners /\ Home(c) \in Homes /\ Kind(c) = cli[c].cmd[2] /\ Home(c) = tree.home[Kind(c)]
  BY <1>1, AtHome
<1>3. /\ TreeOK(tree) /\ CliTable /\ BotsOK(bot) /\ bot = [b \in Bots |-> bot[b]]
      /\ cli[c].cmd \in Lines /\ InOrder(cli[c].cmd[1], cli[c].todo) /\ cli[c].cmd[1] = "setup"
      /\ cli[c].cmd = <<cli[c].cmd[1], cli[c].cmd[2]>>
  BY <1>1, Setting, KindOf, LineKinds
<1>4. CASE Pass(c)
  BY <1>1, <1>4, PlainPass, HeadKinds
<1>5. CASE ~Valid(Kind(c), cli[c].cfg) /\ Quit(c, "invalid")
  <2>1. Only(c) /\ Ended(cli[c], "invalid", cli'[c]) /\ UNCHANGED <<tree, owed, bot, disturbed, scene>>
    BY <1>3, <1>5, EndChanges DEF Quit, Others
  <2>2. LocalOK(cli'[c])
    BY <2>1, DefaultTypes, Zenon DEF Ended, LocalOK, Fields, Policies
  <2>3. ASSUME HomeOK(cli[c], tree) PROVE FALSE
    <3>1. /\ Place(cli[c].cmd[1], "validate") = 15 /\ Place(cli[c].cmd[1], "write_config") = 7
          /\ Place(cli[c].cmd[1], "alias") = (IF cli[c].cmd[1] = "run" THEN 30 ELSE 13)
      BY Places
    <3>2. "write_config" \notin Left(cli[c].todo) /\ "alias" \notin Left(cli[c].todo)
      <4>1. /\ Place(cli[c].cmd[1], "write_config") < Place(cli[c].cmd[1], Head(cli[c].todo))
            /\ Place(cli[c].cmd[1], "alias") < Place(cli[c].cmd[1], Head(cli[c].todo))
            /\ "write_config" # Head(cli[c].todo) /\ "alias" # Head(cli[c].todo)
        BY <1>1, <1>3, <3>1
      <4> QED
        BY <1>1, <4>1, Behind
    <3>3. "home" \notin Left(cli[c].todo)
      BY <1>1, <1>3, NoQuick DEF Quick
    <3>4. CASE Kind(c) = "claudecode"
      BY <1>5, <3>4 DEF Valid
    <3>5. CASE Kind(c) = "opencode"
      <4>1. "write_config" \in Due(cli[c].cmd)
        BY <1>2, <1>3, <3>5 DEF Due
      <4>2. Fits(Kind(c), cli[c].cfg, tree.home[Kind(c)])
        BY <1>2, <2>3, <3>2, <3>3, <4>1 DEF HomeOK
      <4> QED
        BY <1>5, <3>5, <4>2 DEF Valid, ValidGovernance, Fits, Wiring
    <3>6. CASE Kind(c) = "openclaw"
      <4>1. "write_config" \in Due(cli[c].cmd) /\ "alias" \in Due(cli[c].cmd)
        BY <1>2, <1>3, <3>6 DEF Due
      <4>2. /\ Fits(Kind(c), cli[c].cfg, tree.home[Kind(c)])
            /\ tree.home[Kind(c)].pinned /\ tree.home[Kind(c)].dir /\ tree.workspace
        BY <1>2, <2>3, <3>2, <3>3, <3>6, <4>1 DEF HomeOK
      <4> QED
        BY <1>5, <3>6, <4>2 DEF Valid, ValidOpenclaw, ValidPins, ValidPlugin, Fits, Wiring
    <3> QED
      BY <1>2, <3>4, <3>5, <3>6 DEF Runners
  <2> QED
    BY <1>3, <2>1, <2>2, <2>3 DEF Moved, Mine
<1> QED
  BY <1>4, <1>5 DEF Validate

-----------------------------------------------------------------------------
\* Writing config.yaml.
TornYaml(t) == [t EXCEPT !.yaml.state = "torn"]
Halved(t, u) ==
    /\ u.yaml.state = "torn" /\ u.policy = t.policy /\ u.state = t.state /\ u.made = t.made
    /\ u.channel = t.channel /\ u.home = t.home /\ u.workspace = t.workspace
LEMMA TornFacts == ASSUME NEW t, TreeOK(t) PROVE TreeOK(TornYaml(t)) /\ Halved(t, TornYaml(t))
<1> DEFINE y == [t.yaml EXCEPT !.state = "torn"]
<1> DEFINE u == TornYaml(t)
<1>1. t.yaml \in [state : {"absent", "torn", "ok"}, cfg : Configs]
  BY DEF TreeOK, Trees
<1>2. y \in [state : {"absent", "torn", "ok"}, cfg : Configs] /\ y.state = "torn"
  BY <1>1
<1>3. u = [t EXCEPT !.yaml = y]
  BY DEF TornYaml
<1> HIDE DEF y, u
<1>4. u \in Trees /\ u.yaml = y
  BY <1>2, <1>3 DEF TreeOK, Trees
<1>5. /\ u.policy = t.policy /\ u.state = t.state /\ u.made = t.made
      /\ u.channel = t.channel /\ u.home = t.home /\ u.workspace = t.workspace
  BY <1>3 DEF TreeOK, Trees
<1>6. TreeOK(u) /\ Halved(t, u)
  BY <1>2, <1>4, <1>5 DEF TreeOK, Halved
<1> QED
  BY <1>6 DEF u

WritingOps == {"setup", "remove", "status", "run", "update"}
LEMMA WritingOwn ==
  \A op \in WritingOps : /\ "yaml" \in Own(op) /\ "vacant" \notin Own(op) /\ "remove_dir" \notin Own(op)
                         /\ op # "keep"
  BY DEF WritingOps, Own, DropSteps, HomeWork, Syncs

LEMMA PastLoad == \A op, x : x \notin Quick \cup {"vacant", "load"} => 2 < Place(op, x)
  BY DEF Place, Quick

LEMMA Below20 == \A n \in 0..40 : n < 20 => n \in 0..20
  OBVIOUS

SavedMarks(S, T, E) ==
    /\ "load" \in T <=> "load" \in S
    /\ "yaml" \in T /\ "policy" \notin T /\ "policy" \notin S /\ "stored" \notin S
    /\ "yaml" \notin S /\ ("stored" \in T <=> "stored" \in E)
LEMMA SaveMarks ==
  ASSUME NEW S, NEW T, NEW h, NEW E, T = (S \ {h}) \cup ({"yaml"} \cup E), h \notin Marks,
         E \cap Marks \subseteq {"stored"}, S \cap Quick = {}
  PROVE  SavedMarks(S, T, E)
<1>1. /\ "load" \in Marks /\ "yaml" \in Marks /\ "policy" \in Marks /\ "stored" \in Marks
      /\ "yaml" \in Quick /\ "policy" \in Quick /\ "stored" \in Quick
  BY DEF Marks, Quick
<1>2. "load" \in T <=> "load" \in S
  BY <1>1
<1>3. "policy" \notin T /\ "policy" \notin S /\ "stored" \notin S /\ "yaml" \notin S
  BY <1>1
<1> QED
  BY <1>1, <1>2, <1>3 DEF SavedMarks

LEMMA SavesMoves ==
  ASSUME Inv, NEW c \in Clis, cli[c].todo # <<>>, cli[c].cmd[1] \in WritingOps,
         Head(cli[c].todo) \notin Marks \cup BridgeMarks \cup {"done"} \cup Quick,
         Place(cli[c].cmd[1], Head(cli[c].todo)) < 20,
         NEW cfg \in Configs, NEW todo, NEW ch, WriteYaml(c, cfg, todo, ch),
         ch = [cfg |-> cfg] \/ ch = [cfg |-> cfg, stage |-> ""],
         NEW E, Onward(cli[c].cmd[1], cli[c].todo, todo, E), CourseOK(cli[c].cmd, todo),
         E \subseteq Own(cli[c].cmd[1]) \ Syncs, E \cap Marks \subseteq {"stored"}, "home" \notin E,
         "stored" \in E \/ (cfg.bind = cli[c].cfg.bind /\ cfg.wait = cli[c].cfg.wait),
         \/ Sooner(c)
         \/ /\ cfg.bind = cli[c].cfg.bind /\ cfg.wait = cli[c].cfg.wait
            /\ Head(cli[c].todo) \notin HomeMarks /\ E = {} /\ cli[c].cmd[2] \in Runners
  PROVE  Moved(c)
<1>1. /\ CliTable /\ TreeOK(tree) /\ Fields(cli[c]) /\ CourseOK(cli[c].cmd, cli[c].todo)
      /\ InOrder(cli[c].cmd[1], cli[c].todo)
  BY Setting, Zenon
<1>2. /\ "yaml" \in Own(cli[c].cmd[1]) /\ cli[c].cmd[1] # "keep"
      /\ "vacant" \notin Own(cli[c].cmd[1]) /\ "remove_dir" \notin Own(cli[c].cmd[1])
  BY WritingOwn, Zenon
<1>3. CASE ~tree.state
  <2>1. Quit(c, "failed")
    BY <1>3, Zenon DEF WriteYaml
  <2> QED
    BY <1>2, <2>1, QuitMoves, Zenon DEF Settled
<1>4. CASE tree.state
  <2> DEFINE F == {"yaml"} \cup E
  <2> DEFINE S == Left(cli[c].todo)
  <2> DEFINE T == Left(cli'[c].todo)
  <2>1. /\ tree' = TornYaml(tree) /\ Step(c, <<"yaml">> \o todo, YamlChanges(ch, cfg))
        /\ UNCHANGED <<owed, bot, scene, disturbed>>
    BY <1>4, Zenon DEF WriteYaml, TornYaml, YamlChanges, Others
  <2>2. TreeOK(tree') /\ Halved(tree, tree')
    BY <1>1, <2>1, TornFacts, Zenon
  <2>3. Only(c) /\ Becomes(cli[c], <<"yaml">> \o todo, YamlChanges(ch, cfg), cli'[c])
    BY <1>1, <2>1, StepChanges, Zenon
  <2>4. /\ cli'[c].todo = <<"yaml">> \o todo /\ cli'[c].newcfg = cfg /\ cli'[c].cfg = cfg
        /\ cli'[c].stage \in {cli[c].stage, ""} /\ cli'[c].cmd = cli[c].cmd /\ cli'[c].out = cli[c].out
        /\ cli'[c].pol = cli[c].pol /\ cli'[c].newpol = cli[c].newpol
        /\ cli'[c].newhome = cli[c].newhome
    <3>1. CASE ch = [cfg |-> cfg]
      BY <2>3, <3>1 DEF Becomes, YamlChanges
    <3>2. CASE ch = [cfg |-> cfg, stage |-> ""]
      BY <2>3, <3>2, Zenon DEF Becomes, YamlChanges
    <3> QED
      BY <3>1, <3>2, Zenon
  <2>5. /\ Onward(cli[c].cmd[1], cli[c].todo, cli'[c].todo, F) /\ CourseOK(cli[c].cmd, cli'[c].todo)
        /\ cli'[c].todo # <<>> /\ F \subseteq Own(cli[c].cmd[1]) \ Syncs
    <3>1. /\ "yaml" \in {"yaml", "policy", "home"} /\ E \cap {"yaml", "policy", "home"} = {}
          /\ Head(cli[c].todo) \notin Quick /\ Head(cli[c].todo) # "done"
      BY Zenon DEF Marks
    <3>2. /\ Onward(cli[c].cmd[1], cli[c].todo, <<"yaml">> \o todo, {"yaml"} \cup E)
          /\ CourseOK(cli[c].cmd, <<"yaml">> \o todo) /\ <<"yaml">> \o todo # <<>>
          /\ {"yaml"} \cup E \subseteq Own(cli[c].cmd[1]) \ Syncs
      BY <1>1, <1>2, <3>1, QuickOn, Zenon
    <3> QED
      BY <2>4, <3>2, Zenon
  <2>6. T = (S \ {Head(cli[c].todo)}) \cup F /\ "yaml" \in F /\ F \cap Marks \subseteq {"yaml", "stored"}
    BY <2>5, Zenon DEF Onward
  <2>7. S \cap Quick = {}
    BY <1>1, NoQuick, Zenon
  <2>8. SettingsOK(cli[c], tree, owed) => SettingsOK(cli'[c], tree', owed')
    <3>0. SUFFICES ASSUME SettingsOK(cli[c], tree, owed) PROVE SettingsOK(cli'[c], tree', owed)
      BY <2>1, Zenon
    <3> HIDE DEF S, T, F
    <3>1. /\ "load" \in T <=> "load" \in S
          /\ "yaml" \in T /\ "policy" \notin T /\ "policy" \notin S /\ "stored" \notin S /\ "yaml" \notin S
          /\ "stored" \in T <=> "stored" \in E
      <4>1. T = (S \ {Head(cli[c].todo)}) \cup ({"yaml"} \cup E) /\ Head(cli[c].todo) \notin Marks
        BY <2>6, Zenon DEF F
      <4>2. SavedMarks(S, T, E)
        BY <2>7, <4>1, SaveMarks, Zenon
      <4> QED
        BY <4>2, Zenon DEF SavedMarks
    <3>2. "load" \notin S
      <4>1. Head(cli[c].todo) \notin Quick \cup {"vacant", "load"} /\ "load" # Head(cli[c].todo)
        BY Zenon DEF Marks
      <4>2. Place(cli[c].cmd[1], "load") = 2
        BY Places, Zenon
      <4>3. Place(cli[c].cmd[1], "load") < Place(cli[c].cmd[1], Head(cli[c].todo))
        BY <4>1, <4>2, PastLoad, Zenon
      <4> QED
        BY <4>1, <4>3, Behind, Zenon DEF S
    <3>4. "vacant" \notin T /\ "remove_dir" \notin T /\ "load" \notin T
      <4>1. T \subseteq Own(cli[c].cmd[1])
        BY <2>5, Zenon DEF T, CourseOK
      <4> QED
        BY <1>2, <3>1, <3>2, <4>1, Zenon
    <3>5. LoadedOK(cli[c], tree, owed)
      BY <3>0, <3>2, Zenon DEF SettingsOK, S, WritingOps
    <3>6. LoadedOK(cli'[c], tree', owed)
      BY <2>2, <2>4, <3>1, <3>5, Zenon DEF LoadedOK, Halved, S, T, SameSettings
    <3> QED
      BY <2>4, <3>1, <3>4, <3>6, <1>2, Zenon DEF SettingsOK, T, WritingOps
  <2>9. HomeOK(cli[c], tree) => HomeOK(cli'[c], tree')
    <3>1. CASE Sooner(c)
      <4>1. "home" \notin F /\ Head(cli[c].todo) \notin Quick
        BY Zenon
      <4> QED
        BY <2>4, <2>5, <3>1, <4>1, EarlyHome, Zenon
    <3>2. CASE /\ cfg.bind = cli[c].cfg.bind /\ cfg.wait = cli[c].cfg.wait
               /\ Head(cli[c].todo) \notin HomeMarks /\ E = {} /\ cli[c].cmd[2] \in Runners
      <4>1. Agree(cli[c], cli'[c], HomeMarks)
        <5>1. F \cap HomeMarks = {}
          BY <3>2, Zenon DEF HomeMarks
        <5> QED
          BY <2>6, <3>2, <5>1, Agreement, Zenon
      <4>2. Wiring(cli[c].cmd[2], cli'[c].cfg) = Wiring(cli[c].cmd[2], cli[c].cfg)
        <5>1. Wiring(cli[c].cmd[2], cfg) = Wiring(cli[c].cmd[2], cli[c].cfg)
          BY <3>2, WiringSettings, Zenon
        <5> QED
          BY <2>4, <5>1, Zenon
      <4>3. tree'.home[cli[c].cmd[2]] = tree.home[cli[c].cmd[2]] /\ (tree.workspace => tree'.workspace)
        BY <2>2, Zenon DEF Halved
      <4> QED
        BY <2>4, <4>1, <4>2, <4>3, HomeFrame, Zenon
    <3> QED
      BY <3>1, <3>2, Zenon
  <2>10. BridgeOK(cli'[c], tree', bot)
    <3>1. Place(cli[c].cmd[1], Head(cli[c].todo)) \in 0..20 /\ Head(cli[c].todo) \notin Quick \cup BridgeMarks
      BY PlaceNat, Below20, Zenon
    <3> QED
      BY <2>4, <2>5, <3>1, EarlyBridges, Zenon
  <2>11. Fields(cli'[c])
    BY <1>1, <2>4, Zenon DEF Fields
  <2>12. /\ F \cap Syncs = {} /\ Head(cli[c].todo) # "stop_others" /\ Head(cli[c].todo) \notin Quick
         /\ cli'[c].stage = cli[c].stage \/ cli'[c].stage \notin {"synced", "unsynced"}
    BY <2>4, <2>5, Zenon DEF BridgeMarks
  <2> HIDE DEF F, S, T
  <2> QED
    BY <2>1, <2>2, <2>3, <2>4, <2>5, <2>8, <2>9, <2>10, <2>11, <2>12, Advances, Zenon DEF Mine
<1> QED
  BY <1>3, <1>4, Zenon

\* The rest, once a step is taken off.
LEMMA RestCourse ==
  ASSUME Inv, NEW c \in Clis, cli[c].todo # <<>>, Head(cli[c].todo) # "done"
  PROVE  /\ Onward(cli[c].cmd[1], cli[c].todo, Rest(c), {}) /\ CourseOK(cli[c].cmd, Rest(c))
         /\ Rest(c) # <<>>
<1>1. CourseOK(cli[c].cmd, cli[c].todo)
  BY Setting
<1>2. LET s == cli[c].todo
      IN  /\ Onward(cli[c].cmd[1], s, Tail(s), {}) /\ CourseOK(cli[c].cmd, Tail(s)) /\ Tail(s) # <<>>
  BY <1>1, PopCourse
<1> QED
  BY <1>2 DEF Rest

\* Settings that stay as they are, with nothing put before the rest.
LEMMA SaveMoves ==
  ASSUME Inv, NEW c \in Clis, cli[c].todo # <<>>, cli[c].cmd[1] \in WritingOps,
         Head(cli[c].todo) \notin Plain, Head(cli[c].todo) \notin Quick,
         Place(cli[c].cmd[1], Head(cli[c].todo)) < 20,
         NEW cfg \in Configs, cfg.bind = cli[c].cfg.bind, cfg.wait = cli[c].cfg.wait,
         NEW ch, WriteYaml(c, cfg, Rest(c), ch),
         ch = [cfg |-> cfg] \/ ch = [cfg |-> cfg, stage |-> ""],
         Sooner(c) \/ cli[c].cmd[2] \in Runners
  PROVE  Moved(c)
<1>1. /\ Head(cli[c].todo) \notin Marks \cup BridgeMarks \cup {"done"} \cup Quick
      /\ Head(cli[c].todo) \notin HomeMarks /\ Head(cli[c].todo) # "done"
  BY Zenon DEF Plain
<1>2. /\ Onward(cli[c].cmd[1], cli[c].todo, Rest(c), {}) /\ CourseOK(cli[c].cmd, Rest(c))
  BY <1>1, RestCourse, Zenon
<1>3. /\ {} \subseteq Own(cli[c].cmd[1]) \ Syncs /\ {} \cap Marks \subseteq {"stored"}
      /\ "home" \notin {}
  BY Zenon
<1>4. \/ Sooner(c)
      \/ /\ cfg.bind = cli[c].cfg.bind /\ cfg.wait = cli[c].cfg.wait
         /\ Head(cli[c].todo) \notin HomeMarks /\ {} = {} /\ cli[c].cmd[2] \in Runners
  BY <1>1, Zenon
<1> QED
  BY <1>1, <1>2, <1>3, <1>4, SavesMoves, Zenon

LEMMA SaveRunnerMoves == ASSUME Inv, NEW c \in Clis, SaveRunner(c) PROVE Moved(c)
<1> DEFINE m == Kind(c) \in Bridged /\ Kind(c) \notin installed
<1> DEFINE cfg == [cli[c].cfg EXCEPT !.runner = Kind(c), !.missing = m, !.decision = "none"]
<1> DEFINE ch == [cfg |-> cfg, stage |-> ""]
<1>1. /\ cli[c].todo # <<>> /\ Head(cli[c].todo) = "save_runner" /\ WriteYaml(c, cfg, Rest(c), ch)
      /\ ch = [cfg |-> cfg] \/ ch = [cfg |-> cfg, stage |-> ""]
  BY Zenon DEF SaveRunner, Doing
<1>2. Kind(c) \in Runners /\ Kind(c) = cli[c].cmd[2] /\ cli[c].cmd[2] \in Runners /\ m \in BOOLEAN
  BY <1>1, AtHome, Zenon
<1>3. cli[c].cfg \in Configs /\ cli[c].cmd[1] = "setup"
  BY <1>1, Setting, KindOf, Zenon DEF Fields
<1> HIDE DEF m
<1>4. cfg \in Configs /\ cfg.bind = cli[c].cfg.bind /\ cfg.wait = cli[c].cfg.wait
  BY <1>2, <1>3 DEF Configs
<1> HIDE DEF cfg, ch
<1>5. /\ Head(cli[c].todo) \notin Plain /\ Head(cli[c].todo) \notin Quick
      /\ cli[c].cmd[1] \in WritingOps
  BY <1>1, <1>3, HeadKinds, Zenon DEF WritingOps
<1>6. Place(cli[c].cmd[1], Head(cli[c].todo)) < 20
  <2>1. Place(cli[c].cmd[1], "save_runner") = 14
    BY Places
  <2>2. Head(cli[c].todo) = "save_runner"
    BY <1>1, Zenon
  <2>3. Place(cli[c].cmd[1], Head(cli[c].todo)) = 14 /\ 14 < 20
    BY <2>1, <2>2
  <2> QED
    BY <2>3
<1> QED
  BY <1>1, <1>2, <1>4, <1>5, <1>6, SaveMoves, Zenon

LEMMA Asked ==
  ASSUME Inv, NEW c \in Clis, cli[c].todo # <<>>,
         Head(cli[c].todo) \in {"reconcile", "decide", "drop_home", "drop_workspace", "unlink"}
  PROVE  /\ Head(cli[c].todo) \notin Plain /\ Head(cli[c].todo) \notin Quick
         /\ Place(cli[c].cmd[1], Head(cli[c].todo)) < 20 /\ Sooner(c)
         /\ cli[c].cmd[1] \in {"remove", "status", "run"} /\ cli[c].cmd[1] \in WritingOps
         /\ Head(cli[c].todo) \in {"reconcile", "decide"} => cli[c].cmd[1] \in {"run", "status"}
         /\ cli[c].cfg \in Configs /\ CourseOK(cli[c].cmd, cli[c].todo) /\ cli[c].todo \in Seq(Names)
<1>1. /\ cli[c].cfg \in Configs /\ CourseOK(cli[c].cmd, cli[c].todo) /\ cli[c].todo \in Seq(Names)
      /\ cli[c].cmd \in Lines /\ Head(cli[c].todo) \in Own(cli[c].cmd[1])
  BY Setting DEF Fields, InOrder
<1>2. Head(cli[c].todo) \notin Plain /\ Head(cli[c].todo) \notin Quick
  BY HeadKinds
<1>3. Place(cli[c].cmd[1], Head(cli[c].todo)) < 20
  <2>1. LET op == cli[c].cmd[1]
        IN  /\ Place(op, "reconcile") = 4 /\ Place(op, "decide") = 5 /\ Place(op, "drop_home") = 6
            /\ Place(op, "drop_workspace") = 7 /\ Place(op, "unlink") = 8
    BY Places
  <2> QED
    BY <2>1
<1>4. Sooner(c)
  BY <1>2, Soon
<1>5. Head(cli[c].todo) \in {"reconcile", "decide"} => cli[c].cmd[1] \in {"run", "status"}
  BY <1>1, KindOf
<1>6. cli[c].cmd[1] \in {"remove", "status", "run"}
  BY <1>1, LineKinds DEF Own, LayoutSteps, HomeWork, Syncs
<1>7. cli[c].cmd[1] \in WritingOps
  BY <1>6 DEF WritingOps
<1> QED
  BY <1>1, <1>2, <1>3, <1>4, <1>5, <1>6, <1>7

LEMMA PlainParts ==
  ASSUME NEW h, h \notin Plain, h \notin Quick
  PROVE  h \notin Marks \cup BridgeMarks \cup {"done"} \cup Quick /\ h \notin Marks \cup BridgeMarks
         /\ h # "done"
  BY DEF Plain

LEMMA ReconcileMoves == ASSUME Inv, NEW c \in Clis, Reconcile(c) PROVE Moved(c)
<1> DEFINE found == [cli[c].cfg EXCEPT !.missing = FALSE, !.decision = "none"]
<1> DEFINE lost == [cli[c].cfg EXCEPT !.missing = TRUE, !.decision = "none"]
<1>1. /\ cli[c].todo # <<>> /\ Head(cli[c].todo) = "reconcile"
      /\ \/ Pass(c)
         \/ WriteYaml(c, found, Rest(c), [cfg |-> found])
         \/ Go(c, <<"decide">> \o Rest(c), [x \in {} |-> 0])
         \/ WriteYaml(c, lost, <<"decide">> \o Rest(c), [cfg |-> lost])
  BY DEF Reconcile, Doing, Same
<1>2. /\ Head(cli[c].todo) \notin Plain /\ Head(cli[c].todo) \notin Quick
      /\ Place(cli[c].cmd[1], Head(cli[c].todo)) < 20 /\ Sooner(c)
      /\ cli[c].cmd[1] \in WritingOps /\ cli[c].cmd[1] \in {"run", "status"}
      /\ cli[c].cfg \in Configs /\ CourseOK(cli[c].cmd, cli[c].todo)
  BY <1>1, Asked
<1>3. /\ found \in Configs /\ found.bind = cli[c].cfg.bind /\ found.wait = cli[c].cfg.wait
      /\ lost \in Configs /\ lost.bind = cli[c].cfg.bind /\ lost.wait = cli[c].cfg.wait
  BY <1>2 DEF Configs
<1> HIDE DEF found, lost
<1>4. /\ Onward(cli[c].cmd[1], cli[c].todo, <<"decide">> \o Rest(c), {"decide"})
      /\ CourseOK(cli[c].cmd, <<"decide">> \o Rest(c)) /\ <<"decide">> \o Rest(c) # <<>>
      /\ {"decide"} \subseteq Own(cli[c].cmd[1]) \ Syncs
  <2>1. LET s == cli[c].todo
        IN  /\ Onward(cli[c].cmd[1], s, <<"decide">> \o Tail(s), {"decide"})
            /\ CourseOK(cli[c].cmd, <<"decide">> \o Tail(s)) /\ <<"decide">> \o Tail(s) # <<>>
            /\ {"decide"} \subseteq Own(cli[c].cmd[1]) \ Syncs
    BY <1>1, <1>2, PushDecide
  <2> QED
    BY <2>1 DEF Rest
<1>5. /\ {"decide"} \cap (Syncs \cup Marks) = {} /\ "home" \notin {"decide"}
      /\ {"decide"} \cap Marks \subseteq {"stored"}
  BY DEF Syncs, Marks
<1>6. Head(cli[c].todo) \notin Marks \cup BridgeMarks \cup {"done"} \cup Quick
      /\ Head(cli[c].todo) \notin Marks \cup BridgeMarks
  BY <1>2, PlainParts
<1>7. CASE Pass(c)
  BY <1>1, <1>2, <1>7, PlainPass
<1>8. CASE WriteYaml(c, found, Rest(c), [cfg |-> found])
  <2> DEFINE ch == [cfg |-> found]
  <2>1. WriteYaml(c, found, Rest(c), ch) /\ (ch = [cfg |-> found] \/ ch = [cfg |-> found, stage |-> ""])
    BY <1>8
  <2> HIDE DEF ch
  <2> QED
    BY <1>1, <1>2, <1>3, <2>1, SaveMoves, Zenon
<1>9. CASE Go(c, <<"decide">> \o Rest(c), [x \in {} |-> 0])
  <2> DEFINE todo == <<"decide">> \o Rest(c)
  <2>1. Alter(c, tree, todo)
    BY <1>9, SameTree
  <2>2. TreeOK(tree)
    BY <1>1, Setting
  <2> QED
    BY <1>1, <1>2, <1>4, <1>5, <1>6, <2>1, <2>2, PushMoves
<1>10. CASE WriteYaml(c, lost, <<"decide">> \o Rest(c), [cfg |-> lost])
  <2> DEFINE ch == [cfg |-> lost]
  <2> DEFINE todo == <<"decide">> \o Rest(c)
  <2>1. WriteYaml(c, lost, todo, ch) /\ (ch = [cfg |-> lost] \/ ch = [cfg |-> lost, stage |-> ""])
    BY <1>10
  <2> HIDE DEF ch
  <2>2. /\ Onward(cli[c].cmd[1], cli[c].todo, todo, {"decide"}) /\ CourseOK(cli[c].cmd, todo)
    BY <1>4
  <2> HIDE DEF todo
  <2> QED
    BY <1>1, <1>2, <1>3, <1>4, <1>5, <1>6, <2>1, <2>2, SavesMoves, Zenon
<1> QED
  BY <1>1, <1>7, <1>8, <1>9, <1>10

LEMMA DecideMoves == ASSUME Inv, NEW c \in Clis, Decide(c) PROVE Moved(c)
<1>1. /\ cli[c].todo # <<>> /\ Head(cli[c].todo) = "decide"
      /\ \/ Pass(c)
         \/ Go(c, <<"drop_home", "drop_workspace", "unlink">> \o Rest(c), [x \in {} |-> 0])
         \/ \E d \in {"keep", "rerun"} :
               LET cfg == [cli[c].cfg EXCEPT !.decision = d]
               IN  WriteYaml(c, cfg, Rest(c), [cfg |-> cfg])
  BY DEF Decide, Doing, Same
<1>2. /\ Head(cli[c].todo) \notin Plain /\ Head(cli[c].todo) \notin Quick
      /\ Place(cli[c].cmd[1], Head(cli[c].todo)) < 20 /\ Sooner(c)
      /\ cli[c].cmd[1] \in WritingOps /\ cli[c].cmd[1] \in {"run", "status"}
      /\ cli[c].cfg \in Configs /\ CourseOK(cli[c].cmd, cli[c].todo) /\ cli[c].todo \in Seq(Names)
  BY <1>1, Asked
<1>3. CASE Pass(c)
  BY <1>1, <1>2, <1>3, PlainPass
<1>4. CASE Go(c, <<"drop_home", "drop_workspace", "unlink">> \o Rest(c), [x \in {} |-> 0])
  <2> DEFINE todo == <<"drop_home">> \o (<<"drop_workspace">> \o (<<"unlink">> \o Tail(cli[c].todo)))
  <2>1. <<"drop_home", "drop_workspace", "unlink">> \o Rest(c) = todo
    <3>1. /\ Tail(cli[c].todo) \in Seq(Names) /\ "drop_home" \in Names /\ "drop_workspace" \in Names
          /\ "unlink" \in Names
      BY <1>1, <1>2 DEF Names, DropSteps
    <3> QED
      BY <3>1, Pairs DEF Rest
  <2>2. /\ Onward(cli[c].cmd[1], cli[c].todo, todo, {"drop_home", "drop_workspace", "unlink"})
        /\ CourseOK(cli[c].cmd, todo) /\ todo # <<>>
    BY <1>1, <1>2, PushDrops
  <2> HIDE DEF todo
  <2>3. Alter(c, tree, todo) /\ TreeOK(tree)
    BY <1>1, <1>4, <2>1, SameTree, Setting
  <2> DEFINE E == {"drop_home", "drop_workspace", "unlink"}
  <2>4. /\ E \cap (Syncs \cup Marks) = {} /\ "home" \notin E
        /\ Onward(cli[c].cmd[1], cli[c].todo, todo, E)
    BY <2>2 DEF Syncs, Marks
  <2>5. Head(cli[c].todo) \notin Marks \cup BridgeMarks
    BY <1>2, PlainParts
  <2> HIDE DEF E
  <2> QED
    BY <1>1, <1>2, <2>2, <2>3, <2>4, <2>5, PushMoves
<1>5. ASSUME NEW d \in {"keep", "rerun"},
             LET cfg == [cli[c].cfg EXCEPT !.decision = d] IN WriteYaml(c, cfg, Rest(c), [cfg |-> cfg])
      PROVE  Moved(c)
  <2> DEFINE cfg == [cli[c].cfg EXCEPT !.decision = d]
  <2> DEFINE ch == [cfg |-> cfg]
  <2>1. cfg \in Configs /\ cfg.bind = cli[c].cfg.bind /\ cfg.wait = cli[c].cfg.wait
    BY <1>2 DEF Configs
  <2>2. WriteYaml(c, cfg, Rest(c), ch) /\ (ch = [cfg |-> cfg] \/ ch = [cfg |-> cfg, stage |-> ""])
    BY <1>5
  <2> HIDE DEF cfg, ch
  <2> QED
    BY <1>1, <1>2, <2>1, <2>2, SaveMoves, Zenon
<1> QED
  BY <1>1, <1>3, <1>4, <1>5

LEMMA UnlinkMoves == ASSUME Inv, NEW c \in Clis, Unlink(c) PROVE Moved(c)
<1> DEFINE cfg == [cli[c].cfg EXCEPT !.runner = NoRunner, !.missing = FALSE, !.decision = "none"]
<1> DEFINE ch == [cfg |-> cfg]
<1>1. /\ cli[c].todo # <<>> /\ Head(cli[c].todo) = "unlink" /\ WriteYaml(c, cfg, Rest(c), ch)
      /\ ch = [cfg |-> cfg] \/ ch = [cfg |-> cfg, stage |-> ""]
  BY DEF Unlink, Doing
<1>2. /\ Head(cli[c].todo) \notin Plain /\ Head(cli[c].todo) \notin Quick
      /\ Place(cli[c].cmd[1], Head(cli[c].todo)) < 20 /\ Sooner(c)
      /\ cli[c].cmd[1] \in WritingOps /\ cli[c].cfg \in Configs
  BY <1>1, Asked
<1>3. cfg \in Configs /\ cfg.bind = cli[c].cfg.bind /\ cfg.wait = cli[c].cfg.wait
  BY <1>2 DEF Configs
<1> HIDE DEF cfg, ch
<1> QED
  BY <1>1, <1>2, <1>3, SaveMoves, Zenon

LEMMA DropHomeMoves == ASSUME Inv, NEW c \in Clis, DropHome(c) PROVE Moved(c)
<1> DEFINE t == OtherHome(tree, cli[c].cfg.runner, NoHome)
<1>1. cli[c].todo # <<>> /\ Head(cli[c].todo) = "drop_home" /\ Alter(c, t, Rest(c))
  BY DEF DropHome, Doing, OtherHome
<1>2. /\ Head(cli[c].todo) \notin Plain /\ Head(cli[c].todo) \notin Quick /\ Sooner(c)
      /\ cli[c].cfg \in Configs
  BY <1>1, Asked
<1>3. TreeOK(tree) /\ cli[c].cfg.runner \in Runners \cup {NoRunner}
  BY <1>1, <1>2, Setting DEF Configs
<1>4. /\ TreeOK(t) /\ t.yaml = tree.yaml /\ t.policy = tree.policy /\ t.channel = tree.channel
      /\ (tree.state => t.state) /\ (tree.made => t.made)
  <2>1. CASE cli[c].cfg.runner \in Runners
    <3>1. TreeOK(t) /\ Rehomed(tree, t, cli[c].cfg.runner, NoHome)
      BY <1>3, <2>1, DefaultTypes, ChangedHome
    <3> QED
      BY <3>1 DEF Rehomed
  <2>2. CASE cli[c].cfg.runner = NoRunner
    <3>1. [tree.home EXCEPT ![cli[c].cfg.runner] = NoHome] = tree.home
      BY <1>3, <2>2 DEF TreeOK, Trees, Runners, NoRunner
    <3>2. t = tree
      BY <1>3, <3>1 DEF OtherHome, TreeOK, Trees
    <3> QED
      BY <1>3, <3>2
  <2> QED
    BY <1>3, <2>1, <2>2
<1> HIDE DEF t
<1>5. Head(cli[c].todo) \notin Marks \cup BridgeMarks \cup {"done"} \cup Quick
  BY <1>2, PlainParts
<1> QED
  BY <1>1, <1>2, <1>4, <1>5, EarlyMoves

LEMMA DropWorkspaceMoves == ASSUME Inv, NEW c \in Clis, DropWorkspace(c) PROVE Moved(c)
<1> DEFINE w == tree.workspace /\ cli[c].cfg.runner # "openclaw"
<1> DEFINE t == [tree EXCEPT !.workspace = w]
<1>1. cli[c].todo # <<>> /\ Head(cli[c].todo) = "drop_workspace" /\ Alter(c, t, Rest(c))
  BY DEF DropWorkspace, Doing
<1>2. /\ Head(cli[c].todo) \notin Plain /\ Head(cli[c].todo) \notin Quick /\ Sooner(c)
  BY <1>1, Asked
<1>3. TreeOK(tree) /\ w \in BOOLEAN
  BY <1>1, Setting
<1> HIDE DEF w
<1>4. /\ TreeOK(t) /\ t.yaml = tree.yaml /\ t.policy = tree.policy /\ t.channel = tree.channel
      /\ (tree.state => t.state) /\ (tree.made => t.made)
  BY <1>3 DEF TreeOK, Trees
<1> HIDE DEF t
<1>5. Head(cli[c].todo) \notin Marks \cup BridgeMarks \cup {"done"} \cup Quick
  BY <1>2, PlainParts
<1> QED
  BY <1>1, <1>2, <1>4, <1>5, EarlyMoves

-----------------------------------------------------------------------------
\* Laying a runtime out, resetting, loading it, changing its policy.
DullOps == {"init", "force", "keep", "purge", "purge_at", "policy"}
LEMMA DullOwn ==
  ASSUME NEW cmd, cmd[1] \in DullOps
  PROVE  /\ "home" \notin Own(cmd[1]) /\ ~Syncing(cmd) /\ \A m \in Due(cmd) : m \notin HomeMarks
         /\ Own(cmd[1]) \cap Syncs = {} /\ "stop_others" \notin Own(cmd[1])
<1>1. Own(cmd[1]) \cap Syncs = {}
  BY DEF DullOps, Own, LayoutSteps, Syncs
<1>2. "stop_others" \in Syncs
  BY DEF Syncs
<1>3. ~Syncing(cmd) /\ "home" \notin Own(cmd[1])
  BY DEF DullOps, Own, LayoutSteps, Syncing
<1>4. \A m \in Due(cmd) : m \notin HomeMarks
  BY <1>3 DEF DullOps, Due, HomeMarks
<1> QED
  BY <1>1, <1>2, <1>3, <1>4

LEMMA DullRest ==
  ASSUME NEW you, you.cmd[1] \in DullOps, Left(you.todo) \subseteq Own(you.cmd[1]), NEW u, NEW bots
  PROVE  HomeOK(you, u) /\ BridgeOK(you, u, bots)
<1>1. "home" \notin Left(you.todo) /\ ~Syncing(you.cmd) /\ \A m \in Due(you.cmd) : m \notin HomeMarks
  BY DullOwn
<1> QED
  BY <1>1, HomeEarly DEF BridgeOK

LEMMA DullMoves ==
  ASSUME Inv, NEW c \in Clis, cli[c].todo # <<>>, cli[c].cmd[1] \in DullOps, Only(c), Fields(cli'[c]),
         cli'[c].cmd = cli[c].cmd, cli'[c].out = cli[c].out, cli'[c].stage = cli[c].stage,
         NEW E, Onward(cli[c].cmd[1], cli[c].todo, cli'[c].todo, E), E \cap Syncs = {},
         CourseOK(cli[c].cmd, cli'[c].todo), cli'[c].todo # <<>>,
         \/ cli'[c].cfg.runner = cli[c].cfg.runner
         \/ Head(cli[c].todo) \notin Quick /\ Place(cli[c].cmd[1], Head(cli[c].todo)) < 20,
         TreeOK(tree'), owed' = owed \/ owed' \in Debts, UNCHANGED <<bot, scene, disturbed>>,
         ~disturbed /\ SettingsOK(cli[c], tree, owed) => SettingsOK(cli'[c], tree', owed')
  PROVE  Moved(c)
<1>1. Head(cli[c].todo) \in Own(cli[c].cmd[1])
  BY Setting
<1>2. Head(cli[c].todo) # "stop_others"
  BY <1>1, DullOwn
<1>3. HomeOK(cli'[c], tree') /\ BridgeOK(cli'[c], tree', bot)
  <2>1. Left(cli'[c].todo) \subseteq Own(cli'[c].cmd[1]) /\ cli'[c].cmd[1] \in DullOps
    BY DEF CourseOK
  <2> QED
    BY <2>1, DullRest
<1>4. cli'[c].stage = cli[c].stage \/ cli'[c].stage \notin {"synced", "unsynced"}
  OBVIOUS
<1> QED
  BY <1>2, <1>3, <1>4, Advances DEF Mine

\* A step of the layout is taken off.
LEMMA DullPop ==
  ASSUME Inv, NEW c \in Clis, cli[c].todo # <<>>, cli[c].cmd[1] \in DullOps, Head(cli[c].todo) # "done",
         NEW t, Alter(c, t, Rest(c)), TreeOK(t),
         ~disturbed /\ SettingsOK(cli[c], tree, owed) => SettingsOK(cli'[c], t, owed)
  PROVE  Moved(c)
<1>1. CliTable /\ Fields(cli[c])
  BY Setting
<1>2. /\ Only(c) /\ Carries(cli[c], cli'[c], {}) /\ cli'[c].todo = Rest(c) /\ tree' = t
      /\ UNCHANGED <<owed, bot, disturbed, scene>>
  BY <1>1, AlterChanges
<1>3. /\ Onward(cli[c].cmd[1], cli[c].todo, cli'[c].todo, {}) /\ CourseOK(cli[c].cmd, cli'[c].todo)
      /\ cli'[c].todo # <<>>
  BY <1>2, RestCourse
<1>4. /\ Fields(cli'[c]) /\ cli'[c].cmd = cli[c].cmd /\ cli'[c].out = cli[c].out
      /\ cli'[c].stage = cli[c].stage /\ cli'[c].cfg = cli[c].cfg /\ {} \cap Syncs = {}
  BY <1>1, <1>2 DEF Carries, Fields
<1> QED
  BY <1>2, <1>3, <1>4, DullMoves

LEMMA LaidFacts ==
  ASSUME NEW t, TreeOK(t)
  PROVE  /\ TreeOK(LaidOut(t)) /\ LaidOut(t).yaml = t.yaml /\ LaidOut(t).policy = t.policy
         /\ LaidOut(t).channel = t.channel /\ LaidOut(t).state /\ LaidOut(t).made
  BY DEF TreeOK, Trees, LaidOut

\* Where a step belongs.
LEMMA Whose ==
  ASSUME NEW cmd \in Lines, NEW h \in Own(cmd[1])
  PROVE  /\ h = "vacant" => cmd[1] = "init"
         /\ h = "remove_dir" => cmd[1] \in {"force", "keep", "purge", "purge_at"}
         /\ h \in {"make_dirs", "default_policy", "default_config"} => cmd[1] \in {"init", "force", "keep"}
         /\ h \in {"restore_config", "restore_policy", "ensure_artifacts"} => cmd[1] = "keep"
         /\ h = "policy" => cmd[1] \in {"init", "force", "keep", "policy"}
         /\ h = "load" => cmd[1] \notin {"init", "force", "purge_at"}
         /\ h = "yaml" => cmd[1] \in {"init", "force", "keep", "setup", "remove", "status", "run", "update"}
         /\ h = "edit_policy" => cmd[1] = "policy"
<1>1. cmd[1] \in {"init", "force", "keep", "purge", "purge_at", "setup", "remove", "status", "run", "update",
                   "policy"}
  BY LineKinds
<1>2. h \in {"vacant", "remove_dir", "make_dirs", "default_policy", "default_config", "restore_config",
             "restore_policy", "ensure_artifacts", "edit_policy"} => cmd[1] \notin WritingOps
  BY DEF Own, DropSteps, HomeWork, Syncs, WritingOps
<1>3. h \in {"policy"} => cmd[1] \notin WritingOps
  BY DEF Own, DropSteps, HomeWork, Syncs, WritingOps
<1>4. CASE cmd[1] \in WritingOps
  BY <1>2, <1>3, <1>4 DEF WritingOps
<1>5. CASE cmd[1] \notin WritingOps
  BY <1>1, <1>5 DEF WritingOps, Own, LayoutSteps
<1> QED
  BY <1>4, <1>5

\* What a layout has behind it, and still ahead.
LEMMA LayoutOver ==
  ASSUME Inv, NEW c \in Clis, cli[c].todo # <<>>,
         Head(cli[c].todo) \in {"make_dirs", "default_policy", "default_config", "restore_config",
                               "restore_policy", "edit_policy"}
  PROVE  /\ "vacant" \notin Left(cli[c].todo) /\ "load" \notin Left(cli[c].todo)
         /\ "remove_dir" \notin Left(cli[c].todo)
         /\ Head(cli[c].todo) \notin {"make_dirs", "edit_policy"} => "make_dirs" \notin Left(cli[c].todo)
         /\ "yaml" \notin Left(cli[c].todo) /\ "policy" \notin Left(cli[c].todo)
<1> DEFINE h == Head(cli[c].todo)
<1>1. LET op == cli[c].cmd[1]
      IN  /\ Place(op, "vacant") = 2 /\ Place(op, "remove_dir") = 3 /\ Place(op, "load") = 2
          /\ Place(op, "make_dirs") = 4 /\ Place(op, "default_policy") = 5
          /\ Place(op, "default_config") = 6 /\ Place(op, "restore_config") = 7
          /\ Place(op, "restore_policy") = 8 /\ Place(op, "edit_policy") = 3
  BY Places
<1>2. Place(cli[c].cmd[1], h) \in {3, 4, 5, 6, 7, 8} /\ (h # "edit_policy" => Place(cli[c].cmd[1], h) \in {4, 5, 6, 7, 8})
      /\ (h \notin {"make_dirs", "edit_policy"} => Place(cli[c].cmd[1], h) \in {5, 6, 7, 8})
  BY <1>1
<1>3. "vacant" \notin Left(cli[c].todo)
  <2>1. Place(cli[c].cmd[1], "vacant") < Place(cli[c].cmd[1], h) /\ "vacant" # h
    BY <1>1, <1>2
  <2> QED
    BY <2>1, Behind
<1>4. "load" \notin Left(cli[c].todo)
  <2>1. Place(cli[c].cmd[1], "load") < Place(cli[c].cmd[1], h) /\ "load" # h
    BY <1>1, <1>2
  <2> QED
    BY <2>1, Behind
<1>5. "remove_dir" \notin Left(cli[c].todo)
  <2>1. CASE h # "edit_policy"
    <3>1. Place(cli[c].cmd[1], "remove_dir") < Place(cli[c].cmd[1], h) /\ "remove_dir" # h
      BY <1>1, <1>2, <2>1
    <3> QED
      BY <3>1, Behind
  <2>2. CASE h = "edit_policy"
    <3>1. cli[c].cmd[1] = "policy" /\ Left(cli[c].todo) \subseteq Own(cli[c].cmd[1])
      BY <2>2, Setting, Whose
    <3> QED
      BY <3>1 DEF Own
  <2> QED
    BY <2>1, <2>2
<1>6. h \notin {"make_dirs", "edit_policy"} => "make_dirs" \notin Left(cli[c].todo)
  <2>1. SUFFICES ASSUME h \notin {"make_dirs", "edit_policy"} PROVE "make_dirs" \notin Left(cli[c].todo)
    OBVIOUS
  <2>2. Place(cli[c].cmd[1], "make_dirs") < Place(cli[c].cmd[1], h) /\ "make_dirs" # h
    BY <1>1, <1>2, <2>1
  <2> QED
    BY <2>2, Behind
<1>7. "yaml" \notin Left(cli[c].todo) /\ "policy" \notin Left(cli[c].todo)
  <2>1. InOrder(cli[c].cmd[1], cli[c].todo) /\ h \notin Quick
    BY Setting DEF Quick
  <2> QED
    BY <2>1, NoQuick DEF Quick
<1> QED
  BY <1>3, <1>4, <1>5, <1>6, <1>7

LEMMA LayoutAhead ==
  ASSUME Inv, NEW c \in Clis, cli[c].todo # <<>>, cli[c].cmd[1] = "keep",
         Head(cli[c].todo) \in {"load", "remove_dir", "make_dirs", "default_policy", "default_config",
                               "restore_config", "restore_policy"}
  PROVE  /\ "restore_policy" \in Left(cli[c].todo)
         /\ Head(cli[c].todo) # "restore_policy" => "restore_config" \in Left(cli[c].todo)
         /\ Head(cli[c].todo) \in {"load", "remove_dir"} => "make_dirs" \in Left(cli[c].todo)
<1> DEFINE h == Head(cli[c].todo)
<1>1. LET op == cli[c].cmd[1]
      IN  /\ Place(op, "remove_dir") = 3 /\ Place(op, "load") = 2
          /\ Place(op, "make_dirs") = 4 /\ Place(op, "default_policy") = 5
          /\ Place(op, "default_config") = 6 /\ Place(op, "restore_config") = 7
          /\ Place(op, "restore_policy") = 8
  BY Places
<1>2. /\ Place(cli[c].cmd[1], h) \in {2, 3, 4, 5, 6, 7, 8}
      /\ (h # "restore_policy" => Place(cli[c].cmd[1], h) \in {2, 3, 4, 5, 6, 7})
      /\ (h \in {"load", "remove_dir"} => Place(cli[c].cmd[1], h) \in {2, 3})
  BY <1>1
<1>3. CourseOK(cli[c].cmd, cli[c].todo) /\ h \notin Quick
  BY Setting DEF Quick
<1>4. {"make_dirs", "restore_config", "restore_policy"} \subseteq Due(cli[c].cmd)
  BY DEF Due
<1>5. "restore_policy" \in Left(cli[c].todo)
  <2>1. ~(Place(cli[c].cmd[1], "restore_policy") < Place(cli[c].cmd[1], h))
    BY <1>1, <1>2
  <2> QED
    BY <1>3, <1>4, <2>1, StillDue
<1>6. ASSUME h # "restore_policy" PROVE "restore_config" \in Left(cli[c].todo)
  <2>1. ~(Place(cli[c].cmd[1], "restore_config") < Place(cli[c].cmd[1], h))
    BY <1>1, <1>2, <1>6
  <2> QED
    BY <1>3, <1>4, <2>1, StillDue
<1>7. ASSUME h \in {"load", "remove_dir"} PROVE "make_dirs" \in Left(cli[c].todo)
  <2>1. ~(Place(cli[c].cmd[1], "make_dirs") < Place(cli[c].cmd[1], h))
    BY <1>1, <1>2, <1>7
  <2> QED
    BY <1>3, <1>4, <2>1, StillDue
<1> QED
  BY <1>5, <1>6, <1>7

LEMMA EnsureMoves == ASSUME Inv, NEW c \in Clis, EnsureArtifacts(c) PROVE Moved(c)
<1>1. cli[c].todo # <<>> /\ Head(cli[c].todo) = "ensure_artifacts" /\ Alter(c, LaidOut(tree), Rest(c))
  BY DEF EnsureArtifacts, Doing
<1>2. TreeOK(tree) /\ cli[c].cmd[1] = "keep"
  BY <1>1, Setting, Whose
<1> DEFINE t == LaidOut(tree)
<1>3. /\ TreeOK(t) /\ t.yaml = tree.yaml /\ t.policy = tree.policy /\ t.channel = tree.channel
      /\ (tree.state => t.state) /\ (tree.made => t.made) /\ Alter(c, t, Rest(c))
  BY <1>1, <1>2, LaidFacts
<1> HIDE DEF t
<1>4. Head(cli[c].todo) \notin Marks \cup BridgeMarks \cup {"done"} \cup Quick
  BY <1>1 DEF Marks, BridgeMarks, Quick
<1>5. Sooner(c)
  BY <1>1, <1>2, <1>4, Soon
<1> QED
  BY <1>1, <1>3, <1>4, <1>5, EarlyMoves

LEMMA VacantMoves == ASSUME Inv, NEW c \in Clis, Vacant(c) PROVE Moved(c)
<1>1. /\ cli[c].todo # <<>> /\ Head(cli[c].todo) = "vacant"
      /\ IF tree.made THEN Quit(c, "failed") ELSE Pass(c)
  BY DEF Vacant, Doing
<1>2. TreeOK(tree) /\ cli[c].cmd[1] = "init" /\ InOrder(cli[c].cmd[1], cli[c].todo)
  BY <1>1, Setting, Whose
<1>3. CASE tree.made
  <2>1. Settled(cli[c], tree) /\ "vacant" \notin Quick /\ "failed" # "invalid"
    BY <1>2 DEF Settled, Quick
  <2> QED
    BY <1>1, <1>3, <2>1, QuitMoves
<1>4. CASE ~tree.made
  <2>1. Alter(c, tree, Rest(c))
    BY <1>1, <1>4, SameTree DEF Pass
  <2>2. cli[c].cmd[1] \in DullOps /\ Head(cli[c].todo) # "done"
    BY <1>1, <1>2 DEF DullOps
  <2>3. /\ cli'[c].cmd = cli[c].cmd
        /\ Left(cli'[c].todo) = Left(cli[c].todo) \ {"vacant"}
    <3>1. cli'[c].cmd = cli[c].cmd /\ cli'[c].todo = Rest(c)
      BY <1>1, <2>1, Setting, AlterChanges DEF Carries
    <3>2. Onward(cli[c].cmd[1], cli[c].todo, Rest(c), {})
      BY <1>1, <2>2, RestCourse
    <3> QED
      BY <1>1, <3>1, <3>2 DEF Onward
  <2>4. ASSUME SettingsOK(cli[c], tree, owed) PROVE SettingsOK(cli'[c], tree, owed)
    <3>1. QuietOK(tree, owed) /\ ~owed.bound
      BY <1>2, <1>4, <2>4 DEF SettingsOK, QuietOK
    <3>2. "yaml" \notin Left(cli[c].todo) /\ "policy" \notin Left(cli[c].todo)
      BY <1>1, <1>2, NoQuick DEF Quick
    <3> QED
      BY <1>2, <2>3, <3>1, <3>2 DEF SettingsOK
  <2> QED
    BY <1>1, <1>2, <2>1, <2>2, <2>4, DullPop
<1> QED
  BY <1>3, <1>4

LEMMA MakeDirsMoves == ASSUME Inv, NEW c \in Clis, MakeDirs(c) PROVE Moved(c)
<1> DEFINE t == LaidOut(tree)
<1>1. cli[c].todo # <<>> /\ Head(cli[c].todo) = "make_dirs" /\ Alter(c, t, Rest(c))
  BY DEF MakeDirs, Doing
<1>2. /\ TreeOK(tree) /\ cli[c].cmd[1] \in {"init", "force", "keep"}
      /\ InOrder(cli[c].cmd[1], cli[c].todo)
  BY <1>1, Setting, Whose
<1>3. TreeOK(t) /\ t.yaml = tree.yaml /\ t.policy = tree.policy /\ t.state
  BY <1>2, LaidFacts
<1> HIDE DEF t
<1>4. cli[c].cmd[1] \in DullOps /\ Head(cli[c].todo) # "done"
  BY <1>1, <1>2 DEF DullOps
<1>5. /\ cli'[c].cmd = cli[c].cmd /\ cli'[c].cfg = cli[c].cfg /\ cli'[c].pol = cli[c].pol
      /\ Left(cli'[c].todo) = Left(cli[c].todo) \ {"make_dirs"}
  <2>1. Carries(cli[c], cli'[c], {}) /\ cli'[c].todo = Rest(c)
    BY <1>1, Setting, AlterChanges
  <2>2. Onward(cli[c].cmd[1], cli[c].todo, Rest(c), {})
    BY <1>1, <1>4, RestCourse
  <2> QED
    BY <1>1, <2>1, <2>2 DEF Onward, Carries
<1>6. /\ "vacant" \notin Left(cli[c].todo) /\ "remove_dir" \notin Left(cli[c].todo)
      /\ "load" \notin Left(cli[c].todo)
  BY <1>1, LayoutOver
<1>7. "yaml" \notin Left(cli[c].todo) /\ "policy" \notin Left(cli[c].todo)
  BY <1>1, LayoutOver
<1>8. cli[c].cmd[1] = "keep" => "restore_config" \in Left(cli[c].todo) /\ "restore_policy" \in Left(cli[c].todo)
  BY <1>1, LayoutAhead
<1>9. ASSUME SettingsOK(cli[c], tree, owed) PROVE SettingsOK(cli'[c], t, owed)
  <2>1. CASE cli[c].cmd[1] = "keep"
    <3>1. KeepOK(cli[c], tree, owed)
      BY <1>6, <1>9, <2>1 DEF SettingsOK
    <3>2. KeepOK(cli'[c], t, owed)
      BY <1>3, <1>5, <1>8, <2>1, <3>1 DEF KeepOK
    <3> QED
      BY <1>5, <1>6, <1>7, <2>1, <3>2 DEF SettingsOK
  <2>2. CASE cli[c].cmd[1] \in {"init", "force"}
    <3>1. ~owed.bound
      BY <1>6, <1>9, <2>2 DEF SettingsOK
    <3> QED
      BY <1>5, <1>6, <1>7, <2>2, <3>1 DEF SettingsOK, QuietOK
  <2> QED
    BY <1>2, <2>1, <2>2
<1> QED
  BY <1>1, <1>3, <1>4, <1>9, DullPop

-----------------------------------------------------------------------------
\* Writing policy.yaml.
NewPolicy(t, p) == [t EXCEPT !.policy = p]
LEMMA PolicyFacts ==
  ASSUME NEW t, TreeOK(t), NEW p \in {"absent", "torn", "default", "edited"}
  PROVE  /\ TreeOK(NewPolicy(t, p)) /\ NewPolicy(t, p).policy = p /\ NewPolicy(t, p).yaml = t.yaml
         /\ NewPolicy(t, p).state = t.state /\ NewPolicy(t, p).made = t.made
  BY DEF TreeOK, Trees, NewPolicy

LEMMA PolicyOps ==
  ASSUME Inv, NEW c \in Clis, cli[c].todo # <<>>,
         Head(cli[c].todo) \in {"default_policy", "restore_policy", "edit_policy"}
  PROVE  /\ cli[c].cmd[1] \in DullOps /\ "policy" \in Own(cli[c].cmd[1]) /\ Head(cli[c].todo) # "done"
         /\ Head(cli[c].todo) = "edit_policy" => cli[c].cmd[1] = "policy"
         /\ Head(cli[c].todo) = "default_policy" => cli[c].cmd[1] \in {"init", "force", "keep"}
         /\ Head(cli[c].todo) = "restore_policy" => cli[c].cmd[1] = "keep"
<1>1. cli[c].cmd \in Lines /\ Head(cli[c].todo) \in Own(cli[c].cmd[1])
  BY Setting
<1>2. /\ Head(cli[c].todo) = "edit_policy" => cli[c].cmd[1] = "policy"
      /\ Head(cli[c].todo) = "default_policy" => cli[c].cmd[1] \in {"init", "force", "keep"}
      /\ Head(cli[c].todo) = "restore_policy" => cli[c].cmd[1] = "keep"
  BY <1>1, Whose
<1>3. cli[c].cmd[1] \in {"init", "force", "keep", "policy"}
  BY <1>2
<1> QED
  BY <1>2, <1>3 DEF DullOps, Own, LayoutSteps

LEMMA WritePolicyMoves ==
  ASSUME Inv, NEW c \in Clis, cli[c].todo # <<>>,
         Head(cli[c].todo) \in {"default_policy", "restore_policy", "edit_policy"},
         NEW pol \in Policies, WritePolicy(c, pol),
         Head(cli[c].todo) = "restore_policy" => pol = cli[c].pol,
         Head(cli[c].todo) = "edit_policy" => pol = "edited"
  PROVE  Moved(c)
<1> DEFINE S == Left(cli[c].todo)
<1> DEFINE T == Left(cli'[c].todo)
<1> DEFINE h == Head(cli[c].todo)
<1>1. CliTable /\ TreeOK(tree) /\ Fields(cli[c]) /\ CourseOK(cli[c].cmd, cli[c].todo)
  BY Setting
<1>2. /\ cli[c].cmd[1] \in DullOps /\ "policy" \in Own(cli[c].cmd[1]) /\ h # "done"
      /\ h = "edit_policy" => cli[c].cmd[1] = "policy"
      /\ h = "default_policy" => cli[c].cmd[1] \in {"init", "force", "keep"}
      /\ h = "restore_policy" => cli[c].cmd[1] = "keep"
  BY PolicyOps
<1>3. h \notin Quick
  BY DEF Quick
<1>4. /\ "vacant" \notin S /\ "load" \notin S /\ "remove_dir" \notin S
      /\ h \notin {"make_dirs", "edit_policy"} => "make_dirs" \notin S
      /\ "yaml" \notin S /\ "policy" \notin S
  BY LayoutOver
<1>5. CASE ~tree.state
  <2>1. Quit(c, "failed")
    BY <1>5 DEF WritePolicy
  <2>2. Settled(cli[c], tree) /\ "failed" # "invalid"
    <3>1. cli[c].cmd[1] = "keep" => h \notin {"make_dirs", "edit_policy"}
      BY <1>2
    <3> QED
      BY <1>4, <1>5, <3>1 DEF Settled
  <2> QED
    BY <1>3, <2>1, <2>2, QuitMoves
<1>6. CASE tree.state
  <2>1. /\ tree' = NewPolicy(tree, "torn") /\ Step(c, <<"policy">> \o Rest(c), [newpol |-> pol])
        /\ UNCHANGED <<owed, bot, scene, disturbed>>
    BY <1>6 DEF WritePolicy, NewPolicy, Others
  <2>2. TreeOK(tree') /\ tree'.policy = "torn" /\ tree'.yaml = tree.yaml /\ tree'.state = tree.state
    BY <1>1, <2>1, PolicyFacts
  <2>3. Only(c) /\ Becomes(cli[c], <<"policy">> \o Rest(c), [newpol |-> pol], cli'[c])
    BY <1>1, <2>1, StepChanges
  <2>4. /\ cli'[c].todo = <<"policy">> \o Tail(cli[c].todo) /\ cli'[c].newpol = pol
        /\ Carries(cli[c], cli'[c], {"newpol"})
    BY <2>3 DEF Becomes, Carries, Rest
  <2>5. /\ CourseOK(cli[c].cmd, cli'[c].todo) /\ cli'[c].todo # <<>>
        /\ Onward(cli[c].cmd[1], cli[c].todo, cli'[c].todo, {"policy"})
    <3>1. LET s == cli[c].todo
          IN  /\ CourseOK(cli[c].cmd, <<"policy">> \o Tail(s)) /\ <<"policy">> \o Tail(s) # <<>>
              /\ Onward(cli[c].cmd[1], s, <<"policy">> \o Tail(s), {"policy"})
      BY <1>1, <1>2, <1>3, QuickCourse
    <3> QED
      BY <2>4, <3>1
  <2>6. T = (S \ {h}) \cup {"policy"}
    BY <2>5 DEF Onward
  <2>7. /\ Fields(cli'[c]) /\ cli'[c].cmd = cli[c].cmd /\ cli'[c].out = cli[c].out
        /\ cli'[c].stage = cli[c].stage /\ cli'[c].cfg = cli[c].cfg /\ cli'[c].pol = cli[c].pol
        /\ cli'[c].newcfg = cli[c].newcfg /\ {"policy"} \cap Syncs = {}
    BY <1>1, <2>4 DEF Carries, Fields, Syncs
  <2>8. ASSUME SettingsOK(cli[c], tree, owed) PROVE SettingsOK(cli'[c], tree', owed')
    <3>0. owed' = owed
      BY <2>1
    <3>1. "vacant" \notin T /\ "load" \notin T /\ "remove_dir" \notin T /\ "policy" \in T /\ "yaml" \notin T
      BY <1>4, <2>6
    <3>2. CASE cli[c].cmd[1] \in {"init", "force"}
      <4>1. ~owed.bound
        BY <1>4, <2>8, <3>2 DEF SettingsOK
      <4> QED
        BY <2>7, <3>0, <3>1, <3>2, <4>1 DEF SettingsOK, QuietOK
    <3>3. CASE cli[c].cmd[1] = "keep"
      <4>1. KeepOK(cli[c], tree, owed)
        BY <1>4, <2>8, <3>3 DEF SettingsOK
      <4>2. h \in {"default_policy", "restore_policy"} /\ "make_dirs" \notin S
        BY <1>2, <1>4, <3>3
      <4>3. "restore_policy" \in S /\ (h # "restore_policy" => "restore_config" \in S)
        BY <3>3, <4>2, LayoutAhead
      <4>4. "restore_policy" \notin T => h = "restore_policy"
        BY <2>6, <4>3
      <4>5. "restore_config" \in T <=> "restore_config" \in S
        BY <2>6, <4>2
      <4>6. KeepOK(cli'[c], tree', owed)
        BY <1>4, <1>6, <2>2, <2>4, <2>7, <3>1, <4>1, <4>4, <4>5 DEF KeepOK
      <4> QED
        BY <2>7, <3>0, <3>1, <3>3, <4>6 DEF SettingsOK
    <3>4. CASE cli[c].cmd[1] = "policy"
      <4>1. LoadedOK(cli[c], tree, owed)
        BY <1>4, <2>8, <3>4 DEF SettingsOK
      <4>2. h = "edit_policy" /\ pol = "edited"
        BY <1>2, <3>4
      <4>3. "stored" \in T <=> "stored" \in S
        BY <2>6, <4>2
      <4>4. LoadedOK(cli'[c], tree', owed)
        BY <1>4, <2>2, <2>4, <2>7, <3>1, <3>4, <4>1, <4>2, <4>3 DEF LoadedOK
      <4> QED
        BY <2>7, <3>0, <3>1, <3>4, <4>4 DEF SettingsOK
    <3> QED
      BY <1>2, <3>2, <3>3, <3>4
  <2> HIDE DEF S, T, h
  <2> QED
    BY <1>2, <2>1, <2>2, <2>3, <2>5, <2>7, <2>8, DullMoves
<1> QED
  BY <1>5, <1>6

LEMMA DefaultPolicyMoves == ASSUME Inv, NEW c \in Clis, WriteDefaultPolicy(c) PROVE Moved(c)
<1>1. /\ cli[c].todo # <<>> /\ Head(cli[c].todo) = "default_policy" /\ WritePolicy(c, "default")
      /\ "default" \in Policies
  BY DEF WriteDefaultPolicy, Doing, Policies
<1> QED
  BY <1>1, WritePolicyMoves

LEMMA RestorePolicyMoves == ASSUME Inv, NEW c \in Clis, RestorePolicy(c) PROVE Moved(c)
<1>1. cli[c].todo # <<>> /\ Head(cli[c].todo) = "restore_policy" /\ WritePolicy(c, cli[c].pol)
  BY DEF RestorePolicy, Doing
<1>2. cli[c].pol \in Policies
  BY <1>1, Setting DEF Fields
<1> QED
  BY <1>1, <1>2, WritePolicyMoves

LEMMA SavePolicyMoves == ASSUME Inv, NEW c \in Clis, SavePolicy(c) PROVE Moved(c)
<1>1. /\ cli[c].todo # <<>> /\ Head(cli[c].todo) = "edit_policy" /\ WritePolicy(c, "edited")
      /\ "edited" \in Policies
  BY DEF SavePolicy, Doing, Policies
<1> QED
  BY <1>1, WritePolicyMoves

\* A milestone of a reset that is over has those before it over too.
LEMMA ResetInOrder ==
  ASSUME NEW me, CourseOK(me.cmd, me.todo), me.cmd[1] = "keep",
         "restore_config" \notin Left(me.todo) \/ "restore_policy" \notin Left(me.todo)
  PROVE  "make_dirs" \notin Left(me.todo)
<1>1. /\ "restore_config" \in Due(me.cmd) /\ "restore_policy" \in Due(me.cmd)
      /\ "make_dirs" \notin Quick
  BY DEF Due, Quick
<1>2. LET op == me.cmd[1]
      IN  /\ Place(op, "restore_config") = 7 /\ Place(op, "restore_policy") = 8 /\ Place(op, "make_dirs") = 4
  BY Places
<1>3. /\ ~(Place(me.cmd[1], "restore_config") < Place(me.cmd[1], "make_dirs"))
      /\ ~(Place(me.cmd[1], "restore_policy") < Place(me.cmd[1], "make_dirs"))
  BY <1>2
<1> QED
  BY <1>1, <1>3 DEF CourseOK, Past

Edited(o, p) == [o EXCEPT !.policy = p]
LEMMA EditedFacts ==
  ASSUME NEW o \in Debts, NEW p \in Policies
  PROVE  /\ Edited(o, p) \in Debts /\ Edited(o, p).policy = p /\ Edited(o, p).bound = o.bound
         /\ Edited(o, p).bind = o.bind /\ Edited(o, p).wait = o.wait
  BY DEF Debts, Policies, Edited

LEMMA PolicyWrittenMoves == ASSUME Inv, NEW c \in Clis, PolicyWritten(c) PROVE Moved(c)
<1> DEFINE S == Left(cli[c].todo)
<1> DEFINE T == Left(cli'[c].todo)
<1>1. /\ cli[c].todo # <<>> /\ Head(cli[c].todo) = "policy"
      /\ tree' = (IF tree.state THEN NewPolicy(tree, cli[c].newpol) ELSE tree)
      /\ Step(c, Rest(c), [x \in {} |-> 0])
      /\ owed' = IF cli[c].cmd[1] = "policy" THEN Edited(owed, cli[c].newpol) ELSE owed
      /\ UNCHANGED <<bot, scene, disturbed>>
  BY DEF PolicyWritten, Doing, NewPolicy, Others, Edited
<1>2. /\ CliTable /\ TreeOK(tree) /\ Fields(cli[c]) /\ CourseOK(cli[c].cmd, cli[c].todo)
      /\ owed \in Debts /\ "policy" \in S /\ cli[c].cmd[1] \in {"init", "force", "keep", "policy"}
  BY <1>1, Setting, Whose
<1>3. Only(c) /\ Carries(cli[c], cli'[c], {}) /\ cli'[c].todo = Rest(c)
  BY <1>1, <1>2, StepChanges, PlainStep
<1>4. /\ Onward(cli[c].cmd[1], cli[c].todo, cli'[c].todo, {}) /\ CourseOK(cli[c].cmd, cli'[c].todo)
      /\ cli'[c].todo # <<>>
  BY <1>1, <1>3, RestCourse
<1>5. T = S \ {"policy"}
  BY <1>1, <1>4 DEF Onward
<1>6. /\ Fields(cli'[c]) /\ cli'[c].cmd = cli[c].cmd /\ cli'[c].out = cli[c].out
      /\ cli'[c].stage = cli[c].stage /\ cli'[c].cfg = cli[c].cfg /\ cli'[c].pol = cli[c].pol
      /\ cli'[c].newcfg = cli[c].newcfg /\ cli'[c].newpol = cli[c].newpol /\ {} \cap Syncs = {}
  BY <1>2, <1>3 DEF Carries, Fields
<1>7. /\ TreeOK(tree') /\ tree'.yaml = tree.yaml /\ tree'.state = tree.state
      /\ tree.state => tree'.policy = cli[c].newpol
  <2>1. cli[c].newpol \in {"absent", "torn", "default", "edited"}
    BY <1>2 DEF Fields, Policies
  <2> QED
    BY <1>1, <1>2, <2>1, PolicyFacts
<1>8. cli[c].newpol \in Policies
  BY <1>2 DEF Fields
<1>9. owed' = owed \/ owed' \in Debts
  BY <1>1, <1>2, <1>8, EditedFacts
<1>10. cli[c].cmd[1] \in DullOps
  BY <1>2 DEF DullOps
<1>11. ASSUME SettingsOK(cli[c], tree, owed) PROVE SettingsOK(cli'[c], tree', owed')
  <2>1. "vacant" \notin S /\ "load" \notin S /\ "remove_dir" \notin S
    BY <1>2, <1>11 DEF SettingsOK
  <2>2. "vacant" \notin T /\ "load" \notin T /\ "remove_dir" \notin T /\ "policy" \notin T
    BY <1>5, <2>1
  <2>3. CASE cli[c].cmd[1] \in {"init", "force"}
    <3>1. ~owed.bound /\ owed' = owed
      BY <1>1, <1>11, <2>1, <2>3 DEF SettingsOK
    <3> QED
      BY <1>6, <2>2, <2>3, <3>1 DEF SettingsOK, QuietOK
  <2>4. CASE cli[c].cmd[1] = "keep"
    <3>1. KeepOK(cli[c], tree, owed) /\ owed' = owed
      BY <1>1, <1>11, <2>1, <2>4 DEF SettingsOK
    <3>2. "restore_policy" \notin S => "make_dirs" \notin S
      BY <1>2, <2>4, ResetInOrder
    <3>3. /\ "restore_policy" \in T <=> "restore_policy" \in S
          /\ "restore_config" \in T <=> "restore_config" \in S
          /\ "make_dirs" \in T <=> "make_dirs" \in S
          /\ "yaml" \in T <=> "yaml" \in S
      BY <1>5
    <3>4. KeepOK(cli'[c], tree', owed)
      BY <1>2, <1>6, <1>7, <2>2, <3>1, <3>2, <3>3 DEF KeepOK
    <3> QED
      BY <1>6, <2>2, <2>4, <3>1, <3>4 DEF SettingsOK
  <2>5. CASE cli[c].cmd[1] = "policy"
    <3>1. LoadedOK(cli[c], tree, owed) /\ owed' = Edited(owed, cli[c].newpol)
      BY <1>1, <1>11, <2>1, <2>5 DEF SettingsOK
    <3>2. /\ owed'.policy = cli[c].newpol /\ owed'.bound = owed.bound /\ owed'.bind = owed.bind
          /\ owed'.wait = owed.wait
      BY <1>2, <1>8, <3>1, EditedFacts
    <3>3. ("stored" \in T <=> "stored" \in S) /\ ("yaml" \in T <=> "yaml" \in S)
      BY <1>5
    <3>4. LoadedOK(cli'[c], tree', owed')
      BY <1>2, <1>6, <1>7, <2>2, <3>1, <3>2, <3>3 DEF LoadedOK, SameSettings
    <3> QED
      BY <1>6, <2>2, <2>5, <3>4 DEF SettingsOK
  <2> QED
    BY <1>2, <2>3, <2>4, <2>5
<1> HIDE DEF S, T
<1> QED
  BY <1>1, <1>3, <1>4, <1>6, <1>7, <1>9, <1>10, <1>11, DullMoves

-----------------------------------------------------------------------------
\* Writing config.yaml in a layout.
LEMMA LayoutYaml ==
  ASSUME Inv, NEW c \in Clis, cli[c].todo # <<>>,
         Head(cli[c].todo) \in {"default_config", "restore_config"},
         NEW cfg \in Configs, WriteYaml(c, cfg, Rest(c), [x \in {} |-> 0]),
         Head(cli[c].todo) = "restore_config" => cfg = cli[c].cfg
  PROVE  Moved(c)
<1> DEFINE S == Left(cli[c].todo)
<1> DEFINE T == Left(cli'[c].todo)
<1> DEFINE h == Head(cli[c].todo)
<1>1. CliTable /\ TreeOK(tree) /\ Fields(cli[c]) /\ CourseOK(cli[c].cmd, cli[c].todo)
  BY Setting
<1>2. /\ cli[c].cmd[1] \in {"init", "force", "keep"} /\ cli[c].cmd[1] \in DullOps
      /\ "yaml" \in Own(cli[c].cmd[1]) /\ h # "done" /\ h \notin Quick
      /\ h = "restore_config" => cli[c].cmd[1] = "keep"
  <2>1. cli[c].cmd \in Lines /\ h \in Own(cli[c].cmd[1])
    BY Setting
  <2>2. /\ cli[c].cmd[1] \in {"init", "force", "keep"}
        /\ h = "restore_config" => cli[c].cmd[1] = "keep"
    BY <2>1, Whose
  <2> QED
    BY <2>2 DEF DullOps, Own, LayoutSteps, Quick
<1>3. /\ "vacant" \notin S /\ "load" \notin S /\ "remove_dir" \notin S /\ "make_dirs" \notin S
      /\ "yaml" \notin S /\ "policy" \notin S
  BY LayoutOver
<1>4. CASE ~tree.state
  <2>1. Quit(c, "failed")
    BY <1>4 DEF WriteYaml
  <2>2. Settled(cli[c], tree) /\ "failed" # "invalid"
    BY <1>3, <1>4 DEF Settled
  <2> QED
    BY <1>2, <2>1, <2>2, QuitMoves
<1>5. CASE tree.state
  <2>1. /\ tree' = TornYaml(tree) /\ Step(c, <<"yaml">> \o Rest(c), YamlChanges([x \in {} |-> 0], cfg))
        /\ UNCHANGED <<owed, bot, scene, disturbed>>
    BY <1>5 DEF WriteYaml, TornYaml, YamlChanges, Others
  <2>2. TreeOK(tree') /\ Halved(tree, tree')
    BY <1>1, <2>1, TornFacts
  <2>3. Only(c) /\ Becomes(cli[c], <<"yaml">> \o Rest(c), YamlChanges([x \in {} |-> 0], cfg), cli'[c])
    BY <1>1, <2>1, StepChanges
  <2>4. /\ cli'[c].todo = <<"yaml">> \o Tail(cli[c].todo) /\ cli'[c].newcfg = cfg
        /\ Carries(cli[c], cli'[c], {"newcfg"})
    BY <2>3 DEF Becomes, Carries, Rest, YamlChanges
  <2>5. /\ CourseOK(cli[c].cmd, cli'[c].todo) /\ cli'[c].todo # <<>>
        /\ Onward(cli[c].cmd[1], cli[c].todo, cli'[c].todo, {"yaml"})
    <3>1. LET s == cli[c].todo
          IN  /\ CourseOK(cli[c].cmd, <<"yaml">> \o Tail(s)) /\ <<"yaml">> \o Tail(s) # <<>>
              /\ Onward(cli[c].cmd[1], s, <<"yaml">> \o Tail(s), {"yaml"})
      BY <1>1, <1>2, QuickCourse
    <3> QED
      BY <2>4, <3>1
  <2>6. T = (S \ {h}) \cup {"yaml"}
    BY <2>5 DEF Onward
  <2>7. /\ Fields(cli'[c]) /\ cli'[c].cmd = cli[c].cmd /\ cli'[c].out = cli[c].out
        /\ cli'[c].stage = cli[c].stage /\ cli'[c].cfg = cli[c].cfg /\ cli'[c].pol = cli[c].pol
        /\ cli'[c].newpol = cli[c].newpol /\ {"yaml"} \cap Syncs = {}
    BY <1>1, <2>4 DEF Carries, Fields, Syncs
  <2>8. ASSUME SettingsOK(cli[c], tree, owed) PROVE SettingsOK(cli'[c], tree', owed')
    <3>0. owed' = owed
      BY <2>1
    <3>1. "vacant" \notin T /\ "load" \notin T /\ "remove_dir" \notin T /\ "yaml" \in T /\ "policy" \notin T
      BY <1>3, <2>6
    <3>2. CASE cli[c].cmd[1] \in {"init", "force"}
      <4>1. ~owed.bound
        BY <1>3, <2>8, <3>2 DEF SettingsOK
      <4> QED
        BY <2>7, <3>0, <3>1, <3>2, <4>1 DEF SettingsOK, QuietOK
    <3>3. CASE cli[c].cmd[1] = "keep"
      <4>1. KeepOK(cli[c], tree, owed)
        BY <1>3, <2>8, <3>3 DEF SettingsOK
      <4>2. "restore_policy" \in S /\ "restore_config" \in S
        BY <3>3, LayoutAhead
      <4>3. "restore_config" \notin T => h = "restore_config"
        BY <2>6, <4>2
      <4>4. "restore_policy" \in T
        BY <2>6, <4>2
      <4>5. KeepOK(cli'[c], tree', owed)
        BY <1>3, <1>5, <2>2, <2>4, <2>7, <3>1, <4>1, <4>3, <4>4 DEF KeepOK, Halved
      <4> QED
        BY <2>7, <3>0, <3>1, <3>3, <4>5 DEF SettingsOK
    <3> QED
      BY <1>2, <3>2, <3>3
  <2> HIDE DEF S, T, h
  <2> QED
    BY <1>2, <2>1, <2>2, <2>3, <2>5, <2>7, <2>8, DullMoves
<1> QED
  BY <1>4, <1>5

LEMMA DefaultConfigMoves == ASSUME Inv, NEW c \in Clis, WriteDefaultConfig(c) PROVE Moved(c)
<1>1. /\ cli[c].todo # <<>> /\ Head(cli[c].todo) = "default_config"
      /\ WriteYaml(c, DefaultConfig, Rest(c), [x \in {} |-> 0])
  BY DEF WriteDefaultConfig, Doing
<1> QED
  BY <1>1, DefaultTypes, LayoutYaml

LEMMA RestoreConfigMoves == ASSUME Inv, NEW c \in Clis, RestoreConfig(c) PROVE Moved(c)
<1>1. /\ cli[c].todo # <<>> /\ Head(cli[c].todo) = "restore_config"
      /\ WriteYaml(c, cli[c].cfg, Rest(c), [x \in {} |-> 0])
  BY DEF RestoreConfig, Doing
<1>2. cli[c].cfg \in Configs
  BY <1>1, Setting DEF Fields
<1> QED
  BY <1>1, <1>2, LayoutYaml

-----------------------------------------------------------------------------
\* Loading the runtime.
LEMMA LoadMoves == ASSUME Inv, NEW c \in Clis, LoadRuntime(c) PROVE Moved(c)
<1> DEFINE S == Left(cli[c].todo)
<1> DEFINE T == Left(cli'[c].todo)
<1>1. /\ cli[c].todo # <<>> /\ Head(cli[c].todo) = "load"
      /\ IF Loadable THEN Go(c, Rest(c), [cfg |-> tree.yaml.cfg, pol |-> tree.policy])
                     ELSE Quit(c, "failed")
  BY DEF LoadRuntime, Doing
<1>2. /\ CliTable /\ TreeOK(tree) /\ Fields(cli[c]) /\ CourseOK(cli[c].cmd, cli[c].todo)
      /\ cli[c].cmd \in Lines /\ "load" \in S /\ InOrder(cli[c].cmd[1], cli[c].todo)
      /\ cli[c].cmd[1] \notin {"init", "force", "purge_at"}
  BY <1>1, Setting, Whose
<1>3. "load" \notin Quick /\ "load" # "done" /\ "load" # "stop_others" /\ "load" \notin BridgeMarks
  BY DEF Quick, BridgeMarks
<1>4. Place(cli[c].cmd[1], Head(cli[c].todo)) \in 0..20 /\ Place(cli[c].cmd[1], Head(cli[c].todo)) < 20
  <2>1. Place(cli[c].cmd[1], "load") = 2
    BY Places
  <2>2. Place(cli[c].cmd[1], Head(cli[c].todo)) = 2
    BY <1>1, <2>1
  <2> QED
    BY <2>2
<1>5. CASE ~Loadable
  <2>1. Settled(cli[c], tree) /\ "failed" # "invalid" /\ Quit(c, "failed")
    BY <1>1, <1>2, <1>5 DEF Settled
  <2> QED
    BY <1>1, <1>3, <2>1, QuitMoves
<1>6. CASE Loadable
  <2> DEFINE ch == [cfg |-> tree.yaml.cfg, pol |-> tree.policy]
  <2>1. Step(c, Rest(c), ch) /\ UNCHANGED <<tree, owed, bot, scene, disturbed>>
    BY <1>1, <1>6 DEF Go, Others
  <2>2. Only(c) /\ Becomes(cli[c], Rest(c), ch, cli'[c])
    BY <1>2, <2>1, StepChanges
  <2>3. /\ cli'[c].todo = Rest(c) /\ cli'[c].cfg = tree.yaml.cfg /\ cli'[c].pol = tree.policy
        /\ Carries(cli[c], cli'[c], {"cfg", "pol"})
    BY <2>2 DEF Becomes, Carries
  <2>4. /\ Onward(cli[c].cmd[1], cli[c].todo, cli'[c].todo, {}) /\ CourseOK(cli[c].cmd, cli'[c].todo)
        /\ cli'[c].todo # <<>>
    BY <1>1, <1>3, <2>3, RestCourse
  <2>5. T = S \ {"load"}
    BY <1>1, <2>4 DEF Onward
  <2>6. /\ Fields(cli'[c]) /\ cli'[c].cmd = cli[c].cmd /\ cli'[c].out = cli[c].out
        /\ cli'[c].stage = cli[c].stage /\ {} \cap Syncs = {} /\ "home" \notin {}
    <3>1. tree.yaml.cfg \in Configs /\ tree.policy \in Policies
      BY <1>2, <1>6 DEF TreeOK, Trees, Loadable, Policies
    <3> QED
      BY <1>2, <2>3, <3>1 DEF Carries, Fields
  <2>7. "yaml" \notin S /\ "policy" \notin S /\ "stored" \notin S
    BY <1>1, <1>2, <1>3, NoQuick DEF Quick
  <2>8. tree.state /\ tree.yaml.state = "ok" /\ tree.policy \in {"default", "edited"}
    BY <1>2, <1>6 DEF TreeOK, Loadable
  <2>9. ASSUME SettingsOK(cli[c], tree, owed) PROVE SettingsOK(cli'[c], tree', owed')
    <3>0. tree' = tree /\ owed' = owed
      BY <2>1
    <3>1. QuietOK(tree, owed) /\ (owed.bound => SameSettings(tree.yaml.cfg, owed) /\ owed.policy = tree.policy)
      BY <1>2, <2>8, <2>9 DEF SettingsOK, QuietOK, Stored
    <3>2. "load" \notin T /\ "yaml" \notin T /\ "policy" \notin T /\ "stored" \notin T
      BY <2>5, <2>7
    <3>3. CASE cli[c].cmd[1] = "purge"
      BY <2>6, <3>0, <3>1, <3>2, <3>3 DEF SettingsOK
    <3>4. CASE cli[c].cmd[1] = "keep"
      <4>1. "restore_policy" \in T /\ "restore_config" \in T /\ "make_dirs" \in T
        BY <1>1, <2>5, <3>4, LayoutAhead
      <4>2. KeepOK(cli'[c], tree, owed)
        BY <2>3, <2>8, <3>1, <4>1 DEF KeepOK
      <4> QED
        BY <2>6, <3>0, <3>2, <3>4, <4>2 DEF SettingsOK
    <3>5. CASE cli[c].cmd[1] \in {"setup", "remove", "status", "run", "update", "policy"}
      <4>1. LoadedOK(cli'[c], tree, owed)
        BY <2>3, <2>8, <3>1, <3>2 DEF LoadedOK, SameSettings
      <4> QED
        BY <2>6, <3>0, <3>2, <3>5, <4>1 DEF SettingsOK
    <3> QED
      BY <1>2, <3>3, <3>4, <3>5, LineKinds
  <2>10. HomeOK(cli'[c], tree')
    <3>1. Sooner(c)
      BY <1>1, <1>3, Soon
    <3> QED
      BY <1>1, <1>3, <2>4, <2>6, <3>1, EarlyHome
  <2>11. BridgeOK(cli'[c], tree', bot)
    <3>1. Head(cli[c].todo) \notin Quick \cup BridgeMarks
      BY <1>1, <1>3
    <3> QED
      BY <1>1, <1>4, <2>4, <2>6, <3>1, EarlyBridges, Zenon
  <2>12. /\ Head(cli[c].todo) # "stop_others" /\ Head(cli[c].todo) \notin Quick
         /\ cli'[c].stage = cli[c].stage \/ cli'[c].stage \notin {"synced", "unsynced"}
         /\ TreeOK(tree') /\ owed' = owed
    BY <1>1, <1>2, <1>3, <2>1, <2>6
  <2> HIDE DEF ch, S, T
  <2> QED
    BY <1>1, <1>4, <2>1, <2>2, <2>4, <2>6, <2>9, <2>10, <2>11, <2>12, Advances DEF Mine
<1> QED
  BY <1>5, <1>6

-----------------------------------------------------------------------------
\* Removing the runtime directory.
LEMMA WithoutFacts ==
  ASSUME NEW t, TreeOK(t), NEW part \in Parts
  PROVE  TreeOK(Without(t, part))
<1>1. Nothing \in Trees
  BY DefaultTypes
<1>2. /\ Nothing.yaml \in [state : {"absent", "torn", "ok"}, cfg : Configs] /\ Nothing.yaml.state = "absent"
      /\ Nothing.home \in [Runners -> Homes] /\ Nothing.channel \in [Bridged -> Nat]
      /\ Nothing.pidfile \in [Bridged -> Nat] /\ Nothing.log \in [Bridged -> BOOLEAN]
  BY <1>1 DEF Trees, Nothing
<1>3. CASE part = "state"
  <2>1. Without(t, part) = [t EXCEPT !.state = FALSE, !.yaml = Nothing.yaml, !.policy = "absent"]
    BY <1>3 DEF Without
  <2> QED
    BY <1>2, <2>1 DEF TreeOK, Trees
<1>4. CASE part = "workspace"
  <2>1. Without(t, part) = [t EXCEPT !.workspace = FALSE]
    BY <1>4 DEF Without
  <2> QED
    BY <2>1 DEF TreeOK, Trees
<1>5. CASE part = "homes"
  <2>1. Without(t, part) = [t EXCEPT !.home = Nothing.home]
    BY <1>5 DEF Without
  <2> QED
    BY <1>2, <2>1 DEF TreeOK, Trees
<1>6. CASE part = "bridges"
  <2>1. Without(t, part) = [t EXCEPT !.channel = Nothing.channel, !.pidfile = Nothing.pidfile,
                                     !.log = Nothing.log]
    BY <1>6 DEF Without
  <2> QED
    BY <1>2, <2>1 DEF TreeOK, Trees
<1> QED
  BY <1>3, <1>4, <1>5, <1>6 DEF Parts

LEMMA RemoveMoves == ASSUME Inv, NEW c \in Clis, RemoveDirAll(c) PROVE Moved(c)
<1> DEFINE S == Left(cli[c].todo)
<1>1. /\ cli[c].todo # <<>> /\ Head(cli[c].todo) = "remove_dir"
      /\ \/ tree' = Nothing /\ Step(c, Rest(c), [x \in {} |-> 0])
         \/ \E part \in Parts : tree' = Without(tree, part) /\ cli' = cli
      /\ owed' = (IF cli[c].cmd[1] = "keep" THEN owed ELSE NoDebt)
      /\ UNCHANGED <<bot, scene, disturbed>>
  BY DEF RemoveDirAll, Doing, Others
<1>2. /\ CliTable /\ TreeOK(tree) /\ Fields(cli[c]) /\ CourseOK(cli[c].cmd, cli[c].todo) /\ LocalOK(cli[c])
      /\ InOrder(cli[c].cmd[1], cli[c].todo) /\ cli[c].cmd[1] \in {"force", "keep", "purge", "purge_at"}
      /\ S \subseteq Own(cli[c].cmd[1]) /\ BotsOK(bot) /\ bot = [b \in Bots |-> bot[b]]
  BY <1>1, Setting, Whose
<1>3. NoDebt \in Debts /\ ~NoDebt.bound
  BY DEF NoDebt, Settings, Debts, DefaultConfig, Binds, Hosts
<1>4. cli[c].cmd[1] \in DullOps /\ "remove_dir" # "done" /\ "remove_dir" \notin Quick
  BY <1>2 DEF DullOps, Quick
<1>5. owed' = owed \/ owed' \in Debts
  BY <1>1, <1>3
<1>6. "load" \notin S /\ "yaml" \notin S /\ "policy" \notin S
  <2>1. LET op == cli[c].cmd[1] IN Place(op, "load") = 2 /\ Place(op, "remove_dir") = 3
    BY Places
  <2>2. Place(cli[c].cmd[1], "load") < Place(cli[c].cmd[1], Head(cli[c].todo)) /\ "load" # Head(cli[c].todo)
    BY <1>1, <2>1
  <2>3. "load" \notin S
    BY <1>1, <2>2, Behind
  <2> QED
    BY <1>1, <1>2, <1>4, <2>3, NoQuick DEF Quick
<1>7. cli[c].cmd[1] = "keep" => "restore_policy" \in S /\ "restore_config" \in S /\ "make_dirs" \in S
  BY <1>1, LayoutAhead
<1>8. ASSUME NEW you, you.cmd = cli[c].cmd, you.cfg = cli[c].cfg, you.pol = cli[c].pol,
             S \ {"remove_dir"} \subseteq Left(you.todo), Left(you.todo) \subseteq S, NEW u,
             SettingsOK(cli[c], tree, owed)
      PROVE  SettingsOK(you, u, owed')
  <2>1. "load" \notin Left(you.todo) /\ "yaml" \notin Left(you.todo) /\ "policy" \notin Left(you.todo)
    BY <1>6, <1>8
  <2>2. CASE cli[c].cmd[1] = "keep"
    <3>1. KeepOK(cli[c], tree, owed) /\ owed' = owed
      BY <1>1, <1>6, <1>8, <2>2 DEF SettingsOK
    <3>2. /\ "restore_policy" \in Left(you.todo) /\ "restore_config" \in Left(you.todo)
          /\ "make_dirs" \in Left(you.todo)
      BY <1>7, <1>8, <2>2
    <3>3. KeepOK(you, u, owed)
      BY <1>8, <3>1, <3>2 DEF KeepOK
    <3> QED
      BY <1>8, <2>1, <2>2, <3>1, <3>3 DEF SettingsOK
  <2>3. CASE cli[c].cmd[1] \in {"force", "purge", "purge_at"}
    <3>1. ~owed'.bound
      BY <1>1, <1>3, <2>3
    <3> QED
      BY <1>8, <2>1, <2>3, <3>1 DEF SettingsOK, QuietOK
  <2> QED
    BY <1>2, <2>2, <2>3
<1>9. CASE tree' = Nothing /\ Step(c, Rest(c), [x \in {} |-> 0])
  <2>1. Only(c) /\ Carries(cli[c], cli'[c], {}) /\ cli'[c].todo = Rest(c)
    BY <1>2, <1>9, StepChanges, PlainStep
  <2>2. /\ Onward(cli[c].cmd[1], cli[c].todo, cli'[c].todo, {}) /\ CourseOK(cli[c].cmd, cli'[c].todo)
        /\ cli'[c].todo # <<>>
    BY <1>1, <1>4, <2>1, RestCourse
  <2>3. Left(cli'[c].todo) = S \ {"remove_dir"}
    BY <1>1, <2>2 DEF Onward
  <2>4. /\ Fields(cli'[c]) /\ cli'[c].cmd = cli[c].cmd /\ cli'[c].out = cli[c].out
        /\ cli'[c].stage = cli[c].stage /\ cli'[c].cfg = cli[c].cfg /\ cli'[c].pol = cli[c].pol
        /\ {} \cap Syncs = {}
    BY <1>2, <2>1 DEF Carries, Fields
  <2>5. TreeOK(tree')
    BY <1>9, DefaultTypes DEF TreeOK, Nothing
  <2>6. SettingsOK(cli[c], tree, owed) => SettingsOK(cli'[c], tree', owed')
    BY <1>8, <2>3, <2>4
  <2> HIDE DEF S
  <2> QED
    BY <1>1, <1>4, <1>5, <2>1, <2>2, <2>4, <2>5, <2>6, DullMoves
<1>10. CASE \E part \in Parts : tree' = Without(tree, part) /\ cli' = cli
  <2>1. TreeOK(tree') /\ cli' = cli
    BY <1>2, <1>10, WithoutFacts
  <2>2. Only(c)
    BY <1>2, <2>1 DEF Only, CliTable
  <2>3. SettingsOK(cli[c], tree, owed) => SettingsOK(cli'[c], tree', owed')
    BY <1>8, <2>1
  <2>4. HomeOK(cli'[c], tree') /\ BridgeOK(cli'[c], tree', bot')
    BY <1>2, <1>4, <2>1, DullRest
  <2>5. LocalOK(cli'[c]) /\ BotsOK(bot') /\ bot' = [b \in Bots |-> bot'[b]]
    BY <1>1, <1>2, <2>1
  <2> QED
    BY <1>1, <1>5, <2>1, <2>2, <2>3, <2>4, <2>5 DEF Moved, Mine
<1> QED
  BY <1>1, <1>9, <1>10

-----------------------------------------------------------------------------
\* The second half of writing config.yaml, and storing the settings.
LEMMA StoredNext ==
  ASSUME Inv, NEW c \in Clis, cli[c].todo # <<>>, Head(cli[c].todo) = "yaml"
  PROVE  /\ Rest(c) # <<>> /\ CourseOK(cli[c].cmd, Rest(c))
         /\ Left(Rest(c)) = Left(cli[c].todo) \ {"yaml"}
         /\ Head(Rest(c)) = "stored" <=> "stored" \in Left(cli[c].todo)
<1>1. /\ Onward(cli[c].cmd[1], cli[c].todo, Rest(c), {}) /\ CourseOK(cli[c].cmd, Rest(c))
      /\ Rest(c) # <<>>
  BY RestCourse
<1>2. InOrder(cli[c].cmd[1], Rest(c)) /\ Left(Rest(c)) = Left(cli[c].todo) \ {"yaml"}
  BY <1>1 DEF Onward
<1>3. /\ Head(Rest(c)) \in Left(Rest(c))
      /\ \A x \in Left(Rest(c)) : x = Head(Rest(c)) \/ Place(cli[c].cmd[1], Head(Rest(c))) < Place(cli[c].cmd[1], x)
  BY <1>1, <1>2, Ahead
<1>4. ASSUME "stored" \in Left(cli[c].todo) PROVE Head(Rest(c)) = "stored"
  <2>1. SUFFICES ASSUME Head(Rest(c)) # "stored" PROVE FALSE
    OBVIOUS
  <2>2. Place(cli[c].cmd[1], "stored") = 1 /\ Place(cli[c].cmd[1], "yaml") = 0
    BY Places
  <2>3. Place(cli[c].cmd[1], Head(Rest(c))) < Place(cli[c].cmd[1], "stored")
    BY <1>2, <1>3, <1>4, <2>1
  <2>4. InOrder(cli[c].cmd[1], cli[c].todo)
    BY Setting
  <2>5. LET s == cli[c].todo
        IN  \A x \in Left(Tail(s)) : Place(cli[c].cmd[1], Head(s)) < Place(cli[c].cmd[1], x)
    BY <2>4, Ahead
  <2>6. Place(cli[c].cmd[1], "yaml") < Place(cli[c].cmd[1], Head(Rest(c)))
    BY <1>3, <2>5 DEF Rest
  <2>7. Place(cli[c].cmd[1], Head(Rest(c))) \in 0..40
    BY PlaceNat
  <2>8. \A n \in 0..40 : ~(0 < n /\ n < 1)
    OBVIOUS
  <2>9. Place(cli[c].cmd[1], Head(Rest(c))) < 1 /\ 0 < Place(cli[c].cmd[1], Head(Rest(c)))
    BY <2>2, <2>3, <2>6
  <2> QED
    BY <2>7, <2>8, <2>9
<1> QED
  BY <1>1, <1>2, <1>3, <1>4

Saved(t, cfg) == [t EXCEPT !.yaml = [state |-> "ok", cfg |-> cfg]]
LEMMA SavedFacts ==
  ASSUME NEW t, TreeOK(t), t.state, NEW cfg \in Configs
  PROVE  /\ TreeOK(Saved(t, cfg)) /\ Saved(t, cfg).yaml.state = "ok" /\ Saved(t, cfg).yaml.cfg = cfg
         /\ Saved(t, cfg).policy = t.policy /\ Saved(t, cfg).state = t.state /\ Saved(t, cfg).made = t.made
         /\ Saved(t, cfg).channel = t.channel /\ Saved(t, cfg).home = t.home
         /\ Saved(t, cfg).workspace = t.workspace
<1> DEFINE y == [state |-> "ok", cfg |-> cfg]
<1>1. y \in [state : {"absent", "torn", "ok"}, cfg : Configs] /\ y.state = "ok" /\ y.cfg = cfg
  OBVIOUS
<1>2. Saved(t, cfg) = [t EXCEPT !.yaml = y]
  BY DEF Saved
<1> HIDE DEF y
<1> QED
  BY <1>1, <1>2 DEF TreeOK, Trees

\* What is owed once the settings are stored.
Owing(t, o, cfg) == Settings(cfg, IF o.bound THEN o.policy ELSE t.policy)
LEMMA OwingFacts ==
  ASSUME NEW t, TreeOK(t), NEW o \in Debts, NEW cfg \in Configs
  PROVE  /\ Owing(t, o, cfg) \in Debts /\ Owing(t, o, cfg).bound /\ SameSettings(cfg, Owing(t, o, cfg))
         /\ Owing(t, o, cfg).policy = IF o.bound THEN o.policy ELSE t.policy
<1>1. /\ o.policy \in {"absent", "torn", "default", "edited"}
      /\ t.policy \in {"absent", "torn", "default", "edited"} /\ cfg.bind \in Binds /\ cfg.wait \in Nat
  BY DEF Debts, TreeOK, Trees, Configs
<1> QED
  BY <1>1 DEF Owing, Settings, Debts, SameSettings

\* From one half to the other the copy of the settings becomes the file.
YamlDone(t, u, cfg) ==
    /\ u.policy = t.policy /\ u.state = t.state /\ u.made = t.made /\ u.channel = t.channel
    /\ u.home = t.home /\ u.workspace = t.workspace
    /\ t.state => u.yaml.state = "ok" /\ u.yaml.cfg = cfg
LEMMA YamlSettings ==
  ASSUME NEW me, NEW you, NEW t, NEW u, NEW o, NEW p, SettingsOK(me, t, o), me.cmd \in Lines,
         CourseOK(me.cmd, me.todo), "yaml" \in Left(me.todo), TreeOK(t), Carries(me, you, {}),
         Left(you.todo) = Left(me.todo) \ {"yaml", "stored"}, YamlDone(t, u, me.newcfg),
         IF "stored" \in Left(me.todo)
         THEN p.bound /\ SameSettings(me.newcfg, p) /\ p.policy = (IF o.bound THEN o.policy ELSE t.policy)
         ELSE p = o
  PROVE  SettingsOK(you, u, p)
<1> DEFINE S == Left(me.todo)
<1> DEFINE T == Left(you.todo)
<1>1. /\ "vacant" \notin S /\ "load" \notin S /\ "remove_dir" \notin S
  BY DEF SettingsOK
<1>2. /\ "vacant" \notin T /\ "load" \notin T /\ "remove_dir" \notin T /\ "yaml" \notin T /\ "stored" \notin T
      /\ "policy" \in T <=> "policy" \in S
      /\ "make_dirs" \in T <=> "make_dirs" \in S
      /\ "restore_config" \in T <=> "restore_config" \in S
      /\ "restore_policy" \in T <=> "restore_policy" \in S
  BY <1>1
<1>3. /\ you.cmd = me.cmd /\ you.cfg = me.cfg /\ you.pol = me.pol /\ you.newcfg = me.newcfg
      /\ you.newpol = me.newpol
  BY DEF Carries
<1>4. S \subseteq Own(me.cmd[1]) /\ "yaml" \in Own(me.cmd[1])
  BY DEF CourseOK
<1>5. CASE me.cmd[1] \in {"init", "force"}
  <2>1. "stored" \notin S
    BY <1>4, <1>5 DEF Own, LayoutSteps
  <2>2. ~o.bound /\ p = o
    BY <1>1, <1>5, <2>1 DEF SettingsOK
  <2> QED
    BY <1>2, <1>3, <1>5, <2>2 DEF SettingsOK, QuietOK
<1>6. CASE me.cmd[1] = "keep"
  <2>1. "stored" \notin S
    BY <1>4, <1>6 DEF Own, LayoutSteps
  <2>2. KeepOK(me, t, o) /\ p = o
    BY <1>1, <1>6, <2>1 DEF SettingsOK
  <2>3. "restore_config" \notin S => "make_dirs" \notin S
    BY <1>6, ResetInOrder
  <2>4. KeepOK(you, u, o)
    BY <1>2, <1>3, <2>2, <2>3 DEF KeepOK, YamlDone
  <2> QED
    BY <1>2, <1>3, <1>6, <2>2, <2>4 DEF SettingsOK
<1>7. CASE me.cmd[1] \in WritingOps
  <2>1. LoadedOK(me, t, o)
    BY <1>1, <1>7 DEF SettingsOK, WritingOps
  <2>2. t.state /\ me.newcfg = me.cfg /\ u.yaml.state = "ok" /\ u.yaml.cfg = me.cfg /\ u.state
        /\ u.policy = t.policy
    BY <2>1 DEF LoadedOK, YamlDone
  <2>3. p.bound => SameSettings(me.cfg, p)
    BY <2>1, <2>2 DEF LoadedOK
  <2>4. p.bound /\ "policy" \notin S => p.policy = t.policy
    BY <2>1 DEF LoadedOK
  <2>5. /\ "policy" \notin S => t.policy \in {"default", "edited"}
        /\ "policy" \in S => me.newpol \in {"default", "edited"} /\ me.cmd[1] = "policy"
    BY <2>1 DEF LoadedOK
  <2>6. LoadedOK(you, u, p)
    BY <1>2, <1>3, <2>2, <2>3, <2>4, <2>5 DEF LoadedOK, SameSettings
  <2> QED
    BY <1>2, <1>3, <1>7, <2>6 DEF SettingsOK, WritingOps
<1> QED
  BY <1>4, <1>5, <1>6, <1>7, Whose DEF WritingOps

LEMMA YamlWrittenMoves == ASSUME Inv, NEW c \in Clis, YamlWritten(c) PROVE Moved(c)
<1> DEFINE S == Left(cli[c].todo)
<1> DEFINE T == Left(cli'[c].todo)
<1> DEFINE stored == Rest(c) # <<>> /\ Head(Rest(c)) = "stored"
<1> DEFINE todo == IF stored THEN Tail(Rest(c)) ELSE Rest(c)
<1>1. /\ cli[c].todo # <<>> /\ Head(cli[c].todo) = "yaml"
      /\ tree' = (IF tree.state THEN Saved(tree, cli[c].newcfg) ELSE tree)
      /\ Step(c, todo, [x \in {} |-> 0])
      /\ owed' = (IF stored THEN Owing(tree, owed, cli[c].newcfg) ELSE owed)
      /\ UNCHANGED <<bot, scene, disturbed>>
  BY DEF YamlWritten, Doing, Saved, Others, Owing
<1>2. /\ CliTable /\ TreeOK(tree) /\ Fields(cli[c]) /\ CourseOK(cli[c].cmd, cli[c].todo)
      /\ LocalOK(cli[c]) /\ cli[c].cmd \in Lines /\ owed \in Debts /\ "yaml" \in S
      /\ BotsOK(bot) /\ bot = [b \in Bots |-> bot[b]]
  BY <1>1, Setting
<1>3. /\ Rest(c) # <<>> /\ CourseOK(cli[c].cmd, Rest(c)) /\ Left(Rest(c)) = S \ {"yaml"}
      /\ Head(Rest(c)) = "stored" <=> "stored" \in S
  BY <1>1, StoredNext
<1>4. cli[c].newcfg \in Configs
  BY <1>2 DEF Fields
<1>5. Only(c) /\ Carries(cli[c], cli'[c], {}) /\ cli'[c].todo = todo
  <2> HIDE DEF todo, stored
  <2> QED
    BY <1>1, <1>2, StepChanges, PlainStep
<1>6. TreeOK(tree') /\ YamlDone(tree, tree', cli[c].newcfg)
  <2>1. CASE tree.state
    <3>1. tree' = Saved(tree, cli[c].newcfg)
      BY <1>1, <2>1
    <3>2. /\ TreeOK(tree') /\ tree'.yaml.state = "ok" /\ tree'.yaml.cfg = cli[c].newcfg
          /\ tree'.policy = tree.policy /\ tree'.state = tree.state /\ tree'.made = tree.made
          /\ tree'.channel = tree.channel /\ tree'.home = tree.home /\ tree'.workspace = tree.workspace
      BY <1>2, <1>4, <2>1, <3>1, SavedFacts
    <3> QED
      BY <3>2 DEF YamlDone
  <2>2. CASE ~tree.state
    BY <1>1, <1>2, <2>2 DEF YamlDone
  <2> QED
    BY <2>1, <2>2
<1>7. /\ IF "stored" \in S
         THEN /\ owed' \in Debts /\ owed'.bound /\ SameSettings(cli[c].newcfg, owed')
              /\ owed'.policy = (IF owed.bound THEN owed.policy ELSE tree.policy)
         ELSE owed' = owed
      /\ owed' = owed \/ owed' \in Debts
  BY <1>1, <1>2, <1>3, <1>4, OwingFacts
<1>8. /\ cli'[c].cmd = cli[c].cmd /\ cli'[c].out = cli[c].out /\ cli'[c].stage = cli[c].stage
      /\ cli'[c].cfg = cli[c].cfg /\ cli'[c].newhome = cli[c].newhome /\ Fields(cli'[c])
  BY <1>2, <1>5 DEF Carries, Fields
<1>9. "yaml" \notin Syncs /\ "yaml" # "stop_others" /\ "stored" # "stop_others" /\ "stored" # "done"
  BY DEF Syncs
<1> DEFINE mid == [cmd |-> cli[c].cmd, cfg |-> cli[c].cfg, newcfg |-> cli[c].newcfg, pol |-> cli[c].pol,
                   newpol |-> cli[c].newpol, newhome |-> cli[c].newhome, stage |-> cli[c].stage,
                   todo |-> Rest(c)]
<1>10. /\ mid.cmd = cli[c].cmd /\ Fields(mid) /\ mid.todo = Rest(c) /\ mid.cfg = cli[c].cfg
       /\ mid.stage = cli[c].stage
  BY <1>2 DEF Fields
<1> HIDE DEF mid
<1>11. LocalOK(mid)
  <2>1. Onward(cli[c].cmd[1], cli[c].todo, mid.todo, {}) /\ {} \cap Syncs = {} /\ CourseOK(cli[c].cmd, mid.todo)
    BY <1>1, <1>3, <1>10, RestCourse
  <2>2. /\ mid.cfg.runner = cli[c].cfg.runner /\ Head(cli[c].todo) # "stop_others"
        /\ mid.stage = cli[c].stage \/ mid.stage \notin {"synced", "unsynced"}
    BY <1>1, <1>10
  <2> QED
    BY <1>1, <1>2, <1>10, <2>1, <2>2, Locals
<1>12. LocalOK(cli'[c]) /\ T = S \ {"yaml", "stored"} /\ cli'[c].todo # <<>>
  <2>1. CASE "stored" \notin S
    <3>1. cli'[c].todo = Rest(c)
      BY <1>3, <1>5, <2>1
    <3>2. T = S \ {"yaml", "stored"}
      BY <1>3, <2>1, <3>1
    <3>3. LocalOK(cli'[c])
      BY <1>8, <1>10, <1>11, <3>1 DEF LocalOK
    <3> QED
      BY <1>3, <3>1, <3>2, <3>3
  <2>2. CASE "stored" \in S
    <3>1. cli'[c].todo = Tail(Rest(c)) /\ Head(Rest(c)) = "stored"
      BY <1>3, <1>5, <2>2
    <3>2. LET s == Rest(c)
          IN  /\ CourseOK(cli[c].cmd, Tail(s)) /\ Tail(s) # <<>> /\ Left(Tail(s)) = Left(s) \ {"stored"}
              /\ Onward(cli[c].cmd[1], s, Tail(s), {})
      BY <1>3, <1>9, <3>1, PopCourse
    <3>3. T = S \ {"yaml", "stored"} /\ cli'[c].todo # <<>>
      BY <1>3, <3>1, <3>2
    <3>4. /\ Onward(mid.cmd[1], mid.todo, cli'[c].todo, {}) /\ {} \cap Syncs = {}
          /\ CourseOK(mid.cmd, cli'[c].todo) /\ Head(mid.todo) # "stop_others" /\ mid.todo # <<>>
          /\ cli'[c].cmd = mid.cmd /\ cli'[c].cfg.runner = mid.cfg.runner
          /\ cli'[c].stage = mid.stage \/ cli'[c].stage \notin {"synced", "unsynced"}
      BY <1>3, <1>8, <1>9, <1>10, <3>1, <3>2
    <3>5. LocalOK(cli'[c])
      BY <1>8, <1>11, <3>4, Locals
    <3> QED
      BY <3>3, <3>5
  <2> QED
    BY <2>1, <2>2
<1>13. SettingsOK(cli[c], tree, owed) => SettingsOK(cli'[c], tree', owed')
  <2>1. IF "stored" \in Left(cli[c].todo)
        THEN /\ owed'.bound /\ SameSettings(cli[c].newcfg, owed')
             /\ owed'.policy = (IF owed.bound THEN owed.policy ELSE tree.policy)
        ELSE owed' = owed
    BY <1>7
  <2> QED
    BY <1>2, <1>5, <1>6, <1>12, <2>1, YamlSettings
<1>14. HomeOK(cli[c], tree) => HomeOK(cli'[c], tree')
  <2>1. Agree(cli[c], cli'[c], HomeMarks)
    BY <1>12 DEF Agree, HomeMarks
  <2> QED
    BY <1>6, <1>8, <2>1, HomeFrame DEF YamlDone
<1>15. BridgeOK(cli[c], tree, bot) => BridgeOK(cli'[c], tree', bot)
  <2>1. Agree(cli[c], cli'[c], BridgeMarks)
    BY <1>12 DEF Agree, BridgeMarks
  <2> QED
    BY <1>6, <1>8, <2>1, BridgeFrame DEF YamlDone
<1> HIDE DEF S, T, stored, todo
<1> QED
  BY <1>1, <1>2, <1>5, <1>6, <1>7, <1>8, <1>12, <1>13, <1>14, <1>15 DEF Moved, Mine

-----------------------------------------------------------------------------
\* Changing the settings.
LEMMA StoreSettings ==
  ASSUME Inv, NEW c \in Clis, cli[c].todo # <<>>, Head(cli[c].todo) \in {"patch", "autobind"},
         NEW cfg \in Configs, NEW todo, todo = <<"stored">> \o Rest(c), NEW ch, WriteYaml(c, cfg, todo, ch),
         ch = [cfg |-> cfg]
  PROVE  Moved(c)
<1>1. CourseOK(cli[c].cmd, cli[c].todo) /\ cli[c].cmd \in Lines /\ Head(cli[c].todo) \in Own(cli[c].cmd[1])
  BY Setting
<1>2. /\ Head(cli[c].todo) = "patch" => cli[c].cmd[1] = "update"
      /\ Head(cli[c].todo) = "autobind" => cli[c].cmd[1] = "run"
  BY <1>1, KindOf
<1>3. cli[c].cmd[1] \in {"run", "update"} /\ cli[c].cmd[1] \in WritingOps
  BY <1>2 DEF WritingOps
<1>4. Head(cli[c].todo) \notin Plain /\ Head(cli[c].todo) \notin Quick
  BY HeadKinds
<1>5. /\ Head(cli[c].todo) \notin Marks \cup BridgeMarks \cup {"done"} \cup Quick
      /\ Head(cli[c].todo) # "done"
  BY <1>4, PlainParts
<1>6. /\ Onward(cli[c].cmd[1], cli[c].todo, todo, {"stored"}) /\ CourseOK(cli[c].cmd, todo)
      /\ {"stored"} \subseteq Own(cli[c].cmd[1]) \ Syncs
  <2>1. LET s == cli[c].todo
        IN  /\ Onward(cli[c].cmd[1], s, <<"stored">> \o Tail(s), {"stored"})
            /\ CourseOK(cli[c].cmd, <<"stored">> \o Tail(s)) /\ {"stored"} \subseteq Own(cli[c].cmd[1]) \ Syncs
    BY <1>1, <1>3, <1>4, <1>5, PushStored
  <2> QED
    BY <2>1 DEF Rest
<1>7. Place(cli[c].cmd[1], Head(cli[c].todo)) < 20
  <2>1. LET op == cli[c].cmd[1] IN Place(op, "patch") = 3 /\ Place(op, "autobind") = 10
    BY Places
  <2> QED
    BY <2>1
<1>8. Sooner(c)
  <2>1. \/ Head(cli[c].todo) = "autobind"
        \/ cli[c].cmd[1] \notin {"setup", "run"}
    BY <1>2
  <2> QED
    BY <1>4, <2>1, Soon
<1>9. {"stored"} \cap Marks \subseteq {"stored"} /\ "home" \notin {"stored"} /\ "stored" \in {"stored"}
  OBVIOUS
<1>10. ch = [cfg |-> cfg] \/ ch = [cfg |-> cfg, stage |-> ""]
  OBVIOUS
<1> QED
  BY <1>3, <1>5, <1>6, <1>7, <1>8, <1>9, <1>10, SavesMoves, Zenon

LEMMA PatchMoves == ASSUME Inv, NEW c \in Clis, ApplyPatch(c) PROVE Moved(c)
<1>1. cli[c].todo # <<>> /\ Head(cli[c].todo) = "patch"
  BY DEF ApplyPatch, Doing
<1>2. PICK p \in scene.patches :
        IF p.wait = 0 THEN Quit(c, "failed")
        ELSE LET cfg == [cli[c].cfg EXCEPT !.bind = p.bind,
                                           !.wait = IF p.wait > MaxWait THEN MaxWait ELSE p.wait]
             IN  WriteYaml(c, cfg, <<"stored">> \o Rest(c), [cfg |-> cfg])
  BY Zenon DEF ApplyPatch
<1>3. cli[c].cfg \in Configs /\ scene \in Scenes /\ cli[c].cmd[1] = "update"
  BY <1>1, Setting, KindOf DEF Fields
<1>4. p.bind \in Binds /\ p.wait \in Nat
  BY <1>3, SceneAssumption
<1>5. CASE p.wait = 0
  <2>1. Settled(cli[c], tree) /\ "failed" # "invalid" /\ Head(cli[c].todo) \notin Quick /\ Quit(c, "failed")
    BY <1>1, <1>2, <1>3, <1>5 DEF Settled, Quick
  <2> QED
    BY <1>1, <2>1, QuitMoves
<1>6. CASE p.wait # 0
  <2> DEFINE w == IF p.wait > MaxWait THEN MaxWait ELSE p.wait
  <2> DEFINE cfg == [cli[c].cfg EXCEPT !.bind = p.bind, !.wait = w]
  <2> DEFINE ch == [cfg |-> cfg]
  <2> DEFINE todo == <<"stored">> \o Rest(c)
  <2>1. WriteYaml(c, cfg, todo, ch)
    BY <1>2, <1>6
  <2>2. w \in Nat
    BY <1>4, WaitBoundAssumption
  <2> HIDE DEF w
  <2>3. cfg \in Configs
    BY <1>3, <1>4, <2>2 DEF Configs
  <2>4. ch = [cfg |-> cfg] /\ todo = <<"stored">> \o Rest(c)
    OBVIOUS
  <2> HIDE DEF cfg, ch, todo
  <2> QED
    BY <1>1, <2>1, <2>3, <2>4, StoreSettings
<1> QED
  BY <1>5, <1>6

\* A run that finds a tailnet has loaded the runtime: its directory is there,
\* unless others interfere.
LEMMA AutoBindMoves == ASSUME Inv, NEW c \in Clis, AutoBind(c) PROVE Moved(c)
<1>1. cli[c].todo # <<>> /\ Head(cli[c].todo) = "autobind"
  BY DEF AutoBind, Doing
<1>2. PICK host \in scene.hosts :
        LET cfg == [cli[c].cfg EXCEPT !.bind.host = host]
        IN  IF cfg = cli[c].cfg THEN Pass(c)
            ELSE IF tree.state THEN WriteYaml(c, cfg, <<"stored">> \o Rest(c), [cfg |-> cfg])
            ELSE Go(c, Rest(c), [cfg |-> cfg])
  BY DEF AutoBind
<1>3. /\ Fields(cli[c]) /\ cli[c].cfg \in Configs /\ scene \in Scenes /\ cli[c].cmd[1] = "run"
      /\ CliTable /\ TreeOK(tree)
  BY <1>1, Setting, KindOf DEF Fields
<1> DEFINE cfg == [cli[c].cfg EXCEPT !.bind.host = host]
<1>4. cfg \in Configs /\ cfg.runner = cli[c].cfg.runner
  <2> DEFINE bind == [cli[c].cfg.bind EXCEPT !.host = host]
  <2>1. host \in Hosts
    BY <1>3, SceneAssumption
  <2>2. bind \in Binds
    BY <1>3, <2>1 DEF Configs, Binds
  <2>3. cfg = [cli[c].cfg EXCEPT !.bind = bind]
    BY <1>3 DEF Configs
  <2> HIDE DEF bind, cfg
  <2> QED
    BY <1>3, <2>2, <2>3 DEF Configs
<1>5. CASE cfg = cli[c].cfg
  BY <1>1, <1>2, <1>5, HeadKinds, PlainPass
<1>6. CASE cfg # cli[c].cfg /\ tree.state
  <2> DEFINE ch == [cfg |-> cfg]
  <2> DEFINE todo == <<"stored">> \o Rest(c)
  <2>1. WriteYaml(c, cfg, todo, ch) /\ ch = [cfg |-> cfg] /\ todo = <<"stored">> \o Rest(c)
    BY <1>2, <1>6
  <2> HIDE DEF cfg, ch, todo
  <2> QED
    BY <1>1, <1>4, <2>1, StoreSettings
<1>7. CASE cfg # cli[c].cfg /\ ~tree.state
  <2> DEFINE ch == [cfg |-> cfg]
  <2>1. Step(c, Rest(c), ch) /\ UNCHANGED <<tree, owed, bot, scene, disturbed>>
    BY <1>2, <1>7 DEF Go, Others
  <2> HIDE DEF cfg
  <2>2. Only(c) /\ Becomes(cli[c], Rest(c), ch, cli'[c])
    BY <1>3, <2>1, StepChanges
  <2>3. cli'[c].todo = Rest(c) /\ cli'[c].cfg = cfg /\ Carries(cli[c], cli'[c], {"cfg"})
    BY <2>2 DEF Becomes, Carries
  <2>4. /\ Onward(cli[c].cmd[1], cli[c].todo, cli'[c].todo, {}) /\ CourseOK(cli[c].cmd, cli'[c].todo)
        /\ cli'[c].todo # <<>>
    BY <1>1, <2>3, RestCourse
  <2>5. /\ Fields(cli'[c]) /\ cli'[c].cmd = cli[c].cmd /\ cli'[c].out = cli[c].out
        /\ cli'[c].cfg.runner = cli[c].cfg.runner /\ {} \cap Syncs = {}
        /\ Head(cli[c].todo) # "stop_others" /\ TreeOK(tree') /\ owed' = owed
        /\ cli'[c].stage = cli[c].stage \/ cli'[c].stage \notin {"synced", "unsynced"}
    BY <1>1, <1>3, <1>4, <2>1, <2>3 DEF Carries, Fields
  <2>6. "load" \notin Left(cli[c].todo)
    <3>1. LET op == cli[c].cmd[1] IN Place(op, "load") = 2 /\ Place(op, "autobind") = 10
      BY Places
    <3>2. Place(cli[c].cmd[1], "load") < Place(cli[c].cmd[1], Head(cli[c].todo)) /\ "load" # Head(cli[c].todo)
      BY <1>1, <3>1
    <3> QED
      BY <1>1, <3>2, Behind
  <2>7. ~SettingsOK(cli[c], tree, owed)
    BY <1>3, <1>7, <2>6 DEF SettingsOK, LoadedOK
  <2> HIDE DEF ch
  <2> QED
    BY <1>1, <2>1, <2>2, <2>4, <2>5, <2>7, Advances DEF Mine
<1> QED
  BY <1>2, <1>5, <1>6, <1>7

\* An update turns a bridge on or off, or gives it another token.
Turned(t, r, token) == [t EXCEPT !.made = TRUE, !.channel[r] = token]
LEMMA TurnedFacts ==
  ASSUME NEW t, TreeOK(t), NEW r \in Bridged, NEW token \in Nat
  PROVE  /\ TreeOK(Turned(t, r, token)) /\ Turned(t, r, token).yaml = t.yaml
         /\ Turned(t, r, token).policy = t.policy /\ Turned(t, r, token).state = t.state
         /\ Turned(t, r, token).made /\ Turned(t, r, token).home = t.home
         /\ Turned(t, r, token).workspace = t.workspace
<1> DEFINE ch == [t.channel EXCEPT ![r] = token]
<1>1. ch \in [Bridged -> Nat]
  BY DEF TreeOK, Trees
<1>2. Turned(t, r, token) = [t EXCEPT !.made = TRUE, !.channel = ch]
  BY DEF TreeOK, Trees, Turned
<1> HIDE DEF ch
<1> QED
  BY <1>1, <1>2 DEF TreeOK, Trees

LEMMA ChannelMoves == ASSUME Inv, NEW c \in Clis, Channel(c) PROVE Moved(c)
<1>1. /\ cli[c].todo # <<>> /\ Head(cli[c].todo) = "channel"
      /\ \/ Alter(c, tree, Rest(c))
         \/ Quit(c, "failed")
         \/ Kind(c) \in Bridged /\ \E token \in scene.tokens : Alter(c, Turned(tree, Kind(c), token), Rest(c))
  BY Zenon DEF Channel, Doing, Turned
<1>2. /\ CliTable /\ TreeOK(tree) /\ Fields(cli[c]) /\ scene \in Scenes /\ cli[c].cmd[1] = "update"
  BY <1>1, Setting, KindOf
<1>3. "channel" \notin Plain /\ "channel" \notin Quick
  BY HeadKinds
<1>4. /\ Head(cli[c].todo) \notin Marks \cup BridgeMarks \cup {"done"} \cup Quick
      /\ Head(cli[c].todo) # "done" /\ Head(cli[c].todo) \notin Quick \cup BridgeMarks
  BY <1>1, <1>3, PlainParts
<1>5. Sooner(c)
  BY <1>1, <1>2, <1>4, Soon
<1>6. CASE Alter(c, tree, Rest(c))
  BY <1>1, <1>2, <1>4, <1>5, <1>6, EarlyMoves
<1>7. CASE Quit(c, "failed")
  <2>1. Settled(cli[c], tree) /\ "failed" # "invalid" /\ Head(cli[c].todo) \notin Quick
    BY <1>1, <1>2, <1>4 DEF Settled
  <2> QED
    BY <1>1, <1>7, <2>1, QuitMoves
<1>8. ASSUME Kind(c) \in Bridged, NEW token \in scene.tokens, Alter(c, Turned(tree, Kind(c), token), Rest(c))
      PROVE  Moved(c)
  <2> DEFINE t == Turned(tree, Kind(c), token)
  <2>1. token \in Nat
    BY <1>2, SceneAssumption
  <2>2. TreeOK(t) /\ t.yaml = tree.yaml /\ t.policy = tree.policy /\ t.state = tree.state /\ t.made
    BY <1>2, <1>8, <2>1, TurnedFacts
  <2>3. Alter(c, t, Rest(c))
    BY <1>8
  <2> HIDE DEF t
  <2>4. /\ Only(c) /\ Carries(cli[c], cli'[c], {}) /\ cli'[c].todo = Rest(c) /\ tree' = t
        /\ UNCHANGED <<owed, bot, disturbed, scene>>
    BY <1>2, <2>3, AlterChanges
  <2>5. /\ Onward(cli[c].cmd[1], cli[c].todo, cli'[c].todo, {}) /\ CourseOK(cli[c].cmd, cli'[c].todo)
        /\ cli'[c].todo # <<>>
    BY <1>1, <1>4, <2>4, RestCourse
  <2>6. /\ Fields(cli'[c]) /\ cli'[c].cmd = cli[c].cmd /\ cli'[c].out = cli[c].out
        /\ cli'[c].cfg = cli[c].cfg /\ cli'[c].pol = cli[c].pol /\ cli'[c].newcfg = cli[c].newcfg
        /\ cli'[c].newpol = cli[c].newpol /\ {} \cap Syncs = {} /\ "home" \notin {}
        /\ Head(cli[c].todo) # "stop_others" /\ owed' = owed
        /\ cli'[c].stage = cli[c].stage \/ cli'[c].stage \notin {"synced", "unsynced"}
    BY <1>1, <1>2, <2>4 DEF Carries, Fields
  <2>7. SettingsOK(cli[c], tree, owed) => SettingsOK(cli'[c], tree', owed')
    <3>1. Left(cli'[c].todo) = (Left(cli[c].todo) \ {Head(cli[c].todo)}) \cup {} /\ {} \cap Marks = {}
          /\ Head(cli[c].todo) \notin Marks
      BY <1>4, <2>5 DEF Onward
    <3>2. Agree(cli[c], cli'[c], Marks)
      BY <3>1, Agreement
    <3> QED
      BY <2>2, <2>4, <2>6, <3>2, SettingsFrame
  <2>8. HomeOK(cli'[c], tree')
    BY <1>1, <1>4, <1>5, <2>5, <2>6, EarlyHome
  <2>9. BridgeOK(cli'[c], tree', bot)
    <3>1. LET op == cli[c].cmd[1] IN Place(op, "channel") = 4
      BY Places
    <3>2. Place(cli[c].cmd[1], Head(cli[c].todo)) \in 0..20
      BY <1>1, <3>1
    <3> QED
      BY <1>1, <1>4, <2>5, <2>6, <3>2, EarlyBridges
  <2>10. cli'[c].cfg.runner = cli[c].cfg.runner /\ TreeOK(tree')
    BY <2>2, <2>4, <2>6
  <2> QED
    BY <1>1, <2>4, <2>5, <2>6, <2>7, <2>8, <2>9, <2>10, Advances DEF Mine
<1> QED
  BY <1>1, <1>6, <1>7, <1>8

-----------------------------------------------------------------------------
\* Keeping the bridges in step.
LEMMA SyncNames ==
  /\ Syncs \subseteq Names
  /\ \A x \in Syncs : x \notin Marks /\ x \notin HomeMarks /\ x \notin Quick /\ x # "done"
                      /\ Begets(x) = {}
  /\ Marks \subseteq Names /\ HomeMarks \subseteq Names
  BY DEF Syncs, Names, Marks, HomeMarks, Quick, Begets, LayoutSteps, DropSteps, HomeWork

LEMMA NotSyncPlaces == \A op, x : x \in Syncs \/ Place(op, x) < 20 \/ 27 < Place(op, x)
<1>1. \A op, x : Place(op, x) \in {20, 21, 22, 23} => x \in Syncs
  BY DEF Place, Syncs
<1>2. \A op, x : Place(op, x) \in {24, 25, 26, 27} => x \in Syncs
  BY DEF Place, Syncs
<1>3. \A n \in 0..40 : n < 20 \/ 27 < n \/ n \in {20, 21, 22, 23} \/ n \in {24, 25, 26, 27}
  OBVIOUS
<1> QED
  BY <1>1, <1>2, <1>3, PlaceNat

LEMMA SyncHeads ==
  ASSUME NEW me, LocalOK(me), me.todo # <<>>, Head(me.todo) \in Syncs
  PROVE  /\ me.stage \notin {"synced", "unsynced"} /\ Syncing(me.cmd) /\ "synced" \in Left(me.todo)
         /\ Head(me.todo) \in Left(me.todo)
<1>1. /\ CourseOK(me.cmd, me.todo)
      /\ me.stage = "synced" => Past(me.cmd[1], "synced", Left(me.todo))
      /\ me.stage = "unsynced" => Left(me.todo) \cap Syncs = {}
  BY DEF LocalOK
<1>2. Head(me.todo) \in Left(me.todo)
  BY <1>1, Ahead DEF CourseOK
<1>3. Syncing(me.cmd) /\ "synced" \in Left(me.todo)
  BY <1>1, <1>2 DEF CourseOK
<1>4. me.stage # "synced"
  <2>1. SUFFICES ASSUME me.stage = "synced" PROVE FALSE
    OBVIOUS
  <2>2. Place(me.cmd[1], "synced") < Place(me.cmd[1], Head(me.todo))
    BY <1>1, <1>2, <2>1, SyncNames DEF Past
  <2>3. Place(me.cmd[1], "synced") = 27
    BY Places
  <2>4. ~(27 < Place(me.cmd[1], Head(me.todo)))
    BY SyncPlaces, Upto27
  <2> QED
    BY <2>2, <2>3, <2>4
<1> QED
  BY <1>1, <1>2, <1>3, <1>4

\* But for the steps of the sync, as much is left.
Alike(s, t) == \A x \in Names \ Syncs : x \in Left(t) <=> x \in Left(s)
LEMMA AlikeRest ==
  ASSUME NEW cmd, NEW s, CourseOK(cmd, s), s # <<>>, Head(s) \in Syncs
  PROVE  Alike(s, Tail(s))
  BY Ahead DEF CourseOK, Alike
LEMMA AlikeSkip ==
  ASSUME NEW cmd, NEW s, CourseOK(cmd, s), s # <<>>, Head(s) \in Syncs \ {"synced"},
         NEW t, t = Beyond(s)
  PROVE  Alike(s, t) /\ Alike(s, <<"synced">> \o t)
<1>1. Left(t) = {x \in Left(s) : 27 < Place(cmd[1], x)} /\ Left(<<"synced">> \o t) = Left(t) \cup {"synced"}
  BY SkipCourse
<1>2. InOrder(cmd[1], s)
  BY DEF CourseOK
<1>3. ASSUME NEW x \in Names \ Syncs, x \in Left(s) PROVE 27 < Place(cmd[1], x)
  <2>1. x # Head(s)
    BY <1>3
  <2>2. Place(cmd[1], Head(s)) < Place(cmd[1], x)
    BY <1>2, <1>3, <2>1, Ahead
  <2>3. Place(cmd[1], Head(s)) \in 20..27 /\ Place(cmd[1], x) \in 0..40
    BY SyncPlaces, PlaceNat
  <2>4. Place(cmd[1], x) < 20 \/ 27 < Place(cmd[1], x)
    BY NotSyncPlaces
  <2>5. \A m \in 20..27, n \in 0..40 : m < n => ~(n < 20)
    OBVIOUS
  <2> QED
    BY <2>2, <2>3, <2>4, <2>5
<1>4. "synced" \in Syncs
  BY DEF Syncs
<1> QED
  BY <1>1, <1>3, <1>4 DEF Alike

\* The tree but for pids, and for the directory the bridges' files are in.
Beside(t, u) ==
    /\ TreeOK(u) /\ u.yaml = t.yaml /\ u.policy = t.policy /\ u.state = t.state /\ u.home = t.home
    /\ u.workspace = t.workspace /\ u.channel = t.channel /\ (t.made => u.made)
BotsKnown == BotsOK(bot') /\ bot' = [b \in Bots |-> bot'[b]]

LEMMA SyncMoves ==
  ASSUME Inv, NEW c \in Clis, cli[c].todo # <<>>, Only(c),
         Carries(cli[c], cli'[c], {"stage", "bot"}), Beside(tree, tree'),
         UNCHANGED <<owed, scene, disturbed>>, BotsKnown,
         cli'[c].todo # <<>>, Alike(cli[c].todo, cli'[c].todo), LocalOK(cli'[c]),
         ~disturbed /\ BridgeOK(cli[c], tree, bot) => BridgeOK(cli'[c], tree', bot')
  PROVE  Moved(c)
<1>1. /\ cli'[c].cmd = cli[c].cmd /\ cli'[c].out = cli[c].out /\ cli'[c].cfg = cli[c].cfg
      /\ cli'[c].pol = cli[c].pol /\ cli'[c].newcfg = cli[c].newcfg
      /\ cli'[c].newpol = cli[c].newpol /\ cli'[c].newhome = cli[c].newhome
  BY DEF Carries
<1>2. Agree(cli[c], cli'[c], Marks) /\ Agree(cli[c], cli'[c], HomeMarks)
  BY SyncNames DEF Alike, Agree
<1>3. SettingsOK(cli[c], tree, owed) => SettingsOK(cli'[c], tree', owed')
  BY <1>1, <1>2, SettingsFrame DEF Beside
<1>4. HomeOK(cli[c], tree) => HomeOK(cli'[c], tree')
  BY <1>1, <1>2, HomeFrame DEF Beside
<1> QED
  BY <1>1, <1>3, <1>4 DEF Moved, Mine, Beside, BotsKnown

LEMMA SyncLocal ==
  ASSUME NEW me, LocalOK(me), me.todo # <<>>, Head(me.todo) \in Syncs, NEW you,
         Carries(me, you, {"stage", "bot"}), CourseOK(me.cmd, you.todo),
         Left(you.todo) \cap {"start", "settle"} # {} /\ "stop_others" \notin Left(you.todo) =>
             me.cfg.runner \in Bridged,
         you.stage = "synced" => Past(me.cmd[1], "synced", Left(you.todo)),
         you.stage = "unsynced" => Left(you.todo) \cap Syncs = {}
  PROVE  LocalOK(you)
<1>1. Syncing(me.cmd) /\ Fields(me)
  BY SyncHeads DEF LocalOK
<1>2. /\ you.cmd = me.cmd /\ you.cfg = me.cfg /\ you.pol = me.pol /\ you.newcfg = me.newcfg
      /\ you.newpol = me.newpol /\ you.newhome = me.newhome
  BY DEF Carries
<1>3. Fields(you)
  BY <1>1, <1>2 DEF Fields
<1> QED
  BY <1>1, <1>2, <1>3 DEF LocalOK

LEMMA SelectedIs == \A c : Selected(c) = Sel(cli[c].cfg) /\ (Forced(c) <=> Restarts(cli[c]))
  BY DEF Selected, Sel, Forced, Restarts
LEMMA AfterIs == \A c : AfterSync(c) = Beyond(cli[c].todo)
  BY DEF AfterSync, Beyond

\* What is said of the bridges does not depend on how a step of the sync is left.
BridgeBody(me, S, t, bots) ==
    /\ "stop_others" \notin S => \A b \in Ours(bots) : bots[b].of = Sel(me.cfg)
    /\ "force" \notin S /\ Restarts(me) => \A b \in Ours(bots) : bots[b].token = t.channel[bots[b].of]
LEMMA BridgeBodies ==
  ASSUME NEW me, NEW you, NEW t, NEW u, NEW bots, NEW bits, LocalOK(me), me.todo # <<>>,
         Head(me.todo) \in Syncs, Carries(me, you, {"stage", "bot"}),
         BridgeBody(me, Left(me.todo), t, bots) /\ you.stage # "unsynced" =>
             BridgeBody(me, Left(you.todo), u, bits)
  PROVE  BridgeOK(me, t, bots) => BridgeOK(you, u, bits)
<1>1. Syncing(me.cmd) /\ me.stage # "unsynced"
  BY SyncHeads
<1>2. you.cmd = me.cmd /\ you.cfg = me.cfg
  BY DEF Carries
<1> QED
  BY <1>1, <1>2 DEF BridgeOK, BridgeBody, Restarts

\* Every bridge that is left after a stop was there before.
LEMMA Killed ==
  ASSUME BotsOK(bot), NEW dead, Kill(dead)
  PROVE  /\ BotsKnown /\ \A b \in Ours(bot') : b \in Ours(bot) /\ b \notin dead /\ bot'[b] = bot[b]
<1>1. bot' = [b \in Bots |-> IF b \in dead THEN NoBot ELSE bot[b]]
  BY DEF Kill
<1>2. NoBot \in Processes /\ NoBot.state = "gone" /\ NoBot.of # "other"
  BY DEF NoBot, Processes, NoRunner
<1>3. \A b \in Bots : bot'[b] = IF b \in dead THEN NoBot ELSE bot[b]
  BY <1>1
<1>4. BotsOK(bot')
  BY <1>2, <1>3 DEF BotsOK
<1>5. bot' = [b \in Bots |-> bot'[b]]
  BY <1>1
<1> QED
  BY <1>2, <1>3, <1>4, <1>5 DEF BotsKnown, Ours

LEMMA Forgotten ==
  ASSUME NEW t, TreeOK(t), NEW rs
  PROVE  Beside(t, Forget(t, rs))
<1> DEFINE p == [r \in Bridged |-> IF r \in rs THEN 0 ELSE t.pidfile[r]]
<1>1. t \in Trees /\ t.pidfile \in [Bridged -> Nat]
  BY DEF TreeOK, Trees
<1>2. p \in [Bridged -> Nat]
  BY <1>1
<1>3. Forget(t, rs) = [t EXCEPT !.pidfile = p]
  BY <1>1 DEF Forget, Trees
<1> HIDE DEF p
<1> QED
  BY <1>1, <1>2, <1>3 DEF Beside, TreeOK, Trees

LEMMA BotChanges ==
  ASSUME CliTable, NEW c \in Clis, NEW t, NEW todo, NEW ch, Bot(c, t, todo, ch)
  PROVE  /\ Only(c) /\ Becomes(cli[c], todo, ch, cli'[c]) /\ tree' = t
         /\ UNCHANGED <<owed, scene, disturbed>>
  BY StepChanges DEF Bot, BotOthers

LEMMA NotBegun ==
  ASSUME NEW op, NEW s, InOrder(op, s), s # <<>>, Head(s) \in {"force", "gate", "running", "start", "settle"}
  PROVE  /\ "stop_others" \notin Left(s)
         /\ Head(s) # "force" => "force" \notin Left(s)
<1>1. /\ Place(op, "stop_others") = 21 /\ Place(op, "force") = 22 /\ Place(op, "gate") = 23
      /\ Place(op, "running") = 24 /\ Place(op, "start") = 25 /\ Place(op, "settle") = 26
  BY Places
<1>2. \A x \in Left(s) : x = Head(s) \/ Place(op, Head(s)) < Place(op, x)
  BY Ahead
<1>3. "stop_others" \notin Left(s)
  <2>1. ~(Place(op, Head(s)) < Place(op, "stop_others"))
    BY <1>1
  <2> QED
    BY <1>2, <2>1
<1>4. Head(s) # "force" => "force" \notin Left(s)
  <2>1. Head(s) # "force" => ~(Place(op, Head(s)) < Place(op, "force"))
    BY <1>1
  <2> QED
    BY <1>2, <2>1
<1> QED
  BY <1>3, <1>4

\* Where a sync may go on: to the next step, to its end, or past it.
Goes(me, todo) ==
    /\ CourseOK(me.cmd, todo) /\ todo # <<>> /\ Alike(me.todo, todo)
    /\ Left(todo) \subseteq Left(me.todo)
Onwards(c) ==
    /\ Goes(cli[c], Rest(c)) /\ Left(Rest(c)) = Left(cli[c].todo) \ {Head(cli[c].todo)}
    /\ Head(cli[c].todo) # "synced" =>
         /\ Goes(cli[c], AfterSync(c)) /\ Left(AfterSync(c)) \cap Syncs = {}
         /\ Goes(cli[c], <<"synced">> \o AfterSync(c))
         /\ Left(<<"synced">> \o AfterSync(c)) \cap Syncs = {"synced"}
LEMMA GoingOn ==
  ASSUME Inv, NEW c \in Clis, cli[c].todo # <<>>, Head(cli[c].todo) \in Syncs
  PROVE  Onwards(c)
<1> DEFINE s == cli[c].todo
<1> DEFINE t == AfterSync(c)
<1>1. CourseOK(cli[c].cmd, s) /\ LocalOK(cli[c])
  BY Setting
<1>2. Head(s) # "done" /\ "synced" \in Left(s)
  BY <1>1, SyncHeads, SyncNames
<1>3. CourseOK(cli[c].cmd, Tail(s)) /\ Tail(s) # <<>> /\ Left(Tail(s)) = Left(s) \ {Head(s)}
  BY <1>1, <1>2, PopCourse
<1>4. Alike(s, Tail(s))
  BY <1>1, AlikeRest
<1>5. ASSUME Head(s) # "synced"
      PROVE  /\ CourseOK(cli[c].cmd, t) /\ t # <<>> /\ Alike(s, t) /\ Left(t) \cap Syncs = {}
             /\ Left(t) \subseteq Left(s)
             /\ CourseOK(cli[c].cmd, <<"synced">> \o t) /\ <<"synced">> \o t # <<>>
             /\ Alike(s, <<"synced">> \o t)
             /\ Left(<<"synced">> \o t) = Left(t) \cup {"synced"}
  <2>1. t = Beyond(s) /\ Head(s) \in Syncs \ {"synced"}
    BY <1>5, AfterIs
  <2> HIDE DEF t, s
  <2>2. Alike(s, t) /\ Alike(s, <<"synced">> \o t)
    BY <1>1, <2>1, AlikeSkip DEF s
  <2>3. /\ CourseOK(cli[c].cmd, t) /\ t # <<>>
        /\ Left(t) = {x \in Left(s) : 27 < Place(cli[c].cmd[1], x)}
        /\ CourseOK(cli[c].cmd, <<"synced">> \o t) /\ <<"synced">> \o t # <<>>
        /\ Left(<<"synced">> \o t) = Left(t) \cup {"synced"} /\ Left(t) \cap Syncs = {}
    BY <1>1, <2>1, SkipCourse DEF s
  <2>4. Left(t) \subseteq Left(s)
    BY <2>3
  <2> QED
    BY <2>2, <2>3, <2>4
<1> HIDE DEF t
<1>6. "synced" \in Syncs
  BY DEF Syncs
<1>7. Goes(cli[c], Rest(c)) /\ Left(Rest(c)) = Left(s) \ {Head(s)}
  BY <1>3, <1>4 DEF Goes, Rest
<1>8. Head(s) # "synced" =>
         /\ Goes(cli[c], t) /\ Left(t) \cap Syncs = {}
         /\ Goes(cli[c], <<"synced">> \o t)
         /\ Left(<<"synced">> \o t) \cap Syncs = {"synced"}
  BY <1>2, <1>5, <1>6 DEF Goes
<1> QED
  BY <1>7, <1>8 DEF Onwards, t

\* A step of the sync that leaves its stage as it is, or gives it up.
LEMMA SyncGoes ==
  ASSUME Inv, NEW c \in Clis, cli[c].todo # <<>>, Head(cli[c].todo) \in Syncs, Only(c),
         Carries(cli[c], cli'[c], {"stage", "bot"}), Beside(tree, tree'),
         UNCHANGED <<owed, scene, disturbed>>, BotsKnown,
         Goes(cli[c], cli'[c].todo),
         Left(cli'[c].todo) \cap {"start", "settle"} # {} /\ "stop_others" \notin Left(cli'[c].todo) =>
             cli[c].cfg.runner \in Bridged,
         \/ cli'[c].stage = cli[c].stage
         \/ cli'[c].stage = "unsynced" /\ Left(cli'[c].todo) \cap Syncs = {},
         \/ cli'[c].stage = "unsynced"
         \/ ~disturbed /\ BridgeBody(cli[c], Left(cli[c].todo), tree, bot) =>
               BridgeBody(cli[c], Left(cli'[c].todo), tree', bot')
  PROVE  Moved(c)
<1>1. LocalOK(cli[c])
  BY Setting
<1>2. cli[c].stage \notin {"synced", "unsynced"}
  BY <1>1, SyncHeads
<1>3. LocalOK(cli'[c])
  BY <1>1, <1>2, SyncLocal DEF Goes
<1>4. ASSUME ~disturbed PROVE BridgeOK(cli[c], tree, bot) => BridgeOK(cli'[c], tree', bot')
  BY <1>1, <1>4, BridgeBodies
<1> QED
  BY <1>3, <1>4, SyncMoves DEF Goes

LEMMA SyncPrelude ==
  ASSUME Inv, NEW c \in Clis, cli[c].todo # <<>>,
         Head(cli[c].todo) \in {"select", "stop_others", "force", "gate", "running", "start", "settle",
                                "synced"}
  PROVE  /\ Head(cli[c].todo) \in Syncs /\ Onwards(c) /\ CliTable /\ TreeOK(tree) /\ BotsOK(bot)
         /\ InOrder(cli[c].cmd[1], cli[c].todo) /\ LocalOK(cli[c])
         /\ bot = [b \in Bots |-> bot[b]]
<1>1. Head(cli[c].todo) \in Syncs
  BY DEF Syncs
<1> QED
  BY <1>1, GoingOn, Setting

\* The selected bridge is looked up before any is stopped.
LEMMA SelectMoves == ASSUME Inv, NEW c \in Clis, Select(c) PROVE Moved(c)
<1> DEFINE t == [tree EXCEPT !.made = TRUE]
<1> DEFINE stage == IF Enabled(Selected(c)) THEN "on" ELSE "off"
<1> DEFINE ch == [stage |-> stage]
<1>1. /\ cli[c].todo # <<>> /\ Head(cli[c].todo) = "select"
      /\ \/ Pass(c)
         \/ tree' = t /\ Step(c, Rest(c), ch) /\ UNCHANGED <<owed, bot, scene, disturbed>>
  BY DEF Select, Doing, Others
<1>2. CASE Pass(c)
  <2>1. Head(cli[c].todo) \notin Plain
    BY <1>1 DEF Plain, Marks, HomeMarks, BridgeMarks
  <2> QED
    BY <1>1, <1>2, <2>1, PlainPass
<1>3. CASE tree' = t /\ Step(c, Rest(c), ch) /\ UNCHANGED <<owed, bot, scene, disturbed>>
  <2>1. /\ Head(cli[c].todo) \in Syncs /\ Onwards(c) /\ CliTable /\ TreeOK(tree) /\ BotsOK(bot)
        /\ InOrder(cli[c].cmd[1], cli[c].todo) /\ LocalOK(cli[c])
        /\ bot = [b \in Bots |-> bot[b]] /\ CourseOK(cli[c].cmd, cli[c].todo)
    BY <1>1, SyncPrelude, Setting
  <2>2. Beside(tree, tree')
    BY <1>3, <2>1 DEF Beside, TreeOK, Trees
  <2>3. Only(c) /\ Becomes(cli[c], Rest(c), ch, cli'[c])
    BY <1>3, <2>1, StepChanges
  <2>4. /\ cli'[c].todo = Rest(c) /\ cli'[c].stage \in {"on", "off"}
        /\ Carries(cli[c], cli'[c], {"stage", "bot"})
    BY <2>3 DEF Becomes, Carries
  <2> HIDE DEF t, ch, stage
  <2>5. Goes(cli[c], Rest(c)) /\ Left(Rest(c)) = Left(cli[c].todo) \ {"select"}
    BY <1>1, <2>1 DEF Onwards
  <2>6. {"stop_others", "force"} \subseteq Left(Rest(c))
    <3>1. "select" \notin Quick /\ Place(cli[c].cmd[1], "select") = 20
      BY Places DEF Quick
    <3>2. Syncing(cli[c].cmd)
      BY <1>1, <2>1, SyncHeads
    <3>3. {"stop_others", "force"} \subseteq Left(cli[c].todo)
      <4> DEFINE place == Place(cli[c].cmd[1], "select")
      <4>1. place \in 0..20
        BY <3>1
      <4> HIDE DEF place
      <4>2. Place(cli[c].cmd[1], Head(cli[c].todo)) \in 0..20 /\ Head(cli[c].todo) \notin Quick
        BY <1>1, <3>1, <4>1 DEF place
      <4> QED
        BY <1>1, <2>1, <3>2, <4>2, EarlySync
    <3> QED
      BY <2>5, <3>3
  <2>7. LocalOK(cli'[c])
    BY <1>1, <2>1, <2>4, <2>5, <2>6, SyncLocal DEF Goes
  <2>8. BridgeOK(cli[c], tree, bot) => BridgeOK(cli'[c], tree', bot')
    <3>1. BridgeBody(cli[c], Left(cli'[c].todo), tree', bot')
      BY <2>4, <2>6 DEF BridgeBody
    <3> QED
      BY <1>1, <2>1, <2>4, <3>1, BridgeBodies
  <2>9. BotsKnown
    BY <1>3, <2>1 DEF BotsKnown
  <2> QED
    BY <1>1, <1>3, <2>1, <2>2, <2>3, <2>4, <2>5, <2>7, <2>8, <2>9, SyncMoves DEF Goes
<1> QED
  BY <1>1, <1>2, <1>3

\* While a command is about its bridges, nothing of its own changes, and no
\* bridge is added.
Meanwhile ==
    /\ cli' = cli /\ Beside(tree, tree') /\ UNCHANGED <<owed, scene, disturbed>> /\ BotsKnown
    /\ \A b \in Ours(bot') : b \in Ours(bot) /\ bot'[b] = bot[b]
LEMMA MeanwhileMoves ==
  ASSUME Inv, NEW c \in Clis, May(cli[c]), Meanwhile
  PROVE  Moved(c)
<1>1. cli[c].todo # <<>> /\ LocalOK(cli[c]) /\ CliTable /\ Head(cli[c].todo) \in Syncs
  BY Setting DEF May, Stops, Syncs
<1>2. Only(c) /\ Carries(cli[c], cli'[c], {"stage", "bot"})
  BY <1>1 DEF Only, CliTable, Carries, Meanwhile
<1>3. Alike(cli[c].todo, cli'[c].todo) /\ cli'[c].todo # <<>> /\ LocalOK(cli'[c])
  BY <1>1 DEF Alike, Meanwhile
<1>4. BridgeOK(cli[c], tree, bot) => BridgeOK(cli'[c], tree', bot')
  <2>1. BridgeBody(cli[c], Left(cli[c].todo), tree, bot) => BridgeBody(cli[c], Left(cli'[c].todo), tree', bot')
    BY DEF BridgeBody, Meanwhile, Beside
  <2> QED
    BY <1>1, <1>2, <2>1, BridgeBodies
<1> QED
  BY <1>1, <1>2, <1>3, <1>4, SyncMoves DEF Meanwhile

\* What a step of c has to show of the bridges that commands are about to end.
StopKept(c) ==
    /\ ending' = [d \in Clis |-> ending'[d]] /\ \A d \in Clis \ {c} : ending'[d] = ending[d]
    /\ StopOK(cli'[c], ending'[c], bot') /\ (~disturbed => Caught(cli'[c], ending'[c], bot'))
    /\ \A b \in Bots : bot'[b].of = "other" => bot[b].of = "other"

LEMMA TurnChanges ==
  ASSUME StopInv, NEW c \in Clis, NEW e, Turn(c, e)
  PROVE  /\ ending' = [d \in Clis |-> ending'[d]] /\ ending'[c] = e
         /\ \A d \in Clis \ {c} : ending'[d] = ending[d]
<1>1. ending = [d \in Clis |-> ending[d]]
  BY DEF StopInv
<1>2. ending' = [ending EXCEPT ![c] = e]
  BY DEF Turn
<1> QED
  BY <1>1, <1>2

LEMMA Resting ==
  /\ AtRest.step = "rest" /\ \A me, bots : StopOK(me, AtRest, bots) /\ Caught(me, AtRest, bots)
<1>1. AtRest \in Endings /\ AtRest.step = "rest" /\ AtRest.doomed = {} /\ ~AtRest.missed
  BY DEF AtRest, Endings
<1> QED
  BY <1>1 DEF StopOK, Caught

LEMMA BesideItself == ASSUME NEW t, TreeOK(t) PROVE Beside(t, t)
  BY DEF Beside

\* The pids of the next runner are collected.
LEMMA Collects ==
  ASSUME Inv, StopInv, NEW c \in Clis, May(cli[c]), NEW rs, rs \subseteq Bridged \cup {NoRunner},
         Head(cli[c].todo) # "settle" => Aims(cli[c]) \subseteq rs, Collect(c, rs)
  PROVE  Meanwhile /\ StopKept(c)
<1> DEFINE old == ending[c]
<1> DEFINE left == IF Ending(c, "rest") THEN rs ELSE old.left
<1> DEFINE r == First(left)
<1> DEFINE e == [step |-> "term", left |-> left \ {r}, of |-> r,
                 doomed |-> Recorded(r) \cup Living(r), missed |-> FALSE]
<1>1. /\ old.step \in {"rest", "next"} /\ Turn(c, e) /\ bot' = bot /\ tree' = tree /\ cli' = cli
      /\ UNCHANGED <<owed, scene, disturbed>>
  BY DEF Collect, Within, BotOthers
<1>2. /\ TreeOK(tree) /\ BotsOK(bot) /\ bot = [b \in Bots |-> bot[b]]
      /\ StopOK(cli[c], old, bot) /\ (~disturbed => Caught(cli[c], old, bot))
  BY DEF Inv, Base, StopInv
<1>3. r \in Bridged /\ left \subseteq Bridged \cup {NoRunner}
  BY <1>2 DEF First, Bridged, StopOK, Endings
<1>4. /\ Recorded(r) \cup Living(r) \subseteq Bots
      /\ \A p \in Recorded(r) \cup Living(r) : bot[p].of = r
  BY DEF Recorded, Living, OneOf
<1>5. e \in Endings /\ e.step = "term"
  BY <1>3, <1>4 DEF Endings
<1>6. \A p \in e.doomed : bot[p].of # "other"
  BY <1>3, <1>4 DEF Bridged
<1>7. StopOK(cli[c], e, bot)
  BY <1>5, <1>6 DEF StopOK
<1>8. ASSUME ~disturbed PROVE Caught(cli[c], e, bot)
  <2>1. SUFFICES ASSUME Head(cli[c].todo) # "settle", NEW b \in Ours(bot), bot[b].of \in Aims(cli[c])
                 PROVE  bot[b].of \in left \ {r} \/ b \in Living(r)
    BY DEF Caught
  <2>2. bot[b].of \in left
    <3>1. CASE Ending(c, "rest")
      BY <2>1, <3>1
    <3>2. CASE ~Ending(c, "rest")
      BY <1>1, <1>2, <1>8, <2>1, <3>2 DEF Ending, Caught, StopOK
    <3> QED
      BY <3>1, <3>2
  <2>3. bot[b].of = r => b \in Living(r)
    BY DEF Ours, Living, OneOf, Alive
  <2> QED
    BY <2>2, <2>3
<1> HIDE DEF e, left, r, old
<1>9. /\ ending' = [d \in Clis |-> ending'[d]] /\ ending'[c] = e
      /\ \A d \in Clis \ {c} : ending'[d] = ending[d]
  BY <1>1, TurnChanges
<1>10. StopKept(c)
  BY <1>1, <1>7, <1>8, <1>9 DEF StopKept
<1>11. Meanwhile
  BY <1>1, <1>2, BesideItself DEF Meanwhile, BotsKnown
<1> QED
  BY <1>10, <1>11

\* One of them is signalled, or is there no longer.
LEMMA BotsLeft ==
  ASSUME Inv, NEW p, bot' = bot \/ Kill({p})
  PROVE  /\ BotsKnown /\ \A b \in Ours(bot') : b \in Ours(bot) /\ bot'[b] = bot[b]
         /\ \A b \in Bots : bot'[b].of = "other" => bot[b].of = "other"
         /\ Kill({p}) => p \notin Ours(bot')
<1>1. BotsOK(bot) /\ bot = [b \in Bots |-> bot[b]]
  BY DEF Inv, Base
<1>2. CASE bot' = bot /\ ~Kill({p})
  BY <1>1, <1>2 DEF BotsKnown
<1>3. CASE Kill({p})
  <2>1. BotsKnown /\ \A b \in Ours(bot') : b \in Ours(bot) /\ b \notin {p} /\ bot'[b] = bot[b]
    BY <1>1, <1>3, Killed
  <2>2. \A b \in Bots : bot'[b] = IF b \in {p} THEN NoBot ELSE bot[b]
    BY <1>3 DEF Kill
  <2>3. NoBot.of # "other"
    BY DEF NoBot, NoRunner
  <2> QED
    BY <2>1, <2>2, <2>3
<1> QED
  BY <1>2, <1>3

LEMMA Terminates ==
  ASSUME Inv, StopInv, NEW c \in Clis, May(cli[c]), Terminate(c)
  PROVE  Meanwhile /\ StopKept(c)
<1> DEFINE old == ending[c]
<1> DEFINE e == [old EXCEPT !.step = "kill"]
<1>1. PICK p \in old.doomed : bot' = bot \/ Kill({p})
  BY DEF Terminate
<1>2. Turn(c, e) /\ tree' = tree /\ cli' = cli /\ UNCHANGED <<owed, scene, disturbed>>
  BY DEF Terminate, Within, BotOthers
<1>3. /\ TreeOK(tree) /\ StopOK(cli[c], old, bot) /\ (~disturbed => Caught(cli[c], old, bot))
      /\ old.step = "term"
  BY DEF Inv, Base, StopInv, Terminate, Ending
<1>4. /\ e \in Endings /\ e.step = "kill" /\ e.left = old.left /\ e.doomed = old.doomed
      /\ e.missed = old.missed
  BY <1>3 DEF StopOK, Endings
<1> HIDE DEF e, old
<1>5. /\ BotsKnown /\ \A b \in Ours(bot') : b \in Ours(bot) /\ bot'[b] = bot[b]
      /\ \A b \in Bots : bot'[b].of = "other" => bot[b].of = "other"
  BY <1>1, BotsLeft
<1>6. StopOK(cli[c], e, bot')
  BY <1>3, <1>4, <1>5 DEF StopOK, Endings
<1>7. ~disturbed => Caught(cli[c], e, bot')
  BY <1>3, <1>4, <1>5 DEF Caught
<1>8. /\ ending' = [d \in Clis |-> ending'[d]] /\ ending'[c] = e
      /\ \A d \in Clis \ {c} : ending'[d] = ending[d]
  BY <1>2, TurnChanges
<1>9. StopKept(c)
  BY <1>2, <1>5, <1>6, <1>7, <1>8 DEF StopKept
<1>10. Meanwhile
  BY <1>2, <1>3, <1>5, BesideItself DEF Meanwhile
<1> QED
  BY <1>9, <1>10

LEMMA KillsAnyway ==
  ASSUME Inv, StopInv, NEW c \in Clis, May(cli[c]), KillAnyway(c)
  PROVE  Meanwhile /\ StopKept(c)
<1> DEFINE old == ending[c]
<1>0. PICK p \in old.doomed : \E survives \in {FALSE, Alive(p)} :
        /\ IF Alive(p) /\ ~survives THEN Kill({p}) ELSE bot' = bot
        /\ Turn(c, Signalled(old, p, survives))
  BY DEF KillAnyway
<1>1. PICK survives \in {FALSE, Alive(p)} :
        /\ IF Alive(p) /\ ~survives THEN Kill({p}) ELSE bot' = bot
        /\ Turn(c, Signalled(old, p, survives))
  BY <1>0
<1>2. /\ survives \in BOOLEAN /\ (bot' = bot \/ Kill({p})) /\ (Alive(p) => survives \/ Kill({p}))
      /\ Turn(c, Signalled(old, p, survives))
  <2>1. Alive(p) \in BOOLEAN
    BY DEF Alive
  <2>2. survives \in BOOLEAN
    BY <1>1, <2>1, Zenon
  <2> QED
    BY <1>1, <2>2, Zenon
<1> DEFINE e == Signalled(old, p, survives)
<1>3. tree' = tree /\ cli' = cli /\ UNCHANGED <<owed, scene, disturbed>>
  BY DEF KillAnyway, Within, BotOthers
<1>4. /\ TreeOK(tree) /\ StopOK(cli[c], old, bot) /\ (~disturbed => Caught(cli[c], old, bot))
      /\ old.step = "kill"
  BY DEF Inv, Base, StopInv, KillAnyway, Ending
<1>5. /\ e \in Endings /\ e.step = "term" /\ e.left = old.left /\ e.doomed = old.doomed \ {p}
      /\ e.missed = (old.missed \/ survives)
  BY <1>4 DEF StopOK, Endings, Signalled
<1>6. Turn(c, e)
  BY <1>2
<1> HIDE DEF e, old
<1>7. /\ BotsKnown /\ \A b \in Ours(bot') : b \in Ours(bot) /\ bot'[b] = bot[b]
      /\ \A b \in Bots : bot'[b].of = "other" => bot[b].of = "other"
      /\ Kill({p}) => p \notin Ours(bot')
  BY <1>2, BotsLeft
<1>8. StopOK(cli[c], e, bot')
  BY <1>4, <1>5, <1>7 DEF StopOK, Endings
<1>9. p \in Ours(bot') => survives
  <2>1. p \in Ours(bot') => Alive(p)
    BY <1>7 DEF Ours, Alive
  <2> QED
    BY <1>2, <1>7, <2>1
<1>10. ~disturbed => Caught(cli[c], e, bot')
  BY <1>4, <1>5, <1>7, <1>9 DEF Caught
<1>11. /\ ending' = [d \in Clis |-> ending'[d]] /\ ending'[c] = e
       /\ \A d \in Clis \ {c} : ending'[d] = ending[d]
  BY <1>6, TurnChanges
<1>12. StopKept(c)
  BY <1>3, <1>7, <1>8, <1>10, <1>11 DEF StopKept
<1>13. Meanwhile
  BY <1>3, <1>4, <1>7, BesideItself DEF Meanwhile
<1> QED
  BY <1>12, <1>13

\* A runner is seen to.  At the end none that was aimed at is left.
Missed(c) == /\ Head(cli[c].todo) # "settle"
             /\ Bot(c, Forget(tree, {ending[c].of}), AfterSync(c), [stage |-> "unsynced"])
AllOver(c, todo) ==
    /\ Bot(c, Forget(tree, {ending[c].of}), todo, [x \in {} |-> 0])
    /\ ~disturbed /\ Head(cli[c].todo) # "settle" => \A b \in Ours(bot) : bot[b].of \notin Aims(cli[c])
LEMMA SeesTo ==
  ASSUME Inv, StopInv, NEW c \in Clis, May(cli[c]), NEW todo, SeenTo(c, todo)
  PROVE  /\ StopKept(c) /\ bot' = bot
         /\ Meanwhile \/ Missed(c) \/ AllOver(c, todo)
<1> DEFINE old == ending[c]
<1> DEFINE none == [x \in {} |-> 0]
<1> DEFINE e == [AtRest EXCEPT !.step = "next", !.left = old.left]
<1>1. /\ old.step = "term" /\ old.doomed = {} /\ bot' = bot
      /\ \/ /\ Head(cli[c].todo) # "settle" /\ Turn(c, AtRest)
            /\ Bot(c, Forget(tree, {old.of}), AfterSync(c), [stage |-> "unsynced"])
         \/ /\ ~old.missed \/ Head(cli[c].todo) = "settle"
            /\ old.left = {} /\ Bot(c, Forget(tree, {old.of}), todo, none) /\ Turn(c, AtRest)
         \/ /\ ~old.missed \/ Head(cli[c].todo) = "settle"
            /\ tree' = Forget(tree, {old.of}) /\ cli' = cli /\ UNCHANGED <<owed, scene, disturbed>>
            /\ Turn(c, e)
  BY DEF SeenTo, Fails, Ending, Doing, May, BotOthers
<1> HIDE DEF none
<1>2. /\ TreeOK(tree) /\ BotsOK(bot) /\ bot = [b \in Bots |-> bot[b]]
      /\ StopOK(cli[c], old, bot) /\ (~disturbed => Caught(cli[c], old, bot))
  BY DEF Inv, Base, StopInv
<1>3. ASSUME Turn(c, AtRest) PROVE StopKept(c)
  <2>1. /\ ending' = [d \in Clis |-> ending'[d]] /\ ending'[c] = AtRest
        /\ \A d \in Clis \ {c} : ending'[d] = ending[d]
    BY <1>3, TurnChanges
  <2> QED
    BY <1>1, <2>1, Resting DEF StopKept
<1>4. CASE /\ ~old.missed \/ Head(cli[c].todo) = "settle"
           /\ tree' = Forget(tree, {old.of}) /\ cli' = cli /\ UNCHANGED <<owed, scene, disturbed>>
           /\ Turn(c, e)
  <2>1. /\ e \in Endings /\ e.step = "next" /\ e.left = old.left /\ e.doomed = {} /\ ~e.missed
    BY <1>2 DEF AtRest, Endings, StopOK
  <2> HIDE DEF e
  <2>2. /\ ending' = [d \in Clis |-> ending'[d]] /\ ending'[c] = e
        /\ \A d \in Clis \ {c} : ending'[d] = ending[d]
    BY <1>4, TurnChanges
  <2>3. StopOK(cli[c], e, bot)
    BY <2>1 DEF StopOK
  <2>4. ~disturbed => Caught(cli[c], e, bot)
    BY <1>1, <1>2, <1>4, <2>1 DEF Caught
  <2>5. StopKept(c)
    BY <1>1, <1>4, <2>2, <2>3, <2>4 DEF StopKept
  <2>6. Meanwhile
    BY <1>1, <1>2, <1>4, Forgotten DEF Meanwhile, BotsKnown
  <2> QED
    BY <1>1, <2>5, <2>6
<1>5. ASSUME ~old.missed \/ Head(cli[c].todo) = "settle",
             old.left = {}, Bot(c, Forget(tree, {old.of}), todo, none)
      PROVE  AllOver(c, todo)
  <2>1. ASSUME ~disturbed, Head(cli[c].todo) # "settle", NEW b \in Ours(bot), bot[b].of \in Aims(cli[c])
        PROVE  FALSE
    BY <1>1, <1>2, <1>5, <2>1 DEF Caught
  <2> QED
    BY <1>5, <2>1 DEF AllOver, none
<1>6. ASSUME Head(cli[c].todo) # "settle",
             Bot(c, Forget(tree, {old.of}), AfterSync(c), [stage |-> "unsynced"])
      PROVE  Missed(c)
  BY <1>6, Zenon DEF Missed, old
<1> QED
  BY <1>1, <1>3, <1>4, <1>5, <1>6

\* Stopping the bridges of rs, or failing to.
StopEnded(c, todo) ==
    /\ Only(c) /\ Carries(cli[c], cli'[c], {"stage", "bot"}) /\ cli'[c].todo = todo
    /\ cli'[c].stage = cli[c].stage
    /\ Beside(tree, tree') /\ UNCHANGED <<owed, scene, disturbed, bot>> /\ BotsKnown
    /\ ~disturbed /\ Head(cli[c].todo) # "settle" => \A b \in Ours(bot) : bot[b].of \notin Aims(cli[c])
LEMMA StopChanges ==
  ASSUME Inv, StopInv, NEW c \in Clis, May(cli[c]), NEW rs, rs \subseteq Bridged \cup {NoRunner},
         Head(cli[c].todo) # "settle" => Aims(cli[c]) \subseteq rs, NEW todo, Stop(c, rs, todo)
  PROVE  StopKept(c) /\ (Moved(c) \/ StopEnded(c, todo))
<1>1. CASE Collect(c, rs) \/ Terminate(c) \/ KillAnyway(c)
  <2>1. Meanwhile /\ StopKept(c)
    BY <1>1, Collects, Terminates, KillsAnyway
  <2> QED
    BY <2>1, MeanwhileMoves
<1>2. CASE SeenTo(c, todo)
  <2> DEFINE t == Forget(tree, {ending[c].of})
  <2> DEFINE lost == [stage |-> "unsynced"]
  <2> DEFINE none == [x \in {} |-> 0]
  <2>1. StopKept(c) /\ bot' = bot /\ (Meanwhile \/ Missed(c) \/ AllOver(c, todo))
    BY <1>2, SeesTo
  <2>2. /\ cli[c].todo # <<>> /\ Head(cli[c].todo) \in Syncs /\ Onwards(c) /\ CliTable /\ TreeOK(tree)
        /\ BotsOK(bot) /\ bot = [b \in Bots |-> bot[b]]
    BY SyncPrelude DEF May, Stops
  <2>3. Beside(tree, t)
    BY <2>2, Forgotten
  <2>4. BotsKnown
    BY <2>1, <2>2 DEF BotsKnown
  <2>5. CASE Meanwhile
    BY <2>1, <2>5, MeanwhileMoves
  <2>6. CASE AllOver(c, todo)
    <3>1. Bot(c, t, todo, none)
      BY <2>6 DEF AllOver
    <3>2. /\ Only(c) /\ Becomes(cli[c], todo, none, cli'[c]) /\ tree' = t
          /\ UNCHANGED <<owed, scene, disturbed>>
      BY <2>2, <3>1, BotChanges
    <3>3. cli'[c].todo = todo /\ Carries(cli[c], cli'[c], {})
      BY <3>2, PlainStep
    <3>4. Carries(cli[c], cli'[c], {"stage", "bot"}) /\ cli'[c].stage = cli[c].stage
      BY <3>3, CarriesMore DEF Carries
    <3> HIDE DEF t, none
    <3>5. StopEnded(c, todo)
      BY <2>1, <2>3, <2>4, <2>6, <3>2, <3>3, <3>4 DEF StopEnded, AllOver
    <3> QED
      BY <2>1, <3>5
  <2>7. CASE Missed(c)
    <3>1. Bot(c, t, AfterSync(c), lost) /\ Head(cli[c].todo) # "settle"
      BY <2>7 DEF Missed
    <3>2. /\ Only(c) /\ Becomes(cli[c], AfterSync(c), lost, cli'[c]) /\ tree' = t
          /\ UNCHANGED <<owed, scene, disturbed>>
      BY <2>2, <3>1, BotChanges
    <3>3. /\ cli'[c].todo = AfterSync(c) /\ cli'[c].stage = "unsynced"
          /\ Carries(cli[c], cli'[c], {"stage", "bot"})
      BY <3>2 DEF Becomes, Carries
    <3>4. Goes(cli[c], AfterSync(c)) /\ Left(AfterSync(c)) \cap Syncs = {}
      BY <2>2 DEF Onwards, May, Stops
    <3>5. Left(cli'[c].todo) \cap {"start", "settle"} # {} => cli[c].cfg.runner \in Bridged
      BY <3>3, <3>4 DEF Syncs
    <3>6. Beside(tree, tree') /\ Goes(cli[c], cli'[c].todo) /\ Left(cli'[c].todo) \cap Syncs = {}
      BY <2>3, <3>2, <3>3, <3>4
    <3> HIDE DEF lost, t
    <3>7. Moved(c)
      BY <2>2, <2>4, <3>2, <3>3, <3>5, <3>6, SyncGoes
    <3> QED
      BY <2>1, <3>7
  <2> QED
    BY <2>1, <2>5, <2>6, <2>7
<1> QED
  BY <1>1, <1>2 DEF Stop

\* A command that is about no bridge stays about none.
LEMMA StaysAtRest ==
  ASSUME StopInv, NEW c \in Clis, ending' = ending, ending[c].step = "rest",
         \A b \in Bots : bot'[b].of = "other" => bot[b].of = "other"
  PROVE  StopKept(c)
<1>1. StopOK(cli[c], ending[c], bot) /\ ending = [d \in Clis |-> ending[d]]
  BY DEF StopInv
<1>2. StopOK(cli'[c], ending'[c], bot') /\ Caught(cli'[c], ending'[c], bot')
  BY <1>1 DEF StopOK, Caught
<1> QED
  BY <1>1, <1>2 DEF StopKept
LEMMA NotStopping ==
  ASSUME StopInv, NEW c \in Clis, ~May(cli[c])
  PROVE  ending[c].step = "rest"
  BY DEF StopInv, StopOK

LEMMA SelectedType == \A c \in Clis : Selected(c) \in Bridged \cup {NoRunner} /\ Selected(c) = Sel(cli[c].cfg)
  BY DEF Selected, Sel

LEMMA StopOthersMoves ==
  ASSUME Inv, StopInv, NEW c \in Clis, StopOthers(c)
  PROVE  Moved(c) /\ StopKept(c)
<1> DEFINE todo == IF Selected(c) = NoRunner THEN <<"synced">> \o AfterSync(c) ELSE Rest(c)
<1>1. cli[c].todo # <<>> /\ Head(cli[c].todo) = "stop_others" /\ Stop(c, NotSelected(c), todo)
  BY DEF StopOthers, Doing
<1>2. /\ Head(cli[c].todo) \in Syncs /\ Onwards(c) /\ LocalOK(cli[c]) /\ BotsOK(bot)
      /\ CourseOK(cli[c].cmd, cli[c].todo)
  BY <1>1, SyncPrelude, Setting
<1>3. Goes(cli[c], todo)
  BY <1>1, <1>2 DEF Onwards
<1>4. Selected(c) = NoRunner => Left(todo) \cap Syncs = {"synced"}
  BY <1>1, <1>2 DEF Onwards
<1>5. Selected(c) # NoRunner => Left(todo) = Left(cli[c].todo) \ {"stop_others"}
  BY <1>1, <1>2 DEF Onwards
<1>6. Selected(c) # NoRunner => cli[c].cfg.runner \in Bridged
  BY DEF Selected
<1> HIDE DEF todo
<1>7. "force" \in Left(cli[c].todo)
  <2>1. Place(cli[c].cmd[1], "stop_others") = 21 /\ Place(cli[c].cmd[1], "force") = 22
    BY Places
  <2>2. "force" \in Due(cli[c].cmd)
    BY <1>1, <1>2, SyncHeads DEF Due
  <2>3. Head(cli[c].todo) \notin Quick /\ ~(Place(cli[c].cmd[1], "force") < Place(cli[c].cmd[1], Head(cli[c].todo)))
    BY <1>1, <2>1 DEF Quick
  <2> QED
    BY <1>1, <1>2, <2>2, <2>3, StillDue
<1>8. /\ May(cli[c]) /\ NotSelected(c) \subseteq Bridged \cup {NoRunner}
      /\ Aims(cli[c]) = Bridged \ {Selected(c)} /\ Aims(cli[c]) \subseteq NotSelected(c)
  BY <1>1, SelectedType DEF May, Stops, NotSelected, Aims
<1>9. StopKept(c) /\ (Moved(c) \/ StopEnded(c, todo))
  BY <1>1, <1>8, StopChanges
<1>10. ASSUME StopEnded(c, todo) PROVE Moved(c)
  <2>1. ASSUME ~disturbed PROVE BridgeBody(cli[c], Left(cli'[c].todo), tree', bot')
    <3>1. bot' = bot /\ cli'[c].todo = todo /\ \A b \in Ours(bot) : bot[b].of \notin Aims(cli[c])
      BY <1>1, <1>10, <2>1 DEF StopEnded
    <3>2. \A b \in Ours(bot) : bot[b].of \in Bridged
      BY <1>2 DEF Ours, BotsOK
    <3>3. \A b \in Ours(bot) : bot[b].of = Selected(c)
      BY <1>8, <3>1, <3>2
    <3>4. CASE Selected(c) = NoRunner
      <4>1. Ours(bot') = {}
        BY <3>1, <3>2, <3>3, <3>4 DEF NoRunner, Bridged
      <4> QED
        BY <4>1 DEF BridgeBody
    <3>5. CASE Selected(c) # NoRunner
      <4>1. "force" \in Left(cli'[c].todo)
        BY <1>5, <1>7, <3>1, <3>5
      <4> QED
        BY <3>1, <3>3, <4>1, SelectedIs DEF BridgeBody
    <3> QED
      BY <3>4, <3>5
  <2>2. Left(cli'[c].todo) \cap {"start", "settle"} # {} => cli[c].cfg.runner \in Bridged
    BY <1>4, <1>6, <1>10 DEF Syncs, StopEnded
  <2>3. Goes(cli[c], cli'[c].todo)
    BY <1>3, <1>10 DEF StopEnded
  <2> QED
    BY <1>1, <1>2, <1>10, <2>1, <2>2, <2>3, SyncGoes DEF StopEnded
<1> QED
  BY <1>9, <1>10

LEMMA ForceMoves ==
  ASSUME Inv, StopInv, NEW c \in Clis, ForceBridge(c)
  PROVE  Moved(c) /\ StopKept(c)
<1>1. /\ cli[c].todo # <<>> /\ Head(cli[c].todo) = "force"
      /\ IF Forced(c) THEN Stop(c, {Selected(c)}, Rest(c)) ELSE Unchanged(c, Rest(c))
  BY DEF ForceBridge, Doing
<1>2. /\ Head(cli[c].todo) \in Syncs /\ Onwards(c) /\ CliTable /\ TreeOK(tree) /\ BotsOK(bot)
      /\ InOrder(cli[c].cmd[1], cli[c].todo) /\ LocalOK(cli[c])
      /\ bot = [b \in Bots |-> bot[b]]
  BY <1>1, SyncPrelude
<1>3. Goes(cli[c], Rest(c)) /\ Left(Rest(c)) = Left(cli[c].todo) \ {"force"}
  BY <1>1, <1>2 DEF Onwards
<1>4. "stop_others" \notin Left(cli[c].todo)
  BY <1>1, <1>2, NotBegun
<1>5. Left(Rest(c)) \cap {"start", "settle"} # {} => cli[c].cfg.runner \in Bridged
  <2>1. Left(cli[c].todo) \cap {"start", "settle"} # {} => cli[c].cfg.runner \in Bridged
    BY <1>1, <1>2, <1>4 DEF LocalOK
  <2> QED
    BY <1>3, <2>1
<1>6. CASE Forced(c) /\ Stop(c, {Selected(c)}, Rest(c))
  <2>1. May(cli[c]) /\ {Selected(c)} \subseteq Bridged \cup {NoRunner} /\ Aims(cli[c]) = {Selected(c)}
    BY <1>1, <1>6, SelectedType, SelectedIs DEF May, Stops, Aims
  <2>2. StopKept(c) /\ (Moved(c) \/ StopEnded(c, Rest(c)))
    BY <1>6, <2>1, StopChanges
  <2>3. ASSUME StopEnded(c, Rest(c)) PROVE Moved(c)
    <3>1. ASSUME ~disturbed, BridgeBody(cli[c], Left(cli[c].todo), tree, bot)
          PROVE  BridgeBody(cli[c], Left(cli'[c].todo), tree', bot')
      <4>1. \A b \in Ours(bot) : bot[b].of = Selected(c)
        BY <1>4, <3>1, SelectedIs DEF BridgeBody
      <4>2. bot' = bot /\ \A b \in Ours(bot) : bot[b].of \notin {Selected(c)}
        BY <1>1, <2>1, <2>3, <3>1 DEF StopEnded
      <4>3. Ours(bot') = {}
        BY <4>1, <4>2
      <4> QED
        BY <4>3 DEF BridgeBody
    <3>2. Left(cli'[c].todo) \cap {"start", "settle"} # {} => cli[c].cfg.runner \in Bridged
      BY <1>5, <2>3 DEF StopEnded
    <3>3. Goes(cli[c], cli'[c].todo)
      BY <1>3, <2>3 DEF StopEnded
    <3> QED
      BY <1>1, <1>2, <2>3, <3>1, <3>2, <3>3, SyncGoes DEF StopEnded
  <2> QED
    BY <2>2, <2>3
<1>7. CASE ~Forced(c) /\ Unchanged(c, Rest(c))
  <2>1. /\ Only(c) /\ Carries(cli[c], cli'[c], {}) /\ cli'[c].todo = Rest(c)
        /\ UNCHANGED <<tree, owed, bot, disturbed, scene>>
    BY <1>2, <1>7, GoChanges DEF Unchanged
  <2>2. Carries(cli[c], cli'[c], {"stage", "bot"}) /\ cli'[c].stage = cli[c].stage
    BY <2>1, CarriesMore DEF Carries
  <2>3. Beside(tree, tree') /\ BotsKnown
    BY <1>2, <2>1 DEF Beside, BotsKnown
  <2>4. BridgeBody(cli[c], Left(cli[c].todo), tree, bot) => BridgeBody(cli[c], Left(cli'[c].todo), tree', bot')
    BY <1>4, <1>7, <2>1, SelectedIs DEF BridgeBody
  <2>5. Left(cli'[c].todo) \cap {"start", "settle"} # {} => cli[c].cfg.runner \in Bridged
    BY <1>5, <2>1
  <2>6. Goes(cli[c], cli'[c].todo)
    BY <1>3, <2>1
  <2>7. Moved(c)
    BY <1>1, <1>2, <2>1, <2>2, <2>3, <2>4, <2>5, <2>6, SyncGoes
  <2>8. StopKept(c)
    <3>1. ending' = ending
      BY <1>7, Zenon DEF Unchanged, Go, Others
    <3>2. ~May(cli[c])
      BY <1>1, <1>7, SelectedIs DEF May
    <3> QED
      BY <2>1, <3>1, <3>2, NotStopping, StaysAtRest
  <2> QED
    BY <2>7, <2>8
<1> QED
  BY <1>1, <1>6, <1>7

\* With the bridges of the others stopped, and its own if it is restarted, a
\* step that stops nothing leaves what is said of them as it is.
LEMMA NoMoreBots ==
  ASSUME NEW me, NEW S, NEW T, NEW t, NEW u, NEW bots, NEW bits, u.channel = t.channel,
         "stop_others" \notin S, "force" \notin S,
         \A b \in Ours(bits) : \/ b \in Ours(bots) /\ bits[b] = bots[b]
                               \/ bits[b].of = Sel(me.cfg) /\ bits[b].token = t.channel[bits[b].of]
  PROVE  BridgeBody(me, S, t, bots) => BridgeBody(me, T, u, bits)
  BY DEF BridgeBody

LEMMA LateSync ==
  ASSUME Inv, NEW c \in Clis, cli[c].todo # <<>>,
         Head(cli[c].todo) \in {"gate", "running", "start", "settle"}
  PROVE  /\ "stop_others" \notin Left(cli[c].todo) /\ "force" \notin Left(cli[c].todo)
         /\ Left(cli[c].todo) \cap {"start", "settle"} # {} => cli[c].cfg.runner \in Bridged
         /\ Head(cli[c].todo) \in Syncs /\ Onwards(c) /\ CliTable /\ TreeOK(tree) /\ BotsOK(bot)
         /\ LocalOK(cli[c]) /\ bot = [b \in Bots |-> bot[b]]
         /\ Goes(cli[c], Rest(c)) /\ Goes(cli[c], AfterSync(c))
         /\ Goes(cli[c], <<"synced">> \o AfterSync(c)) /\ Left(AfterSync(c)) \cap Syncs = {}
<1>1. /\ Head(cli[c].todo) \in Syncs /\ Onwards(c) /\ CliTable /\ TreeOK(tree) /\ BotsOK(bot)
      /\ InOrder(cli[c].cmd[1], cli[c].todo) /\ LocalOK(cli[c])
      /\ bot = [b \in Bots |-> bot[b]]
  BY SyncPrelude
<1>2. "stop_others" \notin Left(cli[c].todo) /\ "force" \notin Left(cli[c].todo)
  BY <1>1, NotBegun
<1>3. Left(cli[c].todo) \cap {"start", "settle"} # {} => cli[c].cfg.runner \in Bridged
  BY <1>1, <1>2 DEF LocalOK
<1> QED
  BY <1>1, <1>2, <1>3 DEF Onwards

LEMMA SyncPasses ==
  ASSUME Inv, NEW c \in Clis, cli[c].todo # <<>>, Head(cli[c].todo) \in {"gate", "running"},
         NEW todo, Goes(cli[c], todo), Unchanged(c, todo)
  PROVE  Moved(c)
<1>1. /\ "stop_others" \notin Left(cli[c].todo) /\ "force" \notin Left(cli[c].todo)
      /\ Left(cli[c].todo) \cap {"start", "settle"} # {} => cli[c].cfg.runner \in Bridged
      /\ Head(cli[c].todo) \in Syncs /\ CliTable /\ TreeOK(tree) /\ BotsOK(bot)
      /\ bot = [b \in Bots |-> bot[b]]
  BY LateSync
<1>2. /\ Only(c) /\ Carries(cli[c], cli'[c], {}) /\ cli'[c].todo = todo
      /\ UNCHANGED <<tree, owed, bot, disturbed, scene>>
  BY <1>1, GoChanges DEF Unchanged
<1>3. Carries(cli[c], cli'[c], {"stage", "bot"}) /\ cli'[c].stage = cli[c].stage
  BY <1>2, CarriesMore DEF Carries
<1>4. Beside(tree, tree') /\ BotsKnown
  BY <1>1, <1>2 DEF Beside, BotsKnown
<1>5. BridgeBody(cli[c], Left(cli[c].todo), tree, bot) => BridgeBody(cli[c], Left(cli'[c].todo), tree', bot')
  BY <1>1, <1>2, NoMoreBots
<1>6. Left(cli'[c].todo) \cap {"start", "settle"} # {} => cli[c].cfg.runner \in Bridged
  BY <1>1, <1>2 DEF Goes
<1> QED
  BY <1>1, <1>2, <1>3, <1>4, <1>5, <1>6, SyncGoes

LEMMA GateMoves ==
  ASSUME Inv, StopInv, NEW c \in Clis, Gate(c)
  PROVE  Moved(c) /\ StopKept(c)
<1> DEFINE todo == <<"synced">> \o AfterSync(c)
<1>1. /\ cli[c].todo # <<>> /\ Head(cli[c].todo) = "gate"
      /\ \/ cli[c].stage # "off" /\ Unchanged(c, Rest(c))
         \/ cli[c].stage = "off" /\ Stop(c, {Selected(c)}, todo)
  BY DEF Gate, Doing
<1>2. /\ "stop_others" \notin Left(cli[c].todo) /\ "force" \notin Left(cli[c].todo)
      /\ Left(cli[c].todo) \cap {"start", "settle"} # {} => cli[c].cfg.runner \in Bridged
      /\ Head(cli[c].todo) \in Syncs /\ Goes(cli[c], Rest(c)) /\ Goes(cli[c], todo)
  BY <1>1, LateSync
<1> HIDE DEF todo
<1>3. CASE cli[c].stage # "off" /\ Unchanged(c, Rest(c))
  <2>1. Moved(c)
    BY <1>1, <1>2, <1>3, SyncPasses
  <2>2. ending' = ending /\ bot' = bot
    BY <1>3, Zenon DEF Unchanged, Go, Others
  <2>3. ~May(cli[c])
    BY <1>1, <1>3 DEF May
  <2> QED
    BY <2>1, <2>2, <2>3, NotStopping, StaysAtRest
<1>4. CASE cli[c].stage = "off" /\ Stop(c, {Selected(c)}, todo)
  <2>1. May(cli[c]) /\ {Selected(c)} \subseteq Bridged \cup {NoRunner} /\ Aims(cli[c]) = {Selected(c)}
    BY <1>1, <1>4, SelectedType DEF May, Stops, Aims
  <2>2. StopKept(c) /\ (Moved(c) \/ StopEnded(c, todo))
    BY <1>4, <2>1, StopChanges
  <2>3. ASSUME StopEnded(c, todo) PROVE Moved(c)
    <3>1. BridgeBody(cli[c], Left(cli[c].todo), tree, bot) => BridgeBody(cli[c], Left(cli'[c].todo), tree', bot')
      <4>1. tree'.channel = tree.channel /\ bot' = bot
        BY <2>3 DEF Beside, StopEnded
      <4> QED
        BY <1>2, <4>1, NoMoreBots
    <3>2. Left(cli'[c].todo) \cap {"start", "settle"} # {} => cli[c].cfg.runner \in Bridged
      BY <1>2, <2>3 DEF Goes, StopEnded
    <3>3. Goes(cli[c], cli'[c].todo)
      BY <1>2, <2>3 DEF StopEnded
    <3> QED
      BY <1>1, <1>2, <2>3, <3>1, <3>2, <3>3, SyncGoes DEF StopEnded
  <2> QED
    BY <2>2, <2>3
<1> QED
  BY <1>1, <1>3, <1>4

LEMMA RunningMoves == ASSUME Inv, NEW c \in Clis, Running(c) PROVE Moved(c)
<1>1. /\ cli[c].todo # <<>> /\ Head(cli[c].todo) = "running"
      /\ Unchanged(c, Rest(c)) \/ Unchanged(c, <<"synced">> \o AfterSync(c))
  BY DEF Running, Doing
<1>2. Goes(cli[c], Rest(c)) /\ Goes(cli[c], <<"synced">> \o AfterSync(c))
  BY <1>1, LateSync
<1> QED
  BY <1>1, <1>2, SyncPasses

LEMMA SyncedMoves == ASSUME Inv, NEW c \in Clis, Synced(c) PROVE Moved(c)
<1> DEFINE ch == [stage |-> "synced"]
<1>1. cli[c].todo # <<>> /\ Head(cli[c].todo) = "synced" /\ Go(c, Rest(c), ch)
  BY DEF Synced, Doing
<1>2. /\ Head(cli[c].todo) \in Syncs /\ Onwards(c) /\ CliTable /\ TreeOK(tree) /\ BotsOK(bot)
      /\ LocalOK(cli[c]) /\ bot = [b \in Bots |-> bot[b]] /\ InOrder(cli[c].cmd[1], cli[c].todo)
  BY <1>1, SyncPrelude
<1>3. /\ Only(c) /\ Becomes(cli[c], Rest(c), ch, cli'[c]) /\ UNCHANGED <<tree, owed, bot, disturbed, scene>>
  BY <1>1, <1>2, StepChanges DEF Go, Others
<1>4. cli'[c].todo = Rest(c) /\ cli'[c].stage = "synced" /\ Carries(cli[c], cli'[c], {"stage", "bot"})
  BY <1>3 DEF Becomes, Carries
<1>5. Goes(cli[c], Rest(c)) /\ Left(Rest(c)) = Left(cli[c].todo) \ {"synced"}
  BY <1>1, <1>2 DEF Onwards
<1>6. \A x \in Left(Rest(c)) : Place(cli[c].cmd[1], "synced") < Place(cli[c].cmd[1], x)
  <2>1. LET s == cli[c].todo IN \A x \in Left(Tail(s)) : Place(cli[c].cmd[1], Head(s)) < Place(cli[c].cmd[1], x)
    BY <1>1, <1>2, Ahead
  <2> QED
    BY <1>1, <2>1 DEF Rest
<1>7. Place(cli[c].cmd[1], "synced") = 27 /\ Place(cli[c].cmd[1], "start") = 25
      /\ Place(cli[c].cmd[1], "settle") = 26
  BY Places
<1>8. "start" \notin Left(Rest(c)) /\ "settle" \notin Left(Rest(c))
  BY <1>6, <1>7
<1>9. LocalOK(cli'[c])
  <2>1. Past(cli[c].cmd[1], "synced", Left(cli'[c].todo))
    BY <1>4, <1>6 DEF Past
  <2>2. Left(cli'[c].todo) \cap {"start", "settle"} = {}
    BY <1>4, <1>8
  <2> QED
    BY <1>1, <1>2, <1>4, <1>5, <2>1, <2>2, SyncLocal DEF Goes
<1>10. BridgeOK(cli[c], tree, bot) => BridgeOK(cli'[c], tree', bot')
  <2>1. BridgeBody(cli[c], Left(cli[c].todo), tree, bot) => BridgeBody(cli[c], Left(cli'[c].todo), tree', bot')
    BY <1>3, <1>4, <1>5 DEF BridgeBody
  <2> QED
    BY <1>1, <1>2, <1>4, <2>1, BridgeBodies
<1>11. Beside(tree, tree') /\ BotsKnown
  BY <1>2, <1>3 DEF Beside, BotsKnown
<1> HIDE DEF ch
<1> QED
  BY <1>1, <1>3, <1>4, <1>5, <1>9, <1>10, <1>11, SyncMoves DEF Goes

\* A bridge is started.
Started(t, r, b) == [t EXCEPT !.made = TRUE, !.pidfile[r] = b]
LEMMA StartedFacts ==
  ASSUME NEW t, TreeOK(t), NEW r \in Bridged, NEW b \in Bots
  PROVE  Beside(t, Started(t, r, b))
<1> DEFINE p == [t.pidfile EXCEPT ![r] = b]
<1>1. t \in Trees /\ t.pidfile \in [Bridged -> Nat] /\ b \in Nat
  BY PidAssumption DEF TreeOK, Trees
<1>2. p \in [Bridged -> Nat]
  BY <1>1
<1>3. Started(t, r, b) = [t EXCEPT !.made = TRUE, !.pidfile = p]
  BY <1>1 DEF Started, Trees
<1> HIDE DEF p
<1> QED
  BY <1>1, <1>2, <1>3 DEF Beside, TreeOK, Trees

NewBot(r, t) == [of |-> r, ours |-> TRUE, state |-> "starting", token |-> t.channel[r]]
LEMMA NewBotFacts ==
  ASSUME BotsOK(bot), bot = [b \in Bots |-> bot[b]], TreeOK(tree), NEW r \in Bridged, NEW b \in Bots,
         bot' = [bot EXCEPT ![b] = NewBot(r, tree)]
  PROVE  /\ BotsKnown
         /\ \A d \in Ours(bot') : \/ d \in Ours(bot) /\ bot'[d] = bot[d]
                                  \/ bot'[d].of = r /\ bot'[d].token = tree.channel[bot'[d].of]
<1>1. tree.channel[r] \in Nat
  BY DEF TreeOK, Trees
<1>2. NewBot(r, tree) \in Processes /\ r # "other"
  BY <1>1 DEF NewBot, Processes, Bridged
<1>3. NewBot(r, tree).of = r /\ NewBot(r, tree).token = tree.channel[r]
  BY DEF NewBot
<1>4. \A d \in Bots : bot'[d] = IF d = b THEN NewBot(r, tree) ELSE bot[d]
  OBVIOUS
<1>5. bot' = [d \in Bots |-> bot'[d]]
  OBVIOUS
<1>6. BotsOK(bot')
  BY <1>2, <1>3, <1>4 DEF BotsOK
<1> QED
  BY <1>3, <1>4, <1>5, <1>6 DEF BotsKnown, Ours

LEMMA StartMoves == ASSUME Inv, NEW c \in Clis, StartBridge(c) PROVE Moved(c)
<1>1. PICK b \in Bots : Start(c, b, Rest(c))
  BY DEF StartBridge
<1> DEFINE ch == [bot |-> b]
<1>2. /\ cli[c].todo # <<>> /\ Head(cli[c].todo) = "start"
      /\ bot' = [bot EXCEPT ![b] = NewBot(Selected(c), tree)]
      /\ Bot(c, Started(tree, Selected(c), b), Rest(c), ch)
  BY <1>1 DEF StartBridge, Doing, Start, NewBot, Started
<1>3. /\ "stop_others" \notin Left(cli[c].todo) /\ "force" \notin Left(cli[c].todo)
      /\ Left(cli[c].todo) \cap {"start", "settle"} # {} => cli[c].cfg.runner \in Bridged
      /\ Head(cli[c].todo) \in Syncs /\ Onwards(c) /\ CliTable /\ TreeOK(tree) /\ BotsOK(bot)
      /\ LocalOK(cli[c]) /\ bot = [d \in Bots |-> bot[d]] /\ Goes(cli[c], Rest(c))
  BY <1>2, LateSync
<1>4. "start" \in Left(cli[c].todo)
  BY <1>2, <1>3, SyncHeads
<1>5. cli[c].cfg.runner \in Bridged /\ Selected(c) = cli[c].cfg.runner /\ Selected(c) = Sel(cli[c].cfg)
  BY <1>3, <1>4 DEF Selected, Sel
<1>6. /\ Only(c) /\ Becomes(cli[c], Rest(c), ch, cli'[c]) /\ tree' = Started(tree, Selected(c), b)
      /\ UNCHANGED <<owed, scene, disturbed>>
  BY <1>2, <1>3, BotChanges
<1>7. /\ cli'[c].todo = Rest(c) /\ cli'[c].stage = cli[c].stage
      /\ Carries(cli[c], cli'[c], {"stage", "bot"})
  BY <1>6 DEF Becomes, Carries
<1>8. Beside(tree, tree')
  BY <1>3, <1>5, <1>6, StartedFacts
<1>9. /\ BotsKnown
      /\ \A d \in Ours(bot') : \/ d \in Ours(bot) /\ bot'[d] = bot[d]
                               \/ bot'[d].of = Selected(c) /\ bot'[d].token = tree.channel[bot'[d].of]
  <2>1. Selected(c) \in Bridged
    BY <1>5
  <2> QED
    BY <1>2, <1>3, <2>1, NewBotFacts
<1>10. BridgeBody(cli[c], Left(cli[c].todo), tree, bot) => BridgeBody(cli[c], Left(cli'[c].todo), tree', bot')
  <2>1. tree'.channel = tree.channel
    BY <1>8 DEF Beside
  <2> QED
    BY <1>3, <1>5, <1>9, <2>1, NoMoreBots
<1>11. Left(cli'[c].todo) \cap {"start", "settle"} # {} => cli[c].cfg.runner \in Bridged
  BY <1>5
<1>12. Goes(cli[c], cli'[c].todo)
  BY <1>3, <1>7
<1> HIDE DEF ch
<1> QED
  BY <1>2, <1>3, <1>6, <1>7, <1>8, <1>9, <1>10, <1>11, <1>12, SyncGoes

\* Trying once more puts the start before what is left.
LEMMA RetryDue ==
  ASSUME NEW cmd, NEW m \in Due(cmd)
  PROVE  Place(cmd[1], m) < 26 => Place(cmd[1], m) < 25
<1>1. m \in {"stop_others", "force", "write_config", "alias", "guard", "make_dirs", "restore_config",
             "restore_policy"}
  BY DuePlaces
<1>2. LET op == cmd[1]
      IN  /\ Place(op, "stop_others") = 21 /\ Place(op, "force") = 22 /\ Place(op, "write_config") = 7
          /\ Place(op, "alias") \in {13, 30} /\ Place(op, "guard") \in {8, 31}
          /\ Place(op, "make_dirs") = 4 /\ Place(op, "restore_config") = 7
          /\ Place(op, "restore_policy") = 8
  BY Places
<1>3. Place(cmd[1], m) \in {21, 22, 7, 13, 30, 8, 31, 4}
  BY <1>1, <1>2
<1> QED
  BY <1>3

LEMMA RetryCourse ==
  ASSUME NEW cmd, NEW s, CourseOK(cmd, s), s # <<>>, Head(s) = "settle"
  PROVE  /\ CourseOK(cmd, <<"start">> \o s) /\ <<"start">> \o s # <<>>
         /\ Left(<<"start">> \o s) = {"start"} \cup Left(s) /\ Alike(s, <<"start">> \o s)
<1> DEFINE t == <<"start">> \o s
<1>1. /\ cmd \in Lines /\ InOrder(cmd[1], s) /\ Left(s) \subseteq Own(cmd[1]) /\ "done" \in Left(s)
      /\ \A m \in Due(cmd) : m \in Left(s) \/ Past(cmd[1], m, Left(s))
      /\ Left(s) \cap Syncs # {} => Syncing(cmd) /\ "synced" \in Left(s)
      /\ \A x \in Left(s) : Left(s) \cap Begets(x) = {}
  BY DEF CourseOK
<1>2. "settle" \in Left(s) /\ \A x \in Left(s) : x = "settle" \/ Place(cmd[1], "settle") < Place(cmd[1], x)
  BY <1>1, Ahead
<1>3. Place(cmd[1], "start") = 25 /\ Place(cmd[1], "settle") = 26
  BY Places
<1>4. \A x \in Left(s) : Place(cmd[1], "start") < Place(cmd[1], x)
  <2>1. SUFFICES ASSUME NEW x \in Left(s) PROVE 25 < Place(cmd[1], x)
    BY <1>3
  <2>2. Place(cmd[1], x) \in 0..40
    BY PlaceNat
  <2>3. Place(cmd[1], x) = 26 \/ 26 < Place(cmd[1], x)
    BY <1>2, <1>3
  <2> HIDE DEF t
  <2>4. \A n \in 0..40 : n = 26 \/ 26 < n => 25 < n
    OBVIOUS
  <2> QED
    BY <2>2, <2>3, <2>4
<1>5. "start" \in Names /\ "start" \in Syncs /\ "settle" \in Syncs
  BY SyncNames DEF Syncs
<1>6. InOrder(cmd[1], t) /\ Left(t) = {"start"} \cup Left(s) /\ t # <<>>
  BY <1>1, <1>4, <1>5, Put
<1> HIDE DEF t
<1>7. "start" \in Own(cmd[1])
  <2>1. cmd[1] \in {"setup", "run", "update"}
    <3>1. "settle" \in Own(cmd[1])
      BY <1>1, <1>2
    <3> QED
      BY <1>1, <1>5, <3>1, KindOf
  <2> QED
    BY <1>5, <2>1 DEF Own
<1>8. \A m \in Due(cmd) : m \in Left(t) \/ Past(cmd[1], m, Left(t))
  <2>1. SUFFICES ASSUME NEW m \in Due(cmd), m \notin Left(t) PROVE Past(cmd[1], m, Left(t))
    OBVIOUS
  <2>2. Past(cmd[1], m, Left(s))
    BY <1>1, <1>6, <2>1
  <2>3. Place(cmd[1], m) < Place(cmd[1], "settle")
    BY <1>2, <1>5, <2>2, SyncNames DEF Past
  <2>4. Place(cmd[1], m) < Place(cmd[1], "start")
    BY <1>3, <2>3, RetryDue
  <2> QED
    BY <1>6, <2>2, <2>4 DEF Past
<1>9. \A x \in Left(t) : Left(t) \cap Begets(x) = {}
  <2>1. \A x : "start" \notin Begets(x)
    BY DEF Begets
  <2>2. Begets("start") = {}
    BY <1>5, SyncNames
  <2> QED
    BY <1>1, <1>6, <2>1, <2>2
<1>10. CourseOK(cmd, t)
  BY <1>1, <1>2, <1>5, <1>6, <1>7, <1>8, <1>9 DEF CourseOK
<1>11. Alike(s, t)
  BY <1>5, <1>6 DEF Alike
<1> QED
  BY <1>6, <1>10, <1>11 DEF t

\* After 300 ms the bridge is settled, given up, or tried once more.
LEMMA VerdictMoves ==
  ASSUME Inv, StopInv, NEW c \in Clis, cli[c].todo # <<>>, Head(cli[c].todo) = "settle", Verdict(c)
  PROVE  Moved(c)
<1> DEFINE b == cli[c].bot
<1> DEFINE t == Forget(tree, {Selected(c)})
<1> DEFINE fine == [bot |-> 0]
<1> DEFINE lost == [bot |-> 0, stage |-> "unsynced"]
<1> DEFINE again == [bot |-> 0, stage |-> "again"]
<1>1. \/ bot' = bot /\ Bot(c, tree, Rest(c), fine)
      \/ Kill({b}) /\ Bot(c, t, AfterSync(c), lost)
      \/ Kill({b}) /\ Bot(c, t, cli[c].todo, again)
  BY DEF Verdict
<1>2. /\ "stop_others" \notin Left(cli[c].todo) /\ "force" \notin Left(cli[c].todo)
      /\ Left(cli[c].todo) \cap {"start", "settle"} # {} => cli[c].cfg.runner \in Bridged
      /\ Head(cli[c].todo) \in Syncs /\ CliTable /\ TreeOK(tree) /\ BotsOK(bot)
      /\ LocalOK(cli[c]) /\ bot = [d \in Bots |-> bot[d]] /\ Goes(cli[c], Rest(c))
      /\ Goes(cli[c], AfterSync(c)) /\ Left(AfterSync(c)) \cap Syncs = {}
  BY LateSync
<1>3. "settle" \in Left(cli[c].todo)
  BY <1>2, SyncHeads
<1>4. cli[c].cfg.runner \in Bridged /\ CourseOK(cli[c].cmd, cli[c].todo)
  BY <1>2, <1>3, Setting
<1> HIDE DEF b
<1>5. CASE bot' = bot /\ Bot(c, tree, Rest(c), fine)
  <2>1. Only(c) /\ Becomes(cli[c], Rest(c), fine, cli'[c]) /\ UNCHANGED <<tree, owed, scene, disturbed>>
    BY <1>2, <1>5, BotChanges
  <2>2. /\ cli'[c].todo = Rest(c) /\ cli'[c].stage = cli[c].stage
        /\ Carries(cli[c], cli'[c], {"stage", "bot"})
    BY <2>1 DEF Becomes, Carries
  <2>3. Beside(tree, tree') /\ BotsKnown
    BY <1>2, <1>5, <2>1 DEF Beside, BotsKnown
  <2>4. BridgeBody(cli[c], Left(cli[c].todo), tree, bot) => BridgeBody(cli[c], Left(cli'[c].todo), tree', bot')
    BY <1>2, <1>5, <2>1, NoMoreBots
  <2>5. Goes(cli[c], cli'[c].todo)
    BY <1>2, <2>2
  <2> HIDE DEF fine
  <2> QED
    BY <1>2, <1>4, <2>1, <2>2, <2>3, <2>4, <2>5, SyncGoes
<1>6. CASE Kill({b}) /\ Bot(c, t, AfterSync(c), lost)
  <2>1. /\ Only(c) /\ Becomes(cli[c], AfterSync(c), lost, cli'[c])
        /\ tree' = t /\ UNCHANGED <<owed, scene, disturbed>>
    BY <1>2, <1>6, BotChanges
  <2>2. /\ cli'[c].todo = AfterSync(c) /\ cli'[c].stage = "unsynced"
        /\ Carries(cli[c], cli'[c], {"stage", "bot"})
    BY <2>1 DEF Becomes, Carries
  <2>3. Beside(tree, tree') /\ BotsKnown
    BY <1>2, <1>6, <2>1, Forgotten, Killed
  <2>4. Goes(cli[c], cli'[c].todo) /\ Left(cli'[c].todo) \cap Syncs = {}
    BY <1>2, <2>2
  <2> HIDE DEF lost, t
  <2> QED
    BY <1>2, <1>4, <2>1, <2>2, <2>3, <2>4, SyncGoes
<1>7. CASE Kill({b}) /\ Bot(c, t, cli[c].todo, again)
  <2>1. /\ Only(c) /\ Becomes(cli[c], cli[c].todo, again, cli'[c])
        /\ tree' = t /\ UNCHANGED <<owed, scene, disturbed>>
    BY <1>2, <1>7, BotChanges
  <2>2. /\ cli'[c].todo = cli[c].todo /\ cli'[c].stage = "again"
        /\ Carries(cli[c], cli'[c], {"stage", "bot"})
    BY <2>1 DEF Becomes, Carries
  <2> HIDE DEF again
  <2>3. Beside(tree, tree') /\ BotsKnown /\ \A d \in Ours(bot') : d \in Ours(bot) /\ bot'[d] = bot[d]
    BY <1>2, <1>7, <2>1, Forgotten, Killed
  <2> HIDE DEF t
  <2>4. Alike(cli[c].todo, cli'[c].todo)
    BY <2>2 DEF Alike
  <2>5. BridgeBody(cli[c], Left(cli[c].todo), tree, bot) => BridgeBody(cli[c], Left(cli'[c].todo), tree', bot')
    <3>1. tree'.channel = tree.channel
      BY <2>3 DEF Beside
    <3> QED
      BY <1>2, <2>3, <3>1, NoMoreBots
  <2>6. BridgeOK(cli[c], tree, bot) => BridgeOK(cli'[c], tree', bot')
    BY <1>2, <2>2, <2>5, BridgeBodies
  <2>7. cli'[c].stage # "synced" /\ cli'[c].stage # "unsynced"
    BY <2>2
  <2>8. LocalOK(cli'[c])
    BY <1>2, <1>4, <2>2, <2>7, SyncLocal
  <2> QED
    BY <2>1, <2>2, <2>3, <2>4, <2>6, <2>8, SyncMoves
<1> QED
  BY <1>1, <1>5, <1>6, <1>7

\* Of the bridges that are to end before the second start, the first is the
\* owner named in the log.
LEMMA VerdictKept ==
  ASSUME Inv, StopInv, NEW c \in Clis, cli[c].todo # <<>>, Head(cli[c].todo) = "settle", Verdict(c),
         ending[c].step = "rest"
  PROVE  StopKept(c)
<1> DEFINE b == cli[c].bot
<1>1. /\ bot' = bot \/ Kill({b})
      /\ \/ ending' = ending
         \/ /\ \E t : Bot(c, t, cli[c].todo, [bot |-> 0, stage |-> "again"])
            /\ \E owner \in {{}} \cup {{d} : d \in Owners} : Turn(c, Evicting(owner))
  BY DEF Verdict
<1>2. \A d \in Bots : bot'[d].of = "other" => bot[d].of = "other"
  BY <1>1, BotsLeft
<1>3. CASE ending' = ending
  BY <1>2, <1>3, StaysAtRest
<1>4. ASSUME NEW t, Bot(c, t, cli[c].todo, [bot |-> 0, stage |-> "again"]),
             NEW owner \in {{}} \cup {{d} : d \in Owners},
             Turn(c, Evicting(owner))
      PROVE  StopKept(c)
  <2> DEFINE e == Evicting(owner)
  <2> DEFINE again == [bot |-> 0, stage |-> "again"]
  <2>1. CliTable /\ BotsOK(bot)
    BY DEF Inv, Base
  <2>2. Becomes(cli[c], cli[c].todo, again, cli'[c])
    BY <1>4, <2>1, BotChanges
  <2>3. cli'[c].todo = cli[c].todo
    BY <2>2 DEF Becomes
  <2>4. May(cli'[c]) /\ Head(cli'[c].todo) = "settle"
    BY <2>3 DEF May, Stops
  <2>5. owner \subseteq Bots /\ \A d \in owner : bot[d].of # "other"
    BY <2>1 DEF Owners, Alive, BotsOK, Bridged
  <2>6. e \in Endings /\ e.step = "term" /\ e.doomed = owner
    BY <2>5 DEF AtRest, Endings, Evicting
  <2>7. Turn(c, e)
    BY <1>4
  <2> HIDE DEF e, again
  <2>8. StopOK(cli'[c], e, bot')
    BY <1>2, <2>4, <2>5, <2>6 DEF StopOK
  <2>9. Caught(cli'[c], e, bot')
    BY <2>4 DEF Caught
  <2>10. /\ ending' = [d \in Clis |-> ending'[d]] /\ ending'[c] = e
         /\ \A d \in Clis \ {c} : ending'[d] = ending[d]
    BY <2>7, TurnChanges
  <2> QED
    BY <1>2, <2>8, <2>9, <2>10 DEF StopKept
<1> QED
  BY <1>1, <1>3, <1>4

LEMMA SettleMoves ==
  ASSUME Inv, StopInv, NEW c \in Clis, Settle(c)
  PROVE  Moved(c) /\ StopKept(c)
<1> DEFINE todo == <<"start">> \o cli[c].todo
<1>1. /\ cli[c].todo # <<>> /\ Head(cli[c].todo) = "settle"
      /\ (ending[c].step = "rest" /\ Verdict(c)) \/ Stop(c, Bridged, todo)
  BY DEF Settle, Doing, Ending
<1>2. CASE ending[c].step = "rest" /\ Verdict(c)
  BY <1>1, <1>2, VerdictMoves, VerdictKept
<1>3. CASE Stop(c, Bridged, todo)
  <2>1. May(cli[c]) /\ Bridged \subseteq Bridged \cup {NoRunner}
    BY <1>1 DEF May, Stops
  <2>2. StopKept(c) /\ (Moved(c) \/ StopEnded(c, todo))
    BY <1>1, <1>3, <2>1, StopChanges
  <2>3. ASSUME StopEnded(c, todo) PROVE Moved(c)
    <3>1. /\ "stop_others" \notin Left(cli[c].todo) /\ "force" \notin Left(cli[c].todo)
          /\ Left(cli[c].todo) \cap {"start", "settle"} # {} => cli[c].cfg.runner \in Bridged
          /\ Head(cli[c].todo) \in Syncs /\ LocalOK(cli[c])
      BY <1>1, LateSync
    <3>2. "settle" \in Left(cli[c].todo) /\ cli[c].stage \notin {"synced", "unsynced"}
      BY <1>1, <3>1, SyncHeads
    <3>3. cli[c].cfg.runner \in Bridged /\ CourseOK(cli[c].cmd, cli[c].todo)
      BY <1>1, <3>1, <3>2, Setting
    <3>4. /\ CourseOK(cli[c].cmd, cli'[c].todo) /\ cli'[c].todo # <<>>
          /\ Left(cli'[c].todo) = {"start"} \cup Left(cli[c].todo) /\ Alike(cli[c].todo, cli'[c].todo)
      <4>1. LET s == cli[c].todo
            IN  /\ CourseOK(cli[c].cmd, <<"start">> \o s) /\ <<"start">> \o s # <<>>
                /\ Left(<<"start">> \o s) = {"start"} \cup Left(s) /\ Alike(s, <<"start">> \o s)
        BY <1>1, <3>3, RetryCourse
      <4>2. cli'[c].todo = <<"start">> \o cli[c].todo
        BY <2>3 DEF StopEnded
      <4> QED
        BY <4>1, <4>2
    <3> HIDE DEF todo
    <3>5. Carries(cli[c], cli'[c], {"stage", "bot"}) /\ cli'[c].stage = cli[c].stage
      BY <2>3 DEF StopEnded
    <3>6. BridgeOK(cli[c], tree, bot) => BridgeOK(cli'[c], tree', bot')
      <4>1. tree'.channel = tree.channel /\ bot' = bot
        BY <2>3 DEF Beside, StopEnded
      <4>2. BridgeBody(cli[c], Left(cli[c].todo), tree, bot) => BridgeBody(cli[c], Left(cli'[c].todo), tree', bot')
        BY <3>1, <4>1, NoMoreBots
      <4> QED
        BY <1>1, <3>1, <3>5, <4>2, BridgeBodies
    <3>7. LocalOK(cli'[c])
      BY <1>1, <3>1, <3>2, <3>3, <3>4, <3>5, SyncLocal
    <3> QED
      BY <1>1, <2>3, <3>4, <3>5, <3>6, <3>7, SyncMoves DEF StopEnded
  <2> QED
    BY <2>2, <2>3
<1> QED
  BY <1>1, <1>2, <1>3

\* The steps of the sync that are about no bridge to end.
LEMMA OtherSyncKept ==
  ASSUME Inv, StopInv, NEW c \in Clis, Select(c) \/ Running(c) \/ StartBridge(c) \/ Synced(c)
  PROVE  StopKept(c)
<1>1. Head(cli[c].todo) \notin Stops
  BY DEF Select, Running, StartBridge, Synced, Doing, Stops
<1>2. ending[c].step = "rest"
  BY <1>1, NotStopping DEF May
<1>3. CASE Select(c) \/ Running(c) \/ Synced(c)
  <2>1. ending' = ending /\ bot' = bot
    BY <1>3, Zenon DEF Select, Running, Synced, Unchanged, Pass, Go, Others
  <2> QED
    BY <1>2, <2>1, StaysAtRest
<1>4. CASE StartBridge(c)
  <2>1. PICK b \in Bots : Start(c, b, Rest(c))
    BY <1>4 DEF StartBridge
  <2>2. ending' = ending /\ bot' = [bot EXCEPT ![b] = NewBot(Selected(c), tree)]
    BY <2>1 DEF Start, NewBot
  <2>3. bot = [d \in Bots |-> bot[d]]
    BY DEF Inv, Base
  <2>4. NewBot(Selected(c), tree).of # "other"
    BY DEF NewBot, Selected, Bridged, NoRunner
  <2>5. \A d \in Bots : bot'[d].of = "other" => bot[d].of = "other"
    BY <2>2, <2>3, <2>4
  <2> QED
    BY <1>2, <2>2, <2>5, StaysAtRest
<1> QED
  BY <1>3, <1>4

LEMMA SyncStepMoves ==
  ASSUME Inv, StopInv, NEW c \in Clis, SyncStep(c)
  PROVE  Moved(c) /\ StopKept(c) /\ cli[c].todo # <<>>
<1>1. Moved(c)
  BY SelectMoves, StopOthersMoves, ForceMoves, GateMoves, RunningMoves, StartMoves, SettleMoves,
     SyncedMoves DEF SyncStep
<1>2. StopKept(c)
  BY StopOthersMoves, ForceMoves, GateMoves, SettleMoves, OtherSyncKept DEF SyncStep
<1>3. cli[c].todo # <<>>
  BY DEF SyncStep, Select, StopOthers, ForceBridge, Gate, Running, StartBridge, Settle, Synced, Doing
<1> QED
  BY <1>1, <1>2, <1>3

\* A command that is at a step that ends no bridges.
Elsewhere(c) == cli[c].todo # <<>> /\ Head(cli[c].todo) \notin Stops
LEMMA FileStepMoves == ASSUME Inv, NEW c \in Clis, FileSteps(c) PROVE Moved(c) /\ Elsewhere(c)
<1>1. Moved(c)
  BY YamlWrittenMoves, PolicyWrittenMoves, LoadMoves, VacantMoves, RemoveMoves, MakeDirsMoves,
     DefaultPolicyMoves, DefaultConfigMoves, RestoreConfigMoves, RestorePolicyMoves, EnsureMoves,
     PatchMoves, SavePolicyMoves, AutoBindMoves, FinishMoves DEF FileSteps
<1>2. Elsewhere(c)
  <2>1. YamlWritten(c) \/ PolicyWritten(c) \/ LoadRuntime(c) \/ Vacant(c) \/ RemoveDirAll(c) => Elsewhere(c)
    BY Zenon DEF YamlWritten, PolicyWritten, LoadRuntime, Vacant, RemoveDirAll, Doing, Elsewhere, Stops
  <2>2. MakeDirs(c) \/ WriteDefaultPolicy(c) \/ WriteDefaultConfig(c) \/ RestoreConfig(c) \/ RestorePolicy(c) => Elsewhere(c)
    BY Zenon DEF MakeDirs, WriteDefaultPolicy, WriteDefaultConfig, RestoreConfig, RestorePolicy, Doing, Elsewhere, Stops
  <2>3. EnsureArtifacts(c) \/ ApplyPatch(c) \/ SavePolicy(c) \/ AutoBind(c) \/ Finish(c) => Elsewhere(c)
    BY Zenon DEF EnsureArtifacts, ApplyPatch, SavePolicy, AutoBind, Finish, Doing, Elsewhere, Stops
  <2> QED
    BY <2>1, <2>2, <2>3 DEF FileSteps
<1> QED
  BY <1>1, <1>2

LEMMA HomeStepMoves == ASSUME Inv, NEW c \in Clis, HomeSteps(c) PROVE Moved(c) /\ Elsewhere(c)
<1>1. Moved(c)
  BY HomeWrittenMoves, ProvisionMoves, ImportMoves, CloneMoves, BootstrapMoves, WriteConfigMoves,
     RepairMoves, StoreKeyMoves, StoreProfileMoves, VerifyImportMoves, AliasMoves, SaveRunnerMoves,
     ValidateMoves, ReconcileMoves, DecideMoves, DropHomeMoves, DropWorkspaceMoves, UnlinkMoves,
     MatchMoves, TargetMoves, AvailableMoves, SeedMoves, GuardMoves, CheckAuthMoves, LaunchMoves
     DEF HomeSteps
<1>2. Elsewhere(c)
  <2>1. HomeWritten(c) \/ Provision(c) \/ Import(c) \/ Clone(c) \/ Bootstrap(c) => Elsewhere(c)
    BY Zenon DEF HomeWritten, Provision, Import, Clone, Bootstrap, Doing, Elsewhere, Stops
  <2>2. WriteRunnerConfig(c) \/ RepairAuth(c) \/ StoreKey(c) \/ StoreProfile(c) \/ VerifyImport(c) => Elsewhere(c)
    BY Zenon DEF WriteRunnerConfig, RepairAuth, StoreKey, StoreProfile, VerifyImport, Doing, Elsewhere, Stops
  <2>3. MediaAlias(c) \/ SaveRunner(c) \/ Validate(c) \/ Reconcile(c) \/ Decide(c) => Elsewhere(c)
    BY Zenon DEF MediaAlias, SaveRunner, Validate, Reconcile, Decide, Doing, Elsewhere, Stops
  <2>4. DropHome(c) \/ DropWorkspace(c) \/ Unlink(c) \/ Match(c) \/ Target(c) => Elsewhere(c)
    BY Zenon DEF DropHome, DropWorkspace, Unlink, Match, Target, Doing, Elsewhere, Stops
  <2>5. Available(c) \/ Seed(c) \/ Guard(c) \/ CheckAuth(c) \/ Launch(c) => Elsewhere(c)
    BY Zenon DEF Available, Seed, Guard, CheckAuth, Launch, Doing, Elsewhere, Stops
  <2> QED
    BY <2>1, <2>2, <2>3, <2>4, <2>5 DEF HomeSteps
<1> QED
  BY <1>1, <1>2

-----------------------------------------------------------------------------
\* The steps a command begins with.
Segment(op, s, S, lo, hi) ==
    /\ InOrder(op, s) /\ Left(s) = S /\ S \subseteq Names /\ \A x \in S : Place(op, x) \in lo..hi

LEMMA Joined ==
  ASSUME NEW op, NEW s, NEW S, NEW a \in Nat, NEW b \in Nat, Segment(op, s, S, a, b),
         NEW t, NEW T, NEW d \in Nat, NEW e \in Nat, Segment(op, t, T, d, e), a <= d, b < d, b <= e
  PROVE  Segment(op, s \o t, S \cup T, a, e)
<1>1. /\ s \in Seq(Names) /\ t \in Seq(Names) /\ Len(s) \in Nat /\ Len(t) \in Nat
      /\ DOMAIN s = 1..Len(s) /\ DOMAIN t = 1..Len(t)
  BY DEF Segment, InOrder
<1>2. s \o t \in Seq(Names) /\ Len(s \o t) = Len(s) + Len(t) /\ DOMAIN (s \o t) = 1..(Len(s) + Len(t))
  BY <1>1
<1>3. \A i \in 1..(Len(s) + Len(t)) : (s \o t)[i] = IF i <= Len(s) THEN s[i] ELSE t[i - Len(s)]
  BY <1>1
<1>4. \A i \in 1..Len(s) : s[i] \in S
  BY <1>1 DEF Segment, Left
<1>5. \A i \in 1..Len(t) : t[i] \in T
  BY <1>1 DEF Segment, Left
<1>6. \A x \in S : \A y \in T : Place(op, x) < Place(op, y)
  BY DEF Segment
<1>7. /\ \A i, j \in 1..Len(s) : i < j => Place(op, s[i]) < Place(op, s[j])
      /\ \A i, j \in 1..Len(t) : i < j => Place(op, t[i]) < Place(op, t[j])
  BY DEF Segment, InOrder
<1> DEFINE u == s \o t
<1>8. \A i \in 1..(Len(s) + Len(t)) : i \in 1..Len(s) \/ i - Len(s) \in 1..Len(t)
  BY <1>1
<1>9. InOrder(op, u)
  <2>1. SUFFICES ASSUME NEW i \in 1..(Len(s) + Len(t)), NEW j \in 1..(Len(s) + Len(t)), i < j
                 PROVE  Place(op, u[i]) < Place(op, u[j])
    BY <1>2 DEF InOrder
  <2>2. CASE j <= Len(s)
    <3>1. i \in 1..Len(s) /\ j \in 1..Len(s) /\ u[i] = s[i] /\ u[j] = s[j]
      BY <1>1, <1>3, <2>1, <2>2
    <3> QED
      BY <1>7, <2>1, <3>1
  <2>3. CASE i <= Len(s) /\ ~(j <= Len(s))
    <3>1. i \in 1..Len(s) /\ j - Len(s) \in 1..Len(t) /\ u[i] = s[i] /\ u[j] = t[j - Len(s)]
      BY <1>1, <1>3, <2>1, <2>3
    <3> QED
      BY <1>4, <1>5, <1>6, <3>1
  <2>4. CASE ~(i <= Len(s))
    <3>1. \A k \in 1..(Len(s) + Len(t)) : ~(k <= Len(s)) => k - Len(s) \in 1..Len(t)
      BY <1>1
    <3>2. ~(j <= Len(s)) /\ i - Len(s) < j - Len(s)
      BY <1>1, <2>1, <2>4
    <3>3. u[i] = t[i - Len(s)] /\ u[j] = t[j - Len(s)]
      BY <1>3, <2>1, <2>4, <3>2
    <3>4. i - Len(s) \in 1..Len(t) /\ j - Len(s) \in 1..Len(t)
      BY <2>1, <2>4, <3>1, <3>2
    <3> DEFINE k == i - Len(s)
    <3> DEFINE l == j - Len(s)
    <3>5. k \in 1..Len(t) /\ l \in 1..Len(t) /\ k < l
      BY <3>2, <3>4
    <3> HIDE DEF k, l
    <3>6. Place(op, t[k]) < Place(op, t[l])
      BY <1>7, <3>5
    <3> QED
      BY <3>3, <3>6 DEF k, l
  <2> QED
    BY <1>1, <2>2, <2>3, <2>4
<1>10. Left(u) = S \cup T
  <2>1. S = {s[i] : i \in 1..Len(s)} /\ T = {t[i] : i \in 1..Len(t)}
    BY <1>1 DEF Segment, Left
  <2>2. Left(u) = {u[i] : i \in 1..(Len(s) + Len(t))}
    BY <1>2 DEF Left
  <2>3. \A i \in 1..(Len(s) + Len(t)) : u[i] \in S \cup T
    BY <1>1, <1>3, <1>4, <1>5, <1>8
  <2>4. \A i \in 1..Len(s) : i \in 1..(Len(s) + Len(t)) /\ u[i] = s[i]
    BY <1>1, <1>3
  <2>5. \A i \in 1..Len(t) : i + Len(s) \in 1..(Len(s) + Len(t)) /\ u[i + Len(s)] = t[i]
    BY <1>1, <1>3
  <2> HIDE DEF u
  <2>6. Left(u) \subseteq S \cup T
    BY <2>2, <2>3
  <2>7. S \subseteq Left(u)
    BY <2>1, <2>2, <2>4
  <2>8. T \subseteq Left(u)
    BY <2>1, <2>2, <2>5
  <2> QED
    BY <2>6, <2>7, <2>8
<1>11. S \cup T \subseteq Names /\ \A x \in S \cup T : Place(op, x) \in a..e
  <2>1. \A x \in S : Place(op, x) \in a..b
    BY DEF Segment
  <2>2. \A x \in T : Place(op, x) \in d..e
    BY DEF Segment
  <2>3. \A n \in a..b : n \in a..e
    OBVIOUS
  <2>4. \A n \in d..e : n \in a..e
    OBVIOUS
  <2>5. S \subseteq Names /\ T \subseteq Names
    BY DEF Segment
  <2> QED
    BY <2>1, <2>2, <2>3, <2>4, <2>5
<1> QED
  BY <1>9, <1>10, <1>11 DEF Segment

LEMMA OneStep ==
  ASSUME NEW op, NEW x \in Names, NEW m \in Nat, Place(op, x) = m
  PROVE  Segment(op, <<x>>, {x}, m, m)
  BY DEF Segment, InOrder, Left

LEMMA TwoSteps ==
  ASSUME NEW op, NEW x \in Names, NEW y \in Names, NEW m \in Nat, NEW n \in Nat,
         Place(op, x) = m, Place(op, y) = n, m < n
  PROVE  Segment(op, <<x, y>>, {x, y}, m, n)
  BY DEF Segment, InOrder, Left

LEMMA ThreeSteps ==
  ASSUME NEW op, NEW x \in Names, NEW y \in Names, NEW z \in Names, NEW m \in Nat, NEW n \in Nat,
         NEW p \in Nat, Place(op, x) = m, Place(op, y) = n, Place(op, z) = p, m < n, n < p
  PROVE  Segment(op, <<x, y, z>>, {x, y, z}, m, p)
<1> DEFINE s == <<x, y, z>>
<1>1. s \in Seq(Names) /\ Len(s) = 3 /\ DOMAIN s = 1..3 /\ s[1] = x /\ s[2] = y /\ s[3] = z
  OBVIOUS
<1> HIDE DEF s
<1>2. \A i \in 1..3 : i = 1 \/ i = 2 \/ i = 3
  OBVIOUS
<1>3. Left(s) = {x, y, z}
  BY <1>1, <1>2 DEF Left
<1>4. \A i, j \in 1..3 : i < j => Place(op, s[i]) < Place(op, s[j])
  BY <1>1, <1>2
<1>5. \A w \in {x, y, z} : Place(op, w) \in m..p
  OBVIOUS
<1> QED
  BY <1>1, <1>3, <1>4, <1>5 DEF Segment, InOrder, s

LEMMA FiveSteps ==
  ASSUME NEW op, NEW x \in Names, NEW y \in Names, NEW z \in Names, NEW v \in Names, NEW w \in Names,
         NEW m \in Nat, NEW n \in Nat, Place(op, x) = m, Place(op, w) = n,
         Place(op, x) < Place(op, y), Place(op, y) < Place(op, z), Place(op, z) < Place(op, v),
         Place(op, v) < Place(op, w)
  PROVE  Segment(op, <<x, y, z, v, w>>, {x, y, z, v, w}, m, n)
<1> DEFINE s == <<x, y, z, v, w>>
<1>1. /\ s \in Seq(Names) /\ Len(s) = 5 /\ DOMAIN s = 1..5 /\ s[1] = x /\ s[2] = y /\ s[3] = z
      /\ s[4] = v /\ s[5] = w
  OBVIOUS
<1> HIDE DEF s
<1>2. \A i \in 1..5 : i = 1 \/ i = 2 \/ i = 3 \/ i = 4 \/ i = 5
  OBVIOUS
<1>3. Left(s) = {x, y, z, v, w}
  BY <1>1, <1>2 DEF Left
<1>4. \A k \in {x, y, z, v, w} : Place(op, k) \in 0..40
  BY PlaceNat
<1>5. \A i, j \in 1..5 : i < j => Place(op, s[i]) < Place(op, s[j])
  <2>1. /\ Place(op, x) \in 0..40 /\ Place(op, y) \in 0..40 /\ Place(op, z) \in 0..40
        /\ Place(op, v) \in 0..40 /\ Place(op, w) \in 0..40
    BY PlaceNat
  <2>2. /\ Place(op, x) < Place(op, z) /\ Place(op, y) < Place(op, v) /\ Place(op, z) < Place(op, w)
    BY <2>1, Later, Zenon
  <2>3. /\ Place(op, x) < Place(op, v) /\ Place(op, y) < Place(op, w)
    BY <2>1, <2>2, Later, Zenon
  <2>4. Place(op, x) < Place(op, w)
    BY <2>1, <2>3, Later, Zenon
  <2>5. SUFFICES ASSUME NEW i \in 1..5, NEW j \in 1..5, i < j PROVE Place(op, s[i]) < Place(op, s[j])
    OBVIOUS
  <2>6. CASE i = 1
    BY <1>1, <1>2, <2>2, <2>3, <2>4, <2>5, <2>6
  <2>7. CASE i = 2
    BY <1>1, <1>2, <2>2, <2>3, <2>5, <2>7
  <2>8. CASE i = 3
    BY <1>1, <1>2, <2>2, <2>5, <2>8
  <2>9. CASE i = 4
    BY <1>1, <1>2, <2>5, <2>9
  <2> QED
    BY <1>2, <2>5, <2>6, <2>7, <2>8, <2>9
<1>6. \A u \in {x, y, z, v, w} : Place(op, u) \in m..n
  BY <1>4
<1> QED
  BY <1>1, <1>3, <1>5, <1>6 DEF Segment, InOrder, s

LEMMA SyncSegment == \A op : Segment(op, SyncSteps, Syncs, 20, 27)
<1>1. TAKE op
<1> DEFINE s == SyncSteps
<1>2. /\ s \in Seq(Names) /\ Len(s) = 8 /\ DOMAIN s = 1..8
      /\ s[1] = "select" /\ s[2] = "stop_others" /\ s[3] = "force" /\ s[4] = "gate"
      /\ s[5] = "running" /\ s[6] = "start" /\ s[7] = "settle" /\ s[8] = "synced"
  <2>1. \A x \in {"select", "stop_others", "force", "gate", "running", "start", "settle", "synced"} :
           x \in Names
    BY SyncNames DEF Syncs
  <2> QED
    BY <2>1 DEF SyncSteps
<1> HIDE DEF s
<1>3. \A i \in 1..8 : i = 1 \/ i = 2 \/ i = 3 \/ i = 4 \/ i = 5 \/ i = 6 \/ i = 7 \/ i = 8
  OBVIOUS
<1>4. Left(s) = Syncs
  BY <1>2, <1>3 DEF Left, Syncs
<1>5. \A i \in 1..8 : Place(op, s[i]) = 19 + i
  <2>1. /\ Place(op, "select") = 20 /\ Place(op, "stop_others") = 21 /\ Place(op, "force") = 22
        /\ Place(op, "gate") = 23 /\ Place(op, "running") = 24 /\ Place(op, "start") = 25
        /\ Place(op, "settle") = 26 /\ Place(op, "synced") = 27
    BY Places
  <2> QED
    BY <1>2, <1>3, <2>1
<1>6. \A i, j \in 1..8 : i < j => Place(op, s[i]) < Place(op, s[j])
  BY <1>5
<1>7. \A x \in Syncs : Place(op, x) \in 20..27
  BY SyncPlaces
<1> QED
  BY <1>2, <1>4, <1>6, <1>7, SyncNames DEF Segment, InOrder, s

\* The steps of each command, in order, and what they make it do.
Enlisted(cmd, s) ==
    LET S == Left(s)
    IN  /\ InOrder(cmd[1], s) /\ S \subseteq Own(cmd[1]) /\ "done" \in S /\ Due(cmd) \subseteq S
        /\ IF Syncing(cmd) THEN Syncs \subseteq S ELSE S \cap Syncs = {}
        /\ (\A x \in S : S \cap Begets(x) = {}) /\ S \cap Quick = {}
        /\ IF cmd[1] = "init" THEN "vacant" \in S
           ELSE IF cmd[1] \in {"force", "purge_at"} THEN "remove_dir" \in S ELSE "load" \in S

LEMMA Begetting ==
  /\ \A x : x \notin {"import", "reconcile", "decide", "repair_auth"} => Begets(x) = {}
  /\ \A x : Begets(x) \subseteq {"clone", "decide", "drop_home", "drop_workspace", "unlink",
                                 "auth_store", "auth_profiles"}
  BY DEF Begets
LEMMA StepsInit ==
  ASSUME NEW k, NEW cmd, cmd = <<"init", k>>
  PROVE  Enlisted(cmd, Steps("init", k) \o <<"done">>)
<1>1. Steps("init", k) = <<"vacant">> \o <<"make_dirs", "default_policy", "default_config">>
  BY DEF Steps, InitLayout
<1>2. /\ Place("init", "vacant") = 2
      /\ Place("init", "make_dirs") = 4
      /\ Place("init", "default_policy") = 5
      /\ Place("init", "default_config") = 6
      /\ Place("init", "done") = 40
  BY Places
<1>3. {"vacant", "make_dirs", "default_policy", "default_config", "done"} \subseteq Names
  BY DEF Names, LayoutSteps, DropSteps, HomeWork
<1>4. Segment("init", <<"vacant">>, {"vacant"}, 2, 2)
  BY <1>2, <1>3, OneStep
<1>5. Segment("init", <<"make_dirs", "default_policy", "default_config">>, {"make_dirs",
              "default_policy", "default_config"}, 4, 6)
  BY <1>2, <1>3, ThreeSteps
<1>6. Segment("init", <<"vacant">> \o <<"make_dirs", "default_policy", "default_config">>,
              {"vacant"} \cup {"make_dirs", "default_policy", "default_config"}, 2, 6)
  BY <1>4, <1>5, Joined
<1>7. Segment("init", <<"done">>, {"done"}, 40, 40)
  BY <1>2, <1>3, OneStep
<1>8. Segment("init", <<"vacant">> \o <<"make_dirs", "default_policy", "default_config">>
              \o <<"done">>, {"vacant"} \cup {"make_dirs", "default_policy", "default_config"}
              \cup {"done"}, 2, 40)
  BY <1>6, <1>7, Joined
<1> DEFINE S == {"vacant"} \cup {"make_dirs", "default_policy", "default_config"} \cup {"done"}
<1> DEFINE s == Steps("init", k) \o <<"done">>
<1>9. InOrder("init", s) /\ Left(s) = S
  BY <1>1, <1>8 DEF Segment
<1> HIDE DEF s
<1>10. cmd[1] = "init" /\ cmd[2] = k
  OBVIOUS
<1>11. S \subseteq Own("init") /\ "done" \in S
  BY DEF Own, LayoutSteps, DropSteps, HomeWork
<1>12. ~Syncing(cmd) /\ S \cap Syncs = {}
  BY <1>10 DEF Syncing, Syncs
<1>13. Due(cmd) \subseteq S
  BY <1>10, <1>12 DEF Due, Syncs
<1>14. S \cap Quick = {}
  BY DEF Quick, Syncs
<1>15. \A x \in S : S \cap Begets(x) = {}
  BY Begetting DEF Syncs
<1>16. "vacant" \in S
  OBVIOUS
<1> HIDE DEF S
<1> QED
  BY <1>9, <1>10, <1>11, <1>12, <1>13, <1>14, <1>15, <1>16 DEF Enlisted, s

LEMMA StepsForce ==
  ASSUME NEW k, NEW cmd, cmd = <<"force", k>>
  PROVE  Enlisted(cmd, Steps("force", k) \o <<"done">>)
<1>1. Steps("force", k) = <<"remove_dir">> \o <<"make_dirs", "default_policy", "default_config">>
  BY DEF Steps, InitLayout
<1>2. /\ Place("force", "remove_dir") = 3
      /\ Place("force", "make_dirs") = 4
      /\ Place("force", "default_policy") = 5
      /\ Place("force", "default_config") = 6
      /\ Place("force", "done") = 40
  BY Places
<1>3. {"remove_dir", "make_dirs", "default_policy", "default_config", "done"} \subseteq Names
  BY DEF Names, LayoutSteps, DropSteps, HomeWork
<1>4. Segment("force", <<"remove_dir">>, {"remove_dir"}, 3, 3)
  BY <1>2, <1>3, OneStep
<1>5. Segment("force", <<"make_dirs", "default_policy", "default_config">>, {"make_dirs",
              "default_policy", "default_config"}, 4, 6)
  BY <1>2, <1>3, ThreeSteps
<1>6. Segment("force", <<"remove_dir">> \o <<"make_dirs", "default_policy", "default_config">>,
              {"remove_dir"} \cup {"make_dirs", "default_policy", "default_config"}, 3, 6)
  BY <1>4, <1>5, Joined
<1>7. Segment("force", <<"done">>, {"done"}, 40, 40)
  BY <1>2, <1>3, OneStep
<1>8. Segment("force", <<"remove_dir">> \o <<"make_dirs", "default_policy", "default_config">>
              \o <<"done">>, {"remove_dir"} \cup {"make_dirs", "default_policy",
              "default_config"} \cup {"done"}, 3, 40)
  BY <1>6, <1>7, Joined
<1> DEFINE S == {"remove_dir"} \cup {"make_dirs", "default_policy", "default_config"} \cup {"done"}
<1> DEFINE s == Steps("force", k) \o <<"done">>
<1>9. InOrder("force", s) /\ Left(s) = S
  BY <1>1, <1>8 DEF Segment
<1> HIDE DEF s
<1>10. cmd[1] = "force" /\ cmd[2] = k
  OBVIOUS
<1>11. S \subseteq Own("force") /\ "done" \in S
  BY DEF Own, LayoutSteps, DropSteps, HomeWork
<1>12. ~Syncing(cmd) /\ S \cap Syncs = {}
  BY <1>10 DEF Syncing, Syncs
<1>13. Due(cmd) \subseteq S
  BY <1>10, <1>12 DEF Due, Syncs
<1>14. S \cap Quick = {}
  BY DEF Quick, Syncs
<1>15. \A x \in S : S \cap Begets(x) = {}
  BY Begetting DEF Syncs
<1>16. "remove_dir" \in S
  OBVIOUS
<1> HIDE DEF S
<1> QED
  BY <1>9, <1>10, <1>11, <1>12, <1>13, <1>14, <1>15, <1>16 DEF Enlisted, s

LEMMA StepsKeep ==
  ASSUME NEW k, NEW cmd, cmd = <<"keep", k>>
  PROVE  Enlisted(cmd, Steps("keep", k) \o <<"done">>)
<1>1. Steps("keep", k) = <<"load", "remove_dir">> \o <<"make_dirs", "default_policy",
      "default_config">> \o <<"restore_config", "restore_policy", "ensure_artifacts">>
  BY DEF Steps, KeepConfigReset, InitLayout
<1>2. /\ Place("keep", "load") = 2
      /\ Place("keep", "remove_dir") = 3
      /\ Place("keep", "make_dirs") = 4
      /\ Place("keep", "default_policy") = 5
      /\ Place("keep", "default_config") = 6
      /\ Place("keep", "restore_config") = 7
      /\ Place("keep", "restore_policy") = 8
      /\ Place("keep", "ensure_artifacts") = 9
      /\ Place("keep", "done") = 40
  BY Places
<1>3. {"load", "remove_dir", "make_dirs", "default_policy", "default_config", "restore_config",
      "restore_policy", "ensure_artifacts", "done"} \subseteq Names
  BY DEF Names, LayoutSteps, DropSteps, HomeWork
<1>4. Segment("keep", <<"load", "remove_dir">>, {"load", "remove_dir"}, 2, 3)
  BY <1>2, <1>3, TwoSteps
<1>5. Segment("keep", <<"make_dirs", "default_policy", "default_config">>, {"make_dirs",
              "default_policy", "default_config"}, 4, 6)
  BY <1>2, <1>3, ThreeSteps
<1>6. Segment("keep", <<"load", "remove_dir">> \o <<"make_dirs", "default_policy",
              "default_config">>, {"load", "remove_dir"} \cup {"make_dirs", "default_policy",
              "default_config"}, 2, 6)
  BY <1>4, <1>5, Joined
<1>7. Segment("keep", <<"restore_config", "restore_policy", "ensure_artifacts">>,
              {"restore_config", "restore_policy", "ensure_artifacts"}, 7, 9)
  BY <1>2, <1>3, ThreeSteps
<1>8. Segment("keep", <<"load", "remove_dir">> \o <<"make_dirs", "default_policy",
              "default_config">> \o <<"restore_config", "restore_policy", "ensure_artifacts">>,
              {"load", "remove_dir"} \cup {"make_dirs", "default_policy", "default_config"}
              \cup {"restore_config", "restore_policy", "ensure_artifacts"}, 2, 9)
  BY <1>6, <1>7, Joined
<1>9. Segment("keep", <<"done">>, {"done"}, 40, 40)
  BY <1>2, <1>3, OneStep
<1>10. Segment("keep", <<"load", "remove_dir">> \o <<"make_dirs", "default_policy",
               "default_config">> \o <<"restore_config", "restore_policy", "ensure_artifacts">>
               \o <<"done">>, {"load", "remove_dir"} \cup {"make_dirs", "default_policy",
               "default_config"} \cup {"restore_config", "restore_policy", "ensure_artifacts"}
               \cup {"done"}, 2, 40)
  BY <1>8, <1>9, Joined
<1> DEFINE S == {"load", "remove_dir"} \cup {"make_dirs", "default_policy", "default_config"}
                \cup {"restore_config", "restore_policy", "ensure_artifacts"} \cup {"done"}
<1> DEFINE s == Steps("keep", k) \o <<"done">>
<1>11. InOrder("keep", s) /\ Left(s) = S
  BY <1>1, <1>10 DEF Segment
<1> HIDE DEF s
<1>12. cmd[1] = "keep" /\ cmd[2] = k
  OBVIOUS
<1>13. S \subseteq Own("keep") /\ "done" \in S
  BY DEF Own, LayoutSteps, DropSteps, HomeWork
<1>14. ~Syncing(cmd) /\ S \cap Syncs = {}
  BY <1>12 DEF Syncing, Syncs
<1>15. Due(cmd) \subseteq S
  BY <1>12, <1>14 DEF Due, Syncs
<1>16. S \cap Quick = {}
  BY DEF Quick, Syncs
<1>17. \A x \in S : S \cap Begets(x) = {}
  BY Begetting DEF Syncs
<1>18. "load" \in S
  OBVIOUS
<1> HIDE DEF S
<1> QED
  BY <1>11, <1>12, <1>13, <1>14, <1>15, <1>16, <1>17, <1>18 DEF Enlisted, s

LEMMA StepsPurge ==
  ASSUME NEW k, NEW cmd, cmd = <<"purge", k>>
  PROVE  Enlisted(cmd, Steps("purge", k) \o <<"done">>)
<1>1. Steps("purge", k) = <<"load", "remove_dir">>
  BY DEF Steps
<1>2. /\ Place("purge", "load") = 2
      /\ Place("purge", "remove_dir") = 3
      /\ Place("purge", "done") = 40
  BY Places
<1>3. {"load", "remove_dir", "done"} \subseteq Names
  BY DEF Names, LayoutSteps, DropSteps, HomeWork
<1>4. Segment("purge", <<"load", "remove_dir">>, {"load", "remove_dir"}, 2, 3)
  BY <1>2, <1>3, TwoSteps
<1>5. Segment("purge", <<"done">>, {"done"}, 40, 40)
  BY <1>2, <1>3, OneStep
<1>6. Segment("purge", <<"load", "remove_dir">> \o <<"done">>, {"load", "remove_dir"}
              \cup {"done"}, 2, 40)
  BY <1>4, <1>5, Joined
<1> DEFINE S == {"load", "remove_dir"} \cup {"done"}
<1> DEFINE s == Steps("purge", k) \o <<"done">>
<1>7. InOrder("purge", s) /\ Left(s) = S
  BY <1>1, <1>6 DEF Segment
<1> HIDE DEF s
<1>8. cmd[1] = "purge" /\ cmd[2] = k
  OBVIOUS
<1>9. S \subseteq Own("purge") /\ "done" \in S
  BY DEF Own, LayoutSteps, DropSteps, HomeWork
<1>10. ~Syncing(cmd) /\ S \cap Syncs = {}
  BY <1>8 DEF Syncing, Syncs
<1>11. Due(cmd) \subseteq S
  BY <1>8, <1>10 DEF Due, Syncs
<1>12. S \cap Quick = {}
  BY DEF Quick, Syncs
<1>13. \A x \in S : S \cap Begets(x) = {}
  BY Begetting DEF Syncs
<1>14. "load" \in S
  OBVIOUS
<1> HIDE DEF S
<1> QED
  BY <1>7, <1>8, <1>9, <1>10, <1>11, <1>12, <1>13, <1>14 DEF Enlisted, s

LEMMA StepsPurgeAt ==
  ASSUME NEW k, NEW cmd, cmd = <<"purge_at", k>>
  PROVE  Enlisted(cmd, Steps("purge_at", k) \o <<"done">>)
<1>1. Steps("purge_at", k) = <<"remove_dir">>
  BY DEF Steps
<1>2. Place("purge_at", "remove_dir") = 3 /\ Place("purge_at", "done") = 40
  BY Places
<1>3. {"remove_dir", "done"} \subseteq Names
  BY DEF Names, LayoutSteps, DropSteps, HomeWork
<1>4. Segment("purge_at", <<"remove_dir">>, {"remove_dir"}, 3, 3)
  BY <1>2, <1>3, OneStep
<1>5. Segment("purge_at", <<"done">>, {"done"}, 40, 40)
  BY <1>2, <1>3, OneStep
<1>6. Segment("purge_at", <<"remove_dir">> \o <<"done">>, {"remove_dir"} \cup {"done"}, 3, 40)
  BY <1>4, <1>5, Joined
<1> DEFINE S == {"remove_dir"} \cup {"done"}
<1> DEFINE s == Steps("purge_at", k) \o <<"done">>
<1>7. InOrder("purge_at", s) /\ Left(s) = S
  BY <1>1, <1>6 DEF Segment
<1> HIDE DEF s
<1>8. cmd[1] = "purge_at" /\ cmd[2] = k
  OBVIOUS
<1>9. S \subseteq Own("purge_at") /\ "done" \in S
  BY DEF Own, LayoutSteps, DropSteps, HomeWork
<1>10. ~Syncing(cmd) /\ S \cap Syncs = {}
  BY <1>8 DEF Syncing, Syncs
<1>11. Due(cmd) \subseteq S
  BY <1>8, <1>10 DEF Due, Syncs
<1>12. S \cap Quick = {}
  BY DEF Quick, Syncs
<1>13. \A x \in S : S \cap Begets(x) = {}
  BY Begetting DEF Syncs
<1>14. "remove_dir" \in S
  OBVIOUS
<1> HIDE DEF S
<1> QED
  BY <1>7, <1>8, <1>9, <1>10, <1>11, <1>12, <1>13, <1>14 DEF Enlisted, s

LEMMA StepsSetupOpenclaw ==
  ASSUME NEW cmd, cmd = <<"setup", "openclaw">>
  PROVE  Enlisted(cmd, Steps("setup", "openclaw") \o <<"done">>)
<1>1. Steps("setup", "openclaw") = <<"load", "provision", "import">> \o <<"bootstrap",
      "write_config", "repair_auth", "verify_import", "alias">> \o <<"save_runner", "validate">>
      \o SyncSteps
  BY DEF Steps, SetupSteps
<1>2. /\ Place("setup", "load") = 2
      /\ Place("setup", "provision") = 3
      /\ Place("setup", "import") = 4
      /\ Place("setup", "bootstrap") = 6
      /\ Place("setup", "write_config") = 7
      /\ Place("setup", "repair_auth") = 9
      /\ Place("setup", "verify_import") = 12
      /\ Place("setup", "alias") = 13
      /\ Place("setup", "save_runner") = 14
      /\ Place("setup", "validate") = 15
      /\ Place("setup", "done") = 40
  BY Places
<1>3. {"load", "provision", "import", "bootstrap", "write_config", "repair_auth",
      "verify_import", "alias", "save_runner", "validate", "done"} \subseteq Names
  BY DEF Names, LayoutSteps, DropSteps, HomeWork
<1>4. Segment("setup", <<"load", "provision", "import">>, {"load", "provision", "import"}, 2, 4)
  BY <1>2, <1>3, ThreeSteps
<1>5. Segment("setup", <<"bootstrap", "write_config", "repair_auth", "verify_import", "alias">>,
              {"bootstrap", "write_config", "repair_auth", "verify_import", "alias"}, 6, 13)
  BY <1>2, <1>3, FiveSteps
<1>6. Segment("setup", <<"load", "provision", "import">> \o <<"bootstrap", "write_config",
              "repair_auth", "verify_import", "alias">>, {"load", "provision", "import"}
              \cup {"bootstrap", "write_config", "repair_auth", "verify_import", "alias"}, 2,
              13)
  BY <1>4, <1>5, Joined
<1>7. Segment("setup", <<"save_runner", "validate">>, {"save_runner", "validate"}, 14, 15)
  BY <1>2, <1>3, TwoSteps
<1>8. Segment("setup", <<"load", "provision", "import">> \o <<"bootstrap", "write_config",
              "repair_auth", "verify_import", "alias">> \o <<"save_runner", "validate">>,
              {"load", "provision", "import"} \cup {"bootstrap", "write_config", "repair_auth",
              "verify_import", "alias"} \cup {"save_runner", "validate"}, 2, 15)
  BY <1>6, <1>7, Joined
<1>9. Segment("setup", <<"load", "provision", "import">> \o <<"bootstrap", "write_config",
              "repair_auth", "verify_import", "alias">> \o <<"save_runner", "validate">>
              \o SyncSteps, {"load", "provision", "import"} \cup {"bootstrap", "write_config",
              "repair_auth", "verify_import", "alias"} \cup {"save_runner", "validate"}
              \cup Syncs, 2, 27)
  BY <1>8, SyncSegment, Joined
<1>10. Segment("setup", <<"done">>, {"done"}, 40, 40)
  BY <1>2, <1>3, OneStep
<1>11. Segment("setup", <<"load", "provision", "import">> \o <<"bootstrap", "write_config",
               "repair_auth", "verify_import", "alias">> \o <<"save_runner", "validate">>
               \o SyncSteps \o <<"done">>, {"load", "provision", "import"} \cup {"bootstrap",
               "write_config", "repair_auth", "verify_import", "alias"} \cup {"save_runner",
               "validate"} \cup Syncs \cup {"done"}, 2, 40)
  BY <1>9, <1>10, Joined
<1> DEFINE S == {"load", "provision", "import"} \cup {"bootstrap", "write_config",
                "repair_auth", "verify_import", "alias"} \cup {"save_runner", "validate"}
                \cup Syncs \cup {"done"}
<1> DEFINE s == Steps("setup", "openclaw") \o <<"done">>
<1>12. InOrder("setup", s) /\ Left(s) = S
  BY <1>1, <1>11 DEF Segment
<1> HIDE DEF s
<1>13. cmd[1] = "setup" /\ cmd[2] = "openclaw"
  OBVIOUS
<1>14. S \subseteq Own("setup") /\ "done" \in S
  BY DEF Own, LayoutSteps, DropSteps, HomeWork
<1>15. Syncing(cmd) /\ Syncs \subseteq S
  BY <1>13 DEF Syncing
<1>16. Due(cmd) \subseteq S
  BY <1>13, <1>15 DEF Due, Syncs
<1>17. S \cap Quick = {}
  BY DEF Quick, Syncs
<1>18. \A x \in S : S \cap Begets(x) = {}
  BY Begetting DEF Syncs
<1>19. "load" \in S
  OBVIOUS
<1> HIDE DEF S
<1> QED
  BY <1>12, <1>13, <1>14, <1>15, <1>16, <1>17, <1>18, <1>19 DEF Enlisted, s

LEMMA StepsSetupClaudecode ==
  ASSUME NEW cmd, cmd = <<"setup", "claudecode">>
  PROVE  Enlisted(cmd, Steps("setup", "claudecode") \o <<"done">>)
<1>1. Steps("setup", "claudecode") = <<"load", "provision", "import">> \o <<"guard">>
      \o <<"save_runner", "validate">> \o SyncSteps
  BY DEF Steps, SetupSteps
<1>2. /\ Place("setup", "load") = 2
      /\ Place("setup", "provision") = 3
      /\ Place("setup", "import") = 4
      /\ Place("setup", "guard") = 8
      /\ Place("setup", "save_runner") = 14
      /\ Place("setup", "validate") = 15
      /\ Place("setup", "done") = 40
  BY Places
<1>3. {"load", "provision", "import", "guard", "save_runner", "validate", "done"} \subseteq Names
  BY DEF Names, LayoutSteps, DropSteps, HomeWork
<1>4. Segment("setup", <<"load", "provision", "import">>, {"load", "provision", "import"}, 2, 4)
  BY <1>2, <1>3, ThreeSteps
<1>5. Segment("setup", <<"guard">>, {"guard"}, 8, 8)
  BY <1>2, <1>3, OneStep
<1>6. Segment("setup", <<"load", "provision", "import">> \o <<"guard">>, {"load", "provision",
              "import"} \cup {"guard"}, 2, 8)
  BY <1>4, <1>5, Joined
<1>7. Segment("setup", <<"save_runner", "validate">>, {"save_runner", "validate"}, 14, 15)
  BY <1>2, <1>3, TwoSteps
<1>8. Segment("setup", <<"load", "provision", "import">> \o <<"guard">> \o <<"save_runner",
              "validate">>, {"load", "provision", "import"} \cup {"guard"} \cup {"save_runner",
              "validate"}, 2, 15)
  BY <1>6, <1>7, Joined
<1>9. Segment("setup", <<"load", "provision", "import">> \o <<"guard">> \o <<"save_runner",
              "validate">> \o SyncSteps, {"load", "provision", "import"} \cup {"guard"}
              \cup {"save_runner", "validate"} \cup Syncs, 2, 27)
  BY <1>8, SyncSegment, Joined
<1>10. Segment("setup", <<"done">>, {"done"}, 40, 40)
  BY <1>2, <1>3, OneStep
<1>11. Segment("setup", <<"load", "provision", "import">> \o <<"guard">> \o <<"save_runner",
               "validate">> \o SyncSteps \o <<"done">>, {"load", "provision", "import"}
               \cup {"guard"} \cup {"save_runner", "validate"} \cup Syncs \cup {"done"}, 2, 40)
  BY <1>9, <1>10, Joined
<1> DEFINE S == {"load", "provision", "import"} \cup {"guard"} \cup {"save_runner", "validate"}
                \cup Syncs \cup {"done"}
<1> DEFINE s == Steps("setup", "claudecode") \o <<"done">>
<1>12. InOrder("setup", s) /\ Left(s) = S
  BY <1>1, <1>11 DEF Segment
<1> HIDE DEF s
<1>13. cmd[1] = "setup" /\ cmd[2] = "claudecode"
  OBVIOUS
<1>14. S \subseteq Own("setup") /\ "done" \in S
  BY DEF Own, LayoutSteps, DropSteps, HomeWork
<1>15. Syncing(cmd) /\ Syncs \subseteq S
  BY <1>13 DEF Syncing
<1>16. Due(cmd) \subseteq S
  BY <1>13, <1>15 DEF Due, Syncs
<1>17. S \cap Quick = {}
  BY DEF Quick, Syncs
<1>18. \A x \in S : S \cap Begets(x) = {}
  BY Begetting DEF Syncs
<1>19. "load" \in S
  OBVIOUS
<1> HIDE DEF S
<1> QED
  BY <1>12, <1>13, <1>14, <1>15, <1>16, <1>17, <1>18, <1>19 DEF Enlisted, s

LEMMA StepsSetupOpencode ==
  ASSUME NEW cmd, cmd = <<"setup", "opencode">>
  PROVE  Enlisted(cmd, Steps("setup", "opencode") \o <<"done">>)
<1>1. Steps("setup", "opencode") = <<"load", "provision", "import">> \o <<"write_config">>
      \o <<"save_runner", "validate">> \o SyncSteps
  BY DEF Steps, SetupSteps
<1>2. /\ Place("setup", "load") = 2
      /\ Place("setup", "provision") = 3
      /\ Place("setup", "import") = 4
      /\ Place("setup", "write_config") = 7
      /\ Place("setup", "save_runner") = 14
      /\ Place("setup", "validate") = 15
      /\ Place("setup", "done") = 40
  BY Places
<1>3. {"load", "provision", "import", "write_config", "save_runner", "validate", "done"}
      \subseteq Names
  BY DEF Names, LayoutSteps, DropSteps, HomeWork
<1>4. Segment("setup", <<"load", "provision", "import">>, {"load", "provision", "import"}, 2, 4)
  BY <1>2, <1>3, ThreeSteps
<1>5. Segment("setup", <<"write_config">>, {"write_config"}, 7, 7)
  BY <1>2, <1>3, OneStep
<1>6. Segment("setup", <<"load", "provision", "import">> \o <<"write_config">>, {"load",
              "provision", "import"} \cup {"write_config"}, 2, 7)
  BY <1>4, <1>5, Joined
<1>7. Segment("setup", <<"save_runner", "validate">>, {"save_runner", "validate"}, 14, 15)
  BY <1>2, <1>3, TwoSteps
<1>8. Segment("setup", <<"load", "provision", "import">> \o <<"write_config">>
              \o <<"save_runner", "validate">>, {"load", "provision", "import"}
              \cup {"write_config"} \cup {"save_runner", "validate"}, 2, 15)
  BY <1>6, <1>7, Joined
<1>9. Segment("setup", <<"load", "provision", "import">> \o <<"write_config">>
              \o <<"save_runner", "validate">> \o SyncSteps, {"load", "provision", "import"}
              \cup {"write_config"} \cup {"save_runner", "validate"} \cup Syncs, 2, 27)
  BY <1>8, SyncSegment, Joined
<1>10. Segment("setup", <<"done">>, {"done"}, 40, 40)
  BY <1>2, <1>3, OneStep
<1>11. Segment("setup", <<"load", "provision", "import">> \o <<"write_config">>
               \o <<"save_runner", "validate">> \o SyncSteps \o <<"done">>, {"load",
               "provision", "import"} \cup {"write_config"} \cup {"save_runner", "validate"}
               \cup Syncs \cup {"done"}, 2, 40)
  BY <1>9, <1>10, Joined
<1> DEFINE S == {"load", "provision", "import"} \cup {"write_config"} \cup {"save_runner",
                "validate"} \cup Syncs \cup {"done"}
<1> DEFINE s == Steps("setup", "opencode") \o <<"done">>
<1>12. InOrder("setup", s) /\ Left(s) = S
  BY <1>1, <1>11 DEF Segment
<1> HIDE DEF s
<1>13. cmd[1] = "setup" /\ cmd[2] = "opencode"
  OBVIOUS
<1>14. S \subseteq Own("setup") /\ "done" \in S
  BY DEF Own, LayoutSteps, DropSteps, HomeWork
<1>15. Syncing(cmd) /\ Syncs \subseteq S
  BY <1>13 DEF Syncing
<1>16. Due(cmd) \subseteq S
  BY <1>13, <1>15 DEF Due, Syncs
<1>17. S \cap Quick = {}
  BY DEF Quick, Syncs
<1>18. \A x \in S : S \cap Begets(x) = {}
  BY Begetting DEF Syncs
<1>19. "load" \in S
  OBVIOUS
<1> HIDE DEF S
<1> QED
  BY <1>12, <1>13, <1>14, <1>15, <1>16, <1>17, <1>18, <1>19 DEF Enlisted, s

LEMMA StepsRemove ==
  ASSUME NEW k, NEW cmd, cmd = <<"remove", k>>
  PROVE  Enlisted(cmd, Steps("remove", k) \o <<"done">>)
<1>1. Steps("remove", k) = <<"load", "match", "drop_home", "drop_workspace", "unlink">>
  BY DEF Steps
<1>2. /\ Place("remove", "load") = 2
      /\ Place("remove", "match") = 3
      /\ Place("remove", "drop_home") = 6
      /\ Place("remove", "drop_workspace") = 7
      /\ Place("remove", "unlink") = 8
      /\ Place("remove", "done") = 40
  BY Places
<1>3. {"load", "match", "drop_home", "drop_workspace", "unlink", "done"} \subseteq Names
  BY DEF Names, LayoutSteps, DropSteps, HomeWork
<1>4. Segment("remove", <<"load", "match", "drop_home", "drop_workspace", "unlink">>, {"load",
              "match", "drop_home", "drop_workspace", "unlink"}, 2, 8)
  BY <1>2, <1>3, FiveSteps
<1>5. Segment("remove", <<"done">>, {"done"}, 40, 40)
  BY <1>2, <1>3, OneStep
<1>6. Segment("remove", <<"load", "match", "drop_home", "drop_workspace", "unlink">>
              \o <<"done">>, {"load", "match", "drop_home", "drop_workspace", "unlink"}
              \cup {"done"}, 2, 40)
  BY <1>4, <1>5, Joined
<1> DEFINE S == {"load", "match", "drop_home", "drop_workspace", "unlink"} \cup {"done"}
<1> DEFINE s == Steps("remove", k) \o <<"done">>
<1>7. InOrder("remove", s) /\ Left(s) = S
  BY <1>1, <1>6 DEF Segment
<1> HIDE DEF s
<1>8. cmd[1] = "remove" /\ cmd[2] = k
  OBVIOUS
<1>9. S \subseteq Own("remove") /\ "done" \in S
  BY DEF Own, LayoutSteps, DropSteps, HomeWork
<1>10. ~Syncing(cmd) /\ S \cap Syncs = {}
  BY <1>8 DEF Syncing, Syncs
<1>11. Due(cmd) \subseteq S
  BY <1>8, <1>10 DEF Due, Syncs
<1>12. S \cap Quick = {}
  BY DEF Quick, Syncs
<1>13. \A x \in S : S \cap Begets(x) = {}
  BY Begetting DEF Syncs
<1>14. "load" \in S
  OBVIOUS
<1> HIDE DEF S
<1> QED
  BY <1>7, <1>8, <1>9, <1>10, <1>11, <1>12, <1>13, <1>14 DEF Enlisted, s

LEMMA StepsStatus ==
  ASSUME NEW k, NEW cmd, cmd = <<"status", k>>
  PROVE  Enlisted(cmd, Steps("status", k) \o <<"done">>)
<1>1. Steps("status", k) = <<"load", "reconcile">>
  BY DEF Steps, Checked
<1>2. /\ Place("status", "load") = 2
      /\ Place("status", "reconcile") = 4
      /\ Place("status", "done") = 40
  BY Places
<1>3. {"load", "reconcile", "done"} \subseteq Names
  BY DEF Names, LayoutSteps, DropSteps, HomeWork
<1>4. Segment("status", <<"load", "reconcile">>, {"load", "reconcile"}, 2, 4)
  BY <1>2, <1>3, TwoSteps
<1>5. Segment("status", <<"done">>, {"done"}, 40, 40)
  BY <1>2, <1>3, OneStep
<1>6. Segment("status", <<"load", "reconcile">> \o <<"done">>, {"load", "reconcile"}
              \cup {"done"}, 2, 40)
  BY <1>4, <1>5, Joined
<1> DEFINE S == {"load", "reconcile"} \cup {"done"}
<1> DEFINE s == Steps("status", k) \o <<"done">>
<1>7. InOrder("status", s) /\ Left(s) = S
  BY <1>1, <1>6 DEF Segment
<1> HIDE DEF s
<1>8. cmd[1] = "status" /\ cmd[2] = k
  OBVIOUS
<1>9. S \subseteq Own("status") /\ "done" \in S
  BY DEF Own, LayoutSteps, DropSteps, HomeWork
<1>10. ~Syncing(cmd) /\ S \cap Syncs = {}
  BY <1>8 DEF Syncing, Syncs
<1>11. Due(cmd) \subseteq S
  BY <1>8, <1>10 DEF Due, Syncs
<1>12. S \cap Quick = {}
  BY DEF Quick, Syncs
<1>13. \A x \in S : S \cap Begets(x) = {}
  BY Begetting DEF Syncs
<1>14. "load" \in S
  OBVIOUS
<1> HIDE DEF S
<1> QED
  BY <1>7, <1>8, <1>9, <1>10, <1>11, <1>12, <1>13, <1>14 DEF Enlisted, s

LEMMA StepsRunOpenclaw ==
  ASSUME NEW cmd, cmd = <<"run", "openclaw">>
  PROVE  Enlisted(cmd, Steps("run", "openclaw") \o <<"done">>)
<1>1. Steps("run", "openclaw") = <<"load", "target", "reconcile", "available", "autobind">>
      \o (SyncSteps \o <<"alias", "guard", "repair_auth">>) \o <<"launch">>
  BY DEF Steps, RunSteps
<1>2. /\ Place("run", "load") = 2
      /\ Place("run", "target") = 3
      /\ Place("run", "reconcile") = 4
      /\ Place("run", "available") = 9
      /\ Place("run", "autobind") = 10
      /\ Place("run", "alias") = 30
      /\ Place("run", "guard") = 31
      /\ Place("run", "repair_auth") = 32
      /\ Place("run", "launch") = 35
      /\ Place("run", "done") = 40
  BY Places
<1>3. {"load", "target", "reconcile", "available", "autobind", "alias", "guard", "repair_auth",
      "launch", "done"} \subseteq Names
  BY DEF Names, LayoutSteps, DropSteps, HomeWork
<1>4. Segment("run", <<"load", "target", "reconcile", "available", "autobind">>, {"load",
              "target", "reconcile", "available", "autobind"}, 2, 10)
  BY <1>2, <1>3, FiveSteps
<1>5. Segment("run", <<"alias", "guard", "repair_auth">>, {"alias", "guard", "repair_auth"}, 30, 32)
  BY <1>2, <1>3, ThreeSteps
<1>6. Segment("run", SyncSteps \o <<"alias", "guard", "repair_auth">>, Syncs \cup {"alias",
              "guard", "repair_auth"}, 20, 32)
  BY <1>5, SyncSegment, Joined
<1>7. Segment("run", <<"load", "target", "reconcile", "available", "autobind">> \o (SyncSteps
              \o <<"alias", "guard", "repair_auth">>), {"load", "target", "reconcile",
              "available", "autobind"} \cup (Syncs \cup {"alias", "guard", "repair_auth"}), 2,
              32)
  BY <1>4, <1>6, Joined
<1>8. Segment("run", <<"launch">>, {"launch"}, 35, 35)
  BY <1>2, <1>3, OneStep
<1>9. Segment("run", <<"load", "target", "reconcile", "available", "autobind">> \o (SyncSteps
              \o <<"alias", "guard", "repair_auth">>) \o <<"launch">>, {"load", "target",
              "reconcile", "available", "autobind"} \cup (Syncs \cup {"alias", "guard",
              "repair_auth"}) \cup {"launch"}, 2, 35)
  BY <1>7, <1>8, Joined
<1>10. Segment("run", <<"done">>, {"done"}, 40, 40)
  BY <1>2, <1>3, OneStep
<1>11. Segment("run", <<"load", "target", "reconcile", "available", "autobind">> \o (SyncSteps
               \o <<"alias", "guard", "repair_auth">>) \o <<"launch">> \o <<"done">>, {"load",
               "target", "reconcile", "available", "autobind"} \cup (Syncs \cup {"alias",
               "guard", "repair_auth"}) \cup {"launch"} \cup {"done"}, 2, 40)
  BY <1>9, <1>10, Joined
<1> DEFINE S == {"load", "target", "reconcile", "available", "autobind"} \cup (Syncs
                \cup {"alias", "guard", "repair_auth"}) \cup {"launch"} \cup {"done"}
<1> DEFINE s == Steps("run", "openclaw") \o <<"done">>
<1>12. InOrder("run", s) /\ Left(s) = S
  BY <1>1, <1>11 DEF Segment
<1> HIDE DEF s
<1>13. cmd[1] = "run" /\ cmd[2] = "openclaw"
  OBVIOUS
<1>14. S \subseteq Own("run") /\ "done" \in S
  BY DEF Own, LayoutSteps, DropSteps, HomeWork
<1>15. Syncing(cmd) /\ Syncs \subseteq S
  BY <1>13 DEF Syncing
<1>16. Due(cmd) \subseteq S
  BY <1>13, <1>15 DEF Due, Syncs
<1>17. S \cap Quick = {}
  BY DEF Quick, Syncs
<1>18. \A x \in S : S \cap Begets(x) = {}
  BY Begetting DEF Syncs
<1>19. "load" \in S
  OBVIOUS
<1> HIDE DEF S
<1> QED
  BY <1>12, <1>13, <1>14, <1>15, <1>16, <1>17, <1>18, <1>19 DEF Enlisted, s

LEMMA StepsRunClaudecode ==
  ASSUME NEW cmd, cmd = <<"run", "claudecode">>
  PROVE  Enlisted(cmd, Steps("run", "claudecode") \o <<"done">>)
<1>1. Steps("run", "claudecode") = <<"load", "target", "reconcile", "available", "autobind">>
      \o <<"seed", "guard", "check_auth">> \o <<"launch">>
  BY DEF Steps, RunSteps
<1>2. /\ Place("run", "load") = 2
      /\ Place("run", "target") = 3
      /\ Place("run", "reconcile") = 4
      /\ Place("run", "available") = 9
      /\ Place("run", "autobind") = 10
      /\ Place("run", "seed") = 30
      /\ Place("run", "guard") = 31
      /\ Place("run", "check_auth") = 32
      /\ Place("run", "launch") = 35
      /\ Place("run", "done") = 40
  BY Places
<1>3. {"load", "target", "reconcile", "available", "autobind", "seed", "guard", "check_auth",
      "launch", "done"} \subseteq Names
  BY DEF Names, LayoutSteps, DropSteps, HomeWork
<1>4. Segment("run", <<"load", "target", "reconcile", "available", "autobind">>, {"load",
              "target", "reconcile", "available", "autobind"}, 2, 10)
  BY <1>2, <1>3, FiveSteps
<1>5. Segment("run", <<"seed", "guard", "check_auth">>, {"seed", "guard", "check_auth"}, 30, 32)
  BY <1>2, <1>3, ThreeSteps
<1>6. Segment("run", <<"load", "target", "reconcile", "available", "autobind">> \o <<"seed",
              "guard", "check_auth">>, {"load", "target", "reconcile", "available", "autobind"}
              \cup {"seed", "guard", "check_auth"}, 2, 32)
  BY <1>4, <1>5, Joined
<1>7. Segment("run", <<"launch">>, {"launch"}, 35, 35)
  BY <1>2, <1>3, OneStep
<1>8. Segment("run", <<"load", "target", "reconcile", "available", "autobind">> \o <<"seed",
              "guard", "check_auth">> \o <<"launch">>, {"load", "target", "reconcile",
              "available", "autobind"} \cup {"seed", "guard", "check_auth"} \cup {"launch"}, 2,
              35)
  BY <1>6, <1>7, Joined
<1>9. Segment("run", <<"done">>, {"done"}, 40, 40)
  BY <1>2, <1>3, OneStep
<1>10. Segment("run", <<"load", "target", "reconcile", "available", "autobind">> \o <<"seed",
               "guard", "check_auth">> \o <<"launch">> \o <<"done">>, {"load", "target",
               "reconcile", "available", "autobind"} \cup {"seed", "guard", "check_auth"}
               \cup {"launch"} \cup {"done"}, 2, 40)
  BY <1>8, <1>9, Joined
<1> DEFINE S == {"load", "target", "reconcile", "available", "autobind"} \cup {"seed", "guard",
                "check_auth"} \cup {"launch"} \cup {"done"}
<1> DEFINE s == Steps("run", "claudecode") \o <<"done">>
<1>11. InOrder("run", s) /\ Left(s) = S
  BY <1>1, <1>10 DEF Segment
<1> HIDE DEF s
<1>12. cmd[1] = "run" /\ cmd[2] = "claudecode"
  OBVIOUS
<1>13. S \subseteq Own("run") /\ "done" \in S
  BY DEF Own, LayoutSteps, DropSteps, HomeWork
<1>14. ~Syncing(cmd) /\ S \cap Syncs = {}
  BY <1>12 DEF Syncing, Syncs
<1>15. Due(cmd) \subseteq S
  BY <1>12, <1>14 DEF Due, Syncs
<1>16. S \cap Quick = {}
  BY DEF Quick, Syncs
<1>17. \A x \in S : S \cap Begets(x) = {}
  BY Begetting DEF Syncs
<1>18. "load" \in S
  OBVIOUS
<1> HIDE DEF S
<1> QED
  BY <1>11, <1>12, <1>13, <1>14, <1>15, <1>16, <1>17, <1>18 DEF Enlisted, s

LEMMA StepsRunOpencode ==
  ASSUME NEW cmd, cmd = <<"run", "opencode">>
  PROVE  Enlisted(cmd, Steps("run", "opencode") \o <<"done">>)
<1>1. Steps("run", "opencode") = <<"load", "target", "reconcile", "available", "autobind">>
      \o <<"seed", "guard">> \o <<"launch">>
  BY DEF Steps, RunSteps
<1>2. /\ Place("run", "load") = 2
      /\ Place("run", "target") = 3
      /\ Place("run", "reconcile") = 4
      /\ Place("run", "available") = 9
      /\ Place("run", "autobind") = 10
      /\ Place("run", "seed") = 30
      /\ Place("run", "guard") = 31
      /\ Place("run", "launch") = 35
      /\ Place("run", "done") = 40
  BY Places
<1>3. {"load", "target", "reconcile", "available", "autobind", "seed", "guard", "launch",
      "done"} \subseteq Names
  BY DEF Names, LayoutSteps, DropSteps, HomeWork
<1>4. Segment("run", <<"load", "target", "reconcile", "available", "autobind">>, {"load",
              "target", "reconcile", "available", "autobind"}, 2, 10)
  BY <1>2, <1>3, FiveSteps
<1>5. Segment("run", <<"seed", "guard">>, {"seed", "guard"}, 30, 31)
  BY <1>2, <1>3, TwoSteps
<1>6. Segment("run", <<"load", "target", "reconcile", "available", "autobind">> \o <<"seed",
              "guard">>, {"load", "target", "reconcile", "available", "autobind"} \cup {"seed",
              "guard"}, 2, 31)
  BY <1>4, <1>5, Joined
<1>7. Segment("run", <<"launch">>, {"launch"}, 35, 35)
  BY <1>2, <1>3, OneStep
<1>8. Segment("run", <<"load", "target", "reconcile", "available", "autobind">> \o <<"seed",
              "guard">> \o <<"launch">>, {"load", "target", "reconcile", "available",
              "autobind"} \cup {"seed", "guard"} \cup {"launch"}, 2, 35)
  BY <1>6, <1>7, Joined
<1>9. Segment("run", <<"done">>, {"done"}, 40, 40)
  BY <1>2, <1>3, OneStep
<1>10. Segment("run", <<"load", "target", "reconcile", "available", "autobind">> \o <<"seed",
               "guard">> \o <<"launch">> \o <<"done">>, {"load", "target", "reconcile",
               "available", "autobind"} \cup {"seed", "guard"} \cup {"launch"} \cup {"done"}, 2,
               40)
  BY <1>8, <1>9, Joined
<1> DEFINE S == {"load", "target", "reconcile", "available", "autobind"} \cup {"seed", "guard"}
                \cup {"launch"} \cup {"done"}
<1> DEFINE s == Steps("run", "opencode") \o <<"done">>
<1>11. InOrder("run", s) /\ Left(s) = S
  BY <1>1, <1>10 DEF Segment
<1> HIDE DEF s
<1>12. cmd[1] = "run" /\ cmd[2] = "opencode"
  OBVIOUS
<1>13. S \subseteq Own("run") /\ "done" \in S
  BY DEF Own, LayoutSteps, DropSteps, HomeWork
<1>14. ~Syncing(cmd) /\ S \cap Syncs = {}
  BY <1>12 DEF Syncing, Syncs
<1>15. Due(cmd) \subseteq S
  BY <1>12, <1>14 DEF Due, Syncs
<1>16. S \cap Quick = {}
  BY DEF Quick, Syncs
<1>17. \A x \in S : S \cap Begets(x) = {}
  BY Begetting DEF Syncs
<1>18. "load" \in S
  OBVIOUS
<1> HIDE DEF S
<1> QED
  BY <1>11, <1>12, <1>13, <1>14, <1>15, <1>16, <1>17, <1>18 DEF Enlisted, s

LEMMA StepsUpdate ==
  ASSUME NEW k, NEW cmd, cmd = <<"update", k>>
  PROVE  Enlisted(cmd, Steps("update", k) \o <<"done">>)
<1>1. Steps("update", k) = <<"load", "patch", "channel">> \o SyncSteps
  BY DEF Steps
<1>2. /\ Place("update", "load") = 2
      /\ Place("update", "patch") = 3
      /\ Place("update", "channel") = 4
      /\ Place("update", "done") = 40
  BY Places
<1>3. {"load", "patch", "channel", "done"} \subseteq Names
  BY DEF Names, LayoutSteps, DropSteps, HomeWork
<1>4. Segment("update", <<"load", "patch", "channel">>, {"load", "patch", "channel"}, 2, 4)
  BY <1>2, <1>3, ThreeSteps
<1>5. Segment("update", <<"load", "patch", "channel">> \o SyncSteps, {"load", "patch",
              "channel"} \cup Syncs, 2, 27)
  BY <1>4, SyncSegment, Joined
<1>6. Segment("update", <<"done">>, {"done"}, 40, 40)
  BY <1>2, <1>3, OneStep
<1>7. Segment("update", <<"load", "patch", "channel">> \o SyncSteps \o <<"done">>, {"load",
              "patch", "channel"} \cup Syncs \cup {"done"}, 2, 40)
  BY <1>5, <1>6, Joined
<1> DEFINE S == {"load", "patch", "channel"} \cup Syncs \cup {"done"}
<1> DEFINE s == Steps("update", k) \o <<"done">>
<1>8. InOrder("update", s) /\ Left(s) = S
  BY <1>1, <1>7 DEF Segment
<1> HIDE DEF s
<1>9. cmd[1] = "update" /\ cmd[2] = k
  OBVIOUS
<1>10. S \subseteq Own("update") /\ "done" \in S
  BY DEF Own, LayoutSteps, DropSteps, HomeWork
<1>11. Syncing(cmd) /\ Syncs \subseteq S
  BY <1>9 DEF Syncing
<1>12. Due(cmd) \subseteq S
  BY <1>9, <1>11 DEF Due, Syncs
<1>13. S \cap Quick = {}
  BY DEF Quick, Syncs
<1>14. \A x \in S : S \cap Begets(x) = {}
  BY Begetting DEF Syncs
<1>15. "load" \in S
  OBVIOUS
<1> HIDE DEF S
<1> QED
  BY <1>8, <1>9, <1>10, <1>11, <1>12, <1>13, <1>14, <1>15 DEF Enlisted, s

LEMMA StepsPolicy ==
  ASSUME NEW k, NEW cmd, cmd = <<"policy", k>>
  PROVE  Enlisted(cmd, Steps("policy", k) \o <<"done">>)
<1>1. Steps("policy", k) = <<"load", "edit_policy">>
  BY DEF Steps
<1>2. /\ Place("policy", "load") = 2
      /\ Place("policy", "edit_policy") = 3
      /\ Place("policy", "done") = 40
  BY Places
<1>3. {"load", "edit_policy", "done"} \subseteq Names
  BY DEF Names, LayoutSteps, DropSteps, HomeWork
<1>4. Segment("policy", <<"load", "edit_policy">>, {"load", "edit_policy"}, 2, 3)
  BY <1>2, <1>3, TwoSteps
<1>5. Segment("policy", <<"done">>, {"done"}, 40, 40)
  BY <1>2, <1>3, OneStep
<1>6. Segment("policy", <<"load", "edit_policy">> \o <<"done">>, {"load", "edit_policy"}
              \cup {"done"}, 2, 40)
  BY <1>4, <1>5, Joined
<1> DEFINE S == {"load", "edit_policy"} \cup {"done"}
<1> DEFINE s == Steps("policy", k) \o <<"done">>
<1>7. InOrder("policy", s) /\ Left(s) = S
  BY <1>1, <1>6 DEF Segment
<1> HIDE DEF s
<1>8. cmd[1] = "policy" /\ cmd[2] = k
  OBVIOUS
<1>9. S \subseteq Own("policy") /\ "done" \in S
  BY DEF Own, LayoutSteps, DropSteps, HomeWork
<1>10. ~Syncing(cmd) /\ S \cap Syncs = {}
  BY <1>8 DEF Syncing, Syncs
<1>11. Due(cmd) \subseteq S
  BY <1>8, <1>10 DEF Due, Syncs
<1>12. S \cap Quick = {}
  BY DEF Quick, Syncs
<1>13. \A x \in S : S \cap Begets(x) = {}
  BY Begetting DEF Syncs
<1>14. "load" \in S
  OBVIOUS
<1> HIDE DEF S
<1> QED
  BY <1>7, <1>8, <1>9, <1>10, <1>11, <1>12, <1>13, <1>14 DEF Enlisted, s

LEMMA FirstSteps == ASSUME NEW cmd \in Lines PROVE Enlisted(cmd, Steps(cmd[1], cmd[2]) \o <<"done">>)
<1> DEFINE op == cmd[1]
<1> DEFINE k == cmd[2]
<1>1. /\ cmd = <<op, k>>
      /\ op \in {"init", "force", "keep", "purge", "purge_at", "setup", "remove", "status", "run", "update",
                 "policy"}
      /\ op \in {"setup", "run", "remove"} => k \in Runners
  BY LineKinds
<1> HIDE DEF op, k
<1>2. op = "init" => Enlisted(cmd, Steps(op, k) \o <<"done">>)
  BY <1>1, StepsInit
<1>3. op = "force" => Enlisted(cmd, Steps(op, k) \o <<"done">>)
  BY <1>1, StepsForce
<1>4. op = "keep" => Enlisted(cmd, Steps(op, k) \o <<"done">>)
  BY <1>1, StepsKeep
<1>5. op = "purge" => Enlisted(cmd, Steps(op, k) \o <<"done">>)
  BY <1>1, StepsPurge
<1>6. op = "setup" => Enlisted(cmd, Steps(op, k) \o <<"done">>)
  BY <1>1, StepsSetupOpenclaw, StepsSetupClaudecode, StepsSetupOpencode DEF Runners
<1>7. op = "remove" => Enlisted(cmd, Steps(op, k) \o <<"done">>)
  BY <1>1, StepsRemove
<1>8. op = "status" => Enlisted(cmd, Steps(op, k) \o <<"done">>)
  BY <1>1, StepsStatus
<1>9. op = "run" => Enlisted(cmd, Steps(op, k) \o <<"done">>)
  BY <1>1, StepsRunOpenclaw, StepsRunClaudecode, StepsRunOpencode DEF Runners
<1>10. op = "update" => Enlisted(cmd, Steps(op, k) \o <<"done">>)
  BY <1>1, StepsUpdate
<1>11. op = "policy" => Enlisted(cmd, Steps(op, k) \o <<"done">>)
  BY <1>1, StepsPolicy
<1>12. op = "purge_at" => Enlisted(cmd, Steps(op, k) \o <<"done">>)
  BY <1>1, StepsPurgeAt
<1> QED
  BY <1>1, <1>2, <1>3, <1>4, <1>5, <1>6, <1>7, <1>8, <1>9, <1>10, <1>11, <1>12 DEF op, k

LEMMA FirstCourse ==
  ASSUME NEW cmd \in Lines, NEW s, Enlisted(cmd, s)
  PROVE  CourseOK(cmd, s) /\ s # <<>>
<1>1. /\ InOrder(cmd[1], s) /\ Left(s) \subseteq Own(cmd[1]) /\ "done" \in Left(s)
      /\ Due(cmd) \subseteq Left(s)
      /\ IF Syncing(cmd) THEN Syncs \subseteq Left(s) ELSE Left(s) \cap Syncs = {}
      /\ \A x \in Left(s) : Left(s) \cap Begets(x) = {}
  BY DEF Enlisted
<1>2. s # <<>>
  BY <1>1 DEF Left
<1>3. "synced" \in Syncs
  BY DEF Syncs
<1> QED
  BY <1>1, <1>2, <1>3 DEF CourseOK

\* A command that begins, alone, has the settings as they are, and nothing done.
Fresh(me, cmd, s) ==
    /\ me.cmd = cmd /\ me.todo = s /\ me.out = "busy" /\ Fields(me)
    /\ me.stage \notin {"synced", "unsynced"}
Newcomer(cmd, s) == [Idle EXCEPT !.cmd = cmd, !.out = "busy", !.todo = s]
Formed(me) == me = [f \in DOMAIN Idle |-> me[f]]
LEMMA Newcomers ==
  /\ \A cmd, s : Fresh(Newcomer(cmd, s), cmd, s) /\ Formed(Newcomer(cmd, s))
  /\ LocalOK(Idle) /\ Idle.todo = <<>> /\ Idle.out # "invalid" /\ Formed(Idle)
<1>1. DefaultConfig \in Configs /\ NoHome \in Homes
  BY DefaultTypes
<1>2. ASSUME NEW cmd, NEW s PROVE Fresh(Newcomer(cmd, s), cmd, s)
  BY <1>1 DEF Fresh, Newcomer, Idle, Fields, Policies
<1>3. Fields(Idle) /\ Idle.todo = <<>> /\ Idle.out # "invalid"
  BY <1>1 DEF Idle, Fields, Policies
<1>4. \A cmd, s : Formed(Newcomer(cmd, s))
  BY Zenon DEF Formed, Newcomer, Idle
<1>5. Formed(Idle)
  BY Zenon DEF Formed, Idle
<1>6. \A me : Fields(me) /\ me.todo = <<>> => LocalOK(me)
  BY DEF LocalOK
<1> QED
  BY <1>2, <1>3, <1>4, <1>5, <1>6

LEMMA FreshLocal ==
  ASSUME NEW cmd \in Lines, NEW s, Enlisted(cmd, s), NEW me, Fresh(me, cmd, s)
  PROVE  LocalOK(me)
<1>1. CourseOK(cmd, s)
  BY FirstCourse
<1>2. Left(s) \cap {"start", "settle"} # {} => "stop_others" \in Left(s)
  BY DEF Enlisted, Syncs
<1> QED
  BY <1>1, <1>2 DEF LocalOK, Fresh

LEMMA FreshMine ==
  ASSUME NEW cmd \in Lines, NEW s, Enlisted(cmd, s), NEW me, Fresh(me, cmd, s), NEW t, NEW o, NEW bots,
         QuietOK(t, o)
  PROVE  SettingsOK(me, t, o) /\ HomeOK(me, t) /\ BridgeOK(me, t, bots)
<1>1. /\ me.cmd = cmd /\ me.todo = s
      /\ Due(cmd) \subseteq Left(s) /\ Left(s) \cap Quick = {}
      /\ IF cmd[1] = "init" THEN "vacant" \in Left(s)
         ELSE IF cmd[1] \in {"force", "purge_at"} THEN "remove_dir" \in Left(s) ELSE "load" \in Left(s)
  BY DEF Fresh, Enlisted
<1>2. "yaml" \notin Left(s) /\ "policy" \notin Left(s) /\ "home" \notin Left(s)
  BY <1>1 DEF Quick
<1>3. SettingsOK(me, t, o)
  BY <1>1, <1>2 DEF SettingsOK
<1>4. HomeOK(me, t)
  BY <1>1, <1>2, HomeEarly
<1>5. BridgeOK(me, t, bots)
  <2>1. Syncing(cmd) => BridgeMarks \subseteq Left(s)
    BY DEF Enlisted, BridgeMarks, Syncs
  <2> QED
    BY <1>1, <2>1, BridgeEarly
<1> QED
  BY <1>3, <1>4, <1>5

LEMMA BeginKeeps == ASSUME Inv, NEW c \in Clis, NEW cmd \in scene.lines, Begin(c, cmd) PROVE Inv'
<1> DEFINE s == Steps(cmd[1], cmd[2]) \o <<"done">>
<1> DEFINE me == Newcomer(cmd, s)
<1>1. /\ cli[c].todo = <<>> /\ disturbed' = (Active # {})
      /\ owed' = (IF disturbed /\ Active = {} THEN NoDebt ELSE owed)
      /\ cli' = [d \in Clis |-> IF d = c THEN me ELSE IF Active = {} THEN Idle ELSE cli[d]]
      /\ UNCHANGED <<tree, installed, bot, scene>>
  BY DEF Begin, Newcomer
<1>2. /\ Base /\ CliTable /\ TreeOK(tree) /\ BotsOK(bot) /\ bot = [b \in Bots |-> bot[b]]
      /\ owed \in Debts /\ scene \in Scenes /\ \A d \in Clis : LocalOK(cli[d])
  BY DEF Inv, Base
<1>3. cmd \in Lines
  BY <1>2, SceneAssumption
<1>4. Enlisted(cmd, s)
  BY <1>3, FirstSteps
<1> HIDE DEF s
<1>5. Fresh(me, cmd, s) /\ Formed(me) /\ me.todo = s /\ me.out = "busy"
  BY Newcomers DEF Fresh
<1> HIDE DEF me
<1>6. /\ cli'[c] = me
      /\ \A d \in Clis \ {c} : cli'[d] = IF Active = {} THEN Idle ELSE cli[d]
  BY <1>1
<1>7. CliTable'
  <2>1. \A d \in Clis : Formed(cli[d])
    BY <1>2 DEF CliTable, Formed
  <2>2. \A d \in Clis : Formed(cli'[d])
    BY <1>5, <1>6, <2>1, Newcomers
  <2>3. cli' = [d \in Clis |-> cli'[d]]
    BY <1>1
  <2> QED
    BY <2>2, <2>3 DEF CliTable, Formed
<1>8. \A d \in Clis : LocalOK(cli'[d])
  BY <1>2, <1>3, <1>4, <1>5, <1>6, FreshLocal, Newcomers
<1>9. NoDebt \in Debts /\ NoDebt.bound = FALSE
  BY DEF NoDebt, Settings, Debts, DefaultConfig, Binds, Hosts
<1>10. Base'
  BY <1>1, <1>2, <1>7, <1>9 DEF Base
<1>11. ASSUME ~disturbed' PROVE AloneOK'
  <2>1. Active = {}
    BY <1>1, <1>11
  <2>2. QuietOK(tree', owed')
    <3>1. CASE disturbed
      BY <1>1, <1>9, <2>1, <3>1 DEF QuietOK
    <3>2. CASE ~disturbed
      BY <1>1, <2>1, <3>2 DEF Inv, AloneOK
    <3> QED
      BY <3>1, <3>2
  <2>3. \A d \in Clis \ {c} : cli'[d].todo = <<>> /\ cli'[d].out # "invalid"
    BY <1>6, <2>1, Newcomers
  <2>4. Active' \subseteq {c}
    BY <2>3 DEF Active
  <2>5. SettingsOK(cli'[c], tree', owed') /\ HomeOK(cli'[c], tree') /\ BridgeOK(cli'[c], tree', bot')
    BY <1>3, <1>4, <1>5, <1>6, <2>2, FreshMine
  <2>6. cli'[c].out # "invalid"
    BY <1>5, <1>6
  <2>7. \A d, e \in Active' : d = e
    BY <2>4
  <2>8. \A d \in Active' : d = c
    BY <2>4
  <2> QED
    BY <2>2, <2>3, <2>5, <2>6, <2>7, <2>8 DEF AloneOK
<1> QED
  BY <1>8, <1>10, <1>11 DEF Inv

\* The death of a command.
LEMMA CrashKeeps == ASSUME Inv, NEW c \in Clis, Crash(c) PROVE Inv'
<1>1. /\ Ends(c, "crashed") /\ disturbed' = TRUE /\ UNCHANGED <<tree, owed, scene>>
      /\ Kill({b \in Bots : bot[b].state = "refused" /\ cli[c].bot = b})
  BY DEF Crash, Kill
<1>2. /\ Base /\ CliTable /\ TreeOK(tree) /\ BotsOK(bot)
      /\ owed \in Debts /\ scene \in Scenes /\ \A d \in Clis : LocalOK(cli[d])
  BY DEF Inv, Base
<1>3. Only(c) /\ Ended(cli[c], "crashed", cli'[c])
  BY <1>1, <1>2, EndChanges
<1>4. LocalOK(cli'[c])
  BY <1>3, DefaultTypes, Zenon DEF Ended, LocalOK, Fields, Policies
<1>5. BotsKnown
  BY <1>1, <1>2, Killed
<1>6. \A d \in Clis : LocalOK(cli'[d])
  BY <1>2, <1>3, <1>4 DEF Only
<1>7. Base'
  BY <1>1, <1>2, <1>3, <1>5 DEF Base, Only, BotsKnown
<1> QED
  BY <1>1, <1>6, <1>7 DEF Inv

\* The runner's own writing.
Drifted(t, k) == [t EXCEPT !.home[k].tools = Unwired]
LEMMA DriftFacts ==
  ASSUME NEW t, TreeOK(t), NEW k \in Runners
  PROVE  /\ TreeOK(Drifted(t, k)) /\ Drifted(t, k).yaml = t.yaml
         /\ Drifted(t, k).policy = t.policy /\ Drifted(t, k).made = t.made
<1> DEFINE h == [t.home[k] EXCEPT !.tools = Unwired]
<1> DEFINE homes == [t.home EXCEPT ![k] = h]
<1>1. t \in Trees /\ t.home \in [Runners -> Homes] /\ t.home[k] \in Homes
  BY DEF TreeOK, Trees
<1>2. h \in Homes
  BY <1>1 DEF Homes, Unwired
<1>3. homes \in [Runners -> Homes]
  BY <1>1, <1>2
<1>4. Drifted(t, k) = [t EXCEPT !.home = homes]
  BY <1>1 DEF Drifted, Trees
<1> HIDE DEF h, homes
<1> QED
  BY <1>1, <1>3, <1>4 DEF TreeOK, Trees

LEMMA DriftKeeps == ASSUME Inv, NEW k \in Runners, Drift(k) PROVE Inv'
<1>1. /\ tree' = Drifted(tree, k) /\ disturbed' = (disturbed \/ Active # {})
      /\ UNCHANGED <<cli, installed, bot, begun, owed, scene>>
  BY DEF Drift, Drifted
<1>2. Base /\ TreeOK(tree) /\ \A d \in Clis : LocalOK(cli[d])
  BY DEF Inv, Base
<1>3. /\ TreeOK(tree') /\ tree'.yaml = tree.yaml /\ tree'.policy = tree.policy
      /\ tree'.made = tree.made
  BY <1>1, <1>2, DriftFacts
<1>4. Base'
  BY <1>1, <1>2, <1>3 DEF Base, CliTable
<1>5. \A d \in Clis : LocalOK(cli'[d])
  BY <1>1, <1>2
<1>6. Active' = Active
  BY <1>1 DEF Active
<1>7. ASSUME ~disturbed' PROVE AloneOK'
  <2>1. ~disturbed /\ Active = {} /\ AloneOK
    BY <1>1, <1>7 DEF Inv
  <2>2. QuietOK(tree', owed')
    BY <1>1, <1>3, <2>1 DEF AloneOK, QuietOK, Stored
  <2>3. \A d \in Clis : cli'[d].out # "invalid"
    BY <1>1, <2>1 DEF AloneOK
  <2> QED
    BY <1>6, <2>1, <2>2, <2>3 DEF AloneOK
<1> QED
  BY <1>4, <1>5, <1>7 DEF Inv

LEMMA ReinstallKeeps == ASSUME Inv, NEW k \in Runners, Reinstall(k) PROVE Inv'
<1>1. UNCHANGED <<tree, cli, bot, owed, disturbed, scene>>
  BY DEF Reinstall
<1> QED
  BY <1>1 DEF Inv, Base, CliTable, AloneOK, Active

\* The bridges by themselves.
LEMMA BridgeLasts ==
  ASSUME NEW me, NEW t, NEW bots, NEW bits,
         \A b \in Ours(bits) : b \in Ours(bots) /\ bits[b].of = bots[b].of /\ bits[b].token = bots[b].token,
         BridgeOK(me, t, bots)
  PROVE  BridgeOK(me, t, bits)
  BY DEF BridgeOK

LEMMA BotsKeep ==
  ASSUME Inv, BotMoves, BotsKnown, Beside(tree, tree'), tree'.made = tree.made,
         \A b \in Ours(bot') : /\ b \in Ours(bot)
                               /\ bot'[b].of = bot[b].of /\ bot'[b].token = bot[b].token
  PROVE  Inv'
<1>1. UNCHANGED <<cli, owed, disturbed, scene>>
  BY DEF BotMoves
<1>2. Base'
  BY <1>1 DEF Inv, Base, CliTable, BotsKnown, Beside
<1>3. \A d \in Clis : LocalOK(cli'[d])
  BY <1>1 DEF Inv
<1>4. ASSUME ~disturbed' PROVE AloneOK'
  <2>1. AloneOK
    BY <1>1, <1>4 DEF Inv
  <2>2. Active' = Active
    BY <1>1 DEF Active
  <2>3. \A d \in Active : BridgeOK(cli[d], tree', bot')
    <3>1. \A d \in Active : BridgeOK(cli[d], tree, bot')
      BY <2>1, BridgeLasts DEF AloneOK, Active
    <3> QED
      BY <3>1 DEF BridgeOK, Beside
  <2>4. \A d \in Active : SettingsOK(cli[d], tree', owed)
    BY <2>1, SettingsFrame DEF AloneOK, Active, Beside, Agree
  <2>5. \A d \in Active : HomeOK(cli[d], tree')
    BY <2>1, HomeFrame DEF AloneOK, Active, Beside, Agree
  <2>6. Active = {} => QuietOK(tree', owed)
    BY <2>1 DEF AloneOK, QuietOK, Stored, Beside
  <2> QED
    BY <1>1, <2>1, <2>2, <2>3, <2>4, <2>5, <2>6 DEF AloneOK, Active
<1> QED
  BY <1>2, <1>3, <1>4 DEF Inv

\* A complaint in a log.
Logged(t, r, more) == [t EXCEPT !.log[r] = @ \/ more]
LEMMA LoggedFacts ==
  ASSUME NEW t, TreeOK(t), NEW r \in Bridged, NEW more \in BOOLEAN
  PROVE  Beside(t, Logged(t, r, more)) /\ Logged(t, r, more).made = t.made
<1> DEFINE p == [t.log EXCEPT ![r] = @ \/ more]
<1>1. t \in Trees /\ t.log \in [Bridged -> BOOLEAN]
  BY DEF TreeOK, Trees
<1>2. p \in [Bridged -> BOOLEAN]
  BY <1>1
<1>3. Logged(t, r, more) = [t EXCEPT !.log = p]
  BY <1>1 DEF Logged, Trees
<1> HIDE DEF p
<1> QED
  BY <1>1, <1>2, <1>3 DEF Beside, TreeOK, Trees

LEMMA TakeTokenKeeps == ASSUME Inv, NEW b \in Bots, TakeToken(b) PROVE Inv'
<1>1. BotsOK(bot) /\ bot = [d \in Bots |-> bot[d]] /\ BotMoves /\ bot[b].of \in Bridged
  BY DEF TakeToken, Inv, Base
<1>2. bot[b].state = "starting" /\ bot[b] \in Processes
  BY <1>1 DEF TakeToken, BotsOK
<1>3. PICK p : bot' = [bot EXCEPT ![b] = p]
               /\ p \in {[bot[b] EXCEPT !.state = "polling"], [bot[b] EXCEPT !.state = "refused"], NoBot}
  BY DEF TakeToken
<1>4. NoBot \in Processes /\ NoBot.state = "gone" /\ NoBot.of # "other"
  BY DEF NoBot, Processes, NoRunner
<1>5. /\ p \in Processes /\ p.of # "other"
      /\ p.state \in {"starting", "polling"} =>
           p.of = bot[b].of /\ p.token = bot[b].token /\ p.ours = bot[b].ours
  BY <1>1, <1>2, <1>3, <1>4 DEF Processes, Bridged
<1>6. \A d \in Bots : bot'[d] = IF d = b THEN p ELSE bot[d]
  BY <1>1, <1>3
<1>7. bot' = [d \in Bots |-> bot'[d]]
  BY <1>1, <1>3
<1>8. BotsOK(bot')
  BY <1>1, <1>2, <1>5, <1>6 DEF BotsOK
<1>9. \A d \in Ours(bot') : d \in Ours(bot) /\ bot'[d].of = bot[d].of /\ bot'[d].token = bot[d].token
  BY <1>2, <1>5, <1>6 DEF Ours
<1>10. Beside(tree, tree') /\ tree'.made = tree.made
  <2>1. PICK more \in BOOLEAN : tree' = Logged(tree, bot[b].of, more)
    <3> DEFINE taken == \E d \in Bots : bot[d].state = "polling" /\ bot[d].token = bot[b].token
    <3>1. bot[b].ours \in BOOLEAN /\ taken \in BOOLEAN
      BY <1>2 DEF Processes
    <3>2. tree' = Logged(tree, bot[b].of, taken /\ bot[b].ours)
      BY DEF TakeToken, Logged
    <3> HIDE DEF taken
    <3> QED
      BY <3>1, <3>2, Zenon
  <2> QED
    BY <1>1, <2>1, LoggedFacts DEF Inv, Base
<1> QED
  BY <1>1, <1>7, <1>8, <1>9, <1>10, BotsKeep DEF BotsKnown

LEMMA DiesKeeps == ASSUME Inv, NEW b \in Bots, Dies(b) PROVE Inv'
<1>1. BotsOK(bot) /\ bot = [d \in Bots |-> bot[d]] /\ BotMoves
  BY DEF Dies, Inv, Base
<1>2. Kill({b})
  BY <1>1 DEF Dies, Kill
<1>3. Beside(tree, tree') /\ tree'.made = tree.made
  BY BesideItself DEF Dies, Inv, Base
<1> QED
  BY <1>1, <1>2, <1>3, Killed, BotsKeep

LEMMA ArrivesKeeps == ASSUME Inv, NEW b \in Bots, Arrives(b) PROVE Inv'
<1>1. BotsOK(bot) /\ bot = [d \in Bots |-> bot[d]] /\ BotMoves /\ tree' = tree
  BY DEF Arrives, Inv, Base
<1>2. PICK of \in Strangers : bot' = [bot EXCEPT ![b] = [NoBot EXCEPT !.of = of, !.state = "polling"]]
  BY DEF Arrives, Strangers
<1> DEFINE p == [NoBot EXCEPT !.of = of, !.state = "polling"]
<1>3. p \in Processes /\ p.ours = FALSE /\ p.state = "polling"
  BY DEF NoBot, Processes, Strangers
<1>4. bot' = [bot EXCEPT ![b] = p]
  BY <1>2
<1> HIDE DEF p
<1>5. \A d \in Bots : bot'[d] = IF d = b THEN p ELSE bot[d]
  BY <1>1, <1>4
<1>6. bot' = [d \in Bots |-> bot'[d]]
  BY <1>1, <1>4
<1>7. BotsOK(bot')
  BY <1>1, <1>3, <1>5 DEF BotsOK
<1>8. \A d \in Ours(bot') : d \in Ours(bot) /\ bot'[d].of = bot[d].of /\ bot'[d].token = bot[d].token
  BY <1>3, <1>5 DEF Ours
<1>9. Beside(tree, tree') /\ tree'.made = tree.made
  BY <1>1, BesideItself DEF Inv, Base
<1> QED
  BY <1>1, <1>6, <1>7, <1>8, <1>9, BotsKeep DEF BotsKnown

-----------------------------------------------------------------------------
\* What a behaviour starts from.
LEMMA SceneTypes ==
  ASSUME NEW s \in Scenes
  PROVE  /\ TreeOK(s.tree) /\ \A b \in Bots : s.bots[b] \in Processes
         /\ \A b \in Bots : s.bots[b].state # "refused"
         /\ \A b \in Bots : s.bots[b].state # "gone" /\ s.bots[b].ours => s.bots[b].of \in Bridged
         /\ \A b \in Bots : s.bots[b].of = "other" => s.bots[b].state = "polling"
<1>1. /\ s.tree \in Trees /\ (s.tree.state => s.tree.made)
      /\ (s.tree.yaml.state = "ok" => s.tree.state)
  BY SceneAssumption
<1>2. \A b \in Bots :
        /\ s.bots[b] \in [of : Bridged \cup {NoRunner, "other"}, ours : BOOLEAN,
                          state : {"gone", "starting", "polling"}, token : Nat]
        /\ s.bots[b].state # "gone" /\ s.bots[b].ours => s.bots[b].of \in Bridged
        /\ s.bots[b].of = "other" => s.bots[b].state = "polling"
  BY SceneAssumption
<1>3. \A b \in Bots : s.bots[b] \in Processes /\ s.bots[b].state # "refused"
  BY <1>2 DEF Processes
<1> QED
  BY <1>1, <1>2, <1>3 DEF TreeOK

LEMMA FirstBots == Init => BotsOK(bot) /\ bot = [b \in Bots |-> bot[b]]
<1> SUFFICES ASSUME Init PROVE BotsOK(bot) /\ bot = [b \in Bots |-> bot[b]]
  OBVIOUS
<1>1. scene \in Scenes /\ bot = [b \in Bots |-> scene.bots[b]]
  BY DEF Init
<1>2. \A b \in Bots : bot[b] = scene.bots[b]
  BY <1>1
<1> QED
  BY <1>1, <1>2, SceneTypes DEF BotsOK

LEMMA FirstDebt == Init => owed \in Debts /\ QuietOK(tree, owed)
<1> SUFFICES ASSUME Init PROVE owed \in Debts /\ QuietOK(tree, owed)
  OBVIOUS
<1>1. /\ scene \in Scenes /\ tree = scene.tree
      /\ owed = IF scene.tree.yaml.state = "ok"
                THEN Settings(scene.tree.yaml.cfg, scene.tree.policy) ELSE NoDebt
  BY DEF Init
<1>2. TreeOK(tree)
  BY <1>1, SceneTypes
<1>3. NoDebt \in Debts /\ NoDebt.bound = FALSE
  BY DEF NoDebt, Settings, Debts, DefaultConfig, Binds, Hosts
<1>4. CASE tree.yaml.state = "ok"
  <2>1. owed = Settings(tree.yaml.cfg, tree.policy)
    BY <1>1, <1>4
  <2>2. tree.yaml.cfg \in Configs /\ tree.policy \in {"absent", "torn", "default", "edited"}
    BY <1>2 DEF TreeOK, Trees
  <2>3. tree.yaml.cfg.bind \in Binds /\ tree.yaml.cfg.wait \in Nat
    BY <2>2 DEF Configs
  <2> QED
    BY <1>2, <1>4, <2>1, <2>2, <2>3 DEF Settings, Debts, QuietOK, SameSettings, TreeOK
<1>5. CASE tree.yaml.state # "ok"
  BY <1>1, <1>3, <1>5 DEF QuietOK
<1> QED
  BY <1>4, <1>5

LEMMA FirstClis == Init => CliTable /\ \A c \in Clis : cli[c] = Idle
<1> SUFFICES ASSUME Init PROVE CliTable /\ \A c \in Clis : cli[c] = Idle
  OBVIOUS
<1>1. cli = [c \in Clis |-> Idle]
  BY DEF Init
<1>2. \A c \in Clis : cli[c] = Idle
  BY <1>1
<1>3. \A c \in Clis : cli[c] = [f \in DOMAIN Idle |-> cli[c][f]]
  BY <1>2, Newcomers DEF Formed
<1> QED
  BY <1>1, <1>2, <1>3 DEF CliTable

LEMMA FirstInv == Init => Inv
<1> SUFFICES ASSUME Init PROVE Inv
  OBVIOUS
<1>1. scene \in Scenes /\ tree = scene.tree
  BY DEF Init
<1>2. TreeOK(tree)
  BY <1>1, SceneTypes
<1>3. CliTable /\ (\A c \in Clis : cli[c] = Idle) /\ BotsOK(bot) /\ bot = [b \in Bots |-> bot[b]]
      /\ owed \in Debts /\ QuietOK(tree, owed)
  BY FirstClis, FirstBots, FirstDebt
<1>4. Base
  BY <1>1, <1>2, <1>3 DEF Base
<1>5. \A c \in Clis : LocalOK(cli[c]) /\ cli[c].todo = <<>> /\ cli[c].out # "invalid"
  BY <1>3, Newcomers
<1>6. AloneOK
  BY <1>3, <1>5 DEF AloneOK, Active
<1> QED
  BY <1>4, <1>5, <1>6 DEF Inv

LEMMA NextKeeps == Inv /\ StopInv /\ [Next]_all => Inv'
<1> SUFFICES ASSUME Inv, StopInv, [Next]_all PROVE Inv'
  OBVIOUS
<1>1. ASSUME NEW c \in Clis, NEW cmd \in scene.lines, Begin(c, cmd) PROVE Inv'
  BY <1>1, BeginKeeps
<1>2. ASSUME NEW c \in Clis, FileSteps(c) PROVE Inv'
  BY <1>2, FileStepMoves, MovedKeeps DEF Elsewhere
<1>3. ASSUME NEW c \in Clis, HomeSteps(c) PROVE Inv'
  BY <1>3, HomeStepMoves, MovedKeeps DEF Elsewhere
<1>4. ASSUME NEW c \in Clis, SyncStep(c) PROVE Inv'
  BY <1>4, SyncStepMoves, MovedKeeps
<1>5. ASSUME NEW c \in Clis, Channel(c) PROVE Inv'
  <2>1. cli[c].todo # <<>>
    BY <1>5, Zenon DEF Channel, Doing
  <2>2. Moved(c)
    BY <1>5, ChannelMoves
  <2> QED
    BY <2>1, <2>2, MovedKeeps
<1>6. ASSUME NEW c \in Clis, Crash(c) PROVE Inv'
  BY <1>6, CrashKeeps
<1>7. ASSUME NEW b \in Bots, BotMove(b) PROVE Inv'
  BY <1>7, TakeTokenKeeps, DiesKeeps, ArrivesKeeps DEF BotMove
<1>8. ASSUME NEW k \in Runners, Drift(k) PROVE Inv'
  BY <1>8, DriftKeeps
<1>9. ASSUME NEW k \in Runners, Reinstall(k) PROVE Inv'
  BY <1>9, ReinstallKeeps
<1>10. ASSUME UNCHANGED all PROVE Inv'
  BY <1>10 DEF all, Inv, Base, CliTable, AloneOK, Active
<1> QED
  BY <1>1, <1>2, <1>3, <1>4, <1>5, <1>6, <1>7, <1>8, <1>9, <1>10 DEF Next

-----------------------------------------------------------------------------
\* The types of the runtime's files and processes.
TypesOK == TreeOK(tree) /\ BotsOK(bot) /\ owed \in Debts /\ \A c \in Clis : Fields(cli[c])

\* What the invariant says of the properties.
LEMMA ValidFromInv == Inv => SetupIsValid
  BY DEF Inv, AloneOK, SetupIsValid

LEMMA KeptFromInv == Inv => SettingsAreKept
<1> SUFFICES ASSUME Inv, Active = {}, ~disturbed, owed.bound, Loadable
             PROVE  Settings(tree.yaml.cfg, tree.policy) = owed
  BY DEF SettingsAreKept
<1>1. QuietOK(tree, owed) /\ owed \in Debts
  BY DEF Inv, AloneOK, Base
<1>2. SameSettings(tree.yaml.cfg, owed) /\ owed.policy = tree.policy
  BY <1>1 DEF QuietOK, Stored, Loadable
<1> QED
  BY <1>1, <1>2 DEF Settings, SameSettings, Debts

LEMMA FollowsFromInv == Inv => BridgeFollowsRunner
<1> SUFFICES ASSUME Inv, NEW c \in Clis, cli[c].stage = "synced", cli[c].todo # <<>>, ~disturbed,
                    NEW b \in Bots, Alive(b), bot[b].ours
             PROVE  bot[b].of = Selected(c) /\ (Forced(c) => bot[b].token = tree.channel[bot[b].of])
  BY DEF BridgeFollowsRunner
<1>1. LocalOK(cli[c]) /\ BridgeOK(cli[c], tree, bot)
  BY DEF Inv, AloneOK, Active
<1>2. Syncing(cli[c].cmd) /\ Past(cli[c].cmd[1], "synced", Left(cli[c].todo))
  BY <1>1 DEF LocalOK
<1>3. b \in Ours(bot)
  BY DEF Ours, Alive
<1>4. "stop_others" \notin Left(cli[c].todo) /\ "force" \notin Left(cli[c].todo)
  <2>1. /\ Place(cli[c].cmd[1], "synced") = 27 /\ Place(cli[c].cmd[1], "stop_others") = 21
        /\ Place(cli[c].cmd[1], "force") = 22
    BY Places
  <2>2. \A x \in {"stop_others", "force"} : x \notin Quick /\ ~(27 < Place(cli[c].cmd[1], x))
    BY <2>1 DEF Quick
  <2> QED
    BY <1>2, <2>1, <2>2 DEF Past
<1>5. Forced(c) => Restarts(cli[c])
  BY SelectedIs DEF Forced, Restarts
<1> QED
  BY <1>1, <1>2, <1>3, <1>4, <1>5, SelectedIs DEF BridgeOK

\* A command at its launch finds the home wired.
LEMMA WiredAtLaunch ==
  ASSUME Inv, ~disturbed, tree.yaml.state = "ok", NEW c \in Clis, Doing(c, "launch"), NEW k, k = Kind(c)
  PROVE  \/ tree.home[k].file = "ok" /\ WiredNow(k)
         \/ tree.home[k].file = "torn"
         \/ tree.home[k].file = "absent" /\ k = "openclaw"
<1>1. cli[c].todo # <<>> /\ Head(cli[c].todo) = "launch"
  BY Zenon DEF Doing
<1>2. /\ LocalOK(cli[c]) /\ HomeOK(cli[c], tree) /\ SettingsOK(cli[c], tree, owed)
      /\ CourseOK(cli[c].cmd, cli[c].todo)
  BY <1>1 DEF Inv, AloneOK, Active, LocalOK
<1>3. /\ cli[c].cmd \in Lines /\ InOrder(cli[c].cmd[1], cli[c].todo)
      /\ Left(cli[c].todo) \subseteq Own(cli[c].cmd[1])
  BY <1>2 DEF CourseOK
<1>4. "launch" \in Left(cli[c].todo)
  BY <1>1, <1>3, Ahead
<1>5. cli[c].cmd[1] = "run" /\ cli[c].cmd[2] \in Runners
  BY <1>3, <1>4, KindOf
<1>6. Left(cli[c].todo) \cap Quick = {}
  <2>1. Head(cli[c].todo) \notin Quick
    BY <1>1 DEF Quick
  <2> QED
    BY <1>1, <1>3, <2>1, NoQuick
<1>7. "guard" \notin Left(cli[c].todo) /\ "load" \notin Left(cli[c].todo)
  <2>1. /\ Place(cli[c].cmd[1], "launch") = 35 /\ Place(cli[c].cmd[1], "guard") = 31
        /\ Place(cli[c].cmd[1], "load") = 2
    BY <1>5, Places
  <2>2. \A x \in Left(cli[c].todo) :
          x = Head(cli[c].todo) \/ Place(cli[c].cmd[1], Head(cli[c].todo)) < Place(cli[c].cmd[1], x)
    BY <1>1, <1>3, Ahead
  <2>3. \A x \in {"guard", "load"} : x # "launch" /\ ~(35 < Place(cli[c].cmd[1], x))
    BY <2>1
  <2> QED
    BY <1>1, <2>1, <2>2, <2>3
<1>8. "guard" \in Due(cli[c].cmd) \ Left(cli[c].todo) /\ "home" \notin Left(cli[c].todo)
  BY <1>5, <1>6, <1>7 DEF Due, Quick
<1>9. \/ Fits(k, cli[c].cfg, tree.home[k]) \/ tree.home[k].file = "torn"
      \/ (tree.home[k].file = "absent" /\ k = "openclaw")
  BY <1>2, <1>8 DEF HomeOK, Kind
<1>10. LoadedOK(cli[c], tree, owed)
  BY <1>2, <1>5, <1>7 DEF SettingsOK
<1>11. SameSettings(cli[c].cfg, tree.yaml.cfg)
  BY <1>6, <1>10 DEF LoadedOK, Quick
<1>12. Wiring(k, cli[c].cfg) = Wiring(k, tree.yaml.cfg)
  BY <1>5, <1>11, WiringSettings DEF SameSettings, Kind
<1> QED
  BY <1>9, <1>12 DEF Fits, WiredNow

-----------------------------------------------------------------------------
\* No step but the launch says that a runner was launched, and no step of a
\* command but the sync's touches a process.
Unsaid == \A d \in Clis : cli'[d].out = "launched" => cli[d].out = "launched"
Quiet == bot' = bot /\ ending' = ending
Tame == Unsaid /\ Quiet
Harmless == \A b \in Bots : bot[b].of = "other" => bot'[b] = bot[b]

LEMMA StepUnsaid ==
  ASSUME CliTable, NEW c \in Clis
  PROVE  /\ \A todo, ch : "out" \notin DOMAIN ch /\ Step(c, todo, ch) => Unsaid
         /\ \A out : out # "launched" /\ Ends(c, out) => Unsaid
<1>1. ASSUME NEW todo, NEW ch, "out" \notin DOMAIN ch, Step(c, todo, ch) PROVE Unsaid
  <2>1. Only(c) /\ Becomes(cli[c], todo, ch, cli'[c])
    BY <1>1, StepChanges
  <2>2. cli'[c].out = cli[c].out
    BY <1>1, <2>1 DEF Becomes
  <2> QED
    BY <2>1, <2>2 DEF Only, Unsaid
<1>2. ASSUME NEW out, out # "launched", Ends(c, out) PROVE Unsaid
  <2>1. Only(c) /\ Ended(cli[c], out, cli'[c])
    BY <1>2, EndChanges
  <2>2. cli'[c].out # "launched"
    BY <1>2, <2>1, Zenon DEF Ended
  <2> QED
    BY <2>1, <2>2 DEF Only, Unsaid
<1> QED
  BY <1>1, <1>2

LEMMA FormsTame ==
  ASSUME CliTable, NEW c \in Clis
  PROVE  /\ \A todo, ch : "out" \notin DOMAIN ch /\ Go(c, todo, ch) => Tame
         /\ \A t, todo : Alter(c, t, todo) => Tame
         /\ Pass(c) => Tame
         /\ \A out : out # "launched" /\ Quit(c, out) => Tame
<1> DEFINE none == [x \in {} |-> 0]
<1>1. "out" \notin DOMAIN none
  OBVIOUS
<1>2. UNCHANGED Others => Quiet
  BY DEF Others, Quiet
<1>3. \A todo, ch : "out" \notin DOMAIN ch /\ Step(c, todo, ch) => Unsaid
  BY StepUnsaid
<1>4. \A out : out # "launched" /\ Ends(c, out) => Unsaid
  BY StepUnsaid
<1>5. \A todo, ch : "out" \notin DOMAIN ch /\ Go(c, todo, ch) => Tame
  BY <1>2, <1>3, Zenon DEF Go, Tame
<1>6. \A t, todo : Alter(c, t, todo) => Step(c, todo, none) /\ UNCHANGED Others
  BY DEF Alter
<1>7. Pass(c) => Go(c, Rest(c), none)
  BY DEF Pass
<1> HIDE DEF none
<1>8. \A t, todo : Alter(c, t, todo) => Tame
  BY <1>1, <1>2, <1>3, <1>6, Zenon DEF Tame
<1>9. Pass(c) => Tame
  BY <1>1, <1>5, <1>7, Zenon
<1>10. \A out : out # "launched" /\ Quit(c, out) => Tame
  BY <1>2, <1>4, Zenon DEF Quit, Tame
<1> QED
  BY <1>5, <1>8, <1>9, <1>10

LEMMA WritesTame ==
  ASSUME CliTable, NEW c \in Clis
  PROVE  /\ \A cfg, todo, ch : "out" \notin DOMAIN ch /\ WriteYaml(c, cfg, todo, ch) => Tame
         /\ \A pol : WritePolicy(c, pol) => Tame
         /\ \A home, todo : WriteHome(c, home, todo) => Tame
         /\ \A home, todo : ChangeHome(c, home, todo) => Tame
<1>1. UNCHANGED Others => Quiet
  BY DEF Others, Quiet
<1>2. \A todo, ch : "out" \notin DOMAIN ch /\ Step(c, todo, ch) => Unsaid
  BY StepUnsaid
<1>3. Quit(c, "failed") => Tame
  <2>1. "failed" # "launched"
    OBVIOUS
  <2> QED
    BY <2>1, FormsTame
<1>4. ASSUME NEW cfg, NEW todo, NEW ch, "out" \notin DOMAIN ch, WriteYaml(c, cfg, todo, ch) PROVE Tame
  <2> DEFINE new == YamlChanges(ch, cfg)
  <2>1. "out" \notin DOMAIN new
    BY <1>4 DEF YamlChanges
  <2>2. \/ Step(c, <<"yaml">> \o todo, new) /\ UNCHANGED Others
        \/ Quit(c, "failed")
    BY <1>4 DEF WriteYaml, YamlChanges
  <2> HIDE DEF new
  <2> QED
    BY <1>1, <1>2, <1>3, <2>1, <2>2 DEF Tame
<1>5. ASSUME NEW pol, WritePolicy(c, pol) PROVE Tame
  <2> DEFINE new == [newpol |-> pol]
  <2>1. "out" \notin DOMAIN new
    OBVIOUS
  <2>2. \/ Step(c, <<"policy">> \o Rest(c), new) /\ UNCHANGED Others
        \/ Quit(c, "failed")
    BY <1>5 DEF WritePolicy
  <2> HIDE DEF new
  <2> QED
    BY <1>1, <1>2, <1>3, <2>1, <2>2 DEF Tame
<1>6. ASSUME NEW home, NEW todo, WriteHome(c, home, todo) PROVE Tame
  <2> DEFINE new == [newhome |-> [home EXCEPT !.dir = TRUE, !.file = "ok"]]
  <2>1. "out" \notin DOMAIN new
    OBVIOUS
  <2>2. Step(c, <<"home">> \o todo, new) /\ UNCHANGED Others
    BY <1>6, Zenon DEF WriteHome
  <2> HIDE DEF new
  <2> QED
    BY <1>1, <1>2, <2>1, <2>2 DEF Tame
<1>7. ASSUME NEW home, NEW todo, ChangeHome(c, home, todo) PROVE Tame
  BY <1>7, FormsTame, Zenon DEF ChangeHome
<1> QED
  BY <1>4, <1>5, <1>6, <1>7

LEMMA FileTame ==
  ASSUME CliTable, NEW c \in Clis, FileSteps(c)
  PROVE  Tame
<1> DEFINE none == [x \in {} |-> 0]
<1>1. \A todo, ch : "out" \notin DOMAIN ch /\ Step(c, todo, ch) => Unsaid
  BY StepUnsaid
<1>2. UNCHANGED Others => Quiet
  BY DEF Others, Quiet
<1>3. "out" \notin DOMAIN none /\ \A u, v : "out" \notin DOMAIN [cfg |-> u, pol |-> v]
                                          /\ "out" \notin DOMAIN [cfg |-> u]
  OBVIOUS
<1>4. \A out : out \in {"failed", "done"} => out # "launched"
  OBVIOUS
<1>5. (\A out : out # "launched" /\ Quit(c, out) => Tame) /\ (Pass(c) => Tame)
      /\ (\A t, todo : Alter(c, t, todo) => Tame)
      /\ (\A todo, ch : "out" \notin DOMAIN ch /\ Go(c, todo, ch) => Tame)
  BY FormsTame
<1>6. (Quit(c, "failed") => Tame) /\ (Quit(c, "done") => Tame)
  BY <1>4, <1>5
<1>7. /\ \A cfg, todo, ch : "out" \notin DOMAIN ch /\ WriteYaml(c, cfg, todo, ch) => Tame
      /\ \A pol : WritePolicy(c, pol) => Tame
  BY WritesTame
<1> HIDE DEF none
<1>8. YamlWritten(c) => Tame
  <2>1. YamlWritten(c) => UNCHANGED Others /\ \E todo : Step(c, todo, none)
    BY Zenon DEF YamlWritten, none
  <2> QED
    BY <1>1, <1>2, <1>3, <2>1 DEF Tame
<1>9. PolicyWritten(c) => Tame
  <2>1. PolicyWritten(c) => UNCHANGED Others /\ Step(c, Rest(c), none)
    BY Zenon DEF PolicyWritten, none
  <2> QED
    BY <1>1, <1>2, <1>3, <2>1 DEF Tame
<1>10. RemoveDirAll(c) => Tame
  <2>1. RemoveDirAll(c) => UNCHANGED Others /\ (cli' = cli \/ Step(c, Rest(c), none))
    BY Zenon DEF RemoveDirAll, none
  <2> QED
    BY <1>1, <1>2, <1>3, <2>1 DEF Tame, Unsaid
<1>11. LoadRuntime(c) \/ Vacant(c) \/ Finish(c) => Tame
  BY <1>3, <1>5, <1>6, Zenon DEF LoadRuntime, Vacant, Finish
<1>12. MakeDirs(c) \/ EnsureArtifacts(c) => Tame
  BY <1>5, Zenon DEF MakeDirs, EnsureArtifacts
<1>13. WriteDefaultPolicy(c) \/ RestorePolicy(c) \/ SavePolicy(c) => Tame
  BY <1>7, Zenon DEF WriteDefaultPolicy, RestorePolicy, SavePolicy
<1>14. WriteDefaultConfig(c) \/ RestoreConfig(c) => Tame
  BY <1>3, <1>7, Zenon DEF WriteDefaultConfig, RestoreConfig, none
<1>15. ApplyPatch(c) => Tame
  <2>1. ApplyPatch(c) =>
          Quit(c, "failed") \/ \E cfg : WriteYaml(c, cfg, <<"stored">> \o Rest(c), [cfg |-> cfg])
    BY Zenon DEF ApplyPatch
  <2> QED
    BY <1>3, <1>6, <1>7, <2>1
<1>16. AutoBind(c) => Tame
  <2>1. AutoBind(c) =>
          \/ Pass(c)
          \/ \E cfg : \/ WriteYaml(c, cfg, <<"stored">> \o Rest(c), [cfg |-> cfg])
                      \/ Go(c, Rest(c), [cfg |-> cfg])
    BY Zenon DEF AutoBind
  <2> QED
    BY <1>3, <1>5, <1>7, <2>1
<1> QED
  BY <1>8, <1>9, <1>10, <1>11, <1>12, <1>13, <1>14, <1>15, <1>16 DEF FileSteps

LEMMA HomeTame ==
  ASSUME Inv, NEW c \in Clis, HomeSteps(c)
  PROVE  Quiet /\ (Launch(c) \/ Unsaid)
<1> DEFINE none == [x \in {} |-> 0]
<1>0. CliTable
  BY DEF Inv, Base
<1>1. \A todo, ch : "out" \notin DOMAIN ch /\ Step(c, todo, ch) => Unsaid
  BY <1>0, StepUnsaid
<1>2. UNCHANGED Others => Quiet
  BY DEF Others, Quiet
<1>3. "out" \notin DOMAIN none /\ \A u, v : "out" \notin DOMAIN [cfg |-> u, stage |-> v]
                                          /\ "out" \notin DOMAIN [cfg |-> u] /\ "out" \notin DOMAIN [stage |-> u]
  OBVIOUS
<1>4. \A out : out \in {"failed", "done", "invalid"} => out # "launched"
  OBVIOUS
<1>5. (\A out : out # "launched" /\ Quit(c, out) => Tame) /\ (Pass(c) => Tame)
      /\ (\A t, todo : Alter(c, t, todo) => Tame)
      /\ (\A todo, ch : "out" \notin DOMAIN ch /\ Go(c, todo, ch) => Tame)
  BY <1>0, FormsTame
<1>6. (Quit(c, "failed") => Tame) /\ (Quit(c, "done") => Tame) /\ (Quit(c, "invalid") => Tame)
  BY <1>4, <1>5
<1>7. (\A cfg, todo, ch : "out" \notin DOMAIN ch /\ WriteYaml(c, cfg, todo, ch) => Tame)
      /\ (\A home, todo : WriteHome(c, home, todo) => Tame)
      /\ (\A home, todo : ChangeHome(c, home, todo) => Tame)
  BY <1>0, WritesTame
<1>8. \A todo : Go(c, todo, none) => Tame
  BY <1>3, <1>5
<1> HIDE DEF none
<1>9. HomeWritten(c) \/ Provision(c) \/ MediaAlias(c) \/ DropHome(c) \/ DropWorkspace(c) => Tame
  BY <1>5, Zenon DEF HomeWritten, Provision, MediaAlias, DropHome, DropWorkspace
<1>10. Import(c) => Tame
  <2>1. ImportHome(c) \/ CopySettings(c) \/ CopyLogin(c) => Tame
    BY <1>7, Zenon DEF ImportHome, CopySettings, CopyLogin
  <2>2. Import(c) => cli[c].todo # <<>> /\ Head(cli[c].todo) = "import"
    BY DEF Import, Doing
  <2>3. Import(c) => Kind(c) \in Runners
    BY <2>2, AtHome
  <2>4. Import(c) => Pass(c) \/ ImportHome(c) \/ CopySettings(c) \/ CopyLogin(c)
    BY <2>3 DEF Import, Runners
  <2> QED
    BY <1>5, <2>1, <2>4
<1>11. Clone(c) => Tame
  <2>1. Clone(c) => UNCHANGED Others /\ \E v : Step(c, Rest(c), [stage |-> v])
    BY Zenon DEF Clone
  <2> QED
    BY <1>1, <1>2, <1>3, <2>1 DEF Tame
<1>12. Bootstrap(c) => Tame
  <2>1. Bootstrap(c) => \/ Pass(c) \/ \E home, todo : ChangeHome(c, home, todo)
                        \/ UNCHANGED Others /\ Ends(c, "failed")
    BY Zenon DEF Bootstrap
  <2>2. Ends(c, "failed") => Unsaid
    BY <1>0, <1>4, StepUnsaid
  <2> QED
    BY <1>2, <1>5, <1>7, <2>1, <2>2 DEF Tame
<1>13. WriteRunnerConfig(c) \/ Guard(c) => Tame
  BY <1>5, <1>6, <1>7, Zenon DEF WriteRunnerConfig, Guard
<1>14. RepairAuth(c) => Tame
  BY <1>5, <1>6, <1>7, <1>8, Zenon DEF RepairAuth, Same, none
<1>15. StoreKey(c) \/ StoreProfile(c) => Tame
  BY <1>7, Zenon DEF StoreKey, StoreProfile
<1>16. VerifyImport(c) \/ Validate(c) \/ Match(c) \/ Target(c) \/ Available(c) \/ CheckAuth(c) => Tame
  BY <1>5, <1>6, Zenon DEF VerifyImport, Validate, Match, Target, Available, CheckAuth
<1>17. SaveRunner(c) => Tame
  <2>1. SaveRunner(c) => \E cfg : WriteYaml(c, cfg, Rest(c), [cfg |-> cfg, stage |-> ""])
    BY Zenon DEF SaveRunner
  <2>2. \A cfg, v : WriteYaml(c, cfg, Rest(c), [cfg |-> cfg, stage |-> v]) => Tame
    BY <1>3, <1>7
  <2> QED
    BY <2>1, <2>2, Zenon
<1>18. \A cfg, todo : WriteYaml(c, cfg, todo, [cfg |-> cfg]) => Tame
  BY <1>3, <1>7
<1>19. Reconcile(c) => Tame
  BY <1>5, <1>8, <1>18, Zenon DEF Reconcile, Same, none
<1>20. Decide(c) => Tame
  BY <1>5, <1>8, <1>18, Zenon DEF Decide, Same, none
<1>21. Unlink(c) => Tame
  BY <1>18, Zenon DEF Unlink
<1>22. Seed(c) => Tame
  BY <1>5, <1>7, Zenon DEF Seed, SeedSettings, SeedLogin, CopySettings, CopyLogin
<1>23. Launch(c) => Quiet
  BY <1>2, Zenon DEF Launch, Quit
<1>24. ASSUME ~Launch(c) PROVE Tame
  BY <1>9, <1>10, <1>11, <1>12, <1>13, <1>14, <1>15, <1>16, <1>17, <1>19, <1>20, <1>21, <1>22, <1>24, Zenon
     DEF HomeSteps
<1> QED
  BY <1>23, <1>24 DEF Tame

LEMMA SyncUnsaid ==
  ASSUME CliTable, NEW c \in Clis, SyncStep(c)
  PROVE  Unsaid
<1> DEFINE none == [x \in {} |-> 0]
<1>1. \A todo, ch : "out" \notin DOMAIN ch /\ Step(c, todo, ch) => Unsaid
  BY StepUnsaid
<1>2. "out" \notin DOMAIN none /\ \A u, v : "out" \notin DOMAIN [bot |-> u, stage |-> v]
                                          /\ "out" \notin DOMAIN [bot |-> u] /\ "out" \notin DOMAIN [stage |-> u]
  OBVIOUS
<1>3. \A t, todo, ch : "out" \notin DOMAIN ch /\ Bot(c, t, todo, ch) => Unsaid
  BY <1>1, Zenon DEF Bot
<1>4. /\ \A t, todo : Alter(c, t, todo) => Unsaid
      /\ \A todo, ch : "out" \notin DOMAIN ch /\ Go(c, todo, ch) => Unsaid
  BY FormsTame, Zenon DEF Tame
<1>5. \A todo : Go(c, todo, none) => Unsaid
  BY <1>2, <1>4
<1>6. \A t, todo : Bot(c, t, todo, none) => Unsaid
  BY <1>2, <1>3
<1>7. \A t, todo, u, v : /\ Bot(c, t, todo, [bot |-> u, stage |-> v]) => Unsaid
                         /\ Bot(c, t, todo, [bot |-> u]) => Unsaid
                         /\ Bot(c, t, todo, [stage |-> u]) => Unsaid
  BY <1>2, <1>3
<1>8. \A u : Go(c, Rest(c), [stage |-> u]) => Unsaid
  BY <1>2, <1>4
<1>9. cli' = cli => Unsaid
  BY DEF Unsaid
<1> HIDE DEF none
<1>10. \A rs : Collect(c, rs) \/ Terminate(c) \/ KillAnyway(c) => Unsaid
  BY <1>9, Zenon DEF Collect, Terminate, KillAnyway, Within
<1>11. \A todo : SeenTo(c, todo) => Unsaid
  BY <1>6, <1>7, <1>9, Zenon DEF SeenTo, none
<1>12. \A rs, todo : Stop(c, rs, todo) => Unsaid
  BY <1>10, <1>11, Zenon DEF Stop
<1>13. Select(c) => Unsaid
  <2>1. Select(c) => Pass(c) \/ \E v : Step(c, Rest(c), [stage |-> v])
    BY Zenon DEF Select
  <2>2. \A v : "out" \notin DOMAIN [stage |-> v]
    OBVIOUS
  <2> QED
    BY <1>1, <2>1, <2>2, FormsTame DEF Tame
<1>14. StopOthers(c) => Unsaid
  BY <1>12, Zenon DEF StopOthers
<1>15. ForceBridge(c) \/ Gate(c) \/ Running(c) => Unsaid
  BY <1>5, <1>12, Zenon DEF ForceBridge, Gate, Running, Unchanged, none
<1>16. StartBridge(c) \/ Synced(c) => Unsaid
  BY <1>7, <1>8, Zenon DEF StartBridge, Start, Synced
<1>17. Settle(c) => Unsaid
  <2>1. Verdict(c) => Unsaid
    BY <1>7, Zenon DEF Verdict
  <2> QED
    BY <1>12, <2>1, Zenon DEF Settle
<1> QED
  BY <1>13, <1>14, <1>15, <1>16, <1>17, Zenon DEF SyncStep

\* Only processes known to be bridges are stopped.
LEMMA KillHarmless ==
  ASSUME BotsOK(bot), NEW dead, Kill(dead), \A b \in Bots : b \in dead => bot[b].of # "other"
  PROVE  Harmless
<1>1. \A b \in Bots : bot'[b] = IF b \in dead THEN NoBot ELSE bot[b]
  BY DEF Kill
<1> QED
  BY <1>1 DEF Harmless

LEMMA OneHarmless ==
  ASSUME BotsOK(bot), NEW p, bot' = bot \/ Kill({p}), p \in Bots => bot[p].of # "other"
  PROVE  Harmless
<1>1. bot' = bot => Harmless
  BY DEF Harmless
<1>2. \A b \in Bots : b \in {p} => bot[b].of # "other"
  OBVIOUS
<1> QED
  BY <1>1, <1>2, KillHarmless

LEMMA SyncHarmless == ASSUME Inv, StopInv, NEW c \in Clis, SyncStep(c) PROVE Harmless
<1>1. BotsOK(bot) /\ bot = [b \in Bots |-> bot[b]] /\ \A p \in ending[c].doomed : bot[p].of # "other"
  BY DEF Inv, Base, StopInv, StopOK
<1>2. \A todo, ch : Go(c, todo, ch) => bot' = bot
  BY Zenon DEF Go, Others
<1>3. bot' = bot => Harmless
  BY DEF Harmless
<1>4. ASSUME NEW rs, NEW todo, Stop(c, rs, todo) PROVE Harmless
  <2>1. bot' = bot \/ \E p \in ending[c].doomed : bot' = bot \/ Kill({p})
    BY <1>4, Zenon DEF Stop, Collect, Terminate, KillAnyway, SeenTo
  <2> QED
    BY <1>1, <1>3, <2>1, OneHarmless
<1>5. Select(c) \/ Running(c) \/ Synced(c) => Harmless
  <2>1. UNCHANGED Others => bot' = bot
    BY DEF Others
  <2> QED
    BY <1>2, <1>3, <2>1, Zenon DEF Select, Running, Synced, Unchanged, Pass
<1>6. StopOthers(c) => Harmless
  BY <1>4, Zenon DEF StopOthers
<1>7. ForceBridge(c) \/ Gate(c) => Harmless
  BY <1>2, <1>3, <1>4, Zenon DEF ForceBridge, Gate, Unchanged
<1>8. ASSUME StartBridge(c) PROVE Harmless
  <2>1. PICK b \in Bots : \E p : bot[b].state = "gone" /\ bot' = [bot EXCEPT ![b] = p]
    BY <1>8, Zenon DEF StartBridge, Start
  <2>2. \A d \in Bots : d # b => bot'[d] = bot[d]
    BY <1>1, <2>1
  <2>3. bot[b].of # "other"
    BY <1>1, <2>1 DEF BotsOK
  <2> QED
    BY <2>2, <2>3 DEF Harmless
<1>9. ASSUME Verdict(c) PROVE Harmless
  <2> DEFINE b == cli[c].bot
  <2>1. bot' = bot \/ (~Alive(b) /\ Kill({b}))
    BY <1>9, Zenon DEF Verdict
  <2>2. b \in Bots /\ ~Alive(b) => bot[b].of # "other"
    BY <1>1 DEF BotsOK, Alive
  <2> HIDE DEF b
  <2> QED
    BY <1>1, <1>3, <2>1, <2>2, OneHarmless
<1>10. Settle(c) => Harmless
  BY <1>4, <1>9, Zenon DEF Settle
<1> QED
  BY <1>5, <1>6, <1>7, <1>8, <1>10, Zenon DEF SyncStep

LEMMA BotHarmless == ASSUME Inv, NEW b \in Bots, BotMove(b) PROVE Harmless
<1>1. BotsOK(bot) /\ bot = [d \in Bots |-> bot[d]] /\ scene \in Scenes
  BY DEF Inv, Base
<1>2. "other" \notin scene.mortal
  BY <1>1, SceneAssumption DEF Bridged
<1>3. \E p : bot' = [bot EXCEPT ![b] = p]
  BY Zenon DEF BotMove, TakeToken, Dies, Arrives
<1>4. \A d \in Bots : d # b => bot'[d] = bot[d]
  BY <1>1, <1>3
<1>5. bot[b].of # "other"
  <2>1. CASE TakeToken(b)
    BY <2>1 DEF TakeToken, Bridged
  <2>2. CASE Dies(b)
    BY <1>2, <2>2 DEF Dies
  <2>3. CASE Arrives(b)
    <3>1. bot[b].state = "gone"
      BY <2>3 DEF Arrives
    <3> QED
      BY <1>1, <3>1 DEF BotsOK
  <2> QED
    BY <2>1, <2>2, <2>3 DEF BotMove
<1> QED
  BY <1>4, <1>5 DEF Harmless

LEMMA CrashHarmless == ASSUME Inv, NEW c \in Clis, Crash(c) PROVE Harmless /\ Unsaid
<1> DEFINE dead == {b \in Bots : bot[b].state = "refused" /\ cli[c].bot = b}
<1>1. Ends(c, "crashed") /\ Kill(dead)
  BY DEF Crash, Kill
<1>2. CliTable /\ BotsOK(bot)
  BY DEF Inv, Base
<1>3. \A b \in Bots : b \in dead => bot[b].of # "other"
  BY <1>2 DEF BotsOK
<1> HIDE DEF dead
<1>4. Harmless
  BY <1>1, <1>2, <1>3, KillHarmless
<1>5. "crashed" # "launched"
  OBVIOUS
<1>6. Unsaid
  BY <1>1, <1>2, <1>5, StepUnsaid
<1> QED
  BY <1>4, <1>6

LEMMA ChannelTame == ASSUME CliTable, NEW c \in Clis, Channel(c) PROVE Tame
<1>1. \/ Quit(c, "failed") \/ \E t : Alter(c, t, Rest(c))
  BY Zenon DEF Channel
<1>2. "failed" # "launched"
  OBVIOUS
<1> QED
  BY <1>1, <1>2, FormsTame

LEMMA BeginTame == ASSUME Inv, NEW c \in Clis, NEW cmd \in scene.lines, Begin(c, cmd) PROVE Tame
<1> DEFINE s == Steps(cmd[1], cmd[2]) \o <<"done">>
<1>1. /\ cli' = [d \in Clis |-> IF d = c THEN Newcomer(cmd, s) ELSE IF Active = {} THEN Idle ELSE cli[d]]
      /\ Quiet
  BY DEF Begin, Newcomer, Quiet
<1> HIDE DEF s
<1>2. Newcomer(cmd, s).out = "busy"
  BY Newcomers DEF Fresh
<1>3. Idle.out = "idle"
  BY Zenon DEF Idle
<1> QED
  BY <1>1, <1>2, <1>3 DEF Tame, Unsaid

-----------------------------------------------------------------------------
\* What a command is about to end stays as it should be.
LEMMA StopKeeps ==
  ASSUME Inv, StopInv, NEW c \in Clis, cli[c].todo # <<>>, Moved(c), StopKept(c)
  PROVE  StopInv'
<1>1. disturbed' = disturbed /\ \A d \in Clis \ {c} : cli'[d] = cli[d] /\ ending'[d] = ending[d]
  BY DEF Moved, Only, StopKept
<1>2. \A d \in Clis : StopOK(cli[d], ending[d], bot) /\ ending[d].doomed \subseteq Bots
  BY DEF StopInv, StopOK, Endings
<1>3. \A d \in Clis \ {c} : StopOK(cli'[d], ending'[d], bot')
  BY <1>1, <1>2 DEF StopOK, StopKept
<1>4. ASSUME ~disturbed, NEW d \in Clis \ {c} PROVE Caught(cli'[d], ending'[d], bot')
  <2>1. cli[d].todo = <<>>
    BY <1>4 DEF Inv, AloneOK, Active
  <2>2. ending[d].step = "rest"
    BY <2>1, NotStopping DEF May
  <2> QED
    BY <1>1, <2>2 DEF Caught
<1> QED
  BY <1>1, <1>3, <1>4 DEF StopInv, StopKept

LEMMA ElsewhereKept == ASSUME StopInv, NEW c \in Clis, Elsewhere(c), Quiet PROVE StopKept(c)
<1>1. ending[c].step = "rest"
  BY NotStopping DEF May, Elsewhere
<1> QED
  BY <1>1, StaysAtRest DEF Quiet

\* Where no command goes on with what it is about to end.
LEMMA StopStays ==
  ASSUME StopInv, ending' = ending,
         \A d \in Clis : ending[d].step = "rest" \/ cli'[d] = cli[d],
         \A d \in Clis : \A p \in ending[d].doomed : bot'[p].of = "other" => bot[p].of = "other",
         \/ disturbed' \/ \A d \in Clis : ending[d].step = "rest"
         \/ ~disturbed /\ \A b \in Ours(bot') : b \in Ours(bot) /\ bot'[b].of = bot[b].of
  PROVE  StopInv'
<1>1. \A d \in Clis : StopOK(cli'[d], ending'[d], bot')
  BY DEF StopInv, StopOK
<1>2. ASSUME ~disturbed', NEW d \in Clis PROVE Caught(cli'[d], ending'[d], bot')
  <2>1. CASE ending[d].step = "rest"
    BY <2>1 DEF Caught
  <2>2. CASE ending[d].step # "rest"
    BY <1>2, <2>2 DEF StopInv, Caught
  <2> QED
    BY <2>1, <2>2
<1> QED
  BY <1>1, <1>2 DEF StopInv

LEMMA BeginStops == ASSUME StopInv, NEW c \in Clis, NEW cmd, Begin(c, cmd) PROVE StopInv'
<1>1. cli[c].todo = <<>> /\ disturbed' = (Active # {}) /\ bot' = bot /\ ending' = ending
  BY DEF Begin
<1>2. \A d \in Clis : cli[d].todo = <<>> => ending[d].step = "rest"
  BY NotStopping DEF May
<1>3. \A d \in Clis : d = c \/ Active = {} \/ cli'[d] = cli[d]
  BY DEF Begin
<1>4. Active = {} => \A d \in Clis : cli[d].todo = <<>>
  BY DEF Active
<1> QED
  BY <1>1, <1>2, <1>3, <1>4, StopStays

LEMMA CrashStops == ASSUME Inv, StopInv, NEW c \in Clis, Crash(c) PROVE StopInv'
<1> DEFINE dead == {b \in Bots : bot[b].state = "refused" /\ cli[c].bot = b}
<1>1. Ends(c, "crashed") /\ disturbed' = TRUE /\ Turn(c, AtRest) /\ Kill(dead)
  BY DEF Crash, Kill, Turn
<1>2. CliTable
  BY DEF Inv, Base
<1>3. \A d \in Clis \ {c} : cli'[d] = cli[d]
  BY <1>1, <1>2, EndChanges DEF Only
<1>4. /\ ending' = [d \in Clis |-> ending'[d]] /\ ending'[c] = AtRest
      /\ \A d \in Clis \ {c} : ending'[d] = ending[d]
  BY <1>1, TurnChanges
<1>5. \A b \in Bots : bot'[b].of = "other" => bot[b].of = "other"
  BY <1>1 DEF Kill, NoBot, NoRunner
<1>6. \A d \in Clis \ {c} : StopOK(cli'[d], ending'[d], bot')
  BY <1>3, <1>4, <1>5 DEF StopInv, StopOK, Endings
<1>7. StopOK(cli'[c], ending'[c], bot')
  BY <1>4, Resting
<1> QED
  BY <1>1, <1>4, <1>6, <1>7 DEF StopInv

\* A stranger with a pid that is about to be signalled is a latecomer.
Stranger(of) == [NoBot EXCEPT !.of = of, !.state = "polling"]
LEMMA BotStops == ASSUME Inv, StopInv, NEW b \in Bots, BotMove(b) PROVE StopInv'
<1>1. /\ BotsOK(bot) /\ bot = [d \in Bots |-> bot[d]]
      /\ UNCHANGED <<cli, ending, disturbed>>
  BY DEF Inv, Base, BotMove, TakeToken, Dies, Arrives, BotMoves
<1>2. PICK p : bot' = [bot EXCEPT ![b] = p]
  BY Zenon DEF BotMove, TakeToken, Dies, Arrives
<1>3. \A d \in Bots : bot'[d] = IF d = b THEN p ELSE bot[d]
  BY <1>1, <1>2
<1>4. p = bot'[b]
  BY <1>3
<1>5. /\ b \in Ours(bot') => b \in Ours(bot) /\ bot'[b].of = bot[b].of
      /\ \A d \in Clis : b \in ending[d].doomed => bot'[b].of # "other" \/ bot[b].of = "other"
  <2>1. CASE TakeToken(b)
    <3>1. bot[b].state = "starting" /\ bot[b].of \in Bridged /\ bot[b] \in Processes
      BY <1>1, <2>1 DEF TakeToken, BotsOK
    <3>2. \E q \in {[bot[b] EXCEPT !.state = "polling"], [bot[b] EXCEPT !.state = "refused"], NoBot} :
            bot' = [bot EXCEPT ![b] = q]
      BY <2>1 DEF TakeToken
    <3>3. bot'[b] \in {[bot[b] EXCEPT !.state = "polling"], [bot[b] EXCEPT !.state = "refused"], NoBot}
      BY <1>1, <3>2
    <3> QED
      BY <3>1, <3>3 DEF Ours, Processes, Bridged, NoBot, NoRunner
  <2>2. CASE Dies(b)
    <3>1. bot'[b] = NoBot
      BY <1>1, <2>2 DEF Dies
    <3> QED
      BY <3>1 DEF Ours, NoBot, NoRunner
  <2>3. CASE Arrives(b)
    <3>1. PICK of \in Strangers :
             /\ bot' = [bot EXCEPT ![b] = Stranger(of)]
             /\ of = "other" => \A d \in Clis : b \notin ending[d].doomed
      BY <2>3 DEF Arrives, Strangers, Stranger
    <3>2. bot'[b] = Stranger(of)
      BY <1>1, <3>1
    <3>3. Stranger(of).of = of /\ Stranger(of).ours = FALSE
      BY DEF Stranger, NoBot
    <3> QED
      BY <3>1, <3>2, <3>3 DEF Ours
  <2> QED
    BY <2>1, <2>2, <2>3 DEF BotMove
<1>6. \A d \in Clis : \A q \in ending[d].doomed : bot'[q].of = "other" => bot[q].of = "other"
  <2>1. \A d \in Clis : ending[d].doomed \subseteq Bots
    BY DEF StopInv, StopOK, Endings
  <2> QED
    BY <1>3, <1>5, <2>1
<1>7. \A d \in Ours(bot') : d \in Ours(bot) /\ bot'[d].of = bot[d].of
  <2>1. \A d \in Bots : d # b => bot'[d] = bot[d]
    BY <1>3
  <2> QED
    BY <1>5, <2>1 DEF Ours
<1> QED
  BY <1>1, <1>6, <1>7, StopStays

LEMMA FirstStops == Init => StopInv
<1> SUFFICES ASSUME Init PROVE StopInv
  OBVIOUS
<1>1. ending = [c \in Clis |-> AtRest]
  BY DEF Init
<1>2. \A c \in Clis : ending[c] = AtRest
  BY <1>1
<1> QED
  BY <1>1, <1>2, Resting DEF StopInv

LEMMA NextStops == Inv /\ StopInv /\ [Next]_all => StopInv'
<1> SUFFICES ASSUME Inv, StopInv, [Next]_all PROVE StopInv'
  OBVIOUS
<1>1. ASSUME NEW c \in Clis, NEW cmd \in scene.lines, Begin(c, cmd) PROVE StopInv'
  BY <1>1, BeginStops
<1>2. ASSUME NEW c \in Clis, FileSteps(c) PROVE StopInv'
  <2>1. Tame
    BY <1>2, FileTame DEF Inv, Base
  <2>2. Moved(c) /\ Elsewhere(c)
    BY <1>2, FileStepMoves
  <2> QED
    BY <2>1, <2>2, ElsewhereKept, StopKeeps DEF Tame, Elsewhere
<1>3. ASSUME NEW c \in Clis, HomeSteps(c) PROVE StopInv'
  <2>1. Quiet
    BY <1>3, HomeTame
  <2>2. Moved(c) /\ Elsewhere(c)
    BY <1>3, HomeStepMoves
  <2> QED
    BY <2>1, <2>2, ElsewhereKept, StopKeeps DEF Elsewhere
<1>4. ASSUME NEW c \in Clis, SyncStep(c) PROVE StopInv'
  BY <1>4, SyncStepMoves, StopKeeps
<1>5. ASSUME NEW c \in Clis, Channel(c) PROVE StopInv'
  <2>1. Elsewhere(c)
    BY <1>5, Zenon DEF Channel, Doing, Elsewhere, Stops
  <2>2. Moved(c) /\ Tame
    BY <1>5, ChannelMoves, ChannelTame DEF Inv, Base
  <2> QED
    BY <2>1, <2>2, ElsewhereKept, StopKeeps DEF Tame, Elsewhere
<1>6. ASSUME NEW c \in Clis, Crash(c) PROVE StopInv'
  BY <1>6, CrashStops
<1>7. ASSUME NEW b \in Bots, BotMove(b) PROVE StopInv'
  BY <1>7, BotStops
<1>8. ASSUME NEW k \in Runners, Drift(k) \/ Reinstall(k) PROVE StopInv'
  <2>1. UNCHANGED <<cli, bot, ending>> /\ (disturbed' = disturbed \/ disturbed' = (disturbed \/ Active # {}))
    BY <1>8, Zenon DEF Drift, Reinstall
  <2>2. disturbed' \/ ~disturbed
    BY <2>1
  <2> QED
    BY <2>1, <2>2, StopStays
<1>9. ASSUME UNCHANGED all PROVE StopInv'
  BY <1>9 DEF all, StopInv
<1> QED
  BY <1>1, <1>2, <1>3, <1>4, <1>5, <1>6, <1>7, <1>8, <1>9 DEF Next

LEMMA AlwaysBoth == Spec => [](Inv /\ StopInv)
<1>1. Init => Inv /\ StopInv
  BY FirstInv, FirstStops
<1>2. Inv /\ StopInv /\ [Next]_all => (Inv /\ StopInv)'
  BY NextKeeps, NextStops
<1> QED
  BY <1>1, <1>2, PTL DEF Spec

\* The inductive invariant holds of every behaviour, whatever the commands, the bridges and the scenes.
THEOREM AlwaysInv == Spec => []Inv
<1> QED
  BY AlwaysBoth, PTL

-----------------------------------------------------------------------------
\* A runner is launched by the launch, and by nothing else; whatever the step,
\* a process that is no bridge is left alone.
LEMMA StepSays ==
  ASSUME Inv, StopInv, [Next]_all
  PROVE  Harmless /\ (Unsaid \/ \E c \in Clis : Launch(c))
<1>1. CliTable
  BY DEF Inv, Base
<1>2. bot' = bot => Harmless
  BY DEF Harmless
<1>3. Tame => Harmless /\ Unsaid
  BY <1>2 DEF Tame, Quiet
<1>4. cli' = cli => Unsaid
  BY DEF Unsaid
<1>5. ASSUME NEW c \in Clis, NEW cmd \in scene.lines, Begin(c, cmd) PROVE Harmless /\ Unsaid
  BY <1>3, <1>5, BeginTame
<1>6. ASSUME NEW c \in Clis, FileSteps(c) PROVE Harmless /\ Unsaid
  BY <1>1, <1>3, <1>6, FileTame
<1>7. ASSUME NEW c \in Clis, HomeSteps(c) PROVE Harmless /\ (Unsaid \/ Launch(c))
  BY <1>2, <1>7, HomeTame DEF Quiet
<1>8. ASSUME NEW c \in Clis, SyncStep(c) PROVE Harmless /\ Unsaid
  BY <1>1, <1>8, SyncHarmless, SyncUnsaid
<1>9. ASSUME NEW c \in Clis, Channel(c) PROVE Harmless /\ Unsaid
  BY <1>1, <1>3, <1>9, ChannelTame
<1>10. ASSUME NEW c \in Clis, Crash(c) PROVE Harmless /\ Unsaid
  BY <1>10, CrashHarmless
<1>11. ASSUME NEW b \in Bots, BotMove(b) PROVE Harmless /\ Unsaid
  <2>1. cli' = cli
    BY <1>11, Zenon DEF BotMove, TakeToken, Dies, Arrives, BotMoves
  <2> QED
    BY <1>4, <1>11, <2>1, BotHarmless
<1>12. ASSUME NEW k \in Runners, Drift(k) \/ Reinstall(k) PROVE Harmless /\ Unsaid
  <2>1. cli' = cli /\ bot' = bot
    BY <1>12, Zenon DEF Drift, Reinstall
  <2> QED
    BY <1>2, <1>4, <2>1
<1>13. ASSUME UNCHANGED all PROVE Harmless /\ Unsaid
  <2>1. cli' = cli /\ bot' = bot
    BY <1>13 DEF all
  <2> QED
    BY <1>2, <1>4, <2>1
<1> QED
  BY <1>5, <1>6, <1>7, <1>8, <1>9, <1>10, <1>11, <1>12, <1>13, Zenon DEF Next

LEMMA LaunchOf ==
  ASSUME Inv, NEW c \in Clis, Launch(c), NEW d \in Clis, Launched(d)
  PROVE  d = c /\ Doing(c, "launch")
<1>1. CliTable
  BY DEF Inv, Base
<1>2. Doing(c, "launch") /\ (Ends(c, "launched") \/ Ends(c, "failed"))
  BY Zenon DEF Launch, Quit
<1>3. Only(c)
  BY <1>1, <1>2, EndChanges
<1>4. \A e \in Clis \ {c} : cli'[e] = cli[e]
  BY <1>3, Zenon DEF Only
<1>5. d = c
  BY <1>4 DEF Launched
<1> QED
  BY <1>2, <1>5

LEMMA WiredStep ==
  ASSUME Inv, StopInv, [Next]_all, NEW c \in Clis, Launched(c), ~disturbed, tree.yaml.state = "ok"
  PROVE  LET k == Kind(c)
         IN  \/ tree.home[k].file = "ok" /\ WiredNow(k)
             \/ tree.home[k].file = "torn"
             \/ tree.home[k].file = "absent" /\ k = "openclaw"
<1>1. ~Unsaid
  BY DEF Launched, Unsaid
<1>2. PICK d \in Clis : Launch(d)
  BY <1>1, StepSays
<1>3. Doing(c, "launch")
  BY <1>2, LaunchOf
<1> QED
  BY <1>3, WiredAtLaunch

\* The files, the homes, the settings owed and the processes keep their types:
\* a runtime's state directory is in the runtime, a readable config.yaml in the
\* state directory, a process of the runtime a bridge of a runner that has one.
THEOREM RuntimeTypes == Spec => []TypesOK
<1>1. Inv => TypesOK
  BY DEF Inv, Base, TypesOK, LocalOK
<1> QED
  BY <1>1, AlwaysInv, PTL

\* A setup that runs alone never ends with a home that it finds invalid itself
\* (SetupIsValid; the validation of src/agent_ruler.rs after the setup).
THEOREM SetupAlwaysValid == Spec => []SetupIsValid
<1> QED
  BY ValidFromInv, AlwaysInv, PTL

\* With all quiet and nobody disturbed, config.yaml and policy.yaml say what was
\* stored last (SettingsAreKept; src/config.rs, src/cli/setup.rs).
THEOREM SettingsAlwaysKept == Spec => []SettingsAreKept
<1> QED
  BY KeptFromInv, AlwaysInv, PTL

\* A command that says the bridges are in step leaves only that of the selected
\* runner, and where it restarts it, with the configured token
\* (BridgeFollowsRunner; src/helpers/ui/runtime_api.rs).
THEOREM BridgeAlwaysFollows == Spec => []BridgeFollowsRunner
<1> QED
  BY FollowsFromInv, AlwaysInv, PTL

\* A runner launched by a command that runs alone is wired to the Control Panel
\* of the settings in force (LaunchIsWired; the guards of src/runners/).
THEOREM LaunchAlwaysWired == Spec => LaunchIsWired
<1>1. Inv /\ StopInv /\ [Next]_all =>
        [\A c \in Clis : Launched(c) /\ ~disturbed /\ tree.yaml.state = "ok" =>
            LET k == Kind(c)
            IN  \/ tree.home[k].file = "ok" /\ WiredNow(k)
                \/ tree.home[k].file = "torn"
                \/ tree.home[k].file = "absent" /\ k = "openclaw"]_all
  BY WiredStep
<1> QED
  BY <1>1, AlwaysBoth, PTL DEF Spec, LaunchIsWired

\* Whatever overlaps, dies, or is given a pid again, a process that is no bridge
\* is not signalled for a pid it was given before a command collected what it
\* signals (BystandersLive; runtime_runner_bridge_pids and terminate_pid of
\* src/helpers/ui/runtime_api.rs).
THEOREM BystandersAlwaysLive == Spec => BystandersLive
<1>1. Inv /\ StopInv /\ [Next]_all => [\A b \in Bots : bot[b].of = "other" => bot'[b] = bot[b]]_all
  BY StepSays DEF Harmless
<1> QED
  BY <1>1, AlwaysBoth, PTL DEF Spec, BystandersLive
=============================================================================
