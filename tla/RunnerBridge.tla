----------------------------- MODULE RunnerBridge -----------------------------
(***************************************************************************)
(* Keeping the Telegram bridges in step with the runner that was set up    *)
(* (src/helpers/ui/runtime_api.rs).  A bridge is a process of its own; of  *)
(* two with the same bot token, a lock lets only one poll.  Its pid is     *)
(* kept in a file, and a pid is given away again when its process is gone, *)
(* so that the command line is asked what a pid is before it is signalled, *)
(* though not right before: the pids to signal are collected first, and    *)
(* ending one may take 3 s.                                                *)
(***************************************************************************)
EXTENDS RuntimeFiles

\* of: the runner it bridges; a process that is no bridge is "other", or
\* "latecomer" (see Arrives);
\* ours: is it of this runtime?
NoBot == [of |-> NoRunner, ours |-> FALSE, state |-> "gone", token |-> 0]
Alive(b) == bot[b].state \in {"starting", "polling"}
OneOf(b, r) == Alive(b) /\ bot[b].of = r
Living(r) == {b \in Bots : OneOf(b, r) /\ bot[b].ours}

SyncSteps == <<"select", "stop_others", "force", "gate", "running", "start", "settle", "synced">>
AfterSync(c) == LET n == CHOOSE n \in DOMAIN cli[c].todo : cli[c].todo[n] = "synced"
                IN  SubSeq(cli[c].todo, n + 1, Len(cli[c].todo))
Selected(c) == IF cli[c].cfg.runner \in Bridged THEN cli[c].cfg.runner ELSE NoRunner
\* Setup restarts the bridge, an update of the settings the one it is about.
Forced(c) == cli[c].cmd[1] = "setup" \/ (cli[c].cmd[1] = "update" /\ cli[c].cmd[2] = Selected(c))

BotOthers == <<installed, begun, disturbed, scene, owed>>
Bot(c, t, todo, changes) == tree' = t /\ Step(c, todo, changes) /\ UNCHANGED BotOthers
Unchanged(c, todo) == Go(c, todo, [x \in {} |-> 0])
Kill(dead) == bot' = [b \in Bots |-> IF b \in dead THEN NoBot ELSE bot[b]]

Forget(t, rs) == [t EXCEPT !.pidfile = [r \in Bridged |-> IF r \in rs THEN 0 ELSE @[r]]]

\* Fault: whoever has the recorded pid is taken for the bridge.
RecordedUnchecked(r) == {b \in Bots : b = tree.pidfile[r] /\ Alive(b)}
Recorded(r) == {b \in Bots : b = tree.pidfile[r] /\ OneOf(b, r)}

-----------------------------------------------------------------------------
\* Bridges are ended runner by runner: the pids are collected, the recorded one
\* and every other one of the runtime; then each is sent TERM, and KILL if a
\* process, whichever, has it 2 s later; then the pid file goes.  left: runners
\* yet to be seen to; of: the one under way; missed: is one of its left alive?
AtRest == [step |-> "rest", left |-> {}, of |-> NoRunner, doomed |-> {}, missed |-> FALSE]
Ending(c, step) == ending[c].step = step
Turn(c, e) == ending' = [ending EXCEPT ![c] = e]
Within == UNCHANGED <<tree, cli, BotOthers>>

First(rs) == IF "claudecode" \in rs THEN "claudecode" ELSE "opencode"
Collect(c, rs) ==
    LET left == IF Ending(c, "rest") THEN rs ELSE ending[c].left
        r == First(left)
    IN  /\ ending[c].step \in {"rest", "next"} /\ left # {}
        /\ Turn(c, [step |-> "term", left |-> left \ {r}, of |-> r,
                    doomed |-> Recorded(r) \cup Living(r), missed |-> FALSE])
        /\ bot' = bot /\ Within

FirstDoomed(c, p) == p \in ending[c].doomed /\ \A q \in ending[c].doomed : p <= q
Terminate(c) ==
    /\ Ending(c, "term")
    /\ \E p \in ending[c].doomed : FirstDoomed(c, p) /\ (bot' = bot \/ (Alive(p) /\ Kill({p})))
    /\ Turn(c, [ending[c] EXCEPT !.step = "kill"]) /\ Within

Signalled(e, p, survives) ==
    [e EXCEPT !.step = "term", !.doomed = @ \ {p}, !.missed = @ \/ survives]
KillAnyway(c) ==
    /\ Ending(c, "kill")
    /\ \E p \in ending[c].doomed :
        /\ FirstDoomed(c, p)
        /\ \E survives \in {FALSE, Alive(p)} :
            /\ IF Alive(p) /\ ~survives THEN Kill({p}) ELSE bot' = bot
            /\ Turn(c, Signalled(ending[c], p, survives))
    /\ Within

\* A failure is only reported, and leaves the sync where it is; before the second
\* start it is ignored.
Fails(c) == ending[c].missed /\ ~Doing(c, "settle")
SeenTo(c, todo) ==
    LET e == ending[c]
        t == Forget(tree, {e.of})
    IN  /\ Ending(c, "term") /\ e.doomed = {} /\ bot' = bot
        /\ IF Fails(c) THEN Bot(c, t, AfterSync(c), [stage |-> "unsynced"]) /\ Turn(c, AtRest)
           ELSE IF e.left = {} THEN Bot(c, t, todo, [x \in {} |-> 0]) /\ Turn(c, AtRest)
           ELSE /\ tree' = t /\ UNCHANGED <<cli, BotOthers>>
                /\ Turn(c, [AtRest EXCEPT !.step = "next", !.left = e.left])

Stop(c, rs, todo) == Collect(c, rs) \/ Terminate(c) \/ KillAnyway(c) \/ SeenTo(c, todo)

-----------------------------------------------------------------------------
\* The token of a bridge, 0 if it is off or has none.  A token has a form, and
\* what has not is refused by an update.
NotAToken == 9
IsToken(token) == token # NotAToken
Enabled(r) == tree.channel[r] # 0

\* The configuration of the selected bridge is made, if there is none, and read
\* before any is stopped.
Select(c) ==
    /\ Doing(c, "select")
    /\ IF Selected(c) = NoRunner THEN Pass(c)
       ELSE /\ tree' = [tree EXCEPT !.made = TRUE]
            /\ Step(c, Rest(c), [stage |-> IF Enabled(Selected(c)) THEN "on" ELSE "off"])
            /\ UNCHANGED <<owed, Others>>

\* Fault: only one of the bridges that are not selected is looked after.
OneNotSelected(c) == {First(Bridged \ {Selected(c)})}
NotSelected(c) == Bridged \ {Selected(c)}

StopOthers(c) ==
    /\ Doing(c, "stop_others")
    /\ LET todo == IF Selected(c) = NoRunner THEN <<"synced">> \o AfterSync(c) ELSE Rest(c)
       IN  Stop(c, NotSelected(c), todo)
ForceBridge(c) ==
    /\ Doing(c, "force")
    /\ IF Forced(c) THEN Stop(c, {Selected(c)}, Rest(c)) ELSE Unchanged(c, Rest(c))

\* A bridge that is off, or has no token, is stopped.
Gate(c) ==
    /\ Doing(c, "gate")
    /\ IF cli[c].stage # "off" THEN Unchanged(c, Rest(c))
       ELSE Stop(c, {Selected(c)}, <<"synced">> \o AfterSync(c))

\* One that is recorded and running is left alone.
Running(c) ==
    /\ Doing(c, "running")
    /\ Unchanged(c, IF ~Forced(c) /\ Recorded(Selected(c)) # {}
                    THEN <<"synced">> \o AfterSync(c) ELSE Rest(c))

Start(c, b, todo) ==
    LET r == Selected(c)
    IN  /\ bot[b].state = "gone" /\ \A d \in Clis : cli[d].bot # b
        /\ bot' = [bot EXCEPT ![b] = [of |-> r, ours |-> TRUE, state |-> "starting",
                                      token |-> tree.channel[r]]]
        /\ Bot(c, [tree EXCEPT !.made = TRUE, !.pidfile[r] = b], todo, [bot |-> b])
        /\ UNCHANGED ending

\* Of the pids nobody recorded or is about to signal, all alike, the first free
\* one is given away.
Known(b) == (\E r \in Bridged : tree.pidfile[r] = b) \/ (\E c \in Clis : b \in ending[c].doomed)
NewPid(b) == \/ Known(b)
             \/ \A d \in Bots : bot[d].state = "gone" /\ ~Known(d) => b <= d

StartBridge(c) == Doing(c, "start") /\ \E b \in Bots : NewPid(b) /\ Start(c, b, Rest(c))

\* After 300 ms it is running, or has ended.  With the complaint that another
\* bridge owns its token among the last lines of its log, its own or one from
\* before, the owner named there, if it is a bridge of the runtime, and all
\* bridges of the runtime are ended, or not, and it is started once more.
Owners == {b \in Bots : Alive(b) /\ bot[b].ours}
Evicting(owner) == [AtRest EXCEPT !.step = "term", !.left = Bridged, !.doomed = owner]
Verdict(c) ==
    LET b == cli[c].bot
        r == Selected(c)
        first == cli[c].stage # "again"
        forgotten == Forget(tree, {r})
    IN  \/ Alive(b) /\ bot' = bot /\ Bot(c, tree, Rest(c), [bot |-> 0]) /\ UNCHANGED ending
        \/ /\ ~Alive(b) /\ Kill({b})
           /\ ~(first /\ tree.log[r] /\ bot[b].state = "refused")
           /\ Bot(c, forgotten, AfterSync(c), [bot |-> 0, stage |-> "unsynced"]) /\ UNCHANGED ending
        \/ /\ ~Alive(b) /\ Kill({b})
           /\ first /\ tree.log[r]
           /\ Bot(c, forgotten, cli[c].todo, [bot |-> 0, stage |-> "again"])
           /\ \E owner \in {{}} \cup {{d} : d \in Owners} : Turn(c, Evicting(owner))

Settle(c) ==
    /\ Doing(c, "settle")
    /\ IF Ending(c, "rest") THEN Verdict(c) ELSE Stop(c, Bridged, <<"start">> \o cli[c].todo)

Synced(c) == Doing(c, "synced") /\ Go(c, Rest(c), [stage |-> "synced"])

SyncStep(c) ==
    \/ Select(c) \/ StopOthers(c) \/ ForceBridge(c) \/ Gate(c) \/ Running(c) \/ StartBridge(c) \/ Settle(c)
    \/ Synced(c)

-----------------------------------------------------------------------------
\* The bridges by themselves: the lock on the token, and their end.
BotMoves == UNCHANGED <<cli, ending, installed, begun, owed, disturbed, scene>>
TakeToken(b) ==
    /\ bot[b].state = "starting" /\ bot[b].of \in Bridged
    /\ LET taken == \E d \in Bots : bot[d].state = "polling" /\ bot[d].token = bot[b].token
       IN  /\ bot' = [bot EXCEPT ![b] = IF ~taken THEN [@ EXCEPT !.state = "polling"]
                                        ELSE IF \E c \in Clis : cli[c].bot = b
                                        THEN [@ EXCEPT !.state = "refused"] ELSE NoBot]
           /\ tree' = [tree EXCEPT !.log[bot[b].of] = @ \/ (taken /\ bot[b].ours)]
    /\ BotMoves
Dies(b) ==
    /\ bot[b].of \in scene.mortal /\ Alive(b)
    /\ bot' = [bot EXCEPT ![b] = NoBot]
    /\ BotMoves /\ UNCHANGED tree
\* Some other process has a pid that was a bridge's: a latecomer, if a command is
\* about to signal that pid already.
Strangers == {"other", "latecomer"}
Arrives(b) ==
    /\ "other" \in scene.arrivals /\ bot[b].state = "gone" /\ Known(b) /\ \A c \in Clis : cli[c].bot # b
    /\ \A d \in Bots : bot[d].of \notin Strangers
    /\ LET late == \E c \in Clis : b \in ending[c].doomed
       IN  bot' = [bot EXCEPT ![b] = [NoBot EXCEPT !.of = IF late THEN "latecomer" ELSE "other",
                                                   !.state = "polling"]]
    /\ BotMoves /\ UNCHANGED tree
BotMove(b) == TakeToken(b) \/ Dies(b) \/ Arrives(b)
=============================================================================
