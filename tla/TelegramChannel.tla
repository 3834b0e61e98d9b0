---------------------------- MODULE TelegramChannel ----------------------------
(***************************************************************************)
(* The Telegram bridge (src/bridge/channels/telegram/channel_bridge.py):   *)
(* one process that polls Agent Ruler for approvals and Telegram for       *)
(* updates, announces the ones and answers the others, and hands each      *)
(* message of a thread to that thread's worker, which runs it in the       *)
(* runner.  Its state file has one temporary name for all its threads.     *)
(*                                                                         *)
(* Telegram keeps an update until a poll asks for a later one.  Any call   *)
(* of Telegram or of Agent Ruler may fail, and the process may be stopped  *)
(* or die between any two steps.  Short ids are not drawn twice.           *)
(***************************************************************************)
EXTENDS Naturals, Sequences, FiniteSets

CONSTANTS Approvals, Threads, Workers, Scenes,
    FeedLimit   \* DEFAULT_STATUS_FEED_LIMIT

ASSUME WorkersAssumption == Workers \subseteq Nat \ {0} /\ IsFiniteSet(Workers)
ASSUME FeedLimitAssumption == FeedLimit \in Nat \ {0}

Decisions == {"approve", "deny"}
Updates == [kind : {"talk"}, thread : Threads, stranger : BOOLEAN]
           \cup [kind : {"press"}, of : Approvals, decision : Decisions, stranger : BOOLEAN]

ASSUME ScenesAssumption == \A s \in Scenes : s.script \in Seq(Updates)

VARIABLES
    scene,   \* the updates that come, how often the process starts, what may happen
    server,  \* Telegram: updates that came, updates it has forgotten
    ruler,   \* Agent Ruler: approvals, newest first, and the runner's conversation of each thread
    mem,     \* what the process remembers and saves
    keys,    \* session_runner_keys
    lapsed,  \* approvals whose decision_ttl_seconds are over
    main,    \* the main thread
    slot,    \* the registered worker of each thread
    crew,    \* the workers
    disk,    \* the state file and its temporary file
    saving,  \* where each thread of the process is in saving
    hist     \* what was announced, taken, run and lost (history)

vars == <<scene, server, ruler, mem, keys, lapsed, main, slot, crew, disk, saving, hist>>

Main == 0
Writers == {Main} \cup Workers
Nobody == 0
NoKey == 0

\* What an absent, empty or unreadable state file is taken for.
Fresh == [last |-> 0, seen |-> {}, pend |-> [a \in Approvals |-> "none"], bound |-> FALSE]

NoSave == [pc |-> "no", at |-> "gone", snap |-> Fresh]
NoTask == [update |-> 0, key |-> NoKey]
Off == [pc |-> "off", events |-> <<>>, next |-> 0, upto |-> 0, task |-> NoTask,
        target |-> Nobody, stopping |-> FALSE]
NoWorker == [pc |-> "none", thread |-> CHOOSE t \in Threads : TRUE, queue |-> <<>>,
             task |-> NoTask, key |-> NoKey]

At(pc) == main.pc = pc
Goto(pc) == main' = [main EXCEPT !.pc = pc]
Script == scene.script
ThreadOf(task) == Script[task.update].thread

----------------------------------------------------------------------------
\* Around the process: updates come, approvals are asked for, decided
\* elsewhere or left until their time in the chat is over.

Arrive ==
    /\ server.arrived < Len(Script)
    /\ LET next == Script[server.arrived + 1]
       IN  next.kind = "press" => next.of \in hist.told
    /\ server' = [server EXCEPT !.arrived = @ + 1]
    /\ UNCHANGED <<scene, ruler, mem, keys, lapsed, main, slot, crew, disk, saving, hist>>

Ask(a) ==
    /\ a \in scene.asks /\ ruler.approval[a] = "absent"
    /\ ruler' = [ruler EXCEPT !.approval[a] = "pending", !.asked = <<a>> \o @]
    /\ UNCHANGED <<scene, server, mem, keys, lapsed, main, slot, crew, disk, saving, hist>>

DecideElsewhere(a) ==
    /\ scene.panel /\ ruler.approval[a] = "pending"
    /\ \E d \in Decisions : ruler' = [ruler EXCEPT !.approval[a] = d]
    /\ UNCHANGED <<scene, server, mem, keys, lapsed, main, slot, crew, disk, saving, hist>>

Lapse(a) ==
    /\ scene.lapses /\ mem.pend[a] # "none" /\ a \notin lapsed
    /\ lapsed' = lapsed \cup {a}
    /\ UNCHANGED <<scene, server, ruler, mem, keys, main, slot, crew, disk, saving, hist>>

----------------------------------------------------------------------------
\* The process starts with what the file says, and ends with or without leave.

Unlapsed(known) ==
    [known EXCEPT !.pend = [a \in Approvals |-> IF a \in lapsed THEN "none" ELSE known.pend[a]]]

\* Fault: a saved approval is taken for announced.
LoadedAsTold(saved) ==
    [Unlapsed(saved) EXCEPT !.pend = [a \in Approvals |-> IF @[a] = "new" THEN "told" ELSE @[a]]]

Loaded(saved) == Unlapsed(saved)

Start ==
    /\ At("off") /\ hist.lives < scene.lives
    /\ mem' = Loaded(disk.state)
    /\ Goto("prune")
    /\ hist' = [hist EXCEPT !.lives = @ + 1]
    /\ UNCHANGED <<scene, server, ruler, keys, lapsed, slot, crew, disk, saving>>

\* Updates that were taken and are not in the file.
Unsaved == {u \in DOMAIN Script : hist.taken[u] > 0 /\ u > disk.state.last}

\* Conversations that the process has learned and Agent Ruler has not.
Untold == {keys[t] : t \in {s \in Threads : keys[s] \notin {NoKey, ruler.key[s]}}}

End(excused) ==
    /\ main' = Off
    /\ mem' = Fresh
    /\ keys' = [t \in Threads |-> NoKey]
    /\ slot' = [t \in Threads |-> Nobody]
    /\ crew' = [w \in Workers |-> NoWorker]
    /\ saving' = [x \in Writers |-> NoSave]
    /\ hist' = [hist EXCEPT !.excused = [u \in DOMAIN Script |->
                    IF u \in excused THEN @[u] + 1 ELSE @[u]], !.lost = @ \cup Untold]
    /\ UNCHANGED <<scene, server, ruler, lapsed, disk>>

Die == scene.mortal /\ ~At("off") /\ End(Unsaved)

----------------------------------------------------------------------------
\* tick: approvals.

Prune ==
    /\ At("prune")
    /\ mem' = Unlapsed(mem)
    /\ Goto("feed")
    /\ UNCHANGED <<scene, server, ruler, keys, lapsed, slot, crew, disk, saving, hist>>

\* The newest of the approvals that wait, as many as the feed is asked for.
Pending(a) == ruler.approval[a] = "pending"
Newest ==
    LET waiting == SelectSeq(ruler.asked, Pending)
    IN  IF Len(waiting) > FeedLimit THEN SubSeq(waiting, 1, FeedLimit) ELSE waiting

MainOnly == UNCHANGED <<scene, server, ruler, mem, keys, lapsed, slot, crew, disk, saving, hist>>

Feed == At("feed") /\ main' = [main EXCEPT !.pc = "announce", !.events = Newest] /\ MainOnly

FeedFails == At("feed") /\ scene.fails /\ Goto("poll") /\ MainOnly

InFeed(a) == At("announce") /\ main.events # <<>> /\ a = Head(main.events)
PassOn == main' = [main EXCEPT !.events = Tail(main.events)]

\* Known already: seen and decided, lapsed, or announced.
Pass(a) ==
    /\ InFeed(a)
    /\ \/ mem.pend[a] = "told"
       \/ mem.pend[a] = "none" /\ a \in mem.seen
    /\ PassOn /\ MainOnly

Register(a) ==
    /\ InFeed(a) /\ mem.pend[a] = "none" /\ a \notin mem.seen
    /\ mem' = [mem EXCEPT !.pend[a] = "new", !.seen = @ \cup {a}]
    /\ lapsed' = lapsed \ {a}
    /\ hist' = [hist EXCEPT !.told = @ \ {a}]
    /\ UNCHANGED <<scene, server, ruler, keys, main, slot, crew, disk, saving>>

\* Delivered to at least one chat that is bound to a thread.
Announce(a) ==
    /\ InFeed(a) /\ mem.pend[a] = "new" /\ mem.bound
    /\ mem' = [mem EXCEPT !.pend[a] = "told"]
    /\ hist' = [hist EXCEPT !.told = @ \cup {a}]
    /\ PassOn
    /\ UNCHANGED <<scene, server, ruler, keys, lapsed, slot, crew, disk, saving>>

\* No chat gets it, or sending raises and the rest of the feed waits too.
AnnounceFails(a) ==
    /\ InFeed(a) /\ mem.pend[a] = "new"
    /\ \/ (scene.fails \/ ~mem.bound) /\ PassOn
       \/ scene.fails /\ main' = [main EXCEPT !.pc = "poll", !.events = <<>>]
    /\ MainOnly

FeedDone == At("announce") /\ main.events = <<>> /\ Goto("poll") /\ MainOnly

----------------------------------------------------------------------------
\* tick: updates.

\* Fault: the last update is asked for again.
OffsetAgain(last) == last

Offset(last) == last + 1

Poll ==
    /\ At("poll")
    /\ LET offset == Offset(mem.last)
           kept   == IF server.forgotten < offset THEN offset - 1 ELSE server.forgotten
       IN  /\ server' = [server EXCEPT !.forgotten = kept]
           /\ main' = [main EXCEPT !.pc = "take", !.next = kept + 1, !.upto = server.arrived]
    /\ UNCHANGED <<scene, ruler, mem, keys, lapsed, slot, crew, disk, saving, hist>>

PollFails == At("poll") /\ scene.fails /\ Goto("save") /\ MainOnly

\* last_update_id moves before the update is looked at.
Take ==
    /\ At("take") /\ main.next <= main.upto
    /\ LET u == main.next
       IN  /\ mem' = [mem EXCEPT !.last = IF u > @ THEN u ELSE @]
           /\ hist' = [hist EXCEPT !.taken[u] = @ + 1]
           /\ main' = [main EXCEPT !.pc = Script[u].kind, !.next = u + 1,
                                     !.task = [NoTask EXCEPT !.update = u]]
    /\ UNCHANGED <<scene, server, ruler, keys, lapsed, slot, crew, disk, saving>>

BatchDone == At("take") /\ main.next > main.upto /\ Goto("save") /\ MainOnly

Update == Script[main.task.update]
NextUpdate(pc) == At(pc) /\ main' = [main EXCEPT !.pc = "take", !.task = NoTask, !.target = Nobody]

\* An update raises: the rest of the batch is asked for again.
Raise ==
    /\ At("press") \/ At("route")
    /\ scene.fails
    /\ main' = [main EXCEPT !.pc = "save", !.task = NoTask]
    /\ MainOnly

\* A button or command of a sender not allowed, with a reference not known
\* (an old short id), or whose answer does not come: a reply, and no more.
Ignored == NextUpdate("press") /\ (Update.stranger \/ scene.fails) /\ MainOnly

Unknown ==
    /\ NextUpdate("press") /\ ~Update.stranger
    /\ mem.pend[Update.of] = "none" \/ hist.lives > 1
    /\ MainOnly

\* Agent Ruler decides; an approval that is decided otherwise stays listed.
Decide ==
    /\ NextUpdate("press") /\ ~Update.stranger /\ mem.pend[Update.of] # "none"
    /\ LET a    == Update.of
           was  == ruler.approval[a]
           here == IF was = "pending" THEN Update.decision ELSE was
       IN  /\ ruler' = [ruler EXCEPT !.approval[a] = here]
           /\ \/ here = Update.decision /\ mem' = [mem EXCEPT !.pend[a] = "none"]
              \/ (here # Update.decision \/ scene.fails) /\ mem' = mem
    /\ UNCHANGED <<scene, server, keys, lapsed, slot, crew, disk, saving, hist>>

\* A message of a sender not allowed: a reply, and no more.
Refuse == NextUpdate("talk") /\ Update.stranger /\ MainOnly

\* A message of a thread: the chat is bound to it, Agent Ruler names its
\* session, and a task waits for the thread's worker.
Bind ==
    /\ At("talk") /\ ~Update.stranger
    /\ mem' = [mem EXCEPT !.bound = TRUE]
    /\ Goto("route")
    /\ UNCHANGED <<scene, server, ruler, keys, lapsed, slot, crew, disk, saving, hist>>

Route ==
    /\ At("route")
    /\ main' = [main EXCEPT !.pc = "enqueue", !.task.key = ruler.key[Update.thread]]
    /\ MainOnly

RouteFails == NextUpdate("route") /\ scene.fails /\ MainOnly

Unemployed == {w \in Workers : crew[w].pc = "none"}
AnyOf(S) == CHOOSE x \in S : TRUE

\* A worker that has a moment ago found its queue empty is still registered.
Enqueue ==
    /\ At("enqueue")
    /\ LET t == Update.thread
       IN  IF slot[t] # Nobody
           THEN main' = [main EXCEPT !.pc = "put", !.target = slot[t]] /\ UNCHANGED <<slot, crew>>
           ELSE LET w == AnyOf(Unemployed)
                IN  /\ Unemployed # {}
                    /\ slot' = [slot EXCEPT ![t] = w]
                    /\ crew' = [crew EXCEPT ![w] = [NoWorker EXCEPT !.pc = "idle", !.thread = t]]
                    /\ main' = [main EXCEPT !.pc = "put", !.target = w]
    /\ UNCHANGED <<scene, server, ruler, mem, keys, lapsed, disk, saving, hist>>

Put ==
    /\ NextUpdate("put")
    /\ LET w == main.target
       IN  crew' = IF crew[w].pc = "none" THEN crew
                   ELSE [crew EXCEPT ![w].queue = Append(@, main.task)]
    /\ UNCHANGED <<scene, server, ruler, mem, keys, lapsed, slot, disk, saving, hist>>

----------------------------------------------------------------------------
\* save_state, by the main thread or a worker: the temporary file is opened
\* and so emptied, written, and renamed; the files that are open go along.

Content(x) == CASE saving[x].at = "tmp" -> disk.tmp
                [] saving[x].at = "state" -> disk.state
                [] OTHER -> Fresh

Open(x) ==
    /\ saving[x].pc = "no"
    /\ disk' = [disk EXCEPT !.tmp = Fresh, !.made = TRUE]
    /\ saving' = [saving EXCEPT ![x] = [pc |-> "write", at |-> "tmp", snap |-> mem]]

\* What another thread has written there meanwhile may stick out at the end.
Write(x) ==
    /\ saving[x].pc = "write"
    /\ \E text \in IF Content(x) = Fresh THEN {saving[x].snap} ELSE {saving[x].snap, Fresh} :
          disk' = CASE saving[x].at = "tmp" -> [disk EXCEPT !.tmp = text]
                    [] saving[x].at = "state" -> [disk EXCEPT !.state = text]
                    [] OTHER -> disk
    /\ saving' = [saving EXCEPT ![x].pc = "rename", ![x].at = "gone", ![x].snap = Fresh]

Moved(x) == CASE saving[x].at = "tmp" -> "state" [] OTHER -> "gone"

Rename(x) ==
    /\ saving[x].pc = "rename"
    /\ IF disk.made
       THEN /\ disk' = [state |-> disk.tmp, tmp |-> Fresh, made |-> FALSE]
            /\ saving' = [y \in Writers |-> [saving[y] EXCEPT !.at = Moved(y),
                                !.pc = IF y = x THEN "saved" ELSE @]]
       ELSE saving' = [saving EXCEPT ![x].pc = "failed"] /\ UNCHANGED disk

Saves(x) == \/ Open(x) \/ Write(x) \/ Rename(x)

\* tick always ends in saving, whatever came before.
MainSaves ==
    /\ At("save") /\ Saves(Main)
    /\ hist' = [hist EXCEPT !.meddled = @ /\ saving[Main].pc # "no"]
    /\ UNCHANGED <<scene, server, ruler, mem, keys, lapsed, main, slot, crew>>

Ticked ==
    /\ At("save") /\ saving[Main].pc \in {"saved", "failed"} /\ ~main.stopping
    /\ main' = [main EXCEPT !.pc = "prune", !.next = 0, !.upto = 0]
    /\ saving' = [saving EXCEPT ![Main] = NoSave]
    /\ UNCHANGED <<scene, server, ruler, mem, keys, lapsed, slot, crew, disk, hist>>

\* A signal: the loop ends after the tick, with another save, and the
\* workers end with the process.
StopAsked ==
    /\ scene.stops /\ At("save") /\ saving[Main].pc \in {"saved", "failed"} /\ ~main.stopping
    /\ main' = [main EXCEPT !.stopping = TRUE]
    /\ saving' = [saving EXCEPT ![Main] = NoSave]
    /\ UNCHANGED <<scene, server, ruler, mem, keys, lapsed, slot, crew, disk, hist>>

Stop ==
    /\ At("save") /\ saving[Main].pc \in {"saved", "failed"} /\ main.stopping
    /\ End(IF hist.meddled THEN Unsaved ELSE {})

----------------------------------------------------------------------------
\* A worker: its queue, the runner, the conversation it learns, the reply.

AsideMain == UNCHANGED <<scene, server, mem, lapsed, main>>

\* Fault: what this process has learned is not looked up.
KeyOfTask(task) == task.key

KeyFor(task) == IF task.key # NoKey THEN task.key ELSE keys[ThreadOf(task)]

Work(w) ==
    /\ crew[w].pc = "idle" /\ crew[w].queue # <<>>
    /\ LET task == Head(crew[w].queue)
       IN  crew' = [crew EXCEPT ![w].pc = "run", ![w].queue = Tail(@), ![w].task = task,
                                ![w].key = KeyFor(task)]
    /\ AsideMain /\ UNCHANGED <<ruler, keys, slot, disk, saving, hist>>

\* The runner goes on with the conversation it is given or begins one.
Began(c) == IF c.key = NoKey THEN ruler.convs + 1 ELSE c.key
RunOf(c) == [life |-> hist.lives, update |-> c.task.update, conv |-> Began(c)]

\* Its session is learned from its stream, or its answer when it exits with
\* zero, even if that says that it failed.
Run(w) ==
    /\ crew[w].pc = "run"
    /\ LET c    == crew[w]
           conv == Began(c)
           learned == conv # c.task.key
       IN  /\ ruler' = [ruler EXCEPT !.convs = IF c.key = NoKey THEN conv ELSE @]
           /\ hist' = [hist EXCEPT !.ran[c.thread] = Append(@, RunOf(c))]
           /\ keys' = IF learned THEN [keys EXCEPT ![c.thread] = conv] ELSE keys
           /\ crew' = [crew EXCEPT ![w].pc = IF learned THEN "tell" ELSE "reply", ![w].key = conv]
    /\ AsideMain /\ UNCHANGED <<slot, disk, saving>>

\* It is not started, or exits with another code before anything is learned:
\* that raises before the answer is looked at, and a conversation it began is
\* lost.
RunFails(w) ==
    /\ crew[w].pc = "run" /\ scene.fails
    /\ \/ UNCHANGED <<ruler, hist>>
       \/ LET c   == crew[w]
              new == c.key = NoKey
          IN  /\ ruler' = [ruler EXCEPT !.convs = IF new THEN Began(c) ELSE @]
              /\ hist' = [hist EXCEPT !.ran[c.thread] = Append(@, RunOf(c)),
                                      !.lost = IF new THEN @ \cup {Began(c)} ELSE @]
    /\ crew' = [crew EXCEPT ![w].pc = "reply"]
    /\ AsideMain /\ UNCHANGED <<keys, slot, disk, saving>>

Tell(w) ==
    /\ crew[w].pc = "tell"
    /\ ruler' = [ruler EXCEPT !.key[crew[w].thread] = crew[w].key]
    /\ crew' = [crew EXCEPT ![w].pc = "save"]
    /\ AsideMain /\ UNCHANGED <<keys, slot, disk, saving, hist>>

TellFails(w) ==
    /\ crew[w].pc = "tell" /\ scene.fails
    /\ crew' = [crew EXCEPT ![w].pc = "reply"]
    /\ AsideMain /\ UNCHANGED <<ruler, keys, slot, disk, saving, hist>>

WorkerSaves(w) ==
    /\ crew[w].pc = "save" /\ Saves(w)
    /\ hist' = [hist EXCEPT !.meddled = TRUE]
    /\ AsideMain /\ UNCHANGED <<ruler, keys, slot, crew>>

Saved(w) ==
    /\ saving[w].pc \in {"saved", "failed"}
    /\ crew' = [crew EXCEPT ![w].pc = "reply"]
    /\ saving' = [saving EXCEPT ![w] = NoSave]
    /\ AsideMain /\ UNCHANGED <<ruler, keys, slot, disk, hist>>

\* The worker ends and what is in its queue with it.
Leave(w) ==
    /\ slot' = [slot EXCEPT ![crew[w].thread] = IF @ = w THEN Nobody ELSE @]
    /\ crew' = [crew EXCEPT ![w] = NoWorker]
    /\ saving' = [saving EXCEPT ![w] = NoSave]
    /\ AsideMain /\ UNCHANGED <<ruler, keys, disk, hist>>

\* No file to rename: another thread has done it.
DieSaving(w) == saving[w].pc = "failed" /\ Leave(w)

Reply(w) ==
    /\ crew[w].pc = "reply"
    /\ crew' = [crew EXCEPT ![w].pc = "idle", ![w].task = NoTask, ![w].key = NoKey]
    /\ AsideMain /\ UNCHANGED <<ruler, keys, slot, disk, saving, hist>>

\* Five minutes without a task; the queue is unregistered a moment later.
TimeOut(w) ==
    /\ scene.tires /\ crew[w].pc = "idle" /\ crew[w].queue = <<>>
    /\ crew' = [crew EXCEPT ![w].pc = "leave"]
    /\ AsideMain /\ UNCHANGED <<ruler, keys, slot, disk, saving, hist>>

GoHome(w) == crew[w].pc = "leave" /\ Leave(w)

----------------------------------------------------------------------------
Init ==
    /\ scene \in Scenes
    /\ server = [arrived |-> 0, forgotten |-> 0]
    /\ ruler = [approval |-> [a \in Approvals |-> "absent"], asked |-> <<>>,
                key |-> [t \in Threads |-> NoKey], convs |-> 0]
    /\ mem = Fresh
    /\ keys = [t \in Threads |-> NoKey]
    /\ lapsed = {}
    /\ main = Off
    /\ slot = [t \in Threads |-> Nobody]
    /\ crew = [w \in Workers |-> NoWorker]
    /\ disk = [state |-> Fresh, tmp |-> Fresh, made |-> FALSE]
    /\ saving = [x \in Writers |-> NoSave]
    /\ hist = [lives |-> 0, told |-> {}, meddled |-> FALSE,
               taken |-> [u \in DOMAIN Script |-> 0], excused |-> [u \in DOMAIN Script |-> 0],
               ran |-> [t \in Threads |-> <<>>], lost |-> {}]

MainNext ==
    \/ Prune \/ Feed \/ FeedFails \/ FeedDone
    \/ \E a \in Approvals : Pass(a) \/ Register(a) \/ Announce(a) \/ AnnounceFails(a)
    \/ Poll \/ PollFails \/ Take \/ BatchDone \/ Raise \/ Ignored \/ Unknown \/ Decide
    \/ Refuse \/ Bind \/ Route \/ RouteFails \/ Enqueue \/ Put \/ MainSaves \/ Ticked \/ Stop

WorkerNext(w) ==
    \/ Work(w) \/ Run(w) \/ RunFails(w) \/ Tell(w) \/ TellFails(w)
    \/ WorkerSaves(w) \/ Saved(w) \/ DieSaving(w) \/ Reply(w) \/ TimeOut(w) \/ GoHome(w)

Next ==
    \/ Arrive
    \/ \E a \in Approvals : Ask(a) \/ DecideElsewhere(a) \/ Lapse(a)
    \/ Start \/ Die \/ StopAsked
    \/ MainNext
    \/ \E w \in Workers : WorkerNext(w)

\* The main thread goes on, and calls that are made again and again succeed
\* sooner or later.
Fairness ==
    /\ WF_vars(MainNext)
    /\ SF_vars(Feed)
    /\ \A a \in Approvals : SF_vars(Announce(a))

Spec == Init /\ [][Next]_vars /\ Fairness

----------------------------------------------------------------------------
\* Telegram forgets no update that the bridge has not taken, and none is
\* taken twice, unless the process ended when the state file did not have
\* it: by dying, or stopped while a worker meddled with the file
\* (_poll_updates, save_state).
HandledOnce ==
    \A u \in DOMAIN Script :
        /\ u <= server.forgotten => hist.taken[u] > 0
        /\ hist.taken[u] <= 1 + hist.excused[u]

Busy(w) == crew[w].pc \in {"run", "tell", "save", "reply"}

\* The messages of a thread are run one at a time, in a life of the bridge in
\* their order, and over all its lives as one conversation of the runner:
\* another is begun only if the runner failed before the bridge had learned
\* of the one before, or the bridge ended before Agent Ruler was told of it
\* (_enqueue_conversation_task, _resolve_runner_session_key).
OneConversation ==
    /\ \A v, w \in Workers : v # w /\ Busy(v) /\ Busy(w) => crew[v].thread # crew[w].thread
    /\ \A t \in Threads : \A i, j \in DOMAIN hist.ran[t] : i < j =>
           LET r == hist.ran[t][i]
               s == hist.ran[t][j]
           IN  /\ r.life = s.life => r.update < s.update
               /\ r.conv # s.conv => r.conv \in hist.lost

\* As long as the bridge runs with a chat bound, an approval that waits, with
\* fewer newer ones waiting than the feed has room for, gets an announcement
\* whose short id stays good, unless its time is over, whatever failed or was
\* lost before (_poll_pending_approvals, api_status_feed, StateStore).
Reachable(a) == ~At("off") /\ mem.bound /\ \E i \in DOMAIN Newest : Newest[i] = a
WaitersAreAnnounced ==
    \A a \in Approvals :
        <>[]Reachable(a) => <>[](a \in lapsed \/ (a \in hist.told /\ mem.pend[a] = "told"))
=============================================================================
