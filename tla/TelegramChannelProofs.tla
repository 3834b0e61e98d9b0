------------------------ MODULE TelegramChannelProofs -------------------------
(***************************************************************************)
(* That every update is handled, and once, for any scripts, threads and    *)
(* workers, whatever fails and however often the bridge stops and dies;    *)
(* and that the messages of a thread are answered in one conversation:     *)
(* whoever runs the thread's agent does it in the conversation the thread  *)
(* was given first, from when that is learnt (ConvInv).                    *)
(***************************************************************************)
EXTENDS TelegramChannel, TLAPS

Snaps == [last : Nat, seen : SUBSET Approvals,
          pend : [Approvals -> {"none", "new", "told"}], bound : BOOLEAN]
Disks == [state : Snaps, tmp : Snaps, made : BOOLEAN]
Savings == [pc : {"no", "write", "rename", "saved", "failed"}, at : {"gone", "tmp", "state"},
            snap : Snaps]
Counts == [DOMAIN Script -> Nat]

\* The types the argument needs; of the rest the fields.
Shape ==
    /\ scene \in Scenes
    /\ server \in [arrived : 0 .. Len(Script), forgotten : Nat]
    /\ mem \in Snaps
    /\ disk \in Disks
    /\ saving \in [Writers -> Savings]
    /\ DOMAIN main = DOMAIN Off /\ main.next \in Nat /\ main.upto \in 0 .. Len(Script)
    /\ main.stopping \in BOOLEAN
    /\ DOMAIN hist = {"lives", "told", "meddled", "taken", "excused", "ran", "lost"}
    /\ hist.meddled \in BOOLEAN /\ hist.taken \in Counts /\ hist.excused \in Counts

\* Whatever says that updates up to n are done with is right.
Covered(n) == \A u \in DOMAIN Script : u <= n => hist.taken[u] > 0
Trusted ==
    /\ Covered(server.forgotten) /\ Covered(mem.last)
    /\ Covered(disk.state.last) /\ Covered(disk.tmp.last)
    /\ \A x \in Writers : Covered(saving[x].snap.last)

\* In a batch, what is before the next update was taken, what is after it not
\* in this life.
InBatch == main.pc \in {"take", "press", "talk", "route", "enqueue", "put"}
Batched == InBatch => main.next > mem.last /\ \A u \in DOMAIN Script : u < main.next => hist.taken[u] > 0

\* What is later than the process, or the file if there is none, remembers,
\* was taken only in lives that ended without saving it.
Excused(u) == hist.taken[u] <= hist.excused[u]
Remembered == IF At("off") THEN disk.state.last ELSE mem.last
Counted ==
    /\ \A u \in DOMAIN Script : hist.taken[u] <= 1 + hist.excused[u]
    /\ \A u \in DOMAIN Script : u > Remembered => Excused(u)

\* Where no worker meddles, the main thread's save is what it remembers.
OwnSave ==
    /\ ~At("save") => saving[Main].pc = "no"
    /\ ~hist.meddled =>
        /\ saving[Main].pc = "write" =>
              saving[Main].at = "tmp" /\ saving[Main].snap.last = mem.last
              /\ disk.made /\ disk.tmp = Fresh
        /\ saving[Main].pc = "rename" => disk.made /\ disk.tmp.last = mem.last
        /\ saving[Main].pc = "saved" => disk.state.last = mem.last
        /\ saving[Main].pc # "failed"

\* Without a process there is nobody to work or save.
Dormant == At("off") => \A w \in Workers : crew[w].pc = "none" /\ saving[w].pc = "no"

ChannelInv == Shape /\ Trusted /\ Batched /\ Counted /\ OwnSave /\ Dormant

LEMMA ScriptFacts == ASSUME scene \in Scenes
                     PROVE  /\ Len(Script) \in Nat /\ DOMAIN Script = 1 .. Len(Script)
                            /\ \A u \in DOMAIN Script : Script[u].kind \in {"talk", "press"}
<1>1. Script \in Seq(Updates)
  BY ScenesAssumption DEF Script
<1>2. Len(Script) \in Nat /\ DOMAIN Script = 1 .. Len(Script)
  BY <1>1
<1>3. ASSUME NEW u \in DOMAIN Script PROVE Script[u].kind \in {"talk", "press"}
  <2>1. Script[u] \in Updates
    BY <1>1, <1>2
  <2> QED BY <2>1 DEF Updates
<1> QED BY <1>2, <1>3

LEMMA FreshTyped == Fresh \in Snaps /\ Fresh.last = 0 /\ NoSave \in Savings
                    /\ NoSave.snap.last = 0 /\ NoSave.pc = "no"
BY DEF Fresh, Snaps, NoSave, Savings

LEMMA MainIsWriter == Main \in Writers /\ Main \notin Workers /\ Workers \subseteq Writers
BY WorkersAssumption DEF Main, Writers

LEMMA InitInv == Init => ChannelInv
<1> SUFFICES ASSUME Init PROVE ChannelInv
  OBVIOUS
<1> USE DEF Init
<1>1. Len(Script) \in Nat /\ DOMAIN Script = 1 .. Len(Script)
  BY ScriptFacts
<1>2. DOMAIN main = DOMAIN Off /\ main.next = 0 /\ main.upto = 0 /\ main.stopping = FALSE
      /\ main.pc = "off"
  BY DEF Off
<1>3. DOMAIN hist = {"lives", "told", "meddled", "taken", "excused", "ran", "lost"}
      /\ hist.meddled = FALSE /\ hist.taken = [u \in DOMAIN Script |-> 0]
      /\ hist.excused = [u \in DOMAIN Script |-> 0]
  OBVIOUS
<1>4. Shape
  <2>1. server \in [arrived : 0 .. Len(Script), forgotten : Nat] /\ mem \in Snaps
    BY <1>1, FreshTyped
  <2>2. disk \in Disks /\ saving \in [Writers -> Savings]
    BY FreshTyped DEF Disks
  <2>3. hist.taken \in Counts /\ hist.excused \in Counts
    BY <1>3 DEF Counts
  <2> QED BY <1>1, <1>2, <1>3, <2>1, <2>2, <2>3 DEF Shape
<1>5. Trusted
  BY <1>1, <1>3, FreshTyped DEF Trusted, Covered
<1>6. Batched /\ Counted
  BY <1>1, <1>2, <1>3 DEF Batched, InBatch, Counted, Excused, At
<1>7. OwnSave
  BY <1>2, FreshTyped, MainIsWriter DEF OwnSave, At
<1>8. Dormant
  BY MainIsWriter, FreshTyped DEF Dormant, NoWorker
<1> QED BY <1>4, <1>5, <1>6, <1>7, <1>8 DEF ChannelInv

\* Steps that leave the records alone: only where the main thread is changes,
\* not into a save or out of it, nor out of a batch's bounds.
Records == <<scene, server, mem, disk, saving, hist>>

LEMMA RecordsStep ==
    ASSUME ChannelInv, UNCHANGED Records,
           DOMAIN main' = DOMAIN main, main'.next = main.next, main'.upto = main.upto,
           main'.stopping = main.stopping,
           InBatch' => InBatch, (main.pc = "off") <=> (main'.pc = "off"),
           main.pc = "save" => main'.pc = "save", UNCHANGED crew \/ main.pc # "off"
    PROVE  ChannelInv'
<1> USE DEF Records
<1>1. Shape'
  BY DEF ChannelInv, Shape, Script, Counts
<1>2. Trusted'
  BY DEF ChannelInv, Trusted, Covered, Script
<1>3. Batched'
  BY DEF ChannelInv, Batched, Script
<1>4. Counted'
  BY DEF ChannelInv, Counted, Excused, Remembered, At, Script
<1>5. OwnSave'
  BY DEF ChannelInv, OwnSave, At
<1>6. Dormant'
  BY DEF ChannelInv, Dormant, At
<1> QED BY <1>1, <1>2, <1>3, <1>4, <1>5, <1>6 DEF ChannelInv

\* The steps of the environment, of the approvals and of the answers, and
\* all steps of the workers but for their saving.
LEMMA QuietSteps ==
    ASSUME ChannelInv,
           \/ \E a \in Approvals : Ask(a) \/ DecideElsewhere(a) \/ Lapse(a) \/ Pass(a) \/ AnnounceFails(a)
           \/ Feed \/ FeedFails \/ FeedDone \/ PollFails \/ BatchDone \/ Raise
           \/ Ignored \/ Unknown \/ Refuse \/ Route \/ RouteFails \/ Enqueue \/ Put
    PROVE  ChannelInv'
<1> USE RecordsStep DEF Records, InBatch, At
<1>1. DOMAIN main = {"pc", "events", "next", "upto", "task", "target", "stopping"}
  BY DEF ChannelInv, Shape, Off
<1>2. ASSUME NEW a \in Approvals, Ask(a) \/ DecideElsewhere(a) \/ Lapse(a) PROVE ChannelInv'
  BY <1>2 DEF Ask, DecideElsewhere, Lapse
<1>3. ASSUME NEW a \in Approvals, Pass(a) \/ AnnounceFails(a) PROVE ChannelInv'
  <2>1. At("announce") /\ MainOnly
    BY <1>3 DEF Pass, AnnounceFails, InFeed
  <2>2. PassOn \/ main' = [main EXCEPT !.pc = "poll", !.events = <<>>]
    BY <1>3 DEF Pass, AnnounceFails
  <2>3. CASE PassOn
    BY <1>1, <2>1, <2>3 DEF PassOn, MainOnly
  <2>4. CASE main' = [main EXCEPT !.pc = "poll", !.events = <<>>]
    BY <1>1, <2>1, <2>4 DEF MainOnly
  <2> QED BY <2>2, <2>3, <2>4
<1>4. ASSUME Feed PROVE ChannelInv'
  BY <1>1, <1>4 DEF Feed, MainOnly
<1>5. ASSUME FeedFails \/ FeedDone \/ PollFails \/ BatchDone PROVE ChannelInv'
  BY <1>1, <1>5 DEF FeedFails, FeedDone, PollFails, BatchDone, Goto, MainOnly
<1>10. ASSUME Raise PROVE ChannelInv'
  BY <1>1, <1>10 DEF Raise, MainOnly
<1>6. ASSUME Ignored \/ Unknown \/ Refuse \/ RouteFails PROVE ChannelInv'
  <2>1. NextUpdate("press") \/ NextUpdate("talk") \/ NextUpdate("route")
    BY <1>6 DEF Ignored, Unknown, Refuse, RouteFails
  <2>2. MainOnly
    BY <1>6 DEF Ignored, Unknown, Refuse, RouteFails
  <2> QED BY <1>1, <2>1, <2>2 DEF NextUpdate, MainOnly
<1>7. ASSUME Route PROVE ChannelInv'
  BY <1>1, <1>7 DEF Route, MainOnly
<1>8. ASSUME Enqueue PROVE ChannelInv'
  BY <1>1, <1>8 DEF Enqueue
<1>9. ASSUME Put PROVE ChannelInv'
  BY <1>1, <1>9 DEF Put, NextUpdate
<1> QED BY <1>2, <1>3, <1>4, <1>5, <1>6, <1>7, <1>8, <1>9, <1>10

\* Steps that change the memory but not up to where it goes.
LEMMA MemoryStep ==
    ASSUME ChannelInv, UNCHANGED <<scene, server, disk, saving>>,
           mem' \in Snaps, mem'.last = mem.last,
           DOMAIN main' = DOMAIN main, main'.next = main.next, main'.upto = main.upto,
           main'.stopping = main.stopping,
           InBatch' => InBatch, (main.pc = "off") <=> (main'.pc = "off"),
           main.pc \notin {"save", "off"}, main'.pc # "save",
           DOMAIN hist' = DOMAIN hist, hist'.taken = hist.taken, hist'.excused = hist.excused,
           hist'.meddled = hist.meddled
    PROVE  ChannelInv'
<1>1. Shape'
  BY DEF ChannelInv, Shape, Script, Counts
<1>2. Trusted'
  BY DEF ChannelInv, Trusted, Covered, Script
<1>3. Batched'
  BY DEF ChannelInv, Batched, Script
<1>4. Counted'
  BY DEF ChannelInv, Counted, Excused, Remembered, At, Script
<1>5. OwnSave'
  BY DEF ChannelInv, OwnSave, At
<1>6. Dormant'
  BY DEF ChannelInv, Dormant, At
<1> QED BY <1>1, <1>2, <1>3, <1>4, <1>5, <1>6 DEF ChannelInv

LEMMA UnlapsedTyped == ASSUME NEW s \in Snaps
                       PROVE Unlapsed(s) \in Snaps /\ Unlapsed(s).last = s.last
BY DEF Unlapsed, Snaps

LEMMA MemorySteps ==
    ASSUME ChannelInv,
           \/ Prune \/ Decide \/ Bind
           \/ \E a \in Approvals : Register(a) \/ Announce(a)
    PROVE  ChannelInv'
<1> USE MemoryStep DEF InBatch, At
<1>1. DOMAIN main = {"pc", "events", "next", "upto", "task", "target", "stopping"} /\ mem \in Snaps
  BY DEF ChannelInv, Shape, Off
<1>2. DOMAIN hist = {"lives", "told", "meddled", "taken", "excused", "ran", "lost"}
  BY DEF ChannelInv, Shape
<1>3. ASSUME Prune PROVE ChannelInv'
  BY <1>1, <1>3, UnlapsedTyped DEF Prune, Goto
<1>4. ASSUME Bind PROVE ChannelInv'
  <2>1. mem' \in Snaps /\ mem'.last = mem.last
    BY <1>1, <1>4 DEF Bind, Snaps
  <2> QED BY <1>1, <1>4, <2>1 DEF Bind, Goto
<1>5. ASSUME Decide PROVE ChannelInv'
  <2>1. mem' \in Snaps /\ mem'.last = mem.last
    BY <1>1, <1>5 DEF Decide, Snaps
  <2> QED BY <1>1, <1>5, <2>1 DEF Decide, NextUpdate
<1>6. ASSUME NEW a \in Approvals, Register(a) PROVE ChannelInv'
  <2>1. mem' \in Snaps /\ mem'.last = mem.last
    BY <1>1, <1>6 DEF Register, Snaps
  <2> QED BY <1>1, <1>2, <1>6, <2>1 DEF Register, InFeed
<1>7. ASSUME NEW a \in Approvals, Announce(a) PROVE ChannelInv'
  <2>1. mem' \in Snaps /\ mem'.last = mem.last
    BY <1>1, <1>7 DEF Announce, Snaps
  <2> QED BY <1>1, <1>2, <1>7, <2>1 DEF Announce, InFeed, PassOn
<1> QED BY <1>3, <1>4, <1>5, <1>6, <1>7

LEMMA ArriveStep == ASSUME ChannelInv, Arrive PROVE ChannelInv'
<1>1. Len(Script) \in Nat
  BY ScriptFacts DEF ChannelInv, Shape
<1>2. server' \in [arrived : 0 .. Len(Script), forgotten : Nat] /\ server'.forgotten = server.forgotten
  BY <1>1 DEF Arrive, ChannelInv, Shape
<1>3. Shape'
  BY <1>2 DEF Arrive, ChannelInv, Shape, Script, Counts
<1>4. Trusted' /\ Batched'
  BY <1>2 DEF Arrive, ChannelInv, Trusted, Covered, Batched, InBatch, Script
<1>5. Counted' /\ OwnSave'
  BY DEF Arrive, ChannelInv, Counted, Excused, Remembered, OwnSave, At, Script
<1>6. Dormant'
  BY DEF Arrive, ChannelInv, Dormant, At
<1> QED BY <1>3, <1>4, <1>5, <1>6 DEF ChannelInv

\* Telegram is told to forget only what was taken.
LEMMA PollStep == ASSUME ChannelInv, Poll PROVE ChannelInv'
<1>1. /\ DOMAIN main = {"pc", "events", "next", "upto", "task", "target", "stopping"}
      /\ mem.last \in Nat /\ server.forgotten \in Nat
      /\ DOMAIN Script \subseteq Nat
  BY ScriptFacts DEF ChannelInv, Shape, Off, Snaps
<1> DEFINE kept == IF server.forgotten < mem.last + 1 THEN mem.last ELSE server.forgotten
<1>2. /\ server' = [server EXCEPT !.forgotten = kept]
      /\ main' = [main EXCEPT !.pc = "take", !.next = kept + 1, !.upto = server.arrived]
  <2>1. (mem.last + 1) - 1 = mem.last
    BY <1>1
  <2> QED BY <2>1 DEF Poll, Offset
<1>3. kept \in Nat /\ kept >= mem.last /\ Covered(kept)
  BY <1>1 DEF ChannelInv, Trusted
<1> HIDE DEF kept
<1>4. /\ server' \in [arrived : 0 .. Len(Script), forgotten : Nat] /\ server'.forgotten = kept
      /\ main'.pc = "take" /\ main'.next = kept + 1 /\ main'.upto = server.arrived
      /\ main'.stopping = main.stopping /\ DOMAIN main' = DOMAIN main
      /\ server.arrived \in 0 .. Len(Script) /\ main.pc = "poll"
  BY <1>1, <1>2, <1>3 DEF ChannelInv, Shape, Poll, At
<1> HIDE DEF kept
<1>u. UNCHANGED <<scene, mem, disk, saving, hist>>
  BY DEF Poll
<1>5. Shape'
  BY <1>3, <1>4, <1>u DEF ChannelInv, Shape, Script, Counts
<1>6. Trusted'
  BY <1>3, <1>4, <1>u DEF ChannelInv, Trusted, Covered, Script
<1>7. Batched'
  BY <1>1, <1>3, <1>4, <1>u DEF Batched, Covered, Script
<1>8. Counted' /\ OwnSave' /\ Dormant'
  BY <1>4, <1>u DEF ChannelInv, Counted, Excused, Remembered, OwnSave, Dormant, At, Script
<1> QED BY <1>5, <1>6, <1>7, <1>8 DEF ChannelInv

\* What is taken was not taken before in this life.
LEMMA TakeStep == ASSUME ChannelInv, Take PROVE ChannelInv'
<1> DEFINE u == main.next
<1>1. /\ DOMAIN main = {"pc", "events", "next", "upto", "task", "target", "stopping"}
      /\ DOMAIN hist = {"lives", "told", "meddled", "taken", "excused", "ran", "lost"}
      /\ mem.last \in Nat /\ u \in Nat /\ main.upto \in 0 .. Len(Script)
      /\ Len(Script) \in Nat /\ DOMAIN Script = 1 .. Len(Script)
  BY ScriptFacts DEF ChannelInv, Shape, Off, Snaps
<1>2. u > mem.last /\ u <= main.upto /\ main.pc = "take"
  BY DEF Take, At, ChannelInv, Batched, InBatch
<1>3. u \in DOMAIN Script
  BY <1>1, <1>2
<1>4. Script[u].kind \in {"talk", "press"}
  BY <1>3, ScriptFacts DEF ChannelInv, Shape
<1>5. mem' = [mem EXCEPT !.last = u]
  BY <1>2 DEF Take
<1>6. mem' \in Snaps /\ mem'.last = u
  BY <1>1, <1>5 DEF ChannelInv, Shape, Snaps
<1>7. /\ main'.pc \in {"talk", "press"} /\ main'.next = u + 1 /\ main'.upto = main.upto
      /\ main'.stopping = main.stopping /\ DOMAIN main' = DOMAIN main
  BY <1>1, <1>4 DEF Take
<1>8. /\ hist'.taken = [hist.taken EXCEPT ![u] = hist.taken[u] + 1]
      /\ hist'.excused = hist.excused /\ hist'.meddled = hist.meddled /\ DOMAIN hist' = DOMAIN hist
  BY <1>1 DEF Take
<1>u. UNCHANGED <<scene, server, disk, saving>> /\ Script' = Script
  BY DEF Take, Script
<1>c. hist.taken \in [DOMAIN Script -> Nat] /\ hist.excused \in [DOMAIN Script -> Nat]
  BY DEF ChannelInv, Shape, Counts
<1>9. /\ hist'.taken \in [DOMAIN Script -> Nat] /\ hist'.taken[u] = hist.taken[u] + 1
      /\ \A v \in DOMAIN Script : v # u => hist'.taken[v] = hist.taken[v]
  BY <1>3, <1>8, <1>c
<1>10. \A n \in Nat : Covered(n) => Covered(n)'
  BY <1>1, <1>9, <1>c, <1>u DEF Covered
<1>11. \A v \in DOMAIN Script : v < u => hist.taken[v] > 0
  BY <1>2 DEF ChannelInv, Batched, InBatch
<1> HIDE DEF u
<1>12. Shape'
  BY <1>6, <1>7, <1>8, <1>9, <1>c, <1>u, <1>1 DEF ChannelInv, Shape, Counts
<1>13. Trusted'
  <2>1. Covered(mem.last)'
    BY <1>1, <1>6, <1>9, <1>11, <1>c, <1>u DEF Covered
  <2>2. /\ server.forgotten \in Nat /\ disk.state.last \in Nat /\ disk.tmp.last \in Nat
        /\ \A x \in Writers : saving[x].snap.last \in Nat
    BY DEF ChannelInv, Shape, Disks, Savings, Snaps
  <2>3. Covered(server.forgotten)' /\ Covered(disk.state.last)' /\ Covered(disk.tmp.last)'
        /\ \A x \in Writers : Covered(saving[x].snap.last)'
    BY <1>10, <1>9, <1>c, <1>1, <1>u, <2>2 DEF ChannelInv, Trusted, Covered
  <2> QED BY <2>1, <2>3, <1>u DEF Trusted
<1>14. Batched'
  BY <1>1, <1>6, <1>7, <1>9, <1>11, <1>c, <1>u DEF Batched
<1>15. Counted'
  <2>1. \A v \in DOMAIN Script : v > mem.last => hist.taken[v] <= hist.excused[v]
    BY <1>2 DEF ChannelInv, Counted, Excused, Remembered, At
  <2>2. \A v \in DOMAIN Script : hist.taken[v] <= 1 + hist.excused[v]
    BY DEF ChannelInv, Counted
  <2>3. Remembered' = u
    BY <1>6, <1>7 DEF Remembered, At
  <2>4. \A v \in DOMAIN Script : hist'.taken[v] <= 1 + hist'.excused[v]
    BY <2>1, <2>2, <1>1, <1>2, <1>3, <1>8, <1>9, <1>c
  <2>5. \A v \in DOMAIN Script : v > u => hist'.taken[v] <= hist'.excused[v]
    BY <2>1, <1>1, <1>2, <1>8, <1>9, <1>c
  <2> QED BY <2>3, <2>4, <2>5, <1>u DEF Counted, Excused
<1>16. OwnSave'
  BY <1>2, <1>7, <1>8, <1>u DEF ChannelInv, OwnSave, At
<1>17. Dormant'
  BY <1>7 DEF Dormant, At
<1> QED BY <1>12, <1>13, <1>14, <1>15, <1>16, <1>17 DEF ChannelInv

LEMMA StartStep == ASSUME ChannelInv, Start PROVE ChannelInv'
<1>1. /\ DOMAIN main = {"pc", "events", "next", "upto", "task", "target", "stopping"}
      /\ DOMAIN hist = {"lives", "told", "meddled", "taken", "excused", "ran", "lost"}
      /\ disk.state \in Snaps
  BY DEF ChannelInv, Shape, Off, Disks
<1>2. mem' \in Snaps /\ mem'.last = disk.state.last
  BY <1>1, UnlapsedTyped DEF Start, Loaded
<1>3. /\ main'.pc = "prune" /\ main.pc = "off" /\ main'.next = main.next /\ main'.upto = main.upto
      /\ main'.stopping = main.stopping /\ DOMAIN main' = DOMAIN main
  BY <1>1 DEF Start, Goto, At
<1>4. /\ hist'.taken = hist.taken /\ hist'.excused = hist.excused /\ hist'.meddled = hist.meddled
      /\ DOMAIN hist' = DOMAIN hist
  BY <1>1 DEF Start
<1>u. UNCHANGED <<scene, server, disk, saving>>
  BY DEF Start
<1>5. Shape'
  BY <1>2, <1>3, <1>4, <1>u DEF ChannelInv, Shape, Script, Counts
<1>6. Trusted'
  BY <1>2, <1>4, <1>u DEF ChannelInv, Trusted, Covered, Script
<1>7. Batched' /\ Counted'
  BY <1>2, <1>3, <1>4, <1>u DEF ChannelInv, Batched, InBatch, Counted, Excused, Remembered, At, Script
<1>8. saving[Main].pc = "no"
  BY <1>3 DEF ChannelInv, OwnSave, At
<1>9. OwnSave'
  BY <1>8, <1>u DEF OwnSave
<1>10. Dormant'
  BY <1>3 DEF Dormant, At
<1> QED BY <1>5, <1>6, <1>7, <1>9, <1>10 DEF ChannelInv

\* However the process ends, what the file lacks is excused, or the file lacks nothing.
LEMMA EndStep ==
    ASSUME ChannelInv, ~At("off"), NEW S, End(S),
           S = Unsaved \/ (S = {} /\ disk.state.last = mem.last)
    PROVE  ChannelInv'
<1>1. /\ DOMAIN hist = {"lives", "told", "meddled", "taken", "excused", "ran", "lost"}
      /\ disk.state.last \in Nat /\ mem.last \in Nat
      /\ Len(Script) \in Nat /\ DOMAIN Script = 1 .. Len(Script)
      /\ hist.taken \in [DOMAIN Script -> Nat] /\ hist.excused \in [DOMAIN Script -> Nat]
  BY ScriptFacts DEF ChannelInv, Shape, Disks, Snaps, Counts
<1>2. /\ main'.pc = "off" /\ main'.next = 0 /\ main'.upto = 0 /\ main'.stopping = FALSE
      /\ DOMAIN main' = DOMAIN Off
  BY DEF End, Off
<1>3. mem' = Fresh /\ saving' = [x \in Writers |-> NoSave]
  BY DEF End
<1>4. /\ hist'.taken = hist.taken /\ hist'.meddled = hist.meddled /\ DOMAIN hist' = DOMAIN hist
      /\ hist'.excused = [u \in DOMAIN Script |-> IF u \in S THEN hist.excused[u] + 1
                                                 ELSE hist.excused[u]]
  BY <1>1 DEF End
<1>u. UNCHANGED <<scene, server, disk>> /\ Script' = Script
  BY DEF End, Script
<1>5. hist'.excused \in [DOMAIN Script -> Nat]
  BY <1>1, <1>4
<1>6. Shape'
  <2>1. saving' \in [Writers -> Savings] /\ mem' \in Snaps
    BY <1>3, FreshTyped
  <2>2. server' \in [arrived : 0 .. Len(Script'), forgotten : Nat] /\ disk' \in Disks
        /\ scene' \in Scenes
    BY <1>u DEF ChannelInv, Shape
  <2>3. main'.next \in Nat /\ main'.upto \in 0 .. Len(Script') /\ main'.stopping \in BOOLEAN
    <3>1. main'.next \in Nat /\ main'.stopping \in BOOLEAN
      BY DEF End, Off
    <3>2. 0 \in 0 .. Len(Script)
      BY <1>1
    <3> QED BY <1>2, <1>u, <3>1, <3>2
  <2>4. hist'.taken \in Counts' /\ hist'.excused \in Counts' /\ hist'.meddled \in BOOLEAN
    BY <1>1, <1>4, <1>5, <1>u DEF ChannelInv, Shape, Counts
  <2> QED BY <2>1, <2>2, <2>3, <2>4, <1>1, <1>2, <1>4 DEF Shape
<1>7. Trusted'
  BY <1>1, <1>3, <1>4, <1>u, FreshTyped DEF ChannelInv, Trusted, Covered
<1>8. Batched'
  BY <1>2 DEF Batched, InBatch
<1>9. Counted'
  <2>1. \A u \in DOMAIN Script : u > mem.last => hist.taken[u] <= hist.excused[u]
    BY DEF ChannelInv, Counted, Excused, Remembered
  <2>2. \A u \in DOMAIN Script : hist.taken[u] <= 1 + hist.excused[u]
    BY DEF ChannelInv, Counted
  <2>3. \A u \in DOMAIN Script : hist'.excused[u] >= hist.excused[u]
    BY <1>1, <1>4
  <2>4. \A u \in DOMAIN Script : hist.taken[u] <= 1 + hist'.excused[u]
    BY <1>1, <1>5, <2>2, <2>3
  <2>5. ASSUME NEW u \in DOMAIN Script, u > disk.state.last PROVE hist.taken[u] <= hist'.excused[u]
    <3>1. CASE S = {} /\ disk.state.last = mem.last
      BY <1>1, <1>4, <2>1, <2>5, <3>1
    <3>2. CASE S = Unsaved /\ hist.taken[u] > 0
      <4>1. u \in S
        BY <2>5, <3>2 DEF Unsaved
      <4>2. hist'.excused[u] = hist.excused[u] + 1
        BY <1>4, <4>1
      <4> QED BY <1>1, <2>2, <4>2
    <3>3. CASE S = Unsaved /\ ~(hist.taken[u] > 0)
      BY <1>1, <1>5, <3>3
    <3> QED BY <3>1, <3>2, <3>3
  <2>6. Remembered' = disk.state.last
    BY <1>2, <1>u DEF Remembered, At
  <2> QED BY <1>4, <1>u, <2>4, <2>5, <2>6 DEF Counted, Excused
<1>10. OwnSave'
  BY <1>3, FreshTyped, MainIsWriter DEF OwnSave
<1>11. Dormant'
  BY <1>3, FreshTyped, MainIsWriter DEF Dormant, End, NoWorker
<1> QED BY <1>6, <1>7, <1>8, <1>9, <1>10, <1>11 DEF ChannelInv

LEMMA EndSteps == ASSUME ChannelInv, Die \/ Stop PROVE ChannelInv'
<1>1. CASE Die
  BY <1>1, EndStep DEF Die
<1>2. CASE Stop
  <2>1. ~At("off") /\ saving[Main].pc \in {"saved", "failed"}
    BY <1>2 DEF Stop, At
  <2>2. CASE hist.meddled
    BY <1>2, <2>1, <2>2, EndStep DEF Stop
  <2>3. CASE ~hist.meddled
    <3>1. disk.state.last = mem.last
      BY <2>1, <2>3 DEF ChannelInv, OwnSave
    <3> QED BY <1>2, <2>1, <2>3, <3>1, EndStep DEF Stop
  <2> QED BY <2>2, <2>3
<1> QED BY <1>1, <1>2

\* What saving does to the files: whatever they hold was remembered at some time.
Known(n) == n \in Nat /\ Covered(n)

LEMMA SavesKnown ==
    ASSUME ChannelInv, NEW x \in Writers, Saves(x)
    PROVE  /\ disk' \in Disks /\ saving' \in [Writers -> Savings]
           /\ Known(disk'.state.last) /\ Known(disk'.tmp.last)
           /\ \A y \in Writers : Known(saving'[y].snap.last)
           /\ \A y \in Writers : y # x => saving'[y].pc = saving[y].pc
<1>1. mem \in Snaps /\ disk \in Disks /\ saving \in [Writers -> Savings]
  BY DEF ChannelInv, Shape
<1>2. \A y \in Writers : saving[y] \in Savings /\ saving[y].snap \in Snaps
  BY <1>1 DEF Savings
<1>3. Known(0) /\ Known(mem.last) /\ Known(disk.state.last) /\ Known(disk.tmp.last)
      /\ \A y \in Writers : Known(saving[y].snap.last)
  <2>1. Known(0)
    BY ScriptFacts DEF Known, Covered, ChannelInv, Shape
  <2> QED BY <2>1, <1>1, <1>2 DEF Known, ChannelInv, Trusted, Disks, Snaps
<1>4. CASE Open(x)
  <2>1. disk' = [disk EXCEPT !.tmp = Fresh, !.made = TRUE]
        /\ saving' = [saving EXCEPT ![x] = [pc |-> "write", at |-> "tmp", snap |-> mem]]
    BY <1>4 DEF Open
  <2>2. disk' \in Disks /\ disk'.state = disk.state /\ disk'.tmp = Fresh
    BY <2>1, <1>1, FreshTyped DEF Disks
  <2>3. [pc |-> "write", at |-> "tmp", snap |-> mem] \in Savings
    BY <1>1 DEF Savings
  <2>4. saving' \in [Writers -> Savings] /\ saving'[x].snap = mem
        /\ \A y \in Writers : y # x => saving'[y] = saving[y]
    BY <2>1, <2>3, <1>1
  <2> QED BY <2>2, <2>4, <1>3, FreshTyped
<1>5. CASE Write(x)
  <2>1. PICK text \in {saving[x].snap, Fresh} :
          disk' = CASE saving[x].at = "tmp" -> [disk EXCEPT !.tmp = text]
                    [] saving[x].at = "state" -> [disk EXCEPT !.state = text]
                    [] OTHER -> disk
    BY <1>5 DEF Write
  <2>2. text \in Snaps /\ Known(text.last)
    BY <2>1, <1>2, <1>3, FreshTyped
  <2>3. disk' \in Disks /\ disk'.state \in {disk.state, text} /\ disk'.tmp \in {disk.tmp, text}
    <3>1. CASE saving[x].at = "tmp"
      BY <3>1, <2>1, <2>2, <1>1 DEF Disks
    <3>2. CASE saving[x].at = "state"
      BY <3>2, <2>1, <2>2, <1>1 DEF Disks
    <3>3. CASE saving[x].at \notin {"tmp", "state"}
      BY <3>3, <2>1, <1>1
    <3> QED BY <3>1, <3>2, <3>3
  <2>4. saving' = [saving EXCEPT ![x] = [saving[x] EXCEPT !.pc = "rename", !.at = "gone", !.snap = Fresh]]
    BY <1>5, <1>1 DEF Write
  <2>5. [saving[x] EXCEPT !.pc = "rename", !.at = "gone", !.snap = Fresh] \in Savings
    BY <1>2, FreshTyped DEF Savings
  <2>6. saving' \in [Writers -> Savings] /\ saving'[x].snap = Fresh
        /\ \A y \in Writers : y # x => saving'[y] = saving[y]
    <3>1. [saving[x] EXCEPT !.pc = "rename", !.at = "gone", !.snap = Fresh].snap = Fresh
      BY <1>2 DEF Savings
    <3> QED BY <2>4, <2>5, <3>1, <1>1
  <2> QED BY <2>2, <2>3, <2>6, <1>3, FreshTyped
<1>6. CASE Rename(x) /\ disk.made
  <2>1. disk' = [state |-> disk.tmp, tmp |-> Fresh, made |-> FALSE]
    BY <1>6 DEF Rename
  <2>2. saving' = [y \in Writers |-> [saving[y] EXCEPT !.at = Moved(y),
                        !.pc = IF y = x THEN "saved" ELSE saving[y].pc]]
    BY <1>6 DEF Rename
  <2>3. disk' \in Disks /\ disk'.state = disk.tmp /\ disk'.tmp = Fresh
    BY <2>1, <1>1, FreshTyped DEF Disks
  <2>4. \A y \in Writers : Moved(y) \in {"state", "gone"}
    BY DEF Moved
  <2>5. ASSUME NEW y \in Writers
        PROVE saving'[y] \in Savings /\ saving'[y].snap = saving[y].snap
              /\ (y # x => saving'[y].pc = saving[y].pc)
    BY <2>2, <2>4, <1>2 DEF Savings
  <2>6. saving' \in [Writers -> Savings]
    BY <2>2, <2>5
  <2> QED BY <2>3, <2>5, <2>6, <1>3, FreshTyped
<1>7. CASE Rename(x) /\ ~disk.made
  <2>1. disk' = disk /\ saving' = [saving EXCEPT ![x] = [saving[x] EXCEPT !.pc = "failed"]]
    BY <1>7, <1>1 DEF Rename
  <2>2. [saving[x] EXCEPT !.pc = "failed"] \in Savings
        /\ [saving[x] EXCEPT !.pc = "failed"].snap = saving[x].snap
    BY <1>2 DEF Savings
  <2>3. saving' \in [Writers -> Savings] /\ saving'[x].snap = saving[x].snap
        /\ \A y \in Writers : y # x => saving'[y] = saving[y]
    BY <2>1, <2>2, <1>1
  <2> QED BY <2>1, <2>3, <1>1, <1>3
<1> QED BY <1>4, <1>5, <1>6, <1>7 DEF Saves

LEMMA MainSavesStep == ASSUME ChannelInv, MainSaves PROVE ChannelInv'
<1>1. /\ Main \in Writers /\ Saves(Main) /\ main.pc = "save"
      /\ DOMAIN hist = {"lives", "told", "meddled", "taken", "excused", "ran", "lost"}
  BY MainIsWriter DEF MainSaves, At, ChannelInv, Shape
<1>2. /\ hist'.taken = hist.taken /\ hist'.excused = hist.excused /\ DOMAIN hist' = DOMAIN hist
      /\ hist'.meddled = (hist.meddled /\ saving[Main].pc # "no")
  BY <1>1 DEF MainSaves
<1>3. hist'.meddled \in BOOLEAN
  BY <1>2
<1>u. UNCHANGED <<scene, server, mem, main, crew>> /\ Script' = Script
  BY DEF MainSaves, Script
<1>4. Shape'
  BY <1>1, <1>2, <1>3, <1>u, SavesKnown DEF ChannelInv, Shape, Counts
<1>5. Trusted'
  <2>1. \A n \in Nat : Covered(n) => Covered(n)'
    BY <1>2, <1>u DEF Covered
  <2>2. Known(disk'.state.last) /\ Known(disk'.tmp.last)
        /\ \A y \in Writers : Known(saving'[y].snap.last)
    BY <1>1, SavesKnown
  <2>3. Covered(server.forgotten) /\ Covered(mem.last)
    BY DEF ChannelInv, Trusted
  <2> QED BY <2>2, <2>3, <1>2, <1>u DEF Trusted, Known, Covered
<1>6. Batched' /\ Counted' /\ Dormant'
  BY <1>1, <1>2, <1>u
     DEF ChannelInv, Batched, InBatch, Counted, Excused, Remembered, Dormant, At
<1>7. OwnSave'
  <2>0. /\ saving \in [Writers -> Savings] /\ disk \in Disks /\ mem \in Snaps
        /\ saving[Main] \in Savings
    BY <1>1 DEF ChannelInv, Shape
  <2>1. CASE Open(Main)
    <3>1. saving'[Main] = [pc |-> "write", at |-> "tmp", snap |-> mem]
      BY <2>0, <2>1, <1>1 DEF Open
    <3>2. disk'.made /\ disk'.tmp = Fresh
      BY <2>0, <2>1 DEF Open, Disks
    <3> QED BY <3>1, <3>2, <1>1, <1>u DEF OwnSave, At
  <2>2. CASE Write(Main)
    <3>1. saving'[Main].pc = "rename" /\ saving[Main].pc = "write"
      BY <2>0, <2>2, <1>1 DEF Write, Savings
    <3>2. ~hist'.meddled => disk'.made /\ disk'.tmp.last = mem.last
      <4> SUFFICES ASSUME ~hist'.meddled PROVE disk'.made /\ disk'.tmp.last = mem.last
        OBVIOUS
      <4>1. /\ saving[Main].at = "tmp" /\ saving[Main].snap.last = mem.last
            /\ disk.made /\ disk.tmp = Fresh
        BY <1>2, <3>1 DEF ChannelInv, OwnSave
      <4>2. Content(Main) = Fresh
        BY <4>1 DEF Content
      <4>3. disk' = [disk EXCEPT !.tmp = saving[Main].snap]
        BY <2>2, <4>1, <4>2 DEF Write
      <4> QED BY <2>0, <4>1, <4>3 DEF Disks
    <3> QED BY <3>1, <3>2, <1>1, <1>u DEF OwnSave, At
  <2>3. CASE Rename(Main)
    <3>1. saving[Main].pc = "rename"
      BY <2>3 DEF Rename
    <3>2. ~hist'.meddled => disk.made /\ disk.tmp.last = mem.last
      BY <1>2, <3>1 DEF ChannelInv, OwnSave
    <3>3. CASE Rename(Main) /\ disk.made
      <4>1. disk' = [state |-> disk.tmp, tmp |-> Fresh, made |-> FALSE]
            /\ saving' = [y \in Writers |-> [saving[y] EXCEPT !.at = Moved(y),
                                !.pc = IF y = Main THEN "saved" ELSE saving[y].pc]]
        BY <3>3 DEF Rename
      <4>2. saving'[Main].pc = "saved" /\ disk'.state = disk.tmp
        BY <2>0, <4>1, <1>1 DEF Savings
      <4> QED BY <3>2, <4>1, <4>2, <1>1, <1>u DEF OwnSave, At
    <3>4. CASE ~disk.made
      <4>1. hist'.meddled
        BY <3>2, <3>4
      <4> QED BY <4>1, <1>1, <1>u DEF OwnSave, At
    <3> QED BY <2>3, <3>3, <3>4
  <2> QED BY <1>1, <2>1, <2>2, <2>3 DEF Saves
<1> QED BY <1>4, <1>5, <1>6, <1>7 DEF ChannelInv

LEMMA WorkerSavesStep == ASSUME ChannelInv, NEW w \in Workers, WorkerSaves(w) PROVE ChannelInv'
<1>1. /\ w \in Writers /\ w # Main /\ Main \in Writers /\ Saves(w)
      /\ DOMAIN hist = {"lives", "told", "meddled", "taken", "excused", "ran", "lost"}
      /\ main.pc # "off"
  BY MainIsWriter DEF WorkerSaves, ChannelInv, Shape, Dormant, At
<1>2. /\ hist'.taken = hist.taken /\ hist'.excused = hist.excused /\ DOMAIN hist' = DOMAIN hist
      /\ hist'.meddled = TRUE
  BY <1>1 DEF WorkerSaves
<1>u. UNCHANGED <<scene, server, mem, main, crew>> /\ Script' = Script
  BY DEF WorkerSaves, AsideMain, Script
<1>4. Shape'
  BY <1>1, <1>2, <1>u, SavesKnown DEF ChannelInv, Shape, Counts
<1>5. Trusted'
  <2>1. Known(disk'.state.last) /\ Known(disk'.tmp.last)
        /\ \A y \in Writers : Known(saving'[y].snap.last)
    BY <1>1, SavesKnown
  <2>2. Covered(server.forgotten) /\ Covered(mem.last)
    BY DEF ChannelInv, Trusted
  <2> QED BY <2>1, <2>2, <1>2, <1>u DEF Trusted, Known, Covered
<1>6. Batched' /\ Counted' /\ Dormant'
  BY <1>1, <1>2, <1>u
     DEF ChannelInv, Batched, InBatch, Counted, Excused, Remembered, Dormant, At
<1>7. OwnSave'
  <2>1. saving'[Main].pc = saving[Main].pc
    BY <1>1, SavesKnown
  <2> QED BY <2>1, <1>2, <1>u DEF ChannelInv, OwnSave, At
<1> QED BY <1>4, <1>5, <1>6, <1>7 DEF ChannelInv

\* Steps that touch no file, and of the saves only those that are over.
LEMMA SavingStep ==
    ASSUME ChannelInv, UNCHANGED <<scene, server, mem, disk>>, main.pc # "off", main'.pc # "off",
           DOMAIN main' = DOMAIN main, main'.next \in Nat, main'.upto \in 0 .. Len(Script),
           main'.stopping \in BOOLEAN, InBatch' => InBatch /\ main'.next = main.next,
           saving' \in [Writers -> Savings],
           \A x \in Writers : saving'[x] = NoSave \/ saving'[x] = saving[x],
           main'.pc # "save" => saving'[Main].pc = "no",
           DOMAIN hist' = DOMAIN hist, hist'.taken = hist.taken, hist'.excused = hist.excused,
           hist'.meddled = hist.meddled
    PROVE  ChannelInv'
<1>1. Shape'
  BY DEF ChannelInv, Shape, Script, Counts
<1>2. Trusted'
  <2>1. Covered(0)
    BY ScriptFacts DEF Covered, ChannelInv, Shape
  <2>2. \A x \in Writers : Covered(saving'[x].snap.last)
    BY <2>1, FreshTyped DEF ChannelInv, Trusted
  <2> QED BY <2>2 DEF ChannelInv, Trusted, Covered, Script
<1>3. Batched'
  BY DEF ChannelInv, Batched, Script
<1>4. Counted'
  BY DEF ChannelInv, Counted, Excused, Remembered, At, Script
<1>5. OwnSave'
  BY MainIsWriter, FreshTyped DEF ChannelInv, OwnSave, At
<1>6. Dormant'
  BY DEF Dormant, At
<1> QED BY <1>1, <1>2, <1>3, <1>4, <1>5, <1>6 DEF ChannelInv

LEMMA SavingSteps == ASSUME ChannelInv, Ticked \/ StopAsked PROVE ChannelInv'
<1>1. /\ DOMAIN main = {"pc", "events", "next", "upto", "task", "target", "stopping"}
      /\ Len(Script) \in Nat /\ saving \in [Writers -> Savings] /\ Main \in Writers
      /\ main.next \in Nat /\ main.upto \in 0 .. Len(Script) /\ main.stopping \in BOOLEAN
  BY ScriptFacts, MainIsWriter DEF ChannelInv, Shape, Off
<1>2. saving' = [saving EXCEPT ![Main] = NoSave] /\ main.pc = "save"
  BY DEF Ticked, StopAsked, At
<1>3. saving' \in [Writers -> Savings] /\ saving'[Main] = NoSave
      /\ \A x \in Writers : saving'[x] = NoSave \/ saving'[x] = saving[x]
  BY <1>1, <1>2, FreshTyped
<1>4. UNCHANGED <<scene, server, mem, disk, hist>>
  BY DEF Ticked, StopAsked
<1>5. CASE Ticked
  <2>1. /\ main'.pc = "prune" /\ main'.next = 0 /\ main'.upto = 0
        /\ main'.stopping = main.stopping /\ DOMAIN main' = DOMAIN main
    BY <1>1, <1>5 DEF Ticked
  <2>2. 0 \in 0 .. Len(Script)
    BY <1>1
  <2> QED BY <2>1, <2>2, <1>1, <1>2, <1>3, <1>4, SavingStep, FreshTyped DEF InBatch
<1>6. CASE StopAsked
  <2>1. /\ main'.pc = "save" /\ main'.next = main.next /\ main'.upto = main.upto
        /\ main'.stopping = TRUE /\ DOMAIN main' = DOMAIN main
    BY <1>1, <1>2, <1>6 DEF StopAsked
  <2> QED BY <2>1, <1>1, <1>2, <1>3, <1>4, SavingStep, FreshTyped DEF InBatch
<1> QED BY <1>5, <1>6

LEMMA WorkerSteps ==
    ASSUME ChannelInv, NEW w \in Workers, WorkerNext(w), ~WorkerSaves(w)
    PROVE  ChannelInv'
<1>1. /\ DOMAIN hist = {"lives", "told", "meddled", "taken", "excused", "ran", "lost"}
      /\ saving \in [Writers -> Savings] /\ Main \in Writers /\ w \in Writers /\ w # Main
      /\ main.next \in Nat /\ main.upto \in 0 .. Len(Script) /\ main.stopping \in BOOLEAN
  BY MainIsWriter DEF ChannelInv, Shape
<1>2. UNCHANGED <<scene, server, mem, main, disk>>
  BY DEF WorkerNext, AsideMain, Work, Run, RunFails, Tell, TellFails, Saved, DieSaving, Reply,
         TimeOut, GoHome, Leave
<1>3. main.pc # "off"
  BY DEF WorkerNext, Work, Run, RunFails, Tell, TellFails, Saved, DieSaving, Reply, TimeOut, GoHome,
         ChannelInv, Dormant, At
<1>4. saving' = saving \/ saving' = [saving EXCEPT ![w] = NoSave]
  BY DEF WorkerNext, Work, Run, RunFails, Tell, TellFails, Saved, DieSaving, Reply, TimeOut, GoHome, Leave
<1>5. saving' \in [Writers -> Savings] /\ saving'[Main] = saving[Main]
      /\ \A x \in Writers : saving'[x] = NoSave \/ saving'[x] = saving[x]
  BY <1>1, <1>4, FreshTyped
<1>6. /\ hist'.taken = hist.taken /\ hist'.excused = hist.excused /\ hist'.meddled = hist.meddled
      /\ DOMAIN hist' = DOMAIN hist
  <2>1. CASE Run(w) \/ RunFails(w)
    BY <2>1, <1>1 DEF Run, RunFails
  <2>2. CASE ~(Run(w) \/ RunFails(w))
    BY <2>2 DEF WorkerNext, Work, Tell, TellFails, Saved, DieSaving, Reply, TimeOut, GoHome,
                Leave
  <2> QED BY <2>1, <2>2
<1>7. main.pc # "save" => saving[Main].pc = "no"
  BY DEF ChannelInv, OwnSave, At
<1> QED BY <1>1, <1>2, <1>3, <1>5, <1>6, <1>7, SavingStep DEF InBatch

LEMMA NextInv == ASSUME ChannelInv, [Next]_vars PROVE ChannelInv'
<1>1. CASE UNCHANGED vars
  BY <1>1, RecordsStep DEF vars, Records, InBatch
<1>2. CASE Arrive \/ Start \/ Die \/ Stop
  BY <1>2, ArriveStep, StartStep, EndSteps
<1>3. CASE \E a \in Approvals : Ask(a) \/ DecideElsewhere(a) \/ Lapse(a)
  BY <1>3, QuietSteps
<1>4. CASE StopAsked
  BY <1>4, SavingSteps
<1>5. CASE MainNext
  <2>1. CASE Poll \/ Take
    BY <2>1, PollStep, TakeStep
  <2>2. CASE MainSaves \/ Ticked \/ Stop
    BY <2>2, MainSavesStep, SavingSteps, EndSteps
  <2> QED BY <1>5, <2>1, <2>2, QuietSteps, MemorySteps DEF MainNext
<1>6. CASE \E w \in Workers : WorkerNext(w)
  BY <1>6, WorkerSavesStep, WorkerSteps
<1> QED BY <1>1, <1>2, <1>3, <1>4, <1>5, <1>6 DEF Next

\* Telegram forgets no update that was not handled, and none is handled twice
\* but for what the state file lacks when the process dies, or is stopped
\* while a worker saves: for any scripts, however many threads save.
THEOREM EveryUpdateHandledOnce == Spec => []HandledOnce
<1>1. ChannelInv => HandledOnce
  BY DEF ChannelInv, Trusted, Covered, Counted, HandledOnce
<1> QED BY <1>1, InitInv, NextInv, PTL DEF Spec

-----------------------------------------------------------------------------
(***************************************************************************)
(* The conversation of a thread.  Whoever works is registered for its      *)
(* thread, so a thread has one worker.  What has been handed out is older  *)
(* than what the main thread holds, and a worker's queue is in order.  A   *)
(* thread's conversation is what the process has learned, or else what     *)
(* Agent Ruler was told; whatever else the thread was run in is lost.  A   *)
(* key in play is that of the conversation, or none, and then the process  *)
(* has learned it.                                                         *)
(***************************************************************************)
Tasks == [update : Nat, key : Nat]
Runs == [life : Nat, update : Nat, conv : Nat]
Crews == [pc : {"none", "idle", "run", "tell", "save", "reply", "leave"},
          thread : Threads \cup {NoWorker.thread}, queue : Seq(Tasks), task : Tasks, key : Nat]

CrewShape ==
    /\ DOMAIN ruler = {"approval", "asked", "key", "convs"}
    /\ ruler.key \in [Threads -> Nat] /\ ruler.convs \in Nat
    /\ keys \in [Threads -> Nat]
    /\ slot \in [Threads -> Workers \cup {Nobody}]
    /\ crew \in [Workers -> Crews]
    /\ main.task \in Tasks
    /\ hist.ran \in [Threads -> Seq(Runs)] /\ hist.lives \in Nat

Registered ==
    /\ \A w \in Workers : crew[w].pc # "none" =>
           crew[w].thread \in Threads /\ slot[crew[w].thread] = w
    /\ \A t \in Threads : slot[t] # Nobody =>
           crew[slot[t]].pc # "none" /\ crew[slot[t]].thread = t

Employed == \A w \in Workers : saving[w].pc # "no" => crew[w].pc # "none"

\* The update the main thread holds is the last it took.
Talking == main.pc \in {"talk", "route", "enqueue", "put"}
Holding == main.pc \in {"press"} \/ Talking
Held ==
    /\ Holding => main.task.update = mem.last /\ main.task.update \in DOMAIN Script
    /\ Talking => Update.kind = "talk"
    /\ At("put") => /\ main.target \in Workers
                    /\ crew[main.target].pc # "none" => crew[main.target].thread = Update.thread

\* What the history of the runs is about.
Lived == <<hist.ran, hist.lives, hist.lost>>
USE DEF Lived

\* Nothing that was handed out is as late as this.
Handed == IF Holding THEN main.task.update ELSE mem.last + 1

Past(t, u) == \A i \in DOMAIN hist.ran[t] :
                 hist.ran[t][i].life = hist.lives => hist.ran[t][i].update < u

Conv(t) == IF keys[t] # NoKey THEN keys[t] ELSE ruler.key[t]
InPlay(t, k) == k = Conv(t) \/ (k = NoKey /\ keys[t] = Conv(t))

\* The key that goes with a message on its way to its worker.
Named(t) == main.pc \in {"enqueue", "put"} /\ Update.thread = t => InPlay(t, main.task.key)

OneRun(t) ==
    /\ \A i \in DOMAIN hist.ran[t] :
           LET r == hist.ran[t][i]
           IN  r.life <= hist.lives /\ r.conv # NoKey /\ (r.conv = Conv(t) \/ r.conv \in hist.lost)
    /\ \A i, j \in DOMAIN hist.ran[t] : i < j =>
           /\ hist.ran[t][i].life = hist.ran[t][j].life => hist.ran[t][i].update < hist.ran[t][j].update
           /\ hist.ran[t][i].conv # hist.ran[t][j].conv => hist.ran[t][i].conv \in hist.lost

ThreadOK(t) ==
    /\ OneRun(t)
    /\ IF At("off") THEN keys[t] = NoKey
       ELSE Past(t, Handed) /\ InPlay(t, ruler.key[t]) /\ Named(t)

CrewOK(c) ==
    LET t == c.thread
    IN  /\ At("off") => c.pc = "none"
        /\ c.pc # "none" =>
            \A i \in DOMAIN c.queue :
                /\ ThreadOf(c.queue[i]) = t
                /\ c.queue[i].update < Handed
                /\ Past(t, c.queue[i].update)
                /\ InPlay(t, c.queue[i].key)
        /\ \A i, j \in DOMAIN c.queue : i < j => c.queue[i].update < c.queue[j].update
        /\ c.pc = "run" =>
            /\ Past(t, c.task.update) /\ c.task.update < Handed
            /\ \A i \in DOMAIN c.queue : c.task.update < c.queue[i].update
            /\ InPlay(t, c.task.key)
        /\ c.pc \in {"run", "tell"} => c.key = Conv(t)

\* Of what is in the crew, not of its members: a record does not change in a step.
WorkerOK(w) == \A c \in Crews : c = crew[w] => CrewOK(c)

ConvInv ==
    /\ CrewShape /\ Registered /\ Employed /\ Held
    /\ \A t \in Threads : ThreadOK(t)
    /\ \A w \in Workers : WorkerOK(w)

LEMMA HandedFacts ==
    ASSUME ChannelInv, ConvInv
    PROVE  /\ Handed \in Nat /\ mem.last \in Nat /\ DOMAIN Script \subseteq Nat
           /\ Handed <= mem.last + 1 /\ (Holding => Handed = mem.last) /\ (~Holding => Handed = mem.last + 1)
           /\ DOMAIN main = {"pc", "events", "next", "upto", "task", "target", "stopping"}
           /\ DOMAIN hist = {"lives", "told", "meddled", "taken", "excused", "ran", "lost"}
<1>1. mem.last \in Nat /\ main.task.update \in Nat /\ (Holding => main.task.update = mem.last)
  BY DEF ChannelInv, Shape, Snaps, ConvInv, CrewShape, Tasks, Held
<1>2. DOMAIN Script \subseteq Nat
  BY ScriptFacts DEF ChannelInv, Shape
<1> QED BY <1>1, <1>2 DEF Handed, ChannelInv, Shape, Off

LEMMA NobodyWorks == Nobody \notin Workers
BY WorkersAssumption DEF Nobody

LEMMA NoWorkerTyped == NoWorker \in Crews /\ NoWorker.pc = "none" /\ NoWorker.queue = <<>>
                       /\ NoTask \in Tasks
<1>1. NoTask \in Tasks
  BY DEF NoTask, NoKey, Tasks
<1> QED BY <1>1 DEF NoWorker, Crews, NoKey

LEMMA TalkThread ==
    ASSUME ChannelInv, Held, Talking
    PROVE  main.task.update \in DOMAIN Script /\ Update \in Updates /\ Update.thread \in Threads
<1>1. Script \in Seq(Updates)
  BY ScenesAssumption DEF ChannelInv, Shape, Script
<1>2. main.task.update \in DOMAIN Script /\ Update.kind = "talk"
  BY DEF Held, Holding
<1>3. Update \in Updates
  BY <1>1, <1>2 DEF Update
<1> QED BY <1>2, <1>3 DEF Updates

LEMMA InitConv == Init => ConvInv
<1> SUFFICES ASSUME Init PROVE ConvInv
  OBVIOUS
<1> USE DEF Init
<1>1. main.pc = "off" /\ main.task = NoTask /\ NoTask \in Tasks
  BY DEF Off, NoTask, NoKey, Tasks
<1>2. NoWorker \in Crews /\ NoWorker.pc = "none"
  BY <1>1 DEF NoWorker, Crews, NoKey
<1>3. CrewShape
  BY <1>1, <1>2 DEF CrewShape, NoKey
<1>4. Registered /\ Held
  BY <1>1, <1>2 DEF Registered, Held, Holding, Talking, At
<1>7. Employed
  BY FreshTyped, MainIsWriter DEF Employed
<1>5. \A t \in Threads : ThreadOK(t)
  BY <1>1 DEF ThreadOK, OneRun, At
<1>6. \A w \in Workers : WorkerOK(w)
  BY <1>2 DEF WorkerOK, CrewOK, NoWorker
<1> QED BY <1>3, <1>4, <1>5, <1>6, <1>7 DEF ConvInv

LEMMA RanTyped ==
    ASSUME CrewShape, NEW t \in Threads, NEW i \in DOMAIN hist.ran[t]
    PROVE  hist.ran[t][i] \in Runs /\ hist.ran[t][i].update \in Nat /\ hist.ran[t][i].conv \in Nat
<1>1. hist.ran[t] \in Seq(Runs)
  BY DEF CrewShape
<1>2. hist.ran[t][i] \in Runs
  BY <1>1
<1> QED BY <1>2 DEF Runs

LEMMA RecordStep ==
    ASSUME NEW c \in Crews, CrewOK(c), Handed \in Nat, Handed' \in Nat, Handed' >= Handed,
           UNCHANGED <<scene, keys>>, ruler'.key = ruler.key, UNCHANGED Lived,
           main'.pc = "off" => main.pc = "off"
    PROVE  CrewOK(c)'
<1>1. /\ c.task.update \in Nat /\ \A i \in DOMAIN c.queue : c.queue[i].update \in Nat
  <2>1. c.task \in Tasks /\ c.queue \in Seq(Tasks)
    BY DEF Crews
  <2>2. \A i \in DOMAIN c.queue : c.queue[i] \in Tasks
    BY <2>1
  <2> QED BY <2>1, <2>2 DEF Tasks
<1>2. \A k : InPlay(c.thread, k) => InPlay(c.thread, k)'
  BY DEF InPlay, Conv
<1>3. \A u : Past(c.thread, u) => Past(c.thread, u)'
  BY DEF Past
<1>4. \A u \in Nat : u < Handed => u < Handed'
  OBVIOUS
<1>5. \A i \in DOMAIN c.queue : ThreadOf(c.queue[i])' = ThreadOf(c.queue[i])
  BY DEF ThreadOf, Script
<1>6. At("off")' => At("off")
  BY DEF At
<1>7. Conv(c.thread)' = Conv(c.thread)
  BY DEF Conv
<1> QED BY <1>1, <1>2, <1>3, <1>4, <1>5, <1>6, <1>7 DEF CrewOK

\* Steps in which no conversation is begun, learned or told: what is handed
\* out stays older than what comes, and only the workers that are changed
\* have to be looked at.
LEMMA ConvStep ==
    ASSUME ChannelInv, ConvInv, ChannelInv', CrewShape', Registered', Employed', Held',
           UNCHANGED <<scene, keys>>,
           ruler'.key = ruler.key, UNCHANGED Lived, Handed' \in Nat, Handed' >= Handed,
           (main.pc = "off") <=> (main'.pc = "off"),
           \A t \in Threads : Named(t)',
           \A w \in Workers : crew'[w] = crew[w] \/ WorkerOK(w)'
    PROVE  ConvInv'
<1>1. Handed \in Nat /\ CrewShape
  BY HandedFacts DEF ConvInv
<1>2. ASSUME NEW t \in Threads PROVE ThreadOK(t)'
  <2>1. OneRun(t)' /\ hist'.ran[t] = hist.ran[t] /\ ThreadOK(t)
    BY DEF ConvInv, ThreadOK, OneRun, Conv
  <2>2. Past(t, Handed) => Past(t, Handed)'
    BY <1>1, RanTyped DEF Past
  <2>3. \A k : InPlay(t, k) => InPlay(t, k)'
    BY DEF InPlay, Conv
  <2>5. InPlay(t, ruler.key[t]) => InPlay(t, ruler.key[t])'
    BY DEF InPlay, Conv
  <2> QED BY <2>1, <2>2, <2>5 DEF ThreadOK, At, Conv
<1>3. ASSUME NEW w \in Workers PROVE WorkerOK(w)'
  <2>1. CASE crew'[w] = crew[w]
    <3> SUFFICES ASSUME NEW c \in Crews, c = crew[w], CrewOK(c) PROVE CrewOK(c)'
      BY <2>1 DEF WorkerOK, ConvInv, Crews, Tasks
    <3> QED BY <1>1, RecordStep
  <2> QED BY <2>1
<1> QED BY <1>2, <1>3 DEF ConvInv

\* The main thread goes on to something else, or stays with what it holds.
LEMMA MainStep ==
    ASSUME ChannelInv, ConvInv, ChannelInv', UNCHANGED <<scene, keys, slot, crew>>, mem'.last = mem.last,
           DOMAIN ruler' = DOMAIN ruler, ruler'.key = ruler.key, ruler'.convs = ruler.convs,
           UNCHANGED Lived, (main.pc = "off") <=> (main'.pc = "off"),
           \A w \in Workers : saving'[w].pc = saving[w].pc,
           \/ main'.pc \notin {"press", "talk", "route", "enqueue", "put"}
              /\ main'.task \in {main.task, NoTask}
           \/ main'.pc = main.pc /\ main'.task = main.task /\ main'.target = main.target
           \/ main.pc = "talk" /\ main'.pc = "route" /\ main'.task = main.task
    PROVE  ConvInv'
<1>1. main.task \in Tasks /\ NoTask \in Tasks
  BY DEF ConvInv, CrewShape, NoTask, NoKey, Tasks
<1>2. CrewShape' /\ Registered' /\ Employed'
  BY <1>1 DEF ConvInv, CrewShape, Registered, Employed
<1>3. Held'
  BY DEF ConvInv, Held, Holding, Talking, At, Update, Script
<1>4. Handed \in Nat /\ mem.last \in Nat /\ Handed <= mem.last + 1
      /\ (Holding' => Holding /\ main'.task.update = main.task.update)
  BY HandedFacts DEF Holding, Talking
<1>5. Handed' \in Nat /\ Handed' >= Handed
  BY <1>4 DEF Handed
<1>6. ASSUME NEW t \in Threads PROVE Named(t)'
  <2>1. main'.pc \in {"enqueue", "put"} => main'.pc = main.pc /\ main'.task = main.task
    OBVIOUS
  <2>2. main'.pc \in {"enqueue", "put"} => Named(t)
    BY <2>1 DEF ConvInv, ThreadOK, At
  <2> QED BY <2>1, <2>2 DEF Named, InPlay, Conv, Update, Script
<1> QED BY <1>2, <1>3, <1>5, <1>6, ConvStep

LEMMA AskConv == ASSUME ChannelInv, ConvInv, ChannelInv', NEW a \in Approvals, Ask(a) PROVE ConvInv'
<1>1. DOMAIN ruler = {"approval", "asked", "key", "convs"}
  BY DEF ConvInv, CrewShape
<1>2. DOMAIN ruler' = DOMAIN ruler /\ ruler'.key = ruler.key /\ ruler'.convs = ruler.convs
  BY <1>1 DEF Ask
<1>3. UNCHANGED <<scene, server, mem, keys, lapsed, main, slot, crew, disk, saving, hist>>
  BY DEF Ask
<1> QED BY <1>2, <1>3, MainStep

\* The steps of the main thread that hand nothing out, and what happens
\* around the process.
LEMMA MainConv ==
    ASSUME ChannelInv, ConvInv, ChannelInv',
           \/ \E a \in Approvals : \/ DecideElsewhere(a) \/ Lapse(a)
                                   \/ Pass(a) \/ Register(a) \/ Announce(a) \/ AnnounceFails(a)
           \/ Arrive \/ Prune \/ Feed \/ FeedFails \/ FeedDone \/ Poll \/ PollFails \/ BatchDone
           \/ Raise \/ Ignored \/ Unknown \/ Refuse \/ Decide \/ Bind \/ RouteFails
           \/ MainSaves \/ Ticked \/ StopAsked \/ UNCHANGED vars
    PROVE  ConvInv'
<1> USE MainStep DEF At
<1>1. /\ DOMAIN main = {"pc", "events", "next", "upto", "task", "target", "stopping"}
      /\ DOMAIN hist = {"lives", "told", "meddled", "taken", "excused", "ran", "lost"}
      /\ DOMAIN ruler = {"approval", "asked", "key", "convs"} /\ mem \in Snaps
  BY DEF ChannelInv, ConvInv, CrewShape, Shape, Off
<1>2. ASSUME NEW a \in Approvals, DecideElsewhere(a) \/ Lapse(a) PROVE ConvInv'
  BY <1>1, <1>2 DEF DecideElsewhere, Lapse
<1>3. ASSUME NEW a \in Approvals, Pass(a) PROVE ConvInv'
  BY <1>1, <1>3 DEF Pass, InFeed, PassOn, MainOnly
<1>4. ASSUME NEW a \in Approvals, Register(a) PROVE ConvInv'
  <2>1. UNCHANGED Lived /\ mem'.last = mem.last
    BY <1>1, <1>4 DEF Register, Snaps
  <2> QED BY <1>4, <2>1 DEF Register, InFeed
<1>5. ASSUME NEW a \in Approvals, Announce(a) PROVE ConvInv'
  BY <1>1, <1>5 DEF Announce, InFeed, PassOn, Snaps
<1>6. ASSUME NEW a \in Approvals, AnnounceFails(a) PROVE ConvInv'
  <2>1. PassOn \/ main' = [main EXCEPT !.pc = "poll", !.events = <<>>]
    BY <1>6 DEF AnnounceFails
  <2>2. MainOnly /\ main.pc = "announce"
    BY <1>6 DEF AnnounceFails, InFeed
  <2>3. CASE PassOn
    BY <1>1, <2>2, <2>3 DEF PassOn, MainOnly
  <2>4. CASE main' = [main EXCEPT !.pc = "poll", !.events = <<>>]
    BY <1>1, <2>2, <2>4 DEF MainOnly
  <2> QED BY <2>1, <2>3, <2>4
<1>7. CASE Arrive \/ UNCHANGED vars
  BY <1>1, <1>7 DEF Arrive, vars
<1>8. CASE Prune
  BY <1>1, <1>8, UnlapsedTyped DEF Prune, Goto
<1>9. CASE Feed
  BY <1>1, <1>9 DEF Feed, MainOnly
<1>10. CASE FeedFails \/ FeedDone \/ PollFails \/ BatchDone
  BY <1>1, <1>10 DEF FeedFails, FeedDone, PollFails, BatchDone, Goto, MainOnly
<1>11. CASE Poll
  BY <1>1, <1>11 DEF Poll
<1>12. CASE Raise
  BY <1>1, <1>12 DEF Raise, MainOnly
<1>13. CASE Ignored \/ Unknown \/ Refuse \/ RouteFails
  <2>1. (NextUpdate("press") \/ NextUpdate("talk") \/ NextUpdate("route")) /\ MainOnly
    BY <1>13 DEF Ignored, Unknown, Refuse, RouteFails
  <2> QED BY <1>1, <2>1 DEF NextUpdate, MainOnly
<1>14. CASE Decide
  <2>1. mem'.last = mem.last
    BY <1>1, <1>14 DEF Decide, Snaps
  <2>2. DOMAIN ruler' = DOMAIN ruler /\ ruler'.key = ruler.key /\ ruler'.convs = ruler.convs
    BY <1>1, <1>14 DEF Decide
  <2> QED BY <1>1, <1>14, <2>1, <2>2 DEF Decide, NextUpdate
<1>15. CASE Bind
  BY <1>1, <1>15 DEF Bind, Goto, Snaps
<1>16. CASE MainSaves
  BY <1>1, <1>16, SavesKnown, MainIsWriter DEF MainSaves
<1>17. CASE Ticked \/ StopAsked
  <2>1. saving' = [saving EXCEPT ![Main] = NoSave] /\ saving \in [Writers -> Savings]
    BY <1>17 DEF Ticked, StopAsked, ChannelInv, Shape
  <2>2. \A w \in Workers : saving'[w] = saving[w]
    BY <2>1, MainIsWriter
  <2> QED BY <1>1, <1>17, <2>2 DEF Ticked, StopAsked
<1> QED BY <1>2, <1>3, <1>4, <1>5, <1>6, <1>7, <1>8, <1>9, <1>10, <1>11, <1>12, <1>13, <1>14,
           <1>15, <1>16, <1>17

\* What comes is later than all that was handed out.
LEMMA TakeConv == ASSUME ChannelInv, ConvInv, ChannelInv', Take PROVE ConvInv'
<1> DEFINE u == main.next
<1>1. /\ Handed \in Nat /\ mem.last \in Nat /\ Handed <= mem.last + 1 /\ u \in Nat
      /\ DOMAIN main = {"pc", "events", "next", "upto", "task", "target", "stopping"}
      /\ DOMAIN hist = {"lives", "told", "meddled", "taken", "excused", "ran", "lost"}
      /\ main.upto \in 0 .. Len(Script) /\ DOMAIN Script = 1 .. Len(Script) /\ Len(Script) \in Nat
  BY HandedFacts, ScriptFacts DEF ChannelInv, Shape
<1>2. u > mem.last /\ u <= main.upto /\ main.pc = "take"
  BY DEF Take, At, ChannelInv, Batched, InBatch
<1>3. u \in DOMAIN Script /\ Script[u].kind \in {"talk", "press"}
  BY <1>1, <1>2, ScriptFacts DEF ChannelInv, Shape
<1>4. mem'.last = u
  BY <1>2 DEF Take, ChannelInv, Shape, Snaps
<1>5. NoTask.update = 0 /\ [NoTask EXCEPT !.update = u] \in Tasks /\ [NoTask EXCEPT !.update = u].update = u
  BY <1>1 DEF NoTask, Tasks, NoKey
<1>6. /\ main'.pc = Script[u].kind /\ main'.task = [NoTask EXCEPT !.update = u]
      /\ UNCHANGED <<scene, ruler, keys, slot, crew>> /\ UNCHANGED Lived /\ Script' = Script
  BY <1>1 DEF Take, Script
<1> HIDE DEF u
<1>7. CrewShape' /\ Registered' /\ Employed'
  BY <1>5, <1>6 DEF ConvInv, CrewShape, Registered, Employed, Take
<1>8. Held'
  BY <1>3, <1>4, <1>5, <1>6 DEF Held, Holding, Talking, Update, At
<1>9. Handed' = u
  BY <1>3, <1>5, <1>6 DEF Handed, Holding, Talking
<1>10. \A t \in Threads : Named(t)'
  BY <1>3, <1>6 DEF Named
<1>11. main'.pc # "off" /\ main.pc # "off"
  BY <1>2, <1>3, <1>6
<1> QED BY <1>1, <1>2, <1>6, <1>7, <1>8, <1>9, <1>10, <1>11, ConvStep

\* The key that Agent Ruler names is one in play.
LEMMA RouteConv == ASSUME ChannelInv, ConvInv, ChannelInv', Route PROVE ConvInv'
<1>1. /\ Handed \in Nat /\ main.pc = "route" /\ main.task \in Tasks
      /\ DOMAIN main = {"pc", "events", "next", "upto", "task", "target", "stopping"}
  BY HandedFacts DEF Route, At, ConvInv, CrewShape
<1>2. Update.thread \in Threads /\ ruler.key[Update.thread] \in Nat
  BY <1>1, TalkThread DEF ConvInv, CrewShape, Talking
<1>3. main'.pc = "enqueue" /\ main'.task = [main.task EXCEPT !.key = ruler.key[Update.thread]]
  BY <1>1 DEF Route
<1>4. main'.task \in Tasks /\ main'.task.update = main.task.update
      /\ main'.task.key = ruler.key[Update.thread]
  BY <1>1, <1>2, <1>3 DEF Tasks
<1>5. UNCHANGED <<scene, ruler, mem, keys, slot, crew, hist>> /\ Update' = Update
  BY <1>4 DEF Route, MainOnly, Update, Script
<1>6. CrewShape' /\ Registered' /\ Employed'
  BY <1>4, <1>5 DEF ConvInv, CrewShape, Registered, Employed, Route, MainOnly
<1>7. Held'
  BY <1>1, <1>3, <1>4, <1>5 DEF ConvInv, Held, Holding, Talking, At, Update, Script
<1>8. Handed' = Handed
  BY <1>1, <1>3, <1>4 DEF Handed, Holding, Talking
<1>9. ASSUME NEW t \in Threads PROVE Named(t)'
  <2>1. InPlay(t, ruler.key[t])
    BY <1>1 DEF ConvInv, ThreadOK, At
  <2> QED BY <1>4, <1>5, <2>1 DEF Named, InPlay, Conv
<1> QED BY <1>1, <1>3, <1>5, <1>6, <1>7, <1>8, <1>9, ConvStep

LEMMA NewWorker ==
    ASSUME ConvInv, NEW c \in Crews, c.pc = "idle", c.queue = <<>>, main'.pc # "off"
    PROVE  CrewOK(c)'
BY DEF CrewOK, At

LEMMA EnqueueConv == ASSUME ChannelInv, ConvInv, ChannelInv', Enqueue PROVE ConvInv'
<1>1. /\ Handed \in Nat /\ main.pc = "enqueue" /\ main.task \in Tasks
      /\ DOMAIN main = {"pc", "events", "next", "upto", "task", "target", "stopping"}
      /\ slot \in [Threads -> Workers \cup {Nobody}] /\ crew \in [Workers -> Crews]
  BY HandedFacts DEF Enqueue, At, ConvInv, CrewShape
<1>2. Update.thread \in Threads
  BY <1>1, TalkThread DEF ConvInv, Talking
<1> DEFINE t == Update.thread
<1>3. main'.pc = "put" /\ main'.task = main.task
  BY <1>1 DEF Enqueue
<1>4. UNCHANGED <<scene, ruler, mem, keys, hist>> /\ Update' = Update
  BY <1>3 DEF Enqueue, Update, Script
<1>5. Handed' = Handed
  BY <1>1, <1>3, <1>4 DEF Handed, Holding, Talking
<1>6. ASSUME NEW x \in Threads PROVE Named(x)'
  <2>1. Named(x)
    BY <1>1 DEF ConvInv, ThreadOK, At
  <2> QED BY <1>1, <1>3, <1>4, <2>1 DEF Named, InPlay, Conv
<1>7. main'.target \in Workers /\ (crew'[main'.target].pc # "none" => crew'[main'.target].thread = t)
         => Held'
  BY <1>1, <1>3, <1>4 DEF ConvInv, Held, Holding, Talking, At, Update, Script
<1>8. CASE slot[t] # Nobody
  <2>1. main'.target = slot[t] /\ UNCHANGED <<slot, crew>>
    BY <1>1, <1>8 DEF Enqueue
  <2>2. slot[t] \in Workers
    BY <1>1, <1>2, <1>8
  <2>3. crew[slot[t]].thread = t
    BY <1>2, <1>8 DEF ConvInv, Registered
  <2>4. CrewShape' /\ Registered' /\ Employed' /\ Held'
    BY <1>3, <1>4, <1>7, <2>1, <2>2, <2>3 DEF ConvInv, CrewShape, Registered, Employed, Enqueue
  <2> QED BY <1>1, <1>3, <1>4, <1>5, <1>6, <2>1, <2>4, ConvStep
<1>9. CASE slot[t] = Nobody
  <2>1. PICK w \in Workers : w = AnyOf(Unemployed) /\ crew[w].pc = "none"
    BY <1>9 DEF Enqueue, AnyOf, Unemployed
  <2>3. PICK c \in Crews : /\ c = [NoWorker EXCEPT !.pc = "idle", !.thread = t]
                           /\ c.pc = "idle" /\ c.thread = t /\ c.queue = <<>>
    <3> DEFINE c == [NoWorker EXCEPT !.pc = "idle", !.thread = t]
    <3>1. c.pc = "idle" /\ c.thread = t /\ c.queue = <<>>
      BY DEF NoWorker
    <3>2. c \in Crews
      BY <1>2, NoWorkerTyped DEF Crews
    <3> QED BY <3>1, <3>2
  <2>2. slot' = [slot EXCEPT ![t] = w] /\ crew' = [crew EXCEPT ![w] = c] /\ main'.target = w
    BY <1>1, <1>9, <2>1, <2>3 DEF Enqueue
  <2>4. /\ crew'[w] = c /\ \A v \in Workers : v # w => crew'[v] = crew[v]
        /\ crew' \in [Workers -> Crews] /\ slot' \in [Threads -> Workers \cup {Nobody}]
    BY <1>1, <1>2, <2>1, <2>2, <2>3
  <2>5. CrewShape' /\ Employed' /\ Held'
    BY <1>3, <1>4, <1>7, <2>1, <2>2, <2>3, <2>4 DEF ConvInv, CrewShape, Employed, Enqueue
  <2>6. Registered'
    <3>1. \A x \in Threads : slot[x] # w
      BY <2>1, NobodyWorks DEF ConvInv, Registered
    <3>2. \A v \in Workers : v # w => (crew[v].pc # "none" => slot[crew[v].thread] = v)
      BY DEF ConvInv, Registered
    <3>3. ASSUME NEW v \in Workers, crew'[v].pc # "none"
          PROVE  crew'[v].thread \in Threads /\ slot'[crew'[v].thread] = v
      BY <1>1, <1>2, <1>9, <2>1, <2>2, <2>3, <2>4, <3>3, NobodyWorks DEF ConvInv, Registered
    <3>4. ASSUME NEW x \in Threads, slot'[x] # Nobody
          PROVE  crew'[slot'[x]].pc # "none" /\ crew'[slot'[x]].thread = x
      BY <1>1, <1>2, <1>9, <2>1, <2>2, <2>3, <2>4, <3>1, <3>4 DEF ConvInv, Registered
    <3> QED BY <3>3, <3>4 DEF Registered
  <2>7. WorkerOK(w)'
    BY <1>3, <2>3, <2>4, NewWorker DEF WorkerOK
  <2> QED BY <1>1, <1>3, <1>4, <1>5, <1>6, <2>4, <2>5, <2>6, <2>7, ConvStep
<1> QED BY <1>8, <1>9

\* A message goes to the end of the queue of its thread, and is older than
\* whatever comes.
LEMMA QueuedTask ==
    ASSUME ChannelInv, ConvInv, NEW c \in Crews, CrewOK(c), c.pc # "none", NEW task \in Tasks,
           NEW d \in Crews, d = [c EXCEPT !.queue = Append(c.queue, task)],
           ThreadOf(task) = c.thread, task.update = Handed, Past(c.thread, Handed),
           InPlay(c.thread, task.key), ~At("off"),
           UNCHANGED <<scene, keys>>, ruler'.key = ruler.key, UNCHANGED Lived,
           Handed' \in Nat, Handed' > Handed, ~At("off")'
    PROVE  CrewOK(d)'
<1>1. /\ c.queue \in Seq(Tasks) /\ Len(c.queue) \in Nat
      /\ d.queue = Append(c.queue, task) /\ d.thread = c.thread /\ d.task = c.task
      /\ d.key = c.key /\ d.pc = c.pc /\ Handed \in Nat
  BY HandedFacts DEF Crews
<1>2. /\ Len(d.queue) = Len(c.queue) + 1 /\ DOMAIN d.queue = 1 .. (Len(c.queue) + 1)
      /\ DOMAIN c.queue = 1 .. Len(c.queue) /\ d.queue[Len(c.queue) + 1] = task
      /\ \A i \in DOMAIN c.queue : d.queue[i] = c.queue[i] /\ c.queue[i] \in Tasks
  BY <1>1
<1>3. \A i \in DOMAIN d.queue : i \in DOMAIN c.queue \/ (i = Len(c.queue) + 1 /\ d.queue[i] = task)
  BY <1>1, <1>2
<1>4. \A i \in DOMAIN c.queue : c.queue[i].update \in Nat /\ c.queue[i].update < Handed
                                /\ d.queue[i].update = c.queue[i].update
  BY <1>2 DEF CrewOK, Tasks
<1>5. /\ \A k : InPlay(c.thread, k) => InPlay(c.thread, k)'
      /\ \A u : Past(c.thread, u) => Past(c.thread, u)'
      /\ \A x : ThreadOf(x)' = ThreadOf(x)
      /\ Conv(c.thread)' = Conv(c.thread)
  BY DEF InPlay, Conv, Past, ThreadOf, Script
<1>6. ASSUME NEW i \in DOMAIN d.queue
      PROVE  /\ ThreadOf(d.queue[i]) = c.thread
             /\ d.queue[i].update <= Handed /\ d.queue[i].update \in Nat
             /\ Past(c.thread, d.queue[i].update)
             /\ InPlay(c.thread, d.queue[i].key)
  <2>1. CASE i \in DOMAIN c.queue
    BY <1>1, <1>2, <1>4, <2>1 DEF CrewOK
  <2>2. CASE i = Len(c.queue) + 1 /\ d.queue[i] = task
    BY <1>1, <2>2
  <2> QED BY <1>3, <2>1, <2>2
<1>7. \A i, j \in DOMAIN d.queue : i < j => d.queue[i].update < d.queue[j].update
  <2> SUFFICES ASSUME NEW i \in DOMAIN d.queue, NEW j \in DOMAIN d.queue, i < j
               PROVE  d.queue[i].update < d.queue[j].update
    OBVIOUS
  <2>1. i \in DOMAIN c.queue
    BY <1>1, <1>2, <1>3
  <2>2. CASE j \in DOMAIN c.queue
    BY <1>4, <2>1, <2>2 DEF CrewOK
  <2>3. CASE j = Len(c.queue) + 1 /\ d.queue[j] = task
    BY <1>4, <2>1, <2>3
  <2> QED BY <1>3, <2>2, <2>3
<1>8. c.pc = "run" => c.task.update \in Nat /\ c.task.update < Handed
      /\ \A i \in DOMAIN d.queue : c.task.update < d.queue[i].update
  <2> SUFFICES ASSUME c.pc = "run" PROVE c.task.update \in Nat /\ c.task.update < Handed
                  /\ \A i \in DOMAIN d.queue : c.task.update < d.queue[i].update
    OBVIOUS
  <2>1. c.task.update \in Nat /\ c.task.update < Handed
        /\ \A i \in DOMAIN c.queue : c.task.update < c.queue[i].update
    BY DEF CrewOK, Crews, Tasks
  <2> QED BY <1>3, <1>4, <2>1
<1>9. d.pc # "none" =>
          \A i \in DOMAIN d.queue :
              /\ ThreadOf(d.queue[i])' = d.thread /\ d.queue[i].update < Handed'
              /\ Past(d.thread, d.queue[i].update)' /\ InPlay(d.thread, d.queue[i].key)'
  BY <1>1, <1>5, <1>6
<1>10. d.pc = "run" =>
          /\ Past(d.thread, d.task.update)' /\ d.task.update < Handed'
          /\ InPlay(d.thread, d.task.key)'
  BY <1>1, <1>5, <1>8 DEF CrewOK
<1>11. d.pc \in {"run", "tell"} => d.key = Conv(d.thread)'
  BY <1>1, <1>5 DEF CrewOK
<1> QED BY <1>1, <1>7, <1>8, <1>9, <1>10, <1>11 DEF CrewOK

LEMMA SameCrew ==
    ASSUME ConvInv, NEW w \in Workers, crew'[w].thread = crew[w].thread,
           crew[w].pc # "none", crew'[w].pc # "none",
           slot' = slot, \A v \in Workers : v # w => crew'[v] = crew[v]
    PROVE  Registered'
<1>1. slot \in [Threads -> Workers \cup {Nobody}]
  BY DEF ConvInv, CrewShape
<1>2. ASSUME NEW v \in Workers, crew'[v].pc # "none"
      PROVE  crew'[v].thread \in Threads /\ slot[crew'[v].thread] = v
  BY <1>2 DEF ConvInv, Registered
<1>3. ASSUME NEW t \in Threads, slot[t] # Nobody
      PROVE  crew'[slot[t]].pc # "none" /\ crew'[slot[t]].thread = t
  BY <1>1, <1>3 DEF ConvInv, Registered
<1> QED BY <1>2, <1>3 DEF Registered

LEMMA PutConv == ASSUME ChannelInv, ConvInv, ChannelInv', Put PROVE ConvInv'
<1>1. /\ Handed \in Nat /\ mem.last \in Nat /\ main.pc = "put" /\ main.task \in Tasks
      /\ Handed = mem.last /\ main.task.update = Handed
      /\ DOMAIN main = {"pc", "events", "next", "upto", "task", "target", "stopping"}
      /\ slot \in [Threads -> Workers \cup {Nobody}] /\ crew \in [Workers -> Crews]
  BY HandedFacts DEF Put, NextUpdate, At, ConvInv, CrewShape, Holding, Talking, Handed
<1>2. Update.thread \in Threads
  BY <1>1, TalkThread DEF ConvInv, Talking
<1>3. main'.pc = "take" /\ main'.task = NoTask /\ NoTask \in Tasks
  BY <1>1, NoWorkerTyped DEF Put, NextUpdate
<1>4. UNCHANGED <<scene, ruler, mem, keys, slot, hist>>
  BY DEF Put
<1>5. Handed' = mem.last + 1
  BY <1>1, <1>3, <1>4 DEF Handed, Holding, Talking
<1>6. /\ Held' /\ \A x \in Threads : Named(x)'
  BY <1>3 DEF Held, Holding, Talking, At, Named
<1> DEFINE target == main.target
<1>7. target \in Workers /\ (crew[target].pc # "none" => crew[target].thread = Update.thread)
  BY <1>1 DEF ConvInv, Held, At
<1>8. CASE crew[target].pc = "none"
  <2>1. crew' = crew
    BY <1>8 DEF Put
  <2>2. CrewShape' /\ Registered' /\ Employed'
    BY <1>3, <1>4, <2>1 DEF ConvInv, CrewShape, Registered, Employed, Put
  <2> QED BY <1>1, <1>3, <1>4, <1>5, <1>6, <2>1, <2>2, ConvStep
<1>9. CASE crew[target].pc # "none"
  <2>1. PICK w \in Workers : w = target
    BY <1>7
  <2>2. PICK c \in Crews : c = crew[w]
    BY <1>1
  <2>3. c.queue \in Seq(Tasks) /\ c.pc # "none" /\ c.thread = Update.thread
    BY <1>7, <1>9, <2>1, <2>2 DEF Crews
  <2>4. PICK d \in Crews : d = [c EXCEPT !.queue = Append(c.queue, main.task)]
    <3>1. Append(c.queue, main.task) \in Seq(Tasks)
      BY <1>1, <2>3
    <3> QED BY <3>1 DEF Crews
  <2>5. d.pc = c.pc /\ d.thread = c.thread
    BY <2>4 DEF Crews
  <2>6. crew' = [crew EXCEPT ![w] = d]
    BY <1>1, <1>9, <2>1, <2>2, <2>4 DEF Put
  <2>7. crew' \in [Workers -> Crews] /\ crew'[w] = d /\ \A v \in Workers : v # w => crew'[v] = crew[v]
    BY <1>1, <2>6
  <2>8. CrewShape' /\ Registered' /\ Employed'
    <3>1. CrewShape'
      BY <1>3, <1>4, <2>7 DEF ConvInv, CrewShape
    <3>2. Registered'
      BY <1>4, <2>2, <2>3, <2>5, <2>7, SameCrew
    <3>3. Employed'
      BY <2>2, <2>3, <2>5, <2>7 DEF ConvInv, Employed, Put
    <3> QED BY <3>1, <3>2, <3>3
  <2>9. CrewOK(c)
    BY <2>2 DEF ConvInv, WorkerOK
  <2>10. Past(c.thread, Handed) /\ InPlay(c.thread, main.task.key) /\ ThreadOf(main.task) = c.thread
    <3>1. ThreadOK(c.thread)
      BY <1>2, <2>3 DEF ConvInv
    <3> QED BY <1>1, <2>3, <3>1 DEF ThreadOK, At, Named, ThreadOf, Update
  <2>11. PICK task \in Tasks : task = main.task
    BY <1>1
  <2>12. CrewOK(d)'
    BY <1>1, <1>3, <1>4, <1>5, <2>3, <2>4, <2>9, <2>10, <2>11, QueuedTask DEF At
  <2>13. WorkerOK(w)'
    BY <2>7, <2>12 DEF WorkerOK
  <2> QED BY <1>1, <1>3, <1>4, <1>5, <1>6, <2>7, <2>8, <2>13, ConvStep
<1> QED BY <1>8, <1>9

\* A life of the process begins and ends with nothing handed out or learned.
LEMMA StartConv == ASSUME ChannelInv, ConvInv, ChannelInv', Start PROVE ConvInv'
<1>1. /\ DOMAIN main = {"pc", "events", "next", "upto", "task", "target", "stopping"}
      /\ DOMAIN hist = {"lives", "told", "meddled", "taken", "excused", "ran", "lost"}
      /\ main.pc = "off" /\ (\A w \in Workers : crew[w].pc = "none") /\ hist.lives \in Nat
  BY HandedFacts DEF Start, At, ChannelInv, Dormant, ConvInv, CrewShape
<1>2. /\ main'.pc = "prune" /\ main'.task = main.task
      /\ hist'.ran = hist.ran /\ hist'.lost = hist.lost /\ hist'.lives = hist.lives + 1
      /\ UNCHANGED <<scene, ruler, keys, slot, crew>>
  BY <1>1 DEF Start, Goto
<1>3. CrewShape' /\ Registered' /\ Employed'
  BY <1>1, <1>2 DEF ConvInv, CrewShape, Registered, Employed, Start
<1>4. Held'
  BY <1>2 DEF Held, Holding, Talking, At
<1>5. ASSUME NEW t \in Threads PROVE ThreadOK(t)'
  <2>1. keys[t] = NoKey /\ OneRun(t)
    BY <1>1 DEF ConvInv, ThreadOK, At
  <2>2. \A i \in DOMAIN hist.ran[t] : hist.ran[t][i].life \in Nat /\ hist.ran[t][i].life <= hist.lives
    BY <2>1, RanTyped DEF OneRun, ConvInv, Runs
  <2>3. OneRun(t)'
    BY <1>1, <1>2, <2>1, <2>2 DEF OneRun, Conv
  <2>4. \A u : Past(t, u)'
    BY <1>1, <1>2, <2>2 DEF Past
  <2>5. InPlay(t, ruler.key[t])' /\ Named(t)'
    BY <1>2, <2>1 DEF InPlay, Conv, Named
  <2>6. Past(t, Handed)'
    BY <2>4 DEF Past
  <2> QED BY <1>2, <2>3, <2>5, <2>6 DEF ThreadOK, At
<1>6. ASSUME NEW w \in Workers PROVE WorkerOK(w)'
  <2> SUFFICES ASSUME NEW c \in Crews, c = crew[w] PROVE CrewOK(c)'
    BY <1>2 DEF WorkerOK
  <2>1. CrewOK(c) /\ c.pc = "none"
    BY <1>1 DEF ConvInv, WorkerOK
  <2> QED BY <2>1 DEF CrewOK
<1> QED BY <1>3, <1>4, <1>5, <1>6 DEF ConvInv

\* What the process has learned and Agent Ruler has not is lost.
LEMMA EndConv == ASSUME ChannelInv, ConvInv, NEW S, End(S) PROVE ConvInv'
<1>1. main'.pc = "off" /\ main'.task = NoTask /\ NoTask \in Tasks
  BY NoWorkerTyped DEF End, Off
<1>2. /\ hist'.ran = hist.ran /\ hist'.lives = hist.lives /\ hist'.lost = hist.lost \cup Untold
      /\ ruler' = ruler /\ keys' = [t \in Threads |-> NoKey]
  BY HandedFacts DEF End
<1>3. crew' = [w \in Workers |-> NoWorker] /\ slot' = [t \in Threads |-> Nobody]
  BY DEF End
<1>4. CrewShape' /\ Registered' /\ Employed'
  BY <1>1, <1>2, <1>3, NoWorkerTyped, FreshTyped, MainIsWriter
     DEF ConvInv, CrewShape, Registered, Employed, NoKey, End
<1>5. Held'
  BY <1>1 DEF Held, Holding, Talking, At
<1>6. ASSUME NEW t \in Threads PROVE ThreadOK(t)'
  <2>1. OneRun(t)
    BY DEF ConvInv, ThreadOK
  <2>2. keys'[t] = NoKey /\ Conv(t)' = ruler.key[t]
    BY <1>2 DEF Conv
  <2>3. Conv(t) = Conv(t)' \/ Conv(t) \in hist'.lost
    BY <1>2, <2>2 DEF Conv, Untold
  <2>4. OneRun(t)'
    BY <1>2, <2>1, <2>3 DEF OneRun
  <2> QED BY <1>1, <2>2, <2>4 DEF ThreadOK, At
<1>7. ASSUME NEW w \in Workers PROVE WorkerOK(w)'
  <2> SUFFICES ASSUME NEW c \in Crews, c = NoWorker PROVE CrewOK(c)'
    BY <1>3 DEF WorkerOK
  <2> QED BY NoWorkerTyped DEF CrewOK
<1> QED BY <1>4, <1>5, <1>6, <1>7 DEF ConvInv

\* A step of one worker, in which it goes on to another place.
WorkerMoves(w, c, d) ==
    /\ crew' = [crew EXCEPT ![w] = d] /\ c = crew[w] /\ c.pc # "none" /\ d.pc # "none"
    /\ d.thread = c.thread /\ UNCHANGED <<scene, main, keys, slot>> /\ mem'.last = mem.last

LEMMA WorkerConv ==
    ASSUME ChannelInv, ConvInv, ChannelInv', NEW w \in Workers, NEW c \in Crews, NEW d \in Crews,
           WorkerMoves(w, c, d), CrewOK(d), ruler' = ruler, UNCHANGED Lived,
           \A v \in Workers : saving'[v].pc \in {"no", saving[v].pc} \/ v = w
    PROVE  ConvInv'
<1> USE DEF WorkerMoves
<1>1. /\ crew' \in [Workers -> Crews] /\ crew'[w] = d /\ \A v \in Workers : v # w => crew'[v] = crew[v]
  BY DEF ConvInv, CrewShape
<1>2. CrewShape'
  BY <1>1 DEF ConvInv, CrewShape
<1>3. Registered'
  BY <1>1, SameCrew
<1>4. Employed'
  BY <1>1 DEF ConvInv, Employed
<1>5. Handed' = Handed /\ Handed \in Nat
  BY HandedFacts DEF Handed, Holding, Talking
<1>6. Held'
  BY <1>1 DEF ConvInv, Held, Holding, Talking, At, Update, Script
<1>7. ~At("off")
  <2>1. CrewOK(c)
    BY DEF ConvInv, WorkerOK
  <2> QED BY <2>1 DEF CrewOK
<1>8. ASSUME NEW t \in Threads PROVE Named(t)'
  <2>1. Named(t)
    BY <1>7 DEF ConvInv, ThreadOK
  <2> QED BY <2>1 DEF Named, InPlay, Conv, Update, Script
<1>9. CrewOK(d)'
  BY <1>5, RecordStep
<1>10. WorkerOK(w)'
  BY <1>1, <1>9 DEF WorkerOK
<1> QED BY <1>1, <1>2, <1>3, <1>4, <1>5, <1>6, <1>8, <1>10, ConvStep

\* A task is taken up with the key in play, or what the process has learned.
LEMMA TakenUp ==
    ASSUME ChannelInv, ConvInv, NEW c \in Crews, CrewOK(c), c.pc = "idle", c.queue # <<>>, ~At("off"),
           c.thread \in Threads,
           NEW d, d = [c EXCEPT !.pc = "run", !.queue = Tail(c.queue), !.task = Head(c.queue),
                                !.key = KeyFor(Head(c.queue))]
    PROVE  d \in Crews /\ CrewOK(d) /\ d.pc = "run" /\ d.thread = c.thread
<1> DEFINE task == Head(c.queue)
           t == c.thread
<1>1. c.queue \in Seq(Tasks) /\ Len(c.queue) \in Nat /\ 1 \in DOMAIN c.queue /\ task = c.queue[1]
  BY DEF Crews
<1>2. /\ Tail(c.queue) \in Seq(Tasks) /\ task \in Tasks
      /\ \A i \in DOMAIN Tail(c.queue) : /\ i + 1 \in DOMAIN c.queue /\ i < i + 1 /\ 1 < i + 1
                                         /\ Tail(c.queue)[i] = c.queue[i + 1]
      /\ DOMAIN Tail(c.queue) \subseteq Nat
  BY <1>1
<1>3. /\ ThreadOf(task) = t /\ task.update < Handed /\ Past(t, task.update) /\ InPlay(t, task.key)
  BY <1>1 DEF CrewOK
<1>5. task.key \in Nat /\ keys[t] \in Nat
  BY <1>2 DEF ConvInv, CrewShape, Tasks
<1>6. KeyFor(task) = Conv(t)
  BY <1>3 DEF KeyFor, InPlay, Conv
<1>7. KeyFor(task) \in Nat
  BY <1>3, <1>5 DEF KeyFor
<1>8. d \in Crews
  BY <1>2, <1>7 DEF Crews
<1>9. d.pc = "run" /\ d.queue = Tail(c.queue) /\ d.task = task /\ d.thread = t /\ d.key = KeyFor(task)
  BY DEF Crews
<1> HIDE DEF task, t
<1>10. \A i \in DOMAIN d.queue :
          /\ ThreadOf(d.queue[i]) = t /\ d.queue[i].update < Handed
          /\ Past(t, d.queue[i].update) /\ InPlay(t, d.queue[i].key)
          /\ task.update < d.queue[i].update
  BY <1>1, <1>2, <1>9 DEF CrewOK, t, task
<1>11. \A i, j \in DOMAIN d.queue : i < j => d.queue[i].update < d.queue[j].update
  <2> SUFFICES ASSUME NEW i \in DOMAIN d.queue, NEW j \in DOMAIN d.queue, i < j
               PROVE  d.queue[i].update < d.queue[j].update
    OBVIOUS
  <2>1. i + 1 < j + 1 /\ i + 1 \in DOMAIN c.queue /\ j + 1 \in DOMAIN c.queue
        /\ d.queue[i] = c.queue[i + 1] /\ d.queue[j] = c.queue[j + 1]
    BY <1>2, <1>9
  <2> QED BY <2>1 DEF CrewOK
<1> QED BY <1>3, <1>6, <1>8, <1>9, <1>10, <1>11 DEF CrewOK, t

LEMMA MovedOn ==
    ASSUME NEW c \in Crews, CrewOK(c), c.pc # "none", NEW d, NEW pc \in {"idle", "save", "reply", "leave"},
           NEW task \in Tasks, NEW k \in Nat,
           d = [c EXCEPT !.pc = pc, !.task = task, !.key = k]
    PROVE  d \in Crews /\ CrewOK(d) /\ d.pc = pc /\ d.thread = c.thread
<1>1. d \in Crews /\ d.queue = c.queue /\ d.thread = c.thread /\ d.pc = pc
  BY DEF Crews
<1> QED BY <1>1 DEF CrewOK

\* The runner fails before it has run anything.
NotRun(w) == RunFails(w) /\ UNCHANGED <<ruler, hist>>

LEMMA MovedSteps ==
    ASSUME ChannelInv, ConvInv, ChannelInv', NEW w \in Workers,
           \/ Work(w) \/ TellFails(w) \/ Saved(w) \/ Reply(w) \/ TimeOut(w)
           \/ NotRun(w)
    PROVE  ConvInv'
<1>1. PICK c \in Crews : c = crew[w]
  BY DEF ConvInv, CrewShape
<1>2. c.pc # "none"
  BY <1>1 DEF Work, NotRun, RunFails, TellFails, Saved, Reply, TimeOut, ConvInv, Employed
<1>3. CrewOK(c) /\ ~At("off") /\ c.thread \in Threads /\ c.task \in Tasks /\ c.key \in Nat
  BY <1>1, <1>2 DEF ConvInv, WorkerOK, CrewOK, Registered, Crews
<1>4. /\ UNCHANGED <<scene, main, keys, slot, ruler, hist>> /\ mem'.last = mem.last
      /\ crew \in [Workers -> Crews]
  BY DEF Work, NotRun, RunFails, TellFails, Saved, Reply, TimeOut, AsideMain, ConvInv, CrewShape
<1>5. \A v \in Workers : saving'[v].pc \in {"no", saving[v].pc} \/ v = w
  BY DEF Work, NotRun, RunFails, TellFails, Saved, Reply, TimeOut, ChannelInv, Shape, Writers
<1>6. NoTask \in Tasks /\ NoKey \in Nat
  BY NoWorkerTyped DEF NoKey
<1>7. CASE Work(w)
  <2>1. PICK d : d = [c EXCEPT !.pc = "run", !.queue = Tail(c.queue), !.task = Head(c.queue),
                               !.key = KeyFor(Head(c.queue))]
    OBVIOUS
  <2>2. crew' = [crew EXCEPT ![w] = d] /\ c.pc = "idle" /\ c.queue # <<>>
    BY <1>1, <1>4, <1>7, <2>1 DEF Work
  <2>3. d \in Crews /\ CrewOK(d) /\ d.pc = "run" /\ d.thread = c.thread
    BY <1>3, <2>1, <2>2, TakenUp
  <2>4. WorkerMoves(w, c, d)
    BY <1>1, <1>2, <1>4, <2>2, <2>3 DEF WorkerMoves
  <2> QED BY <1>4, <1>5, <2>3, <2>4, WorkerConv
<1>8. CASE NotRun(w) \/ TellFails(w) \/ Saved(w) \/ TimeOut(w)
  <2>1. PICK pc \in {"reply", "leave"} : crew' = [crew EXCEPT ![w].pc = pc]
    BY <1>8 DEF NotRun, RunFails, TellFails, Saved, TimeOut
  <2>2. PICK d : d = [c EXCEPT !.pc = pc, !.task = c.task, !.key = c.key]
    OBVIOUS
  <2>3. crew' = [crew EXCEPT ![w] = d]
    <3>1. d = [c EXCEPT !.pc = pc]
      BY <2>2 DEF Crews
    <3> QED BY <1>1, <1>4, <2>1, <3>1
  <2>4. d \in Crews /\ CrewOK(d) /\ d.pc = pc /\ d.thread = c.thread
    BY <1>2, <1>3, <2>2, MovedOn
  <2>5. WorkerMoves(w, c, d)
    BY <1>1, <1>2, <1>4, <2>3, <2>4 DEF WorkerMoves
  <2> QED BY <1>4, <1>5, <2>4, <2>5, WorkerConv
<1>9. CASE Reply(w)
  <2>1. PICK d : d = [c EXCEPT !.pc = "idle", !.task = NoTask, !.key = NoKey]
    OBVIOUS
  <2>2. crew' = [crew EXCEPT ![w] = d]
    BY <1>1, <1>4, <1>9, <2>1 DEF Reply
  <2>3. d \in Crews /\ CrewOK(d) /\ d.pc = "idle" /\ d.thread = c.thread
    BY <1>2, <1>3, <1>6, <2>1, MovedOn
  <2>4. WorkerMoves(w, c, d)
    BY <1>1, <1>2, <1>4, <2>2, <2>3 DEF WorkerMoves
  <2> QED BY <1>4, <1>5, <2>3, <2>4, WorkerConv
<1> QED BY <1>7, <1>8, <1>9

LEMMA WorkerSavesConv ==
    ASSUME ChannelInv, ConvInv, ChannelInv', NEW w \in Workers, WorkerSaves(w)
    PROVE  ConvInv'
<1>1. /\ UNCHANGED <<scene, main, keys, slot, ruler, crew>> /\ mem'.last = mem.last
      /\ DOMAIN hist = {"lives", "told", "meddled", "taken", "excused", "ran", "lost"}
      /\ crew[w].pc = "save" /\ Saves(w) /\ w \in Writers
  BY HandedFacts, MainIsWriter DEF WorkerSaves, AsideMain
<1>2. UNCHANGED Lived
  BY <1>1 DEF WorkerSaves
<1>3. \A v \in Workers : v # w => saving'[v].pc = saving[v].pc
  BY <1>1, SavesKnown, MainIsWriter
<1>4. Employed'
  BY <1>1, <1>3 DEF ConvInv, Employed
<1>5. CrewShape' /\ Registered' /\ Held'
  BY <1>1, <1>2 DEF ConvInv, CrewShape, Registered, Held, Holding, Talking, At, Update, Script
<1>6. Handed' = Handed /\ Handed \in Nat
  BY <1>1, HandedFacts DEF Handed, Holding, Talking
<1>7. ~At("off")
  BY <1>1 DEF ChannelInv, Dormant
<1>8. ASSUME NEW t \in Threads PROVE Named(t)'
  <2>1. Named(t)
    BY <1>7 DEF ConvInv, ThreadOK
  <2> QED BY <1>1, <1>2, <2>1 DEF Named, InPlay, Conv, Update, Script
<1> QED BY <1>1, <1>2, <1>4, <1>5, <1>6, <1>8, ConvStep

\* The queue is unregistered with its worker.
LEMMA LeaveConv ==
    ASSUME ChannelInv, ConvInv, ChannelInv', NEW w \in Workers, DieSaving(w) \/ GoHome(w)
    PROVE  ConvInv'
<1>1. /\ UNCHANGED <<scene, main, keys, ruler, hist>> /\ mem'.last = mem.last /\ Leave(w)
      /\ crew[w].pc # "none" /\ w \in Writers
  BY MainIsWriter DEF DieSaving, GoHome, Leave, AsideMain, ConvInv, Employed
<1>2. PICK t \in Threads : t = crew[w].thread /\ slot[t] = w
  BY <1>1 DEF ConvInv, Registered
<1>3. /\ slot \in [Threads -> Workers \cup {Nobody}] /\ crew \in [Workers -> Crews]
      /\ saving \in [Writers -> Savings]
  BY DEF ConvInv, CrewShape, ChannelInv, Shape
<1>4. slot' = [slot EXCEPT ![t] = Nobody] /\ crew' = [crew EXCEPT ![w] = NoWorker]
      /\ saving' = [saving EXCEPT ![w] = NoSave]
  BY <1>1, <1>2, <1>3 DEF Leave
<1>5. /\ slot' \in [Threads -> Workers \cup {Nobody}] /\ slot'[t] = Nobody
      /\ \A x \in Threads : x # t => slot'[x] = slot[x]
      /\ crew' \in [Workers -> Crews] /\ crew'[w] = NoWorker
      /\ \A v \in Workers : v # w => crew'[v] = crew[v]
  BY <1>3, <1>4, NoWorkerTyped
<1>6. CrewShape'
  BY <1>1, <1>5 DEF ConvInv, CrewShape
<1>7. Registered'
  <2>1. ASSUME NEW v \in Workers, crew'[v].pc # "none"
        PROVE  crew'[v].thread \in Threads /\ slot'[crew'[v].thread] = v
    BY <1>2, <1>5, <2>1, NoWorkerTyped DEF ConvInv, Registered
  <2>2. ASSUME NEW x \in Threads, slot'[x] # Nobody
        PROVE  crew'[slot'[x]].pc # "none" /\ crew'[slot'[x]].thread = x
    <3>1. x # t /\ slot'[x] = slot[x] /\ crew[slot[x]].thread = x /\ crew[slot[x]].pc # "none"
          /\ slot[x] \in Workers
      BY <1>3, <1>5, <2>2 DEF ConvInv, Registered
    <3>2. slot[x] # w
      BY <1>2, <3>1
    <3> QED BY <1>5, <3>1, <3>2
  <2> QED BY <2>1, <2>2 DEF Registered
<1>8. Employed'
  <2>1. \A v \in Workers : v # w => saving'[v] = saving[v]
    BY <1>4
  <2>2. saving'[w].pc = "no"
    BY <1>1, <1>3, <1>4, FreshTyped
  <2> QED BY <1>5, <2>1, <2>2 DEF ConvInv, Employed
<1>9. Held'
  BY <1>1, <1>5, NoWorkerTyped DEF ConvInv, Held, Holding, Talking, At, Update, Script
<1>10. Handed' = Handed /\ Handed \in Nat
  BY <1>1, HandedFacts DEF Handed, Holding, Talking
<1>11. ~At("off")
  BY <1>1 DEF ChannelInv, Dormant
<1>12. ASSUME NEW x \in Threads PROVE Named(x)'
  <2>1. Named(x)
    BY <1>11 DEF ConvInv, ThreadOK
  <2> QED BY <1>1, <2>1 DEF Named, InPlay, Conv, Update, Script
<1>13. WorkerOK(w)'
  <2> SUFFICES ASSUME NEW c \in Crews, c = NoWorker PROVE CrewOK(c)'
    BY <1>5 DEF WorkerOK
  <2> QED BY NoWorkerTyped DEF CrewOK
<1> QED BY <1>1, <1>5, <1>6, <1>7, <1>8, <1>9, <1>10, <1>12, <1>13, ConvStep

\* What a step of a worker for its own thread leaves of the other threads.
LEMMA OtherThread ==
    ASSUME ChannelInv, ConvInv, UNCHANGED <<scene, main>>, mem'.last = mem.last, ~At("off"),
           NEW x \in Threads, keys'[x] = keys[x], ruler'.key[x] = ruler.key[x],
           hist'.ran[x] = hist.ran[x], hist'.lives = hist.lives, hist.lost \subseteq hist'.lost
    PROVE  /\ ThreadOK(x)'
           /\ \A c \in Crews : CrewOK(c) /\ c.thread = x => CrewOK(c)'
<1>1. Handed' = Handed
  BY DEF Handed, Holding, Talking
<1>2. /\ \A k : InPlay(x, k) => InPlay(x, k)'
      /\ \A u : Past(x, u) => Past(x, u)'
      /\ \A task : ThreadOf(task)' = ThreadOf(task)
      /\ Conv(x)' = Conv(x) /\ (OneRun(x) => OneRun(x)') /\ At("off")' = At("off")
  BY DEF InPlay, Conv, Past, ThreadOf, Script, OneRun, At
<1>3. Named(x) => Named(x)'
  BY <1>2 DEF Named, InPlay, Conv, Update, Script
<1>4. ThreadOK(x) /\ (InPlay(x, ruler.key[x]) => InPlay(x, ruler.key[x])')
      /\ (Past(x, Handed) => Past(x, Handed)')
  BY <1>1 DEF ConvInv, InPlay, Conv, Past
<1>5. ThreadOK(x)'
  BY <1>2, <1>3, <1>4 DEF ThreadOK
<1>6. ASSUME NEW c \in Crews, CrewOK(c), c.thread = x PROVE CrewOK(c)'
  BY <1>1, <1>2, <1>6 DEF CrewOK
<1> QED BY <1>5, <1>6

LEMMA OwnConv ==
    ASSUME ChannelInv, ConvInv, NEW w \in Workers, NEW c \in Crews, NEW d \in Crews, NEW t \in Threads,
           c = crew[w], c.pc # "none", t = c.thread, d.pc # "none", d.thread = c.thread,
           crew' = [crew EXCEPT ![w] = d], UNCHANGED <<scene, main, slot, saving>>, mem'.last = mem.last,
           CrewShape', hist'.lives = hist.lives, hist.lost \subseteq hist'.lost,
           \A x \in Threads : x # t => /\ keys'[x] = keys[x] /\ ruler'.key[x] = ruler.key[x]
                                                   /\ hist'.ran[x] = hist.ran[x],
           ThreadOK(t)', CrewOK(d)'
    PROVE  ConvInv'
<1>1. /\ crew'[w] = d /\ (\A v \in Workers : v # w => crew'[v] = crew[v]) /\ crew \in [Workers -> Crews]
  BY DEF ConvInv, CrewShape
<1>2. Registered'
  BY <1>1, SameCrew
<1>3. Employed' /\ Held'
  BY <1>1 DEF ConvInv, Employed, Held, Holding, Talking, At, Update, Script
<1>4. ~At("off")
  BY DEF ChannelInv, Dormant
<1>5. ASSUME NEW x \in Threads PROVE ThreadOK(x)'
  BY <1>4, OtherThread
<1>6. ASSUME NEW v \in Workers PROVE WorkerOK(v)'
  <2>1. CASE v = w
    BY <1>1, <2>1 DEF WorkerOK
  <2>2. CASE v # w
    <3> SUFFICES ASSUME NEW e \in Crews, e = crew[v] PROVE CrewOK(e)'
      BY <1>1, <2>2 DEF WorkerOK
    <3>1. CrewOK(e)
      BY DEF ConvInv, WorkerOK
    <3>2. CASE e.pc = "none"
      BY <3>1, <3>2 DEF CrewOK
    <3>3. CASE e.pc # "none"
      <4>1. e.thread \in Threads /\ e.thread # t
        BY <2>2, <3>3 DEF ConvInv, Registered
      <4> QED BY <1>4, <3>1, <4>1, OtherThread
    <3> QED BY <3>2, <3>3
  <2> QED BY <2>1, <2>2
<1> QED BY <1>2, <1>3, <1>5, <1>6 DEF ConvInv

\* What a run adds: it is the latest of its life, in the thread's conversation
\* if there is one, or else in a new one that becomes it or is lost.
LEMMA RunAdds ==
    ASSUME CrewShape, NEW t \in Threads, NEW r \in Runs, hist'.ran[t] = Append(hist.ran[t], r),
           hist'.lives = hist.lives, r.life = hist.lives, hist.lost \subseteq hist'.lost,
           r.conv # NoKey, Conv(t) # NoKey => r.conv = Conv(t) /\ Conv(t)' = Conv(t),
           r.conv = Conv(t)' \/ r.conv \in hist'.lost,
           OneRun(t), Past(t, r.update)
    PROVE  /\ OneRun(t)'
           /\ \A u \in Nat : Past(t, u) /\ r.update < u => Past(t, u)'
<1> DEFINE s == hist.ran[t]
           n == Len(hist.ran[t])
<1>1. s \in Seq(Runs) /\ n \in Nat /\ DOMAIN s = 1 .. n
  BY DEF CrewShape
<1>2. /\ DOMAIN hist'.ran[t] = 1 .. (n + 1) /\ hist'.ran[t][n + 1] = r
      /\ \A i \in DOMAIN s : hist'.ran[t][i] = s[i] /\ s[i] \in Runs
      /\ \A i \in 1 .. (n + 1) : i \in DOMAIN s \/ i = n + 1
  BY <1>1
<1>3. hist.lives \in Nat /\ r.life <= hist.lives
  BY DEF CrewShape
<1>4. ASSUME NEW i \in DOMAIN s
      PROVE  /\ s[i].life <= hist.lives /\ s[i].conv # NoKey
             /\ s[i].conv = Conv(t)' \/ s[i].conv \in hist'.lost
             /\ s[i].conv # r.conv => s[i].conv \in hist'.lost
             /\ s[i].life = r.life => s[i].update < r.update
  <2>1. s[i].life <= hist.lives /\ s[i].conv # NoKey /\ (s[i].conv = Conv(t) \/ s[i].conv \in hist.lost)
    BY DEF OneRun
  <2>2. s[i].life = r.life => s[i].update < r.update
    BY DEF Past
  <2> QED BY <2>1, <2>2
<1>5. ASSUME NEW i \in 1 .. (n + 1)
      PROVE  LET q == hist'.ran[t][i]
             IN  /\ q.life <= hist.lives /\ q.conv # NoKey
                 /\ q.conv = Conv(t)' \/ q.conv \in hist'.lost
  <2>1. CASE i \in DOMAIN s
    BY <1>2, <1>4, <2>1
  <2>2. CASE i = n + 1
    BY <1>2, <1>3, <2>2
  <2> QED BY <1>2, <2>1, <2>2
<1>6. ASSUME NEW i \in 1 .. (n + 1), NEW j \in 1 .. (n + 1), i < j
      PROVE  LET p == hist'.ran[t][i]
                 q == hist'.ran[t][j]
             IN  /\ p.life = q.life => p.update < q.update
                 /\ p.conv # q.conv => p.conv \in hist'.lost
  <2>1. i \in DOMAIN s
    BY <1>1, <1>6
  <2>2. CASE j \in DOMAIN s
    BY <1>2, <1>6, <2>1, <2>2 DEF OneRun
  <2>3. CASE j = n + 1
    BY <1>2, <1>4, <2>1, <2>3
  <2> QED BY <1>2, <2>2, <2>3
<1>7. OneRun(t)'
  <2>1. DOMAIN hist'.ran[t] = 1 .. (n + 1)
    BY <1>2
  <2> HIDE DEF s, n
  <2> QED BY <1>5, <1>6, <2>1 DEF OneRun
<1>8. \A u \in Nat : Past(t, u) /\ r.update < u => Past(t, u)'
  <2> SUFFICES ASSUME NEW u \in Nat, Past(t, u), r.update < u,
                      NEW i \in 1 .. (n + 1), hist'.ran[t][i].life = hist.lives
               PROVE  hist'.ran[t][i].update < u
    BY <1>2 DEF Past
  <2>1. CASE i \in DOMAIN s
    BY <1>2, <2>1 DEF Past
  <2>2. CASE i = n + 1
    BY <1>2, <2>2
  <2> QED BY <1>2, <2>1, <2>2
<1> QED BY <1>7, <1>8

\* What holds where a worker's runner is about to run, and whatever it does
\* then: it is told the thread's conversation, and what it is run in is that
\* one or a new one.
LEMMA RunFacts ==
    ASSUME ChannelInv, ConvInv, NEW w \in Workers, NEW c \in Crews, c = crew[w], c.pc = "run"
    PROVE  /\ CrewOK(c) /\ ~At("off") /\ c.task \in Tasks /\ c.queue \in Seq(Tasks)
           /\ c.thread \in Threads /\ ThreadOK(c.thread)
           /\ Began(c) \in Nat /\ Began(c) # NoKey /\ RunOf(c) \in Runs
           /\ RunOf(c).life = hist.lives /\ RunOf(c).update = c.task.update /\ RunOf(c).conv = Began(c)
           /\ Conv(c.thread) # NoKey => Began(c) = Conv(c.thread)
           /\ c.key = Conv(c.thread) /\ Past(c.thread, c.task.update) /\ c.task.update < Handed
<1>1. CrewOK(c) /\ c.thread \in Threads /\ c.task \in Tasks /\ c.queue \in Seq(Tasks) /\ c.key \in Nat
  BY DEF ConvInv, WorkerOK, Registered, Crews
<1>2. ruler.convs \in Nat /\ hist.lives \in Nat
  BY DEF ConvInv, CrewShape
<1>3. Began(c) \in Nat /\ Began(c) # NoKey
  BY <1>1, <1>2 DEF Began, NoKey
<1>4. c.key = Conv(c.thread) /\ ~At("off")
  BY <1>1 DEF CrewOK
<1>5. RunOf(c) \in Runs
  BY <1>1, <1>2, <1>3 DEF RunOf, Runs, Tasks
<1> QED BY <1>1, <1>3, <1>4, <1>5 DEF RunOf, Began, CrewOK, ConvInv

\* A step in which a worker's runner has run and its thread has now this
\* conversation, known as it is to the process: keeps all of the invariant.
RunMoves(w, c, d, t) ==
    /\ c = crew[w] /\ c.pc = "run" /\ t = c.thread
    /\ d = [c EXCEPT !.pc = d.pc, !.key = d.key] /\ d.pc \in {"tell", "reply"}
    /\ d.pc = "tell" => d.key = Conv(t)'
    /\ crew' = [crew EXCEPT ![w] = d]
    /\ UNCHANGED <<scene, main, slot, saving>> /\ mem'.last = mem.last
    /\ hist' = [hist EXCEPT !.ran = [hist.ran EXCEPT ![t] = Append(hist.ran[t], RunOf(c))],
                            !.lost = hist'.lost]
    /\ hist.lost \subseteq hist'.lost /\ (Began(c) = Conv(t)' \/ Began(c) \in hist'.lost)
    /\ ruler'.key = ruler.key /\ ruler'.convs \in Nat /\ DOMAIN ruler' = DOMAIN ruler
    /\ keys' \in [Threads -> Nat] /\ \A x \in Threads : x # t => keys'[x] = keys[x]
    /\ \A k : InPlay(t, k) => InPlay(t, k)'
    /\ Conv(t) # NoKey => Conv(t)' = Conv(t)

LEMMA RunStep ==
    ASSUME ChannelInv, ConvInv, ChannelInv', NEW w \in Workers, NEW c \in Crews, NEW d \in Crews,
           NEW t \in Threads, RunMoves(w, c, d, t)
    PROVE  ConvInv'
<1> USE DEF RunMoves
<1>1. /\ CrewOK(c) /\ ~At("off") /\ c.task \in Tasks /\ c.queue \in Seq(Tasks)
      /\ c.thread \in Threads /\ ThreadOK(t)
      /\ RunOf(c) \in Runs /\ Began(c) # NoKey /\ (Conv(t) # NoKey => Began(c) = Conv(t))
      /\ RunOf(c).life = hist.lives /\ RunOf(c).update = c.task.update /\ RunOf(c).conv = Began(c)
      /\ Past(t, c.task.update) /\ c.task.update < Handed
  BY RunFacts
<1>2. d.pc # "none" /\ d.thread = t /\ d.queue = c.queue /\ d.pc # "run"
  BY DEF Crews
<1>3. PICK r \in Runs : r = RunOf(c)
  BY <1>1
<1>4. /\ CrewShape /\ hist.ran \in [Threads -> Seq(Runs)] /\ hist.lives \in Nat
      /\ crew \in [Workers -> Crews] /\ Append(hist.ran[t], r) \in Seq(Runs)
      /\ DOMAIN hist = {"lives", "told", "meddled", "taken", "excused", "ran", "lost"}
  BY HandedFacts DEF ConvInv, CrewShape
<1>5. /\ hist'.ran = [hist.ran EXCEPT ![t] = Append(hist.ran[t], r)] /\ hist'.lives = hist.lives
  BY <1>3, <1>4
<1>6. /\ hist'.ran[t] = Append(hist.ran[t], r) /\ hist'.ran \in [Threads -> Seq(Runs)]
      /\ \A x \in Threads : x # t => hist'.ran[x] = hist.ran[x]
  BY <1>4, <1>5
<1>7. CrewShape'
  <2>1. crew' \in [Workers -> Crews]
    BY <1>4
  <2> QED BY <1>4, <1>5, <1>6, <2>1 DEF CrewShape
<1>8. OneRun(t)' /\ \A u \in Nat : Past(t, u) /\ c.task.update < u => Past(t, u)'
  <2>1. OneRun(t)
    BY <1>1 DEF ThreadOK
  <2>2. r.life = hist.lives /\ r.update = c.task.update /\ r.conv # NoKey /\ Past(t, r.update)
    BY <1>1, <1>3
  <2>3. /\ Conv(t) # NoKey => r.conv = Conv(t) /\ Conv(t)' = Conv(t)
        /\ r.conv = Conv(t)' \/ r.conv \in hist'.lost
    BY <1>1, <1>3
  <2>4. /\ OneRun(t)'
        /\ \A u \in Nat : Past(t, u) /\ r.update < u => Past(t, u)'
    BY <1>4, <1>5, <1>6, <2>1, <2>2, <2>3, RunAdds
  <2> QED BY <2>2, <2>4
<1>9. Handed' = Handed /\ Handed \in Nat
  BY HandedFacts DEF Handed, Holding, Talking
<1>10. ThreadOK(t)'
  <2>1. Past(t, Handed)'
    <3>1. PICK h \in Nat : h = Handed
      BY <1>9
    <3>2. Past(t, h)
      BY <1>1, <3>1 DEF ThreadOK
    <3>3. Past(t, h)'
      BY <1>1, <1>8, <3>1, <3>2
    <3> QED BY <1>9, <3>1, <3>3 DEF Past
  <2>2. InPlay(t, ruler.key[t])'
    <3>1. PICK k : k = ruler.key[t]
      OBVIOUS
    <3>2. InPlay(t, k)'
      BY <1>1, <3>1 DEF ThreadOK
    <3> QED BY <3>1, <3>2 DEF InPlay
  <2>3. Named(t)'
    <3>1. Named(t)
      BY <1>1 DEF ThreadOK
    <3>2. PICK k : k = main.task.key
      OBVIOUS
    <3>3. InPlay(t, k) => InPlay(t, k)'
      OBVIOUS
    <3> QED BY <3>1, <3>2, <3>3 DEF Named, Update, Script, InPlay
  <2> QED BY <1>1, <1>8, <2>1, <2>2, <2>3 DEF ThreadOK, At
<1>11. CrewOK(d)'
  <2>1. ASSUME NEW i \in DOMAIN d.queue
        PROVE  /\ ThreadOf(d.queue[i])' = t /\ d.queue[i].update < Handed'
               /\ Past(t, d.queue[i].update)' /\ InPlay(t, d.queue[i].key)'
    <3>1. i \in DOMAIN c.queue /\ d.queue[i] = c.queue[i] /\ c.queue[i] \in Tasks
      BY <1>1, <1>2
    <3>2. /\ ThreadOf(d.queue[i]) = t /\ d.queue[i].update < Handed
          /\ Past(t, d.queue[i].update) /\ InPlay(t, d.queue[i].key)
          /\ c.task.update < d.queue[i].update
      BY <1>1, <3>1 DEF CrewOK
    <3>3. d.queue[i].update \in Nat
      BY <3>1 DEF Tasks
    <3>4. Past(t, d.queue[i].update)' /\ InPlay(t, d.queue[i].key)'
      BY <1>8, <3>2, <3>3
    <3> QED BY <1>9, <3>2, <3>4 DEF ThreadOf, Script
  <2>2. \A i, j \in DOMAIN d.queue : i < j => d.queue[i].update < d.queue[j].update
    BY <1>1, <1>2 DEF CrewOK
  <2>3. ~At("off")'
    BY <1>1 DEF At
  <2> QED BY <1>2, <2>1, <2>2, <2>3 DEF CrewOK
<1> QED BY <1>1, <1>2, <1>5, <1>6, <1>7, <1>10, <1>11, OwnConv

\* What the runner was run in, once learned, is the thread's conversation.
LEMMA RunConv ==
    ASSUME ChannelInv, ConvInv, ChannelInv', NEW w \in Workers, Run(w)
    PROVE  ConvInv'
<1>1. PICK c \in Crews : c = crew[w]
  BY DEF ConvInv, CrewShape
<1>2. c.pc = "run"
  BY <1>1 DEF Run
<1>3. PICK t \in Threads : t = c.thread
  BY <1>1, <1>2, RunFacts
<1>4. PICK conv \in Nat : conv = Began(c)
  BY <1>1, <1>2, RunFacts
<1>5. /\ conv # NoKey /\ (Conv(t) # NoKey => conv = Conv(t)) /\ InPlay(t, c.task.key)
  BY <1>1, <1>2, <1>3, <1>4, RunFacts DEF CrewOK
<1>6. /\ ruler.convs \in Nat /\ keys \in [Threads -> Nat] /\ crew \in [Workers -> Crews]
      /\ DOMAIN ruler = {"approval", "asked", "key", "convs"} /\ DOMAIN hist.ran = Threads
      /\ DOMAIN hist = {"lives", "told", "meddled", "taken", "excused", "ran", "lost"}
  BY HandedFacts DEF ConvInv, CrewShape
<1>7. PICK d : d = [c EXCEPT !.pc = IF conv # c.task.key THEN "tell" ELSE "reply", !.key = conv]
  OBVIOUS
<1>8. d \in Crews /\ d.pc \in {"tell", "reply"} /\ d.key = conv
      /\ d = [c EXCEPT !.pc = d.pc, !.key = d.key]
  BY <1>7 DEF Crews
<1>9. /\ ruler' = [ruler EXCEPT !.convs = IF c.key = NoKey THEN conv ELSE ruler.convs]
      /\ hist' = [hist EXCEPT !.ran = [hist.ran EXCEPT ![t] = Append(hist.ran[t], RunOf(c))]]
      /\ keys' = IF conv # c.task.key THEN [keys EXCEPT ![t] = conv] ELSE keys
      /\ crew' = [crew EXCEPT ![w] = d]
      /\ UNCHANGED <<scene, main, slot, saving>> /\ mem'.last = mem.last
  BY <1>1, <1>3, <1>4, <1>6, <1>7 DEF Run, AsideMain
<1>10. /\ ruler'.key = ruler.key /\ ruler'.convs \in Nat /\ DOMAIN ruler' = DOMAIN ruler
       /\ keys' \in [Threads -> Nat] /\ keys'[t] = IF conv # c.task.key THEN conv ELSE keys[t]
       /\ \A x \in Threads : x # t => keys'[x] = keys[x]
       /\ hist'.lost = hist.lost
  BY <1>4, <1>6, <1>9
<1>11. hist' = [hist EXCEPT !.ran = [hist.ran EXCEPT ![t] = Append(hist.ran[t], RunOf(c))],
                            !.lost = hist'.lost]
  BY <1>6, <1>9, <1>10
<1>12. Conv(t)' = conv
  BY <1>5, <1>10 DEF Conv, InPlay
<1>13. \A k : InPlay(t, k) => InPlay(t, k)'
  BY <1>5, <1>10, <1>12 DEF InPlay, Conv
<1>14. /\ d.pc = "tell" => d.key = Conv(t)'
       /\ Began(c) = Conv(t)' \/ Began(c) \in hist'.lost
       /\ hist.lost \subseteq hist'.lost
       /\ Conv(t) # NoKey => Conv(t)' = Conv(t)
  BY <1>4, <1>5, <1>8, <1>10, <1>12
<1>15. RunMoves(w, c, d, t)
  BY <1>1, <1>2, <1>3, <1>8, <1>9, <1>10, <1>11, <1>13, <1>14 DEF RunMoves
<1> QED BY <1>8, <1>15, RunStep

\* What a runner that fails has begun is lost, and what it went on with is not.
LEMMA RunFailsConv ==
    ASSUME ChannelInv, ConvInv, ChannelInv', NEW w \in Workers, RunFails(w), ~NotRun(w)
    PROVE  ConvInv'
<1>1. PICK c \in Crews : c = crew[w]
  BY DEF ConvInv, CrewShape
<1>2. c.pc = "run"
  BY <1>1 DEF RunFails
<1>3. PICK t \in Threads : t = c.thread
  BY <1>1, <1>2, RunFacts
<1>4. Began(c) \in Nat /\ c.key = Conv(t) /\ (Conv(t) # NoKey => Began(c) = Conv(t))
  BY <1>1, <1>2, <1>3, RunFacts
<1>5. /\ ruler.convs \in Nat /\ keys \in [Threads -> Nat] /\ crew \in [Workers -> Crews]
      /\ DOMAIN ruler = {"approval", "asked", "key", "convs"} /\ DOMAIN hist.ran = Threads
      /\ DOMAIN hist = {"lives", "told", "meddled", "taken", "excused", "ran", "lost"}
  BY HandedFacts DEF ConvInv, CrewShape
<1>6. PICK d : d = [c EXCEPT !.pc = "reply"]
  OBVIOUS
<1>7. d \in Crews /\ d.pc = "reply" /\ d = [c EXCEPT !.pc = d.pc, !.key = d.key]
  BY <1>6 DEF Crews
<1>n. ~UNCHANGED <<ruler, hist>>
  BY DEF NotRun
<1>8. PICK lost : lost = IF c.key = NoKey THEN hist.lost \cup {Began(c)} ELSE hist.lost
  OBVIOUS
<1>9. /\ ruler' = [ruler EXCEPT !.convs = IF c.key = NoKey THEN Began(c) ELSE ruler.convs]
      /\ hist' = [hist EXCEPT !.ran = [hist.ran EXCEPT ![t] = Append(hist.ran[t], RunOf(c))],
                              !.lost = lost]
      /\ keys' = keys /\ crew' = [crew EXCEPT ![w] = d]
      /\ UNCHANGED <<scene, main, slot, saving>> /\ mem'.last = mem.last
  BY <1>1, <1>3, <1>5, <1>6, <1>8, <1>n DEF RunFails, AsideMain
<1>10. /\ ruler'.key = ruler.key /\ ruler'.convs \in Nat /\ DOMAIN ruler' = DOMAIN ruler
       /\ hist'.lost = lost /\ hist.lost \subseteq hist'.lost
  BY <1>4, <1>5, <1>8, <1>9
<1>11. Conv(t)' = Conv(t) /\ \A k : InPlay(t, k) => InPlay(t, k)'
  BY <1>9, <1>10 DEF Conv, InPlay
<1>12. Began(c) = Conv(t)' \/ Began(c) \in hist'.lost
  BY <1>4, <1>8, <1>10, <1>11
<1>13. RunMoves(w, c, d, t)
  BY <1>1, <1>2, <1>3, <1>5, <1>7, <1>9, <1>10, <1>11, <1>12 DEF RunMoves
<1> QED BY <1>7, <1>13, RunStep


\* Agent Ruler is told the conversation that the thread has run as.
LEMMA TellConv ==
    ASSUME ChannelInv, ConvInv, ChannelInv', NEW w \in Workers, Tell(w)
    PROVE  ConvInv'
<1>1. PICK c \in Crews : c = crew[w]
  BY DEF ConvInv, CrewShape
<1>2. c.pc = "tell" /\ CrewOK(c) /\ ~At("off") /\ c.key \in Nat
  BY <1>1 DEF Tell, ConvInv, WorkerOK, CrewOK, Crews
<1>3. PICK t \in Threads : t = c.thread
  BY <1>1, <1>2 DEF ConvInv, Registered
<1>4. /\ ruler.key \in [Threads -> Nat] /\ DOMAIN ruler = {"approval", "asked", "key", "convs"}
      /\ crew \in [Workers -> Crews] /\ ThreadOK(t)
      /\ c.key = Conv(t)
  BY <1>2, <1>3 DEF ConvInv, CrewShape, CrewOK
<1>5. PICK d : d = [c EXCEPT !.pc = "save"]
  OBVIOUS
<1>6. d \in Crews /\ d.pc = "save" /\ d.thread = t /\ d.queue = c.queue
  BY <1>3, <1>5 DEF Crews
<1>7. /\ ruler' = [ruler EXCEPT !.key = [ruler.key EXCEPT ![t] = c.key]]
      /\ crew' = [crew EXCEPT ![w] = d]
      /\ UNCHANGED <<scene, main, keys, slot, saving, hist>> /\ mem'.last = mem.last
  BY <1>1, <1>3, <1>4, <1>5 DEF Tell, AsideMain
<1>8. /\ ruler'.key = [ruler.key EXCEPT ![t] = c.key] /\ ruler'.convs = ruler.convs
      /\ DOMAIN ruler' = DOMAIN ruler
  BY <1>4, <1>7
<1>9. ruler'.key[t] = c.key /\ \A x \in Threads : x # t => ruler'.key[x] = ruler.key[x]
  BY <1>4, <1>8
<1>10. CrewShape'
  <2>1. crew' \in [Workers -> Crews] /\ ruler'.key \in [Threads -> Nat]
    BY <1>2, <1>4, <1>6, <1>7, <1>8
  <2> QED BY <1>7, <1>8, <2>1 DEF ConvInv, CrewShape
<1>11. /\ \A k : InPlay(t, k) => InPlay(t, k)'
       /\ \A u : Past(t, u) => Past(t, u)'
       /\ OneRun(t)' = OneRun(t) /\ Conv(t)' = Conv(t)
       /\ Handed' = Handed
  BY <1>4, <1>7, <1>9 DEF InPlay, Past, OneRun, Conv, Handed, Holding, Talking
<1>12. ThreadOK(t)'
  <2>1. Past(t, Handed)'
    BY <1>2, <1>4, <1>7 DEF ThreadOK, Past, Handed, Holding, Talking
  <2>2. InPlay(t, ruler.key[t])'
    BY <1>4, <1>9, <1>11 DEF InPlay
  <2>3. Named(t)'
    <3>1. Named(t)
      BY <1>2, <1>4 DEF ThreadOK
    <3> QED BY <1>7, <1>11, <3>1 DEF Named, Update, Script
  <2> QED BY <1>2, <1>4, <1>7, <1>11, <2>1, <2>2, <2>3 DEF ThreadOK, At
<1>13. CrewOK(d)'
  <2>1. \A task : ThreadOf(task)' = ThreadOf(task)
    BY <1>7 DEF ThreadOf, Script
  <2> QED BY <1>2, <1>3, <1>6, <1>7, <1>11, <2>1 DEF CrewOK, At
<1> QED BY <1>1, <1>2, <1>3, <1>6, <1>7, <1>9, <1>10, <1>12, <1>13, OwnConv

LEMMA NextConv == ASSUME ChannelInv, ConvInv, ChannelInv', [Next]_vars PROVE ConvInv'
<1>1. CASE Start
  BY <1>1, StartConv
<1>2. CASE Die \/ Stop
  BY <1>2, EndConv DEF Die, Stop
<1>3. CASE Take \/ Route \/ Enqueue \/ Put
  BY <1>3, TakeConv, RouteConv, EnqueueConv, PutConv
<1>4. CASE \E w \in Workers : WorkerNext(w)
  BY <1>4, MovedSteps, RunConv, RunFailsConv, TellConv, WorkerSavesConv, LeaveConv DEF WorkerNext
<1>5. CASE UNCHANGED vars \/ Arrive \/ StopAsked
  BY <1>5, MainConv
<1>6. CASE \E a \in Approvals : Ask(a) \/ DecideElsewhere(a) \/ Lapse(a)
  BY <1>6, AskConv, MainConv
<1>7. CASE MainNext
  BY <1>2, <1>3, <1>7, MainConv DEF MainNext
<1> QED BY <1>1, <1>2, <1>4, <1>5, <1>6, <1>7 DEF Next

\* The messages of a thread are run one at a time, in every life of the bridge
\* in their order, and as one conversation of the runner but for those that
\* are lost because the runner failed before the bridge had learned of them,
\* or the bridge ended before Agent Ruler was told: for any scripts, threads
\* and workers, however a run, the report of its session or a save may fail,
\* and whenever a worker tires or the bridge dies.
THEOREM OneConversationAlways == Spec => []OneConversation
<1>1. ChannelInv /\ ConvInv => OneConversation
  <2> SUFFICES ASSUME ChannelInv, ConvInv PROVE OneConversation
    OBVIOUS
  <2>1. \A v, w \in Workers : v # w /\ Busy(v) /\ Busy(w) => crew[v].thread # crew[w].thread
    BY DEF ConvInv, Registered, Busy
  <2>2. \A t \in Threads : OneRun(t)
    BY DEF ConvInv, ThreadOK
  <2> QED BY <2>1, <2>2 DEF OneConversation, OneRun
<1>2. ChannelInv /\ ConvInv /\ [Next]_vars => (ChannelInv /\ ConvInv)'
  BY NextInv, NextConv
<1> QED BY <1>1, <1>2, InitInv, InitConv, PTL DEF Spec
================================================================================
