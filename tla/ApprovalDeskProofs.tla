------------------------- MODULE ApprovalDeskProofs --------------------------
(***************************************************************************)
(* For every number of callers, overlapping and dying as they like: the    *)
(* approvals file never holds two pending requests of a key, its dates are *)
(* in order, and what is decided was looked at before its deadline.        *)
(*                                                                         *)
(* A caller writes a list it computed from an older file at an older time, *)
(* so the invariant must hold of every computed list as well as of the     *)
(* file (FileInv for each view), and must survive the passing of time      *)
(* (FileInvLater).  A list may bear dates that are yet to come until it is *)
(* written.  The invariant must also say whose `target' is a decision.     *)
(*                                                                         *)
(* Of callers that take turns, and die as they like, more is proved        *)
(* (InTurn): a decision stays, is logged and carried out once, a denied    *)
(* request is not carried out, and no request is lost.                     *)
(*                                                                         *)
(* Of callers that overlap and do not die, the debts are followed          *)
(* (CarryInv): whoever writes an approval carries it out, and whoever      *)
(* carries it out logs it.                                                 *)
(***************************************************************************)
EXTENDS ApprovalDesk, ApprovalRecordsProofs, FiniteSetTheorems

Resolving == {"pick", "receipt", "effect", "collect"}

\* A caller that resolves has been given a target.
TargetsInv ==
    \A c \in Callers :
        step[c] \in Resolving \/ (step[c] = "write" /\ after[c] \in Resolving)
        => task[c].target \in Decisions

DeskInv ==
    /\ TypeOK
    /\ TargetsInv
    /\ FileInv(file, now)
    /\ \A c \in Callers : FileInv(view[c], MaxTime)

LEMMA InitialQueue ==
  ASSUME NEW f \in Queues
  PROVE  FileInv(f, 0)
<1>1. f \in [Ids -> {NoRecord} \cup {NewRecord(a, 0, ttl) : a \in Actions, ttl \in TTLs}]
  BY DEF Queues
<1>2. ASSUME NEW i \in Ids
      PROVE  \/ f[i] = NoRecord /\ f[i].status = "Absent"
             \/ /\ f[i] \in Record
                /\ f[i].status = "Pending"
                /\ f[i].created = 0
                /\ f[i].decided = Undecided
  <2>1. CASE f[i] = NoRecord
    BY <2>1 DEF NoRecord
  <2>2. ASSUME NEW a \in Actions, NEW ttl \in TTLs, f[i] = NewRecord(a, 0, ttl)
        PROVE  /\ f[i] \in Record
               /\ f[i].status = "Pending"
               /\ f[i].created = 0
               /\ f[i].decided = Undecided
    <3>1. 0 + ttl \in Nat /\ 0 \in Nat
      BY TTLsAssumption
    <3> QED
      BY <2>2, <3>1 DEF NewRecord, Record
  <2> QED
    BY <1>1, <2>1, <2>2
<1>3. f \in Files
  BY <1>1, <1>2 DEF Files
<1>4. \A i, j \in Ids : f[i].status = "Pending" /\ f[j].status = "Pending"
                          /\ f[i].action.key = f[j].action.key => i = j
  BY DEF Queues, Recorded
<1>5. \A i \in Ids : f[i].status # "Absent" => f[i].created <= 0
  BY <1>2
<1>6. \A i \in Ids : f[i].status \in {"Absent", "Pending"}
                       /\ (f[i].status = "Pending" => f[i].decided = Undecided)
  BY <1>2
<1> QED
  BY <1>3, <1>4, <1>5, <1>6 DEF FileInv, Decisions

LEMMA InitInv == Init => DeskInv
<1> SUFFICES ASSUME Init PROVE DeskInv
  OBVIOUS
<1>1. FileInv(file, now) /\ now \in Nat /\ now \in 0 .. MaxTime
  BY InitialQueue, DeskAssumption DEF Init
<1>2. \A c \in Callers : FileInv(view[c], MaxTime)
  BY DeskAssumption, EmptyFileInv DEF Init
<1>3. file \in Files /\ EmptyFile \in Files
  BY <1>1, EmptyFileInv DEF FileInv
<1>4. Recorded(file) \subseteq Ids
  BY DEF Recorded
<1>5. NoTask \in Tasks
  BY IdsAssumption DEF NoTask, Tasks
<1>6. TypeOK
  BY <1>1, <1>3, <1>4, <1>5 DEF Init, TypeOK, Steps
<1>7. TargetsInv
  BY DEF Init, TargetsInv, Resolving
<1> QED
  BY <1>1, <1>2, <1>6, <1>7 DEF DeskInv

-----------------------------------------------------------------------------
\* The start of a store operation: the list it leaves in memory is as good
\* as a file.
LEMMA ComputedStep ==
  ASSUME DeskInv, NEW c \in Callers, NEW list, FileInv(list, MaxTime),
         NEW next \in Steps \ {"write"}, Computed(c, list, next)
  PROVE  /\ view' \in [Callers -> Files]
         /\ after' \in [Callers -> Steps \ {"write"}]
         /\ step' \in [Callers -> Steps]
         /\ \A d \in Callers : FileInv(view'[d], MaxTime)
         /\ \A d \in Callers \ {c} : step'[d] = step[d] /\ after'[d] = after[d]
         /\ \/ step'[c] = next
            \/ step'[c] = "write" /\ after'[c] = next
<1> USE DEF DeskInv, TypeOK
<1>1. CASE list = file /\ Goto(c, next) /\ UNCHANGED <<view, after>>
  BY <1>1 DEF Goto
<1>2. CASE /\ view' = [view EXCEPT ![c] = list]
           /\ after' = [after EXCEPT ![c] = next]
           /\ Goto(c, "write")
  <2>1. list \in Files
    BY DEF FileInv
  <2>2. "write" \in Steps
    BY DEF Steps
  <2>3. /\ view' \in [Callers -> Files]
        /\ view'[c] = list
        /\ \A d \in Callers \ {c} : view'[d] = view[d]
    BY <1>2, <2>1
  <2>4. \A d \in Callers : FileInv(view'[d], MaxTime)
    BY <2>3
  <2> QED
    BY <1>2, <2>2, <2>3, <2>4 DEF Goto
<1> QED
  BY <1>1, <1>2 DEF Computed

\* What every step leaves typed besides the callers' lists.
WorldTypes ==
    /\ told \subseteq Ids /\ minted \subseteq Ids
    /\ receipts \in [Ids -> SUBSET Decisions]
    /\ effects \in [Ids -> Nat]

LEMMA OperationInv ==
  ASSUME DeskInv, NEW c \in Callers, NEW list, FileInv(list, MaxTime),
         NEW next \in Steps \ {"write"}, Computed(c, list, next),
         NEW t \in Tasks, task' = [task EXCEPT ![c] = t],
         next \in Resolving => t.target \in Decisions,
         UNCHANGED <<file, now>>, WorldTypes'
  PROVE  DeskInv'
<1> USE DEF DeskInv
<1>1. /\ view' \in [Callers -> Files]
      /\ after' \in [Callers -> Steps \ {"write"}]
      /\ step' \in [Callers -> Steps]
      /\ \A d \in Callers : FileInv(view'[d], MaxTime)
      /\ \A d \in Callers \ {c} : step'[d] = step[d] /\ after'[d] = after[d]
      /\ \/ step'[c] = next
         \/ step'[c] = "write" /\ after'[c] = next
  BY ComputedStep
<1>2. /\ task' \in [Callers -> Tasks]
      /\ task'[c] = t
      /\ \A d \in Callers \ {c} : task'[d] = task[d]
  BY DEF TypeOK
<1>3. TypeOK'
  BY <1>1, <1>2 DEF TypeOK, WorldTypes
<1>4. TargetsInv'
  <2> SUFFICES ASSUME NEW d \in Callers,
                      step'[d] \in Resolving \/ (step'[d] = "write" /\ after'[d] \in Resolving)
               PROVE  task'[d].target \in Decisions
    BY DEF TargetsInv
  <2>1. CASE d = c
    BY <1>1, <1>2, <2>1 DEF Resolving
  <2>2. CASE d # c
    BY <1>1, <1>2, <2>2 DEF TargetsInv
  <2> QED
    BY <2>1, <2>2
<1>5. FileInv(file', now') /\ \A d \in Callers : FileInv(view'[d], MaxTime)
  BY <1>1
<1> QED
  BY <1>3, <1>4, <1>5

\* The other steps leave a file that is an invariant one, and lists that were
\* there before or are empty.
LEMMA PlainStepInv ==
  ASSUME DeskInv, NEW c \in Callers, NEW s \in Steps, s # "write", Goto(c, s),
         NEW t \in Tasks, task' = [task EXCEPT ![c] = t],
         s \in Resolving => t.target \in Decisions,
         FileInv(file', now), now' = now, WorldTypes',
         \/ UNCHANGED <<view, after>>
         \/ /\ view' = [view EXCEPT ![c] = EmptyFile]
            /\ after' = [after EXCEPT ![c] = "done"]
  PROVE  DeskInv'
<1> USE DEF DeskInv
<1>n. now \in Nat
  BY DeskAssumption DEF TypeOK
<1>e. FileInv(EmptyFile, MaxTime) /\ EmptyFile \in Files /\ file' \in Files
      /\ "done" \in Steps \ {"write"}
  BY DeskAssumption, EmptyFileInv DEF FileInv, Steps
<1>1. /\ view' \in [Callers -> Files]
      /\ after' \in [Callers -> Steps \ {"write"}]
      /\ step' \in [Callers -> Steps]
      /\ \A d \in Callers : view'[d] = view[d] \/ view'[d] = EmptyFile
      /\ \A d \in Callers \ {c} : step'[d] = step[d] /\ after'[d] = after[d]
      /\ step'[c] = s
  BY <1>e DEF TypeOK, Goto
<1>2. /\ task' \in [Callers -> Tasks]
      /\ task'[c] = t
      /\ \A d \in Callers \ {c} : task'[d] = task[d]
  BY DEF TypeOK
<1>3. TypeOK'
  BY <1>e, <1>1, <1>2 DEF TypeOK, WorldTypes
<1>4. TargetsInv'
  <2> SUFFICES ASSUME NEW d \in Callers,
                      step'[d] \in Resolving \/ (step'[d] = "write" /\ after'[d] \in Resolving)
               PROVE  task'[d].target \in Decisions
    BY DEF TargetsInv
  <2>1. CASE d = c
    BY <1>1, <1>2, <2>1
  <2>2. CASE d # c
    BY <1>1, <1>2, <2>2 DEF TargetsInv
  <2> QED
    BY <2>1, <2>2
<1>5. FileInv(file', now') /\ \A d \in Callers : FileInv(view'[d], MaxTime)
  BY <1>e, <1>1
<1> QED
  BY <1>3, <1>4, <1>5

-----------------------------------------------------------------------------
\* What a list that was read is, now and until it is written.
LEMMA LoadedInv ==
  DeskInv => /\ FileInv(Loaded, now) /\ FileInv(file, now) /\ now \in Nat
             /\ FileInv(Loaded, MaxTime) /\ FileInv(file, MaxTime)
             /\ \A at \in Later : at \in Nat /\ now <= at /\ at <= MaxTime
<1> SUFFICES ASSUME DeskInv
             PROVE  /\ FileInv(Loaded, now) /\ FileInv(file, now) /\ now \in Nat
                    /\ FileInv(Loaded, MaxTime) /\ FileInv(file, MaxTime)
                    /\ \A at \in Later : at \in Nat /\ now <= at /\ at <= MaxTime
  OBVIOUS
<1>1. now \in Nat /\ MaxTime \in Nat /\ now <= MaxTime
  BY DeskAssumption DEF DeskInv, TypeOK
<1>2. FileInv(Loaded, now) /\ FileInv(file, now)
  BY <1>1, ExpireStaleInv DEF DeskInv, Loaded
<1>3. FileInv(Loaded, MaxTime) /\ FileInv(file, MaxTime)
  BY <1>1, <1>2, FileInvLater
<1> QED
  BY <1>1, <1>2, <1>3 DEF Later

LEMMA WorldTyped == DeskInv => WorldTypes
  BY DEF DeskInv, TypeOK, WorldTypes

LEMMA NoTaskTyped == NoTask \in Tasks
  BY IdsAssumption DEF NoTask, Tasks

LEMMA AskInv ==
  ASSUME DeskInv, NEW c \in Callers, NEW a \in Actions, NEW ttl \in TTLs, Ask(c, a, ttl)
  PROVE  DeskInv'
<1>l. FileInv(Loaded, MaxTime) /\ FileInv(file, now) /\ now \in Nat /\ WorldTypes
  BY LoadedInv, WorldTyped
<1>t. "tell" \in Steps /\ "tell" \notin Resolving /\ "tell" # "write"
  BY DEF Steps, Resolving
<1>u. UNCHANGED <<file, now, told, receipts, effects>>
  BY DEF Ask
<1>c. task[c] \in Tasks
  BY DEF DeskInv, TypeOK
<1>i. ASSUME NEW i \in Ids, task' = [task EXCEPT ![c].id = i]
      PROVE  [task[c] EXCEPT !.id = i] \in Tasks /\ task' = [task EXCEPT ![c] = [task[c] EXCEPT !.id = i]]
  BY <1>c, <1>i DEF Tasks
<1>1. ASSUME NEW i \in Reusable(Loaded, a),
             Computed(c, Loaded, "tell"), task' = [task EXCEPT ![c].id = i], UNCHANGED minted
      PROVE  DeskInv'
  <2>1. i \in Ids /\ WorldTypes'
    BY <1>l, <1>u, <1>1 DEF Reusable, WorldTypes
  <2> QED
    BY <1>l, <1>t, <1>u, <1>1, <1>i, <2>1, OperationInv
<1>2. ASSUME Reusable(Loaded, a) = {}, NEW i \in Ids \ minted, NEW at \in Later,
             Computed(c, [Loaded EXCEPT ![i] = NewRecord(a, at, ttl)], "tell"),
             task' = [task EXCEPT ![c].id = i], minted' = minted \cup {i}
      PROVE  DeskInv'
  <2>1. WorldTypes'
    BY <1>l, <1>u, <1>2 DEF WorldTypes
  <2>2. FileInv([Loaded EXCEPT ![i] = NewRecord(a, at, ttl)], MaxTime)
    <3>1. /\ at \in Nat /\ now <= at /\ at <= MaxTime /\ MaxTime \in Nat
      BY LoadedInv, DeskAssumption
    <3>2. FileInv([Loaded EXCEPT ![i] = NewRecord(a, at, ttl)], at)
      BY <1>l, <1>2, <3>1, AddInv DEF Loaded
    <3> QED
      BY <3>1, <3>2, FileInvLater
  <2> QED
    BY <1>t, <1>u, <1>2, <1>i, <2>1, <2>2, OperationInv
<1> QED
  BY <1>1, <1>2 DEF Ask

LEMMA ResolveInv ==
  ASSUME DeskInv, NEW c \in Callers, NEW i \in Ids, Resolve(c, i)
  PROVE  DeskInv'
<1>l. /\ FileInv(Loaded, MaxTime) /\ FileInv(file, MaxTime) /\ FileInv(file, now)
      /\ now \in Nat /\ WorldTypes
  BY LoadedInv, WorldTyped
<1>c. task[c] \in Tasks /\ task[c].target \in Decisions
  BY DEF DeskInv, TypeOK, TargetsInv, Resolve, Resolving
<1> DEFINE t == [task[c] EXCEPT !.id = i, !.todo = task[c].todo \ {i}]
<1>t. t \in Tasks /\ t.target \in Decisions
  BY <1>c DEF Tasks
<1>u. UNCHANGED <<file, now>> /\ WorldTypes' /\ task' = [task EXCEPT ![c] = t]
  <2>1. UNCHANGED <<file, now>> /\ UNCHANGED world
    BY DEF Resolve
  <2>2. WorldTypes'
    BY <1>l, <2>1 DEF world, WorldTypes
  <2>3. task' = [task EXCEPT ![c] = t]
    BY DEF Resolve
  <2> QED
    BY <2>1, <2>2, <2>3
<1>s. /\ {"done", "pick", "receipt", "effect", "collect"} \subseteq Steps
      /\ "write" \notin {"done", "pick", "receipt", "effect", "collect"}
  BY DEF Steps
<1>o. \A u \in Tasks : OnFailed(u) \in {"done", "pick"}
  BY DEF OnFailed
<1> HIDE DEF t
<1>1. CASE ResolvePending(c, i)
  <2>2. OnChanged(task[c]) \in {"receipt", "effect", "collect"}
    BY DEF OnChanged
  <2>1. PICK at \in Later : Computed(c, Decide(Loaded, i, task[c].target, at), OnChanged(task[c]))
    BY <1>1 DEF ResolvePending
  <2>3. FileInv(Decide(Loaded, i, task[c].target, at), MaxTime)
    <3>1. /\ at \in Nat /\ now <= at /\ at <= MaxTime /\ MaxTime \in Nat
      BY LoadedInv, DeskAssumption
    <3>2. FileInv(Decide(Loaded, i, task[c].target, at), at)
      BY <1>1, <1>l, <1>c, <3>1, DecideInv DEF ResolvePending, Loaded
    <3> QED
      BY <3>1, <3>2, FileInvLater
  <2> QED
    BY <1>t, <1>u, <1>s, <2>1, <2>2, <2>3, OperationInv
<1>2. CASE ResolveAgain(c, i)
  BY <1>2, <1>l, <1>t, <1>u, <1>s, OperationInv DEF ResolveAgain
<1>3. CASE RefuseResolution(c, i)
  BY <1>3, <1>l, <1>c, <1>t, <1>u, <1>s, <1>o, OperationInv DEF RefuseResolution
<1>4. CASE ResolveUnknown(c, i)
  BY <1>4, <1>l, <1>c, <1>t, <1>u, <1>s, <1>o, OperationInv DEF ResolveUnknown
<1> QED
  BY <1>1, <1>2, <1>3, <1>4 DEF Resolve

-----------------------------------------------------------------------------
\* The remaining steps of a caller.
LEMMA CallerInv ==
  ASSUME DeskInv, NEW c \in Callers,
         \/ Read(c)
         \/ \E i \in Ids, target \in Decisions : One(c, i, target)
         \/ \E op \in {"each", "bulk"}, target \in Decisions : All(c, op, target)
         \/ Write(c) \/ Tell(c) \/ Receipt(c) \/ Collect(c) \/ Finish(c)
         \/ Effect(c) \/ EffectFails(c) \/ Crash(c)
  PROVE  DeskInv'
<1>l. FileInv(Loaded, MaxTime) /\ FileInv(file, now) /\ now \in Nat /\ WorldTypes
  BY LoadedInv, WorldTyped
<1>c. /\ task[c] \in Tasks
      /\ task = [task EXCEPT ![c] = task[c]]
      /\ task \in [Callers -> Tasks]
      /\ NoTask \in Tasks
      /\ after[c] \in Steps \ {"write"}
      /\ receipts \in [Ids -> SUBSET Decisions]
      /\ effects \in [Ids -> Nat]
      /\ told \subseteq Ids /\ minted \subseteq Ids
  BY NoTaskTyped DEF DeskInv, TypeOK
<1>i. task[c].id \in Ids /\ task[c].todo \subseteq Ids /\ task[c].resolved \subseteq Ids
  BY <1>c DEF Tasks
<1>s. /\ {"done", "pick", "receipt", "effect", "collect"} \subseteq Steps
      /\ "write" \notin {"done", "pick", "receipt", "effect", "collect"}
      /\ "done" \notin Resolving
  BY DEF Steps, Resolving
<1>r. step[c] \in Resolving => task[c].target \in Decisions
  BY DEF DeskInv, TargetsInv
<1>w. UNCHANGED world => WorldTypes'
  BY <1>l DEF world, WorldTypes
<1>1. CASE Read(c)
  BY <1>1, <1>l, <1>c, <1>s, <1>w, OperationInv DEF Read
<1>2. ASSUME NEW i \in Ids, NEW target \in Decisions, One(c, i, target)
      PROVE  DeskInv'
  <2> DEFINE t == [task[c] EXCEPT !.op = "each", !.target = target, !.todo = {i}]
  <2>1. t \in Tasks /\ t.target \in Decisions
    BY <1>c DEF Tasks
  <2>2. task' = [task EXCEPT ![c] = t] /\ Goto(c, "pick") /\ UNCHANGED <<file, now, view, after>>
    BY <1>2 DEF One
  <2>3. UNCHANGED world
    BY <1>2 DEF One
  <2> QED
    BY <1>l, <1>s, <1>w, <2>1, <2>2, <2>3, PlainStepInv
<1>3. ASSUME NEW op \in {"each", "bulk"}, NEW target \in Decisions, All(c, op, target)
      PROVE  DeskInv'
  <2> DEFINE t == [task[c] EXCEPT !.op = op, !.target = target,
                                  !.todo = {i \in Ids : Loaded[i].status = "Pending"}]
  <2>1. t \in Tasks /\ t.target \in Decisions
    BY <1>c DEF Tasks
  <2>2. task' = [task EXCEPT ![c] = t] /\ Computed(c, Loaded, "pick") /\ UNCHANGED <<file, now>>
    BY <1>3 DEF All
  <2>3. UNCHANGED world
    BY <1>3 DEF All
  <2> HIDE DEF t
  <2> QED
    BY <1>l, <1>s, <1>w, <2>1, <2>2, <2>3, OperationInv
<1>4. CASE Write(c)
  <2>1. FileInv(file', now)
    <3>1. FileInv(view[c], MaxTime) /\ Dated(view[c]) /\ file' = view[c]
      BY <1>4 DEF Write, DeskInv
    <3> QED
      BY <3>1 DEF FileInv, Dated, Recorded
  <2>2. after[c] \in Resolving => task[c].target \in Decisions
    BY <1>4 DEF Write, DeskInv, TargetsInv
  <2>3. UNCHANGED world /\ Goto(c, after[c]) /\ now' = now
        /\ task' = [task EXCEPT ![c] = task[c]]
        /\ view' = [view EXCEPT ![c] = EmptyFile]
        /\ after' = [after EXCEPT ![c] = "done"]
    BY <1>4, <1>c DEF Write
  <2> QED
    BY <1>c, <1>w, <2>1, <2>2, <2>3, PlainStepInv
<1>5. CASE Tell(c)
  <2>1. WorldTypes'
    BY <1>5, <1>c, <1>i, <1>l DEF Tell, WorldTypes
  <2> QED
    BY <1>5, <1>l, <1>c, <1>s, <2>1, PlainStepInv DEF Tell, Return
<1>6. CASE Receipt(c)
  <2>1. task[c].target \in Decisions
    BY <1>6, <1>r DEF Receipt, Resolving
  <2>2. WorldTypes'
    BY <1>6, <1>c, <1>i, <2>1 DEF Receipt, WorldTypes
  <2> QED
    BY <1>6, <1>l, <1>c, <1>s, <2>1, <2>2, PlainStepInv DEF Receipt
<1>7. CASE Collect(c)
  <2> DEFINE t == [task[c] EXCEPT !.resolved = @ \cup {task[c].id}]
  <2>1. task[c].target \in Decisions
    BY <1>7, <1>r DEF Collect, Resolving
  <2>2. t \in Tasks /\ t.target \in Decisions
    BY <1>c, <1>i, <2>1 DEF Tasks
  <2>3. task' = [task EXCEPT ![c] = t] /\ Goto(c, "pick") /\ UNCHANGED <<file, now, view, after>>
    BY <1>7 DEF Collect
  <2>4. UNCHANGED world
    BY <1>7 DEF Collect
  <2> QED
    BY <1>l, <1>s, <1>w, <2>2, <2>3, <2>4, PlainStepInv
<1>8. CASE Finish(c)
  <2>1. task[c].target \in Decisions
    BY <1>8, <1>r DEF Finish, Resolving
  <2>2. WorldTypes'
    BY <1>8, <1>c, <2>1 DEF Finish, WorldTypes
  <2> QED
    BY <1>8, <1>l, <1>c, <1>s, <2>2, PlainStepInv DEF Finish, Return
<1>9. CASE Effect(c)
  <2>1. task[c].target \in Decisions
    BY <1>9, <1>r DEF Effect, Resolving
  <2>2. WorldTypes'
    BY <1>9, <1>c, <1>i DEF Effect, WorldTypes
  <2> QED
    BY <1>9, <1>l, <1>c, <1>s, <2>1, <2>2, PlainStepInv DEF Effect
<1>10. CASE EffectFails(c)
  <2>1. task[c].target \in Decisions
    BY <1>10, <1>r DEF EffectFails, Resolving
  <2>2. UNCHANGED world
    BY <1>10 DEF EffectFails
  <2> QED
    BY <1>10, <1>l, <1>c, <1>s, <1>w, <2>1, <2>2, PlainStepInv DEF EffectFails, Return
<1>11. CASE Crash(c)
  <2>1. UNCHANGED world
    BY <1>11 DEF Crash
  <2> QED
    BY <1>11, <1>l, <1>c, <1>s, <1>w, <2>1, PlainStepInv DEF Crash, Return
<1> QED
  BY <1>1, <1>2, <1>3, <1>4, <1>5, <1>6, <1>7, <1>8, <1>9, <1>10, <1>11

LEMMA TickInv == DeskInv /\ Tick => DeskInv'
<1> SUFFICES ASSUME DeskInv, Tick PROVE DeskInv'
  OBVIOUS
<1>1. /\ now' \in 0 .. MaxTime /\ now \in Nat /\ now' \in Nat /\ now <= now'
      /\ UNCHANGED <<file, step, task, view, after, world>>
  BY DeskAssumption DEF Tick, DeskInv, TypeOK
<1>2. FileInv(file', now') /\ \A c \in Callers : FileInv(view'[c], MaxTime)
  BY <1>1, FileInvLater DEF DeskInv
<1>3. TypeOK' /\ TargetsInv'
  BY <1>1 DEF DeskInv, TypeOK, TargetsInv, world
<1> QED
  BY <1>2, <1>3 DEF DeskInv

LEMMA NextInv == DeskInv /\ [Next]_vars => DeskInv'
<1> SUFFICES ASSUME DeskInv, [Next]_vars PROVE DeskInv'
  OBVIOUS
<1>1. CASE UNCHANGED vars
  <2>1. UNCHANGED <<file, now, step, task, view, after, minted, told, receipts, effects>>
    BY <1>1 DEF vars, world
  <2>2. TypeOK' /\ TargetsInv'
    BY <2>1 DEF DeskInv, TypeOK, TargetsInv
  <2>3. FileInv(file', now') /\ \A c \in Callers : FileInv(view'[c], MaxTime)
    BY <2>1 DEF DeskInv
  <2> QED
    BY <2>2, <2>3 DEF DeskInv
<1>2. CASE Tick
  BY <1>2, TickInv
<1>3. ASSUME NEW c \in Callers, NEW a \in Actions, NEW ttl \in TTLs, Ask(c, a, ttl)
      PROVE  DeskInv'
  BY <1>3, AskInv
<1>4. ASSUME NEW c \in Callers, NEW i \in Ids, Resolve(c, i)
      PROVE  DeskInv'
  BY <1>4, ResolveInv
<1>5. ASSUME NEW c \in Callers,
             \/ Read(c)
             \/ \E i \in Ids, target \in Decisions : One(c, i, target)
             \/ \E op \in {"each", "bulk"}, target \in Decisions : All(c, op, target)
             \/ Write(c) \/ Tell(c) \/ Receipt(c) \/ Collect(c) \/ Finish(c)
             \/ Effect(c) \/ EffectFails(c) \/ Crash(c)
      PROVE  DeskInv'
  BY <1>5, CallerInv
<1> QED
  BY <1>1, <1>2, <1>3, <1>4, <1>5 DEF Next, CallerStep

LEMMA Invariance == Spec => []DeskInv
  BY InitInv, NextInv, PTL DEF Spec

-----------------------------------------------------------------------------
\* Callers' lists and the file stay well formed through every interleaving
\* and crash (all of src/approvals.rs).
THEOREM TypeCorrect == Spec => []TypeOK
<1>1. DeskInv => TypeOK
  BY DEF DeskInv
<1> QED
  BY <1>1, Invariance, PTL

\* Although create_pending's search and its write are two steps, and other
\* callers write in between, no two requests of a key ever wait at once
\* (approvals.rs:88-127).
THEOREM DeduplicationUnderRaces == Spec => []OnePendingPerKey
<1>1. DeskInv => OnePendingPerKey
  BY DEF DeskInv, FileInv, OnePendingPerKey
<1> QED
  BY <1>1, Invariance, PTL

\* What a list decides that its caller did not find decided had time left.
InTime(list) ==
    \A i \in Ids : list[i].status \in Decisions /\ file[i].status \notin Decisions
                      => now < file[i].expires

\* A list as it was read decides nothing, and the one record an operation
\* decides is still pending in it.
LEMMA ListsInTime ==
  ASSUME DeskInv
  PROVE  /\ InTime(EmptyFile) /\ InTime(file) /\ InTime(Loaded)
         /\ \A i \in Ids, r \in {NewRecord(a, at, ttl) : a \in Actions, at \in Later, ttl \in TTLs} :
               InTime([Loaded EXCEPT ![i] = r])
         /\ \A i \in Ids, target \in Decisions, at \in Later :
               Loaded[i].status = "Pending" => InTime(Decide(Loaded, i, target, at))
<1>f. file \in Files /\ Loaded \in Files /\ now \in Nat
  BY LoadedInv DEF FileInv
<1>s. {"Absent", "Pending", "Expired"} \cap Decisions = {}
  BY DEF Decisions
<1>1. InTime(EmptyFile) /\ InTime(file)
  BY <1>s DEF InTime, EmptyFile, NoRecord
<1>2. ASSUME NEW i \in Ids, Loaded[i].status \in Decisions
      PROVE  file[i].status \in Decisions
  <2>1. CASE IsStale(file[i], now)
    <3>1. file[i] \in Record /\ Loaded[i] = [file[i] EXCEPT !.status = "Expired", !.decided = now]
      BY <1>f, <2>1, StatusOfAFile DEF IsStale, Loaded, ExpireStale
    <3>2. Loaded[i].status = "Expired"
      BY <3>1 DEF Record
    <3> QED
      BY <1>2, <1>s, <3>2
  <2>2. CASE ~IsStale(file[i], now)
    BY <1>2, <2>2 DEF Loaded, ExpireStale
  <2> QED
    BY <2>1, <2>2
<1>3. InTime(Loaded)
  BY <1>2 DEF InTime
<1>4. ASSUME NEW i \in Ids, NEW a \in Actions, NEW at \in Later, NEW ttl \in TTLs
      PROVE  InTime([Loaded EXCEPT ![i] = NewRecord(a, at, ttl)])
  <2> DEFINE g == [Loaded EXCEPT ![i] = NewRecord(a, at, ttl)]
  <2>1. g[i].status = "Pending" /\ \A j \in Ids \ {i} : g[j] = Loaded[j]
    BY <1>f DEF Files, NewRecord
  <2> HIDE DEF g
  <2>2. InTime(g)
    BY <1>2, <1>s, <2>1 DEF InTime
  <2> QED
    BY <2>2 DEF g
<1>5. ASSUME NEW i \in Ids, NEW target \in Decisions, NEW at \in Later, Loaded[i].status = "Pending"
      PROVE  InTime(Decide(Loaded, i, target, at))
  <2> DEFINE g == Decide(Loaded, i, target, at)
  <2>1. \A j \in Ids \ {i} : g[j] = Loaded[j]
    BY <1>f DEF Files, Decide
  <2>2. now < file[i].expires
    BY <1>5, <1>f, LoadedPending DEF Loaded
  <2> HIDE DEF g
  <2>3. InTime(g)
    BY <1>2, <2>1, <2>2 DEF InTime
  <2> QED
    BY <2>3 DEF g
<1> QED
  BY <1>1, <1>3, <1>4, <1>5

\* A caller's step leaves it such a list, or the one it had.
LEMMA StepsInTime ==
  ASSUME DeskInv, NEW c \in Callers, CallerStep(c)
  PROVE  \/ UNCHANGED view
         \/ \E list : InTime(list) /\ view' = [view EXCEPT ![c] = list]
<1>1. ASSUME NEW list, NEW next, InTime(list), Computed(c, list, next)
      PROVE  \/ UNCHANGED view
             \/ \E g : InTime(g) /\ view' = [view EXCEPT ![c] = g]
  BY <1>1 DEF Computed
<1>2. ASSUME NEW a \in Actions, NEW ttl \in TTLs, Ask(c, a, ttl)
      PROVE  \/ UNCHANGED view
             \/ \E g : InTime(g) /\ view' = [view EXCEPT ![c] = g]
  <2>1. CASE Computed(c, Loaded, "tell")
    BY <1>1, <2>1, ListsInTime
  <2>2. ASSUME NEW i \in Ids, NEW at \in Later,
               Computed(c, [Loaded EXCEPT ![i] = NewRecord(a, at, ttl)], "tell")
        PROVE  \/ UNCHANGED view
               \/ \E g : InTime(g) /\ view' = [view EXCEPT ![c] = g]
    BY <1>1, <2>2, ListsInTime
  <2> QED
    BY <1>2, <2>1, <2>2 DEF Ask
<1>3. ASSUME NEW i \in Ids, Resolve(c, i)
      PROVE  \/ UNCHANGED view
             \/ \E g : InTime(g) /\ view' = [view EXCEPT ![c] = g]
  <2>1. task[c].target \in Decisions
    BY <1>3 DEF DeskInv, TargetsInv, Resolve, Resolving
  <2>2. CASE ResolvePending(c, i)
    BY <1>1, <2>1, <2>2, ListsInTime DEF ResolvePending
  <2>3. CASE ResolveAgain(c, i) \/ RefuseResolution(c, i) \/ ResolveUnknown(c, i)
    BY <1>1, <2>3, ListsInTime DEF ResolveAgain, RefuseResolution, ResolveUnknown
  <2> QED
    BY <1>3, <2>2, <2>3 DEF Resolve
<1>4. CASE Read(c) \/ \E op \in {"each", "bulk"}, target \in Decisions : All(c, op, target)
  <2>1. CASE Read(c)
    BY <1>1, <2>1, ListsInTime DEF Read
  <2>2. ASSUME NEW op, NEW target, All(c, op, target)
        PROVE  \/ UNCHANGED view
               \/ \E g : InTime(g) /\ view' = [view EXCEPT ![c] = g]
    <3>1. Computed(c, Loaded, "pick")
      BY <2>2 DEF All
    <3> QED
      BY <1>1, <3>1, ListsInTime
  <2> QED
    BY <1>4, <2>1, <2>2
<1>5. CASE Write(c) \/ Crash(c)
  BY <1>5, ListsInTime DEF Write, Crash
<1>6. CASE \/ \E i \in Ids, target \in Decisions : One(c, i, target)
           \/ Tell(c) \/ Receipt(c) \/ Collect(c) \/ Finish(c)
           \/ Effect(c) \/ EffectFails(c)
  BY <1>6 DEF One, Tell, Receipt, Collect, Finish, Effect, EffectFails
<1> QED
  BY <1>2, <1>3, <1>4, <1>5, <1>6 DEF CallerStep

\* However late a list is written, and however the clock goes on while callers
\* overlap: the dates of a record are in order, and a request is only decided by
\* a caller that read it before its deadline (approvals.rs:184-288).
THEOREM PunctualityUnderRaces == Spec => []DatesInOrder /\ DecidedInTime
<1>1. DeskInv => DatesInOrder
  BY DEF DeskInv, FileInv, DatesInOrder
<1>2. DeskInv /\ [Next]_vars =>
         [\A c \in Callers, i \in Ids :
            /\ view[c][i].status \notin Decisions /\ view'[c][i].status \in Decisions
            /\ file[i].status \notin Decisions
            => now < file[i].expires]_vars
  <2> SUFFICES ASSUME DeskInv, Next, NEW c \in Callers, NEW i \in Ids,
                      view[c][i].status \notin Decisions, view'[c][i].status \in Decisions,
                      file[i].status \notin Decisions
               PROVE  now < file[i].expires
    OBVIOUS
  <2>1. CASE Tick
    BY <2>1 DEF Tick
  <2>2. ASSUME NEW d \in Callers, CallerStep(d)
        PROVE  now < file[i].expires
    <3>1. view'[c] # view[c]
      OBVIOUS
    <3>2. PICK list : InTime(list) /\ view' = [view EXCEPT ![d] = list]
      BY <2>2, <3>1, StepsInTime
    <3>3. view'[c] = list
      BY <3>1, <3>2 DEF DeskInv, TypeOK
    <3> QED
      BY <3>2, <3>3 DEF InTime
  <2> QED
    BY <2>1, <2>2 DEF Next
<1> QED
  BY <1>1, <1>2, Invariance, PTL DEF Spec, DecidedInTime

-----------------------------------------------------------------------------
(***************************************************************************)
(* Callers that take turns, and may die.  The one in flight has the only   *)
(* list that is to be written, and the file cannot change under it: the    *)
(* list keeps every record that is settled in the file.  So what was       *)
(* carried out and logged agrees with the file, and a record that is still *)
(* pending there was neither.                                              *)
(***************************************************************************)
Settled(f, i) == f[i].status \notin {"Absent", "Pending"}

\* List g, later, keeps what list f has.
Keeps(f, g) ==
    \A i \in Ids : /\ Settled(f, i) => g[i] = f[i]
                   /\ f[i].status # "Absent" => g[i].status # "Absent"

InFlight(c) == step[c] \notin {"idle", "done"}
OneInFlight == \A c, d \in Callers : InFlight(c) /\ InFlight(d) => c = d

\* Of any caller: its list has minted ids, what it resolved is on file.
RestOK(c) ==
    /\ Recorded(view[c]) \subseteq minted
    /\ step[c] = "idle" => task[c].resolved = {}
    /\ \A i \in task[c].resolved :
          task[c].target \in Decisions /\ file[i].status = task[c].target

\* Of the one in flight, before it writes its list.
WriteOK(c) ==
    step[c] = "write" =>
        /\ Keeps(file, view[c])
        /\ after[c] # "idle"
        /\ after[c] = "tell" => view[c][task[c].id].status # "Absent"
        /\ after[c] \in {"receipt", "effect", "collect"} =>
              /\ file[task[c].id].status = "Pending"
              /\ view[c][task[c].id].status = task[c].target
        /\ after[c] = "effect" => task[c].target = "Approved"

\* And after it.
HandOK(c) ==
    /\ step[c] = "tell" => file[task[c].id].status # "Absent"
    /\ step[c] \in {"receipt", "effect", "collect"} => file[task[c].id].status = task[c].target
    /\ step[c] \in {"receipt", "effect"} => effects[task[c].id] = 0
    /\ step[c] = "effect" => task[c].target = "Approved"

\* What was carried out was approved, and once; what was logged is on file.
AnswersOK ==
    \A i \in Ids : /\ effects[i] > 0 => file[i].status = "Approved"
                   /\ effects[i] <= 1
                   /\ receipts[i] \subseteq {file[i].status}

OnFile ==
    /\ Recorded(file) \subseteq minted
    /\ told \subseteq Recorded(file)

InTurn ==
    /\ OneInFlight
    /\ \A c \in Callers : RestOK(c) /\ WriteOK(c) /\ HandOK(c)
    /\ AnswersOK
    /\ OnFile

TurnInv == ~mode.overlap => InTurn

-----------------------------------------------------------------------------
\* Lists later than the file.
LEMMA LoadedKeeps ==
  DeskInv => Keeps(file, Loaded) /\ Recorded(Loaded) \subseteq Recorded(file)
<1> SUFFICES ASSUME DeskInv PROVE Keeps(file, Loaded) /\ Recorded(Loaded) \subseteq Recorded(file)
  OBVIOUS
<1>1. file \in Files /\ now \in Nat
  BY DeskAssumption DEF DeskInv, TypeOK
<1>2. \A i \in Ids :
        \/ Loaded[i] = file[i]
        \/ /\ file[i].status = "Pending"
           /\ Loaded[i] = [file[i] EXCEPT !.status = "Expired", !.decided = now]
  <2>1. \A i \in Ids :
          \/ ~IsStale(file[i], now) /\ ExpireStale(file, now)[i] = file[i]
          \/ /\ IsStale(file[i], now)
             /\ ExpireStale(file, now)[i] =
                   [file[i] EXCEPT !.status = "Expired", !.decided = now]
    BY <1>1, ExpireStaleFile
  <2> QED
    BY <2>1, Zenon DEF Loaded, IsStale
<1>3. ASSUME NEW i \in Ids, file[i].status = "Pending",
             Loaded[i] = [file[i] EXCEPT !.status = "Expired", !.decided = now]
      PROVE  Loaded[i].status = "Expired"
  <2>1. file[i] \in Record
    BY <1>1, <1>3, StatusOfAFile
  <2> QED
    BY <1>3, <2>1 DEF Record
<1> QED
  BY <1>2, <1>3 DEF Keeps, Settled, Recorded

LEMMA AddedKeeps ==
  ASSUME DeskInv, NEW i \in Ids, file[i].status = "Absent",
         NEW a \in Actions, NEW ttl \in TTLs, NEW at
  PROVE  LET g == [Loaded EXCEPT ![i] = NewRecord(a, at, ttl)]
         IN  /\ Keeps(file, g)
             /\ Recorded(g) \subseteq Recorded(file) \cup {i}
             /\ g[i].status = "Pending"
<1> DEFINE g == [Loaded EXCEPT ![i] = NewRecord(a, at, ttl)]
<1>1. Keeps(file, Loaded) /\ Recorded(Loaded) \subseteq Recorded(file)
  BY LoadedKeeps
<1>2. Loaded \in Files
  BY LoadedInv DEF FileInv
<1>3. g[i].status = "Pending" /\ \A j \in Ids \ {i} : g[j] = Loaded[j]
  BY <1>2 DEF Files, NewRecord
<1> HIDE DEF g
<1>4. Keeps(file, g) /\ Recorded(g) \subseteq Recorded(file) \cup {i}
  BY <1>1, <1>3 DEF Keeps, Settled, Recorded
<1> QED
  BY <1>3, <1>4 DEF g

LEMMA DecidedKeeps ==
  ASSUME DeskInv, NEW i \in Ids, Loaded[i].status = "Pending", NEW target \in Decisions, NEW at
  PROVE  LET g == Decide(Loaded, i, target, at)
         IN  /\ Keeps(file, g)
             /\ Recorded(g) \subseteq Recorded(file)
             /\ file[i].status = "Pending"
             /\ g[i].status = target
<1> DEFINE g == Decide(Loaded, i, target, at)
<1>1. Keeps(file, Loaded) /\ Recorded(Loaded) \subseteq Recorded(file)
  BY LoadedKeeps
<1>2. Loaded \in Files /\ file \in Files /\ now \in Nat
  BY LoadedInv DEF FileInv
<1>3. file[i].status = "Pending" /\ Loaded[i] \in Record
  BY <1>2, LoadedPending DEF Loaded
<1>4. g[i].status = target /\ \A j \in Ids \ {i} : g[j] = Loaded[j]
  BY <1>2, <1>3 DEF Files, Decide, Record
<1> HIDE DEF g
<1>5. target # "Absent"
  BY DEF Decisions
<1>6. Keeps(file, g) /\ Recorded(g) \subseteq Recorded(file)
  BY <1>1, <1>3, <1>4, <1>5 DEF Keeps, Settled, Recorded
<1> QED
  BY <1>3, <1>4, <1>6 DEF g

-----------------------------------------------------------------------------
Alone(c) == \A d \in Callers \ {c} : ~InFlight(d)

LEMMA TakesTurn ==
  ASSUME ~mode.overlap, InTurn, NEW c \in Callers, Begins(c) \/ InFlight(c)
  PROVE  Alone(c)
  BY DEF Begins, InFlight, InTurn, OneInFlight, Alone

\* The callers that rest are not disturbed by the one that moves.
LEMMA OthersRest ==
  ASSUME InTurn, NEW c \in Callers, Alone(c),
         \A d \in Callers \ {c} : step'[d] = step[d] /\ task'[d] = task[d] /\ view'[d] = view[d],
         DeskInv, Keeps(file, file'), minted \subseteq minted',
         RestOK(c)', WriteOK(c)', HandOK(c)', AnswersOK', OnFile'
  PROVE  InTurn'
<1>1. ASSUME NEW d \in Callers \ {c}
      PROVE  RestOK(d)' /\ WriteOK(d)' /\ HandOK(d)' /\ ~InFlight(d)'
  <2>1. step'[d] = step[d] /\ step[d] \in {"idle", "done"}
    BY DEF Alone, InFlight
  <2>2. WriteOK(d)' /\ HandOK(d)' /\ ~InFlight(d)'
    BY <2>1 DEF WriteOK, HandOK, InFlight
  <2>3. RestOK(d)
    BY DEF InTurn
  <2>4. \A i \in task[d].resolved : i \in Ids /\ file'[i] = file[i]
    <3>1. task[d].resolved \subseteq Ids
      BY DEF DeskInv, TypeOK, Tasks
    <3>2. \A i \in task[d].resolved : Settled(file, i)
      BY <2>3 DEF RestOK, Settled, Decisions
    <3> QED
      BY <3>1, <3>2 DEF Keeps
  <2>5. RestOK(d)'
    BY <2>1, <2>3, <2>4 DEF RestOK, Recorded
  <2> QED
    BY <2>2, <2>5
<1>2. OneInFlight'
  BY <1>1 DEF OneInFlight
<1>3. \A d \in Callers : RestOK(d)' /\ WriteOK(d)' /\ HandOK(d)'
  BY <1>1
<1> QED
  BY <1>2, <1>3 DEF InTurn

\* What an operation leaves for the steps after it.
Prepares(list, next, t) ==
    /\ Keeps(file, list)
    /\ \A i \in t.resolved : t.target \in Decisions /\ file[i].status = t.target
    /\ next = "tell" => list[t.id].status # "Absent"
    /\ next \in {"receipt", "effect", "collect"} =>
          /\ t.target \in Decisions
          /\ file[t.id].status = "Pending"
          /\ list[t.id].status = t.target
    /\ next = "effect" => t.target = "Approved"

\* The start of a store operation: it may keep a list to write.
LEMMA OperationInTurn ==
  ASSUME DeskInv, InTurn, NEW c \in Callers, Alone(c),
         NEW list, Recorded(list) \subseteq minted',
         NEW next \in Steps \ {"write", "idle"}, Computed(c, list, next),
         NEW t \in Tasks, task' = [task EXCEPT ![c] = t],
         UNCHANGED <<file, told, receipts, effects>>, minted \subseteq minted',
         Prepares(list, next, t)
  PROVE  InTurn'
<1> USE DEF Prepares
<1>1. /\ task'[c] = t
      /\ \A d \in Callers \ {c} : task'[d] = task[d]
  BY DEF DeskInv, TypeOK
<1>2. AnswersOK' /\ OnFile' /\ Keeps(file, file')
  BY DEF InTurn, AnswersOK, OnFile, Keeps, Recorded
<1>r. RestOK(c)
  BY DEF InTurn
<1>3. CASE list = file /\ Goto(c, next) /\ UNCHANGED <<view, after>>
  <2>1. step'[c] = next /\ \A d \in Callers \ {c} : step'[d] = step[d] /\ view'[d] = view[d]
    BY <1>3 DEF DeskInv, TypeOK, Goto
  <2>2. next \notin {"receipt", "effect", "collect"}
    BY <1>3 DEF Decisions
  <2>3. HandOK(c)' /\ WriteOK(c)'
    BY <1>1, <1>3, <2>1, <2>2 DEF HandOK, WriteOK
  <2>4. RestOK(c)'
    BY <1>1, <1>3, <1>r, <2>1 DEF RestOK, Recorded
  <2> QED
    BY <1>1, <1>2, <2>1, <2>3, <2>4, OthersRest
<1>4. CASE /\ view' = [view EXCEPT ![c] = list]
           /\ after' = [after EXCEPT ![c] = next]
           /\ Goto(c, "write")
  <2>1. /\ step'[c] = "write" /\ after'[c] = next /\ view'[c] = list
        /\ \A d \in Callers \ {c} : step'[d] = step[d] /\ view'[d] = view[d]
    BY <1>4 DEF DeskInv, TypeOK, Goto
  <2>2. HandOK(c)' /\ WriteOK(c)'
    BY <1>1, <2>1 DEF HandOK, WriteOK, Keeps, Settled
  <2>3. RestOK(c)'
    BY <1>1, <2>1 DEF RestOK, Recorded
  <2> QED
    BY <1>1, <1>2, <2>1, <2>2, <2>3, OthersRest
<1> QED
  BY <1>3, <1>4 DEF Computed

\* The other steps.
LEMMA PlainStepInTurn ==
  ASSUME DeskInv, InTurn, NEW c \in Callers, Alone(c),
         NEW s \in Steps \ {"write", "idle"}, Goto(c, s),
         NEW t \in Tasks, task' = [task EXCEPT ![c] = t],
         UNCHANGED view \/ view' = [view EXCEPT ![c] = EmptyFile],
         Keeps(file, file'), UNCHANGED minted, AnswersOK', OnFile',
         \A i \in t.resolved : t.target \in Decisions /\ file'[i].status = t.target,
         s = "tell" => file'[t.id].status # "Absent",
         s \in {"receipt", "effect", "collect"} => file'[t.id].status = t.target,
         s \in {"receipt", "effect"} => effects'[t.id] = 0,
         s = "effect" => t.target = "Approved"
  PROVE  InTurn'
<1>1. /\ task'[c] = t /\ step'[c] = s
      /\ \A d \in Callers \ {c} : task'[d] = task[d] /\ step'[d] = step[d] /\ view'[d] = view[d]
      /\ view'[c] = view[c] \/ view'[c] = EmptyFile
  BY DEF DeskInv, TypeOK, Goto
<1>2. HandOK(c)' /\ WriteOK(c)'
  BY <1>1 DEF HandOK, WriteOK
<1>3. Recorded(EmptyFile) = {}
  BY DEF Recorded, EmptyFile, NoRecord
<1>4. RestOK(c)
  BY DEF InTurn
<1>5. Recorded(view'[c]) \subseteq minted'
  BY <1>1, <1>3, <1>4 DEF RestOK
<1>6. RestOK(c)'
  BY <1>1, <1>5 DEF RestOK, Recorded
<1> QED
  BY <1>1, <1>2, <1>6, OthersRest

-----------------------------------------------------------------------------
LEMMA InitInTurn == Init => InTurn
<1> SUFFICES ASSUME Init PROVE InTurn
  OBVIOUS
<1>1. \A c \in Callers : step[c] = "idle" /\ task[c] = NoTask /\ view[c] = EmptyFile
  BY DEF Init
<1>2. OneInFlight /\ \A c \in Callers : WriteOK(c) /\ HandOK(c)
  BY <1>1 DEF OneInFlight, InFlight, WriteOK, HandOK
<1>3. \A c \in Callers : RestOK(c)
  <2>1. NoTask.resolved = {} /\ Recorded(EmptyFile) = {}
    BY DEF NoTask, Recorded, EmptyFile, NoRecord
  <2> QED
    BY <1>1, <2>1 DEF RestOK
<1>4. AnswersOK /\ OnFile
  BY DEF Init, AnswersOK, OnFile
<1> QED
  BY <1>2, <1>3, <1>4 DEF InTurn

LEMMA AskInTurn ==
  ASSUME DeskInv, InTurn, ~mode.overlap,
         NEW c \in Callers, NEW a \in Actions, NEW ttl \in TTLs, Ask(c, a, ttl)
  PROVE  InTurn'
<1>a. Alone(c) /\ task[c].resolved = {} /\ task[c] \in Tasks
  BY TakesTurn DEF Ask, Begins, InTurn, RestOK, DeskInv, TypeOK
<1>f. UNCHANGED <<file, told, receipts, effects>> /\ "tell" \in Steps \ {"write", "idle"}
  BY DEF Ask, Steps
<1>m. Recorded(file) \subseteq minted /\ Keeps(file, Loaded)
      /\ Recorded(Loaded) \subseteq Recorded(file)
  BY LoadedKeeps DEF InTurn, OnFile
<1>i. ASSUME NEW i \in Ids, task' = [task EXCEPT ![c].id = i]
      PROVE  LET t == [task[c] EXCEPT !.id = i]
             IN  t \in Tasks /\ task' = [task EXCEPT ![c] = t] /\ t.resolved = {} /\ t.id = i
  BY <1>a, <1>i DEF Tasks
<1>1. ASSUME NEW i \in Reusable(Loaded, a),
             Computed(c, Loaded, "tell"), task' = [task EXCEPT ![c].id = i], UNCHANGED minted
      PROVE  InTurn'
  <2>1. i \in Ids /\ Loaded[i].status # "Absent"
    BY <1>1 DEF Reusable
  <2> DEFINE t == [task[c] EXCEPT !.id = i]
  <2>2. t \in Tasks /\ task' = [task EXCEPT ![c] = t] /\ t.resolved = {} /\ t.id = i
    BY <1>1, <1>i, <2>1
  <2>3. Recorded(Loaded) \subseteq minted' /\ minted \subseteq minted'
    BY <1>1, <1>m
  <2> HIDE DEF t
  <2>4. Prepares(Loaded, "tell", t)
    BY <1>m, <2>1, <2>2 DEF Prepares
  <2> QED
    BY <1>1, <1>a, <1>f, <2>2, <2>3, <2>4, OperationInTurn
<1>2. ASSUME NEW i \in Ids \ minted, NEW at \in Later,
             Computed(c, [Loaded EXCEPT ![i] = NewRecord(a, at, ttl)], "tell"),
             task' = [task EXCEPT ![c].id = i], minted' = minted \cup {i}
      PROVE  InTurn'
  <2> DEFINE t == [task[c] EXCEPT !.id = i]
             g == [Loaded EXCEPT ![i] = NewRecord(a, at, ttl)]
  <2>1. t \in Tasks /\ task' = [task EXCEPT ![c] = t] /\ t.resolved = {} /\ t.id = i
    BY <1>2, <1>i
  <2>2. file[i].status = "Absent"
    BY <1>2, <1>m DEF Recorded
  <2>3. Keeps(file, g) /\ Recorded(g) \subseteq minted' /\ g[i].status # "Absent"
    BY <1>2, <1>m, <2>2, AddedKeeps
  <2>4. Computed(c, g, "tell")
    BY <1>2
  <2>5. minted \subseteq minted'
    BY <1>2
  <2> HIDE DEF t, g
  <2>6. Prepares(g, "tell", t)
    BY <2>1, <2>3 DEF Prepares
  <2> QED
    BY <1>a, <1>f, <2>1, <2>3, <2>4, <2>5, <2>6, OperationInTurn
<1> QED
  BY <1>1, <1>2 DEF Ask

LEMMA ResolveInTurn ==
  ASSUME DeskInv, InTurn, ~mode.overlap, NEW c \in Callers, NEW i \in Ids, Resolve(c, i)
  PROVE  InTurn'
<1>s. step[c] = "pick"
  BY DEF Resolve
<1>a. Alone(c) /\ RestOK(c)
  BY <1>s, TakesTurn DEF InFlight, InTurn
<1>c. task[c] \in Tasks /\ task[c].target \in Decisions
  BY <1>s DEF DeskInv, TypeOK, TargetsInv, Resolving
<1> DEFINE t == [task[c] EXCEPT !.id = i, !.todo = task[c].todo \ {i}]
<1>t. /\ t \in Tasks /\ t.target = task[c].target /\ t.id = i
      /\ t.resolved = task[c].resolved
  BY <1>c DEF Tasks
<1>u. UNCHANGED <<file, told, minted, receipts, effects>> /\ task' = [task EXCEPT ![c] = t]
  <2>1. UNCHANGED <<file, now>> /\ UNCHANGED world
    BY DEF Resolve
  <2>2. task' = [task EXCEPT ![c] = t]
    BY DEF Resolve
  <2> QED
    BY <2>1, <2>2 DEF world
<1> HIDE DEF t
<1>r. \A j \in t.resolved : t.target \in Decisions /\ file[j].status = t.target
  BY <1>a, <1>t DEF RestOK
<1>m. /\ Recorded(file) \subseteq minted' /\ Keeps(file, Loaded) /\ Keeps(file, file)
      /\ Recorded(Loaded) \subseteq Recorded(file)
  BY <1>u, LoadedKeeps DEF InTurn, OnFile, Keeps
<1>n. {"done", "pick", "receipt", "effect", "collect"} \subseteq Steps \ {"write", "idle"}
  BY DEF Steps
<1>o. \A u \in Tasks : OnFailed(u) \in {"done", "pick"}
  BY DEF OnFailed
<1>1. CASE ResolvePending(c, i)
  <2>1. PICK at \in Later : /\ Computed(c, Decide(Loaded, i, t.target, at), OnChanged(task[c]))
                            /\ Loaded[i].status = "Pending"
    BY <1>1, <1>t DEF ResolvePending
  <2>2. /\ OnChanged(task[c]) \in {"receipt", "effect", "collect"}
        /\ OnChanged(task[c]) = "effect" => t.target = "Approved"
    BY <1>t DEF OnChanged
  <2> DEFINE g == Decide(Loaded, i, t.target, at)
  <2>3. /\ Keeps(file, g) /\ Recorded(g) \subseteq minted'
        /\ file[i].status = "Pending" /\ g[i].status = t.target
    BY <1>c, <1>t, <1>m, <2>1, DecidedKeeps
  <2> HIDE DEF g
  <2>4. Computed(c, g, OnChanged(task[c]))
    BY <2>1 DEF g
  <2>5. OnChanged(task[c]) \in Steps \ {"write", "idle"} /\ minted \subseteq minted'
    BY <1>u, <1>n, <2>2
  <2>6. Prepares(g, OnChanged(task[c]), t)
    BY <1>c, <1>t, <1>r, <2>2, <2>3 DEF Prepares
  <2> QED
    BY <1>a, <1>t, <1>u, <2>3, <2>4, <2>5, <2>6, OperationInTurn
<1>2. CASE ResolveAgain(c, i)
  <2>1. /\ Computed(c, Loaded, "pick") /\ "pick" \in Steps \ {"write", "idle"}
        /\ Recorded(Loaded) \subseteq minted' /\ minted \subseteq minted'
    BY <1>2, <1>u, <1>m, <1>n DEF ResolveAgain
  <2>2. Prepares(Loaded, "pick", t)
    BY <1>r, <1>m DEF Prepares
  <2> QED
    BY <1>a, <1>t, <1>u, <2>1, <2>2, OperationInTurn
<1>p. \A next \in {"done", "pick"} : Prepares(Loaded, next, t) /\ Prepares(file, next, t)
  BY <1>r, <1>m DEF Prepares
<1>3. CASE RefuseResolution(c, i)
  BY <1>3, <1>a, <1>c, <1>t, <1>u, <1>p, <1>m, <1>n, <1>o, OperationInTurn DEF RefuseResolution
<1>4. CASE ResolveUnknown(c, i)
  BY <1>4, <1>a, <1>c, <1>t, <1>u, <1>p, <1>m, <1>n, <1>o, OperationInTurn DEF ResolveUnknown
<1> QED
  BY <1>1, <1>2, <1>3, <1>4 DEF Resolve

LEMMA WriteInTurn ==
  ASSUME DeskInv, InTurn, ~mode.overlap, NEW c \in Callers, Write(c)
  PROVE  InTurn'
<1>s. step[c] = "write" /\ file' = view[c] /\ Goto(c, after[c])
      /\ view' = [view EXCEPT ![c] = EmptyFile]
  BY DEF Write
<1>a. Alone(c) /\ RestOK(c)
  BY <1>s, TakesTurn DEF InFlight, InTurn
<1>w. /\ Keeps(file, file') /\ after[c] # "idle"
      /\ after[c] = "tell" => file'[task[c].id].status # "Absent"
      /\ after[c] \in {"receipt", "effect", "collect"} =>
            /\ file[task[c].id].status = "Pending"
            /\ file'[task[c].id].status = task[c].target
      /\ after[c] = "effect" => task[c].target = "Approved"
  BY <1>s DEF InTurn, WriteOK
<1>c. /\ task[c] \in Tasks /\ after[c] \in Steps \ {"write", "idle"}
      /\ task' = [task EXCEPT ![c] = task[c]]
      /\ task[c].id \in Ids /\ task[c].resolved \subseteq Ids
  BY <1>w DEF Write, DeskInv, TypeOK, Tasks
<1>u. UNCHANGED <<minted, told, receipts, effects>>
  BY DEF Write, world
<1>k. \A i \in Ids : Settled(file, i) => file'[i] = file[i]
  BY <1>w DEF Keeps
<1>1. AnswersOK'
  <2> SUFFICES ASSUME NEW i \in Ids
               PROVE  /\ effects[i] > 0 => file'[i].status = "Approved"
                      /\ effects[i] <= 1
                      /\ receipts[i] \subseteq {file'[i].status}
    BY <1>u DEF AnswersOK
  <2>1. /\ effects[i] > 0 => file[i].status = "Approved"
        /\ effects[i] <= 1
        /\ receipts[i] \subseteq {file[i].status}
        /\ receipts[i] \subseteq Decisions
    BY DEF InTurn, AnswersOK, DeskInv, TypeOK
  <2>2. file[i].status \in Decisions => file'[i] = file[i]
    BY <1>k DEF Settled, Decisions
  <2> QED
    BY <2>1, <2>2 DEF Decisions
<1>2. OnFile'
  BY <1>a, <1>s, <1>u, <1>w DEF RestOK, OnFile, InTurn, Keeps, Recorded
<1>3. after[c] \in {"receipt", "effect"} => effects'[task[c].id] = 0
  <2>1. effects[task[c].id] \in Nat
    BY <1>c DEF DeskInv, TypeOK
  <2>2. effects[task[c].id] > 0 => file[task[c].id].status = "Approved"
    BY <1>c DEF InTurn, AnswersOK
  <2> QED
    BY <1>u, <1>w, <2>1, <2>2
<1>4. \A i \in task[c].resolved : task[c].target \in Decisions /\ file'[i].status = task[c].target
  BY <1>a, <1>c, <1>k DEF RestOK, Settled, Decisions
<1> QED
  BY <1>a, <1>s, <1>w, <1>c, <1>u, <1>1, <1>2, <1>3, <1>4, PlainStepInTurn

LEMMA CallerInTurn ==
  ASSUME DeskInv, InTurn, ~mode.overlap, NEW c \in Callers,
         \/ Read(c)
         \/ \E i \in Ids, target \in Decisions : One(c, i, target)
         \/ \E op \in {"each", "bulk"}, target \in Decisions : All(c, op, target)
         \/ Tell(c) \/ Receipt(c) \/ Collect(c) \/ Finish(c)
         \/ Effect(c) \/ EffectFails(c) \/ Crash(c)
  PROVE  InTurn'
<1>a. /\ Alone(c)
      /\ step[c] = "idle" => task[c].resolved = {}
      /\ \A i \in task[c].resolved :
            task[c].target \in Decisions /\ file[i].status = task[c].target
      /\ HandOK(c)
  <2>1. Begins(c) \/ InFlight(c)
    BY DEF Read, One, All, Tell, Receipt, Collect, Finish, Effect, EffectFails, Crash, InFlight
  <2> QED
    BY <2>1, TakesTurn DEF InTurn, RestOK
<1>c. /\ task[c] \in Tasks
      /\ task = [task EXCEPT ![c] = task[c]]
      /\ NoTask \in Tasks /\ NoTask.resolved = {}
      /\ receipts \in [Ids -> SUBSET Decisions]
      /\ effects \in [Ids -> Nat]
      /\ AnswersOK /\ OnFile
  BY NoTaskTyped DEF DeskInv, TypeOK, InTurn, NoTask
<1>i. task[c].id \in Ids /\ task[c].resolved \subseteq Ids
  BY <1>c DEF Tasks
<1>n. {"done", "pick", "receipt", "effect", "collect"} \subseteq Steps \ {"write", "idle"}
  BY DEF Steps
<1>m. Recorded(file) \subseteq minted /\ Keeps(file, Loaded) /\ Keeps(file, file)
      /\ Recorded(Loaded) \subseteq Recorded(file)
  BY LoadedKeeps DEF InTurn, OnFile, Keeps
<1>r. step[c] \in Resolving => task[c].target \in Decisions
  BY DEF DeskInv, TargetsInv
<1>w. UNCHANGED <<file, world>> => AnswersOK' /\ OnFile'
  BY <1>c DEF world, AnswersOK, OnFile, Recorded
<1>k. UNCHANGED file => Keeps(file, file')
  BY <1>m
<1>1. CASE Read(c)
  <2>1. UNCHANGED <<file, told, receipts, effects, minted>> /\ UNCHANGED task
        /\ Computed(c, Loaded, "done")
    BY <1>1 DEF Read, world
  <2>2. Prepares(Loaded, "done", task[c])
    BY <1>a, <1>m DEF Prepares
  <2> QED
    BY <1>a, <1>c, <1>n, <1>m, <2>1, <2>2, OperationInTurn
<1>2. ASSUME NEW i \in Ids, NEW target \in Decisions, One(c, i, target)
      PROVE  InTurn'
  <2> DEFINE t == [task[c] EXCEPT !.op = "each", !.target = target, !.todo = {i}]
  <2>1. t \in Tasks /\ t.resolved = {}
    BY <1>2, <1>a, <1>c DEF Tasks, One, Begins
  <2>2. task' = [task EXCEPT ![c] = t] /\ Goto(c, "pick") /\ UNCHANGED view
    BY <1>2 DEF One
  <2>3. UNCHANGED <<file, world>> /\ UNCHANGED minted
    BY <1>2 DEF One, world
  <2> HIDE DEF t
  <2> QED
    BY <1>a, <1>n, <1>k, <1>w, <2>1, <2>2, <2>3, PlainStepInTurn
<1>3. ASSUME NEW op \in {"each", "bulk"}, NEW target \in Decisions, All(c, op, target)
      PROVE  InTurn'
  <2> DEFINE t == [task[c] EXCEPT !.op = op, !.target = target,
                                  !.todo = {i \in Ids : Loaded[i].status = "Pending"}]
  <2>1. t \in Tasks /\ t.resolved = {}
    BY <1>3, <1>a, <1>c DEF Tasks, All, Begins
  <2>2. task' = [task EXCEPT ![c] = t] /\ Computed(c, Loaded, "pick")
    BY <1>3 DEF All
  <2>3. UNCHANGED <<file, told, receipts, effects, minted>>
    BY <1>3 DEF All, world
  <2> HIDE DEF t
  <2>4. Prepares(Loaded, "pick", t)
    BY <1>m, <2>1 DEF Prepares
  <2> QED
    BY <1>a, <1>n, <1>m, <2>1, <2>2, <2>3, <2>4, OperationInTurn
<1>4. CASE Tell(c)
  <2>1. OnFile' /\ AnswersOK'
    BY <1>4, <1>a, <1>c, <1>i DEF Tell, HandOK, OnFile, AnswersOK, Recorded
  <2>2. Goto(c, "done") /\ task' = [task EXCEPT ![c] = NoTask] /\ UNCHANGED <<file, view, minted>>
    BY <1>4 DEF Tell, Return
  <2> QED
    BY <1>a, <1>c, <1>n, <1>k, <2>1, <2>2, PlainStepInTurn
<1>5. CASE Receipt(c)
  <2> DEFINE s == IF task[c].target = "Approved" THEN "effect" ELSE "pick"
  <2>1. /\ Goto(c, s) /\ UNCHANGED <<file, task, view, minted, told, effects>>
        /\ receipts' = [receipts EXCEPT ![task[c].id] = @ \cup {task[c].target}]
    BY <1>5 DEF Receipt
  <2>2. file[task[c].id].status = task[c].target /\ effects[task[c].id] = 0
    BY <1>5, <1>a DEF Receipt, HandOK
  <2>3. \A i \in Ids : receipts'[i] \subseteq {file[i].status}
    BY <1>c, <1>i, <2>1, <2>2 DEF AnswersOK
  <2>4. AnswersOK' /\ OnFile'
    BY <1>c, <2>1, <2>3 DEF AnswersOK, OnFile, Recorded
  <2>5. s \in {"effect", "pick"} /\ (s = "effect" => task[c].target = "Approved")
    OBVIOUS
  <2> HIDE DEF s
  <2> QED
    BY <1>a, <1>c, <1>n, <1>k, <2>1, <2>2, <2>4, <2>5, PlainStepInTurn
<1>6. CASE Effect(c)
  <2> DEFINE s == IF task[c].op = "bulk" THEN "collect" ELSE "pick"
  <2>1. /\ Goto(c, s) /\ UNCHANGED <<file, task, view, minted, told, receipts>>
        /\ effects' = [effects EXCEPT ![task[c].id] = @ + 1]
    BY <1>6 DEF Effect
  <2>2. /\ file[task[c].id].status = task[c].target /\ effects[task[c].id] = 0
        /\ task[c].target = "Approved"
    BY <1>6, <1>a DEF Effect, HandOK
  <2>3. effects'[task[c].id] = 1 /\ \A i \in Ids \ {task[c].id} : effects'[i] = effects[i]
    BY <1>c, <1>i, <2>1, <2>2
  <2>4. AnswersOK' /\ OnFile'
    BY <1>c, <2>1, <2>2, <2>3 DEF AnswersOK, OnFile, Recorded
  <2>5. s \in {"collect", "pick"}
    OBVIOUS
  <2> HIDE DEF s
  <2> QED
    BY <1>a, <1>c, <1>n, <1>k, <2>1, <2>2, <2>4, <2>5, PlainStepInTurn
<1>7. CASE EffectFails(c)
  <2>1. UNCHANGED <<file, world>> /\ UNCHANGED minted /\ UNCHANGED view
    BY <1>7 DEF EffectFails, world
  <2>2. CASE Goto(c, "pick") /\ UNCHANGED task
    BY <1>a, <1>c, <1>n, <1>k, <1>w, <2>1, <2>2, PlainStepInTurn
  <2>3. CASE Goto(c, "done") /\ task' = [task EXCEPT ![c] = NoTask]
    BY <1>a, <1>c, <1>n, <1>k, <1>w, <2>1, <2>3, PlainStepInTurn
  <2> QED
    BY <1>7, <2>2, <2>3 DEF EffectFails, Return
<1>8. CASE Collect(c)
  <2> DEFINE t == [task[c] EXCEPT !.resolved = @ \cup {task[c].id}]
  <2>1. file[task[c].id].status = task[c].target /\ task[c].target \in Decisions
    BY <1>8, <1>a, <1>r DEF Collect, HandOK, Resolving
  <2>2. /\ t \in Tasks /\ t.target = task[c].target
        /\ t.resolved = task[c].resolved \cup {task[c].id}
    BY <1>c, <1>i DEF Tasks
  <2>3. task' = [task EXCEPT ![c] = t] /\ Goto(c, "pick") /\ UNCHANGED view
    BY <1>8 DEF Collect
  <2>4. UNCHANGED <<file, world>> /\ UNCHANGED minted
    BY <1>8 DEF Collect, world
  <2> HIDE DEF t
  <2> QED
    BY <1>a, <1>n, <1>k, <1>w, <2>1, <2>2, <2>3, <2>4, PlainStepInTurn
<1>9. CASE Finish(c)
  <2>1. /\ Goto(c, "done") /\ task' = [task EXCEPT ![c] = NoTask]
        /\ UNCHANGED <<file, view, minted, told, effects>>
        /\ receipts' = [i \in Ids |-> IF i \in task[c].resolved
                                      THEN receipts[i] \cup {task[c].target}
                                      ELSE receipts[i]]
    BY <1>9 DEF Finish, Return
  <2>2. \A i \in Ids : receipts'[i] \subseteq {file[i].status}
    BY <1>a, <1>c, <2>1 DEF AnswersOK
  <2>3. AnswersOK' /\ OnFile'
    BY <1>c, <2>1, <2>2 DEF AnswersOK, OnFile, Recorded
  <2> QED
    BY <1>a, <1>c, <1>n, <1>k, <2>1, <2>3, PlainStepInTurn
<1>10. CASE Crash(c)
  <2>1. UNCHANGED <<file, world>> /\ UNCHANGED minted /\ view' = [view EXCEPT ![c] = EmptyFile]
        /\ Goto(c, "done") /\ task' = [task EXCEPT ![c] = NoTask]
    BY <1>10 DEF Crash, Return, world
  <2> QED
    BY <1>a, <1>c, <1>n, <1>k, <1>w, <2>1, PlainStepInTurn
<1> QED
  BY <1>1, <1>2, <1>3, <1>4, <1>5, <1>6, <1>7, <1>8, <1>9, <1>10

LEMMA NextInTurn == DeskInv /\ TurnInv /\ [Next]_vars => TurnInv'
<1> SUFFICES ASSUME DeskInv, TurnInv, [Next]_vars, ~mode'.overlap PROVE InTurn'
  BY DEF TurnInv
<1>0. ~mode.overlap /\ InTurn
  BY DEF Next, vars, TurnInv
<1>1. CASE UNCHANGED <<file, step, task, view, after, minted, told, receipts, effects>>
  <2>1. OneInFlight' /\ AnswersOK' /\ OnFile'
    BY <1>0, <1>1 DEF InTurn, OneInFlight, InFlight, AnswersOK, OnFile, Recorded
  <2>2. ASSUME NEW c \in Callers PROVE RestOK(c)' /\ WriteOK(c)' /\ HandOK(c)'
    <3>1. RestOK(c) /\ WriteOK(c) /\ HandOK(c)
      BY <1>0 DEF InTurn
    <3>2. RestOK(c)'
      BY <1>1, <3>1 DEF RestOK, Recorded
    <3>3. WriteOK(c)'
      BY <1>1, <3>1 DEF WriteOK, Keeps, Settled
    <3>4. HandOK(c)'
      BY <1>1, <3>1 DEF HandOK
    <3> QED
      BY <3>2, <3>3, <3>4
  <2> QED
    BY <2>1, <2>2 DEF InTurn
<1>2. CASE Tick \/ UNCHANGED vars
  BY <1>1, <1>2 DEF Tick, vars, world
<1>3. ASSUME NEW c \in Callers, NEW a \in Actions, NEW ttl \in TTLs, Ask(c, a, ttl)
      PROVE  InTurn'
  BY <1>0, <1>3, AskInTurn
<1>4. ASSUME NEW c \in Callers, NEW i \in Ids, Resolve(c, i)
      PROVE  InTurn'
  BY <1>0, <1>4, ResolveInTurn
<1>5. ASSUME NEW c \in Callers, Write(c)
      PROVE  InTurn'
  BY <1>0, <1>5, WriteInTurn
<1>6. ASSUME NEW c \in Callers,
             \/ Read(c)
             \/ \E i \in Ids, target \in Decisions : One(c, i, target)
             \/ \E op \in {"each", "bulk"}, target \in Decisions : All(c, op, target)
             \/ Tell(c) \/ Receipt(c) \/ Collect(c) \/ Finish(c)
             \/ Effect(c) \/ EffectFails(c) \/ Crash(c)
      PROVE  InTurn'
  BY <1>0, <1>6, CallerInTurn
<1> QED
  BY <1>2, <1>3, <1>4, <1>5, <1>6 DEF Next, CallerStep

LEMMA TurnInvariance == Spec => [](DeskInv /\ TurnInv)
<1>1. Init => DeskInv /\ TurnInv
  BY InitInv, InitInTurn DEF TurnInv
<1>2. DeskInv /\ TurnInv /\ [Next]_vars => (DeskInv /\ TurnInv)'
  BY NextInv, NextInTurn
<1> QED
  BY <1>1, <1>2, PTL DEF Spec

\* The file changes in a write alone, and then keeps what was settled.
LEMMA StepKeeps == DeskInv /\ TurnInv /\ [Next]_vars => (~mode.overlap => Keeps(file, file'))
<1> SUFFICES ASSUME InTurn, [Next]_vars PROVE Keeps(file, file')
  BY DEF TurnInv
<1>1. CASE UNCHANGED file
  BY <1>1 DEF Keeps
<1>2. ASSUME NEW c \in Callers, Write(c)
      PROVE  Keeps(file, file')
  BY <1>2 DEF Write, InTurn, WriteOK
<1> QED
  BY <1>1, <1>2 DEF Next, CallerStep, Tick, Ask, Read, One, All, Resolve, Tell, Receipt,
       Effect, EffectFails, Collect, Finish, Crash, vars

-----------------------------------------------------------------------------
\* Callers that take turns never take back a decision or an expiry, wherever
\* in a call they die (approvals.rs:219-240).
THEOREM DecisionsAreFinal == Spec => DecisionIsFinal
<1>1. DeskInv /\ TurnInv /\ [Next]_vars =>
        [~mode.overlap => \A i \in Ids :
            file[i].status \notin {"Absent", "Pending"} => file'[i] = file[i]]_vars
  BY StepKeeps DEF Keeps, Settled
<1> QED
  BY <1>1, TurnInvariance, PTL DEF Spec, DecisionIsFinal

\* One answer, carried out once: no operator who repeats a call, by button,
\* command or approve-all, or whose call died half way, adds a second effect or
\* a contrary receipt (ApprovalStatusUpdate::changed, approvals.rs:53-57).
THEOREM AnsweredOnceInTurn == Spec => []AnsweredOnce
<1>1. ASSUME DeskInv, InTurn, NEW i \in Ids
      PROVE  effects[i] <= 1 /\ Cardinality(receipts[i]) <= 1
  <2>1. effects[i] <= 1 /\ receipts[i] \subseteq {file[i].status}
    BY <1>1 DEF InTurn, AnswersOK
  <2>2. receipts[i] = {} \/ receipts[i] = {file[i].status}
    BY <2>1
  <2>3. Cardinality({}) = 0 /\ Cardinality({file[i].status}) = 1
    BY FS_EmptySet, FS_Singleton
  <2> QED
    BY <2>1, <2>2, <2>3
<1>2. DeskInv /\ TurnInv => AnsweredOnce
  BY <1>1 DEF TurnInv, AnsweredOnce
<1> QED
  BY <1>2, TurnInvariance, PTL

\* What a caller denied was not carried out, nor is it later
\* (approvals.rs:12), when callers take turns.
THEOREM DeniedStaysBlocked == Spec => []DeniedInTurn
<1>1. ASSUME DeskInv, InTurn PROVE DeniedIsBlocked
  <2>1. ASSUME NEW i \in Ids, file[i].status = "Denied" PROVE effects[i] = 0
    <3>1. effects[i] \in Nat /\ ~(effects[i] > 0)
      BY <1>1, <2>1 DEF InTurn, AnswersOK, DeskInv, TypeOK
    <3> QED
      BY <3>1
  <2> QED
    BY <2>1 DEF DeniedIsBlocked
<1>2. DeskInv /\ TurnInv => DeniedInTurn
  BY <1>1 DEF TurnInv, DeniedInTurn
<1> QED
  BY <1>2, TurnInvariance, PTL

\* A request whose id was handed out stays on file through the calls and the
\* deaths of callers that take turns (approvals.rs:4-5).
THEOREM HandedOutRequestsSurvive == Spec => []RequestSurvives
<1>1. DeskInv /\ TurnInv => RequestSurvives
  BY DEF TurnInv, InTurn, OnFile, RequestSurvives
<1> QED
  BY <1>1, TurnInvariance, PTL
-----------------------------------------------------------------------------
(***************************************************************************)
(* Callers that overlap as they like, and do not die.  What a caller does  *)
(* next, its pending write aside, tells what it still owes: a receipt for  *)
(* what was carried out in bulk, an effect for what was approved.  The     *)
(* second debt is owed for every list a caller may yet write, since any of *)
(* them may become the file.                                               *)
(***************************************************************************)
Doing(c) == IF step[c] = "write" THEN after[c] ELSE step[c]

CourseOK(c) ==
    /\ Doing(c) \in Resolving => task[c].op \in {"each", "bulk"}
    /\ task[c].resolved # {} => task[c].op = "bulk" /\ Doing(c) \in Resolving
    /\ Doing(c) = "collect" => task[c].op = "bulk"
    /\ Doing(c) = "receipt" => task[c].op = "each"
    /\ Doing(c) = "effect" =>
          /\ task[c].target = "Approved"
          /\ task[c].op = "bulk" \/ "Approved" \in receipts[task[c].id]

\* Caller c will log that i was approved, or carry i out.
WillLog(c, i) ==
    /\ task[c].target = "Approved"
    /\ i \in task[c].resolved \/ (Doing(c) = "collect" /\ task[c].id = i)

WillApply(c, i) ==
    Doing(c) \in {"receipt", "effect"} /\ task[c].target = "Approved" /\ task[c].id = i

Logged(i) == effects[i] > 0 => "Approved" \in receipts[i] \/ \E c \in Callers : WillLog(c, i)

LogInv == (\A c \in Callers : CourseOK(c)) /\ (\A i \in Ids : Logged(i))

\* Some list that is on disk, or may yet be, has i approved.
ApprovedSomewhere(i) ==
    file[i].status = "Approved" \/ \E c \in Callers : view[c][i].status = "Approved"

ApplyInv ==
    \A i \in Ids : ApprovedSomewhere(i) => effects[i] > 0 \/ \E c \in Callers : WillApply(c, i)

CarryInv == (~mode.crash => LogInv) /\ (~mode.crash /\ ~mode.fail => ApplyInv)

OthersStay(c) ==
    \A d \in Callers \ {c} :
        step'[d] = step[d] /\ task'[d] = task[d] /\ view'[d] = view[d] /\ after'[d] = after[d]

\* What a step of c does to its debts, and to the lists.
PaysLog(c) ==
    /\ CourseOK(c)'
    /\ \A i \in Ids :
          /\ receipts[i] \subseteq receipts'[i]
          /\ WillLog(c, i) => WillLog(c, i)' \/ "Approved" \in receipts'[i]
          /\ effects'[i] = effects[i] \/ WillLog(c, i)' \/ "Approved" \in receipts'[i]

PaysEffect(c) ==
    \A i \in Ids :
        /\ effects[i] <= effects'[i]
        /\ WillApply(c, i) => WillApply(c, i)' \/ effects'[i] > 0
        /\ file'[i].status = "Approved" => ApprovedSomewhere(i)
        /\ view'[c][i].status = "Approved" => ApprovedSomewhere(i) \/ WillApply(c, i)'

LEMMA CarryStep ==
  ASSUME DeskInv, CarryInv, mode' = mode, NEW c \in Callers, OthersStay(c),
         ~mode.crash => PaysLog(c),
         ~mode.crash /\ ~mode.fail => PaysEffect(c),
         effects' \in [Ids -> Nat]
  PROVE  CarryInv'
<1>t. \A i \in Ids : effects[i] \in Nat /\ effects'[i] \in Nat /\ task[c].id \in Ids
  BY DEF DeskInv, TypeOK, Tasks
<1>o. ASSUME NEW d \in Callers \ {c}
      PROVE  /\ Doing(d)' = Doing(d) /\ task'[d] = task[d] /\ view'[d] = view[d]
             /\ \A i \in Ids : WillLog(d, i)' <=> WillLog(d, i)
             /\ \A i \in Ids : WillApply(d, i)' <=> WillApply(d, i)
  <2>1. step'[d] = step[d] /\ task'[d] = task[d] /\ view'[d] = view[d] /\ after'[d] = after[d]
    BY DEF OthersStay
  <2> QED
    BY <2>1 DEF Doing, WillLog, WillApply
<1>1. ASSUME ~mode.crash PROVE LogInv'
  <2>1. LogInv /\ PaysLog(c)
    BY <1>1 DEF CarryInv
  <2>2. ASSUME NEW d \in Callers PROVE CourseOK(d)'
    <3>1. CASE d = c
      BY <2>1, <3>1 DEF PaysLog
    <3>2. CASE d # c
      <4>1. CourseOK(d) /\ task[d].id \in Ids
        BY <2>1 DEF LogInv, DeskInv, TypeOK, Tasks
      <4>2. receipts[task[d].id] \subseteq receipts'[task[d].id]
        BY <2>1, <4>1 DEF PaysLog
      <4> QED
        BY <1>o, <3>2, <4>1, <4>2 DEF CourseOK
    <3> QED
      BY <3>1, <3>2
  <2>3. ASSUME NEW i \in Ids PROVE Logged(i)'
    <3>1. CASE effects'[i] # effects[i]
      BY <2>1, <3>1 DEF PaysLog, Logged
    <3>2. CASE effects'[i] = effects[i]
      BY <2>1, <3>2, <1>o DEF PaysLog, Logged, LogInv
    <3> QED
      BY <3>1, <3>2
  <2> QED
    BY <2>2, <2>3 DEF LogInv
<1>2. ASSUME ~mode.crash, ~mode.fail PROVE ApplyInv'
  <2>1. ApplyInv /\ PaysEffect(c)
    BY <1>2 DEF CarryInv
  <2>2. ASSUME NEW i \in Ids, ApprovedSomewhere(i)'
        PROVE  effects'[i] > 0 \/ \E d \in Callers : WillApply(d, i)'
    <3>1. ApprovedSomewhere(i) \/ WillApply(c, i)'
      BY <2>1, <2>2, <1>o DEF PaysEffect, ApprovedSomewhere
    <3>2. CASE ApprovedSomewhere(i)
      <4>1. effects[i] > 0 \/ \E d \in Callers : WillApply(d, i)
        BY <2>1, <3>2 DEF ApplyInv
      <4> QED
        BY <4>1, <2>1, <1>o, <1>t DEF PaysEffect
    <3> QED
      BY <3>1, <3>2
  <2> QED
    BY <2>2 DEF ApplyInv
<1> QED
  BY <1>1, <1>2 DEF CarryInv

\* An operation leaves nothing decided in its list that was not, but what c
\* will carry out.
Announces(list, next, t) ==
    \A i \in Ids : list[i].status = "Approved" =>
        \/ file[i].status = "Approved"
        \/ next \in {"receipt", "effect"} /\ t.target = "Approved" /\ t.id = i

Follows(next, t) ==
    /\ next \in Resolving => t.op \in {"each", "bulk"}
    /\ t.resolved # {} => t.op = "bulk" /\ next \in Resolving
    /\ next = "collect" => t.op = "bulk"
    /\ next = "receipt" => t.op = "each"
    /\ next = "effect" => t.target = "Approved" /\ t.op = "bulk"

\* The start of a store operation, when c owes nothing but its log.
LEMMA OperationCarries ==
  ASSUME DeskInv, CarryInv, mode' = mode, NEW c \in Callers, NEW list,
         NEW next \in Steps \ {"write"}, Computed(c, list, next),
         NEW t \in Tasks, task' = [task EXCEPT ![c] = t],
         UNCHANGED <<file, receipts, effects>>,
         Doing(c) \notin {"receipt", "effect", "collect"},
         t.resolved = task[c].resolved,
         t.target = task[c].target \/ task[c].resolved = {},
         Follows(next, t), Announces(list, next, t)
  PROVE  CarryInv'
<1>1. task'[c] = t /\ \A d \in Callers \ {c} : task'[d] = task[d]
  BY DEF DeskInv, TypeOK
<1>2. OthersStay(c) /\ Doing(c)' = next /\ (view'[c] = list \/ view'[c] = view[c])
  <2>1. CASE list = file /\ Goto(c, next) /\ UNCHANGED <<view, after>>
    BY <1>1, <2>1 DEF Goto, DeskInv, TypeOK, OthersStay, Doing
  <2>2. CASE /\ view' = [view EXCEPT ![c] = list]
             /\ after' = [after EXCEPT ![c] = next]
             /\ Goto(c, "write")
    BY <1>1, <2>2 DEF Goto, DeskInv, TypeOK, OthersStay, Doing
  <2> QED
    BY <2>1, <2>2 DEF Computed
<1>3. CourseOK(c)'
  BY <1>1, <1>2 DEF Follows, CourseOK
<1>4. \A i \in Ids : WillLog(c, i) => WillLog(c, i)'
  BY <1>1, <1>2 DEF WillLog
<1>5. PaysLog(c)
  BY <1>3, <1>4 DEF PaysLog
<1>6. effects' \in [Ids -> Nat]
  BY DEF DeskInv, TypeOK
<1>7. ASSUME NEW i \in Ids
      PROVE  /\ ~WillApply(c, i)
             /\ effects[i] <= effects'[i]
             /\ file'[i].status = "Approved" => ApprovedSomewhere(i)
             /\ view'[c][i].status = "Approved" => ApprovedSomewhere(i) \/ WillApply(c, i)'
  <2>1. effects[i] \in Nat
    BY DEF DeskInv, TypeOK
  <2>2. list[i].status = "Approved" => file[i].status = "Approved" \/ WillApply(c, i)'
    BY <1>1, <1>2 DEF Announces, WillApply
  <2> QED
    BY <1>2, <2>1, <2>2 DEF WillApply, ApprovedSomewhere
<1>8. PaysEffect(c)
  BY <1>7 DEF PaysEffect
<1> QED
  BY <1>2, <1>5, <1>6, <1>8, CarryStep

\* The other steps of a caller: no list but the file's own changes.
LEMMA PlainStepCarries ==
  ASSUME DeskInv, CarryInv, mode' = mode, NEW c \in Callers,
         NEW s \in Steps, s # "write", Goto(c, s),
         NEW t \in Tasks, task' = [task EXCEPT ![c] = t],
         \/ UNCHANGED <<file, view, after>>
         \/ /\ file' = view[c]
            /\ view' = [view EXCEPT ![c] = EmptyFile]
            /\ after' = [after EXCEPT ![c] = "done"],
         effects' \in [Ids -> Nat],
         \A i \in Ids : receipts[i] \subseteq receipts'[i] /\ effects[i] <= effects'[i],
         ~mode.crash => CourseOK(c)',
         ~mode.crash => \A i \in Ids :
            /\ WillLog(c, i) => WillLog(c, i)' \/ "Approved" \in receipts'[i]
            /\ effects'[i] = effects[i] \/ WillLog(c, i)' \/ "Approved" \in receipts'[i],
         ~mode.crash /\ ~mode.fail => \A i \in Ids :
            WillApply(c, i) => WillApply(c, i)' \/ effects'[i] > 0
  PROVE  CarryInv'
<1>1. OthersStay(c) /\ Doing(c)' = s
  BY DEF Goto, DeskInv, TypeOK, OthersStay, Doing
<1>2. ~mode.crash => PaysLog(c)
  BY DEF PaysLog
<1>3. ASSUME NEW i \in Ids
      PROVE  /\ file'[i].status = "Approved" => ApprovedSomewhere(i)
             /\ view'[c][i].status = "Approved" => ApprovedSomewhere(i)
  <2>1. CASE UNCHANGED <<file, view>>
    BY <2>1 DEF ApprovedSomewhere
  <2>2. CASE file' = view[c] /\ view' = [view EXCEPT ![c] = EmptyFile]
    <3>1. view'[c] = EmptyFile /\ EmptyFile[i].status # "Approved"
      BY <2>2 DEF EmptyFile, NoRecord, DeskInv, TypeOK
    <3> QED
      BY <2>2, <3>1 DEF ApprovedSomewhere
  <2> QED
    BY <2>1, <2>2
<1>4. ~mode.crash /\ ~mode.fail => PaysEffect(c)
  BY <1>3 DEF PaysEffect
<1> QED
  BY <1>1, <1>2, <1>4, CarryStep

-----------------------------------------------------------------------------
LEMMA LoadedApproves ==
  ASSUME DeskInv, NEW i \in Ids, Loaded[i].status = "Approved"
  PROVE  file[i].status = "Approved"
<1>1. file \in Files /\ now \in Nat
  BY DeskAssumption DEF DeskInv, TypeOK
<1>2. \/ Loaded[i] = file[i]
      \/ /\ IsStale(file[i], now)
         /\ Loaded[i] = [file[i] EXCEPT !.status = "Expired", !.decided = now]
  <2>1. \/ ~IsStale(file[i], now) /\ ExpireStale(file, now)[i] = file[i]
        \/ /\ IsStale(file[i], now)
           /\ ExpireStale(file, now)[i] =
                 [file[i] EXCEPT !.status = "Expired", !.decided = now]
    BY <1>1, ExpireStaleFile
  <2> QED
    BY <2>1, Zenon DEF Loaded
<1>3. ASSUME IsStale(file[i], now),
             Loaded[i] = [file[i] EXCEPT !.status = "Expired", !.decided = now]
      PROVE  Loaded[i].status = "Expired"
  <2>1. file[i].status # "Absent"
    BY <1>3 DEF IsStale
  <2>2. file[i] \in Record
    BY <1>1, <2>1, StatusOfAFile
  <2> QED
    BY <1>3, <2>2 DEF Record
<1> QED
  BY <1>2, <1>3

\* A caller that begins owes nothing.
LEMMA BeginsFree ==
  ASSUME CarryInv, ~mode.crash, NEW c \in Callers, step[c] = "idle"
  PROVE  task[c].resolved = {} /\ Doing(c) = "idle"
  BY DEF CarryInv, LogInv, CourseOK, Doing, Resolving

LEMMA AskCarries ==
  ASSUME DeskInv, CarryInv, ~mode.crash, mode' = mode, NEW c \in Callers,
         NEW a \in Actions, NEW ttl \in TTLs, Ask(c, a, ttl)
  PROVE  CarryInv'
<1>c. task[c] \in Tasks /\ UNCHANGED <<file, receipts, effects>>
  BY DEF DeskInv, TypeOK, Ask
<1>f. task[c].resolved = {} /\ Doing(c) \notin {"receipt", "effect", "collect"}
  BY BeginsFree DEF Ask, Begins
<1>n. "tell" \in Steps \ {"write"}
  BY DEF Steps
<1>1. ASSUME NEW i \in Ids, task' = [task EXCEPT ![c].id = i], NEW list, Computed(c, list, "tell"),
             \A j \in Ids : list[j].status = "Approved" => file[j].status = "Approved"
      PROVE  CarryInv'
  <2> DEFINE t == [task[c] EXCEPT !.id = i]
  <2>1. t \in Tasks /\ task' = [task EXCEPT ![c] = t] /\ t.resolved = {} /\ t.target = task[c].target
    BY <1>c, <1>f, <1>1 DEF Tasks
  <2> HIDE DEF t
  <2>2. Follows("tell", t) /\ Announces(list, "tell", t)
    BY <1>1, <2>1 DEF Follows, Announces, Resolving
  <2> QED
    BY <1>c, <1>f, <1>n, <1>1, <2>1, <2>2, OperationCarries
<1>2. ASSUME NEW i \in Reusable(Loaded, a), Computed(c, Loaded, "tell"),
             task' = [task EXCEPT ![c].id = i]
      PROVE  CarryInv'
  BY <1>1, <1>2, LoadedApproves DEF Reusable
<1>3. ASSUME NEW i \in Ids \ minted, NEW at \in Later, task' = [task EXCEPT ![c].id = i],
             Computed(c, [Loaded EXCEPT ![i] = NewRecord(a, at, ttl)], "tell")
      PROVE  CarryInv'
  <2> DEFINE g == [Loaded EXCEPT ![i] = NewRecord(a, at, ttl)]
  <2>1. Loaded \in Files
    BY LoadedInv DEF FileInv
  <2>2. g[i].status = "Pending" /\ \A j \in Ids \ {i} : g[j] = Loaded[j]
    BY <2>1 DEF Files, NewRecord
  <2> HIDE DEF g
  <2>3. \A j \in Ids : g[j].status = "Approved" => file[j].status = "Approved"
    BY <2>2, LoadedApproves
  <2>4. Computed(c, g, "tell")
    BY <1>3 DEF g
  <2> QED
    BY <1>1, <1>3, <2>3, <2>4
<1> QED
  BY <1>2, <1>3 DEF Ask

LEMMA ResolveCarries ==
  ASSUME DeskInv, CarryInv, ~mode.crash, mode' = mode, NEW c \in Callers,
         NEW i \in Ids, Resolve(c, i)
  PROVE  CarryInv'
<1>c. task[c] \in Tasks /\ UNCHANGED <<file, receipts, effects>>
  BY DEF DeskInv, TypeOK, Resolve, world
<1>s. /\ Doing(c) = "pick" /\ Doing(c) \notin {"receipt", "effect", "collect"}
      /\ task[c].op \in {"each", "bulk"}
      /\ task[c].resolved # {} => task[c].op = "bulk"
      /\ task[c].target \in Decisions
  BY DEF Resolve, Doing, CarryInv, LogInv, CourseOK, Resolving, DeskInv, TargetsInv
<1> DEFINE t == [task[c] EXCEPT !.id = i, !.todo = task[c].todo \ {i}]
<1>t. /\ t \in Tasks /\ task' = [task EXCEPT ![c] = t] /\ t.id = i
      /\ t.op = task[c].op /\ t.target = task[c].target /\ t.resolved = task[c].resolved
  BY <1>c DEF Tasks, Resolve
<1> HIDE DEF t
<1>n. {"done", "pick", "receipt", "effect", "collect"} \subseteq Steps \ {"write"}
  BY DEF Steps
<1>l. \A next \in Steps : Announces(Loaded, next, t) /\ Announces(file, next, t)
  BY LoadedApproves DEF Announces
<1>f. \A next \in {"pick", OnFailed(task[c])} : next \in {"pick", "done"} /\ Follows(next, t)
  BY <1>s, <1>t DEF OnFailed, Follows, Resolving
<1>1. CASE ResolvePending(c, i)
  <2>0. PICK at \in Later : Computed(c, Decide(Loaded, i, task[c].target, at), OnChanged(task[c]))
    BY <1>1 DEF ResolvePending
  <2> DEFINE g == Decide(Loaded, i, task[c].target, at)
             next == OnChanged(task[c])
  <2>1. Loaded \in Files /\ Loaded[i].status = "Pending" /\ Computed(c, g, next)
    BY <1>1, <2>0, LoadedInv DEF FileInv, ResolvePending
  <2>2. Loaded[i] \in Record
    BY <2>1, StatusOfAFile
  <2>3. g[i].status = task[c].target /\ \A j \in Ids \ {i} : g[j] = Loaded[j]
    BY <2>1, <2>2 DEF Files, Decide, Record
  <2>4. /\ next \in {"receipt", "effect", "collect"}
        /\ task[c].target = "Approved" => next \in {"receipt", "effect"}
        /\ Follows(next, t)
    BY <1>s, <1>t DEF OnChanged, Follows, Resolving, Decisions
  <2> HIDE DEF g, next
  <2>5. Announces(g, next, t)
    BY <1>t, <2>3, <2>4, LoadedApproves DEF Announces
  <2> QED
    BY <1>c, <1>s, <1>t, <1>n, <2>1, <2>4, <2>5, OperationCarries
<1>2. CASE ResolveAgain(c, i)
  BY <1>2, <1>c, <1>s, <1>t, <1>n, <1>l, <1>f, OperationCarries DEF ResolveAgain
<1>3. CASE RefuseResolution(c, i)
  BY <1>3, <1>c, <1>s, <1>t, <1>n, <1>l, <1>f, OperationCarries DEF RefuseResolution
<1>4. CASE ResolveUnknown(c, i)
  BY <1>4, <1>c, <1>s, <1>t, <1>n, <1>l, <1>f, OperationCarries DEF ResolveUnknown
<1> QED
  BY <1>1, <1>2, <1>3, <1>4 DEF Resolve

LEMMA BeginCarries ==
  ASSUME DeskInv, CarryInv, ~mode.crash, mode' = mode, NEW c \in Callers,
         \/ Read(c)
         \/ \E i \in Ids, target \in Decisions : One(c, i, target)
         \/ \E op \in {"each", "bulk"}, target \in Decisions : All(c, op, target)
  PROVE  CarryInv'
<1>c. /\ task[c] \in Tasks /\ task = [task EXCEPT ![c] = task[c]]
      /\ UNCHANGED <<file, receipts, effects>> /\ effects \in [Ids -> Nat]
  BY DEF DeskInv, TypeOK, Read, One, All, world
<1>f. /\ task[c].resolved = {} /\ Doing(c) = "idle"
      /\ Doing(c) \notin {"receipt", "effect", "collect"}
  BY BeginsFree DEF Read, One, All, Begins
<1>n. {"done", "pick"} \subseteq Steps \ {"write"}
  BY DEF Steps
<1>l. \A next, t : Announces(Loaded, next, t)
  BY LoadedApproves DEF Announces
<1>1. CASE Read(c)
  <2>1. UNCHANGED task /\ Computed(c, Loaded, "done")
    BY <1>1 DEF Read
  <2>2. Follows("done", task[c])
    BY <1>f DEF Follows, Resolving
  <2> QED
    BY <1>c, <1>f, <1>n, <1>l, <2>1, <2>2, OperationCarries
<1>2. ASSUME NEW i \in Ids, NEW target \in Decisions, One(c, i, target)
      PROVE  CarryInv'
  <2> DEFINE t == [task[c] EXCEPT !.op = "each", !.target = target, !.todo = {i}]
  <2>1. t \in Tasks /\ t.op = "each" /\ t.resolved = {}
    BY <1>c, <1>f DEF Tasks
  <2>2. task' = [task EXCEPT ![c] = t] /\ Goto(c, "pick") /\ UNCHANGED <<file, view, after>>
    BY <1>2 DEF One
  <2> HIDE DEF t
  <2>3. Doing(c)' = "pick" /\ task'[c] = t
    BY <2>2 DEF Doing, Goto, DeskInv, TypeOK
  <2>4. CourseOK(c)'
    BY <2>1, <2>3 DEF CourseOK, Resolving
  <2>5. \A j \in Ids : /\ ~WillLog(c, j) /\ ~WillApply(c, j)
                       /\ receipts[j] \subseteq receipts'[j] /\ effects[j] <= effects'[j]
                       /\ effects'[j] = effects[j]
    BY <1>c, <1>f DEF WillLog, WillApply
  <2> QED
    BY <1>c, <1>n, <2>1, <2>2, <2>4, <2>5, PlainStepCarries
<1>3. ASSUME NEW op \in {"each", "bulk"}, NEW target \in Decisions, All(c, op, target)
      PROVE  CarryInv'
  <2> DEFINE t == [task[c] EXCEPT !.op = op, !.target = target,
                                  !.todo = {i \in Ids : Loaded[i].status = "Pending"}]
  <2>1. t \in Tasks /\ t.op \in {"each", "bulk"} /\ t.resolved = {}
    BY <1>c, <1>f DEF Tasks
  <2>2. task' = [task EXCEPT ![c] = t] /\ Computed(c, Loaded, "pick")
    BY <1>3 DEF All
  <2> HIDE DEF t
  <2>3. Follows("pick", t)
    BY <2>1 DEF Follows
  <2> QED
    BY <1>c, <1>f, <1>n, <1>l, <2>1, <2>2, <2>3, OperationCarries
<1> QED
  BY <1>1, <1>2, <1>3

LEMMA GoOnCarries ==
  ASSUME DeskInv, CarryInv, ~mode.crash, mode' = mode, NEW c \in Callers,
         \/ Write(c) \/ Tell(c) \/ Receipt(c) \/ Collect(c) \/ Finish(c)
         \/ Effect(c) \/ EffectFails(c)
  PROVE  CarryInv'
<1>c. /\ task[c] \in Tasks /\ task = [task EXCEPT ![c] = task[c]]
      /\ NoTask \in Tasks /\ NoTask.resolved = {}
      /\ receipts \in [Ids -> SUBSET Decisions] /\ effects \in [Ids -> Nat]
      /\ step \in [Callers -> Steps] /\ task \in [Callers -> Tasks]
      /\ after[c] \in Steps \ {"write"}
  BY NoTaskTyped DEF DeskInv, TypeOK, NoTask
<1>i. task[c].id \in Ids
  BY <1>c DEF Tasks
<1>o. CourseOK(c)
  BY DEF CarryInv, LogInv
<1>n. {"done", "pick", "receipt", "effect", "collect"} \subseteq Steps \ {"write"}
  BY DEF Steps
<1>w. UNCHANGED <<receipts, effects>> =>
        /\ effects' \in [Ids -> Nat]
        /\ \A i \in Ids : /\ receipts[i] \subseteq receipts'[i] /\ effects[i] <= effects'[i]
                          /\ effects'[i] = effects[i]
  BY <1>c
<1>1. CASE Write(c)
  <2>1. /\ UNCHANGED <<receipts, effects>> /\ UNCHANGED task /\ Goto(c, after[c])
        /\ step[c] = "write" /\ file' = view[c]
        /\ view' = [view EXCEPT ![c] = EmptyFile] /\ after' = [after EXCEPT ![c] = "done"]
    BY <1>1 DEF Write, world
  <2>2. Doing(c)' = Doing(c)
    BY <1>c, <2>1 DEF Doing, Goto
  <2>3. CourseOK(c)' /\ \A i \in Ids : (WillLog(c, i) => WillLog(c, i)')
                                        /\ (WillApply(c, i) => WillApply(c, i)')
    BY <1>o, <2>1, <2>2 DEF CourseOK, WillLog, WillApply
  <2> QED
    BY <1>c, <1>w, <2>1, <2>3, PlainStepCarries
<1>2. CASE Tell(c)
  <2>1. /\ UNCHANGED <<receipts, effects>> /\ UNCHANGED <<file, view, after>>
        /\ Goto(c, "done") /\ task' = [task EXCEPT ![c] = NoTask] /\ Doing(c) = "tell"
    BY <1>2 DEF Tell, Return, Doing
  <2>2. Doing(c)' = "done" /\ task'[c] = NoTask /\ task[c].resolved = {}
    BY <1>c, <1>o, <2>1 DEF Doing, Goto, CourseOK, Resolving
  <2>3. CourseOK(c)' /\ \A i \in Ids : ~WillLog(c, i) /\ ~WillApply(c, i)
    BY <1>c, <2>1, <2>2 DEF CourseOK, WillLog, WillApply, Resolving
  <2> QED
    BY <1>c, <1>n, <1>w, <2>1, <2>3, PlainStepCarries
<1>3. CASE Receipt(c)
  <2> DEFINE s == IF task[c].target = "Approved" THEN "effect" ELSE "pick"
  <2>1. /\ receipts' = [receipts EXCEPT ![task[c].id] = @ \cup {task[c].target}]
        /\ Goto(c, s) /\ UNCHANGED <<file, view, after>> /\ UNCHANGED <<task, effects>>
        /\ Doing(c) = "receipt"
    BY <1>3 DEF Receipt, Doing
  <2>2. /\ s \in {"effect", "pick"} /\ (s = "effect" <=> task[c].target = "Approved")
    OBVIOUS
  <2> HIDE DEF s
  <2>3. Doing(c)' = s
    BY <1>c, <2>1, <2>2 DEF Doing, Goto
  <2>4. /\ \A i \in Ids : receipts[i] \subseteq receipts'[i]
        /\ task[c].target \in receipts'[task[c].id]
    BY <1>c, <1>i, <2>1
  <2>5. CourseOK(c)'
    BY <1>o, <2>1, <2>2, <2>3, <2>4 DEF CourseOK, Resolving
  <2>6. \A i \in Ids : /\ WillLog(c, i) => WillLog(c, i)'
                       /\ WillApply(c, i) => WillApply(c, i)'
                       /\ effects'[i] = effects[i] /\ effects[i] <= effects'[i]
    BY <1>c, <2>1, <2>2, <2>3 DEF WillLog, WillApply
  <2>7. effects' \in [Ids -> Nat] /\ s \in Steps /\ s # "write"
    BY <1>c, <1>n, <2>1, <2>2
  <2> QED
    BY <1>c, <2>1, <2>4, <2>5, <2>6, <2>7, PlainStepCarries
<1>4. CASE Collect(c)
  <2> DEFINE t == [task[c] EXCEPT !.resolved = @ \cup {task[c].id}]
  <2>1. /\ t \in Tasks /\ t.target = task[c].target /\ t.op = task[c].op /\ t.id = task[c].id
        /\ t.resolved = task[c].resolved \cup {task[c].id}
    BY <1>c, <1>i DEF Tasks
  <2>2. /\ task' = [task EXCEPT ![c] = t] /\ Goto(c, "pick") /\ UNCHANGED <<file, view, after>>
        /\ Doing(c) = "collect" /\ UNCHANGED <<receipts, effects>>
    BY <1>4 DEF Collect, Doing, world
  <2> HIDE DEF t
  <2>3. Doing(c)' = "pick" /\ task'[c] = t
    BY <1>c, <2>2 DEF Doing, Goto
  <2>4. CourseOK(c)' /\ \A i \in Ids : (WillLog(c, i) => WillLog(c, i)') /\ ~WillApply(c, i)
    BY <1>o, <2>1, <2>2, <2>3 DEF CourseOK, WillLog, WillApply, Resolving
  <2> QED
    BY <1>c, <1>n, <1>w, <2>1, <2>2, <2>4, PlainStepCarries
<1>5. CASE Finish(c)
  <2>1. /\ Goto(c, "done") /\ task' = [task EXCEPT ![c] = NoTask]
        /\ UNCHANGED <<file, view, after>> /\ UNCHANGED effects /\ Doing(c) = "pick"
        /\ receipts' = [i \in Ids |-> IF i \in task[c].resolved
                                      THEN receipts[i] \cup {task[c].target}
                                      ELSE receipts[i]]
    BY <1>5 DEF Finish, Return, Doing
  <2>2. Doing(c)' = "done" /\ task'[c] = NoTask
    BY <1>c, <2>1 DEF Doing, Goto
  <2>3. CourseOK(c)'
    BY <1>c, <2>2 DEF CourseOK, Resolving
  <2>4. \A i \in Ids : /\ receipts[i] \subseteq receipts'[i]
                       /\ WillLog(c, i) => "Approved" \in receipts'[i]
                       /\ ~WillApply(c, i)
                       /\ effects'[i] = effects[i] /\ effects[i] <= effects'[i]
    BY <1>c, <2>1 DEF WillLog, WillApply
  <2>5. effects' \in [Ids -> Nat]
    BY <1>c, <2>1
  <2> QED
    BY <1>c, <1>n, <2>1, <2>3, <2>4, <2>5, PlainStepCarries
<1>6. CASE Effect(c)
  <2> DEFINE s == IF task[c].op = "bulk" THEN "collect" ELSE "pick"
  <2>1. /\ effects' = [effects EXCEPT ![task[c].id] = @ + 1]
        /\ Goto(c, s) /\ UNCHANGED <<file, view, after>> /\ UNCHANGED <<task, receipts>>
        /\ Doing(c) = "effect"
    BY <1>6 DEF Effect, Doing
  <2>2. s \in {"collect", "pick"} /\ (s = "collect" <=> task[c].op = "bulk")
    OBVIOUS
  <2> HIDE DEF s
  <2>3. Doing(c)' = s
    BY <1>c, <2>1, <2>2 DEF Doing, Goto
  <2>4. /\ effects' \in [Ids -> Nat] /\ effects'[task[c].id] > 0
        /\ \A i \in Ids : effects[i] <= effects'[i] /\ receipts[i] \subseteq receipts'[i]
        /\ \A i \in Ids \ {task[c].id} : effects'[i] = effects[i]
    BY <1>c, <1>i, <2>1
  <2>5. CourseOK(c)'
    BY <1>o, <2>1, <2>2, <2>3 DEF CourseOK, Resolving
  <2>6. WillLog(c, task[c].id)' \/ "Approved" \in receipts'[task[c].id]
    BY <1>o, <2>1, <2>2, <2>3 DEF CourseOK, WillLog
  <2>7. \A i \in Ids : /\ WillLog(c, i) => WillLog(c, i)'
                       /\ effects'[i] = effects[i] \/ WillLog(c, i)' \/ "Approved" \in receipts'[i]
                       /\ WillApply(c, i) => effects'[i] > 0
    BY <2>1, <2>4, <2>6 DEF WillLog, WillApply
  <2>8. s \in Steps /\ s # "write"
    BY <1>n, <2>2
  <2> QED
    BY <1>c, <2>1, <2>4, <2>5, <2>7, <2>8, PlainStepCarries
<1>7. CASE EffectFails(c)
  <2>1. /\ UNCHANGED <<receipts, effects>> /\ UNCHANGED <<file, view, after>>
        /\ Doing(c) = "effect" /\ mode.fail
    BY <1>7 DEF EffectFails, Doing, world
  <2>2. CASE task[c].op = "bulk" /\ Goto(c, "pick") /\ UNCHANGED task
    <3>1. Doing(c)' = "pick"
      BY <1>c, <2>2 DEF Doing, Goto
    <3>2. CourseOK(c)' /\ \A i \in Ids : WillLog(c, i) => WillLog(c, i)'
      BY <1>o, <2>1, <2>2, <3>1 DEF CourseOK, WillLog, Resolving
    <3> QED
      BY <1>c, <1>n, <1>w, <2>1, <2>2, <3>2, PlainStepCarries
  <2>3. CASE task[c].op = "each" /\ Goto(c, "done") /\ task' = [task EXCEPT ![c] = NoTask]
    <3>1. Doing(c)' = "done" /\ task'[c] = NoTask
      BY <1>c, <2>3 DEF Doing, Goto
    <3>2. CourseOK(c)' /\ \A i \in Ids : ~WillLog(c, i)
      BY <1>c, <1>o, <2>1, <2>3, <3>1 DEF CourseOK, WillLog, Resolving
    <3> QED
      BY <1>c, <1>n, <1>w, <2>1, <2>3, <3>2, PlainStepCarries
  <2> QED
    BY <1>7, <2>2, <2>3 DEF EffectFails, Return
<1> QED
  BY <1>1, <1>2, <1>3, <1>4, <1>5, <1>6, <1>7

LEMMA InitCarries == Init => CarryInv
<1> SUFFICES ASSUME Init PROVE CarryInv
  OBVIOUS
<1>1. \A i \in Ids : file[i].status # "Approved"
  <2>1. file \in [Ids -> {NoRecord} \cup {NewRecord(a, 0, ttl) : a \in Actions, ttl \in TTLs}]
    BY DEF Init, Queues
  <2>2. NoRecord.status # "Approved"
        /\ \A a \in Actions, ttl \in TTLs : NewRecord(a, 0, ttl).status # "Approved"
    BY DEF NoRecord, NewRecord
  <2> QED
    BY <2>1, <2>2
<1>2. \A i \in Ids, c \in Callers : view[c][i].status # "Approved"
  BY DEF Init, EmptyFile, NoRecord
<1>3. ApplyInv
  BY <1>1, <1>2 DEF ApplyInv, ApprovedSomewhere
<1>4. \A c \in Callers : CourseOK(c)
  BY DEF Init, NoTask, CourseOK, Doing, Resolving
<1>5. \A i \in Ids : Logged(i)
  BY DEF Init, Logged
<1> QED
  BY <1>3, <1>4, <1>5 DEF CarryInv, LogInv

LEMMA NextCarries == DeskInv /\ CarryInv /\ [Next]_vars => CarryInv'
<1> SUFFICES ASSUME DeskInv, CarryInv, [Next]_vars, ~mode'.crash PROVE CarryInv'
  BY DEF CarryInv
<1>0. mode' = mode /\ ~mode.crash
  BY DEF Next, vars
<1>1. CASE Tick \/ UNCHANGED vars
  <2>1. UNCHANGED <<file, step, task, view, after, receipts, effects>>
    BY <1>1 DEF Tick, vars, world
  <2>2. \A c \in Callers : /\ CourseOK(c)' <=> CourseOK(c)
                           /\ \A i \in Ids : /\ WillLog(c, i)' <=> WillLog(c, i)
                                             /\ WillApply(c, i)' <=> WillApply(c, i)
    BY <2>1 DEF CourseOK, WillLog, WillApply, Doing
  <2>3. LogInv' <=> LogInv
    BY <2>1, <2>2 DEF LogInv, Logged
  <2>4. ApplyInv' <=> ApplyInv
    BY <2>1, <2>2 DEF ApplyInv, ApprovedSomewhere
  <2> QED
    BY <1>0, <2>3, <2>4 DEF CarryInv
<1>2. ASSUME NEW c \in Callers, NEW a \in Actions, NEW ttl \in TTLs, Ask(c, a, ttl)
      PROVE  CarryInv'
  BY <1>0, <1>2, AskCarries
<1>3. ASSUME NEW c \in Callers, NEW i \in Ids, Resolve(c, i)
      PROVE  CarryInv'
  BY <1>0, <1>3, ResolveCarries
<1>4. ASSUME NEW c \in Callers,
             \/ Read(c)
             \/ \E i \in Ids, target \in Decisions : One(c, i, target)
             \/ \E op \in {"each", "bulk"}, target \in Decisions : All(c, op, target)
      PROVE  CarryInv'
  BY <1>0, <1>4, BeginCarries
<1>5. ASSUME NEW c \in Callers,
             \/ Write(c) \/ Tell(c) \/ Receipt(c) \/ Collect(c) \/ Finish(c)
             \/ Effect(c) \/ EffectFails(c)
      PROVE  CarryInv'
  BY <1>0, <1>5, GoOnCarries
<1>6. \A c \in Callers : ~Crash(c)
  BY <1>0 DEF Crash
<1> QED
  BY <1>1, <1>2, <1>3, <1>4, <1>5, <1>6 DEF Next, CallerStep

LEMMA CarryInvariance == Spec => [](DeskInv /\ CarryInv)
<1>1. Init => DeskInv /\ CarryInv
  BY InitInv, InitCarries
<1>2. DeskInv /\ CarryInv /\ [Next]_vars => (DeskInv /\ CarryInv)'
  BY NextInv, NextCarries
<1> QED
  BY <1>1, <1>2, PTL DEF Spec

\* However many operators overlap, and whatever effects fail: once all calls
\* have returned, what was carried out is in the audit log as approved
\* (ui.rs:674-690 and 741-755).
THEOREM EffectsAlwaysAudited == Spec => []EffectsAreAudited
<1>1. ASSUME CarryInv, Finished, ~mode.crash
      PROVE  \A i \in Ids : effects[i] > 0 => "Approved" \in receipts[i]
  <2>1. \A c \in Callers : Doing(c) \in {"idle", "done"} /\ CourseOK(c)
    BY <1>1 DEF Finished, Doing, CarryInv, LogInv
  <2>2. \A c \in Callers, i \in Ids : ~WillLog(c, i)
    BY <2>1 DEF CourseOK, WillLog, Resolving
  <2> QED
    BY <1>1, <2>2 DEF CarryInv, LogInv, Logged
<1>2. CarryInv => EffectsAreAudited
  BY <1>1 DEF EffectsAreAudited
<1> QED
  BY <1>2, CarryInvariance, PTL

\* No approval on file waits for its action once all calls have returned and no
\* effect failed, whichever list of which operator was written last
\* (ui.rs:674-690, 734-750).
THEOREM ApprovalsAlwaysApplied == Spec => []ApprovedIsApplied
<1>1. ASSUME CarryInv, Finished, ~mode.crash, ~mode.fail, NEW i \in Ids, file[i].status = "Approved"
      PROVE  effects[i] > 0
  <2>1. \A c \in Callers : ~WillApply(c, i)
    BY <1>1 DEF Finished, Doing, WillApply
  <2> QED
    BY <1>1, <2>1 DEF CarryInv, ApplyInv, ApprovedSomewhere
<1>2. CarryInv => ApprovedIsApplied
  BY <1>1 DEF ApprovedIsApplied
<1> QED
  BY <1>2, CarryInvariance, PTL
=============================================================================
