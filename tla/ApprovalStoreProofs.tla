------------------------- MODULE ApprovalStoreProofs -------------------------
(***************************************************************************)
(* For every set of ids, actions and times to live: the store keeps its    *)
(* types, never holds two pending requests of a key, decides in time, and  *)
(* implements the lifecycle of a request.  For every set of agents that    *)
(* wait for decisions, and every timeout: what they are told stays true.   *)
(***************************************************************************)
EXTENDS ApprovalWait, ApprovalRecordsProofs

StoreInv == TypeOK /\ FileInv(file, now)

LEMMA InitInv == Init => StoreInv
<1> SUFFICES ASSUME Init PROVE StoreInv
  OBVIOUS
<1>1. \A i \in Ids : file[i] = NoRecord /\ file[i].status = "Absent"
  BY DEF Init, EmptyFile, NoRecord
<1>2. file \in Files
  BY DEF Init, EmptyFile, Files
<1>3. FileInv(file, now)
  BY <1>1, <1>2 DEF FileInv, Decisions
<1>4. TypeOK
  BY <1>2, MaxTimeAssumption DEF Init, TypeOK
<1> QED
  BY <1>3, <1>4 DEF StoreInv

\* What an operation may do to the file, while the clock goes on.
FileStep ==
    /\ now' \in Later
    /\ \/ file' = file
       \/ file' = Loaded
       \/ \E a \in Actions, ttl \in TTLs, i \in Ids \ Recorded(file) :
            /\ Reusable(Loaded, a) = {}
            /\ file' = [Loaded EXCEPT ![i] = NewRecord(a, now', ttl)]
       \/ \E i \in Ids, target \in Decisions :
            /\ Loaded[i].status = "Pending"
            /\ file' = Decide(Loaded, i, target, now')

\* Every operation is such a step, and what it answers and records has its
\* type.
LEMMA OperationStep ==
  ASSUME StoreInv, Next, ~Tick
  PROVE  /\ FileStep
         /\ grants' \subseteq [scope : Scopes, until : Nat]
         /\ reply'.at \in 0 .. now'
<1> USE DEF StoreInv, TypeOK
<1>n. /\ now \in Nat /\ now \in 0 .. now /\ now \in Later /\ file \in Files
      /\ \A t \in Later : now \in 0 .. t /\ t \in 0 .. t
  BY MaxTimeAssumption DEF Later
<1>1. ASSUME NEW a \in Actions, NEW ttl \in TTLs, ReusePending(a)
      PROVE  now' = now /\ file' = Loaded /\ grants' = grants /\ reply'.at = now
  BY <1>1 DEF ReusePending, Replies, Reusable
<1>2. ASSUME NEW a \in Actions, NEW ttl \in TTLs, AddPending(a, ttl)
      PROVE  FileStep /\ grants' = grants /\ reply'.at = now
  <2>1. PICK i \in Ids \ Recorded(file) :
           /\ file' = [Loaded EXCEPT ![i] = NewRecord(a, now', ttl)]
           /\ Replies("create_pending", i, "created")
    BY <1>2 DEF AddPending
  <2>2. now' \in Later /\ grants' = grants /\ Reusable(Loaded, a) = {}
    BY <1>2 DEF AddPending
  <2>3. FileStep
    BY <2>1, <2>2 DEF FileStep
  <2> QED
    BY <2>1, <2>2, <2>3 DEF Replies
<1>3. ASSUME NEW i \in Ids, NEW target \in Decisions, ResolvePending(i, target)
      PROVE  FileStep /\ reply'.at = now /\ grants' \subseteq [scope : Scopes, until : Nat]
  <2>1. file[i] \in Record
    BY <1>3, <1>n, LoadedPending DEF ResolvePending, Loaded
  <2>2. FileStep /\ reply'.at = now
    BY <1>3 DEF ResolvePending, FileStep, Replies
  <2>3. grants' \subseteq [scope : Scopes, until : Nat]
    BY <1>3, <2>1 DEF ResolvePending, Record, Scopes
  <2> QED
    BY <2>2, <2>3
<1>4. ASSUME NEW i \in Ids, NEW target \in Decisions,
             \/ ResolveAgain(i, target)
             \/ RefuseResolution(i, target)
             \/ ResolveUnknown(i, target)
      PROVE  FileStep /\ reply'.at = now /\ grants' = grants
  BY <1>4, <1>n DEF ResolveAgain, RefuseResolution, ResolveUnknown, Replies, FileStep
<1>5. ASSUME NEW i \in Ids, NEW target \in Decisions,
             SetStatus(i, target) \/ SetStatusIdempotent(i, target)
      PROVE  /\ FileStep /\ reply'.at = now
             /\ grants' \subseteq [scope : Scopes, until : Nat]
  BY <1>3, <1>4, <1>5 DEF SetStatus, SetStatusIdempotent
<1>6. ASSUME \/ \E i \in Ids : Get(i)
             \/ ListPending
             \/ ExpireNow
             \/ \E a \in Actions : HasActiveApproval(a)
      PROVE  /\ FileStep /\ grants' = grants
             /\ reply'.at \in {now, now'} \/ reply' = reply
  BY <1>6, <1>n DEF FileStep, Get, ListPending, ExpireNow, HasActiveApproval, Refreshes, Replies
<1>7. CASE \E a \in Actions, ttl \in TTLs : CreatePending(a, ttl)
  BY <1>7, <1>1, <1>2, <1>n DEF CreatePending, FileStep
<1>8. CASE \E i \in Ids, target \in Decisions : SetStatus(i, target) \/ SetStatusIdempotent(i, target)
  BY <1>8, <1>5, <1>n DEF FileStep
<1>9. CASE \/ \E i \in Ids : Get(i)
           \/ ListPending
           \/ ExpireNow
           \/ \E a \in Actions : HasActiveApproval(a)
  <2>1. FileStep /\ grants' = grants /\ (reply'.at \in {now, now'} \/ reply' = reply)
    BY <1>9, <1>6
  <2>2. reply.at \in 0 .. now /\ \A t \in Later : 0 .. now \subseteq 0 .. t
    BY <1>n DEF Later
  <2> QED
    BY <2>1, <2>2, <1>n DEF FileStep
<1> QED
  BY <1>7, <1>8, <1>9 DEF Next

LEMMA FileStepInv ==
  ASSUME StoreInv, FileStep
  PROVE  FileInv(file', now')
<1>1. now \in Nat /\ now' \in Nat /\ now <= now' /\ FileInv(file, now)
  BY MaxTimeAssumption DEF StoreInv, TypeOK, FileStep, Later
<1>2. CASE file' = file
  BY <1>1, <1>2, FileInvLater
<1>3. CASE file' = Loaded
  BY <1>1, <1>3, ExpireStaleInv, FileInvLater DEF Loaded
<1>4. ASSUME NEW a \in Actions, NEW ttl \in TTLs, NEW i \in Ids \ Recorded(file),
             Reusable(Loaded, a) = {},
             file' = [Loaded EXCEPT ![i] = NewRecord(a, now', ttl)]
      PROVE  FileInv(file', now')
  BY <1>1, <1>4, AddInv DEF Loaded
<1>5. ASSUME NEW i \in Ids, NEW target \in Decisions,
             Loaded[i].status = "Pending",
             file' = Decide(Loaded, i, target, now')
      PROVE  FileInv(file', now')
  BY <1>1, <1>5, DecideInv DEF Loaded
<1> QED
  BY <1>2, <1>3, <1>4, <1>5 DEF FileStep

LEMMA NextInv == StoreInv /\ [Next]_vars => StoreInv'
<1> SUFFICES ASSUME StoreInv, [Next]_vars PROVE StoreInv'
  OBVIOUS
<1>1. CASE UNCHANGED vars
  BY <1>1 DEF vars, StoreInv, TypeOK, FileInv, Files
<1>2. CASE Next /\ ~Tick
  <2>1. FileInv(file', now') /\ now' \in 0 .. MaxTime
    BY <1>2, OperationStep, FileStepInv DEF FileStep, Later, StoreInv, TypeOK
  <2>2. file' \in Files
    BY <2>1 DEF FileInv
  <2>3. TypeOK'
    BY <1>2, <2>1, <2>2, OperationStep DEF StoreInv, TypeOK, Scopes, Files
  <2> QED
    BY <2>1, <2>3 DEF StoreInv
<1>3. CASE Tick
  <2>1. /\ now' = now + 1 /\ now' \in 0 .. MaxTime
        /\ UNCHANGED <<file, reply, grants>>
        /\ now \in Nat /\ now' \in Nat
    BY <1>3, MaxTimeAssumption DEF Tick, StoreInv, TypeOK
  <2>2. FileInv(file', now')
    BY <2>1, FileInvLater DEF StoreInv
  <2>3. TypeOK'
    BY <2>1 DEF StoreInv, TypeOK, Scopes, Files
  <2> QED
    BY <2>2, <2>3 DEF StoreInv
<1> QED
  BY <1>1, <1>2, <1>3

LEMMA Invariance == Spec => []StoreInv
  BY InitInv, NextInv, PTL DEF Spec

-----------------------------------------------------------------------------
\* The store never holds anything but a well-formed list of records, and its
\* replies carry the time they were made (all of src/approvals.rs).
THEOREM TypeCorrect == Spec => []TypeOK
<1>1. StoreInv => TypeOK
  BY DEF StoreInv
<1> QED
  BY <1>1, Invariance, PTL

\* At most one request of a key waits, however many callers retry
\* (create_pending, approvals.rs:88-127).
THEOREM Deduplication == Spec => []OnePendingPerKey
<1>1. StoreInv => OnePendingPerKey
  BY DEF StoreInv, FileInv, OnePendingPerKey
<1> QED
  BY <1>1, Invariance, PTL

-----------------------------------------------------------------------------
LEMMA LoadedFile ==
  ASSUME StoreInv
  PROVE  file \in Files /\ now \in Nat /\ Loaded \in Files
<1>1. file \in Files /\ now \in Nat
  BY MaxTimeAssumption DEF StoreInv, TypeOK
<1> QED
  BY <1>1, ExpireStaleFile DEF Loaded

\* Expiring keeps a record or lets it lapse.
LEMMA LoadedMoves ==
  ASSUME StoreInv, NEW i \in Ids
  PROVE  /\ \/ Loaded[i] = file[i]
            \/ /\ file[i].status = "Pending"
               /\ file[i].expires <= now
               /\ Loaded[i].status = "Expired"
               /\ Loaded[i].expires = file[i].expires
         /\ file[i].status = "Absent" => Loaded[i] = file[i]
<1>1. file \in Files /\ now \in Nat
  BY MaxTimeAssumption DEF StoreInv, TypeOK
<1>2. CASE ~IsStale(file[i], now)
  BY <1>1, <1>2, LoadedPending, ExpireStaleFile DEF Loaded, ExpireStale
<1>3. CASE IsStale(file[i], now)
  <2>1. file[i] \in Record
    BY <1>1, <1>3, StatusOfAFile DEF IsStale
  <2>2. Loaded[i] = [file[i] EXCEPT !.status = "Expired", !.decided = now]
    BY <1>3 DEF Loaded, ExpireStale
  <2>3. Loaded[i].status = "Expired" /\ Loaded[i].expires = file[i].expires
    BY <2>1, <2>2 DEF Record
  <2> QED
    BY <1>3, <2>3 DEF IsStale
<1> QED
  BY <1>2, <1>3

\* Whatever the clock does while an operation runs, the dates of a record come
\* in order, and a request is only decided by an operation that looked before
\* its deadline (set_status, set_status_idempotent and expire_stale,
\* approvals.rs:184-288).
THEOREM Punctuality == Spec => []DatesInOrder /\ DecidedInTime
<1>1. StoreInv => DatesInOrder
  BY DEF StoreInv, FileInv, DatesInOrder
<1>2. StoreInv /\ [Next]_vars =>
         [\A i \in Ids : file[i].status = "Pending" /\ file'[i].status \in Decisions
                            => now < file[i].expires]_vars
  <2> SUFFICES ASSUME StoreInv, Next, NEW i \in Ids, file[i].status = "Pending",
                      file'[i].status \in Decisions
               PROVE  now < file[i].expires
    OBVIOUS
  <2>n. file \in Files /\ now \in Nat /\ Loaded \in Files
    BY LoadedFile
  <2>s. "Pending" \notin Decisions /\ "Expired" \notin Decisions
    BY DEF Decisions
  <2>1. ~Tick
    BY <2>s DEF Tick
  <2>2. FileStep
    BY <2>1, OperationStep
  <2>3. Loaded[i].status \notin Decisions
    BY <2>s, LoadedMoves
  <2>4. ASSUME NEW k \in Ids, NEW target \in Decisions, Loaded[k].status = "Pending",
               file' = Decide(Loaded, k, target, now')
        PROVE  now < file[i].expires
    <3>1. i = k
      BY <2>3, <2>4, <2>n DEF Files, Decide
    <3> QED
      BY <2>4, <3>1, <2>n, LoadedPending DEF Loaded
  <2>5. ASSUME NEW a \in Actions, NEW ttl \in TTLs, NEW k \in Ids \ Recorded(file),
               file' = [Loaded EXCEPT ![k] = NewRecord(a, now', ttl)]
        PROVE  FALSE
    <3>1. file'[i] = Loaded[i]
      BY <2>5, <2>n DEF Files, Recorded
    <3> QED
      BY <2>3, <3>1
  <2> QED
    BY <2>2, <2>3, <2>4, <2>5, <2>s DEF FileStep
<1> QED
  BY <1>1, <1>2, Invariance, PTL DEF Spec, DecidedInTime

LEMMA FileStepRefines ==
  ASSUME StoreInv, FileStep
  PROVE  Lifecycle!Next
<1> USE DEF Lifecycle!Keeps, Lifecycle!Asked, Lifecycle!Decided, Lifecycle!Lapsed
<1>n. file \in Files /\ now \in Nat /\ now' \in Nat /\ now' >= now
  BY MaxTimeAssumption DEF StoreInv, TypeOK, FileStep, Later
<1>l. Loaded \in Files
  BY <1>n, ExpireStaleFile DEF Loaded
<1>1. CASE file' = file
  BY <1>1, <1>n DEF Lifecycle!Next
<1>2. CASE file' = Loaded
  <2>1. \A i \in Ids : Lifecycle!Keeps(i) \/ Lifecycle!Lapsed(i)
    BY <1>2, LoadedMoves
  <2>2. \A i \in Ids : ~Lifecycle!Asked(i) /\ ~Lifecycle!Decided(i)
    BY <1>2, LoadedMoves
  <2> QED
    BY <1>n, <2>1, <2>2 DEF Lifecycle!Next
<1>3. ASSUME NEW a \in Actions, NEW ttl \in TTLs, NEW k \in Ids \ Recorded(file),
             file' = [Loaded EXCEPT ![k] = NewRecord(a, now', ttl)]
      PROVE  Lifecycle!Next
  <2>1. /\ file'[k] = NewRecord(a, now', ttl)
        /\ \A i \in Ids : i # k => file'[i] = Loaded[i]
    BY <1>3, <1>l DEF Files
  <2>2. file'[k].status = "Pending" /\ file'[k].expires = now' + ttl
    BY <2>1 DEF NewRecord
  <2>3. file[k].status = "Absent"
    BY <1>n DEF Recorded
  <2>4. ttl \in Nat
    BY TTLsAssumption
  <2>5. Lifecycle!Asked(k)
    BY <2>2, <2>3, <2>4, <1>n
  <2>6. \A i \in Ids : i # k =>
           /\ Lifecycle!Keeps(i) \/ Lifecycle!Lapsed(i)
           /\ ~Lifecycle!Asked(i) /\ ~Lifecycle!Decided(i)
    BY <2>1, LoadedMoves
  <2> QED
    BY <1>n, <2>5, <2>6 DEF Lifecycle!Next
<1>4. ASSUME NEW k \in Ids, NEW target \in Decisions,
             Loaded[k].status = "Pending",
             file' = Decide(Loaded, k, target, now')
      PROVE  Lifecycle!Next
  <2>1. /\ file'[k] = [Loaded[k] EXCEPT !.status = target, !.decided = now']
        /\ \A i \in Ids : i # k => file'[i] = Loaded[i]
    BY <1>4, <1>l DEF Files, Decide
  <2>2. /\ file[k].status = "Pending" /\ file[k] \in Record
        /\ Loaded[k] = file[k] /\ now < file[k].expires
    BY <1>4, <1>n, LoadedPending DEF Loaded
  <2>3. file'[k].status = target /\ file'[k].expires = file[k].expires
    BY <2>1, <2>2 DEF Record
  <2>4. Lifecycle!Decided(k)
    BY <2>2, <2>3, <1>n DEF Decisions
  <2>5. \A i \in Ids : i # k =>
           /\ Lifecycle!Keeps(i) \/ Lifecycle!Lapsed(i)
           /\ ~Lifecycle!Asked(i) /\ ~Lifecycle!Decided(i)
    BY <2>1, LoadedMoves
  <2> QED
    BY <1>n, <2>4, <2>5 DEF Lifecycle!Next
<1> QED
  BY <1>1, <1>2, <1>3, <1>4 DEF FileStep

\* Operations of ApprovalStore, one at a time, do to each request only what
\* its lifecycle allows: asked for once, decided in time or expired, final.
THEOREM Refinement == Spec => ImplementsLifecycle
<1>1. Init => Lifecycle!Init
  BY DEF Init, Lifecycle!Init, EmptyFile, NoRecord
<1>2. StoreInv /\ [Next]_vars => [Lifecycle!Next]_(Lifecycle!lifecycleVars)
  <2> SUFFICES ASSUME StoreInv, [Next]_vars
               PROVE  [Lifecycle!Next]_(Lifecycle!lifecycleVars)
    OBVIOUS
  <2>1. CASE UNCHANGED vars
    BY <2>1 DEF vars, Lifecycle!lifecycleVars
  <2>2. CASE Next /\ ~Tick
    BY <2>2, OperationStep, FileStepRefines
  <2>3. CASE Tick
    <3>1. UNCHANGED file /\ now' >= now
      BY <2>3, MaxTimeAssumption DEF Tick, StoreInv, TypeOK
    <3> QED
      BY <3>1 DEF Lifecycle!Next, Lifecycle!Keeps, Lifecycle!Asked, Lifecycle!Decided
  <2> QED
    BY <2>1, <2>2, <2>3
<1> QED
  BY <1>1, <1>2, Invariance, PTL DEF Spec, ImplementsLifecycle, Lifecycle!Spec

-----------------------------------------------------------------------------
\* The grants an approvals file stands for.
Given(f) == {[scope |-> f[i].action.scope, until |-> f[i].expires] :
                i \in {j \in Ids : f[j].status = "Approved"}}

\* What operators permitted is what the file holds, and the last answer, if
\* it says that a request waits, names one on file whose time was not over.
AnswerInv ==
    /\ grants = Given(file)
    /\ GrantsAreExact
    /\ reply.op \in {"get", "list_pending", "create_pending"}
           /\ reply.result \in {"Pending", "reused"}
       => reply.id \in {i \in Ids : file[i].status # "Absent" /\ reply.at < file[i].expires}

LEMMA SameGiven ==
  ASSUME NEW f, NEW g,
         \A i \in Ids : f[i].status = "Approved" \/ g[i].status = "Approved" => f[i] = g[i]
  PROVE  Given(f) = Given(g)
<1>1. {j \in Ids : f[j].status = "Approved"} = {j \in Ids : g[j].status = "Approved"}
  OBVIOUS
<1> QED
  BY <1>1 DEF Given

LEMMA LoadedGives ==
  ASSUME StoreInv
  PROVE  Given(Loaded) = Given(file)
<1>1. \A i \in Ids : Loaded[i].status = "Approved" \/ file[i].status = "Approved" => Loaded[i] = file[i]
  BY LoadedMoves
<1> QED
  BY <1>1, SameGiven

\* has_active_approval_for answers from the grants of the file.
LEMMA ActiveMeansGiven ==
  ASSUME NEW f, NEW a, NEW t
  PROVE  HasActive(f, a, t) <=> \E g \in Given(f) : g.scope = a.scope /\ t < g.until
<1>1. ASSUME NEW i \in Ids, IsActive(f[i], a, t)
      PROVE  \E g \in Given(f) : g.scope = a.scope /\ t < g.until
  <2>1. [scope |-> f[i].action.scope, until |-> f[i].expires] \in Given(f)
    BY <1>1 DEF Given, IsActive
  <2> QED
    BY <1>1, <2>1 DEF IsActive
<1>2. ASSUME NEW g \in Given(f), g.scope = a.scope, t < g.until
      PROVE  HasActive(f, a, t)
  <2>1. PICK i \in Ids : /\ f[i].status = "Approved"
                         /\ g = [scope |-> f[i].action.scope, until |-> f[i].expires]
    BY DEF Given
  <2> QED
    BY <1>2, <2>1 DEF HasActive, IsActive
<1> QED
  BY <1>1, <1>2 DEF HasActive

\* Whatever an operation does, the file stands for what was permitted.
LEMMA ResolvePendingGives ==
  ASSUME StoreInv, grants = Given(file),
         NEW i \in Ids, NEW target \in Decisions, ResolvePending(i, target)
  PROVE  grants' = Given(file')
<1>1. /\ file \in Files /\ now \in Nat
      /\ Loaded \in Files
  BY LoadedFile
<1>2. /\ file'[i] = [Loaded[i] EXCEPT !.status = target, !.decided = now']
      /\ \A j \in Ids : j # i => file'[j] = Loaded[j]
  BY <1>1 DEF ResolvePending, Decide, Files
<1>3. Loaded[i] = file[i] /\ file[i] \in Record /\ file[i].status = "Pending"
  BY <1>1, LoadedPending DEF ResolvePending, Loaded
<1>4. /\ file'[i].status = target
      /\ file'[i].action = file[i].action
      /\ file'[i].expires = file[i].expires
  BY <1>2, <1>3 DEF Record
<1>5. \A j \in Ids : j # i =>
         (file'[j].status = "Approved" \/ file[j].status = "Approved" => file'[j] = file[j])
  BY <1>2, LoadedMoves
<1> DEFINE g == [scope |-> file[i].action.scope, until |-> file[i].expires]
<1>6. CASE target = "Approved"
  <2>1. grants' = Given(file) \cup {g}
    BY <1>6 DEF ResolvePending
  <2>2. {j \in Ids : file'[j].status = "Approved"}
            = {j \in Ids : file[j].status = "Approved"} \cup {i}
    BY <1>3, <1>4, <1>5, <1>6
  <2>3. ASSUME NEW h \in Given(file') PROVE h \in Given(file) \cup {g}
    <3>1. PICK j \in Ids : /\ file'[j].status = "Approved"
                           /\ h = [scope |-> file'[j].action.scope, until |-> file'[j].expires]
      BY DEF Given
    <3>2. CASE j = i
      BY <3>1, <3>2, <1>4
    <3>3. CASE j # i
      BY <3>1, <3>3, <1>5 DEF Given
    <3> QED
      BY <3>2, <3>3
  <2>4. g \in Given(file')
    BY <1>4, <1>6 DEF Given
  <2>5. ASSUME NEW h \in Given(file) PROVE h \in Given(file')
    <3>1. PICK j \in Ids : /\ file[j].status = "Approved"
                           /\ h = [scope |-> file[j].action.scope, until |-> file[j].expires]
      BY DEF Given
    <3>2. j # i /\ file'[j] = file[j]
      BY <3>1, <1>3, <1>5
    <3> QED
      BY <3>1, <3>2 DEF Given
  <2> HIDE DEF g
  <2> QED
    BY <2>1, <2>3, <2>4, <2>5
<1>7. CASE target # "Approved"
  <2>1. grants' = Given(file)
    BY <1>7 DEF ResolvePending
  <2>2. \A j \in Ids :
           file'[j].status = "Approved" \/ file[j].status = "Approved" => file'[j] = file[j]
    BY <1>3, <1>4, <1>5, <1>7
  <2> QED
    BY <2>1, <2>2, SameGiven
<1> QED
  BY <1>6, <1>7

LEMMA AddPendingGives ==
  ASSUME StoreInv, grants = Given(file),
         NEW a \in Actions, NEW ttl \in TTLs, AddPending(a, ttl)
  PROVE  grants' = Given(file') /\ reply'.op = "create_pending" /\ reply'.result = "created"
<1>1. PICK i \in Ids \ Recorded(file) :
         /\ file' = [Loaded EXCEPT ![i] = NewRecord(a, now', ttl)]
         /\ Replies("create_pending", i, "created")
  BY DEF AddPending
<1>2. Loaded \in Files
  BY LoadedFile
<1>3. file'[i].status = "Pending" /\ file[i].status = "Absent"
  BY <1>1, <1>2 DEF Files, NewRecord, Recorded
<1>4. \A j \in Ids : j # i => file'[j] = Loaded[j]
  BY <1>1, <1>2 DEF Files
<1>5. \A j \in Ids :
         file'[j].status = "Approved" \/ file[j].status = "Approved" => file'[j] = file[j]
  BY <1>3, <1>4, LoadedMoves
<1> QED
  BY <1>1, <1>5, SameGiven DEF AddPending, Replies

\* A step that leaves the last answer standing, and lets records lapse at most.
LEMMA AnswerStands ==
  ASSUME StoreInv, AnswerInv, UNCHANGED <<reply, grants>>, file' = file \/ file' = Loaded
  PROVE  AnswerInv'
<1>1. grants' = Given(file')
  BY LoadedGives DEF AnswerInv
<1>2. \A i \in Ids : file[i].status # "Absent" =>
         file'[i].status # "Absent" /\ file'[i].expires = file[i].expires
  BY LoadedMoves
<1> QED
  BY <1>1, <1>2 DEF AnswerInv, GrantsAreExact

\* An operation that reads the list and answers of record i.
LEMMA AnswerOfLoaded ==
  ASSUME StoreInv, AnswerInv, UNCHANGED grants, file' = file \/ file' = Loaded,
         NEW i \in Ids, NEW op, NEW result, op # "has_active", Replies(op, i, result),
         \/ op \notin {"get", "list_pending", "create_pending"}
         \/ result \in {"Pending", "reused"} => Loaded[i].status = "Pending"
  PROVE  AnswerInv'
<1>1. grants' = Given(file')
  BY LoadedGives DEF AnswerInv
<1>2. reply'.op = op /\ reply'.id = i /\ reply'.result = result /\ reply'.at = now
  BY DEF Replies
<1>3. Loaded[i].status = "Pending" =>
         file'[i].status # "Absent" /\ now < file'[i].expires
  <2>1. file \in Files /\ now \in Nat
    BY MaxTimeAssumption DEF StoreInv, TypeOK
  <2> QED
    BY <2>1, LoadedPending DEF Loaded
<1> QED
  BY <1>1, <1>2, <1>3 DEF AnswerInv, GrantsAreExact

LEMMA AnswerNext == StoreInv /\ AnswerInv /\ [Next]_vars => AnswerInv'
<1> SUFFICES ASSUME StoreInv, AnswerInv, [Next]_vars PROVE AnswerInv'
  OBVIOUS
<1>n. grants = Given(file)
  BY DEF AnswerInv
<1>1. CASE UNCHANGED vars
  BY <1>1, AnswerStands DEF vars
<1>2. CASE Tick
  BY <1>2, AnswerStands DEF Tick
<1>3. CASE ExpireNow
  BY <1>3, AnswerStands DEF ExpireNow, Refreshes
<1>4. ASSUME NEW a \in Actions, NEW ttl \in TTLs, AddPending(a, ttl)
      PROVE  AnswerInv'
  BY <1>4, <1>n, AddPendingGives DEF AnswerInv, GrantsAreExact
<1>5. ASSUME NEW a \in Actions, ReusePending(a)
      PROVE  AnswerInv'
  <2>1. PICK i \in Reusable(Loaded, a) :
           file' = Loaded /\ Replies("create_pending", i, "reused") /\ UNCHANGED grants
    BY <1>5 DEF ReusePending
  <2>2. i \in Ids /\ Loaded[i].status = "Pending"
    BY DEF Reusable
  <2> QED
    BY <2>1, <2>2, AnswerOfLoaded
<1>6. ASSUME NEW i \in Ids, NEW target \in Decisions, ResolvePending(i, target)
      PROVE  AnswerInv'
  <2>1. grants' = Given(file')
    BY <1>6, <1>n, ResolvePendingGives
  <2>2. reply'.op \in {"Approved", "Denied"}
    BY <1>6 DEF ResolvePending, Replies, Decisions
  <2> QED
    BY <2>1, <2>2 DEF AnswerInv, GrantsAreExact
<1>7. ASSUME NEW i \in Ids, NEW target \in Decisions,
             \/ ResolveAgain(i, target)
             \/ RefuseResolution(i, target)
             \/ ResolveUnknown(i, target)
      PROVE  AnswerInv'
  <2>1. PICK result \in {"unchanged", "refused", "not_found"} : Replies(target, i, result)
    BY <1>7 DEF ResolveAgain, RefuseResolution, ResolveUnknown
  <2>2. UNCHANGED grants /\ (file' = file \/ file' = Loaded)
    BY <1>7 DEF ResolveAgain, RefuseResolution, ResolveUnknown
  <2>3. target \notin {"get", "list_pending", "create_pending", "has_active"}
    BY DEF Decisions
  <2> QED
    BY <2>1, <2>2, <2>3, AnswerOfLoaded
<1>8. ASSUME NEW i \in Ids, NEW target \in Decisions,
             SetStatus(i, target) \/ SetStatusIdempotent(i, target)
      PROVE  AnswerInv'
  BY <1>8, <1>6, <1>7 DEF SetStatus, SetStatusIdempotent
<1>9. ASSUME NEW i \in Ids, Get(i)
      PROVE  AnswerInv'
  <2>1. /\ Replies("get", i, Loaded[i].status)
        /\ UNCHANGED grants /\ file' = Loaded
    BY <1>9 DEF Get, Refreshes
  <2>2. Loaded[i].status \in {"Pending", "reused"} => Loaded[i].status = "Pending"
    <3>1. Loaded \in Files
      BY LoadedFile
    <3> QED
      BY <3>1, StatusOfAFile
  <2> QED
    BY <2>1, <2>2, AnswerOfLoaded
<1>10. CASE ListPending
  <2>1. PICK i \in Ids : /\ Loaded[i].status = "Pending"
                         /\ Refreshes
                         /\ Replies("list_pending", i, "Pending")
    BY <1>10 DEF ListPending
  <2> QED
    BY <2>1, AnswerOfLoaded DEF Refreshes
<1>11. ASSUME NEW a \in Actions, HasActiveApproval(a)
       PROVE  AnswerInv'
  <2>1. grants' = Given(file') /\ Given(file') = Given(Loaded)
    BY <1>11, <1>n, LoadedGives DEF HasActiveApproval
  <2>2. /\ reply'.op = "has_active" /\ reply'.scope = a.scope /\ reply'.at = now'
        /\ reply'.result = HasActive(Loaded, a, now')
    BY <1>11 DEF HasActiveApproval
  <2>3. reply'.result <=> \E g \in grants' : g.scope = reply'.scope /\ reply'.at < g.until
    <3>1. HasActive(Loaded, a, now') <=>
             \E g \in Given(Loaded) : g.scope = a.scope /\ now' < g.until
      BY ActiveMeansGiven
    <3> QED
      BY <2>1, <2>2, <3>1
  <2> QED
    BY <2>1, <2>2, <2>3 DEF AnswerInv, GrantsAreExact
<1> QED
  BY <1>1, <1>2, <1>3, <1>4, <1>5, <1>8, <1>9, <1>10, <1>11 DEF Next, CreatePending

LEMMA AnswersAlways == Spec => []AnswerInv
<1>1. Init => AnswerInv
  <2> SUFFICES ASSUME Init PROVE AnswerInv
    OBVIOUS
  <2>1. \A i \in Ids : file[i].status # "Approved"
    BY DEF Init, EmptyFile, NoRecord
  <2>2. grants = Given(file)
    BY <2>1 DEF Init, Given
  <2> QED
    BY <2>2 DEF Init, AnswerInv, GrantsAreExact
<1> QED
  BY <1>1, AnswerNext, Invariance, PTL DEF Spec

\* No answer says that a request waits whose time is over (get, list_pending
\* and create_pending, approvals.rs:77-151).
THEOREM NoStaleAnswerEver == Spec => []NoStaleAnswer
<1>1. AnswerInv => NoStaleAnswer
  BY DEF AnswerInv, NoStaleAnswer
<1> QED
  BY <1>1, AnswersAlways, PTL

\* has_active_approval_for says yes exactly while a permission for the scope
\* runs (approvals.rs:153-165).
THEOREM GrantsAlwaysExact == Spec => []GrantsAreExact
<1>1. AnswerInv => GrantsAreExact
  BY DEF AnswerInv
<1> QED
  BY <1>1, AnswersAlways, PTL

-----------------------------------------------------------------------------
\* What an operation leaves of a record that is there: its deadline, and all
\* of it once it is decided or expired; what it decides is not dated back.
LEMMA RecordStands ==
  ASSUME StoreInv, FileStep, NEW i \in Ids, file[i].status # "Absent"
  PROVE  /\ file'[i].status # "Absent"
         /\ file'[i].expires = file[i].expires
         /\ \/ file'[i] = file[i]
            \/ file[i].status = "Pending" /\ file'[i].decided \in Later
<1>n. /\ file \in Files /\ now \in Nat /\ Loaded \in Files /\ file[i] \in Record
      /\ now \in Later /\ now' \in Later
  <2>1. file \in Files /\ Loaded \in Files /\ file[i] \in Record
    BY LoadedFile, StatusOfAFile
  <2> QED
    BY <2>1, MaxTimeAssumption DEF Later, StoreInv, TypeOK, FileStep
<1>1. /\ Loaded[i].status # "Absent"
      /\ Loaded[i].expires = file[i].expires
      /\ \/ Loaded[i] = file[i]
         \/ file[i].status = "Pending" /\ Loaded[i].decided \in Later
  <2>1. CASE ~IsStale(file[i], now)
    BY <2>1, <1>n DEF Loaded, ExpireStale
  <2>2. CASE IsStale(file[i], now)
    <3>1. Loaded[i] = [file[i] EXCEPT !.status = "Expired", !.decided = now]
      BY <2>2 DEF Loaded, ExpireStale
    <3> QED
      BY <1>n, <2>2, <3>1 DEF IsStale, Record
  <2> QED
    BY <2>1, <2>2
<1>2. CASE file' = file
  BY <1>2
<1>3. CASE file' = Loaded
  BY <1>1, <1>3
<1>4. ASSUME NEW a \in Actions, NEW ttl \in TTLs, NEW k \in Ids \ Recorded(file),
             file' = [Loaded EXCEPT ![k] = NewRecord(a, now', ttl)]
      PROVE  file'[i] = Loaded[i]
  BY <1>4, <1>n DEF Files, Recorded
<1>5. ASSUME NEW k \in Ids, NEW target \in Decisions, Loaded[k].status = "Pending",
             file' = Decide(Loaded, k, target, now')
      PROVE  /\ file'[i].status # "Absent"
             /\ file'[i].expires = file[i].expires
             /\ file'[i] = Loaded[i] \/ (file[i].status = "Pending" /\ file'[i].decided \in Later)
  <2>1. CASE k # i
    <3>1. file'[i] = Loaded[i]
      BY <1>5, <2>1, <1>n DEF Files, Decide
    <3> QED
      BY <1>1, <3>1
  <2>2. CASE k = i
    <3>1. Loaded[i] = file[i] /\ file[i].status = "Pending"
      BY <1>5, <2>2, <1>n, LoadedPending DEF Loaded
    <3>2. file'[i] = [file[i] EXCEPT !.status = target, !.decided = now']
      BY <1>5, <2>2, <3>1, <1>n DEF Files, Decide
    <3>3. target # "Absent"
      BY DEF Decisions
    <3> QED
      BY <1>n, <3>1, <3>2, <3>3 DEF Record
  <2> QED
    BY <2>1, <2>2
<1> QED
  BY <1>1, <1>2, <1>3, <1>4, <1>5 DEF FileStep

-----------------------------------------------------------------------------
(***************************************************************************)
(* Agents that wait.  A timeout is honest for ever because a decision that *)
(* comes later is dated later, and a deadline never moves.                 *)
(***************************************************************************)
Statuses == {"Absent", "Pending", "Approved", "Denied", "Expired"}

Polls == [phase : {"polling"}, id : Ids, since : Nat]
Answered == [phase : {"not_found", "resolved", "timeout"}, id : Ids, since : Nat,
             answer : Statuses, read : Nat, at : Nat]

\* What an agent was told, of the record r.
AnswerFits(v, r) ==
    /\ v.phase = "resolved" =>
          v.answer \notin {"Absent", "Pending"} /\ r.status = v.answer
    /\ v.phase = "timeout" =>
          /\ r.status # "Absent"
          /\ v.read <= now
          /\ v.at - v.since >= Timeout
          /\ v.read < r.expires
          /\ r.decided # Undecided => v.read <= r.decided

WaitInv ==
    /\ StoreInv
    /\ waiter \in [Waiters -> {Idle} \cup Polls \cup Answered]
    /\ \A w \in Waiters : AnswerFits(waiter[w], file[waiter[w].id])

LEMMA AnswerFitsLater ==
  ASSUME StoreInv, FileStep, NEW v \in Answered, AnswerFits(v, file[v.id])
  PROVE  AnswerFits(v, file[v.id])'
<1>1. v.id \in Ids /\ v.read \in Nat /\ now \in Nat /\ now' \in Nat /\ now <= now'
  BY LoadedFile DEF Answered, FileStep, Later
<1>2. CASE file[v.id].status = "Absent"
  BY <1>2 DEF AnswerFits
<1>3. CASE file[v.id].status # "Absent"
  <2>1. /\ file'[v.id].status # "Absent"
        /\ file'[v.id].expires = file[v.id].expires
        /\ \/ file'[v.id] = file[v.id]
           \/ file[v.id].status = "Pending" /\ file'[v.id].decided \in Later
    BY <1>1, <1>3, RecordStands
  <2>2. \A t \in Later : now <= t /\ t \in Int
    BY <1>1 DEF Later
  <2> QED
    BY <1>1, <2>1, <2>2 DEF AnswerFits
<1> QED
  BY <1>2, <1>3

\* Only what an answer says of the record matters.
LEMMA NoAnswerFits ==
  ASSUME NEW v \in {Idle} \cup Polls, NEW r
  PROVE  AnswerFits(v, r)
  BY DEF AnswerFits, Idle, Polls

LEMMA WaitInitInv == WaitInit => WaitInv
<1>1. WaitInit => waiter \in [Waiters -> {Idle} \cup Polls \cup Answered]
  BY DEF WaitInit
<1>2. WaitInit => \A w \in Waiters : AnswerFits(waiter[w], file[waiter[w].id])
  BY NoAnswerFits DEF WaitInit
<1> QED
  BY <1>1, <1>2, InitInv DEF WaitInit, WaitInv

\* A step of the store, or of the clock, leaves the answers true.
LEMMA StoreStepWaits ==
  ASSUME WaitInv, [Next]_vars, UNCHANGED waiter
  PROVE  WaitInv'
<1>1. StoreInv'
  BY NextInv DEF WaitInv
<1>2. ASSUME NEW w \in Waiters
      PROVE  AnswerFits(waiter[w], file[waiter[w].id])'
  <2>1. AnswerFits(waiter[w], file[waiter[w].id]) /\ waiter'[w] = waiter[w]
        /\ waiter[w] \in {Idle} \cup Polls \cup Answered
    BY DEF WaitInv
  <2>2. CASE waiter[w] \in {Idle} \cup Polls
    BY <2>1, <2>2, NoAnswerFits DEF AnswerFits, Idle, Polls
  <2>3. CASE waiter[w] \in Answered /\ Next /\ ~Tick
    <3>1. FileStep /\ StoreInv
      BY <2>3, OperationStep DEF WaitInv
    <3>2. PICK v \in Answered : v = waiter[w]
      BY <2>3
    <3>3. AnswerFits(v, file[v.id])
      BY <2>1, <3>2
    <3>4. AnswerFits(v, file[v.id])'
      BY <3>1, <3>3, AnswerFitsLater
    <3> QED
      BY <2>1, <3>2, <3>4 DEF AnswerFits
  <2>4. CASE waiter[w] \in Answered /\ (Tick \/ UNCHANGED vars)
    <3>1. UNCHANGED file /\ now <= now' /\ now \in Nat /\ now' \in Nat
      BY <2>4, LoadedFile DEF Tick, vars, WaitInv
    <3>2. waiter[w].read \in Nat
      BY <2>4 DEF Answered
    <3> QED
      BY <2>1, <3>1, <3>2 DEF AnswerFits
  <2> QED
    BY <2>1, <2>2, <2>3, <2>4
<1> QED
  BY <1>1, <1>2 DEF WaitInv

LEMMA StartWaitInv ==
  ASSUME WaitInv, NEW w \in Waiters, NEW i \in Ids, StartWait(w, i)
  PROVE  WaitInv'
<1> DEFINE v == [phase |-> "polling", id |-> i, since |-> now]
<1>1. v \in Polls
  BY LoadedFile DEF WaitInv, Polls
<1>2. waiter' = [waiter EXCEPT ![w] = v] /\ UNCHANGED vars
  BY DEF StartWait
<1>3. StoreInv' /\ UNCHANGED <<file, now>>
  BY <1>2, NextInv DEF WaitInv, vars
<1> HIDE DEF v
<1>4. /\ waiter' \in [Waiters -> {Idle} \cup Polls \cup Answered]
      /\ waiter'[w] = v
      /\ \A u \in Waiters \ {w} : waiter'[u] = waiter[u]
  BY <1>1, <1>2 DEF WaitInv
<1>5. ASSUME NEW u \in Waiters PROVE AnswerFits(waiter[u], file[waiter[u].id])'
  <2>1. CASE u = w
    BY <1>1, <1>4, <2>1, NoAnswerFits DEF AnswerFits, Polls
  <2>2. CASE u # w
    <3>1. AnswerFits(waiter[u], file[waiter[u].id])
      BY DEF WaitInv
    <3> QED
      BY <1>3, <1>4, <2>2, <3>1 DEF AnswerFits
  <2> QED
    BY <2>1, <2>2
<1> QED
  BY <1>3, <1>4, <1>5 DEF WaitInv

LEMMA PollInv ==
  ASSUME WaitInv, NEW w \in Waiters, Poll(w)
  PROVE  WaitInv'
<1>1. FileStep /\ file' = Loaded /\ UNCHANGED <<reply, grants>>
  <2>1. now \in Later
    BY MaxTimeAssumption DEF WaitInv, StoreInv, TypeOK, Later
  <2> QED
    BY <2>1 DEF Poll, FileStep
<1>2. StoreInv /\ FileInv(file, now) /\ FileInv(file', now') /\ file' \in Files
  BY <1>1, FileStepInv DEF WaitInv, StoreInv, FileInv
<1>t. now' \in 0 .. MaxTime /\ now' \in Nat /\ now <= now' /\ 0 .. now \subseteq 0 .. now'
  BY <1>1, <1>2, MaxTimeAssumption DEF StoreInv, TypeOK, FileStep, Later
<1>3. StoreInv'
  BY <1>1, <1>2, <1>t DEF StoreInv, TypeOK, Scopes, Files
<1>4. waiter[w] \in Polls /\ now \in Nat
  BY LoadedFile DEF WaitInv, Poll, Idle, Answered
<1> DEFINE i == waiter[w].id
<1>5. i \in Ids /\ waiter[w].since \in Nat /\ Status(w) \in Statuses /\ Loaded \in Files
  BY <1>2, <1>4, LoadedFile, StatusOfAFile DEF Polls, Status, Statuses
<1> DEFINE Told(phase) == [phase |-> phase, id |-> i, since |-> waiter[w].since,
                           answer |-> Status(w), read |-> now, at |-> now']
<1>6. \A phase \in {"not_found", "resolved", "timeout"} : Told(phase) \in Answered
  BY <1>4, <1>5, <1>t DEF Answered
<1>7. \/ UNCHANGED waiter
      \/ Status(w) = "Absent" /\ waiter' = [waiter EXCEPT ![w] = Told("not_found")]
      \/ /\ Status(w) \notin {"Absent", "Pending"}
         /\ waiter' = [waiter EXCEPT ![w] = Told("resolved")]
      \/ /\ Status(w) = "Pending" /\ OutOfTime(w)
         /\ waiter' = [waiter EXCEPT ![w] = Told("timeout")]
  BY DEF Poll, NotFound, Resume, GiveUp, KeepPolling, Answer
<1>8. \/ waiter'[w] = waiter[w]
      \/ waiter'[w] = Told("not_found")
      \/ Status(w) \notin {"Absent", "Pending"} /\ waiter'[w] = Told("resolved")
      \/ Status(w) = "Pending" /\ OutOfTime(w) /\ waiter'[w] = Told("timeout")
  BY <1>7 DEF WaitInv
<1>9. /\ \A u \in Waiters \ {w} : waiter'[u] = waiter[u]
      /\ waiter' \in [Waiters -> {Idle} \cup Polls \cup Answered]
  BY <1>6, <1>7 DEF WaitInv
<1>10. AnswerFits(waiter[w], file[waiter[w].id])'
  <2>1. CASE waiter'[w] = waiter[w]
    BY <1>4, <2>1, NoAnswerFits DEF AnswerFits, Polls
  <2>2. CASE waiter'[w] = Told("not_found")
    BY <2>2 DEF AnswerFits
  <2>3. CASE Status(w) \notin {"Absent", "Pending"} /\ waiter'[w] = Told("resolved")
    BY <1>1, <2>3 DEF AnswerFits, Status
  <2>4. CASE Status(w) = "Pending" /\ OutOfTime(w) /\ waiter'[w] = Told("timeout")
    <3>1. Loaded[i] = file[i] /\ now < file[i].expires /\ file[i].status = "Pending"
      BY <1>2, <1>5, <1>4, <2>4, LoadedPending DEF Status, Loaded, FileInv
    <3>2. file[i].decided = Undecided
      BY <1>2, <1>5, <3>1 DEF FileInv
    <3> QED
      BY <1>1, <1>4, <1>t, <2>4, <3>1, <3>2 DEF AnswerFits, OutOfTime
  <2> QED
    BY <1>8, <2>1, <2>2, <2>3, <2>4
<1>11. ASSUME NEW u \in Waiters \ {w} PROVE AnswerFits(waiter[u], file[waiter[u].id])'
  <2>1. AnswerFits(waiter[u], file[waiter[u].id]) /\ waiter'[u] = waiter[u]
        /\ waiter[u] \in {Idle} \cup Polls \cup Answered
    BY <1>9 DEF WaitInv
  <2>2. CASE waiter[u] \in {Idle} \cup Polls
    BY <2>1, <2>2, NoAnswerFits DEF AnswerFits, Idle, Polls
  <2>3. CASE waiter[u] \in Answered
    <3>1. PICK v \in Answered : v = waiter[u]
      BY <2>3
    <3>2. AnswerFits(v, file[v.id])
      BY <2>1, <3>1
    <3>3. AnswerFits(v, file[v.id])'
      BY <1>1, <1>2, <3>2, AnswerFitsLater
    <3> QED
      BY <2>1, <3>1, <3>3 DEF AnswerFits
  <2> QED
    BY <2>1, <2>2, <2>3
<1> QED
  BY <1>3, <1>9, <1>10, <1>11 DEF WaitInv

LEMMA WaitInvariance == WaitSpec => []WaitInv
<1>1. WaitInv /\ [WaitNext]_waitVars => WaitInv'
  <2> SUFFICES ASSUME WaitInv, [WaitNext]_waitVars PROVE WaitInv'
    OBVIOUS
  <2>1. CASE UNCHANGED waitVars
    BY <2>1, StoreStepWaits DEF waitVars
  <2>2. CASE Next /\ UNCHANGED waiter
    BY <2>2, StoreStepWaits
  <2>3. CASE \E w \in Waiters, i \in Ids : StartWait(w, i)
    BY <2>3, StartWaitInv
  <2>4. CASE \E w \in Waiters : Poll(w)
    BY <2>4, PollInv
  <2> QED
    BY <2>1, <2>2, <2>3, <2>4 DEF WaitNext
<1> QED
  BY <1>1, WaitInitInv, PTL DEF WaitSpec

\* What a waiting agent was told was true and stays true, for any number of
\* agents and operators: the decision it resumed on is final, and when it gave
\* up after its timeout the request was neither decided nor expired
\* (wait.rs:38-102, ui.rs:588-617).
THEOREM AnswersAlwaysHold == WaitSpec => []AnswersHold
<1>1. WaitInv => AnswersHold
  BY DEF WaitInv, AnswerFits, AnswersHold
<1> QED
  BY <1>1, WaitInvariance, PTL
=============================================================================
