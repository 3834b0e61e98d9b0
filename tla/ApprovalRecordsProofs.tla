------------------------ MODULE ApprovalRecordsProofs ------------------------
(***************************************************************************)
(* Lemmas about the lists ApprovalStore computes: an invariant of a stored *)
(* list, and that expiring, adding and deciding preserve it.               *)
(***************************************************************************)
EXTENDS ApprovalRecords, TLAPS

LEMMA NoRecordIsNotARecord == \A r \in Record : r.status # "Absent" /\ r # NoRecord
  BY DEF Record, NoRecord

LEMMA StatusOfAFile ==
  ASSUME NEW f \in Files, NEW i \in Ids
  PROVE  /\ f[i].status # "Absent" => f[i] \in Record
         /\ f[i].status = "Absent" => f[i] = NoRecord
         /\ f[i].status \in {"Absent", "Pending", "Approved", "Denied", "Expired"}
  BY DEF Files, Record, NoRecord

\* Expiring leaves a file, and touches a pending record past its time only.
LEMMA ExpireStaleFile ==
  ASSUME NEW f \in Files, NEW t \in Nat
  PROVE  /\ ExpireStale(f, t) \in Files
         /\ \A i \in Ids :
              \/ ~IsStale(f[i], t) /\ ExpireStale(f, t)[i] = f[i]
              \/ /\ IsStale(f[i], t)
                 /\ ExpireStale(f, t)[i] = [f[i] EXCEPT !.status = "Expired", !.decided = t]
<1> DEFINE g == ExpireStale(f, t)
<1>1. ASSUME NEW i \in Ids, IsStale(f[i], t)
      PROVE  g[i] = [f[i] EXCEPT !.status = "Expired", !.decided = t] /\ g[i] \in Record
  <2>1. f[i] \in Record
    BY <1>1, StatusOfAFile DEF IsStale
  <2> QED
    BY <1>1, <2>1 DEF ExpireStale, Record
<1>2. ASSUME NEW i \in Ids, ~IsStale(f[i], t)
      PROVE  g[i] = f[i] /\ g[i] \in Record \cup {NoRecord}
  BY <1>2 DEF ExpireStale, Files
<1>3. g = [i \in Ids |-> g[i]]
  BY DEF ExpireStale
<1>4. \A i \in Ids : g[i] \in Record \cup {NoRecord}
  BY <1>1, <1>2
<1>5. g \in Files
  BY <1>3, <1>4 DEF Files
<1> QED
  BY <1>1, <1>2, <1>5

-----------------------------------------------------------------------------
\* The file alone: what every stored list satisfies at time t.
FileInv(f, t) ==
    /\ f \in Files
    /\ \A i \in Ids : f[i].status # "Absent" => f[i].created <= t
    /\ \A i, j \in Ids :
         /\ f[i].status = "Pending"
         /\ f[j].status = "Pending"
         /\ f[i].action.key = f[j].action.key
         => i = j
    /\ \A i \in Ids :
         /\ f[i].status = "Pending" => f[i].decided = Undecided
         /\ f[i].status \in Decisions => f[i].created <= f[i].decided
         /\ f[i].status = "Expired" => f[i].expires <= f[i].decided

LEMMA ExpireStaleInv ==
  ASSUME NEW f, NEW t \in Nat, FileInv(f, t)
  PROVE  FileInv(ExpireStale(f, t), t)
<1> DEFINE g == ExpireStale(f, t)
<1>f. f \in Files
  BY DEF FileInv
<1>1. /\ g \in Files
      /\ \A i \in Ids :
           \/ ~IsStale(f[i], t) /\ g[i] = f[i]
           \/ IsStale(f[i], t) /\ g[i] = [f[i] EXCEPT !.status = "Expired", !.decided = t]
  BY <1>f, ExpireStaleFile
<1> HIDE DEF g
<1>2. ASSUME NEW i \in Ids
      PROVE  \/ g[i] = f[i]
             \/ /\ f[i].status = "Pending" /\ f[i] \in Record
                /\ g[i].status = "Expired" /\ g[i].decided = t
                /\ g[i].expires <= t
                /\ g[i].created = f[i].created
                /\ g[i].action = f[i].action
  <2>1. CASE g[i] = f[i]
    BY <2>1
  <2>2. CASE IsStale(f[i], t) /\ g[i] = [f[i] EXCEPT !.status = "Expired", !.decided = t]
    <3>1. f[i] \in Record
      BY <1>f, <2>2, StatusOfAFile DEF IsStale
    <3> QED
      BY <2>2, <3>1 DEF IsStale, Record
  <2> QED
    BY <1>1, <2>1, <2>2
<1>3. \A i \in Ids : g[i].status # "Absent" => g[i].created <= t
  BY <1>2 DEF FileInv
<1>4. \A i, j \in Ids :
        /\ g[i].status = "Pending"
        /\ g[j].status = "Pending"
        /\ g[i].action.key = g[j].action.key
        => i = j
  BY <1>2 DEF FileInv
<1>5. \A i \in Ids :
         /\ g[i].status = "Pending" => g[i].decided = Undecided
         /\ g[i].status \in Decisions => g[i].created <= g[i].decided
         /\ g[i].status = "Expired" => g[i].expires <= g[i].decided
  BY <1>2 DEF FileInv, Decisions
<1> QED
  BY <1>1, <1>3, <1>4, <1>5 DEF FileInv, g

\* After expire_stale a pending record still has time left.
LEMMA LoadedPending ==
  ASSUME NEW f \in Files, NEW t \in Nat, NEW i \in Ids,
         ExpireStale(f, t)[i].status = "Pending"
  PROVE  f[i].status = "Pending" /\ f[i] \in Record /\ ExpireStale(f, t)[i] = f[i] /\ t < f[i].expires
<1>1. ~IsStale(f[i], t) /\ ExpireStale(f, t)[i] = f[i]
  <2>1. SUFFICES ASSUME IsStale(f[i], t),
                        ExpireStale(f, t)[i] = [f[i] EXCEPT !.status = "Expired", !.decided = t]
                 PROVE  FALSE
    BY ExpireStaleFile
  <2>2. f[i] \in Record
    BY <2>1, StatusOfAFile DEF IsStale
  <2>3. ExpireStale(f, t)[i].status = "Expired"
    BY <2>1, <2>2 DEF Record
  <2> QED
    BY <2>3
<1>2. f[i] \in Record
  BY <1>1, StatusOfAFile
<1> QED
  BY <1>1, <1>2 DEF IsStale, Record

\* What held of a stored list holds later.
LEMMA FileInvLater ==
  ASSUME NEW f, NEW t \in Nat, NEW u \in Nat, t <= u, FileInv(f, t)
  PROVE  FileInv(f, u)
<1>1. \A i \in Ids : f[i].status # "Absent" => f[i].created \in Nat
  BY StatusOfAFile DEF FileInv, Record
<1>2. \A i \in Ids : f[i].status # "Absent" => f[i].created <= u
  BY <1>1 DEF FileInv
<1> QED
  BY <1>2 DEF FileInv

\* A pending record that expire_stale left at t is decided at u.
LEMMA DecideInv ==
  ASSUME NEW f, NEW t \in Nat, NEW u \in Nat, t <= u, FileInv(f, t), NEW i \in Ids, NEW target \in Decisions,
         ExpireStale(f, t)[i].status = "Pending"
  PROVE  FileInv(Decide(ExpireStale(f, t), i, target, u), u)
<1> DEFINE g == ExpireStale(f, t)
           h == Decide(g, i, target, u)
<1>1. FileInv(g, u) /\ g \in Files
  BY ExpireStaleInv, FileInvLater DEF FileInv
<1>2. g[i] \in Record /\ g[i].status = "Pending" 
  BY LoadedPending DEF FileInv
<1> HIDE DEF g
<1>3. /\ h[i] = [g[i] EXCEPT !.status = target, !.decided = u]
      /\ \A j \in Ids : j # i => h[j] = g[j]
      /\ h = [j \in Ids |-> h[j]]
  BY <1>1 DEF Decide, Files
<1> HIDE DEF h
<1>4. /\ h[i] \in Record
      /\ h[i].status = target
      /\ h[i].decided = u
      /\ h[i].created = g[i].created
      /\ h[i].expires = g[i].expires
  BY <1>2, <1>3 DEF Record, Decisions
<1>5. h \in Files
  BY <1>1, <1>3, <1>4 DEF Files
<1>6. target # "Pending" /\ target # "Expired" /\ target # "Absent"
  BY DEF Decisions
<1>7. \A j \in Ids : h[j].status # "Absent" => h[j].created <= u
  BY <1>1, <1>2, <1>3, <1>4 DEF FileInv
<1>8. \A j, k \in Ids :
         /\ h[j].status = "Pending"
         /\ h[k].status = "Pending"
         /\ h[j].action.key = h[k].action.key
         => j = k
  <2>1. \A j \in Ids : h[j].status = "Pending" => h[j] = g[j]
    BY <1>3, <1>4, <1>6
  <2> QED
    BY <1>1, <2>1 DEF FileInv
<1>9. ASSUME NEW j \in Ids
      PROVE  /\ h[j].status = "Pending" => h[j].decided = Undecided
             /\ h[j].status \in Decisions => h[j].created <= h[j].decided
             /\ h[j].status = "Expired" => h[j].expires <= h[j].decided
  <2>1. CASE j = i
    BY <2>1, <1>1, <1>2, <1>4, <1>6 DEF FileInv
  <2>2. CASE j # i
    BY <2>2, <1>1, <1>3 DEF FileInv
  <2> QED
    BY <2>1, <2>2
<1> QED
  BY <1>5, <1>7, <1>8, <1>9 DEF FileInv, g, h

\* A record is added at u to a list loaded at t.
LEMMA AddInv ==
  ASSUME NEW f, NEW t \in Nat, NEW u \in Nat, t <= u, FileInv(f, t), NEW i \in Ids, NEW a \in Actions,
         NEW ttl \in TTLs, Reusable(ExpireStale(f, t), a) = {}
  PROVE  FileInv([ExpireStale(f, t) EXCEPT ![i] = NewRecord(a, u, ttl)], u)
<1> DEFINE g == ExpireStale(f, t)
           h == [g EXCEPT ![i] = NewRecord(a, u, ttl)]
<1>1. FileInv(g, u) /\ g \in Files
  BY ExpireStaleInv, FileInvLater DEF FileInv
<1>2. Reusable(g, a) = {}
  OBVIOUS
<1> HIDE DEF g
<1>3. /\ h[i] = NewRecord(a, u, ttl)
      /\ \A j \in Ids : j # i => h[j] = g[j]
      /\ h = [j \in Ids |-> h[j]]
  BY <1>1 DEF Files
<1> HIDE DEF h
<1>4. /\ h[i] \in Record
      /\ h[i].status = "Pending"
      /\ h[i].decided = Undecided
      /\ h[i].created = u
      /\ h[i].action = a
  BY <1>3, TTLsAssumption DEF NewRecord, Record
<1>5. h \in Files
  BY <1>1, <1>3, <1>4 DEF Files
<1>6. \A j \in Ids : h[j].status # "Absent" => h[j].created <= u
  BY <1>1, <1>3, <1>4 DEF FileInv
<1>7. \A j \in Ids : j # i /\ h[j].status = "Pending" => h[j].action.key # a.key
  BY <1>2, <1>3 DEF Reusable
<1>8. \A j, k \in Ids :
         /\ h[j].status = "Pending"
         /\ h[k].status = "Pending"
         /\ h[j].action.key = h[k].action.key
         => j = k
  BY <1>1, <1>3, <1>4, <1>7 DEF FileInv
<1>9. ASSUME NEW j \in Ids
      PROVE  /\ h[j].status = "Pending" => h[j].decided = Undecided
             /\ h[j].status \in Decisions => h[j].created <= h[j].decided
             /\ h[j].status = "Expired" => h[j].expires <= h[j].decided
  <2>1. CASE j = i
    BY <2>1, <1>4 DEF Decisions
  <2>2. CASE j # i
    BY <2>2, <1>1, <1>3 DEF FileInv
  <2> QED
    BY <2>1, <2>2
<1> QED
  BY <1>5, <1>6, <1>8, <1>9 DEF FileInv, g, h

LEMMA EmptyFileInv ==
  ASSUME NEW t \in Nat
  PROVE  FileInv(EmptyFile, t)
<1>1. \A i \in Ids : EmptyFile[i] = NoRecord /\ EmptyFile[i].status = "Absent"
  BY DEF EmptyFile, NoRecord
<1>2. EmptyFile \in Files
  BY DEF EmptyFile, Files
<1> QED
  BY <1>1, <1>2 DEF FileInv, Decisions
=============================================================================
