---------------------------- MODULE MCSessionStore -----------------------------
(* Two runners, two threads and two keys, of at most 200 characters.         *)
EXTENDS SessionStore, TLC

CONSTANTS i1, i2, i3, r1, r2, k1, k2, t1, t2, c1, c2

ThreeIds == {i1, i2, i3}
TwoKinds == {r1, r2}
TwoKeys == {k1, k2}
TwoThreads == {t1, t2}
TwoCallers == {c1, c2}
Unclipped == [k \in TwoKeys |-> k]

InTurns == [overlap |-> FALSE, crash |-> TRUE]
Overlapping == [overlap |-> TRUE, crash |-> FALSE]
BothModes == {InTurns, Overlapping}

SessionSymmetry ==
    Permutations(ThreeIds) \cup Permutations(TwoKinds) \cup Permutations(TwoKeys)
      \cup Permutations(TwoThreads) \cup Permutations(TwoCallers)
=============================================================================
