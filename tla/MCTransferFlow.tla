--------------------------- MODULE MCTransferFlow ----------------------------
(* Two stage requests of the artifact, and two approvals to share.           *)
EXTENDS TransferFlow, TLC

CONSTANTS s1, s2, i1, i2, v1, v2, w1, w2

StageIds == {s1, s2}
ApprovalIds == {i1, i2}
TwoContents == {v1, v2}
TwoWorkers == {w1, w2}
InTurns == [overlap |-> FALSE, fail |-> TRUE]
Overlapping == [overlap |-> TRUE, fail |-> TRUE]
OverlappingSafely == [overlap |-> TRUE, fail |-> FALSE]
AllModes == {InTurns, Overlapping, OverlappingSafely}
FlowSymmetry == Permutations(StageIds) \cup Permutations(ApprovalIds)
                  \cup Permutations(TwoContents) \cup Permutations(TwoWorkers)
=============================================================================
