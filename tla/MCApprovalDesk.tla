--------------------------- MODULE MCApprovalDesk ----------------------------
(* Three requests, two of which have one key and differ in their metadata.   *)
EXTENDS ApprovalDesk, TLC

CONSTANTS c1, c2, c3, i1, i2, k1, k2, s1, s2, s3

MCIds == {i1, i2}
OneKey == {[key |-> k1, scope |-> s1], [key |-> k1, scope |-> s2]}
TwoKeys == {[key |-> k1, scope |-> s1], [key |-> k2, scope |-> s2]}
ThreeActions == OneKey \cup {[key |-> k2, scope |-> s3]}
TwoCallers == {c1, c2}
ThreeCallers == {c1, c2, c3}
CallerSymmetry == Permutations(ThreeCallers)

Mode(calls, overlap, crash, fail) ==
    [calls |-> calls, overlap |-> overlap, crash |-> crash, fail |-> fail]
Circumstances == {Mode(3, FALSE, TRUE, TRUE), Mode(2, TRUE, FALSE, FALSE), Mode(2, TRUE, FALSE, TRUE),
                  Mode(2, TRUE, TRUE, TRUE)}
OverlappingSafely == {Mode(2, TRUE, FALSE, FALSE)}
=============================================================================
