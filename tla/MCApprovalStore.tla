--------------------------- MODULE MCApprovalStore ---------------------------
(* Small instance of the store and its waiting agents: two requests of one   *)
(* key that differ in their metadata, and one agent that waits before, while *)
(* and after an operator answers.                                            *)
EXTENDS ApprovalWait

CONSTANTS i1, i2, k1, s1, s2

MCIds == {i1, i2}
MCActions == {[key |-> k1, scope |-> s1], [key |-> k1, scope |-> s2]}
=============================================================================
