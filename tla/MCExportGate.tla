---------------------------- MODULE MCExportGate -----------------------------
(* Two paths; two files of one length and one of another.                    *)
EXTENDS ExportGate

CONSTANTS p1, p2

TwoPaths == {p1, p2}
ThreeFiles == {[len |-> 1, body |-> "a"], [len |-> 1, body |-> "b"],
               [len |-> 2, body |-> "c"]}
=============================================================================
