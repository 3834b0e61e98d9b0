------------------------------ MODULE ExportGate -------------------------------
(***************************************************************************)
(* src/export_gate.rs: the summary an operator is shown of a transfer      *)
(* (build_export_plan) and the transfer itself (commit_export), which may  *)
(* come much later, stop halfway and be repeated.                          *)
(*                                                                         *)
(* A tree is what it has at each relative path.  A file is abstracted to   *)
(* its length, which the summary compares, and a body.  The agent leaves   *)
(* the source alone while it is copied; it may change it before.           *)
(***************************************************************************)
EXTENDS Naturals, FiniteSets

CONSTANTS
    Paths,      \* relative paths of files
    Files       \* files: records with a len and a body (none is empty: a copy
                \* of an empty file cannot be cut off)

NoFile == [len |-> 0, body |-> "nothing"]

\* What a copy leaves that ends in the middle of a file.
Cut == [len |-> 0, body |-> "cut off"]

ASSUME PathsAssumption == IsFiniteSet(Paths)

ASSUME FilesAssumption == \A f \in Files : f.len \in Nat \ {0}

VARIABLES
    src, dst,   \* the trees
    shown,      \* the summary of the last plan, the trees it was made of, and
                \* whether the source is still as it was then
    before,     \* the destination as the first commit found it
    todo        \* paths the running commit has still to visit

exportVars == <<src, dst, shown, before, todo>>

Trees == [Paths -> Files \cup {NoFile}]

Has(tree) == {p \in Paths : tree[p] # NoFile}

NotShown == [summary |-> "none", fresh |-> FALSE]

ExportInit ==
    /\ src \in Trees /\ Has(src) # {}
    /\ dst \in Trees
    /\ shown = NotShown
    /\ before = dst
    /\ todo = {}

\* Fault: only files that became shorter count as changed.
SummaryShorter(s, d) ==
    [added   |-> Cardinality(Has(s) \ Has(d)),
     changed |-> Cardinality({p \in Has(s) \cap Has(d) : s[p].len < d[p].len}),
     removed |-> Cardinality(Has(d) \ Has(s))]

\* A directory is summarised by its files: a file that is in both trees has
\* changed if its length has.
Summary(s, d) ==
    [added   |-> Cardinality(Has(s) \ Has(d)),
     changed |-> Cardinality({p \in Has(s) \cap Has(d) : s[p].len # d[p].len}),
     removed |-> Cardinality(Has(d) \ Has(s))]

BuildPlan ==
    /\ todo = {}
    /\ shown' = [summary |-> Summary(src, dst), src |-> src, dst |-> dst, fresh |-> TRUE]
    /\ UNCHANGED <<src, dst, before, todo>>

\* Between the plan and the commit, which an approval may keep apart.
AgentEdits ==
    /\ todo = {}
    /\ src' \in {[src EXCEPT ![p] = f] : p \in Paths, f \in Files \cup {NoFile}}
    /\ Has(src') # {}
    /\ before' = dst
    /\ shown' = [shown EXCEPT !.fresh = FALSE]
    /\ UNCHANGED <<dst, todo>>

\* Fault: the destination is cleared before the source is copied.
CommitCleared ==
    /\ todo = {}
    /\ shown # NotShown
    /\ todo' = Has(src)
    /\ dst' = [p \in Paths |-> NoFile]
    /\ UNCHANGED <<src, shown, before>>

Commit ==
    /\ todo = {}
    /\ shown # NotShown
    /\ todo' = Has(src)
    /\ UNCHANGED <<src, dst, shown, before>>

\* Fault: a file that is there already is left alone.
CopyMissing(p) ==
    /\ p \in todo
    /\ dst' = IF dst[p] = NoFile THEN [dst EXCEPT ![p] = src[p]] ELSE dst
    /\ todo' = todo \ {p}
    /\ UNCHANGED <<src, shown, before>>

\* copy_dir_recursive, or fs::copy of the one file.
CopyFile(p) ==
    /\ p \in todo
    /\ dst' = [dst EXCEPT ![p] = src[p]]
    /\ todo' = todo \ {p}
    /\ UNCHANGED <<src, shown, before>>

\* An error or the end of the process: what was copied stays, and the file
\* being copied (fs::copy truncates the destination first) is cut off.
Stop ==
    /\ todo # {}
    /\ todo' = {}
    /\ dst' \in {dst} \cup {[dst EXCEPT ![p] = Cut] : p \in todo}
    /\ UNCHANGED <<src, shown, before>>

ExportNext ==
    \/ BuildPlan
    \/ AgentEdits
    \/ Commit
    \/ \E p \in Paths : CopyFile(p)
    \/ Stop

ExportSpec == ExportInit /\ [][ExportNext]_exportVars

-----------------------------------------------------------------------------
Overlay(s, d) == [p \in Paths |-> IF s[p] # NoFile THEN s[p] ELSE d[p]]

\* Whatever was stopped and repeated since, the commit that runs to its end
\* leaves the source laid over the destination as it was, and touches nothing
\* else (copy_dir_recursive, export_gate.rs:145-173).
CommitOverlays ==
    [][\A p \in Paths : todo = {p} /\ CopyFile(p) => dst' = Overlay(src, before)]_exportVars

\* However often commits stop, a path holds what it held, what the source
\* has, or a cut-off copy of that; what the source has not is left alone
\* (commit_export clears nothing first, export_gate.rs:126-173).
HalfwayIsEither ==
    \A p \in Paths :
        dst[p] \in {before[p], src[p]} \cup (IF src[p] = NoFile THEN {} ELSE {Cut})

\* "All phases support diff preview: files added/removed/changed"
\* (docs-site/docs/concepts/architecture.md:386-389).  What the operator was
\* shown is what the commit that runs to its end has then done to the
\* destination shown, whatever was stopped and repeated since: it gained as
\* many files as were said to be added, as many of its own have another length
\* as were said to be changed, and it has lost none, those included that were
\* said to be removed.  The agent may not have edited the source in between
\* (export_gate.rs:60-115, 145-173).
ShownIsDone ==
    [][\A p \in Paths : shown.fresh /\ todo = {p} /\ CopyFile(p) =>
         /\ Cardinality(Has(dst') \ Has(shown.dst)) = shown.summary.added
         /\ Cardinality({q \in Has(shown.dst) : dst'[q].len # shown.dst[q].len})
               = shown.summary.changed
         /\ Has(shown.dst) \subseteq Has(dst')]_exportVars
=============================================================================
