----------------------------- MODULE ProcessTable -----------------------------
(***************************************************************************)
(* The operating system's processes as agent-ruler sees them: a pid names  *)
(* a process while it lives, a zombie until its parent has reaped it, and  *)
(* is then free to name another one.  `born' numbers processes, so that    *)
(* two that had one pid are told apart.                                    *)
(***************************************************************************)
EXTENDS Naturals, FiniteSets

CONSTANTS
    Pids,       \* pids in use at once, the numbers 1 up to some n
    MaxBorn     \* bound: how many processes are ever started

ASSUME PidAssumption == Pids \subseteq Nat \ {0} /\ MaxBorn \in Nat

VARIABLES proc, born

\* A launcher of a gateway or of a browser session starts that as a daemon.
Kinds == {"gateway launcher", "web launcher", "gateway", "web", "bridge", "ui", "other"}

\* up: runs; recorded: an interface that wrote its pid file; listens: has the
\* port that is the only one of its kind.
Stages == {"up", "recorded", "listens"}

NoProcess == [kind |-> "other", id |-> 0, parent |-> 0, stage |-> "free"]
Processes ==
    [kind : Kinds, id : 0..MaxBorn, parent : Nat, stage : Stages \cup {"free", "zombie"}]

NoPid == 0
FreePids == {p \in Pids : proc[p].stage = "free"}

\* /proc/<pid> is there; and it is not that of a zombie.
HasEntry(p) == p \in Pids /\ proc[p].stage # "free"
Exists(p) == HasEntry(p) /\ proc[p].stage # "zombie"

Alive(kind) == {p \in Pids : Exists(p) /\ proc[p].kind = kind}
Listening(kind) == {p \in Alive(kind) : proc[p].stage = "listens"}

\* Which process has pid p, if one has.
IdOf(p) == IF Exists(p) THEN {proc[p].id} ELSE {}

\* Process p of a parent (0: nobody waits for it) begins.
Spawned(p, kind, parent) ==
    [proc EXCEPT ![p] = [kind |-> kind, id |-> born + 1, parent |-> parent, stage |-> "up"]]

\* The processes in `ps' are gone: zombies as long as somebody could reap them.
Exited(table, ps) ==
    [p \in Pids |->
        IF p \notin ps THEN table[p]
        ELSE IF table[p].parent = 0 THEN NoProcess
        ELSE [table[p] EXCEPT !.stage = "zombie"]]

\* The parent ends: its zombies are reaped, its children go on without it.
Orphaned(table, parent) ==
    [p \in Pids |->
        IF table[p].parent # parent THEN table[p]
        ELSE IF table[p].stage = "zombie" THEN NoProcess
        ELSE [table[p] EXCEPT !.parent = 0]]
=============================================================================
