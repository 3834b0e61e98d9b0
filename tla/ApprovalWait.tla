---------------------------- MODULE ApprovalWait -----------------------------
(***************************************************************************)
(* Agents that wait for a decision: `agent-ruler wait'                     *)
(* (src/cli/wait.rs) and GET /api/approvals/:id/wait (src/ui.rs), polling  *)
(* ApprovalStore::get while operators, other callers and the clock go on.  *)
(* A poll reads the store, and then the clock, in one step.                *)
(***************************************************************************)
EXTENDS ApprovalStore

CONSTANTS
    Waiters,    \* agents; each waits at most once
    Timeout,    \* how long a wait lasts before it gives up
    LastStart   \* bound: no wait starts later

ASSUME WaitAssumption ==
    /\ Timeout \in Nat
    /\ LastStart \in Nat
    /\ LastStart + Timeout <= MaxTime

VARIABLE waiter

waitVars == <<vars, waiter>>

Idle == [phase |-> "idle"]

WaitInit == Init /\ waiter = [w \in Waiters |-> Idle]

\* The agent starts to wait for an id it was told, or for a mistyped one.
StartWait(w, i) ==
    /\ waiter[w] = Idle
    /\ now <= LastStart
    /\ waiter' = [waiter EXCEPT ![w] = [phase |-> "polling", id |-> i, since |-> now]]
    /\ UNCHANGED vars

Answer(w, phase, answer) ==
    waiter' = [waiter EXCEPT ![w] =
                 [phase |-> phase, id |-> waiter[w].id, since |-> waiter[w].since,
                  answer |-> answer, read |-> now, at |-> now']]

Status(w) == Loaded[waiter[w].id].status

\* By the clock as it is after the record was read.
OutOfTime(w) == now' - waiter[w].since >= Timeout

\* Fault: an id that is not there is polled on.
AwaitUnknown(w) == Status(w) = "Absent" /\ UNCHANGED waiter

NotFound(w) == Status(w) = "Absent" /\ Answer(w, "not_found", Status(w))

Resume(w) ==
    /\ Status(w) \notin {"Absent", "Pending"}
    /\ Answer(w, "resolved", Status(w))

\* Fault: the timeout is looked at before the status.
GiveUpFirst(w) ==
    /\ Status(w) # "Absent"
    /\ OutOfTime(w)
    /\ Answer(w, "timeout", Status(w))

GiveUp(w) ==
    /\ Status(w) = "Pending"
    /\ OutOfTime(w)
    /\ Answer(w, "timeout", Status(w))

KeepPolling(w) == Status(w) = "Pending" /\ ~OutOfTime(w) /\ UNCHANGED waiter

\* One round of the loop: get writes what expired, then the status decides,
\* and the timeout is looked at only while the record is pending.
Poll(w) ==
    /\ waiter[w].phase = "polling"
    /\ \/ now' = now /\ (NotFound(w) \/ Resume(w))
       \/ now' \in Later /\ (GiveUp(w) \/ KeepPolling(w))
    /\ file' = Loaded
    /\ UNCHANGED <<reply, grants>>

WaitNext ==
    \/ Next /\ UNCHANGED waiter
    \/ \E w \in Waiters, i \in Ids : StartWait(w, i)
    \/ \E w \in Waiters : Poll(w)

\* The loop runs until it answers (the sleep is 500ms, or poll_ms) and time
\* passes; nobody is bound to decide anything.
WaitFairness ==
    /\ \A w \in Waiters : WF_waitVars(Poll(w))
    /\ WF_waitVars(Tick /\ UNCHANGED waiter)

WaitSpec == WaitInit /\ [][WaitNext]_waitVars /\ WaitFairness

-----------------------------------------------------------------------------
\* What an agent was told is true and stays true.  The status it resumed on is
\* the status of the record from then on (ui.rs:588-603, wait.rs:59-102).
\* Giving up is honest: the wait lasted its timeout, and when the request was
\* last read it was neither decided nor past its deadline (ui.rs:605-617,
\* wait.rs:38-56).
AnswersHold ==
    \A w \in Waiters :
        LET r == file[waiter[w].id] IN
        /\ waiter[w].phase = "resolved" => r.status = waiter[w].answer
        /\ waiter[w].phase = "timeout" =>
              /\ waiter[w].at - waiter[w].since >= Timeout
              /\ waiter[w].read < r.expires
              /\ r.decided # Undecided => waiter[w].read <= r.decided

\* Every wait ends, even if no operator ever answers (ui.rs:587-629).
WaitEnds == \A w \in Waiters : waiter[w].phase = "polling" ~> waiter[w].phase # "polling"
=============================================================================
