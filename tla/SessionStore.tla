----------------------------- MODULE SessionStore ------------------------------
(***************************************************************************)
(* SessionStore (src/sessions.rs): which runner session an agent's key and *)
(* a Telegram thread belong to.  Handlers of the Control Panel             *)
(* (src/helpers/ui/runtime_api.rs) and the tool preflight overlap, with no *)
(* lock: an operation reads sessions.json, computes, writes the whole list *)
(* to a temporary file and renames it, and that file has one name for all. *)
(*                                                                         *)
(* A session keeps its runner kind, session key, thread (chat and thread   *)
(* id together) and time of last activity; titles, labels, channels and    *)
(* anchors are left out.  A file that does not parse reads as no session.  *)
(***************************************************************************)
EXTENDS Integers

CONSTANTS
    Ids,        \* uuids of sessions
    Runners,    \* runner kinds
    Keys,       \* runner session keys callers use
    Clip,       \* Clip[k]: what list keeps of a key, its first 200 characters
    Threads,    \* Telegram threads
    Callers,
    Modes,      \* circumstances to look at: may two calls be in flight at once
                \* (overlap), may a call end between two of its steps (crash)?
    Recent,     \* AUTO_BIND_RECENT_WINDOW_HOURS
    MaxTime,    \* bound: the clock stops here
    MaxCalls    \* bound: how many calls are made

ASSUME SessionAssumption ==
    /\ Clip \in [Keys -> Keys]
    /\ "none" \notin Keys \cup Threads
    /\ Modes \subseteq [overlap : BOOLEAN, crash : BOOLEAN]
    /\ {Recent, MaxTime, MaxCalls} \subseteq Nat

VARIABLES
    mode, now,
    file, temp, \* sessions.json and json.tmp: a list, or what does not parse
    step,       \* step[c]: what caller c does next
    view,       \* view[c]: the list it computed
    handle,     \* handle[c]: what its open file has become
    answer,     \* answer[c]: the thread and session it is about to return
    minted,     \* history: uuids generated
    handed,     \* history: which thread was said to be which session
    calls

sessionVars == <<mode, now, file, temp, step, view, handle, answer, minted, handed, calls>>

None == "none"
NoSession == [kind |-> None]

Record == [kind : Runners, key : Keys \cup {None}, thread : Threads \cup {None}, active : Nat]
Lists == [Ids -> Record \cup {NoSession}]
EmptyList == [i \in Ids |-> NoSession]

\* A file's text: a list, or what does not parse and reads as no session.
Whole(list) == [text |-> "list", list |-> list]
Unparsed(text) == [text |-> text, list |-> EmptyList]
Blank == Unparsed("blank")      \* just created or truncated
Torn == Unparsed("torn")        \* parts of two lists
Absent == Unparsed("absent")

NoAnswer == [thread |-> None, id |-> None]

SessionInit ==
    /\ mode \in Modes
    /\ now = 0
    /\ file = Absent
    /\ temp = Absent
    /\ step = [c \in Callers |-> "idle"]
    /\ view = [c \in Callers |-> EmptyList]
    /\ handle = [c \in Callers |-> None]
    /\ answer = [c \in Callers |-> NoAnswer]
    /\ minted = {}
    /\ handed = {}
    /\ calls = 0

-----------------------------------------------------------------------------
Sessions(list) == {i \in Ids : list[i] # NoSession}

\* list: what is on disk, with every key cut to its length.
Loaded ==
    [i \in Ids |->
        IF file.list[i] # NoSession /\ file.list[i].key # None
        THEN [file.list[i] EXCEPT !.key = Clip[@]]
        ELSE file.list[i]]

OfKey(kind, key) == {i \in Sessions(Loaded) : Loaded[i].kind = kind /\ Loaded[i].key = key}

\* The session of a thread, of whatever runner.
OfThread(kind, thread) == {i \in Sessions(Loaded) : Loaded[i].thread = thread}

\* The list is sorted, the last active session first.
Latest(ids) == {i \in ids : \A j \in ids : Loaded[j].active <= Loaded[i].active}

\* select_recent_runner_session_for_telegram_bind.
Bindable(kind) ==
    {i \in Sessions(Loaded) :
        /\ Loaded[i].kind = kind
        /\ Loaded[i].key # None
        /\ Loaded[i].thread = None
        /\ Loaded[i].active >= now - Recent}

Begins(c) ==
    /\ step[c] = "idle"
    /\ calls < MaxCalls
    /\ calls' = calls + 1
    /\ mode.overlap \/ \A d \in Callers : step[d] = "idle"

\* persist is next, and then the answer.
Computed(c, list, a) ==
    /\ view' = [view EXCEPT ![c] = list]
    /\ answer' = [answer EXCEPT ![c] = a]
    /\ step' = [step EXCEPT ![c] = "open"]
    /\ UNCHANGED <<now, file, temp, handle, handed>>

\* items.push of a record with a fresh uuid.
NewSession(c, i, record, a) ==
    /\ i \notin minted
    /\ minted' = minted \cup {i}
    /\ Computed(c, [Loaded EXCEPT ![i] = record], a)

-----------------------------------------------------------------------------
\* touch_runner_session: of a tool call with a session key.
Touch(c, kind, key) ==
    /\ Begins(c)
    /\ \/ \E i \in Latest(OfKey(kind, key)) :
            /\ Computed(c, [Loaded EXCEPT ![i].active = now], NoAnswer)
            /\ UNCHANGED minted
       \/ /\ OfKey(kind, key) = {}
          /\ \E i \in Ids :
               NewSession(c, i, [kind |-> kind, key |-> key, thread |-> None, active |-> now],
                          NoAnswer)

\* Fault: another session may have the key.
BindAny(c, i, key) ==
    /\ Begins(c)
    /\ i \in Sessions(Loaded)
    /\ Computed(c, [Loaded EXCEPT ![i].key = key, ![i].active = now], NoAnswer)
    /\ UNCHANGED minted

\* bind_runner_session_key, when it does not refuse.
Bind(c, i, key) ==
    /\ Begins(c)
    /\ i \in Sessions(Loaded)
    /\ OfKey(Loaded[i].kind, key) \subseteq {i}
    /\ Computed(c, [Loaded EXCEPT ![i].key = key, ![i].active = now], NoAnswer)
    /\ UNCHANGED minted

\* Fault: a session that has a thread is given another.
AttachAny(c, kind, thread, i) ==
    /\ Loaded[i].kind = kind
    /\ Computed(c, [Loaded EXCEPT ![i].thread = thread, ![i].active = now],
                [thread |-> thread, id |-> i])
    /\ UNCHANGED minted

\* The session found gets the thread, unless it is of another runner or has
\* a thread of its own.
Attach(c, kind, thread, i) ==
    /\ Loaded[i].kind = kind
    /\ Loaded[i].thread \in {None, thread}
    /\ Computed(c, [Loaded EXCEPT ![i].thread = thread, ![i].active = now],
                [thread |-> thread, id |-> i])
    /\ UNCHANGED minted

CreateFor(c, kind, thread) ==
    \E i \in Ids :
        NewSession(c, i, [kind |-> kind, key |-> None, thread |-> thread, active |-> now],
                   [thread |-> thread, id |-> i])

\* resolve_telegram_thread: the thread's own session first, then the one the
\* caller names by id or by key, then, if it prefers that, the runner's most
\* recent one without a thread, and else a new one.
Resolve(c, kind, thread) ==
    /\ Begins(c)
    /\ IF OfThread(kind, thread) # {}
       THEN \E i \in Latest(OfThread(kind, thread)) : Attach(c, kind, thread, i)
       ELSE \/ \E i \in Sessions(Loaded) : Attach(c, kind, thread, i)
            \/ \E key \in Keys : \E i \in Latest(OfKey(kind, key)) : Attach(c, kind, thread, i)
            \/ \E i \in Latest(Bindable(kind)) : Attach(c, kind, thread, i)
            \/ CreateFor(c, kind, thread)

-----------------------------------------------------------------------------
(* persist: fs::write opens, truncating, and writes; then the rename.      *)

Open(c) ==
    /\ step[c] = "open"
    /\ temp' = Blank
    /\ handle' = [handle EXCEPT ![c] = "temp"]
    /\ step' = [step EXCEPT ![c] = "write"]
    /\ UNCHANGED <<now, file, view, answer, minted, handed, calls>>

\* The bytes go over what another writer put there since: the result is this
\* list, or, when the other was longer, a mixture.
Over(content, list) == {Whole(list)} \cup IF content = Blank THEN {} ELSE {Torn}

Write(c) ==
    /\ step[c] = "write"
    /\ CASE handle[c] = "temp" -> temp' \in Over(temp, view[c]) /\ UNCHANGED file
         [] handle[c] = "file" -> file' \in Over(file, view[c]) /\ UNCHANGED temp
         [] handle[c] = "replaced" -> UNCHANGED <<file, temp>>
    /\ handle' = [handle EXCEPT ![c] = None]
    /\ step' = [step EXCEPT ![c] = "rename"]
    /\ UNCHANGED <<now, view, answer, minted, handed, calls>>

Return(c) ==
    /\ step' = [step EXCEPT ![c] = "idle"]
    /\ view' = [view EXCEPT ![c] = EmptyList]
    /\ answer' = [answer EXCEPT ![c] = NoAnswer]

\* Whoever has the renamed file open goes on writing to it.
Rename(c) ==
    /\ step[c] = "rename"
    /\ temp # Absent
    /\ file' = temp
    /\ temp' = Absent
    /\ handle' = [d \in Callers |->
                    CASE handle[d] = "temp" -> "file"
                      [] handle[d] = "file" -> "replaced"
                      [] OTHER -> handle[d]]
    /\ handed' = IF answer[c] = NoAnswer THEN handed ELSE handed \cup {answer[c]}
    /\ Return(c)
    /\ UNCHANGED <<now, minted, calls>>

\* Another writer has renamed the file: an error.
RenameFails(c) ==
    /\ step[c] = "rename"
    /\ temp = Absent
    /\ Return(c)
    /\ UNCHANGED <<now, file, temp, handle, minted, handed, calls>>

EndsEarly(c) ==
    /\ mode.crash
    /\ step[c] # "idle"
    /\ Return(c)
    /\ handle' = [handle EXCEPT ![c] = None]
    /\ UNCHANGED <<now, file, temp, minted, handed, calls>>

Tick ==
    /\ now < MaxTime
    /\ now' = now + 1
    /\ UNCHANGED <<file, temp, step, view, handle, answer, minted, handed, calls>>

CallerStep(c) ==
    \/ \E kind \in Runners, key \in Keys : Touch(c, kind, key)
    \/ \E i \in Ids, key \in Keys : Bind(c, i, key)
    \/ \E kind \in Runners, thread \in Threads : Resolve(c, kind, thread)
    \/ Open(c)
    \/ Write(c)
    \/ Rename(c)
    \/ RenameFails(c)
    \/ EndsEarly(c)

SessionNext ==
    /\ Tick \/ \E c \in Callers : CallerStep(c)
    /\ UNCHANGED mode

SessionSpec == SessionInit /\ [][SessionNext]_sessionVars

-----------------------------------------------------------------------------
Contents == [text : {"list"}, list : Lists] \cup {Blank, Torn, Absent}

\* The state has its shape, and no session is nobody's: each has a key or a
\* thread by which it is found.
SessionTypeOK ==
    /\ now \in 0 .. MaxTime
    /\ file \in Contents /\ temp \in Contents
    /\ step \in [Callers -> {"idle", "open", "write", "rename"}]
    /\ view \in [Callers -> Lists]
    /\ handle \in [Callers -> {None, "temp", "file", "replaced"}]
    /\ \A i \in Sessions(Loaded) : Loaded[i].key # None \/ Loaded[i].thread # None

\* A Telegram thread has one session at most, of whatever runner, also when
\* handlers race and tear each other's files (sessions.rs:487-513).
ThreadBoundOnce ==
    \A i, j \in Sessions(Loaded) :
        Loaded[i].thread = Loaded[j].thread /\ Loaded[i].thread # None => i = j

\* A session key has one session at most of each runner, whether it came by
\* the agent's tool calls or by hand: "runner session key `..` is already
\* bound to session `..`" (sessions.rs:440-457, 386-396).
KeyBoundOnce ==
    \A i, j \in Sessions(Loaded) :
        /\ Loaded[i].kind = Loaded[j].kind
        /\ Loaded[i].key = Loaded[j].key
        /\ Loaded[i].key # None
        => i = j

\* No thread and no key is bound twice (both of the above).
BoundOnce == ThreadBoundOnce /\ KeyBoundOnce

\* A thread that was said to be a session is that session from then on, if
\* calls take turns, though any of them may die while it writes
\* (sessions.rs:469-629).
AnswersStand ==
    ~mode.overlap =>
        \A a \in handed : Loaded[a.id] # NoSession /\ Loaded[a.id].thread = a.thread
=============================================================================
