-------------------------------- MODULE Qemu --------------------------------
(***************************************************************************)
(* The QEMU process as the host handles it: VMProcessManager               *)
(* (qemu/process.py), the reaper that stands between them (_reaper.py),    *)
(* and the control connection (qemu/qmp.py) with the calls that use it     *)
(* (sandbox/_input.py).                                                    *)
(*                                                                         *)
(* terminate() blocks the event loop, so no coroutine runs while it waits. *)
(* Time matters there: the host waits HostWait for the reaper, twice, and  *)
(* the reaper ReaperWait for QEMU.  A Tick passes only when nobody has     *)
(* anything to do at once, so a delay is always somebody's waiting.        *)
(*                                                                         *)
(* A read of the control connection is that of asyncio: it returns what    *)
(* has come in, waits for some, or raises when another coroutine already   *)
(* waits; lines are whole.  Not modelled: connect(), which is over before  *)
(* other coroutines have the client, keys and coordinates, the conversion  *)
(* of a picture, and Windows.                                              *)
(*                                                                         *)
(* A definition named Action_Slip is Action with a slip a programmer could *)
(* make; the specification does not use it.                                *)
(***************************************************************************)
EXTENDS Naturals, Sequences, FiniteSets

CONSTANTS
    Users,        \* coroutines that use the control connection
    HostWait,     \* Timeouts.PROCESS_TERMINATE
    ReaperWait,   \* GRACEFUL_TIMEOUT
    Sessions,     \* what is checked: how QEMU takes SIGTERM (.manner: "prompt",
                  \* "slow", "stubborn"), what the users call (.ops: "click",
                  \* "double", "keys", "picture"), and bounds on the calls, the
                  \* events QEMU sends, the errors it answers, the calls cancelled
                  \* and the chunks written to the serial console
    None

ASSUME QemuAssumption ==
    /\ HostWait \in Nat \ {0} /\ ReaperWait \in Nat \ {0}
    /\ \A s \in Sessions :
        /\ s.manner \in {"prompt", "slow", "stubborn"}
        /\ s.ops \subseteq {"click", "double", "keys", "picture"}
        /\ {s.calls, s.events, s.errors, s.cuts, s.serial} \subseteq Nat

VARIABLES
    host,      \* "running", terminate()'s waits "eof", "term" and "kill",
               \* "stopped", or "dead"
    hostLeft,  \* what is left of the host's wait, or None
    reaper,    \* "up" or "dead"
    watcher,   \* its stdin thread: "reading", "writing", the waits "term"
               \* and "kill" of _kill, or "done"
    reaperLeft,
    forward,   \* signals the reaper has not forwarded yet
    pipe,      \* host to reaper: chunks, and whether the host's end is open
    stdin,     \* reaper to QEMU: chunks in the pipe
    session,   \* one of Sessions
    qemu,      \* "up", "leaving" (it has got SIGTERM) or "dead"
    client,    \* whether the QMPClient has its connection
    user,      \* the coroutines
    inbox,     \* commands QEMU has not carried out
    stream,    \* lines in the StreamReader
    buf,       \* QMPClient._buf: lines
    pressed,   \* the mouse button, in the guest
    files,     \* temporary files that exist, by whose call
    written,   \* those QEMU has written
    crossed,   \* two calls have overlapped, or one was cut off (for the properties)
    mixed,     \* a call was given another call's answer (for the properties)
    spent      \* what the bounds have left
processVars == <<host, hostLeft, reaper, watcher, reaperLeft, forward, pipe, stdin>>
qmpVars == <<client, user, inbox, stream, buf>>
guestVars == <<pressed, files, written>>
historyVars == <<crossed, mixed>>
qemuVars == <<processVars, session, qemu, qmpVars, guestVars, historyVars, spent>>

Resting == [at |-> "idle", id |-> 0, left |-> <<>>]
Inside == {"reading", "waiting", "woken"}   \* QMPClient.execute

QemuTypes ==
    /\ host \in {"running", "eof", "term", "kill", "stopped", "dead"}
    /\ reaper \in {"up", "dead"} /\ qemu \in {"up", "leaving", "dead"}
    /\ watcher \in {"reading", "writing", "term", "kill", "done"}
    /\ hostLeft \in 0 .. HostWait \cup {None}
    /\ reaperLeft \in 0 .. ReaperWait \cup {None}
    /\ pipe.chunks \in 0 .. 1 /\ stdin \in 0 .. 1
    /\ \A u \in Users : user[u].at \in {"idle", "pause"} \cup Inside
    /\ files \subseteq 1 .. session.calls /\ written \subseteq files

-----------------------------------------------------------------------------
\* start() has spawned the reaper and the client has connected.
QemuInit ==
    /\ host = "running" /\ hostLeft = None
    /\ reaper = "up" /\ watcher = "reading" /\ reaperLeft = None /\ forward = 0
    /\ pipe = [open |-> TRUE, chunks |-> 0] /\ stdin = 0
    /\ session \in Sessions /\ qemu = "up"
    /\ client = TRUE
    /\ user = [u \in Users |-> Resting]
    /\ inbox = <<>> /\ stream = <<>> /\ buf = <<>>
    /\ pressed = FALSE /\ files = {} /\ written = {}
    /\ crossed = FALSE /\ mixed = FALSE
    /\ spent = [calls |-> 0, events |-> 0, errors |-> 0, cuts |-> 0, serial |-> 0]

Spend(what) == spent[what] < session[what] /\ spent' = [spent EXCEPT ![what] = @ + 1]

\* The event loop runs unless terminate() holds it.
LoopRuns == host \in {"running", "stopped"}

-----------------------------------------------------------------------------
(* The reaper.  Its main thread waits for QEMU and exits with it, taking    *)
(* the other thread along; the other forwards stdin and kills at its end.   *)
Terminated == IF qemu = "up" THEN "leaving" ELSE qemu

ReadsChunk ==
    /\ reaper = "up" /\ watcher = "reading" /\ pipe.chunks > 0
    /\ pipe' = [pipe EXCEPT !.chunks = @ - 1]
    /\ watcher' = "writing"
    /\ UNCHANGED <<host, hostLeft, reaper, reaperLeft, forward, stdin, session, qemu,
                   qmpVars, guestVars, historyVars, spent>>

\* A pipe QEMU does not read from blocks the thread.
WritesChunk ==
    /\ reaper = "up" /\ watcher = "writing" /\ qemu # "dead" /\ stdin = 0
    /\ stdin' = 1 /\ watcher' = "reading"
    /\ UNCHANGED <<host, hostLeft, reaper, reaperLeft, forward, pipe, session, qemu,
                   qmpVars, guestVars, historyVars, spent>>

\* End of file: SIGTERM, and the wait before SIGKILL.
Kill ==
    /\ reaper = "up" /\ watcher = "reading" /\ pipe = [open |-> FALSE, chunks |-> 0]
    /\ qemu # "dead"
    /\ qemu' = Terminated
    /\ watcher' = "term" /\ reaperLeft' = ReaperWait
    /\ UNCHANGED <<host, hostLeft, reaper, forward, pipe, stdin, session,
                   qmpVars, guestVars, historyVars, spent>>

\* Slip: the second signal is SIGTERM again.
KillHarder_Again ==
    /\ reaper = "up" /\ watcher = "term" /\ reaperLeft = 0
    /\ qemu' = Terminated
    /\ watcher' = "kill" /\ reaperLeft' = None
    /\ UNCHANGED <<host, hostLeft, reaper, forward, pipe, stdin, session,
                   qmpVars, guestVars, historyVars, spent>>

KillHarder ==
    /\ reaper = "up" /\ watcher = "term" /\ reaperLeft = 0
    /\ qemu' = "dead"
    /\ watcher' = "kill" /\ reaperLeft' = None
    /\ UNCHANGED <<host, hostLeft, reaper, forward, pipe, stdin, session,
                   qmpVars, guestVars, historyVars, spent>>

Forward ==
    /\ reaper = "up" /\ forward > 0
    /\ forward' = forward - 1
    /\ qemu' = Terminated
    /\ UNCHANGED <<host, hostLeft, reaper, watcher, reaperLeft, pipe, stdin, session,
                   qmpVars, guestVars, historyVars, spent>>

ReaperExits ==
    /\ reaper = "up" /\ qemu = "dead"
    /\ reaper' = "dead" /\ watcher' = "done" /\ reaperLeft' = None /\ forward' = 0
    /\ UNCHANGED <<host, hostLeft, pipe, stdin, session, qemu,
                   qmpVars, guestVars, historyVars, spent>>

-----------------------------------------------------------------------------
(* The host.                                                                *)
WriteSerial ==
    /\ host = "running" /\ pipe.chunks = 0 /\ reaper = "up"
    /\ Spend("serial")
    /\ pipe' = [pipe EXCEPT !.chunks = 1]
    /\ UNCHANGED <<host, hostLeft, reaper, watcher, reaperLeft, forward, stdin, session,
                   qemu, qmpVars, guestVars, historyVars>>

\* _cleanup: the client is closed, then terminate() closes the reaper's stdin.
Terminate ==
    /\ host = "running"
    /\ client' = FALSE
    /\ pipe' = [pipe EXCEPT !.open = FALSE]
    /\ host' = "eof" /\ hostLeft' = HostWait
    /\ UNCHANGED <<reaper, watcher, reaperLeft, forward, stdin, session, qemu,
                   user, inbox, stream, buf, guestVars, historyVars, spent>>

\* Slip: the reaper is killed as soon as the first wait is over.
SendTerminate_Kills ==
    /\ host = "eof" /\ hostLeft = 0 /\ reaper = "up"
    /\ reaper' = "dead" /\ watcher' = "done" /\ reaperLeft' = None /\ forward' = 0
    /\ host' = "kill" /\ hostLeft' = None
    /\ UNCHANGED <<pipe, stdin, session, qemu, qmpVars, guestVars, historyVars, spent>>

SendTerminate ==
    /\ host = "eof" /\ hostLeft = 0 /\ reaper = "up"
    /\ forward' = forward + 1
    /\ host' = "term" /\ hostLeft' = HostWait
    /\ UNCHANGED <<reaper, watcher, reaperLeft, pipe, stdin, session, qemu,
                   qmpVars, guestVars, historyVars, spent>>

SendKill ==
    /\ host = "term" /\ hostLeft = 0 /\ reaper = "up"
    /\ reaper' = "dead" /\ watcher' = "done" /\ reaperLeft' = None /\ forward' = 0
    /\ host' = "kill" /\ hostLeft' = None
    /\ UNCHANGED <<pipe, stdin, session, qemu, qmpVars, guestVars, historyVars, spent>>

\* wait() returns once the reaper is gone.
Waited ==
    /\ host \in {"eof", "term", "kill"} /\ reaper = "dead"
    /\ host' = "stopped" /\ hostLeft' = None
    /\ UNCHANGED <<reaper, watcher, reaperLeft, forward, pipe, stdin, session, qemu,
                   qmpVars, guestVars, historyVars, spent>>

\* The process that holds the sandbox dies, at any point, terminate()'s too.
HostDies ==
    /\ host \notin {"stopped", "dead"}
    /\ host' = "dead" /\ hostLeft' = None
    /\ pipe' = [pipe EXCEPT !.open = FALSE]
    /\ client' = FALSE
    /\ UNCHANGED <<reaper, watcher, reaperLeft, forward, stdin, session, qemu,
                   user, inbox, stream, buf, guestVars, historyVars, spent>>

-----------------------------------------------------------------------------
(* QEMU.                                                                    *)
QemuReads ==
    /\ qemu # "dead" /\ stdin > 0
    /\ stdin' = 0
    /\ UNCHANGED <<host, hostLeft, reaper, watcher, reaperLeft, forward, pipe, session, qemu,
                   qmpVars, guestVars, historyVars, spent>>

QemuLeaves ==
    /\ qemu = "leaving" /\ session.manner # "stubborn"
    /\ qemu' = "dead"
    /\ UNCHANGED <<processVars, session, qmpVars, guestVars, historyVars, spent>>

QemuDies ==
    /\ qemu # "dead" /\ host = "running"
    /\ qemu' = "dead"
    /\ UNCHANGED <<processVars, session, qmpVars, guestVars, historyVars, spent>>

\* A line for the client wakes the coroutine that waits for one.
Woken == [u \in Users |-> IF user[u].at = "waiting" THEN [user[u] EXCEPT !.at = "woken"]
                          ELSE user[u]]
Answer(line) ==
    /\ stream' = IF client THEN Append(stream, line) ELSE stream
    /\ user' = IF client THEN Woken ELSE user

Carry(cmd) ==
    /\ pressed' = IF cmd.what \in {"down", "up"} THEN cmd.what = "down" ELSE pressed
    /\ files' = IF cmd.what = "dump" THEN files \cup {cmd.by} ELSE files
    /\ written' = IF cmd.what = "dump" THEN written \cup {cmd.by} ELSE written

QemuAnswers ==
    /\ qemu = "up" /\ inbox # <<>>
    /\ inbox' = Tail(inbox)
    /\ Carry(Head(inbox))
    /\ Answer([type |-> "return", to |-> Head(inbox).by, what |-> Head(inbox).what])
    /\ UNCHANGED <<processVars, session, qemu, client, buf, historyVars, spent>>

QemuRefuses ==
    /\ qemu = "up" /\ inbox # <<>>
    /\ Spend("errors")
    /\ inbox' = Tail(inbox)
    /\ Answer([type |-> "error", to |-> Head(inbox).by, what |-> Head(inbox).what])
    /\ UNCHANGED <<processVars, session, qemu, client, buf, guestVars, historyVars>>

QemuTells ==
    /\ qemu = "up" /\ client
    /\ Spend("events")
    /\ Answer([type |-> "event", to |-> None, what |-> None])
    /\ UNCHANGED <<processVars, session, qemu, client, inbox, buf, guestVars, historyVars>>

-----------------------------------------------------------------------------
(* The calls: type_text and press_key, mouse_click, screenshot.             *)
Script == [click |-> <<"down", "up">>,
           double |-> <<"down", "up", "pause", "down", "up">>,
           keys |-> <<"key", "key">>,
           picture |-> <<"dump">>]

\* A coroutine sends the first of the commands it has left; drain() may let
\* others run before it reads.
Send(u, id, left) ==
    /\ user' = [user EXCEPT ![u] = [at |-> "reading", id |-> id, left |-> left]]
    /\ inbox' = Append(inbox, [what |-> Head(left), by |-> id])
    /\ crossed' = (crossed \/ \E v \in Users \ {u} : user[v].at \in Inside)

Begin(u) ==
    /\ host = "running" /\ qemu # "dead"
    /\ user[u].at = "idle"
    /\ Spend("calls")
    /\ \E c \in session.ops :
        /\ Send(u, spent.calls + 1, Script[c])
        /\ files' = IF c = "picture" THEN files \cup {spent.calls + 1} ELSE files
    /\ UNCHANGED <<processVars, session, qemu, client, stream, buf, pressed, written, mixed>>

\* The call is over: a picture's temporary file goes, whatever happened.
Leave(u) ==
    /\ user' = [user EXCEPT ![u] = Resting]
    /\ files' = files \ {user[u].id} /\ written' = written \ {user[u].id}

\* _recv_json, as often as it takes to skip the events.
Lines == buf \o stream
Replies == {i \in 1 .. Len(Lines) : Lines[i].type # "event"}
\* Slip: the first line is the answer.
First_Line == 1

First == CHOOSE i \in Replies : \A j \in Replies : i <= j

Take(u) ==
    /\ buf' = SubSeq(Lines, First + 1, IF First <= Len(buf) THEN Len(buf) ELSE Len(Lines))
    /\ stream' = IF First <= Len(buf) THEN stream ELSE <<>>
    /\ mixed' = (mixed \/ user[u].id # Lines[First].to)

Rest(u) == Tail(user[u].left)

Gets(u) ==
    /\ Replies # {}
    /\ Take(u)
    /\ \/ /\ Lines[First].type = "error" \/ Rest(u) = <<>>
          /\ Leave(u)
          /\ UNCHANGED <<inbox, crossed>>
       \/ /\ Lines[First].type = "return" /\ Rest(u) # <<>> /\ Head(Rest(u)) = "pause"
          /\ user' = [user EXCEPT ![u].at = "pause", ![u].left = Tail(Rest(u))]
          /\ UNCHANGED <<inbox, crossed, files, written>>
       \/ /\ Lines[First].type = "return" /\ Rest(u) # <<>> /\ Head(Rest(u)) # "pause"
          /\ client
          /\ Send(u, user[u].id, Rest(u))
          /\ UNCHANGED <<files, written>>
       \/ /\ Lines[First].type = "return" /\ Rest(u) # <<>> /\ Head(Rest(u)) # "pause"
          /\ ~client
          /\ Leave(u)
          /\ UNCHANGED <<inbox, crossed>>

Closed == ~client \/ qemu = "dead"

\* read() with nothing in: only one coroutine may wait.
Waits(u) ==
    /\ Replies = {} /\ ~Closed
    /\ \A v \in Users : user[v].at # "waiting"
    /\ buf' = <<>> /\ stream' = <<>>
    /\ user' = [user EXCEPT ![u].at = "waiting"]
    /\ UNCHANGED <<files, written, inbox, crossed, mixed>>

Fails(u) ==
    /\ Leave(u)
    /\ buf' = <<>> /\ stream' = <<>>
    /\ UNCHANGED <<inbox, crossed, mixed>>

Read(u) ==
    /\ LoopRuns /\ user[u].at = "reading"
    /\ \/ Gets(u) \/ Waits(u)
       \/ /\ Replies = {}
          /\ Closed \/ \E v \in Users : user[v].at = "waiting"
          /\ Fails(u)
    /\ UNCHANGED <<processVars, session, qemu, client, pressed, spent>>

\* A coroutine that waited reads what came in; if another has taken it in the
\* meantime it reads nothing, which it takes for the end.
Resume(u) ==
    /\ LoopRuns
    /\ \/ user[u].at = "woken"
       \/ user[u].at = "waiting" /\ Closed
    /\ \/ stream # <<>> /\ (Gets(u) \/ Waits(u) \/ (Replies = {} /\ Closed /\ Fails(u)))
       \/ stream = <<>> /\ Leave(u) /\ UNCHANGED <<inbox, stream, buf, crossed, mixed>>
    /\ UNCHANGED <<processVars, session, qemu, client, pressed, spent>>

Continue(u) ==
    /\ LoopRuns /\ user[u].at = "pause"
    /\ \/ client /\ Send(u, user[u].id, user[u].left) /\ UNCHANGED <<files, written>>
       \/ ~client /\ Leave(u) /\ UNCHANGED <<inbox, crossed>>
    /\ UNCHANGED <<processVars, session, qemu, client, stream, buf, pressed, mixed, spent>>

Cancel(u) ==
    /\ LoopRuns /\ user[u].at # "idle"
    /\ Spend("cuts")
    /\ Leave(u)
    /\ crossed' = TRUE
    /\ UNCHANGED <<processVars, session, qemu, client, inbox, stream, buf, pressed, mixed>>

-----------------------------------------------------------------------------
(* Time.                                                                    *)
Passed(left) == IF left = None THEN None ELSE left - 1

\* Somebody can go on at once.
Busy ==
    \/ reaper = "up" /\ (qemu = "dead" \/ forward > 0 \/ reaperLeft = 0)
    \/ reaper = "up" /\ watcher = "reading" /\ (pipe.chunks > 0 \/ ~pipe.open)
    \/ reaper = "up" /\ watcher = "writing" /\ stdin = 0
    \/ host \in {"eof", "term", "kill"} /\ (reaper = "dead" \/ hostLeft = 0)
    \/ qemu = "leaving" /\ session.manner = "prompt"

Tick ==
    /\ ~Busy
    /\ hostLeft # None \/ reaperLeft # None
    /\ hostLeft' = Passed(hostLeft) /\ reaperLeft' = Passed(reaperLeft)
    /\ UNCHANGED <<host, reaper, watcher, forward, pipe, stdin, session, qemu,
                   qmpVars, guestVars, historyVars, spent>>

-----------------------------------------------------------------------------
Reaper == ReadsChunk \/ WritesChunk \/ Kill \/ KillHarder \/ Forward \/ ReaperExits
Host == WriteSerial \/ Terminate \/ SendTerminate \/ SendKill \/ Waited \/ HostDies
Process == QemuReads \/ QemuLeaves \/ QemuDies \/ QemuAnswers \/ QemuRefuses \/ QemuTells
User(u) == Begin(u) \/ Read(u) \/ Resume(u) \/ Continue(u) \/ Cancel(u)

QemuNext == Reaper \/ Host \/ Process \/ Tick \/ \E u \in Users : User(u)

\* The reaper's threads run, time passes, and QEMU reads its standard input
\* even while it does not leave (a write to one that does not read blocks the
\* thread that would kill it);
\* unless it is stubborn it leaves when told to.
Fairness == WF_qemuVars(Reaper) /\ WF_qemuVars(Tick) /\ WF_qemuVars(QemuReads) /\ WF_qemuVars(QemuLeaves)

QemuSpec == QemuInit /\ [][QemuNext]_qemuVars /\ Fairness

-----------------------------------------------------------------------------
(* Properties.                                                              *)

\* Answers carry no id: a call is given the answer to its own command as long
\* as no two calls overlap and none is cut off, whatever events and errors
\* come in between; and one that is over and was not refused has left neither
\* its temporary file nor a pressed button.
CallsStayInStep ==
    ~crossed =>
        /\ ~mixed
        /\ host \in {"running", "stopped"} /\ spent.errors = 0 =>
             /\ files \subseteq {user[u].id : u \in Users}
             /\ pressed /\ qemu = "up" => \E u \in Users : user[u].at # "idle"

\* QMPClient.execute, "Send a QMP command and return the response": not so for
\* calls that overlap.
ReturnsTheResponse == ~mixed

\* terminate() leaves no QEMU behind that goes when it is told to, even if the
\* thread that should tell it is blocked on a serial console nobody reads.
OrphansAreSlow == host = "stopped" /\ qemu # "dead" => session.manner # "prompt"

\* VMProcessManager.terminate: "First attempts graceful termination, then
\* forceful kill if needed": not so for a QEMU that does not leave on SIGTERM.
TerminateKills == host = "stopped" => qemu = "dead"

\* When the host process dies, at any point, the reaper ends QEMU, by force if
\* it does not leave.
HostDeathKillsQemu == (host = "dead" /\ reaper = "up") ~> (qemu = "dead")
=============================================================================
