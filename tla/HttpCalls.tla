------------------------------ MODULE HttpCalls ------------------------------
(***************************************************************************)
(* Commands over the HTTP transport: the client (host/                     *)
(* quicksand_guest_agent_client.py), the feeder of standard input that     *)
(* both transports share (host/_stdin.py), and what the guest's routes do  *)
(* (main.rs).  A call is one Sandbox.execute(): "plain" is sent again      *)
(* after a transport error, "stream" and "stdin" are not; a "stdin" call   *)
(* runs two tasks, one that reads the events of the response and one that  *)
(* feeds, and requests for input and cancellation pass by the lock that    *)
(* the call holds.                                                         *)
(*                                                                         *)
(* A request the host has given up may still be carried out by the guest:  *)
(* it is then a stray.  Left out: exclusive commands, users, the text of   *)
(* output (see StdinExecution and AgentClient), and a source whose         *)
(* aclose() fails.                                                         *)
(*                                                                         *)
(* A definition named Action_Slip is Action with a slip a programmer could *)
(* make; the specification does not use it.                                *)
(***************************************************************************)
EXTENDS Naturals, Sequences, FiniteSets

CONSTANTS
    Calls,
    MaxRetries,   \* max_retries of _retry_on_transient_error
    Sessions,     \* what is checked: the kind of each call (.kind), its source (.chunks,
                  \* .ends: "eof", "stalls" or "raises"), whether its command waits for
                  \* the end of its input (.filter), and bounds on transport errors,
                  \* refusals, timeouts, cancellations and closings of the client
    None

ASSUME HttpAssumption ==
    /\ MaxRetries \in Nat
    /\ None \notin {"created", "reading", "waiting", "source", "sending", "result", "error",
                    "raised", "cancelled", "sent", "more", "closed", "done", "unknown",
                    "failed", "served", "answered", "refused", "dropped"}
    /\ \A s \in Sessions :
        /\ s.kind \in [Calls -> {"plain", "stream", "stdin"}]
        /\ s.chunks \in Nat /\ s.ends \in {"eof", "stalls", "raises"}
        /\ s.filter \in BOOLEAN
        /\ {s.faults, s.refusals, s.timeouts, s.cuts, s.closings} \subseteq Nat

VARIABLES
    session,  \* one of Sessions
    agent,    \* the guest's: "booting", "up" or "dead"
    link,     \* connect(): "pause" or "asking" while it tries, then "open" or "failed";
              \* "closed" after close()
    queue,    \* the lock: who holds it, then who waits
    call,     \* each call: where it is, its attempts and its result
    out,      \* the task, or the await, that reads the response
    feed,     \* the task that feeds: its state, and the chunks taken from the source
    ready,    \* the ready event
    input,    \* the request for input on its way
    cancel,   \* the cancel request on its way
    request,  \* the request that runs the command
    events,   \* of the response, not read yet
    command,  \* in the guest: "none", "running", "exited" or "killed"
    got,      \* what the command's standard input has received
    strays,   \* requests the host has given up and the guest may carry out
    runs,     \* how often the command was started (for the properties)
    failed,   \* feeding failed before the result was there (for the properties)
    spent     \* what the bounds have left
hostVars == <<agent, link, queue, call, out, feed, ready>>
wireVars == <<input, cancel, request, events, strays>>
guestVars == <<command, got, runs>>
vars == <<session, hostVars, wireVars, guestVars, failed, spent>>

Idle == [at |-> "idle", tries |-> 0, result |-> None]
Done == {"result", "error", "raised", "cancelled"}   \* a task, or a call, is over
Eof == 0                                     \* among the parts 1, 2, ... of the input
Stray(what, part) == [what |-> what, part |-> part]

TypeOK ==
    /\ session \in Sessions /\ agent \in {"booting", "up", "dead"}
    /\ link \in {"pause", "asking", "open", "failed", "closed"} /\ ready \subseteq Calls
    /\ \A c \in Calls :
        /\ call[c].at \in {"idle", "lock", "sent", "backoff", "stream", "wait", "output",
                           "cancel", "gather", "over"}
        /\ call[c].result \in Done \cup {None}
        /\ out[c] \in {None, "created", "reading"} \cup Done
        /\ feed[c].at \in {None, "waiting", "source", "sending"} \cup Done
        /\ input[c] \in {None, "sent", "more", "closed"}
        /\ cancel[c] \in {None, "sent", "done", "unknown", "failed"}
        /\ request[c] \in {None, "sent", "served", "answered", "refused", "dropped"}
        /\ command[c] \in {"none", "running", "exited", "killed"}
        /\ \A i \in DOMAIN strays[c] : strays[c][i].what \in {"run", "input", "cancel"}

Init ==
    /\ session \in Sessions /\ agent = "booting" /\ link = "pause" /\ queue = <<>>
    /\ call = [c \in Calls |-> Idle]
    /\ out = [c \in Calls |-> None]
    /\ feed = [c \in Calls |-> [at |-> None, taken |-> 0]]
    /\ ready = {}
    /\ input = [c \in Calls |-> None] /\ cancel = [c \in Calls |-> None]
    /\ request = [c \in Calls |-> None]
    /\ events = [c \in Calls |-> <<>>]
    /\ command = [c \in Calls |-> "none"]
    /\ got = [c \in Calls |-> <<>>]
    /\ strays = [c \in Calls |-> <<>>]
    /\ runs = [c \in Calls |-> 0] /\ failed = {}
    /\ spent = [faults |-> 0, refusals |-> 0, timeouts |-> 0, cuts |-> 0, closings |-> 0]

Spend(what) == spent[what] < session[what] /\ spent' = [spent EXCEPT ![what] = @ + 1]
Kind(c) == session.kind[c]
Finished(c) == out[c] \in Done
open == link = "open"   \* the client has its connection

-----------------------------------------------------------------------------
(* connect() asks until the agent authenticates it, the VM is gone or its   *)
(* time is over; every other failure is tried again.                        *)
Boot ==
    /\ agent = "booting"
    /\ \/ agent' = "up" /\ UNCHANGED spent
       \/ agent' = "dead" /\ Spend("refusals")
    /\ UNCHANGED <<session, link, queue, call, out, feed, ready, wireVars, guestVars, failed>>

Attempt ==
    /\ link = "pause"
    /\ link' = IF agent = "dead" THEN "failed" ELSE "asking"
    /\ UNCHANGED <<session, agent, queue, call, out, feed, ready, wireVars, guestVars,
                   failed, spent>>

Authenticated ==
    /\ link = "asking" /\ agent = "up"
    /\ link' = "open"
    /\ UNCHANGED <<session, agent, queue, call, out, feed, ready, wireVars, guestVars,
                   failed, spent>>

\* No answer, or a rejected token.
NotYet ==
    /\ link = "asking"
    /\ agent = "up" => Spend("refusals")
    /\ agent # "up" => UNCHANGED spent
    /\ link' = "pause"
    /\ UNCHANGED <<session, agent, queue, call, out, feed, ready, wireVars, guestVars, failed>>

ConnectTimeout ==
    /\ link = "pause" /\ agent # "dead"
    /\ link' = "failed"
    /\ UNCHANGED <<session, agent, queue, call, out, feed, ready, wireVars, guestVars,
                   failed, spent>>

-----------------------------------------------------------------------------
(* A call takes the lock and sends its request.                             *)

\* The lock goes to the next in the queue.
Release(c) == queue' = Tail(queue)
Over(c, result) == call' = [call EXCEPT ![c].at = "over", ![c].result = result]

\* A client that is closed refuses at once.
Begin(c) ==
    /\ call[c].at = "idle" /\ link \in {"open", "closed"}
    /\ IF open
       THEN /\ call' = [call EXCEPT ![c].at = "lock"] /\ queue' = Append(queue, c)
       ELSE /\ Over(c, "raised") /\ UNCHANGED queue
    /\ UNCHANGED <<session, agent, link, out, feed, ready, wireVars, guestVars, failed, spent>>

\* One that was closed while the call waited for the lock: the request that
\* follows finds no client (AttributeError, AssertionError).
LockTooLate(c) ==
    /\ call[c].at = "lock" /\ Head(queue) = c /\ ~open /\ Kind(c) # "stdin"
    /\ Over(c, "raised") /\ Release(c)
    /\ UNCHANGED <<session, agent, link, out, feed, ready, wireVars, guestVars, failed, spent>>

SendPlain(c) ==
    /\ call[c].at = "lock" /\ Head(queue) = c /\ open /\ Kind(c) = "plain"
    /\ call' = [call EXCEPT ![c].at = "sent"]
    /\ request' = [request EXCEPT ![c] = "sent"]
    /\ UNCHANGED <<session, agent, link, queue, out, feed, ready, input, cancel, events, strays,
                   guestVars, failed, spent>>

SendStream(c) ==
    /\ call[c].at = "lock" /\ Head(queue) = c /\ open /\ Kind(c) = "stream"
    /\ call' = [call EXCEPT ![c].at = "stream"]
    /\ out' = [out EXCEPT ![c] = "reading"]
    /\ request' = [request EXCEPT ![c] = "sent"]
    /\ UNCHANGED <<session, agent, link, queue, feed, ready, input, cancel, events, strays,
                   guestVars, failed, spent>>

\* run_with_stdin: two tasks, neither of which has run yet.
StartTasks(c) ==
    /\ call[c].at = "lock" /\ Head(queue) = c /\ Kind(c) = "stdin"
    /\ call' = [call EXCEPT ![c].at = "wait"]
    /\ out' = [out EXCEPT ![c] = "created"]
    /\ feed' = [feed EXCEPT ![c].at = "waiting"]
    /\ UNCHANGED <<session, agent, link, queue, ready, wireVars, guestVars, failed, spent>>

StartOutput(c) ==
    /\ out[c] = "created"
    /\ out' = [out EXCEPT ![c] = IF open THEN "reading" ELSE "raised"]
    /\ request' = [request EXCEPT ![c] = IF open THEN "sent" ELSE None]
    /\ UNCHANGED <<session, agent, link, queue, call, feed, ready, input, cancel, events, strays,
                   guestVars, failed, spent>>

\* The answer to a plain request, a refusal (HTTP status) included.
Answered(c) ==
    /\ call[c].at = "sent" /\ request[c] \in {"answered", "refused"}
    /\ Over(c, IF request[c] = "answered" THEN "result" ELSE "error")
    /\ request' = [request EXCEPT ![c] = None]
    /\ Release(c)
    /\ UNCHANGED <<session, agent, link, out, feed, ready, input, cancel, events, strays,
                   guestVars, failed, spent>>

\* A request that the guest has not served when the host gives it up may
\* have arrived there, or not.
RunLeft(c) == {<<>>} \cup IF request[c] = "sent" THEN {<<Stray("run", 0)>>} ELSE {}
Leave(c) == \E r \in RunLeft(c) : strays' = [strays EXCEPT ![c] = @ \o r]

\* A transport error needs no other cause once the client is closed.
Fault == IF open THEN Spend("faults") ELSE UNCHANGED spent

\* A transport error or a timeout; on a client that has been closed, the next
\* attempt raises.
Retry(c) ==
    /\ call[c].at = "sent" /\ request[c] \notin {"answered", "refused"}
    /\ Fault
    /\ Leave(c)
    /\ request' = [request EXCEPT ![c] = None]
    /\ IF call[c].tries < MaxRetries
       THEN /\ call' = [call EXCEPT ![c].at = "backoff", ![c].tries = @ + 1]
            /\ UNCHANGED queue
       ELSE Over(c, "error") /\ Release(c)
    /\ UNCHANGED <<session, agent, link, out, feed, ready, input, cancel, events, guestVars, failed>>

Resend(c) ==
    /\ call[c].at = "backoff"
    /\ IF open
       THEN /\ call' = [call EXCEPT ![c].at = "sent"] /\ UNCHANGED queue
            /\ request' = [request EXCEPT ![c] = "sent"]
       ELSE /\ Over(c, "raised") /\ Release(c) /\ UNCHANGED request
    /\ UNCHANGED <<session, agent, link, out, feed, ready, input, cancel, events, strays,
                   guestVars, failed, spent>>

-----------------------------------------------------------------------------
(* The events of a response (_receive_stream).  The agent sends no error in  *)
(* one once it has begun.                                                   *)
ReadEvent(c) ==
    /\ out[c] = "reading" /\ events[c] # <<>>
    /\ events' = [events EXCEPT ![c] = Tail(@)]
    /\ ready' = IF Head(events[c]) = "ready" THEN ready \cup {c} ELSE ready
    /\ out' = [out EXCEPT ![c] = IF Head(events[c]) = "ready" THEN @ ELSE "result"]
    /\ UNCHANGED <<session, agent, link, queue, call, feed, input, cancel, request, strays,
                   guestVars, failed, spent>>

\* A refusal, or the end of the response without an exit status: an error,
\* or for a call without input the exit code -1.
StreamEnds(c) ==
    /\ out[c] = "reading" /\ events[c] = <<>> /\ request[c] \in {"answered", "refused"}
    /\ out' = [out EXCEPT ![c] = IF request[c] = "answered" /\ Kind(c) = "stream"
                                 THEN "result" ELSE "error"]
    /\ UNCHANGED <<session, agent, link, queue, call, feed, ready, wireVars, guestVars, failed, spent>>

\* Slip: a stream is sent again like any other request.
StreamFails_Retries(c) ==
    /\ out[c] = "reading" /\ Fault
    /\ out' = [out EXCEPT ![c] = "created"]
    /\ events' = [events EXCEPT ![c] = <<>>]
    /\ Leave(c)
    /\ request' = [request EXCEPT ![c] = "dropped"]
    /\ UNCHANGED <<session, agent, link, queue, call, feed, ready, input, cancel, guestVars, failed>>

StreamFails(c) ==
    /\ out[c] = "reading" /\ Fault
    /\ out' = [out EXCEPT ![c] = "error"]
    /\ Leave(c)
    /\ request' = [request EXCEPT ![c] = "dropped"]
    /\ UNCHANGED <<session, agent, link, queue, call, feed, ready, input, cancel, events,
                   guestVars, failed>>

StreamReturns(c) ==
    /\ call[c].at = "stream" /\ Finished(c)
    /\ Over(c, out[c]) /\ Release(c)
    /\ UNCHANGED <<session, agent, link, out, feed, ready, wireVars, guestVars, failed, spent>>

-----------------------------------------------------------------------------
(* The feeder.                                                              *)
Feeding(c, at) == feed' = [feed EXCEPT ![c].at = at]
Looks(c) == IF Finished(c) THEN "result" ELSE "source"   \* while not output_task.done()
FeedFails(c) ==
    /\ Feeding(c, "raised")
    /\ failed' = IF out[c] = "result" THEN failed ELSE failed \cup {c}

FeedReady(c) ==
    /\ feed[c].at = "waiting" /\ c \in ready
    /\ Feeding(c, Looks(c))
    /\ UNCHANGED <<session, agent, link, queue, call, out, ready, wireVars, guestVars, failed, spent>>

\* The source gives a chunk, or its end; the response may be over by then.
TakeChunk(c) ==
    /\ feed[c].at = "source"
    /\ feed[c].taken < session.chunks
        \/ (session.ends = "eof" /\ feed[c].taken = session.chunks)
    /\ IF Finished(c)
       THEN Feeding(c, "result") /\ UNCHANGED <<input, failed>>
       ELSE IF ~open
       THEN FeedFails(c) /\ UNCHANGED input
       ELSE /\ feed' = [feed EXCEPT ![c] = [at |-> "sending", taken |-> @.taken + 1]]
            /\ input' = [input EXCEPT ![c] = "sent"]
            /\ UNCHANGED failed
    /\ UNCHANGED <<session, agent, link, queue, call, out, ready, cancel, request, events, strays,
                   guestVars, spent>>

SourceRaises(c) ==
    /\ feed[c].at = "source" /\ session.ends = "raises" /\ feed[c].taken = session.chunks
    /\ FeedFails(c)
    /\ UNCHANGED <<session, agent, link, queue, call, out, ready, wireVars, guestVars, spent>>

\* Acknowledged: closed ends the feeding.
Acknowledged(c) ==
    /\ feed[c].at = "sending" /\ input[c] \in {"more", "closed"}
    /\ Feeding(c, IF input[c] = "closed" THEN "result" ELSE Looks(c))
    /\ input' = [input EXCEPT ![c] = None]
    /\ UNCHANGED <<session, agent, link, queue, call, out, ready, cancel, request, events, strays,
                   guestVars, failed, spent>>

\* What the request in flight carries.
Carries(c) == IF feed[c].taken > session.chunks THEN Eof ELSE feed[c].taken
InputLeft(c) == {<<>>} \cup IF input[c] = "sent" THEN {<<Stray("input", Carries(c))>>} ELSE {}
LeaveInput(c) == \E i \in InputLeft(c) : strays' = [strays EXCEPT ![c] = @ \o i]

\* Slip: a chunk whose acknowledgement did not come is sent again.
InputFails_Retries(c) ==
    /\ feed[c].at = "sending" /\ Fault
    /\ input' = [input EXCEPT ![c] = "sent"]
    /\ LeaveInput(c)
    /\ UNCHANGED <<session, agent, link, queue, call, out, feed, ready, cancel, request, events,
                   guestVars, failed>>

\* A transport error or an error reply: no retry, the feeding has failed.
InputFails(c) ==
    /\ feed[c].at = "sending" /\ Fault
    /\ FeedFails(c)
    /\ input' = [input EXCEPT ![c] = None]
    /\ LeaveInput(c)
    /\ UNCHANGED <<session, agent, link, queue, call, out, ready, cancel, request, events, guestVars>>

-----------------------------------------------------------------------------
(* run_with_stdin waits for either task, takes the response, and in the     *)
(* end cancels both tasks and, unless there is a result, the execution.     *)
Ended(state) == IF state \in Done THEN state ELSE "cancelled"

\* Slip: the tasks are only awaited.
Finally_Awaits(c, result) ==
    /\ UNCHANGED <<feed, out, input, strays, request>>
    /\ call' = [call EXCEPT ![c].result = result,
                            ![c].at = IF result \in {None, "error"} /\ open
                                      THEN "cancel" ELSE "gather"]
    /\ cancel' = [cancel EXCEPT ![c] = IF result \notin {None, "error"} THEN None
                                       ELSE IF open THEN "sent" ELSE "failed"]

Finally(c, result) ==
    /\ feed' = [feed EXCEPT ![c].at = Ended(@)]
    /\ out' = [out EXCEPT ![c] = Ended(@)]
    /\ input' = [input EXCEPT ![c] = None]
    /\ \E r \in RunLeft(c), i \in InputLeft(c) : strays' = [strays EXCEPT ![c] = @ \o r \o i]
    /\ request' = [request EXCEPT ![c] = IF Finished(c) THEN @ ELSE "dropped"]
    /\ call' = [call EXCEPT ![c].result = result,
                            ![c].at = IF result \in {None, "error"} /\ open
                                      THEN "cancel" ELSE "gather"]
    /\ cancel' = [cancel EXCEPT ![c] = IF result \notin {None, "error"} THEN None
                                       ELSE IF open THEN "sent" ELSE "failed"]

InputRaises(c) ==
    /\ call[c].at = "wait" /\ feed[c].at = "raised"
    /\ Finally(c, None)
    /\ UNCHANGED <<session, agent, link, queue, ready, events, guestVars, failed, spent>>

InputDone(c) ==
    /\ call[c].at = "wait" /\ feed[c].at = "result" /\ ~Finished(c)
    /\ call' = [call EXCEPT ![c].at = "output"]
    /\ UNCHANGED <<session, agent, link, queue, out, feed, ready, wireVars, guestVars, failed, spent>>

TakeResult(c) ==
    /\ Finished(c)
    /\ call[c].at = "output" \/ (call[c].at = "wait" /\ feed[c].at # "raised")
    /\ Finally(c, IF out[c] = "raised" THEN None ELSE out[c])
    /\ UNCHANGED <<session, agent, link, queue, ready, events, guestVars, failed, spent>>

Deadline(c) ==
    /\ call[c].at \in {"wait", "output"} /\ Spend("timeouts")
    /\ Finally(c, "error")
    /\ UNCHANGED <<session, agent, link, queue, ready, events, guestVars, failed>>

\* The acknowledgement, or none in two seconds: either way the tasks are
\* awaited next.
CancelAnswered(c) ==
    /\ call[c].at = "cancel" /\ cancel[c] \in {"done", "unknown"}
    /\ call' = [call EXCEPT ![c].at = "gather"]
    /\ UNCHANGED <<session, agent, link, queue, out, feed, ready, wireVars, guestVars, failed, spent>>

LeaveCancel(c) ==
    \/ cancel[c] = "sent" /\ strays' = [strays EXCEPT ![c] = Append(@, Stray("cancel", 0))]
    \/ UNCHANGED strays

CancelFails(c) ==
    /\ call[c].at = "cancel" /\ Spend("timeouts")
    /\ call' = [call EXCEPT ![c].at = "gather"]
    /\ cancel' = [cancel EXCEPT ![c] = "failed"]
    /\ LeaveCancel(c)
    /\ UNCHANGED <<session, agent, link, queue, out, feed, ready, input, request, events,
                   guestVars, failed>>

\* An exception of a task is raised in place of a result.
Gather(c) ==
    /\ call[c].at = "gather" /\ Finished(c) /\ feed[c].at \in Done
    /\ Over(c, IF call[c].result = None \/ "raised" \in {out[c], feed[c].at}
               THEN "raised" ELSE call[c].result)
    /\ Release(c)
    /\ UNCHANGED <<session, agent, link, out, feed, ready, wireVars, guestVars, failed, spent>>

\* The caller's task is cancelled: while it waits for the lock or for an
\* answer, ...
Cut(c) ==
    /\ call[c].at \in {"lock", "sent", "backoff", "stream"} /\ Spend("cuts")
    /\ Over(c, "cancelled")
    /\ queue' = SelectSeq(queue, LAMBDA d : d # c)
    /\ out' = [out EXCEPT ![c] = IF @ = "reading" THEN "cancelled" ELSE @]
    /\ Leave(c)
    /\ request' = [request EXCEPT ![c] = IF @ = None THEN None ELSE "dropped"]
    /\ UNCHANGED <<session, agent, link, feed, ready, input, cancel, events, guestVars, failed>>

\* ... while the tasks run, ...
CutTasks(c) ==
    /\ call[c].at \in {"wait", "output"} /\ Spend("cuts")
    /\ Finally(c, None)
    /\ UNCHANGED <<session, agent, link, queue, ready, events, guestVars, failed>>

\* ... or during the cancel request: then nobody awaits the tasks, which
\* have been cancelled.
CutCancel(c) ==
    /\ call[c].at = "cancel" /\ Spend("cuts")
    /\ Over(c, "cancelled") /\ Release(c)
    /\ cancel' = [cancel EXCEPT ![c] = IF @ = "sent" THEN "failed" ELSE @]
    /\ LeaveCancel(c)
    /\ UNCHANGED <<session, agent, link, out, feed, ready, input, request, events, guestVars, failed>>

Close ==
    /\ open /\ Spend("closings")
    /\ link' = "closed"
    /\ UNCHANGED <<session, agent, queue, call, out, feed, ready, wireVars, guestVars, failed>>

-----------------------------------------------------------------------------
(* The guest.                                                               *)
HasEof(c) == \E i \in DOMAIN got[c] : got[c][i] = Eof

Starts(c) ==
    /\ runs' = [runs EXCEPT ![c] = @ + 1]
    /\ command' = [command EXCEPT ![c] = IF Kind(c) = "plain" THEN @ ELSE "running"]

Serve(c) ==
    /\ request[c] = "sent"
    /\ request' = [request EXCEPT ![c] = "served"]
    /\ Starts(c)
    /\ events' = [events EXCEPT ![c] = IF Kind(c) = "stdin" THEN <<"ready">> ELSE @]
    /\ UNCHANGED <<session, hostVars, input, cancel, strays, got, failed, spent>>

Refuse(c) ==
    /\ request[c] = "sent" /\ Spend("refusals")
    /\ request' = [request EXCEPT ![c] = "refused"]
    /\ UNCHANGED <<session, hostVars, input, cancel, events, strays, guestVars, failed>>

Answer(c) ==
    /\ request[c] = "served" /\ Kind(c) = "plain"
    /\ request' = [request EXCEPT ![c] = "answered"]
    /\ UNCHANGED <<session, hostVars, input, cancel, events, strays, guestVars, failed, spent>>

\* The last event of a response that is still there.
EndWith(c, event) ==
    /\ events' = [events EXCEPT ![c] = IF request[c] = "served" THEN Append(@, event) ELSE @]
    /\ request' = [request EXCEPT ![c] = IF @ = "served" THEN "answered" ELSE @]

CommandExits(c) ==
    /\ command[c] = "running"
    /\ Kind(c) = "stdin" /\ session.filter => HasEof(c)
    /\ command' = [command EXCEPT ![c] = "exited"]
    /\ EndWith(c, "exit")
    /\ UNCHANGED <<session, hostVars, input, cancel, strays, got, runs, failed, spent>>

\* An overdue command: its response ends with an exit code of -1. The command of a
\* stream without input is not killed.
GuestTimeout(c) ==
    /\ command[c] = "running" /\ request[c] = "served" /\ Spend("timeouts")
    /\ command' = [command EXCEPT ![c] = IF Kind(c) = "stdin" THEN "killed" ELSE @]
    /\ EndWith(c, "exit")
    /\ UNCHANGED <<session, hostVars, input, cancel, strays, got, runs, failed>>

\* The agent ends with the response half sent.
EndsEarly(c) ==
    /\ command[c] = "running" /\ request[c] = "served" /\ Spend("refusals")
    /\ command' = [command EXCEPT ![c] = "killed"]
    /\ request' = [request EXCEPT ![c] = "answered"]
    /\ UNCHANGED <<session, hostVars, input, cancel, events, strays, got, runs, failed>>

\* The response has no reader any more: the execution is killed.
Disconnected(c) ==
    /\ Kind(c) = "stdin" /\ command[c] = "running" /\ request[c] = "dropped"
    /\ command' = [command EXCEPT ![c] = "killed"]
    /\ UNCHANGED <<session, hostVars, wireVars, got, runs, failed, spent>>

Takes(c) == command[c] = "running" /\ ~HasEof(c)

ServeInput(c) ==
    /\ input[c] = "sent" /\ Takes(c)
    /\ got' = [got EXCEPT ![c] = Append(@, Carries(c))]
    /\ input' = [input EXCEPT ![c] = IF Carries(c) = Eof THEN "closed" ELSE "more"]
    /\ UNCHANGED <<session, hostVars, cancel, request, events, strays, command, runs,
                   failed, spent>>

\* The command is over, or has closed its input.
InputClosed(c) ==
    /\ input[c] = "sent"
    /\ ~Takes(c) \/ ~session.filter
    /\ input' = [input EXCEPT ![c] = "closed"]
    /\ UNCHANGED <<session, hostVars, cancel, request, events, strays, guestVars, failed, spent>>

ServeCancel(c) ==
    /\ cancel[c] = "sent"
    /\ cancel' = [cancel EXCEPT ![c] = IF command[c] = "running" THEN "done" ELSE "unknown"]
    /\ command' = [command EXCEPT ![c] = IF @ = "running" THEN "killed" ELSE @]
    /\ UNCHANGED <<session, hostVars, input, request, events, strays, got, runs, failed, spent>>

\* A request that nobody waits for any more.
CarriedOut(c, stray) ==
    CASE stray.what = "run" -> Starts(c) /\ UNCHANGED got
      [] stray.what = "cancel" ->
           /\ command' = [command EXCEPT ![c] = IF @ = "running" THEN "killed" ELSE @]
           /\ UNCHANGED <<got, runs>>
      [] stray.what = "input" ->
           /\ got' = [got EXCEPT ![c] = IF Takes(c) THEN Append(@, stray.part) ELSE @]
           /\ UNCHANGED <<command, runs>>

ServeStray(c) ==
    /\ \E i \in DOMAIN strays[c] :
        /\ CarriedOut(c, strays[c][i])
        /\ strays' = [strays EXCEPT ![c] = SubSeq(@, 1, i - 1) \o SubSeq(@, i + 1, Len(@))]
    /\ UNCHANGED <<session, hostVars, input, cancel, request, events, failed, spent>>

-----------------------------------------------------------------------------
Host(c) ==
    \/ LockTooLate(c) \/ SendPlain(c) \/ SendStream(c) \/ StartTasks(c) \/ StartOutput(c)
    \/ Answered(c) \/ Resend(c) \/ ReadEvent(c) \/ StreamEnds(c) \/ StreamReturns(c)
    \/ FeedReady(c) \/ TakeChunk(c) \/ SourceRaises(c) \/ Acknowledged(c)
    \/ InputRaises(c) \/ InputDone(c) \/ TakeResult(c) \/ CancelAnswered(c) \/ Gather(c)
Guest(c) ==
    \/ Serve(c) \/ Answer(c) \/ CommandExits(c) \/ Disconnected(c)
    \/ ServeInput(c) \/ InputClosed(c) \/ ServeCancel(c)
Environment(c) ==
    \/ Retry(c) \/ StreamFails(c) \/ InputFails(c) \/ CancelFails(c)
    \/ Cut(c) \/ CutTasks(c) \/ CutCancel(c)
    \/ Refuse(c) \/ GuestTimeout(c) \/ EndsEarly(c) \/ ServeStray(c)

Next ==
    \/ \E c \in Calls : Begin(c) \/ Host(c) \/ Guest(c) \/ Deadline(c) \/ Environment(c)
    \/ Boot \/ Attempt \/ Authenticated \/ NotYet \/ ConnectTimeout \/ Close

\* The event loop goes on, the guest serves what reaches it, and time passes
\* for a call that waits.
Spec ==
    /\ Init /\ [][Next]_vars
    /\ WF_vars(Attempt) /\ WF_vars(Authenticated \/ NotYet) /\ SF_vars(ConnectTimeout)
    /\ \A c \in Calls : WF_vars(Host(c)) /\ WF_vars(Guest(c)) /\ WF_vars(Deadline(c))

-----------------------------------------------------------------------------
\* The bytes a command reads are those of the source, each once and in order,
\* and the end of its input comes after all of them, whatever is lost, given
\* up or carried out late (_send_control_request: no retry); and a call reports
\* success only if no part of its input failed to reach the agent while the
\* command ran.
InputOnce ==
    \A c \in Calls :
        /\ \A i \in DOMAIN got[c] : got[c][i] = IF i > session.chunks THEN Eof ELSE i
        /\ call[c].result = "result" => c \notin failed

\* A command runs again only after an attempt that ended without an answer,
\* and one with a stream never does (_retry_on_transient_error).
RunsAreAccounted ==
    \A c \in Calls :
        runs[c] <= 1 + IF Kind(c) = "plain" THEN call[c].tries ELSE 0

\* When a call with input has returned, its command is not running, unless
\* the guest answered the cancellation before it got the command, or the
\* cancellation failed.  A deadline, an error of the source, and a cancelled
\* caller included.
OverMeansGone ==
    \A c \in Calls :
        (Kind(c) = "stdin" /\ call[c].at = "over" /\ command[c] = "running") =>
            cancel[c] \in {"unknown", "failed"}

\* The guest runs commands for calls that are being made: not more often than
\* they were sent without an answer, and not on after a call that must end them.
CommandsFollowCalls == RunsAreAccounted /\ OverMeansGone

\* connect() ends, and so does every call, with the lock held for the whole
\* of a stream, a source that may give nothing more and a client that is
\* closed meanwhile.
CallsEnd ==
    /\ <>(link \notin {"pause", "asking"})
    /\ \A c \in Calls : (call[c].at # "idle") ~> (call[c].at = "over")
=============================================================================
