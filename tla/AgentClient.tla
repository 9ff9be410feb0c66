----------------------------- MODULE AgentClient -----------------------------
(***************************************************************************)
(* The host's connection to the guest agent over virtio-serial             *)
(* (host/virtio_serial_agent_client.py) and the agent's end of it          *)
(* (serve_virtio_serial in quicksand-guest-agent/src/main.rs).             *)
(*                                                                         *)
(* The host dials the chardev socket while the guest is still booting and  *)
(* sends authenticate frames until one is answered, drains the answers to  *)
(* the earlier ones, restarts its request ids and leaves the reading to a  *)
(* task that routes every frame to the call registered under its id.  The  *)
(* agent reads one frame at a time, answers from concurrent tasks, and its *)
(* writer merges their two output channels into the wire.                  *)
(*                                                                         *)
(* The asyncio side changes state only between two awaits: an action of    *)
(* the host is the code from one await to the next.  A frame is a record;  *)
(* its fields `of` and `n` are history, which no code reads: the request   *)
(* it answers and its place among the frames of that request.              *)
(*                                                                         *)
(* A definition named Action_Slip is Action with a slip a programmer could *)
(* make; the specification does not use it.                                *)
(***************************************************************************)
EXTENDS Naturals, Sequences, FiniteSets

CONSTANTS
    Calls,          \* one-shot requests (send_request)
    StdinStreams,   \* execute_stream requests with a stdin_id
    LegacyStreams,  \* execute_stream requests without
    NoCaller,       \* model value: not a request
    PromptAgent,    \* the agent answers within the 0.5 s of a drain read, and
                    \* notices a lost connection in the 0.1 s before a redial
    MaxAuths,       \* bound: authenticate frames sent
    MaxDrops,       \* bound: times the chardev connection is lost
    MaxCrashes,     \* bound: times the agent dies and is restarted
    MaxData,        \* bound: output frames of one stream
    StreamRoom,     \* mpsc::channel(64) of stdin streams' frames
    HighWater,      \* frames the host may buffer before drain() waits
    Cancelling      \* bound: requests whose calling task may be cancelled

Streams == StdinStreams \cup LegacyStreams
Callers == Calls \cup Streams

ASSUME ClientAssumption ==
    /\ NoCaller \notin Callers
    /\ Calls \cap Streams = {} /\ StdinStreams \cap LegacyStreams = {}
    /\ PromptAgent \in BOOLEAN
    /\ MaxAuths \in Nat /\ MaxDrops \in Nat /\ MaxCrashes \in Nat
    /\ MaxData \in Nat
    /\ StreamRoom \in Nat \ {0} /\ HighWater \in Nat
    /\ Cancelling \subseteq Callers

VARIABLES
    \* the host
    stage,       \* progress of connect(), then of the reader task
    nextId,      \* _request_id
    owed,        \* auth_writes_pending
    drained,     \* stale answers drained so far
    registered,  \* the requests in _pending and _pending_streams
    reqId,       \* the id each request was registered under
    lock,        \* _writer_lock: the request that holds it
    call,        \* how far each request's coroutine is
    inbox,       \* its future's frame, or its queue
    received,    \* history: the frames it has taken
    \* the wires
    link,        \* the chardev connection
    toGuest, toHost,
    drops,
    \* the agent
    agent,       \* the agent process
    authed,      \* serve_virtio_serial's `authenticated`
    work,        \* the task serving each request
    emitted,     \* frames that task has produced
    outbox,      \* unbounded channel to the writer task
    streamBox,   \* bounded channel to the writer task
    crashes

hostVars  == <<stage, nextId, owed, drained, registered, reqId, lock, call, inbox, received>>
authVars  == <<nextId, owed, drained>>
callVars  == <<registered, reqId, lock, call, inbox, received>>
wireVars  == <<link, toGuest, toHost, drops>>
guestVars == <<agent, authed, work, emitted, outbox, streamBox, crashes>>
vars == <<hostVars, wireVars, guestVars>>

InFlight == {"queued", "writing", "waiting"}
Ended == {"answered", "refused", "failed", "abandoned"}

Frame(i, kind, c, k) == [id |-> i, kind |-> kind, of |-> c, n |-> k]
Lost(c) == Frame(reqId[c], "lost", c, 0)

\* What a request reports of the frame that ends it.
Verdict(frame) ==
    CASE frame.kind = "error" -> "refused"
      [] frame.kind = "lost"  -> "failed"
      [] OTHER                -> "answered"

Init ==
    /\ stage = "dialing" /\ nextId = 0 /\ owed = 0 /\ drained = 0
    /\ registered = {} /\ reqId = [c \in Callers |-> 0] /\ lock = NoCaller
    /\ call = [c \in Callers |-> "idle"]
    /\ inbox = [c \in Callers |-> <<>>] /\ received = [c \in Callers |-> <<>>]
    /\ link = "down" /\ toGuest = <<>> /\ toHost = <<>> /\ drops = 0
    /\ agent = "booting" /\ authed = FALSE
    /\ work = [c \in Callers |-> "none"] /\ emitted = [c \in Callers |-> 0]
    /\ outbox = <<>> /\ streamBox = <<>> /\ crashes = 0

-----------------------------------------------------------------------------
(* connect() *)

\* A failed dial is retried after 0.1 s and changes nothing.
Dial ==
    /\ stage = "dialing"
    /\ PromptAgent => agent = "booting"
    /\ stage' = "authing" /\ link' = "up"
    /\ UNCHANGED <<authVars, callVars, toGuest, toHost, drops, guestVars>>

WriteAuth ==
    /\ stage = "authing" /\ link = "up" /\ nextId < MaxAuths
    /\ stage' = "authwait" /\ nextId' = nextId + 1 /\ owed' = owed + 1
    /\ toGuest' = Append(toGuest, Frame(nextId + 1, "auth", NoCaller, 0))
    /\ UNCHANGED <<drained, callVars, link, toHost, drops, guestVars>>

\* The guest has not opened the device: keep the connection and try again.
AuthTimesOut ==
    /\ stage = "authwait" /\ toHost = <<>>
    /\ stage' = "authing"
    /\ UNCHANGED <<authVars, callVars, wireVars, guestVars>>

AuthAnswered ==
    /\ stage = "authwait" /\ toHost # <<>>
    /\ stage' = "draining" /\ owed' = owed - 1 /\ drained' = 0
    /\ toHost' = Tail(toHost)
    /\ UNCHANGED <<nextId, callVars, link, toGuest, drops, guestVars>>

\* The agent has an authenticate frame, or its answer, still to deal with.
AuthUnderWay ==
    \/ \E i \in DOMAIN toGuest : toGuest[i].kind = "auth"
    \/ \E i \in DOMAIN outbox : outbox[i].kind = "auth"

DrainOne ==
    /\ stage = "draining" /\ drained < owed /\ toHost # <<>>
    /\ drained' = drained + 1 /\ toHost' = Tail(toHost)
    /\ UNCHANGED <<stage, nextId, owed, callVars, link, toGuest, drops, guestVars>>

\* "Reset request ID so future requests start fresh", then start _read_loop.
StartReader ==
    /\ stage' = "connected" /\ nextId' = 0
    /\ UNCHANGED <<owed, drained, callVars, wireVars, guestVars>>

DrainEnds ==
    /\ stage = "draining" /\ drained >= owed
    /\ StartReader
\* An answer the agent still owes may take longer than the drain waits, unless
\* PromptAgent.
DrainTimesOut ==
    /\ stage = "draining" /\ drained < owed /\ toHost = <<>>
    /\ PromptAgent => ~AuthUnderWay
    /\ StartReader

\* A hard error: close the transport, forget the unanswered frames, redial.
ConnectBreaks ==
    /\ link = "down"
    /\ \/ stage = "authing"
       \/ stage = "authwait" /\ toHost = <<>>
       \/ stage = "draining" /\ drained < owed /\ toHost = <<>>
    /\ stage' = "dialing" /\ owed' = 0 /\ toHost' = <<>>
    /\ UNCHANGED <<nextId, drained, callVars, link, toGuest, drops, guestVars>>

GiveUp ==
    /\ stage \in {"dialing", "authing"}
    /\ stage' = "gaveUp"
    /\ UNCHANGED <<authVars, callVars, wireVars, guestVars>>

-----------------------------------------------------------------------------
(* send_request() and send_stream_request() *)

\* The coroutine returns: its `finally` unregisters it and frees the lock.
EndCall(c, how) ==
    /\ call' = [call EXCEPT ![c] = how]
    /\ registered' = registered \ {c}
    /\ lock' = IF lock = c THEN NoCaller ELSE lock

NotConnected(c) ==
    /\ stage = "closed" /\ call[c] = "idle"
    /\ call' = [call EXCEPT ![c] = "failed"]
    /\ UNCHANGED <<stage, authVars, registered, reqId, lock, inbox, received,
                   wireVars, guestVars>>

\* A lost connection is not noticed here: _reader_task stays set.
Register(c) ==
    /\ stage \in {"connected", "lost"} /\ call[c] = "idle"
    /\ nextId' = nextId + 1
    /\ reqId' = [reqId EXCEPT ![c] = nextId']
    /\ registered' = registered \cup {c}
    /\ call' = [call EXCEPT ![c] = "queued"]
    /\ UNCHANGED <<stage, owed, drained, lock, inbox, received, wireVars, guestVars>>

Write(c) ==
    /\ call[c] = "queued" /\ lock = NoCaller
    /\ lock' = c
    /\ call' = [call EXCEPT ![c] = "writing"]
    /\ toGuest' = IF link = "up"
                  THEN Append(toGuest, Frame(reqId[c], "request", c, 0))
                  ELSE toGuest
    /\ UNCHANGED <<stage, authVars, registered, reqId, inbox, received,
                   link, toHost, drops, guestVars>>

WriteFails(c) ==
    /\ call[c] = "writing" /\ link = "down"
    /\ EndCall(c, "failed")
    /\ UNCHANGED <<stage, authVars, reqId, inbox, received, wireVars, guestVars>>

Drained(c) ==
    /\ call[c] = "writing" /\ Len(toGuest) <= HighWater
    /\ lock' = NoCaller
    /\ call' = [call EXCEPT ![c] = "waiting"]
    /\ UNCHANGED <<stage, authVars, registered, reqId, inbox, received,
                   wireVars, guestVars>>

\* Take the oldest frame out of the future or the queue.
Take(c) ==
    /\ call[c] = "waiting" /\ inbox[c] # <<>>
    /\ inbox' = [inbox EXCEPT ![c] = Tail(@)]
    /\ received' = [received EXCEPT ![c] = Append(@, Head(inbox[c]))]
    /\ UNCHANGED <<stage, authVars, reqId, wireVars, guestVars>>

Return(c) ==
    /\ Take(c)
    /\ c \in Calls \/ Head(inbox[c]).kind \in {"exit", "error", "lost"}
    /\ EndCall(c, Verdict(Head(inbox[c])))

TakeOutput(c) ==
    /\ Take(c)
    /\ c \in Streams /\ Head(inbox[c]).kind \notin {"exit", "error", "lost"}
    /\ UNCHANGED <<registered, call, lock>>

\* A one-shot request times out only while it waits for its future; a stream
\* request also while it waits for the lock or for drain().
TimesOut_OnlyStreams(c) ==
    /\ c \in Streams /\ call[c] \in InFlight
    /\ EndCall(c, "abandoned")
    /\ UNCHANGED <<stage, authVars, reqId, inbox, received, wireVars, guestVars>>
TimesOut(c) ==
    /\ \/ c \in Calls /\ call[c] = "waiting" /\ inbox[c] = <<>>
       \/ c \in Streams /\ call[c] \in InFlight
    /\ EndCall(c, "abandoned")
    /\ UNCHANGED <<stage, authVars, reqId, inbox, received, wireVars, guestVars>>

CallerCancelled(c) ==
    /\ c \in Cancelling /\ call[c] \in InFlight
    /\ EndCall(c, "abandoned")
    /\ UNCHANGED <<stage, authVars, reqId, inbox, received, wireVars, guestVars>>

-----------------------------------------------------------------------------
(* _read_loop() and close() *)

Waiters_AnyCall(frame) == {c \in registered : reqId[c] >= frame.id}
Waiters(frame) == {c \in registered : reqId[c] = frame.id}

\* A future is unregistered with its frame; a queue stays registered.
ReadFrame ==
    /\ stage = "connected" /\ toHost # <<>>
    /\ toHost' = Tail(toHost)
    /\ LET for == Waiters(Head(toHost)) IN
       /\ inbox' = [c \in Callers |-> IF c \in for THEN Append(inbox[c], Head(toHost))
                                                  ELSE inbox[c]]
       /\ registered' = registered \ (for \cap Calls)
    /\ UNCHANGED <<stage, authVars, reqId, lock, call, received,
                   link, toGuest, drops, guestVars>>

FailPending_OnlyCalls ==
    /\ inbox' = [c \in Callers |-> IF c \in registered \cap Calls
                                  THEN Append(inbox[c], Lost(c)) ELSE inbox[c]]
    /\ registered' = {}
FailPending ==
    /\ inbox' = [c \in Callers |-> IF c \in registered THEN Append(inbox[c], Lost(c))
                                                      ELSE inbox[c]]
    /\ registered' = {}
ReaderEnds ==
    /\ stage = "connected" /\ link = "down" /\ toHost = <<>>
    /\ stage' = "lost"
    /\ FailPending
    /\ UNCHANGED <<authVars, reqId, lock, call, received, wireVars, guestVars>>

\* After the loss of the connection there is no reader left to fail anything.
Close ==
    /\ stage \in {"connected", "lost"}
    /\ stage' = "closed" /\ link' = "down" /\ toGuest' = <<>> /\ toHost' = <<>>
    /\ \/ stage = "connected" /\ FailPending
       \/ stage = "lost" /\ UNCHANGED <<inbox, registered>>
    /\ UNCHANGED <<authVars, reqId, lock, call, received, drops, guestVars>>

-----------------------------------------------------------------------------
(* The connection, and the agent's process *)

\* What the host has not written out is lost, and what it has received stays
\* readable: some prefix of the answers under way.
Drop ==
    /\ link = "up" /\ drops < MaxDrops
    /\ link' = "down" /\ drops' = drops + 1 /\ toGuest' = <<>>
    /\ \E k \in 0..Len(toHost) : toHost' = SubSeq(toHost, 1, k)
    /\ UNCHANGED <<hostVars, guestVars>>

\* Until the host has dialed, the agent reads an end of file, exits and is
\* restarted by its service.
OpenDevice ==
    /\ agent = "booting" /\ link = "up"
    /\ agent' = "serving"
    /\ UNCHANGED <<hostVars, wireVars, authed, work, emitted, outbox, streamBox, crashes>>

\* The process ends; its service starts another, which knows no session.
AgentExits ==
    /\ agent' = "booting" /\ authed' = FALSE
    /\ work' = [c \in Callers |-> IF work[c] = "running" THEN "lost" ELSE work[c]]
    /\ outbox' = <<>> /\ streamBox' = <<>>
    /\ UNCHANGED <<hostVars, wireVars, emitted>>

AgentSeesEof ==
    /\ agent = "serving" /\ link = "down"
    /\ AgentExits
    /\ UNCHANGED crashes

AgentCrashes ==
    /\ agent = "serving" /\ crashes < MaxCrashes
    /\ crashes' = crashes + 1
    /\ AgentExits

-----------------------------------------------------------------------------
(* serve_virtio_serial() *)

\* The next frame of a request's answer.
Emit_EitherChannel(c, kind) ==
    /\ emitted' = [emitted EXCEPT ![c] = @ + 1]
    /\ LET frame == Frame(reqId[c], kind, c, emitted[c] + 1) IN
       IF c \in StdinStreams /\ kind = "data"
       THEN /\ Len(streamBox) < StreamRoom
            /\ streamBox' = Append(streamBox, frame) /\ UNCHANGED outbox
       ELSE outbox' = Append(outbox, frame) /\ UNCHANGED streamBox
Emit(c, kind) ==
    /\ emitted' = [emitted EXCEPT ![c] = @ + 1]
    /\ LET frame == Frame(reqId[c], kind, c, emitted[c] + 1) IN
       IF c \in StdinStreams
       THEN /\ Len(streamBox) < StreamRoom
            /\ streamBox' = Append(streamBox, frame) /\ UNCHANGED outbox
       ELSE outbox' = Append(outbox, frame) /\ UNCHANGED streamBox
Reads(kind) ==
    /\ agent = "serving" /\ toGuest # <<>> /\ Head(toGuest).kind = kind
    /\ toGuest' = Tail(toGuest)
    /\ UNCHANGED <<hostVars, link, toHost, drops, agent, crashes>>

ServeAuth ==
    /\ Reads("auth")
    /\ authed' = TRUE
    /\ outbox' = Append(outbox, Frame(Head(toGuest).id, "auth", NoCaller, 0))
    /\ UNCHANGED <<work, emitted, streamBox>>

\* execute, execute_stream, stdin and cancel run on a task of their own.
ServeSpawns ==
    /\ Reads("request") /\ authed
    /\ work' = [work EXCEPT ![Head(toGuest).of] = "running"]
    /\ UNCHANGED <<authed, emitted, outbox, streamBox>>

\* Answered by the read loop itself: not authenticated, busy, unknown user or
\* method, invalid input.  A stream with stdin gets an exit frame as well.
ServeRefuses ==
    /\ Reads("request")
    /\ LET c == Head(toGuest).of
           error == Frame(reqId[c], "error", c, 1)
           exit  == Frame(reqId[c], "exit", c, 2) IN
       /\ work' = [work EXCEPT ![c] = "done"]
       /\ outbox' = outbox \o (IF c \in StdinStreams /\ authed THEN <<error, exit>>
                                                               ELSE <<error>>)
    /\ UNCHANGED <<authed, emitted, streamBox>>

\* ping, create_user and delete_user are answered by the read loop too; to the
\* host they are a task that ends at once.
TaskAnswers(c) ==
    /\ work[c] = "running" /\ c \in Calls
    /\ Emit(c, "result")
    /\ work' = [work EXCEPT ![c] = "done"]
    /\ UNCHANGED <<hostVars, wireVars, agent, authed, crashes>>

TaskOutputs(c) ==
    /\ work[c] = "running" /\ c \in Streams /\ emitted[c] < MaxData
    /\ Emit(c, "data")
    /\ UNCHANGED <<hostVars, wireVars, agent, authed, work, crashes>>

TaskExits(c) ==
    /\ work[c] = "running" /\ c \in Streams
    /\ Emit(c, "exit")
    /\ work' = [work EXCEPT ![c] = "done"]
    /\ UNCHANGED <<hostVars, wireVars, agent, authed, crashes>>

WriterSends ==
    /\ agent = "serving" /\ link = "up"
    /\ \/ /\ outbox # <<>>
          /\ outbox' = Tail(outbox) /\ toHost' = Append(toHost, Head(outbox))
          /\ UNCHANGED streamBox
       \/ /\ streamBox # <<>>
          /\ streamBox' = Tail(streamBox) /\ toHost' = Append(toHost, Head(streamBox))
          /\ UNCHANGED outbox
    /\ UNCHANGED <<hostVars, link, toGuest, drops, agent, authed, work, emitted, crashes>>

-----------------------------------------------------------------------------
Connect == Dial \/ WriteAuth \/ AuthTimesOut \/ AuthAnswered \/ DrainOne
           \/ DrainEnds \/ DrainTimesOut \/ ConnectBreaks \/ GiveUp
Request(c) == NotConnected(c) \/ Register(c) \/ Write(c) \/ WriteFails(c)
              \/ Drained(c) \/ Return(c) \/ TakeOutput(c) \/ TimesOut(c)
Reader == ReadFrame \/ ReaderEnds
Serve == OpenDevice \/ AgentSeesEof \/ ServeAuth \/ ServeSpawns \/ ServeRefuses
         \/ WriterSends
Task(c) == TaskAnswers(c) \/ TaskOutputs(c) \/ TaskExits(c)

Next ==
    \/ Connect \/ Reader \/ Close \/ Serve \/ Drop \/ AgentCrashes
    \/ \E c \in Callers : Request(c) \/ CallerCancelled(c) \/ Task(c)

Spec == Init /\ [][Next]_vars

\* The event loop runs every task that can run, its timers fire, asyncio.Lock
\* serves its waiters in order, and a serving agent keeps reading and writing.
\* Nothing obliges a connection to break, a caller to be cancelled, a command
\* to end or the client to be closed.
Fairness ==
    /\ WF_vars(Connect) /\ WF_vars(Reader) /\ WF_vars(Serve)
    /\ \A c \in Callers :
          /\ SF_vars(Write(c))
          /\ WF_vars(WriteFails(c) \/ Drained(c) \/ Return(c) \/ TakeOutput(c)
                     \/ TimesOut(c))

FairSpec == Spec /\ Fairness

-----------------------------------------------------------------------------
FrameKinds == {"auth", "request", "result", "error", "data", "exit", "lost"}
IsFrame(frame) ==
    /\ frame.id \in Nat /\ frame.n \in Nat
    /\ frame.kind \in FrameKinds /\ frame.of \in Callers \cup {NoCaller}
AreFrames(seq) == \A i \in DOMAIN seq : IsFrame(seq[i])

\* Every variable keeps its type, and only a request whose frame is in the
\* transport's buffer holds the writer lock.
TypeOK ==
    /\ stage \in {"dialing", "authing", "authwait", "draining", "connected",
                  "lost", "gaveUp", "closed"}
    /\ nextId \in Nat /\ owed \in Nat /\ drained \in Nat
    /\ registered \subseteq Callers /\ reqId \in [Callers -> Nat]
    /\ call \in [Callers -> {"idle"} \cup InFlight \cup Ended]
    /\ lock \in Callers \cup {NoCaller}
    /\ \A c \in Callers : lock = c <=> call[c] = "writing"
    /\ \A c \in Callers : AreFrames(inbox[c]) /\ AreFrames(received[c])
    /\ link \in {"up", "down"} /\ drops \in 0..MaxDrops
    /\ AreFrames(toGuest) /\ AreFrames(toHost)
    /\ agent \in {"booting", "serving"} /\ authed \in BOOLEAN
    /\ crashes \in 0..MaxCrashes
    /\ work \in [Callers -> {"none", "running", "done", "lost"}]
    /\ emitted \in [Callers -> Nat]
    /\ AreFrames(outbox) /\ AreFrames(streamBox)

\* Concurrent calls, late answers to calls that timed out and answers to the
\* authentication attempts never reach another call: what a request returns,
\* or streams to its callbacks, answers that request.
AnswersMatch ==
    \A c \in Callers : \A i \in DOMAIN received[c] : received[c][i].of = c

\* A request in flight that has received nothing yet is registered, so that an
\* answer or the loss of the connection reaches it; one that is over is not.
WaitersAreRegistered ==
    \A c \in Callers :
        /\ call[c] \in InFlight /\ inbox[c] = <<>> => c \in registered
        /\ call[c] \notin InFlight => c \notin registered

\* A stream's callbacks see its output in the order the command produced it,
\* without a gap, and its result comes after the last of it, although the
\* agent's writer merges two channels.
StreamInOrder ==
    \A c \in Streams :
        /\ \A i \in DOMAIN received[c] :
               received[c][i].kind # "lost" => received[c][i].n = i
        /\ call[c] = "answered" => Len(received[c]) = emitted[c]

\* Every request ends, whether its answer is late, lost or never sent, and
\* whichever other request is timed out or cancelled while it has the lock.
RequestsEnd ==
    \A c \in Callers : call[c] \in InFlight ~> call[c] \in Ended
=============================================================================
