--------------------------- MODULE StdinExecution ---------------------------
(***************************************************************************)
(* The guest agent's registry of streaming executions with stdin           *)
(* (quicksand-guest-agent/src/stdin_execution.rs).  An execution is        *)
(* started under a caller-chosen id, fed by control requests (submit),     *)
(* stopped by control requests (cancel), by its deadline, by the           *)
(* disconnection of its output consumer or by the command itself, and is   *)
(* then torn down: process group killed, child reaped, id freed,           *)
(* exclusivity released, waiters told.                                     *)
(*                                                                         *)
(* One element of Execs is one call of start() that was admitted; one      *)
(* element of Submits (Cancels) is one stdin (cancel) request.  A step is  *)
(* the code between two points where another thread of the agent may       *)
(* observe or change the shared state: a lock, an atomic, a watch channel, *)
(* a bounded channel or an await.                                          *)
(***************************************************************************)
EXTENDS Naturals, Sequences, FiniteSets

CONSTANTS
    Ids,              \* stdin_id values
    Execs,            \* admitted calls of start()
    Submits,          \* stdin requests
    EofSubmits,       \* ... of which these carry eof: true instead of data
    Abandoning,       \* bound: ... and these may be abandoned by their caller
    Cancels,          \* cancel requests
    NoExec, NoCall,   \* model values: no execution, no request
    OutputCapacity,   \* mpsc::channel(16): events the consumer has not taken
    MaxChunks,        \* bound: output chunks one command produces
    Exclusives,       \* bound: executions that may ask for exclusivity
    Legacy,           \* bound: commands without stdin are issued as well
    Forking,          \* bound: executions whose command leaves descendants
    Leaving,          \* bound: executions whose output consumer may leave
    GroupKills        \* outcomes of kill(-pgid): {TRUE} or {TRUE, FALSE}

ASSUME ConstantsAssumption ==
    /\ NoExec \notin Execs
    /\ NoCall \notin Submits
    /\ EofSubmits \subseteq Submits /\ Abandoning \subseteq Submits
    /\ OutputCapacity \in Nat \ {0}
    /\ MaxChunks \in Nat
    /\ Exclusives \subseteq Execs /\ Legacy \in BOOLEAN
    /\ Forking \subseteq Execs /\ Leaving \subseteq Execs
    /\ GroupKills \subseteq BOOLEAN /\ TRUE \in GroupKills

VARIABLES
    entries,    \* StdinExecutions.entries: which execution an id names
    busy,       \* AppState.exclusive_busy
    legacy,     \* a command without stdin holds exclusive_busy
    \* per execution
    stage,      \* how far its run() task is
    id,         \* the id it was started under
    exclusive,  \* request.exclusive
    guard,      \* its registration owns an ExclusiveGuard
    closed,     \* Control.input_closed
    cancelled,  \* Control.cancel
    done,       \* Control.done
    child,      \* the spawned shell
    kin,        \* some other process of its process group is alive
    armed,      \* ProcessGroup.armed
    writer,     \* the write_input future, owner of the input receiver
    queue,      \* the request in the input channel (capacity 1)
    writing,    \* the request write_input is writing
    accepted,   \* history: requests the channel took, in order
    written,    \* history: requests written to the child whole, in order
    drained,    \* both output pipes were read to their end
    outcome,    \* Outcome of run()
    sent,       \* history: events put into the output channel
    taken,      \* how many of them the consumer has received
    attached,   \* the output receiver exists
    \* per stdin request
    sub, subExec, answer,
    \* per cancel request
    can, canExec, credited,
    \* cancel_all: the executions it waits for
    awaited, stopping

registryVars == <<entries, busy, legacy>>
taskVars     == <<stage, id, exclusive, guard, cancelled, done, outcome>>
processVars  == <<child, kin, armed>>
inputVars    == <<closed, writer, queue, writing, accepted, written>>
outputVars   == <<drained, sent, taken, attached>>
submitVars   == <<sub, subExec, answer>>
cancelVars   == <<can, canExec, credited, awaited, stopping>>
vars == <<registryVars, taskVars, processVars, inputVars, outputVars,
          submitVars, cancelVars>>

Stages == {"new", "spawned", "starting", "driving", "killing", "reaping",
           "closing", "removing", "releasing", "signalling", "reporting",
           "exiting", "finished"}
Events == {"ready", "chunk", "error", "exit"}

TypeOK ==
    /\ entries \in [Ids -> Execs \cup {NoExec}]
    /\ busy \in BOOLEAN /\ legacy \in BOOLEAN
    /\ stage \in [Execs -> Stages]
    /\ id \in [Execs -> Ids]
    /\ exclusive \in [Execs -> BOOLEAN] /\ guard \in [Execs -> BOOLEAN]
    /\ closed \in [Execs -> BOOLEAN]
    /\ cancelled \in [Execs -> BOOLEAN] /\ done \in [Execs -> BOOLEAN]
    /\ child \in [Execs -> {"none", "running", "zombie", "dying", "reaped"}]
    /\ kin \in [Execs -> BOOLEAN] /\ armed \in [Execs -> BOOLEAN]
    /\ writer \in [Execs -> {"receiving", "writing", "ending", "failing",
                          "gone"}]
    /\ queue \in [Execs -> Submits \cup {NoCall}]
    /\ writing \in [Execs -> Submits \cup {NoCall}]
    /\ accepted \in [Execs -> Seq(Submits)]
    /\ written \in [Execs -> Seq(Submits)]
    /\ drained \in [Execs -> BOOLEAN]
    /\ outcome \in [Execs -> {"none", "exit", "failed", "disconnected"}]
    /\ sent \in [Execs -> Seq(Events)]
    /\ taken \in [Execs -> Nat] /\ attached \in [Execs -> BOOLEAN]
    /\ sub \in [Submits ->
            {"new", "found", "sending", "waiting", "abandoned", "answered"}]
    /\ subExec \in [Submits -> Execs \cup {NoExec}]
    /\ answer \in [Submits ->
            {"none", "open", "closed", "failed", "conflict"}]
    /\ can \in [Cancels -> {"new", "found", "marking", "waiting", "answered"}]
    /\ canExec \in [Cancels -> Execs \cup {NoExec}]
    /\ credited \in [Cancels -> BOOLEAN]
    /\ awaited \in SUBSET Execs /\ stopping \in BOOLEAN

Init ==
    /\ entries = [i \in Ids |-> NoExec]
    /\ busy = FALSE /\ legacy = FALSE
    /\ stage = [e \in Execs |-> "new"]
    /\ id \in [Execs -> Ids]
    /\ exclusive \in {x \in [Execs -> BOOLEAN] : \A e \in Execs : x[e] => e \in Exclusives}
    /\ guard = [e \in Execs |-> FALSE]
    /\ closed = [e \in Execs |-> FALSE]
    /\ cancelled = [e \in Execs |-> FALSE] /\ done = [e \in Execs |-> FALSE]
    /\ child = [e \in Execs |-> "none"]
    /\ kin = [e \in Execs |-> FALSE] /\ armed = [e \in Execs |-> FALSE]
    /\ writer = [e \in Execs |-> "receiving"]
    /\ queue = [e \in Execs |-> NoCall] /\ writing = [e \in Execs |-> NoCall]
    /\ accepted = [e \in Execs |-> <<>>] /\ written = [e \in Execs |-> <<>>]
    /\ drained = [e \in Execs |-> FALSE]
    /\ outcome = [e \in Execs |-> "none"]
    /\ sent = [e \in Execs |-> <<>>] /\ taken = [e \in Execs |-> 0]
    /\ attached = [e \in Execs |-> TRUE]
    /\ sub = [c \in Submits |-> "new"]
    /\ subExec = [c \in Submits |-> NoExec]
    /\ answer = [c \in Submits |-> "none"]
    /\ can = [k \in Cancels |-> "new"]
    /\ canExec = [k \in Cancels |-> NoExec]
    /\ credited = [k \in Cancels |-> FALSE]
    /\ awaited = {} /\ stopping = FALSE

----------------------------------------------------------------------------
(* Helpers.  An operator named Action_Slip is Action with a slip a programmer *)
(* could make there: it takes part in no behaviour, and stands here to show    *)
(* that a property notices it when it replaces Action.                         *)

Unreaped(e) == child[e] \in {"running", "zombie", "dying"}
HasRoom(e) == Len(sent[e]) - taken[e] < OutputCapacity
Emit(e, event) == sent' = [sent EXCEPT ![e] = Append(@, event)]
Chunks(e) == Cardinality({n \in 1..Len(sent[e]) : sent[e][n] = "chunk"})

\* InputAck.wait of the requests in C ends with result a; a request whose
\* caller went away has nobody left to tell.
AnswerAll(C, a) ==
    /\ sub' = [c \in Submits |->
                 IF c \in C /\ sub[c] = "waiting" THEN "answered" ELSE sub[c]]
    /\ answer' = [c \in Submits |->
                 IF c \in C /\ sub[c] = "waiting" THEN a ELSE answer[c]]
    /\ UNCHANGED subExec

\* The input receiver is dropped, with the acks it and the writer held: a
\* waiter sees its sender vanish and reports the input closed.
DropInput(e) ==
    /\ writer' = [writer EXCEPT ![e] = "gone"]
    /\ queue' = [queue EXCEPT ![e] = NoCall]
    /\ writing' = [writing EXCEPT ![e] = NoCall]
    /\ AnswerAll({queue[e], writing[e]}, "closed")
    /\ UNCHANGED <<accepted, written>>

----------------------------------------------------------------------------
(* start(), and the other users of exclusive_busy *)

\* Reserve the id, claim exclusivity if asked to and spawn run().
Admit(e) ==
    /\ entries' = [entries EXCEPT ![id[e]] = e]
    /\ busy' = (busy \/ exclusive[e])
    /\ guard' = [guard EXCEPT ![e] = exclusive[e]]
    /\ stage' = [stage EXCEPT ![e] = "spawned"]
    /\ UNCHANGED <<legacy, id, exclusive, cancelled, done, outcome>>
    /\ UNCHANGED <<processVars, inputVars, outputVars, submitVars, cancelVars>>

\* Slips: no look at the registry; no look at the flag.
Start_TakesUsedId(e) == stage[e] = "new" /\ ~busy /\ Admit(e)
Start_IgnoresBusy(e) == stage[e] = "new" /\ entries[id[e]] = NoExec /\ Admit(e)

\* The id is free and nothing exclusive runs; otherwise the request is refused
\* and changes nothing.
Start(e) == stage[e] = "new" /\ entries[id[e]] = NoExec /\ ~busy /\ Admit(e)

\* An exclusive execute (or execute_stream without stdin) claims the flag.
LegacyClaim ==
    /\ Legacy /\ ~busy
    /\ busy' = TRUE /\ legacy' = TRUE
    /\ UNCHANGED <<entries, taskVars, processVars, inputVars, outputVars,
                   submitVars, cancelVars>>

LegacyRelease ==
    /\ legacy
    /\ busy' = FALSE /\ legacy' = FALSE
    /\ UNCHANGED <<entries, taskVars, processVars, inputVars, outputVars,
                   submitVars, cancelVars>>

----------------------------------------------------------------------------
(* run(): before the child *)

\* The task found a reason not to spawn, or spawn failed.
Abort(e, result) ==
    /\ stage[e] = "spawned"
    /\ outcome' = [outcome EXCEPT ![e] = result]
    /\ stage' = [stage EXCEPT ![e] = "closing"]
    /\ DropInput(e)
    /\ UNCHANGED <<registryVars, id, exclusive, guard, cancelled, done,
                   processVars, closed, outputVars, cancelVars>>

AbortDisconnected(e) == ~attached[e] /\ Abort(e, "disconnected")
AbortCancelled(e) == attached[e] /\ cancelled[e] /\ Abort(e, "failed")
SpawnFails(e) == attached[e] /\ ~cancelled[e] /\ Abort(e, "failed")

Spawn(e) ==
    /\ stage[e] = "spawned" /\ attached[e] /\ ~cancelled[e]
    /\ child' = [child EXCEPT ![e] = "running"]
    /\ armed' = [armed EXCEPT ![e] = TRUE]
    /\ stage' = [stage EXCEPT ![e] = "starting"]
    /\ UNCHANGED <<registryVars, id, exclusive, guard, cancelled, done, outcome,
                   kin, inputVars, outputVars, submitVars, cancelVars>>

----------------------------------------------------------------------------
(* The command, free to do as it likes until it is killed *)

CommandOnly == UNCHANGED <<registryVars, taskVars, armed, inputVars, outputVars,
                           submitVars, cancelVars>>
ChildForks(e) ==
    /\ e \in Forking /\ child[e] = "running" /\ ~kin[e]
    /\ kin' = [kin EXCEPT ![e] = TRUE]
    /\ UNCHANGED child /\ CommandOnly
ChildExits(e) ==
    /\ child[e] = "running"
    /\ child' = [child EXCEPT ![e] = "zombie"]
    /\ UNCHANGED kin /\ CommandOnly
KinExits(e) ==
    /\ kin[e]
    /\ kin' = [kin EXCEPT ![e] = FALSE]
    /\ UNCHANGED child /\ CommandOnly

----------------------------------------------------------------------------
(* run(): the biased select over cancellation, disconnection, the deadline *)
(* and drive()                                                             *)

\* A branch other than drive() won, or drive() failed: its future is dropped,
\* and with it the writer, whose InputClosed guard exists once it was polled.
EndDrive(e, result) ==
    /\ outcome' = [outcome EXCEPT ![e] = result]
    /\ stage' = [stage EXCEPT ![e] = "killing"]
    /\ closed' = [closed EXCEPT ![e] = @ \/ stage[e] = "driving"]
    /\ DropInput(e)
    /\ UNCHANGED <<registryVars, id, exclusive, guard, cancelled, done,
                   processVars, outputVars, cancelVars>>

Selecting(e) == stage[e] \in {"starting", "driving"}
\* Slip: a pending output event keeps run() from looking at the deadline.
DeadlineWins_AfterOutput(e) ==
    Selecting(e) /\ ~cancelled[e] /\ attached[e] /\ HasRoom(e) /\ EndDrive(e, "failed")

CancelWins(e) == Selecting(e) /\ cancelled[e] /\ EndDrive(e, "failed")
DisconnectWins(e) ==
    Selecting(e) /\ ~cancelled[e] /\ ~attached[e] /\ EndDrive(e, "disconnected")
DeadlineWins(e) ==
    Selecting(e) /\ ~cancelled[e] /\ attached[e] /\ EndDrive(e, "failed")

\* drive() tells the consumer that input is welcome before it enters its loop.
SendReady(e) ==
    /\ stage[e] = "starting" /\ HasRoom(e)
    /\ Emit(e, "ready")
    /\ stage' = [stage EXCEPT ![e] = "driving"]
    /\ UNCHANGED <<registryVars, id, exclusive, guard, cancelled, done, outcome,
                   processVars, inputVars, drained, taken, attached,
                   submitVars, cancelVars>>

\* kill_group() disarms the group when the signal was delivered.
StillArmed_Never(e, killed) == FALSE
StillArmed(e, killed) == armed[e] /\ ~killed

\* child.wait(): the shell exited.  Input is over and its descendants are
\* killed; if that fails, drive() fails.
ChildWaited(e) ==
    /\ stage[e] = "driving" /\ child[e] = "zombie"
    /\ child' = [child EXCEPT ![e] = "reaped"]
    /\ closed' = [closed EXCEPT ![e] = TRUE]
    /\ DropInput(e)
    /\ \E killed \in GroupKills :
         /\ kin' = [kin EXCEPT ![e] = @ /\ ~killed]
         /\ armed' = [armed EXCEPT ![e] = StillArmed(e, killed)]
         /\ stage' = [stage EXCEPT ![e] = IF killed THEN @ ELSE "killing"]
         /\ outcome' = [outcome EXCEPT ![e] = IF killed THEN @ ELSE "failed"]
    /\ UNCHANGED <<registryVars, id, exclusive, guard, cancelled, done,
                   outputVars, cancelVars>>

\* read_output of either pipe
ReadOnly == UNCHANGED <<registryVars, taskVars, processVars, inputVars, taken,
                        attached, submitVars, cancelVars>>
ReadChunk(e) ==
    /\ stage[e] = "driving" /\ ~drained[e] /\ HasRoom(e)
    /\ Chunks(e) < MaxChunks
    /\ Emit(e, "chunk")
    /\ UNCHANGED drained /\ ReadOnly
OutputEnds(e) ==
    /\ stage[e] = "driving" /\ ~drained[e]
    /\ drained' = [drained EXCEPT ![e] = TRUE]
    /\ UNCHANGED sent /\ ReadOnly
ReadFails(e) == stage[e] = "driving" /\ ~drained[e] /\ EndDrive(e, "failed")

DriveCompletes(e) ==
    /\ stage[e] = "driving" /\ child[e] = "reaped" /\ drained[e]
    /\ EndDrive(e, "exit")

----------------------------------------------------------------------------
(* write_input() *)

WriterOnly == UNCHANGED <<registryVars, taskVars, processVars, outputVars,
                          closed, accepted, cancelVars>>

\* recv() takes the queued request; EOF closes the child's stdin at once.
WriterGetsEof(e) ==
    /\ stage[e] = "driving" /\ writer[e] = "receiving" /\ queue[e] \in EofSubmits
    /\ queue' = [queue EXCEPT ![e] = NoCall]
    /\ writer' = [writer EXCEPT ![e] = "ending"]
    /\ AnswerAll({queue[e]}, "closed")
    /\ UNCHANGED <<writing, written>> /\ WriterOnly
WriterGetsData(e) ==
    /\ stage[e] = "driving" /\ writer[e] = "receiving"
    /\ queue[e] \in Submits \ EofSubmits
    /\ queue' = [queue EXCEPT ![e] = NoCall]
    /\ writer' = [writer EXCEPT ![e] = "writing"]
    /\ writing' = [writing EXCEPT ![e] = queue[e]]
    /\ UNCHANGED <<submitVars, written>> /\ WriterOnly

WriteSucceeds(e) ==
    /\ stage[e] = "driving" /\ writer[e] = "writing"
    /\ written' = [written EXCEPT ![e] = Append(@, writing[e])]
    /\ AnswerAll({writing[e]}, "open")
    /\ writing' = [writing EXCEPT ![e] = NoCall]
    /\ writer' = [writer EXCEPT ![e] = "receiving"]
    /\ UNCHANGED queue /\ WriterOnly

\* A failed write answers the request and ends the writer.
WriterStops(e, a, next) ==
    /\ stage[e] = "driving" /\ writer[e] = "writing"
    /\ AnswerAll({writing[e]}, a)
    /\ writing' = [writing EXCEPT ![e] = NoCall]
    /\ writer' = [writer EXCEPT ![e] = next]
    /\ UNCHANGED <<queue, written>> /\ WriterOnly

\* The command closed its stdin: what was written of the request is lost.
WriteBreaks_Hidden(e) == WriterStops(e, "open", "ending")
WriteBreaks(e) == WriterStops(e, "closed", "ending")

\* write_input returns Ok: its guard closes the input, its receiver goes.
WriterEnds(e) ==
    /\ stage[e] = "driving" /\ writer[e] = "ending"
    /\ closed' = [closed EXCEPT ![e] = TRUE]
    /\ DropInput(e)
    /\ UNCHANGED <<registryVars, taskVars, processVars, outputVars, cancelVars>>

\* Any other write error: the request is told, and drive() fails.
WriteFails(e) == WriterStops(e, "failed", "failing")
WriterErrs(e) ==
    stage[e] = "driving" /\ writer[e] = "failing" /\ EndDrive(e, "failed")

----------------------------------------------------------------------------
(* run(): after drive() *)

\* terminate_and_reap, first half.  If the group cannot be signalled, the child
\* alone is killed and the execution fails.
KillGroup(e) ==
    /\ stage[e] = "killing"
    /\ stage' = [stage EXCEPT ![e] = "reaping"]
    /\ \E killed \in IF armed[e] THEN GroupKills ELSE {TRUE} :
         /\ kin' = [kin EXCEPT ![e] = @ /\ ~(armed[e] /\ killed)]
         /\ armed' = [armed EXCEPT ![e] = StillArmed(e, killed)]
         /\ outcome' = [outcome EXCEPT ![e] = IF killed THEN @ ELSE "failed"]
    /\ child' = [child EXCEPT ![e] = IF @ = "reaped" THEN @ ELSE "dying"]
    /\ UNCHANGED <<registryVars, id, exclusive, guard, cancelled, done,
                   inputVars, outputVars, submitVars, cancelVars>>

\* Second half: wait() for the killed child.  Then ProcessGroup is dropped,
\* which signals a group that is still armed once more.
Reap(e) ==
    /\ stage[e] = "reaping"
    /\ child' = [child EXCEPT ![e] = "reaped"]
    /\ \E killed \in IF armed[e] THEN GroupKills ELSE {FALSE} :
         /\ kin' = [kin EXCEPT ![e] = @ /\ ~killed]
         /\ armed' = [armed EXCEPT ![e] = StillArmed(e, killed)]
    /\ stage' = [stage EXCEPT ![e] = "closing"]
    /\ UNCHANGED <<registryVars, id, exclusive, guard, cancelled, done, outcome,
                   inputVars, outputVars, submitVars, cancelVars>>

\* drop(registration), one effect at a time: close the input, ...
CloseInput(e) ==
    /\ stage[e] = "closing"
    /\ closed' = [closed EXCEPT ![e] = TRUE]
    /\ stage' = [stage EXCEPT ![e] = "removing"]
    /\ UNCHANGED <<registryVars, id, exclusive, guard, cancelled, done, outcome,
                   processVars, writer, queue, writing, accepted, written,
                   outputVars, submitVars, cancelVars>>

\* ... free the id, if it still names this execution, ...
RemoveEntry(e) ==
    /\ stage[e] = "removing"
    /\ entries' = [entries EXCEPT ![id[e]] = IF @ = e THEN NoExec ELSE @]
    /\ stage' = [stage EXCEPT ![e] = "releasing"]
    /\ UNCHANGED <<busy, legacy, id, exclusive, guard, cancelled, done, outcome,
                   processVars, inputVars, outputVars, submitVars, cancelVars>>

\* ... release exclusivity, if this execution holds it, ...
ReleaseExclusive(e) ==
    /\ stage[e] = "releasing"
    /\ busy' = (busy /\ ~guard[e])
    /\ guard' = [guard EXCEPT ![e] = FALSE]
    /\ stage' = [stage EXCEPT ![e] = "signalling"]
    /\ UNCHANGED <<entries, legacy, id, exclusive, cancelled, done, outcome,
                   processVars, inputVars, outputVars, submitVars, cancelVars>>

\* ... and tell every cancel that waits.
SignalDone(e) ==
    /\ stage[e] = "signalling"
    /\ done' = [done EXCEPT ![e] = TRUE]
    /\ stage' = [stage EXCEPT ![e] = CASE outcome[e] = "disconnected" -> "finished"
                                       [] outcome[e] = "failed" -> "reporting"
                                       [] OTHER -> "exiting"]
    /\ UNCHANGED <<registryVars, id, exclusive, guard, cancelled, outcome,
                   processVars, inputVars, outputVars, submitVars, cancelVars>>

\* The final events wait for room in the channel, or for its consumer to leave.
Report(e, from, event, to) ==
    /\ stage[e] = from /\ attached[e] /\ HasRoom(e)
    /\ Emit(e, event)
    /\ stage' = [stage EXCEPT ![e] = to]
    /\ UNCHANGED <<registryVars, id, exclusive, guard, cancelled, done, outcome,
                   processVars, inputVars, drained, taken, attached,
                   submitVars, cancelVars>>
SendError_ExitFirst(e) == Report(e, "reporting", "exit", "exiting")
SendError(e) == Report(e, "reporting", "error", "exiting")
SendExit(e) == Report(e, "exiting", "exit", "finished")
SendFails(e) ==
    /\ stage[e] \in {"reporting", "exiting"} /\ ~attached[e]
    /\ stage' = [stage EXCEPT ![e] = "finished"]
    /\ UNCHANGED <<registryVars, id, exclusive, guard, cancelled, done, outcome,
                   processVars, inputVars, outputVars, submitVars, cancelVars>>

----------------------------------------------------------------------------
(* The output consumer: an SSE response or a forwarding serial task *)

ConsumerOnly == UNCHANGED <<registryVars, taskVars, processVars, inputVars,
                            drained, sent, submitVars, cancelVars>>
ConsumerTakes(e) ==
    /\ attached[e] /\ taken[e] < Len(sent[e])
    /\ taken' = [taken EXCEPT ![e] = @ + 1]
    /\ UNCHANGED attached /\ ConsumerOnly
ConsumerLeaves(e) ==
    /\ e \in Leaving /\ stage[e] # "new" /\ attached[e]
    /\ attached' = [attached EXCEPT ![e] = FALSE]
    /\ UNCHANGED taken /\ ConsumerOnly

----------------------------------------------------------------------------
(* submit() and InputAck.wait() *)

SubmitOnly == UNCHANGED <<registryVars, taskVars, processVars, closed, writer,
                          writing, written, outputVars, cancelVars>>
Reply(c, a) ==
    /\ sub' = [sub EXCEPT ![c] = "answered"]
    /\ answer' = [answer EXCEPT ![c] = a]

\* The registry is consulted under its lock; an unknown id is a closed input.
SubmitMisses(c, i) ==
    /\ sub[c] = "new" /\ entries[i] = NoExec
    /\ Reply(c, "closed")
    /\ UNCHANGED <<subExec, queue, accepted>> /\ SubmitOnly
SubmitFinds(c, i) ==
    /\ sub[c] = "new" /\ entries[i] # NoExec
    /\ sub' = [sub EXCEPT ![c] = "found"]
    /\ subExec' = [subExec EXCEPT ![c] = entries[i]]
    /\ UNCHANGED <<answer, queue, accepted>> /\ SubmitOnly

InputRefused(e) == closed[e] \/ cancelled[e]
SubmitRefused(c) ==
    /\ sub[c] = "found" /\ InputRefused(subExec[c])
    /\ Reply(c, "closed")
    /\ UNCHANGED <<subExec, queue, accepted>> /\ SubmitOnly
SubmitChecks(c) ==
    /\ sub[c] = "found" /\ ~InputRefused(subExec[c])
    /\ sub' = [sub EXCEPT ![c] = "sending"]
    /\ UNCHANGED <<subExec, answer, queue, accepted>> /\ SubmitOnly

\* try_send: the receiver may be gone by now, or a request already queued.
TrySend(c, e) ==
    /\ writer[e] # "gone"
    /\ queue' = [queue EXCEPT ![e] = c]
    /\ accepted' = [accepted EXCEPT ![e] = Append(@, c)]
    /\ sub' = [sub EXCEPT ![c] = "waiting"]
    /\ UNCHANGED <<subExec, answer>> /\ SubmitOnly
SubmitSends(c) ==
    sub[c] = "sending" /\ queue[subExec[c]] = NoCall /\ TrySend(c, subExec[c])
SubmitFindsFull(c) ==
    /\ sub[c] = "sending"
    /\ writer[subExec[c]] # "gone" /\ queue[subExec[c]] # NoCall
    /\ Reply(c, "conflict")
    /\ UNCHANGED <<subExec, queue, accepted>> /\ SubmitOnly
SubmitFindsGone(c) ==
    /\ sub[c] = "sending" /\ writer[subExec[c]] = "gone"
    /\ Reply(c, "closed")
    /\ UNCHANGED <<subExec, queue, accepted>> /\ SubmitOnly

\* The host abandons its request; the ack will find no receiver.
SubmitAbandons(c) ==
    /\ c \in Abandoning /\ sub[c] = "waiting"
    /\ sub' = [sub EXCEPT ![c] = "abandoned"]
    /\ UNCHANGED <<subExec, answer, queue, accepted>> /\ SubmitOnly

----------------------------------------------------------------------------
(* cancel() and cancel_all() *)

CancelOnly == UNCHANGED <<registryVars, stage, id, exclusive, guard, done,
                          outcome, processVars, inputVars, outputVars, submitVars>>

CancelMisses(k, i) ==
    /\ can[k] = "new" /\ entries[i] = NoExec
    /\ can' = [can EXCEPT ![k] = "answered"]
    /\ UNCHANGED <<canExec, credited, cancelled, awaited, stopping>> /\ CancelOnly
CancelFinds(k, i) ==
    /\ can[k] = "new" /\ entries[i] # NoExec
    /\ can' = [can EXCEPT ![k] = "found"]
    /\ canExec' = [canExec EXCEPT ![k] = entries[i]]
    /\ UNCHANGED <<credited, cancelled, awaited, stopping>> /\ CancelOnly

CancelChecks(k) ==
    /\ can[k] = "found"
    /\ can' = [can EXCEPT ![k] = IF done[canExec[k]] THEN "answered" ELSE "marking"]
    /\ UNCHANGED <<canExec, credited, cancelled, awaited, stopping>> /\ CancelOnly

\* send_replace(true): the first to mark an execution is credited with it.
CancelMarks(k) ==
    /\ can[k] = "marking"
    /\ credited' = [credited EXCEPT ![k] = ~cancelled[canExec[k]]]
    /\ cancelled' = [cancelled EXCEPT ![canExec[k]] = TRUE]
    /\ can' = [can EXCEPT ![k] = "waiting"]
    /\ UNCHANGED <<canExec, awaited, stopping>> /\ CancelOnly

CancelAnswered(k) ==
    /\ can' = [can EXCEPT ![k] = "answered"]
    /\ UNCHANGED <<canExec, credited, cancelled, awaited, stopping>> /\ CancelOnly

\* Slip: no wait for the tear-down.
CancelReturns_AtOnce(k) == can[k] = "waiting" /\ CancelAnswered(k)

CancelReturns(k) == can[k] = "waiting" /\ done[canExec[k]] /\ CancelAnswered(k)

\* The transport is gone: mark whatever is registered, then wait for it.
CancelAllMarks ==
    /\ ~stopping
    /\ stopping' = TRUE
    /\ awaited' = {entries[i] : i \in Ids} \ {NoExec}
    /\ cancelled' = [e \in Execs |-> cancelled[e] \/ e \in awaited']
    /\ UNCHANGED <<can, canExec, credited>> /\ CancelOnly

CancelAllReturns ==
    /\ stopping /\ \A e \in awaited : done[e]
    /\ stopping' = FALSE /\ awaited' = {}
    /\ UNCHANGED <<can, canExec, credited, cancelled>> /\ CancelOnly

----------------------------------------------------------------------------

\* One poll of the run() task, or of a future it drives.
Task(e) ==
    \/ AbortDisconnected(e) \/ AbortCancelled(e) \/ SpawnFails(e) \/ Spawn(e)
    \/ CancelWins(e) \/ DisconnectWins(e) \/ DeadlineWins(e)
    \/ SendReady(e) \/ ChildWaited(e)
    \/ ReadChunk(e) \/ OutputEnds(e) \/ ReadFails(e) \/ DriveCompletes(e)
    \/ WriterGetsEof(e) \/ WriterGetsData(e) \/ WriteSucceeds(e)
    \/ WriteBreaks(e) \/ WriterEnds(e) \/ WriteFails(e) \/ WriterErrs(e)
    \/ KillGroup(e) \/ Reap(e) \/ CloseInput(e) \/ RemoveEntry(e)
    \/ ReleaseExclusive(e) \/ SignalDone(e) \/ SendError(e) \/ SendExit(e) \/ SendFails(e)

Environment(e) ==
    \/ ChildForks(e) \/ ChildExits(e) \/ KinExits(e)
    \/ ConsumerTakes(e) \/ ConsumerLeaves(e)

Submit(c) ==
    \/ \E i \in Ids : SubmitMisses(c, i) \/ SubmitFinds(c, i)
    \/ SubmitRefused(c) \/ SubmitChecks(c)
    \/ SubmitSends(c) \/ SubmitFindsFull(c) \/ SubmitFindsGone(c)
    \/ SubmitAbandons(c)

Cancel(k) ==
    \/ \E i \in Ids : CancelMisses(k, i) \/ CancelFinds(k, i)
    \/ CancelChecks(k) \/ CancelMarks(k) \/ CancelReturns(k)

Next ==
    \/ \E e \in Execs : Start(e) \/ Task(e) \/ Environment(e)
    \/ \E c \in Submits : Submit(c)
    \/ \E k \in Cancels : Cancel(k)
    \/ CancelAllMarks \/ CancelAllReturns
    \/ LegacyClaim \/ LegacyRelease

Spec == Init /\ [][Next]_vars

(***************************************************************************)
(* Fairness.  tokio polls a woken task, a finite deadline passes, and a    *)
(* process that got SIGKILL can be waited for.  Nothing is assumed of the  *)
(* command (it may run forever) or of the output consumer (it may never    *)
(* take an event), so nothing is assumed of the steps that wait for them.  *)
(* Progress(e) is enabled in every stage from spawned to signalling.       *)
(***************************************************************************)
Progress(e) ==
    \/ AbortDisconnected(e) \/ AbortCancelled(e) \/ SpawnFails(e) \/ Spawn(e)
    \/ CancelWins(e) \/ DisconnectWins(e) \/ DeadlineWins(e)
    \/ KillGroup(e) \/ Reap(e) \/ CloseInput(e) \/ RemoveEntry(e)
    \/ ReleaseExclusive(e) \/ SignalDone(e)

Fairness ==
    /\ \A e \in Execs : WF_vars(Progress(e))
    /\ \A c \in Submits : 
         WF_vars(\/ SubmitRefused(c) \/ SubmitChecks(c)
                 \/ SubmitSends(c) \/ SubmitFindsFull(c) \/ SubmitFindsGone(c))
    /\ \A k \in Cancels : WF_vars(CancelChecks(k) \/ CancelMarks(k) \/ CancelReturns(k))
    /\ WF_vars(CancelAllReturns)
FairSpec == Spec /\ Fairness

----------------------------------------------------------------------------
(* Safety *)

\* A command that was spawned and not reaped can be found under its id, so a
\* cancel arriving at any moment of its life stops it (start inserts the entry
\* before the task runs; Registration::drop removes it after the reap).
LiveProcessIsRegistered ==
    \A e \in Execs : Unreaped(e) => entries[id[e]] = e /\ ~done[e]

\* While an exclusive command has a live process, the flag that refuses other
\* requests is set and this execution alone owns it, whatever legacy commands,
\* other executions and failing tear-downs do to the flag.
ExclusiveOutlivesProcess ==
    \A e \in Execs : Unreaped(e) /\ exclusive[e] =>
        /\ busy /\ guard[e] /\ ~legacy
        /\ \A f \in Execs \ {e} : ~guard[f]

\* The child's stdin receives the requests the agent took, each once, in the
\* order it took them and without a gap: what is written and being written is a
\* prefix of what was taken, and only the queued one is missing while the writer
\* lives.
InputInOrder ==
    \A e \in Execs :
        LET held(x) == IF x[e] = NoCall THEN <<>> ELSE <<x[e]>>
            progress == written[e] \o held(writing)
        IN  /\ progress = SubSeq(accepted[e], 1, Len(progress))
            /\ writer[e] \in {"receiving", "writing"} =>
                 accepted[e] = progress \o held(queue)

\* "closed: false" is only ever said of data the child's stdin has taken, and a
\* request that still waits is one the execution still holds and will answer.
AcksAreTruthful ==
    \A c \in Submits :
        /\ answer[c] = "open" =>
             \E n \in 1..Len(written[subExec[c]]) : written[subExec[c]][n] = c
        /\ sub[c] = "waiting" => c \in {queue[subExec[c]], writing[subExec[c]]}

\* Input reaches the child in order and without a gap, and the host is told so
\* only then (submit, write_input).
InputIsFaithful == InputInOrder /\ AcksAreTruthful

\* What a finished cancel promises its caller: the command is reaped, its id is
\* free of it and its exclusivity is released; and of all the cancels of one
\* execution at most one reports that it cancelled it.
CancelMeansGone ==
    \A k \in Cancels : canExec[k] # NoExec =>
        LET e == canExec[k] IN
        /\ can[k] = "answered" =>
             ~Unreaped(e) /\ entries[id[e]] # e /\ ~guard[e] /\ closed[e]
        /\ \A l \in Cancels : credited[k] /\ credited[l] /\ canExec[l] = e => k = l

\* The event stream is Ready?, chunks, error?, Exit: nothing precedes Ready but
\* a startup failure, nothing follows Exit, and a consumer that has seen the
\* failure or the exit may at once start another command under the same id.
OutputProtocol ==
    \A e \in Execs : \A n \in 1..Len(sent[e]) :
        /\ sent[e][n] = "ready" => n = 1
        /\ sent[e][n] = "chunk" => sent[e][1] = "ready"
        /\ sent[e][n] = "exit" => n = Len(sent[e])
        /\ sent[e][n] = "error" => n >= Len(sent[e]) - 1 /\ outcome[e] = "failed"
        /\ sent[e][n] \in {"error", "exit"} =>
             done[e] /\ entries[id[e]] # e /\ ~guard[e] /\ ~Unreaped(e)

\* Once an execution is done no process of its group is left, unless the kernel
\* refused every attempt to signal the group.
DescendantsDie == \A e \in Execs : done[e] /\ kin[e] => armed[e]

\* Every behaviour of the registry is one the abstract contract allows: ids and
\* exclusivity are owned from before the process exists until it is reaped.
Leases == {e \in Execs : guard[e]} \cup (IF legacy THEN {NoExec} ELSE {})
Phase == [e \in Execs |->
            CASE stage[e] = "new" -> "new"
              [] stage[e] = "releasing" -> "ending"
              [] stage[e] \in {"signalling", "reporting", "exiting", "finished"} -> "over"
              [] OTHER -> "active"]
Process == [e \in Execs |->
              CASE child[e] = "none" -> "none"
                [] child[e] = "reaped" -> "gone"
                [] OTHER -> "up"]
Contract == INSTANCE ExecutionContract WITH
    Other <- NoExec, names <- entries, leases <- Leases, phase <- Phase,
    process <- Process, wants <- exclusive
ImplementsContract == Contract!Spec

(* Liveness, all of it with a consumer that may never take an event *)

\* Every admitted execution ends and gives its id and exclusivity back, whether
\* it is cancelled, left alone or has a command that never exits; and every stdin
\* request gets an answer, unless its caller left, every cancel returns, and so
\* does cancel_all.
CallsReturn ==
    /\ \A e \in Execs : stage[e] = "spawned" ~> done[e]
    /\ \A c \in Submits : sub[c] = "found" ~> sub[c] \in {"answered", "abandoned"}
    /\ \A k \in Cancels : can[k] = "found" ~> can[k] = "answered"
    /\ stopping ~> ~stopping
=============================================================================
