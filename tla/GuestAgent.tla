----------------------------- MODULE GuestAgent -----------------------------
(***************************************************************************)
(* Commands without stdin and user accounts in the guest agent             *)
(* (quicksand-guest-agent/src/main.rs): execute and execute_stream with    *)
(* the flag an exclusive command holds, create_user and delete_user with   *)
(* the account files they edit, over either transport.  The agent opens    *)
(* the virtio-serial port when there is one and serves HTTP otherwise.     *)
(*                                                                         *)
(* Workers threads poll the tasks of the agent.  A handler that does not   *)
(* await keeps its thread: execute waits for its command with the blocking *)
(* Command::output, user requests for a std Mutex.  Over the serial port   *)
(* requests are looked at one at a time by the read loop.                  *)
(*                                                                         *)
(* An account is a line, its name and its id; a file is a set of lines.    *)
(* Rewriting /etc/passwd truncates it first, and lookups take no lock.     *)
(* /etc/shadow and home directories are left out: nobody reads the former, *)
(* and a failure of the latter leaves the account as it is.                *)
(*                                                                         *)
(* A definition named Action_Slip is Action with a slip a programmer could *)
(* make; the specification does not use it.                                *)
(***************************************************************************)
EXTENDS Naturals, FiniteSets

CONSTANTS
    Requests,     \* requests from the host
    Agendas,      \* what they ask for: functions to [kind, exclusive, name]
    Names,        \* user names
    Settler,      \* who has an account at first
    Root,         \* in place of a name: the command names no user
    NoRequest,
    UidMax,       \* UID_MAX, where UID_MIN is 1
    Workers,      \* threads of the runtime, one per processor of the guest
    Room,         \* mpsc::channel(64) of a stream over HTTP
    MaxMishaps    \* bound: crashes of the agent and failed writes

Kinds == {"execute", "stream", "create", "delete"}
Lines == [name : Names, id : Nat]
NoLine == [name |-> Root, id |-> 0]
Works ==
    {w \in [kind : Kinds, exclusive : BOOLEAN, name : Names \cup {Root}] :
        w.kind \in {"create", "delete"} => w.name # Root}

ASSUME AgentAssumption ==
    /\ Root \notin Names /\ Settler \in Names /\ NoRequest \notin Requests
    /\ Agendas \subseteq [Requests -> Works]
    /\ UidMax \in Nat \ {0} /\ Workers \in Nat \ {0} /\ Room \in Nat \ {0}
    /\ MaxMishaps \in Nat

VARIABLES
    transport,      \* "serial" or "http"
    exclusiveBusy,  \* AppState.exclusive_busy
    stage,          \* how far a request is
    work,           \* what it asks for
    line,           \* the account it resolved, creates or deletes
    child,          \* its command: "none", "running" or "ended"
    queued,         \* events in its channel
    attached,       \* its consumer reads the stream
    lock,           \* who holds USER_MGMT_LOCK
    passwd, group,  \* the account files
    held,           \* lines of a passwd that is truncated and not yet rewritten
    mishaps,
    before,         \* history: who was let in before an exclusive request claimed
    gaveUp,         \* history: whose command was left running
    late,           \* history: whose command started when its account was going
    lost            \* history: the files that lost lines

requestVars == <<stage, work, line>>
streamVars  == <<queued, attached>>
accountVars == <<lock, passwd, group, held, lost>>
historyVars == <<before, gaveUp, late>>
vars == <<transport, exclusiveBusy, requestVars, child, streamVars,
          accountVars, mishaps, historyVars>>

(***************************************************************************)
(* Stages.  Loop: in a handler, or in the read loop, before anything is    *)
(* spawned.  Inside: let in and not yet over.  Timed: inside timeout().    *)
(***************************************************************************)
AccountStages == {"lock", "look", "kill", "truncate", "rewrite", "group", "passwd"}
Loop == {"resolve", "check", "claim"} \cup AccountStages
Timed == {"reading", "sending", "failing", "exiting"}
Inside == {"admitted", "waiting", "releasing", "overdue", "reporting"} \cup Timed
Stages == {"idle", "done"} \cup Loop \cup Inside

TypeOK ==
    /\ transport \in {"serial", "http"} /\ exclusiveBusy \in BOOLEAN
    /\ stage \in [Requests -> Stages]
    /\ work \in [Requests -> Works]
    /\ line \in [Requests -> Lines \cup {NoLine}]
    /\ child \in [Requests -> {"none", "running", "ended"}]
    /\ queued \in [Requests -> 0..Room] /\ attached \in [Requests -> BOOLEAN]
    /\ lock \in Requests \cup {NoRequest}
    /\ {passwd, group, held} \subseteq SUBSET Lines
    /\ mishaps \in 0..MaxMishaps
    /\ before \in [Requests -> SUBSET Requests]
    /\ gaveUp \subseteq Requests /\ late \subseteq Requests
    /\ lost \subseteq {"passwd", "group"}

Init ==
    /\ transport \in {"serial", "http"} /\ exclusiveBusy = FALSE
    /\ stage = [r \in Requests |-> "idle"]
    /\ work \in Agendas
    /\ line = [r \in Requests |-> NoLine]
    /\ child = [r \in Requests |-> "none"]
    /\ queued = [r \in Requests |-> 0] /\ attached = [r \in Requests |-> TRUE]
    /\ lock = NoRequest
    /\ passwd = {[name |-> Settler, id |-> 1]}
    /\ group = passwd /\ held = {} /\ mishaps = 0
    /\ before = [r \in Requests |-> {}]
    /\ gaveUp = {} /\ late = {} /\ lost = {}

-----------------------------------------------------------------------------
(* Threads and requests *)

Kind(r) == work[r].kind
Move(r, to) == stage' = [stage EXCEPT ![r] = to]

\* The threads that cannot poll another task: those in a handler that does not
\* await, and those that wait for a command or for the lock.  Over HTTP the
\* handler of execute is the one that runs the command.
Occupied(r) ==
    \/ stage[r] \in Loop \/ stage[r] = "waiting"
    \/ Kind(r) = "execute" /\ stage[r] \in {"admitted", "releasing"} /\ transport = "http"
FreeWorker == Cardinality({r \in Requests : Occupied(r)}) < Workers

\* A request comes.  The read loop looks at the next frame when it is through
\* with the one before.
Receive(r) ==
    /\ stage[r] = "idle" /\ FreeWorker
    /\ transport = "serial" => \A q \in Requests : stage[q] \notin Loop
    /\ Move(r, IF Kind(r) \in {"execute", "stream"} THEN "resolve" ELSE "lock")
    /\ UNCHANGED <<transport, exclusiveBusy, work, line, child, streamVars, accountVars,
                   mishaps, historyVars>>

\* resolve_user, on whatever the file holds at this moment.
Resolve(r) ==
    /\ stage[r] = "resolve"
    /\ \/ work[r].name = Root /\ Move(r, "check") /\ UNCHANGED line
       \/ \E l \in passwd :
            /\ l.name = work[r].name
            /\ line' = [line EXCEPT ![r] = l] /\ Move(r, "check")
       \/ /\ work[r].name # Root
          /\ \A l \in passwd : l.name # work[r].name
          /\ Move(r, "done") /\ UNCHANGED line
    /\ UNCHANGED <<transport, exclusiveBusy, work, child, streamVars, accountVars,
                   mishaps, historyVars>>

Check(r) ==
    /\ stage[r] = "check"
    /\ Move(r, IF exclusiveBusy THEN "done"
               ELSE IF work[r].exclusive THEN "claim" ELSE "admitted")
    /\ UNCHANGED <<transport, exclusiveBusy, work, line, child, streamVars, accountVars,
                   mishaps, historyVars>>

\* Requests that are let in and not over.
InHand == {q \in Requests : stage[q] \in Inside}

\* compare_exchange(false, true).
Claims(r) ==
    /\ exclusiveBusy' = TRUE /\ Move(r, "admitted")
    /\ before' = [before EXCEPT ![r] = InHand]
Claim_Stores(r) == \* load and store in place of compare_exchange
    /\ stage[r] = "claim" /\ Claims(r)
    /\ UNCHANGED <<transport, work, line, child, streamVars, accountVars, mishaps,
                   gaveUp, late>>
Claim(r) ==
    /\ stage[r] = "claim"
    /\ \/ ~exclusiveBusy /\ Claims(r)
       \/ exclusiveBusy /\ Move(r, "done") /\ UNCHANGED <<exclusiveBusy, before>>
    /\ UNCHANGED <<transport, work, line, child, streamVars, accountVars, mishaps,
                   gaveUp, late>>

-----------------------------------------------------------------------------
(* Commands *)

Accounts == passwd \cup held \* on the disk, or about to be again

\* The account a command is to run under is gone, or its processes have
\* already been killed for its deletion.
Going(l) ==
    \/ l \notin Accounts
    \/ \E q \in Requests : Kind(q) = "delete" /\ line[q] = l /\ stage[q] = "truncate"

\* Another task starts the command, except for execute over HTTP.
Starts(r) ==
    /\ stage[r] = "admitted"
    /\ (Kind(r) = "execute" /\ transport = "http") \/ FreeWorker
    /\ UNCHANGED <<transport, exclusiveBusy, work, line, streamVars, accountVars,
                   mishaps, before, gaveUp>>
Spawn(r) ==
    /\ Starts(r)
    /\ child' = [child EXCEPT ![r] = "running"]
    /\ late' = IF work[r].name # Root /\ Going(line[r]) THEN late \cup {r} ELSE late
    /\ Move(r, IF Kind(r) = "execute" THEN "waiting" ELSE "reading")
SpawnFails(r) ==
    /\ Starts(r) /\ UNCHANGED <<child, late>>
    /\ Move(r, IF Kind(r) = "execute" THEN "releasing" ELSE "failing")

CommandEnds(r) ==
    /\ child[r] = "running"
    /\ child' = [child EXCEPT ![r] = "ended"]
    /\ UNCHANGED <<transport, exclusiveBusy, requestVars, streamVars, accountVars,
                   mishaps, historyVars>>

\* Command::output returns.  The timeout around it cannot fire: the future it
\* bounds never awaits.
OutputReturns(r) ==
    /\ stage[r] = "waiting" /\ child[r] = "ended"
    /\ Move(r, "releasing")
    /\ UNCHANGED <<transport, exclusiveBusy, work, line, child, streamVars, accountVars,
                   mishaps, historyVars>>

\* A stream: its task reads the pipes and puts events into a channel, bounded
\* over HTTP, whose receiver goes when the host leaves.
CanSend_WaitsForRoom(r) == transport = "serial" \/ queued[r] < Room
CanSend(r) == transport = "serial" \/ ~attached[r] \/ queued[r] < Room
Sends(r, to) ==
    /\ FreeWorker /\ CanSend(r) /\ Move(r, to)
    /\ queued' = IF transport = "http" /\ attached[r]
                 THEN [queued EXCEPT ![r] = @ + 1] ELSE queued
    /\ UNCHANGED <<transport, exclusiveBusy, work, line, child, attached, accountVars,
                   mishaps, before, late>>
CommandPrints(r) ==
    /\ stage[r] = "reading" /\ child[r] = "running"
    /\ Move(r, "sending")
    /\ UNCHANGED <<transport, exclusiveBusy, work, line, child, streamVars, accountVars,
                   mishaps, historyVars>>
SendLine(r) == stage[r] = "sending" /\ attached[r] /\ Sends(r, "reading") /\ UNCHANGED gaveUp
SendRefused(r) ==
    /\ stage[r] = "sending" /\ ~attached[r] /\ Sends(r, "releasing")
    /\ gaveUp' = IF child[r] = "running" THEN gaveUp \cup {r} ELSE gaveUp
OutputEnds(r) ==
    /\ stage[r] = "reading" /\ child[r] = "ended" /\ FreeWorker
    /\ Move(r, "exiting")
    /\ UNCHANGED <<transport, exclusiveBusy, work, line, child, streamVars, accountVars,
                   mishaps, historyVars>>
SendFailure(r) == stage[r] = "failing" /\ Sends(r, "exiting") /\ UNCHANGED gaveUp
SendExit(r) == stage[r] = "exiting" /\ Sends(r, "releasing") /\ UNCHANGED gaveUp

\* timeout() drops the child without killing it.  What is sent after it is not
\* bounded by it.
Timeout(r) ==
    /\ stage[r] \in Timed /\ FreeWorker
    /\ gaveUp' = IF child[r] = "running" THEN gaveUp \cup {r} ELSE gaveUp
    /\ Move(r, "overdue")
    /\ UNCHANGED <<transport, exclusiveBusy, work, line, child, streamVars, accountVars,
                   mishaps, before, late>>
SendOverdue(r) == stage[r] = "overdue" /\ Sends(r, "reporting") /\ UNCHANGED gaveUp
SendLast(r) == stage[r] = "reporting" /\ Sends(r, "releasing") /\ UNCHANGED gaveUp

Release(r) ==
    /\ stage[r] = "releasing" /\ Move(r, "done")
    /\ exclusiveBusy' = (exclusiveBusy /\ ~work[r].exclusive)
    /\ UNCHANGED <<transport, work, line, child, streamVars, accountVars, mishaps,
                   historyVars>>

Listening(r) == transport = "http" /\ Kind(r) = "stream" /\ stage[r] \in Inside /\ attached[r]
ConsumerTakes(r) ==
    /\ Listening(r) /\ queued[r] > 0
    /\ queued' = [queued EXCEPT ![r] = @ - 1]
    /\ UNCHANGED <<transport, exclusiveBusy, requestVars, child, attached, accountVars,
                   mishaps, historyVars>>
ConsumerLeaves(r) ==
    /\ Listening(r)
    /\ attached' = [attached EXCEPT ![r] = FALSE]
    /\ UNCHANGED <<transport, exclusiveBusy, requestVars, child, queued, accountVars,
                   mishaps, historyVars>>

-----------------------------------------------------------------------------
(* Accounts *)

AcquireLock(r) ==
    /\ stage[r] = "lock" /\ lock = NoRequest
    /\ lock' = r /\ Move(r, "look")
    /\ UNCHANGED <<transport, exclusiveBusy, work, line, child, streamVars, passwd, group,
                   held, lost, mishaps, historyVars>>

\* The handler returns and drops its guard.
Leaves(r) == Move(r, "done") /\ lock' = NoRequest
AccountStep == UNCHANGED <<transport, exclusiveBusy, work, streamVars, historyVars>>

Without(file, n) == {l \in file : l.name # n}
Named(file, n) == {l \in file : l.name = n}
NextFreeId_PasswdOnly ==
    1 + CHOOSE i \in 0..UidMax - 1 :
        /\ i = 0 \/ \E l \in passwd : l.id = i
        /\ \A l \in passwd : l.id < UidMax => l.id <= i
NextFreeId ==
    1 + CHOOSE i \in 0..UidMax - 1 :
        /\ i = 0 \/ \E l \in passwd \cup group : l.id = i
        /\ \A l \in passwd \cup group : l.id < UidMax => l.id <= i

CreateLooks(r) ==
    /\ stage[r] = "look" /\ Kind(r) = "create" /\ AccountStep
    /\ IF Named(passwd, work[r].name) # {} \/ NextFreeId >= UidMax
       THEN Leaves(r) /\ UNCHANGED line
       ELSE /\ line' = [line EXCEPT ![r] = [name |-> work[r].name, id |-> NextFreeId]]
            /\ Move(r, "group") /\ UNCHANGED lock
    /\ UNCHANGED <<child, passwd, group, held, lost, mishaps>>
AppendGroup(r) ==
    /\ stage[r] = "group" /\ Kind(r) = "create" /\ AccountStep
    /\ group' = group \cup {line[r]} /\ Move(r, "passwd")
    /\ UNCHANGED <<line, child, lock, passwd, held, lost, mishaps>>
AppendPasswd(r) ==
    /\ stage[r] = "passwd" /\ AccountStep
    /\ passwd' = passwd \cup {line[r]} /\ Leaves(r)
    /\ UNCHANGED <<line, child, group, held, lost, mishaps>>
\* The line is written and then its end, and a failure may leave a piece of it, glued to
\* whatever is appended next.  That is left out: a failed append leaves the file as it was.
AppendFails(r) ==
    /\ \/ stage[r] = "group" /\ Kind(r) = "create"
       \/ stage[r] = "passwd"
    /\ AccountStep /\ mishaps < MaxMishaps /\ mishaps' = mishaps + 1 /\ Leaves(r)
    /\ UNCHANGED <<line, child, passwd, group, held, lost>>

DeleteLooks(r) ==
    /\ stage[r] = "look" /\ Kind(r) = "delete" /\ AccountStep
    /\ \/ /\ Named(passwd, work[r].name) = {}
          /\ Leaves(r) /\ UNCHANGED line
       \/ \E l \in Named(passwd, work[r].name) :
            line' = [line EXCEPT ![r] = l] /\ Move(r, "kill") /\ UNCHANGED lock
    /\ UNCHANGED <<child, passwd, group, held, lost, mishaps>>
KillProcesses(r) ==
    /\ stage[r] = "kill" /\ AccountStep
    /\ child' = [q \in Requests |->
            IF child[q] = "running" /\ line[q].id = line[r].id THEN "ended" ELSE child[q]]
    /\ Move(r, "truncate")
    /\ UNCHANGED <<line, lock, passwd, group, held, lost, mishaps>>

\* fs::write truncates the file and writes it anew.
Truncate(r) ==
    /\ stage[r] = "truncate" /\ AccountStep
    /\ held' = Without(passwd, work[r].name) /\ passwd' = {} /\ Move(r, "rewrite")
    /\ UNCHANGED <<line, child, lock, group, lost, mishaps>>
Rewrite(r) ==
    /\ stage[r] = "rewrite" /\ AccountStep
    /\ passwd' = held /\ held' = {} /\ Move(r, "group")
    /\ UNCHANGED <<line, child, lock, group, lost, mishaps>>
RewriteFails(r) ==
    /\ stage[r] = "rewrite" /\ AccountStep /\ held # {}
    /\ mishaps < MaxMishaps /\ mishaps' = mishaps + 1
    /\ passwd' \in SUBSET held \ {held} /\ held' = {}
    /\ lost' = lost \cup {"passwd"} /\ Leaves(r)
    /\ UNCHANGED <<line, child, group>>
StripGroup(r) ==
    /\ stage[r] = "group" /\ Kind(r) = "delete" /\ AccountStep
    /\ group' = Without(group, work[r].name) /\ Leaves(r)
    /\ UNCHANGED <<line, child, passwd, held, lost, mishaps>>
StripFails(r) ==
    /\ stage[r] = "group" /\ Kind(r) = "delete" /\ AccountStep
    /\ mishaps < MaxMishaps /\ mishaps' = mishaps + 1
    /\ group' \in SUBSET Without(group, work[r].name) \ {Without(group, work[r].name)}
    /\ lost' = lost \cup {"group"} /\ Leaves(r)
    /\ UNCHANGED <<line, child, passwd, held>>

\* The agent dies, or leaves with the end of its serial session, and its
\* service starts it again.  Commands go on, and files stay as they are.
Crash ==
    /\ mishaps < MaxMishaps /\ mishaps' = mishaps + 1
    /\ \E r \in Requests : stage[r] \notin {"idle", "done"}
    /\ stage' = [r \in Requests |-> IF stage[r] = "idle" THEN "idle" ELSE "done"]
    /\ exclusiveBusy' = FALSE /\ lock' = NoRequest
    /\ gaveUp' = gaveUp \cup {r \in Requests : child[r] = "running"}
    /\ held' = {} /\ lost' = IF held = {} THEN lost ELSE lost \cup {"passwd"}
    /\ UNCHANGED <<transport, work, line, child, streamVars, passwd, group, before, late>>

-----------------------------------------------------------------------------
Handler(r) == Resolve(r) \/ Check(r) \/ Claim(r)
Command(r) ==
    \/ Spawn(r) \/ SpawnFails(r) \/ OutputReturns(r)
    \/ SendLine(r) \/ SendRefused(r) \/ OutputEnds(r) \/ SendFailure(r) \/ SendExit(r)
    \/ SendOverdue(r) \/ SendLast(r) \/ Release(r)
Account(r) ==
    \/ AcquireLock(r) \/ CreateLooks(r) \/ AppendGroup(r) \/ AppendPasswd(r) \/ AppendFails(r)
    \/ DeleteLooks(r) \/ KillProcesses(r) \/ Truncate(r) \/ Rewrite(r) \/ RewriteFails(r)
    \/ StripGroup(r) \/ StripFails(r)
Host(r) == Receive(r) \/ ConsumerTakes(r) \/ ConsumerLeaves(r)
Guest(r) == CommandEnds(r) \/ CommandPrints(r)
Next ==
    \/ \E r \in Requests :
        Handler(r) \/ Command(r) \/ Timeout(r) \/ Account(r) \/ Host(r) \/ Guest(r)
    \/ Crash
Spec == Init /\ [][Next]_vars

(***************************************************************************)
(* Fairness.  Threads of the runtime run what can run, timers fire, the    *)
(* lock is given to whoever waits.  A host that reads a stream takes an    *)
(* event or goes away, and a command of execute ends: nothing would end it *)
(* otherwise.  The command of a stream need not end.                       *)
(***************************************************************************)
Fairness ==
    \A r \in Requests :
        /\ WF_vars(Handler(r) \/ Command(r) \/ Account(r)) /\ WF_vars(Timeout(r))
        /\ WF_vars(Kind(r) = "execute" /\ CommandEnds(r))
        /\ WF_vars(ConsumerTakes(r) \/ ConsumerLeaves(r))
FairSpec == Spec /\ Fairness

-----------------------------------------------------------------------------
(* Properties *)

Holds(r) == work[r].exclusive /\ stage[r] \in Inside

\* While an exclusive request is in hand it alone has the flag, and the requests
\* in hand with it were let in before it claimed the flag, between the load and
\* the compare_exchange of its handler at the latest.  An exclusive command that
\* runs without the flag was given up: its stream was overdue or unread, or the
\* agent died.
ExclusiveIsAlone ==
    /\ exclusiveBusy <=> \E r \in Requests : Holds(r)
    /\ \A r, q \in Requests : Holds(r) /\ Holds(q) => r = q
    /\ \A r \in Requests : Holds(r) => InHand \ {r} \subseteq before[r]
    /\ \A r \in Requests :
         child[r] = "running" /\ work[r].exclusive /\ ~Holds(r) => r \in gaveUp

\* A uid, which is a gid as well, is one user's: no two accounts share it, no
\* group of another name has it although writes fail and the agent dies half way
\* through an edit, and no command of another user runs under it, except one that
\* was started while its account was being deleted or later, or after
\* /etc/passwd has lost lines.
UidsAreOwn ==
    /\ \A k, l \in Accounts : k.id = l.id \/ k.name = l.name => k = l
    /\ \A k \in Accounts, g \in group :
         k.id = g.id => k.name = g.name
    /\ \A r \in Requests, k \in Accounts :
         child[r] = "running" /\ work[r].name # Root /\ k.id = line[r].id =>
             k.name = work[r].name \/ r \in late \/ "passwd" \in lost

\* Every request is over some time, whatever the others wait for: threads, the
\* lock, their commands, a host that does not read (handlers, execute and
\* execute_stream).
RequestsReturn == \A r \in Requests : stage[r] # "idle" ~> stage[r] = "done"
=============================================================================
