------------------------------- MODULE Mounts -------------------------------
(***************************************************************************)
(* Shares of host directories and their mounts in the guest: the mixin of  *)
(* sandbox/_mounts.py over the servers of host/smb.py.                     *)
(*                                                                         *)
(* One session of a sandbox.  start() runs the boot-time mounts while      *)
(* other coroutines call mount(), unmount() and stop(): a step is what one *)
(* coroutine does between two awaits.  Every await of execute() may be     *)
(* answered, answered with a failure, or raise, and what the guest did of  *)
(* a command whose answer was lost is left open.  The TCP server's accept  *)
(* thread and the thread of each connection run at any time, also while    *)
(* stop() blocks the event loop in join().  A call may be cancelled where  *)
(* it waits for the guest or between two tries; a cleanup that is cancelled*)
(* at agent.close() is the subject of module SandboxLifecycle.             *)
(*                                                                         *)
(* A mount is <<"cifs", n>>, n the number of the share (names come from    *)
(* token_hex and are never reused), or <<"9p", i>>, i its place in         *)
(* config.mounts.  Not modelled: an OSError while the configuration file   *)
(* is replaced, and paths (two mounts on one guest directory).             *)
(*                                                                         *)
(* A definition named Action_Slip is Action with a slip a programmer could *)
(* make; the specification does not use it.                                *)
(***************************************************************************)
EXTENDS Naturals, Sequences, FiniteSets

CONSTANTS
    Callers,      \* coroutines that call mount(), unmount() and stop()
    Starter,      \* the coroutine inside start()
    Sessions,     \* what is checked: the server (.kind: "guestfwd", "tcp" or
                  \* "windows"), config.mounts (.plan: "cifs" and "9p" in order),
                  \* and bounds: .shares on the shares named when mount() is
                  \* called, .faults on the failures of the guest, QEMU and the
                  \* host and the cancellations
    Conns,        \* connections to the TCP server
    MaxTries,     \* MountOptions.MAX_RETRIES
    None

ASSUME MountsAssumption ==
    /\ \A s \in Sessions :
        /\ s.kind \in {"guestfwd", "tcp", "windows"}
        /\ s.plan \in Seq({"cifs", "9p"})
        /\ s.shares \in Nat /\ s.faults \in Nat
    /\ MaxTries \in Nat \ {0}
    /\ Starter \notin Callers
    /\ None \notin {"ok", "bad", "raised"}

VARIABLES
    session,    \* one of Sessions
    running,    \* Sandbox._is_running
    alive,      \* QEMU runs and the agent answers
    attached,   \* Sandbox._smb_server is not None
    table,      \* the server's _shares
    config,     \* the shares a guest can connect to: the file's, or the
                \* system's on Windows
    file,       \* the configuration file is there
    handles,    \* Sandbox._dynamic_mounts, as a set: each share is in it once
    guest,      \* what is mounted in the guest
    calls,      \* the coroutines
    stuck,      \* shares Windows did not remove
    named,      \* shares named so far
    listener,   \* the TCP server: "open", "closed"
    acceptor,   \* its accept thread: "waiting", "gone"
    conns,      \* its connections
    loose,      \* mounts whose end is nobody's business any more (for the properties)
    strays,     \* shares start() published after stop() had run (for the properties)
    faults
sandbox == <<running, alive, attached, handles>>
server == <<table, config, file, stuck, named>>
threads == <<listener, acceptor, conns>>
vars == <<session, running, alive, attached, table, config, file, handles, guest,
          stuck, calls, named, listener, acceptor, conns, loose, strays, faults>>

kind == session.kind   \* what create_smb_server returned
plan == session.plan   \* config.mounts

Coroutines == Callers \cup {Starter}
Idle == [at |-> "idle", mount |-> None, tries |-> 0, answer |-> None, done |-> {}]

Awaiting == {"mkdir", "mount", "umount", "undo"}

Named == {<<"cifs", n>> : n \in 1 .. named}

TypeOK ==
    /\ session \in Sessions
    /\ running \in BOOLEAN /\ alive \in BOOLEAN /\ attached \in BOOLEAN
    /\ config \subseteq Named /\ table \subseteq Named
    /\ file \in BOOLEAN
    /\ named \in 0 .. session.shares + Len(plan) /\ faults \in 0 .. session.faults
    /\ listener \in {"open", "closed"} /\ acceptor \in {"waiting", "gone"}
    /\ \A c \in Coroutines :
        /\ calls[c].at \in {"idle", "settle", "pause", "join", "close", "done"} \cup Awaiting
        /\ calls[c].answer \in {None, "ok", "bad", "raised"}
        /\ calls[c].tries \in 0 .. MaxTries

-----------------------------------------------------------------------------
\* start() has connected; the server was started before QEMU, and the
\* boot-time mounts wait for the guest to settle.
Init ==
    /\ session \in Sessions
    /\ running = TRUE /\ alive = TRUE /\ attached = TRUE
    /\ table = {} /\ config = {} /\ file = TRUE /\ handles = {} /\ guest = {}
    /\ stuck = {} /\ named = 0
    /\ calls = [c \in Coroutines |->
                  IF c # Starter THEN Idle
                  ELSE [Idle EXCEPT !.at = IF plan = <<>> THEN "done" ELSE "settle"]]
    /\ listener = "open" /\ acceptor = "waiting"
    /\ conns = [k \in Conns |-> "none"]
    /\ loose = {} /\ strays = {} /\ faults = 0

IsRunning == running /\ alive

\* join() blocks the thread of the event loop.
LoopFree == \A c \in Coroutines : calls[c].at # "join"

Fault == faults < session.faults /\ faults' = faults + 1
NoFault == UNCHANGED faults

At(c, place) == [calls EXCEPT ![c].at = place, ![c].answer = None]
Trying(c, n) == [calls EXCEPT ![c].at = "mount", ![c].answer = None, ![c].tries = n]

-----------------------------------------------------------------------------
(* The servers' tables.  The Python servers publish by replacing the file,  *)
(* if it is still there; New-SmbShare publishes at once, and a              *)
(* Remove-SmbShare that fails leaves the share in the system.  add_share    *)
(* raises before it has changed anything: a mount() refused so is no step.  *)
NewShare == <<"cifs", named + 1>>

Publish(shares) == IF file THEN shares ELSE config

AddListed(s) ==
    /\ named' = named + 1
    /\ table' = table \cup {s}
    /\ config' = Publish(table')
    /\ UNCHANGED <<file, stuck>>

AddWindows(s) ==
    /\ named' = named + 1
    /\ table' = table \cup {s}
    /\ config' = config \cup {s}
    /\ UNCHANGED <<file, stuck>>

AddShare(s) ==
    \/ kind # "windows" /\ AddListed(s)
    \/ kind = "windows" /\ AddWindows(s)

RemoveListed(gone) ==
    /\ table' = table \ gone
    /\ config' = Publish(table')
    /\ UNCHANGED <<file, stuck>>

RemoveWindows(gone) ==
    /\ table' = table \ gone
    /\ UNCHANGED file
    /\ \/ /\ config' = config \ gone
          /\ UNCHANGED <<stuck, faults>>
       \/ /\ Fault
          /\ \E s \in gone \cap config :
              /\ config' = (config \ gone) \cup {s}
              /\ stuck' = stuck \cup {s}

RemoveShares(gone) ==
    \/ kind # "windows" /\ RemoveListed(gone) /\ NoFault
    \/ kind = "windows" /\ RemoveWindows(gone)

StopListed ==
    /\ table' = {} /\ config' = {} /\ file' = FALSE
    /\ UNCHANGED <<stuck, faults>>

StopServer ==
    \/ kind # "windows" /\ StopListed
    \/ kind = "windows" /\ RemoveWindows(table)

-----------------------------------------------------------------------------
(* execute(): the guest carries a command out and answers, or the answer    *)
(* never comes.                                                             *)
CanMount(m) == m[1] = "9p" \/ m \in config

Works(c) ==
    CASE calls[c].at = "mkdir" -> guest
      [] calls[c].at = "mount" -> guest \cup {calls[c].mount}
      [] OTHER -> guest \ {calls[c].mount}

GuestAnswers(c) ==
    /\ alive
    /\ calls[c].at \in Awaiting /\ calls[c].answer = None
    /\ calls[c].at = "mount" => CanMount(calls[c].mount)
    /\ guest' = Works(c)
    /\ calls' = [calls EXCEPT ![c].answer = "ok"]
    /\ UNCHANGED <<session, sandbox, server, threads, loose, strays, faults>>

\* A umount of a busy directory fails; so does the mount of a share that has
\* been removed.
GuestRefuses(c) ==
    /\ alive
    /\ calls[c].at \in Awaiting /\ calls[c].answer = None
    /\ \/ calls[c].at = "mount" /\ ~CanMount(calls[c].mount) /\ NoFault
       \/ Fault
    /\ calls' = [calls EXCEPT ![c].answer = "bad"]
    /\ loose' = IF calls[c].at \in {"umount", "undo"} THEN loose \cup {calls[c].mount} ELSE loose
    /\ UNCHANGED <<session, sandbox, server, threads, guest, strays>>

\* What may be mounted once nobody waits for the answer of the guest.
Waits(c) == calls[c].at \in Awaiting /\ calls[c].answer = None
Outcomes(c) ==
    {guest} \cup IF /\ alive /\ Waits(c)
                    /\ calls[c].at = "mount" => CanMount(calls[c].mount)
                 THEN {Works(c)} ELSE {}

\* execute() times out; the guest may have carried the command out.
AnswerLost(c) ==
    /\ Fault
    /\ Waits(c)
    /\ guest' \in Outcomes(c)
    /\ calls' = [calls EXCEPT ![c].answer = "raised"]
    /\ loose' = loose \cup {calls[c].mount}
    /\ UNCHANGED <<session, sandbox, server, threads, strays>>

\* The connection is gone, because QEMU died or _cleanup closed it: whoever
\* waits is told.
Unanswered(all) ==
    [c \in Coroutines |-> IF all[c].at \in Awaiting /\ all[c].answer = None
                          THEN [all[c] EXCEPT !.answer = "raised"] ELSE all[c]]

QemuDies ==
    /\ Fault
    /\ alive /\ alive' = FALSE
    /\ guest' = {}
    /\ calls' = Unanswered(calls)
    /\ UNCHANGED <<session, running, attached, handles, server, threads, loose, strays>>

-----------------------------------------------------------------------------
(* mount().                                                                 *)
Mount(c) ==
    /\ calls[c].at \in {"idle", "done"} /\ IsRunning
    /\ named < session.shares
    /\ AddShare(NewShare)
    /\ calls' = [calls EXCEPT ![c] = [Idle EXCEPT !.at = "mkdir", !.mount = NewShare]]
    /\ UNCHANGED <<session, sandbox, guest, threads, loose, strays, faults>>

\* _mount_cifs_share and _mount_9p_share after an await that did not raise:
\* what is next, and whether it raises before the next await.
NextTry(c) ==
    /\ IsRunning /\ calls[c].at \in {"mkdir", "pause"}
    /\ calls[c].mount[1] = "cifs" => attached
    /\ calls[c].answer # "raised"
    /\ calls[c].at = "mkdir" => calls[c].answer # None
    /\ calls' = Trying(c, calls[c].tries + 1)
    /\ UNCHANGED <<session, sandbox, server, guest, threads, loose, strays, faults>>

Attempts(m) == IF m[1] = "cifs" THEN MaxTries ELSE 1

Pause(c) ==
    /\ calls[c].at = "mount" /\ calls[c].answer = "bad"
    /\ calls[c].tries < Attempts(calls[c].mount)
    /\ calls' = At(c, "pause")
    /\ UNCHANGED <<session, sandbox, server, guest, threads, loose, strays, faults>>

\* The ways the two helpers raise.
MountRaises(c) ==
    \/ calls[c].answer = "raised" /\ calls[c].at \in {"mkdir", "mount"}
    \/ /\ calls[c].at = "pause" \/ (calls[c].at = "mkdir" /\ calls[c].answer # None)
       /\ ~IsRunning \/ (calls[c].mount[1] = "cifs" /\ ~attached)
    \/ /\ calls[c].at = "mount" /\ calls[c].answer = "bad"
       /\ calls[c].tries >= Attempts(calls[c].mount)

Mounted(c) ==
    /\ c # Starter
    /\ calls[c].at = "mount" /\ calls[c].answer = "ok"
    /\ handles' = handles \cup {calls[c].mount}
    /\ calls' = At(c, "done")
    /\ UNCHANGED <<session, running, alive, attached, server, guest, threads, loose, strays, faults>>

MountFails(c) ==
    /\ c # Starter /\ MountRaises(c)
    /\ RemoveShares({calls[c].mount})
    /\ calls' = At(c, "done")
    /\ UNCHANGED <<session, sandbox, named, guest, threads, loose, strays>>

(* unmount(), also of a handle that was unmounted before.                   *)
Unmount(c) ==
    /\ calls[c].at \in {"idle", "done"} /\ IsRunning
    /\ \E s \in Named :
        /\ \/ s \in handles
           \/ \E d \in Callers : calls[d].at = "umount" /\ calls[d].mount = s
        /\ calls' = [calls EXCEPT ![c] = [Idle EXCEPT !.at = "umount", !.mount = s]]
    /\ UNCHANGED <<session, sandbox, server, guest, threads, loose, strays, faults>>

\* Slip: a umount that failed returns before the handle is dropped.
Unmounted_KeepsHandle(c) ==
    /\ calls[c].at = "umount" /\ calls[c].answer \in {"ok", "bad"}
    /\ \/ attached /\ RemoveShares({calls[c].mount})
       \/ ~attached /\ UNCHANGED <<table, config, file, stuck, faults>>
    /\ handles' = IF calls[c].answer = "bad" THEN handles ELSE handles \ {calls[c].mount}
    /\ calls' = At(c, "done")
    /\ UNCHANGED <<session, running, alive, attached, named, guest, threads, loose, strays>>

Unmounted(c) ==
    /\ calls[c].at = "umount" /\ calls[c].answer \in {"ok", "bad"}
    /\ \/ attached /\ RemoveShares({calls[c].mount})
       \/ ~attached /\ UNCHANGED <<table, config, file, stuck, faults>>
    /\ handles' = handles \ {calls[c].mount}
    /\ calls' = At(c, "done")
    /\ UNCHANGED <<session, running, alive, attached, named, guest, threads, loose, strays>>

UnmountRaises(c) ==
    /\ calls[c].at = "umount" /\ calls[c].answer = "raised"
    /\ calls' = At(c, "done")
    /\ UNCHANGED <<session, sandbox, server, guest, threads, loose, strays, faults>>

\* CancelledError is no Exception: a mount(), the rollback of start() or an
\* unmount() that is cancelled takes nothing back any more, neither the share
\* nor the guest's mount nor the handle, and the sandbox runs.
Cancel(c) ==
    /\ Fault
    /\ calls[c].at \in {"settle", "pause"} \cup Awaiting
    /\ guest' \in Outcomes(c)
    /\ loose' = IF calls[c].at \in {"settle", "umount"} THEN loose
                ELSE loose \cup {calls[c].mount}
    /\ calls' = At(c, "done")
    /\ UNCHANGED <<session, sandbox, server, threads, strays>>

-----------------------------------------------------------------------------
(* stop() and _cleanup(): is_running is false before the handles are gone   *)
(* through, so every umount of the loop raises at once and no await of it   *)
(* lets another coroutine run.                                              *)
Cleanup(c) ==
    /\ running' = FALSE /\ handles' = {}
    /\ \/ /\ attached /\ kind = "tcp"
          /\ listener' = "closed"
          /\ calls' = At(c, "join")
          /\ UNCHANGED <<attached, table, config, file, stuck, faults>>
       \/ /\ attached /\ kind # "tcp"
          /\ StopServer /\ attached' = FALSE
          /\ calls' = At(c, "close")
          /\ UNCHANGED listener
       \/ /\ ~attached
          /\ calls' = At(c, "close")
          /\ UNCHANGED <<attached, listener, table, config, file, stuck, faults>>
    /\ UNCHANGED <<session, alive, named, guest, acceptor, conns, loose, strays>>

Stop(c) ==
    /\ calls[c].at \in {"idle", "done"} /\ running
    /\ Cleanup(c)

\* join() returns when the accept thread has ended, or after five seconds.
Joined(c) ==
    /\ calls[c].at = "join"
    /\ StopListed /\ attached' = FALSE
    /\ calls' = At(c, "close")
    /\ UNCHANGED <<session, running, alive, handles, named, guest, threads, loose, strays>>

\* The agent client is closed and QEMU terminated.
\* Slip: the client is closed without telling those who wait.
Close_LeavesWaiting(c) ==
    /\ calls[c].at = "close"
    /\ alive' = FALSE /\ guest' = {}
    /\ calls' = At(c, "done")
    /\ UNCHANGED <<session, running, attached, handles, server, threads, loose, strays, faults>>

Close(c) ==
    /\ calls[c].at = "close"
    /\ alive' = FALSE /\ guest' = {}
    /\ calls' = Unanswered(At(c, "done"))
    /\ UNCHANGED <<session, running, attached, handles, server, threads, loose, strays, faults>>

-----------------------------------------------------------------------------
(* _mount_shares(): the boot-time mounts, in the order of their numbers.     *)
(* `done` holds those that are mounted and, once one has failed, those still *)
(* to be taken back.                                                        *)
Ready == \/ calls[Starter].at = "settle"
         \/ calls[Starter].at = "mount" /\ calls[Starter].answer = "ok"
Sofar == IF calls[Starter].at = "settle" THEN {}
         ELSE calls[Starter].done \cup {calls[Starter].mount}
Following == Cardinality(Sofar) + 1
More == Ready /\ Following <= Len(plan)
Wants(type) == More /\ plan[Following] = type

Begin(m) == [calls EXCEPT ![Starter] = [Idle EXCEPT !.at = "mkdir", !.mount = m,
                                                    !.done = Sofar]]

BootCifs ==
    /\ Wants("cifs") /\ IsRunning /\ attached
    /\ AddShare(NewShare)
    /\ calls' = Begin(NewShare)
    /\ UNCHANGED <<session, sandbox, guest, threads, loose, strays, faults>>

Boot9p ==
    /\ Wants("9p") /\ IsRunning
    /\ calls' = Begin(<<"9p", Following>>)
    /\ UNCHANGED <<session, sandbox, server, guest, threads, loose, strays, faults>>

Booted ==
    /\ Ready /\ ~More
    /\ calls' = [At(Starter, "done") EXCEPT ![Starter].done = Sofar]
    /\ UNCHANGED <<session, sandbox, server, guest, threads, loose, strays, faults>>

\* The first failure ends the list: what was mounted is taken back, 9p first
\* and each kind backwards; the share of the mount that failed is forgotten.
\* Without a running sandbox every umount raises at once and start() goes on to
\* _cleanup, which stops the server.  (A share that is added to a server when
\* QEMU has died, to be stopped at once, is left out.)
BootRaises == \/ MountRaises(Starter)
              \/ More /\ ~IsRunning
              \/ Wants("cifs")          \* add_share raised
Rollback == IF Ready THEN Sofar ELSE calls[Starter].done

UndoneBefore(m, o) == \/ m[1] = "9p" /\ o[1] = "cifs"
                      \/ m[1] = o[1] /\ m[2] > o[2]

UndoNext(rest) ==
    \E m \in rest :
        /\ \A o \in rest \ {m} : UndoneBefore(m, o)
        /\ calls' = [calls EXCEPT ![Starter] = [Idle EXCEPT !.at = "undo", !.mount = m,
                                                           !.done = rest \ {m}]]

BootFails ==
    /\ BootRaises
    /\ calls[Starter].at # "undo"
    /\ \/ /\ IsRunning /\ Rollback # {}
          /\ UndoNext(Rollback)
          /\ loose' = loose \cup ({calls[Starter].mount} \ Rollback)
          /\ UNCHANGED <<session, sandbox, server, guest, threads, strays, faults>>
       \/ /\ ~IsRunning \/ Rollback = {}
          /\ Cleanup(Starter)

\* stop() has run between two boot-time mounts: the next share is added to a
\* server nobody will stop, and the assertion that there is one fails.  On
\* Windows New-SmbShare has published it.
BootStray ==
    /\ Wants("cifs") /\ calls[Starter].at = "mount" /\ ~attached
    /\ AddShare(NewShare)
    /\ handles' = {}
    /\ calls' = At(Starter, "close")
    /\ strays' = strays \cup (config' \ config)
    /\ UNCHANGED <<session, running, alive, attached, guest, threads, loose, faults>>

\* Whatever the umount answered, the share goes.
Undone ==
    /\ calls[Starter].at = "undo" /\ calls[Starter].answer # None
    /\ LET rest == calls[Starter].done IN
       \/ /\ IsRunning /\ rest # {}
          /\ RemoveShares({calls[Starter].mount})
          /\ UndoNext(rest)
          /\ UNCHANGED <<session, sandbox, named, guest, threads, loose, strays>>
       \/ /\ ~IsRunning \/ rest = {}
          /\ Cleanup(Starter)

-----------------------------------------------------------------------------
(* The TCP server: a thread accepts, a thread serves each connection.  A    *)
(* close() of the listening socket may or may not wake the accepting thread,*)
(* and a connection may still be in the backlog.                            *)
Threads == UNCHANGED <<session, sandbox, server, guest, calls, listener, loose, strays, faults>>

Dial(k) ==
    /\ kind = "tcp" /\ alive
    /\ conns[k] = "none" /\ acceptor = "waiting"
    /\ conns' = [conns EXCEPT ![k] = "backlog"]
    /\ UNCHANGED acceptor /\ Threads

\* The loop looks at _stopping before it accepts again.
Accept(k) ==
    /\ acceptor = "waiting" /\ conns[k] = "backlog"
    /\ conns' = [conns EXCEPT ![k] = IF attached THEN "accepted" ELSE "late"]
    /\ acceptor' = IF listener = "closed" THEN "gone" ELSE "waiting"
    /\ Threads

AcceptFails ==
    /\ kind = "tcp" /\ acceptor = "waiting" /\ listener = "closed"
    /\ acceptor' = "gone"
    /\ conns' = [k \in Conns |-> IF conns[k] = "backlog" THEN "closed" ELSE conns[k]]
    /\ Threads

\* Slip: the thread is given the configuration the listener was started with.
Serve_Given(k) ==
    /\ conns[k] \in {"accepted", "late"}
    /\ conns' = [conns EXCEPT ![k] = "serving"]
    /\ UNCHANGED acceptor /\ Threads

\* The thread reads the configuration: there may be none left.
Serve(k) ==
    /\ conns[k] \in {"accepted", "late"}
    /\ conns' = [conns EXCEPT ![k] = IF file THEN "serving" ELSE "closed"]
    /\ UNCHANGED acceptor /\ Threads

HangUp(k) ==
    /\ conns[k] = "serving"
    /\ conns' = [conns EXCEPT ![k] = "closed"]
    /\ UNCHANGED acceptor /\ Threads

-----------------------------------------------------------------------------
Call(c) ==
    \/ Mount(c) \/ Mounted(c) \/ MountFails(c)
    \/ Unmount(c) \/ Unmounted(c) \/ UnmountRaises(c)
    \/ Stop(c)

Step(c) == NextTry(c) \/ Pause(c) \/ Close(c)

Boot == BootCifs \/ Boot9p \/ Booted \/ BootStray \/ BootFails \/ Undone

Coroutine ==
    /\ LoopFree
    /\ \/ \E c \in Callers : Call(c)
       \/ \E c \in Coroutines : Step(c) \/ Cancel(c)
       \/ Boot

Environment ==
    \/ \E c \in Coroutines : GuestAnswers(c) \/ GuestRefuses(c) \/ AnswerLost(c) \/ Joined(c)
    \/ QemuDies
    \/ \E k \in Conns : Dial(k) \/ Accept(k) \/ Serve(k) \/ HangUp(k)
    \/ AcceptFails

Next == Coroutine \/ Environment

\* Every await ends, by an answer or by its timeout (AnswerLost is bounded
\* here, so an answer is what fairness asks of a running guest), and the event
\* loop gets to every coroutine that can go on.
ComesBack(c) == GuestAnswers(c) \/ GuestRefuses(c) \/ Joined(c)
Resumed(c) == LoopFree /\ \/ Step(c)
                          \/ c \in Callers /\ (Mounted(c) \/ MountFails(c))
                          \/ Unmounted(c) \/ UnmountRaises(c)
                          \/ c = Starter /\ Boot
Fairness == \A c \in Coroutines : WF_vars(ComesBack(c) \/ Resumed(c))

Spec == Init /\ [][Next]_vars /\ Fairness

-----------------------------------------------------------------------------
(* Properties.                                                              *)

InFlight == {calls[c].mount : c \in {d \in Coroutines : calls[d].at \in
                                        {"mkdir", "mount", "pause", "umount", "undo"}}}
BootMounted == calls[Starter].done

Owned == handles \cup InFlight \cup BootMounted \cup loose

\* mount() removes the share of a mount that failed, unmount() that of its
\* handle, the rollback those of the boot: while the sandbox runs, a share is
\* somebody's - an active mount's, a boot-time mount's, a call's in progress -
\* unless its call was cancelled or an answer was lost, or it is that of the
\* boot-time mount that failed, which the rollback forgets.
\* After stop() no directory is shared any more: the file is gone, and on
\* Windows only shares that Remove-SmbShare did not remove are left, and
\* ("strays") one that start() publishes after a stop() between two boot-time
\* mounts, which nobody removes.
SharesHaveOwners ==
    /\ running => table \subseteq Owned
    /\ ~attached => config \subseteq stuck \cup strays

\* A handle in active_mounts is served for as long as the sandbox runs: its
\* share is in the table and in what the guest can connect to, whoever else
\* mounts, unmounts, fails or rolls back.  And no directory stays mounted in
\* the guest over a share that is gone, but for those whose umount failed or
\* whose answer was lost.
MountsAreServed ==
    /\ running => \A s \in handles : s \in table /\ s \in config
    /\ attached => \A s \in guest : s[1] = "cifs" => s \in config \cup loose

\* The share table, what is served, the handles and the guest agree
\* (_mounts.py, smb.py).
SharesMatchMounts == SharesHaveOwners /\ MountsAreServed

\* A connection the accept thread takes up after stop() has returned is never
\* served, though closing the socket may not have stopped that thread.
LateConnectionsRefused ==
    [][\A k \in Conns : conns[k] = "late" => conns'[k] \in {"late", "closed"}]_vars

\* mount(), unmount() and stop() end, retries and rollbacks included.
CallsEnd ==
    \A c \in Coroutines : calls[c].at \notin {"idle", "done"} ~> calls[c].at = "done"
=============================================================================
