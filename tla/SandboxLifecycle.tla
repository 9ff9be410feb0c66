--------------------------- MODULE SandboxLifecycle ---------------------------
(***************************************************************************)
(* One Sandbox object (quicksand_core/sandbox) and the QEMU process it     *)
(* drives: start(), stop() with its automatic save, save(), checkpoint()   *)
(* and revert(), called by the coroutines of one event loop.               *)
(*                                                                         *)
(* An action is the code between two awaits; what QEMU does for a QMP      *)
(* command belongs to the action that takes its reply.  A call refused by  *)
(* its first checks raises, changes nothing and is not a step.  start() is *)
(* not called while another call is under way, and QMP is used by one      *)
(* coroutine at a time, as QMPClient, which has no lock, needs (what       *)
(* happens otherwise, and after a call that was cancelled while it waited  *)
(* for a reply, is the subject of module Qemu).  A call may be cancelled   *)
(* at any await; CancelledError is no Exception, and no handler of start() *)
(* and stop() catches it.                                                  *)
(*                                                                         *)
(* A definition named Action_Slip is Action with a slip a programmer could *)
(* make; the specification does not use it.                                *)
(***************************************************************************)
EXTENDS Naturals, Sequences, FiniteSets, Functions

CONSTANTS
    Tasks,        \* coroutines using the sandbox
    Tags,         \* checkpoint tags
    AnyTag,       \* the tag of a task in no checkpoint() or revert()
    MaxStarts,    \* bound: calls of start()
    MaxFaults     \* bound: deaths of QEMU, cancelled calls, failures told by HMP

ASSUME LifecycleAssumption ==
    /\ AnyTag \in Tags
    /\ MaxStarts \in Nat /\ MaxFaults \in Nat

VARIABLES
    \* the Sandbox object
    named,      \* _save_name is set: stop() saves
    running,    \* _is_running
    temp,       \* _temp_dir: the number of a directory, or 0
    smb,        \* _smb_server is set, and up
    agent,      \* _agent_client is set
    qmp,        \* _qmp_client is set
    tags,       \* _qmp_checkpoints
    \* its coroutines
    pc,         \* the await each is at, or "idle"
    arg,        \* the tag it was called with
    autosave,   \* its save() was called by stop()
    deleting,   \* delete_checkpoints: the index of the tag to delete, or 0
    \* QEMU and the file system
    proc,       \* _process: "none", "up" or "dead" (it has exited, the field is set)
    snaps,      \* the snapshots inside the overlay QEMU writes to
    temps,      \* temporary directories
    \* counters and history
    starts, sessions, faults,
    abandoned,  \* directories whose number start() overwrote
    unremoved,  \* directories rmtree failed to remove
    stranded,   \* a start() raised without cleaning up, or a cleanup was cancelled,
                \* and nothing has cleaned up since
    unread,     \* tags whose last savevm or delvm failed, in a text nobody read
    overtook,   \* tags saved while a save() that deletes none was past its check
    crossed     \* a call was cancelled while it waited for a QMP reply

objectVars  == <<named, running, temp, smb, agent, qmp>>
callVars    == <<arg, autosave, deleting>>
qemuVars    == <<proc, snaps>>
countVars   == <<starts, sessions, faults>>
dirVars     == <<temps, abandoned, unremoved, stranded>>
tagHistory  == <<unread, overtook, crossed>>
vars == <<objectVars, tags, pc, callVars, qemuVars, countVars, dirVars, tagHistory>>

IsRunning == running /\ proc = "up"
Idle(t) == pc[t] = "idle"
Fault == faults < MaxFaults /\ faults' = faults + 1
Goto(t, step) == pc' = [pc EXCEPT ![t] = step]

Init ==
    /\ named \in BOOLEAN
    /\ running = FALSE /\ temp = 0
    /\ smb = FALSE /\ agent = FALSE /\ qmp = FALSE
    /\ tags = <<>>
    /\ pc = [t \in Tasks |-> "idle"] /\ arg = [t \in Tasks |-> AnyTag]
    /\ autosave = [t \in Tasks |-> FALSE] /\ deleting = [t \in Tasks |-> 0]
    /\ proc = "none" /\ snaps = {} /\ temps = {}
    /\ starts = 0 /\ sessions = 0 /\ faults = 0
    /\ abandoned = {} /\ unremoved = {} /\ stranded = FALSE
    /\ unread = {} /\ overtook = {} /\ crossed = FALSE

-----------------------------------------------------------------------------
(* _cleanup(), of stop() and of a start() that fails *)

\* _is_running goes first, so that the umounts of mounts made since the boot are
\* refused at once; the SMB server stops and agent.close() is awaited.
BeginCleanup(t) ==
    /\ running' = FALSE /\ smb' = FALSE
    /\ Goto(t, "closeAgent")
    /\ UNCHANGED <<named, temp, qmp>>

AgentClosed(t) ==
    /\ pc[t] = "closeAgent"
    /\ agent' = FALSE
    /\ Goto(t, "closeQmp")
    /\ UNCHANGED <<named, running, temp, smb, qmp, tags, callVars, qemuVars,
                   countVars, dirVars, tagHistory>>

\* qmp.close() has returned.  terminate() forgets the process, also one it could
\* not end (module Qemu); rmtree removes the directory or fails, and _temp_dir
\* forgets it either way.  The next session has a new overlay.
EndCleanup(t) ==
    /\ pc[t] = "closeQmp"
    /\ qmp' = FALSE /\ proc' = "none" /\ temp' = 0
    /\ \/ temps' = temps \ {temp} /\ UNCHANGED unremoved
       \/ unremoved' = unremoved \cup ({temp} \ {0}) /\ UNCHANGED temps
    /\ stranded' = FALSE
    /\ snaps' = {} /\ unread' = {} /\ overtook' = {} /\ crossed' = FALSE
    /\ Goto(t, "idle")
    /\ UNCHANGED <<named, running, smb, agent, tags, callVars, countVars,
                   abandoned>>

\* The call returns or raises; stop() goes on to its cleanup whatever became of
\* the save.
Leave(t) ==
    /\ autosave' = [autosave EXCEPT ![t] = FALSE]
    /\ deleting' = [deleting EXCEPT ![t] = 0]
    /\ arg' = [arg EXCEPT ![t] = AnyTag]
    /\ \/ autosave[t] /\ BeginCleanup(t) /\ UNCHANGED agent
       \/ ~autosave[t] /\ Goto(t, "idle") /\ UNCHANGED objectVars

-----------------------------------------------------------------------------
(* start().  Nothing suspends it until the agent is awaited. *)

NewTemp ==
    /\ ~IsRunning /\ (\A t \in Tasks : Idle(t)) /\ starts < MaxStarts
    /\ starts' = starts + 1
    /\ temp' = starts' /\ temps' = temps \cup {starts'}
    /\ abandoned' = abandoned \cup (temps \cap {temp})
    /\ UNCHANGED unremoved

Start(t) ==
    /\ proc = "none" /\ NewTemp /\ smb' = TRUE
    /\ proc' = "up" /\ stranded' = FALSE
    /\ Goto(t, "agent")
    /\ UNCHANGED <<named, running, agent, qmp, tags, callVars, snaps, sessions,
                   faults, tagHistory>>

\* The disk, the server or the process cannot be set up, or _process is still
\* set ("Process already started"): start() raises and leaves the rest.
StartRaises ==
    /\ NewTemp /\ smb' \in {smb, TRUE} /\ stranded' = TRUE
    /\ UNCHANGED <<named, running, agent, qmp, tags, pc, callVars, qemuVars,
                   sessions, faults, tagHistory>>

AgentConnects_Ready(t) ==
    /\ pc[t] = "agent" /\ proc = "up"
    /\ agent' = TRUE /\ running' = TRUE
    /\ Goto(t, "qmp")
    /\ UNCHANGED <<named, temp, smb, qmp, tags, callVars, qemuVars, countVars,
                   dirVars, tagHistory>>
AgentConnects(t) ==
    /\ pc[t] = "agent" /\ proc = "up"
    /\ agent' = TRUE
    /\ Goto(t, "qmp")
    /\ UNCHANGED <<named, running, temp, smb, qmp, tags, callVars, qemuVars,
                   countVars, dirVars, tagHistory>>

\* The boot timed out or QEMU exited: clean up, then raise.  The client that
\* falls back to HTTP is set before it has connected.
AgentFails_JustRaises(t) ==
    /\ pc[t] = "agent"
    /\ Goto(t, "idle")
    /\ UNCHANGED <<objectVars, tags, callVars, qemuVars, countVars, dirVars,
                   tagHistory>>
AgentFails(t) ==
    /\ pc[t] = "agent"
    /\ agent' \in {agent, TRUE}
    /\ BeginCleanup(t)
    /\ UNCHANGED <<tags, callVars, qemuVars, countVars, dirVars, tagHistory>>

QmpConnects(t) ==
    /\ pc[t] = "qmp" /\ proc = "up"
    /\ qmp' = TRUE /\ running' = TRUE /\ sessions' = sessions + 1
    /\ Goto(t, "mount")
    /\ UNCHANGED <<named, temp, smb, agent, tags, callVars, qemuVars, starts,
                   faults, dirVars, tagHistory>>

\* QMP times out or is refused, and nobody cleans up.
QmpRefuses(t) ==
    /\ pc[t] = "qmp"
    /\ stranded' = TRUE
    /\ Goto(t, "idle")
    /\ UNCHANGED <<objectVars, tags, callVars, qemuVars, countVars, temps,
                   abandoned, unremoved, tagHistory>>

\* There is nothing to mount (a file system that does not grow is not fatal),
\* it was mounted, or start() was cancelled while it was mounting: then it
\* raises, but the sandbox runs.
Mounted(t) ==
    /\ pc[t] = "mount"
    /\ Goto(t, "idle")
    /\ UNCHANGED <<objectVars, tags, callVars, qemuVars, countVars, dirVars,
                   tagHistory>>

MountFails(t) ==
    /\ pc[t] = "mount"
    /\ BeginCleanup(t)
    /\ UNCHANGED <<agent, tags, callVars, qemuVars, countVars, dirVars, tagHistory>>

-----------------------------------------------------------------------------
(* The calls on a running sandbox, up to their first await *)

OverQmp == {"delete", "flush", "pivot", "savevm", "loadvm"}
QmpFree(t) == \A u \in Tasks \ {t} : pc[u] \notin OverQmp
Accepted(t) == Idle(t) /\ IsRunning /\ qmp

BeginSave(t, delete) ==
    /\ deleting' = [deleting EXCEPT ![t] = IF delete THEN 1 ELSE 0]
    /\ Goto(t, "quiesce")
    /\ UNCHANGED <<objectVars, tags, arg, qemuVars, countVars, dirVars, tagHistory>>

Save_OverCheckpoints(t) ==
    /\ Accepted(t)
    /\ \E delete \in BOOLEAN : BeginSave(t, delete)
    /\ UNCHANGED autosave
Save(t) ==
    /\ Accepted(t)
    /\ \E delete \in BOOLEAN : (tags = <<>> \/ delete) /\ BeginSave(t, delete)
    /\ UNCHANGED autosave

\* stop() saves first, if it has a name to save to and the save is accepted.
StopSaves(t) ==
    /\ named /\ Accepted(t) /\ tags = <<>>
    /\ autosave' = [autosave EXCEPT ![t] = TRUE]
    /\ BeginSave(t, FALSE)

Stop(t) ==
    /\ Idle(t) /\ running
    /\ named => ~IsRunning \/ ~qmp \/ tags # <<>>
    /\ BeginCleanup(t)
    /\ UNCHANGED <<agent, tags, callVars, qemuVars, countVars, dirVars, tagHistory>>

Checkpoint(t) ==
    /\ Accepted(t) /\ QmpFree(t)
    /\ \E g \in Tags : arg' = [arg EXCEPT ![t] = g]
    /\ Goto(t, "savevm")
    /\ UNCHANGED <<objectVars, tags, autosave, deleting, qemuVars, countVars,
                   dirVars, tagHistory>>

Revert(t) ==
    /\ Accepted(t) /\ QmpFree(t)
    /\ \E i \in DOMAIN tags : arg' = [arg EXCEPT ![t] = tags[i]]
    /\ Goto(t, "loadvm")
    /\ UNCHANGED <<objectVars, tags, autosave, deleting, qemuVars, countVars,
                   dirVars, tagHistory>>

-----------------------------------------------------------------------------
(* Their steps.  QEMU carries out the command and its reply is read. *)

Replied(t, command) == pc[t] = command /\ proc = "up" /\ qmp

\* sync and fstrim, which the agent runs alone, have returned.
Quiesced(t) ==
    /\ pc[t] = "quiesce" /\ IsRunning /\ QmpFree(t)
    /\ Goto(t, IF deleting[t] = 0 THEN "flush" ELSE "delete")
    /\ UNCHANGED <<objectVars, tags, callVars, qemuVars, countVars, dirVars,
                   tagHistory>>

\* HMP tells of a failure in the text of a reply that is no error.
Deleted(t) ==
    /\ Replied(t, "delete") /\ deleting[t] <= Len(tags)
    /\ LET g == tags[deleting[t]] IN
       \/ /\ snaps' = snaps \ {g}
          /\ unread' = unread \ {g} /\ overtook' = overtook \ {g} /\ UNCHANGED faults
       \/ unread' = unread \cup {g} /\ Fault /\ UNCHANGED <<snaps, overtook>>
    /\ deleting' = [deleting EXCEPT ![t] = @ + 1]
    /\ UNCHANGED <<objectVars, tags, pc, arg, autosave, proc, starts, sessions, dirVars,
                   crossed>>

DeletedAll_KeepsTags(t) ==
    /\ pc[t] = "delete" /\ deleting[t] > Len(tags)
    /\ deleting' = [deleting EXCEPT ![t] = 0]
    /\ Goto(t, "flush")
    /\ UNCHANGED <<objectVars, tags, arg, autosave, qemuVars, countVars, dirVars,
                   tagHistory>>
DeletedAll(t) ==
    /\ pc[t] = "delete" /\ deleting[t] > Len(tags)
    /\ tags' = <<>>
    /\ deleting' = [deleting EXCEPT ![t] = 0]
    /\ Goto(t, "flush")
    /\ UNCHANGED <<objectVars, arg, autosave, qemuVars, countVars, dirVars,
                   tagHistory>>

Flushed(t) ==
    /\ Replied(t, "flush")
    /\ Goto(t, "pivot")
    /\ UNCHANGED <<objectVars, tags, callVars, qemuVars, countVars, dirVars,
                   tagHistory>>

\* QEMU writes to a new overlay from now on; the old one is copied in the
\* same breath, and save() returns, or raises when the copy fails.
Pivoted(t) ==
    /\ Replied(t, "pivot")
    /\ snaps' = {}
    /\ Leave(t)
    /\ UNCHANGED <<tags, proc, countVars, dirVars, tagHistory>>

\* An error of the agent or of blockdev-snapshot-sync.
SaveFails(t) ==
    /\ pc[t] \in {"quiesce", "pivot"}
    /\ Leave(t)
    /\ UNCHANGED <<tags, qemuVars, countVars, dirVars, tagHistory>>

\* savevm replaces a snapshot of the same name, or fails in a text nobody
\* reads, perhaps when the old one is gone already; the tag is listed.
Checkpointed(t) ==
    /\ Replied(t, "savevm")
    /\ \/ snaps' = snaps \cup {arg[t]} /\ unread' = unread \ {arg[t]} /\ UNCHANGED faults
       \/ snaps' \in {snaps, snaps \ {arg[t]}} /\ unread' = unread \cup {arg[t]} /\ Fault
    /\ overtook' = IF \E u \in Tasks : pc[u] = "quiesce" /\ deleting[u] = 0
                   THEN overtook \cup {arg[t]} ELSE overtook \ {arg[t]}
    /\ tags' = IF arg[t] \in Range(tags) THEN tags ELSE Append(tags, arg[t])
    /\ Leave(t)
    /\ UNCHANGED <<proc, starts, sessions, dirVars, crossed>>

\* HMP reports an unknown snapshot in a text nobody reads.
Reverted(t) ==
    /\ Replied(t, "loadvm")
    /\ Leave(t)
    /\ UNCHANGED <<tags, qemuVars, countVars, dirVars, tagHistory>>

\* No reply: QEMU is gone, or another call has closed the connection.
ReplyLost_OnlyWhenClosed(t) ==
    /\ pc[t] \in OverQmp /\ ~qmp
    /\ Leave(t)
    /\ UNCHANGED <<tags, qemuVars, countVars, dirVars, tagHistory>>
ReplyLost(t) ==
    /\ pc[t] \in OverQmp /\ (proc # "up" \/ ~qmp)
    /\ Leave(t)
    /\ UNCHANGED <<tags, qemuVars, countVars, dirVars, tagHistory>>

-----------------------------------------------------------------------------
(* Cancellation *)

\* Nobody cleans up after a start() that is cancelled before the sandbox runs.
CancelStart(t) ==
    /\ pc[t] \in {"agent", "qmp"}
    /\ \/ pc[t] = "agent" /\ agent' \in {agent, TRUE}
       \/ pc[t] = "qmp" /\ UNCHANGED agent
    /\ stranded' = TRUE
    /\ Goto(t, "idle")
    /\ UNCHANGED <<named, running, temp, smb, qmp, tags, callVars, qemuVars, temps,
                   abandoned, unremoved, tagHistory>>

\* A cleanup ends at the await: the sandbox is down, so that stop() returns at
\* once, and what comes after the await stays.
CancelCleanup(t) ==
    /\ \/ pc[t] = "closeAgent" /\ agent /\ agent' = FALSE
       \/ pc[t] = "closeQmp" /\ qmp /\ UNCHANGED agent
    /\ stranded' = TRUE
    /\ Goto(t, "idle")
    /\ UNCHANGED <<named, running, temp, smb, qmp, tags, callVars, qemuVars, temps,
                   abandoned, unremoved, tagHistory>>

\* save(), checkpoint() or revert() ends, and a stop() that was saving too,
\* without its cleanup.  QEMU may have the command already, or never get it.
Outcomes(t) ==
    CASE pc[t] = "delete" -> {snaps \ {g} : g \in Range(tags)}
      [] pc[t] = "savevm" -> {snaps \cup {arg[t]}, snaps \ {arg[t]}}
      [] pc[t] = "pivot" -> {{}}
      [] OTHER -> {}
CancelCall(t) ==
    /\ pc[t] \in {"quiesce"} \cup OverQmp
    /\ snaps' \in {snaps} \cup {s \in Outcomes(t) : proc = "up"}
    /\ crossed' = (crossed \/ (pc[t] \in OverQmp /\ proc = "up"))
    /\ autosave' = [autosave EXCEPT ![t] = FALSE]
    /\ deleting' = [deleting EXCEPT ![t] = 0]
    /\ arg' = [arg EXCEPT ![t] = AnyTag]
    /\ Goto(t, "idle")
    /\ UNCHANGED <<objectVars, tags, proc, dirVars, unread, overtook>>

Cancel(t) ==
    /\ Fault
    /\ CancelStart(t) \/ CancelCleanup(t) \/ CancelCall(t)
    /\ UNCHANGED <<starts, sessions>>

QemuDies ==
    /\ proc = "up" /\ Fault
    /\ proc' = "dead"
    /\ UNCHANGED <<objectVars, tags, pc, callVars, snaps, starts, sessions,
                   dirVars, tagHistory>>

-----------------------------------------------------------------------------
\* A coroutine goes on from the await it is at.
Continues(t) ==
    \/ AgentConnects(t) \/ AgentFails(t) \/ QmpConnects(t) \/ QmpRefuses(t)
    \/ Mounted(t) \/ MountFails(t)
    \/ AgentClosed(t) \/ EndCleanup(t)
    \/ Quiesced(t) \/ Deleted(t) \/ DeletedAll(t) \/ Flushed(t) \/ Pivoted(t)
    \/ SaveFails(t) \/ Checkpointed(t) \/ Reverted(t) \/ ReplyLost(t)

Calls(t) ==
    \/ Start(t) \/ Save(t) \/ StopSaves(t) \/ Stop(t)
    \/ Checkpoint(t) \/ Revert(t)

Next ==
    \/ QemuDies \/ StartRaises
    \/ \E t \in Tasks : Calls(t) \/ Continues(t) \/ Cancel(t)

Spec == Init /\ [][Next]_vars

\* Every await ends: the agent's requests and the boot have timeouts, and a
\* QEMU that is up answers (QMPClient.execute has no timeout).
FairSpec == Spec /\ \A t \in Tasks : WF_vars(Continues(t))

-----------------------------------------------------------------------------
Steps == {"idle", "agent", "qmp", "mount", "closeAgent", "closeQmp",
          "quiesce"} \cup OverQmp

\* Types; a tag is listed once, however often it is saved (the test before
\* _qmp_checkpoints.append).
TypeOK ==
    /\ {named, running, smb, agent, qmp, stranded, crossed} \subseteq BOOLEAN
    /\ {temp, starts, sessions, faults} \subseteq Nat
    /\ tags \in Seq(Tags) /\ IsInjective(tags)
    /\ pc \in [Tasks -> Steps] /\ arg \in [Tasks -> Tags]
    /\ autosave \in [Tasks -> BOOLEAN] /\ deleting \in [Tasks -> Nat]
    /\ proc \in {"none", "up", "dead"}
    /\ snaps \subseteq Tags /\ unread \subseteq Tags /\ overtook \subseteq Tags
    /\ temps \subseteq 1..starts /\ abandoned \cup unremoved \subseteq temps

\* When nobody is in a call and the sandbox is not running, start() having
\* failed, stop() having returned or QEMU's death having been tidied up,
\* nothing is left of it: no process it knows of, no server, connection or
\* directory, but for the directories that rmtree could not remove or a start()
\* had forgotten before.  After a start() that failed before the boot or at QMP,
\* and after a start() or stop() that was cancelled before its end, everything
\* may be left ("stranded").
NothingLeaks ==
    (\A t \in Tasks : Idle(t)) /\ ~running /\ ~stranded =>
        /\ proc = "none" /\ temp = 0 /\ temps = abandoned \cup unremoved
        /\ ~smb /\ ~agent /\ ~qmp

\* is_running promises a connected agent, a QMP connection, a server for the
\* mounts and the directory the overlay is in, whatever the other coroutines
\* are doing, a stop() included.
ReadyWhileRunning == IsRunning => agent /\ qmp /\ smb /\ temp \in temps

\* revert() refuses what is not listed, so in the first session of the object a
\* loadvm is sent for a snapshot the overlay has, across failed starts, saves
\* with delete_checkpoints and saves that fail on the way; but not for a tag
\* whose savevm failed in a text nobody read, nor for one that was saved while a
\* save() was past its check and is now in the frozen overlay, nor after a call
\* was cancelled in the middle of QMP.  (Later sessions keep the tags of earlier
\* ones, whose snapshots are gone.)
FirstSessionReverts ==
    sessions = 1 /\ ~crossed =>
        \A t \in Tasks : Replied(t, "loadvm") /\ IsRunning =>
            arg[t] \in snaps \cup unread \cup overtook

\* When QEMU pivots away from an overlay, which is then copied, it holds no
\* checkpoint, whatever other calls did between the save's check and now; but
\* one whose delvm failed in a text nobody read, or that was saved after the
\* check of a save() that deletes none, is in the copy, and after a cancelled
\* QMP call nothing is known.
NoCheckpointFrozen ==
    ~crossed =>
        \A t \in Tasks : Replied(t, "pivot") => snaps \subseteq unread \cup overtook

\* Every call returns or raises, also when QEMU dies or another call stops the
\* sandbox in the middle.
CallsEnd == \A t \in Tasks : pc[t] # "idle" ~> pc[t] = "idle"
=============================================================================
