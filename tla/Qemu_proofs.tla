---------------------------- MODULE Qemu_proofs ----------------------------
(***************************************************************************)
(* Proofs about a QEMU and the disks below it.                             *)
(*                                                                         *)
(* Qemu: terminate() leaves only a slow QEMU behind, and the calls on the  *)
(* control connection stay in step as long as no two overlap, for any      *)
(* number of coroutines and any sessions.                                  *)
(*                                                                         *)
(* SaveStore: loading a save gives back the disk that was saved, a save    *)
(* survives what fails or dies later, and no sandbox writes to a layer     *)
(* that another sandbox or a save has, for any sandboxes, images and save  *)
(* names.                                                                  *)
(***************************************************************************)
EXTENDS Qemu, SaveStore, SequenceTheorems, FiniteSetTheorems, TLAPS

----------------------------------------------------------------------------
(* The processes of a QEMU *)

\* What terminate() relies on: the reaper goes after QEMU or is killed, and it is
\* killed only after a SIGTERM was forwarded and a wait has passed, in which a
\* QEMU that goes when told to has gone.
ProcessInv ==
    /\ qemu \in {"up", "leaving", "dead"} /\ reaper \in {"up", "dead"} /\ forward \in Nat
    /\ session \in Sessions
    /\ client <=> host = "running"
    /\ host \in {"kill", "stopped"} => reaper = "dead"
    /\ reaper = "dead" => qemu # "up" /\ (qemu = "dead" \/ session.manner # "prompt")
    /\ host = "term" /\ reaper = "up" =>
         /\ forward > 0 \/ qemu # "up"
         /\ forward > 0 \/ session.manner = "prompt" => hostLeft = HostWait


\* Initially everything runs.
LEMMA ProcessInit == ASSUME QemuInit PROVE ProcessInv
  BY DEF QemuInit, ProcessInv

\* Time does not pass while a SIGTERM is to be forwarded or a prompt QEMU is
\* about to go, so the host does not run out of patience then.
LEMMA ProcessStep == ASSUME ProcessInv, [QemuNext]_qemuVars PROVE ProcessInv'
<1> USE QemuAssumption DEF ProcessInv, processVars, Terminated
<1>1. CASE ReadsChunk \/ WritesChunk
  BY <1>1 DEF ReadsChunk, WritesChunk, qmpVars
<1>2. CASE Kill \/ KillHarder
  BY <1>2 DEF Kill, KillHarder, qmpVars
<1>3. CASE Forward
  BY <1>3 DEF Forward, qmpVars
<1>4. CASE ReaperExits
  BY <1>4 DEF ReaperExits, qmpVars
<1>5. CASE WriteSerial \/ Terminate \/ HostDies
  BY <1>5 DEF WriteSerial, Terminate, HostDies, qmpVars
<1>6. CASE SendTerminate
  BY <1>6 DEF SendTerminate, qmpVars
<1>7. CASE SendKill
  BY <1>7 DEF SendKill, qmpVars
<1>8. CASE Waited
  BY <1>8 DEF Waited, qmpVars
<1>9. CASE QemuReads \/ QemuLeaves \/ QemuDies
  BY <1>9 DEF QemuReads, QemuLeaves, QemuDies, qmpVars
<1>10. CASE QemuAnswers \/ QemuRefuses \/ QemuTells
  BY <1>10 DEF QemuAnswers, QemuRefuses, QemuTells
<1>11. CASE Tick
  <2>1. UNCHANGED <<host, reaper, forward, session, qemu, client>> /\ ~Busy
    BY <1>11 DEF Tick, qmpVars
  <2>2. host = "term" /\ reaper = "up" => forward = 0 /\ session.manner # "prompt"
    BY <2>1 DEF Busy
  <2> QED
    BY <2>1, <2>2
<1>12. ASSUME NEW u \in Users, User(u) PROVE ProcessInv'
  BY <1>12 DEF User, Begin, Read, Resume, Continue, Cancel
<1>13. CASE UNCHANGED qemuVars
  BY <1>13 DEF qemuVars, qmpVars
<1> QED
  BY <1>1, <1>2, <1>3, <1>4, <1>5, <1>6, <1>7, <1>8, <1>9, <1>10, <1>11, <1>12,
     <1>13 DEF QemuNext, Reaper, Host, Process

\* The processes are where terminate() expects them.
THEOREM ProcessTheorem == QemuSpec => []ProcessInv
  BY ProcessInit, ProcessStep, PTL DEF QemuSpec

\* What terminate() leaves behind does not go when it is told to: a QEMU that
\* does is gone before the reaper that watches it is killed, whatever blocks the
\* reaper's thread (VMProcessManager.terminate, _reaper.py).
THEOREM OrphansTheorem == QemuSpec => []OrphansAreSlow
<1>1. ProcessInv => OrphansAreSlow
  BY DEF ProcessInv, OrphansAreSlow
<1> QED
  BY <1>1, ProcessTheorem, PTL

----------------------------------------------------------------------------
(* The control connection, as long as no two calls overlap *)

CommandNames == {"down", "up", "key", "dump"}
Commands == [what : CommandNames, by : Nat]
LineSet == [type : {"event", "return", "error"}, to : Nat \cup {None},
            what : CommandNames \cup {None}]

\* What a call may have left; the first is the command it waits for.
Remainders == {<<"down", "up">>, <<"up">>, <<"key", "key">>, <<"key">>, <<"dump">>,
               <<"down", "up", "pause", "down", "up">>, <<"up", "pause", "down", "up">>}
Calls == [at : {"idle", "pause"} \cup Inside, id : Nat, left : Remainders \cup {<<>>}]

Executing(u) == user[u].at \in Inside

CallTypes ==
    /\ user \in [Users -> Calls]
    /\ inbox \in Seq(Commands) /\ stream \in Seq(LineSet) /\ buf \in Seq(LineSet)
    /\ spent \in [calls : Nat, events : Nat, errors : Nat, cuts : Nat, serial : Nat]

\* One call at a time is inside execute; one that waits has read all there was.
ScriptInv ==
    /\ \A u, v \in Users : Executing(u) /\ Executing(v) => u = v
    /\ \A u \in Users :
         /\ Executing(u) => user[u].left # <<>>
         /\ user[u].at = "pause" => user[u].left = <<"down", "up">>
         /\ user[u].at \in {"waiting", "woken"} => buf = <<>>
         /\ user[u].at = "woken" => stream # <<>>

\* There is at most one answer, and it is for the call inside execute.
ReplyInv ==
    /\ \A i, j \in Replies : i = j
    /\ \A i \in Replies :
         /\ spent.errors = 0 => Lines[i].type = "return"
         /\ \E u \in Users : Executing(u) /\ user[u].id = Lines[i].to

\* QEMU has at most the command of that call, and has not answered it.
InboxInv == qemu = "up" /\ inbox # <<>> =>
    /\ Len(inbox) = 1 /\ Replies = {}
    /\ \E u \in Users : /\ Executing(u) /\ inbox[1].by = user[u].id
                        /\ inbox[1].what = Head(user[u].left)

\* The button is down only between the "down" of a call and its "up".
ButtonInv == pressed /\ qemu = "up" /\ spent.errors = 0 =>
    \E u \in Users : /\ Executing(u)
                     /\ Head(user[u].left) = IF inbox = <<>> THEN "down" ELSE "up"

\* A temporary file belongs to a call that is not over.
FilesInv == \A f \in files : \E u \in Users : user[u].at # "idle" /\ user[u].id = f

CallsInv == CallTypes /\ ScriptInv /\ ReplyInv /\ InboxInv /\ ButtonInv /\ FilesInv
InStep == ~crossed => ~mixed /\ CallsInv

\* Initially nobody calls.
LEMMA CallsInit == ASSUME QemuInit PROVE ~mixed /\ CallsInv
<1>1. buf = <<>> /\ stream = <<>> /\ inbox = <<>> /\ ~mixed /\ files = {} /\ ~pressed
  BY DEF QemuInit
<1>2. \A u \in Users : user[u] = Resting
  BY DEF QemuInit
<1>3. CallTypes
  BY DEF QemuInit, CallTypes, Calls, Resting, Remainders
<1>4. Replies = {}
  BY <1>1 DEF Replies, Lines
<1>5. ScriptInv
  BY <1>2 DEF ScriptInv, Executing, Resting, Inside
<1> QED
  BY <1>1, <1>3, <1>4, <1>5 DEF CallsInv, ReplyInv, InboxInv, ButtonInv, FilesInv

\* A line QEMU sends is one more line, and a reply unless it is an event.
LEMMA OneMore ==
  ASSUME CallTypes, NEW line \in LineSet, UNCHANGED buf,
         stream' = Append(stream, line)
  PROVE  /\ stream' \in Seq(LineSet) /\ stream' # <<>> /\ Len(Lines) \in Nat
         /\ \A i \in Replies : i \in 1..Len(Lines) /\ Lines'[i] = Lines[i]
         /\ Lines'[Len(Lines) + 1] = line
         /\ Replies' = Replies \cup (IF line.type = "event" THEN {} ELSE {Len(Lines) + 1})
<1>1. buf \in Seq(LineSet) /\ stream \in Seq(LineSet)
  BY DEF CallTypes
<1>2. /\ Lines \in Seq(LineSet) /\ Lines' = Append(Lines, line)
      /\ stream' \in Seq(LineSet) /\ stream' # <<>>
  <2>1. Lines \in Seq(LineSet)
    BY <1>1, ConcatProperties DEF Lines
  <2>2. stream' \in Seq(LineSet) /\ stream' # <<>>
    BY <1>1, AppendProperties
  <2>3. buf \o Append(stream, line) = Append(buf \o stream, line)
    <3>1. Append(stream, line) = stream \o <<line>> /\ <<line>> \in Seq(LineSet)
      BY <1>1, AppendIsConcat
    <3>2. Append(buf \o stream, line) = (buf \o stream) \o <<line>>
      BY <2>1, AppendIsConcat DEF Lines
    <3>3. buf \o (stream \o <<line>>) = (buf \o stream) \o <<line>>
      BY <1>1, <3>1, ConcatAssociative
    <3> QED
      BY <3>1, <3>2, <3>3
  <2> QED
    BY <2>1, <2>2, <2>3 DEF Lines
<1>3. /\ Len(Lines) \in Nat /\ Len(Lines') = Len(Lines) + 1
      /\ \A i \in 1..Len(Lines) : Lines'[i] = Lines[i]
      /\ Lines'[Len(Lines) + 1] = line
  <2> HIDE DEF Lines
  <2> QED
    BY <1>2, AppendProperties
<1>4. Replies' = {i \in 1..Len(Lines') : Lines'[i].type # "event"}
  BY DEF Replies
<1>5. Replies = {i \in 1..Len(Lines) : Lines[i].type # "event"}
  BY DEF Replies
<1> HIDE DEF Lines, Replies
<1> QED
  BY <1>2, <1>3, <1>4, <1>5

\* The reader takes the only answer there is and leaves none.
LEMMA TakesTheAnswer ==
  ASSUME CallTypes, ReplyInv, Replies # {}, NEW u \in Users, Take(u)
  PROVE  /\ First \in Replies /\ Replies' = {}
         /\ buf' \in Seq(LineSet) /\ stream' \in Seq(LineSet)
<1>1. /\ buf \in Seq(LineSet) /\ stream \in Seq(LineSet)
      /\ Len(buf) \in Nat /\ Len(stream) \in Nat
  BY DEF CallTypes
<1>2. /\ Lines \in Seq(LineSet) /\ Len(Lines) = Len(buf) + Len(stream)
      /\ \A i \in 1..Len(Lines) :
           Lines[i] = IF i <= Len(buf) THEN buf[i] ELSE stream[i - Len(buf)]
  BY <1>1, ConcatProperties DEF Lines
<1>3. Replies \subseteq 1..Len(Lines) /\ \A i, j \in Replies : i = j
  BY DEF Replies, ReplyInv
<1>4. First \in Replies
  <2>1. \E i \in Replies : \A j \in Replies : i <= j
    <3>1. PICK i \in Replies : \A j \in Replies : i = j
      BY <1>3
    <3>2. i <= i
      BY <1>1, <1>2, <1>3
    <3> QED
      BY <3>1, <3>2
  <2> QED
    BY <2>1 DEF First
<1> DEFINE last == IF First <= Len(buf) THEN Len(buf) ELSE Len(Lines)
<1>5. /\ First \in 1..Len(Lines) /\ last \in Nat /\ last <= Len(Lines)
      /\ buf' = SubSeq(Lines, First + 1, last)
      /\ stream' = IF First <= Len(buf) THEN stream ELSE <<>>
  BY <1>1, <1>2, <1>3, <1>4 DEF Take
<1>6. \A i \in 1..Len(Lines) : i # First => Lines[i] \in LineSet /\ Lines[i].type = "event"
  BY <1>2, <1>3, <1>4 DEF Replies
<1> HIDE DEF last, Lines, First
<1>7. /\ buf' \in Seq(LineSet)
      /\ \A i \in 1..Len(buf') : buf'[i].type = "event"
  <2>1. First + 1 \in Int /\ last \in Int /\ \A i \in First + 1 .. last : Lines[i] \in LineSet
    BY <1>2, <1>5, <1>6
  <2>2. /\ buf' \in Seq(LineSet)
        /\ Len(buf') = IF First + 1 <= last THEN last - (First + 1) + 1 ELSE 0
        /\ \A i \in 1 .. last - (First + 1) + 1 : buf'[i] = Lines[First + 1 + i - 1]
    BY <1>5, <2>1, SubSeqProperties
  <2>3. ASSUME NEW i \in 1..Len(buf') PROVE buf'[i].type = "event"
    <3>1. i \in 1 .. last - (First + 1) + 1 /\ First + i \in 1..Len(Lines) /\ First + i # First
      BY <1>1, <1>2, <1>5, <2>2
    <3>2. buf'[i] = Lines[First + i]
      BY <1>5, <2>2, <3>1
    <3> QED
      BY <1>6, <3>1, <3>2
  <2> QED
    BY <2>2, <2>3
<1>8. /\ stream' \in Seq(LineSet)
      /\ \A i \in 1..Len(stream') : stream'[i].type = "event"
  <2>1. CASE First <= Len(buf)
    <3>1. stream' = stream
      BY <1>5, <2>1
    <3>2. ASSUME NEW i \in 1..Len(stream) PROVE stream[i].type = "event"
      <4>1. Len(buf) + i \in 1..Len(Lines) /\ Len(buf) + i # First
        BY <1>1, <1>2, <1>5, <2>1
      <4>2. Lines[Len(buf) + i] = stream[i]
        BY <1>1, <1>2, <4>1
      <4> QED
        BY <1>6, <4>1, <4>2
    <3> QED
      BY <1>1, <3>1, <3>2
  <2>2. CASE ~(First <= Len(buf))
    <3>1. stream' = <<>>
      BY <1>5, <2>2
    <3> QED
      BY <3>1, EmptySeq
  <2> QED
    BY <2>1, <2>2
<1>9. Replies' = {}
  <2>1. Lines' = buf' \o stream'
    BY DEF Lines
  <2>2. /\ Len(Lines') = Len(buf') + Len(stream')
        /\ Len(buf') \in Nat /\ Len(stream') \in Nat
        /\ \A i \in 1..Len(Lines') :
             Lines'[i] = IF i <= Len(buf') THEN buf'[i] ELSE stream'[i - Len(buf')]
    BY <1>7, <1>8, <2>1, ConcatProperties
  <2>3. ASSUME NEW i \in 1..Len(Lines') PROVE Lines'[i].type = "event"
    <3>1. CASE i <= Len(buf')
      BY <1>7, <2>2, <3>1
    <3>2. CASE ~(i <= Len(buf'))
      <4>1. i - Len(buf') \in 1..Len(stream')
        BY <2>2, <3>2
      <4> QED
        BY <1>8, <2>2, <3>2, <4>1
    <3> QED
      BY <3>1, <3>2
  <2>4. Replies' = {i \in 1..Len(Lines') : Lines'[i].type # "event"}
    BY DEF Replies
  <2> QED
    BY <2>3, <2>4
<1> QED
  BY <1>4, <1>7, <1>8, <1>9

\* What a call sends after each of its commands, and what follows a "down".
LEMMA Scripts ==
  /\ \A c \in {"click", "double", "keys", "picture"} : Script[c] \in Remainders
  /\ <<"down", "up">> \in Remainders
  /\ \A l \in Remainders :
       /\ l # <<>> /\ Head(l) \in CommandNames
       /\ Tail(l) # <<>> /\ Head(Tail(l)) # "pause" => Tail(l) \in Remainders
       /\ Tail(l) # <<>> /\ Head(Tail(l)) = "pause" => Tail(Tail(l)) = <<"down", "up">>
       /\ Head(l) = "down" => Tail(l) # <<>> /\ Head(Tail(l)) = "up"
<1>1. \A c \in {"click", "double", "keys", "picture"} : Script[c] \in Remainders
  BY DEF Script, Remainders
<1>2. <<"down", "up">> \in Remainders
  BY DEF Remainders
<1>3. ASSUME NEW l \in Remainders
      PROVE  /\ l # <<>> /\ Head(l) \in CommandNames
             /\ Tail(l) # <<>> /\ Head(Tail(l)) # "pause" => Tail(l) \in Remainders
             /\ Tail(l) # <<>> /\ Head(Tail(l)) = "pause" => Tail(Tail(l)) = <<"down", "up">>
             /\ Head(l) = "down" => Tail(l) # <<>> /\ Head(Tail(l)) = "up"
  <2>1. CASE l = <<"down", "up">>
    BY <2>1 DEF Remainders, CommandNames
  <2>2. CASE l = <<"up">>
    BY <2>2 DEF Remainders, CommandNames
  <2>3. CASE l = <<"key", "key">>
    BY <2>3 DEF Remainders, CommandNames
  <2>4. CASE l = <<"key">>
    BY <2>4 DEF Remainders, CommandNames
  <2>5. CASE l = <<"dump">>
    BY <2>5 DEF Remainders, CommandNames
  <2>6. CASE l = <<"down", "up", "pause", "down", "up">>
    <3>1. Tail(l) = <<"up", "pause", "down", "up">>
      BY <2>6
    <3> QED
      BY <2>6, <3>1 DEF Remainders, CommandNames
  <2>7. CASE l = <<"up", "pause", "down", "up">>
    <3>1. Tail(l) = <<"pause", "down", "up">>
      BY <2>7
    <3>2. Tail(<<"pause", "down", "up">>) = <<"down", "up">>
      OBVIOUS
    <3> QED
      BY <2>7, <3>1, <3>2 DEF Remainders, CommandNames
  <2> QED
    BY <2>1, <2>2, <2>3, <2>4, <2>5, <2>6, <2>7 DEF Remainders
<1> QED
  BY <1>1, <1>2, <1>3

\* A step that does not touch the connection.
LEMMA ApartInv ==
  ASSUME CallsInv, UNCHANGED <<user, inbox, stream, buf, guestVars>>,
         qemu' = "up" => qemu = "up", spent'.errors = spent.errors,
         spent' \in [calls : Nat, events : Nat, errors : Nat, cuts : Nat, serial : Nat]
  PROVE  CallsInv'
<1>1. Lines' = Lines /\ Replies' = Replies
  BY DEF Lines, Replies
<1>2. CallTypes' /\ ScriptInv' /\ FilesInv'
  BY DEF CallsInv, CallTypes, ScriptInv, FilesInv, Executing, guestVars
<1>3. ReplyInv'
  <2> HIDE DEF Lines, Replies
  <2> QED
    BY <1>1 DEF CallsInv, ReplyInv, Executing
<1>4. InboxInv' /\ ButtonInv'
  <2> HIDE DEF Lines, Replies
  <2> QED
    BY <1>1 DEF CallsInv, InboxInv, ButtonInv, Executing, guestVars
<1> QED
  BY <1>2, <1>3, <1>4 DEF CallsInv

\* A call sends a command when no other is inside execute: there is nothing on
\* the connection then but events.
LEMMA SendInv ==
  ASSUME CallsInv, NEW u \in Users, NEW n \in Nat, NEW left \in Remainders,
         Send(u, n, left), ~crossed', Replies' = {}, qemu = "up" => inbox = <<>>,
         buf' \in Seq(LineSet), stream' \in Seq(LineSet), files' \subseteq files \cup {n},
         user[u].at = "idle" \/ n = user[u].id,
         pressed /\ qemu = "up" /\ spent.errors = 0 => Head(left) = "up",
         UNCHANGED <<qemu, pressed>>, spent'.errors = spent.errors,
         spent' \in [calls : Nat, events : Nat, errors : Nat, cuts : Nat, serial : Nat]
  PROVE  CallsInv'
<1> DEFINE cmd == [what |-> Head(left), by |-> n]
<1>1. /\ user \in [Users -> Calls] /\ inbox \in Seq(Commands)
      /\ user' = [user EXCEPT ![u] = [at |-> "reading", id |-> n, left |-> left]]
      /\ inbox' = Append(inbox, cmd) /\ cmd \in Commands
      /\ \A v \in Users \ {u} : ~Executing(v)
  BY Scripts DEF CallsInv, CallTypes, Send, Executing, Commands
<1>2. /\ Executing(u)' /\ user'[u].left = left /\ user'[u].id = n
      /\ user'[u].at = "reading"
      /\ \A v \in Users \ {u} : user'[v] = user[v]
      /\ user' \in [Users -> Calls]
  BY <1>1 DEF Executing, Inside, Calls
<1>3. inbox' \in Seq(Commands) /\ inbox' # <<>>
  BY <1>1, AppendProperties
<1>4. qemu = "up" => Len(inbox') = 1 /\ inbox'[1] = cmd
  <2>1. SUFFICES ASSUME inbox = <<>> PROVE Len(inbox') = 1 /\ inbox'[1] = cmd
    OBVIOUS
  <2>2. Len(inbox) = 0
    BY <1>1, <2>1
  <2> HIDE DEF cmd
  <2> QED
    BY <1>1, <2>2, AppendProperties
<1>5. CallTypes'
  BY <1>2, <1>3 DEF CallTypes
<1>6. ScriptInv'
  BY <1>1, <1>2, Scripts DEF CallsInv, ScriptInv, Executing, Inside
<1>7. ReplyInv'
  BY DEF ReplyInv
<1>8. InboxInv'
  BY <1>2, <1>4 DEF InboxInv
<1>9. ButtonInv'
  BY <1>2, <1>3 DEF ButtonInv
<1>10. FilesInv'
  BY <1>1, <1>2 DEF CallsInv, FilesInv
<1> QED
  BY <1>5, <1>6, <1>7, <1>8, <1>9, <1>10 DEF CallsInv

\* A call leaves execute: the button is up and nothing is on the connection but
\* events, or QEMU is no longer up.
LEMMA LeaveInv ==
  ASSUME CallsInv, NEW u \in Users, Executing(u), NEW c \in Calls,
         user' = [user EXCEPT ![u] = c], c.at \in {"idle", "pause"},
         c.at = "pause" => c.left = <<"down", "up">>,
         Replies' = {}, qemu = "up" => inbox = <<>>,
         buf' \in Seq(LineSet), stream' \in Seq(LineSet),
         files' \subseteq files,
         (c.at = "pause" /\ c.id = user[u].id) \/ user[u].id \notin files',
         ~(pressed /\ qemu = "up" /\ spent.errors = 0),
         UNCHANGED <<qemu, pressed, inbox, spent>>
  PROVE  CallsInv'
<1>1. user \in [Users -> Calls]
  BY DEF CallsInv, CallTypes
<1>2. /\ user'[u] = c /\ user' \in [Users -> Calls]
      /\ \A v \in Users \ {u} : user'[v] = user[v] /\ ~Executing(v)
  BY <1>1 DEF CallsInv, ScriptInv
<1>3. \A v \in Users : ~Executing(v)'
  BY <1>2 DEF Executing, Inside
<1>4. CallTypes'
  BY <1>2 DEF CallsInv, CallTypes
<1>5. ScriptInv'
  BY <1>2, <1>3 DEF CallsInv, ScriptInv, Executing, Inside
<1>6. ReplyInv' /\ InboxInv' /\ ButtonInv'
  BY DEF ReplyInv, InboxInv, ButtonInv
<1>7. FilesInv'
  BY <1>2 DEF CallsInv, FilesInv
<1> QED
  BY <1>4, <1>5, <1>6, <1>7 DEF CallsInv

\* A reader takes the answer to its own command and goes on, pauses or is done;
\* after the answer to a "down" it goes on.
LEMMA GetsInv ==
  ASSUME ProcessInv, CallsInv, ~mixed, LoopRuns, NEW u \in Users, Executing(u),
         Gets(u), ~crossed', UNCHANGED <<qemu, pressed, spent>>
  PROVE  ~mixed' /\ CallsInv'
<1> DEFINE left == user[u].left
<1>1. /\ user \in [Users -> Calls] /\ user[u] \in Calls /\ user[u].id \in Nat
      /\ left \in Remainders
  BY DEF CallsInv, CallTypes, ScriptInv, Calls
<1>2. Replies # {} /\ Take(u)
  BY DEF Gets
<1>3. /\ First \in Replies /\ Replies' = {}
      /\ buf' \in Seq(LineSet) /\ stream' \in Seq(LineSet)
  BY <1>2, TakesTheAnswer DEF CallsInv
<1>4. qemu = "up" => inbox = <<>>
  BY <1>2 DEF CallsInv, InboxInv
<1>5. /\ user[u].id = Lines[First].to
      /\ spent.errors = 0 => Lines[First].type = "return"
  <2> HIDE DEF First, Lines, Replies
  <2> QED
    BY <1>3 DEF CallsInv, ReplyInv, ScriptInv
<1>6. ~mixed'
  BY <1>2, <1>5 DEF Take
<1>7. pressed /\ qemu = "up" /\ spent.errors = 0 =>
        /\ Lines[First].type = "return" /\ client
        /\ Rest(u) # <<>> /\ Head(Rest(u)) = "up"
  <2> SUFFICES ASSUME pressed, qemu = "up", spent.errors = 0
               PROVE  /\ Lines[First].type = "return" /\ client
                      /\ Rest(u) # <<>> /\ Head(Rest(u)) = "up"
    OBVIOUS
  <2>1. Head(left) = "down"
    BY <1>4 DEF CallsInv, ButtonInv, ScriptInv
  <2>2. client
    BY DEF ProcessInv, LoopRuns
  <2> QED
    BY <1>1, <1>5, <2>1, <2>2, Scripts DEF Rest
<1>8. spent' \in [calls : Nat, events : Nat, errors : Nat, cuts : Nat, serial : Nat]
  BY DEF CallsInv, CallTypes
<1> HIDE DEF left, First, Lines, Replies
<1>9. ASSUME Leave(u), UNCHANGED inbox, ~(pressed /\ qemu = "up" /\ spent.errors = 0)
      PROVE  CallsInv'
  <2>1. /\ Resting \in Calls /\ Resting.at = "idle" /\ user' = [user EXCEPT ![u] = Resting]
        /\ files' \subseteq files /\ user[u].id \notin files'
    BY <1>9 DEF Leave, Resting, Calls
  <2> QED
    BY <1>3, <1>4, <1>9, <2>1, LeaveInv
<1>10. ASSUME Rest(u) # <<>>, Head(Rest(u)) = "pause", UNCHANGED <<inbox, files>>,
              user' = [user EXCEPT ![u].at = "pause", ![u].left = Tail(Rest(u))]
       PROVE  CallsInv'
  <2>1. Tail(Rest(u)) = <<"down", "up">>
    BY <1>1, <1>10, Scripts DEF Rest, left
  <2> DEFINE c == [at |-> "pause", id |-> user[u].id, left |-> <<"down", "up">>]
  <2>2. c \in Calls /\ c.at = "pause" /\ c.left = <<"down", "up">> /\ c.id = user[u].id
    BY <1>1, Scripts DEF Calls
  <2>3. user' = [user EXCEPT ![u] = c]
    <3> DEFINE d == [user[u] EXCEPT !.at = "pause"]
    <3>1. d = [at |-> "pause", id |-> user[u].id, left |-> user[u].left]
      BY <1>1 DEF Calls
    <3>2. [d EXCEPT !.left = <<"down", "up">>] = c
      <4>1. [[at |-> "pause", id |-> user[u].id, left |-> user[u].left]
               EXCEPT !.left = <<"down", "up">>] = c
        OBVIOUS
      <4> HIDE DEF d
      <4> QED
        BY <3>1, <4>1
    <3>3. user' = [[user EXCEPT ![u] = d] EXCEPT ![u] = [@ EXCEPT !.left = <<"down", "up">>]]
      BY <1>10, <2>1
    <3> HIDE DEF d, c
    <3> QED
      BY <1>1, <3>2, <3>3
  <2>4. ~(pressed /\ qemu = "up" /\ spent.errors = 0)
    BY <1>7, <1>10
  <2> HIDE DEF c
  <2> QED
    BY <1>3, <1>4, <1>10, <2>2, <2>3, <2>4, LeaveInv
<1>11. ASSUME Rest(u) # <<>>, Head(Rest(u)) # "pause", Send(u, user[u].id, Rest(u)),
              UNCHANGED files
       PROVE  CallsInv'
  <2>1. Rest(u) \in Remainders
    BY <1>1, <1>11, Scripts DEF Rest, left
  <2>2. pressed /\ qemu = "up" /\ spent.errors = 0 => Head(Rest(u)) = "up"
    BY <1>7
  <2> QED
    BY <1>1, <1>3, <1>4, <1>8, <1>11, <2>1, <2>2, SendInv
<1>12. CallsInv'
  <2>1. ASSUME Lines[First].type = "error" \/ Rest(u) = <<>>, Leave(u), UNCHANGED inbox
        PROVE  CallsInv'
    BY <1>7, <1>9, <2>1
  <2>2. ASSUME ~client, Leave(u), UNCHANGED inbox PROVE CallsInv'
    BY <1>7, <1>9, <2>2
  <2> QED
    BY <1>10, <1>11, <2>1, <2>2 DEF Gets
<1> QED
  BY <1>6, <1>12

\* A reader waits when it has read all there is.
LEMMA WaitsInv ==
  ASSUME CallsInv, NEW u \in Users, Executing(u), Waits(u),
         UNCHANGED <<qemu, pressed, spent>>
  PROVE  CallsInv'
<1>1. /\ user \in [Users -> Calls] /\ buf' = <<>> /\ stream' = <<>>
      /\ user' = [user EXCEPT ![u].at = "waiting"]
      /\ Replies = {} /\ UNCHANGED <<files, inbox>>
  BY DEF CallsInv, CallTypes, Waits
<1>2. /\ user' \in [Users -> Calls]
      /\ user'[u].at = "waiting" /\ Executing(u)'
      /\ user'[u].id = user[u].id /\ user'[u].left = user[u].left
      /\ \A v \in Users \ {u} : user'[v] = user[v] /\ ~Executing(v)
  BY <1>1 DEF CallsInv, ScriptInv, Calls, Executing, Inside
<1>3. Replies' = {} /\ buf' \in Seq(LineSet) /\ stream' \in Seq(LineSet)
  <2>1. Lines' = <<>>
    BY <1>1 DEF Lines
  <2> QED
    BY <1>1, <2>1, EmptySeq DEF Replies
<1>4. CallTypes' /\ ScriptInv'
  BY <1>1, <1>2, <1>3 DEF CallsInv, CallTypes, ScriptInv, Executing, Inside
<1>5. ReplyInv' /\ InboxInv'
  <2> HIDE DEF Replies
  <2> QED
    BY <1>1, <1>2, <1>3 DEF CallsInv, ReplyInv, InboxInv
<1>6. ButtonInv'
  BY <1>1, <1>2 DEF CallsInv, ButtonInv, Executing
<1>7. FilesInv'
  BY <1>1, <1>2 DEF CallsInv, FilesInv
<1> QED
  BY <1>4, <1>5, <1>6, <1>7 DEF CallsInv

\* A reader that finds the connection closed leaves: QEMU is not up then, or it
\* has been closed by terminate(), which does not return before QEMU is told.
LEMMA GoneInv ==
  ASSUME CallsInv, NEW u \in Users, Executing(u), Leave(u), Replies = {},
         qemu # "up", UNCHANGED <<qemu, pressed, inbox, spent>>,
         (buf' = <<>> /\ stream' = <<>>) \/ UNCHANGED <<buf, stream>>
  PROVE  CallsInv'
<1>1. /\ Resting \in Calls /\ Resting.at = "idle" /\ user' = [user EXCEPT ![u] = Resting]
      /\ files' \subseteq files /\ user[u].id \notin files'
  BY DEF Leave, Resting, Calls
<1>2. Replies' = {} /\ buf' \in Seq(LineSet) /\ stream' \in Seq(LineSet)
  <2>1. CASE buf' = <<>> /\ stream' = <<>>
    <3>1. Lines' = <<>>
      BY <2>1 DEF Lines
    <3> QED
      BY <2>1, <3>1, EmptySeq DEF Replies
  <2>2. CASE UNCHANGED <<buf, stream>>
    BY <2>2 DEF Replies, Lines, CallsInv, CallTypes
  <2> QED
    BY <2>1, <2>2
<1> QED
  BY <1>1, <1>2, LeaveInv

\* A line wakes the reader that waits, and changes no call.
LEMMA AnswerKeeps ==
  ASSUME CallsInv, NEW line \in LineSet, Answer(line), UNCHANGED buf
  PROVE  /\ user' \in [Users -> Calls] /\ stream' \in Seq(LineSet) /\ ScriptInv'
         /\ \A u \in Users : /\ user'[u].id = user[u].id /\ user'[u].left = user[u].left
                             /\ Executing(u)' <=> Executing(u)
                             /\ user'[u].at = "idle" <=> user[u].at = "idle"
<1>1. user \in [Users -> Calls]
  BY DEF CallsInv, CallTypes
<1>2. ASSUME ~client
      PROVE  /\ user' \in [Users -> Calls] /\ stream' \in Seq(LineSet) /\ ScriptInv'
             /\ \A u \in Users : /\ user'[u].id = user[u].id /\ user'[u].left = user[u].left
                                 /\ Executing(u)' <=> Executing(u)
                                 /\ user'[u].at = "idle" <=> user[u].at = "idle"
  BY <1>1, <1>2 DEF Answer, CallsInv, CallTypes, ScriptInv, Executing
<1>3. ASSUME client
      PROVE  /\ user' \in [Users -> Calls] /\ stream' \in Seq(LineSet) /\ ScriptInv'
             /\ \A u \in Users : /\ user'[u].id = user[u].id /\ user'[u].left = user[u].left
                                 /\ Executing(u)' <=> Executing(u)
                                 /\ user'[u].at = "idle" <=> user[u].at = "idle"
  <2>1. user' = Woken /\ stream' = Append(stream, line)
    BY <1>3 DEF Answer
  <2>2. stream' \in Seq(LineSet) /\ stream' # <<>>
    BY <2>1, OneMore DEF CallsInv
  <2>3. ASSUME NEW u \in Users
        PROVE  /\ user'[u] \in Calls /\ user'[u].id = user[u].id
               /\ user'[u].left = user[u].left
               /\ user'[u].at = IF user[u].at = "waiting" THEN "woken" ELSE user[u].at
    <3>1. user'[u] = IF user[u].at = "waiting" THEN [user[u] EXCEPT !.at = "woken"] ELSE user[u]
      BY <2>1 DEF Woken
    <3>2. user[u] \in Calls
      BY <1>1
    <3> QED
      BY <3>1, <3>2 DEF Calls, Inside
  <2>4. user' \in [Users -> Calls]
    BY <2>1, <2>3 DEF Woken
  <2>5. \A u \in Users : Executing(u)' <=> Executing(u)
    BY <2>3 DEF Executing, Inside
  <2>6. ScriptInv'
    BY <2>2, <2>3, <2>5 DEF CallsInv, ScriptInv
  <2> QED
    BY <2>2, <2>3, <2>4, <2>5, <2>6
<1> QED
  BY <1>2, <1>3

\* An event is no answer.
LEMMA EventInv == ASSUME CallsInv, QemuTells PROVE CallsInv'
<1> DEFINE line == [type |-> "event", to |-> None, what |-> None]
<1>1. /\ line \in LineSet /\ line.type = "event" /\ Answer(line) /\ client
      /\ UNCHANGED <<qemu, inbox, buf, pressed, files>> /\ spent'.errors = spent.errors
      /\ spent' \in [calls : Nat, events : Nat, errors : Nat, cuts : Nat, serial : Nat]
  <2>1. /\ Answer(line) /\ client /\ UNCHANGED <<qemu, inbox, buf, pressed, files>>
        /\ spent' = [spent EXCEPT !["events"] = @ + 1]
    BY DEF QemuTells, Spend, guestVars
  <2>2. line \in LineSet /\ line.type = "event"
    BY DEF LineSet
  <2>3. spent \in [calls : Nat, events : Nat, errors : Nat, cuts : Nat, serial : Nat]
    BY DEF CallsInv, CallTypes
  <2>4. /\ spent'.errors = spent.errors
        /\ spent' \in [calls : Nat, events : Nat, errors : Nat, cuts : Nat, serial : Nat]
    BY <2>1, <2>3
  <2> QED
    BY <2>1, <2>2, <2>4
<1> HIDE DEF line
<1>2. /\ user' \in [Users -> Calls] /\ stream' \in Seq(LineSet) /\ ScriptInv'
      /\ \A u \in Users : /\ user'[u].id = user[u].id /\ user'[u].left = user[u].left
                          /\ Executing(u)' <=> Executing(u)
                          /\ user'[u].at = "idle" <=> user[u].at = "idle"
  BY <1>1, AnswerKeeps
<1>3. Replies' = Replies /\ \A i \in Replies : Lines'[i] = Lines[i]
  <2>1. stream' = Append(stream, line)
    BY <1>1 DEF Answer
  <2> QED
    BY <1>1, <2>1, OneMore DEF CallsInv
<1>4. CallTypes'
  BY <1>1, <1>2 DEF CallsInv, CallTypes
<1>5. ReplyInv'
  <2> HIDE DEF Lines, Replies
  <2> QED
    BY <1>1, <1>2, <1>3 DEF CallsInv, ReplyInv
<1>6. InboxInv' /\ ButtonInv' /\ FilesInv'
  BY <1>1, <1>2, <1>3 DEF CallsInv, InboxInv, ButtonInv, FilesInv
<1> QED
  BY <1>2, <1>4, <1>5, <1>6 DEF CallsInv

\* An answer is for the call inside execute, and the command is no longer in the
\* inbox; "up" is the only command that may find the button down.
LEMMA AnswersInv == ASSUME CallsInv, QemuAnswers \/ QemuRefuses PROVE CallsInv'
<1> DEFINE cmd == Head(inbox)
           line == [type |-> IF QemuAnswers THEN "return" ELSE "error",
                    to |-> cmd.by, what |-> cmd.what]
<1>1. /\ qemu = "up" /\ inbox # <<>> /\ inbox' = Tail(inbox) /\ UNCHANGED <<qemu, buf>>
      /\ inbox \in Seq(Commands)
  BY DEF QemuAnswers, QemuRefuses, CallsInv, CallTypes
<1>2. /\ Len(inbox) = 1 /\ Replies = {}
      /\ \E u \in Users : /\ Executing(u) /\ inbox[1].by = user[u].id
                          /\ inbox[1].what = Head(user[u].left)
  BY <1>1 DEF CallsInv, InboxInv
<1>3. cmd = inbox[1] /\ cmd \in Commands /\ inbox' = <<>>
  BY <1>1, <1>2
<1> HIDE DEF cmd
<1>4. PICK u \in Users : /\ Executing(u) /\ cmd.by = user[u].id
                         /\ cmd.what = Head(user[u].left)
  BY <1>2, <1>3
<1>5. line \in LineSet /\ line.type # "event" /\ line.to = cmd.by
  BY <1>3 DEF LineSet, Commands
<1>6. /\ Answer(line)
      /\ spent' \in [calls : Nat, events : Nat, errors : Nat, cuts : Nat, serial : Nat]
      /\ spent'.errors = 0 => line.type = "return" /\ spent.errors = 0 /\ QemuAnswers
      /\ files' \subseteq files \cup {cmd.by}
  <2>1. CASE QemuAnswers
    BY <2>1 DEF QemuAnswers, Carry, CallsInv, CallTypes, cmd
  <2>2. CASE ~QemuAnswers
    BY <2>2 DEF QemuRefuses, Spend, guestVars, CallsInv, CallTypes, cmd
  <2> QED
    BY <2>1, <2>2
<1>7. QemuAnswers => pressed' = IF cmd.what \in {"down", "up"} THEN cmd.what = "down"
                                ELSE pressed
  BY DEF QemuAnswers, Carry, cmd
<1> HIDE DEF line
<1>8. /\ user' \in [Users -> Calls] /\ stream' \in Seq(LineSet) /\ ScriptInv'
      /\ \A v \in Users : /\ user'[v].id = user[v].id /\ user'[v].left = user[v].left
                          /\ Executing(v)' <=> Executing(v)
                          /\ user'[v].at = "idle" <=> user[v].at = "idle"
  BY <1>1, <1>5, <1>6, AnswerKeeps
<1>9. CallTypes'
  BY <1>1, <1>3, <1>6, <1>8, EmptySeq DEF CallsInv, CallTypes
<1>10. ReplyInv'
  <2>1. CASE client
    <3>1. stream' = Append(stream, line)
      BY <1>6, <2>1 DEF Answer
    <3>2. Replies' = {Len(Lines) + 1} /\ Lines'[Len(Lines) + 1] = line
      BY <1>1, <1>2, <1>5, <3>1, OneMore DEF CallsInv
    <3> HIDE DEF Lines, Replies
    <3> QED
      BY <1>4, <1>5, <1>6, <1>8, <3>2 DEF ReplyInv
  <2>2. CASE ~client
    <3>1. Replies' = {}
      BY <1>1, <1>2, <1>6, <2>2 DEF Answer, Replies, Lines
    <3> QED
      BY <3>1 DEF ReplyInv
  <2> QED
    BY <2>1, <2>2
<1>11. InboxInv'
  BY <1>3 DEF InboxInv
<1>12. ButtonInv'
  <2> SUFFICES ASSUME pressed', spent'.errors = 0
               PROVE  Head(user[u].left) = "down"
    BY <1>3, <1>4, <1>8 DEF ButtonInv
  <2>1. CASE cmd.what \in {"down", "up"}
    BY <1>4, <1>6, <1>7, <2>1
  <2>2. CASE cmd.what \notin {"down", "up"}
    <3>1. pressed /\ spent.errors = 0
      BY <1>6, <1>7, <2>2
    <3>2. Head(user[u].left) = "up"
      BY <1>1, <1>4, <3>1 DEF CallsInv, ButtonInv, ScriptInv
    <3> QED
      BY <1>4, <2>2, <3>2
  <2> QED
    BY <2>1, <2>2
<1>13. FilesInv'
  BY <1>4, <1>6, <1>8 DEF CallsInv, FilesInv, Executing, Inside
<1> QED
  BY <1>8, <1>9, <1>10, <1>11, <1>12, <1>13 DEF CallsInv

\* A call begins, or goes on after its pause, when nobody is inside execute.
LEMMA SenderInv ==
  ASSUME ProcessInv, CallsInv, NEW u \in Users, Begin(u) \/ Continue(u), ~crossed'
  PROVE  CallsInv'
<1>1. spent \in [calls : Nat, events : Nat, errors : Nat, cuts : Nat, serial : Nat]
  BY DEF CallsInv, CallTypes
<1>2. UNCHANGED <<qemu, buf, stream, pressed>> /\ ~Executing(u)
  BY DEF Begin, Continue, Executing, Inside
<1>3. ASSUME \A v \in Users : ~Executing(v)
      PROVE  /\ Replies' = {}
             /\ qemu = "up" => inbox = <<>>
             /\ ~(pressed /\ qemu = "up" /\ spent.errors = 0)
             /\ buf' \in Seq(LineSet) /\ stream' \in Seq(LineSet)
  <2>1. Replies' = Replies
    BY <1>2 DEF Replies, Lines
  <2> HIDE DEF Replies, Lines
  <2> QED
    BY <1>2, <1>3, <2>1 DEF CallsInv, CallTypes, ReplyInv, InboxInv, ButtonInv
<1>4. ASSUME Begin(u) PROVE CallsInv'
  <2>1. PICK c \in session.ops :
          /\ Send(u, spent.calls + 1, Script[c])
          /\ files' = IF c = "picture" THEN files \cup {spent.calls + 1} ELSE files
    BY <1>4 DEF Begin
  <2>2. user[u].at = "idle" /\ spent' = [spent EXCEPT !["calls"] = @ + 1]
    BY <1>4 DEF Begin, Spend
  <2>3. /\ spent' \in [calls : Nat, events : Nat, errors : Nat, cuts : Nat, serial : Nat]
        /\ spent'.errors = spent.errors /\ spent.calls + 1 \in Nat
    BY <1>1, <2>2
  <2>4. Script[c] \in Remainders
    BY QemuAssumption, Scripts DEF ProcessInv
  <2>5. \A v \in Users : ~Executing(v)
    BY <1>2, <2>1 DEF Send, Executing
  <2>6. /\ Replies' = {}
        /\ qemu = "up" => inbox = <<>>
        /\ pressed /\ qemu = "up" /\ spent.errors = 0 => Head(Script[c]) = "up"
        /\ buf' \in Seq(LineSet) /\ stream' \in Seq(LineSet)
    BY <1>3, <2>5
  <2>7. files' \subseteq files \cup {spent.calls + 1}
    BY <2>1
  <2> HIDE DEF Replies
  <2> QED
    BY <1>2, <2>1, <2>2, <2>3, <2>4, <2>6, <2>7, SendInv
<1>5. ASSUME Continue(u) PROVE CallsInv'
  <2>1. user[u].at = "pause" /\ user[u].left = <<"down", "up">> /\ UNCHANGED spent
    BY <1>5 DEF Continue, CallsInv, ScriptInv
  <2>2. user[u] \in Calls
    BY DEF CallsInv, CallTypes
  <2>3. ASSUME Send(u, user[u].id, user[u].left), UNCHANGED files
        PROVE  CallsInv'
    <3>1. \A v \in Users : ~Executing(v)
      BY <1>2, <2>3 DEF Send, Executing
    <3>2. user[u].left \in Remainders /\ user[u].id \in Nat
      BY <2>1, <2>2, Scripts DEF Calls
    <3>3. /\ Replies' = {}
          /\ qemu = "up" => inbox = <<>>
          /\ pressed /\ qemu = "up" /\ spent.errors = 0 => Head(user[u].left) = "up"
          /\ buf' \in Seq(LineSet) /\ stream' \in Seq(LineSet)
      BY <1>3, <3>1
    <3>4. files' \subseteq files \cup {user[u].id} /\ spent'.errors = spent.errors
      BY <2>1, <2>3
    <3>5. spent' \in [calls : Nat, events : Nat, errors : Nat, cuts : Nat, serial : Nat]
      BY <1>1, <2>1
    <3> QED
      BY <1>2, <2>3, <3>2, <3>3, <3>4, <3>5, SendInv
  <2>4. ASSUME ~client, Leave(u), UNCHANGED <<inbox, crossed>>
        PROVE  CallsInv'
    <3>1. qemu # "up"
      BY <1>5, <2>4 DEF ProcessInv, Continue, LoopRuns
    <3>2. /\ user \in [Users -> Calls] /\ Resting \in Calls
          /\ user' = [user EXCEPT ![u] = Resting]
          /\ files' = files \ {user[u].id}
      BY <2>4 DEF CallsInv, CallTypes, Leave, Resting, Calls
    <3>3. /\ user' \in [Users -> Calls] /\ ~Executing(u)'
          /\ user'[u].at = "idle"
          /\ \A v \in Users \ {u} : user'[v] = user[v]
      BY <3>2 DEF Resting, Executing, Inside
    <3>4. Lines' = Lines /\ Replies' = Replies
      BY <1>2 DEF Replies, Lines
    <3> HIDE DEF Replies, Lines
    <3>5. CallTypes'
      BY <1>2, <2>1, <2>4, <3>3 DEF CallsInv, CallTypes
    <3>6. ScriptInv'
      BY <1>2, <3>3 DEF CallsInv, ScriptInv, Executing, Inside
    <3>7. ReplyInv'
      BY <1>2, <2>1, <3>3, <3>4 DEF CallsInv, ReplyInv, Executing
    <3>8. InboxInv' /\ ButtonInv'
      BY <1>2, <3>1 DEF InboxInv, ButtonInv
    <3>9. FilesInv'
      BY <3>2, <3>3 DEF CallsInv, FilesInv
    <3> QED
      BY <3>5, <3>6, <3>7, <3>8, <3>9 DEF CallsInv
  <2> QED
    BY <1>5, <2>3, <2>4 DEF Continue
<1> QED
  BY <1>4, <1>5

\* A call inside execute reads.
LEMMA ReaderInv ==
  ASSUME ProcessInv, CallsInv, ~mixed, NEW u \in Users, Read(u) \/ Resume(u), ~crossed'
  PROVE  ~mixed' /\ CallsInv'
<1>1. Executing(u) /\ LoopRuns /\ UNCHANGED <<qemu, client, pressed, spent>>
  BY DEF Read, Resume, Executing, Inside
<1>2. Closed => qemu # "up"
  BY <1>1 DEF Closed, ProcessInv, LoopRuns
<1>3. ASSUME Gets(u) PROVE ~mixed' /\ CallsInv'
  BY <1>1, <1>3, GetsInv
<1>4. ASSUME Waits(u) PROVE ~mixed' /\ CallsInv'
  BY <1>1, <1>4, WaitsInv DEF Waits
<1>5. ASSUME Replies = {}, Closed, Fails(u) PROVE ~mixed' /\ CallsInv'
  BY <1>1, <1>2, <1>5, GoneInv DEF Fails
<1>6. ASSUME Read(u) PROVE ~mixed' /\ CallsInv'
  <2>1. \A v \in Users : user[v].at # "waiting"
    BY <1>1, <1>6 DEF CallsInv, ScriptInv, Read, Executing, Inside
  <2> QED
    BY <1>3, <1>4, <1>5, <1>6, <2>1 DEF Read
<1>7. ASSUME Resume(u) PROVE ~mixed' /\ CallsInv'
  <2>1. buf = <<>> /\ (user[u].at = "woken" => stream # <<>>)
    BY <1>7 DEF CallsInv, ScriptInv, Resume
  <2>2. ASSUME stream = <<>>, Leave(u), UNCHANGED <<inbox, stream, buf, crossed, mixed>>
        PROVE  ~mixed' /\ CallsInv'
    <3>1. qemu # "up"
      BY <1>2, <1>7, <2>1, <2>2 DEF Resume
    <3>2. Replies = {}
      BY <2>1, <2>2 DEF Replies, Lines
    <3> QED
      BY <1>1, <2>2, <3>1, <3>2, GoneInv
  <2> QED
    BY <1>3, <1>4, <1>5, <1>7, <2>2 DEF Resume
<1> QED
  BY <1>6, <1>7

\* Every step keeps calls that do not overlap in step; a cancelled call counts as
\* one that was cut off.
LEMMA InStepStep == ASSUME ProcessInv, InStep, [QemuNext]_qemuVars PROVE InStep'
<1> SUFFICES ASSUME ~crossed' PROVE ~mixed' /\ CallsInv'
  BY DEF InStep
<1>1. crossed' = crossed \/ \E u \in Users : User(u)
  BY DEF QemuNext, Reaper, Host, Process, qemuVars, historyVars, ReadsChunk, WritesChunk, Kill,
         KillHarder, Forward, ReaperExits, WriteSerial, Terminate, SendTerminate,
         SendKill, Waited, HostDies, QemuReads, QemuLeaves, QemuDies, QemuAnswers,
         QemuRefuses, QemuTells, Tick
<1>2. crossed => \A u \in Users : User(u) => crossed'
  BY DEF User, Begin, Read, Resume, Continue, Cancel, Send, Gets, Waits, Fails
<1>3. ~mixed /\ CallsInv
  BY <1>1, <1>2 DEF InStep
<1>4. spent \in [calls : Nat, events : Nat, errors : Nat, cuts : Nat, serial : Nat]
  BY <1>3 DEF CallsInv, CallTypes
<1>5. ASSUME UNCHANGED <<qmpVars, guestVars, historyVars, spent>>,
             qemu' = "up" => qemu = "up"
      PROVE  ~mixed' /\ CallsInv'
  BY <1>3, <1>4, <1>5, ApartInv DEF qmpVars, historyVars
<1>6. CASE Reaper
  <2>1. UNCHANGED <<qmpVars, guestVars, historyVars, spent>> /\ (qemu' = "up" => qemu = "up")
    BY <1>6 DEF Reaper, ReadsChunk, WritesChunk, Kill, KillHarder, Forward, ReaperExits,
                Terminated
  <2> QED
    BY <1>5, <2>1
<1>7. CASE SendTerminate \/ SendKill \/ Waited \/ Tick
  BY <1>5, <1>7 DEF SendTerminate, SendKill, Waited, Tick
<1>8. CASE WriteSerial \/ Terminate \/ HostDies
  <2>1. /\ UNCHANGED <<user, inbox, stream, buf, guestVars, mixed, qemu>>
        /\ spent' = spent \/ spent' = [spent EXCEPT !["serial"] = @ + 1]
    BY <1>8 DEF WriteSerial, Terminate, HostDies, Spend, qmpVars, historyVars
  <2>2. /\ spent' \in [calls : Nat, events : Nat, errors : Nat, cuts : Nat, serial : Nat]
        /\ spent'.errors = spent.errors
    BY <1>4, <2>1
  <2> QED
    BY <1>3, <2>1, <2>2, ApartInv
<1>9. CASE QemuReads \/ QemuLeaves \/ QemuDies
  BY <1>5, <1>9 DEF QemuReads, QemuLeaves, QemuDies
<1>10. CASE QemuAnswers \/ QemuRefuses
  BY <1>3, <1>10, AnswersInv DEF QemuAnswers, QemuRefuses, historyVars
<1>11. CASE QemuTells
  BY <1>3, <1>11, EventInv DEF QemuTells, historyVars
<1>12. ASSUME NEW u \in Users, Begin(u) \/ Continue(u) PROVE ~mixed' /\ CallsInv'
  BY <1>3, <1>12, SenderInv DEF Begin, Continue
<1>13. ASSUME NEW u \in Users, Read(u) \/ Resume(u) PROVE ~mixed' /\ CallsInv'
  BY <1>3, <1>13, ReaderInv
<1>14. ASSUME NEW u \in Users, Cancel(u) PROVE FALSE
  BY <1>14 DEF Cancel
<1>15. CASE UNCHANGED qemuVars
  BY <1>5, <1>15 DEF qemuVars
<1> QED
  BY <1>6, <1>7, <1>8, <1>9, <1>10, <1>11, <1>12, <1>13, <1>14, <1>15
     DEF QemuNext, Host, Process, User

\* Calls that do not overlap and are not cut off get the answers to their own
\* commands, and leave neither a temporary file nor a pressed button behind
\* (QMPClient.execute, InputMixin), whatever events, errors and ends of QEMU and
\* of the sandbox come in between.
THEOREM CallsTheorem == QemuSpec => []CallsStayInStep
<1>1. QemuInit => InStep
  BY CallsInit DEF InStep
<1>2. ProcessInv /\ InStep /\ [QemuNext]_qemuVars => InStep'
  BY InStepStep
<1>3. InStep => CallsStayInStep
  <2> SUFFICES ASSUME InStep, ~crossed
               PROVE  /\ ~mixed
                      /\ spent.errors = 0 =>
                           /\ files \subseteq {user[u].id : u \in Users}
                           /\ pressed /\ qemu = "up" => \E u \in Users : user[u].at # "idle"
    BY DEF CallsStayInStep
  <2>1. ~mixed /\ FilesInv /\ ButtonInv
    BY DEF InStep, CallsInv
  <2> QED
    BY <2>1 DEF FilesInv, ButtonInv, Executing, Inside
<1> QED
  BY <1>1, <1>2, <1>3, ProcessTheorem, PTL DEF QemuSpec

----------------------------------------------------------------------------
(* Reading back what was written *)

\* The first k overlays of a saved part, as parts, and a finished directory.
FilesOf(p, k) == [i \in 0..(k - 1) |-> p[i + 1]]
SaveOf(b, p) == [manifest |-> b, overlays |-> FilesOf(p, Len(p))]

\* At most ten overlays have names of one digit, so the order of their names is
\* the order of the overlays.
LEMMA OverlaysInOrder ==
  ASSUME NEW b, NEW p \in Seq(Nat), Len(p) <= 10
  PROVE  Overlays(SaveOf(b, p)) = p
<1> DEFINE dir == SaveOf(b, p)
           parts == DOMAIN dir.overlays
           Before(i) == {j \in parts : NameBefore(j, i)}
           Nth(k) == CHOOSE i \in parts : Cardinality(Before(i)) = k - 1
<1>1. /\ Len(p) \in Nat /\ parts = 0..(Len(p) - 1)
      /\ \A i \in parts : dir.overlays[i] = p[i + 1]
  BY DEF SaveOf, FilesOf
<1>2. \A i \in parts : Before(i) = 0..(i - 1)
  <2> SUFFICES ASSUME NEW i \in parts PROVE Before(i) = 0..(i - 1)
    OBVIOUS
  <2>0. \A j \in parts : j \in 0..9
    <3>1. \A j \in 0..(Len(p) - 1) : j \in 0..9
      BY <1>1
    <3> HIDE DEF parts
    <3> QED
      BY <1>1, <3>1
  <2>1. \A j \in parts : NameBefore(j, i) <=> j < i
    <3> HIDE DEF parts
    <3> SUFFICES ASSUME NEW j \in parts PROVE NameBefore(j, i) <=> j < i
      OBVIOUS
    <3>1. i \in 0..9 /\ j \in 0..9
      BY <2>0
    <3>2. i < 10 /\ j < 10
      BY <3>1
    <3> QED
      BY <3>2 DEF NameBefore
  <2>2. \A j : j \in 0..(i - 1) => j \in parts /\ j < i
    BY <1>1
  <2>3. \A j \in parts : j < i => j \in 0..(i - 1)
    BY <1>1
  <2> HIDE DEF parts
  <2> QED
    BY <2>1, <2>2, <2>3
<1>3. \A i \in parts : Cardinality(Before(i)) = i
  <2> SUFFICES ASSUME NEW i \in parts PROVE Cardinality(Before(i)) = i
    OBVIOUS
  <2>1. i \in Nat
    BY <1>1
  <2>2. Cardinality(0..(i - 1)) = i
    BY <2>1, FS_Interval
  <2> QED
    BY <1>2, <2>2
<1>4. Cardinality(parts) = Len(p)
  <2>1. Cardinality(0..(Len(p) - 1)) = IF 0 > Len(p) - 1 THEN 0 ELSE (Len(p) - 1) - 0 + 1
    <3>1. 0 \in Int /\ Len(p) - 1 \in Int
      BY <1>1
    <3> QED
      BY <3>1, FS_Interval
  <2> HIDE DEF parts
  <2> QED
    BY <1>1, <2>1
<1>5. \A k \in 1..Len(p) : Nth(k) = k - 1
  <2> SUFFICES ASSUME NEW k \in 1..Len(p) PROVE Nth(k) = k - 1
    OBVIOUS
  <2>1. k - 1 \in parts
    BY <1>1
  <2> HIDE DEF parts, Before
  <2> QED
    BY <1>3, <2>1
<1>6. \A k \in 1..Len(p) : dir.overlays[Nth(k)] = p[k]
  <2> SUFFICES ASSUME NEW k \in 1..Len(p) PROVE dir.overlays[Nth(k)] = p[k]
    OBVIOUS
  <2>1. k - 1 \in parts /\ (k - 1) + 1 = k
    BY <1>1
  <2> HIDE DEF parts, Before, dir, Nth
  <2> QED
    BY <1>1, <1>5, <2>1
<1>7. Overlays(dir) = [k \in 1..Cardinality(parts) |-> dir.overlays[Nth(k)]]
  BY DEF Overlays
<1>8. p = [k \in 1..Len(p) |-> p[k]]
  OBVIOUS
<1> HIDE DEF parts, dir, Nth
<1> QED
  BY <1>4, <1>6, <1>7, <1>8 DEF dir

\* Of any files with names of one digit each has its place, so reading a save
\* that is half removed takes the overlays that are left.
LEMMA OverlaysAreThere ==
  ASSUME NEW dir, DOMAIN dir.overlays \subseteq 0..9,
         \A i \in DOMAIN dir.overlays : dir.overlays[i] \in Nat
  PROVE  /\ Overlays(dir) \in Seq(Nat)
         /\ \A k \in 1..Len(Overlays(dir)) :
               \E i \in DOMAIN dir.overlays : Overlays(dir)[k] = dir.overlays[i]
<1> DEFINE parts == DOMAIN dir.overlays
           Before(i) == {j \in parts : NameBefore(j, i)}
           N == Cardinality(parts)
           rank == [i \in parts |-> Cardinality(Before(i))]
           Nth(k) == CHOOSE i \in parts : Cardinality(Before(i)) = k - 1
<1>1. IsFiniteSet(parts) /\ N \in Nat /\ \A i \in parts : i \in 0..9
  <2>1. IsFiniteSet(0..9) /\ parts \in SUBSET (0..9)
    <3>1. 0 \in Int /\ 9 \in Int
      OBVIOUS
    <3> QED
      BY <3>1, FS_Interval
  <2>2. IsFiniteSet(parts)
    BY <2>1, FS_Subset
  <2> QED
    BY <2>1, <2>2, FS_CardinalityType
<1>2. \A i \in parts, j \in parts : j \in Before(i) <=> j < i
  <2> SUFFICES ASSUME NEW i \in parts, NEW j \in parts PROVE NameBefore(j, i) <=> j < i
    OBVIOUS
  <2>1. i < 10 /\ j < 10
    BY <1>1
  <2> QED
    BY <2>1 DEF NameBefore
<1>3. ASSUME NEW i \in parts
      PROVE  IsFiniteSet(Before(i)) /\ Cardinality(Before(i)) \in 0..(N - 1)
  <2>1. ~(i < i)
    BY <1>1
  <2>2. Before(i) \in SUBSET (parts \ {i})
    BY <1>2, <2>1
  <2>3. IsFiniteSet(parts \ {i}) /\ Cardinality(parts \ {i}) = N - 1
    BY <1>1, FS_RemoveElement
  <2> HIDE DEF Before, parts, N
  <2>4. IsFiniteSet(Before(i)) /\ Cardinality(Before(i)) <= N - 1
    BY <2>2, <2>3, FS_Subset
  <2>5. Cardinality(Before(i)) \in Nat
    BY <2>4, FS_CardinalityType
  <2> QED
    BY <1>1, <2>4, <2>5
<1>4. ASSUME NEW i \in parts, NEW j \in parts, i < j
      PROVE  Cardinality(Before(i)) # Cardinality(Before(j))
  <2>1. i \notin Before(i)
    <3>1. ~(i < i)
      BY <1>1
    <3> QED
      BY <1>2, <3>1
  <2>2. Before(i) \cup {i} \in SUBSET Before(j)
    <3> SUFFICES ASSUME NEW k \in Before(i) \cup {i} PROVE k \in Before(j)
      OBVIOUS
    <3>1. k \in parts
      OBVIOUS
    <3>2. k = i \/ k < i
      BY <1>2
    <3>3. k < j
      BY <1>1, <1>4, <3>1, <3>2
    <3> QED
      BY <1>2, <3>1, <3>3
  <2> HIDE DEF Before, parts, N
  <2>3. Cardinality(Before(i) \cup {i}) = Cardinality(Before(i)) + 1
    BY <1>3, <2>1, FS_AddElement
  <2>4. Cardinality(Before(i) \cup {i}) <= Cardinality(Before(j))
    BY <1>3, <2>2, FS_Subset
  <2>5. Cardinality(Before(i)) \in Nat /\ Cardinality(Before(j)) \in Nat
    BY <1>3, FS_CardinalityType
  <2> QED
    BY <2>3, <2>4, <2>5
<1>5. rank \in Injection(parts, 0..(N - 1))
  <2>1. rank \in [parts -> 0..(N - 1)]
    BY <1>3
  <2>2. ASSUME NEW i \in parts, NEW j \in parts, rank[i] = rank[j] PROVE i = j
    <3>1. i \in Int /\ j \in Int
      BY <1>1
    <3>2. ~(i < j) /\ ~(j < i)
      BY <1>4, <2>2
    <3> QED
      BY <3>1, <3>2
  <2>3. DOMAIN rank = parts
    OBVIOUS
  <2> HIDE DEF rank, parts, N
  <2> QED
    BY <2>1, <2>2, <2>3 DEF Injection, IsInjective
<1>6. IsFiniteSet(0..(N - 1)) /\ Cardinality(0..(N - 1)) = N
  <2> HIDE DEF N
  <2> QED
    BY <1>1, FS_Interval
<1>7. rank \in Surjection(parts, 0..(N - 1))
  <2> HIDE DEF rank
  <2> QED
    BY <1>5, <1>6, FS_Injection
<1>8. ASSUME NEW k \in 1..N PROVE Nth(k) \in parts
  <2>1. k - 1 \in 0..(N - 1)
    <3> HIDE DEF N
    <3> QED
      BY <1>1
  <2>2. PICK i \in parts : rank[i] = k - 1
    <3> HIDE DEF rank, parts, N
    <3> QED
      BY <1>7, <2>1 DEF Surjection
  <2>3. Cardinality(Before(i)) = k - 1
    BY <2>2
  <2> HIDE DEF Before, parts, N
  <2> QED
    BY <2>3
<1>9. Overlays(dir) = [k \in 1..N |-> dir.overlays[Nth(k)]]
  BY DEF Overlays
<1>10. \A k \in 1..N : Nth(k) \in parts /\ dir.overlays[Nth(k)] \in Nat
  BY <1>8
<1> HIDE DEF parts, N, Nth
<1> QED
  BY <1>1, <1>9, <1>10 DEF parts

\* The overlays of the session are the upper part of its disk.
LEMMA UpperPart ==
  ASSUME NEW c \in Seq(Nat), NEW p \in Seq(Nat)
  PROVE  SubSeq(c \o p, Len(c \o p) - Len(p) + 1, Len(c \o p)) = p
<1>1. /\ Len(c \o p) = Len(c) + Len(p) /\ c \o p \in Seq(Nat)
      /\ \A i \in 1..Len(p) : (c \o p)[Len(c) + i] = p[i]
  OBVIOUS
<1>2. Len(c) \in Nat /\ Len(p) \in Nat /\ p = [i \in 1..Len(p) |-> p[i]]
  OBVIOUS
<1> DEFINE d == c \o p
           s == SubSeq(d, Len(c) + 1, Len(c) + Len(p))
<1>3. s = [i \in 1..Len(p) |-> d[i + (Len(c) + 1) - 1]]
  BY <1>1, <1>2
<1>4. \A i \in 1..Len(p) : d[i + (Len(c) + 1) - 1] = p[i]
  BY <1>1, <1>2
<1>5. Len(c \o p) - Len(p) + 1 = Len(c) + 1
  BY <1>1, <1>2
<1> HIDE DEF d
<1>6. s = p
  BY <1>2, <1>3, <1>4
<1> QED
  BY <1>1, <1>5, <1>6 DEF d

\* A new overlay on a disk is a new overlay on its upper part.
LEMMA OneMoreOverlay ==
  ASSUME NEW c \in Seq(Nat), NEW p \in Seq(Nat), NEW f \in Nat
  PROVE  /\ Append(c \o p, f) = c \o Append(p, f) /\ Append(p, f) \in Seq(Nat)
         /\ Len(Append(p, f)) = Len(p) + 1
<1>1. /\ Append(c \o p, f) = (c \o p) \o <<f>> /\ Append(p, f) = p \o <<f>>
      /\ c \o p \in Seq(Nat) /\ <<f>> \in Seq(Nat)
  BY AppendIsConcat
<1>2. (c \o p) \o <<f>> = c \o (p \o <<f>>)
  BY <1>1, ConcatAssociative
<1>3. Append(p, f) \in Seq(Nat) /\ Len(Append(p, f)) = Len(p) + 1
  OBVIOUS
<1> QED
  BY <1>1, <1>2, <1>3

\* The first file of a save, and the next.
LEMMA NextFile ==
  ASSUME NEW p \in Seq(Nat), NEW k \in 0..Len(p)
  PROVE  /\ DOMAIN FilesOf(p, k) = 0..(k - 1) /\ Cardinality(0..(k - 1)) = k
         /\ k < Len(p) =>
              FilesOf(p, k + 1) =
                [i \in (0..(k - 1)) \cup {k} |-> IF i = k THEN p[i + 1] ELSE FilesOf(p, k)[i]]
         /\ FilesOf(p, k) \in [0..(k - 1) -> Nat]
<1>1. k \in Nat /\ Len(p) \in Nat
  OBVIOUS
<1>2. Cardinality(0..(k - 1)) = k
  BY <1>1, FS_Interval
<1>3. 0..((k + 1) - 1) = (0..(k - 1)) \cup {k}
  BY <1>1
<1>4. \A i \in 0..(k - 1) : i + 1 \in 1..Len(p)
  BY <1>1
<1>5. \A i \in 0..(k - 1) : p[i + 1] \in Nat
  BY <1>4
<1>6. \A i \in 0..(k - 1) : i # k
  BY <1>1
<1> QED
  BY <1>2, <1>3, <1>5, <1>6 DEF FilesOf

----------------------------------------------------------------------------
(* The invariant *)

\* A sandbox runs; the layer it writes to; those of all, and of the others.
On(s) == image[s] # Nothing
Top(s) == disk[s][Len(disk[s])]
Tops == {Top(s) : s \in {t \in Sandboxes : On(t)}}
OtherTops(s) == {Top(t) : t \in {u \in Sandboxes \ {s} : On(u)}}

\* Every layer of q is older than f and none is in T.
Clear(q, f, T) == \A i \in 1..Len(q) : q[i] < f /\ q[i] \notin T

Disks == [Names -> Seq(Nat) \cup {Nothing}]
Types ==
    /\ image \in [Sandboxes -> Images \cup {Nothing}]
    /\ disk \in [Sandboxes -> Seq(Nat)] /\ own \in [Sandboxes -> Nat]
    /\ loaded \in [Sandboxes -> BOOLEAN]
    /\ layers \in 0..MaxLayers
    /\ DOMAIN final = Names /\ DOMAIN tmp = Names
    /\ promised \in Disks /\ pending \in Disks /\ lost \subseteq Names
    /\ writer # Nothing => writer \in Writers

\* A disk is what the sandbox was started on with the session's overlays on top,
\* and no other sandbox writes to a layer of it.
DiskInv(s) ==
    /\ ~On(s) => disk[s] = <<>>
    /\ On(s) =>
         /\ \E c \in Seq(Nat), p \in Seq(Nat) :
               /\ disk[s] = c \o p /\ Len(p) = own[s]
               /\ loaded[s] \/ c = ImageChain[image[s]]
         /\ 0 < own[s] /\ own[s] <= layers
         /\ FirstLayer <= Top(s) /\ Clear(disk[s], Fresh, OtherTops(s))

\* A directory that holds the disk q as a save.
Complete(d, q) == \E b \in Images, p \in Seq(Nat) :
    /\ d = SaveOf(b, p) /\ 0 < Len(p) /\ Len(p) <= 10 /\ Len(p) <= MaxLayers
    /\ Resaving \/ q = ImageChain[b] \o p

\* What write() has put into the temporary directory, and that it takes the old
\* save away only when all of it is there.
WriterInv == writer # Nothing =>
    /\ 0 < Len(writer.part) /\ Len(writer.part) <= 10 /\ Len(writer.part) <= MaxLayers
    /\ Resaving \/ writer.promise = ImageChain[writer.base] \o writer.part
    /\ Clear(writer.part, Fresh, Tops) /\ Clear(writer.promise, Fresh, Tops)
    /\ pending[writer.name] = writer.promise
    /\ writer.step = "copy" =>
         \E k \in 0..Len(writer.part) :
            tmp[writer.name] = [manifest |-> Nothing, overlays |-> FilesOf(writer.part, k)]
    /\ writer.step = "swap" =>
         /\ tmp[writer.name] = SaveOf(writer.base, writer.part)
         /\ promised[writer.name] = Nothing => final[writer.name] = Nothing

\* What is left of a save, be it half removed, is few files of which no sandbox
\* writes to any.
Leftover(d, f, T) == d # Nothing =>
    /\ d.manifest \in Images \cup {Nothing} /\ DOMAIN d.overlays \subseteq 0..9
    /\ \A i \in DOMAIN d.overlays :
          d.overlays[i] \in Nat /\ d.overlays[i] < f /\ d.overlays[i] \notin T

\* After the process died while it replaced a save the new one is complete.
DeathInv(n) ==
    pending[n] # Nothing /\ ~(writer # Nothing /\ writer.name = n) =>
        Complete(tmp[n], pending[n])

\* A name has no save, or the one last promised, unless it is being replaced or
\* the replacement was cut.
SaveInv(n) ==
    /\ \/ At("swap") /\ writer.name = n
       \/ final[n] = Nothing /\ promised[n] = Nothing
       \/ promised[n] # Nothing /\ (Cut(n) \/ Complete(final[n], promised[n]))
    /\ promised[n] # Nothing => Clear(promised[n], Fresh, Tops)
    /\ Leftover(final[n], Fresh, Tops)
    /\ DeathInv(n)

StoreInv == /\ Types /\ WriterInv
            /\ \A s \in Sandboxes : DiskInv(s)
            /\ \A n \in Names : SaveInv(n)

\* No session has more than ten overlays, the last of which is not saved yet.
FewOverlays == \A s \in Sandboxes : own[s] <= 10

----------------------------------------------------------------------------
(* Clear sequences *)

\* What is clear stays so when only the next layer is given out.
LEMMA ClearStays ==
  ASSUME NEW q \in Seq(Nat), NEW f \in Nat, NEW g \in Nat, NEW T, NEW U,
         Clear(q, f, T), f <= g, U \subseteq T \cup {f}
  PROVE  Clear(q, g, U)
<1>1. ASSUME NEW i \in 1..Len(q) PROVE q[i] < g /\ q[i] \notin U
  <2>1. q[i] \in Nat /\ q[i] < f /\ q[i] \notin T
    BY DEF Clear
  <2> QED
    BY <2>1
<1> QED
  BY <1>1 DEF Clear

\* So does what is left of a save.
LEMMA LeftoverStays ==
  ASSUME NEW d, NEW f \in Nat, NEW g \in Nat, NEW T, NEW U,
         Leftover(d, f, T), f <= g, U \subseteq T \cup {f}
  PROVE  Leftover(d, g, U)
<1>1. ASSUME d # Nothing, NEW i \in DOMAIN d.overlays
      PROVE  d.overlays[i] < g /\ d.overlays[i] \notin U
  <2>1. d.overlays[i] \in Nat /\ d.overlays[i] < f /\ d.overlays[i] \notin T
    BY <1>1 DEF Leftover
  <2> QED
    BY <2>1
<1> QED
  BY <1>1 DEF Leftover

\* A complete directory is a save, and gives the disk back.
LEMMA CompleteIsSave ==
  ASSUME NEW d, NEW q, Complete(d, q)
  PROVE  d # Nothing /\ IsSave(d) /\ (Resaving \/ DiskOf(d) = q)
<1> USE StoreAssumption
<1>1. PICK b \in Images, p \in Seq(Nat) :
        /\ d = SaveOf(b, p) /\ 0 < Len(p) /\ Len(p) <= 10 /\ Len(p) <= MaxLayers
        /\ Resaving \/ q = ImageChain[b] \o p
  BY DEF Complete
<1>2. Len(p) \in Nat /\ Len(p) \in 0..MaxLayers /\ Len(p) \in 0..Len(p)
  BY <1>1
<1>3. FilesOf(p, Len(p)) \in [0..(Len(p) - 1) -> Nat]
  BY <1>2, NextFile
<1>4. FilesOf(p, Len(p)) \in UNION {[0..(k - 1) -> Nat] : k \in 0..MaxLayers}
  BY <1>2, <1>3
<1>5. d \in [manifest : Images \cup {Nothing},
             overlays : UNION {[0..(k - 1) -> Nat] : k \in 0..MaxLayers}]
  BY <1>1, <1>4 DEF SaveOf
<1>6. d # Nothing
  BY <1>5
<1>7. d.manifest = b /\ d.overlays = FilesOf(p, Len(p))
  BY <1>1 DEF SaveOf
<1>8. DOMAIN d.overlays # {}
  <2>1. 0 \in 0..(Len(p) - 1)
    BY <1>1, <1>2
  <2> QED
    BY <1>7, <2>1 DEF FilesOf
<1>9. Overlays(d) = p
  BY <1>1, OverlaysInOrder
<1>10. IsSave(d)
  BY <1>6, <1>7, <1>8 DEF IsSave
<1> QED
  BY <1>1, <1>6, <1>7, <1>9, <1>10 DEF DiskOf

\* A complete directory of old layers leaves only old layers.
LEMMA SaveLeaves ==
  ASSUME NEW b \in Images, NEW p \in Seq(Nat), Len(p) <= 10, NEW f, NEW T, Clear(p, f, T)
  PROVE  Leftover(SaveOf(b, p), f, T)
<1>1. Len(p) \in Nat /\ \A i \in 0..(Len(p) - 1) : i \in 0..9 /\ i + 1 \in 1..Len(p)
  OBVIOUS
<1>2. \A i \in 0..(Len(p) - 1) : p[i + 1] \in Nat /\ p[i + 1] < f /\ p[i + 1] \notin T
  BY <1>1 DEF Clear
<1> QED
  BY <1>1, <1>2 DEF Leftover, SaveOf, FilesOf

\* Two clear sequences, one upon the other, are clear, and were.
LEMMA ClearBoth ==
  ASSUME NEW c \in Seq(Nat), NEW p \in Seq(Nat), NEW f, NEW T
  PROVE  Clear(c \o p, f, T) <=> Clear(c, f, T) /\ Clear(p, f, T)
<1>1. /\ Len(c) \in Nat /\ Len(p) \in Nat /\ Len(c \o p) = Len(c) + Len(p)
      /\ \A i \in 1..Len(c) : (c \o p)[i] = c[i]
      /\ \A i \in 1..Len(p) : (c \o p)[Len(c) + i] = p[i]
  OBVIOUS
<1> DEFINE d == c \o p
<1> HIDE DEF d
<1>2. \A i \in 1..Len(c) : i \in 1..Len(d)
  BY <1>1 DEF d
<1>3. \A i \in 1..Len(p) : Len(c) + i \in 1..Len(d)
  BY <1>1 DEF d
<1>4. \A i \in 1..Len(d) : i \in 1..Len(c) \/ \E j \in 1..Len(p) : i = Len(c) + j
  <2> SUFFICES ASSUME NEW i \in 1..Len(d), i \notin 1..Len(c)
               PROVE  \E j \in 1..Len(p) : i = Len(c) + j
    OBVIOUS
  <2>1. i - Len(c) \in 1..Len(p) /\ i = Len(c) + (i - Len(c))
    BY <1>1 DEF d
  <2> QED
    BY <2>1
<1> QED
  BY <1>1, <1>2, <1>3, <1>4 DEF Clear, d

\* The layers of images are clear of all tops.
LEMMA ImagesAreClear ==
  ASSUME NEW i \in Images, NEW f \in Nat, NEW T, FirstLayer <= f, \A x \in T : x >= FirstLayer
  PROVE  ImageChain[i] \in Seq(Nat) /\ Clear(ImageChain[i], f, T)
<1> USE StoreAssumption
<1>1. ImageChain[i] \in Seq(0..(FirstLayer - 1)) /\ FirstLayer \in Nat
  BY DEF FirstLayer
<1>2. 0..(FirstLayer - 1) \subseteq Nat
  BY <1>1
<1>3. ImageChain[i] \in Seq(Nat)
  BY <1>1, <1>2, SeqMonotonic
<1>4. \A k \in 1..Len(ImageChain[i]) : ImageChain[i][k] \in 0..(FirstLayer - 1)
  BY <1>1
<1>5. \A k \in 1..Len(ImageChain[i]) : ImageChain[i][k] < FirstLayer /\ ImageChain[i][k] \in Nat
  BY <1>1, <1>4
<1>6. \A k \in 1..Len(ImageChain[i]) : ImageChain[i][k] < f /\ ImageChain[i][k] \notin T
  BY <1>1, <1>5
<1> QED
  BY <1>3, <1>6 DEF Clear

\* The layer a running sandbox writes to is of this process, and given out.
LEMMA TopsAreGiven ==
  ASSUME StoreInv
  PROVE  /\ \A x \in Tops : x \in Nat /\ FirstLayer <= x /\ x < Fresh
         /\ Fresh \in Nat /\ FirstLayer \in Nat /\ FirstLayer <= Fresh
         /\ \A s \in Sandboxes : On(s) => Tops = OtherTops(s) \cup {Top(s)}
         /\ \A s \in Sandboxes : On(s) => Len(disk[s]) > 0 /\ Len(disk[s]) \in Nat
<1>1. layers \in Nat /\ \A s \in Sandboxes : disk[s] \in Seq(Nat)
  BY StoreAssumption DEF StoreInv, Types
<1>2. Fresh \in Nat /\ FirstLayer \in Nat /\ FirstLayer <= Fresh
  BY <1>1 DEF Fresh, FirstLayer
<1>3. ASSUME NEW s \in Sandboxes, On(s)
      PROVE  /\ Top(s) \in Nat /\ FirstLayer <= Top(s) /\ Top(s) < Fresh
             /\ Len(disk[s]) > 0 /\ Len(disk[s]) \in Nat
  <2>1. PICK c \in Seq(Nat), p \in Seq(Nat) : disk[s] = c \o p /\ Len(p) = own[s]
    BY <1>3 DEF StoreInv, DiskInv
  <2>2. /\ 0 < own[s] /\ FirstLayer <= Top(s) /\ Clear(disk[s], Fresh, OtherTops(s))
    BY <1>3 DEF StoreInv, DiskInv
  <2>3. Len(c \o p) = Len(c) + Len(p) /\ Len(c) \in Nat /\ Len(p) \in Nat
    OBVIOUS
  <2>4. Len(disk[s]) \in Nat /\ Len(disk[s]) > 0
    BY <2>1, <2>2, <2>3
  <2>5. Len(disk[s]) \in 1..Len(disk[s])
    BY <2>4
  <2>6. Top(s) \in Nat
    BY <1>1, <2>5 DEF Top
  <2> QED
    BY <2>2, <2>4, <2>5, <2>6 DEF Clear, Top
<1>4. \A s \in Sandboxes : On(s) => Tops = OtherTops(s) \cup {Top(s)}
  BY DEF Tops, OtherTops
<1> QED
  BY <1>2, <1>3, <1>4 DEF Tops

----------------------------------------------------------------------------
(* Steps *)

\* Initially nothing runs and nothing is saved.
LEMMA StoreInit == ASSUME Init PROVE StoreInv
<1> USE StoreAssumption
<1>1. Types
  BY DEF Init, Types, Disks
<1>2. WriterInv
  BY DEF Init, WriterInv
<1>3. \A s \in Sandboxes : DiskInv(s)
  BY DEF Init, DiskInv, On
<1>4. \A n \in Names : SaveInv(n)
  BY DEF Init, SaveInv, Leftover, DeathInv
<1> QED
  BY <1>1, <1>2, <1>3, <1>4 DEF StoreInv

\* While no directory of a save changes, and at most one layer is given out, the
\* saves stay what they were, or are cut.
LEMMA SavesStay ==
  ASSUME StoreInv, UNCHANGED <<final, promised>>, ~At("swap")',
         \A n \in Names : At("swap") /\ writer.name = n => promised[n] = Nothing \/ Cut(n)',
         \A n \in Names : (Cut(n) => Cut(n)') /\ DeathInv(n)',
         Fresh' \in Nat, Fresh <= Fresh', Tops' \subseteq Tops \cup {Fresh}
  PROVE  \A n \in Names : SaveInv(n)'
<1> SUFFICES ASSUME NEW n \in Names PROVE SaveInv(n)'
  OBVIOUS
<1>1. SaveInv(n) /\ promised[n] \in Seq(Nat) \cup {Nothing} /\ Fresh \in Nat
  BY TopsAreGiven DEF StoreInv, Types, Disks
<1>2. \A q \in Seq(Nat) : Clear(q, Fresh, Tops) => Clear(q, Fresh', Tops')
  BY <1>1, ClearStays
<1>3. promised'[n] = promised[n] /\ final'[n] = final[n]
  OBVIOUS
<1>4. promised[n] # Nothing => Clear(promised[n], Fresh', Tops')
  BY <1>1, <1>2 DEF SaveInv
<1>5. At("swap") /\ writer.name = n =>
        \/ final[n] = Nothing /\ promised[n] = Nothing
        \/ promised[n] # Nothing /\ Cut(n)'
  BY DEF StoreInv, WriterInv, At
<1>6. Leftover(final[n], Fresh', Tops')
  BY <1>1, LeftoverStays DEF SaveInv
<1> QED
  BY <1>1, <1>3, <1>4, <1>5, <1>6 DEF SaveInv

\* A sandbox that was not running writes to a new layer on a chain that is clear.
LEMMA BootStep ==
  ASSUME StoreInv, NEW s \in Sandboxes, NEW i \in Images, NEW chain \in Seq(Nat),
         NEW b \in BOOLEAN, Boot(s, i, chain, b), Clear(chain, Fresh, Tops),
         b \/ chain = ImageChain[i]
  PROVE  StoreInv'
<1> USE StoreAssumption
<1> DEFINE new == Append(chain, Fresh)
<1>1. /\ writer = Nothing /\ writer' = writer /\ image[s] = Nothing /\ layers < MaxLayers
      /\ image' = [image EXCEPT ![s] = i] /\ disk' = [disk EXCEPT ![s] = new]
      /\ own' = [own EXCEPT ![s] = 1] /\ loaded' = [loaded EXCEPT ![s] = b]
      /\ layers' = layers + 1 /\ UNCHANGED <<final, tmp, crashes, promised, pending, lost>>
  BY DEF Boot, promiseVars
<1>2. /\ Types /\ layers \in Nat /\ Fresh \in Nat /\ Fresh' = Fresh + 1
      /\ new \in Seq(Nat) /\ Len(new) = Len(chain) + 1 /\ new[Len(new)] = Fresh
      /\ Len(chain) \in Nat
  <2>1. Types /\ layers \in Nat
    BY DEF StoreInv, Types
  <2>2. Fresh \in Nat /\ Fresh' = Fresh + 1
    BY <1>1, <2>1 DEF Fresh, FirstLayer
  <2> HIDE DEF Fresh
  <2>3. new \in Seq(Nat) /\ Len(new) = Len(chain) + 1 /\ new[Len(chain) + 1] = Fresh
    BY <2>2, AppendProperties
  <2> QED
    BY <2>1, <2>2, <2>3
<1>3. Types'
  BY <1>1, <1>2 DEF Types
<1>4. /\ \A t \in Sandboxes \ {s} : /\ image'[t] = image[t] /\ disk'[t] = disk[t]
                                    /\ own'[t] = own[t] /\ loaded'[t] = loaded[t]
      /\ image'[s] = i /\ disk'[s] = new /\ own'[s] = 1 /\ loaded'[s] = b
  BY <1>1, <1>2 DEF Types
<1>5. ~On(s) /\ On(s)' /\ Top(s)' = Fresh
  BY <1>1, <1>2, <1>4 DEF On, Top
<1>6. \A t \in Sandboxes \ {s} : (On(t)' <=> On(t)) /\ Top(t)' = Top(t)
  BY <1>4 DEF On, Top
<1>7. /\ Tops' = Tops \cup {Fresh} /\ OtherTops(s)' = Tops
      /\ \A t \in Sandboxes \ {s} : OtherTops(t)' \subseteq OtherTops(t) \cup {Fresh}
  <2>1. OtherTops(s)' = Tops
    BY <1>5, <1>6, ZenonT(30) DEF Tops, OtherTops
  <2>2. Tops' = OtherTops(s)' \cup {Fresh}
    BY <1>5 DEF Tops, OtherTops
  <2>3. ASSUME NEW t \in Sandboxes \ {s}
        PROVE  OtherTops(t)' \subseteq OtherTops(t) \cup {Fresh}
    BY <1>5, <1>6 DEF OtherTops
  <2> QED
    BY <2>1, <2>2, <2>3
<1>8. WriterInv'
  BY <1>1 DEF WriterInv
<1>9. \A n \in Names : SaveInv(n)'
  <2>1. ~At("swap") /\ ~At("swap")' /\ Fresh' \in Nat /\ Fresh <= Fresh'
    BY <1>1, <1>2 DEF At
  <2>2. \A n \in Names : (Cut(n) => Cut(n)') /\ DeathInv(n)'
    BY <1>1 DEF Cut, DeathInv, StoreInv, SaveInv
  <2> QED
    BY <1>1, <1>7, <2>1, <2>2, SavesStay
<1>10. DiskInv(s)'
  <2>1. Clear(new, Fresh', Tops)
    <3>1. Fresh \notin Tops
      BY TopsAreGiven
    <3>2. Clear(<<Fresh>>, Fresh', Tops)
      BY <1>2, <3>1 DEF Clear
    <3>3. Clear(chain, Fresh', Tops)
      <4>1. Fresh \in Nat /\ Fresh' \in Nat /\ Fresh <= Fresh' /\ Tops \subseteq Tops \cup {Fresh}
        BY <1>2
      <4> QED
        BY <4>1, ClearStays
    <3>4. new = chain \o <<Fresh>> /\ <<Fresh>> \in Seq(Nat)
      BY <1>2, AppendIsConcat
    <3> HIDE DEF new
    <3> QED
      BY <3>2, <3>3, <3>4, ClearBoth
  <2>2. new = chain \o <<Fresh>> /\ <<Fresh>> \in Seq(Nat) /\ Len(<<Fresh>>) = 1
    BY <1>2, AppendIsConcat
  <2>3. FirstLayer <= Fresh /\ 0 < 1 /\ 1 <= layers'
    BY <1>1, <1>2, TopsAreGiven
  <2> HIDE DEF new
  <2>4. \E c \in Seq(Nat), p \in Seq(Nat) :
          disk'[s] = c \o p /\ Len(p) = own'[s] /\ (loaded'[s] \/ c = ImageChain[image'[s]])
    BY <1>4, <2>2
  <2> QED
    BY <1>4, <1>5, <1>7, <2>1, <2>3, <2>4 DEF DiskInv
<1>11. ASSUME NEW t \in Sandboxes \ {s} PROVE DiskInv(t)'
  <2>1. DiskInv(t) /\ disk[t] \in Seq(Nat) /\ own[t] \in Nat
    BY <1>2 DEF StoreInv, Types
  <2>2. ASSUME On(t) PROVE Clear(disk[t], Fresh', OtherTops(t)')
    <3>1. /\ Fresh \in Nat /\ Fresh' \in Nat /\ Fresh <= Fresh'
          /\ OtherTops(t)' \subseteq OtherTops(t) \cup {Fresh}
      BY <1>2, <1>7
    <3>2. Clear(disk[t], Fresh, OtherTops(t))
      BY <2>1, <2>2 DEF DiskInv
    <3> QED
      BY <2>1, <3>1, <3>2, ClearStays
  <2>3. own[t] <= layers => own[t] <= layers'
    BY <1>1, <1>2, <2>1
  <2> QED
    BY <1>4, <1>6, <2>1, <2>2, <2>3 DEF DiskInv
<1> QED
  BY <1>3, <1>8, <1>9, <1>10, <1>11 DEF StoreInv

\* What can be loaded, whole or not, is a disk no sandbox writes to.
LEMMA LoadsAreClear ==
  ASSUME StoreInv, NEW n \in Names, Loadable(n)
  PROVE  /\ final[n].manifest \in Images
         /\ LoadedDisk(n) \in Seq(Nat) /\ Clear(LoadedDisk(n), Fresh, Tops)
<1> DEFINE dir == final[n]
<1>1. /\ dir # Nothing /\ dir.manifest # Nothing
      /\ Leftover(dir, Fresh, Tops)
  BY DEF Loadable, IsSave, StoreInv, SaveInv
<1>2. /\ dir.manifest \in Images /\ DOMAIN dir.overlays \subseteq 0..9
      /\ \A i \in DOMAIN dir.overlays :
            dir.overlays[i] \in Nat /\ dir.overlays[i] < Fresh /\ dir.overlays[i] \notin Tops
  BY <1>1 DEF Leftover
<1>3. /\ Overlays(dir) \in Seq(Nat)
      /\ \A k \in 1..Len(Overlays(dir)) :
            \E i \in DOMAIN dir.overlays : Overlays(dir)[k] = dir.overlays[i]
  BY <1>2, OverlaysAreThere
<1>4. Clear(Overlays(dir), Fresh, Tops)
  BY <1>2, <1>3 DEF Clear
<1>5. ImageChain[dir.manifest] \in Seq(Nat) /\ Clear(ImageChain[dir.manifest], Fresh, Tops)
  BY <1>2, TopsAreGiven, ImagesAreClear
<1> QED
  BY <1>2, <1>3, <1>4, <1>5, ClearBoth, ConcatProperties DEF LoadedDisk, DiskOf

\* start() on an image or on a save.
LEMMA StartSteps ==
  ASSUME StoreInv, NEW s \in Sandboxes, Start(s) \/ StartFromSave(s)
  PROVE  StoreInv'
<1>1. \A i \in Images : ImageChain[i] \in Seq(Nat) /\ Clear(ImageChain[i], Fresh, Tops)
  BY TopsAreGiven, ImagesAreClear
<1>2. CASE Start(s)
  BY <1>1, <1>2, BootStep DEF Start
<1>3. CASE StartFromSave(s)
  <2>1. PICK n \in Names : Loadable(n) /\ Boot(s, final[n].manifest, LoadedDisk(n), TRUE)
    BY <1>3 DEF StartFromSave
  <2>2. /\ final[n].manifest \in Images
        /\ LoadedDisk(n) \in Seq(Nat) /\ Clear(LoadedDisk(n), Fresh, Tops)
    BY <2>1, LoadsAreClear
  <2> QED
    BY <2>1, <2>2, BootStep
<1> QED
  BY <1>2, <1>3

\* Sandboxes that stop write to nothing any more.
LEMMA OffKeeps ==
  ASSUME StoreInv, NEW S \in SUBSET Sandboxes, Off(S)
  PROVE  /\ image' \in [Sandboxes -> Images \cup {Nothing}] /\ disk' \in [Sandboxes -> Seq(Nat)]
         /\ own' \in [Sandboxes -> Nat] /\ loaded' \in [Sandboxes -> BOOLEAN]
         /\ layers' = layers /\ Fresh' = Fresh /\ Tops' \subseteq Tops
         /\ \A s \in Sandboxes : DiskInv(s)'
<1>1. /\ image' \in [Sandboxes -> Images \cup {Nothing}] /\ disk' \in [Sandboxes -> Seq(Nat)]
      /\ own' \in [Sandboxes -> Nat] /\ loaded' \in [Sandboxes -> BOOLEAN]
      /\ layers' = layers /\ Fresh' = Fresh
  <2>1. Types /\ <<>> \in Seq(Nat) /\ \A s \in Sandboxes : disk[s] \in Seq(Nat)
    BY DEF StoreInv, Types
  <2>2. disk' \in [Sandboxes -> Seq(Nat)]
    BY <2>1 DEF Off
  <2> QED
    BY <2>1, <2>2 DEF Off, Types, Fresh
<1>2. ASSUME NEW s \in Sandboxes, On(s)'
      PROVE  /\ On(s) /\ Top(s)' = Top(s) /\ image'[s] = image[s] /\ disk'[s] = disk[s]
             /\ own'[s] = own[s] /\ loaded'[s] = loaded[s]
  BY <1>2 DEF Off, On, Top
<1>3. Tops' \subseteq Tops
  BY <1>2 DEF Tops
<1>4. ASSUME NEW s \in Sandboxes PROVE DiskInv(s)'
  <2>0. ~On(s)' => disk'[s] = <<>>
    BY DEF Off, On, StoreInv, DiskInv
  <2> SUFFICES ASSUME On(s)' PROVE DiskInv(s)'
    BY <2>0 DEF DiskInv
  <2>1. DiskInv(s) /\ On(s) /\ disk[s] \in Seq(Nat) /\ Fresh \in Nat
    BY <1>2, TopsAreGiven DEF StoreInv, Types
  <2>2. OtherTops(s)' \subseteq OtherTops(s)
    BY <1>2 DEF OtherTops
  <2>3. Clear(disk[s], Fresh, OtherTops(s)')
    <3>1. /\ OtherTops(s)' \subseteq OtherTops(s) \cup {Fresh} /\ Fresh <= Fresh
          /\ Clear(disk[s], Fresh, OtherTops(s))
      BY <2>1, <2>2 DEF DiskInv
    <3> QED
      BY <2>1, <3>1, ClearStays
  <2> QED
    BY <1>1, <1>2, <2>1, <2>3 DEF DiskInv
<1> QED
  BY <1>1, <1>3, <1>4

\* stop(), and the death of the process, which may leave a write() half done and
\* cut the replacement of a save: then the new one is complete.
LEMMA StopSteps ==
  ASSUME StoreInv, (\E s \in Sandboxes : Stop(s)) \/ Crash
  PROVE  StoreInv'
<1> USE StoreAssumption
<1>1. PICK S \in SUBSET Sandboxes : Off(S)
  BY DEF Stop, Crash
<1>2. UNCHANGED <<final, tmp, promised, lost>> /\ writer' = Nothing
  BY DEF Stop, Crash, promiseVars
<1>3. ASSUME writer # Nothing
      PROVE  /\ writer \in Writers /\ writer.name \in Names
             /\ pending[writer.name] = writer.promise /\ writer.promise # Nothing
  BY <1>3 DEF StoreInv, Types, WriterInv, Writers
<1>4. /\ pending' \in Disks
      /\ \A n \in Names : ~(writer # Nothing /\ writer.name = n) => pending'[n] = pending[n]
      /\ Replacing => pending' = pending
      /\ writer # Nothing /\ ~Replacing => pending'[writer.name] = Nothing
  <2>1. pending \in Disks
    BY DEF StoreInv, Types
  <2>2. \/ pending' = pending /\ (writer = Nothing \/ Replacing)
        \/ writer # Nothing /\ ~Replacing /\ pending' = [pending EXCEPT ![writer.name] = Nothing]
    BY DEF Stop, Crash, promiseVars
  <2> QED
    BY <1>3, <2>1, <2>2 DEF Disks
<1>5. Types'
  BY <1>1, <1>2, <1>4, OffKeeps DEF StoreInv, Types
<1>6. WriterInv'
  BY <1>2 DEF WriterInv
<1>7. \A n \in Names : SaveInv(n)'
  <2>1. ~At("swap")' /\ Fresh' \in Nat /\ Fresh <= Fresh' /\ Tops' \subseteq Tops \cup {Fresh}
    BY <1>1, <1>2, OffKeeps, TopsAreGiven DEF At
  <2>2. ASSUME NEW n \in Names, At("swap"), writer.name = n, promised[n] # Nothing
        PROVE  Cut(n)'
    <3>1. writer # Nothing /\ Replacing
      BY <2>2 DEF Replacing, At
    <3>2. pending'[n] # Nothing
      BY <1>3, <1>4, <2>2, <3>1
    <3> QED
      BY <1>2, <3>2 DEF Cut
  <2>3. ASSUME NEW n \in Names PROVE Cut(n) => Cut(n)'
    BY <1>2, <1>4 DEF Cut
  <2>4. ASSUME NEW n \in Names, pending'[n] # Nothing
        PROVE  Complete(tmp[n], pending'[n])
    <3>1. CASE writer # Nothing /\ writer.name = n
      <4>1. Replacing /\ pending'[n] = writer.promise
        BY <1>3, <1>4, <2>4, <3>1
      <4>2. writer.step = "swap" /\ writer.part \in Seq(Nat) /\ writer.base \in Images
        BY <1>3, <3>1, <4>1 DEF Replacing, At, Writers
      <4> QED
        BY <3>1, <4>1, <4>2 DEF StoreInv, WriterInv, Complete
    <3>2. CASE ~(writer # Nothing /\ writer.name = n)
      BY <1>4, <2>4, <3>2 DEF StoreInv, SaveInv, DeathInv
    <3> QED
      BY <3>1, <3>2
  <2>5. \A n \in Names : DeathInv(n)'
    BY <1>2, <2>4 DEF DeathInv
  <2> QED
    BY <1>2, <2>1, <2>2, <2>3, <2>5, SavesStay
<1> QED
  BY <1>1, <1>5, <1>6, <1>7, OffKeeps DEF StoreInv

\* save() freezes the disk under a new overlay: what is to be written is the
\* session's part of it, to which nobody writes from then on.
LEMMA SaveStep ==
  ASSUME StoreInv, FewOverlays, NEW s \in Sandboxes, Save(s)
  PROVE  StoreInv'
<1> USE StoreAssumption
<1> DEFINE new == Append(disk[s], Fresh)
<1>1. PICK n \in Names : BeginSave(s, n, SavedPart(s)) /\ Pivot(s)
  BY DEF Save
<1>2. /\ writer = Nothing /\ On(s) /\ layers < MaxLayers /\ (loaded[s] => Resaving)
      /\ writer' = [step |-> "clean", name |-> n, base |-> image[s],
                    part |-> SavedPart(s), promise |-> disk[s]]
      /\ disk' = [disk EXCEPT ![s] = new] /\ own' = [own EXCEPT ![s] = own[s] + 1]
      /\ layers' = layers + 1 /\ UNCHANGED <<image, loaded, final, tmp, crashes, promised>>
      /\ pending' = [pending EXCEPT ![n] = disk[s]]
      /\ lost' = IF pending[n] = Nothing THEN lost ELSE lost \cup {n}
  BY <1>1 DEF BeginSave, Pivot, On
<1>3. /\ Types /\ layers \in Nat /\ Fresh \in Nat /\ Fresh' = Fresh + 1 /\ own[s] \in Nat
      /\ disk[s] \in Seq(Nat) /\ Len(disk[s]) \in Nat /\ image[s] \in Images
      /\ new \in Seq(Nat) /\ Len(new) = Len(disk[s]) + 1 /\ new[Len(disk[s]) + 1] = Fresh
  <2>1. /\ Types /\ layers \in Nat /\ own[s] \in Nat /\ disk[s] \in Seq(Nat) /\ image[s] \in Images
    BY <1>2 DEF StoreInv, Types, On
  <2>2. Fresh \in Nat /\ Fresh' = Fresh + 1
    BY <1>2, <2>1 DEF Fresh, FirstLayer
  <2> HIDE DEF Fresh
  <2>3. new \in Seq(Nat) /\ Len(new) = Len(disk[s]) + 1 /\ new[Len(disk[s]) + 1] = Fresh
    BY <2>1, <2>2, AppendProperties
  <2> QED
    BY <2>1, <2>2, <2>3
<1>4. /\ \A t \in Sandboxes \ {s} : disk'[t] = disk[t] /\ own'[t] = own[t]
      /\ disk'[s] = new /\ own'[s] = own[s] + 1
      /\ image' = image /\ loaded' = loaded
  BY <1>2, <1>3 DEF Types
<1>5. On(s)' /\ Top(s)' = Fresh
  BY <1>2, <1>3, <1>4 DEF On, Top
<1>6. \A t \in Sandboxes \ {s} : (On(t)' <=> On(t)) /\ Top(t)' = Top(t)
  BY <1>4 DEF On, Top
<1>7. /\ Tops' = OtherTops(s) \cup {Fresh} /\ OtherTops(s)' = OtherTops(s)
      /\ OtherTops(s) \subseteq Tops
      /\ \A t \in Sandboxes \ {s} : OtherTops(t)' \subseteq OtherTops(t) \cup {Fresh}
  BY <1>2, <1>5, <1>6 DEF Tops, OtherTops
<1>8. PICK c \in Seq(Nat), p \in Seq(Nat) :
        /\ disk[s] = c \o p /\ Len(p) = own[s]
        /\ loaded[s] \/ c = ImageChain[image[s]]
  BY <1>2 DEF StoreInv, DiskInv
<1>9. /\ 0 < own[s] /\ own[s] <= layers /\ own[s] <= 10
      /\ FirstLayer <= Top(s) /\ Clear(disk[s], Fresh, OtherTops(s))
  BY <1>2 DEF StoreInv, DiskInv, FewOverlays
<1>10. SavedPart(s) = p
  BY <1>8, UpperPart DEF SavedPart
<1>11. Types'
  <2>1. writer' \in Writers
    BY <1>2, <1>3, <1>10 DEF Writers
  <2>2. disk' \in [Sandboxes -> Seq(Nat)] /\ own' \in [Sandboxes -> Nat]
    BY <1>2, <1>3 DEF Types
  <2>3. layers' \in 0..MaxLayers
    BY <1>2, <1>3 DEF Types
  <2> QED
    BY <1>2, <1>3, <2>1, <2>2, <2>3 DEF Types, Disks
<1>12. Clear(disk[s], Fresh', Tops') /\ Clear(p, Fresh', Tops')
  <2>1. Fresh <= Fresh' /\ Fresh' \in Nat /\ Tops' \subseteq OtherTops(s) \cup {Fresh}
    BY <1>3, <1>7
  <2>2. Clear(disk[s], Fresh', Tops')
    BY <1>3, <1>9, <2>1, ClearStays
  <2>3. Clear(c, Fresh', Tops') /\ Clear(p, Fresh', Tops')
    BY <1>8, <2>2, ClearBoth
  <2> QED
    BY <2>2, <2>3
<1>13. WriterInv'
  <2>1. /\ writer'.part = p /\ writer'.promise = disk[s] /\ writer'.base = image[s]
        /\ writer'.step = "clean" /\ pending'[writer'.name] = disk[s]
    BY <1>2, <1>3, <1>10 DEF Types, Disks
  <2>2. 0 < Len(p) /\ Len(p) <= 10 /\ Len(p) <= MaxLayers
    BY <1>2, <1>3, <1>8, <1>9
  <2>3. Resaving \/ disk[s] = ImageChain[image[s]] \o p
    BY <1>2, <1>8
  <2> QED
    BY <1>12, <2>1, <2>2, <2>3 DEF WriterInv
<1>14. \A m \in Names : SaveInv(m)'
  <2>0. /\ Fresh' \in Nat /\ Fresh <= Fresh' /\ Tops' \subseteq Tops \cup {Fresh}
    BY <1>3, <1>7
  <2>1. ~At("swap") /\ ~At("swap")'
    BY <1>2 DEF At
  <2>2. \A m \in Names \ {n} : pending'[m] = pending[m]
    BY <1>2, <1>3 DEF Types, Disks
  <2>3. writer' # Nothing /\ writer'.name = n
    <3>1. writer' \in Writers
      BY <1>1, <1>2, <1>3, <1>10 DEF Writers
    <3> QED
      BY <1>2, <3>1, StoreAssumption
  <2>4. \A m \in Names : (Cut(m) => Cut(m)') /\ DeathInv(m)'
    BY <1>2, <2>2, <2>3 DEF Cut, DeathInv, StoreInv, SaveInv
  <2> QED
    BY <1>2, <2>0, <2>1, <2>4, SavesStay
<1>15. DiskInv(s)'
  <2>1. Clear(new, Fresh', OtherTops(s))
    <3>1. Fresh \notin OtherTops(s)
      BY <1>7, TopsAreGiven
    <3>2. Clear(<<Fresh>>, Fresh', OtherTops(s))
      BY <1>3, <3>1 DEF Clear
    <3>3. Fresh <= Fresh' /\ Fresh' \in Nat /\ OtherTops(s) \subseteq OtherTops(s) \cup {Fresh}
      BY <1>3
    <3>4. Clear(disk[s], Fresh', OtherTops(s))
      BY <1>3, <1>9, <3>3, ClearStays
    <3>5. disk[s] \in Seq(Nat) /\ Fresh \in Nat /\ <<Fresh>> \in Seq(Nat)
      BY <1>3
    <3>6. new = disk[s] \o <<Fresh>>
      BY <3>5, AppendIsConcat
    <3> HIDE DEF new
    <3>7. Clear(disk[s] \o <<Fresh>>, Fresh', OtherTops(s))
      BY <3>2, <3>4, <3>5, ClearBoth
    <3> QED
      BY <3>6, <3>7
  <2>2. /\ new = c \o Append(p, Fresh) /\ Append(p, Fresh) \in Seq(Nat)
        /\ Len(Append(p, Fresh)) = own[s] + 1
    <3>1. Fresh \in Nat /\ disk[s] = c \o p /\ Len(p) = own[s]
      BY <1>3, <1>8
    <3>2. /\ Append(c \o p, Fresh) = c \o Append(p, Fresh) /\ Append(p, Fresh) \in Seq(Nat)
          /\ Len(Append(p, Fresh)) = Len(p) + 1
      BY <3>1, OneMoreOverlay
    <3> QED
      BY <3>1, <3>2
  <2>3. FirstLayer <= Fresh /\ 0 < own[s] + 1 /\ own[s] + 1 <= layers'
    <3>1. own[s] \in Nat /\ layers \in Nat /\ own[s] <= layers /\ layers' = layers + 1
      BY <1>2, <1>3, <1>9
    <3>2. FirstLayer <= Fresh
      BY TopsAreGiven
    <3>3. 0 < own[s] + 1 /\ own[s] + 1 <= layers'
      BY <3>1
    <3> QED
      BY <3>2, <3>3
  <2> HIDE DEF new
  <2>4. \E d \in Seq(Nat), q \in Seq(Nat) :
          disk'[s] = d \o q /\ Len(q) = own'[s] /\ (loaded'[s] \/ d = ImageChain[image'[s]])
    BY <1>4, <1>8, <2>2
  <2> QED
    BY <1>4, <1>5, <1>7, <2>1, <2>3, <2>4 DEF DiskInv
<1>16. ASSUME NEW t \in Sandboxes \ {s} PROVE DiskInv(t)'
  <2>0. ~On(t)' => disk'[t] = <<>>
    BY <1>4, <1>6 DEF StoreInv, DiskInv
  <2> SUFFICES ASSUME On(t) PROVE DiskInv(t)'
    BY <1>6, <2>0 DEF DiskInv
  <2>1. DiskInv(t) /\ disk[t] \in Seq(Nat) /\ own[t] \in Nat
    BY <1>3 DEF StoreInv, Types
  <2>2. /\ Fresh \in Nat /\ Fresh' \in Nat /\ Fresh <= Fresh'
        /\ OtherTops(t)' \subseteq OtherTops(t) \cup {Fresh}
        /\ Clear(disk[t], Fresh, OtherTops(t))
    <3>1. Fresh \in Nat /\ Fresh' = Fresh + 1
      BY <1>3
    <3>2. Clear(disk[t], Fresh, OtherTops(t))
      BY <2>1 DEF DiskInv
    <3> QED
      BY <1>7, <3>1, <3>2
  <2>3. Clear(disk[t], Fresh', OtherTops(t)')
    BY <2>1, <2>2, ClearStays
  <2>4. own[t] <= layers => own[t] <= layers'
    BY <1>2, <1>3, <2>1
  <2> QED
    BY <1>4, <1>6, <2>1, <2>3, <2>4 DEF DiskInv
<1> QED
  BY <1>11, <1>13, <1>14, <1>15, <1>16 DEF StoreInv

\* write() changes nothing of the sandboxes.
LEMMA DisksStay ==
  ASSUME StoreInv, UNCHANGED sandboxVars
  PROVE  /\ \A s \in Sandboxes : DiskInv(s)'
         /\ Fresh' = Fresh /\ Tops' = Tops /\ Fresh' \in Nat
<1>1. UNCHANGED <<image, disk, own, loaded, layers>>
  BY DEF sandboxVars
<1>2. Fresh' = Fresh /\ Tops' = Tops /\ \A s \in Sandboxes : OtherTops(s)' = OtherTops(s)
  BY <1>1 DEF Fresh, Tops, OtherTops, On, Top
<1>3. \A s \in Sandboxes : (On(s)' <=> On(s)) /\ Top(s)' = Top(s)
  BY <1>1 DEF On, Top
<1>4. \A s \in Sandboxes : DiskInv(s)'
  BY <1>1, <1>2, <1>3 DEF DiskInv, StoreInv
<1> QED
  BY <1>2, <1>4, TopsAreGiven

\* Until the temporary directory is complete the saves stay what they were.
LEMMA PreparingSteps ==
  ASSUME StoreInv, Clean \/ CopyOverlay
  PROVE  StoreInv'
<1> DEFINE w == writer  n == writer.name  part == writer.part
<1>1. /\ writer # Nothing /\ writer \in Writers /\ Types /\ ~At("swap") /\ n \in Names
      /\ UNCHANGED <<final, promised, pending, lost>> /\ UNCHANGED sandboxVars
  BY DEF Clean, CopyOverlay, At, Unsaved, promiseVars, StoreInv, Types, Writers
<1>2. writer' # Nothing => /\ writer' \in Writers /\ writer'.name = n /\ writer'.part = part
                           /\ writer'.base = w.base /\ writer'.promise = w.promise
                           /\ writer'.step = "copy"
  BY <1>1 DEF Clean, CopyOverlay, GoTo, At, Writers
<1>3. DOMAIN tmp' = Names
  BY <1>1 DEF Clean, CopyOverlay, Types
<1>4. \E k \in 0..Len(part) :
        tmp'[n] = [manifest |-> Nothing, overlays |-> FilesOf(part, k)]
  <2>1. part \in Seq(Nat) /\ Len(part) \in Nat
    BY <1>1 DEF Writers
  <2>2. CASE Clean
    <3>1. tmp'[n] = EmptyDir
      BY <1>1, <2>2 DEF Clean, Types
    <3>2. FilesOf(part, 0) = <<>>
      <4>1. 0..(0 - 1) = {}
        OBVIOUS
      <4> QED
        BY <4>1 DEF FilesOf
    <3>3. 0 \in 0..Len(part)
      BY <2>1
    <3> QED
      BY <3>1, <3>2, <3>3 DEF EmptyDir
  <2>3. CASE CopyOverlay
    <3>1. PICK k \in 0..Len(part) :
            tmp[n] = [manifest |-> Nothing, overlays |-> FilesOf(part, k)]
      BY <1>1, <2>3 DEF StoreInv, WriterInv, CopyOverlay, At
    <3>2. Copied = k
      <4>1. DOMAIN FilesOf(part, k) = 0..(k - 1) /\ Cardinality(0..(k - 1)) = k
        BY <2>1, NextFile
      <4>2. tmp[n].overlays = FilesOf(part, k)
        BY <3>1
      <4> QED
        BY <4>1, <4>2 DEF Copied
    <3>3. k < Len(part) /\ k \in Nat /\ k + 1 \in 0..Len(part)
      BY <2>1, <2>3, <3>2 DEF CopyOverlay
    <3>4. DOMAIN FilesOf(part, k) = 0..(k - 1)
      BY <2>1, NextFile
    <3>5. tmp' = [tmp EXCEPT ![n].overlays =
                   [i \in (DOMAIN @) \cup {k} |-> IF i = k THEN part[i + 1] ELSE @[i]]]
      BY <2>3, <3>2 DEF CopyOverlay
    <3>6. tmp'[n] = [tmp[n] EXCEPT !.overlays =
                   [i \in (0..(k - 1)) \cup {k} |->
                      IF i = k THEN part[i + 1] ELSE FilesOf(part, k)[i]]]
      <4>1. tmp'[n] = [tmp[n] EXCEPT !.overlays =
               [i \in (DOMAIN tmp[n].overlays) \cup {k} |->
                  IF i = k THEN part[i + 1] ELSE tmp[n].overlays[i]]]
        BY <1>1, <3>5 DEF Types
      <4>2. tmp[n].overlays = FilesOf(part, k)
        BY <3>1
      <4> QED
        BY <3>4, <4>1, <4>2
    <3>7. FilesOf(part, k + 1) = [i \in (0..(k - 1)) \cup {k} |->
                      IF i = k THEN part[i + 1] ELSE FilesOf(part, k)[i]]
      BY <2>1, <3>3, NextFile
    <3>8. tmp'[n] = [tmp[n] EXCEPT !.overlays = FilesOf(part, k + 1)]
      BY <3>6, <3>7
    <3>9. tmp'[n] = [manifest |-> Nothing, overlays |-> FilesOf(part, k + 1)]
      BY <3>1, <3>8
    <3> QED
      BY <3>3, <3>9
  <2> QED
    BY <2>2, <2>3
<1>5. Types'
  BY <1>1, <1>2, <1>3 DEF Types, sandboxVars
<1>6. WriterInv'
  BY <1>1, <1>2, <1>4, DisksStay DEF WriterInv, StoreInv
<1>7. \A m \in Names : SaveInv(m)'
  <2>1. ~At("swap")'
    BY <1>1, <1>2 DEF At
  <2>2. Fresh' \in Nat /\ Fresh <= Fresh' /\ Tops' \subseteq Tops \cup {Fresh}
    BY <1>1, DisksStay
  <2>3. writer' # Nothing /\ writer'.name = n
    <3>1. writer' \in Writers
      BY <1>1 DEF Clean, CopyOverlay, GoTo, At, Writers
    <3> QED
      BY <1>2, <3>1, StoreAssumption
  <2>4. \A m \in Names \ {n} : tmp'[m] = tmp[m]
    BY <1>1 DEF Clean, CopyOverlay, Types
  <2>5. \A m \in Names : (Cut(m) => Cut(m)') /\ DeathInv(m)'
    BY <1>1, <2>3, <2>4 DEF Cut, DeathInv, StoreInv, SaveInv
  <2> QED
    BY <1>1, <2>1, <2>2, <2>5, SavesStay
<1> QED
  BY <1>1, <1>5, <1>6, <1>7, DisksStay DEF StoreInv

\* The manifest completes the temporary directory: it is the save.
LEMMA ManifestStep ==
  ASSUME StoreInv, WriteManifest
  PROVE  StoreInv'
<1> DEFINE n == writer.name  part == writer.part  b == writer.base
<1>1. /\ writer # Nothing /\ writer \in Writers /\ Types /\ ~At("swap") /\ n \in Names
      /\ writer.step = "copy" /\ Copied >= Len(part)
      /\ UNCHANGED <<final, promised, pending, lost>> /\ UNCHANGED sandboxVars
      /\ tmp' = [tmp EXCEPT ![n].manifest = b]
      /\ writer' = [writer EXCEPT !.step = "swap"]
  BY DEF WriteManifest, At, GoTo, Unsaved, promiseVars, StoreInv, Types, Writers
<1>2. /\ writer' \in Writers /\ writer'.name = n /\ writer'.part = part /\ writer'.base = b
      /\ writer'.promise = writer.promise /\ writer'.step = "swap"
  BY <1>1 DEF Writers
<1>3. part \in Seq(Nat) /\ Len(part) \in Nat
  BY <1>1 DEF Writers
<1>4. PICK k \in 0..Len(part) :
        tmp[n] = [manifest |-> Nothing, overlays |-> FilesOf(part, k)]
  BY <1>1 DEF StoreInv, WriterInv
<1>5. k = Len(part)
  <2>1. DOMAIN FilesOf(part, k) = 0..(k - 1) /\ Cardinality(0..(k - 1)) = k
    BY <1>3, NextFile
  <2>2. tmp[n].overlays = FilesOf(part, k)
    BY <1>4
  <2>3. Copied = k
    BY <2>1, <2>2 DEF Copied
  <2> QED
    BY <1>1, <1>3, <2>3
<1>6. tmp'[n] = SaveOf(b, part) /\ DOMAIN tmp' = Names
  <2>1. tmp'[n] = [tmp[n] EXCEPT !.manifest = b] /\ DOMAIN tmp' = Names
    BY <1>1 DEF Types
  <2> QED
    BY <1>4, <1>5, <2>1 DEF SaveOf
<1>7. promised[n] = Nothing => final[n] = Nothing
  BY <1>1 DEF StoreInv, SaveInv
<1>12. writer' # Nothing
  BY <1>2, StoreAssumption
<1>8. /\ promised' = promised /\ final' = final /\ Fresh' = Fresh /\ Tops' = Tops
      /\ \A s \in Sandboxes : DiskInv(s)'
  BY <1>1, DisksStay
<1>9. Types'
  BY <1>1, <1>2, <1>6 DEF Types, sandboxVars
<1>10. WriterInv'
  BY <1>1, <1>2, <1>6, <1>7, <1>8 DEF WriterInv, StoreInv
<1>11. \A m \in Names : SaveInv(m)'
  <2> SUFFICES ASSUME NEW m \in Names PROVE SaveInv(m)'
    OBVIOUS
  <2>1. SaveInv(m) /\ (m # n => tmp'[m] = tmp[m])
    BY <1>1 DEF StoreInv, Types
  <2>2. (Cut(m) => Cut(m)') /\ DeathInv(m)'
    BY <1>1, <1>2, <1>12, <2>1 DEF Cut, DeathInv, SaveInv
  <2> QED
    BY <1>1, <1>8, <2>1, <2>2 DEF SaveInv
<1> QED
  BY <1>8, <1>9, <1>10, <1>11 DEF StoreInv

\* What rmtree leaves is a part of what was there.
LEMMA RemovingLeaves ==
  ASSUME StoreInv, RemoveOverlay \/ RemoveManifest \/ RemoveDirectory,
         Leftover(final[writer.name], Fresh, Tops)
  PROVE  Leftover(final'[writer.name], Fresh, Tops)
<1> DEFINE n == writer.name  d == final[n]
<1>1. DOMAIN final = Names /\ n \in Names /\ d # Nothing
  BY DEF RemoveOverlay, RemoveManifest, RemoveDirectory, At, StoreInv, Types, Writers
<1>2. /\ d.manifest \in Images \cup {Nothing} /\ DOMAIN d.overlays \subseteq 0..9
      /\ \A i \in DOMAIN d.overlays :
            d.overlays[i] \in Nat /\ d.overlays[i] < Fresh /\ d.overlays[i] \notin Tops
  BY <1>1 DEF Leftover
<1>3. CASE RemoveOverlay
  <2>1. PICK i \in DOMAIN d.overlays :
          final' = [final EXCEPT ![n].overlays = Restrict(@, (DOMAIN @) \ {i})]
    BY <1>3 DEF RemoveOverlay
  <2>2. final'[n] = [d EXCEPT !.overlays = Restrict(d.overlays, (DOMAIN d.overlays) \ {i})]
    BY <1>1, <2>1
  <2>3. Restrict(d.overlays, (DOMAIN d.overlays) \ {i})
          = [j \in (DOMAIN d.overlays) \ {i} |-> d.overlays[j]]
    BY DEF Restrict
  <2> QED
    BY <1>2, <2>2, <2>3 DEF Leftover
<1>4. CASE RemoveManifest
  <2>1. final'[n] = [d EXCEPT !.manifest = Nothing]
    BY <1>1, <1>4 DEF RemoveManifest
  <2> QED
    BY <1>2, <2>1 DEF Leftover
<1>5. CASE RemoveDirectory
  <2>1. final'[n] = Nothing
    BY <1>1, <1>5 DEF RemoveDirectory
  <2> QED
    BY <2>1 DEF Leftover
<1> QED
  BY <1>3, <1>4, <1>5

\* Taking the old save away touches no other save.
LEMMA RemoveSteps ==
  ASSUME StoreInv, RemoveOverlay \/ RemoveManifest \/ RemoveDirectory
  PROVE  StoreInv'
<1> DEFINE n == writer.name
<1>1. /\ At("swap") /\ writer # Nothing /\ writer \in Writers /\ Types /\ n \in Names
      /\ final[n] # Nothing /\ UNCHANGED <<tmp, writer, promised, pending, lost>>
      /\ UNCHANGED sandboxVars
  BY DEF RemoveOverlay, RemoveManifest, RemoveDirectory, At, Unsaved, promiseVars, StoreInv,
         Types, Writers
<1>2. DOMAIN final' = Names /\ \A m \in Names \ {n} : final'[m] = final[m]
  BY <1>1 DEF RemoveOverlay, RemoveManifest, RemoveDirectory, Types
<1>3. promised[n] # Nothing
  BY <1>1 DEF StoreInv, WriterInv, At
<1>4. /\ promised' = promised /\ writer' = writer /\ Fresh' = Fresh /\ Tops' = Tops
      /\ At("swap")' /\ tmp' = tmp /\ \A s \in Sandboxes : DiskInv(s)'
  BY <1>1, DisksStay DEF At
<1>5. Types'
  BY <1>1, <1>2 DEF Types, sandboxVars
<1>6. WriterInv'
  BY <1>1, <1>3, <1>4 DEF WriterInv, StoreInv
<1>7. \A m \in Names : SaveInv(m)'
  <2> SUFFICES ASSUME NEW m \in Names PROVE SaveInv(m)'
    OBVIOUS
  <2>1. SaveInv(m)
    BY DEF StoreInv
  <2>4. (Cut(m) => Cut(m)') /\ DeathInv(m)'
    BY <1>1, <1>4, <2>1 DEF Cut, DeathInv, SaveInv
  <2>2. CASE m = n
    <3>1. Leftover(final'[n], Fresh, Tops)
      BY <2>1, <2>2, RemovingLeaves DEF SaveInv
    <3> QED
      BY <1>4, <2>1, <2>2, <2>4, <3>1 DEF SaveInv
  <2>3. CASE m # n
    <3>1. final'[m] = final[m]
      BY <1>2, <2>3
    <3> QED
      BY <1>1, <1>4, <2>1, <2>3, <2>4, <3>1 DEF SaveInv
  <2> QED
    BY <2>2, <2>3
<1> QED
  BY <1>4, <1>5, <1>6, <1>7 DEF StoreInv

\* The temporary directory becomes the save, and its disk what it promises.
LEMMA RenameStep ==
  ASSUME StoreInv, Rename
  PROVE  StoreInv'
<1> DEFINE part == writer.part  b == writer.base
<1>0. PICK n \in Names : writer # Nothing /\ n = writer.name
  BY DEF Rename, At, StoreInv, Types, Writers
<1>1. /\ writer # Nothing /\ writer \in Writers /\ Types
      /\ writer.step = "swap" /\ writer' = Nothing /\ UNCHANGED sandboxVars
      /\ final' = [final EXCEPT ![n] = tmp[n]] /\ tmp' = [tmp EXCEPT ![n] = Nothing]
      /\ promised' = [promised EXCEPT ![n] = writer.promise]
      /\ pending' = [pending EXCEPT ![n] = Nothing] /\ lost' = lost \ {n}
  BY <1>0 DEF Rename, At, StoreInv, Types
<1>2. part \in Seq(Nat) /\ b \in Images /\ writer.promise \in Seq(Nat) /\ Len(part) \in Nat
  BY <1>1 DEF Writers
<1>3. /\ 0 < Len(part) /\ Len(part) <= 10 /\ Len(part) <= MaxLayers
      /\ Resaving \/ writer.promise = ImageChain[b] \o part
      /\ Clear(part, Fresh, Tops) /\ Clear(writer.promise, Fresh, Tops)
      /\ tmp[n] = SaveOf(b, part)
  BY <1>0, <1>1 DEF StoreInv, WriterInv
<1>4. /\ final'[n] = SaveOf(b, part) /\ promised'[n] = writer.promise /\ pending'[n] = Nothing
      /\ DOMAIN final' = Names /\ DOMAIN tmp' = Names
      /\ promised' \in Disks /\ pending' \in Disks
      /\ \A m \in Names \ {n} : /\ final'[m] = final[m] /\ promised'[m] = promised[m]
                                /\ pending'[m] = pending[m] /\ tmp'[m] = tmp[m]
  BY <1>1, <1>2, <1>3 DEF Types, Disks
<1>5. promised'[n] # Nothing
  BY <1>2, <1>4, StoreAssumption
<1>6. Fresh' = Fresh /\ Tops' = Tops /\ \A s \in Sandboxes : DiskInv(s)'
  BY <1>1, DisksStay
<1>7. Types'
  BY <1>1, <1>4 DEF Types, sandboxVars
<1>8. WriterInv'
  BY <1>1 DEF WriterInv
<1>9. SaveInv(n)'
  <2>1. Complete(final'[n], promised'[n]) /\ Leftover(final'[n], Fresh, Tops)
    BY <1>2, <1>3, <1>4, SaveLeaves DEF Complete
  <2> QED
    BY <1>3, <1>4, <1>5, <1>6, <2>1 DEF SaveInv, DeathInv
<1>10. ASSUME NEW m \in Names \ {n} PROVE SaveInv(m)'
  <2>1. SaveInv(m) /\ writer.name # m
    BY <1>0 DEF StoreInv
  <2>2. (Cut(m) => Cut(m)') /\ DeathInv(m)'
    BY <1>1, <1>4, <2>1 DEF Cut, DeathInv, SaveInv
  <2> QED
    BY <1>4, <1>6, <2>1, <2>2 DEF SaveInv
<1>11. \A m \in Names : SaveInv(m)'
  BY <1>9, <1>10
<1> QED
  BY <1>6, <1>7, <1>8, <1>11 DEF StoreInv

\* A write() that fails leaves the saves alone, or cuts the one it was replacing.
LEMMA WriteFailsStep ==
  ASSUME StoreInv, WriteFails
  PROVE  StoreInv'
<1> DEFINE w == writer.name
<1>1. /\ writer # Nothing /\ writer \in Writers /\ Types /\ w \in Names
      /\ writer' = Nothing /\ UNCHANGED <<final, promised>> /\ UNCHANGED sandboxVars
      /\ tmp' = [tmp EXCEPT ![w] = Nothing] \/ tmp' = tmp
      /\ lost' = (IF Replacing THEN lost \cup {w} ELSE lost)
      /\ pending' = [pending EXCEPT ![w] = Nothing]
  BY DEF WriteFails, FailWith, StoreInv, Types, Writers
<1>2. /\ pending' \in Disks /\ lost' \subseteq Names /\ pending'[w] = Nothing
      /\ \A n \in Names \ {w} : pending'[n] = pending[n] /\ tmp'[n] = tmp[n]
  BY <1>1 DEF Types, Disks
<1>3. Types'
  BY <1>1, <1>2 DEF Types, sandboxVars
<1>4. WriterInv'
  BY <1>1 DEF WriterInv
<1>5. \A n \in Names : SaveInv(n)'
  <2>1. ASSUME NEW n \in Names, At("swap"), w = n, promised[n] # Nothing PROVE Cut(n)'
    BY <1>1, <2>1 DEF Cut, Replacing
  <2>4. ~At("swap")'
    BY <1>1 DEF At
  <2>2. \A n \in Names : (Cut(n) => Cut(n)') /\ DeathInv(n)'
    BY <1>1, <1>2 DEF Cut, DeathInv, StoreInv, SaveInv
  <2>3. Fresh' \in Nat /\ Fresh <= Fresh' /\ Tops' \subseteq Tops \cup {Fresh}
    BY <1>1, DisksStay
  <2> QED
    BY <1>1, <2>1, <2>2, <2>3, <2>4, SavesStay
<1> QED
  BY <1>1, <1>3, <1>4, <1>5, DisksStay DEF StoreInv

----------------------------------------------------------------------------
(* Every step, and what follows *)

\* Every step preserves the invariant, as long as the overlays are few.
LEMMA StoreStep == ASSUME StoreInv, FewOverlays, [Next]_vars PROVE StoreInv'
<1>1. CASE Writer
  BY <1>1, PreparingSteps, ManifestStep, RemoveSteps, RenameStep, WriteFailsStep DEF Writer
<1>2. CASE Crash
  BY <1>2, StopSteps
<1>3. ASSUME NEW s \in Sandboxes, Start(s) \/ StartFromSave(s) \/ Stop(s) \/ Save(s)
      PROVE  StoreInv'
  BY <1>3, StartSteps, StopSteps, SaveStep
<1>4. CASE UNCHANGED vars
  <2>1. /\ UNCHANGED sandboxVars
        /\ UNCHANGED <<final, tmp, writer, promised, pending, lost>>
    BY <1>4 DEF vars, promiseVars
  <2>2. /\ Fresh' = Fresh /\ Tops' = Tops /\ (At("swap")' <=> At("swap"))
        /\ \A s \in Sandboxes : DiskInv(s)'
    BY <2>1, DisksStay DEF At
  <2>3. Types' /\ WriterInv'
    BY <2>1, <2>2 DEF StoreInv, Types, WriterInv, sandboxVars
  <2>4. ASSUME NEW n \in Names PROVE SaveInv(n)'
    BY <2>1, <2>2 DEF StoreInv, SaveInv, Cut, DeathInv
  <2> QED
    BY <2>2, <2>3, <2>4 DEF StoreInv
<1> QED
  BY <1>1, <1>2, <1>3, <1>4 DEF Next

\* What a directory under a name holds is what was frozen, or what rmtree left
\* of it, in every history in which no session has more than ten overlays: the
\* eleventh, "10.qcow2", is read back before "2.qcow2".
THEOREM StoreTheorem == Spec /\ []FewOverlays => []StoreInv
<1>1. StoreInv /\ FewOverlays /\ [Next]_vars => StoreInv'
  BY StoreStep
<1>2. Init => StoreInv
  BY StoreInit
<1> QED
  BY <1>1, <1>2, PTL DEF Spec

\* A sandbox that is loaded from a save has exactly the disk that was saved, in
\* the order it was stacked, for sandboxes that were not themselves loaded from a
\* save, however often saves are replaced, fail, or die; the save whose
\* replacement was cut is the exception (_SaveMixin._save, SaveWriter.write,
\* ImageResolver._resolve_save).
THEOREM RoundTripTheorem == ~Resaving => (Spec /\ []FewOverlays => []RoundTrip)
<1> SUFFICES ASSUME ~Resaving PROVE Spec /\ []FewOverlays => []RoundTrip
  OBVIOUS
<1>1. StoreInv => RoundTrip
  <2> SUFFICES ASSUME StoreInv, writer = Nothing, NEW n \in Names, Loadable(n)
               PROVE  promised[n] # Nothing /\ (Cut(n) \/ LoadedDisk(n) = promised[n])
    BY DEF RoundTrip
  <2>1. final[n] # Nothing /\ ~At("swap")
    BY DEF Loadable, IsSave, At
  <2>2. promised[n] # Nothing /\ (Cut(n) \/ Complete(final[n], promised[n]))
    BY <2>1 DEF StoreInv, SaveInv
  <2> QED
    BY <2>2, CompleteIsSave DEF LoadedDisk
<1>2. Spec /\ []FewOverlays => []StoreInv
  BY StoreTheorem
<1> QED
  BY <1>1, <1>2, PTL

\* At every step of a write() that replaces a save, and after every death in it,
\* the old save is whole in its place or the new one is whole beside it
\* (SaveWriter.write); only an error while the old one is taken away ends this,
\* and the next write() after such a death.
THEOREM SavesTheorem == ~Resaving => (Spec /\ []FewOverlays => []SavesSurvive)
<1> SUFFICES ASSUME ~Resaving PROVE Spec /\ []FewOverlays => []SavesSurvive
  OBVIOUS
<1>1. StoreInv => SavesSurvive
  <2> SUFFICES ASSUME StoreInv, NEW n \in Names \ lost, promised[n] # Nothing
               PROVE  \/ IsSave(final[n]) /\ DiskOf(final[n]) = promised[n]
                      \/ IsSave(tmp[n]) /\ DiskOf(tmp[n]) = pending[n]
    BY DEF SavesSurvive
  <2>1. CASE At("swap") /\ writer.name = n
    <3>1. Complete(tmp[n], pending[n])
      <4>1. writer \in Writers /\ writer # Nothing /\ writer.step = "swap"
        BY <2>1 DEF At, StoreInv, Types
      <4>2. writer.part \in Seq(Nat) /\ writer.base \in Images
        BY <4>1 DEF Writers
      <4> QED
        BY <2>1, <4>1, <4>2 DEF StoreInv, WriterInv, Complete
    <3> QED
      BY <3>1, CompleteIsSave
  <2>2. CASE ~(At("swap") /\ writer.name = n)
    <3>1. CASE Complete(final[n], promised[n])
      BY <3>1, CompleteIsSave
    <3>2. CASE Cut(n)
      <4>1. Complete(tmp[n], pending[n])
        BY <3>2 DEF Cut, StoreInv, SaveInv, DeathInv
      <4> QED
        BY <4>1, CompleteIsSave
    <3> QED
      BY <2>2, <3>1, <3>2 DEF StoreInv, SaveInv
  <2> QED
    BY <2>1, <2>2
<1>2. Spec /\ []FewOverlays => []StoreInv
  BY StoreTheorem
<1> QED
  BY <1>1, <1>2, PTL

\* The layer a running sandbox writes to is in no other sandbox's disk and in no
\* save, also when both were started from one save, be it half removed, and when
\* a session is saved again and again (create_overlay, blockdev-snapshot-sync).
THEOREM PrivacyTheorem == Spec /\ []FewOverlays => []TopLayersArePrivate
<1>1. StoreInv => TopLayersArePrivate
  <2> SUFFICES ASSUME StoreInv, NEW s \in Sandboxes, On(s)
               PROVE  /\ \A t \in Sandboxes \ {s} : Last(disk[s]) \notin Range(disk[t])
                      /\ \A n \in Names : promised[n] # Nothing =>
                           Last(disk[s]) \notin Range(promised[n])
    BY DEF TopLayersArePrivate, On
  <2>1. Last(disk[s]) = Top(s) /\ Top(s) \in Tops
    BY DEF Last, Top, Tops
  <2>2. ASSUME NEW q \in Seq(Nat), NEW T, Clear(q, Fresh, T), Top(s) \in T
        PROVE  Top(s) \notin Range(q)
    BY <2>2 DEF Clear, Range
  <2>3. ASSUME NEW t \in Sandboxes \ {s} PROVE Top(s) \notin Range(disk[t])
    <3>1. disk[t] \in Seq(Nat)
      BY DEF StoreInv, Types
    <3>2. CASE On(t)
      <4>1. Clear(disk[t], Fresh, OtherTops(t)) /\ Top(s) \in OtherTops(t)
        BY <3>2 DEF StoreInv, DiskInv, OtherTops
      <4> QED
        BY <2>2, <3>1, <4>1
    <3>3. CASE ~On(t)
      <4>1. disk[t] = <<>>
        BY <3>3 DEF StoreInv, DiskInv
      <4> QED
        BY <4>1 DEF Range
    <3> QED
      BY <3>2, <3>3
  <2>4. ASSUME NEW n \in Names, promised[n] # Nothing PROVE Top(s) \notin Range(promised[n])
    <3>1. promised[n] \in Seq(Nat) /\ Clear(promised[n], Fresh, Tops)
      BY <2>4 DEF StoreInv, Types, Disks, SaveInv
    <3> QED
      BY <2>1, <2>2, <3>1
  <2> QED
    BY <2>1, <2>3, <2>4
<1>2. Spec /\ []FewOverlays => []StoreInv
  BY StoreTheorem
<1> QED
  BY <1>1, <1>2, PTL

=============================================================================
