-------------------------- MODULE AgentClient_proofs --------------------------
(***************************************************************************)
(* TypeOK and WaitersAreRegistered of AgentClient for any number of        *)
(* requests, lost connections and crashes of the agent; and, of an agent   *)
(* that answers within the waits of connect() (PromptAgent), AnswersMatch  *)
(* and StreamInOrder.                                                      *)
(***************************************************************************)
EXTENDS AgentClient, SequenceTheorems, TLAPS

(***************************************************************************)
(* The invariant has a part for each of the host, the wires and the guest, *)
(* and one, WaitInv, that is more than types: what has been unregistered   *)
(* while in flight has the frame that ends it, a future as its only one, a *)
(* queue as its last.                                                      *)
(***************************************************************************)
Frames == {f \in [id : Nat, kind : FrameKinds, of : Callers \cup {NoCaller}, n : Nat] :
             f.kind = "request" => f.of \in Callers}
Stages == {"dialing", "authing", "authwait", "draining", "connected", "lost", "gaveUp", "closed"}
Last(seq) == seq[Len(seq)]

AuthInv ==
    /\ stage \in Stages /\ nextId \in Nat /\ owed \in Nat /\ drained \in Nat
    /\ stage = "authwait" => owed # 0
CallInv ==
    /\ registered \subseteq Callers /\ reqId \in [Callers -> Nat]
    /\ call \in [Callers -> {"idle"} \cup InFlight \cup Ended]
    /\ lock \in Callers \cup {NoCaller}
    /\ \A c \in Callers : lock = c <=> call[c] = "writing"
BoxInv ==
    /\ inbox \in [Callers -> Seq(Frames)] /\ received \in [Callers -> Seq(Frames)]
WaitInv ==
    \A c \in Callers :
        /\ call[c] \notin InFlight => c \notin registered
        /\ call[c] \in InFlight /\ c \notin registered =>
             inbox[c] # <<>> /\ (c \in Calls \/ Last(inbox[c]).kind = "lost")
WireInv ==
    /\ link \in {"up", "down"} /\ drops \in 0..MaxDrops
    /\ toGuest \in Seq(Frames) /\ toHost \in Seq(Frames)
GuestInv ==
    /\ agent \in {"booting", "serving"} /\ authed \in BOOLEAN /\ crashes \in 0..MaxCrashes
    /\ work \in [Callers -> {"none", "running", "done", "lost"}]
    /\ emitted \in [Callers -> Nat]
    /\ outbox \in Seq(Frames) /\ streamBox \in Seq(Frames)
RequestInv == CallInv /\ BoxInv /\ WaitInv
IInv == AuthInv /\ RequestInv /\ WireInv /\ GuestInv

\* The inductive invariant gives the type invariant and the property.
LEMMA Enough == IInv => TypeOK /\ WaitersAreRegistered
<1> SUFFICES ASSUME IInv PROVE TypeOK /\ WaitersAreRegistered
  OBVIOUS
<1>1. \A seq \in Seq(Frames) : AreFrames(seq)
  BY DEF Frames, AreFrames, IsFrame
<1>2. TypeOK
  BY <1>1 DEF IInv, AuthInv, RequestInv, CallInv, BoxInv, WireInv, GuestInv, Stages, TypeOK
<1>3. WaitersAreRegistered
  BY DEF IInv, RequestInv, WaitInv, WaitersAreRegistered
<1> QED
  BY <1>2, <1>3

\* The frames the two sides make.
LEMMA MadeFrames ==
  ASSUME NEW i \in Nat, NEW n \in Nat, NEW kind \in FrameKinds, NEW c \in Callers \cup {NoCaller},
         kind = "request" => c \in Callers
  PROVE  Frame(i, kind, c, n) \in Frames
  BY DEF Frame, Frames

\* Nobody has called anything yet.
LEMMA InitInv == Init => IInv
<1> SUFFICES ASSUME Init PROVE IInv
  OBVIOUS
<1>1. AuthInv
  BY DEF Init, AuthInv, Stages
<1>2. <<>> \in Seq(Frames) /\ 0 \in 0..MaxDrops /\ 0 \in 0..MaxCrashes
  BY ClientAssumption
<1>3. WireInv
  BY <1>2 DEF Init, WireInv
<1>4. GuestInv
  BY <1>2 DEF Init, GuestInv
<1>5. CallInv /\ BoxInv
  BY ClientAssumption DEF Init, CallInv, BoxInv
<1>6. WaitInv
  BY DEF Init, WaitInv, InFlight
<1> QED
  BY <1>1, <1>3, <1>4, <1>5, <1>6 DEF IInv, RequestInv

\* What is left alone stays as it is.
LEMMA RequestsRest ==
  ASSUME RequestInv, UNCHANGED callVars
  PROVE  RequestInv'
  BY DEF callVars, RequestInv, CallInv, BoxInv, WaitInv
LEMMA GuestRests ==
  ASSUME GuestInv, UNCHANGED guestVars
  PROVE  GuestInv'
  BY DEF guestVars, GuestInv
LEMMA WiresRest ==
  ASSUME WireInv, UNCHANGED wireVars
  PROVE  WireInv'
  BY DEF wireVars, WireInv

(***************************************************************************)
(* connect() touches no request; it sends frames and takes some.           *)
(***************************************************************************)
LEMMA ConnectStep == ASSUME IInv, Connect PROVE IInv'
<1> USE DEF IInv
<1>1. UNCHANGED callVars /\ UNCHANGED guestVars
  BY DEF Connect, Dial, WriteAuth, AuthTimesOut, AuthAnswered, DrainOne, DrainEnds,
         DrainTimesOut, StartReader, ConnectBreaks, GiveUp
<1>2. AuthInv' /\ WireInv'
  <2> USE DEF AuthInv, WireInv, Stages, authVars, wireVars
  <2>1. CASE Dial
    BY <2>1 DEF Dial
  <2>2. CASE WriteAuth
    <3>1. Frame(nextId + 1, "auth", NoCaller, 0) \in Frames
      BY MadeFrames DEF FrameKinds
    <3> QED
      BY <2>2, <3>1 DEF WriteAuth
  <2>3. CASE AuthTimesOut
    BY <2>3 DEF AuthTimesOut
  <2>4. CASE AuthAnswered
    BY <2>4 DEF AuthAnswered
  <2>5. CASE DrainOne
    BY <2>5 DEF DrainOne
  <2>6. CASE DrainEnds
    BY <2>6 DEF DrainEnds, StartReader
  <2>7. CASE DrainTimesOut
    BY <2>7 DEF DrainTimesOut, StartReader
  <2>8. CASE ConnectBreaks
    BY <2>8 DEF ConnectBreaks
  <2>9. CASE GiveUp
    BY <2>9 DEF GiveUp
  <2> QED
    BY <2>1, <2>2, <2>3, <2>4, <2>5, <2>6, <2>7, <2>8, <2>9 DEF Connect
<1> QED
  BY <1>1, <1>2, RequestsRest, GuestRests

(***************************************************************************)
(* A coroutine that ends is unregistered in the same step, and one that    *)
(* goes on has either kept its registration or keeps its last frame.       *)
(***************************************************************************)
LEMMA Ends ==
  ASSUME RequestInv, NEW c \in Callers, NEW how \in Ended, call[c] \in InFlight,
         EndCall(c, how), reqId' = reqId,
         inbox' \in [Callers -> Seq(Frames)], received' \in [Callers -> Seq(Frames)],
         \A d \in Callers \ {c} : inbox'[d] = inbox[d]
  PROVE  RequestInv'
<1> USE DEF RequestInv
<1>1. call' = [call EXCEPT ![c] = how] /\ registered' = registered \ {c}
      /\ lock' = IF lock = c THEN NoCaller ELSE lock
  BY DEF EndCall
<1>2. how \notin InFlight /\ how # "writing"
  BY DEF Ended, InFlight
<1>3. CallInv'
  BY <1>1, <1>2, ClientAssumption DEF CallInv
<1>4. WaitInv'
  BY <1>1, <1>2 DEF CallInv, WaitInv
<1> QED
  BY <1>3, <1>4 DEF BoxInv

\* Taking a frame leaves those of other requests alone.
LEMMA Takes ==
  ASSUME RequestInv, NEW c \in Callers, Take(c)
  PROVE  /\ inbox' \in [Callers -> Seq(Frames)] /\ received' \in [Callers -> Seq(Frames)]
         /\ \A d \in Callers \ {c} : inbox'[d] = inbox[d]
         /\ inbox'[c] = Tail(inbox[c])
  BY DEF Take, RequestInv, BoxInv

LEMMA RequestStep == ASSUME IInv, NEW c \in Callers, Request(c) PROVE IInv'
<1> USE DEF IInv
<1>1. UNCHANGED guestVars
  BY DEF Request, NotConnected, Register, Write, WriteFails, Drained, Return, TakeOutput,
         Take, TimesOut
<1>2. AuthInv'
  BY DEF Request, NotConnected, Register, Write, WriteFails, Drained, Return, TakeOutput,
         Take, TimesOut, AuthInv, authVars, Stages
<1>3. WireInv'
  <2>1. CASE Write(c)
    <3>1. Frame(reqId[c], "request", c, 0) \in Frames
      BY MadeFrames DEF FrameKinds, RequestInv, CallInv
    <3> QED
      BY <2>1, <3>1 DEF Write, WireInv
  <2>2. CASE ~Write(c)
    <3>1. UNCHANGED wireVars
      BY <2>2 DEF Request, NotConnected, Register, WriteFails, Drained, Return, TakeOutput,
                  Take, TimesOut
    <3> QED
      BY <3>1, WiresRest
  <2> QED
    BY <2>1, <2>2
<1>4. RequestInv'
  <2>1. CASE NotConnected(c)
    BY <2>1, ClientAssumption
       DEF NotConnected, RequestInv, CallInv, BoxInv, WaitInv, InFlight, Ended
  <2>2. CASE Register(c)
    BY <2>2, ClientAssumption
       DEF Register, AuthInv, RequestInv, CallInv, BoxInv, WaitInv, InFlight, Ended
  <2>3. CASE Write(c)
    BY <2>3, ClientAssumption
       DEF Write, RequestInv, CallInv, BoxInv, WaitInv, InFlight, Ended
  <2>4. CASE Drained(c)
    BY <2>4, ClientAssumption
       DEF Drained, RequestInv, CallInv, BoxInv, WaitInv, InFlight, Ended
  <2>5. CASE WriteFails(c)
    BY <2>5, Ends DEF WriteFails, RequestInv, BoxInv, InFlight, Ended
  <2>6. CASE TimesOut(c)
    BY <2>6, Ends DEF TimesOut, RequestInv, BoxInv, InFlight, Ended
  <2>7. CASE Return(c)
    <3>1. Verdict(Head(inbox[c])) \in Ended
      BY DEF Verdict, Ended
    <3> QED
      BY <2>7, <3>1, Takes, Ends DEF Return, Take, InFlight
  <2>8. CASE TakeOutput(c)
    <3>1. /\ Take(c) /\ c \in Streams /\ Head(inbox[c]).kind # "lost"
          /\ UNCHANGED <<registered, call, lock, reqId>>
      BY <2>8 DEF TakeOutput, Take
    <3>2. c \notin registered => Tail(inbox[c]) # <<>> /\ Last(Tail(inbox[c])) = Last(inbox[c])
      <4>1. SUFFICES ASSUME c \notin registered
                     PROVE  Tail(inbox[c]) # <<>> /\ Last(Tail(inbox[c])) = Last(inbox[c])
        OBVIOUS
      <4>2. inbox[c] \in Seq(Frames) /\ inbox[c] # <<>> /\ Last(inbox[c]).kind = "lost"
        BY <3>1, <4>1, ClientAssumption
           DEF Take, InFlight, Streams, RequestInv, BoxInv, WaitInv
      <4> DEFINE s == inbox[c]
                 t == Tail(s)
                 n == Len(s)
      <4>3. n \in Nat /\ n # 0
        BY <4>2
      <4>4. n # 1
        BY <3>1, <4>2 DEF Last
      <4>5. Len(t) = n - 1 /\ \A i \in 1..(n - 1) : t[i] = s[i + 1]
        BY <4>2
      <4> HIDE DEF t, n
      <4>6. Len(t) # 0 /\ n - 1 \in 1..(n - 1) /\ n - 1 + 1 = n
        BY <4>3, <4>4, <4>5
      <4>7. t # <<>>
        BY <4>6
      <4>8. t[Len(t)] = s[n]
        BY <4>5, <4>6
      <4> QED
        BY <4>7, <4>8 DEF Last, t, n
    <3>3. CallInv'
      BY <3>1 DEF RequestInv, CallInv
    <3>4. WaitInv'
      BY <3>1, <3>2, Takes DEF RequestInv, WaitInv
    <3> QED
      BY <3>1, <3>3, <3>4, Takes DEF RequestInv, BoxInv
  <2> QED
    BY <2>1, <2>2, <2>3, <2>4, <2>5, <2>6, <2>7, <2>8 DEF Request
<1> QED
  BY <1>1, <1>2, <1>3, <1>4, GuestRests

LEMMA CancelledStep == ASSUME IInv, NEW c \in Callers, CallerCancelled(c) PROVE IInv'
<1> USE DEF IInv, CallerCancelled
<1>1. RequestInv'
  BY Ends DEF RequestInv, BoxInv, Ended
<1>2. AuthInv'
  BY DEF AuthInv, authVars
<1> QED
  BY <1>1, <1>2, WiresRest, GuestRests

(***************************************************************************)
(* The reader gives frames to those registered, and its end tells all of   *)
(* them.                                                                   *)
(***************************************************************************)
LEMMA Tells ==
  ASSUME RequestInv, FailPending, UNCHANGED <<reqId, lock, call, received>>
  PROVE  RequestInv'
<1> USE DEF RequestInv
<1>1. \A c \in Callers : Lost(c) \in Frames /\ Lost(c).kind = "lost"
  <2>1. \A c \in Callers : Lost(c) \in Frames
    BY MadeFrames DEF Lost, FrameKinds, CallInv
  <2> QED
    BY <2>1 DEF Lost, Frame
<1>2. BoxInv'
  BY <1>1 DEF FailPending, BoxInv
<1>3. \A c \in registered : inbox'[c] = Append(inbox[c], Lost(c))
  BY DEF FailPending, CallInv
<1>4. \A c \in registered : inbox'[c] # <<>> /\ Last(inbox'[c]) = Lost(c)
  BY <1>1, <1>3 DEF BoxInv, CallInv, Last
<1>5. \A c \in Callers \ registered : inbox'[c] = inbox[c]
  BY DEF FailPending
<1>6. WaitInv'
  BY <1>1, <1>4, <1>5 DEF FailPending, WaitInv, CallInv
<1>7. CallInv'
  BY DEF FailPending, CallInv
<1> QED
  BY <1>2, <1>6, <1>7

LEMMA ReaderStep == ASSUME IInv, Reader PROVE IInv'
<1> USE DEF IInv
<1>1. CASE ReadFrame
  <2> DEFINE frame == Head(toHost)
             for == Waiters(frame)
  <2>1. frame \in Frames /\ Tail(toHost) \in Seq(Frames)
    BY <1>1 DEF ReadFrame, WireInv
  <2>2. /\ inbox' = [c \in Callers |-> IF c \in for THEN Append(inbox[c], frame) ELSE inbox[c]]
        /\ registered' = registered \ (for \cap Calls)
        /\ UNCHANGED <<reqId, lock, call, received>>
    BY <1>1 DEF ReadFrame
  <2>3. BoxInv'
    BY <2>1, <2>2 DEF RequestInv, BoxInv
  <2>4. CallInv'
    BY <2>2 DEF RequestInv, CallInv
  <2>5. \A c \in for : inbox'[c] # <<>>
    <3>1. SUFFICES ASSUME NEW c \in for PROVE inbox'[c] # <<>>
      OBVIOUS
    <3>2. c \in Callers /\ inbox[c] \in Seq(Frames)
      BY DEF Waiters, RequestInv, BoxInv, CallInv
    <3>3. inbox'[c] = Append(inbox[c], frame)
      BY <2>2, <3>2
    <3>4. frame \in Frames
      BY <2>1
    <3> HIDE DEF frame, for
    <3> QED
      BY <3>2, <3>3, <3>4
  <2>6. \A c \in Callers \ registered : inbox'[c] = inbox[c]
    BY <2>2 DEF Waiters
  <2>7. WaitInv'
    BY <2>2, <2>5, <2>6 DEF RequestInv, WaitInv, CallInv
  <2>8. AuthInv' /\ WireInv'
    BY <1>1, <2>1 DEF ReadFrame, AuthInv, WireInv, authVars
  <2>9. GuestInv'
    BY <1>1, GuestRests DEF ReadFrame
  <2> QED
    BY <2>3, <2>4, <2>7, <2>8, <2>9 DEF RequestInv
<1>2. CASE ReaderEnds
  <2>1. RequestInv'
    BY <1>2, Tells DEF ReaderEnds
  <2>2. AuthInv' /\ WireInv' /\ GuestInv'
    BY <1>2, GuestRests, WiresRest DEF ReaderEnds, AuthInv, authVars, Stages
  <2> QED
    BY <2>1, <2>2
<1> QED
  BY <1>1, <1>2 DEF Reader

LEMMA CloseStep == ASSUME IInv, Close PROVE IInv'
<1> USE DEF IInv, Close
<1>1. RequestInv'
  <2>1. CASE stage = "connected"
    BY <2>1, Tells
  <2>2. CASE stage = "lost"
    BY <2>2, RequestsRest DEF callVars
  <2> QED
    BY <2>1, <2>2
<1>2. AuthInv' /\ WireInv' /\ GuestInv'
  BY GuestRests DEF AuthInv, authVars, WireInv, Stages
<1> QED
  BY <1>1, <1>2

(***************************************************************************)
(* The wires and the guest change nothing of the host.                     *)
(***************************************************************************)
LEMMA HostRests ==
  ASSUME AuthInv, RequestInv, UNCHANGED hostVars
  PROVE  AuthInv' /\ RequestInv'
<1>1. UNCHANGED callVars /\ UNCHANGED <<stage, authVars>>
  BY DEF hostVars, callVars, authVars
<1> QED
  BY <1>1, RequestsRest DEF AuthInv, authVars

LEMMA DropStep == ASSUME IInv, Drop PROVE IInv'
<1> USE DEF IInv, Drop
<1>1. \A k \in 0..Len(toHost) : SubSeq(toHost, 1, k) \in Seq(Frames)
  BY DEF WireInv
<1>2. WireInv'
  BY <1>1, ClientAssumption DEF WireInv
<1> QED
  BY <1>2, HostRests, GuestRests

LEMMA ExitStep == ASSUME IInv, AgentSeesEof \/ AgentCrashes PROVE IInv'
<1> USE DEF IInv
<1>1. UNCHANGED hostVars /\ UNCHANGED wireVars
  BY DEF AgentSeesEof, AgentCrashes, AgentExits
<1>2. crashes' \in 0..MaxCrashes
  BY ClientAssumption DEF AgentSeesEof, AgentCrashes, GuestInv
<1>3. work' \in [Callers -> {"none", "running", "done", "lost"}]
  BY DEF AgentSeesEof, AgentCrashes, AgentExits, GuestInv
<1>4. <<>> \in Seq(Frames)
  OBVIOUS
<1>5. GuestInv'
  BY <1>2, <1>3, <1>4 DEF AgentSeesEof, AgentCrashes, AgentExits, GuestInv
<1> QED
  BY <1>1, <1>5, HostRests, WiresRest

LEMMA ServeStep ==
  ASSUME IInv, OpenDevice \/ ServeAuth \/ ServeSpawns \/ ServeRefuses \/ WriterSends
  PROVE  IInv'
<1> USE DEF IInv
<1>1. UNCHANGED hostVars
  BY DEF OpenDevice, ServeAuth, ServeSpawns, ServeRefuses, WriterSends, Reads
<1>2. WireInv' /\ GuestInv'
  <2>1. CASE OpenDevice
    BY <2>1, WiresRest DEF OpenDevice, GuestInv
  <2>2. CASE ServeAuth
    <3>1. Frame(Head(toGuest).id, "auth", NoCaller, 0) \in Frames
      <4>1. Head(toGuest) \in Frames
        BY <2>2 DEF ServeAuth, Reads, WireInv
      <4>2. Head(toGuest).id \in Nat
        BY <4>1 DEF Frames
      <4> QED
        BY <4>2, MadeFrames DEF FrameKinds
    <3> QED
      BY <2>2, <3>1 DEF ServeAuth, Reads, WireInv, GuestInv
  <2>3. CASE ServeSpawns
    <3>1. work' \in [Callers -> {"none", "running", "done", "lost"}]
      BY <2>3 DEF ServeSpawns, GuestInv
    <3>2. WireInv'
      BY <2>3 DEF ServeSpawns, Reads, WireInv
    <3> QED
      BY <2>3, <3>1, <3>2 DEF ServeSpawns, Reads, GuestInv
  <2>4. CASE ServeRefuses
    <3> DEFINE c == Head(toGuest).of
               error == Frame(reqId[c], "error", c, 1)
               exit == Frame(reqId[c], "exit", c, 2)
    <3>1. c \in Callers
      BY <2>4 DEF ServeRefuses, Reads, WireInv, Frames
    <3>2. reqId[c] \in Nat
      BY <3>1 DEF RequestInv, CallInv
    <3>3. error \in Frames /\ exit \in Frames
      BY <3>1, <3>2, MadeFrames DEF FrameKinds
    <3>4. outbox' \in Seq(Frames)
      <4>1. /\ outbox \in Seq(Frames)
            /\ outbox' = outbox \o (IF c \in StdinStreams /\ authed THEN <<error, exit>>
                                                                  ELSE <<error>>)
        BY <2>4 DEF ServeRefuses, GuestInv
      <4> HIDE DEF error, exit, c
      <4> QED
        BY <3>3, <4>1
    <3>5. WireInv'
      BY <2>4 DEF ServeRefuses, Reads, WireInv
    <3> QED
      BY <2>4, <3>4, <3>5 DEF ServeRefuses, Reads, GuestInv
  <2>5. CASE WriterSends
    <3>1. CASE outbox # <<>> /\ outbox' = Tail(outbox) /\ streamBox' = streamBox
               /\ toHost' = Append(toHost, Head(outbox))
      BY <2>5, <3>1 DEF WriterSends, WireInv, GuestInv
    <3>2. CASE streamBox # <<>> /\ streamBox' = Tail(streamBox) /\ outbox' = outbox
               /\ toHost' = Append(toHost, Head(streamBox))
      BY <2>5, <3>2 DEF WriterSends, WireInv, GuestInv
    <3> QED
      BY <2>5, <3>1, <3>2 DEF WriterSends
  <2> QED
    BY <2>1, <2>2, <2>3, <2>4, <2>5
<1> QED
  BY <1>1, <1>2, HostRests

LEMMA TaskStep == ASSUME IInv, NEW c \in Callers, Task(c) PROVE IInv'
<1> USE DEF IInv
<1>1. UNCHANGED hostVars /\ UNCHANGED wireVars
  BY DEF Task, TaskAnswers, TaskOutputs, TaskExits
<1>2. PICK kind \in {"result", "data", "exit"} : Emit(c, kind)
  BY DEF Task, TaskAnswers, TaskOutputs, TaskExits
<1>3. Frame(reqId[c], kind, c, emitted[c] + 1) \in Frames
  <2>1. reqId[c] \in Nat /\ emitted[c] + 1 \in Nat /\ kind \in FrameKinds /\ kind # "request"
    BY DEF RequestInv, CallInv, GuestInv, FrameKinds
  <2> QED
    BY <2>1, MadeFrames
<1>4. emitted' \in [Callers -> Nat] /\ outbox' \in Seq(Frames) /\ streamBox' \in Seq(Frames)
  <2> DEFINE frame == Frame(reqId[c], kind, c, emitted[c] + 1)
  <2>1. emitted' = [emitted EXCEPT ![c] = @ + 1]
    BY <1>2 DEF Emit
  <2>2. \/ streamBox' = Append(streamBox, frame) /\ outbox' = outbox
        \/ outbox' = Append(outbox, frame) /\ streamBox' = streamBox
    BY <1>2 DEF Emit
  <2>3. frame \in Frames
    BY <1>3
  <2>4. /\ emitted \in [Callers -> Nat] /\ outbox \in Seq(Frames) /\ streamBox \in Seq(Frames)
    BY DEF GuestInv
  <2> HIDE DEF frame
  <2>5. Append(outbox, frame) \in Seq(Frames) /\ Append(streamBox, frame) \in Seq(Frames)
    BY <2>3, <2>4
  <2>6. outbox' \in Seq(Frames) /\ streamBox' \in Seq(Frames)
    BY <2>2, <2>4, <2>5
  <2>7. emitted' \in [Callers -> Nat]
    BY <2>1, <2>4
  <2> QED
    BY <2>6, <2>7
<1>5. GuestInv'
  BY <1>4 DEF Task, TaskAnswers, TaskOutputs, TaskExits, GuestInv
<1> QED
  BY <1>1, <1>5, HostRests, WiresRest

\* Every step keeps the invariant.
THEOREM Invariance == Spec => []IInv
<1>1. IInv /\ [Next]_vars => IInv'
  <2> SUFFICES ASSUME IInv, [Next]_vars PROVE IInv'
    OBVIOUS
  <2>1. CASE UNCHANGED vars
    <3>1. UNCHANGED hostVars /\ UNCHANGED wireVars /\ UNCHANGED guestVars
      BY <2>1 DEF vars
    <3> QED
      BY <3>1, HostRests, WiresRest, GuestRests DEF IInv
  <2>2. CASE Next
    BY <2>2, ConnectStep, RequestStep, CancelledStep, ReaderStep, CloseStep, DropStep,
       ExitStep, ServeStep, TaskStep DEF Next, Serve
  <2> QED
    BY <2>1, <2>2
<1> QED
  BY <1>1, InitInv, PTL DEF Spec

\* Every variable of client, wires and agent keeps its type, and the writer lock
\* is held by the one request whose frame is being written (the asyncio.Lock of
\* send_request and send_stream_request).
THEOREM TypeCorrect == Spec => []TypeOK
<1>1. IInv => TypeOK
  BY Enough
<1> QED
  BY <1>1, Invariance, PTL

\* A request in flight that has received nothing is registered under its id and
\* one that is over is not, whatever is lost, late, cancelled or restarted
\* (_pending and _pending_streams).
THEOREM WaitersTheorem == Spec => []WaitersAreRegistered
<1>1. IInv => WaitersAreRegistered
  BY Enough
<1> QED
  BY <1>1, Invariance, PTL

(***************************************************************************)
(* Why an answer never reaches another call.                               *)
(*                                                                         *)
(* Until the host is connected only authenticate frames and their answers  *)
(* are under way, and no more of them than it waits for; so none is left   *)
(* when its ids start again, and from then on every frame has the id its   *)
(* request was registered under.  A connection lost then is not dialed     *)
(* again.  PromptAgent is what keeps an old agent's answers off a new      *)
(* connection and a slow answer out of the requests' ids.                  *)
(***************************************************************************)
In(seq) == {seq[i] : i \in 1..Len(seq)}
Early == {"dialing", "authing", "authwait", "draining", "gaveUp"}
OnlyAuth(seq) == \A frame \in In(seq) : frame.kind = "auth" /\ frame.of = NoCaller
Genuine(frame) == /\ frame.kind # "auth" /\ frame.of \in Callers
                  /\ frame.id = reqId[frame.of] /\ reqId[frame.of] # 0
AreGenuine(seq) == \A frame \in In(seq) : Genuine(frame)
SoFar == IF stage = "draining" THEN drained ELSE 0

LinkInv ==
    /\ link = "down" => toGuest = <<>>
    /\ agent = "booting" => /\ outbox = <<>> /\ streamBox = <<>>
                            /\ \A c \in Callers : work[c] # "running"
    /\ stage = "dialing" => link = "down" /\ toHost = <<>> /\ owed = 0
EarlyInv == stage \in Early =>
    /\ \A c \in Callers : call[c] = "idle"
    /\ streamBox = <<>> /\ OnlyAuth(toGuest) /\ OnlyAuth(outbox) /\ OnlyAuth(toHost)
CountInv == stage \in {"authing", "authwait", "draining"} =>
    /\ Len(toHost) + SoFar <= owed
    /\ link = "up" => Len(toGuest) + Len(outbox) + Len(toHost) + SoFar <= owed
LateInv == stage \notin Early =>
    /\ AreGenuine(toHost) /\ AreGenuine(streamBox)
    /\ link = "up" => AreGenuine(toGuest) /\ AreGenuine(outbox)

\* An id is given to one request.
NumberInv ==
    \A c \in Callers :
        /\ reqId[c] # 0 => /\ reqId[c] <= nextId
                           /\ \A d \in Callers : reqId[c] = reqId[d] => c = d
        /\ call[c] = "idle" => reqId[c] = 0
        /\ call[c] \in InFlight \/ work[c] # "none" => reqId[c] # 0
MatchInv ==
    \A c \in Callers : /\ \A frame \in In(inbox[c]) : frame.of = c
                       /\ \A frame \in In(received[c]) : frame.of = c

AnswerInv == LinkInv /\ EarlyInv /\ CountInv /\ LateInv /\ NumberInv /\ MatchInv

-----------------------------------------------------------------------------
(* What the operations on sequences do to the frames in them *)

\* A frame put at the end is the only one to join.
LEMMA AppendIn ==
  ASSUME NEW s \in Seq(Frames), NEW e \in Frames
  PROVE  /\ In(Append(s, e)) = In(s) \cup {e}
         /\ Len(Append(s, e)) = Len(s) + 1
<1>1. Len(Append(s, e)) = Len(s) + 1 /\ Append(s, e)[Len(s) + 1] = e
      /\ \A i \in 1..Len(s) : Append(s, e)[i] = s[i]
  BY AppendProperties
<1>2. 1..(Len(s) + 1) = (1..Len(s)) \cup {Len(s) + 1}
  BY LenProperties
<1> QED
  BY <1>1, <1>2 DEF In

\* Taking the first frame adds none.
LEMMA TailIn ==
  ASSUME NEW s \in Seq(Frames), s # <<>>
  PROVE  /\ Head(s) \in In(s) /\ In(Tail(s)) \subseteq In(s)
         /\ Len(Tail(s)) = Len(s) - 1 /\ Len(s) \in Nat \ {0}
         /\ Tail(s) \in Seq(Frames) /\ Head(s) \in Frames
<1>1. /\ Len(s) \in Nat \ {0} /\ Head(s) = s[1] /\ Len(Tail(s)) = Len(s) - 1
      /\ \A i \in 1..(Len(s) - 1) : Tail(s)[i] = s[i + 1]
      /\ Tail(s) \in Seq(Frames) /\ Head(s) \in Frames
  BY HeadTailProperties, EmptySeq, LenProperties
<1>2. 1 \in 1..Len(s) /\ \A i \in 1..(Len(s) - 1) : i + 1 \in 1..Len(s)
  BY <1>1
<1> QED
  BY <1>1, <1>2 DEF In

\* Nor does keeping a prefix, and two sequences have the frames of both.
LEMMA PrefixIn ==
  ASSUME NEW s \in Seq(Frames), NEW k \in 0..Len(s)
  PROVE  /\ In(SubSeq(s, 1, k)) \subseteq In(s)
         /\ Len(SubSeq(s, 1, k)) <= Len(s) /\ SubSeq(s, 1, k) \in Seq(Frames)
<1>1. Len(s) \in Nat /\ k \in Nat /\ k <= Len(s)
  BY LenProperties
<1>2. /\ Len(SubSeq(s, 1, k)) = k /\ SubSeq(s, 1, k) \in Seq(Frames)
      /\ \A i \in 1..k : SubSeq(s, 1, k)[i] = s[i]
  BY <1>1
<1> QED
  BY <1>1, <1>2 DEF In
LEMMA ConcatIn ==
  ASSUME NEW s \in Seq(Frames), NEW t \in Seq(Frames)
  PROVE  In(s \o t) \subseteq In(s) \cup In(t)
<1>1. /\ Len(s \o t) = Len(s) + Len(t)
      /\ \A i \in 1..(Len(s) + Len(t)) :
           (s \o t)[i] = IF i <= Len(s) THEN s[i] ELSE t[i - Len(s)]
  BY ConcatProperties
<1>2. Len(s) \in Nat /\ Len(t) \in Nat
  BY LenProperties
<1>3. \A i \in 1..(Len(s) + Len(t)) : i \in 1..Len(s) \/ (~(i <= Len(s)) /\ i - Len(s) \in 1..Len(t))
  BY <1>2
<1>4. \A i \in 1..Len(s) : i <= Len(s)
  BY <1>2
<1> QED
  BY <1>1, <1>3, <1>4 DEF In

\* A sequence with nothing in it is empty.
LEMMA NoneIn ==
  ASSUME NEW s \in Seq(Frames)
  PROVE  /\ In(s) = {} <=> s = <<>>
         /\ Len(s) \in Nat /\ (Len(s) = 0 <=> s = <<>>)
<1>1. Len(s) \in Nat /\ (Len(s) = 0 <=> s = <<>>)
  BY LenProperties, EmptySeq
<1>2. s # <<>> => 1 \in 1..Len(s)
  BY <1>1
<1> QED
  BY <1>1, <1>2 DEF In
LEMMA EmptyIn == In(<<>>) = {} /\ Len(<<>>) = 0 /\ <<>> \in Seq(Frames)
  BY DEF In

\* Nothing is under way when the program starts.
LEMMA AnswerInit == Init => AnswerInv
<1> SUFFICES ASSUME Init PROVE AnswerInv
  OBVIOUS
<1>1. LinkInv /\ NumberInv
  BY DEF Init, LinkInv, NumberInv, InFlight
<1>2. stage \in Early /\ stage \notin {"authing", "authwait", "draining"}
  BY DEF Init, Early
<1>3. EarlyInv /\ MatchInv
  BY EmptyIn DEF Init, EarlyInv, MatchInv, OnlyAuth
<1> QED
  BY <1>1, <1>2, <1>3 DEF AnswerInv, CountInv, LateInv

(***************************************************************************)
(* connect(): what is sent is counted, what is answered is taken, and when *)
(* the reader starts nothing is left.                                      *)
(***************************************************************************)
LEMMA AnswerConnect == ASSUME PromptAgent, IInv, AnswerInv, Connect PROVE AnswerInv'
<1> USE DEF AnswerInv
<1>1. UNCHANGED callVars /\ UNCHANGED guestVars /\ drops' = drops
  BY DEF Connect, Dial, WriteAuth, AuthTimesOut, AuthAnswered, DrainOne, DrainEnds,
         DrainTimesOut, StartReader, ConnectBreaks, GiveUp, wireVars
<1>2. stage \in Early
  BY DEF Connect, Dial, WriteAuth, AuthTimesOut, AuthAnswered, DrainOne, DrainEnds,
         DrainTimesOut, StartReader, ConnectBreaks, GiveUp, Early
<1>3. \A c \in Callers : call[c] = "idle" /\ reqId[c] = 0
  BY <1>2 DEF EarlyInv, NumberInv
<1>4. NumberInv' /\ MatchInv'
  <2>1. MatchInv'
    BY <1>1 DEF callVars, MatchInv
  <2>2. NumberInv'
    BY <1>1, <1>3 DEF callVars, guestVars, NumberInv
  <2> QED
    BY <2>1, <2>2
<1>5. /\ streamBox = <<>> /\ OnlyAuth(toGuest) /\ OnlyAuth(outbox) /\ OnlyAuth(toHost)
      /\ toGuest \in Seq(Frames) /\ toHost \in Seq(Frames) /\ outbox \in Seq(Frames)
      /\ owed \in Nat /\ drained \in Nat /\ nextId \in Nat
  BY <1>2 DEF EarlyInv, IInv, AuthInv, WireInv, GuestInv
<1>6. /\ UNCHANGED <<outbox, streamBox, agent, work, call>>
  BY <1>1 DEF callVars, guestVars
<1> HIDE DEF AnswerInv
<1>7. LinkInv /\ CountInv /\ EarlyInv
  BY DEF AnswerInv
<1>8. Len(toHost) \in Nat /\ Len(toGuest) \in Nat /\ Len(outbox) \in Nat /\ SoFar \in Nat
  BY <1>5, NoneIn DEF SoFar
<1>9. LinkInv' /\ EarlyInv' /\ CountInv' /\ LateInv'
  <2>1. CASE Dial
    <3>1. toHost = <<>> /\ owed = 0 /\ toGuest = <<>> /\ outbox = <<>>
      BY <2>1, <1>7 DEF Dial, LinkInv
    <3>2. LinkInv'
      BY <2>1, <1>6, <1>7 DEF Dial, LinkInv, authVars
    <3>3. EarlyInv'
      BY <2>1, <1>3, <1>5, <1>6 DEF Dial, EarlyInv
    <3>4. CountInv'
      BY <2>1, <3>1, <1>6, EmptyIn DEF Dial, CountInv, SoFar, authVars
    <3>5. LateInv'
      BY <2>1 DEF Dial, LateInv, Early
    <3> QED
      BY <3>2, <3>3, <3>4, <3>5
  <2>2. CASE WriteAuth
    <3> DEFINE frame == Frame(nextId + 1, "auth", NoCaller, 0)
    <3>1. frame \in Frames /\ frame.kind = "auth" /\ frame.of = NoCaller
      <4>1. frame \in Frames
        BY <1>5, MadeFrames DEF FrameKinds
      <4> QED
        BY <4>1 DEF Frame
    <3>2. In(toGuest') = In(toGuest) \cup {frame} /\ Len(toGuest') = Len(toGuest) + 1
      BY <2>2, <3>1, <1>5, AppendIn DEF WriteAuth
    <3>3. LinkInv'
      BY <2>2, <1>6, <1>7 DEF WriteAuth, LinkInv
    <3>4. EarlyInv'
      <4>1. OnlyAuth(toGuest')
        BY <3>1, <3>2, <1>5 DEF OnlyAuth
      <4>2. OnlyAuth(toGuest)' /\ OnlyAuth(toHost)' /\ OnlyAuth(outbox)'
        BY <4>1, <2>2, <1>5, <1>6 DEF WriteAuth, OnlyAuth
      <4> QED
        BY <4>2, <1>3, <1>5, <1>6 DEF EarlyInv
    <3>5. CountInv'
      <4>1. SoFar = 0 /\ SoFar' = 0 /\ link = "up" /\ link' = link /\ toHost' = toHost /\ owed' = owed + 1
        BY <2>2 DEF WriteAuth, SoFar
      <4>2. Len(toGuest) + Len(outbox) + Len(toHost) + 0 <= owed /\ Len(toHost) + 0 <= owed
        BY <4>1, <2>2, <1>7 DEF CountInv, WriteAuth
      <4>3. Len(toGuest') + Len(outbox') + Len(toHost') + SoFar' <= owed'
            /\ Len(toHost') + SoFar' <= owed'
        BY <4>1, <4>2, <3>2, <1>5, <1>6, <1>8
      <4> QED
        BY <4>3 DEF CountInv
    <3>6. LateInv'
      BY <2>2 DEF WriteAuth, LateInv, Early
    <3> QED
      BY <3>3, <3>4, <3>5, <3>6
  <2>3. CASE AuthTimesOut
    <3>1. UNCHANGED <<toGuest, toHost, owed, link>> /\ stage = "authwait" /\ stage' = "authing"
      BY <2>3 DEF AuthTimesOut, wireVars, authVars
    <3>2. LinkInv' /\ LateInv'
      BY <3>1, <1>6, <1>7 DEF LinkInv, LateInv, Early
    <3>3. EarlyInv'
      BY <3>1, <1>3, <1>5, <1>6 DEF EarlyInv
    <3>4. CountInv'
      BY <3>1, <1>6, <1>7 DEF CountInv, SoFar
    <3> QED
      BY <3>2, <3>3, <3>4
  <2>4. CASE AuthAnswered
    <3>1. /\ UNCHANGED <<toGuest, link>> /\ stage = "authwait" /\ stage' = "draining" /\ owed' = owed - 1
          /\ toHost # <<>> /\ toHost' = Tail(toHost) /\ drained' = 0
      BY <2>4 DEF AuthAnswered
    <3>2. In(toHost') \subseteq In(toHost) /\ Len(toHost') = Len(toHost) - 1 /\ Len(toHost) \in Nat \ {0}
      BY <3>1, <1>5, TailIn
    <3>3. LinkInv' /\ LateInv'
      BY <3>1, <1>6, <1>7 DEF LinkInv, LateInv, Early
    <3>4. EarlyInv'
      BY <3>1, <3>2, <1>3, <1>5, <1>6 DEF EarlyInv, OnlyAuth
    <3>5. CountInv'
      BY <3>1, <3>2, <1>5, <1>6, <1>7, <1>8 DEF CountInv, SoFar
    <3> QED
      BY <3>3, <3>4, <3>5
  <2>5. CASE DrainOne
    <3>1. /\ UNCHANGED <<toGuest, link, owed>> /\ stage = "draining" /\ stage' = "draining"
          /\ toHost # <<>> /\ toHost' = Tail(toHost) /\ drained' = drained + 1
      BY <2>5 DEF DrainOne
    <3>2. In(toHost') \subseteq In(toHost) /\ Len(toHost') = Len(toHost) - 1 /\ Len(toHost) \in Nat \ {0}
      BY <3>1, <1>5, TailIn
    <3>3. LinkInv' /\ LateInv'
      BY <3>1, <1>6, <1>7 DEF LinkInv, LateInv, Early
    <3>4. EarlyInv'
      BY <3>1, <3>2, <1>3, <1>5, <1>6 DEF EarlyInv, OnlyAuth
    <3>5. CountInv'
      BY <3>1, <3>2, <1>5, <1>6, <1>7, <1>8 DEF CountInv, SoFar
    <3> QED
      BY <3>3, <3>4, <3>5
  <2>6. CASE DrainEnds \/ DrainTimesOut
    <3>1. /\ UNCHANGED <<toGuest, toHost, link, owed>> /\ stage = "draining" /\ stage' = "connected"
      BY <2>6 DEF DrainEnds, DrainTimesOut, StartReader, wireVars
    <3>2. toHost = <<>> /\ (link = "up" => toGuest = <<>> /\ outbox = <<>>)
      <4>1. CASE DrainEnds
        <5>1. drained >= owed /\ SoFar = drained
          BY <4>1, <3>1 DEF DrainEnds, SoFar
        <5>2. Len(toHost) + SoFar <= owed
              /\ (link = "up" => Len(toGuest) + Len(outbox) + Len(toHost) + SoFar <= owed)
          BY <3>1, <1>7 DEF CountInv
        <5>3. Len(toHost) = 0 /\ (link = "up" => Len(toGuest) = 0 /\ Len(outbox) = 0)
          BY <5>1, <5>2, <1>5, <1>8
        <5> QED
          BY <5>3, <1>5, NoneIn
      <4>2. CASE DrainTimesOut
        <5>1. toHost = <<>> /\ ~AuthUnderWay
          BY <4>2 DEF DrainTimesOut
        <5>2. \A i \in DOMAIN toGuest : toGuest[i].kind # "auth"
          BY <5>1 DEF AuthUnderWay
        <5>3. \A i \in DOMAIN outbox : outbox[i].kind # "auth"
          BY <5>1 DEF AuthUnderWay
        <5>4. DOMAIN toGuest = 1..Len(toGuest) /\ DOMAIN outbox = 1..Len(outbox)
          BY <1>5, LenProperties
        <5>5. \A frame \in In(toGuest) \cup In(outbox) : frame.kind # "auth"
          BY <5>2, <5>3, <5>4 DEF In
        <5>6. \A frame \in In(toGuest) \cup In(outbox) : frame.kind = "auth"
          BY <1>5 DEF OnlyAuth
        <5>7. In(toGuest) = {} /\ In(outbox) = {}
          BY <5>5, <5>6
        <5> QED
          BY <5>1, <5>7, <1>5, NoneIn
      <4> QED
        BY <2>6, <4>1, <4>2
    <3>3. LinkInv'
      BY <3>1, <1>6, <1>7 DEF LinkInv
    <3>4. EarlyInv' /\ CountInv'
      BY <3>1 DEF EarlyInv, CountInv, Early
    <3>5. LateInv'
      <4>1. AreGenuine(toHost)' /\ AreGenuine(streamBox)'
        BY <3>1, <3>2, <1>5, <1>6, EmptyIn DEF AreGenuine
      <4>2. link' = "up" => AreGenuine(toGuest)' /\ AreGenuine(outbox)'
        BY <3>1, <3>2, <1>6, EmptyIn DEF AreGenuine
      <4> QED
        BY <4>1, <4>2 DEF LateInv
    <3> QED
      BY <3>3, <3>4, <3>5
  <2>7. CASE ConnectBreaks
    <3>1. /\ link = "down" /\ stage' = "dialing" /\ owed' = 0 /\ toHost' = <<>>
          /\ UNCHANGED <<link, toGuest>>
      BY <2>7 DEF ConnectBreaks
    <3>2. LinkInv' /\ CountInv' /\ LateInv'
      BY <3>1, <1>6, <1>7 DEF LinkInv, CountInv, LateInv, Early
    <3>3. EarlyInv'
      BY <3>1, <1>3, <1>5, <1>6, EmptyIn DEF EarlyInv, OnlyAuth
    <3> QED
      BY <3>2, <3>3
  <2>8. CASE GiveUp
    <3>1. /\ stage' = "gaveUp" /\ UNCHANGED <<link, toGuest, toHost>>
      BY <2>8 DEF GiveUp, wireVars
    <3>2. LinkInv' /\ CountInv' /\ LateInv'
      BY <3>1, <1>6, <1>7 DEF LinkInv, CountInv, LateInv, Early
    <3>3. EarlyInv'
      BY <3>1, <1>3, <1>5, <1>6 DEF EarlyInv
    <3> QED
      BY <3>2, <3>3
  <2> QED
    BY <2>1, <2>2, <2>3, <2>4, <2>5, <2>6, <2>7, <2>8 DEF Connect
<1> QED
  BY <1>4, <1>9 DEF AnswerInv

(***************************************************************************)
(* The calls: Write is the one that sends, under the number Register gave. *)
(***************************************************************************)
\* What a call takes is of its own, and nothing else comes in.
LEMMA MatchTakes ==
  ASSUME IInv, MatchInv, NEW c \in Callers, Take(c)
  PROVE  MatchInv'
<1>1. /\ inbox' = [inbox EXCEPT ![c] = Tail(@)] /\ inbox[c] # <<>>
      /\ received' = [received EXCEPT ![c] = Append(@, Head(inbox[c]))]
      /\ inbox \in [Callers -> Seq(Frames)] /\ received \in [Callers -> Seq(Frames)]
  BY DEF Take, IInv, RequestInv, BoxInv
<1>2. /\ inbox'[c] = Tail(inbox[c]) /\ received'[c] = Append(received[c], Head(inbox[c]))
      /\ \A d \in Callers \ {c} : inbox'[d] = inbox[d] /\ received'[d] = received[d]
  BY <1>1
<1>3. /\ Head(inbox[c]) \in In(inbox[c]) /\ In(inbox'[c]) \subseteq In(inbox[c])
      /\ Head(inbox[c]) \in Frames
  BY <1>1, <1>2, TailIn
<1>4. In(received'[c]) = In(received[c]) \cup {Head(inbox[c])}
  BY <1>1, <1>2, <1>3, AppendIn
<1>5. (\A frame \in In(inbox'[c]) : frame.of = c) /\ (\A frame \in In(received'[c]) : frame.of = c)
  BY <1>3, <1>4 DEF MatchInv
<1>6. \A d \in Callers : (\A frame \in In(inbox'[d]) : frame.of = d)
                         /\ (\A frame \in In(received'[d]) : frame.of = d)
  BY <1>2, <1>5 DEF MatchInv
<1> QED
  BY <1>6 DEF MatchInv

\* A request that moves on, and moves no frame on the wires, leaves these parts.
LEMMA CallMoves ==
  ASSUME IInv, AnswerInv, stage \notin Early, UNCHANGED <<stage, nextId, reqId>>,
         UNCHANGED wireVars, UNCHANGED guestVars,
         \A c \in Callers : /\ call'[c] = "idle" => call[c] = "idle"
                            /\ call'[c] \in InFlight => call[c] \in InFlight,
         MatchInv'
  PROVE  AnswerInv'
<1>1. LinkInv' /\ EarlyInv' /\ CountInv'
  BY DEF AnswerInv, LinkInv, EarlyInv, CountInv, wireVars, guestVars, Early
<1>2. LateInv'
  BY DEF AnswerInv, LateInv, wireVars, guestVars, Early, AreGenuine, Genuine
<1>3. NumberInv'
  BY DEF AnswerInv, NumberInv, guestVars
<1> QED
  BY <1>1, <1>2, <1>3 DEF AnswerInv

LEMMA AnswerRequest ==
  ASSUME IInv, AnswerInv, NEW c \in Callers, Request(c) \/ CallerCancelled(c)
  PROVE  AnswerInv'
<1>1. /\ call \in [Callers -> {"idle"} \cup InFlight \cup Ended] /\ reqId \in [Callers -> Nat]
      /\ nextId \in Nat /\ registered \subseteq Callers
      /\ toGuest \in Seq(Frames) /\ toHost \in Seq(Frames)
      /\ outbox \in Seq(Frames) /\ streamBox \in Seq(Frames)
      /\ stage \in Stages
  BY DEF IInv, AuthInv, RequestInv, CallInv, WireInv, GuestInv
<1>2. stage \notin Early
  <2>1. call[c] # "idle" => stage \notin Early
    BY DEF AnswerInv, EarlyInv
  <2>2. CASE call[c] = "idle"
    <3>1. "idle" \notin InFlight
      BY DEF InFlight
    <3>2. NotConnected(c) \/ Register(c)
      BY <2>2, <3>1 DEF Request, NotConnected, Register, Write, WriteFails, Drained, Return,
                        TakeOutput, Take, TimesOut, CallerCancelled, InFlight
    <3> QED
      BY <3>2 DEF NotConnected, Register, Early
  <2> QED
    BY <2>1, <2>2
<1>3. LinkInv /\ LateInv /\ NumberInv /\ MatchInv
  BY DEF AnswerInv
<1>4. CASE Register(c)
  <2>1. /\ UNCHANGED <<stage, inbox, received>> /\ UNCHANGED wireVars /\ UNCHANGED guestVars
        /\ nextId' = nextId + 1 /\ reqId' = [reqId EXCEPT ![c] = nextId + 1]
        /\ call' = [call EXCEPT ![c] = "queued"] /\ call[c] = "idle"
    BY <1>4 DEF Register
  <2>2. reqId[c] = 0 /\ reqId'[c] = nextId + 1 /\ \A d \in Callers \ {c} : reqId'[d] = reqId[d]
    BY <1>1, <1>3, <2>1 DEF NumberInv
  <2>3. NumberInv'
    <3>1. /\ call'[c] = "queued" /\ work' = work
          /\ \A d \in Callers \ {c} : call'[d] = call[d]
      BY <1>1, <2>1 DEF guestVars
    <3>2. \A d \in Callers : reqId[d] \in Nat /\ reqId[d] <= nextId /\ nextId + 1 \in Nat
      BY <1>1, <1>3 DEF NumberInv
    <3> QED
      BY <1>1, <1>3, <2>1, <2>2, <3>1, <3>2 DEF NumberInv
  <2>4. \A frame : Genuine(frame) => Genuine(frame)'
    BY <2>2 DEF Genuine
  <2>5. LateInv'
    <3>1. UNCHANGED <<toHost, streamBox, toGuest, outbox, link, stage>>
      BY <2>1 DEF wireVars, guestVars
    <3> QED
      BY <1>3, <2>4, <3>1 DEF LateInv, AreGenuine
  <2>6. MatchInv'
    BY <1>3, <2>1 DEF MatchInv
  <2>7. LinkInv' /\ EarlyInv' /\ CountInv'
    BY <1>2, <1>3, <2>1 DEF LinkInv, EarlyInv, CountInv, wireVars, guestVars, Early
  <2> QED
    BY <2>3, <2>5, <2>6, <2>7 DEF AnswerInv
<1>5. CASE Write(c)
  <2> DEFINE frame == Frame(reqId[c], "request", c, 0)
  <2>1. /\ UNCHANGED <<stage, nextId, reqId, inbox, received, link, toHost, drops>>
        /\ UNCHANGED guestVars
        /\ call' = [call EXCEPT ![c] = "writing"] /\ call[c] = "queued"
        /\ toGuest' = IF link = "up" THEN Append(toGuest, frame) ELSE toGuest
    BY <1>5 DEF Write, authVars
  <2>2. reqId[c] # 0 /\ reqId[c] \in Nat
    BY <1>1, <1>3, <2>1 DEF NumberInv, InFlight
  <2>3. frame \in Frames /\ Genuine(frame)
    <3>1. frame \in Frames
      BY <2>2, MadeFrames DEF FrameKinds
    <3>2. frame.kind = "request" /\ frame.of = c /\ frame.id = reqId[c]
      BY DEF Frame
    <3> QED
      BY <2>2, <3>1, <3>2 DEF Genuine
  <2> HIDE DEF frame
  <2>4. link = "up" => In(toGuest') = In(toGuest) \cup {frame}
    BY <1>1, <2>1, <2>3, AppendIn
  <2>5. LateInv'
    <3>1. \A f : Genuine(f) => Genuine(f)'
      BY <2>1 DEF Genuine
    <3>2. UNCHANGED <<toHost, streamBox, outbox, link, stage>>
      BY <2>1 DEF guestVars
    <3>3. AreGenuine(toHost)' /\ AreGenuine(streamBox)' /\ (link' = "up" => AreGenuine(outbox)')
      BY <1>2, <1>3, <3>1, <3>2 DEF LateInv, AreGenuine
    <3>4. link' = "up" => AreGenuine(toGuest)'
      BY <1>2, <1>3, <2>3, <2>4, <3>1, <3>2 DEF LateInv, AreGenuine
    <3> QED
      BY <3>3, <3>4 DEF LateInv
  <2>6. NumberInv'
    <3>1. /\ call'[c] = "writing" /\ work' = work /\ call[c] \in InFlight
          /\ \A d \in Callers \ {c} : call'[d] = call[d]
      BY <1>1, <2>1 DEF guestVars, InFlight
    <3> QED
      BY <1>3, <2>1, <3>1 DEF NumberInv
  <2>7. MatchInv'
    BY <1>3, <2>1 DEF MatchInv
  <2>8. LinkInv' /\ EarlyInv' /\ CountInv'
    BY <1>2, <1>3, <2>1 DEF LinkInv, EarlyInv, CountInv, guestVars, Early
  <2> QED
    BY <2>5, <2>6, <2>7, <2>8 DEF AnswerInv
<1>6. CASE NotConnected(c) \/ WriteFails(c) \/ Drained(c) \/ Return(c) \/ TakeOutput(c)
           \/ TimesOut(c) \/ CallerCancelled(c)
  <2>1. /\ UNCHANGED <<stage, nextId, reqId>> /\ UNCHANGED wireVars /\ UNCHANGED guestVars
    BY <1>6 DEF NotConnected, WriteFails, Drained, Return, TakeOutput, Take, TimesOut,
                CallerCancelled, authVars
  <2>2. MatchInv'
    <3>1. CASE Return(c) \/ TakeOutput(c)
      BY <1>3, <3>1, MatchTakes DEF Return, TakeOutput
    <3>2. CASE ~(Return(c) \/ TakeOutput(c))
      <4>1. UNCHANGED <<inbox, received>>
        BY <1>6, <3>2 DEF NotConnected, WriteFails, Drained, TimesOut, CallerCancelled
      <4> QED
        BY <1>3, <4>1 DEF MatchInv
    <3> QED
      BY <3>1, <3>2
  <2>3. \A d \in Callers : /\ call'[d] = "idle" => call[d] = "idle"
                           /\ call'[d] \in InFlight => call[d] \in InFlight
    <3>1. Verdict(Head(inbox[c])) \in Ended
      BY DEF Verdict, Ended
    <3>2. \/ call' = call
          \/ \E how \in Ended : call' = [call EXCEPT ![c] = how]
          \/ call[c] = "writing" /\ call' = [call EXCEPT ![c] = "waiting"]
      BY <1>6, <3>1 DEF NotConnected, WriteFails, Drained, Return, TakeOutput, Take, TimesOut,
                        CallerCancelled, EndCall, Ended
    <3> QED
      BY <1>1, <3>2 DEF InFlight, Ended
  <2> QED
    BY <1>2, <2>1, <2>2, <2>3, CallMoves
<1> QED
  BY <1>4, <1>5, <1>6 DEF Request

(***************************************************************************)
(* The reader finds the one request a frame is for.                        *)
(***************************************************************************)
LEMMA AnswerReader == ASSUME IInv, AnswerInv, Reader \/ Close PROVE AnswerInv'
<1>1. /\ reqId \in [Callers -> Nat] /\ registered \subseteq Callers
      /\ toHost \in Seq(Frames) /\ inbox \in [Callers -> Seq(Frames)]
      /\ received \in [Callers -> Seq(Frames)]
  BY DEF IInv, AuthInv, RequestInv, CallInv, BoxInv, WireInv
<1>2. /\ stage \notin Early /\ stage' \notin Early
      /\ UNCHANGED <<nextId, reqId, call, received, outbox, streamBox, agent, work>>
  BY DEF Reader, ReadFrame, ReaderEnds, Close, Early, authVars, guestVars
<1>3. LinkInv /\ LateInv /\ NumberInv /\ MatchInv
  BY DEF AnswerInv
<1>4. NumberInv'
  BY <1>2, <1>3 DEF NumberInv
<1>5. EarlyInv' /\ CountInv'
  BY <1>2 DEF EarlyInv, CountInv, Early
<1>6. \A frame : Genuine(frame) => Genuine(frame)'
  BY <1>2 DEF Genuine
<1>7. LinkInv' /\ LateInv'
  <2>1. CASE ReadFrame
    <3>1. /\ UNCHANGED <<link, toGuest>> /\ toHost # <<>> /\ toHost' = Tail(toHost)
      BY <2>1 DEF ReadFrame
    <3>2. In(toHost') \subseteq In(toHost)
      BY <1>1, <3>1, TailIn
    <3> QED
      BY <1>2, <1>3, <1>6, <3>1, <3>2 DEF LinkInv, LateInv, AreGenuine, Early
  <2>2. CASE ReaderEnds
    <3>1. UNCHANGED <<link, toGuest, toHost>>
      BY <2>2 DEF ReaderEnds, wireVars
    <3> QED
      BY <1>2, <1>3, <1>6, <3>1 DEF LinkInv, LateInv, AreGenuine, Early
  <2>3. CASE Close
    <3>1. link' = "down" /\ toGuest' = <<>> /\ toHost' = <<>>
      BY <2>3 DEF Close
    <3> QED
      BY <1>2, <1>3, <1>6, <3>1, EmptyIn DEF LinkInv, LateInv, AreGenuine, Early
  <2> QED
    BY <2>1, <2>2, <2>3 DEF Reader
<1>8. MatchInv'
  <2>1. CASE ReadFrame
    <3>1. PICK frame : frame = Head(toHost)
      OBVIOUS
    <3>2. /\ inbox' = [c \in Callers |-> IF c \in Waiters(frame) THEN Append(inbox[c], frame)
                                                                ELSE inbox[c]]
          /\ toHost # <<>>
      BY <2>1, <3>1 DEF ReadFrame
    <3>3. frame \in Frames /\ frame \in In(toHost)
      BY <1>1, <3>1, <3>2, TailIn
    <3>4. frame.of \in Callers /\ frame.id = reqId[frame.of] /\ reqId[frame.of] # 0
      BY <1>2, <1>3, <3>3 DEF LateInv, AreGenuine, Genuine
    <3>5. \A c \in Waiters(frame) : frame.of = c
      BY <1>1, <1>3, <3>4 DEF Waiters, NumberInv
    <3>6. ASSUME NEW c \in Callers
          PROVE  \/ In(inbox'[c]) \subseteq In(inbox[c])
                 \/ frame.of = c /\ In(inbox'[c]) = In(inbox[c]) \cup {frame}
      <4>1. CASE c \in Waiters(frame)
        <5>1. inbox'[c] = Append(inbox[c], frame) /\ inbox[c] \in Seq(Frames)
          BY <1>1, <3>2, <4>1
        <5>2. In(Append(inbox[c], frame)) = In(inbox[c]) \cup {frame}
          BY <3>3, <5>1, AppendIn
        <5> QED
          BY <3>5, <4>1, <5>1, <5>2
      <4>2. CASE c \notin Waiters(frame)
        <5>1. inbox'[c] = inbox[c]
          BY <3>2, <4>2
        <5> QED
          BY <5>1
      <4> QED
        BY <4>1, <4>2
    <3> QED
      BY <1>2, <1>3, <3>6 DEF MatchInv
  <2>2. CASE ReaderEnds \/ Close
    <3>1. \A c \in Callers : inbox'[c] \in {inbox[c], Append(inbox[c], Lost(c))}
      BY <2>2 DEF ReaderEnds, Close, FailPending
    <3>2. \A c \in Callers : Lost(c) \in Frames
      BY <1>1, MadeFrames DEF Lost, FrameKinds
    <3>3. \A c \in Callers : Lost(c).of = c
      BY DEF Lost, Frame
    <3>4. \A c \in Callers : In(inbox'[c]) \subseteq In(inbox[c]) \cup {Lost(c)}
      BY <1>1, <3>1, <3>2, AppendIn
    <3> QED
      BY <1>2, <1>3, <3>3, <3>4 DEF MatchInv
  <2> QED
    BY <2>1, <2>2 DEF Reader
<1> QED
  BY <1>4, <1>5, <1>7, <1>8 DEF AnswerInv

(***************************************************************************)
(* The wires and the guest: what they put under way answers what they took *)
(* from there.                                                             *)
(***************************************************************************)
\* What the guest does, the host and its numbers do not see.
LEMMA NumbersRest ==
  ASSUME NumberInv, MatchInv, UNCHANGED hostVars,
         \A c \in Callers : work'[c] # "none" => work[c] # "none" \/ reqId[c] # 0
  PROVE  NumberInv' /\ MatchInv'
<1>1. UNCHANGED <<reqId, nextId, call, inbox, received>>
  BY DEF hostVars
<1>2. NumberInv'
  BY <1>1 DEF NumberInv
<1> QED
  BY <1>1, <1>2 DEF MatchInv

LEMMA AnswerDrop == ASSUME IInv, AnswerInv, Drop PROVE AnswerInv'
<1>1. /\ link = "up" /\ link' = "down" /\ toGuest' = <<>> /\ UNCHANGED hostVars
      /\ UNCHANGED guestVars
  BY DEF Drop
<1>2. PICK k \in 0..Len(toHost) : toHost' = SubSeq(toHost, 1, k)
  BY DEF Drop
<1>3. toHost \in Seq(Frames) /\ owed \in Nat /\ drained \in Nat
  BY DEF IInv, WireInv, AuthInv
<1>4. In(toHost') \subseteq In(toHost) /\ Len(toHost') <= Len(toHost)
      /\ toHost' \in Seq(Frames)
  BY <1>2, <1>3, PrefixIn
<1>5. UNCHANGED <<stage, owed, drained, reqId, call, outbox, streamBox, agent, work>>
  BY <1>1 DEF hostVars, guestVars
<1>6. LinkInv /\ EarlyInv /\ CountInv /\ LateInv /\ NumberInv /\ MatchInv
  BY DEF AnswerInv
<1>7. LinkInv'
  BY <1>1, <1>5, <1>6 DEF LinkInv
<1>8. EarlyInv'
  BY <1>1, <1>4, <1>5, <1>6, EmptyIn DEF EarlyInv, OnlyAuth
<1>9. CountInv'
  <2>1. Len(toHost) \in Nat /\ Len(toHost') \in Nat
    BY <1>3, <1>4, LenProperties
  <2> QED
    BY <1>1, <1>3, <1>4, <1>5, <1>6, <2>1 DEF CountInv, SoFar
<1>10. LateInv'
  BY <1>1, <1>4, <1>5, <1>6 DEF LateInv, AreGenuine, Genuine
<1>11. NumberInv' /\ MatchInv'
  BY <1>1, <1>5, <1>6, NumbersRest
<1> QED
  BY <1>7, <1>8, <1>9, <1>10, <1>11 DEF AnswerInv

LEMMA AnswerRestart ==
  ASSUME IInv, AnswerInv, OpenDevice \/ AgentSeesEof \/ AgentCrashes
  PROVE  AnswerInv'
<1>1. UNCHANGED hostVars /\ UNCHANGED wireVars
  BY DEF OpenDevice, AgentSeesEof, AgentCrashes, AgentExits
<1>2. UNCHANGED <<stage, owed, drained, reqId, call, link, toGuest, toHost>>
  BY <1>1 DEF hostVars, wireVars
<1>3. /\ toGuest \in Seq(Frames) /\ toHost \in Seq(Frames) /\ outbox \in Seq(Frames)
      /\ owed \in Nat /\ drained \in Nat /\ work \in [Callers -> {"none", "running", "done", "lost"}]
  BY DEF IInv, WireInv, AuthInv, GuestInv
<1>4. LinkInv /\ EarlyInv /\ CountInv /\ LateInv /\ NumberInv /\ MatchInv
  BY DEF AnswerInv
<1>5. CASE OpenDevice
  <2>1. agent = "booting" /\ agent' = "serving" /\ UNCHANGED <<outbox, streamBox, work>>
    BY <1>5 DEF OpenDevice
  <2>2. LinkInv' /\ EarlyInv' /\ CountInv'
    BY <1>2, <1>4, <2>1 DEF LinkInv, EarlyInv, CountInv, SoFar
  <2>3. LateInv'
    BY <1>2, <1>4, <2>1 DEF LateInv, AreGenuine, Genuine
  <2>4. NumberInv' /\ MatchInv'
    BY <1>1, <1>4, <2>1, NumbersRest
  <2> QED
    BY <2>2, <2>3, <2>4 DEF AnswerInv
<1>6. CASE AgentSeesEof \/ AgentCrashes
  <2>1. /\ outbox' = <<>> /\ streamBox' = <<>> /\ agent' = "booting"
        /\ work' = [c \in Callers |-> IF work[c] = "running" THEN "lost" ELSE work[c]]
    BY <1>6 DEF AgentSeesEof, AgentCrashes, AgentExits
  <2>2. LinkInv'
    BY <1>2, <1>4, <2>1 DEF LinkInv
  <2>3. EarlyInv'
    BY <1>2, <1>4, <2>1, EmptyIn DEF EarlyInv, OnlyAuth
  <2>4. CountInv'
    <3>1. Len(toHost) \in Nat /\ Len(toGuest) \in Nat /\ Len(outbox) \in Nat /\ Len(outbox') = 0
      BY <1>3, <2>1, LenProperties, EmptyIn
    <3>2. Len(toGuest) + 0 + Len(toHost) <= Len(toGuest) + Len(outbox) + Len(toHost)
      BY <3>1
    <3> QED
      BY <1>2, <1>3, <1>4, <3>1, <3>2 DEF CountInv, SoFar
  <2>5. LateInv'
    BY <1>2, <1>4, <2>1, EmptyIn DEF LateInv, AreGenuine, Genuine
  <2>6. NumberInv' /\ MatchInv'
    BY <1>1, <1>4, <2>1, NumbersRest
  <2> QED
    BY <2>2, <2>3, <2>4, <2>5, <2>6 DEF AnswerInv
<1> QED
  BY <1>5, <1>6

LEMMA AnswerServe ==
  ASSUME IInv, AnswerInv, ServeAuth \/ ServeSpawns \/ ServeRefuses
  PROVE  AnswerInv'
<1>1. /\ toGuest \in Seq(Frames) /\ toHost \in Seq(Frames) /\ outbox \in Seq(Frames)
      /\ owed \in Nat /\ drained \in Nat /\ work \in [Callers -> {"none", "running", "done", "lost"}]
      /\ reqId \in [Callers -> Nat]
  BY DEF IInv, WireInv, AuthInv, GuestInv, RequestInv, CallInv
<1>2. LinkInv /\ EarlyInv /\ CountInv /\ LateInv /\ NumberInv /\ MatchInv
  BY DEF AnswerInv
<1>3. /\ agent = "serving" /\ toGuest # <<>> /\ toGuest' = Tail(toGuest) /\ UNCHANGED hostVars
      /\ UNCHANGED <<link, toHost, agent, streamBox>>
  BY DEF ServeAuth, ServeSpawns, ServeRefuses, Reads
<1>4. PICK read : read = Head(toGuest)
  OBVIOUS
<1>5. /\ read \in In(toGuest) /\ read \in Frames /\ In(toGuest') \subseteq In(toGuest)
      /\ Len(toGuest') = Len(toGuest) - 1 /\ Len(toGuest) \in Nat \ {0}
  BY <1>1, <1>3, <1>4, TailIn
<1>6. link = "up"
  BY <1>2, <1>3 DEF LinkInv, IInv, WireInv
<1>7. UNCHANGED <<stage, owed, drained, reqId, call>>
  BY <1>3 DEF hostVars
<1>8. CASE ServeAuth
  <2> DEFINE frame == Frame(read.id, "auth", NoCaller, 0)
  <2>1. read.kind = "auth" /\ outbox' = Append(outbox, frame) /\ work' = work
    BY <1>4, <1>8 DEF ServeAuth, Reads
  <2>2. stage \in Early
    BY <1>2, <1>5, <1>6, <2>1 DEF LateInv, AreGenuine, Genuine
  <2>3. frame \in Frames /\ frame.kind = "auth" /\ frame.of = NoCaller
    <3>1. read.id \in Nat
      BY <1>5 DEF Frames
    <3>2. frame \in Frames
      BY <3>1, MadeFrames DEF FrameKinds
    <3> QED
      BY <3>2 DEF Frame
  <2> HIDE DEF frame
  <2>4. In(outbox') = In(outbox) \cup {frame} /\ Len(outbox') = Len(outbox) + 1
    BY <1>1, <2>1, <2>3, AppendIn
  <2>5. LinkInv'
    BY <1>2, <1>3, <1>6, <1>7, <2>1 DEF LinkInv
  <2>6. EarlyInv'
    BY <1>2, <1>3, <1>5, <1>7, <2>3, <2>4 DEF EarlyInv, OnlyAuth
  <2>7. CountInv'
    <3>1. Len(toHost) \in Nat /\ Len(outbox) \in Nat
      BY <1>1, LenProperties
    <3>2. Len(toGuest') + Len(outbox') + Len(toHost') = Len(toGuest) + Len(outbox) + Len(toHost)
      BY <1>3, <1>5, <2>4, <3>1
    <3> QED
      BY <1>2, <1>3, <1>7, <3>2 DEF CountInv, SoFar
  <2>8. LateInv'
    BY <1>7, <2>2 DEF LateInv
  <2>9. NumberInv' /\ MatchInv'
    BY <1>2, <1>3, <2>1, NumbersRest
  <2> QED
    BY <2>5, <2>6, <2>7, <2>8, <2>9 DEF AnswerInv
<1>9. CASE ServeSpawns \/ ServeRefuses
  <2>1. read.kind = "request"
    BY <1>4, <1>9 DEF ServeSpawns, ServeRefuses, Reads
  <2>2. stage \notin Early
    BY <1>2, <1>5, <2>1 DEF EarlyInv, OnlyAuth
  <2>3. PICK c : c = read.of
    OBVIOUS
  <2>4. c \in Callers /\ reqId[c] # 0
    BY <1>2, <1>5, <1>6, <2>2, <2>3 DEF LateInv, AreGenuine, Genuine
  <2>5. \E how \in {"running", "done"} : work' = [work EXCEPT ![c] = how]
    BY <1>4, <1>9, <2>3 DEF ServeSpawns, ServeRefuses
  <2>6. NumberInv' /\ MatchInv'
    BY <1>1, <1>2, <1>3, <2>4, <2>5, NumbersRest
  <2>7. \A frame \in In(outbox') : frame \in In(outbox) \/ Genuine(frame)
    <3>1. CASE ServeSpawns
      BY <3>1 DEF ServeSpawns
    <3>2. CASE ServeRefuses
      <4> DEFINE error == Frame(reqId[c], "error", c, 1)
                 exit  == Frame(reqId[c], "exit", c, 2)
      <4>1. outbox' = outbox \o (IF c \in StdinStreams /\ authed THEN <<error, exit>>
                                                                ELSE <<error>>)
        BY <1>4, <2>3, <3>2 DEF ServeRefuses
      <4>2. error \in Frames /\ exit \in Frames
        BY <1>1, <2>4, MadeFrames DEF FrameKinds
      <4>3. Genuine(error) /\ Genuine(exit)
        BY <2>4 DEF Genuine, Frame
      <4> HIDE DEF error, exit
      <4>4. /\ <<error>> \in Seq(Frames) /\ <<error, exit>> \in Seq(Frames)
            /\ In(<<error>>) \subseteq {error, exit} /\ In(<<error, exit>>) \subseteq {error, exit}
        BY <4>2 DEF In
      <4>5. In(outbox') \subseteq In(outbox) \cup {error, exit}
        BY <1>1, <4>1, <4>4, ConcatIn
      <4> QED
        BY <4>3, <4>5
    <3> QED
      BY <1>9, <3>1, <3>2
  <2>8. LateInv'
    <3>1. \A frame : Genuine(frame) => Genuine(frame)'
      BY <1>7 DEF Genuine
    <3>2. \A frame \in In(outbox) \cup In(toGuest) \cup In(toHost) \cup In(streamBox) : Genuine(frame)
      BY <1>2, <1>6, <2>2 DEF LateInv, AreGenuine
    <3>3. AreGenuine(toHost)' /\ AreGenuine(streamBox)' /\ AreGenuine(toGuest)'
      BY <1>3, <1>5, <3>1, <3>2 DEF AreGenuine
    <3>4. AreGenuine(outbox)'
      BY <2>7, <3>1, <3>2 DEF AreGenuine
    <3> QED
      BY <3>3, <3>4 DEF LateInv
  <2>9. LinkInv' /\ EarlyInv' /\ CountInv'
    BY <1>2, <1>3, <1>6, <1>7, <2>2 DEF LinkInv, EarlyInv, CountInv, Early
  <2> QED
    BY <2>6, <2>8, <2>9 DEF AnswerInv
<1> QED
  BY <1>8, <1>9

LEMMA AnswerWriter == ASSUME IInv, AnswerInv, WriterSends PROVE AnswerInv'
<1>1. /\ toHost \in Seq(Frames) /\ outbox \in Seq(Frames) /\ streamBox \in Seq(Frames)
      /\ toGuest \in Seq(Frames)
  BY DEF IInv, WireInv, GuestInv
<1>2. LinkInv /\ EarlyInv /\ CountInv /\ LateInv /\ NumberInv /\ MatchInv
  BY DEF AnswerInv
<1>3. /\ link = "up" /\ agent = "serving" /\ UNCHANGED <<link, agent, work, toGuest>>
      /\ UNCHANGED hostVars
  BY DEF WriterSends
<1>4. UNCHANGED <<stage, owed, drained, reqId, call>>
  BY <1>3 DEF hostVars
<1>5. \E frame \in Frames :
        /\ In(toHost') = In(toHost) \cup {frame} /\ Len(toHost') = Len(toHost) + 1
        /\ \/ /\ frame \in In(outbox) /\ In(outbox') \subseteq In(outbox)
              /\ Len(outbox') = Len(outbox) - 1 /\ streamBox' = streamBox
           \/ /\ frame \in In(streamBox) /\ In(streamBox') \subseteq In(streamBox)
              /\ streamBox # <<>> /\ outbox' = outbox
  <2>1. CASE outbox # <<>> /\ outbox' = Tail(outbox) /\ toHost' = Append(toHost, Head(outbox))
             /\ streamBox' = streamBox
    BY <1>1, <2>1, TailIn, AppendIn
  <2>2. CASE streamBox # <<>> /\ streamBox' = Tail(streamBox) /\ outbox' = outbox
             /\ toHost' = Append(toHost, Head(streamBox))
    BY <1>1, <2>2, TailIn, AppendIn
  <2> QED
    BY <2>1, <2>2 DEF WriterSends
<1>6. LinkInv'
  BY <1>2, <1>3, <1>4 DEF LinkInv, IInv, WireInv
<1>7. EarlyInv'
  BY <1>2, <1>3, <1>4, <1>5, EmptyIn DEF EarlyInv, OnlyAuth
<1>8. CountInv'
  <2>1. Len(toHost) \in Nat /\ Len(outbox) \in Nat /\ Len(toGuest) \in Nat
    BY <1>1, LenProperties
  <2>2. stage \in Early => streamBox = <<>>
    BY <1>2 DEF EarlyInv
  <2>3. stage \in Early => Len(outbox') + Len(toHost') = Len(outbox) + Len(toHost)
                           /\ Len(toHost') = Len(toHost) + 1 /\ Len(outbox) # 0
    <3>1. ASSUME stage \in Early
          PROVE  /\ Len(outbox') = Len(outbox) - 1 /\ Len(toHost') = Len(toHost) + 1
                 /\ Len(outbox) # 0
      <4>1. streamBox = <<>>
        BY <2>2, <3>1
      <4>2. Len(outbox') = Len(outbox) - 1 /\ Len(toHost') = Len(toHost) + 1
            /\ In(outbox) # {}
        BY <1>5, <4>1, EmptyIn
      <4> QED
        BY <1>1, <4>2, NoneIn
    <3> QED
      BY <2>1, <3>1
  <2>4. CASE stage \in {"authing", "authwait", "draining"}
    <3>1. /\ Len(toGuest) + Len(outbox) + Len(toHost) + SoFar <= owed /\ SoFar' = SoFar
      BY <1>2, <1>3, <1>4, <2>4 DEF CountInv, SoFar
    <3>2. Len(toGuest') + Len(outbox') + Len(toHost') = Len(toGuest) + Len(outbox) + Len(toHost)
      BY <1>3, <2>1, <2>3, <2>4 DEF Early
    <3>3. SoFar \in Nat /\ owed \in Nat
      BY DEF SoFar, IInv, AuthInv
    <3>4. Len(toHost') + SoFar <= owed
      BY <2>1, <2>3, <2>4, <3>1, <3>3 DEF Early
    <3> QED
      BY <1>4, <3>1, <3>2, <3>4 DEF CountInv
  <2> QED
    BY <1>4, <2>4 DEF CountInv
<1>9. LateInv'
  <2>1. \A f : Genuine(f) => Genuine(f)'
    BY <1>4 DEF Genuine
  <2> QED
    BY <1>2, <1>3, <1>4, <1>5, <2>1 DEF LateInv, AreGenuine
<1>10. NumberInv' /\ MatchInv'
  BY <1>2, <1>3, NumbersRest
<1> QED
  BY <1>6, <1>7, <1>8, <1>9, <1>10 DEF AnswerInv

LEMMA AnswerTask == ASSUME IInv, AnswerInv, NEW c \in Callers, Task(c) PROVE AnswerInv'
<1>1. /\ toHost \in Seq(Frames) /\ outbox \in Seq(Frames) /\ streamBox \in Seq(Frames)
      /\ emitted \in [Callers -> Nat] /\ reqId \in [Callers -> Nat]
      /\ work \in [Callers -> {"none", "running", "done", "lost"}]
  BY DEF IInv, WireInv, GuestInv, RequestInv, CallInv
<1>2. LinkInv /\ EarlyInv /\ CountInv /\ LateInv /\ NumberInv /\ MatchInv
  BY DEF AnswerInv
<1>3. /\ work[c] = "running" /\ UNCHANGED hostVars /\ UNCHANGED wireVars /\ agent' = agent
      /\ \/ work' = work
         \/ work' = [work EXCEPT ![c] = "done"]
  BY DEF Task, TaskAnswers, TaskOutputs, TaskExits
<1>4. PICK kind \in {"result", "data", "exit"} : Emit(c, kind)
  BY DEF Task, TaskAnswers, TaskOutputs, TaskExits
<1>5. PICK frame : frame = Frame(reqId[c], kind, c, emitted[c] + 1)
  OBVIOUS
<1>6. \/ streamBox' = Append(streamBox, frame) /\ outbox' = outbox
      \/ outbox' = Append(outbox, frame) /\ streamBox' = streamBox
  BY <1>4, <1>5 DEF Emit
<1>7. UNCHANGED <<stage, owed, drained, reqId, call, link, toGuest, toHost>>
  BY <1>3 DEF hostVars, wireVars
<1>8. stage \notin Early /\ reqId[c] # 0 /\ agent # "booting"
  BY <1>2, <1>3 DEF EarlyInv, NumberInv, LinkInv
<1>9. frame \in Frames /\ Genuine(frame)
  <2>1. frame \in Frames
    BY <1>1, <1>5, MadeFrames DEF FrameKinds
  <2>2. frame.kind = kind /\ frame.of = c /\ frame.id = reqId[c]
    BY <1>5 DEF Frame
  <2> QED
    BY <1>8, <2>1, <2>2 DEF Genuine
<1>10. In(outbox') \subseteq In(outbox) \cup {frame}
       /\ In(streamBox') \subseteq In(streamBox) \cup {frame}
  BY <1>1, <1>6, <1>9, AppendIn
<1>11. LateInv'
  <2>1. \A f : Genuine(f) => Genuine(f)'
    BY <1>7 DEF Genuine
  <2> QED
    BY <1>2, <1>7, <1>8, <1>9, <1>10, <2>1 DEF LateInv, AreGenuine
<1>12. LinkInv' /\ EarlyInv' /\ CountInv'
  BY <1>2, <1>3, <1>7, <1>8 DEF LinkInv, EarlyInv, CountInv, Early
<1>13. NumberInv' /\ MatchInv'
  BY <1>1, <1>2, <1>3, NumbersRest
<1> QED
  BY <1>11, <1>12, <1>13 DEF AnswerInv

\* Every step of the system keeps the parts.
LEMMA AnswerStep == ASSUME PromptAgent, IInv, AnswerInv, [Next]_vars PROVE AnswerInv'
<1>1. CASE UNCHANGED vars
  <2>1. /\ UNCHANGED <<stage, nextId, owed, drained, reqId, call, inbox, received>>
        /\ UNCHANGED <<link, toGuest, toHost, agent, work, outbox, streamBox>>
    BY <1>1 DEF vars, hostVars, wireVars, guestVars
  <2>2. LinkInv' /\ EarlyInv' /\ CountInv'
    BY <2>1 DEF AnswerInv, LinkInv, EarlyInv, CountInv, SoFar
  <2>3. LateInv' /\ NumberInv' /\ MatchInv'
    BY <2>1 DEF AnswerInv, LateInv, NumberInv, MatchInv, AreGenuine, Genuine
  <2> QED
    BY <2>2, <2>3 DEF AnswerInv
<1>2. CASE Next
  BY <1>2, AnswerConnect, AnswerRequest, AnswerReader, AnswerDrop, AnswerRestart, AnswerServe,
     AnswerWriter, AnswerTask DEF Next, Serve
<1> QED
  BY <1>1, <1>2

LEMMA AnswerInvariance == PromptAgent => (Spec => []AnswerInv)
<1> SUFFICES ASSUME PromptAgent PROVE Spec => []AnswerInv
  OBVIOUS
<1>1. IInv /\ AnswerInv /\ [Next]_vars => AnswerInv'
  BY AnswerStep
<1> QED
  BY <1>1, AnswerInit, Invariance, PTL DEF Spec

\* When the agent answers within the host's short waits, what a request returns
\* or streams to its callbacks answers that request (_read_loop's dispatch by
\* id), whatever was late, lost, timed out or sent before the ids began again.
THEOREM AnswersTheorem == PromptAgent => (Spec => []AnswersMatch)
<1> SUFFICES ASSUME PromptAgent PROVE Spec => []AnswersMatch
  OBVIOUS
<1>1. IInv /\ AnswerInv => AnswersMatch
  <2> SUFFICES ASSUME IInv, AnswerInv, NEW c \in Callers, NEW i \in DOMAIN received[c]
               PROVE  received[c][i].of = c
    BY DEF AnswersMatch
  <2>1. received[c] \in Seq(Frames)
    BY DEF IInv, RequestInv, BoxInv
  <2>2. received[c][i] \in In(received[c])
    BY <2>1, LenProperties DEF In
  <2> QED
    BY <2>2 DEF AnswerInv, MatchInv
<1> QED
  BY <1>1, AnswerInvariance, Invariance, PTL

(***************************************************************************)
(* Why a stream is seen in order and to its end.                           *)
(*                                                                         *)
(* Every frame of a stream on its way to the host is preceded, in the box  *)
(* it is in or on the wire before it, by the one with the number below its *)
(* own, unless that is the next to be read; the agent's two channels do    *)
(* not disturb this, because all frames of one answer go through one of    *)
(* them.  A lost connection cuts the end off.                              *)
(***************************************************************************)
\* The request is sent once, and nothing answers it before it is served.
ServedInv ==
    /\ \A i, j \in 1..Len(toGuest) :
         /\ toGuest[i].kind = "request" /\ toGuest[j].kind = "request"
         /\ toGuest[i].of = toGuest[j].of
         => i = j
    /\ \A frame \in In(toGuest) : frame.kind = "request" =>
         work[frame.of] = "none" /\ call[frame.of] \notin {"idle", "queued"}
    /\ \A c \in Callers :
         /\ call[c] \in {"idle", "queued"} => work[c] = "none"
         /\ call[c] = "idle" => inbox[c] = <<>> /\ received[c] = <<>>
         /\ work[c] = "none" => emitted[c] = 0

\* What a frame of a stream is: of a refusal, the error and what follows it; of
\* a task, output or the exit after it.
Shape(frame, c) ==
    \/ /\ work[c] = "done" /\ emitted[c] = 0
       /\ \/ frame.n = 1 /\ frame.kind = "error"
          \/ frame.n = 2 /\ frame.kind = "exit"
    \/ /\ work[c] # "none" /\ frame.n \in 1..emitted[c]
       /\ \/ frame.kind = "data"
          \/ frame.kind = "exit" /\ frame.n = emitted[c] /\ work[c] # "running"
ShapeInv ==
    \A c \in Streams :
        /\ \A frame \in In(toHost) : frame.of = c => Shape(frame, c)
        /\ \A frame \in In(outbox) : frame.of = c =>
             Shape(frame, c) /\ (c \in StdinStreams => emitted[c] = 0)
        /\ \A frame \in In(streamBox) : frame.of = c =>
             Shape(frame, c) /\ c \in StdinStreams /\ emitted[c] # 0
        /\ \A frame \in In(inbox[c]) \cup In(received[c]) :
             frame.kind # "lost" => Shape(frame, c)

\* How many frames have been read for a request that is registered.
Read(c) == Len(received[c]) + Len(inbox[c])

\* The frames of c on the wire are in order, without a gap after the first b.
Before(seq, j, c, k) == \E i \in 1..Len(seq) : i < j /\ seq[i].of = c /\ seq[i].n = k
Holds(seq, c, k) == \E i \in 1..Len(seq) : seq[i].of = c /\ seq[i].n = k
Chain(seq, c, b) ==
    \A j \in 1..Len(seq) : seq[j].of = c =>
        /\ seq[j].n > b
        /\ \A i \in 1..Len(seq) : i < j /\ seq[i].of = c => seq[i].n < seq[j].n
        /\ seq[j].n = b + 1 \/ Before(seq, j, c, seq[j].n - 1)
\* Those in a box go on from there.
Follows(box, seq, c, b) ==
    \A j \in 1..Len(box) : box[j].of = c =>
        /\ box[j].n > b
        /\ \A i \in 1..Len(seq) : seq[i].of = c => seq[i].n < box[j].n
        /\ \A i \in 1..Len(box) : i < j /\ box[i].of = c => box[i].n < box[j].n
        /\ \/ box[j].n = b + 1
           \/ Holds(seq, c, box[j].n - 1)
           \/ Before(box, j, c, box[j].n - 1)
ChainInv ==
    \A c \in Streams \cap registered :
        /\ Chain(toHost, c, Read(c))
        /\ link = "up" => /\ Follows(outbox, toHost, c, Read(c))
                          /\ Follows(streamBox, toHost, c, Read(c))
        /\ link = "up" /\ work[c] = "running" =>
             \/ emitted[c] = Read(c) \/ Holds(toHost, c, emitted[c])
             \/ Holds(outbox, c, emitted[c]) \/ Holds(streamBox, c, emitted[c])

\* What the request has got, and has yet to take.
TakenInv ==
    \A c \in Streams :
        /\ \A i \in 1..Len(inbox[c]) :
             /\ inbox[c][i].kind = "lost" => i = Len(inbox[c]) /\ c \notin registered
             /\ inbox[c][i].kind # "lost" => inbox[c][i].n = Len(received[c]) + i
        /\ \A i \in 1..Len(received[c]) :
             /\ received[c][i].kind # "lost" => received[c][i].n = i
             /\ call[c] \in InFlight => received[c][i].kind = "data"
        /\ call[c] = "answered" => Len(received[c]) = emitted[c] /\ work[c] \notin {"none", "running"}
StreamInv == ServedInv /\ ShapeInv /\ ChainInv /\ TakenInv

-----------------------------------------------------------------------------
(* What the operations on sequences do to the order of the frames in them *)

\* The places of the frames that an operation leaves in a sequence.
LEMMA AppendAt ==
  ASSUME NEW s \in Seq(Frames), NEW e \in Frames
  PROVE  /\ Len(s) \in Nat /\ Len(Append(s, e)) = Len(s) + 1
         /\ Append(s, e)[Len(s) + 1] = e
         /\ \A i \in 1..Len(s) : Append(s, e)[i] = s[i]
         /\ \A i \in 1..(Len(s) + 1) : i \in 1..Len(s) \/ i = Len(s) + 1
         /\ \A i \in 1..Len(s) : i \in 1..(Len(s) + 1) /\ i < Len(s) + 1
         /\ Len(s) + 1 \in 1..(Len(s) + 1)
<1>1. Len(Append(s, e)) = Len(s) + 1 /\ Append(s, e)[Len(s) + 1] = e
      /\ \A i \in 1..Len(s) : Append(s, e)[i] = s[i]
  BY AppendProperties
<1> QED
  BY <1>1, LenProperties
LEMMA TailAt ==
  ASSUME NEW s \in Seq(Frames), s # <<>>
  PROVE  /\ Len(s) \in Nat \ {0} /\ Len(Tail(s)) = Len(s) - 1 /\ Head(s) = s[1] /\ 1 \in 1..Len(s)
         /\ \A i \in 1..(Len(s) - 1) : Tail(s)[i] = s[i + 1] /\ i + 1 \in 1..Len(s) /\ 1 < i + 1
         /\ \A i \in 1..Len(s) : i = 1 \/ i - 1 \in 1..(Len(s) - 1)
         /\ Tail(s) \in Seq(Frames) /\ Head(s) \in Frames
         /\ \A i \in 1..Len(s) : s[i].n \in Nat
<1>1. /\ Len(s) \in Nat \ {0} /\ Head(s) = s[1] /\ Len(Tail(s)) = Len(s) - 1
      /\ \A i \in 1..(Len(s) - 1) : Tail(s)[i] = s[i + 1]
      /\ Tail(s) \in Seq(Frames) /\ Head(s) \in Frames
  BY HeadTailProperties, EmptySeq, LenProperties
<1>2. \A i \in 1..Len(s) : s[i].n \in Nat
  BY ElementOfSeq DEF Frames
<1> QED
  BY <1>1, <1>2

\* A frame of another request, or the next one of this, does not break the chain.
LEMMA ChainAppend ==
  ASSUME NEW s \in Seq(Frames), NEW e \in Frames, NEW c, NEW b \in Nat, Chain(s, c, b),
         e.of = c => /\ e.n > b
                     /\ \A i \in 1..Len(s) : s[i].of = c => s[i].n < e.n
                     /\ e.n = b + 1 \/ Holds(s, c, e.n - 1)
  PROVE  Chain(Append(s, e), c, b)
<1> DEFINE t == Append(s, e)
           n == Len(s)
<1>1. /\ n \in Nat /\ Len(t) = n + 1 /\ t[n + 1] = e
      /\ \A i \in 1..n : t[i] = s[i] /\ i \in 1..(n + 1) /\ i < n + 1
      /\ \A i \in 1..(n + 1) : i \in 1..n \/ i = n + 1
  BY AppendAt
<1>2. /\ \A j \in 1..n : s[j].of = c =>
           /\ s[j].n > b
           /\ \A i \in 1..n : i < j /\ s[i].of = c => s[i].n < s[j].n
           /\ s[j].n = b + 1 \/ \E i \in 1..n : i < j /\ s[i].of = c /\ s[i].n = s[j].n - 1
  BY DEF Chain, Before
<1>3. e.of = c => /\ e.n > b
                  /\ \A i \in 1..n : s[i].of = c => s[i].n < e.n
                  /\ e.n = b + 1 \/ \E i \in 1..n : s[i].of = c /\ s[i].n = e.n - 1
  BY DEF Holds
<1> SUFFICES ASSUME NEW j \in 1..(n + 1), t[j].of = c
             PROVE  /\ t[j].n > b
                    /\ \A i \in 1..(n + 1) : i < j /\ t[i].of = c => t[i].n < t[j].n
                    /\ t[j].n = b + 1 \/ \E i \in 1..(n + 1) : i < j /\ t[i].of = c /\ t[i].n = t[j].n - 1
  BY <1>1 DEF Chain, Before
<1> HIDE DEF t, n
<1>4. CASE j \in 1..n
  <2>1. t[j] = s[j] /\ j < n + 1
    BY <1>1, <1>4
  <2>2. \A i \in 1..(n + 1) : i < j => i \in 1..n
    BY <1>1, <2>1, <1>4
  <2> QED
    BY <1>1, <1>2, <1>4, <2>1, <2>2
<1>5. CASE j = n + 1
  <2>1. \A i \in 1..(n + 1) : i < j => i \in 1..n
    BY <1>1, <1>5
  <2> QED
    BY <1>1, <1>3, <1>5, <2>1
<1> QED
  BY <1>1, <1>4, <1>5

\* When the first frame is read, it is the next of its request.
LEMMA ChainTail ==
  ASSUME NEW s \in Seq(Frames), s # <<>>, NEW c, NEW b \in Nat, Chain(s, c, b)
  PROVE  /\ Head(s).of = c => Head(s).n = b + 1 /\ Chain(Tail(s), c, b + 1)
         /\ Head(s).of # c => Chain(Tail(s), c, b)
<1> DEFINE t == Tail(s)
           n == Len(s)
<1>1. /\ n \in Nat \ {0} /\ Len(t) = n - 1 /\ Head(s) = s[1] /\ 1 \in 1..n
      /\ \A i \in 1..(n - 1) : t[i] = s[i + 1] /\ i + 1 \in 1..n /\ 1 < i + 1
      /\ \A i \in 1..n : i = 1 \/ i - 1 \in 1..(n - 1)
      /\ \A i \in 1..n : s[i].n \in Nat
  BY TailAt
<1>2. \A j \in 1..n : s[j].of = c =>
         /\ s[j].n > b
         /\ \A i \in 1..n : i < j /\ s[i].of = c => s[i].n < s[j].n
         /\ s[j].n = b + 1 \/ \E i \in 1..n : i < j /\ s[i].of = c /\ s[i].n = s[j].n - 1
  BY DEF Chain, Before
<1> DEFINE top == IF Head(s).of = c THEN b + 1 ELSE b
<1>3. Head(s).of = c => Head(s).n = b + 1
  <2>1. ~ \E i \in 1..n : i < 1
    BY <1>1
  <2> QED
    BY <1>1, <1>2, <2>1
<1>4. ASSUME NEW j \in 1..(n - 1), t[j].of = c
      PROVE  /\ t[j].n > top
             /\ \A i \in 1..(n - 1) : i < j /\ t[i].of = c => t[i].n < t[j].n
             /\ t[j].n = top + 1 \/ \E i \in 1..(n - 1) : i < j /\ t[i].of = c /\ t[i].n = t[j].n - 1
  <2> HIDE DEF t, n
  <2>1. t[j] = s[j + 1] /\ j + 1 \in 1..n /\ 1 < j + 1 /\ s[j + 1].of = c /\ s[j + 1].n \in Nat
    BY <1>1, <1>4
  <2>2. t[j].n > top
    BY <1>1, <1>2, <1>3, <2>1
  <2>3. \A i \in 1..(n - 1) : i < j /\ t[i].of = c => t[i].n < t[j].n
    <3>1. \A i \in 1..(n - 1) : i < j => i + 1 < j + 1 /\ t[i] = s[i + 1] /\ i + 1 \in 1..n
      BY <1>1
    <3> QED
      BY <1>2, <2>1, <3>1
  <2>4. ASSUME NEW i \in 1..n, i < j + 1, s[i].of = c, s[i].n = s[j + 1].n - 1
        PROVE  t[j].n = top + 1 \/ \E k \in 1..(n - 1) : k < j /\ t[k].of = c /\ t[k].n = t[j].n - 1
    <3>1. CASE i = 1
      BY <1>1, <1>3, <2>1, <2>4, <3>1
    <3>2. CASE i # 1
      <4>1. i - 1 \in 1..(n - 1) /\ i - 1 < j /\ (i - 1) + 1 = i
        BY <1>1, <2>4, <3>2
      <4>2. t[i - 1] = s[i]
        BY <1>1, <4>1
      <4> QED
        BY <2>1, <2>4, <4>1, <4>2
    <3> QED
      BY <3>1, <3>2
  <2>5. s[j + 1].n = b + 1 => t[j].n = top + 1
    BY <1>1, <2>1, <2>2
  <2> QED
    BY <1>2, <2>1, <2>2, <2>3, <2>4, <2>5
<1>5. Chain(t, c, top)
  BY <1>1, <1>4 DEF Chain, Before
<1> QED
  BY <1>3, <1>5

\* What is left of a cut wire is still a chain.
LEMMA ChainPrefix ==
  ASSUME NEW s \in Seq(Frames), NEW k \in 0..Len(s), NEW c, NEW b \in Nat, Chain(s, c, b)
  PROVE  Chain(SubSeq(s, 1, k), c, b)
<1> DEFINE t == SubSeq(s, 1, k)
           n == Len(s)
<1>1. n \in Nat /\ k \in Nat /\ k <= n
  BY LenProperties
<1>2. Len(t) = k /\ \A i \in 1..k : t[i] = s[i] /\ i \in 1..n
  BY <1>1
<1>3. \A j \in 1..n : s[j].of = c =>
         /\ s[j].n > b
         /\ \A i \in 1..n : i < j /\ s[i].of = c => s[i].n < s[j].n
         /\ s[j].n = b + 1 \/ \E i \in 1..n : i < j /\ s[i].of = c /\ s[i].n = s[j].n - 1
  BY DEF Chain, Before
<1> SUFFICES ASSUME NEW j \in 1..k, t[j].of = c
             PROVE  /\ t[j].n > b
                    /\ \A i \in 1..k : i < j /\ t[i].of = c => t[i].n < t[j].n
                    /\ t[j].n = b + 1 \/ \E i \in 1..k : i < j /\ t[i].of = c /\ t[i].n = t[j].n - 1
  BY <1>2 DEF Chain, Before
<1> HIDE DEF t, n
<1>4. \A i \in 1..n : i < j => i \in 1..k
  BY <1>1
<1> QED
  BY <1>2, <1>3, <1>4

\* A box goes on from a longer chain, and from a shorter one when it was read.
LEMMA FollowsAppend ==
  ASSUME NEW x \in Seq(Frames), NEW s \in Seq(Frames), NEW e \in Frames, NEW c, NEW b \in Nat,
         Follows(x, s, c, b),
         e.of # c \/ \A i \in 1..Len(x) : x[i].of # c
  PROVE  Follows(x, Append(s, e), c, b)
<1> DEFINE t == Append(s, e)
           n == Len(s)
<1>1. /\ n \in Nat /\ Len(t) = n + 1 /\ t[n + 1] = e
      /\ \A i \in 1..n : t[i] = s[i] /\ i \in 1..(n + 1)
      /\ \A i \in 1..(n + 1) : i \in 1..n \/ i = n + 1
  BY AppendAt
<1>2. \A k : Holds(s, c, k) => Holds(t, c, k)
  BY <1>1 DEF Holds
<1> HIDE DEF t, n
<1>3. ASSUME NEW j \in 1..Len(x), x[j].of = c, NEW i \in 1..(n + 1), t[i].of = c
      PROVE  t[i].n < x[j].n
  <2>1. e.of # c
    BY <1>3
  <2>2. i \in 1..n /\ t[i] = s[i]
    BY <1>1, <1>3, <2>1
  <2> QED
    BY <1>3, <2>2 DEF Follows, n
<1> QED
  BY <1>1, <1>2, <1>3 DEF Follows, t
LEMMA FollowsTail ==
  ASSUME NEW x \in Seq(Frames), NEW s \in Seq(Frames), s # <<>>, NEW c, NEW b \in Nat,
         Chain(s, c, b), Follows(x, s, c, b)
  PROVE  /\ Head(s).of = c => Follows(x, Tail(s), c, b + 1)
         /\ Head(s).of # c => Follows(x, Tail(s), c, b)
<1> DEFINE t == Tail(s)
           n == Len(s)
           top == IF Head(s).of = c THEN b + 1 ELSE b
<1>1. /\ n \in Nat \ {0} /\ Len(t) = n - 1 /\ Head(s) = s[1] /\ 1 \in 1..n
      /\ \A i \in 1..(n - 1) : t[i] = s[i + 1] /\ i + 1 \in 1..n
      /\ \A i \in 1..n : i = 1 \/ i - 1 \in 1..(n - 1)
  BY TailAt
<1>2. Head(s).of = c => Head(s).n = b + 1
  BY ChainTail
<1>3. ASSUME NEW k, Holds(s, c, k), k # top \/ Head(s).of # c
      PROVE  Holds(t, c, k)
  <2>1. PICK i \in 1..n : s[i].of = c /\ s[i].n = k
    BY <1>3 DEF Holds
  <2>2. i # 1
    BY <1>1, <1>2, <1>3, <2>1
  <2> HIDE DEF t, n
  <2>3. i - 1 \in 1..(n - 1) /\ (i - 1) + 1 = i
    BY <1>1, <2>2
  <2>4. t[i - 1] = s[i]
    BY <1>1, <2>3
  <2> QED
    BY <1>1, <2>1, <2>3, <2>4 DEF Holds
<1>4. ASSUME NEW j \in 1..Len(x), x[j].of = c
      PROVE  /\ x[j].n > top
             /\ \A i \in 1..(n - 1) : t[i].of = c => t[i].n < x[j].n
             /\ \A i \in 1..Len(x) : i < j /\ x[i].of = c => x[i].n < x[j].n
             /\ x[j].n = top + 1 \/ Holds(t, c, x[j].n - 1) \/ Before(x, j, c, x[j].n - 1)
  <2> HIDE DEF t, n
  <2>1. x[j].n \in Nat
    BY ElementOfSeq DEF Frames
  <2>2. \A i \in 1..n : s[i].of = c => s[i].n < x[j].n
    BY <1>4 DEF Follows, n
  <2>3. x[j].n > b /\ x[j].n > top
    BY <1>1, <1>2, <1>4, <2>1, <2>2 DEF Follows
  <2>4. \A i \in 1..(n - 1) : t[i].of = c => t[i].n < x[j].n
    BY <1>1, <2>2
  <2>5. x[j].n = top + 1 \/ Holds(t, c, x[j].n - 1) \/ Before(x, j, c, x[j].n - 1)
    <3>1. x[j].n = b + 1 => x[j].n = top + 1
      BY <2>1, <2>3
    <3>2. Holds(s, c, x[j].n - 1) => x[j].n = top + 1 \/ Holds(t, c, x[j].n - 1)
      BY <1>3, <2>1
    <3> QED
      BY <1>4, <3>1, <3>2 DEF Follows
  <2> QED
    BY <1>4, <2>3, <2>4, <2>5 DEF Follows
<1>5. Follows(x, t, c, top)
  BY <1>1, <1>4 DEF Follows
<1> QED
  BY <1>5

\* A box takes a frame of another request, or the next one of this.
LEMMA FollowsGrows ==
  ASSUME NEW x \in Seq(Frames), NEW s \in Seq(Frames), NEW e \in Frames, NEW c, NEW b \in Nat,
         Follows(x, s, c, b),
         e.of = c => /\ e.n > b
                     /\ \A i \in 1..Len(s) : s[i].of = c => s[i].n < e.n
                     /\ \A i \in 1..Len(x) : x[i].of = c => x[i].n < e.n
                     /\ e.n = b + 1 \/ Holds(s, c, e.n - 1) \/ Holds(x, c, e.n - 1)
  PROVE  Follows(Append(x, e), s, c, b)
<1> DEFINE t == Append(x, e)
           n == Len(x)
<1>1. /\ n \in Nat /\ Len(t) = n + 1 /\ t[n + 1] = e
      /\ \A i \in 1..n : t[i] = x[i] /\ i \in 1..(n + 1) /\ i < n + 1
      /\ \A i \in 1..(n + 1) : i \in 1..n \/ i = n + 1
  BY AppendAt
<1>2. \A j \in 1..n : x[j].of = c =>
         /\ x[j].n > b
         /\ \A i \in 1..Len(s) : s[i].of = c => s[i].n < x[j].n
         /\ \A i \in 1..n : i < j /\ x[i].of = c => x[i].n < x[j].n
         /\ \/ x[j].n = b + 1
            \/ Holds(s, c, x[j].n - 1)
            \/ \E i \in 1..n : i < j /\ x[i].of = c /\ x[i].n = x[j].n - 1
  BY DEF Follows, Before
<1>3. e.of = c => /\ e.n > b
                  /\ \A i \in 1..Len(s) : s[i].of = c => s[i].n < e.n
                  /\ \A i \in 1..n : x[i].of = c => x[i].n < e.n
                  /\ \/ e.n = b + 1
                     \/ Holds(s, c, e.n - 1)
                     \/ \E i \in 1..n : x[i].of = c /\ x[i].n = e.n - 1
  BY DEF Holds
<1> SUFFICES ASSUME NEW j \in 1..(n + 1), t[j].of = c
             PROVE  /\ t[j].n > b
                    /\ \A i \in 1..Len(s) : s[i].of = c => s[i].n < t[j].n
                    /\ \A i \in 1..(n + 1) : i < j /\ t[i].of = c => t[i].n < t[j].n
                    /\ \/ t[j].n = b + 1
                       \/ Holds(s, c, t[j].n - 1)
                       \/ \E i \in 1..(n + 1) : i < j /\ t[i].of = c /\ t[i].n = t[j].n - 1
  BY <1>1 DEF Follows, Before
<1> HIDE DEF t, n
<1>4. CASE j \in 1..n
  <2>1. t[j] = x[j] /\ j < n + 1
    BY <1>1, <1>4
  <2>2. \A i \in 1..(n + 1) : i < j => i \in 1..n
    BY <1>1, <2>1, <1>4
  <2> QED
    BY <1>1, <1>2, <1>4, <2>1, <2>2
<1>5. CASE j = n + 1
  <2>1. \A i \in 1..(n + 1) : i < j => i \in 1..n
    BY <1>1, <1>5
  <2> QED
    BY <1>1, <1>3, <1>5, <2>1
<1> QED
  BY <1>1, <1>4, <1>5

\* The first frame of a box goes to the end of the wire.
LEMMA FollowsSend ==
  ASSUME NEW x \in Seq(Frames), x # <<>>, NEW s \in Seq(Frames), NEW c, NEW b \in Nat,
         Chain(s, c, b), Follows(x, s, c, b)
  PROVE  /\ Chain(Append(s, Head(x)), c, b)
         /\ Follows(Tail(x), Append(s, Head(x)), c, b)
<1> DEFINE e == Head(x)
           t == Append(s, e)
           n == Len(s)
           y == Tail(x)
           m == Len(x)
<1>1. /\ m \in Nat \ {0} /\ Len(y) = m - 1 /\ e = x[1] /\ 1 \in 1..m /\ e \in Frames
      /\ \A i \in 1..(m - 1) : y[i] = x[i + 1] /\ i + 1 \in 1..m /\ 1 < i + 1
      /\ \A i \in 1..m : i = 1 \/ i - 1 \in 1..(m - 1)
      /\ \A i \in 1..m : x[i].n \in Nat
  BY TailAt
<1>2. /\ n \in Nat /\ Len(t) = n + 1 /\ t[n + 1] = e /\ n + 1 \in 1..(n + 1)
      /\ \A i \in 1..n : t[i] = s[i] /\ i \in 1..(n + 1)
      /\ \A i \in 1..(n + 1) : i \in 1..n \/ i = n + 1
  BY <1>1, AppendAt
<1>3. \A j \in 1..m : x[j].of = c =>
         /\ x[j].n > b
         /\ \A i \in 1..n : s[i].of = c => s[i].n < x[j].n
         /\ \A i \in 1..m : i < j /\ x[i].of = c => x[i].n < x[j].n
         /\ \/ x[j].n = b + 1
            \/ Holds(s, c, x[j].n - 1)
            \/ \E i \in 1..m : i < j /\ x[i].of = c /\ x[i].n = x[j].n - 1
  BY DEF Follows, Before
<1>4. Chain(t, c, b)
  <2>1. ~ \E i \in 1..m : i < 1
    BY <1>1
  <2>2. e.of = c => /\ e.n > b
                    /\ \A i \in 1..Len(s) : s[i].of = c => s[i].n < e.n
                    /\ e.n = b + 1 \/ Holds(s, c, e.n - 1)
    BY <1>1, <1>3, <2>1
  <2> QED
    BY <1>1, <2>2, ChainAppend
<1>5. \A k : Holds(s, c, k) => Holds(t, c, k)
  BY <1>2 DEF Holds
<1>6. e.of = c => Holds(t, c, e.n)
  BY <1>2 DEF Holds
<1>7. ASSUME NEW j \in 1..(m - 1), y[j].of = c
      PROVE  /\ y[j].n > b
             /\ \A i \in 1..(n + 1) : t[i].of = c => t[i].n < y[j].n
             /\ \A i \in 1..(m - 1) : i < j /\ y[i].of = c => y[i].n < y[j].n
             /\ \/ y[j].n = b + 1
                \/ Holds(t, c, y[j].n - 1)
                \/ \E i \in 1..(m - 1) : i < j /\ y[i].of = c /\ y[i].n = y[j].n - 1
  <2> HIDE DEF t, n, y, m, e
  <2>1. y[j] = x[j + 1] /\ j + 1 \in 1..m /\ 1 < j + 1 /\ x[j + 1].of = c
    BY <1>1, <1>7
  <2>2. y[j].n > b /\ \A i \in 1..(n + 1) : t[i].of = c => t[i].n < y[j].n
    <3>1. /\ x[j + 1].n > b
          /\ \A i \in 1..n : s[i].of = c => s[i].n < x[j + 1].n
          /\ x[1].of = c => x[1].n < x[j + 1].n
      BY <1>1, <1>3, <2>1
    <3>2. \A i \in 1..(n + 1) : (i \in 1..n /\ t[i] = s[i]) \/ t[i] = x[1]
      BY <1>1, <1>2
    <3> QED
      BY <2>1, <3>1, <3>2
  <2>3. \A i \in 1..(m - 1) : i < j /\ y[i].of = c => y[i].n < y[j].n
    <3>1. \A i \in 1..(m - 1) : i < j => i + 1 < j + 1 /\ y[i] = x[i + 1] /\ i + 1 \in 1..m
      BY <1>1
    <3> QED
      BY <1>3, <2>1, <3>1
  <2>4. ASSUME NEW i \in 1..m, i < j + 1, x[i].of = c, x[i].n = x[j + 1].n - 1
        PROVE  \/ Holds(t, c, y[j].n - 1)
               \/ \E k \in 1..(m - 1) : k < j /\ y[k].of = c /\ y[k].n = y[j].n - 1
    <3>1. CASE i = 1
      BY <1>1, <1>6, <2>1, <2>4, <3>1
    <3>2. CASE i # 1
      <4>1. i - 1 \in 1..(m - 1) /\ i - 1 < j /\ (i - 1) + 1 = i
        BY <1>1, <2>4, <3>2
      <4>2. y[i - 1] = x[i]
        BY <1>1, <4>1
      <4> QED
        BY <2>1, <2>4, <4>1, <4>2
    <3> QED
      BY <3>1, <3>2
  <2> QED
    BY <1>3, <1>5, <2>1, <2>2, <2>3, <2>4
<1>8. Follows(y, t, c, b)
  BY <1>1, <1>2, <1>7 DEF Follows, Before
<1> QED
  BY <1>4, <1>8

\* Boxes and wires without a frame of c.
LEMMA NoFrames ==
  ASSUME NEW s \in Seq(Frames), NEW c, NEW b, \A frame \in In(s) : frame.of # c
  PROVE  /\ \A i \in 1..Len(s) : s[i].of # c
         /\ Chain(s, c, b) /\ \A t : Follows(s, t, c, b)
  BY DEF In, Chain, Follows

\* A frame held is at the front or behind it, and one more does not hide it.
LEMMA HoldsTail ==
  ASSUME NEW s \in Seq(Frames), s # <<>>, NEW c, NEW k, Holds(s, c, k)
  PROVE  (Head(s).of = c /\ Head(s).n = k) \/ Holds(Tail(s), c, k)
<1>1. /\ Len(s) \in Nat \ {0} /\ Len(Tail(s)) = Len(s) - 1 /\ Head(s) = s[1]
      /\ \A i \in 1..(Len(s) - 1) : Tail(s)[i] = s[i + 1]
      /\ \A i \in 1..Len(s) : i = 1 \/ i - 1 \in 1..(Len(s) - 1)
  BY TailAt
<1>2. PICK i \in 1..Len(s) : s[i].of = c /\ s[i].n = k
  BY DEF Holds
<1>3. CASE i = 1
  BY <1>1, <1>2, <1>3
<1>4. CASE i # 1
  <2>1. i - 1 \in 1..(Len(s) - 1) /\ (i - 1) + 1 = i
    BY <1>1, <1>4
  <2>2. Tail(s)[i - 1] = s[i]
    BY <1>1, <2>1
  <2> QED
    BY <1>1, <1>2, <2>1, <2>2 DEF Holds
<1> QED
  BY <1>3, <1>4
LEMMA HoldsAppend ==
  ASSUME NEW s \in Seq(Frames), NEW e \in Frames, NEW c
  PROVE  /\ \A k : Holds(s, c, k) => Holds(Append(s, e), c, k)
         /\ e.of = c => Holds(Append(s, e), c, e.n)
<1>1. /\ Len(Append(s, e)) = Len(s) + 1 /\ Append(s, e)[Len(s) + 1] = e
      /\ \A i \in 1..Len(s) : Append(s, e)[i] = s[i] /\ i \in 1..(Len(s) + 1)
      /\ Len(s) + 1 \in 1..(Len(s) + 1)
  BY AppendAt
<1> QED
  BY <1>1 DEF Holds
LEMMA HoldsIn ==
  ASSUME NEW s, NEW c, NEW k, Holds(s, c, k)
  PROVE  \E frame \in In(s) : frame.of = c /\ frame.n = k
  BY DEF Holds, In

\* The types that the steps below use.
LEMMA Types ==
  ASSUME IInv
  PROVE  /\ call \in [Callers -> {"idle"} \cup InFlight \cup Ended] /\ reqId \in [Callers -> Nat]
         /\ registered \subseteq Callers /\ Streams \subseteq Callers
         /\ inbox \in [Callers -> Seq(Frames)] /\ received \in [Callers -> Seq(Frames)]
         /\ \A c \in Callers : call[c] \notin InFlight => c \notin registered
         /\ link \in {"up", "down"} /\ agent \in {"booting", "serving"}
         /\ toGuest \in Seq(Frames) /\ toHost \in Seq(Frames)
         /\ outbox \in Seq(Frames) /\ streamBox \in Seq(Frames)
         /\ work \in [Callers -> {"none", "running", "done", "lost"}]
         /\ emitted \in [Callers -> Nat]
         /\ \A c \in Callers : Read(c) \in Nat
<1>1. \A s \in Seq(Frames) : Len(s) \in Nat
  BY LenProperties
<1>2. \A c \in Callers : Read(c) \in Nat
  BY <1>1 DEF Read, IInv, RequestInv, BoxInv
<1> QED
  BY <1>2 DEF IInv, RequestInv, CallInv, BoxInv, WaitInv, WireInv, GuestInv, Callers

\* A frame keeps its shape while the task that made it goes on or ends.
LEMMA ShapeStays ==
  ASSUME IInv, NEW c \in Callers,
         \/ work'[c] = work[c] /\ emitted'[c] = emitted[c]
         \/ /\ work[c] = "running" /\ work'[c] \in {"running", "done", "lost"}
            /\ emitted'[c] \in {emitted[c], emitted[c] + 1}
  PROVE  \A frame \in Frames : Shape(frame, c) => Shape(frame, c)'
<1>1. emitted[c] \in Nat /\ \A frame \in Frames : frame.n \in Nat
  BY DEF IInv, GuestInv, Frames
<1> QED
  BY <1>1 DEF Shape

\* A stream that is not served yet has no frame anywhere.
LEMMA Unserved ==
  ASSUME IInv, ShapeInv, TakenInv, NEW c \in Streams, work[c] = "none"
  PROVE  /\ \A frame \in In(toHost) \cup In(outbox) \cup In(streamBox) : frame.of # c
         /\ c \in registered => Read(c) = 0
<1>1. \A frame : ~Shape(frame, c)
  BY DEF Shape
<1>2. \A frame \in In(toHost) \cup In(outbox) \cup In(streamBox) : frame.of # c
  BY <1>1 DEF ShapeInv
<1>3. ASSUME c \in registered PROVE Read(c) = 0
  <2>1. inbox[c] \in Seq(Frames) /\ received[c] \in Seq(Frames) /\ call[c] \in InFlight
    BY <1>3, Types
  <2>2. In(inbox[c]) = {}
    <3>1. \A frame \in In(inbox[c]) : frame.kind # "lost"
      BY <1>3 DEF TakenInv, In
    <3> QED
      BY <1>1, <3>1 DEF ShapeInv
  <2>3. In(received[c]) = {}
    <3>1. \A frame \in In(received[c]) : frame.kind = "data"
      BY <2>1 DEF TakenInv, In
    <3> QED
      BY <1>1, <3>1 DEF ShapeInv
  <2>4. Len(inbox[c]) = 0 /\ Len(received[c]) = 0
    BY <2>1, <2>2, <2>3, NoneIn
  <2> QED
    BY <2>4 DEF Read
<1> QED
  BY <1>2, <1>3

(***************************************************************************)
(* What a step leaves alone.                                               *)
(***************************************************************************)
LEMMA ServedStays ==
  ASSUME IInv, ServedInv, UNCHANGED <<toGuest, work, emitted>>,
         \A c \in Callers :
           /\ call'[c] \in {"idle", "queued"} => call[c] \in {"idle", "queued"}
           /\ call'[c] = "idle" => /\ call[c] = "idle"
                                   /\ inbox'[c] = inbox[c] /\ received'[c] = received[c]
  PROVE  ServedInv'
<1>1. \A frame \in In(toGuest) : frame.kind = "request" => frame.of \in Callers
  <2>1. \A frame \in In(toGuest) : frame \in Frames
    BY Types, ElementOfSeq DEF In
  <2> QED
    BY <2>1 DEF Frames
<1>2. \A frame \in In(toGuest') : frame.kind = "request" =>
        work'[frame.of] = "none" /\ call'[frame.of] \notin {"idle", "queued"}
  BY <1>1 DEF ServedInv
<1>3. \A c \in Callers :
        /\ call'[c] \in {"idle", "queued"} => work'[c] = "none"
        /\ call'[c] = "idle" => inbox'[c] = <<>> /\ received'[c] = <<>>
        /\ work'[c] = "none" => emitted'[c] = 0
  BY DEF ServedInv
<1> QED
  BY <1>2, <1>3 DEF ServedInv

\* Frames that are nowhere new keep their shape.
LEMMA ShapesStay ==
  ASSUME IInv, ShapeInv, UNCHANGED <<work, emitted>>,
         In(toHost') \subseteq In(toHost), In(outbox') \subseteq In(outbox),
         In(streamBox') \subseteq In(streamBox),
         \A c \in Streams : \A frame \in In(inbox'[c]) \cup In(received'[c]) :
           \/ frame.kind = "lost"
           \/ frame \in In(inbox[c]) \cup In(received[c])
           \/ frame.of = c /\ frame \in In(toHost)
  PROVE  ShapeInv'
<1>1. \A c \in Streams : \A frame : Shape(frame, c) => Shape(frame, c)'
  BY DEF Shape
<1> QED
  BY <1>1 DEF ShapeInv

\* Nor does the order of what is under way change.
LEMMA ChainStays ==
  ASSUME ChainInv, UNCHANGED <<link, toHost, outbox, streamBox, work, emitted>>,
         \A c \in Streams \cap registered' : c \in registered /\ Read(c)' = Read(c)
  PROVE  ChainInv'
<1> SUFFICES ASSUME NEW c \in Streams \cap registered'
             PROVE  /\ Chain(toHost', c, Read(c)')
                    /\ link' = "up" => /\ Follows(outbox', toHost', c, Read(c)')
                                      /\ Follows(streamBox', toHost', c, Read(c)')
                    /\ link' = "up" /\ work'[c] = "running" =>
                         \/ emitted'[c] = Read(c)' \/ Holds(toHost', c, emitted'[c])
                         \/ Holds(outbox', c, emitted'[c]) \/ Holds(streamBox', c, emitted'[c])
  BY DEF ChainInv
<1> QED
  BY DEF ChainInv

\* What was taken and what is to be taken.
LEMMA TakenStays ==
  ASSUME IInv, TakenInv, UNCHANGED <<inbox, received, work, emitted>>,
         \A c \in Callers : /\ c \in registered' => c \in registered \/ inbox[c] = <<>>
                            /\ call'[c] \in InFlight => call[c] \in InFlight \/ received[c] = <<>>
                            /\ call'[c] = "answered" => call[c] = "answered"
  PROVE  TakenInv'
<1> SUFFICES ASSUME NEW c \in Streams
             PROVE  /\ \A i \in 1..Len(inbox[c]) :
                         /\ inbox[c][i].kind = "lost" => i = Len(inbox[c]) /\ c \notin registered'
                         /\ inbox[c][i].kind # "lost" => inbox[c][i].n = Len(received[c]) + i
                    /\ \A i \in 1..Len(received[c]) :
                         /\ received[c][i].kind # "lost" => received[c][i].n = i
                         /\ call'[c] \in InFlight => received[c][i].kind = "data"
                    /\ call'[c] = "answered" => /\ Len(received[c]) = emitted[c]
                                               /\ work[c] \notin {"none", "running"}
  BY DEF TakenInv
<1>1. c \in Callers
  BY Types
<1>2. inbox[c] = <<>> => 1..Len(inbox[c]) = {}
  OBVIOUS
<1>3. received[c] = <<>> => 1..Len(received[c]) = {}
  OBVIOUS
<1> QED
  BY <1>1, <1>2, <1>3 DEF TakenInv

\* Nothing has been asked for yet.
LEMMA StreamIdle ==
  ASSUME \A c \in Callers : /\ call'[c] = "idle" /\ work'[c] = "none" /\ emitted'[c] = 0
                            /\ inbox'[c] = <<>> /\ received'[c] = <<>>,
         registered' = {}, Streams \subseteq Callers,
         OnlyAuth(toGuest'), OnlyAuth(toHost'), OnlyAuth(outbox'), OnlyAuth(streamBox')
  PROVE  StreamInv'
<1>1. NoCaller \notin Streams
  BY ClientAssumption DEF Callers
<1>2. 1..Len(<<>>) = {} /\ In(<<>>) = {}
  BY EmptyIn
<1>3. \A c \in Callers : call'[c] \notin InFlight /\ call'[c] # "answered"
  BY DEF InFlight
<1>4. ServedInv'
  <2>1. \A i \in 1..Len(toGuest') : toGuest'[i].kind # "request"
    BY DEF OnlyAuth, In
  <2>2. \A frame \in In(toGuest') : frame.kind # "request"
    BY DEF OnlyAuth
  <2> QED
    BY <2>1, <2>2 DEF ServedInv
<1>5. ShapeInv'
  BY <1>1, <1>2 DEF ShapeInv, OnlyAuth
<1>6. ChainInv'
  BY DEF ChainInv
<1>7. TakenInv'
  BY <1>2, <1>3 DEF TakenInv
<1> QED
  BY <1>4, <1>5, <1>6, <1>7 DEF StreamInv

LEMMA StreamInit == Init => StreamInv
<1> SUFFICES ASSUME Init PROVE StreamInv
  OBVIOUS
<1>1. /\ \A c \in Callers : /\ call[c] = "idle" /\ work[c] = "none" /\ emitted[c] = 0
                            /\ inbox[c] = <<>> /\ received[c] = <<>>
      /\ registered = {} /\ Streams \subseteq Callers
      /\ toGuest = <<>> /\ toHost = <<>> /\ outbox = <<>> /\ streamBox = <<>>
  BY DEF Init, Callers
<1>2. 1..Len(<<>>) = {} /\ In(<<>>) = {}
  BY EmptyIn
<1>3. ServedInv
  BY <1>1, <1>2 DEF ServedInv
<1>4. ShapeInv /\ ChainInv
  BY <1>1, <1>2 DEF ShapeInv, ChainInv
<1>5. TakenInv
  BY <1>1, <1>2 DEF TakenInv, InFlight
<1> QED
  BY <1>3, <1>4, <1>5 DEF StreamInv

\* Nor does anything change for a request before the host is connected.
LEMMA StreamEarly ==
  ASSUME IInv, AnswerInv, AnswerInv', StreamInv, stage \in Early, Next
  PROVE  StreamInv'
<1>1. /\ \A c \in Callers : call[c] = "idle" /\ work[c] = "none"
      /\ OnlyAuth(toGuest) /\ OnlyAuth(toHost) /\ OnlyAuth(outbox) /\ streamBox = <<>>
  BY Types DEF AnswerInv, EarlyInv, NumberInv
<1>2. \A c \in Callers : /\ emitted[c] = 0 /\ inbox[c] = <<>> /\ received[c] = <<>>
                         /\ c \notin registered
  BY <1>1, Types DEF StreamInv, ServedInv, InFlight
<1>3. registered = {}
  BY <1>2, Types
<1>4. \A c \in Callers : ~Request(c) /\ ~CallerCancelled(c) /\ ~Task(c)
  BY <1>1 DEF Request, NotConnected, Register, Write, WriteFails, Drained, Return, TakeOutput,
              Take, TimesOut, CallerCancelled, InFlight, Task, TaskAnswers, TaskOutputs,
              TaskExits, Early
<1>5. ~Reader /\ ~Close
  BY DEF Reader, ReadFrame, ReaderEnds, Close, Early
<1>6. ~ServeSpawns /\ ~ServeRefuses
  <2>1. toGuest # <<>> => Head(toGuest).kind # "request"
    BY <1>1, Types, TailIn DEF OnlyAuth
  <2> QED
    BY <2>1 DEF ServeSpawns, ServeRefuses, Reads
<1>7. UNCHANGED <<call, registered, inbox, received, emitted>>
      /\ \A c \in Callers : work'[c] = work[c]
  <2>1. CASE Connect
    BY <2>1 DEF Connect, Dial, WriteAuth, AuthTimesOut, AuthAnswered, DrainOne, DrainEnds,
           DrainTimesOut, StartReader, ConnectBreaks, GiveUp, callVars, guestVars
  <2>2. CASE Drop \/ OpenDevice \/ ServeAuth \/ WriterSends
    BY <2>2 DEF Drop, OpenDevice, ServeAuth, Reads, WriterSends, hostVars, guestVars
  <2>3. CASE AgentSeesEof \/ AgentCrashes
    BY <2>3, <1>1 DEF AgentSeesEof, AgentCrashes, AgentExits, hostVars
  <2> QED
    BY <1>4, <1>5, <1>6, <2>1, <2>2, <2>3 DEF Next, Serve
<1>8. OnlyAuth(toGuest') /\ OnlyAuth(toHost') /\ OnlyAuth(outbox') /\ OnlyAuth(streamBox')
  <2>1. CASE stage' \in Early
    BY <2>1, EmptyIn DEF AnswerInv, EarlyInv, OnlyAuth
  <2>2. CASE stage' \notin Early
    <3>1. StartReader
      <4>1. stage' # stage
        BY <2>2
      <4>2. Connect
        BY <1>4, <1>5, <1>6, <4>1
           DEF Next, Serve, Drop, OpenDevice, ServeAuth, Reads, WriterSends, AgentSeesEof,
               AgentCrashes, AgentExits, hostVars
      <4> QED
        BY <2>2, <4>2 DEF Connect, Dial, WriteAuth, AuthTimesOut, AuthAnswered, DrainOne,
             DrainEnds, DrainTimesOut, ConnectBreaks, GiveUp, Early
    <3>2. UNCHANGED <<toGuest, toHost, outbox, streamBox>>
      BY <3>1 DEF StartReader, wireVars, guestVars
    <3> QED
      BY <1>1, <3>2, EmptyIn DEF OnlyAuth
  <2> QED
    BY <2>1, <2>2
<1> QED
  BY <1>1, <1>2, <1>3, <1>7, <1>8, StreamIdle, Types

(***************************************************************************)
(* The calls.                                                              *)
(***************************************************************************)
\* Taking a frame: how many were read stays the same, and what is taken is the
\* frame numbered next.
LEMMA StreamTakes ==
  ASSUME IInv, StreamInv, NEW c \in Callers, Take(c)
  PROVE  /\ \A d \in Callers : /\ Read(d)' = Read(d)
                               /\ In(inbox'[d]) \cup In(received'[d])
                                    \subseteq In(inbox[d]) \cup In(received[d])
         /\ \A d \in Callers \ {c} : inbox'[d] = inbox[d] /\ received'[d] = received[d]
         /\ Len(inbox'[c]) = Len(inbox[c]) - 1 /\ Len(received'[c]) = Len(received[c]) + 1
         /\ \A i \in 1..Len(inbox'[c]) : inbox'[c][i] = inbox[c][i + 1] /\ i + 1 \in 1..Len(inbox[c])
         /\ \A i \in 1..Len(received'[c]) :
              \/ i \in 1..Len(received[c]) /\ received'[c][i] = received[c][i]
              \/ i = Len(received[c]) + 1 /\ received'[c][i] = Head(inbox[c])
         /\ Head(inbox[c]) = inbox[c][1] /\ 1 \in 1..Len(inbox[c])
         /\ Head(inbox[c]) \in In(inbox[c]) /\ Len(received[c]) \in Nat /\ Len(inbox[c]) \in Nat
<1>1. /\ inbox' = [inbox EXCEPT ![c] = Tail(@)] /\ inbox[c] # <<>>
      /\ received' = [received EXCEPT ![c] = Append(@, Head(inbox[c]))]
      /\ inbox \in [Callers -> Seq(Frames)] /\ received \in [Callers -> Seq(Frames)]
  BY Types DEF Take
<1>2. /\ inbox'[c] = Tail(inbox[c]) /\ received'[c] = Append(received[c], Head(inbox[c]))
      /\ \A d \in Callers \ {c} : inbox'[d] = inbox[d] /\ received'[d] = received[d]
      /\ inbox[c] \in Seq(Frames) /\ received[c] \in Seq(Frames)
  BY <1>1
<1>3. /\ Head(inbox[c]) \in In(inbox[c]) /\ In(inbox'[c]) \subseteq In(inbox[c])
      /\ Head(inbox[c]) \in Frames
  BY <1>1, <1>2, TailIn
<1>4. In(received'[c]) = In(received[c]) \cup {Head(inbox[c])}
  BY <1>2, <1>3, AppendIn
<1>5. /\ Len(inbox[c]) \in Nat /\ Len(inbox'[c]) = Len(inbox[c]) - 1
      /\ Head(inbox[c]) = inbox[c][1] /\ 1 \in 1..Len(inbox[c])
      /\ \A i \in 1..(Len(inbox[c]) - 1) :
           inbox'[c][i] = inbox[c][i + 1] /\ i + 1 \in 1..Len(inbox[c])
  BY <1>1, <1>2, TailAt
<1>6. /\ Len(received[c]) \in Nat /\ Len(received'[c]) = Len(received[c]) + 1
      /\ received'[c][Len(received[c]) + 1] = Head(inbox[c])
      /\ \A i \in 1..Len(received[c]) : received'[c][i] = received[c][i]
      /\ \A i \in 1..(Len(received[c]) + 1) : i \in 1..Len(received[c]) \/ i = Len(received[c]) + 1
  BY <1>2, <1>3, AppendAt
<1>7. \A d \in Callers : /\ Read(d)' = Read(d)
                         /\ In(inbox'[d]) \cup In(received'[d])
                              \subseteq In(inbox[d]) \cup In(received[d])
  <2>1. Read(c)' = Read(c)
    <3>1. Read(c)' = Len(received'[c]) + Len(inbox'[c]) /\ Read(c) = Len(received[c]) + Len(inbox[c])
      BY DEF Read
    <3>2. /\ Len(received[c]) \in Nat /\ Len(inbox[c]) \in Nat
          /\ Len(received'[c]) = Len(received[c]) + 1 /\ Len(inbox'[c]) = Len(inbox[c]) - 1
      BY <1>5, <1>6
    <3>3. \A n, m \in Nat : (n + 1) + (m - 1) = n + m
      OBVIOUS
    <3> QED
      BY <3>1, <3>2, <3>3
  <2>2. \A d \in Callers \ {c} : Read(d)' = Read(d)
    BY <1>2 DEF Read
  <2> QED
    BY <1>2, <1>3, <1>4, <2>1, <2>2
<1> QED
  BY <1>2, <1>3, <1>5, <1>6, <1>7

\* What comes out of a stream's queue is output, or the frame that ends it: with
\* a result, all that the task has produced has come out.
LEMMA TakenTakes ==
  ASSUME IInv, StreamInv, NEW c \in Callers, Return(c) \/ TakeOutput(c)
  PROVE  TakenInv'
<1>1. /\ Take(c) /\ UNCHANGED <<work, emitted>> /\ registered' \subseteq registered
      /\ call[c] \in InFlight
      /\ \A d \in Callers \ {c} : call'[d] = call[d]
  BY Types DEF Return, TakeOutput, EndCall, Take, guestVars, InFlight
<1>2. TakenInv /\ ShapeInv
  BY DEF StreamInv
<1>3. ASSUME NEW d \in Streams, d # c
      PROVE  /\ \A i \in 1..Len(inbox'[d]) :
                  /\ inbox'[d][i].kind = "lost" => i = Len(inbox'[d]) /\ d \notin registered'
                  /\ inbox'[d][i].kind # "lost" => inbox'[d][i].n = Len(received'[d]) + i
             /\ \A i \in 1..Len(received'[d]) :
                  /\ received'[d][i].kind # "lost" => received'[d][i].n = i
                  /\ call'[d] \in InFlight => received'[d][i].kind = "data"
             /\ call'[d] = "answered" => /\ Len(received'[d]) = emitted'[d]
                                         /\ work'[d] \notin {"none", "running"}
  <2>1. inbox'[d] = inbox[d] /\ received'[d] = received[d] /\ call'[d] = call[d]
    BY <1>1, <1>3, StreamTakes, Types
  <2> QED
    BY <1>1, <1>2, <1>3, <2>1 DEF TakenInv
<1>4. ASSUME c \in Streams
      PROVE  /\ \A i \in 1..Len(inbox'[c]) :
                  /\ inbox'[c][i].kind = "lost" => i = Len(inbox'[c]) /\ c \notin registered'
                  /\ inbox'[c][i].kind # "lost" => inbox'[c][i].n = Len(received'[c]) + i
             /\ \A i \in 1..Len(received'[c]) :
                  /\ received'[c][i].kind # "lost" => received'[c][i].n = i
                  /\ call'[c] \in InFlight => received'[c][i].kind = "data"
             /\ call'[c] = "answered" => /\ Len(received'[c]) = emitted'[c]
                                         /\ work'[c] \notin {"none", "running"}
  <2> DEFINE n == Len(received[c])
             m == Len(inbox[c])
             first == Head(inbox[c])
  <2>1. /\ Len(inbox'[c]) = m - 1 /\ Len(received'[c]) = n + 1 /\ n \in Nat /\ m \in Nat
        /\ \A i \in 1..Len(inbox'[c]) : inbox'[c][i] = inbox[c][i + 1] /\ i + 1 \in 1..m
        /\ \A i \in 1..Len(received'[c]) :
             \/ i \in 1..n /\ received'[c][i] = received[c][i]
             \/ i = n + 1 /\ received'[c][i] = first
        /\ first = inbox[c][1] /\ 1 \in 1..m /\ first \in In(inbox[c])
    BY <1>1, StreamTakes
  <2>2. /\ \A i \in 1..m :
             /\ inbox[c][i].kind = "lost" => i = m /\ c \notin registered
             /\ inbox[c][i].kind # "lost" => inbox[c][i].n = n + i
        /\ \A i \in 1..n : /\ received[c][i].kind # "lost" => received[c][i].n = i
                           /\ received[c][i].kind = "data"
    BY <1>1, <1>2, <1>4 DEF TakenInv
  <2>3. first.kind # "lost" => first.n = n + 1 /\ Shape(first, c)
    BY <1>2, <1>4, <2>1, <2>2 DEF ShapeInv
  <2> HIDE DEF n, m, first
  <2>4. \A i \in 1..Len(inbox'[c]) :
          /\ inbox'[c][i].kind = "lost" => i = Len(inbox'[c]) /\ c \notin registered'
          /\ inbox'[c][i].kind # "lost" => inbox'[c][i].n = Len(received'[c]) + i
    <3> SUFFICES ASSUME NEW i \in 1..Len(inbox'[c])
                 PROVE  /\ inbox'[c][i].kind = "lost" => i = m - 1 /\ c \notin registered'
                        /\ inbox'[c][i].kind # "lost" => inbox'[c][i].n = (n + 1) + i
      BY <2>1
    <3>1. inbox'[c][i] = inbox[c][i + 1] /\ i + 1 \in 1..m /\ i \in Nat
      BY <2>1
    <3>2. inbox[c][i + 1].kind = "lost" => i + 1 = m /\ c \notin registered
      BY <2>2, <3>1
    <3>3. inbox[c][i + 1].kind # "lost" => inbox[c][i + 1].n = n + (i + 1)
      BY <2>2, <3>1
    <3> QED
      BY <1>1, <2>1, <3>1, <3>2, <3>3
  <2>5. \A i \in 1..Len(received'[c]) : received'[c][i].kind # "lost" => received'[c][i].n = i
    BY <2>1, <2>2, <2>3
  <2>6. call'[c] \in InFlight => first.kind = "data"
    <3>1. CASE Return(c)
      <4>1. call'[c] = Verdict(first) /\ Verdict(first) \in Ended
        BY <3>1, Types DEF Return, EndCall, Verdict, Ended, first
      <4> QED
        BY <4>1 DEF InFlight, Ended
    <3>2. CASE TakeOutput(c)
      <4>1. first.kind \notin {"exit", "error", "lost"}
        BY <3>2 DEF TakeOutput, first
      <4> QED
        BY <2>3, <4>1 DEF Shape
    <3> QED
      BY <3>1, <3>2
  <2>7. call'[c] = "answered" => /\ n + 1 = emitted[c]
                                 /\ work[c] \notin {"none", "running"}
    <3> SUFFICES ASSUME call'[c] = "answered" PROVE n + 1 = emitted[c] /\ work[c] \notin {"none", "running"}
      OBVIOUS
    <3>1. Return(c)
      BY <1>1, Types DEF TakeOutput, InFlight
    <3>2. first.kind = "exit"
      <4>1. call'[c] = Verdict(first)
        BY <3>1, Types DEF Return, EndCall, first
      <4>2. c \notin Calls
        BY <1>4, ClientAssumption
      <4> QED
        BY <3>1, <4>1, <4>2 DEF Return, Verdict, first
    <3>3. first.n = n + 1 /\ Shape(first, c)
      BY <2>3, <3>2
    <3>4. ~(work[c] = "done" /\ emitted[c] = 0 /\ first.n = 2)
      <4> SUFFICES ASSUME work[c] = "done", emitted[c] = 0, first.n = 2 PROVE FALSE
        OBVIOUS
      <4>1. n = 1 /\ 1 \in 1..n
        BY <2>1, <3>3
      <4>2. received[c][1].kind = "data" /\ received[c][1] \in In(received[c])
        BY <2>2, <4>1 DEF In, n
      <4>3. Shape(received[c][1], c)
        BY <1>2, <1>4, <4>2 DEF ShapeInv
      <4> QED
        BY <4>2, <4>3 DEF Shape
    <3>5. first.n = emitted[c] /\ work[c] \notin {"none", "running"}
      BY <3>2, <3>3, <3>4 DEF Shape
    <3> QED
      BY <3>3, <3>5
  <2>8. ASSUME NEW i \in 1..Len(received'[c]), call'[c] \in InFlight
        PROVE  received'[c][i].kind = "data"
    BY <2>1, <2>2, <2>6, <2>8
  <2>9. call'[c] = "answered" => /\ Len(received'[c]) = emitted'[c]
                                 /\ work'[c] \notin {"none", "running"}
    BY <1>1, <2>1, <2>7
  <2> QED
    BY <2>4, <2>5, <2>8, <2>9
<1> QED
  BY <1>3, <1>4 DEF TakenInv

\* A request that returns, times out or takes its output; one that registers has
\* no frame yet.
LEMMA StreamCalls ==
  ASSUME IInv, IInv', StreamInv, NEW c \in Callers,
         \/ NotConnected(c) \/ Register(c) \/ WriteFails(c) \/ Drained(c) \/ Return(c)
         \/ TakeOutput(c) \/ TimesOut(c) \/ CallerCancelled(c)
  PROVE  StreamInv'
<1>1. /\ UNCHANGED wireVars /\ UNCHANGED guestVars
      /\ \A d \in Callers \ {c} : call'[d] = call[d]
      /\ registered' \subseteq registered \cup {c} /\ (c \in registered' => c \in registered \/ Register(c))
  BY Types DEF NotConnected, Register, WriteFails, Drained, Return, TakeOutput, Take, TimesOut,
               CallerCancelled, EndCall
<1>2. UNCHANGED <<link, toGuest, toHost, work, emitted, outbox, streamBox>>
  BY <1>1 DEF wireVars, guestVars
<1>3. ServedInv /\ ShapeInv /\ ChainInv /\ TakenInv
  BY DEF StreamInv
<1>4. \/ Take(c) /\ (Return(c) \/ TakeOutput(c))
      \/ UNCHANGED <<inbox, received>> /\ ~Return(c) /\ ~TakeOutput(c)
  BY DEF NotConnected, Register, WriteFails, Drained, Return, TakeOutput, TimesOut,
         CallerCancelled, Take
<1>5. \A d \in Callers : /\ Read(d)' = Read(d)
                         /\ In(inbox'[d]) \cup In(received'[d])
                              \subseteq In(inbox[d]) \cup In(received[d])
  <2>1. CASE Take(c)
    BY <2>1, StreamTakes
  <2>2. CASE UNCHANGED <<inbox, received>>
    BY <2>2 DEF Read
  <2> QED
    BY <1>4, <2>1, <2>2
<1>6. /\ call'[c] = "idle" => call[c] = "idle" /\ UNCHANGED <<inbox, received>>
      /\ call'[c] = "queued" => call[c] \in {"idle", "queued"}
      /\ Register(c) => call[c] = "idle"
      /\ ~Register(c) /\ call'[c] \in InFlight => call[c] \in InFlight
      /\ call'[c] = "answered" => Return(c)
  <2>1. CASE Register(c) \/ Drained(c)
    BY <2>1, Types DEF Register, Drained, InFlight
  <2>2. CASE TakeOutput(c)
    BY <2>2, Types DEF TakeOutput, Take, InFlight, Register
  <2>3. CASE Return(c)
    <3>1. call'[c] \in Ended
      BY <2>3, Types DEF Return, EndCall, Verdict, Ended
    <3> QED
      BY <2>3, <3>1 DEF Ended, InFlight, Return, Take, Register
  <2>4. CASE NotConnected(c) \/ WriteFails(c) \/ TimesOut(c) \/ CallerCancelled(c)
    BY <2>4, Types DEF NotConnected, WriteFails, TimesOut, CallerCancelled, EndCall, InFlight,
                      Register
  <2> QED
    BY <2>1, <2>2, <2>3, <2>4
<1>7. ServedInv'
  <2>1. \A d \in Callers :
          /\ call'[d] \in {"idle", "queued"} => call[d] \in {"idle", "queued"}
          /\ call'[d] = "idle" => /\ call[d] = "idle"
                                  /\ inbox'[d] = inbox[d] /\ received'[d] = received[d]
    <3>1. \A d \in Callers \ {c} : inbox'[d] = inbox[d] /\ received'[d] = received[d]
      BY <1>4, StreamTakes
    <3> QED
      BY <1>1, <1>6, <3>1
  <2> QED
    BY <1>2, <1>3, <2>1, ServedStays
<1>8. ShapeInv'
  <2>1. \A d \in Streams : \A frame \in In(inbox'[d]) \cup In(received'[d]) :
          frame \in In(inbox[d]) \cup In(received[d])
    BY <1>5, Types
  <2> QED
    BY <1>2, <1>3, <2>1, ShapesStay
<1>9. ChainInv'
  <2>1. CASE Register(c)
    <3>1. \A d \in Streams \cap registered' : d # c => d \in registered /\ Read(d)' = Read(d)
      BY <1>1, <1>5, Types
    <3>2. work[c] = "none" /\ inbox[c] = <<>> /\ received[c] = <<>>
      BY <1>3, <1>6, <2>1 DEF ServedInv
    <3>3. Read(c)' = 0 /\ Read(c) = 0
      <4>1. Read(c) = Len(received[c]) + Len(inbox[c]) /\ Read(c)' = Read(c)
        BY <1>5 DEF Read
      <4> QED
        BY <3>2, <4>1, EmptyIn
    <3>4. c \in Streams => \A frame \in In(toHost) \cup In(outbox) \cup In(streamBox) : frame.of # c
      BY <1>3, <3>2, Unserved
    <3>5. c \in Streams => /\ Chain(toHost, c, 0) /\ Follows(outbox, toHost, c, 0)
                           /\ Follows(streamBox, toHost, c, 0)
      BY <3>4, Types, NoFrames
    <3> SUFFICES ASSUME NEW d \in Streams \cap registered'
                 PROVE  /\ Chain(toHost', d, Read(d)')
                        /\ link' = "up" => /\ Follows(outbox', toHost', d, Read(d)')
                                           /\ Follows(streamBox', toHost', d, Read(d)')
                        /\ link' = "up" /\ work'[d] = "running" =>
                             \/ emitted'[d] = Read(d)' \/ Holds(toHost', d, emitted'[d])
                             \/ Holds(outbox', d, emitted'[d]) \/ Holds(streamBox', d, emitted'[d])
      BY DEF ChainInv
    <3>6. CASE d = c
      BY <1>2, <3>2, <3>3, <3>5, <3>6
    <3>7. CASE d # c
      BY <1>2, <1>3, <3>1, <3>7 DEF ChainInv
    <3> QED
      BY <3>6, <3>7
  <2>2. CASE ~Register(c)
    <3>1. \A d \in Streams \cap registered' : d \in registered /\ Read(d)' = Read(d)
      BY <1>1, <1>5, <2>2, Types
    <3> QED
      BY <1>2, <1>3, <3>1, ChainStays
  <2> QED
    BY <2>1, <2>2
<1>10. TakenInv'
  <2>1. CASE Return(c) \/ TakeOutput(c)
    BY <2>1, TakenTakes
  <2>2. CASE UNCHANGED <<inbox, received>> /\ ~Return(c) /\ ~TakeOutput(c)
    <3>1. \A d \in Callers : /\ d \in registered' => d \in registered \/ inbox[d] = <<>>
                             /\ call'[d] \in InFlight => call[d] \in InFlight \/ received[d] = <<>>
                             /\ call'[d] = "answered" => call[d] = "answered"
      BY <1>1, <1>3, <1>6, <2>2 DEF ServedInv
    <3> QED
      BY <1>2, <1>3, <2>2, <3>1, TakenStays
  <2> QED
    BY <1>4, <2>1, <2>2
<1> QED
  BY <1>7, <1>8, <1>9, <1>10 DEF StreamInv

\* The request itself is written, and not before it is numbered.
LEMMA StreamWrite == ASSUME IInv, StreamInv, NEW c \in Callers, Write(c) PROVE StreamInv'
<1>1. /\ UNCHANGED <<registered, inbox, received, link, toHost>> /\ UNCHANGED guestVars
      /\ call' = [call EXCEPT ![c] = "writing"] /\ call[c] = "queued"
  BY DEF Write
<1>2. UNCHANGED <<work, emitted, outbox, streamBox>>
  BY <1>1 DEF guestVars
<1>3. ServedInv /\ ShapeInv /\ ChainInv /\ TakenInv
  BY DEF StreamInv
<1>4. \A d \in Callers : /\ call'[d] \in {"idle", "queued"} => call'[d] = call[d]
                         /\ call'[d] \in InFlight => call[d] \in InFlight
                         /\ call'[d] = "answered" => call[d] = "answered"
                         /\ call[d] \notin {"idle", "queued"} => call'[d] \notin {"idle", "queued"}
  BY <1>1, Types DEF InFlight
<1>5. ServedInv'
  <2> DEFINE frame == Frame(reqId[c], "request", c, 0)
             n == Len(toGuest)
  <2>1. CASE link # "up"
    <3>1. toGuest' = toGuest
      BY <2>1 DEF Write
    <3> QED
      BY <1>1, <1>2, <1>3, <1>4, <3>1, ServedStays
  <2>2. CASE link = "up"
    <3>1. toGuest' = Append(toGuest, frame)
      BY <2>2 DEF Write
    <3>2. frame \in Frames /\ frame.kind = "request" /\ frame.of = c
      <4>1. frame \in Frames
        BY Types, MadeFrames DEF FrameKinds
      <4> QED
        BY <4>1 DEF Frame
    <3> HIDE DEF frame
    <3>3. /\ Len(toGuest') = n + 1 /\ toGuest'[n + 1] = frame
          /\ \A i \in 1..n : toGuest'[i] = toGuest[i]
          /\ \A i \in 1..(n + 1) : i \in 1..n \/ i = n + 1
      BY <3>1, <3>2, Types, AppendAt
    <3>4. In(toGuest') = In(toGuest) \cup {frame}
      BY <3>1, <3>2, Types, AppendIn
    <3>5. \A f \in In(toGuest) : f.kind = "request" => f.of # c /\ work[f.of] = "none"
                                                      /\ call[f.of] \notin {"idle", "queued"}
      BY <1>1, <1>3 DEF ServedInv
    <3>6. \A f \in In(toGuest) : f.kind = "request" => f.of \in Callers
      <4>1. \A f \in In(toGuest) : f \in Frames
        BY Types, ElementOfSeq DEF In
      <4> QED
        BY <4>1 DEF Frames
    <3>7. \A f \in In(toGuest') : f.kind = "request" =>
            work'[f.of] = "none" /\ call'[f.of] \notin {"idle", "queued"}
      <4>1. work[c] = "none" /\ call'[c] \notin {"idle", "queued"}
        BY <1>1, <1>3, Types DEF ServedInv
      <4> QED
        BY <1>2, <1>4, <3>2, <3>4, <3>5, <3>6, <4>1
    <3>8. \A i \in 1..n : toGuest[i] \in In(toGuest)
      BY DEF In
    <3> HIDE DEF n
    <3>9. \A i, j \in 1..(n + 1) :
            /\ toGuest'[i].kind = "request" /\ toGuest'[j].kind = "request"
            /\ toGuest'[i].of = toGuest'[j].of
            => i = j
      <4>1. \A i, j \in 1..n :
              /\ toGuest'[i].kind = "request" /\ toGuest'[j].kind = "request"
              /\ toGuest'[i].of = toGuest'[j].of
              => i = j
        BY <1>3, <3>3 DEF ServedInv, n
      <4>2. \A i \in 1..n : toGuest'[i].kind = "request" => toGuest'[i].of # c
        BY <3>3, <3>5, <3>8
      <4> QED
        BY <3>2, <3>3, <4>1, <4>2
    <3>10. \A d \in Callers :
             /\ call'[d] \in {"idle", "queued"} => work'[d] = "none"
             /\ call'[d] = "idle" => inbox'[d] = <<>> /\ received'[d] = <<>>
             /\ work'[d] = "none" => emitted'[d] = 0
      BY <1>1, <1>2, <1>3, <1>4 DEF ServedInv
    <3> QED
      BY <3>3, <3>7, <3>9, <3>10 DEF ServedInv
  <2> QED
    BY <2>1, <2>2
<1>6. ShapeInv'
  BY <1>1, <1>2, <1>3, ShapesStay
<1>7. ChainInv'
  BY <1>1, <1>2, <1>3, ChainStays DEF Read
<1>8. TakenInv'
  BY <1>1, <1>2, <1>3, <1>4, TakenStays
<1> QED
  BY <1>5, <1>6, <1>7, <1>8 DEF StreamInv

(***************************************************************************)
(* The reader: the frame it takes off the wire is the next one of the      *)
(* request that waits for it.                                              *)
(***************************************************************************)
LEMMA StreamReads ==
  ASSUME IInv, AnswerInv, StreamInv, stage \notin Early, ReadFrame
  PROVE  StreamInv'
<1>1. /\ toHost # <<>> /\ toHost' = Tail(toHost)
      /\ UNCHANGED <<reqId, call, received, link, toGuest>> /\ UNCHANGED guestVars
  BY DEF ReadFrame
<1>2. PICK frame : frame = Head(toHost)
  OBVIOUS
<1>3. /\ inbox' = [c \in Callers |-> IF c \in Waiters(frame) THEN Append(inbox[c], frame)
                                                            ELSE inbox[c]]
      /\ registered' = registered \ (Waiters(frame) \cap Calls)
  BY <1>2 DEF ReadFrame
<1>4. /\ frame \in Frames /\ frame \in In(toHost) /\ In(toHost') \subseteq In(toHost)
  BY <1>1, <1>2, TailIn, Types
<1>5. /\ frame.of \in Callers
      /\ \A c \in Callers : c \in Waiters(frame) <=> c \in registered /\ frame.of = c
  <2>1. frame.of \in Callers /\ frame.id = reqId[frame.of] /\ reqId[frame.of] # 0
    BY <1>4 DEF AnswerInv, LateInv, AreGenuine, Genuine
  <2> QED
    BY <2>1, Types DEF AnswerInv, NumberInv, Waiters
<1>6. UNCHANGED <<work, emitted, outbox, streamBox>>
  BY <1>1 DEF guestVars
<1>7. ServedInv /\ ShapeInv /\ ChainInv /\ TakenInv
  BY DEF StreamInv
<1>8. ASSUME NEW c \in Streams
      PROVE  /\ c \in registered' <=> c \in registered
             /\ \/ /\ c \in registered /\ frame.of = c /\ inbox'[c] = Append(inbox[c], frame)
                   /\ Read(c)' = Read(c) + 1 /\ frame.n = Read(c) + 1 /\ frame.kind # "lost"
                   /\ Shape(frame, c)
                \/ /\ c \notin registered \/ frame.of # c
                   /\ inbox'[c] = inbox[c] /\ Read(c)' = Read(c)
  <2>1. c \in Callers /\ c \notin Calls
    BY ClientAssumption DEF Callers
  <2>2. c \in registered' <=> c \in registered
    BY <1>3, <2>1
  <2>3. CASE c \in registered /\ frame.of = c
    <3>1. inbox'[c] = Append(inbox[c], frame)
      BY <1>3, <1>5, <2>1, <2>3
    <3>2. Len(inbox[c]) \in Nat /\ Len(inbox'[c]) = Len(inbox[c]) + 1 /\ Len(received[c]) \in Nat
      BY <1>4, <2>1, <3>1, Types, AppendAt, LenProperties
    <3>3. Read(c)' = Read(c) + 1
      <4>1. Read(c)' = Len(received[c]) + Len(inbox'[c]) /\ Read(c) = Len(received[c]) + Len(inbox[c])
        BY <1>1 DEF Read
      <4>2. \A n, m \in Nat : n + (m + 1) = (n + m) + 1
        OBVIOUS
      <4> QED
        BY <3>2, <4>1, <4>2
    <3>4. Chain(toHost, c, Read(c)) /\ Read(c) \in Nat
      BY <1>7, <2>1, <2>3, Types DEF ChainInv
    <3>5. frame.n = Read(c) + 1
      BY <1>1, <1>2, <2>3, <3>4, Types, ChainTail
    <3>6. Shape(frame, c)
      BY <1>4, <1>7, <2>3 DEF ShapeInv
    <3>7. frame.kind # "lost"
      BY <3>6 DEF Shape
    <3> QED
      BY <2>2, <2>3, <3>1, <3>3, <3>5, <3>6, <3>7
  <2>4. CASE c \notin registered \/ frame.of # c
    <3>1. inbox'[c] = inbox[c]
      BY <1>3, <1>5, <2>1, <2>4
    <3>2. Read(c)' = Read(c)
      BY <1>1, <3>1 DEF Read
    <3> QED
      BY <2>2, <2>4, <3>1, <3>2
  <2> QED
    BY <2>3, <2>4
<1>9. ServedInv'
  <2>1. \A c \in Callers : call[c] = "idle" => inbox'[c] = inbox[c]
    <3>1. "idle" \notin InFlight
      BY DEF InFlight
    <3> QED
      BY <1>3, <1>5, <3>1, Types
  <2> QED
    BY <1>1, <1>6, <1>7, <2>1, ServedStays
<1>10. ShapeInv'
  <2>1. \A c \in Streams : \A f \in In(inbox'[c]) \cup In(received'[c]) :
          \/ f \in In(inbox[c]) \cup In(received[c])
          \/ f.of = c /\ f \in In(toHost)
    <3> SUFFICES ASSUME NEW c \in Streams
                 PROVE  \/ In(inbox'[c]) \subseteq In(inbox[c])
                        \/ frame.of = c /\ In(inbox'[c]) = In(inbox[c]) \cup {frame}
      BY <1>1, <1>4
    <3>1. c \in Callers /\ inbox[c] \in Seq(Frames)
      BY Types
    <3>2. CASE c \in registered /\ frame.of = c
      <4>1. inbox'[c] = Append(inbox[c], frame)
        BY <1>8, <3>2
      <4> QED
        BY <1>4, <3>1, <3>2, <4>1, AppendIn
    <3>3. CASE c \notin registered \/ frame.of # c
      <4>1. inbox'[c] = inbox[c]
        BY <1>8, <3>3
      <4>2. In(inbox'[c]) = In(inbox[c])
        BY <4>1
      <4> QED
        BY <4>2
    <3> QED
      BY <3>2, <3>3
  <2> QED
    BY <1>4, <1>6, <1>7, <2>1, ShapesStay
<1>11. ChainInv'
  <2> SUFFICES ASSUME NEW c \in Streams \cap registered'
               PROVE  /\ Chain(toHost', c, Read(c)')
                      /\ link' = "up" => /\ Follows(outbox', toHost', c, Read(c)')
                                         /\ Follows(streamBox', toHost', c, Read(c)')
                      /\ link' = "up" /\ work'[c] = "running" =>
                           \/ emitted'[c] = Read(c)' \/ Holds(toHost', c, emitted'[c])
                           \/ Holds(outbox', c, emitted'[c]) \/ Holds(streamBox', c, emitted'[c])
    BY DEF ChainInv
  <2>1. /\ c \in registered /\ Read(c) \in Nat /\ Chain(toHost, c, Read(c))
        /\ link = "up" => Follows(outbox, toHost, c, Read(c)) /\ Follows(streamBox, toHost, c, Read(c))
        /\ link = "up" /\ work[c] = "running" =>
             \/ emitted[c] = Read(c) \/ Holds(toHost, c, emitted[c])
             \/ Holds(outbox, c, emitted[c]) \/ Holds(streamBox, c, emitted[c])
    BY <1>7, <1>8, Types DEF ChainInv
  <2>2. CASE frame.of = c
    <3>1. Read(c)' = Read(c) + 1 /\ frame.n = Read(c) + 1 /\ Shape(frame, c)
      BY <1>8, <2>1, <2>2
    <3>2. Chain(toHost', c, Read(c) + 1)
      BY <1>1, <1>2, <2>1, <2>2, Types, ChainTail
    <3>3. link = "up" => /\ Follows(outbox, toHost', c, Read(c) + 1)
                         /\ Follows(streamBox, toHost', c, Read(c) + 1)
      BY <1>1, <1>2, <2>1, <2>2, Types, FollowsTail
    <3>4. work[c] = "running" => emitted[c] # Read(c)
      <4>1. work[c] = "running" => frame.n \in 1..emitted[c]
        BY <3>1 DEF Shape
      <4> QED
        BY <2>1, <3>1, <4>1, Types
    <3>5. Holds(toHost, c, emitted[c]) => emitted[c] = Read(c) + 1 \/ Holds(toHost', c, emitted[c])
      BY <1>1, <1>2, <3>1, Types, HoldsTail
    <3> QED
      BY <1>1, <1>6, <2>1, <3>1, <3>2, <3>3, <3>4, <3>5
  <2>3. CASE frame.of # c
    <3>1. Read(c)' = Read(c)
      BY <1>8, <2>3
    <3>2. Chain(toHost', c, Read(c))
      BY <1>1, <1>2, <2>1, <2>3, Types, ChainTail
    <3>3. link = "up" => /\ Follows(outbox, toHost', c, Read(c))
                         /\ Follows(streamBox, toHost', c, Read(c))
      BY <1>1, <1>2, <2>1, <2>3, Types, FollowsTail
    <3>4. Holds(toHost, c, emitted[c]) => Holds(toHost', c, emitted[c])
      BY <1>1, <1>2, <2>3, Types, HoldsTail
    <3> QED
      BY <1>1, <1>6, <2>1, <3>1, <3>2, <3>3, <3>4
  <2> QED
    BY <2>2, <2>3
<1>12. TakenInv'
  <2> SUFFICES ASSUME NEW c \in Streams
               PROVE  /\ \A i \in 1..Len(inbox'[c]) :
                           /\ inbox'[c][i].kind = "lost" => i = Len(inbox'[c]) /\ c \notin registered'
                           /\ inbox'[c][i].kind # "lost" => inbox'[c][i].n = Len(received[c]) + i
                      /\ \A i \in 1..Len(received[c]) :
                           /\ received[c][i].kind # "lost" => received[c][i].n = i
                           /\ call[c] \in InFlight => received[c][i].kind = "data"
                      /\ call[c] = "answered" => /\ Len(received[c]) = emitted[c]
                                                 /\ work[c] \notin {"none", "running"}
    BY <1>1, <1>6 DEF TakenInv
  <2>1. \A i \in 1..Len(inbox[c]) :
          /\ inbox[c][i].kind = "lost" => i = Len(inbox[c]) /\ c \notin registered
          /\ inbox[c][i].kind # "lost" => inbox[c][i].n = Len(received[c]) + i
    BY <1>7 DEF TakenInv
  <2>2. ASSUME c \in registered, frame.of = c
        PROVE  \A i \in 1..Len(inbox'[c]) :
                 /\ inbox'[c][i].kind = "lost" => i = Len(inbox'[c]) /\ c \notin registered'
                 /\ inbox'[c][i].kind # "lost" => inbox'[c][i].n = Len(received[c]) + i
    <3>1. inbox'[c] = Append(inbox[c], frame) /\ frame.kind # "lost" /\ frame.n = Read(c) + 1
      BY <1>8, <2>2
    <3> DEFINE n == Len(inbox[c])
               m == Len(received[c])
    <3>2. /\ n \in Nat /\ Len(inbox'[c]) = n + 1 /\ inbox'[c][n + 1] = frame
          /\ \A i \in 1..n : inbox'[c][i] = inbox[c][i]
          /\ \A i \in 1..(n + 1) : i \in 1..n \/ i = n + 1
      <4>1. c \in Callers /\ inbox[c] \in Seq(Frames)
        BY Types
      <4> QED
        BY <1>4, <3>1, <4>1, AppendAt
    <3>3. m \in Nat
      BY Types, LenProperties
    <3>4. frame.n = m + (n + 1)
      <4>1. Read(c) = m + n
        BY DEF Read
      <4> HIDE DEF n, m
      <4> QED
        BY <3>1, <3>2, <3>3, <4>1
    <3>5. \A i \in 1..n : inbox[c][i].kind # "lost" /\ inbox[c][i].n = m + i
      BY <2>1, <2>2
    <3> HIDE DEF n, m
    <3>6. \A i \in 1..(n + 1) : inbox'[c][i].kind # "lost" /\ inbox'[c][i].n = m + i
      BY <3>1, <3>2, <3>4, <3>5
    <3> QED
      BY <3>2, <3>6 DEF m
  <2> QED
    BY <1>7, <1>8, <2>1, <2>2 DEF TakenInv
<1> QED
  BY <1>9, <1>10, <1>11, <1>12 DEF StreamInv

\* The reader ends: whoever is registered is told that the connection is lost; a
\* close() after that tells nobody.
LEMMA StreamTells ==
  ASSUME IInv, StreamInv, ReaderEnds \/ Close
  PROVE  StreamInv'
<1>1. PICK told \in {registered, {}} :
        /\ inbox' = [c \in Callers |-> IF c \in told THEN Append(inbox[c], Lost(c))
                                                     ELSE inbox[c]]
        /\ registered' = registered \ told /\ UNCHANGED <<reqId, call, received>>
        /\ UNCHANGED guestVars
        /\ \/ UNCHANGED <<toGuest, toHost>>
           \/ toGuest' = <<>> /\ toHost' = <<>>
        /\ told = registered \/ (inbox' = inbox /\ toHost' = <<>> /\ link' = "down")
  <2>1. inbox \in [Callers -> Seq(Frames)]
    BY Types
  <2>2. CASE ReaderEnds \/ (Close /\ stage = "connected")
    <3>1. /\ inbox' = [c \in Callers |-> IF c \in registered THEN Append(inbox[c], Lost(c))
                                                            ELSE inbox[c]]
          /\ registered' = registered \ registered
      BY <2>2 DEF ReaderEnds, Close, FailPending
    <3>2. /\ UNCHANGED <<reqId, call, received>> /\ UNCHANGED guestVars
          /\ UNCHANGED <<toGuest, toHost>> \/ (toGuest' = <<>> /\ toHost' = <<>>)
      BY <2>2 DEF ReaderEnds, Close, wireVars
    <3> QED
      BY <3>1, <3>2
  <2>3. CASE Close /\ stage = "lost"
    <3>1. inbox' = inbox /\ registered' = registered \ {}
      BY <2>3 DEF Close
    <3>2. inbox' = [c \in Callers |-> IF c \in {} THEN Append(inbox[c], Lost(c)) ELSE inbox[c]]
      BY <2>1, <3>1
    <3>3. /\ UNCHANGED <<reqId, call, received>> /\ UNCHANGED guestVars
          /\ toGuest' = <<>> /\ toHost' = <<>> /\ link' = "down"
      BY <2>3 DEF Close
    <3> QED
      BY <3>1, <3>2, <3>3
  <2> QED
    BY <2>2, <2>3 DEF Close
<1>2. UNCHANGED <<work, emitted, outbox, streamBox>>
  BY <1>1 DEF guestVars
<1>3. ServedInv /\ ShapeInv /\ TakenInv
  BY DEF StreamInv
<1>4. \A c \in Callers : Lost(c) \in Frames /\ Lost(c).kind = "lost"
  <2>1. \A c \in Callers : Lost(c) \in Frames
    BY Types, MadeFrames DEF Lost, FrameKinds
  <2> QED
    BY <2>1 DEF Lost, Frame
<1>5. In(toHost') \subseteq In(toHost)
  BY <1>1, EmptyIn
<1>6. ServedInv'
  <2>1. CASE UNCHANGED toGuest
    <3>1. \A c \in Callers : call[c] = "idle" => inbox'[c] = inbox[c]
      <4>1. "idle" \notin InFlight
        BY DEF InFlight
      <4> QED
        BY <1>1, <4>1, Types
    <3> QED
      BY <1>1, <1>2, <1>3, <2>1, <3>1, ServedStays
  <2>2. CASE toGuest' = <<>>
    <3>1. \A c \in Callers : call[c] = "idle" => inbox'[c] = inbox[c]
      <4>1. "idle" \notin InFlight
        BY DEF InFlight
      <4> QED
        BY <1>1, <4>1, Types
    <3>2. \A c \in Callers :
            /\ call'[c] \in {"idle", "queued"} => work'[c] = "none"
            /\ call'[c] = "idle" => inbox'[c] = <<>> /\ received'[c] = <<>>
            /\ work'[c] = "none" => emitted'[c] = 0
      BY <1>1, <1>2, <1>3, <3>1 DEF ServedInv
    <3>3. In(toGuest') = {} /\ 1..Len(toGuest') = {}
      BY <2>2, EmptyIn
    <3> QED
      BY <3>2, <3>3 DEF ServedInv
  <2> QED
    BY <1>1, <2>1, <2>2
<1>7. ShapeInv'
  <2>1. \A c \in Streams : \A frame \in In(inbox'[c]) \cup In(received'[c]) :
          frame.kind = "lost" \/ frame \in In(inbox[c]) \cup In(received[c])
    <3> SUFFICES ASSUME NEW c \in Streams
                 PROVE  In(inbox'[c]) \subseteq In(inbox[c]) \cup {Lost(c)}
      BY <1>1, <1>4, Types
    <3>1. c \in Callers /\ inbox[c] \in Seq(Frames)
      BY Types
    <3>2. In(Append(inbox[c], Lost(c))) = In(inbox[c]) \cup {Lost(c)}
      BY <1>4, <3>1, AppendIn
    <3>3. inbox'[c] = Append(inbox[c], Lost(c)) \/ inbox'[c] = inbox[c]
      BY <1>1, <3>1
    <3> QED
      BY <3>2, <3>3
  <2> QED
    BY <1>2, <1>3, <1>5, <2>1, ShapesStay
<1>8. ChainInv'
  <2>1. CASE told = registered
    BY <1>1, <2>1 DEF ChainInv
  <2>2. CASE inbox' = inbox /\ toHost' = <<>> /\ link' = "down"
    <3>1. \A c \in Streams : Chain(<<>>, c, Read(c))
      BY DEF Chain
    <3>2. \A c \in Streams : Read(c)' = Read(c)
      BY <1>1, <2>2 DEF Read
    <3>3. \A c \in Streams : Chain(toHost, c, Read(c))'
      BY <2>2, <3>1, <3>2 DEF Chain
    <3> QED
      BY <2>2, <3>3 DEF ChainInv
  <2> QED
    BY <1>1, <2>1, <2>2
<1>9. TakenInv'
  <2>0. UNCHANGED <<call, received, work, emitted>>
    BY <1>1, <1>2
  <2> SUFFICES ASSUME NEW c \in Streams
               PROVE  /\ \A i \in 1..Len(inbox'[c]) :
                           /\ inbox'[c][i].kind = "lost" => i = Len(inbox'[c]) /\ c \notin registered'
                           /\ inbox'[c][i].kind # "lost" => inbox'[c][i].n = Len(received[c]) + i
                      /\ \A i \in 1..Len(received[c]) :
                           /\ received[c][i].kind # "lost" => received[c][i].n = i
                           /\ call[c] \in InFlight => received[c][i].kind = "data"
                      /\ call[c] = "answered" => /\ Len(received[c]) = emitted[c]
                                                 /\ work[c] \notin {"none", "running"}
    BY <2>0 DEF TakenInv
  <2>1. c \in Callers /\ inbox[c] \in Seq(Frames)
    BY Types
  <2>2. \A i \in 1..Len(inbox[c]) :
          /\ inbox[c][i].kind = "lost" => i = Len(inbox[c]) /\ c \notin registered
          /\ inbox[c][i].kind # "lost" => inbox[c][i].n = Len(received[c]) + i
    BY <1>3 DEF TakenInv
  <2>3. \A i \in 1..Len(inbox'[c]) :
          /\ inbox'[c][i].kind = "lost" => i = Len(inbox'[c]) /\ c \notin registered'
          /\ inbox'[c][i].kind # "lost" => inbox'[c][i].n = Len(received[c]) + i
    <3>1. CASE c \in told
      <4>1. inbox'[c] = Append(inbox[c], Lost(c))
        BY <1>1, <2>1, <3>1
      <4>2. /\ Len(inbox'[c]) = Len(inbox[c]) + 1 /\ inbox'[c][Len(inbox[c]) + 1] = Lost(c)
            /\ \A i \in 1..Len(inbox[c]) : inbox'[c][i] = inbox[c][i]
            /\ \A i \in 1..(Len(inbox[c]) + 1) : i \in 1..Len(inbox[c]) \/ i = Len(inbox[c]) + 1
        BY <1>4, <2>1, <4>1, AppendAt
      <4> QED
        BY <1>1, <1>4, <2>1, <2>2, <3>1, <4>2
    <3>2. CASE c \notin told
      <4>1. inbox'[c] = inbox[c]
        BY <1>1, <2>1, <3>2
      <4> QED
        BY <1>1, <2>2, <4>1
    <3> QED
      BY <3>1, <3>2
  <2> QED
    BY <1>3, <2>3 DEF TakenInv
<1> QED
  BY <1>6, <1>7, <1>8, <1>9 DEF StreamInv

(***************************************************************************)
(* The connection is lost, the agent dies, starts or reads.                *)
(***************************************************************************)
LEMMA StreamDrop == ASSUME IInv, StreamInv, Drop PROVE StreamInv'
<1>1. /\ link' = "down" /\ toGuest' = <<>>
      /\ UNCHANGED <<registered, call, inbox, received, work, emitted, outbox, streamBox>>
  BY DEF Drop, hostVars, guestVars
<1>2. PICK k \in 0..Len(toHost) : toHost' = SubSeq(toHost, 1, k)
  BY DEF Drop
<1>3. ServedInv /\ ShapeInv /\ ChainInv /\ TakenInv
  BY DEF StreamInv
<1>4. ServedInv'
  <2>1. In(toGuest') = {} /\ 1..Len(toGuest') = {}
    BY <1>1, EmptyIn
  <2> QED
    BY <1>1, <1>3, <2>1 DEF ServedInv
<1>5. ShapeInv'
  <2>1. In(toHost') \subseteq In(toHost)
    BY <1>2, PrefixIn, Types
  <2> QED
    BY <1>1, <1>3, <2>1, ShapesStay
<1>6. ChainInv'
  <2> SUFFICES ASSUME NEW c \in Streams \cap registered PROVE Chain(toHost', c, Read(c)')
    BY <1>1 DEF ChainInv
  <2>1. Read(c)' = Read(c) /\ Read(c) \in Nat
    BY <1>1, Types DEF Read
  <2>2. Chain(toHost, c, Read(c))
    BY <1>3 DEF ChainInv
  <2> QED
    BY <1>2, <2>1, <2>2, Types, ChainPrefix
<1>7. TakenInv'
  BY <1>1, <1>3, TakenStays
<1> QED
  BY <1>4, <1>5, <1>6, <1>7 DEF StreamInv

LEMMA StreamRestart ==
  ASSUME IInv, StreamInv, OpenDevice \/ AgentSeesEof \/ AgentCrashes
  PROVE  StreamInv'
<1>1. UNCHANGED <<registered, call, inbox, received, link, toGuest, toHost, emitted>>
  BY DEF OpenDevice, AgentSeesEof, AgentCrashes, AgentExits, hostVars, wireVars
<1>2. ServedInv /\ ShapeInv /\ ChainInv /\ TakenInv
  BY DEF StreamInv
<1>3. CASE OpenDevice
  <2>1. UNCHANGED <<work, outbox, streamBox>>
    BY <1>3 DEF OpenDevice
  <2>2. ServedInv' /\ TakenInv'
    BY <1>1, <1>2, <2>1, ServedStays, TakenStays
  <2>3. ShapeInv'
    BY <1>1, <1>2, <2>1, ShapesStay
  <2>4. ChainInv'
    BY <1>1, <1>2, <2>1, ChainStays DEF Read
  <2> QED
    BY <2>2, <2>3, <2>4 DEF StreamInv
<1>4. CASE AgentSeesEof \/ AgentCrashes
  <2>1. /\ outbox' = <<>> /\ streamBox' = <<>>
        /\ work' = [c \in Callers |-> IF work[c] = "running" THEN "lost" ELSE work[c]]
    BY <1>4 DEF AgentSeesEof, AgentCrashes, AgentExits
  <2>2. \A c \in Callers : /\ work'[c] = IF work[c] = "running" THEN "lost" ELSE work[c]
                           /\ work'[c] # "running" /\ (work'[c] = "none" <=> work[c] = "none")
    BY <2>1
  <2>3. ServedInv'
    <3>1. \A frame \in In(toGuest) : frame.kind = "request" => frame.of \in Callers
      <4>1. \A frame \in In(toGuest) : frame \in Frames
        BY Types, ElementOfSeq DEF In
      <4> QED
        BY <4>1 DEF Frames
    <3>2. \A frame \in In(toGuest) : frame.kind = "request" =>
            work'[frame.of] = "none" /\ call[frame.of] \notin {"idle", "queued"}
      BY <1>2, <2>2, <3>1 DEF ServedInv
    <3> QED
      BY <1>1, <1>2, <2>2, <3>2 DEF ServedInv
  <2>4. ShapeInv'
    <3> SUFFICES ASSUME NEW c \in Streams
                 PROVE  /\ \A frame \in In(toHost) : frame.of = c => Shape(frame, c)'
                        /\ \A frame \in In(inbox[c]) \cup In(received[c]) :
                             frame.kind # "lost" => Shape(frame, c)'
      BY <1>1, <2>1, EmptyIn DEF ShapeInv
    <3>1. c \in Callers /\ inbox[c] \in Seq(Frames) /\ received[c] \in Seq(Frames)
          /\ toHost \in Seq(Frames)
      BY Types
    <3>2. \A frame \in Frames : Shape(frame, c) => Shape(frame, c)'
      BY <1>1, <2>2, <3>1, ShapeStays
    <3>3. \A frame \in In(toHost) \cup In(inbox[c]) \cup In(received[c]) : frame \in Frames
      BY <3>1, ElementOfSeq DEF In
    <3> QED
      BY <1>2, <3>2, <3>3 DEF ShapeInv
  <2>5. ChainInv'
    <3> SUFFICES ASSUME NEW c \in Streams \cap registered
                 PROVE  /\ Chain(toHost, c, Read(c)')
                        /\ Follows(<<>>, toHost, c, Read(c)')
                        /\ work'[c] # "running"
      BY <1>1, <2>1 DEF ChainInv
    <3>1. Read(c)' = Read(c)
      BY <1>1 DEF Read
    <3>2. Follows(<<>>, toHost, c, Read(c))
      BY EmptyIn DEF Follows
    <3> QED
      BY <1>2, <2>2, <3>1, <3>2, Types DEF ChainInv
  <2>6. TakenInv'
    <3> SUFFICES ASSUME NEW c \in Streams
                 PROVE  /\ \A i \in 1..Len(inbox[c]) :
                             /\ inbox[c][i].kind = "lost" => i = Len(inbox[c]) /\ c \notin registered
                             /\ inbox[c][i].kind # "lost" => inbox[c][i].n = Len(received[c]) + i
                        /\ \A i \in 1..Len(received[c]) :
                             /\ received[c][i].kind # "lost" => received[c][i].n = i
                             /\ call[c] \in InFlight => received[c][i].kind = "data"
                        /\ call[c] = "answered" => /\ Len(received[c]) = emitted[c]
                                                   /\ work'[c] \notin {"none", "running"}
      BY <1>1 DEF TakenInv
    <3> QED
      BY <1>2, <2>2, Types DEF TakenInv
  <2> QED
    BY <2>3, <2>4, <2>5, <2>6 DEF StreamInv
<1> QED
  BY <1>3, <1>4

\* The agent takes the request: it was the only one of its number, and nothing
\* has answered it.
LEMMA ServedReads ==
  ASSUME IInv, AnswerInv, StreamInv, NEW c,
         stage \notin Early, ServeSpawns \/ ServeRefuses, c = Head(toGuest).of,
         NEW how \in {"running", "done"}, work' = [work EXCEPT ![c] = how]
  PROVE  /\ c \in Callers /\ work[c] = "none" /\ emitted[c] = 0 /\ work'[c] = how
         /\ \A d \in Callers \ {c} : work'[d] = work[d]
         /\ ServedInv'
<1>1. /\ toGuest # <<>> /\ toGuest' = Tail(toGuest) /\ Head(toGuest).kind = "request"
      /\ UNCHANGED <<call, inbox, received, emitted>>
  BY DEF ServeSpawns, ServeRefuses, Reads, hostVars
<1> DEFINE n == Len(toGuest)
<1>2. /\ n \in Nat \ {0} /\ Len(toGuest') = n - 1 /\ Head(toGuest) = toGuest[1] /\ 1 \in 1..n
      /\ \A i \in 1..(n - 1) : toGuest'[i] = toGuest[i + 1] /\ i + 1 \in 1..n /\ 1 < i + 1
      /\ Head(toGuest) \in Frames
  BY <1>1, TailAt, Types
<1>3. Head(toGuest) \in In(toGuest) /\ In(toGuest') \subseteq In(toGuest)
  BY <1>1, TailIn, Types
<1>4. ServedInv
  BY DEF StreamInv
<1>5. c \in Callers /\ work[c] = "none" /\ call[c] \notin {"idle", "queued"} /\ emitted[c] = 0
  <2>1. c \in Callers
    BY <1>1, <1>2 DEF Frames
  <2> QED
    BY <1>1, <1>3, <1>4, <2>1 DEF ServedInv
<1>6. work'[c] = how /\ \A d \in Callers \ {c} : work'[d] = work[d]
  BY <1>5, Types
<1> HIDE DEF n
<1>7. \A i \in 1..(n - 1) : toGuest'[i].kind = "request" => toGuest'[i].of # c
  <2>1. \A i, j \in 1..n :
          /\ toGuest[i].kind = "request" /\ toGuest[j].kind = "request"
          /\ toGuest[i].of = toGuest[j].of
          => i = j
    BY <1>4 DEF ServedInv, n
  <2> QED
    BY <1>1, <1>2, <2>1
<1>8. \A frame \in In(toGuest') : frame.kind = "request" =>
        work'[frame.of] = "none" /\ call[frame.of] \notin {"idle", "queued"}
  <2> SUFFICES ASSUME NEW i \in 1..(n - 1), toGuest'[i].kind = "request"
               PROVE  /\ work'[toGuest'[i].of] = "none"
                      /\ call[toGuest'[i].of] \notin {"idle", "queued"}
    BY <1>2 DEF In
  <2>1. toGuest'[i] \in In(toGuest) /\ toGuest'[i] \in Frames
    <3>1. toGuest'[i] = toGuest[i + 1] /\ i + 1 \in 1..Len(toGuest)
      BY <1>2 DEF n
    <3> QED
      BY <3>1, Types, ElementOfSeq DEF In
  <2>2. toGuest'[i].of \in Callers /\ toGuest'[i].of # c
    BY <1>7, <2>1 DEF Frames
  <2> QED
    BY <1>4, <1>6, <2>1, <2>2 DEF ServedInv
<1>9. \A i, j \in 1..(n - 1) :
        /\ toGuest'[i].kind = "request" /\ toGuest'[j].kind = "request"
        /\ toGuest'[i].of = toGuest'[j].of
        => i = j
  <2> SUFFICES ASSUME NEW i \in 1..(n - 1), NEW j \in 1..(n - 1),
                      toGuest'[i].kind = "request", toGuest'[j].kind = "request",
                      toGuest'[i].of = toGuest'[j].of
               PROVE  i = j
    OBVIOUS
  <2>1. /\ toGuest'[i] = toGuest[i + 1] /\ i + 1 \in 1..n
        /\ toGuest'[j] = toGuest[j + 1] /\ j + 1 \in 1..n
    BY <1>2
  <2>2. i + 1 = j + 1
    BY <1>4, <2>1 DEF ServedInv, n
  <2> QED
    BY <1>2, <2>2
<1>10. \A d \in Callers :
         /\ call'[d] \in {"idle", "queued"} => work'[d] = "none"
         /\ call'[d] = "idle" => inbox'[d] = <<>> /\ received'[d] = <<>>
         /\ work'[d] = "none" => emitted'[d] = 0
  BY <1>1, <1>4, <1>5, <1>6 DEF ServedInv
<1>11. ServedInv'
  <2>1. \A frame \in In(toGuest') : frame.kind = "request" =>
          work'[frame.of] = "none" /\ call'[frame.of] \notin {"idle", "queued"}
    BY <1>1, <1>8
  <2>2. \A i, j \in 1..Len(toGuest') :
          /\ toGuest'[i].kind = "request" /\ toGuest'[j].kind = "request"
          /\ toGuest'[i].of = toGuest'[j].of
          => i = j
    BY <1>2, <1>9
  <2> QED
    BY <1>10, <2>1, <2>2 DEF ServedInv
<1> QED
  BY <1>5, <1>6, <1>11

LEMMA StreamSpawns ==
  ASSUME IInv, AnswerInv, StreamInv, stage \notin Early, ServeSpawns
  PROVE  StreamInv'
<1>1. PICK c : c = Head(toGuest).of
  OBVIOUS
<1>2. /\ work' = [work EXCEPT ![c] = "running"]
      /\ UNCHANGED <<registered, call, inbox, received, link, toHost, emitted, outbox, streamBox>>
  BY <1>1 DEF ServeSpawns, Reads, hostVars
<1>3. /\ c \in Callers /\ work[c] = "none" /\ emitted[c] = 0 /\ work'[c] = "running"
      /\ \A d \in Callers \ {c} : work'[d] = work[d]
      /\ ServedInv'
  BY <1>1, <1>2, ServedReads
<1>4. ServedInv /\ ShapeInv /\ ChainInv /\ TakenInv
  BY DEF StreamInv
<1>5. ShapeInv'
  <2> SUFFICES ASSUME NEW d \in Streams
               PROVE  \A frame : Shape(frame, d) => Shape(frame, d)'
    BY <1>2, <1>4 DEF ShapeInv
  <2>1. CASE d = c
    BY <1>3, <2>1 DEF Shape
  <2>2. CASE d # c
    BY <1>2, <1>3, <2>2, Types DEF Shape
  <2> QED
    BY <2>1, <2>2
<1>6. ChainInv'
  <2> SUFFICES ASSUME NEW d \in Streams \cap registered
               PROVE  /\ Chain(toHost, d, Read(d)')
                      /\ link = "up" => /\ Follows(outbox, toHost, d, Read(d)')
                                        /\ Follows(streamBox, toHost, d, Read(d)')
                      /\ link = "up" /\ work'[d] = "running" =>
                           \/ emitted[d] = Read(d)' \/ Holds(toHost, d, emitted[d])
                           \/ Holds(outbox, d, emitted[d]) \/ Holds(streamBox, d, emitted[d])
    BY <1>2 DEF ChainInv
  <2>1. Read(d)' = Read(d)
    BY <1>2 DEF Read
  <2>2. d = c => Read(d) = 0
    BY <1>3, <1>4, Unserved
  <2> QED
    BY <1>3, <1>4, <2>1, <2>2, Types DEF ChainInv
<1>7. TakenInv'
  <2> SUFFICES ASSUME NEW d \in Streams
               PROVE  call[d] = "answered" => work'[d] \notin {"none", "running"}
    BY <1>2, <1>4 DEF TakenInv
  <2> QED
    BY <1>3, <1>4, Types DEF TakenInv
<1> QED
  BY <1>3, <1>5, <1>6, <1>7 DEF StreamInv

\* Two frames at the end are put there one after the other.
LEMMA AppendTwo ==
  ASSUME NEW s \in Seq(Frames), NEW a \in Frames, NEW b \in Frames
  PROVE  s \o <<a, b>> = Append(Append(s, a), b)
  OBVIOUS

\* A refusal is the error, and for an authenticated stream with stdin its exit.
LEMMA StreamRefuses ==
  ASSUME IInv, AnswerInv, StreamInv, stage \notin Early, ServeRefuses
  PROVE  StreamInv'
<1>1. PICK c : c = Head(toGuest).of
  OBVIOUS
<1> DEFINE error == Frame(reqId[c], "error", c, 1)
           exit  == Frame(reqId[c], "exit", c, 2)
           box   == Append(outbox, error)
<1>2. /\ work' = [work EXCEPT ![c] = "done"]
      /\ UNCHANGED <<registered, call, inbox, received, link, toHost, emitted, streamBox>>
      /\ outbox' = outbox \o (IF c \in StdinStreams /\ authed THEN <<error, exit>> ELSE <<error>>)
  BY <1>1 DEF ServeRefuses, Reads, hostVars
<1>3. /\ c \in Callers /\ work[c] = "none" /\ emitted[c] = 0 /\ work'[c] = "done"
      /\ \A d \in Callers \ {c} : work'[d] = work[d]
      /\ ServedInv'
  BY <1>1, <1>2, ServedReads
<1>4. ServedInv /\ ShapeInv /\ ChainInv /\ TakenInv
  BY DEF StreamInv
<1>5. /\ error \in Frames /\ error.kind = "error" /\ error.of = c /\ error.n = 1
      /\ exit \in Frames /\ exit.kind = "exit" /\ exit.of = c /\ exit.n = 2
  <2>1. error \in Frames /\ exit \in Frames
    BY <1>3, Types, MadeFrames DEF FrameKinds
  <2> QED
    BY <2>1 DEF Frame
<1> HIDE DEF error, exit
<1>6. /\ outbox' = box \/ outbox' = Append(box, exit)
      /\ box \in Seq(Frames)
  <2>1. outbox \o <<error>> = Append(outbox, error)
    BY <1>5, Types, AppendIsConcat
  <2>2. outbox \o <<error, exit>> = Append(Append(outbox, error), exit)
    BY <1>5, Types, AppendTwo
  <2>3. box \in Seq(Frames)
    BY <1>5, Types, AppendProperties
  <2> QED
    BY <1>2, <2>1, <2>2, <2>3
<1>7. In(box) = In(outbox) \cup {error} /\ In(outbox') \subseteq In(outbox) \cup {error, exit}
  <2>1. In(box) = In(outbox) \cup {error}
    BY <1>5, Types, AppendIn
  <2>2. In(Append(box, exit)) = In(box) \cup {exit}
    BY <1>5, <1>6, AppendIn
  <2>3. In(outbox') = In(box) \/ In(outbox') = In(Append(box, exit))
    BY <1>6
  <2> QED
    BY <2>1, <2>2, <2>3
<1>8. ShapeInv'
  <2> SUFFICES ASSUME NEW d \in Streams
               PROVE  /\ \A frame : Shape(frame, d) => Shape(frame, d)'
                      /\ \A frame \in {error, exit} : frame.of = d =>
                           Shape(frame, d)' /\ (d \in StdinStreams => emitted'[d] = 0)
    BY <1>2, <1>4, <1>7 DEF ShapeInv
  <2>1. \A frame : Shape(frame, d) => Shape(frame, d)'
    <3>1. CASE d = c
      BY <1>3, <3>1 DEF Shape
    <3>2. CASE d # c
      BY <1>2, <1>3, <3>2, Types DEF Shape
    <3> QED
      BY <3>1, <3>2
  <2>2. \A frame \in {error, exit} : frame.of = d =>
          Shape(frame, d)' /\ (d \in StdinStreams => emitted'[d] = 0)
    BY <1>2, <1>3, <1>5 DEF Shape
  <2> QED
    BY <2>1, <2>2
<1>9. ChainInv'
  <2> SUFFICES ASSUME NEW d \in Streams \cap registered
               PROVE  /\ Chain(toHost, d, Read(d)')
                      /\ link = "up" => /\ Follows(outbox', toHost, d, Read(d)')
                                        /\ Follows(streamBox, toHost, d, Read(d)')
                      /\ link = "up" /\ work'[d] = "running" =>
                           \/ emitted[d] = Read(d)' \/ Holds(toHost, d, emitted[d])
                           \/ Holds(outbox', d, emitted[d]) \/ Holds(streamBox, d, emitted[d])
    BY <1>2 DEF ChainInv
  <2>1. Read(d)' = Read(d) /\ Read(d) \in Nat
    BY <1>2, Types DEF Read
  <2>2. ASSUME link = "up" PROVE Follows(outbox', toHost, d, Read(d))
    <3>1. Follows(outbox, toHost, d, Read(d))
      BY <1>4, <2>2 DEF ChainInv
    <3>2. Follows(box, toHost, d, Read(d))
      <4>1. ASSUME error.of = d
            PROVE  /\ error.n > Read(d) /\ error.n = Read(d) + 1
                   /\ \A i \in 1..Len(toHost) : toHost[i].of # d
                   /\ \A i \in 1..Len(outbox) : outbox[i].of # d
        <5>1. /\ Read(d) = 0
              /\ \A frame \in In(toHost) \cup In(outbox) : frame.of # d
          BY <1>3, <1>4, <1>5, <4>1, Unserved
        <5> QED
          BY <1>5, <5>1 DEF In
      <4> QED
        BY <1>5, <2>1, <3>1, <4>1, Types, FollowsGrows
    <3>3. Follows(Append(box, exit), toHost, d, Read(d))
      <4>1. ASSUME exit.of = d
            PROVE  /\ exit.n > Read(d) /\ Holds(box, d, exit.n - 1)
                   /\ \A i \in 1..Len(toHost) : toHost[i].of # d
                   /\ \A i \in 1..Len(box) : box[i].of = d => box[i].n < exit.n
        <5>1. /\ Read(d) = 0
              /\ \A frame \in In(toHost) \cup In(outbox) : frame.of # d
          BY <1>3, <1>4, <1>5, <4>1, Unserved
        <5>2. Holds(box, d, error.n)
          BY <1>5, <4>1, Types, HoldsAppend
        <5>3. \A i \in 1..Len(box) : box[i] \in In(outbox) \/ box[i] = error
          BY <1>7 DEF In
        <5> QED
          BY <1>5, <5>1, <5>2, <5>3 DEF In
      <4> QED
        BY <1>5, <1>6, <2>1, <3>2, <4>1, Types, FollowsGrows
    <3> QED
      BY <1>6, <3>2, <3>3
  <2>3. ASSUME work'[d] = "running", Holds(outbox, d, emitted[d])
        PROVE  Holds(outbox', d, emitted[d])
    <3>1. Holds(box, d, emitted[d])
      BY <1>5, <2>3, Types, HoldsAppend
    <3>2. Holds(Append(box, exit), d, emitted[d])
      BY <1>5, <1>6, <3>1, HoldsAppend
    <3> QED
      BY <1>6, <3>1, <3>2
  <2>4. work'[d] = "running" => work[d] = "running"
    BY <1>3, Types
  <2> QED
    BY <1>4, <2>1, <2>2, <2>3, <2>4 DEF ChainInv
<1>10. TakenInv'
  <2> SUFFICES ASSUME NEW d \in Streams
               PROVE  call[d] = "answered" => work'[d] \notin {"none", "running"}
    BY <1>2, <1>4 DEF TakenInv
  <2> QED
    BY <1>3, <1>4, Types DEF TakenInv
<1> QED
  BY <1>3, <1>8, <1>9, <1>10 DEF StreamInv

(***************************************************************************)
(* The writer merges two boxes: the frames of one answer are all in one.   *)
(***************************************************************************)
LEMMA StreamSends == ASSUME IInv, StreamInv, WriterSends PROVE StreamInv'
<1>1. /\ link = "up"
      /\ UNCHANGED <<registered, call, inbox, received, link, toGuest, work, emitted>>
  BY DEF WriterSends, hostVars
<1>2. ServedInv /\ ShapeInv /\ ChainInv /\ TakenInv
  BY DEF StreamInv
<1>3. ServedInv' /\ TakenInv'
  BY <1>1, <1>2, ServedStays, TakenStays
<1>4. PICK frame \in Frames :
        /\ toHost' = Append(toHost, frame)
        /\ \/ outbox # <<>> /\ frame = Head(outbox) /\ outbox' = Tail(outbox) /\ streamBox' = streamBox
           \/ streamBox # <<>> /\ frame = Head(streamBox) /\ streamBox' = Tail(streamBox)
              /\ outbox' = outbox
  <2>1. CASE outbox # <<>> /\ outbox' = Tail(outbox) /\ toHost' = Append(toHost, Head(outbox))
             /\ streamBox' = streamBox
    BY <2>1, Types, TailIn
  <2>2. CASE streamBox # <<>> /\ streamBox' = Tail(streamBox) /\ outbox' = outbox
             /\ toHost' = Append(toHost, Head(streamBox))
    BY <2>2, Types, TailIn
  <2> QED
    BY <2>1, <2>2 DEF WriterSends
<1>5. In(toHost') = In(toHost) \cup {frame}
  BY <1>4, Types, AppendIn
<1>6. \/ /\ frame \in In(outbox) /\ In(outbox') \subseteq In(outbox) /\ streamBox' = streamBox
      \/ /\ frame \in In(streamBox) /\ In(streamBox') \subseteq In(streamBox) /\ outbox' = outbox
  <2>1. CASE outbox # <<>> /\ frame = Head(outbox) /\ outbox' = Tail(outbox) /\ streamBox' = streamBox
    <3>1. Head(outbox) \in In(outbox) /\ In(Tail(outbox)) \subseteq In(outbox)
      BY <2>1, Types, TailIn
    <3> QED
      BY <2>1, <3>1
  <2>2. CASE streamBox # <<>> /\ frame = Head(streamBox) /\ streamBox' = Tail(streamBox)
             /\ outbox' = outbox
    <3>1. Head(streamBox) \in In(streamBox) /\ In(Tail(streamBox)) \subseteq In(streamBox)
      BY <2>2, Types, TailIn
    <3> QED
      BY <2>2, <3>1
  <2> QED
    BY <1>4, <2>1, <2>2
<1>7. ShapeInv'
  <2>1. \A c \in Streams : \A f : Shape(f, c) => Shape(f, c)'
    BY <1>1 DEF Shape
  <2> QED
    BY <1>1, <1>2, <1>5, <1>6, <2>1 DEF ShapeInv
<1>8. ChainInv'
  <2> SUFFICES ASSUME NEW c \in Streams \cap registered
               PROVE  /\ Chain(toHost', c, Read(c)')
                      /\ Follows(outbox', toHost', c, Read(c)')
                      /\ Follows(streamBox', toHost', c, Read(c)')
                      /\ work[c] = "running" =>
                           \/ emitted[c] = Read(c)' \/ Holds(toHost', c, emitted[c])
                           \/ Holds(outbox', c, emitted[c]) \/ Holds(streamBox', c, emitted[c])
    BY <1>1 DEF ChainInv
  <2>1. Read(c)' = Read(c) /\ Read(c) \in Nat
    BY <1>1, Types DEF Read
  <2>2. /\ Chain(toHost, c, Read(c))
        /\ Follows(outbox, toHost, c, Read(c)) /\ Follows(streamBox, toHost, c, Read(c))
        /\ work[c] = "running" =>
             \/ emitted[c] = Read(c) \/ Holds(toHost, c, emitted[c])
             \/ Holds(outbox, c, emitted[c]) \/ Holds(streamBox, c, emitted[c])
    BY <1>1, <1>2 DEF ChainInv
  <2>3. ~ \E e \in In(outbox), f \in In(streamBox) : e.of = c /\ f.of = c
    BY <1>2 DEF ShapeInv
  <2>4. \A k : Holds(toHost, c, k) => Holds(toHost', c, k)
    BY <1>4, Types, HoldsAppend
  <2>5. frame.of = c => Holds(toHost', c, frame.n)
    BY <1>4, Types, HoldsAppend
  <2>6. CASE outbox # <<>> /\ frame = Head(outbox) /\ outbox' = Tail(outbox) /\ streamBox' = streamBox
    <3>1. Chain(toHost', c, Read(c)) /\ Follows(outbox', toHost', c, Read(c))
      BY <1>4, <2>1, <2>2, <2>6, Types, FollowsSend
    <3>2. Follows(streamBox, toHost', c, Read(c))
      <4>1. frame \in In(outbox)
        BY <2>6, Types, TailIn
      <4>2. frame.of # c \/ \A i \in 1..Len(streamBox) : streamBox[i].of # c
        BY <2>3, <4>1 DEF In
      <4> QED
        BY <1>4, <2>1, <2>2, <4>2, Types, FollowsAppend
    <3>3. \A k : Holds(outbox, c, k) => Holds(toHost', c, k) \/ Holds(outbox', c, k)
      BY <2>5, <2>6, Types, HoldsTail
    <3> QED
      BY <2>1, <2>2, <2>4, <2>6, <3>1, <3>2, <3>3
  <2>7. CASE streamBox # <<>> /\ frame = Head(streamBox) /\ streamBox' = Tail(streamBox)
             /\ outbox' = outbox
    <3>1. Chain(toHost', c, Read(c)) /\ Follows(streamBox', toHost', c, Read(c))
      BY <1>4, <2>1, <2>2, <2>7, Types, FollowsSend
    <3>2. Follows(outbox, toHost', c, Read(c))
      <4>1. frame \in In(streamBox)
        BY <2>7, Types, TailIn
      <4>2. frame.of # c \/ \A i \in 1..Len(outbox) : outbox[i].of # c
        BY <2>3, <4>1 DEF In
      <4> QED
        BY <1>4, <2>1, <2>2, <4>2, Types, FollowsAppend
    <3>3. \A k : Holds(streamBox, c, k) => Holds(toHost', c, k) \/ Holds(streamBox', c, k)
      BY <2>5, <2>7, Types, HoldsTail
    <3> QED
      BY <2>1, <2>2, <2>4, <2>7, <3>1, <3>2, <3>3
  <2> QED
    BY <1>4, <2>6, <2>7
<1> QED
  BY <1>3, <1>7, <1>8 DEF StreamInv

(***************************************************************************)
(* A task's next frame goes behind its earlier ones.                       *)
(***************************************************************************)
LEMMA StreamTask ==
  ASSUME IInv, AnswerInv, StreamInv, NEW c \in Callers, Task(c)
  PROVE  StreamInv'
<1>1. /\ work[c] = "running"
      /\ UNCHANGED <<registered, call, inbox, received, link, toGuest, toHost>>
      /\ work' = work \/ work' = [work EXCEPT ![c] = "done"]
  BY DEF Task, TaskAnswers, TaskOutputs, TaskExits, hostVars, wireVars
<1>2. PICK kind \in {"result", "data", "exit"} :
        /\ Emit(c, kind)
        /\ c \in Streams => \/ kind = "data" /\ work' = work
                            \/ kind = "exit" /\ work' = [work EXCEPT ![c] = "done"]
  BY ClientAssumption DEF Task, TaskAnswers, TaskOutputs, TaskExits
<1>3. PICK frame : frame = Frame(reqId[c], kind, c, emitted[c] + 1)
  OBVIOUS
<1>4. /\ emitted' = [emitted EXCEPT ![c] = @ + 1]
      /\ \/ streamBox' = Append(streamBox, frame) /\ outbox' = outbox /\ c \in StdinStreams
         \/ outbox' = Append(outbox, frame) /\ streamBox' = streamBox /\ c \notin StdinStreams
  BY <1>2, <1>3 DEF Emit
<1>5. frame \in Frames /\ frame.kind = kind /\ frame.of = c /\ frame.n = emitted[c] + 1
  <2>1. frame \in Frames
    BY <1>3, Types, MadeFrames DEF FrameKinds
  <2> QED
    BY <1>3, <2>1 DEF Frame
<1>6. ServedInv /\ ShapeInv /\ ChainInv /\ TakenInv
  BY DEF StreamInv
<1>7. /\ emitted'[c] = emitted[c] + 1 /\ emitted[c] \in Nat
      /\ work'[c] \in {"running", "done"}
      /\ \A d \in Callers \ {c} : work'[d] = work[d] /\ emitted'[d] = emitted[d]
      /\ \A d \in Callers : work'[d] = "none" <=> work[d] = "none"
  BY <1>1, <1>4, Types
<1>8. ServedInv'
  <2>1. \A f \in In(toGuest) : f.kind = "request" => f.of \in Callers
    <3>1. \A f \in In(toGuest) : f \in Frames
      BY Types, ElementOfSeq DEF In
    <3> QED
      BY <3>1 DEF Frames
  <2>2. \A f \in In(toGuest) : f.kind = "request" =>
          work'[f.of] = "none" /\ call[f.of] \notin {"idle", "queued"}
    BY <1>6, <1>7, <2>1 DEF ServedInv
  <2>3. \A d \in Callers :
          /\ call'[d] \in {"idle", "queued"} => work'[d] = "none"
          /\ call'[d] = "idle" => inbox'[d] = <<>> /\ received'[d] = <<>>
          /\ work'[d] = "none" => emitted'[d] = 0
    BY <1>1, <1>6, <1>7 DEF ServedInv
  <2> QED
    BY <1>1, <1>6, <2>2, <2>3 DEF ServedInv
<1>9. /\ In(outbox') \subseteq In(outbox) \cup {frame}
      /\ In(streamBox') \subseteq In(streamBox) \cup {frame}
      /\ c \in StdinStreams => In(outbox') = In(outbox)
      /\ c \notin StdinStreams => In(streamBox') = In(streamBox)
  BY <1>4, <1>5, Types, AppendIn
<1>10. \A d \in Streams : \A f \in Frames : Shape(f, d) => Shape(f, d)'
  <2> SUFFICES ASSUME NEW d \in Streams
               PROVE  \A f \in Frames : Shape(f, d) => Shape(f, d)'
    OBVIOUS
  <2>1. d \in Callers
    BY Types
  <2>2. CASE d = c
    BY <1>1, <1>7, <2>1, <2>2, ShapeStays
  <2>3. CASE d # c
    BY <1>7, <2>1, <2>3, ShapeStays
  <2> QED
    BY <2>2, <2>3
<1>11. ASSUME c \in Streams PROVE Shape(frame, c)'
  <2>1. frame.n \in 1..emitted'[c] /\ work'[c] # "none"
    BY <1>5, <1>7
  <2>2. \/ frame.kind = "data"
        \/ frame.kind = "exit" /\ frame.n = emitted'[c] /\ work'[c] # "running"
    <3>1. \/ kind = "data"
          \/ kind = "exit" /\ work'[c] = "done"
      BY <1>2, <1>11, Types
    <3> QED
      BY <1>5, <1>7, <3>1
  <2> QED
    BY <2>1, <2>2 DEF Shape
<1>12. ShapeInv'
  <2> SUFFICES ASSUME NEW d \in Streams
               PROVE  /\ \A f \in In(toHost) : f.of = d => Shape(f, d)'
                      /\ \A f \in In(outbox') : f.of = d =>
                           Shape(f, d)' /\ (d \in StdinStreams => emitted'[d] = 0)
                      /\ \A f \in In(streamBox') : f.of = d =>
                           Shape(f, d)' /\ d \in StdinStreams /\ emitted'[d] # 0
                      /\ \A f \in In(inbox[d]) \cup In(received[d]) :
                           f.kind # "lost" => Shape(f, d)'
    BY <1>1 DEF ShapeInv
  <2>1. d \in Callers /\ inbox[d] \in Seq(Frames) /\ received[d] \in Seq(Frames)
        /\ toHost \in Seq(Frames) /\ outbox \in Seq(Frames) /\ streamBox \in Seq(Frames)
    BY Types
  <2>2. \A f \in In(toHost) \cup In(outbox) \cup In(streamBox) \cup In(inbox[d]) \cup In(received[d]) :
          f \in Frames
    BY <2>1, ElementOfSeq DEF In
  <2>3. \A f \in In(outbox') : f.of = d =>
          Shape(f, d)' /\ (d \in StdinStreams => emitted'[d] = 0)
    <3> SUFFICES ASSUME NEW f \in In(outbox'), f.of = d
                 PROVE  Shape(f, d)' /\ (d \in StdinStreams => emitted'[d] = 0)
      OBVIOUS
    <3>1. CASE f \in In(outbox)
      <4>1. Shape(f, d) /\ (d \in StdinStreams => emitted[d] = 0)
        BY <1>6, <3>1 DEF ShapeInv
      <4>2. Shape(f, d)'
        BY <1>10, <2>2, <3>1, <4>1
      <4>3. d = c => d \notin StdinStreams
        BY <1>1, <2>2, <3>1, <4>1 DEF Shape
      <4> QED
        BY <1>7, <2>1, <4>1, <4>2, <4>3
    <3>2. CASE f = frame /\ c \notin StdinStreams
      BY <1>5, <1>11, <3>2
    <3> QED
      BY <1>9, <3>1, <3>2
  <2>4. \A f \in In(streamBox') : f.of = d =>
          Shape(f, d)' /\ d \in StdinStreams /\ emitted'[d] # 0
    <3> SUFFICES ASSUME NEW f \in In(streamBox'), f.of = d
                 PROVE  Shape(f, d)' /\ d \in StdinStreams /\ emitted'[d] # 0
      OBVIOUS
    <3>1. CASE f \in In(streamBox)
      <4>1. Shape(f, d) /\ d \in StdinStreams /\ emitted[d] # 0
        BY <1>6, <3>1 DEF ShapeInv
      <4>2. Shape(f, d)'
        BY <1>10, <2>2, <3>1, <4>1
      <4>3. emitted'[d] # 0
        BY <1>7, <2>1, <4>1
      <4> QED
        BY <4>1, <4>2, <4>3
    <3>2. CASE f = frame /\ c \in StdinStreams
      <4>1. emitted'[c] # 0
        BY <1>7
      <4> QED
        BY <1>5, <1>11, <3>2, <4>1
    <3> QED
      BY <1>9, <3>1, <3>2
  <2>5. /\ \A f \in In(toHost) : f.of = d => Shape(f, d)'
        /\ \A f \in In(inbox[d]) \cup In(received[d]) : f.kind # "lost" => Shape(f, d)'
    BY <1>6, <1>10, <2>2 DEF ShapeInv
  <2> QED
    BY <2>3, <2>4, <2>5
<1>13. ChainInv'
  <2> SUFFICES ASSUME NEW d \in Streams \cap registered
               PROVE  /\ Chain(toHost, d, Read(d)')
                      /\ link = "up" => /\ Follows(outbox', toHost, d, Read(d)')
                                        /\ Follows(streamBox', toHost, d, Read(d)')
                      /\ link = "up" /\ work'[d] = "running" =>
                           \/ emitted'[d] = Read(d)' \/ Holds(toHost, d, emitted'[d])
                           \/ Holds(outbox', d, emitted'[d]) \/ Holds(streamBox', d, emitted'[d])
    BY <1>1 DEF ChainInv
  <2>1. Read(d)' = Read(d) /\ Read(d) \in Nat
    BY <1>1, Types DEF Read
  <2>2. /\ Chain(toHost, d, Read(d))
        /\ link = "up" => /\ Follows(outbox, toHost, d, Read(d))
                          /\ Follows(streamBox, toHost, d, Read(d))
        /\ link = "up" /\ work[d] = "running" =>
             \/ emitted[d] = Read(d) \/ Holds(toHost, d, emitted[d])
             \/ Holds(outbox, d, emitted[d]) \/ Holds(streamBox, d, emitted[d])
    BY <1>6 DEF ChainInv
  <2>3. CASE link # "up"
    BY <2>1, <2>2, <2>3
  <2>4. CASE link = "up" /\ d # c
    <3>1. Follows(Append(outbox, frame), toHost, d, Read(d))
          /\ Follows(Append(streamBox, frame), toHost, d, Read(d))
      BY <1>5, <2>1, <2>2, <2>4, Types, FollowsGrows
    <3>2. \A k : /\ Holds(outbox, d, k) => Holds(outbox', d, k)
                 /\ Holds(streamBox, d, k) => Holds(streamBox', d, k)
      <4>1. \A k : /\ Holds(outbox, d, k) => Holds(Append(outbox, frame), d, k)
                   /\ Holds(streamBox, d, k) => Holds(Append(streamBox, frame), d, k)
        BY <1>5, Types, HoldsAppend
      <4> QED
        BY <1>4, <4>1
    <3>3. Follows(outbox', toHost, d, Read(d)) /\ Follows(streamBox', toHost, d, Read(d))
      BY <1>4, <2>2, <2>4, <3>1
    <3>4. work'[d] = work[d] /\ emitted'[d] = emitted[d]
      BY <1>7, <2>4, Types
    <3> QED
      BY <2>1, <2>2, <2>4, <3>2, <3>3, <3>4
  <2>5. CASE link = "up" /\ d = c
    <3>1. /\ \A f \in In(toHost) : f.of = c => f.n <= emitted[c]
          /\ \A f \in In(outbox) : f.of = c => f.n <= emitted[c] /\ c \notin StdinStreams
          /\ \A f \in In(streamBox) : f.of = c => f.n <= emitted[c] /\ c \in StdinStreams
      <4>1. \A f \in Frames : Shape(f, c) => f.n <= emitted[c] /\ emitted[c] # 0
        BY <1>1, <1>7 DEF Shape
      <4>2. \A f \in In(toHost) \cup In(outbox) \cup In(streamBox) : f \in Frames
        BY Types, ElementOfSeq DEF In
      <4> QED
        BY <1>6, <2>5, <4>1, <4>2 DEF ShapeInv
    <3>2. /\ Follows(outbox, toHost, c, Read(c)) /\ Follows(streamBox, toHost, c, Read(c))
          /\ Chain(toHost, c, Read(c)) /\ Read(c) \in Nat
          /\ \/ emitted[c] = Read(c) \/ Holds(toHost, c, emitted[c])
             \/ Holds(outbox, c, emitted[c]) \/ Holds(streamBox, c, emitted[c])
      BY <1>1, <2>1, <2>2, <2>5
    <3>3. /\ frame.n > Read(c)
          /\ \/ frame.n = Read(c) + 1
             \/ Holds(toHost, c, frame.n - 1)
             \/ Holds(outbox, c, frame.n - 1) /\ c \notin StdinStreams
             \/ Holds(streamBox, c, frame.n - 1) /\ c \in StdinStreams
      <4>1. frame.n - 1 = emitted[c]
        BY <1>5, <1>7
      <4>2. emitted[c] >= Read(c)
        <5>1. Holds(toHost, c, emitted[c]) => emitted[c] > Read(c)
          BY <3>2 DEF Holds, Chain
        <5>2. Holds(outbox, c, emitted[c]) => emitted[c] > Read(c)
          BY <3>2 DEF Holds, Follows
        <5>3. Holds(streamBox, c, emitted[c]) => emitted[c] > Read(c)
          BY <3>2 DEF Holds, Follows
        <5> QED
          BY <1>7, <3>2, <5>1, <5>2, <5>3
      <4>3. Holds(outbox, c, emitted[c]) => c \notin StdinStreams
        BY <3>1, HoldsIn
      <4>4. Holds(streamBox, c, emitted[c]) => c \in StdinStreams
        BY <3>1, HoldsIn
      <4>5. frame.n > Read(c)
        BY <1>5, <1>7, <3>2, <4>2
      <4>6. emitted[c] = Read(c) => frame.n = Read(c) + 1
        BY <1>5
      <4> QED
        BY <3>2, <4>1, <4>3, <4>4, <4>5, <4>6
    <3>4. /\ \A i \in 1..Len(toHost) : toHost[i].of = c => toHost[i].n < frame.n
          /\ \A i \in 1..Len(outbox) : outbox[i].of = c => outbox[i].n < frame.n
          /\ \A i \in 1..Len(streamBox) : streamBox[i].of = c => streamBox[i].n < frame.n
      <4>1. \A s \in {toHost, outbox, streamBox} : \A i \in 1..Len(s) :
              s[i].of = c => s[i].n <= emitted[c] /\ s[i].n \in Nat
        <5>1. \A s \in {toHost, outbox, streamBox} : \A i \in 1..Len(s) : s[i] \in Frames /\ s[i] \in In(s)
          BY Types, ElementOfSeq DEF In
        <5> QED
          BY <3>1, <5>1 DEF Frames
      <4> QED
        BY <1>5, <1>7, <4>1
    <3>5. Follows(outbox', toHost, c, Read(c)) /\ Follows(streamBox', toHost, c, Read(c))
      <4>1. CASE c \in StdinStreams
        <5>1. streamBox' = Append(streamBox, frame) /\ outbox' = outbox
          BY <1>4, <4>1
        <5>2. Follows(Append(streamBox, frame), toHost, c, Read(c))
          BY <1>5, <3>2, <3>3, <3>4, <4>1, Types, FollowsGrows
        <5> QED
          BY <3>2, <5>1, <5>2
      <4>2. CASE c \notin StdinStreams
        <5>1. outbox' = Append(outbox, frame) /\ streamBox' = streamBox
          BY <1>4, <4>2
        <5>2. Follows(Append(outbox, frame), toHost, c, Read(c))
          BY <1>5, <3>2, <3>3, <3>4, <4>2, Types, FollowsGrows
        <5> QED
          BY <3>2, <5>1, <5>2
      <4> QED
        BY <4>1, <4>2
    <3>6. Holds(outbox', c, emitted'[c]) \/ Holds(streamBox', c, emitted'[c])
      <4>1. /\ Holds(Append(outbox, frame), c, frame.n)
            /\ Holds(Append(streamBox, frame), c, frame.n)
        BY <1>5, Types, HoldsAppend
      <4> QED
        BY <1>4, <1>5, <1>7, <4>1
    <3> QED
      BY <2>1, <2>2, <2>5, <3>5, <3>6
  <2> QED
    BY <2>3, <2>4, <2>5
<1>14. TakenInv'
  <2> SUFFICES ASSUME NEW d \in Streams
               PROVE  call[d] = "answered" => /\ Len(received[d]) = emitted'[d]
                                              /\ work'[d] \notin {"none", "running"}
    BY <1>1, <1>6 DEF TakenInv
  <2> QED
    BY <1>1, <1>6, <1>7, Types DEF TakenInv
<1> QED
  BY <1>8, <1>12, <1>13, <1>14 DEF StreamInv

\* Every step of the system keeps the parts.
LEMMA StreamStep ==
  ASSUME IInv, IInv', AnswerInv, AnswerInv', StreamInv, [Next]_vars
  PROVE  StreamInv'
<1>1. CASE UNCHANGED vars
  <2>1. UNCHANGED <<registered, call, inbox, received, link, toGuest, toHost, work, emitted,
                    outbox, streamBox>>
    BY <1>1 DEF vars, hostVars, wireVars, guestVars
  <2>2. ServedInv' /\ TakenInv'
    BY <2>1, ServedStays, TakenStays DEF StreamInv
  <2>3. ShapeInv'
    BY <2>1, ShapesStay DEF StreamInv
  <2>4. ChainInv'
    BY <2>1, ChainStays DEF StreamInv, Read
  <2> QED
    BY <2>2, <2>3, <2>4 DEF StreamInv
<1>2. CASE Next /\ stage \in Early
  BY <1>2, StreamEarly
<1>3. CASE Next /\ stage \notin Early
  <2>1. ~Connect
    BY <1>3 DEF Connect, Dial, WriteAuth, AuthTimesOut, AuthAnswered, DrainOne, DrainEnds,
                DrainTimesOut, ConnectBreaks, GiveUp, Early
  <2>2. ~ServeAuth
    <3> SUFFICES ASSUME ServeAuth PROVE FALSE
      OBVIOUS
    <3>1. toGuest # <<>> /\ Head(toGuest).kind = "auth"
      BY DEF ServeAuth, Reads
    <3>2. Head(toGuest) \in In(toGuest) /\ link = "up"
      BY <3>1, Types, TailIn DEF AnswerInv, LinkInv
    <3> QED
      BY <1>3, <3>1, <3>2 DEF AnswerInv, LateInv, AreGenuine, Genuine
  <2> QED
    BY <1>3, <2>1, <2>2, StreamCalls, StreamWrite, StreamReads, StreamTells, StreamDrop,
       StreamRestart, StreamSpawns, StreamRefuses, StreamSends, StreamTask
       DEF Next, Serve, Reader, Request
<1> QED
  BY <1>1, <1>2, <1>3

\* A stream's callbacks see its output in the order the command produced it and
\* without a gap, and a result only after the last of it, although the agent's
\* writer merges two channels and the connection may be cut (streams of
\* send_stream_request and spawn_writer).
THEOREM StreamTheorem == PromptAgent => (Spec => []StreamInOrder)
<1> SUFFICES ASSUME PromptAgent PROVE Spec => []StreamInOrder
  OBVIOUS
<1>1. IInv /\ AnswerInv /\ StreamInv /\ [Next]_vars /\ IInv' /\ AnswerInv' => StreamInv'
  BY StreamStep
<1>2. IInv /\ StreamInv => StreamInOrder
  <2> SUFFICES ASSUME IInv, StreamInv PROVE StreamInOrder
    OBVIOUS
  <2>1. \A c \in Streams : DOMAIN received[c] = 1..Len(received[c])
    BY Types, LenProperties
  <2> QED
    BY <2>1 DEF StreamInv, TakenInv, StreamInOrder
<1>3. Init => StreamInv
  BY StreamInit
<1>4. Spec => []AnswerInv
  BY AnswerInvariance
<1> QED
  BY <1>1, <1>2, <1>3, <1>4, Invariance, PTL DEF Spec
=============================================================================
