----------------------------- MODULE HttpCalls_proofs -----------------------------
(***************************************************************************)
(* Proofs about HttpCalls: a request is carried out at most once per       *)
(* attempt, input arrives in order and once, and no command outlives the   *)
(* call that made it unless the guest was not told, for any calls, any     *)
(* number of retries and any sessions.                                     *)
(***************************************************************************)
EXTENDS HttpCalls, SequenceTheorems, TLAPS

----------------------------------------------------------------------------
(* Sequences of stray requests *)

StraySet == [what : {"run", "input", "cancel"}, part : Nat]

\* Which members of a sequence of strays are of a kind.
Those(s, what) == {i \in DOMAIN s : s[i].what = what}

\* A sequence followed by nothing is that sequence.
LEMMA NothingLeft == ASSUME NEW S, NEW s \in Seq(S) PROVE s \o <<>> = s
  OBVIOUS

\* One more stray is the last one, and the others are where they were.
LEMMA OneLeft ==
  ASSUME NEW s \in Seq(StraySet), NEW e \in StraySet
  PROVE  LET t == s \o <<e>> IN
         /\ t \in Seq(StraySet) /\ Len(t) = Len(s) + 1 /\ t[Len(s) + 1] = e
         /\ \A i \in DOMAIN s : t[i] = s[i]
         /\ \A w : Those(t, w) = IF e.what = w THEN Those(s, w) \cup {Len(s) + 1} ELSE Those(s, w)
<1> DEFINE t == s \o <<e>>
<1>1. t \in Seq(StraySet) /\ Len(t) = Len(s) + 1 /\ t[Len(s) + 1] = e
  OBVIOUS
<1>2. \A i \in 1..Len(s) : t[i] = s[i]
  OBVIOUS
<1>3. DOMAIN s = 1..Len(s) /\ DOMAIN t = 1..Len(t) /\ Len(s) \in Nat
  BY <1>1
<1>4. ASSUME NEW w
      PROVE  Those(t, w) = IF e.what = w THEN Those(s, w) \cup {Len(s) + 1} ELSE Those(s, w)
  <2> HIDE DEF t
  <2>1. 1..Len(t) = (1..Len(s)) \cup {Len(s) + 1}
    BY <1>1, <1>3
  <2> QED
    BY <1>1, <1>2, <1>3, <2>1 DEF Those
<1> QED
  BY <1>1, <1>2, <1>3, <1>4

\* A stray that is taken out leaves the others, in their order.
LEMMA OneLess ==
  ASSUME NEW s \in Seq(StraySet), NEW i \in DOMAIN s
  PROVE  LET t == SubSeq(s, 1, i - 1) \o SubSeq(s, i + 1, Len(s)) IN
         /\ t \in Seq(StraySet) /\ Len(t) + 1 = Len(s)
         /\ \A w : Those(s, w) = {} => Those(t, w) = {}
         /\ \A w : (\A j, k \in Those(s, w) : j = k) =>
              /\ \A j, k \in Those(t, w) : j = k
              /\ s[i].what = w => Those(t, w) = {}
         /\ \A w : \A j \in Those(t, w) : \E k \in Those(s, w) : t[j] = s[k]
<1> DEFINE t == SubSeq(s, 1, i - 1) \o SubSeq(s, i + 1, Len(s))
           At(j) == IF j < i THEN j ELSE j + 1
<1>1. i \in 1..Len(s) /\ Len(s) \in Nat /\ DOMAIN s = 1..Len(s)
  OBVIOUS
<1>2. SubSeq(s, 1, i - 1) \in Seq(StraySet) /\ Len(SubSeq(s, 1, i - 1)) = i - 1
  BY <1>1
<1>3. SubSeq(s, i + 1, Len(s)) \in Seq(StraySet) /\ Len(SubSeq(s, i + 1, Len(s))) = Len(s) - i
  BY <1>1
<1>4. t \in Seq(StraySet) /\ Len(t) = Len(s) - 1
  BY <1>1, <1>2, <1>3
<1>5. \A j \in 1..Len(t) : t[j] = s[At(j)] /\ At(j) \in 1..Len(s) /\ At(j) # i
  <2> DEFINE a == SubSeq(s, 1, i - 1)  b == SubSeq(s, i + 1, Len(s))
  <2>1. \A j \in 1..(i - 1) : a[j] = s[j]
    BY <1>1
  <2>2. \A j \in 1..(Len(s) - i) : b[j] = s[i + j]
    BY <1>1
  <2>3. Len(a) = i - 1 /\ Len(b) = Len(s) - i /\ a \in Seq(StraySet) /\ b \in Seq(StraySet)
    BY <1>2, <1>3
  <2> HIDE DEF a, b
  <2>4. \A j \in 1..(Len(a) + Len(b)) : (a \o b)[j] = IF j <= Len(a) THEN a[j] ELSE b[j - Len(a)]
    BY <2>3, ConcatProperties
  <2>5. \A j \in 1..(Len(s) - 1) : j < i => (a \o b)[j] = s[j]
    BY <1>1, <2>1, <2>3, <2>4
  <2>6. \A j \in 1..(Len(s) - 1) : ~(j < i) => (a \o b)[j] = s[j + 1]
    <3> SUFFICES ASSUME NEW j \in 1..(Len(s) - 1), ~(j < i) PROVE (a \o b)[j] = s[j + 1]
      OBVIOUS
    <3>1. (a \o b)[j] = b[j - (i - 1)]
      BY <1>1, <2>3, <2>4
    <3>2. j - (i - 1) \in 1..(Len(s) - i) /\ i + (j - (i - 1)) = j + 1
      BY <1>1
    <3> QED
      BY <2>2, <3>1, <3>2
  <2>7. t = a \o b
    BY DEF a, b
  <2>8. Len(t) = Len(s) - 1
    BY <1>4
  <2> HIDE DEF t
  <2> QED
    BY <1>1, <2>5, <2>6, <2>7, <2>8
<1>6. DOMAIN t = 1..Len(t) /\ Len(t) \in Nat
  BY <1>4
<1>7. \A j, k \in 1..Len(t) : At(j) = At(k) => j = k
  BY <1>1, <1>6
<1> HIDE DEF t, At
<1>8. \A w : \A j \in Those(t, w) : At(j) \in Those(s, w) /\ t[j] = s[At(j)] /\ At(j) # i
  BY <1>1, <1>5, <1>6 DEF Those
<1>9. \A w : s[i].what = w => i \in Those(s, w)
  BY <1>1 DEF Those
<1>10. \A w : \A j \in Those(t, w) : j \in 1..Len(t)
  BY <1>6 DEF Those
<1>11. ASSUME NEW w, \A j, k \in Those(s, w) : j = k
       PROVE  /\ \A j, k \in Those(t, w) : j = k
              /\ s[i].what = w => Those(t, w) = {}
  BY <1>7, <1>8, <1>9, <1>10, <1>11
<1>12. Len(t) + 1 = Len(s)
  BY <1>1, <1>4
<1> QED
  BY <1>4, <1>8, <1>11, <1>12 DEF t

----------------------------------------------------------------------------
(* The invariant: one call at a time, since no two share anything but the   *)
(* lock and the connection.                                                 *)

Places == {"idle", "lock", "sent", "backoff", "stream", "wait", "output", "cancel",
           "gather", "over"}
FeedPlaces == {None, "waiting", "source", "sending"} \cup Done

CallTypes == call \in [Calls -> [at : Places, tries : Nat, result : Done \cup {None}]]
FeedTypes == feed \in [Calls -> [at : FeedPlaces, taken : Nat]]
OutTypes == out \in [Calls -> {None, "created", "reading"} \cup Done]
RequestTypes ==
    /\ input \in [Calls -> {None, "sent", "more", "closed"}]
    /\ cancel \in [Calls -> {None, "sent", "done", "unknown", "failed"}]
    /\ request \in [Calls -> {None, "sent", "served", "answered", "refused", "dropped"}]
    /\ events \in [Calls -> Seq({"ready", "exit"})]
StrayTypes == strays \in [Calls -> Seq(StraySet)]
GuestTypes ==
    /\ command \in [Calls -> {"none", "running", "exited", "killed"}]
    /\ got \in [Calls -> Seq(Nat)]
    /\ runs \in [Calls -> Nat]
Types == /\ session \in Sessions /\ CallTypes /\ FeedTypes /\ OutTypes /\ RequestTypes
         /\ StrayTypes /\ GuestTypes

\* Where the tasks and the request of a call are, by where the call is.
StageInv(c) ==
    /\ call[c].at \in {"idle", "lock"} =>
         /\ out[c] = None /\ feed[c].at = None /\ request[c] = None
         /\ call[c].result = None /\ cancel[c] = None /\ call[c].tries = 0
    /\ call[c].at \in {"sent", "backoff"} => Kind(c) = "plain"
    /\ call[c].at = "backoff" => request[c] = None
    /\ call[c].at = "stream" => Kind(c) = "stream"
    /\ call[c].at \in {"wait", "output", "cancel", "gather"} => Kind(c) = "stdin"
    /\ call[c].at \in {"wait", "output"} => out[c] \notin {None, "cancelled"} /\ cancel[c] = None
    /\ call[c].at = "output" => feed[c].at = "result"
    /\ call[c].at = "cancel" => cancel[c] \in {"sent", "done", "unknown"}
    /\ call[c].at \in {"gather", "over"} => cancel[c] # "sent"
    /\ call[c].at \in {"cancel", "gather", "over"} =>
         out[c] \in {None} \cup Done /\ feed[c].at \in {None} \cup Done
    /\ out[c] = "created" => call[c].at \in {"wait", "output"}
    /\ Kind(c) = "plain" => out[c] = None
    /\ Kind(c) # "stdin" => feed[c].at = None /\ cancel[c] = None

\* The strays of a call, by kind.
Left(c, what) == Those(strays[c], what)

\* What the command has received is what the source gave, in order, but for the
\* part on its way, of which there is one, in the request or as a stray.
InputInv(c) ==
    /\ \A i \in 1..Len(got[c]) : got[c][i] = IF i > session.chunks THEN Eof ELSE i
    /\ Len(got[c]) <= feed[c].taken
    /\ feed[c].at = None => feed[c].taken = 0
    /\ feed[c].at \in {"waiting", "source"} \/ input[c] = "more" => Len(got[c]) = feed[c].taken
    /\ input[c] = "sent" => Len(got[c]) + 1 = feed[c].taken
    /\ feed[c].at = "sending" <=> input[c] # None

LateInv(c) ==
    /\ Left(c, "input") # {} => feed[c].at \in Done /\ Len(got[c]) + 1 = feed[c].taken
    /\ \A i \in Left(c, "input") : strays[c][i].part = Carries(c)
    /\ \A i, j \in Left(c, "input") : i = j

\* A call whose feeding has failed never gets a result.
FailedInv(c) ==
    /\ c \in failed => feed[c].at = "raised"
    /\ call[c].result = "result" => feed[c].at # "raised"
    /\ call[c].result # None => feed[c].at \in {None} \cup Done

\* Before its request is sent a call has nothing in the guest.
Unsent(c) == call[c].at \in {"idle", "lock"} \/ out[c] = "created"
UnsentInv(c) == Unsent(c) =>
    /\ runs[c] = 0 /\ Left(c, "run") = {} /\ request[c] = None
    /\ events[c] = <<>> /\ command[c] = "none"
    /\ out[c] # "created" => strays[c] = <<>>

\* The request of a call with a stream is sent once and carried out once.
StreamInv(c) == Kind(c) # "plain" =>
    /\ runs[c] <= 1
    /\ request[c] = "sent" => runs[c] = 0 /\ Left(c, "run") = {} /\ events[c] = <<>>
    /\ Left(c, "run") # {} => runs[c] = 0
    /\ command[c] # "none" => runs[c] = 1
    /\ \A i, j \in Left(c, "run") : i = j
    /\ out[c] \in Done => request[c] # "sent"

\* Every attempt of a plain call is carried out at most once.
PlainInv(c) == Kind(c) = "plain" =>
    /\ runs[c] + Len(strays[c]) + (IF request[c] = "sent" THEN 1 ELSE 0)
         <= call[c].tries + (IF call[c].at \in {"sent", "over"} THEN 1 ELSE 0)
    /\ command[c] = "none"

RunInv(c) == UnsentInv(c) /\ StreamInv(c) /\ PlainInv(c)

\* The command of a call is not running and will not run any more.
Quiet(c) == command[c] # "running" /\ request[c] # "sent" /\ Left(c, "run") = {}

\* A result, or an acknowledged cancellation, means that the command is gone.
QuietInv(c) == Kind(c) = "stdin" =>
    /\ "exit" \in {events[c][i] : i \in 1..Len(events[c])} => Quiet(c)
    /\ out[c] = "result" \/ cancel[c] = "done" => Quiet(c)
    /\ call[c].at \in {"gather", "over"} => cancel[c] \in {"unknown", "failed"} \/ Quiet(c)

CallInv(c) == /\ StageInv(c) /\ InputInv(c) /\ LateInv(c) /\ FailedInv(c)
              /\ RunInv(c) /\ QuietInv(c)
HttpInv == Types /\ \A c \in Calls : CallInv(c)

----------------------------------------------------------------------------
(* A step of one call *)

\* Nothing of a call changes.
Kept(c) ==
    /\ call'[c] = call[c] /\ out'[c] = out[c] /\ feed'[c] = feed[c]
    /\ input'[c] = input[c] /\ cancel'[c] = cancel[c] /\ request'[c] = request[c]
    /\ events'[c] = events[c] /\ command'[c] = command[c] /\ got'[c] = got[c]
    /\ strays'[c] = strays[c] /\ runs'[c] = runs[c]
    /\ c \in failed' <=> c \in failed

\* A step of call d, if of any: it changes nothing of the others.
StepOf(d) == Types' /\ session' = session /\ \A c \in Calls \ {d} : Kept(c)

\* What holds of a call goes on while nothing of it changes.
LEMMA KeptStays ==
  ASSUME NEW c, CallInv(c), Kept(c), session' = session
  PROVE  CallInv(c)'
<1>1. StageInv(c)'
  BY DEF CallInv, Kept, StageInv, Kind
<1>2. InputInv(c)' /\ LateInv(c)'
  BY DEF CallInv, Kept, InputInv, LateInv, Left, Those, Carries
<1>3. FailedInv(c)'
  BY DEF CallInv, Kept, FailedInv
<1>4. RunInv(c)'
  BY DEF CallInv, Kept, RunInv, UnsentInv, StreamInv, PlainInv, Left, Those, Kind, Unsent
<1>5. QuietInv(c)'
  BY DEF CallInv, Kept, QuietInv, Left, Those, Kind, Quiet
<1> QED
  BY <1>1, <1>2, <1>3, <1>4, <1>5 DEF CallInv

\* So a step preserves the invariant if it does for its own call.
LEMMA StepOfStays ==
  ASSUME HttpInv, NEW d \in Calls, StepOf(d), CallInv(d)'
  PROVE  HttpInv'
  BY KeptStays DEF HttpInv, StepOf

\* Initially no call is made.
LEMMA HttpInit == ASSUME Init PROVE HttpInv
<1> USE HttpAssumption
<1>1. Types
  BY DEF Init, Types, CallTypes, FeedTypes, OutTypes, RequestTypes, StrayTypes,
         GuestTypes, Idle, Places, FeedPlaces, Done
<1> SUFFICES ASSUME NEW c \in Calls PROVE CallInv(c)
  BY <1>1 DEF HttpInv
<1>2. /\ call[c] = Idle /\ out[c] = None /\ feed[c] = [at |-> None, taken |-> 0]
      /\ input[c] = None /\ cancel[c] = None /\ request[c] = None /\ events[c] = <<>>
      /\ command[c] = "none" /\ got[c] = <<>> /\ strays[c] = <<>> /\ runs[c] = 0 /\ failed = {}
  BY DEF Init
<1>3. Left(c, "run") = {} /\ Left(c, "input") = {}
  BY <1>2 DEF Left, Those
<1>4. StageInv(c)
  BY <1>2 DEF StageInv, Idle, Done
<1>5. InputInv(c) /\ LateInv(c)
  BY <1>2, <1>3 DEF InputInv, LateInv
<1>6. FailedInv(c)
  BY <1>2 DEF FailedInv, Idle
<1>7. RunInv(c)
  BY <1>2, <1>3 DEF RunInv, UnsentInv, StreamInv, PlainInv, Idle, Unsent, Done
<1>8. QuietInv(c)
  BY <1>2, <1>3 DEF QuietInv, Idle, Quiet
<1> QED
  BY <1>4, <1>5, <1>6, <1>7, <1>8 DEF CallInv

----------------------------------------------------------------------------
(* Steps that concern no call, or none of what the invariant says *)

\* The connection, and what only waits.
LEMMA QuietSteps ==
  ASSUME HttpInv,
         \/ Boot \/ Attempt \/ Authenticated \/ NotYet \/ ConnectTimeout \/ Close
         \/ UNCHANGED vars
  PROVE  HttpInv'
<1>1. /\ UNCHANGED <<session, call, out, feed, input, cancel, request, events, strays>>
      /\ UNCHANGED <<command, got, runs, failed>>
  BY DEF Boot, Attempt, Authenticated, NotYet, ConnectTimeout, Close, vars, hostVars, wireVars,
         guestVars
<1>2. Types'
  BY <1>1 DEF HttpInv, Types, CallTypes, FeedTypes, OutTypes, RequestTypes, StrayTypes,
         GuestTypes
<1>3. \A c \in Calls : Kept(c)
  BY <1>1 DEF Kept
<1> QED
  BY <1>1, <1>2, <1>3, KeptStays DEF HttpInv

----------------------------------------------------------------------------
(* What an assignment to a field does *)

\* A call that is elsewhere keeps its result.
LEMMA CallGoes ==
  ASSUME CallTypes, NEW d \in Calls, NEW p \in Places, call' = [call EXCEPT ![d].at = p]
  PROVE  /\ CallTypes' /\ \A c \in Calls \ {d} : call'[c] = call[c]
         /\ call'[d].at = p /\ call'[d].tries = call[d].tries
         /\ call'[d].result = call[d].result
<1> DEFINE S == [at : Places, tries : Nat, result : Done \cup {None}]
           e == [at |-> p, tries |-> call[d].tries, result |-> call[d].result]
<1>1. call[d] \in S /\ e \in S
  BY DEF CallTypes, Places
<1>2. [call[d] EXCEPT !.at = p] = e
  BY <1>1
<1>3. call' = [call EXCEPT ![d] = [call[d] EXCEPT !.at = p]]
  BY DEF CallTypes
<1>4. call' = [call EXCEPT ![d] = e]
  BY <1>2, <1>3
<1> QED
  BY <1>1, <1>4 DEF CallTypes

\* A call that is over has its result.
LEMMA CallEnds ==
  ASSUME CallTypes, NEW d \in Calls, NEW r \in Done, Over(d, r)
  PROVE  /\ CallTypes' /\ \A c \in Calls \ {d} : call'[c] = call[c]
         /\ call'[d].at = "over" /\ call'[d].tries = call[d].tries
         /\ call'[d].result = r
<1> DEFINE S == [at : Places, tries : Nat, result : Done \cup {None}]
           e == [at |-> "over", tries |-> call[d].tries, result |-> r]
<1>1. call[d] \in S /\ e \in S
  BY DEF CallTypes, Places
<1>2. [call[d] EXCEPT !.at = "over", !.result = r] = e
  <2>1. [call[d] EXCEPT !.at = "over"] = [at |-> "over", tries |-> call[d].tries, result |-> call[d].result]
    BY <1>1
  <2>2. [[at |-> "over", tries |-> call[d].tries, result |-> call[d].result] EXCEPT !.result = r] = e
    OBVIOUS
  <2>3. [call[d] EXCEPT !.at = "over", !.result = r] = [[call[d] EXCEPT !.at = "over"] EXCEPT !.result = r]
    OBVIOUS
  <2> HIDE DEF S, e
  <2> QED
    BY <2>1, <2>2, <2>3
<1>3. call' = [call EXCEPT ![d] = [call[d] EXCEPT !.at = "over", !.result = r]]
  BY DEF CallTypes, Over
<1>4. call' = [call EXCEPT ![d] = e]
  BY <1>2, <1>3
<1> QED
  BY <1>1, <1>4 DEF CallTypes

\* A call whose tasks are cancelled has the result it got so far.
LEMMA CallWinds ==
  ASSUME CallTypes, NEW d \in Calls, NEW r \in Done \cup {None}, NEW p \in Places,
         call' = [call EXCEPT ![d].result = r, ![d].at = p]
  PROVE  /\ CallTypes' /\ \A c \in Calls \ {d} : call'[c] = call[c]
         /\ call'[d].at = p /\ call'[d].tries = call[d].tries
         /\ call'[d].result = r
<1> DEFINE S == [at : Places, tries : Nat, result : Done \cup {None}]
           e == [at |-> p, tries |-> call[d].tries, result |-> r]
<1>1. call[d] \in S /\ e \in S
  BY DEF CallTypes, Places
<1>2. [call[d] EXCEPT !.result = r, !.at = p] = e
  <2>1. [call[d] EXCEPT !.result = r] = [at |-> call[d].at, tries |-> call[d].tries, result |-> r]
    BY <1>1
  <2>2. [[at |-> call[d].at, tries |-> call[d].tries, result |-> r] EXCEPT !.at = p] = e
    OBVIOUS
  <2>3. [call[d] EXCEPT !.result = r, !.at = p] = [[call[d] EXCEPT !.result = r] EXCEPT !.at = p]
    OBVIOUS
  <2> HIDE DEF S, e
  <2> QED
    BY <2>1, <2>2, <2>3
<1>3. call' = [call EXCEPT ![d] = [call[d] EXCEPT !.result = r, !.at = p]]
  BY DEF CallTypes
<1>4. call' = [call EXCEPT ![d] = e]
  BY <1>2, <1>3
<1> QED
  BY <1>1, <1>4 DEF CallTypes

\* The task that feeds is elsewhere.
LEMMA FeedMoves ==
  ASSUME FeedTypes, NEW d \in Calls, NEW p \in FeedPlaces,
         feed' = [feed EXCEPT ![d].at = p]
  PROVE  /\ FeedTypes' /\ \A c \in Calls \ {d} : feed'[c] = feed[c]
         /\ feed'[d].at = p /\ feed'[d].taken = feed[d].taken
<1>1. feed[d] = [at |-> feed[d].at, taken |-> feed[d].taken]
  BY DEF FeedTypes
<1> DEFINE e == [at |-> p, taken |-> feed[d].taken]
<1>2. feed' = [feed EXCEPT ![d] = e]
  <2>1. [feed[d] EXCEPT !.at = p] = e
    <3>1. feed[d] \in [at : FeedPlaces, taken : Nat]
      BY DEF FeedTypes
    <3> QED
      BY <3>1
  <2>2. feed' = [feed EXCEPT ![d] = [feed[d] EXCEPT !.at = p]]
    OBVIOUS
  <2> QED
    BY <2>1, <2>2
<1>3. e \in [at : FeedPlaces, taken : Nat]
  BY DEF FeedTypes
<1> QED
  BY <1>2, <1>3 DEF FeedTypes

\* Before a request is sent nothing is left of the call in the guest.
LEMMA UnsentIsQuiet ==
  ASSUME NEW d \in Calls, CallInv(d), Unsent(d)
  PROVE  Left(d, "run") = {} /\ (out[d] # "created" => Len(strays[d]) = 0)
  BY DEF CallInv, RunInv, UnsentInv

\* A request that is given up may become a stray.
LEMMA RunLeaves ==
  ASSUME NEW d \in Calls, NEW r \in RunLeft(d), NEW s \in Seq(StraySet)
  PROVE  LET t == s \o r IN
         /\ t \in Seq(StraySet) /\ Those(t, "input") = Those(s, "input")
         /\ \A i \in Those(s, "input") : t[i] = s[i]
         /\ \/ Those(t, "run") = Those(s, "run") /\ Len(t) = Len(s)
            \/ /\ request[d] = "sent" /\ Those(t, "run") = Those(s, "run") \cup {Len(s) + 1}
               /\ Len(t) = Len(s) + 1
<1>1. CASE r = <<>>
  BY <1>1, NothingLeft
<1>2. CASE request[d] = "sent" /\ r = <<Stray("run", 0)>>
  <2> DEFINE e == Stray("run", 0)  t == s \o <<e>>
  <2>1. e \in StraySet /\ e.what = "run"
    BY DEF Stray, StraySet
  <2>2. \A i \in Those(s, "input") : i \in DOMAIN s
    BY DEF Those
  <2>3. s \o r = t
    BY <1>2
  <2> HIDE DEF e
  <2>4. /\ t \in Seq(StraySet) /\ Len(t) = Len(s) + 1 /\ \A i \in DOMAIN s : t[i] = s[i]
        /\ \A w : Those(t, w) = IF e.what = w THEN Those(s, w) \cup {Len(s) + 1} ELSE Those(s, w)
    BY <2>1, OneLeft
  <2> HIDE DEF t
  <2>5. Those(t, "input") = Those(s, "input") /\ Those(t, "run") = Those(s, "run") \cup {Len(s) + 1}
    BY <2>1, <2>4
  <2> QED
    BY <1>2, <2>2, <2>3, <2>4, <2>5
<1> QED
  BY <1>1, <1>2 DEF RunLeft

\* So may a request for input.
LEMMA InputLeaves ==
  ASSUME NEW d \in Calls, NEW i \in InputLeft(d), NEW s \in Seq(StraySet), Carries(d) \in Nat
  PROVE  LET t == s \o i IN
         /\ t \in Seq(StraySet) /\ Those(t, "run") = Those(s, "run")
         /\ \A k \in Those(s, "input") : t[k] = s[k]
         /\ \/ t = s
            \/ /\ input[d] = "sent" /\ Those(t, "input") = Those(s, "input") \cup {Len(s) + 1}
               /\ t[Len(s) + 1].part = Carries(d) /\ Len(t) = Len(s) + 1
<1>1. CASE i = <<>>
  BY <1>1, NothingLeft
<1>2. CASE input[d] = "sent" /\ i = <<Stray("input", Carries(d))>>
  <2> DEFINE e == Stray("input", Carries(d))  t == s \o <<e>>
  <2>1. e \in StraySet /\ e.what = "input" /\ e.part = Carries(d)
    BY DEF Stray, StraySet
  <2>2. \A k \in Those(s, "input") : k \in DOMAIN s
    BY DEF Those
  <2>3. s \o i = t
    BY <1>2
  <2> HIDE DEF e
  <2>4. /\ t \in Seq(StraySet) /\ Len(t) = Len(s) + 1 /\ t[Len(s) + 1] = e
        /\ \A k \in DOMAIN s : t[k] = s[k]
        /\ \A w : Those(t, w) = IF e.what = w THEN Those(s, w) \cup {Len(s) + 1} ELSE Those(s, w)
    BY <2>1, OneLeft
  <2> HIDE DEF t
  <2>5. Those(t, "run") = Those(s, "run") /\ Those(t, "input") = Those(s, "input") \cup {Len(s) + 1}
    BY <2>1, <2>4
  <2> QED
    BY <1>2, <2>1, <2>2, <2>3, <2>4, <2>5
<1> QED
  BY <1>1, <1>2 DEF InputLeft

\* What a call that gives up its request leaves.
LEMMA LeaveLeaves ==
  ASSUME StrayTypes, NEW d \in Calls, Leave(d)
  PROVE  /\ StrayTypes' /\ \A c \in Calls \ {d} : strays'[c] = strays[c]
         /\ Left(d, "input")' = Left(d, "input")
         /\ \A i \in Left(d, "input") : strays'[d][i] = strays[d][i]
         /\ request[d] # "sent" => Left(d, "run")' = Left(d, "run")
         /\ Left(d, "run") = {} => \A i, j \in Left(d, "run")' : i = j
         /\ Len(strays[d]) \in Nat /\ Len(strays'[d]) \in Nat
         /\ Len(strays'[d]) <= Len(strays[d]) + (IF request[d] = "sent" THEN 1 ELSE 0)
<1>1. PICK r \in RunLeft(d) : strays' = [strays EXCEPT ![d] = @ \o r]
  BY DEF Leave
<1>2. strays[d] \in Seq(StraySet)
  BY DEF StrayTypes
<1>3. strays[d] \o r \in Seq(StraySet)
  BY <1>2, RunLeaves
<1>4. strays'[d] = strays[d] \o r /\ \A c \in Calls \ {d} : strays'[c] = strays[c]
  BY <1>1 DEF StrayTypes
<1>5. StrayTypes'
  BY <1>1, <1>3 DEF StrayTypes
<1> DEFINE s == strays[d]  t == strays[d] \o r
<1>6. /\ Those(t, "input") = Those(s, "input") /\ \A i \in Those(s, "input") : t[i] = s[i]
      /\ \/ Those(t, "run") = Those(s, "run") /\ Len(t) = Len(s)
         \/ /\ request[d] = "sent" /\ Those(t, "run") = Those(s, "run") \cup {Len(s) + 1}
            /\ Len(t) = Len(s) + 1
  BY <1>2, RunLeaves
<1> HIDE DEF t
<1>7. strays'[d] = t
  BY <1>4 DEF t
<1>8. Len(s) \in Nat
  BY <1>2
<1>9. /\ request[d] # "sent" => Those(t, "run") = Those(s, "run")
      /\ Those(s, "run") = {} => \A i, j \in Those(t, "run") : i = j
  BY <1>6
<1>10. Len(t) \in Nat /\ Len(t) <= Len(s) + (IF request[d] = "sent" THEN 1 ELSE 0)
  <2> HIDE DEF s
  <2>1. Len(t) = Len(s) \/ (request[d] = "sent" /\ Len(t) = Len(s) + 1)
    BY <1>6
  <2> QED
    BY <1>8, <2>1
<1> QED
  BY <1>4, <1>5, <1>6, <1>7, <1>8, <1>9, <1>10 DEF Left

\* What a call that gives up a request for input leaves.
LEMMA LeaveInputLeaves ==
  ASSUME StrayTypes, FeedTypes, session \in Sessions, NEW d \in Calls, LeaveInput(d)
  PROVE  /\ StrayTypes' /\ \A c \in Calls \ {d} : strays'[c] = strays[c]
         /\ Left(d, "run")' = Left(d, "run")
         /\ \A k \in Left(d, "input") : strays'[d][k] = strays[d][k]
         /\ input[d] # "sent" => Left(d, "input")' = Left(d, "input")
         /\ Left(d, "input") = {} =>
              /\ \A k, m \in Left(d, "input")' : k = m
              /\ \A k \in Left(d, "input")' : strays'[d][k].part = Carries(d)
<1>1. PICK i \in InputLeft(d) : strays' = [strays EXCEPT ![d] = @ \o i]
  BY DEF LeaveInput
<1>2. strays[d] \in Seq(StraySet) /\ Carries(d) \in Nat
  BY HttpAssumption DEF StrayTypes, FeedTypes, Carries, Eof
<1>3. strays[d] \o i \in Seq(StraySet)
  BY <1>2, InputLeaves
<1>4. strays'[d] = strays[d] \o i /\ \A c \in Calls \ {d} : strays'[c] = strays[c]
  BY <1>1 DEF StrayTypes
<1>5. StrayTypes'
  BY <1>1, <1>3 DEF StrayTypes
<1> DEFINE s == strays[d]  t == strays[d] \o i
<1>6. /\ Those(t, "run") = Those(s, "run") /\ \A k \in Those(s, "input") : t[k] = s[k]
      /\ \/ t = s
         \/ /\ input[d] = "sent" /\ Those(t, "input") = Those(s, "input") \cup {Len(s) + 1}
            /\ t[Len(s) + 1].part = Carries(d) /\ Len(t) = Len(s) + 1
  BY <1>2, InputLeaves
<1> HIDE DEF t
<1>7. strays'[d] = t
  BY <1>4 DEF t
<1>8. /\ input[d] # "sent" => Those(t, "input") = Those(s, "input")
      /\ Those(s, "input") = {} => /\ \A k, m \in Those(t, "input") : k = m
                                  /\ \A k \in Those(t, "input") : t[k].part = Carries(d)
  BY <1>6
<1> QED
  BY <1>4, <1>5, <1>6, <1>7, <1>8 DEF Left

\* What a call that cancels its tasks leaves.
LEMMA FinallyLeaves ==
  ASSUME StrayTypes, FeedTypes, session \in Sessions, NEW d \in Calls,
         \E r \in RunLeft(d), i \in InputLeft(d) : strays' = [strays EXCEPT ![d] = @ \o r \o i]
  PROVE  /\ StrayTypes' /\ \A c \in Calls \ {d} : strays'[c] = strays[c]
         /\ request[d] # "sent" => Left(d, "run")' = Left(d, "run")
         /\ Left(d, "run") = {} => \A k, m \in Left(d, "run")' : k = m
         /\ \A k \in Left(d, "input") : strays'[d][k] = strays[d][k]
         /\ input[d] # "sent" => Left(d, "input")' = Left(d, "input")
         /\ Left(d, "input") = {} =>
              /\ \A k, m \in Left(d, "input")' : k = m
              /\ \A k \in Left(d, "input")' : strays'[d][k].part = Carries(d)
<1>1. PICK r \in RunLeft(d), i \in InputLeft(d) : strays' = [strays EXCEPT ![d] = @ \o r \o i]
  OBVIOUS
<1>2. strays[d] \in Seq(StraySet) /\ Carries(d) \in Nat
  BY HttpAssumption DEF StrayTypes, FeedTypes, Carries, Eof
<1> DEFINE s == strays[d]  m == strays[d] \o r  t == strays[d] \o r \o i
<1>3. /\ m \in Seq(StraySet) /\ Those(m, "input") = Those(s, "input")
      /\ \A k \in Those(s, "input") : m[k] = s[k]
      /\ \/ Those(m, "run") = Those(s, "run")
         \/ request[d] = "sent" /\ Those(m, "run") = Those(s, "run") \cup {Len(s) + 1}
  <2>1. /\ m \in Seq(StraySet) /\ Those(m, "input") = Those(s, "input")
        /\ \A k \in Those(s, "input") : m[k] = s[k]
        /\ \/ Those(m, "run") = Those(s, "run") /\ Len(m) = Len(s)
           \/ /\ request[d] = "sent" /\ Those(m, "run") = Those(s, "run") \cup {Len(s) + 1}
              /\ Len(m) = Len(s) + 1
    BY <1>2, RunLeaves
  <2> HIDE DEF m, s
  <2> QED
    BY <2>1
<1>4. /\ t \in Seq(StraySet) /\ Those(t, "run") = Those(m, "run")
      /\ \A k \in Those(m, "input") : t[k] = m[k]
      /\ \/ t = m
         \/ /\ input[d] = "sent" /\ Those(t, "input") = Those(m, "input") \cup {Len(m) + 1}
            /\ t[Len(m) + 1].part = Carries(d)
  <2>1. m \in Seq(StraySet) /\ t = m \o i
    BY <1>3
  <2> HIDE DEF m, t
  <2>2. LET u == m \o i IN
        /\ u \in Seq(StraySet) /\ Those(u, "run") = Those(m, "run")
        /\ \A k \in Those(m, "input") : u[k] = m[k]
        /\ \/ u = m
           \/ /\ input[d] = "sent" /\ Those(u, "input") = Those(m, "input") \cup {Len(m) + 1}
              /\ u[Len(m) + 1].part = Carries(d) /\ Len(u) = Len(m) + 1
    BY <1>2, <2>1, InputLeaves
  <2> QED
    BY <2>1, <2>2
<1>5. strays'[d] = t /\ \A c \in Calls \ {d} : strays'[c] = strays[c]
  BY <1>1 DEF StrayTypes
<1>6. StrayTypes'
  <2> HIDE DEF t
  <2>1. strays' = [strays EXCEPT ![d] = t]
    BY <1>1 DEF t
  <2> QED
    BY <2>1, <1>4 DEF StrayTypes
<1> HIDE DEF s, m, t
<1>7. s = strays[d]
  BY DEF s
<1>8. /\ request[d] # "sent" => Those(t, "run") = Those(s, "run")
      /\ Those(s, "run") = {} => \A k, n \in Those(t, "run") : k = n
  BY <1>3, <1>4
<1>9. \A k \in Those(s, "input") : t[k] = s[k]
  BY <1>3, <1>4
<1>10. /\ input[d] # "sent" => Those(t, "input") = Those(s, "input")
       /\ Those(s, "input") = {} => /\ \A k, n \in Those(t, "input") : k = n
                                   /\ \A k \in Those(t, "input") : t[k].part = Carries(d)
  BY <1>3, <1>4
<1> QED
  BY <1>5, <1>6, <1>7, <1>8, <1>9, <1>10 DEF Left

\* A call that tries again has one attempt more.
LEMMA CallRetries ==
  ASSUME CallTypes, NEW d \in Calls,
         call' = [call EXCEPT ![d].at = "backoff", ![d].tries = @ + 1]
  PROVE  /\ CallTypes' /\ \A c \in Calls \ {d} : call'[c] = call[c]
         /\ call'[d].at = "backoff" /\ call'[d].tries = call[d].tries + 1
         /\ call'[d].result = call[d].result
<1> DEFINE S == [at : Places, tries : Nat, result : Done \cup {None}]
           a == [at |-> "backoff", tries |-> call[d].tries, result |-> call[d].result]
           e == [at |-> "backoff", tries |-> call[d].tries + 1, result |-> call[d].result]
<1>1. call[d] \in S /\ e \in S
  BY DEF CallTypes, Places
<1>2. [call[d] EXCEPT !.at = "backoff"] = a
  BY <1>1
<1>3. [a EXCEPT !.tries = call[d].tries + 1] = e
  OBVIOUS
<1>4. call' = [call EXCEPT ![d] = [[call[d] EXCEPT !.at = "backoff"]
                                     EXCEPT !.tries = call[d].tries + 1]]
  BY <1>1 DEF CallTypes
<1>5. call' = [call EXCEPT ![d] = e]
  BY <1>2, <1>3, <1>4
<1> QED
  BY <1>1, <1>5 DEF CallTypes

\* A cancel request that is given up may become a stray.
LEMMA LeaveCancelLeaves ==
  ASSUME StrayTypes, NEW d \in Calls, LeaveCancel(d)
  PROVE  /\ StrayTypes' /\ \A c \in Calls \ {d} : strays'[c] = strays[c]
         /\ Left(d, "run")' = Left(d, "run") /\ Left(d, "input")' = Left(d, "input")
         /\ \A i \in Left(d, "input") : strays'[d][i] = strays[d][i]
<1>1. CASE UNCHANGED strays
  BY <1>1 DEF StrayTypes, Left
<1>2. CASE strays' = [strays EXCEPT ![d] = Append(@, Stray("cancel", 0))]
  <2> DEFINE s == strays[d]  e == Stray("cancel", 0)  t == s \o <<e>>
  <2>1. s \in Seq(StraySet) /\ e \in StraySet /\ e.what = "cancel"
    BY DEF Stray, StraySet, StrayTypes
  <2>2. Append(s, e) = t
    BY <2>1, AppendIsConcat
  <2>3. strays' = [strays EXCEPT ![d] = t]
    BY <1>2, <2>2
  <2>4. \A i \in Those(s, "input") : i \in DOMAIN s
    BY DEF Those
  <2> HIDE DEF e
  <2>5. /\ t \in Seq(StraySet) /\ Len(t) = Len(s) + 1 /\ \A i \in DOMAIN s : t[i] = s[i]
        /\ \A w : Those(t, w) = IF e.what = w THEN Those(s, w) \cup {Len(s) + 1} ELSE Those(s, w)
    BY <2>1, OneLeft
  <2> HIDE DEF t
  <2>6. Those(t, "run") = Those(s, "run") /\ Those(t, "input") = Those(s, "input")
    BY <2>1, <2>5
  <2>7. StrayTypes' /\ strays'[d] = t /\ \A c \in Calls \ {d} : strays'[c] = strays[c]
    BY <2>3, <2>5 DEF StrayTypes
  <2> QED
    BY <2>4, <2>5, <2>6, <2>7 DEF Left
<1> QED
  BY <1>1, <1>2 DEF LeaveCancel

\* Strays that stay do what they did, if the feeding has not moved.
LEMMA LateStays ==
  ASSUME NEW d \in Calls, LateInv(d), Left(d, "input")' = Left(d, "input"),
         \A i \in Left(d, "input") : strays'[d][i] = strays[d][i],
         feed'[d] = feed[d], Len(got'[d]) = Len(got[d]), session' = session
  PROVE  LateInv(d)'
<1>1. Carries(d)' = Carries(d)
  BY DEF Carries
<1>2. \A i \in Left(d, "input")' : strays'[d][i].part = Carries(d)'
  BY <1>1 DEF LateInv
<1> QED
  BY <1>2 DEF LateInv

\* A call waits for the lock.
LEMMA BeginWaits ==
  ASSUME HttpInv, NEW d \in Calls, Begin(d), open
  PROVE  HttpInv'
<1> USE HttpAssumption
<1>1. CallInv(d) /\ Types
  BY DEF HttpInv
<1>2. /\ call[d].at = "idle"
      /\ session' = session
      /\ UNCHANGED <<out, feed, input, cancel, request, events, strays, command, got, runs, failed>>
  BY <1>1 DEF Begin, open, wireVars, guestVars, hostVars, Finished
<1>3. /\ CallTypes' /\ \A c \in Calls \ {d} : call'[c] = call[c]
      /\ call'[d].at = "lock" /\ call'[d].tries = call[d].tries
      /\ call'[d].result = call[d].result
  <2>1. "lock" \in Places /\ call' = [call EXCEPT ![d].at = "lock"]
    BY <1>1 DEF Begin, open, wireVars, guestVars, hostVars, Places
  <2> QED
    BY <1>1, <2>1, CallGoes DEF Types
<1>4. StepOf(d)
  <2>1. Types'
    BY <1>1, <1>2, <1>3 DEF Types, CallTypes, FeedTypes, OutTypes, RequestTypes, StrayTypes,
         GuestTypes, Done
  <2>2. \A c \in Calls \ {d} : Kept(c)
    BY <1>1, <1>2, <1>3 DEF Types, OutTypes, RequestTypes, StrayTypes, GuestTypes, Kept
  <2> QED
    BY <1>2, <2>1, <2>2 DEF StepOf
<1>5. StageInv(d)'
  BY <1>1, <1>2, <1>3 DEF CallInv, StageInv, Done, Types, CallTypes, FeedTypes, OutTypes,
       RequestTypes, StrayTypes, GuestTypes, Kind
<1>6. InputInv(d)'
  BY <1>1, <1>2, <1>3 DEF CallInv, InputInv, StageInv, Done, Types, CallTypes, FeedTypes,
       OutTypes, RequestTypes, StrayTypes, GuestTypes, Kind
<1>7. LateInv(d)'
  BY <1>1, <1>2, <1>3 DEF CallInv, LateInv, StageInv, InputInv, Left, Carries, Done, Types,
       CallTypes, FeedTypes, OutTypes, RequestTypes, StrayTypes, GuestTypes, Kind
<1>8. FailedInv(d)'
  BY <1>1, <1>2, <1>3 DEF CallInv, FailedInv, StageInv, Done, Types, CallTypes, FeedTypes,
       OutTypes, RequestTypes, StrayTypes, GuestTypes, Kind
<1>9. UnsentInv(d)'
  BY <1>1, <1>2, <1>3 DEF CallInv, UnsentInv, StageInv, RunInv, Left, Unsent, Done, Types,
       CallTypes, FeedTypes, OutTypes, RequestTypes, StrayTypes, GuestTypes, Kind
<1>10. StreamInv(d)'
  BY <1>1, <1>2, <1>3 DEF CallInv, StreamInv, StageInv, RunInv, UnsentInv, Left, Unsent,
       Done, Types, CallTypes, FeedTypes, OutTypes, RequestTypes, StrayTypes, GuestTypes,
       Kind
<1>11. PlainInv(d)'
  BY <1>1, <1>2, <1>3 DEF CallInv, PlainInv, StageInv, RunInv, UnsentInv, Unsent, Done,
       Types, CallTypes, FeedTypes, OutTypes, RequestTypes, StrayTypes, GuestTypes, Kind
<1>12. QuietInv(d)'
  BY <1>1, <1>2, <1>3 DEF CallInv, QuietInv, StageInv, Left, Quiet, Done, Types, CallTypes,
       FeedTypes, OutTypes, RequestTypes, StrayTypes, GuestTypes, Kind
<1> QED
  BY <1>4, <1>5, <1>6, <1>7, <1>8, <1>9, <1>10, <1>11, <1>12, StepOfStays DEF CallInv, RunInv

\* A call on a client that is closed raises.
LEMMA BeginRefused ==
  ASSUME HttpInv, NEW d \in Calls, Begin(d), ~open
  PROVE  HttpInv'
<1> USE HttpAssumption
<1>1. CallInv(d) /\ Types
  BY DEF HttpInv
<1>2. /\ call[d].at = "idle"
      /\ session' = session
      /\ UNCHANGED <<out, feed, input, cancel, request, events, strays, command, got, runs, failed>>
  BY <1>1 DEF Begin, open, wireVars, guestVars, hostVars, Finished
<1>3. /\ CallTypes' /\ \A c \in Calls \ {d} : call'[c] = call[c]
      /\ call'[d].at = "over" /\ call'[d].tries = call[d].tries
      /\ call'[d].result = "raised"
  <2>1. "raised" \in Done /\ Over(d, "raised")
    BY <1>1, <1>2 DEF Begin, open, wireVars, guestVars, hostVars, Done
  <2> QED
    BY <1>1, <2>1, CallEnds DEF Types
<1>4. StepOf(d)
  <2>1. Types'
    BY <1>1, <1>2, <1>3 DEF Types, CallTypes, FeedTypes, OutTypes, RequestTypes, StrayTypes,
         GuestTypes, Done
  <2>2. \A c \in Calls \ {d} : Kept(c)
    BY <1>1, <1>2, <1>3 DEF Types, OutTypes, RequestTypes, StrayTypes, GuestTypes, Kept
  <2> QED
    BY <1>2, <2>1, <2>2 DEF StepOf
<1>5. Left(d, "run") = {} /\ (out[d] # "created" => Len(strays[d]) = 0)
  BY <1>1, <1>2, UnsentIsQuiet DEF Unsent
<1>6. StageInv(d)'
  BY <1>1, <1>2, <1>3, <1>5 DEF CallInv, StageInv, Done, Types, CallTypes, FeedTypes,
       OutTypes, RequestTypes, StrayTypes, GuestTypes, Kind
<1>7. InputInv(d)'
  BY <1>1, <1>2, <1>3, <1>5 DEF CallInv, InputInv, StageInv, Done, Types, CallTypes,
       FeedTypes, OutTypes, RequestTypes, StrayTypes, GuestTypes, Kind
<1>8. LateInv(d)'
  BY <1>1, <1>2, <1>3, <1>5 DEF CallInv, LateInv, StageInv, InputInv, Left, Carries, Done,
       Types, CallTypes, FeedTypes, OutTypes, RequestTypes, StrayTypes, GuestTypes, Kind
<1>9. FailedInv(d)'
  BY <1>1, <1>2, <1>3, <1>5 DEF CallInv, FailedInv, StageInv, Done, Types, CallTypes,
       FeedTypes, OutTypes, RequestTypes, StrayTypes, GuestTypes, Kind
<1>10. UnsentInv(d)'
  BY <1>1, <1>2, <1>3, <1>5 DEF CallInv, UnsentInv, StageInv, RunInv, Left, Unsent, Done,
       Types, CallTypes, FeedTypes, OutTypes, RequestTypes, StrayTypes, GuestTypes, Kind
<1>11. StreamInv(d)'
  BY <1>1, <1>2, <1>3, <1>5 DEF CallInv, StreamInv, StageInv, RunInv, UnsentInv, Left,
       Unsent, Done, Types, CallTypes, FeedTypes, OutTypes, RequestTypes, StrayTypes,
       GuestTypes, Kind
<1>12. PlainInv(d)'
  BY <1>1, <1>2, <1>3, <1>5 DEF CallInv, PlainInv, StageInv, RunInv, UnsentInv, Unsent,
       Done, Types, CallTypes, FeedTypes, OutTypes, RequestTypes, StrayTypes, GuestTypes,
       Kind
<1>13. QuietInv(d)'
  BY <1>1, <1>2, <1>3, <1>5 DEF CallInv, QuietInv, StageInv, Left, Quiet, Done, RunInv,
       UnsentInv, Unsent, Types, CallTypes, FeedTypes, OutTypes, RequestTypes, StrayTypes,
       GuestTypes, Kind
<1> QED
  BY <1>4, <1>6, <1>7, <1>8, <1>9, <1>10, <1>11, <1>12, <1>13, StepOfStays DEF CallInv, RunInv

\* On a client that was closed meanwhile the call raises when it gets the lock.
LEMMA LockTooLateStep ==
  ASSUME HttpInv, NEW d \in Calls, LockTooLate(d)
  PROVE  HttpInv'
<1> USE HttpAssumption
<1>1. CallInv(d) /\ Types
  BY DEF HttpInv
<1>2. /\ call[d].at = "lock" /\ Kind(d) # "stdin"
      /\ session' = session
      /\ UNCHANGED <<out, feed, input, cancel, request, events, strays, command, got, runs, failed>>
  BY <1>1 DEF LockTooLate, wireVars, guestVars, hostVars, Finished
<1>3. /\ CallTypes' /\ \A c \in Calls \ {d} : call'[c] = call[c]
      /\ call'[d].at = "over" /\ call'[d].tries = call[d].tries
      /\ call'[d].result = "raised"
  <2>1. "raised" \in Done /\ Over(d, "raised")
    BY <1>1, <1>2 DEF LockTooLate, wireVars, guestVars, hostVars, Done
  <2> QED
    BY <1>1, <2>1, CallEnds DEF Types
<1>4. StepOf(d)
  <2>1. Types'
    BY <1>1, <1>2, <1>3 DEF Types, CallTypes, FeedTypes, OutTypes, RequestTypes, StrayTypes,
         GuestTypes, Done
  <2>2. \A c \in Calls \ {d} : Kept(c)
    BY <1>1, <1>2, <1>3 DEF Types, OutTypes, RequestTypes, StrayTypes, GuestTypes, Kept
  <2> QED
    BY <1>2, <2>1, <2>2 DEF StepOf
<1>5. Left(d, "run") = {} /\ (out[d] # "created" => Len(strays[d]) = 0)
  BY <1>1, <1>2, UnsentIsQuiet DEF Unsent
<1>6. StageInv(d)'
  BY <1>1, <1>2, <1>3, <1>5 DEF CallInv, StageInv, Done, Types, CallTypes, FeedTypes,
       OutTypes, RequestTypes, StrayTypes, GuestTypes, Kind
<1>7. InputInv(d)'
  BY <1>1, <1>2, <1>3, <1>5 DEF CallInv, InputInv, StageInv, Done, Types, CallTypes,
       FeedTypes, OutTypes, RequestTypes, StrayTypes, GuestTypes, Kind
<1>8. LateInv(d)'
  BY <1>1, <1>2, <1>3, <1>5 DEF CallInv, LateInv, StageInv, InputInv, Left, Carries, Done,
       Types, CallTypes, FeedTypes, OutTypes, RequestTypes, StrayTypes, GuestTypes, Kind
<1>9. FailedInv(d)'
  BY <1>1, <1>2, <1>3, <1>5 DEF CallInv, FailedInv, StageInv, Done, Types, CallTypes,
       FeedTypes, OutTypes, RequestTypes, StrayTypes, GuestTypes, Kind
<1>10. UnsentInv(d)'
  BY <1>1, <1>2, <1>3, <1>5 DEF CallInv, UnsentInv, StageInv, RunInv, Left, Unsent, Done,
       Types, CallTypes, FeedTypes, OutTypes, RequestTypes, StrayTypes, GuestTypes, Kind
<1>11. StreamInv(d)'
  BY <1>1, <1>2, <1>3, <1>5 DEF CallInv, StreamInv, StageInv, RunInv, UnsentInv, Left,
       Unsent, Done, Types, CallTypes, FeedTypes, OutTypes, RequestTypes, StrayTypes,
       GuestTypes, Kind
<1>12. PlainInv(d)'
  BY <1>1, <1>2, <1>3, <1>5 DEF CallInv, PlainInv, StageInv, RunInv, UnsentInv, Unsent,
       Done, Types, CallTypes, FeedTypes, OutTypes, RequestTypes, StrayTypes, GuestTypes,
       Kind
<1>13. QuietInv(d)'
  BY <1>1, <1>2, <1>3, <1>5 DEF CallInv, QuietInv, StageInv, Left, Quiet, Done, Types,
       CallTypes, FeedTypes, OutTypes, RequestTypes, StrayTypes, GuestTypes, Kind
<1> QED
  BY <1>4, <1>6, <1>7, <1>8, <1>9, <1>10, <1>11, <1>12, <1>13, StepOfStays DEF CallInv, RunInv

\* A plain call with the lock sends its request for the first time.
LEMMA SendPlainStep ==
  ASSUME HttpInv, NEW d \in Calls, SendPlain(d)
  PROVE  HttpInv'
<1> USE HttpAssumption
<1>1. CallInv(d) /\ Types
  BY DEF HttpInv
<1>2. /\ call[d].at = "lock" /\ Kind(d) = "plain"
      /\ session' = session
      /\ UNCHANGED <<out, feed, input, cancel, events, strays, command, got, runs, failed>>
      /\ request' = [request EXCEPT ![d] = "sent"]
  BY <1>1 DEF SendPlain, wireVars, guestVars, hostVars, Finished
<1>3. /\ CallTypes' /\ \A c \in Calls \ {d} : call'[c] = call[c]
      /\ call'[d].at = "sent" /\ call'[d].tries = call[d].tries
      /\ call'[d].result = call[d].result
  <2>1. "sent" \in Places /\ call' = [call EXCEPT ![d].at = "sent"]
    BY <1>1 DEF SendPlain, wireVars, guestVars, hostVars, Places
  <2> QED
    BY <1>1, <2>1, CallGoes DEF Types
<1>4. StepOf(d)
  <2>1. Types'
    BY <1>1, <1>2, <1>3 DEF Types, CallTypes, FeedTypes, OutTypes, RequestTypes, StrayTypes,
         GuestTypes, Done
  <2>2. \A c \in Calls \ {d} : Kept(c)
    BY <1>1, <1>2, <1>3 DEF Types, OutTypes, RequestTypes, StrayTypes, GuestTypes, Kept
  <2> QED
    BY <1>2, <2>1, <2>2 DEF StepOf
<1>5. Left(d, "run") = {} /\ (out[d] # "created" => Len(strays[d]) = 0)
  BY <1>1, <1>2, UnsentIsQuiet DEF Unsent
<1>6. StageInv(d)'
  BY <1>1, <1>2, <1>3, <1>5 DEF CallInv, StageInv, Done, Types, CallTypes, FeedTypes,
       OutTypes, RequestTypes, StrayTypes, GuestTypes, Kind
<1>7. InputInv(d)'
  BY <1>1, <1>2, <1>3, <1>5 DEF CallInv, InputInv, StageInv, Done, Types, CallTypes,
       FeedTypes, OutTypes, RequestTypes, StrayTypes, GuestTypes, Kind
<1>8. LateInv(d)'
  BY <1>1, <1>2, <1>3, <1>5 DEF CallInv, LateInv, StageInv, InputInv, Left, Carries, Done,
       Types, CallTypes, FeedTypes, OutTypes, RequestTypes, StrayTypes, GuestTypes, Kind
<1>9. FailedInv(d)'
  BY <1>1, <1>2, <1>3, <1>5 DEF CallInv, FailedInv, StageInv, Done, Types, CallTypes,
       FeedTypes, OutTypes, RequestTypes, StrayTypes, GuestTypes, Kind
<1>10. UnsentInv(d)'
  BY <1>1, <1>2, <1>3, <1>5 DEF CallInv, UnsentInv, StageInv, RunInv, Left, Unsent, Done,
       Types, CallTypes, FeedTypes, OutTypes, RequestTypes, StrayTypes, GuestTypes, Kind
<1>11. StreamInv(d)'
  BY <1>1, <1>2, <1>3, <1>5 DEF CallInv, StreamInv, StageInv, RunInv, UnsentInv, Left,
       Unsent, Done, Types, CallTypes, FeedTypes, OutTypes, RequestTypes, StrayTypes,
       GuestTypes, Kind
<1>12. PlainInv(d)'
  BY <1>1, <1>2, <1>3, <1>5 DEF CallInv, PlainInv, StageInv, RunInv, UnsentInv, Unsent,
       Done, Types, CallTypes, FeedTypes, OutTypes, RequestTypes, StrayTypes, GuestTypes,
       Kind
<1>13. QuietInv(d)'
  BY <1>1, <1>2, <1>3, <1>5 DEF CallInv, QuietInv, StageInv, Left, Quiet, Done, Types,
       CallTypes, FeedTypes, OutTypes, RequestTypes, StrayTypes, GuestTypes, Kind
<1> QED
  BY <1>4, <1>6, <1>7, <1>8, <1>9, <1>10, <1>11, <1>12, <1>13, StepOfStays DEF CallInv, RunInv

\* A streaming call sends its request, once, and reads what comes.
LEMMA SendStreamStep ==
  ASSUME HttpInv, NEW d \in Calls, SendStream(d)
  PROVE  HttpInv'
<1> USE HttpAssumption
<1>1. CallInv(d) /\ Types
  BY DEF HttpInv
<1>2. /\ call[d].at = "lock" /\ Kind(d) = "stream"
      /\ session' = session
      /\ UNCHANGED <<feed, input, cancel, events, strays, command, got, runs, failed>>
      /\ request' = [request EXCEPT ![d] = "sent"]
      /\ out' = [out EXCEPT ![d] = "reading"]
  BY <1>1 DEF SendStream, wireVars, guestVars, hostVars, Finished
<1>3. /\ CallTypes' /\ \A c \in Calls \ {d} : call'[c] = call[c]
      /\ call'[d].at = "stream" /\ call'[d].tries = call[d].tries
      /\ call'[d].result = call[d].result
  <2>1. "stream" \in Places /\ call' = [call EXCEPT ![d].at = "stream"]
    BY <1>1 DEF SendStream, wireVars, guestVars, hostVars, Places
  <2> QED
    BY <1>1, <2>1, CallGoes DEF Types
<1>4. StepOf(d)
  <2>1. Types'
    BY <1>1, <1>2, <1>3 DEF Types, CallTypes, FeedTypes, OutTypes, RequestTypes, StrayTypes,
         GuestTypes, Done
  <2>2. \A c \in Calls \ {d} : Kept(c)
    BY <1>1, <1>2, <1>3 DEF Types, OutTypes, RequestTypes, StrayTypes, GuestTypes, Kept
  <2> QED
    BY <1>2, <2>1, <2>2 DEF StepOf
<1>5. Left(d, "run") = {} /\ (out[d] # "created" => Len(strays[d]) = 0)
  BY <1>1, <1>2, UnsentIsQuiet DEF Unsent
<1>6. StageInv(d)'
  BY <1>1, <1>2, <1>3, <1>5 DEF CallInv, StageInv, Done, Types, CallTypes, FeedTypes,
       OutTypes, RequestTypes, StrayTypes, GuestTypes, Kind
<1>7. InputInv(d)'
  BY <1>1, <1>2, <1>3, <1>5 DEF CallInv, InputInv, StageInv, Done, Types, CallTypes,
       FeedTypes, OutTypes, RequestTypes, StrayTypes, GuestTypes, Kind
<1>8. LateInv(d)'
  BY <1>1, <1>2, <1>3, <1>5 DEF CallInv, LateInv, StageInv, InputInv, Left, Carries, Done,
       Types, CallTypes, FeedTypes, OutTypes, RequestTypes, StrayTypes, GuestTypes, Kind
<1>9. FailedInv(d)'
  BY <1>1, <1>2, <1>3, <1>5 DEF CallInv, FailedInv, StageInv, Done, Types, CallTypes,
       FeedTypes, OutTypes, RequestTypes, StrayTypes, GuestTypes, Kind
<1>10. UnsentInv(d)'
  BY <1>1, <1>2, <1>3, <1>5 DEF CallInv, UnsentInv, StageInv, RunInv, Left, Unsent, Done,
       Types, CallTypes, FeedTypes, OutTypes, RequestTypes, StrayTypes, GuestTypes, Kind
<1>11. StreamInv(d)'
  BY <1>1, <1>2, <1>3, <1>5 DEF CallInv, StreamInv, StageInv, RunInv, UnsentInv, Left,
       Unsent, Done, Types, CallTypes, FeedTypes, OutTypes, RequestTypes, StrayTypes,
       GuestTypes, Kind
<1>12. PlainInv(d)'
  BY <1>1, <1>2, <1>3, <1>5 DEF CallInv, PlainInv, StageInv, RunInv, UnsentInv, Unsent,
       Done, Types, CallTypes, FeedTypes, OutTypes, RequestTypes, StrayTypes, GuestTypes,
       Kind
<1>13. QuietInv(d)'
  BY <1>1, <1>2, <1>3, <1>5 DEF CallInv, QuietInv, StageInv, Left, Quiet, Done, Types,
       CallTypes, FeedTypes, OutTypes, RequestTypes, StrayTypes, GuestTypes, Kind
<1> QED
  BY <1>4, <1>6, <1>7, <1>8, <1>9, <1>10, <1>11, <1>12, <1>13, StepOfStays DEF CallInv, RunInv

\* A call with input starts its two tasks: one for the output, one that feeds.
LEMMA StartTasksStep ==
  ASSUME HttpInv, NEW d \in Calls, StartTasks(d)
  PROVE  HttpInv'
<1> USE HttpAssumption
<1>1. CallInv(d) /\ Types
  BY DEF HttpInv
<1>2. /\ call[d].at = "lock" /\ Kind(d) = "stdin"
      /\ session' = session
      /\ UNCHANGED <<input, cancel, request, events, strays, command, got, runs, failed>>
      /\ out' = [out EXCEPT ![d] = "created"]
  BY <1>1 DEF StartTasks, wireVars, guestVars, hostVars, Finished
<1>3. /\ CallTypes' /\ \A c \in Calls \ {d} : call'[c] = call[c]
      /\ call'[d].at = "wait" /\ call'[d].tries = call[d].tries
      /\ call'[d].result = call[d].result
  <2>1. "wait" \in Places /\ call' = [call EXCEPT ![d].at = "wait"]
    BY <1>1 DEF StartTasks, wireVars, guestVars, hostVars, Places
  <2> QED
    BY <1>1, <2>1, CallGoes DEF Types
<1>4. /\ FeedTypes' /\ \A c \in Calls \ {d} : feed'[c] = feed[c]
      /\ feed'[d].at = "waiting" /\ feed'[d].taken = feed[d].taken
  <2>1. "waiting" \in FeedPlaces /\ feed' = [feed EXCEPT ![d].at = "waiting"]
    BY DEF StartTasks, wireVars, guestVars, hostVars, FeedPlaces, Done
  <2> QED
    BY <1>1, <2>1, FeedMoves DEF Types
<1>5. StepOf(d)
  <2>1. Types'
    BY <1>1, <1>2, <1>3, <1>4 DEF Types, CallTypes, FeedTypes, OutTypes, RequestTypes,
         StrayTypes, GuestTypes, Done
  <2>2. \A c \in Calls \ {d} : Kept(c)
    BY <1>1, <1>2, <1>3, <1>4 DEF Types, OutTypes, RequestTypes, StrayTypes, GuestTypes,
         Kept
  <2> QED
    BY <1>2, <2>1, <2>2 DEF StepOf
<1>6. Left(d, "run") = {} /\ (out[d] # "created" => Len(strays[d]) = 0)
  BY <1>1, <1>2, UnsentIsQuiet DEF Unsent
<1>7. StageInv(d)'
  BY <1>1, <1>2, <1>3, <1>4, <1>6 DEF CallInv, StageInv, Done, Types, CallTypes, FeedTypes,
       OutTypes, RequestTypes, StrayTypes, GuestTypes, Kind
<1>8. InputInv(d)'
  BY <1>1, <1>2, <1>3, <1>4, <1>6 DEF CallInv, InputInv, StageInv, Done, Types, CallTypes,
       FeedTypes, OutTypes, RequestTypes, StrayTypes, GuestTypes, Kind
<1>9. LateInv(d)'
  BY <1>1, <1>2, <1>3, <1>4, <1>6 DEF CallInv, LateInv, StageInv, InputInv, Left, Carries,
       Done, Types, CallTypes, FeedTypes, OutTypes, RequestTypes, StrayTypes, GuestTypes,
       Kind
<1>10. FailedInv(d)'
  BY <1>1, <1>2, <1>3, <1>4, <1>6 DEF CallInv, FailedInv, StageInv, Done, Types, CallTypes,
       FeedTypes, OutTypes, RequestTypes, StrayTypes, GuestTypes, Kind
<1>11. UnsentInv(d)'
  BY <1>1, <1>2, <1>3, <1>4, <1>6 DEF CallInv, UnsentInv, StageInv, RunInv, Left, Unsent,
       Done, Types, CallTypes, FeedTypes, OutTypes, RequestTypes, StrayTypes, GuestTypes,
       Kind
<1>12. StreamInv(d)'
  BY <1>1, <1>2, <1>3, <1>4, <1>6 DEF CallInv, StreamInv, StageInv, RunInv, UnsentInv, Left,
       Unsent, Done, Types, CallTypes, FeedTypes, OutTypes, RequestTypes, StrayTypes,
       GuestTypes, Kind
<1>13. PlainInv(d)'
  BY <1>1, <1>2, <1>3, <1>4, <1>6 DEF CallInv, PlainInv, StageInv, RunInv, UnsentInv,
       Unsent, Done, Types, CallTypes, FeedTypes, OutTypes, RequestTypes, StrayTypes,
       GuestTypes, Kind
<1>14. QuietInv(d)'
  BY <1>1, <1>2, <1>3, <1>4, <1>6 DEF CallInv, QuietInv, StageInv, Left, Quiet, Done, Types,
       CallTypes, FeedTypes, OutTypes, RequestTypes, StrayTypes, GuestTypes, Kind
<1> QED
  BY <1>5, <1>7, <1>8, <1>9, <1>10, <1>11, <1>12, <1>13, <1>14, StepOfStays DEF CallInv, RunInv

\* The output task sends the only request of the call, unless the client is closed.
LEMMA StartOutputStep ==
  ASSUME HttpInv, NEW d \in Calls, StartOutput(d)
  PROVE  HttpInv'
<1> USE HttpAssumption
<1>1. CallInv(d) /\ Types
  BY DEF HttpInv
<1>2. /\ out[d] = "created"
      /\ session' = session
      /\ UNCHANGED <<call, feed, input, cancel, events, strays, command, got, runs, failed>>
      /\ out' = [out EXCEPT ![d] = IF open THEN "reading" ELSE "raised"]
      /\ request' = [request EXCEPT ![d] = IF open THEN "sent" ELSE None]
  BY <1>1 DEF StartOutput, wireVars, guestVars, hostVars, Finished
<1>3. StepOf(d)
  <2>1. Types'
    BY <1>1, <1>2 DEF Types, CallTypes, FeedTypes, OutTypes, RequestTypes, StrayTypes,
         GuestTypes, Done
  <2>2. \A c \in Calls \ {d} : Kept(c)
    BY <1>1, <1>2 DEF Types, OutTypes, RequestTypes, StrayTypes, GuestTypes, Kept
  <2> QED
    BY <1>2, <2>1, <2>2 DEF StepOf
<1>4. Left(d, "run") = {} /\ (out[d] # "created" => Len(strays[d]) = 0)
  BY <1>1, <1>2, UnsentIsQuiet DEF Unsent
<1>5. StageInv(d)'
  BY <1>1, <1>2, <1>4 DEF CallInv, StageInv, Done, Types, CallTypes, FeedTypes, OutTypes,
       RequestTypes, StrayTypes, GuestTypes, Kind
<1>6. InputInv(d)'
  BY <1>1, <1>2, <1>4 DEF CallInv, InputInv, StageInv, Done, Types, CallTypes, FeedTypes,
       OutTypes, RequestTypes, StrayTypes, GuestTypes, Kind
<1>7. LateInv(d)'
  BY <1>1, <1>2, <1>4 DEF CallInv, LateInv, StageInv, InputInv, Left, Carries, Done, Types,
       CallTypes, FeedTypes, OutTypes, RequestTypes, StrayTypes, GuestTypes, Kind
<1>8. FailedInv(d)'
  BY <1>1, <1>2, <1>4 DEF CallInv, FailedInv, StageInv, Done, Types, CallTypes, FeedTypes,
       OutTypes, RequestTypes, StrayTypes, GuestTypes, Kind
<1>9. UnsentInv(d)'
  BY <1>1, <1>2, <1>4 DEF CallInv, UnsentInv, StageInv, RunInv, Left, Unsent, Done, Types,
       CallTypes, FeedTypes, OutTypes, RequestTypes, StrayTypes, GuestTypes, Kind
<1>10. StreamInv(d)'
  BY <1>1, <1>2, <1>4 DEF CallInv, StreamInv, StageInv, RunInv, UnsentInv, Left, Unsent,
       Done, Types, CallTypes, FeedTypes, OutTypes, RequestTypes, StrayTypes, GuestTypes,
       Kind
<1>11. PlainInv(d)'
  BY <1>1, <1>2, <1>4 DEF CallInv, PlainInv, StageInv, RunInv, UnsentInv, Unsent, Done,
       Types, CallTypes, FeedTypes, OutTypes, RequestTypes, StrayTypes, GuestTypes, Kind
<1>12. QuietInv(d)'
  BY <1>1, <1>2, <1>4 DEF CallInv, QuietInv, StageInv, Left, Quiet, Done, RunInv, UnsentInv,
       Unsent, Types, CallTypes, FeedTypes, OutTypes, RequestTypes, StrayTypes, GuestTypes,
       Kind
<1> QED
  BY <1>3, <1>5, <1>6, <1>7, <1>8, <1>9, <1>10, <1>11, <1>12, StepOfStays DEF CallInv, RunInv

\* A plain call ends with what the guest answered.
LEMMA AnsweredStep ==
  ASSUME HttpInv, NEW d \in Calls, Answered(d)
  PROVE  HttpInv'
<1> USE HttpAssumption
<1>1. CallInv(d) /\ Types
  BY DEF HttpInv
<1>2. /\ call[d].at = "sent" /\ request[d] # "sent"
      /\ session' = session
      /\ UNCHANGED <<out, feed, input, cancel, events, strays, command, got, runs, failed>>
      /\ request' = [request EXCEPT ![d] = None]
  BY <1>1 DEF Answered, wireVars, guestVars, hostVars, Finished
<1>3. /\ CallTypes' /\ \A c \in Calls \ {d} : call'[c] = call[c]
      /\ call'[d].at = "over" /\ call'[d].tries = call[d].tries
      /\ call'[d].result = (IF request[d] = "answered" THEN "result" ELSE "error")
  <2>1. (IF request[d] = "answered" THEN "result" ELSE "error") \in Done /\ Over(d, (IF request[d] = "answered" THEN "result" ELSE "error"))
    BY <1>1, <1>2 DEF Answered, wireVars, guestVars, hostVars, Done
  <2> QED
    BY <1>1, <2>1, CallEnds DEF Types
<1>4. StepOf(d)
  <2>1. Types'
    BY <1>1, <1>2, <1>3 DEF Types, CallTypes, FeedTypes, OutTypes, RequestTypes, StrayTypes,
         GuestTypes, Done
  <2>2. \A c \in Calls \ {d} : Kept(c)
    BY <1>1, <1>2, <1>3 DEF Types, OutTypes, RequestTypes, StrayTypes, GuestTypes, Kept
  <2> QED
    BY <1>2, <2>1, <2>2 DEF StepOf
<1>5. StageInv(d)'
  BY <1>1, <1>2, <1>3 DEF CallInv, StageInv, Done, Types, CallTypes, FeedTypes, OutTypes,
       RequestTypes, StrayTypes, GuestTypes, Kind
<1>6. InputInv(d)'
  BY <1>1, <1>2, <1>3 DEF CallInv, InputInv, StageInv, Done, Types, CallTypes, FeedTypes,
       OutTypes, RequestTypes, StrayTypes, GuestTypes, Kind
<1>7. LateInv(d)'
  BY <1>1, <1>2, <1>3 DEF CallInv, LateInv, StageInv, InputInv, Left, Carries, Done, Types,
       CallTypes, FeedTypes, OutTypes, RequestTypes, StrayTypes, GuestTypes, Kind
<1>8. FailedInv(d)'
  BY <1>1, <1>2, <1>3 DEF CallInv, FailedInv, StageInv, Done, Types, CallTypes, FeedTypes,
       OutTypes, RequestTypes, StrayTypes, GuestTypes, Kind
<1>9. UnsentInv(d)'
  BY <1>1, <1>2, <1>3 DEF CallInv, UnsentInv, StageInv, RunInv, Left, Unsent, Done, Types,
       CallTypes, FeedTypes, OutTypes, RequestTypes, StrayTypes, GuestTypes, Kind
<1>10. StreamInv(d)'
  BY <1>1, <1>2, <1>3 DEF CallInv, StreamInv, StageInv, RunInv, UnsentInv, Left, Unsent,
       Done, Types, CallTypes, FeedTypes, OutTypes, RequestTypes, StrayTypes, GuestTypes,
       Kind
<1>11. PlainInv(d)'
  BY <1>1, <1>2, <1>3 DEF CallInv, PlainInv, StageInv, RunInv, UnsentInv, Unsent, Done,
       Types, CallTypes, FeedTypes, OutTypes, RequestTypes, StrayTypes, GuestTypes, Kind
<1>12. QuietInv(d)'
  BY <1>1, <1>2, <1>3 DEF CallInv, QuietInv, StageInv, Left, Quiet, Done, Types, CallTypes,
       FeedTypes, OutTypes, RequestTypes, StrayTypes, GuestTypes, Kind
<1> QED
  BY <1>4, <1>5, <1>6, <1>7, <1>8, <1>9, <1>10, <1>11, <1>12, StepOfStays DEF CallInv, RunInv

\* After the backoff the request is sent again: one more attempt.
LEMMA ResendSends ==
  ASSUME HttpInv, NEW d \in Calls, Resend(d), open
  PROVE  HttpInv'
<1> USE HttpAssumption
<1>1. CallInv(d) /\ Types
  BY DEF HttpInv
<1>2. /\ call[d].at = "backoff"
      /\ session' = session
      /\ UNCHANGED <<out, feed, input, cancel, events, strays, command, got, runs, failed>>
      /\ request' = [request EXCEPT ![d] = "sent"]
  BY <1>1 DEF Resend, open, wireVars, guestVars, hostVars, Finished
<1>3. /\ CallTypes' /\ \A c \in Calls \ {d} : call'[c] = call[c]
      /\ call'[d].at = "sent" /\ call'[d].tries = call[d].tries
      /\ call'[d].result = call[d].result
  <2>1. "sent" \in Places /\ call' = [call EXCEPT ![d].at = "sent"]
    BY <1>1 DEF Resend, open, wireVars, guestVars, hostVars, Places
  <2> QED
    BY <1>1, <2>1, CallGoes DEF Types
<1>4. StepOf(d)
  <2>1. Types'
    BY <1>1, <1>2, <1>3 DEF Types, CallTypes, FeedTypes, OutTypes, RequestTypes, StrayTypes,
         GuestTypes, Done
  <2>2. \A c \in Calls \ {d} : Kept(c)
    BY <1>1, <1>2, <1>3 DEF Types, OutTypes, RequestTypes, StrayTypes, GuestTypes, Kept
  <2> QED
    BY <1>2, <2>1, <2>2 DEF StepOf
<1>5. StageInv(d)'
  BY <1>1, <1>2, <1>3 DEF CallInv, StageInv, Done, Types, CallTypes, FeedTypes, OutTypes,
       RequestTypes, StrayTypes, GuestTypes, Kind
<1>6. InputInv(d)'
  BY <1>1, <1>2, <1>3 DEF CallInv, InputInv, StageInv, Done, Types, CallTypes, FeedTypes,
       OutTypes, RequestTypes, StrayTypes, GuestTypes, Kind
<1>7. LateInv(d)'
  BY <1>1, <1>2, <1>3 DEF CallInv, LateInv, StageInv, InputInv, Left, Carries, Done, Types,
       CallTypes, FeedTypes, OutTypes, RequestTypes, StrayTypes, GuestTypes, Kind
<1>8. FailedInv(d)'
  BY <1>1, <1>2, <1>3 DEF CallInv, FailedInv, StageInv, Done, Types, CallTypes, FeedTypes,
       OutTypes, RequestTypes, StrayTypes, GuestTypes, Kind
<1>9. UnsentInv(d)'
  BY <1>1, <1>2, <1>3 DEF CallInv, UnsentInv, StageInv, RunInv, Left, Unsent, Done, Types,
       CallTypes, FeedTypes, OutTypes, RequestTypes, StrayTypes, GuestTypes, Kind
<1>10. StreamInv(d)'
  BY <1>1, <1>2, <1>3 DEF CallInv, StreamInv, StageInv, RunInv, UnsentInv, Left, Unsent,
       Done, Types, CallTypes, FeedTypes, OutTypes, RequestTypes, StrayTypes, GuestTypes,
       Kind
<1>11. PlainInv(d)'
  BY <1>1, <1>2, <1>3 DEF CallInv, PlainInv, StageInv, RunInv, UnsentInv, Unsent, Done,
       Types, CallTypes, FeedTypes, OutTypes, RequestTypes, StrayTypes, GuestTypes, Kind
<1>12. QuietInv(d)'
  BY <1>1, <1>2, <1>3 DEF CallInv, QuietInv, StageInv, Left, Quiet, Done, Types, CallTypes,
       FeedTypes, OutTypes, RequestTypes, StrayTypes, GuestTypes, Kind
<1> QED
  BY <1>4, <1>5, <1>6, <1>7, <1>8, <1>9, <1>10, <1>11, <1>12, StepOfStays DEF CallInv, RunInv

\* After the backoff the client is closed.
LEMMA ResendRaises ==
  ASSUME HttpInv, NEW d \in Calls, Resend(d), ~open
  PROVE  HttpInv'
<1> USE HttpAssumption
<1>1. CallInv(d) /\ Types
  BY DEF HttpInv
<1>2. /\ call[d].at = "backoff"
      /\ session' = session
      /\ UNCHANGED <<out, feed, input, cancel, request, events, strays, command, got, runs, failed>>
  BY <1>1 DEF Resend, open, wireVars, guestVars, hostVars, Finished
<1>3. /\ CallTypes' /\ \A c \in Calls \ {d} : call'[c] = call[c]
      /\ call'[d].at = "over" /\ call'[d].tries = call[d].tries
      /\ call'[d].result = "raised"
  <2>1. "raised" \in Done /\ Over(d, "raised")
    BY <1>1, <1>2 DEF Resend, open, wireVars, guestVars, hostVars, Done
  <2> QED
    BY <1>1, <2>1, CallEnds DEF Types
<1>4. StepOf(d)
  <2>1. Types'
    BY <1>1, <1>2, <1>3 DEF Types, CallTypes, FeedTypes, OutTypes, RequestTypes, StrayTypes,
         GuestTypes, Done
  <2>2. \A c \in Calls \ {d} : Kept(c)
    BY <1>1, <1>2, <1>3 DEF Types, OutTypes, RequestTypes, StrayTypes, GuestTypes, Kept
  <2> QED
    BY <1>2, <2>1, <2>2 DEF StepOf
<1>5. StageInv(d)'
  BY <1>1, <1>2, <1>3 DEF CallInv, StageInv, Done, Types, CallTypes, FeedTypes, OutTypes,
       RequestTypes, StrayTypes, GuestTypes, Kind
<1>6. InputInv(d)'
  BY <1>1, <1>2, <1>3 DEF CallInv, InputInv, StageInv, Done, Types, CallTypes, FeedTypes,
       OutTypes, RequestTypes, StrayTypes, GuestTypes, Kind
<1>7. LateInv(d)'
  BY <1>1, <1>2, <1>3 DEF CallInv, LateInv, StageInv, InputInv, Left, Carries, Done, Types,
       CallTypes, FeedTypes, OutTypes, RequestTypes, StrayTypes, GuestTypes, Kind
<1>8. FailedInv(d)'
  BY <1>1, <1>2, <1>3 DEF CallInv, FailedInv, StageInv, Done, Types, CallTypes, FeedTypes,
       OutTypes, RequestTypes, StrayTypes, GuestTypes, Kind
<1>9. UnsentInv(d)'
  BY <1>1, <1>2, <1>3 DEF CallInv, UnsentInv, StageInv, RunInv, Left, Unsent, Done, Types,
       CallTypes, FeedTypes, OutTypes, RequestTypes, StrayTypes, GuestTypes, Kind
<1>10. StreamInv(d)'
  BY <1>1, <1>2, <1>3 DEF CallInv, StreamInv, StageInv, RunInv, UnsentInv, Left, Unsent,
       Done, Types, CallTypes, FeedTypes, OutTypes, RequestTypes, StrayTypes, GuestTypes,
       Kind
<1>11. PlainInv(d)'
  BY <1>1, <1>2, <1>3 DEF CallInv, PlainInv, StageInv, RunInv, UnsentInv, Unsent, Done,
       Types, CallTypes, FeedTypes, OutTypes, RequestTypes, StrayTypes, GuestTypes, Kind
<1>12. QuietInv(d)'
  BY <1>1, <1>2, <1>3 DEF CallInv, QuietInv, StageInv, Left, Quiet, Done, Types, CallTypes,
       FeedTypes, OutTypes, RequestTypes, StrayTypes, GuestTypes, Kind
<1> QED
  BY <1>4, <1>5, <1>6, <1>7, <1>8, <1>9, <1>10, <1>11, <1>12, StepOfStays DEF CallInv, RunInv

\* The output task reads that the command is ready for input.
LEMMA ReadReady ==
  ASSUME HttpInv, NEW d \in Calls, ReadEvent(d), Head(events[d]) = "ready"
  PROVE  HttpInv'
<1> USE HttpAssumption
<1>1. CallInv(d) /\ Types
  BY DEF HttpInv
<1>2. /\ out[d] = "reading" /\ events[d] # <<>>
      /\ session' = session
      /\ UNCHANGED <<call, out, feed, input, cancel, request, strays, command, got, runs, failed>>
      /\ events' = [events EXCEPT ![d] = Tail(@)]
  BY <1>1 DEF ReadEvent, Types, OutTypes, wireVars, guestVars, hostVars, Finished
<1>3. StepOf(d)
  <2>1. Types'
    BY <1>1, <1>2 DEF Types, CallTypes, FeedTypes, OutTypes, RequestTypes, StrayTypes,
         GuestTypes, Done
  <2>2. \A c \in Calls \ {d} : Kept(c)
    BY <1>1, <1>2 DEF Types, OutTypes, RequestTypes, StrayTypes, GuestTypes, Kept
  <2> QED
    BY <1>2, <2>1, <2>2 DEF StepOf
<1>4. StageInv(d)'
  BY <1>1, <1>2 DEF CallInv, StageInv, Done, Types, CallTypes, FeedTypes, OutTypes,
       RequestTypes, StrayTypes, GuestTypes, Kind
<1>5. InputInv(d)'
  BY <1>1, <1>2 DEF CallInv, InputInv, StageInv, Done, Types, CallTypes, FeedTypes,
       OutTypes, RequestTypes, StrayTypes, GuestTypes, Kind
<1>6. LateInv(d)'
  BY <1>1, <1>2 DEF CallInv, LateInv, StageInv, InputInv, Left, Carries, Done, Types,
       CallTypes, FeedTypes, OutTypes, RequestTypes, StrayTypes, GuestTypes, Kind
<1>7. FailedInv(d)'
  BY <1>1, <1>2 DEF CallInv, FailedInv, StageInv, Done, Types, CallTypes, FeedTypes,
       OutTypes, RequestTypes, StrayTypes, GuestTypes, Kind
<1>8. UnsentInv(d)'
  BY <1>1, <1>2 DEF CallInv, UnsentInv, StageInv, RunInv, Left, Unsent, Done, Types,
       CallTypes, FeedTypes, OutTypes, RequestTypes, StrayTypes, GuestTypes, Kind
<1>9. StreamInv(d)'
  BY <1>1, <1>2 DEF CallInv, StreamInv, StageInv, RunInv, UnsentInv, Left, Unsent, Done,
       Types, CallTypes, FeedTypes, OutTypes, RequestTypes, StrayTypes, GuestTypes, Kind
<1>10. PlainInv(d)'
  BY <1>1, <1>2 DEF CallInv, PlainInv, StageInv, RunInv, UnsentInv, Unsent, Done, Types,
       CallTypes, FeedTypes, OutTypes, RequestTypes, StrayTypes, GuestTypes, Kind
<1>11. QuietInv(d)'
  BY <1>1, <1>2 DEF CallInv, QuietInv, StageInv, Left, Quiet, Done, Types, CallTypes,
       FeedTypes, OutTypes, RequestTypes, StrayTypes, GuestTypes, Kind
<1> QED
  BY <1>3, <1>4, <1>5, <1>6, <1>7, <1>8, <1>9, <1>10, <1>11, StepOfStays DEF CallInv, RunInv

\* The output task reads how the command ended, an event that only its end writes.
LEMMA ReadEnd ==
  ASSUME HttpInv, NEW d \in Calls, ReadEvent(d), Head(events[d]) # "ready"
  PROVE  HttpInv'
<1> USE HttpAssumption
<1>1. CallInv(d) /\ Types
  BY DEF HttpInv
<1>2. /\ out[d] = "reading" /\ events[d] # <<>>
      /\ session' = session
      /\ UNCHANGED <<call, feed, input, cancel, request, strays, command, got, runs, failed>>
      /\ events' = [events EXCEPT ![d] = Tail(@)]
      /\ out' = [out EXCEPT ![d] = "result"]
  BY <1>1 DEF ReadEvent, wireVars, guestVars, hostVars, Finished
<1>3. StepOf(d)
  <2>1. Types'
    BY <1>1, <1>2 DEF Types, CallTypes, FeedTypes, OutTypes, RequestTypes, StrayTypes,
         GuestTypes, Done
  <2>2. \A c \in Calls \ {d} : Kept(c)
    BY <1>1, <1>2 DEF Types, OutTypes, RequestTypes, StrayTypes, GuestTypes, Kept
  <2> QED
    BY <1>2, <2>1, <2>2 DEF StepOf
<1>4. StageInv(d)'
  BY <1>1, <1>2 DEF CallInv, StageInv, Done, Types, CallTypes, FeedTypes, OutTypes,
       RequestTypes, StrayTypes, GuestTypes, Kind
<1>5. InputInv(d)'
  BY <1>1, <1>2 DEF CallInv, InputInv, StageInv, Done, Types, CallTypes, FeedTypes,
       OutTypes, RequestTypes, StrayTypes, GuestTypes, Kind
<1>6. LateInv(d)'
  BY <1>1, <1>2 DEF CallInv, LateInv, StageInv, InputInv, Left, Carries, Done, Types,
       CallTypes, FeedTypes, OutTypes, RequestTypes, StrayTypes, GuestTypes, Kind
<1>7. FailedInv(d)'
  BY <1>1, <1>2 DEF CallInv, FailedInv, StageInv, Done, Types, CallTypes, FeedTypes,
       OutTypes, RequestTypes, StrayTypes, GuestTypes, Kind
<1>8. UnsentInv(d)'
  BY <1>1, <1>2 DEF CallInv, UnsentInv, StageInv, RunInv, Left, Unsent, Done, Types,
       CallTypes, FeedTypes, OutTypes, RequestTypes, StrayTypes, GuestTypes, Kind
<1>9. StreamInv(d)'
  BY <1>1, <1>2 DEF CallInv, StreamInv, StageInv, RunInv, UnsentInv, Left, Unsent, Done,
       Types, CallTypes, FeedTypes, OutTypes, RequestTypes, StrayTypes, GuestTypes, Kind
<1>10. PlainInv(d)'
  BY <1>1, <1>2 DEF CallInv, PlainInv, StageInv, RunInv, UnsentInv, Unsent, Done, Types,
       CallTypes, FeedTypes, OutTypes, RequestTypes, StrayTypes, GuestTypes, Kind
<1>11. QuietInv(d)'
  BY <1>1, <1>2 DEF CallInv, QuietInv, StageInv, Left, Quiet, Done, Types, CallTypes,
       FeedTypes, OutTypes, RequestTypes, StrayTypes, GuestTypes, Kind
<1> QED
  BY <1>3, <1>4, <1>5, <1>6, <1>7, <1>8, <1>9, <1>10, <1>11, StepOfStays DEF CallInv, RunInv

\* The response ends without the event that is expected.
LEMMA StreamEndsStep ==
  ASSUME HttpInv, NEW d \in Calls, StreamEnds(d)
  PROVE  HttpInv'
<1> USE HttpAssumption
<1>1. CallInv(d) /\ Types
  BY DEF HttpInv
<1>2. /\ out[d] = "reading" /\ request[d] # "sent"
      /\ session' = session
      /\ UNCHANGED <<call, feed, input, cancel, request, events, strays, command, got, runs, failed>>
      /\ out' = [out EXCEPT ![d] = IF request[d] = "answered" /\ Kind(d) = "stream" THEN "result" ELSE "error"]
  BY <1>1 DEF StreamEnds, wireVars, guestVars, hostVars, Finished
<1>3. StepOf(d)
  <2>1. Types'
    BY <1>1, <1>2 DEF Types, CallTypes, FeedTypes, OutTypes, RequestTypes, StrayTypes,
         GuestTypes, Done
  <2>2. \A c \in Calls \ {d} : Kept(c)
    BY <1>1, <1>2 DEF Types, OutTypes, RequestTypes, StrayTypes, GuestTypes, Kept
  <2> QED
    BY <1>2, <2>1, <2>2 DEF StepOf
<1>4. StageInv(d)'
  BY <1>1, <1>2 DEF CallInv, StageInv, Done, Types, CallTypes, FeedTypes, OutTypes,
       RequestTypes, StrayTypes, GuestTypes, Kind
<1>5. InputInv(d)'
  BY <1>1, <1>2 DEF CallInv, InputInv, StageInv, Done, Types, CallTypes, FeedTypes,
       OutTypes, RequestTypes, StrayTypes, GuestTypes, Kind
<1>6. LateInv(d)'
  BY <1>1, <1>2 DEF CallInv, LateInv, StageInv, InputInv, Left, Carries, Done, Types,
       CallTypes, FeedTypes, OutTypes, RequestTypes, StrayTypes, GuestTypes, Kind
<1>7. FailedInv(d)'
  BY <1>1, <1>2 DEF CallInv, FailedInv, StageInv, Done, Types, CallTypes, FeedTypes,
       OutTypes, RequestTypes, StrayTypes, GuestTypes, Kind
<1>8. UnsentInv(d)'
  BY <1>1, <1>2 DEF CallInv, UnsentInv, StageInv, RunInv, Left, Unsent, Done, Types,
       CallTypes, FeedTypes, OutTypes, RequestTypes, StrayTypes, GuestTypes, Kind
<1>9. StreamInv(d)'
  BY <1>1, <1>2 DEF CallInv, StreamInv, StageInv, RunInv, UnsentInv, Left, Unsent, Done,
       Types, CallTypes, FeedTypes, OutTypes, RequestTypes, StrayTypes, GuestTypes, Kind
<1>10. PlainInv(d)'
  BY <1>1, <1>2 DEF CallInv, PlainInv, StageInv, RunInv, UnsentInv, Unsent, Done, Types,
       CallTypes, FeedTypes, OutTypes, RequestTypes, StrayTypes, GuestTypes, Kind
<1>11. QuietInv(d)'
  BY <1>1, <1>2 DEF CallInv, QuietInv, StageInv, Left, Quiet, Done, Types, CallTypes,
       FeedTypes, OutTypes, RequestTypes, StrayTypes, GuestTypes, Kind
<1> QED
  BY <1>3, <1>4, <1>5, <1>6, <1>7, <1>8, <1>9, <1>10, <1>11, StepOfStays DEF CallInv, RunInv

\* A streaming call returns what its reader got.
LEMMA StreamReturnsStep ==
  ASSUME HttpInv, NEW d \in Calls, StreamReturns(d)
  PROVE  HttpInv'
<1> USE HttpAssumption
<1>1. CallInv(d) /\ Types
  BY DEF HttpInv
<1>2. /\ call[d].at = "stream"
      /\ out[d] \in Done
      /\ session' = session
      /\ UNCHANGED <<out, feed, input, cancel, request, events, strays, command, got, runs, failed>>
  BY <1>1 DEF StreamReturns, wireVars, guestVars, hostVars, Finished
<1>3. /\ CallTypes' /\ \A c \in Calls \ {d} : call'[c] = call[c]
      /\ call'[d].at = "over" /\ call'[d].tries = call[d].tries
      /\ call'[d].result = out[d]
  <2>1. out[d] \in Done /\ Over(d, out[d])
    BY <1>1, <1>2 DEF StreamReturns, wireVars, guestVars, hostVars, Done
  <2> QED
    BY <1>1, <2>1, CallEnds DEF Types
<1>4. StepOf(d)
  <2>1. Types'
    BY <1>1, <1>2, <1>3 DEF Types, CallTypes, FeedTypes, OutTypes, RequestTypes, StrayTypes,
         GuestTypes, Done
  <2>2. \A c \in Calls \ {d} : Kept(c)
    BY <1>1, <1>2, <1>3 DEF Types, OutTypes, RequestTypes, StrayTypes, GuestTypes, Kept
  <2> QED
    BY <1>2, <2>1, <2>2 DEF StepOf
<1>5. StageInv(d)'
  BY <1>1, <1>2, <1>3 DEF CallInv, StageInv, Done, Types, CallTypes, FeedTypes, OutTypes,
       RequestTypes, StrayTypes, GuestTypes, Kind
<1>6. InputInv(d)'
  BY <1>1, <1>2, <1>3 DEF CallInv, InputInv, StageInv, Done, Types, CallTypes, FeedTypes,
       OutTypes, RequestTypes, StrayTypes, GuestTypes, Kind
<1>7. LateInv(d)'
  BY <1>1, <1>2, <1>3 DEF CallInv, LateInv, StageInv, InputInv, Left, Carries, Done, Types,
       CallTypes, FeedTypes, OutTypes, RequestTypes, StrayTypes, GuestTypes, Kind
<1>8. FailedInv(d)'
  BY <1>1, <1>2, <1>3 DEF CallInv, FailedInv, StageInv, Done, Types, CallTypes, FeedTypes,
       OutTypes, RequestTypes, StrayTypes, GuestTypes, Kind
<1>9. UnsentInv(d)'
  BY <1>1, <1>2, <1>3 DEF CallInv, UnsentInv, StageInv, RunInv, Left, Unsent, Done, Types,
       CallTypes, FeedTypes, OutTypes, RequestTypes, StrayTypes, GuestTypes, Kind
<1>10. StreamInv(d)'
  BY <1>1, <1>2, <1>3 DEF CallInv, StreamInv, StageInv, RunInv, UnsentInv, Left, Unsent,
       Done, Types, CallTypes, FeedTypes, OutTypes, RequestTypes, StrayTypes, GuestTypes,
       Kind
<1>11. PlainInv(d)'
  BY <1>1, <1>2, <1>3 DEF CallInv, PlainInv, StageInv, RunInv, UnsentInv, Unsent, Done,
       Types, CallTypes, FeedTypes, OutTypes, RequestTypes, StrayTypes, GuestTypes, Kind
<1>12. QuietInv(d)'
  BY <1>1, <1>2, <1>3 DEF CallInv, QuietInv, StageInv, Left, Quiet, Done, Types, CallTypes,
       FeedTypes, OutTypes, RequestTypes, StrayTypes, GuestTypes, Kind
<1> QED
  BY <1>4, <1>5, <1>6, <1>7, <1>8, <1>9, <1>10, <1>11, <1>12, StepOfStays DEF CallInv, RunInv

\* The feeding task is told to begin, or that the output is over already.
LEMMA FeedReadyStep ==
  ASSUME HttpInv, NEW d \in Calls, FeedReady(d)
  PROVE  HttpInv'
<1> USE HttpAssumption
<1>1. CallInv(d) /\ Types
  BY DEF HttpInv
<1>2. /\ feed[d].at = "waiting"
      /\ session' = session
      /\ UNCHANGED <<call, out, input, cancel, request, events, strays, command, got, runs, failed>>
  BY <1>1 DEF FeedReady, Feeding, Looks, Finished, wireVars, guestVars, hostVars, Finished
<1>3. /\ FeedTypes' /\ \A c \in Calls \ {d} : feed'[c] = feed[c]
      /\ feed'[d].at = (IF out[d] \in Done THEN "result" ELSE "source") /\ feed'[d].taken = feed[d].taken
  <2>1. (IF out[d] \in Done THEN "result" ELSE "source") \in FeedPlaces /\ feed' = [feed EXCEPT ![d].at = (IF out[d] \in Done THEN "result" ELSE "source")]
    BY DEF FeedReady, Feeding, Looks, Finished, wireVars, guestVars, hostVars, FeedPlaces,
         Done
  <2> QED
    BY <1>1, <2>1, FeedMoves DEF Types
<1>4. StepOf(d)
  <2>1. Types'
    BY <1>1, <1>2, <1>3 DEF Types, CallTypes, FeedTypes, OutTypes, RequestTypes, StrayTypes,
         GuestTypes, Done
  <2>2. \A c \in Calls \ {d} : Kept(c)
    BY <1>1, <1>2, <1>3 DEF Types, OutTypes, RequestTypes, StrayTypes, GuestTypes, Kept
  <2> QED
    BY <1>2, <2>1, <2>2 DEF StepOf
<1>5. StageInv(d)'
  BY <1>1, <1>2, <1>3 DEF CallInv, StageInv, Done, Types, CallTypes, FeedTypes, OutTypes,
       RequestTypes, StrayTypes, GuestTypes, Kind
<1>6. InputInv(d)'
  BY <1>1, <1>2, <1>3 DEF CallInv, InputInv, StageInv, Done, Types, CallTypes, FeedTypes,
       OutTypes, RequestTypes, StrayTypes, GuestTypes, Kind
<1>7. LateInv(d)'
  BY <1>1, <1>2, <1>3 DEF CallInv, LateInv, StageInv, InputInv, Left, Carries, Done, Types,
       CallTypes, FeedTypes, OutTypes, RequestTypes, StrayTypes, GuestTypes, Kind
<1>8. FailedInv(d)'
  BY <1>1, <1>2, <1>3 DEF CallInv, FailedInv, StageInv, Done, Types, CallTypes, FeedTypes,
       OutTypes, RequestTypes, StrayTypes, GuestTypes, Kind
<1>9. UnsentInv(d)'
  BY <1>1, <1>2, <1>3 DEF CallInv, UnsentInv, StageInv, RunInv, Left, Unsent, Done, Types,
       CallTypes, FeedTypes, OutTypes, RequestTypes, StrayTypes, GuestTypes, Kind
<1>10. StreamInv(d)'
  BY <1>1, <1>2, <1>3 DEF CallInv, StreamInv, StageInv, RunInv, UnsentInv, Left, Unsent,
       Done, Types, CallTypes, FeedTypes, OutTypes, RequestTypes, StrayTypes, GuestTypes,
       Kind
<1>11. PlainInv(d)'
  BY <1>1, <1>2, <1>3 DEF CallInv, PlainInv, StageInv, RunInv, UnsentInv, Unsent, Done,
       Types, CallTypes, FeedTypes, OutTypes, RequestTypes, StrayTypes, GuestTypes, Kind
<1>12. QuietInv(d)'
  BY <1>1, <1>2, <1>3 DEF CallInv, QuietInv, StageInv, Left, Quiet, Done, Types, CallTypes,
       FeedTypes, OutTypes, RequestTypes, StrayTypes, GuestTypes, Kind
<1> QED
  BY <1>4, <1>5, <1>6, <1>7, <1>8, <1>9, <1>10, <1>11, <1>12, StepOfStays DEF CallInv, RunInv

\* The feeding task sees before it reads the source that the output is over.
LEMMA TakeTooLate ==
  ASSUME HttpInv, NEW d \in Calls, TakeChunk(d), Finished(d)
  PROVE  HttpInv'
<1> USE HttpAssumption
<1>1. CallInv(d) /\ Types
  BY DEF HttpInv
<1>2. /\ feed[d].at = "source"
      /\ session' = session
      /\ UNCHANGED <<call, out, input, cancel, request, events, strays, command, got, runs, failed>>
  BY <1>1 DEF TakeChunk, Feeding, Finished, wireVars, guestVars, hostVars, Finished
<1>3. /\ FeedTypes' /\ \A c \in Calls \ {d} : feed'[c] = feed[c]
      /\ feed'[d].at = "result" /\ feed'[d].taken = feed[d].taken
  <2>1. "result" \in FeedPlaces /\ feed' = [feed EXCEPT ![d].at = "result"]
    BY DEF TakeChunk, Feeding, Finished, wireVars, guestVars, hostVars, FeedPlaces, Done
  <2> QED
    BY <1>1, <2>1, FeedMoves DEF Types
<1>4. StepOf(d)
  <2>1. Types'
    BY <1>1, <1>2, <1>3 DEF Types, CallTypes, FeedTypes, OutTypes, RequestTypes, StrayTypes,
         GuestTypes, Done
  <2>2. \A c \in Calls \ {d} : Kept(c)
    BY <1>1, <1>2, <1>3 DEF Types, OutTypes, RequestTypes, StrayTypes, GuestTypes, Kept
  <2> QED
    BY <1>2, <2>1, <2>2 DEF StepOf
<1>5. StageInv(d)'
  BY <1>1, <1>2, <1>3 DEF CallInv, StageInv, Done, Types, CallTypes, FeedTypes, OutTypes,
       RequestTypes, StrayTypes, GuestTypes, Kind
<1>6. InputInv(d)'
  BY <1>1, <1>2, <1>3 DEF CallInv, InputInv, StageInv, Done, Types, CallTypes, FeedTypes,
       OutTypes, RequestTypes, StrayTypes, GuestTypes, Kind
<1>7. LateInv(d)'
  BY <1>1, <1>2, <1>3 DEF CallInv, LateInv, StageInv, InputInv, Left, Carries, Done, Types,
       CallTypes, FeedTypes, OutTypes, RequestTypes, StrayTypes, GuestTypes, Kind
<1>8. FailedInv(d)'
  BY <1>1, <1>2, <1>3 DEF CallInv, FailedInv, StageInv, Done, Types, CallTypes, FeedTypes,
       OutTypes, RequestTypes, StrayTypes, GuestTypes, Kind
<1>9. UnsentInv(d)'
  BY <1>1, <1>2, <1>3 DEF CallInv, UnsentInv, StageInv, RunInv, Left, Unsent, Done, Types,
       CallTypes, FeedTypes, OutTypes, RequestTypes, StrayTypes, GuestTypes, Kind
<1>10. StreamInv(d)'
  BY <1>1, <1>2, <1>3 DEF CallInv, StreamInv, StageInv, RunInv, UnsentInv, Left, Unsent,
       Done, Types, CallTypes, FeedTypes, OutTypes, RequestTypes, StrayTypes, GuestTypes,
       Kind
<1>11. PlainInv(d)'
  BY <1>1, <1>2, <1>3 DEF CallInv, PlainInv, StageInv, RunInv, UnsentInv, Unsent, Done,
       Types, CallTypes, FeedTypes, OutTypes, RequestTypes, StrayTypes, GuestTypes, Kind
<1>12. QuietInv(d)'
  BY <1>1, <1>2, <1>3 DEF CallInv, QuietInv, StageInv, Left, Quiet, Done, Types, CallTypes,
       FeedTypes, OutTypes, RequestTypes, StrayTypes, GuestTypes, Kind
<1> QED
  BY <1>4, <1>5, <1>6, <1>7, <1>8, <1>9, <1>10, <1>11, <1>12, StepOfStays DEF CallInv, RunInv

\* The feeding task has a part and no client to send it with.
LEMMA TakeFails ==
  ASSUME HttpInv, NEW d \in Calls, TakeChunk(d), ~Finished(d), ~open
  PROVE  HttpInv'
<1> USE HttpAssumption
<1>1. CallInv(d) /\ Types
  BY DEF HttpInv
<1>2. /\ feed[d].at = "source"
      /\ out[d] \notin Done
      /\ session' = session
      /\ UNCHANGED <<call, out, input, cancel, request, events, strays, command, got, runs>>
      /\ failed' = failed \cup {d}
  BY <1>1 DEF TakeChunk, Feeding, FeedFails, open, Done, wireVars, guestVars, hostVars,
       Finished
<1>3. /\ FeedTypes' /\ \A c \in Calls \ {d} : feed'[c] = feed[c]
      /\ feed'[d].at = "raised" /\ feed'[d].taken = feed[d].taken
  <2>1. "raised" \in FeedPlaces /\ feed' = [feed EXCEPT ![d].at = "raised"]
    BY DEF TakeChunk, Feeding, FeedFails, open, Done, wireVars, guestVars, hostVars,
         FeedPlaces, Done
  <2> QED
    BY <1>1, <2>1, FeedMoves DEF Types
<1>4. StepOf(d)
  <2>1. Types'
    BY <1>1, <1>2, <1>3 DEF Types, CallTypes, FeedTypes, OutTypes, RequestTypes, StrayTypes,
         GuestTypes, Done
  <2>2. \A c \in Calls \ {d} : Kept(c)
    BY <1>1, <1>2, <1>3 DEF Types, OutTypes, RequestTypes, StrayTypes, GuestTypes, Kept
  <2> QED
    BY <1>2, <2>1, <2>2 DEF StepOf
<1>5. StageInv(d)'
  BY <1>1, <1>2, <1>3 DEF CallInv, StageInv, Done, Types, CallTypes, FeedTypes, OutTypes,
       RequestTypes, StrayTypes, GuestTypes, Kind
<1>6. InputInv(d)'
  BY <1>1, <1>2, <1>3 DEF CallInv, InputInv, StageInv, Done, Types, CallTypes, FeedTypes,
       OutTypes, RequestTypes, StrayTypes, GuestTypes, Kind
<1>7. LateInv(d)'
  BY <1>1, <1>2, <1>3 DEF CallInv, LateInv, StageInv, InputInv, Left, Carries, Done, Types,
       CallTypes, FeedTypes, OutTypes, RequestTypes, StrayTypes, GuestTypes, Kind
<1>8. FailedInv(d)'
  BY <1>1, <1>2, <1>3 DEF CallInv, FailedInv, StageInv, Done, Types, CallTypes, FeedTypes,
       OutTypes, RequestTypes, StrayTypes, GuestTypes, Kind
<1>9. UnsentInv(d)'
  BY <1>1, <1>2, <1>3 DEF CallInv, UnsentInv, StageInv, RunInv, Left, Unsent, Done, Types,
       CallTypes, FeedTypes, OutTypes, RequestTypes, StrayTypes, GuestTypes, Kind
<1>10. StreamInv(d)'
  BY <1>1, <1>2, <1>3 DEF CallInv, StreamInv, StageInv, RunInv, UnsentInv, Left, Unsent,
       Done, Types, CallTypes, FeedTypes, OutTypes, RequestTypes, StrayTypes, GuestTypes,
       Kind
<1>11. PlainInv(d)'
  BY <1>1, <1>2, <1>3 DEF CallInv, PlainInv, StageInv, RunInv, UnsentInv, Unsent, Done,
       Types, CallTypes, FeedTypes, OutTypes, RequestTypes, StrayTypes, GuestTypes, Kind
<1>12. QuietInv(d)'
  BY <1>1, <1>2, <1>3 DEF CallInv, QuietInv, StageInv, Left, Quiet, Done, Types, CallTypes,
       FeedTypes, OutTypes, RequestTypes, StrayTypes, GuestTypes, Kind
<1> QED
  BY <1>4, <1>5, <1>6, <1>7, <1>8, <1>9, <1>10, <1>11, <1>12, StepOfStays DEF CallInv, RunInv

\* The source of the input raises: the failure counts unless the command has ended.
LEMMA SourceRaisesStep ==
  ASSUME HttpInv, NEW d \in Calls, SourceRaises(d)
  PROVE  HttpInv'
<1> USE HttpAssumption
<1>1. CallInv(d) /\ Types
  BY DEF HttpInv
<1>2. /\ feed[d].at = "source"
      /\ session' = session
      /\ UNCHANGED <<call, out, input, cancel, request, events, strays, command, got, runs>>
      /\ failed' = IF out[d] = "result" THEN failed ELSE failed \cup {d}
  BY <1>1 DEF SourceRaises, Feeding, FeedFails, wireVars, guestVars, hostVars, Finished
<1>3. /\ FeedTypes' /\ \A c \in Calls \ {d} : feed'[c] = feed[c]
      /\ feed'[d].at = "raised" /\ feed'[d].taken = feed[d].taken
  <2>1. "raised" \in FeedPlaces /\ feed' = [feed EXCEPT ![d].at = "raised"]
    BY DEF SourceRaises, Feeding, FeedFails, wireVars, guestVars, hostVars, FeedPlaces, Done
  <2> QED
    BY <1>1, <2>1, FeedMoves DEF Types
<1>4. StepOf(d)
  <2>1. Types'
    BY <1>1, <1>2, <1>3 DEF Types, CallTypes, FeedTypes, OutTypes, RequestTypes, StrayTypes,
         GuestTypes, Done
  <2>2. \A c \in Calls \ {d} : Kept(c)
    BY <1>1, <1>2, <1>3 DEF Types, OutTypes, RequestTypes, StrayTypes, GuestTypes, Kept
  <2> QED
    BY <1>2, <2>1, <2>2 DEF StepOf
<1>5. StageInv(d)'
  BY <1>1, <1>2, <1>3 DEF CallInv, StageInv, Done, Types, CallTypes, FeedTypes, OutTypes,
       RequestTypes, StrayTypes, GuestTypes, Kind
<1>6. InputInv(d)'
  BY <1>1, <1>2, <1>3 DEF CallInv, InputInv, StageInv, Done, Types, CallTypes, FeedTypes,
       OutTypes, RequestTypes, StrayTypes, GuestTypes, Kind
<1>7. LateInv(d)'
  BY <1>1, <1>2, <1>3 DEF CallInv, LateInv, StageInv, InputInv, Left, Carries, Done, Types,
       CallTypes, FeedTypes, OutTypes, RequestTypes, StrayTypes, GuestTypes, Kind
<1>8. FailedInv(d)'
  BY <1>1, <1>2, <1>3 DEF CallInv, FailedInv, StageInv, Done, Types, CallTypes, FeedTypes,
       OutTypes, RequestTypes, StrayTypes, GuestTypes, Kind
<1>9. UnsentInv(d)'
  BY <1>1, <1>2, <1>3 DEF CallInv, UnsentInv, StageInv, RunInv, Left, Unsent, Done, Types,
       CallTypes, FeedTypes, OutTypes, RequestTypes, StrayTypes, GuestTypes, Kind
<1>10. StreamInv(d)'
  BY <1>1, <1>2, <1>3 DEF CallInv, StreamInv, StageInv, RunInv, UnsentInv, Left, Unsent,
       Done, Types, CallTypes, FeedTypes, OutTypes, RequestTypes, StrayTypes, GuestTypes,
       Kind
<1>11. PlainInv(d)'
  BY <1>1, <1>2, <1>3 DEF CallInv, PlainInv, StageInv, RunInv, UnsentInv, Unsent, Done,
       Types, CallTypes, FeedTypes, OutTypes, RequestTypes, StrayTypes, GuestTypes, Kind
<1>12. QuietInv(d)'
  BY <1>1, <1>2, <1>3 DEF CallInv, QuietInv, StageInv, Left, Quiet, Done, Types, CallTypes,
       FeedTypes, OutTypes, RequestTypes, StrayTypes, GuestTypes, Kind
<1> QED
  BY <1>4, <1>5, <1>6, <1>7, <1>8, <1>9, <1>10, <1>11, <1>12, StepOfStays DEF CallInv, RunInv

\* The guest has taken a part, so that none is on its way when the next is taken.
LEMMA AcknowledgedStep ==
  ASSUME HttpInv, NEW d \in Calls, Acknowledged(d)
  PROVE  HttpInv'
<1> USE HttpAssumption
<1>1. CallInv(d) /\ Types
  BY DEF HttpInv
<1>2. /\ feed[d].at = "sending" /\ input[d] \in {"more", "closed"}
      /\ session' = session
      /\ UNCHANGED <<call, out, cancel, request, events, strays, command, got, runs, failed>>
      /\ input' = [input EXCEPT ![d] = None]
  BY <1>1 DEF Acknowledged, Feeding, Looks, Finished, wireVars, guestVars, hostVars,
       Finished
<1>3. /\ FeedTypes' /\ \A c \in Calls \ {d} : feed'[c] = feed[c]
      /\ feed'[d].at = (IF input[d] = "closed" THEN "result" ELSE IF out[d] \in Done THEN "result" ELSE "source") /\ feed'[d].taken = feed[d].taken
  <2>1. (IF input[d] = "closed" THEN "result" ELSE IF out[d] \in Done THEN "result" ELSE "source") \in FeedPlaces /\ feed' = [feed EXCEPT ![d].at = (IF input[d] = "closed" THEN "result" ELSE IF out[d] \in Done THEN "result" ELSE "source")]
    BY DEF Acknowledged, Feeding, Looks, Finished, wireVars, guestVars, hostVars,
         FeedPlaces, Done
  <2> QED
    BY <1>1, <2>1, FeedMoves DEF Types
<1>4. StepOf(d)
  <2>1. Types'
    BY <1>1, <1>2, <1>3 DEF Types, CallTypes, FeedTypes, OutTypes, RequestTypes, StrayTypes,
         GuestTypes, Done
  <2>2. \A c \in Calls \ {d} : Kept(c)
    BY <1>1, <1>2, <1>3 DEF Types, OutTypes, RequestTypes, StrayTypes, GuestTypes, Kept
  <2> QED
    BY <1>2, <2>1, <2>2 DEF StepOf
<1>5. StageInv(d)'
  BY <1>1, <1>2, <1>3 DEF CallInv, StageInv, Done, Types, CallTypes, FeedTypes, OutTypes,
       RequestTypes, StrayTypes, GuestTypes, Kind
<1>6. InputInv(d)'
  BY <1>1, <1>2, <1>3 DEF CallInv, InputInv, StageInv, Done, Types, CallTypes, FeedTypes,
       OutTypes, RequestTypes, StrayTypes, GuestTypes, Kind
<1>7. LateInv(d)'
  BY <1>1, <1>2, <1>3 DEF CallInv, LateInv, StageInv, InputInv, Left, Carries, Done, Types,
       CallTypes, FeedTypes, OutTypes, RequestTypes, StrayTypes, GuestTypes, Kind
<1>8. FailedInv(d)'
  BY <1>1, <1>2, <1>3 DEF CallInv, FailedInv, StageInv, Done, Types, CallTypes, FeedTypes,
       OutTypes, RequestTypes, StrayTypes, GuestTypes, Kind
<1>9. UnsentInv(d)'
  BY <1>1, <1>2, <1>3 DEF CallInv, UnsentInv, StageInv, RunInv, Left, Unsent, Done, Types,
       CallTypes, FeedTypes, OutTypes, RequestTypes, StrayTypes, GuestTypes, Kind
<1>10. StreamInv(d)'
  BY <1>1, <1>2, <1>3 DEF CallInv, StreamInv, StageInv, RunInv, UnsentInv, Left, Unsent,
       Done, Types, CallTypes, FeedTypes, OutTypes, RequestTypes, StrayTypes, GuestTypes,
       Kind
<1>11. PlainInv(d)'
  BY <1>1, <1>2, <1>3 DEF CallInv, PlainInv, StageInv, RunInv, UnsentInv, Unsent, Done,
       Types, CallTypes, FeedTypes, OutTypes, RequestTypes, StrayTypes, GuestTypes, Kind
<1>12. QuietInv(d)'
  BY <1>1, <1>2, <1>3 DEF CallInv, QuietInv, StageInv, Left, Quiet, Done, Types, CallTypes,
       FeedTypes, OutTypes, RequestTypes, StrayTypes, GuestTypes, Kind
<1> QED
  BY <1>4, <1>5, <1>6, <1>7, <1>8, <1>9, <1>10, <1>11, <1>12, StepOfStays DEF CallInv, RunInv

\* All input is sent and the call waits for the output.
LEMMA InputDoneStep ==
  ASSUME HttpInv, NEW d \in Calls, InputDone(d)
  PROVE  HttpInv'
<1> USE HttpAssumption
<1>1. CallInv(d) /\ Types
  BY DEF HttpInv
<1>2. /\ call[d].at = "wait" /\ feed[d].at = "result" /\ out[d] \notin Done
      /\ session' = session
      /\ UNCHANGED <<out, feed, input, cancel, request, events, strays, command, got, runs, failed>>
  BY <1>1 DEF InputDone, wireVars, guestVars, hostVars, Finished
<1>3. /\ CallTypes' /\ \A c \in Calls \ {d} : call'[c] = call[c]
      /\ call'[d].at = "output" /\ call'[d].tries = call[d].tries
      /\ call'[d].result = call[d].result
  <2>1. "output" \in Places /\ call' = [call EXCEPT ![d].at = "output"]
    BY <1>1 DEF InputDone, wireVars, guestVars, hostVars, Places
  <2> QED
    BY <1>1, <2>1, CallGoes DEF Types
<1>4. StepOf(d)
  <2>1. Types'
    BY <1>1, <1>2, <1>3 DEF Types, CallTypes, FeedTypes, OutTypes, RequestTypes, StrayTypes,
         GuestTypes, Done
  <2>2. \A c \in Calls \ {d} : Kept(c)
    BY <1>1, <1>2, <1>3 DEF Types, OutTypes, RequestTypes, StrayTypes, GuestTypes, Kept
  <2> QED
    BY <1>2, <2>1, <2>2 DEF StepOf
<1>5. StageInv(d)'
  BY <1>1, <1>2, <1>3 DEF CallInv, StageInv, Done, Types, CallTypes, FeedTypes, OutTypes,
       RequestTypes, StrayTypes, GuestTypes, Kind
<1>6. InputInv(d)'
  BY <1>1, <1>2, <1>3 DEF CallInv, InputInv, StageInv, Done, Types, CallTypes, FeedTypes,
       OutTypes, RequestTypes, StrayTypes, GuestTypes, Kind
<1>7. LateInv(d)'
  BY <1>1, <1>2, <1>3 DEF CallInv, LateInv, StageInv, InputInv, Left, Carries, Done, Types,
       CallTypes, FeedTypes, OutTypes, RequestTypes, StrayTypes, GuestTypes, Kind
<1>8. FailedInv(d)'
  BY <1>1, <1>2, <1>3 DEF CallInv, FailedInv, StageInv, Done, Types, CallTypes, FeedTypes,
       OutTypes, RequestTypes, StrayTypes, GuestTypes, Kind
<1>9. UnsentInv(d)'
  BY <1>1, <1>2, <1>3 DEF CallInv, UnsentInv, StageInv, RunInv, Left, Unsent, Done, Types,
       CallTypes, FeedTypes, OutTypes, RequestTypes, StrayTypes, GuestTypes, Kind
<1>10. StreamInv(d)'
  BY <1>1, <1>2, <1>3 DEF CallInv, StreamInv, StageInv, RunInv, UnsentInv, Left, Unsent,
       Done, Types, CallTypes, FeedTypes, OutTypes, RequestTypes, StrayTypes, GuestTypes,
       Kind
<1>11. PlainInv(d)'
  BY <1>1, <1>2, <1>3 DEF CallInv, PlainInv, StageInv, RunInv, UnsentInv, Unsent, Done,
       Types, CallTypes, FeedTypes, OutTypes, RequestTypes, StrayTypes, GuestTypes, Kind
<1>12. QuietInv(d)'
  BY <1>1, <1>2, <1>3 DEF CallInv, QuietInv, StageInv, Left, Quiet, Done, Types, CallTypes,
       FeedTypes, OutTypes, RequestTypes, StrayTypes, GuestTypes, Kind
<1> QED
  BY <1>4, <1>5, <1>6, <1>7, <1>8, <1>9, <1>10, <1>11, <1>12, StepOfStays DEF CallInv, RunInv

\* The guest has answered the cancellation and the call gathers its tasks.
LEMMA CancelAnsweredStep ==
  ASSUME HttpInv, NEW d \in Calls, CancelAnswered(d)
  PROVE  HttpInv'
<1> USE HttpAssumption
<1>1. CallInv(d) /\ Types
  BY DEF HttpInv
<1>2. /\ call[d].at = "cancel" /\ cancel[d] \in {"done", "unknown"}
      /\ session' = session
      /\ UNCHANGED <<out, feed, input, cancel, request, events, strays, command, got, runs, failed>>
  BY <1>1 DEF CancelAnswered, wireVars, guestVars, hostVars, Finished
<1>3. /\ CallTypes' /\ \A c \in Calls \ {d} : call'[c] = call[c]
      /\ call'[d].at = "gather" /\ call'[d].tries = call[d].tries
      /\ call'[d].result = call[d].result
  <2>1. "gather" \in Places /\ call' = [call EXCEPT ![d].at = "gather"]
    BY <1>1 DEF CancelAnswered, wireVars, guestVars, hostVars, Places
  <2> QED
    BY <1>1, <2>1, CallGoes DEF Types
<1>4. StepOf(d)
  <2>1. Types'
    BY <1>1, <1>2, <1>3 DEF Types, CallTypes, FeedTypes, OutTypes, RequestTypes, StrayTypes,
         GuestTypes, Done
  <2>2. \A c \in Calls \ {d} : Kept(c)
    BY <1>1, <1>2, <1>3 DEF Types, OutTypes, RequestTypes, StrayTypes, GuestTypes, Kept
  <2> QED
    BY <1>2, <2>1, <2>2 DEF StepOf
<1>5. StageInv(d)'
  BY <1>1, <1>2, <1>3 DEF CallInv, StageInv, Done, Types, CallTypes, FeedTypes, OutTypes,
       RequestTypes, StrayTypes, GuestTypes, Kind
<1>6. InputInv(d)'
  BY <1>1, <1>2, <1>3 DEF CallInv, InputInv, StageInv, Done, Types, CallTypes, FeedTypes,
       OutTypes, RequestTypes, StrayTypes, GuestTypes, Kind
<1>7. LateInv(d)'
  BY <1>1, <1>2, <1>3 DEF CallInv, LateInv, StageInv, InputInv, Left, Carries, Done, Types,
       CallTypes, FeedTypes, OutTypes, RequestTypes, StrayTypes, GuestTypes, Kind
<1>8. FailedInv(d)'
  BY <1>1, <1>2, <1>3 DEF CallInv, FailedInv, StageInv, Done, Types, CallTypes, FeedTypes,
       OutTypes, RequestTypes, StrayTypes, GuestTypes, Kind
<1>9. UnsentInv(d)'
  BY <1>1, <1>2, <1>3 DEF CallInv, UnsentInv, StageInv, RunInv, Left, Unsent, Done, Types,
       CallTypes, FeedTypes, OutTypes, RequestTypes, StrayTypes, GuestTypes, Kind
<1>10. StreamInv(d)'
  BY <1>1, <1>2, <1>3 DEF CallInv, StreamInv, StageInv, RunInv, UnsentInv, Left, Unsent,
       Done, Types, CallTypes, FeedTypes, OutTypes, RequestTypes, StrayTypes, GuestTypes,
       Kind
<1>11. PlainInv(d)'
  BY <1>1, <1>2, <1>3 DEF CallInv, PlainInv, StageInv, RunInv, UnsentInv, Unsent, Done,
       Types, CallTypes, FeedTypes, OutTypes, RequestTypes, StrayTypes, GuestTypes, Kind
<1>12. QuietInv(d)'
  BY <1>1, <1>2, <1>3 DEF CallInv, QuietInv, StageInv, Left, Quiet, Done, Types, CallTypes,
       FeedTypes, OutTypes, RequestTypes, StrayTypes, GuestTypes, Kind
<1> QED
  BY <1>4, <1>5, <1>6, <1>7, <1>8, <1>9, <1>10, <1>11, <1>12, StepOfStays DEF CallInv, RunInv

\* A gathered task has failed, or the call has no result, and it raises.
LEMMA GatherRaises ==
  ASSUME HttpInv, NEW d \in Calls, Gather(d), call[d].result = None \/ "raised" \in {out[d], feed[d].at}
  PROVE  HttpInv'
<1> USE HttpAssumption
<1>1. CallInv(d) /\ Types
  BY DEF HttpInv
<1>2. /\ call[d].at = "gather" /\ out[d] \in Done /\ feed[d].at \in Done
      /\ session' = session
      /\ UNCHANGED <<out, feed, input, cancel, request, events, strays, command, got, runs, failed>>
  BY <1>1 DEF Gather, wireVars, guestVars, hostVars, Finished
<1>3. /\ CallTypes' /\ \A c \in Calls \ {d} : call'[c] = call[c]
      /\ call'[d].at = "over" /\ call'[d].tries = call[d].tries
      /\ call'[d].result = "raised"
  <2>1. "raised" \in Done /\ Over(d, "raised")
    BY <1>1, <1>2 DEF Gather, wireVars, guestVars, hostVars, Done
  <2> QED
    BY <1>1, <2>1, CallEnds DEF Types
<1>4. StepOf(d)
  <2>1. Types'
    BY <1>1, <1>2, <1>3 DEF Types, CallTypes, FeedTypes, OutTypes, RequestTypes, StrayTypes,
         GuestTypes, Done
  <2>2. \A c \in Calls \ {d} : Kept(c)
    BY <1>1, <1>2, <1>3 DEF Types, OutTypes, RequestTypes, StrayTypes, GuestTypes, Kept
  <2> QED
    BY <1>2, <2>1, <2>2 DEF StepOf
<1>5. StageInv(d)'
  BY <1>1, <1>2, <1>3 DEF CallInv, StageInv, Done, Types, CallTypes, FeedTypes, OutTypes,
       RequestTypes, StrayTypes, GuestTypes, Kind
<1>6. InputInv(d)'
  BY <1>1, <1>2, <1>3 DEF CallInv, InputInv, StageInv, Done, Types, CallTypes, FeedTypes,
       OutTypes, RequestTypes, StrayTypes, GuestTypes, Kind
<1>7. LateInv(d)'
  BY <1>1, <1>2, <1>3 DEF CallInv, LateInv, StageInv, InputInv, Left, Carries, Done, Types,
       CallTypes, FeedTypes, OutTypes, RequestTypes, StrayTypes, GuestTypes, Kind
<1>8. FailedInv(d)'
  BY <1>1, <1>2, <1>3 DEF CallInv, FailedInv, StageInv, Done, Types, CallTypes, FeedTypes,
       OutTypes, RequestTypes, StrayTypes, GuestTypes, Kind
<1>9. UnsentInv(d)'
  BY <1>1, <1>2, <1>3 DEF CallInv, UnsentInv, StageInv, RunInv, Left, Unsent, Done, Types,
       CallTypes, FeedTypes, OutTypes, RequestTypes, StrayTypes, GuestTypes, Kind
<1>10. StreamInv(d)'
  BY <1>1, <1>2, <1>3 DEF CallInv, StreamInv, StageInv, RunInv, UnsentInv, Left, Unsent,
       Done, Types, CallTypes, FeedTypes, OutTypes, RequestTypes, StrayTypes, GuestTypes,
       Kind
<1>11. PlainInv(d)'
  BY <1>1, <1>2, <1>3 DEF CallInv, PlainInv, StageInv, RunInv, UnsentInv, Unsent, Done,
       Types, CallTypes, FeedTypes, OutTypes, RequestTypes, StrayTypes, GuestTypes, Kind
<1>12. QuietInv(d)'
  BY <1>1, <1>2, <1>3 DEF CallInv, QuietInv, StageInv, Left, Quiet, Done, Types, CallTypes,
       FeedTypes, OutTypes, RequestTypes, StrayTypes, GuestTypes, Kind
<1> QED
  BY <1>4, <1>5, <1>6, <1>7, <1>8, <1>9, <1>10, <1>11, <1>12, StepOfStays DEF CallInv, RunInv

\* The call returns the result that it had before it wound up.
LEMMA GatherReturns ==
  ASSUME HttpInv, NEW d \in Calls, Gather(d), ~(call[d].result = None \/ "raised" \in {out[d], feed[d].at})
  PROVE  HttpInv'
<1> USE HttpAssumption
<1>1. CallInv(d) /\ Types
  BY DEF HttpInv
<1>2. /\ call[d].at = "gather" /\ out[d] \in Done /\ feed[d].at \in Done
      /\ call[d].result \in Done
      /\ session' = session
      /\ UNCHANGED <<out, feed, input, cancel, request, events, strays, command, got, runs, failed>>
  BY <1>1 DEF Gather, Types, CallTypes, wireVars, guestVars, hostVars, Finished
<1>3. /\ CallTypes' /\ \A c \in Calls \ {d} : call'[c] = call[c]
      /\ call'[d].at = "over" /\ call'[d].tries = call[d].tries
      /\ call'[d].result = call[d].result
  <2>1. call[d].result \in Done /\ Over(d, call[d].result)
    BY <1>1, <1>2 DEF Gather, Types, CallTypes, wireVars, guestVars, hostVars, Done
  <2> QED
    BY <1>1, <2>1, CallEnds DEF Types
<1>4. StepOf(d)
  <2>1. Types'
    BY <1>1, <1>2, <1>3 DEF Types, CallTypes, FeedTypes, OutTypes, RequestTypes, StrayTypes,
         GuestTypes, Done
  <2>2. \A c \in Calls \ {d} : Kept(c)
    BY <1>1, <1>2, <1>3 DEF Types, OutTypes, RequestTypes, StrayTypes, GuestTypes, Kept
  <2> QED
    BY <1>2, <2>1, <2>2 DEF StepOf
<1>5. StageInv(d)'
  BY <1>1, <1>2, <1>3 DEF CallInv, StageInv, Done, Types, CallTypes, FeedTypes, OutTypes,
       RequestTypes, StrayTypes, GuestTypes, Kind
<1>6. InputInv(d)'
  BY <1>1, <1>2, <1>3 DEF CallInv, InputInv, StageInv, Done, Types, CallTypes, FeedTypes,
       OutTypes, RequestTypes, StrayTypes, GuestTypes, Kind
<1>7. LateInv(d)'
  BY <1>1, <1>2, <1>3 DEF CallInv, LateInv, StageInv, InputInv, Left, Carries, Done, Types,
       CallTypes, FeedTypes, OutTypes, RequestTypes, StrayTypes, GuestTypes, Kind
<1>8. FailedInv(d)'
  BY <1>1, <1>2, <1>3 DEF CallInv, FailedInv, StageInv, Done, Types, CallTypes, FeedTypes,
       OutTypes, RequestTypes, StrayTypes, GuestTypes, Kind
<1>9. UnsentInv(d)'
  BY <1>1, <1>2, <1>3 DEF CallInv, UnsentInv, StageInv, RunInv, Left, Unsent, Done, Types,
       CallTypes, FeedTypes, OutTypes, RequestTypes, StrayTypes, GuestTypes, Kind
<1>10. StreamInv(d)'
  BY <1>1, <1>2, <1>3 DEF CallInv, StreamInv, StageInv, RunInv, UnsentInv, Left, Unsent,
       Done, Types, CallTypes, FeedTypes, OutTypes, RequestTypes, StrayTypes, GuestTypes,
       Kind
<1>11. PlainInv(d)'
  BY <1>1, <1>2, <1>3 DEF CallInv, PlainInv, StageInv, RunInv, UnsentInv, Unsent, Done,
       Types, CallTypes, FeedTypes, OutTypes, RequestTypes, StrayTypes, GuestTypes, Kind
<1>12. QuietInv(d)'
  BY <1>1, <1>2, <1>3 DEF CallInv, QuietInv, StageInv, Left, Quiet, Done, Types, CallTypes,
       FeedTypes, OutTypes, RequestTypes, StrayTypes, GuestTypes, Kind
<1> QED
  BY <1>4, <1>5, <1>6, <1>7, <1>8, <1>9, <1>10, <1>11, <1>12, StepOfStays DEF CallInv, RunInv

\* The guest refuses the request without running anything.
LEMMA RefuseStep ==
  ASSUME HttpInv, NEW d \in Calls, Refuse(d)
  PROVE  HttpInv'
<1> USE HttpAssumption
<1>1. CallInv(d) /\ Types
  BY DEF HttpInv
<1>2. /\ request[d] = "sent"
      /\ session' = session
      /\ UNCHANGED <<call, out, feed, input, cancel, events, strays, command, got, runs, failed>>
      /\ request' = [request EXCEPT ![d] = "refused"]
  BY <1>1 DEF Refuse, wireVars, guestVars, hostVars, Finished
<1>3. StepOf(d)
  <2>1. Types'
    BY <1>1, <1>2 DEF Types, CallTypes, FeedTypes, OutTypes, RequestTypes, StrayTypes,
         GuestTypes, Done
  <2>2. \A c \in Calls \ {d} : Kept(c)
    BY <1>1, <1>2 DEF Types, OutTypes, RequestTypes, StrayTypes, GuestTypes, Kept
  <2> QED
    BY <1>2, <2>1, <2>2 DEF StepOf
<1>4. StageInv(d)'
  BY <1>1, <1>2 DEF CallInv, StageInv, Done, Types, CallTypes, FeedTypes, OutTypes,
       RequestTypes, StrayTypes, GuestTypes, Kind
<1>5. InputInv(d)'
  BY <1>1, <1>2 DEF CallInv, InputInv, StageInv, Done, Types, CallTypes, FeedTypes,
       OutTypes, RequestTypes, StrayTypes, GuestTypes, Kind
<1>6. LateInv(d)'
  BY <1>1, <1>2 DEF CallInv, LateInv, StageInv, InputInv, Left, Carries, Done, Types,
       CallTypes, FeedTypes, OutTypes, RequestTypes, StrayTypes, GuestTypes, Kind
<1>7. FailedInv(d)'
  BY <1>1, <1>2 DEF CallInv, FailedInv, StageInv, Done, Types, CallTypes, FeedTypes,
       OutTypes, RequestTypes, StrayTypes, GuestTypes, Kind
<1>8. UnsentInv(d)'
  BY <1>1, <1>2 DEF CallInv, UnsentInv, StageInv, RunInv, Left, Unsent, Done, Types,
       CallTypes, FeedTypes, OutTypes, RequestTypes, StrayTypes, GuestTypes, Kind
<1>9. StreamInv(d)'
  BY <1>1, <1>2 DEF CallInv, StreamInv, StageInv, RunInv, UnsentInv, Left, Unsent, Done,
       Types, CallTypes, FeedTypes, OutTypes, RequestTypes, StrayTypes, GuestTypes, Kind
<1>10. PlainInv(d)'
  BY <1>1, <1>2 DEF CallInv, PlainInv, StageInv, RunInv, UnsentInv, Unsent, Done, Types,
       CallTypes, FeedTypes, OutTypes, RequestTypes, StrayTypes, GuestTypes, Kind
<1>11. QuietInv(d)'
  BY <1>1, <1>2 DEF CallInv, QuietInv, StageInv, Left, Quiet, Done, Types, CallTypes,
       FeedTypes, OutTypes, RequestTypes, StrayTypes, GuestTypes, Kind
<1> QED
  BY <1>3, <1>4, <1>5, <1>6, <1>7, <1>8, <1>9, <1>10, <1>11, StepOfStays DEF CallInv, RunInv

\* The guest answers a plain request that it has served.
LEMMA AnswerStep ==
  ASSUME HttpInv, NEW d \in Calls, Answer(d)
  PROVE  HttpInv'
<1> USE HttpAssumption
<1>1. CallInv(d) /\ Types
  BY DEF HttpInv
<1>2. /\ request[d] = "served" /\ Kind(d) = "plain"
      /\ session' = session
      /\ UNCHANGED <<call, out, feed, input, cancel, events, strays, command, got, runs, failed>>
      /\ request' = [request EXCEPT ![d] = "answered"]
  BY <1>1 DEF Answer, wireVars, guestVars, hostVars, Finished
<1>3. StepOf(d)
  <2>1. Types'
    BY <1>1, <1>2 DEF Types, CallTypes, FeedTypes, OutTypes, RequestTypes, StrayTypes,
         GuestTypes, Done
  <2>2. \A c \in Calls \ {d} : Kept(c)
    BY <1>1, <1>2 DEF Types, OutTypes, RequestTypes, StrayTypes, GuestTypes, Kept
  <2> QED
    BY <1>2, <2>1, <2>2 DEF StepOf
<1>4. StageInv(d)'
  BY <1>1, <1>2 DEF CallInv, StageInv, Done, Types, CallTypes, FeedTypes, OutTypes,
       RequestTypes, StrayTypes, GuestTypes, Kind
<1>5. InputInv(d)'
  BY <1>1, <1>2 DEF CallInv, InputInv, StageInv, Done, Types, CallTypes, FeedTypes,
       OutTypes, RequestTypes, StrayTypes, GuestTypes, Kind
<1>6. LateInv(d)'
  BY <1>1, <1>2 DEF CallInv, LateInv, StageInv, InputInv, Left, Carries, Done, Types,
       CallTypes, FeedTypes, OutTypes, RequestTypes, StrayTypes, GuestTypes, Kind
<1>7. FailedInv(d)'
  BY <1>1, <1>2 DEF CallInv, FailedInv, StageInv, Done, Types, CallTypes, FeedTypes,
       OutTypes, RequestTypes, StrayTypes, GuestTypes, Kind
<1>8. UnsentInv(d)'
  BY <1>1, <1>2 DEF CallInv, UnsentInv, StageInv, RunInv, Left, Unsent, Done, Types,
       CallTypes, FeedTypes, OutTypes, RequestTypes, StrayTypes, GuestTypes, Kind
<1>9. StreamInv(d)'
  BY <1>1, <1>2 DEF CallInv, StreamInv, StageInv, RunInv, UnsentInv, Left, Unsent, Done,
       Types, CallTypes, FeedTypes, OutTypes, RequestTypes, StrayTypes, GuestTypes, Kind
<1>10. PlainInv(d)'
  BY <1>1, <1>2 DEF CallInv, PlainInv, StageInv, RunInv, UnsentInv, Unsent, Done, Types,
       CallTypes, FeedTypes, OutTypes, RequestTypes, StrayTypes, GuestTypes, Kind
<1>11. QuietInv(d)'
  BY <1>1, <1>2 DEF CallInv, QuietInv, StageInv, Left, Quiet, Done, Types, CallTypes,
       FeedTypes, OutTypes, RequestTypes, StrayTypes, GuestTypes, Kind
<1> QED
  BY <1>3, <1>4, <1>5, <1>6, <1>7, <1>8, <1>9, <1>10, <1>11, StepOfStays DEF CallInv, RunInv

\* The guest kills the command of a response that nobody reads.
LEMMA DisconnectedStep ==
  ASSUME HttpInv, NEW d \in Calls, Disconnected(d)
  PROVE  HttpInv'
<1> USE HttpAssumption
<1>1. CallInv(d) /\ Types
  BY DEF HttpInv
<1>2. /\ Kind(d) = "stdin" /\ command[d] = "running"
      /\ session' = session
      /\ UNCHANGED <<call, out, feed, input, cancel, request, events, strays, got, runs, failed>>
      /\ command' = [command EXCEPT ![d] = "killed"]
  BY <1>1 DEF Disconnected, wireVars, guestVars, hostVars, Finished
<1>3. StepOf(d)
  <2>1. Types'
    BY <1>1, <1>2 DEF Types, CallTypes, FeedTypes, OutTypes, RequestTypes, StrayTypes,
         GuestTypes, Done
  <2>2. \A c \in Calls \ {d} : Kept(c)
    BY <1>1, <1>2 DEF Types, OutTypes, RequestTypes, StrayTypes, GuestTypes, Kept
  <2> QED
    BY <1>2, <2>1, <2>2 DEF StepOf
<1>4. StageInv(d)'
  BY <1>1, <1>2 DEF CallInv, StageInv, Done, Types, CallTypes, FeedTypes, OutTypes,
       RequestTypes, StrayTypes, GuestTypes, Kind
<1>5. InputInv(d)'
  BY <1>1, <1>2 DEF CallInv, InputInv, StageInv, Done, Types, CallTypes, FeedTypes,
       OutTypes, RequestTypes, StrayTypes, GuestTypes, Kind
<1>6. LateInv(d)'
  BY <1>1, <1>2 DEF CallInv, LateInv, StageInv, InputInv, Left, Carries, Done, Types,
       CallTypes, FeedTypes, OutTypes, RequestTypes, StrayTypes, GuestTypes, Kind
<1>7. FailedInv(d)'
  BY <1>1, <1>2 DEF CallInv, FailedInv, StageInv, Done, Types, CallTypes, FeedTypes,
       OutTypes, RequestTypes, StrayTypes, GuestTypes, Kind
<1>8. UnsentInv(d)'
  BY <1>1, <1>2 DEF CallInv, UnsentInv, StageInv, RunInv, Left, Unsent, Done, Types,
       CallTypes, FeedTypes, OutTypes, RequestTypes, StrayTypes, GuestTypes, Kind
<1>9. StreamInv(d)'
  BY <1>1, <1>2 DEF CallInv, StreamInv, StageInv, RunInv, UnsentInv, Left, Unsent, Done,
       Types, CallTypes, FeedTypes, OutTypes, RequestTypes, StrayTypes, GuestTypes, Kind
<1>10. PlainInv(d)'
  BY <1>1, <1>2 DEF CallInv, PlainInv, StageInv, RunInv, UnsentInv, Unsent, Done, Types,
       CallTypes, FeedTypes, OutTypes, RequestTypes, StrayTypes, GuestTypes, Kind
<1>11. QuietInv(d)'
  BY <1>1, <1>2 DEF CallInv, QuietInv, StageInv, Left, Quiet, Done, Types, CallTypes,
       FeedTypes, OutTypes, RequestTypes, StrayTypes, GuestTypes, Kind
<1> QED
  BY <1>3, <1>4, <1>5, <1>6, <1>7, <1>8, <1>9, <1>10, <1>11, StepOfStays DEF CallInv, RunInv

\* The guest ends a response because its command failed to go on.
LEMMA EndsEarlyStep ==
  ASSUME HttpInv, NEW d \in Calls, EndsEarly(d)
  PROVE  HttpInv'
<1> USE HttpAssumption
<1>1. CallInv(d) /\ Types
  BY DEF HttpInv
<1>2. /\ command[d] = "running" /\ request[d] = "served"
      /\ session' = session
      /\ UNCHANGED <<call, out, feed, input, cancel, events, strays, got, runs, failed>>
      /\ command' = [command EXCEPT ![d] = "killed"]
      /\ request' = [request EXCEPT ![d] = "answered"]
  BY <1>1 DEF EndsEarly, wireVars, guestVars, hostVars, Finished
<1>3. StepOf(d)
  <2>1. Types'
    BY <1>1, <1>2 DEF Types, CallTypes, FeedTypes, OutTypes, RequestTypes, StrayTypes,
         GuestTypes, Done
  <2>2. \A c \in Calls \ {d} : Kept(c)
    BY <1>1, <1>2 DEF Types, OutTypes, RequestTypes, StrayTypes, GuestTypes, Kept
  <2> QED
    BY <1>2, <2>1, <2>2 DEF StepOf
<1>4. StageInv(d)'
  BY <1>1, <1>2 DEF CallInv, StageInv, Done, Types, CallTypes, FeedTypes, OutTypes,
       RequestTypes, StrayTypes, GuestTypes, Kind
<1>5. InputInv(d)'
  BY <1>1, <1>2 DEF CallInv, InputInv, StageInv, Done, Types, CallTypes, FeedTypes,
       OutTypes, RequestTypes, StrayTypes, GuestTypes, Kind
<1>6. LateInv(d)'
  BY <1>1, <1>2 DEF CallInv, LateInv, StageInv, InputInv, Left, Carries, Done, Types,
       CallTypes, FeedTypes, OutTypes, RequestTypes, StrayTypes, GuestTypes, Kind
<1>7. FailedInv(d)'
  BY <1>1, <1>2 DEF CallInv, FailedInv, StageInv, Done, Types, CallTypes, FeedTypes,
       OutTypes, RequestTypes, StrayTypes, GuestTypes, Kind
<1>8. UnsentInv(d)'
  BY <1>1, <1>2 DEF CallInv, UnsentInv, StageInv, RunInv, Left, Unsent, Done, Types,
       CallTypes, FeedTypes, OutTypes, RequestTypes, StrayTypes, GuestTypes, Kind
<1>9. StreamInv(d)'
  BY <1>1, <1>2 DEF CallInv, StreamInv, StageInv, RunInv, UnsentInv, Left, Unsent, Done,
       Types, CallTypes, FeedTypes, OutTypes, RequestTypes, StrayTypes, GuestTypes, Kind
<1>10. PlainInv(d)'
  BY <1>1, <1>2 DEF CallInv, PlainInv, StageInv, RunInv, UnsentInv, Unsent, Done, Types,
       CallTypes, FeedTypes, OutTypes, RequestTypes, StrayTypes, GuestTypes, Kind
<1>11. QuietInv(d)'
  BY <1>1, <1>2 DEF CallInv, QuietInv, StageInv, Left, Quiet, Done, Types, CallTypes,
       FeedTypes, OutTypes, RequestTypes, StrayTypes, GuestTypes, Kind
<1> QED
  BY <1>3, <1>4, <1>5, <1>6, <1>7, <1>8, <1>9, <1>10, <1>11, StepOfStays DEF CallInv, RunInv

\* The guest answers that the command does not take input any more.
LEMMA InputClosedStep ==
  ASSUME HttpInv, NEW d \in Calls, InputClosed(d)
  PROVE  HttpInv'
<1> USE HttpAssumption
<1>1. CallInv(d) /\ Types
  BY DEF HttpInv
<1>2. /\ input[d] = "sent"
      /\ session' = session
      /\ UNCHANGED <<call, out, feed, cancel, request, events, strays, command, got, runs, failed>>
      /\ input' = [input EXCEPT ![d] = "closed"]
  BY <1>1 DEF InputClosed, wireVars, guestVars, hostVars, Finished
<1>3. StepOf(d)
  <2>1. Types'
    BY <1>1, <1>2 DEF Types, CallTypes, FeedTypes, OutTypes, RequestTypes, StrayTypes,
         GuestTypes, Done
  <2>2. \A c \in Calls \ {d} : Kept(c)
    BY <1>1, <1>2 DEF Types, OutTypes, RequestTypes, StrayTypes, GuestTypes, Kept
  <2> QED
    BY <1>2, <2>1, <2>2 DEF StepOf
<1>4. StageInv(d)'
  BY <1>1, <1>2 DEF CallInv, StageInv, Done, Types, CallTypes, FeedTypes, OutTypes,
       RequestTypes, StrayTypes, GuestTypes, Kind
<1>5. InputInv(d)'
  BY <1>1, <1>2 DEF CallInv, InputInv, StageInv, Done, Types, CallTypes, FeedTypes,
       OutTypes, RequestTypes, StrayTypes, GuestTypes, Kind
<1>6. LateInv(d)'
  BY <1>1, <1>2 DEF CallInv, LateInv, StageInv, InputInv, Left, Carries, Done, Types,
       CallTypes, FeedTypes, OutTypes, RequestTypes, StrayTypes, GuestTypes, Kind
<1>7. FailedInv(d)'
  BY <1>1, <1>2 DEF CallInv, FailedInv, StageInv, Done, Types, CallTypes, FeedTypes,
       OutTypes, RequestTypes, StrayTypes, GuestTypes, Kind
<1>8. UnsentInv(d)'
  BY <1>1, <1>2 DEF CallInv, UnsentInv, StageInv, RunInv, Left, Unsent, Done, Types,
       CallTypes, FeedTypes, OutTypes, RequestTypes, StrayTypes, GuestTypes, Kind
<1>9. StreamInv(d)'
  BY <1>1, <1>2 DEF CallInv, StreamInv, StageInv, RunInv, UnsentInv, Left, Unsent, Done,
       Types, CallTypes, FeedTypes, OutTypes, RequestTypes, StrayTypes, GuestTypes, Kind
<1>10. PlainInv(d)'
  BY <1>1, <1>2 DEF CallInv, PlainInv, StageInv, RunInv, UnsentInv, Unsent, Done, Types,
       CallTypes, FeedTypes, OutTypes, RequestTypes, StrayTypes, GuestTypes, Kind
<1>11. QuietInv(d)'
  BY <1>1, <1>2 DEF CallInv, QuietInv, StageInv, Left, Quiet, Done, Types, CallTypes,
       FeedTypes, OutTypes, RequestTypes, StrayTypes, GuestTypes, Kind
<1> QED
  BY <1>3, <1>4, <1>5, <1>6, <1>7, <1>8, <1>9, <1>10, <1>11, StepOfStays DEF CallInv, RunInv

\* The guest kills the command that it is told to cancel, if it runs.
LEMMA ServeCancelStep ==
  ASSUME HttpInv, NEW d \in Calls, ServeCancel(d)
  PROVE  HttpInv'
<1> USE HttpAssumption
<1>1. CallInv(d) /\ Types
  BY DEF HttpInv
<1>2. /\ cancel[d] = "sent"
      /\ session' = session
      /\ UNCHANGED <<call, out, feed, input, request, events, strays, got, runs, failed>>
      /\ cancel' = [cancel EXCEPT ![d] = IF command[d] = "running" THEN "done" ELSE "unknown"]
      /\ command' = [command EXCEPT ![d] = IF @ = "running" THEN "killed" ELSE @]
  BY <1>1 DEF ServeCancel, wireVars, guestVars, hostVars, Finished
<1>3. StepOf(d)
  <2>1. Types'
    BY <1>1, <1>2 DEF Types, CallTypes, FeedTypes, OutTypes, RequestTypes, StrayTypes,
         GuestTypes, Done
  <2>2. \A c \in Calls \ {d} : Kept(c)
    BY <1>1, <1>2 DEF Types, OutTypes, RequestTypes, StrayTypes, GuestTypes, Kept
  <2> QED
    BY <1>2, <2>1, <2>2 DEF StepOf
<1>4. StageInv(d)'
  BY <1>1, <1>2 DEF CallInv, StageInv, Done, Types, CallTypes, FeedTypes, OutTypes,
       RequestTypes, StrayTypes, GuestTypes, Kind
<1>5. InputInv(d)'
  BY <1>1, <1>2 DEF CallInv, InputInv, StageInv, Done, Types, CallTypes, FeedTypes,
       OutTypes, RequestTypes, StrayTypes, GuestTypes, Kind
<1>6. LateInv(d)'
  BY <1>1, <1>2 DEF CallInv, LateInv, StageInv, InputInv, Left, Carries, Done, Types,
       CallTypes, FeedTypes, OutTypes, RequestTypes, StrayTypes, GuestTypes, Kind
<1>7. FailedInv(d)'
  BY <1>1, <1>2 DEF CallInv, FailedInv, StageInv, Done, Types, CallTypes, FeedTypes,
       OutTypes, RequestTypes, StrayTypes, GuestTypes, Kind
<1>8. UnsentInv(d)'
  BY <1>1, <1>2 DEF CallInv, UnsentInv, StageInv, RunInv, Left, Unsent, Done, Types,
       CallTypes, FeedTypes, OutTypes, RequestTypes, StrayTypes, GuestTypes, Kind
<1>9. StreamInv(d)'
  BY <1>1, <1>2 DEF CallInv, StreamInv, StageInv, RunInv, UnsentInv, Left, Unsent, Done,
       Types, CallTypes, FeedTypes, OutTypes, RequestTypes, StrayTypes, GuestTypes, Kind
<1>10. PlainInv(d)'
  BY <1>1, <1>2 DEF CallInv, PlainInv, StageInv, RunInv, UnsentInv, Unsent, Done, Types,
       CallTypes, FeedTypes, OutTypes, RequestTypes, StrayTypes, GuestTypes, Kind
<1>11. QuietInv(d)'
  BY <1>1, <1>2 DEF CallInv, QuietInv, StageInv, Left, Quiet, Done, RunInv, StreamInv,
       Types, CallTypes, FeedTypes, OutTypes, RequestTypes, StrayTypes, GuestTypes, Kind
<1> QED
  BY <1>3, <1>4, <1>5, <1>6, <1>7, <1>8, <1>9, <1>10, <1>11, StepOfStays DEF CallInv, RunInv

\* A lost attempt of a plain call is made again; its request may still arrive, as a stray.
LEMMA RetryAgain ==
  ASSUME HttpInv, NEW d \in Calls, Retry(d), call[d].tries < MaxRetries
  PROVE  HttpInv'
<1> USE HttpAssumption
<1>1. CallInv(d) /\ Types
  BY DEF HttpInv
<1>2. /\ call[d].at = "sent"
      /\ session' = session
      /\ UNCHANGED <<out, feed, input, cancel, events, command, got, runs, failed>>
      /\ request' = [request EXCEPT ![d] = None]
  BY <1>1 DEF Retry, Leave, wireVars, guestVars, hostVars, Finished
<1>3. Len(strays[d]) \in Nat /\ (Unsent(d) => Left(d, "run") = {})
  BY <1>1, UnsentIsQuiet DEF Types, StrayTypes
<1>4. /\ StrayTypes' /\ \A c \in Calls \ {d} : strays'[c] = strays[c]
      /\ Left(d, "input")' = Left(d, "input")
      /\ \A i \in Left(d, "input") : strays'[d][i] = strays[d][i]
      /\ request[d] # "sent" => Left(d, "run")' = Left(d, "run")
      /\ Left(d, "run") = {} => \A i, j \in Left(d, "run")' : i = j
      /\ Len(strays[d]) \in Nat /\ Len(strays'[d]) \in Nat
      /\ Len(strays'[d]) <= Len(strays[d]) + (IF request[d] = "sent" THEN 1 ELSE 0)
  BY <1>1, LeaveLeaves DEF Retry, Leave, wireVars, guestVars, hostVars, Types
<1>5. /\ CallTypes' /\ \A c \in Calls \ {d} : call'[c] = call[c]
      /\ call'[d].at = "backoff" /\ call'[d].tries = call[d].tries + 1
      /\ call'[d].result = call[d].result
  BY <1>1, CallRetries DEF Retry, Leave, wireVars, guestVars, hostVars, Types
<1>6. StepOf(d)
  <2>1. Types'
    BY <1>1, <1>2, <1>3, <1>4, <1>5 DEF Types, CallTypes, FeedTypes, OutTypes, RequestTypes,
         StrayTypes, GuestTypes, Done
  <2>2. \A c \in Calls \ {d} : Kept(c)
    BY <1>1, <1>2, <1>3, <1>4, <1>5 DEF Types, OutTypes, RequestTypes, StrayTypes,
         GuestTypes, Kept
  <2> QED
    BY <1>2, <2>1, <2>2 DEF StepOf
<1>7. Carries(d)' = Carries(d)
  BY <1>1, <1>2, <1>3, <1>4, <1>5 DEF Carries
<1>8. StageInv(d)'
  BY <1>1, <1>2, <1>3, <1>4, <1>5, <1>7 DEF CallInv, StageInv, Done, Types, CallTypes,
       FeedTypes, OutTypes, RequestTypes, StrayTypes, GuestTypes, Kind
<1>9. InputInv(d)'
  BY <1>1, <1>2, <1>3, <1>4, <1>5, <1>7 DEF CallInv, InputInv, StageInv, Done, Types,
       CallTypes, FeedTypes, OutTypes, RequestTypes, StrayTypes, GuestTypes, Kind
<1>10. LateInv(d)'
  BY <1>1, <1>2, <1>3, <1>4, <1>5, LateStays DEF CallInv
<1>11. FailedInv(d)'
  BY <1>1, <1>2, <1>3, <1>4, <1>5, <1>7 DEF CallInv, FailedInv, StageInv, Done, Types,
       CallTypes, FeedTypes, OutTypes, RequestTypes, StrayTypes, GuestTypes, Kind
<1>12. UnsentInv(d)'
  BY <1>1, <1>2, <1>3, <1>4, <1>5, <1>7 DEF CallInv, UnsentInv, StageInv, RunInv, Unsent,
       Done, Types, CallTypes, FeedTypes, OutTypes, RequestTypes, StrayTypes, GuestTypes,
       Kind
<1>13. StreamInv(d)'
  BY <1>1, <1>2, <1>3, <1>4, <1>5, <1>7 DEF CallInv, StreamInv, StageInv, RunInv, UnsentInv,
       Unsent, Done, Types, CallTypes, FeedTypes, OutTypes, RequestTypes, StrayTypes,
       GuestTypes, Kind
<1>14. PlainInv(d)'
  BY <1>1, <1>2, <1>3, <1>4, <1>5, <1>7 DEF CallInv, PlainInv, StageInv, RunInv, UnsentInv,
       Unsent, Done, Types, CallTypes, FeedTypes, OutTypes, RequestTypes, StrayTypes,
       GuestTypes, Kind
<1>15. QuietInv(d)'
  BY <1>1, <1>2, <1>3, <1>4, <1>5, <1>7 DEF CallInv, QuietInv, StageInv, Quiet, Done, Types,
       CallTypes, FeedTypes, OutTypes, RequestTypes, StrayTypes, GuestTypes, Kind
<1> QED
  BY <1>6, <1>8, <1>9, <1>10, <1>11, <1>12, <1>13, <1>14, <1>15, StepOfStays DEF CallInv, RunInv

\* The last attempt is lost and the call ends with an error.
LEMMA RetryGivesUp ==
  ASSUME HttpInv, NEW d \in Calls, Retry(d), ~(call[d].tries < MaxRetries)
  PROVE  HttpInv'
<1> USE HttpAssumption
<1>1. CallInv(d) /\ Types
  BY DEF HttpInv
<1>2. /\ call[d].at = "sent"
      /\ session' = session
      /\ UNCHANGED <<out, feed, input, cancel, events, command, got, runs, failed>>
      /\ request' = [request EXCEPT ![d] = None]
  BY <1>1 DEF Retry, wireVars, guestVars, hostVars, Finished
<1>3. Len(strays[d]) \in Nat /\ (Unsent(d) => Left(d, "run") = {})
  BY <1>1, UnsentIsQuiet DEF Types, StrayTypes
<1>4. /\ StrayTypes' /\ \A c \in Calls \ {d} : strays'[c] = strays[c]
      /\ Left(d, "input")' = Left(d, "input")
      /\ \A i \in Left(d, "input") : strays'[d][i] = strays[d][i]
      /\ request[d] # "sent" => Left(d, "run")' = Left(d, "run")
      /\ Left(d, "run") = {} => \A i, j \in Left(d, "run")' : i = j
      /\ Len(strays[d]) \in Nat /\ Len(strays'[d]) \in Nat
      /\ Len(strays'[d]) <= Len(strays[d]) + (IF request[d] = "sent" THEN 1 ELSE 0)
  BY <1>1, LeaveLeaves DEF Retry, wireVars, guestVars, hostVars, Types
<1>5. /\ CallTypes' /\ \A c \in Calls \ {d} : call'[c] = call[c]
      /\ call'[d].at = "over" /\ call'[d].tries = call[d].tries
      /\ call'[d].result = "error"
  <2>1. "error" \in Done /\ Over(d, "error")
    BY <1>1, <1>2 DEF Retry, wireVars, guestVars, hostVars, Done
  <2> QED
    BY <1>1, <2>1, CallEnds DEF Types
<1>6. StepOf(d)
  <2>1. Types'
    BY <1>1, <1>2, <1>3, <1>4, <1>5 DEF Types, CallTypes, FeedTypes, OutTypes, RequestTypes,
         StrayTypes, GuestTypes, Done
  <2>2. \A c \in Calls \ {d} : Kept(c)
    BY <1>1, <1>2, <1>3, <1>4, <1>5 DEF Types, OutTypes, RequestTypes, StrayTypes,
         GuestTypes, Kept
  <2> QED
    BY <1>2, <2>1, <2>2 DEF StepOf
<1>7. Carries(d)' = Carries(d)
  BY <1>1, <1>2, <1>3, <1>4, <1>5 DEF Carries
<1>8. StageInv(d)'
  BY <1>1, <1>2, <1>3, <1>4, <1>5, <1>7 DEF CallInv, StageInv, Done, Types, CallTypes,
       FeedTypes, OutTypes, RequestTypes, StrayTypes, GuestTypes, Kind
<1>9. InputInv(d)'
  BY <1>1, <1>2, <1>3, <1>4, <1>5, <1>7 DEF CallInv, InputInv, StageInv, Done, Types,
       CallTypes, FeedTypes, OutTypes, RequestTypes, StrayTypes, GuestTypes, Kind
<1>10. LateInv(d)'
  BY <1>1, <1>2, <1>3, <1>4, <1>5, LateStays DEF CallInv
<1>11. FailedInv(d)'
  BY <1>1, <1>2, <1>3, <1>4, <1>5, <1>7 DEF CallInv, FailedInv, StageInv, Done, Types,
       CallTypes, FeedTypes, OutTypes, RequestTypes, StrayTypes, GuestTypes, Kind
<1>12. UnsentInv(d)'
  BY <1>1, <1>2, <1>3, <1>4, <1>5, <1>7 DEF CallInv, UnsentInv, StageInv, RunInv, Unsent,
       Done, Types, CallTypes, FeedTypes, OutTypes, RequestTypes, StrayTypes, GuestTypes,
       Kind
<1>13. StreamInv(d)'
  BY <1>1, <1>2, <1>3, <1>4, <1>5, <1>7 DEF CallInv, StreamInv, StageInv, RunInv, UnsentInv,
       Unsent, Done, Types, CallTypes, FeedTypes, OutTypes, RequestTypes, StrayTypes,
       GuestTypes, Kind
<1>14. PlainInv(d)'
  BY <1>1, <1>2, <1>3, <1>4, <1>5, <1>7 DEF CallInv, PlainInv, StageInv, RunInv, UnsentInv,
       Unsent, Done, Types, CallTypes, FeedTypes, OutTypes, RequestTypes, StrayTypes,
       GuestTypes, Kind
<1>15. QuietInv(d)'
  BY <1>1, <1>2, <1>3, <1>4, <1>5, <1>7 DEF CallInv, QuietInv, StageInv, Quiet, Done, Types,
       CallTypes, FeedTypes, OutTypes, RequestTypes, StrayTypes, GuestTypes, Kind
<1> QED
  BY <1>6, <1>8, <1>9, <1>10, <1>11, <1>12, <1>13, <1>14, <1>15, StepOfStays DEF CallInv, RunInv

\* The connection of a stream breaks; it is not sent again, but may be served yet.
LEMMA StreamFailsStep ==
  ASSUME HttpInv, NEW d \in Calls, StreamFails(d)
  PROVE  HttpInv'
<1> USE HttpAssumption
<1>1. CallInv(d) /\ Types
  BY DEF HttpInv
<1>2. /\ out[d] = "reading"
      /\ session' = session
      /\ UNCHANGED <<call, feed, input, cancel, events, command, got, runs, failed>>
      /\ out' = [out EXCEPT ![d] = "error"]
      /\ request' = [request EXCEPT ![d] = "dropped"]
  BY <1>1 DEF StreamFails, wireVars, guestVars, hostVars, Finished
<1>3. Len(strays[d]) \in Nat /\ (Unsent(d) => Left(d, "run") = {})
  BY <1>1, UnsentIsQuiet DEF Types, StrayTypes
<1>4. /\ StrayTypes' /\ \A c \in Calls \ {d} : strays'[c] = strays[c]
      /\ Left(d, "input")' = Left(d, "input")
      /\ \A i \in Left(d, "input") : strays'[d][i] = strays[d][i]
      /\ request[d] # "sent" => Left(d, "run")' = Left(d, "run")
      /\ Left(d, "run") = {} => \A i, j \in Left(d, "run")' : i = j
      /\ Len(strays[d]) \in Nat /\ Len(strays'[d]) \in Nat
      /\ Len(strays'[d]) <= Len(strays[d]) + (IF request[d] = "sent" THEN 1 ELSE 0)
  BY <1>1, LeaveLeaves DEF StreamFails, wireVars, guestVars, hostVars, Types
<1>5. StepOf(d)
  <2>1. Types'
    BY <1>1, <1>2, <1>3, <1>4 DEF Types, CallTypes, FeedTypes, OutTypes, RequestTypes,
         StrayTypes, GuestTypes, Done
  <2>2. \A c \in Calls \ {d} : Kept(c)
    BY <1>1, <1>2, <1>3, <1>4 DEF Types, OutTypes, RequestTypes, StrayTypes, GuestTypes,
         Kept
  <2> QED
    BY <1>2, <2>1, <2>2 DEF StepOf
<1>6. Carries(d)' = Carries(d)
  BY <1>1, <1>2, <1>3, <1>4 DEF Carries
<1>7. StageInv(d)'
  BY <1>1, <1>2, <1>3, <1>4, <1>6 DEF CallInv, StageInv, Done, Types, CallTypes, FeedTypes,
       OutTypes, RequestTypes, StrayTypes, GuestTypes, Kind
<1>8. InputInv(d)'
  BY <1>1, <1>2, <1>3, <1>4, <1>6 DEF CallInv, InputInv, StageInv, Done, Types, CallTypes,
       FeedTypes, OutTypes, RequestTypes, StrayTypes, GuestTypes, Kind
<1>9. LateInv(d)'
  BY <1>1, <1>2, <1>3, <1>4, LateStays DEF CallInv
<1>10. FailedInv(d)'
  BY <1>1, <1>2, <1>3, <1>4, <1>6 DEF CallInv, FailedInv, StageInv, Done, Types, CallTypes,
       FeedTypes, OutTypes, RequestTypes, StrayTypes, GuestTypes, Kind
<1>11. UnsentInv(d)'
  BY <1>1, <1>2, <1>3, <1>4, <1>6 DEF CallInv, UnsentInv, StageInv, RunInv, Unsent, Done,
       Types, CallTypes, FeedTypes, OutTypes, RequestTypes, StrayTypes, GuestTypes, Kind
<1>12. StreamInv(d)'
  BY <1>1, <1>2, <1>3, <1>4, <1>6 DEF CallInv, StreamInv, StageInv, RunInv, UnsentInv,
       Unsent, Done, Types, CallTypes, FeedTypes, OutTypes, RequestTypes, StrayTypes,
       GuestTypes, Kind
<1>13. PlainInv(d)'
  BY <1>1, <1>2, <1>3, <1>4, <1>6 DEF CallInv, PlainInv, StageInv, RunInv, UnsentInv,
       Unsent, Done, Types, CallTypes, FeedTypes, OutTypes, RequestTypes, StrayTypes,
       GuestTypes, Kind
<1>14. QuietInv(d)'
  BY <1>1, <1>2, <1>3, <1>4, <1>6 DEF CallInv, QuietInv, StageInv, Quiet, Done, Types,
       CallTypes, FeedTypes, OutTypes, RequestTypes, StrayTypes, GuestTypes, Kind
<1> QED
  BY <1>5, <1>7, <1>8, <1>9, <1>10, <1>11, <1>12, <1>13, <1>14, StepOfStays DEF CallInv, RunInv

\* The caller is cancelled: a request on its way is left to the guest.
LEMMA CutStep ==
  ASSUME HttpInv, NEW d \in Calls, Cut(d)
  PROVE  HttpInv'
<1> USE HttpAssumption
<1>1. CallInv(d) /\ Types
  BY DEF HttpInv
<1>2. /\ call[d].at \in {"lock", "sent", "backoff", "stream"}
      /\ session' = session
      /\ UNCHANGED <<feed, input, cancel, events, command, got, runs, failed>>
      /\ out' = [out EXCEPT ![d] = IF @ = "reading" THEN "cancelled" ELSE @]
      /\ request' = [request EXCEPT ![d] = IF @ = None THEN None ELSE "dropped"]
  BY <1>1 DEF Cut, wireVars, guestVars, hostVars, Finished
<1>3. Len(strays[d]) \in Nat /\ (Unsent(d) => Left(d, "run") = {})
  BY <1>1, UnsentIsQuiet DEF Types, StrayTypes
<1>4. /\ StrayTypes' /\ \A c \in Calls \ {d} : strays'[c] = strays[c]
      /\ Left(d, "input")' = Left(d, "input")
      /\ \A i \in Left(d, "input") : strays'[d][i] = strays[d][i]
      /\ request[d] # "sent" => Left(d, "run")' = Left(d, "run")
      /\ Left(d, "run") = {} => \A i, j \in Left(d, "run")' : i = j
      /\ Len(strays[d]) \in Nat /\ Len(strays'[d]) \in Nat
      /\ Len(strays'[d]) <= Len(strays[d]) + (IF request[d] = "sent" THEN 1 ELSE 0)
  BY <1>1, LeaveLeaves DEF Cut, wireVars, guestVars, hostVars, Types
<1>5. /\ CallTypes' /\ \A c \in Calls \ {d} : call'[c] = call[c]
      /\ call'[d].at = "over" /\ call'[d].tries = call[d].tries
      /\ call'[d].result = "cancelled"
  <2>1. "cancelled" \in Done /\ Over(d, "cancelled")
    BY <1>1, <1>2 DEF Cut, wireVars, guestVars, hostVars, Done
  <2> QED
    BY <1>1, <2>1, CallEnds DEF Types
<1>6. StepOf(d)
  <2>1. Types'
    BY <1>1, <1>2, <1>3, <1>4, <1>5 DEF Types, CallTypes, FeedTypes, OutTypes, RequestTypes,
         StrayTypes, GuestTypes, Done
  <2>2. \A c \in Calls \ {d} : Kept(c)
    BY <1>1, <1>2, <1>3, <1>4, <1>5 DEF Types, OutTypes, RequestTypes, StrayTypes,
         GuestTypes, Kept
  <2> QED
    BY <1>2, <2>1, <2>2 DEF StepOf
<1>7. Carries(d)' = Carries(d)
  BY <1>1, <1>2, <1>3, <1>4, <1>5 DEF Carries
<1>8. StageInv(d)'
  BY <1>1, <1>2, <1>3, <1>4, <1>5, <1>7 DEF CallInv, StageInv, Done, Types, CallTypes,
       FeedTypes, OutTypes, RequestTypes, StrayTypes, GuestTypes, Kind
<1>9. InputInv(d)'
  BY <1>1, <1>2, <1>3, <1>4, <1>5, <1>7 DEF CallInv, InputInv, StageInv, Done, Types,
       CallTypes, FeedTypes, OutTypes, RequestTypes, StrayTypes, GuestTypes, Kind
<1>10. LateInv(d)'
  BY <1>1, <1>2, <1>3, <1>4, <1>5, LateStays DEF CallInv
<1>11. FailedInv(d)'
  BY <1>1, <1>2, <1>3, <1>4, <1>5, <1>7 DEF CallInv, FailedInv, StageInv, Done, Types,
       CallTypes, FeedTypes, OutTypes, RequestTypes, StrayTypes, GuestTypes, Kind
<1>12. UnsentInv(d)'
  BY <1>1, <1>2, <1>3, <1>4, <1>5, <1>7 DEF CallInv, UnsentInv, StageInv, RunInv, Unsent,
       Done, Types, CallTypes, FeedTypes, OutTypes, RequestTypes, StrayTypes, GuestTypes,
       Kind
<1>13. StreamInv(d)'
  BY <1>1, <1>2, <1>3, <1>4, <1>5, <1>7 DEF CallInv, StreamInv, StageInv, RunInv, UnsentInv,
       Unsent, Done, Types, CallTypes, FeedTypes, OutTypes, RequestTypes, StrayTypes,
       GuestTypes, Kind
<1>14. PlainInv(d)'
  BY <1>1, <1>2, <1>3, <1>4, <1>5, <1>7 DEF CallInv, PlainInv, StageInv, RunInv, UnsentInv,
       Unsent, Done, Types, CallTypes, FeedTypes, OutTypes, RequestTypes, StrayTypes,
       GuestTypes, Kind
<1>15. QuietInv(d)'
  BY <1>1, <1>2, <1>3, <1>4, <1>5, <1>7 DEF CallInv, QuietInv, StageInv, Quiet, Done,
       RunInv, UnsentInv, Unsent, Types, CallTypes, FeedTypes, OutTypes, RequestTypes,
       StrayTypes, GuestTypes, Kind
<1> QED
  BY <1>6, <1>8, <1>9, <1>10, <1>11, <1>12, <1>13, <1>14, <1>15, StepOfStays DEF CallInv, RunInv

\* A part of the input is lost or late: it becomes a stray, and no other follows it.
LEMMA InputFailsStep ==
  ASSUME HttpInv, NEW d \in Calls, InputFails(d)
  PROVE  HttpInv'
<1> USE HttpAssumption
<1>1. CallInv(d) /\ Types
  BY DEF HttpInv
<1>2. /\ feed[d].at = "sending"
      /\ session' = session
      /\ UNCHANGED <<call, out, cancel, request, events, command, got, runs>>
      /\ input' = [input EXCEPT ![d] = None]
      /\ failed' = IF out[d] = "result" THEN failed ELSE failed \cup {d}
  BY <1>1 DEF InputFails, FeedFails, Feeding, wireVars, guestVars, hostVars, Finished
<1>3. /\ StrayTypes' /\ \A c \in Calls \ {d} : strays'[c] = strays[c]
      /\ Left(d, "run")' = Left(d, "run")
      /\ \A k \in Left(d, "input") : strays'[d][k] = strays[d][k]
      /\ input[d] # "sent" => Left(d, "input")' = Left(d, "input")
      /\ Left(d, "input") = {} => /\ \A k, m \in Left(d, "input")' : k = m
                                 /\ \A k \in Left(d, "input")' : strays'[d][k].part = Carries(d)
  BY <1>1, LeaveInputLeaves DEF InputFails, FeedFails, Feeding, wireVars, guestVars, hostVars, Types
<1>4. /\ FeedTypes' /\ \A c \in Calls \ {d} : feed'[c] = feed[c]
      /\ feed'[d].at = "raised" /\ feed'[d].taken = feed[d].taken
  <2>1. "raised" \in FeedPlaces /\ feed' = [feed EXCEPT ![d].at = "raised"]
    BY DEF InputFails, FeedFails, Feeding, wireVars, guestVars, hostVars, FeedPlaces, Done
  <2> QED
    BY <1>1, <2>1, FeedMoves DEF Types
<1>5. StepOf(d)
  <2>1. Types'
    BY <1>1, <1>2, <1>3, <1>4 DEF Types, CallTypes, FeedTypes, OutTypes, RequestTypes,
         StrayTypes, GuestTypes, Done
  <2>2. \A c \in Calls \ {d} : Kept(c)
    BY <1>1, <1>2, <1>3, <1>4 DEF Types, OutTypes, RequestTypes, StrayTypes, GuestTypes,
         Kept
  <2> QED
    BY <1>2, <2>1, <2>2 DEF StepOf
<1>6. Carries(d)' = Carries(d)
  BY <1>1, <1>2, <1>3, <1>4 DEF Carries
<1>7. StageInv(d)'
  BY <1>1, <1>2, <1>3, <1>4, <1>6 DEF CallInv, StageInv, Done, Types, CallTypes, FeedTypes,
       OutTypes, RequestTypes, StrayTypes, GuestTypes, Kind
<1>8. InputInv(d)'
  BY <1>1, <1>2, <1>3, <1>4, <1>6 DEF CallInv, InputInv, StageInv, Done, Types, CallTypes,
       FeedTypes, OutTypes, RequestTypes, StrayTypes, GuestTypes, Kind
<1>9. LateInv(d)'
  BY <1>1, <1>2, <1>3, <1>4, <1>6 DEF CallInv, LateInv, StageInv, InputInv, Done, Types,
       CallTypes, FeedTypes, OutTypes, RequestTypes, StrayTypes, GuestTypes, Kind
<1>10. FailedInv(d)'
  BY <1>1, <1>2, <1>3, <1>4, <1>6 DEF CallInv, FailedInv, StageInv, Done, Types, CallTypes,
       FeedTypes, OutTypes, RequestTypes, StrayTypes, GuestTypes, Kind
<1>11. UnsentInv(d)'
  BY <1>1, <1>2, <1>3, <1>4, <1>6 DEF CallInv, UnsentInv, StageInv, RunInv, Unsent, Done,
       Types, CallTypes, FeedTypes, OutTypes, RequestTypes, StrayTypes, GuestTypes, Kind
<1>12. StreamInv(d)'
  BY <1>1, <1>2, <1>3, <1>4, <1>6 DEF CallInv, StreamInv, StageInv, RunInv, UnsentInv,
       Unsent, Done, Types, CallTypes, FeedTypes, OutTypes, RequestTypes, StrayTypes,
       GuestTypes, Kind
<1>13. PlainInv(d)'
  BY <1>1, <1>2, <1>3, <1>4, <1>6 DEF CallInv, PlainInv, StageInv, RunInv, UnsentInv,
       Unsent, Done, Types, CallTypes, FeedTypes, OutTypes, RequestTypes, StrayTypes,
       GuestTypes, Kind
<1>14. QuietInv(d)'
  BY <1>1, <1>2, <1>3, <1>4, <1>6 DEF CallInv, QuietInv, StageInv, Quiet, Done, Types,
       CallTypes, FeedTypes, OutTypes, RequestTypes, StrayTypes, GuestTypes, Kind
<1> QED
  BY <1>5, <1>7, <1>8, <1>9, <1>10, <1>11, <1>12, <1>13, <1>14, StepOfStays DEF CallInv, RunInv

\* The feeding task takes the next part and sends it; the one before has arrived.
LEMMA TakeSends ==
  ASSUME HttpInv, NEW d \in Calls, TakeChunk(d), ~Finished(d), open
  PROVE  HttpInv'
<1> USE HttpAssumption
<1>1. CallInv(d) /\ Types
  BY DEF HttpInv
<1>2. /\ feed[d].at = "source"
      /\ out[d] \notin Done
      /\ session' = session
      /\ UNCHANGED <<call, out, cancel, request, events, strays, command, got, runs, failed>>
      /\ input' = [input EXCEPT ![d] = "sent"]
  BY <1>1 DEF TakeChunk, Finished, wireVars, guestVars, hostVars, Finished
<1>3. Len(got[d]) \in Nat
  BY <1>1 DEF Types, GuestTypes
<1>4. /\ FeedTypes' /\ \A c \in Calls \ {d} : feed'[c] = feed[c]
      /\ feed'[d].at = "sending" /\ feed'[d].taken = feed[d].taken + 1
  <2> DEFINE e == [at |-> "sending", taken |-> feed[d].taken + 1]
  <2>1. e \in [at : FeedPlaces, taken : Nat] /\ feed[d].taken \in Nat
    BY <1>1 DEF Types, FeedTypes, FeedPlaces
  <2>2. feed' = [feed EXCEPT ![d] = e]
    BY DEF TakeChunk, Finished, wireVars, guestVars, hostVars
  <2> QED
    BY <1>1, <2>1, <2>2 DEF Types, FeedTypes
<1>5. StepOf(d)
  <2>1. Types'
    BY <1>1, <1>2, <1>3, <1>4 DEF Types, CallTypes, FeedTypes, OutTypes, RequestTypes,
         StrayTypes, GuestTypes, Done
  <2>2. \A c \in Calls \ {d} : Kept(c)
    BY <1>1, <1>2, <1>3, <1>4 DEF Types, OutTypes, RequestTypes, StrayTypes, GuestTypes,
         Kept
  <2> QED
    BY <1>2, <2>1, <2>2 DEF StepOf
<1>6. StageInv(d)'
  BY <1>1, <1>2, <1>3, <1>4 DEF CallInv, StageInv, Done, Types, CallTypes, FeedTypes,
       OutTypes, RequestTypes, StrayTypes, GuestTypes, Kind
<1>7. InputInv(d)'
  BY <1>1, <1>2, <1>3, <1>4 DEF CallInv, InputInv, StageInv, Done, Types, CallTypes,
       FeedTypes, OutTypes, RequestTypes, StrayTypes, GuestTypes, Kind
<1>8. LateInv(d)'
  BY <1>1, <1>2, <1>3, <1>4 DEF CallInv, LateInv, StageInv, InputInv, Left, Carries, Done,
       Types, CallTypes, FeedTypes, OutTypes, RequestTypes, StrayTypes, GuestTypes, Kind
<1>9. FailedInv(d)'
  BY <1>1, <1>2, <1>3, <1>4 DEF CallInv, FailedInv, StageInv, Done, Types, CallTypes,
       FeedTypes, OutTypes, RequestTypes, StrayTypes, GuestTypes, Kind
<1>10. UnsentInv(d)'
  BY <1>1, <1>2, <1>3, <1>4 DEF CallInv, UnsentInv, StageInv, RunInv, Left, Unsent, Done,
       Types, CallTypes, FeedTypes, OutTypes, RequestTypes, StrayTypes, GuestTypes, Kind
<1>11. StreamInv(d)'
  BY <1>1, <1>2, <1>3, <1>4 DEF CallInv, StreamInv, StageInv, RunInv, UnsentInv, Left,
       Unsent, Done, Types, CallTypes, FeedTypes, OutTypes, RequestTypes, StrayTypes,
       GuestTypes, Kind
<1>12. PlainInv(d)'
  BY <1>1, <1>2, <1>3, <1>4 DEF CallInv, PlainInv, StageInv, RunInv, UnsentInv, Unsent,
       Done, Types, CallTypes, FeedTypes, OutTypes, RequestTypes, StrayTypes, GuestTypes,
       Kind
<1>13. QuietInv(d)'
  BY <1>1, <1>2, <1>3, <1>4 DEF CallInv, QuietInv, StageInv, Left, Quiet, Done, Types,
       CallTypes, FeedTypes, OutTypes, RequestTypes, StrayTypes, GuestTypes, Kind
<1> QED
  BY <1>5, <1>6, <1>7, <1>8, <1>9, <1>10, <1>11, <1>12, <1>13, StepOfStays DEF CallInv, RunInv

\* The cancellation of the command is lost.
LEMMA CancelFailsStep ==
  ASSUME HttpInv, NEW d \in Calls, CancelFails(d)
  PROVE  HttpInv'
<1> USE HttpAssumption
<1>1. CallInv(d) /\ Types
  BY DEF HttpInv
<1>2. /\ call[d].at = "cancel"
      /\ session' = session
      /\ UNCHANGED <<out, feed, input, request, events, command, got, runs, failed>>
      /\ cancel' = [cancel EXCEPT ![d] = "failed"]
  BY <1>1 DEF CancelFails, wireVars, guestVars, hostVars, Finished
<1>3. /\ StrayTypes' /\ \A c \in Calls \ {d} : strays'[c] = strays[c]
      /\ Left(d, "run")' = Left(d, "run") /\ Left(d, "input")' = Left(d, "input")
      /\ \A i \in Left(d, "input") : strays'[d][i] = strays[d][i]
  BY <1>1, LeaveCancelLeaves DEF CancelFails, wireVars, guestVars, hostVars, Types
<1>4. /\ CallTypes' /\ \A c \in Calls \ {d} : call'[c] = call[c]
      /\ call'[d].at = "gather" /\ call'[d].tries = call[d].tries
      /\ call'[d].result = call[d].result
  <2>1. "gather" \in Places /\ call' = [call EXCEPT ![d].at = "gather"]
    BY <1>1 DEF CancelFails, wireVars, guestVars, hostVars, Places
  <2> QED
    BY <1>1, <2>1, CallGoes DEF Types
<1>5. StepOf(d)
  <2>1. Types'
    BY <1>1, <1>2, <1>3, <1>4 DEF Types, CallTypes, FeedTypes, OutTypes, RequestTypes,
         StrayTypes, GuestTypes, Done
  <2>2. \A c \in Calls \ {d} : Kept(c)
    BY <1>1, <1>2, <1>3, <1>4 DEF Types, OutTypes, RequestTypes, StrayTypes, GuestTypes,
         Kept
  <2> QED
    BY <1>2, <2>1, <2>2 DEF StepOf
<1>6. Carries(d)' = Carries(d)
  BY <1>1, <1>2, <1>3, <1>4 DEF Carries
<1>7. StageInv(d)'
  BY <1>1, <1>2, <1>3, <1>4, <1>6 DEF CallInv, StageInv, Done, Types, CallTypes, FeedTypes,
       OutTypes, RequestTypes, StrayTypes, GuestTypes, Kind
<1>8. InputInv(d)'
  BY <1>1, <1>2, <1>3, <1>4, <1>6 DEF CallInv, InputInv, StageInv, Done, Types, CallTypes,
       FeedTypes, OutTypes, RequestTypes, StrayTypes, GuestTypes, Kind
<1>9. LateInv(d)'
  BY <1>1, <1>2, <1>3, <1>4, LateStays DEF CallInv
<1>10. FailedInv(d)'
  BY <1>1, <1>2, <1>3, <1>4, <1>6 DEF CallInv, FailedInv, StageInv, Done, Types, CallTypes,
       FeedTypes, OutTypes, RequestTypes, StrayTypes, GuestTypes, Kind
<1>11. UnsentInv(d)'
  BY <1>1, <1>2, <1>3, <1>4, <1>6 DEF CallInv, UnsentInv, StageInv, RunInv, Unsent, Done,
       Types, CallTypes, FeedTypes, OutTypes, RequestTypes, StrayTypes, GuestTypes, Kind
<1>12. StreamInv(d)'
  BY <1>1, <1>2, <1>3, <1>4, <1>6 DEF CallInv, StreamInv, StageInv, RunInv, UnsentInv,
       Unsent, Done, Types, CallTypes, FeedTypes, OutTypes, RequestTypes, StrayTypes,
       GuestTypes, Kind
<1>13. PlainInv(d)'
  BY <1>1, <1>2, <1>3, <1>4, <1>6 DEF CallInv, PlainInv, StageInv, RunInv, UnsentInv,
       Unsent, Done, Types, CallTypes, FeedTypes, OutTypes, RequestTypes, StrayTypes,
       GuestTypes, Kind
<1>14. QuietInv(d)'
  BY <1>1, <1>2, <1>3, <1>4, <1>6 DEF CallInv, QuietInv, StageInv, Quiet, Done, Types,
       CallTypes, FeedTypes, OutTypes, RequestTypes, StrayTypes, GuestTypes, Kind
<1> QED
  BY <1>5, <1>7, <1>8, <1>9, <1>10, <1>11, <1>12, <1>13, <1>14, StepOfStays DEF CallInv, RunInv

\* The caller is cancelled while it waits for the cancellation of the command.
LEMMA CutCancelStep ==
  ASSUME HttpInv, NEW d \in Calls, CutCancel(d)
  PROVE  HttpInv'
<1> USE HttpAssumption
<1>1. CallInv(d) /\ Types
  BY DEF HttpInv
<1>2. /\ call[d].at = "cancel"
      /\ session' = session
      /\ UNCHANGED <<out, feed, input, request, events, command, got, runs, failed>>
      /\ cancel' = [cancel EXCEPT ![d] = IF @ = "sent" THEN "failed" ELSE @]
  BY <1>1 DEF CutCancel, wireVars, guestVars, hostVars, Finished
<1>3. /\ StrayTypes' /\ \A c \in Calls \ {d} : strays'[c] = strays[c]
      /\ Left(d, "run")' = Left(d, "run") /\ Left(d, "input")' = Left(d, "input")
      /\ \A i \in Left(d, "input") : strays'[d][i] = strays[d][i]
  BY <1>1, LeaveCancelLeaves DEF CutCancel, wireVars, guestVars, hostVars, Types
<1>4. /\ CallTypes' /\ \A c \in Calls \ {d} : call'[c] = call[c]
      /\ call'[d].at = "over" /\ call'[d].tries = call[d].tries
      /\ call'[d].result = "cancelled"
  <2>1. "cancelled" \in Done /\ Over(d, "cancelled")
    BY <1>1, <1>2 DEF CutCancel, wireVars, guestVars, hostVars, Done
  <2> QED
    BY <1>1, <2>1, CallEnds DEF Types
<1>5. StepOf(d)
  <2>1. Types'
    BY <1>1, <1>2, <1>3, <1>4 DEF Types, CallTypes, FeedTypes, OutTypes, RequestTypes,
         StrayTypes, GuestTypes, Done
  <2>2. \A c \in Calls \ {d} : Kept(c)
    BY <1>1, <1>2, <1>3, <1>4 DEF Types, OutTypes, RequestTypes, StrayTypes, GuestTypes,
         Kept
  <2> QED
    BY <1>2, <2>1, <2>2 DEF StepOf
<1>6. Carries(d)' = Carries(d)
  BY <1>1, <1>2, <1>3, <1>4 DEF Carries
<1>7. StageInv(d)'
  BY <1>1, <1>2, <1>3, <1>4, <1>6 DEF CallInv, StageInv, Done, Types, CallTypes, FeedTypes,
       OutTypes, RequestTypes, StrayTypes, GuestTypes, Kind
<1>8. InputInv(d)'
  BY <1>1, <1>2, <1>3, <1>4, <1>6 DEF CallInv, InputInv, StageInv, Done, Types, CallTypes,
       FeedTypes, OutTypes, RequestTypes, StrayTypes, GuestTypes, Kind
<1>9. LateInv(d)'
  BY <1>1, <1>2, <1>3, <1>4, LateStays DEF CallInv
<1>10. FailedInv(d)'
  BY <1>1, <1>2, <1>3, <1>4, <1>6 DEF CallInv, FailedInv, StageInv, Done, Types, CallTypes,
       FeedTypes, OutTypes, RequestTypes, StrayTypes, GuestTypes, Kind
<1>11. UnsentInv(d)'
  BY <1>1, <1>2, <1>3, <1>4, <1>6 DEF CallInv, UnsentInv, StageInv, RunInv, Unsent, Done,
       Types, CallTypes, FeedTypes, OutTypes, RequestTypes, StrayTypes, GuestTypes, Kind
<1>12. StreamInv(d)'
  BY <1>1, <1>2, <1>3, <1>4, <1>6 DEF CallInv, StreamInv, StageInv, RunInv, UnsentInv,
       Unsent, Done, Types, CallTypes, FeedTypes, OutTypes, RequestTypes, StrayTypes,
       GuestTypes, Kind
<1>13. PlainInv(d)'
  BY <1>1, <1>2, <1>3, <1>4, <1>6 DEF CallInv, PlainInv, StageInv, RunInv, UnsentInv,
       Unsent, Done, Types, CallTypes, FeedTypes, OutTypes, RequestTypes, StrayTypes,
       GuestTypes, Kind
<1>14. QuietInv(d)'
  BY <1>1, <1>2, <1>3, <1>4, <1>6 DEF CallInv, QuietInv, StageInv, Quiet, Done, Types,
       CallTypes, FeedTypes, OutTypes, RequestTypes, StrayTypes, GuestTypes, Kind
<1> QED
  BY <1>5, <1>7, <1>8, <1>9, <1>10, <1>11, <1>12, <1>13, <1>14, StepOfStays DEF CallInv, RunInv

\* The guest carries the request out and it is not on its way any more.
LEMMA ServeStep ==
  ASSUME HttpInv, NEW d \in Calls, Serve(d)
  PROVE  HttpInv'
<1> USE HttpAssumption
<1>1. CallInv(d) /\ Types
  BY DEF HttpInv
<1>2. /\ request[d] = "sent"
      /\ session' = session
      /\ UNCHANGED <<call, out, feed, input, cancel, strays, got, failed>>
      /\ request' = [request EXCEPT ![d] = "served"]
      /\ runs' = [runs EXCEPT ![d] = @ + 1]
      /\ command' = [command EXCEPT ![d] = IF Kind(d) = "plain" THEN @ ELSE "running"]
      /\ events' = [events EXCEPT ![d] = IF Kind(d) = "stdin" THEN <<"ready">> ELSE @]
  BY <1>1 DEF Serve, Starts, wireVars, guestVars, hostVars, Finished
<1>3. <<"ready">> \in Seq({"ready", "exit"})
  OBVIOUS
<1>4. RequestTypes'
  BY <1>1, <1>2, <1>3 DEF Types, RequestTypes
<1>5. GuestTypes'
  BY <1>1, <1>2 DEF Types, GuestTypes
<1>6. Len(strays[d]) \in Nat /\ runs[d] \in Nat /\ call[d].tries \in Nat
  BY <1>1 DEF Types, StrayTypes, GuestTypes, CallTypes
<1>7. StepOf(d)
  <2>1. Types'
    BY <1>1, <1>2, <1>3, <1>4, <1>5, <1>6 DEF Types, CallTypes, FeedTypes, OutTypes,
         StrayTypes, Done
  <2>2. \A c \in Calls \ {d} : Kept(c)
    BY <1>1, <1>2, <1>3, <1>4, <1>5, <1>6 DEF Types, OutTypes, RequestTypes, StrayTypes,
         GuestTypes, Kept
  <2> QED
    BY <1>2, <2>1, <2>2 DEF StepOf
<1>8. StageInv(d)'
  BY <1>1, <1>2, <1>3, <1>4, <1>5, <1>6 DEF CallInv, StageInv, Done, Types, CallTypes,
       FeedTypes, OutTypes, RequestTypes, StrayTypes, GuestTypes, Kind
<1>9. InputInv(d)'
  BY <1>1, <1>2, <1>3, <1>4, <1>5, <1>6 DEF CallInv, InputInv, StageInv, Done, Types,
       CallTypes, FeedTypes, OutTypes, RequestTypes, StrayTypes, GuestTypes, Kind
<1>10. LateInv(d)'
  BY <1>1, <1>2, <1>3, <1>4, <1>5, <1>6 DEF CallInv, LateInv, StageInv, InputInv, Left,
       Carries, Done, Types, CallTypes, FeedTypes, OutTypes, RequestTypes, StrayTypes,
       GuestTypes, Kind
<1>11. FailedInv(d)'
  BY <1>1, <1>2, <1>3, <1>4, <1>5, <1>6 DEF CallInv, FailedInv, StageInv, Done, Types,
       CallTypes, FeedTypes, OutTypes, RequestTypes, StrayTypes, GuestTypes, Kind
<1>12. UnsentInv(d)'
  BY <1>1, <1>2, <1>3, <1>4, <1>5, <1>6 DEF CallInv, UnsentInv, StageInv, RunInv, Left,
       Unsent, Done, Types, CallTypes, FeedTypes, OutTypes, RequestTypes, StrayTypes,
       GuestTypes, Kind
<1>13. StreamInv(d)'
  BY <1>1, <1>2, <1>3, <1>4, <1>5, <1>6 DEF CallInv, StreamInv, StageInv, RunInv, UnsentInv,
       Left, Unsent, Done, Types, CallTypes, FeedTypes, OutTypes, RequestTypes, StrayTypes,
       GuestTypes, Kind
<1>14. PlainInv(d)'
  BY <1>1, <1>2, <1>3, <1>4, <1>5, <1>6 DEF CallInv, PlainInv, StageInv, RunInv, UnsentInv,
       Unsent, Done, Types, CallTypes, FeedTypes, OutTypes, RequestTypes, StrayTypes,
       GuestTypes, Kind
<1>15. QuietInv(d)'
  BY <1>1, <1>2, <1>3, <1>4, <1>5, <1>6 DEF CallInv, QuietInv, StageInv, Left, Quiet, Done,
       Types, CallTypes, FeedTypes, OutTypes, RequestTypes, StrayTypes, GuestTypes, Kind
<1> QED
  BY <1>7, <1>8, <1>9, <1>10, <1>11, <1>12, <1>13, <1>14, <1>15, StepOfStays DEF CallInv, RunInv

\* The command exits by itself and the response says so.
LEMMA CommandExitsStep ==
  ASSUME HttpInv, NEW d \in Calls, CommandExits(d)
  PROVE  HttpInv'
<1> USE HttpAssumption
<1>1. CallInv(d) /\ Types
  BY DEF HttpInv
<1>2. /\ command[d] = "running"
      /\ session' = session
      /\ UNCHANGED <<call, out, feed, input, cancel, strays, got, runs, failed>>
      /\ command' = [command EXCEPT ![d] = "exited"]
      /\ events' = [events EXCEPT ![d] = IF request[d] = "served" THEN Append(@, "exit") ELSE @]
      /\ request' = [request EXCEPT ![d] = IF @ = "served" THEN "answered" ELSE @]
  BY <1>1 DEF CommandExits, EndWith, wireVars, guestVars, hostVars, Finished
<1>3. StepOf(d)
  <2>1. Types'
    BY <1>1, <1>2 DEF Types, CallTypes, FeedTypes, OutTypes, RequestTypes, StrayTypes,
         GuestTypes, Done
  <2>2. \A c \in Calls \ {d} : Kept(c)
    BY <1>1, <1>2 DEF Types, OutTypes, RequestTypes, StrayTypes, GuestTypes, Kept
  <2> QED
    BY <1>2, <2>1, <2>2 DEF StepOf
<1>4. StageInv(d)'
  BY <1>1, <1>2 DEF CallInv, StageInv, Done, Types, CallTypes, FeedTypes, OutTypes,
       RequestTypes, StrayTypes, GuestTypes, Kind
<1>5. InputInv(d)'
  BY <1>1, <1>2 DEF CallInv, InputInv, StageInv, Done, Types, CallTypes, FeedTypes,
       OutTypes, RequestTypes, StrayTypes, GuestTypes, Kind
<1>6. LateInv(d)'
  BY <1>1, <1>2 DEF CallInv, LateInv, StageInv, InputInv, Left, Carries, Done, Types,
       CallTypes, FeedTypes, OutTypes, RequestTypes, StrayTypes, GuestTypes, Kind
<1>7. FailedInv(d)'
  BY <1>1, <1>2 DEF CallInv, FailedInv, StageInv, Done, Types, CallTypes, FeedTypes,
       OutTypes, RequestTypes, StrayTypes, GuestTypes, Kind
<1>8. UnsentInv(d)'
  BY <1>1, <1>2 DEF CallInv, UnsentInv, StageInv, RunInv, Left, Unsent, Done, Types,
       CallTypes, FeedTypes, OutTypes, RequestTypes, StrayTypes, GuestTypes, Kind
<1>9. StreamInv(d)'
  BY <1>1, <1>2 DEF CallInv, StreamInv, StageInv, RunInv, UnsentInv, Left, Unsent, Done,
       Types, CallTypes, FeedTypes, OutTypes, RequestTypes, StrayTypes, GuestTypes, Kind
<1>10. PlainInv(d)'
  BY <1>1, <1>2 DEF CallInv, PlainInv, StageInv, RunInv, UnsentInv, Unsent, Done, Types,
       CallTypes, FeedTypes, OutTypes, RequestTypes, StrayTypes, GuestTypes, Kind
<1>11. QuietInv(d)'
  BY <1>1, <1>2 DEF CallInv, QuietInv, StageInv, Left, Quiet, Done, RunInv, StreamInv,
       Types, CallTypes, FeedTypes, OutTypes, RequestTypes, StrayTypes, GuestTypes, Kind
<1> QED
  BY <1>3, <1>4, <1>5, <1>6, <1>7, <1>8, <1>9, <1>10, <1>11, StepOfStays DEF CallInv, RunInv

\* A command with input runs too long and is killed, and the response says so.
LEMMA GuestTimeoutInput ==
  ASSUME HttpInv, NEW d \in Calls, GuestTimeout(d), Kind(d) = "stdin"
  PROVE  HttpInv'
<1> USE HttpAssumption
<1>1. CallInv(d) /\ Types
  BY DEF HttpInv
<1>2. /\ command[d] = "running"
      /\ Kind(d) = "stdin" /\ request[d] = "served"
      /\ session' = session
      /\ UNCHANGED <<call, out, feed, input, cancel, strays, got, runs, failed>>
      /\ command' = [command EXCEPT ![d] = "killed"]
      /\ events' = [events EXCEPT ![d] = IF request[d] = "served" THEN Append(@, "exit") ELSE @]
      /\ request' = [request EXCEPT ![d] = IF @ = "served" THEN "answered" ELSE @]
  BY <1>1 DEF GuestTimeout, EndWith, wireVars, guestVars, hostVars, Finished
<1>3. StepOf(d)
  <2>1. Types'
    BY <1>1, <1>2 DEF Types, CallTypes, FeedTypes, OutTypes, RequestTypes, StrayTypes,
         GuestTypes, Done
  <2>2. \A c \in Calls \ {d} : Kept(c)
    BY <1>1, <1>2 DEF Types, OutTypes, RequestTypes, StrayTypes, GuestTypes, Kept
  <2> QED
    BY <1>2, <2>1, <2>2 DEF StepOf
<1>4. StageInv(d)'
  BY <1>1, <1>2 DEF CallInv, StageInv, Done, Types, CallTypes, FeedTypes, OutTypes,
       RequestTypes, StrayTypes, GuestTypes, Kind
<1>5. InputInv(d)'
  BY <1>1, <1>2 DEF CallInv, InputInv, StageInv, Done, Types, CallTypes, FeedTypes,
       OutTypes, RequestTypes, StrayTypes, GuestTypes, Kind
<1>6. LateInv(d)'
  BY <1>1, <1>2 DEF CallInv, LateInv, StageInv, InputInv, Left, Carries, Done, Types,
       CallTypes, FeedTypes, OutTypes, RequestTypes, StrayTypes, GuestTypes, Kind
<1>7. FailedInv(d)'
  BY <1>1, <1>2 DEF CallInv, FailedInv, StageInv, Done, Types, CallTypes, FeedTypes,
       OutTypes, RequestTypes, StrayTypes, GuestTypes, Kind
<1>8. UnsentInv(d)'
  BY <1>1, <1>2 DEF CallInv, UnsentInv, StageInv, RunInv, Left, Unsent, Done, Types,
       CallTypes, FeedTypes, OutTypes, RequestTypes, StrayTypes, GuestTypes, Kind
<1>9. StreamInv(d)'
  BY <1>1, <1>2 DEF CallInv, StreamInv, StageInv, RunInv, UnsentInv, Left, Unsent, Done,
       Types, CallTypes, FeedTypes, OutTypes, RequestTypes, StrayTypes, GuestTypes, Kind
<1>10. PlainInv(d)'
  BY <1>1, <1>2 DEF CallInv, PlainInv, StageInv, RunInv, UnsentInv, Unsent, Done, Types,
       CallTypes, FeedTypes, OutTypes, RequestTypes, StrayTypes, GuestTypes, Kind
<1>11. QuietInv(d)'
  BY <1>1, <1>2 DEF CallInv, QuietInv, StageInv, Left, Quiet, Done, RunInv, StreamInv,
       Types, CallTypes, FeedTypes, OutTypes, RequestTypes, StrayTypes, GuestTypes, Kind
<1> QED
  BY <1>3, <1>4, <1>5, <1>6, <1>7, <1>8, <1>9, <1>10, <1>11, StepOfStays DEF CallInv, RunInv

\* A streamed command runs too long: its response ends while it goes on.
LEMMA GuestTimeoutStream ==
  ASSUME HttpInv, NEW d \in Calls, GuestTimeout(d), Kind(d) # "stdin"
  PROVE  HttpInv'
<1> USE HttpAssumption
<1>1. CallInv(d) /\ Types
  BY DEF HttpInv
<1>2. /\ command[d] = "running"
      /\ Kind(d) # "stdin" /\ request[d] = "served"
      /\ session' = session
      /\ UNCHANGED <<call, out, feed, input, cancel, strays, command, got, runs, failed>>
      /\ events' = [events EXCEPT ![d] = IF request[d] = "served" THEN Append(@, "exit") ELSE @]
      /\ request' = [request EXCEPT ![d] = IF @ = "served" THEN "answered" ELSE @]
  BY <1>1 DEF GuestTimeout, EndWith, Types, GuestTypes, wireVars, guestVars, hostVars,
       Finished
<1>3. StepOf(d)
  <2>1. Types'
    BY <1>1, <1>2 DEF Types, CallTypes, FeedTypes, OutTypes, RequestTypes, StrayTypes,
         GuestTypes, Done
  <2>2. \A c \in Calls \ {d} : Kept(c)
    BY <1>1, <1>2 DEF Types, OutTypes, RequestTypes, StrayTypes, GuestTypes, Kept
  <2> QED
    BY <1>2, <2>1, <2>2 DEF StepOf
<1>4. StageInv(d)'
  BY <1>1, <1>2 DEF CallInv, StageInv, Done, Types, CallTypes, FeedTypes, OutTypes,
       RequestTypes, StrayTypes, GuestTypes, Kind
<1>5. InputInv(d)'
  BY <1>1, <1>2 DEF CallInv, InputInv, StageInv, Done, Types, CallTypes, FeedTypes,
       OutTypes, RequestTypes, StrayTypes, GuestTypes, Kind
<1>6. LateInv(d)'
  BY <1>1, <1>2 DEF CallInv, LateInv, StageInv, InputInv, Left, Carries, Done, Types,
       CallTypes, FeedTypes, OutTypes, RequestTypes, StrayTypes, GuestTypes, Kind
<1>7. FailedInv(d)'
  BY <1>1, <1>2 DEF CallInv, FailedInv, StageInv, Done, Types, CallTypes, FeedTypes,
       OutTypes, RequestTypes, StrayTypes, GuestTypes, Kind
<1>8. UnsentInv(d)'
  BY <1>1, <1>2 DEF CallInv, UnsentInv, StageInv, RunInv, Left, Unsent, Done, Types,
       CallTypes, FeedTypes, OutTypes, RequestTypes, StrayTypes, GuestTypes, Kind
<1>9. StreamInv(d)'
  BY <1>1, <1>2 DEF CallInv, StreamInv, StageInv, RunInv, UnsentInv, Left, Unsent, Done,
       Types, CallTypes, FeedTypes, OutTypes, RequestTypes, StrayTypes, GuestTypes, Kind
<1>10. PlainInv(d)'
  BY <1>1, <1>2 DEF CallInv, PlainInv, StageInv, RunInv, UnsentInv, Unsent, Done, Types,
       CallTypes, FeedTypes, OutTypes, RequestTypes, StrayTypes, GuestTypes, Kind
<1>11. QuietInv(d)'
  BY <1>1, <1>2 DEF CallInv, QuietInv, StageInv, Left, Quiet, Done, Types, CallTypes,
       FeedTypes, OutTypes, RequestTypes, StrayTypes, GuestTypes, Kind
<1> QED
  BY <1>3, <1>4, <1>5, <1>6, <1>7, <1>8, <1>9, <1>10, <1>11, StepOfStays DEF CallInv, RunInv

\* The command gets the part that is in the request, which is the next one.
LEMMA ServeInputStep ==
  ASSUME HttpInv, NEW d \in Calls, ServeInput(d)
  PROVE  HttpInv'
<1> USE HttpAssumption
<1>1. CallInv(d) /\ Types
  BY DEF HttpInv
<1>2. /\ input[d] = "sent" /\ command[d] = "running"
      /\ session' = session
      /\ UNCHANGED <<call, out, feed, cancel, request, events, strays, command, runs, failed>>
      /\ got' = [got EXCEPT ![d] = Append(@, Carries(d))]
      /\ input' = [input EXCEPT ![d] = IF Carries(d) = Eof THEN "closed" ELSE "more"]
  BY <1>1 DEF ServeInput, Takes, wireVars, guestVars, hostVars, Finished
<1>3. /\ Len(got[d]) \in Nat /\ feed[d].taken \in Nat /\ session.chunks \in Nat
      /\ Carries(d) = IF Len(got[d]) + 1 > session.chunks THEN Eof ELSE Len(got[d]) + 1
      /\ Carries(d) \in Nat
  BY <1>1, <1>2 DEF Types, GuestTypes, FeedTypes, CallInv, InputInv, Carries, Eof
<1>4. /\ got'[d] = Append(got[d], Carries(d)) /\ Len(got'[d]) = Len(got[d]) + 1
      /\ \A i \in 1..Len(got[d]) : got'[d][i] = got[d][i]
      /\ got'[d][Len(got[d]) + 1] = Carries(d)
  BY <1>1, <1>2, <1>3 DEF Types, GuestTypes
<1>5. StepOf(d)
  <2>1. Types'
    BY <1>1, <1>2, <1>3, <1>4 DEF Types, CallTypes, FeedTypes, OutTypes, RequestTypes,
         StrayTypes, GuestTypes, Done
  <2>2. \A c \in Calls \ {d} : Kept(c)
    BY <1>1, <1>2, <1>3, <1>4 DEF Types, OutTypes, RequestTypes, StrayTypes, GuestTypes,
         Kept
  <2> QED
    BY <1>2, <2>1, <2>2 DEF StepOf
<1>6. StageInv(d)'
  BY <1>1, <1>2, <1>3, <1>4 DEF CallInv, StageInv, Done, Types, CallTypes, FeedTypes,
       OutTypes, RequestTypes, StrayTypes, GuestTypes, Kind
<1>7. InputInv(d)'
  BY <1>1, <1>2, <1>3, <1>4 DEF CallInv, InputInv, StageInv, Done, Types, CallTypes,
       FeedTypes, OutTypes, RequestTypes, StrayTypes, GuestTypes, Kind
<1>8. LateInv(d)'
  BY <1>1, <1>2, <1>3, <1>4 DEF CallInv, LateInv, StageInv, InputInv, Left, Carries, Done,
       Types, CallTypes, FeedTypes, OutTypes, RequestTypes, StrayTypes, GuestTypes, Kind
<1>9. FailedInv(d)'
  BY <1>1, <1>2, <1>3, <1>4 DEF CallInv, FailedInv, StageInv, Done, Types, CallTypes,
       FeedTypes, OutTypes, RequestTypes, StrayTypes, GuestTypes, Kind
<1>10. UnsentInv(d)'
  BY <1>1, <1>2, <1>3, <1>4 DEF CallInv, UnsentInv, StageInv, RunInv, Left, Unsent, Done,
       Types, CallTypes, FeedTypes, OutTypes, RequestTypes, StrayTypes, GuestTypes, Kind
<1>11. StreamInv(d)'
  BY <1>1, <1>2, <1>3, <1>4 DEF CallInv, StreamInv, StageInv, RunInv, UnsentInv, Left,
       Unsent, Done, Types, CallTypes, FeedTypes, OutTypes, RequestTypes, StrayTypes,
       GuestTypes, Kind
<1>12. PlainInv(d)'
  BY <1>1, <1>2, <1>3, <1>4 DEF CallInv, PlainInv, StageInv, RunInv, UnsentInv, Unsent,
       Done, Types, CallTypes, FeedTypes, OutTypes, RequestTypes, StrayTypes, GuestTypes,
       Kind
<1>13. QuietInv(d)'
  BY <1>1, <1>2, <1>3, <1>4 DEF CallInv, QuietInv, StageInv, Left, Quiet, Done, Types,
       CallTypes, FeedTypes, OutTypes, RequestTypes, StrayTypes, GuestTypes, Kind
<1> QED
  BY <1>5, <1>6, <1>7, <1>8, <1>9, <1>10, <1>11, <1>12, <1>13, StepOfStays DEF CallInv, RunInv

\* run_with_stdin ends: both tasks are cancelled, and unless there is a result
\* the command is to be killed, by the cancel request or by its response being
\* given up.
LEMMA FinallyStep ==
  ASSUME HttpInv, NEW d \in Calls, NEW r \in {"result", "error", None},
         call[d].at \in {"wait", "output"}, Finally(d, r),
         r = "result" => out[d] = "result" /\ feed[d].at # "raised",
         session' = session, UNCHANGED <<events, command, got, runs, failed>>
  PROVE  HttpInv'
<1> USE HttpAssumption
<1>1. CallInv(d) /\ Types
  BY DEF HttpInv
<1> DEFINE p == IF r \in {None, "error"} /\ open THEN "cancel" ELSE "gather"
           f == Ended(feed[d].at)
<1>2. /\ out' = [out EXCEPT ![d] = IF out[d] \in Done THEN out[d] ELSE "cancelled"]
      /\ input' = [input EXCEPT ![d] = None]
      /\ request' = [request EXCEPT ![d] = IF out[d] \in Done THEN @ ELSE "dropped"]
      /\ cancel' = [cancel EXCEPT ![d] = IF r \notin {None, "error"} THEN None
                                         ELSE IF open THEN "sent" ELSE "failed"]
  BY <1>1 DEF Finally, Ended, Finished, Types, OutTypes
<1>3. /\ CallTypes' /\ \A c \in Calls \ {d} : call'[c] = call[c]
      /\ call'[d].at = p /\ call'[d].tries = call[d].tries /\ call'[d].result = r
  <2>1. p \in Places /\ r \in Done \cup {None}
    BY DEF Places, Done
  <2>2. call' = [call EXCEPT ![d].result = r, ![d].at = p]
    BY DEF Finally
  <2> HIDE DEF p
  <2> QED
    BY <1>1, <2>1, <2>2, CallWinds DEF Types
<1>4. /\ FeedTypes' /\ \A c \in Calls \ {d} : feed'[c] = feed[c]
      /\ feed'[d].at = f /\ feed'[d].taken = feed[d].taken
  <2>1. f \in FeedPlaces /\ feed' = [feed EXCEPT ![d].at = f]
    BY DEF Finally, Ended, FeedPlaces, Done
  <2> HIDE DEF f
  <2> QED
    BY <1>1, <2>1, FeedMoves DEF Types
<1>5. f \in Done /\ (f = "raised" <=> feed[d].at = "raised")
  BY DEF Ended, Done
<1>6. /\ StrayTypes' /\ \A c \in Calls \ {d} : strays'[c] = strays[c]
      /\ request[d] # "sent" => Left(d, "run")' = Left(d, "run")
      /\ Left(d, "run") = {} => \A k, m \in Left(d, "run")' : k = m
      /\ \A k \in Left(d, "input") : strays'[d][k] = strays[d][k]
      /\ input[d] # "sent" => Left(d, "input")' = Left(d, "input")
      /\ Left(d, "input") = {} => /\ \A k, m \in Left(d, "input")' : k = m
                                 /\ \A k \in Left(d, "input")' : strays'[d][k].part = Carries(d)
  BY <1>1, FinallyLeaves DEF Finally, Types
<1>7. p \in {"cancel", "gather"} /\ (p = "cancel" <=> r \in {None, "error"} /\ open)
  OBVIOUS
<1> HIDE DEF p, f
<1>8. Kind(d) = "stdin" /\ Kind(d)' = Kind(d) /\ out[d] \notin {None, "cancelled"} /\ cancel[d] = None
  BY <1>1 DEF CallInv, StageInv, Kind
<1>9. Carries(d)' = Carries(d)
  BY <1>4 DEF Carries
<1>10. StepOf(d)
  <2>1. Types'
    BY <1>1, <1>2, <1>3, <1>4, <1>6 DEF Types, OutTypes, RequestTypes, GuestTypes, Done
  <2>2. \A c \in Calls \ {d} : Kept(c)
    BY <1>1, <1>2, <1>3, <1>4, <1>6 DEF Types, OutTypes, RequestTypes, GuestTypes, Kept
  <2> QED
    BY <2>1, <2>2 DEF StepOf
<1>11. /\ out'[d] = (IF out[d] \in Done THEN out[d] ELSE "cancelled") /\ input'[d] = None
       /\ request'[d] = (IF out[d] \in Done THEN request[d] ELSE "dropped")
       /\ cancel'[d] = (IF r \notin {None, "error"} THEN None
                        ELSE IF open THEN "sent" ELSE "failed")
  BY <1>1, <1>2 DEF Types, OutTypes, RequestTypes
<1>12. StageInv(d)'
  BY <1>3, <1>4, <1>5, <1>7, <1>8, <1>11 DEF StageInv, Done
<1>13. InputInv(d)'
  BY <1>1, <1>4, <1>5, <1>11 DEF CallInv, InputInv, Done
<1>14. LateInv(d)'
  <2>1. CASE input[d] = "sent"
    <3>1. Left(d, "input") = {} /\ Len(got[d]) + 1 = feed[d].taken
      BY <1>1, <2>1 DEF CallInv, InputInv, LateInv, Done
    <3> QED
      BY <1>4, <1>5, <1>6, <1>9, <3>1 DEF LateInv
  <2>2. CASE input[d] # "sent"
    <3>1. Left(d, "input")' = Left(d, "input")
      BY <1>6, <2>2
    <3>2. \A k \in Left(d, "input")' : strays'[d][k].part = Carries(d)'
      BY <1>1, <1>6, <1>9, <3>1 DEF CallInv, LateInv
    <3> QED
      BY <1>1, <1>4, <1>5, <3>1, <3>2 DEF CallInv, LateInv
  <2> QED
    BY <2>1, <2>2
<1>15. FailedInv(d)'
  BY <1>1, <1>3, <1>4, <1>5 DEF CallInv, FailedInv
<1>16. UnsentInv(d)'
  BY <1>3, <1>7, <1>8, <1>11 DEF UnsentInv, Unsent, Done
<1>17. StreamInv(d)'
  <2>1. CASE request[d] = "sent"
    BY <1>1, <1>6, <1>8, <1>11, <2>1 DEF CallInv, RunInv, StreamInv
  <2>2. CASE request[d] # "sent"
    BY <1>1, <1>6, <1>8, <1>11, <2>2 DEF CallInv, RunInv, StreamInv
  <2> QED
    BY <2>1, <2>2
<1>18. PlainInv(d)'
  BY <1>8 DEF PlainInv
<1>19. QuietInv(d)'
  <2>1. Quiet(d) => Quiet(d)'
    BY <1>6, <1>11 DEF Quiet
  <2>2. out'[d] = "result" => out[d] = "result"
    BY <1>11
  <2>3. call'[d].at = "gather" => cancel'[d] = "failed" \/ Quiet(d)'
    BY <1>1, <1>3, <1>7, <1>8, <1>11, <2>1 DEF CallInv, QuietInv
  <2> QED
    BY <1>1, <1>3, <1>7, <1>8, <1>11, <2>1, <2>2, <2>3 DEF CallInv, QuietInv
<1> QED
  BY <1>10, <1>12, <1>13, <1>14, <1>15, <1>16, <1>17, <1>18, <1>19, StepOfStays
     DEF CallInv, RunInv

\* Whatever ends it.
LEMMA FinallySteps ==
  ASSUME HttpInv, NEW d \in Calls, InputRaises(d) \/ TakeResult(d) \/ Deadline(d) \/ CutTasks(d)
  PROVE  HttpInv'
<1>1. CASE InputRaises(d)
  <2>1. Finally(d, None) /\ call[d].at = "wait"
    BY <1>1 DEF InputRaises
  <2> QED
    BY <1>1, <2>1, HttpAssumption, FinallyStep DEF InputRaises, guestVars
<1>2. CASE TakeResult(d)
  <2> DEFINE r == IF out[d] = "raised" THEN None ELSE out[d]
  <2>1. CallInv(d)
    BY DEF HttpInv
  <2>2. Finally(d, r) /\ call[d].at \in {"wait", "output"} /\ out[d] \in Done
    BY <1>2 DEF TakeResult, Finished
  <2>3. r \in {"result", "error", None}
    BY <2>1, <2>2 DEF CallInv, StageInv, Done
  <2>4. r = "result" => out[d] = "result" /\ feed[d].at # "raised"
    BY <1>2, <2>1, HttpAssumption DEF TakeResult, CallInv, StageInv
  <2>5. session' = session /\ UNCHANGED <<events, command, got, runs, failed>>
    BY <1>2 DEF TakeResult, guestVars
  <2> HIDE DEF r
  <2> QED
    BY <2>2, <2>3, <2>4, <2>5, FinallyStep
<1>3. CASE Deadline(d)
  <2>1. Finally(d, "error") /\ call[d].at \in {"wait", "output"}
    BY <1>3 DEF Deadline
  <2> QED
    BY <1>3, <2>1, FinallyStep DEF Deadline, guestVars
<1>4. CASE CutTasks(d)
  <2>1. Finally(d, None) /\ call[d].at \in {"wait", "output"}
    BY <1>4 DEF CutTasks
  <2> QED
    BY <1>4, <2>1, HttpAssumption, FinallyStep DEF CutTasks, guestVars
<1> QED
  BY <1>1, <1>2, <1>3, <1>4

\* A stray is carried out: the run of a command whose call has given up, a part
\* of input that fits at the end of what was received, or a cancellation.
LEMMA ServeStrayStep ==
  ASSUME HttpInv, NEW d \in Calls, ServeStray(d)
  PROVE  HttpInv'
<1> USE HttpAssumption
<1>1. CallInv(d) /\ Types
  BY DEF HttpInv
<1>2. /\ UNCHANGED <<session, call, out, feed, input, cancel, request, events, failed>>
  BY DEF ServeStray, hostVars
<1>3. PICK i \in DOMAIN strays[d] :
        /\ CarriedOut(d, strays[d][i])
        /\ strays' = [strays EXCEPT ![d] = SubSeq(@, 1, i - 1) \o SubSeq(@, i + 1, Len(@))]
  BY DEF ServeStray
<1> DEFINE s == strays[d]  e == strays[d][i]
           t == SubSeq(strays[d], 1, i - 1) \o SubSeq(strays[d], i + 1, Len(strays[d]))
<1>4. s \in Seq(StraySet) /\ i \in DOMAIN s /\ e \in StraySet /\ Len(s) \in Nat
  BY <1>1 DEF Types, StrayTypes
<1>5. /\ t \in Seq(StraySet) /\ Len(t) + 1 = Len(s)
      /\ \A w : Those(s, w) = {} => Those(t, w) = {}
      /\ \A w : (\A j, k \in Those(s, w) : j = k) =>
           (\A j, k \in Those(t, w) : j = k) /\ (s[i].what = w => Those(t, w) = {})
      /\ \A w : \A j \in Those(t, w) : \E k \in Those(s, w) : t[j] = s[k]
  BY <1>4, OneLess
<1>6. /\ StrayTypes' /\ strays'[d] = t /\ \A c \in Calls \ {d} : strays'[c] = strays[c]
  <2>1. strays' = [strays EXCEPT ![d] = t]
    BY <1>3
  <2> HIDE DEF t
  <2> QED
    BY <1>1, <1>5, <2>1 DEF Types, StrayTypes
<1>7. i \in Left(d, e.what) /\ e.what \in {"run", "input", "cancel"}
  BY <1>4 DEF Left, Those, StraySet
<1>8. s = strays[d] /\ e = s[i]
  OBVIOUS
<1> HIDE DEF s, e, t
<1>9. /\ Left(d, "run") = {} => Left(d, "run")' = {}
      /\ Left(d, "input") = {} => Left(d, "input")' = {}
      /\ \A j \in Left(d, "input")' : \E k \in Left(d, "input") : strays'[d][j] = strays[d][k]
      /\ \A w : (\A j, k \in Left(d, w) : j = k) =>
           (\A j, k \in Left(d, w)' : j = k) /\ (e.what = w => Left(d, w)' = {})
      /\ Len(strays'[d]) + 1 = Len(strays[d]) /\ Len(strays'[d]) \in Nat
  BY <1>4, <1>5, <1>6, <1>8 DEF Left
<1>10. Carries(d)' = Carries(d) /\ Kind(d)' = Kind(d) /\ Unsent(d)' = Unsent(d)
  BY <1>2 DEF Carries, Kind, Unsent
<1>11. StageInv(d)' /\ FailedInv(d)'
  BY <1>1, <1>2 DEF CallInv, StageInv, FailedInv, Kind
<1>12. \A k, j \in Left(d, "input") : k = j
  BY <1>1 DEF CallInv, LateInv
<1>13. \A j \in Left(d, "input")' : strays'[d][j].part = Carries(d)'
  BY <1>1, <1>9, <1>10 DEF CallInv, LateInv
<1>14. (\A j, k \in Left(d, "input")' : j = k) /\ (e.what = "input" => Left(d, "input")' = {})
  BY <1>9, <1>12
<1>15. CASE e.what = "run"
  <2>1. /\ runs' = [runs EXCEPT ![d] = @ + 1] /\ got' = got
        /\ command' = [command EXCEPT ![d] = IF Kind(d) = "plain" THEN @ ELSE "running"]
    BY <1>3, <1>15 DEF CarriedOut, Starts, e
  <2>2. runs'[d] = runs[d] + 1 /\ runs[d] \in Nat /\ call[d].tries \in Nat
        /\ command'[d] = (IF Kind(d) = "plain" THEN command[d] ELSE "running")
    BY <1>1, <2>1 DEF Types, GuestTypes, CallTypes
  <2>3. StepOf(d)
    BY <1>1, <1>2, <1>6, <2>1 DEF StepOf, Types, CallTypes, FeedTypes, OutTypes, RequestTypes,
         GuestTypes, Kept
  <2>4. i \in Left(d, "run")
    BY <1>7, <1>15
  <2>5. ~Unsent(d)
    BY <1>1, <2>4 DEF CallInv, RunInv, UnsentInv
  <2>6. InputInv(d)' /\ LateInv(d)'
    BY <1>1, <1>2, <1>9, <1>13, <1>14, <2>1 DEF CallInv, InputInv, LateInv
  <2>7. UnsentInv(d)'
    BY <1>10, <2>5 DEF UnsentInv
  <2>8. StreamInv(d)'
    <3>1. SUFFICES ASSUME Kind(d) # "plain" PROVE StreamInv(d)'
      BY <1>10 DEF StreamInv
    <3>2. runs[d] = 0 /\ request[d] # "sent" /\ \A j, k \in Left(d, "run") : j = k
      BY <1>1, <2>4, <3>1 DEF CallInv, RunInv, StreamInv
    <3>3. Left(d, "run")' = {} /\ runs'[d] = 1
      BY <1>9, <1>15, <2>2, <3>2
    <3> QED
      BY <1>2, <3>2, <3>3 DEF StreamInv
  <2>9. PlainInv(d)'
    <3>1. SUFFICES ASSUME Kind(d) = "plain" PROVE PlainInv(d)'
      BY <1>10 DEF PlainInv
    <3>2. runs'[d] + Len(strays'[d]) = runs[d] + Len(strays[d])
      <4>1. Len(strays'[d]) \in Nat /\ Len(strays'[d]) + 1 = Len(strays[d])
        BY <1>9
      <4>2. \A m, n, k \in Nat : n + 1 = m => (k + 1) + n = k + m
        OBVIOUS
      <4>3. Len(strays[d]) \in Nat
        BY <1>4, <1>8
      <4>4. (runs[d] + 1) + Len(strays'[d]) = runs[d] + Len(strays[d])
        BY <2>2, <4>1, <4>2, <4>3
      <4> QED
        BY <2>2, <4>4
    <3> QED
      BY <1>1, <1>2, <2>2, <3>1, <3>2 DEF CallInv, RunInv, PlainInv
  <2>10. QuietInv(d)'
    BY <1>1, <1>2, <1>10, <2>4 DEF CallInv, QuietInv, Quiet
  <2> QED
    BY <1>11, <2>3, <2>6, <2>7, <2>8, <2>9, <2>10, StepOfStays DEF CallInv, RunInv
<1>16. CASE e.what # "run"
  <2>1. /\ runs' = runs
        /\ \/ got' = got
           \/ /\ e.what = "input" /\ command[d] = "running"
              /\ got' = [got EXCEPT ![d] = Append(@, e.part)]
        /\ \/ command' = command
           \/ command' = [command EXCEPT ![d] = IF @ = "running" THEN "killed" ELSE @]
    <3>1. CASE e.what = "input"
      BY <1>1, <1>3, <3>1 DEF CarriedOut, e, Takes, Types, GuestTypes
    <3>2. CASE e.what = "cancel"
      BY <1>3, <3>2 DEF CarriedOut, e
    <3> QED
      BY <1>7, <1>16, <3>1, <3>2
  <2>2. e.part \in Nat
    BY <1>4 DEF StraySet
  <2>3. GuestTypes' /\ \A c \in Calls \ {d} : got'[c] = got[c] /\ command'[c] = command[c]
    <3>1. got' \in [Calls -> Seq(Nat)] /\ \A c \in Calls \ {d} : got'[c] = got[c]
      <4>1. CASE got' = got
        BY <1>1, <4>1 DEF Types, GuestTypes
      <4>2. CASE got' = [got EXCEPT ![d] = Append(@, e.part)]
        <5>1. Append(got[d], e.part) \in Seq(Nat)
          BY <1>1, <2>2 DEF Types, GuestTypes
        <5> QED
          BY <1>1, <4>2, <5>1 DEF Types, GuestTypes
      <4> QED
        BY <2>1, <4>1, <4>2
    <3>2. /\ command' \in [Calls -> {"none", "running", "exited", "killed"}]
          /\ \A c \in Calls \ {d} : command'[c] = command[c]
      BY <1>1, <2>1 DEF Types, GuestTypes
    <3>3. runs' \in [Calls -> Nat]
      BY <1>1, <2>1 DEF Types, GuestTypes
    <3> QED
      BY <3>1, <3>2, <3>3 DEF GuestTypes
  <2>4. StepOf(d)
    BY <1>1, <1>2, <1>6, <2>1, <2>3 DEF StepOf, Types, CallTypes, FeedTypes, OutTypes, RequestTypes,
         Kept
  <2>5. /\ command'[d] = command[d] \/ (command[d] = "running" /\ command'[d] = "killed")
        /\ runs'[d] = runs[d]
    BY <1>1, <2>1 DEF Types, GuestTypes
  <2>6. InputInv(d)' /\ LateInv(d)'
    <3>1. CASE got' = got
      BY <1>1, <1>2, <1>9, <1>13, <1>14, <3>1 DEF CallInv, InputInv, LateInv
    <3>2. CASE e.what = "input" /\ got' = [got EXCEPT ![d] = Append(@, e.part)]
      <4>1. i \in Left(d, "input") /\ Left(d, "input")' = {} /\ e.part = Carries(d)
        BY <1>1, <1>7, <1>8, <1>14, <3>2 DEF CallInv, LateInv
      <4>2. /\ Len(got[d]) \in Nat /\ feed[d].taken \in Nat /\ session.chunks \in Nat
            /\ Len(got[d]) + 1 = feed[d].taken /\ feed[d].at \in Done
        BY <1>1, <4>1 DEF Types, GuestTypes, FeedTypes, CallInv, LateInv
      <4>3. e.part = IF Len(got[d]) + 1 > session.chunks THEN Eof ELSE Len(got[d]) + 1
        BY <4>1, <4>2 DEF Carries
      <4>4. /\ Len(got'[d]) = Len(got[d]) + 1 /\ got'[d][Len(got[d]) + 1] = e.part
            /\ \A j \in 1..Len(got[d]) : got'[d][j] = got[d][j]
        BY <1>1, <2>2, <3>2 DEF Types, GuestTypes
      <4>5. input[d] = None
        BY <1>1, <4>2 DEF CallInv, InputInv, Done
      <4> QED
        BY <1>1, <1>2, <4>1, <4>2, <4>3, <4>4, <4>5 DEF CallInv, InputInv, LateInv, Done
    <3> QED
      BY <2>1, <3>1, <3>2
  <2>7. RunInv(d)'
    <3>1. UnsentInv(d)'
      <4>1. out[d] # "created" => strays[d] # <<>>
        BY <1>4, <1>8
      <4> QED
        BY <1>1, <1>2, <1>9, <1>10, <2>5, <4>1 DEF CallInv, RunInv, UnsentInv
    <3>2. StreamInv(d)'
      <4>1. SUFFICES ASSUME Kind(d) # "plain" PROVE StreamInv(d)'
        BY <1>10 DEF StreamInv
      <4>2. \A j, k \in Left(d, "run")' : j = k
        BY <1>1, <1>9, <4>1 DEF CallInv, RunInv, StreamInv
      <4>3. Left(d, "run")' # {} => Left(d, "run") # {}
        BY <1>9
      <4> QED
        BY <1>1, <1>2, <2>5, <4>1, <4>2, <4>3, <1>9 DEF CallInv, RunInv, StreamInv
    <3>3. PlainInv(d)'
      <4>1. SUFFICES ASSUME Kind(d) = "plain" PROVE PlainInv(d)'
        BY <1>10 DEF PlainInv
      <4>2. Len(strays'[d]) <= Len(strays[d]) /\ runs[d] \in Nat /\ call[d].tries \in Nat
        BY <1>1, <1>4, <1>8, <1>9 DEF Types, GuestTypes, CallTypes
      <4>3. /\ runs[d] + Len(strays[d]) + (IF request[d] = "sent" THEN 1 ELSE 0)
                 <= call[d].tries + (IF call[d].at \in {"sent", "over"} THEN 1 ELSE 0)
            /\ command[d] = "none"
        BY <1>1, <4>1 DEF CallInv, RunInv, PlainInv
      <4>4. \A k, m, n, p, q \in Nat : n <= m /\ k + m + p <= q => k + n + p <= q
        OBVIOUS
      <4>5. /\ Len(strays[d]) \in Nat /\ Len(strays'[d]) \in Nat
            /\ (IF request[d] = "sent" THEN 1 ELSE 0) \in Nat
            /\ call[d].tries + (IF call[d].at \in {"sent", "over"} THEN 1 ELSE 0) \in Nat
        BY <1>4, <1>8, <1>9, <4>2
      <4>6. runs[d] + Len(strays'[d]) + (IF request[d] = "sent" THEN 1 ELSE 0)
              <= call[d].tries + (IF call[d].at \in {"sent", "over"} THEN 1 ELSE 0)
        BY <4>2, <4>3, <4>4, <4>5
      <4> QED
        BY <1>2, <2>5, <4>3, <4>6 DEF PlainInv
    <3> QED
      BY <3>1, <3>2, <3>3 DEF RunInv
  <2>8. QuietInv(d)'
    <3>1. Quiet(d) => Quiet(d)'
      BY <1>2, <1>9, <2>5 DEF Quiet
    <3> QED
      BY <1>1, <1>2, <1>10, <3>1 DEF CallInv, QuietInv
  <2> QED
    BY <1>11, <2>4, <2>6, <2>7, <2>8, StepOfStays DEF CallInv
<1> QED
  BY <1>15, <1>16

----------------------------------------------------------------------------
(* Every step, and what follows *)

\* Every step of the host, the guest and the environment preserves the invariant.
LEMMA HttpStep ==
  ASSUME HttpInv, [Next]_vars
  PROVE  HttpInv'
<1>1. ASSUME NEW d \in Calls, Begin(d) PROVE HttpInv'
  BY <1>1, BeginWaits, BeginRefused
<1>2. ASSUME NEW d \in Calls, Host(d) PROVE HttpInv'
  <2>1. CASE LockTooLate(d) \/ SendPlain(d) \/ SendStream(d) \/ StartTasks(d) \/ StartOutput(d)
    BY <2>1, LockTooLateStep, SendPlainStep, SendStreamStep, StartTasksStep, StartOutputStep
  <2>2. CASE Answered(d) \/ Resend(d) \/ ReadEvent(d) \/ StreamEnds(d) \/ StreamReturns(d)
    BY <2>2, AnsweredStep, ResendSends, ResendRaises, ReadReady, ReadEnd, StreamEndsStep,
       StreamReturnsStep
  <2>3. CASE FeedReady(d) \/ TakeChunk(d) \/ SourceRaises(d) \/ Acknowledged(d)
    BY <2>3, FeedReadyStep, TakeTooLate, TakeFails, TakeSends, SourceRaisesStep, AcknowledgedStep
  <2>4. CASE InputRaises(d) \/ InputDone(d) \/ TakeResult(d) \/ CancelAnswered(d) \/ Gather(d)
    BY <2>4, FinallySteps, InputDoneStep, CancelAnsweredStep, GatherRaises, GatherReturns
  <2> QED
    BY <1>2, <2>1, <2>2, <2>3, <2>4 DEF Host
<1>3. ASSUME NEW d \in Calls, Guest(d) PROVE HttpInv'
  BY <1>3, ServeStep, AnswerStep, CommandExitsStep, DisconnectedStep, ServeInputStep,
     InputClosedStep, ServeCancelStep DEF Guest
<1>4. ASSUME NEW d \in Calls, Environment(d) PROVE HttpInv'
  <2>1. CASE Retry(d) \/ StreamFails(d) \/ InputFails(d) \/ CancelFails(d)
    BY <2>1, RetryAgain, RetryGivesUp, StreamFailsStep, InputFailsStep, CancelFailsStep
  <2>2. CASE Cut(d) \/ CutTasks(d) \/ CutCancel(d)
    BY <2>2, CutStep, FinallySteps, CutCancelStep
  <2>3. CASE Refuse(d) \/ GuestTimeout(d) \/ EndsEarly(d) \/ ServeStray(d)
    BY <2>3, RefuseStep, GuestTimeoutInput, GuestTimeoutStream, EndsEarlyStep, ServeStrayStep
  <2> QED
    BY <1>4, <2>1, <2>2, <2>3 DEF Environment
<1>5. ASSUME NEW d \in Calls, Deadline(d) PROVE HttpInv'
  BY <1>5, FinallySteps
<1> QED
  BY <1>1, <1>2, <1>3, <1>4, <1>5, QuietSteps DEF Next

\* The invariant holds of every call, whatever else the client does.
THEOREM CallTheorem == Spec => []HttpInv
  BY HttpInit, HttpStep, PTL DEF Spec

\* The command of a call reads the bytes of the source, each once and in order,
\* and its end after them, whatever is lost, given up or carried out late; and a
\* call whose feeding failed reports no success (_stdin.py, _send_control_request).
THEOREM InputOnceTheorem == Spec => []InputOnce
<1>1. HttpInv => InputOnce
  <2> SUFFICES ASSUME HttpInv, NEW c \in Calls
               PROVE  /\ \A i \in DOMAIN got[c] :
                           got[c][i] = IF i > session.chunks THEN Eof ELSE i
                      /\ call[c].result = "result" => c \notin failed
    BY DEF InputOnce
  <2>1. got[c] \in Seq(Nat)
    BY DEF HttpInv, Types, GuestTypes
  <2>2. InputInv(c) /\ FailedInv(c)
    BY DEF HttpInv, CallInv
  <2> QED
    BY <2>1, <2>2 DEF InputInv, FailedInv
<1> QED
  BY <1>1, CallTheorem, PTL

\* The guest runs a command at most once for every attempt to send it, once for
\* a stream, and a call with input that has returned leaves none running, unless
\* its cancellation came before the command or failed (run_with_stdin,
\* _retry_on_transient_error).
THEOREM CommandsTheorem == Spec => []CommandsFollowCalls
<1>1. ASSUME HttpInv, NEW c \in Calls
      PROVE  runs[c] <= 1 + IF Kind(c) = "plain" THEN call[c].tries ELSE 0
  <2>1. runs[c] \in Nat /\ call[c].tries \in Nat /\ Len(strays[c]) \in Nat
    BY <1>1 DEF HttpInv, Types, GuestTypes, CallTypes, StrayTypes
  <2>2. StreamInv(c) /\ PlainInv(c)
    BY <1>1 DEF HttpInv, CallInv, RunInv
  <2>3. CASE Kind(c) = "plain"
    <3>1. runs[c] + Len(strays[c]) + (IF request[c] = "sent" THEN 1 ELSE 0)
            <= call[c].tries + (IF call[c].at \in {"sent", "over"} THEN 1 ELSE 0)
      BY <2>2, <2>3 DEF PlainInv
    <3>2. runs[c] <= 1 + call[c].tries
      BY <2>1, <3>1
    <3> QED
      BY <2>3, <3>2
  <2>4. CASE Kind(c) # "plain"
    BY <2>1, <2>2, <2>4 DEF StreamInv
  <2> QED
    BY <2>3, <2>4
<1>2. ASSUME HttpInv, NEW c \in Calls
      PROVE  (Kind(c) = "stdin" /\ call[c].at = "over" /\ command[c] = "running") =>
               cancel[c] \in {"unknown", "failed"}
  BY <1>2 DEF HttpInv, CallInv, QuietInv, Quiet
<1>3. HttpInv => CommandsFollowCalls
  BY <1>1, <1>2 DEF CommandsFollowCalls, RunsAreAccounted, OverMeansGone
<1> QED
  BY <1>3, CallTheorem, PTL

=============================================================================
