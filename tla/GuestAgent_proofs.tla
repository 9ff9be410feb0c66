-------------------------- MODULE GuestAgent_proofs --------------------------
(***************************************************************************)
(* ExclusiveIsAlone and UidsAreOwn of GuestAgent for any number of         *)
(* requests, users and threads.                                            *)
(***************************************************************************)
EXTENDS GuestAgent, TLAPS, WellFoundedInduction

(***************************************************************************)
(* What the argument needs of the types, and two facts about stages: only  *)
(* an exclusive request gets to claim, and a command that runs is watched  *)
(* by its request unless that has given it up.                             *)
(***************************************************************************)
Watching == {"waiting", "reading", "sending"}
Types ==
    /\ exclusiveBusy \in BOOLEAN
    /\ stage \in [Requests -> Stages]
    /\ work \in [Requests -> Works]
    /\ child \in [Requests -> {"none", "running", "ended"}]
    /\ before \in [Requests -> SUBSET Requests]
ClaimInv == \A r \in Requests : stage[r] = "claim" => work[r].exclusive
WatchInv ==
    \A r \in Requests : child[r] = "running" => r \in gaveUp \/ stage[r] \in Watching
FlagInv == exclusiveBusy <=> \E r \in Requests : Holds(r)
AloneInv == \A r, q \in Requests : Holds(r) /\ Holds(q) => r = q
BeforeInv == \A r \in Requests : Holds(r) => InHand \ {r} \subseteq before[r]
IInv == Types /\ ClaimInv /\ WatchInv /\ FlagInv /\ AloneInv /\ BeforeInv

\* The inductive invariant gives the property.
LEMMA Enough == IInv => ExclusiveIsAlone
<1> SUFFICES ASSUME IInv PROVE ExclusiveIsAlone
  OBVIOUS
<1>1. \A r \in Requests :
        child[r] = "running" /\ work[r].exclusive /\ ~Holds(r) => r \in gaveUp
  <2> SUFFICES ASSUME NEW r \in Requests,
                      child[r] = "running", work[r].exclusive, ~Holds(r)
               PROVE r \in gaveUp
    OBVIOUS
  <2>1. stage[r] \notin Watching
    BY DEF Holds, Watching, Inside, Timed
  <2> QED
    BY <2>1 DEF IInv, WatchInv
<1> QED
  BY <1>1 DEF IInv, FlagInv, AloneInv, BeforeInv, ExclusiveIsAlone

\* A step that lets nobody in and nobody out, and starts no command that is not
\* watched.
LEMMA StaysPut ==
  ASSUME IInv, stage' \in [Requests -> Stages],
         child' \in [Requests -> {"none", "running", "ended"}],
         exclusiveBusy' = exclusiveBusy, work' = work, before' = before,
         \A r \in Requests : stage'[r] \in Inside <=> stage[r] \in Inside,
         \A r \in Requests : stage'[r] = "claim" => stage[r] = "claim" \/ work[r].exclusive,
         \A r \in Requests : child'[r] = "running" => r \in gaveUp' \/ stage'[r] \in Watching
  PROVE  IInv'
<1>1. \A r \in Requests : Holds(r)' <=> Holds(r)
  BY DEF Holds
<1>2. InHand' = InHand
  BY DEF InHand
<1>3. Types'
  BY DEF IInv, Types
<1>4. ClaimInv' /\ WatchInv'
  BY DEF IInv, ClaimInv, WatchInv
<1>5. FlagInv' /\ AloneInv' /\ BeforeInv'
  BY <1>1, <1>2 DEF IInv, FlagInv, AloneInv, BeforeInv
<1> QED
  BY <1>3, <1>4, <1>5 DEF IInv

\* A step that moves one request without letting it in or out, and touches no
\* command.
LEMMA Moves ==
  ASSUME IInv, NEW r \in Requests, NEW to \in Stages, Move(r, to),
         to \in Inside <=> stage[r] \in Inside,
         to = "claim" => work[r].exclusive,
         child' = child, exclusiveBusy' = exclusiveBusy, work' = work, before' = before,
         gaveUp \subseteq gaveUp',
         child[r] = "running" => r \in gaveUp' \/ to \in Watching
  PROVE  IInv'
<1>1. stage \in [Requests -> Stages] /\ child \in [Requests -> {"none", "running", "ended"}]
  BY DEF IInv, Types
<1>2. stage' \in [Requests -> Stages] /\ stage'[r] = to
      /\ \A q \in Requests : q # r => stage'[q] = stage[q]
  BY <1>1 DEF Move
<1>3. \A q \in Requests : child'[q] = "running" => q \in gaveUp' \/ stage'[q] \in Watching
  BY <1>2 DEF IInv, WatchInv
<1> QED
  BY <1>1, <1>2, <1>3, StaysPut

(***************************************************************************)
(* The flag changes hands in Check, Claim, Release and Crash.              *)
(***************************************************************************)
LEMMA CheckStep == ASSUME IInv, NEW r \in Requests, Check(r) PROVE IInv'
<1> USE DEF Check
<1>1. CASE exclusiveBusy
  <2>1. Move(r, "done") /\ "done" \in Stages
    BY <1>1 DEF Stages
  <2> QED
    BY <2>1, Moves DEF Inside, Timed, historyVars, IInv, WatchInv, Watching
<1>2. CASE ~exclusiveBusy /\ work[r].exclusive
  <2>1. Move(r, "claim") /\ "claim" \in Stages
    BY <1>2 DEF Stages, Loop
  <2> QED
    BY <1>2, <2>1, Moves DEF Inside, Timed, historyVars, IInv, WatchInv, Watching
<1>3. CASE ~exclusiveBusy /\ ~work[r].exclusive
  <2>1. Move(r, "admitted") /\ "admitted" \in Stages
    BY <1>3 DEF Stages, Inside
  <2>2. stage' \in [Requests -> Stages] /\ stage'[r] = "admitted"
        /\ \A q \in Requests : q # r => stage'[q] = stage[q]
    BY <2>1 DEF Move, IInv, Types
  <2>3. \A q \in Requests : ~Holds(q) /\ ~Holds(q)'
    BY <1>3, <2>2 DEF IInv, FlagInv, Holds
  <2>4. Types' /\ ClaimInv' /\ WatchInv'
    BY <2>2 DEF IInv, Types, ClaimInv, WatchInv, Watching, historyVars
  <2> QED
    BY <1>3, <2>3, <2>4 DEF IInv, FlagInv, AloneInv, BeforeInv
<1> QED
  BY <1>1, <1>2, <1>3

LEMMA ClaimStep == ASSUME IInv, NEW r \in Requests, Claim(r) PROVE IInv'
<1> USE DEF Claim
<1>1. CASE ~exclusiveBusy /\ Claims(r)
  <2>1. stage' \in [Requests -> Stages] /\ stage'[r] = "admitted"
        /\ \A q \in Requests : q # r => stage'[q] = stage[q]
    BY <1>1 DEF Claims, Move, IInv, Types, Stages, Inside
  <2>2. before' \in [Requests -> SUBSET Requests] /\ before'[r] = InHand
    BY <1>1 DEF Claims, IInv, Types, InHand
  <2>3. \A q \in Requests : ~Holds(q)
    BY <1>1 DEF IInv, FlagInv
  <2>4. \A q \in Requests : Holds(q)' <=> q = r
    BY <2>1, <2>3 DEF Holds, IInv, ClaimInv, Inside
  <2>5. InHand' = InHand \cup {r}
    BY <2>1 DEF InHand, Inside, Stages
  <2>6. Types' /\ ClaimInv' /\ WatchInv'
    BY <1>1, <2>1, <2>2 DEF Claims, IInv, Types, ClaimInv, WatchInv, Watching
  <2>7. FlagInv' /\ AloneInv' /\ BeforeInv'
    BY <1>1, <2>2, <2>4, <2>5 DEF Claims, FlagInv, AloneInv, BeforeInv
  <2> QED
    BY <2>6, <2>7 DEF IInv
<1>2. CASE exclusiveBusy /\ Move(r, "done") /\ UNCHANGED <<exclusiveBusy, before>>
  <2>1. "done" \in Stages
    BY DEF Stages
  <2> QED
    BY <1>2, <2>1, Moves DEF Inside, Timed, IInv, WatchInv, Watching
<1> QED
  BY <1>1, <1>2

LEMMA ReleaseStep == ASSUME IInv, NEW r \in Requests, Release(r) PROVE IInv'
<1> USE DEF Release
<1>1. stage' \in [Requests -> Stages] /\ stage'[r] = "done"
      /\ \A q \in Requests : q # r => stage'[q] = stage[q]
  BY DEF Move, IInv, Types, Stages
<1>2. \A q \in Requests : Holds(q)' <=> Holds(q) /\ q # r
  BY <1>1 DEF Holds, Inside, Timed
<1>3. Holds(r) <=> work[r].exclusive
  BY DEF Holds, Inside
<1>4. InHand' \subseteq InHand
  BY <1>1 DEF InHand, Inside, Timed
<1>5. Types' /\ ClaimInv' /\ WatchInv'
  BY <1>1 DEF IInv, Types, ClaimInv, WatchInv, Watching, historyVars
<1>6. FlagInv'
  BY <1>2, <1>3 DEF IInv, FlagInv, AloneInv
<1>7. AloneInv' /\ BeforeInv'
  BY <1>2, <1>4 DEF IInv, AloneInv, BeforeInv, historyVars
<1> QED
  BY <1>5, <1>6, <1>7 DEF IInv

LEMMA CrashStep == ASSUME IInv, Crash PROVE IInv'
<1> USE DEF Crash
<1>1. stage' \in [Requests -> Stages] /\ \A q \in Requests : stage'[q] \in {"idle", "done"}
  BY DEF Stages
<1>2. \A q \in Requests : ~Holds(q)'
  BY <1>1 DEF Holds, Inside, Timed
<1>3. Types' /\ ClaimInv' /\ WatchInv'
  BY <1>1 DEF IInv, Types, ClaimInv, WatchInv
<1> QED
  BY <1>2, <1>3 DEF IInv, FlagInv, AloneInv, BeforeInv

(***************************************************************************)
(* The steps of a command, of the accounts and of the surroundings.        *)
(***************************************************************************)
LEMMA SpawnStep == ASSUME IInv, NEW r \in Requests, Spawn(r) PROVE IInv'
<1> USE DEF Spawn, Starts
<1>1. stage \in [Requests -> Stages]
      /\ child \in [Requests -> {"none", "running", "ended"}]
  BY DEF IInv, Types
<1>2. PICK to \in {"waiting", "reading"} : Move(r, to)
  OBVIOUS
<1>3. stage' \in [Requests -> Stages] /\ stage'[r] = to
      /\ \A q \in Requests : q # r => stage'[q] = stage[q]
  BY <1>1, <1>2 DEF Move, Stages, Inside, Timed
<1>4. child' \in [Requests -> {"none", "running", "ended"}]
      /\ \A q \in Requests : q # r => child'[q] = child[q]
  BY <1>1
<1>5. \A q \in Requests : child'[q] = "running" => q \in gaveUp' \/ stage'[q] \in Watching
  BY <1>3, <1>4 DEF IInv, WatchInv, Watching
<1>6. \A q \in Requests : stage'[q] \in Inside <=> stage[q] \in Inside
  BY <1>3 DEF Inside, Timed
<1> QED
  BY <1>3, <1>4, <1>5, <1>6, StaysPut

LEMMA EndsStep == ASSUME IInv, NEW r \in Requests, CommandEnds(r) PROVE IInv'
<1> USE DEF CommandEnds, requestVars, historyVars
<1>1. child' \in [Requests -> {"none", "running", "ended"}]
      /\ \A q \in Requests : child'[q] = "running" => child[q] = "running"
  BY DEF IInv, Types
<1>2. stage' \in [Requests -> Stages]
  BY DEF IInv, Types
<1> QED
  BY <1>1, <1>2, StaysPut DEF IInv, WatchInv

LEMMA KillStep == ASSUME IInv, NEW r \in Requests, KillProcesses(r) PROVE IInv'
<1> USE DEF KillProcesses, AccountStep, historyVars
<1>1. child' \in [Requests -> {"none", "running", "ended"}]
      /\ \A q \in Requests : child'[q] = "running" => child[q] = "running"
  BY DEF IInv, Types
<1>2. stage' \in [Requests -> Stages] /\ stage'[r] = "truncate"
      /\ \A q \in Requests : q # r => stage'[q] = stage[q]
  BY DEF IInv, Types, Move, Stages, Loop, AccountStages
<1>3. \A q \in Requests : child'[q] = "running" => q \in gaveUp' \/ stage'[q] \in Watching
  BY <1>1, <1>2 DEF IInv, WatchInv, Watching
<1>4. \A q \in Requests : stage'[q] \in Inside <=> stage[q] \in Inside
  BY <1>2 DEF Inside, Timed
<1> QED
  BY <1>1, <1>2, <1>3, <1>4, StaysPut

LEMMA HandlerStep == ASSUME IInv, NEW r \in Requests, Handler(r) PROVE IInv'
<1>1. CASE Resolve(r)
  <2>1. \E to \in {"check", "done"} : Move(r, to)
    BY <1>1 DEF Resolve
  <2> QED
    BY <1>1, <2>1, Moves DEF Resolve, Inside, Timed, Stages, Loop, historyVars, IInv, WatchInv, Watching
<1> QED
  BY <1>1, CheckStep, ClaimStep DEF Handler

LEMMA CommandStep == ASSUME IInv, NEW r \in Requests, Command(r) PROVE IInv'
<1> USE Moves DEF Inside, Timed, Stages, historyVars, IInv, WatchInv, Watching
<1>1. CASE SpawnFails(r)
  <2>1. \E to \in {"releasing", "failing"} : Move(r, to)
    BY <1>1 DEF SpawnFails
  <2> QED
    BY <1>1, <2>1 DEF SpawnFails, Starts
<1>2. CASE OutputReturns(r)
  BY <1>2 DEF OutputReturns
<1>3. CASE SendLine(r)
  BY <1>3 DEF SendLine, Sends
<1>4. CASE SendRefused(r)
  BY <1>4 DEF SendRefused, Sends
<1>5. CASE OutputEnds(r)
  BY <1>5 DEF OutputEnds
<1>6. CASE SendFailure(r)
  BY <1>6 DEF SendFailure, Sends
<1>7. CASE SendExit(r)
  BY <1>7 DEF SendExit, Sends
<1>8. CASE SendOverdue(r)
  BY <1>8 DEF SendOverdue, Sends
<1>9. CASE SendLast(r)
  BY <1>9 DEF SendLast, Sends
<1> QED
  BY <1>1, <1>2, <1>3, <1>4, <1>5, <1>6, <1>7, <1>8, <1>9, SpawnStep, ReleaseStep DEF Command

LEMMA TimeoutStep == ASSUME IInv, NEW r \in Requests, Timeout(r) PROVE IInv'
<1>1. Move(r, "overdue") /\ "overdue" \in Stages
  BY DEF Timeout, Stages, Inside
<1>2. gaveUp \subseteq gaveUp' /\ (child[r] = "running" => r \in gaveUp')
  BY DEF Timeout
<1>3. "overdue" \in Inside /\ stage[r] \in Inside
  BY DEF Timeout, Inside
<1> QED
  BY <1>1, <1>2, <1>3, Moves DEF Timeout

LEMMA AccountsStep == ASSUME IInv, NEW r \in Requests, Account(r) PROVE IInv'
<1> USE Moves
    DEF AccountStep, Leaves, AccountStages, Loop, Inside, Timed, Stages, historyVars,
        IInv, WatchInv, Watching
<1>1. CASE AcquireLock(r)
  BY <1>1 DEF AcquireLock
<1>2. CASE CreateLooks(r)
  <2>1. \E to \in {"done", "group"} : Move(r, to)
    BY <1>2 DEF CreateLooks
  <2> QED
    BY <1>2, <2>1 DEF CreateLooks
<1>3. CASE AppendGroup(r)
  BY <1>3 DEF AppendGroup
<1>4. CASE AppendPasswd(r)
  BY <1>4 DEF AppendPasswd
<1>5. CASE AppendFails(r)
  BY <1>5 DEF AppendFails
<1>6. CASE DeleteLooks(r)
  <2>1. \E to \in {"done", "kill"} : Move(r, to)
    BY <1>6 DEF DeleteLooks
  <2> QED
    BY <1>6, <2>1 DEF DeleteLooks
<1>7. CASE Truncate(r)
  BY <1>7 DEF Truncate
<1>8. CASE Rewrite(r)
  BY <1>8 DEF Rewrite
<1>9. CASE RewriteFails(r)
  BY <1>9 DEF RewriteFails
<1>10. CASE StripGroup(r)
  BY <1>10 DEF StripGroup
<1>11. CASE StripFails(r)
  BY <1>11 DEF StripFails
<1> QED
  BY <1>1, <1>2, <1>3, <1>4, <1>5, <1>6, <1>7, <1>8, <1>9, <1>10, <1>11, KillStep DEF Account

LEMMA HostStep == ASSUME IInv, NEW r \in Requests, Host(r) \/ Guest(r) PROVE IInv'
<1>1. CASE Receive(r)
  <2>1. \E to \in {"resolve", "lock"} : Move(r, to)
    BY <1>1 DEF Receive
  <2> QED
    BY <1>1, <2>1, Moves
    DEF Receive, Inside, Timed, Stages, Loop, AccountStages, historyVars, IInv, WatchInv, Watching
<1>2. CASE ConsumerTakes(r) \/ ConsumerLeaves(r)
  <2>1. UNCHANGED <<exclusiveBusy, requestVars, child, historyVars>>
    BY <1>2 DEF ConsumerTakes, ConsumerLeaves
  <2> QED
    BY <2>1, StaysPut DEF requestVars, historyVars, IInv, Types, WatchInv
<1>3. CASE CommandPrints(r)
  BY <1>3, Moves
  DEF CommandPrints, Inside, Timed, Stages, historyVars, IInv, WatchInv, Watching
<1> QED
  BY <1>1, <1>2, <1>3, EndsStep DEF Host, Guest

-----------------------------------------------------------------------------
\* The flag, the requests in hand and the commands they watch agree in every
\* reachable state (exclusive_busy in main.rs).
THEOREM Invariance == Spec => []IInv
<1>1. Init => IInv
  <2> SUFFICES ASSUME Init PROVE IInv
    OBVIOUS
  <2>1. Types
    BY AgentAssumption DEF Init, Types, Stages
  <2>2. \A r \in Requests : ~Holds(r)
    BY DEF Init, Holds, Inside, Timed
  <2>3. ClaimInv /\ WatchInv
    BY DEF Init, ClaimInv, WatchInv
  <2> QED
    BY <2>1, <2>2, <2>3 DEF Init, IInv, FlagInv, AloneInv, BeforeInv
<1>2. IInv /\ [Next]_vars => IInv'
  <2> SUFFICES ASSUME IInv, [Next]_vars PROVE IInv'
    OBVIOUS
  <2>1. CASE Next
    BY <2>1, HandlerStep, CommandStep, TimeoutStep, AccountsStep, HostStep, CrashStep DEF Next
  <2>2. CASE UNCHANGED vars
    BY <2>2, StaysPut DEF vars, requestVars, historyVars, IInv, Types, WatchInv
  <2> QED
    BY <2>1, <2>2
<1> QED
  BY <1>1, <1>2, PTL DEF Spec

\* While an exclusive request is in hand it alone has the flag and nobody is let
\* in beside it; its command runs without the flag only when it was given up.
THEOREM AloneTheorem == Spec => []ExclusiveIsAlone
<1> QED
  BY Invariance, Enough, PTL

-----------------------------------------------------------------------------
(***************************************************************************)
(* Uids.  A request that edits the account files holds the lock, so one    *)
(* edits at a time, and the argument follows its line: while it creates,   *)
(* its line clashes with no account and no group of another name; while it *)
(* deletes, its line is the account's own, and once the processes are      *)
(* killed nobody runs under that uid who is not late.  A command that runs *)
(* has the name its line has, and the line is still an account's, unless   *)
(* the command is late or passwd has lost lines.                           *)
(***************************************************************************)
Editing == {"look", "kill", "truncate", "rewrite", "group", "passwd"}
Started == {"done", "waiting", "releasing", "overdue", "reporting"} \cup Timed

FileTypes ==
    /\ line \in [Requests -> Lines \cup {NoLine}]
    /\ passwd \subseteq Lines /\ group \subseteq Lines /\ held \subseteq Lines
    /\ \A r \in Requests : stage[r] \in Editing => lock = r

HeldInv ==
    /\ held # {} => \E r \in Requests : stage[r] = "rewrite"
    /\ \A r \in Requests : stage[r] = "rewrite" => passwd = {}

OwnInv ==
    /\ \A k, l \in Accounts : k.id = l.id \/ k.name = l.name => k = l
    /\ \A k \in Accounts, g \in group : k.id = g.id => k.name = g.name

NewInv(r) ==
    Kind(r) = "create" /\ stage[r] \in {"group", "passwd"} =>
        /\ line[r] \in Lines
        /\ \A k \in Accounts : k.id # line[r].id /\ k.name # line[r].name
        /\ \A g \in group : g.id = line[r].id => g.name = line[r].name

GoneInv(r) ==
    /\ stage[r] \in {"kill", "truncate", "rewrite"} => Kind(r) = "delete"
    /\ stage[r] = "passwd" => Kind(r) = "create"
    /\ stage[r] \in {"kill", "truncate"} =>
         line[r] \in passwd /\ line[r].name = work[r].name
    /\ stage[r] = "truncate" =>
         \A c \in Requests :
            child[c] = "running" /\ work[c].name # Root /\ line[c].id = line[r].id => c \in late

RunsInv(r) ==
    /\ child[r] # "none" => stage[r] \in Started
    /\ stage[r] \in {"check", "claim", "admitted"} /\ work[r].name # Root =>
         line[r].name = work[r].name
    /\ child[r] = "running" /\ work[r].name # Root =>
         /\ line[r].name = work[r].name
         /\ line[r] \in Accounts \/ r \in late \/ "passwd" \in lost

UidInv ==
    /\ FileTypes /\ HeldInv /\ OwnInv
    /\ \A r \in Requests : NewInv(r) /\ GoneInv(r) /\ RunsInv(r)

\* NextFreeId, when it is below UidMax, is the id of no line of the two files
\* (the search of create_user in main.rs).
LEMMA FreshId ==
  ASSUME passwd \subseteq Lines, group \subseteq Lines
  PROVE  /\ NextFreeId \in Nat
         /\ NextFreeId < UidMax => \A l \in passwd \cup group : l.id # NextFreeId
<1> DEFINE ids == {l.id : l \in passwd \cup group}
           Above(i) == \A n \in ids : n < UidMax => n <= i
           T == {i \in 0..(UidMax - 1) : Above(i)}
<1>1. UidMax \in Nat \ {0} /\ ids \subseteq Nat
  BY AgentAssumption DEF Lines
<1>2. \E i \in 0..(UidMax - 1) : (i = 0 \/ i \in ids) /\ Above(i)
  <2>1. UidMax - 1 \in T /\ T \subseteq Nat
    BY <1>1
  <2>2. PICK i \in T : \A j \in T : ~(<<j, i>> \in OpToRel(<, Nat))
    BY <2>1, NatLessThanWellFounded, WFMin
  <2>3. i \in 0..(UidMax - 1) /\ Above(i) /\ \A j \in T : ~(j < i)
    <3>1. \A j \in T : j < i => <<j, i>> \in OpToRel(<, Nat)
      BY <2>1 DEF OpToRel
    <3> QED
      BY <2>2, <3>1
  <2>4. ASSUME i # 0, i \notin ids PROVE FALSE
    <3>1. i - 1 \in 0..(UidMax - 1) /\ i - 1 < i
      BY <1>1, <2>3, <2>4
    <3>2. Above(i - 1)
      <4> SUFFICES ASSUME NEW n \in ids, n < UidMax PROVE n <= i - 1
        OBVIOUS
      <4>1. n <= i /\ n # i /\ n \in Nat /\ i \in Nat
        BY <1>1, <2>3, <2>4
      <4> QED
        BY <4>1
    <3> QED
      BY <2>3, <3>1, <3>2
  <2> QED
    BY <2>3, <2>4
<1> DEFINE Fits(i) == /\ i = 0 \/ \E l \in passwd \cup group : l.id = i
                      /\ \A l \in passwd \cup group : l.id < UidMax => l.id <= i
<1>3. \E i \in 0..(UidMax - 1) : Fits(i)
  BY <1>2
<1> DEFINE top == CHOOSE i \in 0..(UidMax - 1) : Fits(i)
<1>4. top \in 0..(UidMax - 1) /\ Fits(top)
  BY <1>3
<1>5. NextFreeId = 1 + top
  BY DEF NextFreeId
<1> HIDE DEF top
<1>6. \A l \in passwd \cup group : l.id \in Nat
  BY DEF Lines
<1> QED
  BY <1>1, <1>4, <1>5, <1>6

\* At most one request edits the account files: it holds the lock.
LEMMA OneEditor ==
  ASSUME FileTypes, NEW r \in Requests, NEW q \in Requests,
         stage[r] \in Editing, stage[q] \in Editing
  PROVE  q = r
BY DEF FileTypes

\* A step that leaves the files, the lock and every request that edits alone, and
\* starts no command, keeps the invariant.
LEMMA NoEdit ==
  ASSUME UidInv, UNCHANGED <<work, line, lock, passwd, group, held, lost, late>>,
         \A q \in Requests :
            /\ stage[q] \in Editing \/ stage'[q] \in Editing => stage'[q] = stage[q]
            /\ stage'[q] \in {"check", "claim", "admitted"} =>
                 stage[q] \in {"check", "claim", "admitted"}
            /\ stage[q] \in Started => stage'[q] \in Started
            /\ child'[q] # "none" => child[q] # "none"
            /\ child'[q] = "running" => child[q] = "running"
  PROVE  UidInv'
<1>1. FileTypes'
  BY DEF UidInv, FileTypes
<1>2. HeldInv'
  BY DEF UidInv, HeldInv, Editing
<1>3. OwnInv'
  BY DEF UidInv, OwnInv, Accounts
<1>4. ASSUME NEW q \in Requests PROVE NewInv(q)' /\ GoneInv(q)' /\ RunsInv(q)'
  <2>1. NewInv(q) /\ GoneInv(q) /\ RunsInv(q)
    BY DEF UidInv
  <2>2. NewInv(q)'
    BY <2>1 DEF NewInv, Accounts, Kind, Editing
  <2>3. GoneInv(q)'
    BY <2>1 DEF GoneInv, Kind, Editing
  <2>4. RunsInv(q)'
    BY <2>1 DEF RunsInv, Accounts
  <2> QED
    BY <2>2, <2>3, <2>4
<1> QED
  BY <1>1, <1>2, <1>3, <1>4 DEF UidInv

\* The same for a step that moves one request.
LEMMA NoEditMove ==
  ASSUME Types, UidInv, NEW r \in Requests, NEW to \in Stages, Move(r, to),
         UNCHANGED <<work, line, child, lock, passwd, group, held, lost, late>>,
         stage[r] \notin Editing, to \notin Editing,
         to \in {"check", "claim", "admitted"} => stage[r] \in {"check", "claim", "admitted"},
         stage[r] \in Started => to \in Started
  PROVE  UidInv'
<1>1. stage'[r] = to /\ \A q \in Requests : q # r => stage'[q] = stage[q]
  BY DEF Move, Types
<1> QED
  BY <1>1, NoEdit

\* A step of a request that edits: it goes on editing or is done, and what the
\* files hold after it suits the others.
LEMMA EditStep ==
  ASSUME Types, UidInv, NEW r \in Requests, stage[r] \in Editing,
         NEW to \in Editing \cup {"done"}, Move(r, to), to \in Editing => lock' = lock,
         UNCHANGED <<work, late>>, line' \in [Requests -> Lines \cup {NoLine}],
         \A q \in Requests : q # r => line'[q] = line[q],
         passwd' \subseteq Lines, group' \subseteq Lines, held' \subseteq Lines,
         \A q \in Requests : child'[q] # "none" => child[q] # "none",
         \A q \in Requests : child'[q] = "running" => child[q] = "running",
         to # "rewrite" => held' = {}, to = "rewrite" => passwd' = {},
         lost \subseteq lost', OwnInv', NewInv(r)', GoneInv(r)',
         "passwd" \in lost' \/
           \A q \in Requests : line[q] \in Accounts /\ child'[q] = "running"
                               /\ work[q].name # Root /\ q # r =>
              line[q] \in Accounts' \/ q \in late
  PROVE  UidInv'
<1>1. stage'[r] = to /\ \A q \in Requests : q # r => stage'[q] = stage[q]
  BY DEF Move, Types
<1>2. \A q \in Requests : q # r => stage[q] \notin Editing
  BY OneEditor DEF UidInv
<1>3. child[r] = "none"
  BY DEF UidInv, RunsInv, Editing, Started, Timed
<1>4. FileTypes'
  <2>1. \A q \in Requests : stage'[q] \in Editing => lock' = q
    BY <1>1, <1>2 DEF UidInv, FileTypes, Editing
  <2> QED
    BY <2>1 DEF FileTypes
<1>5. HeldInv'
  <2>1. \A q \in Requests : stage'[q] = "rewrite" => q = r
    BY <1>1, <1>2 DEF Editing
  <2> QED
    BY <1>1, <2>1 DEF HeldInv
<1>6. ASSUME NEW q \in Requests, q # r PROVE NewInv(q)' /\ GoneInv(q)'
  <2>1. stage'[q] \notin {"group", "passwd", "kill", "truncate", "rewrite"}
    BY <1>1, <1>2, <1>6 DEF Editing
  <2> QED
    BY <2>1 DEF NewInv, GoneInv
<1>7. ASSUME NEW q \in Requests, q # r PROVE RunsInv(q)'
  <2>1. RunsInv(q) /\ stage'[q] = stage[q] /\ line'[q] = line[q] /\ work'[q] = work[q]
    BY <1>1, <1>7 DEF UidInv
  <2>2. (child'[q] # "none" => child[q] # "none") /\ (child'[q] = "running" => child[q] = "running")
    OBVIOUS
  <2>3. child'[q] = "running" /\ work'[q].name # Root =>
          line'[q] \in Accounts' \/ q \in late' \/ "passwd" \in lost'
    BY <1>7, <2>1, <2>2 DEF RunsInv
  <2> QED
    BY <2>1, <2>2, <2>3 DEF RunsInv
<1>8. RunsInv(r)'
  BY <1>1, <1>3 DEF RunsInv, Editing
<1> QED
  BY <1>4, <1>5, <1>6, <1>7, <1>8 DEF UidInv

\* The steps that edit nothing.
LEMMA UidResolve == ASSUME Types, UidInv, NEW r \in Requests, Resolve(r) PROVE UidInv'
<1>1. UNCHANGED <<work, child, lock, passwd, group, held, lost, late>> /\ stage[r] = "resolve"
  BY DEF Resolve, accountVars, historyVars
<1>2. PICK to \in {"check", "done"} : Move(r, to)
  BY DEF Resolve
<1>3. stage'[r] = to /\ \A q \in Requests : q # r => stage'[q] = stage[q]
  BY <1>2 DEF Types, Move
<1>4. /\ line' \in [Requests -> Lines \cup {NoLine}]
      /\ \A q \in Requests : q # r => line'[q] = line[q]
      /\ to = "check" /\ work[r].name # Root => line'[r].name = work[r].name
  BY <1>1, <1>2, <1>3 DEF Resolve, UidInv, FileTypes, Move
<1>5. child[r] = "none"
  BY <1>1 DEF UidInv, RunsInv, Started, Timed
<1>6. FileTypes' /\ HeldInv' /\ OwnInv'
  <2>1. FileTypes'
    BY <1>1, <1>3, <1>4 DEF UidInv, FileTypes, Editing
  <2>2. HeldInv'
    BY <1>1, <1>3 DEF UidInv, HeldInv
  <2>3. OwnInv'
    BY <1>1 DEF UidInv, OwnInv, Accounts
  <2> QED
    BY <2>1, <2>2, <2>3
<1>7. ASSUME NEW q \in Requests, q # r PROVE NewInv(q)' /\ GoneInv(q)' /\ RunsInv(q)'
  <2>1. NewInv(q) /\ GoneInv(q) /\ RunsInv(q) /\ stage'[q] = stage[q] /\ line'[q] = line[q]
    BY <1>3, <1>4, <1>7 DEF UidInv
  <2>2. NewInv(q)' /\ RunsInv(q)'
    BY <1>1, <2>1 DEF NewInv, RunsInv, Accounts, Kind
  <2>3. \A c \in Requests : child[c] = "running" => line'[c] = line[c]
    BY <1>4, <1>5
  <2>4. GoneInv(q)'
    BY <1>1, <2>1, <2>3 DEF GoneInv, Kind
  <2> QED
    BY <2>2, <2>4
<1>8. NewInv(r)' /\ GoneInv(r)' /\ RunsInv(r)'
  BY <1>1, <1>3, <1>4, <1>5 DEF NewInv, GoneInv, RunsInv
<1> QED
  BY <1>6, <1>7, <1>8 DEF UidInv

LEMMA UidHandler == ASSUME Types, UidInv, NEW r \in Requests, Handler(r) PROVE UidInv'
<1>1. CASE Check(r)
  <2>1. \E to \in {"done", "claim", "admitted"} : Move(r, to)
    BY <1>1 DEF Check
  <2> QED
    BY <1>1, <2>1, NoEditMove
    DEF Check, Editing, Started, Timed, Stages, Loop, Inside, accountVars, historyVars
<1>2. CASE Claim(r)
  <2>1. \E to \in {"done", "admitted"} : Move(r, to)
    BY <1>2 DEF Claim, Claims
  <2>2. UNCHANGED <<work, line, child, lock, passwd, group, held, lost, late>> /\ stage[r] = "claim"
    BY <1>2 DEF Claim, accountVars
  <2> QED
    BY <2>1, <2>2, NoEditMove DEF Editing, Started, Timed, Stages, Loop, Inside
<1> QED
  BY <1>1, <1>2, UidResolve DEF Handler

LEMMA UidSpawn == ASSUME Types, UidInv, NEW r \in Requests, Spawn(r) PROVE UidInv'
<1>1. UNCHANGED <<work, line, lock, passwd, group, held, lost>> /\ stage[r] = "admitted"
  BY DEF Spawn, Starts, accountVars
<1>2. PICK to \in {"waiting", "reading"} : Move(r, to)
  BY DEF Spawn
<1>3. stage'[r] = to /\ \A q \in Requests : q # r => stage'[q] = stage[q]
  BY <1>2 DEF Types, Move
<1>4. child'[r] = "running" /\ \A q \in Requests : q # r => child'[q] = child[q]
  BY DEF Types, Spawn
<1>5. late \subseteq late' /\ (work[r].name # Root /\ Going(line[r]) => r \in late')
  BY DEF Spawn
<1>6. FileTypes' /\ HeldInv' /\ OwnInv'
  <2>1. FileTypes'
    BY <1>1, <1>3 DEF UidInv, FileTypes, Editing
  <2>2. HeldInv'
    BY <1>1, <1>3 DEF UidInv, HeldInv
  <2>3. OwnInv'
    BY <1>1 DEF UidInv, OwnInv, Accounts
  <2> QED
    BY <2>1, <2>2, <2>3
<1>7. ASSUME NEW q \in Requests, q # r PROVE NewInv(q)' /\ GoneInv(q)' /\ RunsInv(q)'
  <2>1. NewInv(q) /\ GoneInv(q) /\ RunsInv(q) /\ stage'[q] = stage[q] /\ child'[q] = child[q]
    BY <1>3, <1>4, <1>7 DEF UidInv
  <2>2. NewInv(q)' /\ RunsInv(q)'
    BY <1>1, <1>5, <2>1 DEF NewInv, RunsInv, Accounts, Kind
  <2>3. ASSUME stage[q] = "truncate", work[r].name # Root, line[r].id = line[q].id
        PROVE  r \in late'
    <3>1. Kind(q) = "delete" /\ line[q] \in Accounts
      BY <2>1, <2>3 DEF GoneInv, Accounts
    <3>2. line[r] \in Accounts => line[r] = line[q]
      BY <2>3, <3>1 DEF UidInv, OwnInv
    <3>3. Going(line[r])
      BY <2>3, <3>1, <3>2 DEF Going
    <3> QED
      BY <1>5, <2>3, <3>3
  <2>4. GoneInv(q)'
    BY <1>1, <1>4, <1>5, <2>1, <2>3 DEF GoneInv, Kind
  <2> QED
    BY <2>2, <2>4
<1>8. NewInv(r)' /\ GoneInv(r)'
  BY <1>1, <1>3 DEF NewInv, GoneInv
<1>9. RunsInv(r)'
  <2>1. work[r].name # Root => line[r].name = work[r].name
    BY <1>1 DEF UidInv, RunsInv
  <2>2. line[r] \notin Accounts /\ work[r].name # Root => r \in late'
    BY <1>5 DEF Going
  <2> QED
    BY <1>1, <1>3, <2>1, <2>2 DEF RunsInv, Accounts, Started, Timed
<1> QED
  BY <1>6, <1>7, <1>8, <1>9 DEF UidInv

\* What a move of a command leaves alone.
LEMMA UidMove ==
  ASSUME Types, UidInv, NEW r \in Requests,
         NEW to \in {"done", "waiting", "releasing", "overdue", "reporting"} \cup Timed, Move(r, to),
         stage[r] = "admitted" \/ stage[r] \in Started,
         UNCHANGED <<work, line, child, lock, passwd, group, held, lost, late>>
  PROVE  UidInv'
BY NoEditMove DEF Editing, Started, Timed, Stages, Inside

LEMMA UidCommand ==
  ASSUME Types, UidInv, NEW r \in Requests, Command(r) \/ Timeout(r) PROVE UidInv'
<1> USE DEF accountVars, historyVars, Started, Timed
<1>1. CASE SpawnFails(r)
  <2>1. \E to \in {"releasing", "failing"} : Move(r, to)
    BY <1>1 DEF SpawnFails
  <2> QED
    BY <1>1, <2>1, UidMove DEF SpawnFails, Starts
<1>2. CASE OutputReturns(r)
  BY <1>2, UidMove DEF OutputReturns
<1>3. CASE SendLine(r)
  BY <1>3, UidMove DEF SendLine, Sends
<1>4. CASE SendRefused(r)
  BY <1>4, UidMove DEF SendRefused, Sends
<1>5. CASE OutputEnds(r)
  BY <1>5, UidMove DEF OutputEnds
<1>6. CASE SendFailure(r)
  BY <1>6, UidMove DEF SendFailure, Sends
<1>7. CASE SendExit(r)
  BY <1>7, UidMove DEF SendExit, Sends
<1>8. CASE SendOverdue(r)
  BY <1>8, UidMove DEF SendOverdue, Sends
<1>9. CASE SendLast(r)
  BY <1>9, UidMove DEF SendLast, Sends
<1>10. CASE Release(r)
  BY <1>10, UidMove DEF Release
<1>11. CASE Timeout(r)
  BY <1>11, UidMove DEF Timeout
<1> QED
  BY <1>1, <1>2, <1>3, <1>4, <1>5, <1>6, <1>7, <1>8, <1>9, <1>10, <1>11, UidSpawn DEF Command

LEMMA UidHost ==
  ASSUME Types, UidInv, NEW r \in Requests, Host(r) \/ Guest(r) PROVE UidInv'
<1> USE DEF accountVars, historyVars, requestVars
<1>1. CASE Receive(r)
  <2>1. \E to \in {"resolve", "lock"} : Move(r, to)
    BY <1>1 DEF Receive
  <2> QED
    BY <1>1, <2>1, NoEditMove
    DEF Receive, Editing, Started, Timed, Stages, Loop, AccountStages
<1>2. CASE ConsumerTakes(r) \/ ConsumerLeaves(r)
  <2>1. UNCHANGED <<stage, work, line, child, lock, passwd, group, held, lost, late>>
    BY <1>2 DEF ConsumerTakes, ConsumerLeaves
  <2> QED
    BY <2>1, NoEdit
<1>3. CASE CommandPrints(r)
  BY <1>3, UidMove DEF CommandPrints, Started, Timed
<1>4. CASE CommandEnds(r)
  <2>1. UNCHANGED <<stage, work, line, lock, passwd, group, held, lost, late>>
    BY <1>4 DEF CommandEnds
  <2>2. \A q \in Requests : (child'[q] # "none" => child[q] # "none")
                            /\ (child'[q] = "running" => child[q] = "running")
    BY <1>4 DEF CommandEnds, Types
  <2> QED
    BY <2>1, <2>2, NoEdit
<1> QED
  BY <1>1, <1>2, <1>3, <1>4 DEF Host, Guest

(***************************************************************************)
(* The steps of the handlers that edit the account files.                  *)
(***************************************************************************)
LEMMA UidAcquires == ASSUME Types, UidInv, NEW r \in Requests, AcquireLock(r) PROVE UidInv'
<1>1. /\ stage[r] = "lock" /\ lock = NoRequest /\ lock' = r /\ Move(r, "look")
      /\ UNCHANGED <<work, line, child, passwd, group, held, lost, late>>
  BY DEF AcquireLock, historyVars
<1>2. stage'[r] = "look" /\ \A q \in Requests : q # r => stage'[q] = stage[q]
  BY <1>1 DEF Types, Move
<1>3. \A q \in Requests : stage[q] \notin Editing
  BY <1>1, AgentAssumption DEF UidInv, FileTypes
<1>4. FileTypes' /\ HeldInv' /\ OwnInv'
  <2>1. FileTypes'
    BY <1>1, <1>2, <1>3 DEF UidInv, FileTypes
  <2>2. HeldInv'
    BY <1>1, <1>2, <1>3 DEF UidInv, HeldInv, Editing
  <2>3. OwnInv'
    BY <1>1 DEF UidInv, OwnInv, Accounts
  <2> QED
    BY <2>1, <2>2, <2>3
<1>5. ASSUME NEW q \in Requests PROVE NewInv(q)' /\ GoneInv(q)' /\ RunsInv(q)'
  <2>1. stage'[q] \notin {"group", "passwd", "kill", "truncate", "rewrite"}
    BY <1>2, <1>3 DEF Editing
  <2>2. RunsInv(q)'
    BY <1>1, <1>2 DEF UidInv, RunsInv, Accounts, Started, Timed
  <2> QED
    BY <2>1, <2>2 DEF NewInv, GoneInv
<1> QED
  BY <1>4, <1>5 DEF UidInv

\* No lines are held back except while the file is truncated.
LEMMA NoneHeld ==
  ASSUME UidInv, NEW r \in Requests, stage[r] \in Editing, stage[r] # "rewrite"
  PROVE  held = {}
BY OneEditor DEF UidInv, HeldInv, Editing

LEMMA UidCreates == ASSUME Types, UidInv, NEW r \in Requests, CreateLooks(r) PROVE UidInv'
<1>1. /\ stage[r] = "look" /\ Kind(r) = "create"
      /\ UNCHANGED <<work, child, passwd, group, held, lost, late>>
  BY DEF CreateLooks, AccountStep, historyVars
<1>2. stage[r] \in Editing /\ held = {}
  BY <1>1, NoneHeld DEF Editing
<1>3. OwnInv'
  BY <1>1 DEF UidInv, OwnInv, Accounts
<1>4. /\ passwd' \subseteq Lines /\ group' \subseteq Lines /\ held' \subseteq Lines
      /\ Accounts' = Accounts
  BY <1>1 DEF UidInv, FileTypes, Accounts
<1>5. CASE Named(passwd, work[r].name) # {} \/ NextFreeId >= UidMax
  <2>1. Leaves(r) /\ UNCHANGED line
    BY <1>5 DEF CreateLooks
  <2>2. stage'[r] = "done" /\ line' \in [Requests -> Lines \cup {NoLine}]
    BY <2>1 DEF Leaves, Move, Types, UidInv, FileTypes
  <2>3. NewInv(r)' /\ GoneInv(r)'
    BY <2>2 DEF NewInv, GoneInv
  <2> QED
    BY <1>1, <1>2, <1>3, <1>4, <2>1, <2>2, <2>3, EditStep DEF Leaves, Editing
<1>6. CASE Named(passwd, work[r].name) = {} /\ ~(NextFreeId >= UidMax)
  <2> DEFINE new == [name |-> work[r].name, id |-> NextFreeId]
  <2>1. line' = [line EXCEPT ![r] = new] /\ Move(r, "group") /\ UNCHANGED lock
    BY <1>6 DEF CreateLooks
  <2>2. NextFreeId \in Nat /\ \A l \in passwd \cup group : l.id # NextFreeId
    <3>1. UidMax \in Nat
      BY AgentAssumption
    <3>2. /\ NextFreeId \in Nat
          /\ NextFreeId < UidMax => \A l \in passwd \cup group : l.id # NextFreeId
      BY FreshId DEF UidInv, FileTypes
    <3> QED
      BY <1>6, <3>1, <3>2
  <2>3. new \in Lines
    <3>1. work[r] \in Works /\ work[r].kind = "create"
      BY <1>1 DEF Types, Kind
    <3> QED
      BY <2>2, <3>1 DEF Works, Lines
  <2>4. line' \in [Requests -> Lines \cup {NoLine}] /\ line'[r] = new
        /\ \A q \in Requests : q # r => line'[q] = line[q]
    BY <2>1, <2>3 DEF UidInv, FileTypes
  <2>5. stage'[r] = "group"
    BY <2>1 DEF Types, Move
  <2>6. NewInv(r)'
    <3>1. \A k \in Accounts : k.id # NextFreeId /\ k.name # work[r].name
      BY <1>2, <1>6, <2>2 DEF Accounts, Named
    <3>2. \A g \in group : g.id # NextFreeId
      BY <2>2
    <3> QED
      BY <1>1, <1>4, <2>3, <2>4, <3>1, <3>2 DEF NewInv
  <2>7. GoneInv(r)'
    BY <2>5 DEF GoneInv
  <2> QED
    BY <1>1, <1>2, <1>3, <1>4, <2>1, <2>4, <2>5, <2>6, <2>7, EditStep DEF Editing
<1> QED
  BY <1>5, <1>6

\* A request that edits and leaves its line alone.
LEMMA EditKeepsLine ==
  ASSUME Types, UidInv, NEW r \in Requests, stage[r] \in Editing,
         NEW to \in Editing \cup {"done"}, Move(r, to), to \in Editing => lock' = lock,
         UNCHANGED <<work, line, late>>,
         passwd' \subseteq Lines, group' \subseteq Lines, held' \subseteq Lines,
         \A q \in Requests : child'[q] # "none" => child[q] # "none",
         \A q \in Requests : child'[q] = "running" => child[q] = "running",
         to # "rewrite" => held' = {}, to = "rewrite" => passwd' = {},
         lost \subseteq lost', OwnInv', to # "done" => NewInv(r)' /\ GoneInv(r)',
         "passwd" \in lost' \/
           \A q \in Requests : line[q] \in Accounts /\ child'[q] = "running"
                               /\ work[q].name # Root /\ q # r =>
              line[q] \in Accounts' \/ q \in late
  PROVE  UidInv'
<1>1. stage'[r] = to
  BY DEF Types, Move
<1>2. line' \in [Requests -> Lines \cup {NoLine}] /\ \A q \in Requests : line'[q] = line[q]
  BY DEF UidInv, FileTypes
<1>3. NewInv(r)' /\ GoneInv(r)'
  <2>1. CASE to = "done"
    BY <1>1, <2>1 DEF NewInv, GoneInv
  <2> QED
    BY <2>1
<1> QED
  BY <1>1, <1>2, <1>3, EditStep

LEMMA UidAppends ==
  ASSUME Types, UidInv, NEW r \in Requests, AppendGroup(r) \/ AppendPasswd(r) \/ AppendFails(r)
  PROVE  UidInv'
<1> USE DEF AccountStep, historyVars, Leaves
<1>1. Kind(r) = "create" /\ stage[r] \in {"group", "passwd"}
  BY DEF AppendGroup, AppendPasswd, AppendFails, UidInv, GoneInv
<1>2. /\ line[r] \in Lines
      /\ \A k \in Accounts : k.id # line[r].id /\ k.name # line[r].name
      /\ \A g \in group : g.id = line[r].id => g.name = line[r].name
  BY <1>1 DEF UidInv, NewInv
<1>3. stage[r] \in Editing /\ held = {}
  BY <1>1, NoneHeld DEF Editing
<1>4. passwd \subseteq Lines /\ group \subseteq Lines
  BY DEF UidInv, FileTypes
<1>5. CASE AppendGroup(r)
  <2>1. /\ group' = group \cup {line[r]} /\ Move(r, "passwd")
        /\ UNCHANGED <<work, line, child, lock, passwd, held, lost, late>>
    BY <1>5 DEF AppendGroup
  <2>2. OwnInv'
    BY <1>2, <2>1 DEF UidInv, OwnInv, Accounts
  <2>3. NewInv(r)'
    BY <1>2, <2>1 DEF NewInv, Accounts
  <2>4. GoneInv(r)'
    <3>1. stage'[r] = "passwd"
      BY <2>1 DEF Types, Move
    <3> QED
      BY <1>1, <2>1, <3>1 DEF GoneInv, Kind
  <2>5. Accounts' = Accounts
    BY <2>1 DEF Accounts
  <2> QED
    BY <1>2, <1>3, <1>4, <2>1, <2>2, <2>3, <2>4, <2>5, EditKeepsLine DEF Editing
<1>6. CASE AppendPasswd(r)
  <2>1. /\ passwd' = passwd \cup {line[r]} /\ Move(r, "done")
        /\ UNCHANGED <<work, line, child, group, held, lost, late>>
    BY <1>6 DEF AppendPasswd
  <2>2. Accounts' = Accounts \cup {line[r]}
    BY <2>1 DEF Accounts
  <2>3. OwnInv'
    BY <1>2, <2>1, <2>2 DEF UidInv, OwnInv
  <2> QED
    BY <1>2, <1>3, <1>4, <2>1, <2>2, <2>3, EditKeepsLine DEF Editing
<1>7. CASE AppendFails(r)
  <2>1. Move(r, "done") /\ UNCHANGED <<work, line, child, passwd, group, held, lost, late>>
    BY <1>7 DEF AppendFails
  <2>2. Accounts' = Accounts /\ OwnInv'
    BY <2>1 DEF UidInv, OwnInv, Accounts
  <2> QED
    BY <1>3, <1>4, <2>1, <2>2, EditKeepsLine DEF Editing
<1> QED
  BY <1>5, <1>6, <1>7

LEMMA UidDeletes == ASSUME Types, UidInv, NEW r \in Requests, DeleteLooks(r) PROVE UidInv'
<1>1. /\ stage[r] = "look" /\ Kind(r) = "delete"
      /\ UNCHANGED <<work, child, passwd, group, held, lost, late>>
  BY DEF DeleteLooks, AccountStep, historyVars
<1>2. stage[r] \in Editing /\ held = {}
  BY <1>1, NoneHeld DEF Editing
<1>3. /\ passwd' \subseteq Lines /\ group' \subseteq Lines /\ held' \subseteq Lines
      /\ Accounts' = Accounts /\ OwnInv'
  BY <1>1 DEF UidInv, FileTypes, OwnInv, Accounts
<1>4. CASE Leaves(r) /\ UNCHANGED line
  BY <1>1, <1>2, <1>3, <1>4, EditKeepsLine DEF Leaves, Editing
<1>5. ASSUME NEW l \in Named(passwd, work[r].name),
             line' = [line EXCEPT ![r] = l] /\ Move(r, "kill") /\ UNCHANGED lock
      PROVE  UidInv'
  <2>1. l \in passwd /\ l \in Lines /\ l.name = work[r].name
    BY DEF Named, UidInv, FileTypes
  <2>2. line' \in [Requests -> Lines \cup {NoLine}] /\ line'[r] = l
        /\ \A q \in Requests : q # r => line'[q] = line[q]
    BY <1>5, <2>1 DEF UidInv, FileTypes
  <2>3. stage'[r] = "kill"
    BY <1>5 DEF Types, Move
  <2>4. NewInv(r)' /\ GoneInv(r)'
    BY <1>1, <2>1, <2>2, <2>3 DEF NewInv, GoneInv, Kind
  <2> QED
    BY <1>1, <1>2, <1>3, <1>5, <2>2, <2>3, <2>4, EditStep DEF Editing
<1> QED
  BY <1>4, <1>5 DEF DeleteLooks

LEMMA UidKills == ASSUME Types, UidInv, NEW r \in Requests, KillProcesses(r) PROVE UidInv'
<1>1. /\ stage[r] = "kill" /\ Move(r, "truncate")
      /\ UNCHANGED <<work, line, lock, passwd, group, held, lost, late>>
      /\ child' = [q \in Requests |->
            IF child[q] = "running" /\ line[q].id = line[r].id THEN "ended" ELSE child[q]]
  BY DEF KillProcesses, AccountStep, historyVars
<1>2. stage[r] \in Editing /\ held = {}
  BY <1>1, NoneHeld DEF Editing
<1>3. /\ \A q \in Requests : child'[q] # "none" => child[q] # "none"
      /\ \A q \in Requests : child'[q] = "running" => child[q] = "running"
      /\ \A q \in Requests : child'[q] = "running" => line[q].id # line[r].id
  BY <1>1
<1>4. /\ passwd' \subseteq Lines /\ group' \subseteq Lines /\ held' \subseteq Lines
      /\ Accounts' = Accounts /\ OwnInv'
  BY <1>1 DEF UidInv, FileTypes, OwnInv, Accounts
<1>5. stage'[r] = "truncate"
  BY <1>1 DEF Types, Move
<1>6. NewInv(r)' /\ GoneInv(r)'
  BY <1>1, <1>3, <1>5 DEF NewInv, GoneInv, Kind, UidInv
<1> QED
  BY <1>1, <1>2, <1>3, <1>4, <1>6, EditKeepsLine DEF Editing

\* The rewrite drops the lines of one name, and nobody who is not late runs under them.
LEMMA UidTruncates == ASSUME Types, UidInv, NEW r \in Requests, Truncate(r) PROVE UidInv'
<1>1. /\ stage[r] = "truncate" /\ Move(r, "rewrite") /\ passwd' = {}
      /\ held' = Without(passwd, work[r].name)
      /\ UNCHANGED <<work, line, child, lock, group, lost, late>>
  BY DEF Truncate, AccountStep, historyVars
<1>2. stage[r] \in Editing /\ held = {}
  BY <1>1, NoneHeld DEF Editing
<1>3. /\ Kind(r) = "delete" /\ line[r] \in passwd /\ line[r].name = work[r].name
      /\ \A c \in Requests :
            child[c] = "running" /\ work[c].name # Root /\ line[c].id = line[r].id => c \in late
  BY <1>1 DEF UidInv, GoneInv
<1>4. Accounts = passwd /\ Accounts' = Without(passwd, work[r].name)
      /\ Without(passwd, work[r].name) \subseteq passwd
  BY <1>1, <1>2 DEF Accounts, Without
<1>5. /\ passwd' \subseteq Lines /\ group' \subseteq Lines /\ held' \subseteq Lines
  BY <1>1, <1>4 DEF UidInv, FileTypes
<1>6. OwnInv'
  BY <1>1, <1>4 DEF UidInv, OwnInv
<1>7. stage'[r] = "rewrite"
  BY <1>1 DEF Types, Move
<1>8. NewInv(r)' /\ GoneInv(r)'
  BY <1>1, <1>3, <1>7 DEF NewInv, GoneInv, Kind
<1>9. ASSUME NEW q \in Requests, line[q] \in Accounts, child[q] = "running", work[q].name # Root
      PROVE  line[q] \in Accounts' \/ q \in late
  <2>1. CASE line[q].name = work[r].name
    <3>1. line[q] = line[r]
      BY <1>3, <1>4, <1>9, <2>1 DEF UidInv, OwnInv
    <3> QED
      BY <1>3, <1>9, <3>1
  <2> QED
    BY <1>4, <1>9, <2>1 DEF Without
<1> QED
  BY <1>1, <1>2, <1>5, <1>6, <1>8, <1>9, EditKeepsLine DEF Editing

LEMMA UidRewrites ==
  ASSUME Types, UidInv, NEW r \in Requests, Rewrite(r) \/ RewriteFails(r) PROVE UidInv'
<1>1. /\ stage[r] = "rewrite" /\ held' = {} /\ passwd' \subseteq held
      /\ UNCHANGED <<work, line, child, group, late>>
  BY DEF Rewrite, RewriteFails, AccountStep, historyVars
<1>2. stage[r] \in Editing /\ passwd = {} /\ Accounts = held /\ Accounts' \subseteq Accounts
  BY <1>1 DEF UidInv, HeldInv, Editing, Accounts
<1>3. /\ passwd' \subseteq Lines /\ group' \subseteq Lines /\ held' \subseteq Lines
  BY <1>1 DEF UidInv, FileTypes
<1>4. OwnInv'
  BY <1>1, <1>2 DEF UidInv, OwnInv
<1>5. CASE Rewrite(r)
  <2>1. Move(r, "group") /\ passwd' = held /\ UNCHANGED <<lock, lost>>
    BY <1>5 DEF Rewrite
  <2>2. Accounts' = Accounts /\ stage'[r] = "group"
    BY <1>1, <1>2, <2>1 DEF Accounts, Types, Move
  <2>3. NewInv(r)' /\ GoneInv(r)'
    BY <1>1, <2>2 DEF UidInv, NewInv, GoneInv, Kind
  <2> QED
    BY <1>1, <1>2, <1>3, <1>4, <2>1, <2>2, <2>3, EditKeepsLine DEF Editing
<1>6. CASE RewriteFails(r)
  <2>1. Move(r, "done") /\ lost' = lost \cup {"passwd"}
    BY <1>6 DEF RewriteFails, Leaves
  <2> QED
    BY <1>1, <1>2, <1>3, <1>4, <2>1, EditKeepsLine DEF Editing
<1> QED
  BY <1>5, <1>6

LEMMA UidStrips ==
  ASSUME Types, UidInv, NEW r \in Requests, StripGroup(r) \/ StripFails(r) PROVE UidInv'
<1>1. /\ stage[r] = "group" /\ Move(r, "done") /\ group' \subseteq group /\ lost \subseteq lost'
      /\ UNCHANGED <<work, line, child, passwd, held, late>>
  BY DEF StripGroup, StripFails, AccountStep, historyVars, Leaves, Without
<1>2. stage[r] \in Editing /\ held = {}
  BY <1>1, NoneHeld DEF Editing
<1>3. /\ passwd' \subseteq Lines /\ group' \subseteq Lines /\ held' \subseteq Lines
      /\ Accounts' = Accounts /\ OwnInv'
  BY <1>1 DEF UidInv, FileTypes, OwnInv, Accounts
<1> QED
  BY <1>1, <1>2, <1>3, EditKeepsLine DEF Editing

LEMMA UidCrash == ASSUME Types, UidInv, Crash PROVE UidInv'
<1>1. /\ stage' = [r \in Requests |-> IF stage[r] = "idle" THEN "idle" ELSE "done"]
      /\ held' = {} /\ lost' = (IF held = {} THEN lost ELSE lost \cup {"passwd"})
      /\ UNCHANGED <<work, line, child, passwd, group, late>>
  BY DEF Crash
<1>2. Accounts' \subseteq Accounts /\ ("passwd" \in lost' \/ Accounts' = Accounts)
  BY <1>1 DEF Accounts
<1>3. FileTypes' /\ HeldInv'
  BY <1>1 DEF UidInv, FileTypes, HeldInv, Editing
<1>4. OwnInv'
  BY <1>1, <1>2 DEF UidInv, OwnInv
<1>5. ASSUME NEW q \in Requests PROVE NewInv(q)' /\ GoneInv(q)' /\ RunsInv(q)'
  <2>1. stage'[q] \in {"idle", "done"} /\ (stage[q] # "idle" => stage'[q] = "done")
    BY <1>1
  <2>2. NewInv(q)' /\ GoneInv(q)'
    BY <2>1 DEF NewInv, GoneInv
  <2>3. RunsInv(q)
    BY DEF UidInv
  <2>4. child[q] # "none" => stage'[q] = "done"
    BY <2>1, <2>3 DEF RunsInv, Started, Timed
  <2>5. lost \subseteq lost'
    BY <1>1
  <2> QED
    BY <1>1, <1>2, <2>1, <2>2, <2>3, <2>4, <2>5 DEF RunsInv, Started
<1> QED
  BY <1>3, <1>4, <1>5 DEF UidInv

-----------------------------------------------------------------------------
\* The account files, the requests that edit them and the commands that run agree
\* in every reachable state (create_user, delete_user and resolve_user in main.rs).
THEOREM UidInvariance == Spec => []UidInv
<1>1. Init => UidInv
  <2> SUFFICES ASSUME Init PROVE UidInv
    OBVIOUS
  <2>1. FileTypes /\ HeldInv /\ OwnInv
    BY AgentAssumption DEF Init, FileTypes, HeldInv, OwnInv, Accounts, Lines, Editing
  <2>2. ASSUME NEW r \in Requests PROVE NewInv(r) /\ GoneInv(r) /\ RunsInv(r)
    BY DEF Init, NewInv, GoneInv, RunsInv
  <2> QED
    BY <2>1, <2>2 DEF UidInv
<1>2. IInv /\ UidInv /\ [Next]_vars => UidInv'
  <2> SUFFICES ASSUME Types, UidInv, [Next]_vars PROVE UidInv'
    BY DEF IInv
  <2>1. ASSUME NEW r \in Requests, Account(r) PROVE UidInv'
    BY <2>1, UidAcquires, UidCreates, UidAppends, UidDeletes, UidKills, UidTruncates,
       UidRewrites, UidStrips DEF Account
  <2>2. CASE Next
    BY <2>1, <2>2, UidHandler, UidCommand, UidHost, UidCrash DEF Next
  <2>3. CASE UNCHANGED vars
    BY <2>3, NoEdit DEF vars, requestVars, accountVars, historyVars
  <2> QED
    BY <2>2, <2>3
<1> QED
  BY <1>1, <1>2, Invariance, PTL DEF Spec

\* A uid is one user's, in the files and among the commands that run, whatever
\* order requests, failed writes and restarts of the agent come in.
THEOREM UidsTheorem == Spec => []UidsAreOwn
<1>1. UidInv => UidsAreOwn
  <2> SUFFICES ASSUME UidInv PROVE UidsAreOwn
    OBVIOUS
  <2>1. ASSUME NEW r \in Requests, NEW k \in Accounts,
               child[r] = "running", work[r].name # Root, k.id = line[r].id
        PROVE  k.name = work[r].name \/ r \in late \/ "passwd" \in lost
    <3>1. line[r].name = work[r].name /\ (line[r] \in Accounts \/ r \in late \/ "passwd" \in lost)
      BY <2>1 DEF UidInv, RunsInv
    <3> QED
      BY <2>1, <3>1 DEF UidInv, OwnInv
  <2> QED
    BY <2>1 DEF UidInv, OwnInv, UidsAreOwn
<1> QED
  BY <1>1, UidInvariance, PTL
=============================================================================
