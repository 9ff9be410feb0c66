----------------------- MODULE StdinExecution_proofs -----------------------
(***************************************************************************)
(* Proofs about StdinExecution, for any sets of ids, executions and        *)
(* requests and any capacities: its type invariant; the ownership of ids   *)
(* and of the exclusive flag by executions with a live process, and that   *)
(* this implements ExecutionContract; and what becomes of input, cancels,  *)
(* output and descendants.                                                 *)
(***************************************************************************)
EXTENDS StdinExecution, SequenceTheorems, TLAPS

----------------------------------------------------------------------------
(* The inductive invariant *)

\* Stages in which an execution owns its id, the flag if it is exclusive, and
\* may have a process.
Registered == {"spawned", "starting", "driving", "killing", "reaping",
               "closing", "removing"}
Holding == Registered \cup {"releasing"}
Running == {"starting", "driving", "killing", "reaping"}

\* An id names an execution exactly while that execution is registered.
NamesInv ==
    /\ \A e \in Execs : stage[e] \in Registered => entries[id[e]] = e
    /\ \A i \in Ids : entries[i] # NoExec =>
         stage[entries[i]] \in Registered /\ id[entries[i]] = i

\* A process exists only in the middle of the registration; done comes after it.
StageInv ==
    \A e \in Execs :
        /\ Unreaped(e) => stage[e] \in Running
        /\ stage[e] \in Running => child[e] # "none"
        /\ stage[e] \in {"new", "spawned"} => child[e] = "none"
        /\ done[e] => stage[e] \in {"reporting", "exiting", "finished"}

\* The flag is set exactly while someone holds it, and that is one holder.
FlagInv ==
    /\ \A e \in Execs : guard[e] <=> exclusive[e] /\ stage[e] \in Holding
    /\ busy <=> legacy \/ \E e \in Execs : guard[e]
    /\ \A e \in Execs : guard[e] => ~legacy
    /\ \A e, f \in Execs : guard[e] /\ guard[f] => e = f

\* A request past its lookup has an execution, a writer that writes a request.
HandleInv ==
    /\ \A c \in Submits : sub[c] \in {"found", "sending", "waiting"} => subExec[c] \in Execs
    /\ \A k \in Cancels : can[k] \in {"found", "marking", "waiting"} => canExec[k] \in Execs
    /\ \A e \in Execs : writer[e] = "writing" => writing[e] \in Submits

TypeInv == TypeOK /\ HandleInv
IInv == TypeInv /\ NamesInv /\ StageInv /\ FlagInv

----------------------------------------------------------------------------
(* Types *)

\* The initial state is well typed.
LEMMA TypeInit == ASSUME Init PROVE TypeInv
<1>1. accepted \in [Execs -> Seq(Submits)] /\ written \in [Execs -> Seq(Submits)]
  BY DEF Init
<1>2. sent \in [Execs -> Seq(Events)]
  BY DEF Init
<1>3. exclusive \in [Execs -> BOOLEAN] /\ id \in [Execs -> Ids]
  BY DEF Init
<1> QED BY <1>1, <1>2, <1>3 DEF Init, TypeInv, TypeOK, HandleInv, Stages

\* Every step keeps the types; a handle obtained from the registry stays valid.
LEMMA TypeStep == ASSUME TypeInv, [Next]_vars PROVE TypeInv'
<1> USE ConstantsAssumption DEF registryVars, taskVars, processVars,
     inputVars, outputVars, submitVars, cancelVars
<1>1. ASSUME NEW e \in Execs, Start(e) PROVE TypeInv'
  BY <1>1 DEF TypeInv, TypeOK, HandleInv, Stages, Start, Admit
<1>2. ASSUME NEW e \in Execs, AbortDisconnected(e) PROVE TypeInv'
  BY <1>2 DEF TypeInv, TypeOK, HandleInv, Stages, AbortDisconnected, Abort,
       DropInput, AnswerAll
<1>3. ASSUME NEW e \in Execs, AbortCancelled(e) PROVE TypeInv'
  BY <1>3 DEF TypeInv, TypeOK, HandleInv, Stages, AbortCancelled, Abort,
       DropInput, AnswerAll
<1>4. ASSUME NEW e \in Execs, SpawnFails(e) PROVE TypeInv'
  BY <1>4 DEF TypeInv, TypeOK, HandleInv, Stages, SpawnFails, Abort,
       DropInput, AnswerAll
<1>5. ASSUME NEW e \in Execs, Spawn(e) PROVE TypeInv'
  BY <1>5 DEF TypeInv, TypeOK, HandleInv, Stages, Spawn
<1>6. ASSUME NEW e \in Execs, CancelWins(e) PROVE TypeInv'
  BY <1>6 DEF TypeInv, TypeOK, HandleInv, Stages, CancelWins, Selecting,
       EndDrive, DropInput, AnswerAll
<1>7. ASSUME NEW e \in Execs, DisconnectWins(e) PROVE TypeInv'
  BY <1>7 DEF TypeInv, TypeOK, HandleInv, Stages, DisconnectWins,
       Selecting, EndDrive, DropInput, AnswerAll
<1>8. ASSUME NEW e \in Execs, DeadlineWins(e) PROVE TypeInv'
  BY <1>8 DEF TypeInv, TypeOK, HandleInv, Stages, DeadlineWins, Selecting,
       EndDrive, DropInput, AnswerAll
<1>9. ASSUME NEW e \in Execs, SendReady(e) PROVE TypeInv'
  BY <1>9 DEF TypeInv, TypeOK, HandleInv, Stages, SendReady, Emit, Events
<1>10. ASSUME NEW e \in Execs, ChildWaited(e) PROVE TypeInv'
  BY <1>10 DEF TypeInv, TypeOK, HandleInv, Stages, ChildWaited, DropInput,
       AnswerAll, StillArmed
<1>11. ASSUME NEW e \in Execs, ReadChunk(e) PROVE TypeInv'
  BY <1>11 DEF TypeInv, TypeOK, HandleInv, Stages, ReadChunk, ReadOnly, Emit, Events
<1>12. ASSUME NEW e \in Execs, OutputEnds(e) PROVE TypeInv'
  BY <1>12 DEF TypeInv, TypeOK, HandleInv, Stages, OutputEnds, ReadOnly
<1>13. ASSUME NEW e \in Execs, ReadFails(e) PROVE TypeInv'
  BY <1>13 DEF TypeInv, TypeOK, HandleInv, Stages, ReadFails, EndDrive,
       DropInput, AnswerAll
<1>14. ASSUME NEW e \in Execs, DriveCompletes(e) PROVE TypeInv'
  BY <1>14 DEF TypeInv, TypeOK, HandleInv, Stages, DriveCompletes,
       EndDrive, DropInput, AnswerAll
<1>15. ASSUME NEW e \in Execs, WriterGetsEof(e) PROVE TypeInv'
  BY <1>15 DEF TypeInv, TypeOK, HandleInv, Stages, WriterGetsEof,
       WriterOnly, AnswerAll
<1>16. ASSUME NEW e \in Execs, WriterGetsData(e) PROVE TypeInv'
  BY <1>16 DEF TypeInv, TypeOK, HandleInv, Stages, WriterGetsData, WriterOnly
<1>17. ASSUME NEW e \in Execs, WriteSucceeds(e) PROVE TypeInv'
  BY <1>17 DEF TypeInv, TypeOK, HandleInv, Stages, WriteSucceeds,
       WriterOnly, AnswerAll
<1>18. ASSUME NEW e \in Execs, WriteBreaks(e) PROVE TypeInv'
  BY <1>18 DEF TypeInv, TypeOK, HandleInv, Stages, WriteBreaks,
       WriterStops, WriterOnly, AnswerAll
<1>19. ASSUME NEW e \in Execs, WriterEnds(e) PROVE TypeInv'
  BY <1>19 DEF TypeInv, TypeOK, HandleInv, Stages, WriterEnds, DropInput, AnswerAll
<1>20. ASSUME NEW e \in Execs, WriteFails(e) PROVE TypeInv'
  BY <1>20 DEF TypeInv, TypeOK, HandleInv, Stages, WriteFails, WriterStops,
       WriterOnly, AnswerAll
<1>21. ASSUME NEW e \in Execs, WriterErrs(e) PROVE TypeInv'
  BY <1>21 DEF TypeInv, TypeOK, HandleInv, Stages, WriterErrs, EndDrive,
       DropInput, AnswerAll
<1>22. ASSUME NEW e \in Execs, KillGroup(e) PROVE TypeInv'
  BY <1>22 DEF TypeInv, TypeOK, HandleInv, Stages, KillGroup, StillArmed
<1>23. ASSUME NEW e \in Execs, Reap(e) PROVE TypeInv'
  BY <1>23 DEF TypeInv, TypeOK, HandleInv, Stages, Reap, StillArmed
<1>24. ASSUME NEW e \in Execs, CloseInput(e) PROVE TypeInv'
  BY <1>24 DEF TypeInv, TypeOK, HandleInv, Stages, CloseInput
<1>25. ASSUME NEW e \in Execs, RemoveEntry(e) PROVE TypeInv'
  BY <1>25 DEF TypeInv, TypeOK, HandleInv, Stages, RemoveEntry
<1>26. ASSUME NEW e \in Execs, ReleaseExclusive(e) PROVE TypeInv'
  BY <1>26 DEF TypeInv, TypeOK, HandleInv, Stages, ReleaseExclusive
<1>27. ASSUME NEW e \in Execs, SignalDone(e) PROVE TypeInv'
  BY <1>27 DEF TypeInv, TypeOK, HandleInv, Stages, SignalDone
<1>28. ASSUME NEW e \in Execs, SendError(e) PROVE TypeInv'
  BY <1>28 DEF TypeInv, TypeOK, HandleInv, Stages, SendError, Report, Emit, Events
<1>29. ASSUME NEW e \in Execs, SendExit(e) PROVE TypeInv'
  BY <1>29 DEF TypeInv, TypeOK, HandleInv, Stages, SendExit, Report, Emit, Events
<1>30. ASSUME NEW e \in Execs, SendFails(e) PROVE TypeInv'
  BY <1>30 DEF TypeInv, TypeOK, HandleInv, Stages, SendFails
<1>31. ASSUME NEW e \in Execs, ChildForks(e) PROVE TypeInv'
  BY <1>31 DEF TypeInv, TypeOK, HandleInv, Stages, ChildForks, CommandOnly
<1>32. ASSUME NEW e \in Execs, ChildExits(e) PROVE TypeInv'
  BY <1>32 DEF TypeInv, TypeOK, HandleInv, Stages, ChildExits, CommandOnly
<1>33. ASSUME NEW e \in Execs, KinExits(e) PROVE TypeInv'
  BY <1>33 DEF TypeInv, TypeOK, HandleInv, Stages, KinExits, CommandOnly
<1>34. ASSUME NEW e \in Execs, ConsumerTakes(e) PROVE TypeInv'
  BY <1>34 DEF TypeInv, TypeOK, HandleInv, Stages, ConsumerTakes, ConsumerOnly
<1>35. ASSUME NEW e \in Execs, ConsumerLeaves(e) PROVE TypeInv'
  BY <1>35 DEF TypeInv, TypeOK, HandleInv, Stages, ConsumerLeaves, ConsumerOnly
<1>36. ASSUME NEW c \in Submits, NEW i \in Ids, SubmitMisses(c, i) PROVE TypeInv'
  BY <1>36 DEF TypeInv, TypeOK, HandleInv, Stages, SubmitMisses, SubmitOnly, Reply
<1>37. ASSUME NEW c \in Submits, NEW i \in Ids, SubmitFinds(c, i) PROVE TypeInv'
  BY <1>37 DEF TypeInv, TypeOK, HandleInv, Stages, SubmitFinds, SubmitOnly
<1>38. ASSUME NEW c \in Submits, SubmitRefused(c) PROVE TypeInv'
  BY <1>38 DEF TypeInv, TypeOK, HandleInv, Stages, SubmitRefused, SubmitOnly, Reply
<1>39. ASSUME NEW c \in Submits, SubmitChecks(c) PROVE TypeInv'
  BY <1>39 DEF TypeInv, TypeOK, HandleInv, Stages, SubmitChecks, SubmitOnly
<1>40. ASSUME NEW c \in Submits, SubmitSends(c) PROVE TypeInv'
  BY <1>40 DEF TypeInv, TypeOK, HandleInv, Stages, SubmitSends, SubmitOnly, TrySend
<1>41. ASSUME NEW c \in Submits, SubmitFindsFull(c) PROVE TypeInv'
  BY <1>41 DEF TypeInv, TypeOK, HandleInv, Stages, SubmitFindsFull,
       SubmitOnly, Reply
<1>42. ASSUME NEW c \in Submits, SubmitFindsGone(c) PROVE TypeInv'
  BY <1>42 DEF TypeInv, TypeOK, HandleInv, Stages, SubmitFindsGone,
       SubmitOnly, Reply
<1>43. ASSUME NEW c \in Submits, SubmitAbandons(c) PROVE TypeInv'
  BY <1>43 DEF TypeInv, TypeOK, HandleInv, Stages, SubmitAbandons, SubmitOnly
<1>44. ASSUME NEW k \in Cancels, NEW i \in Ids, CancelMisses(k, i) PROVE TypeInv'
  BY <1>44 DEF TypeInv, TypeOK, HandleInv, Stages, CancelMisses, CancelOnly
<1>45. ASSUME NEW k \in Cancels, NEW i \in Ids, CancelFinds(k, i) PROVE TypeInv'
  BY <1>45 DEF TypeInv, TypeOK, HandleInv, Stages, CancelFinds, CancelOnly
<1>46. ASSUME NEW k \in Cancels, CancelChecks(k) PROVE TypeInv'
  BY <1>46 DEF TypeInv, TypeOK, HandleInv, Stages, CancelChecks, CancelOnly
<1>47. ASSUME NEW k \in Cancels, CancelMarks(k) PROVE TypeInv'
  BY <1>47 DEF TypeInv, TypeOK, HandleInv, Stages, CancelMarks, CancelOnly
<1>48. ASSUME NEW k \in Cancels, CancelReturns(k) PROVE TypeInv'
  BY <1>48 DEF TypeInv, TypeOK, HandleInv, Stages, CancelReturns,
       CancelOnly, CancelAnswered
<1>49. ASSUME CancelAllMarks PROVE TypeInv'
  BY <1>49 DEF TypeInv, TypeOK, HandleInv, Stages, CancelAllMarks, CancelOnly
<1>50. ASSUME CancelAllReturns PROVE TypeInv'
  BY <1>50 DEF TypeInv, TypeOK, HandleInv, Stages, CancelAllReturns, CancelOnly
<1>51. ASSUME LegacyClaim PROVE TypeInv'
  BY <1>51 DEF TypeInv, TypeOK, HandleInv, Stages, LegacyClaim
<1>52. ASSUME LegacyRelease PROVE TypeInv'
  BY <1>52 DEF TypeInv, TypeOK, HandleInv, Stages, LegacyRelease
<1>53. CASE UNCHANGED vars
  BY <1>53 DEF TypeInv, TypeOK, HandleInv, vars
<1> QED
  BY <1>1, <1>2, <1>3, <1>4, <1>5, <1>6, <1>7, <1>8, <1>9, <1>10, <1>11,
       <1>12, <1>13, <1>14, <1>15, <1>16, <1>17, <1>18, <1>19, <1>20, <1>21,
       <1>22, <1>23, <1>24, <1>25, <1>26, <1>27, <1>28, <1>29, <1>30, <1>31,
       <1>32, <1>33, <1>34, <1>35, <1>36, <1>37, <1>38, <1>39, <1>40, <1>41,
       <1>42, <1>43, <1>44, <1>45, <1>46, <1>47, <1>48, <1>49, <1>50, <1>51,
       <1>52, <1>53 DEF Next, Task, Environment, Submit, Cancel

\* Every reachable state of the registry is well typed.
THEOREM TypeCorrect == Spec => []TypeOK
<1>1. Init => TypeInv
  BY TypeInit
<1>2. TypeInv /\ [Next]_vars => TypeInv'
  BY TypeStep
<1>3. TypeInv => TypeOK
  BY DEF TypeInv
<1> QED
  BY <1>1, <1>2, <1>3, PTL DEF Spec

----------------------------------------------------------------------------
(* Ownership.  Most steps do not touch what it speaks of. *)

\* What names, stages and flags are about.
ownership == <<entries, busy, legacy, stage, id, exclusive, guard, child, done>>

\* The steps that leave ownership as it is.
Quiet ==
    \/ UNCHANGED vars
    \/ \E e \in Execs :
         \/ ReadChunk(e) \/ OutputEnds(e) \/ WriterGetsEof(e) \/ WriterGetsData(e)
         \/ WriteSucceeds(e) \/ WriteBreaks(e) \/ WriterEnds(e) \/ WriteFails(e)
         \/ ChildForks(e) \/ KinExits(e) \/ ConsumerTakes(e) \/ ConsumerLeaves(e)
    \/ \E c \in Submits : Submit(c)
    \/ \E k \in Cancels : Cancel(k)
    \/ CancelAllMarks \/ CancelAllReturns

\* Requests, the writer, the readers and the consumer own nothing.
LEMMA QuietSteps == ASSUME Quiet PROVE UNCHANGED ownership
<1> USE DEF ownership, registryVars, taskVars, processVars, inputVars,
     outputVars, submitVars, cancelVars
<1>1. CASE UNCHANGED vars
  BY <1>1 DEF vars
<1>2. ASSUME NEW e \in Execs, ReadChunk(e) PROVE UNCHANGED ownership
  BY <1>2 DEF ReadChunk, ReadOnly
<1>3. ASSUME NEW e \in Execs, OutputEnds(e) PROVE UNCHANGED ownership
  BY <1>3 DEF OutputEnds, ReadOnly
<1>4. ASSUME NEW e \in Execs, WriterGetsEof(e) PROVE UNCHANGED ownership
  BY <1>4 DEF WriterGetsEof, WriterOnly
<1>5. ASSUME NEW e \in Execs, WriterGetsData(e) PROVE UNCHANGED ownership
  BY <1>5 DEF WriterGetsData, WriterOnly
<1>6. ASSUME NEW e \in Execs, WriteSucceeds(e) PROVE UNCHANGED ownership
  BY <1>6 DEF WriteSucceeds, WriterOnly
<1>7. ASSUME NEW e \in Execs, WriteBreaks(e) PROVE UNCHANGED ownership
  BY <1>7 DEF WriteBreaks, WriterStops, WriterOnly
<1>8. ASSUME NEW e \in Execs, WriterEnds(e) PROVE UNCHANGED ownership
  BY <1>8 DEF WriterEnds
<1>9. ASSUME NEW e \in Execs, WriteFails(e) PROVE UNCHANGED ownership
  BY <1>9 DEF WriteFails, WriterStops, WriterOnly
<1>10. ASSUME NEW e \in Execs, ChildForks(e) PROVE UNCHANGED ownership
  BY <1>10 DEF ChildForks, CommandOnly
<1>11. ASSUME NEW e \in Execs, KinExits(e) PROVE UNCHANGED ownership
  BY <1>11 DEF KinExits, CommandOnly
<1>12. ASSUME NEW e \in Execs, ConsumerTakes(e) PROVE UNCHANGED ownership
  BY <1>12 DEF ConsumerTakes, ConsumerOnly
<1>13. ASSUME NEW e \in Execs, ConsumerLeaves(e) PROVE UNCHANGED ownership
  BY <1>13 DEF ConsumerLeaves, ConsumerOnly
<1>14. ASSUME NEW c \in Submits, NEW i \in Ids, SubmitMisses(c, i) PROVE
     UNCHANGED ownership
  BY <1>14 DEF SubmitMisses, SubmitOnly
<1>15. ASSUME NEW c \in Submits, NEW i \in Ids, SubmitFinds(c, i) PROVE
     UNCHANGED ownership
  BY <1>15 DEF SubmitFinds, SubmitOnly
<1>16. ASSUME NEW c \in Submits, SubmitRefused(c) PROVE UNCHANGED ownership
  BY <1>16 DEF SubmitRefused, SubmitOnly
<1>17. ASSUME NEW c \in Submits, SubmitChecks(c) PROVE UNCHANGED ownership
  BY <1>17 DEF SubmitChecks, SubmitOnly
<1>18. ASSUME NEW c \in Submits, SubmitSends(c) PROVE UNCHANGED ownership
  BY <1>18 DEF SubmitSends, SubmitOnly, TrySend
<1>19. ASSUME NEW c \in Submits, SubmitFindsFull(c) PROVE UNCHANGED ownership
  BY <1>19 DEF SubmitFindsFull, SubmitOnly
<1>20. ASSUME NEW c \in Submits, SubmitFindsGone(c) PROVE UNCHANGED ownership
  BY <1>20 DEF SubmitFindsGone, SubmitOnly
<1>21. ASSUME NEW c \in Submits, SubmitAbandons(c) PROVE UNCHANGED ownership
  BY <1>21 DEF SubmitAbandons, SubmitOnly
<1>22. ASSUME NEW k \in Cancels, NEW i \in Ids, CancelMisses(k, i) PROVE
     UNCHANGED ownership
  BY <1>22 DEF CancelMisses, CancelOnly
<1>23. ASSUME NEW k \in Cancels, NEW i \in Ids, CancelFinds(k, i) PROVE
     UNCHANGED ownership
  BY <1>23 DEF CancelFinds, CancelOnly
<1>24. ASSUME NEW k \in Cancels, CancelChecks(k) PROVE UNCHANGED ownership
  BY <1>24 DEF CancelChecks, CancelOnly
<1>25. ASSUME NEW k \in Cancels, CancelMarks(k) PROVE UNCHANGED ownership
  BY <1>25 DEF CancelMarks, CancelOnly
<1>26. ASSUME NEW k \in Cancels, CancelReturns(k) PROVE UNCHANGED ownership
  BY <1>26 DEF CancelReturns, CancelOnly, CancelAnswered
<1>27. ASSUME CancelAllMarks PROVE UNCHANGED ownership
  BY <1>27 DEF CancelAllMarks, CancelOnly
<1>28. ASSUME CancelAllReturns PROVE UNCHANGED ownership
  BY <1>28 DEF CancelAllReturns, CancelOnly
<1> QED
  BY <1>1, <1>2, <1>3, <1>4, <1>5, <1>6, <1>7, <1>8, <1>9, <1>10, <1>11,
       <1>12, <1>13, <1>14, <1>15, <1>16, <1>17, <1>18, <1>19, <1>20, <1>21,
       <1>22, <1>23, <1>24, <1>25, <1>26, <1>27, <1>28 DEF Quiet, Submit, Cancel

\* An id names an execution exactly while it is registered.
LEMMA NamesInvStep == ASSUME IInv, [Next]_vars PROVE NamesInv'
<1> USE ConstantsAssumption DEF IInv, TypeInv, TypeOK, NamesInv,
     Registered, registryVars, taskVars, processVars, inputVars, outputVars,
     submitVars, cancelVars
<1>1. CASE Quiet
  BY <1>1, QuietSteps DEF ownership
<1>2. ASSUME NEW e \in Execs, Start(e) PROVE NamesInv'
  BY <1>2 DEF Start, Admit
<1>3. ASSUME NEW e \in Execs, AbortDisconnected(e) PROVE NamesInv'
  BY <1>3 DEF AbortDisconnected, Abort
<1>4. ASSUME NEW e \in Execs, AbortCancelled(e) PROVE NamesInv'
  BY <1>4 DEF AbortCancelled, Abort
<1>5. ASSUME NEW e \in Execs, SpawnFails(e) PROVE NamesInv'
  BY <1>5 DEF SpawnFails, Abort
<1>6. ASSUME NEW e \in Execs, Spawn(e) PROVE NamesInv'
  BY <1>6 DEF Spawn
<1>7. ASSUME NEW e \in Execs, CancelWins(e) PROVE NamesInv'
  BY <1>7 DEF CancelWins, Selecting, EndDrive
<1>8. ASSUME NEW e \in Execs, DisconnectWins(e) PROVE NamesInv'
  BY <1>8 DEF DisconnectWins, Selecting, EndDrive
<1>9. ASSUME NEW e \in Execs, DeadlineWins(e) PROVE NamesInv'
  BY <1>9 DEF DeadlineWins, Selecting, EndDrive
<1>10. ASSUME NEW e \in Execs, SendReady(e) PROVE NamesInv'
  BY <1>10 DEF SendReady
<1>11. ASSUME NEW e \in Execs, ChildWaited(e) PROVE NamesInv'
  BY <1>11 DEF ChildWaited
<1>12. ASSUME NEW e \in Execs, ReadFails(e) PROVE NamesInv'
  BY <1>12 DEF ReadFails, EndDrive
<1>13. ASSUME NEW e \in Execs, DriveCompletes(e) PROVE NamesInv'
  BY <1>13 DEF DriveCompletes, EndDrive
<1>14. ASSUME NEW e \in Execs, WriterErrs(e) PROVE NamesInv'
  BY <1>14 DEF WriterErrs, EndDrive
<1>15. ASSUME NEW e \in Execs, KillGroup(e) PROVE NamesInv'
  BY <1>15 DEF KillGroup
<1>16. ASSUME NEW e \in Execs, Reap(e) PROVE NamesInv'
  BY <1>16 DEF Reap
<1>17. ASSUME NEW e \in Execs, CloseInput(e) PROVE NamesInv'
  BY <1>17 DEF CloseInput
<1>18. ASSUME NEW e \in Execs, RemoveEntry(e) PROVE NamesInv'
  BY <1>18 DEF RemoveEntry
<1>19. ASSUME NEW e \in Execs, ReleaseExclusive(e) PROVE NamesInv'
  BY <1>19 DEF ReleaseExclusive
<1>20. ASSUME NEW e \in Execs, SignalDone(e) PROVE NamesInv'
  BY <1>20, SMTT(30) DEF SignalDone
<1>21. ASSUME NEW e \in Execs, SendError(e) PROVE NamesInv'
  BY <1>21 DEF SendError, Report
<1>22. ASSUME NEW e \in Execs, SendExit(e) PROVE NamesInv'
  BY <1>22 DEF SendExit, Report
<1>23. ASSUME NEW e \in Execs, SendFails(e) PROVE NamesInv'
  BY <1>23 DEF SendFails
<1>24. ASSUME NEW e \in Execs, ChildExits(e) PROVE NamesInv'
  BY <1>24 DEF ChildExits, CommandOnly
<1>25. ASSUME LegacyClaim PROVE NamesInv'
  BY <1>25 DEF LegacyClaim
<1>26. ASSUME LegacyRelease PROVE NamesInv'
  BY <1>26 DEF LegacyRelease
<1> QED
  BY <1>1, <1>2, <1>3, <1>4, <1>5, <1>6, <1>7, <1>8, <1>9, <1>10, <1>11,
       <1>12, <1>13, <1>14, <1>15, <1>16, <1>17, <1>18, <1>19, <1>20, <1>21,
       <1>22, <1>23, <1>24, <1>25, <1>26 DEF Next, Task, Environment, Quiet

\* The process lives within the registration.
LEMMA StageInvStep == ASSUME IInv, [Next]_vars PROVE StageInv'
<1> USE ConstantsAssumption DEF IInv, TypeInv, TypeOK, StageInv, Unreaped,
     Running, registryVars, taskVars, processVars, inputVars, outputVars,
     submitVars, cancelVars
<1>1. CASE Quiet
  BY <1>1, QuietSteps DEF ownership
<1>2. ASSUME NEW e \in Execs, Start(e) PROVE StageInv'
  BY <1>2 DEF Start, Admit
<1>3. ASSUME NEW e \in Execs, AbortDisconnected(e) PROVE StageInv'
  BY <1>3 DEF AbortDisconnected, Abort
<1>4. ASSUME NEW e \in Execs, AbortCancelled(e) PROVE StageInv'
  BY <1>4 DEF AbortCancelled, Abort
<1>5. ASSUME NEW e \in Execs, SpawnFails(e) PROVE StageInv'
  BY <1>5 DEF SpawnFails, Abort
<1>6. ASSUME NEW e \in Execs, Spawn(e) PROVE StageInv'
  BY <1>6 DEF Spawn
<1>7. ASSUME NEW e \in Execs, CancelWins(e) PROVE StageInv'
  BY <1>7 DEF CancelWins, Selecting, EndDrive
<1>8. ASSUME NEW e \in Execs, DisconnectWins(e) PROVE StageInv'
  BY <1>8 DEF DisconnectWins, Selecting, EndDrive
<1>9. ASSUME NEW e \in Execs, DeadlineWins(e) PROVE StageInv'
  BY <1>9 DEF DeadlineWins, Selecting, EndDrive
<1>10. ASSUME NEW e \in Execs, SendReady(e) PROVE StageInv'
  BY <1>10 DEF SendReady
<1>11. ASSUME NEW e \in Execs, ChildWaited(e) PROVE StageInv'
  BY <1>11 DEF ChildWaited
<1>12. ASSUME NEW e \in Execs, ReadFails(e) PROVE StageInv'
  BY <1>12 DEF ReadFails, EndDrive
<1>13. ASSUME NEW e \in Execs, DriveCompletes(e) PROVE StageInv'
  BY <1>13 DEF DriveCompletes, EndDrive
<1>14. ASSUME NEW e \in Execs, WriterErrs(e) PROVE StageInv'
  BY <1>14 DEF WriterErrs, EndDrive
<1>15. ASSUME NEW e \in Execs, KillGroup(e) PROVE StageInv'
  BY <1>15 DEF KillGroup
<1>16. ASSUME NEW e \in Execs, Reap(e) PROVE StageInv'
  BY <1>16 DEF Reap
<1>17. ASSUME NEW e \in Execs, CloseInput(e) PROVE StageInv'
  BY <1>17 DEF CloseInput
<1>18. ASSUME NEW e \in Execs, RemoveEntry(e) PROVE StageInv'
  BY <1>18 DEF RemoveEntry
<1>19. ASSUME NEW e \in Execs, ReleaseExclusive(e) PROVE StageInv'
  BY <1>19 DEF ReleaseExclusive
<1>20. ASSUME NEW e \in Execs, SignalDone(e) PROVE StageInv'
  BY <1>20 DEF SignalDone
<1>21. ASSUME NEW e \in Execs, SendError(e) PROVE StageInv'
  BY <1>21 DEF SendError, Report
<1>22. ASSUME NEW e \in Execs, SendExit(e) PROVE StageInv'
  BY <1>22 DEF SendExit, Report
<1>23. ASSUME NEW e \in Execs, SendFails(e) PROVE StageInv'
  BY <1>23 DEF SendFails
<1>24. ASSUME NEW e \in Execs, ChildExits(e) PROVE StageInv'
  BY <1>24 DEF ChildExits, CommandOnly
<1>25. ASSUME LegacyClaim PROVE StageInv'
  BY <1>25 DEF LegacyClaim
<1>26. ASSUME LegacyRelease PROVE StageInv'
  BY <1>26 DEF LegacyRelease
<1> QED
  BY <1>1, <1>2, <1>3, <1>4, <1>5, <1>6, <1>7, <1>8, <1>9, <1>10, <1>11,
       <1>12, <1>13, <1>14, <1>15, <1>16, <1>17, <1>18, <1>19, <1>20, <1>21,
       <1>22, <1>23, <1>24, <1>25, <1>26 DEF Next, Task, Environment, Quiet

\* The flag has at most one holder, and is set exactly while it has one.
LEMMA FlagInvStep == ASSUME IInv, [Next]_vars PROVE FlagInv'
<1> USE ConstantsAssumption DEF IInv, TypeInv, TypeOK, FlagInv, Holding,
     Registered, registryVars, taskVars, processVars, inputVars, outputVars,
     submitVars, cancelVars
<1>1. CASE Quiet
  BY <1>1, QuietSteps DEF ownership
<1>2. ASSUME NEW e \in Execs, Start(e) PROVE FlagInv'
  BY <1>2 DEF Start, Admit
<1>3. ASSUME NEW e \in Execs, AbortDisconnected(e) PROVE FlagInv'
  BY <1>3 DEF AbortDisconnected, Abort
<1>4. ASSUME NEW e \in Execs, AbortCancelled(e) PROVE FlagInv'
  BY <1>4 DEF AbortCancelled, Abort
<1>5. ASSUME NEW e \in Execs, SpawnFails(e) PROVE FlagInv'
  BY <1>5 DEF SpawnFails, Abort
<1>6. ASSUME NEW e \in Execs, Spawn(e) PROVE FlagInv'
  BY <1>6, SMTT(30) DEF Spawn
<1>7. ASSUME NEW e \in Execs, CancelWins(e) PROVE FlagInv'
  BY <1>7, SMTT(30) DEF CancelWins, Selecting, EndDrive
<1>8. ASSUME NEW e \in Execs, DisconnectWins(e) PROVE FlagInv'
  BY <1>8, SMTT(30) DEF DisconnectWins, Selecting, EndDrive
<1>9. ASSUME NEW e \in Execs, DeadlineWins(e) PROVE FlagInv'
  BY <1>9, SMTT(30) DEF DeadlineWins, Selecting, EndDrive
<1>10. ASSUME NEW e \in Execs, SendReady(e) PROVE FlagInv'
  BY <1>10 DEF SendReady
<1>11. ASSUME NEW e \in Execs, ChildWaited(e) PROVE FlagInv'
  BY <1>11 DEF ChildWaited
<1>12. ASSUME NEW e \in Execs, ReadFails(e) PROVE FlagInv'
  BY <1>12 DEF ReadFails, EndDrive
<1>13. ASSUME NEW e \in Execs, DriveCompletes(e) PROVE FlagInv'
  BY <1>13 DEF DriveCompletes, EndDrive
<1>14. ASSUME NEW e \in Execs, WriterErrs(e) PROVE FlagInv'
  BY <1>14 DEF WriterErrs, EndDrive
<1>15. ASSUME NEW e \in Execs, KillGroup(e) PROVE FlagInv'
  BY <1>15 DEF KillGroup
<1>16. ASSUME NEW e \in Execs, Reap(e) PROVE FlagInv'
  BY <1>16 DEF Reap
<1>17. ASSUME NEW e \in Execs, CloseInput(e) PROVE FlagInv'
  BY <1>17 DEF CloseInput
<1>18. ASSUME NEW e \in Execs, RemoveEntry(e) PROVE FlagInv'
  BY <1>18 DEF RemoveEntry
<1>19. ASSUME NEW e \in Execs, ReleaseExclusive(e) PROVE FlagInv'
  BY <1>19 DEF ReleaseExclusive
<1>20. ASSUME NEW e \in Execs, SignalDone(e) PROVE FlagInv'
  <2>1. UNCHANGED <<busy, legacy, guard, exclusive>>
    BY <1>20 DEF SignalDone
  <2>2. stage[e] = "signalling" /\ stage'[e] \in {"finished", "reporting", "exiting"}
        /\ \A f \in Execs \ {e} : stage'[f] = stage[f]
    BY <1>20 DEF SignalDone
  <2>3. \A f \in Execs : stage'[f] \in Holding <=> stage[f] \in Holding
    BY <2>2
  <2> QED
    BY <2>1, <2>3
<1>21. ASSUME NEW e \in Execs, SendError(e) PROVE FlagInv'
  BY <1>21 DEF SendError, Report
<1>22. ASSUME NEW e \in Execs, SendExit(e) PROVE FlagInv'
  BY <1>22 DEF SendExit, Report
<1>23. ASSUME NEW e \in Execs, SendFails(e) PROVE FlagInv'
  BY <1>23 DEF SendFails
<1>24. ASSUME NEW e \in Execs, ChildExits(e) PROVE FlagInv'
  BY <1>24 DEF ChildExits, CommandOnly
<1>25. ASSUME LegacyClaim PROVE FlagInv'
  BY <1>25 DEF LegacyClaim
<1>26. ASSUME LegacyRelease PROVE FlagInv'
  BY <1>26 DEF LegacyRelease
<1> QED
  BY <1>1, <1>2, <1>3, <1>4, <1>5, <1>6, <1>7, <1>8, <1>9, <1>10, <1>11,
       <1>12, <1>13, <1>14, <1>15, <1>16, <1>17, <1>18, <1>19, <1>20, <1>21,
       <1>22, <1>23, <1>24, <1>25, <1>26 DEF Next, Task, Environment, Quiet


\* The inductive invariant holds in every reachable state.
THEOREM Invariance == Spec => []IInv
<1>1. Init => IInv
  <2> SUFFICES ASSUME Init PROVE IInv
    OBVIOUS
  <2>1. TypeInv
    BY TypeInit
  <2> QED
    BY <2>1 DEF Init, IInv, NamesInv, StageInv, FlagInv, Unreaped,
         Registered, Running, Holding
<1>2. IInv /\ [Next]_vars => IInv'
  BY TypeStep, NamesInvStep, StageInvStep, FlagInvStep DEF IInv
<1> QED
  BY <1>1, <1>2, PTL DEF Spec

\* A spawned command that is not reaped is always registered under its id, so a
\* cancel can find it: start inserts the entry before run() may spawn, and
\* Registration::drop removes it only after terminate_and_reap.
THEOREM LiveProcessTheorem == Spec => []LiveProcessIsRegistered
<1>1. IInv => LiveProcessIsRegistered
  BY DEF IInv, NamesInv, StageInv, LiveProcessIsRegistered, Running, Registered
<1> QED
  BY <1>1, Invariance, PTL

\* While an exclusive command has a process, its execution alone owns the flag:
\* no other execution or legacy command can claim it before the reap.
THEOREM ExclusiveTheorem == Spec => []ExclusiveOutlivesProcess
<1>1. IInv => ExclusiveOutlivesProcess
  BY DEF IInv, StageInv, FlagInv, ExclusiveOutlivesProcess, Running,
       Holding, Registered
<1> QED
  BY <1>1, Invariance, PTL

----------------------------------------------------------------------------
(* StdinExecution implements ExecutionContract *)

\* Initial states are initial states of the contract.
LEMMA ContractInit == ASSUME Init PROVE Contract!Init
  BY DEF Init, Contract!Init, Leases, Phase, Process

\* How the mapping follows the stage of one execution.
LEMMA PhaseMoves ==
  ASSUME NEW e \in Execs, NEW to, stage' = [stage EXCEPT ![e] = to],
         stage \in [Execs -> Stages]
  PROVE  /\ to = "releasing" => Phase' = [Phase EXCEPT ![e] = "ending"]
         /\ to = "signalling" => Phase' = [Phase EXCEPT ![e] = "over"]
<1>1. stage'[e] = to /\ \A f \in Execs \ {e} : stage'[f] = stage[f]
  OBVIOUS
<1>2. \A f \in Execs \ {e} : Phase'[f] = Phase[f]
  BY <1>1 DEF Phase
<1>3. /\ to = "releasing" => Phase'[e] = "ending"
      /\ to = "signalling" => Phase'[e] = "over"
  BY <1>1 DEF Phase
<1> QED
  <2>1. Phase = [f \in Execs |-> Phase[f]] /\ Phase' = [f \in Execs |-> Phase'[f]]
    BY DEF Phase
  <2> QED
    BY <1>2, <1>3, <2>1

\* How the mapping follows the process of one execution.
LEMMA ProcessMoves ==
  ASSUME NEW e \in Execs, NEW to, child' = [child EXCEPT ![e] = to], DOMAIN child = Execs
  PROVE  /\ to = "running" => Process' = [Process EXCEPT ![e] = "up"]
         /\ to = "reaped" => Process' = [Process EXCEPT ![e] = "gone"]
<1>1. child'[e] = to /\ \A f \in Execs \ {e} : child'[f] = child[f]
  OBVIOUS
<1>2. \A f \in Execs \ {e} : Process'[f] = Process[f]
  BY <1>1 DEF Process
<1>3. /\ to = "running" => Process'[e] = "up"
      /\ to = "reaped" => Process'[e] = "gone"
  BY <1>1 DEF Process
<1> QED
  <2>1. Process = [f \in Execs |-> Process[f]] /\ Process' = [f \in Execs |-> Process'[f]]
    BY DEF Process
  <2> QED
    BY <1>2, <1>3, <2>1

\* Every step is a step of the contract or changes nothing it speaks of.
LEMMA ContractStep == ASSUME IInv, [Next]_vars PROVE [Contract!Next]_(Contract!vars)
<1> USE ConstantsAssumption DEF IInv, TypeInv, TypeOK, registryVars,
     taskVars, processVars, inputVars, outputVars, submitVars, cancelVars
<1>1. CASE Quiet
  BY <1>1, QuietSteps DEF ownership, Contract!vars, Leases, Phase, Process
<1>2. ASSUME NEW e \in Execs, Start(e) PROVE Contract!Admit(e)
  <2>1. Leases = {} /\ Leases' = IF exclusive[e] THEN {e} ELSE {}
    BY <1>2 DEF Start, Admit, FlagInv, Leases
  <2>2. Phase[e] = "new" /\ Phase' = [Phase EXCEPT ![e] = "active"]
    BY <1>2 DEF Start, Admit, Phase
  <2>3. Process' = Process
    BY <1>2 DEF Start, Admit, Process
  <2> QED
    BY <1>2, <2>1, <2>2, <2>3 DEF Start, Admit, Contract!Admit
<1>3. ASSUME NEW e \in Execs, AbortDisconnected(e) PROVE UNCHANGED Contract!vars
  BY <1>3 DEF AbortDisconnected, Abort, Contract!vars, Leases, Phase, Process
<1>4. ASSUME NEW e \in Execs, AbortCancelled(e) PROVE UNCHANGED Contract!vars
  BY <1>4 DEF AbortCancelled, Abort, Contract!vars, Leases, Phase, Process
<1>5. ASSUME NEW e \in Execs, SpawnFails(e) PROVE UNCHANGED Contract!vars
  BY <1>5 DEF SpawnFails, Abort, Contract!vars, Leases, Phase, Process
<1>6. ASSUME NEW e \in Execs, Spawn(e) PROVE Contract!Launch(e)
  <2>1. Leases' = Leases
    BY <1>6 DEF Spawn, Leases
  <2>2. Phase[e] = "active" /\ Phase' = Phase
    BY <1>6 DEF Spawn, Phase
  <2>3. Process[e] = "none" /\ Process' = [Process EXCEPT ![e] = "up"]
    <3>1. child[e] = "none" /\ child' = [child EXCEPT ![e] = "running"]
      BY <1>6 DEF Spawn, StageInv
    <3>2. Process[e] = "none"
      BY <3>1 DEF Process
    <3> QED
      BY <3>1, <3>2, ProcessMoves
  <2> QED
    BY <1>6, <2>1, <2>2, <2>3 DEF Spawn, Contract!Launch
<1>7. ASSUME NEW e \in Execs, CancelWins(e) PROVE UNCHANGED Contract!vars
  BY <1>7 DEF CancelWins, Selecting, EndDrive, Contract!vars, Leases, Phase, Process
<1>8. ASSUME NEW e \in Execs, DisconnectWins(e) PROVE UNCHANGED Contract!vars
  BY <1>8 DEF DisconnectWins, Selecting, EndDrive, Contract!vars, Leases,
       Phase, Process
<1>9. ASSUME NEW e \in Execs, DeadlineWins(e) PROVE UNCHANGED Contract!vars
  BY <1>9 DEF DeadlineWins, Selecting, EndDrive, Contract!vars, Leases,
       Phase, Process
<1>10. ASSUME NEW e \in Execs, SendReady(e) PROVE UNCHANGED Contract!vars
  BY <1>10 DEF SendReady, Contract!vars, Leases, Phase, Process
<1>11. ASSUME NEW e \in Execs, ChildWaited(e) PROVE Contract!Collapse(e)
  <2>1. Leases' = Leases
    BY <1>11 DEF ChildWaited, Leases
  <2>2. Phase[e] = "active" /\ Phase' = Phase
    BY <1>11 DEF ChildWaited, Phase
  <2>3. Process[e] = "up" /\ Process' = [Process EXCEPT ![e] = "gone"]
    <3>1. child[e] = "zombie" /\ child' = [child EXCEPT ![e] = "reaped"]
      BY <1>11 DEF ChildWaited
    <3>2. Process[e] = "up"
      BY <3>1 DEF Process
    <3> QED
      BY <3>1, <3>2, ProcessMoves
  <2> QED
    BY <1>11, <2>1, <2>2, <2>3 DEF ChildWaited, Contract!Collapse
<1>12. ASSUME NEW e \in Execs, ReadFails(e) PROVE UNCHANGED Contract!vars
  BY <1>12 DEF ReadFails, EndDrive, Contract!vars, Leases, Phase, Process
<1>13. ASSUME NEW e \in Execs, DriveCompletes(e) PROVE UNCHANGED Contract!vars
  BY <1>13 DEF DriveCompletes, EndDrive, Contract!vars, Leases, Phase, Process
<1>14. ASSUME NEW e \in Execs, WriterErrs(e) PROVE UNCHANGED Contract!vars
  BY <1>14 DEF WriterErrs, EndDrive, Contract!vars, Leases, Phase, Process
<1>15. ASSUME NEW e \in Execs, KillGroup(e) PROVE UNCHANGED Contract!vars
  <2>1. Leases' = Leases
    BY <1>15 DEF KillGroup, Leases
  <2>2. Phase' = Phase
    BY <1>15 DEF KillGroup, Phase
  <2>3. child[e] # "none"
    BY <1>15 DEF KillGroup, StageInv, Running
  <2>4. Process' = Process
    BY <1>15, <2>3 DEF KillGroup, Process
  <2> QED
    BY <1>15, <2>1, <2>2, <2>4 DEF KillGroup, Contract!vars
<1>16. ASSUME NEW e \in Execs, Reap(e) PROVE Contract!Collapse(e) \/
     UNCHANGED Contract!vars
  <2>1. Leases' = Leases
    BY <1>16 DEF Reap, Leases
  <2>2. Phase[e] = "active" /\ Phase' = Phase
    BY <1>16 DEF Reap, Phase
  <2>3. child[e] # "none"
    BY <1>16 DEF Reap, StageInv, Running
  <2>4. \/ Process[e] = "up" /\ Process' = [Process EXCEPT ![e] = "gone"]
       \/ Process' = Process
    <3>1. child' = [child EXCEPT ![e] = "reaped"]
      BY <1>16 DEF Reap
    <3>2. CASE child[e] = "reaped"
      <4>1. child' = child
        BY <3>1, <3>2
      <4> QED
        BY <4>1 DEF Process
    <3>3. CASE child[e] # "reaped"
      <4>1. Process[e] = "up"
        BY <2>3, <3>3 DEF Process
      <4>2. Process' = [Process EXCEPT ![e] = "gone"]
        BY <3>1 DEF Process
      <4> QED
        BY <4>1, <4>2
    <3> QED
      BY <3>2, <3>3
  <2> QED
    BY <1>16, <2>1, <2>2, <2>4 DEF Reap, Contract!Collapse, Contract!vars
<1>17. ASSUME NEW e \in Execs, CloseInput(e) PROVE UNCHANGED Contract!vars
  BY <1>17 DEF CloseInput, Contract!vars, Leases, Phase, Process
<1>18. ASSUME NEW e \in Execs, RemoveEntry(e) PROVE Contract!Retire(e)
  <2>1. Leases' = Leases
    BY <1>18 DEF RemoveEntry, Leases
  <2>2. Phase[e] = "active" /\ Phase' = [Phase EXCEPT ![e] = "ending"]
    <3>1. stage[e] = "removing" /\ stage' = [stage EXCEPT ![e] = "releasing"]
      BY <1>18 DEF RemoveEntry
    <3>2. Phase[e] = "active"
      BY <3>1 DEF Phase
    <3> QED
      BY <3>1, <3>2, PhaseMoves
  <2>3. Process[e] # "up" /\ Process' = Process
    <3>1. stage[e] = "removing" /\ child' = child
      BY <1>18 DEF RemoveEntry
    <3>2. child[e] \in {"none", "reaped"}
      BY <3>1 DEF StageInv, Unreaped, Running
    <3> QED
      BY <3>1, <3>2 DEF Process
  <2>4. entries[id[e]] = e /\ entries' = [entries EXCEPT ![id[e]] = NoExec]
    BY <1>18 DEF RemoveEntry, NamesInv, Registered
  <2> QED
    BY <1>18, <2>1, <2>2, <2>3, <2>4 DEF RemoveEntry, Contract!Retire
<1>19. ASSUME NEW e \in Execs, ReleaseExclusive(e) PROVE Contract!Yield(e)
  <2>1. Leases' = Leases \ {e}
    BY <1>19 DEF ReleaseExclusive, Leases
  <2>2. Phase[e] = "ending" /\ Phase' = [Phase EXCEPT ![e] = "over"]
    <3>1. stage[e] = "releasing" /\ stage' = [stage EXCEPT ![e] = "signalling"]
      BY <1>19 DEF ReleaseExclusive
    <3>2. Phase[e] = "ending"
      BY <3>1 DEF Phase
    <3> QED
      BY <3>1, <3>2, PhaseMoves
  <2>3. Process' = Process
    BY <1>19 DEF ReleaseExclusive, Process
  <2> QED
    BY <1>19, <2>1, <2>2, <2>3 DEF ReleaseExclusive, Contract!Yield
<1>20. ASSUME NEW e \in Execs, SignalDone(e) PROVE UNCHANGED Contract!vars
  BY <1>20 DEF SignalDone, Contract!vars, Leases, Phase, Process
<1>21. ASSUME NEW e \in Execs, SendError(e) PROVE UNCHANGED Contract!vars
  BY <1>21 DEF SendError, Report, Contract!vars, Leases, Phase, Process
<1>22. ASSUME NEW e \in Execs, SendExit(e) PROVE UNCHANGED Contract!vars
  BY <1>22 DEF SendExit, Report, Contract!vars, Leases, Phase, Process
<1>23. ASSUME NEW e \in Execs, SendFails(e) PROVE UNCHANGED Contract!vars
  BY <1>23 DEF SendFails, Contract!vars, Leases, Phase, Process
<1>24. ASSUME NEW e \in Execs, ChildExits(e) PROVE UNCHANGED Contract!vars
  BY <1>24 DEF ChildExits, CommandOnly, Contract!vars, Leases, Phase, Process
<1>25. ASSUME LegacyClaim PROVE Contract!OtherClaims
  BY <1>25 DEF LegacyClaim, Contract!OtherClaims, Leases, Phase, Process, FlagInv
<1>26. ASSUME LegacyRelease PROVE Contract!OtherReleases
  BY <1>26 DEF LegacyRelease, Contract!OtherReleases, Leases, Phase,
       Process, FlagInv
<1> QED
  BY <1>1, <1>2, <1>3, <1>4, <1>5, <1>6, <1>7, <1>8, <1>9, <1>10, <1>11,
       <1>12, <1>13, <1>14, <1>15, <1>16, <1>17, <1>18, <1>19, <1>20, <1>21,
       <1>22, <1>23, <1>24, <1>25, <1>26 DEF Next, Task, Environment, Quiet,
       Contract!Next

\* The registry, with its threads and failures, does what the contract says: an
\* id and the exclusive lease are owned around the whole life of the process.
THEOREM RefinementTheorem == Spec => ImplementsContract
<1> QED
  BY Invariance, ContractInit, ContractStep, PTL DEF Spec,
       ImplementsContract, Contract!Spec

----------------------------------------------------------------------------
(* Process groups *)

\* A descendant that is alive is in a group that will be signalled, and so is
\* the group of a child that can still fork.
KinInv ==
    \A e \in Execs :
        /\ kin[e] => armed[e]
        /\ child[e] = "running" => armed[e]

\* kill_group() disarms the group only when its signal reached every member.
LEMMA KinInvStep == ASSUME TypeOK, KinInv, [Next]_vars PROVE KinInv'
<1> USE DEF TypeOK, KinInv, registryVars, taskVars, processVars,
     inputVars, outputVars, submitVars, cancelVars
<1>1. ASSUME NEW e \in Execs,
       \/ Start(e) \/ AbortDisconnected(e) \/ AbortCancelled(e)
       \/ SpawnFails(e) \/ CancelWins(e) \/ DisconnectWins(e)
       \/ DeadlineWins(e) \/ SendReady(e) \/ ReadChunk(e) \/ OutputEnds(e)
       \/ ReadFails(e) \/ DriveCompletes(e)
     PROVE UNCHANGED processVars
  BY <1>1 DEF Start, Admit, AbortDisconnected, Abort, DropInput, AnswerAll,
       AbortCancelled, SpawnFails, CancelWins, Selecting, EndDrive,
       DisconnectWins, DeadlineWins, SendReady, Emit, ReadChunk, ReadOnly,
       OutputEnds, ReadFails, DriveCompletes
<1>2. ASSUME NEW e \in Execs,
       \/ WriterErrs(e) \/ WriterGetsEof(e) \/ WriterGetsData(e)
       \/ WriteSucceeds(e) \/ WriteBreaks(e) \/ WriteFails(e)
       \/ WriterEnds(e) \/ CloseInput(e) \/ RemoveEntry(e)
       \/ ReleaseExclusive(e) \/ SignalDone(e) \/ SendFails(e)
     PROVE UNCHANGED processVars
  BY <1>2 DEF WriterErrs, EndDrive, DropInput, AnswerAll, WriterGetsEof,
       WriterOnly, WriterGetsData, WriteSucceeds, WriteBreaks, WriterStops,
       WriteFails, WriterEnds, CloseInput, RemoveEntry, ReleaseExclusive,
       SignalDone, SendFails
<1>3. ASSUME NEW e \in Execs,
       \/ SendError(e) \/ SendExit(e) \/ ConsumerTakes(e) \/ ConsumerLeaves(e)
     PROVE UNCHANGED processVars
  BY <1>3 DEF SendError, Report, Emit, SendExit, ConsumerTakes, ConsumerOnly,
       ConsumerLeaves
<1>4. ASSUME NEW c \in Submits, NEW i \in Ids,
       \/ SubmitMisses(c, i) \/ SubmitFinds(c, i)
     PROVE UNCHANGED processVars
  BY <1>4 DEF SubmitMisses, SubmitOnly, Reply, SubmitFinds
<1>5. ASSUME NEW c \in Submits,
       \/ SubmitRefused(c) \/ SubmitFindsFull(c) \/ SubmitFindsGone(c)
       \/ SubmitChecks(c) \/ SubmitAbandons(c) \/ SubmitSends(c)
     PROVE UNCHANGED processVars
  BY <1>5 DEF SubmitRefused, SubmitOnly, Reply, SubmitFindsFull,
       SubmitFindsGone, SubmitChecks, SubmitAbandons, SubmitSends, TrySend
<1>6. ASSUME NEW k \in Cancels, NEW i \in Ids,
       \/ CancelMisses(k, i) \/ CancelFinds(k, i)
     PROVE UNCHANGED processVars
  BY <1>6 DEF CancelMisses, CancelOnly, CancelFinds
<1>7. ASSUME NEW k \in Cancels,
       \/ CancelChecks(k) \/ CancelMarks(k) \/ CancelReturns(k)
     PROVE UNCHANGED processVars
  BY <1>7 DEF CancelChecks, CancelOnly, CancelMarks, CancelReturns,
       CancelAnswered
<1>8. ASSUME
       \/ CancelAllMarks \/ CancelAllReturns \/ LegacyClaim \/ LegacyRelease
     PROVE UNCHANGED processVars
  BY <1>8 DEF CancelAllMarks, CancelOnly, CancelAllReturns, LegacyClaim,
       LegacyRelease
<1>9. ASSUME NEW e \in Execs, Spawn(e) PROVE KinInv'
  BY <1>9 DEF Spawn
<1>10. ASSUME NEW e \in Execs, ChildWaited(e) PROVE KinInv'
  BY <1>10 DEF ChildWaited, StillArmed, DropInput, AnswerAll
<1>11. ASSUME NEW e \in Execs, KillGroup(e) PROVE KinInv'
  BY <1>11 DEF KillGroup, StillArmed
<1>12. ASSUME NEW e \in Execs, Reap(e) PROVE KinInv'
  BY <1>12 DEF Reap, StillArmed
<1>13. ASSUME NEW e \in Execs, ChildForks(e) PROVE KinInv'
  BY <1>13 DEF ChildForks, CommandOnly
<1>14. ASSUME NEW e \in Execs, ChildExits(e) PROVE KinInv'
  BY <1>14 DEF ChildExits, CommandOnly
<1>15. ASSUME NEW e \in Execs, KinExits(e) PROVE KinInv'
  BY <1>15 DEF KinExits, CommandOnly
<1>16. CASE UNCHANGED vars
  BY <1>16 DEF vars
<1>17. CASE UNCHANGED processVars
  BY <1>17
<1> QED
  BY <1>1, <1>2, <1>3, <1>4, <1>5, <1>6, <1>7, <1>8, <1>9, <1>10, <1>11,
       <1>12, <1>13, <1>14, <1>15, <1>16, <1>17 DEF Next, Task,
       Environment, Submit, Cancel

----------------------------------------------------------------------------
(* Cancels *)

\* Stages after drop(registration) has closed the input.
InputClosedStages == {"removing", "releasing", "signalling", "reporting",
                      "exiting", "finished"}

\* A cancel that found an execution returns when that is done, and the mark it
\* is credited with is there to stay.
CancelInv ==
    /\ \A e \in Execs : stage[e] \in InputClosedStages => closed[e]
    /\ \A k \in Cancels : can[k] = "new" => canExec[k] = NoExec
    /\ \A k \in Cancels :
         can[k] = "answered" /\ canExec[k] # NoExec => done[canExec[k]]
    /\ \A k \in Cancels : credited[k] =>
         /\ can[k] \in {"waiting", "answered"} /\ canExec[k] # NoExec
         /\ cancelled[canExec[k]]
    /\ \A k, l \in Cancels :
         credited[k] /\ credited[l] /\ canExec[k] = canExec[l] => k = l

\* A cancel is credited when it is the first to mark, and a mark stays.
LEMMA CancelInvStep == ASSUME TypeInv, CancelInv, [Next]_vars PROVE CancelInv'
<1> USE ConstantsAssumption DEF TypeInv, TypeOK, HandleInv, CancelInv,
     InputClosedStages, registryVars, taskVars, processVars,
     inputVars, outputVars, submitVars, cancelVars
<1>1. ASSUME NEW e \in Execs,
       \/ ReadChunk(e) \/ OutputEnds(e) \/ WriterGetsEof(e)
       \/ WriterGetsData(e) \/ WriteSucceeds(e) \/ WriteBreaks(e)
       \/ WriteFails(e) \/ ChildForks(e) \/ ChildExits(e) \/ KinExits(e)
       \/ ConsumerTakes(e) \/ ConsumerLeaves(e)
     PROVE UNCHANGED <<stage, closed, done, cancelled, can, canExec, credited>>
  BY <1>1 DEF ReadChunk, ReadOnly, Emit, OutputEnds, WriterGetsEof,
       WriterOnly, AnswerAll, WriterGetsData, WriteSucceeds, WriteBreaks,
       WriterStops, WriteFails, ChildForks, CommandOnly, ChildExits, KinExits,
       ConsumerTakes, ConsumerOnly, ConsumerLeaves
<1>2. ASSUME NEW c \in Submits, NEW i \in Ids,
       \/ SubmitMisses(c, i) \/ SubmitFinds(c, i)
     PROVE UNCHANGED <<stage, closed, done, cancelled, can, canExec, credited>>
  BY <1>2 DEF SubmitMisses, SubmitOnly, Reply, SubmitFinds
<1>3. ASSUME NEW c \in Submits,
       \/ SubmitRefused(c) \/ SubmitFindsFull(c) \/ SubmitFindsGone(c)
       \/ SubmitChecks(c) \/ SubmitAbandons(c) \/ SubmitSends(c)
     PROVE UNCHANGED <<stage, closed, done, cancelled, can, canExec, credited>>
  BY <1>3 DEF SubmitRefused, SubmitOnly, Reply, SubmitFindsFull,
       SubmitFindsGone, SubmitChecks, SubmitAbandons, SubmitSends, TrySend
<1>4. ASSUME
       \/ LegacyClaim \/ LegacyRelease
     PROVE UNCHANGED <<stage, closed, done, cancelled, can, canExec, credited>>
  BY <1>4 DEF LegacyClaim, LegacyRelease
<1>5. ASSUME NEW e \in Execs, Start(e) PROVE CancelInv'
  BY <1>5 DEF Start, Admit
<1>6. ASSUME NEW e \in Execs, AbortDisconnected(e) PROVE CancelInv'
  BY <1>6 DEF AbortDisconnected, Abort, DropInput, AnswerAll
<1>7. ASSUME NEW e \in Execs, AbortCancelled(e) PROVE CancelInv'
  BY <1>7 DEF AbortCancelled, Abort, DropInput, AnswerAll
<1>8. ASSUME NEW e \in Execs, SpawnFails(e) PROVE CancelInv'
  BY <1>8 DEF SpawnFails, Abort, DropInput, AnswerAll
<1>9. ASSUME NEW e \in Execs, Spawn(e) PROVE CancelInv'
  BY <1>9 DEF Spawn
<1>10. ASSUME NEW e \in Execs, CancelWins(e) PROVE CancelInv'
  BY <1>10 DEF CancelWins, Selecting, EndDrive, DropInput, AnswerAll
<1>11. ASSUME NEW e \in Execs, DisconnectWins(e) PROVE CancelInv'
  BY <1>11 DEF DisconnectWins, Selecting, EndDrive, DropInput, AnswerAll
<1>12. ASSUME NEW e \in Execs, DeadlineWins(e) PROVE CancelInv'
  BY <1>12 DEF DeadlineWins, Selecting, EndDrive, DropInput, AnswerAll
<1>13. ASSUME NEW e \in Execs, SendReady(e) PROVE CancelInv'
  BY <1>13 DEF SendReady, Emit
<1>14. ASSUME NEW e \in Execs, ChildWaited(e) PROVE CancelInv'
  BY <1>14 DEF ChildWaited, StillArmed, DropInput, AnswerAll
<1>15. ASSUME NEW e \in Execs, ReadFails(e) PROVE CancelInv'
  BY <1>15 DEF ReadFails, EndDrive, DropInput, AnswerAll
<1>16. ASSUME NEW e \in Execs, DriveCompletes(e) PROVE CancelInv'
  BY <1>16 DEF DriveCompletes, EndDrive, DropInput, AnswerAll
<1>17. ASSUME NEW e \in Execs, WriterErrs(e) PROVE CancelInv'
  BY <1>17 DEF WriterErrs, EndDrive, DropInput, AnswerAll
<1>18. ASSUME NEW e \in Execs, WriterEnds(e) PROVE CancelInv'
  BY <1>18 DEF WriterEnds, DropInput, AnswerAll
<1>19. ASSUME NEW e \in Execs, KillGroup(e) PROVE CancelInv'
  BY <1>19 DEF KillGroup, StillArmed
<1>20. ASSUME NEW e \in Execs, Reap(e) PROVE CancelInv'
  BY <1>20 DEF Reap, StillArmed
<1>21. ASSUME NEW e \in Execs, CloseInput(e) PROVE CancelInv'
  BY <1>21 DEF CloseInput
<1>22. ASSUME NEW e \in Execs, RemoveEntry(e) PROVE CancelInv'
  BY <1>22 DEF RemoveEntry
<1>23. ASSUME NEW e \in Execs, ReleaseExclusive(e) PROVE CancelInv'
  BY <1>23 DEF ReleaseExclusive
<1>24. ASSUME NEW e \in Execs, SignalDone(e) PROVE CancelInv'
  BY <1>24 DEF SignalDone
<1>25. ASSUME NEW e \in Execs, SendFails(e) PROVE CancelInv'
  BY <1>25 DEF SendFails
<1>26. ASSUME NEW e \in Execs, SendError(e) PROVE CancelInv'
  BY <1>26 DEF SendError, Report, Emit
<1>27. ASSUME NEW e \in Execs, SendExit(e) PROVE CancelInv'
  BY <1>27 DEF SendExit, Report, Emit
<1>28. ASSUME NEW k \in Cancels, NEW i \in Ids, CancelMisses(k, i)
     PROVE CancelInv'
  BY <1>28 DEF CancelMisses, CancelOnly
<1>29. ASSUME NEW k \in Cancels, NEW i \in Ids, CancelFinds(k, i)
     PROVE CancelInv'
  BY <1>29 DEF CancelFinds, CancelOnly
<1>30. ASSUME NEW k \in Cancels, CancelChecks(k) PROVE CancelInv'
  BY <1>30 DEF CancelChecks, CancelOnly
<1>31. ASSUME NEW k \in Cancels, CancelMarks(k) PROVE CancelInv'
  BY <1>31 DEF CancelMarks, CancelOnly
<1>32. ASSUME NEW k \in Cancels, CancelReturns(k) PROVE CancelInv'
  BY <1>32 DEF CancelReturns, CancelOnly, CancelAnswered
<1>33. ASSUME CancelAllMarks PROVE CancelInv'
  BY <1>33 DEF CancelAllMarks, CancelOnly
<1>34. ASSUME CancelAllReturns PROVE CancelInv'
  BY <1>34 DEF CancelAllReturns, CancelOnly
<1>35. CASE UNCHANGED vars
  BY <1>35 DEF vars
<1>36. CASE UNCHANGED <<stage, closed, done, cancelled, can, canExec, credited>>
  BY <1>36
<1> QED
  BY <1>1, <1>2, <1>3, <1>4, <1>5, <1>6, <1>7, <1>8, <1>9, <1>10, <1>11,
       <1>12, <1>13, <1>14, <1>15, <1>16, <1>17, <1>18, <1>19, <1>20, <1>21,
       <1>22, <1>23, <1>24, <1>25, <1>26, <1>27, <1>28, <1>29, <1>30, <1>31,
       <1>32, <1>33, <1>34, <1>35, <1>36 DEF Next, Task,
       Environment, Submit, Cancel


\* Whatever is done has been through every part of the tear-down.
LEMMA DoneMeansGone ==
  ASSUME IInv, CancelInv, NEW e \in Execs, done[e]
  PROVE  ~Unreaped(e) /\ entries[id[e]] # e /\ ~guard[e] /\ closed[e]
<1>1. stage[e] \in {"reporting", "exiting", "finished"}
  BY DEF IInv, StageInv
<1>2. ~Unreaped(e)
  BY <1>1 DEF IInv, StageInv, Running
<1>3. entries[id[e]] # e
  <2>1. id[e] \in Ids /\ e # NoExec
    BY ConstantsAssumption DEF IInv, TypeInv, TypeOK
  <2> QED
    BY <1>1, <2>1 DEF IInv, NamesInv, Registered
<1>4. ~guard[e]
  BY <1>1 DEF IInv, FlagInv, Holding, Registered
<1>5. closed[e]
  BY <1>1 DEF CancelInv, InputClosedStages
<1> QED
  BY <1>2, <1>3, <1>4, <1>5

----------------------------------------------------------------------------
(* Output events *)

\* What the output channel has been given by a stage.
EventsOk(e) ==
    /\ stage[e] \in {"new", "spawned", "starting"} => sent[e] = <<>>
    /\ stage[e] = "driving" => sent[e] # <<>> /\ sent[e][1] = "ready"
    /\ stage[e] = "reporting" => outcome[e] = "failed"
    /\ stage[e] \in {"reporting", "exiting", "finished"} => done[e]
    /\ \A n \in 1..Len(sent[e]) :
         /\ sent[e][n] = "ready" => n = 1
         /\ sent[e][n] = "chunk" => sent[e][1] = "ready"
         /\ sent[e][n] = "error" =>
              /\ stage[e] \in {"exiting", "finished"} /\ outcome[e] = "failed"
              /\ n = Len(sent[e]) \/ (stage[e] = "finished" /\ n = Len(sent[e]) - 1)
         /\ sent[e][n] = "exit" => stage[e] = "finished" /\ n = Len(sent[e])
EventsInv == \A e \in Execs : EventsOk(e)

\* What a channel holds after an event has been put into it.
LEMMA Emitted ==
  ASSUME TypeInv, NEW e \in Execs, NEW event \in Events,
         sent' = [sent EXCEPT ![e] = Append(@, event)]
  PROVE  /\ Len(sent[e]) \in Nat /\ Len(sent'[e]) = Len(sent[e]) + 1
         /\ \A n \in 1..Len(sent[e]) : sent'[e][n] = sent[e][n]
         /\ sent'[e] # <<>> /\ sent'[e][Len(sent[e]) + 1] = event
         /\ sent[e] # <<>> <=> Len(sent[e]) > 0
         /\ \A f \in Execs \ {e} : sent'[f] = sent[f]
<1>1. sent \in [Execs -> Seq(Events)]
  BY DEF TypeInv, TypeOK
<1>2. sent[e] \in Seq(Events) /\ sent'[e] = Append(sent[e], event)
  BY <1>1
<1>3. \A f \in Execs \ {e} : sent'[f] = sent[f]
  BY <1>1
<1> QED
  BY <1>2, <1>3, AppendProperties, EmptySeq

\* Events are sent in four places, each in a stage of its own.
LEMMA EventsInvStep == ASSUME TypeInv, EventsInv, [Next]_vars PROVE EventsInv'
<1> USE DEF TypeInv, TypeOK, EventsInv, EventsOk, registryVars, taskVars, processVars,
     inputVars, outputVars, submitVars, cancelVars
<1>1. ASSUME NEW e \in Execs,
       \/ OutputEnds(e) \/ WriterGetsEof(e) \/ WriterGetsData(e)
       \/ WriteSucceeds(e) \/ WriteBreaks(e) \/ WriteFails(e)
       \/ WriterEnds(e) \/ ChildForks(e) \/ ChildExits(e) \/ KinExits(e)
       \/ ConsumerTakes(e) \/ ConsumerLeaves(e)
     PROVE UNCHANGED <<stage, outcome, done, sent>>
  BY <1>1 DEF OutputEnds, ReadOnly, WriterGetsEof, WriterOnly, AnswerAll,
       WriterGetsData, WriteSucceeds, WriteBreaks, WriterStops, WriteFails,
       WriterEnds, DropInput, ChildForks, CommandOnly, ChildExits, KinExits,
       ConsumerTakes, ConsumerOnly, ConsumerLeaves
<1>2. ASSUME NEW c \in Submits, NEW i \in Ids,
       \/ SubmitMisses(c, i) \/ SubmitFinds(c, i)
     PROVE UNCHANGED <<stage, outcome, done, sent>>
  BY <1>2 DEF SubmitMisses, SubmitOnly, Reply, SubmitFinds
<1>3. ASSUME NEW c \in Submits,
       \/ SubmitRefused(c) \/ SubmitFindsFull(c) \/ SubmitFindsGone(c)
       \/ SubmitChecks(c) \/ SubmitAbandons(c) \/ SubmitSends(c)
     PROVE UNCHANGED <<stage, outcome, done, sent>>
  BY <1>3 DEF SubmitRefused, SubmitOnly, Reply, SubmitFindsFull,
       SubmitFindsGone, SubmitChecks, SubmitAbandons, SubmitSends, TrySend
<1>4. ASSUME NEW k \in Cancels, NEW i \in Ids,
       \/ CancelMisses(k, i) \/ CancelFinds(k, i)
     PROVE UNCHANGED <<stage, outcome, done, sent>>
  BY <1>4 DEF CancelMisses, CancelOnly, CancelFinds
<1>5. ASSUME NEW k \in Cancels,
       \/ CancelChecks(k) \/ CancelMarks(k) \/ CancelReturns(k)
     PROVE UNCHANGED <<stage, outcome, done, sent>>
  BY <1>5 DEF CancelChecks, CancelOnly, CancelMarks, CancelReturns,
       CancelAnswered
<1>6. ASSUME
       \/ CancelAllMarks \/ CancelAllReturns \/ LegacyClaim \/ LegacyRelease
     PROVE UNCHANGED <<stage, outcome, done, sent>>
  BY <1>6 DEF CancelAllMarks, CancelOnly, CancelAllReturns, LegacyClaim,
       LegacyRelease
<1>7. ASSUME NEW e \in Execs, Start(e) PROVE EventsInv'
  BY <1>7 DEF Start, Admit
<1>8. ASSUME NEW e \in Execs, AbortDisconnected(e) PROVE EventsInv'
  BY <1>8 DEF AbortDisconnected, Abort, DropInput, AnswerAll
<1>9. ASSUME NEW e \in Execs, AbortCancelled(e) PROVE EventsInv'
  BY <1>9 DEF AbortCancelled, Abort, DropInput, AnswerAll
<1>10. ASSUME NEW e \in Execs, SpawnFails(e) PROVE EventsInv'
  BY <1>10 DEF SpawnFails, Abort, DropInput, AnswerAll
<1>11. ASSUME NEW e \in Execs, Spawn(e) PROVE EventsInv'
  BY <1>11 DEF Spawn
<1>12. ASSUME NEW e \in Execs, CancelWins(e) PROVE EventsInv'
  BY <1>12 DEF CancelWins, Selecting, EndDrive, DropInput, AnswerAll
<1>13. ASSUME NEW e \in Execs, DisconnectWins(e) PROVE EventsInv'
  BY <1>13 DEF DisconnectWins, Selecting, EndDrive, DropInput, AnswerAll
<1>14. ASSUME NEW e \in Execs, DeadlineWins(e) PROVE EventsInv'
  BY <1>14 DEF DeadlineWins, Selecting, EndDrive, DropInput, AnswerAll
<1>15. ASSUME NEW e \in Execs, SendReady(e) PROVE EventsInv'
  <2>1. sent' = [sent EXCEPT ![e] = Append(@, "ready")] /\ UNCHANGED <<outcome, done>>
        /\ stage[e] = "starting" /\ stage' = [stage EXCEPT ![e] = "driving"]
    BY <1>15 DEF SendReady, Emit
  <2>2. \A f \in Execs : EventsOk(f)
    BY DEF EventsInv
  <2>3. stage \in [Execs -> Stages]
    BY DEF TypeInv, TypeOK
  <2> HIDE DEF TypeInv, EventsInv
  <2>4. EventsOk(e)'
    <3>1. Len(sent[e]) = 0
      BY <2>1, <2>2, EmptySeq
    <3>2. stage'[e] = "driving"
      BY <2>1, <2>3
    <3>3. /\ Len(sent'[e]) = Len(sent[e]) + 1
          /\ sent'[e] # <<>> /\ sent'[e][Len(sent[e]) + 1] = "ready"
      BY <2>1, Emitted DEF Events
    <3>4. Len(sent'[e]) = 1 /\ sent'[e][1] = "ready"
      BY <3>1, <3>3
    <3> QED
      BY <3>2, <3>3, <3>4
  <2>5. ASSUME NEW f \in Execs \ {e} PROVE EventsOk(f)'
    BY <2>1, <2>2, <2>3, Emitted DEF Events
  <2> QED
    BY <2>4, <2>5 DEF EventsInv
<1>16. ASSUME NEW e \in Execs, ChildWaited(e) PROVE EventsInv'
  BY <1>16 DEF ChildWaited, StillArmed, DropInput, AnswerAll
<1>17. ASSUME NEW e \in Execs, ReadChunk(e) PROVE EventsInv'
  <2>1. sent' = [sent EXCEPT ![e] = Append(@, "chunk")] /\ UNCHANGED <<outcome, done>>
        /\ stage[e] = "driving" /\ UNCHANGED stage
    BY <1>17 DEF ReadChunk, ReadOnly, Emit
  <2>2. \A f \in Execs : EventsOk(f)
    BY DEF EventsInv
  <2>3. stage \in [Execs -> Stages]
    BY DEF TypeInv, TypeOK
  <2> HIDE DEF TypeInv, EventsInv
  <2>4. EventsOk(e)'
    BY <2>1, <2>2, <2>3, Emitted DEF Events
  <2>5. ASSUME NEW f \in Execs \ {e} PROVE EventsOk(f)'
    BY <2>1, <2>2, <2>3, Emitted DEF Events
  <2> QED
    BY <2>4, <2>5 DEF EventsInv
<1>18. ASSUME NEW e \in Execs, ReadFails(e) PROVE EventsInv'
  BY <1>18 DEF ReadFails, EndDrive, DropInput, AnswerAll
<1>19. ASSUME NEW e \in Execs, DriveCompletes(e) PROVE EventsInv'
  BY <1>19 DEF DriveCompletes, EndDrive, DropInput, AnswerAll
<1>20. ASSUME NEW e \in Execs, WriterErrs(e) PROVE EventsInv'
  BY <1>20 DEF WriterErrs, EndDrive, DropInput, AnswerAll
<1>21. ASSUME NEW e \in Execs, KillGroup(e) PROVE EventsInv'
  BY <1>21 DEF KillGroup, StillArmed
<1>22. ASSUME NEW e \in Execs, Reap(e) PROVE EventsInv'
  BY <1>22 DEF Reap, StillArmed
<1>23. ASSUME NEW e \in Execs, CloseInput(e) PROVE EventsInv'
  BY <1>23 DEF CloseInput
<1>24. ASSUME NEW e \in Execs, RemoveEntry(e) PROVE EventsInv'
  BY <1>24 DEF RemoveEntry
<1>25. ASSUME NEW e \in Execs, ReleaseExclusive(e) PROVE EventsInv'
  BY <1>25 DEF ReleaseExclusive
<1>26. ASSUME NEW e \in Execs, SignalDone(e) PROVE EventsInv'
  BY <1>26 DEF SignalDone
<1>27. ASSUME NEW e \in Execs, SendFails(e) PROVE EventsInv'
  BY <1>27 DEF SendFails
<1>28. ASSUME NEW e \in Execs, SendError(e) PROVE EventsInv'
  <2>1. sent' = [sent EXCEPT ![e] = Append(@, "error")] /\ UNCHANGED <<outcome, done>>
        /\ stage[e] = "reporting" /\ stage' = [stage EXCEPT ![e] = "exiting"]
    BY <1>28 DEF SendError, Report, Emit
  <2>2. \A f \in Execs : EventsOk(f)
    BY DEF EventsInv
  <2>3. stage \in [Execs -> Stages]
    BY DEF TypeInv, TypeOK
  <2> HIDE DEF TypeInv, EventsInv
  <2>4. EventsOk(e)'
    BY <2>1, <2>2, <2>3, Emitted DEF Events
  <2>5. ASSUME NEW f \in Execs \ {e} PROVE EventsOk(f)'
    BY <2>1, <2>2, <2>3, Emitted DEF Events
  <2> QED
    BY <2>4, <2>5 DEF EventsInv
<1>29. ASSUME NEW e \in Execs, SendExit(e) PROVE EventsInv'
  <2>1. sent' = [sent EXCEPT ![e] = Append(@, "exit")] /\ UNCHANGED <<outcome, done>>
        /\ stage[e] = "exiting" /\ stage' = [stage EXCEPT ![e] = "finished"]
    BY <1>29 DEF SendExit, Report, Emit
  <2>2. \A f \in Execs : EventsOk(f)
    BY DEF EventsInv
  <2>3. stage \in [Execs -> Stages]
    BY DEF TypeInv, TypeOK
  <2> HIDE DEF TypeInv, EventsInv
  <2>4. EventsOk(e)'
    BY <2>1, <2>2, <2>3, Emitted DEF Events
  <2>5. ASSUME NEW f \in Execs \ {e} PROVE EventsOk(f)'
    BY <2>1, <2>2, <2>3, Emitted DEF Events
  <2> QED
    BY <2>4, <2>5 DEF EventsInv
<1>30. CASE UNCHANGED vars
  BY <1>30 DEF vars
<1>31. CASE UNCHANGED <<stage, outcome, done, sent>>
  BY <1>31
<1> QED
  BY <1>1, <1>2, <1>3, <1>4, <1>5, <1>6, <1>7, <1>8, <1>9, <1>10, <1>11,
       <1>12, <1>13, <1>14, <1>15, <1>16, <1>17, <1>18, <1>19, <1>20, <1>21,
       <1>22, <1>23, <1>24, <1>25, <1>26, <1>27, <1>28, <1>29, <1>30, <1>31 DEF Next, Task,
       Environment, Submit, Cancel

----------------------------------------------------------------------------
(* Input requests *)

\* A request is in one place at a time, ...
PlacesOf(e) ==
    /\ writer[e] # "writing" => writing[e] = NoCall
    /\ writer[e] = "gone" => queue[e] = NoCall
    /\ queue[e] # NoCall => queue[e] # writing[e]
    /\ \A c \in {queue[e], writing[e]} \ {NoCall} :
         subExec[c] = e /\ sub[c] \in {"waiting", "abandoned"}

\* ... one that waits is in a place of the execution it was sent to, and one that
\* was told that its data was taken is among the written.
Whereabouts(c) ==
    /\ sub[c] = "waiting" => c \in {queue[subExec[c]], writing[subExec[c]]}
    /\ answer[c] = "open" =>
         /\ sub[c] = "answered" /\ subExec[c] \in Execs
         /\ \E n \in 1..Len(written[subExec[c]]) : written[subExec[c]][n] = c

PlaceInv == (\A e \in Execs : PlacesOf(e)) /\ (\A c \in Submits : Whereabouts(c))

\* Where the receiver goes, nothing is left in a place of that execution, and
\* whoever waited there is answered.
LEMMA DropKeepsPlaces ==
  ASSUME TypeInv, PlaceInv, NEW e \in Execs, DropInput(e)
  PROVE  PlaceInv'
  BY ConstantsAssumption DEF TypeInv, TypeOK, HandleInv, PlaceInv, PlacesOf, Whereabouts,
       DropInput, AnswerAll

\* A request moves from the channel to the writer to its answer.
LEMMA PlaceInvStep == ASSUME TypeInv, PlaceInv, [Next]_vars PROVE PlaceInv'
<1> USE ConstantsAssumption DEF TypeInv, TypeOK, HandleInv, PlaceInv, PlacesOf,
     Whereabouts, registryVars, taskVars, processVars,
     inputVars, outputVars, submitVars, cancelVars
<1>1. ASSUME NEW e \in Execs,
       \/ Start(e) \/ Spawn(e) \/ SendReady(e) \/ ReadChunk(e)
       \/ OutputEnds(e) \/ KillGroup(e) \/ Reap(e) \/ CloseInput(e)
       \/ RemoveEntry(e) \/ ReleaseExclusive(e) \/ SignalDone(e)
       \/ SendFails(e)
     PROVE UNCHANGED <<writer, queue, writing, written, submitVars>>
  BY <1>1 DEF Start, Admit, Spawn, SendReady, Emit, ReadChunk, ReadOnly,
       OutputEnds, KillGroup, StillArmed, Reap, CloseInput, RemoveEntry,
       ReleaseExclusive, SignalDone, SendFails
<1>2. ASSUME NEW e \in Execs,
       \/ SendError(e) \/ SendExit(e) \/ ChildForks(e) \/ ChildExits(e)
       \/ KinExits(e) \/ ConsumerTakes(e) \/ ConsumerLeaves(e)
     PROVE UNCHANGED <<writer, queue, writing, written, submitVars>>
  BY <1>2 DEF SendError, Report, Emit, SendExit, ChildForks, CommandOnly,
       ChildExits, KinExits, ConsumerTakes, ConsumerOnly, ConsumerLeaves
<1>3. ASSUME NEW k \in Cancels, NEW i \in Ids,
       \/ CancelMisses(k, i) \/ CancelFinds(k, i)
     PROVE UNCHANGED <<writer, queue, writing, written, submitVars>>
  BY <1>3 DEF CancelMisses, CancelOnly, CancelFinds
<1>4. ASSUME NEW k \in Cancels,
       \/ CancelChecks(k) \/ CancelMarks(k) \/ CancelReturns(k)
     PROVE UNCHANGED <<writer, queue, writing, written, submitVars>>
  BY <1>4 DEF CancelChecks, CancelOnly, CancelMarks, CancelReturns,
       CancelAnswered
<1>5. ASSUME
       \/ CancelAllMarks \/ CancelAllReturns \/ LegacyClaim \/ LegacyRelease
     PROVE UNCHANGED <<writer, queue, writing, written, submitVars>>
  BY <1>5 DEF CancelAllMarks, CancelOnly, CancelAllReturns, LegacyClaim,
       LegacyRelease
<1>6. ASSUME NEW e \in Execs, AbortDisconnected(e) PROVE PlaceInv'
  BY <1>6, DropKeepsPlaces DEF AbortDisconnected, Abort
<1>7. ASSUME NEW e \in Execs, AbortCancelled(e) PROVE PlaceInv'
  BY <1>7, DropKeepsPlaces DEF AbortCancelled, Abort
<1>8. ASSUME NEW e \in Execs, SpawnFails(e) PROVE PlaceInv'
  BY <1>8, DropKeepsPlaces DEF SpawnFails, Abort
<1>9. ASSUME NEW e \in Execs, CancelWins(e) PROVE PlaceInv'
  BY <1>9, DropKeepsPlaces DEF CancelWins, Selecting, EndDrive
<1>10. ASSUME NEW e \in Execs, DisconnectWins(e) PROVE PlaceInv'
  BY <1>10, DropKeepsPlaces DEF DisconnectWins, Selecting, EndDrive
<1>11. ASSUME NEW e \in Execs, DeadlineWins(e) PROVE PlaceInv'
  BY <1>11, DropKeepsPlaces DEF DeadlineWins, Selecting, EndDrive
<1>12. ASSUME NEW e \in Execs, ChildWaited(e) PROVE PlaceInv'
  BY <1>12, DropKeepsPlaces DEF ChildWaited
<1>13. ASSUME NEW e \in Execs, ReadFails(e) PROVE PlaceInv'
  BY <1>13, DropKeepsPlaces DEF ReadFails, EndDrive
<1>14. ASSUME NEW e \in Execs, DriveCompletes(e) PROVE PlaceInv'
  BY <1>14, DropKeepsPlaces DEF DriveCompletes, EndDrive
<1>15. ASSUME NEW e \in Execs, WriterErrs(e) PROVE PlaceInv'
  BY <1>15, DropKeepsPlaces DEF WriterErrs, EndDrive
<1>16. ASSUME NEW e \in Execs, WriterGetsEof(e) PROVE PlaceInv'
  BY <1>16 DEF WriterGetsEof, WriterOnly, AnswerAll
<1>17. ASSUME NEW e \in Execs, WriterGetsData(e) PROVE PlaceInv'
  BY <1>17 DEF WriterGetsData, WriterOnly
<1>18. ASSUME NEW e \in Execs, WriteSucceeds(e) PROVE PlaceInv'
  <2> DEFINE w == writing[e]
  <2>1. w \in Submits /\ subExec[w] = e /\ writer[e] = "writing"
    BY <1>18 DEF WriteSucceeds
  <2>2. written'[e] = Append(written[e], w) /\ written[e] \in Seq(Submits)
    BY <1>18, <2>1 DEF WriteSucceeds
  <2>3. \A f \in Execs \ {e} : /\ written'[f] = written[f] /\ writing'[f] = writing[f]
                               /\ queue'[f] = queue[f] /\ writer'[f] = writer[f]
    BY <1>18 DEF WriteSucceeds
  <2>4. /\ writer'[e] = "receiving" /\ writing'[e] = NoCall /\ queue'[e] = queue[e]
        /\ subExec' = subExec
    BY <1>18 DEF WriteSucceeds, AnswerAll
  <2>5. \A c \in Submits \ {w} : sub'[c] = sub[c] /\ answer'[c] = answer[c]
    BY <1>18 DEF WriteSucceeds, AnswerAll
  <2>6. /\ sub[w] = "waiting" => sub'[w] = "answered" /\ answer'[w] = "open"
        /\ sub[w] = "abandoned" => sub'[w] = sub[w] /\ answer'[w] = answer[w]
    BY <1>18, <2>1 DEF WriteSucceeds, AnswerAll
  <2>7. /\ queue \in [Execs -> Submits \cup {NoCall}]
        /\ writing \in [Execs -> Submits \cup {NoCall}]
        /\ sub[w] \in {"waiting", "abandoned"}
    BY <2>1
  <2>8. w # NoCall
    BY <2>1
  <2>9. \A c \in Submits : c # NoCall
    OBVIOUS
  <2> HIDE DEF TypeInv, PlaceInv, PlacesOf, Whereabouts
  <2>10. (\A f \in Execs : PlacesOf(f)) /\ (\A d \in Submits : Whereabouts(d))
    BY DEF PlaceInv
  <2>11. \A f \in Execs : queue[f] # w /\ (f # e => writing[f] # w)
    BY <2>1, <2>8, <2>10 DEF PlacesOf
  <2>12. /\ Len(written'[e]) = Len(written[e]) + 1 /\ Len(written[e]) \in Nat
         /\ \A n \in 1..Len(written[e]) : written'[e][n] = written[e][n]
         /\ written'[e][Len(written[e]) + 1] = w
    <3> HIDE DEF w
    <3> QED
      BY <2>1, <2>2, AppendProperties
  <2>13. \A d \in Submits : \A f \in Execs :
           (\E n \in 1..Len(written[f]) : written[f][n] = d)
           => \E n \in 1..Len(written'[f]) : written'[f][n] = d
    BY <2>3, <2>12
  <2>14. \E n \in 1..Len(written'[e]) : written'[e][n] = w
    BY <2>12
  <2> HIDE DEF w
  <2>15. ASSUME NEW f \in Execs PROVE PlacesOf(f)'
    <3>1. CASE f = e
      BY <3>1, <2>4, <2>5, <2>7, <2>8, <2>10, <2>11 DEF PlacesOf
    <3>2. CASE f # e
      BY <3>2, <2>3, <2>4, <2>5, <2>7, <2>10, <2>11 DEF PlacesOf
    <3> QED
      BY <3>1, <3>2
  <2>16. ASSUME NEW c \in Submits PROVE Whereabouts(c)'
    <3>1. CASE c = w
      BY <2>1, <2>4, <2>6, <2>7, <2>10, <2>14, <3>1 DEF Whereabouts
    <3>2. CASE c # w
      <4>1. sub'[c] = sub[c] /\ answer'[c] = answer[c] /\ subExec'[c] = subExec[c]
        BY <2>4, <2>5, <3>2
      <4>2. ASSUME sub[c] = "waiting"
            PROVE  c \in {queue'[subExec[c]], writing'[subExec[c]]}
        <5>1. subExec[c] \in Execs
          BY <4>2 DEF TypeInv, HandleInv
        <5>2. c \in {queue[subExec[c]], writing[subExec[c]]}
          BY <2>10, <4>2 DEF Whereabouts
        <5> QED
          BY <2>3, <2>4, <3>2, <5>1, <5>2 DEF w
      <4>3. ASSUME answer[c] = "open"
            PROVE  /\ sub[c] = "answered" /\ subExec[c] \in Execs
                   /\ \E n \in 1..Len(written'[subExec[c]]) :
                        written'[subExec[c]][n] = c
        <5>1. /\ sub[c] = "answered" /\ subExec[c] \in Execs
              /\ \E n \in 1..Len(written[subExec[c]]) : written[subExec[c]][n] = c
          BY <2>10, <4>3 DEF Whereabouts
        <5> QED
          BY <2>13, <5>1
      <4> QED
        BY <4>1, <4>2, <4>3 DEF Whereabouts
    <3> QED
      BY <3>1, <3>2
  <2> QED
    BY <2>15, <2>16 DEF PlaceInv
<1>19. ASSUME NEW e \in Execs, WriteBreaks(e) PROVE PlaceInv'
  BY <1>19 DEF WriteBreaks, WriterStops, WriterOnly, AnswerAll
<1>20. ASSUME NEW e \in Execs, WriteFails(e) PROVE PlaceInv'
  BY <1>20 DEF WriteFails, WriterStops, WriterOnly, AnswerAll
<1>21. ASSUME NEW e \in Execs, WriterEnds(e) PROVE PlaceInv'
  BY <1>21, DropKeepsPlaces DEF WriterEnds
<1>22. ASSUME NEW c \in Submits, NEW i \in Ids, SubmitMisses(c, i) PROVE PlaceInv'
  <2>1. /\ sub[c] = "new" /\ sub' = [sub EXCEPT ![c] = "answered"]
        /\ answer' = [answer EXCEPT ![c] = "closed"]
        /\ UNCHANGED <<writer, queue, writing, written, subExec>>
    BY <1>22 DEF SubmitMisses, SubmitOnly, Reply
  <2> QED
    BY <2>1
<1>23. ASSUME NEW c \in Submits, NEW i \in Ids, SubmitFinds(c, i) PROVE PlaceInv'
  <2>1. /\ sub[c] = "new" /\ sub'[c] = "found"
        /\ \A d \in Submits \ {c} : sub'[d] = sub[d] /\ subExec'[d] = subExec[d]
        /\ UNCHANGED <<writer, queue, writing, written, answer>>
    BY <1>23 DEF SubmitFinds, SubmitOnly
  <2>2. /\ queue \in [Execs -> Submits \cup {NoCall}]
        /\ writing \in [Execs -> Submits \cup {NoCall}]
    OBVIOUS
  <2> HIDE DEF TypeInv, PlaceInv
  <2>3. (\A e \in Execs : PlacesOf(e)) /\ (\A d \in Submits : Whereabouts(d))
    BY DEF PlaceInv
  <2> HIDE DEF PlacesOf, Whereabouts
  <2>4. \A e \in Execs : \A d \in {queue[e], writing[e]} \ {NoCall} :
          d \in Submits /\ d # c
    BY <2>1, <2>2, <2>3 DEF PlacesOf
  <2>5. ASSUME NEW e \in Execs PROVE PlacesOf(e)'
    BY <2>1, <2>3, <2>4 DEF PlacesOf
  <2>6. ASSUME NEW d \in Submits PROVE Whereabouts(d)'
    BY <2>1, <2>3 DEF Whereabouts
  <2> QED
    BY <2>5, <2>6 DEF PlaceInv
<1>24. ASSUME NEW c \in Submits, SubmitRefused(c) PROVE PlaceInv'
  BY <1>24 DEF SubmitRefused, SubmitOnly, Reply
<1>25. ASSUME NEW c \in Submits, SubmitFindsFull(c) PROVE PlaceInv'
  BY <1>25 DEF SubmitFindsFull, SubmitOnly, Reply
<1>26. ASSUME NEW c \in Submits, SubmitFindsGone(c) PROVE PlaceInv'
  BY <1>26 DEF SubmitFindsGone, SubmitOnly, Reply
<1>27. ASSUME NEW c \in Submits, SubmitChecks(c) PROVE PlaceInv'
  BY <1>27 DEF SubmitChecks, SubmitOnly
<1>28. ASSUME NEW c \in Submits, SubmitAbandons(c) PROVE PlaceInv'
  BY <1>28 DEF SubmitAbandons, SubmitOnly
<1>29. ASSUME NEW c \in Submits, SubmitSends(c) PROVE PlaceInv'
  BY <1>29 DEF SubmitSends, SubmitOnly, TrySend
<1>30. CASE UNCHANGED vars
  BY <1>30 DEF vars
<1>31. CASE UNCHANGED <<writer, queue, writing, written, submitVars>>
  BY <1>31
<1> QED
  BY <1>1, <1>2, <1>3, <1>4, <1>5, <1>6, <1>7, <1>8, <1>9, <1>10, <1>11,
       <1>12, <1>13, <1>14, <1>15, <1>16, <1>17, <1>18, <1>19, <1>20, <1>21,
       <1>22, <1>23, <1>24, <1>25, <1>26, <1>27, <1>28, <1>29, <1>30, <1>31 DEF Next, Task,
       Environment, Submit, Cancel

----------------------------------------------------------------------------
(* The order of input *)

\* How many requests a place holds.
Held(place) == IF place = NoCall THEN 0 ELSE 1

\* What was taken is what is written, then what is being written, then what is
\* queued, as long as the writer has not stopped.
OrderOk(e) ==
    /\ Len(written[e]) + Held(writing[e]) <= Len(accepted[e])
    /\ \A n \in 1..Len(written[e]) : written[e][n] = accepted[e][n]
    /\ writing[e] # NoCall => accepted[e][Len(written[e]) + 1] = writing[e]
    /\ writer[e] \in {"receiving", "writing"} =>
         /\ Len(accepted[e]) = Len(written[e]) + Held(writing[e]) + Held(queue[e])
         /\ queue[e] # NoCall => accepted[e][Len(accepted[e])] = queue[e]
OrderInv == \A e \in Execs : OrderOk(e)

LEMMA HeldFacts == Held(NoCall) = 0 /\ \A p : p # NoCall => Held(p) = 1
  BY DEF Held

\* Where the receiver goes, what was written stays.
LEMMA DropKeepsOrder ==
  ASSUME TypeInv, OrderInv, NEW e \in Execs, DropInput(e)
  PROVE  OrderInv'
<1>1. /\ writer'[e] = "gone" /\ writing'[e] = NoCall
      /\ \A f \in Execs \ {e} : /\ writer'[f] = writer[f] /\ queue'[f] = queue[f]
                                /\ writing'[f] = writing[f]
      /\ UNCHANGED <<accepted, written>>
  BY DEF TypeInv, TypeOK, DropInput
<1>2. \A f \in Execs : OrderOk(f) /\ Len(written[f]) \in Nat /\ Len(accepted[f]) \in Nat
  BY DEF TypeInv, TypeOK, OrderInv
<1>3. OrderOk(e)'
  BY <1>1, <1>2, HeldFacts DEF OrderOk
<1>4. ASSUME NEW f \in Execs \ {e} PROVE OrderOk(f)'
  BY <1>1, <1>2, HeldFacts DEF OrderOk
<1> QED
  BY <1>3, <1>4 DEF OrderInv

\* Requests are taken, begun and written one at a time.
LEMMA OrderInvStep == ASSUME TypeInv, PlaceInv, OrderInv, [Next]_vars PROVE OrderInv'
<1> USE DEF TypeInv, TypeOK, HandleInv, OrderInv, OrderOk,
     registryVars, taskVars, processVars,
     inputVars, outputVars, submitVars, cancelVars
<1>1. ASSUME NEW e \in Execs,
       \/ Start(e) \/ Spawn(e) \/ SendReady(e) \/ ReadChunk(e)
       \/ OutputEnds(e) \/ KillGroup(e) \/ Reap(e) \/ CloseInput(e)
       \/ RemoveEntry(e) \/ ReleaseExclusive(e) \/ SignalDone(e)
       \/ SendFails(e)
     PROVE UNCHANGED <<writer, queue, writing, accepted, written>>
  BY <1>1 DEF Start, Admit, Spawn, SendReady, Emit, ReadChunk, ReadOnly,
       OutputEnds, KillGroup, StillArmed, Reap, CloseInput, RemoveEntry,
       ReleaseExclusive, SignalDone, SendFails
<1>2. ASSUME NEW e \in Execs,
       \/ SendError(e) \/ SendExit(e) \/ ChildForks(e) \/ ChildExits(e)
       \/ KinExits(e) \/ ConsumerTakes(e) \/ ConsumerLeaves(e)
     PROVE UNCHANGED <<writer, queue, writing, accepted, written>>
  BY <1>2 DEF SendError, Report, Emit, SendExit, ChildForks, CommandOnly,
       ChildExits, KinExits, ConsumerTakes, ConsumerOnly, ConsumerLeaves
<1>3. ASSUME NEW c \in Submits, NEW i \in Ids,
       \/ SubmitMisses(c, i) \/ SubmitFinds(c, i)
     PROVE UNCHANGED <<writer, queue, writing, accepted, written>>
  BY <1>3 DEF SubmitMisses, SubmitOnly, Reply, SubmitFinds
<1>4. ASSUME NEW c \in Submits,
       \/ SubmitRefused(c) \/ SubmitFindsFull(c) \/ SubmitFindsGone(c)
       \/ SubmitChecks(c) \/ SubmitAbandons(c)
     PROVE UNCHANGED <<writer, queue, writing, accepted, written>>
  BY <1>4 DEF SubmitRefused, SubmitOnly, Reply, SubmitFindsFull,
       SubmitFindsGone, SubmitChecks, SubmitAbandons
<1>5. ASSUME NEW k \in Cancels, NEW i \in Ids,
       \/ CancelMisses(k, i) \/ CancelFinds(k, i)
     PROVE UNCHANGED <<writer, queue, writing, accepted, written>>
  BY <1>5 DEF CancelMisses, CancelOnly, CancelFinds
<1>6. ASSUME NEW k \in Cancels,
       \/ CancelChecks(k) \/ CancelMarks(k) \/ CancelReturns(k)
     PROVE UNCHANGED <<writer, queue, writing, accepted, written>>
  BY <1>6 DEF CancelChecks, CancelOnly, CancelMarks, CancelReturns,
       CancelAnswered
<1>7. ASSUME
       \/ CancelAllMarks \/ CancelAllReturns \/ LegacyClaim \/ LegacyRelease
     PROVE UNCHANGED <<writer, queue, writing, accepted, written>>
  BY <1>7 DEF CancelAllMarks, CancelOnly, CancelAllReturns, LegacyClaim,
       LegacyRelease
<1>8. ASSUME NEW e \in Execs, AbortDisconnected(e) PROVE OrderInv'
  BY <1>8, DropKeepsOrder DEF AbortDisconnected, Abort
<1>9. ASSUME NEW e \in Execs, AbortCancelled(e) PROVE OrderInv'
  BY <1>9, DropKeepsOrder DEF AbortCancelled, Abort
<1>10. ASSUME NEW e \in Execs, SpawnFails(e) PROVE OrderInv'
  BY <1>10, DropKeepsOrder DEF SpawnFails, Abort
<1>11. ASSUME NEW e \in Execs, CancelWins(e) PROVE OrderInv'
  BY <1>11, DropKeepsOrder DEF CancelWins, Selecting, EndDrive
<1>12. ASSUME NEW e \in Execs, DisconnectWins(e) PROVE OrderInv'
  BY <1>12, DropKeepsOrder DEF DisconnectWins, Selecting, EndDrive
<1>13. ASSUME NEW e \in Execs, DeadlineWins(e) PROVE OrderInv'
  BY <1>13, DropKeepsOrder DEF DeadlineWins, Selecting, EndDrive
<1>14. ASSUME NEW e \in Execs, ChildWaited(e) PROVE OrderInv'
  BY <1>14, DropKeepsOrder DEF ChildWaited
<1>15. ASSUME NEW e \in Execs, ReadFails(e) PROVE OrderInv'
  BY <1>15, DropKeepsOrder DEF ReadFails, EndDrive
<1>16. ASSUME NEW e \in Execs, DriveCompletes(e) PROVE OrderInv'
  BY <1>16, DropKeepsOrder DEF DriveCompletes, EndDrive
<1>17. ASSUME NEW e \in Execs, WriterErrs(e) PROVE OrderInv'
  BY <1>17, DropKeepsOrder DEF WriterErrs, EndDrive
<1>18. ASSUME NEW e \in Execs, WriterGetsEof(e) PROVE OrderInv'
  <2>1. /\ writer'[e] = "ending" /\ UNCHANGED <<writing, written, accepted>>
    BY <1>18 DEF WriterGetsEof, WriterOnly
  <2>2. \A f \in Execs \ {e} : /\ writer'[f] = writer[f] /\ queue'[f] = queue[f]
                               /\ writing'[f] = writing[f]
                               /\ written'[f] = written[f] /\ accepted'[f] = accepted[f]
    BY <1>18 DEF WriterGetsEof, WriterOnly
  <2> HIDE DEF TypeInv, OrderInv, OrderOk
  <2>4. \A f \in Execs : OrderOk(f) /\ Len(written[f]) \in Nat /\ Len(accepted[f]) \in Nat
    BY DEF TypeInv, TypeOK, OrderInv
  <2>5. OrderOk(e)'
    <3>1. OrderOk(e) /\ Len(written[e]) \in Nat /\ Len(accepted[e]) \in Nat
      BY <2>4
    <3> QED
      BY <2>1, <3>1, HeldFacts, ConstantsAssumption DEF OrderOk
  <2>6. ASSUME NEW f \in Execs \ {e} PROVE OrderOk(f)'
    <3>1. OrderOk(f) /\ Len(written[f]) \in Nat /\ Len(accepted[f]) \in Nat
      BY <2>4
    <3>2. /\ writer'[f] = writer[f] /\ queue'[f] = queue[f] /\ writing'[f] = writing[f]
          /\ written'[f] = written[f] /\ accepted'[f] = accepted[f]
      BY <2>2
    <3> QED
      BY <3>1, <3>2 DEF OrderOk
  <2> QED
    BY <2>5, <2>6 DEF OrderInv
<1>19. ASSUME NEW e \in Execs, WriterGetsData(e) PROVE OrderInv'
  <2>1. /\ writer[e] = "receiving" /\ writer'[e] = "writing"
        /\ queue'[e] = NoCall /\ queue[e] \in Submits
        /\ writing'[e] = queue[e] /\ UNCHANGED <<written, accepted>>
    BY <1>19 DEF WriterGetsData, WriterOnly
  <2>2. \A f \in Execs \ {e} : /\ writer'[f] = writer[f] /\ queue'[f] = queue[f]
                               /\ writing'[f] = writing[f]
                               /\ written'[f] = written[f] /\ accepted'[f] = accepted[f]
    BY <1>19 DEF WriterGetsData, WriterOnly
  <2>3. writing[e] = NoCall
    BY <2>1 DEF PlaceInv, PlacesOf
  <2> HIDE DEF TypeInv, OrderInv, OrderOk
  <2>4. \A f \in Execs : OrderOk(f) /\ Len(written[f]) \in Nat /\ Len(accepted[f]) \in Nat
    BY DEF TypeInv, TypeOK, OrderInv
  <2>5. OrderOk(e)'
    <3>1. OrderOk(e) /\ Len(written[e]) \in Nat /\ Len(accepted[e]) \in Nat
      BY <2>4
    <3> QED
      BY <2>1, <2>3, <3>1, HeldFacts, ConstantsAssumption DEF OrderOk
  <2>6. ASSUME NEW f \in Execs \ {e} PROVE OrderOk(f)'
    <3>1. OrderOk(f) /\ Len(written[f]) \in Nat /\ Len(accepted[f]) \in Nat
      BY <2>4
    <3>2. /\ writer'[f] = writer[f] /\ queue'[f] = queue[f] /\ writing'[f] = writing[f]
          /\ written'[f] = written[f] /\ accepted'[f] = accepted[f]
      BY <2>2
    <3> QED
      BY <3>1, <3>2 DEF OrderOk
  <2> QED
    BY <2>5, <2>6 DEF OrderInv
<1>20. ASSUME NEW e \in Execs, WriteSucceeds(e) PROVE OrderInv'
  <2>1. /\ writer[e] = "writing" /\ writer'[e] = "receiving" /\ writing[e] \in Submits
        /\ writing'[e] = NoCall /\ UNCHANGED <<queue, accepted>>
        /\ written'[e] = Append(written[e], writing[e])
        /\ written[e] \in Seq(Submits)
    BY <1>20 DEF WriteSucceeds, WriterOnly
  <2>2. \A f \in Execs \ {e} : /\ writer'[f] = writer[f] /\ queue'[f] = queue[f]
                               /\ writing'[f] = writing[f]
                               /\ written'[f] = written[f] /\ accepted'[f] = accepted[f]
    BY <1>20 DEF WriteSucceeds, WriterOnly
  <2>3. /\ Len(written'[e]) = Len(written[e]) + 1 /\ Len(written[e]) \in Nat
        /\ \A n \in 1..Len(written[e]) : written'[e][n] = written[e][n]
        /\ written'[e][Len(written[e]) + 1] = writing[e]
    BY <2>1, AppendProperties
  <2> HIDE DEF TypeInv, OrderInv, OrderOk
  <2>4. \A f \in Execs : OrderOk(f) /\ Len(written[f]) \in Nat /\ Len(accepted[f]) \in Nat
    BY DEF TypeInv, TypeOK, OrderInv
  <2>5. OrderOk(e)'
    <3>1. OrderOk(e) /\ Len(written[e]) \in Nat /\ Len(accepted[e]) \in Nat
      BY <2>4
    <3> QED
      BY <2>1, <2>3, <3>1, HeldFacts, ConstantsAssumption DEF OrderOk
  <2>6. ASSUME NEW f \in Execs \ {e} PROVE OrderOk(f)'
    <3>1. OrderOk(f) /\ Len(written[f]) \in Nat /\ Len(accepted[f]) \in Nat
      BY <2>4
    <3>2. /\ writer'[f] = writer[f] /\ queue'[f] = queue[f] /\ writing'[f] = writing[f]
          /\ written'[f] = written[f] /\ accepted'[f] = accepted[f]
      BY <2>2
    <3> QED
      BY <3>1, <3>2 DEF OrderOk
  <2> QED
    BY <2>5, <2>6 DEF OrderInv
<1>21. ASSUME NEW e \in Execs, WriteBreaks(e) PROVE OrderInv'
  <2>1. /\ writer'[e] = "ending" /\ writing'[e] = NoCall
        /\ UNCHANGED <<queue, written, accepted>>
    BY <1>21 DEF WriteBreaks, WriterStops, WriterOnly
  <2>2. \A f \in Execs \ {e} : /\ writer'[f] = writer[f] /\ queue'[f] = queue[f]
                               /\ writing'[f] = writing[f]
                               /\ written'[f] = written[f] /\ accepted'[f] = accepted[f]
    BY <1>21 DEF WriteBreaks, WriterStops, WriterOnly
  <2> HIDE DEF TypeInv, OrderInv, OrderOk
  <2>4. \A f \in Execs : OrderOk(f) /\ Len(written[f]) \in Nat /\ Len(accepted[f]) \in Nat
    BY DEF TypeInv, TypeOK, OrderInv
  <2>5. OrderOk(e)'
    <3>1. OrderOk(e) /\ Len(written[e]) \in Nat /\ Len(accepted[e]) \in Nat
      BY <2>4
    <3> QED
      BY <2>1, <3>1, HeldFacts, ConstantsAssumption DEF OrderOk
  <2>6. ASSUME NEW f \in Execs \ {e} PROVE OrderOk(f)'
    <3>1. OrderOk(f) /\ Len(written[f]) \in Nat /\ Len(accepted[f]) \in Nat
      BY <2>4
    <3>2. /\ writer'[f] = writer[f] /\ queue'[f] = queue[f] /\ writing'[f] = writing[f]
          /\ written'[f] = written[f] /\ accepted'[f] = accepted[f]
      BY <2>2
    <3> QED
      BY <3>1, <3>2 DEF OrderOk
  <2> QED
    BY <2>5, <2>6 DEF OrderInv
<1>22. ASSUME NEW e \in Execs, WriteFails(e) PROVE OrderInv'
  <2>1. /\ writer'[e] = "failing" /\ writing'[e] = NoCall
        /\ UNCHANGED <<queue, written, accepted>>
    BY <1>22 DEF WriteFails, WriterStops, WriterOnly
  <2>2. \A f \in Execs \ {e} : /\ writer'[f] = writer[f] /\ queue'[f] = queue[f]
                               /\ writing'[f] = writing[f]
                               /\ written'[f] = written[f] /\ accepted'[f] = accepted[f]
    BY <1>22 DEF WriteFails, WriterStops, WriterOnly
  <2> HIDE DEF TypeInv, OrderInv, OrderOk
  <2>4. \A f \in Execs : OrderOk(f) /\ Len(written[f]) \in Nat /\ Len(accepted[f]) \in Nat
    BY DEF TypeInv, TypeOK, OrderInv
  <2>5. OrderOk(e)'
    <3>1. OrderOk(e) /\ Len(written[e]) \in Nat /\ Len(accepted[e]) \in Nat
      BY <2>4
    <3> QED
      BY <2>1, <3>1, HeldFacts, ConstantsAssumption DEF OrderOk
  <2>6. ASSUME NEW f \in Execs \ {e} PROVE OrderOk(f)'
    <3>1. OrderOk(f) /\ Len(written[f]) \in Nat /\ Len(accepted[f]) \in Nat
      BY <2>4
    <3>2. /\ writer'[f] = writer[f] /\ queue'[f] = queue[f] /\ writing'[f] = writing[f]
          /\ written'[f] = written[f] /\ accepted'[f] = accepted[f]
      BY <2>2
    <3> QED
      BY <3>1, <3>2 DEF OrderOk
  <2> QED
    BY <2>5, <2>6 DEF OrderInv
<1>23. ASSUME NEW e \in Execs, WriterEnds(e) PROVE OrderInv'
  BY <1>23, DropKeepsOrder DEF WriterEnds
<1>24. ASSUME NEW c \in Submits, SubmitSends(c) PROVE OrderInv'
  <2>0. PICK e \in Execs : e = subExec[c]
    BY <1>24 DEF SubmitSends
  <2>1. /\ writer[e] # "gone" /\ queue[e] = NoCall /\ queue'[e] = c
        /\ UNCHANGED <<writer, writing, written>>
        /\ accepted'[e] = Append(accepted[e], c)
        /\ accepted[e] \in Seq(Submits)
    BY <1>24, <2>0 DEF SubmitSends, TrySend, SubmitOnly
  <2>2. \A f \in Execs \ {e} : /\ writer'[f] = writer[f] /\ queue'[f] = queue[f]
                               /\ writing'[f] = writing[f]
                               /\ written'[f] = written[f] /\ accepted'[f] = accepted[f]
    BY <1>24, <2>0 DEF SubmitSends, TrySend, SubmitOnly
  <2>3. /\ Len(accepted'[e]) = Len(accepted[e]) + 1 /\ Len(accepted[e]) \in Nat
        /\ \A n \in 1..Len(accepted[e]) : accepted'[e][n] = accepted[e][n]
        /\ accepted'[e][Len(accepted[e]) + 1] = c
    BY <2>1, AppendProperties
  <2> HIDE DEF TypeInv, OrderInv, OrderOk
  <2>4. \A f \in Execs : OrderOk(f) /\ Len(written[f]) \in Nat /\ Len(accepted[f]) \in Nat
    BY DEF TypeInv, TypeOK, OrderInv
  <2>5. OrderOk(e)'
    <3>1. OrderOk(e) /\ Len(written[e]) \in Nat /\ Len(accepted[e]) \in Nat
      BY <2>4
    <3> QED
      BY <2>1, <2>3, <3>1, HeldFacts, ConstantsAssumption DEF OrderOk
  <2>6. ASSUME NEW f \in Execs \ {e} PROVE OrderOk(f)'
    <3>1. OrderOk(f) /\ Len(written[f]) \in Nat /\ Len(accepted[f]) \in Nat
      BY <2>4
    <3>2. /\ writer'[f] = writer[f] /\ queue'[f] = queue[f] /\ writing'[f] = writing[f]
          /\ written'[f] = written[f] /\ accepted'[f] = accepted[f]
      BY <2>2
    <3> QED
      BY <3>1, <3>2 DEF OrderOk
  <2> QED
    BY <2>5, <2>6 DEF OrderInv
<1>25. CASE UNCHANGED vars
  BY <1>25 DEF vars
<1>26. CASE UNCHANGED <<writer, queue, writing, accepted, written>>
  BY <1>26
<1> QED
  BY <1>1, <1>2, <1>3, <1>4, <1>5, <1>6, <1>7, <1>8, <1>9, <1>10, <1>11,
       <1>12, <1>13, <1>14, <1>15, <1>16, <1>17, <1>18, <1>19, <1>20, <1>21,
       <1>22, <1>23, <1>24, <1>25, <1>26 DEF Next, Task,
       Environment, Submit, Cancel

----------------------------------------------------------------------------
(* What the invariants say about the outside *)

\* The part of a sequence that a place stands for.
Part(place) == IF place = NoCall THEN <<>> ELSE <<place>>

\* What a place adds to a sequence of requests.
LEMMA Joined ==
  ASSUME NEW s \in Seq(Submits), NEW p \in Submits \cup {NoCall}
  PROVE  /\ s \o Part(p) \in Seq(Submits)
         /\ Len(s) \in Nat /\ Len(s \o Part(p)) = Len(s) + Held(p)
         /\ \A n \in 1..Len(s) : (s \o Part(p))[n] = s[n]
         /\ p # NoCall => (s \o Part(p))[Len(s) + 1] = p
<1>1. CASE p = NoCall
  BY <1>1, ConcatEmptySeq, HeldFacts DEF Part
<1>2. CASE p # NoCall
  <2>1. s \o Part(p) = Append(s, p)
    BY <1>2, AppendIsConcat DEF Part
  <2> QED
    BY <1>2, <2>1, AppendProperties, HeldFacts
<1> QED
  BY <1>1, <1>2

\* A sequence that agrees with the beginning of another is that beginning.
LEMMA Beginning ==
  ASSUME NEW s \in Seq(Submits), NEW t \in Seq(Submits), Len(s) <= Len(t),
         \A n \in 1..Len(s) : s[n] = t[n]
  PROVE  s = SubSeq(t, 1, Len(s))
<1>1. Len(s) \in Nat /\ Len(t) \in Nat /\ \A n \in 1..Len(t) : t[n] \in Submits
  OBVIOUS
<1>2. \A n \in 1..Len(s) : t[n] \in Submits
  BY <1>1
<1>3. /\ SubSeq(t, 1, Len(s)) \in Seq(Submits)
      /\ Len(SubSeq(t, 1, Len(s))) = IF 1 <= Len(s) THEN Len(s) - 1 + 1 ELSE 0
      /\ \A n \in 1..Len(s) - 1 + 1 : SubSeq(t, 1, Len(s))[n] = t[1 + n - 1]
  BY <1>1, <1>2, SubSeqProperties
<1>4. Len(SubSeq(t, 1, Len(s))) = Len(s)
  BY <1>1, <1>3
<1>5. \A n \in 1..Len(s) : SubSeq(t, 1, Len(s))[n] = s[n]
  BY <1>1, <1>3
<1> QED
  BY <1>3, <1>4, <1>5, SeqEqual

\* The places and the order of requests make InputInOrder.
LEMMA OrderIsInOrder == ASSUME TypeInv, PlaceInv, OrderInv PROVE InputInOrder
<1> SUFFICES ASSUME NEW e \in Execs
             PROVE  LET progress == written[e] \o Part(writing[e])
                    IN  /\ progress = SubSeq(accepted[e], 1, Len(progress))
                        /\ writer[e] \in {"receiving", "writing"} =>
                             accepted[e] = progress \o Part(queue[e])
  BY DEF InputInOrder, Part
<1> DEFINE progress == written[e] \o Part(writing[e])
<1>1. /\ written[e] \in Seq(Submits) /\ accepted[e] \in Seq(Submits)
      /\ writing[e] \in Submits \cup {NoCall} /\ queue[e] \in Submits \cup {NoCall}
  BY DEF TypeInv, TypeOK
<1>2. OrderOk(e)
  BY DEF OrderInv
<1>3. /\ progress \in Seq(Submits)
      /\ Len(written[e]) \in Nat /\ Len(progress) = Len(written[e]) + Held(writing[e])
      /\ \A n \in 1..Len(written[e]) : progress[n] = written[e][n]
      /\ writing[e] # NoCall => progress[Len(written[e]) + 1] = writing[e]
  BY <1>1, Joined
<1> HIDE DEF progress
<1>4. /\ Len(progress) \in Nat /\ Len(accepted[e]) \in Nat
      /\ Len(progress) <= Len(accepted[e])
      /\ \A n \in 1..Len(progress) : progress[n] = accepted[e][n]
  <2>1. Len(progress) \in Nat /\ Len(accepted[e]) \in Nat
    BY <1>1, <1>3
  <2>2. Len(progress) <= Len(accepted[e])
    BY <1>2, <1>3 DEF OrderOk
  <2>3. ASSUME NEW n \in 1..Len(progress) PROVE progress[n] = accepted[e][n]
    <3>1. CASE n \in 1..Len(written[e])
      BY <3>1, <1>2, <1>3 DEF OrderOk
    <3>2. CASE n \notin 1..Len(written[e])
      <4>1. n = Len(written[e]) + 1 /\ writing[e] # NoCall
        BY <3>2, <1>3, HeldFacts
      <4> QED
        BY <4>1, <1>2, <1>3 DEF OrderOk
    <3> QED
      BY <3>1, <3>2
  <2> QED
    BY <2>1, <2>2, <2>3
<1>5. progress = SubSeq(accepted[e], 1, Len(progress))
  BY <1>1, <1>3, <1>4, Beginning
<1>6. ASSUME writer[e] \in {"receiving", "writing"}
      PROVE  accepted[e] = progress \o Part(queue[e])
  <2> DEFINE all == progress \o Part(queue[e])
  <2>1. /\ all \in Seq(Submits) /\ Len(all) = Len(progress) + Held(queue[e])
        /\ \A n \in 1..Len(progress) : all[n] = progress[n]
        /\ queue[e] # NoCall => all[Len(progress) + 1] = queue[e]
    BY <1>1, <1>3, Joined
  <2> HIDE DEF all
  <2>2. /\ Len(accepted[e]) = Len(progress) + Held(queue[e])
        /\ queue[e] # NoCall => accepted[e][Len(accepted[e])] = queue[e]
    BY <1>2, <1>3, <1>6 DEF OrderOk
  <2>3. ASSUME NEW n \in 1..Len(accepted[e]) PROVE accepted[e][n] = all[n]
    <3>1. CASE n \in 1..Len(progress)
      BY <3>1, <1>4, <2>1
    <3>2. CASE n \notin 1..Len(progress)
      <4>1. n = Len(progress) + 1 /\ queue[e] # NoCall
        BY <3>2, <1>4, <2>2, HeldFacts
      <4>2. n = Len(accepted[e])
        BY <4>1, <2>2, HeldFacts
      <4> QED
        BY <4>1, <4>2, <2>1, <2>2
    <3> QED
      BY <3>1, <3>2
  <2>4. accepted[e] = all
    BY <1>1, <2>1, <2>2, <2>3, SeqEqual
  <2> QED
    BY <2>4 DEF all
<1> QED
  BY <1>5, <1>6 DEF progress

\* The child's stdin receives the requests the agent took, in order and without
\* a gap, and "closed: false" is said only of data it has taken (submit,
\* write_input): for any number of executions and of requests racing with the
\* deadline, the exit of the command and each other.
THEOREM InputTheorem == Spec => []InputIsFaithful
<1>1. Init => PlaceInv /\ OrderInv
  <2> SUFFICES ASSUME Init PROVE PlaceInv /\ OrderInv
    OBVIOUS
  <2>1. PlaceInv
    BY DEF Init, PlaceInv, PlacesOf, Whereabouts
  <2>2. \A e \in Execs : /\ accepted[e] = <<>> /\ written[e] = <<>>
                         /\ writing[e] = NoCall /\ queue[e] = NoCall
    BY DEF Init
  <2>3. OrderInv
    BY <2>2, EmptySeq, HeldFacts DEF OrderInv, OrderOk
  <2> QED
    BY <2>1, <2>3
<1>2. IInv /\ PlaceInv /\ OrderInv /\ [Next]_vars => PlaceInv' /\ OrderInv'
  BY PlaceInvStep, OrderInvStep DEF IInv
<1>3. IInv /\ PlaceInv /\ OrderInv => InputIsFaithful
  <2> SUFFICES ASSUME IInv, PlaceInv, OrderInv PROVE InputIsFaithful
    OBVIOUS
  <2>1. InputInOrder
    BY OrderIsInOrder DEF IInv
  <2>2. AcksAreTruthful
    BY DEF PlaceInv, Whereabouts, AcksAreTruthful
  <2> QED
    BY <2>1, <2>2 DEF InputIsFaithful
<1> QED
  BY <1>1, <1>2, <1>3, Invariance, PTL DEF Spec

\* A cancel that returned leaves nothing of the execution it found: neither a
\* process, nor the id, nor exclusivity; and at most one cancel of an execution
\* is credited with it (cancel, Control.mark_cancelled).
THEOREM CancelTheorem == Spec => []CancelMeansGone
<1>1. Init => CancelInv
  BY DEF Init, CancelInv, InputClosedStages
<1>2. IInv /\ CancelInv /\ [Next]_vars => CancelInv'
  BY CancelInvStep DEF IInv
<1>3. IInv /\ CancelInv => CancelMeansGone
  <2> SUFFICES ASSUME IInv, CancelInv, NEW k \in Cancels, canExec[k] # NoExec
               PROVE  LET e == canExec[k] IN
                      /\ can[k] = "answered" =>
                           ~Unreaped(e) /\ entries[id[e]] # e /\ ~guard[e] /\ closed[e]
                      /\ \A l \in Cancels :
                           credited[k] /\ credited[l] /\ canExec[l] = e => k = l
    BY DEF CancelMeansGone
  <2>1. canExec[k] \in Execs
    BY DEF IInv, TypeInv, TypeOK
  <2>2. can[k] = "answered" => done[canExec[k]]
    BY DEF CancelInv
  <2>3. \A l \in Cancels : credited[k] /\ credited[l] /\ canExec[l] = canExec[k] => k = l
    BY DEF CancelInv
  <2> QED
    BY <2>1, <2>2, <2>3, DoneMeansGone
<1> QED
  BY <1>1, <1>2, <1>3, Invariance, PTL DEF Spec

\* The events of an execution are Ready?, chunks, error?, Exit; and whoever has
\* seen the error or the exit finds the command reaped, the id free and
\* exclusivity released (run, drive, Registration::drop).
THEOREM OutputTheorem == Spec => []OutputProtocol
<1>1. Init => CancelInv /\ EventsInv
  <2> SUFFICES ASSUME Init PROVE CancelInv /\ EventsInv
    OBVIOUS
  <2>1. CancelInv
    BY DEF Init, CancelInv, InputClosedStages
  <2>2. \A e \in Execs : sent[e] = <<>> /\ stage[e] = "new"
    BY DEF Init
  <2> QED
    BY <2>1, <2>2, EmptySeq DEF EventsInv, EventsOk
<1>2. IInv /\ CancelInv /\ EventsInv /\ [Next]_vars => CancelInv' /\ EventsInv'
  BY CancelInvStep, EventsInvStep DEF IInv
<1>3. IInv /\ CancelInv /\ EventsInv => OutputProtocol
  <2> SUFFICES ASSUME IInv, CancelInv, EventsInv,
                      NEW e \in Execs, NEW n \in 1..Len(sent[e])
               PROVE  /\ sent[e][n] = "ready" => n = 1
                      /\ sent[e][n] = "chunk" => sent[e][1] = "ready"
                      /\ sent[e][n] = "exit" => n = Len(sent[e])
                      /\ sent[e][n] = "error" =>
                           n >= Len(sent[e]) - 1 /\ outcome[e] = "failed"
                      /\ sent[e][n] \in {"error", "exit"} =>
                           done[e] /\ entries[id[e]] # e /\ ~guard[e] /\ ~Unreaped(e)
    BY DEF OutputProtocol
  <2>1. EventsOk(e)
    BY DEF EventsInv
  <2>2. Len(sent[e]) \in Nat
    BY DEF IInv, TypeInv, TypeOK
  <2>3. sent[e][n] \in {"error", "exit"} => done[e]
    BY <2>1 DEF EventsOk
  <2>4. done[e] => entries[id[e]] # e /\ ~guard[e] /\ ~Unreaped(e)
    BY DoneMeansGone
  <2> QED
    BY <2>1, <2>2, <2>3, <2>4 DEF EventsOk
<1> QED
  BY <1>1, <1>2, <1>3, Invariance, PTL DEF Spec

\* A done execution has left no process of its group, unless every signal to the
\* group failed: ProcessGroup is armed from the spawn to the first kill that
\* succeeds, and its drop tries once more.
THEOREM DescendantsTheorem == Spec => []DescendantsDie
<1>1. Init => KinInv
  BY DEF Init, KinInv
<1>2. IInv /\ KinInv /\ [Next]_vars => KinInv'
  BY KinInvStep DEF IInv, TypeInv
<1>3. KinInv => DescendantsDie
  BY DEF KinInv, DescendantsDie
<1> QED
  BY <1>1, <1>2, <1>3, Invariance, PTL DEF Spec
=============================================================================
