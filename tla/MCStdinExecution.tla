-------------------------- MODULE MCStdinExecution --------------------------
(* Small instances of StdinExecution. *)
EXTENDS StdinExecution, TLC

\* Ids are interchangeable; executions are not, for Forking tells them apart.
Symmetry == Permutations(Ids)

\* Nobody takes the events of an execution.  Without chunks there is room for the
\* first of them, and the others are sent when it is out of the registry.
Unread == \A e \in Execs : taken[e] = 0
=============================================================================
