-------------------------- MODULE MCStdinRequests ---------------------------
(* One execution with all the requests the host makes of it. *)
EXTENDS StdinExecution

(***************************************************************************)
(* Stdin requests and cancels in behaviours of their own, and cancel_all   *)
(* beside one cancel at most, for a state space of a size to check         *)
(* liveness in.  Only steps of the host that no fairness is assumed of     *)
(* lead out of Apart: requests and cancels that begin, cancel_all, and a   *)
(* consumer that takes events or leaves.  An exclusive execution gets no   *)
(* input here: the flag is of no moment to it.                             *)
(***************************************************************************)
InputBegan == \E c \in Submits : sub[c] # "new"
EndBegan ==
    \/ stopping \/ \E e \in Execs : exclusive[e]
    \/ \E k \in Cancels : can[k] # "new"
    \/ \E e \in Execs : taken[e] > 0 \/ ~attached[e]
Apart ==
    /\ ~(InputBegan /\ EndBegan)
    /\ ~(stopping /\ \A k \in Cancels : can[k] # "new")
=============================================================================
