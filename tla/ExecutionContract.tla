------------------------- MODULE ExecutionContract -------------------------
(***************************************************************************)
(* What the guest agent promises about executions with stdin, without how: *)
(* an execution owns its id, and the exclusive lease if it asked for it,   *)
(* from before its process starts until after its process is gone; the     *)
(* lease is never shared, with a command without stdin (Other) either.     *)
(* StdinExecution implements this contract (see Contract there).           *)
(***************************************************************************)
CONSTANTS Ids, Execs, NoExec, Other

VARIABLES
    names,      \* which execution owns an id
    leases,     \* who holds the exclusive lease: nobody, or one holder
    phase,      \* new, active, ending (its id is free) or over
    process,    \* none, up or gone
    id, wants   \* what each execution asked for

vars == <<names, leases, phase, process, id, wants>>

Init ==
    /\ names = [i \in Ids |-> NoExec]
    /\ leases = {}
    /\ phase = [e \in Execs |-> "new"]
    /\ process = [e \in Execs |-> "none"]
    /\ id \in [Execs -> Ids] /\ wants \in [Execs -> BOOLEAN]

Admit(e) ==
    /\ phase[e] = "new" /\ names[id[e]] = NoExec /\ leases = {}
    /\ names' = [names EXCEPT ![id[e]] = e]
    /\ leases' = IF wants[e] THEN {e} ELSE {}
    /\ phase' = [phase EXCEPT ![e] = "active"]
    /\ UNCHANGED <<process, id, wants>>

Launch(e) ==
    /\ phase[e] = "active" /\ process[e] = "none"
    /\ process' = [process EXCEPT ![e] = "up"]
    /\ UNCHANGED <<names, leases, phase, id, wants>>

Collapse(e) ==
    /\ phase[e] = "active" /\ process[e] = "up"
    /\ process' = [process EXCEPT ![e] = "gone"]
    /\ UNCHANGED <<names, leases, phase, id, wants>>

Retire(e) ==
    /\ phase[e] = "active" /\ process[e] # "up" /\ names[id[e]] = e
    /\ names' = [names EXCEPT ![id[e]] = NoExec]
    /\ phase' = [phase EXCEPT ![e] = "ending"]
    /\ UNCHANGED <<leases, process, id, wants>>

Yield(e) ==
    /\ phase[e] = "ending"
    /\ leases' = leases \ {e}
    /\ phase' = [phase EXCEPT ![e] = "over"]
    /\ UNCHANGED <<names, process, id, wants>>

OtherClaims ==
    /\ leases = {} /\ leases' = {Other}
    /\ UNCHANGED <<names, phase, process, id, wants>>
OtherReleases ==
    /\ Other \in leases /\ leases' = leases \ {Other}
    /\ UNCHANGED <<names, phase, process, id, wants>>

Next ==
    \/ \E e \in Execs :
         Admit(e) \/ Launch(e) \/ Collapse(e) \/ Retire(e) \/ Yield(e)
    \/ OtherClaims \/ OtherReleases

Spec == Init /\ [][Next]_vars
=============================================================================
