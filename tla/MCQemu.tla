------------------------------- MODULE MCQemu -------------------------------
(* Two coroutines on one control connection, and every way QEMU may take    *)
(* SIGTERM while a serial console fills up.                                 *)
EXTENDS Qemu

Session(how, what, n, e, c, s) ==
    [manner |-> how, ops |-> what, calls |-> n, events |-> e, errors |-> e,
     cuts |-> c, serial |-> s]
MCSessions ==
    {Session("prompt", {"double", "picture"}, 2, 1, 0, 0),
     Session("prompt", {"click", "picture"}, 2, 0, 1, 0)}
    \cup {Session(how, {"keys"}, 1, 0, 0, 2) : how \in {"prompt", "slow", "stubborn"}}
=============================================================================
