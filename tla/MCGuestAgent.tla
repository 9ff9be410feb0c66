---------------------------- MODULE MCGuestAgent ----------------------------
(* Three requests: commands that contend for the flag and for threads, or   *)
(* the account of one user with another's and a command.                    *)
EXTENDS GuestAgent

Work(k, x, n) == [kind |-> k, exclusive |-> x, name |-> n]
Plain(k) == Work(k, FALSE, Root)
Alone(k) == Work(k, TRUE, Root)
MCAgendas ==
    {<<Alone("execute"), Alone("stream"), Plain("execute")>>,
     <<Alone("execute"), Plain("stream"), Plain("execute")>>,
     <<Alone("stream"), Plain("execute"), Plain("execute")>>}
    \cup {<<Work(k, FALSE, "ann"), Work("create", FALSE, "bob"), Work(l, FALSE, n)>> :
            k \in {"create", "delete"}, l \in {"create", "delete", "execute"},
            n \in {"ann", "bob"}}
=============================================================================
