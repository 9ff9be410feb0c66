------------------------------ MODULE MCMounts ------------------------------
(* Two callers beside start(), with each of the servers.                    *)
EXTENDS Mounts

Session(k, p, n, f) == [kind |-> k, plan |-> p, shares |-> n, faults |-> f]
MCSessions ==
    {Session("guestfwd", <<"9p", "cifs", "cifs">>, 1, 2),
     Session("tcp", <<>>, 1, 1),
     Session("windows", <<"cifs", "cifs">>, 1, 1)}
=============================================================================
