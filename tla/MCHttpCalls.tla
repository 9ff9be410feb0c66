----------------------------- MODULE MCHttpCalls -----------------------------
(* A call with input beside a plain one or a stream, with everything that   *)
(* can be lost, and two calls with input one after the other.               *)
EXTENDS HttpCalls, TLC

CONSTANTS c1, c2

Session(k1, k2, n, e, f, faults, refusals, timeouts, cuts, closings) ==
    [kind |-> (c1 :> k1 @@ c2 :> k2), chunks |-> n, ends |-> e, filter |-> f,
     faults |-> faults, refusals |-> refusals, timeouts |-> timeouts, cuts |-> cuts,
     closings |-> closings]
MCCalls == {c1, c2}
MCSessions ==
    {Session("stdin", "plain", 2, "eof", TRUE, 0, 0, 0, 0, 0),
     Session("stdin", "plain", 2, "eof", FALSE, 2, 1, 0, 0, 0),
     Session("stdin", "plain", 1, "eof", TRUE, 0, 0, 1, 1, 0),
     Session("stdin", "plain", 1, "stalls", TRUE, 0, 0, 2, 0, 1),
     Session("stdin", "stream", 1, "raises", FALSE, 0, 1, 1, 1, 0),
     Session("stdin", "stdin", 1, "eof", TRUE, 1, 0, 1, 0, 0),
     Session("plain", "stream", 0, "eof", TRUE, 2, 1, 1, 1, 1)}
=============================================================================
