---------------------------- MODULE MCAgentClient ----------------------------
(* Small instances of AgentClient: the sets of its requests are in the cfg. *)
EXTENDS AgentClient, TLC

\* The connection is lost or the agent dies; both are steps nothing obliges to
\* happen, and only they lead out.
OneMishap == drops + crashes <= 1
=============================================================================
