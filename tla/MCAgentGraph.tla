---- MODULE MCAgentGraph ----
(* A small instance of AgentGraph: one read call, two different write calls. *)
EXTENDS AgentGraph

CONSTANTS read, patch, command

MCReadCalls == {read}
MCWriteCalls == {patch, command}
====
