-------------------------- MODULE MCAgentLifecycle --------------------------
(***************************************************************************)
(* An instance of AgentLifecycle for TLC.                                   *)
(***************************************************************************)
EXTENDS AgentLifecycle

CONSTANTS w1, w2, main, r1, r2, h1
=============================================================================
