--------------------------- MODULE MCAgentLifecycle ---------------------------
(* An instance of AgentLifecycle for TLC. *)
EXTENDS AgentLifecycle, TLC

CONSTANTS i1, i2, p1, p2

=============================================================================
