--------------------------- MODULE MCAgentSession ---------------------------
(* An instance of AgentSession for TLC: a launch, a start-agent and an inject. *)
EXTENDS AgentSession, TLC

CONSTANTS l, s, i

AllCommands == (l :> "launch") @@ (s :> "start") @@ (i :> "inject")
=============================================================================
