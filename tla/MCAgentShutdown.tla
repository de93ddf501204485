-------------------------- MODULE MCAgentShutdown --------------------------
(* Two prompts to one session; a prompt may be resumed once.               *)
EXTENDS AgentShutdown
CONSTANTS s1
OneSession == [g \in Goroutine |-> s1]
=============================================================================
