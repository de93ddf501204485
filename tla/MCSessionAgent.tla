--------------------------- MODULE MCSessionAgent ---------------------------
(* Small instances of SessionAgent for TLC: every goroutine is about the   *)
(* same session, where all the interplay is.                               *)
EXTENDS SessionAgent, FiniteSets, TLC

CONSTANTS s1

OneSession == [g \in Goroutine |-> s1]

PromptSymmetry == Permutations(Prompt)

=============================================================================
