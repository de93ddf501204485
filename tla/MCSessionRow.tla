---------------------------- MODULE MCSessionRow ----------------------------
(* A session and two sub-agents that its turns run in parallel.  The sub-  *)
(* agents make one step each and are too short to be summarized.           *)
EXTENDS SessionRow, TLC
CONSTANTS main, sub1, sub2

TwoSubs == [s \in Session |-> IF s = main THEN NoSession ELSE main]
StepsOf == [s \in Session |-> IF s = main THEN 2 ELSE 1]
SummariesOf == [s \in Session |-> IF s = main THEN 1 ELSE 0]
SubSymmetry == Permutations({sub1, sub2})
=============================================================================
