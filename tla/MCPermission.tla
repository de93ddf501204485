---------------------------- MODULE MCPermission ----------------------------
(* Two calls of one session that ask for the same thing.                   *)
EXTENDS Permission, TLC
CONSTANTS c1, c2, s1, k1

OneSession == [c \in Call |-> s1]
OneKey == [c \in Call |-> k1]
=============================================================================
