------------------------- MODULE MCBackgroundShells -------------------------
(* Two shells, and a limit of one: the limit is met, and passed by calls   *)
(* that check it together.  Which shell ignores its cancellation is for    *)
(* the configurations to say.                                              *)
EXTENDS BackgroundShells
=============================================================================
