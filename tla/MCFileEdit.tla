----------------------------- MODULE MCFileEdit -----------------------------
(* Small instances of FileEdit for TLC.                                    *)
EXTENDS FileEdit, TLC

Symmetric == Permutations(Session)
Windows == {TRUE}
Unix == {FALSE}

=============================================================================
