----------------------------- MODULE MCToolTurn -----------------------------
(* A turn with two tools, one of which asks for permission, and three      *)
(* hooks, two of which are the same command.                               *)
EXTENDS ToolTurn, TLC
CONSTANTS edit, view, guard, style, k1, k2, v0, v1, v2

TwoTools == {edit, view}
SomeInputs == {k1 :> v0, NotObject}
Patches == {NoPatch, NotObject, k1 :> v1, k1 :> v2 @@ k2 :> v2}

ThreeHooks == <<[command |-> guard, tools |-> {edit}],
                [command |-> style, tools |-> {edit, view}],
                [command |-> guard, tools |-> {edit, view}]>>

Says(decision, halt, patch) ==
    [decision |-> decision, halt |-> halt, updatedInput |-> patch]

(* guard blocks or rewrites; style halts without denying, or allows  *)
(* with or without rewriting.                                              *)
Answers ==
    guard :> {Says("deny", FALSE, NoPatch), Says("none", FALSE, k1 :> v1),
              Says("none", FALSE, NotObject)}
    @@ style :> {Says("none", TRUE, NoPatch), Says("allow", FALSE, NoPatch),
                 Says("allow", FALSE, k1 :> v2 @@ k2 :> v2)}

=============================================================================
