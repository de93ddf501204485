---------------------------- MODULE PromptLedger ----------------------------
(***************************************************************************)
(* The service the agent's dispatcher offers: a prompt handed to a session *)
(* is accepted, and from then on it is admitted to the conversation once,  *)
(* in an open turn of that session, or given up.                           *)
(***************************************************************************)
EXTENDS Naturals

CONSTANTS Session, Prompt, Summarizer, SessionOf, MaxResumes

VARIABLES
    pending,    \* calls accepted and not yet part of the conversation
    admitted,   \* calls that became a user message
    open        \* is a turn of the session open?

Calls == [prompt : Prompt, resumed : 0 .. MaxResumes]

Init ==
    /\ pending = {}
    /\ admitted = {}
    /\ open = [s \in Session |-> FALSE]

(* A call is accepted once; it may open the turn it will run in.           *)
Accept(c) ==
    /\ c \notin pending \union admitted
    /\ pending' = pending \union {c}
    /\ \/ UNCHANGED open
       \/ open' = [open EXCEPT ![SessionOf[c.prompt]] = TRUE]
    /\ UNCHANGED admitted

Admit(c) ==
    /\ c \in pending
    /\ open[SessionOf[c.prompt]]
    /\ pending' = pending \ {c}
    /\ admitted' = admitted \union {c}
    /\ UNCHANGED open

(* Cancelled, cleared, or lost with the turn that had taken them.          *)
GiveUp(calls) ==
    /\ calls # {}
    /\ pending' = pending \ calls
    /\ UNCHANGED <<admitted, open>>

OpenOrClose(s) ==
    /\ open' = [open EXCEPT ![s] = ~@]
    /\ UNCHANGED <<pending, admitted>>

Next ==
    \/ \E c \in Calls : Accept(c) \/ Admit(c)
    \/ \E calls \in SUBSET pending : GiveUp(calls)
    \/ \E s \in Session : OpenOrClose(s)

Spec == Init /\ [][Next]_<<pending, admitted, open>>
=============================================================================
