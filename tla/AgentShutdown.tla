--------------------------- MODULE AgentShutdown ---------------------------
(***************************************************************************)
(* App.Shutdown (internal/app/app.go) on top of the dispatcher: CancelAll  *)
(* cancels the sessions it finds busy, waits until it sees none, at most   *)
(* five seconds, and then the database is closed.                          *)
(*                                                                         *)
(* Clients are taken to have stopped: nothing is submitted any more once   *)
(* the shutdown has begun.                                                 *)
(***************************************************************************)
EXTENDS SessionAgent

VARIABLES
    phase,      \* how far Shutdown is
    toCancel,   \* sessions CancelAll still has to cancel
    timedOut,   \* the wait of CancelAll was cut short
    underWay,   \* history: goroutines in a turn when Shutdown was called
    reached     \* history: the entries CancelAll cancelled

shutdownVars == <<phase, toCancel, timedOut, underWay, reached>>
allVars == <<vars, shutdownVars>>

Busy == {s \in Session : active[s] # NoRun}

SInit ==
    /\ Init
    /\ phase = "up"
    /\ toCancel = {}
    /\ timedOut = FALSE
    /\ underWay = {}
    /\ reached = {}

(* CancelAll returns at once when no session is busy ...                   *)
Shutdown ==
    /\ phase = "up"
    /\ phase' = IF Busy = {} THEN "closing" ELSE "snapshot"
    /\ underWay' = {g \in Goroutine : InTurn(g)}
    /\ UNCHANGED <<vars, toCancel, timedOut, reached>>

(* ... and else goes over a copy of activeRequests.                        *)
Snapshot ==
    /\ phase = "snapshot"
    /\ toCancel' = Busy
    /\ phase' = "cancelling"
    /\ UNCHANGED <<vars, timedOut, underWay, reached>>

CancelOne(s) ==
    /\ phase = "cancelling"
    /\ s \in toCancel
    /\ toCancel' = toCancel \ {s}
    /\ IF active[s] = NoRun /\ queue[s] = <<>> THEN UNCHANGED vars ELSE Cancel(s)
    /\ reached' = reached \union ({active[s]} \ {NoRun})
    /\ UNCHANGED <<phase, timedOut, underWay>>

AllCancelled ==
    /\ phase = "cancelling"
    /\ toCancel = {}
    /\ phase' = "waiting"
    /\ UNCHANGED <<vars, toCancel, timedOut, underWay, reached>>

(* The wait ends when a poll sees no busy session, or by the timer.        *)
WaitEnds ==
    /\ phase = "waiting"
    /\ Busy = {}
    /\ phase' = "closing"
    /\ UNCHANGED <<vars, toCancel, timedOut, underWay, reached>>

WaitTimesOut ==
    /\ phase = "waiting"
    /\ Busy # {}
    /\ phase' = "closing"
    /\ timedOut' = TRUE
    /\ UNCHANGED <<vars, toCancel, underWay, reached>>

(* One of the cleanup functions closes the database.                       *)
CloseDatabase ==
    /\ phase = "closing"
    /\ phase' = "closed"
    /\ UNCHANGED <<vars, toCancel, timedOut, underWay, reached>>

ShutdownStep ==
    \/ Shutdown \/ Snapshot \/ AllCancelled \/ WaitEnds \/ CloseDatabase
    \/ \E s \in Session : CancelOne(s)

(* What the goroutines do meanwhile; users are there before the shutdown.  *)
AgentStep ==
    /\ \/ \E p \in Prompt : RunStep(p) \/ FinishTitle(p)
       \/ \E g \in Goroutine : SummaryStep(g)
       \/ phase = "up" /\ \E p \in Prompt : Submit(p)
       \/ phase = "up" /\ \E s \in Session : Cancel(s)
    /\ UNCHANGED shutdownVars

Closed == phase = "closed" /\ UNCHANGED allVars

SNext == ShutdownStep \/ WaitTimesOut \/ AgentStep \/ Closed

(* As in SessionAgent; the shutdown, once begun, goes on by itself.  The   *)
(* timer owes nothing: what is shown does not lean on it.                  *)
SSpec ==
    /\ SInit /\ [][SNext]_allVars
    /\ \A p \in Prompt : WF_allVars(RunStep(p) /\ UNCHANGED shutdownVars)
    /\ \A p \in Prompt : WF_allVars(FinishTitle(p) /\ UNCHANGED shutdownVars)
    /\ \A g \in Goroutine : WF_allVars(SummaryStep(g) /\ UNCHANGED shutdownVars)
    /\ WF_allVars(phase # "up" /\ ShutdownStep)
-----------------------------------------------------------------------------
(* A turn that CancelAll reached has ended, its error handling included,   *)
(* before the database is closed (the comment at agent.go 1133-1136).      *)
StillIn(t) ==
    /\ depth[t.run] = t.depth
    /\ pc[t.run] \in IF t.kind = "run" THEN TurnLabels ELSE {"summarizing"}

CancelledTurnsEnd ==
    phase = "closed" /\ ~timedOut => \A t \in reached : ~StillIn(t)

(* "Cancel all agents and wait for them to finish.  This must complete     *)
(* before closing the DB so agents can finish writing their state"         *)
(* (app.go 615-616): no goroutine that was in a turn when the shutdown     *)
(* began works on the closed database.                                     *)
AgentsFinishBeforeClose ==
    phase = "closed" /\ ~timedOut =>
        \A p \in underWay \intersect Prompt : ~InTurn(p) /\ title[p] = 0

(* The wait of CancelAll ends without its timer, unless a session became   *)
(* busy again with a run that CancelAll has not cancelled: whatever it     *)
(* cancelled does come to its end.                                         *)
CancelledRunsLetGo ==
    phase = "waiting" ~>
        \/ phase = "closing"
        \/ \E s \in Busy : active[s] \notin reached
=============================================================================
