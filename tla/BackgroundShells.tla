-------------------------- MODULE BackgroundShells --------------------------
(***************************************************************************)
(* Background shells: the manager of internal/shell/background.go with the *)
(* tools that use it (internal/agent/tools/bash.go, job_kill.go) and the   *)
(* KillAll of the application's shutdown.  The manager is one per process, *)
(* so tool calls of different sessions meet in it.                         *)
(*                                                                         *)
(* A Job is a call of the bash tool and the shell it starts.  Commands and *)
(* their output are left out; a shell runs until it ends or its context is *)
(* cancelled and it obeys.  Some do not obey: a command may trap signals   *)
(* (background_test.go 294), and the jq builtin is not given the context   *)
(* (shell.go 256-258).                                                     *)
(***************************************************************************)
EXTENDS Naturals, FiniteSets

CONSTANTS
    Job,                \* calls of the bash tool
    Killer,             \* calls of the job_kill tool
    Stubborn,           \* those whose command ignores its cancellation
    MaxBackgroundJobs,
    Exiting             \* may the application shut down?

ASSUME StubbornJobs == Stubborn \subseteq Job
ASSUME MaxBackgroundJobsNat == MaxBackgroundJobs \in Nat
ASSUME ExitingBool == Exiting \in BOOLEAN

VARIABLES
    shells,     \* keys of the manager's map
    proc,       \* the goroutine that runs each shell
    stopped,    \* shells whose context is cancelled
    expired,    \* shells that ended longer ago than the retention period
    pc,         \* where each call of the bash tool is
    ctxDone,    \* calls whose context is cancelled
    sweep,      \* what the Cleanup of each call has still to remove
    kpc,        \* where each call of job_kill is
    target,     \* the shell it is about
    phase,      \* how far KillAll is
    collected,  \* the shells KillAll has found
    late        \* history: shells started between its copy and its reset

jobVars == <<proc, stopped, expired>>
toolVars == <<pc, ctxDone, sweep>>
killVars == <<kpc, target>>
exitVars == <<phase, collected, late>>
vars == <<shells, jobVars, toolVars, killVars, exitVars>>

Goto(j, label) == pc' = [pc EXCEPT ![j] = label]
GotoKill(k, label) == kpc' = [kpc EXCEPT ![k] = label]

(* completedAt is set and lies before the retention period.  Mutant: the   *)
(* zero of a running shell passes for a very old time.                     *)
NotRecent(j) == proc[j] = "running" \/ j \in expired
Expired(j) == j \in expired

(* Take, cancel: what Kill does before it waits.  Nobody can tell a shell  *)
(* that is off the map and not yet cancelled from a cancelled one.         *)
(* Mutant: the shell is forgotten without being cancelled.                 *)
Forget(j) == shells' = shells \ {j} /\ UNCHANGED stopped
Terminate(j) ==
    /\ shells' = shells \ {j}
    /\ stopped' = stopped \union {j}

(* <-shell.done.  Mutant: Kill does not wait.                              *)
NoWait(j) == TRUE
Gone(j) == proc[j] = "exited"

Init ==
    /\ shells = {}
    /\ proc = [j \in Job |-> "none"]
    /\ stopped = {}
    /\ expired = {}
    /\ pc = [j \in Job |-> "idle"]
    /\ ctxDone = {}
    /\ sweep = [j \in Job |-> {}]
    /\ kpc = [k \in Killer |-> "idle"]
    /\ target \in [Killer -> Job]
    /\ phase = "up"
    /\ collected = {}
    /\ late = {}

-----------------------------------------------------------------------------
(* The bash tool: Cleanup over a copy of the map, one Remove at a time.    *)
Call(j) ==
    /\ pc[j] = "idle"
    /\ sweep' = [sweep EXCEPT ![j] = {i \in shells : Expired(i)}]
    /\ Goto(j, "sweep")
    /\ UNCHANGED <<shells, jobVars, ctxDone, killVars, exitVars>>

RemoveExpired(j, i) ==
    /\ pc[j] = "sweep"
    /\ i \in sweep[j]
    /\ shells' = shells \ {i}
    /\ sweep' = [sweep EXCEPT ![j] = @ \ {i}]
    /\ UNCHANGED <<jobVars, pc, ctxDone, killVars, exitVars>>

(* Start: the limit is looked at first, the shell is entered later.        *)
CheckLimit(j) ==
    /\ pc[j] = "sweep"
    /\ sweep[j] = {}
    /\ Goto(j, IF Cardinality(shells) >= MaxBackgroundJobs THEN "refused" ELSE "start")
    /\ UNCHANGED <<shells, jobVars, ctxDone, sweep, killVars, exitVars>>

Start(j) ==
    /\ pc[j] = "start"
    /\ shells' = shells \union {j}
    /\ proc' = [proc EXCEPT ![j] = "running"]
    /\ Goto(j, "wait")
    /\ late' = IF phase = "reset" THEN late \union {j} ELSE late
    /\ UNCHANGED <<stopped, expired, ctxDone, sweep, killVars, phase, collected>>

(* The tool finds the shell done and takes it off the map ...              *)
SeeDone(j) ==
    /\ pc[j] = "wait"
    /\ Gone(j)
    /\ Goto(j, "remove")
    /\ UNCHANGED <<shells, jobVars, ctxDone, sweep, killVars, exitVars>>

Remove(j) ==
    /\ pc[j] = "remove"
    /\ shells' = shells \ {j}
    /\ Goto(j, "returned")
    /\ UNCHANGED <<jobVars, ctxDone, sweep, killVars, exitVars>>

(* ... or its time is over and it leaves the shell to run, telling its ID  *)
(* (at once, but for a second, when asked to run in the background) ...    *)
MoveToBackground(j) ==
    /\ pc[j] = "wait"
    /\ ~Gone(j)
    /\ Goto(j, "background")
    /\ UNCHANGED <<shells, jobVars, ctxDone, sweep, killVars, exitVars>>

(* ... or the run is cancelled and it kills the shell.                     *)
ToolKill(j) ==
    /\ pc[j] = "wait"
    /\ j \in ctxDone
    /\ IF j \in shells
         THEN Terminate(j) /\ Goto(j, "kill")
         ELSE Goto(j, "cancelled") /\ UNCHANGED <<shells, stopped>>
    /\ UNCHANGED <<proc, expired, ctxDone, sweep, killVars, exitVars>>

ToolKillReturns(j) ==
    /\ pc[j] = "kill"
    /\ Gone(j)
    /\ Goto(j, "cancelled")
    /\ UNCHANGED <<shells, jobVars, ctxDone, sweep, killVars, exitVars>>

CancelContext(j) ==
    /\ pc[j] \in {"idle", "sweep", "start", "wait"}
    /\ ctxDone' = ctxDone \union {j}
    /\ UNCHANGED <<shells, jobVars, pc, sweep, killVars, exitVars>>

-----------------------------------------------------------------------------
(* The command ends, by itself or because its context is cancelled.        *)
Exit(j) ==
    /\ proc[j] = "running"
    /\ proc' = [proc EXCEPT ![j] = "exited"]
    /\ UNCHANGED <<shells, stopped, expired, toolVars, killVars, exitVars>>

(* Eight hours pass.                                                       *)
Expire(j) ==
    /\ proc[j] = "exited"
    /\ expired' = expired \union {j}
    /\ UNCHANGED <<shells, proc, stopped, toolVars, killVars, exitVars>>

-----------------------------------------------------------------------------
(* job_kill: Get, then Kill, which looks the shell up again.               *)
JobKill(k) ==
    /\ kpc[k] = "idle"
    /\ target[k] \in shells
    /\ GotoKill(k, "take")
    /\ UNCHANGED <<shells, jobVars, toolVars, target, exitVars>>

KillTake(k) ==
    /\ kpc[k] = "take"
    /\ IF target[k] \in shells
         THEN Terminate(target[k]) /\ GotoKill(k, "kill")
         ELSE GotoKill(k, "notFound") /\ UNCHANGED <<shells, stopped>>
    /\ UNCHANGED <<proc, expired, toolVars, target, exitVars>>

KillReturns(k) ==
    /\ kpc[k] = "kill"
    /\ Gone(target[k])
    /\ GotoKill(k, "killed")
    /\ UNCHANGED <<shells, jobVars, toolVars, target, exitVars>>

-----------------------------------------------------------------------------
(* KillAll: copy the map, empty it, cancel what was copied, and wait for   *)
(* it as long as the context allows: it may return before the shells end.  *)
Collect ==
    /\ Exiting
    /\ phase = "up"
    /\ collected' = shells
    /\ phase' = "reset"
    /\ UNCHANGED <<shells, jobVars, toolVars, killVars, late>>

Reset ==
    /\ phase = "reset"
    /\ shells' = {}
    /\ phase' = "cancel"
    /\ UNCHANGED <<jobVars, toolVars, killVars, collected, late>>

CancelCollected(j) ==
    /\ phase = "cancel"
    /\ j \in collected \ stopped
    /\ stopped' = stopped \union {j}
    /\ UNCHANGED <<shells, proc, expired, toolVars, killVars, exitVars>>

KillAllReturns ==
    /\ phase = "cancel"
    /\ collected \subseteq stopped
    /\ phase' = "down"
    /\ UNCHANGED <<shells, jobVars, toolVars, killVars, collected, late>>

-----------------------------------------------------------------------------
ToolStep(j) ==
    \/ \E i \in Job : RemoveExpired(j, i)
    \/ CheckLimit(j) \/ Start(j) \/ SeeDone(j) \/ Remove(j)
    \/ MoveToBackground(j) \/ ToolKill(j) \/ ToolKillReturns(j)

KillStep(k) == KillTake(k) \/ KillReturns(k)

KillAllStep == Reset \/ (\E j \in Job : CancelCollected(j)) \/ KillAllReturns

Next ==
    \/ \E j \in Job : Call(j) \/ ToolStep(j) \/ CancelContext(j) \/ Exit(j) \/ Expire(j)
    \/ \E k \in Killer : JobKill(k) \/ KillStep(k)
    \/ Collect \/ KillAllStep

(* Tool calls go on while they can, KillAll's context expires, and a shell *)
(* that obeys ends once it is cancelled.  A shell nobody cancels, and one  *)
(* that ignores its cancellation, may run for ever.                        *)
Fairness ==
    /\ \A j \in Job : WF_vars(ToolStep(j))
    /\ \A j \in Job \ Stubborn : WF_vars(j \in stopped /\ Exit(j))
    /\ \A k \in Killer : WF_vars(KillStep(k))
    /\ WF_vars(KillAllStep)

Spec == Init /\ [][Next]_vars /\ Fairness
-----------------------------------------------------------------------------
TypeOK ==
    /\ shells \in SUBSET Job
    /\ proc \in [Job -> {"none", "running", "exited"}]
    /\ stopped \in SUBSET Job
    /\ expired \in SUBSET Job
    /\ pc \in [Job -> {"idle", "sweep", "start", "wait", "remove", "kill",
                       "refused", "returned", "background", "cancelled"}]
    /\ ctxDone \in SUBSET Job
    /\ sweep \in [Job -> SUBSET Job]
    /\ kpc \in [Killer -> {"idle", "take", "kill", "notFound", "killed"}]
    /\ target \in [Killer -> Job]
    /\ phase \in {"up", "reset", "cancel", "down"}
    /\ collected \in SUBSET Job
    /\ late \in SUBSET Job

(* A running shell can always be reached: it is on the map, where job_kill *)
(* and KillAll find it, or somebody has cancelled it or is about to.       *)
(* Cleanup, the tool's own Remove and a Kill that loses the race never     *)
(* strand one; only a Start that falls into KillAll's gap does.            *)
Doomed == stopped \union late \union (IF phase = "cancel" THEN collected ELSE {})

NoOrphans == \A j \in Job : proc[j] = "running" => j \in shells \union Doomed

(* "KillAll terminates all background shells": once it has returned, no    *)
(* shell that had been started before it emptied the map runs uncancelled. *)
KillAllSparesNone ==
    phase = "down" =>
        \A j \in Job : proc[j] = "running" => j \in shells \union stopped

(* job_kill says "terminated successfully", and a cancelled call of bash   *)
(* returns, only when the shell has ended or another killer is after it    *)
(* (or it is one of those late starts).                                    *)
KilledIsGone ==
    /\ \A k \in Killer : kpc[k] = "killed" => proc[target[k]] = "exited"
    /\ \A j \in Job : pc[j] = "cancelled" => proc[j] = "exited" \/ j \in Doomed

(* Nobody waits for ever for a shell that obeys, whoever removed it from   *)
(* the map first.  For one that does not, Kill's wait has no bound         *)
(* (background.go 153-154), and only KillAll returns in any case.          *)
StuckOn(j) == j \in Stubborn /\ proc[j] = "running"

KillsReturn ==
    /\ \A k \in Killer : kpc[k] = "take" ~>
          \/ kpc[k] \in {"killed", "notFound"}
          \/ kpc[k] = "kill" /\ StuckOn(target[k])
    /\ \A j \in Job : pc[j] = "wait" ~>
          \/ pc[j] \in {"returned", "background", "cancelled"}
          \/ pc[j] = "kill" /\ StuckOn(j)
    /\ phase = "reset" ~> phase = "down"

(* job_kill "immediately terminates the process" (job_kill.md 11): it      *)
(* returns, whatever the shell does.                                       *)
JobKillReturns ==
    \A k \in Killer : kpc[k] = "take" ~> kpc[k] \in {"killed", "notFound"}
=============================================================================
