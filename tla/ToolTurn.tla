------------------------------ MODULE ToolTurn ------------------------------
(***************************************************************************)
(* The tool calls of one turn and what surrounds them: the PreToolUse      *)
(* hooks (internal/hooks and internal/agent/hooked_tool.go), the           *)
(* permission a tool may ask for, and the conditions that end the turn     *)
(* between two steps: a result with StopTurn, and the loop detection of    *)
(* internal/agent/loop_detection.go.                                       *)
(*                                                                         *)
(* The hooks that match a call run in parallel and finish in any order, or *)
(* never; the turn may be cancelled at any moment, which kills them.  A    *)
(* step of the model makes one tool call here.  The texts that hooks add   *)
(* (reasons, context) are left out.  How a permission request is settled   *)
(* is Permission's concern: here it is granted or denied.                  *)
(***************************************************************************)
EXTENDS Naturals, Sequences, FiniteSets, SequencesExt

CONSTANTS
    Tool,       \* the tools
    Asking,     \* those that ask for permission
    Key, Value, \* what JSON objects are made of
    Input,      \* the inputs of calls: objects, or NotObject
    Output,     \* what tools answer
    Patch,      \* updated_input: objects, NotObject or NoPatch
    Hooks,      \* the hooks as configured: [command, tools] records
    Answer,     \* what a command may answer: [Command -> SUBSET HookResult]
    NoPatch,    \* a hook leaves the input alone
    NotObject,  \* a text that is not a JSON object
    None,       \* no verdict yet, no result yet
    windowSize, \* loopDetectionWindowSize
    maxRepeats, \* loopDetectionMaxRepeats
    MaxSteps    \* bound: steps of the turn

Object == UNION {[keys -> Value] : keys \in SUBSET Key}

Decision == {"none", "allow", "deny"}
HookResult == [decision : Decision, halt : BOOLEAN, updatedInput : Patch]
AggregateResult == [decision : Decision, halt : BOOLEAN,
                    input : Object \union {NotObject}]

ToolCall == [tool : Tool, input : Input]
NoOpinion == [decision |-> "none", halt |-> FALSE, updatedInput |-> NoPatch]

ASSUME AskingTools == Asking \subseteq Tool
ASSUME WindowNat == windowSize \in Nat \ {0} /\ maxRepeats \in Nat
ASSUME MaxStepsNat == MaxSteps \in Nat
ASSUME Inputs ==
    /\ Input \subseteq Object \union {NotObject}
    /\ Patch \subseteq Object \union {NotObject, NoPatch}
    /\ NoPatch \in Patch
ASSUME NotAnObject == {NotObject, NoPatch} \intersect Object = {}
ASSUME NoneFresh ==
    None \notin HookResult \union AggregateResult \union ToolCall
ASSUME HooksConfig ==
    /\ Hooks \in Seq([command : DOMAIN Answer, tools : SUBSET Tool])
    /\ \A c \in DOMAIN Answer : Answer[c] \subseteq HookResult

VARIABLES
    phase,      \* model, hooks, ask, run or ended
    call,       \* the tool call the step makes: tool, input
    running,    \* the places in Hooks of those that run for it
    results,    \* what they returned so far, by place
    finished,   \* the order in which they returned
    verdict,    \* the aggregated result
    cancelled,  \* has the turn been cancelled?
    halted,     \* has a result had StopTurn?
    steps       \* the steps made so far, as signatures

hooks == <<running, results, finished>>
vars == <<phase, call, running, results, finished, verdict, cancelled, halted,
          steps>>

Init ==
    /\ phase = "model"
    /\ call = None
    /\ running = {}
    /\ results = [i \in {} |-> None]
    /\ finished = <<>>
    /\ verdict = None
    /\ cancelled = FALSE
    /\ halted = FALSE
    /\ steps = <<>>

-----------------------------------------------------------------------------
(* The hooks of a call.                                                    *)

matchingHooks(tool) == {i \in DOMAIN Hooks : tool \in Hooks[i].tools}

(* Every command once, where it comes first.                               *)
Dedup(matching) ==
    {i \in matching : \A j \in matching :
                          j < i => Hooks[j].command # Hooks[i].command}

(* shallowMerge of two objects whose keys are plain: sjson (hooks.go 181)  *)
(* would take a key with dots as a path, and fail on an empty one.         *)
Overlay(base, patch) ==
    [k \in DOMAIN base \union DOMAIN patch |->
        IF k \in DOMAIN patch THEN patch[k] ELSE base[k]]

(* A patch applies if both it and the input are objects.                   *)
Applies(base, patch) == patch # NoPatch /\ NotObject \notin {base, patch}

Decide(decision, r) ==
    CASE r.decision = "deny" -> "deny"
      [] r.decision = "allow" /\ decision # "deny" -> "allow"
      [] OTHER -> decision

(* One round of the loop of aggregate.                                     *)
Add(agg, r) ==
    [decision |-> Decide(agg.decision, r),
     halt |-> agg.halt \/ r.halt,
     input |-> IF Applies(agg.input, r.updatedInput)
               THEN Overlay(agg.input, r.updatedInput)
               ELSE agg.input]

(* Mutant: results are aggregated in the order in which hooks finish.      *)
InFinishOrder(places) ==
    CHOOSE i \in places :
        \E n \in DOMAIN finished :
            /\ finished[n] = i
            /\ \A m \in n + 1 .. Len(finished) : finished[m] \notin places

(* Of some places, the one whose result is added after the others.         *)
InConfigOrder(places) == Max(places)

aggregate(input) ==
    MapThenFoldSet(LAMBDA r, agg : Add(agg, r),
                   [decision |-> "none", halt |-> FALSE, input |-> input],
                   LAMBDA i : results[i], InConfigOrder, running)

-----------------------------------------------------------------------------
(* A step: the model answers with a tool call.                             *)
BeginCall ==
    /\ phase = "model"
    /\ ~cancelled
    /\ Len(steps) < MaxSteps
    /\ \E tool \in Tool, input \in Input :
          /\ call' = [tool |-> tool, input |-> input]
          /\ running' = Dedup(matchingHooks(tool))
    /\ results' = [i \in running' |-> None]
    /\ phase' = "hooks"
    /\ UNCHANGED <<finished, verdict, cancelled, halted, steps>>

(* The model answers without a tool call, or the stream fails.             *)
EndTurn ==
    /\ phase = "model"
    /\ phase' = "ended"
    /\ UNCHANGED <<call, hooks, verdict, cancelled, halted, steps>>

(* runOne: a command that ends in time answers by its exit code or stdout. *)
Finish(i, result) ==
    /\ results' = [results EXCEPT ![i] = result]
    /\ finished' = Append(finished, i)
    /\ UNCHANGED <<phase, call, running, verdict, cancelled, halted, steps>>

Pending == {i \in running : phase = "hooks" /\ results[i] = None}

HookAnswers(i) ==
    /\ i \in Pending
    /\ ~cancelled
    /\ \E result \in Answer[Hooks[i].command] : Finish(i, result)

(* Mutant: a hook has no timeout, and ends early only with its turn.       *)
KilledWithTurn(i) ==
    /\ i \in Pending
    /\ cancelled
    /\ Finish(i, NoOpinion)

(* It is killed by its own timeout, or with the turn; it fails otherwise.  *)
HookIsKilled(i) ==
    /\ i \in Pending
    /\ Finish(i, NoOpinion)

AllDone == Pending = {}

Blocked(v) == v.decision = "deny" \/ v.halt
(* Mutant: no objection counts as approval.                                *)
NotDenied(v) == v.decision # "deny"

HookApproved(v) == v.decision = "allow"

(* The step is over: its signature is that of the model's own call, not of *)
(* what the hooks made of it, and of the result.                           *)
EndStep(output, stop) ==
    /\ steps' = Append(steps, [call |-> call, output |-> output])
    /\ halted' = stop
    /\ call' = None
    /\ running' = {} /\ results' = [i \in {} |-> None] /\ finished' = <<>>
    /\ verdict' = None

(* Mutant: one step is left out of the window.                             *)
ShortWindow(s) == SubSeq(s, Len(s) - windowSize + 2, Len(s))

(* The last windowSize steps.                                              *)
Window(s) == SubSeq(s, Len(s) - windowSize + 1, Len(s))

(* How often each signature occurred so far.                               *)
Counted(seen, sig) ==
    IF sig \in DOMAIN seen THEN [seen EXCEPT ![sig] = @ + 1]
    ELSE [x \in DOMAIN seen \union {sig} |-> IF x = sig THEN 1 ELSE seen[x]]

hasRepeatedToolCalls(s) ==
    /\ Len(s) >= windowSize
    /\ LET counts == FoldLeft(Counted, [x \in {} |-> 0], Window(s))
       IN \E sig \in DOMAIN counts : counts[sig] > maxRepeats

(* The turn is ended before the model is called again.                     *)
Stop == halted' \/ hasRepeatedToolCalls(steps')

AfterStep == phase' = IF cancelled \/ Stop THEN "ended" ELSE "model"

(* The hooks are aggregated; hookedTool decides.                           *)
Aggregate ==
    /\ phase = "hooks"
    /\ verdict = None
    /\ AllDone
    /\ verdict' = aggregate(call.input)
    /\ UNCHANGED <<phase, call, hooks, cancelled, halted, steps>>

BlockCall ==
    /\ phase = "hooks"
    /\ verdict # None
    /\ Blocked(verdict)
    /\ EndStep("blocked", verdict.halt)
    /\ AfterStep
    /\ UNCHANGED cancelled

(* The tool itself asks, unless a hook has approved the call.              *)
PassCall ==
    /\ phase = "hooks"
    /\ verdict # None
    /\ ~Blocked(verdict)
    /\ phase' = IF call.tool \in Asking /\ ~HookApproved(verdict)
                THEN "ask" ELSE "run"
    /\ UNCHANGED <<call, hooks, verdict, cancelled, halted, steps>>

Grant ==
    /\ phase = "ask"
    /\ phase' = "run"
    /\ UNCHANGED <<call, hooks, verdict, cancelled, halted, steps>>

(* NewPermissionDeniedResponse                                             *)
Deny ==
    /\ phase = "ask"
    /\ EndStep("denied", TRUE)
    /\ AfterStep
    /\ UNCHANGED cancelled

(* A request of a cancelled turn returns an error, which ends the turn.    *)
AskFails ==
    /\ phase = "ask"
    /\ cancelled
    /\ phase' = "ended"
    /\ UNCHANGED <<call, hooks, verdict, cancelled, halted, steps>>

ToolReturns ==
    /\ phase = "run"
    /\ \E output \in Output : EndStep(output, FALSE)
    /\ AfterStep
    /\ UNCHANGED cancelled

Cancel ==
    /\ ~cancelled
    /\ phase # "ended"
    /\ cancelled' = TRUE
    /\ UNCHANGED <<phase, call, hooks, verdict, halted, steps>>

HookSteps == \E i \in running : HookAnswers(i) \/ HookIsKilled(i)

Next ==
    \/ BeginCall \/ EndTurn \/ HookSteps \/ Aggregate
    \/ BlockCall \/ PassCall \/ Grant \/ Deny \/ AskFails \/ ToolReturns
    \/ Cancel

(* A hook ends at the latest when its timeout kills it, and the goroutine  *)
(* of the turn goes on.  Nothing makes the user answer or a tool return.   *)
Fairness ==
    /\ \A i \in DOMAIN Hooks : WF_vars(HookIsKilled(i))
    /\ WF_vars(Aggregate)
    /\ WF_vars(BlockCall)
    /\ WF_vars(PassCall)

Spec == Init /\ [][Next]_vars /\ Fairness

-----------------------------------------------------------------------------
TypeOK ==
    /\ phase \in {"model", "hooks", "ask", "run", "ended"}
    /\ call \in ToolCall \union {None}
    /\ running \subseteq DOMAIN Hooks
    /\ results \in [running -> HookResult \union {None}]
    /\ finished \in Seq(running)
    /\ verdict \in AggregateResult \union {None}
    /\ {cancelled, halted} \subseteq BOOLEAN
    /\ steps \in Seq([call : ToolCall, output : {"blocked", "denied"} \union Output])
    /\ Len(steps) <= MaxSteps

(* What the hooks of the call said, by command.                            *)
Commands == {Hooks[i].command : i \in {i \in DOMAIN Hooks :
                                          call.tool \in Hooks[i].tools}}
Said(c) == results[CHOOSE i \in running : Hooks[i].command = c]
Place(c) == CHOOSE i \in DOMAIN Hooks :
               /\ Hooks[i].command = c /\ call.tool \in Hooks[i].tools
               /\ \A j \in 1 .. i - 1 : Hooks[j].command = c
                                          => call.tool \notin Hooks[j].tools

(* The commands whose patch sets a key of the input.                       *)
Setting(k) == {c \in Commands :
                 /\ Applies(call.input, Said(c).updatedInput)
                 /\ k \in DOMAIN Said(c).updatedInput}
Keys == DOMAIN call.input \union
        UNION {DOMAIN Said(c).updatedInput :
               c \in {c \in Commands :
                        Applies(call.input, Said(c).updatedInput)}}
DeclaredInput ==
    IF call.input = NotObject THEN NotObject
    ELSE [k \in Keys |->
            IF Setting(k) = {} THEN call.input[k]
            ELSE Said(CHOOSE c \in Setting(k) :
                        \A d \in Setting(k) : Place(d) <= Place(c)
                     ).updatedInput[k]]

(* "Deny wins over allow, allow wins over none.  Halt is sticky. [...]     *)
(* later patches override earlier ones on colliding keys" (hooks.go 97-    *)
(* 102): the verdict depends on what each command said and on its place in *)
(* the configuration, and never on which hook finished first.              *)
VerdictIsDeclared ==
    verdict # None =>
        LET opinions == {Said(c).decision : c \in Commands}
        IN /\ verdict.decision = CASE "deny" \in opinions -> "deny"
                                  [] "deny" \notin opinions
                                        /\ "allow" \in opinions -> "allow"
                                  [] OTHER -> "none"
           /\ verdict.halt = (\E c \in Commands : Said(c).halt)
           /\ verdict.input = DeclaredInput

(* A tool runs only if every hook of the call has ended and none denied it *)
(* or halted the turn, and a tool that asks runs unasked only if a hook    *)
(* of this very call allowed it.                                           *)
RunsAsDecided ==
    [][phase # "run" /\ phase' = "run" =>
          /\ \A c \in Commands : Said(c) # None /\ ~Blocked(Said(c))
          /\ \/ phase = "ask"
             \/ call.tool \notin Asking
             \/ \E c \in Commands : Said(c).decision = "allow"]_vars

(* A signature that occurs more than maxRepeats times in the last steps.   *)
Looping(s) ==
    /\ Len(s) >= windowSize
    /\ \E sig \in Range(s) :
          Cardinality({i \in Len(s) - windowSize + 1 .. Len(s) : s[i] = sig})
              > maxRepeats

(* The model is called again after a step unless the turn is cancelled, a  *)
(* hook halted it, the user denied the call, or it loops: no loop outlives *)
(* the window, and no honest repetition ends the turn.  One more condition *)
(* stops it, a full context (agent.go 487-507): see SessionAgent.          *)
TurnStopsInTime ==
    [][steps' # steps =>
          (phase' = "ended" <=>
              \/ cancelled
              \/ \E c \in Commands : Said(c).halt
              \/ phase = "ask"
              \/ Looping(steps'))]_vars

(* Whatever a hook does, the call gets past its hooks.                     *)
HooksLetGo == phase = "hooks" ~> phase # "hooks"

=============================================================================
