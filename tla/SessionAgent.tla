---------------------------- MODULE SessionAgent ----------------------------
(***************************************************************************)
(* The dispatcher of internal/agent/agent.go: which goroutine may run a    *)
(* turn of a session, where a prompt waits while another one is running,   *)
(* and how a turn ends (normally, by an error, by Cancel, or by an         *)
(* automatic summary that re-queues the interrupted prompt).               *)
(*                                                                         *)
(* A goroutine is named after the prompt whose submission started it; a    *)
(* Summarizer is a goroutine in which the user asked for a summary.  Run   *)
(* calls itself for the queued prompt it pops, so a goroutine has a stack  *)
(* of frames: depth[g] is its height, and the frames below the top one     *)
(* have nothing left to do but their deferred functions.                   *)
(*                                                                         *)
(* The text of prompts, the messages of a turn and the provider's stream   *)
(* are abstracted: written is the set of calls that have a user message.   *)
(***************************************************************************)
EXTENDS Naturals, Sequences

CONSTANTS
    Session,        \* session identifiers
    Prompt,         \* the prompts users submit, each once
    Summarizer,     \* user requests to summarize a session
    SessionOf,      \* the session each of them is about
    MaxResumes,     \* bound: automatic summaries that resume one prompt
    Faulty,         \* may the database or the provider fail?
    NoRun           \* "no entry in activeRequests"

Goroutine == Prompt \union Summarizer

(* A SessionAgentCall; resumed counts how often an automatic summary has   *)
(* rewritten its prompt and put it back on the queue.                      *)
Call == [prompt : Prompt, resumed : 0 .. MaxResumes]

(* The identity of an *activeCancel: the frame that created it.  An        *)
(* automatic Summarize creates a second one inside its frame.              *)
Token == [run : Goroutine, depth : Nat, kind : {"run", "summarize"}]

ASSUME SessionOfType == SessionOf \in [Goroutine -> Session]
ASSUME KindsDisjoint == Prompt \intersect Summarizer = {}
ASSUME MaxResumesNat == MaxResumes \in Nat
ASSUME FaultyBool == Faulty \in BOOLEAN
ASSUME NoRunFresh == NoRun \notin Token

VARIABLES
    queue,      \* messageQueue: the calls waiting in each session
    active,     \* activeRequests: the entry of each session, or NoRun
    pc,         \* where each goroutine is
    depth,      \* height of its stack of Run frames
    cur,        \* the call its top frame runs
    held,       \* calls PrepareStep took and has not yet written
    cancelled,  \* which contexts of its top frame are cancelled
    title,      \* the frame that waits for a running generateTitle, or 0
    written,    \* messages table: calls that have a user message
    stopped,    \* history: prompts running, queued or taken when Cancel was called
    exit        \* history: how the last turn gave its session up

vars == <<queue, active, pc, depth, cur, held, cancelled, title, written,
          stopped, exit>>

Tok(g, kind) == [run |-> g, depth |-> depth[g], kind |-> kind]
Elements(q) == {q[i] : i \in DOMAIN q}

(* csync.Map.CompareAndDelete on activeRequests.  Mutants: plain Del; and  *)
(* the deferred call of Summarize forgotten.                               *)
DeleteAny(s, token) == active' = [active EXCEPT ![s] = NoRun]
DeleteRunOnly(s, token) ==
    active' = IF active[s] = token /\ token.kind = "run"
              THEN [active EXCEPT ![s] = NoRun] ELSE active
CompareAndDelete(s, token) ==
    active' = IF active[s] = token THEN [active EXCEPT ![s] = NoRun] ELSE active

(* The operations on a session's queue.  Mutants: Enqueue stores the call  *)
(* alone; Take leaves the queue, or all but its head; Drained skips the    *)
(* restart of the loop.                                                    *)
EnqueueAlone(s, c) == queue' = [queue EXCEPT ![s] = <<c>>]
Enqueue(s, c) == queue' = [queue EXCEPT ![s] = Append(@, c)]
KeepQueue(s) == UNCHANGED queue
TakeOne(s) == queue' = [queue EXCEPT ![s] = IF @ = <<>> THEN @ ELSE Tail(@)]
Take(s) == queue' = [queue EXCEPT ![s] = <<>>]
AlwaysDrained(s) == TRUE
Drained(s) == queue[s] = <<>>

(* A step that needs the generation context fails once it is cancelled; a  *)
(* faulty database or provider can fail anywhere.  Mutant: the caller's    *)
(* context is used instead.                                                *)
MayFail(g) == Faulty \/ cancelled[g] # {}
SucceedAnyway(g) == TRUE
MaySucceed(g) == cancelled[g] = {}

Goto(g, label) == pc' = [pc EXCEPT ![g] = label]

-----------------------------------------------------------------------------
Init ==
    /\ queue = [s \in Session |-> <<>>]
    /\ active = [s \in Session |-> NoRun]
    /\ pc = [g \in Goroutine |-> "idle"]
    /\ depth = [g \in Goroutine |-> 0]
    /\ cur = [p \in Prompt |-> [prompt |-> p, resumed |-> 0]]
    /\ held = [p \in Prompt |-> <<>>]
    /\ cancelled = [g \in Goroutine |-> {}]
    /\ title = [p \in Prompt |-> 0]
    /\ written = {}
    /\ stopped = {}
    /\ exit = [s \in Session |-> "ok"]

(* A client calls Run with a prompt that passed the checks of 204-209.     *)
Submit(p) ==
    /\ pc[p] = "idle"
    /\ Goto(p, "begin")
    /\ depth' = [depth EXCEPT ![p] = 1]
    /\ UNCHANGED <<queue, active, cur, held, cancelled, title, written, stopped, exit>>

(* beginRun under the session's mutex: become the active run ...           *)
BeginActive(p) ==
    LET s == SessionOf[p] IN
    /\ pc[p] = "begin"
    /\ active[s] = NoRun
    /\ active' = [active EXCEPT ![s] = Tok(p, "run")]
    /\ cancelled' = [cancelled EXCEPT ![p] = {}]
    /\ Goto(p, "setup")
    /\ UNCHANGED <<queue, depth, cur, held, title, written, stopped, exit>>

(* ... or join the queue; the frame returns before it defers anything.     *)
BeginQueued(p) ==
    LET s == SessionOf[p] IN
    /\ pc[p] = "begin"
    /\ active[s] # NoRun
    /\ Enqueue(s, cur[p])
    /\ depth' = [depth EXCEPT ![p] = @ - 1]
    /\ Goto(p, "unwind")
    /\ UNCHANGED <<active, cur, held, cancelled, title, written, stopped, exit>>

(* From the session lookup to createUserMessage.  These use the caller's   *)
(* context, which Cancel does not reach.  The first message of a session   *)
(* starts generateTitle before it is written.                              *)
HasMessages(s) == \E c \in written : SessionOf[c.prompt] = s

StartTitle(p) ==
    title' = IF HasMessages(SessionOf[p]) THEN title ELSE [title EXCEPT ![p] = depth[p]]

WriteUserMessage(p) ==
    /\ pc[p] = "setup"
    /\ StartTitle(p)
    /\ written' = written \union {cur[p]}
    /\ Goto(p, "prepare")
    /\ UNCHANGED <<queue, active, depth, cur, held, cancelled, stopped, exit>>

(* The lookup, the listing or the insert fails: Run returns, its defers    *)
(* run next.  Only a failing insert has already started the title.         *)
SetupFails(p) ==
    /\ pc[p] = "setup"
    /\ Faulty
    /\ UNCHANGED title \/ StartTitle(p)
    /\ Goto(p, "unwind")
    /\ UNCHANGED <<queue, active, depth, cur, held, cancelled, written, stopped, exit>>

(* PrepareStep takes the whole queue under the mutex ...                   *)
TakeQueue(p) ==
    LET s == SessionOf[p] IN
    /\ pc[p] = "prepare"
    /\ held' = [held EXCEPT ![p] = queue[s]]
    /\ Take(s)
    /\ Goto(p, "collect")
    /\ UNCHANGED <<active, depth, cur, cancelled, title, written, stopped, exit>>

(* ... and writes the taken calls one by one, with the context of the      *)
(* stream.                                                                 *)
WriteTaken(p) ==
    /\ pc[p] = "collect"
    /\ held[p] # <<>>
    /\ MaySucceed(p)
    /\ written' = written \union {Head(held[p])}
    /\ held' = [held EXCEPT ![p] = Tail(@)]
    /\ UNCHANGED <<queue, active, pc, depth, cur, cancelled, title, stopped, exit>>

(* The assistant message exists: the model streams and calls tools.        *)
StartStep(p) ==
    /\ pc[p] = "collect"
    /\ held[p] = <<>>
    /\ MaySucceed(p)
    /\ Goto(p, "step")
    /\ UNCHANGED <<queue, active, depth, cur, held, cancelled, title, written, stopped, exit>>

(* OnStepFinish updates the message with the generation context, so a      *)
(* cancelled run never gets past it.  A step that called tools is followed *)
(* by another one, unless a stop condition holds.                          *)
NextStep(p) ==
    /\ pc[p] = "step"
    /\ MaySucceed(p)
    /\ Goto(p, "prepare")
    /\ UNCHANGED <<queue, active, depth, cur, held, cancelled, title, written, stopped, exit>>

EndStream(p) ==
    /\ pc[p] = "step"
    /\ MaySucceed(p)
    /\ Goto(p, "ended")
    /\ UNCHANGED <<queue, active, depth, cur, held, cancelled, title, written, stopped, exit>>

(* The context window is nearly full: the stream stops to summarize.       *)
EndStreamFull(p) ==
    /\ pc[p] = "step"
    /\ MaySucceed(p)
    /\ cur[p].resumed < MaxResumes
    /\ Goto(p, "full")
    /\ UNCHANGED <<queue, active, depth, cur, held, cancelled, title, written, stopped, exit>>

(* Stream returns an error.  The calls PrepareStep had taken and not yet   *)
(* written are gone with its stack frame.                                  *)
FailStream(p) ==
    /\ pc[p] \in {"prepare", "collect", "step"}
    /\ MayFail(p)
    /\ held' = [held EXCEPT ![p] = <<>>]
    /\ Goto(p, "fail")
    /\ UNCHANGED <<queue, active, depth, cur, cancelled, title, written, stopped, exit>>

(* The error path closes the tool calls and the assistant message, then    *)
(* returns: the queue is left as it is.                                    *)
HandleError(p) ==
    /\ pc[p] = "fail"
    /\ Goto(p, "unwind")
    /\ UNCHANGED <<queue, active, depth, cur, held, cancelled, title, written, stopped, exit>>

(* The run gives its entry up before it summarizes.                        *)
DropActive(p) ==
    /\ pc[p] = "full"
    /\ CompareAndDelete(SessionOf[p], Tok(p, "run"))
    /\ Goto(p, "summarize")
    /\ UNCHANGED <<queue, depth, cur, held, cancelled, title, written, stopped, exit>>

-----------------------------------------------------------------------------
(* Summarize, called by a user ...                                         *)
RequestSummary(g) ==
    /\ pc[g] = "idle"
    /\ Goto(g, "summarize")
    /\ UNCHANGED <<queue, active, depth, cur, held, cancelled, title, written, stopped, exit>>

(* ... or by a run.  ErrSessionBusy makes that run return.                 *)
SummarizeBusy(g) ==
    /\ pc[g] = "summarize"
    /\ active[SessionOf[g]] # NoRun
    /\ Goto(g, "unwind")
    /\ UNCHANGED <<queue, active, depth, cur, held, cancelled, title, written, stopped, exit>>

BeginSummarize(g) ==
    LET s == SessionOf[g] IN
    /\ pc[g] = "summarize"
    /\ active[s] = NoRun
    /\ active' = [active EXCEPT ![s] = Tok(g, "summarize")]
    /\ Goto(g, "summarizing")
    /\ UNCHANGED <<queue, depth, cur, held, cancelled, title, written, stopped, exit>>

(* Where Summarize returns to, and what becomes of the session: a run goes *)
(* on to its own release; a summary the user asked for just ends, whatever *)
(* has been queued meanwhile.                                              *)
SummarizeReturnsNil(g) ==
    /\ CompareAndDelete(SessionOf[g], Tok(g, "summarize"))
    /\ IF g \in Prompt
         THEN Goto(g, "resume") /\ UNCHANGED exit
         ELSE Goto(g, "unwind") /\ exit' = [exit EXCEPT ![SessionOf[g]] = "summary"]

(* The summary is saved, or there was nothing to summarize.                *)
EndSummarize(g) ==
    /\ pc[g] = "summarizing"
    /\ MaySucceed(g)
    /\ SummarizeReturnsNil(g)
    /\ UNCHANGED <<queue, depth, cur, held, cancelled, title, written, stopped>>

(* Cancel hit the stream of the summary: the half-written summary message  *)
(* is deleted with the context Summarize was given and the result of the   *)
(* deletion is returned.                                                   *)
CancelSummarize(g) ==
    /\ pc[g] = "summarizing"
    /\ cancelled[g] = {"summarize"}
    /\ SummarizeReturnsNil(g)
    /\ cancelled' = [cancelled EXCEPT ![g] = {}]
    /\ UNCHANGED <<queue, depth, cur, held, title, written, stopped>>

FailSummarize(g) ==
    /\ pc[g] = "summarizing"
    /\ MayFail(g)
    /\ CompareAndDelete(SessionOf[g], Tok(g, "summarize"))
    /\ Goto(g, "unwind")
    /\ exit' = [exit EXCEPT ![SessionOf[g]] = "error"]
    /\ UNCHANGED <<queue, depth, cur, held, cancelled, title, written, stopped>>

(* The interrupted call, with a rewritten prompt, goes to the end of the   *)
(* queue when its last message had tool calls.                             *)
Requeue(p) ==
    LET again == [prompt |-> cur[p].prompt, resumed |-> cur[p].resumed + 1] IN
    /\ pc[p] = "resume"
    /\ cur' = [cur EXCEPT ![p] = again]
    /\ Enqueue(SessionOf[p], again)
    /\ Goto(p, "release")
    /\ UNCHANGED <<active, depth, held, cancelled, title, written, stopped, exit>>

SkipRequeue(p) ==
    /\ pc[p] = "resume"
    /\ Goto(p, "release")
    /\ UNCHANGED <<queue, active, depth, cur, held, cancelled, title, written, stopped, exit>>

-----------------------------------------------------------------------------
(* The end of Run, under the mutex: give the entry up and, if the queue is *)
(* not empty, pop its head and call Run for it.                            *)
ReleaseIdle(p) ==
    LET s == SessionOf[p] IN
    /\ pc[p] \in {"ended", "release"}
    /\ Drained(s)
    /\ CompareAndDelete(s, Tok(p, "run"))
    /\ cancelled' = [cancelled EXCEPT ![p] = {}]
    /\ exit' = [exit EXCEPT ![s] = "ok"]
    /\ Goto(p, "unwind")
    /\ UNCHANGED <<queue, depth, cur, held, title, written, stopped>>

ReleaseNext(p) ==
    LET s == SessionOf[p] IN
    /\ pc[p] \in {"ended", "release"}
    /\ ~Drained(s)
    /\ CompareAndDelete(s, Tok(p, "run"))
    /\ cancelled' = [cancelled EXCEPT ![p] = {}]
    /\ cur' = [cur EXCEPT ![p] = Head(queue[s])]
    /\ queue' = [queue EXCEPT ![s] = Tail(@)]
    /\ depth' = [depth EXCEPT ![p] = @ + 1]
    /\ Goto(p, "begin")
    /\ UNCHANGED <<held, title, written, stopped, exit>>

FrameLeft(g) == depth[g] > 0

(* The deferred functions of the top frame: wait for the title, give the   *)
(* entry up if it is still this frame's, cancel the context.  A frame that *)
(* still owns its entry is returning an error.                             *)
Unwind(p) ==
    LET s == SessionOf[p] IN
    /\ pc[p] = "unwind"
    /\ FrameLeft(p)
    /\ title[p] # depth[p]
    /\ CompareAndDelete(s, Tok(p, "run"))
    /\ exit' = [exit EXCEPT ![s] = IF active[s] = Tok(p, "run") THEN "error" ELSE @]
    /\ depth' = [depth EXCEPT ![p] = @ - 1]
    /\ UNCHANGED <<queue, pc, cur, held, cancelled, title, written, stopped>>

Return(g) ==
    /\ pc[g] = "unwind"
    /\ ~FrameLeft(g)
    /\ Goto(g, "done")
    /\ UNCHANGED <<queue, active, depth, cur, held, cancelled, title, written, stopped, exit>>

(* generateTitle ends; its two attempts and its saves may fail but always  *)
(* return.                                                                 *)
FinishTitle(p) ==
    /\ title[p] # 0
    /\ title' = [title EXCEPT ![p] = 0]
    /\ UNCHANGED <<queue, active, pc, depth, cur, held, cancelled, written, stopped, exit>>

-----------------------------------------------------------------------------
(* The client's operations on a session, each under its mutex.             *)
PromptsOf(calls) == {c.prompt : c \in calls}

(* The calls Cancel finds: those that wait in the queue, the one of the    *)
(* active run and those its PrepareStep has taken.  A call that a run has  *)
(* just popped, and not yet begun, is in neither place.                    *)
FoundBy(s) ==
    LET t == active[s] IN
    Elements(queue[s]) \union
        (IF t = NoRun \/ t.run \in Summarizer THEN {}
         ELSE {cur[t.run]} \union Elements(held[t.run]))

(* Mutant: Cancel takes the entry out of activeRequests.                   *)
CancelTake(s) ==
    LET t == active[s] IN
    /\ t # NoRun \/ queue[s] # <<>>
    /\ cancelled' = IF t = NoRun THEN cancelled
                    ELSE [cancelled EXCEPT ![t.run] = @ \union {t.kind}]
    /\ active' = [active EXCEPT ![s] = NoRun]
    /\ Take(s)
    /\ UNCHANGED <<pc, depth, cur, held, title, written, stopped, exit>>

Cancel(s) ==
    LET t == active[s] IN
    /\ t # NoRun \/ queue[s] # <<>>
    /\ cancelled' = IF t = NoRun THEN cancelled
                    ELSE [cancelled EXCEPT ![t.run] = @ \union {t.kind}]
    /\ stopped' = stopped \union PromptsOf(FoundBy(s))
    /\ Take(s)
    /\ UNCHANGED <<active, pc, depth, cur, held, title, written, exit>>

ClearQueue(s) ==
    /\ queue[s] # <<>>
    /\ Take(s)
    /\ UNCHANGED <<active, pc, depth, cur, held, cancelled, title, written, stopped, exit>>

-----------------------------------------------------------------------------
(* What the goroutine of a submitted prompt does by itself.                *)
RunStep(p) ==
    \/ BeginActive(p) \/ BeginQueued(p)
    \/ WriteUserMessage(p) \/ SetupFails(p)
    \/ TakeQueue(p) \/ WriteTaken(p) \/ StartStep(p)
    \/ NextStep(p) \/ EndStream(p) \/ EndStreamFull(p) \/ FailStream(p)
    \/ HandleError(p) \/ DropActive(p)
    \/ Requeue(p) \/ SkipRequeue(p)
    \/ ReleaseIdle(p) \/ ReleaseNext(p) \/ Unwind(p)

(* Summarize, in either kind of goroutine.                                 *)
SummaryStep(g) ==
    \/ SummarizeBusy(g) \/ BeginSummarize(g) \/ EndSummarize(g)
    \/ CancelSummarize(g) \/ FailSummarize(g) \/ Return(g)

(* Every prompt has been answered and every summary made: nothing is left  *)
(* to do until a user comes back.                                          *)
Quiescent ==
    /\ \A g \in Goroutine : pc[g] = "done"
    /\ \A p \in Prompt : title[p] = 0
    /\ UNCHANGED vars

Next ==
    \/ \E p \in Prompt : Submit(p) \/ RunStep(p) \/ FinishTitle(p)
    \/ \E g \in Summarizer : RequestSummary(g)
    \/ \E g \in Goroutine : SummaryStep(g)
    \/ \E s \in Session : Cancel(s) \/ ClearQueue(s)
    \/ Quiescent

(* The Go scheduler runs every goroutine that can move, and a provider's   *)
(* stream ends or fails sooner or later; users owe nothing.                *)
Fairness ==
    /\ \A p \in Prompt : WF_vars(RunStep(p)) /\ WF_vars(FinishTitle(p))
    /\ \A g \in Goroutine : WF_vars(SummaryStep(g))

Spec == Init /\ [][Next]_vars /\ Fairness
-----------------------------------------------------------------------------
(* Where a goroutine holds the session: between beginRun and its release.  *)
TurnLabels == {"setup", "prepare", "collect", "step", "fail", "ended", "full"}
Labels == TurnLabels \union {"idle", "begin", "summarize", "summarizing",
                             "resume", "release", "unwind", "done"}
InTurn(g) == pc[g] \in TurnLabels \union {"summarizing"}

TypeOK ==
    /\ queue \in [Session -> Seq(Call)]
    /\ active \in [Session -> Token \union {NoRun}]
    /\ pc \in [Goroutine -> Labels]
    /\ depth \in [Goroutine -> Nat]
    /\ cur \in [Prompt -> Call]
    /\ held \in [Prompt -> Seq(Call)]
    /\ cancelled \in [Goroutine -> SUBSET {"run", "summarize"}]
    /\ title \in [Prompt -> Nat]
    /\ written \in SUBSET Call
    /\ stopped \in SUBSET Prompt
    /\ exit \in [Session -> {"ok", "error", "summary"}]

(* Two goroutines never run a turn of the same session at the same time,   *)
(* although the run that summarizes gives its entry up in between and the  *)
(* deferred functions of old frames run while newer runs are active.       *)
OneTurnPerSession ==
    \A g, h \in Goroutine :
        g # h /\ SessionOf[g] = SessionOf[h] => ~(InTurn(g) /\ InTurn(h))

(* A session is never left busy: whoever its entry belongs to is a live    *)
(* goroutine in the very frame that made the entry and will remove it.     *)
NoLeakedBusy ==
    \A s \in Session : active[s] # NoRun =>
        LET t == active[s] IN
        /\ SessionOf[t.run] = s
        /\ depth[t.run] = t.depth
        /\ pc[t.run] \in IF t.kind = "run" THEN TurnLabels \union {"unwind"}
                                           ELSE {"summarizing"}

(* An entry is replaced by nothing but its own removal, and only the       *)
(* goroutine it belongs to removes it: stale cleanup never frees a session *)
(* under a newer run (the comment at csync/maps.go 65-67).                 *)
OnlyOwnerReleases ==
    [][\A s \in Session : active[s] # NoRun /\ active'[s] # active[s] =>
          /\ active'[s] = NoRun
          /\ LET g == active[s].run
             IN <<pc[g], depth[g]>> # <<pc'[g], depth'[g]>>]_vars

(* No goroutine is running or about to look at the session again.          *)
Unattended(s) ==
    /\ active[s] = NoRun
    /\ \A g \in Goroutine :
          SessionOf[g] = s => pc[g] \in {"idle", "unwind", "done"}

(* Prompts are left waiting with nobody to run them only behind a turn     *)
(* that failed or was cancelled, or behind a summary the user asked for;   *)
(* a turn that ends well always drains the queue.                          *)
HappyEndLeavesNoQueue ==
    \A s \in Session : Unattended(s) /\ exit[s] = "ok" => queue[s] = <<>>

(* The calls that wait for their user message.                             *)
Waiting ==
    (UNION {Elements(queue[s]) : s \in Session})
        \union (UNION {Elements(held[p]) : p \in Prompt})
        \union {cur[p] : p \in {q \in Prompt : pc[q] \in {"begin", "setup"}}}

(* A call stops waiting because it was written, because a user cleared the *)
(* queue, or together with the turn that was just about to write it: a     *)
(* failure or a cancellation of one turn never loses what other clients    *)
(* have queued behind it, and no client overwrites another's call.         *)
NoSilentLoss ==
    [][\A c \in Waiting \ Waiting' :
          \/ c \in written'
          \/ Cancel(SessionOf[c.prompt]) \/ ClearQueue(SessionOf[c.prompt])
          \/ \E p \in Prompt :
                \/ c = cur[p] /\ SetupFails(p)
                \/ c \in Elements(held[p]) /\ FailStream(p)]_vars

(* A prompt that was running or queued when its user cancelled the session *)
(* is not run again: what Cancel promises (internal/backend/agent.go 66).  *)
StartsRun(p) == pc[p] = "begin" /\ pc'[p] = "setup"

CancelledPromptNotRerun ==
    [][\A p \in Prompt : StartsRun(p) => cur[p].prompt \notin stopped]_vars

(* A call that Cancel found running, waiting in the queue or taken by      *)
(* PrepareStep is neither begun after that nor does it join a turn under   *)
(* way.  Two calls are outside: one that a summary has rewritten and put   *)
(* back on the queue (agent.go 750), and one that a run had popped but not *)
(* yet begun, between 661-664 and 211, where Cancel does not find it: both *)
(* do run on in the code.                                                  *)
CancelledCallNotRerun ==
    [][\A p \in Prompt :
          /\ StartsRun(p) /\ cur[p].resumed = 0 => cur[p].prompt \notin stopped
          /\ WriteTaken(p) /\ Head(held[p]).resumed = 0
                => Head(held[p]).prompt \notin stopped]_vars

(* A queued call eventually leaves the queue for good, or its session is   *)
(* unattended after an unhappy end.                                        *)
QueuedIsSettled ==
    \A c \in Call :
        LET s == SessionOf[c.prompt] IN
        c \in Elements(queue[s]) ~>
            \/ c \notin Waiting
            \/ Unattended(s) /\ exit[s] # "ok"

-----------------------------------------------------------------------------
(* What the dispatcher promises its clients, whatever frames and tokens it *)
(* uses.  A call still on its way into beginRun is not accepted yet; a     *)
(* popped one is on its way for the second time.                           *)
Ledger == INSTANCE PromptLedger WITH
    pending <- (UNION {Elements(queue[s]) : s \in Session})
        \union (UNION {Elements(held[p]) : p \in Prompt})
        \union {cur[p] : p \in {q \in Prompt :
                    pc[q] = "setup" \/ (pc[q] = "begin" /\ depth[q] > 1)}},
    admitted <- written,
    open <- [s \in Session |-> active[s] # NoRun]

(* Every accepted call is admitted to the conversation at most once, and   *)
(* only while a turn of its session is open.                               *)
ImplementsLedger == Ledger!Spec
=============================================================================
