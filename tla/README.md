# HiAgent core: specifications, model checking and proofs

This directory holds TLA+ specifications of the concurrent core of HiAgent (the Go code under
`src/internal`), the TLC configurations that check them on small instances, and theorems about
them that TLAPS has proved for every value of the constants. `PROJECT.json` is the index: which
definition models which lines, what each run checks, which mutation of the model breaks each
property, which hazards of the code the properties are aimed at.

Read a module with the code beside it. An action is one atomic piece of the code: what happens
between two points at which another goroutine can be seen (a critical section, one database call,
one operation of a concurrent map). The comment over an action says where it is in the code.

## 1. The system

HiAgent runs coding agents. A *client* (terminal UI, HTTP client, SDK) submits prompts to a
*session*; the *session agent* sends the conversation to a model provider, executes the tools the
model calls, and stores messages in a database. Everything runs in one Go process; goroutines meet
in a few concurrent maps, mutexes, channels and database rows.

| component | state it keeps | operations | talks to | what is hard about it |
|---|---|---|---|---|
| **session agent** `agent/agent.go` | `activeRequests` (who runs a session), `messageQueue` (prompts waiting), one mutex per session | Run, Summarize, Cancel, CancelAll, ClearQueue, generateTitle | stores, provider, tools, notifications | Run re-enters itself for queued prompts while deferred cleanups of old frames are still to run; summaries give the session up and take it again; everything can be cancelled or fail in the middle |
| **application shutdown** `app/app.go` | – | Shutdown: cancel the agents, then close LSP, MCP, shells, the database | all of them | the wait for agents looks at the map of sessions, not at goroutines |
| **permission service** `permission/permission.go` | pending requests with a response channel each, grants per session, auto-approved sessions, the skip switch | Request, Grant, GrantPersistent, Deny, AutoApproveSession, SetSkipRequests | tools wait in it; clients answer; broker announces | one request at a time for all sessions; answers that come late, twice or contradict; cancellation while waiting |
| **background shells** `shell/background.go`, `agent/tools/bash.go`, `job_kill.go` | map of shells, done flag and completion time of each | Start, Remove, Kill, Cleanup, KillAll | the bash tool, job tools, shutdown | four parties may take a shell off the map; two steps of KillAll |
| **message store and conversation** `message/`, `agent/agent.go` 291-622, 819-973 | messages of a session: calls, results, finish marks; the session's summary pointer | Create, Update, List; preparePrompt | session agent, database | a turn may end, or the process die, between a tool call and its result; the provider refuses a malformed history for ever after |
| **session store** `session/session.go` | one row per session: title, usage, cost, todos, summary pointer | Save (whole row), UpdateTitleAndUsage, Rename | agent, title goroutine, coordinator | read-modify-write of whole rows by several goroutines |
| **coordinator** `agent/coordinator.go` | current agent | Run with a retry after 401, sub-agents and their cost | session agent, session store | sub-agents of one step bill the same row in parallel; the retry repeats a prompt whose first attempt has left traces |
| **file history and edit tools** `history/file.go`, `filetracker/`, `agent/tools/edit.go`, `write.go` | versions of files, times of last read | view, edit, write, multiedit | permission service, disk | three stores written one after the other; the file is checked before a wait that may last minutes, and written after it; several sessions and the user at once |
| **event broker** `pubsub/broker.go` | map of subscribers' channels (64 events each), their count, the channel `done` | Subscribe, Publish, Shutdown | everybody | `done` is closed outside the lock; contexts end while Shutdown and publishers work; a full subscriber loses events |
| **MCP clients** `agent/tools/mcp/` | state and session of each server | Initialize, getOrRenewClient, Close, tool calls | external servers | concurrent renewals; connection failures |
| **LSP manager** `lsp/` | clients, unavailable servers | Start, StopAll, restart | external servers | concurrent starts of one server |
| **hooks**, **loop detection** `hooks/`, `agent/hooked_tool.go`, `agent/loop_detection.go` | – | run the hooks of a call in parallel and combine what they say; detect repeated calls | tools, permission service | hooks finish in any order, time out, or die with the turn; a window and a count decide when a turn is stopped |
| **chat view** `ui/list/list.go`, `ui/model/chat.go`, the chat's handlers in `ui/model/ui.go` | the items of the session on screen, the position of the view, selection, follow mode, spinners | append, update, remove, scroll, select, click, tick, resize | broker's events, keys, mouse | events, timers and user input in any order; walks over items of any height |
| **backend and workspaces** `backend/`, `server/` | map of workspaces | create, attach, delete | clients | creation and deletion while in use |

OAuth, skills, the generated database layer, the shell interpreter, the dialogs and drawing of the
user interface and the command line have no concurrent protocol of their own; they are listed in
`PROJECT.json` as not modelled, and section 7 says why the others are not.

What makes each modelled component correct:

* **session agent** – at most one turn per session; a busy session always has a live owner; a
  prompt is lost only when a user cancels it or clears the queue, or with the turn that had already
  taken it and failed; none runs twice, and none is left behind by a turn that ends well; a call
  that Cancel found does not run after it, unless an automatic summary writes it anew; everything
  queued is eventually settled.
* **shutdown** – what was running has ended before the database is closed.
* **permission service** – one open request; no grant without a reason that concerns this call or
  its session; outcomes are announced before tools act; nobody waits for ever.
* **background shells** – a running shell can always be reached; a kill that reports success is
  true; nobody waits for ever for a shell that obeys its cancellation.
* **conversation** – whatever a turn, an error or a crash leaves in the table, the next history is
  one the provider accepts; a call never gets two results; the summary a session points to exists
  and is complete.
* **session rows** – whatever whole-row saves undo, nothing is charged twice, the cost is exact where
  no save undid another, and the pointer to the summary never goes back but by a rename.
* **file history** – the versions of a session show its own work and, but for line endings, what
  its edits found on the disk, whatever other sessions, failures and the user did before the edit
  read the file; a session's own edits do not make the file look changed by somebody else.
* **tool calls** – the verdict of the hooks depends on the configuration and their answers, not on
  who finishes first; a tool runs only if nobody objected and somebody approved; a turn is stopped
  exactly when it loops, is denied, halted or cancelled.
* **chat view** – scrolling moves by what was asked, a click hits what is shown, the items are those
  a reload would show, a followed conversation stays in view, no spinner stops for good.
* **event broker** – no channel is closed twice or sent on after its close; the count is right;
  a reader whose context ends is released.

## 2. Modules

| module | models | kind |
|---|---|---|
| `SessionAgent` | the dispatcher: `beginRun`, `Run`, `Summarize`, `Cancel`, `ClearQueue`, title generation | component |
| `PromptLedger` | what the dispatcher promises its clients: a call is accepted, then admitted once in an open turn, or given up | abstract specification of `SessionAgent` |
| `AgentShutdown` | `App.Shutdown` and `CancelAll` over a running `SessionAgent` | composition (EXTENDS SessionAgent) |
| `Permission` | the permission service with its callers and the clients that answer | component |
| `BackgroundShells` | the shell manager with the bash tool, `job_kill` and `KillAll` | component |
| `Conversation` | the messages of a session: what turns, the error path, summaries and crashes write, and the history made of it | component |
| `Broker` | subscribers, publishers and calls of `Shutdown` | component |
| `SessionRow` | a session's row and everybody who saves it: steps, summaries, title generator, todos tool, sub-agents' bills, the sessions dialog | component |
| `FileEdit` | one file, the tools that work on it, its versions and the times of reading | component |
| `ToolTurn` | the hooks and permission of each tool call of a turn, and what stops the turn | component |
| `ChatList` | the scrolling list of the terminal interface: pure operators | functions |
| `ChatView` | the chat over it, with the events, keys, clicks and ticks that change it | composition (EXTENDS ChatList) |
| `MC...` | values for TLC: which sessions, symmetry | model checking |
| `...Proofs` | theorems and their proofs | TLAPS |

### SessionAgent

A goroutine is named after the prompt whose submission started it; `depth[g]` is the height of its
stack of `Run` frames, because `Run` calls itself for the queued prompt it pops (agent.go 664) and
the deferred functions of the frames below (215-216, 270) run when it returns. `active` is
`activeRequests`: an entry is a token naming the frame that created it, which is what the pointer
comparison of `CompareAndDelete` distinguishes. `queue` is `messageQueue`. `cancelled[g]` says
which contexts of the top frame are cancelled (that of the run, that of its summary). `written` is
the set of calls with a user message. `stopped` and `exit` are history variables: `stopped` has
the prompts of the calls that Cancel found (`FoundBy`), which are those that run, wait in the queue,
or were taken by PrepareStep and not yet written. A call that a releasing frame has popped and not
begun is none of them, as nothing in the code holds it then (section 6).

| code | actions |
|---|---|
| `beginRun` under the session's mutex (185-201) | `BeginActive`, `BeginQueued` |
| lookup, title, user message (251-281) | `WriteUserMessage`, `SetupFails` |
| PrepareStep (302-360) | `TakeQueue`, `WriteTaken`, `StartStep` |
| the stream (361-512) | `NextStep`, `EndStream`, `EndStreamFull`, `FailStream` |
| the error path (516-622) | `HandleError` |
| automatic summary (634-648) | `DropActive`, `Requeue`, `SkipRequeue` |
| `Summarize` (667-783) | `SummarizeBusy`, `BeginSummarize`, `EndSummarize`, `CancelSummarize`, `FailSummarize` |
| release and restart of the loop (650-664) | `ReleaseIdle`, `ReleaseNext` |
| deferred functions, return | `Unwind`, `Return` |
| `generateTitle` | `FinishTitle` |
| clients | `Submit`, `RequestSummary`, `Cancel`, `ClearQueue` |

### AgentShutdown

Adds the goroutine of `Shutdown`: it reads whether any session is busy, copies the map, cancels the
sessions of the copy one by one, polls until no session is busy or five seconds have passed, and
closes the database. Clients are assumed to have stopped submitting when it begins.

### Permission

One action per step of `Request` between which an answer or another request can intervene; three
actions for an answer (lookup of the channel, send, bookkeeping). The response channel has capacity
one: `chan[c]` is what it buffers. A prompt may be dropped by the broker when `Lossy`; a hook may
have approved the calls in `HookApproved`. Answers are numbered, and each is given by one client in
the order of its steps. `activeRequest` is left out: the code writes it and nobody reads it.

### BackgroundShells

One `Job` per call of the bash tool that wants a background shell, with its process; one `Killer`
per `job_kill`; the shutdown's `KillAll` when `Exiting`. `Cleanup` removes the expired shells one
by one, since it deletes them from the map one by one. A cancelled shell ends, unless it is `Stubborn`
(it ignores its context, as a program that traps signals or a `jq` builtin does): `Kill` waits for
it without a bound, `KillAll` as long as its own context lasts (`KillAllStep`).

### Conversation

One session, one writer at a time (`SessionAgent` is about that). `log` is the table in the order
in which it is listed; `memory` is `currentAssistant`, which the table lags behind when a write
fails; `sent` is the history of the current turn, computed by `History` as `preparePrompt` does:
cut at the summary, results without a call dropped (`FilterOrphans`), calls without a result given
one (`Synthetic`).

| code | actions |
|---|---|
| listing, history, user message (251-281) | `BeginTurn` |
| PrepareStep (302-360) | `WriteQueued`, `PrepareStep` |
| stream callbacks (361-447) | `TextDelta`, `ToolInputStart`, `ToolCall`, `ToolResult` |
| OnStepFinish, the stream's end (448-516) | `FinishStep`, `EndTurn`, `Fail` |
| the error path (516-622) | `NothingToRepair`, `ListForRepair`, `RepairCall`, `GiveUpRepair`, `EndRepair` |
| `Summarize` (684-783) | `BeginSummary`, `SummaryText`, `CancelSummary`, `FailSummary`, `FinishSummary`, `SavePointer` |
| rename dialog saves a session it read earlier (`ui/dialog/sessions.go` 360-394) | `StaleSave` |

The provider and the streaming library are external. Assumed of them: a tool call has a fresh
identifier, results come for calls that are complete, the stream goes to another step only when
the last one's calls are complete, and it returns after its callbacks have.

### Broker

`mu` is a read-write lock. What runs under the write lock is one action with the guard `Unlocked`;
a publisher holds the read lock from `BeginPublish` to `EndPublish` and serves one subscriber per
`Send`. `done` is read and closed by `Shutdown` outside the lock (`SeeOpen`, `CloseDone`), before
`CloseAll`. Two calls of `Shutdown` that both see it open end the process: the model has that end
(`Panicked`). Of events only their number in a channel is kept.

### SessionRow

`Save` writes all columns of a copy that was read some time before; every writer is therefore a pair
of actions, one that reads (`StepGet`, `Summarize`, `TodosGet`, `GetParent`, `OpenDialog`) and one
that saves (`StepSave`, `SummarizeSave`, `TodosSave`, `SaveParent`, `Rename`). Only the title
generator updates columns in one statement (`TitleSaved`). Kept of the row are the cost, of which
each step, summary and title adds one, and the pointer to the summary. `due` is what a session's
work has cost, its billed sub-agents' included; `lossy` marks rows of which a save failed or undid
another. External is the stream, which returns after the tools it has started (`ToolsDone`). With
`Remote` the dialog belongs to a client of the server, and only some columns arrive (`Sent`).

### FileEdit

One file; each session runs one tool at a time. A call goes through `pc`:

| code | actions |
|---|---|
| checks of edit, multiedit, write and view | `View`, `CheckCreate`, `CheckEdit`, `CheckWrite` |
| reading the file, applying the edit | `ReadForEdit`, `NoEdit`, `ReadForWrite` |
| permission, writing the file | `Deny`, `WriteFile`, `WriteFileFails` |
| the history (`history/file.go`) | `FindHistory`, `CreateBase`, `CreateBaseFails`, `PickVersion`, `InsertVersion`, `VersionFails` |
| the file tracker | `RecordRead`, `RecordReadFails` |
| the user | `UserWrites`, `UserDeletes` |

A text is a body and its line endings; an edit chooses any other body, as no property depends on
where the replaced text stands. Time stamps are seconds, as in `filetracker` and the edit tools.
What is checked of the versions is compared with the disk and not with what the tools hold: `wrote`
records what was on the disk when a call wrote the file (`Shown`) and what it put there, `overtaken`
the calls between whose reading and writing somebody else changed it, and `first` and `last` copy
both when the session's first version is stored and when a call ends well. `Same` compares two texts
but for their line endings, which edit and multiedit take off the old text and put on the new one.

### ToolTurn

`BeginCall` takes one tool call per step, matches the hooks and drops doubled commands (`Dedup`). A
hook is named by its place in the configuration, where the code keeps its result as well. Each one
answers or is killed on its own (`HookAnswers`, `HookIsKilled`), `Aggregate` combines the answers in
the order of the configuration (`aggregate`; the keys of inputs and patches are plain, where sjson
takes a key with dots as a path and fails on an empty one, hooks.go 181), `BlockCall` and `PassCall` act on the verdict,
`Grant`, `Deny` and `AskFails` settle the tool's own request (how is `Permission`'s subject), and
`EndStep` evaluates the two conditions that stop a turn. The third one, a full context window, is
`SessionAgent`'s.

### ChatList and ChatView

The interface is one event loop, so each handler is one action. `ChatList` is `list.go` as
functions from list records to list records: `Starts` gives the row in which each item begins, and
a walk of the code stops at the first (or last) item a condition on such rows holds for; only the way
down in `ScrollBy`, which loses rows of a gap, keeps its own running sum (`Down`). `ChatView` adds follow mode, the index of the items, ticks and the delayed click, and models the
handlers of messages, keys, mouse, resizing, session switches and animation. A handler that
re-renders the layout twice is the handler followed by `Relayout`. Events arrive in order and none
is lost (`Broker` is about losses). Messages are created unfinished, as agent.go does (346, 704,
809), so the footer that `appendSessionMessage` gives to one created finished (ui.go 1071-1079) is
left out.

## 3. Runs

| run | instance | shows |
|---|---|---|
| `session_agent` | 2 prompts, 1 user summary, 1 session, 1 resumption, faults | exclusion, ownership, no lost or doubled prompt, drained queue after a good end, cancelled calls stay cancelled, refinement of `PromptLedger` |
| `session_agent_liveness` | 2 prompts, 1 resumption, faults | a queued prompt is settled, or its session unattended after an unhappy end |
| `agent_shutdown` | 2 prompts, 1 resumption | cancelled turns have ended when the database closes; the wait needs no timer but for a run that was not cancelled |
| `agent_shutdown_early_close` | 2 prompts | *violation*: a title goroutine outlives the session entry the shutdown waits for |
| `permission` | 2 calls of one session (one of them approved by a hook or not), 2 answers, lost events, policy changes | one open request; outcomes announced; no grant without a reason; everyone gets a turn; settled requests and answers return |
| `shells` | 2 shells (one ignores its cancellation), limit 1, 1 job_kill, KillAll | reachability of running shells; true kills; nobody waits for ever for a shell that obeys, and KillAll for none |
| `conversation` | 2 tool calls, 6 messages, failing writes, crashes, summaries | every history is acceptable; one result per call; a repair that ends is complete; the summary pointer is sound |
| `broker` | 2 subscribers, 2 publishers with 2 events each, buffers of 1, 2 calls of Shutdown | no double close, no send after close; readers are released |
| `session_row` | 1 session with 2 sub-agents, 2 steps and 1 summary | nothing charged twice; exact cost where nothing was undone; the summary pointer is kept |
| `file_edit` | 2 sessions, 3 edits, 1 failure or user change, 2 seconds, Windows line endings | the history shows the session's own work and what its edits found on the disk; own writes are fresh |
| `tool_turn` | 2 tools, 3 hooks (2 of one command), up to 4 steps, window 3, 1 repetition | verdicts do not depend on the order; tools run as decided; turns stop when they should; no hook holds a turn |
| `chat_view` | 2 messages, texts of 1 or 3 rows, views of 2 or 4 rows | scrolling, hit tests, items, spinners and follow mode are right |

**Bounds.** Sessions share no state in `SessionAgent` but the maps, whose operations are per key,
so one session carries all the interplay. Two prompts and a summary give three goroutines: one that
runs, one that queues behind it and one that overtakes; a third queued prompt only lengthens the
queue. One resumption per prompt (`MaxResumes`) shows both that the prompt comes back and that the
resumed call behaves like any other.

In `Permission` two answers give every order of a first and a late, double or contradicting one, and
two calls that ask for the same tell a grant of one from a grant for the session; that grants stay
within their session, and any number of calls, rest on the theorems of section 4. `Switchable` lets
the approval policy change. With two shells and a limit of one (`MaxBackgroundJobs`), the limit is
reached and passed.

Six messages (`MaxRows`) hold a turn with a call, its result, a following step, and the turn after
it, or a summary in between; two calls put two results behind one message, or one behind each of
two. `StaleSave` may restore any value the summary pointer has had. In `Broker` (`MaxEvents`) two
subscribers and two publishers let one channel be closed while another is being served, and a buffer
of one is full after the first event.

In `SessionRow` two steps (`MaxSteps`) let the first one's tools work beside a title and a bill while
the second follows, one summary (`MaxSummaries`) suffices for its pointer to be lost, and two
sub-agents bill at the same time; they are alike, hence the symmetry. In `FileEdit` three edits
(`MaxEdits`) are a session's first, another session's in between, and a third behind both;
one trouble (`MaxTroubles`), a failed query or write or a change by the user, can come at every
point, and two seconds (`MaxClock`) put two time stamps in the same or in different ones. In
`ToolTurn` four steps (`MaxSteps`) let the window of three move once. In
`ChatView` two messages (`MaxMessages`) of which one has text, a tool call and a footer make lists
of up to four items, higher and lower than the views.

**Fairness.** Goroutines that can move eventually move (the Go scheduler is fair to runnable
goroutines), hence weak fairness on the steps of each goroutine. A provider's stream ends or fails
sooner or later (HTTP timeouts and retries end), so the steps of a turn are fair as well. A mutex
does not starve a waiter for ever (Go's mutexes hand over after 1 ms), and with a finite number of
calls weak fairness of each waiting call is all that is used. In
`Broker` a publisher that holds the read lock never waits, and a writer that waits for
`sync.RWMutex` keeps new readers out, so strong fairness of the two writers (`Leave`, `CloseAll`) is
what the lock gives. In `BackgroundShells` a shell that was cancelled ends if it is not `Stubborn`,
and nothing is assumed of one that is: background_test.go 294 starts a shell that traps signals and
ignores its cancellation, and KillAll bounds its wait for that reason (background.go 194-212), so
that `KillAllStep` is fair. `KillsReturn` is stated accordingly. The same shell limits what
`SessionAgent` assumes: that the tools of a step return, so that a stream ends, does not hold for a
step whose bash or job_kill call waits for it. In `ToolTurn` a hook is killed by its timeout at the latest
(`hooks/runner.go`), so `HookIsKilled` is fair; that a hook answers, a tool returns or a user decides
is not assumed. Nothing is assumed of users or of other clients anywhere; `Conversation`,
`SessionRow`, `FileEdit` and `ChatView` have safety properties only.

**Deadlock** is checked except where the system may really stop or a bound ends it: a request nobody
answers (`permission`), shells that run for ever (`shells`), a broker nobody uses any more
(`broker`), the bounds on messages and edits (`conversation`, `file_edit`) and a turn that has ended
(`tool_turn`).

## 4. Proofs

Eight modules hold theorems about the components: `SessionAgentProofs` (which covers
`AgentShutdown` and the refinement of `PromptLedger` as well), `PermissionProofs`,
`ShellsAndBrokerProofs`, `ConversationProofs`, `FileEditProofs`, `SessionRowProofs`,
`ToolTurnProofs` and `ChatViewProofs`. Of each component they prove type correctness and the safety
properties, for every value of the constants, from one inductive invariant (TLC checked those
invariants on the runs' instances before they were proved); no theorem is assumed. With them every
invariant and every action property of the runs is a theorem, and so is the refinement of
`PromptLedger`; what is left to TLC is liveness.

| component | theorem: property | needed besides the property itself |
|---|---|---|
| `SessionAgent` | `TurnExclusion`: `OneTurnPerSession`, `BusyHasOwner`: `NoLeakedBusy`, `OwnerReleases`: `OnlyOwnerReleases` | a turn owns its session's entry, by a token that names a frame |
| | `LedgerImplemented`: `ImplementsLedger`, `NothingLostSilently`: `NoSilentLoss`, `CancelIsFinal`: `CancelledCallNotRerun`, `HappyEndDrains`: `HappyEndLeavesNoQueue` | a call is in one place at a time, those PrepareStep holds included |
| `AgentShutdown` | `ShutdownEndsTurns`: `CancelledTurnsEnd` | a turn that was reached is in its frame or past it |
| `Permission` | `OneOpenRequest`, `OutcomesHeard`, `GrantsHaveReasons` | the lock, the pending set and the channels fit |
| `BackgroundShells` | `ShellsReachable`: `NoOrphans`, `KillsAreReal`: `KilledIsGone` | where a running shell can be |
| `Broker` | `ChannelSafety`: `ChannelsAreSafe`, `SendsAreSafe`, `ClosedOnce`, `CountIsRight` | who may close a channel |
| `Conversation` | `OneResult`: `OneResultPerCall`, `SummaryStands`: `PointerIsSummary`, `RepairCompletes`: `RepairIsComplete`, `HistoryStands`: `AcceptedHistory` | the order of the table, and what a turn may still append |
| `FileEdit` | `SidebarIsRight`: `SidebarShowsSessionsWork`, `EditsCanBeUndone`: `ReplacedIsKept`, `OwnEditsStayFresh`: `OwnWriteIsFresh` | what a call has learnt of its session's versions; what was on the disk when it wrote |
| `SessionRow` | `NothingChargedTwice`: `NeverOvercharged`, `PointerNeverLost`: `SummaryKept`, `BooksAreExact`: `BooksBalance` | what every copy of a row shows |
| `ToolTurn` | `VerdictStands`: `VerdictIsDeclared`, `ToolsRunAsDecided`: `RunsAsDecided`, `StopsInTime`: `TurnStopsInTime` | the verdict is the sum of the answers |
| `ChatView` | `ShownItemsAreStored`: `ShownIsStored`, `SpinnersKeepTurning`: `SpinnersTurn`, `EndIsKept`: `EndStaysInView` | the index finds every item; items are those of what is stored |
| | `ScrollIsExact`: `ScrollMovesExactly`, `ClicksHit`: `ClickHitsWhatIsShown` | the view begins inside the list; where each item's rows begin |

**From which assumptions.** Only those on the constants, which the components declare and TLC
evaluates. Most give types and say that the values for "nothing" are none of the others. Those that
say something about the code are: `ParentType` and `OneLevel` of `SessionRow` (a sub-agent is given
no tool that runs another), `Inputs` and `NotAnObject` of `ToolTurn` (inputs and patches are JSON
objects or other text), `HooksConfig` (a configured hook answers one of the results of its command),
`HeightsPositive` of `ChatView` (a rendered item has a row at least, as `getItem` counts them, and so has
the view: a terminal too low to show any of the chat is left out),
and, of `HistoryStands` alone, the hypothesis `~Ties`: rows are listed in the order they were created
in, as SQLite does. Without it the property is false (section 6), and no other theorem uses it.

**Along which arguments.**

* `SessionAgent`, the turns: `OneTurnPerSession` needs to know that a goroutine in a turn owns its
  session's entry, and this is preserved only because an entry's token names a frame (goroutine and
  depth) that is still the top one: a stale deferred `CompareAndDelete` then compares with a token of
  another depth.
* `SessionAgent`, the prompts: frames, queue and PrepareStep hand a call on from one to the next, so a
  prompt is in one place at a time (`OnePlace`), its calls are written in the order in which
  summaries rewrote it (`NotYetWritten`), and Cancel finds every call of the prompts it stops
  (`NotStopped`). Most steps move no call; the others are an accept, an admission, a settlement or
  the opening or closing of a session, which are the actions of `PromptLedger`.
* `AgentShutdown`: a goroutine never goes back to a frame it has left. So a turn that `CancelAll`
  reached is still in the frame that made the entry, with its context cancelled and the entry in the
  map the shutdown polls, or it is past it (`Past`).
* `Permission`: the invariant ties the lock to the call that is between Lock and Unlock, the pending
  set to that call, and every value in a channel to an answer that was announced.
* `BackgroundShells`: a running shell is on the map, or in KillAll's collection, or stopped, or in
  the gap between KillAll's two steps; whoever waits for a shell has stopped it.
* `Broker`: whoever closes a channel takes it off the map under the write lock, a publisher serves
  subscribers of the map only and holds the read lock meanwhile, and what is on the map was never
  closed. While `done` is open every subscriber that has not left is on the map, so its departure
  and the counter stay in step; afterwards only `CloseAll` closes.
* `Conversation`: a write adds a row of a new identifier, rewrites the row the turn is writing or
  deletes it, and that row is none a client's copy of the session points to (`Tends`, `Writing`). For
  the history: in the table a result follows the message whose call it answers with nothing but
  results in between (`InOrder`). This stays so because the turn appends nothing but results behind
  the message whose calls are not answered yet (`Trailing`), and because the message in memory, which
  may be ahead of its row, owns calls no other row has (`Tidy`). Cutting at a finished summary keeps
  the order (`RestIsInOrder`). Of such a table preparePrompt makes, row by row, a history in which
  only results of its last message may still be missing (`Accepts`, `Pending`, `HistoryGrows`).
* `FileEdit`: only a session's own call stores versions for it (`OthersStay`), so what a call has
  learnt of its versions (`Sound`) holds until its next step, whatever others do meanwhile. And
  unless somebody changes the file between its reading and its writing, which makes it `overtaken`,
  the old content it holds is, but for line endings, what the disk holds while it waits for
  permission and what it replaces (`Matches`).
* `SessionRow`: `NeverOvercharged` says for any family of sessions that no row shows more than its
  bill has cost. It is not inductive, since a save writes an old copy: the invariant adds that
  every copy somebody holds shows no more either (`CostsCovered`; what is due only grows), that a
  step or summary under way holds a copy (`CopiesHeld`), and that the tools' copies live within a
  stream (`ToolsInStream`), which leaves a summary alone with the dialog. `SummaryKept` needs besides
  that every copy other than the dialog's has the present pointer of a row that was not renamed
  (`PointersFresh`); `BooksBalance`, that a sub-agent which goes on a bill is at rest
  (`BillsSettled`), so that nothing is added to its debt behind the bill.
* `ToolTurn`: the results of a call do not change once its verdict is given, and the verdict is their
  sum (`Judged`); only a call that was let through asks or runs (`LetThrough`). Every command runs
  from one place of the configuration, so the sum over places, in their order, is the sum over
  commands that `VerdictIsDeclared` states, whoever finished first.
* `ChatView`, the list: `Starts` grows by an item's height and the gap, so a row belongs to one item or
  to the gap behind one. Both walks of `ScrollBy` stop where the row they look for is: the way up at
  once (`ScrollUp`), the way down because the rows it has left are the distance to the row it looks
  for, but in a gap, from where it goes on with the next item (`Snap`). The rendered rows
  are those the hit test counts, joined from the items (`Render`, `FlattenSeq`).
* `ChatView`, the chat: what the chat shows depends on the index, which names the item an update
  replaces, a tick moves and a removal takes out. So `Good` says that the index finds every item
  (`Indexed`), every spinner is accounted for (`Turning`), and the view begins inside the list
  (`Begins`), which everything about positions needs. That a tool item spins exactly while its call is
  open (`Built`) is needed because an update replaces an item without starting its ticks: it must never
  make one spin that did not. Within a handler less may hold: a list that was emptied begins at -1
  until it is scrolled (`Loose`). `EndIsKept` is proved of each handler from what its parts do to the
  end of the view (`Ends`); every event and tick ends with the scroll of a chat that follows.

**Recursive functions.** `FlattenSeq`, which joins the messages of a history and the rows of a view,
the folds of `ToolTurn` and the walks of `ChatList` (`Starts`, `Down`) are recursive functions.
`ConversationProofs`, `ToolTurnProofs` and `ChatViewProofs` prove that such a
function exists and what it computes by induction, in first-order form: a set of naturals that has a
member has a least one (`LeastOf`, from the library's `WFMin`), hence a set with 0 and all successors
of its members has every natural (`Induction`). The library's own induction theorems take an operator
as a parameter, which the provers do not instantiate.

**Model-checked only.**

* Liveness: `QueuedIsSettled` and `CancelledRunsLetGo` of the session agent and the shutdown,
  `EveryoneGetsATurn`, `SettledReturns` and `ReplyReturns` of the permission service, `KillsReturn`
  of the shells, `ReadersAreReleased` of the broker, `HooksLetGo` of the hooks. The prover has no
  rules for fairness and ENABLED.
* The finding of section 5 and the six counterexamples of section 6 are runs of TLC.

## 5. Finding

*The database closes under agents* (agent.go 1172-1180, app.go 615; run
`agent_shutdown_early_close`). `CancelAll` waits for sessions, not for goroutines: a title goroutine
or a run that is between two entries still works.

## 6. Known divergences

What the models have because the code does it, and no property above denies. Six configurations,
which are not among the runs, exhibit the ones that a property can state; each ends with a
counterexample.

* *Cancel during an automatic summary is lost* (agent.go 745-751, 639-664). The run goes on, queues
  the interrupted prompt again and runs it with a fresh context
  (`SessionAgentCancelSummary.cfg`, `CancelledPromptNotRerun`).
* *KillAll spares a shell* (background.go 197-198). The map is copied and emptied in two steps
  (`BackgroundShellsKillAll.cfg`, `KillAllSparesNone`).
* *A job_kill may never return* (background.go 153-154). job_kill.md:11 says "Immediately terminates
  the process". `Kill` cancels the shell's context and waits for the shell, without a bound and
  without looking at the context of its caller; a shell that ignores its cancellation keeps the tool
  call, and with it the turn, waiting for ever (`BackgroundShellsStubborn.cfg`, `JobKillReturns`).
* *What an edit replaces is not always kept* (edit.go 321-432). edit.go:427 (and 296,
  multiedit.go:362, write.go:149) says "User manually changed the content; store an intermediate
  version". Stored is what the tool read before it asked for permission; a change the user makes
  while it waits is overwritten, and no version has it (`FileEditOvertaken.cfg`,
  `WhatIsReplacedIsKept`).
* *Messages of one second may be listed in any order* (`db/sql/messages.sql` 6-10, agent.go 954).
  `created_at` is in seconds (on MySQL explicitly so) and nothing breaks ties; SQLite happens to
  return rows as inserted, which is what the run `conversation` assumes. Otherwise a tool result
  may come before its call, which `preparePrompt` does not mend (`ConversationTies.cfg`,
  `AcceptedHistory`).
* *Parallel sub-agents lose costs* (coordinator.go 1082-1100). "updateParentSessionCost accumulates
  the cost", but two that finish together both add to the same old row
  (`SessionRowParallelBills.cfg`, `CostAccumulates`).

Prompts: between the release of a session and the begin of the queued call the run has popped
(agent.go 661-664, 211) nothing in the code holds that call, so a `Cancel` does not find it and it
runs; `CancelledCallNotRerun` is about the calls Cancel finds. The calls PrepareStep has taken and
not yet written are lost when the write of one of them or the stream fails (agent.go 313-320);
`NoSilentLoss` and `GiveUp` of the ledger allow exactly that.

Permissions: the send of an answer (permission.go 102) blocks for ever when its request was answered
before and then cancelled while the first answer was still in the buffer; `ReplyReturns` excepts a
request that was answered twice and cancelled.

Session rows: every `Save` undoes what was saved since its copy was read. A step or the todos tool
may undo a bill or each other's columns; the sessions dialog renames with the row it listed when it
was opened, even while the session works, and takes cost, todos and summary pointer back. Through
a server the row is decoded from JSON into a type whose fields have no JSON names, so that only id,
title and cost arrive and the rest is cleared.

Files: edit and multiedit store the old content with Unix line endings and the new content with the
file's own (edit.go 227, 278, 409; multiedit.go 274-335). Of a Windows file the base version
therefore differs from every later one in each line, and the changes a session shows
(`ui/model/session.go` 119) count all of them; and the next edit finds that the newest version is not
what it read, and stores an intermediate version although nobody changed the file. The properties
compare texts but for line endings. A file that a session creates for the third time fails after
the disk was written, since its initial version is inserted with three attempts only. A turn that is
cancelled after the disk was written fails every later query, so the edit has no version.

Chat: `AtBottom` (list.go 78) is false at the very bottom when the first visible item is taller than
the view and not the last one, so the wheel does not resume follow mode there. `SetSize` asks whether
the list was at the bottom when it already has the new size (chat.go 99-100): a view that shrinks
loses the end until the next event or tick. Deleting the last message or collapsing can leave the
view beyond the end. The delayed click acts on whatever is selected when its timer fires. Text
that comes after its message was taken for tool calls alone is not shown before a reload
(`lateText`). `ShownIsStored` compares the items that are shown with those that are stored, and the
index with the list, not the order of the items. `SelectNext` may land on the footer, which is not selectable.

Others: two calls of the broker's `Shutdown` at once can close `done` twice (broker.go 31-35), which
panics. The limit on background jobs (background.go 91) is checked and used without a lock; two
calls that check together exceed it. After a 401 the prompt is submitted once more and its user
message is stored twice (coordinator.go 220-240); the conversation remains acceptable.

## 7. Not modelled, and the plan

Left out of modelled components: of `SessionAgent`, attachments and provider options; of
`AgentShutdown`, the clean-ups beside the database; of the coordinator, how models and tools are
built; of `SessionRow`, titles, todos' contents and tokens, and the deletion of sessions; of
`ToolTurn`, the texts hooks add and steps with several calls; of `ChatView`, thinking boxes, nested
tools, text selection, lost events and doubled ticks after a reload. Of the terminal interface only
the chat is modelled: dialogs, completions, the editor, the sidebar, styles and drawing, which make
up most of the source, are rendering and forms without a protocol.

Read, and not modelled yet:

* *LSP manager* (`lsp/`). The map of clients is checked and entered in separate operations
  (manager.go 219-228), so two files opened together start a server twice and the second client
  replaces the first unclosed, contrary to the comment there; a client in error is replaced unclosed,
  and a failed start removes the name, whoever's client it has become. `Restart` reopens files under
  the URIs of the map where `OpenFile` expects paths, and uses the context of the call that created
  the client, which has ended with its turn. A model needs an account of what powernap does with
  such calls.
* *MCP clients* (`agent/tools/mcp/`). A renewed session replaces one that is never closed (init.go
  296), is bound to the context of the call that renewed it, and keeps the old counts without
  reading the tools again.
* *Configuration store* (`config/store.go`). Files that several workspaces share are read, changed
  and written back without a lock; an API key and its OAuth token are written in two steps.
* *Backend and workspaces*. Creation and deletion while clients are attached.

Next: modules for the LSP manager and the MCP clients, one property each about what is still
reachable from the map, and `Workspaces`.
