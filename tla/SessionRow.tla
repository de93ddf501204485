----------------------------- MODULE SessionRow -----------------------------
(***************************************************************************)
(* A session's row in the database and everybody who writes it.  Save      *)
(* (internal/session/session.go) writes the whole row back, and its        *)
(* callers read it some time before: the step of a turn and a summary      *)
(* (internal/agent/agent.go), the todos tool, the sub-agents that a step   *)
(* runs in parallel and that add their cost to their parent's              *)
(* (internal/agent/coordinator.go), and the sessions dialog, which renames *)
(* a session with the row it showed (internal/ui/dialog/sessions.go).      *)
(* Only the title generator updates single columns in one statement.       *)
(*                                                                         *)
(* Of the row, the cost (a step, a summary and a title cost one each) and  *)
(* the pointer to the summary are kept; titles and todo lists are left     *)
(* out, as no property is about them.  A sub-agent's turn is a turn of its *)
(* own session.  Queues and cancellation are SessionAgent's: here a turn   *)
(* may fail at any point.  The stream (an external library) returns after  *)
(* the tools it started.                                                   *)
(***************************************************************************)
EXTENDS Naturals

CONSTANTS
    Session,
    Parent,         \* the session whose turn runs it as a sub-agent
    NoSession,      \* the parent of a session the user talks to
    NoRow,          \* no copy of a row
    Remote,         \* is the dialog's application the client of a server?
    MaxSteps,       \* bound: steps of each session
    MaxSummaries    \* bound: summaries of each session

ASSUME ParentType == Parent \in [Session -> Session \union {NoSession}]
ASSUME NoSessionFresh == NoSession \notin Session
(* A sub-agent has no tool that would run another.                         *)
ASSUME OneLevel ==
    \A s \in Session : Parent[s] \in Session => Parent[Parent[s]] = NoSession
ASSUME RemoteBool == Remote \in BOOLEAN

Row == [cost : Nat, summary : Nat]
ASSUME NoRowFresh == NoRow \notin Row

VARIABLES
    row,            \* the sessions table; summary 0 is NULL
    turn,           \* what the agent of the session does
    held,           \* the copy a step or a summary holds
    result,         \* what the turn of a sub-agent returned
    title,          \* the title generator, run with the first prompt
    todo,           \* the copy the todos tool holds
    bill, billCopy, \* where a sub-agent is, and its copy of the parent's row
    dialog,         \* the rows the sessions dialog shows
    steps, summaries,
    due,            \* history: what a session's work has cost
    billed,         \* history: sub-agents whose cost the parent has been given
    lossy,          \* history: rows of which a save failed or undid another
    renamed         \* history: sessions the dialog has renamed

agentVars == <<turn, held, result, steps, summaries>>
subVars == <<bill, billCopy>>
ledgerVars == <<due, billed, lossy>>
vars == <<row, agentVars, title, todo, subVars, dialog, ledgerVars, renamed>>

Root == {s \in Session : Parent[s] = NoSession}
Sub == Session \ Root

Set(f, s, v) == [f EXCEPT ![s] = v]

(* What s spends is owed by s, and by the parent if s is on its bill.      *)
DueAfter(s) ==
    [x \in Session |->
        IF x = s \/ (s \in billed /\ x = Parent[s]) THEN due[x] + 1 ELSE due[x]]

(* session.Save: every column is written, whatever became of the row since *)
(* the copy was read.                                                      *)
Save(s, copy, new) ==
    /\ row' = Set(row, s, new)
    /\ lossy' = IF copy.cost # row[s].cost THEN lossy \union {s} ELSE lossy

(* updateSessionUsage adds what was used to the copy.                      *)
Charged(copy, n) == [copy EXCEPT !.cost = @ + n]

Init ==
    /\ row = [s \in Session |-> [cost |-> 0, summary |-> 0]]
    /\ turn = [s \in Session |-> "idle"]
    /\ held = [s \in Session |-> NoRow]
    /\ result = [s \in Session |-> "none"]
    /\ title = [s \in Session |-> "none"]
    /\ todo = [s \in Session |-> NoRow]
    /\ bill = [s \in Session |-> "none"]
    /\ billCopy = [s \in Session |-> NoRow]
    /\ dialog = [s \in Session |-> NoRow]
    /\ steps = [s \in Session |-> 0]
    /\ summaries = [s \in Session |-> 0]
    /\ due = [s \in Session |-> 0]
    /\ billed = {}
    /\ lossy = {}
    /\ renamed = {}
-----------------------------------------------------------------------------
(* Run takes the session and, with the first prompt, starts the title      *)
(* generator beside the stream.                                            *)
BeginTurn(s) ==
    /\ turn[s] = "idle"
    /\ turn' = Set(turn, s, "stream")
    /\ title' = IF title[s] = "none" THEN Set(title, s, "running") ELSE title
    /\ UNCHANGED <<row, held, result, todo, billCopy, dialog, steps, summaries,
                   ledgerVars, renamed>>

Prompt(s) == s \in Root /\ BeginTurn(s) /\ UNCHANGED bill

(* runSubAgent, called by a tool of the parent's step: a session of its    *)
(* own and a turn in it.                                                   *)
Delegate(c) ==
    /\ c \in Sub
    /\ bill[c] = "none"
    /\ turn[Parent[c]] = "stream"
    /\ bill' = Set(bill, c, "running")
    /\ BeginTurn(c)

(* None of the session's tools is at work.                                 *)
ToolsDone(s) ==
    /\ todo[s] = NoRow
    /\ \A c \in Sub : Parent[c] = s => bill[c] \in {"none", "done"}

(* OnStepFinish reads the row ...                                          *)
StepGet(s) ==
    /\ turn[s] = "stream"
    /\ ToolsDone(s)
    /\ steps[s] < MaxSteps[s]
    /\ steps' = Set(steps, s, steps[s] + 1)
    /\ turn' = Set(turn, s, "saving")
    /\ held' = Set(held, s, row[s])
    /\ due' = DueAfter(s)
    /\ UNCHANGED <<row, result, summaries, title, todo, subVars, dialog, billed,
                   lossy, renamed>>

(* ... and saves it with the step's cost; another step follows or not.     *)
(* Mutant: the cost is added twice.                                        *)
StepSaveTwice(s) ==
    /\ turn[s] = "saving"
    /\ Save(s, held[s], Charged(held[s], 2))
    /\ \E next \in {"stream", "ending"} : turn' = Set(turn, s, next)
    /\ held' = Set(held, s, NoRow)
    /\ UNCHANGED <<result, steps, summaries, title, todo, subVars, dialog, due,
                   billed, renamed>>

StepSave(s) ==
    /\ turn[s] = "saving"
    /\ Save(s, held[s], Charged(held[s], 1))
    /\ \E next \in {"stream", "ending"} : turn' = Set(turn, s, next)
    /\ held' = Set(held, s, NoRow)
    /\ UNCHANGED <<result, steps, summaries, title, todo, subVars, dialog, due,
                   billed, renamed>>

EndTurn(s, how) ==
    /\ turn' = Set(turn, s, "idle")
    /\ result' = IF s \in Sub THEN Set(result, s, how) ELSE result
    /\ held' = Set(held, s, NoRow)

(* The stream fails or is cancelled, or the step could not be saved.       *)
FailTurn(s) ==
    /\ turn[s] \in {"stream", "saving"}
    /\ ToolsDone(s)
    /\ EndTurn(s, "error")
    /\ lossy' = IF turn[s] = "saving" THEN lossy \union {s} ELSE lossy
    /\ UNCHANGED <<row, steps, summaries, title, todo, subVars, dialog, due,
                   billed, renamed>>

FinishTurn(s) ==
    /\ turn[s] = "ending"
    /\ EndTurn(s, "ok")
    /\ UNCHANGED <<row, steps, summaries, title, todo, subVars, dialog,
                   ledgerVars, renamed>>
-----------------------------------------------------------------------------
(* Summarize, by the user or by a turn that came near the context window,  *)
(* reads the row before its stream.  Mutant: it does not ask whether the   *)
(* session is busy.                                                        *)
SummarizeAnyway(s) ==
    /\ turn[s] \in {"ending", "stream"} \/ (turn[s] = "idle" /\ s \in Root /\ title[s] # "none")
    /\ summaries[s] < MaxSummaries[s]
    /\ turn' = Set(turn, s, "summarizing")
    /\ held' = Set(held, s, row[s])
    /\ UNCHANGED <<row, result, steps, summaries, title, todo, subVars, dialog,
                   ledgerVars, renamed>>

Summarize(s) ==
    /\ turn[s] = "ending" \/ (turn[s] = "idle" /\ s \in Root /\ title[s] # "none")
    /\ summaries[s] < MaxSummaries[s]
    /\ turn' = Set(turn, s, "summarizing")
    /\ held' = Set(held, s, row[s])
    /\ UNCHANGED <<row, result, steps, summaries, title, todo, subVars, dialog,
                   ledgerVars, renamed>>

(* It saves that row after the stream, with a pointer to the new summary.  *)
SummarizeSave(s) ==
    /\ turn[s] = "summarizing"
    /\ summaries' = Set(summaries, s, summaries[s] + 1)
    /\ Save(s, held[s], [Charged(held[s], 1) EXCEPT !.summary = summaries[s] + 1])
    /\ due' = DueAfter(s)
    /\ EndTurn(s, "ok")
    /\ UNCHANGED <<steps, title, todo, subVars, dialog, billed, renamed>>

(* A cancelled summary is no error of the turn, another failure is.        *)
SummarizeFails(s) ==
    /\ turn[s] = "summarizing"
    /\ \E how \in {"ok", "error"} : EndTurn(s, how)
    /\ UNCHANGED <<row, steps, summaries, title, todo, subVars, dialog,
                   ledgerVars, renamed>>

(* UpdateTitleAndUsage: one statement.                                     *)
TitleSaved(s) ==
    /\ title[s] = "running"
    /\ title' = Set(title, s, "done")
    /\ row' = Set(row, s, Charged(row[s], 1))
    /\ due' = DueAfter(s)
    /\ UNCHANGED <<agentVars, todo, subVars, dialog, billed, lossy, renamed>>

(* No model answered (Rename, of the title alone), or no statement ran.    *)
TitleFails(s) ==
    /\ title[s] = "running"
    /\ title' = Set(title, s, "done")
    /\ UNCHANGED <<row, agentVars, todo, subVars, dialog, ledgerVars, renamed>>
-----------------------------------------------------------------------------
(* The todos tool, which only the user's own sessions have.                *)
TodosGet(s) ==
    /\ s \in Root
    /\ turn[s] = "stream"
    /\ todo[s] = NoRow
    /\ todo' = Set(todo, s, row[s])
    /\ UNCHANGED <<row, agentVars, title, subVars, dialog, ledgerVars, renamed>>

TodosSave(s) ==
    /\ todo[s] # NoRow
    /\ Save(s, todo[s], todo[s])
    /\ todo' = Set(todo, s, NoRow)
    /\ UNCHANGED <<agentVars, title, subVars, dialog, due, billed, renamed>>

TodosFails(s) ==
    /\ todo[s] # NoRow
    /\ todo' = Set(todo, s, NoRow)
    /\ UNCHANGED <<row, agentVars, title, subVars, dialog, ledgerVars, renamed>>

(* The sub-agent's Run has returned: its turn and its title are over.      *)
(* Mutant: Run does not wait for the title.                                *)
ReturnedEarly(c) == bill[c] = "running" /\ turn[c] = "idle"
Returned(c) == bill[c] = "running" /\ turn[c] = "idle" /\ title[c] # "running"

(* updateParentSessionCost reads the child's row, which nobody writes any  *)
(* more (so SaveParent looks it up there), and the parent's ...            *)
GetParent(c) ==
    /\ Returned(c)
    /\ result[c] = "ok"
    /\ bill' = Set(bill, c, "hold")
    /\ billCopy' = Set(billCopy, c, row[Parent[c]])
    /\ UNCHANGED <<row, agentVars, title, todo, dialog, ledgerVars, renamed>>

(* ... and saves the parent's with both costs.                             *)
SaveParent(c) ==
    LET p == Parent[c] IN
    /\ bill[c] = "hold"
    /\ Save(p, billCopy[c], Charged(billCopy[c], row[c].cost))
    /\ billed' = billed \union {c}
    /\ due' = IF c \in billed THEN due ELSE Set(due, p, due[p] + due[c])
    /\ bill' = Set(bill, c, "done")
    /\ billCopy' = Set(billCopy, c, NoRow)
    /\ UNCHANGED <<agentVars, title, todo, dialog, renamed>>

(* The sub-agent failed, or a query of updateParentSessionCost did: the    *)
(* parent never learns of the cost.                                        *)
NoBill(c) ==
    /\ bill[c] = "hold" \/ Returned(c)
    /\ bill' = Set(bill, c, "done")
    /\ billCopy' = Set(billCopy, c, NoRow)
    /\ UNCHANGED <<row, agentVars, title, todo, dialog, ledgerVars, renamed>>
-----------------------------------------------------------------------------
(* The dialog lists the sessions once, when it is opened.                  *)
OpenDialog ==
    /\ dialog' = [s \in Session |-> IF s \in Root THEN row[s] ELSE NoRow]
    /\ UNCHANGED <<row, agentVars, title, todo, subVars, ledgerVars, renamed>>

(* The columns that reach Save.  A client sends proto.Session; the server  *)
(* decodes it as session.Session, whose fields bear no JSON names: of what *)
(* is modelled only the cost arrives.                                      *)
Sent(copy) == IF Remote THEN [copy EXCEPT !.summary = 0] ELSE copy

(* confirmRenameSession saves the listed session with its new title, busy  *)
(* or not.                                                                 *)
Rename(s) ==
    /\ dialog[s] # NoRow
    /\ Save(s, dialog[s], Sent(dialog[s]))
    /\ renamed' = renamed \union {s}
    /\ UNCHANGED <<agentVars, title, todo, subVars, dialog, due, billed>>
-----------------------------------------------------------------------------
TurnStep(s) ==
    \/ Prompt(s) \/ StepGet(s) \/ StepSave(s) \/ FailTurn(s) \/ FinishTurn(s)
    \/ Summarize(s) \/ SummarizeSave(s) \/ SummarizeFails(s)
    \/ TitleSaved(s) \/ TitleFails(s)
    \/ TodosGet(s) \/ TodosSave(s) \/ TodosFails(s)

SubStep(c) == Delegate(c) \/ GetParent(c) \/ SaveParent(c) \/ NoBill(c)

Next ==
    \/ \E s \in Session : TurnStep(s) \/ Rename(s)
    \/ \E c \in Sub : SubStep(c)
    \/ OpenDialog

Spec == Init /\ [][Next]_vars
-----------------------------------------------------------------------------
TypeOK ==
    /\ row \in [Session -> Row]
    /\ turn \in [Session -> {"idle", "stream", "saving", "ending", "summarizing"}]
    /\ held \in [Session -> Row \union {NoRow}]
    /\ result \in [Session -> {"none", "ok", "error"}]
    /\ title \in [Session -> {"none", "running", "done"}]
    /\ todo \in [Session -> Row \union {NoRow}]
    /\ bill \in [Session -> {"none", "running", "hold", "done"}]
    /\ billCopy \in [Session -> Row \union {NoRow}]
    /\ dialog \in [Session -> Row \union {NoRow}]
    /\ steps \in [Session -> Nat]
    /\ summaries \in [Session -> Nat]
    /\ due \in [Session -> Nat]
    /\ billed \in SUBSET Session
    /\ lossy \in SUBSET Session
    /\ renamed \in SUBSET Session

(* However saves overwrite each other, a session never shows a higher cost *)
(* than its work and the sub-agents on its bill have had: nothing is       *)
(* charged twice.                                                          *)
NeverOvercharged == \A s \in Session : row[s].cost <= due[s]

(* Where no save failed or undid another, the cost is exact: summaries,    *)
(* titles and sub-agents that succeed are all in it.                       *)
Sound(s) == s \notin lossy /\ \A c \in Sub : Parent[c] = s => c \notin lossy
BooksBalance ==
    \A s \in Session : Sound(s) /\ turn[s] # "saving" => row[s].cost = due[s]

(* Unless the user renames the session in the dialog, its summary pointer  *)
(* never goes back, whoever saves an old copy of the row: otherwise the    *)
(* whole history would be sent again.                                      *)
SummaryKept ==
    [][\A s \in Session : s \notin renamed' => row'[s].summary >= row[s].summary]_vars

(* "updateParentSessionCost accumulates the cost from a child session to   *)
(* its parent session" (coordinator.go 1081): billing a sub-agent raises   *)
(* what its parent shows by the sub-agent's cost.  Two sub-agents that     *)
(* finish together break it.                                               *)
CostAccumulates ==
    [][\A c \in billed' \ billed :
          row'[Parent[c]].cost = row[Parent[c]].cost + row[c].cost]_vars
=============================================================================
