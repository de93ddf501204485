---------------------------- MODULE Conversation ----------------------------
(***************************************************************************)
(* The messages of one session: what a turn writes to the messages table   *)
(* while the provider streams (the callbacks of Run and Summarize in       *)
(* internal/agent/agent.go), how an error is repaired, what a crash leaves *)
(* behind, and the history that the next turn makes of it                  *)
(* (getSessionMessages and preparePrompt).                                 *)
(*                                                                         *)
(* A session has one turn at a time (that is SessionAgent's concern), so   *)
(* there is one writer; what interleaves with it is the provider, which    *)
(* decides the order of callbacks, failing writes, crashes, and clients    *)
(* that save an older copy of the session.                                 *)
(*                                                                         *)
(* Text and reasoning are one flag, the input of a tool call is whether it *)
(* is complete.  Providers name every tool call afresh.                    *)
(***************************************************************************)
EXTENDS Naturals, Sequences, FiniteSets, SequencesExt

CONSTANTS
    Call,       \* tool call identifiers
    MaxRows,    \* bound: messages created in the session
    Ties,       \* are rows of the same second listed in any order?
    Faulty,     \* may the database fail?
    None        \* no row, no tool call

Id == 1 .. MaxRows

(* The parts of an assistant message: its tool calls, those of them whose  *)
(* input is still open, whether it has text, whether it has a finish part. *)
Parts == [calls : SUBSET Call, open : SUBSET Call, text : BOOLEAN,
          ended : BOOLEAN]

(* A row of the messages table; a tool message carries one result.         *)
Row == [id : Id, role : {"user", "assistant", "summary", "tool"},
        parts : Parts, result : Call \union {None}]

(* A message of the history sent to the provider.                          *)
Message == [role : {"user", "assistant", "tool"}, calls : SUBSET Call,
            results : SUBSET Call]

ASSUME MaxRowsNat == MaxRows \in Nat
ASSUME TiesBool == Ties \in BOOLEAN
ASSUME FaultyBool == Faulty \in BOOLEAN
ASSUME NoneFresh == None \notin Call /\ None \notin Nat

VARIABLES
    log,        \* the session's rows, as ListMessagesBySession returns them
    created,    \* how many rows were ever created
    second,     \* how many of the last rows share a second (with Ties)
    phase,      \* idle, step, stream, failed, repair, summary or save
    current,    \* the row the turn is writing (currentAssistant), or None
    memory,     \* its parts in memory, which the table may lag behind
    todo,       \* tool calls the error path has yet to look at
    seen,       \* results it saw when it listed the messages
    sent,       \* the history this turn was begun with
    pointer,    \* sessions.summary_message_id
    pointers    \* history: values pointer has had, which clients may hold

vars == <<log, created, second, phase, current, memory, todo, seen, sent,
          pointer, pointers>>

Empty == [calls |-> {}, open |-> {}, text |-> FALSE, ended |-> FALSE]

UserRow == [role |-> "user", parts |-> Empty, result |-> None]
AssistantRow == [role |-> "assistant", parts |-> Empty, result |-> None]
SummaryRow == [role |-> "summary", parts |-> Empty, result |-> None]
ToolRow(c) == [role |-> "tool", parts |-> Empty, result |-> c]

Rows == {log[i] : i \in DOMAIN log}
CallsIn(rows) == UNION {r.parts.calls : r \in rows}

ResultsIn(rows) == {r.result : r \in rows} \ {None}

-----------------------------------------------------------------------------
(* The two writes.                                                         *)

(* The rows created in the second of the latest one.                       *)
Latest == Len(log) + 1 - second .. Len(log)

(* Where a new row may be listed, and how many rows then share its second: *)
(* rows are listed by created_at alone, so with Ties it may precede others *)
(* of the same second.                                                     *)
Places ==
    IF Ties
    THEN {<<Len(log) + 1, 1>>}
            \union {<<at, second + 1>> : at \in Latest \union {Len(log) + 1}}
    ELSE {<<Len(log) + 1, 0>>}

(* messages.Create                                                         *)
Create(rows, row) ==
    /\ created < MaxRows
    /\ created' = created + 1
    /\ \E place \in Places :
          /\ log' = InsertAt(rows, place[1],
                       [id |-> created + 1, role |-> row.role,
                        parts |-> row.parts, result |-> row.result])
          /\ second' = place[2]

(* messages.Update writes all the parts the message has in memory.         *)
Stored(parts) ==
    [i \in DOMAIN log |->
        IF log[i].id = current THEN [log[i] EXCEPT !.parts = parts] ELSE log[i]]

NoCreate == UNCHANGED <<created, second>>

(* The turn is over, or its process is.                                    *)
Close ==
    /\ phase' = "idle"
    /\ current' = None /\ memory' = Empty
    /\ todo' = {} /\ seen' = {} /\ sent' = <<>>

KeepTurn == UNCHANGED <<todo, seen, sent, pointer, pointers>>
KeepPointer == UNCHANGED <<pointer, pointers>>

-----------------------------------------------------------------------------
(* The history of a turn.                                                  *)

(* getSessionMessages: from the summary on, which poses as a user message. *)
Listed ==
    LET at == {i \in DOMAIN log : log[i].id = pointer}
    IN IF at = {} THEN log
       ELSE LET i == CHOOSE i \in at : TRUE
            IN <<[log[i] EXCEPT !.role = "user"]>>
                  \o SubSeq(log, i + 1, Len(log))

Msg(role, calls, results) ==
    [role |-> role, calls |-> calls, results |-> results]

Blank(row) ==
    row.role \in {"assistant", "summary"} /\ row.parts.calls = {}
        /\ ~row.parts.text

(* filterOrphanedToolResults                                               *)
FilterOrphans(results, known) ==
    IF results \subseteq known THEN <<Msg("tool", {}, results)>> ELSE <<>>

(* Mutant: a call the crash left unanswered stays so.                      *)
NoSynthetic(calls, answered) == <<>>

(* syntheticToolResultsForOrphanedCalls                                    *)
Synthetic(calls, answered) ==
    IF calls \subseteq answered THEN <<>>
    ELSE <<Msg("tool", {}, calls \ answered)>>

ToMessages(row, known, answered) ==
    CASE row.role = "user" -> <<Msg("user", {}, {})>>
      [] row.role = "tool" -> FilterOrphans({row.result}, known)
      [] Blank(row) -> <<>>
      [] OTHER -> <<Msg("assistant", row.parts.calls, {})>>
                     \o Synthetic(row.parts.calls, answered)

(* preparePrompt                                                           *)
History ==
    LET rows == {Listed[i] : i \in DOMAIN Listed}
        known == CallsIn({r \in rows : r.role = "assistant"})
        answered == ResultsIn(rows)
    IN FlattenSeq([i \in DOMAIN Listed |->
                      ToMessages(Listed[i], known, answered)])

-----------------------------------------------------------------------------
(* A turn.                                                                 *)

Init ==
    /\ log = <<>> /\ created = 0 /\ second = 0
    /\ phase = "idle" /\ current = None /\ memory = Empty
    /\ todo = {} /\ seen = {} /\ sent = <<>>
    /\ pointer = None /\ pointers = {None}

(* Run lists the messages, writes the user's and starts the stream.        *)
BeginTurn ==
    /\ phase = "idle"
    /\ sent' = History
    /\ Create(log, UserRow)
    /\ phase' = "step"
    /\ UNCHANGED <<current, memory, todo, seen>> /\ KeepPointer

(* The stream goes on to another step only when the last one finished the  *)
(* tool calls it began; one whose input was cut off ends the turn.         *)
NextStep == phase = "step" /\ memory.open = {}

(* PrepareStep writes a prompt that was queued meanwhile.                  *)
WriteQueued ==
    /\ NextStep
    /\ Create(log, UserRow)
    /\ UNCHANGED <<phase, current, memory>> /\ KeepTurn

(* PrepareStep then creates the row the step is streamed into.             *)
PrepareStep ==
    /\ NextStep
    /\ Create(log, AssistantRow)
    /\ current' = created + 1 /\ memory' = Empty
    /\ phase' = "stream"
    /\ KeepTurn

(* A callback changes the message in memory and stores it; an error is     *)
(* returned to the stream, which ends with it.                             *)
Update(parts) ==
    /\ memory' = parts
    /\ \/ log' = Stored(parts) /\ UNCHANGED phase
       \/ Faulty /\ log' = log /\ phase' = "failed"
    /\ UNCHANGED current /\ NoCreate /\ KeepTurn

(* OnTextDelta, OnReasoningDelta                                           *)
TextDelta ==
    /\ phase = "stream" /\ ~memory.text
    /\ Update([memory EXCEPT !.text = TRUE])

Unused == Call \ (memory.calls \union CallsIn(Rows) \union ResultsIn(Rows))

(* OnToolInputStart                                                        *)
ToolInputStart(c) ==
    /\ phase = "stream" /\ c \in Unused
    /\ Update([memory EXCEPT !.calls = @ \union {c}, !.open = @ \union {c}])

(* OnToolCall; AddToolCall replaces the call of that identifier, if any.   *)
ToolCall(c) ==
    /\ phase = "stream" /\ c \in Unused \union memory.open
    /\ Update([memory EXCEPT !.calls = @ \union {c}, !.open = @ \ {c}])

(* OnToolResult; the stream reports one result for every call it made.     *)
Answered(c) == c \in ResultsIn(Rows)

ToolResult(c) ==
    /\ phase = "stream"
    /\ c \in memory.calls \ memory.open /\ ~Answered(c)
    /\ Create(log, ToolRow(c))
    /\ \/ UNCHANGED phase
       \/ Faulty /\ phase' = "failed"
    /\ UNCHANGED <<current, memory>> /\ KeepTurn

(* OnStepFinish, once the calls are answered.  A call whose input the      *)
(* provider cut off is left open.                                          *)
FinishStep ==
    /\ phase = "stream"
    /\ \A c \in memory.calls \ memory.open : Answered(c)
    /\ LET parts == [memory EXCEPT !.ended = TRUE]
       IN /\ memory' = parts
          /\ \/ log' = Stored(parts) /\ phase' = "step"
             \/ Faulty /\ log' = log /\ phase' = "failed"
    /\ UNCHANGED current /\ NoCreate /\ KeepTurn

(* The stream ends after a step: the model is done, or a stop condition    *)
(* holds.                                                                  *)
EndTurn ==
    /\ phase = "step" /\ memory.ended
    /\ Close
    /\ UNCHANGED log /\ NoCreate /\ KeepPointer

(* The provider fails, Cancel is called, or a write of PrepareStep or      *)
(* OnToolResult does not happen.                                           *)
Fail ==
    /\ NextStep \/ phase = "stream"
    /\ phase' = "failed"
    /\ UNCHANGED <<log, current, memory>> /\ NoCreate /\ KeepTurn

-----------------------------------------------------------------------------
(* The error path of Run.                                                  *)

NothingToRepair ==
    /\ phase = "failed" /\ current = None
    /\ Close
    /\ UNCHANGED log /\ NoCreate /\ KeepPointer

(* Mutant: results are looked for in the assistant message, which has none. *)
ListNothing ==
    /\ phase = "failed" /\ current # None
    /\ seen' = {}
    /\ todo' = memory.calls
    /\ phase' = "repair"
    /\ UNCHANGED <<log, current, memory, sent>> /\ NoCreate /\ KeepPointer

ListForRepair ==
    /\ phase = "failed" /\ current # None
    /\ seen' = ResultsIn(Rows)
    /\ todo' = memory.calls
    /\ phase' = "repair"
    /\ UNCHANGED <<log, current, memory, sent>> /\ NoCreate /\ KeepPointer

(* Mutant: only open calls get a result.                                   *)
RepairOpenCall(c) ==
    /\ phase = "repair" /\ c \in todo
    /\ IF c \in memory.open
       THEN Create(Stored([memory EXCEPT !.open = @ \ {c}]), ToolRow(c))
       ELSE log' = log /\ NoCreate
    /\ memory' = [memory EXCEPT !.open = @ \ {c}]
    /\ todo' = todo \ {c}
    /\ UNCHANGED <<phase, current, seen, sent>> /\ KeepPointer

(* An open call is closed; a call that has no result gets an error.        *)
RepairCall(c) ==
    /\ phase = "repair" /\ c \in todo
    /\ LET parts == [memory EXCEPT !.open = @ \ {c}]
           stored == IF c \in memory.open THEN Stored(parts) ELSE log
       IN /\ memory' = parts
          /\ IF c \in seen
             THEN log' = stored /\ NoCreate
             ELSE Create(stored, ToolRow(c))
    /\ todo' = todo \ {c}
    /\ UNCHANGED <<phase, current, seen, sent>> /\ KeepPointer

(* It gives up when a write fails, after storing the call or before.       *)
GiveUpRepair ==
    /\ Faulty /\ phase \in {"failed", "repair"} /\ current # None
    /\ \/ log' = log
       \/ \E c \in todo \intersect memory.open :
             log' = Stored([memory EXCEPT !.open = @ \ {c}])
    /\ Close
    /\ NoCreate /\ KeepPointer

EndRepair ==
    /\ phase = "repair" /\ todo = {}
    /\ log' = Stored([memory EXCEPT !.ended = TRUE])
    /\ Close
    /\ NoCreate /\ KeepPointer

-----------------------------------------------------------------------------
(* Summarize.                                                              *)

(* It lists the messages, then creates the row of the summary.             *)
BeginSummary ==
    /\ phase = "idle" /\ log # <<>>
    /\ sent' = History
    /\ Create(log, SummaryRow)
    /\ current' = created + 1 /\ memory' = Empty
    /\ phase' = "summary"
    /\ UNCHANGED <<todo, seen>> /\ KeepPointer

SummaryText ==
    /\ phase = "summary" /\ ~memory.text
    /\ LET parts == [memory EXCEPT !.text = TRUE]
       IN memory' = parts /\ log' = Stored(parts)
    /\ UNCHANGED <<phase, current>> /\ NoCreate /\ KeepTurn

(* A cancelled summary is deleted.                                         *)
CancelSummary ==
    /\ phase = "summary"
    /\ \E at \in DOMAIN log :
          /\ log[at].id = current
          /\ log' = RemoveAt(log, at)
          /\ second' = IF at \in Latest THEN second - 1 ELSE second
    /\ Close
    /\ UNCHANGED created /\ KeepPointer

(* A failed one, or one whose last writes fail, stays as it is.            *)
FailSummary ==
    /\ phase \in {"summary", "save"}
    /\ Close
    /\ UNCHANGED log /\ NoCreate /\ KeepPointer

FinishSummary ==
    /\ phase = "summary"
    /\ LET parts == [memory EXCEPT !.ended = TRUE]
       IN memory' = parts /\ log' = Stored(parts)
    /\ phase' = "save"
    /\ UNCHANGED current /\ NoCreate /\ KeepTurn

(* Mutant: the pointer is saved while the summary is still written.        *)
SavePointerEarly ==
    /\ phase \in {"summary", "save"}
    /\ pointer' = current
    /\ pointers' = pointers \union {current}
    /\ Close
    /\ UNCHANGED log /\ NoCreate

SavePointer ==
    /\ phase = "save"
    /\ pointer' = current
    /\ pointers' = pointers \union {current}
    /\ Close
    /\ UNCHANGED log /\ NoCreate

-----------------------------------------------------------------------------
(* Around the turn.                                                        *)

Crash ==
    /\ phase # "idle"
    /\ Close
    /\ UNCHANGED log /\ NoCreate /\ KeepPointer

(* A client saves the copy of the session it read a while ago.             *)
StaleSave ==
    /\ pointer' \in pointers \ {pointer}
    /\ UNCHANGED <<log, phase, current, memory, todo, seen, sent, pointers>>
    /\ NoCreate

Next ==
    \/ BeginTurn \/ WriteQueued \/ PrepareStep \/ TextDelta
    \/ \E c \in Call : ToolInputStart(c) \/ ToolCall(c) \/ ToolResult(c)
    \/ FinishStep \/ EndTurn \/ Fail
    \/ NothingToRepair \/ ListForRepair
    \/ \E c \in Call : RepairCall(c)
    \/ GiveUpRepair \/ EndRepair
    \/ BeginSummary \/ SummaryText \/ CancelSummary \/ FailSummary
    \/ FinishSummary \/ SavePointer
    \/ Crash \/ StaleSave

Spec == Init /\ [][Next]_vars

-----------------------------------------------------------------------------
(* Properties.                                                             *)

(* The variables keep their types.                                         *)
TypeOK ==
    /\ log \in Seq(Row) /\ Len(log) \in 0 .. MaxRows
    /\ created \in 0 .. MaxRows
    /\ second \in 0 .. Len(log)
    /\ phase \in {"idle", "step", "stream", "failed", "repair", "summary",
                  "save"}
    /\ current \in Id \union {None}
    /\ memory \in Parts
    /\ todo \subseteq Call /\ seen \subseteq Call
    /\ sent \in Seq(Message)
    /\ pointer \in Id \union {None}
    /\ pointers \in SUBSET (Id \union {None})

(* The tool messages that follow a message with nothing in between.        *)
AnswersTo(h, i) ==
    {j \in i + 1 .. Len(h) : \A k \in i + 1 .. j : h[k].role = "tool"}

(* Whatever an error, a crash, a failed write or a client's save left      *)
(* behind, the history a turn starts from is one the provider accepts:     *)
(* every tool call of an assistant message is answered, once, by the tool  *)
(* messages right behind it, and those answer nothing else.                *)
AcceptedHistory ==
    \A i \in DOMAIN sent :
        LET answers == AnswersTo(sent, i) IN
        /\ sent[i].role = "tool" => i > 1 /\ sent[i - 1].role # "user"
        /\ sent[i].role # "tool" =>
              /\ UNION {sent[j].results : j \in answers} = sent[i].calls
              /\ \A j, k \in answers :
                    j # k => sent[j].results \intersect sent[k].results = {}

ResultRows(c) == {i \in DOMAIN log : log[i].result = c}

(* However callbacks, the error path and failing writes follow each other, *)
(* a tool call never gets two results.                                     *)
OneResultPerCall == \A c \in Call : Cardinality(ResultRows(c)) <= 1

(* An error path that runs to its end leaves the message finished, with no *)
(* call open and none without a result, whichever write failed before.     *)
RepairIsComplete ==
    [][EndRepair =>
          \A i \in DOMAIN log' : log'[i].id = current =>
              /\ log'[i].parts.ended /\ log'[i].parts.open = {}
              /\ log'[i].parts.calls \subseteq ResultsIn({log'[j] : j \in DOMAIN log'})
      ]_vars

(* The session's summary is a summary that was finished, and still there:  *)
(* what the history leaves out before it is not lost.                      *)
PointerIsSummary ==
    pointer # None =>
        \E r \in Rows : r.id = pointer /\ r.role = "summary" /\ r.parts.ended
=============================================================================
