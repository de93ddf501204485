-------------------------- MODULE SessionRowProofs --------------------------
(***************************************************************************)
(* Proofs about SessionRow, for any sessions, sub-agents and bounds: the   *)
(* cost a session shows is never more than what it owes, and exactly that  *)
(* where no save was lost; its summary pointer goes back only after a      *)
(* rename in the dialog.                                                   *)
(*                                                                         *)
(* The argument.  A copy of a row is at most what the row's session owes,  *)
(* because debts only grow; a step's copy leaves room for the step, and a  *)
(* sub-agent is put on the bill once.  The pointer changes only when a     *)
(* summary is saved, and no tool holds a copy then, because the turn that  *)
(* would run the tool has ended.  The books: while no save has failed or   *)
(* overwritten another, a session's row and its debt differ by the step    *)
(* that is being saved, and a sub-agent that goes on a bill is at rest, so *)
(* its own books are even.                                                 *)
(***************************************************************************)
EXTENDS SessionRow, TLAPS

Holding == {"saving", "summarizing"}

(* Who holds a copy.                                                       *)
CopiesHeld ==
    /\ \A s \in Session : turn[s] \in Holding => held[s] # NoRow
    /\ \A c \in Sub : bill[c] = "hold" => billCopy[c] # NoRow
    /\ \A c \in billed : bill[c] = "done"

(* Tools work only while their turn streams.                               *)
ToolsInStream == \A s \in Session : turn[s] # "stream" => ToolsDone(s)

(* No copy shows more than what is owed.                                   *)
Covered(s) ==
    /\ row[s].cost <= due[s]
    /\ held[s] # NoRow => held[s].cost <= due[s]
    /\ turn[s] = "saving" => held[s].cost + 1 <= due[s]
    /\ todo[s] # NoRow => todo[s].cost <= due[s]
    /\ dialog[s] # NoRow => dialog[s].cost <= due[s]
    /\ \A c \in Sub : Parent[c] = s /\ billCopy[c] # NoRow => billCopy[c].cost <= due[s]
CostsCovered == \A s \in Session : Covered(s)

(* Without a rename, every copy has the row's pointer.                     *)
Fresh(s) ==
    /\ row[s].summary <= summaries[s]
    /\ turn[s] \in Holding => held[s].summary = row[s].summary
    /\ todo[s] # NoRow => todo[s].summary = row[s].summary
    /\ \A c \in Sub : Parent[c] = s /\ bill[c] = "hold" =>
          billCopy[c].summary = row[s].summary
PointersFresh == \A s \in Session : s \notin renamed => Fresh(s)

(* A sub-agent whose cost is with its parent, or about to be, is at rest.  *)
BillsSettled ==
    \A c \in Session : bill[c] \in {"hold", "done"} =>
        c \in Sub /\ turn[c] = "idle" /\ title[c] # "running"

(* A row of which no save was lost lacks just the step that is being saved. *)
Balanced(s) ==
    Sound(s) =>
        /\ turn[s] = "saving" => row[s].cost + 1 = due[s]
        /\ turn[s] # "saving" => row[s].cost = due[s]
BooksKept == \A s \in Session : Balanced(s)

(* What SummaryKept says of a step.                                        *)
PointersGrow ==
    \A s \in Session : s \notin renamed' => row'[s].summary >= row[s].summary

IInv ==
    /\ TypeOK /\ CopiesHeld /\ ToolsInStream /\ CostsCovered /\ PointersFresh
    /\ BillsSettled /\ BooksKept
-----------------------------------------------------------------------------
(* A sub-agent has a parent.                                               *)
LEMMA ParentIsSession == \A c \in Sub : c \in Session /\ Parent[c] \in Session
  BY ParentType DEF Sub, Root

(* What charging does to a copy.                                           *)
LEMMA ChargedFacts ==
  ASSUME NEW copy \in Row, NEW n \in Nat
  PROVE  /\ Charged(copy, n) \in Row
         /\ Charged(copy, n).cost = copy.cost + n
         /\ Charged(copy, n).summary = copy.summary
  BY DEF Charged, Row

(* What a new pointer does to a copy.                                      *)
LEMMA PointedFacts ==
  ASSUME NEW copy \in Row, NEW n \in Nat
  PROVE  /\ [copy EXCEPT !.summary = n] \in Row
         /\ [copy EXCEPT !.summary = n].cost = copy.cost
         /\ [copy EXCEPT !.summary = n].summary = n
  BY DEF Row

(* A save changes one row.                                                 *)
LEMMA SaveFacts ==
  ASSUME TypeOK, NEW s \in Session, NEW copy, NEW new \in Row, Save(s, copy, new)
  PROVE  /\ row' \in [Session -> Row]
         /\ lossy' \in SUBSET Session
         /\ row'[s] = new
         /\ \A x \in Session : x # s => row'[x] = row[x]
  BY DEF TypeOK, Save, Set

(* Debts only grow.                                                        *)
LEMMA DueGrows ==
  ASSUME TypeOK, NEW s \in Session
  PROVE  /\ DueAfter(s) \in [Session -> Nat]
         /\ DueAfter(s)[s] = due[s] + 1
         /\ \A x \in Session : due[x] <= DueAfter(s)[x]
  BY DEF TypeOK, DueAfter
-----------------------------------------------------------------------------
LEMMA InitIInv == Init => IInv
<1> SUFFICES ASSUME Init PROVE IInv
  OBVIOUS
<1>1. TypeOK
  BY DEF Init, TypeOK, Row
<1>2. CopiesHeld /\ ToolsInStream
  BY ParentIsSession DEF Init, CopiesHeld, ToolsInStream, ToolsDone, Holding
<1>3. CostsCovered /\ PointersFresh
  BY ParentIsSession DEF Init, CostsCovered, Covered, PointersFresh, Fresh, Holding
<1>4. BillsSettled /\ BooksKept
  BY DEF Init, BillsSettled, BooksKept, Balanced
<1>. QED
  BY <1>1, <1>2, <1>3, <1>4 DEF IInv
(* A turn that holds a copy holds a row.                                   *)
LEMMA HeldIsRow ==
  ASSUME TypeOK, CopiesHeld, NEW s \in Session, turn[s] \in Holding
  PROVE  held[s] \in Row /\ Charged(held[s], 1) \in Row
<1>1. held[s] \in Row
  BY DEF TypeOK, CopiesHeld
<1>. QED
  BY <1>1, ChargedFacts
-----------------------------------------------------------------------------
(* A step keeps the types, given that whoever saves holds a copy.          *)
LEMMA TypeStep == TypeOK /\ CopiesHeld /\ [Next]_vars => TypeOK'
<1> SUFFICES ASSUME TypeOK, CopiesHeld, [Next]_vars PROVE TypeOK'
  OBVIOUS
<1> USE DEF TypeOK, Set, agentVars, subVars, ledgerVars
<1>1. ASSUME NEW s \in Session, Prompt(s) PROVE TypeOK'
  BY <1>1 DEF Prompt, BeginTurn
<1>2. ASSUME NEW c \in Sub, Delegate(c) PROVE TypeOK'
  BY <1>2, ParentIsSession DEF Delegate, BeginTurn
<1>3. ASSUME NEW s \in Session, StepGet(s) PROVE TypeOK'
  BY <1>3, DueGrows DEF StepGet
<1>4. ASSUME NEW s \in Session, StepSave(s) PROVE TypeOK'
  <2>1. Charged(held[s], 1) \in Row
    BY <1>4, HeldIsRow DEF StepSave, Holding
  <2>2. row' \in [Session -> Row] /\ lossy' \in SUBSET Session
    BY <1>4, <2>1, SaveFacts DEF StepSave
  <2>3. PICK next \in {"stream", "ending"} : turn' = Set(turn, s, next)
    BY <1>4 DEF StepSave
  <2>. QED
    BY <1>4, <2>2, <2>3 DEF StepSave
<1>5. ASSUME NEW s \in Session, FailTurn(s) PROVE TypeOK'
  BY <1>5 DEF FailTurn, EndTurn
<1>6. ASSUME NEW s \in Session, FinishTurn(s) PROVE TypeOK'
  BY <1>6 DEF FinishTurn, EndTurn
<1>7. ASSUME NEW s \in Session, Summarize(s) PROVE TypeOK'
  BY <1>7 DEF Summarize
<1>8. ASSUME NEW s \in Session, SummarizeSave(s) PROVE TypeOK'
  <2> DEFINE new == [Charged(held[s], 1) EXCEPT !.summary = summaries[s] + 1]
  <2>1. Charged(held[s], 1) \in Row
    BY <1>8, HeldIsRow DEF SummarizeSave, Holding
  <2>2. new \in Row
    BY <2>1 DEF Row
  <2>3. Save(s, held[s], new)
    BY <1>8 DEF SummarizeSave
  <2>4. row' \in [Session -> Row] /\ lossy' \in SUBSET Session
    BY <2>2, <2>3, SaveFacts
  <2>5. due' \in [Session -> Nat]
    BY <1>8, DueGrows DEF SummarizeSave
  <2>6. summaries' \in [Session -> Nat]
    BY <1>8 DEF SummarizeSave
  <2>7. EndTurn(s, "ok") /\ UNCHANGED <<steps, title, todo, subVars, dialog, billed, renamed>>
    BY <1>8 DEF SummarizeSave
  <2> HIDE DEF new
  <2>. QED
    BY <2>4, <2>5, <2>6, <2>7 DEF EndTurn
<1>9. ASSUME NEW s \in Session, SummarizeFails(s) PROVE TypeOK'
  BY <1>9 DEF SummarizeFails, EndTurn
<1>10. ASSUME NEW s \in Session, TitleSaved(s) PROVE TypeOK'
  <2>1. Charged(row[s], 1) \in Row
    BY ChargedFacts
  <2>. QED
    BY <1>10, <2>1, DueGrows DEF TitleSaved
<1>11. ASSUME NEW s \in Session, TitleFails(s) PROVE TypeOK'
  BY <1>11 DEF TitleFails
<1>12. ASSUME NEW s \in Session, TodosGet(s) PROVE TypeOK'
  BY <1>12 DEF TodosGet
<1>13. ASSUME NEW s \in Session, TodosSave(s) PROVE TypeOK'
  <2>1. todo[s] \in Row
    BY <1>13 DEF TodosSave
  <2>2. row' \in [Session -> Row] /\ lossy' \in SUBSET Session
    BY <1>13, <2>1, SaveFacts DEF TodosSave
  <2>. QED
    BY <1>13, <2>2 DEF TodosSave
<1>14. ASSUME NEW s \in Session, TodosFails(s) PROVE TypeOK'
  BY <1>14 DEF TodosFails
<1>15. ASSUME NEW c \in Sub, GetParent(c) PROVE TypeOK'
  BY <1>15, ParentIsSession DEF GetParent
<1>16. ASSUME NEW c \in Sub, SaveParent(c) PROVE TypeOK'
  <2>0. c \in Session /\ Parent[c] \in Session
    BY ParentIsSession
  <2>1. billCopy[c] \in Row /\ row[c].cost \in Nat
    BY <1>16, <2>0 DEF SaveParent, CopiesHeld, Row
  <2>2. Charged(billCopy[c], row[c].cost) \in Row
    BY <2>1, ChargedFacts
  <2>3. Save(Parent[c], billCopy[c], Charged(billCopy[c], row[c].cost))
    BY <1>16 DEF SaveParent
  <2>4. row' \in [Session -> Row] /\ lossy' \in SUBSET Session
    BY <2>0, <2>2, <2>3, SaveFacts
  <2>5. due' \in [Session -> Nat]
    BY <1>16, <2>0 DEF SaveParent
  <2>. QED
    BY <1>16, <2>0, <2>4, <2>5 DEF SaveParent
<1>17. ASSUME NEW c \in Sub, NoBill(c) PROVE TypeOK'
  BY <1>17, ParentIsSession DEF NoBill
<1>18. ASSUME OpenDialog PROVE TypeOK'
  BY <1>18 DEF OpenDialog
<1>19. ASSUME NEW s \in Session, Rename(s) PROVE TypeOK'
  <2>1. dialog[s] \in Row /\ Sent(dialog[s]) \in Row
    BY <1>19 DEF Rename, Sent, Row
  <2>2. row' \in [Session -> Row] /\ lossy' \in SUBSET Session
    BY <1>19, <2>1, SaveFacts DEF Rename
  <2>. QED
    BY <1>19, <2>2 DEF Rename
<1>20. CASE UNCHANGED vars
  BY <1>20 DEF vars
<1>. QED
  BY <1>1, <1>2, <1>3, <1>4, <1>5, <1>6, <1>7, <1>8, <1>9, <1>10, <1>11,
     <1>12, <1>13, <1>14, <1>15, <1>16, <1>17, <1>18, <1>19, <1>20
     DEF Next, TurnStep, SubStep
-----------------------------------------------------------------------------
(* Whoever is to save holds a copy; a sub-agent is billed at most once.    *)
LEMMA HeldStep == TypeOK /\ CopiesHeld /\ [Next]_vars => CopiesHeld'
<1> SUFFICES ASSUME TypeOK, CopiesHeld, [Next]_vars PROVE CopiesHeld'
  OBVIOUS
<1> USE DEF TypeOK, CopiesHeld, Holding, Set, agentVars, subVars, ledgerVars
<1> USE NoRowFresh, ParentIsSession
<1>1. ASSUME NEW s \in Session, Prompt(s) PROVE CopiesHeld'
  BY <1>1 DEF Prompt, BeginTurn
<1>2. ASSUME NEW c \in Sub, Delegate(c) PROVE CopiesHeld'
  BY <1>2 DEF Delegate, BeginTurn
<1>3. ASSUME NEW s \in Session, StepGet(s) PROVE CopiesHeld'
  BY <1>3 DEF StepGet
<1>4. ASSUME NEW s \in Session, StepSave(s) PROVE CopiesHeld'
  BY <1>4 DEF StepSave
<1>5. ASSUME NEW s \in Session, FailTurn(s) PROVE CopiesHeld'
  BY <1>5 DEF FailTurn, EndTurn
<1>6. ASSUME NEW s \in Session, FinishTurn(s) PROVE CopiesHeld'
  BY <1>6 DEF FinishTurn, EndTurn
<1>7. ASSUME NEW s \in Session, Summarize(s) PROVE CopiesHeld'
  BY <1>7 DEF Summarize
<1>8. ASSUME NEW s \in Session, SummarizeSave(s) PROVE CopiesHeld'
  BY <1>8 DEF SummarizeSave, EndTurn
<1>9. ASSUME NEW s \in Session, SummarizeFails(s) PROVE CopiesHeld'
  BY <1>9 DEF SummarizeFails, EndTurn
<1>10. ASSUME NEW s \in Session, TitleSaved(s) \/ TitleFails(s) PROVE CopiesHeld'
  BY <1>10 DEF TitleSaved, TitleFails
<1>11. ASSUME NEW s \in Session, TodosGet(s) PROVE CopiesHeld'
  BY <1>11 DEF TodosGet
<1>12. ASSUME NEW s \in Session, TodosSave(s) \/ TodosFails(s) PROVE CopiesHeld'
  BY <1>12 DEF TodosSave, TodosFails
<1>13. ASSUME NEW c \in Sub, GetParent(c) PROVE CopiesHeld'
  BY <1>13 DEF GetParent, Returned
<1>14. ASSUME NEW c \in Sub, SaveParent(c) PROVE CopiesHeld'
  BY <1>14 DEF SaveParent
<1>15. ASSUME NEW c \in Sub, NoBill(c) PROVE CopiesHeld'
  BY <1>15 DEF NoBill, Returned
<1>16. ASSUME OpenDialog PROVE CopiesHeld'
  BY <1>16 DEF OpenDialog
<1>17. ASSUME NEW s \in Session, Rename(s) PROVE CopiesHeld'
  BY <1>17 DEF Rename
<1>18. CASE UNCHANGED vars
  BY <1>18 DEF vars
<1>. QED
  BY <1>1, <1>2, <1>3, <1>4, <1>5, <1>6, <1>7, <1>8, <1>9, <1>10, <1>11,
     <1>12, <1>13, <1>14, <1>15, <1>16, <1>17, <1>18 DEF Next, TurnStep, SubStep

(* A turn leaves its stream only when its tools are done, and no tool      *)
(* starts outside it.                                                      *)
LEMMA StreamStep == TypeOK /\ ToolsInStream /\ [Next]_vars => ToolsInStream'
<1> SUFFICES ASSUME TypeOK, ToolsInStream, [Next]_vars PROVE ToolsInStream'
  OBVIOUS
<1> USE DEF TypeOK, ToolsInStream, ToolsDone, Set, agentVars, subVars, ledgerVars
<1> USE ParentIsSession
<1>1. ASSUME NEW s \in Session, Prompt(s) PROVE ToolsInStream'
  BY <1>1 DEF Prompt, BeginTurn
<1>2. ASSUME NEW c \in Sub, Delegate(c) PROVE ToolsInStream'
  BY <1>2 DEF Delegate, BeginTurn
<1>3. ASSUME NEW s \in Session, StepGet(s) PROVE ToolsInStream'
  BY <1>3 DEF StepGet
<1>4. ASSUME NEW s \in Session, StepSave(s) PROVE ToolsInStream'
  BY <1>4 DEF StepSave
<1>5. ASSUME NEW s \in Session, FailTurn(s) PROVE ToolsInStream'
  BY <1>5 DEF FailTurn, EndTurn
<1>6. ASSUME NEW s \in Session, FinishTurn(s) PROVE ToolsInStream'
  BY <1>6 DEF FinishTurn, EndTurn
<1>7. ASSUME NEW s \in Session, Summarize(s) PROVE ToolsInStream'
  BY <1>7 DEF Summarize
<1>8. ASSUME NEW s \in Session, SummarizeSave(s) PROVE ToolsInStream'
  BY <1>8 DEF SummarizeSave, EndTurn
<1>9. ASSUME NEW s \in Session, SummarizeFails(s) PROVE ToolsInStream'
  BY <1>9 DEF SummarizeFails, EndTurn
<1>10. ASSUME NEW s \in Session, TitleSaved(s) \/ TitleFails(s) PROVE ToolsInStream'
  BY <1>10 DEF TitleSaved, TitleFails
<1>11. ASSUME NEW s \in Session, TodosGet(s) PROVE ToolsInStream'
  BY <1>11 DEF TodosGet
<1>12. ASSUME NEW s \in Session, TodosSave(s) \/ TodosFails(s) PROVE ToolsInStream'
  BY <1>12 DEF TodosSave, TodosFails
<1>13. ASSUME NEW c \in Sub, GetParent(c) PROVE ToolsInStream'
  BY <1>13 DEF GetParent, Returned
<1>14. ASSUME NEW c \in Sub, SaveParent(c) PROVE ToolsInStream'
  BY <1>14 DEF SaveParent
<1>15. ASSUME NEW c \in Sub, NoBill(c) PROVE ToolsInStream'
  BY <1>15 DEF NoBill, Returned
<1>16. ASSUME OpenDialog PROVE ToolsInStream'
  BY <1>16 DEF OpenDialog
<1>17. ASSUME NEW s \in Session, Rename(s) PROVE ToolsInStream'
  BY <1>17 DEF Rename
<1>18. CASE UNCHANGED vars
  BY <1>18 DEF vars
<1>. QED
  BY <1>1, <1>2, <1>3, <1>4, <1>5, <1>6, <1>7, <1>8, <1>9, <1>10, <1>11,
     <1>12, <1>13, <1>14, <1>15, <1>16, <1>17, <1>18 DEF Next, TurnStep, SubStep
-----------------------------------------------------------------------------
(* A step that only gives copies back, and leaves the row within the debt. *)
LEMMA StaysCovered ==
  ASSUME TypeOK, CopiesHeld, NEW x \in Session, Covered(x),
         due'[x] \in Nat, due[x] <= due'[x], row'[x].cost <= due'[x],
         held'[x] \in {held[x], NoRow}, todo'[x] \in {todo[x], NoRow},
         dialog'[x] = dialog[x],
         turn'[x] = "saving" => turn[x] = "saving" /\ held'[x] = held[x],
         \A c \in Sub : billCopy'[c] \in {billCopy[c], NoRow}
  PROVE  Covered(x)'
<1> USE DEF TypeOK, Covered, Row
<1>1. held'[x] # NoRow => held'[x].cost <= due'[x]
  OBVIOUS
<1>2. turn'[x] = "saving" => held'[x].cost + 1 <= due'[x]
  BY DEF CopiesHeld, Holding
<1>3. todo'[x] # NoRow => todo'[x].cost <= due'[x]
  OBVIOUS
<1>4. dialog'[x] # NoRow => dialog'[x].cost <= due'[x]
  OBVIOUS
<1>5. ASSUME NEW c \in Sub, Parent[c] = x, billCopy'[c] # NoRow
      PROVE  billCopy'[c].cost <= due'[x]
  <2>1. billCopy'[c] = billCopy[c] /\ billCopy[c] \in Row
    BY <1>5, ParentIsSession
  <2>2. billCopy[c].cost <= due[x] /\ billCopy[c].cost \in Nat
    BY <1>5, <2>1
  <2>. QED
    BY <2>1, <2>2
<1>. QED
  BY <1>1, <1>2, <1>3, <1>4, <1>5

(* Every copy, and so whatever a save writes, is within what is owed.      *)
LEMMA CostStep == TypeOK /\ CopiesHeld /\ CostsCovered /\ [Next]_vars => CostsCovered'
<1> SUFFICES ASSUME TypeOK, CopiesHeld, CostsCovered, [Next]_vars,
                    NEW x \in Session
             PROVE  Covered(x)'
  BY DEF CostsCovered
<1> USE DEF TypeOK, CostsCovered, Covered, Set, Row, agentVars, subVars, ledgerVars
<1> USE NoRowFresh, ParentIsSession
<1>1. ASSUME NEW s \in Session, Prompt(s) PROVE Covered(x)'
  BY <1>1 DEF Prompt, BeginTurn
<1>2. ASSUME NEW c \in Sub, Delegate(c) PROVE Covered(x)'
  BY <1>2 DEF Delegate, BeginTurn
<1>3. ASSUME NEW s \in Session, StepGet(s) PROVE Covered(x)'
  <2>1. due'[s] = due[s] + 1 /\ due[x] <= due'[x] /\ due'[x] \in Nat
    BY <1>3, DueGrows DEF StepGet
  <2>2. /\ UNCHANGED <<row, todo, dialog, billCopy>>
        /\ held' = Set(held, s, row[s])
        /\ turn' = Set(turn, s, "saving")
    BY <1>3 DEF StepGet
  <2>3. row[x].cost \in Nat /\ row'[x].cost <= due'[x]
    BY <2>1, <2>2
  <2>4. CASE x # s
    <3>1. held'[x] = held[x] /\ turn'[x] = turn[x]
      BY <2>2, <2>4
    <3>. QED
      BY <2>1, <2>2, <2>3, <3>1, StaysCovered
  <2>5. CASE x = s
    <3>1. held'[x].cost <= due'[x] /\ held'[x].cost + 1 <= due'[x]
      BY <2>1, <2>2, <2>3, <2>5
    <3>2. /\ todo'[x] # NoRow => todo'[x].cost <= due'[x]
          /\ dialog'[x] # NoRow => dialog'[x].cost <= due'[x]
      BY <2>1, <2>2
    <3>3. ASSUME NEW c \in Sub, Parent[c] = x, billCopy'[c] # NoRow
          PROVE  billCopy'[c].cost <= due'[x]
      <4>1. billCopy[c] \in Row /\ billCopy[c].cost <= due[x]
        BY <2>2, <3>3
      <4>. QED
        BY <2>1, <2>2, <4>1
    <3>. QED
      BY <2>3, <3>1, <3>2, <3>3
  <2>. QED
    BY <2>4, <2>5
<1>4. ASSUME NEW s \in Session, StepSave(s) PROVE Covered(x)'
  <2>1. /\ Charged(held[s], 1) \in Row
        /\ Charged(held[s], 1).cost = held[s].cost + 1
    BY <1>4, HeldIsRow, ChargedFacts DEF StepSave, Holding, CopiesHeld
  <2>2. row'[s] = Charged(held[s], 1) /\ (x # s => row'[x] = row[x])
    BY <1>4, <2>1, SaveFacts DEF StepSave
  <2>3. PICK next \in {"stream", "ending"} : turn' = Set(turn, s, next)
    BY <1>4 DEF StepSave
  <2>4. held[s] \in Row /\ held[s].cost + 1 <= due[s]
    BY <1>4, HeldIsRow DEF StepSave, Holding
  <2>5. row'[x].cost <= due'[x]
    BY <1>4, <2>1, <2>2, <2>4 DEF StepSave
  <2>6. UNCHANGED <<due, todo, dialog, billCopy>> /\ held' = Set(held, s, NoRow)
    BY <1>4 DEF StepSave
  <2>. QED
    BY <2>3, <2>5, <2>6, StaysCovered
<1>5. ASSUME NEW s \in Session, FailTurn(s) PROVE Covered(x)'
  BY <1>5 DEF FailTurn, EndTurn
<1>6. ASSUME NEW s \in Session, FinishTurn(s) PROVE Covered(x)'
  BY <1>6 DEF FinishTurn, EndTurn
<1>7. ASSUME NEW s \in Session, Summarize(s) PROVE Covered(x)'
  BY <1>7 DEF Summarize
<1>8. ASSUME NEW s \in Session, SummarizeSave(s) PROVE Covered(x)'
  <2> DEFINE new == [Charged(held[s], 1) EXCEPT !.summary = summaries[s] + 1]
  <2>1. /\ held[s] \in Row
        /\ Charged(held[s], 1) \in Row
        /\ Charged(held[s], 1).cost = held[s].cost + 1
    BY <1>8, HeldIsRow, ChargedFacts DEF SummarizeSave, Holding, CopiesHeld
  <2>2. new \in Row /\ new.cost = held[s].cost + 1
    BY <2>1
  <2>3. Save(s, held[s], new)
    BY <1>8 DEF SummarizeSave
  <2>4. row'[s].cost = held[s].cost + 1 /\ (x # s => row'[x] = row[x])
    BY <2>2, <2>3, SaveFacts
  <2>5. due'[s] = due[s] + 1 /\ due[x] <= due'[x] /\ due'[x] \in Nat
    BY <1>8, DueGrows DEF SummarizeSave
  <2>6. held[s] # NoRow
    BY <2>1
  <2>7. EndTurn(s, "ok") /\ UNCHANGED <<todo, subVars, dialog>>
    BY <1>8 DEF SummarizeSave
  <2>8. row'[x].cost <= due'[x]
    BY <2>1, <2>4, <2>5, <2>6
  <2>9. /\ held'[x] \in {held[x], NoRow}
        /\ turn'[x] = "saving" => turn[x] = "saving" /\ held'[x] = held[x]
    BY <2>7 DEF EndTurn
  <2> HIDE DEF new
  <2>. QED
    BY <2>5, <2>7, <2>8, <2>9, StaysCovered
<1>9. ASSUME NEW s \in Session, SummarizeFails(s) PROVE Covered(x)'
  BY <1>9 DEF SummarizeFails, EndTurn
<1>10. ASSUME NEW s \in Session, TitleSaved(s) PROVE Covered(x)'
  <2>1. Charged(row[s], 1).cost = row[s].cost + 1
    BY ChargedFacts
  <2>2. row'[s].cost = row[s].cost + 1 /\ (x # s => row'[x] = row[x])
    BY <1>10, <2>1 DEF TitleSaved
  <2>3. due'[s] = due[s] + 1 /\ due[x] <= due'[x] /\ due'[x] \in Nat
    BY <1>10, DueGrows DEF TitleSaved
  <2>4. row'[x].cost <= due'[x]
    BY <2>2, <2>3
  <2>. QED
    BY <1>10, <2>3, <2>4, StaysCovered DEF TitleSaved
<1>11. ASSUME NEW s \in Session, TitleFails(s) PROVE Covered(x)'
  BY <1>11 DEF TitleFails
<1>12. ASSUME NEW s \in Session, TodosGet(s) PROVE Covered(x)'
  BY <1>12 DEF TodosGet
<1>13. ASSUME NEW s \in Session, TodosSave(s) PROVE Covered(x)'
  <2>1. todo[s] \in Row
    BY <1>13 DEF TodosSave
  <2>2. row'[s] = todo[s] /\ (x # s => row'[x] = row[x])
    BY <1>13, <2>1, SaveFacts DEF TodosSave
  <2>. QED
    BY <1>13, <2>1, <2>2 DEF TodosSave
<1>14. ASSUME NEW s \in Session, TodosFails(s) PROVE Covered(x)'
  BY <1>14 DEF TodosFails
<1>15. ASSUME NEW c \in Sub, GetParent(c) PROVE Covered(x)'
  BY <1>15 DEF GetParent
<1>16. ASSUME NEW c \in Sub, SaveParent(c) PROVE Covered(x)'
  <2> DEFINE p == Parent[c]
             new == Charged(billCopy[c], row[c].cost)
  <2>0. c \in Session /\ p \in Session /\ c \notin billed
    BY <1>16 DEF SaveParent, CopiesHeld
  <2>1. billCopy[c] \in Row /\ billCopy[c] # NoRow /\ row[c].cost \in Nat
    BY <1>16, <2>0 DEF SaveParent, CopiesHeld
  <2>2. new \in Row /\ new.cost = billCopy[c].cost + row[c].cost
    BY <2>1, ChargedFacts
  <2>3. row'[p] = new /\ (x # p => row'[x] = row[x])
    BY <1>16, <2>0, <2>2, SaveFacts DEF SaveParent
  <2>4. due' = [due EXCEPT ![p] = due[p] + due[c]]
    BY <1>16, <2>0 DEF SaveParent
  <2>5. due'[p] = due[p] + due[c] /\ due[x] <= due'[x] /\ due'[x] \in Nat
    BY <2>0, <2>4
  <2>6. row'[p].cost <= due'[p]
    BY <2>0, <2>1, <2>2, <2>3, <2>5
  <2>7. UNCHANGED <<turn, held, todo, dialog>> /\ billCopy' = [billCopy EXCEPT ![c] = NoRow]
    BY <1>16 DEF SaveParent
  <2>8. row'[x].cost <= due'[x]
    BY <2>3, <2>5, <2>6
  <2>9. \A d \in Sub : billCopy'[d] \in {billCopy[d], NoRow}
    BY <2>7
  <2> HIDE DEF p, new
  <2>. QED
    BY <2>5, <2>7, <2>8, <2>9, StaysCovered
<1>17. ASSUME NEW c \in Sub, NoBill(c) PROVE Covered(x)'
  BY <1>17 DEF NoBill
<1>18. ASSUME OpenDialog PROVE Covered(x)'
  BY <1>18 DEF OpenDialog
<1>19. ASSUME NEW s \in Session, Rename(s) PROVE Covered(x)'
  <2>1. dialog[s] \in Row /\ Sent(dialog[s]) \in Row /\ Sent(dialog[s]).cost = dialog[s].cost
    BY <1>19 DEF Rename, Sent
  <2>2. row'[s] = Sent(dialog[s]) /\ (x # s => row'[x] = row[x])
    BY <1>19, <2>1, SaveFacts DEF Rename
  <2>. QED
    BY <1>19, <2>1, <2>2 DEF Rename
<1>20. CASE UNCHANGED vars
  BY <1>20 DEF vars
<1>. QED
  BY <1>1, <1>2, <1>3, <1>4, <1>5, <1>6, <1>7, <1>8, <1>9, <1>10, <1>11,
     <1>12, <1>13, <1>14, <1>15, <1>16, <1>17, <1>18, <1>19, <1>20
     DEF Next, TurnStep, SubStep
-----------------------------------------------------------------------------
(* A step that keeps a row's pointer and only gives copies back.           *)
LEMMA StaysFresh ==
  ASSUME TypeOK, NEW x \in Session, Fresh(x),
         row'[x].summary = row[x].summary, summaries'[x] = summaries[x],
         turn'[x] \in Holding => turn[x] \in Holding /\ held'[x] = held[x],
         todo'[x] \in {todo[x], NoRow},
         \A c \in Sub : bill'[c] = "hold" => bill[c] = "hold" /\ billCopy'[c] = billCopy[c]
  PROVE  Fresh(x)' /\ row'[x].summary >= row[x].summary
<1>1. Fresh(x)'
  BY DEF Fresh
<1>2. row[x].summary \in Nat
  BY DEF TypeOK, Row
<1>. QED
  BY <1>1, <1>2

(* The pointer of a row and of its copies changes only when a summary is   *)
(* saved, and then there are no copies.                                    *)
LEMMA FreshStep ==
  TypeOK /\ CopiesHeld /\ ToolsInStream /\ PointersFresh /\ [Next]_vars
      => PointersFresh' /\ PointersGrow
<1> DEFINE Goal(x) == Fresh(x)' /\ row'[x].summary >= row[x].summary
<1> SUFFICES ASSUME TypeOK, CopiesHeld, ToolsInStream, PointersFresh, [Next]_vars,
                    NEW x \in Session, x \notin renamed'
             PROVE  Goal(x)
  BY DEF PointersFresh, PointersGrow
<1>0. x \notin renamed /\ Fresh(x)
  <2>1. renamed \subseteq renamed'
    BY DEF Next, TurnStep, SubStep, Prompt, BeginTurn, Delegate, StepGet, StepSave,
           FailTurn, FinishTurn, Summarize, SummarizeSave, SummarizeFails, TitleSaved,
           TitleFails, TodosGet, TodosSave, TodosFails, GetParent, SaveParent, NoBill,
           OpenDialog, Rename, vars
  <2>. QED
    BY <2>1 DEF PointersFresh
<1>00. row[x].summary \in Nat
  BY DEF TypeOK, Row
<1> USE DEF TypeOK, Set, Holding, agentVars, subVars, ledgerVars
<1> USE ParentIsSession, <1>0, <1>00
<1>1. ASSUME NEW s \in Session, Prompt(s) PROVE Goal(x)
  BY <1>1, StaysFresh DEF Prompt, BeginTurn
<1>2. ASSUME NEW c \in Sub, Delegate(c) PROVE Goal(x)
  BY <1>2, StaysFresh DEF Delegate, BeginTurn
<1>3. ASSUME NEW s \in Session, StepGet(s) PROVE Goal(x)
  BY <1>3 DEF StepGet, Fresh
<1>4. ASSUME NEW s \in Session, StepSave(s) PROVE Goal(x)
  <2>1. /\ Charged(held[s], 1) \in Row
        /\ Charged(held[s], 1).summary = held[s].summary
    BY <1>4, HeldIsRow, ChargedFacts DEF StepSave, CopiesHeld
  <2>2. row'[s] = Charged(held[s], 1) /\ (x # s => row'[x] = row[x])
    BY <1>4, <2>1, SaveFacts DEF StepSave
  <2>3. PICK next \in {"stream", "ending"} : turn' = Set(turn, s, next)
    BY <1>4 DEF StepSave
  <2>4. row'[x].summary = row[x].summary
    BY <1>4, <2>1, <2>2 DEF StepSave, Fresh
  <2>5. UNCHANGED <<summaries, todo, bill, billCopy>> /\ held' = Set(held, s, NoRow)
    BY <1>4 DEF StepSave
  <2>. QED
    BY <2>3, <2>4, <2>5, StaysFresh
<1>5. ASSUME NEW s \in Session, FailTurn(s) PROVE Goal(x)
  BY <1>5, StaysFresh DEF FailTurn, EndTurn
<1>6. ASSUME NEW s \in Session, FinishTurn(s) PROVE Goal(x)
  BY <1>6, StaysFresh DEF FinishTurn, EndTurn
<1>7. ASSUME NEW s \in Session, Summarize(s) PROVE Goal(x)
  BY <1>7 DEF Summarize, Fresh
<1>8. ASSUME NEW s \in Session, SummarizeSave(s) PROVE Goal(x)
  <2> DEFINE new == [Charged(held[s], 1) EXCEPT !.summary = summaries[s] + 1]
  <2>1. Charged(held[s], 1) \in Row /\ summaries[s] + 1 \in Nat
    BY <1>8, HeldIsRow DEF SummarizeSave
  <2>2. new \in Row /\ new.summary = summaries[s] + 1
    <3> HIDE DEF TypeOK, Holding
    <3>. QED
      BY <2>1, PointedFacts
  <2>3. Save(s, held[s], new)
    BY <1>8 DEF SummarizeSave
  <2> HIDE DEF new
  <2>4. row'[s].summary = summaries[s] + 1 /\ (x # s => row'[x] = row[x])
    BY <2>2, <2>3, SaveFacts
  <2>5. /\ summaries' = Set(summaries, s, summaries[s] + 1)
        /\ turn' = Set(turn, s, "idle")
        /\ held' = Set(held, s, NoRow)
        /\ UNCHANGED <<todo, bill, billCopy>>
    BY <1>8 DEF SummarizeSave, EndTurn
  <2>6. ToolsDone(s)
    BY <1>8 DEF SummarizeSave, ToolsInStream
  <2>7. CASE x = s
    BY <2>4, <2>5, <2>6, <2>7 DEF Fresh, ToolsDone, Row
  <2>8. CASE x # s
    BY <2>4, <2>5, <2>8, StaysFresh
  <2>. QED
    BY <2>7, <2>8
<1>9. ASSUME NEW s \in Session, SummarizeFails(s) PROVE Goal(x)
  BY <1>9, StaysFresh DEF SummarizeFails, EndTurn
<1>10. ASSUME NEW s \in Session, TitleSaved(s) PROVE Goal(x)
  <2>1. Charged(row[s], 1).summary = row[s].summary
    BY ChargedFacts
  <2>2. row'[x].summary = row[x].summary
    BY <1>10, <2>1 DEF TitleSaved
  <2>. QED
    BY <1>10, <2>2, StaysFresh DEF TitleSaved
<1>11. ASSUME NEW s \in Session, TitleFails(s) PROVE Goal(x)
  BY <1>11, StaysFresh DEF TitleFails
<1>12. ASSUME NEW s \in Session, TodosGet(s) PROVE Goal(x)
  BY <1>12 DEF TodosGet, Fresh
<1>13. ASSUME NEW s \in Session, TodosSave(s) PROVE Goal(x)
  <2>1. todo[s] \in Row
    BY <1>13 DEF TodosSave
  <2>2. row'[s] = todo[s] /\ (x # s => row'[x] = row[x])
    BY <1>13, <2>1, SaveFacts DEF TodosSave
  <2>3. row'[x].summary = row[x].summary
    BY <1>13, <2>2 DEF TodosSave, Fresh
  <2>. QED
    BY <1>13, <2>3, StaysFresh DEF TodosSave
<1>14. ASSUME NEW s \in Session, TodosFails(s) PROVE Goal(x)
  BY <1>14, StaysFresh DEF TodosFails
<1>15. ASSUME NEW c \in Sub, GetParent(c) PROVE Goal(x)
  BY <1>15 DEF GetParent, Fresh
<1>16. ASSUME NEW c \in Sub, SaveParent(c) PROVE Goal(x)
  <2> DEFINE p == Parent[c]
             new == Charged(billCopy[c], row[c].cost)
  <2>0. c \in Session /\ p \in Session
    OBVIOUS
  <2>1. billCopy[c] \in Row /\ row[c].cost \in Nat
    BY <1>16, <2>0 DEF SaveParent, CopiesHeld, Row
  <2>2. new \in Row /\ new.summary = billCopy[c].summary
    BY <2>1, ChargedFacts
  <2>3. row'[p] = new /\ (x # p => row'[x] = row[x])
    BY <1>16, <2>0, <2>2, SaveFacts DEF SaveParent
  <2>4. row'[x].summary = row[x].summary
    BY <1>16, <2>2, <2>3 DEF SaveParent, Fresh
  <2>5. /\ UNCHANGED <<turn, held, summaries, todo>>
        /\ bill' = [bill EXCEPT ![c] = "done"]
        /\ billCopy' = [billCopy EXCEPT ![c] = NoRow]
    BY <1>16 DEF SaveParent
  <2> HIDE DEF p, new
  <2>. QED
    BY <2>0, <2>4, <2>5, StaysFresh
<1>17. ASSUME NEW c \in Sub, NoBill(c) PROVE Goal(x)
  BY <1>17, StaysFresh DEF NoBill
<1>18. ASSUME OpenDialog PROVE Goal(x)
  BY <1>18, StaysFresh DEF OpenDialog
<1>19. ASSUME NEW s \in Session, Rename(s) PROVE Goal(x)
  <2>1. x # s
    BY <1>19 DEF Rename
  <2>2. dialog[s] \in Row /\ Sent(dialog[s]) \in Row
    BY <1>19 DEF Rename, Sent, Row
  <2>3. row'[x] = row[x]
    BY <1>19, <2>1, <2>2, SaveFacts DEF Rename
  <2>. QED
    BY <1>19, <2>3, StaysFresh DEF Rename
<1>20. CASE UNCHANGED vars
  BY <1>20, StaysFresh DEF vars
<1>. QED
  BY <1>1, <1>2, <1>3, <1>4, <1>5, <1>6, <1>7, <1>8, <1>9, <1>10, <1>11,
     <1>12, <1>13, <1>14, <1>15, <1>16, <1>17, <1>18, <1>19, <1>20
     DEF Next, TurnStep, SubStep
-----------------------------------------------------------------------------
(* A sub-agent is billed when its Run has returned, and is not run again.  *)
LEMMA SettledStep ==
  TypeOK /\ BillsSettled /\ [Next]_vars => BillsSettled'
<1> SUFFICES ASSUME TypeOK, BillsSettled, [Next]_vars, NEW x \in Session,
                    bill'[x] \in {"hold", "done"}
             PROVE  x \in Sub /\ turn'[x] = "idle" /\ title'[x] # "running"
  BY DEF BillsSettled
<1> USE DEF TypeOK, BillsSettled, Set, agentVars, subVars, ledgerVars
<1>1. ASSUME NEW s \in Session, Prompt(s)
      PROVE  x \in Sub /\ turn'[x] = "idle" /\ title'[x] # "running"
  BY <1>1 DEF Prompt, BeginTurn, Sub
<1>2. ASSUME NEW c \in Sub, Delegate(c)
      PROVE  x \in Sub /\ turn'[x] = "idle" /\ title'[x] # "running"
  BY <1>2 DEF Delegate, BeginTurn, Sub
<1>3. ASSUME NEW s \in Session,
             \/ StepGet(s) \/ StepSave(s) \/ FailTurn(s) \/ FinishTurn(s)
             \/ SummarizeSave(s) \/ SummarizeFails(s)
      PROVE  x \in Sub /\ turn'[x] = "idle" /\ title'[x] # "running"
  <2>1. /\ bill' = bill /\ title' = title /\ turn[s] # "idle"
        /\ \A t \in Session : t # s => turn'[t] = turn[t]
    BY <1>3 DEF StepGet, StepSave, FailTurn, FinishTurn, SummarizeSave,
                SummarizeFails, EndTurn
  <2>. QED
    BY <2>1
<1>4. ASSUME NEW s \in Session, Summarize(s)
      PROVE  x \in Sub /\ turn'[x] = "idle" /\ title'[x] # "running"
  BY <1>4 DEF Summarize, Sub
<1>5. ASSUME NEW s \in Session, TitleSaved(s) \/ TitleFails(s)
      PROVE  x \in Sub /\ turn'[x] = "idle" /\ title'[x] # "running"
  BY <1>5 DEF TitleSaved, TitleFails
<1>6. ASSUME NEW s \in Session,
             TodosGet(s) \/ TodosSave(s) \/ TodosFails(s) \/ Rename(s)
      PROVE  x \in Sub /\ turn'[x] = "idle" /\ title'[x] # "running"
  BY <1>6 DEF TodosGet, TodosSave, TodosFails, Rename
<1>7. ASSUME NEW c \in Sub, GetParent(c) \/ SaveParent(c) \/ NoBill(c)
      PROVE  x \in Sub /\ turn'[x] = "idle" /\ title'[x] # "running"
  <2>1. /\ turn' = turn /\ title' = title /\ c \in Session
        /\ \A t \in Session : t # c => bill'[t] = bill[t]
        /\ bill[c] = "hold" \/ Returned(c)
    BY <1>7 DEF GetParent, SaveParent, NoBill, Sub
  <2>. QED
    BY <2>1 DEF Returned
<1>8. CASE OpenDialog \/ UNCHANGED vars
  BY <1>8 DEF OpenDialog, vars
<1>. QED
  BY <1>1, <1>2, <1>3, <1>4, <1>5, <1>6, <1>7, <1>8 DEF Next, TurnStep, SubStep

(* A step that leaves a row's cost, its debt and its step alone.           *)
LEMMA StaysBalanced ==
  ASSUME NEW x \in Session, Balanced(x), lossy \subseteq lossy',
         row'[x].cost = row[x].cost, due'[x] = due[x],
         turn'[x] = "saving" <=> turn[x] = "saving"
  PROVE  Balanced(x)'
<1>1. Sound(x)' => Sound(x)
  BY DEF Sound
<1>. QED
  BY <1>1 DEF Balanced

(* What was lost stays lost.                                               *)
LEMMA LossyGrows ==
  ASSUME TypeOK, [Next]_vars
  PROVE  lossy \subseteq lossy'
BY DEF Next, TurnStep, SubStep, Prompt, BeginTurn, Delegate, StepGet, StepSave,
       FailTurn, FinishTurn, Summarize, SummarizeSave, SummarizeFails, TitleSaved,
       TitleFails, TodosGet, TodosSave, TodosFails, GetParent, SaveParent, NoBill,
       OpenDialog, Rename, Save, ledgerVars, vars

(* A save of a copy that is not the row any more is counted as lossy.      *)
LEMMA SaveLoses ==
  ASSUME NEW s \in Session, NEW copy, NEW new, Save(s, copy, new),
         Sound(s)'
  PROVE  copy.cost = row[s].cost
BY DEF Save, Sound

(* Nobody who still spends is on a bill.                                   *)
LEMMA SpendingIsOwn ==
  ASSUME TypeOK, CopiesHeld, BillsSettled, NEW s \in Session,
         turn[s] # "idle" \/ title[s] = "running"
  PROVE  \A x \in Session : x # s => DueAfter(s)[x] = due[x]
<1>1. s \notin billed
  BY DEF CopiesHeld, BillsSettled
<1>. QED
  BY <1>1 DEF DueAfter

LEMMA BooksStep ==
  TypeOK /\ CopiesHeld /\ BillsSettled /\ BooksKept /\ [Next]_vars => BooksKept'
<1> SUFFICES ASSUME TypeOK, CopiesHeld, BillsSettled, BooksKept, [Next]_vars,
                    NEW x \in Session
             PROVE  Balanced(x)'
  BY DEF BooksKept
<1>0. /\ Balanced(x) /\ lossy \subseteq lossy'
      /\ row[x].cost \in Nat /\ due[x] \in Nat
      /\ Sound(x)' => Sound(x)
  BY LossyGrows DEF BooksKept, TypeOK, Row, Sound
<1> USE DEF agentVars, subVars, ledgerVars
<1>1. CASE UNCHANGED <<row, turn, due>>
  BY <1>0, <1>1, StaysBalanced
<1>2. ASSUME NEW s \in Session, BeginTurn(s) PROVE Balanced(x)'
  <2>1. /\ UNCHANGED <<row, due>>
        /\ turn'[x] = "saving" <=> turn[x] = "saving"
    BY <1>2 DEF BeginTurn, Set, TypeOK
  <2>. QED
    BY <1>0, <2>1, StaysBalanced
<1>3. ASSUME NEW s \in Session, StepGet(s) PROVE Balanced(x)'
  <2>1. /\ row' = row /\ turn[s] = "stream" /\ turn'[s] = "saving"
        /\ \A t \in Session : t # s => turn'[t] = turn[t]
        /\ due' = DueAfter(s)
    BY <1>3 DEF StepGet, Set, TypeOK
  <2>2. /\ due'[s] = due[s] + 1
        /\ x # s => due'[x] = due[x]
    BY <2>1, DueGrows, SpendingIsOwn
  <2>3. CASE x = s
    BY <1>0, <2>1, <2>2, <2>3 DEF Balanced
  <2>4. CASE x # s
    BY <1>0, <2>1, <2>2, <2>4, StaysBalanced
  <2>. QED
    BY <2>3, <2>4
<1>4. ASSUME NEW s \in Session, StepSave(s) PROVE Balanced(x)'
  <2>1. /\ Charged(held[s], 1) \in Row
        /\ Charged(held[s], 1).cost = held[s].cost + 1
        /\ Save(s, held[s], Charged(held[s], 1))
        /\ due' = due /\ turn[s] = "saving"
    BY <1>4, HeldIsRow, ChargedFacts DEF StepSave, Holding
  <2>2. /\ turn'[s] # "saving"
        /\ \A t \in Session : t # s => turn'[t] = turn[t]
    BY <1>4 DEF StepSave, Set, TypeOK
  <2>3. row'[s].cost = held[s].cost + 1 /\ (x # s => row'[x] = row[x])
    BY <2>1, SaveFacts
  <2>4. CASE x = s
    <3>1. Sound(x)' => held[s].cost = row[s].cost
      BY <2>1, <2>4, SaveLoses
    <3>. QED
      BY <1>0, <2>1, <2>2, <2>3, <2>4, <3>1 DEF Balanced
  <2>5. CASE x # s
    BY <1>0, <2>1, <2>2, <2>3, <2>5, StaysBalanced
  <2>. QED
    BY <2>4, <2>5
<1>5. ASSUME NEW s \in Session, FailTurn(s) PROVE Balanced(x)'
  <2>1. /\ UNCHANGED <<row, due>> /\ turn'[s] = "idle"
        /\ \A t \in Session : t # s => turn'[t] = turn[t]
        /\ turn[s] = "saving" => s \in lossy'
    BY <1>5 DEF FailTurn, EndTurn, Set, TypeOK
  <2>2. CASE x = s /\ turn[s] = "saving"
    BY <2>1, <2>2 DEF Balanced, Sound
  <2>3. CASE ~(x = s /\ turn[s] = "saving")
    BY <1>0, <2>1, <2>3, StaysBalanced
  <2>. QED
    BY <2>2, <2>3
<1>6. ASSUME NEW s \in Session,
             FinishTurn(s) \/ Summarize(s) \/ SummarizeFails(s)
      PROVE  Balanced(x)'
  <2>1. /\ UNCHANGED <<row, due>> /\ turn[s] # "saving" /\ turn'[s] # "saving"
        /\ \A t \in Session : t # s => turn'[t] = turn[t]
    BY <1>6 DEF FinishTurn, Summarize, SummarizeFails, EndTurn, Set, TypeOK
  <2>. QED
    BY <1>0, <2>1, StaysBalanced
<1>7. ASSUME NEW s \in Session, SummarizeSave(s) PROVE Balanced(x)'
  <2> DEFINE new == [Charged(held[s], 1) EXCEPT !.summary = summaries[s] + 1]
  <2>9. turn[s] = "summarizing"
    BY <1>7 DEF SummarizeSave
  <2>10. held[s] \in Row
    BY <2>9, HeldIsRow DEF Holding
  <2>11. summaries[s] + 1 \in Nat
    BY DEF TypeOK
  <2>1. /\ held[s] \in Row /\ Charged(held[s], 1) \in Row
        /\ Charged(held[s], 1).cost = held[s].cost + 1
        /\ summaries[s] + 1 \in Nat
    BY <2>10, <2>11, ChargedFacts
  <2>2. new \in Row /\ new.cost = held[s].cost + 1
    BY <2>1, PointedFacts
  <2>3. Save(s, held[s], new) /\ due' = DueAfter(s) /\ turn[s] = "summarizing"
    BY <1>7 DEF SummarizeSave
  <2>4. /\ turn'[s] = "idle"
        /\ \A t \in Session : t # s => turn'[t] = turn[t]
    BY <1>7 DEF SummarizeSave, EndTurn, Set, TypeOK
  <2> HIDE DEF new
  <2>5. row'[s].cost = held[s].cost + 1 /\ (x # s => row'[x] = row[x])
    BY <2>2, <2>3, SaveFacts
  <2>6. /\ due'[s] = due[s] + 1
        /\ x # s => due'[x] = due[x]
    BY <2>3, DueGrows, SpendingIsOwn
  <2>7. CASE x = s
    <3>1. Sound(x)' => held[s].cost = row[s].cost
      BY <2>3, <2>7, SaveLoses
    <3>. QED
      BY <1>0, <2>3, <2>4, <2>5, <2>6, <2>7, <3>1 DEF Balanced
  <2>8. CASE x # s
    BY <1>0, <2>4, <2>5, <2>6, <2>8, StaysBalanced
  <2>. QED
    BY <2>7, <2>8
<1>8. ASSUME NEW s \in Session, TitleSaved(s) PROVE Balanced(x)'
  <2>1. Charged(row[s], 1).cost = row[s].cost + 1
    BY ChargedFacts DEF TypeOK
  <2>2. /\ row'[s].cost = row[s].cost + 1 /\ (x # s => row'[x] = row[x])
        /\ turn' = turn /\ title[s] = "running" /\ due' = DueAfter(s)
    BY <1>8, <2>1 DEF TitleSaved, Set, TypeOK
  <2>3. /\ due'[s] = due[s] + 1
        /\ x # s => due'[x] = due[x]
    BY <2>2, DueGrows, SpendingIsOwn
  <2>4. CASE x = s
    BY <1>0, <2>2, <2>3, <2>4 DEF Balanced
  <2>5. CASE x # s
    BY <1>0, <2>2, <2>3, <2>5, StaysBalanced
  <2>. QED
    BY <2>4, <2>5
<1>9. ASSUME NEW s \in Session, NEW copy \in Row, NEW new \in Row,
             new.cost = copy.cost, Save(s, copy, new), UNCHANGED <<due, turn>>
      PROVE  Balanced(x)'
  <2>1. row'[s].cost = copy.cost /\ (x # s => row'[x] = row[x])
    BY <1>9, SaveFacts
  <2>2. CASE x = s
    <3>1. Sound(x)' => copy.cost = row[s].cost
      BY <1>9, <2>2, SaveLoses
    <3>. QED
      BY <1>0, <1>9, <2>1, <2>2, <3>1 DEF Balanced
  <2>3. CASE x # s
    BY <1>0, <1>9, <2>1, <2>3, StaysBalanced
  <2>. QED
    BY <2>2, <2>3
<1>10. ASSUME NEW s \in Session, TodosSave(s) PROVE Balanced(x)'
  <2>1. todo[s] \in Row
    BY <1>10 DEF TodosSave, TypeOK
  <2>. QED
    BY <1>9, <1>10, <2>1 DEF TodosSave
<1>11. ASSUME NEW s \in Session, Rename(s) PROVE Balanced(x)'
  <2>1. dialog[s] \in Row
    BY <1>11 DEF Rename, TypeOK
  <2>2. Sent(dialog[s]) \in Row /\ Sent(dialog[s]).cost = dialog[s].cost
    BY <2>1, PointedFacts DEF Sent
  <2>. QED
    BY <1>9, <1>11, <2>1, <2>2 DEF Rename
<1>12. ASSUME NEW c \in Sub, SaveParent(c) PROVE Balanced(x)'
  <2> DEFINE p == Parent[c]
             new == Charged(billCopy[c], row[c].cost)
  <2>0. c \in Session /\ p \in Session
    BY ParentIsSession
  <2>1. billCopy[c] \in Row /\ row[c].cost \in Nat /\ c \notin billed
    BY <1>12, <2>0 DEF SaveParent, CopiesHeld, TypeOK, Row
  <2>2. new \in Row /\ new.cost = billCopy[c].cost + row[c].cost
    BY <2>1, ChargedFacts
  <2>3. /\ Save(p, billCopy[c], new) /\ turn' = turn
        /\ due' = Set(due, p, due[p] + due[c]) /\ bill[c] = "hold"
    BY <1>12, <2>1 DEF SaveParent
  <2> HIDE DEF new
  <2>4. row'[p].cost = billCopy[c].cost + row[c].cost
        /\ (x # p => row'[x] = row[x])
    BY <2>0, <2>2, <2>3, SaveFacts
  <2>5. /\ due'[p] = due[p] + due[c]
        /\ x # p => due'[x] = due[x]
    BY <2>0, <2>3 DEF Set, TypeOK
  <2>6. CASE x = p
    <3>1. ASSUME Sound(x)' PROVE row[c].cost = due[c]
      <4>1. c \notin lossy
        BY <1>0, <2>6, <3>1 DEF Sound
      <4>2. \A d \in Sub : Parent[d] # c
        BY <2>0, OneLevel, NoSessionFresh DEF Sub, Root
      <4>3. turn[c] = "idle"
        BY <2>0, <2>3 DEF BillsSettled
      <4>. QED
        BY <2>0, <4>1, <4>2, <4>3 DEF BooksKept, Balanced, Sound
    <3>2. Sound(x)' => billCopy[c].cost = row[p].cost
      BY <2>0, <2>3, <2>6, SaveLoses
    <3> HIDE DEF p
    <3>. QED
      BY <1>0, <2>1, <2>3, <2>4, <2>5, <2>6, <3>1, <3>2 DEF Balanced
  <2>7. CASE x # p
    BY <1>0, <2>3, <2>4, <2>5, <2>7, StaysBalanced
  <2>. QED
    BY <2>6, <2>7
<1>13. \/ UNCHANGED <<row, turn, due>>
       \/ \E s \in Session : \/ BeginTurn(s) \/ StepGet(s) \/ StepSave(s)
                            \/ FailTurn(s) \/ FinishTurn(s) \/ Summarize(s)
                            \/ SummarizeSave(s) \/ SummarizeFails(s)
                            \/ TitleSaved(s) \/ TodosSave(s) \/ Rename(s)
       \/ \E c \in Sub : SaveParent(c)
  BY DEF Next, TurnStep, SubStep, Prompt, Delegate, Sub, TitleFails, TodosGet,
         TodosFails, GetParent, NoBill, OpenDialog, vars
<1>. QED
  BY <1>1, <1>2, <1>3, <1>4, <1>5, <1>6, <1>7, <1>8, <1>10, <1>11, <1>12, <1>13
-----------------------------------------------------------------------------
(* The theorems.                                                           *)

(* The invariant holds, for any sub-agents and whichever saves fail.       *)
THEOREM Invariance == Spec => []IInv
<1>1. IInv /\ [Next]_vars => IInv'
  BY TypeStep, HeldStep, StreamStep, CostStep, FreshStep, SettledStep, BooksStep
     DEF IInv
<1>. QED
  BY InitIInv, <1>1, PTL DEF Spec

(* The variables keep their types.                                         *)
THEOREM TypeCorrect == Spec => []TypeOK
<1>1. IInv => TypeOK
  BY DEF IInv
<1>. QED
  BY Invariance, <1>1, PTL

(* However many sub-agents, titles, lists and renames save a session's row *)
(* at once, it never shows more than the work that is on its bill.         *)
THEOREM NothingChargedTwice == Spec => []NeverOvercharged
<1>1. IInv => NeverOvercharged
  BY DEF IInv, CostsCovered, Covered, NeverOvercharged
<1>. QED
  BY Invariance, <1>1, PTL

(* Unless the dialog renames a session, its summary pointer never goes     *)
(* back: parallel sub-agents, the todos tool, the steps of a turn and the  *)
(* title generator save rows that have the current one.                    *)
THEOREM PointerNeverLost == Spec => SummaryKept
<1>1. IInv /\ [Next]_vars => [PointersGrow]_vars
  BY FreshStep DEF IInv
<1>. QED
  BY Invariance, <1>1, PTL DEF Spec, SummaryKept, PointersGrow

(* Where no save failed or undid another, a session shows exactly what its *)
(* work, its summaries and titles and its sub-agents have cost, for any    *)
(* number of sub-agents.                                                   *)
THEOREM BooksAreExact == Spec => []BooksBalance
<1>1. IInv => BooksBalance
  BY DEF IInv, BooksKept, Balanced, BooksBalance
<1>. QED
  BY Invariance, <1>1, PTL
=============================================================================
