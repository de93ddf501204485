------------------------- MODULE SessionAgentProofs -------------------------
(***************************************************************************)
(* Proofs about SessionAgent, for any sessions, prompts and number of      *)
(* automatic summaries, with or without faults, in three parts:            *)
(*   - its type invariant, that a session runs one turn at a time, that no *)
(*     session is left busy, and that only the owner of an entry removes   *)
(*     it;                                                                 *)
(*   - AgentShutdown, which builds on it: what CancelAll cancelled has     *)
(*     ended when the database is closed;                                  *)
(*   - what becomes of a prompt.                                           *)
(***************************************************************************)
EXTENDS AgentShutdown, TLAPS

(* A goroutine in a turn finds its own token in activeRequests.            *)
TurnOwnsEntry ==
    /\ \A p \in Prompt : pc[p] \in TurnLabels =>
          active[SessionOf[p]] = Tok(p, "run")
    /\ \A g \in Goroutine : pc[g] = "summarizing" =>
          active[SessionOf[g]] = Tok(g, "summarize")

(* A goroutine about to enter beginRun has a frame to do it in; a user's   *)
(* summary never gets into a turn.                                         *)
LabelFacts ==
    /\ \A p \in Prompt : pc[p] = "begin" => depth[p] > 0
    /\ \A s \in Session :
          active[s] # NoRun => (active[s].kind = "run" => active[s].depth > 0)
    /\ \A z \in Summarizer : pc[z] \in {"idle", "summarize", "summarizing", "unwind", "done"}

(* A turn summarizes only if it may resume.                                *)
SummaryLabels == {"full", "summarize", "summarizing", "resume"}
ResumeBounded ==
    \A p \in Prompt : pc[p] \in SummaryLabels => cur[p].resumed < MaxResumes

IInv ==
    /\ TypeOK
    /\ ResumeBounded
    /\ LabelFacts
    /\ TurnOwnsEntry
    /\ NoLeakedBusy

LEMMA TypeStep == IInv /\ [Next]_vars => TypeOK'
<1> SUFFICES ASSUME IInv, [Next]_vars PROVE TypeOK'
  OBVIOUS
<1> USE SessionOfType, MaxResumesNat, NoRunFresh DEF IInv, TypeOK, Goroutine, Labels, TurnLabels
<1>1. ASSUME NEW p \in Prompt, Submit(p) PROVE TypeOK'
  BY <1>1 DEF Submit, Goto
<1>2. ASSUME NEW p \in Prompt, BeginActive(p) PROVE TypeOK'
  BY <1>2 DEF BeginActive, Goto, Tok, Token
<1>3. ASSUME NEW p \in Prompt, BeginQueued(p) PROVE TypeOK'
  <2>1. depth[p] - 1 \in Nat
    BY <1>3 DEF BeginQueued, LabelFacts
  <2>. QED
    BY <1>3, <2>1 DEF BeginQueued, Goto, Enqueue
<1>4. ASSUME NEW p \in Prompt, WriteUserMessage(p) PROVE TypeOK'
  BY <1>4 DEF WriteUserMessage, Goto, StartTitle
<1>5. ASSUME NEW p \in Prompt, SetupFails(p) PROVE TypeOK'
  BY <1>5 DEF SetupFails, Goto, StartTitle
<1>6. ASSUME NEW p \in Prompt, TakeQueue(p) PROVE TypeOK'
  BY <1>6 DEF TakeQueue, Goto, Take
<1>7. ASSUME NEW p \in Prompt, WriteTaken(p) PROVE TypeOK'
  BY <1>7 DEF WriteTaken, Goto
<1>8. ASSUME NEW p \in Prompt, StartStep(p) PROVE TypeOK'
  BY <1>8 DEF StartStep, Goto
<1>9. ASSUME NEW p \in Prompt, NextStep(p) PROVE TypeOK'
  BY <1>9 DEF NextStep, Goto
<1>10. ASSUME NEW p \in Prompt, EndStream(p) PROVE TypeOK'
  BY <1>10 DEF EndStream, Goto
<1>11. ASSUME NEW p \in Prompt, EndStreamFull(p) PROVE TypeOK'
  BY <1>11 DEF EndStreamFull, Goto
<1>12. ASSUME NEW p \in Prompt, FailStream(p) PROVE TypeOK'
  BY <1>12 DEF FailStream, Goto
<1>13. ASSUME NEW p \in Prompt, HandleError(p) PROVE TypeOK'
  BY <1>13 DEF HandleError, Goto
<1>14. ASSUME NEW p \in Prompt, DropActive(p) PROVE TypeOK'
  BY <1>14 DEF DropActive, Goto, CompareAndDelete
<1>15. ASSUME NEW p \in Prompt, Requeue(p) PROVE TypeOK'
  <2> DEFINE again == [prompt |-> cur[p].prompt, resumed |-> cur[p].resumed + 1]
  <2>1. again \in Call
    BY <1>15 DEF Requeue, Call, ResumeBounded, SummaryLabels
  <2>. HIDE DEF again
  <2>2. queue' = [queue EXCEPT ![SessionOf[p]] = Append(@, again)]
    BY <1>15 DEF Requeue, Enqueue, again
  <2>3. cur' = [cur EXCEPT ![p] = again]
    BY <1>15 DEF Requeue, again
  <2>. QED
    BY <1>15, <2>1, <2>2, <2>3 DEF Requeue, Goto
<1>16. ASSUME NEW p \in Prompt, SkipRequeue(p) PROVE TypeOK'
  BY <1>16 DEF SkipRequeue, Goto
<1>17. ASSUME NEW p \in Prompt, ReleaseIdle(p) PROVE TypeOK'
  BY <1>17 DEF ReleaseIdle, Goto, CompareAndDelete, Drained
<1>18. ASSUME NEW p \in Prompt, ReleaseNext(p) PROVE TypeOK'
  BY <1>18 DEF ReleaseNext, Goto, CompareAndDelete, Drained
<1>19. ASSUME NEW p \in Prompt, Unwind(p) PROVE TypeOK'
  BY <1>19 DEF Unwind, Goto, CompareAndDelete, FrameLeft
<1>20. ASSUME NEW p \in Prompt, FinishTitle(p) PROVE TypeOK'
  BY <1>20 DEF FinishTitle, Goto
<1>21. ASSUME NEW z \in Summarizer, RequestSummary(z) PROVE TypeOK'
  BY <1>21 DEF RequestSummary, Goto
<1>22. ASSUME NEW g \in Goroutine, SummarizeBusy(g) PROVE TypeOK'
  BY <1>22 DEF SummarizeBusy, Goto
<1>23. ASSUME NEW g \in Goroutine, BeginSummarize(g) PROVE TypeOK'
  BY <1>23 DEF BeginSummarize, Goto, Tok, Token
<1>24. ASSUME NEW g \in Goroutine, EndSummarize(g) PROVE TypeOK'
  BY <1>24 DEF EndSummarize, Goto, CompareAndDelete, SummarizeReturnsNil
<1>25. ASSUME NEW g \in Goroutine, CancelSummarize(g) PROVE TypeOK'
  BY <1>25 DEF CancelSummarize, Goto, CompareAndDelete, SummarizeReturnsNil
<1>26. ASSUME NEW g \in Goroutine, FailSummarize(g) PROVE TypeOK'
  BY <1>26 DEF FailSummarize, Goto, CompareAndDelete
<1>27. ASSUME NEW g \in Goroutine, Return(g) PROVE TypeOK'
  BY <1>27 DEF Return, Goto
<1>28. ASSUME NEW s \in Session, Cancel(s) PROVE TypeOK'
  <2> DEFINE t == active[s]
  <2>1. queue' \in [Session -> Seq(Call)] /\ UNCHANGED <<active, pc, depth, cur, held, title, written, exit>>
    BY <1>28 DEF Cancel, Take
  <2>2. t # NoRun => t.run \in Goroutine /\ t.kind \in {"run", "summarize"}
    BY DEF Token
  <2>3. cancelled' \in [Goroutine -> SUBSET {"run", "summarize"}]
    BY <1>28, <2>2 DEF Cancel
  <2>4. \A q \in Seq(Call) : Elements(q) \subseteq Call
    BY DEF Elements
  <2>5. FoundBy(s) \subseteq Call
    BY <2>2, <2>4 DEF FoundBy, Goroutine
  <2>6. stopped' \subseteq Prompt
    <3>1. \A c \in Call : c.prompt \in Prompt
      BY DEF Call
    <3>. QED
      BY <1>28, <2>5, <3>1 DEF Cancel, PromptsOf
  <2>. QED
    BY <2>1, <2>3, <2>6
<1>29. ASSUME NEW s \in Session, ClearQueue(s) PROVE TypeOK'
  BY <1>29 DEF ClearQueue, Goto, Take
<1>30. CASE UNCHANGED vars
  BY <1>30 DEF vars
<1>. QED
  BY <1>1, <1>2, <1>3, <1>4, <1>5, <1>6, <1>7, <1>8, <1>9, <1>10, <1>11, <1>12, <1>13, <1>14, <1>15, <1>16, <1>17, <1>18, <1>19, <1>20, <1>21, <1>22, <1>23, <1>24, <1>25, <1>26, <1>27, <1>28, <1>29, <1>30 DEF Next, RunStep, SummaryStep, Quiescent, Goroutine

(* Where SummarizeReturnsNil leaves the goroutine and its session.          *)
LEMMA NilReturn ==
  ASSUME IInv, NEW g \in Goroutine, pc[g] = "summarizing", SummarizeReturnsNil(g)
  PROVE  /\ active' = [active EXCEPT ![SessionOf[g]] = NoRun]
         /\ active[SessionOf[g]] = Tok(g, "summarize")
         /\ pc' = [pc EXCEPT ![g] = IF g \in Prompt THEN "resume" ELSE "unwind"]
<1>1. active[SessionOf[g]] = Tok(g, "summarize")
  BY DEF IInv, TurnOwnsEntry
<1>. QED
  BY <1>1 DEF SummarizeReturnsNil, CompareAndDelete, Goto

(* A goroutine that owns no entry may move without disturbing any.          *)
LEMMA OthersKeepEntries ==
  ASSUME IInv, NEW g \in Goroutine,
         pc[g] \notin TurnLabels \union {"unwind", "summarizing"},
         UNCHANGED active,
         \A h \in Goroutine \ {g} : pc'[h] = pc[h] /\ depth'[h] = depth[h]
  PROVE  NoLeakedBusy'
<1> SUFFICES ASSUME NEW s \in Session, active[s] # NoRun
             PROVE  LET t == active[s] IN
                    /\ SessionOf[t.run] = s
                    /\ depth'[t.run] = t.depth
                    /\ pc'[t.run] \in IF t.kind = "run" THEN TurnLabels \union {"unwind"}
                                                        ELSE {"summarizing"}
  BY DEF NoLeakedBusy
<1>1. /\ active[s].run \in Goroutine
      /\ SessionOf[active[s].run] = s
      /\ depth[active[s].run] = active[s].depth
      /\ pc[active[s].run] \in IF active[s].kind = "run" THEN TurnLabels \union {"unwind"}
                                                        ELSE {"summarizing"}
  BY DEF IInv, TypeOK, Token, NoLeakedBusy
<1>. QED
  BY <1>1

LEMMA LabelStep == IInv /\ TypeOK' /\ [Next]_vars => LabelFacts'
<1> SUFFICES ASSUME IInv, TypeOK', [Next]_vars PROVE LabelFacts'
  OBVIOUS
<1> USE SessionOfType, KindsDisjoint, MaxResumesNat, NoRunFresh
        DEF IInv, TypeOK, Goroutine, Labels, TurnLabels, LabelFacts
<1>1. ASSUME NEW p \in Prompt, Submit(p) PROVE LabelFacts'
  BY <1>1 DEF Submit, Goto
<1>2. ASSUME NEW p \in Prompt, BeginActive(p) PROVE LabelFacts'
  BY <1>2 DEF BeginActive, Goto, Tok
<1>3. ASSUME NEW p \in Prompt, BeginQueued(p) PROVE LabelFacts'
  BY <1>3 DEF BeginQueued, Goto, LabelFacts
<1>4. ASSUME NEW p \in Prompt, WriteUserMessage(p) PROVE LabelFacts'
  BY <1>4 DEF WriteUserMessage, Goto
<1>5. ASSUME NEW p \in Prompt, SetupFails(p) PROVE LabelFacts'
  BY <1>5 DEF SetupFails, Goto
<1>6. ASSUME NEW p \in Prompt, TakeQueue(p) PROVE LabelFacts'
  BY <1>6 DEF TakeQueue, Goto
<1>7. ASSUME NEW p \in Prompt, WriteTaken(p) PROVE LabelFacts'
  BY <1>7 DEF WriteTaken, Goto
<1>8. ASSUME NEW p \in Prompt, StartStep(p) PROVE LabelFacts'
  BY <1>8 DEF StartStep, Goto
<1>9. ASSUME NEW p \in Prompt, NextStep(p) PROVE LabelFacts'
  BY <1>9 DEF NextStep, Goto
<1>10. ASSUME NEW p \in Prompt, EndStream(p) PROVE LabelFacts'
  BY <1>10 DEF EndStream, Goto
<1>11. ASSUME NEW p \in Prompt, EndStreamFull(p) PROVE LabelFacts'
  BY <1>11 DEF EndStreamFull, Goto
<1>12. ASSUME NEW p \in Prompt, FailStream(p) PROVE LabelFacts'
  BY <1>12 DEF FailStream, Goto
<1>13. ASSUME NEW p \in Prompt, HandleError(p) PROVE LabelFacts'
  BY <1>13 DEF HandleError, Goto
<1>14. ASSUME NEW p \in Prompt, DropActive(p) PROVE LabelFacts'
  BY <1>14 DEF DropActive, Goto, CompareAndDelete
<1>15. ASSUME NEW p \in Prompt, Requeue(p) PROVE LabelFacts'
  BY <1>15 DEF Requeue, Goto
<1>16. ASSUME NEW p \in Prompt, SkipRequeue(p) PROVE LabelFacts'
  BY <1>16 DEF SkipRequeue, Goto
<1>17. ASSUME NEW p \in Prompt, ReleaseIdle(p) PROVE LabelFacts'
  BY <1>17 DEF ReleaseIdle, Goto, CompareAndDelete
<1>18. ASSUME NEW p \in Prompt, ReleaseNext(p) PROVE LabelFacts'
  BY <1>18 DEF ReleaseNext, Goto, CompareAndDelete
<1>19. ASSUME NEW p \in Prompt, Unwind(p) PROVE LabelFacts'
  BY <1>19 DEF Unwind, Goto, FrameLeft, CompareAndDelete
<1>20. ASSUME NEW p \in Prompt, FinishTitle(p) PROVE LabelFacts'
  BY <1>20 DEF FinishTitle, Goto
<1>21. ASSUME NEW z \in Summarizer, RequestSummary(z) PROVE LabelFacts'
  BY <1>21 DEF RequestSummary, Goto
<1>22. ASSUME NEW g \in Goroutine, SummarizeBusy(g) PROVE LabelFacts'
  BY <1>22 DEF SummarizeBusy, Goto
<1>23. ASSUME NEW g \in Goroutine, BeginSummarize(g) PROVE LabelFacts'
  BY <1>23 DEF BeginSummarize, Goto, Tok
<1>24. ASSUME NEW g \in Goroutine, EndSummarize(g) PROVE LabelFacts'
  <2>1. SummarizeReturnsNil(g) /\ pc[g] = "summarizing" /\ UNCHANGED <<depth, cur>>
    BY <1>24 DEF EndSummarize
  <2>2. /\ active' = [active EXCEPT ![SessionOf[g]] = NoRun]
        /\ active[SessionOf[g]] = Tok(g, "summarize")
        /\ pc' = [pc EXCEPT ![g] = IF g \in Prompt THEN "resume" ELSE "unwind"]
    BY <2>1, NilReturn
  <2>. QED
    BY <2>1, <2>2
<1>25. ASSUME NEW g \in Goroutine, CancelSummarize(g) PROVE LabelFacts'
  <2>1. SummarizeReturnsNil(g) /\ pc[g] = "summarizing" /\ UNCHANGED <<depth, cur>>
    BY <1>25 DEF CancelSummarize
  <2>2. /\ active' = [active EXCEPT ![SessionOf[g]] = NoRun]
        /\ active[SessionOf[g]] = Tok(g, "summarize")
        /\ pc' = [pc EXCEPT ![g] = IF g \in Prompt THEN "resume" ELSE "unwind"]
    BY <2>1, NilReturn
  <2>. QED
    BY <2>1, <2>2
<1>26. ASSUME NEW g \in Goroutine, FailSummarize(g) PROVE LabelFacts'
  BY <1>26 DEF FailSummarize, Goto, CompareAndDelete
<1>27. ASSUME NEW g \in Goroutine, Return(g) PROVE LabelFacts'
  BY <1>27 DEF Return, Goto
<1>28. ASSUME NEW s \in Session, Cancel(s) PROVE LabelFacts'
  BY <1>28 DEF Cancel, Goto
<1>29. ASSUME NEW s \in Session, ClearQueue(s) PROVE LabelFacts'
  BY <1>29 DEF ClearQueue, Goto
<1>30. CASE UNCHANGED vars
  BY <1>30 DEF vars
<1>. QED
  BY <1>1, <1>2, <1>3, <1>4, <1>5, <1>6, <1>7, <1>8, <1>9, <1>10, <1>11, <1>12, <1>13, <1>14, <1>15, <1>16, <1>17, <1>18, <1>19, <1>20, <1>21, <1>22, <1>23, <1>24, <1>25, <1>26, <1>27, <1>28, <1>29, <1>30 DEF Next, RunStep, SummaryStep, Quiescent, Goroutine


LEMMA ResumeStep == IInv /\ TypeOK' /\ [Next]_vars => ResumeBounded'
<1> SUFFICES ASSUME IInv, TypeOK', [Next]_vars PROVE ResumeBounded'
  OBVIOUS
<1> USE SessionOfType, KindsDisjoint, MaxResumesNat, NoRunFresh
        DEF IInv, TypeOK, Goroutine, Labels, TurnLabels, ResumeBounded, SummaryLabels
<1>1. ASSUME NEW p \in Prompt, Submit(p) PROVE ResumeBounded'
  BY <1>1 DEF Submit, Goto
<1>2. ASSUME NEW p \in Prompt, BeginActive(p) PROVE ResumeBounded'
  BY <1>2 DEF BeginActive, Goto
<1>3. ASSUME NEW p \in Prompt, BeginQueued(p) PROVE ResumeBounded'
  BY <1>3 DEF BeginQueued, Goto
<1>4. ASSUME NEW p \in Prompt, WriteUserMessage(p) PROVE ResumeBounded'
  BY <1>4 DEF WriteUserMessage, Goto
<1>5. ASSUME NEW p \in Prompt, SetupFails(p) PROVE ResumeBounded'
  BY <1>5 DEF SetupFails, Goto
<1>6. ASSUME NEW p \in Prompt, TakeQueue(p) PROVE ResumeBounded'
  BY <1>6 DEF TakeQueue, Goto
<1>7. ASSUME NEW p \in Prompt, WriteTaken(p) PROVE ResumeBounded'
  BY <1>7 DEF WriteTaken, Goto
<1>8. ASSUME NEW p \in Prompt, StartStep(p) PROVE ResumeBounded'
  BY <1>8 DEF StartStep, Goto
<1>9. ASSUME NEW p \in Prompt, NextStep(p) PROVE ResumeBounded'
  BY <1>9 DEF NextStep, Goto
<1>10. ASSUME NEW p \in Prompt, EndStream(p) PROVE ResumeBounded'
  BY <1>10 DEF EndStream, Goto
<1>11. ASSUME NEW p \in Prompt, EndStreamFull(p) PROVE ResumeBounded'
  BY <1>11 DEF EndStreamFull, Goto
<1>12. ASSUME NEW p \in Prompt, FailStream(p) PROVE ResumeBounded'
  BY <1>12 DEF FailStream, Goto
<1>13. ASSUME NEW p \in Prompt, HandleError(p) PROVE ResumeBounded'
  BY <1>13 DEF HandleError, Goto
<1>14. ASSUME NEW p \in Prompt, DropActive(p) PROVE ResumeBounded'
  BY <1>14 DEF DropActive, Goto
<1>15. ASSUME NEW p \in Prompt, Requeue(p) PROVE ResumeBounded'
  BY <1>15 DEF Requeue, Goto
<1>16. ASSUME NEW p \in Prompt, SkipRequeue(p) PROVE ResumeBounded'
  BY <1>16 DEF SkipRequeue, Goto
<1>17. ASSUME NEW p \in Prompt, ReleaseIdle(p) PROVE ResumeBounded'
  BY <1>17 DEF ReleaseIdle, Goto
<1>18. ASSUME NEW p \in Prompt, ReleaseNext(p) PROVE ResumeBounded'
  BY <1>18 DEF ReleaseNext, Goto
<1>19. ASSUME NEW p \in Prompt, Unwind(p) PROVE ResumeBounded'
  BY <1>19 DEF Unwind, Goto
<1>20. ASSUME NEW p \in Prompt, FinishTitle(p) PROVE ResumeBounded'
  BY <1>20 DEF FinishTitle, Goto
<1>21. ASSUME NEW z \in Summarizer, RequestSummary(z) PROVE ResumeBounded'
  BY <1>21 DEF RequestSummary, Goto
<1>22. ASSUME NEW g \in Goroutine, SummarizeBusy(g) PROVE ResumeBounded'
  BY <1>22 DEF SummarizeBusy, Goto
<1>23. ASSUME NEW g \in Goroutine, BeginSummarize(g) PROVE ResumeBounded'
  BY <1>23 DEF BeginSummarize, Goto
<1>24. ASSUME NEW g \in Goroutine, EndSummarize(g) PROVE ResumeBounded'
  <2>1. SummarizeReturnsNil(g) /\ pc[g] = "summarizing" /\ UNCHANGED <<depth, cur>>
    BY <1>24 DEF EndSummarize
  <2>2. /\ active' = [active EXCEPT ![SessionOf[g]] = NoRun]
        /\ active[SessionOf[g]] = Tok(g, "summarize")
        /\ pc' = [pc EXCEPT ![g] = IF g \in Prompt THEN "resume" ELSE "unwind"]
    BY <2>1, NilReturn
  <2>. QED
    BY <2>1, <2>2
<1>25. ASSUME NEW g \in Goroutine, CancelSummarize(g) PROVE ResumeBounded'
  <2>1. SummarizeReturnsNil(g) /\ pc[g] = "summarizing" /\ UNCHANGED <<depth, cur>>
    BY <1>25 DEF CancelSummarize
  <2>2. /\ active' = [active EXCEPT ![SessionOf[g]] = NoRun]
        /\ active[SessionOf[g]] = Tok(g, "summarize")
        /\ pc' = [pc EXCEPT ![g] = IF g \in Prompt THEN "resume" ELSE "unwind"]
    BY <2>1, NilReturn
  <2>. QED
    BY <2>1, <2>2
<1>26. ASSUME NEW g \in Goroutine, FailSummarize(g) PROVE ResumeBounded'
  BY <1>26 DEF FailSummarize, Goto
<1>27. ASSUME NEW g \in Goroutine, Return(g) PROVE ResumeBounded'
  BY <1>27 DEF Return, Goto
<1>28. ASSUME NEW s \in Session, Cancel(s) PROVE ResumeBounded'
  BY <1>28 DEF Cancel, Goto
<1>29. ASSUME NEW s \in Session, ClearQueue(s) PROVE ResumeBounded'
  BY <1>29 DEF ClearQueue, Goto
<1>30. CASE UNCHANGED vars
  BY <1>30 DEF vars, Tok
<1>. QED
  BY <1>1, <1>2, <1>3, <1>4, <1>5, <1>6, <1>7, <1>8, <1>9, <1>10, <1>11, <1>12, <1>13, <1>14, <1>15, <1>16, <1>17, <1>18, <1>19, <1>20, <1>21, <1>22, <1>23, <1>24, <1>25, <1>26, <1>27, <1>28, <1>29, <1>30 DEF Next, RunStep, SummaryStep, Quiescent, Goroutine


LEMMA OwnsStep == IInv /\ TypeOK' /\ [Next]_vars => TurnOwnsEntry'
<1> SUFFICES ASSUME IInv, TypeOK', [Next]_vars PROVE TurnOwnsEntry'
  OBVIOUS
<1> USE SessionOfType, KindsDisjoint, MaxResumesNat, NoRunFresh
        DEF IInv, TypeOK, Goroutine, Labels, TurnLabels, TurnOwnsEntry, NoLeakedBusy, LabelFacts, Tok, Token
<1>1. ASSUME NEW p \in Prompt, Submit(p) PROVE TurnOwnsEntry'
  BY <1>1 DEF Submit, Goto
<1>2. ASSUME NEW p \in Prompt, BeginActive(p) PROVE TurnOwnsEntry'
  BY <1>2 DEF BeginActive, Goto
<1>3. ASSUME NEW p \in Prompt, BeginQueued(p) PROVE TurnOwnsEntry'
  BY <1>3 DEF BeginQueued, Goto
<1>4. ASSUME NEW p \in Prompt, WriteUserMessage(p) PROVE TurnOwnsEntry'
  BY <1>4 DEF WriteUserMessage, Goto
<1>5. ASSUME NEW p \in Prompt, SetupFails(p) PROVE TurnOwnsEntry'
  BY <1>5 DEF SetupFails, Goto
<1>6. ASSUME NEW p \in Prompt, TakeQueue(p) PROVE TurnOwnsEntry'
  BY <1>6 DEF TakeQueue, Goto
<1>7. ASSUME NEW p \in Prompt, WriteTaken(p) PROVE TurnOwnsEntry'
  BY <1>7 DEF WriteTaken, Goto
<1>8. ASSUME NEW p \in Prompt, StartStep(p) PROVE TurnOwnsEntry'
  BY <1>8 DEF StartStep, Goto
<1>9. ASSUME NEW p \in Prompt, NextStep(p) PROVE TurnOwnsEntry'
  BY <1>9 DEF NextStep, Goto
<1>10. ASSUME NEW p \in Prompt, EndStream(p) PROVE TurnOwnsEntry'
  BY <1>10 DEF EndStream, Goto
<1>11. ASSUME NEW p \in Prompt, EndStreamFull(p) PROVE TurnOwnsEntry'
  BY <1>11 DEF EndStreamFull, Goto
<1>12. ASSUME NEW p \in Prompt, FailStream(p) PROVE TurnOwnsEntry'
  BY <1>12 DEF FailStream, Goto
<1>13. ASSUME NEW p \in Prompt, HandleError(p) PROVE TurnOwnsEntry'
  BY <1>13 DEF HandleError, Goto
<1>14. ASSUME NEW p \in Prompt, DropActive(p) PROVE TurnOwnsEntry'
  BY <1>14 DEF DropActive, Goto, CompareAndDelete
<1>15. ASSUME NEW p \in Prompt, Requeue(p) PROVE TurnOwnsEntry'
  BY <1>15 DEF Requeue, Goto
<1>16. ASSUME NEW p \in Prompt, SkipRequeue(p) PROVE TurnOwnsEntry'
  BY <1>16 DEF SkipRequeue, Goto
<1>17. ASSUME NEW p \in Prompt, ReleaseIdle(p) PROVE TurnOwnsEntry'
  BY <1>17 DEF ReleaseIdle, Goto, CompareAndDelete
<1>18. ASSUME NEW p \in Prompt, ReleaseNext(p) PROVE TurnOwnsEntry'
  BY <1>18 DEF ReleaseNext, Goto, CompareAndDelete
<1>19. ASSUME NEW p \in Prompt, Unwind(p) PROVE TurnOwnsEntry'
  BY <1>19 DEF Unwind, Goto, CompareAndDelete, FrameLeft
<1>20. ASSUME NEW p \in Prompt, FinishTitle(p) PROVE TurnOwnsEntry'
  BY <1>20 DEF FinishTitle, Goto
<1>21. ASSUME NEW z \in Summarizer, RequestSummary(z) PROVE TurnOwnsEntry'
  BY <1>21 DEF RequestSummary, Goto
<1>22. ASSUME NEW g \in Goroutine, SummarizeBusy(g) PROVE TurnOwnsEntry'
  BY <1>22 DEF SummarizeBusy, Goto
<1>23. ASSUME NEW g \in Goroutine, BeginSummarize(g) PROVE TurnOwnsEntry'
  BY <1>23 DEF BeginSummarize, Goto
<1>24. ASSUME NEW g \in Goroutine, EndSummarize(g) PROVE TurnOwnsEntry'
  <2>1. SummarizeReturnsNil(g) /\ pc[g] = "summarizing" /\ UNCHANGED <<depth, cur>>
    BY <1>24 DEF EndSummarize
  <2>2. /\ active' = [active EXCEPT ![SessionOf[g]] = NoRun]
        /\ active[SessionOf[g]] = Tok(g, "summarize")
        /\ pc' = [pc EXCEPT ![g] = IF g \in Prompt THEN "resume" ELSE "unwind"]
    BY <2>1, NilReturn
  <2>. QED
    BY <2>1, <2>2
<1>25. ASSUME NEW g \in Goroutine, CancelSummarize(g) PROVE TurnOwnsEntry'
  <2>1. SummarizeReturnsNil(g) /\ pc[g] = "summarizing" /\ UNCHANGED <<depth, cur>>
    BY <1>25 DEF CancelSummarize
  <2>2. /\ active' = [active EXCEPT ![SessionOf[g]] = NoRun]
        /\ active[SessionOf[g]] = Tok(g, "summarize")
        /\ pc' = [pc EXCEPT ![g] = IF g \in Prompt THEN "resume" ELSE "unwind"]
    BY <2>1, NilReturn
  <2>. QED
    BY <2>1, <2>2
<1>26. ASSUME NEW g \in Goroutine, FailSummarize(g) PROVE TurnOwnsEntry'
  BY <1>26 DEF FailSummarize, Goto, CompareAndDelete
<1>27. ASSUME NEW g \in Goroutine, Return(g) PROVE TurnOwnsEntry'
  BY <1>27 DEF Return, Goto
<1>28. ASSUME NEW s \in Session, Cancel(s) PROVE TurnOwnsEntry'
  BY <1>28 DEF Cancel, Goto
<1>29. ASSUME NEW s \in Session, ClearQueue(s) PROVE TurnOwnsEntry'
  BY <1>29 DEF ClearQueue, Goto
<1>30. CASE UNCHANGED vars
  BY <1>30 DEF vars, Tok
<1>. QED
  BY <1>1, <1>2, <1>3, <1>4, <1>5, <1>6, <1>7, <1>8, <1>9, <1>10, <1>11, <1>12, <1>13, <1>14, <1>15, <1>16, <1>17, <1>18, <1>19, <1>20, <1>21, <1>22, <1>23, <1>24, <1>25, <1>26, <1>27, <1>28, <1>29, <1>30 DEF Next, RunStep, SummaryStep, Quiescent, Goroutine


LEMMA LeakStep == IInv /\ TypeOK' /\ [Next]_vars => NoLeakedBusy'
<1> SUFFICES ASSUME IInv, TypeOK', [Next]_vars PROVE NoLeakedBusy'
  OBVIOUS
<1> USE SessionOfType, KindsDisjoint, MaxResumesNat, NoRunFresh
        DEF IInv, TypeOK, Goroutine, Labels, TurnLabels, NoLeakedBusy, TurnOwnsEntry, LabelFacts, Tok, Token
<1>1. ASSUME NEW p \in Prompt, Submit(p) PROVE NoLeakedBusy'
  BY <1>1, OthersKeepEntries DEF Submit, Goto
<1>2. ASSUME NEW p \in Prompt, BeginActive(p) PROVE NoLeakedBusy'
  BY <1>2 DEF BeginActive, Goto
<1>3. ASSUME NEW p \in Prompt, BeginQueued(p) PROVE NoLeakedBusy'
  BY <1>3, OthersKeepEntries DEF BeginQueued, Goto
<1>4. ASSUME NEW p \in Prompt, WriteUserMessage(p) PROVE NoLeakedBusy'
  BY <1>4 DEF WriteUserMessage, Goto
<1>5. ASSUME NEW p \in Prompt, SetupFails(p) PROVE NoLeakedBusy'
  BY <1>5 DEF SetupFails, Goto
<1>6. ASSUME NEW p \in Prompt, TakeQueue(p) PROVE NoLeakedBusy'
  BY <1>6 DEF TakeQueue, Goto
<1>7. ASSUME NEW p \in Prompt, WriteTaken(p) PROVE NoLeakedBusy'
  BY <1>7 DEF WriteTaken, Goto
<1>8. ASSUME NEW p \in Prompt, StartStep(p) PROVE NoLeakedBusy'
  BY <1>8 DEF StartStep, Goto
<1>9. ASSUME NEW p \in Prompt, NextStep(p) PROVE NoLeakedBusy'
  BY <1>9 DEF NextStep, Goto
<1>10. ASSUME NEW p \in Prompt, EndStream(p) PROVE NoLeakedBusy'
  BY <1>10 DEF EndStream, Goto
<1>11. ASSUME NEW p \in Prompt, EndStreamFull(p) PROVE NoLeakedBusy'
  BY <1>11 DEF EndStreamFull, Goto
<1>12. ASSUME NEW p \in Prompt, FailStream(p) PROVE NoLeakedBusy'
  BY <1>12 DEF FailStream, Goto
<1>13. ASSUME NEW p \in Prompt, HandleError(p) PROVE NoLeakedBusy'
  BY <1>13 DEF HandleError, Goto
<1>14. ASSUME NEW p \in Prompt, DropActive(p) PROVE NoLeakedBusy'
  BY <1>14 DEF DropActive, Goto, CompareAndDelete
<1>15. ASSUME NEW p \in Prompt, Requeue(p) PROVE NoLeakedBusy'
  BY <1>15, OthersKeepEntries DEF Requeue, Goto
<1>16. ASSUME NEW p \in Prompt, SkipRequeue(p) PROVE NoLeakedBusy'
  BY <1>16, OthersKeepEntries DEF SkipRequeue, Goto
<1>17. ASSUME NEW p \in Prompt, ReleaseIdle(p) PROVE NoLeakedBusy'
  BY <1>17 DEF ReleaseIdle, Goto, CompareAndDelete
<1>18. ASSUME NEW p \in Prompt, ReleaseNext(p) PROVE NoLeakedBusy'
  BY <1>18 DEF ReleaseNext, Goto, CompareAndDelete
<1>19. ASSUME NEW p \in Prompt, Unwind(p) PROVE NoLeakedBusy'
  BY <1>19 DEF Unwind, Goto, CompareAndDelete, FrameLeft
<1>20. ASSUME NEW p \in Prompt, FinishTitle(p) PROVE NoLeakedBusy'
  BY <1>20 DEF FinishTitle, Goto
<1>21. ASSUME NEW z \in Summarizer, RequestSummary(z) PROVE NoLeakedBusy'
  BY <1>21, OthersKeepEntries DEF RequestSummary, Goto
<1>22. ASSUME NEW g \in Goroutine, SummarizeBusy(g) PROVE NoLeakedBusy'
  BY <1>22 DEF SummarizeBusy, Goto
<1>23. ASSUME NEW g \in Goroutine, BeginSummarize(g) PROVE NoLeakedBusy'
  BY <1>23 DEF BeginSummarize, Goto
<1>24. ASSUME NEW g \in Goroutine, EndSummarize(g) PROVE NoLeakedBusy'
  <2>1. SummarizeReturnsNil(g) /\ pc[g] = "summarizing" /\ UNCHANGED <<depth, cur>>
    BY <1>24 DEF EndSummarize
  <2>2. /\ active' = [active EXCEPT ![SessionOf[g]] = NoRun]
        /\ active[SessionOf[g]] = Tok(g, "summarize")
        /\ pc' = [pc EXCEPT ![g] = IF g \in Prompt THEN "resume" ELSE "unwind"]
    BY <2>1, NilReturn
  <2>. QED
    BY <2>1, <2>2
<1>25. ASSUME NEW g \in Goroutine, CancelSummarize(g) PROVE NoLeakedBusy'
  <2>1. SummarizeReturnsNil(g) /\ pc[g] = "summarizing" /\ UNCHANGED <<depth, cur>>
    BY <1>25 DEF CancelSummarize
  <2>2. /\ active' = [active EXCEPT ![SessionOf[g]] = NoRun]
        /\ active[SessionOf[g]] = Tok(g, "summarize")
        /\ pc' = [pc EXCEPT ![g] = IF g \in Prompt THEN "resume" ELSE "unwind"]
    BY <2>1, NilReturn
  <2>. QED
    BY <2>1, <2>2
<1>26. ASSUME NEW g \in Goroutine, FailSummarize(g) PROVE NoLeakedBusy'
  BY <1>26 DEF FailSummarize, Goto, CompareAndDelete
<1>27. ASSUME NEW g \in Goroutine, Return(g) PROVE NoLeakedBusy'
  <2>1. \A s \in Session : active[s] # NoRun => active[s].run # g
    BY <1>27 DEF Return, FrameLeft
  <2>. QED
    BY <1>27, <2>1 DEF Return, Goto
<1>28. ASSUME NEW s \in Session, Cancel(s) PROVE NoLeakedBusy'
  BY <1>28 DEF Cancel, Goto
<1>29. ASSUME NEW s \in Session, ClearQueue(s) PROVE NoLeakedBusy'
  BY <1>29 DEF ClearQueue, Goto
<1>30. CASE UNCHANGED vars
  BY <1>30 DEF vars, Tok
<1>. QED
  BY <1>1, <1>2, <1>3, <1>4, <1>5, <1>6, <1>7, <1>8, <1>9, <1>10, <1>11, <1>12, <1>13, <1>14, <1>15, <1>16, <1>17, <1>18, <1>19, <1>20, <1>21, <1>22, <1>23, <1>24, <1>25, <1>26, <1>27, <1>28, <1>29, <1>30 DEF Next, RunStep, SummaryStep, Quiescent, Goroutine

LEMMA InitIInv == Init => IInv
<1> SUFFICES ASSUME Init PROVE IInv
  OBVIOUS
<1>1. TypeOK
  BY SessionOfType, MaxResumesNat DEF Init, TypeOK, Goroutine, Labels, Call
<1>2. ResumeBounded /\ LabelFacts /\ TurnOwnsEntry /\ NoLeakedBusy
  BY DEF Init, ResumeBounded, SummaryLabels, LabelFacts, TurnOwnsEntry, TurnLabels,
         NoLeakedBusy, Goroutine
<1>. QED
  BY <1>1, <1>2 DEF IInv

LEMMA AgentInvariant == IInv /\ [Next]_vars => IInv'
  BY TypeStep, LabelStep, ResumeStep, OwnsStep, LeakStep DEF IInv

THEOREM Invariance == Spec => []IInv
  BY InitIInv, AgentInvariant, PTL DEF Spec

(* Every variable keeps its type: in particular a frame count never goes   *)
(* below zero, and only what a user submitted is ever queued or written.   *)
THEOREM TypeCorrect == Spec => []TypeOK
<1>1. IInv => TypeOK
  BY DEF IInv
<1>. QED
  BY Invariance, <1>1, PTL

(* One goroutine at a time runs a turn of a session.                       *)
THEOREM TurnExclusion == Spec => []OneTurnPerSession
<1>1. IInv => OneTurnPerSession
  <2> SUFFICES ASSUME IInv,
                      NEW g \in Goroutine, NEW h \in Goroutine,
                      SessionOf[g] = SessionOf[h], InTurn(g), InTurn(h)
               PROVE  g = h
    BY DEF OneTurnPerSession
  <2>1. ASSUME NEW k \in Goroutine, InTurn(k)
        PROVE  active[SessionOf[k]].run = k
    <3>1. CASE pc[k] = "summarizing"
      <4>1. active[SessionOf[k]] = Tok(k, "summarize")
        BY <2>1, <3>1 DEF IInv, TurnOwnsEntry
      <4>. QED
        BY <4>1 DEF Tok
    <3>2. CASE pc[k] \in TurnLabels
      <4>1. k \in Prompt
        BY <2>1, <3>2 DEF IInv, LabelFacts, Goroutine, TurnLabels
      <4>. QED
        <5>1. active[SessionOf[k]] = Tok(k, "run")
          BY <3>2, <4>1 DEF IInv, TurnOwnsEntry
        <5>. QED
          BY <5>1 DEF Tok
    <3>. QED
      BY <2>1, <3>1, <3>2 DEF InTurn
  <2>2. active[SessionOf[g]].run = g /\ active[SessionOf[h]].run = h
    BY <2>1
  <2>. QED
    BY <2>2
<1>. QED
  BY Invariance, <1>1, PTL

(* A busy session has a live owner that will release it.                   *)
THEOREM BusyHasOwner == Spec => []NoLeakedBusy
<1>1. IInv => NoLeakedBusy
  BY DEF IInv
<1>. QED
  BY Invariance, <1>1, PTL

(* A session is given up only by a step of the goroutine that holds it.    *)
THEOREM OwnerReleases == Spec => OnlyOwnerReleases
<1> DEFINE Rel == \A s \in Session : active[s] # NoRun /\ active'[s] # active[s] =>
          /\ active'[s] = NoRun
          /\ LET g == active[s].run
             IN <<pc[g], depth[g]>> # <<pc'[g], depth'[g]>>
<1>1. ASSUME IInv, [Next]_vars PROVE [Rel]_vars
  <2> SUFFICES ASSUME NEW s \in Session, active[s] # NoRun, active'[s] # active[s]
               PROVE  /\ active'[s] = NoRun
                      /\ LET g == active[s].run
                         IN <<pc[g], depth[g]>> # <<pc'[g], depth'[g]>>
    OBVIOUS
  <2> USE <1>1, SessionOfType DEF IInv, TypeOK, Goroutine, Goto, CompareAndDelete, Tok
  <2>1. ASSUME NEW p \in Prompt, BeginActive(p) PROVE FALSE
    BY <2>1 DEF BeginActive
  <2>2. ASSUME NEW g \in Goroutine, BeginSummarize(g) PROVE FALSE
    BY <2>2 DEF BeginSummarize
  <2>3. ASSUME NEW p \in Prompt, DropActive(p) \/ ReleaseIdle(p) \/ ReleaseNext(p)
        PROVE  active'[s] = NoRun /\ active[s].run = p /\ pc'[p] # pc[p]
    BY <2>3 DEF DropActive, ReleaseIdle, ReleaseNext
  <2>4. ASSUME NEW p \in Prompt, Unwind(p)
        PROVE  active'[s] = NoRun /\ active[s].run = p /\ depth'[p] # depth[p]
    BY <2>4 DEF Unwind
  <2>5. ASSUME NEW g \in Goroutine,
               EndSummarize(g) \/ CancelSummarize(g) \/ FailSummarize(g)
        PROVE  active'[s] = NoRun /\ active[s].run = g /\ pc'[g] # pc[g]
    BY <2>5 DEF EndSummarize, CancelSummarize, FailSummarize, SummarizeReturnsNil
  <2>6. \/ \E p \in Prompt : \/ BeginActive(p) \/ DropActive(p) \/ ReleaseIdle(p)
                             \/ ReleaseNext(p) \/ Unwind(p)
        \/ \E g \in Goroutine : \/ BeginSummarize(g) \/ EndSummarize(g)
                                \/ CancelSummarize(g) \/ FailSummarize(g)
    BY DEF Next, RunStep, SummaryStep, Quiescent, vars, Submit, BeginQueued,
           WriteUserMessage, SetupFails, TakeQueue, WriteTaken, StartStep, NextStep,
           EndStream, EndStreamFull, FailStream, HandleError, Requeue, SkipRequeue,
           FinishTitle, RequestSummary, SummarizeBusy, Return, Cancel, ClearQueue
  <2>. QED
    BY <2>1, <2>2, <2>3, <2>4, <2>5, <2>6
<1>. QED
  BY Invariance, <1>1, PTL DEF Spec, OnlyOwnerReleases
-----------------------------------------------------------------------------
(* The shutdown.  A turn CancelAll reached is still in the frame that made *)
(* the entry, or it is past it, and a goroutine never goes back to a frame *)
(* it has left: frames end one after the other, and a turn that follows    *)
(* another one runs in a frame above it.                                   *)
LaterLabels(kind) == {"resume", "release", "unwind", "done"} \union
              (IF kind = "run" THEN {"summarize", "summarizing"} ELSE {})
Past(t) ==
    LET g == t.run IN
    \/ depth[g] > t.depth
    \/ depth[g] = t.depth /\ pc[g] \in LaterLabels(t.kind)
    \/ depth[g] < t.depth /\ pc[g] \in {"unwind", "done"}

ShutdownInv ==
    /\ IInv
    /\ reached \subseteq Token
    /\ phase \in {"up", "snapshot"} => reached = {}
    /\ \A t \in reached : StillIn(t) \/ Past(t)
    /\ phase \in {"closing", "closed"} /\ ~timedOut => \A t \in reached : Past(t)

(* What a goroutine does by itself leaves it in its turn or past it.       *)
Passes(t) == (StillIn(t) \/ Past(t) => StillIn(t)' \/ Past(t)') /\ (Past(t) => Past(t)')

LEMMA OthersPass ==
  ASSUME NEW t \in Token, pc'[t.run] = pc[t.run], depth'[t.run] = depth[t.run]
  PROVE  Passes(t)
  BY DEF Passes, StillIn, Past

LEMMA StepPasses ==
  ASSUME IInv, NEW t \in Token, NEW g \in Goroutine,
         (g \in Prompt /\ RunStep(g)) \/ SummaryStep(g)
  PROVE  Passes(t)
<1>t. /\ pc \in [Goroutine -> Labels] /\ depth \in [Goroutine -> Nat]
      /\ t.run \in Goroutine /\ t.depth \in Nat /\ t.kind \in {"run", "summarize"}
      /\ \A p \in Prompt : pc[p] = "begin" => depth[p] > 0
  BY DEF IInv, TypeOK, Token, LabelFacts
<1>1. CASE t.run # g
  BY <1>t, <1>1, OthersPass
     DEF RunStep, BeginActive, BeginQueued, WriteUserMessage, SetupFails, TakeQueue, WriteTaken,
     StartStep, NextStep, EndStream, EndStreamFull, FailStream, HandleError, DropActive, Requeue,
     SkipRequeue, ReleaseIdle, ReleaseNext, Unwind, SummaryStep, SummarizeBusy, BeginSummarize,
     EndSummarize, CancelSummarize, FailSummarize, SummarizeReturnsNil, Return, Goto
<1>2. CASE t.run = g
  <2> USE <1>2, <1>t DEF Passes, StillIn, Past, LaterLabels, TurnLabels, Goto
  <2>1. ASSUME g \in Prompt, BeginActive(g) \/ BeginQueued(g) PROVE Passes(t)
    BY <2>1 DEF BeginActive, BeginQueued
  <2>2. ASSUME g \in Prompt, WriteUserMessage(g) \/ SetupFails(g) PROVE Passes(t)
    BY <2>2 DEF WriteUserMessage, SetupFails
  <2>3. ASSUME g \in Prompt, TakeQueue(g) \/ WriteTaken(g) \/ StartStep(g) PROVE Passes(t)
    BY <2>3 DEF TakeQueue, WriteTaken, StartStep
  <2>4. ASSUME g \in Prompt,
               NextStep(g) \/ EndStream(g) \/ EndStreamFull(g) \/ FailStream(g) \/ HandleError(g)
        PROVE  Passes(t)
    BY <2>4 DEF NextStep, EndStream, EndStreamFull, FailStream, HandleError
  <2>5. ASSUME g \in Prompt, DropActive(g) \/ Requeue(g) \/ SkipRequeue(g) PROVE Passes(t)
    BY <2>5 DEF DropActive, Requeue, SkipRequeue
  <2>6. ASSUME g \in Prompt, ReleaseIdle(g) \/ ReleaseNext(g) PROVE Passes(t)
    BY <2>6 DEF ReleaseIdle, ReleaseNext
  <2>7. ASSUME g \in Prompt, Unwind(g) PROVE Passes(t)
    BY <2>7 DEF Unwind, FrameLeft
  <2>8. ASSUME SummarizeBusy(g) \/ BeginSummarize(g) \/ Return(g) PROVE Passes(t)
    BY <2>8 DEF SummarizeBusy, BeginSummarize, Return
  <2>9. ASSUME EndSummarize(g) \/ CancelSummarize(g) \/ FailSummarize(g) PROVE Passes(t)
    BY <2>9 DEF EndSummarize, CancelSummarize, FailSummarize, SummarizeReturnsNil
  <2> HIDE DEF Passes
  <2>. QED
    BY <2>1, <2>2, <2>3, <2>4, <2>5, <2>6, <2>7, <2>8, <2>9 DEF RunStep, SummaryStep
<1>. QED
  BY <1>1, <1>2

LEMMA ShutdownStepKeeps == ShutdownInv /\ [SNext]_allVars => ShutdownInv'
<1> SUFFICES ASSUME ShutdownInv, [SNext]_allVars PROVE ShutdownInv'
  OBVIOUS
<1>t. /\ IInv /\ reached \subseteq Token
      /\ \A t \in Token : t.run \in Goroutine
  BY DEF ShutdownInv, Token
<1>1. CASE AgentStep
  <2>1. [Next]_vars
    BY <1>1 DEF AgentStep, Next
  <2>2. UNCHANGED shutdownVars
    BY <1>1 DEF AgentStep
  <2>3. CASE phase = "up"
    BY <1>t, <2>1, <2>2, <2>3, AgentInvariant DEF ShutdownInv, shutdownVars
  <2>4. CASE phase # "up"
    <3>1. ASSUME NEW t \in reached PROVE Passes(t)
      <4>1. t \in Token
        BY <1>t, <3>1
      <4>2. CASE \E p \in Prompt : FinishTitle(p)
        BY <4>1, <4>2, OthersPass DEF FinishTitle
      <4>3. CASE \E p \in Prompt : RunStep(p)
        BY <1>t, <4>1, <4>3, StepPasses DEF Goroutine
      <4>4. CASE \E g \in Goroutine : SummaryStep(g)
        BY <1>t, <4>1, <4>4, StepPasses
      <4>. QED
        BY <1>1, <2>4, <4>2, <4>3, <4>4 DEF AgentStep
    <3>2. \A t \in reached : StillIn(t)' \/ Past(t)'
      BY <3>1 DEF ShutdownInv, Passes
    <3>3. phase \in {"closing", "closed"} /\ ~timedOut => \A t \in reached : Past(t)'
      BY <3>1 DEF ShutdownInv, Passes
    <3>. QED
      BY <1>t, <2>1, <2>2, <3>2, <3>3, AgentInvariant DEF ShutdownInv, shutdownVars
  <2>. QED
    BY <2>3, <2>4
<1>2. ASSUME NEW s \in Session, CancelOne(s) PROVE ShutdownInv'
  <2>1. /\ [Next]_vars /\ UNCHANGED <<active, pc, depth>>
        /\ phase = "cancelling" /\ phase' = "cancelling"
        /\ reached' = reached \union ({active[s]} \ {NoRun})
    BY <1>2 DEF CancelOne, Next, Cancel, vars
  <2>2. active[s] # NoRun => active[s] \in Token /\ (StillIn(active[s]) \/ Past(active[s]))
    <3>1. SUFFICES ASSUME active[s] # NoRun
                   PROVE  active[s] \in Token /\ (StillIn(active[s]) \/ Past(active[s]))
      OBVIOUS
    <3>2. /\ active[s] \in Token
          /\ depth[active[s].run] = active[s].depth
          /\ pc[active[s].run] \in IF active[s].kind = "run" THEN TurnLabels \union {"unwind"}
                                                             ELSE {"summarizing"}
      BY <1>t, <3>1 DEF IInv, TypeOK, NoLeakedBusy
    <3>. QED
      BY <3>2 DEF StillIn, Past, LaterLabels
  <2>3. IInv' /\ \A t \in Token : StillIn(t)' = StillIn(t) /\ Past(t)' = Past(t)
    BY <1>t, <2>1, AgentInvariant DEF StillIn, Past
  <2>. QED
    BY <2>1, <2>2, <2>3, <1>t DEF ShutdownInv
<1>3. CASE WaitEnds
  <2>1. UNCHANGED <<vars, timedOut, reached>> /\ phase' = "closing" /\ Busy = {}
    BY <1>3 DEF WaitEnds
  <2>2. \A t \in reached : Past(t)
    <3> SUFFICES ASSUME NEW t \in reached, StillIn(t) PROVE FALSE
      BY DEF ShutdownInv
    <3>1. t.run \in Goroutine /\ SessionOf[t.run] \in Session
      BY <1>t, SessionOfType
    <3>2. active[SessionOf[t.run]] = NoRun
      BY <2>1, <3>1 DEF Busy
    <3>3. CASE pc[t.run] = "summarizing"
      <4>1. active[SessionOf[t.run]] = Tok(t.run, "summarize")
        BY <1>t, <3>1, <3>3 DEF IInv, TurnOwnsEntry
      <4>2. Tok(t.run, "summarize") \in Token
        BY <1>t, <3>1 DEF IInv, TypeOK, Tok, Token
      <4>. QED
        BY <3>2, <4>1, <4>2, NoRunFresh
    <3>4. CASE pc[t.run] \in TurnLabels
      <4>1. t.run \in Prompt
        BY <1>t, <3>1, <3>4 DEF IInv, LabelFacts, TurnLabels, Goroutine
      <4>2. active[SessionOf[t.run]] = Tok(t.run, "run")
        BY <1>t, <3>4, <4>1 DEF IInv, TurnOwnsEntry
      <4>3. Tok(t.run, "run") \in Token
        BY <1>t, <3>1 DEF IInv, TypeOK, Tok, Token
      <4>. QED
        BY <3>2, <4>2, <4>3, NoRunFresh
    <3>. QED
      BY <3>3, <3>4 DEF StillIn
  <2>3. IInv' /\ \A t \in Token : StillIn(t)' = StillIn(t) /\ Past(t)' = Past(t)
    BY <1>t, <2>1, AgentInvariant DEF StillIn, Past, vars
  <2>. QED
    BY <2>1, <2>2, <2>3, <1>t DEF ShutdownInv
<1>4. CASE Shutdown \/ Snapshot \/ AllCancelled \/ CloseDatabase \/ WaitTimesOut \/ UNCHANGED allVars
  <2>1. /\ UNCHANGED <<vars, reached>>
        /\ phase' \in {"up", "snapshot"} => phase \in {"up", "snapshot"}
        /\ phase' \in {"closing", "closed"} /\ ~timedOut' =>
              \/ phase \in {"closing", "closed"} /\ ~timedOut
              \/ phase = "up"
    BY <1>4 DEF Shutdown, Snapshot, AllCancelled, CloseDatabase, WaitTimesOut, allVars, shutdownVars
  <2>2. IInv' /\ \A t \in Token : StillIn(t)' = StillIn(t) /\ Past(t)' = Past(t)
    BY <1>t, <2>1, AgentInvariant DEF StillIn, Past, vars
  <2>. QED
    BY <2>1, <2>2, <1>t DEF ShutdownInv
<1>. QED
  BY <1>1, <1>2, <1>3, <1>4 DEF SNext, ShutdownStep, Closed

(* A turn that CancelAll reached has ended before the database is closed,  *)
(* unless the five seconds ran out.                                        *)
THEOREM ShutdownEndsTurns == SSpec => []CancelledTurnsEnd
<1>1. SInit => ShutdownInv
  BY InitIInv DEF SInit, ShutdownInv
<1>2. ShutdownInv => CancelledTurnsEnd
  BY DEF ShutdownInv, CancelledTurnsEnd, StillIn, Past, LaterLabels, Token, TurnLabels
<1>. QED
  BY <1>1, <1>2, ShutdownStepKeeps, PTL DEF SSpec

-----------------------------------------------------------------------------
(***************************************************************************)
(* What becomes of a prompt: SessionAgent implements PromptLedger, no call *)
(* is lost silently, a call that was cancelled does not run, and a turn    *)
(* that ends well leaves no call waiting.                                  *)
(*                                                                         *)
(* The argument.  The frames, the queue and PrepareStep hand a call on     *)
(* from one to the next, so that a prompt is in one place at a time        *)
(* (OnePlace), and the calls of a prompt are written in the order in which *)
(* summaries rewrote it (NotYetWritten).  Cancel therefore finds every     *)
(* call of the prompts it stops (NotStopped).  Most steps move no call at  *)
(* all; they are dealt with once (Quiet).                                  *)
(***************************************************************************)

(* Before its user message is written, and from then to the end of the     *)
(* turn or of its resumption.                                              *)
Fresh(p) == pc[p] \in {"idle", "begin", "setup"}
Started(p) == pc[p] \in {"prepare", "collect", "step", "fail", "ended", "full",
                         "summarize", "summarizing", "resume"}
Carries(p) ==
    \/ Fresh(p) \/ Started(p)
    \/ pc[p] = "unwind" /\ active[SessionOf[p]] = Tok(p, "run")

InSession ==
    /\ \A s \in Session : \A c \in Elements(queue[s]) : SessionOf[c.prompt] = s
    /\ \A p \in Prompt : SessionOf[cur[p].prompt] = SessionOf[p]
    /\ \A p \in Prompt : \A c \in Elements(held[p]) : SessionOf[c.prompt] = SessionOf[p]

OwnCall == \A p \in Prompt : pc[p] = "idle" => cur[p] = [prompt |-> p, resumed |-> 0]

HeldToCollect == \A p \in Prompt : pc[p] # "collect" => held[p] = <<>>

HasFrame ==
    \A p \in Prompt : Started(p) \/ pc[p] \in {"begin", "setup", "release"} => depth[p] > 0

(* A prompt is in one place at a time.                                     *)
Distinct(q) == \A i, j \in DOMAIN q : q[i].prompt = q[j].prompt => i = j
Absent(c, q) == \A d \in Elements(q) : d.prompt # c.prompt
OnePlace ==
    /\ \A s \in Session : Distinct(queue[s])
    /\ \A p \in Prompt : Distinct(held[p])
    /\ \A s \in Session, p \in Prompt : \A c \in Elements(queue[s]) : Absent(c, held[p])
    /\ \A p, r \in Prompt : \A c \in Elements(held[p]) : p # r => Absent(c, held[r])
    /\ \A p \in Prompt, s \in Session : Carries(p) => Absent(cur[p], queue[s])
    /\ \A p, r \in Prompt : Carries(p) => Absent(cur[p], held[r])
    /\ \A p, r \in Prompt :
          Carries(p) /\ Carries(r) /\ cur[p].prompt = cur[r].prompt => p = r

(* What waits is newer than what was written.                              *)
Newer(c) == \A w \in written : w.prompt = c.prompt => w.resumed < c.resumed
NotYetWritten ==
    /\ \A s \in Session : \A c \in Elements(queue[s]) : Newer(c)
    /\ \A p \in Prompt : \A c \in Elements(held[p]) : Newer(c)
    /\ \A p \in Prompt : Fresh(p) => Newer(cur[p])
    /\ \A p \in Prompt, w \in written :
          Started(p) /\ w.prompt = cur[p].prompt => w.resumed <= cur[p].resumed

Unstopped(c) == c.resumed = 0 => c.prompt \notin stopped
NotStopped ==
    /\ \A s \in Session : \A c \in Elements(queue[s]) : Unstopped(c)
    /\ \A p \in Prompt : pc[p] \in {"idle", "begin"} => Unstopped(cur[p])
    /\ \A p \in Prompt : \A c \in Elements(held[p]) : cancelled[p] = {} => Unstopped(c)

LInv ==
    /\ InSession /\ OwnCall /\ HeldToCollect /\ HasFrame
    /\ OnePlace /\ NotYetWritten /\ NotStopped

-----------------------------------------------------------------------------
(* Sequences of calls.                                                     *)
LEMMA ElementsType ==
  ASSUME NEW q \in Seq(Call) PROVE Elements(q) \subseteq Call
  BY DEF Elements

LEMMA ElementsEmpty == Elements(<<>>) = {} /\ Distinct(<<>>)
  BY DEF Elements, Distinct

LEMMA ElementsAppend ==
  ASSUME NEW q \in Seq(Call), NEW c \in Call
  PROVE  /\ Elements(Append(q, c)) = Elements(q) \union {c}
         /\ Distinct(q) /\ Absent(c, q) => Distinct(Append(q, c))
<1>1. /\ Append(q, c) \in Seq(Call) /\ Len(Append(q, c)) = Len(q) + 1
      /\ \A i \in 1 .. Len(q) : Append(q, c)[i] = q[i]
      /\ Append(q, c)[Len(q) + 1] = c
  OBVIOUS
<1>2. DOMAIN Append(q, c) = DOMAIN q \union {Len(q) + 1} /\ DOMAIN q = 1 .. Len(q)
  BY <1>1
<1>3. Elements(Append(q, c)) = Elements(q) \union {c}
  BY <1>1, <1>2 DEF Elements
<1>4. ASSUME Distinct(q), Absent(c, q) PROVE Distinct(Append(q, c))
  <2>1. \A i \in DOMAIN q : q[i].prompt # c.prompt
    BY <1>4 DEF Absent, Elements
  <2>. QED
    BY <1>1, <1>2, <1>4, <2>1 DEF Distinct
<1>. QED
  BY <1>3, <1>4

LEMMA ElementsTail ==
  ASSUME NEW q \in Seq(Call), q # <<>>
  PROVE  /\ Head(q) \in Call /\ Tail(q) \in Seq(Call)
         /\ Elements(q) = Elements(Tail(q)) \union {Head(q)}
         /\ Distinct(q) => Distinct(Tail(q)) /\ Absent(Head(q), Tail(q))
<1>1. /\ Tail(q) \in Seq(Call) /\ Head(q) = q[1] /\ Len(q) \in Nat \ {0}
      /\ Len(Tail(q)) = Len(q) - 1
      /\ \A i \in 1 .. Len(q) - 1 : Tail(q)[i] = q[i + 1]
      /\ DOMAIN q = 1 .. Len(q) /\ DOMAIN Tail(q) = 1 .. Len(q) - 1
  OBVIOUS
<1>2. \A i \in DOMAIN q : i = 1 \/ (i - 1 \in DOMAIN Tail(q) /\ q[i] = Tail(q)[i - 1])
  BY <1>1
<1>3. Elements(q) = Elements(Tail(q)) \union {Head(q)}
  <2>1. \A i \in DOMAIN Tail(q) : i + 1 \in DOMAIN q /\ Tail(q)[i] = q[i + 1]
    BY <1>1
  <2>2. Elements(Tail(q)) \subseteq Elements(q)
    BY <2>1 DEF Elements
  <2>3. Head(q) \in Elements(q)
    BY <1>1 DEF Elements
  <2>4. Elements(q) \subseteq Elements(Tail(q)) \union {Head(q)}
    BY <1>1, <1>2 DEF Elements
  <2>. QED
    BY <2>2, <2>3, <2>4
<1>4. ASSUME Distinct(q) PROVE Distinct(Tail(q)) /\ Absent(Head(q), Tail(q))
  <2>1. Distinct(Tail(q))
    BY <1>1, <1>4 DEF Distinct
  <2>2. \A i \in DOMAIN Tail(q) : Tail(q)[i].prompt # Head(q).prompt
    BY <1>1, <1>4 DEF Distinct
  <2>. QED
    BY <2>1, <2>2 DEF Absent, Elements
<1>. QED
  BY <1>1, <1>3, <1>4

-----------------------------------------------------------------------------
(* Steps that move no call.                                                *)
Quiet ==
    /\ UNCHANGED <<queue, held, cur, written, stopped>>
    /\ \A p \in Prompt :
          /\ pc'[p] = "idle" => pc[p] = "idle"
          /\ pc'[p] = "begin" => pc[p] \in {"idle", "begin"}
          /\ Fresh(p)' => Fresh(p)
          /\ Started(p)' => Started(p)
          /\ Carries(p)' => Carries(p)
          /\ pc[p] = "collect" /\ pc'[p] # "collect" => held[p] = <<>>
          /\ pc[p] = "collect" => cancelled'[p] = cancelled[p]
    /\ HasFrame'

LEMMA QuietKeeps == LInv /\ Quiet => LInv'
<1> SUFFICES ASSUME LInv, Quiet PROVE LInv'
  OBVIOUS
<1> USE DEF LInv, Quiet
<1>1. InSession' /\ OwnCall' /\ HeldToCollect' /\ HasFrame'
  BY DEF InSession, OwnCall, HeldToCollect
<1>2. OnePlace'
  BY DEF OnePlace, Absent
<1>3. NotYetWritten'
  BY DEF NotYetWritten, Newer
<1>4. \A p \in Prompt : \A c \in Elements(held[p]) : cancelled'[p] = cancelled[p]
  BY ElementsEmpty DEF HeldToCollect
<1>5. NotStopped'
  BY <1>4 DEF NotStopped, Unstopped
<1>. QED
  BY <1>1, <1>2, <1>3, <1>5

(* The steps that do move one.                                             *)
Moves(p) ==
    \/ BeginQueued(p) \/ WriteUserMessage(p) \/ TakeQueue(p) \/ WriteTaken(p)
    \/ FailStream(p) \/ Requeue(p) \/ ReleaseNext(p)

LEMMA TokIsToken ==
  ASSUME IInv, NEW g \in Goroutine
  PROVE  Tok(g, "run") # NoRun /\ Tok(g, "run").run = g
  BY NoRunFresh DEF IInv, TypeOK, Tok, Token

(* A goroutine that moves no call disturbs nobody else's.                  *)
QuietStep(g) ==
    /\ UNCHANGED <<queue, held, cur, written, stopped>>
    /\ \A h \in Goroutine \ {g} :
          pc'[h] = pc[h] /\ depth'[h] = depth[h] /\ cancelled'[h] = cancelled[h]
    /\ \A s \in Session : active'[s] \in {active[s], NoRun} \/ active'[s].run = g
    /\ g \in Prompt =>
          /\ pc'[g] = "idle" => pc[g] = "idle"
          /\ pc'[g] = "begin" => pc[g] \in {"idle", "begin"}
          /\ Fresh(g)' => Fresh(g)
          /\ Started(g)' => Started(g)
          /\ Carries(g)' => Carries(g)
          /\ pc[g] = "collect" /\ pc'[g] # "collect" => held[g] = <<>>
          /\ pc[g] = "collect" => cancelled'[g] = cancelled[g]
          /\ Started(g)' \/ pc'[g] \in {"begin", "setup", "release"} => depth'[g] > 0

LEMMA QuietGoroutine ==
  ASSUME IInv, LInv, NEW g \in Goroutine, QuietStep(g) PROVE Quiet
<1> USE DEF QuietStep
<1>1. ASSUME NEW p \in Prompt
      PROVE  /\ pc'[p] = "idle" => pc[p] = "idle"
             /\ pc'[p] = "begin" => pc[p] \in {"idle", "begin"}
             /\ Fresh(p)' => Fresh(p)
             /\ Started(p)' => Started(p)
             /\ Carries(p)' => Carries(p)
             /\ pc[p] = "collect" /\ pc'[p] # "collect" => held[p] = <<>>
             /\ pc[p] = "collect" => cancelled'[p] = cancelled[p]
             /\ Started(p)' \/ pc'[p] \in {"begin", "setup", "release"} => depth'[p] > 0
  <2>1. CASE p = g
    BY <2>1
  <2>2. CASE p # g
    <3>1. /\ p \in Goroutine \ {g} /\ pc'[p] = pc[p] /\ depth'[p] = depth[p]
          /\ cancelled'[p] = cancelled[p]
      BY <2>2 DEF Goroutine
    <3>2. Tok(p, "run")' = Tok(p, "run") /\ Tok(p, "run") # NoRun /\ Tok(p, "run").run = p
      BY <3>1, TokIsToken DEF Tok
    <3>3. SessionOf[p] \in Session
      BY SessionOfType DEF Goroutine
    <3>4. Carries(p)' => Carries(p)
      BY <3>1, <3>2, <3>3, <2>2 DEF Carries, Fresh, Started
    <3>. QED
      BY <3>1, <3>4 DEF Fresh, Started, LInv, HasFrame
  <2>. QED
    BY <2>1, <2>2
<1>2. HasFrame'
  BY <1>1 DEF HasFrame
<1>. QED
  BY <1>1, <1>2 DEF Quiet

LEMMA StepKinds ==
  ASSUME IInv, LInv, [Next]_vars
  PROVE  \/ Quiet
         \/ \E p \in Prompt : Moves(p)
         \/ \E s \in Session : Cancel(s) \/ ClearQueue(s)
<1>t. /\ pc \in [Goroutine -> Labels] /\ depth \in [Goroutine -> Nat]
      /\ active \in [Session -> Token \union {NoRun}]
      /\ cancelled \in [Goroutine -> SUBSET {"run", "summarize"}]
      /\ \A g \in Goroutine : SessionOf[g] \in Session
      /\ \A p \in Prompt : p \in Goroutine /\ p \notin Summarizer
  BY SessionOfType, KindsDisjoint DEF IInv, TypeOK, Goroutine
<1>f. HasFrame
  BY DEF LInv
<1> USE DEF QuietStep, Fresh, Started, Carries, Goto, Tok
<1>1. ASSUME NEW p \in Prompt, Submit(p) PROVE QuietStep(p)
  <2>1. /\ pc[p] = "idle" /\ pc'[p] = "begin" /\ depth'[p] = 1
        /\ \A h \in Goroutine \ {p} : pc'[h] = pc[h] /\ depth'[h] = depth[h]
        /\ UNCHANGED <<queue, active, held, cur, cancelled, written, stopped>>
    BY <1>1, <1>t DEF Submit
  <2>. QED
    BY <2>1, <1>t
<1>2. ASSUME NEW p \in Prompt, BeginActive(p) PROVE QuietStep(p)
  BY <1>2, <1>t, <1>f DEF BeginActive, HasFrame
<1>3. ASSUME NEW p \in Prompt, SetupFails(p) PROVE QuietStep(p)
  BY <1>3, <1>t, <1>f DEF SetupFails, HasFrame
<1>4. ASSUME NEW p \in Prompt,
             StartStep(p) \/ NextStep(p) \/ EndStream(p) \/ EndStreamFull(p)
      PROVE  QuietStep(p)
  BY <1>4, <1>t, <1>f, QuietGoroutine
     DEF StartStep, NextStep, EndStream, EndStreamFull, HasFrame
<1>5. ASSUME NEW p \in Prompt, HandleError(p) PROVE QuietStep(p)
  BY <1>5, <1>t, <1>f DEF HandleError, HasFrame
<1>6. ASSUME NEW p \in Prompt, DropActive(p) PROVE QuietStep(p)
  BY <1>6, <1>t, <1>f DEF DropActive, CompareAndDelete, HasFrame
<1>7. ASSUME NEW p \in Prompt, SkipRequeue(p) PROVE QuietStep(p)
  BY <1>7, <1>t, <1>f DEF SkipRequeue, HasFrame
<1>8. ASSUME NEW p \in Prompt, ReleaseIdle(p) PROVE QuietStep(p)
  <2>1. active'[SessionOf[p]] # Tok(p, "run")
    BY <1>8, <1>t, TokIsToken DEF ReleaseIdle, CompareAndDelete
  <2>2. ~Carries(p)'
    BY <1>8, <2>1, <1>t DEF ReleaseIdle
  <2>. QED
    BY <1>8, <2>2, <1>t, <1>f DEF ReleaseIdle, CompareAndDelete, HasFrame
<1>9. ASSUME NEW p \in Prompt, Unwind(p) PROVE QuietStep(p)
  <2>1. active[SessionOf[p]] # NoRun /\ active[SessionOf[p]].run = p
           => active[SessionOf[p]].depth = depth[p]
    BY <1>t DEF IInv, NoLeakedBusy
  <2>2. Tok(p, "run")'.run = p /\ Tok(p, "run")'.depth = depth[p] - 1
    BY <1>9, <1>t DEF Unwind
  <2>a. depth[p] - 1 \in Nat /\ p \in Goroutine
    BY <1>9, <1>t DEF Unwind, FrameLeft
  <2>b. Tok(p, "run")' \in Token
    BY <2>a, <2>2, <1>9, <1>t DEF Unwind, Token
  <2>c. active'[SessionOf[p]] \in {active[SessionOf[p]], NoRun}
    BY <1>9, <1>t DEF Unwind, CompareAndDelete
  <2>3. active'[SessionOf[p]] # Tok(p, "run")'
    <3>1. SUFFICES ASSUME active'[SessionOf[p]] = Tok(p, "run")' PROVE FALSE
      OBVIOUS
    <3>2. active[SessionOf[p]] = Tok(p, "run")' /\ active[SessionOf[p]] # NoRun
      BY <2>b, <2>c, <3>1, NoRunFresh
    <3>3. active[SessionOf[p]].run = p /\ active[SessionOf[p]].depth = depth[p] - 1
      BY <2>2, <3>2
    <3>. QED
      BY <2>1, <2>a, <3>2, <3>3, <1>t
  <2>4. ~Carries(p)'
    BY <1>9, <2>3, <1>t DEF Unwind
  <2>5. /\ pc' = pc /\ UNCHANGED <<queue, held, cur, cancelled, written, stopped>>
        /\ \A h \in Goroutine \ {p} : depth'[h] = depth[h]
        /\ \A s \in Session : active'[s] \in {active[s], NoRun}
    BY <1>9, <1>t DEF Unwind, CompareAndDelete
  <2>6. pc'[p] = "unwind"
    BY <1>9, <2>5, <1>t DEF Unwind
  <2>. QED
    BY <2>4, <2>5, <2>6
<1>10. ASSUME NEW p \in Prompt, FinishTitle(p) PROVE QuietStep(p)
  BY <1>10, <1>t, <1>f DEF FinishTitle, HasFrame
<1>11. ASSUME NEW z \in Summarizer, RequestSummary(z) PROVE QuietStep(z)
  BY <1>11, <1>t, <1>f DEF RequestSummary, Goroutine
<1>12. ASSUME NEW g \in Goroutine, SummarizeBusy(g) PROVE QuietStep(g)
  BY <1>12, <1>t, <1>f DEF SummarizeBusy, HasFrame
<1>13. ASSUME NEW g \in Goroutine, BeginSummarize(g) PROVE QuietStep(g)
  BY <1>13, <1>t, <1>f DEF BeginSummarize, HasFrame
<1>14. ASSUME NEW g \in Goroutine, EndSummarize(g) \/ CancelSummarize(g) PROVE QuietStep(g)
  <2>1. SummarizeReturnsNil(g) /\ pc[g] = "summarizing"
        /\ UNCHANGED <<queue, depth, cur, held, written, stopped>>
        /\ \A h \in Goroutine \ {g} : cancelled'[h] = cancelled[h]
    BY <1>14, <1>t DEF EndSummarize, CancelSummarize
  <2>2. /\ active' = [active EXCEPT ![SessionOf[g]] = NoRun]
        /\ pc' = [pc EXCEPT ![g] = IF g \in Prompt THEN "resume" ELSE "unwind"]
    BY <2>1, NilReturn
  <2>. QED
    BY <2>1, <2>2, <1>t, <1>f DEF HasFrame
<1>15. ASSUME NEW g \in Goroutine, FailSummarize(g) PROVE QuietStep(g)
  BY <1>15, <1>t, <1>f DEF FailSummarize, CompareAndDelete, HasFrame
<1>16. ASSUME NEW g \in Goroutine, Return(g) PROVE QuietStep(g)
  BY <1>16, <1>t, <1>f DEF Return, HasFrame
<1>17. ASSUME UNCHANGED vars PROVE Quiet
  BY <1>17, <1>f DEF vars, Quiet, HasFrame
<1>18. ASSUME NEW p \in Prompt, Submit(p) \/ FinishTitle(p) \/ RunStep(p)
       PROVE  Quiet \/ Moves(p)
  <2>1. ASSUME ~Moves(p) PROVE QuietStep(p)
    BY <1>18, <2>1, <1>1, <1>2, <1>3, <1>4, <1>5, <1>6, <1>7, <1>8, <1>9, <1>10
       DEF RunStep, Moves
  <2>. QED
    BY <2>1, <1>t, QuietGoroutine
<1>19. ASSUME NEW g \in Goroutine, SummaryStep(g) PROVE Quiet
  <2>1. QuietStep(g)
    BY <1>19, <1>12, <1>13, <1>14, <1>15, <1>16 DEF SummaryStep
  <2>. QED
    BY <2>1, QuietGoroutine
<1>20. ASSUME NEW z \in Summarizer, RequestSummary(z) PROVE Quiet
  <2>1. QuietStep(z) /\ z \in Goroutine
    BY <1>20, <1>11 DEF Goroutine
  <2> HIDE DEF QuietStep
  <2>. QED
    BY <2>1, QuietGoroutine
<1> HIDE DEF QuietStep, Fresh, Started, Carries, Goto, Tok
<1>21. \/ \E p \in Prompt : Submit(p) \/ RunStep(p) \/ FinishTitle(p)
       \/ \E z \in Summarizer : RequestSummary(z)
       \/ \E g \in Goroutine : SummaryStep(g)
       \/ \E s \in Session : Cancel(s) \/ ClearQueue(s)
       \/ UNCHANGED vars
  BY DEF Next, Quiescent
<1>. QED
  BY <1>17, <1>18, <1>19, <1>20, <1>21

-----------------------------------------------------------------------------
(* What the moves are about.                                               *)
LEMMA CallTypes ==
  ASSUME IInv
  PROVE  /\ \A s \in Session : queue[s] \in Seq(Call)
         /\ \A p \in Prompt : /\ held[p] \in Seq(Call) /\ cur[p] \in Call
                              /\ SessionOf[p] \in Session /\ p \in Goroutine
         /\ \A c \in Call : c.prompt \in Prompt /\ c.resumed \in Nat
         /\ \A s \in Session : Elements(queue[s]) \subseteq Call
         /\ \A p \in Prompt : Elements(held[p]) \subseteq Call
         /\ written \subseteq Call
<1>1. /\ \A s \in Session : queue[s] \in Seq(Call)
      /\ \A p \in Prompt : /\ held[p] \in Seq(Call) /\ cur[p] \in Call
                           /\ SessionOf[p] \in Session /\ p \in Goroutine
      /\ written \subseteq Call
  BY SessionOfType DEF IInv, TypeOK, Goroutine
<1>2. \A c \in Call : c.prompt \in Prompt /\ c.resumed \in Nat
  BY MaxResumesNat DEF Call
<1>. QED
  BY <1>1, <1>2, ElementsType

LEMMA BeginQueuedKeeps ==
  ASSUME IInv, LInv, NEW p \in Prompt, BeginQueued(p) PROVE LInv'
<1> DEFINE s == SessionOf[p]
<1>t. /\ s \in Session /\ p \in Goroutine /\ queue[s] \in Seq(Call) /\ cur[p] \in Call
      /\ queue \in [Session -> Seq(Call)] /\ pc \in [Goroutine -> Labels]
      /\ depth \in [Goroutine -> Nat]
  BY CallTypes DEF IInv, TypeOK
<1>1. /\ pc[p] = "begin" /\ pc' = [pc EXCEPT ![p] = "unwind"]
      /\ queue' = [queue EXCEPT ![s] = Append(@, cur[p])]
      /\ depth' = [depth EXCEPT ![p] = @ - 1]
      /\ UNCHANGED <<active, cur, held, cancelled, written, stopped>>
  BY DEF BeginQueued, Enqueue, Goto
<1>2. Fresh(p) /\ Carries(p)
  BY <1>1 DEF Fresh, Carries
<1>3. /\ pc'[p] = "unwind" /\ ~Fresh(p)' /\ ~Started(p)'
      /\ \A r \in Prompt \ {p} : pc'[r] = pc[r] /\ depth'[r] = depth[r]
  BY <1>1, <1>t DEF Fresh, Started, Goroutine
<1>4. ~Carries(p)'
  <2>1. active[s] # Tok(p, "run")'
    <3>1. SUFFICES ASSUME active[s] = Tok(p, "run")' PROVE FALSE
      OBVIOUS
    <3>2. active[s].run = p /\ active[s].kind = "run"
      BY <3>1 DEF Tok
    <3>3. active[s] # NoRun
      BY DEF BeginQueued
    <3>. QED
      BY <1>1, <1>t, <3>2, <3>3 DEF IInv, NoLeakedBusy, TurnLabels
  <2>. QED
    BY <1>1, <1>3, <2>1 DEF Carries
<1>5. \A r \in Prompt \ {p} : /\ Fresh(r)' = Fresh(r) /\ Started(r)' = Started(r)
                              /\ Carries(r)' = Carries(r)
  BY <1>1, <1>3 DEF Fresh, Started, Carries, Tok
<1>6. /\ Elements(queue'[s]) = Elements(queue[s]) \union {cur[p]}
      /\ \A t \in Session \ {s} : queue'[t] = queue[t]
  BY <1>1, <1>t, ElementsAppend
<1>7. Distinct(queue'[s])
  BY <1>1, <1>2, <1>t, ElementsAppend DEF LInv, OnePlace
<1> HIDE DEF s
<1>8. InSession'
  BY <1>1, <1>6, <1>t DEF LInv, InSession, s
<1>9. OwnCall' /\ HeldToCollect' /\ HasFrame'
  BY <1>1, <1>3, <1>5 DEF LInv, OwnCall, HeldToCollect, HasFrame
<1>10. OnePlace'
  BY <1>1, <1>2, <1>4, <1>5, <1>6, <1>7 DEF LInv, OnePlace, Absent
<1>11. NotYetWritten'
  BY <1>1, <1>2, <1>3, <1>5, <1>6 DEF LInv, NotYetWritten, Newer
<1>12. NotStopped'
  BY <1>1, <1>3, <1>6 DEF LInv, NotStopped, Unstopped
<1>. QED
  BY <1>8, <1>9, <1>10, <1>11, <1>12 DEF LInv

LEMMA WriteUserMessageKeeps ==
  ASSUME IInv, LInv, NEW p \in Prompt, WriteUserMessage(p) PROVE LInv'
<1>t. /\ p \in Goroutine /\ pc \in [Goroutine -> Labels] /\ cur[p].resumed \in Nat
  BY CallTypes DEF IInv, TypeOK
<1>1. /\ pc[p] = "setup" /\ pc' = [pc EXCEPT ![p] = "prepare"]
      /\ written' = written \union {cur[p]}
      /\ UNCHANGED <<queue, active, depth, cur, held, cancelled, stopped>>
  BY DEF WriteUserMessage, Goto
<1>2. /\ Fresh(p) /\ Carries(p) /\ ~Fresh(p)' /\ pc'[p] = "prepare"
      /\ \A r \in Prompt \ {p} : pc'[r] = pc[r]
  BY <1>1, <1>t DEF Fresh, Carries, Goroutine
<1>3. \A r \in Prompt \ {p} : /\ Fresh(r)' = Fresh(r) /\ Started(r)' = Started(r)
                              /\ Carries(r)' = Carries(r)
  BY <1>1, <1>2 DEF Fresh, Started, Carries, Tok
<1>4. InSession' /\ OwnCall' /\ HeldToCollect' /\ HasFrame'
  BY <1>1, <1>2, <1>3 DEF LInv, InSession, OwnCall, HeldToCollect, HasFrame
<1>5. OnePlace'
  BY <1>1, <1>2, <1>3 DEF LInv, OnePlace, Absent
<1>6. NotYetWritten'
  <2>1. \A t \in Session : \A c \in Elements(queue[t]) : c.prompt # cur[p].prompt
    BY <1>2 DEF LInv, OnePlace, Absent
  <2>2. \A r \in Prompt : \A c \in Elements(held[r]) : c.prompt # cur[p].prompt
    BY <1>2 DEF LInv, OnePlace, Absent
  <2>3. \A r \in Prompt \ {p} : Carries(r) => cur[r].prompt # cur[p].prompt
    BY <1>2 DEF LInv, OnePlace
  <2>4. \A r \in Prompt : Fresh(r) \/ Started(r) => Carries(r)
    BY DEF Carries
  <2>5. \A w \in written : w.prompt = cur[p].prompt => w.resumed < cur[p].resumed
    BY <1>2 DEF LInv, NotYetWritten, Newer
  <2>6. \A w \in written : w.resumed \in Nat
    BY CallTypes
  <2>7. /\ \A t \in Session : \A c \in Elements(queue[t]) : Newer(c)'
        /\ \A r \in Prompt : \A c \in Elements(held[r]) : Newer(c)'
    BY <1>1, <2>1, <2>2 DEF LInv, NotYetWritten, Newer
  <2>8. \A r \in Prompt : Fresh(r)' => Newer(cur[r])'
    BY <1>1, <1>2, <1>3, <2>3, <2>4 DEF LInv, NotYetWritten, Newer
  <2>9. \A r \in Prompt, w \in written' :
          Started(r)' /\ w.prompt = cur[r].prompt => w.resumed <= cur[r].resumed
    BY <1>1, <1>3, <1>t, <2>3, <2>4, <2>5, <2>6 DEF LInv, NotYetWritten
  <2>. QED
    BY <1>1, <2>7, <2>8, <2>9 DEF NotYetWritten
<1>7. NotStopped'
  BY <1>1, <1>2 DEF LInv, NotStopped, Unstopped
<1>. QED
  BY <1>4, <1>5, <1>6, <1>7 DEF LInv

LEMMA TakeQueueKeeps ==
  ASSUME IInv, LInv, NEW p \in Prompt, TakeQueue(p) PROVE LInv'
<1> DEFINE s == SessionOf[p]
<1>t. /\ s \in Session /\ p \in Goroutine /\ pc \in [Goroutine -> Labels]
      /\ queue \in [Session -> Seq(Call)] /\ held \in [Prompt -> Seq(Call)]
  BY CallTypes DEF IInv, TypeOK
<1>1. /\ pc[p] = "prepare" /\ pc' = [pc EXCEPT ![p] = "collect"]
      /\ queue' = [queue EXCEPT ![s] = <<>>]
      /\ held' = [held EXCEPT ![p] = queue[s]]
      /\ UNCHANGED <<active, depth, cur, cancelled, written, stopped>>
  BY DEF TakeQueue, Take, Goto
<1>2. /\ Started(p) /\ Carries(p) /\ Started(p)' /\ pc'[p] = "collect"
      /\ \A r \in Prompt \ {p} : pc'[r] = pc[r]
  BY <1>1, <1>t DEF Started, Carries, Goroutine
<1>3. \A r \in Prompt : /\ Fresh(r)' = Fresh(r) /\ Started(r)' = Started(r)
                        /\ Carries(r)' = Carries(r)
  BY <1>1, <1>2 DEF Fresh, Started, Carries, Tok
<1>4. /\ queue'[s] = <<>> /\ held'[p] = queue[s]
      /\ Elements(queue'[s]) = {} /\ Distinct(queue'[s])
      /\ \A t \in Session \ {s} : queue'[t] = queue[t]
      /\ \A r \in Prompt \ {p} : held'[r] = held[r]
  BY <1>1, <1>t, ElementsEmpty
<1> HIDE DEF s
<1>5. InSession'
  BY <1>1, <1>4, <1>t DEF LInv, InSession, s
<1>6. OwnCall' /\ HeldToCollect' /\ HasFrame'
  BY <1>1, <1>2, <1>4 DEF LInv, OwnCall, HeldToCollect, HasFrame, Started
<1>7. OnePlace'
  <2>1. \A t \in Session \ {s} : \A c \in Elements(queue[t]) : Absent(c, queue[s])
    BY <1>t DEF LInv, InSession, Absent
  <2>2. \A t \in Session, r \in Prompt :
           \A c \in Elements(queue'[t]) : Absent(c, held'[r])
    <3> SUFFICES ASSUME NEW t \in Session, NEW r \in Prompt, NEW c \in Elements(queue'[t])
                 PROVE  Absent(c, held'[r])
      OBVIOUS
    <3>1. t # s /\ c \in Elements(queue[t])
      BY <1>4
    <3>2. CASE r = p
      BY <1>4, <2>1, <3>1, <3>2
    <3>3. CASE r # p
      BY <1>4, <3>1, <3>3 DEF LInv, OnePlace
    <3>. QED
      BY <3>2, <3>3
  <2>3. \A r, q \in Prompt :
           \A c \in Elements(held'[r]) : r # q => Absent(c, held'[q])
    <3> SUFFICES ASSUME NEW r \in Prompt, NEW q \in Prompt, NEW c \in Elements(held'[r]), r # q
                 PROVE  Absent(c, held'[q])
      OBVIOUS
    <3>1. CASE r = p
      BY <1>4, <1>t, <3>1 DEF LInv, OnePlace
    <3>2. CASE q = p
      BY <1>4, <1>t, <3>2 DEF LInv, OnePlace, Absent
    <3>3. CASE r # p /\ q # p
      BY <1>4, <3>3 DEF LInv, OnePlace
    <3>. QED
      BY <3>1, <3>2, <3>3
  <2>4. \A r, q \in Prompt : Carries(r) => Absent(cur[r], held'[q])
    BY <1>4, <1>t DEF LInv, OnePlace
  <2>5. \A r \in Prompt, t \in Session : Carries(r) => Absent(cur[r], queue'[t])
    BY <1>4, <1>t DEF LInv, OnePlace, Absent
  <2>6. /\ \A t \in Session : Distinct(queue'[t])
        /\ \A r \in Prompt : Distinct(held'[r])
    BY <1>4, <1>t DEF LInv, OnePlace
  <2>. QED
    BY <1>1, <1>3, <2>2, <2>3, <2>4, <2>5, <2>6 DEF LInv, OnePlace, Absent
<1>8. NotYetWritten'
  BY <1>1, <1>3, <1>4, <1>t DEF LInv, NotYetWritten, Newer
<1>9. NotStopped'
  <2>1. \A r \in Prompt : \A c \in Elements(held'[r]) : cancelled'[r] = {} => Unstopped(c)
    BY <1>1, <1>4, <1>t DEF LInv, NotStopped
  <2>2. \A r \in Prompt : pc'[r] \in {"idle", "begin"} => Unstopped(cur[r])
    BY <1>1, <1>2 DEF LInv, NotStopped
  <2>3. \A t \in Session : \A c \in Elements(queue'[t]) : Unstopped(c)
    BY <1>4, <1>t DEF LInv, NotStopped
  <2>. QED
    BY <1>1, <2>1, <2>2, <2>3 DEF NotStopped, Unstopped
<1>. QED
  BY <1>5, <1>6, <1>7, <1>8, <1>9 DEF LInv

LEMMA WriteTakenKeeps ==
  ASSUME IInv, LInv, NEW p \in Prompt, WriteTaken(p) PROVE LInv'
<1> DEFINE h == Head(held[p])
<1>t. held \in [Prompt -> Seq(Call)]
  BY DEF IInv, TypeOK
<1>1. /\ pc[p] = "collect" /\ held[p] # <<>>
      /\ written' = written \union {h}
      /\ held' = [held EXCEPT ![p] = Tail(@)]
      /\ UNCHANGED <<queue, active, pc, depth, cur, cancelled, stopped>>
  BY DEF WriteTaken
<1>2. Carries(p)
  BY <1>1 DEF Carries, Started
<1>3. /\ h \in Call /\ h.resumed \in Nat
      /\ Elements(held[p]) = Elements(held'[p]) \union {h}
      /\ Distinct(held'[p]) /\ Absent(h, held'[p])
      /\ \A r \in Prompt \ {p} : held'[r] = held[r]
  BY <1>1, <1>t, ElementsTail, CallTypes DEF LInv, OnePlace
<1> HIDE DEF h
<1>4. \A r \in Prompt : /\ Fresh(r)' = Fresh(r) /\ Started(r)' = Started(r)
                        /\ Carries(r)' = Carries(r)
  BY <1>1 DEF Fresh, Started, Carries, Tok
<1>5. InSession' /\ OwnCall' /\ HasFrame'
  BY <1>1, <1>3, <1>4 DEF LInv, InSession, OwnCall, HasFrame
<1>6. HeldToCollect'
  BY <1>1, <1>3 DEF LInv, HeldToCollect
<1>7. OnePlace'
  BY <1>1, <1>3, <1>4 DEF LInv, OnePlace, Absent
<1>8. NotYetWritten'
  <2>1. \A t \in Session : \A c \in Elements(queue[t]) : c.prompt # h.prompt
    BY <1>3 DEF LInv, OnePlace, Absent
  <2>2. \A r \in Prompt : \A c \in Elements(held'[r]) : c.prompt # h.prompt
    BY <1>3 DEF LInv, OnePlace, Absent
  <2>3. \A r \in Prompt : Carries(r) => cur[r].prompt # h.prompt
    BY <1>3 DEF LInv, OnePlace, Absent
  <2>4. \A r \in Prompt : Fresh(r) \/ Started(r) => Carries(r)
    BY DEF Carries
  <2>5. \A r \in Prompt : Elements(held'[r]) \subseteq Elements(held[r])
    BY <1>3
  <2>6. /\ \A t \in Session : \A c \in Elements(queue[t]) : Newer(c)'
        /\ \A r \in Prompt : \A c \in Elements(held'[r]) : Newer(c)'
    BY <1>1, <2>1, <2>2, <2>5 DEF LInv, NotYetWritten, Newer
  <2>7. \A r \in Prompt : Fresh(r)' => Newer(cur[r])'
    BY <1>1, <1>4, <2>3, <2>4 DEF LInv, NotYetWritten, Newer
  <2>8. \A r \in Prompt, w \in written' :
          Started(r)' /\ w.prompt = cur[r].prompt => w.resumed <= cur[r].resumed
    BY <1>1, <1>4, <2>3, <2>4 DEF LInv, NotYetWritten
  <2>. QED
    BY <1>1, <2>6, <2>7, <2>8 DEF NotYetWritten
<1>9. NotStopped'
  BY <1>1, <1>3 DEF LInv, NotStopped, Unstopped
<1>. QED
  BY <1>5, <1>6, <1>7, <1>8, <1>9 DEF LInv

LEMMA FailStreamKeeps ==
  ASSUME IInv, LInv, NEW p \in Prompt, FailStream(p) PROVE LInv'
<1>t. /\ p \in Goroutine /\ pc \in [Goroutine -> Labels] /\ held \in [Prompt -> Seq(Call)]
  BY CallTypes DEF IInv, TypeOK
<1>1. /\ pc[p] \in {"prepare", "collect", "step"} /\ pc' = [pc EXCEPT ![p] = "fail"]
      /\ held' = [held EXCEPT ![p] = <<>>]
      /\ UNCHANGED <<queue, active, depth, cur, cancelled, written, stopped>>
  BY DEF FailStream, Goto
<1>2. /\ pc'[p] = "fail" /\ \A r \in Prompt \ {p} : pc'[r] = pc[r]
      /\ held'[p] = <<>> /\ \A r \in Prompt \ {p} : held'[r] = held[r]
  BY <1>1, <1>t DEF Goroutine
<1>3. \A r \in Prompt : /\ Fresh(r)' = Fresh(r) /\ Started(r)' = Started(r)
                        /\ Carries(r)' = Carries(r)
  BY <1>1, <1>2 DEF Fresh, Started, Carries, Tok
<1>4. /\ \A r \in Prompt : Elements(held'[r]) \subseteq Elements(held[r])
      /\ \A r \in Prompt : Distinct(held[r]) => Distinct(held'[r])
  BY <1>2, ElementsEmpty
<1>5. InSession' /\ OwnCall' /\ HasFrame'
  BY <1>1, <1>2, <1>3, <1>4 DEF LInv, InSession, OwnCall, HasFrame
<1>6. HeldToCollect'
  BY <1>2 DEF LInv, HeldToCollect
<1>7. OnePlace'
  <2>1. \A r \in Prompt : \A c : Absent(c, held[r]) => Absent(c, held'[r])
    BY <1>4 DEF Absent
  <2>2. /\ \A t \in Session, r \in Prompt :
              \A c \in Elements(queue[t]) : Absent(c, held'[r])
        /\ \A r, q \in Prompt :
              \A c \in Elements(held'[r]) : r # q => Absent(c, held'[q])
        /\ \A r, q \in Prompt : Carries(r) => Absent(cur[r], held'[q])
    BY <1>4, <2>1 DEF LInv, OnePlace
  <2>. QED
    BY <1>1, <1>3, <1>4, <2>2 DEF LInv, OnePlace, Absent
<1>8. NotYetWritten' /\ NotStopped'
  BY <1>1, <1>2, <1>3, <1>4 DEF LInv, NotYetWritten, Newer, NotStopped, Unstopped
<1>. QED
  BY <1>5, <1>6, <1>7, <1>8 DEF LInv

LEMMA RequeueKeeps ==
  ASSUME IInv, LInv, NEW p \in Prompt, Requeue(p) PROVE LInv'
<1> DEFINE s == SessionOf[p]
           again == [prompt |-> cur[p].prompt, resumed |-> cur[p].resumed + 1]
<1>t. /\ s \in Session /\ p \in Goroutine /\ queue[s] \in Seq(Call) /\ cur[p] \in Call
      /\ queue \in [Session -> Seq(Call)] /\ pc \in [Goroutine -> Labels]
      /\ cur \in [Prompt -> Call]
      /\ cur[p].resumed \in Nat
  BY CallTypes DEF IInv, TypeOK
<1>1. /\ pc[p] = "resume" /\ pc' = [pc EXCEPT ![p] = "release"]
      /\ queue' = [queue EXCEPT ![s] = Append(@, again)]
      /\ cur' = [cur EXCEPT ![p] = again]
      /\ UNCHANGED <<active, depth, held, cancelled, written, stopped>>
  BY DEF Requeue, Enqueue, Goto
<1>2. Started(p) /\ Carries(p)
  BY <1>1 DEF Started, Carries
<1>3. /\ pc'[p] = "release" /\ ~Fresh(p)' /\ ~Started(p)' /\ ~Carries(p)'
      /\ \A r \in Prompt \ {p} : pc'[r] = pc[r]
  BY <1>1, <1>t DEF Fresh, Started, Carries, Goroutine
<1>4. \A r \in Prompt \ {p} : /\ Fresh(r)' = Fresh(r) /\ Started(r)' = Started(r)
                              /\ Carries(r)' = Carries(r) /\ cur'[r] = cur[r]
  BY <1>1, <1>3 DEF Fresh, Started, Carries, Tok
<1>5. again \in Call
  BY <1>1, <1>t, MaxResumesNat DEF IInv, ResumeBounded, SummaryLabels, Call
<1>6. /\ again.prompt = cur[p].prompt /\ again.resumed = cur[p].resumed + 1
      /\ cur'[p] = again
  BY <1>1, <1>t
<1> HIDE DEF again
<1>7. /\ Elements(queue'[s]) = Elements(queue[s]) \union {again}
      /\ \A t \in Session \ {s} : queue'[t] = queue[t]
  BY <1>1, <1>5, <1>t, ElementsAppend
<1>8. Absent(again, queue[s]) /\ \A r \in Prompt : Absent(again, held[r])
  BY <1>2, <1>6, <1>t DEF LInv, OnePlace, Absent
<1>9. Distinct(queue'[s])
  BY <1>1, <1>5, <1>8, <1>t, ElementsAppend DEF LInv, OnePlace
<1>10. Newer(again) /\ Unstopped(again)
  <2>1. \A w \in written : w.resumed \in Nat
    BY CallTypes
  <2>2. \A w \in written : w.prompt = cur[p].prompt => w.resumed <= cur[p].resumed
    BY <1>2 DEF LInv, NotYetWritten
  <2>. QED
    BY <1>6, <1>t, <2>1, <2>2 DEF Newer, Unstopped
<1>11. \A r \in Prompt \ {p} : Carries(r) => cur[r].prompt # again.prompt
  BY <1>2, <1>6 DEF LInv, OnePlace
<1>12. SessionOf[again.prompt] = s
  BY <1>6 DEF LInv, InSession
<1> HIDE DEF s
<1>13. InSession'
  <2>1. SessionOf[cur'[p].prompt] = SessionOf[p]
    BY <1>6, <1>12 DEF s
  <2>. QED
    BY <1>1, <1>4, <1>7, <1>12, <1>t, <2>1 DEF LInv, InSession
<1>14. OwnCall' /\ HeldToCollect' /\ HasFrame'
  BY <1>1, <1>2, <1>3, <1>4 DEF LInv, OwnCall, HeldToCollect, HasFrame
<1>15. OnePlace'
  BY <1>1, <1>3, <1>4, <1>7, <1>8, <1>9, <1>11 DEF LInv, OnePlace, Absent
<1>16. NotYetWritten'
  BY <1>1, <1>3, <1>4, <1>7, <1>10 DEF LInv, NotYetWritten, Newer
<1>17. NotStopped'
  BY <1>1, <1>3, <1>4, <1>7, <1>10 DEF LInv, NotStopped, Unstopped
<1>. QED
  BY <1>13, <1>14, <1>15, <1>16, <1>17 DEF LInv

LEMMA ReleaseNextKeeps ==
  ASSUME IInv, LInv, NEW p \in Prompt, ReleaseNext(p) PROVE LInv'
<1> DEFINE s == SessionOf[p]
           h == Head(queue[s])
<1>t. /\ s \in Session /\ p \in Goroutine /\ queue[s] \in Seq(Call)
      /\ queue \in [Session -> Seq(Call)] /\ pc \in [Goroutine -> Labels]
      /\ cur \in [Prompt -> Call] /\ depth \in [Goroutine -> Nat]
      /\ active \in [Session -> Token \union {NoRun}]
      /\ \A r \in Prompt : SessionOf[r] \in Session
  BY CallTypes DEF IInv, TypeOK
<1>1. /\ pc[p] \in {"ended", "release"} /\ pc' = [pc EXCEPT ![p] = "begin"]
      /\ queue[s] # <<>> /\ queue' = [queue EXCEPT ![s] = Tail(@)]
      /\ cur' = [cur EXCEPT ![p] = h]
      /\ depth' = [depth EXCEPT ![p] = @ + 1]
      /\ UNCHANGED <<held, written, stopped>>
  BY DEF ReleaseNext, Drained, Goto
<1>2. \A t \in Session : active'[t] \in {active[t], NoRun}
  BY <1>t DEF ReleaseNext, CompareAndDelete
<1>3. /\ h \in Call
      /\ Elements(queue[s]) = Elements(queue'[s]) \union {h}
      /\ Distinct(queue'[s]) /\ Absent(h, queue'[s])
      /\ \A t \in Session \ {s} : queue'[t] = queue[t]
  BY <1>1, <1>t, ElementsTail DEF LInv, OnePlace
<1>4. /\ cur'[p] = h /\ \A r \in Prompt \ {p} : cur'[r] = cur[r]
      /\ pc'[p] = "begin" /\ \A r \in Prompt \ {p} : pc'[r] = pc[r]
      /\ depth'[p] > 0 /\ \A r \in Prompt \ {p} : depth'[r] = depth[r]
      /\ Carries(p)' /\ Fresh(p)' /\ ~Started(p)'
  BY <1>1, <1>t DEF Goroutine, Carries, Fresh, Started
<1>u. UNCHANGED <<held, written, stopped>>
  BY <1>1
<1>v. /\ Elements(held[p]) = {}
      /\ \A r \in Prompt \ {p} : cancelled'[r] = cancelled[r]
  <2>1. held[p] = <<>>
    BY <1>1 DEF LInv, HeldToCollect
  <2>2. cancelled' = [cancelled EXCEPT ![p] = {}] /\ cancelled \in [Goroutine -> SUBSET {"run", "summarize"}]
    BY DEF ReleaseNext, IInv, TypeOK
  <2>. QED
    BY <2>1, <2>2, ElementsEmpty DEF Goroutine
<1> HIDE DEF h
<1>5. \A r \in Prompt \ {p} : /\ Fresh(r)' = Fresh(r) /\ Started(r)' = Started(r)
                              /\ Carries(r)' => Carries(r)
  <2> SUFFICES ASSUME NEW r \in Prompt \ {p}
               PROVE  /\ Fresh(r)' = Fresh(r) /\ Started(r)' = Started(r)
                      /\ Carries(r)' => Carries(r)
    OBVIOUS
  <2>1. Tok(r, "run")' = Tok(r, "run") /\ Tok(r, "run") # NoRun
    BY <1>4, TokIsToken DEF Tok, Goroutine
  <2>. QED
    BY <1>2, <1>4, <1>t, <2>1 DEF Fresh, Started, Carries
<1>6. SessionOf[h.prompt] = s /\ Newer(h) /\ Unstopped(h)
  BY <1>3, <1>t DEF LInv, InSession, NotYetWritten, NotStopped
<1>7. /\ \A t \in Session : Elements(queue'[t]) \subseteq Elements(queue[t])
      /\ \A t \in Session : Distinct(queue'[t])
  BY <1>3 DEF LInv, OnePlace
<1>8. \A t \in Session : Absent(h, queue'[t])
  <2>1. \A t \in Session \ {s} : Absent(h, queue[t])
    BY <1>6 DEF LInv, InSession, Absent
  <2>. QED
    BY <1>3, <2>1
<1>9. /\ \A r \in Prompt : Absent(h, held[r])
      /\ \A r \in Prompt : Carries(r) => cur[r].prompt # h.prompt
  BY <1>3, <1>t DEF LInv, OnePlace, Absent
<1> HIDE DEF s
<1>10. InSession'
  <2>1. SessionOf[cur'[p].prompt] = SessionOf[p]
    BY <1>4, <1>6 DEF s
  <2>2. \A r \in Prompt : SessionOf[cur'[r].prompt] = SessionOf[r]
    BY <1>4, <2>1 DEF LInv, InSession
  <2>3. \A t \in Session : \A c \in Elements(queue'[t]) : SessionOf[c.prompt] = t
    BY <1>7 DEF LInv, InSession
  <2>. QED
    BY <1>u, <2>2, <2>3 DEF LInv, InSession
<1>11. OwnCall' /\ HeldToCollect' /\ HasFrame'
  <2>1. OwnCall'
    BY <1>4 DEF LInv, OwnCall
  <2>2. HeldToCollect'
    BY <1>u, <1>1, <1>4 DEF LInv, HeldToCollect
  <2>3. HasFrame'
    BY <1>4, <1>5 DEF LInv, HasFrame
  <2>. QED
    BY <2>1, <2>2, <2>3
<1>12. OnePlace'
  <2>1. /\ \A t \in Session, r \in Prompt :
              \A c \in Elements(queue'[t]) : Absent(c, held[r])
        /\ \A r \in Prompt, t \in Session : Carries(r)' => Absent(cur'[r], queue'[t])
    BY <1>4, <1>5, <1>7, <1>8 DEF LInv, OnePlace, Absent
  <2>2. \A r, q \in Prompt : Carries(r)' => Absent(cur'[r], held[q])
    BY <1>4, <1>5, <1>9 DEF LInv, OnePlace
  <2>3. \A r, q \in Prompt :
           Carries(r)' /\ Carries(q)' /\ cur'[r].prompt = cur'[q].prompt => r = q
    BY <1>4, <1>5, <1>9 DEF LInv, OnePlace
  <2>. QED
    BY <1>u, <1>7, <2>1, <2>2, <2>3 DEF LInv, OnePlace, Absent
<1>13. NotYetWritten'
  BY <1>u, <1>4, <1>5, <1>6, <1>7 DEF LInv, NotYetWritten, Newer
<1>14. NotStopped'
  BY <1>u, <1>v, <1>4, <1>6, <1>7 DEF LInv, NotStopped, Unstopped
<1>. QED
  BY <1>10, <1>11, <1>12, <1>13, <1>14 DEF LInv

(* The goroutine Cancel stops carries the call it is stopped in.           *)
LEMMA OwnerCarries ==
  ASSUME IInv, NEW s \in Session, active[s] # NoRun, active[s].run \notin Summarizer
  PROVE  /\ active[s].run \in Prompt /\ SessionOf[active[s].run] = s
         /\ Carries(active[s].run) /\ pc[active[s].run] \notin {"idle", "begin"}
<1> DEFINE r == active[s].run
<1>1. /\ active[s] \in Token /\ r \in Prompt /\ SessionOf[r] = s
      /\ active[s].depth = depth[r]
      /\ pc[r] \in IF active[s].kind = "run" THEN TurnLabels \union {"unwind"}
                                              ELSE {"summarizing"}
  BY DEF IInv, TypeOK, NoLeakedBusy, Token, Goroutine
<1>2. CASE pc[r] = "unwind"
  <2>1. active[s] = Tok(r, "run")
    BY <1>1, <1>2 DEF Tok, Token
  <2>. QED
    BY <1>1, <1>2, <2>1 DEF Carries
<1>3. CASE pc[r] # "unwind"
  BY <1>1, <1>3 DEF TurnLabels, Carries, Fresh, Started
<1>. QED
  BY <1>2, <1>3

LEMMA CancelKeeps ==
  ASSUME IInv, LInv, NEW s \in Session, Cancel(s) \/ ClearQueue(s) PROVE LInv'
<1>t. queue \in [Session -> Seq(Call)]
  BY DEF IInv, TypeOK
<1>1. /\ queue' = [queue EXCEPT ![s] = <<>>]
      /\ UNCHANGED <<active, pc, depth, cur, held, written>>
  BY DEF Cancel, ClearQueue, Take
<1>2. /\ \A t \in Session : Elements(queue'[t]) \subseteq Elements(queue[t])
      /\ \A t \in Session : Distinct(queue[t]) => Distinct(queue'[t])
      /\ Elements(queue'[s]) = {} /\ \A t \in Session \ {s} : queue'[t] = queue[t]
  BY <1>1, <1>t, ElementsEmpty
<1>3. \A r \in Prompt : /\ Fresh(r)' = Fresh(r) /\ Started(r)' = Started(r)
                        /\ Carries(r)' = Carries(r)
  BY <1>1 DEF Fresh, Started, Carries, Tok
<1>4. InSession' /\ OwnCall' /\ HeldToCollect' /\ HasFrame'
  BY <1>1, <1>2, <1>3 DEF LInv, InSession, OwnCall, HeldToCollect, HasFrame
<1>5. OnePlace'
  BY <1>1, <1>2, <1>3 DEF LInv, OnePlace, Absent
<1>6. NotYetWritten'
  BY <1>1, <1>2, <1>3 DEF LInv, NotYetWritten, Newer
<1>7. NotStopped'
  <2>1. CASE Cancel(s)
    <3> DEFINE t == active[s]
               Runs == t # NoRun /\ t.run \notin Summarizer
    <3>1. \A q \in stopped' : \/ q \in stopped
                              \/ \E c \in Elements(queue[s]) : q = c.prompt
                              \/ Runs /\ q = cur[t.run].prompt
                              \/ Runs /\ \E c \in Elements(held[t.run]) : q = c.prompt
      BY <2>1 DEF Cancel, PromptsOf, FoundBy
    <3>2. Runs =>
             /\ t.run \in Prompt /\ SessionOf[t.run] = s
             /\ Carries(t.run) /\ pc[t.run] \notin {"idle", "begin"}
      BY OwnerCarries
    <3>3. /\ \A p \in Prompt : cancelled'[p] = {} => cancelled[p] = {}
          /\ Runs => cancelled'[t.run] # {}
      <4>1. cancelled \in [Goroutine -> SUBSET {"run", "summarize"}]
        BY DEF IInv, TypeOK
      <4>2. Runs => t.run \in Goroutine
        BY <3>2 DEF Goroutine
      <4>3. cancelled' = IF t = NoRun THEN cancelled
                         ELSE [cancelled EXCEPT ![t.run] = @ \union {t.kind}]
        BY <2>1 DEF Cancel
      <4>. QED
        BY <4>1, <4>2, <4>3 DEF Goroutine
    <3> HIDE DEF t, Runs
    <3>4. \A u \in Session : \A c \in Elements(queue'[u]) : Unstopped(c)'
      <4> SUFFICES ASSUME NEW u \in Session, NEW c \in Elements(queue'[u]),
                          c.resumed = 0, c.prompt \in stopped'
                   PROVE  FALSE
        BY DEF Unstopped
      <4>1. u # s /\ c \in Elements(queue[u]) /\ SessionOf[c.prompt] = u
        BY <1>2 DEF LInv, InSession
      <4>2. c.prompt \notin stopped
        BY <4>1 DEF LInv, NotStopped, Unstopped
      <4>3. \A d \in Elements(queue[s]) : c.prompt # d.prompt
        BY <4>1 DEF LInv, InSession
      <4>4. Runs => /\ c.prompt # cur[t.run].prompt
                    /\ \A d \in Elements(held[t.run]) : c.prompt # d.prompt
        BY <4>1, <3>2 DEF LInv, InSession
      <4>. QED
        BY <3>1, <4>2, <4>3, <4>4
    <3>5. \A p \in Prompt : pc[p] \in {"idle", "begin"} => Unstopped(cur[p])'
      <4> SUFFICES ASSUME NEW p \in Prompt, pc[p] \in {"idle", "begin"},
                          cur[p].resumed = 0, cur[p].prompt \in stopped'
                   PROVE  FALSE
        BY <1>1 DEF Unstopped
      <4>1. Carries(p)
        BY DEF Carries, Fresh
      <4>2. cur[p].prompt \notin stopped
        BY DEF LInv, NotStopped, Unstopped
      <4>3. \A d \in Elements(queue[s]) : cur[p].prompt # d.prompt
        BY <4>1 DEF LInv, OnePlace, Absent
      <4>4. Runs => /\ cur[p].prompt # cur[t.run].prompt
                    /\ \A d \in Elements(held[t.run]) : cur[p].prompt # d.prompt
        BY <4>1, <3>2 DEF LInv, OnePlace, Absent
      <4>. QED
        BY <3>1, <4>2, <4>3, <4>4
    (* Of what PrepareStep has taken, that of the cancelled run is doomed. *)
    <3>6. \A p \in Prompt : \A c \in Elements(held[p]) :
              cancelled'[p] = {} => Unstopped(c)'
      <4> SUFFICES ASSUME NEW p \in Prompt, NEW c \in Elements(held[p]),
                          cancelled'[p] = {}, c.resumed = 0, c.prompt \in stopped'
                   PROVE  FALSE
        BY <1>1 DEF Unstopped
      <4>1. c.prompt \notin stopped /\ (Runs => p # t.run)
        BY <3>3 DEF LInv, NotStopped, Unstopped
      <4>2. \A d \in Elements(queue[s]) : c.prompt # d.prompt
        BY DEF LInv, OnePlace, Absent
      <4>3. Runs => /\ c.prompt # cur[t.run].prompt
                    /\ \A d \in Elements(held[t.run]) : c.prompt # d.prompt
        BY <4>1, <3>2 DEF LInv, OnePlace, Absent
      <4>. QED
        BY <3>1, <4>1, <4>2, <4>3
    <3>. QED
      BY <1>1, <3>4, <3>5, <3>6 DEF NotStopped
  <2>2. CASE ClearQueue(s)
    BY <1>1, <1>2, <2>2 DEF ClearQueue, LInv, NotStopped, Unstopped
  <2>. QED
    BY <2>1, <2>2
<1>. QED
  BY <1>4, <1>5, <1>6, <1>7 DEF LInv

LEMMA InitLInv == Init => LInv
<1> SUFFICES ASSUME Init PROVE LInv
  OBVIOUS
<1>1. /\ \A s \in Session : queue[s] = <<>>
      /\ \A p \in Prompt : /\ held[p] = <<>> /\ pc[p] = "idle"
                           /\ cur[p] = [prompt |-> p, resumed |-> 0]
      /\ written = {} /\ stopped = {}
  BY DEF Init, Goroutine
<1>e. /\ \A s \in Session : Elements(queue[s]) = {} /\ Distinct(queue[s])
      /\ \A p \in Prompt : Elements(held[p]) = {} /\ Distinct(held[p])
  BY <1>1, ElementsEmpty
<1>c. \A p \in Prompt : cur[p].prompt = p
  BY DEF Init
<1>2. InSession
  BY <1>c, <1>e DEF InSession
<1>3. OwnCall /\ HeldToCollect /\ HasFrame
  BY <1>1 DEF OwnCall, HeldToCollect, HasFrame, Started
<1>4. OnePlace
  BY <1>c, <1>e DEF OnePlace, Absent
<1>5. NotYetWritten /\ NotStopped
  BY <1>1, <1>e DEF NotYetWritten, Newer, NotStopped, Unstopped
<1>. QED
  BY <1>2, <1>3, <1>4, <1>5 DEF LInv

LEMMA LedgerStep == IInv /\ LInv /\ [Next]_vars => LInv'
<1> SUFFICES ASSUME IInv, LInv, [Next]_vars PROVE LInv'
  OBVIOUS
<1>1. ASSUME NEW p \in Prompt, Moves(p) PROVE LInv'
  BY <1>1, BeginQueuedKeeps, WriteUserMessageKeeps, TakeQueueKeeps, WriteTakenKeeps,
     FailStreamKeeps, RequeueKeeps, ReleaseNextKeeps DEF Moves
<1>. QED
  BY <1>1, StepKinds, QuietKeeps, CancelKeeps

(* A prompt is in one place, in its session, and written in order.         *)
THEOREM LedgerInvariance == Spec => []LInv
  BY Invariance, InitLInv, LedgerStep, PTL DEF Spec

-----------------------------------------------------------------------------
LEMMA InWaiting ==
  ASSUME NEW c
  PROVE  c \in Waiting <=>
            \/ \E s \in Session : c \in Elements(queue[s])
            \/ \E p \in Prompt : c \in Elements(held[p])
            \/ \E p \in Prompt : pc[p] \in {"begin", "setup"} /\ c = cur[p]
<1> DEFINE Q == UNION {Elements(queue[s]) : s \in Session}
           H == UNION {Elements(held[p]) : p \in Prompt}
           R == {cur[p] : p \in {q \in Prompt : pc[q] \in {"begin", "setup"}}}
<1>1. c \in Q <=> \E s \in Session : c \in Elements(queue[s])
  OBVIOUS
<1>2. c \in H <=> \E p \in Prompt : c \in Elements(held[p])
  OBVIOUS
<1>3. c \in R <=> \E p \in Prompt : pc[p] \in {"begin", "setup"} /\ c = cur[p]
  OBVIOUS
<1>4. Waiting = Q \union H \union R
  BY Zenon DEF Waiting
<1> HIDE DEF Q, H, R
<1>. QED
  BY <1>1, <1>2, <1>3, <1>4

(* How a goroutine gets past the labels at which its call waits.           *)
LEMMA LeavesSetup ==
  ASSUME IInv, [Next]_vars, NEW p \in Prompt,
         pc[p] \in {"begin", "setup"}, pc'[p] \notin {"begin", "setup"}
  PROVE  BeginQueued(p) \/ WriteUserMessage(p) \/ SetupFails(p)
<1>t. /\ pc \in [Goroutine -> Labels] /\ p \in Goroutine
      /\ \A q \in Prompt : q \in Goroutine
      /\ \A q \in Summarizer : q \in Goroutine
  BY DEF IInv, TypeOK, Goroutine
<1>1. ASSUME NEW g \in Goroutine,
             \A h \in Goroutine \ {g} : pc'[h] = pc[h]
      PROVE  g = p
  BY <1>1, <1>t
<1>2. ASSUME NEW q \in Prompt, RunStep(q) PROVE \A h \in Goroutine \ {q} : pc'[h] = pc[h]
  BY <1>2, <1>t DEF RunStep, BeginActive, BeginQueued, WriteUserMessage, SetupFails,
     TakeQueue, WriteTaken, StartStep, NextStep, EndStream, EndStreamFull, FailStream,
     HandleError, DropActive, Requeue, SkipRequeue, ReleaseIdle, ReleaseNext, Unwind, Goto
<1>3. ASSUME NEW g \in Goroutine, SummaryStep(g)
      PROVE  /\ \A h \in Goroutine \ {g} : pc'[h] = pc[h]
             /\ pc[g] \notin {"begin", "setup"}
  BY <1>3, <1>t DEF SummaryStep, SummarizeBusy, BeginSummarize, EndSummarize,
     CancelSummarize, FailSummarize, SummarizeReturnsNil, Return, Goto
<1>4. CASE RunStep(p)
  BY <1>4, <1>t DEF RunStep, BeginActive, TakeQueue, WriteTaken, StartStep, NextStep, EndStream,
     EndStreamFull, FailStream, HandleError, DropActive, Requeue, SkipRequeue, ReleaseIdle,
     ReleaseNext, Unwind, Goto
<1>5. ASSUME NEW q \in Prompt, Submit(q) \/ FinishTitle(q) PROVE FALSE
  BY <1>5, <1>t DEF Submit, FinishTitle, Goto
<1>6. ASSUME NEW q \in Summarizer, RequestSummary(q) PROVE FALSE
  BY <1>6, <1>t DEF RequestSummary, Goto
<1>7. ASSUME NEW s \in Session, Cancel(s) \/ ClearQueue(s) PROVE FALSE
  BY <1>7 DEF Cancel, ClearQueue
<1>8. CASE UNCHANGED vars
  BY <1>8 DEF vars
<1>. QED
  BY <1>1, <1>2, <1>3, <1>4, <1>5, <1>6, <1>7, <1>8, <1>t DEF Next, Quiescent

LEMMA LossStep ==
  ASSUME IInv, LInv, [Next]_vars, NEW c \in Waiting \ Waiting'
  PROVE  \/ c \in written'
         \/ Cancel(SessionOf[c.prompt]) \/ ClearQueue(SessionOf[c.prompt])
         \/ \E p \in Prompt :
               \/ c = cur[p] /\ SetupFails(p)
               \/ c \in Elements(held[p]) /\ FailStream(p)
<1> DEFINE Goal == \/ c \in written'
                   \/ Cancel(SessionOf[c.prompt]) \/ ClearQueue(SessionOf[c.prompt])
                   \/ \E p \in Prompt :
                         \/ c = cur[p] /\ SetupFails(p)
                         \/ c \in Elements(held[p]) /\ FailStream(p)
<1> SUFFICES Goal
  OBVIOUS
<1>t. /\ queue \in [Session -> Seq(Call)] /\ held \in [Prompt -> Seq(Call)]
      /\ cur \in [Prompt -> Call] /\ pc \in [Goroutine -> Labels]
      /\ \A p \in Prompt : SessionOf[p] \in Session /\ p \in Goroutine
  BY CallTypes DEF IInv, TypeOK
<1>1. \/ \E s \in Session : c \in Elements(queue[s])
      \/ \E p \in Prompt : c \in Elements(held[p])
      \/ \E p \in Prompt : pc[p] \in {"begin", "setup"} /\ c = cur[p]
  BY InWaiting
<1>2. /\ \A s \in Session : c \notin Elements(queue'[s])
      /\ \A p \in Prompt : c \notin Elements(held'[p])
      /\ \A p \in Prompt : pc'[p] \in {"begin", "setup"} => c # cur'[p]
  <2> DEFINE Q == UNION {Elements(queue'[s]) : s \in Session}
             H == UNION {Elements(held'[p]) : p \in Prompt}
             R == {cur'[p] : p \in {q \in Prompt : pc'[q] \in {"begin", "setup"}}}
  <2>1. Waiting' = Q \union H \union R
    BY Zenon DEF Waiting
  <2>2. c \notin Q => \A s \in Session : c \notin Elements(queue'[s])
    OBVIOUS
  <2>3. c \notin H => \A p \in Prompt : c \notin Elements(held'[p])
    OBVIOUS
  <2>4. c \notin R => \A p \in Prompt : pc'[p] \in {"begin", "setup"} => c # cur'[p]
    OBVIOUS
  <2> HIDE DEF Q, H, R
  <2>. QED
    BY <2>1, <2>2, <2>3, <2>4
<1>3. ASSUME NEW p \in Prompt, BeginQueued(p) \/ WriteUserMessage(p) \/ SetupFails(p), c = cur[p]
      PROVE  Goal
  <2>1. CASE BeginQueued(p)
    <3>1. queue'[SessionOf[p]] = Append(queue[SessionOf[p]], cur[p])
      BY <2>1, <1>t DEF BeginQueued, Enqueue
    <3>2. c \in Elements(queue'[SessionOf[p]])
      BY <1>3, <1>t, <3>1, ElementsAppend
    <3>. QED
      BY <1>2, <1>t, <3>2
  <2>2. CASE WriteUserMessage(p)
    BY <1>3, <2>2 DEF WriteUserMessage
  <2>. QED
    BY <1>3, <2>1, <2>2
<1>4. ASSUME NEW p \in Prompt, pc[p] \in {"begin", "setup"}, c = cur[p], cur'[p] = cur[p]
      PROVE  Goal
  <2>1. pc'[p] \notin {"begin", "setup"}
    BY <1>2, <1>4
  <2>. QED
    BY <1>3, <1>4, <2>1, LeavesSetup
<1>5. CASE Quiet
  BY <1>1, <1>2, <1>4, <1>5 DEF Quiet
<1>6. ASSUME NEW p \in Prompt, BeginQueued(p) PROVE Goal
  <2>1. /\ UNCHANGED <<cur, held>>
        /\ queue' = [queue EXCEPT ![SessionOf[p]] = Append(@, cur[p])]
    BY <1>6 DEF BeginQueued, Enqueue
  <2>2. \A s \in Session : Elements(queue[s]) \subseteq Elements(queue'[s])
    BY <2>1, <1>t, ElementsAppend
  <2>. QED
    BY <1>1, <1>2, <1>4, <2>1, <2>2
<1>7. ASSUME NEW p \in Prompt, WriteUserMessage(p) PROVE Goal
  <2>1. UNCHANGED <<cur, held, queue>>
    BY <1>7 DEF WriteUserMessage
  <2>. QED
    BY <1>1, <1>2, <1>4, <2>1
<1>8. ASSUME NEW p \in Prompt, TakeQueue(p) PROVE Goal
  <2>1. /\ UNCHANGED cur /\ pc[p] = "prepare"
        /\ queue' = [queue EXCEPT ![SessionOf[p]] = <<>>]
        /\ held' = [held EXCEPT ![p] = queue[SessionOf[p]]]
    BY <1>8 DEF TakeQueue, Take
  <2>2. held[p] = <<>> /\ Elements(held[p]) = {}
    BY <2>1, ElementsEmpty DEF LInv, HeldToCollect
  <2>3. /\ held'[p] = queue[SessionOf[p]]
        /\ \A r \in Prompt \ {p} : held'[r] = held[r]
        /\ \A s \in Session \ {SessionOf[p]} : queue'[s] = queue[s]
    BY <2>1, <1>t
  <2>. QED
    BY <1>1, <1>2, <1>4, <2>1, <2>2, <2>3
<1>9. ASSUME NEW p \in Prompt, WriteTaken(p) PROVE Goal
  <2>1. /\ UNCHANGED <<queue, cur>> /\ held[p] # <<>>
        /\ held' = [held EXCEPT ![p] = Tail(@)]
        /\ written' = written \union {Head(held[p])}
    BY <1>9 DEF WriteTaken
  <2>2. /\ Elements(held[p]) = Elements(held'[p]) \union {Head(held[p])}
        /\ \A r \in Prompt \ {p} : held'[r] = held[r]
    BY <2>1, <1>t, ElementsTail
  <2>3. Head(held[p]) \in written'
    BY <2>1
  <2>. QED
    BY <1>1, <1>2, <1>4, <2>1, <2>2, <2>3
<1>10. ASSUME NEW p \in Prompt, FailStream(p) PROVE Goal
  <2>1. UNCHANGED <<queue, cur>> /\ \A r \in Prompt \ {p} : held'[r] = held[r]
    BY <1>10, <1>t DEF FailStream
  <2>. QED
    BY <1>1, <1>2, <1>4, <1>10, <2>1
<1>11. ASSUME NEW p \in Prompt, Requeue(p) PROVE Goal
  <2> DEFINE again == [prompt |-> cur[p].prompt, resumed |-> cur[p].resumed + 1]
  <2>1. /\ UNCHANGED held /\ pc[p] = "resume" /\ cur' = [cur EXCEPT ![p] = again]
        /\ queue' = [queue EXCEPT ![SessionOf[p]] = Append(@, again)]
    BY <1>11 DEF Requeue, Enqueue
  <2>2. again \in Call
    BY <2>1, <1>t, MaxResumesNat DEF IInv, ResumeBounded, SummaryLabels, Call
  <2>3. \A r \in Prompt \ {p} : cur'[r] = cur[r]
    BY <2>1, <1>t
  <2> HIDE DEF again
  <2>4. \A s \in Session : Elements(queue[s]) \subseteq Elements(queue'[s])
    BY <2>1, <2>2, <1>t, ElementsAppend
  <2>. QED
    BY <1>1, <1>2, <1>4, <2>1, <2>3, <2>4
<1>12. ASSUME NEW p \in Prompt, ReleaseNext(p) PROVE Goal
  <2> DEFINE s == SessionOf[p]
  <2>1. /\ UNCHANGED held /\ pc[p] \in {"ended", "release"} /\ pc'[p] = "begin"
        /\ cur' = [cur EXCEPT ![p] = Head(queue[s])]
        /\ queue[s] # <<>> /\ queue' = [queue EXCEPT ![s] = Tail(@)]
    BY <1>12, <1>t DEF ReleaseNext, Drained, Goto
  <2>2. /\ cur'[p] = Head(queue[s]) /\ \A r \in Prompt \ {p} : cur'[r] = cur[r]
        /\ Elements(queue[s]) = Elements(queue'[s]) \union {Head(queue[s])}
        /\ \A t \in Session \ {s} : queue'[t] = queue[t]
    BY <2>1, <1>t, ElementsTail
  <2>. QED
    BY <1>1, <1>2, <1>4, <2>1, <2>2
<1>13. ASSUME NEW s \in Session, Cancel(s) \/ ClearQueue(s) PROVE Goal
  <2>1. /\ UNCHANGED <<held, cur>>
        /\ \A t \in Session \ {s} : queue'[t] = queue[t]
    BY <1>13, <1>t DEF Cancel, ClearQueue, Take
  <2>2. \A t \in Session : c \in Elements(queue[t]) => SessionOf[c.prompt] = t
    BY DEF LInv, InSession
  <2>. QED
    BY <1>1, <1>2, <1>4, <1>13, <2>1, <2>2
<1> HIDE DEF Goal
<1>. QED
  BY <1>5, <1>6, <1>7, <1>8, <1>9, <1>10, <1>11, <1>12, <1>13, StepKinds DEF Moves

(* No call is lost silently.                                               *)
THEOREM NothingLostSilently == Spec => NoSilentLoss
<1> DEFINE Loss == \A c \in Waiting \ Waiting' :
          \/ c \in written'
          \/ Cancel(SessionOf[c.prompt]) \/ ClearQueue(SessionOf[c.prompt])
          \/ \E p \in Prompt :
                \/ c = cur[p] /\ SetupFails(p)
                \/ c \in Elements(held[p]) /\ FailStream(p)
<1>1. IInv /\ LInv /\ [Next]_vars => [Loss]_vars
  BY LossStep
<1>. QED
  BY Invariance, LedgerInvariance, <1>1, PTL DEF Spec, NoSilentLoss

(* A call that Cancel found is neither begun nor joined to a turn after   *)
(* that: it has left the queue and every frame that may still begin, and   *)
(* the run that had taken it cannot write any more.                        *)
THEOREM CancelIsFinal == Spec => CancelledCallNotRerun
<1> DEFINE Kept == \A p \in Prompt :
          /\ StartsRun(p) /\ cur[p].resumed = 0 => cur[p].prompt \notin stopped
          /\ WriteTaken(p) /\ Head(held[p]).resumed = 0
                => Head(held[p]).prompt \notin stopped
<1>1. IInv /\ LInv => Kept
  <2> SUFFICES ASSUME IInv, LInv, NEW p \in Prompt
               PROVE  /\ StartsRun(p) /\ cur[p].resumed = 0 => cur[p].prompt \notin stopped
                      /\ WriteTaken(p) /\ Head(held[p]).resumed = 0
                            => Head(held[p]).prompt \notin stopped
    OBVIOUS
  <2>1. StartsRun(p) /\ cur[p].resumed = 0 => cur[p].prompt \notin stopped
    BY DEF LInv, NotStopped, Unstopped, StartsRun
  <2>2. ASSUME WriteTaken(p) PROVE Unstopped(Head(held[p]))
    <3>1. held[p] \in Seq(Call) /\ held[p] # <<>> /\ cancelled[p] = {}
      BY <2>2, CallTypes DEF WriteTaken, MaySucceed
    <3>2. Head(held[p]) \in Elements(held[p])
      BY <3>1, ElementsTail
    <3>. QED
      BY <3>1, <3>2 DEF LInv, NotStopped
  <2>. QED
    BY <2>1, <2>2 DEF Unstopped
<1>. QED
  BY Invariance, LedgerInvariance, <1>1, PTL DEF Spec, CancelledCallNotRerun

-----------------------------------------------------------------------------
(* A step of one goroutine concerns one session; it leaves the session     *)
(* attended, or unhappy, or with an empty queue, or as it found it.        *)
Off == {"idle", "unwind", "done"}
Settles(g) ==
    LET s == SessionOf[g] IN
    /\ \A h \in Goroutine \ {g} : pc'[h] = pc[h]
    /\ \A t \in Session \ {s} :
          queue'[t] = queue[t] /\ active'[t] = active[t] /\ exit'[t] = exit[t]
    /\ \/ pc'[g] \notin Off \/ active'[s] # NoRun
       \/ queue'[s] = <<>> \/ exit'[s] # "ok"
       \/ /\ pc[g] \in Off
          /\ queue'[s] = queue[s] /\ active'[s] = active[s] /\ exit'[s] = exit[s]

LEMMA SettlesKeeps ==
  ASSUME HappyEndLeavesNoQueue, NEW g \in Goroutine, Settles(g)
  PROVE  HappyEndLeavesNoQueue'
<1> SUFFICES ASSUME NEW s \in Session, Unattended(s)', exit'[s] = "ok"
             PROVE  queue'[s] = <<>>
  BY DEF HappyEndLeavesNoQueue
<1>1. /\ active'[s] = NoRun
      /\ \A h \in Goroutine : SessionOf[h] = s => pc'[h] \in Off
  BY DEF Unattended, Off
<1>2. CASE s = SessionOf[g]
  <2>1. SUFFICES ASSUME queue'[s] # <<>> PROVE FALSE
    OBVIOUS
  <2>2. /\ pc[g] \in Off
        /\ queue'[s] = queue[s] /\ active'[s] = active[s] /\ exit'[s] = exit[s]
    BY <1>1, <1>2, <2>1 DEF Settles
  <2>3. \A h \in Goroutine : SessionOf[h] = s => pc[h] \in Off
    BY <1>1, <2>2 DEF Settles
  <2>4. Unattended(s)
    BY <1>1, <2>2, <2>3 DEF Unattended, Off
  <2>. QED
    BY <2>1, <2>2, <2>4 DEF HappyEndLeavesNoQueue
<1>3. CASE s # SessionOf[g]
  <2>1. queue'[s] = queue[s] /\ active'[s] = active[s] /\ exit'[s] = exit[s]
    BY <1>3 DEF Settles
  <2>2. \A h \in Goroutine : SessionOf[h] = s => pc[h] \in Off
    BY <1>1, <1>3 DEF Settles
  <2>3. Unattended(s)
    BY <1>1, <2>1, <2>2 DEF Unattended, Off
  <2>. QED
    BY <2>1, <2>3 DEF HappyEndLeavesNoQueue
<1>. QED
  BY <1>2, <1>3

LEMMA HappyStep ==
  ASSUME IInv, HappyEndLeavesNoQueue, [Next]_vars PROVE HappyEndLeavesNoQueue'
<1>t. /\ pc \in [Goroutine -> Labels] /\ depth \in [Goroutine -> Nat]
      /\ active \in [Session -> Token \union {NoRun}]
      /\ exit \in [Session -> {"ok", "error", "summary"}]
      /\ queue \in [Session -> Seq(Call)]
      /\ \A g \in Goroutine : SessionOf[g] \in Session
      /\ \A p \in Prompt : p \in Goroutine /\ p \notin Summarizer
      /\ \A g \in Goroutine : g \notin Prompt => g \in Summarizer
  BY SessionOfType, KindsDisjoint DEF IInv, TypeOK, Goroutine
(* A goroutine in a turn keeps its session busy.                           *)
<1>b. \A p \in Prompt : pc[p] \in TurnLabels => active[SessionOf[p]] # NoRun
  BY <1>t, TokIsToken DEF IInv, TurnOwnsEntry
<1>1. ASSUME NEW p \in Prompt, Submit(p) PROVE Settles(p)
  BY <1>1, <1>t DEF Submit, Goto, Settles, Off
<1>2. ASSUME NEW p \in Prompt, BeginActive(p) PROVE Settles(p)
  BY <1>2, <1>t DEF BeginActive, Goto, Settles, Off
<1>3. ASSUME NEW p \in Prompt, BeginQueued(p) PROVE Settles(p)
  BY <1>3, <1>t DEF BeginQueued, Enqueue, Goto, Settles, Off
<1>4. ASSUME NEW p \in Prompt,
             WriteUserMessage(p) \/ WriteTaken(p) \/ StartStep(p) \/ NextStep(p)
               \/ EndStream(p) \/ EndStreamFull(p) \/ FailStream(p)
      PROVE  Settles(p)
  BY <1>4, <1>t DEF WriteUserMessage, WriteTaken, StartStep, NextStep,
     EndStream, EndStreamFull, FailStream, Goto, Settles, Off
<1>5. ASSUME NEW p \in Prompt, SetupFails(p) \/ HandleError(p) PROVE Settles(p)
  BY <1>5, <1>t, <1>b DEF SetupFails, HandleError, Goto, Settles, TurnLabels
<1>6. ASSUME NEW p \in Prompt, TakeQueue(p) PROVE Settles(p)
  BY <1>6, <1>t DEF TakeQueue, Take, Goto, Settles, Off
<1>7. ASSUME NEW p \in Prompt, DropActive(p) PROVE Settles(p)
  BY <1>7, <1>t DEF DropActive, CompareAndDelete, Goto, Settles, Off
<1>8. ASSUME NEW p \in Prompt, Requeue(p) \/ SkipRequeue(p) PROVE Settles(p)
  BY <1>8, <1>t DEF Requeue, SkipRequeue, Enqueue, Goto, Settles, Off
<1>9. ASSUME NEW p \in Prompt, ReleaseIdle(p) PROVE Settles(p)
  BY <1>9, <1>t DEF ReleaseIdle, CompareAndDelete, Drained, Goto, Settles
<1>10. ASSUME NEW p \in Prompt, ReleaseNext(p) PROVE Settles(p)
  BY <1>10, <1>t DEF ReleaseNext, CompareAndDelete, Goto, Settles, Off
<1>11. ASSUME NEW p \in Prompt, Unwind(p) PROVE Settles(p)
  <2>1. CASE active[SessionOf[p]] = Tok(p, "run")
    BY <1>11, <2>1, <1>t DEF Unwind, CompareAndDelete, Settles
  <2>2. CASE active[SessionOf[p]] # Tok(p, "run")
    BY <1>11, <2>2, <1>t DEF Unwind, CompareAndDelete, Settles, Off
  <2>. QED
    BY <2>1, <2>2
<1>12. ASSUME NEW p \in Prompt, FinishTitle(p) PROVE HappyEndLeavesNoQueue'
  BY <1>12 DEF FinishTitle, HappyEndLeavesNoQueue, Unattended
<1>13. ASSUME NEW z \in Summarizer, RequestSummary(z) PROVE Settles(z)
  BY <1>13, <1>t DEF RequestSummary, Goroutine, Goto, Settles, Off
<1>14. ASSUME NEW g \in Goroutine, SummarizeBusy(g) PROVE Settles(g)
  BY <1>14, <1>t DEF SummarizeBusy, Goto, Settles
<1>15. ASSUME NEW g \in Goroutine, BeginSummarize(g) PROVE Settles(g)
  BY <1>15, <1>t DEF BeginSummarize, Goto, Settles, Off
<1>16. ASSUME NEW g \in Goroutine, EndSummarize(g) \/ CancelSummarize(g) PROVE Settles(g)
  <2>1. SummarizeReturnsNil(g) /\ pc[g] = "summarizing" /\ UNCHANGED queue
    BY <1>16 DEF EndSummarize, CancelSummarize
  <2>2. active' = [active EXCEPT ![SessionOf[g]] = NoRun]
    BY <2>1, NilReturn
  <2>. QED
    BY <2>1, <2>2, <1>t DEF SummarizeReturnsNil, Goto, Settles, Off
<1>17. ASSUME NEW g \in Goroutine, FailSummarize(g) PROVE Settles(g)
  BY <1>17, <1>t DEF FailSummarize, CompareAndDelete, Goto, Settles
<1>18. ASSUME NEW g \in Goroutine, Return(g) PROVE Settles(g)
  BY <1>18, <1>t DEF Return, Goto, Settles, Off
<1>19. ASSUME NEW s \in Session, Cancel(s) \/ ClearQueue(s) PROVE HappyEndLeavesNoQueue'
  <2>1. /\ UNCHANGED <<active, pc, exit>>
        /\ \A t \in Session : queue'[t] = <<>> \/ queue'[t] = queue[t]
    BY <1>19, <1>t DEF Cancel, ClearQueue, Take
  <2>. QED
    BY <2>1 DEF HappyEndLeavesNoQueue, Unattended
<1>20. CASE UNCHANGED vars
  BY <1>20 DEF vars, HappyEndLeavesNoQueue, Unattended
<1>21. ASSUME NEW p \in Prompt, RunStep(p) \/ Submit(p) PROVE HappyEndLeavesNoQueue'
  <2>1. Settles(p)
    BY <1>21, <1>1, <1>2, <1>3, <1>4, <1>5, <1>6, <1>7, <1>8, <1>9, <1>10, <1>11
       DEF RunStep
  <2>. QED
    BY <2>1, <1>t, SettlesKeeps
<1>22. ASSUME NEW g \in Goroutine, SummaryStep(g) PROVE HappyEndLeavesNoQueue'
  <2>1. Settles(g)
    BY <1>22, <1>14, <1>15, <1>16, <1>17, <1>18 DEF SummaryStep
  <2>. QED
    BY <2>1, SettlesKeeps
<1>23. ASSUME NEW z \in Summarizer, RequestSummary(z) PROVE HappyEndLeavesNoQueue'
  <2>1. z \in Goroutine
    BY DEF Goroutine
  <2>. QED
    BY <1>23, <1>13, <2>1, SettlesKeeps
<1>24. \/ \E p \in Prompt : Submit(p) \/ RunStep(p) \/ FinishTitle(p)
       \/ \E z \in Summarizer : RequestSummary(z)
       \/ \E g \in Goroutine : SummaryStep(g)
       \/ \E s \in Session : Cancel(s) \/ ClearQueue(s)
       \/ UNCHANGED vars
  BY DEF Next, Quiescent
<1>. QED
  BY <1>12, <1>19, <1>20, <1>21, <1>22, <1>23, <1>24

(* A turn that ends well leaves nothing waiting.                           *)
THEOREM HappyEndDrains == Spec => []HappyEndLeavesNoQueue
<1>1. Init => HappyEndLeavesNoQueue
  BY DEF Init, HappyEndLeavesNoQueue
<1>. QED
  BY Invariance, <1>1, HappyStep, PTL DEF Spec

-----------------------------------------------------------------------------
(* The refinement mapping.                                                 *)
Accepted(p) == pc[p] = "setup" \/ (pc[p] = "begin" /\ depth[p] > 1)
Pending ==
    (UNION {Elements(queue[s]) : s \in Session})
        \union (UNION {Elements(held[p]) : p \in Prompt})
        \union {cur[p] : p \in {q \in Prompt :
                    pc[q] = "setup" \/ (pc[q] = "begin" /\ depth[q] > 1)}}
Open == [s \in Session |-> active[s] # NoRun]

InPlace(c) ==
    \/ \E s \in Session : c \in Elements(queue[s])
    \/ \E p \in Prompt : c \in Elements(held[p])
    \/ \E p \in Prompt : Accepted(p) /\ c = cur[p]

PendingInPlace == \A c : c \in Pending <=> InPlace(c)

LEMMA PendingIs == PendingInPlace
<1> DEFINE Q == UNION {Elements(queue[s]) : s \in Session}
           H == UNION {Elements(held[p]) : p \in Prompt}
           R == {cur[p] : p \in {q \in Prompt :
                    pc[q] = "setup" \/ (pc[q] = "begin" /\ depth[q] > 1)}}
<1> SUFFICES ASSUME NEW c PROVE c \in Pending <=> InPlace(c)
  BY DEF PendingInPlace
<1>1. c \in Q <=> \E s \in Session : c \in Elements(queue[s])
  OBVIOUS
<1>2. c \in H <=> \E p \in Prompt : c \in Elements(held[p])
  OBVIOUS
<1>3. c \in R <=> \E p \in Prompt : Accepted(p) /\ c = cur[p]
  BY DEF Accepted
<1>4. Pending = Q \union H \union R
  BY DEF Pending
<1> HIDE DEF Q, H, R
<1>. QED
  BY <1>1, <1>2, <1>3, <1>4 DEF InPlace

LEMMA NextPendingIs == PendingInPlace'
  BY PendingIs, PTL

(* What a step must show to be one of PromptLedger.                        *)
Serves == [Ledger!Next]_<<Pending, written, Open>>

LEMMA Accepts ==
  ASSUME NEW c \in Call, c \notin Pending, c \notin written,
         Pending' = Pending \union {c}, UNCHANGED written,
         Open' = Open \/ Open' = [Open EXCEPT ![SessionOf[c.prompt]] = TRUE]
  PROVE  Serves
<1>1. Ledger!Accept(c)
  BY DEF Ledger!Accept, Pending, Open
<1>2. c \in Ledger!Calls
  BY DEF Ledger!Calls, Call
<1>. QED
  BY <1>1, <1>2 DEF Serves, Ledger!Next

LEMMA Admits ==
  ASSUME NEW c \in Call, c \in Pending, active[SessionOf[c.prompt]] # NoRun,
         SessionOf[c.prompt] \in Session,
         Pending' = Pending \ {c}, written' = written \union {c}, Open' = Open
  PROVE  Serves
<1>1. Open[SessionOf[c.prompt]]
  BY DEF Open
<1>2. Ledger!Admit(c)
  BY <1>1 DEF Ledger!Admit, Pending, Open
<1>3. c \in Ledger!Calls
  BY DEF Ledger!Calls, Call
<1>. QED
  BY <1>2, <1>3 DEF Serves, Ledger!Next

LEMMA GivesUp ==
  ASSUME NEW calls \in SUBSET Pending,
         Pending' = Pending \ calls, UNCHANGED written, Open' = Open
  PROVE  Serves
<1>1. CASE calls = {}
  BY <1>1 DEF Serves
<1>2. CASE calls # {}
  <2>1. Ledger!GiveUp(calls)
    BY <1>2 DEF Ledger!GiveUp, Pending, Open
  <2>. QED
    BY <2>1 DEF Serves, Ledger!Next, Pending
<1>. QED
  BY <1>1, <1>2

LEMMA Toggles ==
  ASSUME NEW s \in Session, Open' = [Open EXCEPT ![s] = ~@],
         Pending' = Pending, UNCHANGED written
  PROVE  Serves
<1>1. Ledger!OpenOrClose(s)
  BY DEF Ledger!OpenOrClose, Pending, Open
<1>. QED
  BY <1>1 DEF Serves, Ledger!Next

LEMMA Stutters ==
  ASSUME Open' = Open, Pending' = Pending, UNCHANGED written
  PROVE  Serves
  BY DEF Serves

LEMMA SamePending ==
  ASSUME UNCHANGED <<queue, held, cur>>, \A p \in Prompt : Accepted(p)' = Accepted(p)
  PROVE  Pending' = Pending
<1>1. \A c : InPlace(c)' = InPlace(c)
  BY DEF InPlace
<1>. QED
  BY <1>1, PendingIs, NextPendingIs DEF PendingInPlace

LEMMA SameOpen == ASSUME UNCHANGED active PROVE Open' = Open
  BY DEF Open

LEMMA OpenToggles ==
  ASSUME IInv, NEW s \in Session, NEW x, active' = [active EXCEPT ![s] = x],
         (active[s] = NoRun) # (x = NoRun)
  PROVE  Open' = [Open EXCEPT ![s] = ~@]
<1>1. active \in [Session -> Token \union {NoRun}]
  BY DEF IInv, TypeOK
<1>. QED
  BY <1>1 DEF Open

LEMMA Closes ==
  ASSUME IInv, NEW g \in Goroutine, NEW kind \in {"run", "summarize"},
         CompareAndDelete(SessionOf[g], Tok(g, kind)),
         Pending' = Pending, UNCHANGED written
  PROVE  Serves
<1>t. /\ SessionOf[g] \in Session /\ Tok(g, kind) # NoRun
  BY SessionOfType, NoRunFresh DEF IInv, TypeOK, Tok, Token
<1>1. CASE active[SessionOf[g]] = Tok(g, kind)
  <2>1. active' = [active EXCEPT ![SessionOf[g]] = NoRun]
    BY <1>1 DEF CompareAndDelete
  <2>2. Open' = [Open EXCEPT ![SessionOf[g]] = ~@]
    BY <1>1, <1>t, <2>1, OpenToggles
  <2>. QED
    BY <1>t, <2>2, Toggles
<1>2. CASE active[SessionOf[g]] # Tok(g, kind)
  BY <1>2, SameOpen, Stutters DEF CompareAndDelete
<1>. QED
  BY <1>1, <1>2

LEMMA ServeBegin ==
  ASSUME IInv, LInv, NEW p \in Prompt, BeginActive(p) \/ BeginQueued(p) PROVE Serves
<1> DEFINE s == SessionOf[p]
           c == cur[p]
<1>t. /\ s \in Session /\ p \in Goroutine /\ queue[s] \in Seq(Call) /\ c \in Call
      /\ queue \in [Session -> Seq(Call)] /\ pc \in [Goroutine -> Labels]
      /\ depth \in [Goroutine -> Nat] /\ active \in [Session -> Token \union {NoRun}]
      /\ SessionOf[c.prompt] = s /\ \A r \in Prompt : r \in Goroutine
  BY CallTypes DEF IInv, TypeOK, LInv, InSession
<1>1. /\ pc[p] = "begin" /\ UNCHANGED <<cur, held, written>>
      /\ \A r \in Prompt \ {p} : Accepted(r)' = Accepted(r)
      /\ Accepted(p) <=> depth[p] > 1
  BY <1>t DEF BeginActive, BeginQueued, Goto, Accepted
<1>2. /\ c \notin written
      /\ ~Accepted(p) => c \notin Pending
  <2>1. Carries(p) /\ Fresh(p)
    BY <1>1 DEF Carries, Fresh
  <2>2. c \notin written
    <3>1. \A w \in written : w.prompt = c.prompt => w.resumed < c.resumed
      BY <2>1 DEF LInv, NotYetWritten, Newer
    <3>2. c.resumed \in Nat
      BY CallTypes
    <3>. QED
      BY <3>1, <3>2
  <2>3. ASSUME ~Accepted(p), InPlace(c) PROVE FALSE
    <3>1. /\ \A t \in Session : c \notin Elements(queue[t])
          /\ \A r \in Prompt : c \notin Elements(held[r])
      BY <2>1 DEF LInv, OnePlace, Absent
    <3>2. PICK r \in Prompt : Accepted(r) /\ c = cur[r]
      BY <2>3, <3>1 DEF InPlace
    <3>3. Carries(r) /\ r # p
      BY <2>3, <3>2 DEF Accepted, Carries, Fresh
    <3>. QED
      BY <2>1, <3>2, <3>3 DEF LInv, OnePlace
  <2>. QED
    BY <2>2, <2>3, PendingIs DEF PendingInPlace
<1>3. CASE BeginActive(p)
  <2>1. /\ UNCHANGED <<queue, held, cur, depth>> /\ Accepted(p)'
        /\ active[s] = NoRun /\ active' = [active EXCEPT ![s] = Tok(p, "run")]
    BY <1>3, <1>t DEF BeginActive, Goto, Accepted
  <2>2. Open' = [Open EXCEPT ![s] = ~@] /\ Open' = [Open EXCEPT ![s] = TRUE]
    <3>1. Tok(p, "run") # NoRun
      BY <1>t, TokIsToken
    <3>2. Open' = [Open EXCEPT ![s] = ~@]
      BY <1>t, <2>1, <3>1, OpenToggles
    <3>3. Open[s] = FALSE
      BY <1>t, <2>1 DEF Open
    <3>. QED
      BY <3>2, <3>3
  <2>3. CASE Accepted(p)
    <3>1. Pending' = Pending
      BY <1>1, <2>1, <2>3, SamePending DEF Accepted
    <3>. QED
      BY <1>1, <1>t, <2>2, <3>1, Toggles
  <2>4. CASE ~Accepted(p)
    <3>1. \A d : InPlace(d)' <=> InPlace(d) \/ d = c
      BY <1>1, <2>1, <2>4 DEF InPlace
    <3>2. Pending' = Pending \union {c}
      BY <3>1, PendingIs, NextPendingIs DEF PendingInPlace
    <3>. QED
      BY <1>1, <1>2, <1>t, <2>2, <2>4, <3>2, Accepts
  <2>. QED
    BY <2>3, <2>4
<1>4. CASE BeginQueued(p)
  <2>1. /\ UNCHANGED <<active, held, cur>> /\ ~Accepted(p)'
        /\ queue' = [queue EXCEPT ![s] = Append(@, c)]
    BY <1>4, <1>t DEF BeginQueued, Enqueue, Goto, Accepted
  <2>2. /\ Elements(queue'[s]) = Elements(queue[s]) \union {c}
        /\ \A t \in Session \ {s} : queue'[t] = queue[t]
    BY <1>t, <2>1, ElementsAppend
  <2>3. \A d : InPlace(d)' <=> InPlace(d) \/ d = c
    <3> SUFFICES ASSUME NEW d PROVE InPlace(d)' <=> InPlace(d) \/ d = c
      OBVIOUS
    <3>1. (\E t \in Session : d \in Elements(queue'[t]))
             <=> (\E t \in Session : d \in Elements(queue[t])) \/ d = c
      BY <1>t, <2>2
    <3>2. \A r \in Prompt : Accepted(r)' => Accepted(r)
      BY <1>1, <2>1
    <3>3. \A r \in Prompt : Accepted(r) => Accepted(r)' \/ r = p
      BY <1>1
    <3>. QED
      BY <2>1, <3>1, <3>2, <3>3 DEF InPlace
  <2>4. Pending' = Pending \union {c}
    BY <2>3, PendingIs, NextPendingIs DEF PendingInPlace
  <2>5. CASE Accepted(p)
    <3>1. c \in Pending
      BY <2>5, PendingIs DEF PendingInPlace, InPlace
    <3>2. Pending' = Pending
      BY <2>4, <3>1
    <3>. QED
      BY <1>1, <2>1, <3>2, SameOpen, Stutters
  <2>6. CASE ~Accepted(p)
    BY <1>1, <1>2, <1>t, <2>1, <2>4, <2>6, SameOpen, Accepts
  <2>. QED
    BY <2>5, <2>6
<1>. QED
  BY <1>3, <1>4

LEMMA ServeSetup ==
  ASSUME IInv, LInv, NEW p \in Prompt, WriteUserMessage(p) \/ SetupFails(p) PROVE Serves
<1> DEFINE c == cur[p]
<1>t. /\ c \in Call /\ pc \in [Goroutine -> Labels]
      /\ \A r \in Prompt : r \in Goroutine
      /\ SessionOf[p] \in Session /\ SessionOf[c.prompt] = SessionOf[p]
  BY CallTypes DEF IInv, TypeOK, LInv, InSession
<1>1. /\ pc[p] = "setup" /\ UNCHANGED <<queue, active, depth, cur, held>>
      /\ pc'[p] \notin {"begin", "setup"}
      /\ \A r \in Prompt \ {p} : pc'[r] = pc[r]
  BY <1>t DEF WriteUserMessage, SetupFails, Goto
<1>2. /\ Accepted(p) /\ Carries(p) /\ ~Accepted(p)'
      /\ \A r \in Prompt \ {p} : Accepted(r)' = Accepted(r)
  BY <1>1 DEF Accepted, Carries, Fresh
<1>3. \A d : InPlace(d)' <=> InPlace(d) /\ d # c
  <2>1. /\ \A t \in Session : c \notin Elements(queue[t])
        /\ \A r \in Prompt : c \notin Elements(held[r])
    BY <1>2 DEF LInv, OnePlace, Absent
  <2>2. \A r \in Prompt \ {p} : Accepted(r) => cur[r] # c
    <3>1. \A r \in Prompt : Accepted(r) => Carries(r)
      BY DEF Accepted, Carries, Fresh
    <3>. QED
      BY <1>2, <3>1 DEF LInv, OnePlace
  <2>. QED
    BY <1>1, <1>2, <2>1, <2>2 DEF InPlace
<1>4. Pending' = Pending \ {c} /\ c \in Pending
  <2>1. InPlace(c)
    BY <1>2 DEF InPlace
  <2>. QED
    BY <1>3, <2>1, PendingIs, NextPendingIs DEF PendingInPlace
<1>5. Open' = Open
  BY <1>1, SameOpen
<1>6. CASE WriteUserMessage(p)
  <2>1. written' = written \union {c}
    BY <1>6 DEF WriteUserMessage
  <2>2. active[SessionOf[p]] # NoRun
    BY <1>1, <1>t, TokIsToken DEF IInv, TurnOwnsEntry, TurnLabels
  <2>. QED
    BY <1>4, <1>5, <1>t, <2>1, <2>2, Admits
<1>7. CASE SetupFails(p)
  <2>1. UNCHANGED written /\ {c} \in SUBSET Pending
    BY <1>4, <1>7 DEF SetupFails
  <2>. QED
    BY <1>4, <1>5, <2>1, GivesUp
<1>. QED
  BY <1>6, <1>7

LEMMA ServeCollect ==
  ASSUME IInv, LInv, NEW p \in Prompt, TakeQueue(p) \/ WriteTaken(p) \/ FailStream(p)
  PROVE  Serves
<1> DEFINE s == SessionOf[p]
           h == Head(held[p])
<1>t. /\ s \in Session /\ queue \in [Session -> Seq(Call)] /\ held \in [Prompt -> Seq(Call)]
      /\ pc \in [Goroutine -> Labels] /\ \A r \in Prompt : r \in Goroutine
  BY CallTypes DEF IInv, TypeOK
<1>1. /\ pc[p] \in {"prepare", "collect", "step"} /\ UNCHANGED <<active, depth, cur>>
      /\ pc'[p] \notin {"begin", "setup"}
      /\ \A r \in Prompt \ {p} : pc'[r] = pc[r]
  BY <1>t DEF TakeQueue, WriteTaken, FailStream, Goto
<1>2. \A r \in Prompt : Accepted(r)' = Accepted(r)
  BY <1>1 DEF Accepted
<1>3. Open' = Open
  BY <1>1, SameOpen
<1>4. CASE TakeQueue(p)
  <2>1. /\ pc[p] = "prepare" /\ UNCHANGED written
        /\ queue' = [queue EXCEPT ![s] = <<>>] /\ held' = [held EXCEPT ![p] = queue[s]]
    BY <1>4 DEF TakeQueue, Take
  <2>2. Elements(held[p]) = {}
    BY <2>1, ElementsEmpty DEF LInv, HeldToCollect
  <2>3. /\ Elements(queue'[s]) = {} /\ held'[p] = queue[s]
        /\ \A t \in Session \ {s} : queue'[t] = queue[t]
        /\ \A r \in Prompt \ {p} : held'[r] = held[r]
    BY <1>t, <2>1, ElementsEmpty
  <2>4. \A d : InPlace(d)' <=> InPlace(d)
    <3> SUFFICES ASSUME NEW d PROVE InPlace(d)' <=> InPlace(d)
      OBVIOUS
    <3>1. (\E t \in Session : d \in Elements(queue'[t]))
             \/ (\E r \in Prompt : d \in Elements(held'[r]))
          <=> (\E t \in Session : d \in Elements(queue[t]))
                \/ (\E r \in Prompt : d \in Elements(held[r]))
      BY <1>t, <2>2, <2>3
    <3>. QED
      BY <1>1, <1>2, <3>1 DEF InPlace
  <2>5. Pending' = Pending
    BY <2>4, PendingIs, NextPendingIs DEF PendingInPlace
  <2>. QED
    BY <1>3, <2>1, <2>5, Stutters
<1>5. CASE WriteTaken(p)
  <2>1. /\ pc[p] = "collect" /\ held[p] # <<>> /\ UNCHANGED queue
        /\ held' = [held EXCEPT ![p] = Tail(@)] /\ written' = written \union {h}
    BY <1>5 DEF WriteTaken
  <2>2. /\ h \in Call /\ Elements(held[p]) = Elements(held'[p]) \union {h}
        /\ Absent(h, held'[p]) /\ \A r \in Prompt \ {p} : held'[r] = held[r]
    BY <1>t, <2>1, ElementsTail DEF LInv, OnePlace
  <2>3. /\ \A t \in Session : h \notin Elements(queue[t])
        /\ \A r \in Prompt : h \notin Elements(held'[r])
    BY <2>2 DEF LInv, OnePlace, Absent
  <2>4. \A r \in Prompt : Accepted(r) => cur[r] # h
    <3>1. \A r \in Prompt : Accepted(r) => Carries(r)
      BY DEF Accepted, Carries, Fresh
    <3>. QED
      BY <2>2, <3>1 DEF LInv, OnePlace, Absent
  <2>5. \A d : InPlace(d)' <=> InPlace(d) /\ d # h
    <3> SUFFICES ASSUME NEW d PROVE InPlace(d)' <=> InPlace(d) /\ d # h
      OBVIOUS
    <3>1. (\E r \in Prompt : d \in Elements(held'[r]))
             <=> (\E r \in Prompt : d \in Elements(held[r])) /\ d # h
      BY <2>2, <2>3
    <3>. QED
      BY <1>1, <1>2, <2>1, <2>3, <2>4, <3>1 DEF InPlace
  <2>6. InPlace(h)
    BY <2>2 DEF InPlace
  <2>7. Pending' = Pending \ {h} /\ h \in Pending
    BY <2>5, <2>6, PendingIs, NextPendingIs DEF PendingInPlace
  <2>8. SessionOf[h.prompt] = s
    BY <2>2 DEF LInv, InSession
  <2>9. active[s] # NoRun
    BY <1>t, <2>1, TokIsToken DEF IInv, TurnOwnsEntry, TurnLabels
  <2>. QED
    BY <1>3, <1>t, <2>1, <2>2, <2>7, <2>8, <2>9, Admits
<1>6. CASE FailStream(p)
  <2>1. UNCHANGED <<queue, written>> /\ held' = [held EXCEPT ![p] = <<>>]
    BY <1>6 DEF FailStream
  <2>2. Elements(held'[p]) = {} /\ \A r \in Prompt \ {p} : held'[r] = held[r]
    BY <1>t, <2>1, ElementsEmpty
  <2>3. /\ \A t \in Session : \A d \in Elements(queue[t]) : d \notin Elements(held[p])
        /\ \A r \in Prompt \ {p} : \A d \in Elements(held[r]) : d \notin Elements(held[p])
        /\ \A r \in Prompt : Accepted(r) => cur[r] \notin Elements(held[p])
    <3>1. \A r \in Prompt : Accepted(r) => Carries(r)
      BY DEF Accepted, Carries, Fresh
    <3>. QED
      BY <3>1 DEF LInv, OnePlace, Absent
  <2>4. \A d : InPlace(d)' <=> InPlace(d) /\ d \notin Elements(held[p])
    BY <1>1, <1>2, <2>1, <2>2, <2>3 DEF InPlace
  <2>5. \A d \in Elements(held[p]) : InPlace(d)
    BY DEF InPlace
  <2>6. Pending' = Pending \ Elements(held[p]) /\ Elements(held[p]) \in SUBSET Pending
    BY <2>4, <2>5, PendingIs, NextPendingIs DEF PendingInPlace
  <2>. QED
    BY <1>3, <2>1, <2>6, GivesUp
<1>. QED
  BY <1>4, <1>5, <1>6

LEMMA ServeRequeue ==
  ASSUME IInv, LInv, NEW p \in Prompt, Requeue(p) PROVE Serves
<1> DEFINE s == SessionOf[p]
           again == [prompt |-> cur[p].prompt, resumed |-> cur[p].resumed + 1]
<1>t. /\ s \in Session /\ p \in Goroutine /\ cur[p] \in Call
      /\ queue \in [Session -> Seq(Call)] /\ pc \in [Goroutine -> Labels]
      /\ cur \in [Prompt -> Call] /\ cur[p].resumed \in Nat
      /\ \A r \in Prompt : r \in Goroutine
  BY CallTypes DEF IInv, TypeOK
<1>1. /\ pc[p] = "resume" /\ pc' = [pc EXCEPT ![p] = "release"]
      /\ queue' = [queue EXCEPT ![s] = Append(@, again)]
      /\ cur' = [cur EXCEPT ![p] = again]
      /\ UNCHANGED <<active, depth, held, written>>
  BY DEF Requeue, Enqueue, Goto
<1>2. again \in Call /\ again.prompt = cur[p].prompt /\ again.resumed = cur[p].resumed + 1
  BY <1>1, <1>t, MaxResumesNat DEF IInv, ResumeBounded, SummaryLabels, Call
<1> HIDE DEF again
<1>3. /\ Started(p) /\ Carries(p) /\ ~Accepted(p) /\ ~Accepted(p)'
      /\ \A r \in Prompt \ {p} : Accepted(r)' = Accepted(r) /\ cur'[r] = cur[r]
  BY <1>1, <1>t DEF Started, Carries, Accepted
<1>4. again \notin written
  <2>1. \A w \in written : w.prompt = cur[p].prompt => w.resumed <= cur[p].resumed
    BY <1>3 DEF LInv, NotYetWritten
  <2>. QED
    BY <1>2, <1>t, <2>1
<1>5. again \notin Pending
  <2>1. ASSUME InPlace(again) PROVE FALSE
    <3>1. /\ \A t \in Session : again \notin Elements(queue[t])
          /\ \A r \in Prompt : again \notin Elements(held[r])
      BY <1>2, <1>3 DEF LInv, OnePlace, Absent
    <3>2. PICK r \in Prompt : Accepted(r) /\ again = cur[r]
      BY <2>1, <3>1 DEF InPlace
    <3>3. Carries(r) /\ r # p
      BY <1>3, <3>2 DEF Accepted, Carries, Fresh
    <3>. QED
      BY <1>2, <1>3, <3>2, <3>3 DEF LInv, OnePlace
  <2>. QED
    BY <2>1, PendingIs DEF PendingInPlace
<1>6. /\ Elements(queue'[s]) = Elements(queue[s]) \union {again}
      /\ \A t \in Session \ {s} : queue'[t] = queue[t]
  BY <1>1, <1>2, <1>t, ElementsAppend
<1>7. \A d : InPlace(d)' <=> InPlace(d) \/ d = again
  <2> SUFFICES ASSUME NEW d PROVE InPlace(d)' <=> InPlace(d) \/ d = again
    OBVIOUS
  <2>1. (\E t \in Session : d \in Elements(queue'[t]))
           <=> (\E t \in Session : d \in Elements(queue[t])) \/ d = again
    BY <1>6, <1>t
  <2>2. (\E r \in Prompt : Accepted(r)' /\ d = cur'[r])
           <=> (\E r \in Prompt : Accepted(r) /\ d = cur[r])
    BY <1>3
  <2>3. held' = held
    BY <1>1
  <2>. QED
    BY <2>1, <2>2, <2>3 DEF InPlace
<1>8. Pending' = Pending \union {again}
  BY <1>7, PendingIs, NextPendingIs DEF PendingInPlace
<1>9. Open' = Open
  BY <1>1, SameOpen
<1>. QED
  BY <1>1, <1>2, <1>4, <1>5, <1>8, <1>9, Accepts

LEMMA ServeNext ==
  ASSUME IInv, LInv, NEW p \in Prompt, ReleaseNext(p) PROVE Serves
<1> DEFINE s == SessionOf[p]
           h == Head(queue[s])
<1>t. /\ s \in Session /\ p \in Goroutine /\ queue[s] \in Seq(Call)
      /\ queue \in [Session -> Seq(Call)] /\ pc \in [Goroutine -> Labels]
      /\ cur \in [Prompt -> Call] /\ depth \in [Goroutine -> Nat]
      /\ \A r \in Prompt : r \in Goroutine
  BY CallTypes DEF IInv, TypeOK
<1>1. /\ pc[p] \in {"ended", "release"} /\ pc' = [pc EXCEPT ![p] = "begin"]
      /\ queue[s] # <<>> /\ queue' = [queue EXCEPT ![s] = Tail(@)]
      /\ cur' = [cur EXCEPT ![p] = h]
      /\ depth' = [depth EXCEPT ![p] = @ + 1]
      /\ UNCHANGED <<held, written>>
  BY DEF ReleaseNext, Drained, Goto
<1>2. depth[p] > 0
  BY <1>1 DEF LInv, HasFrame, Started
<1>3. /\ ~Accepted(p) /\ Accepted(p)' /\ cur'[p] = h
      /\ \A r \in Prompt \ {p} : Accepted(r)' = Accepted(r) /\ cur'[r] = cur[r]
  BY <1>1, <1>2, <1>t DEF Accepted
<1>4. /\ Elements(queue[s]) = Elements(queue'[s]) \union {h}
      /\ \A t \in Session \ {s} : queue'[t] = queue[t]
  BY <1>1, <1>t, ElementsTail
<1>5. \A d : InPlace(d)' <=> InPlace(d)
  <2> SUFFICES ASSUME NEW d PROVE InPlace(d)' <=> InPlace(d)
    OBVIOUS
  <2>1. (\E t \in Session : d \in Elements(queue[t]))
           <=> (\E t \in Session : d \in Elements(queue'[t])) \/ d = h
    BY <1>4, <1>t
  <2>2. (\E r \in Prompt : Accepted(r)' /\ d = cur'[r])
           <=> (\E r \in Prompt : Accepted(r) /\ d = cur[r]) \/ d = h
    BY <1>3
  <2>3. held' = held
    BY <1>1
  <2>. QED
    BY <2>1, <2>2, <2>3 DEF InPlace
<1>6. Pending' = Pending
  BY <1>5, PendingIs, NextPendingIs DEF PendingInPlace
<1>. QED
  BY <1>1, <1>6, <1>t, Closes DEF ReleaseNext

LEMMA ServeCancel ==
  ASSUME IInv, LInv, NEW s \in Session, Cancel(s) \/ ClearQueue(s) PROVE Serves
<1>1. /\ queue' = [queue EXCEPT ![s] = <<>>]
      /\ UNCHANGED <<active, pc, depth, cur, held, written>>
  BY DEF Cancel, ClearQueue, Take
<1>2. Elements(queue'[s]) = {} /\ \A t \in Session \ {s} : queue'[t] = queue[t]
  BY <1>1, ElementsEmpty DEF IInv, TypeOK
<1>3. \A r \in Prompt : Accepted(r)' = Accepted(r) /\ (Accepted(r) => Carries(r))
  BY <1>1 DEF Accepted, Carries, Fresh
<1>4. /\ \A t \in Session \ {s} : \A d \in Elements(queue[t]) : d \notin Elements(queue[s])
      /\ \A r \in Prompt : \A d \in Elements(held[r]) : d \notin Elements(queue[s])
      /\ \A r \in Prompt : Accepted(r) => cur[r] \notin Elements(queue[s])
  BY <1>3 DEF LInv, InSession, OnePlace, Absent
<1>5. \A d : InPlace(d)' <=> InPlace(d) /\ d \notin Elements(queue[s])
  BY <1>1, <1>2, <1>3, <1>4 DEF InPlace
<1>6. \A d \in Elements(queue[s]) : InPlace(d)
  BY DEF InPlace
<1>7. Pending' = Pending \ Elements(queue[s]) /\ Elements(queue[s]) \in SUBSET Pending
  BY <1>5, <1>6, PendingIs, NextPendingIs DEF PendingInPlace
<1>. QED
  BY <1>1, <1>7, SameOpen, GivesUp

(* The steps that move no call.                                            *)
LEMMA ServeRest ==
  ASSUME IInv, LInv, NEW p \in Prompt, Submit(p) \/ RunStep(p) \/ FinishTitle(p)
  PROVE  Serves
<1>t. /\ p \in Goroutine /\ pc \in [Goroutine -> Labels] /\ depth \in [Goroutine -> Nat]
      /\ SessionOf[p] \in Session /\ \A r \in Prompt : r \in Goroutine
  BY CallTypes DEF IInv, TypeOK
<1>1. CASE Moves(p) \/ BeginActive(p) \/ SetupFails(p)
  BY <1>1, ServeBegin, ServeSetup, ServeCollect, ServeRequeue, ServeNext DEF Moves
<1>2. CASE \/ Submit(p) \/ StartStep(p) \/ NextStep(p) \/ EndStream(p) \/ EndStreamFull(p)
           \/ HandleError(p) \/ SkipRequeue(p) \/ FinishTitle(p)
  <2>1. /\ UNCHANGED <<queue, held, cur, active, written>>
        /\ \A r \in Prompt : Accepted(r)' = Accepted(r)
    BY <1>2, <1>t DEF Submit, StartStep, NextStep, EndStream, EndStreamFull, HandleError,
       SkipRequeue, FinishTitle, Goto, Accepted
  <2>. QED
    BY <2>1, SamePending, SameOpen, Stutters
<1>3. CASE DropActive(p) \/ ReleaseIdle(p) \/ Unwind(p)
  <2>1. /\ UNCHANGED <<queue, held, cur, written>>
        /\ \A r \in Prompt : Accepted(r)' = Accepted(r)
        /\ CompareAndDelete(SessionOf[p], Tok(p, "run"))
    BY <1>3, <1>t DEF DropActive, ReleaseIdle, Unwind, Goto, Accepted
  <2>. QED
    BY <2>1, <1>t, SamePending, Closes
<1>. QED
  BY <1>1, <1>2, <1>3 DEF RunStep, Moves

LEMMA ServeSummary ==
  ASSUME IInv, LInv, NEW g \in Goroutine,
         SummaryStep(g) \/ (g \in Summarizer /\ RequestSummary(g))
  PROVE  Serves
<1>t. /\ pc \in [Goroutine -> Labels] /\ SessionOf[g] \in Session
      /\ \A r \in Prompt : r \in Goroutine /\ r \notin Summarizer
      /\ active \in [Session -> Token \union {NoRun}]
  BY SessionOfType, KindsDisjoint DEF IInv, TypeOK, Goroutine
<1>1. CASE SummarizeBusy(g) \/ Return(g) \/ (g \in Summarizer /\ RequestSummary(g))
  <2>1. /\ UNCHANGED <<queue, held, cur, active, written>>
        /\ \A r \in Prompt : Accepted(r)' = Accepted(r)
    BY <1>1, <1>t DEF SummarizeBusy, Return, RequestSummary, Goto, Accepted
  <2>. QED
    BY <2>1, SamePending, SameOpen, Stutters
<1>2. CASE BeginSummarize(g)
  <2>1. /\ UNCHANGED <<queue, held, cur, written>>
        /\ \A r \in Prompt : Accepted(r)' = Accepted(r)
        /\ active[SessionOf[g]] = NoRun
        /\ active' = [active EXCEPT ![SessionOf[g]] = Tok(g, "summarize")]
    BY <1>2, <1>t DEF BeginSummarize, Goto, Accepted
  <2>2. Tok(g, "summarize") # NoRun
    BY NoRunFresh DEF IInv, TypeOK, Tok, Token
  <2>3. Open' = [Open EXCEPT ![SessionOf[g]] = ~@]
    BY <1>t, <2>1, <2>2, OpenToggles
  <2>. QED
    BY <1>t, <2>1, <2>3, SamePending, Toggles
<1>3. CASE EndSummarize(g) \/ CancelSummarize(g) \/ FailSummarize(g)
  <2>1. /\ UNCHANGED <<queue, held, cur, written>>
        /\ \A r \in Prompt : Accepted(r)' = Accepted(r)
        /\ CompareAndDelete(SessionOf[g], Tok(g, "summarize"))
    BY <1>3, <1>t DEF EndSummarize, CancelSummarize, FailSummarize, SummarizeReturnsNil,
       Goto, Accepted
  <2>. QED
    BY <2>1, SamePending, Closes
<1>. QED
  BY <1>1, <1>2, <1>3 DEF SummaryStep

LEMMA EveryStepServes == IInv /\ LInv /\ [Next]_vars => Serves
<1> SUFFICES ASSUME IInv, LInv, [Next]_vars PROVE Serves
  OBVIOUS
<1>1. CASE UNCHANGED vars
  <2>1. UNCHANGED <<queue, held, cur, active, written, pc, depth>>
    BY <1>1 DEF vars
  <2>2. \A r \in Prompt : Accepted(r)' = Accepted(r)
    BY <2>1 DEF Accepted
  <2>. QED
    BY <2>1, <2>2, SamePending, SameOpen, Stutters
<1>2. ASSUME NEW z \in Summarizer, RequestSummary(z) PROVE Serves
  BY <1>2, ServeSummary DEF Goroutine
<1>. QED
  BY <1>1, <1>2, ServeRest, ServeSummary, ServeCancel DEF Next, Quiescent

(* The dispatcher offers the service of PromptLedger.                      *)
THEOREM LedgerImplemented == Spec => ImplementsLedger
<1>1. Init => Ledger!Init
  <2> SUFFICES ASSUME Init PROVE Ledger!Init
    OBVIOUS
  <2>1. /\ \A s \in Session : queue[s] = <<>>
        /\ \A p \in Prompt : held[p] = <<>> /\ pc[p] = "idle"
    BY DEF Init, Goroutine
  <2>2. \A c : ~InPlace(c)
    BY <2>1, ElementsEmpty DEF InPlace, Accepted
  <2>3. Pending = {}
    BY <2>2, PendingIs DEF PendingInPlace
  <2>4. Open = [s \in Session |-> FALSE] /\ written = {}
    BY DEF Init, Open
  <2>. QED
    BY <2>3, <2>4 DEF Ledger!Init, Pending, Open
<1>2. IInv /\ LInv /\ [Next]_vars
         => [Ledger!Next]_<<Pending, written, Open>>
  BY EveryStepServes DEF Serves
<1>. QED
  BY Invariance, LedgerInvariance, <1>1, <1>2, PTL
     DEF Spec, ImplementsLedger, Ledger!Spec, Pending, Open

=============================================================================
