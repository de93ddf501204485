------------------------ MODULE ShellsAndBrokerProofs ------------------------
(***************************************************************************)
(* Proofs about the two components that goroutines share through a map and *)
(* channels alone.                                                         *)
(*                                                                         *)
(* BackgroundShells: its type invariant, that no running shell is out of   *)
(* reach, and that a kill that has returned left no shell behind, for any  *)
(* number of tool calls, killers and shells.                               *)
(*                                                                         *)
(* Broker: its type invariant, and that no interleaving of subscribers     *)
(* that come and go, publishers and calls of Shutdown closes a channel     *)
(* twice, sends on a closed one or loses count, for any number of each and *)
(* any size of buffer.                                                     *)
(***************************************************************************)
EXTENDS BackgroundShells, Broker, FiniteSetTheorems, TLAPS

-----------------------------------------------------------------------------
(* Background shells.                                                      *)

(* What has expired or is being swept or removed has ended; a shell exists *)
(* from Start on.                                                          *)
EndedFacts ==
    /\ \A j \in expired : proc[j] = "exited"
    /\ \A j \in Job : \A i \in sweep[j] : proc[i] = "exited"
    /\ \A j \in Job : pc[j] = "remove" => proc[j] = "exited"
    /\ \A j \in Job : pc[j] \in {"idle", "sweep", "start"} => proc[j] = "none"
    /\ \A j \in Job : pc[j] \in {"wait", "kill"} => proc[j] # "none"

(* Between the copy and the reset, what is on the map was copied or is     *)
(* late.                                                                   *)
CopyCovers == phase = "reset" => shells \subseteq collected \union late

IInv ==
    /\ TypeOK
    /\ EndedFacts
    /\ CopyCovers
    /\ NoOrphans
    /\ KilledIsGone

LEMMA InitIInv == Init => IInv
  BY DEF Init, IInv, TypeOK, EndedFacts, CopyCovers, NoOrphans, KilledIsGone, Doomed

LEMMA TypeStep == IInv /\ [Next]_vars => TypeOK'
<1> SUFFICES ASSUME IInv, [Next]_vars PROVE TypeOK'
  OBVIOUS
<1> USE DEF IInv, TypeOK, Goto, GotoKill, jobVars, toolVars, killVars, exitVars
<1>1. ASSUME NEW j \in Job, Call(j) PROVE TypeOK'
  BY <1>1 DEF Call, Expired
<1>2. ASSUME NEW j \in Job, CheckLimit(j) PROVE TypeOK'
  BY <1>2 DEF CheckLimit
<1>3. ASSUME NEW j \in Job, Start(j) PROVE TypeOK'
  BY <1>3 DEF Start
<1>4. ASSUME NEW j \in Job, SeeDone(j) PROVE TypeOK'
  BY <1>4 DEF SeeDone, Gone
<1>5. ASSUME NEW j \in Job, Remove(j) PROVE TypeOK'
  BY <1>5 DEF Remove
<1>6. ASSUME NEW j \in Job, MoveToBackground(j) PROVE TypeOK'
  BY <1>6 DEF MoveToBackground
<1>7. ASSUME NEW j \in Job, ToolKill(j) PROVE TypeOK'
  BY <1>7 DEF ToolKill, Terminate
<1>8. ASSUME NEW j \in Job, ToolKillReturns(j) PROVE TypeOK'
  BY <1>8 DEF ToolKillReturns, Gone
<1>9. ASSUME NEW j \in Job, CancelContext(j) PROVE TypeOK'
  BY <1>9 DEF CancelContext
<1>10. ASSUME NEW j \in Job, Exit(j) PROVE TypeOK'
  BY <1>10 DEF Exit
<1>11. ASSUME NEW j \in Job, Expire(j) PROVE TypeOK'
  BY <1>11 DEF Expire
<1>12. ASSUME NEW j \in Job, CancelCollected(j) PROVE TypeOK'
  BY <1>12 DEF CancelCollected
<1>13. ASSUME NEW j \in Job, NEW i \in Job, RemoveExpired(j, i) PROVE TypeOK'
  BY <1>13 DEF RemoveExpired
<1>14. ASSUME NEW k \in Killer, JobKill(k) PROVE TypeOK'
  BY <1>14 DEF JobKill
<1>15. ASSUME NEW k \in Killer, KillTake(k) PROVE TypeOK'
  BY <1>15 DEF KillTake, Terminate
<1>16. ASSUME NEW k \in Killer, KillReturns(k) PROVE TypeOK'
  BY <1>16 DEF KillReturns, Gone
<1>17. CASE Collect
  BY <1>17 DEF Collect
<1>18. CASE Reset
  BY <1>18 DEF Reset
<1>19. CASE KillAllReturns
  BY <1>19 DEF KillAllReturns
<1>20. CASE UNCHANGED vars
  BY <1>20 DEF vars
<1>. QED
  BY <1>1, <1>2, <1>3, <1>4, <1>5, <1>6, <1>7, <1>8, <1>9, <1>10, <1>11,
     <1>12, <1>13, <1>14, <1>15, <1>16, <1>17, <1>18, <1>19, <1>20
  DEF Next, ToolStep, KillStep, KillAllStep

LEMMA EndedStep == IInv /\ TypeOK' /\ [Next]_vars => EndedFacts' /\ CopyCovers'
<1> DEFINE Goal == EndedFacts' /\ CopyCovers'
<1> SUFFICES ASSUME IInv, TypeOK', [Next]_vars PROVE Goal
  OBVIOUS
<1> USE DEF IInv, TypeOK, EndedFacts, CopyCovers, Goto, jobVars, toolVars, killVars, exitVars
<1>1. ASSUME NEW j \in Job, Call(j) PROVE Goal
  BY <1>1 DEF Call, Expired
<1>2. ASSUME NEW j \in Job, CheckLimit(j) PROVE Goal
  BY <1>2 DEF CheckLimit
<1>3. ASSUME NEW j \in Job, Start(j) PROVE Goal
  BY <1>3 DEF Start
<1>4. ASSUME NEW j \in Job, SeeDone(j) PROVE Goal
  BY <1>4 DEF SeeDone, Gone
<1>5. ASSUME NEW j \in Job, Remove(j) PROVE Goal
  BY <1>5 DEF Remove
<1>6. ASSUME NEW j \in Job, MoveToBackground(j) PROVE Goal
  BY <1>6 DEF MoveToBackground
<1>7. ASSUME NEW j \in Job, ToolKill(j) PROVE Goal
  BY <1>7 DEF ToolKill, Terminate
<1>8. ASSUME NEW j \in Job, ToolKillReturns(j) PROVE Goal
  BY <1>8 DEF ToolKillReturns, Gone
<1>9. ASSUME NEW j \in Job, CancelContext(j) PROVE Goal
  BY <1>9 DEF CancelContext
<1>10. ASSUME NEW j \in Job, Exit(j) PROVE Goal
  BY <1>10 DEF Exit
<1>11. ASSUME NEW j \in Job, Expire(j) PROVE Goal
  BY <1>11 DEF Expire
<1>12. ASSUME NEW j \in Job, CancelCollected(j) PROVE Goal
  BY <1>12 DEF CancelCollected
<1>13. ASSUME NEW j \in Job, NEW i \in Job, RemoveExpired(j, i) PROVE Goal
  BY <1>13 DEF RemoveExpired
<1>14. ASSUME NEW k \in Killer, JobKill(k) PROVE Goal
  BY <1>14 DEF JobKill
<1>15. ASSUME NEW k \in Killer, KillTake(k) PROVE Goal
  BY <1>15 DEF KillTake, Terminate
<1>16. ASSUME NEW k \in Killer, KillReturns(k) PROVE Goal
  BY <1>16 DEF KillReturns, Gone
<1>17. CASE Collect
  BY <1>17 DEF Collect
<1>18. CASE Reset
  BY <1>18 DEF Reset
<1>19. CASE KillAllReturns
  BY <1>19 DEF KillAllReturns
<1>20. CASE UNCHANGED vars
  BY <1>20 DEF vars
<1>. QED
  BY <1>1, <1>2, <1>3, <1>4, <1>5, <1>6, <1>7, <1>8, <1>9, <1>10, <1>11,
     <1>12, <1>13, <1>14, <1>15, <1>16, <1>17, <1>18, <1>19, <1>20
  DEF Next, ToolStep, KillStep, KillAllStep

LEMMA OrphanStep == IInv /\ TypeOK' /\ [Next]_vars => NoOrphans'
<1> SUFFICES ASSUME IInv, TypeOK', [Next]_vars PROVE NoOrphans'
  OBVIOUS
<1> USE DEF IInv, TypeOK, EndedFacts, CopyCovers, NoOrphans, Doomed,
        jobVars, toolVars, killVars, exitVars
<1>1. ASSUME NEW j \in Job, Call(j) PROVE NoOrphans'
  BY <1>1 DEF Call, Expired
<1>2. ASSUME NEW j \in Job, CheckLimit(j) PROVE NoOrphans'
  BY <1>2 DEF CheckLimit
<1>3. ASSUME NEW j \in Job, Start(j) PROVE NoOrphans'
  BY <1>3 DEF Start
<1>4. ASSUME NEW j \in Job, SeeDone(j) PROVE NoOrphans'
  BY <1>4 DEF SeeDone, Gone
<1>5. ASSUME NEW j \in Job, Remove(j) PROVE NoOrphans'
  BY <1>5 DEF Remove
<1>6. ASSUME NEW j \in Job, MoveToBackground(j) PROVE NoOrphans'
  BY <1>6 DEF MoveToBackground
<1>7. ASSUME NEW j \in Job, ToolKill(j) PROVE NoOrphans'
  BY <1>7 DEF ToolKill, Terminate
<1>8. ASSUME NEW j \in Job, ToolKillReturns(j) PROVE NoOrphans'
  BY <1>8 DEF ToolKillReturns, Gone
<1>9. ASSUME NEW j \in Job, CancelContext(j) PROVE NoOrphans'
  BY <1>9 DEF CancelContext
<1>10. ASSUME NEW j \in Job, Exit(j) PROVE NoOrphans'
  BY <1>10 DEF Exit
<1>11. ASSUME NEW j \in Job, Expire(j) PROVE NoOrphans'
  BY <1>11 DEF Expire
<1>12. ASSUME NEW j \in Job, CancelCollected(j) PROVE NoOrphans'
  BY <1>12 DEF CancelCollected
<1>13. ASSUME NEW j \in Job, NEW i \in Job, RemoveExpired(j, i) PROVE NoOrphans'
  BY <1>13 DEF RemoveExpired
<1>14. ASSUME NEW k \in Killer, JobKill(k) PROVE NoOrphans'
  BY <1>14 DEF JobKill
<1>15. ASSUME NEW k \in Killer, KillTake(k) PROVE NoOrphans'
  BY <1>15 DEF KillTake, Terminate
<1>16. ASSUME NEW k \in Killer, KillReturns(k) PROVE NoOrphans'
  BY <1>16 DEF KillReturns, Gone
<1>17. CASE Collect
  BY <1>17 DEF Collect
<1>18. CASE Reset
  BY <1>18 DEF Reset
<1>19. CASE KillAllReturns
  BY <1>19 DEF KillAllReturns
<1>20. CASE UNCHANGED vars
  BY <1>20 DEF vars
<1>. QED
  BY <1>1, <1>2, <1>3, <1>4, <1>5, <1>6, <1>7, <1>8, <1>9, <1>10, <1>11,
     <1>12, <1>13, <1>14, <1>15, <1>16, <1>17, <1>18, <1>19, <1>20
  DEF Next, ToolStep, KillStep, KillAllStep

LEMMA KillStepKeeps == IInv /\ TypeOK' /\ [Next]_vars => KilledIsGone'
<1> SUFFICES ASSUME IInv, TypeOK', [Next]_vars PROVE KilledIsGone'
  OBVIOUS
<1> USE DEF IInv, TypeOK, EndedFacts, NoOrphans, KilledIsGone, Doomed, Goto, GotoKill,
        jobVars, toolVars, killVars, exitVars
<1>1. ASSUME NEW j \in Job, Call(j) PROVE KilledIsGone'
  BY <1>1 DEF Call, Expired
<1>2. ASSUME NEW j \in Job, CheckLimit(j) PROVE KilledIsGone'
  BY <1>2 DEF CheckLimit
<1>3. ASSUME NEW j \in Job, Start(j) PROVE KilledIsGone'
  BY <1>3 DEF Start
<1>4. ASSUME NEW j \in Job, SeeDone(j) PROVE KilledIsGone'
  BY <1>4 DEF SeeDone, Gone
<1>5. ASSUME NEW j \in Job, Remove(j) PROVE KilledIsGone'
  BY <1>5 DEF Remove
<1>6. ASSUME NEW j \in Job, MoveToBackground(j) PROVE KilledIsGone'
  BY <1>6 DEF MoveToBackground
<1>7. ASSUME NEW j \in Job, ToolKill(j) PROVE KilledIsGone'
  BY <1>7 DEF ToolKill, Terminate
<1>8. ASSUME NEW j \in Job, ToolKillReturns(j) PROVE KilledIsGone'
  BY <1>8 DEF ToolKillReturns, Gone
<1>9. ASSUME NEW j \in Job, CancelContext(j) PROVE KilledIsGone'
  BY <1>9 DEF CancelContext
<1>10. ASSUME NEW j \in Job, Exit(j) PROVE KilledIsGone'
  BY <1>10 DEF Exit
<1>11. ASSUME NEW j \in Job, Expire(j) PROVE KilledIsGone'
  BY <1>11 DEF Expire
<1>12. ASSUME NEW j \in Job, CancelCollected(j) PROVE KilledIsGone'
  BY <1>12 DEF CancelCollected
<1>13. ASSUME NEW j \in Job, NEW i \in Job, RemoveExpired(j, i) PROVE KilledIsGone'
  BY <1>13 DEF RemoveExpired
<1>14. ASSUME NEW k \in Killer, JobKill(k) PROVE KilledIsGone'
  BY <1>14 DEF JobKill
<1>15. ASSUME NEW k \in Killer, KillTake(k) PROVE KilledIsGone'
  BY <1>15 DEF KillTake, Terminate
<1>16. ASSUME NEW k \in Killer, KillReturns(k) PROVE KilledIsGone'
  BY <1>16 DEF KillReturns, Gone
<1>17. CASE Collect
  BY <1>17 DEF Collect
<1>18. CASE Reset
  BY <1>18 DEF Reset
<1>19. CASE KillAllReturns
  BY <1>19 DEF KillAllReturns
<1>20. CASE UNCHANGED vars
  BY <1>20 DEF vars
<1>. QED
  BY <1>1, <1>2, <1>3, <1>4, <1>5, <1>6, <1>7, <1>8, <1>9, <1>10, <1>11,
     <1>12, <1>13, <1>14, <1>15, <1>16, <1>17, <1>18, <1>19, <1>20
  DEF Next, ToolStep, KillStep, KillAllStep

THEOREM Invariance == Spec => []IInv
<1>1. IInv /\ [Next]_vars => IInv'
  BY TypeStep, EndedStep, OrphanStep, KillStepKeeps DEF IInv
<1>. QED
  BY InitIInv, <1>1, PTL DEF Spec

(* The variables keep their types.                                         *)
THEOREM TypeCorrect == Spec => []TypeOK
<1>1. IInv => TypeOK
  BY DEF IInv
<1>. QED
  BY Invariance, <1>1, PTL

(* No interleaving of Start, Remove, Kill, Cleanup and KillAll strands a   *)
(* running shell, but for a Start in KillAll's gap.                        *)
THEOREM ShellsReachable == Spec => []NoOrphans
<1>1. IInv => NoOrphans
  BY DEF IInv
<1>. QED
  BY Invariance, <1>1, PTL

(* A job_kill that reports success has seen the shell end.                 *)
THEOREM KillsAreReal == Spec => []KilledIsGone
<1>1. IInv => KilledIsGone
  BY DEF IInv
<1>. QED
  BY Invariance, <1>1, PTL

-----------------------------------------------------------------------------
(* The broker.                                                             *)

(* A publisher serves subscribers that are on the map only: nobody takes   *)
(* one off while it holds the read lock.                                   *)
ServesTheMap == \A p \in sending : todo[p] \subseteq subs

(* What is on the map is open; it was never closed before it was there,    *)
(* and it stays there until its context ends or Shutdown, which empties    *)
(* the map after closing done.                                             *)
MapIsOpen ==
    /\ \A s \in subs : closes[s] = 0 /\ sub[s] # "out"
    /\ \A s \in Subscriber : sub[s] = "out" => closes[s] = 0
    /\ ~done => \A s \in Subscriber : sub[s] = "in" => s \in subs
    /\ \A k \in Closer : closer[k] = "lock" => done

BrokerInv ==
    /\ BrokerTypeOK
    /\ ServesTheMap
    /\ MapIsOpen
    /\ NoDoubleClose
    /\ CountIsSize

LEMMA BrokerInitInv == BrokerInit => BrokerInv
<1> SUFFICES ASSUME BrokerInit PROVE BrokerInv
  OBVIOUS
<1>1. BrokerTypeOK
  <2>1. 0 \in 0 .. BufferSize /\ 0 \in 0 .. MaxEvents
    BY BufferSizeNat, MaxEventsNat
  <2>2. /\ closes \in [Subscriber -> Nat]
        /\ buffer \in [Subscriber -> 0 .. BufferSize]
        /\ published \in [Publisher -> 0 .. MaxEvents]
    BY <2>1 DEF BrokerInit
  <2>. QED
    BY <2>2 DEF BrokerInit, BrokerTypeOK
<1>2. CountIsSize
  BY FS_EmptySet DEF BrokerInit, CountIsSize
<1>. QED
  BY <1>1, <1>2 DEF BrokerInit, BrokerInv, ServesTheMap, MapIsOpen, NoDoubleClose

(* The counter and the map change together.                                *)
LEMMA CountStep == BrokerInv /\ [BrokerNext]_brokerVars => CountIsSize' /\ subCount' \in Nat
<1> DEFINE Goal == CountIsSize' /\ subCount' \in Nat
<1> SUFFICES ASSUME BrokerInv, [BrokerNext]_brokerVars PROVE Goal
  OBVIOUS
<1> USE DEF BrokerInv, CountIsSize, subscription, publication, closing
<1>1. IsFiniteSet(subs) /\ subCount \in Nat
  BY SubscribersFinite, FS_Subset DEF BrokerTypeOK
<1>2. CASE UNCHANGED <<subs, subCount>>
  BY <1>1, <1>2
<1>3. ASSUME NEW s \in Subscriber, SubscribeLate(s) PROVE Goal
  BY <1>2, <1>3 DEF SubscribeLate
<1>4. ASSUME NEW s \in Subscriber, Subscribe(s) PROVE Goal
  <2>1. s \notin subs
    BY <1>4 DEF Subscribe, MapIsOpen
  <2>2. subs' = subs \cup {s} /\ subCount' = subCount + 1
    BY <1>4 DEF Subscribe
  <2>3. Cardinality(subs \cup {s}) = Cardinality(subs) + 1
    BY <1>1, <2>1, FS_AddElement
  <2>. QED
    BY <1>1, <2>2, <2>3
<1>5. ASSUME NEW s \in Subscriber, Leave(s) PROVE Goal
  <2>1. CASE done
    BY <1>2, <1>5, <2>1 DEF Leave
  <2>2. CASE ~done
    <3>1. s \in subs
      BY <1>5, <2>2 DEF Leave, MapIsOpen
    <3>2. subs' = subs \ {s} /\ subCount' = subCount - 1
      BY <1>5, <2>2 DEF Leave
    <3>3. Cardinality(subs \ {s}) = Cardinality(subs) - 1
      BY <1>1, <3>1, FS_RemoveElement
    <3>4. Cardinality(subs \ {s}) \in Nat
      BY <1>1, FS_RemoveElement, FS_CardinalityType
    <3>. QED
      BY <3>2, <3>3, <3>4
  <2>. QED
    BY <2>1, <2>2
<1>6. ASSUME NEW k \in Closer, CloseAll(k) PROVE Goal
  BY <1>6, FS_EmptySet DEF CloseAll
<1>7. ASSUME NEW s \in Subscriber, Cancel(s) \/ Receive(s) PROVE Goal
  BY <1>2, <1>7 DEF Cancel, Receive
<1>8. ASSUME NEW p \in Publisher, PublishStep(p) PROVE Goal
  BY <1>2, <1>8 DEF PublishStep, BeginPublish, Send, EndPublish
<1>9. ASSUME NEW k \in Closer, AlreadyClosed(k) \/ SeeOpen(k) \/ CloseDone(k)
      PROVE Goal
  BY <1>2, <1>9 DEF AlreadyClosed, SeeOpen, CloseDone
<1>10. CASE UNCHANGED brokerVars
  BY <1>2, <1>10 DEF brokerVars
<1>. QED
  BY <1>3, <1>4, <1>5, <1>6, <1>7, <1>8, <1>9, <1>10 DEF BrokerNext, CloseStep

LEMMA BrokerTypeStep == BrokerInv /\ [BrokerNext]_brokerVars => BrokerTypeOK'
<1> SUFFICES ASSUME BrokerInv, [BrokerNext]_brokerVars PROVE BrokerTypeOK'
  OBVIOUS
<1> USE BufferSizeNat, MaxEventsNat DEF BrokerInv, BrokerTypeOK, subscription, publication, closing
<1>0. subCount' \in Nat
  BY CountStep
<1>1. ASSUME NEW s \in Subscriber, SubscribeLate(s) PROVE BrokerTypeOK'
  BY <1>1 DEF SubscribeLate
<1>2. ASSUME NEW s \in Subscriber, Subscribe(s) PROVE BrokerTypeOK'
  BY <1>0, <1>2 DEF Subscribe
<1>3. ASSUME NEW s \in Subscriber, Cancel(s) PROVE BrokerTypeOK'
  BY <1>3 DEF Cancel
<1>4. ASSUME NEW s \in Subscriber, Leave(s) PROVE BrokerTypeOK'
  BY <1>0, <1>4 DEF Leave
<1>5. ASSUME NEW s \in Subscriber, Receive(s) PROVE BrokerTypeOK'
  BY <1>5 DEF Receive
<1>6. ASSUME NEW p \in Publisher, BeginPublish(p) PROVE BrokerTypeOK'
  BY <1>6 DEF BeginPublish
<1>7. ASSUME NEW p \in Publisher, NEW s \in Subscriber, Send(p, s) PROVE BrokerTypeOK'
  BY <1>7 DEF Send
<1>8. ASSUME NEW p \in Publisher, EndPublish(p) PROVE BrokerTypeOK'
  BY <1>8 DEF EndPublish
<1>9. ASSUME NEW k \in Closer, AlreadyClosed(k) \/ SeeOpen(k) \/ CloseDone(k)
      PROVE BrokerTypeOK'
  BY <1>9 DEF AlreadyClosed, SeeOpen, CloseDone
<1>10. ASSUME NEW k \in Closer, CloseAll(k) PROVE BrokerTypeOK'
  BY <1>10 DEF CloseAll, ClosedNow
<1>11. CASE UNCHANGED brokerVars
  BY <1>11 DEF brokerVars
<1>. QED
  BY <1>1, <1>2, <1>3, <1>4, <1>5, <1>6, <1>7, <1>8, <1>9, <1>10, <1>11
     DEF BrokerNext, PublishStep, CloseStep

(* Who changes the map or closes a channel holds the write lock, so no     *)
(* publisher is on its way; who closes takes the channel off the map.      *)
LEMMA OpenStep ==
    BrokerInv /\ [BrokerNext]_brokerVars => ServesTheMap' /\ MapIsOpen' /\ NoDoubleClose'
<1> DEFINE Goal == ServesTheMap' /\ MapIsOpen' /\ NoDoubleClose'
<1> SUFFICES ASSUME BrokerInv, [BrokerNext]_brokerVars PROVE Goal
  OBVIOUS
<1> USE DEF BrokerInv, BrokerTypeOK, ServesTheMap, MapIsOpen, NoDoubleClose, Unlocked,
            subscription, publication, closing
<1>1. ASSUME NEW s \in Subscriber, SubscribeLate(s) PROVE Goal
  BY <1>1 DEF SubscribeLate
<1>2. ASSUME NEW s \in Subscriber, Subscribe(s) PROVE Goal
  BY <1>2 DEF Subscribe
<1>3. ASSUME NEW s \in Subscriber, Cancel(s) PROVE Goal
  BY <1>3 DEF Cancel
<1>4. ASSUME NEW s \in Subscriber, Leave(s) PROVE Goal
  BY <1>4 DEF Leave
<1>5. ASSUME NEW s \in Subscriber, Receive(s) PROVE Goal
  BY <1>5 DEF Receive
<1>6. ASSUME NEW p \in Publisher, BeginPublish(p) PROVE Goal
  BY <1>6 DEF BeginPublish
<1>7. ASSUME NEW p \in Publisher, NEW s \in Subscriber, Send(p, s) PROVE Goal
  BY <1>7 DEF Send
<1>8. ASSUME NEW p \in Publisher, EndPublish(p) PROVE Goal
  BY <1>8 DEF EndPublish
<1>9. ASSUME NEW k \in Closer, AlreadyClosed(k) \/ SeeOpen(k) \/ CloseDone(k)
      PROVE Goal
  BY <1>9 DEF AlreadyClosed, SeeOpen, CloseDone
<1>10. ASSUME NEW k \in Closer, CloseAll(k) PROVE Goal
  <2>1. done
    BY <1>10 DEF CloseAll
  <2>. QED
    BY <1>10, <2>1 DEF CloseAll, ClosedNow
<1>11. CASE UNCHANGED brokerVars
  BY <1>11 DEF brokerVars
<1>. QED
  BY <1>1, <1>2, <1>3, <1>4, <1>5, <1>6, <1>7, <1>8, <1>9, <1>10, <1>11
     DEF BrokerNext, PublishStep, CloseStep

-----------------------------------------------------------------------------
THEOREM InductiveInvariant == BrokerSpec => []BrokerInv
<1>1. BrokerInv /\ [BrokerNext]_brokerVars => BrokerInv'
  BY CountStep, BrokerTypeStep, OpenStep DEF BrokerInv
<1>. QED
  BY BrokerInitInv, <1>1, PTL DEF BrokerSpec

(* The broker's variables keep their types; subCount never falls below     *)
(* zero, whichever of Leave and Shutdown comes first.                      *)
THEOREM BrokerTypeCorrect == BrokerSpec => []BrokerTypeOK
<1>1. BrokerInv => BrokerTypeOK
  BY DEF BrokerInv
<1>. QED
  BY <1>1, InductiveInvariant, PTL

(* Publish never sends on a closed channel.                                *)
THEOREM SendsAreSafe == BrokerSpec => []NoSendOnClosed
<1>1. BrokerInv => NoSendOnClosed
  BY DEF BrokerInv, ServesTheMap, MapIsOpen, NoSendOnClosed
<1>. QED
  BY <1>1, InductiveInvariant, PTL

(* The end of a context and Shutdown never both close a channel.           *)
THEOREM ClosedOnce == BrokerSpec => []NoDoubleClose
<1>1. BrokerInv => NoDoubleClose
  BY DEF BrokerInv
<1>. QED
  BY <1>1, InductiveInvariant, PTL

(* No event is sent on a closed channel and none is closed twice.          *)
THEOREM ChannelSafety == BrokerSpec => []ChannelsAreSafe
<1>1. NoSendOnClosed /\ NoDoubleClose => ChannelsAreSafe
  BY DEF ChannelsAreSafe
<1>. QED
  BY <1>1, SendsAreSafe, ClosedOnce, PTL

(* subCount is the size of the map.                                        *)
THEOREM CountIsRight == BrokerSpec => []CountIsSize
<1>1. BrokerInv => CountIsSize
  BY DEF BrokerInv
<1>. QED
  BY <1>1, InductiveInvariant, PTL

=============================================================================
