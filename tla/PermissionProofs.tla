-------------------------- MODULE PermissionProofs --------------------------
(***************************************************************************)
(* Proofs about Permission: its type invariant, that one request is open   *)
(* at a time, that outcomes are announced before they take effect, and     *)
(* that nothing is granted without a reason, for any calls, answers,       *)
(* sessions, allowlist and hook decisions.                                 *)
(***************************************************************************)
EXTENDS Permission, TLAPS

(* Only the holder of requestMu is past it, and only such a call is        *)
(* registered.                                                             *)
HolderHoldsLock == \A c \in Call : pc[c] \in LockedLabels => lock = c
RegisteredAsk == \A c \in pending : pc[c] \in AskedLabels

(* Every value on its way to a call, and every grant kept for a session,   *)
(* was put there by an answer of a user.                                   *)
AnswerFacts ==
    \A r \in Reply :
        /\ rpc[r] = "idle" <=> verdict[r] = "none"
        /\ rpc[r] # "idle" => about[r] \in Call
        /\ rpc[r] = "persist" => verdict[r] = "persist"
YesIsAffirmed == \A c \in Call : chan[c] = "yes" => Affirmed(c)
GrantsAreAnswers ==
    \A p \in persisted :
        \E r \in Reply :
            verdict[r] = "persist" /\ about[r] \in Call /\ Scope(about[r]) = p

(* Notifications run ahead of the values they are about.                   *)
NotYetRequested ==
    \A c \in Call :
        pc[c] = "idle" => "requested" \notin announced[c] /\ outcome[c] = "none"
Said(v) == IF v = "deny" THEN "denied" ELSE "granted"
AnswersAnnounced ==
    \A r \in Reply : rpc[r] # "idle" => Said(verdict[r]) \in announced[about[r]]
ValuesAnnounced ==
    \A c \in Call :
        /\ chan[c] = "yes" => "granted" \in announced[c]
        /\ chan[c] = "no" => "denied" \in announced[c]

IInv ==
    /\ TypeOK
    /\ HolderHoldsLock
    /\ RegisteredAsk
    /\ AnswerFacts
    /\ YesIsAffirmed
    /\ GrantsAreAnswers
    /\ NotYetRequested
    /\ AnswersAnnounced
    /\ ValuesAnnounced
    /\ OutcomeAnnounced

LEMMA InitIInv == Init => IInv
<1> USE NoCallFresh DEF Init
<1>1. Init => TypeOK
  BY DEF TypeOK
<1>2. Init => HolderHoldsLock /\ RegisteredAsk
  BY DEF HolderHoldsLock, RegisteredAsk, LockedLabels, AskedLabels
<1>3. Init => AnswerFacts /\ YesIsAffirmed /\ GrantsAreAnswers
  BY DEF AnswerFacts, YesIsAffirmed, GrantsAreAnswers
<1>4. Init => NotYetRequested /\ AnswersAnnounced /\ ValuesAnnounced /\ OutcomeAnnounced
  BY DEF NotYetRequested, AnswersAnnounced, ValuesAnnounced, OutcomeAnnounced
<1>. QED
  BY <1>1, <1>2, <1>3, <1>4 DEF IInv

LEMMA TypeStep == IInv /\ [Next]_vars => TypeOK'
<1> SUFFICES ASSUME IInv, [Next]_vars PROVE TypeOK'
  OBVIOUS
<1> USE SessionOfType, KeyOfType
    DEF IInv, TypeOK, LockedLabels, AskedLabels, GotoCall, GotoReply, Decide, Announce, Verdict,
        callVars, stateVars, policyVars, historyVars, replyVars
<1>1. ASSUME NEW c \in Call, GrantSilently(c) PROVE TypeOK'
  BY <1>1 DEF GrantSilently
<1>2. ASSUME NEW c \in Call, GrantByHook(c) PROVE TypeOK'
  BY <1>2 DEF GrantByHook
<1>3. ASSUME NEW c \in Call, AskForTurn(c) PROVE TypeOK'
  BY <1>3 DEF AskForTurn
<1>4. ASSUME NEW c \in Call, Lock(c) PROVE TypeOK'
  BY <1>4 DEF Lock
<1>5. ASSUME NEW c \in Call, AutoApprove(c) PROVE TypeOK'
  BY <1>5 DEF AutoApprove
<1>6. ASSUME NEW c \in Call, NotAutoApproved(c) PROVE TypeOK'
  BY <1>6 DEF NotAutoApproved
<1>7. ASSUME NEW c \in Call, GrantFromSession(c) PROVE TypeOK'
  BY <1>7 DEF GrantFromSession
<1>8. ASSUME NEW c \in Call, Register(c) PROVE TypeOK'
  BY <1>8 DEF Register
<1>9. ASSUME NEW c \in Call, PublishRequest(c) PROVE TypeOK'
  BY <1>9 DEF PublishRequest
<1>10. ASSUME NEW c \in Call, Receive(c) PROVE TypeOK'
  BY <1>10 DEF Receive
<1>11. ASSUME NEW c \in Call, GiveUp(c) PROVE TypeOK'
  BY <1>11 DEF GiveUp
<1>12. ASSUME NEW c \in Call, Leave(c) PROVE TypeOK'
  BY <1>12 DEF Leave
<1>13. ASSUME NEW c \in Call, Unlock(c) PROVE TypeOK'
  BY <1>13 DEF Unlock
<1>14. ASSUME NEW c \in Call, CancelContext(c) PROVE TypeOK'
  BY <1>14 DEF CancelContext
<1>15. ASSUME NEW r \in Reply, NEW c \in Call, NEW v \in Verdict, Answer(r, c, v) PROVE TypeOK'
  BY <1>15 DEF Answer
<1>16. ASSUME NEW r \in Reply, Lookup(r) PROVE TypeOK'
  BY <1>16 DEF Lookup, AfterSend
<1>17. ASSUME NEW r \in Reply, Send(r) PROVE TypeOK'
  BY <1>17 DEF Send, AfterSend, HasRoom
<1>18. ASSUME NEW r \in Reply, Persist(r) PROVE TypeOK'
  <2>1. Scope(about[r]) \in [session : Session, key : Key]
    BY <1>18 DEF Persist, AnswerFacts, Scope
  <2>. QED
    BY <1>18, <2>1 DEF Persist
<1>19. ASSUME NEW s \in Session, AutoApproveSession(s) PROVE TypeOK'
  BY <1>19 DEF AutoApproveSession
<1>20. ASSUME NEW b \in BOOLEAN, SetSkipRequests(b) PROVE TypeOK'
  BY <1>20 DEF SetSkipRequests
<1>21. CASE UNCHANGED vars
  BY <1>21 DEF vars, callVars, stateVars, policyVars, historyVars, replyVars
<1>. QED
  BY <1>1, <1>2, <1>3, <1>4, <1>5, <1>6, <1>7, <1>8, <1>9, <1>10, <1>11,
     <1>12, <1>13, <1>14, <1>15, <1>16, <1>17, <1>18, <1>19, <1>20,
     <1>21 DEF Next, RequestStep, ReplyStep

LEMMA LockStep == IInv /\ TypeOK' /\ [Next]_vars => HolderHoldsLock' /\ RegisteredAsk'
<1> DEFINE Goal == HolderHoldsLock' /\ RegisteredAsk'
<1> SUFFICES ASSUME IInv, TypeOK', [Next]_vars PROVE Goal
  OBVIOUS
<1> USE NoCallFresh
    DEF IInv, TypeOK, HolderHoldsLock, RegisteredAsk, LockedLabels, AskedLabels, GotoCall,
        callVars, stateVars, policyVars, historyVars, replyVars
<1>1. ASSUME NEW c \in Call, GrantSilently(c) PROVE Goal
  BY <1>1 DEF GrantSilently
<1>2. ASSUME NEW c \in Call, GrantByHook(c) PROVE Goal
  BY <1>2 DEF GrantByHook
<1>3. ASSUME NEW c \in Call, AskForTurn(c) PROVE Goal
  BY <1>3 DEF AskForTurn
<1>4. ASSUME NEW c \in Call, Lock(c) PROVE Goal
  BY <1>4 DEF Lock
<1>5. ASSUME NEW c \in Call, AutoApprove(c) PROVE Goal
  BY <1>5 DEF AutoApprove
<1>6. ASSUME NEW c \in Call, NotAutoApproved(c) PROVE Goal
  BY <1>6 DEF NotAutoApproved
<1>7. ASSUME NEW c \in Call, GrantFromSession(c) PROVE Goal
  BY <1>7 DEF GrantFromSession
<1>8. ASSUME NEW c \in Call, Register(c) PROVE Goal
  BY <1>8 DEF Register
<1>9. ASSUME NEW c \in Call, PublishRequest(c) PROVE Goal
  BY <1>9 DEF PublishRequest
<1>10. ASSUME NEW c \in Call, Receive(c) PROVE Goal
  BY <1>10 DEF Receive
<1>11. ASSUME NEW c \in Call, GiveUp(c) PROVE Goal
  BY <1>11 DEF GiveUp
<1>12. ASSUME NEW c \in Call, Leave(c) PROVE Goal
  BY <1>12 DEF Leave
<1>13. ASSUME NEW c \in Call, Unlock(c) PROVE Goal
  BY <1>13 DEF Unlock
<1>14. ASSUME NEW c \in Call, CancelContext(c) PROVE Goal
  BY <1>14 DEF CancelContext
<1>15. ASSUME NEW r \in Reply, NEW c \in Call, NEW v \in Verdict, Answer(r, c, v) PROVE Goal
  BY <1>15 DEF Answer
<1>16. ASSUME NEW r \in Reply, Lookup(r) PROVE Goal
  BY <1>16 DEF Lookup
<1>17. ASSUME NEW r \in Reply, Send(r) PROVE Goal
  BY <1>17 DEF Send
<1>18. ASSUME NEW r \in Reply, Persist(r) PROVE Goal
  BY <1>18 DEF Persist
<1>19. ASSUME NEW s \in Session, AutoApproveSession(s) PROVE Goal
  BY <1>19 DEF AutoApproveSession
<1>20. ASSUME NEW b \in BOOLEAN, SetSkipRequests(b) PROVE Goal
  BY <1>20 DEF SetSkipRequests
<1>21. CASE UNCHANGED vars
  BY <1>21 DEF vars, callVars, stateVars, policyVars, historyVars, replyVars
<1>. QED
  BY <1>1, <1>2, <1>3, <1>4, <1>5, <1>6, <1>7, <1>8, <1>9, <1>10, <1>11,
     <1>12, <1>13, <1>14, <1>15, <1>16, <1>17, <1>18, <1>19, <1>20,
     <1>21 DEF Next, RequestStep, ReplyStep

LEMMA AnswerStep ==
    IInv /\ TypeOK' /\ [Next]_vars => AnswerFacts' /\ YesIsAffirmed' /\ GrantsAreAnswers'
<1> DEFINE Goal == AnswerFacts' /\ YesIsAffirmed' /\ GrantsAreAnswers'
<1> SUFFICES ASSUME IInv, TypeOK', [Next]_vars PROVE Goal
  OBVIOUS
<1> USE DEF IInv, TypeOK, Verdict, replyVars, callVars, stateVars, policyVars, GotoReply, AfterSend
<1>1. CASE UNCHANGED <<replyVars, persisted, chan>>
  BY <1>1 DEF AnswerFacts, YesIsAffirmed, GrantsAreAnswers, Affirmed, Scope
<1>2. ASSUME NEW c \in Call, Receive(c) PROVE Goal
  <2>1. UNCHANGED <<replyVars, persisted>> /\ chan' = [chan EXCEPT ![c] = "empty"]
    BY <1>2 DEF Receive
  <2>. QED
    BY <2>1 DEF AnswerFacts, YesIsAffirmed, GrantsAreAnswers, Affirmed, Scope
<1>3. ASSUME NEW r \in Reply, NEW c \in Call, NEW v \in Verdict, Answer(r, c, v) PROVE Goal
  <2>1. AnswerFacts'
    BY <1>3 DEF Answer, AnswerFacts
  <2>2. \A q \in Reply : verdict[q] # "none" => verdict'[q] = verdict[q] /\ about'[q] = about[q]
    BY <1>3 DEF Answer, AnswerFacts
  <2>3. UNCHANGED <<persisted, chan>>
    BY <1>3 DEF Answer
  <2>4. YesIsAffirmed'
    BY <2>2, <2>3 DEF YesIsAffirmed, Affirmed
  <2>5. GrantsAreAnswers'
    BY <2>2, <2>3 DEF GrantsAreAnswers, Scope
  <2>. QED
    BY <2>1, <2>4, <2>5
<1>4. ASSUME NEW r \in Reply, Lookup(r) PROVE Goal
  <2>1. UNCHANGED <<persisted, chan, about, verdict>>
    BY <1>4 DEF Lookup
  <2>2. AnswerFacts'
    BY <1>4 DEF Lookup, AnswerFacts
  <2>. QED
    BY <2>1, <2>2 DEF YesIsAffirmed, GrantsAreAnswers, Affirmed, Scope
<1>5. ASSUME NEW r \in Reply, Send(r) PROVE Goal
  <2>1. UNCHANGED <<persisted, about, verdict>>
    BY <1>5 DEF Send
  <2>2. AnswerFacts'
    BY <1>5 DEF Send, AnswerFacts
  <2>3. ASSUME NEW c \in Call, chan'[c] = "yes" PROVE Affirmed(c)
    <3>1. CASE chan[c] = "yes"
      BY <3>1 DEF YesIsAffirmed
    <3>2. CASE chan[c] # "yes"
      <4>1. about[r] = c /\ verdict[r] # "deny" /\ verdict[r] # "none"
        BY <1>5, <2>3, <3>2 DEF Send, AnswerFacts
      <4>. QED
        BY <4>1 DEF Affirmed
    <3>. QED
      BY <3>1, <3>2
  <2>4. YesIsAffirmed'
    BY <2>1, <2>3 DEF YesIsAffirmed, Affirmed
  <2>5. GrantsAreAnswers'
    BY <2>1 DEF GrantsAreAnswers, Scope
  <2>. QED
    BY <2>2, <2>4, <2>5
<1>6. ASSUME NEW r \in Reply, Persist(r) PROVE Goal
  <2>1. UNCHANGED <<chan, about, verdict>> /\ persisted' = persisted \union {Scope(about[r])}
    BY <1>6 DEF Persist
  <2>2. AnswerFacts'
    BY <1>6 DEF Persist, AnswerFacts
  <2>3. verdict[r] = "persist" /\ about[r] \in Call
    BY <1>6 DEF Persist, AnswerFacts
  <2>4. GrantsAreAnswers'
    BY <2>1, <2>3 DEF GrantsAreAnswers, Scope
  <2>. QED
    BY <2>1, <2>2, <2>4 DEF YesIsAffirmed, Affirmed
<1>. HIDE DEF Goal
<1>7. \/ UNCHANGED <<replyVars, persisted, chan>>
      \/ \E c \in Call : Receive(c)
      \/ \E r \in Reply, c \in Call, v \in Verdict : Answer(r, c, v)
      \/ \E r \in Reply : Lookup(r) \/ Send(r) \/ Persist(r)
  BY DEF Next, RequestStep, ReplyStep, GrantSilently, GrantByHook, AskForTurn, Lock,
         AutoApprove, NotAutoApproved, GrantFromSession, Register, PublishRequest, GiveUp,
         Leave, Unlock, CancelContext, AutoApproveSession, SetSkipRequests, vars
<1>. QED
  BY <1>1, <1>2, <1>3, <1>4, <1>5, <1>6, <1>7

LEMMA AnnounceStep ==
    IInv /\ TypeOK' /\ [Next]_vars =>
        NotYetRequested' /\ AnswersAnnounced' /\ ValuesAnnounced' /\ OutcomeAnnounced'
<1> DEFINE Goal == NotYetRequested' /\ AnswersAnnounced' /\ ValuesAnnounced' /\ OutcomeAnnounced'
<1> SUFFICES ASSUME IInv, TypeOK', [Next]_vars PROVE Goal
  OBVIOUS
<1> USE DEF IInv, TypeOK, NotYetRequested, AnswersAnnounced, ValuesAnnounced, OutcomeAnnounced,
        Said, AnswerFacts, GotoCall, Decide, Announce, Verdict,
        callVars, stateVars, policyVars, historyVars, replyVars,
        GotoReply
<1>1. ASSUME NEW c \in Call, GrantSilently(c) PROVE Goal
  BY <1>1 DEF GrantSilently
<1>2. ASSUME NEW c \in Call, GrantByHook(c) PROVE Goal
  BY <1>2 DEF GrantByHook
<1>3. ASSUME NEW c \in Call, AskForTurn(c) PROVE Goal
  BY <1>3 DEF AskForTurn
<1>4. ASSUME NEW c \in Call, Lock(c) PROVE Goal
  BY <1>4 DEF Lock
<1>5. ASSUME NEW c \in Call, AutoApprove(c) PROVE Goal
  BY <1>5 DEF AutoApprove
<1>6. ASSUME NEW c \in Call, NotAutoApproved(c) PROVE Goal
  BY <1>6 DEF NotAutoApproved
<1>7. ASSUME NEW c \in Call, GrantFromSession(c) PROVE Goal
  BY <1>7 DEF GrantFromSession
<1>8. ASSUME NEW c \in Call, Register(c) PROVE Goal
  BY <1>8 DEF Register
<1>9. ASSUME NEW c \in Call, PublishRequest(c) PROVE Goal
  BY <1>9 DEF PublishRequest
<1>10. ASSUME NEW c \in Call, Receive(c) PROVE Goal
  BY <1>10 DEF Receive
<1>11. ASSUME NEW c \in Call, GiveUp(c) PROVE Goal
  BY <1>11 DEF GiveUp
<1>12. ASSUME NEW c \in Call, Leave(c) PROVE Goal
  BY <1>12 DEF Leave
<1>13. ASSUME NEW c \in Call, Unlock(c) PROVE Goal
  BY <1>13 DEF Unlock
<1>14. ASSUME NEW c \in Call, CancelContext(c) PROVE Goal
  BY <1>14 DEF CancelContext
<1>15. ASSUME NEW r \in Reply, NEW c \in Call, NEW v \in Verdict, Answer(r, c, v) PROVE Goal
  BY <1>15 DEF Answer
<1>16. ASSUME NEW r \in Reply, Lookup(r) PROVE Goal
  BY <1>16 DEF Lookup, AfterSend
<1>17. ASSUME NEW r \in Reply, Send(r) PROVE Goal
  BY <1>17 DEF Send, AfterSend, HasRoom
<1>18. ASSUME NEW r \in Reply, Persist(r) PROVE Goal
  BY <1>18 DEF Persist
<1>19. ASSUME NEW s \in Session, AutoApproveSession(s) PROVE Goal
  BY <1>19 DEF AutoApproveSession
<1>20. ASSUME NEW b \in BOOLEAN, SetSkipRequests(b) PROVE Goal
  BY <1>20 DEF SetSkipRequests
<1>21. CASE UNCHANGED vars
  BY <1>21 DEF vars, callVars, stateVars, policyVars, historyVars, replyVars
<1>. QED
  BY <1>1, <1>2, <1>3, <1>4, <1>5, <1>6, <1>7, <1>8, <1>9, <1>10, <1>11,
     <1>12, <1>13, <1>14, <1>15, <1>16, <1>17, <1>18, <1>19, <1>20,
     <1>21 DEF Next, RequestStep, ReplyStep

THEOREM Invariance == Spec => []IInv
<1>1. IInv /\ [Next]_vars => IInv'
  BY TypeStep, LockStep, AnswerStep, AnnounceStep DEF IInv
<1>. QED
  BY InitIInv, <1>1, PTL DEF Spec

(* The variables keep their types.                                         *)
THEOREM TypeCorrect == Spec => []TypeOK
<1>1. IInv => TypeOK
  BY DEF IInv
<1>. QED
  BY Invariance, <1>1, PTL

(* However answers, cancellations and returns interleave, at most one      *)
(* request is registered: the promise of permission.go 89.                 *)
THEOREM OneOpenRequest == Spec => []OneRequestAtATime
<1>1. IInv => OneRequestAtATime
  BY DEF IInv, TypeOK, HolderHoldsLock, RegisteredAsk, OneRequestAtATime, LockedLabels
<1>. QED
  BY Invariance, <1>1, PTL

(* No call that had to ask is granted or denied before subscribers were    *)
(* told so.                                                                *)
THEOREM OutcomesHeard == Spec => []OutcomeAnnounced
<1>1. IInv => OutcomeAnnounced
  BY DEF IInv
<1>. QED
  BY Invariance, <1>1, PTL

(* A step that grants a call has a reason that concerns this very call or  *)
(* its session.                                                            *)
THEOREM GrantsHaveReasons == Spec => NoGrantWithoutReason
<1> DEFINE Reason(c) ==
              \/ pc[c] = "idle" /\ (skip \/ c \in Allowed \union HookApproved)
              \/ SessionOf[c] \in autoApproved
              \/ Affirmed(c) \/ AllowedForSession(c)
           Rel == \A c \in Call : outcome[c] # "granted" /\ outcome'[c] = "granted" => Reason(c)
<1>1. ASSUME IInv, [Next]_vars PROVE [Rel]_vars
  <2> SUFFICES ASSUME NEW c \in Call, outcome[c] # "granted", outcome'[c] = "granted"
               PROVE  Reason(c)
    OBVIOUS
  <2> USE <1>1 DEF IInv, TypeOK, Decide
  <2>1. ASSUME NEW d \in Call, GrantSilently(d) \/ GrantByHook(d) \/ AutoApprove(d)
        PROVE  Reason(c)
    BY <2>1 DEF GrantSilently, GrantByHook, AutoApprove
  <2>2. ASSUME NEW d \in Call, GrantFromSession(d) PROVE Reason(c)
    <3>1. d = c /\ Covered(c)
      BY <2>2 DEF GrantFromSession
    <3>2. PICK p \in persisted : p.session = SessionOf[c] /\ p.key = KeyOf[c]
      BY <3>1 DEF Covered
    <3>3. p = Scope(c)
      BY <3>2 DEF Scope
    <3>. QED
      BY <3>3 DEF GrantsAreAnswers, AllowedForSession
  <2>3. ASSUME NEW d \in Call, Receive(d) PROVE Reason(c)
    <3>1. d = c /\ chan[c] = "yes"
      BY <2>3 DEF Receive
    <3>. QED
      BY <3>1 DEF YesIsAffirmed
  <2>4. \E d \in Call : \/ GrantSilently(d) \/ GrantByHook(d) \/ AutoApprove(d)
                        \/ GrantFromSession(d) \/ Receive(d)
    BY DEF Next, RequestStep, ReplyStep, AskForTurn, Lock, NotAutoApproved, Register,
           PublishRequest, GiveUp, Leave, Unlock, CancelContext, Answer, Lookup, Send,
           Persist, AutoApproveSession, SetSkipRequests, vars,
           callVars, stateVars, policyVars, historyVars, replyVars
  <2>. QED
    BY <2>1, <2>2, <2>3, <2>4
<1>. QED
  BY Invariance, <1>1, PTL DEF Spec, NoGrantWithoutReason
=============================================================================
