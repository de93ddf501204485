----------------------------- MODULE Permission -----------------------------
(***************************************************************************)
(* The permission service of internal/permission/permission.go: a tool     *)
(* call asks whether it may run; a switch, an allowlist, a hook, an        *)
(* auto-approved session, a grant the user made for the whole session or   *)
(* else the user answers.  Several clients may see the same question, so a *)
(* Reply is one click in one of them: it may come late, twice, or          *)
(* contradict another.                                                     *)
(*                                                                         *)
(* What a permission covers (tool, action and directory) is a Key.  The    *)
(* two brokers are reduced to what was published: announced on the         *)
(* notification broker, shown when a subscriber got the request itself.    *)
(* activeRequest is left out: the service writes it and never reads it.    *)
(***************************************************************************)
EXTENDS Naturals

CONSTANTS
    Call,           \* the tool calls that ask
    Reply,          \* the answers users give, numbered in their order
    Session, Key,   \* sessions; what is asked for: tool, action, directory
    SessionOf, KeyOf,
    Allowed,        \* calls whose tool is in allowedTools
    HookApproved,   \* calls a PreToolUse hook may have stamped
    Lossy,          \* may a subscriber's buffer be full?
    Switchable,     \* bound: do users change the approval policy meanwhile?
    NoCall          \* nil

Verdict == {"grant", "persist", "deny"}

ASSUME SessionOfType == SessionOf \in [Call -> Session]
ASSUME KeyOfType == KeyOf \in [Call -> Key]
ASSUME ReplyNumbered == Reply \subseteq Nat
ASSUME LossyBool == Lossy \in BOOLEAN
ASSUME SwitchableBool == Switchable \in BOOLEAN
ASSUME NoCallFresh == NoCall \notin Call

VARIABLES
    pc,             \* where each call is in Request
    outcome,        \* what Request returns to it
    ctxDone,        \* calls whose context is cancelled
    lock,           \* holder of requestMu, or NoCall
    pending,        \* keys of pendingRequests
    chan,           \* what the response channel of each call buffers
    persisted,      \* sessionPermissions
    autoApproved,   \* autoApproveSessions
    skip,           \* the skip switch
    announced,      \* history: what the notification broker published
    shown,          \* history: requests that reached a user
    rpc,            \* where each reply is in Grant, GrantPersistent or Deny
    about, verdict  \* the call each reply is about and what it says

callVars == <<pc, outcome, ctxDone, lock>>
stateVars == <<pending, chan>>
policyVars == <<persisted, autoApproved, skip>>
historyVars == <<announced, shown>>
replyVars == <<rpc, about, verdict>>
vars == <<callVars, stateVars, policyVars, historyVars, replyVars>>

(* What an entry of sessionPermissions is compared by.                           *)
Scope(c) == [session |-> SessionOf[c], key |-> KeyOf[c]]

(* sessionPermissions has an entry for it.                                 *)
Covered(c) ==
    \E p \in persisted : p.session = SessionOf[c] /\ p.key = KeyOf[c]

Announce(c, what) == announced' = [announced EXCEPT ![c] = @ \union {what}]
GotoCall(c, label) == pc' = [pc EXCEPT ![c] = label]
GotoReply(r, label) == rpc' = [rpc EXCEPT ![r] = label]
Decide(c, what) == outcome' = [outcome EXCEPT ![c] = what]

(* NewPermissionService: skip comes from the configuration.                *)
Init ==
    /\ pc = [c \in Call |-> "idle"]
    /\ outcome = [c \in Call |-> "none"]
    /\ ctxDone = {}
    /\ lock = NoCall
    /\ pending = {}
    /\ chan = [c \in Call |-> "empty"]
    /\ persisted = {}
    /\ autoApproved = {}
    /\ skip \in BOOLEAN
    /\ announced = [c \in Call |-> {}]
    /\ shown = {}
    /\ rpc = [r \in Reply |-> "idle"]
    /\ about = [r \in Reply |-> NoCall]
    /\ verdict = [r \in Reply |-> "none"]

-----------------------------------------------------------------------------
(* Request, before the mutex: the switch and the allowlist answer          *)
(* silently, a hook's stamp is announced.                                  *)
GrantSilently(c) ==
    /\ pc[c] = "idle"
    /\ skip \/ c \in Allowed
    /\ Decide(c, "granted")
    /\ GotoCall(c, "done")
    /\ UNCHANGED <<ctxDone, lock, stateVars, policyVars, historyVars, replyVars>>

GrantByHook(c) ==
    /\ pc[c] = "idle"
    /\ ~skip /\ c \notin Allowed
    /\ c \in HookApproved
    /\ Announce(c, "granted")
    /\ Decide(c, "granted")
    /\ GotoCall(c, "done")
    /\ UNCHANGED <<ctxDone, lock, stateVars, policyVars, shown, replyVars>>

(* No stamp: the UI learns that the call asks; it then waits its turn.     *)
AskForTurn(c) ==
    /\ pc[c] = "idle"
    /\ ~skip /\ c \notin Allowed
    /\ Announce(c, "requested")
    /\ GotoCall(c, "lock")
    /\ UNCHANGED <<outcome, ctxDone, lock, stateVars, policyVars, shown, replyVars>>

(* Lock requestMu.  Mutant: no mutual exclusion.                           *)
LockFreely(c) ==
    /\ pc[c] = "lock"
    /\ lock' = c
    /\ GotoCall(c, "auto")
    /\ UNCHANGED <<outcome, ctxDone, stateVars, policyVars, historyVars, replyVars>>

Lock(c) ==
    /\ pc[c] = "lock"
    /\ lock = NoCall
    /\ lock' = c
    /\ GotoCall(c, "auto")
    /\ UNCHANGED <<outcome, ctxDone, stateVars, policyVars, historyVars, replyVars>>

(* The session is auto-approved.                                           *)
AutoApprove(c) ==
    /\ pc[c] = "auto"
    /\ SessionOf[c] \in autoApproved
    /\ Announce(c, "granted")
    /\ Decide(c, "granted")
    /\ GotoCall(c, "unlock")
    /\ UNCHANGED <<ctxDone, lock, stateVars, policyVars, shown, replyVars>>

NotAutoApproved(c) ==
    /\ pc[c] = "auto"
    /\ SessionOf[c] \notin autoApproved
    /\ GotoCall(c, "match")
    /\ UNCHANGED <<outcome, ctxDone, lock, stateVars, policyVars, historyVars, replyVars>>

GrantFromSession(c) ==
    /\ pc[c] = "match"
    /\ Covered(c)
    /\ Announce(c, "granted")
    /\ Decide(c, "granted")
    /\ GotoCall(c, "unlock")
    /\ UNCHANGED <<ctxDone, lock, stateVars, policyVars, shown, replyVars>>

(* No grant covers it: become the active request, with a channel.  Nobody  *)
(* knows the new ID before it is published, so these are one step.         *)
Register(c) ==
    /\ pc[c] = "match"
    /\ ~Covered(c)
    /\ pending' = pending \union {c}
    /\ GotoCall(c, "publish")
    /\ UNCHANGED <<outcome, ctxDone, lock, chan, policyVars, historyVars, replyVars>>

(* The broker drops an event for which a subscriber has no room.           *)
PublishRequest(c) ==
    /\ pc[c] = "publish"
    /\ shown' = shown \union {c} \/ (Lossy /\ UNCHANGED shown)
    /\ GotoCall(c, "wait")
    /\ UNCHANGED <<outcome, ctxDone, lock, stateVars, policyVars, announced, replyVars>>

(* The select: either case may be taken when both are ready.               *)
Receive(c) ==
    /\ pc[c] = "wait"
    /\ chan[c] # "empty"
    /\ Decide(c, IF chan[c] = "yes" THEN "granted" ELSE "denied")
    /\ chan' = [chan EXCEPT ![c] = "empty"]
    /\ GotoCall(c, "leave")
    /\ UNCHANGED <<ctxDone, lock, pending, policyVars, historyVars, replyVars>>

(* Mutants: the select does not look at the context; it returns without    *)
(* the deferred Unlock.                                                    *)
NeverGiveUp(c) == FALSE
GiveUpKeepLock(c) ==
    /\ pc[c] = "wait"
    /\ c \in ctxDone
    /\ Decide(c, "cancelled")
    /\ GotoCall(c, "done")
    /\ UNCHANGED <<ctxDone, lock, stateVars, policyVars, historyVars, replyVars>>
GiveUp(c) ==
    /\ pc[c] = "wait"
    /\ c \in ctxDone
    /\ Decide(c, "cancelled")
    /\ GotoCall(c, "leave")
    /\ UNCHANGED <<ctxDone, lock, stateVars, policyVars, historyVars, replyVars>>

(* The deferred Del, then the deferred Unlock.                             *)
Leave(c) ==
    /\ pc[c] = "leave"
    /\ pending' = pending \ {c}
    /\ GotoCall(c, "unlock")
    /\ UNCHANGED <<outcome, ctxDone, lock, chan, policyVars, historyVars, replyVars>>

Unlock(c) ==
    /\ pc[c] = "unlock"
    /\ lock' = NoCall
    /\ GotoCall(c, "done")
    /\ UNCHANGED <<outcome, ctxDone, stateVars, policyVars, historyVars, replyVars>>

(* The run the call belongs to is cancelled.  Only the select looks at the *)
(* context, so before and after it there is nothing to tell apart.         *)
CancelContext(c) ==
    /\ pc[c] \in {"lock", "auto", "match", "publish", "wait"}
    /\ ctxDone' = ctxDone \union {c}
    /\ UNCHANGED <<pc, outcome, lock, stateVars, policyVars, historyVars, replyVars>>

-----------------------------------------------------------------------------
(* Grant, GrantPersistent and Deny of a request some user was shown: the   *)
(* notification goes out first.  Mutant: it does not go out.               *)
AnswerQuietly(r, c, v) ==
    /\ rpc[r] = "idle"
    /\ \A q \in Reply : q < r => rpc[q] # "idle"
    /\ c \in shown
    /\ about' = [about EXCEPT ![r] = c]
    /\ verdict' = [verdict EXCEPT ![r] = v]
    /\ GotoReply(r, "lookup")
    /\ UNCHANGED <<callVars, stateVars, policyVars, historyVars>>

Answer(r, c, v) ==
    /\ rpc[r] = "idle"
    /\ \A q \in Reply : q < r => rpc[q] # "idle"
    /\ c \in shown
    /\ about' = [about EXCEPT ![r] = c]
    /\ verdict' = [verdict EXCEPT ![r] = v]
    /\ Announce(c, IF v = "deny" THEN "denied" ELSE "granted")
    /\ GotoReply(r, "lookup")
    /\ UNCHANGED <<callVars, stateVars, policyVars, shown>>

(* Mutant: a plain grant is kept for the session as well.                  *)
AfterSendAlways(r) == IF verdict[r] # "deny" THEN "persist" ELSE "done"
AfterSend(r) == IF verdict[r] = "persist" THEN "persist" ELSE "done"

(* pendingRequests.Get: the channel, if the request has not left yet.      *)
Lookup(r) ==
    /\ rpc[r] = "lookup"
    /\ GotoReply(r, IF about[r] \in pending THEN "send" ELSE AfterSend(r))
    /\ UNCHANGED <<callVars, stateVars, policyVars, historyVars, about, verdict>>

(* The channel was made with capacity one: an answer needs an empty one.   *)
(* Mutant: unbuffered.                                                     *)
HasReceiver(c) == chan[c] = "empty" /\ pc[c] = "wait"
HasRoom(c) == chan[c] = "empty"

Send(r) ==
    LET c == about[r] IN
    /\ rpc[r] = "send"
    /\ HasRoom(c)
    /\ chan' = [chan EXCEPT ![c] = IF verdict[r] = "deny" THEN "no" ELSE "yes"]
    /\ GotoReply(r, AfterSend(r))
    /\ UNCHANGED <<callVars, pending, policyVars, historyVars, about, verdict>>

(* The grant is recorded whether or not anybody was still waiting.         *)
Persist(r) ==
    /\ rpc[r] = "persist"
    /\ persisted' = persisted \union {Scope(about[r])}
    /\ GotoReply(r, "done")
    /\ UNCHANGED <<callVars, stateVars, autoApproved, skip, historyVars, about, verdict>>

-----------------------------------------------------------------------------
AutoApproveSession(s) ==
    /\ Switchable
    /\ autoApproved' = autoApproved \union {s}
    /\ UNCHANGED <<callVars, stateVars, persisted, skip, historyVars, replyVars>>

SetSkipRequests(b) ==
    /\ Switchable
    /\ skip' = b
    /\ UNCHANGED <<callVars, stateVars, persisted, autoApproved, historyVars, replyVars>>

-----------------------------------------------------------------------------
RequestStep(c) ==
    \/ Lock(c) \/ AutoApprove(c) \/ NotAutoApproved(c)
    \/ GrantFromSession(c) \/ Register(c) \/ PublishRequest(c)
    \/ Receive(c) \/ GiveUp(c) \/ Leave(c) \/ Unlock(c)

ReplyStep(r) == Lookup(r) \/ Send(r) \/ Persist(r)

Next ==
    \/ \E c \in Call :
          \/ GrantSilently(c) \/ GrantByHook(c) \/ AskForTurn(c)
          \/ RequestStep(c) \/ CancelContext(c)
    \/ \E r \in Reply :
          \/ \E c \in Call, v \in Verdict : Answer(r, c, v)
          \/ ReplyStep(r)
    \/ \E s \in Session : AutoApproveSession(s)
    \/ \E b \in BOOLEAN : SetSkipRequests(b)

(* Goroutines that can move do; sync.Mutex does not starve a waiter for    *)
(* ever.  Nobody has to answer, to ask or to cancel.                       *)
Fairness ==
    /\ \A c \in Call : WF_vars(RequestStep(c))
    /\ \A r \in Reply : WF_vars(ReplyStep(r))

Spec == Init /\ [][Next]_vars /\ Fairness
-----------------------------------------------------------------------------
AskedLabels == {"publish", "wait", "leave"}
LockedLabels == AskedLabels \union {"auto", "match", "unlock"}

TypeOK ==
    /\ pc \in [Call -> LockedLabels \union {"idle", "lock", "done"}]
    /\ outcome \in [Call -> {"none", "granted", "denied", "cancelled"}]
    /\ ctxDone \in SUBSET Call
    /\ lock \in Call \union {NoCall}
    /\ pending \in SUBSET Call
    /\ chan \in [Call -> {"empty", "yes", "no"}]
    /\ persisted \in SUBSET [session : Session, key : Key]
    /\ autoApproved \in SUBSET Session
    /\ skip \in BOOLEAN
    /\ announced \in [Call -> SUBSET {"requested", "granted", "denied"}]
    /\ shown \in SUBSET Call
    /\ rpc \in [Reply -> {"idle", "lookup", "send", "persist", "done"}]
    /\ about \in [Reply -> Call \union {NoCall}]
    /\ verdict \in [Reply -> Verdict \union {"none"}]

(* "We only process one request at a time" (permission.go 89): never are   *)
(* two requests registered, whatever answers and cancellations come.       *)
OneRequestAtATime == \A c, d \in pending : c = d

(* A user said yes to this very call.                                      *)
Affirmed(c) == \E r \in Reply : about[r] = c /\ verdict[r] \in {"grant", "persist"}

(* A user allowed, for this session, what the call asks for.               *)
AllowedForSession(c) ==
    \E r \in Reply :
        /\ verdict[r] = "persist"
        /\ about[r] \in Call
        /\ Scope(about[r]) = Scope(c)

(* Nothing is granted without a reason of its own: late, double and        *)
(* contradicting answers to other calls, or a grant made in another        *)
(* session, never decide a call; nor does the switch or a hook once the    *)
(* call has asked.                                                         *)
NoGrantWithoutReason ==
    [][\A c \in Call : outcome[c] # "granted" /\ outcome'[c] = "granted" =>
          \/ pc[c] = "idle" /\ (skip \/ c \in Allowed \union HookApproved)
          \/ SessionOf[c] \in autoApproved
          \/ Affirmed(c) \/ AllowedForSession(c)]_vars

(* Whoever follows the notifications has heard the outcome of a call that  *)
(* had to ask before the tool can act on it.                               *)
OutcomeAnnounced ==
    \A c \in Call :
        /\ "requested" \in announced[c]
        /\ outcome[c] \in {"granted", "denied"}
        => outcome[c] \in announced[c]

(* A request whose answer has arrived, or whose run is cancelled, returns. *)
SettledReturns ==
    \A c \in Call :
        pc[c] = "wait" /\ (chan[c] # "empty" \/ c \in ctxDone) ~> pc[c] = "done"

(* As long as no user leaves a question open for ever, every call that     *)
(* asks gets its turn and returns.                                         *)
EveryoneGetsATurn ==
    (\A d \in Call : pc[d] = "wait" ~> pc[d] # "wait")
        => (\A c \in Call : pc[c] = "lock" ~> pc[c] = "done")

(* An answer returns to the client that gave it, unless the same request   *)
(* got another answer and was cancelled as well.  (With more than two      *)
(* answers to one request the cancellation is not even needed.)            *)
Contested(r) ==
    \E q \in Reply \ {r} : about[q] = about[r] /\ about[r] \in ctxDone

ReplyReturns ==
    \A r \in Reply : rpc[r] = "lookup" ~> rpc[r] = "done" \/ Contested(r)
=============================================================================
