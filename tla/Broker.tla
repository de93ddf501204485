------------------------------- MODULE Broker -------------------------------
(***************************************************************************)
(* The event broker of internal/pubsub/broker.go, which every service      *)
(* publishes through: publishers hand an event to one subscriber after the *)
(* other, subscribers come and leave with their contexts, and Shutdown     *)
(* closes what is left.  Sending on a closed channel and closing one twice *)
(* would end the process.                                                  *)
(*                                                                         *)
(* mu is a read-write lock: publishers read, everybody else writes.  What  *)
(* happens under the write lock is one action, guarded by Unlocked; only   *)
(* done is touched outside it.  Of a channel only the number of events in  *)
(* it matters.                                                             *)
(***************************************************************************)
EXTENDS Naturals, FiniteSets

CONSTANTS
    Subscriber,     \* calls of Subscribe
    Publisher,      \* goroutines that publish
    Closer,         \* calls of Shutdown
    BufferSize,     \* capacity of a subscriber's channel
    MaxEvents       \* bound: events of one publisher

ASSUME BufferSizeNat == BufferSize \in Nat
ASSUME MaxEventsNat == MaxEvents \in Nat
ASSUME SubscribersFinite == IsFiniteSet(Subscriber)

VARIABLES
    done,       \* the channel done is closed
    subs,       \* the map of subscribers' channels
    subCount,
    closes,     \* how often each subscriber's channel was closed
    buffer,     \* how many events it holds
    sub,        \* out, in (with the goroutine that waits for ctx) or left
    cancelled,  \* subscribers whose context is cancelled
    todo,       \* subscribers a publisher has yet to serve
    sending,    \* publishers that hold the read lock
    published,  \* events begun by each publisher
    closer      \* where each call of Shutdown is

brokerVars ==
    <<done, subs, subCount, closes, buffer, sub, cancelled, todo, sending,
      published, closer>>

subscription == <<sub, cancelled>>
publication == <<todo, sending, published>>
closing == <<done, closer>>

(* Nobody holds the read lock; a write lock is held within one action.     *)
Unlocked == sending = {}

BrokerInit ==
    /\ done = FALSE
    /\ subs = {} /\ subCount = 0
    /\ closes = [s \in Subscriber |-> 0]
    /\ buffer = [s \in Subscriber |-> 0]
    /\ sub = [s \in Subscriber |-> "out"]
    /\ cancelled = {}
    /\ todo = [p \in Publisher |-> {}]
    /\ sending = {}
    /\ published = [p \in Publisher |-> 0]
    /\ closer = [k \in Closer |-> "start"]

-----------------------------------------------------------------------------
(* Subscribers.                                                            *)

(* After Shutdown the subscriber gets a channel that is closed already.    *)
SubscribeLate(s) ==
    /\ Unlocked /\ done /\ sub[s] = "out"
    /\ sub' = [sub EXCEPT ![s] = "left"]
    /\ closes' = [closes EXCEPT ![s] = @ + 1]
    /\ UNCHANGED <<subs, subCount, buffer, cancelled>>
    /\ UNCHANGED publication /\ UNCHANGED closing

Subscribe(s) ==
    /\ Unlocked /\ ~done /\ sub[s] = "out"
    /\ subs' = subs \union {s}
    /\ subCount' = subCount + 1
    /\ sub' = [sub EXCEPT ![s] = "in"]
    /\ UNCHANGED <<closes, buffer, cancelled>>
    /\ UNCHANGED publication /\ UNCHANGED closing

Cancel(s) ==
    /\ sub[s] = "in" /\ s \notin cancelled
    /\ cancelled' = cancelled \union {s}
    /\ UNCHANGED <<subs, subCount, closes, buffer, sub>>
    /\ UNCHANGED publication /\ UNCHANGED closing

(* Mutant: it closes the channel before it looks at done.                  *)
LeaveCloses(s) ==
    /\ Unlocked /\ sub[s] = "in" /\ s \in cancelled
    /\ sub' = [sub EXCEPT ![s] = "left"]
    /\ closes' = [closes EXCEPT ![s] = @ + 1]
    /\ IF done THEN UNCHANGED <<subs, subCount>>
               ELSE subs' = subs \ {s} /\ subCount' = subCount - 1
    /\ UNCHANGED <<buffer, cancelled>>
    /\ UNCHANGED publication /\ UNCHANGED closing

(* The goroutine that waits for the context: after Shutdown it leaves the  *)
(* channel alone.                                                          *)
Leave(s) ==
    /\ Unlocked /\ sub[s] = "in" /\ s \in cancelled
    /\ sub' = [sub EXCEPT ![s] = "left"]
    /\ IF done
       THEN UNCHANGED <<subs, subCount, closes>>
       ELSE /\ subs' = subs \ {s}
            /\ closes' = [closes EXCEPT ![s] = @ + 1]
            /\ subCount' = subCount - 1
    /\ UNCHANGED <<buffer, cancelled>>
    /\ UNCHANGED publication /\ UNCHANGED closing

(* The reader takes an event.                                              *)
Receive(s) ==
    /\ buffer[s] > 0
    /\ buffer' = [buffer EXCEPT ![s] = @ - 1]
    /\ UNCHANGED <<subs, subCount, closes>> /\ UNCHANGED subscription
    /\ UNCHANGED publication /\ UNCHANGED closing

-----------------------------------------------------------------------------
(* Publishers.                                                             *)

(* Publish takes the read lock and looks at done once; after Shutdown it   *)
(* does nothing.                                                           *)
BeginPublish(p) ==
    /\ p \notin sending /\ ~done /\ published[p] < MaxEvents
    /\ sending' = sending \union {p}
    /\ todo' = [todo EXCEPT ![p] = subs]
    /\ published' = [published EXCEPT ![p] = @ + 1]
    /\ UNCHANGED <<subs, subCount, closes, buffer>>
    /\ UNCHANGED subscription /\ UNCHANGED closing

(* A subscriber whose channel is full misses the event.                    *)
Send(p, s) ==
    /\ p \in sending /\ s \in todo[p]
    /\ todo' = [todo EXCEPT ![p] = @ \ {s}]
    /\ buffer' = [buffer EXCEPT ![s] = IF @ < BufferSize THEN @ + 1 ELSE @]
    /\ UNCHANGED <<subs, subCount, closes, sending, published>>
    /\ UNCHANGED subscription /\ UNCHANGED closing

EndPublish(p) ==
    /\ p \in sending /\ todo[p] = {}
    /\ sending' = sending \ {p}
    /\ UNCHANGED <<subs, subCount, closes, buffer, todo, published>>
    /\ UNCHANGED subscription /\ UNCHANGED closing

-----------------------------------------------------------------------------
(* Shutdown.                                                               *)

AlreadyClosed(k) ==
    /\ closer[k] = "start" /\ done
    /\ closer' = [closer EXCEPT ![k] = "end"]
    /\ UNCHANGED <<done, subs, subCount, closes, buffer>>
    /\ UNCHANGED subscription /\ UNCHANGED publication

(* The look at done and its closing are two steps ...                      *)
SeeOpen(k) ==
    /\ closer[k] = "start" /\ ~done
    /\ closer' = [closer EXCEPT ![k] = "close"]
    /\ UNCHANGED <<done, subs, subCount, closes, buffer>>
    /\ UNCHANGED subscription /\ UNCHANGED publication

(* ... and it is closed before the lock is taken.  The second of two calls *)
(* that both saw it open closes it again, which ends the process.          *)
CloseDone(k) ==
    /\ closer[k] = "close"
    /\ done' = TRUE
    /\ closer' = [closer EXCEPT ![k] = IF done THEN "panic" ELSE "lock"]
    /\ UNCHANGED <<subs, subCount, closes, buffer>>
    /\ UNCHANGED subscription /\ UNCHANGED publication

ClosedNow == [s \in Subscriber |-> IF s \in subs THEN closes[s] + 1 ELSE closes[s]]

(* Mutant: it drops the channels without closing them.                     *)
DropAll(k) ==
    /\ Unlocked /\ closer[k] = "lock"
    /\ subs' = {} /\ subCount' = 0
    /\ closer' = [closer EXCEPT ![k] = "end"]
    /\ UNCHANGED <<done, closes, buffer>>
    /\ UNCHANGED subscription /\ UNCHANGED publication

CloseAll(k) ==
    /\ Unlocked /\ closer[k] = "lock"
    /\ subs' = {} /\ subCount' = 0
    /\ closes' = ClosedNow
    /\ closer' = [closer EXCEPT ![k] = "end"]
    /\ UNCHANGED <<done, buffer>>
    /\ UNCHANGED subscription /\ UNCHANGED publication

PublishStep(p) ==
    BeginPublish(p) \/ EndPublish(p) \/ \E s \in Subscriber : Send(p, s)

CloseStep(k) ==
    AlreadyClosed(k) \/ SeeOpen(k) \/ CloseDone(k) \/ CloseAll(k)

Panicked == \E k \in Closer : closer[k] = "panic"

BrokerNext ==
    /\ ~Panicked
    /\ \/ \E s \in Subscriber :
             SubscribeLate(s) \/ Subscribe(s) \/ Cancel(s) \/ Leave(s) \/ Receive(s)
       \/ \E p \in Publisher : PublishStep(p)
       \/ \E k \in Closer : CloseStep(k)

(* Publish never waits, so it comes to its end.  A writer that waits for   *)
(* sync.RWMutex keeps new readers out, hence gets it however busy the      *)
(* publishers are.  Nothing obliges anybody to publish, to cancel, to read *)
(* or to shut down.                                                        *)
BrokerFairness ==
    /\ \A p \in Publisher :
          WF_brokerVars(~Panicked /\ (EndPublish(p) \/ \E s \in Subscriber : Send(p, s)))
    /\ \A s \in Subscriber : SF_brokerVars(~Panicked /\ Leave(s))
    /\ \A k \in Closer :
          /\ WF_brokerVars(~Panicked /\ CloseDone(k))
          /\ SF_brokerVars(~Panicked /\ CloseAll(k))

BrokerSpec == BrokerInit /\ [][BrokerNext]_brokerVars /\ BrokerFairness

-----------------------------------------------------------------------------
(* Properties.                                                             *)

(* The variables keep their types, and a channel its capacity.             *)
BrokerTypeOK ==
    /\ done \in BOOLEAN
    /\ subs \subseteq Subscriber
    /\ subCount \in Nat
    /\ closes \in [Subscriber -> Nat]
    /\ buffer \in [Subscriber -> 0 .. BufferSize]
    /\ sub \in [Subscriber -> {"out", "in", "left"}]
    /\ cancelled \subseteq Subscriber
    /\ todo \in [Publisher -> SUBSET Subscriber]
    /\ sending \subseteq Publisher
    /\ published \in [Publisher -> 0 .. MaxEvents]
    /\ closer \in [Closer -> {"start", "close", "lock", "end", "panic"}]

(* No event is sent on a closed channel, and none is closed twice, however *)
(* a context's end, Shutdown and publishers meet: either ends the process. *)
NoSendOnClosed ==
    \A p \in sending : \A s \in todo[p] : closes[s] = 0

NoDoubleClose == \A s \in Subscriber : closes[s] <= 1

(* Both together.                                                          *)
ChannelsAreSafe == NoSendOnClosed /\ NoDoubleClose

(* subCount, which is kept apart from the map, is its size.                *)
CountIsSize == subCount = Cardinality(subs)

(* A subscriber whose context ends, or whom a Shutdown finds, sees its     *)
(* channel close: nobody is left reading for ever.  Two calls of Shutdown  *)
(* that see done open may end the process first.                           *)
ReadersAreReleased ==
    \A s \in Subscriber :
        sub[s] = "in" /\ (s \in cancelled \/ done) ~> closes[s] > 0 \/ Panicked
=============================================================================
