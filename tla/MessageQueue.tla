---------------------------- MODULE MessageQueue ----------------------------
(***************************************************************************)
(* CryptoNote::MessageQueue<MessageType> (src/CryptoNoteCore/MessageQueue.h)*)
(* together with the MesageQueueGuard that registers it with a publisher.  *)
(*                                                                         *)
(* Publishers call push() from any thread; push() does not touch the queue *)
(* but posts a closure with Dispatcher::remoteSpawn.  The dispatcher thread *)
(* later runs the closures, in posting order, one at a time: each appends   *)
(* its message to the std::queue and sets the System::Event.  One consumer  *)
(* fiber on the same dispatcher calls front() and pop() alternately; both   *)
(* go through wait(), which suspends on the event while the queue is empty  *)
(* and throws InterruptedException once stop() has been called.  The        *)
(* dispatcher is cooperative, so the consumer's code between two           *)
(* suspension points is one atomic step.                                   *)
(***************************************************************************)
EXTENDS Naturals, Sequences, FiniteSets

CONSTANTS
    Producers,   \* threads that call push() (publishers broadcasting to this queue)
    MaxPush      \* bound on the number of push() calls of one producer

ASSUME ConstantsAssumption ==
    /\ Producers # {}
    /\ MaxPush \in Nat \ {0}

(* A message is identified by its producer and its rank among that         *)
(* producer's pushes; the payload itself is irrelevant to the queue.       *)
Msg == [from : Producers, seq : 1..MaxPush]

(* What std::queue::front() yields on an empty queue: undefined behaviour, *)
(* modelled as a value that is no message at all.                           *)
Garbage == [from |-> "none", seq |-> 0]

VARIABLES
    spawned,       \* closures posted by push() and not yet run by the dispatcher
    messageQueue,  \* the std::queue<MessageType> member
    event,         \* the System::Event member: TRUE when set
    stopped,       \* the stopped member
    pc,            \* consumer fiber: "call", "waiting", "interrupted", "exited"
    op,            \* the consumer's next call: "front" or "pop"
    received,      \* the values front() has returned to the consumer, in order
    sent,          \* number of push() calls made by each producer
    registered,    \* the queue is in the publisher's list (guard constructed)
    alive          \* the MessageQueue object has not been destroyed

vars == <<spawned, messageQueue, event, stopped, pc, op, received, sent,
          registered, alive>>

-----------------------------------------------------------------------------
(* Constructor (lines 70-73) and MesageQueueGuard constructor (56-59): the *)
(* queue is empty, not stopped, its event clear, and it is registered.     *)
Init ==
    /\ spawned = <<>>
    /\ messageQueue = <<>>
    /\ event = FALSE
    /\ stopped = FALSE
    /\ pc = "call"
    /\ op = "front"
    /\ received = <<>>
    /\ sent = [p \in Producers |-> 0]
    /\ registered = TRUE
    /\ alive = TRUE

(* Variant of push: the message records the count before the increment.  *)
pushStaleSeq(p) ==
    /\ registered
    /\ sent[p] < MaxPush
    /\ sent' = [sent EXCEPT ![p] = @ + 1]
    /\ spawned' = Append(spawned, [from |-> p, seq |-> sent[p]])
    /\ UNCHANGED <<messageQueue, event, stopped, pc, op, received, registered, alive>>

(* push(message) from producer p (lines 102-107): the publisher pushes to  *)
(* the queues in its list; push() only posts a closure capturing the       *)
(* message by value and `this'.                                            *)
push(p) ==
    /\ registered
    /\ sent[p] < MaxPush
    /\ sent' = [sent EXCEPT ![p] = @ + 1]
    /\ spawned' = Append(spawned, [from |-> p, seq |-> sent[p] + 1])
    /\ UNCHANGED <<messageQueue, event, stopped, pc, op, received, registered, alive>>

(* Variant of the push closure that appends but forgets event.set().      *)
RunSpawnedNoSet ==
    /\ spawned # <<>>
    /\ messageQueue' = Append(messageQueue, Head(spawned))
    /\ spawned' = Tail(spawned)
    /\ UNCHANGED <<event, stopped, pc, op, received, sent, registered, alive>>

(* Variant of the dispatcher that runs the newest posted closure first.  *)
RunSpawnedLifo ==
    /\ spawned # <<>>
    /\ messageQueue' = Append(messageQueue, spawned[Len(spawned)])
    /\ event' = TRUE
    /\ spawned' = SubSeq(spawned, 1, Len(spawned) - 1)
    /\ UNCHANGED <<stopped, pc, op, received, sent, registered, alive>>

(* The dispatcher runs the oldest posted closure (lines 103-106): append   *)
(* the message, then set the event.  It runs whether or not the queue      *)
(* object still exists.                                                    *)
RunSpawned ==
    /\ spawned # <<>>
    /\ messageQueue' = Append(messageQueue, Head(spawned))
    /\ event' = TRUE
    /\ spawned' = Tail(spawned)
    /\ UNCHANGED <<stopped, pc, op, received, sent, registered, alive>>

(* Variant of stop() that raises the flag without setting the event.      *)
stopNoSet ==
    /\ alive
    /\ ~stopped
    /\ stopped' = TRUE
    /\ UNCHANGED <<spawned, messageQueue, event, pc, op, received, sent, registered, alive>>

(* stop() (lines 109-112), called on the dispatcher thread.  A second call *)
(* changes nothing: once stopped, the consumer never clears the event.     *)
stop ==
    /\ alive
    /\ ~stopped
    /\ stopped' = TRUE
    /\ event' = TRUE
    /\ UNCHANGED <<spawned, messageQueue, pc, op, received, sent, registered, alive>>

(* The container operation that follows a return from wait(): front()      *)
(* (line 94) reads the head, pop() (line 99) removes it.                   *)
FrontValue == IF messageQueue = <<>> THEN Garbage ELSE Head(messageQueue)

Access ==
    /\ pc' = "call"
    /\ \/ /\ op = "front"
          /\ received' = Append(received, FrontValue)
          /\ op' = "pop"
          /\ UNCHANGED messageQueue
       \/ /\ op = "pop"
          /\ messageQueue' = SubSeq(messageQueue, 2, Len(messageQueue))
          /\ op' = "front"
          /\ UNCHANGED received

(* Variant of wait() without the event.clear() before the wait loop.      *)
CallWaitNoClear ==
    /\ pc = "call"
    /\ \/ /\ messageQueue # <<>>
          /\ Access
          /\ UNCHANGED event
       \/ /\ messageQueue = <<>>
          /\ stopped
          /\ pc' = "interrupted"
          /\ UNCHANGED <<messageQueue, event, op, received>>
       \/ /\ messageQueue = <<>>
          /\ ~stopped
          /\ pc' = "waiting"
          /\ UNCHANGED <<messageQueue, event, op, received>>
    /\ UNCHANGED <<spawned, stopped, sent, registered, alive>>

(* Variant of wait() without the `if (messageQueue.empty())' test: it     *)
(* always clears the event and suspends, unless stopped.                  *)
CallWaitAlwaysWaits ==
    /\ pc = "call"
    /\ \/ /\ stopped
          /\ pc' = "interrupted"
          /\ UNCHANGED <<messageQueue, event, op, received>>
       \/ /\ ~stopped
          /\ event' = FALSE
          /\ pc' = "waiting"
          /\ UNCHANGED <<messageQueue, op, received>>
    /\ UNCHANGED <<spawned, stopped, sent, registered, alive>>

(* The consumer calls front() or pop() and runs wait() up to its first     *)
(* suspension (lines 75-83, 92-93, 97-98): a non-empty queue returns at    *)
(* once; an empty stopped queue throws; otherwise the event is cleared and *)
(* the fiber suspends in event.wait().                                     *)
CallWait ==
    /\ pc = "call"
    /\ \/ /\ messageQueue # <<>>
          /\ Access
          /\ UNCHANGED event
       \/ /\ messageQueue = <<>>
          /\ stopped
          /\ pc' = "interrupted"
          /\ UNCHANGED <<messageQueue, event, op, received>>
       \/ /\ messageQueue = <<>>
          /\ ~stopped
          /\ event' = FALSE
          /\ pc' = "waiting"
          /\ UNCHANGED <<messageQueue, op, received>>
    /\ UNCHANGED <<spawned, stopped, sent, registered, alive>>

(* Variant of wait() without the stopped test after event.wait().        *)
WaitWakeNoStopCheck ==
    /\ pc = "waiting"
    /\ event
    /\ Access
    /\ UNCHANGED <<spawned, event, stopped, sent, registered, alive>>

(* event.wait() returns once the event is set (lines 83-88); the fiber     *)
(* throws if stopped, else the loop test event.get() holds and wait()      *)
(* returns to front() or pop().                                            *)
WaitWake ==
    /\ pc = "waiting"
    /\ event
    /\ \/ /\ stopped
          /\ pc' = "interrupted"
          /\ UNCHANGED <<messageQueue, op, received>>
       \/ /\ ~stopped
          /\ Access
    /\ UNCHANGED <<spawned, event, stopped, sent, registered, alive>>

(* InterruptedException unwinds the consumer's scope: ~MesageQueueGuard    *)
(* removes the queue from the publisher (lines 61-63), then the queue      *)
(* object itself is destroyed.                                             *)
GuardRelease ==
    /\ pc = "interrupted"
    /\ registered' = FALSE
    /\ alive' = FALSE
    /\ pc' = "exited"
    /\ UNCHANGED <<spawned, messageQueue, event, stopped, op, received, sent>>

Next ==
    \/ \E p \in Producers : push(p)
    \/ RunSpawned
    \/ stop
    \/ CallWait
    \/ WaitWake
    \/ GuardRelease

(* The dispatcher eventually runs every posted closure and resumes every   *)
(* ready fiber, and the consumer loops on front()/pop() while it runs.     *)
(* Producers and stop() are the environment: nothing forces them.          *)
Fairness ==
    /\ WF_vars(RunSpawned)
    /\ WF_vars(CallWait)
    /\ WF_vars(WaitWake)

Spec == Init /\ [][Next]_vars /\ Fairness

-----------------------------------------------------------------------------
TypeOK ==
    /\ spawned \in Seq(Msg)
    /\ messageQueue \in Seq(Msg)
    /\ event \in BOOLEAN
    /\ stopped \in BOOLEAN
    /\ pc \in {"call", "waiting", "interrupted", "exited"}
    /\ op \in {"front", "pop"}
    /\ received \in Seq(Msg \cup {Garbage})
    /\ sent \in [Producers -> 0..MaxPush]
    /\ registered \in BOOLEAN
    /\ alive \in BOOLEAN

(* When the consumer can leave event.wait() without throwing, a message is *)
(* in the queue: the event.clear() before the wait loop and the stopped    *)
(* test after it mean that wait() never returns to front() or pop() on an  *)
(* empty std::queue.                                                       *)
WakeupHasMessage ==
    (pc = "waiting" /\ event /\ ~stopped) => messageQueue # <<>>

(* The number of messages of producer p among the first i of s.           *)
CountFrom(s, i, p) == Cardinality({j \in 1..i : s[j].from = p})

(* Messages of one producer reach the consumer through front() in the     *)
(* order that producer pushed them, none lost before a later one and none *)
(* twice: the message front() returns k-th among p's is p's k-th push.    *)
(* And front() never returns a value that was not pushed.  remoteSpawn     *)
(* keeps posting order, and wait() only returns on a non-empty queue.      *)
ReceivedInOrder ==
    \A i \in DOMAIN received :
        /\ received[i] # Garbage
        /\ received[i].seq = CountFrom(received, i, received[i].from)

(* A message pushed while the queue is registered is eventually returned  *)
(* by front(), unless the consumer was interrupted by stop(): the closure  *)
(* sets the event, so a consumer suspended on an empty queue wakes up.     *)
PushedIsReceived ==
    \A p \in Producers, k \in 1..MaxPush :
        (sent[p] >= k) ~>
            (\/ \E i \in DOMAIN received : received[i] = [from |-> p, seq |-> k]
             \/ pc \in {"interrupted", "exited"})

(* After stop() the consumer eventually leaves wait() with                 *)
(* InterruptedException, even if nothing more is ever pushed: stop() sets  *)
(* the event as well as the flag.                                          *)
StopInterrupts ==
    stopped ~> (pc \in {"interrupted", "exited"})

(* A closure posted by push() never runs after the queue object has been   *)
(* destroyed: the guard's destructor must not let the queue go while the   *)
(* dispatcher still holds a closure that captured it.                      *)
NoSpawnAfterDestroy ==
    ~alive => spawned = <<>>

-----------------------------------------------------------------------------
(* Refinement.  The channel's pending messages are the closures not yet    *)
(* run behind the queue's contents, less the head once front() has        *)
(* returned it and pop() has not yet removed it; the subscriber is open    *)
(* while the guard keeps the queue registered.                             *)
pendingBar ==
    IF op = "pop" THEN Tail(messageQueue) \o spawned ELSE messageQueue \o spawned

Channel == INSTANCE MessageChannel
    WITH pending <- pendingBar, open <- registered

(* The queue implements the channel's safety: push(), the dispatcher, stop() *)
(* and the consumer's front()/pop()/wait() only ever put a message at the   *)
(* end, take the oldest one once, stop, or leave after a stop.              *)
QueueSafety == Channel!SafetySpec

(* The queue implements the channel's liveness: until stop() a message     *)
(* pushed is eventually returned by front(), whatever the interleaving of  *)
(* closures and the consumer's suspensions.                                *)
QueueLiveness == Channel!Liveness
=============================================================================
