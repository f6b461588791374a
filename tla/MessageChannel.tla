--------------------------- MODULE MessageChannel ---------------------------
(***************************************************************************)
(* What a MessageQueue promises its subscriber, without the dispatcher,    *)
(* the event or the front()/pop() pairing: a FIFO channel into which       *)
(* producers put messages while the subscriber is registered, from which  *)
(* the subscriber takes them one at a time, and which can be stopped and   *)
(* then left.  Each message is taken at most once, in the order it was put. *)
(***************************************************************************)
EXTENDS Naturals, Sequences

CONSTANTS
    Producers,   \* the publishers broadcasting to this subscriber
    MaxPush      \* bound on the messages one producer puts

Msg == [from : Producers, seq : 1..MaxPush]

VARIABLES
    pending,     \* messages put and not yet taken, oldest first
    received,    \* messages taken by the subscriber, in order
    sent,        \* number of messages each producer has put
    stopped,     \* the channel has been stopped
    open         \* the subscriber is registered

cvars == <<pending, received, sent, stopped, open>>

CInit ==
    /\ pending = <<>>
    /\ received = <<>>
    /\ sent = [p \in Producers |-> 0]
    /\ stopped = FALSE
    /\ open = TRUE

Put(p) ==
    /\ open
    /\ sent[p] < MaxPush
    /\ sent' = [sent EXCEPT ![p] = @ + 1]
    /\ pending' = Append(pending, [from |-> p, seq |-> sent[p] + 1])
    /\ UNCHANGED <<received, stopped, open>>

Take ==
    /\ open
    /\ pending # <<>>
    /\ received' = Append(received, Head(pending))
    /\ pending' = Tail(pending)
    /\ UNCHANGED <<sent, stopped, open>>

Stop ==
    /\ ~stopped
    /\ stopped' = TRUE
    /\ UNCHANGED <<pending, received, sent, open>>

(* The subscriber leaves only once the channel is stopped; what is still   *)
(* pending is never taken.                                                 *)
Leave ==
    /\ stopped
    /\ open
    /\ open' = FALSE
    /\ UNCHANGED <<pending, received, sent, stopped>>

CNext == (\E p \in Producers : Put(p)) \/ Take \/ Stop \/ Leave

(* The safety part: every step is a Put, a Take, a Stop or a Leave.        *)
SafetySpec == CInit /\ [][CNext]_cvars

(* Until the channel is stopped, a pending message is eventually taken.    *)
Liveness == WF_cvars(Take /\ ~stopped)

CSpec == SafetySpec /\ Liveness
=============================================================================
