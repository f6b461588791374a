\* The run ends when the consumer has left and every push has been run:
\* that is a real final state of the queue, not a deadlock.
CONSTANTS
    p1 = p1
    p2 = p2
    Producers <- MCProducers
    MaxPush = 2

SPECIFICATION Spec

INVARIANT TypeOK
INVARIANT WakeupHasMessage
INVARIANT ReceivedInOrder

PROPERTY PushedIsReceived
PROPERTY StopInterrupts
PROPERTY QueueSafety
PROPERTY QueueLiveness

CHECK_DEADLOCK FALSE
