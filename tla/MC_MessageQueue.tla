-------------------------- MODULE MC_MessageQueue --------------------------
(* Two publisher threads pushing two messages each to one consumer.         *)
EXTENDS MessageQueue

CONSTANTS p1, p2

MCProducers == {p1, p2}
=============================================================================
