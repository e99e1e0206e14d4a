------------------------------ MODULE MCBroker ------------------------------
\* Broker for TLC: messages, and topics, are interchangeable.
EXTENDS Broker, TLC

Symmetry == Permutations(Messages) \cup Permutations(Topics)
=============================================================================
