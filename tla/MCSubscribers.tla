---------------------------- MODULE MCSubscribers ----------------------------
EXTENDS Subscribers

\* The visitor's address is the one of the member's account.
MCAccountAddress == [u \in Members |-> "a1"]
MCKindOf == [e \in Events |-> "incidents"]
=============================================================================
