------------------------------- MODULE MCInbox -------------------------------
(* Instances of Inbox for TLC: requests nobody owns, so that none is          *)
(* published, with a deadline on the clock and beyond it.                     *)
EXTENDS Inbox, TLC

CONSTANT key1

MCKeys == {key1, EmptyKey}

In(key, timeout) ==
    [valid |-> TRUE, key |-> key, owner |-> NoOwner, custodial |-> NoOwner,
     conflict |-> FALSE, details |-> TRUE, timeout |-> timeout]

InboxInputs == {In(key1, 1), In(NoKey, MaxTime + 1)}

InboxVerdicts ==
    {[via |-> "direct", target |-> q, signer |-> NoOwner, approved |-> TRUE,
      response |-> FALSE] : q \in Requests}

InboxSymmetry == Permutations(Requests)
=============================================================================
