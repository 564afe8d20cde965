------------------------------ MODULE MCHitlHub ------------------------------
(* Instances of HitlHub for TLC: the sets of calls and of verdicts the runs   *)
(* choose from.                                                               *)
EXTENDS HubRefinement, TLC

CONSTANTS key1, key2, alice, bob

MCKeys == {key1, key2, EmptyKey}
MCPubkeys == {alice, bob}

In(key, owner, custodial, conflict, details, timeout) ==
    [valid |-> TRUE, key |-> key, owner |-> owner, custodial |-> custodial,
     conflict |-> conflict, details |-> details, timeout |-> timeout]

(* Retries of one key, with and without an owner known at the call, a second  *)
(* key, no key, the empty key, and a call the validator refuses.              *)
RetryInputs ==
    {In(key1, alice, NoOwner, FALSE, TRUE, 0), In(key1, NoOwner, bob, FALSE, TRUE, 1),
     In(key2, NoOwner, NoOwner, FALSE, FALSE, 0),
     In(NoKey, alice, NoOwner, FALSE, FALSE, 0), In(EmptyKey, alice, NoOwner, FALSE, FALSE, 0),
     [In(NoKey, alice, NoOwner, FALSE, FALSE, 0) EXCEPT !.valid = FALSE]}

(* A conflict of alice's that expires at once, and a bare request of bob's.   *)
ResolveInputs ==
    {In(key1, alice, NoOwner, TRUE, TRUE, 0), In(NoKey, bob, NoOwner, FALSE, FALSE, 1)}

(* A conflict that expires, and one whose deadline is beyond the clock.       *)
LiveInputs ==
    {In(key1, alice, NoOwner, TRUE, TRUE, 0), In(key1, alice, NoOwner, TRUE, TRUE, MaxTime)}

Direct(q, approved, response) ==
    [via |-> "direct", target |-> q, signer |-> NoOwner,
     approved |-> approved, response |-> response]
Answer(q, signer, approved) ==
    [via |-> "nostr", target |-> q, signer |-> signer,
     approved |-> approved, response |-> TRUE]

(* alice approves or rejects; the direct route rejects or approves without a  *)
(* response; bob tries too.                                                   *)
FewVerdicts ==
    UNION {{Direct(q, FALSE, FALSE), Direct(q, TRUE, FALSE),
            Answer(q, alice, TRUE), Answer(q, bob, FALSE)} : q \in Requests}

NoVerdicts == {}

RequestSymmetry == Permutations(Requests) \cup Permutations(Decisions)
=============================================================================
