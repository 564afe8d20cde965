------------------------------- MODULE MCWatch -------------------------------
(* Instances of Watch for TLC.                                                *)
EXTENDS Watch, TLC

CONSTANTS key1, alice

MCKeys == {key1, EmptyKey}
MCPubkeys == {alice}

(* A request with details that expires at once.                              *)
MCInputs == {[valid |-> TRUE, key |-> NoKey, owner |-> alice, custodial |-> NoOwner,
              conflict |-> FALSE, details |-> TRUE, timeout |-> 0]}

(* Over REST: approve without a response, reject.                             *)
MCVerdicts == {[via |-> "direct", target |-> q, signer |-> NoOwner,
                approved |-> b, response |-> FALSE] : q \in Requests, b \in BOOLEAN}

Wait(q, poll, max) == [op |-> "wait", id |-> q, poll |-> poll, max |-> max]

(* A wait of one tick that polls as often as it can (so its sleeps may end at *)
(* any time), one that polls once a tick, one that does not wait, and a check. *)
MCQuestions ==
    UNION {{Wait(q, 0, 1), Wait(q, 1, 1), Wait(q, 0, 0), [Wait(q, 0, 0) EXCEPT !.op = "check"]}
           : q \in Requests}
=============================================================================
