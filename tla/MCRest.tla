-------------------------------- MODULE MCRest --------------------------------
(* Instances of Rest for TLC.                                                 *)
EXTENDS Rest, TLC

CONSTANTS key1, alice

MCKeys == {key1, EmptyKey}
MCPubkeys == {alice}

In(key, owner, timeout) ==
    [valid |-> TRUE, key |-> key, owner |-> owner, custodial |-> NoOwner,
     conflict |-> FALSE, details |-> TRUE, timeout |-> timeout]

Good == [token |-> TRUE, json |-> TRUE, complete |-> TRUE]

(* Every way to be refused, once, and a request with a key and no timeout.    *)
MCBodies == {[envelope |-> Good, in |-> In(key1, NoOwner, 0)]}
            \cup {[envelope |-> e, in |-> In(key1, NoOwner, 0)] :
                     e \in {[Good EXCEPT !.token = FALSE], [Good EXCEPT !.complete = FALSE]}}

MCResolutions ==
    {[envelope |-> Good, target |-> q, approved |-> a, response |-> FALSE] :
        q \in Requests, a \in {"true", "truthy"}}
    \cup {[envelope |-> e, target |-> NoRequest, approved |-> "no", response |-> FALSE] :
              e \in {[Good EXCEPT !.json = FALSE], [Good EXCEPT !.complete = FALSE]}}

(* The MCP tool may also ask for no time at all, for an owner, or be refused. *)
MCInputs == {In(key1, NoOwner, DefaultTimeout), In(key1, alice, 0),
             [In(key1, alice, 0) EXCEPT !.valid = FALSE]}

(* alice rejects by kind:10021.                                               *)
MCVerdicts == {ToVerdict(b) : b \in MCResolutions}
              \cup {[via |-> "nostr", target |-> q, signer |-> alice,
                     approved |-> FALSE, response |-> TRUE] : q \in Requests}

RestSymmetry == Permutations(Requests) \cup Permutations(Decisions)
=============================================================================
