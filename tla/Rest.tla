--------------------------------- MODULE Rest ---------------------------------
(* mcp/rest.py and the hitl_request_confirmation tool of mcp/tools.py: what a *)
(* call is before it reaches the engine and what its caller is answered.  The *)
(* engine's own steps are those of HitlHub.                                   *)
EXTENDS HitlHub

CONSTANTS
    Bodies,         \* POST /hitl/requests
    Resolutions,    \* POST /hitl/requests/<id>/resolve
    DefaultTimeout  \* 300 seconds

(* token: the bearer token is right, or none is wanted; json: the body can be *)
(* parsed; complete: it is an object and its fields are there and convert.    *)
Envelope == [token : BOOLEAN, json : BOOLEAN, complete : BOOLEAN]
Body == [envelope : Envelope, in : RequestInput]

(* "approved" of the JSON body: true, something truthy, or anything else.     *)
ResolveBody == [envelope : Envelope, target : Requests \cup {NoRequest},
                approved : {"true", "truthy", "no"}, response : BOOLEAN]

ASSUME TimeoutAssumption == DefaultTimeout \in Int
ASSUME BodyAssumption == Bodies \subseteq Body /\ Resolutions \subseteq ResolveBody

VARIABLES
    early,       \* the answer to a call of request() that never reached the engine
    earlyR,      \* likewise for an attempt to resolve
    body         \* the body of each attempt that did

restVars == <<early, earlyR, body>>
allVars == <<vars, restVars>>

NoAnswer == "none"
NoBody == [envelope |-> [token |-> FALSE, json |-> FALSE, complete |-> FALSE],
           target |-> NoRequest, approved |-> "no", response |-> FALSE]

RestInit == /\ early = [q \in Requests |-> NoAnswer]
            /\ earlyR = [d \in Decisions |-> NoAnswer]
            /\ body = [d \in Decisions |-> NoBody]

-----------------------------------------------------------------------------
(* int(body.get("timeout_seconds") or 300): no timeout, or zero, is 300.      *)
ToInput(b) == [b.in EXCEPT !.timeout = IF @ = 0 THEN DefaultTimeout ELSE @]

(* body.get("approved") is True; the mutant tests whether it is truthy.       *)
Approves_truthy(b) == b.approved \in {"true", "truthy"}
Approves(b) == b.approved = "true"

ToVerdict(b) == [via |-> "direct", target |-> b.target, signer |-> NoOwner,
                 approved |-> Approves(b), response |-> b.response]

(* The answer to a call that is refused before it reaches the engine: 401     *)
(* before anything else, 500 if the engine cannot be built, 400 for a body    *)
(* that is not JSON; what an incomplete one gets is the route's.              *)
Refusal(envelope, incomplete) ==
    IF ~envelope.token THEN "401"
    ELSE IF hub = "down" THEN "500"
    ELSE IF ~envelope.json THEN "400"
    ELSE IF ~envelope.complete THEN incomplete ELSE NoAnswer

(* create_request checks the fields; resolve_request only looks into what it  *)
(* takes for an object.                                                       *)
CreateRefusal(b) == Refusal(b.envelope, "400")
ResolveRefusal(b) == Refusal(b.envelope, "500")

FreshCall(q) == pc[q] = "idle" /\ early[q] = NoAnswer
FreshAttempt(d) == rpc[d] = "idle" /\ earlyR[d] = NoAnswer

CreateRequest(q, b) ==
    /\ FreshCall(q)
    /\ IF CreateRefusal(b) # NoAnswer
       THEN early' = [early EXCEPT ![q] = CreateRefusal(b)] /\ UNCHANGED vars
       ELSE Request(q, ToInput(b)) /\ UNCHANGED <<resVars, early>>
    /\ UNCHANGED <<earlyR, body>>

(* The MCP tool passes its arguments on as they are.                          *)
RequestConfirmation(q, in) ==
    /\ FreshCall(q)
    /\ Request(q, in)
    /\ UNCHANGED <<resVars, restVars>>

ResolveRequest(d, b) ==
    /\ FreshAttempt(d)
    /\ IF ResolveRefusal(b) # NoAnswer
       THEN earlyR' = [earlyR EXCEPT ![d] = ResolveRefusal(b)] /\ UNCHANGED <<vars, body>>
       ELSE /\ Resolve(d, ToVerdict(b)) /\ UNCHANGED reqVars
            /\ body' = [body EXCEPT ![d] = b]
            /\ UNCHANGED earlyR
    /\ UNCHANGED early

(* The status code of a call once it is over; an exception is a 500.  The     *)
(* mutant answers every failure with a 400.                                   *)
CreateCode_catchAll(q) ==
    IF early[q] # NoAnswer THEN early[q]
    ELSE IF pc[q] = "done" /\ answer[q].status # "error" THEN "201"
    ELSE IF pc[q] \in {"done", "raised", "duplicate"} THEN "400" ELSE NoAnswer
CreateCode(q) ==
    IF early[q] # NoAnswer THEN early[q]
    ELSE IF pc[q] = "done" THEN IF answer[q].status = "error" THEN "400" ELSE "201"
    ELSE IF pc[q] \in {"raised", "duplicate"} THEN "500" ELSE NoAnswer

ResolveCode(d) ==
    IF earlyR[d] # NoAnswer THEN earlyR[d]
    ELSE IF rpc[d] = "done" THEN "200"
    ELSE IF rpc[d] = "refused" THEN "400"
    ELSE IF rpc[d] = "raised" THEN "500" ELSE NoAnswer

(* The hub's own steps, and the answers that come over the relay.             *)
EngineStep ==
    /\ \/ \E q \in Requests : (RequestProceeds(q) \/ RequestFails(q)) /\ UNCHANGED resVars
       \/ \E d \in Decisions : /\ \/ ResolutionProceeds(d) \/ ResolutionFails(d)
                                  \/ FreshAttempt(d) /\ \E v \in Verdicts : SendAnswer(d, v)
                               /\ UNCHANGED reqVars
       \/ Clock \/ Expiry \/ Start \/ StartWithoutRelay \/ Subscribe \/ ListenerCrash \/ Crash
    /\ UNCHANGED restVars

RestNext == \/ EngineStep
            \/ \E q \in Requests : \/ \E b \in Bodies : CreateRequest(q, b)
                                   \/ \E in \in Inputs : RequestConfirmation(q, in)
            \/ \E d \in Decisions, b \in Resolutions : ResolveRequest(d, b)

RestSpec == Init /\ RestInit /\ [][RestNext]_allVars

(* What callers may send is what the engine may be asked.                     *)
ASSUME CallAssumption ==
    /\ \A b \in Bodies : ToInput(b) \in Inputs
    /\ \A b \in Resolutions : ToVerdict(b) \in Verdicts

-----------------------------------------------------------------------------
(* Every variable stays within its type.                                      *)
RestTypeOK ==
    /\ TypeOK
    /\ early \in [Requests -> {NoAnswer, "400", "401", "500"}]
    /\ earlyR \in [Decisions -> {NoAnswer, "400", "401", "500"}]
    /\ body \in [Decisions -> ResolveBody]

(* Who is told 400 or 401 has left nothing behind: no row was inserted by     *)
(* that call, no row resolved by that attempt, whatever failed on the way.    *)
RefusedLeavesNothing ==
    /\ \A q \in Requests : CreateCode(q) \in {"400", "401"} => ~Exists(q)
    /\ \A d \in Decisions : ResolveCode(d) \in {"400", "401"} => d \notin writes

(* Who is told 201 or 200 has what he was told: the row with his key, the     *)
(* decision he made, unless another attempt wrote the row too.                *)
AcceptedIsDone ==
    /\ \A q \in Requests : CreateCode(q) = "201" =>
          answer[q].id # NoRequest /\ Exists(answer[q].id) /\ rows[answer[q].id].key = req[q].key
    /\ \A d \in Decisions : ResolveCode(d) = "200" /\ verdict[d].via = "direct" =>
          /\ d \in writes
          /\ (\A e \in writes : verdict[e].target = verdict[d].target => e = d)
                => rows[verdict[d].target].status = Decision(verdict[d])

(* A producer whose call failed after its INSERT and that tries again with    *)
(* the same key is given the row of the first call.                           *)
RetryFindsRow ==
    \A q, again \in Requests :
        /\ CreateCode(q) = "500" /\ Exists(q)
        /\ CreateCode(again) = "201" /\ HasKey(req[q]) /\ req[again].key = req[q].key
        => answer[again].id = q

(* No row is approved unless somebody said so in so many words: the JSON      *)
(* value true, or a kind:10021 event that approves.                           *)
ApprovedExplicitly ==
    \A q \in Requests : rows[q].status = "approved" =>
        \E d \in writes :
            /\ verdict[d].target = q
            /\ IF verdict[d].via = "direct" THEN body[d].approved = "true" ELSE verdict[d].approved
=============================================================================
