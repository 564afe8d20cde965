----------------------------- MODULE RequestFlow -----------------------------
(* HITLEngine.request(), one coroutine per call.  A coroutine gives way at    *)
(* every await that reaches the database or the relay, and what it asked for  *)
(* takes effect before it runs again, so each round trip is one action: the   *)
(* effect, and where the coroutine continues.                                 *)
EXTENDS Lifecycle, NostrBridge

CONSTANT Inputs      \* the calls producers may make

(* valid: the validator finds no error; owner: metadata.owner_pubkey;         *)
(* custodial: what the users table holds for user_id.                         *)
RequestInput == [valid : BOOLEAN, key : OptKey, owner : OptOwner, custodial : OptOwner,
                 conflict : BOOLEAN, details : BOOLEAN, timeout : Int]

ASSUME InputAssumption == Inputs \subseteq RequestInput

VARIABLES
    pc,          \* where the coroutine of each call waits
    req,         \* the HITLRequest of the call
    draft,       \* the HITLEvent it has built
    answer       \* the HITLResponse it returned

reqVars == <<pc, req, draft, answer>>
baseVars == <<tableVars, lifecycleVars, bridgeVars>>

InRequest == {"lookup", "owner", "insert", "publish", "setref", "notify"}
Response == [id : Requests \cup {NoRequest}, status : Statuses \cup {"error"}]
NoInput == [valid |-> FALSE, key |-> NoKey, owner |-> NoOwner, custodial |-> NoOwner,
            conflict |-> FALSE, details |-> FALSE, timeout |-> 0]
Error == [id |-> NoRequest, status |-> "error"]

RequestInit == /\ pc = [q \in Requests |-> "idle"]
               /\ req = [q \in Requests |-> NoInput]
               /\ draft = [q \in Requests |-> NoRow]
               /\ answer = [q \in Requests |-> Error]

RequestTypeOK ==
    /\ pc \in [Requests -> {"idle", "done", "raised", "duplicate", "lost"} \cup InRequest]
    /\ req \in [Requests -> RequestInput]
    /\ draft \in [Requests -> Row]
    /\ answer \in [Requests -> Response]

-----------------------------------------------------------------------------
Goto(q, label) == pc' = [pc EXCEPT ![q] = label]

Return(q, response) == Goto(q, "done") /\ answer' = [answer EXCEPT ![q] = response]

(* HITLEvent.from_request: a pending event that expires timeout from now.     *)
FromRequest(in) ==
    [status |-> "pending", key |-> in.key, owner |-> in.owner, referenced |-> FALSE,
     expires |-> now + in.timeout, conflict |-> in.conflict,
     payload |-> [details |-> in.details, resolution |-> "none"]]

Build(q, in) == /\ draft' = [draft EXCEPT ![q] = FromRequest(in)]
                /\ Goto(q, IF in.owner = NoOwner THEN "owner" ELSE "insert")
                /\ UNCHANGED answer

(* Neither a missing nor an empty key is looked up.                           *)
HasKey(in) == in.key \notin {NoKey, EmptyKey}

(* The call arrives: validation, then the dedupe lookup if there is a key.    *)
Request(q, in) ==
    /\ hub # "down" /\ pc[q] = "idle"
    /\ req' = [req EXCEPT ![q] = in]
    /\ \/ ~in.valid /\ Return(q, Error) /\ UNCHANGED draft
       \/ in.valid /\ HasKey(in) /\ Goto(q, "lookup") /\ UNCHANGED <<draft, answer>>
       \/ in.valid /\ ~HasKey(in) /\ Build(q, in)
    /\ UNCHANGED baseVars

(* get_by_idempotency_key: the existing row is the answer, whatever its       *)
(* status.                                                                    *)
Lookup(q) ==
    /\ pc[q] = "lookup"
    /\ \/ \E e \in ByKey(req[q].key) :
             Return(q, [id |-> e, status |-> rows[e].status]) /\ UNCHANGED draft
       \/ ByKey(req[q].key) = {} /\ Build(q, req[q])
    /\ UNCHANGED <<req, baseVars>>

(* get_user_pubkey: a NULL pubkey is None; the mutant makes it a string.      *)
CustodialPubkey_str(in) == IF in.custodial = NoOwner THEN "None" ELSE in.custodial
CustodialPubkey(in) == in.custodial

LookupOwner(q) ==
    /\ pc[q] = "owner"
    /\ draft' = [draft EXCEPT ![q].owner = CustodialPubkey(req[q])]
    /\ Goto(q, "insert")
    /\ UNCHANGED <<req, answer, baseVars>>

(* Only a request with an owner is published, and only by a connected hub;    *)
(* the mutant waits for the listener.                                         *)
Publishes_listening(event) == listening /\ event.owner # NoOwner
Publishes(event) == hub = "online" /\ event.owner # NoOwner

(* The INSERT, or the unique violation that request() lets through.           *)
Insert(q) ==
    /\ pc[q] = "insert"
    /\ \/ /\ KeyFree(draft[q].key)
          /\ rows' = Inserted(q, draft[q])
          /\ Goto(q, IF Publishes(draft[q]) THEN "publish" ELSE "notify")
       \/ /\ ~KeyFree(draft[q].key)
          /\ Goto(q, "duplicate")
          /\ UNCHANGED rows
    /\ UNCHANGED <<req, draft, answer, now, faults, lifecycleVars, bridgeVars>>

(* send_event.                                                                *)
Publish(q) ==
    /\ pc[q] = "publish"
    /\ relay' = Published(q)
    /\ Goto(q, "setref")
    /\ UNCHANGED <<req, draft, answer, tableVars, lifecycleVars, hub, listening>>

SetReference(q) ==
    /\ pc[q] = "setref"
    /\ rows' = WithReference(q, draft[q])
    /\ Goto(q, "notify")
    /\ UNCHANGED <<req, draft, answer, now, faults, lifecycleVars, bridgeVars>>

(* on_created, the notification plugins (they only log) and the answer.       *)
Notify(q) ==
    /\ pc[q] = "notify"
    /\ OnCreated(q)
    /\ Return(q, [id |-> q, status |-> "pending"])
    /\ UNCHANGED <<req, draft, tableVars, bridgeVars>>

-----------------------------------------------------------------------------
(* A statement fails before it reaches the table: request() raises.           *)
RequestDbFails(q) ==
    /\ pc[q] \in {"lookup", "owner", "insert"}
    /\ Fault
    /\ Goto(q, "raised")
    /\ UNCHANGED <<req, draft, answer, rows, now, lifecycleVars, bridgeVars>>

(* The INSERT commits and the connection is lost before the reply.            *)
InsertReplyLost(q) ==
    /\ pc[q] = "insert" /\ KeyFree(draft[q].key)
    /\ Fault
    /\ rows' = Inserted(q, draft[q])
    /\ Goto(q, "raised")
    /\ UNCHANGED <<req, draft, answer, now, lifecycleVars, bridgeVars>>

(* Publishing or recording the reference fails, before or after it took       *)
(* effect; the except branch goes on.                                         *)
PublishFails(q) ==
    /\ pc[q] = "publish"
    /\ Fault
    /\ relay' \in {relay, Published(q)}
    /\ Goto(q, "notify")
    /\ UNCHANGED <<req, draft, answer, rows, now, lifecycleVars, hub, listening>>

SetReferenceFails(q) ==
    /\ pc[q] = "setref"
    /\ Fault
    /\ rows' \in {rows, WithReference(q, draft[q])}
    /\ Goto(q, "notify")
    /\ UNCHANGED <<req, draft, answer, now, lifecycleVars, bridgeVars>>

(* The process dies with the coroutines it runs.                              *)
LoseRequests ==
    /\ pc' = [q \in Requests |-> IF pc[q] \in InRequest THEN "lost" ELSE pc[q]]
    /\ UNCHANGED <<req, draft, answer>>

RequestProceeds(q) == \/ Lookup(q) \/ LookupOwner(q) \/ Insert(q)
                      \/ Publish(q) \/ SetReference(q) \/ Notify(q)

RequestFails(q) == \/ RequestDbFails(q) \/ InsertReplyLost(q)
                   \/ PublishFails(q) \/ SetReferenceFails(q)

RequestStep(q) == \/ \E in \in Inputs : Request(q, in)
                  \/ RequestProceeds(q)
                  \/ RequestFails(q)
=============================================================================
