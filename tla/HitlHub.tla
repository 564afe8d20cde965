------------------------------- MODULE HitlHub -------------------------------
(* The hub: producers' calls of request() and the attempts to resolve them    *)
(* run over one table, one relay and one process that may die and start       *)
(* again; the expiry task and the kind:10021 listener run beside them.        *)
EXTENDS RequestFlow, ResolutionFlow

CONSTANT Verdicts    \* the resolutions people may attempt
ASSUME VerdictAssumption == Verdicts \subseteq Verdict

vars == <<baseVars, reqVars, resVars>>

Init == /\ TableInit /\ LifecycleInit /\ BridgeInit
        /\ RequestInit /\ ResolutionInit

NewAttempt(d) == \E v \in Verdicts : Resolve(d, v) \/ SendAnswer(d, v)

ResolutionStep(d) == NewAttempt(d) \/ ResolutionProceeds(d) \/ ResolutionFails(d)

Flows == UNCHANGED <<reqVars, resVars>>

Clock == Tick /\ UNCHANGED <<lifecycleVars, bridgeVars>> /\ Flows
Expiry == hub # "down" /\ Sweep /\ UNCHANGED bridgeVars /\ Flows
Start == Boot /\ UNCHANGED <<tableVars, lifecycleVars>> /\ Flows
StartWithoutRelay == /\ BootWithoutRelay /\ Fault
                     /\ UNCHANGED <<rows, now, lifecycleVars>> /\ Flows
Subscribe == Listen /\ UNCHANGED <<tableVars, lifecycleVars>> /\ Flows
ListenerCrash == /\ StopListening /\ Fault /\ LoseAnswers
                 /\ UNCHANGED <<rows, now, lifecycleVars, reqVars>>
Crash == /\ GoDown /\ Fault /\ LoseRequests /\ LoseResolutions
         /\ UNCHANGED <<rows, now, lifecycleVars>>

Next == \/ \E q \in Requests : RequestStep(q) /\ UNCHANGED resVars
        \/ \E d \in Decisions : ResolutionStep(d) /\ UNCHANGED reqVars
        \/ Clock \/ Expiry \/ Start \/ StartWithoutRelay
        \/ Subscribe \/ ListenerCrash \/ Crash

Spec == Init /\ [][Next]_vars

(* The event loop runs every coroutine whose round trip has completed; the    *)
(* orchestrator restarts the process; the two background loops never stop.    *)
(* Producers, owners, failures and crashes owe nothing.                       *)
Fairness ==
    /\ \A q \in Requests : WF_vars(RequestProceeds(q) /\ UNCHANGED resVars)
    /\ \A d \in Decisions : WF_vars(ResolutionProceeds(d) /\ UNCHANGED reqVars)
    /\ WF_vars(Clock) /\ WF_vars(Expiry) /\ WF_vars(Start) /\ WF_vars(Subscribe)

FairSpec == Spec /\ Fairness

-----------------------------------------------------------------------------
(* Every variable stays within its type.                                      *)
TypeOK == /\ TableTypeOK /\ LifecycleTypeOK /\ BridgeTypeOK
          /\ RequestTypeOK /\ ResolutionTypeOK

(* No two rows carry one idempotency key, however lookups and inserts of      *)
(* concurrent retries interleave (engine.request, migration 002).             *)
KeyUnique ==
    \A q1, q2 \in Requests :
        Exists(q1) /\ Exists(q2) /\ rows[q1].key = rows[q2].key /\ rows[q1].key # NoKey
            => q1 = q2

(* Two calls of request() with one key that both get a confirmation_id get    *)
(* the same one, and it names a row that carries the key.                     *)
OneRequestPerKey ==
    \A q \in Requests :
        pc[q] = "done" /\ answer[q].id # NoRequest =>
            /\ Exists(answer[q].id)
            /\ rows[answer[q].id].key = req[q].key
            /\ \A other \in Requests :
                  /\ pc[other] = "done" /\ answer[other].id # NoRequest
                  /\ HasKey(req[q]) /\ req[other].key = req[q].key
                  => answer[other].id = answer[q].id

(* What the owners' inbox shows and what the table holds agree: an item on    *)
(* the relay has its row, with an owner, and the item a row refers to is      *)
(* still on the relay after any number of other publications.                 *)
InboxMatchesTable ==
    /\ \A item \in relay : Exists(item.request) /\ rows[item.request].owner # NoOwner
    /\ \A q \in Requests : rows[q].referenced => OnRelay(q)

(* While nothing fails, a producer who was given the id of a new request knows *)
(* it is in its owner's inbox: published, and with the reference an answer is *)
(* found by.                                                                  *)
PublishedUnlessFault ==
    faults = 0 =>
        \A q \in Requests :
            pc[q] = "done" /\ answer[q].id = q /\ rows[q].owner # NoOwner
                => OnRelay(q) /\ rows[q].referenced

(* A kind:10021 event changes a row only if the row's owner signed it, and    *)
(* every row reachable that way has an owner (_handle_resolution).            *)
OwnerDecides ==
    \A d \in writes :
        verdict[d].via = "nostr" =>
            /\ rows[verdict[d].target].owner # NoOwner
            /\ verdict[d].signer = rows[verdict[d].target].owner

(* An attempt made when its row was already settled never writes, whichever   *)
(* way it comes and however long it is under way.                             *)
LateRefused == late \cap writes = {}

(* No row is approved or rejected unless an attempt with that verdict, let in *)
(* by approve() or reject(), wrote it: neither the expiry task nor a          *)
(* request() still under way can make a decision up.                          *)
DecidedByAttempt ==
    \A q \in Requests :
        rows[q].status \in {"approved", "rejected"} =>
            \E d \in writes : verdict[d].target = q /\ Decision(verdict[d]) = rows[q].status

(* A row that an attempt decided holds that attempt's kind of payload: a      *)
(* rejected row its reason, an approved one no reason left by a rejection it  *)
(* overwrote, provided the request brought details (an empty payload is not   *)
(* written, see UpdatedStatus), and details are never lost.                   *)
DecisionMatchesPayload ==
    \A q \in Requests :
        /\ rows[q].status = "rejected" => rows[q].payload.resolution = "reason"
        /\ rows[q].status = "approved" /\ rows[q].payload.details
              => rows[q].payload.resolution # "reason"
        /\ Exists(q) => rows[q].payload.details = req[q].details

(* Memorium hears of an attempt only after its UPDATE committed, and what it  *)
(* hears is the row's status unless two attempts wrote the row.               *)
MemoriumAgrees ==
    \A call \in memorium :
        /\ call.by \in writes
        /\ (\A d \in writes : verdict[d].target = call.proposal => d = call.by)
              => rows[call.proposal].status = IF call.approved THEN "approved" ELSE "rejected"

(* A row once settled is never pending again and never disappears, though     *)
(* the request() that inserted it may still be writing to it.                 *)
SettledForGood ==
    [][\A q \in Requests : SettledRow(q) => rows'[q].status \in Settled]_vars

-----------------------------------------------------------------------------
(* No call of request() and no attempt to resolve stays under way for ever.   *)
EveryCallReturns ==
    /\ \A q \in Requests : pc[q] \in InRequest ~> pc[q] \notin InRequest
    /\ \A d \in Decisions :
          rpc[d] \in InResolution \cup {"sent"} ~> rpc[d] \notin InResolution \cup {"sent"}

(* A request whose deadline passes is settled in the end, by somebody or by   *)
(* the expiry task, whatever fails on the way.                                *)
PendingSettles ==
    \A q \in Requests :
        rows[q].status = "pending" /\ rows[q].expires < MaxTime ~> SettledRow(q)

(* If nothing fails, an answer that its owner signed and that reached the     *)
(* subscription after the row got its reference decides a request whose       *)
(* deadline is far, unless another decision comes first.                      *)
OwnerAnswerCounts ==
    [](faults = 0) =>
        \A d \in Decisions, q \in Requests :
            /\ rpc[d] = "sent" /\ q \in ByReference(verdict[d].target)
            /\ rows[q].owner = verdict[d].signer
            /\ rows[q].expires >= MaxTime
            ~> rows[q].status \in {"approved", "rejected"}

(* If nothing fails, an attempt that wrote is audited and, for a conflict     *)
(* that came with its details, carried to Memorium.                           *)
EffectsFollow ==
    [](faults = 0) =>
        \A d \in Decisions, q \in Requests :
            d \in writes /\ verdict[d].target = q ~>
                /\ <<q, Decision(verdict[d])>> \in audit
                /\ req[q].conflict /\ req[q].details
                      => \E call \in memorium : call.by = d

-----------------------------------------------------------------------------
(* docs/HITL_HUB_ARCHITECTURE.md:101 gives the transitions as                 *)
(* "pending -> approved | rejected | expired": a settled row keeps its status.*)
ResolvedOnce ==
    [][\A q \in Requests : SettledRow(q) => rows'[q].status = rows[q].status]_vars

(* core/nostr_bridge.py:193 "10021 for a request not created by the hub": an  *)
(* answer the listener drops as unknown is not to an item the hub published.  *)
DroppedIsForeign ==
    \A d \in Decisions : rpc[d] = "unknown" => verdict[d].target = NoRequest
=============================================================================
