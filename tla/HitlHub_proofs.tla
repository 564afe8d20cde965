--------------------------- MODULE HitlHub_proofs ---------------------------
(* Machine-checked proofs about HitlHub, for any sets of calls, attempts,     *)
(* keys and pubkeys and any bounds: its types, and its safety properties from *)
(* the inductive invariant HubInv.                                            *)
EXTENDS HubInvariant, TLAPS

-----------------------------------------------------------------------------
(* The statements of core/repository.py yield tables.                         *)

LEMMA NoRowIsRow == NoRow \in Row
BY DEF NoRow, Row, Statuses, OptKey, OptOwner, Payload

LEMMA InsertedTable ==
    ASSUME TableTypeOK, NEW q \in Requests, NEW row \in Row
    PROVE  Inserted(q, row) \in [Requests -> Row]
BY DEF TableTypeOK, Inserted

LEMMA WithReferenceTable ==
    ASSUME TableTypeOK, NEW q \in Requests, NEW event
    PROVE  WithReference(q, event) \in [Requests -> Row]
BY DEF TableTypeOK, WithReference, Row

LEMMA UpdatedStatusTable ==
    ASSUME TableTypeOK, NEW q \in Requests, NEW s \in Statuses, NEW p \in Payload
    PROVE  UpdatedStatus(q, s, p) \in [Requests -> Row]
BY DEF TableTypeOK, UpdatedStatus, Written, Row

LEMMA ExpiredStaleTable ==
    ASSUME TableTypeOK
    PROVE  ExpiredStale \in [Requests -> Row]
<1> SUFFICES ASSUME NEW q \in Requests
             PROVE  (IF IsStale(rows[q]) THEN [rows[q] EXCEPT !.status = "expired"]
                     ELSE rows[q]) \in Row
    BY DEF ExpiredStale
<1>1. rows[q] \in Row
    BY DEF TableTypeOK
<1> QED
    BY <1>1 DEF Row, Statuses, Settled

(* The event a request is built into is a row.                                *)
LEMMA FromRequestIsRow ==
    ASSUME TableTypeOK, NEW in \in RequestInput
    PROVE  FromRequest(in) \in Row
BY BoundAssumption
   DEF TableTypeOK, FromRequest, RequestInput, Row, Statuses, Payload

-----------------------------------------------------------------------------
(* TypeOK is inductive, flow by flow.                                         *)

LEMMA TypeInit == Init => TypeOK
<1> SUFFICES ASSUME Init PROVE TypeOK
    OBVIOUS
<1>1. TableTypeOK
    BY NoRowIsRow, BoundAssumption DEF Init, TableInit, TableTypeOK
<1>2. LifecycleTypeOK /\ BridgeTypeOK
    BY DEF Init, LifecycleInit, LifecycleTypeOK, BridgeInit, BridgeTypeOK
<1>3. RequestTypeOK
    BY NoRowIsRow
       DEF Init, RequestInit, RequestTypeOK, NoInput, RequestInput, Error, Response,
           OptKey, OptOwner
<1>4. ResolutionTypeOK
    BY NoRowIsRow
       DEF Init, ResolutionInit, ResolutionTypeOK, NoVerdict, Verdict, OptOwner,
           ResolutionLabels, Row
<1> QED
    BY <1>1, <1>2, <1>3, <1>4 DEF TypeOK

LEMMA RequestProceedsTypes ==
    ASSUME TypeOK, NEW q \in Requests, RequestProceeds(q), UNCHANGED resVars
    PROVE  TypeOK'
<1> USE DEF TypeOK, TableTypeOK, LifecycleTypeOK, BridgeTypeOK, RequestTypeOK, ResolutionTypeOK,
            resVars, tableVars, lifecycleVars, bridgeVars, baseVars, InRequest, Goto, Return
<1>1. CASE Lookup(q)
  <2>1. CASE \E e \in ByKey(req[q].key) :
               Return(q, [id |-> e, status |-> rows[e].status]) /\ UNCHANGED draft
    BY <1>1, <2>1 DEF Lookup, ByKey, Response, Row
  <2>2. CASE Build(q, req[q])
    BY <1>1, <2>2, FromRequestIsRow DEF Lookup, Build
  <2> QED
    BY <1>1, <2>1, <2>2 DEF Lookup
<1>2. CASE LookupOwner(q)
  <2>1. [draft[q] EXCEPT !.owner = CustodialPubkey(req[q])] \in Row
    BY DEF Row, RequestInput, CustodialPubkey
  <2> QED
    BY <1>2, <2>1 DEF LookupOwner
<1>3. CASE Insert(q)
  <2>1. Inserted(q, draft[q]) \in [Requests -> Row]
    BY InsertedTable
  <2>2. rows' \in [Requests -> Row]
    BY <1>3, <2>1 DEF Insert
  <2>3. pc' \in [Requests -> {"idle", "done", "raised", "duplicate", "lost"} \cup InRequest]
    BY <1>3 DEF Insert
  <2> QED
    BY <1>3, <2>2, <2>3 DEF Insert
<1>4. CASE Publish(q)
    BY <1>4 DEF Publish, Published, SigningKey, InboxItem
<1>5. CASE SetReference(q)
    BY <1>5, WithReferenceTable DEF SetReference
<1>6. CASE Notify(q)
    BY <1>6 DEF Notify, OnCreated, Response, Statuses
<1> QED
    BY <1>1, <1>2, <1>3, <1>4, <1>5, <1>6 DEF RequestProceeds

LEMMA RequestStartsTypes ==
    ASSUME TypeOK, NEW q \in Requests, NEW in \in Inputs, Request(q, in), UNCHANGED resVars
    PROVE  TypeOK'
<1> USE DEF TypeOK, TableTypeOK, LifecycleTypeOK, BridgeTypeOK, RequestTypeOK, ResolutionTypeOK,
            resVars, tableVars, lifecycleVars, bridgeVars, baseVars, InRequest, Goto, Return
<1>1. in \in RequestInput
    BY InputAssumption
<1>2. CASE Return(q, Error) /\ UNCHANGED draft
    BY <1>1, <1>2 DEF Request, Response, Error
<1>3. CASE Goto(q, "lookup") /\ UNCHANGED <<draft, answer>>
    BY <1>1, <1>3 DEF Request
<1>4. CASE Build(q, in)
    BY <1>1, <1>4, FromRequestIsRow DEF Request, Build
<1> QED
    BY <1>2, <1>3, <1>4 DEF Request

LEMMA RequestFailsTypes ==
    ASSUME TypeOK, NEW q \in Requests, RequestFails(q), UNCHANGED resVars
    PROVE  TypeOK'
<1> USE DEF TypeOK, TableTypeOK, LifecycleTypeOK, BridgeTypeOK, RequestTypeOK, ResolutionTypeOK,
            resVars, tableVars, lifecycleVars, bridgeVars, baseVars, InRequest, Goto, Fault
<1> USE BoundAssumption
<1>1. CASE RequestDbFails(q)
    BY <1>1 DEF RequestDbFails
<1>2. CASE InsertReplyLost(q)
  <2>1. rows' \in [Requests -> Row]
    BY <1>2, InsertedTable DEF InsertReplyLost
  <2> QED
    BY <1>2, <2>1 DEF InsertReplyLost
<1>3. CASE PublishFails(q)
  <2>1. relay' \subseteq InboxItem
    BY <1>3 DEF PublishFails, Published, SigningKey, InboxItem
  <2> QED
    BY <1>3, <2>1 DEF PublishFails
<1>4. CASE SetReferenceFails(q)
  <2>1. rows' \in [Requests -> Row]
    BY <1>4, WithReferenceTable DEF SetReferenceFails
  <2>2. pc' \in [Requests -> {"idle", "done", "raised", "duplicate", "lost"} \cup InRequest]
    BY <1>4 DEF SetReferenceFails
  <2> QED
    BY <1>4, <2>1, <2>2 DEF SetReferenceFails
<1> QED
    BY <1>1, <1>2, <1>3, <1>4 DEF RequestFails

(* What Committed writes.                                                     *)
LEMMA CommittedTable ==
    ASSUME TypeOK, NEW d \in Decisions, verdict[d].target \in Requests, Committed(d)
    PROVE  rows' \in [Requests -> Row] /\ writes' \subseteq Decisions
<1>1. Merged(d) \in Payload
    BY DEF TypeOK, ResolutionTypeOK, Merged, Payload
<1>2. Decision(verdict[d]) \in Statuses
    BY DEF Decision, Statuses, Settled
<1> QED
    BY <1>1, <1>2, UpdatedStatusTable DEF Committed, TypeOK, ResolutionTypeOK

(* Why the audit and memorium stay in their types: an attempt is past get()   *)
(* only if its target is a row.                                               *)
Targets == \A d \in Decisions :
    rpc[d] \in {"update", "hooks", "post"} => verdict[d].target \in Requests

ITypeOK == TypeOK /\ Targets

LEMMA AttemptTypes ==
    ASSUME ITypeOK, NEW d \in Decisions, NewAttempt(d), UNCHANGED reqVars
    PROVE  ITypeOK'
<1> USE DEF TypeOK, TableTypeOK, LifecycleTypeOK, BridgeTypeOK, RequestTypeOK, ResolutionTypeOK,
            ITypeOK, Targets, reqVars, tableVars, lifecycleVars, bridgeVars, resBaseVars
<1>1. PICK v \in Verdicts, label \in {"get", "sent", "missed"} : Attempt(d, v, label)
    BY DEF NewAttempt, Resolve, SendAnswer
<1>2. v \in Verdict
    BY VerdictAssumption
<1>3. late' \subseteq Decisions
    BY <1>1 DEF Attempt
<1> QED
    BY <1>1, <1>2, <1>3 DEF Attempt, ResGoto, ResolutionLabels, InResolution

LEMMA ResolutionProceedsTypes ==
    ASSUME ITypeOK, NEW d \in Decisions, ResolutionProceeds(d), UNCHANGED reqVars
    PROVE  ITypeOK'
<1> USE DEF TypeOK, TableTypeOK, LifecycleTypeOK, BridgeTypeOK, RequestTypeOK, ResolutionTypeOK,
            ITypeOK, Targets, reqVars, tableVars, lifecycleVars, bridgeVars, resBaseVars,
            ResGoto, ResolutionLabels, InResolution
<1>1. CASE HandleResolution(d)
  <2>1. PICK label \in {"unknown", "refused", "get", "ignored"} : ResGoto(d, label)
    BY <1>1 DEF HandleResolution
  <2> QED
    BY <1>1, <2>1 DEF HandleResolution
<1>2. CASE GetRow(d)
  <2>1. CASE Open(verdict[d].target)
    <3>1. rows[verdict[d].target].payload \in Payload
      BY <2>1 DEF Open, Row
    <3> QED
      BY <1>2, <2>1, <3>1 DEF GetRow, Open
  <2>2. CASE ~Open(verdict[d].target)
    BY <1>2, <2>2 DEF GetRow
  <2> QED
    BY <2>1, <2>2
<1>3. CASE Update(d)
  <2>1. rows' \in [Requests -> Row] /\ writes' \subseteq Decisions
    BY <1>3, CommittedTable DEF Update
  <2> QED
    BY <1>3, <2>1 DEF Update
<1>4. CASE Hooks(d)
  <2>1. verdict[d].target \in Requests /\ Decision(verdict[d]) \in Settled
    BY <1>4 DEF Hooks, Decision, Settled
  <2>2. PICK label \in {"post", "done"} : ResGoto(d, label)
    BY <1>4 DEF Hooks
  <2> QED
    BY <1>4, <2>1, <2>2 DEF Hooks, OnResolved
<1>5. CASE Post(d)
    BY <1>5 DEF Post, Told, Call, Verdict
<1> QED
    BY <1>1, <1>2, <1>3, <1>4, <1>5 DEF ResolutionProceeds

LEMMA ResolutionFailsTypes ==
    ASSUME ITypeOK, NEW d \in Decisions, ResolutionFails(d), UNCHANGED reqVars
    PROVE  ITypeOK'
<1> USE DEF TypeOK, TableTypeOK, LifecycleTypeOK, BridgeTypeOK, RequestTypeOK, ResolutionTypeOK,
            ITypeOK, Targets, reqVars, tableVars, lifecycleVars, bridgeVars, resBaseVars,
            ResGoto, ResolutionLabels, InResolution, Fault
<1> USE BoundAssumption
<1>1. CASE ResolutionDbFails(d)
    BY <1>1 DEF ResolutionDbFails
<1>2. CASE UpdateReplyLost(d)
  <2>1. rows' \in [Requests -> Row] /\ writes' \subseteq Decisions
    BY <1>2, CommittedTable DEF UpdateReplyLost
  <2> QED
    BY <1>2, <2>1 DEF UpdateReplyLost
<1>3. CASE PostFails(d)
  <2>1. memorium' \subseteq Call
    BY <1>3 DEF PostFails, Told, Call, Verdict
  <2> QED
    BY <1>3, <2>1 DEF PostFails
<1> QED
    BY <1>1, <1>2, <1>3 DEF ResolutionFails

LEMMA BackgroundTypes ==
    ASSUME ITypeOK,
           \/ Clock \/ Expiry \/ Start \/ StartWithoutRelay
           \/ Subscribe \/ ListenerCrash \/ Crash
    PROVE  ITypeOK'
<1> USE DEF TypeOK, TableTypeOK, LifecycleTypeOK, BridgeTypeOK, RequestTypeOK, ResolutionTypeOK,
            ITypeOK, Targets, reqVars, resVars, tableVars, lifecycleVars, bridgeVars, baseVars,
            Flows, Fault
<1> USE BoundAssumption
<1>1. CASE Clock
    BY <1>1 DEF Clock, Tick
<1>2. CASE Expiry
    BY <1>2, ExpiredStaleTable DEF Expiry, Sweep
<1>3. CASE Start
    BY <1>3 DEF Start, Boot
<1>4. CASE StartWithoutRelay
    BY <1>4 DEF StartWithoutRelay, BootWithoutRelay
<1>5. CASE Subscribe
    BY <1>5 DEF Subscribe, Listen
<1>6. CASE ListenerCrash
  <2>1. rpc' \in [Decisions -> ResolutionLabels] /\ Targets'
    BY <1>6 DEF ListenerCrash, LoseAnswers, DropAnswers, ResolutionLabels
  <2>2. TableTypeOK' /\ LifecycleTypeOK'
    BY <1>6 DEF ListenerCrash
  <2>3. BridgeTypeOK'
    BY <1>6 DEF ListenerCrash, StopListening
  <2>4. RequestTypeOK' /\ ResolutionTypeOK'
    BY <1>6, <2>1 DEF ListenerCrash, LoseAnswers
  <2> QED
    BY <2>1, <2>2, <2>3, <2>4
<1>7. CASE Crash
  <2>1. rpc' \in [Decisions -> ResolutionLabels] /\ Targets'
    BY <1>7 DEF Crash, LoseResolutions, DropAnswers, InResolution, ResolutionLabels
  <2>2. pc' \in [Requests -> {"idle", "done", "raised", "duplicate", "lost"} \cup InRequest]
    BY <1>7 DEF Crash, LoseRequests
  <2>3. TableTypeOK' /\ LifecycleTypeOK'
    BY <1>7 DEF Crash
  <2>4. BridgeTypeOK'
    BY <1>7 DEF Crash, GoDown
  <2>5. RequestTypeOK' /\ ResolutionTypeOK'
    BY <1>7, <2>1, <2>2 DEF Crash, LoseRequests, LoseResolutions
  <2> QED
    BY <2>1, <2>3, <2>4, <2>5
<1> QED
    BY <1>1, <1>2, <1>3, <1>4, <1>5, <1>6, <1>7

LEMMA TypeStep == ITypeOK /\ [Next]_vars => ITypeOK'
<1> SUFFICES ASSUME ITypeOK, [Next]_vars PROVE ITypeOK'
    OBVIOUS
<1>1. CASE UNCHANGED vars
    BY <1>1 DEF vars, baseVars, reqVars, resVars, tableVars, lifecycleVars, bridgeVars, ITypeOK,
                Targets, TypeOK, TableTypeOK, LifecycleTypeOK, BridgeTypeOK, RequestTypeOK,
                ResolutionTypeOK
<1>2. ASSUME NEW q \in Requests, RequestStep(q), UNCHANGED resVars PROVE ITypeOK'
  <2>1. TypeOK'
    BY <1>2, RequestStartsTypes, RequestProceedsTypes, RequestFailsTypes DEF RequestStep, ITypeOK
  <2>2. Targets'
    BY <1>2 DEF ITypeOK, Targets, resVars
  <2> QED
    BY <2>1, <2>2 DEF ITypeOK
<1>3. ASSUME NEW d \in Decisions, ResolutionStep(d), UNCHANGED reqVars PROVE ITypeOK'
    BY <1>3, AttemptTypes, ResolutionProceedsTypes, ResolutionFailsTypes DEF ResolutionStep
<1> QED
    BY <1>1, <1>2, <1>3, BackgroundTypes DEF Next

LEMMA ITypeInit == Init => ITypeOK
BY TypeInit DEF ITypeOK, Targets, Init, ResolutionInit

(* Every variable of the hub stays within its type.                           *)
THEOREM TypeCorrect == Spec => []TypeOK
<1>1. ITypeOK => TypeOK
    BY DEF ITypeOK
<1> QED
    BY <1>1, ITypeInit, TypeStep, PTL DEF Spec

-----------------------------------------------------------------------------
(* What resolving and expiring leave alone: which rows exist, everything of a *)
(* row but its status and payload, and that a settled row is settled.         *)
Frozen ==
    \A q \in Requests :
        /\ Exists(q)' <=> Exists(q)
        /\ rows'[q].key = rows[q].key
        /\ rows'[q].owner = rows[q].owner
        /\ rows'[q].referenced = rows[q].referenced
        /\ rows[q].status \in Settled => rows'[q].status \in Settled

LEMMA UnchangedFreezes == rows' = rows => Frozen
BY DEF Frozen, Exists

LEMMA CommittedFreezes ==
    ASSUME TypeOK, NEW d \in Decisions, Committed(d),
           verdict[d].target \in Requests, Exists(verdict[d].target)
    PROVE  Frozen
<1> DEFINE t == verdict[d].target
           s == Decision(verdict[d])
           p == Written(rows[t], Merged(d))
<1>1. rows \in [Requests -> Row]
    BY DEF TypeOK, TableTypeOK
<1>2. rows' = [rows EXCEPT ![t] = [rows[t] EXCEPT !.status = s, !.payload = p]]
    BY DEF Committed, UpdatedStatus
<1>3. s \in Settled /\ s # "absent"
    BY DEF Decision, Settled
<1> HIDE DEF s, p
<1> QED
    BY <1>1, <1>2, <1>3 DEF Frozen, Exists, Row

LEMMA ExpiryFreezes ==
    ASSUME TypeOK, rows' = ExpiredStale
    PROVE  Frozen
<1>1. rows \in [Requests -> Row]
    BY DEF TypeOK, TableTypeOK
<1> SUFFICES ASSUME NEW q \in Requests
             PROVE  /\ Exists(q)' <=> Exists(q)
                    /\ rows'[q].key = rows[q].key
                    /\ rows'[q].owner = rows[q].owner
                    /\ rows'[q].referenced = rows[q].referenced
                    /\ rows[q].status \in Settled => rows'[q].status \in Settled
    BY DEF Frozen
<1>2. rows'[q] = IF IsStale(rows[q]) THEN [rows[q] EXCEPT !.status = "expired"] ELSE rows[q]
    BY DEF ExpiredStale
<1>3. IsStale(rows[q]) => rows[q].status = "pending"
    BY DEF IsStale
<1> QED
    BY <1>1, <1>2, <1>3 DEF Exists, Row, Settled

(* Resolution steps write the table through Committed only.                   *)
LEMMA ResolutionFreezes ==
    ASSUME ITypeOK, AttemptsInv, NEW d \in Decisions, ResolutionStep(d)
    PROVE  Frozen /\ UNCHANGED relay
<1>1. CASE NewAttempt(d)
    BY <1>1, UnchangedFreezes
       DEF NewAttempt, Resolve, SendAnswer, Attempt, resBaseVars, tableVars, bridgeVars
<1>2. CASE ResolutionProceeds(d)
  <2>1. CASE HandleResolution(d) \/ GetRow(d) \/ Hooks(d) \/ Post(d)
    BY <2>1, UnchangedFreezes
       DEF HandleResolution, GetRow, Hooks, Post, resBaseVars, tableVars, bridgeVars
  <2>2. CASE Update(d)
    BY <2>2, CommittedFreezes
       DEF Update, bridgeVars, ITypeOK, AttemptsInv, AttemptOK
  <2> QED
    BY <1>2, <2>1, <2>2 DEF ResolutionProceeds
<1>3. CASE ResolutionFails(d)
  <2>1. CASE ResolutionDbFails(d) \/ PostFails(d)
    BY <2>1, UnchangedFreezes DEF ResolutionDbFails, PostFails, bridgeVars
  <2>2. CASE UpdateReplyLost(d)
    BY <2>2, CommittedFreezes
       DEF UpdateReplyLost, bridgeVars, ITypeOK, AttemptsInv, AttemptOK
  <2> QED
    BY <1>3, <2>1, <2>2 DEF ResolutionFails
<1> QED
    BY <1>1, <1>2, <1>3 DEF ResolutionStep

(* So do the background steps.                                                *)
Background == \/ Clock \/ Expiry \/ Start \/ StartWithoutRelay
              \/ Subscribe \/ ListenerCrash \/ Crash

LEMMA BackgroundFreezes ==
    ASSUME ITypeOK, Background
    PROVE  /\ Frozen
           /\ UNCHANGED <<relay, req, draft, answer, verdict, writes, late>>
           /\ \A q \in Requests : pc'[q] = pc[q] \/ pc'[q] = "lost"
           /\ \A d \in Decisions : rpc'[d] = rpc[d] \/ rpc'[d] \in {"lost", "missed"}
<1> USE DEF ITypeOK, TypeOK, RequestTypeOK, ResolutionTypeOK, Flows, reqVars, resVars,
            tableVars, bridgeVars
<1>1. CASE Clock \/ Start \/ StartWithoutRelay \/ Subscribe
    BY <1>1, UnchangedFreezes DEF Clock, Tick, Start, Boot, StartWithoutRelay, BootWithoutRelay,
                                  Subscribe, Listen
<1>2. CASE Expiry
    BY <1>2, ExpiryFreezes DEF Expiry, Sweep
<1>3. CASE ListenerCrash
    BY <1>3, UnchangedFreezes DEF ListenerCrash, StopListening, LoseAnswers, DropAnswers
<1>4. CASE Crash
    BY <1>4, UnchangedFreezes DEF Crash, GoDown, LoseRequests, LoseResolutions, DropAnswers
<1> QED
    BY <1>1, <1>2, <1>3, <1>4 DEF Background

(* What the calls rely on survives any step that freezes the table and takes  *)
(* no coroutine further.                                                      *)
LEMMA FrozenCalls ==
    ASSUME ITypeOK, CallsInv, Frozen, UNCHANGED <<relay, req, draft, answer>>,
           \A q \in Requests : pc'[q] = pc[q] \/ pc'[q] = "lost"
    PROVE  CallsInv'
<1>1. \A q \in Requests : CallOK(q)'
  <2> SUFFICES ASSUME NEW q \in Requests PROVE CallOK(q)'
    OBVIOUS
  <2>1. CallOK(q)
    BY DEF CallsInv
  <2> QED
    BY <2>1 DEF CallOK, Frozen, OnRelay
<1>2. \A q \in Requests : AnswerOK(q)'
  <2> SUFFICES ASSUME NEW q \in Requests PROVE AnswerOK(q)'
    OBVIOUS
  <2>1. AnswerOK(q) /\ answer[q].id \in Requests \cup {NoRequest}
    BY DEF CallsInv, ITypeOK, TypeOK, RequestTypeOK, Response
  <2> QED
    BY <2>1 DEF AnswerOK, Frozen
<1>3. KeyUnique'
    BY DEF CallsInv, KeyUnique, Frozen
<1>4. RelayOK'
    BY DEF CallsInv, RelayOK, Frozen, ITypeOK, TypeOK, BridgeTypeOK, InboxItem
<1> QED
    BY <1>1, <1>2, <1>3, <1>4 DEF CallsInv

-----------------------------------------------------------------------------
(* The steps of a call.  They keep every row that is there, up to its         *)
(* reference, and keep what is on the relay.                                  *)
Kept ==
    \A q \in Requests :
        Exists(q) => /\ Exists(q)'
                     /\ rows'[q].key = rows[q].key
                     /\ rows'[q].owner = rows[q].owner
                     /\ rows'[q].status = rows[q].status

LEMMA InsertedRows ==
    ASSUME ITypeOK, CallsInv, NEW q \in Requests, pc[q] = "insert",
           rows' = Inserted(q, draft[q])
    PROVE  /\ Kept
           /\ ~Exists(q) /\ rows'[q] = draft[q]
           /\ \A p \in Requests \ {q} : rows'[p] = rows[p]
BY DEF ITypeOK, TypeOK, TableTypeOK, CallsInv, CallOK, Inserted, Kept, Exists

LEMMA ReferencedRows ==
    ASSUME ITypeOK, NEW q \in Requests, rows' = WithReference(q, draft[q])
    PROVE  /\ Kept
           /\ \A p \in Requests : rows'[p].key = rows[p].key
           /\ \A p \in Requests : rows'[p].owner = rows[p].owner
           /\ \A p \in Requests : Exists(p)' <=> Exists(p)
           /\ \A p \in Requests \ {q} : rows'[p] = rows[p]
BY DEF ITypeOK, TypeOK, TableTypeOK, WithReference, Kept, Exists, Row

LEMMA PublishedRelay ==
    ASSUME CallsInv, NEW q \in Requests, relay' = Published(q)
    PROVE  /\ OnRelay(q)'
           /\ \A p \in Requests : OnRelay(p) => OnRelay(p)'
           /\ \A item \in relay' : item \in relay \/ item = [author |-> q, request |-> q]
<1>1. \A item \in relay : item.author = item.request
    BY DEF CallsInv, RelayOK
<1>2. relay' = {item \in relay : item.author # q} \cup {[author |-> q, request |-> q]}
    BY DEF Published, SigningKey
<1>3. OnRelay(q)'
  <2>1. [author |-> q, request |-> q] \in relay'
    BY <1>2
  <2> QED
    BY <2>1 DEF OnRelay
<1>4. ASSUME NEW p \in Requests, OnRelay(p) PROVE OnRelay(p)'
  <2>1. CASE p = q
    BY <1>3, <2>1
  <2>2. CASE p # q
    <3>1. PICK item \in relay : item.request = p
      BY <1>4 DEF OnRelay
    <3>2. item \in relay'
      BY <1>1, <1>2, <2>2, <3>1
    <3> QED
      BY <3>1, <3>2 DEF OnRelay
  <2> QED
    BY <2>1, <2>2
<1> QED
    BY <1>2, <1>3, <1>4

LEMMA RequestKeeps ==
    ASSUME ITypeOK, CallsInv, NEW q \in Requests, RequestStep(q)
    PROVE  Kept
<1>1. CASE \E in \in Inputs : Request(q, in)
    BY <1>1 DEF Request, baseVars, tableVars, Kept, Exists
<1>2. CASE RequestProceeds(q)
  <2>1. CASE Insert(q)
    BY <2>1, InsertedRows DEF Insert, Kept, Exists
  <2>2. CASE SetReference(q)
    BY <2>2, ReferencedRows DEF SetReference
  <2>3. CASE Lookup(q) \/ LookupOwner(q) \/ Publish(q) \/ Notify(q)
    BY <2>3 DEF Lookup, LookupOwner, Publish, Notify, baseVars, tableVars, Kept, Exists
  <2> QED
    BY <1>2, <2>1, <2>2, <2>3 DEF RequestProceeds
<1>3. CASE RequestFails(q)
  <2>1. CASE InsertReplyLost(q)
    BY <2>1, InsertedRows DEF InsertReplyLost
  <2>2. CASE SetReferenceFails(q)
    BY <2>2, ReferencedRows DEF SetReferenceFails, Kept, Exists
  <2>3. CASE RequestDbFails(q) \/ PublishFails(q)
    BY <2>3 DEF RequestDbFails, PublishFails, Kept, Exists
  <2> QED
    BY <1>3, <2>1, <2>2, <2>3 DEF RequestFails
<1> QED
    BY <1>1, <1>2, <1>3 DEF RequestStep

(* A step that only moves the coroutine of q, and leaves the table and the    *)
(* relay alone, has q's own facts to show.                                    *)
LEMMA CoroutineMoves ==
    ASSUME ITypeOK, CallsInv, NEW q \in Requests, UNCHANGED <<rows, relay>>,
           \A p \in Requests \ {q} :
               /\ pc'[p] = pc[p] /\ req'[p] = req[p]
               /\ draft'[p] = draft[p] /\ answer'[p] = answer[p],
           CallOK(q)', AnswerOK(q)'
    PROVE  CallsInv'
<1>1. \A p \in Requests : CallOK(p)' /\ AnswerOK(p)'
    BY DEF CallsInv, CallOK, AnswerOK, Exists, OnRelay
<1>2. KeyUnique' /\ RelayOK'
    BY DEF CallsInv, KeyUnique, RelayOK, Exists
<1> QED
    BY <1>1, <1>2 DEF CallsInv

(* A row appears.                                                             *)
LEMMA InsertCalls ==
    ASSUME ITypeOK, CallsInv, NEW q \in Requests, pc[q] = "insert", KeyFree(draft[q].key),
           rows' = Inserted(q, draft[q]), UNCHANGED <<relay, req, draft, answer>>,
           NEW label, pc' = [pc EXCEPT ![q] = label],
           \/ label \in {"notify", "raised"}
           \/ label = "publish" /\ draft[q].owner # NoOwner
    PROVE  CallsInv'
<1> USE DEF ITypeOK, TypeOK, TableTypeOK, RequestTypeOK
<1>1. /\ ~Exists(q) /\ rows'[q] = draft[q] /\ Kept
      /\ \A p \in Requests \ {q} : rows'[p] = rows[p]
    BY InsertedRows
<1>2. draft[q].status = "pending" /\ draft[q].key = req[q].key /\ ~draft[q].referenced
    BY DEF CallsInv, CallOK
<1>3. \A p \in Requests : CallOK(p)'
  <2>1. CallOK(q)'
    BY <1>1, <1>2 DEF CallOK, Exists
  <2>2. ASSUME NEW p \in Requests \ {q} PROVE CallOK(p)'
    BY <1>1 DEF CallsInv, CallOK, Exists, OnRelay
  <2> QED
    BY <2>1, <2>2
<1>4. \A p \in Requests : AnswerOK(p)'
    BY <1>1 DEF CallsInv, AnswerOK, Kept, Response
<1>5. KeyUnique'
  <2>1. draft[q].key = NoKey \/ \A p \in Requests : ~(Exists(p) /\ rows[p].key = draft[q].key)
    BY DEF KeyFree, ByKey
  <2> QED
    BY <1>1, <2>1 DEF CallsInv, KeyUnique, Exists
<1>6. RelayOK'
    BY <1>1 DEF CallsInv, RelayOK, Kept, BridgeTypeOK, InboxItem
<1> QED
    BY <1>3, <1>4, <1>5, <1>6 DEF CallsInv

(* An item appears on the relay.                                              *)
LEMMA PublishCalls ==
    ASSUME ITypeOK, CallsInv, NEW q \in Requests, pc[q] = "publish", relay' = Published(q),
           UNCHANGED <<rows, req, draft, answer>>,
           NEW label \in {"setref", "notify"}, pc' = [pc EXCEPT ![q] = label]
    PROVE  CallsInv'
<1> USE DEF ITypeOK, TypeOK, TableTypeOK, RequestTypeOK
<1>1. Exists(q) /\ rows[q].owner # NoOwner
    BY DEF CallsInv, CallOK
<1>2. \A p \in Requests : CallOK(p)'
  <2>1. CallOK(q)'
    BY <1>1, PublishedRelay DEF CallsInv, CallOK, Exists
  <2>2. ASSUME NEW p \in Requests \ {q} PROVE CallOK(p)'
    BY PublishedRelay DEF CallsInv, CallOK, Exists
  <2> QED
    BY <2>1, <2>2
<1>3. (\A p \in Requests : AnswerOK(p)') /\ KeyUnique'
    BY DEF CallsInv, AnswerOK, KeyUnique, Exists
<1>4. RelayOK'
    BY <1>1, PublishedRelay DEF CallsInv, RelayOK, Exists
<1> QED
    BY <1>2, <1>3, <1>4 DEF CallsInv

(* A row gets its reference.                                                  *)
LEMMA ReferenceCalls ==
    ASSUME ITypeOK, CallsInv, NEW q \in Requests, pc[q] = "setref",
           rows' = WithReference(q, draft[q]), UNCHANGED <<relay, req, draft, answer>>,
           pc' = [pc EXCEPT ![q] = "notify"]
    PROVE  CallsInv'
<1> USE DEF ITypeOK, TypeOK, TableTypeOK, RequestTypeOK
<1>1. OnRelay(q) /\ Exists(q)
    BY DEF CallsInv, CallOK
<1>2. \A p \in Requests : CallOK(p)'
  <2>1. CallOK(q)'
    BY <1>1, ReferencedRows DEF CallsInv, CallOK, OnRelay
  <2>2. ASSUME NEW p \in Requests \ {q} PROVE CallOK(p)'
    BY ReferencedRows DEF CallsInv, CallOK, OnRelay
  <2> QED
    BY <2>1, <2>2
<1>3. \A p \in Requests : AnswerOK(p)'
    BY ReferencedRows DEF CallsInv, AnswerOK, Response
<1>4. KeyUnique'
    BY ReferencedRows DEF CallsInv, KeyUnique
<1>5. RelayOK'
    BY ReferencedRows DEF CallsInv, RelayOK, BridgeTypeOK, InboxItem
<1> QED
    BY <1>2, <1>3, <1>4, <1>5 DEF CallsInv

LEMMA RequestCalls ==
    ASSUME ITypeOK, CallsInv, NEW q \in Requests, RequestStep(q)
    PROVE  CallsInv'
<1> USE DEF ITypeOK, TypeOK, TableTypeOK, RequestTypeOK, baseVars, tableVars, bridgeVars,
            Goto, Return
<1>0. CallOK(q) /\ AnswerOK(q)
    BY DEF CallsInv
<1>1. CASE \E in \in Inputs : Request(q, in)
  <2>1. PICK in \in Inputs : Request(q, in)
    BY <1>1
  <2>2. ~Exists(q) /\ rows' = rows /\ relay' = relay /\ req'[q] = in
    BY <1>0, <2>1 DEF Request, CallOK
  <2>3. CASE Return(q, Error) /\ UNCHANGED draft
    BY <1>0, <2>1, <2>2, <2>3, CoroutineMoves DEF Request, CallOK, AnswerOK, Error, Exists, OnRelay
  <2>4. CASE Goto(q, "lookup") /\ UNCHANGED <<draft, answer>>
    BY <1>0, <2>1, <2>2, <2>4, CoroutineMoves DEF Request, CallOK, AnswerOK, Exists, OnRelay
  <2>5. CASE Build(q, in)
    BY <1>0, <2>1, <2>2, <2>5, CoroutineMoves
       DEF Request, Build, FromRequest, CallOK, AnswerOK, Exists, OnRelay
  <2> QED
    BY <2>1, <2>3, <2>4, <2>5 DEF Request
<1>2. CASE Lookup(q)
  <2>1. CASE \E e \in ByKey(req[q].key) :
               Return(q, [id |-> e, status |-> rows[e].status]) /\ UNCHANGED draft
    BY <1>0, <1>2, <2>1, CoroutineMoves DEF Lookup, ByKey, CallOK, AnswerOK, Exists, OnRelay
  <2>2. CASE Build(q, req[q])
    BY <1>0, <1>2, <2>2, CoroutineMoves
       DEF Lookup, Build, FromRequest, CallOK, AnswerOK, Exists, OnRelay
  <2> QED
    BY <1>2, <2>1, <2>2 DEF Lookup
<1>3. CASE LookupOwner(q)
    BY <1>0, <1>3, CoroutineMoves DEF LookupOwner, Row, CallOK, AnswerOK, Exists, OnRelay
<1>4. CASE Insert(q)
  <2>1. CASE KeyFree(draft[q].key) /\ rows' = Inserted(q, draft[q])
             /\ Goto(q, IF Publishes(draft[q]) THEN "publish" ELSE "notify")
    <3>1. CASE Publishes(draft[q])
      BY <1>4, <2>1, <3>1, InsertCalls DEF Insert, Publishes
    <3>2. CASE ~Publishes(draft[q])
      BY <1>4, <2>1, <3>2, InsertCalls DEF Insert
    <3> QED
      BY <3>1, <3>2
  <2>2. CASE Goto(q, "duplicate") /\ UNCHANGED rows
    BY <1>0, <1>4, <2>2, CoroutineMoves DEF Insert, CallOK, AnswerOK, Exists, OnRelay
  <2> QED
    BY <1>4, <2>1, <2>2 DEF Insert
<1>5. CASE Publish(q)
    BY <1>5, PublishCalls DEF Publish
<1>6. CASE SetReference(q)
    BY <1>6, ReferenceCalls DEF SetReference
<1>7. CASE Notify(q)
    BY <1>0, <1>7, CoroutineMoves DEF Notify, CallOK, AnswerOK, Exists, OnRelay
<1>8. CASE RequestDbFails(q)
    BY <1>0, <1>8, CoroutineMoves DEF RequestDbFails, CallOK, AnswerOK, Exists, OnRelay
<1>9. CASE InsertReplyLost(q)
    BY <1>9, InsertCalls DEF InsertReplyLost
<1>10. CASE PublishFails(q)
  <2>1. CASE relay' = relay
    BY <1>0, <1>10, <2>1, CoroutineMoves DEF PublishFails, CallOK, AnswerOK, Exists, OnRelay
  <2>2. CASE relay' = Published(q)
    BY <1>10, <2>2, PublishCalls DEF PublishFails
  <2> QED
    BY <1>10, <2>1, <2>2 DEF PublishFails
<1>11. CASE SetReferenceFails(q)
  <2>1. CASE rows' = rows
    BY <1>0, <1>11, <2>1, CoroutineMoves DEF SetReferenceFails, CallOK, AnswerOK, Exists, OnRelay
  <2>2. CASE rows' = WithReference(q, draft[q])
    BY <1>11, <2>2, ReferenceCalls DEF SetReferenceFails
  <2> QED
    BY <1>11, <2>1, <2>2 DEF SetReferenceFails
<1> QED
    BY <1>1, <1>2, <1>3, <1>4, <1>5, <1>6, <1>7, <1>8, <1>9, <1>10, <1>11
       DEF RequestStep, RequestProceeds, RequestFails

-----------------------------------------------------------------------------
(* The attempts.                                                              *)

(* What an attempt that does not move relies on survives every step.          *)
LEMMA AttemptsRest ==
    ASSUME ITypeOK, Frozen \/ Kept, NEW d \in Decisions, AttemptOK(d),
           rpc'[d] = rpc[d] \/ rpc'[d] \in {"lost", "missed"},
           verdict'[d] = verdict[d], d \in writes' <=> d \in writes, d \in late' <=> d \in late
    PROVE  AttemptOK(d)'
<1>1. ASSUME NEW q \in Requests, Exists(q)
      PROVE  /\ Exists(q)' /\ rows'[q].owner = rows[q].owner
             /\ SettledRow(q) => SettledRow(q)'
    BY <1>1 DEF Frozen, Kept, SettledRow
<1>2. \A q : SettledRow(q) => q \in Requests /\ Exists(q)
    BY DEF SettledRow, Exists, Settled
<1> QED
    BY <1>1, <1>2 DEF AttemptOK, FromOwner

(* An answer passes the listener only if the owner of its row signed it.      *)
LEMMA HandledFromOwner ==
    ASSUME ITypeOK, CallsInv, NEW d \in Decisions, HandleResolution(d), rpc'[d] = "get"
    PROVE  FromOwner(d)
<1>1. PICK q \in ByReference(verdict[d].target) : MayResolve(rows[q], verdict[d].signer)
    BY DEF HandleResolution, ResGoto, ITypeOK, TypeOK, ResolutionTypeOK
<1>2. q = verdict[d].target /\ q \in Requests /\ Exists(q) /\ OnRelay(q)
    BY <1>1 DEF ByReference, CallsInv, CallOK
<1>3. rows[q].owner # NoOwner
    BY <1>2 DEF OnRelay, CallsInv, RelayOK
<1> QED
    BY <1>1, <1>2, <1>3 DEF FromOwner, MayResolve

LEMMA NewAttemptOK ==
    ASSUME ITypeOK, AttemptsInv, NEW d \in Decisions, NewAttempt(d)
    PROVE  AttemptsInv'
<1> USE DEF ITypeOK, TypeOK, ResolutionTypeOK, resBaseVars, tableVars
<1>1. PICK v \in Verdicts, label \in {"get", "sent", "missed"} :
          Attempt(d, v, label) /\ (label = "get" => v.via = "direct")
    BY DEF NewAttempt, Resolve, SendAnswer
<1>2. rows' = rows /\ writes' = writes /\ d \notin writes /\ rpc'[d] = label /\ verdict'[d] = v
    BY <1>1 DEF Attempt, ResGoto, AttemptsInv, AttemptOK
<1>3. AttemptOK(d)'
  <2>1. d \in late' => SettledRow(v.target)'
    BY <1>1, <1>2 DEF Attempt, AttemptsInv, AttemptOK, SettledRow
  <2>2. label \notin {"idle", "update"} /\ ~(v.via = "nostr" /\ label = "get")
    BY <1>1
  <2> QED
    BY <1>2, <2>1, <2>2 DEF AttemptOK
<1>4. ASSUME NEW e \in Decisions \ {d} PROVE AttemptOK(e)'
  <2>1. /\ rpc'[e] = rpc[e] /\ verdict'[e] = verdict[e]
        /\ e \in late' <=> e \in late
    BY <1>1 DEF Attempt, ResGoto
  <2> QED
    BY <1>2, <2>1, UnchangedFreezes, AttemptsRest DEF AttemptsInv
<1> QED
    BY <1>3, <1>4 DEF AttemptsInv

(* The attempts other than d when d takes a step.                             *)
LEMMA OtherAttempts ==
    ASSUME ITypeOK, AttemptsInv, Frozen, NEW d \in Decisions,
           NEW label, rpc' = [rpc EXCEPT ![d] = label],
           UNCHANGED <<verdict, late>>, writes' \in {writes, writes \cup {d}},
           AttemptOK(d)'
    PROVE  AttemptsInv'
<1>1. ASSUME NEW e \in Decisions \ {d} PROVE AttemptOK(e)'
    BY AttemptsRest DEF AttemptsInv, ITypeOK, TypeOK, ResolutionTypeOK
<1> QED
    BY <1>1 DEF AttemptsInv

LEMMA CommittedOK ==
    ASSUME ITypeOK, AttemptsInv, NEW d \in Decisions, rpc[d] = "update", Committed(d),
           NEW label \in {"hooks", "raised"}, rpc' = [rpc EXCEPT ![d] = label],
           UNCHANGED <<verdict, late>>
    PROVE  AttemptsInv'
<1>1. AttemptOK(d) /\ verdict[d].target \in Requests /\ Exists(verdict[d].target)
    BY DEF AttemptsInv, AttemptOK
<1>2. Frozen
    BY <1>1, CommittedFreezes DEF ITypeOK
<1>3. writes' = writes \cup {d} /\ rpc'[d] = label
    BY DEF Committed, ITypeOK, TypeOK, ResolutionTypeOK
<1>4. AttemptOK(d)'
    BY <1>1, <1>2, <1>3 DEF AttemptOK, FromOwner, Frozen
<1> QED
    BY <1>2, <1>3, <1>4, OtherAttempts

LEMMA AttemptProceedsOK ==
    ASSUME ITypeOK, CallsInv, AttemptsInv, NEW d \in Decisions,
           ResolutionProceeds(d) \/ ResolutionFails(d)
    PROVE  AttemptsInv'
<1> USE DEF ITypeOK, TypeOK, ResolutionTypeOK, ResGoto, resBaseVars, tableVars
<1>0. AttemptOK(d)
    BY DEF AttemptsInv
<1>1. CASE HandleResolution(d)
  <2>1. PICK label \in {"unknown", "refused", "get", "ignored"} : rpc' = [rpc EXCEPT ![d] = label]
    BY <1>1 DEF HandleResolution
  <2>2. label = "get" => FromOwner(d)
    BY <1>1, <2>1, HandledFromOwner
  <2>3. AttemptOK(d)'
    BY <1>0, <1>1, <2>1, <2>2 DEF HandleResolution, AttemptOK, FromOwner, SettledRow, Exists
  <2> QED
    BY <1>1, <2>1, <2>3, UnchangedFreezes, OtherAttempts DEF HandleResolution
<1>2. CASE GetRow(d)
  <2>1. PICK label \in {"update", "refused"} :
            /\ rpc' = [rpc EXCEPT ![d] = label]
            /\ label = "update" => Open(verdict[d].target)
    BY <1>2 DEF GetRow
  <2>2. Open(verdict[d].target) =>
            /\ verdict[d].target \in Requests /\ Exists(verdict[d].target)
            /\ ~SettledRow(verdict[d].target)
    BY DEF Open, Exists, SettledRow, Settled
  <2>3. /\ rpc[d] = "get" /\ rpc'[d] = label
        /\ d \in late => label # "update"
        /\ rows' = rows /\ verdict' = verdict /\ writes' = writes /\ late' = late
    BY <1>0, <1>2, <2>1, <2>2 DEF GetRow, AttemptOK
  <2>4. AttemptOK(d)'
    BY <1>0, <2>1, <2>2, <2>3 DEF AttemptOK, FromOwner, SettledRow, Exists
  <2> QED
    BY <2>1, <2>3, <2>4, UnchangedFreezes, OtherAttempts
<1>3. CASE Update(d)
    BY <1>3, CommittedOK DEF Update
<1>4. CASE Hooks(d)
  <2>1. PICK label \in {"post", "done"} : rpc' = [rpc EXCEPT ![d] = label]
    BY <1>4 DEF Hooks
  <2>2. AttemptOK(d)'
    BY <1>0, <1>4, <2>1 DEF Hooks, AttemptOK, FromOwner, SettledRow, Exists
  <2> QED
    BY <1>4, <2>1, <2>2, UnchangedFreezes, OtherAttempts DEF Hooks
<1>5. CASE Post(d) \/ PostFails(d)
  <2>1. AttemptOK(d)'
    BY <1>0, <1>5 DEF Post, PostFails, AttemptOK, FromOwner, SettledRow, Exists
  <2> QED
    BY <1>5, <2>1, UnchangedFreezes, OtherAttempts DEF Post, PostFails
<1>6. CASE ResolutionDbFails(d)
  <2>1. AttemptOK(d)'
    BY <1>0, <1>6 DEF ResolutionDbFails, AttemptOK, FromOwner, SettledRow, Exists
  <2> QED
    BY <1>6, <2>1, UnchangedFreezes, OtherAttempts DEF ResolutionDbFails
<1>7. CASE UpdateReplyLost(d)
    BY <1>7, CommittedOK DEF UpdateReplyLost
<1> QED
    BY <1>1, <1>2, <1>3, <1>4, <1>5, <1>6, <1>7 DEF ResolutionProceeds, ResolutionFails

-----------------------------------------------------------------------------
(* HubInv is inductive.                                                       *)

LEMMA InvInit == Init => HubInv
<1> SUFFICES ASSUME Init PROVE HubInv
    OBVIOUS
<1>1. CallsInv
    BY DEF Init, TableInit, BridgeInit, RequestInit, CallsInv, CallOK, AnswerOK, KeyUnique,
           RelayOK, Exists, NoRow
<1>2. AttemptsInv
    BY DEF Init, ResolutionInit, AttemptsInv, AttemptOK
<1> QED
    BY <1>1, <1>2 DEF HubInv

LEMMA InvStep == ITypeOK /\ HubInv /\ [Next]_vars => HubInv'
<1> SUFFICES ASSUME ITypeOK, HubInv, [Next]_vars PROVE HubInv'
    OBVIOUS
<1> USE DEF HubInv
<1>1. ASSUME NEW q \in Requests, RequestStep(q), UNCHANGED resVars PROVE HubInv'
  <2>1. CallsInv'
    BY <1>1, RequestCalls
  <2>2. AttemptsInv'
    BY <1>1, RequestKeeps, AttemptsRest DEF AttemptsInv, resVars
  <2> QED
    BY <2>1, <2>2
<1>2. ASSUME NEW d \in Decisions, ResolutionStep(d), UNCHANGED reqVars PROVE HubInv'
  <2>1. CallsInv'
    BY <1>2, ResolutionFreezes, FrozenCalls DEF reqVars
  <2>2. AttemptsInv'
    BY <1>2, NewAttemptOK, AttemptProceedsOK DEF ResolutionStep
  <2> QED
    BY <2>1, <2>2
<1>3. CASE Background
  <2>1. CallsInv'
    BY <1>3, BackgroundFreezes, FrozenCalls
  <2>2. AttemptsInv'
    BY <1>3, BackgroundFreezes, AttemptsRest DEF AttemptsInv
  <2> QED
    BY <2>1, <2>2
<1>4. CASE UNCHANGED vars
  <2>1. CallsInv'
    BY <1>4, UnchangedFreezes, FrozenCalls DEF vars, baseVars, tableVars, bridgeVars, reqVars
  <2>2. AttemptsInv'
    BY <1>4, UnchangedFreezes, AttemptsRest DEF AttemptsInv, vars, baseVars, tableVars, resVars
  <2> QED
    BY <2>1, <2>2
<1> QED
    BY <1>1, <1>2, <1>3, <1>4 DEF Next, Background

THEOREM Invariance == Spec => [](ITypeOK /\ HubInv)
BY ITypeInit, TypeStep, InvInit, InvStep, PTL DEF Spec

-----------------------------------------------------------------------------
(* No two rows carry one idempotency key.                                     *)
THEOREM KeyUniqueness == Spec => []KeyUnique
<1>1. HubInv => KeyUnique
    BY DEF HubInv, CallsInv
<1> QED
    BY <1>1, Invariance, PTL

(* Two calls with one key that both get an id get the same one.               *)
THEOREM OneRequest == Spec => []OneRequestPerKey
<1>1. ITypeOK /\ HubInv => OneRequestPerKey
  <2> SUFFICES ASSUME ITypeOK, HubInv, NEW q \in Requests,
                      pc[q] = "done", answer[q].id # NoRequest
               PROVE  /\ Exists(answer[q].id)
                      /\ rows[answer[q].id].key = req[q].key
                      /\ \A other \in Requests :
                            /\ pc[other] = "done" /\ answer[other].id # NoRequest
                            /\ HasKey(req[q]) /\ req[other].key = req[q].key
                            => answer[other].id = answer[q].id
    BY DEF OneRequestPerKey
  <2>1. \A p \in Requests : AnswerOK(p) /\ answer[p].id \in Requests \cup {NoRequest}
    BY DEF HubInv, CallsInv, ITypeOK, TypeOK, RequestTypeOK, Response
  <2> QED
    BY <2>1 DEF AnswerOK, HubInv, CallsInv, KeyUnique, HasKey
<1> QED
    BY <1>1, Invariance, PTL

(* What the inbox shows and what the table holds agree.                       *)
THEOREM InboxConsistency == Spec => []InboxMatchesTable
<1>1. HubInv => InboxMatchesTable
    BY DEF HubInv, CallsInv, CallOK, RelayOK, InboxMatchesTable
<1> QED
    BY <1>1, Invariance, PTL

(* Only the owner of a row decides it through the relay.                      *)
THEOREM OwnerAuthority == Spec => []OwnerDecides
<1>1. ITypeOK /\ HubInv => OwnerDecides
    BY DEF HubInv, AttemptsInv, AttemptOK, FromOwner, OwnerDecides, ITypeOK, TypeOK,
           ResolutionTypeOK
<1> QED
    BY <1>1, Invariance, PTL

(* An attempt made after its row was settled never writes.                    *)
THEOREM LateAttempts == Spec => []LateRefused
<1>1. ITypeOK /\ HubInv => LateRefused
    BY DEF HubInv, AttemptsInv, AttemptOK, LateRefused, ITypeOK, TypeOK, ResolutionTypeOK
<1> QED
    BY <1>1, Invariance, PTL

(* A settled row stays settled.                                               *)
LEMMA SettledStep ==
    ITypeOK /\ HubInv /\ [Next]_vars =>
        \A q \in Requests : SettledRow(q) => rows'[q].status \in Settled
<1> SUFFICES ASSUME ITypeOK, HubInv, [Next]_vars, NEW q \in Requests, SettledRow(q)
             PROVE  rows'[q].status \in Settled
    OBVIOUS
<1>1. Exists(q) /\ rows[q].status \in Settled
    BY DEF SettledRow, Exists, Settled
<1>2. CASE Frozen
    BY <1>1, <1>2 DEF Frozen
<1>3. CASE Kept
    BY <1>1, <1>3 DEF Kept
<1>4. Frozen \/ Kept
    BY RequestKeeps, ResolutionFreezes, BackgroundFreezes, UnchangedFreezes
       DEF HubInv, Next, Background, vars, baseVars, tableVars
<1> QED
    BY <1>2, <1>3, <1>4

(* A row once settled is never pending again and never disappears.            *)
THEOREM Settlement == Spec => SettledForGood
BY SettledStep, Invariance, PTL DEF Spec, SettledForGood
=============================================================================
