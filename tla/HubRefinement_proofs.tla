------------------------ MODULE HubRefinement_proofs ------------------------
(* The two refinements of HubRefinement, step by step: what each step of the  *)
(* hub is for a producer and for whoever follows a request.                   *)
EXTENDS HubRefinement, HitlHub_proofs

(* The steps of Registry, with the mapping put in.                            *)
RegistryStep == ARegistry!Next \/ UNCHANGED <<Asked, Registered, Replies>>

LEMMA RegistryInit == Init => ARegistry!Init
<1> SUFFICES ASSUME Init PROVE ARegistry!Init
    OBVIOUS
<1>1. Asked = [c \in Requests |-> NoKey]
    BY DEF Init, RequestInit, NoInput, Asked
<1>2. Registered = {}
    BY DEF Init, TableInit, NoRow, Registered, Exists
<1>3. Replies = [c \in Requests |-> "idle"]
    BY DEF Init, RequestInit, Replies, Seen
<1> QED
    BY <1>1, <1>2, <1>3 DEF ARegistry!Init

(* A call that looks its key up has one.                                      *)
LookupHasKey == \A q \in Requests : pc[q] = "lookup" => HasKey(req[q])

LEMMA SameRegister ==
    ASSUME \A q \in Requests : Exists(q)' <=> Exists(q)
    PROVE  Registered' = Registered
BY DEF Registered

(* A step that moves one coroutine among its labels, and nothing else a       *)
(* producer sees.                                                             *)
LEMMA SilentCall ==
    ASSUME ITypeOK, NEW q \in Requests, pc[q] \in InRequest,
           NEW label \in InRequest, pc' = [pc EXCEPT ![q] = label],
           UNCHANGED <<req, answer>>, \A p \in Requests : Exists(p)' <=> Exists(p)
    PROVE  UNCHANGED <<Asked, Registered, Replies>>
<1>1. Replies' = Replies
  <2> SUFFICES ASSUME NEW p \in Requests PROVE Seen(p)' = Seen(p)
    BY DEF Replies
  <2>1. pc'[p] = IF p = q THEN label ELSE pc[p]
    BY DEF ITypeOK, TypeOK, RequestTypeOK
  <2> QED
    BY <2>1 DEF Seen, InRequest
<1> QED
    BY <1>1, SameRegister DEF Asked

LEMMA FailingCall ==
    ASSUME ITypeOK, NEW q \in Requests, pc[q] \in InRequest,
           NEW label \in {"raised", "duplicate"}, pc' = [pc EXCEPT ![q] = label],
           UNCHANGED <<req, answer>>
    PROVE  /\ Replies[q] = "waiting"
           /\ Replies' = [Replies EXCEPT ![q] = "failed"]
           /\ Replies' = [p \in Requests |-> IF p \in {q} THEN "failed" ELSE Replies[p]]
BY DEF Replies, Seen, ITypeOK, TypeOK, RequestTypeOK, InRequest

LEMMA FailingStep ==
    ASSUME ITypeOK, NEW q \in Requests, pc[q] \in InRequest,
           NEW label \in {"raised", "duplicate"}, pc' = [pc EXCEPT ![q] = label],
           UNCHANGED <<req, answer, rows>>
    PROVE  ARegistry!Next
<1>1. UNCHANGED <<Asked, Registered>>
    BY DEF Asked, Registered, Exists
<1>2. {q} \in SUBSET {p \in Requests : Replies[p] = "waiting"}
    BY FailingCall
<1>3. ARegistry!Fail
    BY <1>1, <1>2, FailingCall DEF ARegistry!Fail
<1> QED
    BY <1>3 DEF ARegistry!Next

(* A call is answered with the id of a row.                                   *)
LEMMA AnsweringStep ==
    ASSUME ITypeOK, NEW q \in Requests, pc[q] \in InRequest, NEW r \in Registered,
           r = q \/ (req[r].key = req[q].key /\ req[q].key # NoKey),
           NEW s, Return(q, [id |-> r, status |-> s]),
           UNCHANGED <<req, rows>>
    PROVE  ARegistry!Next
<1>1. UNCHANGED <<Asked, Registered>>
    BY DEF Asked, Registered, Exists
<1>2. r \in Requests /\ r # NoRequest
    BY IdAssumption DEF Registered
<1>3. Replies[q] = "waiting" /\ Replies' = [Replies EXCEPT ![q] = r]
    BY <1>2 DEF Replies, Seen, Return, Goto, ITypeOK, TypeOK, RequestTypeOK, InRequest
<1>4. r = q \/ ARegistry!SameKey(q, r)
    BY <1>2 DEF ARegistry!SameKey, Asked
<1>5. ARegistry!Reply(q)
    BY <1>1, <1>3, <1>4 DEF ARegistry!Reply, ARegistry!Answer
<1> QED
    BY <1>5 DEF ARegistry!Next

(* The INSERT that succeeds is the registration, whether or not its reply     *)
(* comes back.                                                                *)
LEMMA RegisteringStep ==
    ASSUME ITypeOK, CallsInv, NEW q \in Requests, pc[q] = "insert", KeyFree(draft[q].key),
           rows' = Inserted(q, draft[q]), UNCHANGED <<req, answer>>,
           NEW label \in {"publish", "notify", "raised"}, pc' = [pc EXCEPT ![q] = label]
    PROVE  ARegistry!Next
<1> USE DEF ITypeOK, TypeOK, TableTypeOK, RequestTypeOK
<1>1. ~Exists(q) /\ Exists(q)' /\ \A p \in Requests \ {q} : Exists(p)' <=> Exists(p)
    BY InsertedRows DEF CallsInv, CallOK, Exists
<1>2. q \notin Registered /\ Registered' = Registered \cup {q} /\ Asked' = Asked
    BY <1>1 DEF Registered, Asked
<1>3. ASSUME NEW r \in Registered, ARegistry!SameKey(q, r) PROVE FALSE
  <2>1. r \in Requests /\ Exists(r) /\ rows[r].key = req[r].key /\ draft[q].key = req[q].key
    BY DEF Registered, CallsInv, CallOK
  <2>2. req[r].key = req[q].key /\ req[q].key # NoKey
    BY <1>3, <2>1 DEF ARegistry!SameKey, Asked
  <2> QED
    BY <2>1, <2>2 DEF KeyFree, ByKey
<1>4. Replies[q] = "waiting" /\ (Replies' = Replies \/ Replies' = [Replies EXCEPT ![q] = "failed"])
  <2>1. pc[q] \in InRequest
    BY DEF InRequest
  <2>2. CASE label = "raised"
    BY <2>1, <2>2, FailingCall
  <2>3. CASE label # "raised"
    BY <2>1, <2>3 DEF Replies, Seen, InRequest
  <2> QED
    BY <2>2, <2>3
<1>5. ARegistry!Register(q)
    BY <1>2, <1>3, <1>4 DEF ARegistry!Register, ARegistry!Answer
<1> QED
    BY <1>5 DEF ARegistry!Next

LEMMA AskingStep ==
    ASSUME ITypeOK, NEW q \in Requests, NEW in \in Inputs, Request(q, in)
    PROVE  ARegistry!Next
<1> USE DEF ITypeOK, TypeOK, RequestTypeOK
<1>1. UNCHANGED Registered
    BY DEF Request, baseVars, tableVars, Registered, Exists
<1>2. in \in RequestInput /\ in.key \in Keys \cup {NoKey}
    BY InputAssumption DEF RequestInput, OptKey
<1>3. Replies[q] = "idle" /\ Asked' = [Asked EXCEPT ![q] = in.key]
  <2>1. pc[q] = "idle" /\ req' = [req EXCEPT ![q] = in]
    BY DEF Request
  <2>2. \A p \in Requests : Asked'[p] = IF p = q THEN in.key ELSE Asked[p]
    BY <2>1 DEF Asked
  <2> QED
    BY <2>1, <2>2 DEF Replies, Seen, Asked
<1>4. \/ Replies' = [Replies EXCEPT ![q] = "waiting"]
      \/ Replies' = [Replies EXCEPT ![q] = "failed"]
  <2>1. CASE Return(q, Error)
    BY <2>1 DEF Return, Goto, Error, Replies, Seen, InRequest
  <2>2. CASE ~Return(q, Error)
    <3>1. PICK label \in InRequest : pc' = [pc EXCEPT ![q] = label] /\ UNCHANGED answer
      BY <2>2 DEF Request, Build, Goto, InRequest
    <3> QED
      BY <3>1 DEF Request, Replies, Seen, InRequest
  <2> QED
    BY <2>1, <2>2
<1>5. ARegistry!Ask(q, in.key)
    BY <1>1, <1>3, <1>4 DEF ARegistry!Ask, ARegistry!Answer
<1> QED
    BY <1>2, <1>5 DEF ARegistry!Next

LEMMA CallStep ==
    ASSUME ITypeOK, CallsInv, LookupHasKey, NEW q \in Requests, RequestStep(q)
    PROVE  RegistryStep
<1> USE DEF RegistryStep
<1>1. CASE \E in \in Inputs : Request(q, in)
    BY <1>1, AskingStep
<1>2. CASE Lookup(q)
  <2>1. pc[q] \in InRequest /\ UNCHANGED <<req, rows>>
    BY <1>2 DEF Lookup, InRequest, baseVars, tableVars
  <2>2. CASE \E e \in ByKey(req[q].key) : Return(q, [id |-> e, status |-> rows[e].status])
    <3>1. PICK e \in ByKey(req[q].key) : Return(q, [id |-> e, status |-> rows[e].status])
      BY <2>2
    <3>2. e \in Registered /\ req[e].key = req[q].key
      BY DEF ByKey, Registered, CallsInv, CallOK
    <3>3. req[q].key # NoKey
      BY <1>2 DEF Lookup, LookupHasKey, HasKey
    <3> QED
      BY <2>1, <3>1, <3>2, <3>3, AnsweringStep
  <2>3. CASE Build(q, req[q])
    <3>1. PICK label \in InRequest : pc' = [pc EXCEPT ![q] = label] /\ UNCHANGED answer
      BY <2>3 DEF Build, Goto, InRequest
    <3> QED
      BY <2>1, <3>1, SilentCall DEF Exists
  <2> QED
    BY <1>2, <2>2, <2>3 DEF Lookup
<1>3. CASE Insert(q)
  <2>1. CASE KeyFree(draft[q].key)
    <3>1. PICK label \in {"publish", "notify"} : pc' = [pc EXCEPT ![q] = label]
      BY <1>3, <2>1 DEF Insert, Goto
    <3> QED
      BY <1>3, <2>1, <3>1, RegisteringStep DEF Insert
  <2>2. CASE ~KeyFree(draft[q].key)
    BY <1>3, <2>2, FailingStep DEF Insert, Goto, InRequest
  <2> QED
    BY <2>1, <2>2
<1>4. CASE LookupOwner(q) \/ Publish(q) \/ PublishFails(q)
  <2>1. PICK label \in InRequest : pc' = [pc EXCEPT ![q] = label]
    BY <1>4 DEF LookupOwner, Publish, PublishFails, Goto, InRequest
  <2> QED
    BY <1>4, <2>1, SilentCall
       DEF LookupOwner, Publish, PublishFails, Exists, InRequest, baseVars, tableVars
<1>5. CASE SetReference(q) \/ SetReferenceFails(q)
  <2>1. \A p \in Requests : Exists(p)' <=> Exists(p)
    BY <1>5, ReferencedRows DEF SetReference, SetReferenceFails, Exists
  <2> QED
    BY <1>5, <2>1, SilentCall DEF SetReference, SetReferenceFails, Goto, InRequest
<1>6. CASE Notify(q)
  <2>1. q \in Registered
    BY <1>6 DEF Notify, Registered, CallsInv, CallOK
  <2> QED
    BY <1>6, <2>1, AnsweringStep DEF Notify, InRequest, tableVars
<1>7. CASE RequestDbFails(q)
    BY <1>7, FailingStep DEF RequestDbFails, Goto, InRequest
<1>8. CASE InsertReplyLost(q)
    BY <1>8, RegisteringStep DEF InsertReplyLost, Goto
<1> QED
    BY <1>1, <1>2, <1>3, <1>4, <1>5, <1>6, <1>7, <1>8
       DEF RequestStep, RequestProceeds, RequestFails

(* The other steps: resolutions and the background leave producers alone, but *)
(* for a crash, which fails every call under way.                             *)
LEMMA QuietStep ==
    ASSUME Frozen, UNCHANGED reqVars
    PROVE  UNCHANGED <<Asked, Registered, Replies>>
<1>1. \A q \in Requests : Seen(q)' = Seen(q)
    BY DEF Seen, reqVars
<1> QED
    BY <1>1, SameRegister DEF Frozen, Asked, Replies, reqVars

LEMMA CrashStep ==
    ASSUME ITypeOK, Crash
    PROVE  ARegistry!Next
<1> DEFINE C == {q \in Requests : pc[q] \in InRequest}
<1>1. UNCHANGED <<Asked, Registered>>
    BY DEF Crash, LoseRequests, Asked, Registered, Exists
<1>2. C \in SUBSET {q \in Requests : Replies[q] = "waiting"}
    BY DEF Replies, Seen, InRequest
<1>3. Replies' = [q \in Requests |-> IF q \in C THEN "failed" ELSE Replies[q]]
  <2> SUFFICES ASSUME NEW q \in Requests
               PROVE  Seen(q)' = IF q \in C THEN "failed" ELSE Seen(q)
    BY DEF Replies
  <2>1. /\ pc'[q] = IF pc[q] \in InRequest THEN "lost" ELSE pc[q]
        /\ answer' = answer
    BY DEF Crash, LoseRequests
  <2> QED
    BY <2>1 DEF Seen, InRequest
<1> HIDE DEF C
<1>4. ARegistry!Fail
    BY <1>1, <1>2, <1>3 DEF ARegistry!Fail
<1> QED
    BY <1>4 DEF ARegistry!Next

LEMMA RegistrySteps ==
    ITypeOK /\ HubInv /\ LookupHasKey /\ [Next]_vars => RegistryStep
<1> SUFFICES ASSUME ITypeOK, HubInv, LookupHasKey, [Next]_vars PROVE RegistryStep
    OBVIOUS
<1> USE DEF RegistryStep, HubInv
<1>1. ASSUME NEW q \in Requests, RequestStep(q) PROVE RegistryStep
    BY <1>1, CallStep
<1>2. ASSUME NEW d \in Decisions, ResolutionStep(d), UNCHANGED reqVars PROVE RegistryStep
    BY <1>2, ResolutionFreezes, QuietStep
<1>3. CASE Crash
    BY <1>3, CrashStep
<1>4. CASE Background /\ ~Crash
  <2>1. UNCHANGED reqVars
    BY <1>4 DEF Background, Clock, Expiry, Start, StartWithoutRelay, Subscribe, ListenerCrash,
                Flows
  <2> QED
    BY <1>4, <2>1, BackgroundFreezes, QuietStep
<1>5. CASE UNCHANGED vars
    BY <1>5, UnchangedFreezes, QuietStep DEF vars, baseVars, tableVars
<1> QED
    BY <1>1, <1>2, <1>3, <1>4, <1>5 DEF Next, Background

LEMMA LookupKeyInit == Init => LookupHasKey
BY DEF Init, RequestInit, LookupHasKey

LEMMA LookupKeyStep == ITypeOK /\ LookupHasKey /\ [Next]_vars => LookupHasKey'
<1> SUFFICES ASSUME ITypeOK, LookupHasKey, [Next]_vars, NEW p \in Requests,
                    pc'[p] = "lookup"
             PROVE  HasKey(req[p])'
    BY DEF LookupHasKey
<1> USE DEF ITypeOK, TypeOK, RequestTypeOK
<1>1. ASSUME pc[p] = "lookup", req' = req PROVE HasKey(req[p])'
    BY <1>1 DEF LookupHasKey, HasKey
<1>2. ASSUME NEW q \in Requests, NEW in \in Inputs, Request(q, in) PROVE HasKey(req[p])'
  <2>1. CASE p = q
    <3>1. req'[p] = in
      BY <1>2, <2>1 DEF Request
    <3>2. HasKey(in)
      BY <1>2, <2>1 DEF Request, Return, Build, Goto
    <3> QED
      BY <3>1, <3>2 DEF HasKey
  <2>2. CASE p # q
    <3>1. pc[p] = "lookup" /\ req'[p] = req[p]
      BY <1>2, <2>2 DEF Request, Return, Build, Goto
    <3> QED
      BY <3>1 DEF LookupHasKey, HasKey
  <2> QED
    BY <2>1, <2>2
<1>3. ASSUME NEW q \in Requests, RequestProceeds(q) \/ RequestFails(q) PROVE HasKey(req[p])'
  <2>1. req' = req
    BY <1>3 DEF RequestProceeds, Lookup, LookupOwner, Insert, Publish, SetReference, Notify,
                RequestFails, RequestDbFails, InsertReplyLost, PublishFails, SetReferenceFails
  <2>2. PICK label : label # "lookup" /\ pc' = [pc EXCEPT ![q] = label]
    BY <1>3 DEF RequestProceeds, Lookup, LookupOwner, Insert, Publish, SetReference, Notify,
                RequestFails, RequestDbFails, InsertReplyLost, PublishFails,
                SetReferenceFails, Goto, Return, Build
  <2> QED
    BY <1>1, <2>1, <2>2
<1>4. CASE UNCHANGED reqVars
    BY <1>1, <1>4 DEF reqVars
<1>5. CASE Background
    BY <1>1, <1>5, BackgroundFreezes
<1>6. CASE UNCHANGED vars
    BY <1>4, <1>6 DEF vars
<1> QED
    BY <1>2, <1>3, <1>4, <1>5, <1>6 DEF Next, Background, RequestStep

(* Producers see an atomic get-or-create per key.                             *)
THEOREM RegistryRefinement == Spec => ImplementsRegistry
<1>1. Spec => []LookupHasKey
  <2>1. ITypeOK /\ HubInv /\ LookupHasKey /\ [Next]_vars => LookupHasKey'
    BY LookupKeyStep
  <2> QED
    BY <2>1, LookupKeyInit, Invariance, PTL DEF Spec
<1>2. ITypeOK /\ HubInv /\ LookupHasKey /\ [Next]_vars => [ARegistry!Next]_(ARegistry!vars)
    BY RegistrySteps DEF RegistryStep, ARegistry!vars
<1> QED
    BY <1>1, <1>2, RegistryInit, Invariance, PTL DEF Spec, ImplementsRegistry, ARegistry!Spec

-----------------------------------------------------------------------------
(* The steps of Confirmation.                                                 *)
ConfirmationStep == AConfirmation!Next \/ UNCHANGED <<Status, Admitted, Decided>>

(* An attempt whose UPDATE committed is past it.                              *)
WrittenOnce == \A d \in writes : rpc[d] \notin {"idle", "sent", "get", "update"}

LEMMA ConfirmationInit == Init => AConfirmation!Init
<1> SUFFICES ASSUME Init PROVE AConfirmation!Init
    OBVIOUS
<1>1. Status = [q \in Requests |-> "absent"]
    BY DEF Init, TableInit, NoRow, Status
<1>2. Admitted = {} /\ Decided = {}
    BY DEF Init, ResolutionInit, Admitted, Decided
<1> QED
    BY <1>1, <1>2 DEF AConfirmation!Init

LEMMA TicketsDiffer ==
    ASSUME NEW d \in Decisions, NEW e \in Decisions, Ticket(d) = Ticket(e)
    PROVE  d = e
BY DEF Ticket

LEMMA TicketTypes ==
    ASSUME ITypeOK, AttemptsInv, NEW d \in Decisions, rpc[d] = "update"
    PROVE  /\ Ticket(d) \in AConfirmation!Ticket
           /\ Ticket(d).target = verdict[d].target
           /\ Ticket(d).verdict = Decision(verdict[d])
BY DEF AttemptsInv, AttemptOK, Ticket, Decision, AConfirmation!Ticket, AConfirmation!Rulings

(* Attempts that fall away, or only move where nobody looks.                  *)
LEMMA ForgettingStep ==
    ASSUME UNCHANGED <<Status, verdict, writes>>,
           \A d \in Decisions : rpc'[d] = "update" => rpc[d] = "update"
    PROVE  ConfirmationStep
<1>1. Decided' = Decided
    BY DEF Decided, Ticket
<1>2. Admitted' \in SUBSET Admitted
    BY DEF Admitted, Ticket
<1>3. AConfirmation!Forget
    BY <1>1, <1>2 DEF AConfirmation!Forget
<1> QED
    BY <1>3 DEF ConfirmationStep, AConfirmation!Next

LEMMA SameStatus ==
    ASSUME \A q \in Requests : rows'[q].status = rows[q].status
    PROVE  Status' = Status
BY DEF Status

(* The steps of a call: a row is created, or no status changes.               *)
LEMMA CreatingStep ==
    ASSUME ITypeOK, CallsInv, NEW q \in Requests, pc[q] = "insert",
           rows' = Inserted(q, draft[q]), UNCHANGED resVars
    PROVE  ConfirmationStep
<1>1. rows[q].status = "absent" /\ draft[q].status = "pending"
    BY DEF CallsInv, CallOK, Exists
<1>2. Status' = [Status EXCEPT ![q] = "pending"]
    BY <1>1 DEF Status, Inserted, ITypeOK, TypeOK, TableTypeOK
<1>3. UNCHANGED <<Admitted, Decided>>
    BY DEF Admitted, Decided, Ticket, resVars
<1>4. AConfirmation!Create(q)
    BY <1>1, <1>2, <1>3 DEF AConfirmation!Create, Status
<1> QED
    BY <1>4 DEF ConfirmationStep, AConfirmation!Next

LEMMA CallConfirms ==
    ASSUME ITypeOK, CallsInv, NEW q \in Requests, RequestStep(q), UNCHANGED resVars
    PROVE  ConfirmationStep
<1>1. CASE Insert(q) \/ InsertReplyLost(q)
  <2>1. CASE rows' = Inserted(q, draft[q])
    BY <1>1, <2>1, CreatingStep DEF Insert, InsertReplyLost
  <2>2. CASE rows' = rows
    BY <2>2, SameStatus, ForgettingStep DEF resVars
  <2> QED
    BY <1>1, <2>1, <2>2 DEF Insert, InsertReplyLost
<1>2. CASE rows' = rows \/ rows' = WithReference(q, draft[q])
  <2>1. \A p \in Requests : rows'[p].status = rows[p].status
    BY <1>2 DEF WithReference, ITypeOK, TypeOK, TableTypeOK, Row
  <2> QED
    BY <2>1, SameStatus, ForgettingStep DEF resVars
<1> QED
    BY <1>1, <1>2
       DEF RequestStep, Request, RequestProceeds, Lookup, LookupOwner, Publish, SetReference,
           Notify, RequestFails, RequestDbFails, PublishFails, SetReferenceFails,
           baseVars, tableVars

(* The steps of an attempt.                                                   *)
LEMMA AdmittingStep ==
    ASSUME ITypeOK, AttemptsInv, WrittenOnce, NEW d \in Decisions, GetRow(d)
    PROVE  ConfirmationStep
<1> USE DEF ITypeOK, TypeOK, ResolutionTypeOK
<1>1. /\ rpc[d] = "get" /\ d \notin writes
      /\ UNCHANGED <<rows, verdict, writes, Status>>
    BY DEF GetRow, resBaseVars, tableVars, WrittenOnce, Status
<1>2. CASE Open(verdict[d].target)
  <2>1. rpc' = [rpc EXCEPT ![d] = "update"] /\ Status[verdict[d].target] = "pending"
    BY <1>2 DEF GetRow, ResGoto, Open, Status
  <2>2. Ticket(d) \in AConfirmation!Ticket
    BY <1>2 DEF Ticket, Decision, Open, AConfirmation!Ticket, AConfirmation!Rulings
  <2>3. Admitted' = Admitted \cup {Ticket(d)} /\ Decided' = Decided
    BY <1>1, <2>1 DEF Admitted, Decided, Ticket
  <2>4. \A other \in Admitted \cup Decided : other.by # Ticket(d).by
    BY <1>1 DEF Admitted, Decided, Ticket
  <2>5. AConfirmation!Admit(Ticket(d))
    BY <1>1, <2>1, <2>3, <2>4 DEF AConfirmation!Admit, Ticket
  <2> QED
    BY <2>2, <2>5 DEF ConfirmationStep, AConfirmation!Next
<1>3. CASE ~Open(verdict[d].target)
  <2>1. \A e \in Decisions : rpc'[e] = "update" => rpc[e] = "update"
    BY <1>3 DEF GetRow, ResGoto
  <2> QED
    BY <1>1, <2>1, ForgettingStep
<1> QED
    BY <1>2, <1>3

LEMMA DecidingStep ==
    ASSUME ITypeOK, AttemptsInv, NEW d \in Decisions, rpc[d] = "update", Committed(d),
           UNCHANGED verdict, NEW label \in {"hooks", "raised"},
           rpc' = [rpc EXCEPT ![d] = label]
    PROVE  ConfirmationStep
<1> USE DEF ITypeOK, TypeOK, TableTypeOK, ResolutionTypeOK
<1>1. verdict[d].target \in Requests
    BY DEF AttemptsInv, AttemptOK
<1>2. Status' = [Status EXCEPT ![verdict[d].target] = Decision(verdict[d])]
  <2> DEFINE s == Decision(verdict[d])
             p == Written(rows[verdict[d].target], Merged(d))
  <2>1. rows' = [rows EXCEPT ![verdict[d].target] =
                     [rows[verdict[d].target] EXCEPT !.status = s, !.payload = p]]
    BY DEF Committed, UpdatedStatus
  <2> HIDE DEF s, p
  <2>2. \A q \in Requests :
            rows'[q].status = IF q = verdict[d].target THEN s ELSE rows[q].status
    BY <1>1, <2>1 DEF Row
  <2>3. Status' = [Status EXCEPT ![verdict[d].target] = s]
    BY <1>1, <2>2 DEF Status
  <2> QED
    BY <2>3 DEF s
<1>3. Ticket(d) \in Admitted
    BY DEF Admitted
<1>4. Decided' = Decided \cup {Ticket(d)}
    BY DEF Decided, Committed, Ticket
<1>5. Admitted' = Admitted \ {Ticket(d)}
  <2>1. \A e \in Decisions : Ticket(e)' = Ticket(e)
    BY DEF Ticket
  <2>2. \A e \in Decisions : rpc'[e] = "update" <=> rpc[e] = "update" /\ e # d
    OBVIOUS
  <2> QED
    BY <2>1, <2>2, TicketsDiffer DEF Admitted
<1>6. AConfirmation!Decide(Ticket(d))
    BY <1>2, <1>3, <1>4, <1>5, TicketTypes DEF AConfirmation!Decide
<1> QED
    BY <1>6, TicketTypes DEF ConfirmationStep, AConfirmation!Next

(* A new attempt changes what d asks for, when nobody counts d yet.           *)
LEMMA NewAttemptConfirms ==
    ASSUME ITypeOK, AttemptsInv, NEW d \in Decisions, NewAttempt(d)
    PROVE  ConfirmationStep
<1>1. PICK v \in Verdicts : Resolve(d, v) \/ SendAnswer(d, v)
    BY DEF NewAttempt
<1>2. PICK label \in {"get", "sent", "missed"} : Attempt(d, v, label)
    BY <1>1 DEF Resolve, SendAnswer
<1>3. d \notin writes /\ rpc[d] = "idle" /\ UNCHANGED <<rows, writes>>
    BY <1>2 DEF Attempt, AttemptsInv, AttemptOK, resBaseVars, tableVars
<1>4. \A e \in Decisions \ {d} : Ticket(e)' = Ticket(e) /\ rpc'[e] = rpc[e]
    BY <1>2 DEF Attempt, ResGoto, Ticket, ITypeOK, TypeOK, ResolutionTypeOK
<1>5. rpc'[d] # "update"
    BY <1>2 DEF Attempt, ResGoto, ITypeOK, TypeOK, ResolutionTypeOK
<1>6. UNCHANGED <<Status, Admitted, Decided>>
    BY <1>3, <1>4, <1>5 DEF Status, Admitted, Decided, ITypeOK, TypeOK, ResolutionTypeOK
<1> QED
    BY <1>6 DEF ConfirmationStep

LEMMA AttemptConfirms ==
    ASSUME ITypeOK, AttemptsInv, WrittenOnce, NEW d \in Decisions, ResolutionStep(d)
    PROVE  ConfirmationStep
<1>1. CASE GetRow(d)
    BY <1>1, AdmittingStep
<1>2. CASE Update(d) \/ UpdateReplyLost(d)
    BY <1>2, DecidingStep DEF Update, UpdateReplyLost, ResGoto
<1>3. CASE \/ HandleResolution(d) \/ Hooks(d) \/ Post(d)
           \/ ResolutionDbFails(d) \/ PostFails(d)
  <2>1. PICK label : label # "update" /\ rpc' = [rpc EXCEPT ![d] = label]
    BY <1>3 DEF HandleResolution, Hooks, Post, ResolutionDbFails, PostFails, ResGoto
  <2>2. UNCHANGED <<rows, verdict, writes>>
    BY <1>3 DEF HandleResolution, Hooks, Post, ResolutionDbFails, PostFails, resBaseVars, tableVars
  <2>3. \A e \in Decisions : rpc'[e] = "update" => rpc[e] = "update"
    BY <2>1 DEF ITypeOK, TypeOK, ResolutionTypeOK
  <2> QED
    BY <2>2, <2>3, SameStatus, ForgettingStep
<1> QED
    BY <1>1, <1>2, <1>3, NewAttemptConfirms
       DEF ResolutionStep, ResolutionProceeds, ResolutionFails

(* The background: one pass of the expiry task may settle many rows at once.  *)
LEMMA ExpiringStep ==
    ASSUME ITypeOK, Expiry
    PROVE  ConfirmationStep
<1> DEFINE Q == {q \in Requests : IsStale(rows[q])}
<1>1. Q \in SUBSET {q \in Requests : Status[q] = "pending"}
    BY DEF IsStale, Status
<1>2. Status' = [q \in Requests |-> IF q \in Q THEN "expired" ELSE Status[q]]
  <2> SUFFICES ASSUME NEW q \in Requests
               PROVE  rows'[q].status = IF q \in Q THEN "expired" ELSE rows[q].status
    BY DEF Status
  <2>1. rows'[q] = IF IsStale(rows[q]) THEN [rows[q] EXCEPT !.status = "expired"] ELSE rows[q]
    BY DEF Expiry, Sweep, ExpiredStale
  <2>2. rows[q] \in Row
    BY DEF ITypeOK, TypeOK, TableTypeOK
  <2> QED
    BY <2>1, <2>2 DEF Row
<1>3. UNCHANGED <<Admitted, Decided>>
    BY DEF Expiry, Flows, resVars, Admitted, Decided, Ticket
<1> HIDE DEF Q
<1>4. AConfirmation!Expire
    BY <1>1, <1>2, <1>3 DEF AConfirmation!Expire
<1> QED
    BY <1>4 DEF ConfirmationStep, AConfirmation!Next

LEMMA ConfirmationSteps ==
    ITypeOK /\ HubInv /\ WrittenOnce /\ [Next]_vars => ConfirmationStep
<1> SUFFICES ASSUME ITypeOK, HubInv, WrittenOnce, [Next]_vars PROVE ConfirmationStep
    OBVIOUS
<1> USE DEF HubInv
<1>1. CASE Background /\ ~Expiry
  <2>1. rows' = rows
    BY <1>1 DEF Background, Clock, Tick, Start, StartWithoutRelay, Subscribe, ListenerCrash,
                Crash, tableVars
  <2> QED
    BY <1>1, <2>1, BackgroundFreezes, SameStatus, ForgettingStep
<1>2. CASE UNCHANGED vars
    BY <1>2, SameStatus, ForgettingStep DEF vars, baseVars, tableVars, resVars
<1> QED
    BY <1>1, <1>2, CallConfirms, AttemptConfirms, ExpiringStep DEF Next, Background

LEMMA WrittenInit == Init => WrittenOnce
BY DEF Init, ResolutionInit, WrittenOnce

LEMMA WrittenStep == ITypeOK /\ HubInv /\ WrittenOnce /\ [Next]_vars => WrittenOnce'
<1> SUFFICES ASSUME ITypeOK, HubInv, WrittenOnce, [Next]_vars PROVE WrittenOnce'
    OBVIOUS
<1> USE DEF ITypeOK, TypeOK, ResolutionTypeOK
<1>1. ASSUME NEW d \in Decisions, ResolutionStep(d) PROVE WrittenOnce'
  <2>1. CASE Update(d) \/ UpdateReplyLost(d)
    BY <2>1 DEF Update, UpdateReplyLost, Committed, ResGoto, WrittenOnce
  <2>2. CASE NewAttempt(d)
    <3>1. d \notin writes
      BY <2>2 DEF NewAttempt, Resolve, SendAnswer, Attempt, HubInv, AttemptsInv, AttemptOK
    <3> QED
      BY <2>2, <3>1 DEF NewAttempt, Resolve, SendAnswer, Attempt, ResGoto, WrittenOnce
  <2>3. CASE ~(Update(d) \/ UpdateReplyLost(d) \/ NewAttempt(d))
    BY <1>1, <2>3 DEF ResolutionStep, ResolutionProceeds, ResolutionFails, HandleResolution,
                      GetRow, Hooks, Post, ResolutionDbFails, PostFails, ResGoto, WrittenOnce
  <2> QED
    BY <2>1, <2>2, <2>3
<1>2. CASE UNCHANGED resVars
    BY <1>2 DEF resVars, WrittenOnce
<1>3. CASE Background
    BY <1>3, BackgroundFreezes DEF WrittenOnce
<1> QED
    BY <1>1, <1>2, <1>3 DEF Next, Background, vars

(* Whoever follows a request sees it settled by its deadline or by attempts   *)
(* let in while it was pending.                                               *)
THEOREM ConfirmationRefinement == Spec => ImplementsConfirmation
<1>1. Spec => []WrittenOnce
    BY WrittenInit, WrittenStep, Invariance, PTL DEF Spec
<1>2. ITypeOK /\ HubInv /\ WrittenOnce /\ [Next]_vars
          => [AConfirmation!Next]_(AConfirmation!vars)
    BY ConfirmationSteps DEF ConfirmationStep, AConfirmation!vars
<1> QED
    BY <1>1, <1>2, ConfirmationInit, Invariance, PTL
       DEF Spec, ImplementsConfirmation, AConfirmation!Spec
=============================================================================
