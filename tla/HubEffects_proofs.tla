--------------------------- MODULE HubEffects_proofs ---------------------------
(* What a decision leaves behind, in the row's payload and at Memorium.       *)
EXTENDS HitlHub_proofs

(* What a committed UPDATE does to the table.                                 *)
LEMMA CommittedRow ==
    ASSUME ITypeOK, AttemptsInv, NEW d \in Decisions, rpc[d] = "update", Committed(d)
    PROVE  /\ verdict[d].target \in Requests /\ Exists(verdict[d].target)
           /\ rows'[verdict[d].target].status = Decision(verdict[d])
           /\ rows'[verdict[d].target].payload = Written(rows[verdict[d].target], Merged(d))
           /\ \A p \in Requests \ {verdict[d].target} : rows'[p] = rows[p]
<1> DEFINE t == verdict[d].target
           s == Decision(verdict[d])
           w == Written(rows[t], Merged(d))
<1>1. t \in Requests /\ Exists(t)
    BY DEF AttemptsInv, AttemptOK
<1>2. rows' = [rows EXCEPT ![t] = [rows[t] EXCEPT !.status = s, !.payload = w]]
    BY DEF Committed, UpdatedStatus
<1>3. rows \in [Requests -> Row]
    BY DEF ITypeOK, TypeOK, TableTypeOK
<1> HIDE DEF s, w
<1>4. rows'[t].status = s /\ rows'[t].payload = w
    BY <1>1, <1>2, <1>3 DEF Row
<1> QED
    BY <1>1, <1>2, <1>3, <1>4 DEF s, w

(* Rows whose status and payload a step leaves alone.                         *)
Same(q) == rows'[q].status = rows[q].status /\ rows'[q].payload = rows[q].payload

(* Every step of a call inserts its draft or leaves status and payload alone. *)
LEMMA RequestRows ==
    ASSUME ITypeOK, CallsInv, NEW q \in Requests, RequestStep(q)
    PROVE  \/ \A p \in Requests : Same(p)
           \/ /\ pc[q] = "insert" /\ UNCHANGED req
              /\ ~Exists(q) /\ rows'[q] = draft[q] /\ draft[q].status = "pending"
              /\ \A p \in Requests \ {q} : rows'[p] = rows[p]
<1>1. CASE Insert(q) \/ InsertReplyLost(q)
  <2>1. CASE rows' = rows
    BY <2>1 DEF Same
  <2>2. CASE rows' # rows
    BY <1>1, <2>2, InsertedRows DEF Insert, InsertReplyLost, CallsInv, CallOK
  <2> QED
    BY <2>1, <2>2
<1>2. CASE rows' = rows
    BY <1>2 DEF Same
<1>3. CASE rows' = WithReference(q, draft[q])
    BY <1>3 DEF Same, WithReference, ITypeOK, TypeOK, TableTypeOK, Row
<1> QED
    BY <1>1, <1>2, <1>3
       DEF RequestStep, Request, RequestProceeds, Lookup, LookupOwner, Publish,
           SetReference, Notify, RequestFails, RequestDbFails, PublishFails,
           SetReferenceFails, baseVars, tableVars

-----------------------------------------------------------------------------
(* PayloadInv.                                                                *)
LEMMA PayloadInit == Init => PayloadInv
BY DEF Init, TableInit, RequestInit, ResolutionInit, NoRow, PayloadInv, DraftPayload,
       RowPayload, CopiedPayload, Exists

(* The call of q: its draft is built from what it was asked.                  *)
LEMMA RequestDrafts ==
    ASSUME ITypeOK, PayloadInv, NEW q \in Requests, RequestStep(q), NEW p \in Requests
    PROVE  DraftPayload(p)'
<1> USE DEF ITypeOK, TypeOK, RequestTypeOK
<1>1. DraftPayload(p)
    BY DEF PayloadInv
<1>2. CASE p # q
  <2>1. pc'[p] = pc[p] /\ draft'[p] = draft[p] /\ req'[p] = req[p]
    <3>1. CASE \E in \in Inputs : Request(q, in)
      BY <1>2, <3>1 DEF Request, Goto, Return, Build
    <3>2. CASE RequestProceeds(q)
      BY <1>2, <3>2 DEF RequestProceeds, Lookup, LookupOwner, Insert, Publish, SetReference,
                        Notify, Goto, Return, Build
    <3>3. CASE RequestFails(q)
      BY <1>2, <3>3 DEF RequestFails, RequestDbFails, InsertReplyLost, PublishFails,
                        SetReferenceFails, Goto
    <3> QED
      BY <3>1, <3>2, <3>3 DEF RequestStep
  <2> QED
    BY <1>1, <2>1 DEF DraftPayload
<1>3. CASE p = q
  <2>1. ASSUME NEW in \in Inputs, Request(q, in) PROVE DraftPayload(q)'
    <3>1. req'[q] = in
      BY <2>1 DEF Request
    <3>2. CASE Build(q, in)
      <4>1. draft'[q] = FromRequest(in)
        BY <3>2 DEF Build
      <4> QED
        BY <3>1, <4>1 DEF DraftPayload, FromRequest
    <3>3. CASE ~Build(q, in)
      BY <2>1, <3>3 DEF Request, Return, Goto, DraftPayload
    <3> QED
      BY <3>2, <3>3
  <2>2. CASE Lookup(q)
    <3>1. CASE Build(q, req[q])
      <4>1. draft'[q] = FromRequest(req[q]) /\ req' = req
        BY <2>2, <3>1 DEF Build, Lookup
      <4> QED
        BY <1>3, <4>1 DEF DraftPayload, FromRequest
    <3>2. CASE ~Build(q, req[q])
      <4>1. pc'[q] = "done"
        BY <2>2, <3>2 DEF Lookup, Return, Goto
      <4> QED
        BY <1>3, <4>1 DEF DraftPayload
    <3> QED
      BY <3>1, <3>2
  <2>3. CASE LookupOwner(q)
    <3>1. draft[q] \in Row /\ pc[q] = "owner"
      BY <2>3 DEF LookupOwner
    <3>2. draft'[q].payload = draft[q].payload
      BY <2>3, <3>1 DEF LookupOwner, Row
    <3> QED
      BY <1>1, <1>3, <2>3, <3>1, <3>2 DEF LookupOwner, DraftPayload
  <2>4. CASE \/ Insert(q) \/ Publish(q) \/ SetReference(q) \/ Notify(q)
           \/ RequestFails(q)
    <3>1. pc'[q] \notin {"owner", "insert"}
      BY <2>4 DEF Insert, Publish, SetReference, Notify, RequestFails, RequestDbFails,
                  InsertReplyLost, PublishFails, SetReferenceFails, Goto, Return
    <3> QED
      BY <1>3, <3>1 DEF DraftPayload
  <2> QED
    BY <1>3, <2>1, <2>2, <2>3, <2>4 DEF RequestStep, RequestProceeds
<1> QED
    BY <1>2, <1>3

(* What a row that is there was asked does not change.                        *)
LEMMA AskedOnce ==
    ASSUME ITypeOK, CallsInv, NEW q \in Requests, RequestStep(q),
           NEW p \in Requests, Exists(p)
    PROVE  req'[p] = req[p]
BY DEF RequestStep, Request, RequestProceeds, Lookup, LookupOwner, Insert, Publish,
       SetReference, Notify, RequestFails, RequestDbFails, InsertReplyLost, PublishFails,
       SetReferenceFails, CallsInv, CallOK, ITypeOK, TypeOK, RequestTypeOK

LEMMA RequestPayload ==
    ASSUME ITypeOK, HubInv, PayloadInv, NEW q \in Requests, RequestStep(q), UNCHANGED resVars
    PROVE  PayloadInv'
<1> USE DEF HubInv
<1>1. ASSUME NEW p \in Requests PROVE RowPayload(p)'
  <2>0. RowPayload(p)
    BY DEF PayloadInv
  <2>1. CASE \A r \in Requests : Same(r)
    BY <2>0, <2>1, AskedOnce DEF RowPayload, Same, Exists
  <2>2. CASE /\ pc[q] = "insert" /\ UNCHANGED req
             /\ ~Exists(q) /\ rows'[q] = draft[q] /\ draft[q].status = "pending"
             /\ \A r \in Requests \ {q} : rows'[r] = rows[r]
    <3>1. CASE p = q
      <4>1. rows'[q].payload = [details |-> req[q].details, resolution |-> "none"]
        BY <2>2 DEF PayloadInv, DraftPayload
      <4> QED
        BY <2>2, <3>1, <4>1 DEF RowPayload
    <3>2. CASE p # q
      BY <2>0, <2>2, <3>2 DEF RowPayload, Exists
    <3> QED
      BY <3>1, <3>2
  <2> QED
    BY <2>1, <2>2, RequestRows
<1>2. ASSUME NEW d \in Decisions PROVE CopiedPayload(d)'
  <2>1. CASE rpc[d] = "update"
    <3>1. verdict[d].target \in Requests /\ Exists(verdict[d].target)
      BY <2>1 DEF AttemptsInv, AttemptOK
    <3> QED
      BY <3>1, AskedOnce DEF PayloadInv, CopiedPayload, resVars
  <2>2. CASE rpc[d] # "update"
    BY <2>2 DEF CopiedPayload, resVars
  <2> QED
    BY <2>1, <2>2
<1> QED
    BY <1>1, <1>2, RequestDrafts DEF PayloadInv

(* An attempt writes the copy it took of a pending row, with its own          *)
(* resolution.                                                                *)
LEMMA CommittedPayload ==
    ASSUME ITypeOK, AttemptsInv, PayloadInv, NEW d \in Decisions, rpc[d] = "update",
           Committed(d), UNCHANGED req, NEW p \in Requests
    PROVE  RowPayload(p)'
<1> DEFINE t == verdict[d].target
<1>0. RowPayload(p) /\ RowPayload(t) /\ CopiedPayload(d)
    BY CommittedRow DEF PayloadInv
<1>1. CASE p # t
    BY <1>0, <1>1, CommittedRow DEF RowPayload, Exists
<1>2. CASE p = t
  <2>1. rows[t].payload.details = req[t].details /\ req[t].details \in BOOLEAN
    BY <1>0, CommittedRow DEF RowPayload, ITypeOK, TypeOK, RequestTypeOK, RequestInput
  <2>2. /\ Merged(d).details = req[t].details
        /\ Merged(d).resolution = IF ~verdict[d].approved THEN "reason"
                                   ELSE IF verdict[d].response THEN "response" ELSE "none"
    BY <1>0 DEF CopiedPayload, Merged
  <2>3. rows'[t].payload = IF Merged(d).details \/ Merged(d).resolution # "none"
                           THEN Merged(d) ELSE rows[t].payload
    BY CommittedRow DEF Written, NonEmpty
  <2>4. rows'[t].status = IF verdict[d].approved THEN "approved" ELSE "rejected"
    BY CommittedRow DEF Decision
  <2>5. rows'[t].payload.details = req[t].details
    BY <2>1, <2>2, <2>3
  <2>6. ~verdict[d].approved => rows'[t].payload.resolution = "reason"
    BY <2>2, <2>3
  <2>7. verdict[d].approved /\ rows'[t].payload.details => rows'[t].payload.resolution # "reason"
    BY <2>1, <2>2, <2>3, <2>5
  <2> QED
    BY <1>2, <2>4, <2>5, <2>6, <2>7 DEF RowPayload
<1> QED
    BY <1>1, <1>2

LEMMA ResolutionPayload ==
    ASSUME ITypeOK, HubInv, PayloadInv, NEW d \in Decisions, ResolutionStep(d),
           UNCHANGED reqVars
    PROVE  PayloadInv'
<1> USE DEF ITypeOK, TypeOK, ResolutionTypeOK, HubInv
<1>1. \A p \in Requests : DraftPayload(p)'
    BY DEF PayloadInv, DraftPayload, reqVars
<1>2. \A p \in Requests : RowPayload(p)'
  <2>1. CASE Update(d) \/ UpdateReplyLost(d)
    BY <2>1, CommittedPayload DEF Update, UpdateReplyLost, reqVars
  <2>2. CASE rows' = rows
    BY <2>2 DEF PayloadInv, RowPayload, Exists, reqVars
  <2> QED
    BY <2>1, <2>2
       DEF ResolutionStep, NewAttempt, Resolve, SendAnswer, Attempt, ResolutionProceeds,
           HandleResolution, GetRow, Hooks, Post, ResolutionFails, ResolutionDbFails,
           PostFails, resBaseVars, tableVars
<1>3. ASSUME NEW e \in Decisions PROVE CopiedPayload(e)'
  <2>0. CopiedPayload(e)
    BY DEF PayloadInv
  <2>1. CASE e = d /\ GetRow(d)
    <3> SUFFICES ASSUME rpc'[d] = "update"
                 PROVE  snap'[d] = [details |-> req[verdict[d].target].details,
                                    resolution |-> "none"] /\ verdict' = verdict
      BY <2>1 DEF CopiedPayload, reqVars
    <3>1. Open(verdict[d].target) /\ snap'[d] = rows[verdict[d].target].payload
      BY <2>1 DEF GetRow, ResGoto
    <3>2. /\ rows[verdict[d].target].payload.details = req[verdict[d].target].details
          /\ rows[verdict[d].target].payload.resolution = "none"
          /\ rows[verdict[d].target].payload \in Payload
      BY <3>1 DEF Open, Exists, PayloadInv, RowPayload, TableTypeOK, Row
    <3> QED
      BY <2>1, <3>1, <3>2 DEF GetRow, Payload
  <2>2. CASE rpc'[e] # "update"
    BY <2>2 DEF CopiedPayload
  <2>3. CASE rpc'[e] = rpc[e] /\ verdict'[e] = verdict[e] /\ snap'[e] = snap[e]
    BY <2>0, <2>3 DEF CopiedPayload, reqVars
  <2> QED
    BY <2>1, <2>2, <2>3
       DEF ResolutionStep, NewAttempt, Resolve, SendAnswer, Attempt, ResGoto,
           ResolutionProceeds, HandleResolution, GetRow, Update, Hooks, Post,
           ResolutionFails, ResolutionDbFails, UpdateReplyLost, PostFails
<1> QED
    BY <1>1, <1>2, <1>3 DEF PayloadInv

LEMMA BackgroundPayload ==
    ASSUME ITypeOK, PayloadInv, Background
    PROVE  PayloadInv'
<1>1. UNCHANGED <<req, draft, verdict, snap>>
    BY DEF Background, Clock, Expiry, Start, StartWithoutRelay, Subscribe, ListenerCrash, Crash,
           LoseRequests, LoseAnswers, LoseResolutions, Flows, reqVars, resVars
<1>2. ASSUME NEW p \in Requests PROVE RowPayload(p)' /\ DraftPayload(p)'
  <2>1. DraftPayload(p)'
    BY <1>1, BackgroundFreezes DEF PayloadInv, DraftPayload
  <2>2. CASE Expiry
    <3>1. rows'[p] = IF IsStale(rows[p]) THEN [rows[p] EXCEPT !.status = "expired"] ELSE rows[p]
      BY <2>2 DEF Expiry, Sweep, ExpiredStale
    <3>2. rows[p] \in Row
      BY DEF ITypeOK, TypeOK, TableTypeOK
    <3>3. IsStale(rows[p]) => rows[p].status = "pending"
      BY DEF IsStale
    <3> QED
      BY <1>1, <2>1, <3>1, <3>2, <3>3 DEF PayloadInv, RowPayload, Exists, Row
  <2>3. CASE ~Expiry
    <3>1. rows' = rows
      BY <2>3 DEF Background, Clock, Tick, Start, StartWithoutRelay, Subscribe, ListenerCrash,
                  Crash, tableVars
    <3> QED
      BY <1>1, <2>1, <3>1 DEF PayloadInv, RowPayload, Exists
  <2> QED
    BY <2>2, <2>3
<1>3. \A d \in Decisions : CopiedPayload(d)'
    BY <1>1, BackgroundFreezes DEF PayloadInv, CopiedPayload
<1> QED
    BY <1>2, <1>3 DEF PayloadInv

LEMMA PayloadStep == ITypeOK /\ HubInv /\ PayloadInv /\ [Next]_vars => PayloadInv'
<1>1. ASSUME PayloadInv, UNCHANGED vars PROVE PayloadInv'
    BY <1>1 DEF PayloadInv, DraftPayload, RowPayload, CopiedPayload, Exists, vars, baseVars,
                tableVars, reqVars, resVars
<1> QED
    BY <1>1, RequestPayload, ResolutionPayload, BackgroundPayload DEF Next, Background

(* What a row says about its decision matches the decision, and its details   *)
(* are never lost.                                                            *)
THEOREM DecisionPayload == Spec => []DecisionMatchesPayload
<1>1. PayloadInv => DecisionMatchesPayload
    BY DEF PayloadInv, RowPayload, DecisionMatchesPayload
<1> QED
    BY <1>1, PayloadInit, PayloadStep, Invariance, PTL DEF Spec

-----------------------------------------------------------------------------
(* EffectsInv.                                                                *)
LEMMA EffectsInit == Init => EffectsInv
BY DEF Init, ResolutionInit, LifecycleInit, EffectsInv, WriterOK

(* A step that keeps decided rows decided as they are, and neither writes nor *)
(* tells Memorium.                                                            *)
LEMMA EffectsRest ==
    ASSUME ITypeOK, EffectsInv, UNCHANGED <<verdict, writes, memorium>>,
           \A q \in Requests :
               rows[q].status \in {"approved", "rejected"} => rows'[q].status = rows[q].status,
           \A d \in Decisions : rpc'[d] = rpc[d] \/ rpc'[d] \notin {"hooks", "post"}
    PROVE  EffectsInv'
<1>1. ASSUME NEW d \in Decisions PROVE WriterOK(d)'
    BY DEF EffectsInv, WriterOK, OnlyWriter
<1>2. ASSUME NEW call \in memorium PROVE CallTrue(call)'
    BY DEF EffectsInv, CallTrue
<1> QED
    BY <1>1, <1>2 DEF EffectsInv

LEMMA NewAttemptEffects ==
    ASSUME ITypeOK, AttemptsInv, EffectsInv, NEW d \in Decisions, NewAttempt(d)
    PROVE  EffectsInv'
<1> USE DEF ITypeOK, TypeOK, ResolutionTypeOK
<1>1. PICK v \in Verdicts : Resolve(d, v) \/ SendAnswer(d, v)
    BY DEF NewAttempt
<1>2. PICK label \in {"get", "sent", "missed"} : Attempt(d, v, label)
    BY <1>1 DEF Resolve, SendAnswer
<1>3. /\ d \notin writes
      /\ UNCHANGED <<rows, writes, memorium>>
    BY <1>2 DEF Attempt, AttemptsInv, AttemptOK, resBaseVars, tableVars, lifecycleVars
<1>4. \A e \in Decisions : e # d => verdict'[e] = verdict[e] /\ rpc'[e] = rpc[e]
    BY <1>2 DEF Attempt, ResGoto
<1>5. rpc'[d] \notin {"hooks", "post"}
    BY <1>2 DEF Attempt, ResGoto
<1>6. ASSUME NEW e \in Decisions PROVE WriterOK(e)'
  <2>1. CASE e = d
    BY <1>3, <1>5, <2>1 DEF WriterOK
  <2>2. CASE e # d
    BY <1>3, <1>4, <2>2 DEF EffectsInv, WriterOK, OnlyWriter
  <2> QED
    BY <2>1, <2>2
<1>7. ASSUME NEW call \in memorium PROVE CallTrue(call)'
    BY <1>3, <1>4 DEF EffectsInv, CallTrue
<1> QED
    BY <1>3, <1>6, <1>7 DEF EffectsInv

(* The one UPDATE of an attempt; whoever wrote the row before it is no longer *)
(* its only writer.                                                           *)
LEMMA CommittedEffects ==
    ASSUME ITypeOK, AttemptsInv, EffectsInv, NEW d \in Decisions, rpc[d] = "update",
           Committed(d), UNCHANGED <<verdict, memorium>>,
           NEW label \in {"hooks", "raised"}, rpc' = [rpc EXCEPT ![d] = label]
    PROVE  EffectsInv'
<1> USE DEF ITypeOK, TypeOK, ResolutionTypeOK
<1>1. writes' = writes \cup {d}
    BY DEF Committed
<1>2. Decision(verdict[d]) \in {"approved", "rejected"}
    BY DEF Decision
<1>3. ASSUME NEW e \in Decisions PROVE WriterOK(e)'
  <2>0. WriterOK(e)
    BY DEF EffectsInv
  <2>1. CASE e = d
    BY <1>1, <1>2, <2>1, CommittedRow DEF WriterOK, Decision
  <2>2. CASE e # d /\ e \in writes /\ verdict[e].target = verdict[d].target
    <3>1. ~OnlyWriter(e)'
      BY <1>1, <2>2 DEF OnlyWriter
    <3> QED
      BY <1>1, <1>2, <2>0, <2>2, <3>1, CommittedRow DEF WriterOK
  <2>3. CASE e # d /\ e \in writes /\ verdict[e].target # verdict[d].target
    <3>1. OnlyWriter(e)' => OnlyWriter(e)
      BY <1>1 DEF OnlyWriter
    <3>2. rows'[verdict[e].target] = rows[verdict[e].target]
      BY <2>0, <2>3, CommittedRow DEF WriterOK
    <3> QED
      BY <1>1, <2>0, <2>3, <3>1, <3>2 DEF WriterOK, Decision
  <2>4. CASE e # d /\ e \notin writes
    BY <1>1, <2>0, <2>4 DEF WriterOK
  <2> QED
    BY <2>1, <2>2, <2>3, <2>4
<1>4. ASSUME NEW call \in memorium PROVE CallTrue(call)'
    BY <1>1 DEF EffectsInv, CallTrue
<1> QED
    BY <1>3, <1>4 DEF EffectsInv

LEMMA TellingEffects ==
    ASSUME ITypeOK, EffectsInv, NEW d \in Decisions, rpc[d] = "post",
           memorium' \in {memorium, Told(d)}, UNCHANGED <<rows, verdict, writes>>,
           rpc' = [rpc EXCEPT ![d] = "done"]
    PROVE  EffectsInv'
<1>1. ASSUME NEW e \in Decisions PROVE WriterOK(e)'
    BY DEF EffectsInv, WriterOK, OnlyWriter, ITypeOK, TypeOK, ResolutionTypeOK
<1>2. d \in writes
    BY DEF EffectsInv, WriterOK
<1>3. ASSUME NEW call \in memorium' PROVE CallTrue(call)'
    BY <1>2 DEF EffectsInv, CallTrue, Told
<1> QED
    BY <1>1, <1>3 DEF EffectsInv

LEMMA AttemptEffects ==
    ASSUME ITypeOK, AttemptsInv, EffectsInv, NEW d \in Decisions, ResolutionStep(d)
    PROVE  EffectsInv'
<1>1. CASE NewAttempt(d)
    BY <1>1, NewAttemptEffects
<1>2. CASE Update(d) \/ UpdateReplyLost(d)
    BY <1>2, CommittedEffects DEF Update, UpdateReplyLost, ResGoto, lifecycleVars
<1>3. CASE Post(d) \/ PostFails(d)
    BY <1>3, TellingEffects DEF Post, PostFails, ResGoto, tableVars
<1>4. CASE HandleResolution(d) \/ GetRow(d) \/ ResolutionDbFails(d)
  <2>1. PICK label : label \notin {"hooks", "post"} /\ rpc' = [rpc EXCEPT ![d] = label]
    BY <1>4 DEF HandleResolution, GetRow, ResolutionDbFails, ResGoto
  <2>2. UNCHANGED <<rows, verdict, writes, memorium>>
    BY <1>4 DEF HandleResolution, GetRow, ResolutionDbFails, resBaseVars, tableVars, lifecycleVars
  <2>3. \A e \in Decisions : rpc'[e] = rpc[e] \/ rpc'[e] \notin {"hooks", "post"}
    BY <2>1 DEF ITypeOK, TypeOK, ResolutionTypeOK
  <2> QED
    BY <2>2, <2>3, EffectsRest
<1>5. CASE Hooks(d)
  <2>1. UNCHANGED <<rows, verdict, writes, memorium>> /\ rpc[d] = "hooks"
    BY <1>5 DEF Hooks, OnResolved, tableVars
  <2>2. \A e \in Decisions : rpc'[e] = rpc[e] \/ e = d
    BY <1>5 DEF Hooks, ResGoto, ITypeOK, TypeOK, ResolutionTypeOK
  <2>3. ASSUME NEW e \in Decisions PROVE WriterOK(e)'
    BY <2>1, <2>2 DEF EffectsInv, WriterOK, OnlyWriter
  <2>4. ASSUME NEW call \in memorium PROVE CallTrue(call)'
    BY <2>1 DEF EffectsInv, CallTrue
  <2> QED
    BY <2>1, <2>3, <2>4 DEF EffectsInv
<1> QED
    BY <1>1, <1>2, <1>3, <1>4, <1>5 DEF ResolutionStep, ResolutionProceeds, ResolutionFails

LEMMA EffectsStep == ITypeOK /\ HubInv /\ EffectsInv /\ [Next]_vars => EffectsInv'
<1> SUFFICES ASSUME ITypeOK, HubInv, EffectsInv, [Next]_vars PROVE EffectsInv'
    OBVIOUS
<1> USE DEF HubInv
<1>1. ASSUME NEW q \in Requests, RequestStep(q), UNCHANGED resVars PROVE EffectsInv'
  <2>1. memorium' = memorium
    BY <1>1 DEF RequestStep, Request, RequestProceeds, Lookup, LookupOwner, Insert, Publish,
                SetReference, Notify, OnCreated, RequestFails, RequestDbFails,
                InsertReplyLost, PublishFails, SetReferenceFails, baseVars, lifecycleVars
  <2>2. \A p \in Requests :
            rows[p].status \in {"approved", "rejected"} => rows'[p].status = rows[p].status
    BY <1>1, RequestKeeps DEF Kept, Exists
  <2> QED
    BY <1>1, <2>1, <2>2, EffectsRest DEF resVars
<1>2. CASE Background
  <2>1. memorium' = memorium
    BY <1>2 DEF Background, Clock, Expiry, Sweep, Start, StartWithoutRelay, Subscribe,
                ListenerCrash, Crash, lifecycleVars
  <2>2. ASSUME NEW p \in Requests, rows[p].status \in {"approved", "rejected"}
        PROVE  rows'[p].status = rows[p].status
    <3>1. CASE Expiry
      BY <2>2, <3>1 DEF Expiry, Sweep, ExpiredStale, IsStale
    <3>2. CASE ~Expiry
      BY <1>2, <3>2 DEF Background, Clock, Tick, Start, StartWithoutRelay, Subscribe,
                        ListenerCrash, Crash, tableVars
    <3> QED
      BY <3>1, <3>2
  <2>3. \A d \in Decisions : rpc'[d] = rpc[d] \/ rpc'[d] \notin {"hooks", "post"}
    BY <1>2, BackgroundFreezes
  <2> QED
    BY <1>2, <2>1, <2>2, <2>3, BackgroundFreezes, EffectsRest
<1>3. CASE UNCHANGED vars
    BY <1>3, EffectsRest DEF vars, baseVars, tableVars, lifecycleVars, resVars
<1> QED
    BY <1>1, <1>2, <1>3, AttemptEffects DEF Next, Background

(* Memorium hears of committed decisions only, and hears what the row says    *)
(* unless two attempts wrote it.                                              *)
THEOREM MemoriumAgreement == Spec => []MemoriumAgrees
<1>1. ITypeOK /\ EffectsInv => MemoriumAgrees
  <2> SUFFICES ASSUME ITypeOK, EffectsInv, NEW call \in memorium
               PROVE  /\ call.by \in writes
                      /\ (\A d \in writes : verdict[d].target = call.proposal => d = call.by)
                            => rows[call.proposal].status =
                                   IF call.approved THEN "approved" ELSE "rejected"
    BY DEF MemoriumAgrees
  <2>1. CallTrue(call) /\ call.by \in Decisions
    BY DEF EffectsInv, ITypeOK, TypeOK, LifecycleTypeOK, Call
  <2>2. WriterOK(call.by)
    BY <2>1 DEF EffectsInv
  <2> QED
    BY <2>1, <2>2 DEF CallTrue, WriterOK, OnlyWriter, Decision
<1> QED
    BY <1>1, EffectsInit, EffectsStep, Invariance, PTL DEF Spec

-----------------------------------------------------------------------------
(* What was written stays written, by whom and for what.                      *)
LEMMA WritesStay ==
    ITypeOK /\ HubInv /\ [Next]_vars =>
        /\ \A d \in writes : d \in writes' /\ verdict'[d] = verdict[d]
        /\ \A q \in Requests : Exists(q) => Exists(q)' /\ req'[q] = req[q]
<1> SUFFICES ASSUME ITypeOK, HubInv, [Next]_vars
             PROVE  /\ \A d \in writes : d \in writes' /\ verdict'[d] = verdict[d]
                    /\ \A q \in Requests : Exists(q) => Exists(q)' /\ req'[q] = req[q]
    OBVIOUS
<1> USE DEF HubInv
<1>1. CASE \E q \in Requests : RequestStep(q) /\ UNCHANGED resVars
    BY <1>1, RequestKeeps, AskedOnce DEF Kept, resVars
<1>2. ASSUME NEW e \in Decisions, ResolutionStep(e), UNCHANGED reqVars,
             NEW d \in writes
      PROVE  d \in writes' /\ verdict'[d] = verdict[d]
  <2>1. CASE NewAttempt(e)
    <3>1. e \notin writes
      BY <2>1 DEF NewAttempt, Resolve, SendAnswer, Attempt, AttemptsInv, AttemptOK
    <3> QED
      BY <2>1, <3>1 DEF NewAttempt, Resolve, SendAnswer, Attempt, ITypeOK, TypeOK,
                        ResolutionTypeOK
  <2>2. CASE ~NewAttempt(e)
    BY <1>2, <2>2 DEF ResolutionStep, ResolutionProceeds, HandleResolution, GetRow, Update,
                      Hooks, Post, ResolutionFails, ResolutionDbFails, UpdateReplyLost,
                      PostFails, Committed
  <2> QED
    BY <2>1, <2>2
<1>3. CASE \E e \in Decisions : ResolutionStep(e) /\ UNCHANGED reqVars
    BY <1>2, <1>3, ResolutionFreezes DEF Frozen, reqVars
<1>4. CASE Background
    BY <1>4, BackgroundFreezes DEF Frozen
<1>5. CASE UNCHANGED vars
    BY <1>5, UnchangedFreezes DEF Frozen, vars, baseVars, tableVars, reqVars, resVars
<1> QED
    BY <1>1, <1>3, <1>4, <1>5 DEF Next, Background

(* A row changes to a decision only by an UPDATE with that verdict.           *)
LEMMA DecisionsCommitted ==
    ASSUME ITypeOK, HubInv, [Next]_vars, NEW q \in Requests,
           rows'[q].status \in {"approved", "rejected"}, rows'[q].status # rows[q].status
    PROVE  \E d \in Decisions : /\ d \in writes' /\ verdict'[d].target = q
                                /\ Decision(verdict'[d]) = rows'[q].status
<1> USE DEF HubInv
<1>1. ASSUME NEW p \in Requests, RequestStep(p) PROVE FALSE
    BY <1>1, RequestRows DEF Same
<1>2. ASSUME NEW d \in Decisions, ResolutionStep(d)
      PROVE  /\ d \in writes' /\ verdict'[d].target = q
             /\ Decision(verdict'[d]) = rows'[q].status
  <2>1. rows' # rows
    OBVIOUS
  <2>2. Update(d) \/ UpdateReplyLost(d)
    BY <1>2, <2>1
       DEF ResolutionStep, NewAttempt, Resolve, SendAnswer, Attempt, ResolutionProceeds,
           HandleResolution, GetRow, Hooks, Post, ResolutionFails, ResolutionDbFails,
           PostFails, resBaseVars, tableVars
  <2>3. rpc[d] = "update" /\ Committed(d) /\ verdict' = verdict
    BY <2>2 DEF Update, UpdateReplyLost
  <2>4. verdict[d].target = q
    BY <2>3, CommittedRow
  <2> QED
    BY <2>3, <2>4, CommittedRow DEF Committed
<1>3. CASE Background
  <2>1. CASE Expiry
    <3>1. rows'[q] = IF IsStale(rows[q]) THEN [rows[q] EXCEPT !.status = "expired"] ELSE rows[q]
      BY <2>1 DEF Expiry, Sweep, ExpiredStale
    <3> QED
      BY <3>1 DEF ITypeOK, TypeOK, TableTypeOK, Row
  <2>2. CASE ~Expiry
    BY <1>3, <2>2 DEF Background, Clock, Tick, Start, StartWithoutRelay, Subscribe,
                      ListenerCrash, Crash, tableVars
  <2> QED
    BY <2>1, <2>2
<1>4. CASE UNCHANGED vars
    BY <1>4 DEF vars, baseVars, tableVars
<1> QED
    BY <1>1, <1>2, <1>3, <1>4 DEF Next, Background

LEMMA DecidedInit == Init => DecidedByAttempt
BY DEF Init, TableInit, NoRow, DecidedByAttempt

LEMMA DecidedStep == ITypeOK /\ HubInv /\ DecidedByAttempt /\ [Next]_vars => DecidedByAttempt'
<1> SUFFICES ASSUME ITypeOK, HubInv, DecidedByAttempt, [Next]_vars, NEW q \in Requests,
                    rows'[q].status \in {"approved", "rejected"}
             PROVE  \E d \in writes' : /\ verdict'[d].target = q
                                        /\ Decision(verdict'[d]) = rows'[q].status
    BY DEF DecidedByAttempt, Decision
<1>1. CASE rows'[q].status = rows[q].status
  <2>1. PICK d \in writes : verdict[d].target = q /\ Decision(verdict[d]) = rows[q].status
    BY <1>1 DEF DecidedByAttempt
  <2> QED
    BY <1>1, <2>1, WritesStay
<1>2. CASE rows'[q].status # rows[q].status
    BY <1>2, DecisionsCommitted
<1> QED
    BY <1>1, <1>2

(* No decision is made up.                                                    *)
THEOREM DecisionsHaveAuthors == Spec => []DecidedByAttempt
BY DecidedInit, DecidedStep, Invariance, PTL DEF Spec

-----------------------------------------------------------------------------
(* Why a new request is in its owner's inbox while nothing fails: a process   *)
(* that runs is connected, so a coroutine reaches its created hooks only past *)
(* the publication, unless there is no owner to publish for.                  *)
Connected == /\ \A q \in Requests : pc[q] \in InRequest => hub # "down"
             /\ faults = 0 => hub # "dbonly"

ReferenceOK(q) ==
    faults = 0 /\ (pc[q] = "notify" \/ (pc[q] = "done" /\ answer[q].id = q))
        /\ rows[q].owner # NoOwner => rows[q].referenced

PublishInv == Connected /\ \A q \in Requests : ReferenceOK(q)

LEMMA PublishInit == Init => PublishInv
BY DEF Init, BridgeInit, RequestInit, PublishInv, Connected, ReferenceOK, InRequest

LEMMA FaultsCount == ITypeOK /\ [Next]_vars => (faults' = 0 => faults = 0)
<1> SUFFICES ASSUME ITypeOK, [Next]_vars PROVE faults' = faults \/ faults' = faults + 1
    BY BoundAssumption DEF ITypeOK, TypeOK, TableTypeOK
<1> QED
    BY DEF Next, RequestStep, Request, RequestProceeds, Lookup, LookupOwner, Insert, Publish,
           SetReference, Notify, RequestFails, RequestDbFails, InsertReplyLost, PublishFails,
           SetReferenceFails, ResolutionStep, NewAttempt, Resolve, SendAnswer, Attempt,
           ResolutionProceeds, HandleResolution, GetRow, Update, Hooks, Post, ResolutionFails,
           ResolutionDbFails, UpdateReplyLost, PostFails, Clock, Tick, Expiry, Sweep, Start,
           StartWithoutRelay, Subscribe, ListenerCrash, Crash, Fault, resBaseVars, baseVars,
           tableVars, vars

LEMMA RequestPublishes ==
    ASSUME ITypeOK, HubInv, PublishInv, NEW q \in Requests, RequestStep(q)
    PROVE  PublishInv'
<1> USE DEF ITypeOK, TypeOK, TableTypeOK, RequestTypeOK, BridgeTypeOK, Goto, Return
<1>1. /\ hub' = hub /\ hub # "down"
      /\ \A p \in Requests \ {q} : pc'[p] = pc[p] /\ answer'[p] = answer[p]
                                  /\ rows'[p] = rows[p]
    BY DEF PublishInv, Connected, InRequest, RequestStep, Request, RequestProceeds, Lookup,
           LookupOwner, Insert, Publish, SetReference, Notify, RequestFails, RequestDbFails,
           InsertReplyLost, PublishFails, SetReferenceFails, Build, Inserted, WithReference,
           baseVars, tableVars, bridgeVars
<1>2. CASE RequestFails(q)
  <2>1. faults' # 0
    BY <1>2, BoundAssumption
       DEF RequestFails, RequestDbFails, InsertReplyLost, PublishFails, SetReferenceFails, Fault
  <2> QED
    BY <1>1, <2>1 DEF PublishInv, Connected, ReferenceOK
<1>3. CASE ~RequestFails(q)
  <2>1. faults' = faults
    BY <1>3 DEF RequestStep, Request, RequestProceeds, Lookup, LookupOwner, Insert, Publish,
                SetReference, Notify, baseVars, tableVars
  <2>2. ReferenceOK(q)'
    <3> USE DEF ReferenceOK
    <3>1. CASE \E in \in Inputs : Request(q, in)
      BY <3>1, IdAssumption DEF Request, Build, Error
    <3>2. CASE Lookup(q)
      <4>1. ~Exists(q)
        BY <3>2 DEF Lookup, HubInv, CallsInv, CallOK
      <4> QED
        BY <3>2, <4>1 DEF Lookup, Build, ByKey, Exists
    <3>3. CASE Insert(q)
      <4>1. CASE Publishes(draft[q])
        BY <3>3, <4>1 DEF Insert
      <4>2. CASE ~Publishes(draft[q])
        <5>1. faults = 0 => draft[q].owner = NoOwner
          BY <1>1, <4>2 DEF Publishes, PublishInv, Connected
        <5>2. pc'[q] = "duplicate" \/ rows' = Inserted(q, draft[q])
          BY <3>3 DEF Insert
        <5> QED
          BY <2>1, <3>3, <5>1, <5>2 DEF Inserted, Insert
      <4> QED
        BY <4>1, <4>2
    <3>4. CASE SetReference(q)
      BY <3>4 DEF SetReference, WithReference, Row
    <3>5. CASE Notify(q)
      BY <2>1, <3>5 DEF Notify, PublishInv, tableVars
    <3>6. CASE LookupOwner(q) \/ Publish(q)
      BY <3>6 DEF LookupOwner, Publish
    <3> QED
      BY <1>3, <3>1, <3>2, <3>3, <3>4, <3>5, <3>6 DEF RequestStep, RequestProceeds
  <2> QED
    BY <1>1, <2>1, <2>2 DEF PublishInv, Connected, ReferenceOK
<1> QED
    BY <1>2, <1>3

LEMMA BackgroundConnected ==
    ASSUME ITypeOK, Connected, Background
    PROVE  Connected' /\ \A q \in Requests : pc'[q] = pc[q] \/ pc'[q] = "lost"
<1>1. CASE Clock \/ Expiry \/ Start \/ Subscribe \/ ListenerCrash
    BY <1>1 DEF Connected, Clock, Tick, Expiry, Sweep, Start, Boot, Subscribe, Listen,
                ListenerCrash, StopListening, Fault, Flows, reqVars, bridgeVars, tableVars,
                ITypeOK, TypeOK, TableTypeOK
<1>2. CASE StartWithoutRelay \/ Crash
  <2>1. faults' # 0
    BY <1>2, BoundAssumption DEF StartWithoutRelay, Crash, Fault, ITypeOK, TypeOK, TableTypeOK
  <2>2. CASE StartWithoutRelay
    BY <2>1, <2>2 DEF Connected, StartWithoutRelay, BootWithoutRelay, Flows, reqVars
  <2>3. CASE Crash
    BY <2>1, <2>3 DEF Connected, Crash, LoseRequests, InRequest
  <2> QED
    BY <1>2, <2>2, <2>3
<1> QED
    BY <1>1, <1>2 DEF Background

LEMMA PublishStep == ITypeOK /\ HubInv /\ PublishInv /\ [Next]_vars => PublishInv'
<1> SUFFICES ASSUME ITypeOK, HubInv, PublishInv, [Next]_vars PROVE PublishInv'
    OBVIOUS
<1>1. CASE \E d \in Decisions : ResolutionStep(d) /\ UNCHANGED reqVars
  <2>1. Frozen /\ UNCHANGED reqVars
    BY <1>1, ResolutionFreezes DEF HubInv
  <2>2. hub' = hub
    BY <1>1 DEF ResolutionStep, NewAttempt, Resolve, SendAnswer, Attempt, ResolutionProceeds,
                HandleResolution, GetRow, Update, Hooks, Post, ResolutionFails,
                ResolutionDbFails, UpdateReplyLost, PostFails, resBaseVars, bridgeVars
  <2> QED
    BY <2>1, <2>2, FaultsCount DEF Frozen, reqVars, PublishInv, Connected, ReferenceOK
<1>2. CASE Background
  <2>1. Frozen /\ answer' = answer
    BY <1>2, BackgroundFreezes
  <2> QED
    BY <1>2, <2>1, BackgroundConnected, FaultsCount DEF Frozen, PublishInv, ReferenceOK
<1>3. CASE UNCHANGED vars
    BY <1>3 DEF vars, baseVars, tableVars, bridgeVars, reqVars, PublishInv, Connected, ReferenceOK
<1> QED
    BY <1>1, <1>2, <1>3, RequestPublishes DEF Next, Background

(* While nothing fails, every new request with an owner is published.         *)
THEOREM Publication == Spec => []PublishedUnlessFault
<1>1. HubInv /\ PublishInv => PublishedUnlessFault
    BY DEF HubInv, CallsInv, CallOK, PublishInv, ReferenceOK, PublishedUnlessFault
<1> QED
    BY <1>1, PublishInit, PublishStep, Invariance, PTL DEF Spec
=============================================================================
