------------------------------ MODULE Rest_proofs ------------------------------
(* What a caller is told by REST or MCP agrees with the table.  The argument: *)
(* the surface only chooses what the engine is asked, so the hub's theorems   *)
(* hold beneath it; what is left to show is that a call ends in the state its *)
(* status code stands for, and that a refused call never started.             *)
EXTENDS Rest, HubEffects_proofs, HubRefinement_proofs

(* The two ways request() returns: an error and no row, or a confirmation_id. *)
ReturnOK(q) ==
    pc[q] = "done" => \/ answer[q].status = "error" /\ answer[q].id = NoRequest /\ ~Exists(q)
                      \/ answer[q].status # "error" /\ answer[q].id # NoRequest

(* An attempt is over as "done" exactly when it wrote, unless it is lost.     *)
EndOK(d) == /\ d \in writes => rpc[d] \in {"hooks", "post", "done", "raised", "lost"}
            /\ rpc[d] = "done" => d \in writes

EndsInv == /\ \A q \in Requests : ReturnOK(q)
           /\ \A d \in Decisions : EndOK(d)

Engine == ITypeOK /\ HubInv /\ EffectsInv /\ DecidedByAttempt /\ EndsInv

(* Who was answered early never reached the engine, and who did is what his   *)
(* body says.                                                                 *)
SurfaceInv ==
    /\ RestTypeOK
    /\ \A q \in Requests : early[q] # NoAnswer => pc[q] = "idle"
    /\ \A d \in Decisions :
          /\ earlyR[d] # NoAnswer => rpc[d] = "idle"
          /\ rpc[d] # "idle" /\ verdict[d].via = "direct" /\ verdict[d].approved
                => body[d].approved = "true"

-----------------------------------------------------------------------------
(* EndsInv is the engine's own business.                                      *)
LEMMA EndsInit == Init => EndsInv
BY DEF Init, RequestInit, ResolutionInit, EndsInv, ReturnOK, EndOK

(* A step that moves no call to "done" and creates no row but one under way.  *)
LEMMA ReturnsRest ==
    ASSUME EndsInv, NEW p \in Requests, UNCHANGED answer,
           pc'[p] = pc[p] \/ pc'[p] # "done",
           pc[p] = "done" => (Exists(p)' => Exists(p))
    PROVE  ReturnOK(p)'
BY DEF EndsInv, ReturnOK

LEMMA RequestEnds ==
    ASSUME ITypeOK, HubInv, EndsInv, NEW q \in Requests, RequestStep(q), UNCHANGED resVars
    PROVE  EndsInv'
<1> USE DEF HubInv
<1>1. \A d \in Decisions : EndOK(d)'
    BY DEF EndsInv, EndOK, resVars
<1>2. \A p \in Requests : pc[p] = "done" => (Exists(p)' => Exists(p))
    BY RequestRows DEF Same, Exists
<1>3. ASSUME NEW p \in Requests \ {q} PROVE ReturnOK(p)'
  <2>1. pc'[p] = pc[p] /\ answer'[p] = answer[p]
    BY DEF RequestStep, Request, RequestProceeds, Lookup, LookupOwner, Insert, Publish,
           SetReference, Notify, RequestFails, RequestDbFails, InsertReplyLost, PublishFails,
           SetReferenceFails, Build, Return, Goto, ITypeOK, TypeOK, RequestTypeOK
  <2> QED
    BY <1>2, <2>1 DEF EndsInv, ReturnOK
<1>4. ReturnOK(q)'
  <2> USE DEF ITypeOK, TypeOK, TableTypeOK, RequestTypeOK, Goto, Return, ReturnOK
  <2>1. CASE \E in \in Inputs : Request(q, in)
    <3>1. ~Exists(q) /\ rows' = rows
      BY <2>1 DEF Request, CallsInv, CallOK, baseVars, tableVars
    <3> QED
      BY <2>1, <3>1 DEF Request, Build, Error, Exists
  <2>2. CASE Lookup(q)
    <3>1. CASE Build(q, req[q])
      BY <3>1, <2>2 DEF Build
    <3>2. ASSUME NEW e \in ByKey(req[q].key), Return(q, [id |-> e, status |-> rows[e].status])
          PROVE  ReturnOK(q)'
      <4>1. e \in Requests /\ rows[e].status \in Statuses
        BY <3>2 DEF ByKey, Row
      <4>2. e # NoRequest /\ rows[e].status # "error"
        BY <4>1, IdAssumption DEF Statuses, Settled
      <4> QED
        BY <3>2, <4>2
    <3> QED
      BY <2>2, <3>1, <3>2 DEF Lookup
  <2>3. CASE Notify(q)
    BY <2>3, IdAssumption DEF Notify
  <2>4. CASE LookupOwner(q) \/ Insert(q) \/ Publish(q) \/ SetReference(q) \/ RequestFails(q)
    BY <2>4 DEF LookupOwner, Insert, Publish, SetReference, RequestFails, RequestDbFails,
                InsertReplyLost, PublishFails, SetReferenceFails
  <2> QED
    BY <2>1, <2>2, <2>3, <2>4 DEF RequestStep, RequestProceeds
<1> QED
    BY <1>1, <1>3, <1>4 DEF EndsInv

LEMMA ResolutionEnds ==
    ASSUME ITypeOK, HubInv, EffectsInv, EndsInv, NEW d \in Decisions, ResolutionStep(d),
           UNCHANGED reqVars
    PROVE  EndsInv'
<1> USE DEF HubInv
<1>1. \A p \in Requests : ReturnOK(p)'
    BY ResolutionFreezes, ReturnsRest DEF Frozen, reqVars
<1>2. ASSUME NEW e \in Decisions PROVE EndOK(e)'
  <2> USE DEF ITypeOK, TypeOK, ResolutionTypeOK, ResGoto, EndOK
  <2>0. EndOK(e) /\ WriterOK(e) /\ AttemptOK(e)
    BY DEF EndsInv, EffectsInv, AttemptsInv
  <2>1. CASE e # d
    <3>1. rpc'[e] = rpc[e] /\ (e \in writes' <=> e \in writes)
      BY <2>1 DEF ResolutionStep, NewAttempt, Resolve, SendAnswer, Attempt, ResolutionProceeds,
                  HandleResolution, GetRow, Update, Hooks, Post, ResolutionFails,
                  ResolutionDbFails, UpdateReplyLost, PostFails, Committed
    <3> QED
      BY <2>0, <3>1
  <2>2. CASE e = d /\ NewAttempt(d)
    BY <2>0, <2>2 DEF NewAttempt, Resolve, SendAnswer, Attempt, AttemptOK
  <2>3. CASE e = d /\ (HandleResolution(d) \/ GetRow(d) \/ ResolutionDbFails(d))
    BY <2>0, <2>3 DEF HandleResolution, GetRow, ResolutionDbFails
  <2>4. CASE e = d /\ (Update(d) \/ UpdateReplyLost(d))
    BY <2>0, <2>4 DEF Update, UpdateReplyLost, Committed
  <2>5. CASE e = d /\ (Hooks(d) \/ Post(d) \/ PostFails(d))
    BY <2>0, <2>5 DEF Hooks, Post, PostFails, WriterOK
  <2> QED
    BY <2>1, <2>2, <2>3, <2>4, <2>5 DEF ResolutionStep, ResolutionProceeds, ResolutionFails
<1> QED
    BY <1>1, <1>2 DEF EndsInv

LEMMA BackgroundEnds ==
    ASSUME ITypeOK, HubInv, EndsInv, Background
    PROVE  EndsInv'
<1>1. \A p \in Requests : Exists(p)' => Exists(p)
    BY BackgroundFreezes DEF Frozen, HubInv
<1>2. answer' = answer /\ \A p \in Requests : pc'[p] = pc[p] \/ pc'[p] # "done"
    BY DEF Background, Clock, Expiry, Start, StartWithoutRelay, Subscribe, ListenerCrash, Crash,
           Flows, LoseRequests, reqVars
<1>3. writes' = writes
    BY DEF Background, Clock, Expiry, Start, StartWithoutRelay, Subscribe, ListenerCrash, Crash,
           Flows, LoseAnswers, LoseResolutions, resVars
<1>4. ASSUME NEW e \in Decisions
      PROVE  \/ rpc'[e] = rpc[e]
             \/ rpc[e] \in InResolution \cup {"sent"} /\ rpc'[e] \in {"lost", "missed"}
                /\ (rpc[e] \in {"hooks", "post"} => rpc'[e] = "lost")
    BY DEF Background, Clock, Expiry, Start, StartWithoutRelay, Subscribe, ListenerCrash, Crash,
           Flows, LoseAnswers, LoseResolutions, DropAnswers, InResolution, resVars
<1>5. ASSUME NEW e \in Decisions PROVE EndOK(e)'
    BY <1>3, <1>4 DEF EndsInv, EndOK, InResolution
<1> QED
    BY <1>1, <1>2, <1>5, ReturnsRest DEF EndsInv

LEMMA EndsStep == ITypeOK /\ HubInv /\ EffectsInv /\ EndsInv /\ [Next]_vars => EndsInv'
<1> SUFFICES ASSUME ITypeOK, HubInv, EffectsInv, EndsInv, [Next]_vars PROVE EndsInv'
    OBVIOUS
<1>1. CASE UNCHANGED vars
    BY <1>1 DEF vars, baseVars, tableVars, reqVars, resVars, EndsInv, ReturnOK, EndOK, Exists
<1> QED
    BY <1>1, RequestEnds, ResolutionEnds, BackgroundEnds DEF Next, Background

LEMMA EngineHolds == Spec => []Engine
BY Invariance, EffectsInit, EffectsStep, DecidedInit, DecidedStep, EndsInit, EndsStep, PTL
   DEF Spec, Engine

-----------------------------------------------------------------------------
(* The surface asks the engine for nothing but what callers may ask.          *)
LEMMA RestIsHub == [RestNext]_allVars => [Next]_vars
<1> SUFFICES ASSUME [RestNext]_allVars PROVE [Next]_vars
    OBVIOUS
<1>1. CASE EngineStep
    BY <1>1 DEF EngineStep, Next, RequestStep, ResolutionStep, NewAttempt
<1>2. ASSUME NEW q \in Requests, NEW b \in Bodies, CreateRequest(q, b) PROVE [Next]_vars
  <2>1. ToInput(b) \in Inputs
    BY CallAssumption
  <2> QED
    BY <1>2, <2>1 DEF CreateRequest, Next, RequestStep
<1>3. ASSUME NEW q \in Requests, NEW in \in Inputs, RequestConfirmation(q, in) PROVE [Next]_vars
    BY <1>3 DEF RequestConfirmation, Next, RequestStep
<1>4. ASSUME NEW d \in Decisions, NEW b \in Resolutions, ResolveRequest(d, b) PROVE [Next]_vars
  <2>1. ToVerdict(b) \in Verdicts
    BY CallAssumption
  <2> QED
    BY <1>4, <2>1 DEF ResolveRequest, Next, ResolutionStep, NewAttempt
<1>5. CASE UNCHANGED allVars
    BY <1>5 DEF allVars
<1> QED
    BY <1>1, <1>2, <1>3, <1>4, <1>5 DEF RestNext

(* Whatever is sent to the surface, the hub beneath behaves as HitlHub says.  *)
THEOREM EngineBeneath == RestSpec => Spec
BY RestIsHub, PTL DEF RestSpec, Spec

(* In particular a producer at the REST or MCP surface has the atomic get-or- *)
(* create per key, and an operator the settlement of Confirmation, for bodies *)
(* of any kind (routes.py, tools.py over HITLEngine).                         *)
THEOREM SurfaceRefinement == RestSpec => ImplementsRegistry /\ ImplementsConfirmation
BY EngineBeneath, RegistryRefinement, ConfirmationRefinement, PTL

LEMMA RefusalCodes ==
    ASSUME NEW b
    PROVE  /\ CreateRefusal(b) \in {NoAnswer, "400", "401", "500"}
           /\ ResolveRefusal(b) \in {NoAnswer, "400", "401", "500"}
BY DEF CreateRefusal, ResolveRefusal, Refusal, NoAnswer

LEMMA SurfaceInit == Init /\ RestInit => SurfaceInv
<1> SUFFICES ASSUME Init, RestInit PROVE SurfaceInv
    OBVIOUS
<1>1. TypeOK
    BY ITypeInit DEF ITypeOK
<1>2. NoBody \in ResolveBody
    BY DEF NoBody, ResolveBody, Envelope
<1> QED
    BY <1>1, <1>2 DEF Init, ResolutionInit, RestInit, SurfaceInv, RestTypeOK

(* A step of the hub starts nothing, but for the answers over the relay.      *)
LEMMA EngineStarts ==
    ASSUME ITypeOK, EngineStep
    PROVE  /\ \A q \in Requests : pc[q] = "idle" => pc'[q] = "idle"
           /\ \A d \in Decisions :
                 /\ earlyR[d] # NoAnswer /\ rpc[d] = "idle" => rpc'[d] = "idle"
                 /\ rpc'[d] # "idle" /\ verdict'[d].via = "direct"
                       => rpc[d] # "idle" /\ verdict'[d] = verdict[d]
<1> USE DEF ITypeOK, TypeOK, RequestTypeOK, ResolutionTypeOK
<1>1. CASE \E q \in Requests : (RequestProceeds(q) \/ RequestFails(q)) /\ UNCHANGED resVars
  <2> PICK q \in Requests : (RequestProceeds(q) \/ RequestFails(q)) /\ UNCHANGED resVars
    BY <1>1
  <2>1. pc[q] # "idle" /\ \A p \in Requests \ {q} : pc'[p] = pc[p]
    BY DEF RequestProceeds, Lookup, LookupOwner, Insert, Publish, SetReference, Notify,
           RequestFails, RequestDbFails, InsertReplyLost, PublishFails, SetReferenceFails,
           Build, Return, Goto
  <2> QED
    BY <2>1 DEF resVars
<1>2. ASSUME NEW d \in Decisions, ResolutionProceeds(d) \/ ResolutionFails(d)
      PROVE  /\ rpc[d] # "idle" /\ verdict' = verdict
             /\ \A e \in Decisions \ {d} : rpc'[e] = rpc[e]
    BY <1>2 DEF ResolutionProceeds, HandleResolution, GetRow, Update, Hooks, Post,
                ResolutionFails, ResolutionDbFails, UpdateReplyLost, PostFails, ResGoto
<1>3. ASSUME NEW d \in Decisions, NEW v \in Verdicts, FreshAttempt(d), SendAnswer(d, v)
      PROVE  /\ earlyR[d] = NoAnswer /\ verdict'[d].via = "nostr"
             /\ \A e \in Decisions \ {d} : rpc'[e] = rpc[e] /\ verdict'[e] = verdict[e]
    BY <1>3 DEF FreshAttempt, SendAnswer, Attempt, ResGoto
<1>4. CASE \E d \in Decisions : /\ \/ ResolutionProceeds(d) \/ ResolutionFails(d)
                                   \/ FreshAttempt(d) /\ \E v \in Verdicts : SendAnswer(d, v)
                                /\ UNCHANGED reqVars
  <2> PICK d \in Decisions : /\ \/ ResolutionProceeds(d) \/ ResolutionFails(d)
                                \/ FreshAttempt(d) /\ \E v \in Verdicts : SendAnswer(d, v)
                             /\ UNCHANGED reqVars
    BY <1>4
  <2>1. pc' = pc
    BY DEF reqVars
  <2>2. CASE ResolutionProceeds(d) \/ ResolutionFails(d)
    BY <1>2, <2>1, <2>2
  <2>3. CASE FreshAttempt(d) /\ \E v \in Verdicts : SendAnswer(d, v)
    BY <1>3, <2>1, <2>3
  <2> QED
    BY <2>2, <2>3
<1>5. CASE Background
  <2>1. /\ \A q \in Requests : pc[q] = "idle" => pc'[q] = "idle"
        /\ verdict' = verdict
        /\ \A d \in Decisions : rpc[d] = "idle" <=> rpc'[d] = "idle"
    BY <1>5 DEF Background, Clock, Expiry, Start, StartWithoutRelay, Subscribe, ListenerCrash,
                Crash, Flows, LoseRequests, LoseAnswers, LoseResolutions, DropAnswers,
                InRequest, InResolution, reqVars, resVars
  <2> QED
    BY <2>1
<1> QED
    BY <1>1, <1>4, <1>5 DEF EngineStep, Background

LEMMA SurfaceStep == ITypeOK /\ ITypeOK' /\ SurfaceInv /\ [RestNext]_allVars => SurfaceInv'
<1> SUFFICES ASSUME ITypeOK, ITypeOK', SurfaceInv, [RestNext]_allVars PROVE SurfaceInv'
    OBVIOUS
<1> USE DEF SurfaceInv, RestTypeOK
<1>0. TypeOK'
    BY DEF ITypeOK
<1>1. CASE EngineStep
    BY <1>0, <1>1, EngineStarts DEF EngineStep, restVars
<1>2. ASSUME NEW q \in Requests, NEW b \in Bodies, CreateRequest(q, b) PROVE SurfaceInv'
  <2>1. CASE CreateRefusal(b) # NoAnswer
    <3>1. early' = [early EXCEPT ![q] = CreateRefusal(b)] /\ UNCHANGED vars
          /\ UNCHANGED <<earlyR, body>> /\ pc[q] = "idle"
      BY <1>2, <2>1 DEF CreateRequest, FreshCall
    <3> QED
      BY <1>0, <3>1, RefusalCodes DEF vars, reqVars, resVars
  <2>2. CASE CreateRefusal(b) = NoAnswer
    <3>1. /\ early[q] = NoAnswer /\ UNCHANGED <<resVars, early, earlyR, body>>
          /\ Request(q, ToInput(b))
      BY <1>2, <2>2 DEF CreateRequest, FreshCall
    <3>2. \A p \in Requests \ {q} : pc'[p] = pc[p]
      BY <3>1 DEF Request, Build, Return, Goto, ITypeOK, TypeOK, RequestTypeOK
    <3> QED
      BY <1>0, <3>1, <3>2 DEF resVars
  <2> QED
    BY <2>1, <2>2
<1>3. ASSUME NEW q \in Requests, NEW in \in Inputs, RequestConfirmation(q, in) PROVE SurfaceInv'
  <2>1. \A p \in Requests \ {q} : pc'[p] = pc[p]
    BY <1>3 DEF RequestConfirmation, Request, Build, Return, Goto, ITypeOK, TypeOK, RequestTypeOK
  <2> QED
    BY <1>0, <1>3, <2>1 DEF RequestConfirmation, FreshCall, resVars, restVars
<1>4. ASSUME NEW d \in Decisions, NEW b \in Resolutions, ResolveRequest(d, b) PROVE SurfaceInv'
  <2>1. CASE ResolveRefusal(b) # NoAnswer
    <3>1. /\ earlyR' = [earlyR EXCEPT ![d] = ResolveRefusal(b)] /\ UNCHANGED vars
          /\ UNCHANGED <<early, body>> /\ rpc[d] = "idle"
      BY <1>4, <2>1 DEF ResolveRequest, FreshAttempt
    <3> QED
      BY <1>0, <3>1, RefusalCodes DEF vars, reqVars, resVars
  <2>2. CASE ResolveRefusal(b) = NoAnswer
    <3>1. /\ earlyR[d] = NoAnswer /\ UNCHANGED <<reqVars, early, earlyR>>
          /\ Attempt(d, ToVerdict(b), "get") /\ body' = [body EXCEPT ![d] = b]
      BY <1>4, <2>2 DEF ResolveRequest, FreshAttempt, Resolve
    <3>2. b \in ResolveBody
      BY BodyAssumption
    <3>3. \A e \in Decisions \ {d} : rpc'[e] = rpc[e] /\ verdict'[e] = verdict[e]
      BY <3>1 DEF Attempt, ResGoto, ITypeOK, TypeOK, ResolutionTypeOK
    <3>4. verdict'[d] = ToVerdict(b)
      BY <3>1 DEF Attempt, ITypeOK, TypeOK, ResolutionTypeOK
    <3>5. verdict'[d].approved => body'[d].approved = "true"
      <4>1. ToVerdict(b).approved <=> Approves(b)
        BY DEF ToVerdict, Approves
      <4>2. body'[d] = b
        BY <3>1
      <4> QED
        BY <3>4, <4>1, <4>2 DEF Approves
    <3> QED
      BY <1>0, <3>1, <3>2, <3>3, <3>5 DEF reqVars
  <2> QED
    BY <2>1, <2>2
<1>5. CASE UNCHANGED allVars
    BY <1>0, <1>5 DEF allVars, restVars, vars, reqVars, resVars
<1> QED
    BY <1>1, <1>2, <1>3, <1>4, <1>5 DEF RestNext

LEMMA RestInvariance == RestSpec => [](Engine /\ SurfaceInv)
<1>1. Engine => ITypeOK
    BY DEF Engine
<1> QED
    BY <1>1, EngineBeneath, EngineHolds, SurfaceInit, SurfaceStep, PTL DEF RestSpec

-----------------------------------------------------------------------------
(* Every variable stays within its type.                                      *)
THEOREM RestTypes == RestSpec => []RestTypeOK
<1>1. SurfaceInv => RestTypeOK
    BY DEF SurfaceInv
<1> QED
    BY <1>1, RestInvariance, PTL

(* A 400 or a 401 means that nothing was inserted and nothing resolved.       *)
THEOREM RefusalsAreClean == RestSpec => []RefusedLeavesNothing
<1>1. Engine /\ SurfaceInv => RefusedLeavesNothing
  <2> SUFFICES ASSUME Engine, SurfaceInv PROVE RefusedLeavesNothing
    OBVIOUS
  <2>1. ASSUME NEW q \in Requests, CreateCode(q) \in {"400", "401"} PROVE ~Exists(q)
    <3>1. CASE early[q] # NoAnswer
      BY <3>1 DEF SurfaceInv, Engine, HubInv, CallsInv, CallOK
    <3>2. CASE early[q] = NoAnswer
      <4>1. pc[q] = "done" /\ answer[q].status = "error"
        BY <2>1, <3>2 DEF CreateCode, NoAnswer
      <4> QED
        BY <4>1 DEF Engine, EndsInv, ReturnOK
    <3> QED
      BY <3>1, <3>2
  <2>2. ASSUME NEW d \in Decisions, ResolveCode(d) \in {"400", "401"} PROVE d \notin writes
    <3>1. rpc[d] \in {"idle", "refused"}
      BY <2>2 DEF ResolveCode, SurfaceInv, NoAnswer
    <3> QED
      BY <3>1 DEF Engine, EndsInv, EndOK
  <2> QED
    BY <2>1, <2>2 DEF RefusedLeavesNothing
<1> QED
    BY <1>1, RestInvariance, PTL

(* 201 says which call ended and how.                                         *)
LEMMA CreatedMeansDone ==
    ASSUME Engine, SurfaceInv, NEW q \in Requests, CreateCode(q) = "201"
    PROVE  pc[q] = "done" /\ answer[q].id \in Requests /\ AnswerOK(q)
<1>1. pc[q] = "done" /\ answer[q].status # "error"
    BY DEF CreateCode, SurfaceInv, RestTypeOK, NoAnswer
<1>2. answer[q].id # NoRequest /\ answer[q].id \in Requests \cup {NoRequest}
    BY <1>1 DEF Engine, EndsInv, ReturnOK, ITypeOK, TypeOK, RequestTypeOK, Response
<1> QED
    BY <1>1, <1>2 DEF Engine, HubInv, CallsInv

(* A 201 or a 200 keeps its word.                                             *)
THEOREM SuccessIsReal == RestSpec => []AcceptedIsDone
<1>1. Engine /\ SurfaceInv => AcceptedIsDone
  <2> SUFFICES ASSUME Engine, SurfaceInv PROVE AcceptedIsDone
    OBVIOUS
  <2>1. ASSUME NEW q \in Requests, CreateCode(q) = "201"
        PROVE  answer[q].id # NoRequest /\ Exists(answer[q].id)
               /\ rows[answer[q].id].key = req[q].key
    BY <2>1, CreatedMeansDone, IdAssumption DEF AnswerOK
  <2>2. ASSUME NEW d \in Decisions, ResolveCode(d) = "200"
        PROVE  d \in writes /\ WriterOK(d)
    <3>1. rpc[d] = "done"
      BY <2>2 DEF ResolveCode, SurfaceInv, RestTypeOK, NoAnswer
    <3> QED
      BY <3>1 DEF Engine, EndsInv, EndOK, EffectsInv
  <2> QED
    BY <2>1, <2>2 DEF AcceptedIsDone, WriterOK, OnlyWriter
<1> QED
    BY <1>1, RestInvariance, PTL

(* A retry after a 500 finds what the failed call left.                       *)
THEOREM RetriesConverge == RestSpec => []RetryFindsRow
<1>1. Engine /\ SurfaceInv => RetryFindsRow
  <2> SUFFICES ASSUME Engine, SurfaceInv, NEW q \in Requests, NEW again \in Requests,
                      Exists(q), CreateCode(again) = "201",
                      HasKey(req[q]), req[again].key = req[q].key
               PROVE  answer[again].id = q
    BY DEF RetryFindsRow
  <2>1. /\ answer[again].id \in Requests /\ Exists(answer[again].id)
        /\ rows[answer[again].id].key = req[q].key
    BY CreatedMeansDone, IdAssumption DEF AnswerOK
  <2>2. rows[q].key = req[q].key /\ KeyUnique
    BY DEF Engine, HubInv, CallsInv, CallOK
  <2> QED
    BY <2>1, <2>2 DEF KeyUnique, HasKey
<1> QED
    BY <1>1, RestInvariance, PTL

(* Nobody approves by accident.                                               *)
THEOREM ApprovalsAreExplicit == RestSpec => []ApprovedExplicitly
<1>1. Engine /\ SurfaceInv => ApprovedExplicitly
  <2> SUFFICES ASSUME Engine, SurfaceInv, NEW q \in Requests, rows[q].status = "approved"
               PROVE  \E d \in writes :
                         /\ verdict[d].target = q
                         /\ IF verdict[d].via = "direct" THEN body[d].approved = "true"
                            ELSE verdict[d].approved
    BY DEF ApprovedExplicitly
  <2>1. PICK d \in writes : verdict[d].target = q /\ Decision(verdict[d]) = "approved"
    BY DEF Engine, DecidedByAttempt
  <2>2. d \in Decisions
    BY DEF Engine, ITypeOK, TypeOK, ResolutionTypeOK
  <2>3. verdict[d].approved
    BY <2>1 DEF Decision
  <2>4. rpc[d] # "idle"
    BY <2>2 DEF Engine, EndsInv, EndOK
  <2> QED
    BY <2>1, <2>2, <2>3, <2>4 DEF SurfaceInv
<1> QED
    BY <1>1, RestInvariance, PTL
=============================================================================
