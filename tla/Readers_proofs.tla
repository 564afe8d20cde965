---------------------------- MODULE Readers_proofs ----------------------------
(* What wait(), check() and the inbox tell their callers is true of the       *)
(* table, proved for any number of calls beside any run of the hub.  The      *)
(* argument: readers change nothing the hub sees, so its own theorems hold in *)
(* their company; an answer is true when it is given, and what it says of a   *)
(* settled row never becomes false.                                           *)
EXTENDS Watch, Inbox, HubEffects_proofs, FiniteSetTheorems

(* The payload of an answer that names a decision.                            *)
PayloadOf(w) ==
    /\ told[w].payload.details = req[asks[w].id].details
    /\ told[w].status = "rejected" => told[w].payload.resolution = "reason"

WrittenBy(w) ==
    \E d \in writes : verdict[d].target = asks[w].id /\ Decision(verdict[d]) = told[w].status

(* What stays true of the answer of w.                                        *)
ToldOK(w) ==
    wpc[w] = "done" =>
        /\ told[w].status \in Settled => SettledRow(asks[w].id)
        /\ told[w].status \in {"approved", "rejected"} => PayloadOf(w) /\ WrittenBy(w)

WatchInv == WatchTypeOK /\ \A w \in Watchers : ToldOK(w)

HubFacts == ITypeOK /\ HubInv /\ PayloadInv /\ EffectsInv /\ DecidedByAttempt

-----------------------------------------------------------------------------
(* Watchers change nothing the hub sees.                                      *)
LEMMA WatchersOnlyRead == [WatchNext]_allVars => [Next]_vars
BY DEF WatchNext, allVars, HubStep, Ask, WatchProceeds, Read, Wake, ReadFails

THEOREM HubUndisturbed == WatchSpec => Spec
BY WatchersOnlyRead, PTL DEF WatchSpec, Spec

LEMMA HubFactsHold == Spec => []HubFacts
BY Invariance, PayloadInit, PayloadStep, EffectsInit, EffectsStep, DecidedInit, DecidedStep, PTL
   DEF Spec, HubFacts

-----------------------------------------------------------------------------
LEMMA PlainAnswer ==
    ASSUME NEW s \in Settled \cup {"pending", "timeout", "error"}
    PROVE  Plain(s) \in WatchResponse
BY DEF Plain, WatchResponse, Payload, NoRow

LEMMA WatchedPayload ==
    ASSUME ITypeOK, NEW w \in Watchers, Found(w)
    PROVE  /\ WatchedRow(w).payload \in Payload
           /\ WatchedRow(w).status \in Settled \cup {"pending"}
BY DEF ITypeOK, TypeOK, TableTypeOK, Found, WatchedRow, Row, Statuses, Exists

(* The two responses to a row that was found.                                 *)
LEMMA ResponseTypes ==
    ASSUME ITypeOK, NEW w \in Watchers, Found(w)
    PROVE  /\ WaitResponse(WatchedRow(w)) \in WatchResponse
           /\ CheckResponse(WatchedRow(w)) \in WatchResponse
<1> DEFINE row == WatchedRow(w)
<1>1. row.payload \in Payload /\ row.status \in Settled \cup {"pending"}
    BY WatchedPayload
<1>2. Plain("timeout") \in WatchResponse /\ Plain(row.status) \in WatchResponse
    BY <1>1, PlainAnswer
<1>3. [status |-> row.status, payload |-> row.payload] \in WatchResponse
    BY <1>1 DEF WatchResponse
<1> QED
    BY <1>2, <1>3 DEF WaitResponse, CheckResponse

(* One step of a watcher leaves the others alone.                             *)
LEMMA WatcherTypes ==
    ASSUME ITypeOK, WatchTypeOK, NEW w \in Watchers,
           (\E in \in Questions : Ask(w, in)) \/ WatchProceeds(w) \/ ReadFails(w)
    PROVE  /\ WatchTypeOK'
           /\ \A v \in Watchers \ {w} :
                 wpc'[v] = wpc[v] /\ asks'[v] = asks[v] /\ told'[v] = told[v]
<1>0. now \in Nat
    BY BoundAssumption DEF ITypeOK, TypeOK, TableTypeOK
<1>1. CASE \E in \in Questions : Ask(w, in)
  <2> PICK in \in Questions : Ask(w, in)
    BY <1>1
  <2>1. in \in Question /\ now + in.max \in Nat
    BY <1>0, QuestionAssumption DEF Question
  <2>2. Plain("timeout") \in WatchResponse
    BY PlainAnswer
  <2> QED
    BY <2>1, <2>2 DEF Ask, Tell, WatchGoto, WatchTypeOK, InWatch
<1>2. CASE Read(w)
  <2>1. now + asks[w].poll \in Nat
    BY <1>0 DEF WatchTypeOK, Question
  <2>2. Plain("error") \in WatchResponse
    BY PlainAnswer
  <2>3. Found(w) => WaitResponse(WatchedRow(w)) \in WatchResponse
                    /\ CheckResponse(WatchedRow(w)) \in WatchResponse
    BY ResponseTypes
  <2>4. CASE ~Found(w)
    BY <1>2, <2>2, <2>4 DEF Read, Tell, WatchGoto, WatchTypeOK, InWatch
  <2>5. CASE Found(w)
    BY <1>2, <2>1, <2>3, <2>5 DEF Read, Tell, WatchGoto, WatchTypeOK, InWatch
  <2> QED
    BY <2>4, <2>5
<1>3. CASE Wake(w)
  <2>1. Plain("timeout") \in WatchResponse
    BY PlainAnswer
  <2> QED
    BY <1>3, <2>1 DEF Wake, Tell, WatchGoto, WatchTypeOK, InWatch
<1>4. CASE ReadFails(w)
    BY <1>4 DEF ReadFails, WatchGoto, WatchTypeOK, InWatch
<1> QED
    BY <1>1, <1>2, <1>3, <1>4 DEF WatchProceeds

LEMMA HubStepTypes ==
    ASSUME WatchTypeOK, HubStep
    PROVE  /\ WatchTypeOK' /\ UNCHANGED <<asks, told>>
           /\ \A w \in Watchers : wpc'[w] = wpc[w] \/ wpc'[w] = "lost"
BY DEF HubStep, LoseWatchers, watchVars, WatchTypeOK, InWatch

-----------------------------------------------------------------------------
(* An answer once true stays true, whatever the hub does next.                *)
LEMMA AnswerStays ==
    ASSUME ITypeOK, HubInv, [Next]_vars, WatchTypeOK, NEW w \in Watchers, ToldOK(w),
           asks'[w] = asks[w], told'[w] = told[w],
           wpc'[w] = wpc[w] \/ wpc'[w] = "lost"
    PROVE  ToldOK(w)'
<1> SUFFICES ASSUME wpc'[w] = "done"
             PROVE  /\ told[w].status \in Settled => SettledRow(asks[w].id)'
                    /\ told[w].status \in {"approved", "rejected"} => PayloadOf(w)' /\ WrittenBy(w)'
    BY DEF ToldOK
<1>1. wpc[w] = "done"
    OBVIOUS
<1>2. told[w].status \in Settled => SettledRow(asks[w].id)'
    BY <1>1, SettledStep DEF ToldOK, SettledRow
<1>3. told[w].status \in {"approved", "rejected"} => WrittenBy(w)'
    BY <1>1, WritesStay DEF ToldOK, WrittenBy, Decision
<1>4. ASSUME told[w].status \in {"approved", "rejected"}
      PROVE  PayloadOf(w)'
  <2>1. SettledRow(asks[w].id) /\ PayloadOf(w)
    BY <1>1, <1>4 DEF ToldOK, Settled
  <2>2. req'[asks[w].id] = req[asks[w].id]
    BY <2>1, WritesStay DEF SettledRow, Exists, Settled
  <2> QED
    BY <2>1, <2>2 DEF PayloadOf
<1> QED
    BY <1>2, <1>3, <1>4

(* An answer is true when it is given.                                        *)
LEMMA AnswerTrue ==
    ASSUME HubFacts, WatchTypeOK, UNCHANGED vars, NEW w \in Watchers, Found(w),
           asks'[w] = asks[w],
           told'[w] \in {WaitResponse(WatchedRow(w)), CheckResponse(WatchedRow(w))}
    PROVE  ToldOK(w)'
<1> DEFINE q == asks[w].id
<1>1. q \in Requests /\ Exists(q) /\ WatchedRow(w) = rows[q] /\ RowPayload(q)
    BY DEF Found, WatchedRow, HubFacts, PayloadInv
<1>2. told'[w].status \in Settled => told'[w].status = rows[q].status
    BY <1>1 DEF WaitResponse, CheckResponse, Decided, Plain, Settled
<1>3. ASSUME told'[w].status \in {"approved", "rejected"}
      PROVE  PayloadOf(w)' /\ WrittenBy(w)'
  <2>1. rows[q].status = told'[w].status /\ told'[w].payload = rows[q].payload
    BY <1>1, <1>3 DEF WaitResponse, CheckResponse, Decided, Plain
  <2>2. PICK d \in writes : verdict[d].target = q /\ Decision(verdict[d]) = rows[q].status
    BY <1>1, <1>3, <2>1 DEF HubFacts, DecidedByAttempt
  <2>3. UNCHANGED <<rows, req, writes, verdict>>
    BY DEF vars, baseVars, tableVars, reqVars, resVars
  <2>4. PayloadOf(w)'
    BY <1>1, <2>1, <2>3 DEF PayloadOf, RowPayload
  <2> QED
    BY <2>1, <2>2, <2>3, <2>4 DEF WrittenBy, Decision
<1>4. told'[w].status \in Settled => SettledRow(q)'
    BY <1>1, <1>2 DEF SettledRow, vars, baseVars, tableVars
<1> QED
    BY <1>3, <1>4 DEF ToldOK

LEMMA WatchInvInit == WatchInit => WatchInv
<1>1. Plain("error") \in WatchResponse
    BY PlainAnswer
<1> QED
    BY <1>1 DEF WatchInit, WatchInv, WatchTypeOK, ToldOK, NoQuestion, Question, InWatch

LEMMA WatcherInv ==
    ASSUME HubFacts, WatchInv, NEW w \in Watchers,
           (\E in \in Questions : Ask(w, in)) \/ WatchProceeds(w) \/ ReadFails(w)
    PROVE  WatchInv'
<1>0. UNCHANGED vars
    BY DEF Ask, WatchProceeds, Read, Wake, ReadFails
<1>1. /\ WatchTypeOK'
      /\ \A v \in Watchers \ {w} :
            wpc'[v] = wpc[v] /\ asks'[v] = asks[v] /\ told'[v] = told[v]
    BY WatcherTypes DEF HubFacts, WatchInv
<1>2. \A v \in Watchers \ {w} : ToldOK(v)'
    BY <1>0, <1>1, AnswerStays DEF HubFacts, WatchInv
<1>3. ToldOK(w)'
  <2>1. CASE wpc'[w] # "done"
    BY <2>1 DEF ToldOK
  <2>2. CASE wpc'[w] = "done" /\ told'[w].status \in {"timeout", "error"}
    BY <2>2 DEF ToldOK, Settled
  <2>3. CASE Read(w) /\ ~Found(w)
    <3>1. told'[w].status = "error"
      BY <2>3 DEF Read, Tell, Plain, WatchInv, WatchTypeOK
    <3> QED
      BY <2>1, <2>2, <3>1
  <2>4. CASE Read(w) /\ Found(w)
    <3>1. CASE wpc'[w] = "done"
      <4>1. told'[w] \in {WaitResponse(WatchedRow(w)), CheckResponse(WatchedRow(w))}
        BY <2>4, <3>1 DEF Read, Tell, WatchGoto, WatchInv, WatchTypeOK
      <4> QED
        BY <1>0, <2>4, <4>1, AnswerTrue DEF Read, WatchInv
    <3> QED
        BY <2>1, <3>1
  <2>5. CASE (\E in \in Questions : Ask(w, in)) \/ Wake(w) \/ ReadFails(w)
    BY <2>1, <2>2, <2>5 DEF Ask, Wake, ReadFails, Tell, WatchGoto, Plain, WatchInv, WatchTypeOK
  <2> QED
    BY <2>3, <2>4, <2>5 DEF WatchProceeds
<1> QED
    BY <1>1, <1>2, <1>3 DEF WatchInv

LEMMA WatchInvStep == HubFacts /\ WatchInv /\ [WatchNext]_allVars => WatchInv'
<1> SUFFICES ASSUME HubFacts, WatchInv, [WatchNext]_allVars PROVE WatchInv'
    OBVIOUS
<1>1. [Next]_vars
    BY WatchersOnlyRead
<1>2. CASE HubStep
  <2>1. /\ WatchTypeOK' /\ UNCHANGED <<asks, told>>
        /\ \A w \in Watchers : wpc'[w] = wpc[w] \/ wpc'[w] = "lost"
    BY <1>2, HubStepTypes DEF WatchInv
  <2> QED
    BY <1>1, <2>1, AnswerStays DEF HubFacts, WatchInv
<1>3. ASSUME NEW w \in Watchers,
             (\E in \in Questions : Ask(w, in)) \/ WatchProceeds(w) \/ ReadFails(w)
      PROVE  WatchInv'
    BY <1>3, WatcherInv
<1>4. CASE UNCHANGED allVars
  <2>1. UNCHANGED <<wpc, asks, deadline, wake, told>>
    BY <1>4 DEF allVars, watchVars
  <2> QED
    BY <1>1, <2>1, AnswerStays DEF HubFacts, WatchInv, WatchTypeOK
<1> QED
    BY <1>2, <1>3, <1>4 DEF WatchNext

LEMMA WatchInvariance == WatchSpec => [](HubFacts /\ WatchInv)
BY HubUndisturbed, HubFactsHold, WatchInvInit, WatchInvStep, PTL DEF WatchSpec

-----------------------------------------------------------------------------
(* Every variable stays within its type.                                      *)
THEOREM WatchTypes == WatchSpec => []WatchedTypeOK
<1>1. HubFacts /\ WatchInv => WatchedTypeOK
    BY DEF HubFacts, WatchInv, ITypeOK, WatchedTypeOK
<1> QED
    BY <1>1, WatchInvariance, PTL

(* A decision somebody is told was made and written, and still stands unless  *)
(* another attempt wrote the row.                                             *)
THEOREM AnswersTrue == WatchSpec => []ToldTheDecision
<1>1. HubFacts /\ WatchInv => ToldTheDecision
  <2> SUFFICES ASSUME HubFacts, WatchInv, NEW w \in Watchers,
                      wpc[w] = "done", told[w].status \in {"approved", "rejected"}
               PROVE  /\ WrittenBy(w)
                      /\ (\A d1, d2 \in writes :
                             verdict[d1].target = asks[w].id /\ verdict[d2].target = asks[w].id
                                 => d1 = d2)
                           => rows[asks[w].id].status = told[w].status
    BY DEF ToldTheDecision, WrittenBy
  <2>1. PICK d \in writes : verdict[d].target = asks[w].id /\ Decision(verdict[d]) = told[w].status
    BY DEF WatchInv, ToldOK, WrittenBy
  <2>2. WriterOK(d)
    BY DEF HubFacts, EffectsInv, ITypeOK, TypeOK, ResolutionTypeOK
  <2> QED
    BY <2>1, <2>2 DEF WriterOK, OnlyWriter, WrittenBy
<1> QED
    BY <1>1, WatchInvariance, PTL

(* The payload of an answer is that of the decision it names.                 *)
THEOREM AnswersComplete == WatchSpec => []ToldThePayload
<1>1. HubFacts /\ WatchInv => ToldThePayload
    BY DEF WatchInv, ToldOK, PayloadOf, ToldThePayload
<1> QED
    BY <1>1, WatchInvariance, PTL

(* After one watcher knows a request settled, no answer calls it pending.     *)
THEOREM AnswersInOrder == WatchSpec => AnswersAge
<1>1. HubFacts /\ WatchInv /\ [WatchNext]_allVars =>
        [\A w1, w2 \in Watchers :
            /\ wpc[w1] = "done" /\ told[w1].status \in Settled
            /\ wpc[w2] # "done" /\ wpc'[w2] = "done" /\ asks[w2].id = asks[w1].id
            => told'[w2].status # "pending"]_allVars
  <2> SUFFICES ASSUME HubFacts, WatchInv, WatchNext, NEW w1 \in Watchers, NEW w2 \in Watchers,
                      wpc[w1] = "done", told[w1].status \in Settled,
                      wpc[w2] # "done", wpc'[w2] = "done", asks[w2].id = asks[w1].id
               PROVE  told'[w2].status # "pending"
    OBVIOUS
  <2>1. SettledRow(asks[w2].id) /\ WatchTypeOK
    BY DEF WatchInv, ToldOK
  <2>2. ~HubStep
    BY <2>1, HubStepTypes
  <2>3. (\E in \in Questions : Ask(w2, in)) \/ WatchProceeds(w2) \/ ReadFails(w2)
    BY <2>1, <2>2, WatcherTypes DEF WatchNext, HubFacts
  <2>4. CASE Read(w2)
    <3>1. WatchedRow(w2).status \in Settled
      BY <2>1 DEF SettledRow, WatchedRow
    <3> QED
      BY <2>1, <2>4, <3>1
         DEF Read, Tell, WaitResponse, CheckResponse, Decided, Plain, Settled, WatchGoto, WatchTypeOK
  <2>5. CASE (\E in \in Questions : Ask(w2, in)) \/ Wake(w2) \/ ReadFails(w2)
    BY <2>1, <2>5 DEF Ask, Wake, ReadFails, Tell, WatchGoto, Plain, WatchTypeOK, InWatch
  <2> QED
    BY <2>3, <2>4, <2>5 DEF WatchProceeds
<1> QED
    BY <1>1, WatchInvariance, PTL DEF WatchSpec, AnswersAge

-----------------------------------------------------------------------------
(* The inbox: what a page showed was a row of its user, and still is.         *)
InboxTypeOK == /\ user \in [Requests -> Users]
               /\ born \in Seq(Requests)
               /\ page \in [Users -> SUBSET Requests]

InboxInv == /\ InboxTypeOK
            /\ \A u \in Users : \A q \in page[u] : Exists(q) /\ user[q] = u

LEMMA InboxOnlyReads == [InboxNext]_allInboxVars => [Next]_vars
BY DEF InboxNext, allInboxVars, GetInbox

(* Reading the inbox disturbs no theorem of the hub.                          *)
THEOREM HubUnread == InboxSpec => Spec
BY InboxOnlyReads, PTL DEF InboxSpec, Spec

LEMMA InboxInvInit == InboxInit => InboxInv
BY DEF InboxInit, InboxInv, InboxTypeOK

LEMMA BornSeq == InboxTypeOK /\ Born => born' \in Seq(Requests)
<1> SUFFICES ASSUME InboxTypeOK, \E q \in Requests : Builds(q),
                    born' = Append(born, CHOOSE q \in Requests : Builds(q))
             PROVE  born' \in Seq(Requests)
    BY DEF Born, InboxTypeOK
<1>1. (CHOOSE q \in Requests : Builds(q)) \in Requests
    OBVIOUS
<1> QED
    BY <1>1 DEF InboxTypeOK

LEMMA InboxInvStep == HubFacts /\ InboxInv /\ [InboxNext]_allInboxVars => InboxInv'
<1> SUFFICES ASSUME HubFacts, InboxInv, [InboxNext]_allInboxVars PROVE InboxInv'
    OBVIOUS
<1>1. \A q \in Requests : Exists(q) => Exists(q)'
    BY InboxOnlyReads, WritesStay DEF HubFacts
<1>2. CASE Next /\ Born /\ UNCHANGED <<user, page>>
    BY <1>1, <1>2, BornSeq DEF InboxInv, InboxTypeOK
<1>3. ASSUME NEW u \in Users, GetInbox(u) PROVE InboxInv'
  <2>1. \A q \in ListPending(u) : q \in Requests /\ Exists(q) /\ user[q] = u
    BY DEF ListPending, Waiting, Exists
  <2>2. /\ user' = user /\ born' = born
        /\ page' = [page EXCEPT ![u] = ListPending(u)]
    BY <1>3 DEF GetInbox
  <2>3. InboxTypeOK'
    BY <2>1, <2>2 DEF InboxInv, InboxTypeOK
  <2>4. ASSUME NEW v \in Users, NEW q \in page'[v] PROVE Exists(q)' /\ user'[q] = v
    BY <1>1, <2>1, <2>2 DEF InboxInv, InboxTypeOK
  <2> QED
    BY <2>3, <2>4 DEF InboxInv
<1>4. CASE UNCHANGED allInboxVars
    BY <1>1, <1>4 DEF allInboxVars, inboxVars, InboxInv, InboxTypeOK
<1> QED
    BY <1>2, <1>3, <1>4 DEF InboxNext

(* Only the calls that built their event are younger than another.            *)
LEMMA YoungerFinite ==
    ASSUME InboxTypeOK, NEW u \in Users, NEW q \in Requests
    PROVE  IsFiniteSet(Younger(u, q))
<1> DEFINE places == 1 .. Len(born)
           built == {born[i] : i \in places}
<1>1. Len(born) \in Nat
    BY DEF InboxTypeOK
<1>2. IsFiniteSet(places)
    BY <1>1, FS_Interval
<1>3. [i \in places |-> born[i]] \in Surjection(places, built)
    BY DEF Surjection
<1>4. IsFiniteSet(built)
    BY <1>2, <1>3, FS_Surjection
<1>5. Younger(u, q) \subseteq built
    BY DEF Younger, Newer
<1> QED
    BY <1>4, <1>5, FS_Subset

(* An item that is no longer listed for its user was settled or expired, or a *)
(* full page of younger ones is.                                              *)
LEMMA UnlistedForAReason ==
    ASSUME ITypeOK, InboxTypeOK, NEW u \in Users, NEW q \in Requests,
           Exists(q), user[q] = u, q \notin ListPending(u)
    PROVE  SettledRow(q) \/ rows[q].expires <= now \/ PushedOut(u, q)
<1>1. now \in Int /\ rows[q].expires \in Int /\ rows[q].status \in Statuses
    BY BoundAssumption DEF ITypeOK, TypeOK, TableTypeOK, Row
<1>2. CASE q \notin Waiting(u)
  <2>1. rows[q].status # "pending" \/ ~(rows[q].expires > now)
    BY <1>2 DEF Waiting
  <2>2. rows[q].status # "pending" => SettledRow(q)
    BY <1>1 DEF SettledRow, Settled, Statuses, Exists
  <2>3. ~(rows[q].expires > now) => rows[q].expires <= now
    BY <1>1
  <2> QED
    BY <2>1, <2>2, <2>3
<1>3. CASE q \in Waiting(u)
  <2> DEFINE listed == {p \in Waiting(u) : Newer(p, q)}
             younger == Younger(u, q)
  <2>1. ~(Cardinality(listed) < Limit)
    BY <1>3 DEF ListPending
  <2>2. listed \subseteq younger
    BY DEF Waiting, Younger, Exists
  <2>3. IsFiniteSet(younger)
    BY YoungerFinite
  <2>4. /\ IsFiniteSet(listed) /\ Cardinality(listed) <= Cardinality(younger)
        /\ Cardinality(listed) \in Nat /\ Cardinality(younger) \in Nat
    BY <2>2, <2>3, FS_Subset, FS_CardinalityType
  <2> HIDE DEF listed, younger
  <2>5. Cardinality(younger) >= Limit
    BY <2>1, <2>4, LimitAssumption
  <2> QED
    BY <2>5 DEF PushedOut, younger
<1> QED
    BY <1>2, <1>3

(* No item leaves a page for another reason than its settlement, its deadline *)
(* or a full page of younger items.                                           *)
THEOREM InboxKeepsItems == InboxSpec => LeavesForAReason
<1>1. HubFacts /\ InboxInv /\ [InboxNext]_allInboxVars =>
        [\A u \in Users : \A q \in page[u] \ page'[u] :
            SettledRow(q) \/ rows[q].expires <= now \/ PushedOut(u, q)]_allInboxVars
  <2> SUFFICES ASSUME HubFacts, InboxInv, InboxNext, NEW u \in Users,
                      NEW q \in page[u] \ page'[u]
               PROVE  SettledRow(q) \/ rows[q].expires <= now \/ PushedOut(u, q)
    OBVIOUS
  <2>1. InboxTypeOK /\ q \in Requests /\ Exists(q) /\ user[q] = u
    BY DEF InboxInv, InboxTypeOK
  <2>2. GetInbox(u)
    BY <2>1 DEF InboxNext, GetInbox, InboxTypeOK
  <2>3. q \notin ListPending(u)
    BY <2>1, <2>2 DEF GetInbox, InboxTypeOK
  <2> QED
    BY <2>1, <2>3, UnlistedForAReason DEF HubFacts
<1>2. InboxSpec => []HubFacts
    BY HubUnread, HubFactsHold, PTL
<1> QED
    BY <1>1, <1>2, InboxInvInit, InboxInvStep, PTL DEF InboxSpec, LeavesForAReason
=============================================================================
