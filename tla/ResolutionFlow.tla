---------------------------- MODULE ResolutionFlow ----------------------------
(* Resolving a request: the REST route and the MCP tools call                 *)
(* HITLEngine.approve() or reject() directly; a kind:10021 event reaches them *)
(* through NostrBridge._handle_resolution.  As in RequestFlow an action is a  *)
(* round trip: the effect, and where the coroutine continues.  Nothing orders *)
(* two attempts, whichever way they come.                                     *)
EXTENDS Lifecycle, NostrBridge

VARIABLES
    rpc,         \* where each attempt is
    verdict,     \* what it asks for
    snap,        \* the payload of the event that get() returned to it
    writes,      \* attempts whose UPDATE committed
    late         \* attempts made when the row was already settled

resVars == <<rpc, verdict, snap, writes, late>>
resBaseVars == <<tableVars, lifecycleVars, bridgeVars>>

Verdict == [via : {"direct", "nostr"}, target : Requests \cup {NoRequest},
            signer : OptOwner, approved : BOOLEAN, response : BOOLEAN]
NoVerdict == [via |-> "direct", target |-> NoRequest, signer |-> NoOwner,
              approved |-> FALSE, response |-> FALSE]

InResolution == {"get", "update", "hooks", "post"}
ResolutionLabels ==
    InResolution \cup {"idle", "sent", "missed", "unknown", "ignored", "refused",
                       "raised", "lost", "done"}

ResolutionInit == /\ rpc = [d \in Decisions |-> "idle"]
                  /\ verdict = [d \in Decisions |-> NoVerdict]
                  /\ snap = [d \in Decisions |-> NoRow.payload]
                  /\ writes = {}
                  /\ late = {}

ResolutionTypeOK == /\ rpc \in [Decisions -> ResolutionLabels]
                    /\ verdict \in [Decisions -> Verdict]
                    /\ snap \in [Decisions -> Payload]
                    /\ writes \subseteq Decisions
                    /\ late \subseteq Decisions

Decision(v) == IF v.approved THEN "approved" ELSE "rejected"

-----------------------------------------------------------------------------
ResGoto(d, label) == rpc' = [rpc EXCEPT ![d] = label]

SettledRow(q) == q \in Requests /\ rows[q].status \in Settled

Attempt(d, v, label) ==
    /\ rpc[d] = "idle"
    /\ verdict' = [verdict EXCEPT ![d] = v]
    /\ late' = IF SettledRow(v.target) THEN late \cup {d} ELSE late
    /\ ResGoto(d, label)
    /\ UNCHANGED <<snap, writes, resBaseVars>>

(* POST /hitl/requests/<id>/resolve.                                          *)
Resolve(d, v) == v.via = "direct" /\ hub # "down" /\ Attempt(d, v, "get")

(* Somebody answers a kind:10020 on the relay (or one that is not the hub's): *)
(* delivered to the subscription, or gone if there is none, since the next    *)
(* one starts from its own moment.                                            *)
SendAnswer(d, v) ==
    /\ v.via = "nostr"
    /\ v.target = NoRequest \/ OnRelay(v.target)
    /\ Attempt(d, v, IF listening THEN "sent" ELSE "missed")

(* The mutants accept any signer, and only signers that are not the owner.    *)
MayResolve_anyone(row, signer) == TRUE
MayResolve_inverted(row, signer) == row.owner = NoOwner \/ signer # row.owner
MayResolve(row, signer) == row.owner = NoOwner \/ signer = row.owner

(* _handle_resolution up to the call of the engine.                           *)
HandleResolution(d) ==
    /\ rpc[d] = "sent"
    /\ \/ ByReference(verdict[d].target) = {} /\ ResGoto(d, "unknown")
       \/ \E q \in ByReference(verdict[d].target) :
             \/ rows[q].status # "pending" /\ ResGoto(d, "refused")
             \/ /\ rows[q].status = "pending"
                /\ ResGoto(d, IF MayResolve(rows[q], verdict[d].signer)
                              THEN "get" ELSE "ignored")
    /\ UNCHANGED <<verdict, snap, writes, late, resBaseVars>>

(* approve() and reject() read the row and refuse one that is not pending.    *)
(* The mutant only refuses a row that is not there.                           *)
Open_anyStatus(q) == q \in Requests /\ Exists(q)
Open(q) == q \in Requests /\ rows[q].status = "pending"

(* One read, and the early returns; the mutant reads again until the row is   *)
(* pending.                                                                   *)
GetRow_polls(d) ==
    /\ rpc[d] = "get" /\ Open(verdict[d].target)
    /\ ResGoto(d, "update")
    /\ snap' = [snap EXCEPT ![d] = rows[verdict[d].target].payload]
    /\ UNCHANGED <<verdict, writes, late, resBaseVars>>
GetRow(d) ==
    /\ rpc[d] = "get"
    /\ IF Open(verdict[d].target)
       THEN ResGoto(d, "update") /\ snap' = [snap EXCEPT ![d] = rows[verdict[d].target].payload]
       ELSE ResGoto(d, "refused") /\ UNCHANGED snap
    /\ UNCHANGED <<verdict, writes, late, resBaseVars>>

(* What the resolution merges into the payload read before; the mutant        *)
(* replaces the payload.                                                      *)
Merged_replaced(d) ==
    [details |-> FALSE,
     resolution |-> IF ~verdict[d].approved THEN "reason"
                    ELSE IF verdict[d].response THEN "response" ELSE "none"]
Merged(d) ==
    [snap[d] EXCEPT !.resolution = IF ~verdict[d].approved THEN "reason"
                                   ELSE IF verdict[d].response THEN "response" ELSE @]

(* The UPDATE.                                                                *)
Committed(d) == /\ rows' = UpdatedStatus(verdict[d].target, Decision(verdict[d]), Merged(d))
                /\ writes' = writes \cup {d}

Update(d) ==
    /\ rpc[d] = "update"
    /\ Committed(d)
    /\ ResGoto(d, "hooks")
    /\ UNCHANGED <<verdict, snap, late, now, faults, lifecycleVars, bridgeVars>>

(* lifecycle.on_approved / on_rejected: the hooks before modelbook; the POST  *)
(* is a round trip of its own.                                                *)
Hooks(d) ==
    /\ rpc[d] = "hooks"
    /\ OnResolved(verdict[d].target, Decision(verdict[d]))
    /\ ResGoto(d, IF CallsMemorium(rows[verdict[d].target], Merged(d)) THEN "post" ELSE "done")
    /\ UNCHANGED <<verdict, snap, writes, late, tableVars, bridgeVars>>

Told(d) == memorium \cup {[by |-> d, proposal |-> verdict[d].target,
                           approved |-> verdict[d].approved]}

Post(d) ==
    /\ rpc[d] = "post"
    /\ memorium' = Told(d)
    /\ ResGoto(d, "done")
    /\ UNCHANGED <<verdict, snap, writes, late, audit, tableVars, bridgeVars>>

-----------------------------------------------------------------------------
(* A statement fails before it reaches the table: the caller gets the         *)
(* exception, or the listener's handler logs it.  The mutant runs the hooks   *)
(* all the same.                                                              *)
ResolutionDbFails_hooksRun(d) ==
    /\ rpc[d] \in {"sent", "get", "update"}
    /\ Fault
    /\ ResGoto(d, IF rpc[d] = "update" THEN "hooks" ELSE "raised")
    /\ UNCHANGED <<verdict, snap, writes, late, rows, now, lifecycleVars, bridgeVars>>
ResolutionDbFails(d) ==
    /\ rpc[d] \in {"sent", "get", "update"}
    /\ Fault
    /\ ResGoto(d, "raised")
    /\ UNCHANGED <<verdict, snap, writes, late, rows, now, lifecycleVars, bridgeVars>>

(* The UPDATE commits and the connection is lost before the reply.            *)
UpdateReplyLost(d) ==
    /\ rpc[d] = "update"
    /\ Fault
    /\ Committed(d)
    /\ ResGoto(d, "raised")
    /\ UNCHANGED <<verdict, snap, late, now, lifecycleVars, bridgeVars>>

(* Memorium cannot be reached, or its reply is lost: logged, not retried.     *)
PostFails(d) ==
    /\ rpc[d] = "post"
    /\ Fault
    /\ memorium' \in {memorium, Told(d)}
    /\ ResGoto(d, "done")
    /\ UNCHANGED <<verdict, snap, writes, late, audit, rows, now, bridgeVars>>

(* Answers waiting for the handler go with the subscription, ...              *)
DropAnswers == [d \in Decisions |-> IF rpc[d] = "sent" THEN "missed" ELSE rpc[d]]

LoseAnswers == /\ rpc' = DropAnswers
               /\ UNCHANGED <<verdict, snap, writes, late>>

(* ... and the attempts in progress with the process.                         *)
LoseResolutions ==
    /\ rpc' = [d \in Decisions |->
                 IF rpc[d] \in InResolution THEN "lost" ELSE DropAnswers[d]]
    /\ UNCHANGED <<verdict, snap, writes, late>>

ResolutionProceeds(d) == \/ HandleResolution(d) \/ GetRow(d) \/ Update(d)
                         \/ Hooks(d) \/ Post(d)

ResolutionFails(d) == ResolutionDbFails(d) \/ UpdateReplyLost(d) \/ PostFails(d)
=============================================================================
