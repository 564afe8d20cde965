---------------------------- MODULE HubRefinement ----------------------------
(* HitlHub implements the two abstract specifications its clients rely on:    *)
(* Registry, seen by producers, and Confirmation, seen by whoever follows a   *)
(* request.                                                                   *)
EXTENDS HitlHub

(* What a producer sees of a call: nothing before it returns, the id it is    *)
(* given, or no id (refused, an exception, a dead process).                   *)
Seen(q) == IF pc[q] = "idle" THEN "idle"
           ELSE IF pc[q] \in InRequest THEN "waiting"
           ELSE IF pc[q] = "done" /\ answer[q].id # NoRequest THEN answer[q].id
           ELSE "failed"

Asked == [q \in Requests |-> req[q].key]
Registered == {q \in Requests : Exists(q)}
Replies == [q \in Requests |-> Seen(q)]

ARegistry == INSTANCE Registry WITH
    Calls <- Requests, asked <- Asked, registered <- Registered, reply <- Replies

(* An attempt is let in by the read that found its row pending, and counts    *)
(* from then until its UPDATE.                                                *)
Ticket(d) == [by |-> d, target |-> verdict[d].target, verdict |-> Decision(verdict[d])]

Status == [q \in Requests |-> rows[q].status]
Admitted == {Ticket(d) : d \in {e \in Decisions : rpc[e] = "update"}}
Decided == {Ticket(d) : d \in writes}

AConfirmation == INSTANCE Confirmation WITH
    status <- Status, admitted <- Admitted, decided <- Decided

(* However the lookups, inserts, failures and crashes of concurrent calls of  *)
(* request() interleave, producers see an atomic get-or-create per key.       *)
ImplementsRegistry == ARegistry!Spec

(* Every change of a row's status is the insertion, the expiry task, or the   *)
(* one UPDATE of an attempt let in while the row was pending.                 *)
ImplementsConfirmation == AConfirmation!Spec
=============================================================================
