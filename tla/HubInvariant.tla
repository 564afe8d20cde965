---------------------------- MODULE HubInvariant ----------------------------
(* Why the safety properties of HitlHub hold: what is true of the table, the  *)
(* relay and the coroutines between any two steps.                            *)
EXTENDS HitlHub

(* A row appears when its own call inserts it, out of the draft that call     *)
(* built; it is published only with an owner and referenced only when it is   *)
(* on the relay; an answer names a row with the key of the call.              *)
CallOK(q) ==
    /\ pc[q] \in {"idle", "lookup", "owner", "insert", "duplicate"} => ~Exists(q)
    /\ pc[q] \in {"publish", "setref", "notify"} => Exists(q)
    /\ pc[q] \in {"owner", "insert"} =>
          /\ draft[q].status = "pending"
          /\ draft[q].key = req[q].key
          /\ ~draft[q].referenced
    /\ pc[q] \in {"publish", "setref"} => rows[q].owner # NoOwner
    /\ pc[q] = "setref" => OnRelay(q)
    /\ Exists(q) => rows[q].key = req[q].key
    /\ rows[q].referenced => OnRelay(q)

AnswerOK(q) ==
    pc[q] = "done" /\ answer[q].id # NoRequest =>
        Exists(answer[q].id) /\ rows[answer[q].id].key = req[q].key

(* Every item has an author of its own, so no publication replaces another.   *)
RelayOK ==
    \A item \in relay :
        /\ item.author = item.request
        /\ Exists(item.request)
        /\ rows[item.request].owner # NoOwner

CallsInv == /\ \A q \in Requests : CallOK(q) /\ AnswerOK(q)
            /\ KeyUnique
            /\ RelayOK

(* A kind:10021 answer that got past the listener came from the owner of its  *)
(* row.                                                                       *)
FromOwner(d) ==
    /\ verdict[d].target \in Requests
    /\ Exists(verdict[d].target)
    /\ rows[verdict[d].target].owner # NoOwner
    /\ verdict[d].signer = rows[verdict[d].target].owner

(* An attempt writes after it found its row pending, and a late one never     *)
(* does.                                                                      *)
AttemptOK(d) ==
    /\ rpc[d] = "idle" => d \notin writes \cup late
    /\ rpc[d] = "update" => verdict[d].target \in Requests /\ Exists(verdict[d].target)
    /\ d \in late => /\ SettledRow(verdict[d].target)
                     /\ d \notin writes
                     /\ rpc[d] # "update"
    /\ verdict[d].via = "nostr" /\ (rpc[d] \in {"get", "update"} \/ d \in writes)
          => FromOwner(d)

AttemptsInv == \A d \in Decisions : AttemptOK(d)

HubInv == CallsInv /\ AttemptsInv

-----------------------------------------------------------------------------
(* A row carries a resolution only once it is settled, and every payload on   *)
(* its way into the row, the draft's or an attempt's copy, was taken before.  *)
DraftPayload(q) ==
    pc[q] \in {"owner", "insert"} =>
        draft[q].payload = [details |-> req[q].details, resolution |-> "none"]

RowPayload(q) ==
    /\ Exists(q) => rows[q].payload.details = req[q].details
    /\ rows[q].status = "pending" => rows[q].payload.resolution = "none"
    /\ rows[q].status = "rejected" => rows[q].payload.resolution = "reason"
    /\ rows[q].status = "approved" /\ rows[q].payload.details
          => rows[q].payload.resolution # "reason"

CopiedPayload(d) ==
    rpc[d] = "update" =>
        snap[d] = [details |-> req[verdict[d].target].details, resolution |-> "none"]

PayloadInv == /\ \A q \in Requests : DraftPayload(q) /\ RowPayload(q)
              /\ \A d \in Decisions : CopiedPayload(d)

(* A row somebody wrote shows a decision, that of its writer if there is only *)
(* one, and Memorium hears from writers only.                                 *)
OnlyWriter(d) == \A e \in writes : verdict[e].target = verdict[d].target => e = d

WriterOK(d) ==
    /\ d \in writes =>
          /\ verdict[d].target \in Requests
          /\ rows[verdict[d].target].status \in {"approved", "rejected"}
          /\ OnlyWriter(d) => rows[verdict[d].target].status = Decision(verdict[d])
    /\ rpc[d] \in {"hooks", "post"} => d \in writes

CallTrue(call) == /\ call.by \in writes
                  /\ call.proposal = verdict[call.by].target
                  /\ call.approved = verdict[call.by].approved

EffectsInv == /\ \A d \in Decisions : WriterOK(d)
              /\ \A call \in memorium : CallTrue(call)
=============================================================================
