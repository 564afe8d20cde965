------------------------------ MODULE HitlTable ------------------------------
(* The nostr_hitl table and the SQL statements of core/repository.py that the *)
(* engine runs against it.  Each statement is atomic (one connection, one     *)
(* autocommitted statement) and nothing spans two of them, so the steps of    *)
(* the other modules are exactly the statements below.                        *)
(*                                                                            *)
(* A row is named by the call of HITLEngine.request() that inserts it: every  *)
(* call draws a fresh uuid as event_id, so the call stands for the id, and    *)
(* for the Nostr id of the one kind:10020 event the call may publish.         *)
EXTENDS Integers, FiniteSets

CONSTANTS
    Requests,    \* calls of request(), each with the event_id it draws
    NoRequest,   \* an id no call has drawn (also: no confirmation_id)
    Keys,        \* producer idempotency keys, the empty string included
    EmptyKey,    \* the empty string: falsy in Python, NOT NULL in SQL
    NoKey,       \* metadata without an idempotency_key: NULL
    Pubkeys,     \* Nostr public keys of users
    NoOwner,     \* owner_pubkey missing
    MaxTime,     \* bound on the clock
    MaxFaults    \* bound on failures of the database, the network, the process

ASSUME IdAssumption == NoRequest \notin Requests
ASSUME KeyAssumption == EmptyKey \in Keys /\ NoKey \notin Keys
ASSUME OwnerAssumption == NoOwner \notin Pubkeys
ASSUME BoundAssumption == MaxTime \in Nat /\ MaxFaults \in Nat

VARIABLES
    rows,        \* the table: a Row per request, "absent" before its INSERT
    now,         \* wall clock of the hub and of PostgreSQL
    faults       \* failures so far

tableVars == <<rows, now, faults>>

Settled == {"approved", "rejected", "expired"}
Statuses == {"absent", "pending"} \cup Settled

(* The JSON payload: whether the request brought any details, and what a      *)
(* resolution merged under "resolution" (approve's dict or reject's reason).  *)
Payload == [details : BOOLEAN, resolution : {"none", "response", "reason"}]

OptKey == Keys \cup {NoKey}
OptOwner == Pubkeys \cup {NoOwner}

(* referenced is "reference_id IS NOT NULL"; conflict is "action =            *)
(* 'modelbook_conflict'".                                                     *)
Row == [status : Statuses, key : OptKey, owner : OptOwner, referenced : BOOLEAN,
        expires : Int, conflict : BOOLEAN, payload : Payload]

NoRow == [status |-> "absent", key |-> NoKey, owner |-> NoOwner, referenced |-> FALSE,
          expires |-> 0, conflict |-> FALSE,
          payload |-> [details |-> FALSE, resolution |-> "none"]]

TableInit == /\ rows = [q \in Requests |-> NoRow]
             /\ now = 0
             /\ faults = 0

TableTypeOK == /\ rows \in [Requests -> Row]
               /\ now \in 0 .. MaxTime
               /\ faults \in 0 .. MaxFaults

-----------------------------------------------------------------------------
Exists(q) == rows[q].status # "absent"

(* get_by_idempotency_key.                                                    *)
ByKey(k) == {q \in Requests : Exists(q) /\ rows[q].key = k}

(* get_by_reference: the rows whose reference_id is the Nostr id of r.        *)
ByReference(r) == {q \in Requests : Exists(q) /\ rows[q].referenced /\ q = r}

(* The partial unique index over idempotency_key IS NOT NULL refuses a second *)
(* row with the key; the mutant is the migration without it.                  *)
KeyFree_noIndex(k) == TRUE
KeyFree(k) == k = NoKey \/ ByKey(k) = {}

Inserted(q, row) == [rows EXCEPT ![q] = row]

(* set_reference writes one column; the mutant saves the whole event the      *)
(* coroutine still holds.                                                     *)
WithReference_saveEvent(q, event) == [rows EXCEPT ![q] = [event EXCEPT !.referenced = TRUE]]
WithReference(q, event) == [rows EXCEPT ![q].referenced = TRUE]

(* update_status: no guard on the status the row has by now.  An empty        *)
(* payload is sent as NULL and leaves the column alone.  The mutant swaps the *)
(* order and keeps what the column holds.                                     *)
NonEmpty(payload) == payload.details \/ payload.resolution # "none"

Written_keep(row, payload) == IF NonEmpty(row.payload) THEN row.payload ELSE payload
Written(row, payload) == IF NonEmpty(payload) THEN payload ELSE row.payload

UpdatedStatus(q, status, payload) ==
    [rows EXCEPT ![q] = [rows[q] EXCEPT !.status = status,
                                        !.payload = Written(rows[q], payload)]]

(* expire_stale; the mutant compares the wrong way round.                     *)
IsStale_swapped(row) == row.status = "pending" /\ row.expires > now
IsStale(row) == row.status = "pending" /\ row.expires < now

ExpiredStale == [q \in Requests |->
    IF IsStale(rows[q]) THEN [rows[q] EXCEPT !.status = "expired"] ELSE rows[q]]

-----------------------------------------------------------------------------
(* Time, and the budget for failures: every lost statement, refused POST,     *)
(* dropped connection or process crash takes one, so "nothing fails" is       *)
(* faults = 0.                                                                *)
Tick == /\ now < MaxTime
        /\ now' = now + 1
        /\ UNCHANGED <<rows, faults>>

Fault == /\ faults < MaxFaults
         /\ faults' = faults + 1
=============================================================================
