-------------------------------- MODULE Inbox --------------------------------
(* hitl://inbox/{user_id}: what list_pending shows a user of the hub's table, *)
(* read at any moment beside the hub's own steps.                             *)
EXTENDS HitlHub, Sequences

CONSTANTS
    Users,
    Limit        \* of the query: 100

ASSUME LimitAssumption == Limit \in Nat

VARIABLES
    user,        \* the user_id each call of request() names
    born,        \* the calls that built their event, by created_at
    page         \* what each user's last read showed

inboxVars == <<user, born, page>>
allInboxVars == <<vars, inboxVars>>

InboxInit == /\ user \in [Requests -> Users]
             /\ born = <<>>
             /\ page = [u \in Users |-> {}]

-----------------------------------------------------------------------------
(* created_at is drawn when the event is built, before the INSERT.            *)
Builds(q) == draft[q].status = "absent" /\ draft'[q].status = "pending"

Born == IF \E q \in Requests : Builds(q)
        THEN born' = Append(born, CHOOSE q \in Requests : Builds(q))
        ELSE UNCHANGED born

Newer(p, q) == \E i, j \in 1 .. Len(born) : i > j /\ born[i] = p /\ born[j] = q

(* The WHERE clause.                                                          *)
Waiting(u) == {q \in Requests : /\ rows[q].status = "pending" /\ user[q] = u
                                /\ rows[q].expires > now}

(* ORDER BY created_at DESC LIMIT 100; the mutant shows the oldest.           *)
ListPending_oldest(u) ==
    {q \in Waiting(u) : Cardinality({p \in Waiting(u) : Newer(q, p)}) < Limit}
ListPending(u) ==
    {q \in Waiting(u) : Cardinality({p \in Waiting(u) : Newer(p, q)}) < Limit}

GetInbox(u) == /\ hub # "down"
               /\ page' = [page EXCEPT ![u] = ListPending(u)]
               /\ UNCHANGED <<vars, user, born>>

InboxNext == \/ Next /\ Born /\ UNCHANGED <<user, page>>
             \/ \E u \in Users : GetInbox(u)

InboxSpec == Init /\ InboxInit /\ [][InboxNext]_allInboxVars

-----------------------------------------------------------------------------
(* The item was pushed out by as many younger rows as a page holds.           *)
Younger(u, q) == {p \in Requests : Exists(p) /\ user[p] = u /\ Newer(p, q)}
PushedOut(u, q) == Cardinality(Younger(u, q)) >= Limit

(* An item a user was shown leaves his inbox only because it was settled, its *)
(* deadline passed or it was pushed out by younger ones: not because of one   *)
(* that was created before it and whose INSERT came late.                     *)
LeavesForAReason ==
    [][\A u \in Users : \A q \in page[u] \ page'[u] :
          SettledRow(q) \/ rows[q].expires <= now \/ PushedOut(u, q)]_allInboxVars
=============================================================================
