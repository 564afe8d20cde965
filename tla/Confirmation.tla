---------------------------- MODULE Confirmation ----------------------------
(* What the hub promises about the life of a request, with no coroutine, no   *)
(* relay and no payload: a request is settled by its deadline or by attempts  *)
(* that were let in while it was pending; an attempt decides at most once,    *)
(* with the verdict it was let in with, and nothing else touches the status.  *)
(* Attempts let in together overwrite each other.                             *)
CONSTANTS Requests, Decisions

VARIABLES
    status,        \* of every request
    admitted,      \* attempts let in, each with its target and verdict
    decided        \* attempts that wrote their verdict

vars == <<status, admitted, decided>>

Rulings == {"approved", "rejected"}
Settled == Rulings \cup {"expired"}
Ticket == [by : Decisions, target : Requests, verdict : Rulings]

Init == /\ status = [q \in Requests |-> "absent"]
        /\ admitted = {}
        /\ decided = {}

Create(q) == /\ status[q] = "absent"
             /\ status' = [status EXCEPT ![q] = "pending"]
             /\ UNCHANGED <<admitted, decided>>

Admit(t) == /\ status[t.target] = "pending"
            /\ \A other \in admitted \cup decided : other.by # t.by
            /\ admitted' = admitted \cup {t}
            /\ UNCHANGED <<status, decided>>

Decide(t) == /\ t \in admitted
             /\ status' = [status EXCEPT ![t.target] = t.verdict]
             /\ admitted' = admitted \ {t}
             /\ decided' = decided \cup {t}

(* Attempts are lost: a statement fails, the process dies.                    *)
Forget == /\ admitted' \in SUBSET admitted
          /\ UNCHANGED <<status, decided>>

Expire == \E Q \in SUBSET {q \in Requests : status[q] = "pending"} :
              /\ status' = [q \in Requests |-> IF q \in Q THEN "expired" ELSE status[q]]
              /\ UNCHANGED <<admitted, decided>>

Next == \/ \E q \in Requests : Create(q)
        \/ \E t \in Ticket : Admit(t) \/ Decide(t)
        \/ Forget \/ Expire

Spec == Init /\ [][Next]_vars
=============================================================================
