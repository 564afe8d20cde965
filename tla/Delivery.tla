------------------------------- MODULE Delivery -------------------------------
(* What NotifyEngine.send() and ack() promise, with no preferences, quiet      *)
(* hours or loop: the channels a notification goes to are settled at one       *)
(* moment; each is tried, in any order, and no other; then there is a row of   *)
(* it, which is acknowledged once.                                             *)
CONSTANTS Sends, Acks, Channels, NoSend

VARIABLES
    wanted,     \* the channels each notification ought to take just now
    phase,      \* "idle", "waiting", "sending", "done" or "failed"
    pending,    \* channels a send has yet to try
    tried,      \* channels it tried
    through,    \* <<send, channel>>: what got through
    log,        \* a row for each notification whose channels were tried
    acked, ackOf, answer

(* wanted is the world's: users edit preferences and the clock ticks.          *)
vars == <<phase, pending, tried, through, log, acked, ackOf, answer>>

Init == /\ phase = [n \in Sends |-> "idle"]
        /\ pending = [n \in Sends |-> {}]
        /\ tried = [n \in Sends |-> {}]
        /\ through = {} /\ log = {} /\ acked = {}
        /\ ackOf = [a \in Acks |-> NoSend]
        /\ answer = [a \in Acks |-> "idle"]

Enter(n, label) == phase' = [phase EXCEPT ![n] = label]
IsLogged(n) == \E row \in log : row.id = n

Take(n) == /\ phase[n] = "idle" /\ Enter(n, "waiting")
           /\ UNCHANGED <<pending, tried, through, log, acked, ackOf, answer>>

Plan(n) == /\ phase[n] = "waiting" /\ Enter(n, "sending")
           /\ pending' = [pending EXCEPT ![n] = wanted[n]]
           /\ UNCHANGED <<tried, through, log, acked, ackOf, answer>>

Try(n, c) == /\ phase[n] = "sending" /\ c \in pending[n]
             /\ pending' = [pending EXCEPT ![n] = @ \ {c}]
             /\ tried' = [tried EXCEPT ![n] = @ \cup {c}]
             /\ through' \in {through, through \cup {<<n, c>>}}
             /\ UNCHANGED <<phase, log, acked, ackOf, answer>>

(* The row is written; the reply to it may get lost.                           *)
Record(n) == /\ phase[n] = "sending" /\ pending[n] = {}
             /\ log' = log \cup {[id |-> n, attempted |-> tried[n]]}
             /\ \E end \in {"done", "failed"} : Enter(n, end)
             /\ UNCHANGED <<pending, tried, through, acked, ackOf, answer>>

(* A send gives up before its first channel or after its last.                 *)
Fail(n) == /\ phase[n] \in {"waiting", "sending"} /\ pending[n] = {}
           /\ Enter(n, "failed")
           /\ UNCHANGED <<pending, tried, through, log, acked, ackOf, answer>>

Crash == /\ phase' = [n \in Sends |-> IF phase[n] \in {"waiting", "sending"}
                                      THEN "failed" ELSE phase[n]]
         /\ pending' = [n \in Sends |-> {}]
         /\ UNCHANGED <<tried, through, log, acked, ackOf, answer>>

Ack(a, n) == /\ answer[a] = "idle"
             /\ ackOf' = [ackOf EXCEPT ![a] = n]
             /\ \/ /\ IsLogged(n) /\ n \notin acked
                   /\ acked' = acked \cup {n}
                   /\ answer' = [answer EXCEPT ![a] = "yes"]
                \/ /\ ~IsLogged(n) \/ n \in acked
                   /\ UNCHANGED acked
                   /\ answer' = [answer EXCEPT ![a] = "no"]
             /\ UNCHANGED <<phase, pending, tried, through, log>>

AckFails(a, n) == /\ answer[a] = "idle"
                  /\ ackOf' = [ackOf EXCEPT ![a] = n]
                  /\ answer' = [answer EXCEPT ![a] = "raised"]
                  /\ UNCHANGED acked \/ (IsLogged(n) /\ acked' = acked \cup {n})
                  /\ UNCHANGED <<phase, pending, tried, through, log>>

Next == \/ \E n \in Sends : \/ Take(n) \/ Plan(n) \/ Record(n) \/ Fail(n)
                            \/ \E c \in Channels : Try(n, c)
        \/ Crash
        \/ \E a \in Acks, n \in Sends : Ack(a, n) \/ AckFails(a, n)

Spec == Init /\ [][Next]_vars
=============================================================================
