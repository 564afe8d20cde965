------------------------------ MODULE Registry ------------------------------
(* What request() promises producers about idempotency keys, with no table    *)
(* and no coroutine: a register in which every key gets at most one id, in    *)
(* one step, and a call that names a key is told the id of that key, fails,   *)
(* or is never answered.  An id is named by the call that drew it.            *)
CONSTANTS Calls, Keys, NoKey

VARIABLES
    asked,         \* the key each call came with
    registered,    \* the calls whose id is in the register
    reply          \* "idle", "waiting", "failed", or the id the call was told

vars == <<asked, registered, reply>>

Init == /\ asked = [c \in Calls |-> NoKey]
        /\ registered = {}
        /\ reply = [c \in Calls |-> "idle"]

Answer(c, r) == reply' = [reply EXCEPT ![c] = r]

(* A call arrives; one with malformed arguments is turned away at once.       *)
Ask(c, k) == /\ reply[c] = "idle"
             /\ asked' = [asked EXCEPT ![c] = k]
             /\ Answer(c, "waiting") \/ Answer(c, "failed")
             /\ UNCHANGED registered

SameKey(c, r) == asked[r] = asked[c] /\ asked[c] # NoKey

(* The one step that counts: the key had no id, and has one now, even if the  *)
(* call never learns it.                                                      *)
Register(c) == /\ reply[c] = "waiting"
               /\ c \notin registered
               /\ ~\E r \in registered : SameKey(c, r)
               /\ registered' = registered \cup {c}
               /\ UNCHANGED reply \/ Answer(c, "failed")
               /\ UNCHANGED asked

Reply(c) == /\ reply[c] = "waiting"
            /\ \E r \in registered : (r = c \/ SameKey(c, r)) /\ Answer(c, r)
            /\ UNCHANGED <<asked, registered>>

(* An exception ends one call; a crash ends every call under way.             *)
Fail == \E C \in SUBSET {c \in Calls : reply[c] = "waiting"} :
            /\ reply' = [c \in Calls |-> IF c \in C THEN "failed" ELSE reply[c]]
            /\ UNCHANGED <<asked, registered>>

Next == \/ \E c \in Calls, k \in Keys \cup {NoKey} : Ask(c, k)
        \/ \E c \in Calls : Register(c) \/ Reply(c)
        \/ Fail

Spec == Init /\ [][Next]_vars
=============================================================================
