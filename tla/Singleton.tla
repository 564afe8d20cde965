------------------------------ MODULE Singleton ------------------------------
(* What get_engine() promises its callers, with no lock, no pool and no       *)
(* migration: an engine that is created in one step, on a complete schema,    *)
(* and stays for the life of the process; a caller is given that one, fails,  *)
(* or is never answered.  An engine is named by the call that created it.     *)
CONSTANTS Calls, NoCall

VARIABLES
    schema,      \* the tables are there
    instance,    \* the engine of this process
    working,     \* the engines whose background tasks run
    reply,       \* "idle", "waiting", "failed" or "given"
    given        \* the engine each call was given

vars == <<schema, instance, working, reply, given>>

Init == /\ schema = FALSE
        /\ instance = NoCall
        /\ working = {}
        /\ reply = [c \in Calls |-> "idle"]
        /\ given = [c \in Calls |-> NoCall]

Reply(c, r) == reply' = [reply EXCEPT ![c] = r]

Give(c, engine) == Reply(c, "given") /\ given' = [given EXCEPT ![c] = engine]

Ask(c) == /\ reply[c] = "idle"
          /\ Reply(c, "waiting")
          /\ UNCHANGED <<schema, instance, working, given>>

(* A call that finds an engine gets it, on its arrival or later.              *)
Get(c) == /\ reply[c] \in {"idle", "waiting"} /\ instance # NoCall
          /\ Give(c, instance)
          /\ UNCHANGED <<schema, instance, working>>

(* The schema is completed by a call that needs it, even if that call fails,  *)
(* and by nobody once there is an engine.                                     *)
Prepare(c) == /\ reply[c] = "waiting" /\ instance = NoCall /\ ~schema
              /\ schema' = TRUE
              /\ UNCHANGED reply \/ Reply(c, "failed")
              /\ UNCHANGED <<instance, working, given>>

Create(c) == /\ reply[c] = "waiting" /\ instance = NoCall /\ schema
             /\ instance' = c
             /\ working' = working \cup {c}
             /\ Give(c, c)
             /\ UNCHANGED schema

Fail(c) == /\ reply[c] = "waiting"
           /\ Reply(c, "failed")
           /\ UNCHANGED <<schema, instance, working, given>>

(* The end of the process takes everything but the schema.                    *)
Crash == /\ instance' = NoCall /\ working' = {}
         /\ reply' = [c \in Calls |-> IF reply[c] = "idle" THEN "idle" ELSE "failed"]
         /\ given' = [c \in Calls |-> NoCall]
         /\ UNCHANGED schema

Next == \/ \E c \in Calls : Ask(c) \/ Get(c) \/ Prepare(c) \/ Create(c) \/ Fail(c)
        \/ Crash

Spec == Init /\ [][Next]_vars
=============================================================================
