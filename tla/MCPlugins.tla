------------------------------ MODULE MCPlugins ------------------------------
(* Instances of Plugins for TLC.                                              *)
EXTENDS Plugins

Actions == {"create_calendar_event", "send_email", "modelbook_conflict", "start_recording",
            "deploy_sensor", "other"}

Wanted(action) == Required(Specific(action), action)

(* For each action a complete request and those with one field missing.       *)
MCAsks == UNION {{[action |-> a, fields |-> Wanted(a)]}
                 \cup {[action |-> a, fields |-> Wanted(a) \ {f}] : f \in Wanted(a)} : a \in Actions}
=============================================================================
