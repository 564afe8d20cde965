------------------------------ MODULE Lifecycle ------------------------------
(* core/lifecycle.py with the four hooks of plugins/hooks, in the order the   *)
(* manager discovers them (audit, cache, expiry, modelbook).  The cache hook  *)
(* has no Redis client and the expiry hook's callbacks do nothing, so two     *)
(* effects remain: the audit line and Memorium's resolve-conflict call.       *)
EXTENDS HitlTable

CONSTANT Decisions    \* attempts to resolve a request (see ResolutionFlow)

VARIABLES
    audit,       \* the audit lines written: <<event_id, event>>
    memorium     \* the resolve-conflict calls Memorium received

lifecycleVars == <<audit, memorium>>

Call == [by : Decisions, proposal : Requests, approved : BOOLEAN]

LifecycleInit == audit = {} /\ memorium = {}

LifecycleTypeOK ==
    /\ audit \subseteq (Requests \X ({"created"} \cup Settled))
    /\ memorium \subseteq Call

(* on_created: only the audit hook does something.                            *)
OnCreated(q) == audit' = audit \cup {<<q, "created">>} /\ UNCHANGED memorium

(* on_approved and on_rejected, up to the first await: the audit line.        *)
OnResolved(q, status) == audit' = audit \cup {<<q, status>>} /\ UNCHANGED memorium

(* ModelBookHook._resolve goes on to the POST only for a conflict whose       *)
(* payload still carries the proposal_id.                                     *)
CallsMemorium(row, payload) == row.conflict /\ payload.details

(* One pass of ExpiryHook._expire_loop: the statement, and no hook.  A pass   *)
(* that fails is logged and changes nothing.                                  *)
Sweep == /\ rows' = ExpiredStale
         /\ UNCHANGED <<now, faults, lifecycleVars>>
=============================================================================
