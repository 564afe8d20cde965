-------------------------------- MODULE Plugins --------------------------------
(* The plugin registries and what a request goes through in them.  At boot    *)
(* ValidatorRegistry, LifecycleManager, DispatcherRegistry and                *)
(* ChannelRegistry each load the modules of one package; then a request is    *)
(* validated, its creation goes through every hook and every notifier, its    *)
(* resolution through every hook.                                             *)
EXTENDS Naturals, SequencesExt

CONSTANTS
    Calls,        \* requests made of the hub
    Asks,         \* the requests they may be
    NoPlugin      \* None

Packages == {"validators", "hooks", "notifications", "channels"}

(* The modules of each package as pkgutil lists them, by name, base left out. *)
Shipped == [validators    |-> <<"calendar", "default", "email", "modelbook_conflict",
                                "recording", "sensor_deploy">>,
            hooks         |-> <<"audit", "cache", "expiry", "modelbook">>,
            notifications |-> <<"nostr", "sse">>,
            channels      |-> <<"email", "webpush", "whatsapp">>]

Added == "added"
Names == {Added} \cup UNION {ToSet(Shipped[pkg]) : pkg \in Packages}

ASSUME PluginAssumption == NoPlugin \notin Names

VARIABLES
    files,        \* the modules of each package, with one somebody added
    broken,       \* modules that raise when they are imported
    plugins,      \* what each registry holds, in order
    booted,       \* get_engine has built the registries
    ask,          \* the request of each call
    stage,        \* where each call is
    left,         \* the plugins each of its transitions has yet to go through
    ran,          \* the plugins that saw it, by transition
    url,          \* MEMORIUM_URL is set
    posted,       \* the calls whose resolution was posted to Memorium
    memorium      \* those Memorium heard of

bootVars == <<files, broken, plugins, booted, url>>
vars == <<bootVars, ask, stage, left, ran, posted, memorium>>

Transitions == {"created", "resolved"}

Modules(pkg) == {files[pkg][k] : k \in DOMAIN files[pkg]}
Seen(c, transition, p) == <<c, transition, p>>

NoAsk == [action |-> "other", fields |-> {}]

Init ==
    /\ \E pkg \in Packages : \E at \in 1 .. Len(Shipped[pkg]) + 1 :
          files = [Shipped EXCEPT ![pkg] = InsertAt(@, at, Added)]
    /\ broken \in {{}} \cup UNION {{{<<pkg, m>>} : m \in Modules(pkg)} : pkg \in Packages}
    /\ plugins = [pkg \in Packages |-> <<>>]
    /\ booted = FALSE
    /\ ask = [c \in Calls |-> NoAsk]
    /\ stage = [c \in Calls |-> "idle"]
    /\ left = [event \in Calls \X Transitions |-> <<>>]
    /\ ran = {}
    /\ url \in BOOLEAN
    /\ posted = {} /\ memorium = {}

-----------------------------------------------------------------------------
(* The loop of _discover over one package: one try around it, so the first    *)
(* import that raises ends it.                                                *)
Discovered(pkg) ==
    LET bad == SelectInSeq(files[pkg], LAMBDA m : <<pkg, m>> \in broken)
    IN  IF bad = 0 THEN files[pkg] ELSE SubSeq(files[pkg], 1, bad - 1)

LoadHooks == Discovered("hooks")
LoadNotifiers == Discovered("notifications")
LoadChannels == Discovered("channels")

Discover == /\ ~booted
            /\ booted' = TRUE
            /\ plugins' = [validators |-> Discovered("validators"), hooks |-> LoadHooks,
                           notifications |-> LoadNotifiers, channels |-> LoadChannels]
            /\ UNCHANGED <<files, broken, url, ask, stage, left, ran, posted, memorium>>

(* The fields a validator wants in action_details, and the action types it    *)
(* accepts.  A field is in a request when it is there and, where its values   *)
(* are listed, one of them.  The mutant does not ask a conflict for the       *)
(* proposal it is about.                                                      *)
Calendar(action) == IF action = "create_calendar_event" THEN {"title", "start"}
                    ELSE IF action = "update_calendar_event" THEN {"title"} ELSE {}
Email == {"to", "subject"}
Conflict_anyProposal == {"tenant_id", "region_id", "claim_key", "proposed_value"}
Conflict == {"proposal_id", "tenant_id", "region_id", "claim_key", "proposed_value"}
Recording == {"recording_id", "recorder_url", "recording_type"}
SensorDeploy == {"sensor", "target_system"}

Specific(action) ==
    IF action \in {"create_calendar_event", "update_calendar_event", "delete_calendar_event"}
    THEN "calendar"
    ELSE IF action = "send_email" THEN "email"
    ELSE IF action = "modelbook_conflict" THEN "modelbook_conflict"
    ELSE IF action = "start_recording" THEN "recording"
    ELSE IF action = "deploy_sensor" THEN "sensor_deploy" ELSE Added

Required(v, action) ==
    IF v = "calendar" THEN Calendar(action) ELSE IF v = "email" THEN Email
    ELSE IF v = "modelbook_conflict" THEN Conflict ELSE IF v = "recording" THEN Recording
    ELSE IF v = "sensor_deploy" THEN SensorDeploy ELSE {}

Accepts(v, action) == v = "default" \/ v = Specific(action)

FirstThat(Test(_)) == LET k == SelectInSeq(plugins.validators, Test)
                      IN  IF k = 0 THEN NoPlugin ELSE plugins.validators[k]

(* The first specific validator, else the first fallback, else none: then     *)
(* nothing is checked.  The mutant takes the first that accepts.              *)
GetValidator_first(action) == FirstThat(LAMBDA v : Accepts(v, action))
GetValidator(action) ==
    LET specific == FirstThat(LAMBDA v : v # "default" /\ Accepts(v, action))
    IN  IF specific # NoPlugin THEN specific
        ELSE FirstThat(LAMBDA v : v = "default" /\ Accepts(v, action))

Errors(v, in) == IF v = NoPlugin THEN {} ELSE Required(v, in.action) \ in.fields

-----------------------------------------------------------------------------
(* What a creation goes through, on_created and then notify_all, and what a   *)
(* resolution does, on_approved or on_rejected.                               *)
Chain(t) == IF t = "created" THEN plugins.hooks \o plugins.notifications ELSE plugins.hooks

(* request(): validated, stored, and on its way through that chain.           *)
Request(c, in) ==
    /\ booted /\ stage[c] = "idle"
    /\ ask' = [ask EXCEPT ![c] = in]
    /\ \/ /\ Errors(GetValidator(in.action), in) # {}
          /\ stage' = [stage EXCEPT ![c] = "refused"]
          /\ UNCHANGED left
       \/ /\ Errors(GetValidator(in.action), in) = {}
          /\ stage' = [stage EXCEPT ![c] = "created"]
          /\ left' = [left EXCEPT ![<<c, "created">>] = Chain("created")]
    /\ UNCHANGED <<bootVars, ran, posted, memorium>>

(* approve() or reject(), as soon as the row is there: request() may still    *)
(* have its own hooks before it.                                              *)
Resolve(c) ==
    /\ stage[c] = "created"
    /\ stage' = [stage EXCEPT ![c] = "resolved"]
    /\ left' = [left EXCEPT ![<<c, "resolved">>] = Chain("resolved")]
    /\ UNCHANGED <<bootVars, ask, ran, posted, memorium>>

(* ModelBookHook acts on the resolution of a conflict that names a proposal,  *)
(* if it knows where Memorium is.                                             *)
ActsOn(c, t) == /\ t = "resolved" /\ Head(left[<<c, t>>]) = "modelbook"
                /\ ask[c].action = "modelbook_conflict"
                /\ url /\ "proposal_id" \in ask[c].fields

(* Its POST is made once; an answer of 400 or more, or an exception before or *)
(* after Memorium heard it, is logged.                                        *)
Post(c) == /\ posted' = posted \cup {c}
           /\ \E heard \in SUBSET {c} : memorium' = memorium \cup heard

(* One plugin of the chain sees the event.                                    *)
Run(c, t) ==
    /\ left[<<c, t>>] # <<>>
    /\ ran' = ran \cup {Seen(c, t, Head(left[<<c, t>>]))}
    /\ left' = [left EXCEPT ![<<c, t>>] = Tail(@)]
    /\ IF ActsOn(c, t) THEN Post(c) ELSE UNCHANGED <<posted, memorium>>
    /\ UNCHANGED <<bootVars, ask, stage>>

(* ... or raises, as one somebody added may: logged, and the next one's turn. *)
(* The mutant has one try around the loop.                                    *)
Raises_ends(c, t) ==
    /\ left[<<c, t>>] # <<>> /\ Head(left[<<c, t>>]) = Added
    /\ ran' = ran \cup {Seen(c, t, Added)}
    /\ left' = [left EXCEPT ![<<c, t>>] = <<>>]
    /\ UNCHANGED <<bootVars, ask, stage, posted, memorium>>
Raises(c, t) ==
    /\ left[<<c, t>>] # <<>> /\ Head(left[<<c, t>>]) = Added
    /\ ran' = ran \cup {Seen(c, t, Added)}
    /\ left' = [left EXCEPT ![<<c, t>>] = Tail(@)]
    /\ UNCHANGED <<bootVars, ask, stage, posted, memorium>>

Next == \/ Discover
        \/ \E c \in Calls : \/ \E in \in Asks : Request(c, in)
                            \/ Resolve(c)
                            \/ \E t \in Transitions : Run(c, t) \/ Raises(c, t)

Spec == Init /\ [][Next]_vars

-----------------------------------------------------------------------------
Working(pkg) == \A m \in Modules(pkg) : <<pkg, m>> \notin broken

(* The call has made this transition, and every plugin had its turn.          *)
Made(c, t) == stage[c] = "resolved" \/ (stage[c] = "created" /\ t = "created")
Through(c, t) == Made(c, t) /\ left[<<c, t>>] = <<>>

(* If every validator can be imported, no request is accepted without what    *)
(* its own validator wants, wherever the fallback stands in the order.        *)
AcceptedComplete ==
    Working("validators") =>
        \A c \in Calls : stage[c] \in {"created", "resolved"} =>
            Required(Specific(ask[c].action), ask[c].action) \subseteq ask[c].fields

(* When an event has gone through its chain, every plugin that was loaded saw *)
(* it, those after one that raised included, though a resolution may overtake *)
(* the creation.                                                              *)
ChainComplete ==
    \A c \in Calls, t \in Transitions :
        Through(c, t) => \A p \in ToSet(Chain(t)) : Seen(c, t, p) \in ran

(* From the validator to the hook: nothing inside the hub keeps a resolved    *)
(* conflict from Memorium.  If all plugins load and MEMORIUM_URL is set, its  *)
(* POST is made, whatever an added hook or notifier does; if the POST fails   *)
(* Memorium may not hear of it.  It never hears of anything else.             *)
ConflictsPosted ==
    /\ broken = {} /\ url =>
          \A c \in Calls :
              Through(c, "resolved") /\ ask[c].action = "modelbook_conflict" => c \in posted
    /\ \A c \in memorium :
          stage[c] = "resolved" /\ ask[c].action = "modelbook_conflict"
=============================================================================
