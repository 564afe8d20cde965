----------------------------- MODULE NostrBridge -----------------------------
(* core/nostr_bridge.py and the part of bootstrap.py that starts it: whether  *)
(* the hub process is up and connected, the kind:10020 events the relay holds *)
(* and the subscription to kind:10021.                                        *)
EXTENDS HitlTable

CONSTANT HubKey      \* the hub's own signing key (HITL_HUB_NSEC)

VARIABLES
    hub,         \* "down", "dbonly" (no relay client) or "online"
    relay,       \* the kind:10020 events the relay holds
    listening    \* the kind:10021 subscription is in place

bridgeVars == <<hub, relay, listening>>

InboxItem == [author : Requests \cup {HubKey}, request : Requests]

BridgeInit == hub = "down" /\ relay = {} /\ listening = FALSE

BridgeTypeOK == /\ hub \in {"down", "dbonly", "online"}
                /\ relay \subseteq InboxItem
                /\ listening \in BOOLEAN

OnRelay(q) == \E item \in relay : item.request = q

(* Each request is signed with a key generated for it; the mutant signs with  *)
(* the hub's.                                                                 *)
SigningKey_hub(q) == HubKey
SigningKey(q) == q

(* kind:10020 is replaceable: the relay keeps the last event of an author.    *)
Published(q) ==
    {item \in relay : item.author # SigningKey(q)}
        \cup {[author |-> SigningKey(q), request |-> q]}

(* get_engine on first use.  A bridge whose start() fails stays without a     *)
(* client for the life of the process.                                        *)
Boot == /\ hub = "down"
        /\ hub' = "online"
        /\ UNCHANGED <<relay, listening>>

BootWithoutRelay == /\ hub = "down"
                    /\ hub' = "dbonly"
                    /\ UNCHANGED <<relay, listening>>

(* One turn of _listen_loop: subscribe, from now on.                          *)
Listen == /\ hub = "online"
          /\ ~listening
          /\ listening' = TRUE
          /\ UNCHANGED <<hub, relay>>

(* handle_notifications raises; the loop subscribes again ten seconds later.  *)
StopListening == /\ listening
                 /\ listening' = FALSE
                 /\ UNCHANGED <<hub, relay>>

(* The process dies: what was in memory is gone, the relay and the table stay.*)
GoDown == /\ hub # "down"
          /\ hub' = "down"
          /\ listening' = FALSE
          /\ UNCHANGED relay
=============================================================================
