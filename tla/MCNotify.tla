------------------------------- MODULE MCNotify -------------------------------
(* Instances of Notify for TLC: the preferences and the notifications.        *)
EXTENDS Notify, TLC

CONSTANTS webpush, email, voice, inapp, other

MCChannels == {webpush, email, voice, inapp}

Pref(enabled, address, min) ==
    [tenant |-> DefaultTenant, enabled |-> enabled, address |-> address, min |-> min,
     windowed |-> FALSE, start |-> 0, end |-> 0]
Quiet(start, end) == [Pref(TRUE, TRUE, 1) EXCEPT !.windowed = TRUE, !.start = start, !.end = end]
On(row) == [c \in Channels |-> IF c \in DOMAIN row THEN row[c] ELSE NoPreference]

(* No preferences; every window of the day, on a channel with an adapter and  *)
(* with the log-only one beside it; a disabled channel, a missing address, a  *)
(* high threshold, the channel without an adapter.                            *)
RoutingTables ==
    {NoTable, On(webpush :> Pref(FALSE, FALSE, 0)), On(email :> Pref(TRUE, FALSE, 1)),
     On(webpush :> Pref(TRUE, FALSE, 2) @@ voice :> Pref(TRUE, TRUE, 1) @@ inapp :> Pref(TRUE, FALSE, 0))}
    \cup {On(webpush :> Quiet(s, e) @@ inapp :> Pref(TRUE, FALSE, 0)) : s \in 0 .. Day, e \in 0 .. Day}

(* Info, normal, urgent and critical by preference; a list of names; the      *)
(* empty list; the tenant under which the user has no preferences.            *)
Note(priority, tenant) ==
    [priority |-> priority, tenant |-> tenant, explicit |-> FALSE, channels |-> {}]
RoutingCalls ==
    {Note(p, DefaultTenant) : p \in Priority} \cup
    {Note(1, other), [Note(0, DefaultTenant) EXCEPT !.explicit = TRUE],
     [Note(0, DefaultTenant) EXCEPT !.explicit = TRUE, !.channels = Channels]}

LogTables == {On(email :> Pref(TRUE, TRUE, 1)),
              On(inapp :> Pref(TRUE, FALSE, 1) @@ webpush :> Pref(TRUE, FALSE, 1))}
LogCalls == {Note(1, DefaultTenant)}
=============================================================================
