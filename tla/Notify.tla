-------------------------------- MODULE Notify --------------------------------
(* core/notify_engine.py with its repository and the channel adapters: sending *)
(* one user notifications over the channels the user prefers, and             *)
(* acknowledging them.  Preferences are edited behind the engine's back (there *)
(* is no code for it here, only SQL).  A send gives way at every statement    *)
(* and at every adapter; the rest of its loop touches only what is its own.   *)
EXTENDS Integers

CONSTANTS
    Sends,             \* calls of send(), each with the notification_id it draws
    Acks,              \* calls of ack()
    Channels,          \* channel names
    AddressChannels,   \* ADDRESS_CHANNELS
    LogOnlyChannels,   \* LOG_ONLY_CHANNELS
    Adapters,          \* channels the registry has an adapter for
    DefaultChannel,    \* "webpush"
    Tenants,
    DefaultTenant,     \* "default"
    NoSend,            \* no notification_id
    NoPreference,      \* no row for the channel
    Day,               \* hours of a day: 24
    Calls,             \* the notifications producers may send
    Tables,            \* the preferences the user may have
    MaxFaults          \* bound on failures of the database and the process

(* A user has one row per channel, whatever the tenant (the primary key).     *)
(* address: there is one; windowed: both ends of the quiet hours are set.     *)
Info == 0
Critical == 3
Priority == Info .. Critical
Hours == 0 .. Day - 1
Preference == [tenant : Tenants, enabled : BOOLEAN, address : BOOLEAN, min : Priority,
               windowed : BOOLEAN, start : 0 .. Day, end : 0 .. Day]
Table == [Channels -> Preference \cup {NoPreference}]

(* explicit: req.channels is not None, and names channels.                    *)
NotifyRequest == [priority : Priority, tenant : Tenants,
                  explicit : BOOLEAN, channels : SUBSET Channels]

(* The defaults of the model: what a send that has not begun is filled with.  *)
NoCall == [priority |-> 1, tenant |-> DefaultTenant, explicit |-> FALSE, channels |-> {}]

ASSUME DayAssumption == Day \in Nat \ {0}
ASSUME ChannelAssumption == /\ AddressChannels \subseteq Channels
                            /\ LogOnlyChannels \subseteq Channels
                            /\ Adapters \subseteq Channels
                            /\ DefaultChannel \in Channels
ASSUME TenantAssumption == DefaultTenant \in Tenants
ASSUME SendAssumption == NoSend \notin Sends
ASSUME PreferenceAssumption == NoPreference \notin Preference
ASSUME CallsAssumption == Calls \subseteq NotifyRequest /\ Tables \subseteq Table
ASSUME FaultsAssumption == MaxFaults \in Nat

VARIABLES
    prefs,       \* notification_preferences of the user
    hour,        \* the UTC hour
    log,         \* notification_log
    acked,       \* rows of it with acked_at set
    delivered,   \* <<send, channel>>: what the adapters got through
    pc,          \* where each send is
    req,         \* its request
    seen,        \* the preferences it read
    at,          \* the hour it read
    todo,        \* channels its loop has not come to
    attempted,
    succeeded,
    ackOf,       \* what each ack is for
    answer,      \* what it answered, or "idle", or "raised"
    faults       \* failures so far

tables == <<prefs, hour, log, acked, delivered>>
locals == <<req, seen, at, todo, attempted, succeeded>>
acks == <<ackOf, answer>>
vars == <<tables, pc, locals, acks, faults>>

LogRow == [id : Sends, attempted : SUBSET Channels, succeeded : SUBSET Channels]
InSend == {"prefs", "channels"}
NoTable == [c \in Channels |-> NoPreference]

Init ==
    /\ prefs \in Tables
    /\ hour = 0
    /\ log = {} /\ acked = {} /\ delivered = {}
    /\ pc = [n \in Sends |-> "idle"]
    /\ req = [n \in Sends |-> NoCall]
    /\ seen = [n \in Sends |-> NoTable]
    /\ at = [n \in Sends |-> 0]
    /\ todo = [n \in Sends |-> {}]
    /\ attempted = [n \in Sends |-> {}]
    /\ succeeded = [n \in Sends |-> {}]
    /\ ackOf = [a \in Acks |-> NoSend]
    /\ answer = [a \in Acks |-> "idle"]
    /\ faults = 0

Fault == faults < MaxFaults /\ faults' = faults + 1
Goto(n, label) == pc' = [pc EXCEPT ![n] = label]

-----------------------------------------------------------------------------
(* get_preferences: the rows of the user under this tenant.                   *)
Preferences(tenant) ==
    [c \in Channels |-> IF prefs[c] # NoPreference /\ prefs[c].tenant = tenant
                        THEN prefs[c] ELSE NoPreference]

(* _channels_from_preferences.                                                 *)
FromPreferences(r, table) ==
    IF table = NoTable
    THEN IF r.priority = Info THEN {} ELSE {DefaultChannel}
    ELSE {c \in Channels : /\ table[c] # NoPreference
                           /\ table[c].enabled
                           /\ r.priority >= table[c].min}

Targets(r, table) == IF r.explicit THEN r.channels ELSE FromPreferences(r, table)

(* _passes_quiet_hours; the mutant takes midnight for an ordinary hour.       *)
PassesQuietHours_midnight(p, priority, h) ==
    \/ priority = Critical
    \/ ~p.windowed
    \/ p.start # p.end /\ ~(p.start <= h /\ h < p.end)
PassesQuietHours(p, priority, h) ==
    \/ priority = Critical
    \/ ~p.windowed
    \/ p.start < p.end /\ ~(p.start <= h /\ h < p.end)
    \/ p.start > p.end /\ ~(h >= p.start \/ h < p.end)

(* The conditions on which send() leaves a channel out.  The mutant looks up   *)
(* the preference and the hour again when the loop comes to the channel.       *)
LeftOut_fresh(n, c) ==
    LET p == Preferences(req[n].tenant)[c] IN
    \/ p # NoPreference /\ ~p.enabled
    \/ p # NoPreference /\ ~PassesQuietHours(p, req[n].priority, hour)
    \/ c \in AddressChannels /\ ~(p # NoPreference /\ p.address)
LeftOut(n, c) ==
    LET p == seen[n][c] IN
    \/ p # NoPreference /\ ~p.enabled
    \/ p # NoPreference /\ ~PassesQuietHours(p, req[n].priority, at[n])
    \/ c \in AddressChannels /\ ~(p # NoPreference /\ p.address)

-----------------------------------------------------------------------------
(* notify_send: the notification arrives and its preferences are asked for.   *)
Send(n) ==
    /\ pc[n] = "idle"
    /\ \E r \in Calls : req' = [req EXCEPT ![n] = r]
    /\ Goto(n, "prefs")
    /\ UNCHANGED <<tables, seen, at, todo, attempted, succeeded, acks, faults>>

ReadPreferences(n) ==
    /\ pc[n] = "prefs"
    /\ seen' = [seen EXCEPT ![n] = Preferences(req[n].tenant)]
    /\ todo' = [todo EXCEPT ![n] = Targets(req[n], Preferences(req[n].tenant))]
    /\ at' = [at EXCEPT ![n] = hour]
    /\ Goto(n, "channels")
    /\ UNCHANGED <<tables, req, attempted, succeeded, acks, faults>>

(* One turn of the loop.  The rows come in no order.                          *)
Turn(n, c) == /\ pc[n] = "channels" /\ c \in todo[n]
              /\ todo' = [todo EXCEPT ![n] = @ \ {c}]
              /\ UNCHANGED <<prefs, hour, log, acked, pc, req, seen, at, acks, faults>>

Skip(n, c) == /\ Turn(n, c) /\ LeftOut(n, c)
              /\ UNCHANGED <<attempted, succeeded, delivered>>

Attempt(n, c, ok) ==
    /\ ~LeftOut(n, c)
    /\ attempted' = [attempted EXCEPT ![n] = @ \cup {c}]
    /\ succeeded' = IF ok THEN [succeeded EXCEPT ![n] = @ \cup {c}] ELSE succeeded

LogOnly(n, c) == /\ Turn(n, c) /\ Attempt(n, c, TRUE)
                 /\ c \in LogOnlyChannels
                 /\ UNCHANGED delivered

NoAdapter(n, c) == /\ Turn(n, c) /\ Attempt(n, c, FALSE)
                   /\ c \notin LogOnlyChannels \cup Adapters
                   /\ UNCHANGED delivered

(* What an adapter's POST comes to: <<got through, reported as sent>>.  A     *)
(* refusal, a missing token, a timeout or an exception is a FALSE; the mutant *)
(* takes what it cannot tell for sent.                                        *)
Outcomes_optimistic == {<<TRUE, TRUE>>, <<FALSE, FALSE>>, <<FALSE, TRUE>>}
Outcomes == {<<TRUE, TRUE>>, <<FALSE, FALSE>>, <<TRUE, FALSE>>}

Adapter(n, c, o) ==
    /\ Attempt(n, c, o[2])
    /\ c \in Adapters \ LogOnlyChannels
    /\ delivered' = IF o[1] THEN delivered \cup {<<n, c>>} ELSE delivered

(* The except branch stays in the loop; the mutant leaves it on a failure.    *)
Deliver_breaks(n, c) ==
    \E o \in Outcomes :
        /\ pc[n] = "channels" /\ c \in todo[n]
        /\ Adapter(n, c, o)
        /\ todo' = [todo EXCEPT ![n] = IF o[2] THEN @ \ {c} ELSE {}]
        /\ UNCHANGED <<prefs, hour, log, acked, pc, req, seen, at, acks, faults>>
Deliver(n, c) == \E o \in Outcomes : Turn(n, c) /\ Adapter(n, c, o)

-----------------------------------------------------------------------------
(* insert_log, once the loop is over.  The mutants wait for a channel that    *)
(* succeeds, and log only what succeeded somewhere.                           *)
AtLog_succeeded(n) == pc[n] = "channels" /\ todo[n] = {} /\ succeeded[n] # {}
AtLog(n) == pc[n] = "channels" /\ todo[n] = {}

Logged_ifSent(n) == IF succeeded[n] = {} THEN log
    ELSE log \cup {[id |-> n, attempted |-> attempted[n], succeeded |-> succeeded[n]]}
Logged(n) == log \cup {[id |-> n, attempted |-> attempted[n], succeeded |-> succeeded[n]]}

InsertLog(n) ==
    /\ AtLog(n)
    /\ log' = Logged(n)
    /\ Goto(n, "done")
    /\ UNCHANGED <<prefs, hour, acked, delivered, locals, acks, faults>>

(* A statement fails before it reaches the table, or after.                   *)
SendDbFails(n) ==
    /\ pc[n] = "prefs" \/ AtLog(n)
    /\ Fault
    /\ Goto(n, "raised")
    /\ UNCHANGED <<tables, locals, acks>>

LogReplyLost(n) ==
    /\ AtLog(n)
    /\ Fault
    /\ log' = Logged(n)
    /\ Goto(n, "raised")
    /\ UNCHANGED <<prefs, hour, acked, delivered, locals, acks>>

(* mark_acked: the rows its WHERE clause selects; the mutant forgets the      *)
(* second half of it.                                                         *)
ToAck_again(n) == {r \in log : r.id = n}
ToAck(n) == {r \in log : r.id = n /\ n \notin acked}

MarkAcked(n) == acked' = IF ToAck(n) = {} THEN acked ELSE acked \cup {n}

(* notify_ack: one statement, and its answer.                                 *)
Ack(a, n) ==
    /\ answer[a] = "idle"
    /\ ackOf' = [ackOf EXCEPT ![a] = n]
    /\ MarkAcked(n)
    /\ answer' = [answer EXCEPT ![a] = IF ToAck(n) = {} THEN "no" ELSE "yes"]
    /\ UNCHANGED <<prefs, hour, log, delivered, pc, locals, faults>>

AckFails(a, n) ==
    /\ answer[a] = "idle"
    /\ Fault
    /\ ackOf' = [ackOf EXCEPT ![a] = n]
    /\ UNCHANGED acked \/ MarkAcked(n)
    /\ answer' = [answer EXCEPT ![a] = "raised"]
    /\ UNCHANGED <<prefs, hour, log, delivered, pc, locals>>

-----------------------------------------------------------------------------
EditPreferences == /\ prefs' \in Tables
                   /\ UNCHANGED <<hour, log, acked, delivered, pc, locals, acks, faults>>

HourPasses == /\ hour' = (hour + 1) % Day
              /\ UNCHANGED <<prefs, log, acked, delivered, pc, locals, acks, faults>>

(* The process dies with the sends in progress.                               *)
Crash == /\ Fault
         /\ pc' = [n \in Sends |-> IF pc[n] \in InSend THEN "lost" ELSE pc[n]]
         /\ UNCHANGED <<tables, locals, acks>>

SendProceeds(n) ==
    \/ ReadPreferences(n) \/ InsertLog(n)
    \/ \E c \in Channels : Skip(n, c) \/ LogOnly(n, c) \/ NoAdapter(n, c) \/ Deliver(n, c)

Next == \/ \E n \in Sends : Send(n) \/ SendProceeds(n) \/ SendDbFails(n) \/ LogReplyLost(n)
        \/ \E a \in Acks, n \in Sends : Ack(a, n) \/ AckFails(a, n)
        \/ EditPreferences \/ HourPasses \/ Crash

Spec == Init /\ [][Next]_vars

(* The event loop runs what is ready and every adapter has a timeout; callers, *)
(* users and failures owe nothing.                                            *)
FairSpec == Spec /\ \A n \in Sends : WF_vars(SendProceeds(n))

-----------------------------------------------------------------------------
(* Every variable stays within its type.                                      *)
TypeOK ==
    /\ prefs \in Table /\ hour \in Hours
    /\ log \subseteq LogRow /\ acked \subseteq Sends
    /\ delivered \subseteq Sends \X Channels
    /\ pc \in [Sends -> {"idle", "done", "raised", "lost"} \cup InSend]
    /\ req \in [Sends -> NotifyRequest]
    /\ seen \in [Sends -> Table] /\ at \in [Sends -> Hours]
    /\ todo \in [Sends -> SUBSET Channels]
    /\ attempted \in [Sends -> SUBSET Channels]
    /\ succeeded \in [Sends -> SUBSET Channels]
    /\ ackOf \in [Acks -> Sends \cup {NoSend}]
    /\ answer \in [Acks -> {"idle", "yes", "no", "raised"}]
    /\ faults \in 0 .. MaxFaults

(* The quiet hours, walking the clock from their start to their end and past  *)
(* midnight if need be: the whole day when the two are one.                   *)
QuietHours(p) ==
    LET last == (IF p.start < p.end THEN p.end ELSE p.end + Day) - 1
    IN  {h \in Hours : h \in p.start .. last \/ h + Day \in p.start .. last}

(* What a user's preferences ask of a notification at some hour, channel by   *)
(* channel; and what those a send has read ask of it.                         *)
Wants(r, table, h, c) ==
    LET p == table[c] IN
    /\ IF r.explicit THEN c \in r.channels
       ELSE IF p # NoPreference THEN r.priority >= p.min
       ELSE c = DefaultChannel /\ r.priority # Info /\ table = NoTable
    /\ p # NoPreference =>
          p.enabled /\ (r.priority = Critical \/ ~p.windowed \/ h \notin QuietHours(p))
    /\ c \in AddressChannels => p # NoPreference /\ p.address

Due(n, c) == Wants(req[n], seen[n], at[n], c)

(* No adapter is used against the preferences the send read: not a disabled   *)
(* channel, not one in its quiet hours (critical ones excepted), not one      *)
(* below its threshold unless asked for by name (NotifyEngine.send).          *)
ChannelsRespected == \A d \in delivered : Due(d[1], d[2])

(* A send that returned has tried every channel that was due, whichever       *)
(* adapters failed or are missing, and no other.                              *)
NoChannelForgotten ==
    \A n \in Sends : pc[n] = "done" => attempted[n] = {c \in Channels : Due(n, c)}

(* The log tells the truth: one row per notification, what got through is     *)
(* among what was tried, what it says succeeded did, and a send that returned *)
(* has the row its result describes.                                          *)
LogTellsTruth ==
    /\ \A r1, r2 \in log : r1.id = r2.id => r1 = r2
    /\ \A r \in log :
          /\ \A c \in Channels : <<r.id, c>> \in delivered => c \in r.attempted
          /\ \A c \in r.succeeded : c \in LogOnlyChannels \/ <<r.id, c>> \in delivered
    /\ \A n \in Sends : pc[n] = "done" =>
          [id |-> n, attempted |-> attempted[n], succeeded |-> succeeded[n]] \in log

(* At most one acknowledgement of a notification is told that it was the one, *)
(* and only of a notification that is in the log.                             *)
AckedOnce ==
    /\ \A a, b \in Acks : answer[a] = "yes" /\ answer[b] = "yes" /\ ackOf[a] = ackOf[b]
          => a = b
    /\ \A a \in Acks : answer[a] = "yes" => \E r \in log : r.id = ackOf[a]

(* A send comes back, whatever its adapters do.                               *)
SendReturns == \A n \in Sends : pc[n] \in InSend ~> pc[n] \notin InSend

(* If nothing fails, what got through is in the log in the end.               *)
DeliveredIsLogged ==
    [](faults = 0) =>
        \A n \in Sends : (\E c \in Channels : <<n, c>> \in delivered)
                            ~> (\E r \in log : r.id = n)

-----------------------------------------------------------------------------
(* The channels a notification ought to take if it were decided now.          *)
WantedNow(n) ==
    {c \in Channels : Wants(req[n], Preferences(req[n].tenant), hour, c)}

(* What is left for a send to try: it has not looked at all of it yet.        *)
Pending(n) == IF pc[n] = "channels" THEN {c \in todo[n] : ~LeftOut(n, c)} ELSE {}

Phase(n) == IF pc[n] = "prefs" THEN "waiting" ELSE IF pc[n] = "channels" THEN "sending"
            ELSE IF pc[n] \in {"raised", "lost"} THEN "failed" ELSE pc[n]

ADelivery == INSTANCE Delivery WITH
    wanted <- [n \in Sends |-> WantedNow(n)],
    phase <- [n \in Sends |-> Phase(n)],
    pending <- [n \in Sends |-> Pending(n)],
    tried <- attempted, through <- delivered,
    log <- {[id |-> r.id, attempted |-> r.attempted] : r \in log}

(* Though the loop decides channel by channel, with awaits in between in      *)
(* which preferences change and hours pass, each send tries what was wanted   *)
(* at one moment, then writes its row, and a row is acknowledged once.  (A    *)
(* name a caller lists twice is tried twice; the set of names hides that.)    *)
ImplementsDelivery == ADelivery!Spec
=============================================================================
