---------------------------- MODULE Notify_proofs ----------------------------
(* Proofs about Notify, for any channels, preferences, notifications and      *)
(* length of the day.                                                         *)
EXTENDS Notify, TLAPS

(* What a send may rely on.  Before it has read the preferences it has done   *)
(* nothing; in its loop what it tried and what it will try are what is due.   *)
Fresh == \A n \in Sends : pc[n] \in {"idle", "prefs"} =>
    /\ attempted[n] = {} /\ succeeded[n] = {}
    /\ \A c \in Channels : <<n, c>> \notin delivered
Progress == \A n \in Sends : pc[n] = "channels" => \A c \in Channels :
    Due(n, c) <=> c \in attempted[n] \/ (c \in todo[n] /\ ~LeftOut(n, c))
Tried == \A n \in Sends, c \in Channels :
    /\ c \in attempted[n] => Due(n, c)
    /\ <<n, c>> \in delivered => c \in attempted[n]
    /\ c \in succeeded[n] => c \in LogOnlyChannels \/ <<n, c>> \in delivered
Entry(n) == [id |-> n, attempted |-> attempted[n], succeeded |-> succeeded[n]]
Rows == \A r \in log : pc[r.id] \in {"done", "raised"} /\ r = Entry(r.id)
Finished == \A n \in Sends : pc[n] = "done" =>
    Entry(n) \in log /\ \A c \in Channels : Due(n, c) => c \in attempted[n]
Acked == /\ \A n \in acked : \E r \in log : r.id = n
         /\ \A a \in Acks : answer[a] = "yes" => ackOf[a] \in acked

NotifyInv == Fresh /\ Progress /\ Tried /\ Rows /\ Finished /\ Acked /\ AckedOnce

-----------------------------------------------------------------------------
(* The case distinction of _passes_quiet_hours is the walk round the clock.   *)
LEMMA QuietHoursLemma ==
    ASSUME NEW p \in Preference, NEW h \in Hours, NEW priority \in Priority
    PROVE  PassesQuietHours(p, priority, h)
             <=> (priority = Critical \/ ~p.windowed \/ h \notin QuietHours(p))
<1> Day \in Nat /\ Day > 0 BY DayAssumption
<1> h \in 0 .. Day - 1 /\ p.start \in 0 .. Day /\ p.end \in 0 .. Day
    BY DEF Hours, Preference
<1> DEFINE last == (IF p.start < p.end THEN p.end ELSE p.end + Day) - 1
<1>1. h \in QuietHours(p) <=> h \in p.start .. last \/ h + Day \in p.start .. last
    BY DEF QuietHours, Hours
<1>2. (h \in p.start .. last \/ h + Day \in p.start .. last)
        <=> ~(\/ p.start < p.end /\ ~(p.start <= h /\ h < p.end)
              \/ p.start > p.end /\ ~(h >= p.start \/ h < p.end))
    <2>1. CASE p.start < p.end BY <2>1
    <2>2. CASE ~(p.start < p.end) BY <2>2
    <2> QED BY <2>1, <2>2
<1> QED BY <1>1, <1>2, Zenon DEF PassesQuietHours

(* What the loop leaves of its targets is what is due.                        *)
LEMMA RoutingLemma ==
    ASSUME TypeOK, NEW n \in Sends, NEW c \in Channels
    PROVE  Due(n, c) <=> c \in Targets(req[n], seen[n]) /\ ~LeftOut(n, c)
<1> DEFINE p == seen[n][c]  r == req[n]
<1>1. /\ p \in Preference \cup {NoPreference} /\ r \in NotifyRequest
      /\ at[n] \in Hours /\ seen[n] \in Table
    BY DEF TypeOK, Table
<1>2. CASE p = NoPreference
    BY <1>1, <1>2 DEF Due, Wants, Targets, FromPreferences, LeftOut
<1>3. CASE p # NoPreference
    <2>1. p \in Preference BY <1>1, <1>3
    <2>2. seen[n] # NoTable BY <1>3 DEF NoTable
    <2>3. PassesQuietHours(p, r.priority, at[n])
            <=> (r.priority = Critical \/ ~p.windowed \/ at[n] \notin QuietHours(p))
        BY <1>1, <2>1, QuietHoursLemma DEF NotifyRequest
    <2> QED BY <1>1, <1>3, <2>1, <2>2, <2>3, Zenon DEF Due, Wants, Targets, FromPreferences, LeftOut
<1> QED BY <1>2, <1>3

-----------------------------------------------------------------------------
LEMMA InitTypeOK == Init => TypeOK
<1> SUFFICES ASSUME Init PROVE TypeOK OBVIOUS
<1> 0 \in Hours /\ 0 \in 0 .. MaxFaults
    BY DayAssumption, FaultsAssumption DEF Hours
<1> NoTable \in Table BY DEF NoTable, Table
<1> NoCall \in NotifyRequest
    BY TenantAssumption DEF NoCall, NotifyRequest, Priority, Info, Critical
<1> prefs \in Table BY CallsAssumption DEF Init
<1> QED BY DEF Init, TypeOK

LEMMA TargetTypes ==
    ASSUME TypeOK, NEW tenant \in Tenants, NEW r \in NotifyRequest
    PROVE  /\ Preferences(tenant) \in Table
           /\ Targets(r, Preferences(tenant)) \subseteq Channels
<1>1. Preferences(tenant) \in Table BY DEF TypeOK, Preferences, Table
<1>2. r.channels \subseteq Channels BY DEF NotifyRequest
<1>3. FromPreferences(r, Preferences(tenant)) \subseteq Channels
    BY ChannelAssumption DEF FromPreferences
<1> QED BY <1>1, <1>2, <1>3 DEF Targets

LEMMA FaultType ==
    ASSUME TypeOK, Fault PROVE faults' \in 0 .. MaxFaults
BY FaultsAssumption DEF TypeOK, Fault

LEMMA LoggedType ==
    ASSUME TypeOK, NEW n \in Sends PROVE Logged(n) \subseteq LogRow
BY DEF TypeOK, Logged, LogRow

LEMMA NextTypeOK == TypeOK /\ [Next]_vars => TypeOK'
<1> SUFFICES ASSUME TypeOK, [Next]_vars PROVE TypeOK' OBVIOUS
<1> USE DEF TypeOK, InSend
<1>1. ASSUME NEW n \in Sends, Send(n) PROVE TypeOK'
    <2> req' \in [Sends -> NotifyRequest] BY <1>1, CallsAssumption DEF Send
    <2> QED BY <1>1 DEF Send, Goto, tables, acks
<1>2. ASSUME NEW n \in Sends, ReadPreferences(n) PROVE TypeOK'
    <2>1. req[n] \in NotifyRequest /\ req[n].tenant \in Tenants BY DEF NotifyRequest
    <2>2. /\ Preferences(req[n].tenant) \in Table
          /\ Targets(req[n], Preferences(req[n].tenant)) \subseteq Channels
        BY <2>1, TargetTypes
    <2> QED BY <1>2, <2>2 DEF ReadPreferences, Goto, tables, acks
<1>3. ASSUME NEW n \in Sends, NEW c \in Channels, NEW ok \in BOOLEAN,
             Turn(n, c), Attempt(n, c, ok), UNCHANGED delivered
      PROVE  TypeOK'
    BY <1>3 DEF Turn, Attempt, acks
<1>4. ASSUME NEW n \in Sends, NEW c \in Channels, Skip(n, c) PROVE TypeOK'
    BY <1>4 DEF Skip, Turn, acks
<1>5. ASSUME NEW n \in Sends, NEW c \in Channels, LogOnly(n, c) PROVE TypeOK'
    BY <1>5, <1>3 DEF LogOnly
<1>6. ASSUME NEW n \in Sends, NEW c \in Channels, NoAdapter(n, c) PROVE TypeOK'
    BY <1>6, <1>3 DEF NoAdapter
<1>7. ASSUME NEW n \in Sends, NEW c \in Channels, Deliver(n, c) PROVE TypeOK'
    <2> PICK o \in Outcomes : Turn(n, c) /\ Adapter(n, c, o) BY <1>7 DEF Deliver
    <2> delivered' \subseteq Sends \X Channels BY DEF Adapter
    <2> QED BY DEF Turn, Adapter, Attempt, acks
<1>8. ASSUME NEW n \in Sends, InsertLog(n) PROVE TypeOK'
    BY <1>8, LoggedType DEF InsertLog, Goto, locals, acks
<1>9. ASSUME NEW n \in Sends, SendDbFails(n) PROVE TypeOK'
    <2> faults' \in 0 .. MaxFaults BY <1>9, FaultType DEF SendDbFails
    <2> QED BY <1>9 DEF SendDbFails, Goto, tables, locals, acks
<1>10. ASSUME NEW n \in Sends, LogReplyLost(n) PROVE TypeOK'
    <2> faults' \in 0 .. MaxFaults BY <1>10, FaultType DEF LogReplyLost
    <2> QED BY <1>10, LoggedType DEF LogReplyLost, Goto, locals, acks
<1>11. ASSUME NEW a \in Acks, NEW n \in Sends, Ack(a, n) PROVE TypeOK'
    BY <1>11 DEF Ack, MarkAcked, locals
<1>12. ASSUME NEW a \in Acks, NEW n \in Sends, AckFails(a, n) PROVE TypeOK'
    <2> faults' \in 0 .. MaxFaults BY <1>12, FaultType DEF AckFails
    <2> QED BY <1>12 DEF AckFails, MarkAcked, locals
<1>13. CASE EditPreferences
    BY <1>13, CallsAssumption DEF EditPreferences, locals, acks
<1>14. CASE HourPasses
    <2> hour' \in Hours
        <3> hour \in Nat /\ Day \in Nat /\ Day > 0 BY DayAssumption DEF Hours
        <3> (hour + 1) % Day \in 0 .. Day - 1 OBVIOUS
        <3> QED BY <1>14 DEF HourPasses, Hours
    <2> QED BY <1>14 DEF HourPasses, locals, acks
<1>15. CASE Crash
    <2> faults' \in 0 .. MaxFaults BY <1>15, FaultType DEF Crash
    <2> QED BY <1>15 DEF Crash, tables, locals, acks
<1>16. CASE UNCHANGED vars
    BY <1>16 DEF vars, tables, locals, acks
<1> HIDE DEF TypeOK
<1> QED BY <1>1, <1>2, <1>4, <1>5, <1>6, <1>7, <1>8, <1>9, <1>10, <1>11, <1>12,
           <1>13, <1>14, <1>15, <1>16 DEF Next, SendProceeds

(* Every variable of Notify stays within its type.                            *)
THEOREM NotifyTypeCorrect == Spec => []TypeOK
BY InitTypeOK, NextTypeOK, PTL DEF Spec

-----------------------------------------------------------------------------
(* What is due depends on what the send has read and on nothing else.         *)
LEMMA DueStable ==
    ASSUME NEW n \in Sends, NEW c \in Channels,
           req'[n] = req[n], seen'[n] = seen[n], at'[n] = at[n]
    PROVE  (Due(n, c)' <=> Due(n, c)) /\ (LeftOut(n, c)' <=> LeftOut(n, c))
<1>1. seen'[n][c] = seen[n][c] OBVIOUS
<1> QED BY <1>1 DEF Due, Wants, LeftOut, QuietHours, PassesQuietHours

(* A step that leaves the sends' own variables alone.                         *)
LEMMA DueKept ==
    ASSUME UNCHANGED <<req, seen, at>>
    PROVE  \A n \in Sends, c \in Channels :
              (Due(n, c)' <=> Due(n, c)) /\ (LeftOut(n, c)' <=> LeftOut(n, c))
<1> SUFFICES ASSUME NEW n \in Sends, NEW c \in Channels
             PROVE  (Due(n, c)' <=> Due(n, c)) /\ (LeftOut(n, c)' <=> LeftOut(n, c))
    OBVIOUS
<1> QED BY DueStable

LEMMA InitInv == Init => NotifyInv
BY DEF Init, NotifyInv, Fresh, Progress, Tried, Rows, Finished, Acked, AckedOnce

(* Sends and their rows when neither their variables nor the log change.      *)
LEMMA SendsKept ==
    ASSUME TypeOK, NotifyInv, UNCHANGED <<locals, log, delivered>>,
           pc' \in [Sends -> {"idle", "done", "raised", "lost"} \cup InSend],
           \A n \in Sends : pc'[n] # pc[n] =>
               /\ pc'[n] \in {"lost", "raised"}
               /\ pc[n] \in InSend
    PROVE  Fresh' /\ Progress' /\ Tried' /\ Rows' /\ Finished'
<1> USE DEF NotifyInv, locals
<1>1. Fresh' BY DEF Fresh
<1>2. Progress' BY DueKept DEF Progress
<1>3. Tried' BY DueKept DEF Tried
<1>4. Rows'
    <2> SUFFICES ASSUME NEW r \in log
                 PROVE  pc'[r.id] \in {"done", "raised"} /\ r = Entry(r.id)'
        BY DEF Rows
    <2> pc[r.id] \in {"done", "raised"} /\ r = Entry(r.id) BY DEF Rows
    <2> QED BY DEF Entry, InSend, TypeOK, LogRow
<1>5. Finished' BY DueKept DEF Finished, Entry
<1> QED BY <1>1, <1>2, <1>3, <1>4, <1>5

(* Acknowledgements when neither they nor the ids of the log change.          *)
LEMMA AcksKept ==
    ASSUME NotifyInv, UNCHANGED <<acks, acked>>, log \subseteq log'
    PROVE  Acked' /\ AckedOnce'
BY DEF NotifyInv, Acked, AckedOnce, acks

(* A turn of the loop that tries the channel.                                 *)
LEMMA AttemptStep ==
    ASSUME TypeOK, NotifyInv, NEW n \in Sends, NEW c \in Channels, NEW ok \in BOOLEAN,
           Turn(n, c), Attempt(n, c, ok),
           delivered' \in {delivered, delivered \cup {<<n, c>>}},
           ok => c \in LogOnlyChannels \/ <<n, c>> \in delivered'
    PROVE  NotifyInv'
<1> USE DEF NotifyInv, TypeOK
<1>0. UNCHANGED <<prefs, log, acked, pc, req, seen, at, acks>>
      /\ pc[n] = "channels" /\ c \in todo[n] /\ todo' = [todo EXCEPT ![n] = @ \ {c}]
    BY DEF Turn
<1>a. /\ ~LeftOut(n, c)
      /\ attempted' = [attempted EXCEPT ![n] = @ \cup {c}]
      /\ succeeded' \in {succeeded, [succeeded EXCEPT ![n] = @ \cup {c}]}
      /\ ~ok => succeeded' = succeeded
    BY DEF Attempt
<1>b. Due(n, c) BY <1>0, <1>a DEF Progress
<1>c. \A m \in Sends, d \in Channels :
         (Due(m, d)' <=> Due(m, d)) /\ (LeftOut(m, d)' <=> LeftOut(m, d))
    BY <1>0, DueKept
<1>1. Fresh' BY <1>0, <1>a DEF Fresh
<1>2. Progress'
    <2> SUFFICES ASSUME NEW m \in Sends, pc[m] = "channels", NEW d \in Channels
                 PROVE  Due(m, d) <=> d \in attempted'[m] \/ (d \in todo'[m] /\ ~LeftOut(m, d))
        BY <1>0, <1>c DEF Progress
    <2>1. Due(m, d) <=> d \in attempted[m] \/ (d \in todo[m] /\ ~LeftOut(m, d))
        BY DEF Progress
    <2>2. CASE m = n /\ d = c BY <2>2, <1>a, <1>b
    <2>3. CASE m # n \/ d # c BY <2>1, <2>3, <1>0, <1>a
    <2> QED BY <2>2, <2>3
<1>3. Tried'
    <2> SUFFICES ASSUME NEW m \in Sends, NEW d \in Channels
                 PROVE  /\ d \in attempted'[m] => Due(m, d)
                        /\ <<m, d>> \in delivered' => d \in attempted'[m]
                        /\ d \in succeeded'[m] => d \in LogOnlyChannels \/ <<m, d>> \in delivered'
        BY <1>c DEF Tried
    <2>1. /\ d \in attempted[m] => Due(m, d)
          /\ <<m, d>> \in delivered => d \in attempted[m]
          /\ d \in succeeded[m] => d \in LogOnlyChannels \/ <<m, d>> \in delivered
        BY DEF Tried
    <2>2. CASE m = n /\ d = c
        <3> d \in attempted'[m] BY <2>2, <1>a
        <3> d \in succeeded'[m] => d \in LogOnlyChannels \/ <<m, d>> \in delivered'
            BY <2>1, <2>2, <1>a
        <3> QED BY <2>2, <1>b
    <2>3. CASE m # n \/ d # c
        <3> d \in attempted'[m] <=> d \in attempted[m] BY <2>3, <1>a
        <3> d \in succeeded'[m] <=> d \in succeeded[m] BY <2>3, <1>a
        <3> <<m, d>> \in delivered' <=> <<m, d>> \in delivered BY <2>3
        <3> QED BY <2>1
    <2> QED BY <2>2, <2>3
<1>4. \A m \in Sends : pc[m] # "channels" => Entry(m)' = Entry(m)
    BY <1>0, <1>a DEF Entry
<1>5. Rows' BY <1>0, <1>4 DEF Rows, LogRow
<1>6. Finished' BY <1>0, <1>a, <1>c, <1>4 DEF Finished
<1>7. Acked' /\ AckedOnce' BY <1>0, AcksKept
<1> QED BY <1>1, <1>2, <1>3, <1>5, <1>6, <1>7

(* The row is written, whether the send hears of it or not.                   *)
LEMMA LogStep ==
    ASSUME TypeOK, NotifyInv, NEW n \in Sends, NEW label \in {"done", "raised"},
           AtLog(n), log' = Logged(n), Goto(n, label),
           UNCHANGED <<locals, acked, delivered, acks>>
    PROVE  NotifyInv'
<1> USE DEF NotifyInv, TypeOK, locals
<1>0. /\ pc[n] = "channels" /\ todo[n] = {}
      /\ log' = log \cup {Entry(n)}
      /\ pc' = [pc EXCEPT ![n] = label]
    BY DEF AtLog, Logged, Entry, Goto
<1>a. \A m \in Sends, d \in Channels :
         (Due(m, d)' <=> Due(m, d)) /\ (LeftOut(m, d)' <=> LeftOut(m, d))
    BY DueKept
<1>b. \A m \in Sends : Entry(m)' = Entry(m) /\ Entry(m).id = m BY DEF Entry
<1>1. Fresh' BY <1>0 DEF Fresh
<1>2. Progress' BY <1>0, <1>a DEF Progress
<1>3. Tried' BY <1>a DEF Tried
<1>4. Rows'
    <2> SUFFICES ASSUME NEW r \in log'
                 PROVE  pc'[r.id] \in {"done", "raised"} /\ r = Entry(r.id)'
        BY DEF Rows
    <2>1. CASE r \in log
        <3> r.id \in Sends /\ pc[r.id] \in {"done", "raised"} /\ r = Entry(r.id)
            BY <2>1 DEF Rows, LogRow
        <3> QED BY <1>0, <1>b
    <2>2. CASE r = Entry(n) BY <2>2, <1>0, <1>b
    <2> QED BY <2>1, <2>2, <1>0
<1>5. Finished'
    <2> SUFFICES ASSUME NEW m \in Sends, pc'[m] = "done"
                 PROVE  Entry(m) \in log' /\ \A c \in Channels : Due(m, c) => c \in attempted[m]
        BY <1>a, <1>b DEF Finished
    <2>1. CASE m = n BY <2>1, <1>0 DEF Progress
    <2>2. CASE m # n BY <2>2, <1>0 DEF Finished
    <2> QED BY <2>1, <2>2
<1>6. Acked' /\ AckedOnce' BY <1>0, AcksKept
<1> QED BY <1>1, <1>2, <1>3, <1>4, <1>5, <1>6

(* The routing lemma after a step.                                            *)
LEMMA RoutingNext ==
    ASSUME NEW n \in Sends, NEW c \in Channels
    PROVE  TypeOK' => (Due(n, c) <=> c \in Targets(req[n], seen[n]) /\ ~LeftOut(n, c))'
<1>1. TypeOK => (Due(n, c) <=> c \in Targets(req[n], seen[n]) /\ ~LeftOut(n, c))
    BY RoutingLemma
<1> QED BY <1>1, PTL

LEMMA ReadStep ==
    ASSUME TypeOK, NotifyInv, NEW n \in Sends, ReadPreferences(n), TypeOK'
    PROVE  NotifyInv'
<1> USE DEF NotifyInv, TypeOK
<1>0. /\ UNCHANGED <<log, acked, delivered, req, attempted, succeeded, acks>>
      /\ pc[n] = "prefs" /\ pc' = [pc EXCEPT ![n] = "channels"]
      /\ todo'[n] = Targets(req'[n], seen'[n])
      /\ \A m \in Sends \ {n} : seen'[m] = seen[m] /\ at'[m] = at[m] /\ todo'[m] = todo[m]
    BY DEF ReadPreferences, Goto, tables
<1>a. \A m \in Sends \ {n}, d \in Channels :
         (Due(m, d)' <=> Due(m, d)) /\ (LeftOut(m, d)' <=> LeftOut(m, d))
    <2> SUFFICES ASSUME NEW m \in Sends \ {n}, NEW d \in Channels
                 PROVE  (Due(m, d)' <=> Due(m, d)) /\ (LeftOut(m, d)' <=> LeftOut(m, d))
        OBVIOUS
    <2> req'[m] = req[m] /\ seen'[m] = seen[m] /\ at'[m] = at[m] BY <1>0
    <2> QED BY DueStable
<1>b. \A d \in Channels : Due(n, d)' <=> d \in todo'[n] /\ ~LeftOut(n, d)'
    <2> SUFFICES ASSUME NEW d \in Channels
                 PROVE  Due(n, d)' <=> d \in todo'[n] /\ ~LeftOut(n, d)'
        OBVIOUS
    <2>1. Due(n, d)' <=> d \in Targets(req'[n], seen'[n]) /\ ~LeftOut(n, d)'
        BY RoutingNext DEF Targets, FromPreferences, NoTable
    <2> QED BY <2>1, <1>0
<1>c. attempted[n] = {} /\ succeeded[n] = {} /\ \A d \in Channels : <<n, d>> \notin delivered
    BY <1>0 DEF Fresh
<1>d. \A m \in Sends : Entry(m)' = Entry(m) BY <1>0 DEF Entry
<1>1. Fresh' BY <1>0 DEF Fresh
<1>2. Progress' BY <1>0, <1>a, <1>b, <1>c DEF Progress
<1>3. Tried' BY <1>0, <1>a, <1>c DEF Tried
<1>4. Rows' BY <1>0, <1>d DEF Rows, LogRow
<1>5. Finished' BY <1>0, <1>a, <1>d DEF Finished
<1>6. Acked' /\ AckedOnce' BY <1>0, AcksKept
<1> QED BY <1>1, <1>2, <1>3, <1>4, <1>5, <1>6

(* The UPDATE lets one acknowledgement of a notification through.             *)
LEMMA AckStep ==
    ASSUME TypeOK, NotifyInv, NEW a \in Acks, NEW n \in Sends, NEW w \in {"yes", "no", "raised"},
           answer[a] = "idle", w = "yes" => ToAck(n) # {},
           acked' \in {acked, acked \cup {n}},
           acked' # acked => ToAck(n) # {},
           w = "yes" => n \in acked',
           ackOf' = [ackOf EXCEPT ![a] = n],
           answer' = [answer EXCEPT ![a] = w],
           UNCHANGED <<log, delivered, pc, locals>>
    PROVE  NotifyInv'
<1> USE DEF NotifyInv, TypeOK
<1>1. Fresh' /\ Progress' /\ Tried' /\ Rows' /\ Finished' BY SendsKept
<1>2. ToAck(n) # {} => n \notin acked /\ \E r \in log : r.id = n BY DEF ToAck
<1>3. Acked' BY <1>2 DEF Acked
<1>4. AckedOnce'
    <2>1. ASSUME NEW b \in Acks, NEW c \in Acks, answer'[b] = "yes", answer'[c] = "yes",
                 ackOf'[b] = ackOf'[c], b # c
          PROVE  FALSE
        <3>1. CASE b # a /\ c # a BY <2>1, <3>1 DEF AckedOnce
        <3>2. CASE b = a
            <4> n \notin acked /\ ackOf[c] = n /\ answer[c] = "yes" BY <2>1, <3>2, <1>2
            <4> QED BY DEF Acked
        <3>3. CASE c = a
            <4> n \notin acked /\ ackOf[b] = n /\ answer[b] = "yes" BY <2>1, <3>3, <1>2
            <4> QED BY DEF Acked
        <3> QED BY <3>1, <3>2, <3>3
    <2>2. \A b \in Acks : answer'[b] = "yes" => \E r \in log' : r.id = ackOf'[b]
        BY <1>2 DEF AckedOnce
    <2> QED BY <2>1, <2>2 DEF AckedOnce
<1> QED BY <1>1, <1>3, <1>4

LEMMA NextInv == TypeOK /\ TypeOK' /\ NotifyInv /\ [Next]_vars => NotifyInv'
<1> SUFFICES ASSUME TypeOK, TypeOK', NotifyInv, [Next]_vars PROVE NotifyInv'
    OBVIOUS
<1>1. ASSUME NEW n \in Sends, Send(n) PROVE NotifyInv'
    <2> USE DEF NotifyInv, TypeOK
    <2>0. /\ pc[n] = "idle" /\ pc' = [pc EXCEPT ![n] = "prefs"]
          /\ UNCHANGED <<log, acked, delivered, seen, at, todo, attempted, succeeded, acks>>
          /\ \A m \in Sends \ {n} : req'[m] = req[m]
        BY <1>1 DEF Send, Goto, tables
    <2>a. \A m \in Sends \ {n}, d \in Channels :
             (Due(m, d)' <=> Due(m, d)) /\ (LeftOut(m, d)' <=> LeftOut(m, d))
        <3> SUFFICES ASSUME NEW m \in Sends \ {n}, NEW d \in Channels
                     PROVE  (Due(m, d)' <=> Due(m, d)) /\ (LeftOut(m, d)' <=> LeftOut(m, d))
            OBVIOUS
        <3> req'[m] = req[m] /\ seen'[m] = seen[m] /\ at'[m] = at[m] BY <2>0
        <3> QED BY DueStable
    <2>c. attempted[n] = {} /\ succeeded[n] = {} /\ \A d \in Channels : <<n, d>> \notin delivered
        BY <2>0 DEF Fresh
    <2>d. \A m \in Sends : Entry(m)' = Entry(m) BY <2>0 DEF Entry
    <2>1. Fresh' BY <2>0, <2>c DEF Fresh
    <2>2. Progress' BY <2>0, <2>a DEF Progress
    <2>3. Tried' BY <2>0, <2>a, <2>c DEF Tried
    <2>4. Rows' BY <2>0, <2>d DEF Rows, LogRow
    <2>5. Finished' BY <2>0, <2>a, <2>d DEF Finished
    <2>6. Acked' /\ AckedOnce' BY <2>0, AcksKept
    <2> QED BY <2>1, <2>2, <2>3, <2>4, <2>5, <2>6
<1>2. ASSUME NEW n \in Sends, ReadPreferences(n) PROVE NotifyInv'
    BY <1>2, ReadStep
<1>3. ASSUME NEW n \in Sends, NEW c \in Channels, Skip(n, c) PROVE NotifyInv'
    <2> USE DEF NotifyInv, TypeOK
    <2>0. /\ UNCHANGED <<log, acked, delivered, pc, req, seen, at, attempted, succeeded, acks>>
          /\ pc[n] = "channels" /\ LeftOut(n, c)
          /\ todo' = [todo EXCEPT ![n] = @ \ {c}]
        BY <1>3 DEF Skip, Turn
    <2>a. \A m \in Sends, d \in Channels :
             (Due(m, d)' <=> Due(m, d)) /\ (LeftOut(m, d)' <=> LeftOut(m, d))
        BY <2>0, DueKept
    <2>1. Fresh' BY <2>0 DEF Fresh
    <2>2. Progress' BY <2>0, <2>a DEF Progress
    <2>3. Tried' BY <2>0, <2>a DEF Tried
    <2>4. Rows' BY <2>0 DEF Rows, Entry
    <2>5. Finished' BY <2>0, <2>a DEF Finished, Entry
    <2>6. Acked' /\ AckedOnce' BY <2>0, AcksKept
    <2> QED BY <2>1, <2>2, <2>3, <2>4, <2>5, <2>6
<1>4. ASSUME NEW n \in Sends, NEW c \in Channels, LogOnly(n, c) PROVE NotifyInv'
    BY <1>4, AttemptStep DEF LogOnly
<1>5. ASSUME NEW n \in Sends, NEW c \in Channels, NoAdapter(n, c) PROVE NotifyInv'
    BY <1>5, AttemptStep DEF NoAdapter
<1>6. ASSUME NEW n \in Sends, NEW c \in Channels, Deliver(n, c) PROVE NotifyInv'
    <2> PICK o \in Outcomes : Turn(n, c) /\ Adapter(n, c, o) BY <1>6 DEF Deliver
    <2>1. o[2] \in BOOLEAN /\ (o[2] => o[1])
        <3>1. CASE o = <<TRUE, TRUE>> BY <3>1
        <3>2. CASE o = <<FALSE, FALSE>> BY <3>2
        <3>3. CASE o = <<TRUE, FALSE>> BY <3>3
        <3> QED BY <3>1, <3>2, <3>3 DEF Outcomes
    <2>2. Attempt(n, c, o[2]) /\ delivered' \in {delivered, delivered \cup {<<n, c>>}}
        BY DEF Adapter
    <2>3. o[2] => <<n, c>> \in delivered' BY <2>1 DEF Adapter
    <2> QED BY <2>1, <2>2, <2>3, AttemptStep
<1>7. ASSUME NEW n \in Sends, InsertLog(n) PROVE NotifyInv'
    BY <1>7, LogStep DEF InsertLog
<1>8. ASSUME NEW n \in Sends, LogReplyLost(n) PROVE NotifyInv'
    BY <1>8, LogStep DEF LogReplyLost
<1>9. ASSUME NEW n \in Sends, SendDbFails(n) PROVE NotifyInv'
    <2>1. Fresh' /\ Progress' /\ Tried' /\ Rows' /\ Finished'
        BY <1>9, SendsKept DEF SendDbFails, Goto, AtLog, tables, TypeOK, InSend
    <2>2. Acked' /\ AckedOnce' BY <1>9, AcksKept DEF SendDbFails, tables
    <2> QED BY <2>1, <2>2 DEF NotifyInv
<1>10. ASSUME NEW a \in Acks, NEW n \in Sends, Ack(a, n) PROVE NotifyInv'
    <2> DEFINE w == IF ToAck(n) = {} THEN "no" ELSE "yes"
    <2> acked' = IF ToAck(n) = {} THEN acked ELSE acked \cup {n}
        BY <1>10 DEF Ack, MarkAcked
    <2> w \in {"yes", "no", "raised"} /\ (w = "yes" => ToAck(n) # {} /\ n \in acked')
        OBVIOUS
    <2> answer' = [answer EXCEPT ![a] = w] BY <1>10 DEF Ack
    <2> HIDE DEF w
    <2> QED BY <1>10, AckStep DEF Ack
<1>11. ASSUME NEW a \in Acks, NEW n \in Sends, AckFails(a, n) PROVE NotifyInv'
    <2> /\ acked' \in {acked, acked \cup {n}}
        /\ acked' # acked => ToAck(n) # {}
        BY <1>11 DEF AckFails, MarkAcked
    <2> QED BY <1>11, AckStep DEF AckFails
<1>12. CASE EditPreferences \/ HourPasses \/ Crash \/ UNCHANGED vars
    <2>1. UNCHANGED <<log, acked, delivered, locals, acks>>
        BY <1>12 DEF EditPreferences, HourPasses, Crash, vars, tables
    <2>2. \A n \in Sends : pc'[n] # pc[n] => pc'[n] \in {"lost", "raised"} /\ pc[n] \in InSend
        BY <1>12 DEF EditPreferences, HourPasses, Crash, vars
    <2>3. Fresh' /\ Progress' /\ Tried' /\ Rows' /\ Finished'
        BY <2>1, <2>2, SendsKept DEF TypeOK
    <2> QED BY <2>1, <2>3, AcksKept DEF NotifyInv
<1> QED BY <1>1, <1>2, <1>3, <1>4, <1>5, <1>6, <1>7, <1>8, <1>9, <1>10, <1>11, <1>12
        DEF Next, SendProceeds

(* The inductive invariant of Notify.                                         *)
THEOREM NotifyInvariance == Spec => [](TypeOK /\ NotifyInv)
BY InitTypeOK, NextTypeOK, InitInv, NextInv, PTL DEF Spec

-----------------------------------------------------------------------------
(* No adapter is ever used against the preferences its send read, for any     *)
(* windows of quiet hours and any day.                                        *)
THEOREM Routing == Spec => []ChannelsRespected
<1>1. TypeOK /\ NotifyInv => ChannelsRespected
    BY DEF TypeOK, NotifyInv, Tried, ChannelsRespected
<1> QED BY <1>1, NotifyInvariance, PTL

(* A send that returned has tried exactly the channels that were due.         *)
THEOREM Completeness == Spec => []NoChannelForgotten
<1>1. TypeOK /\ NotifyInv => NoChannelForgotten
    BY DEF TypeOK, NotifyInv, Tried, Finished, NoChannelForgotten
<1> QED BY <1>1, NotifyInvariance, PTL

(* The log agrees with what was tried, sent and answered.                     *)
THEOREM LogTruth == Spec => []LogTellsTruth
<1>1. TypeOK /\ NotifyInv => LogTellsTruth
    BY DEF TypeOK, NotifyInv, Tried, Finished, Rows, Entry, LogRow, LogTellsTruth
<1> QED BY <1>1, NotifyInvariance, PTL

(* One acknowledgement of a notification is told that it was the one.         *)
THEOREM OneAcknowledgement == Spec => []AckedOnce
BY NotifyInvariance, PTL DEF NotifyInv

-----------------------------------------------------------------------------
(* Notify implements Delivery: the abstract variables, the steps that change  *)
(* them, and the stutters.                                                    *)
Phases == [n \in Sends |-> Phase(n)]
Pendings == [n \in Sends |-> Pending(n)]
Short(r) == [id |-> r.id, attempted |-> r.attempted]
Shorts == {Short(r) : r \in log}
DeliveryStep ==
    ADelivery!Next \/ UNCHANGED <<Phases, Pendings, attempted, delivered, Shorts, acked, ackOf, answer>>

(* A step of one send is seen of that send alone.                             *)
LEMMA OthersUnseen ==
    ASSUME TypeOK, NEW n \in Sends,
           \A m \in Sends \ {n} : /\ pc'[m] = pc[m] /\ todo'[m] = todo[m]
                                  /\ req'[m] = req[m] /\ seen'[m] = seen[m] /\ at'[m] = at[m]
    PROVE  /\ Phases' = [Phases EXCEPT ![n] = Phase(n)']
           /\ Pendings' = [Pendings EXCEPT ![n] = Pending(n)']
<1>1. ASSUME NEW m \in Sends \ {n}
      PROVE  Phase(m)' = Phase(m) /\ Pending(m)' = Pending(m)
  <2>1. \A c \in Channels : LeftOut(m, c)' <=> LeftOut(m, c)
    BY DueStable
  <2>2. todo[m] \subseteq Channels
    BY DEF TypeOK
  <2>3. {c \in todo[m] : ~LeftOut(m, c)'} = {c \in todo[m] : ~LeftOut(m, c)}
    BY <2>1, <2>2
  <2> QED
    BY <2>3 DEF Phase, Pending
<1> QED
    BY <1>1 DEF Phases, Pendings

(* Neither does anybody see a step outside of the sends.                      *)
LEMMA NothingSeen ==
    ASSUME TypeOK, UNCHANGED <<pc, todo, req, seen, at>>
    PROVE  UNCHANGED <<Phases, Pendings>>
<1>1. ASSUME NEW n \in Sends
      PROVE  Phase(n)' = Phase(n) /\ Pending(n)' = Pending(n)
  <2>1. \A c \in Channels : LeftOut(n, c)' <=> LeftOut(n, c)
    BY DueStable
  <2>2. todo[n] \subseteq Channels
    BY DEF TypeOK
  <2>3. {c \in todo[n] : ~LeftOut(n, c)'} = {c \in todo[n] : ~LeftOut(n, c)}
    BY <2>1, <2>2
  <2> QED
    BY <2>3 DEF Phase, Pending
<1> QED
    BY <1>1 DEF Phases, Pendings

LEMMA DeliveryInit == Init => ADelivery!Init
<1> SUFFICES ASSUME Init PROVE ADelivery!Init
    OBVIOUS
<1>1. \A n \in Sends : Phase(n) = "idle" /\ Pending(n) = {}
    BY DEF Init, Phase, Pending
<1>2. {[id |-> r.id, attempted |-> r.attempted] : r \in log} = {}
    BY DEF Init
<1> QED
    BY <1>1, <1>2 DEF Init, ADelivery!Init

LEMMA TakeStep ==
    ASSUME TypeOK, NEW n \in Sends, Send(n)
    PROVE  DeliveryStep
<1>1. /\ pc[n] = "idle" /\ pc' = [pc EXCEPT ![n] = "prefs"]
      /\ UNCHANGED <<attempted, delivered, log, acked, ackOf, answer>>
    BY DEF Send, Goto, tables, acks
<1>2. /\ Phases' = [Phases EXCEPT ![n] = Phase(n)']
      /\ Pendings' = [Pendings EXCEPT ![n] = Pending(n)']
    BY OthersUnseen DEF Send, Goto, TypeOK
<1>3. Phase(n) = "idle" /\ Phase(n)' = "waiting" /\ Pending(n)' = Pending(n)
    BY <1>1 DEF Phase, Pending, TypeOK
<1>4. Phases[n] = "idle" /\ Phases' = [Phases EXCEPT ![n] = "waiting"] /\ Pendings' = Pendings
    BY <1>2, <1>3 DEF Phases, Pendings
<1>5. ADelivery!Take(n)
    BY <1>1, <1>4 DEF ADelivery!Take, ADelivery!Enter, Phases, Pendings
<1> QED
    BY <1>5 DEF DeliveryStep, ADelivery!Next

(* The moment at which the channels are settled.                              *)
LEMMA PlanStep ==
    ASSUME TypeOK, TypeOK', NEW n \in Sends, ReadPreferences(n)
    PROVE  DeliveryStep
<1>1. /\ pc[n] = "prefs" /\ pc' = [pc EXCEPT ![n] = "channels"]
      /\ seen' = [seen EXCEPT ![n] = Preferences(req[n].tenant)]
      /\ at' = [at EXCEPT ![n] = hour] /\ req' = req
      /\ todo'[n] = Targets(req'[n], seen'[n])
      /\ UNCHANGED <<attempted, delivered, log, acked, ackOf, answer>>
    BY DEF ReadPreferences, Goto, tables, acks, TypeOK
<1>2. /\ Phases' = [Phases EXCEPT ![n] = Phase(n)']
      /\ Pendings' = [Pendings EXCEPT ![n] = Pending(n)']
    BY OthersUnseen DEF ReadPreferences, Goto, TypeOK
<1>3. Phase(n) = "waiting" /\ Phase(n)' = "sending"
    BY <1>1 DEF Phase, TypeOK
<1>4. Pending(n)' = WantedNow(n)
  <2>1. \A c \in Channels : Due(n, c)' <=> c \in todo'[n] /\ ~LeftOut(n, c)'
    BY <1>1, RoutingNext DEF Targets, FromPreferences, NoTable
  <2>2. seen'[n] = Preferences(req[n].tenant) /\ at'[n] = hour
    BY <1>1 DEF TypeOK
  <2>3. \A c \in Channels : Due(n, c)' <=> Wants(req[n], Preferences(req[n].tenant), hour, c)
    BY <1>1, <2>2 DEF Due, Wants, QuietHours
  <2>4. todo'[n] \subseteq Channels /\ pc'[n] = "channels"
    BY <1>1 DEF TypeOK
  <2> QED
    BY <2>1, <2>3, <2>4 DEF Pending, WantedNow
<1>5. Phases[n] = "waiting" /\ Phases' = [Phases EXCEPT ![n] = "sending"]
    BY <1>2, <1>3 DEF Phases
<1>6. Pendings' = [Pendings EXCEPT ![n] = [m \in Sends |-> WantedNow(m)][n]]
    BY <1>2, <1>4
<1>7. ADelivery!Plan(n)
    BY <1>1, <1>5, <1>6 DEF ADelivery!Plan, ADelivery!Enter, Phases, Pendings
<1> QED
    BY <1>7 DEF DeliveryStep, ADelivery!Next

(* A turn of the loop takes the channel off the list.                         *)
LEMMA TurnSeen ==
    ASSUME TypeOK, NEW n \in Sends, NEW c \in Channels, Turn(n, c)
    PROVE  /\ Phases[n] = "sending" /\ Phases' = Phases
           /\ Pendings' = [Pendings EXCEPT ![n] = @ \ {c}]
           /\ c \in Pendings[n] <=> ~LeftOut(n, c)
<1>1. /\ pc' = pc /\ pc[n] = "channels" /\ c \in todo[n] /\ todo'[n] = todo[n] \ {c}
      /\ UNCHANGED <<req, seen, at>>
    BY DEF Turn, TypeOK
<1>2. /\ Phases' = [Phases EXCEPT ![n] = Phase(n)']
      /\ Pendings' = [Pendings EXCEPT ![n] = Pending(n)']
    BY OthersUnseen DEF Turn, TypeOK
<1>3. Phase(n) = "sending" /\ Phase(n)' = Phase(n)
    BY <1>1 DEF Phase
<1>4. Pending(n)' = Pending(n) \ {c}
  <2>1. \A d \in Channels : LeftOut(n, d)' <=> LeftOut(n, d)
    BY <1>1, DueKept
  <2>2. todo[n] \subseteq Channels
    BY DEF TypeOK
  <2> QED
    BY <1>1, <2>1, <2>2 DEF Pending
<1>5. c \in Pending(n) <=> ~LeftOut(n, c)
    BY <1>1 DEF Pending
<1> QED
    BY <1>2, <1>3, <1>4, <1>5 DEF Phases, Pendings

LEMMA TryStep ==
    ASSUME TypeOK, NEW n \in Sends, NEW c \in Channels, NEW ok \in BOOLEAN,
           Turn(n, c), Attempt(n, c, ok),
           delivered' \in {delivered, delivered \cup {<<n, c>>}}
    PROVE  DeliveryStep
<1>1. /\ Phases[n] = "sending" /\ Phases' = Phases /\ c \in Pendings[n]
      /\ Pendings' = [Pendings EXCEPT ![n] = @ \ {c}]
    BY TurnSeen DEF Attempt
<1>2. /\ attempted' = [attempted EXCEPT ![n] = @ \cup {c}]
      /\ UNCHANGED <<log, acked, ackOf, answer>>
    BY DEF Attempt, Turn, acks
<1>3. ADelivery!Try(n, c)
    BY <1>1, <1>2 DEF ADelivery!Try, Phases, Pendings
<1> QED
    BY <1>3 DEF DeliveryStep, ADelivery!Next

LEMMA SkipStep ==
    ASSUME TypeOK, NEW n \in Sends, NEW c \in Channels, Skip(n, c)
    PROVE  DeliveryStep
<1>1. Phases' = Phases /\ Pendings' = [Pendings EXCEPT ![n] = @ \ {c}] /\ c \notin Pendings[n]
    BY TurnSeen DEF Skip
<1>2. Pendings' = Pendings
    BY <1>1 DEF Pendings
<1>3. UNCHANGED <<attempted, delivered, Shorts, acked, ackOf, answer>>
    BY DEF Skip, Turn, acks, Shorts
<1> QED
    BY <1>1, <1>2, <1>3 DEF DeliveryStep

(* A send ends when its loop is over, with its row or without one.            *)
LEMMA EndSeen ==
    ASSUME TypeOK, NEW n \in Sends, NEW label \in {"done", "raised"},
           pc[n] = "prefs" \/ AtLog(n), Goto(n, label), UNCHANGED locals
    PROVE  /\ Phases[n] \in {"waiting", "sending"} /\ Pendings[n] = {}
           /\ AtLog(n) => Phases[n] = "sending"
           /\ Phases' = [Phases EXCEPT ![n] = IF label = "done" THEN "done" ELSE "failed"]
           /\ Pendings' = Pendings
<1>1. /\ Phases' = [Phases EXCEPT ![n] = Phase(n)']
      /\ Pendings' = [Pendings EXCEPT ![n] = Pending(n)']
    BY OthersUnseen DEF Goto, TypeOK, locals
<1>2. pc'[n] = label
    BY DEF Goto, TypeOK
<1>3. Phase(n)' = IF label = "done" THEN "done" ELSE "failed"
    BY <1>2 DEF Phase
<1>4. Pending(n) = {} /\ Pending(n)' = {}
    BY <1>2 DEF Pending, AtLog
<1>5. /\ Phase(n) \in {"waiting", "sending"}
      /\ AtLog(n) => Phase(n) = "sending"
    BY DEF Phase, AtLog
<1> QED
    BY <1>1, <1>3, <1>4, <1>5 DEF Phases, Pendings

LEMMA RecordStep ==
    ASSUME TypeOK, NEW n \in Sends, NEW label \in {"done", "raised"},
           AtLog(n), log' = Logged(n), Goto(n, label),
           UNCHANGED <<locals, acked, delivered, acks>>
    PROVE  DeliveryStep
<1>1. /\ Phases[n] = "sending" /\ Pendings[n] = {} /\ Pendings' = Pendings
      /\ Phases' = [Phases EXCEPT ![n] = IF label = "done" THEN "done" ELSE "failed"]
    BY EndSeen
<1>2. Shorts' = Shorts \cup {[id |-> n, attempted |-> attempted[n]]}
  <2> DEFINE new == [id |-> n, attempted |-> attempted[n], succeeded |-> succeeded[n]]
  <2>1. log' = log \cup {new} /\ Short(new) = [id |-> n, attempted |-> attempted[n]]
    BY DEF Logged, Short
  <2> HIDE DEF new
  <2>2. \A row : row \in Shorts' <=> \E r \in log \cup {new} : row = Short(r)
    BY <2>1 DEF Shorts, Short
  <2> QED
    BY <2>1, <2>2 DEF Shorts
<1>3. \E end \in {"done", "failed"} : Phases' = [Phases EXCEPT ![n] = end]
    BY <1>1
<1>4. ADelivery!Record(n)
    BY <1>1, <1>2, <1>3
       DEF ADelivery!Record, ADelivery!Enter, Phases, Pendings, Shorts, Short, locals, acks
<1> QED
    BY <1>4 DEF DeliveryStep, ADelivery!Next

LEMMA FailStep ==
    ASSUME TypeOK, NEW n \in Sends, SendDbFails(n)
    PROVE  DeliveryStep
<1>1. /\ Phases[n] \in {"waiting", "sending"} /\ Pendings[n] = {} /\ Pendings' = Pendings
      /\ Phases' = [Phases EXCEPT ![n] = "failed"]
    BY EndSeen DEF SendDbFails
<1>2. UNCHANGED <<attempted, delivered, log, acked, ackOf, answer>>
    BY DEF SendDbFails, tables, locals, acks
<1>3. ADelivery!Fail(n)
    BY <1>1, <1>2 DEF ADelivery!Fail, ADelivery!Enter, Phases, Pendings
<1> QED
    BY <1>3 DEF DeliveryStep, ADelivery!Next

LEMMA CrashStep ==
    ASSUME TypeOK, Crash
    PROVE  DeliveryStep
<1>1. ASSUME NEW n \in Sends
      PROVE  /\ Phase(n)' = IF Phase(n) \in {"waiting", "sending"} THEN "failed" ELSE Phase(n)
             /\ Pending(n)' = {}
  <2>1. pc'[n] = IF pc[n] \in InSend THEN "lost" ELSE pc[n]
    BY DEF Crash
  <2>2. pc[n] \in {"idle", "done", "raised", "lost", "prefs", "channels"}
    BY DEF TypeOK, InSend
  <2> QED
    BY <2>1, <2>2 DEF Phase, Pending, InSend
<1>2. /\ Phases' = [n \in Sends |-> IF Phases[n] \in {"waiting", "sending"}
                                    THEN "failed" ELSE Phases[n]]
      /\ Pendings' = [n \in Sends |-> {}]
    BY <1>1 DEF Phases, Pendings
<1>3. UNCHANGED <<attempted, delivered, log, acked, ackOf, answer>>
    BY DEF Crash, tables, locals, acks
<1>4. ADelivery!Crash
    BY <1>2, <1>3 DEF ADelivery!Crash, Phases, Pendings
<1> QED
    BY <1>4 DEF DeliveryStep, ADelivery!Next

(* The WHERE clause of mark_acked says what the abstract guard says.          *)
LEMMA ToAckSeen ==
    ASSUME NEW n \in Sends
    PROVE  ToAck(n) # {} <=> ADelivery!IsLogged(n) /\ n \notin acked
<1>1. ADelivery!IsLogged(n) <=> \E row \in Shorts : row.id = n
    BY DEF ADelivery!IsLogged, Shorts, Short
<1>2. \A r \in log : Short(r) \in Shorts /\ Short(r).id = r.id
    BY DEF Shorts, Short
<1>3. \A row \in Shorts : \E r \in log : row = Short(r)
    BY DEF Shorts
<1>4. ADelivery!IsLogged(n) <=> \E r \in log : r.id = n
    BY <1>1, <1>2, <1>3
<1> QED
    BY <1>4 DEF ToAck

LEMMA AcksSeen ==
    ASSUME TypeOK, NEW a \in Acks, NEW n \in Sends, Ack(a, n) \/ AckFails(a, n)
    PROVE  DeliveryStep
<1>1. UNCHANGED <<Phases, Pendings, Shorts, attempted, delivered, log>>
    BY NothingSeen DEF Ack, AckFails, locals, Shorts
<1>2. CASE Ack(a, n)
  <2>1. ADelivery!Ack(a, n)
    BY <1>1, <1>2, ToAckSeen DEF Ack, MarkAcked, ADelivery!Ack, Phases, Pendings
  <2> QED
    BY <2>1 DEF DeliveryStep, ADelivery!Next
<1>3. CASE AckFails(a, n)
  <2>1. ADelivery!AckFails(a, n)
    BY <1>1, <1>3, ToAckSeen DEF AckFails, MarkAcked, ADelivery!AckFails, Phases, Pendings
  <2> QED
    BY <2>1 DEF DeliveryStep, ADelivery!Next
<1> QED
    BY <1>2, <1>3

LEMMA DeliverySteps == TypeOK /\ TypeOK' /\ [Next]_vars => DeliveryStep
<1> SUFFICES ASSUME TypeOK, TypeOK', [Next]_vars PROVE DeliveryStep
    OBVIOUS
<1>1. ASSUME NEW n \in Sends, Send(n) \/ SendDbFails(n) PROVE DeliveryStep
    BY <1>1, TakeStep, FailStep
<1>2. ASSUME NEW n \in Sends, InsertLog(n) \/ LogReplyLost(n) PROVE DeliveryStep
    BY <1>2, RecordStep DEF InsertLog, LogReplyLost
<1>3. ASSUME NEW n \in Sends, ReadPreferences(n) PROVE DeliveryStep
    BY <1>3, PlanStep
<1>4. ASSUME NEW n \in Sends, NEW c \in Channels,
             Skip(n, c) \/ LogOnly(n, c) \/ NoAdapter(n, c) \/ Deliver(n, c)
      PROVE  DeliveryStep
  <2>1. CASE Skip(n, c)
    BY <2>1, SkipStep
  <2>2. CASE LogOnly(n, c) \/ NoAdapter(n, c)
    BY <2>2, TryStep DEF LogOnly, NoAdapter
  <2>3. CASE Deliver(n, c)
    <3> PICK o \in Outcomes : Turn(n, c) /\ Adapter(n, c, o)
        BY <2>3 DEF Deliver
    <3>1. <<TRUE, TRUE>>[2] \in BOOLEAN /\ <<FALSE, FALSE>>[2] \in BOOLEAN
          /\ <<TRUE, FALSE>>[2] \in BOOLEAN
        OBVIOUS
    <3>2. o[2] \in BOOLEAN
        BY <3>1, Zenon DEF Outcomes
    <3> QED
        BY <3>2, TryStep DEF Adapter
  <2> QED
    BY <1>4, <2>1, <2>2, <2>3
<1>5. ASSUME NEW a \in Acks, NEW n \in Sends, Ack(a, n) \/ AckFails(a, n) PROVE DeliveryStep
    BY <1>5, AcksSeen
<1>6. CASE EditPreferences \/ HourPasses \/ UNCHANGED vars
  <2>1. UNCHANGED <<pc, locals, acks, log, acked, delivered>>
    BY <1>6 DEF EditPreferences, HourPasses, vars, tables
  <2>2. UNCHANGED <<Phases, Pendings>>
    BY <2>1, NothingSeen DEF locals
  <2> QED
    BY <2>1, <2>2 DEF DeliveryStep, locals, acks, Shorts
<1>7. CASE Crash
    BY <1>7, CrashStep
<1> QED
    BY <1>1, <1>2, <1>3, <1>4, <1>5, <1>6, <1>7 DEF Next, SendProceeds

(* However long the loop takes and whatever changes meanwhile, a notification *)
(* is tried on what was wanted at one moment, then logged, then acknowledged  *)
(* once.                                                                      *)
THEOREM DeliveryRefinement == Spec => ImplementsDelivery
<1>1. TypeOK /\ TypeOK' /\ [Next]_vars => [ADelivery!Next]_(ADelivery!vars)
    BY DeliverySteps DEF DeliveryStep, Phases, Pendings, Shorts, Short, ADelivery!vars
<1> QED
    BY <1>1, DeliveryInit, NotifyTypeCorrect, PTL
       DEF Spec, ImplementsDelivery, ADelivery!Spec
=============================================================================
