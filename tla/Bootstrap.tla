------------------------------ MODULE Bootstrap ------------------------------
(* bootstrap.py: one engine per process, built on first use by whichever MCP  *)
(* tool, REST route or health probe comes first, under an asyncio lock.       *)
(* Everything between two awaits is one action.  What a call builds (a pool,  *)
(* an engine, its tasks) is named by the call.                                *)
EXTENDS Naturals, Sequences, FiniteSets

CONSTANTS
    Calls,       \* calls of get_engine() and get_notify_engine()
    NoCall,      \* None
    MaxFaults    \* bound on failures, cancellations and crashes

ASSUME CallAssumption == NoCall \notin Calls
ASSUME FaultAssumption == MaxFaults \in Nat

VARIABLES
    bpc,            \* where each call waits
    asked,          \* which engine it asks for
    got,            \* the engine it was given
    engine,         \* bootstrap._engine
    notifyEngine,   \* bootstrap._notify_engine
    holder,         \* who holds bootstrap._lock
    pools,          \* connection pools open in the process
    expiry,         \* expiry tasks running, one for each engine that started one
    listeners,      \* kind:10021 listeners, likewise
    script,         \* the migration each call runs next
    applied,        \* the migrations the database has seen
    faults          \* failures so far

processVars == <<engine, notifyEngine, holder, pools, expiry, listeners>>
vars == <<bpc, asked, got, processVars, script, applied, faults>>

Building == {"pool", "migrate", "bridge"}
Waiting == {"lock"} \cup Building
OptCall == Calls \cup {NoCall}

Init == /\ bpc = [c \in Calls |-> "idle"]
        /\ asked = [c \in Calls |-> "hub"]
        /\ got = [c \in Calls |-> NoCall]
        /\ engine = NoCall /\ notifyEngine = NoCall /\ holder = NoCall
        /\ pools = {} /\ expiry = {} /\ listeners = {}
        /\ script = [c \in Calls |-> 1]
        /\ applied = {}
        /\ faults = 0

-----------------------------------------------------------------------------
(* run_migrations takes the files in sorted order.  The third one alters the  *)
(* table the first one creates.                                               *)
Migrations ==
    <<"001_create_nostr_hitl", "002_create_notifications", "002_extend_nostr_hitl">>

Files == {Migrations[k] : k \in 1 .. 3}
Needs(file) == IF file = "002_extend_nostr_hitl" THEN {"001_create_nostr_hitl"} ELSE {}

Goto(c, label) == bpc' = [bpc EXCEPT ![c] = label]

Fault == faults < MaxFaults /\ faults' = faults + 1

(* Leaving "async with _lock", whichever way; the mutant does not.            *)
Release_not(c) == UNCHANGED holder
Release(c) == holder' = IF holder = c THEN NoCall ELSE holder

(* What the caller gets of an engine e and a notify engine n; without n       *)
(* get_notify_engine raises its RuntimeError.                                 *)
Answer(c, kind, e, n) ==
    IF kind = "notify" /\ n = NoCall
    THEN Goto(c, "unready") /\ UNCHANGED got
    ELSE /\ Goto(c, "done")
         /\ got' = [got EXCEPT ![c] = IF kind = "notify" THEN n ELSE e]

(* A call arrives: the engine that is there, or the lock if it is free.  (An  *)
(* asyncio lock is fair; here it may go to anybody who wants it.)             *)
Enter(c, kind) ==
    /\ bpc[c] = "idle"
    /\ asked' = [asked EXCEPT ![c] = kind]
    /\ IF engine # NoCall
       THEN Answer(c, kind, engine, notifyEngine) /\ UNCHANGED holder
       ELSE /\ IF holder = NoCall THEN Goto(c, "pool") /\ holder' = c
                                  ELSE Goto(c, "lock") /\ UNCHANGED holder
            /\ UNCHANGED got
    /\ UNCHANGED <<engine, notifyEngine, pools, expiry, listeners, script, applied, faults>>

(* A waiter gets the lock and looks again; the mutant does not.               *)
Acquire_noRecheck(c) ==
    /\ bpc[c] = "lock" /\ holder = NoCall
    /\ Goto(c, "pool") /\ holder' = c
    /\ UNCHANGED <<asked, got, engine, notifyEngine, pools, expiry, listeners,
                   script, applied, faults>>
Acquire(c) ==
    /\ bpc[c] = "lock" /\ holder = NoCall
    /\ IF engine # NoCall
       THEN Answer(c, asked[c], engine, notifyEngine) /\ UNCHANGED holder
       ELSE Goto(c, "pool") /\ holder' = c /\ UNCHANGED got
    /\ UNCHANGED <<asked, engine, notifyEngine, pools, expiry, listeners,
                   script, applied, faults>>

(* create_pool; the mutant already hands out the engine.                      *)
CreatePool_early(c) ==
    /\ bpc[c] = "pool"
    /\ pools' = pools \cup {c}
    /\ engine' = c
    /\ script' = [script EXCEPT ![c] = 1]
    /\ Goto(c, "migrate")
    /\ UNCHANGED <<asked, got, notifyEngine, holder, expiry, listeners, applied, faults>>
CreatePool(c) ==
    /\ bpc[c] = "pool"
    /\ pools' = pools \cup {c}
    /\ script' = [script EXCEPT ![c] = 1]
    /\ Goto(c, "migrate")
    /\ UNCHANGED <<asked, got, engine, notifyEngine, holder, expiry, listeners,
                   applied, faults>>

(* The next file, if there is one; the mutant counts past the last.           *)
NextScript_past(c) ==
    /\ script' = [script EXCEPT ![c] = @ + 1]
    /\ Goto(c, IF script[c] = 3 THEN "bridge" ELSE "migrate")
NextScript(c) == IF script[c] = 3
                 THEN Goto(c, "bridge") /\ UNCHANGED script
                 ELSE script' = [script EXCEPT ![c] = @ + 1] /\ UNCHANGED bpc

(* One file, in a transaction of its own.                                     *)
Migrate(c) ==
    /\ bpc[c] = "migrate"
    /\ Needs(Migrations[script[c]]) \subseteq applied
    /\ applied' = applied \cup {Migrations[script[c]]}
    /\ NextScript(c)
    /\ UNCHANGED <<asked, got, processVars, faults>>

(* bridge.start() ends, connected or not; then, without an await, the engine, *)
(* its background tasks and the notify engine, and the lock is released.  The *)
(* mutant lets the exception of a relay that cannot be reached pass.          *)
StartBridge_raises(c) ==
    /\ bpc[c] = "bridge"
    /\ Release(c)
    /\ \/ /\ engine' = c /\ notifyEngine' = c
          /\ expiry' = expiry \cup {c} /\ listeners' = listeners \cup {c}
          /\ Answer(c, asked[c], c, c)
       \/ Goto(c, "raised") /\ UNCHANGED <<engine, notifyEngine, expiry, listeners, got>>
    /\ UNCHANGED <<asked, pools, script, applied, faults>>
StartBridge(c) ==
    /\ bpc[c] = "bridge"
    /\ \E connected \in BOOLEAN :
          listeners' = IF connected THEN listeners \cup {c} ELSE listeners
    /\ engine' = c
    /\ expiry' = expiry \cup {c}
    /\ notifyEngine' = c
    /\ Release(c)
    /\ Answer(c, asked[c], c, c)
    /\ UNCHANGED <<asked, pools, script, applied, faults>>

-----------------------------------------------------------------------------
(* The database cannot be reached, or a file fails because of what it needs:  *)
(* the exception leaves get_engine, and the pool stays as it is.              *)
Fails(c) ==
    /\ \/ bpc[c] = "pool" /\ Fault /\ UNCHANGED applied
       \/ bpc[c] = "migrate" /\ Fault /\ UNCHANGED applied
       \/ /\ bpc[c] = "migrate" /\ ~(Needs(Migrations[script[c]]) \subseteq applied)
          /\ UNCHANGED <<faults, applied>>
    /\ Goto(c, "raised")
    /\ Release(c)
    /\ UNCHANGED <<asked, got, engine, notifyEngine, pools, expiry, listeners, script>>

(* The file is committed and the connection lost before the reply.  The       *)
(* mutant logs it and goes on to the next file, whatever happened.            *)
MigrateReplyLost_swallowed(c) ==
    /\ bpc[c] = "migrate"
    /\ Fault
    /\ UNCHANGED applied
    /\ NextScript(c)
    /\ UNCHANGED <<asked, got, processVars>>
MigrateReplyLost(c) ==
    /\ bpc[c] = "migrate" /\ Needs(Migrations[script[c]]) \subseteq applied
    /\ Fault
    /\ applied' = applied \cup {Migrations[script[c]]}
    /\ Goto(c, "raised")
    /\ Release(c)
    /\ UNCHANGED <<asked, got, engine, notifyEngine, pools, expiry, listeners, script>>

(* The caller goes away: CancelledError is not an Exception, so nothing of    *)
(* get_engine catches it.                                                     *)
Cancel(c) ==
    /\ bpc[c] \in Waiting
    /\ Fault
    /\ Goto(c, "cancelled")
    /\ Release(c)
    /\ UNCHANGED <<asked, got, engine, notifyEngine, pools, expiry, listeners, script, applied>>

(* The process dies; the database stays as it is.                             *)
Crash ==
    /\ Fault
    /\ bpc' = [c \in Calls |-> IF bpc[c] = "idle" THEN "idle" ELSE "lost"]
    /\ engine' = NoCall /\ notifyEngine' = NoCall /\ holder' = NoCall
    /\ pools' = {} /\ expiry' = {} /\ listeners' = {}
    /\ UNCHANGED <<asked, got, script, applied>>

Proceeds(c) == Acquire(c) \/ CreatePool(c) \/ Migrate(c) \/ StartBridge(c)
Breaks(c) == Fails(c) \/ MigrateReplyLost(c) \/ Cancel(c)

Next == \/ \E c \in Calls : \/ \E kind \in {"hub", "notify"} : Enter(c, kind)
                            \/ Proceeds(c) \/ Breaks(c)
        \/ Crash

Spec == Init /\ [][Next]_vars

(* The event loop runs a coroutine whose await is over; the pool, the         *)
(* migrations and the relay answer or fail within their timeouts, and the     *)
(* lock goes to one of its waiters.  Nobody has to come, fail or go away.     *)
FairSpec == Spec /\ \A c \in Calls : WF_vars(Proceeds(c))

-----------------------------------------------------------------------------
(* Every variable stays within its type.                                      *)
BootTypeOK ==
    /\ bpc \in [Calls -> {"idle", "done", "unready", "raised", "cancelled", "lost"} \cup Waiting]
    /\ asked \in [Calls -> {"hub", "notify"}]
    /\ got \in [Calls -> OptCall]
    /\ engine \in OptCall /\ notifyEngine \in OptCall /\ holder \in OptCall
    /\ pools \subseteq Calls /\ expiry \subseteq Calls /\ listeners \subseteq Calls
    /\ script \in [Calls -> 1 .. 3]
    /\ applied \subseteq Files
    /\ faults \in 0 .. MaxFaults

(* However the first calls race, fail and go away, the process has one engine *)
(* and one expiry task: every call answered so far got that engine, and the   *)
(* background tasks work for it and for no other.                             *)
OneEngine ==
    /\ \A c \in Calls : bpc[c] = "done" => got[c] = engine /\ engine # NoCall
    /\ expiry = {engine} \ {NoCall}
    /\ listeners \subseteq expiry

(* Nobody is given an engine whose tables are not there yet, though a         *)
(* migration may fail half way, or the process die, and another call start    *)
(* again.                                                                     *)
SchemaReady == \A c \in Calls : bpc[c] = "done" => applied = Files

(* Pools do leak: nobody closes that of a start that broke off.  But each     *)
(* failure or cancellation costs at most one; first calls that race, look     *)
(* again and find an engine, or start without the relay, cost none.           *)
PoolsBounded == Cardinality(pools) <= 1 + faults

(* get_notify_engine never meets a hub that is ready without it.              *)
NotifyReady == \A c \in Calls : bpc[c] # "unready"

(* Once there is an engine only the end of the process takes it away.         *)
EngineStays == [][engine # NoCall => engine' \in {engine, NoCall}]_vars

(* A call under way gets its engine unless something fails before: neither an *)
(* earlier failure nor a missing relay stands in its way.                     *)
HubComesUp ==
    \A c \in Calls, n \in 0 .. MaxFaults :
        bpc[c] \in Waiting /\ faults = n ~> bpc[c] = "done" \/ faults > n

-----------------------------------------------------------------------------
(* What a caller sees of its call, get_notify_engine's error being a failure. *)
Seen(c) == IF bpc[c] = "idle" THEN "idle"
           ELSE IF bpc[c] \in Waiting THEN "waiting"
           ELSE IF bpc[c] = "done" THEN "given" ELSE "failed"

Given(c) == IF bpc[c] = "done" THEN got[c] ELSE NoCall

ASingleton == INSTANCE Singleton WITH
    schema <- applied = Files, instance <- engine, working <- expiry,
    reply <- [c \in Calls |-> Seen(c)], given <- [c \in Calls |-> Given(c)]

(* However first calls race for the lock, fail half way, are cancelled or die *)
(* with the process, their callers see one engine created at once, on a       *)
(* complete schema.                                                           *)
ImplementsSingleton == ASingleton!Spec
=============================================================================
