--------------------------- MODULE Bootstrap_proofs ---------------------------
(* One engine per process, for any number of calls that come, fail and go     *)
(* away.  The argument: a call between create_pool and the engine holds the   *)
(* lock, so there is one such call, there is no engine yet, and every script  *)
(* before the one it runs next is in the database.                            *)
EXTENDS Bootstrap, FiniteSetTheorems, TLAPS

(* A call that builds holds the lock and found no engine; its pool is open    *)
(* and the database has what it ran so far.                                   *)
BuilderOK(c) ==
    /\ bpc[c] \in Building <=> holder = c
    /\ bpc[c] \in Building => engine = NoCall
    /\ bpc[c] \in {"migrate", "bridge"} =>
          \A k \in 1 .. 3 : k < script[c] \/ bpc[c] = "bridge" => Migrations[k] \in applied

(* Engine and notify engine come together, with the tasks and the tables.     *)
EngineOK ==
    /\ notifyEngine = engine
    /\ expiry = {engine} \ {NoCall}
    /\ listeners \subseteq expiry
    /\ engine # NoCall => applied = Files

CallOK(c) ==
    /\ bpc[c] = "done" => got[c] = engine /\ engine # NoCall
    /\ bpc[c] # "unready"

PoolOK(p) == p = engine \/ bpc[p] \in {"migrate", "bridge", "raised", "cancelled"}

(* The pools left behind, each paid for by a failure.                         *)
Abandoned == {p \in pools : bpc[p] \in {"raised", "cancelled"}}
PoolsPaid == IsFiniteSet(pools) /\ Cardinality(Abandoned) <= faults

BootInv == /\ BootTypeOK
           /\ EngineOK
           /\ \A c \in Calls : BuilderOK(c) /\ CallOK(c)
           /\ \A p \in pools : PoolOK(p)
           /\ PoolsPaid

-----------------------------------------------------------------------------
LEMMA ThreeFiles == Files = {Migrations[1], Migrations[2], Migrations[3]}
<1>1. \A k \in 1 .. 3 : k = 1 \/ k = 2 \/ k = 3
    OBVIOUS
<1> QED
    BY <1>1 DEF Files

(* The files are in an order in which none fails for want of another.         *)
LEMMA FilesInOrder ==
    ASSUME NEW k \in 1 .. 3
    PROVE  \A file \in Needs(Migrations[k]) : \E j \in 1 .. 3 : j < k /\ Migrations[j] = file
BY DEF Needs, Migrations

LEMMA BootInit == Init => BootInv
<1> SUFFICES ASSUME Init PROVE BootInv
    OBVIOUS
<1>1. BootTypeOK /\ EngineOK /\ \A c \in Calls : BuilderOK(c) /\ CallOK(c)
    BY CallAssumption, FaultAssumption
       DEF Init, BootTypeOK, EngineOK, BuilderOK, CallOK, OptCall, Building
<1>2. pools = {} /\ Abandoned = {} /\ faults = 0
    BY DEF Init, Abandoned
<1> QED
    BY <1>1, <1>2, FS_EmptySet DEF BootInv, PoolsPaid

(* A call that goes on, with a pool or without, leaves none behind.           *)
LEMMA NoneAbandoned ==
    ASSUME BootInv, NEW c \in Calls, bpc[c] \in {"idle"} \cup Waiting,
           NEW label, label \notin {"raised", "cancelled"}, bpc' = [bpc EXCEPT ![c] = label],
           pools' = pools \/ pools' = pools \cup {c}, UNCHANGED faults
    PROVE  PoolsPaid'
<1>1. IsFiniteSet(pools')
    BY FS_AddElement DEF BootInv, PoolsPaid
<1>2. bpc[c] \notin {"raised", "cancelled"} /\ bpc'[c] = label
    BY DEF BootInv, BootTypeOK, Waiting, Building
<1>3. \A p \in pools : p # c => bpc'[p] = bpc[p]
    BY DEF BootInv, BootTypeOK
<1>4. Abandoned' = Abandoned
    BY <1>2, <1>3 DEF Abandoned
<1> QED
    BY <1>1, <1>4 DEF BootInv, PoolsPaid

(* A call that breaks off leaves its own at most, and something failed: no    *)
(* file fails for want of another.                                            *)
LEMMA OneAbandoned ==
    ASSUME BootInv, NEW c \in Calls, Breaks(c)
    PROVE  PoolsPaid'
<1>1. BootTypeOK /\ BuilderOK(c) /\ PoolsPaid
    BY DEF BootInv
<1>2. faults' = faults + 1
  <2>1. ASSUME bpc[c] = "migrate" PROVE Needs(Migrations[script[c]]) \subseteq applied
    <3>1. script[c] \in 1 .. 3
      BY <1>1 DEF BootTypeOK
    <3>2. \A k \in 1 .. 3 : k < script[c] => Migrations[k] \in applied
      BY <1>1, <2>1 DEF BuilderOK
    <3> QED
      BY <3>1, <3>2, FilesInOrder
  <2> QED
    BY <2>1 DEF Breaks, Fails, MigrateReplyLost, Cancel, Fault
<1>3. PICK label \in {"raised", "cancelled"} : bpc' = [bpc EXCEPT ![c] = label]
    BY DEF Breaks, Fails, MigrateReplyLost, Cancel, Goto
<1>4. pools' = pools
    BY DEF Breaks, Fails, MigrateReplyLost, Cancel
<1>5. Abandoned' \subseteq Abandoned \cup {c}
    BY <1>1, <1>3, <1>4 DEF Abandoned, BootTypeOK
<1>6. IsFiniteSet(Abandoned) /\ Cardinality(Abandoned) \in Nat
  <2>1. Abandoned \subseteq pools
    BY DEF Abandoned
  <2> QED
    BY <1>1, <2>1, FS_Subset, FS_CardinalityType DEF PoolsPaid
<1>7. /\ IsFiniteSet(Abandoned \cup {c})
      /\ Cardinality(Abandoned \cup {c}) \in Nat
      /\ Cardinality(Abandoned \cup {c}) <= Cardinality(Abandoned) + 1
    BY <1>6, FS_AddElement, FS_CardinalityType
<1>8. /\ Cardinality(Abandoned') \in Nat
      /\ Cardinality(Abandoned') <= Cardinality(Abandoned \cup {c})
    BY <1>5, <1>7, FS_Subset, FS_CardinalityType
<1>9. Cardinality(Abandoned') <= faults'
    BY <1>1, <1>2, <1>6, <1>7, <1>8, FaultAssumption DEF PoolsPaid, BootTypeOK
<1> QED
    BY <1>1, <1>4, <1>9 DEF PoolsPaid

(* What the other calls see of a step that keeps the engine and what hangs on *)
(* it, and gives the lock to nobody else.                                     *)
LEMMA OthersKeep ==
    ASSUME BootInv, NEW c \in Calls, NEW label, bpc' = [bpc EXCEPT ![c] = label],
           UNCHANGED <<got, engine>>, holder' \in {c, NoCall} \/ UNCHANGED holder,
           holder \in {c, NoCall} \/ UNCHANGED holder,
           applied \subseteq applied', applied' \subseteq Files,
           \A d \in Calls \ {c} : script'[d] = script[d]
    PROVE  \A d \in Calls \ {c} : BuilderOK(d)' /\ CallOK(d)'
<1> SUFFICES ASSUME NEW d \in Calls \ {c} PROVE BuilderOK(d)' /\ CallOK(d)'
    OBVIOUS
<1>1. bpc'[d] = bpc[d] /\ BuilderOK(d) /\ CallOK(d)
    BY DEF BootInv, BootTypeOK
<1>2. holder' = d <=> holder = d
    BY CallAssumption
<1> QED
    BY <1>1, <1>2 DEF BuilderOK, CallOK

-----------------------------------------------------------------------------
LEMMA EnterInv ==
    ASSUME BootInv, NEW c \in Calls, NEW kind \in {"hub", "notify"}, Enter(c, kind)
    PROVE  BootInv'
<1>1. BootTypeOK /\ EngineOK /\ BuilderOK(c) /\ CallOK(c)
    BY DEF BootInv
<1>2. CASE engine # NoCall
  <2>1. bpc' = [bpc EXCEPT ![c] = "done"] /\ got' = [got EXCEPT ![c] = engine]
    BY <1>1, <1>2 DEF Enter, Answer, Goto, EngineOK
  <2>2. UNCHANGED <<engine, notifyEngine, holder, pools, expiry, listeners, script, applied, faults>>
    BY <1>2 DEF Enter
  <2>3. BootTypeOK'
    BY <1>1, <2>1, <2>2 DEF BootTypeOK, Enter, OptCall
  <2>4. \A d \in Calls : BuilderOK(d)' /\ CallOK(d)'
    BY <1>1, <1>2, <2>1, <2>2 DEF BootInv, BootTypeOK, BuilderOK, CallOK, Building, Enter
  <2>5. \A p \in pools' : PoolOK(p)'
    BY <1>1, <2>1, <2>2 DEF BootInv, BootTypeOK, PoolOK, Enter
  <2>6. PoolsPaid'
    BY <2>1, <2>2, NoneAbandoned DEF Enter
  <2> QED
    BY <1>1, <2>2, <2>3, <2>4, <2>5, <2>6 DEF BootInv, EngineOK
<1>3. CASE engine = NoCall
  <2>1. /\ UNCHANGED <<got, engine, notifyEngine, pools, expiry, listeners, script, applied, faults>>
        /\ \/ holder = NoCall /\ holder' = c /\ bpc' = [bpc EXCEPT ![c] = "pool"]
           \/ holder # NoCall /\ holder' = holder /\ bpc' = [bpc EXCEPT ![c] = "lock"]
    BY <1>3 DEF Enter, Goto
  <2>2. BootTypeOK'
    BY <1>1, <2>1 DEF BootTypeOK, Enter, OptCall, Waiting, Building
  <2>3. \A d \in Calls \ {c} : BuilderOK(d)' /\ CallOK(d)'
    BY <1>1, <2>1, OthersKeep DEF BootTypeOK
  <2>4. BuilderOK(c)' /\ CallOK(c)'
    BY <1>1, <1>3, <2>1 DEF BootTypeOK, BuilderOK, CallOK, Building, Enter
  <2>5. \A p \in pools' : PoolOK(p)'
    BY <1>1, <2>1 DEF BootInv, BootTypeOK, PoolOK, Enter
  <2>6. PoolsPaid'
    BY <2>1, NoneAbandoned DEF Enter
  <2> QED
    BY <1>1, <2>1, <2>2, <2>3, <2>4, <2>5, <2>6 DEF BootInv, EngineOK
<1> QED
    BY <1>2, <1>3

LEMMA AcquireInv ==
    ASSUME BootInv, NEW c \in Calls, Acquire(c)
    PROVE  BootInv'
<1>1. BootTypeOK /\ EngineOK /\ BuilderOK(c) /\ CallOK(c)
    BY DEF BootInv
<1>2. CASE engine # NoCall
  <2>1. bpc' = [bpc EXCEPT ![c] = "done"] /\ got' = [got EXCEPT ![c] = engine]
    BY <1>1, <1>2 DEF Acquire, Answer, Goto, EngineOK
  <2>2. UNCHANGED <<asked, engine, notifyEngine, holder, pools, expiry, listeners,
                    script, applied, faults>>
    BY <1>2 DEF Acquire
  <2>3. BootTypeOK'
    BY <1>1, <2>1, <2>2 DEF BootTypeOK, OptCall
  <2>4. \A d \in Calls : BuilderOK(d)' /\ CallOK(d)'
    BY <1>1, <1>2, <2>1, <2>2 DEF BootInv, BootTypeOK, BuilderOK, CallOK, Building, Acquire
  <2>5. \A p \in pools' : PoolOK(p)'
    BY <1>1, <2>1, <2>2 DEF BootInv, BootTypeOK, PoolOK, Acquire
  <2>6. PoolsPaid'
    BY <2>1, <2>2, NoneAbandoned DEF Acquire, Waiting
  <2> QED
    BY <1>1, <2>2, <2>3, <2>4, <2>5, <2>6 DEF BootInv, EngineOK
<1>3. CASE engine = NoCall
  <2>1. /\ UNCHANGED <<asked, got, engine, notifyEngine, pools, expiry, listeners,
                       script, applied, faults>>
        /\ holder = NoCall /\ holder' = c /\ bpc' = [bpc EXCEPT ![c] = "pool"]
    BY <1>3 DEF Acquire, Goto
  <2>2. BootTypeOK'
    BY <1>1, <2>1 DEF BootTypeOK, OptCall, Waiting, Building
  <2>3. \A d \in Calls \ {c} : BuilderOK(d)' /\ CallOK(d)'
    BY <1>1, <2>1, OthersKeep DEF BootTypeOK
  <2>4. BuilderOK(c)' /\ CallOK(c)'
    BY <1>1, <1>3, <2>1 DEF BootTypeOK, BuilderOK, CallOK, Building
  <2>5. \A p \in pools' : PoolOK(p)'
    BY <1>1, <2>1 DEF BootInv, BootTypeOK, PoolOK, Acquire
  <2>6. PoolsPaid'
    BY <2>1, NoneAbandoned DEF Acquire, Waiting
  <2> QED
    BY <1>1, <2>1, <2>2, <2>3, <2>4, <2>5, <2>6 DEF BootInv, EngineOK
<1> QED
    BY <1>2, <1>3

LEMMA CreatePoolInv ==
    ASSUME BootInv, NEW c \in Calls, CreatePool(c)
    PROVE  BootInv'
<1>1. BootTypeOK /\ EngineOK /\ BuilderOK(c) /\ CallOK(c)
    BY DEF BootInv
<1>2. BootTypeOK'
    BY <1>1 DEF CreatePool, Goto, BootTypeOK, Waiting, Building
<1>3. \A d \in Calls \ {c} : BuilderOK(d)' /\ CallOK(d)'
    BY <1>1, OthersKeep DEF CreatePool, Goto, BootTypeOK
<1>4. BuilderOK(c)' /\ CallOK(c)'
    BY <1>1 DEF CreatePool, Goto, BootTypeOK, BuilderOK, CallOK, Building
<1>5. \A p \in pools' : PoolOK(p)'
    BY <1>1 DEF CreatePool, Goto, BootInv, BootTypeOK, PoolOK
<1>6. PoolsPaid'
    BY NoneAbandoned DEF CreatePool, Goto, Waiting, Building
<1> QED
    BY <1>1, <1>2, <1>3, <1>4, <1>5, <1>6 DEF CreatePool, BootInv, EngineOK

LEMMA MigrateInv ==
    ASSUME BootInv, NEW c \in Calls, Migrate(c)
    PROVE  BootInv'
<1>1. BootTypeOK /\ EngineOK /\ BuilderOK(c) /\ CallOK(c)
    BY DEF BootInv
<1>2. script[c] \in 1 .. 3 /\ Migrations[script[c]] \in Files /\ bpc[c] = "migrate"
    BY <1>1 DEF BootTypeOK, Files, Migrate
<1>3. PICK label \in {"migrate", "bridge"} :
          /\ bpc' = [bpc EXCEPT ![c] = label]
          /\ label = "bridge" => script[c] = 3 /\ script' = script
          /\ label = "migrate" => /\ script[c] # 3
                                  /\ script' = [script EXCEPT ![c] = script[c] + 1]
    BY <1>1, <1>2 DEF Migrate, NextScript, Goto, BootTypeOK
<1>4. /\ applied' = applied \cup {Migrations[script[c]]} /\ applied' \subseteq Files
      /\ UNCHANGED <<asked, got, engine, notifyEngine, holder, pools, expiry, listeners, faults>>
    BY <1>1, <1>2 DEF Migrate, processVars, BootTypeOK
<1>5. script[c] \in Nat /\ script[c] >= 1 /\ script[c] <= 3
    BY <1>2
<1>6. script' \in [Calls -> 1 .. 3]
    BY <1>1, <1>3, <1>5 DEF BootTypeOK
<1>7. BootTypeOK'
    BY <1>1, <1>3, <1>4, <1>6 DEF BootTypeOK, Waiting, Building
<1>8. \A d \in Calls \ {c} : BuilderOK(d)' /\ CallOK(d)'
    BY <1>1, <1>3, <1>4, OthersKeep DEF BootTypeOK
<1>9. \A k \in 1 .. 3 : k < script'[c] \/ label = "bridge" => Migrations[k] \in applied'
  <2>1. \A k \in 1 .. 3 : k < script[c] => Migrations[k] \in applied
    BY <1>1, <1>2 DEF BuilderOK
  <2>2. CASE label = "bridge"
    <3>1. \A k \in 1 .. 3 : k < script[c] \/ k = script[c]
      BY <1>3, <2>2
    <3> QED
      BY <1>4, <2>1, <3>1
  <2>3. CASE label = "migrate"
    <3>1. \A k \in 1 .. 3 : k < script'[c] => k < script[c] \/ k = script[c]
      BY <1>1, <1>3, <1>5, <2>3 DEF BootTypeOK
    <3> QED
      BY <1>4, <2>1, <2>3, <3>1
  <2> QED
    BY <2>2, <2>3
<1>10. BuilderOK(c)' /\ CallOK(c)'
    BY <1>1, <1>2, <1>3, <1>4, <1>9 DEF BootTypeOK, BuilderOK, CallOK, Building
<1>11. \A p \in pools' : PoolOK(p)'
    BY <1>1, <1>3, <1>4 DEF BootInv, BootTypeOK, PoolOK
<1>12. EngineOK'
    BY <1>1, <1>4 DEF EngineOK
<1>13. PoolsPaid'
    BY <1>2, <1>3, <1>4, NoneAbandoned DEF Waiting, Building
<1> QED
    BY <1>7, <1>8, <1>10, <1>11, <1>12, <1>13 DEF BootInv

LEMMA StartBridgeInv ==
    ASSUME BootInv, NEW c \in Calls, StartBridge(c)
    PROVE  BootInv'
<1>1. BootTypeOK /\ EngineOK /\ BuilderOK(c) /\ CallOK(c)
    BY DEF BootInv
<1>2. bpc[c] = "bridge" /\ holder = c /\ engine = NoCall /\ c # NoCall
    BY <1>1, CallAssumption DEF StartBridge, BuilderOK, Building
<1>3. /\ bpc' = [bpc EXCEPT ![c] = "done"] /\ got' = [got EXCEPT ![c] = c]
      /\ holder' = NoCall /\ engine' = c /\ notifyEngine' = c
      /\ UNCHANGED <<asked, pools, script, applied, faults>>
    BY <1>2 DEF StartBridge, Answer, Goto, Release
<1>4. expiry' = {c} /\ listeners' \subseteq {c}
    BY <1>1, <1>2 DEF StartBridge, EngineOK
<1>5. applied = Files
    BY <1>1, <1>2, ThreeFiles DEF BuilderOK, BootTypeOK
<1>6. BootTypeOK'
    BY <1>1, <1>3, <1>4 DEF BootTypeOK, OptCall
<1>7. EngineOK'
    BY <1>2, <1>3, <1>4, <1>5 DEF EngineOK
<1>8. ASSUME NEW d \in Calls PROVE BuilderOK(d)' /\ CallOK(d)'
  <2>1. BuilderOK(d) /\ CallOK(d)
    BY DEF BootInv
  <2> QED
    BY <1>1, <1>2, <1>3, <2>1, CallAssumption DEF BootTypeOK, BuilderOK, CallOK, Building
<1>9. \A p \in pools' : PoolOK(p)'
    BY <1>1, <1>2, <1>3, CallAssumption DEF BootInv, BootTypeOK, PoolOK
<1>10. PoolsPaid'
    BY <1>2, <1>3, NoneAbandoned DEF Waiting, Building
<1> QED
    BY <1>6, <1>7, <1>8, <1>9, <1>10 DEF BootInv

(* A call that ends without an engine leaves its pool and frees the lock.     *)
LEMMA BreaksInv ==
    ASSUME BootInv, NEW c \in Calls, Breaks(c)
    PROVE  BootInv'
<1>1. BootTypeOK /\ EngineOK /\ BuilderOK(c) /\ CallOK(c)
    BY DEF BootInv
<1>2. PICK label \in {"raised", "cancelled"} : bpc' = [bpc EXCEPT ![c] = label]
    BY DEF Breaks, Fails, MigrateReplyLost, Cancel, Goto
<1>3. /\ holder' = IF holder = c THEN NoCall ELSE holder
      /\ UNCHANGED <<asked, got, engine, notifyEngine, pools, expiry, listeners, script>>
      /\ bpc[c] \in Waiting
    BY DEF Breaks, Fails, MigrateReplyLost, Cancel, Release, Waiting, Building
<1>4. applied \subseteq applied' /\ applied' \subseteq Files
  <2>1. Migrations[script[c]] \in Files /\ applied \subseteq Files
    BY <1>1 DEF BootTypeOK, Files
  <2> QED
    BY <2>1 DEF Breaks, Fails, MigrateReplyLost, Cancel
<1>5. faults' \in 0 .. MaxFaults
    BY <1>1, FaultAssumption DEF Breaks, Fails, MigrateReplyLost, Cancel, Fault, BootTypeOK
<1>6. BootTypeOK'
    BY <1>1, <1>2, <1>3, <1>4, <1>5 DEF BootTypeOK, OptCall
<1>7. \A d \in Calls \ {c} : BuilderOK(d)' /\ CallOK(d)'
    BY <1>2, <1>3, <1>4, <1>1, OthersKeep DEF BootTypeOK
<1>8. BuilderOK(c)' /\ CallOK(c)'
    BY <1>1, <1>2, <1>3, CallAssumption DEF BootTypeOK, BuilderOK, CallOK, Building
<1>9. \A p \in pools' : PoolOK(p)'
    BY <1>1, <1>2, <1>3 DEF BootInv, BootTypeOK, PoolOK
<1>10. EngineOK'
    BY <1>1, <1>3, <1>4 DEF EngineOK
<1> QED
    BY <1>6, <1>7, <1>8, <1>9, <1>10, OneAbandoned DEF BootInv

LEMMA CrashInv ==
    ASSUME BootInv, Crash
    PROVE  BootInv'
<1>1. BootTypeOK'
    BY FaultAssumption DEF BootInv, Crash, Fault, BootTypeOK, OptCall, Waiting, Building
<1>2. \A c \in Calls : BuilderOK(c)' /\ CallOK(c)'
    BY CallAssumption DEF Crash, BuilderOK, CallOK, Building, BootInv, BootTypeOK
<1>3. PoolsPaid'
  <2>1. pools' = {} /\ Abandoned' = {}
    BY DEF Crash, Abandoned
  <2>2. faults' >= 0
    BY <1>1 DEF BootTypeOK
  <2> QED
    BY <2>1, <2>2, FS_EmptySet DEF PoolsPaid
<1> QED
    BY <1>1, <1>2, <1>3 DEF Crash, BootInv, EngineOK

LEMMA BootStep == BootInv /\ [Next]_vars => BootInv'
<1> SUFFICES ASSUME BootInv, [Next]_vars PROVE BootInv'
    OBVIOUS
<1>1. CASE UNCHANGED vars
    BY <1>1 DEF vars, processVars, BootInv, BootTypeOK, EngineOK, BuilderOK, CallOK, PoolOK,
                PoolsPaid, Abandoned
<1>2. CASE Next
    BY <1>2, EnterInv, AcquireInv, CreatePoolInv, MigrateInv, StartBridgeInv, BreaksInv, CrashInv
       DEF Next, Proceeds
<1> QED
    BY <1>1, <1>2

LEMMA BootInvariance == Spec => []BootInv
BY BootInit, BootStep, PTL DEF Spec

-----------------------------------------------------------------------------
(* Every variable stays within its type.                                      *)
THEOREM BootTypes == Spec => []BootTypeOK
<1>1. BootInv => BootTypeOK
    BY DEF BootInv
<1> QED
    BY <1>1, BootInvariance, PTL

(* One engine and one expiry task, however the first calls race and fail.     *)
THEOREM SingleEngine == Spec => []OneEngine
<1>1. BootInv => OneEngine
    BY DEF BootInv, EngineOK, CallOK, OneEngine
<1> QED
    BY <1>1, BootInvariance, PTL

(* Nobody is given an engine before its tables are there.                     *)
THEOREM SchemaFirst == Spec => []SchemaReady
<1>1. BootInv => SchemaReady
    BY DEF BootInv, EngineOK, CallOK, SchemaReady
<1> QED
    BY <1>1, BootInvariance, PTL

(* What pools are open beside the engine's, or that of the one call building, *)
(* is paid for by failures, each by one of its own.                           *)
THEOREM PoolsPaidFor == Spec => []PoolsBounded
<1>1. BootInv => PoolsBounded
  <2> SUFFICES ASSUME BootInv PROVE Cardinality(pools) <= 1 + faults
    BY DEF PoolsBounded
  <2>0. BootTypeOK /\ EngineOK /\ PoolsPaid /\ (\A p \in pools : BuilderOK(p) /\ PoolOK(p))
    BY DEF BootInv, BootTypeOK
  <2>1. PICK x : \A p \in pools \ Abandoned : p = x
    <3>1. ASSUME NEW p \in pools \ Abandoned
          PROVE  \/ p = engine /\ engine # NoCall
                 \/ p = holder /\ engine = NoCall
      BY <2>0, CallAssumption DEF Abandoned, BuilderOK, PoolOK, Building, BootTypeOK
    <3> QED
      BY <3>1
  <2>2. pools \subseteq Abandoned \cup {x}
    BY <2>1
  <2>3. IsFiniteSet(Abandoned) /\ Cardinality(Abandoned) \in Nat
    <3>1. Abandoned \subseteq pools
      BY DEF Abandoned
    <3> QED
      BY <2>0, <3>1, FS_Subset, FS_CardinalityType DEF PoolsPaid
  <2>4. /\ IsFiniteSet(Abandoned \cup {x})
        /\ Cardinality(Abandoned \cup {x}) \in Nat
        /\ Cardinality(Abandoned \cup {x}) <= Cardinality(Abandoned) + 1
    BY <2>3, FS_AddElement, FS_CardinalityType
  <2>5. Cardinality(pools) \in Nat /\ Cardinality(pools) <= Cardinality(Abandoned \cup {x})
    BY <2>2, <2>4, FS_Subset, FS_CardinalityType
  <2> QED
    BY <2>0, <2>3, <2>4, <2>5, FaultAssumption DEF PoolsPaid, BootTypeOK
<1> QED
    BY <1>1, BootInvariance, PTL

(* The notify engine is there whenever the hub is.                            *)
THEOREM NotifyTogether == Spec => []NotifyReady
<1>1. BootInv => NotifyReady
    BY DEF BootInv, CallOK, NotifyReady
<1> QED
    BY <1>1, BootInvariance, PTL

(* The engine is never replaced.                                              *)
THEOREM EngineNotReplaced == Spec => EngineStays
<1>1. BootInv /\ [Next]_vars => [engine # NoCall => engine' \in {engine, NoCall}]_vars
  <2> SUFFICES ASSUME BootInv, Next, engine # NoCall PROVE engine' \in {engine, NoCall}
    OBVIOUS
  <2>1. \A c \in Calls : bpc[c] # "bridge"
    BY DEF BootInv, BuilderOK, Building
  <2> QED
    BY <2>1 DEF Next, Proceeds, Breaks, Enter, Acquire, CreatePool, Migrate, StartBridge, Fails,
                MigrateReplyLost, Cancel, Crash, processVars
<1> QED
    BY <1>1, BootInvariance, PTL DEF Spec, EngineStays

-----------------------------------------------------------------------------
(* The steps of Singleton, with the mapping put in.                           *)
Ready == applied = Files
Replies == [c \in Calls |-> Seen(c)]
Gifts == [c \in Calls |-> Given(c)]
SingletonStep == ASingleton!Next \/ UNCHANGED <<Ready, engine, expiry, Replies, Gifts>>

LEMMA SingletonInit == Init => ASingleton!Init
<1> SUFFICES ASSUME Init PROVE ASingleton!Init
    OBVIOUS
<1>1. Replies = [c \in Calls |-> "idle"] /\ Gifts = [c \in Calls |-> NoCall]
    BY DEF Init, Replies, Gifts, Seen, Given
<1>2. (applied = Files) = FALSE
    BY ThreeFiles DEF Init
<1> QED
    BY <1>1, <1>2 DEF Init, ASingleton!Init, Replies, Gifts

(* What the step of one call shows to its callers.                            *)
LEMMA OneReply ==
    ASSUME BootInv, NEW c \in Calls, NEW label, bpc' = [bpc EXCEPT ![c] = label],
           \A d \in Calls \ {c} : got'[d] = got[d]
    PROVE  /\ Replies' = [Replies EXCEPT ![c] = Seen(c)']
           /\ Gifts' = [Gifts EXCEPT ![c] = Given(c)']
           /\ Replies[c] = Seen(c) /\ Gifts[c] = Given(c)
<1>1. ASSUME NEW d \in Calls \ {c} PROVE Seen(d)' = Seen(d) /\ Given(d)' = Given(d)
    BY DEF BootInv, BootTypeOK, Seen, Given
<1> QED
    BY <1>1 DEF Replies, Gifts

LEMMA SilentReply ==
    ASSUME BootInv, NEW c \in Calls, bpc[c] \in Waiting, NEW label \in Waiting,
           bpc' = [bpc EXCEPT ![c] = label], UNCHANGED got
    PROVE  Replies' = Replies /\ Gifts' = Gifts
<1>1. ASSUME NEW d \in Calls PROVE Seen(d)' = Seen(d) /\ Given(d)' = Given(d)
    BY DEF BootInv, BootTypeOK, Seen, Given, Waiting, Building
<1> QED
    BY <1>1 DEF Replies, Gifts

(* A call that ends without an engine.                                        *)
LEMMA FailedReply ==
    ASSUME BootInv, NEW c \in Calls, bpc[c] \in Waiting, NEW label \in {"raised", "cancelled"},
           bpc' = [bpc EXCEPT ![c] = label], UNCHANGED got
    PROVE  /\ Replies[c] = "waiting"
           /\ Replies' = [Replies EXCEPT ![c] = "failed"] /\ Gifts' = Gifts
<1>1. /\ Seen(c) = "waiting" /\ Seen(c)' = "failed"
      /\ Given(c) = NoCall /\ Given(c)' = NoCall
    BY DEF BootInv, BootTypeOK, Seen, Given, Waiting, Building
<1>2. Gifts' = [Gifts EXCEPT ![c] = Gifts[c]]
    BY <1>1, OneReply
<1>3. Gifts' = Gifts
    BY <1>2 DEF Gifts
<1> QED
    BY <1>1, <1>3, OneReply

(* A call is given an engine.                                                 *)
LEMMA GivenReply ==
    ASSUME BootInv, NEW c \in Calls, bpc[c] \in Waiting \cup {"idle"}, NEW e,
           bpc' = [bpc EXCEPT ![c] = "done"], got' = [got EXCEPT ![c] = e]
    PROVE  /\ Replies[c] = IF bpc[c] = "idle" THEN "idle" ELSE "waiting"
           /\ ASingleton!Give(c, e)
<1>1. Seen(c)' = "given" /\ Given(c)' = e
    BY DEF BootInv, BootTypeOK, Seen, Given, Waiting, Building
<1>2. Seen(c) = IF bpc[c] = "idle" THEN "idle" ELSE "waiting"
    BY DEF Seen, Waiting, Building
<1>3. /\ Replies' = [Replies EXCEPT ![c] = "given"] /\ Gifts' = [Gifts EXCEPT ![c] = e]
      /\ Replies[c] = Seen(c)
    BY <1>1, OneReply DEF BootInv, BootTypeOK
<1> QED
    BY <1>2, <1>3 DEF ASingleton!Give, ASingleton!Reply, Replies, Gifts

(* A call finds the engine.                                                   *)
LEMMA GetStep ==
    ASSUME BootInv, NEW c \in Calls, bpc[c] \in {"idle", "lock"}, engine # NoCall,
           bpc' = [bpc EXCEPT ![c] = "done"], got' = [got EXCEPT ![c] = engine],
           UNCHANGED <<applied, engine, expiry>>
    PROVE  SingletonStep
<1>1. Replies[c] \in {"idle", "waiting"} /\ ASingleton!Give(c, engine)
    BY GivenReply DEF Waiting
<1>2. (applied' = Files') = (applied = Files)
    BY DEF Files, Migrations
<1>3. ASingleton!Get(c)
    BY <1>1, <1>2 DEF ASingleton!Get, Replies
<1> QED
    BY <1>3 DEF ASingleton!Next, SingletonStep

LEMMA EnterStep ==
    ASSUME BootInv, NEW c \in Calls, NEW kind \in {"hub", "notify"}, Enter(c, kind)
    PROVE  SingletonStep
<1>1. CASE engine # NoCall
  <2>1. bpc' = [bpc EXCEPT ![c] = "done"] /\ got' = [got EXCEPT ![c] = engine]
    BY <1>1 DEF Enter, Answer, Goto, EngineOK, BootInv
  <2> QED
    BY <1>1, <2>1, GetStep DEF Enter
<1>2. CASE engine = NoCall
  <2>1. PICK label \in {"pool", "lock"} : bpc' = [bpc EXCEPT ![c] = label]
    BY <1>2 DEF Enter, Goto
  <2>2. /\ Seen(c)' = "waiting" /\ Seen(c) = "idle"
        /\ Given(c) = NoCall /\ Given(c)' = NoCall
    BY <2>1 DEF Enter, BootInv, BootTypeOK, Seen, Given, Waiting, Building
  <2>3. /\ Replies' = [Replies EXCEPT ![c] = "waiting"] /\ Replies[c] = "idle"
        /\ Gifts' = [Gifts EXCEPT ![c] = Gifts[c]]
    BY <1>2, <2>1, <2>2, OneReply DEF Enter
  <2>4. Gifts' = Gifts
    BY <2>3 DEF Gifts
  <2>5. (applied' = Files') = (applied = Files)
    BY <1>2 DEF Enter, Files, Migrations
  <2>6. ASingleton!Ask(c)
    BY <1>2, <2>3, <2>4, <2>5 DEF Enter, ASingleton!Ask, ASingleton!Reply, Replies, Gifts
  <2> QED
    BY <2>6 DEF ASingleton!Next, SingletonStep
<1> QED
    BY <1>1, <1>2

LEMMA AcquireStep ==
    ASSUME BootInv, NEW c \in Calls, Acquire(c)
    PROVE  SingletonStep
<1>1. CASE engine # NoCall
  <2>1. bpc' = [bpc EXCEPT ![c] = "done"] /\ got' = [got EXCEPT ![c] = engine]
    BY <1>1 DEF Acquire, Answer, Goto, EngineOK, BootInv
  <2> QED
    BY <1>1, <2>1, GetStep DEF Acquire
<1>2. CASE engine = NoCall
  <2>1. UNCHANGED <<Replies, Gifts>>
    BY <1>2, SilentReply DEF Acquire, Goto, Waiting, Building
  <2> QED
    BY <1>2, <2>1 DEF Acquire, SingletonStep, Ready, Files, Migrations
<1> QED
    BY <1>1, <1>2

LEMMA CreatePoolStep ==
    ASSUME BootInv, NEW c \in Calls, CreatePool(c)
    PROVE  SingletonStep
<1>1. UNCHANGED <<Replies, Gifts>>
    BY SilentReply DEF CreatePool, Goto, Waiting, Building
<1> QED
    BY <1>1 DEF CreatePool, SingletonStep, Ready, Files, Migrations

(* The file that completes the schema, whatever becomes of the call.          *)
LEMMA SchemaStep ==
    ASSUME BootInv, NEW c \in Calls, bpc[c] = "migrate",
           applied \subseteq applied', applied' \subseteq Files,
           UNCHANGED <<engine, expiry, Gifts>>,
           Replies' = Replies \/ Replies' = [Replies EXCEPT ![c] = "failed"]
    PROVE  SingletonStep
<1>1. Replies[c] = "waiting" /\ engine = NoCall
    BY DEF Replies, Seen, Waiting, Building, BootInv, BuilderOK
<1>2. CASE (applied' = Files') = (applied = Files)
  <2>1. ASSUME Replies' = [Replies EXCEPT ![c] = "failed"] PROVE ASingleton!Next
    <3>1. ASingleton!Fail(c)
      BY <1>1, <1>2, <2>1 DEF ASingleton!Fail, ASingleton!Reply, Replies, Gifts
    <3> QED
      BY <3>1 DEF ASingleton!Next
  <2> QED
    BY <1>2, <2>1 DEF SingletonStep, Ready
<1>3. CASE (applied' = Files') # (applied = Files)
  <2>1. applied # Files /\ applied' = Files'
    BY <1>3 DEF Files, Migrations
  <2>2. ASingleton!Prepare(c)
    BY <1>1, <2>1 DEF ASingleton!Prepare, ASingleton!Reply, Replies, Gifts
  <2> QED
    BY <2>2 DEF ASingleton!Next, SingletonStep
<1> QED
    BY <1>2, <1>3

LEMMA MigrateStep ==
    ASSUME BootInv, NEW c \in Calls, Migrate(c)
    PROVE  SingletonStep
<1>1. bpc[c] = "migrate" /\ UNCHANGED <<got, engine, expiry>>
    BY DEF Migrate, processVars
<1>2. applied \subseteq applied' /\ applied' \subseteq Files
    BY DEF Migrate, BootInv, BootTypeOK, Files
<1>3. PICK label \in {"migrate", "bridge"} : bpc' = [bpc EXCEPT ![c] = label]
    BY <1>1 DEF Migrate, NextScript, Goto, BootInv, BootTypeOK
<1>4. UNCHANGED <<Replies, Gifts>>
    BY <1>1, <1>3, SilentReply DEF Waiting, Building
<1> QED
    BY <1>1, <1>2, <1>4, SchemaStep

LEMMA CreateStep ==
    ASSUME BootInv, NEW c \in Calls, StartBridge(c)
    PROVE  SingletonStep
<1>1. BootTypeOK /\ EngineOK /\ BuilderOK(c) /\ c # NoCall
    BY CallAssumption DEF BootInv
<1>2. bpc[c] = "bridge" /\ engine = NoCall /\ applied = Files
    BY <1>1, ThreeFiles DEF StartBridge, BuilderOK, Building, BootTypeOK
<1>3. /\ bpc' = [bpc EXCEPT ![c] = "done"] /\ got' = [got EXCEPT ![c] = c]
      /\ engine' = c /\ expiry' = expiry \cup {c} /\ applied' = applied
    BY <1>1 DEF StartBridge, Answer, Goto
<1>4. Replies[c] = "waiting" /\ ASingleton!Give(c, c)
    BY <1>2, <1>3, GivenReply DEF Waiting, Building
<1>5. (applied' = Files') = (applied = Files)
    BY <1>3 DEF Files, Migrations
<1>6. ASingleton!Create(c)
    BY <1>2, <1>3, <1>4, <1>5 DEF ASingleton!Create, Replies
<1> QED
    BY <1>6 DEF ASingleton!Next, SingletonStep

LEMMA BreaksStep ==
    ASSUME BootInv, NEW c \in Calls, Breaks(c)
    PROVE  SingletonStep
<1>1. PICK label \in {"raised", "cancelled"} : bpc' = [bpc EXCEPT ![c] = label]
    BY DEF Breaks, Fails, MigrateReplyLost, Cancel, Goto
<1>2. UNCHANGED <<got, engine, expiry>> /\ bpc[c] \in Waiting
    BY DEF Breaks, Fails, MigrateReplyLost, Cancel, Waiting, Building
<1>3. /\ Replies[c] = "waiting"
      /\ Replies' = [Replies EXCEPT ![c] = "failed"] /\ Gifts' = Gifts
    BY <1>1, <1>2, FailedReply
<1>4. CASE UNCHANGED applied
  <2>1. (applied' = Files') = (applied = Files)
    BY <1>4 DEF Files, Migrations
  <2>2. ASingleton!Fail(c)
    BY <1>2, <1>3, <2>1 DEF ASingleton!Fail, ASingleton!Reply, Replies, Gifts
  <2> QED
    BY <2>2 DEF ASingleton!Next, SingletonStep
<1>5. CASE MigrateReplyLost(c)
  <2>1. applied \subseteq applied' /\ applied' \subseteq Files
    BY <1>5 DEF MigrateReplyLost, BootInv, BootTypeOK, Files
  <2> QED
    BY <1>2, <1>3, <1>5, <2>1, SchemaStep DEF MigrateReplyLost
<1> QED
    BY <1>4, <1>5 DEF Breaks, Fails, Cancel

LEMMA CrashStep ==
    ASSUME BootInv, Crash
    PROVE  SingletonStep
<1>1. ASSUME NEW c \in Calls
      PROVE  /\ Seen(c)' = IF Seen(c) = "idle" THEN "idle" ELSE "failed"
             /\ Given(c)' = NoCall
    BY DEF Crash, Seen, Given, Waiting, Building
<1>2. /\ Replies' = [c \in Calls |-> IF Replies[c] = "idle" THEN "idle" ELSE "failed"]
      /\ Gifts' = [c \in Calls |-> NoCall]
    BY <1>1 DEF Replies, Gifts
<1>3. (applied' = Files') = (applied = Files)
    BY DEF Crash, Files, Migrations
<1>4. ASingleton!Crash
    BY <1>2, <1>3 DEF Crash, ASingleton!Crash, Replies, Gifts
<1> QED
    BY <1>4 DEF ASingleton!Next, SingletonStep

LEMMA SingletonSteps == BootInv /\ [Next]_vars => SingletonStep
<1> SUFFICES ASSUME BootInv, [Next]_vars PROVE SingletonStep
    OBVIOUS
<1>1. CASE UNCHANGED vars
  <2>1. UNCHANGED <<bpc, got, engine, expiry, applied>>
    BY <1>1 DEF vars, processVars
  <2> QED
    BY <2>1 DEF SingletonStep, Ready, Replies, Gifts, Seen, Given, Files, Migrations
<1>2. CASE Next
    BY <1>2, EnterStep, AcquireStep, CreatePoolStep, MigrateStep, CreateStep, BreaksStep, CrashStep
       DEF Next, Proceeds
<1> QED
    BY <1>1, <1>2

(* The lock is never lost: whoever holds it is a call still building, however *)
(* earlier holders failed, were cancelled or died ("async with _lock").       *)
THEOREM LockHeldByBuilder ==
    Spec => [](holder # NoCall => holder \in Calls /\ bpc[holder] \in Building)
<1>1. BootInv => (holder # NoCall => holder \in Calls /\ bpc[holder] \in Building)
    BY DEF BootInv, BootTypeOK, BuilderOK, OptCall
<1> QED
    BY <1>1, BootInvariance, PTL

(* Callers see one engine, created at once on a complete schema, that stays   *)
(* for the life of the process.                                               *)
THEOREM SingletonRefinement == Spec => ImplementsSingleton
<1>1. BootInv /\ [Next]_vars => [ASingleton!Next]_(ASingleton!vars)
    BY SingletonSteps DEF SingletonStep, Ready, Replies, Gifts, ASingleton!vars
<1> QED
    BY <1>1, SingletonInit, BootInvariance, PTL
       DEF Spec, ImplementsSingleton, ASingleton!Spec
=============================================================================
