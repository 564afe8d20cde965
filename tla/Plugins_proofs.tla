---------------------------- MODULE Plugins_proofs ----------------------------
(* What goes through the registries, proved for any calls, requests, added    *)
(* module and import that fails.  The argument: a registry is a prefix of its *)
(* package, all of it if every import works, so a specific validator is found *)
(* wherever it stands; and the plugins that saw an event and those it has yet *)
(* to go through are together its chain.                                      *)
EXTENDS Plugins, SequenceTheorems, WellFoundedInduction, NaturalsInduction, TLAPS

PluginsTypeOK ==
    /\ files \in [Packages -> Seq(Names)]
    /\ plugins \in [Packages -> Seq(Names)]
    /\ booted \in BOOLEAN
    /\ ask \in [Calls -> Asks \cup {NoAsk}]
    /\ stage \in [Calls -> {"idle", "refused", "created", "resolved"}]
    /\ left \in [Calls \X Transitions -> Seq(Names)]
    /\ memorium \subseteq Calls

(* Whatever was added, the modules the hub ships are there; the registries    *)
(* are loaded once, before the first request.                                 *)
BootInv ==
    /\ \A pkg \in Packages : \A k \in DOMAIN Shipped[pkg] : Shipped[pkg][k] \in Modules(pkg)
    /\ booted => \A pkg \in Packages : plugins[pkg] = Discovered(pkg)
    /\ \A c \in Calls : stage[c] # "idle" => booted

(* Between a transition and the end of its chain every plugin of the chain    *)
(* has seen it or has yet to; before it there is nothing to go through.       *)
Had(c, t, p) == Seen(c, t, p) \in ran \/ p \in ToSet(left[<<c, t>>])

OnTheWay(c, t) == /\ Made(c, t) => \A p \in ToSet(Chain(t)) : Had(c, t, p)
                  /\ left[<<c, t>>] # <<>> => Made(c, t)

Complete(c) ==
    Working("validators") /\ stage[c] \in {"created", "resolved"} =>
        Required(Specific(ask[c].action), ask[c].action) \subseteq ask[c].fields

(* A resolved conflict was posted or has yet to come to ModelBookHook.        *)
ConflictOnTheWay(c) ==
    broken = {} /\ url /\ stage[c] = "resolved" /\ ask[c].action = "modelbook_conflict"
        => c \in posted \/ "modelbook" \in ToSet(left[<<c, "resolved">>])

HeardOK(c) == c \in memorium => stage[c] = "resolved" /\ ask[c].action = "modelbook_conflict"

CallOK(c) == /\ Complete(c) /\ ConflictOnTheWay(c) /\ HeardOK(c)
             /\ \A t \in Transitions : OnTheWay(c, t)

PluginsInv == PluginsTypeOK /\ BootInv /\ \A c \in Calls : CallOK(c)

-----------------------------------------------------------------------------
(* The library's Min and SelectInSeq.                                         *)
LEMMA MinIsLeast ==
    ASSUME NEW I \in SUBSET Nat, I # {}
    PROVE  Min(I) \in I /\ \A y \in I : Min(I) <= y
<1> DEFINE R == {ss \in Nat \X Nat : ss[1] < ss[2]}
<1>1. IsWellFoundedOn(R, Nat)
    BY NatLessThanWellFounded DEF OpToRel
<1>2. PICK x \in I : \A y \in I : ~(<<y, x>> \in R)
  <2> HIDE DEF R
  <2> QED
    BY <1>1, WFMin
<1>3. ASSUME NEW y \in I PROVE x <= y
  <2>1. x \in Nat /\ y \in Nat
    OBVIOUS
  <2>2. <<y, x>> \in R <=> y < x
    BY <2>1
  <2>3. ~(y < x)
    BY <1>2, <2>2
  <2> QED
    BY <2>1, <2>3
<1> QED
    BY <1>3 DEF Min

LEMMA InsertedSet ==
    ASSUME NEW S, NEW s \in Seq(S), NEW i \in 1 .. Len(s) + 1, NEW e \in S
    PROVE  /\ InsertAt(s, i, e) \in Seq(S)
           /\ \A k \in DOMAIN s : \E j \in DOMAIN InsertAt(s, i, e) : InsertAt(s, i, e)[j] = s[k]
<1> DEFINE a == SubSeq(s, 1, i - 1)
           b == SubSeq(s, i, Len(s))
<1>0. Len(s) \in Nat /\ i \in Nat /\ DOMAIN s = 1 .. Len(s)
    BY LenProperties
<1>1. /\ a \in Seq(S) /\ Len(a) = i - 1
      /\ \A k \in 1 .. i - 1 : a[k] = s[k]
    BY <1>0, SubSeqProperties
<1>2. /\ b \in Seq(S) /\ Len(b) = Len(s) - i + 1
      /\ \A k \in 1 .. Len(s) - i + 1 : b[k] = s[k + i - 1]
    BY <1>0, SubSeqProperties
<1> HIDE DEF a, b
<1>3. <<e>> \in Seq(S) /\ Len(<<e>>) = 1
    OBVIOUS
<1> DEFINE ae == a \o <<e>>
<1>4. /\ ae \in Seq(S) /\ Len(ae) = i
      /\ \A k \in 1 .. i - 1 : ae[k] = a[k]
  <2>1. ae \in Seq(S) /\ Len(ae) = Len(a) + Len(<<e>>)
    BY <1>1, <1>3, ConcatProperties
  <2>2. \A k \in 1 .. Len(a) + Len(<<e>>) :
            ae[k] = IF k <= Len(a) THEN a[k] ELSE <<e>>[k - Len(a)]
    BY <1>1, <1>3, ConcatProperties
  <2> HIDE DEF ae
  <2> QED
    BY <1>0, <1>1, <1>3, <2>1, <2>2
<1> HIDE DEF ae
<1>5. /\ ae \o b \in Seq(S) /\ Len(ae \o b) = Len(s) + 1
      /\ \A k \in 1 .. i : (ae \o b)[k] = ae[k]
      /\ \A k \in i + 1 .. Len(s) + 1 : (ae \o b)[k] = b[k - i]
  <2>1. ae \o b \in Seq(S) /\ Len(ae \o b) = Len(ae) + Len(b)
    BY <1>2, <1>4, ConcatProperties
  <2>2. \A k \in 1 .. Len(ae) + Len(b) :
            (ae \o b)[k] = IF k <= Len(ae) THEN ae[k] ELSE b[k - Len(ae)]
    BY <1>2, <1>4, ConcatProperties
  <2>3. Len(ae) + Len(b) = Len(s) + 1
    BY <1>0, <1>2, <1>4
  <2> DEFINE u == ae \o b
  <2> HIDE DEF u
  <2>4. \A k \in 1 .. i : u[k] = ae[k]
    BY <1>0, <1>4, <2>2, <2>3 DEF u
  <2>5. \A k \in i + 1 .. Len(s) + 1 : u[k] = b[k - i]
    BY <1>0, <1>4, <2>2, <2>3 DEF u
  <2> QED
    BY <2>1, <2>3, <2>4, <2>5 DEF u
<1> DEFINE u == ae \o b
<1> HIDE DEF u
<1>6. u \in Seq(S) /\ Len(u) = Len(s) + 1 /\ DOMAIN u = 1 .. Len(s) + 1
    BY <1>5, LenProperties DEF u
<1>61. /\ \A k \in 1 .. i : u[k] = ae[k]
       /\ \A k \in i + 1 .. Len(s) + 1 : u[k] = b[k - i]
    BY <1>5 DEF u
<1>7. ASSUME NEW k \in DOMAIN s PROVE \E j \in DOMAIN u : u[j] = s[k]
  <2>0. k \in 1 .. Len(s)
    BY <1>0
  <2>1. CASE k < i
    <3>1. k \in 1 .. i - 1 /\ k \in 1 .. i /\ k \in 1 .. Len(s) + 1
      BY <1>0, <2>0, <2>1
    <3>2. u[k] = s[k]
      BY <1>1, <1>4, <1>61, <3>1
    <3> QED
      BY <1>6, <3>1, <3>2
  <2>2. CASE k >= i
    <3>1. k + 1 \in i + 1 .. Len(s) + 1 /\ k + 1 \in 1 .. Len(s) + 1
      BY <1>0, <2>0, <2>2
    <3>2. k + 1 - i \in 1 .. Len(s) - i + 1 /\ (k + 1 - i) + i - 1 = k
      BY <1>0, <2>0, <2>2
    <3>3. u[k + 1] = b[k + 1 - i]
      BY <1>61, <3>1
    <3>4. b[k + 1 - i] = s[k]
      BY <1>2, <3>2
    <3> QED
      BY <1>6, <3>1, <3>3, <3>4
  <2> QED
    BY <1>0, <2>0, <2>1, <2>2
<1>8. InsertAt(s, i, e) = u
    BY DEF InsertAt, a, ae, b, u
<1> QED
    BY <1>6, <1>7, <1>8

(* _discover loads a prefix of the package, up to the first broken module.    *)
LEMMA DiscoveredPrefix ==
    ASSUME PluginsTypeOK, NEW pkg \in Packages
    PROVE  /\ Discovered(pkg) \in Seq(Names)
           /\ Working(pkg) => Discovered(pkg) = files[pkg]
<1> DEFINE f == files[pkg]
           I == {i \in 1 .. Len(f) : <<pkg, f[i]>> \in broken}
           bad == SelectInSeq(f, LAMBDA m : <<pkg, m>> \in broken)
<1>0. f \in Seq(Names) /\ Len(f) \in Nat /\ DOMAIN f = 1 .. Len(f)
    BY LenProperties DEF PluginsTypeOK
<1>1. bad = IF I # {} THEN Min(I) ELSE 0
    BY DEF SelectInSeq
<1>2. I # {} => Min(I) \in 1 .. Len(f)
  <2>1. I \in SUBSET Nat /\ I \subseteq 1 .. Len(f)
    BY <1>0
  <2> HIDE DEF I
  <2> QED
    BY <2>1, MinIsLeast
<1>3. Discovered(pkg) = IF bad = 0 THEN f ELSE SubSeq(f, 1, bad - 1)
    BY DEF Discovered
<1> HIDE DEF bad
<1>4. Working(pkg) => I = {}
    BY <1>0 DEF Working, Modules
<1> HIDE DEF I
<1>5. Working(pkg) => Discovered(pkg) = f
    BY <1>1, <1>3, <1>4
<1>6. CASE bad = 0
    BY <1>0, <1>3, <1>5, <1>6
<1>7. CASE bad # 0
  <2>1. bad \in 1 .. Len(f)
    BY <1>1, <1>2, <1>7
  <2>2. SubSeq(f, 1, bad - 1) \in Seq(Names)
    BY <1>0, <2>1, SubSeqProperties
  <2> QED
    BY <1>3, <1>5, <1>7, <2>2
<1> QED
    BY <1>6, <1>7

(* get_validator finds the specific validator if the registry holds it,       *)
(* before the fallback or behind it.                                          *)
LEMMA SpecificFound ==
    ASSUME plugins.validators \in Seq(Names), NEW action,
           Specific(action) \in ToSet(plugins.validators), Specific(action) # "default"
    PROVE  GetValidator(action) = Specific(action)
<1> DEFINE vs == plugins.validators
           I == {i \in 1 .. Len(vs) : vs[i] # "default" /\ Accepts(vs[i], action)}
           found == FirstThat(LAMBDA v : v # "default" /\ Accepts(v, action))
<1>0. Len(vs) \in Nat /\ DOMAIN vs = 1 .. Len(vs)
    BY LenProperties
<1>1. SelectInSeq(vs, LAMBDA v : v # "default" /\ Accepts(v, action))
        = IF I # {} THEN Min(I) ELSE 0
    BY DEF SelectInSeq
<1>2. found = LET k == SelectInSeq(vs, LAMBDA v : v # "default" /\ Accepts(v, action))
              IN  IF k = 0 THEN NoPlugin ELSE vs[k]
    BY DEF FirstThat
<1>3. I # {}
    BY <1>0 DEF ToSet, Accepts
<1>4. Min(I) \in I
  <2>1. I \in SUBSET Nat
    BY <1>0
  <2> HIDE DEF I
  <2> QED
    BY <1>3, <2>1, MinIsLeast
<1>5. Min(I) # 0 /\ vs[Min(I)] # "default" /\ Accepts(vs[Min(I)], action)
  <2> HIDE DEF found
  <2> QED
    BY <1>0, <1>4
<1>6. found = vs[Min(I)]
  <2> DEFINE k == SelectInSeq(vs, LAMBDA v : v # "default" /\ Accepts(v, action))
  <2>1. k = Min(I)
    BY <1>1, <1>3
  <2>2. found = IF k = 0 THEN NoPlugin ELSE vs[k]
    BY <1>2
  <2> HIDE DEF k, found, I
  <2> QED
    BY <1>5, <2>1, <2>2
<1>7. found = Specific(action) /\ found # NoPlugin
  <2>1. vs[Min(I)] \in Names
    BY <1>0, <1>4, ElementOfSeq
  <2> HIDE DEF found, I
  <2> QED
    BY <1>5, <1>6, <2>1, PluginAssumption DEF Accepts
<1>8. GetValidator(action) =
        LET specific == found
        IN  IF specific # NoPlugin THEN specific
            ELSE FirstThat(LAMBDA v : v = "default" /\ Accepts(v, action))
    BY DEF GetValidator
<1> HIDE DEF found
<1> QED
    BY <1>7, <1>8

-----------------------------------------------------------------------------
LEMMA NamesSeq ==
    ASSUME NEW S, NEW s \in Seq(S), \A k \in DOMAIN s : s[k] \in Names
    PROVE  s \in Seq(Names)
<1>1. Len(s) \in Nat /\ s \in [1 .. Len(s) -> Names]
    BY LenProperties
<1> QED
    BY <1>1, SeqDef

LEMMA ShippedNames == Added \in Names /\ \A pkg \in Packages : Shipped[pkg] \in Seq(Names)
<1>1. Added \in Names
    BY DEF Names
<1> DEFINE S == {"calendar", "default", "email", "modelbook_conflict", "recording",
                 "sensor_deploy", "audit", "cache", "expiry", "modelbook", "nostr", "sse",
                 "webpush", "whatsapp"}
<1>2. ASSUME NEW pkg \in Packages PROVE Shipped[pkg] \in Seq(S)
  <2>1. Shipped["validators"] \in Seq(S)
    BY DEF Shipped
  <2>2. Shipped["hooks"] \in Seq(S)
    BY DEF Shipped
  <2>3. Shipped["notifications"] \in Seq(S)
    BY DEF Shipped
  <2>4. Shipped["channels"] \in Seq(S)
    BY DEF Shipped
  <2> HIDE DEF S
  <2> QED
    BY <2>1, <2>2, <2>3, <2>4 DEF Packages
<1>3. ASSUME NEW pkg \in Packages PROVE \A k \in DOMAIN Shipped[pkg] : Shipped[pkg][k] \in Names
    BY <1>3 DEF Names, ToSet
<1> QED
    BY <1>1, <1>2, <1>3, NamesSeq

LEMMA ShippedType == Shipped \in [Packages -> Seq(Names)]
<1>1. Shipped = [pkg \in Packages |-> Shipped[pkg]]
    BY DEF Shipped, Packages
<1> QED
    BY <1>1, ShippedNames

(* Wherever a module was added to a package, the others are still there.      *)
LEMMA FilesInit ==
    ASSUME Init
    PROVE  /\ files \in [Packages -> Seq(Names)]
           /\ \A pkg \in Packages : \A k \in DOMAIN Shipped[pkg] :
                 Shipped[pkg][k] \in Modules(pkg)
<1>0. PICK p \in Packages : \E at \in 1 .. Len(Shipped[p]) + 1 :
          files = [Shipped EXCEPT ![p] = InsertAt(@, at, Added)]
    BY DEF Init
<1>1. PICK at \in 1 .. Len(Shipped[p]) + 1 :
          files = [Shipped EXCEPT ![p] = InsertAt(@, at, Added)]
    BY <1>0
<1>2. /\ InsertAt(Shipped[p], at, Added) \in Seq(Names)
      /\ \A k \in DOMAIN Shipped[p] :
            \E j \in DOMAIN InsertAt(Shipped[p], at, Added) :
                InsertAt(Shipped[p], at, Added)[j] = Shipped[p][k]
    BY ShippedNames, InsertedSet
<1>3. /\ files[p] = InsertAt(Shipped[p], at, Added)
      /\ \A pkg \in Packages \ {p} : files[pkg] = Shipped[pkg]
    BY <1>1, ShippedType
<1>4. files \in [Packages -> Seq(Names)]
    BY <1>1, <1>2, ShippedType
<1>5. ASSUME NEW pkg \in Packages, NEW k \in DOMAIN Shipped[pkg]
      PROVE  Shipped[pkg][k] \in Modules(pkg)
    BY <1>2, <1>3, <1>5 DEF Modules
<1> QED
    BY <1>4, <1>5

LEMMA PluginsInit == Init => PluginsInv
<1> SUFFICES ASSUME Init PROVE PluginsInv
    OBVIOUS
<1>1. PluginsTypeOK
  <2>1. <<>> \in Seq(Names)
    BY EmptySeq
  <2>2. plugins \in [Packages -> Seq(Names)] /\ left \in [Calls \X Transitions -> Seq(Names)]
    BY <2>1 DEF Init
  <2> QED
    BY <2>2, FilesInit DEF Init, PluginsTypeOK
<1>2. BootInv
    BY FilesInit DEF Init, BootInv
<1>3. ASSUME NEW c \in Calls, NEW t \in Transitions PROVE OnTheWay(c, t)
  <2>1. <<c, t>> \in Calls \X Transitions
    OBVIOUS
  <2> QED
    BY <2>1 DEF Init, OnTheWay, Made
<1>4. \A c \in Calls : CallOK(c)
    BY <1>3 DEF Init, CallOK, Complete, ConflictOnTheWay, HeardOK
<1> QED
    BY <1>1, <1>2, <1>4 DEF PluginsInv

-----------------------------------------------------------------------------
(* What is loaded if every import works.                                      *)
LEMMA AllLoaded ==
    ASSUME PluginsTypeOK, BootInv, booted, NEW pkg \in Packages, Working(pkg),
           NEW k \in DOMAIN Shipped[pkg]
    PROVE  Shipped[pkg][k] \in ToSet(plugins[pkg])
<1>1. plugins[pkg] = files[pkg]
    BY DiscoveredPrefix DEF BootInv
<1> QED
    BY <1>1 DEF BootInv, Modules, ToSet

LEMMA ModelBookLoaded ==
    ASSUME PluginsTypeOK, BootInv, booted, broken = {}
    PROVE  "modelbook" \in ToSet(plugins.hooks)
<1>1. "hooks" \in Packages /\ Working("hooks")
    BY DEF Packages, Working
<1>2. 4 \in DOMAIN Shipped["hooks"] /\ Shipped["hooks"][4] = "modelbook"
    BY DEF Shipped
<1> QED
    BY <1>1, <1>2, AllLoaded

(* A specific validator the hub ships is loaded; no other action has one.     *)
LEMMA SpecificLoaded ==
    ASSUME PluginsTypeOK, BootInv, booted, Working("validators"), NEW action
    PROVE  \/ Required(Specific(action), action) = {}
           \/ GetValidator(action) = Specific(action)
<1>0. "validators" \in Packages /\ plugins.validators \in Seq(Names)
    BY DEF PluginsTypeOK, Packages
<1>1. CASE Specific(action) = Added
    BY <1>1 DEF Required, Added
<1>2. CASE Specific(action) # Added
  <2>1. Specific(action) \in {"calendar", "email", "modelbook_conflict", "recording",
                              "sensor_deploy"}
    BY <1>2 DEF Specific
  <2>2. \E k \in DOMAIN Shipped["validators"] : Shipped["validators"][k] = Specific(action)
    <3>1. /\ {1, 3, 4, 5, 6} \subseteq DOMAIN Shipped["validators"]
          /\ Shipped["validators"][1] = "calendar" /\ Shipped["validators"][3] = "email"
          /\ Shipped["validators"][4] = "modelbook_conflict"
          /\ Shipped["validators"][5] = "recording"
          /\ Shipped["validators"][6] = "sensor_deploy"
      BY DEF Shipped
    <3> QED
      BY <2>1, <3>1
  <2>3. Specific(action) \in ToSet(plugins.validators)
    BY <1>0, <2>2, AllLoaded
  <2> QED
    BY <1>0, <2>1, <2>3, SpecificFound
<1> QED
    BY <1>1, <1>2

LEMMA SpecificNamed == \A action : Specific(action) # NoPlugin
<1> SUFFICES ASSUME NEW action PROVE Specific(action) \in Names
    BY PluginAssumption
<1>1. ASSUME NEW pkg \in Packages, NEW k \in DOMAIN Shipped[pkg] PROVE Shipped[pkg][k] \in Names
    BY DEF Names, ToSet
<1>2. /\ "validators" \in Packages /\ {1, 3, 4, 5, 6} \subseteq DOMAIN Shipped["validators"]
      /\ Shipped["validators"][1] = "calendar" /\ Shipped["validators"][3] = "email"
      /\ Shipped["validators"][4] = "modelbook_conflict"
      /\ Shipped["validators"][5] = "recording"
      /\ Shipped["validators"][6] = "sensor_deploy"
    BY DEF Shipped, Packages
<1>3. {"calendar", "email", "modelbook_conflict", "recording", "sensor_deploy"} \subseteq Names
    BY <1>1, <1>2
<1> QED
    BY <1>3, ShippedNames DEF Specific

-----------------------------------------------------------------------------
(* The steps.                                                                 *)
LEMMA DiscoverStep == PluginsInv /\ Discover => PluginsInv'
<1> SUFFICES ASSUME PluginsInv, Discover PROVE PluginsInv'
    OBVIOUS
<1>0. /\ UNCHANGED <<files, broken, url, ask, stage, left, ran, posted, memorium>>
      /\ booted' = TRUE /\ ~booted /\ PluginsTypeOK /\ BootInv
    BY DEF Discover, PluginsInv
<1>1. \A c \in Calls : stage[c] = "idle" /\ CallOK(c)
    BY <1>0 DEF BootInv, PluginsInv
<1>2. /\ plugins' \in [Packages -> Seq(Names)]
      /\ \A pkg \in Packages : plugins'[pkg] = Discovered(pkg)
  <2>1. plugins' = [pkg \in Packages |-> Discovered(pkg)]
    BY DEF Discover, LoadHooks, LoadNotifiers, LoadChannels, Packages
  <2> QED
    BY <1>0, <2>1, DiscoveredPrefix
<1>3. \A pkg \in Packages : Discovered(pkg)' = Discovered(pkg)
    BY <1>0 DEF Discovered, SelectInSeq
<1>4. PluginsTypeOK'
    BY <1>0, <1>2 DEF PluginsTypeOK
<1>5. BootInv'
    BY <1>0, <1>2, <1>3 DEF BootInv, Modules
<1>6. \A c \in Calls : CallOK(c)'
  <2> SUFFICES ASSUME NEW c \in Calls PROVE CallOK(c)'
    OBVIOUS
  <2>1. ASSUME NEW t \in Transitions PROVE OnTheWay(c, t)'
    BY <1>0, <1>1 DEF CallOK, OnTheWay, Made
  <2> QED
    BY <1>0, <1>1, <2>1 DEF CallOK, Complete, ConflictOnTheWay, HeardOK
<1> QED
    BY <1>4, <1>5, <1>6 DEF PluginsInv

(* A step of a call loads nothing.                                            *)
LEMMA BootStays ==
    ASSUME PluginsInv, UNCHANGED bootVars, \A c \in Calls : stage'[c] # "idle" => booted
    PROVE  BootInv'
<1>1. \A pkg \in Packages : Discovered(pkg)' = Discovered(pkg)
    BY DEF Discovered, SelectInSeq, bootVars
<1> QED
    BY <1>1 DEF PluginsInv, BootInv, Modules, bootVars

(* What a step that leaves one chain alone keeps of it.                       *)
LEMMA ChainKept ==
    ASSUME NEW c \in Calls, NEW t \in Transitions, OnTheWay(c, t), UNCHANGED bootVars,
           stage'[c] = stage[c] \/ (Made(c, t) /\ Made(c, t)'),
           left'[<<c, t>>] = left[<<c, t>>], ran \subseteq ran'
    PROVE  OnTheWay(c, t)'
<1>1. Made(c, t)' = Made(c, t)
    BY DEF Made
<1>2. Chain(t)' = Chain(t)
    BY DEF Chain, bootVars
<1> QED
    BY <1>1, <1>2 DEF OnTheWay, Had, Seen

(* What a step leaves alone of the other calls.                               *)
LEMMA OthersStay ==
    ASSUME PluginsInv, NEW d \in Calls, UNCHANGED bootVars,
           stage'[d] = stage[d], ask'[d] = ask[d],
           \A t \in Transitions : left'[<<d, t>>] = left[<<d, t>>],
           ran \subseteq ran', posted \subseteq posted', d \in memorium' => d \in memorium
    PROVE  CallOK(d)'
<1>0. CallOK(d) /\ UNCHANGED <<files, broken, url>>
    BY DEF PluginsInv, bootVars
<1>1. \A t \in Transitions : OnTheWay(d, t)'
    BY <1>0, ChainKept DEF CallOK
<1>2. Complete(d)'
    BY <1>0 DEF CallOK, Complete, Working, Modules
<1>3. ConflictOnTheWay(d)'
  <2>1. left'[<<d, "resolved">>] = left[<<d, "resolved">>]
    BY DEF Transitions
  <2> QED
    BY <1>0, <2>1 DEF CallOK, ConflictOnTheWay
<1>4. HeardOK(d)'
    BY <1>0 DEF CallOK, HeardOK
<1> QED
    BY <1>1, <1>2, <1>3, <1>4 DEF CallOK

LEMMA ChainTypes == PluginsTypeOK => \A t : Chain(t) \in Seq(Names)
<1> SUFFICES ASSUME PluginsTypeOK, NEW t PROVE Chain(t) \in Seq(Names)
    OBVIOUS
<1>1. plugins.hooks \in Seq(Names) /\ plugins.notifications \in Seq(Names)
    BY DEF PluginsTypeOK, Packages
<1>2. plugins.hooks \o plugins.notifications \in Seq(Names)
    BY <1>1, ConcatProperties
<1> QED
    BY <1>1, <1>2 DEF Chain

LEMMA RequestStep ==
    ASSUME PluginsInv, NEW c \in Calls, NEW in \in Asks, Request(c, in)
    PROVE  PluginsInv'
<1>0. /\ UNCHANGED <<bootVars, ran, posted, memorium>> /\ booted
      /\ stage[c] = "idle" /\ stage'[c] \in {"refused", "created"} /\ ask'[c] = in
      /\ \A d \in Calls \ {c} : stage'[d] = stage[d] /\ ask'[d] = ask[d]
      /\ PluginsTypeOK /\ BootInv /\ CallOK(c)
    BY DEF Request, PluginsInv, PluginsTypeOK
<1>1. UNCHANGED <<files, broken, plugins, booted, url>>
    BY <1>0 DEF bootVars
<1>2. /\ left' \in [Calls \X Transitions -> Seq(Names)]
      /\ \A d \in Calls, t \in Transitions :
            d # c \/ t # "created" => left'[<<d, t>>] = left[<<d, t>>]
      /\ stage'[c] = "created" => left'[<<c, "created">>] = Chain("created")
      /\ stage'[c] = "refused" => left' = left
  <2>1. left \in [Calls \X Transitions -> Seq(Names)] /\ Chain("created") \in Seq(Names)
    BY <1>0, ChainTypes DEF PluginsTypeOK
  <2>2. <<c, "created">> \in Calls \X Transitions
    BY DEF Transitions
  <2>3. \/ left' = left /\ stage'[c] = "refused"
        \/ /\ left' = [left EXCEPT ![<<c, "created">>] = Chain("created")]
           /\ stage'[c] = "created"
    BY <1>0 DEF Request, PluginsTypeOK
  <2> HIDE DEF Chain
  <2> QED
    BY <2>1, <2>2, <2>3
<1>3. PluginsTypeOK'
    BY <1>0, <1>1, <1>2 DEF Request, PluginsTypeOK
<1>4. BootInv'
    BY <1>0, BootStays
<1>5. \A d \in Calls \ {c} : CallOK(d)'
    BY <1>0, <1>2, OthersStay
<1>6. Complete(c)'
  <2> SUFFICES ASSUME Working("validators"), stage'[c] = "created"
               PROVE  Required(Specific(in.action), in.action) \subseteq in.fields
    BY <1>0, <1>1 DEF Complete, Working, Modules
  <2>1. Errors(GetValidator(in.action), in) = {}
    BY <1>0 DEF Request, PluginsTypeOK
  <2>2. CASE Required(Specific(in.action), in.action) = {}
    BY <2>2
  <2>3. CASE /\ GetValidator(in.action) = Specific(in.action)
             /\ Required(Specific(in.action), in.action) # {}
    <3>1. Specific(in.action) # NoPlugin
      BY <2>3, SpecificNamed
    <3>2. Required(Specific(in.action), in.action) \ in.fields = {}
      BY <2>1, <2>3, <3>1 DEF Errors
    <3> QED
      BY <3>2
  <2> QED
    BY <1>0, <2>2, <2>3, SpecificLoaded
<1>7. ConflictOnTheWay(c)' /\ HeardOK(c)'
    BY <1>0 DEF ConflictOnTheWay, HeardOK, CallOK
<1>8. ASSUME NEW t \in Transitions PROVE OnTheWay(c, t)'
  <2>0. left[<<c, t>>] = <<>> /\ ~Made(c, t)
    BY <1>0 DEF CallOK, OnTheWay, Made
  <2>1. CASE stage'[c] = "created" /\ t = "created"
    <3>1. left'[<<c, t>>] = Chain(t)
      BY <1>2, <2>1
    <3>2. Chain(t)' = Chain(t)
      BY <1>1 DEF Chain
    <3> QED
      BY <2>1, <3>1, <3>2 DEF OnTheWay, Had, Made
  <2>2. CASE stage'[c] = "refused" \/ t # "created"
    BY <1>0, <1>2, <2>0, <2>2 DEF OnTheWay, Made
  <2> QED
    BY <1>0, <2>1, <2>2
<1> QED
    BY <1>3, <1>4, <1>5, <1>6, <1>7, <1>8 DEF PluginsInv, CallOK

LEMMA ResolveStep ==
    ASSUME PluginsInv, NEW c \in Calls, Resolve(c)
    PROVE  PluginsInv'
<1>0. /\ UNCHANGED <<bootVars, ask, ran, posted, memorium>> /\ booted
      /\ stage[c] = "created" /\ stage'[c] = "resolved"
      /\ \A d \in Calls \ {c} : stage'[d] = stage[d]
      /\ PluginsTypeOK /\ BootInv /\ CallOK(c)
    BY DEF Resolve, PluginsInv, PluginsTypeOK, BootInv
<1>1. UNCHANGED <<files, broken, plugins, booted, url>>
    BY <1>0 DEF bootVars
<1>2. /\ left' \in [Calls \X Transitions -> Seq(Names)]
      /\ \A d \in Calls, t \in Transitions :
            d # c \/ t # "resolved" => left'[<<d, t>>] = left[<<d, t>>]
      /\ left'[<<c, "resolved">>] = Chain("resolved")
  <2>1. left \in [Calls \X Transitions -> Seq(Names)] /\ Chain("resolved") \in Seq(Names)
    BY <1>0, ChainTypes DEF PluginsTypeOK
  <2>2. <<c, "resolved">> \in Calls \X Transitions
    BY DEF Transitions
  <2>3. left' = [left EXCEPT ![<<c, "resolved">>] = Chain("resolved")]
    BY DEF Resolve
  <2> HIDE DEF Chain
  <2> QED
    BY <2>1, <2>2, <2>3
<1>3. PluginsTypeOK'
    BY <1>0, <1>1, <1>2 DEF Resolve, PluginsTypeOK
<1>4. BootInv'
    BY <1>0, BootStays
<1>5. \A d \in Calls \ {c} : CallOK(d)'
    BY <1>0, <1>2, OthersStay
<1>6. Complete(c)'
    BY <1>0, <1>1 DEF CallOK, Complete, Working, Modules
<1>7. HeardOK(c)'
    BY <1>0 DEF CallOK, HeardOK
<1>8. ConflictOnTheWay(c)'
  <2>1. Chain("resolved") = plugins.hooks
    BY DEF Chain
  <2> QED
    BY <1>0, <1>1, <1>2, <2>1, ModelBookLoaded DEF ConflictOnTheWay
<1>9. ASSUME NEW t \in Transitions PROVE OnTheWay(c, t)'
  <2>1. CASE t = "resolved"
    <3>1. Chain(t)' = Chain(t)
      BY <1>1 DEF Chain
    <3> QED
      BY <1>0, <1>2, <2>1, <3>1 DEF OnTheWay, Had, Made
  <2>2. CASE t = "created"
    <3>1. Made(c, t) /\ Made(c, t)'
      BY <1>0, <2>2 DEF Made
    <3> QED
      BY <1>0, <1>2, <2>2, <3>1, ChainKept DEF CallOK
  <2> QED
    BY <2>1, <2>2 DEF Transitions
<1> QED
    BY <1>3, <1>4, <1>5, <1>6, <1>7, <1>8, <1>9 DEF PluginsInv, CallOK

(* What is left when the head has had its turn.                               *)
LEMMA HeadOrTail ==
    ASSUME NEW S, NEW s \in Seq(S), s # <<>>
    PROVE  \A p \in ToSet(s) : p = Head(s) \/ p \in ToSet(Tail(s))
<1>1. /\ Len(s) \in Nat /\ DOMAIN s = 1 .. Len(s) /\ Head(s) = s[1]
      /\ Len(Tail(s)) = Len(s) - 1 /\ DOMAIN Tail(s) = 1 .. Len(s) - 1
      /\ \A i \in 1 .. Len(Tail(s)) : Tail(s)[i] = s[i + 1]
    BY HeadTailProperties, LenProperties
<1> SUFFICES ASSUME NEW i \in DOMAIN s, i # 1
             PROVE  \E j \in DOMAIN Tail(s) : Tail(s)[j] = s[i]
    BY <1>1 DEF ToSet
<1>2. i - 1 \in 1 .. Len(s) - 1 /\ (i - 1) + 1 = i
    BY <1>1
<1>3. Tail(s)[i - 1] = s[i]
    BY <1>1, <1>2
<1> QED
    BY <1>1, <1>2, <1>3

(* The next plugin has had its turn: it has seen the event, or raised.        *)
LEMMA TurnStep ==
    ASSUME PluginsInv, NEW c \in Calls, NEW t \in Transitions, left[<<c, t>>] # <<>>,
           ran' = ran \cup {Seen(c, t, Head(left[<<c, t>>]))},
           left' = [left EXCEPT ![<<c, t>>] = Tail(@)],
           IF ActsOn(c, t) THEN Post(c) ELSE UNCHANGED <<posted, memorium>>,
           UNCHANGED <<bootVars, ask, stage>>
    PROVE  PluginsInv'
<1> DEFINE s == left[<<c, t>>]
<1>0. PluginsTypeOK /\ BootInv /\ CallOK(c) /\ UNCHANGED <<files, broken, plugins, booted, url>>
    BY DEF PluginsInv, bootVars
<1>1. /\ s \in Seq(Names) /\ Tail(s) \in Seq(Names)
      /\ left' \in [Calls \X Transitions -> Seq(Names)]
      /\ left'[<<c, t>>] = Tail(s)
      /\ \A d \in Calls, u \in Transitions : d # c \/ u # t => left'[<<d, u>>] = left[<<d, u>>]
  <2>1. <<c, t>> \in Calls \X Transitions /\ left \in [Calls \X Transitions -> Seq(Names)]
    BY <1>0 DEF PluginsTypeOK
  <2>2. s \in Seq(Names) /\ Tail(s) \in Seq(Names)
    BY <2>1, HeadTailProperties
  <2> QED
    BY <2>1, <2>2
<1> HIDE DEF s
<1>2. \A p \in ToSet(s) : p = Head(s) \/ p \in ToSet(Tail(s))
  <2>1. s # <<>>
    BY DEF s
  <2> QED
    BY <1>1, <2>1, HeadOrTail
<1>3. /\ posted \subseteq posted' /\ memorium' \subseteq memorium \cup {c}
      /\ ActsOn(c, t) => c \in posted'
      /\ ~ActsOn(c, t) => memorium' = memorium
    BY DEF Post
<1>4. Head(left[<<c, t>>]) = Head(s) /\ Made(c, t)
    BY <1>0 DEF s, CallOK, OnTheWay
<1>5. PluginsTypeOK'
    BY <1>0, <1>1, <1>3 DEF PluginsTypeOK
<1>6. BootInv'
    BY BootStays DEF PluginsInv, BootInv
<1>7. \A d \in Calls \ {c} : CallOK(d)'
    BY <1>1, <1>3, OthersStay
<1>8. ASSUME NEW u \in Transitions PROVE OnTheWay(c, u)'
  <2>1. CASE u # t
    BY <1>0, <1>1, <2>1, ChainKept DEF CallOK
  <2>2. CASE u = t
    <3>1. Made(c, t)' /\ Chain(t)' = Chain(t)
      BY <1>0, <1>4 DEF Made, Chain
    <3>2. ASSUME NEW p \in ToSet(Chain(t))
          PROVE  Seen(c, t, p) \in ran' \/ p \in ToSet(Tail(s))
      <4>1. Seen(c, t, p) \in ran \/ p \in ToSet(s)
        BY <1>0, <1>4 DEF CallOK, OnTheWay, Had, s
      <4> QED
        BY <1>2, <1>4, <4>1
    <3> QED
      BY <1>1, <2>2, <3>1, <3>2 DEF OnTheWay, Had, Seen
  <2> QED
    BY <2>1, <2>2
<1>9. Complete(c)'
    BY <1>0 DEF CallOK, Complete, Working, Modules
<1>10. HeardOK(c)'
  <2>1. ActsOn(c, t) => stage[c] = "resolved" /\ ask[c].action = "modelbook_conflict"
    BY <1>4 DEF ActsOn, Made
  <2> QED
    BY <1>0, <1>3, <2>1 DEF CallOK, HeardOK
<1>11. ConflictOnTheWay(c)'
  <2> SUFFICES ASSUME broken = {}, url, stage[c] = "resolved",
                      ask[c].action = "modelbook_conflict"
               PROVE  c \in posted' \/ "modelbook" \in ToSet(left'[<<c, "resolved">>])
    BY <1>0 DEF ConflictOnTheWay
  <2>1. c \in posted \/ "modelbook" \in ToSet(left[<<c, "resolved">>])
    BY <1>0 DEF CallOK, ConflictOnTheWay
  <2>2. CASE t # "resolved"
    BY <1>1, <1>3, <2>1, <2>2 DEF Transitions
  <2>3. CASE t = "resolved"
    <3>1. "proposal_id" \in ask[c].fields
      BY <1>0 DEF CallOK, Complete, Working, Specific, Required, Conflict
    <3>2. Head(s) = "modelbook" => c \in posted'
      BY <1>3, <1>4, <2>3, <3>1 DEF ActsOn
    <3> QED
      BY <1>1, <1>2, <1>3, <2>1, <2>3, <3>2 DEF s
  <2> QED
    BY <2>2, <2>3
<1> QED
    BY <1>5, <1>6, <1>7, <1>8, <1>9, <1>10, <1>11 DEF PluginsInv, CallOK

LEMMA PluginsStep == PluginsInv /\ [Next]_vars => PluginsInv'
<1> SUFFICES ASSUME PluginsInv, [Next]_vars PROVE PluginsInv'
    OBVIOUS
<1>1. ASSUME NEW c \in Calls, NEW t \in Transitions, Run(c, t) PROVE PluginsInv'
    BY <1>1, TurnStep DEF Run
<1>2. ASSUME NEW c \in Calls, NEW t \in Transitions, Raises(c, t) PROVE PluginsInv'
  <2>1. ~ActsOn(c, t)
    BY <1>2 DEF Raises, ActsOn, Added
  <2> QED
    BY <1>2, <2>1, TurnStep DEF Raises
<1>3. CASE UNCHANGED vars
  <2>1. UNCHANGED <<bootVars, ask, stage, left, ran, posted, memorium>>
    BY <1>3 DEF vars
  <2>2. BootInv'
    BY <2>1, BootStays DEF PluginsInv, BootInv
  <2>3. \A d \in Calls : CallOK(d)'
    BY <2>1, OthersStay
  <2>4. PluginsTypeOK'
    BY <2>1 DEF PluginsInv, PluginsTypeOK, bootVars
  <2> QED
    BY <2>2, <2>3, <2>4 DEF PluginsInv
<1> QED
    BY <1>1, <1>2, <1>3, DiscoverStep, RequestStep, ResolveStep DEF Next

LEMMA PluginsInvariance == Spec => []PluginsInv
BY PluginsInit, PluginsStep, PTL DEF Spec

-----------------------------------------------------------------------------
(* No request is accepted without what its own validator wants, wherever the  *)
(* fallback stands among the validators.                                      *)
THEOREM ValidatedComplete == Spec => []AcceptedComplete
<1>1. PluginsInv => AcceptedComplete
    BY DEF PluginsInv, CallOK, Complete, AcceptedComplete
<1> QED
    BY <1>1, PluginsInvariance, PTL

(* Every plugin of its chain saw an event that has gone through it, be it of  *)
(* a creation or of a resolution that overtook it.                            *)
THEOREM ChainsComplete == Spec => []ChainComplete
<1>1. PluginsInv => ChainComplete
  <2> SUFFICES ASSUME PluginsInv, NEW c \in Calls, NEW t \in Transitions, Through(c, t),
                      NEW p \in ToSet(Chain(t))
               PROVE  Seen(c, t, p) \in ran
    BY DEF ChainComplete
  <2>1. ToSet(left[<<c, t>>]) = {}
    BY DEF Through, ToSet
  <2> QED
    BY <2>1 DEF PluginsInv, CallOK, OnTheWay, Had, Through
<1> QED
    BY <1>1, PluginsInvariance, PTL

(* The POST of every resolved conflict is made if all plugins load and        *)
(* MEMORIUM_URL is set, and Memorium hears of nothing else.  Whether Memorium *)
(* hears of it is not claimed: the POST may fail.                             *)
THEOREM ConflictsReachThePost == Spec => []ConflictsPosted
<1>1. PluginsInv => ConflictsPosted
  <2> SUFFICES ASSUME PluginsInv PROVE ConflictsPosted
    OBVIOUS
  <2>1. ASSUME broken = {}, url, NEW c \in Calls, Through(c, "resolved"),
               ask[c].action = "modelbook_conflict"
        PROVE  c \in posted
    <3>1. ToSet(left[<<c, "resolved">>]) = {} /\ stage[c] = "resolved"
      BY <2>1 DEF Through, Made, ToSet
    <3> QED
      BY <2>1, <3>1 DEF PluginsInv, CallOK, ConflictOnTheWay
  <2>2. ASSUME NEW c \in memorium
        PROVE  stage[c] = "resolved" /\ ask[c].action = "modelbook_conflict"
    BY <2>2 DEF PluginsInv, PluginsTypeOK, CallOK, HeardOK
  <2> QED
    BY <2>1, <2>2 DEF ConflictsPosted
<1> QED
    BY <1>1, PluginsInvariance, PTL
=============================================================================
