-------------------------- MODULE Lifecycle_proofs --------------------------
(***************************************************************************)
(* Proofs about Lifecycle and the WfpManager it extends, for any number of *)
(* layers and any number of changes of the BFE service: the types, what the *)
(* manager knows of its callouts and sessions, that a destruction begins   *)
(* only when all is quiet, and that a blocked driver stays.                *)
(*                                                                         *)
(* The first part is about the manager alone: ManagerInv holds whoever     *)
(* calls it, and in whatever order, as long as the calls do not overlap.   *)
(***************************************************************************)
EXTENDS Lifecycle, TLAPS, SequenceTheorems

-----------------------------------------------------------------------------
(***************************************************************************)
(* The manager.                                                            *)
(***************************************************************************)
InstallOps ==
  {"begin", "provider", "sublayer", "register", "add", "filter", "commit", "rollback"}
TeardownOps == {"unregister", "delete", "close"}
OneLayerOps ==
  {"begin", "provider", "sublayer", "register", "add", "filter", "unregister", "delete"}

WfpTyped ==
  /\ mutex \in Callers \cup {NoCaller}
  /\ op \in {"none", "return"} \cup InstallOps \cup TeardownOps
  /\ layer \in Nat /\ layer <= LayerCount
  /\ clean \in BOOLEAN /\ installed \in BOOLEAN /\ engine \in BOOLEAN
  /\ result \in {"none", "SUCCESS", "FAILED", "TRUE", "FALSE"}
  /\ st \in [Objects -> States]
  /\ calloutId \subseteq Layers /\ filterId \subseteq Layers
  /\ registered \subseteq Layers /\ lost \subseteq Layers /\ abandoned \subseteq Layers
  /\ sessions \in {0, 1}

\* A call holds the mutex from its first step to its return, and has a result then only.
CallInv ==
  /\ op = "none" <=> mutex = NoCaller
  /\ op # "return" <=> result = "none"
  /\ op \in OneLayerOps => layer \in Layers
  /\ op = "commit" => layer = LayerCount

Untouched(from) == \A l \in Layers : l >= from => st[Callout(l)] = "UNINITIALIZED"
GoneAbove(from) == \A l \in Layers : l > from => ~OnTheBooks(Callout(l))
GoneBelow(to) == \A l \in Layers : l < to => ~OnTheBooks(Callout(l))

\* An engine that is open outside an installation belongs to one that is installed, or
\* its close has failed; and outside a call, a manager that is not installed has no
\* callout on its books.
BooksInv ==
  /\ installed => engine
  /\ op \in InstallOps => engine /\ ~installed
  /\ op \notin InstallOps /\ engine /\ ~installed => st[Engine] = "LEAKED"
  /\ op \in {"none", "return"} /\ ~installed => GoneAbove(0)
  /\ op \in {"begin", "provider", "sublayer"} => Untouched(1)
  /\ op = "register" => Untouched(layer)
  /\ op \in {"add", "filter"} => Untouched(layer + 1)
  /\ op = "rollback" => GoneAbove(layer)
  /\ op = "unregister" => GoneBelow(layer)
  /\ op \in {"delete", "close"} => GoneAbove(0)

ManagerInv == WfpTyped /\ CallInv /\ BooksInv /\ CalloutsTracked

\* The objects are different objects.
LEMMA ObjectsApart ==
  /\ {Engine, Provider, SubLayer} \subseteq Objects
  /\ Engine # Provider /\ Engine # SubLayer /\ Provider # SubLayer
  /\ \A l \in Layers :
       /\ Callout(l) \in Objects /\ Filter(l) \in Objects
       /\ Callout(l) \notin {Engine, Provider, SubLayer}
       /\ Filter(l) \notin {Engine, Provider, SubLayer}
  /\ \A l, m \in Layers : /\ Callout(l) # Filter(m)
                          /\ Callout(l) = Callout(m) => l = m
BY DEF Objects, Engine, Provider, SubLayer, Callout, Filter

LEMMA LayersAre ==
  /\ LayerCount \in Nat /\ LayerCount >= 1
  /\ \A l : l \in Layers <=> l \in Nat /\ l >= 1 /\ l <= LayerCount
BY WfpAssumption DEF Layers

LEMMA ManagerTypes == WfpTyped => WfpTypeOK
BY LayersAre DEF WfpTyped, WfpTypeOK, InstallOps, TeardownOps

LEMMA ManagerInit == WfpInit => ManagerInv
<1> SUFFICES ASSUME WfpInit PROVE ManagerInv
  OBVIOUS
<1>1. \A o \in Objects : st[o] = "UNINITIALIZED"
  BY DEF WfpInit
<1>2. WfpTyped
  <2>1. st \in [Objects -> States]
    BY DEF WfpInit, States
  <2>2. layer \in Nat /\ layer <= LayerCount /\ sessions \in {0, 1}
    BY LayersAre DEF WfpInit
  <2>3. /\ mutex \in Callers \cup {NoCaller}
        /\ op \in {"none", "return"} \cup InstallOps \cup TeardownOps
        /\ clean \in BOOLEAN /\ installed \in BOOLEAN /\ engine \in BOOLEAN
        /\ result \in {"none", "SUCCESS", "FAILED", "TRUE", "FALSE"}
        /\ calloutId \subseteq Layers /\ filterId \subseteq Layers
        /\ registered \subseteq Layers /\ lost \subseteq Layers /\ abandoned \subseteq Layers
    BY DEF WfpInit
  <2> QED
    BY <2>1, <2>2, <2>3 DEF WfpTyped
<1>3. CallInv
  BY DEF WfpInit, CallInv, OneLayerOps
<1>4. BooksInv
  BY <1>1, ObjectsApart DEF WfpInit, BooksInv, GoneAbove, OnTheBooks, InstallOps
<1>5. CalloutsTracked
  BY DEF WfpInit, CalloutsTracked
<1> QED
  BY <1>2, <1>3, <1>4, <1>5 DEF ManagerInv

LEMMA InstallBeginKeeps ==
  ASSUME ManagerInv, NEW c \in Callers, InstallBegin(c)
  PROVE  ManagerInv'
<1> USE LayersAre, ObjectsApart DEF ManagerInv, InstallBegin, Returns, Continues, AnyLeaked
<1>1. WfpTyped'
  <2>1. CASE installed \/ AnyLeaked
    BY <2>1 DEF WfpTyped, objs, kernel
  <2>2. CASE ~(installed \/ AnyLeaked)
    <3>1. ~engine /\ sessions = 0
      BY <2>2 DEF CallInv, BooksInv, CalloutsTracked, InstallOps, AnyLeaked
    <3>2. sessions' \in {0, 1} /\ engine' \in BOOLEAN /\ layer' \in Nat /\ layer' <= LayerCount
      BY <2>2, <3>1
    <3>3. st' \in [Objects -> States]
      BY <2>2 DEF States
    <3>4. /\ mutex' \in Callers \cup {NoCaller} /\ clean' \in BOOLEAN
          /\ op' \in {"none", "return"} \cup InstallOps \cup TeardownOps
          /\ result' \in {"none", "SUCCESS", "FAILED", "TRUE", "FALSE"}
          /\ UNCHANGED <<installed, registered, lost, abandoned>>
          /\ calloutId' = {} /\ filterId' = {}
      BY <2>2 DEF InstallOps, WfpTyped
    <3> QED
      BY <3>2, <3>3, <3>4 DEF WfpTyped
  <2> QED
    BY <2>1, <2>2
<1>2. CallInv'
  BY WfpAssumption DEF WfpTyped, CallInv, OneLayerOps, BooksInv, InstallOps, TeardownOps, objs,
       kernel
<1>3. BooksInv'
  BY DEF WfpTyped, CallInv, OneLayerOps, BooksInv, OnTheBooks, Untouched, GoneAbove, GoneBelow,
       InstallOps, TeardownOps, objs, kernel
<1>4. CalloutsTracked'
  BY DEF WfpTyped, CallInv, OneLayerOps, CalloutsTracked, BooksInv, OnTheBooks, Untouched,
       GoneAbove, GoneBelow, InstallOps, TeardownOps, objs, kernel
<1> QED
  BY <1>1, <1>2, <1>3, <1>4 DEF ManagerInv

LEMMA TeardownBeginKeeps ==
  ASSUME ManagerInv, NEW c \in Callers, TeardownBegin(c)
  PROVE  ManagerInv'
<1> USE LayersAre, ObjectsApart DEF ManagerInv, TeardownBegin, Returns, Continues
<1>1. WfpTyped'
  BY DEF WfpTyped, CallInv, BooksInv, CalloutsTracked, OneLayerOps, States, InstallOps,
       TeardownOps, objs, kernel
<1>2. CallInv'
  BY WfpAssumption DEF WfpTyped, CallInv, OneLayerOps, BooksInv, InstallOps, TeardownOps, objs,
       kernel
<1>3. BooksInv'
  BY DEF WfpTyped, CallInv, OneLayerOps, BooksInv, OnTheBooks, Untouched, GoneAbove, GoneBelow,
       InstallOps, TeardownOps, objs, kernel
<1>4. CalloutsTracked'
  BY DEF WfpTyped, CallInv, OneLayerOps, CalloutsTracked, BooksInv, OnTheBooks, Untouched,
       GoneAbove, GoneBelow, InstallOps, TeardownOps, objs, kernel
<1> QED
  BY <1>1, <1>2, <1>3, <1>4 DEF ManagerInv

LEMMA UnlockKeeps ==
  ASSUME ManagerInv, NEW c \in Callers, Unlock(c)
  PROVE  ManagerInv'
<1> USE LayersAre, ObjectsApart DEF ManagerInv, Unlock
<1>1. WfpTyped'
  BY DEF WfpTyped, CallInv, BooksInv, CalloutsTracked, OneLayerOps, States, InstallOps,
       TeardownOps, objs, kernel
<1>2. CallInv'
  BY WfpAssumption DEF WfpTyped, CallInv, OneLayerOps, BooksInv, InstallOps, TeardownOps, objs,
       kernel
<1>3. BooksInv'
  BY DEF WfpTyped, CallInv, OneLayerOps, BooksInv, OnTheBooks, Untouched, GoneAbove, GoneBelow,
       InstallOps, TeardownOps, objs, kernel
<1>4. CalloutsTracked'
  BY DEF WfpTyped, CallInv, OneLayerOps, CalloutsTracked, BooksInv, OnTheBooks, Untouched,
       GoneAbove, GoneBelow, InstallOps, TeardownOps, objs, kernel
<1> QED
  BY <1>1, <1>2, <1>3, <1>4 DEF ManagerInv

LEMMA TransactionBeginKeeps ==
  ASSUME ManagerInv, TransactionBegin
  PROVE  ManagerInv'
<1> USE LayersAre, ObjectsApart DEF ManagerInv, TransactionBegin, Returns, Continues
<1>1. WfpTyped'
  BY DEF WfpTyped, CallInv, BooksInv, CalloutsTracked, OneLayerOps, States, InstallOps,
       TeardownOps, objs, kernel
<1>2. CallInv'
  BY WfpAssumption DEF WfpTyped, CallInv, OneLayerOps, BooksInv, InstallOps, TeardownOps, objs,
       kernel
<1>3. BooksInv'
  BY DEF WfpTyped, CallInv, OneLayerOps, BooksInv, OnTheBooks, Untouched, GoneAbove, GoneBelow,
       InstallOps, TeardownOps, objs, kernel
<1>4. CalloutsTracked'
  BY DEF WfpTyped, CallInv, OneLayerOps, CalloutsTracked, BooksInv, OnTheBooks, Untouched,
       GoneAbove, GoneBelow, InstallOps, TeardownOps, objs, kernel
<1> QED
  BY <1>1, <1>2, <1>3, <1>4 DEF ManagerInv

LEMMA AddProviderKeeps ==
  ASSUME ManagerInv, AddProvider
  PROVE  ManagerInv'
<1> USE LayersAre, ObjectsApart DEF ManagerInv, AddProvider, Returns, Continues, Adds
<1>1. WfpTyped'
  BY DEF WfpTyped, CallInv, BooksInv, CalloutsTracked, OneLayerOps, States, InstallOps,
       TeardownOps, objs, kernel
<1>2. CallInv'
  BY WfpAssumption DEF WfpTyped, CallInv, OneLayerOps, BooksInv, InstallOps, TeardownOps, objs,
       kernel
<1>3. BooksInv'
  BY DEF WfpTyped, CallInv, OneLayerOps, BooksInv, OnTheBooks, Untouched, GoneAbove, GoneBelow,
       InstallOps, TeardownOps, objs, kernel
<1>4. CalloutsTracked'
  BY DEF WfpTyped, CallInv, OneLayerOps, CalloutsTracked, BooksInv, OnTheBooks, Untouched,
       GoneAbove, GoneBelow, InstallOps, TeardownOps, objs, kernel
<1> QED
  BY <1>1, <1>2, <1>3, <1>4 DEF ManagerInv

LEMMA AddSubLayerKeeps ==
  ASSUME ManagerInv, AddSubLayer
  PROVE  ManagerInv'
<1> USE LayersAre, ObjectsApart DEF ManagerInv, AddSubLayer, Returns, Continues, Adds
<1>1. WfpTyped'
  BY DEF WfpTyped, CallInv, BooksInv, CalloutsTracked, OneLayerOps, States, InstallOps,
       TeardownOps, objs, kernel
<1>2. CallInv'
  BY WfpAssumption DEF WfpTyped, CallInv, OneLayerOps, BooksInv, InstallOps, TeardownOps, objs,
       kernel
<1>3. BooksInv'
  BY DEF WfpTyped, CallInv, OneLayerOps, BooksInv, OnTheBooks, Untouched, GoneAbove, GoneBelow,
       InstallOps, TeardownOps, objs, kernel
<1>4. CalloutsTracked'
  BY DEF WfpTyped, CallInv, OneLayerOps, CalloutsTracked, BooksInv, OnTheBooks, Untouched,
       GoneAbove, GoneBelow, InstallOps, TeardownOps, objs, kernel
<1> QED
  BY <1>1, <1>2, <1>3, <1>4 DEF ManagerInv

LEMMA RegisterCalloutKeeps ==
  ASSUME ManagerInv, RegisterCallout
  PROVE  ManagerInv'
<1> USE LayersAre, ObjectsApart DEF ManagerInv, RegisterCallout, Returns, Continues, Adds
<1>1. WfpTyped'
  BY DEF WfpTyped, CallInv, BooksInv, CalloutsTracked, OneLayerOps, States, InstallOps,
       TeardownOps, objs, kernel
<1>2. CallInv'
  <2>1. mutex # NoCaller /\ result = "none" /\ layer \in Layers
    BY DEF CallInv, OneLayerOps
  <2>2. PICK ok2 \in BOOLEAN : Adds(Callout(layer), ok2, "add")
    OBVIOUS
  <2>3. (op' = "add" /\ layer' = layer) \/ op' = "rollback"
    BY <2>2
  <2> QED
    BY <2>1, <2>3 DEF CallInv, OneLayerOps
<1>3. BooksInv'
  BY DEF WfpTyped, CallInv, OneLayerOps, BooksInv, OnTheBooks, Untouched, GoneAbove, GoneBelow,
       InstallOps, TeardownOps, objs, kernel
<1>4. CalloutsTracked'
  BY DEF WfpTyped, CallInv, OneLayerOps, CalloutsTracked, BooksInv, OnTheBooks, Untouched,
       GoneAbove, GoneBelow, InstallOps, TeardownOps, objs, kernel
<1> QED
  BY <1>1, <1>2, <1>3, <1>4 DEF ManagerInv

LEMMA AddCalloutKeeps ==
  ASSUME ManagerInv, AddCallout
  PROVE  ManagerInv'
<1> USE LayersAre, ObjectsApart DEF ManagerInv, AddCallout, Returns, Continues, Adds
<1>1. WfpTyped'
  BY DEF WfpTyped, CallInv, BooksInv, CalloutsTracked, OneLayerOps, States, InstallOps,
       TeardownOps, objs, kernel
<1>2. CallInv'
  BY WfpAssumption DEF WfpTyped, CallInv, OneLayerOps, BooksInv, InstallOps, TeardownOps, objs,
       kernel
<1>3. BooksInv'
  BY DEF WfpTyped, CallInv, OneLayerOps, BooksInv, OnTheBooks, Untouched, GoneAbove, GoneBelow,
       InstallOps, TeardownOps, objs, kernel
<1>4. CalloutsTracked'
  BY DEF WfpTyped, CallInv, OneLayerOps, CalloutsTracked, BooksInv, OnTheBooks, Untouched,
       GoneAbove, GoneBelow, InstallOps, TeardownOps, objs, kernel
<1> QED
  BY <1>1, <1>2, <1>3, <1>4 DEF ManagerInv

LEMMA AddFilterKeeps ==
  ASSUME ManagerInv, AddFilter
  PROVE  ManagerInv'
<1> USE LayersAre, ObjectsApart DEF ManagerInv, AddFilter, Returns, Continues
<1>1. WfpTyped'
  BY DEF WfpTyped, CallInv, BooksInv, CalloutsTracked, OneLayerOps, States, InstallOps,
       TeardownOps, objs, kernel
<1>2. CallInv'
  BY WfpAssumption DEF WfpTyped, CallInv, OneLayerOps, BooksInv, InstallOps, TeardownOps, objs,
       kernel
<1>3. BooksInv'
  BY DEF WfpTyped, CallInv, OneLayerOps, BooksInv, OnTheBooks, Untouched, GoneAbove, GoneBelow,
       InstallOps, TeardownOps, objs, kernel
<1>4. CalloutsTracked'
  BY DEF WfpTyped, CallInv, OneLayerOps, CalloutsTracked, BooksInv, OnTheBooks, Untouched,
       GoneAbove, GoneBelow, InstallOps, TeardownOps, objs, kernel
<1> QED
  BY <1>1, <1>2, <1>3, <1>4 DEF ManagerInv

LEMMA CommitKeeps ==
  ASSUME ManagerInv, Commit
  PROVE  ManagerInv'
<1> USE LayersAre, ObjectsApart DEF ManagerInv, Commit, Returns, Continues
<1>1. WfpTyped'
  BY DEF WfpTyped, CallInv, BooksInv, CalloutsTracked, OneLayerOps, States, InstallOps,
       TeardownOps, objs, kernel
<1>2. CallInv'
  BY WfpAssumption DEF WfpTyped, CallInv, OneLayerOps, BooksInv, InstallOps, TeardownOps, objs,
       kernel
<1>3. BooksInv'
  BY DEF WfpTyped, CallInv, OneLayerOps, BooksInv, OnTheBooks, Untouched, GoneAbove, GoneBelow,
       InstallOps, TeardownOps, objs, kernel
<1>4. CalloutsTracked'
  BY DEF WfpTyped, CallInv, OneLayerOps, CalloutsTracked, BooksInv, OnTheBooks, Untouched,
       GoneAbove, GoneBelow, InstallOps, TeardownOps, objs, kernel
<1> QED
  BY <1>1, <1>2, <1>3, <1>4 DEF ManagerInv

LEMMA RollbackLayerKeeps ==
  ASSUME ManagerInv, RollbackLayer
  PROVE  ManagerInv'
<1> USE LayersAre, ObjectsApart DEF ManagerInv, RollbackLayer, Returns, Continues, Removed
<1>1. WfpTyped'
  BY DEF WfpTyped, CallInv, BooksInv, CalloutsTracked, OneLayerOps, States, InstallOps,
       TeardownOps, objs, kernel
<1>2. CallInv'
  BY WfpAssumption DEF WfpTyped, CallInv, OneLayerOps, BooksInv, InstallOps, TeardownOps, objs,
       kernel
<1>3. BooksInv'
  BY DEF WfpTyped, CallInv, OneLayerOps, BooksInv, OnTheBooks, Untouched, GoneAbove, GoneBelow,
       InstallOps, TeardownOps, objs, kernel
<1>4. CalloutsTracked'
  BY DEF WfpTyped, CallInv, OneLayerOps, CalloutsTracked, BooksInv, OnTheBooks, Untouched,
       GoneAbove, GoneBelow, InstallOps, TeardownOps, objs, kernel
<1> QED
  BY <1>1, <1>2, <1>3, <1>4 DEF ManagerInv

LEMMA RollbackCloseKeeps ==
  ASSUME ManagerInv, RollbackClose
  PROVE  ManagerInv'
<1> USE LayersAre, ObjectsApart DEF ManagerInv, RollbackClose, Returns, Continues, Removed
<1>1. WfpTyped'
  BY DEF WfpTyped, CallInv, BooksInv, CalloutsTracked, OneLayerOps, States, InstallOps,
       TeardownOps, objs, kernel
<1>2. CallInv'
  BY WfpAssumption DEF WfpTyped, CallInv, OneLayerOps, BooksInv, InstallOps, TeardownOps, objs,
       kernel
<1>3. BooksInv'
  BY DEF WfpTyped, CallInv, OneLayerOps, BooksInv, OnTheBooks, Untouched, GoneAbove, GoneBelow,
       InstallOps, TeardownOps, objs, kernel
<1>4. CalloutsTracked'
  <2>1. \A l \in Layers : st'[Callout(l)] = st[Callout(l)]
    BY DEF WfpTyped
  <2>2. sessions' = IF engine' THEN 1 ELSE 0
    <3>1. engine /\ sessions = 1
      BY DEF BooksInv, CalloutsTracked, InstallOps
    <3>2. PICK engineOk \in BOOLEAN :
            /\ engine' = ~engineOk
            /\ sessions' = IF engineOk THEN sessions - 1 ELSE sessions
      BY DEF RollbackClose
    <3> HIDE DEF RollbackClose, ManagerInv
    <3>3. CASE engineOk
      <4>1. engine' = FALSE
        BY <3>2, <3>3
      <4>2. sessions' = 0
        BY <3>1, <3>2, <3>3
      <4> QED
        BY <4>1, <4>2
    <3>4. CASE ~engineOk
      BY <3>1, <3>2, <3>4
    <3> QED
      BY <3>3, <3>4
  <2>3. UNCHANGED <<registered, lost, abandoned>> /\ registered \subseteq Layers
    BY DEF WfpTyped
  <2> QED
    BY <2>1, <2>2, <2>3 DEF CalloutsTracked
<1> QED
  BY <1>1, <1>2, <1>3, <1>4 DEF ManagerInv

LEMMA TeardownUnregisterKeeps ==
  ASSUME ManagerInv, TeardownUnregister
  PROVE  ManagerInv'
<1> USE LayersAre, ObjectsApart DEF ManagerInv, TeardownUnregister, Returns, Continues, Removed
<1>1. WfpTyped'
  BY DEF WfpTyped, CallInv, BooksInv, CalloutsTracked, OneLayerOps, States, InstallOps,
       TeardownOps, objs, kernel
<1>2. CallInv'
  BY WfpAssumption DEF WfpTyped, CallInv, OneLayerOps, BooksInv, InstallOps, TeardownOps, objs,
       kernel
<1>3. BooksInv'
  BY DEF WfpTyped, CallInv, OneLayerOps, BooksInv, OnTheBooks, Untouched, GoneAbove, GoneBelow,
       InstallOps, TeardownOps, objs, kernel
<1>4. CalloutsTracked'
  BY DEF WfpTyped, CallInv, OneLayerOps, CalloutsTracked, BooksInv, OnTheBooks, Untouched,
       GoneAbove, GoneBelow, InstallOps, TeardownOps, objs, kernel
<1> QED
  BY <1>1, <1>2, <1>3, <1>4 DEF ManagerInv

LEMMA TeardownDeleteKeeps ==
  ASSUME ManagerInv, TeardownDelete
  PROVE  ManagerInv'
<1> USE LayersAre, ObjectsApart DEF ManagerInv, TeardownDelete, Returns, Continues, Removed
<1>1. WfpTyped'
  BY DEF WfpTyped, CallInv, BooksInv, CalloutsTracked, OneLayerOps, States, InstallOps,
       TeardownOps, objs, kernel
<1>2. CallInv'
  BY WfpAssumption DEF WfpTyped, CallInv, OneLayerOps, BooksInv, InstallOps, TeardownOps, objs,
       kernel
<1>3. BooksInv'
  BY DEF WfpTyped, CallInv, OneLayerOps, BooksInv, OnTheBooks, Untouched, GoneAbove, GoneBelow,
       InstallOps, TeardownOps, objs, kernel
<1>4. CalloutsTracked'
  BY DEF WfpTyped, CallInv, OneLayerOps, CalloutsTracked, BooksInv, OnTheBooks, Untouched,
       GoneAbove, GoneBelow, InstallOps, TeardownOps, objs, kernel
<1> QED
  BY <1>1, <1>2, <1>3, <1>4 DEF ManagerInv

LEMMA TeardownCloseKeeps ==
  ASSUME ManagerInv, TeardownClose
  PROVE  ManagerInv'
<1> USE LayersAre, ObjectsApart DEF ManagerInv, TeardownClose, Returns, Continues, Removed
<1>1. WfpTyped'
  BY DEF WfpTyped, CallInv, BooksInv, CalloutsTracked, OneLayerOps, States, InstallOps,
       TeardownOps, objs, kernel
<1>2. CallInv'
  BY WfpAssumption DEF WfpTyped, CallInv, OneLayerOps, BooksInv, InstallOps, TeardownOps, objs,
       kernel
<1>3. BooksInv'
  BY DEF WfpTyped, CallInv, OneLayerOps, BooksInv, OnTheBooks, Untouched, GoneAbove, GoneBelow,
       InstallOps, TeardownOps, objs, kernel
<1>4. CalloutsTracked'
  <2>1. \A l \in Layers : st'[Callout(l)] = st[Callout(l)]
    BY DEF WfpTyped
  <2>2. sessions' = IF engine' THEN 1 ELSE 0
    <3>1. sessions = IF engine THEN 1 ELSE 0
      BY DEF CalloutsTracked
    <3>2. \/ (engine' <=> engine) /\ sessions' = sessions
          \/ engine /\ ~engine' /\ sessions' = sessions - 1
      OBVIOUS
    <3> QED
      BY <3>1, <3>2
  <2>3. UNCHANGED <<registered, lost, abandoned>> /\ registered \subseteq Layers
    BY DEF WfpTyped
  <2> QED
    BY <2>1, <2>2, <2>3 DEF CalloutsTracked
<1> QED
  BY <1>1, <1>2, <1>3, <1>4 DEF ManagerInv

\* Whatever the manager does, by itself or for a caller, ManagerInv holds.
LEMMA WfpStepKeeps == ManagerInv /\ WfpStep => ManagerInv'
BY TransactionBeginKeeps,
   AddProviderKeeps,
   AddSubLayerKeeps,
   RegisterCalloutKeeps,
   AddCalloutKeeps,
   AddFilterKeeps,
   CommitKeeps,
   RollbackLayerKeeps,
   RollbackCloseKeeps,
   TeardownUnregisterKeeps,
   TeardownDeleteKeeps,
   TeardownCloseKeeps DEF WfpStep

LEMMA WfpStutters == ManagerInv /\ UNCHANGED wfpVars => ManagerInv'
<1> SUFFICES ASSUME ManagerInv, UNCHANGED wfpVars PROVE ManagerInv'
  OBVIOUS
<1> USE DEF wfpVars, objs, kernel
<1>1. WfpTyped'
  BY DEF ManagerInv, WfpTyped
<1>2. CallInv'
  BY DEF ManagerInv, CallInv
<1>3. BooksInv'
  BY DEF ManagerInv, BooksInv, Untouched, GoneAbove, GoneBelow, OnTheBooks
<1>4. CalloutsTracked'
  BY DEF ManagerInv, CalloutsTracked
<1> QED
  BY <1>1, <1>2, <1>3, <1>4 DEF ManagerInv

LEMMA ManagerNext == ManagerInv /\ [Next]_vars => ManagerInv'
<1> SUFFICES ASSUME ManagerInv, [Next]_vars PROVE ManagerInv'
  OBVIOUS
<1> DEFINE Stands == UNCHANGED wfpVars
<1>1. Main \in Callers /\ Callback \in Callers
  BY LifecycleAssumption
<1>2. Stands => ManagerInv'
  BY WfpStutters
<1>3. CASE StartWfp
  BY <1>1, <1>2, <1>3, InstallBeginKeeps DEF StartWfp
<1>4. CASE Installed \/ TornDown
  BY <1>1, <1>4, UnlockKeeps DEF Installed, TornDown
<1>5. CASE Teardown
  BY <1>1, <1>5, TeardownBeginKeeps DEF Teardown
<1>6. CASE CallbackInstall
  BY <1>1, <1>6, InstallBeginKeeps DEF CallbackInstall
<1>7. CASE CallbackInstalled
  BY <1>1, <1>7, UnlockKeeps DEF CallbackInstalled
<1>8. CASE ManagerStep
  BY <1>8, WfpStepKeeps DEF ManagerStep
<1>9. CASE UNCHANGED vars
  BY <1>2, <1>9 DEF vars
<1>10. CASE CreateDevice \/ StartStep \/ ShRuntimeInit \/ ShRuntimeActivate \/ Unload
  BY <1>2, <1>10 DEF CreateDevice, StartStep, ShRuntimeInit, ShRuntimeActivate, Unload
<1>11. CASE SkipStep \/ QuiesceStep \/ Unsubscribe \/ DrainCallbacks
  BY <1>2, <1>11 DEF SkipStep, QuiesceStep, Unsubscribe, DrainCallbacks
<1>12. CASE Quiesced \/ DestroyStep \/ ReadTeardown \/ ShRuntimeEnterQuiescent
     \/ SkLifecycleDestroy \/ Return
  BY <1>2, <1>12 DEF Quiesced, DestroyStep, ReadTeardown, ShRuntimeEnterQuiescent,
       SkLifecycleDestroy, Return
<1>13. CASE BfeChanges \/ CallbackAcquire \/ CallbackCheck \/ CallbackRelease \/ UndoUnderflow
     \/ ShRuntimeReportUnderflow \/ CallbackBlocks
  BY <1>2, <1>13 DEF BfeChanges, CallbackAcquire, CallbackCheck, CallbackRelease, UndoUnderflow,
       ShRuntimeReportUnderflow, CallbackBlocks
<1>14. CASE Ended
  BY <1>2, <1>14 DEF Ended, vars
<1> QED
  BY <1>3, <1>4, <1>5, <1>6, <1>7, <1>8, <1>9, <1>10, <1>11, <1>12, <1>13, <1>14
     DEF Next, MainStep, CallbackStep

-----------------------------------------------------------------------------
(***************************************************************************)
(* What one call of the manager comes to, for its caller.                  *)
(***************************************************************************)
\* The callouts that no teardown will unregister.
Exempt == lost \cup abandoned

\* Every callout the kernel holds, but those, is there to be unregistered.
Current == \A l \in registered \ Exempt : OnTheBooks(Callout(l))

\* An installation starts with nothing on the books; so what is registered then is lost.
LEMMA InstallKeepsCurrent ==
  ASSUME ManagerInv, NEW c, InstallBegin(c), Current
  PROVE  Current'
<1>1. CASE installed \/ AnyLeaked
  BY <1>1 DEF InstallBegin, Current, Exempt, OnTheBooks, objs, kernel
<1>2. CASE ~(installed \/ AnyLeaked)
  <2>1. GoneAbove(0)
    BY <1>2 DEF InstallBegin, ManagerInv, CallInv, BooksInv
  <2>2. registered \subseteq Exempt
    BY <2>1, LayersAre DEF Current, GoneAbove, ManagerInv, WfpTyped
  <2> QED
    BY <1>2, <2>2 DEF InstallBegin, Current, Exempt
<1> QED
  BY <1>1, <1>2

\* Only the teardown can leave a callout registered and off the books, and it knows.
LEMMA StaysCurrent ==
  ASSUME ManagerInv, WfpStep, Current
  PROVE  Current' \/ (op' \in TeardownOps /\ ~clean')
<1> USE LayersAre, ObjectsApart DEF Current, Exempt, OnTheBooks
<1>1. /\ registered \subseteq Layers /\ st \in [Objects -> States]
      /\ op \in OneLayerOps => layer \in Layers
      /\ layer \in Nat /\ layer <= LayerCount
  BY DEF ManagerInv, WfpTyped, CallInv
<1>2. CASE TransactionBegin
  BY <1>1, <1>2 DEF TransactionBegin, OneLayerOps, objs, kernel
<1>3. CASE AddProvider
  BY <1>1, <1>3 DEF AddProvider, OneLayerOps, Adds, objs, kernel
<1>4. CASE AddSubLayer
  BY <1>1, <1>4 DEF AddSubLayer, OneLayerOps, Adds, objs, kernel
<1>5. CASE RegisterCallout
  BY <1>1, <1>5 DEF RegisterCallout, OneLayerOps, BooksInv, Untouched, ManagerInv, Adds, objs,
       kernel
<1>6. CASE AddCallout
  BY <1>1, <1>6 DEF AddCallout, OneLayerOps, Adds, objs, kernel
<1>7. CASE AddFilter
  BY <1>1, <1>7 DEF AddFilter, OneLayerOps, objs, kernel
<1>8. CASE Commit
  BY <1>1, <1>8 DEF Commit, OneLayerOps, objs, kernel
<1>9. CASE RollbackLayer
  BY <1>1, <1>9 DEF RollbackLayer, OneLayerOps, Removed, objs, kernel
<1>10. CASE RollbackClose
  BY <1>1, <1>10 DEF RollbackClose, OneLayerOps, Removed, objs, kernel
<1>11. CASE TeardownUnregister
  BY <1>1, <1>11 DEF TeardownUnregister, OneLayerOps, Removed, Continues, TeardownOps, objs, kernel
<1>12. CASE TeardownDelete
  BY <1>1, <1>12 DEF TeardownDelete, OneLayerOps, BooksInv, GoneAbove, ManagerInv, Removed, objs,
       kernel
<1>13. CASE TeardownClose
  BY <1>1, <1>13 DEF TeardownClose, OneLayerOps, Removed, objs, kernel
<1> QED
  BY <1>2, <1>3, <1>4, <1>5, <1>6, <1>7, <1>8, <1>9, <1>10, <1>11, <1>12, <1>13 DEF WfpStep

\* The steps of a call: it stays the call it is, keeps the mutex, and returns once.
LEMMA CallGoesOn ==
  ASSUME ManagerInv, WfpStep
  PROVE  /\ mutex' = mutex /\ mutex # NoCaller
         /\ op \in InstallOps =>
              /\ op' \in InstallOps \cup {"return"}
              /\ result' \in {"none", "SUCCESS", "FAILED"}
         /\ op \in TeardownOps =>
              /\ op' \in TeardownOps \cup {"return"}
              /\ result' \in {"none", "TRUE", "FALSE"}
         /\ op \in InstallOps \cup TeardownOps /\ result = "none"
         /\ op' = "return" \/ result' = "none"
<1> USE DEF InstallOps, TeardownOps, Continues, Returns
<1>1. /\ op # "none" => mutex # NoCaller
      /\ op # "return" => result = "none"
  BY DEF ManagerInv, CallInv
<1>2. CASE TransactionBegin \/ AddProvider \/ AddSubLayer \/ RegisterCallout \/ AddCallout
  BY <1>1, <1>2 DEF TransactionBegin, AddProvider, AddSubLayer, RegisterCallout, AddCallout, Adds
<1>3. CASE AddFilter
  <2>1. layer <= LayerCount /\ layer \in Nat
    BY DEF ManagerInv, WfpTyped
  <2> QED
    BY <1>1, <1>3, <2>1, LayersAre DEF AddFilter
<1>4. CASE Commit \/ RollbackLayer \/ RollbackClose
  BY <1>1, <1>4 DEF Commit, RollbackLayer, RollbackClose
<1>5. CASE TeardownUnregister \/ TeardownDelete \/ TeardownClose
  BY <1>1, <1>5 DEF TeardownUnregister, TeardownDelete, TeardownClose
<1> QED
  BY <1>2, <1>3, <1>4, <1>5 DEF WfpStep

\* A teardown that left something behind says so.
LEMMA StaysUnclean ==
  ASSUME ManagerInv, WfpStep, op \in TeardownOps, ~clean
  PROVE  (op' \in TeardownOps /\ ~clean') \/ result' = "FALSE"
<1>1. CASE TeardownUnregister \/ TeardownDelete
  BY <1>1 DEF TeardownUnregister, TeardownDelete, Continues, TeardownOps
<1>2. CASE TeardownClose
  BY <1>2 DEF TeardownClose, Returns
<1> QED
  BY <1>1, <1>2 DEF WfpStep, TeardownOps, TransactionBegin, AddProvider, AddSubLayer,
     RegisterCallout, AddCallout, AddFilter, Commit, RollbackLayer, RollbackClose

\* A teardown that reports success has closed the engine and left no callout but the lost.
LEMMA CleanTeardown ==
  ASSUME ManagerInv, WfpStep, result' = "TRUE"
  PROVE  ~engine' /\ ~installed' /\ (Current => registered' \subseteq Exempt')
<1>1. TeardownClose
  <2>1. result = "none"
    BY CallGoesOn
  <2> QED
    BY <2>1 DEF WfpStep, TransactionBegin, AddProvider, AddSubLayer, RegisterCallout, AddCallout,
       AddFilter, Commit, RollbackLayer, RollbackClose, TeardownUnregister, TeardownDelete,
       Adds, Continues, Returns
<1>2. Current => registered \subseteq Exempt
  BY <1>1, LayersAre DEF TeardownClose, ManagerInv, WfpTyped, BooksInv, GoneAbove, Current
<1>3. ~engine' /\ ~installed'
  BY <1>1 DEF TeardownClose, Returns, ManagerInv, WfpTyped
<1> QED
  BY <1>1, <1>2, <1>3 DEF TeardownClose, Exempt

-----------------------------------------------------------------------------
(***************************************************************************)
(* The lists of steps the main thread works off.                           *)
(***************************************************************************)
StepNames == {"rules", "eventq", "control", "inject", "flow", "bfe", "wfp", "device"}

Lists(q, s) == \E i \in 1 .. Len(q) : q[i] = s
Distinct(q) == \A i, j \in 1 .. Len(q) : q[i] = q[j] => i = j
EndsIn(q, s) == q # <<>> => q[Len(q)] = s
BfeFirst(q) == \A i, j \in 1 .. Len(q) : q[i] = "bfe" /\ q[j] = "wfp" => i < j

LEMMA NothingListed ==
  /\ <<>> \in Seq(StepNames) /\ Len(<<>>) = 0 /\ Distinct(<<>>) /\ BfeFirst(<<>>)
  /\ \A s : ~Lists(<<>>, s) /\ EndsIn(<<>>, s)
BY DEF Lists, Distinct, EndsIn, BfeFirst

LEMMA OrdersAre ==
  /\ \A q \in {StartOrder, RollbackOrder, UnloadOrder, DestroyOrder} :
       q \in Seq(StepNames) /\ Len(q) <= 6 /\ q # <<>> /\ Distinct(q)
  /\ EndsIn(StartOrder, "bfe") /\ ~Lists(StartOrder, "wfp") /\ ~Lists(StartOrder, "device")
  /\ \A q \in {RollbackOrder, UnloadOrder} :
       /\ Lists(q, "wfp") /\ Lists(q, "bfe")
       /\ \A s \in Busy : Lists(q, s)
  /\ BfeFirst(UnloadOrder)
  /\ EndsIn(DestroyOrder, "device")
<1> USE DEF StepNames, Lists, Distinct, EndsIn, BfeFirst
<1>1. /\ StartOrder \in Seq(StepNames) /\ Len(StartOrder) <= 6 /\ Distinct(StartOrder)
      /\ StartOrder # <<>> /\ EndsIn(StartOrder, "bfe")
      /\ ~Lists(StartOrder, "wfp") /\ ~Lists(StartOrder, "device")
  BY DEF StartOrder
<1>2. /\ RollbackOrder \in Seq(StepNames) /\ Len(RollbackOrder) <= 6 /\ Distinct(RollbackOrder)
      /\ RollbackOrder # <<>> /\ Lists(RollbackOrder, "wfp") /\ Lists(RollbackOrder, "bfe")
      /\ \A s \in Busy : Lists(RollbackOrder, s)
  BY DEF RollbackOrder, Busy
<1>3. /\ UnloadOrder \in Seq(StepNames) /\ Len(UnloadOrder) <= 6 /\ Distinct(UnloadOrder)
      /\ UnloadOrder # <<>> /\ Lists(UnloadOrder, "wfp") /\ Lists(UnloadOrder, "bfe")
      /\ \A s \in Busy : Lists(UnloadOrder, s)
      /\ BfeFirst(UnloadOrder)
  BY DEF UnloadOrder, Busy
<1>4. /\ DestroyOrder \in Seq(StepNames) /\ Len(DestroyOrder) <= 6 /\ Distinct(DestroyOrder)
      /\ DestroyOrder # <<>> /\ EndsIn(DestroyOrder, "device")
  BY DEF DestroyOrder
<1> HIDE DEF StepNames, Lists, Distinct, EndsIn, BfeFirst
<1> QED
  BY <1>1, <1>2, <1>3, <1>4

\* What is left of a list when its first step is done.
LEMMA RestOf ==
  ASSUME NEW q \in Seq(StepNames), q # <<>>, Distinct(q)
  PROVE  /\ Head(q) \in StepNames /\ Lists(q, Head(q))
         /\ Tail(q) \in Seq(StepNames) /\ Len(Tail(q)) = Len(q) - 1 /\ Distinct(Tail(q))
         /\ \A s : Lists(Tail(q), s) <=> Lists(q, s) /\ s # Head(q)
         /\ \A s : EndsIn(q, s) =>
              EndsIn(Tail(q), s) /\ (Tail(q) = <<>> <=> Head(q) = s)
         /\ BfeFirst(q) => BfeFirst(Tail(q)) /\ (Head(q) = "wfp" => ~Lists(q, "bfe"))
<1> DEFINE n == Len(q)
           r == Tail(q)
<1>1. /\ n \in Nat /\ n >= 1 /\ Head(q) = q[1] /\ Head(q) \in StepNames
      /\ r \in Seq(StepNames) /\ Len(r) = n - 1
      /\ \A i \in 1 .. n - 1 : r[i] = q[i + 1]
  BY EmptySeq, HeadTailProperties, LenProperties
<1> HIDE DEF n, r
<1>2. Lists(q, Head(q)) /\ Distinct(r)
  BY <1>1 DEF Lists, Distinct, n
<1>3. ASSUME NEW s PROVE Lists(r, s) <=> Lists(q, s) /\ s # Head(q)
  <2>1. ASSUME Lists(r, s) PROVE Lists(q, s) /\ s # Head(q)
    <3>1. PICK i \in 1 .. n - 1 : r[i] = s
      BY <1>1, <2>1 DEF Lists
    <3>2. i + 1 \in 1 .. n /\ i + 1 # 1 /\ 1 \in 1 .. n /\ q[i + 1] = s
      BY <1>1, <3>1
    <3> QED
      BY <1>1, <3>2 DEF Lists, Distinct, n
  <2>2. ASSUME Lists(q, s), s # Head(q) PROVE Lists(r, s)
    <3>1. PICK i \in 1 .. n : q[i] = s
      BY <2>2 DEF Lists, n
    <3>2. i - 1 \in 1 .. n - 1 /\ r[i - 1] = q[(i - 1) + 1] /\ (i - 1) + 1 = i
      BY <1>1, <2>2, <3>1
    <3> QED
      BY <1>1, <3>1, <3>2 DEF Lists
  <2> QED
    BY <2>1, <2>2
<1>4. ASSUME NEW s, EndsIn(q, s) PROVE EndsIn(r, s) /\ (r = <<>> <=> Head(q) = s)
  <2>1. q[n] = s /\ n \in 1 .. n /\ 1 \in 1 .. n
    BY <1>1, <1>4 DEF EndsIn, n
  <2>2. CASE n = 1
    BY <1>1, <2>1, <2>2, EmptySeq DEF EndsIn
  <2>3. CASE n # 1
    <3>1. r # <<>> /\ n - 1 \in 1 .. n - 1 /\ (n - 1) + 1 = n
      BY <1>1, <2>3, EmptySeq
    <3>2. r[n - 1] = s /\ q[1] # q[n]
      BY <1>1, <2>1, <2>3, <3>1 DEF Distinct, n
    <3> QED
      BY <1>1, <2>1, <3>1, <3>2 DEF EndsIn
  <2> QED
    BY <2>2, <2>3
<1>5. ASSUME BfeFirst(q) PROVE BfeFirst(r) /\ (Head(q) = "wfp" => ~Lists(q, "bfe"))
  <2>1. BfeFirst(r)
    BY <1>1, <1>5 DEF BfeFirst, n
  <2>2. Head(q) = "wfp" => ~Lists(q, "bfe")
    BY <1>1, <1>5 DEF BfeFirst, Lists, n
  <2> QED
    BY <2>1, <2>2
<1> QED
  BY <1>1, <1>2, <1>3, <1>4, <1>5 DEF r, n

-----------------------------------------------------------------------------
(***************************************************************************)
(* The life of the driver.                                                 *)
(***************************************************************************)
Starting == {"entry", "start", "installing", "activate"}
Over == {"failed", "unloaded"}
Ending == {"quiet", "entering", "cleanup", "destroy"} \cup Over
MainPoints ==
  Starting \cup {"activating", "run", "rollback", "unload", "parked"} \cup Ending
Parts == {"device", "rules", "eventq", "control", "inject", "flow"}

LifeTyped ==
  /\ gState \in {"UNINITIALIZED", "ACTIVE", "TEARDOWN", "QUIESCENT", "UNLOAD_BLOCKED"}
  /\ main \in MainPoints
  /\ todo \in Seq(StepNames) /\ Len(todo) <= 6
  /\ ok \in BOOLEAN /\ subscribed \in BOOLEAN /\ bfe \in BOOLEAN
  /\ cbState \in BOOLEAN /\ stopped \in BOOLEAN /\ escaped \in BOOLEAN /\ deferred \in BOOLEAN
  /\ running \subseteq Busy /\ present \subseteq Parts /\ steps \subseteq Parts \cup {"bfe"}
  /\ callback \in Entered \cup {"idle", "called"}
  /\ transitions \in Nat /\ transitions <= MaxTransitions
  /\ image \in {"loaded", "unloaded"}

\* A callback under way is counted in the rundown, until ShRuntimeInit resets the count; it
\* installs only once the driver has been activated, and blocks only a teardown.
CallbackInv ==
  /\ callback \notin Entered => inside = 0
  /\ callback \in {"check", "install", "installing", "release"} => inside \in {0, 1}
  /\ callback = "rollback" => inside = -1
  /\ callback \in {"report", "blocking"} => inside = 0
  /\ callback \in Entered /\ main \in Starting \cup {"rollback"} => inside = 1
  /\ callback \in {"install", "installing"} => gState # "UNINITIALIZED"
  /\ callback = "blocking" => gState \in {"TEARDOWN", "QUIESCENT", "UNLOAD_BLOCKED"}
  /\ stopped => ~subscribed

\* Where the main thread is, and what has been started, kept and set by then.
MainInv ==
  /\ main \in Starting \cup {"activating", "rollback"} => gState = "UNINITIALIZED"
  /\ main \in Starting \cup {"activating", "run"} => ok /\ ~stopped
  /\ main = "run" => gState = "ACTIVE"
  /\ main \in {"unload", "quiet", "entering"} => gState \in {"TEARDOWN", "UNLOAD_BLOCKED"}
  /\ main \in {"cleanup", "destroy"} \cup Over =>
       gState \in {"QUIESCENT", "UNINITIALIZED", "UNLOAD_BLOCKED"}
  /\ main = "parked" => gState = "UNLOAD_BLOCKED"
  /\ ~escaped /\ gState = "UNLOAD_BLOCKED" => main \in {"unload", "parked"}
  /\ ~ok => Quiescing \/ main = "parked"
  /\ image = "unloaded" <=> main \in Over
  /\ running \subseteq present
  /\ main \notin Ending \cup {"parked"} => running \subseteq steps
  /\ main \in Starting \cup {"rollback"} /\ "bfe" \notin steps => ~subscribed /\ callback = "idle"
  /\ main \notin {"entry", "destroy", "parked"} \cup Over => "device" \in present
  /\ ~escaped /\ main = "parked" => "device" \in present
  /\ main = "entry" => steps = {} /\ present = {}

\* The shape of what is left to do.
TodoInv ==
  /\ Distinct(todo)
  /\ main = "start" =>
       /\ ~Lists(todo, "wfp") /\ ~Lists(todo, "device") /\ EndsIn(todo, "bfe")
       /\ todo # <<>> => "bfe" \notin steps
  /\ main = "unload" => BfeFirst(todo)
  /\ main = "destroy" => EndsIn(todo, "device") /\ (todo # <<>> => "device" \in present)

\* The mutex is the callback's or the main thread's, as their control points say; and a
\* teardown that succeeded has left nothing behind.
AtTeardown == Quiescing /\ todo # <<>> /\ Head(todo) = "wfp"

OwnerInv ==
  /\ mutex = Callback <=> callback = "installing"
  /\ main = "installing" => mutex = Main
  /\ mutex = Main => main = "installing" \/ AtTeardown
  /\ op \in TeardownOps \/ result \in {"TRUE", "FALSE"} => mutex = Main /\ Quiescing
  /\ op \in InstallOps \/ result \in {"SUCCESS", "FAILED"} =>
       mutex = Callback \/ main = "installing"
  /\ result = "TRUE" => ~engine /\ ~installed /\ (ok => registered \subseteq Exempt)

\* A callout that is registered and neither on the books nor exempt has been reported:
\* in the teardown that left it, in its result, in ok, and at last in the state.
CurrentInv ==
  \/ Current
  \/ op \in TeardownOps /\ ~clean
  \/ result = "FALSE"
  \/ ~ok
  \/ main = "parked"

\* No session, no callout but the exempt ones, and nobody in the manager.
NoTraffic == ~engine /\ registered \subseteq Exempt /\ mutex = NoCaller

\* As long as all went well, what has been taken off the list is quiet, and stays so: the
\* subsystems, the callback, if it has not escaped the drain, and then the manager.
GoingWell == Quiescing /\ ok

RunningInv ==
  /\ GoingWell => \A s \in running : Lists(todo, s)
  /\ main \in Ending => running = {}

NoCallback == callback \notin Entered /\ (stopped \/ callback = "idle")

PastBfe == main \in Ending \/ (GoingWell /\ ~Lists(todo, "bfe"))

BfeInv ==
  PastBfe =>
    /\ ~subscribed
    /\ gState # "UNINITIALIZED" => stopped
    /\ ~escaped => NoCallback

Silent ==
  \/ main \in {"entry", "start"} \cup Ending
  \/ GoingWell /\ ~Lists(todo, "wfp")

TrafficInv ==
  /\ ~escaped /\ Silent => NoTraffic
  /\ GoingWell /\ ~Lists(todo, "wfp") /\ main = "unload" => ~Lists(todo, "bfe")

LifeInv ==
  /\ ManagerInv /\ LifeTyped /\ CallbackInv /\ MainInv /\ TodoInv
  /\ OwnerInv /\ CurrentInv /\ RunningInv /\ BfeInv /\ TrafficInv

\* What doing the next step leaves of the list.
LEMMA HeadDone ==
  ASSUME LifeInv, todo # <<>>
  PROVE  /\ Head(todo) \in StepNames /\ Lists(todo, Head(todo))
         /\ Tail(todo) \in Seq(StepNames) /\ Len(Tail(todo)) = Len(todo) - 1
         /\ Distinct(Tail(todo))
         /\ \A s : Lists(Tail(todo), s) <=> Lists(todo, s) /\ s # Head(todo)
         /\ \A s : EndsIn(todo, s) =>
              EndsIn(Tail(todo), s) /\ (Tail(todo) = <<>> <=> Head(todo) = s)
         /\ BfeFirst(todo) =>
              BfeFirst(Tail(todo)) /\ (Head(todo) = "wfp" => ~Lists(todo, "bfe"))
BY RestOf DEF LifeInv, TodoInv, LifeTyped

LEMMA WfpIsDone ==
  ASSUME LifeInv, TornDown
  PROVE  todo # <<>> /\ Head(todo) = "wfp"
BY LifecycleAssumption, WfpAssumption
   DEF LifeInv, TornDown, Unlock, OwnerInv, AtTeardown, Quiescing, Main, Callback

LEMMA LifeTypedNext ==
  ASSUME LifeInv, Next
  PROVE  LifeTyped'
<1> USE DEF LifeInv, wfpVars, objs, kernel, env, cb, rundown, parts, LifeTyped, MainPoints,
Starting, Over, Ending
<1>1. CASE CreateDevice
  <2>1. todo' \in Seq(StepNames) /\ Len(todo') <= 6
    BY <1>1, OrdersAre DEF CreateDevice
  <2>2. present' \subseteq Parts /\ steps' \subseteq Parts \cup {"bfe"}
    BY <1>1 DEF CreateDevice, Parts
  <2>3. main' \in MainPoints /\ image' \in {"loaded", "unloaded"}
    BY <1>1 DEF CreateDevice
  <2> QED
    BY <1>1, <2>1, <2>2, <2>3 DEF CreateDevice
<1>2. CASE StartStep
  <2>1. todo' \in Seq(StepNames) /\ Len(todo') <= 6
    <3>1. todo' = Tail(todo) \/ todo' = RollbackOrder
      BY <1>2 DEF StartStep
    <3>2. Tail(todo) \in Seq(StepNames) /\ Len(Tail(todo)) <= 6
      BY <1>2, HeadDone DEF StartStep
    <3> QED
      BY <3>1, <3>2, OrdersAre
  <2>2. Head(todo) \in StepNames \ {"wfp", "device"}
    BY <1>2, HeadDone DEF StartStep, TodoInv
  <2>3. present' \subseteq Parts /\ steps' \subseteq Parts \cup {"bfe"}
    BY <1>2, <2>2 DEF StartStep, Parts, StepNames
  <2>4. running' \subseteq Busy /\ subscribed' \in BOOLEAN /\ ok' \in BOOLEAN
    BY <1>2 DEF StartStep
  <2>5. main' \in MainPoints
    BY <1>2 DEF StartStep
  <2> QED
    BY <1>2, <2>1, <2>3, <2>4, <2>5 DEF StartStep
<1>3. CASE Installed
  <2>1. main' \in MainPoints
    BY <1>3 DEF Installed
  <2>2. todo' \in Seq(StepNames) /\ Len(todo') <= 6 /\ ok' \in BOOLEAN
    BY <1>3, OrdersAre DEF Installed
  <2> QED
    BY <1>3, <2>1, <2>2 DEF Installed
<1>4. CASE Unload
  BY <1>4, OrdersAre DEF Unload
<1>5. CASE SkipStep
  BY <1>5, HeadDone DEF SkipStep
<1>6. CASE QuiesceStep
  BY <1>6, HeadDone DEF QuiesceStep, IsActive
<1>7. CASE Unsubscribe
  <2>1. todo' \in Seq(StepNames) /\ Len(todo') <= 6
    <3>1. todo # <<>> /\ todo' \in {todo, Tail(todo)}
      BY <1>7 DEF Unsubscribe
    <3> QED
      BY <3>1, HeadDone
  <2>2. ok' \in BOOLEAN /\ subscribed' \in BOOLEAN /\ stopped' \in BOOLEAN
    BY <1>7 DEF Unsubscribe
  <2> QED
    BY <1>7, <2>1, <2>2 DEF Unsubscribe
<1>8. CASE DrainCallbacks
  BY <1>8, HeadDone DEF DrainCallbacks
<1>9. CASE TornDown
  BY <1>9, HeadDone, WfpIsDone DEF TornDown
<1>10. CASE Quiesced
  BY <1>10, OrdersAre, NothingListed DEF Quiesced, DestroyAllowed, DestroyOrder
<1>11. CASE DestroyStep
  <2>1. todo' \in Seq(StepNames) /\ Len(todo') <= 6
    BY <1>11, HeadDone DEF DestroyStep
  <2>2. present' \subseteq Parts /\ steps' \subseteq Parts \cup {"bfe"}
    BY <1>11 DEF DestroyStep, StepsAfter
  <2>3. main' \in MainPoints /\ gState' \in {gState, "UNLOAD_BLOCKED"}
    BY <1>11 DEF DestroyStep
  <2> QED
    BY <1>11, <2>1, <2>2, <2>3 DEF DestroyStep
<1>12. CASE BfeChanges
  <2>1. transitions' \in Nat /\ transitions' <= MaxTransitions
    BY <1>12, LifecycleAssumption DEF BfeChanges
  <2>2. bfe' \in BOOLEAN /\ cbState' \in BOOLEAN
    BY <1>12 DEF BfeChanges
  <2>3. callback' \in Entered \cup {"idle", "called"}
    BY <1>12 DEF BfeChanges
  <2> QED
    BY <1>12, <2>1, <2>2, <2>3 DEF BfeChanges
<1>13. CASE CallbackAcquire
  BY <1>13 DEF CallbackAcquire, Entered
<1>14. CASE CallbackCheck
  BY <1>14 DEF CallbackCheck, Entered
<1>15. CASE CallbackInstall
  BY <1>15 DEF CallbackInstall, Entered
<1>16. CASE CallbackInstalled
  BY <1>16 DEF CallbackInstalled, Entered
<1>17. CASE StartWfp
  <2>1. main' \in MainPoints /\ deferred' \in BOOLEAN
    BY <1>17 DEF StartWfp
  <2> QED
    BY <1>17, <2>1 DEF StartWfp
<1>18. CASE ShRuntimeInit \/ ShRuntimeActivate \/ Teardown \/ ReadTeardown
     \/ ShRuntimeEnterQuiescent \/ Return
  <2>1. main' \in MainPoints
    BY <1>18 DEF ShRuntimeInit, ShRuntimeActivate, Teardown, ReadTeardown,
       ShRuntimeEnterQuiescent, Return
  <2>2. gState' \in {gState, "ACTIVE", "QUIESCENT"} /\ stopped' \in {stopped, FALSE}
        /\ image' \in {image, "unloaded"}
    BY <1>18 DEF ShRuntimeInit, ShRuntimeActivate, Teardown, ReadTeardown,
       ShRuntimeEnterQuiescent, Return
  <2> QED
    <3>1. CASE ShRuntimeInit
      <4>1. stopped' \in BOOLEAN
        BY <2>2
      <4> QED
        BY <2>1, <3>1, <4>1 DEF ShRuntimeInit
    <3>4. CASE ShRuntimeActivate
      <4>1. gState' \in {"UNINITIALIZED", "ACTIVE", "TEARDOWN", "QUIESCENT", "UNLOAD_BLOCKED"}
        BY <2>2
      <4> QED
        BY <2>1, <3>4, <4>1 DEF ShRuntimeActivate
    <3>2. CASE Teardown
      BY <2>1, <2>2, <3>2 DEF Teardown
    <3>3. CASE ReadTeardown \/ ShRuntimeEnterQuiescent \/ Return
      BY <2>1, <2>2, <3>3 DEF ReadTeardown, ShRuntimeEnterQuiescent, Return
    <3> QED
      BY <1>18, <3>1, <3>2, <3>3, <3>4
<1>20. CASE SkLifecycleDestroy
  <2>1. todo' \in Seq(StepNames) /\ Len(todo') <= 6
    BY <1>20, OrdersAre, NothingListed DEF SkLifecycleDestroy
  <2>2. main' \in MainPoints
    BY <1>20 DEF SkLifecycleDestroy
  <2> QED
    BY <1>20, <2>1, <2>2 DEF SkLifecycleDestroy
<1>19. CASE CallbackRelease \/ UndoUnderflow \/ ShRuntimeReportUnderflow \/ CallbackBlocks
     \/ ManagerStep \/ Ended
  <2>1. callback' \in Entered \cup {"idle", "called"} /\ gState' \in {gState, "UNLOAD_BLOCKED"}
    BY <1>19 DEF CallbackRelease, UndoUnderflow, ShRuntimeReportUnderflow, CallbackBlocks,
       ManagerStep, Ended, vars, Entered
  <2> QED
    BY <1>19, <2>1 DEF CallbackRelease, UndoUnderflow, ShRuntimeReportUnderflow, CallbackBlocks,
       ManagerStep, Ended, vars
<1> QED
  BY <1>1, <1>2, <1>3, <1>4, <1>5, <1>6, <1>7, <1>8, <1>9, <1>10, <1>11, <1>12, <1>13, <1>14,
     <1>15, <1>16, <1>17, <1>18, <1>19, <1>20 DEF Next, MainStep, CallbackStep

LEMMA CallbackInvNext ==
  ASSUME LifeInv, Next
  PROVE  CallbackInv'
<1> USE DEF LifeInv, wfpVars, objs, kernel, env, cb, rundown, parts, CallbackInv, LifeTyped, Entered
<1>1. CASE StartStep
  BY <1>1 DEF StartStep, MainInv, Starting, TodoInv, EndsIn, Over, Ending
<1>2. CASE CallbackCheck
  BY <1>2 DEF CallbackCheck, IsActive
<1>3. CASE CreateDevice \/ StartWfp \/ Installed \/ SkipStep \/ QuiesceStep \/ Teardown \/ TornDown
  BY <1>3 DEF CreateDevice, StartWfp, Installed, SkipStep, QuiesceStep, Teardown, TornDown,
     Starting, Quiescing
<1>4. CASE Unsubscribe \/ DrainCallbacks
  BY <1>4 DEF Unsubscribe, DrainCallbacks
<1>5. CASE ShRuntimeInit
  <2>1. gState = "UNINITIALIZED" /\ main = "activate"
    BY <1>5 DEF ShRuntimeInit, MainInv, Starting
  <2>2. callback \notin {"rollback", "report", "blocking", "install", "installing"}
    BY <2>1 DEF Starting
  <2> QED
    BY <1>5, <2>1, <2>2 DEF ShRuntimeInit, Starting
<1>6. CASE ShRuntimeActivate \/ Unload
  BY <1>6 DEF ShRuntimeActivate, Unload, MainInv, Starting
<1>7. CASE Quiesced \/ ReadTeardown \/ ShRuntimeEnterQuiescent \/ SkLifecycleDestroy \/ DestroyStep
     \/ Return
  BY <1>7 DEF Quiesced, ReadTeardown, ShRuntimeEnterQuiescent, SkLifecycleDestroy, DestroyStep,
     Return, Starting
<1>8. CASE BfeChanges \/ CallbackAcquire \/ CallbackInstall \/ CallbackInstalled
  BY <1>8 DEF BfeChanges, CallbackAcquire, CallbackInstall, CallbackInstalled
<1>9. CASE CallbackRelease
  <2>1. inside \in {0, 1} /\ inside' = inside - 1 /\ UNCHANGED <<main, gState, stopped, subscribed>>
    BY <1>9 DEF CallbackRelease
  <2>2. CASE inside = 0
    BY <1>9, <2>1, <2>2 DEF CallbackRelease
  <2>3. CASE inside = 1
    BY <1>9, <2>1, <2>3 DEF CallbackRelease
  <2> QED
    BY <2>1, <2>2, <2>3
<1>10. CASE UndoUnderflow
  BY <1>10 DEF UndoUnderflow
<1>11. CASE ShRuntimeReportUnderflow \/ CallbackBlocks
  BY <1>11 DEF ShRuntimeReportUnderflow, CallbackBlocks
<1>12. CASE ManagerStep \/ Ended
  BY <1>12 DEF ManagerStep, Ended, vars
<1> QED
  BY <1>1, <1>2, <1>3, <1>4, <1>5, <1>6, <1>7, <1>8, <1>9, <1>10, <1>11, <1>12
     DEF Next, MainStep, CallbackStep

LEMMA MainInvNext ==
  ASSUME LifeInv, Next
  PROVE  MainInv'
<1> USE DEF LifeInv, wfpVars, objs, kernel, env, cb, rundown, parts, MainInv, LifeTyped, Starting,
Over, Ending, Quiescing, MainPoints
<1>1. CASE StartStep
  BY <1>1, HeadDone DEF StartStep, Busy, TodoInv
<1>2. CASE SkipStep
  BY <1>2, HeadDone DEF SkipStep
<1>3. CASE QuiesceStep
  BY <1>3, HeadDone DEF QuiesceStep, IsActive
<1>4. CASE Unsubscribe
  BY <1>4, HeadDone DEF Unsubscribe, Applies
<1>5. CASE DrainCallbacks
  BY <1>5, HeadDone DEF DrainCallbacks
<1>6. CASE TornDown
  BY <1>6, HeadDone, WfpIsDone DEF TornDown
<1>7. CASE Quiesced
  BY <1>7 DEF Quiesced, DestroyAllowed
<1>8. CASE DestroyStep
  BY <1>8, HeadDone DEF DestroyStep, TodoInv, RunningInv
<1>9. CASE CreateDevice \/ StartWfp \/ Installed \/ ShRuntimeInit \/ ShRuntimeActivate
     \/ Unload \/ Teardown
     \/ ReadTeardown \/ ShRuntimeEnterQuiescent \/ SkLifecycleDestroy \/ Return
  BY <1>9 DEF CreateDevice, StartWfp, Installed, ShRuntimeInit, ShRuntimeActivate, Unload,
       Teardown, ReadTeardown, ShRuntimeEnterQuiescent, SkLifecycleDestroy, Return
<1>10. CASE BfeChanges \/ CallbackAcquire \/ CallbackCheck \/ CallbackInstall
     \/ CallbackInstalled \/ CallbackRelease \/ UndoUnderflow \/ ShRuntimeReportUnderflow
     \/ ManagerStep \/ Ended
  BY <1>10 DEF BfeChanges, CallbackAcquire, CallbackCheck, CallbackInstall,
     CallbackInstalled, CallbackRelease, UndoUnderflow, ShRuntimeReportUnderflow,
     ManagerStep, Ended, vars
<1>11. CASE CallbackBlocks
  <2>1. gState \in {"TEARDOWN", "QUIESCENT", "UNLOAD_BLOCKED"} /\ callback \in Entered
    BY <1>11 DEF CallbackBlocks, CallbackInv, Entered
  <2>2. ~escaped => main \notin Ending
    BY <2>1 DEF BfeInv, PastBfe, NoCallback
  <2>3. main \in {"unload", "parked"} \cup Ending
    BY <2>1
  <2> QED
    BY <1>11, <2>1, <2>2, <2>3 DEF CallbackBlocks
<1> QED
  BY <1>1, <1>2, <1>3, <1>4, <1>5, <1>6, <1>7, <1>8, <1>9, <1>10, <1>11
       DEF Next, MainStep, CallbackStep

LEMMA TodoInvNext ==
  ASSUME LifeInv, Next
  PROVE  TodoInv'
<1> USE DEF LifeInv, wfpVars, objs, kernel, env, cb, rundown, parts, TodoInv, LifeTyped, Quiescing
<1>1. CASE CreateDevice
  BY <1>1, OrdersAre DEF CreateDevice, MainInv
<1>2. CASE StartStep
  BY <1>2, HeadDone, OrdersAre DEF StartStep
<1>3. CASE Installed
  BY <1>3, OrdersAre DEF Installed
<1>4. CASE Unload
  BY <1>4, OrdersAre DEF Unload
<1>5. CASE SkipStep
  BY <1>5, HeadDone DEF SkipStep
<1>6. CASE QuiesceStep
  BY <1>6, HeadDone DEF QuiesceStep
<1>7. CASE Unsubscribe
  BY <1>7, HeadDone DEF Unsubscribe
<1>8. CASE DrainCallbacks
  BY <1>8, HeadDone DEF DrainCallbacks
<1>9. CASE TornDown
  BY <1>9, HeadDone, WfpIsDone DEF TornDown
<1>10. CASE Quiesced
  BY <1>10 DEF Quiesced
<1>14. CASE SkLifecycleDestroy
  <2>1. main' = "destroy" /\ present' = present /\ "device" \in present
    BY <1>14 DEF SkLifecycleDestroy, MainInv, Over
  <2>2. todo' \in {DestroyOrder, <<>>}
    BY <1>14 DEF SkLifecycleDestroy
  <2>3. Distinct(todo') /\ EndsIn(todo', "device")
    BY <2>2, OrdersAre, NothingListed
  <2> QED
    BY <2>1, <2>3
<1>11. CASE DestroyStep
  BY <1>11, HeadDone DEF DestroyStep
<1>12. CASE StartWfp \/ ShRuntimeInit \/ ShRuntimeActivate \/ Teardown \/ ReadTeardown
     \/ ShRuntimeEnterQuiescent \/ Return
  BY <1>12 DEF StartWfp, ShRuntimeInit, ShRuntimeActivate, Teardown, ReadTeardown,
       ShRuntimeEnterQuiescent, Return
<1>13. CASE BfeChanges \/ CallbackAcquire \/ CallbackCheck \/ CallbackInstall
     \/ CallbackInstalled \/ CallbackRelease \/ UndoUnderflow \/ ShRuntimeReportUnderflow
     \/ CallbackBlocks \/ ManagerStep \/ Ended
  BY <1>13 DEF BfeChanges, CallbackAcquire, CallbackCheck, CallbackInstall,
     CallbackInstalled, CallbackRelease, UndoUnderflow, ShRuntimeReportUnderflow, CallbackBlocks,
     ManagerStep, Ended, vars
<1> QED
  BY <1>1, <1>2, <1>3, <1>4, <1>5, <1>6, <1>7, <1>8, <1>9, <1>10, <1>11, <1>12, <1>13, <1>14
       DEF Next, MainStep, CallbackStep

LEMMA OwnerInvNext ==
  ASSUME LifeInv, Next
  PROVE  OwnerInv'
<1> USE DEF LifeInv, wfpVars, objs, kernel, env, cb, rundown, parts, OwnerInv, Quiescing,
AtTeardown, Exempt, Main, Callback, InstallOps, TeardownOps, ManagerInv, CallInv
<1>1. Callers = {"main", "callback"} /\ NoCaller \notin Callers
  BY WfpAssumption, LifecycleAssumption DEF Main, Callback
<1>2. CASE CreateDevice
  BY <1>2, <1>1 DEF CreateDevice
<1>3. CASE StartStep
  BY <1>3, HeadDone, <1>1 DEF StartStep
<1>4. CASE StartWfp
  BY <1>4, <1>1 DEF StartWfp, InstallBegin, Returns, Continues, MainInv
<1>5. CASE Installed
  BY <1>5, <1>1 DEF Installed, Unlock, MainInv
<1>6. CASE SkipStep
  BY <1>6, HeadDone, <1>1 DEF SkipStep, Applies
<1>7. CASE QuiesceStep
  BY <1>7, HeadDone, <1>1 DEF QuiesceStep, Busy
<1>8. CASE Unsubscribe
  BY <1>8, HeadDone, <1>1 DEF Unsubscribe
<1>9. CASE DrainCallbacks
  BY <1>9, HeadDone, <1>1 DEF DrainCallbacks
<1>10. CASE Teardown
  <2>1. mutex = NoCaller /\ mutex' = Main /\ callback' = callback /\ AtTeardown'
    BY <1>10 DEF Teardown, TeardownBegin
  <2>2. op = "none" /\ result = "none" /\ Main # Callback /\ {Main, Callback} \cap {NoCaller} = {}
    BY <1>1, <2>1
  <2>5. /\ Quiescing' /\ main' # "installing"
        /\ (mutex' = Callback <=> callback' = "installing")
    <3>1. Quiescing /\ main' = main
      BY <1>10 DEF Teardown
    <3>2. callback # "installing" /\ mutex' # Callback
      BY <2>1, <2>2
    <3> QED
      BY <2>1, <3>1, <3>2
  <2>3. CASE ~installed /\ ~engine
    <3>1. ok => Current
      BY <1>10, <2>2 DEF CurrentInv, Teardown, Quiescing, TeardownOps
    <3>2. ok => registered \subseteq Exempt
      BY <3>1, <2>2, <2>3, LayersAre DEF Current, BooksInv, GoneAbove, WfpTyped
    <3>3. op' = "return" /\ result' = "TRUE" /\ UNCHANGED <<objs, kernel, main, todo, ok>>
      BY <1>10, <2>3 DEF Teardown, TeardownBegin, Returns
    <3>4. ~engine' /\ ~installed' /\ (ok' => registered' \subseteq Exempt')
      BY <2>3, <3>2, <3>3
    <3> QED
      BY <2>1, <2>5, <3>3, <3>4
  <2>4. CASE ~(~installed /\ ~engine)
    <3>1. op' = "unregister" /\ result' = "none" /\ UNCHANGED <<main, todo>>
      BY <1>10, <2>2, <2>4 DEF Teardown, TeardownBegin, Continues
    <3> QED
      BY <2>1, <2>5, <3>1
  <2> QED
    BY <2>3, <2>4
<1>11. CASE TornDown
  BY <1>11, HeadDone, WfpIsDone, <1>1 DEF TornDown, Unlock
<1>12. CASE Quiesced
  BY <1>12, <1>1 DEF Quiesced
<1>13. CASE DestroyStep
  BY <1>13, HeadDone DEF DestroyStep
<1>14. CASE CallbackInstall
  BY <1>14, <1>1 DEF CallbackInstall, InstallBegin, Returns, Continues
<1>15. CASE CallbackInstalled
  BY <1>15, <1>1 DEF CallbackInstalled, Unlock
<1>16. CASE ManagerStep
  <2>1. WfpStep /\ UNCHANGED <<main, todo, ok, callback>>
    BY <1>16 DEF ManagerStep
  <2>2. /\ mutex' = mutex /\ mutex # NoCaller
        /\ op \in InstallOps =>
             /\ op' \in InstallOps \cup {"return"}
             /\ result' \in {"none", "SUCCESS", "FAILED"}
        /\ op \in TeardownOps =>
             /\ op' \in TeardownOps \cup {"return"}
             /\ result' \in {"none", "TRUE", "FALSE"}
        /\ op \in InstallOps \cup TeardownOps /\ result = "none"
        /\ op' = "return" \/ result' = "none"
    BY <2>1, CallGoesOn
  <2>3. ASSUME result' = "TRUE"
        PROVE  ~engine' /\ ~installed' /\ (ok => registered' \subseteq Exempt')
    <3>1. op \in TeardownOps
      BY <2>2, <2>3
    <3>2. ok /\ clean => Current
      BY <2>2, <3>1 DEF CurrentInv
    <3>3. clean
      BY <2>1, <2>2, <2>3, <3>1, StaysUnclean
    <3> QED
      BY <2>1, <2>3, <3>2, <3>3, CleanTeardown
  <2>4. /\ (mutex' = Callback <=> callback' = "installing")
        /\ (main' = "installing" => mutex' = Main)
        /\ (mutex' = Main => main' = "installing" \/ AtTeardown')
    BY <2>1, <2>2
  <2>5. op' \in TeardownOps \/ result' \in {"TRUE", "FALSE"} => mutex' = Main /\ Quiescing'
    BY <2>1, <2>2
  <2>6. op' \in InstallOps \/ result' \in {"SUCCESS", "FAILED"} =>
          mutex' = Callback \/ main' = "installing"
    BY <2>1, <2>2
  <2> QED
    BY <2>1, <2>3, <2>4, <2>5, <2>6
<1>17. CASE ShRuntimeInit \/ ShRuntimeActivate \/ Unload \/ ReadTeardown
     \/ ShRuntimeEnterQuiescent \/ SkLifecycleDestroy \/ Return
  BY <1>17 DEF ShRuntimeInit, ShRuntimeActivate, Unload, ReadTeardown, ShRuntimeEnterQuiescent,
       SkLifecycleDestroy, Return
<1>18. CASE BfeChanges \/ CallbackAcquire \/ CallbackCheck \/ CallbackRelease \/ UndoUnderflow
     \/ ShRuntimeReportUnderflow \/ CallbackBlocks \/ Ended
  BY <1>18 DEF BfeChanges, CallbackAcquire, CallbackCheck, CallbackRelease, UndoUnderflow,
       ShRuntimeReportUnderflow, CallbackBlocks, Ended, vars
<1> QED
  BY <1>2, <1>3, <1>4, <1>5, <1>6, <1>7, <1>8, <1>9, <1>10, <1>11, <1>12, <1>13, <1>14,
     <1>15, <1>16, <1>17, <1>18 DEF Next, MainStep, CallbackStep

\* The main thread starts a new account only of what went well so far.
LEMMA FailureIsKept ==
  ASSUME LifeInv, Next, ~ok
  PROVE  ~ok'
<1>1. main \notin Starting \cup {"run"}
  BY DEF LifeInv, MainInv
<1>2. CASE ManagerStep \/ BfeChanges \/ CallbackStep \/ Ended
  BY <1>2 DEF ManagerStep, BfeChanges, CallbackStep, CallbackAcquire, CallbackCheck,
     CallbackInstall, CallbackInstalled, CallbackRelease, UndoUnderflow, ShRuntimeReportUnderflow,
     CallbackBlocks, Ended, vars
<1>3. CASE MainStep \/ Unload
  BY <1>1, <1>3 DEF MainStep, CreateDevice, StartStep, StartWfp, Installed, ShRuntimeInit,
       ShRuntimeActivate,
     SkipStep, QuiesceStep, Unsubscribe, DrainCallbacks, Teardown, TornDown, Quiesced,
     DestroyStep, ReadTeardown, ShRuntimeEnterQuiescent, SkLifecycleDestroy, Return, Unload,
     Starting
<1> QED
  BY <1>2, <1>3 DEF Next

LEMMA ParkedIsKept ==
  ASSUME Next, main = "parked"
  PROVE  main' = "parked"
BY DEF Next, MainStep, CreateDevice, StartStep, StartWfp, Installed, ShRuntimeInit,
     ShRuntimeActivate,
   SkipStep, QuiesceStep, Unsubscribe, DrainCallbacks, Teardown, TornDown, Quiesced,
   DestroyStep, ReadTeardown, ShRuntimeEnterQuiescent, SkLifecycleDestroy, Return, Unload,
   Quiescing, ManagerStep, BfeChanges, CallbackStep,
   CallbackAcquire, CallbackCheck, CallbackInstall, CallbackInstalled, CallbackRelease,
   UndoUnderflow, ShRuntimeReportUnderflow, CallbackBlocks,
   Ended, vars

\* Who moves the manager.
LEMMA ManagerMoves ==
  ASSUME Next
  PROVE  \/ UNCHANGED wfpVars
         \/ ManagerStep
         \/ StartWfp /\ InstallBegin(Main)
         \/ CallbackInstall \/ Teardown
         \/ Installed \/ CallbackInstalled \/ TornDown
BY DEF Next, MainStep, CreateDevice, StartStep, StartWfp, ShRuntimeInit, ShRuntimeActivate,
   SkipStep, QuiesceStep, Unsubscribe, DrainCallbacks, Quiesced,
   DestroyStep, ReadTeardown, ShRuntimeEnterQuiescent, SkLifecycleDestroy, Return, Unload,
   BfeChanges, CallbackStep,
   CallbackAcquire, CallbackCheck, CallbackRelease, UndoUnderflow, ShRuntimeReportUnderflow,
   CallbackBlocks, Ended, vars

LEMMA CurrentInvNext ==
  ASSUME LifeInv, Next
  PROVE  CurrentInv'
<1>1. /\ op # "none" => mutex # NoCaller
      /\ op \in TeardownOps \cup {"return"} <=> op \in TeardownOps \/ op = "return"
      /\ mutex = Main => mutex # Callback
      /\ op \in TeardownOps \/ result = "FALSE" => mutex = Main /\ Quiescing
      /\ Quiescing => main # "installing"
      /\ ManagerInv
  BY DEF LifeInv, ManagerInv, CallInv, OwnerInv, Main, Callback, Quiescing
<1>2. CASE ~ok
  BY <1>2, FailureIsKept DEF CurrentInv
<1>3. CASE main = "parked"
  BY <1>3, ParkedIsKept DEF CurrentInv
<1>4. CASE UNCHANGED wfpVars /\ ok /\ main # "parked"
  <2>1. UNCHANGED <<st, registered, lost, abandoned, op, clean, result>>
    BY <1>4 DEF wfpVars, objs, kernel
  <2>2. Current \/ (op \in TeardownOps /\ ~clean) \/ result = "FALSE"
    BY <1>4 DEF LifeInv, CurrentInv
  <2>3. Current => Current'
    BY <2>1 DEF Current, Exempt, OnTheBooks
  <2> QED
    BY <2>1, <2>2, <2>3 DEF CurrentInv
<1>5. CASE ManagerStep /\ ok /\ main # "parked"
  <2>1. WfpStep /\ result # "FALSE"
    BY <1>1, <1>5, CallGoesOn DEF ManagerStep
  <2>2. CASE Current
    BY <1>1, <2>1, <2>2, StaysCurrent DEF CurrentInv
  <2>3. CASE op \in TeardownOps /\ ~clean
    BY <1>1, <2>1, <2>3, StaysUnclean DEF CurrentInv
  <2> QED
    BY <1>5, <2>1, <2>2, <2>3 DEF LifeInv, CurrentInv
<1>6. CASE (InstallBegin(Main) \/ InstallBegin(Callback) \/ Teardown) /\ ok /\ main # "parked"
  <2>1. mutex = NoCaller /\ op = "none" /\ result = "none"
    BY <1>6 DEF InstallBegin, Teardown, TeardownBegin, LifeInv, ManagerInv, CallInv
  <2>2. Current
    BY <1>6, <2>1 DEF LifeInv, CurrentInv, TeardownOps
  <2>3. InstallBegin(Main) \/ InstallBegin(Callback) => Current'
    BY <1>1, <2>2, InstallKeepsCurrent
  <2>4. Teardown => Current'
    BY <2>2 DEF Teardown, TeardownBegin, Current, Exempt, OnTheBooks, objs, kernel
  <2> QED
    BY <1>6, <2>3, <2>4 DEF CurrentInv
<1>7. CASE (Installed \/ CallbackInstalled \/ TornDown) /\ ok /\ main # "parked"
  <2>1. op = "return" /\ op \notin TeardownOps /\ UNCHANGED <<st, registered, lost, abandoned>>
    BY <1>7 DEF Installed, CallbackInstalled, TornDown, Unlock, TeardownOps, objs, kernel
  <2>2. Current => Current'
    BY <2>1 DEF Current, Exempt, OnTheBooks
  <2>3. result = "FALSE" => TornDown
    BY <1>1, <1>7 DEF Installed, CallbackInstalled, Unlock
  <2>4. TornDown /\ result = "FALSE" => ~ok'
    BY DEF TornDown
  <2> QED
    BY <1>7, <2>1, <2>2, <2>3, <2>4 DEF LifeInv, CurrentInv
<1> QED
  BY <1>2, <1>3, <1>4, <1>5, <1>6, <1>7, ManagerMoves DEF CallbackInstall

LEMMA RunningInvNext ==
  ASSUME LifeInv, Next
  PROVE  RunningInv'
<1> USE DEF LifeInv, wfpVars, objs, kernel, env, cb, rundown, parts, RunningInv, GoingWell,
Quiescing, Over, Ending
<1>1. CASE CreateDevice
  BY <1>1 DEF CreateDevice, MainInv
<1>2. CASE StartStep
  BY <1>2, HeadDone, OrdersAre DEF StartStep, LifeTyped
<1>3. CASE Installed
  BY <1>3, OrdersAre DEF Installed, LifeTyped
<1>4. CASE Unload
  BY <1>4, OrdersAre DEF Unload, LifeTyped
<1>5. CASE SkipStep
  BY <1>5, HeadDone DEF SkipStep, MainInv, Applies, LifeTyped, Over, Ending
<1>6. CASE QuiesceStep
  BY <1>6, HeadDone DEF QuiesceStep
<1>7. CASE Unsubscribe
  BY <1>7, HeadDone DEF Unsubscribe
<1>8. CASE DrainCallbacks
  BY <1>8, HeadDone DEF DrainCallbacks, LifeTyped, Busy
<1>9. CASE TornDown
  BY <1>9, HeadDone, WfpIsDone DEF TornDown, LifeTyped, Busy
<1>10. CASE Quiesced
  BY <1>10, NothingListed DEF Quiesced
<1>11. CASE DestroyStep
  BY <1>11, HeadDone DEF DestroyStep
<1>12. CASE StartWfp \/ ShRuntimeInit \/ ShRuntimeActivate \/ Teardown \/ ReadTeardown
     \/ ShRuntimeEnterQuiescent \/ SkLifecycleDestroy \/ Return
  BY <1>12 DEF StartWfp, ShRuntimeInit, ShRuntimeActivate, Teardown, ReadTeardown,
       ShRuntimeEnterQuiescent, SkLifecycleDestroy, Return
<1>13. CASE BfeChanges \/ CallbackAcquire \/ CallbackCheck \/ CallbackInstall
     \/ CallbackInstalled \/ CallbackRelease \/ UndoUnderflow \/ ShRuntimeReportUnderflow
     \/ CallbackBlocks \/ ManagerStep \/ Ended
  BY <1>13 DEF BfeChanges, CallbackAcquire, CallbackCheck, CallbackInstall,
     CallbackInstalled, CallbackRelease, UndoUnderflow, ShRuntimeReportUnderflow, CallbackBlocks,
     ManagerStep, Ended, vars
<1> QED
  BY <1>1, <1>2, <1>3, <1>4, <1>5, <1>6, <1>7, <1>8, <1>9, <1>10, <1>11, <1>12, <1>13
       DEF Next, MainStep, CallbackStep

LEMMA BfeInvNext ==
  ASSUME LifeInv, Next
  PROVE  BfeInv'
<1> USE DEF LifeInv, wfpVars, objs, kernel, env, cb, rundown, parts, BfeInv, NoCallback, PastBfe,
GoingWell, Quiescing, CallbackInv, Entered, Over, Ending
<1>1. CASE CreateDevice
  BY <1>1 DEF CreateDevice, MainInv, Starting
<1>2. CASE StartStep
  BY <1>2, HeadDone, OrdersAre DEF StartStep
<1>3. CASE Installed
  BY <1>3, OrdersAre DEF Installed
<1>4. CASE Unload
  BY <1>4, OrdersAre DEF Unload
<1>5. CASE SkipStep
  BY <1>5, HeadDone DEF SkipStep, MainInv, Starting, Applies
<1>6. CASE QuiesceStep
  BY <1>6, HeadDone DEF QuiesceStep, Busy
<1>7. CASE Unsubscribe
  BY <1>7, HeadDone DEF Unsubscribe
<1>8. CASE DrainCallbacks
  BY <1>8, HeadDone DEF DrainCallbacks
<1>9. CASE TornDown
  BY <1>9, HeadDone, WfpIsDone DEF TornDown
<1>10. CASE Quiesced
  BY <1>10, NothingListed DEF Quiesced
<1>11. CASE DestroyStep
  BY <1>11, HeadDone DEF DestroyStep
<1>12. CASE StartWfp \/ ShRuntimeInit \/ ShRuntimeActivate
  BY <1>12 DEF StartWfp, ShRuntimeInit, ShRuntimeActivate
<1>14. CASE Teardown \/ ReadTeardown \/ SkLifecycleDestroy \/ Return
  BY <1>14 DEF Teardown, ReadTeardown, SkLifecycleDestroy, Return
<1>15. CASE ShRuntimeEnterQuiescent
  BY <1>15 DEF ShRuntimeEnterQuiescent, MainInv
<1>13. CASE BfeChanges \/ CallbackAcquire \/ CallbackCheck \/ CallbackInstall
     \/ CallbackInstalled \/ CallbackRelease \/ UndoUnderflow \/ ShRuntimeReportUnderflow
     \/ CallbackBlocks \/ ManagerStep \/ Ended
  BY <1>13 DEF BfeChanges, CallbackAcquire, CallbackCheck, CallbackInstall,
     CallbackInstalled, CallbackRelease, UndoUnderflow, ShRuntimeReportUnderflow, CallbackBlocks,
     ManagerStep, Ended, vars
<1> QED
  BY <1>1, <1>2, <1>3, <1>4, <1>5, <1>6, <1>7, <1>8, <1>9, <1>10, <1>11, <1>12, <1>13, <1>14, <1>15
       DEF Next, MainStep, CallbackStep

LEMMA NoTrafficIsKept ==
  ASSUME Next, ManagerInv, NoTraffic, ~(StartWfp /\ InstallBegin(Main)), ~CallbackInstall, ~Teardown
  PROVE  NoTraffic'
<1>1. ~ManagerStep
  BY CallGoesOn DEF ManagerStep, NoTraffic
<1>2. ~Installed /\ ~CallbackInstalled /\ ~TornDown
  BY WfpAssumption, LifecycleAssumption DEF Installed, CallbackInstalled, TornDown, Unlock,
       NoTraffic
<1> QED
  BY <1>1, <1>2, ManagerMoves DEF NoTraffic, Exempt, wfpVars, objs, kernel

\* What has escaped once is never forgotten.
LEMMA EscapedIsKept ==
  ASSUME Next, LifeTyped, ~escaped'
  PROVE  ~escaped
BY DEF LifeTyped, Next, MainStep, CreateDevice, StartStep, StartWfp, Installed, ShRuntimeInit,
   ShRuntimeActivate, SkipStep, QuiesceStep, Unsubscribe, DrainCallbacks, Teardown, TornDown,
   Quiesced, ReadTeardown, ShRuntimeEnterQuiescent, SkLifecycleDestroy, DestroyStep, Return,
   Unload, ManagerStep, BfeChanges, CallbackStep, CallbackAcquire, CallbackCheck, CallbackInstall,
   CallbackInstalled, CallbackRelease, UndoUnderflow, ShRuntimeReportUnderflow, CallbackBlocks,
   Ended, vars, rundown

LEMMA TrafficInvNext ==
  ASSUME LifeInv, Next
  PROVE  TrafficInv'
<1> USE DEF LifeInv, GoingWell, Quiescing
<1>3. CallbackInstall => callback \in Entered /\ gState # "UNINITIALIZED"
  BY DEF CallbackInstall, CallbackInv, Entered
<1>4. Silent /\ ~escaped => ~CallbackInstall
  BY <1>3 DEF Silent, MainInv, Starting, TrafficInv, BfeInv, NoCallback, PastBfe, Over, Ending
<1>5. Silent' => ~(StartWfp /\ InstallBegin(Main))
  BY DEF StartWfp, InstallBegin, Silent, Over, Ending
<1>6. Silent' => ~Teardown
  BY HeadDone DEF Teardown, Silent, Over, Ending
<1>7. TornDown => Head(todo) = "wfp" /\ todo' = Tail(todo) /\ todo # <<>> /\ main' = main
  BY WfpIsDone DEF TornDown
<1>8. ASSUME Silent' PROVE Silent \/ TornDown
  <2>1. CASE CreateDevice \/ StartStep \/ StartWfp \/ Installed \/ ShRuntimeInit
       \/ ShRuntimeActivate \/ Unload
    BY <1>8, <2>1, OrdersAre DEF CreateDevice, StartStep, StartWfp, Installed, ShRuntimeInit,
         ShRuntimeActivate,
       Unload, Silent, Over, Ending
  <2>2. CASE SkipStep
    BY HeadDone, <1>8, <2>2 DEF SkipStep, Applies, Silent, Over, Ending
  <2>3. CASE QuiesceStep
    BY HeadDone, <1>8, <2>3 DEF QuiesceStep, Busy, Silent, Over, Ending
  <2>4. CASE Unsubscribe
    BY HeadDone, <1>8, <2>4 DEF Unsubscribe, Silent, Over, Ending
  <2>5. CASE DrainCallbacks
    BY HeadDone, <1>8, <2>5 DEF DrainCallbacks, Silent, Over, Ending
  <2>6. CASE Quiesced
    BY <1>8, <2>6, NothingListed DEF Quiesced, Silent, Over, Ending
  <2>7. CASE Teardown \/ DestroyStep \/ ReadTeardown \/ ShRuntimeEnterQuiescent
       \/ SkLifecycleDestroy \/ Return
    BY <1>6, <1>8, <2>7 DEF DestroyStep, ReadTeardown, ShRuntimeEnterQuiescent,
         SkLifecycleDestroy, Return, Silent, Over, Ending
  <2>8. CASE CallbackStep \/ BfeChanges \/ ManagerStep \/ Ended
    BY <1>8, <2>8 DEF CallbackStep, CallbackAcquire, CallbackCheck, CallbackInstall,
       CallbackInstalled, CallbackRelease, UndoUnderflow, ShRuntimeReportUnderflow,
       CallbackBlocks, BfeChanges, ManagerStep, Ended, vars, Silent
  <2> QED
    BY <2>1, <2>2, <2>3, <2>4, <2>5, <2>6, <2>7, <2>8 DEF Next, MainStep
<1>9. Silent' /\ ~escaped' => NoTraffic'
  <2>1. CASE TornDown
    <3>1. Silent' => result = "TRUE" /\ ok
      BY <1>7, <2>1 DEF TornDown, Silent, Over, Ending
    <3> QED
      BY <2>1, <3>1 DEF TornDown, Unlock, OwnerInv, NoTraffic, Exempt, objs, kernel
  <2>2. CASE ~TornDown
    BY <1>4, <1>5, <1>6, <1>8, <2>2, EscapedIsKept, NoTrafficIsKept DEF TrafficInv
  <2> QED
    BY <2>1, <2>2
<1>10. GoingWell' /\ ~Lists(todo', "wfp") /\ main' = "unload" => ~Lists(todo', "bfe")
  <2> SUFFICES ASSUME GoingWell', ~Lists(todo', "wfp"), main' = "unload"
               PROVE  ~Lists(todo', "bfe")
    OBVIOUS
  <2>1. CASE TornDown
    BY HeadDone, <1>7, <2>1 DEF TodoInv
  <2>2. CASE ~TornDown
    <3>1. CASE Unload
      BY <3>1, OrdersAre DEF Unload
    <3>2. CASE ~Unload
      <4>1. main = "unload" /\ (todo' = todo \/ (todo # <<>> /\ todo' = Tail(todo)))
        BY <2>2, <3>2 DEF Next, MainStep, CreateDevice, StartStep, StartWfp, Installed,
           ShRuntimeInit, ShRuntimeActivate, SkipStep, QuiesceStep, Unsubscribe, DrainCallbacks,
           Teardown,
           Quiesced, DestroyStep, ReadTeardown, ShRuntimeEnterQuiescent, SkLifecycleDestroy,
           Return, CallbackStep, CallbackAcquire, CallbackCheck,
           CallbackInstall, CallbackInstalled, CallbackRelease, UndoUnderflow,
           ShRuntimeReportUnderflow, CallbackBlocks, BfeChanges, ManagerStep,
           Ended, vars
      <4>2. GoingWell /\ ~Lists(todo, "wfp")
        BY <1>8, <2>2, <4>1 DEF Silent, Over, Ending
      <4> QED
        BY HeadDone, <4>1, <4>2 DEF TrafficInv
    <3> QED
      BY <3>1, <3>2
  <2> QED
    BY <2>1, <2>2
<1> QED
  BY <1>9, <1>10 DEF TrafficInv

LEMMA LifeInit == Init => LifeInv
<1> SUFFICES ASSUME Init PROVE LifeInv
  OBVIOUS
<1>1. ManagerInv
  BY ManagerInit DEF Init
<1>2. LifeTyped
  <2>1. todo \in Seq(StepNames) /\ Len(todo) <= 6
    BY NothingListed DEF Init
  <2>2. transitions \in Nat /\ transitions <= MaxTransitions
    BY LifecycleAssumption DEF Init
  <2> QED
    BY <2>1, <2>2 DEF Init, LifeTyped, MainPoints, Starting
<1>3. CallbackInv /\ MainInv
  BY DEF Init, CallbackInv, MainInv, Entered, Starting, Over, Ending, Quiescing
<1>4. TodoInv
  BY NothingListed DEF Init, TodoInv
<1>5. OwnerInv
  BY WfpAssumption, LifecycleAssumption
     DEF Init, WfpInit, OwnerInv, InstallOps, TeardownOps, Main, Callback
<1>6. CurrentInv
  BY DEF Init, WfpInit, CurrentInv, Current
<1>7. RunningInv /\ BfeInv
  BY DEF Init, RunningInv, BfeInv, PastBfe, NoCallback, GoingWell, Quiescing, Over, Ending
<1>8. TrafficInv
  BY DEF Init, WfpInit, TrafficInv, NoTraffic, GoingWell, Quiescing
<1> QED
  BY <1>1, <1>2, <1>3, <1>4, <1>5, <1>6, <1>7, <1>8 DEF LifeInv

LEMMA LifeStutters ==
  ASSUME LifeInv, UNCHANGED vars
  PROVE  LifeInv'
<1> USE DEF vars, wfpVars, objs, kernel, env, cb, rundown, parts, LifeInv
<1>1. ManagerInv'
  BY ManagerNext
<1>2. LifeTyped' /\ CallbackInv'
  BY DEF LifeTyped, CallbackInv
<1>3. MainInv' /\ TodoInv'
  BY DEF MainInv, TodoInv, Quiescing
<1>4. OwnerInv'
  BY DEF OwnerInv, Exempt, AtTeardown, Quiescing
<1>5. CurrentInv'
  BY DEF CurrentInv, Current, Exempt, OnTheBooks
<1>6. RunningInv' /\ BfeInv'
  BY DEF RunningInv, BfeInv, NoCallback, PastBfe, GoingWell, Quiescing
<1>7. TrafficInv'
  BY DEF TrafficInv, Silent, NoTraffic, Exempt, GoingWell, Quiescing
<1> QED
  BY <1>1, <1>2, <1>3, <1>4, <1>5, <1>6, <1>7

LEMMA LifeNext == LifeInv /\ [Next]_vars => LifeInv'
<1> SUFFICES ASSUME LifeInv, [Next]_vars PROVE LifeInv'
  OBVIOUS
<1>1. CASE Next
  <2>1. ManagerInv'
    BY <1>1, ManagerNext DEF LifeInv
  <2> QED
    BY <1>1, <2>1, LifeTypedNext, CallbackInvNext, MainInvNext, TodoInvNext, OwnerInvNext,
       CurrentInvNext, RunningInvNext, BfeInvNext, TrafficInvNext DEF LifeInv
<1>2. CASE UNCHANGED vars
  BY <1>2, LifeStutters
<1> QED
  BY <1>1, <1>2

\* For any layers and any number of changes of the service: what start, rollback, quiesce and
\* destruction of lifecycle.c and the calls of the manager keep true together.
THEOREM LifeHolds == Spec => []LifeInv
BY LifeInit, LifeNext, PTL DEF Spec

-----------------------------------------------------------------------------
(***************************************************************************)
(* The properties.                                                         *)
(***************************************************************************)
\* The globals and locals of lifecycle.c, runtime.c, driver.c and of the WFP manager keep
\* their types; in particular at most one session is open and one callback inside.
THEOREM LifecycleTypeCorrect == Spec => []TypeOK
<1>1. LifeInv => TypeOK
  <2> SUFFICES ASSUME LifeInv PROVE TypeOK
    OBVIOUS
  <2>1. WfpTypeOK
    BY ManagerTypes DEF LifeInv, ManagerInv
  <2>2. inside \in -1 .. 1
    BY DEF LifeInv, LifeTyped, CallbackInv, Entered
  <2>3. transitions \in 0 .. MaxTransitions
    BY LifecycleAssumption DEF LifeInv, LifeTyped
  <2> QED
    BY <2>1, <2>2, <2>3 DEF TypeOK, LifeInv, LifeTyped, MainPoints, Starting, Over, Ending,
         Entered, Parts
<1> QED
  BY <1>1, LifeHolds, PTL

\* Whatever fails and in whatever order, for any number of layers: SkWfpManagerInstall, its
\* rollback and SkWfpManagerTeardown lose track of no callout but those counted as lost, and
\* of no engine session at all.
THEOREM CalloutsAreTracked == Spec => []CalloutsTracked
<1>1. LifeInv => CalloutsTracked
  BY DEF LifeInv, ManagerInv
<1> QED
  BY <1>1, LifeHolds, PTL

\* SkLifecycleDestroy and the second half of skLifecycleRollback begin only when every
\* subsystem is quiesced, the BFE subscription gone and its rundown really stopped; and
\* unless a callback was counted out by ShRuntimeInit and has so escaped the drain, when no
\* callback is or comes inside, the engine session is closed and the kernel holds no callout
\* but those a failed installation has lost or abandoned.
THEOREM DestructionIsQuiet == Spec => []DestroyIsQuiet
<1>1. LifeInv => DestroyIsQuiet
  <2> SUFFICES ASSUME LifeInv, Destroying
               PROVE  /\ running = {} /\ ~subscribed
                      /\ gState = "QUIESCENT" => stopped
                      /\ ~escaped => Quiet /\ registered \subseteq lost \cup abandoned
    BY DEF DestroyIsQuiet
  <2>1. main \in Ending
    BY DEF Destroying, LifeInv, MainInv, Ending
  <2>2. running = {} /\ ~subscribed /\ (gState = "QUIESCENT" => stopped)
    BY <2>1 DEF LifeInv, RunningInv, BfeInv, PastBfe
  <2>3. ASSUME ~escaped PROVE callback \in {"idle", "called"} /\ NoTraffic
    BY <2>1, <2>3 DEF LifeInv, LifeTyped, BfeInv, PastBfe, NoCallback, TrafficInv, Silent
  <2>4. NoTraffic => sessions = 0
    BY DEF LifeInv, ManagerInv, CalloutsTracked, NoTraffic
  <2> QED
    BY <2>2, <2>3, <2>4 DEF Quiet, NoTraffic, Exempt
<1> QED
  BY <1>1, LifeHolds, PTL

\* A main thread that parks does so in the blocked state, for good, with the image and
\* whatever it could not quiesce still there; and unless a callback has escaped its drain, a
\* blocked teardown or rollback comes to that before the control device is deleted.
THEOREM BlockedStays == Spec => []ResidentStays
<1>1. LifeInv => ResidentStays
  <2> SUFFICES ASSUME LifeInv PROVE ResidentStays
    OBVIOUS
  <2>1. ASSUME main = "parked"
        PROVE  gState = "UNLOAD_BLOCKED" /\ image = "loaded" /\ running \subseteq present
    BY <2>1 DEF LifeInv, LifeTyped, MainInv, Over
  <2>2. ASSUME ~escaped, gState = "UNLOAD_BLOCKED"
        PROVE  main \in {"unload", "parked"} /\ "device" \in present
    BY <2>2 DEF LifeInv, MainInv, Over
  <2> QED
    BY <2>1, <2>2 DEF ResidentStays
<1> QED
  BY <1>1, LifeHolds, PTL
=============================================================================
