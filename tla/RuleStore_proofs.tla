--------------------------- MODULE RuleStore_proofs ---------------------------
(***************************************************************************)
(* Proofs about RuleStore, for any number of readers, writers, pool blocks *)
(* and rules.                                                              *)
(*                                                                         *)
(* The safety of the store rests on four facts that are proved one on top  *)
(* of the other: the locks are held by whoever is inside their sections    *)
(* (LockInv), pointers agree with the control points of their owners       *)
(* (PointerInv), every allocated snapshot is tracked in one place          *)
(* (EverySnapshotTracked), and the rundown of a snapshot counts exactly    *)
(* its readers (CountIsHolders).  A snapshot is freed only with its stop   *)
(* bit set and a zero count, so nobody holds it.                           *)
(* On top of them StagedInv says what a staged snapshot contains, which    *)
(* makes the store an atomic register.                                     *)
(***************************************************************************)
EXTENDS RuleStore, TLAPS, FiniteSetTheorems

WriterLabels == {"idle", "drain", "publish", "swap", "reset", "walk"}
ControllerLabels == {"idle", "close", "force"}

\* Who is inside an operation holds the store lock; who is inside section R or W
\* holds the publish lock.
LockInv ==
  /\ \A w \in Clients : wpc[w] # "idle" <=> g_WriterBusy = w
  /\ \A w \in Writers : wpc[w] \in WriterLabels
  /\ wpc[Controller] \in ControllerLabels
  /\ \A r \in Readers : rpc[r] = "inR" <=> g_PublishLock = r
  /\ \A w \in Writers : wpc[w] = "swap" <=> g_PublishLock = w

\* The store has a current snapshot exactly while it is open, and it stays open
\* while a writer is inside.
OpenInv ==
  /\ g_Current # NULL <=> g_StoreInited /\ ~g_StoreClosed
  /\ g_RollbackSlot # NULL => g_Current # NULL
  /\ \A w \in Writers : wpc[w] # "idle" => g_Current # NULL
  /\ \A w \in Writers : wpc[w] \in Staging /\ req[w].op = "rollback"
                          => g_RollbackSlot # NULL
  /\ wpc[Controller] = "close" => g_Current # NULL
  /\ wpc[Controller] = "force" => g_StoreInited /\ g_StoreClosed
  /\ stuck # {} => wpc[Controller] = "force" /\ runtime = "UnloadBlocked"
  /\ g_StoreInited /\ g_StoreClosed /\ g_WriterBusy = NoThread
       => runtime = "UnloadBlocked"
  /\ ~g_StoreInited => g_RetireList = {}

\* The snapshots that a reader can still hold.
Tracked == Published \cup g_RetireList \cup stuck

\* The pointers of a client, and of a reader.
ClientPointer(w) ==
  /\ wpc[w] \in Staging => snap[w] # NULL
  /\ wpc[w] \in {"reset", "walk"} => snap[w] = g_Current
  /\ wpc[w] = "reset" => old[w] \in {g_RollbackSlot} \cup g_RetireList /\ old[w] # NULL
  /\ wpc[w] # "reset" => old[w] = NULL
  /\ wpc[w] \in ControllerLabels => snap[w] = NULL

ReaderPointer(r) ==
  /\ rpc[r] = "idle" => held[r] = NULL
  /\ rpc[r] = "inR" => held[r] = g_Current
  /\ rpc[r] = "hold" => held[r] \in Tracked

\* Pointers agree with the control points of their owners.
PointerInv ==
  /\ \A w \in Clients : ClientPointer(w)
  /\ \A r \in Readers : ReaderPointer(r)

IInv == TypeOK /\ LockInv /\ OpenInv /\ PointerInv /\ EverySnapshotTracked
          /\ StopBitMarksRetired /\ CountIsHolders

-----------------------------------------------------------------------------
(***************************************************************************)
(* The operators on rule sets and rundowns.                                *)
(***************************************************************************)
\* Adding or overwriting one rule yields a rule set.
LEMMA PutType ==
  ASSUME NEW rules \in RuleSets, NEW id \in RuleIds, NEW rule \in Rule
  PROVE  Put(rules, id, rule) \in RuleSets
<1>1. PICK D \in SUBSET RuleIds : rules \in [D -> Rule]
  BY DEF RuleSets
<1>2. Put(rules, id, rule) \in [D \cup {id} -> Rule]
  BY <1>1 DEF Put
<1>3. QED
  BY <1>2 DEF RuleSets

\* Removing one rule yields a rule set.
LEMMA WithoutType ==
  ASSUME NEW rules \in RuleSets, NEW id
  PROVE  Without(rules, id) \in RuleSets
<1>1. PICK D \in SUBSET RuleIds : rules \in [D -> Rule]
  BY DEF RuleSets
<1>2. Without(rules, id) \in [D \ {id} -> Rule]
  BY <1>1 DEF Without
<1>3. QED
  BY <1>2 DEF RuleSets

\* Setting the enabled flag of one rule yields a rule set.
LEMMA EnableType ==
  ASSUME NEW rules \in RuleSets, NEW id \in DOMAIN rules, NEW enabled \in BOOLEAN
  PROVE  [rules EXCEPT ![id].enabled = enabled] \in RuleSets
<1>1. PICK D \in SUBSET RuleIds : rules \in [D -> Rule]
  BY DEF RuleSets
<1>2. [rules EXCEPT ![id].enabled = enabled] \in [D -> Rule]
  BY <1>1 DEF Rule
<1>3. QED
  BY <1>2 DEF RuleSets

\* The empty rule set.
LEMMA NoRulesType == NoRules \in RuleSets
<1>1. NoRules \in [{} -> Rule]
  BY DEF NoRules
<1>2. QED
  BY <1>1 DEF RuleSets

\* A blank snapshot is legal content.
LEMMA BlankType == Blank \in Content
  BY NoRulesType DEF Blank, Content, Policies

-----------------------------------------------------------------------------
(***************************************************************************)
(* Shape.                                                                  *)
(***************************************************************************)
\* A staged request keeps every variable in its shape.
LEMMA StageShape ==
  ASSUME Shape, NEW w \in Writers, NEW q \in Requests, NEW rules \in RuleSets,
         NEW policy \in Policies, Stage(w, q, rules, policy)
  PROVE  Shape'
<1>1. [rules |-> rules, defaultPolicy |-> policy] \in Content
  BY DEF Content
<1>2. ShRundownInit \in Rundown
  BY DEF ShRundownInit, Rundown
<1>3. w \in Clients
  BY DEF Clients
<1>4. QED
  BY <1>1, <1>2, <1>3
  DEF Shape, Stage, SkStoreLock, SkSnapAlloc, Goto, Labels, store, flags, reader

\* What the current snapshot says is legal content.
LEMMA CurrentType ==
  ASSUME Shape, g_Current \in Snaps
  PROVE  CurrentRules \in RuleSets /\ CurrentPolicy \in Policies
  BY DEF Shape, CurrentRules, CurrentPolicy, Content


\* Every write operation keeps every variable in its shape.
LEMMA WriteShape ==
  ASSUME IInv, NEW w \in Writers, Write(w)
  PROVE  Shape'
<1>1. Shape
  BY DEF IInv, TypeOK
<1>2. SkStoreWritable => g_Current \in Snaps
  BY DEF IInv, OpenInv, TypeOK, Shape, SkStoreWritable
<1>3. SkStoreWritable => CurrentRules \in RuleSets /\ CurrentPolicy \in Policies
  BY <1>1, <1>2, CurrentType
<1>4. ASSUME NEW id \in RuleIds, NEW rule \in Rule,
             SkRuleStoreAdd(w, id, rule) \/ SkRuleStoreUpdate(w, id, rule)
      PROVE  Shape'
  <2>1. [op |-> "add", id |-> id, rule |-> rule] \in Requests
        /\ [op |-> "update", id |-> id, rule |-> rule] \in Requests
    BY DEF Requests
  <2>2. SkStoreWritable
    BY <1>4 DEF SkRuleStoreAdd, SkRuleStoreUpdate
  <2>3. Put(CurrentRules, id, rule) \in RuleSets
    BY <1>3, <2>2, PutType
  <2>4. QED
    BY <1>1, <1>3, <1>4, <2>1, <2>2, <2>3, StageShape DEF SkRuleStoreAdd, SkRuleStoreUpdate
<1>5. ASSUME NEW id \in RuleIds, SkRuleStoreDelete(w, id)
      PROVE  Shape'
  <2>1. [op |-> "delete", id |-> id] \in Requests
    BY DEF Requests
  <2>2. SkStoreWritable
    BY <1>5 DEF SkRuleStoreDelete
  <2>3. Without(CurrentRules, id) \in RuleSets
    BY <1>3, <2>2, WithoutType
  <2>4. QED
    BY <1>1, <1>3, <1>5, <2>1, <2>2, <2>3, StageShape DEF SkRuleStoreDelete
<1>6. ASSUME NEW id \in RuleIds, NEW enabled \in BOOLEAN,
             SkRuleStoreSetEnabled(w, id, enabled)
      PROVE  Shape'
  <2>1. [op |-> "enable", id |-> id, enabled |-> enabled] \in Requests
    BY DEF Requests
  <2>2. SkStoreWritable /\ id \in DOMAIN CurrentRules
    BY <1>6 DEF SkRuleStoreSetEnabled
  <2>3. [CurrentRules EXCEPT ![id].enabled = enabled] \in RuleSets
    BY <1>3, <2>2, EnableType
  <2>4. QED
    BY <1>1, <1>3, <1>6, <2>1, <2>2, <2>3, StageShape DEF SkRuleStoreSetEnabled
<1>7. ASSUME NEW rules \in RuleSets, NEW expected \in 0 .. MaxVersion,
             SkRuleStoreReplace(w, rules, expected)
      PROVE  Shape'
  <2>1. [op |-> "replace", rules |-> rules, expected |-> expected] \in Requests
    BY DEF Requests
  <2>2. QED
    BY <1>1, <1>3, <1>7, <2>1, StageShape DEF SkRuleStoreReplace
<1>8. CASE SkRuleStoreClear(w)
  <2>1. [op |-> "clear"] \in Requests
    BY DEF Requests
  <2>2. QED
    BY <1>1, <1>3, <1>8, <2>1, StageShape, NoRulesType DEF SkRuleStoreClear
<1>9. ASSUME NEW policy \in Policies, SkRuleStoreSetDefaultPolicy(w, policy)
      PROVE  Shape'
  <2>1. [op |-> "policy", defaultPolicy |-> policy] \in Requests
    BY DEF Requests
  <2>2. QED
    BY <1>1, <1>3, <1>9, <2>1, StageShape DEF SkRuleStoreSetDefaultPolicy
<1>10. CASE SkRuleStoreRollback(w)
  <2>1. [op |-> "rollback"] \in Requests
    BY DEF Requests
  <2>2. g_RollbackSlot \in Snaps
    BY <1>1, <1>10 DEF SkRuleStoreRollback, Shape
  <2>3. content[g_RollbackSlot].rules \in RuleSets
        /\ content[g_RollbackSlot].defaultPolicy \in Policies
    BY <1>1, <2>2 DEF Shape, Content
  <2>4. QED
    BY <1>1, <1>10, <2>1, <2>3, StageShape DEF SkRuleStoreRollback
<1>11. QED
  BY <1>4, <1>5, <1>6, <1>7, <1>8, <1>9, <1>10 DEF Write

\* Every step keeps every variable in its shape.
LEMMA ShapeStep ==
  ASSUME IInv, [Next]_vars
  PROVE  Shape'
<1> USE DEF Labels, store, flags, memory, locals, reader, Goto, Return
<1>1. Shape
  BY DEF IInv, TypeOK
<1>2. ShRundownInit \in Rundown /\ Blank \in Content /\ NoRequest \in Requests
  BY BlankType DEF ShRundownInit, Rundown, NoRequest, Requests
<1>3. ASSUME NEW S \in SUBSET Snaps, Scrub(S)
      PROVE  /\ pool' \in SUBSET Snaps
             /\ content' \in [Snaps -> Content]
             /\ version' \in [Snaps -> Nat]
             /\ readers' \in [Snaps -> Rundown]
  BY <1>1, <1>2, <1>3 DEF Shape, Scrub
<1>4. ASSUME NEW S \in SUBSET Snaps, Retire(S)
      PROVE  readers' \in [Snaps -> Rundown] /\ g_RetireList' \in SUBSET Snaps
  BY <1>1, <1>4 DEF Shape, Retire, Rundown
<1>5. ASSUME NEW w \in Writers, WriterStep(w)
      PROVE  Shape'
  <2>0. w \in Clients
    BY DEF Clients
  <2>1. CASE Write(w)
    BY <2>1, WriteShape
  <2>2. CASE SkRuleStoreEnum(w) \/ EnumDone(w)
    BY <1>1, <1>2, <2>0, <2>2 DEF Shape, SkRuleStoreEnum, EnumDone, SkStoreLock
  <2>3. CASE SkRetireDrain(w)
    BY <1>1, <1>3, <2>0, <2>3 DEF Shape, SkRetireDrain
  <2>4. CASE SkRetireGiveUp(w) \/ SectionW(w)
    BY <1>1, <2>0, <2>4 DEF Shape, SkRetireGiveUp, SectionW, EnterW
  <2>5. CASE SkPublish(w) \/ PublishRollback(w)
    <3>1. snap[w] \in Snaps /\ g_Current \in Snaps
      BY <2>0, <2>5 DEF IInv, TypeOK, Shape, OpenInv, PointerInv, ClientPointer, Staging,
                        SkPublish, PublishRollback, LeaveW
    <3>2. version' \in [Snaps -> Nat]
      BY <1>1, <2>5, <3>1 DEF Shape, SkPublish, PublishRollback, Swap, NextVersion
    <3>3. readers' \in [Snaps -> Rundown] /\ g_RetireList' \in SUBSET Snaps
      <4>1. PICK S : Retire(S) /\ S \subseteq {g_Current, g_RollbackSlot}
        BY <2>5 DEF SkPublish, PublishRollback
      <4>2. readers' \in [Snaps -> Rundown]
        BY <1>1, <4>1 DEF Retire, Shape, Rundown
      <4>3. g_RetireList' \in SUBSET Snaps
        <5>1. CASE SkPublish(w)
          BY <1>1, <5>1 DEF SkPublish, Retire, Shape
        <5>2. CASE PublishRollback(w)
          <6>1. g_RollbackSlot \in Snaps
            BY <2>0, <5>2 DEF IInv, TypeOK, Shape, OpenInv, Staging, PublishRollback, LeaveW
          <6>2. QED
            BY <1>1, <3>1, <5>2, <6>1 DEF PublishRollback, Retire, Shape
        <5>3. QED
          BY <2>5, <5>1, <5>2
      <4>4. QED
        BY <4>2, <4>3
    <3>4. QED
      BY <1>1, <2>0, <2>5, <3>1, <3>2, <3>3
      DEF Shape, SkPublish, PublishRollback, Swap, LeaveW
  <2>6. CASE PublishRefused(w)
    <3>1. {snap[w]} \in SUBSET Snaps
      BY <2>0, <2>6 DEF IInv, TypeOK, Shape, PointerInv, ClientPointer, Staging,
                        PublishRefused
    <3>2. QED
      BY <1>1, <1>2, <1>3, <2>0, <2>6, <3>1 DEF Shape, PublishRefused
  <2>7. CASE SkRateResetRemoved(w)
    BY <1>1, <1>2, <2>0, <2>7 DEF Shape, SkRateResetRemoved
  <2>8. QED
    BY <1>5, <2>1, <2>2, <2>3, <2>4, <2>5, <2>6, <2>7 DEF WriterStep
<1>6. CASE ControllerStep
  <2>0. Controller \in Clients
    BY DEF Clients
  <2>1. CASE SkRuleStoreInit
    <3>1. PICK s \in Snaps : SkSnapAlloc(s, Blank) /\ g_Current' = s
      BY <2>1 DEF SkRuleStoreInit
    <3>2. /\ pool' \in SUBSET Snaps
          /\ content' \in [Snaps -> Content]
          /\ version' \in [Snaps -> Nat]
          /\ readers' \in [Snaps -> Rundown]
      BY <1>1, <1>2, <3>1 DEF Shape, SkSnapAlloc
    <3>3. QED
      BY <1>1, <2>1, <3>1, <3>2 DEF Shape, SkRuleStoreInit
  <2>2. CASE ShutdownBegin
    BY <1>1, <2>0, <2>2 DEF Shape, ShutdownBegin, SkStoreLock
  <2>3. CASE ShutdownClose
    <3>1. {g_Current, g_RollbackSlot} \ {NULL} \in SUBSET Snaps
      BY <1>1 DEF Shape
    <3>2. QED
      BY <1>1, <1>4, <2>0, <2>3, <3>1 DEF Shape, ShutdownClose
  <2>4. ASSUME NEW s \in Snaps, ShutdownFree(s)
        PROVE  Shape'
    BY <1>1, <1>3, <2>4 DEF Shape, ShutdownFree
  <2>5. ASSUME NEW s \in Snaps, ShutdownStuck(s)
        PROVE  Shape'
    BY <1>1, <2>5 DEF Shape, ShutdownStuck, RuntimeStates
  <2>6. CASE ShutdownEnd
    BY <1>1, <1>2, <2>0, <2>6 DEF Shape, ShutdownEnd
  <2>7. QED
    BY <1>6, <2>1, <2>2, <2>3, <2>4, <2>5, <2>6 DEF ControllerStep
<1>7. ASSUME NEW r \in Readers, ReaderStep(r)
      PROVE  Shape'
  <2>1. CASE ReadCurrent(r)
    BY <1>1, <2>1 DEF Shape, ReadCurrent
  <2>2. CASE SkRuleStoreAcquire(r)
    BY <1>1, <2>2 DEF Shape, SkRuleStoreAcquire, Acquired, Rundown
  <2>3. CASE SkRuleStoreRelease(r)
    <3>1. held[r] \in Snaps
      BY <1>1, <2>3 DEF IInv, PointerInv, ReaderPointer, Tracked, Published, Shape,
                        SkRuleStoreRelease
    <3>2. Released(readers[held[r]]) \in Rundown
      BY <1>1, <3>1 DEF Shape, Rundown, Released
    <3>3. QED
      BY <1>1, <2>3, <3>1, <3>2 DEF Shape, SkRuleStoreRelease
  <2>4. ASSUME NEW id \in RuleIds, SkRuleEvaluate(r, id)
        PROVE  Shape'
    BY <1>1, <2>4 DEF Shape, SkRuleEvaluate
  <2>5. QED
    BY <1>7, <2>1, <2>2, <2>3, <2>4 DEF ReaderStep
<1>8. CASE RuntimeStep
  BY <1>1, <1>8 DEF Shape, RuntimeStep, Runtime, RuntimeStates, ShRuntimeActivate,
                    ShRuntimeBeginTeardown, ShRuntimeEnterQuiescent,
                    ShRuntimeEnterUnloadBlocked
<1>9. CASE UNCHANGED vars
  BY <1>1, <1>9 DEF Shape, vars
<1>10. QED
  BY <1>5, <1>6, <1>7, <1>8, <1>9 DEF Next

-----------------------------------------------------------------------------
(***************************************************************************)
(* The other parts of the inductive invariant.                             *)
(***************************************************************************)
\* Every write operation passes the gate and stages a snapshot; only Rollback
\* stages a rollback, and it saw a slot.
LEMMA WriteStages ==
  ASSUME NEW w \in Writers, Write(w)
  PROVE  \E q, rules, policy :
           /\ Stage(w, q, rules, policy)
           /\ SkStoreWritable
           /\ q.op = "rollback" => g_RollbackSlot # NULL
<1>1. ASSUME NEW id \in RuleIds, NEW rule \in Rule, SkRuleStoreAdd(w, id, rule)
      PROVE  \E q, rules, policy : Stage(w, q, rules, policy) /\ SkStoreWritable
                                   /\ q.op # "rollback"
  BY <1>1 DEF SkRuleStoreAdd
<1>2. ASSUME NEW id \in RuleIds, NEW rule \in Rule, SkRuleStoreUpdate(w, id, rule)
      PROVE  \E q, rules, policy : Stage(w, q, rules, policy) /\ SkStoreWritable
                                   /\ q.op # "rollback"
  BY <1>2 DEF SkRuleStoreUpdate
<1>3. ASSUME NEW id \in RuleIds, SkRuleStoreDelete(w, id)
      PROVE  \E q, rules, policy : Stage(w, q, rules, policy) /\ SkStoreWritable
                                   /\ q.op # "rollback"
  BY <1>3 DEF SkRuleStoreDelete
<1>4. ASSUME NEW id \in RuleIds, NEW enabled \in BOOLEAN,
             SkRuleStoreSetEnabled(w, id, enabled)
      PROVE  \E q, rules, policy : Stage(w, q, rules, policy) /\ SkStoreWritable
                                   /\ q.op # "rollback"
  BY <1>4 DEF SkRuleStoreSetEnabled
<1>5. ASSUME NEW rules0 \in RuleSets, NEW expected \in 0 .. MaxVersion,
             SkRuleStoreReplace(w, rules0, expected)
      PROVE  \E q, rules, policy : Stage(w, q, rules, policy) /\ SkStoreWritable
                                   /\ q.op # "rollback"
  BY <1>5 DEF SkRuleStoreReplace
<1>6. ASSUME SkRuleStoreClear(w)
      PROVE  \E q, rules, policy : Stage(w, q, rules, policy) /\ SkStoreWritable
                                   /\ q.op # "rollback"
  BY <1>6 DEF SkRuleStoreClear
<1>7. ASSUME NEW policy0 \in Policies, SkRuleStoreSetDefaultPolicy(w, policy0)
      PROVE  \E q, rules, policy : Stage(w, q, rules, policy) /\ SkStoreWritable
                                   /\ q.op # "rollback"
  BY <1>7 DEF SkRuleStoreSetDefaultPolicy
<1>8. CASE SkRuleStoreRollback(w)
  BY <1>8 DEF SkRuleStoreRollback
<1>9. QED
  BY <1>1, <1>2, <1>3, <1>4, <1>5, <1>6, <1>7, <1>8 DEF Write

\* A client that holds the store lock, or finds it free, moves to another control
\* point, keeps the lock unless it returns, and has the publish lock inside section W.
LEMMA LockMove ==
  ASSUME Shape, LockInv, NEW c \in Clients, NEW l,
         wpc' = [wpc EXCEPT ![c] = l], UNCHANGED rpc,
         g_PublishLock' = IF l = "swap" THEN c
                          ELSE IF wpc[c] = "swap" THEN NoThread ELSE g_PublishLock,
         l = "swap" => g_PublishLock = NoThread,
         c \in Writers => l \in WriterLabels,
         c = Controller => l \in ControllerLabels,
         wpc[c] # "idle" \/ g_WriterBusy = NoThread,
         g_WriterBusy' = IF l = "idle" THEN NoThread ELSE c
  PROVE  LockInv'
<1>1. NoThread \notin Clients /\ Controller \in Clients /\ Controller \notin Writers
      /\ NoThread \notin Readers /\ c \notin Readers
  BY ThreadAssumption DEF Clients
<1>2. \A d \in Clients : wpc'[d] = IF d = c THEN l ELSE wpc[d]
  BY DEF Shape
<1>3. \A d \in Clients : d # c => wpc[d] = "idle"
  BY <1>1 DEF LockInv
<1>4. \A d \in Clients : wpc'[d] # "idle" <=> g_WriterBusy' = d
  BY <1>1, <1>2, <1>3
<1>5. wpc[c] = "swap" \/ l = "swap" => c \in Writers
  BY <1>1 DEF LockInv, Clients, ControllerLabels
<1>6. \A r \in Readers : rpc'[r] = "inR" <=> g_PublishLock' = r
  BY <1>1, <1>5 DEF LockInv
<1>7. \A w \in Writers : wpc'[w] = "swap" <=> g_PublishLock' = w
  BY <1>1, <1>2, <1>3, <1>5 DEF LockInv, Clients
<1>8. (\A w \in Writers : wpc'[w] \in WriterLabels) /\ wpc'[Controller] \in ControllerLabels
  BY <1>1, <1>2 DEF LockInv, Clients
<1>9. QED
  BY <1>4, <1>6, <1>7, <1>8 DEF LockInv

\* The locks are held by whoever is inside their sections.
LEMMA LockStep ==
  ASSUME IInv, [Next]_vars
  PROVE  LockInv'
<1> USE DEF store, flags, memory, locals, reader, Goto, Return
<1>1. LockInv /\ Shape
  BY DEF IInv, TypeOK
<1>2. Controller \in Clients /\ Controller \notin Writers /\ NoThread \notin Clients
      /\ NoThread \notin Readers /\ Readers \cap Writers = {}
  BY ThreadAssumption DEF Clients
<1>3. ASSUME NEW w \in Writers, WriterStep(w)
      PROVE  LockInv'
  <2>0. w \in Clients /\ w # Controller
    BY <1>2 DEF Clients
  <2>1. wpc[w] # "idle" => g_WriterBusy = w
    BY <1>1, <2>0 DEF LockInv
  <2>2. UNCHANGED rpc
    BY <1>3, WriteStages
    DEF WriterStep, Stage, SkRuleStoreEnum, EnumDone, SkRetireDrain, SkRetireGiveUp,
        SectionW, EnterW, SkPublish, PublishRollback, PublishRefused, SkRateResetRemoved, Swap
  <2>3. wpc[w] # "idle" \/ g_WriterBusy = NoThread
    BY <1>3, WriteStages
    DEF WriterStep, Stage, SkStoreLock, SkRuleStoreEnum, EnumDone, SkRetireDrain,
        SkRetireGiveUp, SkPublish, PublishRollback, PublishRefused, SkRateResetRemoved,
        SectionW, EnterW, LeaveW
  <2>4. \E l \in WriterLabels :
          /\ wpc' = [wpc EXCEPT ![w] = l]
          /\ g_WriterBusy' = IF l = "idle" THEN NoThread ELSE w
          /\ g_PublishLock' = IF l = "swap" THEN w
                              ELSE IF wpc[w] = "swap" THEN NoThread ELSE g_PublishLock
          /\ l = "swap" => g_PublishLock = NoThread
    <3>1. CASE Write(w) \/ SkRuleStoreEnum(w)
      BY <3>1, WriteStages DEF Stage, SkStoreLock, SkRuleStoreEnum, WriterLabels
    <3>2. CASE EnumDone(w) \/ PublishRefused(w) \/ SkRateResetRemoved(w)
      BY <3>2 DEF EnumDone, PublishRefused, SkRateResetRemoved, WriterLabels
    <3>3. CASE SkRetireDrain(w) \/ SkRetireGiveUp(w)
      <4>1. g_WriterBusy = w /\ UNCHANGED <<g_WriterBusy, g_PublishLock>> /\ wpc[w] = "drain"
        BY <2>1, <3>3 DEF SkRetireDrain, SkRetireGiveUp
      <4>2. QED
        BY <3>3, <4>1 DEF SkRetireDrain, SkRetireGiveUp, WriterLabels
    <3>4. CASE SkPublish(w) \/ PublishRollback(w)
      <4>1. g_WriterBusy = w /\ UNCHANGED g_WriterBusy /\ wpc[w] = "swap"
        BY <2>1, <3>4 DEF SkPublish, PublishRollback, LeaveW, Swap
      <4>2. QED
        BY <3>4, <4>1 DEF SkPublish, PublishRollback, LeaveW, WriterLabels
    <3>5. CASE SectionW(w)
      BY <2>1, <3>5 DEF SectionW, EnterW, WriterLabels
    <3>6. QED
      BY <1>3, <3>1, <3>2, <3>3, <3>4, <3>5 DEF WriterStep
  <2>5. QED
    BY <1>1, <2>0, <2>2, <2>3, <2>4, LockMove
<1>4. CASE ControllerStep
  <2>1. CASE SkRuleStoreInit
    BY <1>1, <2>1 DEF SkRuleStoreInit, LockInv
  <2>2. CASE ShutdownBegin
    <3>1. LockInv'
      BY <1>1, <1>2, <2>2, LockMove DEF ShutdownBegin, SkStoreLock, ControllerLabels
    <3>2. QED
      BY <3>1
  <2>3. CASE ShutdownClose
    <3>1. g_WriterBusy = Controller
      BY <1>1, <1>2, <2>3 DEF LockInv, ShutdownClose
    <3>2. QED
      BY <1>1, <1>2, <2>3, <3>1, LockMove DEF ShutdownClose, ControllerLabels
  <2>4. CASE \E s \in Snaps : ShutdownFree(s) \/ ShutdownStuck(s)
    BY <1>1, <2>4 DEF ShutdownFree, ShutdownStuck, LockInv
  <2>5. CASE ShutdownEnd
    BY <1>1, <1>2, <2>5, LockMove DEF ShutdownEnd, ControllerLabels
  <2>6. QED
    BY <1>4, <2>1, <2>2, <2>3, <2>4, <2>5 DEF ControllerStep
<1>5. ASSUME NEW r \in Readers, ReaderStep(r)
      PROVE  LockInv'
  <2>1. CASE ReadCurrent(r)
    <3>1. \A q \in Readers : rpc'[q] = "inR" <=> g_PublishLock' = q
      BY <1>1, <1>2, <2>1 DEF Shape, LockInv, ReadCurrent
    <3>2. \A w \in Writers : wpc[w] # "swap" /\ g_PublishLock' # w
      BY <1>1, <1>2, <2>1 DEF LockInv, ReadCurrent, Clients
    <3>3. UNCHANGED <<wpc, g_WriterBusy>>
      BY <2>1 DEF ReadCurrent
    <3>4. QED
      BY <1>1, <3>1, <3>2, <3>3 DEF LockInv
  <2>2. CASE SkRuleStoreAcquire(r)
    <3>1. g_PublishLock = r /\ g_PublishLock' = NoThread
      BY <1>1, <2>2 DEF LockInv, SkRuleStoreAcquire
    <3>2. \A q \in Readers : rpc'[q] = "inR" <=> g_PublishLock' = q
      BY <1>1, <1>2, <2>2, <3>1 DEF Shape, LockInv, SkRuleStoreAcquire
    <3>3. \A w \in Writers : wpc[w] # "swap" /\ g_PublishLock' # w
      BY <1>1, <1>2, <3>1 DEF LockInv, Clients
    <3>4. UNCHANGED <<wpc, g_WriterBusy>>
      BY <2>2 DEF SkRuleStoreAcquire
    <3>5. QED
      BY <1>1, <3>2, <3>3, <3>4 DEF LockInv
  <2>3. CASE SkRuleStoreRelease(r) \/ \E id \in RuleIds : SkRuleEvaluate(r, id)
    BY <1>1, <1>2, <2>3 DEF Shape, LockInv, SkRuleStoreRelease, SkRuleEvaluate
  <2>4. QED
    BY <1>5, <2>1, <2>2, <2>3 DEF ReaderStep
<1>6. CASE RuntimeStep
  BY <1>1, <1>6 DEF LockInv, RuntimeStep, Runtime, ShRuntimeActivate, ShRuntimeBeginTeardown,
                    ShRuntimeEnterQuiescent, ShRuntimeEnterUnloadBlocked
<1>7. CASE UNCHANGED vars
  BY <1>1, <1>7 DEF LockInv, vars
<1>8. QED
  BY <1>3, <1>4, <1>5, <1>6, <1>7 DEF Next

\* While one client is inside an operation every other client is outside.
LEMMA OthersIdle ==
  ASSUME LockInv, NEW c \in Clients, wpc[c] # "idle"
  PROVE  g_WriterBusy = c /\ \A d \in Clients : d # c => wpc[d] = "idle"
  BY DEF LockInv

\* While the store lock is free every client is outside.
LEMMA AllIdle ==
  ASSUME LockInv, g_WriterBusy = NoThread
  PROVE  \A d \in Clients : wpc[d] = "idle"
  BY ThreadAssumption DEF LockInv

\* The store is open exactly while it has a current snapshot.
LEMMA OpenStep ==
  ASSUME IInv, [Next]_vars
  PROVE  OpenInv'
<1> USE DEF store, flags, memory, locals, reader, Goto, Return
<1>1. OpenInv /\ LockInv /\ Shape
  BY DEF IInv, TypeOK
<1>2. Controller \in Clients /\ Controller \notin Writers
      /\ NoThread \notin Clients /\ NULL \notin Snaps
  BY ThreadAssumption, DataAssumption DEF Clients
<1>3. ASSUME NEW w \in Writers, WriterStep(w)
      PROVE  OpenInv'
  <2>0. w \in Clients /\ w # Controller
    BY <1>2 DEF Clients
  <2>1. CASE Write(w)
    <3>1. PICK q, rules, policy : /\ Stage(w, q, rules, policy)
                                  /\ SkStoreWritable
                                  /\ q.op = "rollback" => g_RollbackSlot # NULL
      BY <2>1, WriteStages
    <3>2. \A d \in Clients : wpc[d] = "idle"
      BY <1>1, <3>1, AllIdle DEF Stage, SkStoreLock
    <3>3. req' = [req EXCEPT ![w] = q] /\ wpc' = [wpc EXCEPT ![w] = "drain"]
      BY <3>1 DEF Stage
    <3>4. /\ \A d \in Clients : d # w => wpc'[d] = "idle"
          /\ wpc'[w] = "drain"
          /\ req'[w] = q
      BY <1>1, <2>0, <3>2, <3>3 DEF Shape
    <3>5. /\ UNCHANGED <<g_Current, g_RollbackSlot, g_RetireList, stuck,
                          g_StoreInited, g_StoreClosed, runtime>>
          /\ g_WriterBusy' = w
          /\ g_StoreInited /\ ~g_StoreClosed
      BY <3>1 DEF Stage, SkStoreLock, SkStoreWritable
    <3>6. QED
      BY <1>1, <1>2, <2>0, <3>1, <3>2, <3>4, <3>5 DEF OpenInv, Staging, Clients
  <2>2. CASE SkRuleStoreEnum(w)
    <3>1. \A d \in Clients : wpc[d] = "idle"
      BY <1>1, <2>2, AllIdle DEF SkRuleStoreEnum, SkStoreLock
    <3>2. /\ \A d \in Clients : d # w => wpc'[d] = "idle"
          /\ wpc'[w] = "walk"
      BY <1>1, <2>0, <2>2, <3>1 DEF Shape, SkRuleStoreEnum
    <3>3. QED
      BY <1>1, <1>2, <2>0, <2>2, <3>1, <3>2
      DEF OpenInv, Staging, Clients, SkRuleStoreEnum, SkStoreLock
  <2>3. ASSUME wpc[w] # "idle", ~Write(w), ~SkRuleStoreEnum(w)
        PROVE  OpenInv'
    <3>1. g_WriterBusy = w /\ \A d \in Clients : d # w => wpc[d] = "idle"
      BY <1>1, <2>0, <2>3, OthersIdle
    <3>2. g_Current # NULL /\ g_StoreInited /\ ~g_StoreClosed /\ stuck = {}
      BY <1>1, <1>2, <2>0, <2>3, <3>1 DEF OpenInv
    <3>3. CASE EnumDone(w) \/ SkRateResetRemoved(w) \/ PublishRefused(w)
      <4>1. \A d \in Clients : wpc'[d] = "idle"
        BY <1>1, <2>0, <3>1, <3>3 DEF Shape, EnumDone, SkRateResetRemoved, PublishRefused
      <4>2. UNCHANGED <<g_Current, g_RollbackSlot, g_RetireList, stuck, g_StoreInited,
                         g_StoreClosed, runtime>>
        BY <3>3 DEF EnumDone, SkRateResetRemoved, PublishRefused
      <4>3. (\A d \in Writers : wpc'[d] = "idle") /\ wpc'[Controller] = "idle"
        BY <1>2, <4>1 DEF Clients
      <4>4. QED
        BY <1>1, <3>2, <4>2, <4>3 DEF OpenInv, Staging
    <3>4. CASE SkRetireDrain(w) \/ SkRetireGiveUp(w) \/ SectionW(w)
      <4>1. /\ \A d \in Clients : d # w => wpc'[d] = "idle"
            /\ wpc[w] \in Staging
        BY <1>1, <2>0, <3>1, <3>4
        DEF Shape, Staging, SkRetireDrain, SkRetireGiveUp, SectionW, EnterW
      <4>2. UNCHANGED <<g_Current, g_RollbackSlot, stuck, g_StoreInited, g_StoreClosed,
                         runtime, req>>
        BY <3>4 DEF SkRetireDrain, SkRetireGiveUp, SectionW, EnterW
      <4>3. /\ \A d \in Writers : d # w => wpc'[d] = "idle"
            /\ wpc'[Controller] = "idle"
        BY <1>2, <2>0, <4>1 DEF Clients
      <4>4. \A d \in Writers : wpc'[d] \in Staging => wpc[d] \in Staging
        BY <4>1, <4>3 DEF Staging
      <4>5. QED
        BY <1>1, <3>2, <4>2, <4>3, <4>4 DEF OpenInv
    <3>5. CASE SkPublish(w) \/ PublishRollback(w)
      <4>1. /\ \A d \in Clients : d # w => wpc'[d] = "idle"
            /\ wpc'[w] = "reset"
            /\ wpc[w] = "swap"
        BY <1>1, <2>0, <3>1, <3>5 DEF Shape, SkPublish, PublishRollback, LeaveW
      <4>2. g_Current' # NULL
        BY <2>0, <3>5, <4>1 DEF IInv, PointerInv, ClientPointer, Staging, SkPublish,
                                PublishRollback, Swap
      <4>3. UNCHANGED <<g_StoreInited, g_StoreClosed, stuck, g_WriterBusy, runtime>>
        BY <3>5 DEF SkPublish, PublishRollback, Swap
      <4>4. QED
        BY <1>1, <1>2, <2>0, <3>1, <3>2, <4>1, <4>2, <4>3 DEF OpenInv, Staging, Clients
    <3>6. QED
      BY <1>3, <2>3, <3>3, <3>4, <3>5 DEF WriterStep
  <2>4. wpc[w] = "idle" => Write(w) \/ SkRuleStoreEnum(w)
    BY <1>3 DEF WriterStep, EnumDone, SkRetireDrain, SkRetireGiveUp, SkPublish,
                PublishRollback, PublishRefused, SkRateResetRemoved, SectionW, EnterW, LeaveW
  <2>5. QED
    BY <2>1, <2>2, <2>3, <2>4
<1>4. CASE ControllerStep
  <2>1. CASE SkRuleStoreInit
    <3>1. \A d \in Clients : wpc[d] = "idle"
      BY <1>1, <2>1, AllIdle DEF SkRuleStoreInit
    <3>2. g_Current' # NULL
      BY <1>2, <2>1 DEF SkRuleStoreInit
    <3>3. QED
      BY <1>1, <1>2, <2>1, <3>1, <3>2 DEF OpenInv, Staging, Clients, SkRuleStoreInit
  <2>2. CASE ShutdownBegin
    <3>1. \A d \in Clients : wpc[d] = "idle"
      BY <1>1, <2>2, AllIdle DEF ShutdownBegin, SkStoreLock
    <3>2. /\ \A d \in Clients : d # Controller => wpc'[d] = "idle"
          /\ wpc'[Controller] = "close"
      BY <1>1, <1>2, <2>2, <3>1 DEF Shape, ShutdownBegin
    <3>3. QED
      BY <1>1, <1>2, <2>2, <3>1, <3>2
      DEF OpenInv, Staging, Clients, ShutdownBegin, SkStoreLock
  <2>3. CASE ShutdownClose
    <3>1. g_WriterBusy = Controller /\ \A d \in Clients : d # Controller => wpc[d] = "idle"
      BY <1>1, <1>2, <2>3, OthersIdle DEF ShutdownClose
    <3>2. /\ \A d \in Clients : d # Controller => wpc'[d] = "idle"
          /\ wpc'[Controller] = "force"
      BY <1>1, <1>2, <2>3, <3>1 DEF Shape, ShutdownClose
    <3>3. QED
      BY <1>1, <1>2, <2>3, <3>1, <3>2 DEF OpenInv, Staging, Clients, ShutdownClose
  <2>4. CASE \E s \in Snaps : ShutdownFree(s) \/ ShutdownStuck(s)
    <3>1. g_WriterBusy = Controller /\ \A d \in Clients : d # Controller => wpc[d] = "idle"
      BY <1>1, <1>2, <2>4, OthersIdle DEF ShutdownFree, ShutdownStuck
    <3>2. \A d \in Writers : wpc[d] = "idle" /\ d \in Clients
      BY <1>2, <3>1 DEF Clients
    <3>3. wpc[Controller] = "force" /\ g_StoreInited /\ g_StoreClosed /\ g_Current = NULL
          /\ g_RollbackSlot = NULL
      BY <1>1, <2>4 DEF OpenInv, ShutdownFree, ShutdownStuck
    <3>4. /\ UNCHANGED <<g_Current, g_RollbackSlot, g_StoreInited, g_StoreClosed,
                          g_WriterBusy, wpc, req>>
          /\ stuck' # {} => stuck # {} \/ runtime' = "UnloadBlocked"
          /\ runtime' = runtime \/ runtime' = "UnloadBlocked"
      BY <2>4 DEF ShutdownFree, ShutdownStuck
    <3>5. g_WriterBusy # NoThread
      BY <1>2, <3>1
    <3>6. QED
      BY <1>1, <1>2, <3>2, <3>3, <3>4, <3>5 DEF OpenInv, Staging
  <2>5. CASE ShutdownEnd
    <3>1. g_WriterBusy = Controller /\ \A d \in Clients : d # Controller => wpc[d] = "idle"
      BY <1>1, <1>2, <2>5, OthersIdle DEF ShutdownEnd
    <3>2. \A d \in Clients : wpc'[d] = "idle"
      BY <1>1, <1>2, <2>5, <3>1 DEF Shape, ShutdownEnd
    <3>3. g_Current = NULL /\ g_RollbackSlot = NULL /\ g_StoreClosed
          /\ (stuck # {} => runtime = "UnloadBlocked")
      BY <1>1, <2>5 DEF OpenInv, ShutdownEnd
    <3>4. /\ UNCHANGED <<g_Current, g_RollbackSlot, g_StoreClosed, runtime>>
          /\ stuck' = {} /\ g_RetireList' = stuck
          /\ g_StoreInited' <=> stuck # {}
      BY <2>5 DEF ShutdownEnd
    <3>5. \A d \in Writers : wpc'[d] = "idle"
      BY <3>2 DEF Clients
    <3>6. QED
      BY <1>2, <3>2, <3>3, <3>4, <3>5 DEF OpenInv, Staging
  <2>6. QED
    BY <1>4, <2>1, <2>2, <2>3, <2>4, <2>5 DEF ControllerStep
<1>5. ASSUME NEW r \in Readers, ReaderStep(r)
      PROVE  OpenInv'
  BY <1>1, <1>5 DEF OpenInv, Staging, ReaderStep, ReadCurrent, SkRuleStoreAcquire,
                    SkRuleStoreRelease, SkRuleEvaluate
<1>6. CASE RuntimeStep
  BY <1>1, <1>6 DEF OpenInv, Staging, RuntimeStep, Runtime, ShRuntimeActivate,
                    ShRuntimeBeginTeardown, ShRuntimeEnterQuiescent,
                    ShRuntimeEnterUnloadBlocked
<1>7. CASE UNCHANGED vars
  BY <1>1, <1>7 DEF OpenInv, Staging, vars
<1>8. QED
  BY <1>3, <1>4, <1>5, <1>6, <1>7 DEF Next

-----------------------------------------------------------------------------
(***************************************************************************)
(* Pointers.                                                               *)
(***************************************************************************)
\* A drained rundown has no holder.
LEMMA DrainedUnheld ==
  ASSUME CountIsHolders, NEW s \in Snaps, Drained(readers[s])
  PROVE  \A r \in Readers : ~(rpc[r] = "hold" /\ held[r] = s)
<1> DEFINE H == {r \in Readers : rpc[r] = "hold" /\ held[r] = s}
<1>1. IsFiniteSet(H)
  BY FS_Subset, ThreadAssumption
<1>2. Cardinality(H) = 0
  BY DEF CountIsHolders, Drained
<1>3. H = {}
  BY <1>1, <1>2, FS_EmptySet
<1>4. QED
  BY <1>3

\* While only client c is inside an operation, the pointers of the others are NULL
\* and stay so.
LEMMA ClientsKept ==
  ASSUME PointerInv, NEW c \in Clients,
         \A d \in Clients : d # c => wpc[d] = "idle",
         \A d \in Clients : d # c => /\ wpc'[d] = wpc[d]
                                     /\ snap'[d] = snap[d]
                                     /\ old'[d] = old[d],
         ClientPointer(c)'
  PROVE  \A d \in Clients : ClientPointer(d)'
BY DEF PointerInv, ClientPointer, Staging, ControllerLabels

\* Steps that move no reader keep the readers' pointers, if g_Current changes only
\* outside section R and nothing that is held gets lost.
LEMMA ReadersKept ==
  ASSUME LockInv, PointerInv, UNCHANGED <<rpc, held>>,
         g_Current' = g_Current \/ g_PublishLock \notin Readers,
         \A r \in Readers : rpc[r] = "hold" => held[r] \in Tracked'
  PROVE  \A r \in Readers : ReaderPointer(r)'
BY DEF LockInv, PointerInv, ReaderPointer

\* Pointers agree with the control points of their owners.
LEMMA PointerStep ==
  ASSUME IInv, [Next]_vars
  PROVE  PointerInv'
<1> USE DEF store, flags, memory, locals, reader, Goto, Return
<1>1. OpenInv /\ LockInv /\ Shape /\ PointerInv /\ CountIsHolders
  BY DEF IInv, TypeOK
<1>2. Controller \in Clients /\ Controller \notin Writers
      /\ NoThread \notin Clients /\ NULL \notin Snaps
  BY ThreadAssumption, DataAssumption DEF Clients
<1>3. \A r \in Readers : rpc[r] = "hold" => held[r] \in Tracked /\ held[r] \in Snaps
  BY <1>1 DEF PointerInv, ReaderPointer, Tracked, Published, Shape
<1>4. ASSUME NEW w \in Writers, WriterStep(w)
      PROVE  PointerInv'
  <2>0. w \in Clients /\ w # Controller
    BY <1>2 DEF Clients
  <2>1. CASE Write(w)
    <3>1. PICK q, rules, policy : Stage(w, q, rules, policy)
      BY <2>1, WriteStages
    <3>2. \A d \in Clients : wpc[d] = "idle"
      BY <1>1, <3>1, AllIdle DEF Stage, SkStoreLock
    <3>3. PICK s \in Snaps : snap' = [snap EXCEPT ![w] = s]
      BY <3>1 DEF Stage
    <3>4. wpc' = [wpc EXCEPT ![w] = "drain"] /\ UNCHANGED <<store, rpc, held, old>>
      BY <3>1 DEF Stage
    <3>5. old[w] = NULL
      BY <1>1, <2>0, <3>2 DEF PointerInv, ClientPointer
    <3>6. ClientPointer(w)'
      BY <1>1, <1>2, <2>0, <3>3, <3>4, <3>5 DEF Shape, ClientPointer, Staging, ControllerLabels
    <3>7. \A d \in Clients : d # w => /\ wpc'[d] = wpc[d]
                                       /\ snap'[d] = snap[d]
                                       /\ old'[d] = old[d]
      BY <1>1, <2>0, <3>3, <3>4 DEF Shape
    <3>8. \A d \in Clients : ClientPointer(d)'
      BY <1>1, <2>0, <3>2, <3>6, <3>7, ClientsKept
    <3>9. Tracked' = Tracked
      BY <3>4 DEF Tracked, Published
    <3>10. \A r \in Readers : ReaderPointer(r)'
      BY <1>1, <1>3, <3>4, <3>9, ReadersKept
    <3>11. QED
      BY <3>8, <3>10 DEF PointerInv
  <2>2. CASE SkRuleStoreEnum(w)
    <3>1. \A d \in Clients : wpc[d] = "idle"
      BY <1>1, <2>2, AllIdle DEF SkRuleStoreEnum, SkStoreLock
    <3>2. old[w] = NULL
      BY <1>1, <2>0, <3>1 DEF PointerInv, ClientPointer
    <3>3. ClientPointer(w)'
      BY <1>1, <1>2, <2>0, <2>2, <3>2
      DEF Shape, ClientPointer, Staging, ControllerLabels, SkRuleStoreEnum
    <3>4. \A d \in Clients : d # w => /\ wpc'[d] = wpc[d]
                                       /\ snap'[d] = snap[d]
                                       /\ old'[d] = old[d]
      BY <1>1, <2>0, <2>2 DEF Shape, SkRuleStoreEnum
    <3>5. \A d \in Clients : ClientPointer(d)'
      BY <1>1, <2>0, <3>1, <3>3, <3>4, ClientsKept
    <3>6. Tracked' = Tracked /\ UNCHANGED <<rpc, held, g_Current>>
      BY <2>2 DEF Tracked, Published, SkRuleStoreEnum
    <3>7. \A r \in Readers : ReaderPointer(r)'
      BY <1>1, <1>3, <3>6, ReadersKept
    <3>8. QED
      BY <3>5, <3>7 DEF PointerInv
  <2>3. ASSUME wpc[w] # "idle", ~Write(w), ~SkRuleStoreEnum(w)
        PROVE  PointerInv'
    <3>1. \A d \in Clients : d # w => wpc[d] = "idle"
      BY <1>1, <2>0, <2>3, OthersIdle
    <3>2. UNCHANGED <<rpc, held>>
      BY <1>4, <2>3 DEF WriterStep, EnumDone, SkRateResetRemoved, PublishRefused,
                        SkRetireDrain, SkRetireGiveUp, SectionW, EnterW, SkPublish,
                        PublishRollback, Swap
    <3>3. CASE EnumDone(w) \/ SkRateResetRemoved(w) \/ PublishRefused(w)
      <4>1. /\ wpc' = [wpc EXCEPT ![w] = "idle"]
            /\ snap' = [snap EXCEPT ![w] = NULL]
            /\ old' = [old EXCEPT ![w] = NULL]
            /\ UNCHANGED store
        BY <3>3 DEF EnumDone, SkRateResetRemoved, PublishRefused
      <4>2. ClientPointer(w)'
        BY <1>1, <2>0, <4>1 DEF Shape, ClientPointer, Staging, ControllerLabels
      <4>3. \A d \in Clients : d # w => /\ wpc'[d] = wpc[d]
                                         /\ snap'[d] = snap[d]
                                         /\ old'[d] = old[d]
        BY <1>1, <2>0, <4>1 DEF Shape
      <4>4. \A d \in Clients : ClientPointer(d)'
        BY <1>1, <2>0, <3>1, <4>2, <4>3, ClientsKept
      <4>5. Tracked' = Tracked
        BY <4>1 DEF Tracked, Published
      <4>6. \A r \in Readers : ReaderPointer(r)'
        BY <1>1, <1>3, <3>2, <4>1, <4>5, ReadersKept
      <4>7. QED
        BY <4>4, <4>6 DEF PointerInv
    <3>4. CASE SkRetireDrain(w) \/ SkRetireGiveUp(w) \/ SectionW(w)
      <4>1. /\ wpc[w] \in Staging
            /\ wpc'[w] \in Staging
            /\ \A d \in Clients : d # w => wpc'[d] = wpc[d]
            /\ UNCHANGED <<snap, old, g_Current, g_RollbackSlot, stuck>>
        BY <1>1, <2>0, <3>4
        DEF Shape, Staging, SkRetireDrain, SkRetireGiveUp, SectionW, EnterW
      <4>2. ClientPointer(w)'
        BY <1>1, <2>0, <4>1 DEF PointerInv, ClientPointer, Staging, ControllerLabels
      <4>3. \A d \in Clients : ClientPointer(d)'
        BY <1>1, <2>0, <3>1, <4>1, <4>2, ClientsKept
      <4>4. \A s \in g_RetireList : s \in g_RetireList' \/ Drained(readers[s])
        BY <3>4 DEF SkRetireDrain, SkRetireGiveUp, SectionW, EnterW
      <4>5. \A r \in Readers : rpc[r] = "hold" => held[r] \in Tracked'
        BY <1>1, <1>3, <4>1, <4>4, DrainedUnheld DEF Tracked, Published
      <4>6. \A r \in Readers : ReaderPointer(r)'
        BY <1>1, <3>2, <4>1, <4>5, ReadersKept
      <4>7. QED
        BY <4>3, <4>6 DEF PointerInv
    <3>5. CASE SkPublish(w) \/ PublishRollback(w)
      <4>1. /\ wpc' = [wpc EXCEPT ![w] = "reset"]
            /\ UNCHANGED snap
            /\ g_Current' = snap[w]
            /\ old' = [old EXCEPT ![w] = g_Current]
            /\ UNCHANGED stuck
            /\ wpc[w] = "swap"
        BY <3>5 DEF SkPublish, PublishRollback, LeaveW, Swap
      <4>10. g_PublishLock \notin Readers
        BY <1>1, <2>0, <4>1, ThreadAssumption DEF LockInv
      <4>2. g_Current # NULL
        BY <1>1, <2>3 DEF OpenInv
      <4>3. g_Current \in {g_RollbackSlot'} \cup g_RetireList'
        BY <3>5, <4>2 DEF SkPublish, PublishRollback, Retire
      <4>4. ClientPointer(w)'
        BY <1>1, <2>0, <4>1, <4>2, <4>3 DEF Shape, ClientPointer, Staging, ControllerLabels
      <4>5. \A d \in Clients : d # w => /\ wpc'[d] = wpc[d]
                                         /\ snap'[d] = snap[d]
                                         /\ old'[d] = old[d]
        BY <1>1, <2>0, <4>1 DEF Shape
      <4>6. \A d \in Clients : ClientPointer(d)'
        BY <1>1, <2>0, <3>1, <4>4, <4>5, ClientsKept
      <4>7. Tracked \subseteq Tracked'
        <5>1. g_RollbackSlot # NULL => g_RollbackSlot \in g_RetireList'
          BY <3>5 DEF SkPublish, PublishRollback, Retire
        <5>2. g_RetireList \subseteq g_RetireList'
          BY <3>5 DEF SkPublish, PublishRollback, Retire
        <5>3. QED
          BY <4>1, <4>2, <4>3, <5>1, <5>2 DEF Tracked, Published
      <4>8. \A r \in Readers : ReaderPointer(r)'
        BY <1>1, <1>3, <3>2, <4>7, <4>10, ReadersKept
      <4>9. QED
        BY <4>6, <4>8 DEF PointerInv
    <3>6. QED
      BY <1>4, <2>3, <3>3, <3>4, <3>5 DEF WriterStep
  <2>4. wpc[w] = "idle" => Write(w) \/ SkRuleStoreEnum(w)
    BY <1>4 DEF WriterStep, EnumDone, SkRetireDrain, SkRetireGiveUp, SkPublish,
                PublishRollback, PublishRefused, SkRateResetRemoved, SectionW, EnterW, LeaveW
  <2>5. QED
    BY <2>1, <2>2, <2>3, <2>4
<1>5. CASE ControllerStep
  <2>1. CASE SkRuleStoreInit
    <3>1. \A d \in Clients : wpc[d] = "idle"
      BY <1>1, <2>1, AllIdle DEF SkRuleStoreInit
    <3>2. \A d \in Clients : ClientPointer(d)'
      BY <1>1, <2>1, <3>1 DEF PointerInv, ClientPointer, Staging, SkRuleStoreInit
    <3>3. \A r \in Readers : ReaderPointer(r)'
      BY <1>1, <2>1 DEF PointerInv, ReaderPointer, SkRuleStoreInit
    <3>4. QED
      BY <3>2, <3>3 DEF PointerInv
  <2>2. CASE ShutdownBegin
    <3>1. \A d \in Clients : wpc[d] = "idle"
      BY <1>1, <2>2, AllIdle DEF ShutdownBegin, SkStoreLock
    <3>2. /\ \A d \in Clients : d # Controller => wpc'[d] = "idle"
          /\ wpc'[Controller] = "close"
      BY <1>1, <1>2, <2>2, <3>1 DEF Shape, ShutdownBegin
    <3>3. \A d \in Clients : ClientPointer(d)'
      BY <1>1, <2>2, <3>1, <3>2
      DEF PointerInv, ClientPointer, Staging, ControllerLabels, ShutdownBegin
    <3>4. Tracked' = Tracked /\ UNCHANGED <<rpc, held, g_Current>>
      BY <2>2 DEF Tracked, Published, ShutdownBegin
    <3>5. \A r \in Readers : ReaderPointer(r)'
      BY <1>1, <1>3, <3>4, ReadersKept
    <3>6. QED
      BY <3>3, <3>5 DEF PointerInv
  <2>3. CASE ShutdownClose
    <3>1. \A d \in Clients : d # Controller => wpc[d] = "idle"
      BY <1>1, <1>2, <2>3, OthersIdle DEF ShutdownClose
    <3>2. /\ \A d \in Clients : d # Controller => wpc'[d] = "idle"
          /\ wpc'[Controller] = "force"
          /\ wpc[Controller] = "close"
      BY <1>1, <1>2, <2>3, <3>1 DEF Shape, ShutdownClose
    <3>3. \A d \in Clients : ClientPointer(d)'
      BY <1>1, <1>2, <2>3, <3>1, <3>2
      DEF PointerInv, ClientPointer, Staging, ControllerLabels, ShutdownClose
    <3>4. Tracked \subseteq Tracked'
      BY <2>3 DEF Tracked, Published, ShutdownClose, Retire
    <3>5. UNCHANGED <<rpc, held>> /\ g_PublishLock \notin Readers
      BY <2>3, ThreadAssumption DEF ShutdownClose
    <3>6. \A r \in Readers : ReaderPointer(r)'
      BY <1>1, <1>3, <3>4, <3>5, ReadersKept
    <3>7. QED
      BY <3>3, <3>6 DEF PointerInv
  <2>4. CASE \E s \in Snaps : ShutdownFree(s) \/ ShutdownStuck(s)
    <3>1. \A d \in Clients : d # Controller => wpc[d] = "idle"
      BY <1>1, <1>2, <2>4, OthersIdle DEF ShutdownFree, ShutdownStuck
    <3>2. UNCHANGED <<wpc, snap, old, rpc, held, g_Current, g_RollbackSlot>>
      BY <2>4 DEF ShutdownFree, ShutdownStuck
    <3>3. wpc[Controller] = "force"
      BY <2>4 DEF ShutdownFree, ShutdownStuck
    <3>4. \A d \in Clients : ClientPointer(d)'
      BY <1>1, <3>1, <3>2, <3>3 DEF PointerInv, ClientPointer, Staging, ControllerLabels
    <3>5. \A s \in g_RetireList \cup stuck :
            s \in g_RetireList' \cup stuck' \/ Drained(readers[s])
      BY <2>4 DEF ShutdownFree, ShutdownStuck
    <3>6. \A r \in Readers : rpc[r] = "hold" => held[r] \in Tracked'
      BY <1>1, <1>3, <3>2, <3>5, DrainedUnheld DEF Tracked, Published
    <3>7. \A r \in Readers : ReaderPointer(r)'
      BY <1>1, <3>2, <3>6, ReadersKept
    <3>8. QED
      BY <3>4, <3>7 DEF PointerInv
  <2>5. CASE ShutdownEnd
    <3>1. \A d \in Clients : d # Controller => wpc[d] = "idle"
      BY <1>1, <1>2, <2>5, OthersIdle DEF ShutdownEnd
    <3>2. \A d \in Clients : /\ wpc'[d] = "idle"
                             /\ d # Controller => snap'[d] = snap[d] /\ old'[d] = old[d]
      BY <1>1, <1>2, <2>5, <3>1 DEF Shape, ShutdownEnd
    <3>3. snap'[Controller] = NULL /\ old'[Controller] = NULL
      BY <1>1, <1>2, <2>5 DEF Shape, ShutdownEnd
    <3>4. \A d \in Clients : ClientPointer(d)'
      BY <1>1, <3>1, <3>2, <3>3 DEF PointerInv, ClientPointer, Staging, ControllerLabels
    <3>5. Tracked' = Tracked /\ UNCHANGED <<rpc, held, g_Current>>
      BY <2>5 DEF Tracked, Published, ShutdownEnd
    <3>6. \A r \in Readers : ReaderPointer(r)'
      BY <1>1, <1>3, <3>5, ReadersKept
    <3>7. QED
      BY <3>4, <3>6 DEF PointerInv
  <2>6. QED
    BY <1>5, <2>1, <2>2, <2>3, <2>4, <2>5 DEF ControllerStep
<1>6. ASSUME NEW r \in Readers, ReaderStep(r)
      PROVE  PointerInv'
  <2>1. UNCHANGED <<wpc, snap, old, g_Current, g_RollbackSlot, g_RetireList, stuck>>
    BY <1>6 DEF ReaderStep, ReadCurrent, SkRuleStoreAcquire, SkRuleStoreRelease,
                SkRuleEvaluate
  <2>2. \A d \in Clients : ClientPointer(d)'
    BY <1>1, <2>1 DEF PointerInv, ClientPointer
  <2>3. Tracked' = Tracked
    BY <2>1 DEF Tracked, Published
  <2>4. \A p \in Readers : p # r => rpc'[p] = rpc[p] /\ held'[p] = held[p]
    BY <1>1, <1>6 DEF Shape, ReaderStep, ReadCurrent, SkRuleStoreAcquire,
                      SkRuleStoreRelease, SkRuleEvaluate
  <2>5. ReaderPointer(r)'
    <3>1. CASE ReadCurrent(r)
      BY <1>1, <3>1 DEF Shape, ReaderPointer, ReadCurrent
    <3>2. CASE SkRuleStoreAcquire(r)
      <4>1. rpc[r] = "inR" /\ held[r] = g_Current
        BY <1>1, <3>2 DEF PointerInv, ReaderPointer, SkRuleStoreAcquire
      <4>2. g_Current # NULL => g_Current \in Tracked
        BY DEF Tracked, Published
      <4>3. \/ rpc'[r] = "idle" /\ held'[r] = NULL
            \/ rpc'[r] = "hold" /\ held'[r] = g_Current /\ g_Current # NULL
        BY <1>1, <3>2, <4>1 DEF Shape, SkRuleStoreAcquire
      <4>4. QED
        BY <2>3, <4>2, <4>3 DEF ReaderPointer
    <3>3. CASE SkRuleStoreRelease(r)
      BY <1>1, <3>3 DEF Shape, ReaderPointer, SkRuleStoreRelease
    <3>4. CASE \E id \in RuleIds : SkRuleEvaluate(r, id)
      BY <1>1, <2>1, <2>3, <3>4 DEF PointerInv, ReaderPointer, SkRuleEvaluate
    <3>5. QED
      BY <1>6, <3>1, <3>2, <3>3, <3>4 DEF ReaderStep
  <2>6. QED
    BY <1>1, <2>1, <2>2, <2>3, <2>4, <2>5 DEF PointerInv, ReaderPointer
<1>7. ASSUME RuntimeStep \/ UNCHANGED vars
      PROVE  PointerInv'
  <2>1. UNCHANGED <<wpc, snap, old, rpc, held, g_Current, g_RollbackSlot, g_RetireList, stuck>>
    BY <1>7 DEF RuntimeStep, Runtime, ShRuntimeActivate, ShRuntimeBeginTeardown,
                ShRuntimeEnterQuiescent, ShRuntimeEnterUnloadBlocked, vars
  <2>2. QED
    BY <1>1, <2>1 DEF PointerInv, ClientPointer, ReaderPointer, Tracked, Published
<1>8. QED
  BY <1>4, <1>5, <1>6, <1>7 DEF Next

-----------------------------------------------------------------------------
(***************************************************************************)
(* Tracking.                                                               *)
(***************************************************************************)
\* What is staged while only client c is inside an operation.
LEMMA StagedNow ==
  ASSUME NEW c \in Clients, \A d \in Clients : d # c => wpc[d] = "idle"
  PROVE  Staged = {s \in Snaps : wpc[c] \in Staging /\ snap[c] = s}
BY DEF Staged, Staging

\* The same of the next state.
LEMMA StagedNext ==
  ASSUME NEW c \in Clients, \A d \in Clients : d # c => wpc'[d] = "idle"
  PROVE  Staged' = {s \in Snaps : wpc'[c] \in Staging /\ snap'[c] = s}
BY DEF Staged, Staging

\* A step of a writer leaves the other clients outside.
LEMMA WriterAlone ==
  ASSUME IInv, NEW w \in Writers, WriterStep(w)
  PROVE  /\ w \in Clients
         /\ \A d \in Clients : d # w => wpc[d] = "idle" /\ wpc'[d] = "idle"
<1> USE DEF Goto, Return
<1>1. LockInv /\ Shape /\ w \in Clients
  BY DEF IInv, TypeOK, Clients
<1>2. wpc[w] # "idle" \/ g_WriterBusy = NoThread
  BY WriteStages
  DEF WriterStep, Stage, SkStoreLock, SkRuleStoreEnum, EnumDone, SkRetireDrain,
      SkRetireGiveUp, SkPublish, PublishRollback, PublishRefused, SkRateResetRemoved,
      SectionW, EnterW, LeaveW
<1>3. \A d \in Clients : d # w => wpc[d] = "idle"
  BY <1>1, <1>2, OthersIdle, AllIdle
<1>4. \E l : wpc' = [wpc EXCEPT ![w] = l]
  BY WriteStages
  DEF WriterStep, Stage, SkStoreLock, SkRuleStoreEnum, EnumDone, SkRetireDrain,
      SkRetireGiveUp, SkPublish, PublishRollback, PublishRefused, SkRateResetRemoved,
      SectionW, EnterW, LeaveW
<1>5. QED
  BY <1>1, <1>3, <1>4 DEF Shape

\* A step of the controller leaves the writers outside.
LEMMA ControllerAlone ==
  ASSUME IInv, ControllerStep
  PROVE  /\ \A d \in Clients : d # Controller => wpc[d] = "idle" /\ wpc'[d] = "idle"
         /\ wpc[Controller] \in ControllerLabels /\ wpc'[Controller] \in ControllerLabels
<1> USE DEF Goto, Return
<1>1. LockInv /\ Shape /\ Controller \in Clients
  BY DEF IInv, TypeOK, Clients
<1>2. wpc[Controller] # "idle" \/ g_WriterBusy = NoThread
  BY DEF ControllerStep, SkRuleStoreInit, ShutdownBegin, SkStoreLock, ShutdownClose,
         ShutdownFree, ShutdownStuck, ShutdownEnd
<1>3. \A d \in Clients : d # Controller => wpc[d] = "idle"
  BY <1>1, <1>2, OthersIdle, AllIdle
<1>4. wpc' = wpc \/ \E l \in ControllerLabels : wpc' = [wpc EXCEPT ![Controller] = l]
  BY DEF ControllerStep, SkRuleStoreInit, ShutdownBegin, SkStoreLock, ShutdownClose,
         ShutdownFree, ShutdownStuck, ShutdownEnd, ControllerLabels
<1>5. QED
  BY <1>1, <1>3, <1>4 DEF Shape, LockInv

\* Nothing is staged while the controller is inside, or nobody is.
LEMMA NoneStaged ==
  ASSUME IInv, ControllerStep
  PROVE  Staged = {} /\ Staged' = {}
<1>1. Controller \in Clients
  BY DEF Clients
<1>2. QED
  BY <1>1, ControllerAlone, StagedNow, StagedNext DEF ControllerLabels, Staging

\* Every allocated snapshot stays on exactly one structure.
LEMMA TrackedStep ==
  ASSUME IInv, [Next]_vars
  PROVE  EverySnapshotTracked'
<1> USE DEF store, flags, memory, locals, reader, Goto, Return
<1>1. OpenInv /\ LockInv /\ Shape /\ PointerInv /\ EverySnapshotTracked
  BY DEF IInv, TypeOK
<1>2. NULL \notin Snaps
  BY DataAssumption
<1>3. ASSUME NEW w \in Writers, WriterStep(w)
      PROVE  EverySnapshotTracked'
  <2>0. w \in Clients
    BY DEF Clients
  <2>1. Staged = {s \in Snaps : wpc[w] \in Staging /\ snap[w] = s}
    BY <1>3, WriterAlone, StagedNow
  <2>2. Staged' = {s \in Snaps : wpc'[w] \in Staging /\ snap'[w] = s}
    BY <1>3, WriterAlone, StagedNext
  <2>3. CASE Write(w)
    <3>1. PICK q, rules, policy : Stage(w, q, rules, policy)
      BY <2>3, WriteStages
    <3>2. PICK s \in Snaps : /\ s \notin pool
                             /\ pool' = pool \cup {s}
                             /\ snap' = [snap EXCEPT ![w] = s]
      BY <3>1 DEF Stage, SkSnapAlloc
    <3>3. wpc[w] = "idle" /\ wpc'[w] = "drain" /\ snap'[w] = s /\ UNCHANGED store
      BY <1>1, <2>0, <3>1, <3>2 DEF Stage, SkStoreLock, Shape
    <3>4. Staged = {} /\ Staged' = {s}
      BY <2>1, <2>2, <3>3 DEF Staging
    <3>5. Published' = Published
      BY <3>3 DEF Published
    <3>6. QED
      BY <1>1, <3>2, <3>3, <3>4, <3>5 DEF EverySnapshotTracked
  <2>4. CASE \/ SkRuleStoreEnum(w) \/ EnumDone(w) \/ SkRateResetRemoved(w)
             \/ SkRetireGiveUp(w) \/ SectionW(w)
    <3>1. UNCHANGED <<store, pool>>
      BY <2>4 DEF SkRuleStoreEnum, EnumDone, SkRateResetRemoved, SkRetireGiveUp, SectionW,
                  EnterW
    <3>2. \/ wpc[w] \notin Staging /\ wpc'[w] \notin Staging
          \/ wpc[w] \in Staging /\ wpc'[w] \in Staging /\ UNCHANGED snap
      BY <1>1, <2>0, <2>4 DEF Shape, Staging, SkRuleStoreEnum, SkStoreLock, EnumDone,
                              SkRateResetRemoved, SkRetireGiveUp, SectionW, EnterW
    <3>3. Staged' = Staged /\ Published' = Published
      BY <2>1, <2>2, <3>1, <3>2 DEF Published
    <3>4. QED
      BY <1>1, <3>1, <3>3 DEF EverySnapshotTracked
  <2>5. CASE SkRetireDrain(w)
    <3>1. wpc[w] = "drain" /\ wpc'[w] \in Staging /\ UNCHANGED snap
      BY <1>1, <2>0, <2>5 DEF Shape, Staging, SkRetireDrain
    <3>2. Staged' = Staged
      BY <2>1, <2>2, <3>1 DEF Staging
    <3>3. PICK drained : /\ drained \subseteq g_RetireList
                         /\ g_RetireList' = g_RetireList \ drained
                         /\ pool' = pool \ drained
      BY <2>5 DEF SkRetireDrain, Scrub
    <3>4. UNCHANGED <<g_Current, g_RollbackSlot, stuck>> /\ Published' = Published
      BY <2>5 DEF SkRetireDrain, Published
    <3>5. QED
      BY <1>1, <3>2, <3>3, <3>4 DEF EverySnapshotTracked
  <2>6. CASE PublishRefused(w)
    <3>1. wpc[w] = "publish" /\ wpc'[w] = "idle" /\ pool' = pool \ {snap[w]}
          /\ UNCHANGED store
      BY <1>1, <2>0, <2>6 DEF Shape, PublishRefused, Scrub
    <3>2. snap[w] \in Snaps
      BY <1>1, <2>0, <3>1 DEF Shape, PointerInv, ClientPointer, Staging
    <3>3. Staged = {snap[w]} /\ Staged' = {} /\ Published' = Published
      BY <2>1, <2>2, <3>1, <3>2 DEF Published, Staging
    <3>4. QED
      BY <1>1, <3>1, <3>3 DEF EverySnapshotTracked
  <2>7. CASE SkPublish(w) \/ PublishRollback(w)
    <3>1. /\ wpc[w] = "swap" /\ wpc'[w] = "reset"
          /\ g_Current' = snap[w]
          /\ UNCHANGED <<pool, stuck>>
      BY <1>1, <2>0, <2>7 DEF Shape, SkPublish, PublishRollback, LeaveW, Swap
    <3>2. snap[w] \in Snaps /\ g_Current # NULL
      BY <1>1, <2>0, <3>1 DEF Shape, PointerInv, ClientPointer, Staging, OpenInv
    <3>3. Staged = {snap[w]} /\ Staged' = {}
      BY <2>1, <2>2, <3>1, <3>2 DEF Staging
    <3>4. \/ /\ g_RollbackSlot' = g_Current
             /\ g_RetireList' = g_RetireList \cup ({g_RollbackSlot} \ {NULL})
          \/ /\ g_RollbackSlot' = NULL
             /\ g_RetireList' = g_RetireList \cup {g_Current, g_RollbackSlot}
             /\ g_RollbackSlot # NULL
      <4>1. CASE SkPublish(w)
        BY <4>1 DEF SkPublish, Retire
      <4>2. CASE PublishRollback(w)
        BY <1>1, <3>1, <4>2 DEF PublishRollback, Retire, OpenInv, Staging
      <4>3. QED
        BY <2>7, <4>1, <4>2
    <3>5. QED
      BY <1>1, <1>2, <3>1, <3>2, <3>3, <3>4 DEF EverySnapshotTracked, Published
  <2>8. QED
    BY <1>3, <2>3, <2>4, <2>5, <2>6, <2>7 DEF WriterStep
<1>4. CASE ControllerStep
  <2>0. Staged = {} /\ Staged' = {}
    BY <1>4, NoneStaged
  <2>1. CASE SkRuleStoreInit
    <3>1. g_Current = NULL /\ g_RollbackSlot = NULL /\ g_RetireList = {} /\ stuck = {}
      BY <1>1, <2>1 DEF OpenInv, SkRuleStoreInit
    <3>2. pool = {}
      BY <1>1, <2>0, <3>1 DEF EverySnapshotTracked, Published
    <3>3. PICK s \in Snaps : pool' = pool \cup {s} /\ g_Current' = s
      BY <2>1 DEF SkRuleStoreInit, SkSnapAlloc
    <3>4. g_RetireList' = {} /\ g_RollbackSlot' = NULL /\ stuck' = {}
      BY <2>1, <3>1 DEF SkRuleStoreInit
    <3>5. QED
      BY <1>2, <2>0, <3>2, <3>3, <3>4 DEF EverySnapshotTracked, Published
  <2>2. CASE ShutdownBegin
    BY <1>1, <2>0, <2>2 DEF EverySnapshotTracked, Published, ShutdownBegin
  <2>3. CASE ShutdownClose
    BY <1>1, <1>2, <2>0, <2>3 DEF EverySnapshotTracked, Published, ShutdownClose, Retire
  <2>4. ASSUME NEW s \in Snaps, ShutdownFree(s)
        PROVE  EverySnapshotTracked'
    BY <1>1, <2>0, <2>4 DEF EverySnapshotTracked, Published, ShutdownFree, Scrub
  <2>5. ASSUME NEW s \in Snaps, ShutdownStuck(s)
        PROVE  EverySnapshotTracked'
    BY <1>1, <2>0, <2>5 DEF EverySnapshotTracked, Published, ShutdownStuck
  <2>6. CASE ShutdownEnd
    BY <1>1, <2>0, <2>6 DEF EverySnapshotTracked, Published, ShutdownEnd
  <2>7. QED
    BY <1>4, <2>1, <2>2, <2>3, <2>4, <2>5, <2>6 DEF ControllerStep
<1>5. ASSUME (\E r \in Readers : ReaderStep(r)) \/ RuntimeStep \/ UNCHANGED vars
      PROVE  EverySnapshotTracked'
  <2>1. UNCHANGED <<store, pool, wpc, snap>>
    BY <1>5 DEF ReaderStep, ReadCurrent, SkRuleStoreAcquire, SkRuleStoreRelease,
                SkRuleEvaluate, RuntimeStep, Runtime, ShRuntimeActivate,
                ShRuntimeBeginTeardown, ShRuntimeEnterQuiescent,
                ShRuntimeEnterUnloadBlocked, vars
  <2>2. QED
    BY <1>1, <2>1 DEF EverySnapshotTracked, Published, Staged
<1>6. QED
  BY <1>3, <1>4, <1>5 DEF Next

-----------------------------------------------------------------------------
(***************************************************************************)
(* Stop bits and counts.                                                   *)
(***************************************************************************)
\* A step that only allocates, frees or retires: what it does to pool, stop bits and
\* lists is all that StopBitMarksRetired needs to know.
LEMMA StopBitKept ==
  ASSUME StopBitMarksRetired,
         NEW S,
         pool' = pool,
         \A s \in pool : readers'[s].stop <=> readers[s].stop \/ s \in S,
         g_RetireList' \cup stuck' = g_RetireList \cup stuck \cup S
  PROVE  StopBitMarksRetired'
BY DEF StopBitMarksRetired

\* Freed snapshots leave pool and list together.
LEMMA StopBitFreed ==
  ASSUME Shape, StopBitMarksRetired, NEW S \in SUBSET Snaps, Scrub(S),
         (g_RetireList' \cup stuck') \ S = (g_RetireList \cup stuck) \ S
  PROVE  StopBitMarksRetired'
<1>1. \A s \in pool' : s \notin S /\ s \in pool /\ s \in Snaps
  BY DEF Shape, Scrub
<1>2. \A s \in Snaps : s \notin S => readers'[s] = readers[s]
  BY DEF Scrub
<1>3. \A s \in pool' : s \in g_RetireList' \cup stuck' <=> s \in g_RetireList \cup stuck
  BY <1>1
<1>4. QED
  BY <1>1, <1>2, <1>3 DEF StopBitMarksRetired

\* An allocated snapshot has no stop bit and is on no list.
LEMMA StopBitAlloc ==
  ASSUME Shape, EverySnapshotTracked, StopBitMarksRetired, NEW s \in Snaps, NEW c,
         SkSnapAlloc(s, c), UNCHANGED <<g_RetireList, stuck>>
  PROVE  StopBitMarksRetired'
<1>1. s \notin g_RetireList \cup stuck
  BY DEF EverySnapshotTracked, SkSnapAlloc
<1>2. ~readers'[s].stop
  BY DEF Shape, SkSnapAlloc, ShRundownInit
<1>3. \A t \in pool : t # s /\ readers'[t] = readers[t]
  BY DEF Shape, SkSnapAlloc
<1>4. pool' = pool \cup {s}
  BY DEF SkSnapAlloc
<1>5. QED
  BY <1>1, <1>2, <1>3, <1>4 DEF StopBitMarksRetired

\* The stop bit marks what is retired.
LEMMA StopBitStep ==
  ASSUME IInv, [Next]_vars
  PROVE  StopBitMarksRetired'
<1> USE DEF store, flags, memory, locals, reader, Goto, Return
<1>1. OpenInv /\ LockInv /\ Shape /\ PointerInv /\ EverySnapshotTracked
      /\ StopBitMarksRetired
  BY DEF IInv, TypeOK
<1>2. NULL \notin Snaps
  BY DataAssumption
<1>3. ASSUME NEW w \in Writers, WriterStep(w)
      PROVE  StopBitMarksRetired'
  <2>0. w \in Clients
    BY DEF Clients
  <2>1. CASE Write(w)
    <3>1. PICK q, rules, policy : Stage(w, q, rules, policy)
      BY <2>1, WriteStages
    <3>2. QED
      BY <1>1, <3>1, StopBitAlloc DEF Stage
  <2>2. CASE \/ SkRuleStoreEnum(w) \/ EnumDone(w) \/ SkRateResetRemoved(w)
             \/ SkRetireGiveUp(w) \/ SectionW(w)
    BY <1>1, <2>2 DEF StopBitMarksRetired, SkRuleStoreEnum, EnumDone, SkRateResetRemoved,
                      SkRetireGiveUp, SectionW, EnterW
  <2>3. CASE SkRetireDrain(w)
    <3>1. PICK drained : /\ drained \subseteq g_RetireList
                         /\ g_RetireList' = g_RetireList \ drained
                         /\ Scrub(drained)
      BY <2>3 DEF SkRetireDrain
    <3>2. UNCHANGED stuck /\ drained \in SUBSET Snaps
      BY <1>1, <2>3, <3>1 DEF SkRetireDrain, Shape
    <3>3. QED
      BY <1>1, <3>1, <3>2, StopBitFreed
  <2>4. CASE PublishRefused(w)
    <3>1. {snap[w]} \in SUBSET Snaps
      BY <1>1, <2>0, <2>4 DEF Shape, PointerInv, ClientPointer, Staging, PublishRefused
    <3>2. Scrub({snap[w]}) /\ UNCHANGED <<g_RetireList, stuck>>
      BY <2>4 DEF PublishRefused
    <3>3. QED
      BY <1>1, <3>1, <3>2, StopBitFreed
  <2>5. CASE SkPublish(w) \/ PublishRollback(w)
    <3>1. UNCHANGED <<pool, stuck>>
      BY <2>5 DEF SkPublish, PublishRollback, Swap
    <3>2. PICK S : Retire(S)
      BY <2>5 DEF SkPublish, PublishRollback
    <3>3. g_RetireList' \cup stuck' = g_RetireList \cup stuck \cup S
      BY <3>1, <3>2 DEF Retire
    <3>4. \A s \in pool : readers'[s].stop <=> readers[s].stop \/ s \in S
      BY <1>1, <3>2 DEF Shape, Retire, Rundown
    <3>5. QED
      BY <1>1, <3>1, <3>3, <3>4, StopBitKept
  <2>6. QED
    BY <1>3, <2>1, <2>2, <2>3, <2>4, <2>5 DEF WriterStep
<1>4. CASE ControllerStep
  <2>1. CASE SkRuleStoreInit
    <3>1. PICK s \in Snaps : SkSnapAlloc(s, Blank)
      BY <2>1 DEF SkRuleStoreInit
    <3>2. UNCHANGED <<g_RetireList, stuck>>
      BY <1>1, <2>1 DEF OpenInv, SkRuleStoreInit
    <3>3. QED
      BY <1>1, <3>1, <3>2, StopBitAlloc
  <2>2. CASE ShutdownBegin
    BY <1>1, <2>2 DEF StopBitMarksRetired, ShutdownBegin
  <2>3. CASE ShutdownClose
    <3>1. PICK S : Retire(S) /\ UNCHANGED <<pool, stuck>>
      BY <2>3 DEF ShutdownClose
    <3>2. g_RetireList' \cup stuck' = g_RetireList \cup stuck \cup S
      BY <3>1 DEF Retire
    <3>3. \A s \in pool : readers'[s].stop <=> readers[s].stop \/ s \in S
      BY <1>1, <3>1 DEF Shape, Retire, Rundown
    <3>4. QED
      BY <1>1, <3>1, <3>2, <3>3, StopBitKept
  <2>4. ASSUME NEW s \in Snaps, ShutdownFree(s)
        PROVE  StopBitMarksRetired'
    <3>1. {s} \in SUBSET Snaps /\ Scrub({s})
      BY <2>4 DEF ShutdownFree
    <3>2. (g_RetireList' \cup stuck') \ {s} = (g_RetireList \cup stuck) \ {s}
      BY <2>4 DEF ShutdownFree
    <3>3. QED
      BY <1>1, <3>1, <3>2, StopBitFreed
  <2>5. ASSUME NEW s \in Snaps, ShutdownStuck(s)
        PROVE  StopBitMarksRetired'
    BY <1>1, <2>5 DEF StopBitMarksRetired, ShutdownStuck
  <2>6. CASE ShutdownEnd
    BY <1>1, <2>6 DEF StopBitMarksRetired, ShutdownEnd
  <2>7. QED
    BY <1>4, <2>1, <2>2, <2>3, <2>4, <2>5, <2>6 DEF ControllerStep
<1>5. ASSUME NEW r \in Readers, ReaderStep(r)
      PROVE  StopBitMarksRetired'
  <2>1. UNCHANGED <<pool, g_RetireList, stuck>>
    BY <1>5 DEF ReaderStep, ReadCurrent, SkRuleStoreAcquire, SkRuleStoreRelease,
                SkRuleEvaluate
  <2>2. \A s \in Snaps : readers'[s].stop = readers[s].stop
    BY <1>1, <1>5 DEF Shape, Rundown, ReaderStep, ReadCurrent, SkRuleStoreAcquire,
                      Acquired, SkRuleStoreRelease, Released, SkRuleEvaluate
  <2>3. QED
    BY <1>1, <2>1, <2>2 DEF StopBitMarksRetired, Shape
<1>6. CASE RuntimeStep \/ UNCHANGED vars
  BY <1>1, <1>6 DEF StopBitMarksRetired, RuntimeStep, Runtime, ShRuntimeActivate,
                    ShRuntimeBeginTeardown, ShRuntimeEnterQuiescent,
                    ShRuntimeEnterUnloadBlocked, vars
<1>7. QED
  BY <1>3, <1>4, <1>5, <1>6 DEF Next

\* The readers that hold snapshot s.
Holders(s) == {r \in Readers : rpc[r] = "hold" /\ held[r] = s}

\* Blocks that are reset to a fresh rundown had no holder.
LEMMA CountKept ==
  ASSUME CountIsHolders, UNCHANGED <<rpc, held>>,
         NEW S,
         \A s \in S : Holders(s) = {},
         \A s \in Snaps : readers'[s].count = IF s \in S THEN 0 ELSE readers[s].count
  PROVE  CountIsHolders'
<1>1. \A s \in Snaps : Holders(s)' = Holders(s)
  BY DEF Holders
<1>2. Cardinality({}) = 0
  BY FS_EmptySet
<1>3. \A s \in Snaps : readers[s].count = Cardinality(Holders(s))
  BY DEF CountIsHolders, Holders
<1>4. \A s \in Snaps : readers'[s].count = Cardinality(Holders(s)')
  BY <1>1, <1>2, <1>3
<1>5. QED
  BY <1>4 DEF CountIsHolders, Holders

\* A snapshot that is not tracked, or is drained, has no holder.
LEMMA Unheld ==
  ASSUME IInv, NEW s \in Snaps, s \notin Tracked \/ Drained(readers[s])
  PROVE  Holders(s) = {}
<1>1. CASE s \notin Tracked
  BY <1>1 DEF IInv, PointerInv, ReaderPointer, Holders
<1>2. CASE Drained(readers[s])
  BY <1>2, DrainedUnheld DEF IInv, Holders
<1>3. QED
  BY <1>1, <1>2

\* A rundown counts its holders.
LEMMA CountStep ==
  ASSUME IInv, [Next]_vars
  PROVE  CountIsHolders'
<1> USE DEF store, flags, memory, locals, reader, Goto, Return
<1>1. OpenInv /\ LockInv /\ Shape /\ PointerInv /\ EverySnapshotTracked
      /\ CountIsHolders
  BY DEF IInv, TypeOK
<1>2. NULL \notin Snaps /\ IsFiniteSet(Readers)
  BY DataAssumption, ThreadAssumption
<1>3. \A s \in Snaps : s \notin pool => Holders(s) = {}
  <2>1. Tracked \subseteq pool
    BY <1>1 DEF EverySnapshotTracked, Tracked
  <2>2. QED
    BY <2>1, Unheld
<1>4. ASSUME NEW s \in Snaps, NEW c, SkSnapAlloc(s, c), UNCHANGED <<rpc, held>>
      PROVE  CountIsHolders'
  <2>1. s \notin pool /\ readers' = [readers EXCEPT ![s] = ShRundownInit]
    BY <1>4 DEF SkSnapAlloc
  <2>2. \A t \in Snaps : readers'[t].count = IF t \in {s} THEN 0 ELSE readers[t].count
    BY <1>1, <2>1 DEF Shape, ShRundownInit
  <2>3. QED
    BY <1>1, <1>3, <1>4, <2>1, <2>2, CountKept
<1>5. ASSUME NEW S \in SUBSET Snaps, Scrub(S), UNCHANGED <<rpc, held>>,
             \A s \in S : Holders(s) = {}
      PROVE  CountIsHolders'
  <2>1. \A t \in Snaps : readers'[t].count = IF t \in S THEN 0 ELSE readers[t].count
    BY <1>1, <1>5 DEF Shape, Scrub, ShRundownInit
  <2>2. QED
    BY <1>1, <1>5, <2>1, CountKept
<1>6. ASSUME \A s \in Snaps : readers'[s].count = readers[s].count, UNCHANGED <<rpc, held>>
      PROVE  CountIsHolders'
  BY <1>1, <1>6 DEF CountIsHolders
<1>7. ASSUME NEW w \in Writers, WriterStep(w)
      PROVE  CountIsHolders'
  <2>0. w \in Clients
    BY DEF Clients
  <2>1. CASE Write(w)
    <3>1. PICK q, rules, policy : Stage(w, q, rules, policy)
      BY <2>1, WriteStages
    <3>2. QED
      BY <1>4, <3>1 DEF Stage
  <2>2. CASE \/ SkRuleStoreEnum(w) \/ EnumDone(w) \/ SkRateResetRemoved(w)
             \/ SkRetireGiveUp(w) \/ SectionW(w)
    <3>1. UNCHANGED <<readers, rpc, held>>
      BY <2>2 DEF SkRuleStoreEnum, EnumDone, SkRateResetRemoved, SkRetireGiveUp, SectionW,
                  EnterW
    <3>2. QED
      BY <1>6, <3>1
  <2>3. CASE SkRetireDrain(w)
    <3>1. PICK drained : /\ drained \subseteq g_RetireList
                         /\ \A s \in drained : Drained(readers[s])
                         /\ Scrub(drained)
      BY <2>3 DEF SkRetireDrain
    <3>2. drained \in SUBSET Snaps /\ \A s \in drained : Holders(s) = {}
      BY <1>1, <3>1, Unheld DEF Shape
    <3>3. QED
      BY <1>5, <2>3, <3>1, <3>2 DEF SkRetireDrain
  <2>4. CASE PublishRefused(w)
    <3>1. snap[w] \in Staged
      BY <1>1, <2>0, <2>4 DEF Shape, PointerInv, ClientPointer, Staging, Staged, PublishRefused
    <3>2. snap[w] \in Snaps /\ snap[w] \notin Tracked
      BY <1>1, <3>1 DEF Staged, EverySnapshotTracked, Tracked
    <3>3. Holders(snap[w]) = {}
      BY <3>2, Unheld
    <3>4. QED
      BY <1>5, <2>4, <3>2, <3>3 DEF PublishRefused
  <2>5. CASE SkPublish(w) \/ PublishRollback(w)
    <3>1. UNCHANGED <<rpc, held>>
      BY <2>5 DEF SkPublish, PublishRollback, Swap
    <3>2. PICK S : Retire(S)
      BY <2>5 DEF SkPublish, PublishRollback
    <3>3. \A s \in Snaps : readers'[s].count = readers[s].count
      BY <1>1, <3>2 DEF Shape, Retire, Rundown
    <3>4. QED
      BY <1>6, <3>1, <3>3
  <2>6. QED
    BY <1>7, <2>1, <2>2, <2>3, <2>4, <2>5 DEF WriterStep
<1>8. CASE ControllerStep
  <2>1. CASE SkRuleStoreInit
    BY <1>4, <2>1 DEF SkRuleStoreInit
  <2>2. CASE ShutdownBegin \/ ShutdownEnd \/ \E s \in Snaps : ShutdownStuck(s)
    BY <1>6, <2>2 DEF ShutdownBegin, ShutdownEnd, ShutdownStuck
  <2>3. CASE ShutdownClose
    <3>1. UNCHANGED <<rpc, held>>
      BY <2>3 DEF ShutdownClose
    <3>2. \A s \in Snaps : readers'[s].count = readers[s].count
      BY <1>1, <2>3 DEF Shape, ShutdownClose, Retire, Rundown
    <3>3. QED
      BY <1>6, <3>1, <3>2
  <2>4. ASSUME NEW s \in Snaps, ShutdownFree(s)
        PROVE  CountIsHolders'
    <3>1. Holders(s) = {}
      BY <2>4, Unheld DEF ShutdownFree
    <3>2. QED
      BY <1>5, <2>4, <3>1 DEF ShutdownFree
  <2>5. QED
    BY <1>8, <2>1, <2>2, <2>3, <2>4 DEF ControllerStep
<1>9. ASSUME NEW r \in Readers, ReaderStep(r)
      PROVE  CountIsHolders'
  <2>1. \A s \in Snaps : IsFiniteSet(Holders(s)) /\ readers[s].count = Cardinality(Holders(s))
    BY <1>1, <1>2, FS_Subset DEF Holders, CountIsHolders
  <2>2. SUFFICES ASSUME NEW s \in Snaps
                 PROVE  readers'[s].count = Cardinality(Holders(s)')
    BY DEF CountIsHolders, Holders
  <2>3. CASE ReadCurrent(r) \/ \E id \in RuleIds : SkRuleEvaluate(r, id)
    <3>1. Holders(s)' = Holders(s) /\ UNCHANGED readers
      BY <1>1, <2>3 DEF Shape, Holders, ReadCurrent, SkRuleEvaluate
    <3>2. QED
      BY <2>1, <3>1
  <2>4. CASE SkRuleStoreAcquire(r)
    <3>1. CASE UNCHANGED readers /\ rpc' = [rpc EXCEPT ![r] = "idle"]
      <4>1. Holders(s)' = Holders(s)
        BY <1>1, <2>4, <3>1 DEF Shape, Holders, SkRuleStoreAcquire
      <4>2. QED
        BY <2>1, <3>1, <4>1
    <3>2. CASE /\ held[r] # NULL
               /\ rpc' = [rpc EXCEPT ![r] = "hold"]
               /\ readers' = [readers EXCEPT ![held[r]] = Acquired(@)]
               /\ UNCHANGED held
      <4>1. held[r] \in Snaps
        BY <1>1, <3>2 DEF Shape
      <4>2. CASE s = held[r]
        <5>1. Holders(s)' = Holders(s) \cup {r} /\ r \notin Holders(s)
          BY <1>1, <2>4, <3>2, <4>2 DEF Shape, Holders, SkRuleStoreAcquire
        <5>2. Cardinality(Holders(s)') = Cardinality(Holders(s)) + 1
          BY <2>1, <5>1, FS_AddElement
        <5>3. readers'[s].count = readers[s].count + 1
          BY <1>1, <3>2, <4>1, <4>2 DEF Shape, Rundown, Acquired
        <5>4. QED
          BY <2>1, <5>2, <5>3
      <4>3. CASE s # held[r]
        <5>1. Holders(s)' = Holders(s)
          BY <1>1, <2>4, <3>2, <4>3 DEF Shape, Holders, SkRuleStoreAcquire
        <5>2. readers'[s] = readers[s]
          BY <1>1, <3>2, <4>1, <4>3 DEF Shape
        <5>3. QED
          BY <2>1, <5>1, <5>2
      <4>4. QED
        BY <4>2, <4>3
    <3>3. QED
      BY <2>4, <3>1, <3>2 DEF SkRuleStoreAcquire
  <2>5. CASE SkRuleStoreRelease(r)
    <3>1. held[r] \in Snaps
      BY <1>1, <2>5 DEF PointerInv, ReaderPointer, Tracked, Published, Shape,
                        SkRuleStoreRelease
    <3>2. CASE s = held[r]
      <4>1. Holders(s)' = Holders(s) \ {r} /\ r \in Holders(s)
        BY <1>1, <1>2, <2>5, <3>1, <3>2 DEF Shape, Holders, SkRuleStoreRelease
      <4>2. Cardinality(Holders(s)') = Cardinality(Holders(s)) - 1
        BY <2>1, <4>1, FS_RemoveElement
      <4>3. readers'[s].count = readers[s].count - 1
        BY <1>1, <2>5, <3>1, <3>2 DEF Shape, Rundown, Released, SkRuleStoreRelease
      <4>4. QED
        BY <2>1, <4>2, <4>3
    <3>3. CASE s # held[r]
      <4>1. Holders(s)' = Holders(s)
        BY <1>1, <1>2, <2>5, <3>1, <3>3 DEF Shape, Holders, SkRuleStoreRelease
      <4>2. readers'[s] = readers[s]
        BY <1>1, <2>5, <3>1, <3>3 DEF Shape, SkRuleStoreRelease
      <4>3. QED
        BY <2>1, <4>1, <4>2
    <3>4. QED
      BY <3>2, <3>3
  <2>6. QED
    BY <1>9, <2>3, <2>4, <2>5 DEF ReaderStep
<1>10. CASE RuntimeStep \/ UNCHANGED vars
  <2>1. UNCHANGED <<readers, rpc, held>>
    BY <1>10 DEF RuntimeStep, Runtime, ShRuntimeActivate, ShRuntimeBeginTeardown,
                 ShRuntimeEnterQuiescent, ShRuntimeEnterUnloadBlocked, vars
  <2>2. QED
    BY <1>6, <2>1
<1>11. QED
  BY <1>7, <1>8, <1>9, <1>10 DEF Next

-----------------------------------------------------------------------------
(***************************************************************************)
(* The theorems.                                                           *)
(***************************************************************************)
\* The driver loads with an empty, uninitialised store.
LEMMA InitIInv == Init => IInv
<1> SUFFICES ASSUME Init PROVE IInv
  OBVIOUS
<1>1. ThreadAssumption /\ DataAssumption
  BY ThreadAssumption, DataAssumption
<1>2. TypeOK
  <2>1. NoRequest \in Requests
    BY DEF NoRequest, Requests
  <2>2. ShRundownInit \in Rundown /\ ShRundownInit.count = 0
    BY DEF ShRundownInit, Rundown
  <2>3. \A s \in Snaps : readers[s].count >= 0
    BY <2>2 DEF Init
  <2>4. QED
    BY <1>1, <2>1, <2>2, <2>3, BlankType DEF Init, TypeOK, Shape, RuntimeStates, Labels
<1>3. LockInv
  BY <1>1 DEF Init, LockInv, Clients, WriterLabels, ControllerLabels
<1>4. OpenInv
  BY <1>1 DEF Init, OpenInv, Clients, Staging
<1>5. PointerInv
  BY <1>1 DEF Init, PointerInv, ClientPointer, ReaderPointer, Staging, ControllerLabels
<1>6. Staged = {} /\ Published = {}
  BY DEF Init, Staged, Staging, Published
<1>7. EverySnapshotTracked /\ StopBitMarksRetired
  BY <1>6 DEF Init, EverySnapshotTracked, StopBitMarksRetired
<1>8. CountIsHolders
  <2>1. \A s \in Snaps : {r \in Readers : rpc[r] = "hold" /\ held[r] = s} = {}
    BY DEF Init
  <2>2. QED
    BY <2>1, FS_EmptySet DEF Init, CountIsHolders, ShRundownInit
<1>9. QED
  BY <1>2, <1>3, <1>4, <1>5, <1>7, <1>8 DEF IInv

\* The inductive invariant is one.
THEOREM Invariance == Spec => []IInv
<1>1. ASSUME IInv, [Next]_vars
      PROVE  IInv'
  <2>1. Shape' /\ CountIsHolders'
    BY <1>1, ShapeStep, CountStep
  <2>2. TypeOK'
    <3>1. \A s \in Snaps : Cardinality(Holders(s)') \in Nat
      BY FS_CardinalityType, FS_Subset, ThreadAssumption DEF Holders
    <3>2. \A s \in Snaps : readers'[s].count = Cardinality(Holders(s)')
      BY <2>1 DEF CountIsHolders, Holders
    <3>3. \A s \in Snaps : readers'[s].count >= 0
      BY <3>1, <3>2
    <3>4. QED
      BY <2>1, <3>3 DEF TypeOK
  <2>3. QED
    BY <1>1, <2>1, <2>2, LockStep, OpenStep, PointerStep, TrackedStep, StopBitStep DEF IInv
<1>2. QED
  BY <1>1, InitIInv, PTL DEF Spec

\* No rundown of a snapshot is ever released more often than it was acquired, and
\* every variable of rule_store.c stays in its range.
THEOREM TypeCorrect == Spec => []TypeOK
<1>1. IInv => TypeOK
  BY DEF IInv
<1>2. QED
  BY <1>1, Invariance, PTL

\* Neither a classify callout nor a control request keeps a pointer to a snapshot
\* that SkRetireDrain, SkPublish or SkRuleStoreShutdown has freed.
THEOREM MemorySafety == Spec => []NoUseAfterFree
<1>1. IInv => NoUseAfterFree
  <2> SUFFICES ASSUME IInv PROVE NoUseAfterFree
    OBVIOUS
  <2>1. LockInv /\ OpenInv /\ Shape /\ PointerInv /\ EverySnapshotTracked
    BY DEF IInv, TypeOK
  <2>2. Tracked \subseteq pool /\ Staged \subseteq pool
    BY <2>1 DEF EverySnapshotTracked, Tracked
  <2>3. g_Current # NULL => g_Current \in pool
    BY <2>2 DEF Tracked, Published
  <2>4. \A r \in Readers : held[r] # NULL => held[r] \in pool
    BY <2>1, <2>2, <2>3 DEF Shape, PointerInv, ReaderPointer
  <2>5. ASSUME NEW w \in Clients
        PROVE  /\ snap[w] # NULL => snap[w] \in pool
               /\ old[w] # NULL => old[w] \in pool
    <3>1. ClientPointer(w) /\ wpc[w] \in Labels /\ snap[w] \in Snaps \cup {NULL}
      BY <2>1, <2>5 DEF PointerInv, Shape
    <3>2. wpc[w] \in Staging /\ snap[w] # NULL => snap[w] \in Staged
      BY <2>5, <3>1 DEF Staging, Staged
    <3>3. snap[w] # NULL => snap[w] \in pool
      BY <2>2, <2>3, <3>1, <3>2 DEF ClientPointer, Labels, Staging, ControllerLabels
    <3>4. old[w] # NULL => old[w] \in {g_RollbackSlot} \cup g_RetireList
      BY <3>1 DEF ClientPointer
    <3>5. QED
      BY <2>2, <3>3, <3>4 DEF Tracked, Published
  <2>6. QED
    BY <2>4, <2>5 DEF NoUseAfterFree
<1>2. QED
  BY <1>1, Invariance, PTL

\* "Tracking never lost": SkPublish, the rollback and the drains never leak a
\* snapshot, and never have one on two lists.
THEOREM TrackingNeverLost == Spec => []EverySnapshotTracked
<1>1. IInv => EverySnapshotTracked
  BY DEF IInv
<1>2. QED
  BY <1>1, Invariance, PTL

\* The Acquire inside section R meets a stop bit only on a closed store.
THEOREM StopBitsRetire == Spec => []StopBitMarksRetired
<1>1. IInv => StopBitMarksRetired
  BY DEF IInv
<1>2. QED
  BY <1>1, Invariance, PTL

\* The count that a drain waits for is the number of callouts on the snapshot.
THEOREM CountsAreExact == Spec => []CountIsHolders
<1>1. IInv => CountIsHolders
  BY DEF IInv
<1>2. QED
  BY <1>1, Invariance, PTL

\* SkRuleStoreShutdown returns TRUE only with everything freed and no reader left;
\* otherwise the unload stays blocked.
THEOREM ShutdownCompletes == Spec => []ShutdownIsComplete
<1>1. IInv => ShutdownIsComplete
  <2> SUFFICES ASSUME IInv PROVE ShutdownIsComplete
    OBVIOUS
  <2>1. LockInv /\ OpenInv /\ PointerInv /\ EverySnapshotTracked
    BY DEF IInv
  <2>2. ASSUME ~g_StoreInited
        PROVE  pool = {} /\ \A r \in Readers : rpc[r] # "hold"
    <3>1. g_Current = NULL /\ g_RollbackSlot = NULL /\ g_RetireList = {} /\ stuck = {}
      BY <2>1, <2>2 DEF OpenInv
    <3>2. \A w \in Clients : wpc[w] \notin Staging
      BY <2>1, <3>1 DEF OpenInv, LockInv, Clients, Staging, ControllerLabels
    <3>3. Staged = {}
      BY <3>2 DEF Staged, Staging
    <3>4. pool = {} /\ Tracked = {}
      BY <2>1, <3>1, <3>3 DEF EverySnapshotTracked, Published, Tracked
    <3>5. QED
      BY <2>1, <3>4 DEF PointerInv, ReaderPointer
  <2>3. g_StoreInited /\ g_StoreClosed /\ g_WriterBusy = NoThread => runtime = "UnloadBlocked"
    BY <2>1 DEF OpenInv
  <2>4. QED
    BY <2>2, <2>3 DEF ShutdownIsComplete
<1>2. QED
  BY <1>1, Invariance, PTL

\* The gate of SkPublish and SkRuleStoreRollback shuts behind section W: whatever was
\* staged when the runtime left ACTIVE is refused there, except the one snapshot whose
\* writer is already past the check, and a closed store is never written.
THEOREM GateHolds == Spec => GateShutsBehindSectionW
<1> DEFINE Publish == g_Current' \notin {g_Current, NULL} /\ g_StoreInited
           P == /\ runtime # "Active" => InSectionW' \subseteq InSectionW
                /\ Publish => /\ ~g_StoreClosed
                              /\ \E w \in Writers : InSectionW = {w} /\ InSectionW' = {}
<1>1. ASSUME IInv, Next
      PROVE  P
  <2> USE DEF store, Goto, Return
  <2>1. Shape /\ OpenInv /\ \A w \in Writers : w \in Clients /\ w # Controller
    BY <1>1, ThreadAssumption DEF IInv, TypeOK, Clients
  <2>2. ASSUME NEW w \in Writers, SkPublish(w) \/ PublishRollback(w)
        PROVE  P
    <3>1. WriterStep(w)
      BY <2>2 DEF WriterStep
    <3>2. wpc[w] = "swap" /\ wpc'[w] = "reset"
      BY <2>1, <2>2 DEF SkPublish, PublishRollback, LeaveW, Shape
    <3>3. InSectionW = {w} /\ InSectionW' = {}
      BY <1>1, <2>1, <3>1, <3>2, WriterAlone DEF InSectionW
    <3>4. ~g_StoreClosed
      BY <2>1, <3>2 DEF OpenInv
    <3>5. QED
      BY <3>3, <3>4
  <2>3. ASSUME NEW w \in Writers, WriterStep(w), ~SkPublish(w), ~PublishRollback(w)
        PROVE  P
    <3>1. g_Current' = g_Current
      BY <2>3, WriteStages
      DEF WriterStep, Stage, SkRuleStoreEnum, EnumDone, SkRetireDrain, SkRetireGiveUp,
          SectionW, EnterW, PublishRefused, SkRateResetRemoved
    <3>2. wpc'[w] = "swap" => runtime = "Active"
      BY <2>1, <2>3, WriteStages
      DEF WriterStep, Stage, SkRuleStoreEnum, EnumDone, SkRetireDrain, SkRetireGiveUp,
          SectionW, SkStoreWritable, PublishRefused, SkRateResetRemoved, Shape
    <3>3. \A v \in Writers : v # w => wpc'[v] = "idle"
      BY <1>1, <2>1, <2>3, WriterAlone
    <3>4. QED
      BY <3>1, <3>2, <3>3 DEF InSectionW
  <2>4. CASE ControllerStep
    <3>1. InSectionW' = {}
      BY <1>1, <2>1, <2>4, ControllerAlone DEF InSectionW
    <3>2. ~Publish
      BY <2>4 DEF ControllerStep, SkRuleStoreInit, ShutdownBegin, ShutdownClose,
                  ShutdownFree, ShutdownStuck, ShutdownEnd
    <3>3. QED
      BY <3>1, <3>2
  <2>5. CASE (\E r \in Readers : ReaderStep(r)) \/ RuntimeStep
    <3>1. UNCHANGED <<wpc, g_Current>>
      BY <2>5 DEF ReaderStep, ReadCurrent, SkRuleStoreAcquire, SkRuleStoreRelease,
                  SkRuleEvaluate, RuntimeStep, Runtime, ShRuntimeActivate,
                  ShRuntimeBeginTeardown, ShRuntimeEnterQuiescent,
                  ShRuntimeEnterUnloadBlocked
    <3>2. QED
      BY <3>1 DEF InSectionW
  <2>6. QED
    BY <1>1, <2>2, <2>3, <2>4, <2>5 DEF Next
<1>2. IInv /\ [Next]_vars => [P]_vars
  BY <1>1
<1>3. QED
  BY <1>2, Invariance, PTL DEF Spec, GateShutsBehindSectionW

-----------------------------------------------------------------------------
(***************************************************************************)
(* The store implements the atomic register of AtomicRuleStore.            *)
(*                                                                         *)
(* A writer builds its snapshot long before it publishes it.  What makes   *)
(* the publish one atomic write is that the store lock freezes everything  *)
(* the snapshot was built from: while it is staged, it stays what the      *)
(* request makes of the current and the previous value (StagedInv).        *)
(***************************************************************************)
\* Request q is admissible, and c is what it makes of the two published values.
StagedRight(q, c, now, before) ==
  /\ Atomic!Admissible(q, now, before)
  /\ c.rules = Atomic!NewRules(q, now, before)
  /\ c.defaultPolicy = Atomic!NewPolicy(q, now, before)

\* A staged snapshot stays what its request makes of the published ones.
StagedInv ==
  \A w \in Writers : wpc[w] \in Staging =>
    StagedRight(req[w], content[snap[w]], Value(g_Current), Value(g_RollbackSlot))

\* The value that a reader holds.
View(r) == IF rpc[r] = "hold" THEN Value(held[r]) ELSE NULL

\* The null pointer has no register value, and every snapshot has one.
LEMMA ValueIsNull ==
  ASSUME Shape, NEW s \in Snaps \cup {NULL}
  PROVE  Value(s) = NULL <=> s = NULL
<1>1. CASE s = NULL
  BY <1>1 DEF Value
<1>2. CASE s # NULL
  <2>1. /\ content[s].rules \in RuleSets
        /\ content[s].defaultPolicy \in Policies
        /\ version[s] \in Nat
    BY <1>2 DEF Shape, Content
  <2>2. Value(s) \in [rules : RuleSets, defaultPolicy : Policies, version : Nat]
    BY <1>2, <2>1 DEF Value
  <2>3. QED
    BY <1>2, <2>2, ValueAssumption
<1>3. QED
  BY <1>1, <1>2

\* Every write operation stages what its request makes of the published values.
LEMMA WriteIsRight ==
  ASSUME IInv, NEW w \in Writers, Write(w)
  PROVE  \E q, rules, policy :
           /\ Stage(w, q, rules, policy)
           /\ StagedRight(q, [rules |-> rules, defaultPolicy |-> policy],
                          Value(g_Current), Value(g_RollbackSlot))
<1> USE DEF StagedRight, Atomic!Admissible, Atomic!NewRules, Atomic!NewPolicy
<1> DEFINE Right(q, rules, policy) ==
             /\ Stage(w, q, rules, policy)
             /\ StagedRight(q, [rules |-> rules, defaultPolicy |-> policy],
                            Value(g_Current), Value(g_RollbackSlot))
<1>1. g_Current # NULL
  BY WriteStages DEF SkStoreWritable, IInv, OpenInv
<1>2. /\ Value(g_Current).rules = CurrentRules
      /\ Value(g_Current).defaultPolicy = CurrentPolicy
      /\ Value(g_Current).version = version[g_Current]
  BY <1>1 DEF Value, CurrentRules, CurrentPolicy
<1>3. ASSUME NEW id \in RuleIds, NEW rule \in Rule, SkRuleStoreAdd(w, id, rule)
      PROVE  Right([op |-> "add", id |-> id, rule |-> rule],
                   Put(CurrentRules, id, rule), CurrentPolicy)
  BY <1>2, <1>3 DEF SkRuleStoreAdd, Put
<1>4. ASSUME NEW id \in RuleIds, NEW rule \in Rule, SkRuleStoreUpdate(w, id, rule)
      PROVE  Right([op |-> "update", id |-> id, rule |-> rule],
                   Put(CurrentRules, id, rule), CurrentPolicy)
  BY <1>2, <1>4 DEF SkRuleStoreUpdate, Put
<1>5. ASSUME NEW id \in RuleIds, SkRuleStoreDelete(w, id)
      PROVE  Right([op |-> "delete", id |-> id], Without(CurrentRules, id), CurrentPolicy)
  BY <1>2, <1>5 DEF SkRuleStoreDelete, Without
<1>6. ASSUME NEW id \in RuleIds, NEW enabled \in BOOLEAN,
             SkRuleStoreSetEnabled(w, id, enabled)
      PROVE  Right([op |-> "enable", id |-> id, enabled |-> enabled],
                   [CurrentRules EXCEPT ![id].enabled = enabled], CurrentPolicy)
  BY <1>2, <1>6 DEF SkRuleStoreSetEnabled
<1>7. ASSUME NEW rules \in RuleSets, NEW expected \in 0 .. MaxVersion,
             SkRuleStoreReplace(w, rules, expected)
      PROVE  Right([op |-> "replace", rules |-> rules, expected |-> expected],
                   rules, CurrentPolicy)
  BY <1>2, <1>7 DEF SkRuleStoreReplace
<1>8. ASSUME SkRuleStoreClear(w)
      PROVE  Right([op |-> "clear"], NoRules, CurrentPolicy)
  BY <1>2, <1>8 DEF SkRuleStoreClear
<1>9. ASSUME NEW policy \in Policies, SkRuleStoreSetDefaultPolicy(w, policy)
      PROVE  Right([op |-> "policy", defaultPolicy |-> policy], CurrentRules, policy)
  BY <1>2, <1>9 DEF SkRuleStoreSetDefaultPolicy
<1>10. ASSUME SkRuleStoreRollback(w)
       PROVE  Right([op |-> "rollback"], content[g_RollbackSlot].rules,
                    content[g_RollbackSlot].defaultPolicy)
  <2>1. g_RollbackSlot # NULL /\ g_RollbackSlot \in Snaps \cup {NULL}
    BY <1>10 DEF SkRuleStoreRollback, IInv, TypeOK, Shape
  <2>2. Value(g_RollbackSlot) # NULL
    BY <2>1, ValueIsNull DEF IInv, TypeOK
  <2>3. /\ Value(g_RollbackSlot).rules = content[g_RollbackSlot].rules
        /\ Value(g_RollbackSlot).defaultPolicy = content[g_RollbackSlot].defaultPolicy
    BY <2>1 DEF Value
  <2>4. QED
    BY <1>10, <2>2, <2>3 DEF SkRuleStoreRollback
<1> HIDE DEF StagedRight
<1>11. QED
  BY <1>3, <1>4, <1>5, <1>6, <1>7, <1>8, <1>9, <1>10 DEF Write

-----------------------------------------------------------------------------
\* A step rewrites no snapshot that a reader could find before it and can find
\* after it: only fresh, staged and freed blocks change their content.
LEMMA TrackedKeepsValue ==
  ASSUME IInv, [Next]_vars, NEW s \in Tracked, s \in Tracked'
  PROVE  s \in Snaps /\ content'[s] = content[s] /\ version'[s] = version[s]
<1> USE DEF store, flags, memory, locals, reader
<1>1. /\ Shape /\ EverySnapshotTracked /\ s \in Snaps /\ NULL \notin Snaps
      /\ s \in pool /\ s \notin Staged
  BY DataAssumption DEF IInv, TypeOK, EverySnapshotTracked, Tracked, Published, Shape
<1>2. ASSUME NEW S, Scrub(S), s \notin S
      PROVE  content'[s] = content[s] /\ version'[s] = version[s]
  BY <1>1, <1>2 DEF Scrub
<1>3. ASSUME NEW t, NEW c, SkSnapAlloc(t, c)
      PROVE  content'[s] = content[s] /\ version'[s] = version[s]
  BY <1>1, <1>3 DEF SkSnapAlloc, Shape
<1>4. ASSUME NEW w \in Writers, WriterStep(w)
      PROVE  content'[s] = content[s] /\ version'[s] = version[s]
  <2>0. w \in Clients
    BY DEF Clients
  <2>1. CASE Write(w)
    BY <1>3, <2>1, WriteStages DEF Stage
  <2>2. CASE \/ SkRuleStoreEnum(w) \/ EnumDone(w) \/ SkRetireGiveUp(w) \/ SectionW(w)
             \/ SkRateResetRemoved(w)
    BY <2>2 DEF SkRuleStoreEnum, EnumDone, SkRetireGiveUp, SectionW, EnterW,
                SkRateResetRemoved
  <2>3. CASE SkRetireDrain(w)
    <3>1. PICK S \in SUBSET g_RetireList : /\ Scrub(S)
                                           /\ g_RetireList' = g_RetireList \ S
                                           /\ UNCHANGED <<g_Current, g_RollbackSlot, stuck>>
      BY <2>3 DEF SkRetireDrain
    <3>2. s \notin S
      BY <1>1, <3>1 DEF EverySnapshotTracked, Tracked, Published
    <3>3. QED
      BY <1>2, <3>1, <3>2
  <2>4. CASE SkPublish(w) \/ PublishRollback(w)
    <3>1. /\ wpc[w] = "swap"
          /\ UNCHANGED content
          /\ version' = [version EXCEPT ![snap[w]] = version[g_Current] + 1]
      BY <2>4 DEF SkPublish, PublishRollback, LeaveW, Swap, NextVersion
    <3>2. snap[w] # s
      BY <1>1, <2>0, <3>1 DEF Staged, Staging
    <3>3. QED
      BY <1>1, <3>1, <3>2 DEF Shape
  <2>5. CASE PublishRefused(w)
    <3>1. snap[w] # s
      BY <1>1, <2>0, <2>5 DEF Staged, Staging, PublishRefused
    <3>2. QED
      BY <1>2, <2>5, <3>1 DEF PublishRefused
  <2>6. QED
    BY <1>4, <2>1, <2>2, <2>3, <2>4, <2>5 DEF WriterStep
<1>5. CASE ControllerStep
  <2>1. CASE SkRuleStoreInit
    BY <1>1, <1>3, <2>1 DEF SkRuleStoreInit
  <2>2. CASE ShutdownBegin \/ ShutdownClose \/ ShutdownEnd
    BY <1>1, <2>2 DEF ShutdownBegin, ShutdownClose, ShutdownEnd
  <2>3. ASSUME NEW t \in Snaps, ShutdownFree(t)
        PROVE  content'[s] = content[s] /\ version'[s] = version[s]
    <3>1. s # t
      BY <1>1, <2>3 DEF ShutdownFree, EverySnapshotTracked, Tracked, Published
    <3>2. QED
      BY <1>2, <2>3, <3>1 DEF ShutdownFree
  <2>4. ASSUME NEW t \in Snaps, ShutdownStuck(t)
        PROVE  content'[s] = content[s] /\ version'[s] = version[s]
    BY <2>4 DEF ShutdownStuck
  <2>5. QED
    BY <1>1, <1>5, <2>1, <2>2, <2>3, <2>4 DEF ControllerStep
<1>6. ASSUME NEW r \in Readers, ReaderStep(r)
      PROVE  content'[s] = content[s] /\ version'[s] = version[s]
  BY <1>6 DEF ReaderStep, ReadCurrent, SkRuleStoreAcquire, SkRuleStoreRelease, SkRuleEvaluate
<1>7. CASE RuntimeStep \/ UNCHANGED vars
  BY <1>1, <1>7 DEF RuntimeStep, Runtime, ShRuntimeActivate, ShRuntimeBeginTeardown,
              ShRuntimeEnterQuiescent, ShRuntimeEnterUnloadBlocked, vars
<1>8. QED
  BY <1>1, <1>4, <1>5, <1>6, <1>7 DEF Next

\* The published values stay as long as the two pointers do.
LEMMA RegisterKept ==
  ASSUME IInv, [Next]_vars, g_Current' = g_Current, g_RollbackSlot' = g_RollbackSlot
  PROVE  UNCHANGED <<Value(g_Current), Value(g_RollbackSlot)>>
<1>1. ASSUME NEW s \in {g_Current, g_RollbackSlot}
      PROVE  s # NULL => content'[s] = content[s] /\ version'[s] = version[s]
  BY <1>1, TrackedKeepsValue DEF Tracked, Published
<1>2. QED
  BY <1>1 DEF Value

\* So does the value that a reader holds, as long as it holds it.
LEMMA ViewKept ==
  ASSUME IInv, [Next]_vars, NEW r \in Readers, held'[r] = held[r],
         rpc[r] = "hold" <=> rpc'[r] = "hold"
  PROVE  View(r)' = View(r)
<1>1. CASE rpc[r] = "hold"
  <2>1. PointerInv'
    BY PointerStep
  <2>2. held[r] \in Tracked /\ held[r] \in Tracked'
    BY <1>1, <2>1 DEF PointerInv, ReaderPointer, IInv
  <2>3. content'[held[r]] = content[held[r]] /\ version'[held[r]] = version[held[r]]
    BY <2>2, TrackedKeepsValue
  <2>4. QED
    BY <1>1, <2>3 DEF View, Value
<1>2. CASE rpc[r] # "hold"
  BY <1>2 DEF View
<1>3. QED
  BY <1>1, <1>2

\* What is staged stays what its request makes of the published values: nothing is
\* published, and nothing that is published is freed, while the store lock is held.
LEMMA StagedStep ==
  ASSUME IInv, StagedInv, [Next]_vars
  PROVE  StagedInv'
<1> USE DEF store, flags, memory, locals, reader, Goto, Return
<1>1. /\ Shape /\ EverySnapshotTracked /\ LockInv /\ PointerInv /\ NULL \notin Snaps
      /\ \A w \in Writers : w \in Clients /\ w # Controller
  BY DataAssumption, ThreadAssumption DEF IInv, TypeOK, Clients
<1>2. SUFFICES ASSUME NEW w \in Writers, wpc'[w] \in Staging
               PROVE  StagedRight(req[w], content[snap[w]],
                                  Value(g_Current), Value(g_RollbackSlot))'
  BY DEF StagedInv
<1>3. ASSUME wpc[w] \in Staging, req'[w] = req[w], snap'[w] = snap[w],
             content'[snap[w]] = content[snap[w]],
             g_Current' = g_Current, g_RollbackSlot' = g_RollbackSlot
      PROVE  StagedRight(req[w], content[snap[w]],
                         Value(g_Current), Value(g_RollbackSlot))'
  <2>1. UNCHANGED <<Value(g_Current), Value(g_RollbackSlot)>>
    BY <1>3, RegisterKept
  <2>2. StagedRight(req[w], content[snap[w]], Value(g_Current), Value(g_RollbackSlot))
    BY <1>3 DEF StagedInv
  <2>3. QED
    BY <1>3, <2>1, <2>2 DEF StagedRight
<1>4. ASSUME NEW x \in Writers, WriterStep(x)
      PROVE  x = w
  BY <1>1, <1>2, <1>4, WriterAlone DEF Staging
<1>5. CASE WriterStep(w)
  <2>1. CASE Write(w)
    <3>1. PICK q, rules, policy :
            /\ Stage(w, q, rules, policy)
            /\ StagedRight(q, [rules |-> rules, defaultPolicy |-> policy],
                           Value(g_Current), Value(g_RollbackSlot))
      BY <2>1, WriteIsRight
    <3>2. PICK s \in Snaps : /\ SkSnapAlloc(s, [rules |-> rules, defaultPolicy |-> policy])
                             /\ snap' = [snap EXCEPT ![w] = s]
      BY <3>1 DEF Stage
    <3>3. content'[s] = [rules |-> rules, defaultPolicy |-> policy]
      BY <1>1, <3>2 DEF SkSnapAlloc, Shape
    <3>4. snap'[w] = s /\ req'[w] = q
      BY <1>1, <3>1, <3>2 DEF Stage, Shape
    <3>5. UNCHANGED <<Value(g_Current), Value(g_RollbackSlot)>>
      BY <3>1, RegisterKept DEF Stage
    <3>6. QED
      BY <3>1, <3>3, <3>4, <3>5 DEF StagedRight
  <2>2. CASE SkRetireDrain(w) \/ SkRetireGiveUp(w) \/ SectionW(w)
    <3>1. /\ wpc[w] \in Staging
          /\ UNCHANGED <<snap, req, g_Current, g_RollbackSlot>>
      BY <2>2 DEF SkRetireDrain, SkRetireGiveUp, SectionW, EnterW, Staging
    <3>2. snap[w] \in Staged
      BY <1>1, <3>1 DEF PointerInv, ClientPointer, Staged, Staging, Shape
    <3>3. content'[snap[w]] = content[snap[w]]
      <4>1. CASE SkRetireDrain(w)
        <5>1. PICK S \in SUBSET g_RetireList : Scrub(S)
          BY <4>1 DEF SkRetireDrain
        <5>2. snap[w] \notin S
          BY <1>1, <3>2, <5>1 DEF EverySnapshotTracked
        <5>3. QED
          BY <3>2, <5>1, <5>2 DEF Scrub, Staged
      <4>2. QED
        BY <2>2, <4>1 DEF SkRetireGiveUp, SectionW, EnterW
    <3>4. QED
      BY <1>3, <3>1, <3>3
  <2>3. wpc'[w] \notin Staging \/ Write(w) \/ SkRetireDrain(w) \/ SkRetireGiveUp(w)
          \/ SectionW(w)
    BY <1>1, <1>5 DEF WriterStep, SkRuleStoreEnum, EnumDone, SkPublish, PublishRollback,
                      LeaveW, PublishRefused, SkRateResetRemoved, Staging, Shape
  <2>4. QED
    BY <1>2, <2>1, <2>2, <2>3
<1>6. ~ControllerStep
  BY <1>1, <1>2, ControllerAlone DEF Staging
<1>7. CASE (\E r \in Readers : ReaderStep(r)) \/ RuntimeStep \/ UNCHANGED vars
  <2>1. UNCHANGED <<wpc, req, snap, content, g_Current, g_RollbackSlot>>
    BY <1>7 DEF ReaderStep, ReadCurrent, SkRuleStoreAcquire, SkRuleStoreRelease,
                SkRuleEvaluate, RuntimeStep, Runtime, ShRuntimeActivate,
                ShRuntimeBeginTeardown, ShRuntimeEnterQuiescent,
                ShRuntimeEnterUnloadBlocked, vars
  <2>2. QED
    BY <1>2, <1>3, <2>1
<1>8. QED
  BY <1>4, <1>5, <1>6, <1>7 DEF Next

-----------------------------------------------------------------------------
\* The two kinds of publish, as a writer's control point shows them.
LEMMA PublishedBy ==
  ASSUME IInv, NEW w \in Writers, [Next]_vars, wpc[w] = "swap", wpc'[w] = "reset"
  PROVE  SkPublish(w) \/ PublishRollback(w)
<1> USE DEF Goto, Return
<1>1. /\ Shape /\ w \in Clients /\ w # Controller
  BY ThreadAssumption DEF IInv, TypeOK, Clients
<1>2. ASSUME NEW x \in Writers, WriterStep(x)
      PROVE  x = w
  BY <1>1, <1>2, WriterAlone
<1>3. ~ControllerStep
  BY <1>1, ControllerAlone
<1>4. ~(RuntimeStep \/ UNCHANGED vars)
  BY DEF RuntimeStep, Runtime, ShRuntimeActivate, ShRuntimeBeginTeardown,
         ShRuntimeEnterQuiescent, ShRuntimeEnterUnloadBlocked, vars
<1>5. \A r \in Readers : ~ReaderStep(r)
  BY DEF ReaderStep, ReadCurrent, SkRuleStoreAcquire, SkRuleStoreRelease, SkRuleEvaluate
<1>6. WriterStep(w)
  BY <1>2, <1>3, <1>4, <1>5 DEF Next
<1>7. ~Write(w)
  BY WriteStages DEF Stage, SkStoreLock
<1>8. QED
  BY <1>1, <1>6, <1>7 DEF WriterStep, SkRuleStoreEnum, SkStoreLock, EnumDone, SkRetireDrain,
                          SkRetireGiveUp, SectionW, EnterW, PublishRefused,
                          SkRateResetRemoved, Shape

\* A publish is one granted write of the register.
LEMMA PublishWrites ==
  ASSUME IInv, StagedInv, [Next]_vars, NEW w \in Writers, SkPublish(w) \/ PublishRollback(w)
  PROVE  /\ wpc[w] = "swap"
         /\ Value(g_Current) # NULL
         /\ req[w] \in Requests
         /\ Atomic!Admissible(req[w], Value(g_Current), Value(g_RollbackSlot))
         /\ Value(g_Current)' = Atomic!Applied(req[w], Value(g_Current), Value(g_RollbackSlot))
         /\ Value(g_RollbackSlot)' =
              IF req[w].op = "rollback" THEN NULL ELSE Value(g_Current)
<1>1. /\ Shape /\ OpenInv /\ PointerInv /\ w \in Clients
      /\ EverySnapshotTracked /\ NULL \notin Snaps
  BY DataAssumption DEF IInv, TypeOK, Clients
<1>2. /\ wpc[w] = "swap"
      /\ UNCHANGED content
      /\ version' = [version EXCEPT ![snap[w]] = version[g_Current] + 1]
      /\ g_Current' = snap[w]
      /\ g_RollbackSlot' = IF req[w].op = "rollback" THEN NULL ELSE g_Current
  BY DEF SkPublish, PublishRollback, LeaveW, Swap, NextVersion
<1>3. g_Current # NULL /\ g_Current \in Snaps
  BY <1>1, <1>2 DEF OpenInv, Shape
<1>4. snap[w] # NULL /\ snap[w] \in Snaps
  BY <1>1, <1>2 DEF PointerInv, ClientPointer, Staging, Shape
<1>5. Value(g_Current) # NULL
  BY <1>1, <1>3, ValueIsNull
<1>6. StagedRight(req[w], content[snap[w]], Value(g_Current), Value(g_RollbackSlot))
  BY <1>2 DEF StagedInv, Staging
<1>7. version'[snap[w]] = Value(g_Current).version + 1
  BY <1>1, <1>2, <1>3, <1>4 DEF Shape, Value
<1>8. Value(g_Current)' = Atomic!Applied(req[w], Value(g_Current), Value(g_RollbackSlot))
  <2>1. Value(g_Current)' = [rules |-> content[snap[w]].rules,
                             defaultPolicy |-> content[snap[w]].defaultPolicy,
                             version |-> Value(g_Current).version + 1]
    BY <1>2, <1>4, <1>7 DEF Value
  <2>2. QED
    BY <1>6, <2>1 DEF StagedRight, Atomic!Applied
<1>9. Value(g_RollbackSlot)' = IF req[w].op = "rollback" THEN NULL ELSE Value(g_Current)
  <2>1. CASE req[w].op = "rollback"
    BY <1>2, <2>1 DEF Value
  <2>2. CASE req[w].op # "rollback"
    <3>1. g_Current \in Tracked /\ g_Current \in Tracked' /\ g_RollbackSlot' = g_Current
      BY <1>2, <1>3, <2>2 DEF Tracked, Published
    <3>2. content'[g_Current] = content[g_Current] /\ version'[g_Current] = version[g_Current]
      BY <3>1, TrackedKeepsValue
    <3>3. QED
      BY <1>3, <2>2, <3>1, <3>2 DEF Value
  <2>3. QED
    BY <2>1, <2>2
<1>10. QED
  BY <1>1, <1>2, <1>5, <1>6, <1>8, <1>9 DEF StagedRight, Shape

\* Every step is a step of the atomic register, or leaves it alone.
LEMMA RefinementStep ==
  ASSUME IInv, StagedInv, [Next]_vars
  PROVE  [Atomic!Next]_(Atomic!vars)
<1> USE DEF store, flags, memory, locals, reader
<1> DEFINE view == [r \in Readers |-> View(r)]
<1>0. view = [r \in Readers |-> IF rpc[r] = "hold" THEN Value(held[r]) ELSE NULL]
  BY DEF View
<1>1. /\ Shape /\ OpenInv /\ PointerInv /\ LockInv /\ NULL \notin Snaps
  BY DataAssumption DEF IInv, TypeOK
<1>2. ASSUME UNCHANGED reader
      PROVE  view' = view
  BY <1>2, ViewKept
<1>3. ASSUME UNCHANGED reader, g_Current' = g_Current, g_RollbackSlot' = g_RollbackSlot
      PROVE  UNCHANGED Atomic!vars
  BY <1>0, <1>2, <1>3, RegisterKept DEF Atomic!vars, View
<1>4. ASSUME NEW w \in Writers, WriterStep(w)
      PROVE  [Atomic!Next]_(Atomic!vars)
  <2>1. CASE SkPublish(w) \/ PublishRollback(w)
    <3>1. UNCHANGED reader
      BY <2>1 DEF SkPublish, PublishRollback, Swap
    <3>2. Atomic!Write(req[w]) /\ req[w] \in Requests
      BY <1>0, <1>2, <2>1, <3>1, PublishWrites DEF Atomic!Write, View
    <3>3. QED
      BY <3>2 DEF Atomic!Next
  <2>2. CASE ~SkPublish(w) /\ ~PublishRollback(w)
    <3>1. /\ UNCHANGED reader
          /\ g_Current' = g_Current /\ g_RollbackSlot' = g_RollbackSlot
      BY <1>4, <2>2, WriteStages
      DEF WriterStep, Stage, SkRuleStoreEnum, EnumDone, SkRetireDrain, SkRetireGiveUp,
          SectionW, EnterW, PublishRefused, SkRateResetRemoved
    <3>2. QED
      BY <1>3, <3>1
  <2>3. QED
    BY <2>1, <2>2
<1>5. CASE ControllerStep
  <2>1. CASE SkRuleStoreInit
    <3>1. PICK s \in Snaps : SkSnapAlloc(s, Blank) /\ g_Current' = s
      BY <2>1 DEF SkRuleStoreInit
    <3>2. g_Current = NULL /\ g_RollbackSlot' = NULL
      BY <1>1, <2>1 DEF OpenInv, SkRuleStoreInit
    <3>3. content'[s] = Blank /\ version'[s] = 0
      BY <1>1, <3>1 DEF SkSnapAlloc, Shape
    <3>4. /\ Value(g_Current) = NULL /\ Value(g_RollbackSlot)' = NULL
          /\ Value(g_Current)' = [rules |-> NoRules, defaultPolicy |-> "PERMIT", version |-> 0]
      BY <1>1, <3>1, <3>2, <3>3 DEF Value, Blank
    <3>5. UNCHANGED reader
      BY <2>1 DEF SkRuleStoreInit
    <3>6. QED
      BY <1>0, <1>2, <3>4, <3>5 DEF Atomic!Open, Atomic!Next, View
  <2>2. CASE ShutdownClose
    <3>1. g_Current # NULL /\ g_Current \in Snaps \cup {NULL}
      BY <1>1, <2>2 DEF OpenInv, ShutdownClose, Shape
    <3>2. Value(g_Current) # NULL
      BY <1>1, <3>1, ValueIsNull
    <3>3. Value(g_Current)' = NULL /\ Value(g_RollbackSlot)' = NULL
      BY <2>2 DEF ShutdownClose, Value
    <3>4. UNCHANGED reader
      BY <2>2 DEF ShutdownClose
    <3>5. QED
      BY <1>0, <1>2, <3>2, <3>3, <3>4 DEF Atomic!Close, Atomic!Next, View
  <2>3. CASE ShutdownBegin \/ ShutdownEnd \/ \E s \in Snaps : ShutdownFree(s) \/ ShutdownStuck(s)
    <3>1. /\ UNCHANGED reader
          /\ g_Current' = g_Current /\ g_RollbackSlot' = g_RollbackSlot
      BY <2>3 DEF ShutdownBegin, ShutdownEnd, ShutdownFree, ShutdownStuck
    <3>2. QED
      BY <1>3, <3>1
  <2>4. QED
    BY <1>5, <2>1, <2>2, <2>3 DEF ControllerStep
<1>6. ASSUME NEW r \in Readers, ReaderStep(r)
      PROVE  [Atomic!Next]_(Atomic!vars)
  <2>1. g_Current' = g_Current /\ g_RollbackSlot' = g_RollbackSlot
    BY <1>6 DEF ReaderStep, ReadCurrent, SkRuleStoreAcquire, SkRuleStoreRelease,
                SkRuleEvaluate
  <2>2. UNCHANGED <<Value(g_Current), Value(g_RollbackSlot)>>
    BY <2>1, RegisterKept
  <2>3. \A p \in Readers : p # r => rpc'[p] = rpc[p] /\ held'[p] = held[p]
    BY <1>1, <1>6 DEF Shape, ReaderStep, ReadCurrent, SkRuleStoreAcquire,
                      SkRuleStoreRelease, SkRuleEvaluate
  <2>4. \A p \in Readers : p # r => View(p)' = View(p)
    BY <2>3, ViewKept
  <2>5. CASE SkRuleStoreAcquire(r) /\ rpc'[r] = "hold"
    <3>1. held[r] = g_Current /\ rpc[r] = "inR" /\ held[r] # NULL /\ UNCHANGED held
      BY <1>1, <2>5 DEF PointerInv, ReaderPointer, SkRuleStoreAcquire, Shape
    <3>2. View(r) = NULL
      BY <3>1 DEF View
    <3>3. View(r)' = Value(g_Current)
      BY <2>1, <2>2, <2>5, <3>1 DEF View
    <3>4. Value(g_Current) # NULL
      BY <1>1, <3>1, ValueIsNull DEF Shape
    <3>5. view' = [view EXCEPT ![r] = Value(g_Current)]
      BY <2>4, <3>3
    <3>6. QED
      BY <1>0, <1>6, <2>2, <3>2, <3>4, <3>5 DEF Atomic!Take, Atomic!Next, View
  <2>6. CASE SkRuleStoreRelease(r)
    <3>1. held[r] \in Snaps /\ rpc[r] = "hold" /\ rpc'[r] # "hold"
      BY <1>1, <2>6 DEF PointerInv, ReaderPointer, Tracked, Published, SkRuleStoreRelease, Shape
    <3>2. View(r) # NULL /\ View(r)' = NULL
      BY <1>1, <3>1, ValueIsNull DEF View
    <3>3. view' = [view EXCEPT ![r] = NULL]
      BY <2>4, <3>2
    <3>4. QED
      BY <1>0, <1>6, <2>2, <3>2, <3>3 DEF Atomic!Drop, Atomic!Next, View
  <2>7. CASE ~(SkRuleStoreAcquire(r) /\ rpc'[r] = "hold") /\ ~SkRuleStoreRelease(r)
    <3>1. View(r)' = View(r)
      <4>1. CASE \E id \in RuleIds : SkRuleEvaluate(r, id)
        BY <4>1, ViewKept DEF SkRuleEvaluate
      <4>2. CASE ReadCurrent(r) \/ SkRuleStoreAcquire(r)
        BY <1>1, <2>7, <4>2 DEF View, ReadCurrent, SkRuleStoreAcquire, Shape
      <4>3. QED
        BY <1>6, <2>7, <4>1, <4>2 DEF ReaderStep
    <3>2. view' = view
      BY <2>4, <3>1
    <3>3. QED
      BY <1>0, <2>2, <3>2 DEF Atomic!vars, View
  <2>8. QED
    BY <2>5, <2>6, <2>7
<1>7. CASE RuntimeStep \/ UNCHANGED vars
  <2>1. UNCHANGED <<reader, g_Current, g_RollbackSlot>>
    BY <1>7 DEF RuntimeStep, Runtime, ShRuntimeActivate, ShRuntimeBeginTeardown,
                ShRuntimeEnterQuiescent, ShRuntimeEnterUnloadBlocked, vars
  <2>2. QED
    BY <1>3, <2>1
<1>8. QED
  BY <1>4, <1>5, <1>6, <1>7 DEF Next

\* What is staged is right in every reachable state.
LEMMA StagedAlways == Spec => []StagedInv
<1>1. Init => StagedInv
  BY DEF Init, StagedInv, Staging, Clients
<1>2. QED
  BY <1>1, StagedStep, Invariance, PTL DEF Spec

\* Refinement: every publish of SkPublish and SkRuleStoreRollback is one granted
\* write, every successful SkRuleStoreAcquire one read of the register, and no
\* step changes what a reader holds.
THEOREM StoreIsAtomic == Spec => ImplementsAtomic
<1>1. Init => Atomic!Init
  BY DEF Init, Atomic!Init, Value
<1>2. QED
  BY <1>1, RefinementStep, StagedAlways, Invariance, PTL DEF Spec, ImplementsAtomic, Atomic!Spec

\* No lost update: whatever SkPublish publishes after its drain is the request
\* applied to the very snapshot it displaces, and was still admissible there.
THEOREM NoUpdateIsLost == Spec => PublishAppliesRequest
<1> DEFINE P == \A w \in Writers : wpc[w] = "swap" /\ wpc'[w] = "reset" =>
                  LET now == Value(g_Current)
                      before == Value(g_RollbackSlot)
                  IN /\ Atomic!Admissible(req[w], now, before)
                     /\ Value(g_Current)' = Atomic!Applied(req[w], now, before)
<1>1. IInv /\ StagedInv /\ [Next]_vars => [P]_vars
  BY PublishedBy, PublishWrites
<1>2. QED
  BY <1>1, StagedAlways, Invariance, PTL DEF Spec, PublishAppliesRequest
=============================================================================
