------------------------------ MODULE RuleStore ------------------------------
(***************************************************************************)
(* The rule store of rules/rule_store.c: immutable rule snapshots that are *)
(* published by writers, read by the classify callouts under a per-snapshot*)
(* rundown reference, and reclaimed once their readers are gone.           *)
(*                                                                         *)
(* Three kinds of threads run here.  Readers are classify callouts (up to  *)
(* DISPATCH_LEVEL): they take the publish spin lock, read g_Current and    *)
(* acquire its rundown (section R of the source).  Writers are control     *)
(* requests: they hold the sleeping store lock from their gate check to    *)
(* the end of the operation and enter the publish lock for one short       *)
(* section W.  The Controller is the lifecycle thread that initialises the *)
(* store and shuts it down.                                                *)
(*                                                                         *)
(* One step is what one lock section, or one stretch of code between two   *)
(* of them, does to shared state.  The two halves of section R are steps   *)
(* of their own, so that whatever the publish lock does not exclude can    *)
(* happen between the pointer read and the Acquire.                        *)
(***************************************************************************)
EXTENDS Integers, FiniteSets

CONSTANTS
  Readers,     \* classify callouts
  Writers,     \* threads that call the writer API
  Controller,  \* the lifecycle thread (SkRuleStoreInit, SkRuleStoreShutdown)
  Snaps,       \* the pool blocks a snapshot can occupy; blocks are reused
  RuleIds,     \* rule identifiers
  Tags,        \* what a rule says, apart from its enabled flag
  RateTags,    \* the tags whose action is RATE_LIMIT
  SK_RULE_MAX, \* most rules of one snapshot
  RateSlots,   \* slots of the token bucket table (64 in the code)
  MaxVersion,  \* bound of the model: publishes per initialisation
  NULL,        \* the null snapshot pointer
  NoThread     \* a free lock

Clients == Writers \cup {Controller}

ASSUME ThreadAssumption ==
  /\ IsFiniteSet(Readers)
  /\ Controller \notin Writers
  /\ Readers \cap Clients = {}
  /\ NoThread \notin Readers \cup Clients

ASSUME DataAssumption ==
  /\ NULL \notin Snaps
  /\ RateTags \subseteq Tags
  /\ SK_RULE_MAX \in Nat
  /\ RateSlots \in Nat
  /\ MaxVersion \in Nat

(***************************************************************************)
(* Rules.  A rule set maps the identifiers it has to their rules, so that  *)
(* identifiers are unique in it (Add, Replace and the ioctl checks see to  *)
(* that); the verdict order of the array is a function of the set.         *)
(***************************************************************************)
Rule == [enabled : BOOLEAN, tag : Tags]
RuleSets == UNION {[D -> Rule] : D \in SUBSET RuleIds}
Policies == {"PERMIT", "BLOCK"}
NoRules == [i \in {} |-> NULL]

Put(rules, id, rule) ==
  [i \in DOMAIN rules \cup {id} |-> IF i = id THEN rule ELSE rules[i]]
Without(rules, id) == [i \in DOMAIN rules \ {id} |-> rules[i]]

Content == [rules : RuleSets, defaultPolicy : Policies]
Blank == [rules |-> NoRules, defaultPolicy |-> "PERMIT"]

(***************************************************************************)
(* What a writer carries from its gate check to the end of the operation.  *)
(***************************************************************************)
Requests ==
  [op : {"add", "update"}, id : RuleIds, rule : Rule]
    \cup [op : {"delete"}, id : RuleIds]
    \cup [op : {"enable"}, id : RuleIds, enabled : BOOLEAN]
    \cup [op : {"replace"}, rules : RuleSets, expected : 0 .. MaxVersion]
    \cup [op : {"policy"}, defaultPolicy : Policies]
    \cup [op : {"clear", "rollback", "none"}]
NoRequest == [op |-> "none"]

VARIABLES
  g_Current,      \* published snapshot
  g_RollbackSlot, \* previously published snapshot
  g_RetireList,   \* retired snapshots (their order is never used)
  g_PublishLock,  \* holder of the spin lock
  g_WriterBusy,   \* holder of the store lock
  g_StoreInited,
  g_StoreClosed,
  pool,           \* allocated snapshots
  content,        \* rules and default policy of each snapshot
  version,        \* version of each snapshot
  readers,        \* rundown of each snapshot: stop bit and holder count
  stuck,          \* local list of SkRuleStoreShutdown
  g_RateTable,    \* rule identifiers that own a token bucket
  runtime,        \* g_State of runtime.c
  wpc,            \* control point of each client
  snap,           \* each client's local snapshot (staged, or being walked)
  old,            \* each client's pointer to the snapshot it displaced
  req,            \* each client's request
  rpc,            \* control point of each reader
  held            \* each reader's snapshot pointer

store  == <<g_Current, g_RollbackSlot, g_RetireList, stuck>>
flags  == <<g_StoreInited, g_StoreClosed>>
memory == <<pool, content, version, readers>>
locals == <<snap, old, req>>
reader == <<rpc, held>>
vars == <<store, flags, memory, locals, reader, g_PublishLock, g_WriterBusy,
          g_RateTable, runtime, wpc>>

-----------------------------------------------------------------------------
(***************************************************************************)
(* The rundown of a snapshot, one atomic operation at a time (the CAS loop *)
(* of ShRundownAcquire is the subject of module Rundown).                  *)
(***************************************************************************)
Rundown == [stop : BOOLEAN, count : Int]
ShRundownInit == [stop |-> FALSE, count |-> 0]
Acquired(r) == [r EXCEPT !.count = @ + 1]
\* Mutant: one reference is given back twice.
ReleasedTwice(r) == [r EXCEPT !.count = @ - 2]
Released(r) == [r EXCEPT !.count = @ - 1]
Drained(r) == r.stop /\ r.count = 0

\* BeginStop and enqueue to the retire list, for a set of snapshots.
Retire(S) ==
  /\ readers' = [s \in Snaps |->
                   IF s \in S THEN [readers[s] EXCEPT !.stop = TRUE] ELSE readers[s]]
  /\ g_RetireList' = g_RetireList \cup S

\* A freed block keeps nothing of the snapshot it held.
Scrub(S) ==
  /\ pool' = pool \ S
  /\ content' = [s \in Snaps |-> IF s \in S THEN Blank ELSE content[s]]
  /\ version' = [s \in Snaps |-> IF s \in S THEN 0 ELSE version[s]]
  /\ readers' = [s \in Snaps |-> IF s \in S THEN ShRundownInit ELSE readers[s]]

\* Allocates block s for a snapshot with content c.
SkSnapAlloc(s, c) ==
  /\ s \notin pool
  /\ pool' = pool \cup {s}
  /\ content' = [content EXCEPT ![s] = c]
  /\ version' = [version EXCEPT ![s] = 0]
  /\ readers' = [readers EXCEPT ![s] = ShRundownInit]

SkStoreWritable == g_StoreInited /\ ~g_StoreClosed /\ runtime = "Active"

Goto(w, label) == wpc' = [wpc EXCEPT ![w] = label]

\* Mutant: the store lock is taken without looking at its holder.
StoreLockRace(w) == wpc[w] = "idle" /\ g_WriterBusy' = w

\* The CAS loop on g_WriterBusy ends in the step that finds the lock free.
SkStoreLock(w) ==
  /\ wpc[w] = "idle"
  /\ g_WriterBusy = NoThread
  /\ g_WriterBusy' = w

\* The client returns: it drops the store lock and its locals go away.
Return(w) ==
  /\ g_WriterBusy' = NoThread
  /\ Goto(w, "idle")
  /\ snap' = [snap EXCEPT ![w] = NULL]
  /\ old' = [old EXCEPT ![w] = NULL]
  /\ req' = [req EXCEPT ![w] = NoRequest]

-----------------------------------------------------------------------------
(***************************************************************************)
(* Writer operations, up to the call of SkPublish: the store lock is       *)
(* taken, the gate and the operation's own conditions are checked, and the *)
(* new content is built from the current snapshot in fresh pool blocks.    *)
(* The store lock keeps g_Current from changing meanwhile, so this is one  *)
(* step.  A request that is refused, or an allocation that fails, leaves   *)
(* the lock as it found it and changes nothing.                            *)
(***************************************************************************)
Stage(w, q, rules, policy) ==
  /\ SkStoreLock(w)
  /\ version[g_Current] < MaxVersion
  /\ \E s \in Snaps :
       /\ SkSnapAlloc(s, [rules |-> rules, defaultPolicy |-> policy])
       /\ snap' = [snap EXCEPT ![w] = s]
  /\ req' = [req EXCEPT ![w] = q]
  /\ Goto(w, "drain")
  /\ UNCHANGED <<store, flags, reader, old, g_PublishLock, g_RateTable, runtime>>

CurrentRules == content[g_Current].rules
CurrentPolicy == content[g_Current].defaultPolicy

SkRuleStoreAdd(w, id, rule) ==
  /\ SkStoreWritable
  /\ Cardinality(DOMAIN CurrentRules) < SK_RULE_MAX
  /\ id \notin DOMAIN CurrentRules
  /\ Stage(w, [op |-> "add", id |-> id, rule |-> rule],
           Put(CurrentRules, id, rule), CurrentPolicy)

SkRuleStoreUpdate(w, id, rule) ==
  /\ SkStoreWritable
  /\ id \in DOMAIN CurrentRules
  /\ Stage(w, [op |-> "update", id |-> id, rule |-> rule],
           Put(CurrentRules, id, rule), CurrentPolicy)

SkRuleStoreDelete(w, id) ==
  /\ SkStoreWritable
  /\ id \in DOMAIN CurrentRules
  /\ Stage(w, [op |-> "delete", id |-> id], Without(CurrentRules, id), CurrentPolicy)

SkRuleStoreSetEnabled(w, id, enabled) ==
  /\ SkStoreWritable
  /\ id \in DOMAIN CurrentRules
  /\ Stage(w, [op |-> "enable", id |-> id, enabled |-> enabled],
           [CurrentRules EXCEPT ![id].enabled = enabled], CurrentPolicy)

SkRuleStoreReplace(w, rules, expected) ==
  /\ SkStoreWritable
  /\ Cardinality(DOMAIN rules) <= SK_RULE_MAX
  /\ expected = 0 \/ version[g_Current] = expected
  /\ Stage(w, [op |-> "replace", rules |-> rules, expected |-> expected],
           rules, CurrentPolicy)

SkRuleStoreClear(w) ==
  /\ SkStoreWritable
  /\ Stage(w, [op |-> "clear"], NoRules, CurrentPolicy)

SkRuleStoreSetDefaultPolicy(w, policy) ==
  /\ SkStoreWritable
  /\ Stage(w, [op |-> "policy", defaultPolicy |-> policy], CurrentRules, policy)

\* The slot's content is copied, the slot itself is consumed in section W.
SkRuleStoreRollback(w) ==
  /\ SkStoreWritable
  /\ g_RollbackSlot # NULL
  /\ Stage(w, [op |-> "rollback"],
           content[g_RollbackSlot].rules, content[g_RollbackSlot].defaultPolicy)

Write(w) ==
  \/ \E id \in RuleIds, rule \in Rule :
       SkRuleStoreAdd(w, id, rule) \/ SkRuleStoreUpdate(w, id, rule)
  \/ \E id \in RuleIds : SkRuleStoreDelete(w, id)
  \/ \E id \in RuleIds, enabled \in BOOLEAN : SkRuleStoreSetEnabled(w, id, enabled)
  \/ \E rules \in RuleSets, expected \in 0 .. MaxVersion :
       SkRuleStoreReplace(w, rules, expected)
  \/ SkRuleStoreClear(w)
  \/ \E policy \in Policies : SkRuleStoreSetDefaultPolicy(w, policy)
  \/ SkRuleStoreRollback(w)

-----------------------------------------------------------------------------
(***************************************************************************)
(* SkPublish and the second half of SkRuleStoreRollback.                   *)
(***************************************************************************)
\* Mutant: snapshots are freed as soon as they are retired.
DrainWithoutWaiting(w) ==
  /\ wpc[w] = "drain"
  /\ g_PublishLock = NoThread
  /\ g_RetireList' = {}
  /\ Scrub(g_RetireList)
  /\ Goto(w, "publish")
  /\ UNCHANGED <<g_Current, g_RollbackSlot, stuck, flags, locals, reader,
                 g_PublishLock, g_WriterBusy, g_RateTable, runtime>>

\* One round: every drained snapshot leaves the list and is freed.
SkRetireDrain(w) ==
  LET drained == {s \in g_RetireList : Drained(readers[s])}
  IN /\ wpc[w] = "drain"
     /\ g_PublishLock = NoThread
     /\ g_RetireList' = g_RetireList \ drained
     /\ Scrub(drained)
     /\ Goto(w, IF g_RetireList' = {} THEN "publish" ELSE "drain")
     /\ UNCHANGED <<g_Current, g_RollbackSlot, stuck, flags, locals, reader,
                    g_PublishLock, g_WriterBusy, g_RateTable, runtime>>

\* The rounds are used up; the leftovers wait for the next publish.
SkRetireGiveUp(w) ==
  /\ wpc[w] = "drain"
  /\ g_RetireList # {}
  /\ Goto(w, "publish")
  /\ UNCHANGED <<store, flags, memory, locals, reader, g_PublishLock, g_WriterBusy,
                 g_RateTable, runtime>>

\* The gate closed since it was checked under the store lock.
PublishRefused(w) ==
  /\ wpc[w] = "publish"
  /\ g_PublishLock = NoThread
  /\ ~SkStoreWritable
  /\ Scrub({snap[w]})
  /\ Return(w)
  /\ UNCHANGED <<store, flags, reader, g_PublishLock, g_RateTable, runtime>>

\* The publish lock is taken.
EnterW(w) ==
  /\ wpc[w] = "publish"
  /\ g_PublishLock = NoThread
  /\ g_PublishLock' = w
  /\ Goto(w, "swap")
  /\ UNCHANGED <<store, flags, memory, locals, reader, g_WriterBusy, g_RateTable,
                 runtime>>

\* Mutant: section W trusts the gate check made before the drain.
NoGate(w) == EnterW(w) /\ g_Current # NULL

\* Section W begins: lock, gate check.  The lock keeps readers and the shutdown out
\* until the swap, but not the runtime state machine, whose state is a plain word.
SectionW(w) == EnterW(w) /\ SkStoreWritable

\* Section W ends with the new snapshot in place.
LeaveW(w) ==
  /\ wpc[w] = "swap"
  /\ g_PublishLock' = NoThread
  /\ Goto(w, "reset")

\* Mutant: the new snapshot starts its own version count.
NewVersion(w) == version' = [version EXCEPT ![snap[w]] = version[snap[w]] + 1]

NextVersion(w) == version' = [version EXCEPT ![snap[w]] = version[g_Current] + 1]

Swap(w) ==
  /\ NextVersion(w)
  /\ old' = [old EXCEPT ![w] = g_Current]
  /\ g_Current' = snap[w]
  /\ UNCHANGED <<flags, reader, stuck, pool, content, snap, req, g_WriterBusy,
                 g_RateTable, runtime>>

\* Section W of SkPublish: the displaced snapshot becomes the rollback slot and
\* the previous slot retires.
SkPublish(w) ==
  /\ LeaveW(w)
  /\ req[w].op # "rollback"
  /\ Swap(w)
  /\ g_RollbackSlot' = g_Current
  /\ Retire({g_RollbackSlot} \ {NULL})

\* Mutant: the consumed slot is dropped instead of retired.
RollbackDropsSlot(w) ==
  /\ LeaveW(w)
  /\ req[w].op = "rollback"
  /\ Swap(w)
  /\ g_RollbackSlot' = NULL
  /\ Retire({g_Current})

\* Section W of SkRuleStoreRollback: the slot is consumed; the displaced snapshot
\* and the slot both retire.
PublishRollback(w) ==
  /\ LeaveW(w)
  /\ req[w].op = "rollback"
  /\ Swap(w)
  /\ g_RollbackSlot' = NULL
  /\ Retire({g_Current, g_RollbackSlot})

\* SkRateResetRemoved and the reset of Add and of disabling, then the store lock
\* is dropped.
OwnReset(q) ==
  IF q.op = "add" \/ (q.op = "enable" /\ ~q.enabled) THEN {q.id} ELSE {}
RemovedRules(before, after) ==
  DOMAIN content[before].rules \ DOMAIN content[after].rules

SkRateResetRemoved(w) ==
  /\ wpc[w] = "reset"
  /\ g_RateTable' = g_RateTable \ (OwnReset(req[w]) \cup RemovedRules(old[w], snap[w]))
  /\ Return(w)
  /\ UNCHANGED <<store, flags, memory, reader, g_PublishLock, runtime>>

\* SkRuleStoreEnum and SkRuleStoreFind walk the current snapshot under the store
\* lock, without a reference of their own and whatever the runtime state.
SkRuleStoreEnum(w) ==
  /\ SkStoreLock(w)
  /\ g_StoreInited
  /\ g_Current # NULL
  /\ snap' = [snap EXCEPT ![w] = g_Current]
  /\ Goto(w, "walk")
  /\ UNCHANGED <<store, flags, memory, reader, old, req, g_PublishLock, g_RateTable,
                 runtime>>

EnumDone(w) ==
  /\ wpc[w] = "walk"
  /\ Return(w)
  /\ UNCHANGED <<store, flags, memory, reader, g_PublishLock, g_RateTable, runtime>>

-----------------------------------------------------------------------------
(***************************************************************************)
(* Initialisation and shutdown, by the lifecycle thread.  SkLifecycleStart *)
(* initialises the store before it registers a callout or starts the       *)
(* control thread, so nobody else is inside the store then.  The           *)
(* re-initialisation branch of SkRuleStoreInit is a Shutdown that returned *)
(* TRUE followed by an Init.                                               *)
(***************************************************************************)
SkRuleStoreInit ==
  /\ wpc[Controller] = "idle"
  /\ g_WriterBusy = NoThread
  /\ \A r \in Readers : rpc[r] = "idle"
  /\ runtime # "UnloadBlocked"
  /\ ~g_StoreInited
  /\ \E s \in Snaps : SkSnapAlloc(s, Blank) /\ g_Current' = s
  /\ g_RetireList' = {}
  /\ g_RollbackSlot' = NULL
  /\ g_StoreInited' = TRUE
  /\ g_StoreClosed' = FALSE
  /\ UNCHANGED <<locals, reader, stuck, g_PublishLock, g_WriterBusy, g_RateTable,
                 runtime, wpc>>

ShutdownBegin ==
  /\ SkStoreLock(Controller)
  /\ g_StoreInited
  /\ runtime # "UnloadBlocked"
  /\ Goto(Controller, "close")
  /\ UNCHANGED <<store, flags, memory, locals, reader, g_PublishLock, g_RateTable,
                 runtime>>

\* Section W of shutdown.
ShutdownClose ==
  /\ wpc[Controller] = "close"
  /\ g_PublishLock = NoThread
  /\ g_StoreClosed' = TRUE
  /\ g_Current' = NULL
  /\ g_RollbackSlot' = NULL
  /\ Retire({g_Current, g_RollbackSlot} \ {NULL})
  /\ Goto(Controller, "force")
  /\ UNCHANGED <<pool, content, version, locals, reader, stuck, g_PublishLock,
                 g_WriterBusy, g_StoreInited, g_RateTable, runtime>>

\* The forced drain takes the snapshots of the list one by one.
ShutdownFree(s) ==
  /\ wpc[Controller] = "force"
  /\ s \in g_RetireList
  /\ g_PublishLock = NoThread
  /\ Drained(readers[s])
  /\ g_RetireList' = g_RetireList \ {s}
  /\ Scrub({s})
  /\ UNCHANGED <<g_Current, g_RollbackSlot, stuck, flags, locals, reader,
                 g_PublishLock, g_WriterBusy, g_RateTable, runtime, wpc>>

\* Its retries used up, ShRundownDrain times out on a snapshot that still has
\* readers: the runtime becomes UNLOAD_BLOCKED and the snapshot is set aside.
ShutdownStuck(s) ==
  /\ wpc[Controller] = "force"
  /\ s \in g_RetireList
  /\ g_PublishLock = NoThread
  /\ ~Drained(readers[s])
  /\ g_RetireList' = g_RetireList \ {s}
  /\ stuck' = stuck \cup {s}
  /\ runtime' = "UnloadBlocked"
  /\ UNCHANGED <<g_Current, g_RollbackSlot, flags, memory, locals, reader,
                 g_PublishLock, g_WriterBusy, g_RateTable, wpc>>

\* Mutant: the positive TIMEOUT status is taken for success.
ShutdownForgets ==
  /\ wpc[Controller] = "force"
  /\ g_RetireList = {}
  /\ g_PublishLock = NoThread
  /\ g_RetireList' = stuck
  /\ stuck' = {}
  /\ g_StoreInited' = FALSE
  /\ Return(Controller)
  /\ UNCHANGED <<g_Current, g_RollbackSlot, g_StoreClosed, memory, reader,
                 g_PublishLock, g_RateTable, runtime>>

\* The list is empty.  What was set aside goes back on it; only if there was
\* nothing is the store uninitialised again (return value TRUE).
ShutdownEnd ==
  /\ wpc[Controller] = "force"
  /\ g_RetireList = {}
  /\ g_PublishLock = NoThread
  /\ g_RetireList' = stuck
  /\ stuck' = {}
  /\ g_StoreInited' = (stuck # {})
  /\ Return(Controller)
  /\ UNCHANGED <<g_Current, g_RollbackSlot, g_StoreClosed, memory, reader,
                 g_PublishLock, g_RateTable, runtime>>

-----------------------------------------------------------------------------
(***************************************************************************)
(* Readers.                                                                *)
(***************************************************************************)
\* Section R begins: lock, read g_Current.
ReadCurrent(r) ==
  /\ rpc[r] = "idle"
  /\ g_PublishLock = NoThread
  /\ g_PublishLock' = r
  /\ held' = [held EXCEPT ![r] = g_Current]
  /\ rpc' = [rpc EXCEPT ![r] = "inR"]
  /\ UNCHANGED <<store, flags, memory, locals, g_WriterBusy, g_RateTable, runtime, wpc>>

\* Section R ends: closed check, Acquire, unlock.
SkRuleStoreAcquire(r) ==
  /\ rpc[r] = "inR"
  /\ g_PublishLock' = NoThread
  /\ IF held[r] = NULL \/ g_StoreClosed \/ readers[held[r]].stop
       THEN /\ rpc' = [rpc EXCEPT ![r] = "idle"]
            /\ held' = [held EXCEPT ![r] = NULL]
            /\ UNCHANGED readers
       ELSE /\ rpc' = [rpc EXCEPT ![r] = "hold"]
            /\ readers' = [readers EXCEPT ![held[r]] = Acquired(@)]
            /\ UNCHANGED held
  /\ UNCHANGED <<store, flags, pool, content, version, locals, g_WriterBusy,
                 g_RateTable, runtime, wpc>>

\* SkRuleEvaluate on the held snapshot; a RATE_LIMIT rule that hits takes a slot
\* of the bucket table if it has none and one is free.
SkRuleEvaluate(r, id) ==
  LET rules == content[held[r]].rules
  IN /\ rpc[r] = "hold"
     /\ id \in DOMAIN rules
     /\ rules[id].enabled
     /\ rules[id].tag \in RateTags
     /\ Cardinality(g_RateTable) < RateSlots
     /\ g_RateTable' = g_RateTable \cup {id}
     /\ UNCHANGED <<store, flags, memory, locals, reader, g_PublishLock, g_WriterBusy,
                    runtime, wpc>>

SkRuleStoreRelease(r) ==
  /\ rpc[r] = "hold"
  /\ readers' = [readers EXCEPT ![held[r]] = Released(@)]
  /\ rpc' = [rpc EXCEPT ![r] = "idle"]
  /\ held' = [held EXCEPT ![r] = NULL]
  /\ UNCHANGED <<store, flags, pool, content, version, locals, g_PublishLock,
                 g_WriterBusy, g_RateTable, runtime, wpc>>

-----------------------------------------------------------------------------
(***************************************************************************)
(* The runtime state machine, moved by threads outside the store.          *)
(***************************************************************************)
RuntimeStates == {"Uninitialized", "Active", "Teardown", "Quiescent", "UnloadBlocked"}

Runtime(from, to) ==
  /\ runtime \in from
  /\ runtime' = to
  /\ UNCHANGED <<store, flags, memory, locals, reader, g_PublishLock, g_WriterBusy,
                 g_RateTable, wpc>>

ShRuntimeActivate == Runtime({"Uninitialized"}, "Active")
ShRuntimeBeginTeardown == Runtime({"Active"}, "Teardown")
ShRuntimeEnterQuiescent == Runtime({"Teardown"}, "Quiescent")
ShRuntimeEnterUnloadBlocked == Runtime(RuntimeStates, "UnloadBlocked")

-----------------------------------------------------------------------------
Init ==
  /\ g_Current = NULL
  /\ g_RollbackSlot = NULL
  /\ g_RetireList = {}
  /\ g_PublishLock = NoThread
  /\ g_WriterBusy = NoThread
  /\ g_StoreInited = FALSE
  /\ g_StoreClosed = FALSE
  /\ pool = {}
  /\ content = [s \in Snaps |-> Blank]
  /\ version = [s \in Snaps |-> 0]
  /\ readers = [s \in Snaps |-> ShRundownInit]
  /\ stuck = {}
  /\ g_RateTable = {}
  /\ runtime = "Uninitialized"
  /\ wpc = [w \in Clients |-> "idle"]
  /\ snap = [w \in Clients |-> NULL]
  /\ old = [w \in Clients |-> NULL]
  /\ req = [w \in Clients |-> NoRequest]
  /\ rpc = [r \in Readers |-> "idle"]
  /\ held = [r \in Readers |-> NULL]

WriterStep(w) ==
  \/ Write(w) \/ SkRuleStoreEnum(w) \/ EnumDone(w)
  \/ SkRetireDrain(w) \/ SkRetireGiveUp(w)
  \/ SectionW(w) \/ PublishRefused(w) \/ SkPublish(w) \/ PublishRollback(w)
  \/ SkRateResetRemoved(w)

ControllerStep ==
  \/ SkRuleStoreInit
  \/ ShutdownBegin \/ ShutdownClose \/ ShutdownEnd
  \/ \E s \in Snaps : ShutdownFree(s) \/ ShutdownStuck(s)

ReaderStep(r) ==
  \/ ReadCurrent(r) \/ SkRuleStoreAcquire(r) \/ SkRuleStoreRelease(r)
  \/ \E id \in RuleIds : SkRuleEvaluate(r, id)

RuntimeStep ==
  \/ ShRuntimeActivate \/ ShRuntimeBeginTeardown
  \/ ShRuntimeEnterQuiescent \/ ShRuntimeEnterUnloadBlocked

Next ==
  \/ \E w \in Writers : WriterStep(w)
  \/ ControllerStep
  \/ \E r \in Readers : ReaderStep(r)
  \/ RuntimeStep

Spec == Init /\ [][Next]_vars

-----------------------------------------------------------------------------
(***************************************************************************)
(* Properties.                                                             *)
(***************************************************************************)
Labels == {"idle", "drain", "publish", "swap", "reset", "walk", "close", "force"}

\* Every variable has its shape.
Shape ==
  /\ g_Current \in Snaps \cup {NULL}
  /\ g_RollbackSlot \in Snaps \cup {NULL}
  /\ g_RetireList \subseteq Snaps
  /\ stuck \subseteq Snaps
  /\ g_PublishLock \in Readers \cup Writers \cup {NoThread}
  /\ g_WriterBusy \in Clients \cup {NoThread}
  /\ g_StoreInited \in BOOLEAN
  /\ g_StoreClosed \in BOOLEAN
  /\ pool \subseteq Snaps
  /\ content \in [Snaps -> Content]
  /\ version \in [Snaps -> Nat]
  /\ readers \in [Snaps -> Rundown]
  /\ g_RateTable \subseteq RuleIds
  /\ runtime \in RuntimeStates
  /\ wpc \in [Clients -> Labels]
  /\ snap \in [Clients -> Snaps \cup {NULL}]
  /\ old \in [Clients -> Snaps \cup {NULL}]
  /\ req \in [Clients -> Requests]
  /\ rpc \in [Readers -> {"idle", "inR", "hold"}]
  /\ held \in [Readers -> Snaps \cup {NULL}]

\* Every variable stays in its range; no rundown is ever released more often than
\* it was acquired (the underflow that ShRundownRelease reports).
TypeOK == Shape /\ \A s \in Snaps : readers[s].count >= 0

\* Snapshots that a writer has built and not yet published.
Staging == {"drain", "publish", "swap"}
Staged == {s \in Snaps : \E w \in Clients : wpc[w] \in Staging /\ snap[w] = s}
Published == {g_Current, g_RollbackSlot} \ {NULL}

\* No thread is left with a pointer to freed memory: not the classify callout that
\* holds a snapshot or is about to acquire it, not the writer that compares the
\* snapshot it displaced with the new one, not the walk of Enum and Find.
NoUseAfterFree ==
  /\ \A r \in Readers : held[r] # NULL => held[r] \in pool
  /\ \A w \in Clients : snap[w] # NULL => snap[w] \in pool
  /\ \A w \in Clients : old[w] # NULL => old[w] \in pool

\* "Tracking never lost": an allocated snapshot is on exactly one of the
\* structures that can still free it, and nothing else is on them.
EverySnapshotTracked ==
  /\ pool = Published \cup g_RetireList \cup stuck \cup Staged
  /\ Published \cap (g_RetireList \cup stuck \cup Staged) = {}
  /\ g_RetireList \cap (stuck \cup Staged) = {}
  /\ stuck \cap Staged = {}
  /\ g_Current # NULL => g_Current # g_RollbackSlot

\* The invariant section R leans on: a snapshot carries a stop bit only once no
\* reader can find it, so the Acquire inside section R cannot fail on an open
\* store; and what is retired does carry it, so that its readers can only go.
StopBitMarksRetired ==
  \A s \in pool : readers[s].stop <=> s \in g_RetireList \cup stuck

\* A rundown counts the readers that hold the snapshot, no more and no fewer.
CountIsHolders ==
  \A s \in Snaps :
    readers[s].count = Cardinality({r \in Readers : rpc[r] = "hold" /\ held[r] = s})

\* A shutdown that returned TRUE has freed every snapshot and has left no reader
\* behind; one that failed keeps the store initialised and blocks the unload.
ShutdownIsComplete ==
  /\ ~g_StoreInited => pool = {} /\ \A r \in Readers : rpc[r] # "hold"
  /\ g_StoreInited /\ g_StoreClosed /\ g_WriterBusy = NoThread
       => runtime = "UnloadBlocked"

\* Writers that the second gate check has let through and that have not swapped yet.
InSectionW == {w \in Writers : wpc[w] = "swap"}

\* The write gate shuts behind section W: from the moment the runtime is not ACTIVE,
\* whatever a writer had staged and however long it drained, the only publish that
\* still lands is that of the one writer already past the gate check inside section
\* W; and none ever lands on a closed store.
GateShutsBehindSectionW ==
  [][/\ runtime # "Active" => InSectionW' \subseteq InSectionW
     /\ g_Current' \notin {g_Current, NULL} /\ g_StoreInited =>
          /\ ~g_StoreClosed
          /\ \E w \in Writers : InSectionW = {w} /\ InSectionW' = {}]_vars

\* "Write gate: after teardown (ShRuntimeIsActive()==FALSE) or store close, all writes
\* return STATUS_INVALID_DEVICE_STATE": nothing is published then, whatever was in
\* flight.  The gate check of section W is one read, and the teardown may begin
\* between it and the swap.
\* A claim that the code does not keep: README, section 4.
NoPublishAfterTeardown ==
  [][g_Current' \notin {g_Current, NULL} /\ g_StoreInited
       => runtime = "Active" /\ ~g_StoreClosed]_vars

\* Register value that a snapshot stands for.
Value(s) ==
  IF s = NULL THEN NULL
  ELSE [rules |-> content[s].rules, defaultPolicy |-> content[s].defaultPolicy,
        version |-> version[s]]

\* A null pointer does not pass for the value of a register.
ASSUME ValueAssumption ==
  NULL \notin [rules : RuleSets, defaultPolicy : Policies, version : Nat]

Atomic == INSTANCE AtomicRuleStore WITH
  Closed <- NULL,
  register <- Value(g_Current),
  previous <- Value(g_RollbackSlot),
  view <- [r \in Readers |-> IF rpc[r] = "hold" THEN Value(held[r]) ELSE NULL]

\* The store is the atomic register of AtomicRuleStore: each publish is one granted
\* request, versions grow by one, and what a reader holds never changes under it.
ImplementsAtomic == Atomic!Spec

\* No lost update: content is built from the current snapshot when the store lock is
\* taken and published after a drain that sleeps; what is published is still the
\* request applied to the value it replaces, and still admissible there (the expected
\* version of a Replace included).
PublishAppliesRequest ==
  [][\A w \in Writers : wpc[w] = "swap" /\ wpc'[w] = "reset" =>
       LET now == Value(g_Current)
           before == Value(g_RollbackSlot)
       IN /\ Atomic!Admissible(req[w], now, before)
          /\ Value(g_Current)' = Atomic!Applied(req[w], now, before)]_vars
=============================================================================
