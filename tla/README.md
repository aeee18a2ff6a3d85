# SHINKEN Sentinel in TLA+

Specifications of the kernel driver under `src/`: its rule store and rule engine, rundowns,
injection, event queue, WFP object manager, lifecycle, control plane, flow context table and
runtime. Each is model-checked with TLC on small instances. Every safety property that these runs
find to hold, and every refinement, is also proved for all instances with TLAPS; liveness is
model-checked only.

## 1. The system

The driver is a Windows Filtering Platform (WFP) callout driver. `driver.c` creates the control
device and calls `SkLifecycleStart`, which starts the subsystems one after the other and installs
the filters; `ShRuntimeActivate` then opens the gates. Network packets reach `packet/classify.c` on
any processor, up to DISPATCH_LEVEL: a callout reads the current rule snapshot, evaluates it, may
attach a flow context, and posts an event record. User mode changes the rules through IOCTLs. The
Base Filtering Engine (BFE) reports its state by a callback. Unloading quiesces everything; a step
that cannot be confirmed leaves the driver resident for ever (`UNLOAD_BLOCKED`) rather than
unloading code that may still run. The comments make strong claims about this, and the repository
holds no tests.

| Component | State | Operations | Concurrency and failure | What makes it correct |
|---|---|---|---|---|
| rule store (`rules/rule_store.c`) | current snapshot, rollback slot, retire list, store lock, publish lock, closed/inited | Add, Update, Delete, SetEnabled, Replace, Clear, Rollback, SetDefaultPolicy, Enum, Find, Acquire, Release, Init, Shutdown | callouts against publishes against shutdown; drains time out | no use after free, no leak, atomic publishes, complete shutdown |
| rundown (`runtime/rundown.c`) | one word: count and stop bit | Acquire, BeginStop, Release, Drain | lock-free races; unpaired releases | count exact, stop final, drained means unused |
| event queue (`telemetry/event_queue.c`) | list, stopping, producers, doorbell, thread, statistics, ring of the newest records | Post, PostRecord, consumer thread, Start, Stop, Drain, Flush | producers against Stop and the consumer; full queue | references balanced, stop complete, events consumed |
| WFP manager (`wfp/`) | engine handle, per-object state, installed, mutex | Install, rollback, Teardown | every engine call may fail | nothing the kernel holds is forgotten |
| lifecycle (`runtime/lifecycle.c`, `driver/`) | completed steps, subscription, BFE rundown | Start, rollback, Quiesce, Destroy, BFE callback | callback against start and unload; failing steps | destruction only when quiet, residency otherwise |
| runtime (`runtime/runtime.c`) | state, block reason and history, handle count, injection gate | Activate, BeginTeardown, RunUnload, RecordBlock, fenced thread creation | called by all | states only advance; blocked is terminal |
| flow contexts (`packet/flow_context.c`) | table, entry count, reference counts | Attach, DeleteNotify, RemoveAll, Destroy | attach against flow end against strip | references exact, no orphan, engine holds live contexts |
| rule evaluation (`rules/rule_engine.c`, `rule_match.c`) | token buckets, statistics | Evaluate, RateAllow, RateReset | callouts share the buckets, stale snapshots | verdict order, bucket bounds |
| classify (`packet/classify.c`) | - | the callout functions | DISPATCH_LEVEL | fail-open, written only with the right, always recorded |
| injection (`packet/injection.c`) | two handles, pools | Init, Quiesce, Destroy | completions in flight | handles destroyed once drained |
| control (`control/ioctl.c`) | queue, request gate, dequeue thread, its two events, handle count | Init, the file callbacks, the dequeue thread and its commands, Quiesce, Destroy | users against Quiesce; failing creation and join | each request completed, once; nothing runs once quiet |
| device (`driver/device.c`) | control device, queue | Create, Delete | partial failure | present while anything may use it |

They interact by direct calls; by the rundown of each snapshot and of the BFE callback; by the
runtime state, which the store's write gate and the BFE callback read without a lock; and by the
engine, which calls back into the callouts and the flow table. The subsystems' threads share nothing
else.

`PROJECT.json` lists the hazards line by line, with the properties that watch them, or a note where
none does yet.

## 2. Modules

A step is what one lock section, or the code between two of them, does to shared state. Locks held
only inside one step do not appear; those held across steps do.

**RuleStore** (`rule_store.c`). `pool` is the set of allocated blocks, and a freed block may be
allocated again, so that a stale pointer is visible. A writer goes through `wpc` = idle, drain,
publish, swap, reset: the gate check and staging under the store lock (`SkRuleStoreAdd` ...
`SkRuleStoreRollback`), `SkRetireDrain`, section W, and `SkRateResetRemoved`. Section W is two
steps, the second gate check under the publish lock (refused or not) and the swap of the pointer:
the publish lock keeps readers and writers out, but not the threads that begin the teardown or block
the unload. A reader's section R is two steps (`ReadCurrent`, `SkRuleStoreAcquire`), so that
whatever the publish lock fails to exclude would fall between them. The controller initialises and
shuts down, with a drain that may find a stuck reader. A rule is an enabled flag and a tag; the
verdict order is a function of the set and is left out. **AtomicRuleStore** is what `rule_store.h`
promises: one register, written in one step, with readers that keep the value they took.

**Rundown** (`rundown.c`). Acquire's read and compare-and-swap, Release's subtraction, rollback and
report, BeginStop's OR and Drain's polls are each one atomic step on a word of width `4 * Ceiling`.
`Rogues` are threads that may release once what they do not hold. **Gate** is the promise: a gate
that is entered and left until it is stopped.

**Injection** (`injection.c`, with the gate and `ShInjectionDestroyTracked` of `runtime.c`) extends
it: the threads of the rundown inject, the stopping thread is `SkInjectQuiesce`, which destroys one
handle after the other with retries while it is busy. `kernel` is the set of handles that really
exist, `lost` those that the rollback of `SkInjectInit` forgets. No code of the repository submits a
packet, so that the threads follow the contract in the header of `injection.c`.

**EventQueue** (`event_queue.c`). Producers (a counted post or an inline record), the consumer,
Start and Stop each have a control point. `owed` is the set of events whose reference has not been
given back. The stop's wait for the producers may time out, and its join may fail. The queue lock is
a variable only across the re-check and the insertion; other lock sections are single steps. The
consumer's sink (`shTelemetrySink`) writes the ring; `SkTelemetryFlush` reads it, as an operator,
since it is one section under the ring's lock.

**WfpManager** (`wfp_manager.c`, `wfp_objects.c`). Installation, rollback and teardown in the order
of the code, object by object, against an engine in which each call succeeds or fails; `registered`
and `sessions` are what the kernel really holds, `st`, `calloutId` and `filterId` the manager's
books. Two history variables record how a callout may stay registered for ever: `lost`, those whose
addition to the engine failed, so that the books gave them up (section 4, point 6), and
`abandoned`, those that a rollback could not unregister and left on the books as LEAKED (point 7).

**Lifecycle** (`lifecycle.c`, `driver.c`, `runtime.c`) extends it with the main thread (DriverEntry,
later the unload), the BFE callback and the service's state. The other subsystems are members of
`present` and `running`, and may fail to start, to quiesce or (the rule store) to be destroyed.
`ShRuntimeActivate` is two steps: it initialises the runtime, which sets the rundown of the
callbacks back to empty and open although the subscription is older, and then turns the state to
ACTIVE; what else `ShRuntimeInit` clears (block reasons, the other rundowns) is still untouched
then. A callback whose count was wiped finds the rundown underflowed at its release, rolls the
subtraction back, reports, and blocks the unload from its own thread; `escaped` records that a drain
was passed while a callback was inside. The work item rundown is never acquired by any code of the
repository, so that step 7 of the quiesce cannot fail; step 8 repeats what step 3 ensured. The
callback may have been called but not yet be in its rundown when the image goes: unsubscribing is
documented to exclude that, outside this driver.

**FlowTable** (`flow_context.c`, with `SkWfpObjectUnregister` and `skClassifyFlowCommon`, its
callers). The table and RemoveAll's local list are sequences. The filter engine is external:
associations, pending flow deletions, callouts that are BUSY while a flow is associated. RemoveAll
moves the entries of a callout to its list under the lock, but takes them off that list without it,
in three steps: the look at the list (`Look`), the removal of its head (`Pop`) and the clearing of
the entry's link (`ClearLink`). A failed association rolls back under the lock what it finds linked
on *either* list, as the code does, and so may come between any two of them, or into the middle of
an unlinking (`RollBackTorn`). Four history variables record the consequences: `stolen` counts the
entries a rollback took off the strip's list, `raced` has the contexts that both have unlinked,
`robbed` the flows that lost the association of another context, and `corrupt` that links were
overwritten, after which the lists mean nothing and the model stops. `Only`, the loop that parts the
table into the entries of one callout and the rest, is a recursive function, as the proofs need.

**Runtime** (`runtime.c`) has the states, and `ShRuntimeRecordBlock` in its four steps for several
threads. **ThreadFence** is `ShThreadCreateFenced`: creator, thread, the two events and the block
they share. **Control** (`ioctl.c`, `device.c`) extends both: users who open files, post and cancel
requests, the framework's queue with its one-shot announcement, the consumer from
`skDequeueThreadBody`, and `SkControlInit` and `SkControlQuiesce` as calls of the main thread,
statement by statement where another thread may see the difference. A request has no bytes: it asks
for a change of the store (`Modifying`) or for an answer, and every check may refuse it. `applied`
are the requests that changed the store. The one consumer thread runs every command, so that the two
passes of an enumeration see one store. **ControlLifecycle** composes Control with the start,
rollback, unload and destruction around it (`lifecycle.c`, `ShRuntimeRunUnload`) and a BFE callback
that may record a cause; the other subsystems, which Lifecycle has in detail, are one step that may
fail.

**RuleMatch** (`rule_match.c`, `rule_store.c`, `classify.c`, `packet_helpers.c`) is pure: the tuple
of a packet, the match with addresses of any number of bytes and bits (a byte is the function from
its places to its bits, and each address has room for the longer family), `SkRuleValidate`,
`SkRulePrecedes`, the insertion sort and the scan. A rule's mask is the domain of its conditions;
`MaxPort` and `MaxProtocol` are the largest values that `SkRuleValidate` lets through, its checks of
the SID's length and of flags above 1 are left out, since no rule here has such values. `Covers`,
`Beats` and `BestOf` at its end are the documented meaning, written without the code's shortcuts.
**RuleEngine** adds the store's writers on the array (each publishes and then resets the buckets of
the rules that went, as `SkPublish` and its callers do), the token bucket table, evaluators that
keep the rule of an old snapshot while others publish, and the write of the verdict (a write also
clears the right to write: `out` stands for both). A snapshot is a value in it and a publish is one
step: that is what RuleStore shows.

The MC modules only define constants and symmetry sets. Definitions whose comment begins with
"Mutant" (for example `Abandon` or `NoRecheck`) are variants of a definition that are part of no
specification; they serve to confirm that the properties notice such a change.

## 3. Runs

| Run | Instance | Question | Result |
|---|---|---|---|
| rule_store | 2 readers, 2 writers, 4 blocks, 1 rule, 3 publishes | memory safety, tracking, shutdown, refinement of AtomicRuleStore | holds |
| rule_verdicts | 2 evaluators, 6 rules on 4 identifiers, arrays of 2, bytes of 2 bits, 3 publishes, time 1 | does the strongest rule decide, and is its verdict written; which buckets survive the resets | holds |
| rule_buckets | 2 evaluators, 5 rules on 3 identifiers, 2 slots, words of 4 bits, 2 publishes, time 2 | one bucket per rule, its limit | holds |
| injection | 3 threads, ceiling 2, 2 polls, 1 retry while busy, fair | exact count, final stop, handles present while used, no lost wake-up, refinement of Gate | holds |
| rundown_unpaired | 3 threads, 2 of them rogue | is an unpaired release reported | holds |
| event_queue | 2 producers, 3 events, capacity 1, 1 stop, fair | references, stop, capacity, statistics; does Stop return, are events consumed | holds |
| event_ring | 1 producer, 5 events, 4 of them records, capacity 2, ring of 3, 1 stop | does a flush read the newest records, in order, across the wrap | holds |
| lifecycle | 2 layers, 3 changes of BFE | quiet destruction, residency, the manager's books | holds |
| lifecycle_callback | 1 layer | "in-flight callbacks before BeginStop are always awaited" | refuted |
| flow_table | 2 threads, 2 flows of a callout each, 3 contexts, 2 retries | references, live contexts, orphans only from the strip | holds |
| flow_table_twice | 1 thread, 1 flow, 2 contexts | "the table ref is returned exactly once per entry" | refuted |
| control | 2 requests, one of them a change, 1 file, history of 2, fair | is each request answered, once and truly; is a quiesced control plane quiet; the fence; the history | holds |

**Bounds.** Four blocks are one current snapshot, one rollback slot, one retired with a stuck reader
and one being staged: the most that one writer at a time can need while a reader holds the oldest.
Three publishes retire a snapshot twice and use the slot again. In rule_buckets two publishes are an
array of two limits and a change that meets a reader of the snapshot before it or a slot not reset
yet; two slots with three limits fill the table; words of 4 bits wrap in the refill only beyond
these times, and the theorem `LimitsHold` covers every width. In rule_verdicts three publishes are
an addition, a removal or disabling that a reader does not see, and an addition or rollback that
brings the rule back; addresses of one and two bytes have prefixes that end inside and at a byte,
and the theorem `AddressMatchIsPrefix` covers every width. A ceiling of 2 with 3 threads reaches the
ceiling. Capacity 1 with 2 producers fills the queue with one waiting. Four records in a ring of 3
wrap, so that the oldest has moved; larger rings and more records are covered by the theorem
`FlushGivesNewest`. Two layers tell the failing layer from one that succeeded before it. Two flows
on two callouts let a strip of one meet an attachment of the other, and three contexts let a context
be attached again while another of the same flow is still referenced. Two requests let one wait
behind another, or arrive after the purge; one file is open, closed and opened again; a history of 2
is overrun by the third cause. Waits bounded by a number of retries in the code may give up after
any number of rounds in RuleStore and Control, and after a small constant elsewhere.

**Fairness** is given to threads that can go on, never to one that would begin an operation. In
`InjectFairSpec` a call of Acquire or Release that has begun goes on, and so do the stop and its
polls; a holder may stay for ever, as point 8 of `rundown.h` assumes. In EventQueue's `FairSpec` a
call of a producer, Start or Stop that has begun goes on, as does the consumer, and no join is
obliged to fail; weak fairness is enough, since each event is posted once, so that producers cannot
keep the lock busy for ever. In ControlLifecycle's `FairSpec` the main thread, the consumer, the
fence, the recording threads and the framework's announcement go on; users, the unload and a failure
of the join are free.

**Deadlock** is checked in every run but those of the event queue, the flow table and the rule
engine, where the system really stops, once every event has been posted, every context used, or the
store closed at the last tick of the clock (and the flow table once its links are overwritten). In
rule_store the check shows that the locks block nobody for ever all at once; in the others the
terminal states (unloaded, resident, failed) are steps of their own.

## 4. Disagreements of code and comments

Each is a property that states the comment. The first two have a run, under the name of the finding;
the others are definitions in the module named, which TLC refutes likewise in an instance of one or
two threads and one flow, layer, request or file. The properties of the passing runs except what is
found here, by the history variables named, and nothing else.

1. *lifecycle_callback* (`CallbacksAwaited`). `ShRuntimeActivate` initialises the rundown of the BFE
   callbacks a second time, after the subscription. A callback inside at that moment is counted no
   more: the drain of the unload passes with it inside, and the image goes (`lifecycle.c:94` says
   that such callbacks "are always awaited"). Its own release then underflows and may block the
   unload while the main thread goes on destroying; `DestroyIsQuiet` and `ResidentStays` except, by
   `escaped`, only the drivers to which this happened.
2. *flow_table_twice* (`StrippedIsLive`). RemoveAll takes the head off its own list without the lock
   and clears its link afterwards (`flow_context.c:192-194`). A failed association that rolls back
   in between finds the link set, unlinks the entry again and returns the table's reference: the
   context is freed in RemoveAll's hand. `RefsExact` excepts the contexts in `raced`.
3. `LockProtectsLists` (FlowTable). In the same place both unlink from one list, only one of them
   with the lock that "protects" it (`flow_context.c:7`): links are overwritten, or the list's head
   is taken for an entry. From there on (`corrupt`) the model says nothing.
4. `NoLateNotify` (FlowTable). `FwpsFlowRemoveContext0` names a flow, not a context
   (`flow_context.c:154`). If a second attach has associated another context of the flow, the strip
   removes that association and returns the reference of its own context, whose attach may associate
   it afterwards: the engine keeps a freed context and passes it to `flowDelete`. `EngineSeesLive`
   excepts the flows in `robbed`.
5. `NoOrphan` (FlowTable). An association fails while RemoveAll has popped the entry: the rollback
   finds it unlinked and leaves it to RemoveAll, whose removal of an association that does not exist
   fails, and the entry is linked again (`flow_context.c:71` says "no orphan entry").
6. `UnloadIsSafe` (Lifecycle). `FwpsCalloutRegister1` succeeds, `FwpmCalloutAdd0` fails, and
   `SkWfpObjectAddCallout` marks the callout FAILED ("never registered", `wfp_objects.h:49`). The
   rollback skips it, and so does the teardown; the image is unloaded with a registered callout.
   `CalloutsTracked` excepts these callouts, by `lost`.
7. `LeakedIsCaught` (Lifecycle). The rollback of an installation cannot unregister a callout and
   leaves it LEAKED, with nothing installed and the engine closed. `SkWfpManagerTeardown` returns
   TRUE for that at once (`wfp_manager.c:288`), and the image is unloaded over a callout that is on
   the books; `lifecycle.c:241` says that the teardown catches this form. `DestroyIsQuiet` excepts
   the callouts of this point, by `abandoned`, and of point 6.
8. `DeferredIsInstalled` (Lifecycle). If BFE starts after the subscription and before
   `ShRuntimeActivate`, the callback sees an inactive runtime and does nothing, and
   `g_SkWfpDeferred` is read nowhere: nothing is installed until the service changes state again
   (`lifecycle.c:359`: "defer to the BFE callback").
9. `NoPublishAfterTeardown` (RuleStore). A writer that has read ACTIVE inside section W swaps the
   pointer although the teardown has begun in between; `rule_store.c:47` says that all writes are
   refused then. It is that one writer at most, and never a closed store
   (`GateShutsBehindSectionW`).
10. `DisabledIsReset` (RuleEngine). A limit switched off by Update or Replace, or by a Rollback to a
    set in which it is off, keeps its bucket, and has it still when it is switched on again;
    `rule_engine.c:12` and `rule_engine.h:29` say that it is reset. Only `SkRuleStoreSetEnabled`
    does so, and no request calls it.
11. `DeviceDeletedUnopened` (ControlLifecycle). The device takes files from its creation, before
    `SkControlInit`, and `SkIoctlEvtFileCreate` counts them at any time. A handle opened before a
    start that fails, or between the last look of `SkControlQuiesce` and the deletion, is counted
    when the device is deleted; `lifecycle.c:282` says that this cannot be "by construction".

Also noticed, without a property: a Release without Acquire that overlaps BeginStop wipes out the
stop bit, which `rundown.h` calls irreversible (the callback of point 1 is the one caller that may
release unpaired; no drain succeeds without the bit). After a TIMEOUT, a second `ShEventThreadStop`
joins nobody (its callers call it once). The header comment of `event_queue.c` says that `stopping`
is set under the queue lock, which it is not (the in-lock re-check makes up for it:
`StopIsComplete`). Two threads that record a block reason at once may leave the later one as the
first (`HistoryComplete` says only that it is one of those recorded). A reader of an old snapshot
may leave a bucket for a rule that is gone. An Add of that identifier resets it, but a Replace or a
Rollback that brings the rule back does not, and the rule inherits it (`ResidueIsStale` says that,
but for the rules of point 10, no other bucket outlives its rule). Requests that wait when the
consumer cannot be joined are never completed (the driver is resident; `QueuedIsAnswered` excepts
them).

## 5. Proofs

A constant is restricted only by the named ASSUME of the module that declares it, which TLC
evaluates in the runs. Proofs by induction over data, as over the rounds of the sort or the length
of a list, are put as the choice of a least counterexample (`LeastElement` in DataFacts): the
induction theorems of the library take an operator as a parameter, which the provers do not accept.

**RuleStore_proofs** (any readers, writers, blocks, rules and bounds, under three assumptions: the
threads are distinct and the readers finitely many; the null pointer is no block; nor is it a value
of the register). The invariants alone are not inductive: that a freed snapshot has no holder
depends on who may be where. `IInv` adds the lock discipline (`LockInv`: the client inside an
operation holds the store lock, the reader in section R or the writer in section W the publish
lock), when the store is open (`OpenInv`) and what each pointer may point to at each control point
(`PointerInv`). `EverySnapshotTracked` gives that a retired snapshot is neither current nor staged;
`StopBitMarksRetired` that no new reader gets to it; `CountIsHolders` that a zero count means no
reader; hence freeing it is safe (`MemorySafety`). `Invariance` proves `IInv`; `TypeCorrect`,
`TrackingNeverLost`, `StopBitsRetire`, `CountsAreExact` and `ShutdownCompletes` follow. `GateHolds`
uses it too: that one writer at most is between the gate check and the swap is `LockInv`, that the
store cannot close under it `OpenInv`, and that none enters after the teardown began is the check.

For the refinement, `StagedInv` says that what a writer has staged remains, through its drain, what
its request makes of the current and the previous value: the store lock keeps every other writer
away, and readers and drains change no value that is tracked. `NoUpdateIsLost` is then immediate,
and `StoreIsAtomic` maps each publish to one write of AtomicRuleStore, each acquisition to one read,
and every other step to a stutter.

**Rundown_proofs** (any finite set of threads and any ceiling). With `Rogues = {}` (without the
pairing these are false, see section 4) `IInv` says that the word is the number of holders plus the
stop bit, that a value about to be swapped was read below the ceiling, and that nobody runs into an
underflow: `Conservation`, `SafeToDestroy`, `StopIsFinal`, and `Refinement`, that Rundown implements
Gate. With any rogues, `MissingInv` says that as long as no release was noticed the word is short of
the holders by exactly the unpaired releases, so that it cannot have come to nobody without an
underflow: `UnderflowsAreReported`. Injection inherits the lemmas for `Rogues = {}`; `Assets` adds
which handles and pools there are at each phase. Handles go only after a drain that succeeded, which
leaves no holder and lets none in: `InjectionIsSafe`, and with it `InjectionCount`,
`LateInjectionFails` and `InjectionIsGated`.

**RuleEngine_proofs** (any finite number of slots, any evaluators, rules, times, moduli, and widths
of bytes and addresses). Its first part is about RuleMatch. `SkRulePrecedes` is a strict total order
on rules of different identifiers; a round of the insertion sort keeps the array in order and its
rules (`SortSorts`); in an array in order the first match precedes every other
(`FirstMatchIsStrongest`). `AddressMatchIsPrefix`: whole bytes and one masked byte compare exactly
the bits of the prefix, since each bit has one place (`DigitOrder`). `MatchIsCover`: a valid rule
matches exactly the packets it covers.

In the engine, `TypeInv` says that current and previous array are in order and hold valid candidates
of different identifiers, through all writers, the resets and the rollback (`EngineTypeCorrect`), so
that the scan stops at the strongest match (`StrongestDecides`), which is the best rule in the
documented sense (`BestDecides`). `NoRuleHasTwo` needs that a search takes a free slot only when no
slot is the rule's. `ResiduesAreStale` counts for each identifier the additions, removals and
disablings by SetEnabled: their resets leave no bucket made before the last of them, and one made
since for an earlier life comes from an evaluator with an older snapshot, since one that is not
stale works for the present life of its rule. A disabling by Update, Replace or Rollback counts for
nothing in it, since nothing is reset then (section 4, point 10). `LimitsHold` relates what a bucket
has let through, what it holds and how often it was refilled; each step preserves it although the
rule's rate and burst may be changed, because the bound takes the largest burst and rate and the
shortest interval of the identifier. `VerdictIsWritten` is the case analysis of the verdict over
layers, rights and actions.

**Control_proofs** (any requests, files and capacity of the history). `FenceInv` says at each
control point of creator and thread which gate is open and who still uses the block, and `OnceInv`
that the creation is begun once: `ThreadIsFenced`. `AnswerInv` says that the queue holds the queued
requests, each once, that the consumer owns only the one it works on, and that a request has an
answer when it is done: `AnswersAreSingle`. `QuietInv` follows the quiesce: a control plane that was
started has its thread tracked until the join, the gate is closed before it and the queue purged
after it, so that with `AnswerInv` no request is left (`NothingOutlivesQuiesce`). `RecInv` gives
each recording thread a place of its own in the order of the causes, and `CauseInv` says that
whoever goes on without having succeeded has recorded a cause or still records it: `CausesAreKept`.

**EventQueue_proofs** (any producers, events, capacity and ring). `RingInv` relates each slot of the
ring to the sequence of all records consumed, by remainders modulo the ring's size
(`BackIsElsewhere`): `FlushGivesNewest`. `RefInv` says at which control points a thread has an event
in hand, that no two hold the same and that the list has none twice; `ThreadInv` that a thread is
created only when there is none: `ReferencesBalance`, for any number of stops. `StopInv` follows the
stop: a producer that inserts is counted, so that none inserts once the count was zero; the thread
has been joined or was never made (a join that fails ends the stop there); only then is the list
emptied (`StopCompletes`, for one stop, as the lifecycle calls it once: section 4 says what a second
one finds). `AccountInv` accounts for the events under way: those inserted but not yet counted, in a
producer's hand, or between the list and the sink (`StatisticsAreExact`). `QueueTypeCorrect`, with
the capacity, needs that the producer that looked at the length keeps the lock until it has inserted
(`LockInv`).

**Lifecycle_proofs** (any number of layers and of changes of the service). `ManagerInv` is about
WfpManager alone and holds whoever calls it and whatever the engine answers: `BooksInv` says for
each phase of a call which layers are untouched above it and which are off the books below it, so
that what the kernel has registered is on the books, LEAKED ones included, or lost
(`CalloutsAreTracked`). The rest follows the two callers. `OwnerInv` says whose the mutex is at
which control point; `CurrentInv` that a callout is to be unregistered by a teardown, is lost or
abandoned (`Exempt`), or has been reported, at last in the state; `TodoInv` has the shape of the
list of steps. As long as all went well, what has been taken off that list is quiet and remains so:
the subsystems (`RunningInv`), the callback (`BfeInv`) and the manager (`TrafficInv`). The hard case
is a callback that is inside or on its way when the quiesce begins: the teardown of the manager
comes after the callback's rundown has been drained. `BfeInv` and `TrafficInv` hold as long as no
callback has `escaped` that drain; what does not depend on it, that subsystems are quiet, the
subscription gone and the gate shut, holds for every driver. `DestructionIsQuiet` and `BlockedStays`
follow, and `LifecycleTypeCorrect`.

**FlowTable_proofs** (any threads, flows, callouts, contexts and retries). The heart of `FlowInv` is
`HeldInv`: a context has exactly as many references as holders, that is the list it is in (or the
strip that has just popped it) and the threads attaching it, and it was given back when there is
none (`ReferencesAreHolders`). A context in `raced`, unlinked by a rollback and by the strip, has
fewer references than holders and is given back too early, but it is never forgotten and its
attachment has failed, so that the engine does not know it. Everything holds up to the moment when
links are overwritten (`corrupt`), after which the model has no step. `ListsInv` says that a context
is in one list at most and there once, `OwnerInv` that a context on its way into the table has one
attacher and is unknown to the engine, `EngineInv` that whatever the engine knows has a registered
callout. `LiveInv` says that what the engine knows still has the table's reference
(`EngineContextsAreLive`), except for the flows that the strip robbed; `SpentInv` bounds by the
number of contexts how often an attachment takes an entry off the strip's list, which bounds the
error of the counter (`EntriesAreCounted`). Since a callout is gone only when its strip is over, the
destruction frees all (`NothingSurvivesDestroy`). `OnlyTheStripOrphans` is an action property: an
entry that nobody will remove is made by the relink of the strip, and by nothing else.

**DataFacts** has the facts about least elements, remainders, quotients and digits, and about
sequences without repetition, which these modules share.

**Only model-checked**: liveness, which is out of the prover's reach, as are ENABLED and with it
deadlock: `NoLostWakeup`, `StopReturns`, `PostedIsConsumed` and `QueuedIsAnswered`.

## 6. Not modelled, and the plan

Not modelled: the reading of headers and metadata out of a packet, the layout and lengths of the
IOCTL buffers (they decide only which refusal is given), statistics and timings, diagnostics and
test hooks, the names and security descriptor of the device. The shims, keys, displayed names and
status texts have no behaviour to model. The engine's loss of its dynamic objects when BFE stops is
a hazard without a property yet. Atomics are taken to be sequentially consistent: `sk_atomic.h` uses
full barriers. `g_StoreClosed` and `g_WriterBusy` are written under a lock. `g_State` is a plain
word that several threads write and read without one: each access is one step, since an aligned word
is neither torn nor cached across the calls between them. A context's address is not used again in
FlowTable: the hazard of a reused address is stated as a freed one that somebody still has.

In order of importance, what is left:

1. *BFE restarts.* The engine drops the dynamic objects when the service stops, while `installed`
   stays TRUE: what an installation promises after that, and what the teardown then meets.
2. *A full bucket table.* With every slot taken, some by rules that are gone or disabled, a limit
   lets everything through: which rules a full table can still limit.
