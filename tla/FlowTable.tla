------------------------------ MODULE FlowTable ------------------------------
(***************************************************************************)
(* The flow context table of packet/flow_context.c.  FLOW_ESTABLISHED      *)
(* classifies (any number at once) attach a context to a flow, the filter  *)
(* engine calls flowDelete when a flow ends, and the teardown of a callout *)
(* strips its contexts with SkFlowRemoveAll between two attempts to        *)
(* unregister it.  The table's lock makes each of its sections one action; *)
(* what the teardown does with its local list runs outside that lock, and  *)
(* an attach that is rolled back unlinks from that list under it.  The two *)
(* race: a context may be unlinked twice, and what both write at the same  *)
(* moment is lost (`corrupt`: the model goes no further).                  *)
(*                                                                         *)
(* The filter engine is external.  It keeps at most one context per flow   *)
(* and callout; it unregisters a callout only when none of its contexts is *)
(* associated and none of its functions is running.                        *)
(***************************************************************************)
EXTENDS Integers, FiniteSets, Sequences, SequencesExt

CONSTANTS
  Threads,      \* classify threads
  Flows,
  Callouts,
  CalloutOf,    \* the callout whose layer sees the flow
  Ctxs,         \* addresses of contexts, each allocated at most once
  BusyRetries,  \* SK_WFP_BUSY_RETRIES
  CountMod,     \* 2^32, the width of g_SkFlowEntries
  NoCtx, NoCallout

ASSUME FlowAssumption ==
  /\ IsFiniteSet(Ctxs) /\ IsFiniteSet(Threads)
  /\ Flows # {} /\ CalloutOf \in [Flows -> Callouts]
  /\ BusyRetries \in Nat /\ CountMod \in Nat /\ CountMod > Cardinality(Ctxs)
  /\ NoCtx \notin Ctxs /\ NoCallout \notin Callouts

VARIABLES
  inited,
  table, entries,        \* g_SkFlowList and g_SkFlowEntries
  stale, popped,         \* SkFlowRemoveAll: its list, the entry it has taken off it
  ref, flowId,           \* fields of the contexts
  fresh, freed,          \* contexts never allocated, contexts given back to the pool
  pc, mine,              \* control point and context of each classify
  open, assoc, notify,   \* engine: flows alive, their contexts, flowDelete calls to come
  registered,            \* callouts still registered
  leaked,                \* callouts given up as LEAKED: the image stays resident
  target, remover, round,\* SkWfpObjectUnregister: callout, control point, BUSY attempts
  corrupt,               \* links or memory overwritten: anything may follow
  stolen,                \* history: entries an attach took off the teardown's own list
  raced,                 \* history: those it took when the teardown had them off already
  robbed                 \* history: flows of which it removed another context than its own

heap   == <<ref, flowId, fresh, freed>>
lists  == <<table, entries, stale, popped>>
attach == <<pc, mine>>
engine == <<open, assoc, notify, registered>>
remove == <<target, remover, round, leaked>>
history == <<corrupt, stolen, raced, robbed>>
vars   == <<inited, heap, lists, attach, engine, remove, history>>

Init ==
  /\ inited = TRUE
  /\ table = <<>> /\ entries = 0 /\ stale = <<>> /\ popped = NoCtx
  /\ ref = [c \in Ctxs |-> 0] /\ flowId = [c \in Ctxs |-> CHOOSE f \in Flows : TRUE]
  /\ fresh = Ctxs /\ freed = {}
  /\ pc = [p \in Threads |-> "idle"] /\ mine = [p \in Threads |-> NoCtx]
  /\ open = Flows /\ assoc = [f \in Flows |-> NoCtx] /\ notify = {}
  /\ registered = Callouts
  /\ target = NoCallout /\ remover = "idle" /\ round = 0
  /\ leaked = {}
  /\ corrupt = FALSE /\ stolen = 0 /\ raced = {} /\ robbed = {}

Add(n) == (entries + n) % CountMod

Goto(p, label) == pc' = [pc EXCEPT ![p] = label]

\* SkFlowRelease: the context is freed by whoever takes the last reference.
Release(c) ==
  /\ ref' = [ref EXCEPT ![c] = @ - 1]
  /\ freed' = IF ref[c] = 1 THEN freed \cup {c} ELSE freed

\* The entries of a list that are in S, in order: the loops over a list, and the
\* unlinking of an entry.
Only(list, S) ==
  LET kept[i \in 0 .. Len(list)] ==
        IF i = 0 THEN <<>>
        ELSE IF list[i] \in S THEN Append(kept[i - 1], list[i]) ELSE kept[i - 1]
  IN  kept[Len(list)]

Without(list, c) == Only(list, Ctxs \ {c})

\* On whichever list.
Linked(c) == c \in ToSet(table) \cup ToSet(stale)

\* link.Flink # NULL: also between RemoveHeadList and the clearing of the link.
HasLink(c) == Linked(c) \/ (c = popped /\ remover = "taking")

\* What the teardown reads or writes of its list without the lock: the links of the
\* first two entries in RemoveHeadList, then those of the one it has taken off.
InHand(c) ==
  \/ remover = "take" /\ \E i \in 1 .. Len(stale) : i <= 2 /\ stale[i] = c
  \/ remover = "taking" /\ c = popped

-----------------------------------------------------------------------------
(***************************************************************************)
(* SkFlowAttach and its only caller, skClassifyFlowCommon.                 *)
(***************************************************************************)
\* A new context, with the table's reference and the caller's.
Allocate(p, f, c) ==
  /\ pc[p] = "idle" /\ inited
  /\ f \in open /\ CalloutOf[f] \in registered
  /\ c \in fresh
  /\ fresh' = fresh \ {c}
  /\ ref' = [ref EXCEPT ![c] = 2]
  /\ flowId' = [flowId EXCEPT ![c] = f]
  /\ mine' = [mine EXCEPT ![p] = c]
  /\ Goto(p, "allocated")
  /\ UNCHANGED <<inited, lists, freed, engine, remove, history>>

\* skFlowFindLocked, for the flow of the context being attached.
Found(p) == Only(table, {c \in Ctxs : flowId[c] = flowId[mine[p]]})

\* Mutant: the caller of a second attach gets no reference of its own.
ReuseWithoutRef(p) ==
  /\ pc[p] = "allocated" /\ Found(p) # <<>>
  /\ freed' = freed \cup {mine[p]}
  /\ ref' = [ref EXCEPT ![mine[p]] = 0]
  /\ mine' = [mine EXCEPT ![p] = Head(Found(p))]
  /\ Goto(p, "attached")
  /\ UNCHANGED <<inited, lists, flowId, fresh, engine, remove, history>>

\* Mutant: the new context is forgotten.
ReuseLeaks(p) ==
  /\ pc[p] = "allocated" /\ Found(p) # <<>>
  /\ LET old == Head(Found(p)) IN
       /\ ref' = [ref EXCEPT ![old] = @ + 1, ![mine[p]] = 0]
       /\ mine' = [mine EXCEPT ![p] = old]
  /\ Goto(p, "attached")
  /\ UNCHANGED <<inited, lists, flowId, fresh, freed, engine, remove, history>>

\* The flow has a context in the table: it gets a reference, the new one is freed.
Reuse(p) ==
  /\ pc[p] = "allocated" /\ Found(p) # <<>>
  /\ LET old == Head(Found(p)) IN
       /\ ref' = [ref EXCEPT ![old] = @ + 1, ![mine[p]] = 0]
       /\ freed' = freed \cup {mine[p]}
       /\ mine' = [mine EXCEPT ![p] = old]
  /\ Goto(p, "attached")
  /\ UNCHANGED <<inited, lists, flowId, fresh, engine, remove, history>>

Link(p) ==
  /\ pc[p] = "allocated" /\ Found(p) = <<>>
  /\ table' = Append(table, mine[p])
  /\ entries' = Add(1)
  /\ Goto(p, "linked")
  /\ UNCHANGED <<inited, stale, popped, heap, mine, engine, remove, history>>

\* FwpsFlowAssociateContext0.
AssociateSucceeds(p) ==
  LET f == flowId[mine[p]] IN
  /\ pc[p] = "linked"
  /\ f \in open /\ assoc[f] = NoCtx
  /\ assoc' = [assoc EXCEPT ![f] = mine[p]]
  /\ Goto(p, "attached")
  /\ UNCHANGED <<inited, lists, heap, mine, open, notify, registered, remove, history>>

\* It may fail at any time, and does when the flow has ended or has a context.
AssociateFails(p) ==
  /\ pc[p] = "linked"
  /\ Goto(p, "failed")
  /\ UNCHANGED <<inited, lists, heap, mine, engine, remove, history>>

\* Mutant: the entry of a failed attach stays linked.
RollBackUnlinked(p) ==
  /\ pc[p] = "failed"
  /\ Goto(p, "returnCaller")
  /\ UNCHANGED <<inited, lists, heap, mine, engine, remove, history>>

\* Mutant: the entry is unlinked and not counted off.
RollBackUncounted(p) ==
  /\ pc[p] = "failed"
  /\ LET c == mine[p] IN
       /\ table' = Without(table, c) /\ stale' = Without(stale, c)
       /\ Goto(p, IF HasLink(c) THEN "returnTable" ELSE "returnCaller")
  /\ UNCHANGED <<inited, entries, popped, heap, mine, engine, remove, history>>

\* The rollback of a failed association unlinks the entry if its link is not NULL.
\* It is not NULL either on the teardown's list, nor when the teardown has taken the
\* entry off and not yet cleared the link: the table's reference is returned twice then.
RollBack(p) ==
  /\ pc[p] = "failed"
  /\ LET c == mine[p] IN
       IF HasLink(c)
         THEN /\ table' = Without(table, c)
              /\ stale' = Without(stale, c)
              /\ entries' = Add(-1)
              /\ stolen' = IF c \in ToSet(table) THEN stolen ELSE stolen + 1
              /\ raced' = IF c = popped THEN raced \cup {c} ELSE raced
              /\ Goto(p, "returnTable")
         ELSE /\ Goto(p, "returnCaller")
              /\ UNCHANGED <<table, stale, entries, stolen, raced>>
  /\ UNCHANGED <<inited, popped, heap, mine, engine, remove, corrupt, robbed>>

\* The same in the middle of what the teardown does to these links.
RollBackTorn(p) ==
  /\ pc[p] = "failed" /\ InHand(mine[p])
  /\ corrupt' = TRUE
  /\ UNCHANGED <<inited, lists, heap, attach, engine, remove, stolen, raced, robbed>>

ReturnTableRef(p) ==
  /\ pc[p] = "returnTable"
  /\ Release(mine[p])
  /\ Goto(p, "returnCaller")
  /\ UNCHANGED <<inited, lists, flowId, fresh, mine, engine, remove, history>>

\* The caller's reference: skClassifyFlowCommon keeps none, a failed attach neither.
ReturnCallerRef(p) ==
  /\ pc[p] \in {"attached", "returnCaller"}
  /\ Release(mine[p])
  /\ mine' = [mine EXCEPT ![p] = NoCtx]
  /\ Goto(p, "idle")
  /\ UNCHANGED <<inited, lists, flowId, fresh, engine, remove, history>>

-----------------------------------------------------------------------------
(***************************************************************************)
(* A flow ends: the engine drops the association, then calls flowDelete.   *)
(***************************************************************************)
FlowEnds(f) ==
  /\ f \in open
  /\ open' = open \ {f}
  /\ assoc' = [assoc EXCEPT ![f] = NoCtx]
  /\ notify' = IF assoc[f] = NoCtx THEN notify ELSE notify \cup {assoc[f]}
  /\ UNCHANGED <<inited, lists, heap, attach, registered, remove, history>>

\* What flowDelete does to the table: an entry that is not there is left alone.
Unlinked(c) ==
  IF c \in ToSet(table)
    THEN /\ table' = Without(table, c)
         /\ entries' = Add(-1)
         /\ Release(c)
    ELSE UNCHANGED <<table, entries, ref, freed>>

\* Mutant: the entry is not looked for before its reference is returned.
NotifyUnchecked(c) ==
  /\ c \in notify /\ inited
  /\ notify' = notify \ {c}
  /\ table' = Without(table, c)
  /\ entries' = Add(-1)
  /\ Release(c)
  /\ UNCHANGED <<inited, stale, popped, flowId, fresh, attach, open, assoc, registered,
                 remove, history>>

SkFlowDeleteNotify(c) ==
  /\ c \in notify /\ inited
  /\ notify' = notify \ {c}
  /\ Unlinked(c)
  /\ UNCHANGED <<inited, stale, popped, flowId, fresh, attach, open, assoc, registered,
                 remove, history>>

-----------------------------------------------------------------------------
(***************************************************************************)
(* The teardown unregisters one callout after the other; while it is       *)
(* BUSY, SkFlowRemoveAll strips the callout's contexts.                    *)
(***************************************************************************)
InUse(k) ==
  \/ \E f \in Flows : CalloutOf[f] = k /\ assoc[f] # NoCtx
  \/ \E c \in notify : CalloutOf[flowId[c]] = k
  \/ \E p \in Threads : mine[p] # NoCtx /\ CalloutOf[flowId[mine[p]]] = k

UnregisterBegin(k) ==
  /\ remover = "idle" /\ k \in registered \ leaked
  /\ target' = k
  /\ remover' = "unregister" /\ round' = 0
  /\ UNCHANGED <<inited, lists, heap, attach, engine, leaked, history>>

UnregisterSucceeds ==
  /\ remover = "unregister" /\ ~InUse(target)
  /\ registered' = registered \ {target}
  /\ target' = NoCallout /\ remover' = "idle"
  /\ UNCHANGED <<inited, lists, heap, attach, open, assoc, notify, round, leaked, history>>

\* BUSY, and another round: SkFlowRemoveAll takes its entries off the table.
UnregisterBusy ==
  /\ remover = "unregister" /\ InUse(target) /\ round < BusyRetries
  /\ round' = round + 1
  /\ LET its == {c \in Ctxs : CalloutOf[flowId[c]] = target} IN
       /\ stale' = Only(table, its)
       /\ table' = Only(table, Ctxs \ its)
       /\ entries' = Add(-Len(stale'))
  /\ remover' = "strip"
  /\ UNCHANGED <<inited, popped, heap, attach, engine, target, leaked, history>>

\* BUSY once too often, or any other error: the object is LEAKED and the teardown,
\* which will fail, goes on with the next callout.
UnregisterLeaks ==
  /\ remover = "unregister"
  /\ leaked' = leaked \cup {target}
  /\ target' = NoCallout /\ remover' = "idle"
  /\ UNCHANGED <<inited, lists, heap, attach, engine, round, history>>

\* The list has an entry: what IsListEmpty has seen without the lock.
Look ==
  /\ remover = "strip" /\ stale # <<>>
  /\ remover' = "take"
  /\ UNCHANGED <<inited, lists, heap, attach, engine, target, round, leaked, history>>

\* RemoveHeadList.
Pop ==
  /\ remover = "take" /\ stale # <<>>
  /\ popped' = Head(stale) /\ stale' = Tail(stale)
  /\ remover' = "taking"
  /\ UNCHANGED <<inited, table, entries, heap, attach, engine, target, round, leaked, history>>

\* A rollback has emptied the list since: the head is taken for an entry of itself.
PopNothing ==
  /\ remover = "take" /\ stale = <<>>
  /\ corrupt' = TRUE
  /\ UNCHANGED <<inited, lists, heap, attach, engine, remove, stolen, raced, robbed>>

ClearLink ==
  /\ remover = "taking"
  /\ remover' = "popped"
  /\ UNCHANGED <<inited, lists, heap, attach, engine, target, round, leaked, history>>

StripEnd ==
  /\ remover = "strip" /\ stale = <<>>
  /\ remover' = "unregister"
  /\ UNCHANGED <<inited, lists, heap, attach, engine, target, round, leaked, history>>

\* Mutant: the context is released before the engine has let go of it.
RemovePending ==
  /\ remover = "popped"
  /\ remover' = "release"
  /\ UNCHANGED <<inited, lists, heap, attach, engine, target, round, leaked, history>>

\* FwpsFlowRemoveContext0 names the flow, not the context.  It succeeds when the
\* flow has one, and may call flowDelete for it before it returns.
RemoveSucceeds ==
  LET f == flowId[popped] IN
  /\ remover = "popped"
  /\ assoc[f] # NoCtx
  /\ assoc' = [assoc EXCEPT ![f] = NoCtx]
  /\ \/ Unlinked(assoc[f])
     \/ UNCHANGED <<table, entries, ref, freed>>
  /\ remover' = "release"
  /\ robbed' = IF assoc[f] = popped THEN robbed ELSE robbed \cup {f}
  /\ UNCHANGED <<inited, stale, popped, flowId, fresh, attach, open, notify, registered,
                 target, round, leaked, corrupt, stolen, raced>>

\* It fails when there is none, and may fail when there is one.
RemoveFails ==
  /\ remover = "popped"
  /\ remover' = "relink"
  /\ UNCHANGED <<inited, lists, heap, attach, engine, target, round, leaked, history>>

ReturnStripped ==
  /\ remover = "release"
  /\ Release(popped)
  /\ popped' = NoCtx
  /\ remover' = "strip"
  /\ UNCHANGED <<inited, table, entries, stale, flowId, fresh, attach, engine, target, round,
                 leaked, history>>

\* The entry is kept for the next round.
Relink ==
  /\ remover = "relink"
  /\ table' = Append(table, popped) /\ entries' = Add(1)
  /\ popped' = NoCtx
  /\ remover' = "strip"
  /\ UNCHANGED <<inited, stale, heap, attach, engine, target, round, leaked, history>>

\* Once every callout is unregistered: what is left in the table is freed by force.
SkFlowDestroy ==
  /\ inited /\ remover = "idle" /\ registered = {}
  /\ inited' = FALSE
  /\ entries' = Add(-Len(table))
  /\ freed' = freed \cup ToSet(table)
  /\ ref' = [c \in Ctxs |-> IF c \in ToSet(table) THEN 0 ELSE ref[c]]
  /\ table' = <<>>
  /\ UNCHANGED <<stale, popped, flowId, fresh, attach, engine, remove, history>>

RemoveAll ==
  \/ UnregisterBusy \/ Look \/ Pop \/ PopNothing \/ ClearLink
  \/ RemoveSucceeds \/ RemoveFails \/ ReturnStripped \/ Relink \/ StripEnd

Classify(p) ==
  \/ \E f \in Flows, c \in Ctxs : Allocate(p, f, c)
  \/ Reuse(p) \/ Link(p) \/ AssociateSucceeds(p) \/ AssociateFails(p)
  \/ RollBack(p) \/ RollBackTorn(p) \/ ReturnTableRef(p) \/ ReturnCallerRef(p)

Step ==
  \/ \E p \in Threads : Classify(p)
  \/ \E f \in Flows : FlowEnds(f)
  \/ \E c \in Ctxs : SkFlowDeleteNotify(c)
  \/ \E k \in Callouts : UnregisterBegin(k)
  \/ UnregisterSucceeds \/ UnregisterLeaks
  \/ RemoveAll
  \/ SkFlowDestroy

Next == ~corrupt /\ Step

Spec == Init /\ [][Next]_vars

-----------------------------------------------------------------------------
\* Who holds a reference.  A context not yet in the table has both of its own
\* from its attacher; the table's one moves with the entry to the teardown.
Tracked(c) == Linked(c) \/ c = popped

AttachersAt(c, labels) == {p \in Threads : mine[p] = c /\ pc[p] \in labels}

Held(c) ==
  (IF Tracked(c) THEN 1 ELSE 0)
  + 2 * Cardinality(AttachersAt(c, {"allocated", "returnTable"}))
  + Cardinality(AttachersAt(c, {"linked", "failed", "attached", "returnCaller"}))

\* The types, and that a context is in one list at most and there once
\* (flow_context.h, the fields of SK_FLOW_CTX and the globals of flow_context.c); the
\* count of a context is bounded and never negative, but of one that was unlinked twice.
TypeOK ==
  /\ inited \in BOOLEAN /\ corrupt \in BOOLEAN
  /\ ToSet(table) \cup ToSet(stale) \subseteq Ctxs /\ popped \in Ctxs \cup {NoCtx}
  /\ IsInjective(table \o stale) /\ ~Linked(popped)
  /\ entries \in 0..(CountMod - 1)
  /\ ref \in [Ctxs -> Int] /\ flowId \in [Ctxs -> Flows]
  /\ \A c \in Ctxs \ raced : ref[c] \in 0..(2 + Cardinality(Threads))
  /\ fresh \subseteq Ctxs /\ freed \subseteq Ctxs /\ fresh \cap freed = {}
  /\ pc \in [Threads -> {"idle", "allocated", "linked", "failed", "attached", "returnTable",
                         "returnCaller"}]
  /\ mine \in [Threads -> Ctxs \cup {NoCtx}]
  /\ open \subseteq Flows /\ assoc \in [Flows -> Ctxs \cup {NoCtx}] /\ notify \subseteq Ctxs
  /\ registered \subseteq Callouts /\ target \in Callouts \cup {NoCallout}
  /\ remover \in {"idle", "unregister", "strip", "take", "taking", "popped", "release",
                 "relink"}
  /\ round \in 0..BusyRetries /\ stolen \in 0..Cardinality(Ctxs)
  /\ raced \subseteq Ctxs /\ robbed \subseteq Flows /\ leaked \subseteq registered

\* Every reference counted is held by somebody and the reverse, whoever unlinks the
\* entry (flow_context.c:4-6): no context is freed under a holder and none is freed
\* twice.  Only a context that a rollback and the teardown both took off the teardown's
\* list (flow_context.c:110, 192-194) has fewer references than holders.
RefsExact ==
  \A c \in Ctxs :
    IF c \in raced THEN c \in freed \/ ref[c] \in 1 .. Held(c)
    ELSE ref[c] = Held(c) /\ (c \in freed => Held(c) = 0)

\* "move matching entries to a local list (table refs retained here)", and "the table
\* ref is returned exactly once per entry" (flow_context.c:172, 160-162): the teardown
\* never has a context in hand that is freed.
StrippedIsLive == popped # NoCtx => popped \notin freed

\* "g_SkFlowLock protects list + entry count" (flow_context.c:7).
\* A claim that the code does not keep: README, section 4.
LockProtectsLists == ~corrupt

\* The engine never keeps, nor passes to flowDelete, the address of a freed context,
\* which another attach could have been given (the stale callback defence of
\* flow_context.c:126-128 compares addresses only).  Not so for a flow attached twice
\* whose second association the strip removed in the name of the first: the first
\* attach may associate its context after the strip has given up the table's reference.
EngineSeesLive ==
  \A f \in Flows \ robbed :
    /\ assoc[f] # NoCtx => assoc[f] \notin freed /\ Tracked(assoc[f])
    /\ \A c \in notify : flowId[c] = f => c \notin freed

\* "FlowRemoveContext == STATUS_SUCCESS -> WFP guarantees no more flowDeleteFn for it"
\* (flow_context.c:154-155), on which the strip returns the table's reference: flowDelete
\* is called for no context that is freed.
\* A claim that the code does not keep: README, section 4.
NoLateNotify == \A c \in notify : c \notin freed

\* g_SkFlowEntries counts the table exactly, but for the entries a failing attach
\* found on the teardown's list and counted off a second time.
CountExact == entries = (Len(table) - stolen) % CountMod

\* When SkFlowDestroy returns no context is left anywhere: nothing dangles into a
\* freed image (flow_context.c:227-228).
DestroyFreesAll == ~inited => freed \cup fresh = Ctxs

\* An entry nobody will remove: its flow is not associated with it, no flowDelete is
\* to come for it, and its attach is over.
Orphan(c) ==
  /\ c \in ToSet(table)
  /\ assoc[flowId[c]] # c
  /\ c \notin notify
  /\ AttachersAt(c, {"linked", "failed"}) = {}

\* Only the teardown's strip can make one: neither a failed association, nor a second
\* attach of the flow, nor the end of the flow leaves an entry behind.
OnlyStripOrphans ==
  [][\A c \in Ctxs : Orphan(c)' /\ ~Orphan(c) => remover \in {"popped", "relink"}]_vars

\* "no orphan entry: it would never see flowDelete" (flow_context.c:71-72).
\* A claim that the code does not keep: README, section 4.
NoOrphan == \A c \in Ctxs : ~Orphan(c)
=============================================================================
