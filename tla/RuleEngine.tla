----------------------------- MODULE RuleEngine -----------------------------
(***************************************************************************)
(* The evaluation of packets against the published rules and the token     *)
(* buckets of the rate limits (rules/rule_engine.c), the write of the      *)
(* verdict (packet/classify.c), and what the writers of rules/rule_store.c *)
(* do to the array of the rules and to the buckets.                        *)
(*                                                                         *)
(* RuleStore.tla shows that a published snapshot stays what it was while a *)
(* reader holds it, and that writers exclude each other to the end of      *)
(* their resets; so a snapshot is a value here, and a writer is one step   *)
(* that publishes and one step for each SkRuleRateReset.                   *)
(***************************************************************************)
EXTENDS RuleMatch

CONSTANTS
  Evaluators,     \* processors that run classify callbacks
  Candidates,     \* the rules that requests may carry
  Packets,
  RateSlots,      \* SK_RATE_TABLE_SIZE
  SK_RULE_MAX,
  Modulus,        \* of a UINT64
  MaxTime,        \* bound of the model: the clock, in milliseconds
  MaxVersion,     \* bound of the model: publishes
  None            \* no snapshot, and no rule

RuleIds == {r.ruleId : r \in Candidates}

ASSUME EngineAssumption ==
  /\ RateSlots \in Nat \ {0} /\ SK_RULE_MAX \in Nat /\ MaxTime \in Nat /\ MaxVersion \in Nat
  /\ Modulus \in Nat \ {0}
  /\ \A p \in Packets :
       /\ p.layer \in Layers /\ p.self \in BOOLEAN
       /\ \A f \in DOMAIN p.values \cap PortFields : p.values[f] \in Nat
       /\ \A f \in DOMAIN p.values \cap AddressFields : p.values[f] \in Addresses
  /\ \A r \in Candidates :
       /\ {"ruleId", "priority", "action", "enabled", "cond", "rateTokens", "rateIntervalMs",
           "burst"} \subseteq DOMAIN r
       /\ {r.ruleId, r.priority, r.rateTokens, r.rateIntervalMs, r.burst} \subseteq Nat
       /\ r.rateTokens < Modulus /\ r.rateIntervalMs < Modulus /\ r.burst < Modulus
       /\ \A f \in DOMAIN r.cond : TypedCondition(r.cond, f)

VARIABLES
  published,    \* the rules of the current snapshot, or None when the store is closed
  previous,     \* the rollback slot
  version,
  pending,      \* the identifiers whose buckets the writer has yet to reset
  clock,
  g_RateTable,
  eval,         \* of each evaluator: where it is, and its locals; history: is its snapshot old
  ended         \* history: how often each rule was added, removed or disabled by SetEnabled

writerVars == <<published, previous, version, pending, ended>>
vars == <<writerVars, clock, g_RateTable, eval>>

\* The rest is history: the life of the rule that the bucket was made for and the one it was
\* made in, whether its maker held an old snapshot, when it was made, what it has let through.
FreeSlot ==
  [inUse |-> FALSE, ruleId |-> 0, tokens |-> 0, lastRefillMs |-> 0,
   life |-> 0, made |-> 0, late |-> FALSE, born |-> 0, admitted |-> 0]

Idle == [at |-> "idle", hit |-> None, stale |-> FALSE, life |-> 0, since |-> 0]

Init ==
  /\ published = <<>> /\ previous = None
  /\ version = 0 /\ pending = {} /\ clock = 0
  /\ ended = [id \in RuleIds |-> 0]
  /\ g_RateTable = [i \in 1 .. RateSlots |-> FreeSlot]
  /\ eval = [t \in Evaluators |-> Idle]

-----------------------------------------------------------------------------
(***************************************************************************)
(* Writers.  Add, Update and Replace sort the array; Delete and SetEnabled *)
(* leave it in its order.                                                  *)
(***************************************************************************)
Position(id) == CHOOSE i \in DOMAIN published : published[i].ruleId = id

\* Publishes, to reset the buckets of the removed rules, and those in own.
Publish(rules, own) ==
  /\ published' = rules
  /\ version' = version + 1
  /\ pending' = (Ids(published) \ Ids(rules)) \cup own
  /\ eval' = [t \in Evaluators |-> [eval[t] EXCEPT !.stale = eval[t].at = "limit"]]
  /\ UNCHANGED <<clock, g_RateTable>>

Ends(ids) == ended' = [id \in RuleIds |-> IF id \in ids THEN ended[id] + 1 ELSE ended[id]]

Writable == published # None /\ pending = {} /\ version < MaxVersion

\* Mutant: a new rule keeps the bucket that it finds.
AddWithoutReset(rule) ==
  /\ SkRuleValidate(rule)
  /\ Len(published) < SK_RULE_MAX
  /\ rule.ruleId \notin Ids(published)
  /\ Publish(SkSortRules(Append(published, rule)), {})
  /\ previous' = published /\ Ends({rule.ruleId})

SkRuleStoreAdd(rule) ==
  /\ SkRuleValidate(rule)
  /\ Len(published) < SK_RULE_MAX
  /\ rule.ruleId \notin Ids(published)
  /\ Publish(SkSortRules(Append(published, rule)), {rule.ruleId})
  /\ previous' = published /\ Ends({rule.ruleId})

\* Mutant: the rule keeps its place in the array although its order has changed.
UpdateInPlace(rule) ==
  /\ SkRuleValidate(rule)
  /\ rule.ruleId \in Ids(published)
  /\ Publish([published EXCEPT ![Position(rule.ruleId)] = rule], {})
  /\ previous' = published /\ UNCHANGED ended

\* The bucket of the rule stays, whatever becomes of its limit, and if it is switched off.
SkRuleStoreUpdate(rule) ==
  /\ SkRuleValidate(rule)
  /\ rule.ruleId \in Ids(published)
  /\ Publish(SkSortRules([published EXCEPT ![Position(rule.ruleId)] = rule]), {})
  /\ previous' = published /\ UNCHANGED ended

SkRuleStoreDelete(id) ==
  /\ id \in Ids(published)
  /\ Publish(RemoveAt(published, Position(id)), {})
  /\ previous' = published /\ Ends({id})

SkRuleStoreSetEnabled(id, enabled) ==
  /\ id \in Ids(published)
  /\ Publish([published EXCEPT ![Position(id)].enabled = enabled],
             IF enabled THEN {} ELSE {id})
  /\ previous' = published
  /\ IF enabled THEN UNCHANGED ended ELSE Ends({id})

Removes(rules) == Ends(Ids(published) \ Ids(rules))

SkRuleStoreReplace(rules) ==
  /\ \A i \in DOMAIN rules : SkRuleValidate(rules[i])
  /\ UniqueIds(rules)
  /\ Publish(SkSortRules(rules), {})
  /\ previous' = published /\ Removes(rules)

SkRuleStoreClear == Publish(<<>>, {}) /\ previous' = published /\ Removes(<<>>)

\* The slot is consumed.
SkRuleStoreRollback ==
  /\ previous # None
  /\ Publish(previous, {})
  /\ previous' = None /\ Removes(previous)

Write ==
  /\ Writable
  /\ \/ \E rule \in Candidates : SkRuleStoreAdd(rule) \/ SkRuleStoreUpdate(rule)
     \/ \E id \in RuleIds : SkRuleStoreDelete(id)
     \/ \E id \in RuleIds, enabled \in BOOLEAN : SkRuleStoreSetEnabled(id, enabled)
     \/ \E rules \in UNION {[1 .. n -> Candidates] : n \in 0 .. SK_RULE_MAX} :
          SkRuleStoreReplace(rules)
     \/ SkRuleStoreClear
     \/ SkRuleStoreRollback

\* The slots in use by a rule.
SlotsOf(id) == {i \in DOMAIN g_RateTable : g_RateTable[i].inUse /\ g_RateTable[i].ruleId = id}

First(S) == IF S = {} THEN {} ELSE {CHOOSE i \in S : \A j \in S : i <= j}

\* The loop breaks at the first slot of the rule.  The order of the rules is left open.
SkRuleRateReset ==
  \E id \in pending :
    /\ g_RateTable' = [i \in DOMAIN g_RateTable |->
                         IF i \in First(SlotsOf(id)) THEN FreeSlot ELSE g_RateTable[i]]
    /\ pending' = pending \ {id}
    /\ UNCHANGED <<published, previous, version, ended, clock, eval>>

\* The shutdown waits for the store lock.
SkRuleStoreShutdown ==
  /\ published # None /\ pending = {}
  /\ published' = None /\ previous' = None
  /\ UNCHANGED <<version, pending, ended, clock, g_RateTable, eval>>

Tick == clock < MaxTime /\ clock' = clock + 1 /\ UNCHANGED <<writerVars, g_RateTable, eval>>

-----------------------------------------------------------------------------
(***************************************************************************)
(* SkRuleEvaluate and SkRateAllow.                                         *)
(***************************************************************************)
Set(t, e) == eval' = [eval EXCEPT ![t] = e]

\* The scan for a packet; 0 when the store is closed.
Scan(p) == IF published = None THEN 0 ELSE FirstMatch(published, BuildTuple(p, clock))

\* The snapshot is acquired and its rules are scanned.  Unless the rule is a limit, what
\* follows touches nothing shared but the event queue.
Classify(t, p) ==
  /\ eval[t].at = "idle"
  /\ p.layer \in AleLayers /\ ~p.self
  /\ Scan(p) # 0
  /\ LET hit == published[Scan(p)]
     IN /\ hit.action = "RateLimit"
        /\ Set(t, [at |-> "limit", hit |-> hit, stale |-> FALSE, life |-> ended[hit.ruleId],
                   since |-> clock])
  /\ UNCHANGED <<writerVars, clock, g_RateTable>>

\* Mutant: the search ends at the first free slot.
FirstFreeSlot(id) ==
  First({i \in DOMAIN g_RateTable : g_RateTable[i].inUse => g_RateTable[i].ruleId = id})

\* The slot of the rule, else the first free one, else none.
FindSlot(id) ==
  IF SlotsOf(id) # {} THEN First(SlotsOf(id))
                      ELSE First({i \in DOMAIN g_RateTable : ~g_RateTable[i].inUse})

NewBucket(t, now) ==
  [inUse |-> TRUE, ruleId |-> eval[t].hit.ruleId, tokens |-> eval[t].hit.burst,
   lastRefillMs |-> now,
   life |-> eval[t].life, made |-> ended[eval[t].hit.ruleId], late |-> eval[t].stale,
   born |-> now, admitted |-> 0]

\* Mutant: the time of the last refill may lie after now.
RefillUnordered(b, rule, now) ==
  LET intervals == ((now - b.lastRefillMs) % Modulus) \div rule.rateIntervalMs
      sum == (b.tokens + ((intervals * rule.rateTokens) % Modulus)) % Modulus
  IN IF intervals # 0
       THEN [b EXCEPT !.tokens = IF sum > rule.burst THEN rule.burst ELSE sum,
                      !.lastRefillMs = (@ + (intervals * rule.rateIntervalMs)) % Modulus]
       ELSE b

Refill(b, rule, now) ==
  LET intervals == (now - b.lastRefillMs) \div rule.rateIntervalMs
      sum == (b.tokens + ((intervals * rule.rateTokens) % Modulus)) % Modulus
  IN IF now > b.lastRefillMs /\ intervals # 0
       THEN [b EXCEPT !.tokens = IF sum > rule.burst THEN rule.burst ELSE sum,
                      !.lastRefillMs = @ + intervals * rule.rateIntervalMs]
       ELSE b

Spend(b) == IF b.tokens > 0 THEN [b EXCEPT !.tokens = @ - 1, !.admitted = @ + 1] ELSE b

\* The section under the lock, with a time read before; a full table limits nothing.
SkRateAllow(t, now) ==
  /\ eval[t].at = "limit"
  /\ LET rule == eval[t].hit
         slots == FindSlot(rule.ruleId)
     IN \/ slots = {} /\ UNCHANGED g_RateTable
        \/ \E i \in slots :
             LET found == IF g_RateTable[i].inUse THEN g_RateTable[i] ELSE NewBucket(t, now)
             IN g_RateTable' = [g_RateTable EXCEPT ![i] = Spend(Refill(found, rule, now))]
  /\ Set(t, Idle)
  /\ UNCHANGED <<writerVars, clock>>

Evaluate(t) ==
  \/ \E p \in Packets : Classify(t, p)
  \/ \E now \in eval[t].since .. clock : SkRateAllow(t, now)

-----------------------------------------------------------------------------
(***************************************************************************)
(* The verdict, and what becomes of classifyOut and of the event queue.    *)
(***************************************************************************)
Verdict(rules, i, policy, limited) ==
  LET action == IF i = 0 THEN policy ELSE rules[i].action
  IN CASE action = "Allow" -> "Permit"
       [] action = "RateLimit" -> IF limited THEN "Block" ELSE "Audit"
       [] OTHER -> action

\* Mutant: without the right to write, the evaluation is not recorded either.
ApplyOrNothing(verdict, limited, layer, right) ==
  [posted |-> right /\ (limited \/ verdict = "Audit"),
   out |-> IF ~right THEN "untouched"
           ELSE IF verdict = "Block" /\ HardBlockAllowed(layer) THEN "BLOCK" ELSE "PERMIT"]

\* The write of the action clears the right to it.
SkClassifyApplyVerdict(verdict, limited, layer, right) ==
  [posted |-> limited \/ verdict = "Audit",
   out |-> IF ~right THEN "untouched"
           ELSE IF verdict = "Block" /\ HardBlockAllowed(layer) THEN "BLOCK" ELSE "PERMIT"]

\* A flow layer, or a packet this driver has injected, is permitted without an evaluation.
Outcome(p, i, policy, limited, right) ==
  IF p.layer \in FlowLayers \/ p.self
    THEN [posted |-> FALSE, out |-> IF right THEN "PERMIT" ELSE "untouched"]
    ELSE SkClassifyApplyVerdict(Verdict(published, i, policy, limited), limited, p.layer, right)

Next ==
  \/ Write \/ SkRuleRateReset \/ SkRuleStoreShutdown \/ Tick
  \/ \E t \in Evaluators : Evaluate(t)

Spec == Init /\ [][Next]_vars

-----------------------------------------------------------------------------
(***************************************************************************)
(* Properties.                                                             *)
(***************************************************************************)
SlotType ==
  [inUse : BOOLEAN, ruleId : RuleIds \cup {0}, tokens : Nat, lastRefillMs : Nat,
   life : Nat, made : Nat, late : BOOLEAN, born : Nat, admitted : Nat]

Stored(rules) == {rules[i] : i \in DOMAIN rules}

\* The types of the globals and of the locals; a stored rule is a valid one, of which the
\* matcher and the division by rateIntervalMs rely.
TypeOK ==
  /\ published # None =>
       /\ \A r \in Stored(published) : SkRuleValidate(r)
       /\ UniqueIds(published)
  /\ version \in Nat /\ clock \in Nat
  /\ pending \subseteq RuleIds
  /\ ended \in [RuleIds -> Nat]
  /\ g_RateTable \in [1 .. RateSlots -> SlotType]
  /\ \A t \in Evaluators :
       /\ eval[t].at \in {"idle", "limit"} /\ eval[t].stale \in BOOLEAN
       /\ eval[t].life \in Nat /\ eval[t].since \in Nat
       /\ eval[t].at = "limit" => eval[t].hit.ruleId \in RuleIds

\* "Higher priority wins; tie: action strength; tie: lower ruleId wins": after any sequence
\* of writes, the rule that the scan stops at is the best of those published that cover the
\* packet, and the policy decides only when none covers it.
VerdictIsBest ==
  published # None =>
    \A p \in Packets :
      LET tuple == BuildTuple(p, clock)
          i == FirstMatch(published, tuple)
      IN IF i = 0 THEN \A r \in Stored(published) : ~Covers(r, tuple)
                  ELSE BestOf(published, tuple, published[i])

\* "Buckets are keyed by ruleId": no rule has two, which would double its limit and outlive
\* a reset, since that ends at the first.
OneBucket ==
  \A i, j \in 1 .. RateSlots :
    g_RateTable[i].inUse /\ g_RateTable[j].inUse /\ g_RateTable[i].ruleId = g_RateTable[j].ruleId
      => i = j

LimitsOf(id) == {r \in Candidates : r.ruleId = id /\ r.action = "RateLimit" /\ SkRuleValidate(r)}

\* "Refill rateTokens per rateIntervalMs, cap burst": whatever the interleaving of the
\* evaluators, of their older and newer readings of the clock and of the updates, a bucket
\* never holds more than a burst, nor lets through more than a burst and the refills of the
\* time since it was made.
BucketBound ==
  \A i \in 1 .. RateSlots :
    LET b == g_RateTable[i]
        burst == Max({r.burst : r \in LimitsOf(b.ruleId)})
        rate == Max({r.rateTokens : r \in LimitsOf(b.ruleId)})
        interval == Min({r.rateIntervalMs : r \in LimitsOf(b.ruleId)})
    IN b.inUse =>
         /\ b.tokens <= burst
         /\ (b.admitted + b.tokens - burst) * interval <= rate * (b.lastRefillMs - b.born)
         /\ b.lastRefillMs <= clock

\* "A reused ruleId never inherits an old bucket": once the resets of a write are done, every
\* bucket was made after its rule was last added, removed or disabled by SetEnabled; and it was
\* made for the life that the rule has since then, or by an evaluator that still held an older
\* snapshot.  Rules that Update, Replace and Rollback switch off are not among the disabled.
ResidueIsStale ==
  pending = {} =>
    \A i \in 1 .. RateSlots :
      LET b == g_RateTable[i]
      IN b.inUse => b.made = ended[b.ruleId] /\ (b.life = ended[b.ruleId] \/ b.late)

\* "When a rule disappears (delete/disable/replaced away) rule_store calls SkRuleRateReset to
\* zero the whole slot": a rule that is published as disabled has no bucket, but for one made
\* by an evaluator that still held an older snapshot.
\* A claim that the code does not keep: README, section 4.
DisabledIsReset ==
  published # None /\ pending = {} =>
    \A i \in 1 .. RateSlots, r \in Stored(published) :
      g_RateTable[i].inUse /\ g_RateTable[i].ruleId = r.ruleId /\ ~r.enabled
        => g_RateTable[i].late

\* "Gates ONLY the classifyOut write on the right": whatever the rules, the action is
\* written exactly with the right; it is a block only for a rule that blocks or is exceeded,
\* or for the default policy, and never for a flow or an injected packet, nor once the store
\* is closed; and audits and limits are recorded, with the right or without.
VerdictStands ==
  \A p \in Packets :
    LET ruled == p.layer \in AleLayers /\ ~p.self
        i == Scan(p)
        action == IF ruled /\ i # 0 THEN published[i].action ELSE "none"
    IN \A policy \in {"Allow", "Block"}, right \in BOOLEAN,
           limited \in {FALSE, action = "RateLimit"} :
         LET o == Outcome(p, i, IF published = None THEN "Allow" ELSE policy, limited, right)
         IN /\ (o.out = "untouched") = ~right
            /\ right => (o.out = "BLOCK") =
                          \/ action = "Block" \/ limited
                          \/ ruled /\ i = 0 /\ published # None /\ policy = "Block"
            /\ o.posted = (action \in {"Audit", "RateLimit"})
=============================================================================
