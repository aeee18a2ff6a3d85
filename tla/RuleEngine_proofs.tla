------------------------- MODULE RuleEngine_proofs -------------------------
(***************************************************************************)
(* Proofs about the rule engine.                                           *)
(*                                                                         *)
(* RuleMatch, its pure half, for rules of any number and any priorities:   *)
(* the order is a strict one, the insertion sort arranges an array by it,  *)
(* and the first match of an arranged array is the strongest.  The         *)
(* arguments by induction over the array are put as the choice of a least  *)
(* counterexample (LeastElement), which is a fact about sets.              *)
(* SkPkAddrMatch compares exactly the bits of the prefix, and a valid rule *)
(* matches exactly the packets that it covers.                             *)
(*                                                                         *)
(* RuleEngine, for any number of evaluators, rules, slots and publishes,   *)
(* and any clock: the published array stays in order, so the scan stops at *)
(* the strongest rule that matches; no rule has two buckets; a bucket left *)
(* from an earlier life of a rule was made by a reader of an old snapshot; *)
(* a bucket never lets through more than its bound; and the verdict is     *)
(* written as the rule says.                                               *)
(***************************************************************************)
EXTENDS RuleEngine, TLAPS, FiniteSetTheorems, SequenceTheorems, DataFacts

\* What the order looks at.
Rankable(r) == r.priority \in Nat /\ r.ruleId \in Nat

\* The ranks of the actions are numbers.
LEMMA RankType == ASSUME NEW a PROVE SkActionRank(a) \in Nat
  BY DEF SkActionRank

\* SkRulePrecedes is a strict order, and total on rules of different identifiers, so that
\* the order of a snapshot does not depend on the order of the writes.
LEMMA PrecedesIsOrder ==
  /\ \A a : Rankable(a) => ~SkRulePrecedes(a, a)
  /\ \A a, b, c : Rankable(a) /\ Rankable(b) /\ Rankable(c)
       /\ SkRulePrecedes(a, b) /\ SkRulePrecedes(b, c) => SkRulePrecedes(a, c)
  /\ \A a, b : Rankable(a) /\ Rankable(b) /\ a.ruleId # b.ruleId =>
       SkRulePrecedes(a, b) \/ SkRulePrecedes(b, a)
<1> USE DEF Rankable, SkRulePrecedes
<1>1. \A a : Rankable(a) => ~SkRulePrecedes(a, a)
  BY RankType
<1>2. \A a, b, c : Rankable(a) /\ Rankable(b) /\ Rankable(c)
        /\ SkRulePrecedes(a, b) /\ SkRulePrecedes(b, c) => SkRulePrecedes(a, c)
  BY RankType
<1>3. \A a, b : Rankable(a) /\ Rankable(b) /\ a.ruleId # b.ruleId =>
        SkRulePrecedes(a, b) \/ SkRulePrecedes(b, a)
  BY RankType
<1>4. QED
  BY <1>1, <1>2, <1>3

\* The scan of SkRuleEvaluate stops at a rule that matches, before every other that does.
LEMMA FirstMatchIsFirst ==
  ASSUME NEW S, NEW rules \in Seq(S), NEW tuple
  PROVE  LET i == FirstMatch(rules, tuple)
         IN /\ i = 0 => \A j \in DOMAIN rules : ~SkRuleMatch(rules[j], tuple)
            /\ i # 0 => /\ i \in DOMAIN rules /\ SkRuleMatch(rules[i], tuple)
                        /\ \A j \in DOMAIN rules : SkRuleMatch(rules[j], tuple) => i <= j
<1> DEFINE matching == {i \in DOMAIN rules : SkRuleMatch(rules[i], tuple)}
<1>1. DOMAIN rules = 1 .. Len(rules) /\ Len(rules) \in Nat
  BY LenProperties
<1>2. CASE matching = {}
  BY <1>2 DEF FirstMatch
<1>3. CASE matching # {}
  <2>1. \E i \in matching : \A j \in matching : i <= j
    <3>1. matching \subseteq Nat
      BY <1>1
    <3>2. QED
      BY <1>3, <3>1, LeastElement
  <2>2. FirstMatch(rules, tuple) = CHOOSE i \in matching : \A j \in matching : i <= j
    BY <1>3 DEF FirstMatch
  <2>3. FirstMatch(rules, tuple) \in matching
        /\ \A j \in matching : FirstMatch(rules, tuple) <= j
    BY <2>1, <2>2
  <2>4. QED
    BY <1>1, <2>3
<1>4. QED
  BY <1>2, <1>3

-----------------------------------------------------------------------------
\* The place that a round of SkSortRules finds for a rule: behind the last one that it does
\* not precede.
LEMMA PlaceOfInsert ==
  ASSUME NEW S, NEW rules \in Seq(S), NEW t \in S
  PROVE  \E k \in 0 .. Len(rules) :
           /\ k # 0 => ~SkRulePrecedes(t, rules[k])
           /\ \A j \in DOMAIN rules : k < j => SkRulePrecedes(t, rules[j])
           /\ Insert(rules, t) = [i \in 1 .. Len(rules) + 1 |->
                                    IF i <= k THEN rules[i]
                                    ELSE IF i = k + 1 THEN t ELSE rules[i - 1]]
<1> DEFINE n == Len(rules)
           stops == {0} \cup {k \in DOMAIN rules : ~SkRulePrecedes(t, rules[k])}
           place == CHOOSE m \in stops : \A j \in stops : j <= m
<1>1. n \in Nat /\ DOMAIN rules = 1 .. n
  BY LenProperties
<1>2. \E m \in stops : \A j \in stops : j <= m
  <2> DEFINE mirror == {n - k : k \in stops}
  <2>1. mirror \subseteq Nat /\ mirror # {}
    BY <1>1
  <2>2. PICK low \in mirror : \A j \in mirror : low <= j
    BY <2>1, LeastElement
  <2>3. PICK m \in stops : low = n - m
    OBVIOUS
  <2>4. ASSUME NEW j \in stops PROVE j <= m
    <3>1. j \in Nat /\ m \in Nat
      BY <1>1
    <3>2. low <= n - j
      BY <2>2
    <3>3. QED
      BY <1>1, <2>3, <3>1, <3>2
  <2>5. QED
    BY <2>4
<1>3. place \in stops /\ \A j \in stops : j <= place
  BY <1>2
<1>4. Insert(rules, t) = [i \in 1 .. n + 1 |->
                           IF i <= place THEN rules[i]
                           ELSE IF i = place + 1 THEN t ELSE rules[i - 1]]
  BY DEF Insert
<1>5. place \in 0 .. n
  BY <1>1, <1>3
<1>6. \A j \in DOMAIN rules : place < j => SkRulePrecedes(t, rules[j])
  BY <1>1, <1>3
<1>7. place # 0 => ~SkRulePrecedes(t, rules[place])
  BY <1>3
<1> HIDE DEF place
<1>8. QED
  BY <1>4, <1>5, <1>6, <1>7

\* One round keeps an array in order and adds its rule.
LEMMA InsertKeepsOrder ==
  ASSUME NEW S, NEW rules \in Seq(S), NEW t \in S, \A r \in S : Rankable(r),
         Sorted(rules), t.ruleId \notin Ids(rules)
  PROVE  /\ Insert(rules, t) \in Seq(S) /\ Len(Insert(rules, t)) = Len(rules) + 1
         /\ Sorted(Insert(rules, t))
         /\ ToSet(Insert(rules, t)) = ToSet(rules) \cup {t}
<1> DEFINE n == Len(rules)
           new == Insert(rules, t)
<1>1. n \in Nat /\ DOMAIN rules = 1 .. n /\ \A i \in 1 .. n : rules[i] \in S
  BY LenProperties
<1>2. PICK k \in 0 .. n :
        /\ k # 0 => ~SkRulePrecedes(t, rules[k])
        /\ \A j \in DOMAIN rules : k < j => SkRulePrecedes(t, rules[j])
        /\ new = [i \in 1 .. n + 1 |->
                    IF i <= k THEN rules[i] ELSE IF i = k + 1 THEN t ELSE rules[i - 1]]
  BY PlaceOfInsert
<1> HIDE DEF new
<1>3. new \in [1 .. n + 1 -> S]
  BY <1>1, <1>2
<1>4. new \in Seq(S) /\ Len(new) = n + 1 /\ DOMAIN new = 1 .. n + 1
  <2>1. new \in Seq(S)
    BY <1>1, <1>3, SeqDef
  <2>2. DOMAIN new = 1 .. n + 1 /\ DOMAIN new = 1 .. Len(new) /\ Len(new) \in Nat
    BY <1>3, <2>1, LenProperties
  <2>3. QED
    BY <1>1, <2>1, <2>2
<1>5. \A j \in 1 .. k : SkRulePrecedes(rules[j], t)
  <2>1. CASE k = 0
    BY <2>1
  <2>2. CASE k # 0
    <3>1. rules[k].ruleId # t.ruleId
      BY <1>1, <2>2 DEF Ids
    <3>2. SkRulePrecedes(rules[k], t)
      BY <1>1, <1>2, <2>2, <3>1, PrecedesIsOrder
    <3>3. ASSUME NEW j \in 1 .. k PROVE SkRulePrecedes(rules[j], t)
      <4>1. CASE j = k
        BY <3>2, <4>1
      <4>2. CASE j < k
        <5>1. SkRulePrecedes(rules[j], rules[k])
          BY <1>1, <4>2 DEF Sorted
        <5>2. QED
          BY <1>1, <2>2, <3>2, <5>1, PrecedesIsOrder
      <4>3. QED
        BY <1>1, <4>1, <4>2
    <3>4. QED
      BY <3>3
  <2>3. QED
    BY <2>1, <2>2
<1>6. Sorted(new)
  <2> SUFFICES ASSUME NEW i \in 1 .. n + 1, NEW j \in 1 .. n + 1, i < j
               PROVE  SkRulePrecedes(new[i], new[j])
    BY <1>4 DEF Sorted
  <2>1. CASE j <= k
    <3>1. new[i] = rules[i] /\ new[j] = rules[j] /\ i \in 1 .. n /\ j \in 1 .. n
      BY <1>1, <1>2, <2>1
    <3>2. QED
      BY <1>1, <3>1 DEF Sorted
  <2>2. CASE i <= k /\ j = k + 1
    BY <1>1, <1>2, <1>5, <2>2
  <2>3. CASE i <= k /\ j > k + 1
    <3>1. new[i] = rules[i] /\ new[j] = rules[j - 1] /\ i \in 1 .. n /\ j - 1 \in 1 .. n
          /\ i < j - 1
      BY <1>1, <1>2, <2>3
    <3>2. QED
      BY <1>1, <3>1 DEF Sorted
  <2>4. CASE i = k + 1
    <3>1. new[i] = t /\ new[j] = rules[j - 1] /\ j - 1 \in 1 .. n /\ k < j - 1
      BY <1>1, <1>2, <2>4
    <3>2. QED
      BY <1>1, <1>2, <3>1
  <2>5. CASE i > k + 1
    <3>1. new[i] = rules[i - 1] /\ new[j] = rules[j - 1] /\ i - 1 \in 1 .. n
          /\ j - 1 \in 1 .. n /\ i - 1 < j - 1
      BY <1>1, <1>2, <2>5
    <3>2. QED
      BY <1>1, <3>1 DEF Sorted
  <2>6. QED
    BY <1>1, <2>1, <2>2, <2>3, <2>4, <2>5
<1>7. ToSet(new) = ToSet(rules) \cup {t}
  <2>1. ASSUME NEW r \in ToSet(new) PROVE r \in ToSet(rules) \cup {t}
    <3>1. PICK i \in 1 .. n + 1 : r = new[i]
      BY <1>4 DEF ToSet
    <3>2. r = t \/ (r = rules[i] /\ i \in 1 .. n) \/ (r = rules[i - 1] /\ i - 1 \in 1 .. n)
      BY <1>1, <1>2, <3>1
    <3>3. QED
      BY <1>1, <3>2 DEF ToSet
  <2>2. ASSUME NEW r \in ToSet(rules) \cup {t} PROVE r \in ToSet(new)
    <3>1. CASE r = t
      <4>1. new[k + 1] = t /\ k + 1 \in 1 .. n + 1
        BY <1>1, <1>2
      <4>2. QED
        BY <1>4, <3>1, <4>1 DEF ToSet
    <3>2. CASE r \in ToSet(rules)
      <4>1. PICK i \in 1 .. n : r = rules[i]
        BY <1>1, <3>2 DEF ToSet
      <4>2. CASE i <= k
        <5>1. new[i] = r /\ i \in 1 .. n + 1
          BY <1>1, <1>2, <4>1, <4>2
        <5>2. QED
          BY <1>4, <5>1 DEF ToSet
      <4>3. CASE i > k
        <5>1. new[i + 1] = r /\ i + 1 \in 1 .. n + 1
          BY <1>1, <1>2, <4>1, <4>3
        <5>2. QED
          BY <1>4, <5>1 DEF ToSet
      <4>4. QED
        BY <1>1, <4>2, <4>3
    <3>3. QED
      BY <3>1, <3>2
  <2>3. QED
    BY <2>1, <2>2
<1>8. QED
  BY <1>4, <1>6, <1>7 DEF new

-----------------------------------------------------------------------------
\* What the first n rounds of the sort leave: the first n rules, in order.
Prefix(rules, n) == {rules[i] : i \in 1 .. n}
Arranged(rules, n, new, S) ==
  /\ new \in Seq(S) /\ Len(new) = n /\ Sorted(new) /\ ToSet(new) = Prefix(rules, n)

\* A function that gives the array after each of the first n rounds.
Rounds(rules, n, f) ==
  f = [k \in 0 .. n |-> IF k = 0 THEN <<>> ELSE Insert(f[k - 1], rules[k])]

\* The rounds leave the rules before them in order.
LEMMA RoundsArrange ==
  ASSUME NEW S, \A r \in S : Rankable(r), NEW rules \in Seq(S), UniqueIds(rules),
         NEW n \in 0 .. Len(rules), NEW f, Rounds(rules, n, f)
  PROVE  \A k \in 0 .. n : Arranged(rules, k, f[k], S)
<1> DEFINE wrong == {k \in 0 .. n : ~Arranged(rules, k, f[k], S)}
<1> SUFFICES ASSUME wrong # {} PROVE FALSE
  OBVIOUS
<1>1. Len(rules) \in Nat /\ DOMAIN rules = 1 .. Len(rules) /\ n \in Nat
      /\ \A i \in 1 .. Len(rules) : rules[i] \in S
  BY LenProperties
<1>2. PICK k \in wrong : \A j \in wrong : k <= j
  <2>1. wrong \subseteq Nat
    BY <1>1
  <2>2. QED
    BY <2>1, LeastElement
<1>3. k \in 0 .. n /\ ~Arranged(rules, k, f[k], S)
  OBVIOUS
<1>4. \A j \in 0 .. n : f[j] = IF j = 0 THEN <<>> ELSE Insert(f[j - 1], rules[j])
  BY DEF Rounds
<1>5. CASE k = 0
  <2>1. f[k] = <<>>
    BY <1>3, <1>4, <1>5
  <2>2. f[k] \in Seq(S) /\ Len(f[k]) = 0 /\ DOMAIN f[k] = {}
    BY <2>1, EmptySeq, LenProperties
  <2>3. Sorted(f[k]) /\ ToSet(f[k]) = {} /\ Prefix(rules, 0) = {}
    BY <2>2 DEF Sorted, ToSet, Prefix
  <2>4. QED
    BY <1>3, <1>5, <2>2, <2>3 DEF Arranged
<1>6. CASE k # 0
  <2> DEFINE old == f[k - 1]
             t == rules[k]
  <2>1. k - 1 \in 0 .. n /\ k - 1 \notin wrong /\ k \in 1 .. Len(rules)
    BY <1>1, <1>2, <1>3, <1>6
  <2>2. Arranged(rules, k - 1, old, S) /\ t \in S
    BY <1>1, <2>1
  <2>3. t.ruleId \notin Ids(old)
    <3>1. ASSUME NEW i \in DOMAIN old PROVE old[i].ruleId # t.ruleId
      <4>1. old[i] \in Prefix(rules, k - 1)
        BY <2>2 DEF Arranged, ToSet
      <4>2. PICK j \in 1 .. k - 1 : old[i] = rules[j]
        BY <4>1 DEF Prefix
      <4>3. j \in DOMAIN rules /\ k \in DOMAIN rules /\ j # k
        BY <1>1, <2>1
      <4>4. QED
        BY <4>2, <4>3 DEF UniqueIds
    <3>2. QED
      BY <3>1 DEF Ids
  <2>4. f[k] = Insert(old, t)
    BY <1>3, <1>4, <1>6
  <2> HIDE DEF old, t
  <2>5. f[k] \in Seq(S) /\ Len(f[k]) = Len(old) + 1 /\ Sorted(f[k])
        /\ ToSet(f[k]) = ToSet(old) \cup {t}
    BY <2>2, <2>3, <2>4, InsertKeepsOrder DEF Arranged
  <2>6. Prefix(rules, k) = Prefix(rules, k - 1) \cup {t}
    <3>1. 1 .. k = (1 .. k - 1) \cup {k}
      BY <2>1, <1>1
    <3>2. QED
      BY <3>1 DEF Prefix, t
  <2>7. QED
    BY <1>1, <1>3, <2>1, <2>2, <2>5, <2>6 DEF Arranged
<1>7. QED
  BY <1>5, <1>6

\* The rounds can be run to the end of the array.
LEMMA RoundsExist ==
  ASSUME NEW S, NEW rules \in Seq(S)
  PROVE  \E f : Rounds(rules, Len(rules), f)
<1> DEFINE stuck == {n \in 0 .. Len(rules) : \A f : ~Rounds(rules, n, f)}
<1>1. Len(rules) \in Nat
  BY LenProperties
<1>2. SUFFICES ASSUME stuck # {} PROVE FALSE
  <2>1. Len(rules) \in 0 .. Len(rules)
    BY <1>1
  <2>2. QED
    BY <2>1
<1>3. PICK n \in stuck : \A j \in stuck : n <= j
  <2>1. stuck \subseteq Nat
    BY <1>1
  <2>2. QED
    BY <1>2, <2>1, LeastElement
<1>4. n \in 0 .. Len(rules) /\ \A f : ~Rounds(rules, n, f)
  OBVIOUS
<1>5. CASE n = 0
  <2> DEFINE f == [k \in 0 .. 0 |-> <<>>]
  <2>1. Rounds(rules, 0, f)
    <3>1. \A k \in 0 .. 0 : k = 0
      OBVIOUS
    <3>2. f = [k \in 0 .. 0 |-> IF k = 0 THEN <<>> ELSE Insert(f[k - 1], rules[k])]
      BY <3>1
    <3>3. QED
      BY <3>2 DEF Rounds
  <2>2. QED
    BY <1>4, <1>5, <2>1
<1>6. CASE n # 0
  <2>1. n - 1 \in 0 .. Len(rules) /\ n - 1 \notin stuck
    BY <1>1, <1>3, <1>4, <1>6
  <2>2. PICK g : Rounds(rules, n - 1, g)
    BY <2>1
  <2> DEFINE f == [k \in 0 .. n |-> IF k = n THEN Insert(g[n - 1], rules[n]) ELSE g[k]]
  <2>3. \A k \in 0 .. n :
          f[k] = IF k = 0 THEN <<>> ELSE Insert(f[k - 1], rules[k])
    <3> SUFFICES ASSUME NEW k \in 0 .. n
                 PROVE  f[k] = IF k = 0 THEN <<>> ELSE Insert(f[k - 1], rules[k])
      OBVIOUS
    <3>1. CASE k = n
      <4>1. f[n] = Insert(g[n - 1], rules[n]) /\ f[n - 1] = g[n - 1]
        BY <1>1, <1>4, <1>6
      <4>2. QED
        BY <1>6, <3>1, <4>1
    <3>2. CASE k # n
      <4>1. k \in 0 .. n - 1 /\ f[k] = g[k]
        BY <1>1, <1>4, <3>2
      <4>2. g[k] = IF k = 0 THEN <<>> ELSE Insert(g[k - 1], rules[k])
        BY <2>2, <4>1 DEF Rounds
      <4>3. CASE k = 0
        BY <4>1, <4>2, <4>3
      <4>4. CASE k # 0
        <5>1. f[k - 1] = g[k - 1]
          BY <1>1, <1>4, <4>1, <4>4
        <5> HIDE DEF f
        <5>2. QED
          BY <4>1, <4>2, <4>4, <5>1
      <4>5. QED
        BY <4>3, <4>4
    <3>3. QED
      BY <3>1, <3>2
  <2>4. f = [k \in 0 .. n |-> f[k]]
    OBVIOUS
  <2> HIDE DEF f
  <2>5. Rounds(rules, n, f)
    <3>1. f = [k \in 0 .. n |-> IF k = 0 THEN <<>> ELSE Insert(f[k - 1], rules[k])]
      BY <2>3, <2>4
    <3>2. QED
      BY <3>1 DEF Rounds
  <2>6. QED
    BY <1>4, <2>5
<1>7. QED
  BY <1>5, <1>6

\* SkSortRules leaves the same rules, in order: the array that Add, Update and Replace
\* publish is one where the scan finds the strongest rule first.
THEOREM SortSorts ==
  ASSUME NEW S, \A r \in S : Rankable(r), NEW rules \in Seq(S), UniqueIds(rules)
  PROVE  /\ SkSortRules(rules) \in Seq(S) /\ Len(SkSortRules(rules)) = Len(rules)
         /\ Sorted(SkSortRules(rules)) /\ ToSet(SkSortRules(rules)) = ToSet(rules)
<1> DEFINE f == CHOOSE g : Rounds(rules, Len(rules), g)
<1>1. Rounds(rules, Len(rules), f)
  BY RoundsExist
<1>2. SkSortRules(rules) = f[Len(rules)]
  BY DEF SkSortRules, Rounds
<1> HIDE DEF f
<1>3. Len(rules) \in Nat /\ Len(rules) \in 0 .. Len(rules) /\ DOMAIN rules = 1 .. Len(rules)
  BY LenProperties
<1>4. Arranged(rules, Len(rules), f[Len(rules)], S)
  BY <1>1, <1>3, RoundsArrange
<1>5. Prefix(rules, Len(rules)) = ToSet(rules)
  BY <1>3 DEF Prefix, ToSet
<1>6. QED
  BY <1>2, <1>4, <1>5 DEF Arranged

-----------------------------------------------------------------------------
\* In an array in order, what the scan stops at precedes every other rule that matches:
\* the first match is the strongest.
THEOREM FirstMatchIsStrongest ==
  ASSUME NEW S, NEW rules \in Seq(S), NEW tuple, Sorted(rules),
         FirstMatch(rules, tuple) # 0
  PROVE  \A j \in DOMAIN rules : SkRuleMatch(rules[j], tuple) =>
           j = FirstMatch(rules, tuple)
             \/ SkRulePrecedes(rules[FirstMatch(rules, tuple)], rules[j])
<1> DEFINE i == FirstMatch(rules, tuple)
<1>1. i \in DOMAIN rules /\ \A j \in DOMAIN rules : SkRuleMatch(rules[j], tuple) => i <= j
  BY FirstMatchIsFirst
<1>2. DOMAIN rules \subseteq Int
  BY LenProperties
<1> HIDE DEF i
<1>3. \A j \in DOMAIN rules : i <= j => j = i \/ SkRulePrecedes(rules[i], rules[j])
  BY <1>1, <1>2 DEF Sorted
<1>4. QED
  BY <1>1, <1>3 DEF i

\* An array in order with the rules of one without repeated identifiers has none either.
LEMMA SortedIsUnique ==
  ASSUME NEW S, \A r \in S : Rankable(r), NEW rules \in Seq(S), UniqueIds(rules),
         NEW new \in Seq(S), Sorted(new), ToSet(new) = ToSet(rules)
  PROVE  UniqueIds(new)
<1> SUFFICES ASSUME NEW i \in DOMAIN new, NEW j \in DOMAIN new, new[i].ruleId = new[j].ruleId,
                    i < j \/ j < i
             PROVE  FALSE
  <2>1. DOMAIN new \subseteq Int
    BY LenProperties
  <2>2. QED
    BY <2>1 DEF UniqueIds
<1>1. new[i] \in S /\ new[j] \in S /\ new[i] \in ToSet(rules) /\ new[j] \in ToSet(rules)
  BY ElementOfSeq, LenProperties DEF ToSet
<1>2. new[i] = new[j]
  BY <1>1 DEF ToSet, UniqueIds
<1>3. SkRulePrecedes(new[i], new[j]) \/ SkRulePrecedes(new[j], new[i])
  BY DEF Sorted
<1>4. QED
  BY <1>1, <1>2, <1>3, PrecedesIsOrder

-----------------------------------------------------------------------------
(***************************************************************************)
(* The rules of a store: candidates, some of them switched.                *)
(***************************************************************************)
Fields == {"ruleId", "priority", "action", "cond", "rateTokens", "rateIntervalMs", "burst"}

Storable == Candidates \cup {[c EXCEPT !.enabled = e] : c \in Candidates, e \in BOOLEAN}

\* A stored rule is one of the candidates but for enabled.
LEMMA StoredIsCandidate ==
  ASSUME NEW r \in Storable
  PROVE  /\ \E c \in Candidates : \A f \in Fields : r[f] = c[f]
         /\ Rankable(r) /\ r.ruleId \in RuleIds
         /\ {r.rateTokens, r.rateIntervalMs, r.burst} \subseteq Nat
<1>1. PICK c \in Candidates : r = c \/ \E e \in BOOLEAN : r = [c EXCEPT !.enabled = e]
  BY DEF Storable
<1>2. Fields \subseteq DOMAIN c /\ Rankable(c) /\ c.ruleId \in RuleIds
      /\ {c.rateTokens, c.rateIntervalMs, c.burst} \subseteq Nat
  BY EngineAssumption DEF Fields, Rankable, RuleIds
<1>3. \A f \in Fields : r[f] = c[f]
  <2>1. CASE r = c
    BY <2>1
  <2>2. ASSUME NEW e \in BOOLEAN, r = [c EXCEPT !.enabled = e], NEW f \in Fields
        PROVE  r[f] = c[f]
    <3>1. f # "enabled" /\ f \in DOMAIN c
      BY <1>2 DEF Fields
    <3>2. QED
      BY <2>2, <3>1
  <2>3. QED
    BY <1>1, <2>1, <2>2
<1>4. r.ruleId = c.ruleId /\ r.priority = c.priority /\ r.rateTokens = c.rateTokens
      /\ r.rateIntervalMs = c.rateIntervalMs /\ r.burst = c.burst
  BY <1>3 DEF Fields
<1>5. QED
  BY <1>2, <1>3, <1>4 DEF Rankable

\* SetEnabled leaves a rule of a store, with all but enabled as it was.
LEMMA SwitchedRule ==
  ASSUME NEW r \in Storable, NEW e \in BOOLEAN
  PROVE  LET s == [r EXCEPT !.enabled = e]
         IN /\ s \in Storable
            /\ \A f \in Fields : s[f] = r[f]
            /\ SkRuleValidate(r) => SkRuleValidate(s)
<1> DEFINE s == [r EXCEPT !.enabled = e]
<1>1. PICK c \in Candidates : r = c \/ \E d \in BOOLEAN : r = [c EXCEPT !.enabled = d]
  BY DEF Storable
<1>2. s = [c EXCEPT !.enabled = e] /\ DOMAIN r = DOMAIN c
  BY <1>1
<1>3. s \in Storable
  BY <1>2 DEF Storable
<1>4. \A f \in Fields : s[f] = r[f]
  <2>1. Fields \subseteq DOMAIN c
    BY EngineAssumption DEF Fields
  <2>2. ASSUME NEW f \in Fields PROVE s[f] = r[f]
    <3>1. f # "enabled" /\ f \in DOMAIN r
      BY <1>2, <2>1 DEF Fields
    <3>2. QED
      BY <3>1
  <2>3. QED
    BY <2>2
<1> HIDE DEF s
<1>5. s.ruleId = r.ruleId /\ s.cond = r.cond /\ s.action = r.action
      /\ s.rateTokens = r.rateTokens /\ s.rateIntervalMs = r.rateIntervalMs /\ s.burst = r.burst
  BY <1>4 DEF Fields
<1>6. SkRuleValidate(r) => SkRuleValidate(s)
  BY <1>5 DEF SkRuleValidate
<1>7. QED
  BY <1>3, <1>4, <1>6 DEF s

-----------------------------------------------------------------------------
(***************************************************************************)
(* What a writer publishes.                                                *)
(***************************************************************************)
Good(rules) ==
  /\ rules \in Seq(Storable) /\ Sorted(rules) /\ UniqueIds(rules)
  /\ \A i \in DOMAIN rules : SkRuleValidate(rules[i])

LEMMA GoodDomain ==
  ASSUME NEW rules \in Seq(Storable)
  PROVE  /\ Len(rules) \in Nat /\ DOMAIN rules = 1 .. Len(rules)
         /\ \A i \in DOMAIN rules : rules[i] \in Storable
  BY LenProperties, ElementOfSeq

\* The sort of valid rules, none repeated.
LEMMA SortedIsGood ==
  ASSUME NEW rules \in Seq(Storable), UniqueIds(rules),
         \A i \in DOMAIN rules : SkRuleValidate(rules[i])
  PROVE  Good(SkSortRules(rules)) /\ Ids(SkSortRules(rules)) = Ids(rules)
<1> DEFINE new == SkSortRules(rules)
<1>1. \A r \in Storable : Rankable(r)
  BY StoredIsCandidate
<1>2. new \in Seq(Storable) /\ Sorted(new) /\ ToSet(new) = ToSet(rules)
  BY <1>1, SortSorts
<1> HIDE DEF new
<1>3. UniqueIds(new)
  BY <1>1, <1>2, SortedIsUnique
<1>4. \A i \in DOMAIN new : \E j \in DOMAIN rules : new[i] = rules[j]
  BY <1>2 DEF ToSet
<1>5. \A i \in DOMAIN rules : \E j \in DOMAIN new : rules[i] = new[j]
  BY <1>2 DEF ToSet
<1>6. Ids(new) = Ids(rules)
  BY <1>4, <1>5 DEF Ids
<1>7. Good(new)
  BY <1>2, <1>3, <1>4 DEF Good
<1>8. QED
  BY <1>6, <1>7 DEF new

LEMMA EmptyIsGood == Good(<<>>) /\ Ids(<<>>) = {}
<1>1. <<>> \in Seq(Storable) /\ DOMAIN <<>> = {}
  BY EmptySeq, LenProperties
<1>2. QED
  BY <1>1 DEF Good, Sorted, UniqueIds, Ids

\* SkRuleStoreAdd.
LEMMA AddIsGood ==
  ASSUME NEW rules, Good(rules), NEW rule \in Candidates, SkRuleValidate(rule),
         rule.ruleId \notin Ids(rules)
  PROVE  /\ Good(SkSortRules(Append(rules, rule)))
         /\ Ids(SkSortRules(Append(rules, rule))) = Ids(rules) \cup {rule.ruleId}
<1> DEFINE n == Len(rules)
           new == Append(rules, rule)
<1>1. rules \in Seq(Storable) /\ rule \in Storable
  BY DEF Good, Storable
<1>2. n \in Nat /\ DOMAIN rules = 1 .. n
  BY <1>1, LenProperties
<1>3. new \in Seq(Storable) /\ Len(new) = n + 1
      /\ \A i \in 1 .. n : new[i] = rules[i] /\ new[n + 1] = rule
  BY <1>1, AppendProperties
<1>4. new[n + 1] = rule /\ DOMAIN new = 1 .. n + 1
  <2>1. new[Len(rules) + 1] = rule
    BY <1>1, AppendProperties
  <2>2. QED
    BY <1>3, <2>1, LenProperties
<1> HIDE DEF new
<1>5. \A i \in DOMAIN new : \/ i = n + 1 /\ new[i] = rule
                            \/ i \in DOMAIN rules /\ new[i] = rules[i]
  BY <1>2, <1>3, <1>4
<1>6. UniqueIds(new)
  BY <1>2, <1>5 DEF UniqueIds, Good, Ids
<1>7. \A i \in DOMAIN new : SkRuleValidate(new[i])
  BY <1>5 DEF Good
<1>8. Ids(new) = Ids(rules) \cup {rule.ruleId}
  <2>1. ASSUME NEW id \in Ids(new) PROVE id \in Ids(rules) \cup {rule.ruleId}
    BY <1>5 DEF Ids
  <2>2. ASSUME NEW id \in Ids(rules) PROVE id \in Ids(new)
    <3>1. PICK i \in DOMAIN rules : id = rules[i].ruleId
      BY DEF Ids
    <3>2. i \in DOMAIN new /\ new[i] = rules[i]
      BY <1>2, <1>3, <1>4
    <3>3. QED
      BY <3>1, <3>2 DEF Ids
  <2>3. rule.ruleId \in Ids(new)
    BY <1>2, <1>4 DEF Ids
  <2>4. QED
    BY <2>1, <2>2, <2>3
<1>9. QED
  BY <1>3, <1>6, <1>7, <1>8, SortedIsGood DEF new

PositionIn(rules, id) == CHOOSE i \in DOMAIN rules : rules[i].ruleId = id

\* The search of a writer for its rule.
LEMMA PositionIsThere ==
  ASSUME NEW rules, NEW id \in Ids(rules)
  PROVE  PositionIn(rules, id) \in DOMAIN rules /\ rules[PositionIn(rules, id)].ruleId = id
  BY DEF PositionIn, Ids

\* A rule put in the place of the one with its identifier.
LEMMA PutIsUnique ==
  ASSUME NEW rules, Good(rules), NEW p \in DOMAIN rules, NEW rule \in Storable,
         rule.ruleId = rules[p].ruleId, SkRuleValidate(rule)
  PROVE  LET new == [rules EXCEPT ![p] = rule]
         IN /\ new \in Seq(Storable) /\ UniqueIds(new) /\ Ids(new) = Ids(rules)
            /\ DOMAIN new = DOMAIN rules
            /\ \A i \in DOMAIN rules : new[i] = IF i = p THEN rule ELSE rules[i]
            /\ \A i \in DOMAIN new : SkRuleValidate(new[i])
<1> DEFINE new == [rules EXCEPT ![p] = rule]
<1>1. rules \in Seq(Storable)
  BY DEF Good
<1>2. DOMAIN rules = 1 .. Len(rules)
  BY <1>1, LenProperties
<1>3. new \in Seq(Storable)
  BY <1>1, <1>2, ExceptSeq
<1>4. DOMAIN new = DOMAIN rules
      /\ \A i \in DOMAIN rules : new[i] = IF i = p THEN rule ELSE rules[i]
  OBVIOUS
<1> HIDE DEF new
<1>5. \A i \in DOMAIN rules : new[i].ruleId = rules[i].ruleId
  BY <1>4
<1>6. UniqueIds(new) /\ Ids(new) = Ids(rules)
  BY <1>4, <1>5 DEF UniqueIds, Ids, Good
<1>7. \A i \in DOMAIN new : SkRuleValidate(new[i])
  BY <1>4 DEF Good
<1>8. QED
  BY <1>3, <1>4, <1>6, <1>7 DEF new

\* SkRuleStoreUpdate.
LEMMA UpdateIsGood ==
  ASSUME NEW rules, Good(rules), NEW rule \in Candidates, SkRuleValidate(rule),
         rule.ruleId \in Ids(rules)
  PROVE  LET new == SkSortRules([rules EXCEPT ![PositionIn(rules, rule.ruleId)] = rule])
         IN Good(new) /\ Ids(new) = Ids(rules)
<1> DEFINE p == PositionIn(rules, rule.ruleId)
           put == [rules EXCEPT ![p] = rule]
<1>1. p \in DOMAIN rules /\ rules[p].ruleId = rule.ruleId
  BY PositionIsThere
<1>2. rule \in Storable
  BY DEF Storable
<1> HIDE DEF p
<1>3. put \in Seq(Storable) /\ UniqueIds(put) /\ Ids(put) = Ids(rules)
      /\ \A i \in DOMAIN put : SkRuleValidate(put[i])
  BY <1>1, <1>2, PutIsUnique
<1> HIDE DEF put
<1>4. Good(SkSortRules(put)) /\ Ids(SkSortRules(put)) = Ids(put)
  BY <1>3, SortedIsGood
<1>5. QED
  BY <1>3, <1>4 DEF p, put

\* SkRuleStoreSetEnabled keeps the order: it looks at no field that it changes.
LEMMA SwitchIsGood ==
  ASSUME NEW rules, Good(rules), NEW p \in DOMAIN rules, NEW e \in BOOLEAN
  PROVE  LET new == [rules EXCEPT ![p].enabled = e]
         IN Good(new) /\ Ids(new) = Ids(rules)
<1> DEFINE rule == [rules[p] EXCEPT !.enabled = e]
           new == [rules EXCEPT ![p] = rule]
<1>1. rules \in Seq(Storable) /\ rules[p] \in Storable /\ SkRuleValidate(rules[p])
  BY GoodDomain DEF Good
<1>2. rule \in Storable /\ (\A f \in Fields : rule[f] = rules[p][f]) /\ SkRuleValidate(rule)
  BY <1>1, SwitchedRule
<1> HIDE DEF rule
<1>3. rule.ruleId = rules[p].ruleId /\ rule.priority = rules[p].priority
      /\ rule.action = rules[p].action
  BY <1>2 DEF Fields
<1>4. /\ new \in Seq(Storable) /\ UniqueIds(new) /\ Ids(new) = Ids(rules)
      /\ DOMAIN new = DOMAIN rules
      /\ \A i \in DOMAIN rules : new[i] = IF i = p THEN rule ELSE rules[i]
      /\ \A i \in DOMAIN new : SkRuleValidate(new[i])
  BY <1>2, <1>3, PutIsUnique
<1> HIDE DEF new
<1>5. Sorted(new)
  <2> SUFFICES ASSUME NEW i \in DOMAIN rules, NEW j \in DOMAIN rules, i < j
               PROVE  SkRulePrecedes(new[i], new[j])
    BY <1>4 DEF Sorted
  <2>1. SkRulePrecedes(rules[i], rules[j])
    BY DEF Good, Sorted
  <2>2. \A k \in DOMAIN rules : new[k].ruleId = rules[k].ruleId
          /\ new[k].priority = rules[k].priority /\ new[k].action = rules[k].action
    BY <1>3, <1>4
  <2>3. QED
    BY <2>1, <2>2 DEF SkRulePrecedes
<1>6. QED
  BY <1>4, <1>5 DEF Good, new, rule

\* SkRuleStoreDelete keeps the order, and its rule is gone.
LEMMA DeleteIsGood ==
  ASSUME NEW rules, Good(rules), NEW p \in DOMAIN rules
  PROVE  LET new == RemoveAt(rules, p)
         IN Good(new) /\ Ids(new) = Ids(rules) \ {rules[p].ruleId}
<1> DEFINE n == Len(rules)
           new == RemoveAt(rules, p)
           old(i) == IF i < p THEN i ELSE i + 1
<1>1. rules \in Seq(Storable) /\ n \in Nat /\ DOMAIN rules = 1 .. n
  BY GoodDomain DEF Good
<1>2. new \in Seq(Storable) /\ DOMAIN new = 1 .. n - 1
      /\ \A i \in 1 .. n - 1 : new[i] = rules[old(i)]
  <2>1. \A i \in 1 .. n - 1 : new[i] = IF i < p THEN rules[i] ELSE rules[i + 1]
    BY <1>1, RemoveAtShape
  <2>2. QED
    BY <1>1, <2>1, RemoveAtShape
<1> HIDE DEF new
<1>3. \A i \in 1 .. n - 1 : old(i) \in DOMAIN rules /\ old(i) # p
  BY <1>1
<1>4. \A i, j \in 1 .. n - 1 : i < j => old(i) < old(j)
  BY <1>1
<1>5. \A k \in DOMAIN rules : k # p => \E i \in 1 .. n - 1 : k = old(i)
  <2> SUFFICES ASSUME NEW k \in DOMAIN rules, k # p PROVE \E i \in 1 .. n - 1 : k = old(i)
    OBVIOUS
  <2>1. CASE k < p
    BY <1>1, <2>1
  <2>2. CASE ~(k < p)
    <3>1. k - 1 \in 1 .. n - 1 /\ old(k - 1) = k
      BY <1>1, <2>2
    <3>2. QED
      BY <3>1
  <2>3. QED
    BY <2>1, <2>2
<1> HIDE DEF old
<1>6. Sorted(new)
  BY <1>2, <1>3, <1>4 DEF Good, Sorted
<1>7. UniqueIds(new)
  <2> SUFFICES ASSUME NEW i \in 1 .. n - 1, NEW j \in 1 .. n - 1,
                      new[i].ruleId = new[j].ruleId, i # j
               PROVE  FALSE
    BY <1>2 DEF UniqueIds
  <2>1. old(i) = old(j)
    <3>1. old(i) \in DOMAIN rules /\ old(j) \in DOMAIN rules
      BY <1>3
    <3>2. rules[old(i)].ruleId = rules[old(j)].ruleId
      BY <1>2
    <3>3. UniqueIds(rules)
      BY DEF Good
    <3>4. QED
      BY <3>1, <3>2, <3>3 DEF UniqueIds
  <2>2. old(i) \in Int /\ old(j) \in Int /\ (i < j \/ j < i)
    BY <1>1, <1>3
  <2>3. QED
    BY <1>4, <2>1, <2>2
<1>8. \A i \in DOMAIN new : SkRuleValidate(new[i])
  BY <1>2, <1>3 DEF Good
<1>9. Ids(new) = Ids(rules) \ {rules[p].ruleId}
  <2>1. ASSUME NEW i \in DOMAIN new
        PROVE  new[i].ruleId \in Ids(rules) \ {rules[p].ruleId}
    BY <1>2, <1>3 DEF Good, UniqueIds, Ids
  <2>2. ASSUME NEW k \in DOMAIN rules, rules[k].ruleId # rules[p].ruleId
        PROVE  rules[k].ruleId \in Ids(new)
    <3>1. PICK i \in 1 .. n - 1 : k = old(i)
      BY <1>5, <2>2
    <3>2. QED
      BY <1>2, <3>1 DEF Ids
  <2>3. QED
    BY <2>1, <2>2 DEF Ids
<1>10. QED
  BY <1>2, <1>6, <1>7, <1>8, <1>9 DEF Good, new

-----------------------------------------------------------------------------
(***************************************************************************)
(* The types, with what the arrays and the locals hold.                    *)
(***************************************************************************)
\* A rule in force as a limit.
LimitInForce(rule) == rule \in Storable /\ SkRuleValidate(rule) /\ rule.action = "RateLimit"

EvaluatorOK(e) ==
  /\ e.at \in {"idle", "limit"} /\ e.stale \in BOOLEAN /\ e.life \in Nat /\ e.since \in Nat
  /\ e.at = "limit" => LimitInForce(e.hit)

ArraysOK == (published # None => Good(published)) /\ (previous # None => Good(previous))

TableOK ==
  /\ g_RateTable \in [1 .. RateSlots -> SlotType]
  /\ \A i \in 1 .. RateSlots : g_RateTable[i].inUse => LimitsOf(g_RateTable[i].ruleId) # {}

LocalsOK ==
  /\ eval = [t \in Evaluators |-> eval[t]]
  /\ \A t \in Evaluators : EvaluatorOK(eval[t])
       /\ eval[t] = [at |-> eval[t].at, hit |-> eval[t].hit, stale |-> eval[t].stale,
                     life |-> eval[t].life, since |-> eval[t].since]

TypeInv ==
  /\ ArraysOK
  /\ version \in Nat /\ clock \in Nat /\ pending \subseteq RuleIds /\ ended \in [RuleIds -> Nat]
  /\ TableOK /\ LocalsOK

LEMMA TypeInvImpliesTypeOK == TypeInv => TypeOK
<1> SUFFICES ASSUME TypeInv PROVE TypeOK
  OBVIOUS
<1>1. ASSUME published # None
      PROVE  (\A r \in Stored(published) : SkRuleValidate(r)) /\ UniqueIds(published)
  BY <1>1 DEF TypeInv, ArraysOK, Good, Stored
<1>2. ASSUME NEW t \in Evaluators
      PROVE  /\ eval[t].at \in {"idle", "limit"} /\ eval[t].stale \in BOOLEAN
             /\ eval[t].life \in Nat /\ eval[t].since \in Nat
             /\ eval[t].at = "limit" => eval[t].hit.ruleId \in RuleIds
  BY StoredIsCandidate DEF TypeInv, LocalsOK, EvaluatorOK, LimitInForce
<1>3. QED
  BY <1>1, <1>2 DEF TypeOK, TypeInv, TableOK

\* The limits that a bucket may have been made for contain the one in force.
LEMMA LimitIsCandidate ==
  ASSUME NEW rule, LimitInForce(rule)
  PROVE  /\ \E c \in LimitsOf(rule.ruleId) :
              c.burst = rule.burst /\ c.rateTokens = rule.rateTokens
                /\ c.rateIntervalMs = rule.rateIntervalMs
         /\ rule.ruleId \in RuleIds /\ rule.ruleId \in Nat /\ rule.burst \in Nat
         /\ rule.rateTokens \in Nat /\ rule.rateIntervalMs \in Nat \ {0}
<1>1. PICK c \in Candidates : \A f \in Fields : rule[f] = c[f]
  BY StoredIsCandidate DEF LimitInForce
<1>2. c.ruleId = rule.ruleId /\ c.cond = rule.cond /\ c.action = rule.action
      /\ c.burst = rule.burst /\ c.rateTokens = rule.rateTokens
      /\ c.rateIntervalMs = rule.rateIntervalMs
  BY <1>1 DEF Fields
<1>3. SkRuleValidate(c)
  BY <1>2 DEF LimitInForce, SkRuleValidate
<1>4. c \in LimitsOf(rule.ruleId)
  BY <1>2, <1>3 DEF LimitsOf, LimitInForce
<1>5. rule.rateIntervalMs # 0
  BY DEF LimitInForce, SkRuleValidate
<1>6. QED
  BY <1>2, <1>4, <1>5, StoredIsCandidate DEF LimitInForce, Rankable

LEMMA InitTypes == Init => TypeInv
<1> SUFFICES ASSUME Init PROVE TypeInv
  OBVIOUS
<1> USE DEF Init
<1>1. ArraysOK
  BY EmptyIsGood DEF ArraysOK
<1>2. TableOK
  BY DEF TableOK, FreeSlot, SlotType
<1>3. LocalsOK
  BY DEF LocalsOK, EvaluatorOK, Idle
<1>4. QED
  BY <1>1, <1>2, <1>3 DEF TypeInv

-----------------------------------------------------------------------------
(***************************************************************************)
(* The steps, each by what the invariants need to know of it.              *)
(***************************************************************************)
\* A write: what it publishes is in order, it starts with no reset to do, and it has a
\* reset to do for every rule whose life it ends.
LEMMA WriteShape ==
  ASSUME TypeInv, Write
  PROVE  /\ published # None /\ pending = {}
         /\ Good(published') /\ (previous' # None => Good(previous'))
         /\ version' = version + 1 /\ pending' \subseteq RuleIds
         /\ ended' \in [RuleIds -> Nat]
         /\ \A id \in RuleIds : id \notin pending' => ended'[id] = ended[id]
         /\ eval' = [t \in Evaluators |-> [eval[t] EXCEPT !.stale = eval[t].at = "limit"]]
         /\ UNCHANGED <<clock, g_RateTable>>
<1> DEFINE Goal == /\ Good(published') /\ (previous' # None => Good(previous'))
                   /\ version' = version + 1 /\ pending' \subseteq RuleIds
                   /\ ended' \in [RuleIds -> Nat]
                   /\ \A id \in RuleIds : id \notin pending' => ended'[id] = ended[id]
                   /\ eval' = [t \in Evaluators |->
                                 [eval[t] EXCEPT !.stale = eval[t].at = "limit"]]
                   /\ UNCHANGED <<clock, g_RateTable>>
<1>1. published # None /\ pending = {} /\ Good(published) /\ ended \in [RuleIds -> Nat]
      /\ (previous # None => Good(previous))
  BY DEF Write, Writable, TypeInv, ArraysOK
<1>2. \A rules : Good(rules) => Ids(rules) \subseteq RuleIds
  <2> SUFFICES ASSUME NEW rules, Good(rules), NEW i \in DOMAIN rules
               PROVE  rules[i].ruleId \in RuleIds
    BY DEF Ids
  <2>1. rules[i] \in Storable
    BY GoodDomain DEF Good
  <2>2. QED
    BY <2>1, StoredIsCandidate
<1>3. ASSUME NEW rules, Good(rules), NEW own \in SUBSET RuleIds, Publish(rules, own),
             NEW ids \in SUBSET pending', Ends(ids), previous' = None \/ previous' = published
      PROVE  Goal
  <2>1. pending' \subseteq RuleIds
    BY <1>1, <1>2, <1>3 DEF Publish
  <2>2. ended' \in [RuleIds -> Nat]
    BY <1>1, <1>3 DEF Ends
  <2>3. \A id \in RuleIds : id \notin pending' => ended'[id] = ended[id]
    BY <1>3 DEF Ends
  <2>4. QED
    BY <1>1, <1>3, <2>1, <2>2, <2>3 DEF Publish
<1>4. ASSUME UNCHANGED ended PROVE Ends({})
  <2>1. ended = [id \in RuleIds |-> ended[id]]
    BY <1>1
  <2>2. QED
    BY <1>4, <2>1 DEF Ends
<1> HIDE DEF Goal
<1>5. ASSUME NEW rule \in Candidates, SkRuleStoreAdd(rule) PROVE Goal
  <2>1. Good(SkSortRules(Append(published, rule)))
    BY <1>1, <1>5, AddIsGood DEF SkRuleStoreAdd
  <2>2. {rule.ruleId} \in SUBSET RuleIds
    BY DEF RuleIds
  <2>3. {rule.ruleId} \in SUBSET pending'
    BY <1>5 DEF SkRuleStoreAdd, Publish
  <2>4. QED
    BY <1>3, <1>5, <2>1, <2>2, <2>3 DEF SkRuleStoreAdd
<1>6. ASSUME NEW rule \in Candidates, SkRuleStoreUpdate(rule) PROVE Goal
  <2>1. Good(SkSortRules([published EXCEPT ![Position(rule.ruleId)] = rule]))
    BY <1>1, <1>6, UpdateIsGood DEF SkRuleStoreUpdate, Position, PositionIn
  <2>2. QED
    BY <1>3, <1>4, <1>6, <2>1 DEF SkRuleStoreUpdate
<1>7. ASSUME NEW id \in RuleIds, SkRuleStoreDelete(id) PROVE Goal
  <2>1. Position(id) \in DOMAIN published /\ published[Position(id)].ruleId = id
    BY <1>7, PositionIsThere DEF SkRuleStoreDelete, Position, PositionIn
  <2>2. Good(RemoveAt(published, Position(id)))
        /\ Ids(RemoveAt(published, Position(id))) = Ids(published) \ {id}
    BY <1>1, <2>1, DeleteIsGood
  <2>3. pending' = Ids(published) \ Ids(RemoveAt(published, Position(id)))
    BY <1>7 DEF SkRuleStoreDelete, Publish
  <2>4. {id} \in SUBSET pending'
    BY <1>7, <2>2, <2>3 DEF SkRuleStoreDelete
  <2>5. QED
    BY <1>3, <1>7, <2>2, <2>4 DEF SkRuleStoreDelete
<1>8. ASSUME NEW id \in RuleIds, NEW enabled \in BOOLEAN, SkRuleStoreSetEnabled(id, enabled)
      PROVE  Goal
  <2> DEFINE new == [published EXCEPT ![Position(id)].enabled = enabled]
             own == IF enabled THEN {} ELSE {id}
  <2>1. Position(id) \in DOMAIN published
    BY <1>8, PositionIsThere DEF SkRuleStoreSetEnabled, Position, PositionIn
  <2>2. Good(new)
    BY <1>1, <2>1, SwitchIsGood
  <2>3. own \in SUBSET RuleIds /\ Publish(new, own) /\ previous' = published
    BY <1>8 DEF SkRuleStoreSetEnabled
  <2>4. own \in SUBSET pending'
    BY <2>3 DEF Publish
  <2>5. Ends(own)
    BY <1>4, <1>8 DEF SkRuleStoreSetEnabled
  <2> HIDE DEF new, own
  <2>6. QED
    BY <1>3, <2>2, <2>3, <2>4, <2>5
<1>9. ASSUME NEW rules, Good(rules), Publish(rules, {}), Removes(rules),
             previous' = None \/ previous' = published
      PROVE  Goal
  <2>1. Ids(published) \ Ids(rules) \in SUBSET pending'
    BY <1>9 DEF Publish
  <2>2. QED
    BY <1>3, <1>9, <2>1 DEF Removes
<1>10. ASSUME NEW rules \in UNION {[1 .. n -> Candidates] : n \in 0 .. SK_RULE_MAX},
              SkRuleStoreReplace(rules)
       PROVE  Goal
  <2>1. rules \in Seq(Storable)
    <3>1. PICK n \in 0 .. SK_RULE_MAX : rules \in [1 .. n -> Candidates]
      OBVIOUS
    <3>2. n \in Nat /\ rules \in [1 .. n -> Storable]
      BY <3>1, EngineAssumption DEF Storable
    <3>3. QED
      BY <3>2, SeqDef
  <2>2. Good(SkSortRules(rules)) /\ Ids(SkSortRules(rules)) = Ids(rules)
    BY <1>10, <2>1, SortedIsGood DEF SkRuleStoreReplace
  <2>3. Removes(SkSortRules(rules))
    BY <1>10, <2>2 DEF SkRuleStoreReplace, Removes
  <2>4. QED
    BY <1>9, <1>10, <2>2, <2>3 DEF SkRuleStoreReplace
<1>11. ASSUME SkRuleStoreClear PROVE Goal
  BY <1>9, <1>11, EmptyIsGood DEF SkRuleStoreClear
<1>12. ASSUME SkRuleStoreRollback PROVE Goal
  BY <1>1, <1>9, <1>12 DEF SkRuleStoreRollback
<1>13. Goal
  BY <1>5, <1>6, <1>7, <1>8, <1>10, <1>11, <1>12 DEF Write
<1>14. QED
  BY <1>1, <1>13 DEF Goal

\* First is a choice among the slots.
LEMMA FirstIsOne ==
  ASSUME NEW S \in SUBSET Nat
  PROVE  /\ S = {} => First(S) = {}
         /\ S # {} => \E i \in S : First(S) = {i}
<1>1. S # {} => \E i \in S : \A j \in S : i <= j
  BY LeastElement
<1>2. QED
  BY <1>1 DEF First

\* Time does not run backwards in a division.
LEMMA WholeIntervals ==
  ASSUME NEW a \in Nat, NEW b \in Nat \ {0}
  PROVE  a \div b \in Nat /\ (a \div b) * b <= a
  OBVIOUS

LEMMA Wrapped ==
  ASSUME NEW a \in Nat
  PROVE  a % Modulus \in Nat /\ a % Modulus <= a
<1>1. Modulus \in Nat \ {0}
  BY EngineAssumption
<1>2. QED
  BY <1>1

\* What of a bucket no spending changes.
SameBucket(b, c) ==
  /\ b.inUse = c.inUse /\ b.ruleId = c.ruleId /\ b.life = c.life /\ b.late = c.late
  /\ b.born = c.born /\ b.made = c.made

\* A refill adds the tokens of some whole intervals that have passed, capped by the burst.
LEMMA RefillShape ==
  ASSUME NEW b \in SlotType, NEW rule, LimitInForce(rule), NEW now \in Nat
  PROVE  LET c == Refill(b, rule, now)
         IN /\ c \in SlotType /\ SameBucket(b, c) /\ c.admitted = b.admitted
            /\ \/ c = b
               \/ /\ c.tokens <= rule.burst /\ c.lastRefillMs <= now
                  /\ \E k \in Nat : /\ c.tokens <= b.tokens + k * rule.rateTokens
                                    /\ c.lastRefillMs = b.lastRefillMs + k * rule.rateIntervalMs
<1> DEFINE k == (now - b.lastRefillMs) \div rule.rateIntervalMs
           added == (k * rule.rateTokens) % Modulus
           sum == (b.tokens + added) % Modulus
           tokens == IF sum > rule.burst THEN rule.burst ELSE sum
           last == b.lastRefillMs + k * rule.rateIntervalMs
           new == [b EXCEPT !.tokens = tokens, !.lastRefillMs = @ + k * rule.rateIntervalMs]
<1>1. rule.burst \in Nat /\ rule.rateTokens \in Nat /\ rule.rateIntervalMs \in Nat \ {0}
  BY LimitIsCandidate
<1>2. b.tokens \in Nat /\ b.lastRefillMs \in Nat
  BY DEF SlotType
<1>3. CASE now > b.lastRefillMs
  <2>1. k \in Nat /\ k * rule.rateIntervalMs <= now - b.lastRefillMs
    <3>1. now - b.lastRefillMs \in Nat
      BY <1>2, <1>3
    <3>2. QED
      BY <1>1, <3>1, WholeIntervals
  <2> HIDE DEF k
  <2>2. k * rule.rateTokens \in Nat /\ k * rule.rateIntervalMs \in Nat
    BY <1>1, <2>1
  <2>3. added \in Nat /\ added <= k * rule.rateTokens
    BY <2>2, Wrapped
  <2> HIDE DEF added
  <2>4. sum \in Nat /\ sum <= b.tokens + added
    <3>1. b.tokens + added \in Nat
      BY <1>2, <2>3
    <3>2. QED
      BY <3>1, Wrapped
  <2> HIDE DEF sum
  <2>5. tokens \in Nat /\ tokens <= rule.burst /\ tokens <= b.tokens + k * rule.rateTokens
    BY <1>1, <1>2, <2>2, <2>3, <2>4
  <2>6. last \in Nat /\ last <= now
    BY <1>2, <2>1, <2>2
  <2> HIDE DEF tokens
  <2>7. new \in SlotType /\ SameBucket(b, new) /\ new.admitted = b.admitted
        /\ new.tokens = tokens /\ new.lastRefillMs = last
    BY <2>5, <2>6 DEF SlotType, SameBucket
  <2>8. Refill(b, rule, now) = new \/ Refill(b, rule, now) = b
    BY DEF Refill, k, added, sum, tokens
  <2>9. SameBucket(b, b)
    BY DEF SameBucket
  <2> HIDE DEF new, last
  <2>10. QED
    BY <2>1, <2>5, <2>6, <2>7, <2>8, <2>9 DEF last
<1>4. CASE ~(now > b.lastRefillMs)
  <2>1. Refill(b, rule, now) = b
    BY <1>4 DEF Refill
  <2>2. QED
    BY <2>1 DEF SameBucket
<1>5. QED
  BY <1>3, <1>4

LEMMA SpendShape ==
  ASSUME NEW b \in SlotType
  PROVE  LET c == Spend(b)
         IN /\ c \in SlotType /\ SameBucket(b, c) /\ c.lastRefillMs = b.lastRefillMs
            /\ c.tokens <= b.tokens /\ c.admitted + c.tokens = b.admitted + b.tokens
<1> DEFINE new == [b EXCEPT !.tokens = @ - 1, !.admitted = @ + 1]
<1>1. b.tokens \in Nat /\ b.admitted \in Nat
  BY DEF SlotType
<1>2. CASE b.tokens > 0
  <2>1. b.tokens - 1 \in Nat /\ b.admitted + 1 \in Nat
    BY <1>1, <1>2
  <2>2. new \in SlotType /\ SameBucket(b, new) /\ new.lastRefillMs = b.lastRefillMs
        /\ new.tokens = b.tokens - 1 /\ new.admitted = b.admitted + 1
    BY <2>1 DEF SlotType, SameBucket
  <2>3. Spend(b) = new
    BY <1>2 DEF Spend
  <2> HIDE DEF new
  <2>4. QED
    BY <1>1, <2>2, <2>3
<1>3. CASE ~(b.tokens > 0)
  BY <1>1, <1>3 DEF Spend, SameBucket
<1>4. QED
  BY <1>2, <1>3

\* The section of SkRateAllow, unless the table is full: a bucket of the rule of the
\* evaluator, the one there is or a new one in a slot that was free, refilled and spent from.
LEMMA AllowShape ==
  ASSUME TypeInv, NEW t \in Evaluators, NEW now \in eval[t].since .. clock, SkRateAllow(t, now)
  PROVE  /\ eval' = [eval EXCEPT ![t] = Idle] /\ UNCHANGED <<writerVars, clock>>
         /\ now \in Nat /\ now <= clock /\ LimitInForce(eval[t].hit)
         /\ \/ UNCHANGED g_RateTable
            \/ \E i \in 1 .. RateSlots, b \in SlotType :
                 /\ \/ b = g_RateTable[i] /\ b.inUse /\ b.ruleId = eval[t].hit.ruleId
                    \/ /\ b = NewBucket(t, now) /\ ~g_RateTable[i].inUse
                       /\ SlotsOf(eval[t].hit.ruleId) = {}
                 /\ g_RateTable' =
                      [g_RateTable EXCEPT ![i] = Spend(Refill(b, eval[t].hit, now))]
<1> DEFINE rule == eval[t].hit
           slots == FindSlot(rule.ruleId)
           found(i) == IF g_RateTable[i].inUse THEN g_RateTable[i] ELSE NewBucket(t, now)
<1>1. LimitInForce(rule) /\ eval[t].life \in Nat /\ eval[t].stale \in BOOLEAN
      /\ eval[t].since \in Nat /\ clock \in Nat
  BY DEF SkRateAllow, TypeInv, LocalsOK, EvaluatorOK
<1>2. now \in Nat /\ now <= clock
  BY <1>1
<1>3. eval' = [eval EXCEPT ![t] = Idle] /\ UNCHANGED <<writerVars, clock>>
  BY DEF SkRateAllow, Set
<1>4. g_RateTable \in [1 .. RateSlots -> SlotType] /\ DOMAIN g_RateTable = 1 .. RateSlots
      /\ 1 .. RateSlots \subseteq Nat
  BY EngineAssumption DEF TypeInv, TableOK
<1>5. UNCHANGED g_RateTable
        \/ \E i \in slots :
             g_RateTable' = [g_RateTable EXCEPT ![i] = Spend(Refill(found(i), rule, now))]
  BY DEF SkRateAllow
<1>6. ASSUME NEW i \in slots
      PROVE  /\ i \in 1 .. RateSlots /\ found(i) \in SlotType
             /\ \/ found(i) = g_RateTable[i] /\ found(i).inUse /\ found(i).ruleId = rule.ruleId
                \/ /\ found(i) = NewBucket(t, now) /\ ~g_RateTable[i].inUse
                   /\ SlotsOf(rule.ruleId) = {}
  <2> DEFINE free == {j \in DOMAIN g_RateTable : ~g_RateTable[j].inUse}
  <2>1. SlotsOf(rule.ruleId) \in SUBSET Nat /\ free \in SUBSET Nat
    BY <1>4 DEF SlotsOf
  <2>2. \/ i \in SlotsOf(rule.ruleId)
        \/ i \in free /\ SlotsOf(rule.ruleId) = {}
    <3> HIDE DEF free
    <3>1. CASE SlotsOf(rule.ruleId) # {}
      <4>1. i \in First(SlotsOf(rule.ruleId))
        BY <3>1 DEF FindSlot
      <4>2. QED
        BY <2>1, <3>1, <4>1, FirstIsOne
    <3>2. CASE SlotsOf(rule.ruleId) = {}
      <4>1. i \in First(free)
        BY <3>2 DEF FindSlot, free
      <4>2. QED
        BY <2>1, <3>2, <4>1, FirstIsOne
    <3>3. QED
      BY <3>1, <3>2
  <2>3. CASE i \in SlotsOf(rule.ruleId)
    BY <1>4, <2>3 DEF SlotsOf
  <2>4. CASE i \in free /\ SlotsOf(rule.ruleId) = {}
    <3>1. NewBucket(t, now) \in SlotType
      <4>1. ended[rule.ruleId] \in Nat
        BY <1>1, LimitIsCandidate DEF TypeInv
      <4>2. QED
        BY <1>1, <1>2, <4>1, LimitIsCandidate DEF NewBucket, SlotType
    <3>2. QED
      BY <1>4, <2>4, <3>1
  <2>5. QED
    BY <2>2, <2>3, <2>4
<1> HIDE DEF slots, found
<1>7. CASE UNCHANGED g_RateTable
  BY <1>1, <1>2, <1>3, <1>7
<1>8. ASSUME NEW i \in slots,
             g_RateTable' = [g_RateTable EXCEPT ![i] = Spend(Refill(found(i), rule, now))]
      PROVE  \E j \in 1 .. RateSlots, b \in SlotType :
               /\ \/ b = g_RateTable[j] /\ b.inUse /\ b.ruleId = rule.ruleId
                  \/ /\ b = NewBucket(t, now) /\ ~g_RateTable[j].inUse
                     /\ SlotsOf(rule.ruleId) = {}
               /\ g_RateTable' = [g_RateTable EXCEPT ![j] = Spend(Refill(b, rule, now))]
  BY <1>6, <1>8
<1>9. QED
  BY <1>1, <1>2, <1>3, <1>5, <1>7, <1>8

\* What the refill and the spending leave of it.
LEMMA PutShape ==
  ASSUME NEW b \in SlotType, NEW rule, LimitInForce(rule), NEW now \in Nat
  PROVE  LET c == Spend(Refill(b, rule, now)) IN c \in SlotType /\ SameBucket(b, c)
<1>1. Refill(b, rule, now) \in SlotType /\ SameBucket(b, Refill(b, rule, now))
  BY RefillShape
<1>2. Spend(Refill(b, rule, now)) \in SlotType
      /\ SameBucket(Refill(b, rule, now), Spend(Refill(b, rule, now)))
  BY <1>1, SpendShape
<1>3. QED
  BY <1>1, <1>2 DEF SameBucket

\* A reset frees the first slot of a rule that was pending.
LEMMA ResetShape ==
  ASSUME TypeInv, SkRuleRateReset
  PROVE  \E id \in pending :
           /\ pending' = pending \ {id}
           /\ UNCHANGED <<published, previous, version, ended, clock, eval>>
           /\ g_RateTable' \in [1 .. RateSlots -> SlotType]
           /\ \A i \in 1 .. RateSlots :
                g_RateTable'[i].inUse => g_RateTable'[i] = g_RateTable[i]
           /\ SlotsOf(id) # {} => \E i \in SlotsOf(id) : ~g_RateTable'[i].inUse
<1>1. PICK id \in pending :
        /\ g_RateTable' = [i \in DOMAIN g_RateTable |->
                             IF i \in First(SlotsOf(id)) THEN FreeSlot ELSE g_RateTable[i]]
        /\ pending' = pending \ {id}
        /\ UNCHANGED <<published, previous, version, ended, clock, eval>>
  BY DEF SkRuleRateReset
<1>2. g_RateTable \in [1 .. RateSlots -> SlotType] /\ DOMAIN g_RateTable = 1 .. RateSlots
      /\ 1 .. RateSlots \subseteq Nat
  BY EngineAssumption DEF TypeInv, TableOK
<1>3. FreeSlot \in SlotType /\ ~FreeSlot.inUse
  BY DEF FreeSlot, SlotType
<1>4. g_RateTable' \in [1 .. RateSlots -> SlotType]
  BY <1>1, <1>2, <1>3
<1>5. \A i \in 1 .. RateSlots : g_RateTable'[i].inUse => g_RateTable'[i] = g_RateTable[i]
  BY <1>1, <1>2, <1>3
<1>6. SlotsOf(id) # {} => \E i \in SlotsOf(id) : ~g_RateTable'[i].inUse
  <2>1. SlotsOf(id) \in SUBSET (1 .. RateSlots)
    BY <1>2 DEF SlotsOf
  <2>2. SlotsOf(id) # {} => \E i \in SlotsOf(id) : First(SlotsOf(id)) = {i}
    BY <1>2, <2>1, FirstIsOne
  <2>3. QED
    BY <1>1, <1>2, <1>3, <2>1, <2>2
<1>7. QED
  BY <1>1, <1>4, <1>5, <1>6

-----------------------------------------------------------------------------
(***************************************************************************)
(* Every step keeps the types.                                             *)
(***************************************************************************)
LEMMA EvaluatorSet ==
  ASSUME LocalsOK, NEW t \in Evaluators, NEW e, EvaluatorOK(e),
         e = [at |-> e.at, hit |-> e.hit, stale |-> e.stale, life |-> e.life,
              since |-> e.since],
         eval' = [eval EXCEPT ![t] = e]
  PROVE  LocalsOK'
<1>1. DOMAIN eval = Evaluators
  BY DEF LocalsOK
<1>2. \A u \in Evaluators : eval'[u] = IF u = t THEN e ELSE eval[u]
  BY <1>1
<1>3. eval' = [u \in Evaluators |-> eval'[u]]
  BY <1>1
<1>4. QED
  BY <1>2, <1>3 DEF LocalsOK

\* The scan of a good array stops at one of its rules, or at none.
LEMMA ScanIsThere ==
  ASSUME ArraysOK, NEW p, Scan(p) # 0
  PROVE  /\ published # None /\ Good(published) /\ Scan(p) \in DOMAIN published
         /\ Scan(p) = FirstMatch(published, BuildTuple(p, clock))
         /\ published[Scan(p)] \in Storable /\ SkRuleValidate(published[Scan(p)])
<1>1. published # None /\ Good(published)
      /\ Scan(p) = FirstMatch(published, BuildTuple(p, clock))
  BY DEF Scan, ArraysOK
<1>2. Scan(p) \in DOMAIN published
  BY <1>1, FirstMatchIsFirst DEF Good
<1>3. QED
  BY <1>1, <1>2, GoodDomain DEF Good

LEMMA NextTypes == TypeInv /\ [Next]_vars => TypeInv'
<1> SUFFICES ASSUME TypeInv, [Next]_vars PROVE TypeInv'
  OBVIOUS
<1>1. CASE Write
  <2>1. /\ published # None /\ Good(published') /\ (previous' # None => Good(previous'))
        /\ version' = version + 1 /\ pending' \subseteq RuleIds /\ ended' \in [RuleIds -> Nat]
        /\ eval' = [t \in Evaluators |-> [eval[t] EXCEPT !.stale = eval[t].at = "limit"]]
        /\ UNCHANGED <<clock, g_RateTable>>
    BY <1>1, WriteShape
  <2>2. LocalsOK'
    <3>1. eval' = [t \in Evaluators |-> eval'[t]]
      BY <2>1
    <3>2. ASSUME NEW t \in Evaluators
          PROVE  EvaluatorOK(eval'[t])
                 /\ eval'[t] = [at |-> eval'[t].at, hit |-> eval'[t].hit,
                                stale |-> eval'[t].stale, life |-> eval'[t].life,
                                since |-> eval'[t].since]
      <4>1. eval'[t] = [eval[t] EXCEPT !.stale = eval[t].at = "limit"]
        BY <2>1
      <4>2. EvaluatorOK(eval[t])
            /\ eval[t] = [at |-> eval[t].at, hit |-> eval[t].hit, stale |-> eval[t].stale,
                          life |-> eval[t].life, since |-> eval[t].since]
        BY DEF TypeInv, LocalsOK
      <4>3. eval'[t] = [at |-> eval[t].at, hit |-> eval[t].hit,
                        stale |-> eval[t].at = "limit", life |-> eval[t].life,
                        since |-> eval[t].since]
        BY <4>1, <4>2
      <4>4. QED
        BY <4>2, <4>3 DEF EvaluatorOK
    <3>3. QED
      BY <3>1, <3>2 DEF LocalsOK
  <2>3. TableOK'
    BY <2>1 DEF TypeInv, TableOK
  <2>4. QED
    BY <2>1, <2>2, <2>3 DEF TypeInv, ArraysOK
<1>2. CASE SkRuleRateReset
  <2>1. PICK id \in pending :
          /\ pending' = pending \ {id}
          /\ UNCHANGED <<published, previous, version, ended, clock, eval>>
          /\ g_RateTable' \in [1 .. RateSlots -> SlotType]
          /\ \A i \in 1 .. RateSlots :
               g_RateTable'[i].inUse => g_RateTable'[i] = g_RateTable[i]
    BY <1>2, ResetShape
  <2>2. TableOK'
    BY <2>1 DEF TypeInv, TableOK
  <2>3. QED
    BY <2>1, <2>2 DEF TypeInv, ArraysOK, LocalsOK
<1>3. CASE SkRuleStoreShutdown
  BY <1>3 DEF SkRuleStoreShutdown, TypeInv, ArraysOK, TableOK, LocalsOK
<1>4. CASE Tick
  BY <1>4 DEF Tick, writerVars, TypeInv, ArraysOK, TableOK, LocalsOK
<1>5. ASSUME NEW t \in Evaluators, NEW p \in Packets, Classify(t, p) PROVE TypeInv'
  <2> DEFINE hit == published[Scan(p)]
             e == [at |-> "limit", hit |-> hit, stale |-> FALSE, life |-> ended[hit.ruleId],
                   since |-> clock]
  <2>1. Scan(p) # 0 /\ hit.action = "RateLimit" /\ eval' = [eval EXCEPT ![t] = e]
        /\ UNCHANGED <<writerVars, clock, g_RateTable>>
    BY <1>5 DEF Classify, Set
  <2>2. LimitInForce(hit)
    BY <2>1, ScanIsThere DEF LimitInForce, TypeInv
  <2>3. ended[hit.ruleId] \in Nat
    BY <2>2, LimitIsCandidate DEF TypeInv
  <2>4. EvaluatorOK(e) /\ e = [at |-> e.at, hit |-> e.hit, stale |-> e.stale,
                                life |-> e.life, since |-> e.since]
    BY <2>2, <2>3 DEF EvaluatorOK, TypeInv
  <2> HIDE DEF e
  <2>5. LocalsOK'
    BY <2>1, <2>4, EvaluatorSet DEF TypeInv
  <2>6. QED
    BY <2>1, <2>5 DEF writerVars, TypeInv, ArraysOK, TableOK
<1>6. ASSUME NEW t \in Evaluators, NEW now \in eval[t].since .. clock, SkRateAllow(t, now)
      PROVE  TypeInv'
  <2>1. /\ eval' = [eval EXCEPT ![t] = Idle] /\ UNCHANGED <<writerVars, clock>>
        /\ now \in Nat /\ LimitInForce(eval[t].hit)
        /\ \/ UNCHANGED g_RateTable
           \/ \E i \in 1 .. RateSlots, b \in SlotType :
                /\ \/ b = g_RateTable[i] /\ b.ruleId = eval[t].hit.ruleId
                   \/ b = NewBucket(t, now)
                /\ g_RateTable' =
                     [g_RateTable EXCEPT ![i] = Spend(Refill(b, eval[t].hit, now))]
    BY <1>6, AllowShape
  <2>2. EvaluatorOK(Idle) /\ Idle = [at |-> Idle.at, hit |-> Idle.hit, stale |-> Idle.stale,
                                     life |-> Idle.life, since |-> Idle.since]
    BY DEF EvaluatorOK, Idle
  <2>3. LocalsOK'
    BY <2>1, <2>2, EvaluatorSet DEF TypeInv
  <2>4. TableOK'
    <3>1. CASE UNCHANGED g_RateTable
      BY <3>1 DEF TypeInv, TableOK
    <3>2. ASSUME NEW i \in 1 .. RateSlots, NEW b \in SlotType,
                 \/ b = g_RateTable[i] /\ b.ruleId = eval[t].hit.ruleId
                 \/ b = NewBucket(t, now),
                 g_RateTable' = [g_RateTable EXCEPT ![i] = Spend(Refill(b, eval[t].hit, now))]
          PROVE  TableOK'
      <4> DEFINE c == Spend(Refill(b, eval[t].hit, now))
      <4>1. c \in SlotType /\ c.ruleId = b.ruleId
        BY <2>1, PutShape DEF SameBucket
      <4>2. b.ruleId = eval[t].hit.ruleId
        BY <3>2 DEF NewBucket
      <4>3. LimitsOf(b.ruleId) # {}
        BY <2>1, <4>2, LimitIsCandidate
      <4> HIDE DEF c
      <4>4. g_RateTable' = [g_RateTable EXCEPT ![i] = c]
        BY <3>2 DEF c
      <4>5. g_RateTable' \in [1 .. RateSlots -> SlotType]
            /\ \A j \in 1 .. RateSlots : g_RateTable'[j] = IF j = i THEN c ELSE g_RateTable[j]
        BY <4>1, <4>4 DEF TypeInv, TableOK
      <4>6. \A j \in 1 .. RateSlots :
              g_RateTable'[j].inUse => LimitsOf(g_RateTable'[j].ruleId) # {}
        BY <4>1, <4>3, <4>5 DEF TypeInv, TableOK
      <4>7. QED
        BY <4>5, <4>6 DEF TableOK
    <3>3. QED
      BY <2>1, <3>1, <3>2
  <2>5. QED
    BY <2>1, <2>3, <2>4 DEF writerVars, TypeInv, ArraysOK
<1>7. CASE UNCHANGED vars
  BY <1>7 DEF vars, writerVars, TypeInv, ArraysOK, TableOK, LocalsOK
<1>8. QED
  BY <1>1, <1>2, <1>3, <1>4, <1>5, <1>6, <1>7 DEF Next, Evaluate

\* The globals and the locals keep their types, and whatever the writes, the rules that a
\* reader sees are valid and have different identifiers.
THEOREM EngineTypeCorrect == Spec => []TypeOK
<1>1. Spec => []TypeInv
  BY InitTypes, NextTypes, PTL DEF Spec
<1>2. QED
  BY <1>1, TypeInvImpliesTypeOK, PTL

\* After any sequence of writes the scan of SkRuleEvaluate stops at the strongest of the
\* published rules that match.
ScanIsStrongest ==
  published # None =>
    \A p \in Packets, r \in Stored(published) :
      SkRuleMatch(r, BuildTuple(p, clock)) =>
        /\ Scan(p) # 0 /\ SkRuleMatch(published[Scan(p)], BuildTuple(p, clock))
        /\ r = published[Scan(p)] \/ SkRulePrecedes(published[Scan(p)], r)

\* Whatever Add, Update, Replace, Delete and the rollback made of the array, the rule at which
\* SkRuleEvaluate stops precedes every other rule that matches.
THEOREM StrongestDecides == Spec => []ScanIsStrongest
<1>1. TypeInv => ScanIsStrongest
  <2> SUFFICES ASSUME TypeInv, published # None, NEW p \in Packets,
                      NEW j \in DOMAIN published,
                      SkRuleMatch(published[j], BuildTuple(p, clock))
               PROVE  /\ Scan(p) # 0 /\ SkRuleMatch(published[Scan(p)], BuildTuple(p, clock))
                      /\ published[j] = published[Scan(p)]
                           \/ SkRulePrecedes(published[Scan(p)], published[j])
    BY DEF ScanIsStrongest, Stored
  <2> DEFINE tuple == BuildTuple(p, clock)
  <2>1. published \in Seq(Storable) /\ Sorted(published)
    BY DEF TypeInv, ArraysOK, Good
  <2>2. Scan(p) = FirstMatch(published, tuple)
    BY DEF Scan
  <2> HIDE DEF tuple
  <2>3. SkRuleMatch(published[j], tuple)
    BY DEF tuple
  <2>4. FirstMatch(published, tuple) # 0
    BY <2>1, <2>3, FirstMatchIsFirst
  <2>5. SkRuleMatch(published[FirstMatch(published, tuple)], tuple)
    BY <2>1, <2>4, FirstMatchIsFirst
  <2>6. j = FirstMatch(published, tuple)
          \/ SkRulePrecedes(published[FirstMatch(published, tuple)], published[j])
    BY <2>1, <2>3, <2>4, FirstMatchIsStrongest
  <2>7. QED
    BY <2>2, <2>4, <2>5, <2>6 DEF tuple
<1>2. QED
  BY <1>1, InitTypes, NextTypes, PTL DEF Spec

-----------------------------------------------------------------------------
(***************************************************************************)
(* The buckets.                                                            *)
(***************************************************************************)
\* A step that leaves the buckets in use as they were, or frees some.
FreesOnly ==
  \A i \in 1 .. RateSlots : g_RateTable'[i].inUse => g_RateTable'[i] = g_RateTable[i]

\* Every step but a SkRateAllow only frees.
LEMMA OthersFree ==
  ASSUME TypeInv, [Next]_vars
  PROVE  \/ FreesOnly
         \/ \E t \in Evaluators : \E now \in eval[t].since .. clock : SkRateAllow(t, now)
<1>1. CASE Write
  BY <1>1, WriteShape DEF FreesOnly
<1>2. CASE SkRuleRateReset
  BY <1>2, ResetShape DEF FreesOnly
<1>3. QED
  BY <1>1, <1>2 DEF Next, Evaluate, Classify, SkRuleStoreShutdown, Tick, FreesOnly, vars

LEMMA NextOneBucket == TypeInv /\ OneBucket /\ [Next]_vars => OneBucket'
<1> SUFFICES ASSUME TypeInv, OneBucket, [Next]_vars PROVE OneBucket'
  OBVIOUS
<1>1. CASE FreesOnly
  BY <1>1 DEF FreesOnly, OneBucket
<1>2. ASSUME NEW t \in Evaluators, NEW now \in eval[t].since .. clock, SkRateAllow(t, now)
      PROVE  OneBucket'
  <2> DEFINE rule == eval[t].hit
  <2>1. now \in Nat /\ LimitInForce(rule)
        /\ \/ UNCHANGED g_RateTable
           \/ \E i \in 1 .. RateSlots, b \in SlotType :
                /\ \/ b = g_RateTable[i] /\ b.inUse /\ b.ruleId = rule.ruleId
                   \/ /\ b = NewBucket(t, now) /\ ~g_RateTable[i].inUse
                      /\ SlotsOf(rule.ruleId) = {}
                /\ g_RateTable' = [g_RateTable EXCEPT ![i] = Spend(Refill(b, rule, now))]
    BY <1>2, AllowShape
  <2>2. CASE UNCHANGED g_RateTable
    BY <2>2 DEF OneBucket
  <2>3. ASSUME NEW i \in 1 .. RateSlots, NEW b \in SlotType,
               \/ b = g_RateTable[i] /\ b.inUse /\ b.ruleId = rule.ruleId
               \/ /\ b = NewBucket(t, now) /\ ~g_RateTable[i].inUse
                  /\ SlotsOf(rule.ruleId) = {},
               g_RateTable' = [g_RateTable EXCEPT ![i] = Spend(Refill(b, rule, now))]
        PROVE  OneBucket'
    <3> DEFINE c == Spend(Refill(b, rule, now))
    <3>1. c.ruleId = rule.ruleId
      BY <2>1, <2>3, PutShape DEF SameBucket, NewBucket
    <3> HIDE DEF c
    <3>2. DOMAIN g_RateTable = 1 .. RateSlots
      BY DEF TypeInv, TableOK
    <3>3. g_RateTable' = [g_RateTable EXCEPT ![i] = c]
      BY <2>3 DEF c
    <3>4. \A j \in 1 .. RateSlots : g_RateTable'[j] = IF j = i THEN c ELSE g_RateTable[j]
      BY <3>2, <3>3
    <3>5. \A j \in 1 .. RateSlots :
            j # i => ~(g_RateTable[j].inUse /\ g_RateTable[j].ruleId = rule.ruleId)
      BY <2>3, <3>2 DEF OneBucket, SlotsOf
    <3>6. QED
      BY <3>1, <3>4, <3>5 DEF OneBucket
  <2>4. QED
    BY <2>1, <2>2, <2>3
<1>3. QED
  BY <1>1, <1>2, OthersFree

\* No rule has two buckets: the search of SkRateAllow looks at the whole table before it
\* takes a free slot.
THEOREM NoRuleHasTwo == Spec => []OneBucket
<1>1. Init => OneBucket
  BY DEF Init, OneBucket, FreeSlot
<1>2. QED
  BY <1>1, InitTypes, NextTypes, NextOneBucket, PTL DEF Spec

\* Residue of a table of which the resets in ids have yet to come.
Residue ==
  /\ \A i \in 1 .. RateSlots :
       LET b == g_RateTable[i]
       IN b.inUse => \/ b.made = ended[b.ruleId] /\ (b.life = ended[b.ruleId] \/ b.late)
                     \/ b.ruleId \in pending
  /\ \A t \in Evaluators :
       eval[t].at = "limit" /\ eval[t].life # ended[eval[t].hit.ruleId] => eval[t].stale

\* A bucket in use is one of a rule that requests may carry.
LEMMA BucketOfRule ==
  ASSUME TypeInv, NEW i \in 1 .. RateSlots, g_RateTable[i].inUse
  PROVE  g_RateTable[i].ruleId \in RuleIds
<1>1. PICK c \in LimitsOf(g_RateTable[i].ruleId) : TRUE
  BY DEF TypeInv, TableOK
<1>2. QED
  BY <1>1 DEF LimitsOf, RuleIds

LEMMA NextResidue == TypeInv /\ OneBucket /\ Residue /\ [Next]_vars => Residue'
<1> SUFFICES ASSUME TypeInv, OneBucket, Residue, [Next]_vars PROVE Residue'
  OBVIOUS
<1>1. CASE Write
  <2>1. /\ pending = {}
        /\ \A id \in RuleIds : id \notin pending' => ended'[id] = ended[id]
        /\ eval' = [t \in Evaluators |-> [eval[t] EXCEPT !.stale = eval[t].at = "limit"]]
        /\ UNCHANGED <<clock, g_RateTable>>
    BY <1>1, WriteShape
  <2>2. ASSUME NEW i \in 1 .. RateSlots, g_RateTable[i].inUse
        PROVE  LET b == g_RateTable[i]
               IN \/ b.made = ended'[b.ruleId] /\ (b.life = ended'[b.ruleId] \/ b.late)
                  \/ b.ruleId \in pending'
    <3>1. g_RateTable[i].ruleId \in RuleIds
      BY <2>2, BucketOfRule
    <3>2. QED
      BY <2>1, <2>2, <3>1 DEF Residue
  <2>3. ASSUME NEW t \in Evaluators, eval'[t].at = "limit" PROVE eval'[t].stale
    <3>1. eval[t] = [at |-> eval[t].at, hit |-> eval[t].hit, stale |-> eval[t].stale,
                     life |-> eval[t].life, since |-> eval[t].since]
      BY DEF TypeInv, LocalsOK
    <3>2. eval'[t] = [eval[t] EXCEPT !.stale = eval[t].at = "limit"]
      BY <2>1
    <3>3. eval'[t] = [at |-> eval[t].at, hit |-> eval[t].hit, stale |-> eval[t].at = "limit",
                      life |-> eval[t].life, since |-> eval[t].since]
      BY <3>1, <3>2
    <3>4. eval'[t].at = eval[t].at
      BY <3>3
    <3>5. (eval[t].at = "limit") = TRUE
      BY <2>3, <3>4
    <3>6. eval'[t] = [at |-> eval[t].at, hit |-> eval[t].hit, stale |-> TRUE,
                      life |-> eval[t].life, since |-> eval[t].since]
      BY <3>3, <3>5
    <3>7. QED
      BY <3>6
  <2>4. QED
    BY <2>1, <2>2, <2>3 DEF Residue
<1>2. CASE SkRuleRateReset
  <2>1. PICK id \in pending :
          /\ pending' = pending \ {id}
          /\ UNCHANGED <<published, previous, version, ended, clock, eval>>
          /\ \A i \in 1 .. RateSlots :
               g_RateTable'[i].inUse => g_RateTable'[i] = g_RateTable[i]
          /\ SlotsOf(id) # {} => \E i \in SlotsOf(id) : ~g_RateTable'[i].inUse
    BY <1>2, ResetShape
  <2>2. ASSUME NEW i \in 1 .. RateSlots, g_RateTable'[i].inUse
        PROVE  g_RateTable[i].ruleId # id
    <3> SUFFICES ASSUME g_RateTable[i].ruleId = id PROVE FALSE
      OBVIOUS
    <3>1. DOMAIN g_RateTable = 1 .. RateSlots
      BY DEF TypeInv, TableOK
    <3>2. i \in SlotsOf(id)
      BY <2>1, <2>2, <3>1 DEF SlotsOf
    <3>3. PICK j \in SlotsOf(id) : ~g_RateTable'[j].inUse
      BY <2>1, <3>2
    <3>4. i = j
      BY <3>1, <3>2, <3>3 DEF SlotsOf, OneBucket
    <3>5. QED
      BY <2>2, <3>3, <3>4
  <2>3. QED
    BY <2>1, <2>2 DEF Residue
<1>3. ASSUME NEW t \in Evaluators, NEW p \in Packets, Classify(t, p) PROVE Residue'
  <2> DEFINE hit == published[Scan(p)]
  <2>1. eval' = [eval EXCEPT ![t] = [at |-> "limit", hit |-> hit, stale |-> FALSE,
                                     life |-> ended[hit.ruleId], since |-> clock]]
        /\ UNCHANGED <<writerVars, clock, g_RateTable>>
    BY <1>3 DEF Classify, Set
  <2> HIDE DEF hit
  <2>2. DOMAIN eval = Evaluators
    BY DEF TypeInv, LocalsOK
  <2>3. ASSUME NEW u \in Evaluators, eval'[u].at = "limit",
               eval'[u].life # ended[eval'[u].hit.ruleId]
        PROVE  eval'[u].stale
    <3>1. CASE u = t
      <4>1. eval'[u].life = ended[eval'[u].hit.ruleId]
        BY <2>1, <2>2, <3>1
      <4>2. QED
        BY <2>3, <4>1
    <3>2. CASE u # t
      BY <2>1, <2>2, <2>3, <3>2 DEF Residue
    <3>3. QED
      BY <3>1, <3>2
  <2>4. QED
    BY <2>1, <2>3 DEF Residue, writerVars
<1>4. ASSUME NEW t \in Evaluators, NEW now \in eval[t].since .. clock, SkRateAllow(t, now)
      PROVE  Residue'
  <2> DEFINE rule == eval[t].hit
  <2>1. /\ eval' = [eval EXCEPT ![t] = Idle] /\ UNCHANGED <<writerVars, clock>>
        /\ now \in Nat /\ LimitInForce(rule)
        /\ \/ UNCHANGED g_RateTable
           \/ \E i \in 1 .. RateSlots, b \in SlotType :
                /\ \/ b = g_RateTable[i] /\ b.inUse /\ b.ruleId = rule.ruleId
                   \/ /\ b = NewBucket(t, now) /\ ~g_RateTable[i].inUse
                      /\ SlotsOf(rule.ruleId) = {}
                /\ g_RateTable' = [g_RateTable EXCEPT ![i] = Spend(Refill(b, rule, now))]
    BY <1>4, AllowShape
  <2>2. DOMAIN eval = Evaluators /\ DOMAIN g_RateTable = 1 .. RateSlots
    BY DEF TypeInv, LocalsOK, TableOK
  <2>3. UNCHANGED <<ended, pending>>
    BY <2>1 DEF writerVars
  <2>4. ASSUME NEW u \in Evaluators, eval'[u].at = "limit",
               eval'[u].life # ended[eval'[u].hit.ruleId]
        PROVE  eval'[u].stale
    <3>1. Idle.at # "limit"
      BY DEF Idle
    <3>2. u # t /\ eval'[u] = eval[u]
      BY <2>1, <2>2, <2>4, <3>1
    <3>3. QED
      BY <2>4, <3>2 DEF Residue
  <2>5. CASE UNCHANGED g_RateTable
    BY <2>3, <2>4, <2>5 DEF Residue
  <2>6. ASSUME NEW i \in 1 .. RateSlots, NEW b \in SlotType,
               \/ b = g_RateTable[i] /\ b.inUse /\ b.ruleId = rule.ruleId
               \/ /\ b = NewBucket(t, now) /\ ~g_RateTable[i].inUse
                  /\ SlotsOf(rule.ruleId) = {},
               g_RateTable' = [g_RateTable EXCEPT ![i] = Spend(Refill(b, rule, now))]
        PROVE  Residue'
    <3> DEFINE c == Spend(Refill(b, rule, now))
    <3>1. SameBucket(b, c)
      BY <2>1, PutShape
    <3> HIDE DEF c
    <3>2. g_RateTable' = [g_RateTable EXCEPT ![i] = c]
      BY <2>6 DEF c
    <3>3. \A j \in 1 .. RateSlots : g_RateTable'[j] = IF j = i THEN c ELSE g_RateTable[j]
      BY <2>2, <3>2
    <3>4. ASSUME c.inUse
          PROVE  \/ c.made = ended[c.ruleId] /\ (c.life = ended[c.ruleId] \/ c.late)
                 \/ c.ruleId \in pending
      <4>1. CASE b = g_RateTable[i]
        BY <3>1, <3>4, <4>1 DEF SameBucket, Residue
      <4>2. CASE b = NewBucket(t, now)
        <5>1. /\ b.life = eval[t].life /\ b.late = eval[t].stale /\ b.ruleId = rule.ruleId
              /\ b.made = ended[rule.ruleId]
          BY <4>2 DEF NewBucket
        <5>2. eval[t].at = "limit"
          BY <1>4 DEF SkRateAllow
        <5>3. QED
          BY <3>1, <3>4, <5>1, <5>2 DEF SameBucket, Residue
      <4>3. QED
        BY <2>6, <4>1, <4>2
    <3>5. QED
      BY <2>3, <2>4, <3>3, <3>4 DEF Residue
  <2>7. QED
    BY <2>1, <2>5, <2>6
<1>5. CASE UNCHANGED <<pending, ended, eval, g_RateTable>>
  BY <1>5 DEF Residue
<1>6. QED
  BY <1>1, <1>2, <1>3, <1>4, <1>5
  DEF Next, Evaluate, SkRuleStoreShutdown, Tick, vars, writerVars

\* Once the resets of a write are done, no bucket is left from before its rule was last added,
\* removed or disabled by SetEnabled; those that readers of an older snapshot make after the
\* reset are the only ones of an earlier life of a rule.
THEOREM ResiduesAreStale == Spec => []ResidueIsStale
<1>1. Init => OneBucket /\ Residue
  BY DEF Init, OneBucket, Residue, FreeSlot, Idle
<1>2. Residue => ResidueIsStale
  BY DEF Residue, ResidueIsStale
<1>3. QED
  BY <1>1, <1>2, InitTypes, NextTypes, NextOneBucket, NextResidue, PTL DEF Spec

-----------------------------------------------------------------------------
(***************************************************************************)
(* The bound of a rate limit.                                              *)
(***************************************************************************)
LEMMA GreatestElement ==
  ASSUME NEW S \in SUBSET Nat, S # {}, NEW n \in Nat, \A x \in S : x < n
  PROVE  Max(S) \in S /\ \A x \in S : x <= Max(S)
<1> DEFINE mirror == {n - x : x \in S}
<1>1. mirror \subseteq Nat /\ mirror # {}
  <2>1. \A x \in S : n - x \in Nat
    <3>1. \A x \in S : x \in Nat /\ x < n
      OBVIOUS
    <3>2. QED
      BY <3>1
  <2>2. QED
    BY <2>1
<1>2. PICK low \in mirror : \A y \in mirror : low <= y
  BY <1>1, LeastElement
<1>3. PICK m \in S : low = n - m
  OBVIOUS
<1>4. ASSUME NEW x \in S PROVE m >= x
  <2>1. low <= n - x /\ m \in Nat /\ x \in Nat
    BY <1>2
  <2>2. QED
    BY <1>3, <2>1
<1>5. Max(S) \in S /\ \A x \in S : Max(S) >= x
  BY <1>4 DEF Max
<1>6. QED
  BY <1>5

Bursts(id) == {r.burst : r \in LimitsOf(id)}
Rates(id) == {r.rateTokens : r \in LimitsOf(id)}
Intervals(id) == {r.rateIntervalMs : r \in LimitsOf(id)}

\* The largest burst and rate, and the smallest interval, that a rule may be given.
LEMMA LimitBounds ==
  ASSUME NEW id, LimitsOf(id) # {}
  PROVE  /\ Max(Bursts(id)) \in Nat /\ Max(Rates(id)) \in Nat /\ Min(Intervals(id)) \in Nat
         /\ \A r \in LimitsOf(id) : /\ r.burst <= Max(Bursts(id))
                                    /\ r.rateTokens <= Max(Rates(id))
                                    /\ Min(Intervals(id)) <= r.rateIntervalMs
<1>1. LimitsOf(id) \subseteq Candidates
  BY DEF LimitsOf
<1>2. /\ Bursts(id) \in SUBSET Nat /\ Bursts(id) # {} /\ \A x \in Bursts(id) : x < Modulus
      /\ Rates(id) \in SUBSET Nat /\ Rates(id) # {} /\ \A x \in Rates(id) : x < Modulus
      /\ Intervals(id) \in SUBSET Nat /\ Intervals(id) # {}
  BY <1>1, EngineAssumption DEF Bursts, Rates, Intervals
<1>3. Max(Bursts(id)) \in Bursts(id) /\ \A x \in Bursts(id) : x <= Max(Bursts(id))
  BY <1>2, EngineAssumption, GreatestElement
<1>4. Max(Rates(id)) \in Rates(id) /\ \A x \in Rates(id) : x <= Max(Rates(id))
  BY <1>2, EngineAssumption, GreatestElement
<1>5. Min(Intervals(id)) \in Intervals(id) /\ \A x \in Intervals(id) : Min(Intervals(id)) <= x
  BY <1>2, LeastElement DEF Min
<1>6. QED
  BY <1>2, <1>3, <1>4, <1>5 DEF Bursts, Rates, Intervals

\* What BucketBound says of a bucket in use.
Bounded(b, now) ==
  /\ b.tokens <= Max(Bursts(b.ruleId))
  /\ (b.admitted + b.tokens - Max(Bursts(b.ruleId))) * Min(Intervals(b.ruleId))
       <= Max(Rates(b.ruleId)) * (b.lastRefillMs - b.born)
  /\ b.lastRefillMs <= now

\* k intervals of the limit in force earn no more than they may by the bound.
LEMMA RefillArithmetic ==
  ASSUME NEW a \in Int, NEW t \in Int, NEW u \in Int, NEW B \in Int, NEW I \in Nat,
         NEW i \in Nat, NEW r \in Nat, NEW R \in Nat, NEW k \in Nat, NEW age \in Int,
         u <= t + k * r, r <= R, I <= i, (a + t - B) * I <= R * age
  PROVE  (a + u - B) * I <= R * (age + k * i)
<1>1. k * r \in Nat /\ k * i \in Nat
  OBVIOUS
<1>2. (a + u - B) * I <= (a + t - B + k * r) * I
  <2>1. a + u - B <= a + t - B + k * r
    BY <1>1
  <2>2. \A x, y \in Int : x <= y => x * I <= y * I
    OBVIOUS
  <2>3. QED
    BY <1>1, <2>1, <2>2
<1>3. (a + t - B + k * r) * I = (a + t - B) * I + (k * r) * I
  BY <1>1
<1>4. (k * r) * I <= R * (k * i)
  OBVIOUS
<1>5. R * (age + k * i) = R * age + R * (k * i)
  BY <1>1
<1> DEFINE p == (a + t - B) * I
           q == (k * r) * I
           v == R * age
           w == R * (k * i)
           x == (a + u - B) * I
<1>6. p \in Int /\ q \in Int /\ v \in Int /\ w \in Int /\ x \in Int
  BY <1>1
<1>7. p <= v /\ q <= w /\ x <= p + q
  BY <1>2, <1>3, <1>4
<1> HIDE DEF p, q, v, w, x
<1>8. x <= v + w
  BY <1>6, <1>7
<1>9. QED
  BY <1>5, <1>8 DEF v, w, x

LEMMA RefillBounded ==
  ASSUME NEW b \in SlotType, NEW rule, LimitInForce(rule), b.ruleId = rule.ruleId,
         NEW now \in Nat, NEW time \in Nat, now <= time, Bounded(b, time)
  PROVE  Bounded(Refill(b, rule, now), time)
<1> DEFINE c == Refill(b, rule, now)
           B == Max(Bursts(rule.ruleId))
           R == Max(Rates(rule.ruleId))
           I == Min(Intervals(rule.ruleId))
<1>1. /\ c \in SlotType /\ SameBucket(b, c) /\ c.admitted = b.admitted
      /\ \/ c = b
         \/ /\ c.tokens <= rule.burst /\ c.lastRefillMs <= now
            /\ \E k \in Nat : /\ c.tokens <= b.tokens + k * rule.rateTokens
                              /\ c.lastRefillMs = b.lastRefillMs + k * rule.rateIntervalMs
  BY RefillShape
<1> HIDE DEF c
<1>2. PICK m \in LimitsOf(rule.ruleId) :
        m.burst = rule.burst /\ m.rateTokens = rule.rateTokens
          /\ m.rateIntervalMs = rule.rateIntervalMs
  BY LimitIsCandidate
<1>3. B \in Nat /\ R \in Nat /\ I \in Nat /\ rule.burst <= B /\ rule.rateTokens <= R
      /\ I <= rule.rateIntervalMs
  BY <1>2, LimitBounds
<1>4. rule.burst \in Nat /\ rule.rateTokens \in Nat /\ rule.rateIntervalMs \in Nat
  BY LimitIsCandidate
<1> HIDE DEF B, R, I
<1>5. b.tokens \in Nat /\ b.admitted \in Nat /\ b.lastRefillMs \in Nat /\ b.born \in Nat
      /\ c.tokens \in Nat /\ c.lastRefillMs \in Nat /\ c.born = b.born /\ c.ruleId = rule.ruleId
  BY <1>1 DEF SlotType, SameBucket
<1>6. (b.admitted + b.tokens - B) * I <= R * (b.lastRefillMs - b.born)
  BY DEF Bounded, B, R, I
<1>7. CASE c = b
  BY <1>7 DEF c
<1>8. ASSUME c.tokens <= rule.burst, c.lastRefillMs <= now, NEW k \in Nat,
             c.tokens <= b.tokens + k * rule.rateTokens,
             c.lastRefillMs = b.lastRefillMs + k * rule.rateIntervalMs
      PROVE  Bounded(c, time)
  <2>1. c.tokens <= B /\ c.lastRefillMs <= time
    BY <1>3, <1>4, <1>5, <1>8
  <2>2. (b.admitted + c.tokens - B) * I
          <= R * ((b.lastRefillMs - b.born) + k * rule.rateIntervalMs)
    <3>1. b.lastRefillMs - b.born \in Int /\ b.admitted \in Int /\ b.tokens \in Int
          /\ c.tokens \in Int /\ B \in Int
      BY <1>3, <1>5
    <3>2. QED
      BY <1>3, <1>4, <1>6, <1>8, <3>1, RefillArithmetic
  <2>3. (b.lastRefillMs - b.born) + k * rule.rateIntervalMs = c.lastRefillMs - c.born
    <3>1. k * rule.rateIntervalMs \in Nat
      BY <1>4
    <3>2. QED
      BY <1>5, <1>8, <3>1
  <2>4. (c.admitted + c.tokens - B) * I <= R * (c.lastRefillMs - c.born)
    BY <1>1, <2>2, <2>3
  <2>5. QED
    BY <1>5, <2>1, <2>4 DEF Bounded, B, R, I
<1>9. QED
  BY <1>1, <1>7, <1>8 DEF c

LEMMA SpendBounded ==
  ASSUME NEW b \in SlotType, NEW time \in Nat, Bounded(b, time), LimitsOf(b.ruleId) # {}
  PROVE  Bounded(Spend(b), time)
<1> DEFINE c == Spend(b)
<1>1. c \in SlotType /\ SameBucket(b, c) /\ c.lastRefillMs = b.lastRefillMs
      /\ c.tokens <= b.tokens /\ c.admitted + c.tokens = b.admitted + b.tokens
  BY SpendShape
<1> HIDE DEF c
<1>2. c.ruleId = b.ruleId /\ c.born = b.born
  BY <1>1 DEF SameBucket
<1>3. c.tokens \in Nat /\ b.tokens \in Nat /\ Max(Bursts(b.ruleId)) \in Nat
  BY <1>1, LimitBounds DEF SlotType
<1>4. c.tokens <= Max(Bursts(c.ruleId)) /\ c.lastRefillMs <= time
  BY <1>1, <1>2, <1>3 DEF Bounded
<1>5. (c.admitted + c.tokens - Max(Bursts(c.ruleId))) * Min(Intervals(c.ruleId))
        <= Max(Rates(c.ruleId)) * (c.lastRefillMs - c.born)
  <2>1. c.admitted + c.tokens - Max(Bursts(c.ruleId))
          = b.admitted + b.tokens - Max(Bursts(b.ruleId))
    <3>1. c.admitted + c.tokens = b.admitted + b.tokens
      BY <1>1
    <3>2. Max(Bursts(c.ruleId)) = Max(Bursts(b.ruleId))
      BY <1>2
    <3>3. c.admitted \in Nat /\ b.admitted \in Nat
      BY <1>1 DEF SlotType
    <3>4. QED
      BY <1>3, <3>1, <3>2, <3>3
  <2>2. c.lastRefillMs - c.born = b.lastRefillMs - b.born
    BY <1>1, <1>2
  <2>3. QED
    BY <1>2, <2>1, <2>2 DEF Bounded
<1>6. QED
  BY <1>4, <1>5 DEF Bounded, c

BucketsBounded == \A i \in 1 .. RateSlots : g_RateTable[i].inUse => Bounded(g_RateTable[i], clock)

LEMMA NextBounded == TypeInv /\ BucketsBounded /\ [Next]_vars => BucketsBounded'
<1> SUFFICES ASSUME TypeInv, BucketsBounded, [Next]_vars PROVE BucketsBounded'
  OBVIOUS
<1>1. clock \in Nat /\ clock' \in Nat /\ clock <= clock'
  <2>1. clock \in Nat
    BY DEF TypeInv
  <2>2. clock' = clock \/ clock' = clock + 1
    <3>1. CASE Write
      BY <3>1, WriteShape
    <3>2. CASE SkRuleRateReset
      BY <3>2, ResetShape
    <3>3. QED
      BY <3>1, <3>2
      DEF Next, SkRuleStoreShutdown, Tick, Evaluate, Classify, SkRateAllow, vars
  <2>3. QED
    BY <2>1, <2>2
<1>2. CASE FreesOnly
  <2> SUFFICES ASSUME NEW i \in 1 .. RateSlots, g_RateTable'[i].inUse
               PROVE  Bounded(g_RateTable[i], clock')
    BY <1>2 DEF BucketsBounded, FreesOnly
  <2>1. g_RateTable[i].inUse /\ g_RateTable[i] \in SlotType
    BY <1>2 DEF FreesOnly, TypeInv, TableOK
  <2>2. Bounded(g_RateTable[i], clock) /\ g_RateTable[i].lastRefillMs \in Nat
    BY <2>1 DEF BucketsBounded, SlotType
  <2>3. QED
    BY <1>1, <2>2 DEF Bounded
<1>3. ASSUME NEW t \in Evaluators, NEW now \in eval[t].since .. clock, SkRateAllow(t, now)
      PROVE  BucketsBounded'
  <2> DEFINE rule == eval[t].hit
  <2>1. /\ UNCHANGED clock /\ now \in Nat /\ now <= clock /\ LimitInForce(rule)
        /\ \/ UNCHANGED g_RateTable
           \/ \E i \in 1 .. RateSlots, b \in SlotType :
                /\ \/ b = g_RateTable[i] /\ b.inUse /\ b.ruleId = rule.ruleId
                   \/ b = NewBucket(t, now)
                /\ g_RateTable' = [g_RateTable EXCEPT ![i] = Spend(Refill(b, rule, now))]
    BY <1>3, AllowShape
  <2>2. CASE UNCHANGED g_RateTable
    BY <2>1, <2>2 DEF BucketsBounded
  <2>3. ASSUME NEW i \in 1 .. RateSlots, NEW b \in SlotType,
               \/ b = g_RateTable[i] /\ b.inUse /\ b.ruleId = rule.ruleId
               \/ b = NewBucket(t, now),
               g_RateTable' = [g_RateTable EXCEPT ![i] = Spend(Refill(b, rule, now))]
        PROVE  BucketsBounded'
    <3> DEFINE c == Refill(b, rule, now)
    <3>1. b.ruleId = rule.ruleId
      BY <2>3 DEF NewBucket
    <3>2. Bounded(b, clock)
      <4>1. CASE b = g_RateTable[i] /\ b.inUse
        BY <4>1 DEF BucketsBounded
      <4>2. CASE b = NewBucket(t, now)
        <5>1. PICK m \in LimitsOf(rule.ruleId) : m.burst = rule.burst
          BY <2>1, LimitIsCandidate
        <5> DEFINE B == Max(Bursts(rule.ruleId))
                   R == Max(Rates(rule.ruleId))
                   I == Min(Intervals(rule.ruleId))
        <5>2. B \in Nat /\ R \in Nat /\ I \in Nat /\ rule.burst <= B /\ rule.burst \in Nat
          BY <2>1, <5>1, LimitBounds, LimitIsCandidate
        <5> HIDE DEF B, R, I
        <5>3. b.tokens = rule.burst /\ b.admitted = 0 /\ b.lastRefillMs = now /\ b.born = now
          BY <4>2 DEF NewBucket
        <5>4. (0 + rule.burst - B) * I <= 0
          <6>1. 0 + rule.burst - B <= 0 /\ 0 + rule.burst - B \in Int
            BY <5>2
          <6>2. \A x \in Int : x <= 0 => x * I <= 0
            BY <5>2
          <6>3. QED
            BY <6>1, <6>2
        <5>5. R * (now - now) = 0
          BY <2>1, <5>2
        <5>6. QED
          BY <2>1, <3>1, <5>2, <5>3, <5>4, <5>5 DEF Bounded, B, R, I
      <4>3. QED
        BY <2>3, <4>1, <4>2
    <3>3. clock \in Nat
      BY <1>1
    <3>4. Bounded(c, clock)
      BY <2>1, <3>1, <3>2, <3>3, RefillBounded
    <3>5. c \in SlotType /\ c.ruleId = rule.ruleId
      BY <2>1, <3>1, RefillShape DEF SameBucket
    <3> HIDE DEF c
    <3>6. LimitsOf(c.ruleId) # {}
      BY <2>1, <3>5, LimitIsCandidate
    <3>7. Bounded(Spend(c), clock)
      BY <3>3, <3>4, <3>5, <3>6, SpendBounded
    <3>8. g_RateTable' = [g_RateTable EXCEPT ![i] = Spend(c)]
      BY <2>3 DEF c
    <3>9. \A j \in 1 .. RateSlots :
            g_RateTable'[j] = IF j = i THEN Spend(c) ELSE g_RateTable[j]
      BY <3>8 DEF TypeInv, TableOK
    <3>10. QED
      BY <2>1, <3>7, <3>9 DEF BucketsBounded
  <2>4. QED
    BY <2>1, <2>2, <2>3
<1>4. QED
  BY <1>2, <1>3, OthersFree

\* Whatever the rules, the clock and the interleaving, a bucket lets through at most a burst
\* and what the time since it was made earns at the largest rate its rule may be given.
THEOREM LimitsHold == Spec => []BucketBound
<1>1. Init => BucketsBounded
  BY DEF Init, BucketsBounded, FreeSlot
<1>2. BucketsBounded => BucketBound
  <2> SUFFICES ASSUME BucketsBounded, NEW i \in 1 .. RateSlots, g_RateTable[i].inUse
               PROVE  Bounded(g_RateTable[i], clock)
    BY DEF BucketBound, Bounded, Bursts, Rates, Intervals
  <2>1. QED
    BY DEF BucketsBounded
<1>3. QED
  BY <1>1, <1>2, InitTypes, NextTypes, NextBounded, PTL DEF Spec

-----------------------------------------------------------------------------
(***************************************************************************)
(* The verdict.                                                            *)
(***************************************************************************)
LEMMA FlowIsNotAle == FlowLayers \cap AleLayers = {} /\ Layers = AleLayers \cup FlowLayers
  BY DEF FlowLayers, AleLayers, Layers

LEMMA OutcomeFields ==
  ASSUME NEW P, NEW Q, NEW o, o = [posted |-> P, out |-> Q]
  PROVE  o.posted = P /\ o.out = Q
  OBVIOUS

\* Whether a packet is evaluated, and the action of the rule found for it.
Ruled(p) == p.layer \in AleLayers /\ ~p.self
ActionFor(p) == IF Ruled(p) /\ Scan(p) # 0 THEN published[Scan(p)].action ELSE "none"

\* What is said of the write of one verdict.
Written(p, policy, right, limited) ==
  LET o == Outcome(p, Scan(p), policy, limited, right)
  IN /\ o.out = "untouched" <=> ~right
     /\ right => (o.out = "BLOCK" <=>
          \/ ActionFor(p) = "Block" \/ limited
          \/ Ruled(p) /\ Scan(p) = 0 /\ policy = "Block")
     /\ o.posted \in BOOLEAN /\ (o.posted <=> ActionFor(p) \in {"Audit", "RateLimit"})

\* The write of the verdict for one packet.
LEMMA VerdictOfPacket ==
  ASSUME TypeInv, NEW p \in Packets, NEW policy \in {"Allow", "Block"}, NEW right \in BOOLEAN,
         NEW limited \in {FALSE, ActionFor(p) = "RateLimit"}
  PROVE  Written(p, policy, right, limited)
<1> DEFINE o == Outcome(p, Scan(p), policy, limited, right)
           action == ActionFor(p)
<1> USE DEF Written
<1>1. p.layer \in AleLayers \cup FlowLayers /\ p.self \in BOOLEAN
  BY EngineAssumption, FlowIsNotAle
<1>2. CASE ~Ruled(p)
  <2>1. p.layer \in FlowLayers \/ p.self
    BY <1>1, <1>2 DEF Ruled
  <2>2. o = [posted |-> FALSE, out |-> IF right THEN "PERMIT" ELSE "untouched"]
    BY <2>1 DEF Outcome
  <2>3. action = "none" /\ limited = FALSE
    BY <1>2 DEF ActionFor
  <2>4. o.posted = FALSE /\ o.out = IF right THEN "PERMIT" ELSE "untouched"
    BY <2>2, OutcomeFields
  <2> HIDE DEF o, action
  <2>5. CASE right
    BY <1>2, <2>3, <2>4, <2>5 DEF o, action
  <2>6. CASE ~right
    BY <2>3, <2>4, <2>6 DEF o, action
  <2>7. QED
    BY <2>5, <2>6
<1>3. CASE Ruled(p)
  <2> DEFINE verdict == Verdict(published, Scan(p), policy, limited)
             out == IF ~right THEN "untouched"
                    ELSE IF verdict = "Block" /\ HardBlockAllowed(p.layer) THEN "BLOCK"
                    ELSE "PERMIT"
  <2>1. ~(p.layer \in FlowLayers \/ p.self) /\ p.layer \in AleLayers
    BY <1>3, FlowIsNotAle DEF Ruled
  <2>2. o = [posted |-> limited \/ verdict = "Audit", out |-> out]
    BY <2>1 DEF Outcome, SkClassifyApplyVerdict
  <2>3. HardBlockAllowed(p.layer)
    BY <2>1 DEF HardBlockAllowed
  <2>4. o.posted = (limited \/ verdict = "Audit") /\ o.out = out
    BY <2>2, OutcomeFields
  <2> HIDE DEF o
  <2>5. CASE Scan(p) = 0
    <3>1. action = "none" /\ limited = FALSE
      BY <1>3, <2>5 DEF ActionFor
    <3>2. verdict = IF policy = "Allow" THEN "Permit" ELSE policy
      BY <2>5 DEF Verdict
    <3> HIDE DEF verdict, action
    <3>3. QED
      BY <1>3, <2>3, <2>4, <2>5, <3>1, <3>2 DEF o, action
  <2>6. CASE Scan(p) # 0
    <3>1. action = published[Scan(p)].action /\ action \in Actions
      BY <1>3, <2>6, ScanIsThere DEF TypeInv, SkRuleValidate, ActionFor
    <3>2. verdict = CASE action = "Allow" -> "Permit"
                      [] action = "RateLimit" -> IF limited THEN "Block" ELSE "Audit"
                      [] OTHER -> action
      BY <2>6, <3>1 DEF Verdict
    <3> HIDE DEF verdict
    <3>3. CASE action = "RateLimit"
      BY <2>3, <2>4, <2>6, <3>2, <3>3 DEF o
    <3>4. CASE action # "RateLimit"
      <4>1. limited = FALSE
        BY <3>4
      <4>2. QED
        BY <2>3, <2>4, <2>6, <3>1, <3>2, <3>4, <4>1 DEF Actions, o
    <3>5. QED
      BY <3>3, <3>4
  <2>7. QED
    BY <2>5, <2>6
<1>4. QED
  BY <1>2, <1>3

\* Whatever the rules and the packet, the action is written exactly with the right, blocks
\* exactly when the rule, its exceeded limit or the policy says so, and audits and limits
\* are recorded with the right or without.
THEOREM VerdictIsWritten == Spec => []VerdictStands
<1>1. TypeInv => VerdictStands
  <2> SUFFICES ASSUME TypeInv, NEW p \in Packets, NEW policy \in {"Allow", "Block"},
                      NEW right \in BOOLEAN, NEW limited \in {FALSE, ActionFor(p) = "RateLimit"}
               PROVE  LET o == Outcome(p, Scan(p), IF published = None THEN "Allow" ELSE policy,
                                       limited, right)
                      IN /\ (o.out = "untouched") = ~right
                         /\ right => (o.out = "BLOCK") =
                              \/ ActionFor(p) = "Block" \/ limited
                              \/ Ruled(p) /\ Scan(p) = 0 /\ published # None /\ policy = "Block"
                         /\ o.posted = (ActionFor(p) \in {"Audit", "RateLimit"})
    BY DEF VerdictStands, Ruled, ActionFor
  <2> DEFINE used == IF published = None THEN "Allow" ELSE policy
             o == Outcome(p, Scan(p), used, limited, right)
  <2>1. used \in {"Allow", "Block"} /\ (used = "Block" <=> published # None /\ policy = "Block")
    OBVIOUS
  <2> HIDE DEF used
  <2>2. Written(p, used, right, limited)
    BY <2>1, VerdictOfPacket
  <2>3. /\ o.out = "untouched" <=> ~right
        /\ right => (o.out = "BLOCK" <=>
             \/ ActionFor(p) = "Block" \/ limited
             \/ Ruled(p) /\ Scan(p) = 0 /\ used = "Block")
        /\ o.posted \in BOOLEAN /\ (o.posted <=> ActionFor(p) \in {"Audit", "RateLimit"})
    BY <2>2 DEF Written
  <2> HIDE DEF o
  <2>4. (o.out = "untouched") = ~right
    BY <2>3
  <2>5. right => (o.out = "BLOCK") =
                   \/ ActionFor(p) = "Block" \/ limited
                   \/ Ruled(p) /\ Scan(p) = 0 /\ published # None /\ policy = "Block"
    BY <2>1, <2>3
  <2>6. o.posted = (ActionFor(p) \in {"Audit", "RateLimit"})
    BY <2>3
  <2>7. QED
    BY <2>4, <2>5, <2>6 DEF o, used
<1>2. QED
  BY <1>1, InitTypes, NextTypes, PTL DEF Spec

-----------------------------------------------------------------------------
(***************************************************************************)
(* The matcher and the documented meaning of a rule.                       *)
(***************************************************************************)
\* The place of bit n of an address: its byte and its bit.
LEMMA BitPlace ==
  ASSUME NEW i \in Nat, NEW k \in 0 .. ByteBits - 1
  PROVE  LET n == ByteBits * i + k
         IN n \in Nat /\ n \div ByteBits = i /\ n % ByteBits = k
<1>1. ByteBits \in Nat \ {0} /\ ByteBits * i \in Nat /\ k \in Nat
  BY AddressAssumption
<1>2. ByteBits * i + k \in Nat
  BY <1>1
<1>3. QED
  BY <1>1, <1>2, QuotientIs, RemainderIs

\* The bytes that a prefix reaches are in the array.
LEMMA PrefixFits ==
  ASSUME NEW family \in Families, NEW prefix \in Nat, prefix <= Width(family)
  PROVE  LET full == prefix \div ByteBits
             remBits == prefix % ByteBits
         IN /\ full \in Nat /\ remBits \in 0 .. ByteBits - 1
            /\ prefix = ByteBits * full + remBits
            /\ full <= AddressBytes[AF_INET6]
            /\ remBits # 0 => full < AddressBytes[AF_INET6]
<1> DEFINE full == prefix \div ByteBits
           remBits == prefix % ByteBits
           long == AddressBytes[AF_INET6]
<1>1. ByteBits \in Nat \ {0} /\ AddressBytes[family] \in Nat /\ long \in Nat
      /\ AddressBytes[family] <= long
  BY AddressAssumption DEF Families
<1>2. full \in Nat /\ remBits \in 0 .. ByteBits - 1 /\ prefix = ByteBits * full + remBits
  BY <1>1
<1>3. AddressBytes[family] * ByteBits <= ByteBits * long
  <2>1. ByteBits * (long - AddressBytes[family]) >= 0
    BY <1>1
  <2>2. ByteBits * (long - AddressBytes[family]) =
          ByteBits * long - AddressBytes[family] * ByteBits
    BY <1>1
  <2>3. AddressBytes[family] * ByteBits \in Int /\ ByteBits * long \in Int
    BY <1>1
  <2>4. QED
    BY <2>1, <2>2, <2>3
<1> HIDE DEF full, remBits, long
<1>4. ~(ByteBits * long + 0 < ByteBits * full + remBits)
  <2>1. ByteBits * long \in Int /\ ByteBits * full \in Int /\ remBits \in Int
        /\ AddressBytes[family] * ByteBits \in Int
    BY <1>1, <1>2
  <2>2. prefix <= AddressBytes[family] * ByteBits
    BY DEF Width
  <2>3. QED
    BY <1>2, <1>3, <2>1, <2>2
<1>5. ~(long < full \/ (long = full /\ 0 < remBits))
  <2>1. 0 \in 0 .. ByteBits - 1
    BY <1>1
  <2>2. QED
    BY <1>1, <1>2, <1>4, <2>1, DigitOrder
<1>6. QED
  BY <1>1, <1>2, <1>5 DEF full, remBits, long

\* SkPkAddrMatch compares the first prefix bits: whole bytes and a mask do, with no bit
\* more and none less.
THEOREM AddressMatchIsPrefix ==
  ASSUME NEW family \in Families, NEW prefix \in Nat, prefix <= Width(family),
         NEW a \in Addresses, NEW b \in Addresses
  PROVE  SkPkAddrMatch(a, b, prefix, family) <=> SamePrefix(a, b, prefix)
<1> DEFINE full == prefix \div ByteBits
           remBits == prefix % ByteBits
           long == AddressBytes[AF_INET6]
<1>1. /\ full \in Nat /\ remBits \in 0 .. ByteBits - 1 /\ prefix = ByteBits * full + remBits
      /\ full <= long /\ (remBits # 0 => full < long)
  BY PrefixFits
<1>2. ByteBits \in Nat \ {0} /\ long \in Nat
  BY AddressAssumption DEF Families
<1>3. SkPkAddrMatch(a, b, prefix, family) <=>
        /\ \A i \in 1 .. full : a[i] = b[i]
        /\ remBits # 0 => [k \in 1 .. remBits |-> a[full + 1][k]] =
                          [k \in 1 .. remBits |-> b[full + 1][k]]
  BY DEF SkPkAddrMatch
<1> HIDE DEF full, remBits, long
<1>4. ASSUME SkPkAddrMatch(a, b, prefix, family), NEW n \in 0 .. prefix - 1
      PROVE  Bit(a, n) = Bit(b, n)
  <2> DEFINE i == n \div ByteBits
             k == n % ByteBits
  <2>1. n \in Int /\ i \in Int /\ k \in 0 .. ByteBits - 1 /\ n = ByteBits * i + k /\ i >= 0
    BY <1>2
  <2> HIDE DEF i, k
  <2>2. i < full \/ (i = full /\ k < remBits)
    <3>1. n < prefix
      BY <1>1
    <3>2. ByteBits * i + k < ByteBits * full + remBits
      BY <1>1, <2>1, <3>1
    <3>3. QED
      BY <1>1, <1>2, <2>1, <3>2, DigitOrder
  <2>3. CASE i < full
    <3>1. i + 1 \in 1 .. full
      BY <1>1, <2>1, <2>3
    <3>2. a[i + 1] = b[i + 1]
      BY <1>3, <1>4, <3>1
    <3>3. QED
      BY <3>2 DEF Bit, i, k
  <2>4. CASE i = full /\ k < remBits
    <3>1. k + 1 \in 1 .. remBits /\ remBits # 0
      BY <1>1, <2>1, <2>4
    <3>2. [j \in 1 .. remBits |-> a[full + 1][j]] = [j \in 1 .. remBits |-> b[full + 1][j]]
      BY <1>3, <1>4, <3>1
    <3>3. [j \in 1 .. remBits |-> a[full + 1][j]][k + 1] =
            [j \in 1 .. remBits |-> b[full + 1][j]][k + 1]
      BY <3>2
    <3>4. a[full + 1][k + 1] = b[full + 1][k + 1]
      BY <3>1, <3>3
    <3>5. QED
      BY <2>4, <3>4 DEF Bit, i, k
  <2>5. QED
    BY <2>2, <2>3, <2>4
<1>5. ASSUME SamePrefix(a, b, prefix), NEW i \in Nat, NEW k \in 0 .. ByteBits - 1,
             i < full \/ (i = full /\ k < remBits)
      PROVE  a[i + 1][k + 1] = b[i + 1][k + 1]
  <2> DEFINE n == ByteBits * i + k
  <2>1. n \in Nat /\ n \div ByteBits = i /\ n % ByteBits = k
    BY BitPlace
  <2>2. ByteBits * i + k < ByteBits * full + remBits
    BY <1>1, <1>2, <1>5, DigitOrder
  <2>3. n \in 0 .. prefix - 1
    BY <1>1, <2>1, <2>2
  <2> HIDE DEF n
  <2>4. Bit(a, n) = Bit(b, n)
    BY <1>5, <2>3 DEF SamePrefix
  <2>5. QED
    BY <2>1, <2>4 DEF Bit
<1>6. ASSUME SamePrefix(a, b, prefix), NEW i \in 1 .. full
      PROVE  a[i] = b[i]
  <2>1. i - 1 \in Nat /\ i - 1 < full /\ i \in 1 .. long /\ (i - 1) + 1 = i
    BY <1>1, <1>2
  <2>2. a[i] \in Byte /\ b[i] \in Byte
    BY <2>1 DEF Addresses, long
  <2>3. ASSUME NEW j \in 1 .. ByteBits
        PROVE  a[i][j] = b[i][j]
    <3>1. j - 1 \in 0 .. ByteBits - 1 /\ (j - 1) + 1 = j
      BY <1>2
    <3>2. a[(i - 1) + 1][(j - 1) + 1] = b[(i - 1) + 1][(j - 1) + 1]
      BY <1>5, <1>6, <2>1, <3>1
    <3>3. QED
      BY <2>1, <3>1, <3>2
  <2>4. a[i] = [j \in 1 .. ByteBits |-> a[i][j]] /\ b[i] = [j \in 1 .. ByteBits |-> b[i][j]]
    BY <2>2 DEF Byte
  <2>5. [j \in 1 .. ByteBits |-> a[i][j]] = [j \in 1 .. ByteBits |-> b[i][j]]
    BY <2>3
  <2>6. QED
    BY <2>4, <2>5
<1>7. ASSUME SamePrefix(a, b, prefix), NEW j \in 1 .. remBits
      PROVE  a[full + 1][j] = b[full + 1][j]
  <2>1. j - 1 \in 0 .. ByteBits - 1 /\ (j - 1) + 1 = j /\ j - 1 < remBits
    BY <1>1, <1>2
  <2>2. a[full + 1][(j - 1) + 1] = b[full + 1][(j - 1) + 1]
    BY <1>1, <1>5, <1>7, <2>1
  <2>3. QED
    BY <2>1, <2>2
<1>8. QED
  BY <1>3, <1>4, <1>6, <1>7 DEF SamePrefix

\* What SkClassifyBuildTuple fills in, missing or not.
LEMMA TupleType ==
  ASSUME NEW p \in Packets, NEW now \in Nat
  PROVE  LET tuple == BuildTuple(p, now)
         IN /\ tuple.family \in Families /\ tuple.time = now
            /\ \A f \in PortFields : tuple[f] \in Nat
            /\ \A f \in AddressFields : tuple[f] \in Addresses
<1> DEFINE tuple == BuildTuple(p, now)
<1>1. tuple.family = LayerFamily(p.layer) /\ tuple.time = now
  BY DEF BuildTuple, KnownFields, ExactFields, WildcardFields, PortFields, AddressFields,
         ReservedFields
<1>2. LayerFamily(p.layer) \in Families
  BY DEF LayerFamily, Families
<1>3. ZeroAddress \in Addresses
  BY AddressAssumption DEF ZeroAddress, Addresses, Byte
<1>4. ASSUME NEW f \in PortFields
      PROVE  tuple[f] \in Nat
  <2>1. tuple[f] = IF f \in DOMAIN p.values THEN p.values[f] ELSE 0
    BY DEF BuildTuple, KnownFields, ExactFields, WildcardFields, PortFields, AddressFields,
           ReservedFields
  <2> HIDE DEF tuple
  <2>2. f \in DOMAIN p.values => p.values[f] \in Nat
    BY EngineAssumption
  <2>3. QED
    BY <2>1, <2>2
<1>5. ASSUME NEW f \in AddressFields
      PROVE  tuple[f] \in Addresses
  <2>1. tuple[f] = IF f \in DOMAIN p.values THEN p.values[f] ELSE ZeroAddress
    BY DEF BuildTuple, KnownFields, ExactFields, WildcardFields, PortFields, AddressFields,
           ReservedFields
  <2> HIDE DEF tuple
  <2>2. f \in DOMAIN p.values => p.values[f] \in Addresses
    BY EngineAssumption
  <2>3. QED
    BY <1>3, <2>1, <2>2
<1>6. QED
  BY <1>1, <1>2, <1>4, <1>5

\* One condition of a rule, as SkRuleMatch looks at it and as it is documented.
MatchesAt(c, tuple, f) ==
  CASE f \in ExactFields -> c = tuple[f]
    [] f \in WildcardFields -> c \in {0, tuple[f]}
    [] f = "ifIndex" -> c = 0
    [] f \in PortFields -> Within(tuple[f], c)
    [] f \in AddressFields -> SkPkAddrMatch(tuple[f], c.addr, c.prefix, tuple.family)
    [] f = "sid" -> FALSE
    [] f = "time" -> c = [min |-> 0, max |-> 0] \/ Within(tuple[f], c)

CoversAt(c, tuple, f) ==
  /\ f \in ExactFields => c = tuple[f]
  /\ f \in WildcardFields => (c # 0 => c = tuple[f])
  /\ f \in PortFields => tuple[f] \in c.min .. c.max
  /\ f \in AddressFields => /\ c.prefix <= Width(tuple.family)
                            /\ SamePrefix(c.addr, tuple[f], c.prefix)
  /\ f = "time" => (c.max # 0 => tuple.time \in c.min .. c.max)

\* They agree on every condition that SkRuleValidate lets through.
LEMMA ConditionsAgree ==
  ASSUME NEW cond, NEW f \in KnownFields \ ReservedFields, TypedCondition(cond, f),
         ValidCondition(cond, f), NEW p \in Packets, NEW now \in Nat
  PROVE  MatchesAt(cond[f], BuildTuple(p, now), f) <=> CoversAt(cond[f], BuildTuple(p, now), f)
<1> DEFINE c == cond[f]
           tuple == BuildTuple(p, now)
<1>1. /\ tuple.family \in Families /\ tuple.time = now
      /\ \A g \in PortFields : tuple[g] \in Nat
      /\ \A g \in AddressFields : tuple[g] \in Addresses
  BY TupleType
<1> HIDE DEF tuple
<1> USE DEF ExactFields, WildcardFields, PortFields, AddressFields, ReservedFields, KnownFields
<1>2. CASE f \in ExactFields
  BY <1>2 DEF MatchesAt, CoversAt, tuple
<1>3. CASE f \in WildcardFields
  BY <1>3 DEF MatchesAt, CoversAt, tuple
<1>4. CASE f \in PortFields
  <2>1. c.min \in Nat /\ c.max \in Nat /\ tuple[f] \in Nat
    BY <1>1, <1>4 DEF TypedCondition
  <2>2. Within(tuple[f], c) <=> tuple[f] \in c.min .. c.max
    BY <2>1 DEF Within
  <2>3. MatchesAt(c, tuple, f) <=> Within(tuple[f], c)
    BY <1>4 DEF MatchesAt
  <2>4. CoversAt(c, tuple, f) <=> tuple[f] \in c.min .. c.max
    BY <1>4 DEF CoversAt
  <2>5. QED
    BY <2>2, <2>3, <2>4 DEF tuple
<1>5. CASE f \in AddressFields
  <2>1. c.prefix \in Nat /\ c.addr \in Addresses /\ tuple[f] \in Addresses
    BY <1>1, <1>5 DEF TypedCondition
  <2>2. MatchesAt(c, tuple, f) <=> SkPkAddrMatch(tuple[f], c.addr, c.prefix, tuple.family)
    BY <1>5 DEF MatchesAt
  <2>3. CoversAt(c, tuple, f) <=>
          c.prefix <= Width(tuple.family) /\ SamePrefix(c.addr, tuple[f], c.prefix)
    BY <1>5 DEF CoversAt
  <2>4. SamePrefix(c.addr, tuple[f], c.prefix) <=> SamePrefix(tuple[f], c.addr, c.prefix)
    BY DEF SamePrefix
  <2>5. SkPkAddrMatch(tuple[f], c.addr, c.prefix, tuple.family) => c.prefix <= Width(tuple.family)
    BY DEF SkPkAddrMatch
  <2>6. c.prefix <= Width(tuple.family) =>
          (SkPkAddrMatch(tuple[f], c.addr, c.prefix, tuple.family) <=>
             SamePrefix(tuple[f], c.addr, c.prefix))
    BY <1>1, <2>1, AddressMatchIsPrefix
  <2>7. QED
    BY <2>2, <2>3, <2>4, <2>5, <2>6 DEF tuple
<1>6. CASE f = "time"
  <2>1. c \in [min : Nat, max : Nat] /\ c.min <= c.max /\ tuple[f] = now
    BY <1>1, <1>6 DEF TypedCondition, ValidCondition
  <2>2. c = [min |-> 0, max |-> 0] <=> c.max = 0
    BY <2>1
  <2>3. Within(tuple[f], c) <=> now \in c.min .. c.max
    BY <2>1 DEF Within
  <2>4. MatchesAt(c, tuple, f) <=> c = [min |-> 0, max |-> 0] \/ Within(tuple[f], c)
    BY <1>6 DEF MatchesAt
  <2>5. CoversAt(c, tuple, f) <=> (c.max # 0 => now \in c.min .. c.max)
    BY <1>1, <1>6 DEF CoversAt
  <2>6. QED
    BY <2>2, <2>3, <2>4, <2>5 DEF tuple
<1>7. QED
  BY <1>2, <1>3, <1>4, <1>5, <1>6

\* A rule of a store matches the packets that it covers.
THEOREM MatchIsCover ==
  ASSUME NEW r \in Storable, SkRuleValidate(r), NEW p \in Packets, NEW now \in Nat
  PROVE  SkRuleMatch(r, BuildTuple(p, now)) <=> Covers(r, BuildTuple(p, now))
<1> DEFINE tuple == BuildTuple(p, now)
<1>1. \A f \in DOMAIN r.cond : /\ f \in KnownFields \ ReservedFields
                               /\ TypedCondition(r.cond, f) /\ ValidCondition(r.cond, f)
  <2>1. PICK c \in Candidates : \A f \in Fields : r[f] = c[f]
    BY StoredIsCandidate
  <2>2. r.cond = c.cond
    BY <2>1 DEF Fields
  <2>3. \A f \in DOMAIN c.cond : TypedCondition(c.cond, f)
    BY EngineAssumption
  <2>4. QED
    BY <2>2, <2>3 DEF SkRuleValidate
<1>2. \A f \in DOMAIN r.cond : MatchesAt(r.cond[f], tuple, f) <=> CoversAt(r.cond[f], tuple, f)
  BY <1>1, ConditionsAgree
<1> HIDE DEF tuple
<1>3. SkRuleMatch(r, tuple) <=>
        r.enabled /\ \A f \in DOMAIN r.cond : MatchesAt(r.cond[f], tuple, f)
  BY DEF SkRuleMatch, MatchesAt
<1>4. Covers(r, tuple) <=> r.enabled /\ \A f \in DOMAIN r.cond : CoversAt(r.cond[f], tuple, f)
  <2>1. ASSUME Covers(r, tuple), NEW f \in DOMAIN r.cond
        PROVE  CoversAt(r.cond[f], tuple, f)
    BY <2>1 DEF Covers, CoversAt
  <2>2. ASSUME r.enabled, \A f \in DOMAIN r.cond : CoversAt(r.cond[f], tuple, f)
        PROVE  Covers(r, tuple)
    BY <2>2 DEF Covers, CoversAt
  <2>3. QED
    BY <2>1, <2>2 DEF Covers
<1>5. QED
  BY <1>2, <1>3, <1>4 DEF tuple

\* The order of the array is the documented one.
LEMMA PrecedesIsBeats ==
  ASSUME NEW a, NEW b, a.action \in Actions, b.action \in Actions, Rankable(a), Rankable(b)
  PROVE  SkRulePrecedes(a, b) => Beats(a, b)
<1> DEFINE strength(r) == CHOOSE i \in DOMAIN Strength : Strength[i] = r.action
<1>1. ASSUME NEW r, r.action \in Actions
      PROVE  strength(r) = SkActionRank(r.action) + 1
  <2>1. DOMAIN Strength = 1 .. 4
    BY DEF Strength
  <2>2. /\ Strength[1] = "Allow" /\ Strength[2] = "Audit"
        /\ Strength[3] = "RateLimit" /\ Strength[4] = "Block"
    BY DEF Strength
  <2>3. \A i \in 1 .. 4 : i = 1 \/ i = 2 \/ i = 3 \/ i = 4
    OBVIOUS
  <2>4. SkActionRank(r.action) + 1 \in 1 .. 4
    BY <1>1 DEF SkActionRank, Actions
  <2>5. \A i \in 1 .. 4 : Strength[i] = r.action <=> i = SkActionRank(r.action) + 1
    BY <1>1, <2>2, <2>3 DEF SkActionRank, Actions
  <2>6. QED
    BY <2>1, <2>4, <2>5
<1>2. SkActionRank(a.action) \in Nat /\ SkActionRank(b.action) \in Nat
  BY RankType
<1>3. strength(a) = SkActionRank(a.action) + 1 /\ strength(b) = SkActionRank(b.action) + 1
  BY <1>1
<1> HIDE DEF strength
<1>4. Beats(a, b) <=>
        \/ a.priority > b.priority
        \/ a.priority = b.priority /\ strength(a) > strength(b)
        \/ a.priority = b.priority /\ strength(a) = strength(b) /\ a.ruleId < b.ruleId
  BY DEF Beats, strength
<1>5. QED
  BY <1>2, <1>3, <1>4 DEF SkRulePrecedes, Rankable

\* "Higher priority wins; tie: action strength; tie: lower ruleId wins": whatever the
\* writes, SkRuleEvaluate stops at the best of the published rules that cover the packet,
\* with addresses taken bit by bit and windows and wildcards as documented.
THEOREM BestDecides == Spec => []VerdictIsBest
<1>1. TypeInv => VerdictIsBest
  <2> SUFFICES ASSUME TypeInv, published # None, NEW p \in Packets
               PROVE  LET tuple == BuildTuple(p, clock)
                          i == FirstMatch(published, tuple)
                      IN IF i = 0 THEN \A r \in Stored(published) : ~Covers(r, tuple)
                                  ELSE BestOf(published, tuple, published[i])
    BY DEF VerdictIsBest
  <2> DEFINE tuple == BuildTuple(p, clock)
             i == FirstMatch(published, tuple)
  <2>1. /\ published \in Seq(Storable) /\ Sorted(published) /\ clock \in Nat
        /\ \A j \in DOMAIN published : published[j] \in Storable /\ SkRuleValidate(published[j])
    BY GoodDomain DEF TypeInv, ArraysOK, Good
  <2>2. \A j \in DOMAIN published :
          SkRuleMatch(published[j], tuple) <=> Covers(published[j], tuple)
    BY <2>1, MatchIsCover
  <2> HIDE DEF tuple
  <2>3. /\ i = 0 => \A j \in DOMAIN published : ~SkRuleMatch(published[j], tuple)
        /\ i # 0 => i \in DOMAIN published /\ SkRuleMatch(published[i], tuple)
    BY <2>1, FirstMatchIsFirst
  <2>4. i # 0 => \A j \in DOMAIN published : SkRuleMatch(published[j], tuple) =>
                   j = i \/ SkRulePrecedes(published[i], published[j])
    BY <2>1, FirstMatchIsStrongest
  <2>5. \A j \in DOMAIN published : published[j].action \in Actions /\ Rankable(published[j])
    BY <2>1, StoredIsCandidate DEF SkRuleValidate
  <2> HIDE DEF i
  <2>6. CASE i = 0
    BY <2>2, <2>3, <2>6 DEF Stored, tuple, i
  <2>7. CASE i # 0
    <3>1. Covers(published[i], tuple)
      BY <2>2, <2>3, <2>7
    <3>2. ASSUME NEW j \in DOMAIN published, Covers(published[j], tuple)
          PROVE  published[j] = published[i] \/ Beats(published[i], published[j])
      BY <2>2, <2>3, <2>4, <2>5, <2>7, <3>2, PrecedesIsBeats
    <3>3. BestOf(published, tuple, published[i])
      BY <3>1, <3>2 DEF BestOf, ToSet
    <3>4. QED
      BY <2>7, <3>3 DEF tuple, i
  <2>8. QED
    BY <2>6, <2>7
<1>2. QED
  BY <1>1, InitTypes, NextTypes, PTL DEF Spec
=============================================================================
