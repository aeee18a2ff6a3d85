-------------------------- MODULE FlowTable_proofs --------------------------
(***************************************************************************)
(* Proofs about FlowTable, for any threads, flows, callouts and contexts.  *)
(*                                                                         *)
(* FlowInv is inductive.  Its heart is HeldInv: a context has as many      *)
(* references as holders, and is given back when it has none, unless a     *)
(* rollback and the teardown have both unlinked it.  ListsInv              *)
(* and OwnerInv say which lists and which attach a context can be in at    *)
(* one time, EngineInv what the filter engine can know of it, LiveInv that *)
(* what the engine knows still has the reference of the table, and         *)
(* SpentInv that an attach takes at most one entry off the teardown's list.*)
(***************************************************************************)
EXTENDS FlowTable, FiniteSetTheorems, SequenceTheorems, DataFacts, TLAPS

Stripping == {"taking", "popped", "release", "relink"}

\* An attach that has not got beyond its own context, the first of them the only one to
\* know it; one that may still associate it.
Lone   == {"allocated", "returnTable"}
Shared == {"linked", "failed", "attached", "returnCaller"}
Owning == {"allocated", "linked", "failed", "returnTable"}
Pending == {"allocated", "linked", "failed"}

FlowTyped ==
  /\ inited \in BOOLEAN /\ corrupt \in BOOLEAN /\ entries \in 0 .. CountMod - 1
  /\ ref \in [Ctxs -> Int] /\ flowId \in [Ctxs -> Flows]
  /\ fresh \subseteq Ctxs /\ freed \subseteq Ctxs /\ fresh \cap freed = {}
  /\ pc \in [Threads -> {"idle"} \cup Lone \cup Shared]
  /\ mine \in [Threads -> Ctxs \cup {NoCtx}]
  /\ open \subseteq Flows /\ assoc \in [Flows -> Ctxs \cup {NoCtx}] /\ notify \subseteq Ctxs
  /\ registered \subseteq Callouts /\ leaked \subseteq registered
  /\ target \in Callouts \cup {NoCallout}
  /\ remover \in {"idle", "unregister", "strip", "take"} \cup Stripping
  /\ round \in 0 .. BusyRetries /\ stolen \in Nat
  /\ raced \subseteq Ctxs /\ robbed \subseteq Flows

\* A context is in one list at most, and there once; the teardown has entries in hand
\* only between its steps, and a callout that is registered.
ListsInv ==
  /\ table \in Seq(Ctxs) /\ IsInjective(table)
  /\ stale \in Seq(Ctxs) /\ IsInjective(stale)
  /\ ToSet(table) \cap ToSet(stale) = {}
  /\ popped \in Ctxs \cup {NoCtx} /\ ~Linked(popped)
  /\ popped # NoCtx <=> remover \in Stripping
  /\ stale # <<>> => remover \in {"strip", "take"} \cup Stripping
  /\ remover # "idle" => target \in registered \ leaked
  /\ ~inited => registered = {} /\ remover = "idle"

\* A context on its way into the table, or back from it after a failure, has one
\* attacher, and the engine does not know it.
OwnerInv ==
  /\ \A p \in Threads : pc[p] = "idle" <=> mine[p] = NoCtx
  /\ \A p, q \in Threads :
       mine[p] = mine[q] /\ pc[p] \in Owning /\ pc[q] \in Owning => p = q
  /\ \A p, q \in Threads : mine[p] = mine[q] /\ pc[p] = "allocated" => p = q
  /\ \A p \in Threads : mine[p] \in raced => pc[p] \notin Pending
  /\ \A p \in Threads : pc[p] \in Lone /\ mine[p] \notin raced => ~Tracked(mine[p])
  /\ \A p \in Threads : pc[p] \in Owning =>
       mine[p] \notin notify /\ \A f \in Flows : assoc[f] # mine[p]

\* What the engine knows of a context, or an attach holds, has a callout that is
\* registered; a context never allocated is nowhere.
EngineInv ==
  /\ \A f \in Flows : assoc[f] # NoCtx =>
       flowId[assoc[f]] = f /\ f \in open /\ CalloutOf[f] \in registered
  /\ \A c \in notify : flowId[c] \notin open /\ CalloutOf[flowId[c]] \in registered
  /\ \A p \in Threads : mine[p] # NoCtx => CalloutOf[flowId[mine[p]]] \in registered
  /\ \A c \in fresh :
       /\ ~Tracked(c) /\ c \notin notify
       /\ \A f \in Flows : assoc[f] # c
       /\ \A p \in Threads : mine[p] # c

\* The references are the holders, and a context without any was given back.  One that
\* was unlinked twice has fewer, and is given back too early, but not forgotten.
HeldAt(c) ==
  IF c \in raced THEN c \notin fresh /\ (c \in freed \/ ref[c] \in 1 .. Held(c))
  ELSE ref[c] = Held(c) /\ (c \in fresh \cup freed <=> Held(c) = 0)

HeldInv == \A c \in Ctxs : HeldAt(c)

\* The engine has it, or will hear of it.
Known(c) ==
  \/ assoc[flowId[c]] = c
  \/ c \in notify
  \/ \E p \in Threads : mine[p] = c /\ pc[p] = "linked"

\* It was not unlinked twice, it still has the table's reference, and the strip is not
\* about to return it.
LiveInv ==
  \A c \in Ctxs : Known(c) =>
    /\ c \notin raced
    /\ flowId[c] \notin robbed => Tracked(c) /\ ~(c = popped /\ remover = "release")

\* Contexts an attach may still take off the teardown's list, one time each.
Unspent == fresh \cup {c \in Ctxs : \E p \in Threads : mine[p] = c /\ pc[p] \in Pending}

SpentInv == stolen + Cardinality(Unspent) <= Cardinality(Ctxs)

FlowInv ==
  /\ FlowTyped /\ ListsInv /\ OwnerInv /\ EngineInv
  /\ HeldInv /\ LiveInv /\ SpentInv /\ CountExact /\ DestroyFreesAll

-----------------------------------------------------------------------------
(***************************************************************************)
(* Only: the entries of a list that are in a set, none twice.              *)
(***************************************************************************)
\* f is what the loop over the first n entries keeps after each of them.
Keeps(list, S, n, f) ==
  f = [i \in 0 .. n |->
         IF i = 0 THEN <<>>
         ELSE IF list[i] \in S THEN Append(f[i - 1], list[i]) ELSE f[i - 1]]

LEMMA KeepsExists ==
  ASSUME NEW R, NEW list \in Seq(R), NEW S
  PROVE  \E f : Keeps(list, S, Len(list), f)
<1> DEFINE stuck == {n \in 0 .. Len(list) : \A f : ~Keeps(list, S, n, f)}
<1>1. Len(list) \in Nat
  BY LenProperties
<1>2. SUFFICES ASSUME stuck # {} PROVE FALSE
  <2>1. Len(list) \in 0 .. Len(list)
    BY <1>1
  <2> QED
    BY <2>1
<1>3. PICK n \in stuck : \A j \in stuck : n <= j
  <2>1. stuck \subseteq Nat
    BY <1>1
  <2> QED
    BY <1>2, <2>1, LeastElement
<1>4. n \in 0 .. Len(list) /\ \A f : ~Keeps(list, S, n, f)
  OBVIOUS
<1>5. CASE n = 0
  <2> DEFINE f == [i \in 0 .. 0 |-> <<>>]
  <2>1. \A i \in 0 .. 0 : i = 0
    OBVIOUS
  <2>2. f = [i \in 0 .. 0 |->
               IF i = 0 THEN <<>>
               ELSE IF list[i] \in S THEN Append(f[i - 1], list[i]) ELSE f[i - 1]]
    BY <2>1
  <2> QED
    BY <1>4, <1>5, <2>2 DEF Keeps
<1>6. CASE n # 0
  <2>1. n - 1 \in 0 .. Len(list) /\ n - 1 \notin stuck
    BY <1>1, <1>3, <1>4, <1>6
  <2>2. PICK g : Keeps(list, S, n - 1, g)
    BY <2>1
  <2> DEFINE last == IF list[n] \in S THEN Append(g[n - 1], list[n]) ELSE g[n - 1]
             f == [i \in 0 .. n |-> IF i = n THEN last ELSE g[i]]
  <2> HIDE DEF last
  <2>3. \A i \in 0 .. n :
          f[i] = IF i = 0 THEN <<>>
                 ELSE IF list[i] \in S THEN Append(f[i - 1], list[i]) ELSE f[i - 1]
    <3> SUFFICES ASSUME NEW i \in 0 .. n
                 PROVE  f[i] = IF i = 0 THEN <<>>
                               ELSE IF list[i] \in S THEN Append(f[i - 1], list[i])
                               ELSE f[i - 1]
      OBVIOUS
    <3>1. CASE i = n
      <4>1. f[n] = last /\ f[n - 1] = g[n - 1]
        BY <1>1, <1>4, <1>6
      <4> HIDE DEF f
      <4> QED
        BY <1>6, <3>1, <4>1 DEF last
    <3>2. CASE i # n
      <4>1. i \in 0 .. n - 1 /\ f[i] = g[i]
        BY <1>1, <1>4, <3>2
      <4>2. g[i] = IF i = 0 THEN <<>>
                   ELSE IF list[i] \in S THEN Append(g[i - 1], list[i]) ELSE g[i - 1]
        BY <2>2, <4>1 DEF Keeps
      <4>3. CASE i = 0
        BY <4>1, <4>2, <4>3
      <4>4. CASE i # 0
        <5>1. f[i - 1] = g[i - 1]
          BY <1>1, <1>4, <4>1, <4>4
        <5> HIDE DEF f
        <5> QED
          BY <4>1, <4>2, <4>4, <5>1
      <4> QED
        BY <4>3, <4>4
    <3> QED
      BY <3>1, <3>2
  <2>4. f = [i \in 0 .. n |-> f[i]]
    OBVIOUS
  <2> HIDE DEF f
  <2>5. f = [i \in 0 .. n |->
               IF i = 0 THEN <<>>
               ELSE IF list[i] \in S THEN Append(f[i - 1], list[i]) ELSE f[i - 1]]
    BY <2>3, <2>4
  <2> QED
    BY <1>4, <2>5 DEF Keeps
<1> QED
  BY <1>5, <1>6

\* The entries of the first n places.
First(list, n) == {list[j] : j \in 1 .. n}

LEMMA OnlyShape ==
  ASSUME NEW R, NEW list \in Seq(R), NEW S
  PROVE  /\ Only(list, S) \in Seq(R)
         /\ ToSet(Only(list, S)) = ToSet(list) \cap S
         /\ IsInjective(list) => IsInjective(Only(list, S))
<1> DEFINE f == CHOOSE g : Keeps(list, S, Len(list), g)
           N == Len(list)
<1>1. Keeps(list, S, N, f)
  BY KeepsExists
<1>2. Only(list, S) = f[N]
  BY DEF Only, Keeps
<1> HIDE DEF f, N
<1>3. N \in Nat /\ DOMAIN list = 1 .. N
  BY LenProperties DEF N
<1>4. f[0] = <<>>
        /\ \A i \in 1 .. N :
             f[i] = IF list[i] \in S THEN Append(f[i - 1], list[i]) ELSE f[i - 1]
  <2>1. f = [i \in 0 .. N |->
               IF i = 0 THEN <<>>
               ELSE IF list[i] \in S THEN Append(f[i - 1], list[i]) ELSE f[i - 1]]
    BY <1>1 DEF Keeps
  <2>2. 0 \in 0 .. N /\ \A i \in 1 .. N : i \in 0 .. N /\ i # 0
    BY <1>3
  <2>3. \A i \in 0 .. N :
          f[i] = IF i = 0 THEN <<>>
                 ELSE IF list[i] \in S THEN Append(f[i - 1], list[i]) ELSE f[i - 1]
    BY <2>1
  <2> QED
    BY <2>2, <2>3
<1> DEFINE Good(i) == /\ f[i] \in Seq(R)
                      /\ ToSet(f[i]) = First(list, i) \cap S
                      /\ IsInjective(list) => IsInjective(f[i])
           bad == {i \in 0 .. N : ~Good(i)}
<1>5. Good(0)
  <2>1. 1 .. 0 = {} /\ DOMAIN f[0] = {} /\ f[0] \in Seq(R)
    BY <1>4
  <2> QED
    BY <2>1 DEF First, ToSet, IsInjective
<1>6. ASSUME NEW i \in 1 .. N, Good(i - 1) PROVE Good(i)
  <2> DEFINE h == f[i - 1]
             e == list[i]
  <2>1. e \in R /\ h \in Seq(R) /\ ToSet(h) = First(list, i - 1) \cap S
        /\ (IsInjective(list) => IsInjective(h))
    BY <1>3, <1>6, ElementOfSeq
  <2>2. First(list, i) = First(list, i - 1) \cup {e}
    <3>1. 1 .. i = (1 .. i - 1) \cup {i}
      BY <1>3
    <3> QED
      BY <3>1 DEF First
  <2>3. f[i] = IF e \in S THEN Append(h, e) ELSE h
    BY <1>4
  <2>4. IsInjective(list) => e \notin ToSet(h)
    <3>1. ASSUME IsInjective(list), NEW j \in 1 .. i - 1 PROVE list[j] # e
      <4>1. j \in 1 .. N /\ j # i
        BY <1>3
      <4> QED
        BY <1>3, <3>1, <4>1 DEF IsInjective
    <3> QED
      BY <2>1, <3>1 DEF First
  <2> HIDE DEF h, e
  <2>5. CASE e \in S
    <3>1. f[i] = Append(h, e)
      BY <2>3, <2>5
    <3>2. /\ Append(h, e) \in Seq(R) /\ ToSet(Append(h, e)) = ToSet(h) \cup {e}
          /\ IsInjective(h) /\ e \notin ToSet(h) => IsInjective(Append(h, e))
      BY <2>1, AppendShape
    <3> QED
      BY <2>1, <2>2, <2>4, <2>5, <3>1, <3>2
  <2>6. CASE e \notin S
    BY <2>1, <2>2, <2>3, <2>6
  <2> QED
    BY <2>5, <2>6
<1>7. bad = {}
  <2> SUFFICES ASSUME bad # {} PROVE FALSE
    OBVIOUS
  <2>1. bad \subseteq Nat
    BY <1>3
  <2>2. PICK n \in bad : \A j \in bad : n <= j
    BY <2>1, LeastElement
  <2> HIDE DEF Good
  <2>3. n \in 0 .. N /\ ~Good(n)
    OBVIOUS
  <2>4. n # 0
    BY <1>5, <2>3
  <2>5. n \in 1 .. N /\ n - 1 \in 0 .. N /\ ~(n <= n - 1)
    BY <1>3, <2>3, <2>4
  <2>6. Good(n - 1)
    BY <2>2, <2>5
  <2> QED
    BY <1>6, <2>3, <2>5, <2>6
<1>8. Good(N)
  <2>1. N \in 0 .. N
    BY <1>3
  <2> QED
    BY <1>7, <2>1
<1>9. First(list, N) = ToSet(list)
  BY <1>3 DEF First, ToSet
<1> QED
  BY <1>2, <1>8, <1>9

\* The contexts in a list.
LEMMA ListCounts ==
  ASSUME NEW list \in Seq(Ctxs), IsInjective(list)
  PROVE  /\ ToSet(list) \subseteq Ctxs /\ IsFiniteSet(ToSet(list))
         /\ Len(list) \in Nat /\ Cardinality(ToSet(list)) = Len(list)
<1>1. \A i \in DOMAIN list : list[i] \in Ctxs
  BY ElementOfSeq, LenProperties
<1> QED
  BY <1>1, InjectiveCounts, LenProperties DEF ToSet

LEMMA WithoutShape ==
  ASSUME NEW list \in Seq(Ctxs), IsInjective(list), NEW c \in Ctxs
  PROVE  /\ Without(list, c) \in Seq(Ctxs) /\ IsInjective(Without(list, c))
         /\ ToSet(Without(list, c)) = ToSet(list) \ {c}
         /\ c \in ToSet(list) => Len(Without(list, c)) = Len(list) - 1
         /\ c \notin ToSet(list) => Len(Without(list, c)) = Len(list)
<1> DEFINE new == Without(list, c)
<1>1. /\ new \in Seq(Ctxs) /\ IsInjective(new)
      /\ ToSet(new) = ToSet(list) \cap (Ctxs \ {c})
  BY OnlyShape DEF Without
<1>2. /\ ToSet(list) \subseteq Ctxs /\ IsFiniteSet(ToSet(list))
      /\ Len(list) \in Nat /\ Cardinality(ToSet(list)) = Len(list)
  BY ListCounts
<1>3. Cardinality(ToSet(new)) = Len(new)
  BY <1>1, ListCounts
<1> HIDE DEF new
<1>4. ToSet(new) = ToSet(list) \ {c}
  BY <1>1, <1>2
<1>5. c \in ToSet(list) => Len(new) = Len(list) - 1
  BY <1>2, <1>3, <1>4, FS_RemoveElement
<1>6. c \notin ToSet(list) => Len(new) = Len(list)
  <2>1. c \notin ToSet(list) => ToSet(new) = ToSet(list)
    BY <1>4
  <2> QED
    BY <1>2, <1>3, <2>1
<1> QED
  BY <1>1, <1>4, <1>5, <1>6 DEF new

LEMMA SplitCounts ==
  ASSUME NEW list \in Seq(Ctxs), IsInjective(list), NEW S
  PROVE  /\ Len(Only(list, S)) \in Nat /\ Len(Only(list, Ctxs \ S)) \in Nat
         /\ Len(Only(list, S)) + Len(Only(list, Ctxs \ S)) = Len(list)
<1> DEFINE a == Only(list, S)
           b == Only(list, Ctxs \ S)
<1>1. /\ a \in Seq(Ctxs) /\ IsInjective(a) /\ ToSet(a) = ToSet(list) \cap S
      /\ b \in Seq(Ctxs) /\ IsInjective(b) /\ ToSet(b) = ToSet(list) \cap (Ctxs \ S)
  BY OnlyShape
<1> HIDE DEF a, b
<1>2. /\ ToSet(list) \subseteq Ctxs /\ IsFiniteSet(ToSet(list))
      /\ Len(list) \in Nat /\ Cardinality(ToSet(list)) = Len(list)
  BY ListCounts
<1>3. /\ IsFiniteSet(ToSet(a)) /\ Len(a) \in Nat /\ Cardinality(ToSet(a)) = Len(a)
      /\ IsFiniteSet(ToSet(b)) /\ Len(b) \in Nat /\ Cardinality(ToSet(b)) = Len(b)
  BY <1>1, ListCounts
<1>4. ToSet(a) \cup ToSet(b) = ToSet(list) /\ ToSet(a) \cap ToSet(b) = {}
  BY <1>1, <1>2
<1>5. Cardinality(ToSet(list)) = Cardinality(ToSet(a)) + Cardinality(ToSet(b))
  <2>1. Cardinality(ToSet(a) \cap ToSet(b)) = 0
    BY <1>4, FS_EmptySet
  <2>2. Cardinality(ToSet(a) \cup ToSet(b)) =
          Cardinality(ToSet(a)) + Cardinality(ToSet(b)) - Cardinality(ToSet(a) \cap ToSet(b))
    BY <1>3, FS_Union
  <2>3. Cardinality(ToSet(list)) = Cardinality(ToSet(a) \cup ToSet(b))
    BY <1>4
  <2> DEFINE x == Cardinality(ToSet(a))
             y == Cardinality(ToSet(b))
  <2>4. x \in Nat /\ y \in Nat
    BY <1>3
  <2> QED
    BY <2>1, <2>2, <2>3, <2>4
<1> QED
  BY <1>2, <1>3, <1>5 DEF a, b

-----------------------------------------------------------------------------
(***************************************************************************)
(* Held: the reference of the table, and those each attach has.            *)
(***************************************************************************)
TableRef(c) == IF Tracked(c) THEN 1 ELSE 0

Refs(p, c) ==
  IF mine[p] # c THEN 0 ELSE IF pc[p] \in Lone THEN 2 ELSE IF pc[p] \in Shared THEN 1 ELSE 0

Loners(c) == AttachersAt(c, Lone)
Sharers(c) == AttachersAt(c, Shared)

Counted(c) ==
  /\ IsFiniteSet(Loners(c)) /\ Cardinality(Loners(c)) \in Nat
  /\ IsFiniteSet(Sharers(c)) /\ Cardinality(Sharers(c)) \in Nat
  /\ TableRef(c) \in Nat /\ Held(c) \in Nat
  /\ Held(c) = TableRef(c) + 2 * Cardinality(Loners(c)) + Cardinality(Sharers(c))

LEMMA HeldIsCounted == \A c \in Ctxs : Counted(c)
<1> SUFFICES ASSUME NEW c \in Ctxs PROVE Counted(c)
  OBVIOUS
<1>1. Loners(c) \subseteq Threads /\ Sharers(c) \subseteq Threads
  BY DEF Loners, Sharers, AttachersAt
<1>2. /\ IsFiniteSet(Loners(c)) /\ Cardinality(Loners(c)) \in Nat
      /\ IsFiniteSet(Sharers(c)) /\ Cardinality(Sharers(c)) \in Nat
  BY <1>1, FS_Subset, FS_CardinalityType, FlowAssumption
<1>3. TableRef(c) \in Nat
  BY DEF TableRef
<1>4. Held(c) = TableRef(c) + 2 * Cardinality(Loners(c)) + Cardinality(Sharers(c))
  BY DEF Held, TableRef, Loners, Sharers, Lone, Shared
<1> QED
  BY <1>2, <1>3, <1>4 DEF Counted

LEMMA HeldIsCountedThen == (\A c \in Ctxs : Counted(c))'
  BY HeldIsCounted, PTL

\* Nobody but p moves.
OnlyMoves(p) == \A q \in Threads : q # p => pc'[q] = pc[q] /\ mine'[q] = mine[q]

\* A step of p changes the references to c by what p itself holds of it.
LEMMA HeldMoves ==
  ASSUME NEW c \in Ctxs, NEW p \in Threads, OnlyMoves(p)
  PROVE  /\ Held(c) \in Nat /\ Held(c)' \in Nat
         /\ Held(c)' + TableRef(c) + Refs(p, c) = Held(c) + TableRef(c)' + Refs(p, c)'
         /\ Held(c) >= TableRef(c) + Refs(p, c)
<1> DEFINE Common(L) == AttachersAt(c, L) \ {p}
<1>1. Counted(c) /\ Counted(c)'
  BY HeldIsCounted, HeldIsCountedThen
<1>2. /\ Loners(c) \ {p} = Loners(c)' \ {p} /\ Sharers(c) \ {p} = Sharers(c)' \ {p}
  BY DEF OnlyMoves, Loners, Sharers, AttachersAt
<1>3. Lone \cap Shared = {}
  BY DEF Lone, Shared
<1> DEFINE l == Cardinality(Loners(c) \ {p})
           h == Cardinality(Sharers(c) \ {p})
<1>4. /\ l \in Nat /\ h \in Nat
      /\ Cardinality(Loners(c)) = IF p \in Loners(c) THEN l + 1 ELSE l
      /\ Cardinality(Sharers(c)) = IF p \in Sharers(c) THEN h + 1 ELSE h
      /\ Cardinality(Loners(c)') = IF p \in Loners(c)' THEN l + 1 ELSE l
      /\ Cardinality(Sharers(c)') = IF p \in Sharers(c)' THEN h + 1 ELSE h
  <2>1. ASSUME NEW A, IsFiniteSet(A)
        PROVE  /\ Cardinality(A \ {p}) \in Nat
               /\ Cardinality(A) = IF p \in A THEN Cardinality(A \ {p}) + 1
                                               ELSE Cardinality(A \ {p})
    <3>1. CASE p \in A
      <4>1. IsFiniteSet(A \ {p}) /\ Cardinality(A \ {p}) = Cardinality(A) - 1
        BY <2>1, <3>1, FS_RemoveElement
      <4>2. Cardinality(A) \in Nat /\ Cardinality(A \ {p}) \in Nat
        BY <2>1, <4>1, FS_CardinalityType
      <4> QED
        BY <3>1, <4>1, <4>2
    <3>2. CASE p \notin A
      <4>1. A \ {p} = A
        BY <3>2
      <4> QED
        BY <2>1, <3>2, <4>1, FS_CardinalityType
    <3> QED
      BY <3>1, <3>2
  <2>2. IsFiniteSet(Loners(c)) /\ IsFiniteSet(Sharers(c))
        /\ IsFiniteSet(Loners(c)') /\ IsFiniteSet(Sharers(c)')
    BY <1>1 DEF Counted
  <2> QED
    BY <1>2, <2>1, <2>2
<1>5. /\ Refs(p, c) = (IF p \in Loners(c) THEN 2 ELSE 0) + (IF p \in Sharers(c) THEN 1 ELSE 0)
      /\ Refs(p, c)' = (IF p \in Loners(c)' THEN 2 ELSE 0)
                         + (IF p \in Sharers(c)' THEN 1 ELSE 0)
  BY <1>3 DEF Refs, Loners, Sharers, AttachersAt
<1> QED
  BY <1>1, <1>4, <1>5 DEF Counted

\* A step of no attach.
LEMMA HeldStays ==
  ASSUME NEW c \in Ctxs, pc' = pc, mine' = mine
  PROVE  /\ Held(c) \in Nat /\ Held(c)' \in Nat
         /\ Held(c)' + TableRef(c) = Held(c) + TableRef(c)'
         /\ Held(c) >= TableRef(c)
<1>1. Counted(c) /\ Counted(c)'
  BY HeldIsCounted, HeldIsCountedThen
<1>2. Loners(c) = Loners(c)' /\ Sharers(c) = Sharers(c)'
  BY DEF Loners, Sharers, AttachersAt
<1> QED
  BY <1>1, <1>2 DEF Counted

\* What only p may hold, or nobody.
LEMMA HeldByOne ==
  ASSUME NEW c \in Ctxs, NEW p \in Threads, \A q \in Threads : mine[q] = c => q = p
  PROVE  Held(c) = TableRef(c) + Refs(p, c)
<1>1. Counted(c)
  BY HeldIsCounted
<1>2. Lone \cap Shared = {}
  BY DEF Lone, Shared
<1>3. /\ Loners(c) = IF mine[p] = c /\ pc[p] \in Lone THEN {p} ELSE {}
      /\ Sharers(c) = IF mine[p] = c /\ pc[p] \in Shared THEN {p} ELSE {}
  BY DEF Loners, Sharers, AttachersAt
<1>4. Cardinality({p}) = 1 /\ Cardinality({}) = 0
  BY FS_Singleton, FS_EmptySet
<1> QED
  BY <1>1, <1>2, <1>3, <1>4 DEF Counted, Refs

LEMMA HeldByNone ==
  ASSUME NEW c \in Ctxs, \A q \in Threads : mine[q] # c
  PROVE  Held(c) = TableRef(c)
<1>1. Counted(c)
  BY HeldIsCounted
<1>2. Loners(c) = {} /\ Sharers(c) = {}
  BY DEF Loners, Sharers, AttachersAt
<1>3. Cardinality({}) = 0
  BY FS_EmptySet
<1> QED
  BY <1>1, <1>2, <1>3 DEF Counted

-----------------------------------------------------------------------------
(***************************************************************************)
(* What steps have in common.                                              *)
(***************************************************************************)
LEMMA EntriesMove ==
  ASSUME FlowInv, NEW k \in Int
  PROVE  /\ Add(k) \in 0 .. CountMod - 1 /\ Add(k) = (Len(table) - stolen + k) % CountMod
         /\ Len(table) \in Nat /\ stolen \in Nat
<1>1. CountMod \in Nat \ {0}
  <2>1. Cardinality(Ctxs) \in Nat
    BY FS_CardinalityType, FlowAssumption
  <2> QED
    BY <2>1, FlowAssumption
<1>2. Len(table) \in Nat /\ stolen \in Nat /\ entries = (Len(table) - stolen) % CountMod
  BY LenProperties DEF FlowInv, FlowTyped, ListsInv, CountExact
<1> DEFINE a == Len(table) - stolen
<1>3. a \in Int /\ entries = a % CountMod
  BY <1>2
<1>4. entries \in Int
  BY DEF FlowInv, FlowTyped
<1> HIDE DEF a
<1>5. ((a % CountMod) + k) % CountMod = (a + k) % CountMod
  BY <1>1, <1>3, SumRemainder
<1>6. (entries + k) % CountMod \in 0 .. CountMod - 1
  <2>1. entries + k \in Int
    BY <1>4
  <2> QED
    BY <1>1, <2>1, Remainder
<1> QED
  BY <1>2, <1>3, <1>5, <1>6 DEF Add, a

\* Nothing changes hands on the lists.
LEMMA TrackingStays ==
  ASSUME table' = table, stale' = stale, popped' = popped
  PROVE  \A c : (Linked(c)' <=> Linked(c)) /\ (Tracked(c)' <=> Tracked(c))
                /\ TableRef(c)' = TableRef(c)
  BY DEF Linked, Tracked, TableRef

LEMMA SpentStays ==
  ASSUME SpentInv, FlowTyped, Unspent' \subseteq Unspent, stolen' = stolen
  PROVE  SpentInv'
<1>1. Unspent \subseteq Ctxs /\ stolen \in Nat
  BY DEF Unspent, FlowTyped
<1>2. IsFiniteSet(Unspent) /\ IsFiniteSet(Ctxs)
  BY <1>1, FS_Subset, FlowAssumption
<1>3. IsFiniteSet(Unspent') /\ Cardinality(Unspent') <= Cardinality(Unspent)
  BY <1>2, FS_Subset
<1>4. /\ Cardinality(Unspent) \in Nat /\ Cardinality(Unspent') \in Nat
      /\ Cardinality(Ctxs) \in Nat
  BY <1>2, <1>3, FS_CardinalityType
<1> QED
  BY <1>1, <1>3, <1>4 DEF SpentInv

\* Nothing has happened to the references of d.
LEMMA HeldAtStays ==
  ASSUME HeldInv, NEW d \in Ctxs, Held(d)' = Held(d), ref'[d] = ref[d], raced' = raced,
         d \in fresh' <=> d \in fresh, d \in freed' <=> d \in freed
  PROVE  HeldAt(d)'
  BY DEF HeldInv, HeldAt

\* The step is of no attach and leaves the lists, the references and the contexts alone.
LEMMA HeldUntouched ==
  ASSUME HeldInv, pc' = pc, mine' = mine, ref' = ref, fresh' = fresh, freed' = freed,
         raced' = raced,
         \A c \in Ctxs : TableRef(c)' = TableRef(c)
  PROVE  HeldInv'
<1> SUFFICES ASSUME NEW c \in Ctxs
             PROVE  HeldAt(c)'
  BY DEF HeldInv
<1>1. Held(c)' = Held(c)
  <2>1. /\ Held(c) \in Nat /\ Held(c)' \in Nat /\ TableRef(c)' = TableRef(c)
        /\ Held(c)' + TableRef(c) = Held(c) + TableRef(c)' /\ Held(c) >= TableRef(c)
    BY HeldStays
  <2>2. TableRef(c) \in Nat
    BY DEF TableRef
  <2> QED
    BY <2>1, <2>2
<1> QED
  BY <1>1, HeldAtStays

LEMMA UnspentStays ==
  ASSUME pc' = pc, mine' = mine, fresh' = fresh
  PROVE  Unspent' = Unspent
  BY DEF Unspent

LEMMA KnownStays ==
  ASSUME pc' = pc, mine' = mine, flowId' = flowId, assoc' = assoc, notify' = notify
  PROVE  \A c : Known(c)' <=> Known(c)
  BY DEF Known

\* Initially nothing is held.
LEMMA FlowStarts == Init => FlowInv
<1> SUFFICES ASSUME Init PROVE FlowInv
  OBVIOUS
<1> USE DEF Init
<1>1. Cardinality(Ctxs) \in Nat /\ CountMod \in Nat /\ CountMod > 0
      /\ 0 \in 0 .. CountMod - 1 /\ 0 \in 0 .. BusyRetries
  BY FS_CardinalityType, FlowAssumption
<1>2. FlowTyped
  <2>1. (CHOOSE f \in Flows : TRUE) \in Flows
    BY FlowAssumption
  <2>2. ref \in [Ctxs -> Int]
    <3>1. 0 \in Int
      OBVIOUS
    <3> QED
      BY <3>1, Zenon
  <2> QED
    BY <1>1, <2>1, <2>2 DEF FlowTyped
<1>3. \A c \in Ctxs : ~Tracked(c) /\ ToSet(table) = {} /\ ToSet(stale) = {}
  BY FlowAssumption DEF Tracked, Linked, ToSet
<1>4. ToSet(table) = {} /\ ToSet(stale) = {}
  BY DEF ToSet
<1>5. ListsInv
  BY <1>4 DEF ListsInv, Stripping, IsInjective, Linked
<1>6. OwnerInv
  BY DEF OwnerInv, Owning, Lone
<1>7. EngineInv
  BY <1>3, FlowAssumption DEF EngineInv
<1>8. HeldInv
  <2> SUFFICES ASSUME NEW c \in Ctxs PROVE Held(c) = 0
    BY DEF HeldInv, HeldAt
  <2>1. \A q \in Threads : mine[q] # c
    BY FlowAssumption
  <2> QED
    BY <1>3, <2>1, HeldByNone DEF TableRef
<1>9. LiveInv
  BY FlowAssumption DEF LiveInv, Known
<1>10. SpentInv
  <2>1. Unspent = Ctxs
    BY FlowAssumption DEF Unspent, Pending
  <2> QED
    BY <1>1, <2>1 DEF SpentInv
<1>11. CountExact
  <2>1. Len(table) - stolen = 0
    OBVIOUS
  <2>2. 0 = CountMod * 0 + 0
    BY <1>1
  <2>3. 0 % CountMod = 0
    BY <1>1, <2>2, RemainderIs
  <2> QED
    BY <2>1, <2>3 DEF CountExact
<1>12. DestroyFreesAll
  BY DEF DestroyFreesAll
<1> QED
  BY <1>2, <1>5, <1>6, <1>7, <1>8, <1>9, <1>10, <1>11, <1>12 DEF FlowInv

-----------------------------------------------------------------------------
(***************************************************************************)
(* The steps of an attach.                                                 *)
(***************************************************************************)
LEMMA AllocateKeeps ==
  ASSUME FlowInv, NEW p \in Threads, NEW f \in Flows, NEW c \in Ctxs, Allocate(p, f, c)
  PROVE  FlowInv'
<1> USE DEF Allocate, Goto, lists, engine, remove, history
<1>1. FlowTyped /\ ListsInv /\ OwnerInv /\ EngineInv
  BY DEF FlowInv
<1>2. c \in fresh /\ pc[p] = "idle" /\ mine[p] = NoCtx /\ c # NoCtx
  BY <1>1, FlowAssumption DEF OwnerInv
<1>3. /\ mine'[p] = c /\ pc'[p] = "allocated" /\ OnlyMoves(p)
      /\ flowId'[c] = f /\ \A d \in Ctxs : d # c => flowId'[d] = flowId[d]
  BY <1>1 DEF FlowTyped, OnlyMoves
<1>4. \A d : (Linked(d)' <=> Linked(d)) /\ (Tracked(d)' <=> Tracked(d))
             /\ TableRef(d)' = TableRef(d)
  BY TrackingStays
<1>5. FlowTyped'
  BY <1>1 DEF FlowTyped, Lone
<1>6. ListsInv'
  BY <1>1, <1>4 DEF ListsInv
<1>7. OwnerInv'
  <2>1. \A q \in Threads : mine[q] # c
    BY <1>1, <1>2 DEF EngineInv
  <2>2. ~Tracked(c) /\ c \notin notify /\ \A g \in Flows : assoc[g] # c
    BY <1>1, <1>2 DEF EngineInv
  <2>3. c \notin raced
    BY <1>2 DEF FlowInv, HeldInv, HeldAt
  <2> QED
    BY <1>1, <1>2, <1>3, <1>4, <2>1, <2>2, <2>3 DEF OwnerInv, OnlyMoves, Owning, Lone
<1>8. EngineInv'
  BY <1>1, <1>2, <1>3, <1>4 DEF EngineInv, OnlyMoves, FlowTyped
<1>9. HeldInv'
  <2> SUFFICES ASSUME NEW d \in Ctxs
               PROVE  HeldAt(d)'
    BY DEF HeldInv
  <2>1. /\ Held(d) \in Nat /\ Held(d)' \in Nat /\ TableRef(d)' = TableRef(d)
        /\ Held(d)' + TableRef(d) + Refs(p, d) = Held(d) + TableRef(d)' + Refs(p, d)'
    BY <1>3, <1>4, HeldMoves
  <2>2. TableRef(d) \in Nat
    BY DEF TableRef
  <2>3. HeldAt(d) /\ HeldInv
    BY DEF FlowInv, HeldInv
  <2>4. CASE d = c
    <3>1. Refs(p, d) = 0 /\ Refs(p, d)' = 2
      BY <1>2, <1>3, <2>4 DEF Refs, Lone
    <3>2. ref'[d] = 2 /\ d \notin fresh' \cup freed' /\ Held(d) = 0 /\ d \notin raced'
      BY <1>1, <1>2, <2>3, <2>4 DEF FlowTyped, HeldAt
    <3> QED
      BY <2>1, <2>2, <3>1, <3>2 DEF HeldAt
  <2>5. CASE d # c
    <3>1. Refs(p, d) = 0 /\ Refs(p, d)' = 0
      BY <1>2, <1>3, <2>5, FlowAssumption DEF Refs
    <3>2. ref'[d] = ref[d] /\ (d \in fresh' <=> d \in fresh) /\ freed' = freed
      BY <1>1, <2>5 DEF FlowTyped
    <3>3. Held(d)' = Held(d)
      BY <2>1, <2>2, <3>1
    <3> QED
      BY <2>3, <3>2, <3>3, HeldAtStays
  <2> QED
    BY <2>4, <2>5
<1>10. LiveInv'
  <2>1. \A d \in Ctxs : Known(d)' => Known(d) /\ d # c
    <3>1. assoc[f] # c /\ c \notin notify /\ \A q \in Threads : mine[q] # c
      BY <1>1, <1>2 DEF EngineInv
    <3> QED
      BY <1>1, <1>2, <1>3, <3>1 DEF Known, OnlyMoves
  <2> QED
    BY <1>3, <1>4, <2>1 DEF LiveInv, FlowInv
<1>11. SpentInv'
  <2>1. Unspent' \subseteq Unspent
    BY <1>1, <1>2, <1>3 DEF Unspent, OnlyMoves, Pending, FlowTyped
  <2> QED
    BY <1>1, <2>1, SpentStays DEF FlowInv
<1>12. CountExact' /\ DestroyFreesAll'
  BY DEF FlowInv, CountExact, DestroyFreesAll
<1> QED
  BY <1>5, <1>6, <1>7, <1>8, <1>9, <1>10, <1>11, <1>12 DEF FlowInv

\* The context found is in the table, and not the one p has made.
LEMMA FoundIsTracked ==
  ASSUME FlowInv, NEW p \in Threads, pc[p] = "allocated", Found(p) # <<>>
  PROVE  /\ Head(Found(p)) \in ToSet(table) /\ Head(Found(p)) \in Ctxs
         /\ Tracked(Head(Found(p))) /\ Head(Found(p)) # mine[p]
         /\ flowId[Head(Found(p))] = flowId[mine[p]]
<1> DEFINE S == {c \in Ctxs : flowId[c] = flowId[mine[p]]}
<1>1. ListsInv /\ OwnerInv
  BY DEF FlowInv
<1>2. Found(p) \in Seq(Ctxs) /\ ToSet(Found(p)) = ToSet(table) \cap S
  BY <1>1, OnlyShape DEF ListsInv, Found
<1>3. Head(Found(p)) \in ToSet(Found(p))
  BY <1>2, TailShape
<1>4. Head(Found(p)) \in ToSet(table) /\ Head(Found(p)) \in S
  BY <1>2, <1>3
<1>5. ~Tracked(mine[p])
  BY <1>1 DEF OwnerInv, Lone, Pending
<1> QED
  BY <1>4, <1>5 DEF Tracked, Linked

LEMMA ReuseKeeps ==
  ASSUME FlowInv, NEW p \in Threads, Reuse(p)
  PROVE  FlowInv'
<1> USE DEF Reuse, Goto, lists, engine, remove, history
<1> DEFINE new == mine[p]
           old == Head(Found(p))
<1>1. FlowTyped /\ ListsInv /\ OwnerInv /\ EngineInv
  BY DEF FlowInv
<1>2. /\ old \in ToSet(table) /\ old \in Ctxs /\ Tracked(old) /\ old # new
      /\ flowId[old] = flowId[new]
  BY FoundIsTracked
<1>3. pc[p] = "allocated" /\ new \in Ctxs /\ ~Tracked(new) /\ new # NoCtx /\ new \notin raced
  BY <1>1 DEF OwnerInv, FlowTyped, Lone, Pending
<1> HIDE DEF new, old
<1>4. /\ ref' = [ref EXCEPT ![old] = @ + 1, ![new] = 0] /\ freed' = freed \cup {new}
      /\ mine' = [mine EXCEPT ![p] = old] /\ pc' = [pc EXCEPT ![p] = "attached"]
      /\ UNCHANGED <<inited, lists, flowId, fresh, engine, remove, history>>
  BY DEF old, new
<1>5. mine[p] = new /\ mine'[p] = old /\ pc'[p] = "attached" /\ OnlyMoves(p)
  BY <1>1, <1>4 DEF FlowTyped, OnlyMoves, new
<1>6. \A q \in Threads : mine[q] = new => q = p
  BY <1>1, <1>3, <1>5 DEF OwnerInv
<1> HIDE DEF Reuse
<1>7. \A d : (Linked(d)' <=> Linked(d)) /\ (Tracked(d)' <=> Tracked(d))
             /\ TableRef(d)' = TableRef(d)
  BY <1>4, TrackingStays
<1>8. new \notin fresh /\ old \notin fresh
  BY <1>1, <1>2, <1>5 DEF EngineInv
<1>9. FlowTyped'
  <2>1. ref' \in [Ctxs -> Int]
    <3>1. ref \in [Ctxs -> Int] /\ ref[old] + 1 \in Int
      BY <1>1, <1>2 DEF FlowTyped
    <3>2. ref' = [[ref EXCEPT ![old] = ref[old] + 1] EXCEPT ![new] = 0]
      BY <1>4
    <3>3. [ref EXCEPT ![old] = ref[old] + 1] \in [Ctxs -> Int]
      BY <3>1, Zenon
    <3>4. 0 \in Int
      OBVIOUS
    <3> QED
      BY <3>2, <3>3, <3>4, Zenon
  <2>2. freed' \subseteq Ctxs /\ fresh' \cap freed' = {}
    BY <1>1, <1>3, <1>4, <1>8 DEF FlowTyped
  <2> QED
    BY <1>1, <1>2, <1>4, <2>1, <2>2 DEF FlowTyped, Shared
<1>10. ListsInv'
  BY <1>1, <1>4, <1>7 DEF ListsInv
<1>11. OwnerInv'
  <2>1. \A q \in Threads : q # p => pc'[q] = pc[q] /\ mine'[q] = mine[q]
    BY <1>5 DEF OnlyMoves
  <2>2. \A q \in Threads : mine[q] = old => pc[q] # "allocated"
    BY <1>1, <1>2 DEF OwnerInv, Lone, Pending
  <2>3. pc'[p] \notin Owning \cup Lone \cup Pending /\ old # NoCtx
    BY <1>2, <1>5, FlowAssumption DEF Owning, Lone, Pending
  <2>4. assoc' = assoc /\ notify' = notify /\ raced' = raced
    BY <1>4
  <2> QED
    BY <1>1, <1>5, <1>7, <2>1, <2>2, <2>3, <2>4 DEF OwnerInv
<1>12. EngineInv'
  <2>1. CalloutOf[flowId[old]] \in registered
    BY <1>1, <1>2, <1>3, <1>5 DEF EngineInv
  <2> QED
    BY <1>1, <1>4, <1>5, <1>7, <1>8, <2>1 DEF EngineInv, OnlyMoves
<1>13. HeldInv'
  <2> SUFFICES ASSUME NEW d \in Ctxs
               PROVE  HeldAt(d)'
    BY DEF HeldInv
  <2>1. /\ Held(d) \in Nat /\ Held(d)' \in Nat /\ TableRef(d)' = TableRef(d)
        /\ Held(d)' + TableRef(d) + Refs(p, d) = Held(d) + TableRef(d)' + Refs(p, d)'
        /\ Held(d) >= TableRef(d) + Refs(p, d)
    BY <1>5, <1>7, HeldMoves
  <2>2. TableRef(d) \in Nat
    BY DEF TableRef
  <2>3. HeldAt(d) /\ HeldInv /\ raced' = raced
    BY <1>4 DEF FlowInv, HeldInv
  <2>4. CASE d = new
    <3>1. Held(d) = TableRef(d) + Refs(p, d)
      BY <1>6, <2>4, HeldByOne
    <3>2. Refs(p, d)' = 0 /\ TableRef(d) = 0 /\ Refs(p, d) = 2
      BY <1>2, <1>3, <1>5, <2>4 DEF Refs, TableRef, Lone
    <3>3. ref'[d] = 0 /\ d \in freed'
      BY <1>1, <1>4, <2>4 DEF FlowTyped
    <3> QED
      BY <1>3, <2>1, <2>3, <2>4, <3>1, <3>2, <3>3 DEF HeldAt
  <2>5. CASE d = old
    <3>1. Refs(p, d)' = 1 /\ TableRef(d) = 1 /\ Refs(p, d) = 0
      BY <1>2, <1>5, <2>5 DEF Refs, TableRef, Lone, Shared
    <3>2. ref'[d] = ref[d] + 1 /\ fresh' = fresh /\ (d \in freed' <=> d \in freed)
          /\ ref[d] \in Int
      BY <1>1, <1>2, <1>4, <2>5 DEF FlowTyped
    <3>3. Held(d)' = Held(d) + 1 /\ Held(d) # 0
      BY <2>1, <3>1
    <3> QED
      BY <2>1, <2>3, <3>2, <3>3 DEF HeldAt
  <2>6. CASE d # new /\ d # old
    <3>1. Refs(p, d) = 0 /\ Refs(p, d)' = 0
      BY <1>5, <2>6 DEF Refs
    <3>2. ref'[d] = ref[d] /\ fresh' = fresh /\ (d \in freed' <=> d \in freed)
      BY <1>1, <1>4, <2>6 DEF FlowTyped
    <3>3. Held(d)' = Held(d)
      BY <2>1, <2>2, <3>1
    <3> QED
      BY <2>3, <3>2, <3>3, HeldAtStays
  <2> QED
    BY <2>4, <2>5, <2>6
<1>14. LiveInv'
  <2>1. \A d \in Ctxs : Known(d)' => Known(d)
    BY <1>4, <1>5 DEF Known, OnlyMoves
  <2> QED
    BY <1>4, <1>7, <2>1 DEF LiveInv, FlowInv
<1>15. SpentInv'
  <2>1. Unspent' \subseteq Unspent
    BY <1>1, <1>4, <1>5 DEF Unspent, OnlyMoves, Pending, FlowTyped
  <2> QED
    BY <1>1, <1>4, <2>1, SpentStays DEF FlowInv
<1>16. CountExact' /\ DestroyFreesAll'
  BY <1>1, <1>3, <1>4 DEF FlowInv, CountExact, DestroyFreesAll, FlowTyped
<1> QED
  BY <1>9, <1>10, <1>11, <1>12, <1>13, <1>14, <1>15, <1>16 DEF FlowInv

LEMMA LinkKeeps ==
  ASSUME FlowInv, NEW p \in Threads, Link(p)
  PROVE  FlowInv'
<1> DEFINE c == mine[p]
<1>1. FlowTyped /\ ListsInv /\ OwnerInv /\ EngineInv
  BY DEF FlowInv
<1>2. /\ pc[p] = "allocated" /\ pc' = [pc EXCEPT ![p] = "linked"]
      /\ table' = Append(table, c) /\ entries' = Add(1)
      /\ UNCHANGED <<inited, stale, popped, heap, mine, engine, remove, history>>
  BY DEF Link, Goto
<1> USE DEF heap, engine, remove, history
<1>3. c \in Ctxs /\ ~Tracked(c) /\ c # NoCtx /\ c \notin fresh /\ c \notin raced
  BY <1>1, <1>2 DEF OwnerInv, FlowTyped, Lone, EngineInv, Pending
<1>4. mine[p] = c /\ mine'[p] = c /\ pc'[p] = "linked" /\ OnlyMoves(p)
  BY <1>1, <1>2 DEF FlowTyped, OnlyMoves
<1> HIDE DEF c
<1>5. /\ table' \in Seq(Ctxs) /\ IsInjective(table') /\ ToSet(table') = ToSet(table) \cup {c}
      /\ Len(table') = Len(table) + 1
  <2>1. c \notin ToSet(table)
    BY <1>3 DEF Tracked, Linked
  <2> QED
    BY <1>1, <1>2, <1>3, <2>1, AppendShape DEF ListsInv
<1>6. \A d : (Tracked(d)' <=> Tracked(d) \/ d = c)
             /\ TableRef(d)' = (IF d = c THEN 1 ELSE TableRef(d)) /\ (d = c => TableRef(d) = 0)
  <2>1. \A d : Linked(d)' <=> Linked(d) \/ d = c
    BY <1>2, <1>5 DEF Linked
  <2>2. \A d : Tracked(d)' <=> Tracked(d) \/ d = c
    BY <1>2, <2>1 DEF Tracked
  <2> QED
    BY <1>3, <2>2 DEF TableRef
<1>7. FlowTyped'
  <2>1. entries' \in 0 .. CountMod - 1
    BY <1>2, EntriesMove
  <2> QED
    BY <1>1, <1>2, <2>1 DEF FlowTyped, Shared
<1>8. ListsInv'
  <2>1. ToSet(table') \cap ToSet(stale') = {} /\ ~Linked(popped)'
    BY <1>1, <1>2, <1>3, <1>5 DEF ListsInv, Linked, Tracked
  <2> QED
    BY <1>1, <1>2, <1>5, <2>1 DEF ListsInv
<1>9. OwnerInv'
  <2>1. \A q \in Threads : q # p => pc'[q] = pc[q] /\ mine'[q] = mine[q]
    BY <1>4 DEF OnlyMoves
  <2>2. \A q \in Threads : mine[q] = c => q = p
    BY <1>1, <1>2, <1>4 DEF OwnerInv
  <2>3. mine' = mine /\ assoc' = assoc /\ notify' = notify /\ raced' = raced
    BY <1>2
  <2> QED
    BY <1>1, <1>2, <1>3, <1>4, <1>6, <2>1, <2>2, <2>3 DEF OwnerInv, Owning, Lone, Pending
<1>10. EngineInv'
  BY <1>1, <1>2, <1>3, <1>6 DEF EngineInv
<1>11. HeldInv'
  <2> SUFFICES ASSUME NEW d \in Ctxs
               PROVE  HeldAt(d)'
    BY DEF HeldInv
  <2>1. /\ Held(d) \in Nat /\ Held(d)' \in Nat
        /\ Held(d)' + TableRef(d) + Refs(p, d) = Held(d) + TableRef(d)' + Refs(p, d)'
        /\ Held(d) >= TableRef(d) + Refs(p, d)
    BY <1>4, HeldMoves
  <2>2. TableRef(d) \in Nat
    BY DEF TableRef
  <2>3. HeldInv /\ raced' = raced
    BY <1>2 DEF FlowInv
  <2>4. Held(d)' = Held(d)
    <3>1. CASE d = c
      <4>1. Refs(p, d) = 2 /\ Refs(p, d)' = 1
        BY <1>2, <1>4, <3>1 DEF Refs, Lone, Shared
      <4> QED
        BY <1>6, <2>1, <3>1, <4>1
    <3>2. CASE d # c
      <4>1. Refs(p, d) = 0 /\ Refs(p, d)' = 0
        BY <1>4, <3>2 DEF Refs
      <4> QED
        BY <1>6, <2>1, <2>2, <3>2, <4>1
    <3> QED
      BY <3>1, <3>2
  <2> QED
    BY <1>2, <2>3, <2>4, HeldAtStays
<1>12. LiveInv'
  <2>1. \A d \in Ctxs : d # c /\ Known(d)' => Known(d)
    BY <1>2, <1>4 DEF Known, OnlyMoves
  <2>2. c # popped' /\ c \notin raced'
    BY <1>2, <1>3 DEF Tracked
  <2> QED
    BY <1>2, <1>6, <2>1, <2>2 DEF LiveInv, FlowInv
<1>13. SpentInv'
  <2>1. Unspent' \subseteq Unspent
    BY <1>1, <1>2, <1>4 DEF Unspent, OnlyMoves, Pending, FlowTyped
  <2> QED
    BY <1>1, <1>2, <2>1, SpentStays DEF FlowInv
<1>14. CountExact'
  <2>1. /\ Add(1) = (Len(table) - stolen + 1) % CountMod
        /\ Len(table) \in Nat /\ stolen \in Nat
    BY EntriesMove
  <2>2. Len(table') - stolen' = Len(table) - stolen + 1
    BY <1>2, <1>5, <2>1
  <2> QED
    BY <1>2, <2>1, <2>2 DEF CountExact
<1>15. DestroyFreesAll'
  BY <1>2 DEF FlowInv, DestroyFreesAll
<1> QED
  BY <1>7, <1>8, <1>9, <1>10, <1>11, <1>12, <1>13, <1>14, <1>15 DEF FlowInv

\* The context stays where it is, and p goes on with it: the engine may have it now.
LEMMA AssociateKeeps ==
  ASSUME FlowInv, NEW p \in Threads, AssociateSucceeds(p) \/ AssociateFails(p)
  PROVE  FlowInv'
<1> DEFINE c == mine[p]
           f == flowId[c]
<1>1. FlowTyped /\ ListsInv /\ OwnerInv /\ EngineInv
  BY DEF FlowInv
<1>2. /\ pc[p] = "linked" /\ pc'[p] \in {"attached", "failed"}
      /\ pc' = [pc EXCEPT ![p] = pc'[p]]
      /\ \/ /\ f \in open /\ assoc[f] = NoCtx /\ assoc' = [assoc EXCEPT ![f] = c]
            /\ pc'[p] = "attached"
         \/ assoc' = assoc
      /\ UNCHANGED <<inited, lists, heap, mine, open, notify, registered, remove, history>>
  BY <1>1 DEF AssociateSucceeds, AssociateFails, Goto, FlowTyped, engine
<1> USE DEF heap, lists, remove, history
<1>3. c \in Ctxs /\ c # NoCtx /\ f \in Flows /\ c \notin fresh
  BY <1>1, <1>2 DEF OwnerInv, FlowTyped, EngineInv
<1>4. mine[p] = c /\ mine'[p] = c /\ OnlyMoves(p)
  BY <1>1, <1>2 DEF FlowTyped, OnlyMoves
<1> HIDE DEF c
<1>5. \A d : (Linked(d)' <=> Linked(d)) /\ (Tracked(d)' <=> Tracked(d))
             /\ TableRef(d)' = TableRef(d)
  BY <1>2, TrackingStays
<1>6. assoc' \in [Flows -> Ctxs \cup {NoCtx}]
      /\ \A g \in Flows :
           \/ assoc'[g] = assoc[g]
           \/ /\ assoc'[g] = c /\ g = f /\ f \in open /\ assoc[f] = NoCtx
              /\ pc'[p] = "attached"
  <2>1. assoc \in [Flows -> Ctxs \cup {NoCtx}]
    BY <1>1 DEF FlowTyped
  <2>2. CASE assoc' = assoc
    BY <2>1, <2>2
  <2>3. CASE /\ f \in open /\ assoc[f] = NoCtx /\ assoc' = [assoc EXCEPT ![f] = c]
             /\ pc'[p] = "attached"
    BY <1>3, <2>1, <2>3
  <2> QED
    BY <1>2, <2>2, <2>3
<1>7. FlowTyped'
  BY <1>1, <1>2, <1>6 DEF FlowTyped, Shared
<1>8. ListsInv'
  BY <1>1, <1>2, <1>5 DEF ListsInv
<1>9. OwnerInv'
  <2>1. \A q \in Threads : q # p => pc'[q] = pc[q] /\ mine'[q] = mine[q]
    BY <1>4 DEF OnlyMoves
  <2>2. pc'[p] \notin Lone /\ pc'[p] # "allocated" /\ pc'[p] # "idle" /\ pc[p] \in Pending
    BY <1>2 DEF Lone, Pending
  <2>3. pc[p] \in Owning /\ \A q \in Threads : mine[q] = c /\ pc[q] \in Owning => q = p
    BY <1>1, <1>2, <1>4 DEF OwnerInv, Owning
  <2>4. pc'[p] = "attached" => pc'[p] \notin Owning
    BY DEF Owning
  <2>5. mine' = mine /\ notify' = notify /\ raced' = raced
    BY <1>2
  <2>6. \A q \in Threads : pc'[q] \in Owning => \A g \in Flows : assoc'[g] # mine[q]
    BY <1>1, <1>6, <2>1, <2>3, <2>4 DEF OwnerInv
  <2> QED
    BY <1>1, <1>3, <1>4, <1>5, <2>1, <2>2, <2>3, <2>4, <2>5, <2>6 DEF OwnerInv
<1>10. EngineInv'
  <2>1. CalloutOf[flowId[c]] \in registered
    BY <1>1, <1>3, <1>4 DEF EngineInv
  <2>2. \A g \in Flows : assoc'[g] # NoCtx =>
          flowId[assoc'[g]] = g /\ g \in open /\ CalloutOf[g] \in registered
    BY <1>1, <1>6, <2>1 DEF EngineInv
  <2>3. \A d \in fresh : \A g \in Flows : assoc'[g] # d
    BY <1>1, <1>3, <1>6 DEF EngineInv
  <2> QED
    BY <1>1, <1>2, <1>5, <2>2, <2>3 DEF EngineInv
<1>11. HeldInv'
  <2> SUFFICES ASSUME NEW d \in Ctxs
               PROVE  HeldAt(d)'
    BY DEF HeldInv
  <2>1. /\ Held(d) \in Nat /\ Held(d)' \in Nat /\ TableRef(d)' = TableRef(d)
        /\ Held(d)' + TableRef(d) + Refs(p, d) = Held(d) + TableRef(d)' + Refs(p, d)'
    BY <1>4, <1>5, HeldMoves
  <2>2. TableRef(d) \in Nat /\ Refs(p, d) \in Nat
    BY DEF TableRef, Refs
  <2>3. Refs(p, d)' = Refs(p, d)
    BY <1>2, <1>4 DEF Refs, Lone, Shared
  <2>4. Held(d)' = Held(d)
    BY <2>1, <2>2, <2>3
  <2> QED
    BY <1>2, <2>4, HeldAtStays DEF FlowInv
<1>12. LiveInv'
  <2>1. ASSUME NEW d \in Ctxs, Known(d)' PROVE Known(d)
    <3>1. Known(c)
      BY <1>2, <1>4 DEF Known
    <3>2. CASE d # c
      <4>1. assoc'[flowId[d]] = d => assoc[flowId[d]] = d
        BY <1>1, <1>6, <3>2 DEF FlowTyped
      <4> QED
        BY <1>2, <1>4, <2>1, <3>2, <4>1 DEF Known, OnlyMoves
    <3> QED
      BY <3>1, <3>2
  <2> QED
    BY <1>2, <1>5, <2>1 DEF LiveInv, FlowInv
<1>13. SpentInv'
  <2>1. Unspent' \subseteq Unspent
    BY <1>1, <1>2, <1>4 DEF Unspent, OnlyMoves, Pending, FlowTyped
  <2> QED
    BY <1>1, <1>2, <2>1, SpentStays DEF FlowInv
<1>14. CountExact' /\ DestroyFreesAll'
  BY <1>2 DEF FlowInv, CountExact, DestroyFreesAll
<1> QED
  BY <1>7, <1>8, <1>9, <1>10, <1>11, <1>12, <1>13, <1>14 DEF FlowInv

\* What a failed attach holds: nobody else is on the way with it, the engine has no
\* knowledge of it.
LEMMA FailedIsUnknown ==
  ASSUME FlowInv, NEW p \in Threads, pc[p] = "failed"
  PROVE  /\ mine[p] \in Ctxs /\ mine[p] # NoCtx /\ mine[p] \notin fresh
         /\ ~Known(mine[p]) /\ mine[p] \in Unspent /\ mine[p] \notin raced
         /\ \A q \in Threads : mine[q] = mine[p] /\ pc[q] \in Owning => q = p
<1>1. FlowTyped /\ OwnerInv /\ EngineInv
  BY DEF FlowInv
<1>2. mine[p] \in Ctxs /\ mine[p] # NoCtx /\ mine[p] \notin fresh /\ mine[p] \notin raced
  BY <1>1 DEF FlowTyped, OwnerInv, EngineInv, Pending
<1>3. \A q \in Threads : mine[q] = mine[p] /\ pc[q] \in Owning => q = p
  BY <1>1 DEF OwnerInv, Owning
<1>4. ~Known(mine[p])
  BY <1>1, <1>2, <1>3 DEF Known, OwnerInv, Owning, FlowTyped
<1>5. mine[p] \in Unspent
  BY <1>2 DEF Unspent, Pending
<1> QED
  BY <1>2, <1>3, <1>4, <1>5

\* An attach takes one entry off the teardown's list, and is then past it.
LEMMA RollBackSpends ==
  ASSUME FlowInv, NEW p \in Threads, NEW c \in Ctxs, c \in Unspent, c \notin fresh, OnlyMoves(p),
         mine[p] = c, mine'[p] = c, pc'[p] = "returnTable", fresh' = fresh,
         \A q \in Threads : mine[q] = c /\ pc[q] \in Owning => q = p,
         stolen' = stolen \/ stolen' = stolen + 1
  PROVE  SpentInv' /\ stolen' \in Nat
<1>1. FlowTyped
  BY DEF FlowInv
<1>2. Unspent' \subseteq Unspent \ {c}
  <2>1. Pending \subseteq Owning /\ pc'[p] \notin Pending
    BY DEF Pending, Owning
  <2> QED
    BY <2>1 DEF Unspent, OnlyMoves
<1>3. /\ IsFiniteSet(Unspent) /\ IsFiniteSet(Ctxs)
  BY <1>1, FS_Subset, FlowAssumption DEF Unspent, FlowTyped
<1>4. IsFiniteSet(Unspent \ {c}) /\ Cardinality(Unspent \ {c}) = Cardinality(Unspent) - 1
  BY <1>3, FS_RemoveElement
<1>5. IsFiniteSet(Unspent') /\ Cardinality(Unspent') <= Cardinality(Unspent \ {c})
  BY <1>2, <1>4, FS_Subset
<1>6. /\ Cardinality(Unspent) \in Nat /\ Cardinality(Unspent') \in Nat
      /\ Cardinality(Ctxs) \in Nat
  BY <1>3, <1>5, FS_CardinalityType
<1>7. stolen \in Nat
  BY <1>1 DEF FlowTyped
<1>8. stolen + Cardinality(Unspent) <= Cardinality(Ctxs)
  BY DEF FlowInv, SpentInv
<1>9. stolen' + Cardinality(Unspent') <= Cardinality(Ctxs)
  BY <1>4, <1>5, <1>6, <1>7, <1>8
<1> QED
  BY <1>7, <1>9 DEF SpentInv

LEMMA RollBackUnlinks ==
  ASSUME FlowInv, NEW p \in Threads, RollBack(p), Linked(mine[p])
  PROVE  FlowInv'
<1> DEFINE c == mine[p]
<1>1. FlowTyped /\ ListsInv /\ OwnerInv /\ EngineInv
  BY DEF FlowInv
<1>2. /\ pc[p] = "failed" /\ pc' = [pc EXCEPT ![p] = "returnTable"]
      /\ table' = Without(table, c) /\ stale' = Without(stale, c) /\ entries' = Add(-1)
      /\ stolen' = (IF c \in ToSet(table) THEN stolen ELSE stolen + 1)
      /\ UNCHANGED <<inited, popped, heap, mine, engine, remove, corrupt, raced, robbed>>
  BY <1>1 DEF RollBack, Goto, HasLink, ListsInv
<1> USE DEF heap, engine, remove
<1>3. /\ c \in Ctxs /\ c # NoCtx /\ c \notin fresh /\ ~Known(c) /\ c \in Unspent
      /\ c \notin raced
      /\ \A q \in Threads : mine[q] = c /\ pc[q] \in Owning => q = p
  BY <1>2, FailedIsUnknown
<1>4. mine[p] = c /\ mine'[p] = c /\ pc'[p] = "returnTable" /\ OnlyMoves(p) /\ Linked(c)
  BY <1>1, <1>2 DEF FlowTyped, OnlyMoves
<1> HIDE DEF c
<1>5. /\ table' \in Seq(Ctxs) /\ IsInjective(table') /\ ToSet(table') = ToSet(table) \ {c}
      /\ Len(table') = (IF c \in ToSet(table) THEN Len(table) - 1 ELSE Len(table))
  BY <1>1, <1>2, <1>3, WithoutShape DEF ListsInv
<1>6. /\ stale' \in Seq(Ctxs) /\ IsInjective(stale') /\ ToSet(stale') = ToSet(stale) \ {c}
  BY <1>1, <1>2, <1>3, WithoutShape DEF ListsInv
<1>7. c # popped
  BY <1>1, <1>4 DEF ListsInv
<1>8. \A d : (Tracked(d)' <=> Tracked(d) /\ d # c)
             /\ TableRef(d)' = (IF d = c THEN 0 ELSE TableRef(d)) /\ (d = c => TableRef(d) = 1)
  <2>1. \A d : Linked(d)' <=> Linked(d) /\ d # c
    BY <1>5, <1>6 DEF Linked
  <2>2. \A d : Tracked(d)' <=> Tracked(d) /\ d # c
    BY <1>2, <1>7, <2>1 DEF Tracked
  <2> QED
    BY <1>4, <2>2 DEF TableRef, Tracked
<1>9. FlowTyped'
  <2>1. entries' \in 0 .. CountMod - 1
    BY <1>2, EntriesMove
  <2>2. stolen' \in Nat
    BY <1>1, <1>2 DEF FlowTyped
  <2> QED
    BY <1>1, <1>2, <2>1, <2>2 DEF FlowTyped, Lone
<1>10. ListsInv'
  <2>1. ToSet(table') \cap ToSet(stale') = {} /\ ~Linked(popped)'
    BY <1>1, <1>2, <1>5, <1>6 DEF ListsInv, Linked
  <2>2. stale' # <<>> => stale # <<>>
    <3>1. stale' # <<>> => Head(stale') \in ToSet(stale')
      BY <1>6, TailShape
    <3>2. stale = <<>> => ToSet(stale) = {}
      BY DEF ToSet
    <3> QED
      BY <1>6, <3>1, <3>2
  <2> QED
    BY <1>1, <1>2, <1>5, <1>6, <2>1, <2>2 DEF ListsInv
<1>11. OwnerInv'
  <2>1. \A q \in Threads : q # p => pc'[q] = pc[q] /\ mine'[q] = mine[q]
    BY <1>4 DEF OnlyMoves
  <2>2. mine' = mine /\ assoc' = assoc /\ notify' = notify /\ raced' = raced
    BY <1>2
  <2>3. pc[p] \in Owning /\ pc'[p] # "allocated" /\ pc'[p] # "idle"
    BY <1>2, <1>4 DEF Owning
  <2>4. \A q \in Threads : pc'[q] \in Owning => pc[q] \in Owning
    BY <2>1, <2>3
  <2>5. \A q \in Threads : pc'[q] \in Lone /\ mine[q] \notin raced => ~Tracked(mine[q])'
    BY <1>1, <1>4, <1>8, <2>1, <2>2 DEF OwnerInv
  <2>6. pc'[p] \notin Pending
    BY <1>4 DEF Pending
  <2> QED
    BY <1>1, <1>3, <1>4, <2>1, <2>2, <2>3, <2>4, <2>5, <2>6 DEF OwnerInv
<1>12. EngineInv'
  BY <1>1, <1>2, <1>8 DEF EngineInv
<1>13. HeldInv'
  <2> SUFFICES ASSUME NEW d \in Ctxs
               PROVE  HeldAt(d)'
    BY DEF HeldInv
  <2>1. /\ Held(d) \in Nat /\ Held(d)' \in Nat
        /\ Held(d)' + TableRef(d) + Refs(p, d) = Held(d) + TableRef(d)' + Refs(p, d)'
    BY <1>4, HeldMoves
  <2>2. TableRef(d) \in Nat
    BY DEF TableRef
  <2>3. Held(d)' = Held(d)
    <3>1. CASE d = c
      <4>1. Refs(p, d) = 1 /\ Refs(p, d)' = 2
        BY <1>2, <1>4, <3>1 DEF Refs, Lone, Shared
      <4> QED
        BY <1>8, <2>1, <3>1, <4>1
    <3>2. CASE d # c
      <4>1. Refs(p, d) = 0 /\ Refs(p, d)' = 0
        BY <1>4, <3>2 DEF Refs
      <4> QED
        BY <1>8, <2>1, <2>2, <3>2, <4>1
    <3> QED
      BY <3>1, <3>2
  <2> QED
    BY <1>2, <2>3, HeldAtStays DEF FlowInv
<1>14. LiveInv'
  <2>1. \A d \in Ctxs : Known(d)' => Known(d)
    BY <1>2, <1>4 DEF Known, OnlyMoves
  <2> QED
    BY <1>2, <1>3, <1>8, <2>1 DEF LiveInv, FlowInv
<1>15. SpentInv'
  <2>1. stolen' = stolen \/ stolen' = stolen + 1
    BY <1>2
  <2> QED
    BY <1>2, <1>3, <1>4, <2>1, RollBackSpends
<1>16. CountExact'
  <2>1. /\ Add(-1) = (Len(table) - stolen + (-1)) % CountMod
        /\ Len(table) \in Nat /\ stolen \in Nat
    BY EntriesMove
  <2>2. c \in ToSet(table) <=> c \notin ToSet(stale)
    BY <1>1, <1>4 DEF ListsInv, Linked
  <2>3. Len(table') - stolen' = Len(table) - stolen + (-1)
    BY <1>2, <1>5, <2>1, <2>2
  <2> QED
    BY <1>2, <2>1, <2>3 DEF CountExact
<1>17. DestroyFreesAll'
  BY <1>2 DEF FlowInv, DestroyFreesAll
<1> QED
  BY <1>9, <1>10, <1>11, <1>12, <1>13, <1>14, <1>15, <1>16, <1>17 DEF FlowInv

\* The teardown has the entry off its list and its link is not cleared: the lists stay
\* as they are, and one reference of the table is returned twice.
LEMMA RollBackRaces ==
  ASSUME FlowInv, NEW p \in Threads, RollBack(p), HasLink(mine[p]), ~Linked(mine[p])
  PROVE  FlowInv'
<1> DEFINE c == mine[p]
<1>1. FlowTyped /\ ListsInv /\ OwnerInv /\ EngineInv
  BY DEF FlowInv
<1>2. /\ pc[p] = "failed" /\ pc' = [pc EXCEPT ![p] = "returnTable"]
      /\ c = popped /\ c \notin ToSet(table) /\ c \notin ToSet(stale) /\ remover = "taking"
      /\ table' = Without(table, c) /\ stale' = Without(stale, c) /\ entries' = Add(-1)
      /\ stolen' = stolen + 1 /\ raced' = raced \cup {c}
      /\ UNCHANGED <<inited, popped, heap, mine, engine, remove, corrupt, robbed>>
  BY DEF RollBack, Goto, HasLink, Linked
<1> USE DEF heap, engine, remove
<1>3. /\ c \in Ctxs /\ c # NoCtx /\ c \notin fresh /\ ~Known(c) /\ c \in Unspent
      /\ c \notin raced
      /\ \A q \in Threads : mine[q] = c /\ pc[q] \in Owning => q = p
  BY <1>2, FailedIsUnknown
<1>4. mine[p] = c /\ mine'[p] = c /\ pc'[p] = "returnTable" /\ OnlyMoves(p)
  BY <1>1, <1>2 DEF FlowTyped, OnlyMoves
<1> HIDE DEF c
<1>5. /\ table' \in Seq(Ctxs) /\ IsInjective(table') /\ ToSet(table') = ToSet(table)
      /\ Len(table') = Len(table)
      /\ stale' \in Seq(Ctxs) /\ IsInjective(stale') /\ ToSet(stale') = ToSet(stale)
  <2>1. \A list \in {table, stale} :
          list \in Seq(Ctxs) /\ IsInjective(list) /\ c \notin ToSet(list)
    BY <1>1, <1>2 DEF ListsInv
  <2>2. \A list \in {table, stale} :
          /\ Without(list, c) \in Seq(Ctxs) /\ IsInjective(Without(list, c))
          /\ ToSet(Without(list, c)) = ToSet(list) \ {c}
          /\ Len(Without(list, c)) = Len(list)
    BY <1>3, <2>1, WithoutShape
  <2>3. \A list \in {table, stale} : ToSet(list) \ {c} = ToSet(list)
    BY <2>1
  <2>4. table' = Without(table, c) /\ stale' = Without(stale, c)
    BY <1>2
  <2> QED
    BY <2>2, <2>3, <2>4
<1>7. \A d : /\ (Tracked(d)' <=> Tracked(d)) /\ (Linked(d)' <=> Linked(d))
             /\ TableRef(d)' = TableRef(d)
  BY <1>2, <1>5 DEF Tracked, Linked, TableRef
<1>8. SpentInv' /\ stolen' \in Nat
  BY <1>2, <1>3, <1>4, RollBackSpends
<1>9. /\ Add(-1) \in 0 .. CountMod - 1 /\ Add(-1) = (Len(table) - stolen + (-1)) % CountMod
      /\ Len(table) \in Nat /\ stolen \in Nat
  BY EntriesMove
<1>10. FlowTyped'
  BY <1>1, <1>2, <1>3, <1>8, <1>9 DEF FlowTyped, Lone
<1>11. ListsInv'
  <2>1. ToSet(table') \cap ToSet(stale') = {} /\ ~Linked(popped)'
    BY <1>1, <1>2, <1>5, <1>7 DEF ListsInv, Linked
  <2>2. stale' # <<>> => remover' \in {"strip", "take"} \cup Stripping
    BY <1>2 DEF Stripping
  <2> QED
    BY <1>1, <1>2, <1>5, <2>1, <2>2 DEF ListsInv
<1>12. OwnerInv'
  <2>1. \A q \in Threads : q # p => pc'[q] = pc[q] /\ mine'[q] = mine[q]
    BY <1>4 DEF OnlyMoves
  <2>2. mine' = mine /\ assoc' = assoc /\ notify' = notify /\ raced' = raced \cup {c}
    BY <1>2
  <2>3. pc[p] \in Owning /\ pc'[p] # "allocated" /\ pc'[p] # "idle" /\ pc'[p] \notin Pending
        /\ Pending \subseteq Owning
    BY <1>2, <1>4 DEF Owning, Pending
  <2>4. \A q \in Threads : pc'[q] \in Owning => pc[q] \in Owning
    BY <2>1, <2>3
  <2>5. \A q \in Threads : pc'[q] \in Lone /\ mine[q] \notin raced' => ~Tracked(mine[q])'
    BY <1>1, <1>4, <1>7, <2>1, <2>2 DEF OwnerInv
  <2>6. \A q \in Threads : mine[q] \in raced' => pc'[q] \notin Pending
    BY <1>1, <1>3, <1>4, <2>1, <2>2, <2>3 DEF OwnerInv
  <2> QED
    BY <1>1, <1>3, <1>4, <2>1, <2>2, <2>3, <2>4, <2>5, <2>6 DEF OwnerInv
<1>13. EngineInv'
  BY <1>1, <1>2, <1>7 DEF EngineInv
<1>14. HeldInv'
  <2> SUFFICES ASSUME NEW d \in Ctxs
               PROVE  HeldAt(d)'
    BY DEF HeldInv
  <2>1. /\ Held(d) \in Nat /\ Held(d)' \in Nat /\ TableRef(d)' = TableRef(d)
        /\ Held(d)' + TableRef(d) + Refs(p, d) = Held(d) + TableRef(d)' + Refs(p, d)'
        /\ Held(d) >= TableRef(d) + Refs(p, d)
    BY <1>4, <1>7, HeldMoves
  <2>2. TableRef(d) \in Nat
    BY DEF TableRef
  <2>3. HeldAt(d) /\ HeldInv
    BY DEF FlowInv, HeldInv
  <2>4. CASE d = c
    <3>1. Refs(p, d) = 1 /\ Refs(p, d)' = 2
      BY <1>2, <1>4, <2>4 DEF Refs, Lone, Shared
    <3>2. Held(d)' = Held(d) + 1 /\ Held(d) \in 1 .. Held(d)'
      BY <2>1, <2>2, <3>1
    <3>3. ref'[d] = Held(d)
      BY <1>2, <1>3, <2>3, <2>4 DEF HeldAt
    <3> QED
      BY <1>2, <1>3, <2>4, <3>2, <3>3 DEF HeldAt
  <2>5. CASE d # c
    <3>1. Refs(p, d) = 0 /\ Refs(p, d)' = 0
      BY <1>4, <2>5 DEF Refs
    <3>2. Held(d)' = Held(d)
      BY <2>1, <2>2, <3>1
    <3> QED
      BY <1>2, <2>3, <2>5, <3>2 DEF HeldAt
  <2> QED
    BY <2>4, <2>5
<1>15. LiveInv'
  <2>1. \A d \in Ctxs : Known(d)' => Known(d) /\ d # c
    <3>1. flowId' = flowId /\ assoc' = assoc /\ notify' = notify /\ mine' = mine
      BY <1>2
    <3>2. \A q \in Threads : pc'[q] = "linked" => pc[q] = "linked"
      BY <1>4 DEF OnlyMoves
    <3>3. \A d \in Ctxs : Known(d)' => Known(d)
      BY <3>1, <3>2 DEF Known
    <3> QED
      BY <1>3, <3>3
  <2> QED
    BY <1>2, <1>7, <2>1 DEF LiveInv, FlowInv
<1>16. CountExact'
  <2>1. Len(table') - stolen' = Len(table) - stolen + (-1)
    BY <1>2, <1>5, <1>9
  <2> QED
    BY <1>2, <1>9, <2>1 DEF CountExact
<1>17. DestroyFreesAll'
  BY <1>2 DEF FlowInv, DestroyFreesAll
<1> QED
  BY <1>8, <1>10, <1>11, <1>12, <1>13, <1>14, <1>15, <1>16, <1>17 DEF FlowInv

\* The steps of an attach that only move on: the entry is in nobody's list when the
\* association has failed, or the table's reference is returned.
LEMMA RollBackFindsNone ==
  ASSUME FlowInv, NEW p \in Threads, RollBack(p), ~HasLink(mine[p])
  PROVE  FlowInv'
<1>1. FlowTyped /\ ListsInv /\ OwnerInv /\ EngineInv
  BY DEF FlowInv
<1>2. /\ pc[p] = "failed" /\ pc' = [pc EXCEPT ![p] = "returnCaller"]
      /\ UNCHANGED <<inited, table, stale, entries, popped, heap, mine, engine, remove, history>>
  BY DEF RollBack, Goto, history
<1> USE DEF heap, engine, remove, history
<1>3. mine'[p] = mine[p] /\ pc'[p] = "returnCaller" /\ OnlyMoves(p)
  BY <1>1, <1>2 DEF FlowTyped, OnlyMoves
<1>4. \A d : (Linked(d)' <=> Linked(d)) /\ (Tracked(d)' <=> Tracked(d))
             /\ TableRef(d)' = TableRef(d)
  BY <1>2, TrackingStays
<1>5. FlowTyped'
  BY <1>1, <1>2 DEF FlowTyped, Shared
<1>6. ListsInv'
  BY <1>1, <1>2, <1>4 DEF ListsInv
<1>7. OwnerInv'
  <2>1. \A q \in Threads : q # p => pc'[q] = pc[q]
    BY <1>3 DEF OnlyMoves
  <2>2. mine' = mine /\ assoc' = assoc /\ notify' = notify /\ raced' = raced
    BY <1>2
  <2>3. pc'[p] \notin Owning \cup Lone \cup Pending \cup {"allocated", "idle"}
    BY <1>3 DEF Owning, Lone, Pending
  <2> QED
    BY <1>1, <1>2, <1>4, <2>1, <2>2, <2>3 DEF OwnerInv
<1>8. EngineInv'
  BY <1>1, <1>2, <1>4 DEF EngineInv
<1>9. HeldInv'
  <2> SUFFICES ASSUME NEW d \in Ctxs
               PROVE  HeldAt(d)'
    BY DEF HeldInv
  <2>1. /\ Held(d) \in Nat /\ Held(d)' \in Nat /\ TableRef(d)' = TableRef(d)
        /\ Held(d)' + TableRef(d) + Refs(p, d) = Held(d) + TableRef(d)' + Refs(p, d)'
    BY <1>3, <1>4, HeldMoves
  <2>2. TableRef(d) \in Nat /\ Refs(p, d) \in Nat
    BY DEF TableRef, Refs
  <2>3. Refs(p, d)' = Refs(p, d)
    BY <1>2, <1>3 DEF Refs, Lone, Shared
  <2>4. Held(d)' = Held(d)
    BY <2>1, <2>2, <2>3
  <2> QED
    BY <1>2, <2>4, HeldAtStays DEF FlowInv
<1>10. LiveInv'
  <2>1. \A d \in Ctxs : Known(d)' => Known(d)
    BY <1>2, <1>3 DEF Known, OnlyMoves
  <2> QED
    BY <1>2, <1>4, <2>1 DEF LiveInv, FlowInv
<1>11. SpentInv'
  <2>1. Unspent' \subseteq Unspent
    BY <1>2, <1>3 DEF Unspent, OnlyMoves, Pending
  <2> QED
    BY <1>1, <1>2, <2>1, SpentStays DEF FlowInv
<1>12. CountExact' /\ DestroyFreesAll'
  BY <1>2 DEF FlowInv, CountExact, DestroyFreesAll
<1> QED
  BY <1>5, <1>6, <1>7, <1>8, <1>9, <1>10, <1>11, <1>12 DEF FlowInv

\* One holder lets go of c.
LEMMA ReleaseHolds ==
  ASSUME FlowInv, NEW c \in Ctxs, Release(c), fresh' = fresh, raced' = raced,
         Held(c) \in Nat, Held(c)' \in Nat, Held(c)' + 1 = Held(c),
         \A d \in Ctxs : d # c => Held(d)' = Held(d)
  PROVE  /\ HeldInv' /\ ref' \in [Ctxs -> Int] /\ freed \subseteq freed'
         /\ freed' \subseteq Ctxs /\ fresh' \cap freed' = {}
<1>1. FlowTyped /\ HeldAt(c) /\ HeldInv /\ c \notin fresh
  <2>1. Held(c) # 0
    OBVIOUS
  <2> QED
    BY <2>1 DEF FlowInv, HeldInv, HeldAt
<1>2. /\ ref' = [ref EXCEPT ![c] = ref[c] - 1] /\ ref \in [Ctxs -> Int] /\ ref[c] \in Int
      /\ freed' = IF ref[c] = 1 THEN freed \cup {c} ELSE freed
  BY <1>1 DEF Release, FlowTyped
<1>3. ASSUME NEW d \in Ctxs
      PROVE  HeldAt(d)'
  <2>1. CASE d = c
    <3>1. ref'[c] = ref[c] - 1
      BY <1>2
    <3>2. CASE c \in raced
      BY <1>1, <1>2, <2>1, <3>1, <3>2 DEF HeldAt
    <3>3. CASE c \notin raced
      BY <1>1, <1>2, <2>1, <3>1, <3>3 DEF HeldAt
    <3> QED
      BY <3>2, <3>3
  <2>2. CASE d # c
    <3>1. ref'[d] = ref[d] /\ (d \in freed' <=> d \in freed)
      BY <1>2, <2>2
    <3> QED
      BY <1>1, <2>2, <3>1, HeldAtStays
  <2> QED
    BY <2>1, <2>2
<1> QED
  BY <1>1, <1>2, <1>3 DEF HeldInv, FlowTyped

LEMMA ReturnTableRefKeeps ==
  ASSUME FlowInv, NEW p \in Threads, ReturnTableRef(p)
  PROVE  FlowInv'
<1>1. FlowTyped /\ ListsInv /\ OwnerInv /\ EngineInv
  BY DEF FlowInv
<1>2. PICK c \in Ctxs : c = mine[p]
  BY <1>1 DEF ReturnTableRef, FlowTyped, OwnerInv
<1>3. /\ pc[p] = "returnTable" /\ pc' = [pc EXCEPT ![p] = "returnCaller"] /\ Release(c)
      /\ UNCHANGED <<inited, lists, flowId, fresh, mine, engine, remove, history>>
  BY <1>2 DEF ReturnTableRef, Goto
<1> USE DEF lists, engine, remove, history
<1>4. mine[p] = c /\ mine'[p] = c /\ pc'[p] = "returnCaller" /\ OnlyMoves(p)
  BY <1>1, <1>3, <1>2 DEF FlowTyped, OnlyMoves
<1>5. \A d : (Linked(d)' <=> Linked(d)) /\ (Tracked(d)' <=> Tracked(d))
             /\ TableRef(d)' = TableRef(d)
  BY <1>3, TrackingStays
<1>6. \A d \in Ctxs : Held(d) \in Nat /\ Held(d)' \in Nat
                      /\ Held(d)' = (IF d = c THEN Held(d) - 1 ELSE Held(d))
  <2> SUFFICES ASSUME NEW d \in Ctxs
               PROVE  Held(d) \in Nat /\ Held(d)' \in Nat
                      /\ Held(d)' = (IF d = c THEN Held(d) - 1 ELSE Held(d))
    OBVIOUS
  <2>1. /\ Held(d) \in Nat /\ Held(d)' \in Nat /\ TableRef(d)' = TableRef(d)
        /\ Held(d)' + TableRef(d) + Refs(p, d) = Held(d) + TableRef(d)' + Refs(p, d)'
    BY <1>4, <1>5, HeldMoves
  <2>2. TableRef(d) \in Nat
    BY DEF TableRef
  <2>3. Refs(p, d) = (IF d = c THEN 2 ELSE 0) /\ Refs(p, d)' = (IF d = c THEN 1 ELSE 0)
    BY <1>3, <1>4 DEF Refs, Lone, Shared
  <2> QED
    BY <2>1, <2>2, <2>3
<1>7. /\ HeldInv' /\ ref' \in [Ctxs -> Int] /\ freed \subseteq freed'
      /\ freed' \subseteq Ctxs /\ fresh' \cap freed' = {}
  <2>1. Held(c) \in Nat /\ Held(c)' \in Nat /\ Held(c)' + 1 = Held(c)
    BY <1>2, <1>6
  <2> QED
    BY <1>3, <1>2, <1>6, <2>1, ReleaseHolds
<1>8. FlowTyped'
  BY <1>1, <1>3, <1>7 DEF FlowTyped, Shared
<1>9. ListsInv'
  BY <1>1, <1>3, <1>5 DEF ListsInv
<1>10. OwnerInv'
  <2>1. \A q \in Threads : q # p => pc'[q] = pc[q]
    BY <1>4 DEF OnlyMoves
  <2>2. mine' = mine /\ assoc' = assoc /\ notify' = notify /\ raced' = raced
    BY <1>3
  <2>3. pc'[p] \notin Owning \cup Lone \cup Pending \cup {"allocated", "idle"}
    BY <1>4 DEF Owning, Lone, Pending
  <2> QED
    BY <1>1, <1>3, <1>5, <2>1, <2>2, <2>3 DEF OwnerInv
<1>11. EngineInv'
  BY <1>1, <1>3, <1>5 DEF EngineInv
<1>12. LiveInv'
  <2>1. \A d \in Ctxs : Known(d)' => Known(d)
    BY <1>3, <1>4 DEF Known, OnlyMoves
  <2> QED
    BY <1>3, <1>5, <2>1 DEF LiveInv, FlowInv
<1>13. SpentInv'
  <2>1. Unspent' \subseteq Unspent
    BY <1>3, <1>4 DEF Unspent, OnlyMoves, Pending
  <2> QED
    BY <1>1, <1>3, <2>1, SpentStays DEF FlowInv
<1>14. CountExact' /\ DestroyFreesAll'
  BY <1>3, <1>7 DEF FlowInv, CountExact, DestroyFreesAll
<1> QED
  BY <1>7, <1>8, <1>9, <1>10, <1>11, <1>12, <1>13, <1>14 DEF FlowInv

LEMMA ReturnCallerRefKeeps ==
  ASSUME FlowInv, NEW p \in Threads, ReturnCallerRef(p)
  PROVE  FlowInv'
<1>1. FlowTyped /\ ListsInv /\ OwnerInv /\ EngineInv
  BY DEF FlowInv
<1>2. PICK c \in Ctxs : c = mine[p]
  BY <1>1 DEF ReturnCallerRef, FlowTyped, OwnerInv
<1>3. /\ pc[p] \in {"attached", "returnCaller"} /\ pc' = [pc EXCEPT ![p] = "idle"]
      /\ Release(c) /\ mine' = [mine EXCEPT ![p] = NoCtx]
      /\ UNCHANGED <<inited, lists, flowId, fresh, engine, remove, history>>
  BY <1>2 DEF ReturnCallerRef, Goto
<1> USE DEF lists, engine, remove, history
<1>4. mine[p] = c /\ mine'[p] = NoCtx /\ pc'[p] = "idle" /\ OnlyMoves(p)
  BY <1>1, <1>3, <1>2 DEF FlowTyped, OnlyMoves
<1>5. \A d : (Linked(d)' <=> Linked(d)) /\ (Tracked(d)' <=> Tracked(d))
             /\ TableRef(d)' = TableRef(d)
  BY <1>3, TrackingStays
<1>6. \A d \in Ctxs : Held(d) \in Nat /\ Held(d)' \in Nat
                      /\ Held(d)' = (IF d = c THEN Held(d) - 1 ELSE Held(d))
  <2> SUFFICES ASSUME NEW d \in Ctxs
               PROVE  Held(d) \in Nat /\ Held(d)' \in Nat
                      /\ Held(d)' = (IF d = c THEN Held(d) - 1 ELSE Held(d))
    OBVIOUS
  <2>1. /\ Held(d) \in Nat /\ Held(d)' \in Nat /\ TableRef(d)' = TableRef(d)
        /\ Held(d)' + TableRef(d) + Refs(p, d) = Held(d) + TableRef(d)' + Refs(p, d)'
    BY <1>4, <1>5, HeldMoves
  <2>2. TableRef(d) \in Nat
    BY DEF TableRef
  <2>3. Refs(p, d) = (IF d = c THEN 1 ELSE 0) /\ Refs(p, d)' = 0
    BY <1>3, <1>4, FlowAssumption DEF Refs, Lone, Shared
  <2> QED
    BY <2>1, <2>2, <2>3
<1>7. /\ HeldInv' /\ ref' \in [Ctxs -> Int] /\ freed \subseteq freed'
      /\ freed' \subseteq Ctxs /\ fresh' \cap freed' = {}
  <2>1. Held(c) \in Nat /\ Held(c)' \in Nat /\ Held(c)' + 1 = Held(c)
    BY <1>2, <1>6
  <2> QED
    BY <1>3, <1>2, <1>6, <2>1, ReleaseHolds
<1>8. FlowTyped'
  BY <1>1, <1>3, <1>7 DEF FlowTyped
<1>9. ListsInv'
  BY <1>1, <1>3, <1>5 DEF ListsInv
<1>10. OwnerInv'
  <2>1. \A q \in Threads : q # p => pc'[q] = pc[q] /\ mine'[q] = mine[q]
    BY <1>4 DEF OnlyMoves
  <2>2. assoc' = assoc /\ notify' = notify /\ raced' = raced
    BY <1>3
  <2>3. pc'[p] \notin Owning \cup Lone \cup Pending \cup {"allocated"}
    BY <1>4 DEF Owning, Lone, Pending
  <2> QED
    BY <1>1, <1>4, <1>5, <2>1, <2>2, <2>3 DEF OwnerInv
<1>11. EngineInv'
  <2>1. \A q \in Threads : mine'[q] = mine[q] \/ mine'[q] = NoCtx
    BY <1>4 DEF OnlyMoves
  <2>2. \A d \in fresh : d # NoCtx
    BY <1>1, FlowAssumption DEF FlowTyped
  <2> QED
    BY <1>1, <1>3, <1>5, <2>1, <2>2 DEF EngineInv
<1>12. LiveInv'
  <2>1. \A d \in Ctxs : Known(d)' => Known(d)
    BY <1>3, <1>4 DEF Known, OnlyMoves
  <2> QED
    BY <1>3, <1>5, <2>1 DEF LiveInv, FlowInv
<1>13. SpentInv'
  <2>1. Unspent' \subseteq Unspent
    BY <1>3, <1>4 DEF Unspent, OnlyMoves, Pending
  <2> QED
    BY <1>1, <1>3, <2>1, SpentStays DEF FlowInv
<1>14. CountExact' /\ DestroyFreesAll'
  BY <1>3, <1>7 DEF FlowInv, CountExact, DestroyFreesAll
<1> QED
  BY <1>7, <1>8, <1>9, <1>10, <1>11, <1>12, <1>13, <1>14 DEF FlowInv

-----------------------------------------------------------------------------
(***************************************************************************)
(* The end of a flow, and flowDelete.                                      *)
(***************************************************************************)
\* The threads and the contexts have nothing to do with the step.
LEMMA OwnerStays ==
  ASSUME OwnerInv, pc' = pc, mine' = mine, raced' = raced,
         \A c \in Ctxs : Tracked(c)' => Tracked(c),
         FlowTyped,
         \A p \in Threads : pc[p] \in Owning =>
           mine[p] \notin notify' /\ \A f \in Flows : assoc'[f] # mine[p]
  PROVE  OwnerInv'
<1>1. ASSUME NEW p \in Threads, pc[p] \in Lone, mine[p] \notin raced PROVE ~Tracked(mine[p])'
  <2>1. PICK c \in Ctxs : c = mine[p]
    BY <1>1 DEF OwnerInv, FlowTyped, Lone
  <2>2. ~Tracked(c)'
    BY <1>1, <2>1 DEF OwnerInv
  <2>3. c = mine'[p]
    BY <2>1
  <2> QED
    BY <2>2, <2>3 DEF Tracked, Linked
<1> QED
  BY <1>1 DEF OwnerInv

LEMMA FlowEndsKeeps ==
  ASSUME FlowInv, NEW f \in Flows, FlowEnds(f)
  PROVE  FlowInv'
<1>1. FlowTyped /\ ListsInv /\ OwnerInv /\ EngineInv
  BY DEF FlowInv
<1> DEFINE a == assoc[f]
<1>2. /\ f \in open /\ open' = open \ {f} /\ assoc' = [assoc EXCEPT ![f] = NoCtx]
      /\ notify' = (IF a = NoCtx THEN notify ELSE notify \cup {a})
      /\ UNCHANGED <<inited, lists, heap, attach, registered, remove, history>>
  BY DEF FlowEnds
<1> USE DEF lists, heap, attach, remove, history
<1>3. /\ assoc' \in [Flows -> Ctxs \cup {NoCtx}] /\ assoc'[f] = NoCtx
      /\ \A g \in Flows : g # f => assoc'[g] = assoc[g]
  BY <1>1, <1>2 DEF FlowTyped
<1>4. a \in Ctxs \cup {NoCtx} /\ (a # NoCtx => flowId[a] = f /\ CalloutOf[f] \in registered)
  BY <1>1 DEF FlowTyped, EngineInv
<1>5. \A d : (Linked(d)' <=> Linked(d)) /\ (Tracked(d)' <=> Tracked(d))
             /\ TableRef(d)' = TableRef(d)
  BY <1>2, TrackingStays
<1>6. FlowTyped'
  BY <1>1, <1>2, <1>3, <1>4 DEF FlowTyped
<1>7. ListsInv'
  BY <1>1, <1>2, <1>5 DEF ListsInv
<1>8. OwnerInv'
  <2>1. \A p \in Threads : pc[p] \in Owning =>
          mine[p] # NoCtx /\ mine[p] # a /\ mine[p] \notin notify
          /\ \A g \in Flows : assoc[g] # mine[p]
    BY <1>1 DEF OwnerInv, Owning
  <2>2. \A p \in Threads : pc[p] \in Owning =>
          mine[p] \notin notify' /\ \A g \in Flows : assoc'[g] # mine[p]
    BY <1>2, <1>3, <2>1
  <2> QED
    BY <1>1, <1>2, <1>5, <2>2, OwnerStays
<1>9. EngineInv'
  <2>1. \A c \in notify' : flowId[c] \notin open' /\ CalloutOf[flowId[c]] \in registered
    BY <1>1, <1>2, <1>4 DEF EngineInv
  <2>2. \A c \in fresh : c # a /\ c # NoCtx
    BY <1>1, FlowAssumption DEF EngineInv, FlowTyped
  <2>3. \A g \in Flows : assoc'[g] = assoc[g] \/ assoc'[g] = NoCtx
    BY <1>3
  <2> QED
    BY <1>1, <1>2, <1>3, <1>5, <2>1, <2>2, <2>3 DEF EngineInv
<1>10. HeldInv'
  BY <1>2, <1>5, HeldUntouched DEF FlowInv
<1>11. LiveInv'
  <2>1. \A d \in Ctxs : Known(d)' => Known(d)
    <3>1. \A d \in Ctxs : d = a => flowId[d] = f /\ assoc[flowId[d]] = d
      BY <1>4, FlowAssumption
    <3>2. \A d \in Ctxs : assoc'[flowId[d]] = d => assoc[flowId[d]] = d
      BY <1>1, <1>3, FlowAssumption DEF FlowTyped
    <3> QED
      BY <1>2, <3>1, <3>2 DEF Known
  <2> QED
    BY <1>2, <1>5, <2>1 DEF LiveInv, FlowInv
<1>12. SpentInv'
  BY <1>1, <1>2, UnspentStays, SpentStays DEF FlowInv
<1>13. CountExact' /\ DestroyFreesAll'
  BY <1>2 DEF FlowInv, CountExact, DestroyFreesAll
<1> QED
  BY <1>6, <1>7, <1>8, <1>9, <1>10, <1>11, <1>12, <1>13 DEF FlowInv

\* What flowDelete does to the table, whoever calls it.
LEMMA UnlinkedKeeps ==
  ASSUME FlowInv, NEW c \in Ctxs, Unlinked(c),
         UNCHANGED <<stale, popped, pc, mine, fresh, stolen, raced>>
  PROVE  /\ table' \in Seq(Ctxs) /\ IsInjective(table') /\ ToSet(table') \subseteq ToSet(table)
         /\ entries' \in 0 .. CountMod - 1 /\ CountExact' /\ HeldInv'
         /\ ref' \in [Ctxs -> Int] /\ freed \subseteq freed' /\ freed' \subseteq Ctxs
         /\ fresh' \cap freed' = {}
         /\ \A d : (Tracked(d)' => Tracked(d)) /\ (d # c /\ Tracked(d) => Tracked(d)')
<1>1. FlowTyped /\ ListsInv
  BY DEF FlowInv
<1>2. CASE c \in ToSet(table)
  <2>1. table' = Without(table, c) /\ entries' = Add(-1) /\ Release(c)
    BY <1>2 DEF Unlinked
  <2>2. /\ table' \in Seq(Ctxs) /\ IsInjective(table') /\ ToSet(table') = ToSet(table) \ {c}
        /\ Len(table') = Len(table) - 1
    BY <1>1, <1>2, <2>1, WithoutShape DEF ListsInv
  <2>3. c \notin ToSet(stale) /\ c # popped
    BY <1>1, <1>2 DEF ListsInv, Linked
  <2>4. \A d : (Tracked(d)' <=> Tracked(d) /\ d # c)
               /\ TableRef(d)' = (IF d = c THEN 0 ELSE TableRef(d)) /\ TableRef(d) \in Nat
               /\ (d = c => TableRef(d) = 1)
    <3>1. \A d : Linked(d)' <=> Linked(d) /\ d # c
      BY <2>2, <2>3 DEF Linked
    <3>2. \A d : Tracked(d)' <=> Tracked(d) /\ d # c
      BY <2>3, <3>1 DEF Tracked
    <3> QED
      BY <1>2, <3>2 DEF TableRef, Tracked, Linked
  <2>5. \A d \in Ctxs : Held(d) \in Nat /\ Held(d)' \in Nat
                        /\ Held(d)' = (IF d = c THEN Held(d) - 1 ELSE Held(d))
    <3> SUFFICES ASSUME NEW d \in Ctxs
                 PROVE  Held(d) \in Nat /\ Held(d)' \in Nat
                        /\ Held(d)' = (IF d = c THEN Held(d) - 1 ELSE Held(d))
      OBVIOUS
    <3>1. /\ Held(d) \in Nat /\ Held(d)' \in Nat
          /\ Held(d)' + TableRef(d) = Held(d) + TableRef(d)' /\ Held(d) >= TableRef(d)
      BY HeldStays
    <3> QED
      BY <2>4, <3>1
  <2>6. Held(c) \in Nat /\ Held(c)' \in Nat /\ Held(c)' + 1 = Held(c)
    BY <2>5
  <2>7. /\ HeldInv' /\ ref' \in [Ctxs -> Int] /\ freed \subseteq freed'
        /\ freed' \subseteq Ctxs /\ fresh' \cap freed' = {}
    BY <2>1, <2>5, <2>6, ReleaseHolds
  <2>8. /\ Add(-1) \in 0 .. CountMod - 1 /\ Add(-1) = (Len(table) - stolen + (-1)) % CountMod
        /\ Len(table) \in Nat /\ stolen \in Nat
    BY EntriesMove
  <2>9. Len(table') - stolen' = Len(table) - stolen + (-1)
    BY <2>2, <2>8
  <2> QED
    BY <2>1, <2>2, <2>4, <2>7, <2>8, <2>9 DEF CountExact
<1>3. CASE c \notin ToSet(table)
  <2>1. UNCHANGED <<table, entries, ref, freed>>
    BY <1>3 DEF Unlinked
  <2>2. \A d : (Tracked(d)' <=> Tracked(d)) /\ TableRef(d)' = TableRef(d)
    BY <2>1, TrackingStays
  <2>3. HeldInv'
    BY <2>1, <2>2, HeldUntouched DEF FlowInv
  <2>4. CountExact'
    BY <2>1 DEF FlowInv, CountExact
  <2> QED
    BY <1>1, <2>1, <2>2, <2>3, <2>4 DEF FlowTyped, ListsInv
<1> QED
  BY <1>2, <1>3

LEMMA DeleteNotifyKeeps ==
  ASSUME FlowInv, NEW c \in Ctxs, SkFlowDeleteNotify(c)
  PROVE  FlowInv'
<1>1. FlowTyped /\ ListsInv /\ OwnerInv /\ EngineInv
  BY DEF FlowInv
<1>2. /\ c \in notify /\ inited /\ notify' = notify \ {c} /\ Unlinked(c)
      /\ UNCHANGED <<inited, stale, popped, flowId, fresh, pc, mine, open, assoc, registered,
                     target, remover, round, leaked, corrupt, stolen, raced, robbed>>
  BY DEF SkFlowDeleteNotify, attach, remove, history
<1>3. /\ table' \in Seq(Ctxs) /\ IsInjective(table') /\ ToSet(table') \subseteq ToSet(table)
      /\ entries' \in 0 .. CountMod - 1 /\ CountExact' /\ HeldInv'
      /\ ref' \in [Ctxs -> Int] /\ freed \subseteq freed' /\ freed' \subseteq Ctxs
      /\ fresh' \cap freed' = {}
      /\ \A d : (Tracked(d)' => Tracked(d)) /\ (d # c /\ Tracked(d) => Tracked(d)')
  BY <1>2, UnlinkedKeeps
<1>4. FlowTyped'
  BY <1>1, <1>2, <1>3 DEF FlowTyped
<1>5. ListsInv'
  <2>1. ToSet(table') \cap ToSet(stale') = {} /\ ~Linked(popped)'
    BY <1>1, <1>2, <1>3 DEF ListsInv, Linked
  <2> QED
    BY <1>1, <1>2, <1>3, <2>1 DEF ListsInv
<1>6. OwnerInv'
  <2>1. \A p \in Threads : pc[p] \in Owning =>
          mine[p] \notin notify' /\ \A f \in Flows : assoc'[f] # mine[p]
    BY <1>1, <1>2 DEF OwnerInv
  <2> QED
    BY <1>1, <1>2, <1>3, <2>1, OwnerStays
<1>7. EngineInv'
  BY <1>1, <1>2, <1>3 DEF EngineInv
<1>8. LiveInv'
  <2>1. \A d \in Ctxs : Known(d)' => Known(d) /\ d # c
    <3>1. flowId[c] \notin open /\ flowId[c] \in Flows /\ c # NoCtx
      BY <1>1, <1>2, FlowAssumption DEF EngineInv, FlowTyped
    <3>2. assoc[flowId[c]] # c
      BY <1>1, <3>1 DEF EngineInv
    <3>3. \A p \in Threads : ~(mine[p] = c /\ pc[p] = "linked")
      BY <1>1, <1>2 DEF OwnerInv, Owning
    <3> QED
      BY <1>2, <3>2, <3>3 DEF Known
  <2> QED
    BY <1>2, <1>3, <2>1 DEF LiveInv, FlowInv
<1>9. SpentInv'
  BY <1>1, <1>2, UnspentStays, SpentStays DEF FlowInv
<1>10. DestroyFreesAll'
  BY <1>2, <1>3 DEF FlowInv, DestroyFreesAll
<1> QED
  BY <1>3, <1>4, <1>5, <1>6, <1>7, <1>8, <1>9, <1>10 DEF FlowInv

-----------------------------------------------------------------------------
(***************************************************************************)
(* The teardown.                                                           *)
(***************************************************************************)
\* The steps that move no context and no reference.
LEMMA TeardownStays ==
  ASSUME FlowInv, UNCHANGED <<inited, lists, heap, attach, open, assoc, notify>>,
         UNCHANGED <<stolen, raced, robbed>>,
         \/ registered' = registered
         \/ registered' = registered \ {target} /\ ~InUse(target),
         remover' # "release"
  PROVE  /\ OwnerInv' /\ EngineInv' /\ HeldInv' /\ LiveInv' /\ SpentInv' /\ CountExact'
         /\ DestroyFreesAll'
<1>1. FlowTyped /\ ListsInv /\ OwnerInv /\ EngineInv
  BY DEF FlowInv
<1> USE DEF lists, heap, attach
<1>2. \A d : (Linked(d)' <=> Linked(d)) /\ (Tracked(d)' <=> Tracked(d))
             /\ TableRef(d)' = TableRef(d)
  BY TrackingStays
<1>3. OwnerInv'
  BY <1>1, <1>2, OwnerStays DEF OwnerInv
<1>4. EngineInv'
  <2>1. \A k \in registered \ registered' : ~InUse(k)
    OBVIOUS
  <2>2. \A f \in Flows : assoc[f] # NoCtx => CalloutOf[f] \in registered'
    BY <1>1, <2>1 DEF EngineInv, InUse
  <2>3. \A c \in notify : CalloutOf[flowId[c]] \in registered'
    BY <1>1, <2>1 DEF EngineInv, InUse
  <2>4. \A p \in Threads : mine[p] # NoCtx => CalloutOf[flowId[mine[p]]] \in registered'
    BY <1>1, <2>1 DEF EngineInv, InUse
  <2> QED
    BY <1>1, <1>2, <2>2, <2>3, <2>4 DEF EngineInv
<1>5. HeldInv'
  BY <1>2, HeldUntouched DEF FlowInv
<1>6. LiveInv'
  BY <1>2, KnownStays DEF LiveInv, FlowInv
<1>7. SpentInv'
  BY <1>1, UnspentStays, SpentStays DEF FlowInv
<1>8. CountExact' /\ DestroyFreesAll'
  BY DEF FlowInv, CountExact, DestroyFreesAll
<1> QED
  BY <1>3, <1>4, <1>5, <1>6, <1>7, <1>8

LEMMA UnregisterKeeps ==
  ASSUME FlowInv,
         \/ \E k \in Callouts : UnregisterBegin(k)
         \/ UnregisterSucceeds \/ UnregisterLeaks
         \/ StripEnd \/ Look \/ PopNothing \/ ClearLink \/ RemoveFails
  PROVE  FlowInv'
<1>1. FlowTyped /\ ListsInv /\ BusyRetries \in Nat
  BY FlowAssumption DEF FlowInv
<1> USE DEF UnregisterBegin, UnregisterSucceeds, UnregisterLeaks, StripEnd, Look,
       PopNothing, ClearLink, RemoveFails
<1>2. UNCHANGED <<inited, lists, heap, attach, open, assoc, notify>>
      /\ UNCHANGED <<stolen, raced, robbed>> /\ corrupt' \in {corrupt, TRUE}
  BY DEF engine, history
<1>3. \/ registered' = registered
      \/ registered' = registered \ {target} /\ ~InUse(target)
  BY DEF engine
<1>4. remover' # "release"
  BY DEF remove
<1>5. FlowTyped'
  <2>1. 0 \in 0 .. BusyRetries
    BY <1>1
  <2>2. /\ registered' \subseteq Callouts /\ leaked' \subseteq registered'
        /\ target' \in Callouts \cup {NoCallout}
        /\ remover' \in {"idle", "unregister", "strip", "take"} \cup Stripping
        /\ round' \in 0 .. BusyRetries
    <3>1. CASE \E k \in Callouts : UnregisterBegin(k)
      BY <1>1, <2>1, <3>1 DEF FlowTyped, engine
    <3>2. CASE UnregisterSucceeds
      BY <1>1, <3>2 DEF FlowTyped, ListsInv
    <3>3. CASE UnregisterLeaks
      BY <1>1, <3>3 DEF FlowTyped, ListsInv, engine
    <3>4. CASE StripEnd
      BY <1>1, <3>4 DEF FlowTyped, engine
    <3>5. CASE Look \/ ClearLink \/ RemoveFails
      BY <1>1, <3>5 DEF FlowTyped, engine, Stripping
    <3>6. CASE PopNothing
      BY <1>1, <3>6 DEF FlowTyped, engine, remove
    <3> QED
      BY <3>1, <3>2, <3>3, <3>4, <3>5, <3>6
  <2> HIDE DEF UnregisterBegin, UnregisterSucceeds, UnregisterLeaks, StripEnd, Look,
       PopNothing, ClearLink, RemoveFails
  <2> QED
    BY <1>1, <1>2, <2>2 DEF FlowTyped, lists, heap, attach
<1>6. ListsInv'
  <2>1. /\ table' = table /\ stale' = stale /\ popped' = popped /\ inited' = inited
    BY <1>2 DEF lists
  <2>2. Linked(popped)' <=> Linked(popped)
    BY <2>1 DEF Linked
  <2>3. /\ popped' # NoCtx <=> remover' \in Stripping
        /\ stale' # <<>> => remover' \in {"strip", "take"} \cup Stripping
        /\ remover' # "idle" => target' \in registered' \ leaked'
        /\ ~inited' => registered' = {} /\ remover' = "idle"
    <3>1. CASE \E k \in Callouts : UnregisterBegin(k)
      BY <1>1, <2>1, <3>1 DEF ListsInv, Stripping, engine
    <3>2. CASE UnregisterSucceeds
      BY <1>1, <2>1, <3>2 DEF ListsInv, Stripping
    <3>3. CASE UnregisterLeaks
      BY <1>1, <2>1, <3>3 DEF ListsInv, Stripping, engine
    <3>4. CASE StripEnd
      BY <1>1, <2>1, <3>4 DEF ListsInv, Stripping, engine
    <3>5. CASE Look \/ ClearLink \/ RemoveFails
      BY <1>1, <2>1, <3>5 DEF ListsInv, Stripping, engine
    <3>6. CASE PopNothing
      BY <1>1, <2>1, <3>6 DEF ListsInv, Stripping, engine, remove
    <3> QED
      BY <3>1, <3>2, <3>3, <3>4, <3>5, <3>6
  <2> HIDE DEF UnregisterBegin, UnregisterSucceeds, UnregisterLeaks, StripEnd, Look,
       PopNothing, ClearLink, RemoveFails
  <2> QED
    BY <1>1, <2>1, <2>2, <2>3 DEF ListsInv
<1> HIDE DEF UnregisterBegin, UnregisterSucceeds, UnregisterLeaks, StripEnd, Look,
       PopNothing, ClearLink, RemoveFails
<1>7. /\ OwnerInv' /\ EngineInv' /\ HeldInv' /\ LiveInv' /\ SpentInv' /\ CountExact'
      /\ DestroyFreesAll'
  BY <1>2, <1>3, <1>4, TeardownStays
<1> QED
  BY <1>5, <1>6, <1>7 DEF FlowInv

\* What is overwritten is not in the model; nothing else moves.
LEMMA TornKeeps ==
  ASSUME FlowInv, NEW p \in Threads, RollBackTorn(p)
  PROVE  FlowInv'
<1>1. FlowTyped /\ ListsInv
  BY DEF FlowInv
<1>2. /\ corrupt' = TRUE /\ remover \in {"take", "taking"}
      /\ UNCHANGED <<inited, lists, heap, attach, engine, remove, stolen, raced, robbed>>
  BY DEF RollBackTorn, InHand
<1>3. FlowTyped'
  BY <1>1, <1>2 DEF FlowTyped, lists, heap, attach, engine, remove
<1>4. ListsInv'
  BY <1>1, <1>2 DEF ListsInv, Linked, lists, engine, remove
<1>5. /\ OwnerInv' /\ EngineInv' /\ HeldInv' /\ LiveInv' /\ SpentInv' /\ CountExact'
      /\ DestroyFreesAll'
  BY <1>2, TeardownStays DEF engine, remove
<1> QED
  BY <1>3, <1>4, <1>5 DEF FlowInv

\* The entries that change hands between the table and the teardown keep their reference.
LEMMA MovesKeep ==
  ASSUME FlowInv, UNCHANGED <<inited, heap, attach, engine, history>>,
         \A d \in Ctxs : Tracked(d)' <=> Tracked(d),
         remover' # "release"
  PROVE  OwnerInv' /\ EngineInv' /\ HeldInv' /\ LiveInv' /\ SpentInv' /\ DestroyFreesAll'
<1>1. FlowTyped /\ OwnerInv /\ EngineInv
  BY DEF FlowInv
<1> USE DEF heap, attach, engine, history
<1>2. \A d \in Ctxs : TableRef(d)' = TableRef(d)
  BY DEF TableRef
<1>3. OwnerInv'
  BY <1>1, OwnerStays DEF OwnerInv
<1>4. EngineInv'
  BY <1>1 DEF EngineInv, FlowTyped
<1>5. HeldInv'
  BY <1>2, HeldUntouched DEF FlowInv
<1>6. LiveInv'
  BY KnownStays DEF LiveInv, FlowInv
<1>7. SpentInv'
  BY <1>1, UnspentStays, SpentStays DEF FlowInv
<1>8. DestroyFreesAll'
  BY DEF FlowInv, DestroyFreesAll
<1> QED
  BY <1>3, <1>4, <1>5, <1>6, <1>7, <1>8

LEMMA BusyKeeps ==
  ASSUME FlowInv, UnregisterBusy
  PROVE  FlowInv'
<1>1. FlowTyped /\ ListsInv
  BY DEF FlowInv
<1>2. PICK its \in SUBSET Ctxs :
        /\ stale' = Only(table, its) /\ table' = Only(table, Ctxs \ its)
        /\ entries' = Add(-Len(stale'))
  BY DEF UnregisterBusy
<1>3. /\ remover = "unregister" /\ round < BusyRetries /\ round' = round + 1
      /\ remover' = "strip"
      /\ UNCHANGED <<inited, popped, heap, attach, engine, target, leaked, history>>
  BY DEF UnregisterBusy
<1>4. /\ table' \in Seq(Ctxs) /\ IsInjective(table')
      /\ ToSet(table') = ToSet(table) \cap (Ctxs \ its)
      /\ stale' \in Seq(Ctxs) /\ IsInjective(stale') /\ ToSet(stale') = ToSet(table) \cap its
  BY <1>1, <1>2, OnlyShape DEF ListsInv
<1>5. Len(stale') \in Nat /\ Len(table') \in Nat /\ Len(stale') + Len(table') = Len(table)
  BY <1>1, <1>2, SplitCounts DEF ListsInv
<1>6. stale = <<>> /\ popped = NoCtx /\ ToSet(stale) = {}
  BY <1>1, <1>3 DEF ListsInv, Stripping, ToSet
<1>7. \A d \in Ctxs : Tracked(d)' <=> Tracked(d)
  <2>1. \A d \in Ctxs : Linked(d)' <=> Linked(d)
    BY <1>4, <1>6 DEF Linked
  <2> QED
    BY <1>3, <2>1 DEF Tracked
<1>8. OwnerInv' /\ EngineInv' /\ HeldInv' /\ LiveInv' /\ SpentInv' /\ DestroyFreesAll'
  BY <1>3, <1>7, MovesKeep
<1>9. /\ Add(-Len(stale')) \in 0 .. CountMod - 1
      /\ Add(-Len(stale')) = (Len(table) - stolen + (-Len(stale'))) % CountMod
      /\ Len(table) \in Nat /\ stolen \in Nat
  <2>1. -Len(stale') \in Int
    BY <1>5
  <2> QED
    BY <2>1, EntriesMove
<1>10. CountExact'
  <2>1. Len(table') - stolen' = Len(table) - stolen + (-Len(stale'))
    BY <1>3, <1>5, <1>9 DEF history
  <2> QED
    BY <1>2, <1>9, <2>1 DEF CountExact
<1>11. FlowTyped'
  <2>1. round' \in 0 .. BusyRetries
    BY <1>1, <1>3, FlowAssumption DEF FlowTyped
  <2> QED
    BY <1>1, <1>2, <1>3, <1>9, <2>1 DEF FlowTyped, heap, attach, engine, history
<1>12. ListsInv'
  <2>1. ToSet(table') \cap ToSet(stale') = {} /\ ~Linked(popped)'
    BY <1>3, <1>4, <1>6, FlowAssumption DEF Linked
  <2>2. inited
    BY <1>1, <1>3 DEF ListsInv, FlowTyped
  <2> QED
    BY <1>1, <1>3, <1>4, <1>6, <2>1, <2>2 DEF ListsInv, Stripping, engine
<1> QED
  BY <1>8, <1>10, <1>11, <1>12 DEF FlowInv

LEMMA PopKeeps ==
  ASSUME FlowInv, Pop
  PROVE  FlowInv'
<1>1. FlowTyped /\ ListsInv
  BY DEF FlowInv
<1>2. /\ remover = "take" /\ stale # <<>> /\ popped' = Head(stale) /\ stale' = Tail(stale)
      /\ remover' = "taking"
      /\ UNCHANGED <<inited, table, entries, heap, attach, engine, target, round, leaked, history>>
  BY DEF Pop
<1>3. /\ Head(stale) \in Ctxs /\ Head(stale) \in ToSet(stale) /\ Head(stale) # NoCtx
      /\ Tail(stale) \in Seq(Ctxs) /\ IsInjective(Tail(stale))
      /\ ToSet(Tail(stale)) = ToSet(stale) \ {Head(stale)}
  BY <1>1, <1>2, TailShape, FlowAssumption DEF ListsInv
<1>4. popped = NoCtx
  BY <1>1, <1>2 DEF ListsInv, Stripping
<1>5. \A d \in Ctxs : Tracked(d)' <=> Tracked(d)
  <2>1. \A d \in Ctxs : Linked(d) <=> Linked(d)' \/ d = popped'
    BY <1>2, <1>3 DEF Linked
  <2>2. \A d \in Ctxs : d # popped
    BY <1>4, FlowAssumption
  <2> QED
    BY <2>1, <2>2 DEF Tracked
<1>6. OwnerInv' /\ EngineInv' /\ HeldInv' /\ LiveInv' /\ SpentInv' /\ DestroyFreesAll'
  BY <1>2, <1>5, MovesKeep
<1>7. CountExact'
  BY <1>2 DEF FlowInv, CountExact, history
<1>8. FlowTyped'
  BY <1>1, <1>2 DEF FlowTyped, Stripping, heap, attach, engine, history
<1>9. ListsInv'
  <2>1. ToSet(table') \cap ToSet(stale') = {} /\ ~Linked(popped)'
    BY <1>1, <1>2, <1>3 DEF ListsInv, Linked
  <2> QED
    BY <1>1, <1>2, <1>3, <2>1 DEF ListsInv, Stripping, engine
<1> QED
  BY <1>6, <1>7, <1>8, <1>9 DEF FlowInv

LEMMA RelinkKeeps ==
  ASSUME FlowInv, Relink
  PROVE  FlowInv'
<1>1. FlowTyped /\ ListsInv
  BY DEF FlowInv
<1>2. /\ remover = "relink" /\ table' = Append(table, popped) /\ entries' = Add(1)
      /\ popped' = NoCtx /\ remover' = "strip"
      /\ UNCHANGED <<inited, stale, heap, attach, engine, target, round, leaked, history>>
  BY DEF Relink
<1>3. popped \in Ctxs /\ popped \notin ToSet(table) /\ popped \notin ToSet(stale)
  BY <1>1, <1>2 DEF ListsInv, Stripping, Linked
<1>4. /\ table' \in Seq(Ctxs) /\ IsInjective(table') /\ Len(table') = Len(table) + 1
      /\ ToSet(table') = ToSet(table) \cup {popped}
  BY <1>1, <1>2, <1>3, AppendShape DEF ListsInv
<1>5. \A d \in Ctxs : Tracked(d)' <=> Tracked(d)
  <2>1. \A d \in Ctxs : Linked(d)' <=> Linked(d) \/ d = popped
    BY <1>2, <1>4 DEF Linked
  <2>2. \A d \in Ctxs : d # popped'
    BY <1>2, FlowAssumption
  <2> QED
    BY <2>1, <2>2 DEF Tracked
<1>6. OwnerInv' /\ EngineInv' /\ HeldInv' /\ LiveInv' /\ SpentInv' /\ DestroyFreesAll'
  BY <1>2, <1>5, MovesKeep
<1>7. /\ Add(1) \in 0 .. CountMod - 1 /\ Add(1) = (Len(table) - stolen + 1) % CountMod
      /\ Len(table) \in Nat /\ stolen \in Nat
  BY EntriesMove
<1>8. CountExact'
  <2>1. Len(table') - stolen' = Len(table) - stolen + 1
    BY <1>2, <1>4, <1>7 DEF history
  <2> QED
    BY <1>2, <1>7, <2>1 DEF CountExact
<1>9. FlowTyped'
  BY <1>1, <1>2, <1>7 DEF FlowTyped, heap, attach, engine, history
<1>10. ListsInv'
  <2>1. ToSet(table') \cap ToSet(stale') = {} /\ ~Linked(popped)'
    <3>1. ToSet(table') \subseteq Ctxs /\ ToSet(stale) \subseteq Ctxs
      BY <1>1, <1>4, ListCounts DEF ListsInv
    <3> QED
      BY <1>1, <1>2, <1>3, <1>4, <3>1, FlowAssumption DEF ListsInv, Linked
  <2> QED
    BY <1>1, <1>2, <1>4, <2>1 DEF ListsInv, Stripping, engine
<1> QED
  BY <1>6, <1>8, <1>9, <1>10 DEF FlowInv

LEMMA ReturnStrippedKeeps ==
  ASSUME FlowInv, ReturnStripped
  PROVE  FlowInv'
<1>1. FlowTyped /\ ListsInv /\ OwnerInv /\ EngineInv
  BY DEF FlowInv
<1>2. PICK c \in Ctxs : c = popped
  BY <1>1 DEF ReturnStripped, ListsInv, Stripping
<1>3. /\ remover = "release" /\ Release(c) /\ popped' = NoCtx /\ remover' = "strip"
      /\ UNCHANGED <<inited, table, entries, stale, flowId, fresh, attach, engine, target, round,
                     leaked, history>>
  BY <1>2 DEF ReturnStripped
<1> USE DEF attach, engine, history
<1>4. \A d \in Ctxs : (Tracked(d)' <=> Tracked(d) /\ d # c)
             /\ TableRef(d)' = (IF d = c THEN 0 ELSE TableRef(d)) /\ TableRef(d) \in Nat
             /\ (d = c => TableRef(d) = 1)
  <2>1. \A d \in Ctxs : (Linked(d)' <=> Linked(d)) /\ (d = c => ~Linked(d)) /\ d # NoCtx
    BY <1>1, <1>2, <1>3, FlowAssumption DEF Linked, ListsInv
  <2>2. \A d \in Ctxs : Tracked(d)' <=> Tracked(d) /\ d # c
    BY <1>2, <1>3, <2>1 DEF Tracked
  <2> QED
    BY <1>2, <2>2 DEF TableRef, Tracked
<1>5. \A d \in Ctxs : Held(d) \in Nat /\ Held(d)' \in Nat
                      /\ Held(d)' = (IF d = c THEN Held(d) - 1 ELSE Held(d))
  <2> SUFFICES ASSUME NEW d \in Ctxs
               PROVE  Held(d) \in Nat /\ Held(d)' \in Nat
                      /\ Held(d)' = (IF d = c THEN Held(d) - 1 ELSE Held(d))
    OBVIOUS
  <2>1. /\ Held(d) \in Nat /\ Held(d)' \in Nat
        /\ Held(d)' + TableRef(d) = Held(d) + TableRef(d)' /\ Held(d) >= TableRef(d)
    BY <1>3, HeldStays
  <2> QED
    BY <1>4, <2>1
<1>6. Held(c) \in Nat /\ Held(c)' \in Nat /\ Held(c)' + 1 = Held(c)
  BY <1>5
<1>7. /\ HeldInv' /\ ref' \in [Ctxs -> Int] /\ freed \subseteq freed'
      /\ freed' \subseteq Ctxs /\ fresh' \cap freed' = {}
  BY <1>3, <1>5, <1>6, ReleaseHolds
<1>8. FlowTyped'
  BY <1>1, <1>3, <1>7 DEF FlowTyped
<1>9. ListsInv'
  <2>1. ToSet(table) \subseteq Ctxs /\ ToSet(stale) \subseteq Ctxs
    BY <1>1, ListCounts DEF ListsInv
  <2>2. ~Linked(popped)'
    BY <1>3, <2>1, FlowAssumption DEF Linked
  <2> QED
    BY <1>1, <1>3, <2>2 DEF ListsInv, Stripping
<1>10. OwnerInv'
  BY <1>1, <1>3, <1>4, OwnerStays DEF OwnerInv
<1>11. EngineInv'
  BY <1>1, <1>3, <1>4 DEF EngineInv, FlowTyped
<1>12. LiveInv'
  BY <1>2, <1>3, <1>4, KnownStays DEF LiveInv, FlowInv
<1>13. SpentInv'
  BY <1>1, <1>3, UnspentStays, SpentStays DEF FlowInv
<1>14. CountExact' /\ DestroyFreesAll'
  BY <1>3, <1>7 DEF FlowInv, CountExact, DestroyFreesAll
<1> QED
  BY <1>7, <1>8, <1>9, <1>10, <1>11, <1>12, <1>13, <1>14 DEF FlowInv

\* A flow loses its context, the one that was stripped or another: that flow is robbed.
LEMMA RemoveSucceedsKeeps ==
  ASSUME FlowInv, RemoveSucceeds
  PROVE  FlowInv'
<1>1. FlowTyped /\ ListsInv /\ OwnerInv /\ EngineInv
  BY DEF FlowInv
<1>2. PICK c \in Ctxs : c = popped
  BY <1>1 DEF RemoveSucceeds, ListsInv, Stripping
<1>3. PICK f \in Flows : f = flowId[c]
  BY <1>1 DEF FlowTyped
<1>4. PICK a \in Ctxs : a = assoc[f]
  BY <1>1, <1>2, <1>3 DEF RemoveSucceeds, FlowTyped
<1>5. /\ remover = "popped" /\ assoc' = [assoc EXCEPT ![f] = NoCtx]
      /\ Unlinked(a) \/ UNCHANGED <<table, entries, ref, freed>>
      /\ remover' = "release"
      /\ robbed' = (IF a = c THEN robbed ELSE robbed \cup {f})
      /\ UNCHANGED <<inited, stale, popped, flowId, fresh, pc, mine, open, notify, registered,
                     target, round, leaked, corrupt, stolen, raced>>
  BY <1>2, <1>3, <1>4 DEF RemoveSucceeds, attach
<1>6. a # NoCtx /\ c # NoCtx /\ flowId[a] = f /\ f \in open
  BY <1>1, <1>4, FlowAssumption DEF EngineInv
<1>7. /\ table' \in Seq(Ctxs) /\ IsInjective(table') /\ ToSet(table') \subseteq ToSet(table)
      /\ entries' \in 0 .. CountMod - 1 /\ CountExact' /\ HeldInv'
      /\ ref' \in [Ctxs -> Int] /\ freed \subseteq freed' /\ freed' \subseteq Ctxs
      /\ fresh' \cap freed' = {}
      /\ \A d : (Tracked(d)' => Tracked(d)) /\ (d # a /\ Tracked(d) => Tracked(d)')
  <2>1. CASE Unlinked(a)
    BY <1>5, <2>1, UnlinkedKeeps
  <2>2. CASE UNCHANGED <<table, entries, ref, freed>>
    <3>1. \A d : (Tracked(d)' <=> Tracked(d)) /\ TableRef(d)' = TableRef(d)
      BY <1>5, <2>2, TrackingStays
    <3>2. HeldInv'
      BY <1>5, <2>2, <3>1, HeldUntouched DEF FlowInv
    <3>3. CountExact'
      BY <1>5, <2>2 DEF FlowInv, CountExact
    <3> QED
      BY <1>1, <1>5, <2>2, <3>1, <3>2, <3>3 DEF FlowTyped, ListsInv
  <2> QED
    BY <1>5, <2>1, <2>2
<1>8. /\ assoc' \in [Flows -> Ctxs \cup {NoCtx}] /\ assoc'[f] = NoCtx
      /\ \A g \in Flows : g # f => assoc'[g] = assoc[g]
  BY <1>1, <1>5 DEF FlowTyped
<1>9. FlowTyped'
  BY <1>1, <1>5, <1>7, <1>8 DEF FlowTyped, Stripping
<1>10. ListsInv'
  <2>1. ToSet(table') \cap ToSet(stale') = {} /\ ~Linked(popped)'
    BY <1>1, <1>5, <1>7 DEF ListsInv, Linked
  <2> QED
    BY <1>1, <1>5, <1>7, <2>1 DEF ListsInv, Stripping
<1>11. OwnerInv'
  <2>1. \A p \in Threads : pc[p] \in Owning => mine[p] # NoCtx
    BY <1>1 DEF OwnerInv, Owning
  <2>2. \A p \in Threads : pc[p] \in Owning =>
          mine[p] \notin notify' /\ \A g \in Flows : assoc'[g] # mine[p]
    BY <1>1, <1>5, <1>8, <2>1 DEF OwnerInv
  <2> QED
    BY <1>1, <1>5, <1>7, <2>2, OwnerStays
<1>12. EngineInv'
  <2>1. \A d \in fresh : d # NoCtx
    BY <1>1, FlowAssumption DEF FlowTyped
  <2> QED
    BY <1>1, <1>5, <1>7, <1>8, <2>1 DEF EngineInv
<1>13. LiveInv'
  <2> SUFFICES ASSUME NEW d \in Ctxs, Known(d)'
               PROVE  d \notin raced /\ (flowId[d] \notin robbed' => Tracked(d)' /\ d # c)
    BY <1>2, <1>5 DEF LiveInv
  <2>1. Known(d) /\ ~(flowId[d] = f /\ assoc[f] = d)
    <3>1. CASE flowId[d] # f
      BY <1>1, <1>5, <1>8, <3>1 DEF Known, FlowTyped
    <3>2. CASE flowId[d] = f
      <4>1. assoc'[flowId[d]] # d
        BY <1>8, <3>2, FlowAssumption
      <4>2. Known(d) /\ (d \in notify \/ \E p \in Threads : mine[p] = d /\ pc[p] = "linked")
        BY <1>5, <4>1 DEF Known
      <4>3. d \notin notify
        BY <1>1, <1>6, <3>2 DEF EngineInv
      <4>4. PICK p \in Threads : mine[p] = d /\ pc[p] = "linked"
        BY <4>2, <4>3
      <4>5. assoc[f] # d
        BY <1>1, <4>4 DEF OwnerInv, Owning
      <4> QED
        BY <4>2, <4>5
    <3> QED
      BY <3>1, <3>2
  <2>2. d \notin raced /\ (flowId[d] \notin robbed => Tracked(d))
    BY <2>1 DEF FlowInv, LiveInv
  <2>3. ASSUME flowId[d] \notin robbed' PROVE Tracked(d)' /\ d # c
    <3>1. flowId[d] \notin robbed /\ d # a
      BY <1>4, <1>5, <1>6, <2>1, <2>3
    <3>2. d # c
      BY <1>3, <1>5, <2>3, <3>1
    <3> QED
      BY <1>7, <2>2, <3>1, <3>2
  <2> QED
    BY <2>2, <2>3
<1>14. SpentInv'
  BY <1>1, <1>5, UnspentStays, SpentStays DEF FlowInv
<1>15. DestroyFreesAll'
  BY <1>5, <1>7 DEF FlowInv, DestroyFreesAll
<1> QED
  BY <1>7, <1>9, <1>10, <1>11, <1>12, <1>13, <1>14, <1>15 DEF FlowInv

\* When every callout is unregistered, a reference can only be the table's.
LEMMA DestroyKeeps ==
  ASSUME FlowInv, SkFlowDestroy
  PROVE  FlowInv'
<1>1. FlowTyped /\ ListsInv /\ OwnerInv /\ EngineInv
  BY DEF FlowInv
<1>2. /\ inited /\ remover = "idle" /\ registered = {} /\ inited' = FALSE
      /\ entries' = Add(-Len(table)) /\ freed' = freed \cup ToSet(table)
      /\ ref' = [c \in Ctxs |-> IF c \in ToSet(table) THEN 0 ELSE ref[c]] /\ table' = <<>>
      /\ UNCHANGED <<stale, popped, flowId, fresh, attach, engine, remove, history>>
  BY DEF SkFlowDestroy
<1> USE DEF attach, engine, remove, history
<1>3. ToSet(table) \subseteq Ctxs
  BY <1>1, ListCounts DEF ListsInv
<1>4. popped = NoCtx /\ stale = <<>> /\ ToSet(stale) = {} /\ ToSet(table') = {}
  BY <1>1, <1>2 DEF ListsInv, Stripping, ToSet
<1>5. /\ \A p \in Threads : mine[p] = NoCtx
      /\ \A f \in Flows : assoc[f] = NoCtx
      /\ notify = {}
  BY <1>1, <1>2 DEF EngineInv
<1>6. \A d \in Ctxs : (Tracked(d) <=> d \in ToSet(table)) /\ ~Tracked(d)'
  BY <1>2, <1>4, FlowAssumption DEF Tracked, Linked
<1>7. \A d \in Ctxs : (d \notin ToSet(table) => Held(d) = 0) /\ Held(d)' = 0
  <2> SUFFICES ASSUME NEW d \in Ctxs
               PROVE  (d \notin ToSet(table) => Held(d) = 0) /\ Held(d)' = 0
    OBVIOUS
  <2>1. \A p \in Threads : mine[p] # d
    BY <1>5, FlowAssumption
  <2>2. Held(d) = TableRef(d)
    BY <2>1, HeldByNone
  <2>3. Held(d)' \in Nat /\ Held(d) \in Nat /\ Held(d)' + TableRef(d) = Held(d) + TableRef(d)'
    BY <1>2, HeldStays
  <2>4. TableRef(d)' = 0 /\ (d \notin ToSet(table) => TableRef(d) = 0) /\ TableRef(d) \in Nat
    BY <1>6 DEF TableRef
  <2> QED
    BY <2>2, <2>3, <2>4
<1>8. \A d \in Ctxs :
        /\ HeldAt(d)
        /\ d \notin ToSet(table) => d \in fresh \cup freed /\ (d \notin raced => ref[d] = 0)
  BY <1>7 DEF FlowInv, HeldInv, HeldAt
<1>9. HeldInv' /\ DestroyFreesAll'
  <2>1. \A d \in Ctxs : d \in fresh' \cup freed' /\ (d \notin raced => ref'[d] = 0)
    BY <1>2, <1>8
  <2>2. \A d \in Ctxs : d \in raced => d \notin fresh
    BY <1>8 DEF HeldAt
  <2> QED
    BY <1>1, <1>2, <1>3, <1>7, <2>1, <2>2 DEF HeldInv, HeldAt, DestroyFreesAll, FlowTyped
<1>10. /\ Add(-Len(table)) \in 0 .. CountMod - 1
       /\ Add(-Len(table)) = (Len(table) - stolen + (-Len(table))) % CountMod
       /\ Len(table) \in Nat /\ stolen \in Nat
  <2>1. Len(table) \in Nat /\ -Len(table) \in Int
    BY <1>1, LenProperties DEF ListsInv
  <2> QED
    BY <2>1, EntriesMove
<1>11. CountExact'
  <2>1. Len(table') - stolen' = Len(table) - stolen + (-Len(table))
    BY <1>2, <1>10
  <2> QED
    BY <1>2, <1>10, <2>1 DEF CountExact
<1>12. FlowTyped'
  <2>1. ref' \in [Ctxs -> Int]
    BY <1>1, <1>2 DEF FlowTyped
  <2>2. freed' \subseteq Ctxs /\ fresh' \cap freed' = {}
    <3>1. \A c \in fresh : c \notin ToSet(table)
      BY <1>1 DEF EngineInv, Tracked, Linked
    <3> QED
      BY <1>1, <1>2, <1>3, <3>1 DEF FlowTyped
  <2> QED
    BY <1>1, <1>2, <1>10, <2>1, <2>2 DEF FlowTyped
<1>13. ListsInv'
  <2>1. table' \in Seq(Ctxs) /\ IsInjective(table') /\ ~Linked(popped)'
    BY <1>2, <1>4 DEF IsInjective, Linked
  <2> QED
    BY <1>1, <1>2, <1>4, <2>1 DEF ListsInv, Stripping
<1>14. OwnerInv'
  BY <1>1, <1>2, <1>6, OwnerStays DEF OwnerInv
<1>15. EngineInv'
  BY <1>1, <1>2, <1>6 DEF EngineInv, FlowTyped
<1>16. LiveInv'
  <2>1. \A d \in Ctxs : ~Known(d)'
    BY <1>1, <1>2, <1>5, FlowAssumption DEF Known, FlowTyped
  <2> QED
    BY <2>1 DEF LiveInv
<1>17. SpentInv'
  BY <1>1, <1>2, UnspentStays, SpentStays DEF FlowInv
<1> QED
  BY <1>9, <1>11, <1>12, <1>13, <1>14, <1>15, <1>16, <1>17 DEF FlowInv

-----------------------------------------------------------------------------
(***************************************************************************)
(* The invariant, and what follows from it.                                *)
(***************************************************************************)
LEMMA StutterKeeps ==
  ASSUME FlowInv, UNCHANGED vars
  PROVE  FlowInv'
<1>1. FlowTyped /\ ListsInv /\ OwnerInv /\ EngineInv
  BY DEF FlowInv
<1> USE DEF vars, heap, lists, attach, engine, remove, history
<1>2. \A d : (Linked(d)' <=> Linked(d)) /\ (Tracked(d)' <=> Tracked(d))
             /\ TableRef(d)' = TableRef(d)
  BY TrackingStays
<1>3. FlowTyped' /\ ListsInv'
  BY <1>1, <1>2 DEF FlowTyped, ListsInv
<1>4. OwnerInv'
  BY <1>1, <1>2, OwnerStays DEF OwnerInv
<1>5. EngineInv'
  BY <1>1, <1>2 DEF EngineInv
<1>6. HeldInv'
  BY <1>2, HeldUntouched DEF FlowInv
<1>7. LiveInv'
  BY <1>2, KnownStays DEF LiveInv, FlowInv
<1>8. SpentInv'
  BY <1>1, UnspentStays, SpentStays DEF FlowInv
<1>9. CountExact' /\ DestroyFreesAll'
  BY DEF FlowInv, CountExact, DestroyFreesAll
<1> QED
  BY <1>3, <1>4, <1>5, <1>6, <1>7, <1>8, <1>9 DEF FlowInv

LEMMA FlowStep == FlowInv /\ [Next]_vars => FlowInv'
<1> SUFFICES ASSUME FlowInv, [Next]_vars PROVE FlowInv'
  OBVIOUS
<1>1. ASSUME NEW p \in Threads, Classify(p) PROVE FlowInv'
  <2>1. CASE \E f \in Flows, c \in Ctxs : Allocate(p, f, c)
    BY <2>1, AllocateKeeps
  <2>2. CASE Reuse(p)
    BY <2>2, ReuseKeeps
  <2>3. CASE Link(p)
    BY <2>3, LinkKeeps
  <2>4. CASE AssociateSucceeds(p) \/ AssociateFails(p)
    BY <2>4, AssociateKeeps
  <2>5. CASE RollBack(p)
    BY <2>5, RollBackUnlinks, RollBackRaces, RollBackFindsNone DEF HasLink
  <2>6. CASE ReturnTableRef(p)
    BY <2>6, ReturnTableRefKeeps
  <2>7. CASE ReturnCallerRef(p)
    BY <2>7, ReturnCallerRefKeeps
  <2>8. CASE RollBackTorn(p)
    BY <2>8, TornKeeps
  <2> QED
    BY <1>1, <2>1, <2>2, <2>3, <2>4, <2>5, <2>6, <2>7, <2>8 DEF Classify
<1>2. CASE \E f \in Flows : FlowEnds(f)
  BY <1>2, FlowEndsKeeps
<1>3. CASE \E c \in Ctxs : SkFlowDeleteNotify(c)
  BY <1>3, DeleteNotifyKeeps
<1>4. CASE \/ \E k \in Callouts : UnregisterBegin(k)
           \/ UnregisterSucceeds \/ UnregisterLeaks
  BY <1>4, UnregisterKeeps
<1>5. CASE RemoveAll
  BY <1>5, BusyKeeps, PopKeeps, RemoveSucceedsKeeps, UnregisterKeeps, ReturnStrippedKeeps,
     RelinkKeeps DEF RemoveAll
<1>6. CASE SkFlowDestroy
  BY <1>6, DestroyKeeps
<1>7. CASE UNCHANGED vars
  BY <1>7, StutterKeeps
<1> QED
  BY <1>1, <1>2, <1>3, <1>4, <1>5, <1>6, <1>7 DEF Next, Step

\* What attach, flowDelete and RemoveAll of flow_context.c keep true together, whatever the
\* interleaving and whichever associations fail.
THEOREM FlowHolds == Spec => []FlowInv
  BY FlowStarts, FlowStep, PTL DEF Spec

\* A context has at most the table's reference, its maker's two, and one of each other
\* thread that found it.
LEMMA HeldIsBounded ==
  ASSUME FlowInv, NEW c \in Ctxs \ raced
  PROVE  Held(c) \in 0 .. 2 + Cardinality(Threads)
<1>1. Counted(c) /\ OwnerInv
  BY HeldIsCounted DEF FlowInv
<1>2. /\ Cardinality(Sharers(c)) <= Cardinality(Threads)
      /\ Cardinality(Threads) \in Nat
  <2>1. Sharers(c) \subseteq Threads
    BY DEF Sharers, AttachersAt
  <2> QED
    BY <2>1, FS_Subset, FS_CardinalityType, FlowAssumption
<1>3. CASE Loners(c) = {}
  <2>1. Cardinality(Loners(c)) = 0
    BY <1>3, FS_EmptySet
  <2>2. TableRef(c) <= 1
    BY DEF TableRef
  <2> QED
    BY <1>1, <1>2, <2>1, <2>2 DEF Counted
<1>4. CASE Loners(c) # {}
  <2>1. PICK p \in Threads : mine[p] = c /\ pc[p] \in Lone
    BY <1>4 DEF Loners, AttachersAt
  <2>2. Loners(c) = {p} /\ TableRef(c) = 0
    BY <1>1, <2>1 DEF OwnerInv, Loners, AttachersAt, Lone, Owning, TableRef
  <2>3. Cardinality(Loners(c)) = 1
    BY <2>2, FS_Singleton
  <2> QED
    BY <1>1, <1>2, <2>2, <2>3 DEF Counted
<1> QED
  BY <1>3, <1>4

\* Types, the bound of the reference counts (but of contexts unlinked twice), and that no
\* context is in two places of the lists (flow_context.h, the fields of SK_FLOW_CTX and the
\* globals of flow_context.c).
THEOREM FlowTypeCorrect == Spec => []TypeOK
<1>1. FlowInv => TypeOK
  <2> SUFFICES ASSUME FlowInv PROVE TypeOK
    OBVIOUS
  <2>1. FlowTyped /\ ListsInv
    BY DEF FlowInv
  <2>2. \A c \in Ctxs \ raced : ref[c] \in 0 .. (2 + Cardinality(Threads))
    BY <2>1, HeldIsBounded DEF FlowInv, HeldInv, HeldAt
  <2>3. stolen \in 0 .. Cardinality(Ctxs)
    <3>1. IsFiniteSet(Unspent)
      BY <2>1, FS_Subset, FlowAssumption DEF Unspent, FlowTyped
    <3>2. Cardinality(Unspent) \in Nat /\ Cardinality(Ctxs) \in Nat /\ stolen \in Nat
      BY <2>1, <3>1, FS_CardinalityType, FlowAssumption DEF FlowTyped
    <3> QED
      BY <3>2 DEF FlowInv, SpentInv
  <2>4. ToSet(table) \cup ToSet(stale) \subseteq Ctxs /\ popped \in Ctxs \cup {NoCtx}
        /\ ~Linked(popped)
    BY <2>1, ListCounts DEF ListsInv
  <2>5. IsInjective(table \o stale)
    BY <2>1, ConcatIsInjective DEF ListsInv
  <2> QED
    BY <2>1, <2>2, <2>3, <2>4, <2>5 DEF TypeOK, FlowTyped, Lone, Shared, Stripping
<1> QED
  BY <1>1, FlowHolds, PTL

\* No context is freed under a holder, none freed twice, none forgotten
\* (flow_context.c:4-6), but the one that a rollback and the teardown both took off the
\* teardown's list: it is freed too early, and even that one not forgotten.
THEOREM ReferencesAreHolders == Spec => []RefsExact
<1>1. FlowInv => RefsExact
  BY DEF FlowInv, HeldInv, HeldAt, RefsExact
<1> QED
  BY <1>1, FlowHolds, PTL

\* The engine has no stale context, but of flows that lost another one to the strip
\* (flow_context.c:126-128).
THEOREM EngineContextsAreLive == Spec => []EngineSeesLive
<1>1. FlowInv => EngineSeesLive
  <2> SUFFICES ASSUME FlowInv PROVE EngineSeesLive
    OBVIOUS
  <2>1. FlowTyped /\ EngineInv
    BY DEF FlowInv
  <2>2. \A c \in Ctxs :
          Known(c) => c \notin raced /\ (flowId[c] \notin robbed => Tracked(c))
    BY DEF FlowInv, LiveInv
  <2>3. \A c \in Ctxs \ raced : Tracked(c) => c \notin freed
    <3> SUFFICES ASSUME NEW c \in Ctxs \ raced, Tracked(c) PROVE Held(c) # 0
      BY DEF FlowInv, HeldInv, HeldAt
    <3>1. TableRef(c) = 1
      BY DEF TableRef
    <3>2. Counted(c)
      BY HeldIsCounted
    <3> QED
      BY <3>1, <3>2 DEF Counted
  <2>4. ASSUME NEW f \in Flows \ robbed, assoc[f] # NoCtx
        PROVE  assoc[f] \notin freed /\ Tracked(assoc[f])
    <3>1. assoc[f] \in Ctxs /\ flowId[assoc[f]] = f
      BY <2>1, <2>4 DEF FlowTyped, EngineInv
    <3>2. Known(assoc[f])
      BY <3>1 DEF Known
    <3> QED
      BY <2>2, <2>3, <3>1, <3>2
  <2>5. ASSUME NEW f \in Flows \ robbed, NEW c \in notify, flowId[c] = f
        PROVE  c \notin freed
    BY <2>1, <2>2, <2>3, <2>5 DEF FlowTyped, Known
  <2> QED
    BY <2>4, <2>5 DEF EngineSeesLive
<1> QED
  BY <1>1, FlowHolds, PTL

\* The counter is the length of the table, but for the entries counted off twice
\* (flow_context.c:107-117).
THEOREM EntriesAreCounted == Spec => []CountExact
<1>1. FlowInv => CountExact
  BY DEF FlowInv
<1> QED
  BY <1>1, FlowHolds, PTL

\* After SkFlowDestroy no context is left (flow_context.c:220-240).
THEOREM NothingSurvivesDestroy == Spec => []DestroyFreesAll
<1>1. FlowInv => DestroyFreesAll
  BY DEF FlowInv
<1> QED
  BY <1>1, FlowHolds, PTL

-----------------------------------------------------------------------------
(***************************************************************************)
(* Orphans.                                                                *)
(***************************************************************************)
\* The attaches on their way with a context of the table.
OnWay(c) == AttachersAt(c, {"linked", "failed"})

\* Steps that leave the table and the engine alone, or take from the table, and in which
\* no attach stops being on its way with an entry of the table.
LEMMA NoNewOrphan ==
  ASSUME NEW c \in Ctxs, Orphan(c)', ToSet(table') \subseteq ToSet(table),
         flowId'[c] = flowId[c], assoc' = assoc, notify' = notify, OnWay(c) \subseteq OnWay(c)'
  PROVE  Orphan(c)
  BY DEF Orphan, OnWay

LEMMA AttachMakesNoOrphan ==
  ASSUME FlowInv, NEW p \in Threads, Classify(p), NEW c \in Ctxs, Orphan(c)'
  PROVE  Orphan(c)
<1>1. FlowTyped /\ ListsInv /\ OwnerInv /\ EngineInv
  BY DEF FlowInv
<1> USE DEF heap, lists, attach, engine, remove, history, Goto
<1>2. OnWay(c)' = {}
  BY DEF Orphan, OnWay
<1>3. CASE \E f \in Flows, d \in Ctxs : Allocate(p, f, d)
  <2>1. PICK f \in Flows, d \in Ctxs : Allocate(p, f, d)
    BY <1>3
  <2>2. c \in ToSet(table) /\ d \in fresh
    BY <2>1 DEF Allocate, Orphan
  <2>3. c # d
    BY <1>1, <2>2 DEF EngineInv, Tracked, Linked
  <2>4. OnWay(c) \subseteq OnWay(c)'
    BY <1>1, <2>1, <2>3 DEF Allocate, OnWay, AttachersAt, FlowTyped
  <2> QED
    BY <1>1, <2>1, <2>3, <2>4, NoNewOrphan DEF Allocate, FlowTyped
<1>4. CASE Reuse(p)
  <2>1. OnWay(c) \subseteq OnWay(c)'
    BY <1>1, <1>4 DEF Reuse, OnWay, AttachersAt, FlowTyped
  <2> QED
    BY <1>4, <2>1, NoNewOrphan DEF Reuse
<1>5. CASE Link(p)
  <2>1. mine[p] \in Ctxs
    BY <1>1, <1>5 DEF Link, OwnerInv, FlowTyped
  <2>2. ToSet(table') = ToSet(table) \cup {mine[p]}
    BY <1>1, <1>5, <2>1, AppendShape DEF Link, ListsInv
  <2>3. c # mine[p]
    <3>1. mine'[p] = mine[p] /\ pc'[p] = "linked"
      BY <1>1, <1>5 DEF Link, FlowTyped
    <3> QED
      BY <1>2, <3>1 DEF OnWay, AttachersAt
  <2>4. OnWay(c) \subseteq OnWay(c)'
    BY <1>1, <1>5 DEF Link, OnWay, AttachersAt, FlowTyped
  <2>5. c \in ToSet(table)
    BY <2>2, <2>3 DEF Orphan
  <2> QED
    BY <1>5, <2>4, <2>5 DEF Link, Orphan, OnWay
<1>6. CASE AssociateSucceeds(p)
  <2> DEFINE f == flowId[mine[p]]
  <2>1. mine[p] \in Ctxs /\ mine[p] # NoCtx /\ f \in Flows /\ assoc[f] = NoCtx
    BY <1>1, <1>6 DEF AssociateSucceeds, OwnerInv, FlowTyped
  <2>2. assoc' = [assoc EXCEPT ![f] = mine[p]] /\ UNCHANGED <<table, flowId, notify, mine>>
        /\ pc' = [pc EXCEPT ![p] = "attached"]
    BY <1>6 DEF AssociateSucceeds
  <2>3. c # mine[p]
    BY <1>1, <2>1, <2>2 DEF Orphan, FlowTyped
  <2>4. OnWay(c) \subseteq OnWay(c)'
    BY <1>1, <2>2, <2>3 DEF OnWay, AttachersAt, FlowTyped
  <2>5. assoc[flowId[c]] # c
    <3>1. flowId[c] \in Flows /\ assoc'[flowId[c]] # c
      BY <1>1, <2>2 DEF Orphan, FlowTyped
    <3>2. CASE flowId[c] = f
      BY <2>1, <3>2, FlowAssumption
    <3>3. CASE flowId[c] # f
      BY <1>1, <2>2, <3>1, <3>3 DEF FlowTyped
    <3> QED
      BY <3>2, <3>3
  <2> QED
    BY <2>2, <2>4, <2>5 DEF Orphan, OnWay
<1>7. CASE AssociateFails(p)
  <2>1. OnWay(c) \subseteq OnWay(c)'
    BY <1>1, <1>7 DEF AssociateFails, OnWay, AttachersAt, FlowTyped
  <2> QED
    BY <1>7, <2>1, NoNewOrphan DEF AssociateFails
<1>8. CASE RollBack(p)
  <2>1. pc[p] = "failed" /\ mine[p] \in Ctxs
    BY <1>1, <1>8 DEF RollBack, OwnerInv, FlowTyped
  <2>2. ToSet(table') \subseteq ToSet(table) /\ mine[p] \notin ToSet(table')
    <3>1. CASE HasLink(mine[p])
      <4>1. ToSet(table') = ToSet(table) \ {mine[p]}
        BY <1>1, <1>8, <2>1, <3>1, WithoutShape DEF RollBack, ListsInv
      <4> QED
        BY <4>1
    <3>2. CASE ~HasLink(mine[p])
      BY <1>8, <3>2 DEF RollBack, HasLink, Linked
    <3> QED
      BY <3>1, <3>2
  <2>3. c # mine[p]
    BY <2>2 DEF Orphan
  <2>4. mine' = mine /\ (\A q \in Threads : q # p => pc'[q] = pc[q])
        /\ flowId' = flowId /\ assoc' = assoc /\ notify' = notify
    BY <1>1, <1>8 DEF RollBack, FlowTyped
  <2>5. OnWay(c) \subseteq OnWay(c)'
    BY <2>3, <2>4 DEF OnWay, AttachersAt
  <2> QED
    BY <2>2, <2>4, <2>5, NoNewOrphan
<1>9. CASE ReturnTableRef(p) \/ ReturnCallerRef(p)
  <2>1. OnWay(c) \subseteq OnWay(c)'
    BY <1>1, <1>9 DEF ReturnTableRef, ReturnCallerRef, OnWay, AttachersAt, FlowTyped
  <2> QED
    BY <1>9, <2>1, NoNewOrphan DEF ReturnTableRef, ReturnCallerRef
<1>10. CASE RollBackTorn(p)
  <2>1. UNCHANGED <<table, flowId, pc, mine, assoc, notify>>
    BY <1>10 DEF RollBackTorn
  <2>2. OnWay(c) \subseteq OnWay(c)'
    BY <2>1 DEF OnWay, AttachersAt
  <2> QED
    BY <2>1, <2>2, NoNewOrphan
<1> QED
  BY <1>3, <1>4, <1>5, <1>6, <1>7, <1>8, <1>9, <1>10 DEF Classify

LEMMA OthersMakeNoOrphan ==
  ASSUME FlowInv, Next, \A p \in Threads : ~Classify(p),
         remover \notin {"popped", "relink"}, NEW c \in Ctxs, Orphan(c)'
  PROVE  Orphan(c)
<1>1. FlowTyped /\ ListsInv /\ OwnerInv /\ EngineInv
  BY DEF FlowInv
<1> USE DEF heap, lists, attach, engine, remove, history
<1>2. pc' = pc /\ mine' = mine => OnWay(c)' = OnWay(c)
  BY DEF OnWay, AttachersAt
<1>3. CASE \E f \in Flows : FlowEnds(f)
  <2>1. PICK f \in Flows : FlowEnds(f)
    BY <1>3
  <2>2. /\ assoc' = [assoc EXCEPT ![f] = NoCtx] /\ UNCHANGED <<table, flowId, pc, mine>>
        /\ notify' = (IF assoc[f] = NoCtx THEN notify ELSE notify \cup {assoc[f]})
    BY <2>1 DEF FlowEnds
  <2>3. c \notin notify /\ c # assoc[f]
    BY <2>2, FlowAssumption DEF Orphan
  <2>4. assoc[flowId[c]] # c
    BY <1>1, <2>2, <2>3 DEF Orphan, FlowTyped
  <2> QED
    BY <1>2, <2>2, <2>3, <2>4 DEF Orphan, OnWay
<1>4. CASE \E d \in Ctxs : SkFlowDeleteNotify(d)
  <2>1. PICK d \in Ctxs : SkFlowDeleteNotify(d)
    BY <1>4
  <2>2. /\ notify' = notify \ {d} /\ UNCHANGED <<flowId, pc, mine, assoc>> /\ Unlinked(d)
    BY <2>1 DEF SkFlowDeleteNotify
  <2>3. ToSet(table') = ToSet(table) \ {d}
    <3>1. CASE d \in ToSet(table)
      BY <1>1, <2>2, <3>1, WithoutShape DEF Unlinked, ListsInv
    <3>2. CASE d \notin ToSet(table)
      BY <2>2, <3>2 DEF Unlinked
    <3> QED
      BY <3>1, <3>2
  <2> QED
    BY <1>2, <2>2, <2>3 DEF Orphan, OnWay
<1>5. CASE \/ \E k \in Callouts : UnregisterBegin(k)
           \/ UnregisterSucceeds \/ UnregisterLeaks \/ StripEnd \/ Look \/ Pop \/ PopNothing
           \/ ClearLink \/ ReturnStripped
  <2>1. UNCHANGED <<table, flowId, pc, mine, assoc, notify>>
    BY <1>5 DEF UnregisterBegin, UnregisterSucceeds, UnregisterLeaks, StripEnd, Look, Pop,
       PopNothing, ClearLink, ReturnStripped
  <2> QED
    BY <1>2, <2>1, NoNewOrphan
<1>6. CASE UnregisterBusy
  <2>1. PICK its : table' = Only(table, Ctxs \ its)
    BY <1>6 DEF UnregisterBusy
  <2>2. ToSet(table') \subseteq ToSet(table)
    BY <1>1, <2>1, OnlyShape DEF ListsInv
  <2>3. UNCHANGED <<flowId, pc, mine, assoc, notify>>
    BY <1>6 DEF UnregisterBusy
  <2> QED
    BY <1>2, <2>2, <2>3, NoNewOrphan
<1>7. CASE SkFlowDestroy
  BY <1>7 DEF SkFlowDestroy, Orphan, ToSet
<1> QED
  BY <1>3, <1>4, <1>5, <1>6, <1>7 DEF Next, Step, RemoveAll, RemoveSucceeds, RemoveFails, Relink

\* An entry that nobody will remove is of the strip's making only: a failed association
\* takes its entry back, a second attach leaves the first one's alone, and the end of a
\* flow leads to flowDelete (flow_context.c:71-72).
THEOREM OnlyTheStripOrphans == Spec => OnlyStripOrphans
<1>1. FlowInv /\ [Next]_vars =>
        [\A c \in Ctxs : Orphan(c)' /\ ~Orphan(c) => remover \in {"popped", "relink"}]_vars
  BY AttachMakesNoOrphan, OthersMakeNoOrphan
<1> QED
  BY <1>1, FlowHolds, PTL DEF Spec, OnlyStripOrphans
=============================================================================
