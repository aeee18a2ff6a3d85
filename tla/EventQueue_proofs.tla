------------------------- MODULE EventQueue_proofs -------------------------
(***************************************************************************)
(* Proofs about EventQueue, for any threads, events and bounds: the ring   *)
(* of consumed records gives the newest ones, in order, for every size.    *)
(* A reference is owed while its event is in one place: RefInv says which  *)
(* control points have an event in hand, and that no two have the same.    *)
(* A stop that succeeds is complete: StopInv follows its steps.            *)
(***************************************************************************)
EXTENDS EventQueue, TLAPS, SequenceTheorems, FiniteSetTheorems, DataFacts

-----------------------------------------------------------------------------
(***************************************************************************)
(* Remainders.                                                             *)
(***************************************************************************)
\* The next position, the position of a record d places back, and the slot that an index
\* counted from the oldest of n records gives.
LEMMA NextRemainder ==
  ASSUME NEW m \in Nat \ {0}, NEW a \in Nat
  PROVE  ((a % m) + 1) % m = (a + 1) % m
<1> a \in Int /\ 1 \in Int
  OBVIOUS
<1> QED
  BY SumRemainder

LEMMA BackIsElsewhere ==
  ASSUME NEW m \in Nat \ {0}, NEW a \in Nat, NEW d \in 1 .. m - 1, d <= a
  PROVE  (a - d) % m # a % m
<1> SUFFICES ASSUME (a - d) % m = a % m PROVE FALSE
  OBVIOUS
<1> a \in Int /\ a - d \in Int
  OBVIOUS
<1>1. PICK q \in Int : a = m * q + (a % m)
  BY Remainder
<1>2. PICK p \in Int : a - d = m * p + ((a - d) % m)
  BY Remainder
<1>3. a % m \in Int
  BY Remainder
<1>4. d = m * (q - p)
  <2>1. m * (q - p) = m * q - m * p
    OBVIOUS
  <2>2. QED
    BY <1>1, <1>2, <1>3, <2>1
<1>5. CASE q - p = 0
  BY <1>4, <1>5
<1>6. CASE q - p # 0
  BY <1>4, <1>6, MultipleIsFar
<1>7. QED
  BY <1>5, <1>6

LEMMA SlotOfNewest ==
  ASSUME NEW m \in Nat \ {0}, NEW a \in Nat, NEW n \in 0 .. m, n <= a, NEW i \in 0 .. n - 1
  PROVE  ((((a % m) + m - n) % m) + i) % m = (a - n + i) % m
<1> DEFINE h == (a % m) + m - n
<1> a \in Int
  OBVIOUS
<1>1. PICK q \in Int : a = m * q + (a % m)
  BY Remainder
<1>2. a % m \in 0 .. m - 1 /\ h \in Int /\ a - n + i \in Int
  BY Remainder
<1>3. PICK s \in Int : h = m * s + (h % m)
  BY <1>2, Remainder
<1>4. h % m \in 0 .. m - 1 /\ (h % m) + i \in Int
  BY <1>2, Remainder
<1>5. PICK t \in Int : (h % m) + i = m * t + (((h % m) + i) % m)
  BY <1>4, Remainder
<1>6. ((h % m) + i) % m \in 0 .. m - 1
  BY <1>4, Remainder
<1>7. a - n + i = m * (q - 1 + s + t) + (((h % m) + i) % m)
  <2> DEFINE r == ((h % m) + i) % m
             mq == m * q
             ms == m * s
             mt == m * t
             g == h % m
             b == a % m
  <2>1. m * (q - 1 + s + t) = mq - m + ms + mt
    OBVIOUS
  <2>2. mq \in Int /\ ms \in Int /\ mt \in Int /\ g \in Int /\ r \in Int /\ b \in Int
    BY <1>2, <1>4, <1>6
  <2>3. a = mq + b /\ b + m - n = ms + g /\ g + i = mt + r
    BY <1>1, <1>3, <1>5
  <2> HIDE DEF r, mq, ms, mt, g, b
  <2>4. a - n + i = mq - m + ms + mt + r
    BY <2>2, <2>3
  <2>5. QED
    BY <2>1, <2>4 DEF r
<1>8. (a - n + i) % m = ((h % m) + i) % m
  <2>1. q - 1 + s + t \in Int
    OBVIOUS
  <2>2. QED
    BY <1>2, <1>6, <1>7, <2>1, RemainderIs
<1>9. QED
  BY <1>8

-----------------------------------------------------------------------------
(***************************************************************************)
(* The ring.                                                               *)
(***************************************************************************)
\* The record written d places back from the newest is in the slot d places behind the head.
RingInv ==
  /\ ring \in [0 .. RingSize - 1 -> Events \cup {NoEvent}]
  /\ written \in Seq(Events)
  /\ ringTotal = Len(written) /\ ringHead = Len(written) % RingSize
  /\ \A d \in 1 .. RingSize :
       d <= Len(written) =>
         ring[(Len(written) - d) % RingSize] = written[Len(written) - d + 1]

LEMMA RingStarts == Init => RingInv
<1> SUFFICES ASSUME Init PROVE RingInv
  OBVIOUS
<1>1. written = <<>> /\ ringTotal = 0 /\ ringHead = 0 /\ Len(written) = 0
  BY DEF Init
<1>2. 0 % RingSize = 0
  <2>1. 0 = RingSize * 0 + 0 /\ 0 \in 0 .. RingSize - 1
    BY EventAssumption
  <2>2. QED
    BY <2>1, EventAssumption, RemainderIs
<1>3. ring \in [0 .. RingSize - 1 -> Events \cup {NoEvent}]
  BY DEF Init
<1>4. QED
  BY <1>1, <1>2, <1>3 DEF RingInv

LEMMA SinkKeepsRing ==
  ASSUME RingInv, NEW e, shTelemetrySink(e)
  PROVE  RingInv'
<1>1. CASE e \notin Records
  BY <1>1 DEF shTelemetrySink, telemetry, RingInv
<1>2. CASE e \in Records
  <2> DEFINE n == Len(written)
             h == n % RingSize
  <2> RingSize \in Nat \ {0} /\ e \in Events
    BY <1>2, EventAssumption DEF Events
  <2>1. /\ written \in Seq(Events) /\ n \in Nat /\ ringHead = h /\ ringTotal = n
        /\ ring \in [0 .. RingSize - 1 -> Events \cup {NoEvent}]
    BY LenProperties DEF RingInv
  <2>2. /\ written' = Append(written, e) /\ ringTotal' = n + 1
        /\ ring' = [ring EXCEPT ![h] = e] /\ ringHead' = (h + 1) % RingSize
    BY <1>2, <2>1 DEF shTelemetrySink
  <2>3. /\ written' \in Seq(Events) /\ Len(written') = n + 1 /\ written'[n + 1] = e
        /\ \A i \in 1 .. n : written'[i] = written[i]
    BY <2>1, <2>2, AppendProperties
  <2>4. h \in 0 .. RingSize - 1
    <3>1. n \in Int
      BY <2>1
    <3>2. QED
      BY <2>1, <3>1, Remainder
  <2>5. ringHead' = Len(written') % RingSize
    BY <2>1, <2>2, <2>3, NextRemainder
  <2>6. ASSUME NEW d \in 1 .. RingSize, d <= n + 1
        PROVE  ring'[(n + 1 - d) % RingSize] = written'[n + 1 - d + 1]
    <3>1. CASE d = 1
      <4>1. n + 1 - d = n /\ n + 1 - d + 1 = n + 1
        BY <2>1, <3>1
      <4>2. ring'[h] = e
        BY <2>1, <2>2, <2>4
      <4>3. QED
        BY <2>3, <4>1, <4>2
    <3>2. CASE d # 1
      <4> DEFINE c == d - 1
      <4>1. c \in 1 .. RingSize - 1 /\ c <= n /\ c \in 1 .. RingSize
        BY <2>1, <2>6, <3>2
      <4>2. n + 1 - d = n - c /\ n + 1 - d + 1 = n - c + 1 /\ n - c \in Int /\ n - c + 1 \in 1 .. n
        BY <2>1, <4>1
      <4> HIDE DEF c
      <4>3. (n - c) % RingSize # h /\ (n - c) % RingSize \in 0 .. RingSize - 1
        BY <2>1, <4>1, <4>2, BackIsElsewhere, Remainder
      <4>4. ring[(n - c) % RingSize] = written[n - c + 1]
        BY <4>1 DEF RingInv
      <4>5. ring'[(n - c) % RingSize] = ring[(n - c) % RingSize]
        BY <2>1, <2>2, <4>3
      <4>6. QED
        BY <2>3, <4>2, <4>4, <4>5
    <3>3. QED
      BY <3>1, <3>2
  <2>7. ring' \in [0 .. RingSize - 1 -> Events \cup {NoEvent}]
    BY <2>1, <2>2
  <2>8. \A d \in 1 .. RingSize :
          d <= Len(written') =>
            ring'[(Len(written') - d) % RingSize] = written'[Len(written') - d + 1]
    BY <2>3, <2>6
  <2>9. QED
    BY <2>2, <2>3, <2>5, <2>7, <2>8 DEF RingInv
<1>3. QED
  BY <1>1, <1>2

LEMMA RingNext == RingInv /\ [Next]_vars => RingInv'
<1> SUFFICES ASSUME RingInv, [Next]_vars PROVE RingInv'
  OBVIOUS
<1>1. ASSUME UNCHANGED telemetry PROVE RingInv'
  BY <1>1 DEF telemetry, RingInv
<1>2. CASE Consume
  BY <1>2, SinkKeepsRing DEF Consume
<1>3. CASE DrainConsume
  BY <1>3, SinkKeepsRing DEF DrainConsume
<1>4. CASE \E p \in Producers : ProducerStep(p)
  BY <1>1, <1>4
  DEF ProducerStep, ProducerMoves, EnterCheck, EnterCount, AllocFails, Recheck, Insert,
      ProducerLeave, RingDoorbell, DropInPlace
<1>5. CASE \/ WaitSignaled \/ WaitTimesOut \/ Probe \/ Pop \/ StarterStep \/ UNCHANGED vars
  BY <1>1, <1>5
  DEF WaitSignaled, WaitTimesOut, Probe, Pop, StarterStep, StartCheck, CreateFails, Create,
      Publish, vars
<1>6. CASE \/ StopBegin \/ ProducersGone \/ ProducersInside \/ Join \/ JoinFails \/ Drain
           \/ StopEnd
  BY <1>1, <1>6 DEF StopBegin, ProducersGone, ProducersInside, Join, JoinFails, Drain,
                        StopEnd
<1>7. QED
  BY <1>2, <1>3, <1>4, <1>5, <1>6 DEF Next, ConsumerStep, StopperMoves

LEMMA RingIsNewest == RingInv => FlushIsNewest
<1> SUFFICES ASSUME RingInv, NEW max \in 0 .. RingSize + 1
             PROVE  LET records == SkTelemetryFlush(max)
                        n == Len(records)
                    IN /\ n <= max /\ (n < max => n = Len(written) \/ n = RingSize)
                       /\ records = SubSeq(written, Len(written) - n + 1, Len(written))
  BY DEF FlushIsNewest
<1> DEFINE total == Len(written)
           avail == IF total < RingSize THEN total ELSE RingSize
           n == IF avail < max THEN avail ELSE max
           first == ((total % RingSize) + RingSize - n) % RingSize
           records == [i \in 1 .. n |-> ring[(first + i - 1) % RingSize]]
           last == SubSeq(written, total - n + 1, total)
<1> RingSize \in Nat \ {0} /\ max \in Nat
  BY EventAssumption
<1>1. written \in Seq(Events) /\ total \in Nat /\ ringTotal = total
  BY LenProperties DEF RingInv
<1>2. SkTelemetryFlush(max) = records
  BY <1>1 DEF SkTelemetryFlush, RingInv
<1>3. /\ n \in 0 .. RingSize /\ n <= total /\ n <= max
      /\ n < max => n = total \/ n = RingSize
  BY <1>1
<1> HIDE DEF avail, n, total
<1>4. ASSUME NEW i \in 1 .. n PROVE records[i] = written[total - n + i]
  <2> DEFINE d == n - i + 1
  <2>1. d \in 1 .. RingSize /\ d <= total /\ i - 1 \in 0 .. n - 1 /\ i \in Nat
    BY <1>1, <1>3
  <2>2. (first + (i - 1)) % RingSize = (total - n + (i - 1)) % RingSize
    BY <1>1, <1>3, <2>1, SlotOfNewest
  <2>3. total - n + (i - 1) = total - d /\ total - n + i = total - d + 1
    BY <1>1, <1>3, <2>1
  <2>4. ring[(total - d) % RingSize] = written[total - d + 1]
    <3> HIDE DEF d
    <3>1. QED
      BY <2>1 DEF RingInv, total
  <2>5. first \in 0 .. RingSize - 1
    <3>1. total \in Int
      BY <1>1
    <3>2. total % RingSize \in 0 .. RingSize - 1
      BY <1>1, <3>1, Remainder
    <3>3. (total % RingSize) + RingSize - n \in Int
      BY <1>3, <3>2
    <3>4. QED
      BY <3>3, Remainder
  <2> HIDE DEF first
  <2>6. first + i - 1 = first + (i - 1)
    BY <2>1, <2>5
  <2>7. QED
    BY <2>2, <2>3, <2>4, <2>6
<1>5. /\ last \in Seq(Events) /\ Len(last) = n
      /\ \A i \in 1 .. n : last[i] = written[total - n + i]
  <2>1. total - n + 1 \in Int /\ total \in Int /\ total - (total - n + 1) + 1 = n
    BY <1>1, <1>3
  <2>2. \A i \in total - n + 1 .. total : written[i] \in Events
    BY <1>1, <1>3, LenProperties DEF total
  <2>3. /\ last \in Seq(Events)
        /\ Len(last) = IF total - n + 1 <= total THEN total - (total - n + 1) + 1 ELSE 0
        /\ \A i \in 1 .. total - (total - n + 1) + 1 :
             last[i] = written[total - n + 1 + i - 1]
    BY <2>1, <2>2, SubSeqProperties
  <2>4. \A i \in 1 .. n : total - n + 1 + i - 1 = total - n + i
    BY <1>1, <1>3
  <2>5. n = 0 \/ total - n + 1 <= total
    BY <1>1, <1>3
  <2>6. QED
    BY <1>3, <2>1, <2>3, <2>4, <2>5
<1>6. records = last
  <2>1. last \in [1 .. n -> Events]
    BY <1>5, LenProperties
  <2>2. records = [i \in 1 .. n |-> records[i]] /\ last = [i \in 1 .. n |-> last[i]]
    BY <2>1
  <2> HIDE DEF records, last
  <2>3. \A i \in 1 .. n : records[i] = last[i]
    BY <1>4, <1>5
  <2>4. QED
    BY <2>2, <2>3
<1>7. QED
  BY <1>2, <1>3, <1>5, <1>6 DEF total

\* Whatever its size and however often it has wrapped, the ring of SkTelemetryFlush gives the
\* records consumed last, in order.
THEOREM FlushGivesNewest == Spec => []FlushIsNewest
<1>1. QED
  BY RingStarts, RingNext, RingIsNewest, PTL DEF Spec

-----------------------------------------------------------------------------
(***************************************************************************)
(* The list.                                                               *)
(***************************************************************************)
Elems(s) == {s[i] : i \in 1 .. Len(s)}
Distinct(s) == \A i, j \in 1 .. Len(s) : s[i] = s[j] => i = j

\* A list without repetitions has as many elements as places.
LEMMA DistinctCounts ==
  ASSUME NEW s \in Seq(Events), Distinct(s)
  PROVE  Cardinality(Elems(s)) = Len(s)
<1> DEFINE n == Len(s)
           f == [i \in 1 .. n |-> s[i]]
<1>1. n \in Nat
  BY LenProperties
<1>2. IsFiniteSet(1 .. n) /\ Cardinality(1 .. n) = n
  BY <1>1, FS_Interval
<1>3. f \in Bijection(1 .. n, Elems(s))
  <2>1. f \in [1 .. n -> Elems(s)]
    BY DEF Elems
  <2>2. \A i, j \in 1 .. n : f[i] = f[j] => i = j
    BY DEF Distinct
  <2>3. \A e \in Elems(s) : \E i \in 1 .. n : f[i] = e
    BY DEF Elems
  <2>4. QED
    BY <2>1, <2>2, <2>3 DEF Bijection, Injection, IsInjective, Surjection
<1>4. QED
  BY <1>2, <1>3, FS_Bijection DEF ExistsBijection

LEMMA FirstLeaves ==
  ASSUME NEW s \in Seq(Events), s # <<>>, Distinct(s)
  PROVE  /\ Head(s) \in Events /\ Tail(s) \in Seq(Events) /\ Distinct(Tail(s))
         /\ Head(s) \in Elems(s) /\ Elems(Tail(s)) = Elems(s) \ {Head(s)}
<1> DEFINE n == Len(s)
           t == Tail(s)
<1>1. /\ n \in Nat \ {0} /\ Head(s) = s[1] /\ s[1] \in Events
      /\ t \in Seq(Events) /\ Len(t) = n - 1 /\ \A i \in 1 .. n - 1 : t[i] = s[i + 1]
  BY HeadTailProperties, LenProperties, ElementOfSeq, EmptySeq
<1> HIDE DEF t
<1>2. Distinct(t)
  <2> SUFFICES ASSUME NEW i \in 1 .. n - 1, NEW j \in 1 .. n - 1, t[i] = t[j] PROVE i = j
    BY <1>1 DEF Distinct
  <2>1. i + 1 \in 1 .. n /\ j + 1 \in 1 .. n /\ s[i + 1] = s[j + 1]
    BY <1>1
  <2>2. i + 1 = j + 1
    BY <2>1 DEF Distinct
  <2>3. QED
    BY <2>2
<1>3. Elems(t) = Elems(s) \ {s[1]}
  <2>1. ASSUME NEW e \in Elems(t) PROVE e \in Elems(s) \ {s[1]}
    <3>1. PICK i \in 1 .. n - 1 : e = s[i + 1]
      BY <1>1, <2>1 DEF Elems
    <3>2. i + 1 \in 1 .. n /\ 1 \in 1 .. n /\ i + 1 # 1
      BY <1>1
    <3>3. s[i + 1] # s[1]
      BY <3>2 DEF Distinct
    <3>4. QED
      BY <3>1, <3>2, <3>3 DEF Elems
  <2>2. ASSUME NEW e \in Elems(s), e # s[1] PROVE e \in Elems(t)
    <3>1. PICK i \in 1 .. n : e = s[i]
      BY DEF Elems
    <3>2. i - 1 \in 1 .. n - 1 /\ t[i - 1] = s[i]
      <4>1. i # 1
        BY <2>2, <3>1
      <4>2. i - 1 \in 1 .. n - 1 /\ (i - 1) + 1 = i
        BY <1>1, <4>1
      <4>3. QED
        BY <1>1, <4>2
    <3>3. QED
      BY <1>1, <3>1, <3>2 DEF Elems
  <2>3. QED
    BY <2>1, <2>2
<1>4. s[1] \in Elems(s)
  BY <1>1 DEF Elems
<1>5. QED
  BY <1>1, <1>2, <1>3, <1>4 DEF t

LEMMA LastJoins ==
  ASSUME NEW s \in Seq(Events), Distinct(s), NEW e \in Events, e \notin Elems(s)
  PROVE  /\ Append(s, e) \in Seq(Events) /\ Distinct(Append(s, e))
         /\ Elems(Append(s, e)) = Elems(s) \cup {e}
<1> DEFINE n == Len(s)
           t == Append(s, e)
<1>1. /\ n \in Nat /\ t \in Seq(Events) /\ Len(t) = n + 1 /\ t[n + 1] = e
      /\ \A i \in 1 .. n : t[i] = s[i]
  BY AppendProperties, LenProperties
<1> HIDE DEF t
<1>2. \A i \in 1 .. n : t[i] \in Elems(s) /\ t[i] # e
  BY <1>1 DEF Elems
<1>3. \A i \in 1 .. n + 1 : i \in 1 .. n \/ i = n + 1
  BY <1>1
<1>4. Distinct(t)
  <2> SUFFICES ASSUME NEW i \in 1 .. n + 1, NEW j \in 1 .. n + 1, t[i] = t[j] PROVE i = j
    BY <1>1 DEF Distinct
  <2>1. CASE i \in 1 .. n /\ j \in 1 .. n
    BY <1>1, <2>1 DEF Distinct
  <2>2. QED
    BY <1>1, <1>2, <1>3, <2>1
<1>5. Elems(t) = Elems(s) \cup {e}
  <2>1. \A x \in Elems(t) : x \in Elems(s) \cup {e}
    BY <1>1, <1>2, <1>3 DEF Elems
  <2>2. \A x \in Elems(s) : x \in Elems(t)
    <3> SUFFICES ASSUME NEW i \in 1 .. n PROVE s[i] \in Elems(t)
      BY DEF Elems
    <3>1. i \in 1 .. n + 1 /\ s[i] = t[i]
      BY <1>1
    <3>2. QED
      BY <1>1, <3>1 DEF Elems
  <2>3. e \in Elems(t)
    <3>1. n + 1 \in 1 .. n + 1
      BY <1>1
    <3>2. QED
      BY <1>1, <3>1 DEF Elems
  <2>4. QED
    BY <2>1, <2>2, <2>3
<1>6. QED
  BY <1>1, <1>4, <1>5 DEF t

-----------------------------------------------------------------------------
(***************************************************************************)
(* The references.                                                         *)
(***************************************************************************)
Labels == {"idle", "enter", "alloc", "insert", "leave", "leaveFull", "leaveQueued", "drop",
           "dropFull", "bell"}

\* Where a producer has an event in its hands.
Holding == {"enter", "alloc", "insert", "leave", "leaveFull", "drop", "dropFull"}

\* A thread is created only when there is none, and never beside a stop.
ThreadInv ==
  /\ starter \in {"idle", "create", "publish"}
  /\ startLock \in BOOLEAN /\ (startLock <=> starter # "idle")
  /\ starter = "create" => consumer = "none"
  /\ consumer # "none" => stopping \/ threadObject \/ starter = "publish"
  /\ starter # "idle" => ~stopping /\ ~threadObject
  /\ threadObject => ~stopping
  /\ stopping \in BOOLEAN /\ threadObject \in BOOLEAN

\* Every event is in one place.
RefInv ==
  /\ queue \in Seq(Events) /\ Distinct(queue)
  /\ pc \in [Producers -> Labels] /\ item \in [Producers -> Events \cup {NoEvent}]
  /\ {taken, drained} \subseteq Events \cup {NoEvent} /\ fresh \subseteq Events
  /\ \A p \in Producers : item[p] # NoEvent <=> pc[p] \in Holding
  /\ taken # NoEvent <=> consumer = "consume"
  /\ drained # NoEvent <=> stopper = "release"
  /\ \A p, q \in Producers : p # q /\ item[p] = item[q] => item[p] = NoEvent
  /\ \A p \in Producers : item[p] # NoEvent => item[p] \notin Elems(queue) \cup {taken, drained}
  /\ taken # NoEvent => taken # drained
  /\ taken \notin Elems(queue) /\ drained \notin Elems(queue)
  /\ \A e : e \in owed <=>
       \/ e \in Elems(queue)
       \/ e # NoEvent /\ (e \in {taken, drained} \/ \E p \in Producers : item[p] = e)
  /\ owed \cap fresh = {}

LEMMA RefSuffices == RefInv => ReferencesTracked
<1> SUFFICES ASSUME RefInv PROVE ReferencesTracked
  OBVIOUS
<1>1. Queued = Elems(queue)
  BY DEF Queued, Elems
<1>2. \A e : e \in InHand <=>
        e # NoEvent /\ (e \in {taken, drained} \/ \E p \in Producers : item[p] = e)
  BY DEF InHand
<1>3. owed = Elems(queue) \cup InHand
  BY <1>2 DEF RefInv
<1>4. Elems(queue) \cap InHand = {}
  BY <1>2 DEF RefInv
<1>5. Cardinality(Elems(queue)) = Len(queue)
  BY DistinctCounts DEF RefInv
<1>6. QED
  BY <1>1, <1>3, <1>4, <1>5 DEF ReferencesTracked

LEMMA RefStarts == Init => RefInv /\ ThreadInv
<1> SUFFICES ASSUME Init PROVE RefInv /\ ThreadInv
  OBVIOUS
<1>1. <<>> \in Seq(Events) /\ Distinct(<<>>) /\ Elems(<<>>) = {}
  BY DEF Distinct, Elems
<1>2. QED
  BY <1>1 DEF Init, RefInv, ThreadInv, Labels, Holding

LEMMA ThreadNext == ThreadInv /\ [Next]_vars => ThreadInv'
<1> SUFFICES ASSUME ThreadInv, [Next]_vars PROVE ThreadInv'
  OBVIOUS
<1> USE DEF ThreadInv
<1>1. CASE \E p \in Producers : ProducerStep(p)
  <2>1. UNCHANGED <<stopping, threadObject, consumer, starter, startLock>>
    BY <1>1
    DEF ProducerStep, ProducerMoves, EnterCheck, EnterCount, AllocFails, Recheck, Insert,
        ProducerLeave, RingDoorbell, DropInPlace, gate, cons, start
  <2>2. QED
    BY <2>1
<1>2. CASE ConsumerStep
  BY <1>2 DEF ConsumerStep, WaitSignaled, WaitTimesOut, Probe, Pop, Consume, gate, start
<1>3. CASE StarterStep
  <2>1. UNCHANGED stopping
    BY <1>3 DEF StarterStep, StartCheck, CreateFails, Create, Publish, gate
  <2>2. CASE StartCheck
    BY <2>1, <2>2 DEF StartCheck, cons
  <2>3. CASE CreateFails
    BY <2>1, <2>3 DEF CreateFails, cons
  <2>4. CASE Create
    BY <2>1, <2>4 DEF Create
  <2>5. CASE Publish
    BY <2>1, <2>5 DEF Publish, cons
  <2>6. QED
    BY <1>3, <2>2, <2>3, <2>4, <2>5 DEF StarterStep
<1>4. CASE StopBegin
  BY <1>4 DEF StopBegin, cons, start
<1>5. CASE StopperMoves \/ JoinFails
  BY <1>5
  DEF StopperMoves, JoinFails, ProducersGone, ProducersInside, Join, Drain, DrainConsume, StopEnd,
      gate, cons, start
<1>6. CASE UNCHANGED vars
  BY <1>6 DEF vars, gate, cons, start
<1>7. QED
  BY <1>1, <1>2, <1>3, <1>4, <1>5, <1>6 DEF Next

\* A step that moves no event.
LEMMA NothingMoves ==
  ASSUME RefInv, UNCHANGED <<queue, item, taken, drained, owed, fresh>>,
         pc' \in [Producers -> Labels],
         \A p \in Producers : pc'[p] \in Holding <=> pc[p] \in Holding,
         consumer' = "consume" <=> consumer = "consume",
         stopper' = "release" <=> stopper = "release"
  PROVE  RefInv'
  BY DEF RefInv

\* The steps of a producer.
LEMMA ProducerKeepsRef ==
  ASSUME RefInv, NEW p \in Producers, ProducerStep(p)
  PROVE  RefInv'
<1>1. UNCHANGED <<taken, drained, consumer, stopper>>
  BY DEF ProducerStep, ProducerMoves, EnterCheck, EnterCount, AllocFails, Recheck, Insert,
         ProducerLeave, RingDoorbell, DropInPlace, cons, stop
<1>2. NoEvent \notin Events
  BY EventAssumption
<1>3. pc \in [Producers -> Labels] /\ item \in [Producers -> Events \cup {NoEvent}]
  BY DEF RefInv
<1>4. CASE EnterCount(p) \/ AllocFails(p) \/ Recheck(p) \/ ProducerLeave(p) \/ RingDoorbell(p)
  <2>1. UNCHANGED <<queue, item, owed, fresh>>
    BY <1>4 DEF EnterCount, AllocFails, Recheck, ProducerLeave, RingDoorbell, list, prod
  <2>2. PICK to \in Labels : pc' = [pc EXCEPT ![p] = to] /\ (to \in Holding <=> pc[p] \in Holding)
    BY <1>4 DEF EnterCount, AllocFails, Recheck, ProducerLeave, RingDoorbell, Goto, Labels, Holding
  <2>3. QED
    BY <1>1, <1>3, <2>1, <2>2, NothingMoves
<1>5. ASSUME NEW e \in Events, EnterCheck(p, e) PROVE RefInv'
  <2>1. /\ e \in fresh /\ fresh' = fresh \ {e} /\ owed' = owed \cup {e} /\ queue' = queue
        /\ item' = [item EXCEPT ![p] = e] /\ pc[p] = "idle"
        /\ \E to \in {"drop", "enter"} : pc' = [pc EXCEPT ![p] = to]
    BY <1>5 DEF EnterCheck, Goto
  <2>2. item[p] = NoEvent /\ e \notin owed
    BY <2>1 DEF RefInv, Holding
  <2>3. e \notin Elems(queue) /\ e \notin {taken, drained} /\ \A q \in Producers : item[q] # e
    BY <1>2, <2>2 DEF RefInv
  <2>4. /\ item' \in [Producers -> Events \cup {NoEvent}] /\ item'[p] = e
        /\ pc' \in [Producers -> Labels] /\ pc'[p] \in Holding
        /\ \A q \in Producers \ {p} : item'[q] = item[q] /\ pc'[q] = pc[q]
    BY <1>3, <2>1 DEF Labels, Holding
  <2>5. \A x : x \in owed' <=>
          \/ x \in Elems(queue)
          \/ x # NoEvent /\ (x \in {taken, drained} \/ \E q \in Producers : item'[q] = x)
    BY <1>2, <2>1, <2>2, <2>4 DEF RefInv
  <2>6. owed' \cap fresh' = {} /\ fresh' \subseteq Events
    BY <2>1 DEF RefInv
  <2>7. \A q, r \in Producers : q # r /\ item'[q] = item'[r] => item'[q] = NoEvent
    BY <2>3, <2>4 DEF RefInv
  <2>8. QED
    BY <1>1, <1>2, <2>1, <2>3, <2>4, <2>5, <2>6, <2>7 DEF RefInv
<1>6. CASE Insert(p)
  <2>1. /\ queue' = Append(queue, item[p]) /\ item' = [item EXCEPT ![p] = NoEvent]
        /\ pc[p] = "insert" /\ pc' = [pc EXCEPT ![p] = "leaveQueued"]
        /\ UNCHANGED <<owed, fresh>>
    BY <1>6 DEF Insert, Goto
  <2>2. item[p] \in Events /\ item[p] \notin Elems(queue) /\ item[p] \notin {taken, drained}
    BY <1>3, <2>1 DEF RefInv, Holding
  <2>3. queue' \in Seq(Events) /\ Distinct(queue)' /\ Elems(queue)' = Elems(queue) \cup {item[p]}
    BY <2>1, <2>2, LastJoins DEF RefInv
  <2>4. /\ item' \in [Producers -> Events \cup {NoEvent}] /\ item'[p] = NoEvent
        /\ pc' \in [Producers -> Labels] /\ pc'[p] \notin Holding
        /\ \A q \in Producers \ {p} : item'[q] = item[q] /\ pc'[q] = pc[q]
    BY <1>3, <2>1 DEF Labels, Holding
  <2>5. \A q \in Producers \ {p} : item[q] # NoEvent => item[q] # item[p]
    BY DEF RefInv
  <2>6. \A x : x \in owed' <=>
          \/ x \in Elems(queue)'
          \/ x # NoEvent /\ (x \in {taken, drained} \/ \E q \in Producers : item'[q] = x)
    BY <1>2, <2>1, <2>2, <2>3, <2>4 DEF RefInv
  <2>7. \A q \in Producers :
          item'[q] # NoEvent => item'[q] \notin Elems(queue)' \cup {taken, drained}
    BY <2>3, <2>4, <2>5 DEF RefInv
  <2>8. \A q, r \in Producers : q # r /\ item'[q] = item'[r] => item'[q] = NoEvent
    BY <2>4 DEF RefInv
  <2>9. taken \notin Elems(queue)' /\ drained \notin Elems(queue)'
    BY <2>2, <2>3 DEF RefInv
  <2>10. \A q \in Producers : item'[q] # NoEvent <=> pc'[q] \in Holding
    BY <2>4 DEF RefInv
  <2>11. QED
    BY <1>1, <2>1, <2>3, <2>4, <2>6, <2>7, <2>8, <2>9, <2>10 DEF RefInv
<1>7. CASE DropInPlace(p)
  <2>1. /\ owed' = owed \ {item[p]} /\ item' = [item EXCEPT ![p] = NoEvent]
        /\ pc[p] \in {"drop", "dropFull"} /\ pc' = [pc EXCEPT ![p] = "idle"]
        /\ UNCHANGED <<queue, fresh>>
    BY <1>7 DEF DropInPlace, Goto, list
  <2>2. item[p] \in Events /\ item[p] \notin Elems(queue) /\ item[p] \notin {taken, drained}
    BY <1>3, <2>1 DEF RefInv, Holding
  <2>3. /\ item' \in [Producers -> Events \cup {NoEvent}] /\ item'[p] = NoEvent
        /\ pc' \in [Producers -> Labels] /\ pc'[p] \notin Holding
        /\ \A q \in Producers \ {p} : item'[q] = item[q] /\ pc'[q] = pc[q]
    BY <1>3, <2>1 DEF Labels, Holding
  <2>4. \A q \in Producers \ {p} : item[q] # NoEvent => item[q] # item[p]
    BY DEF RefInv
  <2>5. \A x : x \in owed' <=>
          \/ x \in Elems(queue)
          \/ x # NoEvent /\ (x \in {taken, drained} \/ \E q \in Producers : item'[q] = x)
    BY <1>2, <2>1, <2>2, <2>3, <2>4 DEF RefInv
  <2>6. \A q \in Producers :
          item'[q] # NoEvent => item'[q] \notin Elems(queue) \cup {taken, drained}
    BY <2>3 DEF RefInv
  <2>7. \A q, r \in Producers : q # r /\ item'[q] = item'[r] => item'[q] = NoEvent
    BY <2>3 DEF RefInv
  <2>8. \A q \in Producers : item'[q] # NoEvent <=> pc'[q] \in Holding
    BY <2>3 DEF RefInv
  <2>9. owed' \cap fresh' = {}
    BY <2>1 DEF RefInv
  <2>10. QED
    BY <1>1, <2>1, <2>3, <2>5, <2>6, <2>7, <2>8, <2>9 DEF RefInv
<1>8. QED
  BY <1>4, <1>5, <1>6, <1>7 DEF ProducerStep, ProducerMoves

\* The consumer thread takes an event and releases it.
LEMMA ConsumerKeepsRef ==
  ASSUME RefInv, ConsumerStep
  PROVE  RefInv'
<1>1. UNCHANGED <<item, pc, fresh, drained, stopper>>
  BY DEF ConsumerStep, WaitSignaled, WaitTimesOut, Probe, Pop, Consume, prod, stop
<1>2. NoEvent \notin Events /\ pc \in [Producers -> Labels]
  BY EventAssumption DEF RefInv
<1>3. CASE WaitSignaled \/ WaitTimesOut \/ Probe \/ (Pop /\ queue = <<>>)
  <2>1. UNCHANGED <<queue, taken, owed>> /\ consumer # "consume" /\ consumer' # "consume"
    BY <1>3 DEF WaitSignaled, WaitTimesOut, Probe, Pop, list
  <2>2. QED
    BY <1>1, <1>2, <2>1, NothingMoves
<1>4. CASE Pop /\ queue # <<>>
  <2>1. /\ taken' = Head(queue) /\ queue' = Tail(queue) /\ owed' = owed
        /\ consumer = "pop" /\ consumer' = "consume"
    BY <1>4 DEF Pop
  <2>2. /\ Head(queue) \in Events /\ Tail(queue) \in Seq(Events) /\ Distinct(Tail(queue))
        /\ Head(queue) \in Elems(queue) /\ Elems(Tail(queue)) = Elems(queue) \ {Head(queue)}
    BY <1>4, FirstLeaves DEF RefInv
  <2>3. queue' \in Seq(Events) /\ Distinct(queue)' /\ Elems(queue)' = Elems(queue) \ {taken'}
        /\ taken' \in Elems(queue) /\ taken' \in Events
    BY <2>1, <2>2
  <2>4. taken = NoEvent
    BY <2>1 DEF RefInv
  <2>5. taken' # drained' /\ \A p \in Producers : item[p] # taken'
    BY <1>1, <1>2, <2>3 DEF RefInv
  <2>6. \A x : x \in owed' <=>
          \/ x \in Elems(queue)'
          \/ x # NoEvent /\ (x \in {taken', drained} \/ \E p \in Producers : item[p] = x)
    BY <1>2, <2>1, <2>3, <2>4 DEF RefInv
  <2>7. QED
    BY <1>1, <1>2, <2>1, <2>3, <2>5, <2>6 DEF RefInv
<1>5. CASE Consume
  <2>1. /\ owed' = owed \ {taken} /\ taken' = NoEvent /\ queue' = queue
        /\ consumer = "consume" /\ consumer' = "pop"
    BY <1>5 DEF Consume, list
  <2>2. taken # NoEvent /\ taken \notin Elems(queue) /\ taken # drained
        /\ NoEvent \notin Elems(queue) /\ \A p \in Producers : item[p] # taken
    BY <1>2, <2>1, ElementOfSeq, LenProperties DEF RefInv, Elems
  <2>3. \A x : x \in owed' <=>
          \/ x \in Elems(queue)
          \/ x # NoEvent /\ (x \in {taken', drained} \/ \E p \in Producers : item[p] = x)
    BY <2>1, <2>2 DEF RefInv
  <2>4. QED
    BY <1>1, <2>1, <2>2, <2>3 DEF RefInv
<1>6. QED
  BY <1>3, <1>4, <1>5 DEF ConsumerStep

\* So does the fallback drain of the stop.
LEMMA StopperKeepsRef ==
  ASSUME RefInv, StopBegin \/ StopperMoves \/ JoinFails
  PROVE  RefInv'
<1>1. UNCHANGED <<item, pc, fresh, taken, consumer>>
  BY DEF StopBegin, StopperMoves, JoinFails, ProducersGone, ProducersInside, Join, Drain,
         DrainConsume, StopEnd, prod, cons
<1>2. NoEvent \notin Events /\ pc \in [Producers -> Labels]
  BY EventAssumption DEF RefInv
<1>3. CASE StopBegin \/ ProducersGone \/ ProducersInside \/ Join \/ JoinFails \/ StopEnd
            \/ (Drain /\ queue = <<>>)
  <2>1. UNCHANGED <<queue, drained, owed>> /\ stopper # "release" /\ stopper' # "release"
    BY <1>3 DEF StopBegin, ProducersGone, ProducersInside, Join, JoinFails, StopEnd, Drain, list
  <2>2. QED
    BY <1>1, <1>2, <2>1, NothingMoves
<1>4. CASE Drain /\ queue # <<>>
  <2>1. /\ drained' = Head(queue) /\ queue' = Tail(queue) /\ owed' = owed
        /\ stopper = "drain" /\ stopper' = "release"
    BY <1>4 DEF Drain
  <2>2. /\ Head(queue) \in Events /\ Tail(queue) \in Seq(Events) /\ Distinct(Tail(queue))
        /\ Head(queue) \in Elems(queue) /\ Elems(Tail(queue)) = Elems(queue) \ {Head(queue)}
    BY <1>4, FirstLeaves DEF RefInv
  <2>3. queue' \in Seq(Events) /\ Distinct(queue)' /\ Elems(queue)' = Elems(queue) \ {drained'}
        /\ drained' \in Elems(queue) /\ drained' \in Events
    BY <2>1, <2>2
  <2>4. drained = NoEvent
    BY <2>1 DEF RefInv
  <2>5. taken' # drained' /\ \A p \in Producers : item[p] # drained'
    BY <1>1, <1>2, <2>3 DEF RefInv
  <2>6. \A x : x \in owed' <=>
          \/ x \in Elems(queue)'
          \/ x # NoEvent /\ (x \in {taken, drained'} \/ \E p \in Producers : item[p] = x)
    BY <1>2, <2>1, <2>3, <2>4 DEF RefInv
  <2>7. QED
    BY <1>1, <1>2, <2>1, <2>3, <2>5, <2>6 DEF RefInv
<1>5. CASE DrainConsume
  <2>1. /\ owed' = owed \ {drained} /\ drained' = NoEvent /\ queue' = queue
        /\ stopper = "release" /\ stopper' = "drain"
    BY <1>5 DEF DrainConsume, list
  <2>2. drained # NoEvent /\ drained \notin Elems(queue) /\ taken # drained
        /\ NoEvent \notin Elems(queue) /\ \A p \in Producers : item[p] # drained
    BY <1>2, <2>1, ElementOfSeq, LenProperties DEF RefInv, Elems
  <2>3. \A x : x \in owed' <=>
          \/ x \in Elems(queue)
          \/ x # NoEvent /\ (x \in {taken, drained'} \/ \E p \in Producers : item[p] = x)
    BY <2>1, <2>2 DEF RefInv
  <2>4. QED
    BY <1>1, <2>1, <2>2, <2>3 DEF RefInv
<1>6. QED
  BY <1>3, <1>4, <1>5 DEF StopperMoves

LEMMA RefNext == RefInv /\ ThreadInv /\ [Next]_vars => RefInv'
<1> SUFFICES ASSUME RefInv, ThreadInv, [Next]_vars PROVE RefInv'
  OBVIOUS
<1>1. CASE StarterStep
  <2>1. UNCHANGED <<queue, item, pc, taken, drained, owed, fresh, stopper>>
        /\ (consumer' = "consume" <=> consumer = "consume")
    BY <1>1 DEF StarterStep, StartCheck, CreateFails, Create, Publish, list, prod, cons, stop,
                ThreadInv
  <2>2. pc \in [Producers -> Labels]
    BY DEF RefInv
  <2>3. QED
    BY <2>1, <2>2, NothingMoves
<1>2. CASE UNCHANGED vars
  BY <1>2 DEF vars, list, prod, cons, stop, RefInv
<1>3. QED
  BY <1>1, <1>2, ProducerKeepsRef, ConsumerKeepsRef, StopperKeepsRef DEF Next

\* For any events, producers and capacity, through every number of stops: a reference is owed
\* exactly while its event is in one place, on the list or in the hands of one thread.
THEOREM ReferencesBalance == Spec => []ReferencesTracked
  BY RefStarts, RefNext, ThreadNext, RefSuffices, PTL DEF Spec

-----------------------------------------------------------------------------
(***************************************************************************)
(* The gate's count.                                                       *)
(***************************************************************************)
Inside == {p \in Producers : pc[p] \in {"alloc", "insert", "leave", "leaveFull", "leaveQueued"}}

CountInv ==
  /\ pc \in [Producers -> Labels]
  /\ producers = Cardinality(Inside)

LEMMA ProducersFinite ==
  ASSUME NEW S \in SUBSET Producers
  PROVE  IsFiniteSet(S) /\ Cardinality(S) \in 0 .. Cardinality(Producers)
<1>1. IsFiniteSet(S) /\ Cardinality(S) \in Nat
  BY EventAssumption, FS_Subset, FS_CardinalityType
<1>2. Cardinality(S) <= Cardinality(Producers) /\ Cardinality(Producers) \in Nat
  BY EventAssumption, FS_Subset, FS_CardinalityType
<1>3. QED
  BY <1>1, <1>2

\* A producer that goes from one control point to another joins or leaves a set of control
\* points, and nobody else does.
LEMMA OneMoves ==
  ASSUME pc \in [Producers -> Labels], NEW p \in Producers, NEW to \in Labels,
         pc' = [pc EXCEPT ![p] = to], NEW labels
  PROVE  LET there == {q \in Producers : pc[q] \in labels}
             next == {q \in Producers : pc'[q] \in labels}
         IN /\ pc[p] \in labels /\ to \in labels => next = there
            /\ pc[p] \notin labels /\ to \notin labels => next = there
            /\ pc[p] \notin labels /\ to \in labels =>
                 Cardinality(next) = Cardinality(there) + 1
            /\ pc[p] \in labels /\ to \notin labels =>
                 Cardinality(next) = Cardinality(there) - 1
<1> DEFINE there == {q \in Producers : pc[q] \in labels}
           next == {q \in Producers : pc'[q] \in labels}
<1>1. pc'[p] = to /\ \A q \in Producers \ {p} : pc'[q] = pc[q]
  OBVIOUS
<1>2. IsFiniteSet(there)
  BY ProducersFinite
<1>3. CASE pc[p] \in labels <=> to \in labels
  BY <1>1, <1>3
<1>4. CASE pc[p] \notin labels /\ to \in labels
  <2>1. next = there \cup {p} /\ p \notin there
    BY <1>1, <1>4
  <2>2. QED
    BY <1>2, <1>4, <2>1, FS_AddElement
<1>5. CASE pc[p] \in labels /\ to \notin labels
  <2>1. next = there \ {p} /\ p \in there
    BY <1>1, <1>5
  <2> HIDE DEF next, there
  <2>2. Cardinality(next) = Cardinality(there) - 1
    BY <1>2, <2>1, FS_RemoveElement
  <2>3. QED
    BY <1>5, <2>2 DEF next, there
<1>6. QED
  BY <1>3, <1>4, <1>5

\* The control points a producer's step goes between.
LEMMA ProducerGoes ==
  ASSUME pc \in [Producers -> Labels], NEW p \in Producers, ProducerStep(p)
  PROVE  \E to \in Labels : pc' = [pc EXCEPT ![p] = to]
  BY DEF ProducerStep, ProducerMoves, EnterCheck, EnterCount, AllocFails, Recheck, Insert,
         ProducerLeave, RingDoorbell, DropInPlace, Goto, Labels

LEMMA ProducerKeepsCount ==
  ASSUME CountInv, NEW p \in Producers, ProducerStep(p)
  PROVE  CountInv'
<1> DEFINE inside == {"alloc", "insert", "leave", "leaveFull", "leaveQueued"}
<1>1. PICK to \in Labels : pc' = [pc EXCEPT ![p] = to]
  BY ProducerGoes DEF CountInv
<1>2. pc \in [Producers -> Labels] /\ pc' \in [Producers -> Labels] /\ pc'[p] = to
      /\ producers = Cardinality(Inside)
  BY <1>1 DEF CountInv
<1>3. /\ pc[p] \in inside /\ to \in inside => Inside' = Inside
      /\ pc[p] \notin inside /\ to \notin inside => Inside' = Inside
      /\ pc[p] \notin inside /\ to \in inside => Cardinality(Inside') = Cardinality(Inside) + 1
      /\ pc[p] \in inside /\ to \notin inside => Cardinality(Inside') = Cardinality(Inside) - 1
  BY <1>1, <1>2, OneMoves DEF Inside
<1>4. CASE EnterCount(p)
  <2>1. producers' = producers + 1 /\ pc[p] \notin inside /\ to \in inside
    BY <1>1, <1>2, <1>4 DEF EnterCount, Goto
  <2>2. QED
    BY <1>2, <1>3, <2>1 DEF CountInv
<1>5. CASE ProducerLeave(p)
  <2>1. producers' = producers - 1 /\ pc[p] \in inside /\ to \notin inside
    BY <1>2, <1>5 DEF ProducerLeave, Goto
  <2>2. QED
    BY <1>2, <1>3, <2>1 DEF CountInv
<1>6. CASE AllocFails(p) \/ Recheck(p) \/ Insert(p) \/ RingDoorbell(p) \/ DropInPlace(p)
           \/ \E e \in Events : EnterCheck(p, e)
  <2>1. producers' = producers /\ (pc[p] \in inside <=> to \in inside)
    BY <1>2, <1>6 DEF AllocFails, Recheck, Insert, RingDoorbell, DropInPlace, EnterCheck, Goto, gate
  <2>2. QED
    BY <1>2, <1>3, <2>1 DEF CountInv
<1>7. QED
  BY <1>4, <1>5, <1>6 DEF ProducerStep, ProducerMoves

LEMMA CountStarts == Init => CountInv
<1> SUFFICES ASSUME Init PROVE CountInv
  OBVIOUS
<1>1. Inside = {}
  BY DEF Init, Inside
<1>2. QED
  BY <1>1, FS_EmptySet DEF Init, CountInv, Labels

LEMMA CountNext == CountInv /\ [Next]_vars => CountInv'
<1> SUFFICES ASSUME CountInv, [Next]_vars PROVE CountInv'
  OBVIOUS
<1>1. CASE \E p \in Producers : ProducerStep(p)
  BY <1>1, ProducerKeepsCount
<1>2. CASE ~ \E p \in Producers : ProducerStep(p)
  <2>1. UNCHANGED <<pc, producers>>
    BY <1>2
    DEF Next, ConsumerStep, WaitSignaled, WaitTimesOut, Probe, Pop, Consume, StarterStep,
        StartCheck, CreateFails, Create, Publish, StopBegin, StopperMoves, JoinFails,
        ProducersGone, ProducersInside, Join, Drain, DrainConsume, StopEnd, vars, gate, prod
  <2>2. QED
    BY <2>1 DEF CountInv, Inside
<1>3. QED
  BY <1>1, <1>2

-----------------------------------------------------------------------------
(***************************************************************************)
(* The stop.                                                               *)
(***************************************************************************)
Past(points) == stopper \in points

\* The stop, step by step: a producer that inserts is counted, so that none inserts once the
\* count was zero; the thread is joined or was never made; only then is the list emptied.
StopInv ==
  /\ CountInv /\ stops \in Nat
  /\ stops = 0 => stopper = "idle" /\ ~stopping
  /\ stopper # "idle" => stopping
  /\ stopping /\ ~thr => consumer = "none"
  /\ Past({"join", "drain", "release", "drained", "SUCCESS"}) =>
       \A p \in Producers : pc[p] # "insert"
  /\ Past({"drain", "release", "drained", "SUCCESS"}) => consumer \in {"none", "exited"}
  /\ Past({"drained", "SUCCESS"}) => queue = <<>>

LEMMA StopSuffices == StopInv => StopIsComplete
  BY DEF StopInv, StopIsComplete, Past

LEMMA StopStarts == Init => StopInv
<1> SUFFICES ASSUME Init PROVE StopInv
  OBVIOUS
<1>1. Inside = {}
  BY DEF Init, Inside
<1>2. QED
  BY <1>1, FS_EmptySet DEF Init, StopInv, CountInv, Past, Labels

\* One producer moves.
LEMMA ProducerKeepsStop ==
  ASSUME StopInv, NEW p \in Producers, ProducerStep(p)
  PROVE  StopInv'
<1>1. UNCHANGED <<stopping, stopper, stops, thr, consumer>>
  BY DEF ProducerStep, ProducerMoves, EnterCheck, EnterCount, AllocFails, Recheck, Insert,
         ProducerLeave, RingDoorbell, DropInPlace, gate, cons, stop
<1>2. PICK to \in Labels : pc' = [pc EXCEPT ![p] = to]
  BY DEF ProducerStep, ProducerMoves, EnterCheck, EnterCount, AllocFails, Recheck, Insert,
         ProducerLeave, RingDoorbell, DropInPlace, Goto, Labels
<1>3. /\ pc \in [Producers -> Labels] /\ pc' \in [Producers -> Labels] /\ pc'[p] = to
      /\ \A q \in Producers \ {p} : pc'[q] = pc[q]
  BY <1>2 DEF StopInv, CountInv
<1>4. CountInv'
  BY ProducerKeepsCount DEF StopInv
<1>5. pc'[p] = "insert" => ~stopping
  <2>1. CASE Recheck(p)
    BY <1>3, <2>1 DEF Recheck, Goto
  <2>2. CASE EnterCount(p) \/ ProducerLeave(p) \/ AllocFails(p) \/ Insert(p) \/ RingDoorbell(p)
             \/ DropInPlace(p) \/ \E e \in Events : EnterCheck(p, e)
    BY <1>3, <2>2 DEF EnterCount, ProducerLeave, AllocFails, Insert, RingDoorbell, DropInPlace,
                      EnterCheck, Goto
  <2>3. QED
    BY <2>1, <2>2 DEF ProducerStep, ProducerMoves
<1>6. pc[p] # "insert" => queue' = queue
  BY DEF ProducerStep, ProducerMoves, EnterCheck, EnterCount, AllocFails, Recheck, Insert,
         ProducerLeave, RingDoorbell, DropInPlace, list
<1>7. QED
  BY <1>1, <1>3, <1>4, <1>5, <1>6 DEF StopInv, CountInv, Past

LEMMA StopNext ==
  ASSUME MaxStops <= 1, StopInv, ThreadInv, [Next]_vars
  PROVE  StopInv'
<1>1. ASSUME UNCHANGED <<pc, producers>> PROVE UNCHANGED Inside
  BY <1>1 DEF Inside
<1>2. CASE ConsumerStep
  <2>1. UNCHANGED <<pc, producers, stops, stopper, stopping, thr>>
        /\ consumer \notin {"none", "exited"} /\ (queue = <<>> => queue' = <<>>)
    BY <1>2 DEF ConsumerStep, WaitSignaled, WaitTimesOut, Probe, Pop, Consume, gate, prod, stop,
                list
  <2>2. QED
    BY <1>1, <2>1 DEF StopInv, CountInv, Past
<1>3. CASE StarterStep
  <2>1. UNCHANGED <<pc, producers, stops, stopper, stopping, thr, queue>>
        /\ (consumer' = consumer \/ starter = "create")
    BY <1>3 DEF StarterStep, StartCheck, CreateFails, Create, Publish, gate, prod, stop, list, cons
  <2>2. CASE consumer' = consumer
    BY <1>1, <2>1, <2>2 DEF StopInv, CountInv, Past
  <2>3. CASE starter = "create"
    <3>1. ~stopping /\ stopper = "idle"
      BY <2>3 DEF ThreadInv, StopInv, CountInv
    <3>2. QED
      BY <1>1, <2>1, <3>1 DEF StopInv, CountInv, Past
  <2>4. QED
    BY <2>1, <2>2, <2>3
<1>4. CASE StopBegin
  <2>1. /\ stops < MaxStops /\ ~startLock /\ stops' = stops + 1 /\ stopping' = TRUE
        /\ thr' = threadObject /\ stopper' = "producers"
        /\ UNCHANGED <<pc, producers, consumer, queue>>
    BY <1>4 DEF StopBegin, prod, cons, list
  <2>2. stops = 0 /\ ~stopping
    BY <2>1, EventAssumption DEF StopInv, CountInv
  <2>3. ~thr' => consumer = "none"
    BY <2>1, <2>2 DEF ThreadInv
  <2>4. QED
    BY <1>1, <2>1, <2>2, <2>3 DEF StopInv, CountInv, Past
<1>5. CASE ProducersGone
  <2>1. /\ stopper = "producers" /\ producers = 0
        /\ stopper' = (IF thr THEN "join" ELSE "drain")
        /\ UNCHANGED <<pc, producers, consumer, queue, stops, stopping, thr>>
    BY <1>5 DEF ProducersGone, prod, cons, list, gate
  <2>2. Inside = {}
    <3>1. IsFiniteSet(Inside) /\ Cardinality(Inside) = 0
      BY <2>1, ProducersFinite DEF StopInv, CountInv, Inside
    <3>2. QED
      BY <3>1, FS_EmptySet
  <2>3. \A p \in Producers : pc[p] # "insert"
    BY <2>2 DEF Inside
  <2>4. ~thr => consumer = "none"
    BY <2>1 DEF StopInv, CountInv
  <2>5. QED
    BY <1>1, <2>1, <2>3, <2>4 DEF StopInv, CountInv, Past
<1>6. CASE ProducersInside \/ Join \/ JoinFails \/ Drain \/ DrainConsume \/ StopEnd
  <2>1. UNCHANGED <<pc, producers, consumer, stops, stopping, thr>>
    BY <1>6 DEF ProducersInside, Join, JoinFails, Drain, DrainConsume, StopEnd, prod, cons, gate
  <2>2. stopper # "idle"
    BY <1>6 DEF ProducersInside, Join, JoinFails, Drain, DrainConsume, StopEnd
  <2>3. /\ stopper' \in {"join", "drain", "release", "drained", "SUCCESS"} =>
             stopper \in {"join", "drain", "release", "drained", "SUCCESS"}
        /\ stopper' \in {"drain", "release", "drained", "SUCCESS"} =>
             consumer = "exited" \/ stopper \in {"drain", "release", "drained", "SUCCESS"}
        /\ stopper' \in {"drained", "SUCCESS"} => queue' = <<>>
    BY <1>6 DEF ProducersInside, Join, JoinFails, Drain, DrainConsume, StopEnd, list
  <2>4. stops # 0
    BY <2>2 DEF StopInv, CountInv
  <2>5. QED
    BY <1>1, <2>1, <2>2, <2>3, <2>4 DEF StopInv, CountInv, Past
<1>7. CASE UNCHANGED vars
  <2>1. UNCHANGED <<pc, producers, consumer, queue, stops, stopper, stopping, thr>>
    BY <1>7 DEF vars, list, gate, prod, cons, stop
  <2>2. QED
    BY <1>1, <2>1 DEF StopInv, CountInv, Past
<1>8. QED
  BY <1>2, <1>3, <1>4, <1>5, <1>6, <1>7, ProducerKeepsStop DEF Next, StopperMoves

\* For any producers, events and capacity: the one stop of a run, when it returns SUCCESS, leaves
\* no event on the list, no thread, and no producer that will still append.
THEOREM StopCompletes ==
  ASSUME MaxStops <= 1
  PROVE  Spec => []StopIsComplete
<1>1. StopInv /\ ThreadInv /\ [Next]_vars => StopInv'
  BY StopNext
<1>2. QED
  BY <1>1, StopStarts, RefStarts, ThreadNext, StopSuffices, PTL DEF Spec

-----------------------------------------------------------------------------
(***************************************************************************)
(* The types and the bounds.                                               *)
(***************************************************************************)
\* A thread in a lock section of several steps owns the lock, and nobody fills up the queue
\* between its look at the capacity and its insertion.
LockInv ==
  /\ lock \in Producers \cup {NoThread}
  /\ \A p \in Producers : pc[p] \in {"enter", "insert"} => lock = p
  /\ \A p \in Producers : pc[p] = "insert" /\ Capacity > 0 => Len(queue) < Capacity
  /\ Capacity > 0 => Len(queue) <= Capacity

ControlInv ==
  /\ doorbell \in BOOLEAN /\ thr \in BOOLEAN
  /\ consumer \in {"none", "wait", "probe", "pop", "consume", "exited"}
  /\ stopper \in {"idle", "producers", "join", "drain", "release", "drained",
                  "SUCCESS", "TIMEOUT", "FAILED"}
  /\ tries \in 0 .. Retries /\ stops \in 0 .. MaxStops

LEMMA BoundsStart == Init => LockInv /\ ControlInv
  BY EventAssumption DEF Init, LockInv, ControlInv

LEMMA ControlNext == ControlInv /\ ThreadInv /\ [Next]_vars => ControlInv'
<1> SUFFICES ASSUME ControlInv, ThreadInv, [Next]_vars PROVE ControlInv'
  OBVIOUS
<1> USE DEF ControlInv
<1>1. CASE \E p \in Producers : ProducerStep(p)
  BY <1>1
  DEF ProducerStep, ProducerMoves, EnterCheck, EnterCount, AllocFails, Recheck, Insert,
      ProducerLeave, RingDoorbell, DropInPlace, cons, stop
<1>2. CASE ConsumerStep
  BY <1>2 DEF ConsumerStep, WaitSignaled, WaitTimesOut, Probe, Pop, Consume, stop
<1>3. CASE StarterStep
  BY <1>3 DEF StarterStep, StartCheck, CreateFails, Create, Publish, cons, stop
<1>4. CASE StopBegin
  <2>1. stops' \in 0 .. MaxStops /\ tries' \in 0 .. Retries /\ thr' \in BOOLEAN
    BY <1>4, EventAssumption DEF StopBegin, ThreadInv
  <2>2. QED
    BY <1>4, <2>1 DEF StopBegin, cons
<1>5. CASE ProducersInside
  <2>1. tries' \in 0 .. Retries
    BY <1>5, EventAssumption DEF ProducersInside
  <2>2. QED
    BY <1>5, <2>1 DEF ProducersInside, cons
<1>6. CASE ProducersGone \/ Join \/ JoinFails \/ Drain \/ DrainConsume \/ StopEnd
  BY <1>6 DEF ProducersGone, Join, JoinFails, Drain, DrainConsume, StopEnd, cons
<1>7. CASE UNCHANGED vars
  BY <1>7 DEF vars, cons, stop
<1>8. QED
  BY <1>1, <1>2, <1>3, <1>4, <1>5, <1>6, <1>7 DEF Next, StopperMoves

LEMMA ProducerKeepsLock ==
  ASSUME LockInv, RefInv, NEW p \in Producers, ProducerStep(p)
  PROVE  LockInv'
<1>1. pc \in [Producers -> Labels] /\ queue \in Seq(Events) /\ Len(queue) \in Nat
  BY LenProperties DEF RefInv
<1>2. PICK to \in Labels : pc' = [pc EXCEPT ![p] = to]
  BY <1>1, ProducerGoes
<1>3. pc'[p] = to /\ \A q \in Producers \ {p} : pc'[q] = pc[q]
  BY <1>1, <1>2
<1> USE EventAssumption
<1>4. CASE \/ EnterCount(p) \/ AllocFails(p) \/ ProducerLeave(p) \/ RingDoorbell(p)
           \/ DropInPlace(p)
  <2>1. queue' = queue /\ to \notin {"enter", "insert"}
        /\ (lock' = lock \/ (pc[p] = "enter" /\ lock' = NoThread))
    BY <1>1, <1>3, <1>4 DEF EnterCount, AllocFails, ProducerLeave, RingDoorbell, DropInPlace,
         Goto, list
  <2>2. QED
    BY <1>3, <2>1 DEF LockInv
<1>5. CASE (\E e \in Events : EnterCheck(p, e)) \/ Recheck(p)
  <2>1. queue' = queue /\ lock = NoThread /\ lock' \in {NoThread, p}
        /\ (to \in {"enter", "insert"} => lock' = p)
    BY <1>1, <1>2, <1>3, <1>5 DEF EnterCheck, Recheck, Goto
  <2>2. to = "insert" => ~Full
    BY <1>1, <1>2, <1>3, <1>5 DEF EnterCheck, Recheck, Goto
  <2>3. to = "insert" /\ Capacity > 0 => Len(queue) < Capacity
    BY <1>1, <2>2 DEF Full
  <2>4. QED
    BY <1>3, <2>1, <2>3 DEF LockInv
<1>6. CASE Insert(p)
  <2>1. lock = p /\ lock' = NoThread /\ to \notin {"enter", "insert"}
    BY <1>1, <1>2, <1>3, <1>6 DEF Insert, Goto, LockInv
  <2>2. Len(queue') = Len(queue) + 1
    <3>1. item[p] \in Events
      BY <1>6 DEF Insert, RefInv, Holding
    <3>2. QED
      BY <1>1, <1>6, <3>1, AppendProperties DEF Insert
  <2>3. Capacity > 0 => Len(queue') <= Capacity
    BY <1>1, <1>6, <2>2 DEF LockInv, Insert
  <2>4. \A q \in Producers : pc'[q] \notin {"enter", "insert"}
    BY <1>3, <2>1 DEF LockInv
  <2>5. QED
    BY <2>1, <2>3, <2>4 DEF LockInv
<1>7. QED
  BY <1>4, <1>5, <1>6 DEF ProducerStep, ProducerMoves

LEMMA LockNext == LockInv /\ RefInv /\ [Next]_vars => LockInv'
<1> SUFFICES ASSUME LockInv, RefInv, [Next]_vars PROVE LockInv'
  OBVIOUS
<1>1. CASE \E p \in Producers : ProducerStep(p)
  BY <1>1, ProducerKeepsLock
<1>2. CASE ~ \E p \in Producers : ProducerStep(p)
  <2>1. /\ pc' = pc /\ lock' = lock
        /\ queue' = queue \/ (queue # <<>> /\ queue' = Tail(queue))
    BY <1>2
    DEF Next, ConsumerStep, WaitSignaled, WaitTimesOut, Probe, Pop, Consume, StarterStep,
        StartCheck, CreateFails, Create, Publish, StopBegin, StopperMoves, JoinFails,
        ProducersGone, ProducersInside, Join, Drain, DrainConsume, StopEnd, vars, list, prod
  <2>2. queue \in Seq(Events) /\ Len(queue) \in Nat
        /\ (queue # <<>> => Len(Tail(queue)) = Len(queue) - 1)
    BY HeadTailProperties, LenProperties DEF RefInv
  <2>3. Len(queue') \in Nat /\ Len(queue') <= Len(queue)
    BY <2>1, <2>2, HeadTailProperties, LenProperties, EmptySeq DEF RefInv
  <2>4. QED
    BY <2>1, <2>2, <2>3, EventAssumption DEF LockInv
<1>3. QED
  BY <1>1, <1>2

-----------------------------------------------------------------------------
(***************************************************************************)
(* The statistics.                                                         *)
(***************************************************************************)
\* The producers that have inserted an event and not counted it yet, those that have one which is
\* not inserted, and the events between the list and their consumption.
Late == {p \in Producers : pc[p] \in {"leaveQueued", "bell"}}
Early == {p \in Producers : pc[p] \in Holding}
Popped == {taken, drained} \ {NoEvent}

\* Each event that is not fresh was counted or will be, and each that was inserted was consumed
\* or will be.
AccountInv ==
  /\ posted \in Nat /\ consumed \in Nat /\ dropped \in Nat /\ overflowDropped \in Nat
  /\ Cardinality(Events \ fresh) = posted + dropped + Cardinality(Late) + Cardinality(Early)
  /\ posted + Cardinality(Late) = consumed + Len(queue) + Cardinality(Popped)
  /\ overflowDropped <= dropped

LEMMA AccountStarts == Init => AccountInv
<1> SUFFICES ASSUME Init PROVE AccountInv
  OBVIOUS
<1>1. Events \ fresh = {} /\ Late = {} /\ Early = {} /\ Popped = {} /\ Len(queue) = 0
  BY DEF Init, Late, Early, Popped, Holding
<1>2. Cardinality(Events \ fresh) = 0 /\ Cardinality(Late) = 0 /\ Cardinality(Early) = 0
      /\ Cardinality(Popped) = 0
  BY <1>1, FS_EmptySet
<1>3. posted = 0 /\ consumed = 0 /\ dropped = 0 /\ overflowDropped = 0
  BY DEF Init
<1> HIDE DEF Init
<1>4. QED
  BY <1>1, <1>2, <1>3 DEF AccountInv

\* The quantities of AccountInv are natural numbers.
LEMMA Countable ==
  ASSUME RefInv
  PROVE  /\ Len(queue) \in Nat /\ IsFiniteSet(Events \ fresh)
         /\ Cardinality(Late) \in Nat /\ Cardinality(Early) \in Nat
         /\ IsFiniteSet(Popped) /\ Cardinality(Popped) \in Nat
         /\ Cardinality(Events \ fresh) \in 0 .. Cardinality(Events)
<1>1. Cardinality(Late) \in 0 .. Cardinality(Producers)
      /\ Cardinality(Early) \in 0 .. Cardinality(Producers)
  BY ProducersFinite DEF Late, Early
<1>2. Cardinality(Producers) \in Nat /\ Cardinality(Events) \in Nat
  BY EventAssumption, FS_CardinalityType
<1>3. Popped \subseteq Events /\ Events \ fresh \subseteq Events
  BY DEF Popped, RefInv
<1>4. \A S \in SUBSET Events :
        IsFiniteSet(S) /\ Cardinality(S) \in Nat /\ Cardinality(S) <= Cardinality(Events)
  BY EventAssumption, FS_Subset, FS_CardinalityType
<1>5. Len(queue) \in Nat
  BY LenProperties DEF RefInv
<1>6. QED
  BY <1>1, <1>2, <1>3, <1>4, <1>5

LEMMA ProducerAccounts ==
  ASSUME AccountInv, RefInv, NEW p \in Producers, ProducerStep(p)
  PROVE  AccountInv'
<1> DEFINE late == {"leaveQueued", "bell"}
           l == Cardinality(Late)
           h == Cardinality(Early)
           n == Cardinality(Events \ fresh)
<1>1. pc \in [Producers -> Labels] /\ queue \in Seq(Events)
  BY DEF RefInv
<1>2. PICK to \in Labels : pc' = [pc EXCEPT ![p] = to]
  BY <1>1, ProducerGoes
<1>3. pc'[p] = to
  BY <1>1, <1>2
<1>4. Len(queue) \in Nat /\ IsFiniteSet(Events \ fresh) /\ l \in Nat /\ h \in Nat /\ n \in Nat
      /\ Cardinality(Popped) \in Nat
  BY Countable
<1>5. /\ pc[p] \in late /\ to \in late => Late' = Late
      /\ pc[p] \notin late /\ to \notin late => Late' = Late
      /\ pc[p] \notin late /\ to \in late => Cardinality(Late') = l + 1
      /\ pc[p] \in late /\ to \notin late => Cardinality(Late') = l - 1
  BY <1>1, <1>2, OneMoves DEF Late
<1>6. /\ pc[p] \in Holding /\ to \in Holding => Early' = Early
      /\ pc[p] \notin Holding /\ to \notin Holding => Early' = Early
      /\ pc[p] \notin Holding /\ to \in Holding => Cardinality(Early') = h + 1
      /\ pc[p] \in Holding /\ to \notin Holding => Cardinality(Early') = h - 1
  BY <1>1, <1>2, OneMoves DEF Early
<1>7. Popped' = Popped
  BY DEF ProducerStep, ProducerMoves, EnterCheck, EnterCount, AllocFails, Recheck, Insert,
         ProducerLeave, RingDoorbell, DropInPlace, Popped, cons, stop
<1> HIDE DEF l, h, n
<1>8. CASE EnterCount(p) \/ AllocFails(p) \/ Recheck(p) \/ ProducerLeave(p)
  <2>1. UNCHANGED <<posted, consumed, dropped, overflowDropped, queue, fresh>>
        /\ (pc[p] \in late <=> to \in late) /\ (pc[p] \in Holding <=> to \in Holding)
    BY <1>1, <1>3, <1>8 DEF EnterCount, AllocFails, Recheck, ProducerLeave, Goto, Holding, stats,
         list, prod
  <2>2. QED
    BY <1>5, <1>6, <1>7, <2>1 DEF AccountInv
<1>9. ASSUME NEW e \in Events, EnterCheck(p, e) PROVE AccountInv'
  <2>1. UNCHANGED <<posted, consumed, dropped, overflowDropped, queue>>
        /\ pc[p] \notin late /\ to \notin late /\ pc[p] \notin Holding /\ to \in Holding
        /\ e \in fresh /\ fresh' = fresh \ {e}
    BY <1>1, <1>3, <1>9 DEF EnterCheck, Goto, Holding, stats
  <2>2. Events \ fresh' = (Events \ fresh) \cup {e} /\ e \notin Events \ fresh
    BY <2>1
  <2>3. Cardinality(Events \ fresh') = n + 1
    BY <1>4, <2>2, FS_AddElement DEF n
  <2>4. QED
    BY <1>4, <1>5, <1>6, <1>7, <2>1, <2>3 DEF AccountInv, l, h, n
<1>10. CASE Insert(p)
  <2>1. UNCHANGED <<posted, consumed, dropped, overflowDropped, fresh>>
        /\ pc[p] \notin late /\ to \in late /\ pc[p] \in Holding /\ to \notin Holding
        /\ queue' = Append(queue, item[p])
    BY <1>1, <1>3, <1>10 DEF Insert, Goto, Holding, stats
  <2>2. item[p] \in Events
    BY <2>1 DEF RefInv
  <2>3. Len(queue') = Len(queue) + 1
    BY <1>1, <2>1, <2>2, AppendProperties
  <2>4. QED
    BY <1>4, <1>5, <1>6, <1>7, <2>1, <2>3 DEF AccountInv, l, h, n
<1>11. CASE RingDoorbell(p)
  <2>1. UNCHANGED <<consumed, dropped, overflowDropped, fresh, queue>> /\ posted' = posted + 1
        /\ pc[p] \in late /\ to \notin late /\ pc[p] \notin Holding /\ to \notin Holding
    BY <1>1, <1>3, <1>11 DEF RingDoorbell, Goto, Holding, list
  <2>2. Cardinality(Late') = l - 1 /\ Early' = Early
    BY <1>5, <1>6, <2>1
  <2>3. posted' + Cardinality(Late') = posted + l
    BY <1>4, <2>1, <2>2 DEF AccountInv
  <2>4. QED
    BY <1>4, <1>7, <2>1, <2>2, <2>3 DEF AccountInv, l, h, n
<1>12. CASE DropInPlace(p)
  <2>1. UNCHANGED <<posted, consumed, fresh, queue>> /\ dropped' = dropped + 1
        /\ overflowDropped' \in {overflowDropped, overflowDropped + 1}
        /\ pc[p] \notin late /\ to \notin late /\ pc[p] \in Holding /\ to \notin Holding
    BY <1>1, <1>3, <1>12 DEF DropInPlace, Goto, Holding, list
  <2>2. QED
    BY <1>4, <1>5, <1>6, <1>7, <2>1 DEF AccountInv, l, h, n
<1>13. QED
  BY <1>8, <1>9, <1>10, <1>11, <1>12 DEF ProducerStep, ProducerMoves

\* Taking an event off the list moves it to the hands of one thread, which counts it as consumed.
LEMMA TakingAccounts ==
  ASSUME AccountInv, RefInv, UNCHANGED <<posted, dropped, overflowDropped, fresh, pc>>,
         \/ /\ queue # <<>> /\ queue' = Tail(queue) /\ consumed' = consumed
            /\ \E e : e \notin Popped /\ Popped' = Popped \cup {e}
         \/ /\ queue' = queue /\ consumed' = consumed + 1
            /\ \E e \in Popped : Popped' = Popped \ {e}
         \/ UNCHANGED <<queue, consumed, taken, drained>>
  PROVE  AccountInv'
<1>1. UNCHANGED <<Late, Early>>
  BY DEF Late, Early
<1>2. /\ Len(queue) \in Nat /\ Cardinality(Late) \in Nat /\ Cardinality(Early) \in Nat
      /\ IsFiniteSet(Popped) /\ Cardinality(Popped) \in Nat
  BY Countable
<1>3. CASE /\ queue # <<>> /\ queue' = Tail(queue) /\ consumed' = consumed
           /\ \E e : e \notin Popped /\ Popped' = Popped \cup {e}
  <2>1. Cardinality(Popped') = Cardinality(Popped) + 1
    BY <1>2, <1>3, FS_AddElement
  <2>2. Len(queue') = Len(queue) - 1
    BY <1>3, HeadTailProperties DEF RefInv
  <2>3. Len(queue') + Cardinality(Popped') = Len(queue) + Cardinality(Popped)
    BY <1>2, <2>1, <2>2
  <2>4. posted + Cardinality(Late) = consumed + Len(queue') + Cardinality(Popped')
    BY <1>2, <2>1, <2>2 DEF AccountInv
  <2>5. QED
    BY <1>1, <1>3, <2>4 DEF AccountInv
<1>4. CASE /\ queue' = queue /\ consumed' = consumed + 1
           /\ \E e \in Popped : Popped' = Popped \ {e}
  <2>1. Cardinality(Popped') = Cardinality(Popped) - 1
    BY <1>2, <1>4, FS_RemoveElement
  <2>2. QED
    BY <1>1, <1>2, <1>4, <2>1 DEF AccountInv
<1>5. CASE UNCHANGED <<queue, consumed, taken, drained>>
  BY <1>1, <1>5 DEF AccountInv, Popped
<1>6. QED
  BY <1>3, <1>4, <1>5

LEMMA AccountNext == AccountInv /\ RefInv /\ [Next]_vars => AccountInv'
<1> SUFFICES ASSUME AccountInv, RefInv, [Next]_vars PROVE AccountInv'
  OBVIOUS
<1>1. CASE \E p \in Producers : ProducerStep(p)
  BY <1>1, ProducerAccounts
<1>2. CASE Pop /\ queue # <<>>
  <2>1. UNCHANGED <<posted, dropped, overflowDropped, fresh, pc, consumed, drained>>
        /\ queue' = Tail(queue) /\ taken' = Head(queue) /\ taken = NoEvent
    BY <1>2 DEF Pop, stats, prod, stop, RefInv
  <2>2. taken' \in Events /\ taken' \in Elems(queue)
    BY <1>2, <2>1, FirstLeaves DEF RefInv
  <2>3. taken' \notin Popped /\ Popped' = Popped \cup {taken'}
    BY <2>1, <2>2, EventAssumption DEF Popped, RefInv
  <2>4. QED
    BY <1>2, <2>1, <2>3, TakingAccounts
<1>3. CASE Consume
  <2>1. UNCHANGED <<posted, dropped, overflowDropped, fresh, pc, queue, drained>>
        /\ consumed' = consumed + 1 /\ taken' = NoEvent /\ consumer = "consume"
    BY <1>3 DEF Consume, list, prod, stop
  <2>2. taken \in Popped /\ Popped' = Popped \ {taken}
    BY <2>1 DEF Popped, RefInv
  <2>3. QED
    BY <2>1, <2>2, TakingAccounts
<1>4. CASE Drain /\ queue # <<>>
  <2>1. UNCHANGED <<posted, dropped, overflowDropped, fresh, pc, consumed, taken>>
        /\ queue' = Tail(queue) /\ drained' = Head(queue) /\ drained = NoEvent
    BY <1>4 DEF Drain, stats, prod, cons, RefInv
  <2>2. drained' \in Events /\ drained' \in Elems(queue)
    BY <1>4, <2>1, FirstLeaves DEF RefInv
  <2>3. drained' \notin Popped /\ Popped' = Popped \cup {drained'}
    BY <2>1, <2>2, EventAssumption DEF Popped, RefInv
  <2>4. QED
    BY <1>4, <2>1, <2>3, TakingAccounts
<1>5. CASE DrainConsume
  <2>1. UNCHANGED <<posted, dropped, overflowDropped, fresh, pc, queue, taken>>
        /\ consumed' = consumed + 1 /\ drained' = NoEvent /\ stopper = "release"
    BY <1>5 DEF DrainConsume, list, prod, cons
  <2>2. drained \in Popped /\ Popped' = Popped \ {drained}
    BY <2>1 DEF Popped, RefInv
  <2>3. QED
    BY <2>1, <2>2, TakingAccounts
<1>6. CASE \/ WaitSignaled \/ WaitTimesOut \/ Probe \/ (Pop /\ queue = <<>>)
           \/ StarterStep \/ UNCHANGED vars
  <2>1. UNCHANGED <<posted, dropped, overflowDropped, fresh, pc, queue, consumed, taken, drained>>
    BY <1>6
    DEF WaitSignaled, WaitTimesOut, Probe, Pop, StarterStep, StartCheck, CreateFails, Create,
        Publish, vars, list, stats, prod, cons, stop
  <2>2. QED
    BY <2>1, TakingAccounts
<1>7. CASE \/ StopBegin \/ ProducersGone \/ ProducersInside \/ Join \/ JoinFails \/ StopEnd
           \/ (Drain /\ queue = <<>>)
  <2>1. UNCHANGED <<posted, dropped, overflowDropped, fresh, pc, queue, consumed, taken, drained>>
    BY <1>7
    DEF StopBegin, ProducersGone, ProducersInside, Join, JoinFails, StopEnd, Drain, list, stats,
        prod, cons
  <2>2. QED
    BY <2>1, TakingAccounts
<1>8. QED
  BY <1>1, <1>2, <1>3, <1>4, <1>5, <1>6, <1>7 DEF Next, ConsumerStep, StopperMoves

LEMMA AccountSuffices == AccountInv => Accounted
<1> SUFFICES ASSUME AccountInv, \A p \in Producers : pc[p] = "idle"
             PROVE  /\ posted + dropped = Cardinality(Events \ fresh)
                    /\ posted = consumed + Len(queue) + Cardinality(Popped)
                    /\ overflowDropped <= dropped
  BY DEF Accounted, Popped
<1>1. Late = {} /\ Early = {}
  BY DEF Late, Early, Holding
<1>2. Cardinality(Late) = 0 /\ Cardinality(Early) = 0
  BY <1>1, FS_EmptySet
<1>3. QED
  BY <1>2 DEF AccountInv

\* For any threads, events and capacity: whenever no post is under way, every event posted was
\* consumed, or is on the list or being consumed, and every other call was counted as dropped.
THEOREM StatisticsAreExact == Spec => []Accounted
  BY RefStarts, RefNext, ThreadNext, AccountStarts, AccountNext, AccountSuffices, PTL DEF Spec

LEMMA TypesHold ==
  RefInv /\ ThreadInv /\ CountInv /\ LockInv /\ ControlInv /\ AccountInv => TypeOK
<1> SUFFICES ASSUME RefInv, ThreadInv, CountInv, LockInv, ControlInv, AccountInv PROVE TypeOK
  OBVIOUS
<1>1. producers \in 0 .. Cardinality(Producers)
  BY ProducersFinite DEF CountInv, Inside
<1>2. {posted, consumed, dropped, overflowDropped} \subseteq 0 .. Cardinality(Events)
  <2>1. Cardinality(Events) \in Nat
    BY EventAssumption, FS_CardinalityType
  <2>2. QED
    BY <2>1, Countable DEF AccountInv
<1>3. owed \subseteq Events
  <2>1. Elems(queue) \subseteq Events
    BY ElementOfSeq DEF Elems, RefInv
  <2>2. QED
    BY <2>1 DEF RefInv
<1>4. QED
  BY <1>1, <1>2, <1>3 DEF TypeOK, RefInv, ThreadInv, LockInv, ControlInv, Labels

\* For any threads, events and bounds: the queue keeps to its capacity and its counters to theirs,
\* since the producer that looked at the capacity holds the lock until it has inserted.
THEOREM QueueTypeCorrect == Spec => []TypeOK
  BY RefStarts, RefNext, ThreadNext, CountStarts, CountNext, BoundsStart, LockNext, ControlNext,
     AccountStarts, AccountNext, TypesHold, PTL DEF Spec
=============================================================================
