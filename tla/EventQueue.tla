----------------------------- MODULE EventQueue -----------------------------
(***************************************************************************)
(* The event queue of telemetry/event_queue.c and the protocol that stops  *)
(* it.  Producers (classify callouts, any number, up to DISPATCH_LEVEL)    *)
(* post events through a gate and a bounded list; one consumer thread      *)
(* takes them off the list; the lifecycle starts the thread and stops it,  *)
(* after which every event must be accounted for.                          *)
(*                                                                         *)
(* The stop flag is written outside the queue lock, so that a step of a    *)
(* producer is what happens between two accesses to the flag.  A thread in *)
(* a lock section of several steps owns the variable lock meanwhile.       *)
(***************************************************************************)
EXTENDS Integers, FiniteSets, Sequences

CONSTANTS
  Producers,
  RefEvents,   \* events that carry a reference and a counter (ShEventPost)
  Records,     \* events that carry an inline record (ShEventPostRecord)
  Capacity,    \* q->capacity; 0 is unbounded
  Retries,     \* SH_EVENT_PRODUCER_WAIT_RETRIES
  MaxStops,    \* calls of ShEventThreadStop
  RingSize,    \* SK_TELEMETRY_RING
  NoEvent,
  NoThread

Events == RefEvents \cup Records

ASSUME EventAssumption ==
  /\ IsFiniteSet(Events) /\ IsFiniteSet(Producers)
  /\ RefEvents \cap Records = {}
  /\ NoEvent \notin Events
  /\ NoThread \notin Producers
  /\ Capacity \in Nat /\ Retries \in Nat /\ MaxStops \in Nat /\ RingSize \in Nat \ {0}

VARIABLES
  queue,           \* the list; its length is q->pending
  lock,            \* holder of the queue lock across steps
  stopping,
  producers,       \* producers inside the gate
  doorbell,
  threadObject,    \* is there one to join
  startLock,
  posted, consumed, dropped, overflowDropped,
  fresh,           \* events nobody has posted yet
  owed,            \* events whose reference or node is still to be released
  pc, item,        \* control point and event of each producer
  consumer, taken, \* control point of the consumer thread, and its event
  starter,         \* control point of ShEventThreadStart
  stopper, thr, tries, drained, stops,
                   \* ShEventThreadStop: control point, its locals, its calls
  ring, ringHead, ringTotal,
                   \* the consumed records of the driver's telemetry queue
  written          \* history variable: all of them, in order

list   == <<queue, lock>>
gate   == <<stopping, producers>>
stats  == <<posted, consumed, dropped, overflowDropped>>
prod   == <<pc, item, fresh>>
cons   == <<consumer, taken>>
start  == <<starter, startLock>>
stop   == <<stopper, thr, tries, drained, stops>>
telemetry == <<ring, ringHead, ringTotal, written>>
vars == <<list, gate, doorbell, threadObject, stats, owed, prod, cons, start, stop, telemetry>>

Init ==
  /\ queue = <<>> /\ lock = NoThread
  /\ stopping = FALSE /\ producers = 0 /\ doorbell = FALSE
  /\ threadObject = FALSE /\ startLock = FALSE
  /\ posted = 0 /\ consumed = 0 /\ dropped = 0 /\ overflowDropped = 0
  /\ fresh = Events /\ owed = {}
  /\ pc = [p \in Producers |-> "idle"] /\ item = [p \in Producers |-> NoEvent]
  /\ consumer = "none" /\ taken = NoEvent
  /\ starter = "idle"
  /\ stopper = "idle" /\ thr = FALSE /\ tries = 0 /\ drained = NoEvent /\ stops = 0
  /\ ring = [i \in 0 .. RingSize - 1 |-> NoEvent] /\ ringHead = 0 /\ ringTotal = 0
  /\ written = <<>>

\* shTelemetrySink, onEvent of the telemetry queue: a record overwrites the oldest one; an
\* event without a payload leaves the ring alone.
shTelemetrySink(e) ==
  IF e \in Records
    THEN /\ ring' = [ring EXCEPT ![ringHead] = e]
         /\ ringHead' = (ringHead + 1) % RingSize
         /\ ringTotal' = ringTotal + 1
         /\ written' = Append(written, e)
    ELSE UNCHANGED telemetry

\* Mutant: the copy starts at the oldest record, however few are asked for.
FlushFromOldest(max) ==
  LET avail == IF ringTotal < RingSize THEN ringTotal ELSE RingSize
      n == IF avail < max THEN avail ELSE max
      first == (ringHead + RingSize - avail) % RingSize
  IN [i \in 1 .. n |-> ring[(first + i - 1) % RingSize]]

\* The newest records of the ring, at most max of them, in the order of their writing.
SkTelemetryFlush(max) ==
  LET avail == IF ringTotal < RingSize THEN ringTotal ELSE RingSize
      n == IF avail < max THEN avail ELSE max
      first == (ringHead + RingSize - n) % RingSize
  IN [i \in 1 .. n |-> ring[(first + i - 1) % RingSize]]

Goto(p, label) == pc' = [pc EXCEPT ![p] = label]

-----------------------------------------------------------------------------
(***************************************************************************)
(* ShEventPost and ShEventPostRecord.                                      *)
(***************************************************************************)
\* The caller has taken the reference that the queue will release.  The gate is
\* locked and the stop flag read.
EnterCheck(p, e) ==
  /\ pc[p] = "idle"
  /\ lock = NoThread
  /\ e \in fresh
  /\ fresh' = fresh \ {e}
  /\ owed' = owed \cup {e}
  /\ item' = [item EXCEPT ![p] = e]
  /\ IF stopping THEN Goto(p, "drop") /\ UNCHANGED lock
                 ELSE Goto(p, "enter") /\ lock' = p
  /\ UNCHANGED <<queue, gate, doorbell, threadObject, stats, cons, start, stop, telemetry>>

EnterCount(p) ==
  /\ pc[p] = "enter"
  /\ producers' = producers + 1
  /\ lock' = NoThread
  /\ Goto(p, "alloc")
  /\ UNCHANGED <<queue, stopping, doorbell, threadObject, stats, owed, item, fresh, cons,
                 start, stop, telemetry>>

\* The allocation of the node fails.
AllocFails(p) ==
  /\ pc[p] = "alloc"
  /\ Goto(p, "leave")
  /\ UNCHANGED <<list, gate, doorbell, threadObject, stats, owed, item, fresh, cons, start,
                 stop, telemetry>>

Full == Capacity > 0 /\ Len(queue) >= Capacity

\* Mutant: nothing is checked again under the lock.
NoRecheck(p) ==
  /\ pc[p] = "alloc"
  /\ lock = NoThread
  /\ Goto(p, "insert") /\ lock' = p
  /\ UNCHANGED <<queue, gate, doorbell, threadObject, stats, owed, item, fresh, cons, start,
                 stop, telemetry>>

\* The lock is taken; stop flag and capacity are checked.
Recheck(p) ==
  /\ pc[p] = "alloc"
  /\ lock = NoThread
  /\ CASE stopping           -> Goto(p, "leave") /\ UNCHANGED lock
       [] ~stopping /\ Full  -> Goto(p, "leaveFull") /\ UNCHANGED lock
       [] ~stopping /\ ~Full -> Goto(p, "insert") /\ lock' = p
  /\ UNCHANGED <<queue, gate, doorbell, threadObject, stats, owed, item, fresh, cons, start,
                 stop, telemetry>>

Insert(p) ==
  /\ pc[p] = "insert"
  /\ queue' = Append(queue, item[p])
  /\ lock' = NoThread
  /\ item' = [item EXCEPT ![p] = NoEvent]
  /\ Goto(p, "leaveQueued")
  /\ UNCHANGED <<gate, doorbell, threadObject, stats, owed, fresh, cons, start, stop, telemetry>>

\* Mutant: the producer that gives up stays counted.
LeaveQueuedOnly(p) ==
  /\ pc[p] \in {"leave", "leaveFull", "leaveQueued"}
  /\ producers' = IF pc[p] = "leaveQueued" THEN producers - 1 ELSE producers
  /\ Goto(p, CASE pc[p] = "leave" -> "drop"
               [] pc[p] = "leaveFull" -> "dropFull"
               [] pc[p] = "leaveQueued" -> "bell")
  /\ UNCHANGED <<list, stopping, doorbell, threadObject, stats, owed, item, fresh, cons,
                 start, stop, telemetry>>

ProducerLeave(p) ==
  /\ pc[p] \in {"leave", "leaveFull", "leaveQueued"}
  /\ producers' = producers - 1
  /\ Goto(p, CASE pc[p] = "leave" -> "drop"
               [] pc[p] = "leaveFull" -> "dropFull"
               [] pc[p] = "leaveQueued" -> "bell")
  /\ UNCHANGED <<list, stopping, doorbell, threadObject, stats, owed, item, fresh, cons,
                 start, stop, telemetry>>

\* posted is counted and the doorbell rung, outside the gate.
RingDoorbell(p) ==
  /\ pc[p] = "bell"
  /\ posted' = posted + 1
  /\ doorbell' = TRUE
  /\ Goto(p, "idle")
  /\ UNCHANGED <<list, gate, threadObject, consumed, dropped, overflowDropped, owed, item,
                 fresh, cons, start, stop, telemetry>>

\* Mutant: a post that found the queue full is counted as an overflow only.
FullCountsOverflowOnly(p) ==
  /\ pc[p] \in {"drop", "dropFull"}
  /\ owed' = owed \ {item[p]}
  /\ dropped' = IF pc[p] = "drop" THEN dropped + 1 ELSE dropped
  /\ overflowDropped' = IF pc[p] = "drop" THEN overflowDropped ELSE overflowDropped + 1
  /\ item' = [item EXCEPT ![p] = NoEvent]
  /\ Goto(p, "idle")
  /\ UNCHANGED <<list, gate, doorbell, threadObject, posted, consumed, fresh, cons, start,
                 stop, telemetry>>

\* Mutant: a post that found the queue full keeps its reference.
DropKeepsReference(p) ==
  /\ pc[p] \in {"drop", "dropFull"}
  /\ owed' = IF pc[p] = "drop" THEN owed \ {item[p]} ELSE owed
  /\ dropped' = dropped + 1
  /\ item' = [item EXCEPT ![p] = NoEvent]
  /\ Goto(p, "idle")
  /\ UNCHANGED <<list, gate, doorbell, threadObject, posted, consumed, overflowDropped,
                 fresh, cons, start, stop, telemetry>>

\* The event is dropped in place.  A record that found the queue full is counted as
\* an overflow only if no stop has begun since.
DropInPlace(p) ==
  /\ pc[p] \in {"drop", "dropFull"}
  /\ owed' = owed \ {item[p]}
  /\ dropped' = dropped + 1
  /\ overflowDropped' =
       IF pc[p] = "dropFull" /\ (item[p] \in RefEvents \/ ~stopping)
         THEN overflowDropped + 1 ELSE overflowDropped
  /\ item' = [item EXCEPT ![p] = NoEvent]
  /\ Goto(p, "idle")
  /\ UNCHANGED <<list, gate, doorbell, threadObject, posted, consumed, fresh, cons, start,
                 stop, telemetry>>

-----------------------------------------------------------------------------
(***************************************************************************)
(* ShEventThreadBody.                                                      *)
(***************************************************************************)
\* The doorbell is an auto-reset event.
WaitSignaled ==
  /\ consumer = "wait"
  /\ doorbell
  /\ doorbell' = FALSE
  /\ consumer' = "pop"
  /\ UNCHANGED <<list, gate, threadObject, stats, owed, prod, taken, start, stop, telemetry>>

WaitTimesOut ==
  /\ consumer = "wait"
  /\ ~doorbell
  /\ consumer' = "probe"
  /\ UNCHANGED <<list, gate, doorbell, threadObject, stats, owed, prod, taken, start, stop,
                 telemetry>>

\* Mutant: the consumer does not look for a stop when its wait times out.
ProbeIgnoresStop ==
  /\ consumer = "probe"
  /\ consumer' = "pop"
  /\ UNCHANGED <<list, gate, doorbell, threadObject, stats, owed, prod, taken, start, stop,
                 telemetry>>

Probe ==
  /\ consumer = "probe"
  /\ consumer' = IF stopping /\ queue = <<>> THEN "exited" ELSE "pop"
  /\ UNCHANGED <<list, gate, doorbell, threadObject, stats, owed, prod, taken, start, stop,
                 telemetry>>

Pop ==
  /\ consumer = "pop"
  /\ lock = NoThread
  /\ IF queue = <<>>
       THEN consumer' = "wait" /\ UNCHANGED <<queue, taken>>
       ELSE consumer' = "consume" /\ taken' = Head(queue) /\ queue' = Tail(queue)
  /\ UNCHANGED <<lock, gate, doorbell, threadObject, stats, owed, prod, start, stop, telemetry>>

Consume ==
  /\ consumer = "consume"
  /\ owed' = owed \ {taken}
  /\ shTelemetrySink(taken)
  /\ consumed' = consumed + 1
  /\ taken' = NoEvent
  /\ consumer' = "pop"
  /\ UNCHANGED <<list, gate, doorbell, threadObject, posted, dropped, overflowDropped, prod,
                 start, stop>>

-----------------------------------------------------------------------------
(***************************************************************************)
(* ShEventThreadStart.                                                     *)
(***************************************************************************)
\* Refused after a stop; nothing to do if the thread runs.
StartCheck ==
  /\ starter = "idle"
  /\ ~startLock
  /\ ~stopping /\ ~threadObject
  /\ startLock' = TRUE
  /\ starter' = "create"
  /\ UNCHANGED <<list, gate, doorbell, threadObject, stats, owed, prod, cons, stop, telemetry>>

CreateFails ==
  /\ starter = "create"
  /\ starter' = "idle"
  /\ startLock' = FALSE
  /\ UNCHANGED <<list, gate, doorbell, threadObject, stats, owed, prod, cons, stop, telemetry>>

Create ==
  /\ starter = "create"
  /\ consumer' = "wait"
  /\ starter' = "publish"
  /\ UNCHANGED <<list, gate, doorbell, threadObject, stats, owed, prod, taken, startLock, stop,
                 telemetry>>

Publish ==
  /\ starter = "publish"
  /\ threadObject' = TRUE
  /\ starter' = "idle"
  /\ startLock' = FALSE
  /\ UNCHANGED <<list, gate, doorbell, stats, owed, prod, cons, stop, telemetry>>

-----------------------------------------------------------------------------
(***************************************************************************)
(* ShEventThreadStop.                                                      *)
(***************************************************************************)
StopBegin ==
  /\ stopper \in {"idle", "TIMEOUT", "FAILED", "SUCCESS"}
  /\ stops < MaxStops
  /\ ~startLock
  /\ stops' = stops + 1
  /\ stopping' = TRUE
  /\ thr' = threadObject
  /\ threadObject' = FALSE
  /\ tries' = 0
  /\ stopper' = "producers"
  /\ UNCHANGED <<list, producers, doorbell, stats, owed, prod, cons, start, drained, telemetry>>

\* No producer is inside: the consumer is woken.
ProducersGone ==
  /\ stopper = "producers"
  /\ producers = 0
  /\ doorbell' = TRUE
  /\ stopper' = IF thr THEN "join" ELSE "drain"
  /\ UNCHANGED <<list, gate, threadObject, stats, owed, prod, cons, start, thr, tries,
                 drained, stops, telemetry>>

ProducersInside ==
  /\ stopper = "producers"
  /\ producers # 0
  /\ IF tries < Retries THEN tries' = tries + 1 /\ UNCHANGED stopper
                        ELSE stopper' = "TIMEOUT" /\ UNCHANGED tries
  /\ UNCHANGED <<list, gate, doorbell, threadObject, stats, owed, prod, cons, start, thr,
                 drained, stops, telemetry>>

\* ThreadJoin waits without a timeout.
Join ==
  /\ stopper = "join"
  /\ consumer = "exited"
  /\ stopper' = "drain"
  /\ UNCHANGED <<list, gate, doorbell, threadObject, stats, owed, prod, cons, start, thr,
                 tries, drained, stops, telemetry>>

\* ThreadJoin returns another status: the thread may still run, and the caller stays resident.
JoinFails ==
  /\ stopper = "join"
  /\ stopper' = "FAILED"
  /\ UNCHANGED <<list, gate, doorbell, threadObject, stats, owed, prod, cons, start, thr,
                 tries, drained, stops, telemetry>>

\* Mutant: the fallback drain is left out, the consumer empties the queue.
NoDrain ==
  /\ stopper = "drain"
  /\ stopper' = "SUCCESS"
  /\ UNCHANGED <<list, gate, doorbell, threadObject, stats, owed, prod, cons, start, thr,
                 tries, drained, stops, telemetry>>

\* ShEventDrain pops, or finds the list empty.
Drain ==
  /\ stopper = "drain"
  /\ lock = NoThread
  /\ IF queue = <<>>
       THEN stopper' = "drained" /\ UNCHANGED <<queue, drained>>
       ELSE stopper' = "release" /\ drained' = Head(queue) /\ queue' = Tail(queue)
  /\ UNCHANGED <<lock, gate, doorbell, threadObject, stats, owed, prod, cons, start, thr,
                 tries, stops, telemetry>>

DrainConsume ==
  /\ stopper = "release"
  /\ owed' = owed \ {drained}
  /\ shTelemetrySink(drained)
  /\ consumed' = consumed + 1
  /\ drained' = NoEvent
  /\ stopper' = "drain"
  /\ UNCHANGED <<list, gate, doorbell, threadObject, posted, dropped, overflowDropped, prod,
                 cons, start, thr, tries, stops>>

\* The last look at the pending count.
StopEnd ==
  /\ stopper = "drained"
  /\ stopper' = IF queue = <<>> THEN "SUCCESS" ELSE "TIMEOUT"
  /\ UNCHANGED <<list, gate, doorbell, threadObject, stats, owed, prod, cons, start, thr,
                 tries, drained, stops, telemetry>>

-----------------------------------------------------------------------------
ProducerMoves(p) ==
  \/ EnterCount(p) \/ AllocFails(p) \/ Recheck(p) \/ Insert(p)
  \/ ProducerLeave(p) \/ RingDoorbell(p) \/ DropInPlace(p)

ProducerStep(p) == ProducerMoves(p) \/ \E e \in Events : EnterCheck(p, e)

ConsumerStep == WaitSignaled \/ WaitTimesOut \/ Probe \/ Pop \/ Consume

StarterStep == StartCheck \/ CreateFails \/ Create \/ Publish

StopperMoves == ProducersGone \/ ProducersInside \/ Join \/ Drain \/ DrainConsume \/ StopEnd

Next ==
  \/ \E p \in Producers : ProducerStep(p)
  \/ ConsumerStep \/ StarterStep
  \/ StopBegin \/ StopperMoves \/ JoinFails

Spec == Init /\ [][Next]_vars

\* Every thread that has begun goes on; nobody is obliged to post, start or stop, and no join
\* to fail.
Fairness ==
  /\ \A p \in Producers : WF_vars(ProducerMoves(p))
  /\ WF_vars(ConsumerStep)
  /\ WF_vars(StarterStep /\ starter # "idle")
  /\ WF_vars(StopperMoves)

FairSpec == Spec /\ Fairness

-----------------------------------------------------------------------------
(***************************************************************************)
(* Properties.                                                             *)
(***************************************************************************)
Queued == {queue[i] : i \in 1 .. Len(queue)}
InHand == ({item[p] : p \in Producers} \cup {taken, drained}) \ {NoEvent}

\* The types, and the bounds of the queue and of its counters (event_queue.h,
\* SHINKEN_EVENT_QUEUE), whatever the producers do between their check and their insertion.
TypeOK ==
  /\ queue \in Seq(Events) /\ (Capacity > 0 => Len(queue) <= Capacity)
  /\ lock \in Producers \cup {NoThread}
  /\ {stopping, doorbell, threadObject, startLock, thr} \subseteq BOOLEAN
  /\ producers \in 0 .. Cardinality(Producers)
  /\ {posted, consumed, dropped, overflowDropped} \subseteq 0 .. Cardinality(Events)
  /\ fresh \subseteq Events /\ owed \subseteq Events
  /\ pc \in [Producers -> {"idle", "enter", "alloc", "insert", "leave", "leaveFull",
                           "leaveQueued", "drop", "dropFull", "bell"}]
  /\ item \in [Producers -> Events \cup {NoEvent}]
  /\ consumer \in {"none", "wait", "probe", "pop", "consume", "exited"}
  /\ starter \in {"idle", "create", "publish"}
  /\ stopper \in {"idle", "producers", "join", "drain", "release", "drained",
                  "SUCCESS", "TIMEOUT", "FAILED"}
  /\ {taken, drained} \subseteq Events \cup {NoEvent}
  /\ tries \in 0 .. Retries /\ stops \in 0 .. MaxStops

\* "References balanced in place": the reference of an event is owed exactly while the
\* event is on the list or in the hands of one thread that will release it.
ReferencesTracked ==
  /\ owed = Queued \cup InHand
  /\ Queued \cap InHand = {}
  /\ Cardinality(Queued) = Len(queue)

\* A stop that returned SUCCESS leaves nothing behind, now or later: no event on the
\* list, no thread, and no producer that will still append.
StopIsComplete ==
  stopper = "SUCCESS" =>
    /\ queue = <<>>
    /\ consumer \in {"none", "exited"}
    /\ \A p \in Producers : pc[p] # "insert"

\* The statistics are exact whenever no post is under way: every event posted was
\* consumed, or is on the list or being consumed; every other call was dropped.
Accounted ==
  (\A p \in Producers : pc[p] = "idle") =>
    /\ posted + dropped = Cardinality(Events \ fresh)
    /\ posted = consumed + Len(queue) + Cardinality({taken, drained} \ {NoEvent})
    /\ overflowDropped <= dropped

\* "Copy the ring's current contents in write order": a flush (SkTelemetryFlush) gives the
\* newest of the records that were consumed, in the order of their consumption, however
\* often the ring has been overwritten.
FlushIsNewest ==
  \A max \in 0 .. RingSize + 1 :
    LET records == SkTelemetryFlush(max)
        n == Len(records)
    IN /\ n <= max /\ (n < max => n = Len(written) \/ n = RingSize)
       /\ records = SubSeq(written, Len(written) - n + 1, Len(written))

\* A stop always returns: it gives up on the producers, or the consumer exits and is
\* joined, however the doorbell rang, and whether or not the join could fail.
StopReturns == stopper = "producers" ~> stopper \in {"SUCCESS", "TIMEOUT", "FAILED"}

\* With a consumer or a stop at work every event on the list is consumed in the end,
\* unless the stop timed out or its join failed; one inserted after the consumer exited is
\* left to the fallback drain.
PostedIsConsumed ==
  \A e \in Events :
    e \in Queued /\ (consumer \notin {"none", "exited"} \/ stopping)
      ~> e \notin owed \/ stopper \in {"TIMEOUT", "FAILED"}
=============================================================================
