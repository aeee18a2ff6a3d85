--------------------------- MODULE Rundown_proofs ---------------------------
(***************************************************************************)
(* Proofs about Rundown and about Injection, which uses it, for any finite *)
(* number of threads, any ceiling and any number of retries, when every    *)
(* release pairs an acquire; and what the rundown notices when some do     *)
(* not.                                                                    *)
(*                                                                         *)
(* The argument is that of runtime/rundown.h: a compare-and-swap that      *)
(* succeeds found the value that was read, which was below the ceiling and *)
(* so carried no stop bit (ReadBelowCeiling).  The holders therefore never *)
(* outnumber the ceiling and never reach the stop bit, and a decrement by  *)
(* a holder never borrows from it.                                         *)
(*                                                                         *)
(* The handles and the pools of the injection are taken away only after a  *)
(* drain that has succeeded, and the rundown lets nobody in after it.      *)
(***************************************************************************)
EXTENDS Injection, TLAPS, FiniteSetTheorems

\* What is about to be compared and swapped was read below the ceiling.
ReadBelowCeiling == \A t \in Threads : pc[t] = "cas" => seen[t] < Ceiling

\* Nobody ran into an underflow, and the holders stay below the stop bit.
Paired ==
  /\ \A t \in Threads : pc[t] \notin {"rollback", "report"}
  /\ Cardinality(Holders) <= Ceiling

IInv == TypeOK /\ CountConserved /\ ReadBelowCeiling /\ Paired
          /\ (stopper = "drained" => Holders = {})

\* The holders are a finite set.
LEMMA HoldersFinite == IsFiniteSet(Holders) /\ Cardinality(Holders) \in Nat
  BY RundownAssumption, FS_Subset, FS_CardinalityType DEF Holders

\* The same of the next state.
LEMMA HoldersFiniteNext == IsFiniteSet(Holders') /\ Cardinality(Holders') \in Nat
  BY RundownAssumption, FS_Subset, FS_CardinalityType DEF Holders

\* Without a stop bit the value is below it, with one it is not.
LEMMA StopBitShows ==
  ASSUME IInv
  PROVE  Negative(count) <=> Stopped
  BY HoldersFinite, RundownAssumption
  DEF IInv, CountConserved, Paired, Negative, STOP_BIT

\* A thread enters: an increment of an unstopped count below the ceiling.
LEMMA CasStep ==
  ASSUME IInv, NEW t \in Threads, Cas(t)
  PROVE  /\ IInv'
         /\ Holders' # Holders => ~Stopped /\ t \notin Holders /\ Holders' = Holders \cup {t}
<1> USE DEF Goto
<1>1. pc[t] = "cas" /\ count \in Word /\ seen[t] \in Word /\ seen[t] < Ceiling
  BY DEF IInv, TypeOK, ReadBelowCeiling, Cas
<1>2. CASE count = seen[t]
  <2>1. pc' = [pc EXCEPT ![t] = "held"] /\ count' = Plus1(count)
        /\ UNCHANGED <<seen, underflows, runtime, stopper, polls, spent>>
    BY <1>2 DEF Cas
  <2>2. t \notin Holders /\ Holders' = Holders \cup {t}
    BY <1>1, <2>1 DEF IInv, TypeOK, Holders
  <2>3. Cardinality(Holders') = Cardinality(Holders) + 1
    BY <2>2, HoldersFinite, FS_AddElement
  <2>4. ~Stopped
    BY <1>1, <1>2, StopBitShows, RundownAssumption DEF Negative, STOP_BIT, Word
  <2>5. count = Cardinality(Holders) /\ count < Ceiling
    BY <1>1, <1>2, <2>4, HoldersFinite DEF IInv, CountConserved
  <2>6. count' = count + 1 /\ count' \in Word
    BY <1>1, <2>1, <2>5, RundownAssumption DEF Plus1, Word, STOP_BIT
  <2>7. TypeOK'
    BY <2>1, <2>6 DEF IInv, TypeOK
  <2>8. CountConserved'
    <3>1. ~Stopped'
      BY <2>1, <2>4 DEF Stopped
    <3>2. count' = Cardinality(Holders') /\ Cardinality(Holders') \in Nat
      BY <2>3, <2>5, <2>6, HoldersFinite
    <3>3. QED
      BY <3>1, <3>2 DEF CountConserved
  <2>9. ReadBelowCeiling' /\ \A u \in Threads : pc'[u] \notin {"rollback", "report"}
    BY <2>1 DEF IInv, TypeOK, ReadBelowCeiling, Paired
  <2>10. Cardinality(Holders') <= Ceiling
    BY <2>3, <2>5, HoldersFinite, RundownAssumption
  <2>11. stopper' # "drained"
    BY <2>1, <2>4 DEF Stopped
  <2>12. QED
    BY <2>2, <2>4, <2>7, <2>8, <2>9, <2>10, <2>11 DEF IInv, Paired
<1>3. CASE count # seen[t]
  <2>1. pc' = [pc EXCEPT ![t] = "retry"]
        /\ UNCHANGED <<count, seen, underflows, runtime, stopper, polls, spent>>
    BY <1>3 DEF Cas
  <2>2. Holders' = Holders
    BY <1>1, <2>1 DEF IInv, TypeOK, Holders
  <2>3. QED
    BY <2>1, <2>2
    DEF IInv, TypeOK, CountConserved, Stopped, ReadBelowCeiling, Paired
<1>4. QED
  BY <1>2, <1>3

\* A holder leaves: a decrement that cannot underflow.
LEMMA ReleaseStep ==
  ASSUME IInv, NEW t \in Threads, Release(t)
  PROVE  IInv' /\ t \in Holders /\ Holders' = Holders \ {t}
<1> USE DEF Goto
<1>1. t \in Holders
  BY DEF Release, Holders
<1>2. Cardinality(Holders \ {t}) = Cardinality(Holders) - 1
      /\ Cardinality(Holders \ {t}) \in Nat
  BY <1>1, HoldersFinite, FS_RemoveElement, FS_CardinalityType
<1>3. count \notin {0, STOP_BIT} /\ count \in Word
  BY <1>2, HoldersFinite, RundownAssumption
  DEF IInv, TypeOK, CountConserved, Paired, STOP_BIT
<1>4. pc' = [pc EXCEPT ![t] = "idle"] /\ count' = count - 1
      /\ UNCHANGED <<seen, underflows, runtime, stopper, polls, spent>>
  BY <1>3 DEF Release, Sub, Minus1
<1>5. Holders' = Holders \ {t}
  BY <1>4 DEF IInv, TypeOK, Holders
<1>6. count' \in Word
  BY <1>3, <1>4, RundownAssumption DEF Word, STOP_BIT
<1>7. TypeOK'
  BY <1>4, <1>6 DEF IInv, TypeOK
<1>8. CountConserved'
  BY <1>2, <1>4, <1>5, HoldersFinite, RundownAssumption
  DEF IInv, CountConserved, Stopped, STOP_BIT
<1>9. ReadBelowCeiling' /\ \A u \in Threads : pc'[u] \notin {"rollback", "report"}
  BY <1>4 DEF IInv, TypeOK, ReadBelowCeiling, Paired
<1>10. Cardinality(Holders') <= Ceiling
  BY <1>2, <1>5, HoldersFinite, RundownAssumption DEF IInv, Paired
<1>11. stopper' # "drained"
  BY <1>1, <1>4 DEF IInv
<1>12. QED
  BY <1>1, <1>5, <1>7, <1>8, <1>9, <1>10, <1>11 DEF IInv, Paired

\* The steps of the stopping thread.
LEMMA StopperKeeps ==
  ASSUME IInv, StopperStep
  PROVE  /\ IInv' /\ Holders' = Holders
         /\ Stopped => Stopped'
         /\ stopper' = "drained" /\ stopper # "drained" => Stopped /\ Holders = {}
         /\ stopper = "drained" => stopper' = "drained"
<1>1. UNCHANGED <<pc, seen, underflows, spent>> /\ Holders' = Holders
  BY DEF StopperStep, BeginTeardown, ShRundownBeginStop, PollDrained, PollAgain,
         PollTimeout, thread, Holders
<1>2. CASE BeginTeardown
  BY <1>1, <1>2 DEF BeginTeardown, thread, IInv, TypeOK, CountConserved, Stopped,
                    ReadBelowCeiling, Paired
<1>3. CASE ShRundownBeginStop
  <2>1. CASE Stopped
    <3>1. UNCHANGED count
      BY <1>3, <2>1, StopBitShows DEF ShRundownBeginStop, OrStopBit
    <3>2. QED
      BY <1>1, <1>3, <2>1, <3>1
      DEF ShRundownBeginStop, thread, IInv, TypeOK, CountConserved, Stopped,
          ReadBelowCeiling, Paired
  <2>2. CASE ~Stopped
    <3>1. count' = count + STOP_BIT /\ ~Negative(count)
      BY <1>3, <2>2, StopBitShows DEF ShRundownBeginStop, OrStopBit
    <3>2. count' \in Word
      BY <3>1, RundownAssumption DEF IInv, TypeOK, Word, STOP_BIT, Negative
    <3>3. CountConserved'
      BY <1>1, <1>3, <2>2, <3>1, HoldersFinite
      DEF IInv, CountConserved, Stopped, ShRundownBeginStop
    <3>4. QED
      BY <1>1, <1>3, <2>2, <3>2, <3>3
      DEF ShRundownBeginStop, thread, IInv, TypeOK, Stopped, ReadBelowCeiling, Paired
  <2>3. QED
    BY <2>1, <2>2
<1>4. CASE PollDrained
  <2>1. Stopped /\ Cardinality(Holders) = 0
    BY <1>4, HoldersFinite, RundownAssumption
    DEF IInv, CountConserved, Stopped, PollDrained, STOP_BIT
  <2>2. Holders = {}
    BY <2>1, HoldersFinite, FS_EmptySet
  <2>3. QED
    BY <1>1, <1>4, <2>1, <2>2
    DEF PollDrained, thread, IInv, TypeOK, CountConserved, Stopped, ReadBelowCeiling, Paired
<1>5. CASE PollAgain
  <2>1. polls' \in 0 .. Retries
    BY <1>5, RundownAssumption DEF PollAgain, IInv, TypeOK
  <2>2. QED
    BY <1>1, <1>5, <2>1
    DEF PollAgain, thread, IInv, TypeOK, CountConserved, Stopped, ReadBelowCeiling, Paired
<1>6. CASE PollTimeout
  BY <1>1, <1>6
  DEF PollTimeout, thread, IInv, TypeOK, CountConserved, Stopped, ReadBelowCeiling, Paired
<1>7. QED
  BY <1>2, <1>3, <1>4, <1>5, <1>6 DEF StopperStep

\* Reading changes no holder.
LEMMA ReadStep ==
  ASSUME IInv, NEW t \in Threads, Read(t)
  PROVE  IInv' /\ Holders' = Holders
<1> USE DEF Goto
<1>1. UNCHANGED <<count, underflows, runtime, stopper, polls, spent>>
  BY DEF Read
<1>2. CASE Refused(count)
  <2>1. pc' = [pc EXCEPT ![t] = "idle"] /\ UNCHANGED seen /\ pc[t] \in {"idle", "retry"}
    BY <1>2 DEF Read
  <2>2. Holders' = Holders
    BY <2>1 DEF IInv, TypeOK, Holders
  <2>3. QED
    BY <1>1, <2>1, <2>2 DEF IInv, TypeOK, CountConserved, Stopped, ReadBelowCeiling, Paired
<1>3. CASE ~Refused(count)
  <2>1. pc' = [pc EXCEPT ![t] = "cas"] /\ seen' = [seen EXCEPT ![t] = count]
        /\ pc[t] \in {"idle", "retry"}
    BY <1>3 DEF Read
  <2>2. Holders' = Holders
    BY <2>1 DEF IInv, TypeOK, Holders
  <2>3. count < Ceiling
    BY <1>3, RundownAssumption DEF Refused, IInv, TypeOK, Word, STOP_BIT
  <2>4. ReadBelowCeiling'
    BY <2>1, <2>3 DEF IInv, TypeOK, ReadBelowCeiling
  <2>5. QED
    BY <1>1, <2>1, <2>2, <2>4 DEF IInv, TypeOK, CountConserved, Stopped, Paired
<1>4. QED
  BY <1>2, <1>3

\* With no rogue thread a step is one of these.
LEMMA PairedStep ==
  ASSUME Rogues = {}, IInv, NEW t \in Threads, ThreadStep(t)
  PROVE  Read(t) \/ Cas(t) \/ Release(t)
  BY DEF IInv, Paired, ThreadStep, UnpairedRelease, RollBack, ShRuntimeReportUnderflow

\* Nobody holds it and nobody has stopped it at first.
LEMMA InitIsGood == Init => IInv
<1> SUFFICES ASSUME Init PROVE IInv
  OBVIOUS
<1>1. Holders = {}
  BY DEF Init, Holders
<1>2. Cardinality(Holders) = 0
  BY <1>1, FS_EmptySet
<1>3. QED
  BY <1>1, <1>2, RundownAssumption
  DEF Init, IInv, TypeOK, Word, STOP_BIT, CountConserved, Stopped, ReadBelowCeiling, Paired

-----------------------------------------------------------------------------
\* The inductive invariant is one.
THEOREM Invariance ==
  ASSUME Rogues = {}
  PROVE  Spec => []IInv
<1>1. Init => IInv
  BY InitIsGood
<1>2. IInv /\ [Next]_vars => IInv'
  <2> SUFFICES ASSUME IInv, [Next]_vars PROVE IInv'
    OBVIOUS
  <2>1. CASE StopperStep
    BY <2>1, StopperKeeps
  <2>2. ASSUME NEW t \in Threads, ThreadStep(t)
        PROVE  IInv'
    BY <2>2, PairedStep, ReadStep, CasStep, ReleaseStep
  <2>3. CASE UNCHANGED vars
    BY <2>3 DEF vars, thread, IInv, TypeOK, CountConserved, Stopped, ReadBelowCeiling, Paired,
                Holders
  <2>4. QED
    BY <2>1, <2>2, <2>3 DEF Next
<1>3. QED
  BY <1>1, <1>2, PTL DEF Spec

\* The LONG of ShRundownAcquire, ShRundownRelease and ShRundownBeginStop always is the
\* number of holders and the stop bit.
THEOREM Conservation ==
  ASSUME Rogues = {}
  PROVE  Spec => []CountConserved
<1>1. IInv => CountConserved
  BY DEF IInv
<1>2. QED
  BY <1>1, Invariance, PTL

\* What a successful ShRundownDrain protects can be destroyed.
THEOREM SafeToDestroy ==
  ASSUME Rogues = {}
  PROVE  Spec => []DrainedIsUnused
<1>1. IInv => DrainedIsUnused
  BY StopBitShows DEF IInv, DrainedIsUnused, Stopped
<1>2. QED
  BY <1>1, Invariance, PTL

\* Each step is a step of the gate, or none.
LEMMA GateStep ==
  ASSUME Rogues = {}, IInv, [Next]_vars
  PROVE  [GateSpec!Next]_(GateSpec!vars)
<1> USE DEF GateSpec!Next, GateSpec!vars
<1>1. CASE StopperStep
  <2>1. CASE stopper' = "drained" /\ stopper # "drained"
    BY <1>1, <2>1, StopperKeeps DEF GateSpec!Drain, Stopped
  <2>2. CASE ~(stopper' = "drained" /\ stopper # "drained")
    BY <1>1, <2>2, StopperKeeps DEF GateSpec!Stop, Stopped
  <2>3. QED
    BY <2>1, <2>2
<1>2. ASSUME NEW t \in Threads, ThreadStep(t)
      PROVE  [GateSpec!Next]_(GateSpec!vars)
  <2>1. UNCHANGED stopper
    BY <1>2, PairedStep DEF Read, Cas, Release, Sub
  <2>2. CASE Read(t)
    BY <2>1, <2>2, ReadStep DEF Stopped
  <2>3. CASE Cas(t)
    BY <2>1, <2>3, CasStep DEF Stopped, GateSpec!Enter
  <2>4. CASE Release(t)
    BY <2>1, <2>4, ReleaseStep DEF Stopped, GateSpec!Leave
  <2>5. QED
    BY <1>2, <2>2, <2>3, <2>4, PairedStep
<1>3. CASE UNCHANGED vars
  BY <1>3 DEF vars, thread, Stopped, Holders
<1>4. QED
  BY <1>1, <1>2, <1>3 DEF Next

\* The counter scheme of rundown.c implements the gate that its header promises.
THEOREM Refinement ==
  ASSUME Rogues = {}
  PROVE  Spec => ImplementsGate
<1>1. Init => GateSpec!Init
  BY DEF Init, GateSpec!Init, Stopped, Holders
<1>2. IInv /\ [Next]_vars => [GateSpec!Next]_(GateSpec!vars)
  BY GateStep
<1>3. QED
  BY <1>1, <1>2, Invariance, PTL DEF Spec, ImplementsGate, GateSpec!Spec

\* After ShRundownBeginStop no ShRundownAcquire succeeds, not even one that had already
\* read the count.
THEOREM StopIsFinal ==
  ASSUME Rogues = {}
  PROVE  Spec => LateAcquireFails
<1>1. ASSUME IInv, [Next]_vars
      PROVE  [Stopped => \A t \in Threads : pc'[t] = "held" => pc[t] = "held"]_vars
  <2> SUFFICES ASSUME Stopped, Next, NEW t \in Threads, pc'[t] = "held", pc[t] # "held"
               PROVE  FALSE
    BY <1>1
  <2>1. t \in Holders' /\ t \notin Holders
    BY DEF Holders
  <2>2. ~StopperStep
    BY <1>1, <2>1, StopperKeeps
  <2>3. PICK u \in Threads : ThreadStep(u)
    BY <2>2 DEF Next
  <2>4. QED
    BY <1>1, <2>1, <2>3, PairedStep, ReadStep, CasStep, ReleaseStep
<1>2. QED
  BY <1>1, Invariance, PTL DEF Spec, LateAcquireFails

-----------------------------------------------------------------------------
(***************************************************************************)
(* Releases that pair no acquire.                                          *)
(***************************************************************************)
\* No decrement has run into an underflow.
Unnoticed == underflows = 0 /\ \A t \in Threads : pc[t] \notin {"rollback", "report"}

\* As long as that is so, the count is short of the holders by the unpaired releases, and has
\* stayed on its side of the stop bit.
MissingInv ==
  /\ TypeOK /\ ReadBelowCeiling
  /\ Unnoticed =>
       /\ count + Cardinality(spent)
            = Cardinality(Holders) + (IF Stopped THEN STOP_BIT ELSE 0)
       /\ IF Stopped THEN count >= STOP_BIT ELSE count <= Ceiling

LEMMA SpentFinite ==
  ASSUME NEW S, S \subseteq Rogues
  PROVE  IsFiniteSet(S) /\ Cardinality(S) \in Nat
  BY RundownAssumption, FS_Subset, FS_CardinalityType

LEMMA MissingStarts == Init => MissingInv
<1> SUFFICES ASSUME Init PROVE MissingInv
  OBVIOUS
<1>1. Holders = {} /\ Cardinality({}) = 0
  BY FS_EmptySet DEF Init, Holders
<1>2. QED
  BY <1>1, RundownAssumption
  DEF Init, MissingInv, TypeOK, Word, STOP_BIT, Stopped, ReadBelowCeiling

\* The decrement of a release, paired or not.
LEMMA MissingSub ==
  ASSUME MissingInv, NEW t \in Threads, Release(t) \/ UnpairedRelease(t)
  PROVE  MissingInv'
<1>1. /\ count' = Minus1(count) /\ UNCHANGED <<seen, underflows, runtime, stopper, polls>>
      /\ pc' = [pc EXCEPT ![t] = IF count \in {0, STOP_BIT} THEN "rollback" ELSE "idle"]
      /\ pc[t] \notin {"rollback", "report"}
  BY DEF Release, UnpairedRelease, Sub, Goto
<1>2. /\ count \in Word /\ pc \in [Threads -> {"idle", "cas", "retry", "held",
                           "rollback", "report"}]
      /\ spent \subseteq Rogues /\ spent' \subseteq Rogues
  BY DEF MissingInv, TypeOK, Release, UnpairedRelease
<1>3. count' \in Word
  BY <1>1, <1>2, RundownAssumption DEF Word, Minus1, STOP_BIT
<1>4. TypeOK' /\ ReadBelowCeiling'
  BY <1>1, <1>2, <1>3 DEF MissingInv, TypeOK, ReadBelowCeiling
<1>5. ASSUME Unnoticed'
      PROVE  /\ count' + Cardinality(spent')
                  = Cardinality(Holders') + (IF Stopped' THEN STOP_BIT ELSE 0)
             /\ IF Stopped' THEN count' >= STOP_BIT ELSE count' <= Ceiling
  <2>1. count \notin {0, STOP_BIT}
    BY <1>1, <1>2, <1>5 DEF Unnoticed
  <2>2. pc'[t] = "idle" /\ \A u \in Threads \ {t} : pc'[u] = pc[u]
    BY <1>1, <1>2, <2>1
  <2>3. Unnoticed
    BY <1>1, <1>5, <2>2 DEF Unnoticed
  <2>4. count' = count - 1 /\ (Stopped' <=> Stopped) /\ count \in Int
    BY <1>1, <1>2, <2>1 DEF Minus1, Stopped, Word
  <2>5. /\ Cardinality(spent) \in Nat /\ Cardinality(Holders) \in Nat
        /\ IsFiniteSet(spent) /\ IsFiniteSet(Holders)
    BY <1>2, SpentFinite, HoldersFinite
  <2>6. Cardinality(spent') - Cardinality(Holders') = Cardinality(spent) - Cardinality(Holders) + 1
        /\ Cardinality(spent') \in Nat /\ Cardinality(Holders') \in Nat
    <3>1. CASE Release(t)
      <4>1. t \in Holders /\ Holders' = Holders \ {t} /\ spent' = spent
        BY <2>2, <3>1 DEF Release, Holders
      <4>2. Cardinality(Holders') = Cardinality(Holders) - 1
        BY <2>5, <4>1, FS_RemoveElement
      <4>3. QED
        BY <2>5, <4>1, <4>2, HoldersFiniteNext
    <3>2. CASE UnpairedRelease(t)
      <4>1. Holders' = Holders /\ t \notin spent /\ spent' = spent \cup {t}
        BY <2>2, <3>2 DEF UnpairedRelease, Holders
      <4>2. Cardinality(spent') = Cardinality(spent) + 1
        BY <2>5, <4>1, FS_AddElement
      <4>3. QED
        BY <2>5, <4>1, <4>2
    <3>3. QED
      BY <3>1, <3>2
  <2>7. count + Cardinality(spent) = Cardinality(Holders) + (IF Stopped THEN STOP_BIT ELSE 0)
        /\ IF Stopped THEN count >= STOP_BIT ELSE count <= Ceiling
    BY <2>3 DEF MissingInv
  <2>8. STOP_BIT \in Int /\ Ceiling \in Int
    BY RundownAssumption DEF STOP_BIT
  <2>9. QED
    BY <2>1, <2>4, <2>5, <2>6, <2>7, <2>8
<1>6. QED
  BY <1>4, <1>5 DEF MissingInv

\* The other steps of a thread.
LEMMA MissingThread ==
  ASSUME MissingInv, NEW t \in Threads,
         Read(t) \/ Cas(t) \/ RollBack(t) \/ ShRuntimeReportUnderflow(t)
  PROVE  MissingInv'
<1> USE DEF Goto
<1>1. /\ count \in Word /\ pc \in [Threads -> {"idle", "cas", "retry", "held",
                           "rollback", "report"}]
      /\ seen \in [Threads -> Word] /\ spent \subseteq Rogues /\ underflows \in Nat
      /\ UNCHANGED <<stopper, polls, spent>>
  BY DEF MissingInv, TypeOK, Read, Cas, RollBack, ShRuntimeReportUnderflow
<1>2. Plus1(count) \in Word
  BY <1>1, RundownAssumption DEF Word, Plus1, STOP_BIT
<1>3. CASE RollBack(t) \/ ShRuntimeReportUnderflow(t)
  <2>1. TypeOK' /\ ReadBelowCeiling'
    BY <1>1, <1>2, <1>3 DEF RollBack, ShRuntimeReportUnderflow, MissingInv, TypeOK, ReadBelowCeiling
  <2>2. ~Unnoticed'
    BY <1>1, <1>3 DEF RollBack, ShRuntimeReportUnderflow, Unnoticed
  <2>3. QED
    BY <2>1, <2>2 DEF MissingInv
<1>4. CASE Read(t) \/ (Cas(t) /\ count # seen[t])
  <2>1. UNCHANGED <<count, underflows, runtime>> /\ Holders' = Holders
        /\ pc[t] \notin {"rollback", "report"}
        /\ \E to \in {"idle", "cas", "retry"} : pc' = [pc EXCEPT ![t] = to]
    BY <1>1, <1>4 DEF Read, Cas, Holders
  <2>2. Unnoticed' <=> Unnoticed
    BY <1>1, <2>1 DEF Unnoticed
  <2>3. ~Refused(count) => count < Ceiling
    BY <1>1, RundownAssumption DEF Refused, Word, STOP_BIT
  <2>4. TypeOK' /\ ReadBelowCeiling'
    <3>1. CASE Read(t)
      BY <1>1, <2>1, <2>3, <3>1 DEF Read, MissingInv, TypeOK, ReadBelowCeiling
    <3>2. CASE Cas(t) /\ count # seen[t]
      BY <1>1, <2>1, <3>2 DEF Cas, MissingInv, TypeOK, ReadBelowCeiling
    <3>3. QED
      BY <1>4, <3>1, <3>2
  <2>5. QED
    BY <1>1, <2>1, <2>2, <2>4 DEF MissingInv, Stopped
<1>5. CASE Cas(t) /\ count = seen[t]
  <2>1. /\ pc' = [pc EXCEPT ![t] = "held"] /\ count' = Plus1(count) /\ pc[t] = "cas"
        /\ UNCHANGED <<seen, underflows, runtime>>
    BY <1>5 DEF Cas
  <2>2. TypeOK' /\ ReadBelowCeiling'
    BY <1>1, <1>2, <2>1 DEF MissingInv, TypeOK, ReadBelowCeiling
  <2>3. Unnoticed' <=> Unnoticed
    BY <1>1, <2>1 DEF Unnoticed
  <2>4. t \notin Holders /\ Holders' = Holders \cup {t}
    BY <1>1, <2>1 DEF Holders
  <2>5. Cardinality(Holders') = Cardinality(Holders) + 1 /\ Cardinality(Holders) \in Nat
        /\ Cardinality(spent) \in Nat
    BY <1>1, <2>4, HoldersFinite, SpentFinite, FS_AddElement
  <2>6. count < Ceiling /\ count' = count + 1 /\ count \in Nat /\ count < STOP_BIT
    BY <1>1, <1>5, <2>1, RundownAssumption
    DEF MissingInv, ReadBelowCeiling, Plus1, Word, STOP_BIT
  <2>7. QED
    BY <1>1, <2>2, <2>3, <2>5, <2>6, RundownAssumption DEF MissingInv, Stopped, STOP_BIT
<1>6. QED
  BY <1>3, <1>4, <1>5

LEMMA MissingStopper ==
  ASSUME MissingInv, StopperStep
  PROVE  MissingInv'
<1>1. UNCHANGED <<pc, seen, underflows, spent>> /\ Holders' = Holders
      /\ (Unnoticed' <=> Unnoticed)
  BY DEF StopperStep, BeginTeardown, ShRundownBeginStop, PollDrained, PollAgain,
         PollTimeout, thread, Holders, Unnoticed
<1>2. ReadBelowCeiling'
  BY <1>1 DEF MissingInv, ReadBelowCeiling
<1>3. CASE BeginTeardown \/ PollDrained \/ PollAgain \/ PollTimeout
  <2>1. count' = count /\ (Stopped' <=> Stopped)
    BY <1>3 DEF BeginTeardown, PollDrained, PollAgain, PollTimeout, Stopped
  <2>2. TypeOK'
    BY <1>1, <1>3, RundownAssumption
    DEF BeginTeardown, PollDrained, PollAgain, PollTimeout, MissingInv, TypeOK
  <2>3. QED
    BY <1>1, <1>2, <2>1, <2>2 DEF MissingInv
<1>4. CASE ShRundownBeginStop
  <2>1. count' = OrStopBit(count) /\ stopper' = "poll" /\ UNCHANGED <<runtime, polls>>
        /\ Stopped' /\ count \in Word
    BY <1>4 DEF ShRundownBeginStop, Stopped, MissingInv, TypeOK
  <2>2. count' \in Word
    BY <2>1, RundownAssumption DEF OrStopBit, Negative, Word, STOP_BIT
  <2>3. TypeOK'
    BY <1>1, <2>1, <2>2 DEF MissingInv, TypeOK
  <2>4. Cardinality(Holders) \in Nat /\ Cardinality(spent) \in Nat /\ count \in Nat
        /\ STOP_BIT \in Nat /\ Ceiling < STOP_BIT
    BY <2>1, HoldersFinite, SpentFinite, RundownAssumption DEF MissingInv, TypeOK, Word, STOP_BIT
  <2>5. Unnoticed => (Negative(count) <=> Stopped)
    BY <2>4, RundownAssumption DEF MissingInv, Negative
  <2>6. QED
    BY <1>1, <1>2, <2>1, <2>3, <2>4, <2>5 DEF MissingInv, OrStopBit
<1>5. QED
  BY <1>3, <1>4 DEF StopperStep

LEMMA MissingNext == MissingInv /\ [Next]_vars => MissingInv'
<1> SUFFICES ASSUME MissingInv, [Next]_vars PROVE MissingInv'
  OBVIOUS
<1>1. CASE UNCHANGED vars
  BY <1>1 DEF vars, thread, MissingInv, TypeOK, ReadBelowCeiling, Unnoticed, Stopped, Holders
<1>2. QED
  BY <1>1, MissingStopper, MissingSub, MissingThread DEF Next, ThreadStep

\* For any threads, of which any may release what they do not hold, any ceiling and any number
\* of retries: by the time everybody has left, an unpaired release has been reported.  The
\* threads in rundown.c that report are those whose decrement finds nothing to take.
THEOREM UnderflowsAreReported == Spec => []UnpairedIsReported
<1>1. MissingInv => UnpairedIsReported
  <2> SUFFICES ASSUME MissingInv, spent # {}, Holders = {}, ~(underflows > 0),
                      \A t \in Threads : pc[t] \notin {"rollback", "report"}
               PROVE  FALSE
    BY DEF UnpairedIsReported
  <2>1. Unnoticed /\ spent \subseteq Rogues /\ count \in Nat
    BY DEF Unnoticed, MissingInv, TypeOK, Word
  <2>2. Cardinality(Holders) = 0 /\ Cardinality(spent) \in Nat \ {0}
    BY <2>1, SpentFinite, FS_EmptySet
  <2>3. QED
    BY <2>1, <2>2, RundownAssumption DEF MissingInv, STOP_BIT
<1>2. QED
  BY <1>1, MissingStarts, MissingNext, PTL DEF Spec

-----------------------------------------------------------------------------
(***************************************************************************)
(* Injection.                                                              *)
(***************************************************************************)
\* The handles and the pools that there are at each phase.
Assets ==
  /\ phase \in {"init", "failed", "inited", "quiet", "refused", "destroyed"}
  /\ phase \in {"init", "failed"} => handles = {} /\ Holders = {} /\ stopper = "running"
  /\ phase = "init" => kernel = {}
  /\ phase \in {"inited", "refused"} =>
       kernel \subseteq handles /\ pools = AllPools /\ handles \subseteq Versions
  /\ phase \in {"quiet", "destroyed"} => kernel = {} /\ stopper = "drained"
  /\ phase = "failed" => kernel \subseteq lost
  /\ stopper # "drained" /\ phase \notin {"init", "failed"} =>
       handles = Versions /\ kernel = Versions /\ pools = AllPools

InjectInv == IInv /\ Assets

LEMMA InjectSafety == InjectInv => InjectionSafe
<1> SUFFICES ASSUME InjectInv PROVE InjectionSafe
  OBVIOUS
<1>1. ASSUME Holders # {} PROVE handles = Versions /\ kernel = Versions /\ pools = AllPools
  BY <1>1 DEF InjectInv, IInv, Assets
<1>2. kernel \subseteq handles \cup lost
  BY DEF InjectInv, Assets
<1>3. phase # "init" /\ pools # AllPools => kernel \subseteq lost
  BY DEF InjectInv, Assets
<1>4. QED
  BY <1>1, <1>2, <1>3 DEF InjectionSafe

LEMMA InjectStarts == InjectInit => InjectInv
<1> SUFFICES ASSUME InjectInit PROVE InjectInv
  OBVIOUS
<1>1. IInv
  BY InitIsGood DEF InjectInit
<1>2. Holders = {}
  BY DEF InjectInit, Init, Holders
<1>3. Assets
  BY <1>2 DEF Assets, InjectInit, Init
<1>4. QED
  BY <1>1, <1>3 DEF InjectInv

\* A destruction that leaves the handle unaccounted for blocks the unload and nothing else
\* of the rundown.
LEMMA LeakKeepsRundown ==
  ASSUME IInv, HandleLeaked
  PROVE  IInv' /\ Holders' = Holders /\ UNCHANGED <<stopper, pc>>
  BY DEF HandleLeaked, thread, IInv, TypeOK, CountConserved, Holders, Stopped,
         ReadBelowCeiling, Paired

\* A thread of the contract.
LEMMA InjectorKeeps ==
  ASSUME Rogues = {}, InjectInv, InjectorStep
  PROVE  /\ InjectInv' /\ UNCHANGED <<stopper, injectVars>>
         /\ \/ Holders' = Holders
            \/ \E t \in Threads : ~Stopped /\ t \notin Holders /\ Holders' = Holders \cup {t}
            \/ \E t \in Threads : t \in Holders /\ Holders' = Holders \ {t}
<1>1. PICK t \in Threads : ThreadStep(t)
  BY DEF InjectorStep
<1>2. UNCHANGED injectVars /\ phase \notin {"init", "failed"}
  BY DEF InjectorStep, Injecting
<1>3. Read(t) \/ Cas(t) \/ Release(t)
  BY <1>1, PairedStep DEF InjectInv
<1>4. UNCHANGED stopper
  BY <1>3 DEF Read, Cas, Release, Sub
<1>5. IInv'
  BY <1>3, ReadStep, CasStep, ReleaseStep DEF InjectInv
<1>6. Assets'
  BY <1>2, <1>4 DEF injectVars, InjectInv, Assets
<1>7. QED
  BY <1>2, <1>3, <1>4, <1>5, <1>6, ReadStep, CasStep, ReleaseStep DEF InjectInv

\* The stop and the drain of the gate.
LEMMA DrainKeeps ==
  ASSUME InjectInv, GateStopAndDrain
  PROVE  InjectInv' /\ Holders' = Holders
<1>1. IInv' /\ Holders' = Holders /\ UNCHANGED injectVars /\ phase = "inited"
      /\ (stopper = "drained" => stopper' = "drained")
  BY StopperKeeps DEF InjectInv, GateStopAndDrain
<1>2. Assets'
  BY <1>1 DEF injectVars, InjectInv, Assets
<1>3. QED
  BY <1>1, <1>2 DEF InjectInv

\* The rest leaves the rundown alone but for the state of the runtime.
LEMMA MainKeeps ==
  ASSUME InjectInv,
         \/ SkInjectInit \/ HandleDestroyed \/ HandleBusy \/ HandleLeaked \/ DrainRefused
         \/ Quiesced \/ SkInjectDestroy \/ UNCHANGED allVars
  PROVE  InjectInv' /\ Holders' = Holders /\ UNCHANGED <<stopper, pc>>
<1>1. CASE HandleLeaked
  <2>1. IInv' /\ Holders' = Holders /\ UNCHANGED <<stopper, pc>>
    BY <1>1, LeakKeepsRundown DEF InjectInv
  <2>2. Assets'
    BY <1>1, <2>1 DEF HandleLeaked, Destroying, InjectInv, Assets
  <2>3. QED
    BY <2>1, <2>2 DEF InjectInv
<1>2. CASE \/ SkInjectInit \/ HandleDestroyed \/ HandleBusy \/ DrainRefused
           \/ Quiesced \/ SkInjectDestroy \/ UNCHANGED allVars
  <2>1. UNCHANGED vars
    BY <1>2 DEF SkInjectInit, HandleDestroyed, HandleBusy, DrainRefused, Quiesced,
                SkInjectDestroy, allVars
  <2>2. IInv' /\ Holders' = Holders /\ UNCHANGED <<stopper, pc>>
    BY <2>1 DEF InjectInv, vars, thread, IInv, TypeOK, CountConserved, Holders, Stopped,
                ReadBelowCeiling, Paired
  <2>3. Assets'
    <3>1. CASE SkInjectInit
      BY <2>2, <3>1 DEF SkInjectInit, InjectInv, Assets, Versions
    <3>2. CASE HandleDestroyed
      BY <2>2, <3>2 DEF HandleDestroyed, Destroying, InjectInv, Assets
    <3>3. CASE HandleBusy \/ DrainRefused \/ UNCHANGED allVars
      BY <2>2, <3>3 DEF HandleBusy, Destroying, DrainRefused, allVars, injectVars, InjectInv,
                        Assets
    <3>4. CASE Quiesced \/ SkInjectDestroy
      BY <2>2, <3>4 DEF Quiesced, SkInjectDestroy, InjectInv, IInv, Assets
    <3>5. QED
      BY <1>2, <3>1, <3>2, <3>3, <3>4
  <2>4. QED
    BY <2>2, <2>3 DEF InjectInv
<1>3. QED
  BY <1>1, <1>2

LEMMA InjectKeeps == Rogues = {} /\ InjectInv /\ [InjectNext]_allVars => InjectInv'
  BY InjectorKeeps, DrainKeeps, MainKeeps DEF InjectNext, Ended

-----------------------------------------------------------------------------
\* Whoever is between ShInjectionBegin and ShInjectionEnd has its handles and pools, no
\* handle outlives its global but one that a rollback forgot, and the pools go last.
THEOREM InjectionIsSafe ==
  ASSUME Rogues = {}
  PROVE  InjectFairSpec => []InjectionSafe
  BY InjectStarts, InjectKeeps, InjectSafety, PTL DEF InjectFairSpec

\* The count of the injections stays exact through the destruction of the handles.
THEOREM InjectionCount ==
  ASSUME Rogues = {}
  PROVE  InjectFairSpec => []CountConserved
<1>1. InjectInv => CountConserved
  BY DEF InjectInv, IInv
<1>2. QED
  BY <1>1, InjectStarts, InjectKeeps, PTL DEF InjectFairSpec

\* After ShInjectionGateStop no ShInjectionBegin succeeds.
THEOREM LateInjectionFails ==
  ASSUME Rogues = {}
  PROVE  InjectFairSpec => LateAcquireFails
<1>1. ASSUME InjectInv, [InjectNext]_allVars
      PROVE  [Stopped => \A t \in Threads : pc'[t] = "held" => pc[t] = "held"]_vars
  <2>1. (\A t \in Threads : pc'[t] = "held" <=> t \in Holders')
        /\ (\A t \in Threads : pc[t] = "held" <=> t \in Holders)
    BY DEF Holders
  <2>2. Stopped => Holders' \subseteq Holders
    BY <1>1, InjectorKeeps, DrainKeeps, MainKeeps DEF InjectNext, Ended
  <2>3. QED
    BY <2>1, <2>2
<1>2. QED
  BY <1>1, InjectStarts, InjectKeeps, PTL DEF InjectFairSpec, LateAcquireFails

\* The injection gate is the gate of module Gate, with the subsystem around it.
THEOREM InjectionIsGated ==
  ASSUME Rogues = {}
  PROVE  InjectFairSpec => ImplementsGate
<1>1. InjectInit => GateSpec!Init
  BY DEF InjectInit, Init, GateSpec!Init, Stopped, Holders
<1>2. ASSUME InjectInv, [InjectNext]_allVars PROVE [GateSpec!Next]_(GateSpec!vars)
  <2>1. CASE InjectorStep \/ GateStopAndDrain
    <3>1. [Next]_vars
      BY <2>1 DEF InjectorStep, GateStopAndDrain, Next
    <3>2. QED
      BY <1>2, <3>1, GateStep DEF InjectInv
  <2>2. CASE ~(InjectorStep \/ GateStopAndDrain)
    BY <1>2, <2>2, MainKeeps DEF InjectNext, Ended, GateSpec!vars, Stopped
  <2>3. QED
    BY <2>1, <2>2
<1>3. QED
  BY <1>1, <1>2, InjectStarts, InjectKeeps, PTL
  DEF InjectFairSpec, ImplementsGate, GateSpec!Spec
=============================================================================
