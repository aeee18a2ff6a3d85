------------------------------ MODULE Rundown ------------------------------
(***************************************************************************)
(* The rundown of runtime/rundown.c: one LONG that counts the holders of a *)
(* resource and carries, in its top bit, the order to let nobody else in.  *)
(* Threads acquire and release it; one stopping thread sets the stop bit   *)
(* in a teardown and polls until the holders have left or its retries are  *)
(* used up.                                                                *)
(*                                                                         *)
(* A step is one atomic access to the LONG.  The LONG is an unsigned word  *)
(* here, 0 .. 4 * Ceiling - 1, and wraps as the atomic instructions do.    *)
(***************************************************************************)
EXTENDS Integers, FiniteSets

CONSTANTS
  Threads,
  Rogues,   \* threads that call ShRundownRelease once without having acquired
  Ceiling,  \* 0x40000000 in the code
  Retries   \* retries of ShRundownDrain

ASSUME RundownAssumption ==
  /\ IsFiniteSet(Threads)
  /\ Rogues \subseteq Threads
  /\ Ceiling \in Nat \ {0}
  /\ Retries \in Nat

STOP_BIT == 2 * Ceiling
Word == 0 .. (2 * STOP_BIT - 1)

Negative(c) == c >= STOP_BIT
Plus1(c) == IF c = 2 * STOP_BIT - 1 THEN 0 ELSE c + 1
Minus1(c) == IF c = 0 THEN 2 * STOP_BIT - 1 ELSE c - 1
OrStopBit(c) == IF Negative(c) THEN c ELSE c + STOP_BIT

VARIABLES
  count,
  underflows,
  runtime,   \* g_State of runtime.c
  pc,        \* control point of each thread
  seen,      \* c of each thread in ShRundownAcquire
  stopper,   \* control point of the stopping thread
  polls,     \* i of ShRundownDrain
  spent      \* the rogues that have done it

thread == <<pc, seen>>
vars == <<count, underflows, runtime, thread, stopper, polls, spent>>

Init ==
  /\ count = 0
  /\ underflows = 0
  /\ runtime = "Active"
  /\ pc = [t \in Threads |-> "idle"]
  /\ seen = [t \in Threads |-> 0]
  /\ stopper = "running"
  /\ polls = 0
  /\ spent = {}

Goto(t, label) == pc' = [pc EXCEPT ![t] = label]

-----------------------------------------------------------------------------
(***************************************************************************)
(* ShRundownAcquire.                                                       *)
(***************************************************************************)
\* Mutant: only the ceiling is checked, on the signed value.
RefusedAtCeiling(c) == ~Negative(c) /\ c >= Ceiling
Refused(c) == Negative(c) \/ c >= Ceiling

\* Reads the LONG, at the start or after a lost CAS.
Read(t) ==
  /\ pc[t] \in {"idle", "retry"}
  /\ IF Refused(count)
       THEN Goto(t, "idle") /\ UNCHANGED seen
       ELSE Goto(t, "cas") /\ seen' = [seen EXCEPT ![t] = count]
  /\ UNCHANGED <<count, underflows, runtime, stopper, polls, spent>>

\* Mutant: the count is incremented whatever became of it since it was read.
BlindIncrement(t) ==
  /\ pc[t] = "cas"
  /\ Goto(t, "held")
  /\ count' = Plus1(count)
  /\ UNCHANGED <<seen, underflows, runtime, stopper, polls, spent>>

\* Mutant: read and written in two steps.
LostIncrement(t) ==
  /\ pc[t] = "cas"
  /\ Goto(t, "held")
  /\ count' = Plus1(seen[t])
  /\ UNCHANGED <<seen, underflows, runtime, stopper, polls, spent>>

Cas(t) ==
  /\ pc[t] = "cas"
  /\ IF count = seen[t]
       THEN Goto(t, "held") /\ count' = Plus1(count)
       ELSE Goto(t, "retry") /\ UNCHANGED count
  /\ UNCHANGED <<seen, underflows, runtime, stopper, polls, spent>>

-----------------------------------------------------------------------------
(***************************************************************************)
(* ShRundownRelease.                                                       *)
(***************************************************************************)
\* Mutant: an underflow of a running rundown goes unnoticed.
SubNoticesStopped(t) ==
  /\ count' = Minus1(count)
  /\ Goto(t, IF count = STOP_BIT THEN "rollback" ELSE "idle")
  /\ UNCHANGED <<seen, underflows, runtime, stopper, polls>>

\* The decrement, and whether it underflowed.
Sub(t) ==
  /\ count' = Minus1(count)
  /\ Goto(t, IF count \in {0, STOP_BIT} THEN "rollback" ELSE "idle")
  /\ UNCHANGED <<seen, underflows, runtime, stopper, polls>>

Release(t) == pc[t] = "held" /\ Sub(t) /\ UNCHANGED spent

\* A release that pairs no acquire, once per rogue thread.
UnpairedRelease(t) ==
  /\ t \in Rogues \ spent
  /\ spent' = spent \cup {t}
  /\ pc[t] = "idle"
  /\ Sub(t)

RollBack(t) ==
  /\ pc[t] = "rollback"
  /\ count' = Plus1(count)
  /\ Goto(t, "report")
  /\ UNCHANGED <<seen, underflows, runtime, stopper, polls, spent>>

ShRuntimeReportUnderflow(t) ==
  /\ pc[t] = "report"
  /\ underflows' = underflows + 1
  /\ runtime' = IF runtime = "Teardown" THEN "UnloadBlocked" ELSE runtime
  /\ Goto(t, "idle")
  /\ UNCHANGED <<count, seen, stopper, polls, spent>>

-----------------------------------------------------------------------------
(***************************************************************************)
(* The stopping thread: teardown, ShRundownBeginStop, ShRundownDrain.      *)
(***************************************************************************)
BeginTeardown ==
  /\ stopper = "running"
  /\ runtime' = "Teardown"
  /\ stopper' = "teardown"
  /\ UNCHANGED <<count, underflows, thread, polls, spent>>

\* The stop bit is or'ed in; the code may do so again while it drains.
ShRundownBeginStop ==
  /\ stopper \in {"teardown", "poll"}
  /\ count' = OrStopBit(count)
  /\ stopper' = "poll"
  /\ UNCHANGED <<underflows, runtime, thread, polls, spent>>

PollDrained ==
  /\ stopper = "poll"
  /\ count = STOP_BIT
  /\ stopper' = "drained"
  /\ UNCHANGED <<count, underflows, runtime, thread, polls, spent>>

PollAgain ==
  /\ stopper = "poll"
  /\ count # STOP_BIT
  /\ polls < Retries
  /\ polls' = polls + 1
  /\ UNCHANGED <<count, underflows, runtime, thread, stopper, spent>>

\* Mutant: the last retry sleeps and gives up without another look.
GiveUpUnseen ==
  /\ stopper = "poll"
  /\ polls >= Retries
  /\ stopper' = "timeout"
  /\ runtime' = "UnloadBlocked"
  /\ UNCHANGED <<count, underflows, thread, polls, spent>>

\* SHINKEN_STATUS_TIMEOUT, on which every caller blocks the unload.
PollTimeout ==
  /\ stopper = "poll"
  /\ count # STOP_BIT
  /\ polls >= Retries
  /\ stopper' = "timeout"
  /\ runtime' = "UnloadBlocked"
  /\ UNCHANGED <<count, underflows, thread, polls, spent>>

-----------------------------------------------------------------------------
ThreadStep(t) ==
  \/ Read(t) \/ Cas(t)
  \/ Release(t) \/ UnpairedRelease(t) \/ RollBack(t) \/ ShRuntimeReportUnderflow(t)

StopperStep ==
  \/ BeginTeardown \/ ShRundownBeginStop
  \/ PollDrained \/ PollAgain \/ PollTimeout

Next == StopperStep \/ \E t \in Threads : ThreadStep(t)

Spec == Init /\ [][Next]_vars

\* A thread inside Acquire or Release, and a drain, go on; a holder may stay for
\* ever ("Permanently stuck holder").
Fairness ==
  /\ \A t \in Threads : /\ WF_vars(pc[t] = "retry" /\ Read(t))
                        /\ WF_vars(Cas(t))
                        /\ WF_vars(RollBack(t) \/ ShRuntimeReportUnderflow(t))
  /\ WF_vars(PollDrained \/ PollAgain \/ PollTimeout)

FairSpec == Spec /\ Fairness

-----------------------------------------------------------------------------
(***************************************************************************)
(* Properties.                                                             *)
(***************************************************************************)
Holders == {t \in Threads : pc[t] = "held"}
Stopped == stopper \in {"poll", "drained", "timeout"}

\* The types; the word never leaves its width (rundown.h, SHINKEN_RUNDOWN).
TypeOK ==
  /\ count \in Word
  /\ underflows \in Nat
  /\ runtime \in {"Active", "Teardown", "UnloadBlocked"}
  /\ pc \in [Threads -> {"idle", "cas", "retry", "held", "rollback", "report"}]
  /\ seen \in [Threads -> Word]
  /\ stopper \in {"running", "teardown", "poll", "drained", "timeout"}
  /\ polls \in 0 .. Retries
  /\ spent \subseteq Rogues

\* "Count conserved": the LONG is the number of holders and the stop bit, neither
\* disturbed by the other, whatever CAS was lost and whoever ran into the ceiling.
CountConserved ==
  count = Cardinality(Holders) + (IF Stopped THEN STOP_BIT ELSE 0)

\* A drain that reported success: nobody uses what the rundown protects, and with
\* the stop bit set nobody ever will, so that it can be destroyed.
DrainedIsUnused == stopper = "drained" => Holders = {} /\ Negative(count)

\* "Once set, every concurrent/later Acquire must fail."
LateAcquireFails ==
  [][Stopped => \A t \in Threads : pc'[t] = "held" => pc[t] = "held"]_vars

\* "WaitDrained cannot miss a wakeup": once the last holder has gone, the drain
\* succeeds, even if it was on its last retry.
NoLostWakeup == (stopper = "poll" /\ Holders = {}) ~> stopper = "drained"

\* "Release never underflows" unnoticed: by the time everybody has left, an unpaired
\* release has been reported, by whoever ran into the missing reference.
UnpairedIsReported ==
  spent # {} /\ Holders = {} /\ (\A t \in Threads : pc[t] \notin {"rollback", "report"})
    => underflows > 0

\* The rundown is the gate of module Gate.
GateSpec == INSTANCE Gate WITH
  stopped <- Stopped, inside <- Holders, drained <- (stopper = "drained")
ImplementsGate == GateSpec!Spec
=============================================================================
