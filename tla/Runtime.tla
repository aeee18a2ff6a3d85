------------------------------ MODULE Runtime ------------------------------
(***************************************************************************)
(* The runtime state machine and the record of why an unload is refused    *)
(* (runtime/runtime.c): the first cause, and a history in the order in     *)
(* which the causes were counted.  Any thread may record a cause.          *)
(***************************************************************************)
EXTENDS Integers, Sequences

CONSTANTS
  Recorders,     \* threads that may call ShRuntimeRecordBlock
  HistoryCap,    \* SHINKEN_BLOCK_HISTORY_CAP
  None           \* ShinkenBlockNone

Main == "main"   \* the thread of DriverEntry, later of EvtDriverUnload

ASSUME RuntimeAssumption ==
  Main \in Recorders /\ HistoryCap \in Nat \ {0}

VARIABLES
  gState,
  gBlockReason,
  gBlockHistory,
  gBlockHistoryCount,
  rec,       \* where each thread is in ShRuntimeRecordBlock, its argument and its idx
  recorded,  \* history: the causes in the order of the atomic addition
  main,      \* where the main thread is inside a call of a subsystem, "idle" outside
  result     \* what its last call returned

caller == <<main, result>>
blockVars == <<gBlockReason, gBlockHistory, gBlockHistoryCount, rec, recorded>>
runtimeVars == <<gState, blockVars>>

Idle == [at |-> "idle", why |-> None, idx |-> 0]

RuntimeInit ==
  /\ gState = "UNINITIALIZED"
  /\ gBlockReason = None
  /\ gBlockHistory = [i \in 0 .. HistoryCap - 1 |-> None]
  /\ gBlockHistoryCount = 0
  /\ rec = [t \in Recorders |-> Idle]
  /\ recorded = <<>>
  /\ main = "idle" /\ result = TRUE

Return(value) == main' = "idle" /\ result' = value

IsActive == gState = "ACTIVE"
DestroyAllowed == gState \in {"QUIESCENT", "UNINITIALIZED"}

-----------------------------------------------------------------------------
(***************************************************************************)
(* ShRuntimeRecordBlock: an atomic addition, a store, a test and a store.  *)
(* The recording thread goes on when its rec is idle again.                *)
(***************************************************************************)
Recording(t) == rec[t].at # "idle"

\* Mutant: the index is taken after the addition.
CountFromOne(t, why) ==
  /\ rec' = [rec EXCEPT ![t] = [at |-> "store", why |-> why, idx |-> gBlockHistoryCount + 1]]
  /\ gBlockHistoryCount' = gBlockHistoryCount + 1
  /\ recorded' = Append(recorded, why)
  /\ UNCHANGED <<gBlockReason, gBlockHistory>>

RecordBlock(t, why) ==
  /\ rec' = [rec EXCEPT ![t] = [at |-> "store", why |-> why, idx |-> gBlockHistoryCount]]
  /\ gBlockHistoryCount' = gBlockHistoryCount + 1
  /\ recorded' = Append(recorded, why)
  /\ UNCHANGED <<gBlockReason, gBlockHistory>>

StoreCause(t) ==
  /\ rec[t].at = "store"
  /\ gBlockHistory' = IF rec[t].idx < HistoryCap
                        THEN [gBlockHistory EXCEPT ![rec[t].idx] = rec[t].why]
                        ELSE gBlockHistory
  /\ rec' = [rec EXCEPT ![t].at = "test"]
  /\ UNCHANGED <<gState, caller, gBlockReason, gBlockHistoryCount, recorded>>

\* The test that keeps the first cause; the store of another thread may come between.
TestCause(t) ==
  /\ rec[t].at = "test"
  /\ rec' = [rec EXCEPT ![t] = IF gBlockReason = None THEN [@ EXCEPT !.at = "first"] ELSE Idle]
  /\ UNCHANGED <<gState, caller, gBlockReason, gBlockHistory, gBlockHistoryCount, recorded>>

FirstCause(t) ==
  /\ rec[t].at = "first"
  /\ gBlockReason' = rec[t].why
  /\ rec' = [rec EXCEPT ![t] = Idle]
  /\ UNCHANGED <<gState, caller, gBlockHistory, gBlockHistoryCount, recorded>>

RecordStep(t) == StoreCause(t) \/ TestCause(t) \/ FirstCause(t)

-----------------------------------------------------------------------------
(***************************************************************************)
(* The transitions of the state.                                           *)
(***************************************************************************)
ShRuntimeActivate == gState' = IF gState = "UNINITIALIZED" THEN "ACTIVE" ELSE gState
ShRuntimeBeginTeardown == gState' = IF gState = "ACTIVE" THEN "TEARDOWN" ELSE gState
ShRuntimeEnterQuiescent == gState' = IF gState = "TEARDOWN" THEN "QUIESCENT" ELSE gState

RuntimeTypeOK ==
  /\ gState \in {"UNINITIALIZED", "ACTIVE", "TEARDOWN", "QUIESCENT", "UNLOAD_BLOCKED"}
  /\ \A t \in Recorders :
       rec[t].at \in {"idle", "store", "test", "first"} /\ rec[t].idx \in Nat
  /\ gBlockHistoryCount = Len(recorded)
  /\ result \in BOOLEAN
  /\ DOMAIN gBlockHistory = 0 .. HistoryCap - 1

\* "Later causes also kept in order (beyond capacity: counted only)": every slot of the
\* history that was given out holds the cause counted there, unless its thread has not
\* yet stored it; and the first cause is one that was recorded.
HistoryComplete ==
  /\ \A i \in 0 .. HistoryCap - 1 :
       IF i < gBlockHistoryCount
         THEN \/ gBlockHistory[i] = recorded[i + 1]
              \/ \E t \in Recorders : rec[t].at = "store" /\ rec[t].idx = i
         ELSE gBlockHistory[i] = None
  /\ gBlockReason # None => \E i \in DOMAIN recorded : recorded[i] = gBlockReason
  /\ gState = "UNLOAD_BLOCKED" => gBlockReason # None
=============================================================================
