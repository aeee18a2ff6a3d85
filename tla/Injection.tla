----------------------------- MODULE Injection -----------------------------
(***************************************************************************)
(* The injection subsystem (packet/injection.c, and its gate and tracked   *)
(* destruction in runtime/runtime.c) on top of its rundown: two injection  *)
(* handles and two packet pools, made by SkInjectInit, used by the threads *)
(* that have entered the rundown, and taken away by SkInjectQuiesce and    *)
(* SkInjectDestroy.  No code submits packets yet; the threads follow the   *)
(* contract in the header of injection.c.                                  *)
(***************************************************************************)
EXTENDS Rundown

CONSTANT BusyRetries    \* SK_INJECT_BUSY_RETRIES

ASSUME InjectionAssumption == BusyRetries \in Nat

Versions == {"v4", "v6"}
AllPools == {"nbl", "nb"}

VARIABLES
  phase,      \* the main thread: "init", "failed", "inited", "quiet", "refused", "destroyed"
  handles,    \* the versions with a g_InjectionHandle
  kernel,     \* the injection handles that exist in WFP
  lost,       \* history: handles forgotten by a rollback although they may exist
  track,      \* g_InjectionTrack[v].state
  attempt,    \* attempt of ShInjectionDestroyTracked
  pools

injectVars == <<phase, handles, kernel, lost, track, attempt, pools>>
allVars == <<vars, injectVars>>

InjectInit ==
  /\ Init
  /\ phase = "init"
  /\ handles = {} /\ kernel = {} /\ lost = {} /\ pools = {}
  /\ track = [v \in Versions |-> "uninitialized"]
  /\ attempt = 0

-----------------------------------------------------------------------------
(***************************************************************************)
(* SkInjectInit.                                                           *)
(***************************************************************************)
\* What has been created when each stage fails.
CreatedBefore == [v4 |-> {}, v6 |-> {"v4"}, nbl |-> Versions, nb |-> Versions]

\* The callouts that inject are installed later, so the call is one step.  The rollback of
\* a failed stage does not look at what InjectionHandleDestroy returns.
SkInjectInit ==
  /\ phase = "init"
  /\ \/ /\ phase' = "inited"
        /\ handles' = Versions /\ kernel' = Versions /\ pools' = AllPools
        /\ UNCHANGED lost
     \/ \E stage \in DOMAIN CreatedBefore : \E kept \in SUBSET CreatedBefore[stage] :
          /\ phase' = "failed"
          /\ kernel' = kept /\ lost' = kept
          /\ UNCHANGED <<handles, pools>>
  /\ UNCHANGED <<vars, track, attempt>>

\* ShInjectionBegin, the use of the handles, and ShInjectionEnd by the completion or a
\* failed submission.
Injecting == phase \notin {"init", "failed"}

InjectorStep ==
  /\ Injecting
  /\ \E t \in Threads : ThreadStep(t)
  /\ UNCHANGED injectVars

-----------------------------------------------------------------------------
(***************************************************************************)
(* SkInjectQuiesce with ShInjectionDestroyTracked, and SkInjectDestroy.    *)
(***************************************************************************)
\* Mutant: the handles are destroyed after a drain that timed out, whose status is positive.
GateStopAndDrainLoosely ==
  /\ phase = "inited"
  /\ \/ StopperStep
     \/ stopper = "poll" /\ polls >= Retries /\ stopper' = "drained"
        /\ UNCHANGED <<count, underflows, runtime, thread, polls, spent>>
  /\ UNCHANGED injectVars

\* ShInjectionGateStop and ShInjectionDrain.
GateStopAndDrain ==
  /\ phase = "inited"
  /\ StopperStep
  /\ UNCHANGED injectVars

NextHandle == IF "v4" \in handles THEN "v4" ELSE "v6"

Destroying == phase = "inited" /\ stopper = "drained" /\ handles # {}

HandleDestroyed ==
  /\ Destroying
  /\ kernel' = kernel \ {NextHandle} /\ handles' = handles \ {NextHandle}
  /\ track' = [track EXCEPT ![NextHandle] = "deleted"]
  /\ attempt' = 0
  /\ UNCHANGED <<vars, phase, lost, pools>>

HandleBusy ==
  /\ Destroying
  /\ attempt < BusyRetries
  /\ attempt' = attempt + 1
  /\ UNCHANGED <<vars, phase, handles, kernel, lost, track, pools>>

\* An unknown error, or busy for the last time: nobody knows whether the handle exists.
HandleLeaked ==
  /\ Destroying
  /\ kernel' \in {kernel, kernel \ {NextHandle}}
  /\ track' = [track EXCEPT ![NextHandle] = "leaked"]
  /\ phase' = "refused" /\ runtime' = "UnloadBlocked"
  /\ UNCHANGED <<count, underflows, thread, stopper, polls, spent, handles, attempt,
                 lost, pools>>

DrainRefused ==
  /\ phase = "inited" /\ stopper = "timeout"
  /\ phase' = "refused"
  /\ UNCHANGED <<vars, handles, kernel, lost, track, attempt, pools>>

Quiesced ==
  /\ phase = "inited" /\ stopper = "drained" /\ handles = {}
  /\ phase' = "quiet"
  /\ UNCHANGED <<vars, handles, kernel, lost, track, attempt, pools>>

SkInjectDestroy ==
  /\ phase = "quiet"
  /\ pools' = {} /\ phase' = "destroyed"
  /\ UNCHANGED <<vars, handles, kernel, lost, track, attempt>>

\* The initialisation has failed: nothing is left to run.
Ended == phase = "failed" /\ UNCHANGED allVars

InjectNext ==
  \/ SkInjectInit \/ InjectorStep \/ GateStopAndDrain
  \/ HandleDestroyed \/ HandleBusy \/ HandleLeaked \/ DrainRefused \/ Quiesced
  \/ SkInjectDestroy \/ Ended

InjectFairSpec == InjectInit /\ [][InjectNext]_allVars /\ Fairness

-----------------------------------------------------------------------------
(***************************************************************************)
(* Properties.                                                             *)
(***************************************************************************)
\* The types of the globals of injection.c.
InjectTypeOK ==
  /\ TypeOK
  /\ phase \in {"init", "failed", "inited", "quiet", "refused", "destroyed"}
  /\ {handles, kernel, lost} \subseteq SUBSET Versions
  /\ track \in [Versions -> {"uninitialized", "deleted", "leaked"}]
  /\ attempt \in 0 .. BusyRetries /\ pools \subseteq AllPools

\* "Begin after GateStop must fail; Begin before GateStop is always awaited by drain":
\* whoever is inside has both handles and both pools; no handle outlives its global but
\* one that a rollback forgot; pools are freed only when all handles are known to be gone.
InjectionSafe ==
  /\ Holders # {} => handles = Versions /\ kernel = Versions /\ pools = AllPools
  /\ kernel \subseteq handles \cup lost
  /\ phase # "init" /\ pools # AllPools => kernel \subseteq lost
=============================================================================
