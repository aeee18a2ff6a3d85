-------------------------- MODULE ControlLifecycle --------------------------
(***************************************************************************)
(* The control plane as the driver starts, quiesces and destroys it        *)
(* (runtime/lifecycle.c, ShRuntimeRunUnload), with users, the consumer     *)
(* thread and a BFE callback beside the main thread.  Lifecycle.tla has    *)
(* SkControlInit and SkControlQuiesce as one step each and the order of    *)
(* all subsystems; here what the other subsystems do is one step.          *)
(***************************************************************************)
EXTENDS Control

Callback == "callback"   \* a BFE callback, which records what its own rollback meets

Causes == {"WORKER_THREAD_DRAIN", "HANDLE_CONTEXTS_OPEN", "OTHER_SUBSYSTEM", "RUNDOWN_STUCK",
           "ENGINE_CLOSE"}

ASSUME CallbackAssumption == Recorders = {Main, Callback} /\ None \notin Causes

VARIABLES
  phase,      \* where the main thread is outside the calls
  ok,         \* its local
  started,    \* SK_STEP_CONTROL
  quiet,      \* history: SkControlQuiesce has returned TRUE
  callback    \* the BFE callback: "idle", "recording", "done"

locals == <<phase, ok, started, quiet, callback>>
vars == <<runtimeVars, caller, controlVars, locals>>

Init ==
  /\ RuntimeInit /\ ControlInit
  /\ phase = "start" /\ ok = TRUE /\ started = FALSE /\ quiet = FALSE /\ callback = "idle"

Call(where) == main' = where /\ UNCHANGED result

-----------------------------------------------------------------------------
(***************************************************************************)
(* SkLifecycleStart and SkLifecycleQuiesce.                                *)
(***************************************************************************)
\* The rule store and the event queue have been started, or one of them has failed.
StartEarlier ==
  /\ phase = "start"
  /\ \/ phase' = "control" /\ Call("control.init")
     \/ phase' = "rollback" /\ UNCHANGED caller
  /\ UNCHANGED <<runtimeVars, controlVars, ok, started, quiet, callback>>

\* What follows the control plane may fail as well; else the driver becomes active.
ControlStarted ==
  /\ phase = "control" /\ main = "idle"
  /\ started' = result
  /\ phase' \in IF result THEN {"activate", "rollback"} ELSE {"rollback"}
  /\ UNCHANGED <<runtimeVars, caller, controlVars, ok, quiet, callback>>

Activate ==
  /\ phase = "activate"
  /\ ShRuntimeActivate
  /\ phase' = "run"
  /\ UNCHANGED <<blockVars, caller, controlVars, ok, started, quiet, callback>>

BeginUnload ==
  /\ phase = "run"
  /\ ShRuntimeBeginTeardown
  /\ phase' = "quiesce" /\ Call("control.quiesce")
  /\ UNCHANGED <<blockVars, controlVars, ok, started, quiet, callback>>

\* The other subsystems quiesce, after the control plane in an unload and mostly before it
\* in a rollback: all are quiet, or one has recorded why not.
OthersQuiet ==
  \/ callback # "recording" /\ UNCHANGED <<ok, blockVars>>
  \/ /\ ok' = FALSE
     /\ IF gBlockReason = None THEN RecordBlock(Main, "OTHER_SUBSYSTEM")
                               ELSE UNCHANGED blockVars

QuiesceOthers ==
  /\ phase = "others"
  /\ OthersQuiet
  /\ phase' = "decide"
  /\ UNCHANGED <<gState, caller, controlVars, started, quiet, callback>>

RollBackOthers ==
  /\ phase = "rollback"
  /\ OthersQuiet
  /\ phase' = "rollbackControl"
  /\ UNCHANGED <<gState, caller, controlVars, started, quiet, callback>>

RollBackControl ==
  /\ phase = "rollbackControl" /\ ~Recording(Main)
  /\ IF started THEN Call("control.quiesce") /\ phase' = "quiesce"
                ELSE phase' = "decide" /\ UNCHANGED caller
  /\ UNCHANGED <<runtimeVars, controlVars, ok, started, quiet, callback>>

\* SkControlQuiesce has returned; an unload goes on with the other subsystems, a rollback
\* has dealt with them before.
ControlQuiesced ==
  /\ phase = "quiesce" /\ main = "idle"
  /\ ok' = (ok /\ result) /\ quiet' = result
  /\ phase' = IF gState = "TEARDOWN" THEN "others" ELSE "decide"
  /\ UNCHANGED <<runtimeVars, caller, controlVars, started, callback>>

-----------------------------------------------------------------------------
(***************************************************************************)
(* The decision, the destruction, and ShRuntimeEnterUnloadBlocked.         *)
(***************************************************************************)
\* Every step that failed has recorded a cause, so that of ShRuntimeRunUnload is not
\* needed; the BFE callback may have recorded one without failing any.
Decide ==
  /\ phase = "decide" /\ ~Recording(Main)
  /\ IF ok
       THEN ShRuntimeEnterQuiescent /\ phase' = "destroy" /\ UNCHANGED blockVars
       ELSE /\ RecordBlock(Main, gBlockReason)
            /\ phase' = "blocking" /\ UNCHANGED gState
  /\ UNCHANGED <<caller, controlVars, ok, started, quiet, callback>>

\* The record comes before the state.
EnterUnloadBlocked ==
  /\ phase = "blocking" /\ ~Recording(Main)
  /\ gState' = "UNLOAD_BLOCKED" /\ phase' = "parked"
  /\ UNCHANGED <<blockVars, caller, controlVars, ok, started, quiet, callback>>

\* The rule store goes before the device, unless a reader keeps it.
DestroyOthers ==
  /\ phase = "destroy" /\ DestroyAllowed
  /\ \/ phase' = "destroyDevice" /\ UNCHANGED blockVars
     \/ RecordBlock(Main, "RUNDOWN_STUCK") /\ phase' = "blocking"
  /\ UNCHANGED <<gState, caller, controlVars, ok, started, quiet, callback>>

\* SkControlDestroy, or the device alone when the control plane was never started.  The
\* driver's code is unloaded after it.
DestroyDevice ==
  /\ phase = "destroyDevice"
  /\ DeleteDevice
  /\ started' = FALSE
  /\ phase' = "unloaded"
  /\ UNCHANGED <<runtimeVars, caller, ok, quiet, callback>>

-----------------------------------------------------------------------------
(***************************************************************************)
(* The threads beside the main thread.                                     *)
(***************************************************************************)
\* A callback that found the runtime active goes on into the teardown, until it is waited
\* for; its installation may fail, and the rollback of that leave an engine that will not
\* close (wfp_manager.c).  Before the teardown it would be alone to record.
CallbackRecords ==
  /\ callback = "idle" /\ gState = "TEARDOWN" /\ phase \in {"quiesce", "others"}
  /\ RecordBlock(Callback, "ENGINE_CLOSE")
  /\ callback' = "recording"
  /\ UNCHANGED <<gState, caller, controlVars, phase, ok, started, quiet>>

CallbackEnds ==
  /\ callback = "recording" /\ ~Recording(Callback)
  /\ callback' = "done"
  /\ UNCHANGED <<runtimeVars, caller, controlVars, phase, ok, started, quiet>>

MainStep ==
  \/ StartEarlier \/ ControlStarted \/ Activate \/ QuiesceOthers \/ RollBackOthers
  \/ RollBackControl \/ ControlQuiesced \/ Decide \/ EnterUnloadBlocked
  \/ DestroyOthers \/ DestroyDevice

StepOfCall == ControlCall /\ UNCHANGED locals
StepOfFailure == JoinFails /\ UNCHANGED locals

StepOfFence ==
  /\ CreatorStep \/ FenceStep
  /\ UNCHANGED <<runtimeVars, caller, lifetime, gateOpen, stopFlag, wakeup, handle, wdfQueue,
                 consumerVars, users, locals>>

StepOfConsumer == ConsumerStep /\ UNCHANGED locals
StepOfFramework == SkIoctlEvtQueueReady /\ UNCHANGED locals
StepOfUser == UserStep /\ UNCHANGED locals
StepOfRecord == (\E t \in Recorders : RecordStep(t)) /\ UNCHANGED <<controlVars, locals>>

\* The driver is unloaded, or stays for ever.
Ended == phase \in {"unloaded", "parked"} /\ UNCHANGED vars

Next ==
  \/ MainStep \/ BeginUnload \/ StepOfCall \/ StepOfFailure \/ StepOfFence
  \/ StepOfConsumer \/ StepOfFramework \/ StepOfUser \/ StepOfRecord
  \/ CallbackRecords \/ CallbackEnds \/ Ended

Spec == Init /\ [][Next]_vars

\* Threads that are ready run, and the framework announces what it owes; users, the beginning
\* of an unload and a failure of the wait for the thread are free.
Fairness ==
  /\ WF_vars(MainStep) /\ WF_vars(StepOfCall) /\ WF_vars(StepOfFence)
  /\ WF_vars(StepOfConsumer) /\ WF_vars(StepOfFramework) /\ WF_vars(StepOfRecord)
  /\ WF_vars(CallbackEnds)

FairSpec == Spec /\ Fairness

-----------------------------------------------------------------------------
(***************************************************************************)
(* Properties.                                                             *)
(***************************************************************************)
\* The types of the globals of ioctl.c and runtime.c and of the main thread's locals.
TypeOK ==
  /\ RuntimeTypeOK /\ ControlTypeOK
  /\ phase \in {"start", "control", "activate", "run", "quiesce", "others", "rollback",
                "rollbackControl", "decide", "blocking", "parked", "destroy", "destroyDevice",
                "unloaded"}
  /\ {ok, started, quiet} \subseteq BOOLEAN
  /\ callback \in {"idle", "recording", "done"}

\* "No dispatch outlives it": once SkControlQuiesce has returned TRUE, and whenever the
\* device is gone, the consumer has exited, no request waits and none will be queued.
QuiescedIsQuiet ==
  quiet \/ ~present =>
    /\ thread \in {"none", "dead"} /\ consumer = "none"
    /\ queue = <<>> /\ ~gateOpen /\ (accepting => ~present)
    /\ \A q \in Requests : requests[q].at \in {"new", "done"}

\* The deletion of the device meets no counted handle "by construction": "no handle
\* context was ever counted" without the control plane, and with it SkControlQuiesce
\* "already proved thread/requests/handles stopped".
\* A claim that the code does not keep: README, section 4.
DeviceDeletedUnopened == [][present /\ ~present' => HandlesOpen = 0]_vars

\* A queued request is completed: by the consumer, by the purge or with the device; or the
\* driver stays resident without having quiesced the control plane.  And every call of the
\* control plane returns, the wait of the quiesce for the consumer included.
QueuedIsAnswered ==
  /\ \A q \in Requests :
       requests[q].at = "queued" ~>
         requests[q].at = "done" \/ (phase = "parked" /\ ~quiet)
  /\ main # "idle" ~> main = "idle"
=============================================================================
