----------------------------- MODULE Lifecycle -----------------------------
(***************************************************************************)
(* The life of the driver image: DriverEntry, SkLifecycleStart and its     *)
(* rollback, EvtDriverUnload with SkLifecycleQuiesce and                   *)
(* SkLifecycleDestroy, the runtime states they go through, and the BFE     *)
(* callback that runs beside them (runtime/lifecycle.c, runtime/runtime.c, *)
(* driver/driver.c), on top of the WFP manager.                            *)
(*                                                                         *)
(* The other subsystems are modelled in modules of their own; here each    *)
(* is started, quiesced and destroyed, or fails to be.                     *)
(***************************************************************************)
EXTENDS WfpManager, Sequences

CONSTANTS
  MaxTransitions   \* changes of the BFE service's state

Main == "main"             \* the thread of DriverEntry, later of EvtDriverUnload
Callback == "callback"     \* the BFE service thread

ASSUME LifecycleAssumption ==
  MaxTransitions \in Nat /\ Callers = {Main, Callback}

\* The steps of SkLifecycleStart before the WFP installation, in their order.
StartOrder == <<"rules", "eventq", "control", "inject", "flow", "bfe">>

\* The orders in which a failed start and an unload quiesce.
RollbackOrder == <<"wfp", "bfe", "inject", "control", "eventq">>
UnloadOrder == <<"control", "eventq", "inject", "bfe", "wfp">>

\* The order in which both destroy; "device" is left to the end.
DestroyOrder == <<"inject", "flow", "rules", "control", "device">>

\* The subsystems with threads, handles or completions that a quiesce ends.
Busy == {"control", "eventq", "inject"}

VARIABLES
  gState,        \* the runtime state
  main,          \* control point of the main thread
  todo,          \* the steps of its current phase that are left
  ok,            \* its local
  steps,         \* g_SkSteps, without the bit of the WFP step
  present,       \* what has been created and not destroyed
  running,       \* the Busy subsystems that have not been quiesced
  subscribed,    \* g_SkBfeChangeHandle
  bfe,           \* does the BFE service run
  transitions,
  callback, cbState,     \* control point and argument of the BFE callback
  stopped, inside,       \* ShRundownBfe
  escaped,       \* has the drain been passed with a callback inside that was not counted
  deferred,      \* g_SkWfpDeferred
  image          \* is the driver's code loaded

env == <<bfe, transitions>>
cb == <<callback, cbState, deferred>>
rundown == <<stopped, inside, escaped>>
parts == <<steps, present, running, subscribed>>
vars == <<wfpVars, gState, main, todo, ok, parts, env, cb, rundown, image>>

Init ==
  /\ WfpInit
  /\ gState = "UNINITIALIZED"
  /\ main = "entry" /\ todo = <<>> /\ ok = TRUE
  /\ steps = {} /\ present = {} /\ running = {} /\ subscribed = FALSE
  /\ bfe \in BOOLEAN /\ transitions = 0
  /\ callback = "idle" /\ cbState = FALSE /\ deferred = FALSE
  /\ stopped = FALSE /\ inside = 0 /\ escaped = FALSE
  /\ image = "loaded"

IsActive == gState = "ACTIVE"
DestroyAllowed == gState \in {"QUIESCENT", "UNINITIALIZED"}

-----------------------------------------------------------------------------
(***************************************************************************)
(* DriverEntry and SkLifecycleStart.                                       *)
(***************************************************************************)
\* SkDeviceCreate undoes itself when it fails, and the image is unloaded.
CreateDevice ==
  /\ main = "entry"
  /\ \E created \in BOOLEAN :
       IF created
         THEN /\ main' = "start" /\ todo' = StartOrder
              /\ steps' = {"device"} /\ present' = {"device"}
              /\ UNCHANGED image
         ELSE /\ main' = "failed" /\ image' = "unloaded"
              /\ UNCHANGED <<todo, steps, present>>
  /\ UNCHANGED <<wfpVars, gState, ok, running, subscribed, env, cb, rundown>>

\* Every step but SkFlowInit can fail.
StartStep ==
  /\ main = "start" /\ todo # <<>>
  /\ LET s == Head(todo) IN
     \E started \in BOOLEAN :
       /\ s = "flow" => started
       /\ IF started
            THEN /\ todo' = Tail(todo)
                 /\ steps' = steps \cup {s}
                 /\ present' = IF s = "bfe" THEN present ELSE present \cup {s}
                 /\ running' = running \cup ({s} \cap Busy)
                 /\ subscribed' = (s = "bfe")
                 /\ UNCHANGED <<main, ok>>
            ELSE /\ main' = "rollback" /\ todo' = RollbackOrder /\ ok' = TRUE
                 /\ UNCHANGED parts
  /\ UNCHANGED <<wfpVars, gState, env, cb, rundown, image>>

\* The service runs: install now; else leave it to the callback.
StartWfp ==
  /\ main = "start" /\ todo = <<>>
  /\ IF bfe THEN InstallBegin(Main) /\ main' = "installing" /\ UNCHANGED deferred
            ELSE UNCHANGED wfpVars /\ main' = "activate" /\ deferred' = TRUE
  /\ UNCHANGED <<gState, todo, ok, parts, env, callback, cbState, rundown, image>>

Installed ==
  /\ main = "installing"
  /\ Unlock(Main)
  /\ IF result = "SUCCESS"
       THEN main' = "activate" /\ UNCHANGED <<todo, ok>>
       ELSE main' = "rollback" /\ todo' = RollbackOrder /\ ok' = TRUE
  /\ UNCHANGED <<gState, parts, env, cb, rundown, image>>

\* ShRuntimeActivate first calls ShRuntimeInit again, which while the driver is still
\* UNINITIALIZED resets ShRundownBfe, whoever is inside.
ShRuntimeInit ==
  /\ main = "activate"
  /\ IF gState = "UNINITIALIZED" THEN stopped' = FALSE /\ inside' = 0
                                 ELSE UNCHANGED <<stopped, inside>>
  /\ main' = "activating"
  /\ UNCHANGED <<wfpVars, gState, todo, ok, parts, env, cb, escaped, image>>

ShRuntimeActivate ==
  /\ main = "activating"
  /\ gState' = IF gState = "UNINITIALIZED" THEN "ACTIVE" ELSE gState
  /\ main' = "run"
  /\ UNCHANGED <<wfpVars, todo, ok, parts, env, cb, rundown, image>>

\* The framework calls EvtDriverUnload; ShRuntimeBeginTeardown.
Unload ==
  /\ main = "run"
  /\ gState' = IF gState = "ACTIVE" THEN "TEARDOWN" ELSE gState
  /\ main' = "unload" /\ todo' = UnloadOrder /\ ok' = TRUE
  /\ UNCHANGED <<wfpVars, parts, env, cb, rundown, image>>

-----------------------------------------------------------------------------
(***************************************************************************)
(* SkLifecycleQuiesce and the first half of skLifecycleRollback: every     *)
(* step is tried, whatever became of those before it.                      *)
(***************************************************************************)
Quiescing == main \in {"rollback", "unload"}

\* Does the step apply: a rollback skips what was never started, but not the WFP teardown.
Applies(s) == main = "unload" \/ s \in steps \cup {"wfp"}

SkipStep ==
  /\ Quiescing /\ todo # <<>> /\ ~Applies(Head(todo))
  /\ todo' = Tail(todo)
  /\ UNCHANGED <<wfpVars, gState, main, ok, parts, env, cb, rundown, image>>

\* SkControlQuiesce, skEventQuiesce, SkInjectQuiesce.  The first is followed, in an
\* unload, by the check that the rule store refuses writes.
QuiesceStep ==
  /\ Quiescing /\ todo # <<>> /\ Head(todo) \in Busy /\ Applies(Head(todo))
  /\ \E done \in BOOLEAN :
       /\ running' = IF done THEN running \ {Head(todo)} ELSE running
       /\ ok' = (ok /\ done /\ (main = "unload" => ~IsActive))
  /\ todo' = Tail(todo)
  /\ UNCHANGED <<wfpVars, gState, main, steps, present, subscribed, env, cb, rundown, image>>

\* skBfeQuiesce: without a confirmed unsubscription the rundown is not stopped.  The stop
\* bit cannot be set in a count that an underflow holds at -1, and is gone when it is undone.
Unsubscribe ==
  /\ Quiescing /\ todo # <<>> /\ Head(todo) = "bfe" /\ Applies("bfe")
  /\ subscribed
  /\ \E done \in BOOLEAN :
       IF done
         THEN subscribed' = FALSE /\ stopped' = (stopped \/ inside >= 0) /\ UNCHANGED <<todo, ok>>
         ELSE todo' = Tail(todo) /\ ok' = FALSE /\ UNCHANGED <<subscribed, stopped>>
  /\ UNCHANGED <<wfpVars, gState, main, steps, present, running, env, cb, inside, escaped, image>>

\* Where a callback is inside the driver, as the callback itself goes.
Entered == {"check", "install", "installing", "release", "rollback", "report", "blocking"}

\* Mutant: the callbacks under way are not waited for.
DrainCallbacksNot ==
  /\ Quiescing /\ todo # <<>> /\ Head(todo) = "bfe" /\ Applies("bfe")
  /\ ~subscribed
  /\ todo' = Tail(todo)
  /\ UNCHANGED <<wfpVars, gState, main, ok, parts, env, cb, rundown, image>>

\* The drain succeeds, or gives up on a count that is not zero or not stopped.
DrainCallbacks ==
  /\ Quiescing /\ todo # <<>> /\ Head(todo) = "bfe" /\ Applies("bfe")
  /\ ~subscribed
  /\ LET drained == stopped /\ inside = 0
     IN /\ ok' = (ok /\ drained)
        /\ escaped' = (escaped \/ (drained /\ callback \in Entered))
  /\ todo' = Tail(todo)
  /\ UNCHANGED <<wfpVars, gState, main, parts, env, cb, stopped, inside, image>>

Teardown ==
  /\ Quiescing /\ todo # <<>> /\ Head(todo) = "wfp"
  /\ TeardownBegin(Main)
  /\ UNCHANGED <<gState, main, todo, ok, parts, env, cb, rundown, image>>

TornDown ==
  /\ Quiescing
  /\ Unlock(Main)
  /\ todo' = Tail(todo)
  /\ ok' = (ok /\ result = "TRUE")
  /\ UNCHANGED <<gState, main, parts, env, cb, rundown, image>>

\* Nothing is destroyed unless all is quiet.
Quiesced ==
  /\ Quiescing /\ todo = <<>>
  /\ IF ok /\ (main = "unload" => gState # "UNLOAD_BLOCKED")
       THEN /\ main' = IF main = "unload" THEN "quiet" ELSE "cleanup"
            /\ UNCHANGED gState
       ELSE gState' = "UNLOAD_BLOCKED" /\ main' = "parked"
  /\ UNCHANGED <<wfpVars, todo, ok, parts, env, cb, rundown, image>>

\* ShRuntimeEnterQuiescent looks at the state, and then overwrites it.
ReadTeardown ==
  /\ main = "quiet"
  /\ main' = IF gState = "TEARDOWN" THEN "entering" ELSE "cleanup"
  /\ UNCHANGED <<wfpVars, gState, todo, ok, parts, env, cb, rundown, image>>

ShRuntimeEnterQuiescent ==
  /\ main = "entering"
  /\ gState' = "QUIESCENT" /\ main' = "cleanup"
  /\ UNCHANGED <<wfpVars, todo, ok, parts, env, cb, rundown, image>>

-----------------------------------------------------------------------------
(***************************************************************************)
(* SkLifecycleDestroy and the second half of skLifecycleRollback.          *)
(***************************************************************************)
SkLifecycleDestroy ==
  /\ main = "cleanup"
  /\ main' = "destroy"
  /\ todo' = IF DestroyAllowed THEN DestroyOrder ELSE <<>>
  /\ UNCHANGED <<wfpVars, gState, ok, parts, env, cb, rundown, image>>

\* The list of the steps done is cleared with the last of them.
StepsAfter(s) == IF s = "device" THEN {} ELSE steps

\* Mutant: the destruction goes on when the rule store cannot be shut down.
DestroyOnwards ==
  /\ main = "destroy" /\ todo # <<>>
  /\ \E done \in BOOLEAN :
       /\ Head(todo) # "rules" => done
       /\ present' = IF done THEN present \ {Head(todo)} ELSE present
       /\ steps' = StepsAfter(Head(todo))
       /\ gState' = IF done THEN gState ELSE "UNLOAD_BLOCKED"
       /\ todo' = Tail(todo) /\ UNCHANGED main
  /\ UNCHANGED <<wfpVars, ok, running, subscribed, env, cb, rundown, image>>

\* SkRuleStoreShutdown can fail, on a reader that keeps its snapshot; then the
\* destruction stops where it is and the driver stays.
DestroyStep ==
  /\ main = "destroy" /\ todo # <<>>
  /\ \E done \in BOOLEAN :
       /\ Head(todo) # "rules" \/ "rules" \notin present => done
       /\ IF done
            THEN /\ present' = present \ {Head(todo)} /\ steps' = StepsAfter(Head(todo))
                 /\ todo' = Tail(todo) /\ UNCHANGED <<gState, main>>
            ELSE /\ gState' = "UNLOAD_BLOCKED" /\ main' = "parked"
                 /\ UNCHANGED <<present, steps, todo>>
  /\ UNCHANGED <<wfpVars, ok, running, subscribed, env, cb, rundown, image>>

\* EvtDriverUnload returns, or DriverEntry its failure, and the image is unloaded: unless
\* the state has become blocked meanwhile.
Return ==
  /\ main = "destroy" /\ todo = <<>>
  /\ IF gState = "UNLOAD_BLOCKED"
       THEN main' = "parked" /\ UNCHANGED image
       ELSE /\ main' = IF gState = "QUIESCENT" THEN "unloaded" ELSE "failed"
            /\ image' = "unloaded"
  /\ UNCHANGED <<wfpVars, gState, todo, ok, parts, env, cb, rundown>>

-----------------------------------------------------------------------------
(***************************************************************************)
(* The BFE service and SkBfeStateChangeCallback.                           *)
(***************************************************************************)
\* A change of the service is announced to the subscriber, one after the other.
BfeChanges ==
  /\ transitions < MaxTransitions
  /\ callback = "idle"
  /\ bfe' = ~bfe /\ transitions' = transitions + 1
  /\ IF subscribed THEN callback' = "called" /\ cbState' = bfe'
                   ELSE UNCHANGED <<callback, cbState>>
  /\ UNCHANGED <<wfpVars, gState, main, todo, ok, parts, deferred, rundown, image>>

CallbackAcquire ==
  /\ callback = "called"
  /\ IF stopped \/ inside < 0 THEN callback' = "idle" /\ UNCHANGED inside
                              ELSE callback' = "check" /\ inside' = inside + 1
  /\ UNCHANGED <<wfpVars, gState, main, todo, ok, parts, env, cbState, deferred, stopped, escaped,
                 image>>

CallbackCheck ==
  /\ callback = "check"
  /\ callback' = IF cbState /\ IsActive THEN "install" ELSE "release"
  /\ UNCHANGED <<wfpVars, gState, main, todo, ok, parts, env, cbState, deferred, rundown, image>>

CallbackInstall ==
  /\ callback = "install"
  /\ InstallBegin(Callback)
  /\ callback' = "installing"
  /\ UNCHANGED <<gState, main, todo, ok, parts, env, cbState, deferred, rundown, image>>

CallbackInstalled ==
  /\ callback = "installing"
  /\ Unlock(Callback)
  /\ deferred' = (result # "SUCCESS")
  /\ callback' = "release"
  /\ UNCHANGED <<gState, main, todo, ok, parts, env, cbState, rundown, image>>

\* ShRundownRelease: a count that was zero underflows, which is undone and reported.
CallbackRelease ==
  /\ callback = "release"
  /\ inside' = inside - 1
  /\ callback' = IF inside = 0 THEN "rollback" ELSE "idle"
  /\ UNCHANGED <<wfpVars, gState, main, todo, ok, parts, env, cbState, deferred, stopped, escaped,
                 image>>

UndoUnderflow ==
  /\ callback = "rollback"
  /\ inside' = inside + 1
  /\ callback' = "report"
  /\ UNCHANGED <<wfpVars, gState, main, todo, ok, parts, env, cbState, deferred, stopped, escaped,
                 image>>

ShRuntimeReportUnderflow ==
  /\ callback = "report"
  /\ callback' = IF gState = "TEARDOWN" THEN "blocking" ELSE "idle"
  /\ UNCHANGED <<wfpVars, gState, main, todo, ok, parts, env, cbState, deferred, rundown, image>>

\* ShRuntimeEnterUnloadBlocked, by the callback's thread.
CallbackBlocks ==
  /\ callback = "blocking"
  /\ gState' = "UNLOAD_BLOCKED"
  /\ callback' = "idle"
  /\ UNCHANGED <<wfpVars, main, todo, ok, parts, env, cbState, deferred, rundown, image>>

-----------------------------------------------------------------------------
MainStep ==
  \/ CreateDevice \/ StartStep \/ StartWfp \/ Installed \/ ShRuntimeInit \/ ShRuntimeActivate
  \/ SkipStep \/ QuiesceStep \/ Unsubscribe \/ DrainCallbacks \/ Teardown \/ TornDown
  \/ Quiesced \/ ReadTeardown \/ ShRuntimeEnterQuiescent
  \/ SkLifecycleDestroy \/ DestroyStep \/ Return

CallbackStep ==
  \/ CallbackAcquire \/ CallbackCheck \/ CallbackInstall \/ CallbackInstalled
  \/ CallbackRelease \/ UndoUnderflow \/ ShRuntimeReportUnderflow \/ CallbackBlocks

ManagerStep ==
  /\ WfpStep
  /\ UNCHANGED <<gState, main, todo, ok, parts, env, cb, rundown, image>>

\* The image is unloaded, or stays for ever.
Ended ==
  /\ main \in {"parked", "failed", "unloaded"} /\ callback = "idle"
  /\ UNCHANGED vars

Next == MainStep \/ Unload \/ CallbackStep \/ BfeChanges \/ ManagerStep \/ Ended

Spec == Init /\ [][Next]_vars

-----------------------------------------------------------------------------
(***************************************************************************)
(* Properties.                                                             *)
(***************************************************************************)
\* The types of the globals and locals of lifecycle.c, runtime.c and driver.c.
TypeOK ==
  /\ WfpTypeOK
  /\ gState \in {"UNINITIALIZED", "ACTIVE", "TEARDOWN", "QUIESCENT", "UNLOAD_BLOCKED"}
  /\ main \in {"entry", "start", "installing", "activate", "activating", "run", "rollback",
               "unload", "quiet", "entering", "cleanup", "destroy", "parked", "failed",
               "unloaded"}
  /\ Len(todo) <= 6
  /\ {ok, subscribed, bfe, cbState, stopped, escaped, deferred} \subseteq BOOLEAN
  /\ running \subseteq Busy
  /\ present \subseteq {"device", "rules", "eventq", "control", "inject", "flow"}
  /\ steps \subseteq {"device", "rules", "eventq", "control", "inject", "flow", "bfe"}
  /\ callback \in {"idle", "called"} \cup Entered
  /\ inside \in -1 .. 1 /\ transitions \in 0 .. MaxTransitions
  /\ image \in {"loaded", "unloaded"}

\* Whoever may still call into the driver or into what is about to be destroyed.
Quiet ==
  /\ running = {} /\ ~subscribed
  /\ callback \in {"idle", "called"}
  /\ sessions = 0

Destroying == main \in {"cleanup", "destroy"} \/ image = "unloaded"

\* From the first destruction on nothing runs in the driver any more: no subsystem, no
\* BFE callback past its rundown, no engine session, and no callout but those that a failed
\* installation lost or abandoned.  Without a word on the callback and the manager only for
\* a driver whose drain a callback has escaped; but even there the gate is shut, and a stop
\* whose bit an underflow has lost is not taken for a drain.
DestroyIsQuiet ==
  Destroying =>
    /\ running = {} /\ ~subscribed
    /\ gState = "QUIESCENT" => stopped
    /\ ~escaped => Quiet /\ registered \subseteq lost \cup abandoned

\* "In-flight callbacks before BeginStop are always awaited by Drain": the image is never
\* unloaded under a callback that runs in it.
CallbacksAwaited == image = "unloaded" => callback \notin Entered

\* The teardown "also catches the internal rollback itself LEAKED form": the image is never
\* unloaded with a registered callout that the manager itself has marked as leaked.
\* A claim that the code does not keep: README, section 4.
LeakedIsCaught ==
  image = "unloaded" => \A l \in registered : st[Callout(l)] # "LEAKED"

\* The claim of the rollback and of the unload without the exception of the lost: the image
\* is never unloaded while the kernel holds a callout whose unregistration has not failed.
\* A claim that the code does not keep: README, section 4.
UnloadIsSafe == image = "unloaded" => registered \subseteq abandoned

\* "Resident terminal state": once the main thread parks, the state is blocked, the image
\* stays and whatever was not quiesced is not destroyed either; and as long as no callback
\* escapes its drain, a blocked state always ends there, before the control device goes.
ResidentStays ==
  /\ main = "parked" =>
       gState = "UNLOAD_BLOCKED" /\ image = "loaded" /\ running \subseteq present
  /\ ~escaped /\ gState = "UNLOAD_BLOCKED" =>
       main \in {"unload", "parked"} /\ "device" \in present

\* "Not running => subscribe only, defer to the BFE callback": with the service running,
\* the driver active, no callback under way and no failed installation since, the
\* deferred installation has been made.
\* A claim that the code does not keep: README, section 4.
DeferredIsInstalled ==
  /\ main = "run" /\ bfe /\ callback = "idle"
  /\ \A o \in Objects : st[o] = "UNINITIALIZED"
  => installed
=============================================================================
