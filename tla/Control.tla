------------------------------ MODULE Control ------------------------------
(***************************************************************************)
(* The control plane (control/ioctl.c, driver/device.c): user requests on  *)
(* the manual queue of the control device, the consumer thread that        *)
(* retrieves, dispatches and completes them, the handle count, and         *)
(* SkControlInit and SkControlQuiesce, called by the main thread.          *)
(*                                                                         *)
(* A request has no bytes: the checks of the header and of the payload     *)
(* choose between going on and a refusal, and all refusals are one.        *)
(***************************************************************************)
EXTENDS Runtime, ThreadFence, FiniteSets, SequencesExt

CONSTANTS
  Requests,
  Modifying,   \* those whose command changes the rule store
  Files,       \* file objects on the control device
  NoRequest

ASSUME ControlAssumption ==
  Modifying \subseteq Requests /\ NoRequest \notin Requests /\ Files # {}

VARIABLES
  present,     \* g_SkControlWdfDevice and its queue
  ready,       \* g_ControlReady
  gateOpen,    \* g_ControlGateOpen
  stopFlag,    \* g_SkDequeueStop
  doorbell, stopEvent,
  handle,      \* g_SkDequeueThread
  queue,
  accepting,   \* the queue has not been purged
  notify,      \* ReadyNotify: "off", "on", or "due" for a call to come
  consumer,    \* control point of the consumer thread's body
  cur,         \* its req
  files,       \* the open file objects
  requests,    \* of each request: its file, and where it is
  answers,     \* the completions of each request
  applied      \* the requests that have modified the rule store

lifetime == <<present, ready>>
wakeup == <<doorbell, stopEvent>>
wdfQueue == <<queue, accepting, notify>>
consumerVars == <<consumer, cur>>
users == <<files, requests, answers, applied>>
controlVars == <<lifetime, gateOpen, stopFlag, wakeup, handle, wdfQueue, consumerVars, users,
                 fenceVars>>

ControlInit ==
  /\ present = TRUE /\ ready = FALSE
  /\ gateOpen = FALSE /\ stopFlag = FALSE /\ doorbell = FALSE /\ stopEvent = FALSE
  /\ handle = FALSE
  /\ queue = <<>> /\ accepting = TRUE /\ notify = "off"
  /\ consumer = "none" /\ cur = NoRequest
  /\ files = {}
  /\ requests = [q \in Requests |-> [file |-> CHOOSE f \in Files : TRUE, at |-> "new"]]
  /\ answers = [q \in Requests |-> <<>>]
  /\ applied = {}
  /\ FenceInit

HandlesOpen == Cardinality(files)

Move(q, where) == requests' = [requests EXCEPT ![q].at = where]

\* skComplete, or the framework's own completion.
Complete(q, status) ==
  /\ answers' = [answers EXCEPT ![q] = Append(@, status)]
  /\ Move(q, "done")

-----------------------------------------------------------------------------
(***************************************************************************)
(* Users and the framework.                                                *)
(***************************************************************************)
\* SkIoctlEvtFileCreate: counts the handle, whatever the state of the driver.
FileCreate(f) ==
  /\ present /\ f \notin files
  /\ files' = files \cup {f}
  /\ UNCHANGED <<runtimeVars, caller, lifetime, gateOpen, stopFlag, wakeup, handle, wdfQueue,
                 consumerVars, requests, answers, applied, fenceVars>>

\* SkIoctlEvtFileDestroy: a file object outlives its requests.
FileDestroy(f) ==
  /\ f \in files
  /\ \A q \in Requests : requests[q].file = f => requests[q].at \in {"new", "done"}
  /\ files' = files \ {f}
  /\ UNCHANGED <<runtimeVars, caller, lifetime, gateOpen, stopFlag, wakeup, handle, wdfQueue,
                 consumerVars, requests, answers, applied, fenceVars>>

\* A purged queue refuses what arrives; an empty one announces its first request.
Post(q) ==
  /\ present /\ requests[q].at = "new"
  /\ \E f \in files :
       requests' = [requests EXCEPT ![q] = [file |-> f,
                                            at |-> IF accepting THEN "queued" ELSE "done"]]
  /\ IF accepting
       THEN /\ queue' = Append(queue, q)
            /\ notify' = IF queue = <<>> /\ notify = "on" THEN "due" ELSE notify
            /\ UNCHANGED answers
       ELSE /\ answers' = [answers EXCEPT ![q] = Append(@, "REFUSED")]
            /\ UNCHANGED <<queue, notify>>
  /\ UNCHANGED <<runtimeVars, caller, lifetime, gateOpen, stopFlag, wakeup, handle, accepting,
                 consumerVars, files, applied, fenceVars>>

\* The user gives up a request the framework still owns.
Cancel(i) ==
  /\ queue' = RemoveAt(queue, i)
  /\ Complete(queue[i], "REFUSED")
  /\ UNCHANGED <<runtimeVars, caller, lifetime, gateOpen, stopFlag, wakeup, handle, accepting,
                 notify, consumerVars, files, applied, fenceVars>>

SkIoctlEvtQueueReady ==
  /\ notify = "due"
  /\ notify' = "on" /\ doorbell' = TRUE
  /\ UNCHANGED <<runtimeVars, caller, lifetime, gateOpen, stopFlag, stopEvent, handle, queue,
                 accepting, consumerVars, users, fenceVars>>

UserStep ==
  \/ \E f \in Files : FileCreate(f) \/ FileDestroy(f)
  \/ \E q \in Requests : Post(q)
  \/ \E i \in DOMAIN queue : Cancel(i)

-----------------------------------------------------------------------------
(***************************************************************************)
(* skDequeueThreadBody and SkIoctlEvtDeviceControl.                        *)
(***************************************************************************)
fixed == <<runtimeVars, caller, lifetime, gateOpen, stopFlag, handle, files>>

EnterBody ==
  /\ thread = "body" /\ consumer = "none"
  /\ consumer' = "retrieve"
  /\ UNCHANGED <<fixed, wakeup, wdfQueue, cur, requests, answers, applied, fenceVars>>

\* WdfIoQueueRetrieveNextRequest; with an empty queue the thread looks at the stop flag.
Retrieve ==
  /\ consumer = "retrieve"
  /\ IF queue = <<>>
       THEN consumer' = "empty" /\ UNCHANGED <<queue, cur, requests>>
       ELSE /\ cur' = Head(queue) /\ queue' = Tail(queue)
            /\ Move(Head(queue), "owned")
            /\ consumer' = "retrieved"
  /\ UNCHANGED <<fixed, wakeup, accepting, notify, answers, applied, fenceVars>>

\* Mutant: one request for each wake-up.
AnswerAndWait(status) ==
  /\ Complete(cur, status)
  /\ cur' = NoRequest /\ consumer' = "wait"
  /\ UNCHANGED <<fixed, wakeup, wdfQueue, fenceVars>>

Answer(status) ==
  /\ Complete(cur, status)
  /\ cur' = NoRequest /\ consumer' = "retrieve"
  /\ UNCHANGED <<fixed, wakeup, wdfQueue, fenceVars>>

\* Mutant: a request retrieved while stopping is left to the purge.
Abandon ==
  /\ consumer = "retrieved"
  /\ IF stopFlag THEN /\ consumer' = "retrieve" /\ cur' = NoRequest
                      /\ UNCHANGED <<fixed, wakeup, wdfQueue, fenceVars, requests, answers>>
                 ELSE /\ consumer' = "gate"
                      /\ UNCHANGED <<fixed, wakeup, wdfQueue, cur, requests, answers, fenceVars>>
  /\ UNCHANGED applied

CheckStop ==
  /\ consumer = "retrieved"
  /\ IF stopFlag
       THEN Answer("REFUSED")
       ELSE /\ consumer' = "gate"
            /\ UNCHANGED <<fixed, wakeup, wdfQueue, cur, requests, answers, fenceVars>>
  /\ UNCHANGED applied

\* The request gate, then the checks of the header and of the caller's privilege, which may
\* find any fault.  The gate is closed only after the runtime has left ACTIVE, so that its
\* two tests are one.
PassGate ==
  /\ consumer = "gate"
  /\ \/ Answer("REFUSED")
     \/ /\ gateOpen /\ IsActive
        /\ consumer' = "execute"
        /\ UNCHANGED <<fixed, wakeup, wdfQueue, cur, requests, answers, fenceVars>>
  /\ UNCHANGED applied

\* The command handlers.  The payload or the buffers are refused, or the store is not writable.
Refuse == Answer("REFUSED") /\ UNCHANGED applied

AnswerQuery ==
  /\ cur \notin Modifying
  /\ Answer("SUCCESS")
  /\ UNCHANGED applied

\* SkStoreWritable: the store is modified only while the runtime is ACTIVE.
Modify ==
  /\ cur \in Modifying /\ IsActive
  /\ Answer("SUCCESS")
  /\ applied' = applied \cup {cur}

Execute == consumer = "execute" /\ (Refuse \/ AnswerQuery \/ Modify)

\* The body returns once it has been told to stop and has found the queue empty.
StopOrWait ==
  /\ consumer = "empty"
  /\ IF stopFlag THEN consumer' = "none" /\ thread' = "dead"
                 ELSE consumer' = "wait" /\ UNCHANGED thread
  /\ UNCHANGED <<fixed, wakeup, wdfQueue, cur, requests, answers, applied,
                 creator, block, gates>>

\* WaitAny takes, and resets, the first of its events that is set.
Wake ==
  /\ consumer = "wait"
  /\ doorbell \/ stopEvent
  /\ doorbell' = FALSE
  /\ stopEvent' = (stopEvent /\ doorbell)
  /\ consumer' = "retrieve"
  /\ UNCHANGED <<fixed, wdfQueue, cur, requests, answers, applied, fenceVars>>

ConsumerStep ==
  EnterBody \/ Retrieve \/ CheckStop \/ PassGate \/ Execute \/ StopOrWait \/ Wake

-----------------------------------------------------------------------------
(***************************************************************************)
(* SkControlInit.                                                          *)
(***************************************************************************)
rest == <<runtimeVars, present, consumerVars, users>>

\* The events are initialised before the registration, which may announce at once what
\* was queued since the device was created.
SkControlInit ==
  /\ main = "control.init"
  /\ stopFlag' = FALSE /\ doorbell' = FALSE /\ stopEvent' = FALSE
  /\ \/ /\ ready' = TRUE /\ creator' = "begin"
        /\ notify' = IF queue = <<>> THEN "on" ELSE "due"
        /\ main' = "control.create" /\ UNCHANGED result
     \/ ready' = FALSE /\ Return(FALSE) /\ UNCHANGED <<notify, creator>>
  /\ UNCHANGED <<rest, gateOpen, handle, queue, accepting, thread, block, gates>>

\* The creation has returned.
ThreadCreated ==
  /\ main = "control.create"
  /\ IF creator = "created"
       THEN handle' = TRUE /\ main' = "control.open" /\ UNCHANGED <<ready, result>>
       ELSE creator = "failed" /\ handle' = FALSE /\ ready' = FALSE /\ Return(FALSE)
  /\ UNCHANGED <<rest, gateOpen, stopFlag, wakeup, wdfQueue, fenceVars>>

OpenRequestGate ==
  /\ main = "control.open"
  /\ gateOpen' = TRUE
  /\ Return(TRUE)
  /\ UNCHANGED <<rest, ready, stopFlag, wakeup, handle, wdfQueue, fenceVars>>

-----------------------------------------------------------------------------
(***************************************************************************)
(* SkControlQuiesce and SkDeviceDelete.                                    *)
(***************************************************************************)
CloseRequestGate ==
  /\ main = "control.quiesce"
  /\ gateOpen' = FALSE
  /\ main' = "control.stop"
  /\ UNCHANGED <<rest, result, ready, stopFlag, wakeup, handle, wdfQueue, fenceVars>>

SetStop ==
  /\ main = "control.stop"
  /\ stopFlag' = TRUE
  /\ main' = "control.signal"
  /\ UNCHANGED <<rest, result, ready, gateOpen, wakeup, handle, wdfQueue, fenceVars>>

SignalStop ==
  /\ main = "control.signal"
  /\ stopEvent' = TRUE
  /\ main' = IF handle THEN "control.join" ELSE "control.purge"
  /\ UNCHANGED <<rest, result, ready, gateOpen, stopFlag, doorbell, handle,
                 wdfQueue, fenceVars>>

\* Mutant: the wait for the consumer is taken to have succeeded.
AssumeJoined ==
  /\ main = "control.join"
  /\ handle' = FALSE /\ main' = "control.purge"
  /\ UNCHANGED <<rest, result, ready, gateOpen, stopFlag, wakeup, wdfQueue, fenceVars>>

\* ThreadJoin waits without limit.
Join ==
  /\ main = "control.join"
  /\ thread = "dead"
  /\ handle' = FALSE /\ main' = "control.purge"
  /\ UNCHANGED <<rest, result, ready, gateOpen, stopFlag, wakeup, wdfQueue, fenceVars>>

\* A wait that fails leaves the thread unaccounted for.
JoinFails ==
  /\ main = "control.join"
  /\ RecordBlock(Main, "WORKER_THREAD_DRAIN")
  /\ main' = "control.record"
  /\ UNCHANGED <<gState, present, consumerVars, users, result, ready, gateOpen, stopFlag, wakeup,
                 handle, wdfQueue, fenceVars>>

\* The framework completes what it still owns.
CancelAll ==
  /\ queue' = <<>> /\ accepting' = FALSE
  /\ answers' = [q \in Requests |-> IF requests[q].at = "queued"
                                      THEN Append(answers[q], "REFUSED") ELSE answers[q]]
  /\ requests' = [q \in Requests |-> IF requests[q].at = "queued"
                                       THEN [requests[q] EXCEPT !.at = "done"] ELSE requests[q]]

WdfIoQueuePurge ==
  /\ main = "control.purge"
  /\ CancelAll
  /\ main' = "control.drain"
  /\ UNCHANGED <<runtimeVars, present, consumerVars, files, applied, result, ready, gateOpen,
                 stopFlag, wakeup, handle, notify, fenceVars>>

\* The bounded wait for the handles: some poll finds none open, or the last finds one.
DrainHandles ==
  /\ main = "control.drain"
  /\ IF HandlesOpen = 0
       THEN Return(TRUE) /\ UNCHANGED blockVars
       ELSE RecordBlock(Main, "HANDLE_CONTEXTS_OPEN") /\ main' = "control.record"
            /\ UNCHANGED result
  /\ UNCHANGED <<gState, present, consumerVars, users, ready, gateOpen, stopFlag, wakeup, handle,
                 wdfQueue, fenceVars>>

ControlRefused ==
  /\ main = "control.record" /\ ~Recording(Main)
  /\ Return(FALSE)
  /\ UNCHANGED <<rest, ready, gateOpen, stopFlag, wakeup, handle, wdfQueue, fenceVars>>

ControlCall ==
  \/ SkControlInit \/ ThreadCreated \/ OpenRequestGate \/ CloseRequestGate \/ SetStop
  \/ SignalStop \/ Join \/ WdfIoQueuePurge \/ DrainHandles \/ ControlRefused

\* SkControlDestroy and SkDeviceDelete: the device takes its queue with it.
DeleteDevice ==
  /\ present' = FALSE /\ ready' = FALSE /\ gateOpen' = FALSE
  /\ CancelAll
  /\ UNCHANGED <<stopFlag, wakeup, handle, notify, consumerVars, files, applied, fenceVars>>

-----------------------------------------------------------------------------
(***************************************************************************)
(* Properties of the control plane.                                        *)
(***************************************************************************)
ControlTypeOK ==
  /\ FenceTypeOK
  /\ {present, ready, gateOpen, stopFlag, doorbell, stopEvent, handle, accepting}
       \subseteq BOOLEAN
  /\ Len(queue) <= Cardinality(Requests) /\ notify \in {"off", "on", "due"}
  /\ consumer \in {"none", "retrieve", "retrieved", "gate", "execute", "empty", "wait"}
  /\ cur \in Requests \cup {NoRequest}
  /\ files \subseteq Files
  /\ requests \in [Requests -> [file : Files,
                                at : {"new", "queued", "owned", "done"}]]
  /\ applied \subseteq Requests

\* "Must reach completed exactly once": a request is completed once and only then done,
\* one that is not done is in the queue or with the consumer; and its answer is true: a
\* modification succeeds exactly when the store was changed.
AnsweredOnce ==
  \A q \in Requests :
    /\ Len(answers[q]) = (IF requests[q].at = "done" THEN 1 ELSE 0)
    /\ requests[q].at = "queued" => \E i \in DOMAIN queue : queue[i] = q
    /\ requests[q].at = "owned" => cur = q
    /\ q \in Modifying => (q \in applied) = (answers[q] = <<"SUCCESS">>)
=============================================================================
