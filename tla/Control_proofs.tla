--------------------------- MODULE Control_proofs ---------------------------
(***************************************************************************)
(* Proofs about ControlLifecycle, for any requests, files and capacity of  *)
(* the history.  A thread made by ShThreadCreateFenced is either tracked   *)
(* or gone: the invariant says at each control point of the creator and of *)
(* the thread which gate is open and who still uses the block they share.  *)
(* A request is answered once: the queue holds the queued requests once,   *)
(* the consumer owns the one it works on, and the others are new or done.  *)
(* Nothing outlives the quiesce: a control plane that was started has its  *)
(* thread tracked until the join, and the queue is purged only after it.   *)
(* The causes are kept: each recording thread has a place of its own, and  *)
(* whoever has failed has recorded a cause or still records it.            *)
(***************************************************************************)
EXTENDS ControlLifecycle, TLAPS, SequenceTheorems, DataFacts

-----------------------------------------------------------------------------
(***************************************************************************)
(* The fence.                                                              *)
(***************************************************************************)
\* FencedThread, with what the gates say of the creator at each point.
FenceInv ==
  /\ FencedThread /\ FenceTypeOK
  /\ creator \in {"idle", "begin"} => thread = "none" /\ block = "none" /\ gates = {}
  /\ creator = "spawn" => thread = "none" /\ gates = {}
  /\ creator \in {"reference", "open", "abort"} => thread = "fence" /\ gates = {}
  /\ creator = "created" => gates = {"startup"} /\ thread \notin {"none", "aborted"}
  /\ creator = "reap" => gates = {"abort"} /\ thread \in {"fence", "aborted", "dead"}
  /\ thread \in {"body", "dead"} => block = "freed"
  /\ consumer # "none" => thread = "body"

\* SkControlInit is called once, before the thread of the control plane is created.
OnceInv ==
  /\ phase = "start" => main = "idle"
  /\ phase = "start" \/ main = "control.init" => creator = "idle"

LEMMA CreatorKeeps == FenceInv /\ CreatorStep /\ UNCHANGED consumer => FenceInv'
<1> SUFFICES ASSUME FenceInv, CreatorStep, UNCHANGED consumer PROVE FenceInv'
  OBVIOUS
<1> USE DEF FenceInv, FencedThread, FenceTypeOK
<1>1. CASE AllocateBlock
  BY <1>1 DEF AllocateBlock
<1>2. CASE Spawn
  BY <1>2 DEF Spawn
<1>3. CASE Reference
  BY <1>3 DEF Reference
<1>4. CASE OpenGate
  BY <1>4 DEF OpenGate
<1>5. CASE AbortGate
  BY <1>5 DEF AbortGate
<1>6. CASE Reap
  BY <1>6 DEF Reap
<1>7. QED
  BY <1>1, <1>2, <1>3, <1>4, <1>5, <1>6 DEF CreatorStep

LEMMA FenceKeeps == FenceInv /\ FenceStep /\ UNCHANGED consumer => FenceInv'
<1> SUFFICES ASSUME FenceInv, FenceStep, UNCHANGED consumer PROVE FenceInv'
  OBVIOUS
<1> USE DEF FenceInv, FencedThread, FenceTypeOK
<1>1. CASE WakeAtFence
  BY <1>1 DEF WakeAtFence
<1>2. CASE LeaveFence
  BY <1>2 DEF LeaveFence
<1>3. QED
  BY <1>1, <1>2 DEF FenceStep

LEMMA ConsumerKeepsFence == FenceInv /\ ConsumerStep => FenceInv' /\ UNCHANGED <<creator, fixed>>
<1> SUFFICES ASSUME FenceInv, ConsumerStep PROVE FenceInv' /\ UNCHANGED <<creator, fixed>>
  OBVIOUS
<1> USE DEF fenceVars
<1>1. CASE StopOrWait
  BY <1>1 DEF StopOrWait, FenceInv, FencedThread, FenceTypeOK
<1>2. CASE EnterBody
  BY <1>2 DEF EnterBody, FenceInv, FencedThread, FenceTypeOK
<1>3. ASSUME consumer # "none", UNCHANGED fenceVars PROVE FenceInv'
  BY <1>3 DEF FenceInv, FencedThread, FenceTypeOK
<1>4. CASE Retrieve \/ CheckStop \/ PassGate \/ Execute \/ Wake
  <2>1. consumer # "none" /\ UNCHANGED <<fenceVars, fixed>>
    BY <1>4 DEF Retrieve, CheckStop, PassGate, Execute, Refuse, AnswerQuery, Modify, Wake,
               Answer
  <2>2. QED
    BY <1>3, <2>1
<1>5. QED
  BY <1>1, <1>2, <1>4 DEF ConsumerStep

\* What the calls of the control plane do to the fence: they start it, or leave it.
LEMMA CallKeepsFence ==
  ASSUME ControlCall \/ JoinFails
  PROVE  /\ UNCHANGED <<consumerVars, thread, block, gates>> /\ main # "idle"
         /\ main' # "control.init"
         /\ creator' = creator \/ (main = "control.init" /\ creator' = "begin")
  BY DEF ControlCall, SkControlInit, ThreadCreated, OpenRequestGate, CloseRequestGate, SetStop,
         SignalStop, Join, JoinFails, WdfIoQueuePurge, DrainHandles, ControlRefused, Return,
         rest, fenceVars

\* The main thread outside the calls.
LEMMA MainKeepsFence ==
  ASSUME MainStep \/ BeginUnload
  PROVE  /\ UNCHANGED <<consumerVars, fenceVars>> /\ phase' # "start"
         /\ main' = main \/ main' = "control.quiesce"
              \/ (phase = "start" /\ main' = "control.init")
  BY DEF MainStep, BeginUnload, StartEarlier, ControlStarted, Activate, QuiesceOthers,
         RollBackOthers, RollBackControl, ControlQuiesced, Decide, EnterUnloadBlocked,
         DestroyOthers, DestroyDevice, DeleteDevice, Call, controlVars, caller

LEMMA FenceStarts == Init => FenceInv /\ OnceInv
  BY DEF Init, ControlInit, RuntimeInit, FenceInit, FenceInv, FencedThread, FenceTypeOK, OnceInv

LEMMA FenceNext == FenceInv /\ OnceInv /\ [Next]_vars => FenceInv' /\ OnceInv'
<1> SUFFICES ASSUME FenceInv, OnceInv, [Next]_vars PROVE FenceInv' /\ OnceInv'
  OBVIOUS
<1>1. ASSUME UNCHANGED <<fenceVars, consumer>> PROVE FenceInv'
  BY <1>1 DEF fenceVars, FenceInv, FencedThread, FenceTypeOK
<1>2. CASE MainStep \/ BeginUnload
  <2>1. UNCHANGED <<fenceVars, consumer>>
    BY <1>2, MainKeepsFence DEF consumerVars
  <2>2. QED
    BY <1>1, <1>2, <2>1, MainKeepsFence DEF OnceInv, fenceVars
<1>3. CASE StepOfCall \/ StepOfFailure
  <2>1. /\ UNCHANGED <<consumerVars, thread, block, gates, phase>> /\ main # "idle"
        /\ main' # "control.init"
        /\ creator' = creator \/ (main = "control.init" /\ creator' = "begin")
    BY <1>3, CallKeepsFence DEF StepOfCall, StepOfFailure, locals
  <2>2. CASE creator' = creator
    BY <1>1, <2>1, <2>2 DEF fenceVars, consumerVars, OnceInv
  <2>3. CASE main = "control.init" /\ creator' = "begin"
    BY <2>1, <2>3 DEF FenceInv, FencedThread, FenceTypeOK, consumerVars, OnceInv
  <2>4. QED
    BY <2>1, <2>2, <2>3
<1>4. CASE StepOfFence
  <2>1. UNCHANGED <<main, phase, consumer>> /\ (CreatorStep \/ FenceStep)
    BY <1>4 DEF StepOfFence, caller, locals, consumerVars
  <2>2. creator = "idle" => creator' = "idle"
    BY <2>1 DEF CreatorStep, AllocateBlock, Spawn, Reference, OpenGate, AbortGate, Reap, FenceStep,
                WakeAtFence, LeaveFence
  <2>3. QED
    BY <2>1, <2>2, CreatorKeeps, FenceKeeps DEF OnceInv
<1>5. CASE StepOfConsumer
  BY <1>5, ConsumerKeepsFence DEF StepOfConsumer, fixed, caller, locals, OnceInv
<1>6. CASE \/ StepOfFramework \/ StepOfUser \/ StepOfRecord \/ CallbackRecords \/ CallbackEnds
           \/ Ended \/ UNCHANGED vars
  <2>1. UNCHANGED <<fenceVars, consumer, main, phase>>
    BY <1>6
    DEF StepOfFramework, SkIoctlEvtQueueReady, StepOfUser, UserStep, FileCreate, FileDestroy,
        Post, Cancel, StepOfRecord, RecordStep, StoreCause, TestCause, FirstCause,
        CallbackRecords, CallbackEnds, Ended, vars, locals, caller, controlVars, consumerVars
  <2>2. QED
    BY <1>1, <2>1 DEF OnceInv, fenceVars
<1>7. QED
  BY <1>2, <1>3, <1>4, <1>5, <1>6 DEF Next

\* A thread made by ShThreadCreateFenced runs its body only when its creation has succeeded,
\* and a creation that has failed leaves neither the thread nor the block they share.
THEOREM ThreadIsFenced == Spec => []FencedThread
<1>1. FenceInv => FencedThread
  BY DEF FenceInv
<1>2. QED
  BY <1>1, FenceStarts, FenceNext, PTL DEF Spec

-----------------------------------------------------------------------------
(***************************************************************************)
(* The requests.                                                           *)
(***************************************************************************)
Busy == {"retrieved", "gate", "execute"}

\* The queue holds every request that is queued, once, and nothing else.
QueueInv ==
  /\ queue \in Seq(Requests)
  /\ \A i \in DOMAIN queue : requests[queue[i]].at = "queued"
  /\ \A i, j \in DOMAIN queue : queue[i] = queue[j] => i = j
  /\ \A q \in Requests : requests[q].at = "queued" => \E i \in DOMAIN queue : queue[i] = q

\* A request has no answer until it is done, and is owned only by a consumer that works on it.
Settled(q) ==
  /\ requests[q].at # "done" => answers[q] = <<>>
  /\ requests[q].at = "done" => answers[q] \in {<<"SUCCESS">>, <<"REFUSED">>}
  /\ q \in Modifying => (q \in applied <=> answers[q] = <<"SUCCESS">>)

AnswerInv ==
  /\ requests \in [Requests -> [file : Files, at : {"new", "queued", "owned", "done"}]]
  /\ answers \in [Requests -> Seq({"SUCCESS", "REFUSED"})]
  /\ files \subseteq Files
  /\ \A q \in Requests : Settled(q)
  /\ \A q \in Requests : requests[q].at = "owned" => cur = q /\ consumer \in Busy
  /\ consumer \in Busy => cur \in Requests /\ requests[cur].at = "owned"
  /\ QueueInv

LEMMA AnswersSuffice == AnswerInv => AnsweredOnce
<1> SUFFICES ASSUME AnswerInv, NEW q \in Requests
             PROVE  /\ Len(answers[q]) = (IF requests[q].at = "done" THEN 1 ELSE 0)
                    /\ requests[q].at = "queued" => \E i \in DOMAIN queue : queue[i] = q
                    /\ requests[q].at = "owned" => cur = q
                    /\ q \in Modifying => (q \in applied) = (answers[q] = <<"SUCCESS">>)
  BY DEF AnsweredOnce
<1>1. Settled(q)
  BY DEF AnswerInv
<1>2. Len(answers[q]) = (IF requests[q].at = "done" THEN 1 ELSE 0)
  BY <1>1 DEF Settled
<1>3. q \in Modifying => (q \in applied) = (answers[q] = <<"SUCCESS">>)
  BY <1>1 DEF Settled
<1>4. QED
  BY <1>2, <1>3 DEF AnswerInv, QueueInv

LEMMA AnswersStart == Init => AnswerInv
<1> SUFFICES ASSUME Init PROVE AnswerInv
  OBVIOUS
<1> DEFINE f == CHOOSE g \in Files : TRUE
<1>1. f \in Files
  BY ControlAssumption
<1> HIDE DEF f
<1>2. /\ requests = [q \in Requests |-> [file |-> f, at |-> "new"]]
      /\ answers = [q \in Requests |-> <<>>]
      /\ applied = {} /\ queue = <<>> /\ consumer = "none" /\ files = {}
  BY DEF Init, ControlInit, f
<1>3. <<>> \in Seq({"SUCCESS", "REFUSED"}) /\ <<>> \in Seq(Requests) /\ DOMAIN <<>> = {}
  OBVIOUS
<1>4. \A q \in Requests : Settled(q)
  BY <1>2 DEF Settled
<1>5. QED
  BY <1>1, <1>2, <1>3, <1>4 DEF AnswerInv, QueueInv, Busy

\* A request that is not done is completed, and applied if it is a change and succeeds.
LEMMA CompleteSettles ==
  ASSUME AnswerInv, NEW r \in Requests, requests[r].at # "done",
         NEW status \in {"SUCCESS", "REFUSED"}, Complete(r, status),
         \A q \in Requests \ {r} : q \in applied' <=> q \in applied,
         r \in Modifying => (r \in applied' <=> status = "SUCCESS")
  PROVE  /\ requests' \in [Requests -> [file : Files, at : {"new", "queued", "owned", "done"}]]
         /\ answers' \in [Requests -> Seq({"SUCCESS", "REFUSED"})]
         /\ \A q \in Requests : Settled(q)'
         /\ requests'[r].at = "done"
         /\ \A q \in Requests \ {r} : requests'[q].at = requests[q].at
<1>1. answers[r] = <<>> /\ Append(<<>>, status) = <<status>>
  BY DEF AnswerInv, Settled
<1>2. answers' = [answers EXCEPT ![r] = <<status>>]
  BY <1>1 DEF Complete
<1>3. requests' = [requests EXCEPT ![r].at = "done"]
  BY DEF Complete, Move
<1>4. <<status>> \in Seq({"SUCCESS", "REFUSED"})
  OBVIOUS
<1>5. /\ requests' \in [Requests -> [file : Files, at : {"new", "queued", "owned", "done"}]]
      /\ answers' \in [Requests -> Seq({"SUCCESS", "REFUSED"})]
      /\ requests'[r].at = "done" /\ answers'[r] = <<status>>
      /\ \A q \in Requests \ {r} : requests'[q].at = requests[q].at /\ answers'[q] = answers[q]
  BY <1>2, <1>3, <1>4 DEF AnswerInv
<1>6. ASSUME NEW q \in Requests PROVE Settled(q)'
  <2>1. CASE q = r
    <3>1. <<status>> = <<"SUCCESS">> <=> status = "SUCCESS"
      OBVIOUS
    <3>2. QED
      BY <1>5, <2>1, <3>1 DEF Settled
  <2>2. CASE q # r
    <3>1. Settled(q)
      BY DEF AnswerInv
    <3>2. QED
      BY <1>5, <2>2, <3>1 DEF Settled
  <2>3. QED
    BY <2>1, <2>2
<1>7. QED
  BY <1>5, <1>6

\* A request that is not done has no answer and has changed nothing.
LEMMA Unanswered ==
  ASSUME AnswerInv, NEW q \in Requests, requests[q].at # "done"
  PROVE  answers[q] = <<>> /\ (q \in Modifying => ~(q \in applied))
<1>1. Settled(q) /\ <<>> # <<"SUCCESS">>
  BY DEF AnswerInv
<1>2. QED
  BY <1>1 DEF Settled

-----------------------------------------------------------------------------
(***************************************************************************)
(* The steps that move requests.                                           *)
(***************************************************************************)
LEMMA QueuePositions ==
  AnswerInv => DOMAIN queue = 1 .. Len(queue) /\ \A i \in DOMAIN queue : queue[i] \in Requests
  BY LenProperties, ElementOfSeq DEF AnswerInv, QueueInv

LEMMA RetrieveKeeps == AnswerInv /\ Retrieve => AnswerInv'
<1> SUFFICES ASSUME AnswerInv, Retrieve PROVE AnswerInv'
  OBVIOUS
<1>1. answers' = answers /\ applied' = applied /\ files' = files
  BY DEF Retrieve, fixed
<1>2. CASE queue = <<>>
  BY <1>1, <1>2 DEF Retrieve, AnswerInv, QueueInv, Settled, Busy
<1>3. CASE queue # <<>>
  <2> DEFINE r == Head(queue)
  <2>1. /\ r \in Requests /\ r = queue[1] /\ Len(queue) \in Nat \ {0}
        /\ DOMAIN queue = 1 .. Len(queue)
        /\ Tail(queue) \in Seq(Requests) /\ DOMAIN Tail(queue) = 1 .. Len(queue) - 1
        /\ \A i \in 1 .. Len(queue) - 1 : Tail(queue)[i] = queue[i + 1]
    BY <1>3, HeadTailProperties, LenProperties, ElementOfSeq, EmptySeq DEF AnswerInv, QueueInv
  <2>2. requests' = [requests EXCEPT ![r].at = "owned"]
    BY <1>3 DEF Retrieve, Move
  <2>3. requests[r].at = "queued" /\ 1 \in DOMAIN queue
    <3>1. 1 \in DOMAIN queue
      BY <2>1
    <3>2. requests[queue[1]].at = "queued"
      BY <3>1 DEF AnswerInv, QueueInv
    <3>3. QED
      BY <2>1, <3>1, <3>2
  <2>4. /\ requests' \in [Requests -> [file : Files, at : {"new", "queued", "owned", "done"}]]
        /\ requests'[r].at = "owned"
        /\ \A q \in Requests \ {r} : requests'[q].at = requests[q].at
    BY <2>1, <2>2 DEF AnswerInv
  <2>5. cur' = r /\ consumer' = "retrieved" /\ queue' = Tail(queue) /\ consumer = "retrieve"
    BY <1>3 DEF Retrieve
  <2>6. \A q \in Requests : requests[q].at # "owned"
    BY <2>5 DEF AnswerInv, Busy
  <2> HIDE DEF r
  <2>7. QueueInv'
    <3>1. \A i \in DOMAIN queue' : queue'[i] = queue[i + 1] /\ i + 1 \in DOMAIN queue /\ i + 1 # 1
      BY <2>1, <2>5
    <3>2. \A i \in DOMAIN queue' : requests'[queue'[i]].at = "queued"
      <4> SUFFICES ASSUME NEW i \in DOMAIN queue' PROVE requests'[queue'[i]].at = "queued"
        OBVIOUS
      <4>1. queue[i + 1] # queue[1] /\ requests[queue[i + 1]].at = "queued"
        BY <2>3, <3>1 DEF AnswerInv, QueueInv
      <4>2. queue'[i] \in Requests \ {r}
        BY <2>1, <3>1, <4>1, QueuePositions
      <4>3. QED
        BY <2>4, <3>1, <4>1, <4>2
    <3>3. \A i, j \in DOMAIN queue' : queue'[i] = queue'[j] => i = j
      <4> SUFFICES ASSUME NEW i \in DOMAIN queue', NEW j \in DOMAIN queue', queue'[i] = queue'[j]
                   PROVE  i = j
        OBVIOUS
      <4>1. i + 1 = j + 1
        BY <3>1 DEF AnswerInv, QueueInv
      <4>2. QED
        BY <2>1, <2>5, <4>1
    <3>4. ASSUME NEW q \in Requests, requests'[q].at = "queued"
          PROVE  \E i \in DOMAIN queue' : queue'[i] = q
      <4>1. requests[q].at = "queued" /\ q # r
        BY <2>4, <3>4
      <4>2. PICK k \in DOMAIN queue : queue[k] = q
        BY <4>1 DEF AnswerInv, QueueInv
      <4>3. k - 1 \in DOMAIN queue' /\ k = (k - 1) + 1
        BY <2>1, <2>5, <4>1, <4>2
      <4>4. QED
        BY <3>1, <4>2, <4>3
    <3>5. QED
      BY <2>1, <2>5, <3>2, <3>3, <3>4 DEF QueueInv
  <2>8. \A q \in Requests : Settled(q)'
    <3> SUFFICES ASSUME NEW q \in Requests PROVE Settled(q)'
      OBVIOUS
    <3>1. Settled(q) /\ (requests'[q].at = "done" <=> requests[q].at = "done")
      BY <2>3, <2>4 DEF AnswerInv
    <3>2. QED
      BY <1>1, <3>1 DEF Settled
  <2>9. QED
    BY <1>1, <2>1, <2>4, <2>5, <2>6, <2>7, <2>8 DEF AnswerInv, Busy
<1>4. QED
  BY <1>2, <1>3

\* The consumer's request is completed, and the consumer is free.
LEMMA AnswerKeeps ==
  ASSUME AnswerInv, consumer \in Busy, NEW status \in {"SUCCESS", "REFUSED"}, Answer(status),
         \A q \in Requests \ {cur} : q \in applied' <=> q \in applied,
         cur \in Modifying => (cur \in applied' <=> status = "SUCCESS")
  PROVE  AnswerInv'
<1>1. cur \in Requests /\ requests[cur].at = "owned"
  BY DEF AnswerInv
<1>2. Complete(cur, status) /\ queue' = queue /\ consumer' = "retrieve" /\ files' = files
  BY DEF Answer, wdfQueue, fixed
<1>3. /\ requests' \in [Requests -> [file : Files, at : {"new", "queued", "owned", "done"}]]
      /\ answers' \in [Requests -> Seq({"SUCCESS", "REFUSED"})]
      /\ \A q \in Requests : Settled(q)'
      /\ requests'[cur].at = "done"
      /\ \A q \in Requests \ {cur} : requests'[q].at = requests[q].at
  BY <1>1, <1>2, CompleteSettles
<1>4. \A q \in Requests : requests'[q].at # "owned"
  BY <1>3 DEF AnswerInv
<1>5. \A q \in Requests : requests'[q].at = "queued" <=> requests[q].at = "queued"
  BY <1>1, <1>3
<1>6. QueueInv'
  BY <1>2, <1>5, QueuePositions DEF AnswerInv, QueueInv
<1>7. QED
  BY <1>2, <1>3, <1>4, <1>6 DEF AnswerInv, Busy

LEMMA ConsumerKeepsAnswers == AnswerInv /\ ConsumerStep => AnswerInv'
<1> SUFFICES ASSUME AnswerInv, ConsumerStep PROVE AnswerInv'
  OBVIOUS
<1>1. ASSUME UNCHANGED <<queue, cur, requests, answers, applied, files>>,
             consumer \in Busy <=> consumer' \in Busy
      PROVE  AnswerInv'
  BY <1>1 DEF AnswerInv, QueueInv, Settled
<1>2. CASE EnterBody \/ StopOrWait \/ Wake
  BY <1>1, <1>2 DEF EnterBody, StopOrWait, Wake, wdfQueue, fixed, Busy
<1>3. CASE CheckStop
  <2>1. consumer = "retrieved" /\ applied' = applied
    BY <1>3 DEF CheckStop
  <2>2. CASE stopFlag
    <3>1. Answer("REFUSED") /\ consumer \in Busy
      BY <1>3, <2>2 DEF CheckStop, Busy
    <3>2. cur \in Modifying => ~(cur \in applied)
      BY <3>1, Unanswered DEF AnswerInv
    <3>3. QED
      BY <2>1, <3>1, <3>2, AnswerKeeps
  <2>3. CASE ~stopFlag
    BY <1>1, <1>3, <2>3 DEF CheckStop, wdfQueue, fixed, Busy
  <2>4. QED
    BY <2>2, <2>3
<1>4. CASE PassGate
  <2>1. consumer \in Busy /\ applied' = applied
    BY <1>4 DEF PassGate, Busy
  <2>2. CASE Answer("REFUSED")
    <3>1. cur \in Modifying => ~(cur \in applied)
      BY <2>1, Unanswered DEF AnswerInv
    <3>2. QED
      BY <2>1, <2>2, <3>1, AnswerKeeps
  <2>3. CASE ~Answer("REFUSED")
    BY <1>1, <1>4, <2>3 DEF PassGate, wdfQueue, fixed, Busy
  <2>4. QED
    BY <2>2, <2>3
<1>5. CASE Execute
  <2>1. consumer \in Busy
    BY <1>5 DEF Execute, Busy
  <2>2. cur \in Modifying => ~(cur \in applied)
    BY <2>1, Unanswered DEF AnswerInv
  <2>3. CASE Refuse
    BY <2>1, <2>2, <2>3, AnswerKeeps DEF Refuse
  <2>4. CASE AnswerQuery
    BY <2>1, <2>4, AnswerKeeps DEF AnswerQuery
  <2>5. CASE Modify
    BY <2>1, <2>5, AnswerKeeps DEF Modify
  <2>6. QED
    BY <1>5, <2>3, <2>4, <2>5 DEF Execute
<1>6. CASE Retrieve
  BY <1>6, RetrieveKeeps
<1>7. QED
  BY <1>2, <1>3, <1>4, <1>5, <1>6 DEF ConsumerStep

\* What the framework still owns is completed, and nothing else.
LEMMA CancelAllKeeps ==
  ASSUME AnswerInv, CancelAll, UNCHANGED <<applied, files, consumerVars>>
  PROVE  AnswerInv' /\ queue' = <<>>
<1>1. answers' = [q \in Requests |-> IF requests[q].at = "queued"
                                      THEN <<"REFUSED">> ELSE answers[q]]
  <2>1. \A q \in Requests : requests[q].at = "queued" => answers[q] = <<>>
    BY DEF AnswerInv, Settled
  <2>2. Append(<<>>, "REFUSED") = <<"REFUSED">>
    OBVIOUS
  <2>3. QED
    BY <2>1, <2>2 DEF CancelAll
<1>2. requests' = [q \in Requests |-> IF requests[q].at = "queued"
                                       THEN [requests[q] EXCEPT !.at = "done"] ELSE requests[q]]
  BY DEF CancelAll
<1>3. <<"REFUSED">> \in Seq({"SUCCESS", "REFUSED"})
  OBVIOUS
<1>4. /\ requests' \in [Requests -> [file : Files, at : {"new", "queued", "owned", "done"}]]
      /\ answers' \in [Requests -> Seq({"SUCCESS", "REFUSED"})]
  BY <1>1, <1>2, <1>3 DEF AnswerInv
<1>5. \A q \in Requests :
        IF requests[q].at = "queued"
          THEN requests'[q].at = "done" /\ answers'[q] = <<"REFUSED">>
          ELSE requests'[q] = requests[q] /\ answers'[q] = answers[q]
  BY <1>1, <1>2 DEF AnswerInv
<1>6. ASSUME NEW q \in Requests PROVE Settled(q)'
  <2>1. Settled(q) /\ applied' = applied
    BY DEF AnswerInv
  <2>2. CASE requests[q].at = "queued"
    <3>1. <<"REFUSED">> # <<"SUCCESS">> /\ <<>> # <<"SUCCESS">>
      OBVIOUS
    <3>2. QED
      BY <1>5, <2>1, <2>2, <3>1 DEF Settled
  <2>3. CASE requests[q].at # "queued"
    BY <1>5, <2>1, <2>3 DEF Settled
  <2>4. QED
    BY <2>2, <2>3
<1>7. queue' = <<>> /\ UNCHANGED <<cur, consumer>>
  BY DEF CancelAll, consumerVars
<1>8. \A q \in Requests : requests'[q].at # "queued"
        /\ (requests'[q].at = "owned" <=> requests[q].at = "owned")
  BY <1>5
<1>9. QueueInv'
  BY <1>7, <1>8 DEF QueueInv
<1>10. QED
  BY <1>4, <1>6, <1>7, <1>8, <1>9 DEF AnswerInv

LEMMA PostKeeps ==
  ASSUME AnswerInv, NEW r \in Requests, Post(r)
  PROVE  AnswerInv'
<1>1. /\ requests[r].at = "new" /\ answers[r] = <<>>
      /\ UNCHANGED <<applied, files, cur, consumer>>
  BY DEF Post, AnswerInv, Settled, consumerVars
<1> DEFINE next == IF accepting THEN "queued" ELSE "done"
<1>2. PICK f \in files : requests' = [requests EXCEPT ![r] = [file |-> f, at |-> next]]
  BY DEF Post
<1>3. files \subseteq Files
  BY DEF AnswerInv
<1>4. /\ requests' \in [Requests -> [file : Files, at : {"new", "queued", "owned", "done"}]]
      /\ requests'[r].at = next
      /\ \A q \in Requests \ {r} : requests'[q] = requests[q]
  BY <1>2, <1>3 DEF AnswerInv
<1>5. CASE accepting
  <2>1. queue' = Append(queue, r) /\ answers' = answers
    BY <1>5 DEF Post
  <2>2. /\ queue' \in Seq(Requests) /\ Len(queue) \in Nat /\ DOMAIN queue = 1 .. Len(queue)
        /\ DOMAIN queue' = 1 .. Len(queue) + 1
        /\ \A i \in 1 .. Len(queue) : queue'[i] = queue[i]
        /\ queue'[Len(queue) + 1] = r
    BY <2>1, AppendProperties, LenProperties DEF AnswerInv, QueueInv
  <2>3. \A i \in DOMAIN queue : queue[i] \in Requests \ {r}
    BY <1>1, QueuePositions DEF AnswerInv, QueueInv
  <2>4. QueueInv'
    <3> DEFINE last == Len(queue) + 1
    <3>0. /\ \A i \in DOMAIN queue' : i \in DOMAIN queue \/ i = last
          /\ \A i \in DOMAIN queue : i \in DOMAIN queue' /\ queue'[i] = queue[i]
          /\ last \in DOMAIN queue' /\ queue'[last] = r
      BY <2>2
    <3> HIDE DEF last
    <3>1. \A i \in DOMAIN queue' : requests'[queue'[i]].at = "queued"
      <4>1. ASSUME NEW i \in DOMAIN queue PROVE requests'[queue[i]].at = "queued"
        BY <1>4, <2>3, <4>1 DEF AnswerInv, QueueInv
      <4>2. requests'[r].at = "queued"
        BY <1>4, <1>5
      <4>3. QED
        BY <3>0, <4>1, <4>2
    <3>2. ASSUME NEW i \in DOMAIN queue', NEW j \in DOMAIN queue', queue'[i] = queue'[j]
          PROVE  i = j
      <4>1. CASE i \in DOMAIN queue /\ j \in DOMAIN queue
        BY <3>0, <3>2, <4>1 DEF AnswerInv, QueueInv
      <4>2. QED
        BY <2>3, <3>0, <3>2, <4>1
    <3>3. ASSUME NEW q \in Requests, requests'[q].at = "queued"
          PROVE  \E i \in DOMAIN queue' : queue'[i] = q
      <4>1. CASE q = r
        BY <3>0, <4>1
      <4>2. CASE q # r
        <5>1. requests[q].at = "queued"
          BY <1>4, <3>3, <4>2
        <5>2. PICK k \in DOMAIN queue : queue[k] = q
          BY <5>1 DEF AnswerInv, QueueInv
        <5>3. QED
          BY <3>0, <5>2
      <4>3. QED
        BY <4>1, <4>2
    <3>4. QED
      BY <2>2, <3>1, <3>2, <3>3 DEF QueueInv
  <2>5. \A q \in Requests : Settled(q)'
    BY <1>1, <1>4, <1>5, <2>1 DEF AnswerInv, Settled
  <2>6. QED
    BY <1>1, <1>4, <1>5, <2>1, <2>4, <2>5 DEF AnswerInv
<1>6. CASE ~accepting
  <2>1. queue' = queue /\ answers' = [answers EXCEPT ![r] = <<"REFUSED">>]
    <3>1. Append(<<>>, "REFUSED") = <<"REFUSED">>
      OBVIOUS
    <3>2. QED
      BY <1>1, <1>6, <3>1 DEF Post
  <2>2. <<"REFUSED">> \in Seq({"SUCCESS", "REFUSED"}) /\ <<"REFUSED">> # <<"SUCCESS">>
        /\ <<>> # <<"SUCCESS">>
    OBVIOUS
  <2>3. /\ answers' \in [Requests -> Seq({"SUCCESS", "REFUSED"})] /\ answers'[r] = <<"REFUSED">>
        /\ \A q \in Requests \ {r} : answers'[q] = answers[q]
    BY <2>1, <2>2 DEF AnswerInv
  <2>4. \A i \in DOMAIN queue : queue[i] \in Requests \ {r}
    BY <1>1, QueuePositions DEF AnswerInv, QueueInv
  <2>5. QueueInv'
    <3>1. \A i \in DOMAIN queue : requests'[queue[i]].at = "queued"
      BY <1>4, <2>4 DEF AnswerInv, QueueInv
    <3>2. \A q \in Requests : requests'[q].at = "queued" => q # r /\ requests[q].at = "queued"
      BY <1>4, <1>6
    <3>3. QED
      BY <2>1, <3>1, <3>2 DEF AnswerInv, QueueInv
  <2>6. \A q \in Requests : Settled(q)'
    BY <1>1, <1>4, <1>6, <2>2, <2>3 DEF AnswerInv, Settled
  <2>7. QED
    BY <1>1, <1>4, <1>6, <2>3, <2>5, <2>6 DEF AnswerInv
<1>7. QED
  BY <1>5, <1>6

LEMMA CancelKeeps ==
  ASSUME AnswerInv, NEW p \in DOMAIN queue, Cancel(p)
  PROVE  AnswerInv'
<1> DEFINE n == Len(queue)
           r == queue[p]
<1>1. /\ r \in Requests /\ requests[r].at = "queued" /\ n \in Nat /\ DOMAIN queue = 1 .. n
      /\ queue \in Seq(Requests)
  BY QueuePositions, LenProperties DEF AnswerInv, QueueInv
<1>2. /\ Complete(r, "REFUSED") /\ UNCHANGED <<applied, files, cur, consumer>>
      /\ queue' = RemoveAt(queue, p)
  BY DEF Cancel, consumerVars
<1>3. /\ queue' \in Seq(Requests) /\ DOMAIN queue' = 1 .. n - 1
      /\ \A i \in 1 .. n - 1 : queue'[i] = IF i < p THEN queue[i] ELSE queue[i + 1]
  BY <1>1, <1>2, RemoveAtShape
<1>4. requests[r].at # "done" /\ (r \in Modifying => ~(r \in applied))
  BY <1>1, Unanswered
<1>5. /\ requests' \in [Requests -> [file : Files, at : {"new", "queued", "owned", "done"}]]
      /\ answers' \in [Requests -> Seq({"SUCCESS", "REFUSED"})]
      /\ \A q \in Requests : Settled(q)'
      /\ requests'[r].at = "done"
      /\ \A q \in Requests \ {r} : requests'[q].at = requests[q].at
  <2> HIDE DEF r
  <2>1. QED
    BY <1>1, <1>2, <1>4, CompleteSettles
<1> DEFINE old(i) == IF i < p THEN i ELSE i + 1
<1>6. \A i \in DOMAIN queue' : queue'[i] = queue[old(i)] /\ old(i) \in DOMAIN queue /\ old(i) # p
  BY <1>1, <1>3
<1>7. \A i, j \in DOMAIN queue' : old(i) = old(j) => i = j
  BY <1>1, <1>3
<1>8. \A k \in DOMAIN queue : k # p => \E i \in DOMAIN queue' : k = old(i)
  <2> SUFFICES ASSUME NEW k \in DOMAIN queue, k # p PROVE \E i \in DOMAIN queue' : k = old(i)
    OBVIOUS
  <2>1. CASE k < p
    <3>1. k \in DOMAIN queue' /\ old(k) = k
      BY <1>1, <1>3, <2>1
    <3>2. QED
      BY <3>1
  <2>2. CASE ~(k < p)
    <3>1. k - 1 \in DOMAIN queue' /\ old(k - 1) = k
      BY <1>1, <1>3, <2>2
    <3>2. QED
      BY <3>1
  <2>3. QED
    BY <2>1, <2>2
<1> HIDE DEF old
<1>9. \A i \in DOMAIN queue' : queue'[i] \in Requests \ {r}
  BY <1>6, QueuePositions DEF AnswerInv, QueueInv
<1>10. QueueInv'
  <2>1. \A i \in DOMAIN queue' : requests'[queue'[i]].at = "queued"
    BY <1>5, <1>6, <1>9 DEF AnswerInv, QueueInv
  <2>2. \A i, j \in DOMAIN queue' : queue'[i] = queue'[j] => i = j
    BY <1>6, <1>7 DEF AnswerInv, QueueInv
  <2>3. ASSUME NEW q \in Requests, requests'[q].at = "queued"
        PROVE  \E i \in DOMAIN queue' : queue'[i] = q
    <3>1. requests[q].at = "queued" /\ q # r
      BY <1>5, <2>3
    <3>2. PICK k \in DOMAIN queue : queue[k] = q
      BY <3>1 DEF AnswerInv, QueueInv
    <3>3. PICK i \in DOMAIN queue' : k = old(i)
      BY <1>8, <3>1, <3>2
    <3>4. QED
      BY <1>6, <3>2, <3>3
  <2>4. QED
    BY <1>3, <2>1, <2>2, <2>3 DEF QueueInv
<1>11. \A q \in Requests : requests'[q].at = "owned" <=> requests[q].at = "owned"
  BY <1>1, <1>5
<1>12. QED
  BY <1>2, <1>5, <1>10, <1>11 DEF AnswerInv

LEMMA AnswersNext == AnswerInv /\ [Next]_vars => AnswerInv'
<1> SUFFICES ASSUME AnswerInv, [Next]_vars PROVE AnswerInv'
  OBVIOUS
<1>1. ASSUME UNCHANGED <<queue, cur, consumer, users>> PROVE AnswerInv'
  BY <1>1 DEF AnswerInv, QueueInv, Settled, users
<1>2. CASE StepOfConsumer
  BY <1>2, ConsumerKeepsAnswers DEF StepOfConsumer
<1>3. CASE StepOfUser
  <2>1. CASE \E f \in Files : FileCreate(f) \/ FileDestroy(f)
    BY <2>1 DEF FileCreate, FileDestroy, AnswerInv, QueueInv, Settled, wdfQueue, consumerVars
  <2>2. QED
    BY <1>3, <2>1, PostKeeps, CancelKeeps DEF StepOfUser, UserStep
<1>4. CASE DestroyDevice
  BY <1>4, CancelAllKeeps DEF DestroyDevice, DeleteDevice
<1>5. CASE WdfIoQueuePurge
  BY <1>5, CancelAllKeeps DEF WdfIoQueuePurge
<1>6. ASSUME \/ StepOfCall /\ ~WdfIoQueuePurge
             \/ (MainStep /\ ~DestroyDevice) \/ BeginUnload \/ StepOfFailure \/ StepOfFence
             \/ StepOfFramework \/ StepOfRecord
             \/ CallbackRecords \/ CallbackEnds \/ Ended \/ UNCHANGED vars
      PROVE  AnswerInv'
  <2> USE DEF controlVars, wdfQueue, consumerVars
  <2>1. CASE StepOfCall /\ ~WdfIoQueuePurge
    BY <1>1, <2>1
    DEF StepOfCall, ControlCall, SkControlInit, ThreadCreated, OpenRequestGate,
        CloseRequestGate, SetStop, SignalStop, Join, DrainHandles, ControlRefused, rest
  <2>2. CASE (MainStep /\ ~DestroyDevice) \/ BeginUnload
    BY <1>1, <2>2
    DEF MainStep, BeginUnload, StartEarlier, ControlStarted, Activate, QuiesceOthers,
        RollBackOthers, RollBackControl, ControlQuiesced, Decide, EnterUnloadBlocked,
        DestroyOthers
  <2>3. CASE \/ StepOfFailure \/ StepOfFence \/ StepOfFramework \/ StepOfRecord
             \/ CallbackRecords \/ CallbackEnds \/ Ended \/ UNCHANGED vars
    BY <1>1, <2>3
    DEF StepOfFailure, JoinFails, StepOfFence, StepOfFramework, SkIoctlEvtQueueReady,
        StepOfRecord, CallbackRecords, CallbackEnds, Ended, vars
  <2>4. QED
    BY <1>6, <2>1, <2>2, <2>3
<1>7. QED
  BY <1>2, <1>3, <1>4, <1>5, <1>6 DEF Next, StepOfCall

\* For any requests and files: a request is completed once, and then only done; a change of
\* the store succeeds exactly when it was made.
THEOREM AnswersAreSingle == Spec => []AnsweredOnce
  BY AnswersStart, AnswersNext, AnswersSuffice, PTL DEF Spec

-----------------------------------------------------------------------------
(***************************************************************************)
(* The quiesce.                                                            *)
(***************************************************************************)
\* The consumer thread was never made, or has exited.
NoThread ==
  creator \in {"idle", "created", "failed"} /\ thread \in {"none", "dead"} /\ consumer = "none"

\* And nothing will be queued any more.
Shut == NoThread /\ queue = <<>> /\ ~gateOpen /\ ~accepting

\* What a call of the control plane knows at each of its points.
CallInv ==
  /\ main # "idle" =>
       \/ phase = "control" /\ main \in {"control.init", "control.create", "control.open"}
       \/ phase = "quiesce" /\ main \in {"control.quiesce", "control.stop", "control.signal",
                                         "control.join", "control.purge", "control.drain",
                                         "control.record"}
  /\ main = "control.init" => NoThread
  /\ main \in {"control.open", "control.quiesce", "control.stop", "control.signal",
              "control.join"} => handle
  /\ main \notin {"idle", "control.quiesce"} => ~gateOpen
  /\ main = "control.purge" => NoThread
  /\ main = "control.drain" => Shut

\* What the main thread knows outside the calls.  A control plane that was started has
\* its thread tracked until it is quiesced.
PhaseInv ==
  /\ phase \in {"start", "control"} => ~started
  /\ phase = "start" => NoThread /\ ~gateOpen
  /\ phase = "control" /\ main = "idle" => IF result THEN handle ELSE NoThread /\ ~gateOpen
  /\ phase \in {"activate", "run"} => handle
  /\ phase \in {"rollback", "rollbackControl"} => IF started THEN handle ELSE NoThread /\ ~gateOpen
  /\ phase = "quiesce" /\ main = "idle" /\ result => Shut
  /\ phase \in {"others", "decide"} /\ ok => NoThread /\ ~gateOpen
  /\ phase \in {"destroy", "destroyDevice"} => NoThread /\ ~gateOpen

QuietInv ==
  /\ handle => creator = "created"
  /\ CallInv /\ PhaseInv
  /\ quiet => Shut /\ phase \in {"others", "decide", "blocking", "parked", "destroy",
                                 "destroyDevice", "unloaded"}
  /\ ~present => phase = "unloaded" /\ NoThread /\ queue = <<>> /\ ~gateOpen

LEMMA QuietSuffices == AnswerInv /\ QuietInv => QuiescedIsQuiet
<1> SUFFICES ASSUME AnswerInv, QuietInv, quiet \/ ~present
             PROVE  /\ thread \in {"none", "dead"} /\ consumer = "none"
                    /\ queue = <<>> /\ ~gateOpen /\ (accepting => ~present)
                    /\ \A q \in Requests : requests[q].at \in {"new", "done"}
  BY DEF QuiescedIsQuiet
<1>1. NoThread /\ queue = <<>> /\ ~gateOpen /\ (accepting => ~present)
  BY DEF QuietInv, Shut
<1>2. ASSUME NEW q \in Requests PROVE requests[q].at \in {"new", "done"}
  <2>1. requests[q].at # "owned"
    BY <1>1 DEF AnswerInv, NoThread, Busy
  <2>2. requests[q].at # "queued"
    BY <1>1 DEF AnswerInv, QueueInv
  <2>3. QED
    BY <2>1, <2>2 DEF AnswerInv
<1>3. QED
  BY <1>1, <1>2 DEF NoThread

LEMMA QuietStarts == Init => QuietInv
  BY DEF Init, ControlInit, RuntimeInit, FenceInit, QuietInv, CallInv, PhaseInv, NoThread

\* What the threads beside the main thread leave alone, and cannot bring back.
LEMMA OthersStay ==
  ASSUME QuietInv, UNCHANGED <<caller, present, handle, gateOpen, phase, ok, started, quiet>>,
         NoThread => NoThread', creator = "created" => creator' = "created",
         Shut => Shut', ~present /\ NoThread /\ queue = <<>> => queue' = <<>>
  PROVE  QuietInv'
<1>1. CallInv'
  BY DEF QuietInv, CallInv, caller
<1>2. PhaseInv'
  BY DEF QuietInv, PhaseInv, caller
<1>3. QED
  BY <1>1, <1>2 DEF QuietInv

LEMMA BesideKeepsQuiet ==
  ASSUME QuietInv,
         \/ StepOfConsumer \/ StepOfFence \/ StepOfFramework \/ StepOfUser \/ StepOfRecord
         \/ CallbackRecords \/ CallbackEnds \/ Ended \/ UNCHANGED vars
  PROVE  QuietInv'
<1> USE DEF locals, caller
<1>1. CASE StepOfConsumer
  <2>1. consumer # "none" \/ thread = "body"
    BY <1>1 DEF StepOfConsumer, ConsumerStep, EnterBody, Retrieve, CheckStop, PassGate, Execute,
                StopOrWait, Wake
  <2>2. UNCHANGED <<caller, present, handle, gateOpen, creator>>
    BY <1>1 DEF StepOfConsumer, ConsumerStep, EnterBody, Retrieve, CheckStop, PassGate, Execute,
                Refuse, AnswerQuery, Modify, Answer, StopOrWait, Wake, fixed, lifetime, fenceVars
  <2>3. ~NoThread
    BY <2>1 DEF NoThread
  <2>4. QED
    BY <1>1, <2>2, <2>3, OthersStay DEF StepOfConsumer, Shut
<1>2. CASE StepOfFence
  <2>1. UNCHANGED <<caller, lifetime, gateOpen, handle, wdfQueue, consumerVars, locals>>
    BY <1>2 DEF StepOfFence
  <2>2. ~NoThread \/ UNCHANGED <<creator, thread>>
    BY <1>2 DEF StepOfFence, NoThread, CreatorStep, FenceStep, AllocateBlock, Spawn, Reference,
                OpenGate, AbortGate, Reap, WakeAtFence, LeaveFence
  <2>3. creator = "created" => creator' = "created"
    BY <1>2 DEF StepOfFence, CreatorStep, FenceStep, AllocateBlock, Spawn, Reference,
                OpenGate, AbortGate, Reap, WakeAtFence, LeaveFence
  <2>4. NoThread => NoThread'
    BY <2>1, <2>2 DEF NoThread, consumerVars
  <2>5. QED
    BY <2>1, <2>3, <2>4, OthersStay DEF Shut, wdfQueue, lifetime
<1>3. CASE StepOfUser
  <2>1. UNCHANGED <<caller, lifetime, gateOpen, handle, accepting, consumerVars, fenceVars, locals>>
    BY <1>3 DEF StepOfUser, UserStep, FileCreate, FileDestroy, Post, Cancel, wdfQueue
  <2>2. queue = <<>> /\ (~present \/ ~accepting) => queue' = <<>>
    BY <1>3 DEF StepOfUser, UserStep, FileCreate, FileDestroy, Post, Cancel, wdfQueue
  <2>3. QED
    BY <2>1, <2>2, OthersStay DEF Shut, NoThread, lifetime, consumerVars, fenceVars
<1>4. CASE \/ StepOfFramework \/ StepOfRecord \/ CallbackRecords \/ CallbackEnds \/ Ended
           \/ UNCHANGED vars
  <2>1. UNCHANGED <<caller, lifetime, gateOpen, handle, queue, accepting, consumerVars, fenceVars,
                    phase, ok, started, quiet>>
    BY <1>4
    DEF StepOfFramework, SkIoctlEvtQueueReady, StepOfRecord, RecordStep, StoreCause, TestCause,
        FirstCause, CallbackRecords, CallbackEnds, Ended, vars, controlVars, wdfQueue
  <2>2. QED
    BY <2>1, OthersStay DEF Shut, NoThread, lifetime, consumerVars, fenceVars
<1>5. QED
  BY <1>1, <1>2, <1>3, <1>4

\* A call of the control plane.
LEMMA CallKeepsQuiet ==
  ASSUME QuietInv, FenceInv, OnceInv, StepOfCall \/ StepOfFailure
  PROVE  QuietInv'
<1> USE DEF locals, caller, Return
<1>1. UNCHANGED <<phase, ok, started, quiet, present, thread, consumer>> /\ ~quiet /\ present
      /\ main # "idle"
  BY DEF StepOfCall, StepOfFailure, ControlCall, SkControlInit, ThreadCreated, OpenRequestGate,
         CloseRequestGate, SetStop, SignalStop, Join, JoinFails, WdfIoQueuePurge, DrainHandles,
         ControlRefused, rest, fenceVars, consumerVars, QuietInv, CallInv
<1>2. (handle => creator = "created") /\ CallInv /\ PhaseInv
  BY DEF QuietInv
<1>3. ASSUME (handle => creator = "created")', CallInv', PhaseInv' PROVE QuietInv'
  BY <1>1, <1>3 DEF QuietInv
<1> USE DEF rest, fenceVars, consumerVars, wdfQueue
<1>4. CASE SkControlInit
  <2>1. creator = "idle" /\ phase = "control" /\ ~started /\ ~gateOpen /\ NoThread /\ ~handle
    BY <1>2, <1>4 DEF SkControlInit, OnceInv, CallInv, PhaseInv
  <2>2. CASE main' = "control.create"
    BY <1>1, <1>3, <1>4, <2>1, <2>2 DEF SkControlInit, CallInv, PhaseInv
  <2>3. CASE main' # "control.create"
    <3>1. main' = "idle" /\ result' = FALSE /\ creator' = creator /\ UNCHANGED <<gateOpen, handle>>
      BY <1>4, <2>3 DEF SkControlInit
    <3>2. NoThread'
      BY <1>1, <2>1, <3>1 DEF NoThread
    <3>3. QED
      BY <1>1, <1>3, <2>1, <3>1, <3>2 DEF CallInv, PhaseInv
  <2>4. QED
    BY <2>2, <2>3
<1>5. CASE ThreadCreated
  <2>1. phase = "control" /\ ~started /\ ~gateOpen /\ UNCHANGED <<creator, gateOpen>>
    BY <1>2, <1>5 DEF ThreadCreated, CallInv, PhaseInv
  <2>2. CASE creator = "created"
    BY <1>1, <1>3, <1>5, <2>1, <2>2 DEF ThreadCreated, CallInv, PhaseInv
  <2>3. CASE creator # "created"
    <3>1. creator = "failed" /\ main' = "idle" /\ result' = FALSE /\ handle' = FALSE
      BY <1>5, <2>3 DEF ThreadCreated
    <3>2. NoThread'
      BY <1>1, <2>1, <3>1 DEF NoThread, FenceInv, FencedThread
    <3>3. QED
      BY <1>1, <1>3, <2>1, <3>1, <3>2 DEF CallInv, PhaseInv
  <2>4. QED
    BY <2>2, <2>3
<1>6. CASE OpenRequestGate
  BY <1>1, <1>2, <1>3, <1>6 DEF OpenRequestGate, CallInv, PhaseInv
<1>7. CASE CloseRequestGate \/ SetStop \/ SignalStop
  BY <1>1, <1>2, <1>3, <1>7 DEF CloseRequestGate, SetStop, SignalStop, CallInv, PhaseInv
<1>8. CASE Join
  <2>1. NoThread'
    BY <1>1, <1>2, <1>8 DEF Join, NoThread, CallInv, FenceInv
  <2>2. QED
    BY <1>1, <1>2, <1>3, <1>8, <2>1 DEF Join, CallInv, PhaseInv
<1>9. CASE JoinFails
  BY <1>1, <1>2, <1>3, <1>9 DEF JoinFails, CallInv, PhaseInv
<1>10. CASE WdfIoQueuePurge
  <2>1. Shut'
    BY <1>1, <1>2, <1>10 DEF WdfIoQueuePurge, CancelAll, Shut, NoThread, CallInv
  <2>2. QED
    BY <1>1, <1>2, <1>3, <1>10, <2>1 DEF WdfIoQueuePurge, CallInv, PhaseInv
<1>11. CASE DrainHandles
  <2>1. Shut' /\ UNCHANGED <<handle, creator, gateOpen>> /\ phase = "quiesce"
        /\ main' \in {"idle", "control.record"}
    BY <1>1, <1>2, <1>11 DEF DrainHandles, Shut, NoThread, CallInv
  <2>2. QED
    BY <1>1, <1>2, <1>3, <2>1 DEF CallInv, PhaseInv, Shut
<1>12. CASE ControlRefused
  BY <1>1, <1>2, <1>3, <1>12 DEF ControlRefused, CallInv, PhaseInv
<1>13. QED
  BY <1>4, <1>5, <1>6, <1>7, <1>8, <1>9, <1>10, <1>11, <1>12
  DEF StepOfCall, StepOfFailure, ControlCall

\* The main thread outside the calls.
LEMMA MainKeepsQuiet == ASSUME QuietInv, MainStep \/ BeginUnload PROVE QuietInv'
<1> USE DEF locals, caller, Call
<1>1. (handle => creator = "created") /\ CallInv /\ PhaseInv
      /\ (phase # "unloaded" => present)
      /\ (quiet => Shut /\ phase \in {"others", "decide", "blocking", "parked", "destroy",
                                      "destroyDevice", "unloaded"})
  BY DEF QuietInv
<1>2. CASE DestroyDevice
  <2>1. main = "idle" /\ NoThread /\ phase' = "unloaded" /\ UNCHANGED <<caller, quiet>>
        /\ UNCHANGED <<handle, consumer, thread, creator>>
    BY <1>1, <1>2 DEF DestroyDevice, DeleteDevice, CallInv, PhaseInv, consumerVars, fenceVars
  <2>2. Shut'
    BY <1>2, <2>1 DEF DestroyDevice, DeleteDevice, CancelAll, Shut, NoThread
  <2>3. QED
    BY <1>1, <2>1, <2>2 DEF QuietInv, CallInv, PhaseInv, Shut
<1>3. ASSUME UNCHANGED controlVars
      PROVE  (NoThread => NoThread') /\ (Shut => Shut')
             /\ UNCHANGED <<handle, creator, present, gateOpen>>
  BY <1>3 DEF controlVars, NoThread, Shut, consumerVars, fenceVars, wdfQueue, lifetime
<1>4. CASE StartEarlier
  BY <1>1, <1>3, <1>4 DEF StartEarlier, QuietInv, CallInv, PhaseInv
<1>5. CASE ControlStarted
  BY <1>1, <1>3, <1>5 DEF ControlStarted, QuietInv, CallInv, PhaseInv
<1>6. CASE Activate
  BY <1>1, <1>3, <1>6 DEF Activate, QuietInv, CallInv, PhaseInv
<1>7. CASE BeginUnload
  BY <1>1, <1>3, <1>7 DEF BeginUnload, QuietInv, CallInv, PhaseInv
<1>8. CASE QuiesceOthers
  BY <1>1, <1>3, <1>8 DEF QuiesceOthers, OthersQuiet, QuietInv, CallInv, PhaseInv
<1>9. CASE RollBackOthers
  BY <1>1, <1>3, <1>9 DEF RollBackOthers, OthersQuiet, QuietInv, CallInv, PhaseInv
<1>10. CASE RollBackControl
  BY <1>1, <1>3, <1>10 DEF RollBackControl, QuietInv, CallInv, PhaseInv
<1>11. CASE ControlQuiesced
  <2>1. main = "idle" /\ UNCHANGED <<controlVars, caller, started>>
        /\ phase' \in {"others", "decide"} /\ quiet' = result /\ ok' = (ok /\ result)
        /\ phase = "quiesce"
    BY <1>11 DEF ControlQuiesced
  <2>2. result => Shut
    BY <1>1, <2>1 DEF PhaseInv
  <2>3. CallInv'
    BY <1>1, <1>3, <2>1 DEF CallInv
  <2>4. PhaseInv'
    BY <1>3, <2>1, <2>2 DEF PhaseInv, Shut
  <2>5. QED
    BY <1>1, <1>3, <2>1, <2>2, <2>3, <2>4 DEF QuietInv
<1>12. CASE Decide
  BY <1>1, <1>3, <1>12 DEF Decide, QuietInv, CallInv, PhaseInv
<1>13. CASE EnterUnloadBlocked
  BY <1>1, <1>3, <1>13 DEF EnterUnloadBlocked, QuietInv, CallInv, PhaseInv
<1>14. CASE DestroyOthers
  BY <1>1, <1>3, <1>14 DEF DestroyOthers, QuietInv, CallInv, PhaseInv
<1>15. QED
  BY <1>2, <1>4, <1>5, <1>6, <1>7, <1>8, <1>9, <1>10, <1>11, <1>12, <1>13, <1>14 DEF MainStep

LEMMA QuietNext == QuietInv /\ FenceInv /\ OnceInv /\ [Next]_vars => QuietInv'
  BY BesideKeepsQuiet, CallKeepsQuiet, MainKeepsQuiet DEF Next

\* For any requests and files: once SkControlQuiesce has returned TRUE, and whenever the
\* device is gone, the consumer has exited and no request waits or will be queued.
THEOREM NothingOutlivesQuiesce == Spec => []QuiescedIsQuiet
  BY FenceStarts, FenceNext, AnswersStart, AnswersNext, QuietStarts, QuietNext, QuietSuffices,
     PTL DEF Spec

-----------------------------------------------------------------------------
(***************************************************************************)
(* The causes.                                                             *)
(***************************************************************************)
\* Each thread that records has been given a place of its own in the order of the causes.
RecInv ==
  /\ recorded \in Seq(Causes) /\ gBlockHistoryCount = Len(recorded)
  /\ gBlockHistory \in [0 .. HistoryCap - 1 -> Causes \cup {None}]
  /\ rec \in [Recorders -> [at : {"idle", "store", "test", "first"},
                            why : Causes \cup {None}, idx : Nat]]
  /\ \A t \in Recorders :
       Recording(t) => /\ rec[t].idx < gBlockHistoryCount
                       /\ recorded[rec[t].idx + 1] = rec[t].why
  /\ \A i \in 0 .. HistoryCap - 1 :
       IF i < gBlockHistoryCount
         THEN \/ gBlockHistory[i] = recorded[i + 1]
              \/ \E t \in Recorders : rec[t].at = "store" /\ rec[t].idx = i
         ELSE gBlockHistory[i] = None
  /\ gBlockReason # None => \E i \in DOMAIN recorded : recorded[i] = gBlockReason

Blocked == gBlockReason # None \/ Recording(Main)

\* Whoever goes on without having succeeded has recorded a cause, or still records it.
CauseInv ==
  /\ Recording(Main) =>
       \/ main = "control.record"
       \/ main = "idle" /\ phase \in {"decide", "rollbackControl", "blocking"}
  /\ Recording(Callback) => callback = "recording"
  /\ ~ok \/ phase = "blocking" \/ main = "control.record" => Blocked
  /\ phase = "quiesce" /\ main = "idle" /\ ~result => Blocked
  /\ gState = "UNLOAD_BLOCKED" => gBlockReason # None

LEMMA Elements == RecInv => DOMAIN recorded = 1 .. gBlockHistoryCount /\ gBlockHistoryCount \in Nat
                            /\ \A i \in 1 .. gBlockHistoryCount : recorded[i] \in Causes
  BY LenProperties, ElementOfSeq DEF RecInv

LEMMA RecordBlockKeeps ==
  ASSUME RecInv, NEW t \in Recorders, ~Recording(t), NEW why \in Causes, RecordBlock(t, why)
  PROVE  RecInv' /\ Recording(t)' /\ gBlockReason' = gBlockReason
         /\ \A u \in Recorders \ {t} : Recording(u)' = Recording(u)
<1> DEFINE n == gBlockHistoryCount
<1>1. n \in Nat /\ DOMAIN recorded = 1 .. n /\ n = Len(recorded) /\ recorded \in Seq(Causes)
      /\ HistoryCap \in Nat
  BY Elements, RuntimeAssumption DEF RecInv
<1>2. recorded' \in Seq(Causes) /\ n' = n + 1 /\ n' = Len(recorded')
      /\ (\A i \in 1 .. n : recorded'[i] = recorded[i]) /\ recorded'[n + 1] = why
      /\ DOMAIN recorded' = 1 .. n + 1
  BY <1>1, AppendProperties, LenProperties DEF RecordBlock
<1>3. /\ rec' \in [Recorders -> [at : {"idle", "store", "test", "first"},
                                 why : Causes \cup {None}, idx : Nat]]
      /\ rec'[t] = [at |-> "store", why |-> why, idx |-> n]
      /\ \A u \in Recorders \ {t} : rec'[u] = rec[u]
      /\ UNCHANGED <<gBlockHistory, gBlockReason>>
  BY <1>1 DEF RecordBlock, RecInv
<1> HIDE DEF n
<1>4. ASSUME NEW u \in Recorders, Recording(u)'
      PROVE  rec'[u].idx < n' /\ recorded'[rec'[u].idx + 1] = rec'[u].why
  <2>1. CASE u = t
    BY <1>1, <1>2, <1>3, <2>1
  <2>2. CASE u # t
    <3>1. rec[u].idx \in Nat /\ rec[u].idx < n /\ recorded[rec[u].idx + 1] = rec[u].why
          /\ rec'[u] = rec[u]
      BY <1>3, <1>4, <2>2 DEF RecInv, Recording, n
    <3>2. rec[u].idx + 1 \in 1 .. n
      BY <1>1, <3>1
    <3>3. QED
      BY <1>1, <1>2, <3>1, <3>2
  <2>3. QED
    BY <2>1, <2>2
<1>5. ASSUME NEW i \in 0 .. HistoryCap - 1
      PROVE  IF i < n' THEN \/ gBlockHistory'[i] = recorded'[i + 1]
                            \/ \E u \in Recorders : rec'[u].at = "store" /\ rec'[u].idx = i
                       ELSE gBlockHistory'[i] = None
  <2>1. CASE i < n
    <3>1. i + 1 \in 1 .. n /\ i < n'
      BY <1>1, <1>2, <2>1
    <3>2. \/ gBlockHistory[i] = recorded[i + 1]
          \/ \E u \in Recorders : rec[u].at = "store" /\ rec[u].idx = i
      BY <2>1 DEF RecInv, n
    <3>3. ASSUME NEW u \in Recorders, rec[u].at = "store" PROVE rec'[u] = rec[u]
      BY <1>3, <3>3 DEF Recording
    <3>4. QED
      BY <1>2, <1>3, <3>1, <3>2, <3>3
  <2>2. CASE i = n
    BY <1>1, <1>2, <1>3, <2>2
  <2>3. CASE i > n
    <3>1. ~(i < n) /\ ~(i < n')
      BY <1>1, <1>2, <2>3
    <3>2. QED
      BY <1>3, <3>1 DEF RecInv, n
  <2>4. QED
    BY <1>1, <2>1, <2>2, <2>3
<1>6. gBlockReason' # None => \E i \in DOMAIN recorded' : recorded'[i] = gBlockReason'
  <2> SUFFICES ASSUME gBlockReason' # None
               PROVE  \E i \in DOMAIN recorded' : recorded'[i] = gBlockReason'
    OBVIOUS
  <2>1. PICK i \in DOMAIN recorded : recorded[i] = gBlockReason
    BY <1>3 DEF RecInv
  <2>2. i \in DOMAIN recorded' /\ recorded'[i] = gBlockReason'
    BY <1>1, <1>2, <1>3, <2>1
  <2>3. QED
    BY <2>2
<1>7. RecInv'
  BY <1>2, <1>3, <1>4, <1>5, <1>6 DEF RecInv, n
<1>8. QED
  BY <1>3, <1>7 DEF Recording

LEMMA RecordStepKeeps ==
  ASSUME RecInv, NEW t \in Recorders, RecordStep(t)
  PROVE  /\ RecInv' /\ UNCHANGED <<gState, caller>>
         /\ gBlockReason # None => gBlockReason' # None
         /\ \A u \in Recorders : Recording(u)' => Recording(u)
         /\ \A u \in Recorders : Recording(u) /\ ~Recording(u)' => gBlockReason' # None
<1>1. rec[t] \in [at : {"idle", "store", "test", "first"}, why : Causes \cup {None}, idx : Nat]
      /\ HistoryCap \in Nat
  BY RuntimeAssumption DEF RecInv
<1>2. Recording(t) /\ UNCHANGED <<gState, caller, gBlockHistoryCount, recorded>>
  BY DEF RecordStep, StoreCause, TestCause, FirstCause, Recording
<1>3. rec[t].idx < gBlockHistoryCount /\ recorded[rec[t].idx + 1] = rec[t].why
      /\ rec[t].idx + 1 \in DOMAIN recorded /\ rec[t].why \in Causes
  <2>1. rec[t].idx < gBlockHistoryCount /\ recorded[rec[t].idx + 1] = rec[t].why
    BY <1>2 DEF RecInv
  <2>2. rec[t].idx + 1 \in 1 .. gBlockHistoryCount
    BY <1>1, <2>1, Elements
  <2>3. QED
    BY <2>1, <2>2, Elements
<1>4. CASE StoreCause(t)
  <2>1. /\ rec' \in [Recorders -> [at : {"idle", "store", "test", "first"},
                                   why : Causes \cup {None}, idx : Nat]]
        /\ rec'[t].at = "test" /\ rec'[t].why = rec[t].why /\ rec'[t].idx = rec[t].idx
        /\ \A u \in Recorders \ {t} : rec'[u] = rec[u]
        /\ rec[t].at = "store" /\ gBlockReason' = gBlockReason
    BY <1>4 DEF StoreCause, RecInv
  <2>2. /\ gBlockHistory' \in [0 .. HistoryCap - 1 -> Causes \cup {None}]
        /\ \A i \in 0 .. HistoryCap - 1 :
             gBlockHistory'[i] = IF i = rec[t].idx THEN rec[t].why ELSE gBlockHistory[i]
    BY <1>1, <1>3, <1>4 DEF StoreCause, RecInv
  <2>3. ASSUME NEW i \in 0 .. HistoryCap - 1
        PROVE  IF i < gBlockHistoryCount
                 THEN \/ gBlockHistory'[i] = recorded[i + 1]
                      \/ \E u \in Recorders : rec'[u].at = "store" /\ rec'[u].idx = i
                 ELSE gBlockHistory'[i] = None
    <3>1. CASE i = rec[t].idx
      BY <1>3, <2>2, <3>1
    <3>2. CASE i # rec[t].idx
      <4>1. gBlockHistory'[i] = gBlockHistory[i]
        BY <2>2, <3>2
      <4>2. ASSUME NEW u \in Recorders, rec[u].idx = i PROVE rec'[u] = rec[u]
        BY <2>1, <3>2, <4>2
      <4>3. IF i < gBlockHistoryCount
              THEN \/ gBlockHistory[i] = recorded[i + 1]
                   \/ \E u \in Recorders : rec[u].at = "store" /\ rec[u].idx = i
              ELSE gBlockHistory[i] = None
        BY DEF RecInv
      <4>4. QED
        BY <4>1, <4>2, <4>3
    <3>3. QED
      BY <3>1, <3>2
  <2>4. ASSUME NEW u \in Recorders
        PROVE  Recording(u)' = Recording(u) /\ rec'[u].idx = rec[u].idx /\ rec'[u].why = rec[u].why
    BY <2>1 DEF Recording
  <2>5. RecInv'
    BY <1>2, <2>1, <2>2, <2>3, <2>4 DEF RecInv
  <2>6. QED
    BY <1>2, <2>1, <2>4, <2>5
<1>5. CASE TestCause(t) \/ FirstCause(t)
  <2>1. /\ rec' \in [Recorders -> [at : {"idle", "store", "test", "first"},
                                   why : Causes \cup {None}, idx : Nat]]
        /\ rec'[t].at # "store"
        /\ rec'[t].at # "idle" => rec'[t].why = rec[t].why /\ rec'[t].idx = rec[t].idx
        /\ \A u \in Recorders \ {t} : rec'[u] = rec[u]
        /\ rec[t].at # "store" /\ gBlockHistory' = gBlockHistory
    BY <1>5 DEF TestCause, FirstCause, RecInv, Idle
  <2>2. /\ rec'[t].at = "idle" => gBlockReason' # None
        /\ gBlockReason' \in {gBlockReason, rec[t].why}
    BY <1>3, <1>5, CallbackAssumption DEF TestCause, FirstCause, RecInv, Idle
  <2>3. gBlockReason' # None => \E i \in DOMAIN recorded : recorded[i] = gBlockReason'
    <3>1. CASE gBlockReason' = gBlockReason
      BY <3>1 DEF RecInv
    <3>2. CASE gBlockReason' = rec[t].why
      BY <1>3, <3>2
    <3>3. QED
      BY <2>2, <3>1, <3>2
  <2>4. ASSUME NEW i \in 0 .. HistoryCap - 1
        PROVE  IF i < gBlockHistoryCount
                 THEN \/ gBlockHistory'[i] = recorded[i + 1]
                      \/ \E u \in Recorders : rec'[u].at = "store" /\ rec'[u].idx = i
                 ELSE gBlockHistory'[i] = None
    <3>1. ASSUME NEW u \in Recorders, rec[u].at = "store" PROVE rec'[u] = rec[u]
      BY <2>1, <3>1
    <3>2. IF i < gBlockHistoryCount
            THEN \/ gBlockHistory[i] = recorded[i + 1]
                 \/ \E u \in Recorders : rec[u].at = "store" /\ rec[u].idx = i
            ELSE gBlockHistory[i] = None
      BY DEF RecInv
    <3>3. QED
      BY <2>1, <3>1, <3>2
  <2>5. ASSUME NEW u \in Recorders, Recording(u)'
        PROVE  /\ Recording(u)
               /\ rec'[u].idx < gBlockHistoryCount /\ recorded[rec'[u].idx + 1] = rec'[u].why
    <3>1. CASE u = t
      BY <1>2, <1>3, <2>1, <2>5, <3>1 DEF Recording
    <3>2. CASE u # t
      BY <2>1, <2>5, <3>2 DEF Recording, RecInv
    <3>3. QED
      BY <3>1, <3>2
  <2>6. RecInv'
    BY <1>2, <2>1, <2>3, <2>4, <2>5 DEF RecInv
  <2>7. gBlockReason # None => gBlockReason' # None
    BY <1>3, <2>2, CallbackAssumption
  <2>8. ASSUME NEW u \in Recorders, Recording(u), ~Recording(u)' PROVE gBlockReason' # None
    BY <2>1, <2>2, <2>8 DEF Recording
  <2>9. QED
    BY <1>2, <2>5, <2>6, <2>7, <2>8
<1>6. QED
  BY <1>4, <1>5 DEF RecordStep

LEMMA CauseSuffices == RecInv /\ CauseInv => HistoryComplete
  BY DEF RecInv, CauseInv, HistoryComplete

LEMMA CauseStarts == Init => RecInv /\ CauseInv
<1> SUFFICES ASSUME Init PROVE RecInv /\ CauseInv
  OBVIOUS
<1>1. Idle \in [at : {"idle", "store", "test", "first"}, why : Causes \cup {None}, idx : Nat]
      /\ Idle.at = "idle"
  BY DEF Idle
<1> HIDE DEF Idle
<1>2. <<>> \in Seq(Causes) /\ Len(<<>>) = 0
  OBVIOUS
<1>3. Main \in Recorders /\ Callback \in Recorders /\ HistoryCap \in Nat
  BY RuntimeAssumption, CallbackAssumption
<1>4. QED
  BY <1>1, <1>2, <1>3 DEF Init, RuntimeInit, RecInv, CauseInv, Recording, Blocked

\* A step that records nothing.
LEMMA SilentKeeps ==
  ASSUME RecInv, UNCHANGED blockVars
  PROVE  /\ RecInv' /\ \A u \in Recorders : Recording(u)' = Recording(u)
         /\ (Blocked' <=> Blocked) /\ gBlockReason' = gBlockReason
<1> USE DEF blockVars
<1>1. RecInv' /\ \A u \in Recorders : Recording(u)' = Recording(u)
  BY DEF RecInv, Recording
<1>2. Blocked' <=> Blocked
  BY DEF Blocked, Recording
<1>3. QED
  BY <1>1, <1>2

LEMMA SecondCause ==
  ASSUME RecInv, gBlockReason # None
  PROVE  gBlockReason \in Causes
<1>1. PICK i \in DOMAIN recorded : recorded[i] = gBlockReason
  BY DEF RecInv
<1>2. QED
  BY <1>1, Elements

\* The main thread records.
LEMMA MainRecords ==
  ASSUME RecInv, CauseInv, ~Recording(Main), NEW why \in Causes, RecordBlock(Main, why)
  PROVE  RecInv' /\ Recording(Main)' /\ Blocked' /\ Recording(Callback)' = Recording(Callback)
         /\ gBlockReason' = gBlockReason
<1>1. Main \in Recorders /\ Callback \in Recorders \ {Main}
  BY CallbackAssumption DEF Main, Callback
<1>2. QED
  BY <1>1, RecordBlockKeeps DEF Blocked

\* The threads beside the main thread.
LEMMA BesideKeepsCause ==
  ASSUME RecInv, CauseInv,
         \/ StepOfConsumer \/ StepOfFence \/ StepOfFramework \/ StepOfUser \/ StepOfRecord
         \/ CallbackRecords \/ CallbackEnds \/ Ended \/ UNCHANGED vars
  PROVE  RecInv' /\ CauseInv'
<1>1. Main \in Recorders /\ Callback \in Recorders /\ Main # Callback
      /\ Recorders = {Main, Callback}
  BY CallbackAssumption DEF Main, Callback
<1>2. UNCHANGED <<main, result, phase, ok>>
  BY DEF StepOfConsumer, ConsumerStep, EnterBody, Retrieve, CheckStop, PassGate, Execute,
         Refuse, AnswerQuery, Modify, Answer, StopOrWait, Wake, fixed, StepOfFence,
         StepOfFramework, SkIoctlEvtQueueReady, StepOfUser, UserStep, FileCreate, FileDestroy,
         Post, Cancel, StepOfRecord, RecordStep, StoreCause, TestCause, FirstCause,
         CallbackRecords, CallbackEnds, Ended, vars, locals, caller
<1>3. ASSUME UNCHANGED <<gState, blockVars>>, callback' = callback \/ ~Recording(Callback)
      PROVE  RecInv' /\ CauseInv'
  <2>1. RecInv' /\ Recording(Main)' = Recording(Main) /\ Recording(Callback)' = Recording(Callback)
        /\ (Blocked' <=> Blocked) /\ gBlockReason' = gBlockReason
    BY <1>1, <1>3, SilentKeeps
  <2>2. QED
    BY <1>2, <1>3, <2>1 DEF CauseInv
<1>4. CASE \/ StepOfConsumer \/ StepOfFence \/ StepOfFramework \/ StepOfUser \/ CallbackEnds
           \/ Ended \/ UNCHANGED vars
  <2>1. UNCHANGED <<gState, blockVars>> /\ (callback' = callback \/ ~Recording(Callback))
    BY <1>4
    DEF StepOfConsumer, ConsumerStep, EnterBody, Retrieve, CheckStop, PassGate, Execute,
        Refuse, AnswerQuery, Modify, Answer, StopOrWait, Wake, fixed, StepOfFence,
        StepOfFramework, SkIoctlEvtQueueReady, StepOfUser, UserStep, FileCreate, FileDestroy,
        Post, Cancel, CallbackEnds, Ended, vars, locals, runtimeVars
  <2>2. QED
    BY <1>3, <2>1
<1>5. CASE StepOfRecord
  <2>1. PICK t \in Recorders : RecordStep(t)
    BY <1>5 DEF StepOfRecord
  <2>2. /\ RecInv' /\ UNCHANGED <<gState, callback>>
        /\ gBlockReason # None => gBlockReason' # None
        /\ Recording(Main)' => Recording(Main)
        /\ Recording(Callback)' => Recording(Callback)
        /\ Recording(Main) /\ ~Recording(Main)' => gBlockReason' # None
    BY <1>1, <1>5, <2>1, RecordStepKeeps DEF StepOfRecord, locals
  <2>3. Blocked => Blocked'
    BY <2>2 DEF Blocked
  <2>4. QED
    BY <1>2, <2>2, <2>3 DEF CauseInv
<1>6. CASE CallbackRecords
  <2>1. ~Recording(Callback) /\ "ENGINE_CLOSE" \in Causes /\ RecordBlock(Callback, "ENGINE_CLOSE")
        /\ gState' = gState /\ callback' = "recording"
    BY <1>6 DEF CallbackRecords, CauseInv, Causes
  <2>2. RecInv' /\ Recording(Main)' = Recording(Main) /\ gBlockReason' = gBlockReason
    BY <1>1, <2>1, RecordBlockKeeps
  <2>3. Blocked => Blocked'
    BY <2>2 DEF Blocked
  <2>4. QED
    BY <1>2, <2>1, <2>2, <2>3 DEF CauseInv
<1>7. QED
  BY <1>4, <1>5, <1>6

\* A call of the control plane records a cause before it fails.
LEMMA CallKeepsCause ==
  ASSUME RecInv, CauseInv, QuietInv, StepOfCall \/ StepOfFailure
  PROVE  RecInv' /\ CauseInv'
<1>1. Main \in Recorders /\ Callback \in Recorders
  BY CallbackAssumption
<1>2. UNCHANGED <<phase, ok, callback, gState>> /\ main # "idle"
  BY DEF StepOfCall, StepOfFailure, locals, ControlCall, SkControlInit, ThreadCreated,
         OpenRequestGate, CloseRequestGate, SetStop, SignalStop, Join, JoinFails,
         WdfIoQueuePurge, DrainHandles, ControlRefused, rest, runtimeVars
<1>3. main # "control.record" => ~Recording(Main)
  BY <1>2 DEF CauseInv
<1>4. CASE main' = "control.record"
  <2>1. PICK why \in Causes : RecordBlock(Main, why)
    BY <1>2, <1>4
    DEF StepOfCall, StepOfFailure, ControlCall, SkControlInit, ThreadCreated, OpenRequestGate,
        CloseRequestGate, SetStop, SignalStop, Join, JoinFails, WdfIoQueuePurge, DrainHandles,
        ControlRefused, Return, Causes
  <2>2. main # "control.record"
    BY <1>2, <1>4
    DEF StepOfCall, StepOfFailure, ControlCall, SkControlInit, ThreadCreated, OpenRequestGate,
        CloseRequestGate, SetStop, SignalStop, Join, JoinFails, WdfIoQueuePurge, DrainHandles,
        ControlRefused, Return
  <2>3. RecInv' /\ Recording(Main)' /\ Blocked' /\ Recording(Callback)' = Recording(Callback)
        /\ gBlockReason' = gBlockReason
    BY <1>3, <2>1, <2>2, MainRecords
  <2>4. QED
    BY <1>2, <1>4, <2>3 DEF CauseInv
<1>5. CASE main' # "control.record"
  <2>1. UNCHANGED blockVars
    BY <1>5
    DEF StepOfCall, StepOfFailure, ControlCall, SkControlInit, ThreadCreated, OpenRequestGate,
        CloseRequestGate, SetStop, SignalStop, Join, JoinFails, WdfIoQueuePurge, DrainHandles,
        ControlRefused, Return, rest, runtimeVars
  <2>2. RecInv' /\ Recording(Main)' = Recording(Main) /\ Recording(Callback)' = Recording(Callback)
        /\ (Blocked' <=> Blocked) /\ gBlockReason' = gBlockReason
    BY <1>1, <2>1, SilentKeeps
  <2>3. ~Recording(Main)
    BY <1>3, <1>5
    DEF StepOfCall, StepOfFailure, ControlCall, SkControlInit, ThreadCreated, OpenRequestGate,
        CloseRequestGate, SetStop, SignalStop, Join, JoinFails, WdfIoQueuePurge, DrainHandles,
        ControlRefused, Return
  <2>4. phase = "quiesce" /\ main' = "idle" /\ ~result' => Blocked
    <3>1. phase = "quiesce" => main \notin {"control.init", "control.create", "control.open"}
      BY DEF QuietInv, CallInv
    <3>2. phase = "quiesce" /\ main' = "idle" => result' = TRUE \/ main = "control.record"
      BY <3>1
      DEF StepOfCall, StepOfFailure, ControlCall, SkControlInit, ThreadCreated, OpenRequestGate,
          CloseRequestGate, SetStop, SignalStop, Join, JoinFails, WdfIoQueuePurge, DrainHandles,
          ControlRefused, Return
    <3>3. QED
      BY <3>2 DEF CauseInv
  <2>5. QED
    BY <1>2, <1>5, <2>2, <2>3, <2>4 DEF CauseInv
<1>6. QED
  BY <1>4, <1>5

\* The main thread outside the calls.
LEMMA MainKeepsCause ==
  ASSUME RecInv, CauseInv, QuietInv, MainStep \/ BeginUnload
  PROVE  RecInv' /\ CauseInv'
<1>1. Main \in Recorders /\ Callback \in Recorders
  BY CallbackAssumption
<1> USE DEF caller, Call
<1>2. ASSUME UNCHANGED blockVars
      PROVE  RecInv' /\ Recording(Main)' = Recording(Main)
             /\ Recording(Callback)' = Recording(Callback)
             /\ (Blocked' <=> Blocked) /\ gBlockReason' = gBlockReason
  BY <1>1, <1>2, SilentKeeps
<1>3. CASE StartEarlier \/ BeginUnload \/ Activate \/ ControlStarted
  <2>1. UNCHANGED blockVars /\ UNCHANGED <<ok, callback>>
        /\ phase \in {"start", "run", "activate", "control"}
        /\ phase' \in {"control", "rollback", "quiesce", "run", "activate"}
        /\ (phase' = "quiesce" => main' # "idle") /\ main' # "control.record"
        /\ (gState' = "UNLOAD_BLOCKED" => gState = "UNLOAD_BLOCKED")
    BY <1>3
    DEF StartEarlier, BeginUnload, Activate, ControlStarted, runtimeVars, ShRuntimeActivate,
        ShRuntimeBeginTeardown, QuietInv, CallInv
  <2>2. ~Recording(Main)
    BY <2>1 DEF CauseInv, QuietInv, CallInv
  <2>3. QED
    BY <1>2, <2>1, <2>2 DEF CauseInv
<1>4. ASSUME phase \in {"others", "rollback", "decide", "destroy", "blocking", "quiesce",
                       "rollbackControl", "destroyDevice"}, phase # "quiesce" \/ main = "idle"
      PROVE  main = "idle"
  BY <1>4 DEF QuietInv, CallInv
<1>5. CASE QuiesceOthers \/ RollBackOthers
  <2>1. phase \in {"others", "rollback"} /\ phase' \in {"decide", "rollbackControl"}
        /\ UNCHANGED <<gState, main, result, callback>> /\ OthersQuiet
    BY <1>5 DEF QuiesceOthers, RollBackOthers
  <2>2. main = "idle" /\ ~Recording(Main)
    BY <1>4, <2>1 DEF CauseInv
  <2>3. CASE UNCHANGED blockVars
    <3>1. ~ok' => Blocked
      BY <2>1, <2>2, <2>3 DEF OthersQuiet, CauseInv, Blocked, RecordBlock, blockVars, Recording
    <3>2. QED
      BY <1>2, <2>1, <2>2, <2>3, <3>1 DEF CauseInv
  <2>4. CASE RecordBlock(Main, "OTHER_SUBSYSTEM")
    <3>1. RecInv' /\ Blocked' /\ Recording(Callback)' = Recording(Callback)
          /\ gBlockReason' = gBlockReason
      <4>1. "OTHER_SUBSYSTEM" \in Causes
        BY DEF Causes
      <4>2. QED
        BY <2>2, <2>4, <4>1, MainRecords
    <3>2. QED
      BY <2>1, <2>2, <3>1 DEF CauseInv
  <2>5. QED
    BY <2>1, <2>3, <2>4 DEF OthersQuiet
<1>6. CASE RollBackControl
  <2>1. /\ phase = "rollbackControl" /\ phase' \in {"quiesce", "decide"} /\ ~Recording(Main)
        /\ UNCHANGED <<blockVars, gState, ok, callback>> /\ main' # "control.record"
        /\ (phase' = "quiesce" => main' # "idle") /\ (phase' # "quiesce" => main' = main)
    BY <1>4, <1>6 DEF RollBackControl, runtimeVars
  <2>2. QED
    BY <1>2, <2>1 DEF CauseInv
<1>7. CASE ControlQuiesced
  <2>1. /\ phase = "quiesce" /\ phase' \in {"others", "decide"} /\ main = "idle"
        /\ UNCHANGED <<blockVars, gState, main, result, callback>> /\ ok' = (ok /\ result)
    BY <1>7 DEF ControlQuiesced, runtimeVars
  <2>2. QED
    BY <1>2, <2>1 DEF CauseInv
<1>8. CASE Decide
  <2>1. /\ phase = "decide" /\ ~Recording(Main) /\ main = "idle"
        /\ UNCHANGED <<main, result, ok, callback>>
    BY <1>4, <1>8 DEF Decide
  <2>2. CASE ok
    <3>1. UNCHANGED blockVars /\ phase' = "destroy"
          /\ (gState' = "UNLOAD_BLOCKED" => gState = "UNLOAD_BLOCKED")
      BY <1>8, <2>2 DEF Decide, ShRuntimeEnterQuiescent
    <3>2. QED
      BY <1>2, <2>1, <2>2, <3>1 DEF CauseInv
  <2>3. CASE ~ok
    <3>1. RecordBlock(Main, gBlockReason) /\ phase' = "blocking" /\ gState' = gState
      BY <1>8, <2>3 DEF Decide
    <3>2. gBlockReason \in Causes
      BY <2>1, <2>3, SecondCause DEF CauseInv, Blocked
    <3>3. RecInv' /\ Recording(Main)' /\ Blocked' /\ Recording(Callback)' = Recording(Callback)
          /\ gBlockReason' = gBlockReason
      BY <2>1, <3>1, <3>2, MainRecords
    <3>4. QED
      BY <2>1, <3>1, <3>3 DEF CauseInv
  <2>4. QED
    BY <2>2, <2>3
<1>9. CASE EnterUnloadBlocked
  <2>1. /\ phase = "blocking" /\ phase' = "parked" /\ ~Recording(Main)
        /\ UNCHANGED <<blockVars, main, result, ok, callback>>
    BY <1>9 DEF EnterUnloadBlocked
  <2>2. gBlockReason # None
    BY <2>1 DEF CauseInv, Blocked
  <2>3. QED
    BY <1>2, <2>1, <2>2 DEF CauseInv
<1>10. CASE DestroyOthers
  <2>1. /\ phase = "destroy" /\ phase' \in {"destroyDevice", "blocking"} /\ ~Recording(Main)
        /\ UNCHANGED <<gState, main, result, ok, callback>> /\ main = "idle"
    BY <1>4, <1>10 DEF DestroyOthers, CauseInv
  <2>2. CASE UNCHANGED blockVars /\ phase' = "destroyDevice"
    BY <1>2, <2>1, <2>2 DEF CauseInv
  <2>3. CASE RecordBlock(Main, "RUNDOWN_STUCK") /\ phase' = "blocking"
    <3>1. RecInv' /\ Recording(Main)' /\ Blocked' /\ Recording(Callback)' = Recording(Callback)
          /\ gBlockReason' = gBlockReason
      <4>1. "RUNDOWN_STUCK" \in Causes
        BY DEF Causes
      <4>2. QED
        BY <2>1, <2>3, <4>1, MainRecords
    <3>2. QED
      BY <2>1, <2>3, <3>1 DEF CauseInv
  <2>4. QED
    BY <1>10, <2>2, <2>3 DEF DestroyOthers
<1>11. CASE DestroyDevice
  <2>1. /\ phase = "destroyDevice" /\ phase' = "unloaded"
        /\ UNCHANGED <<blockVars, gState, main, result, ok, callback>>
    BY <1>11 DEF DestroyDevice, runtimeVars
  <2>2. main = "idle" /\ ~Recording(Main)
    BY <1>4, <2>1 DEF CauseInv
  <2>3. QED
    BY <1>2, <2>1, <2>2 DEF CauseInv
<1>12. QED
  BY <1>3, <1>5, <1>6, <1>7, <1>8, <1>9, <1>10, <1>11 DEF MainStep

LEMMA CauseNext == RecInv /\ CauseInv /\ QuietInv /\ [Next]_vars => RecInv' /\ CauseInv'
  BY BesideKeepsCause, CallKeepsCause, MainKeepsCause DEF Next

\* For any capacity of the history: every place that was given out holds the cause counted
\* there or awaits it, and an unload is refused only with a cause.
THEOREM CausesAreKept == Spec => []HistoryComplete
  BY FenceStarts, FenceNext, QuietStarts, QuietNext, CauseStarts, CauseNext, CauseSuffices,
     PTL DEF Spec
=============================================================================
