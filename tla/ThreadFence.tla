---------------------------- MODULE ThreadFence ----------------------------
(***************************************************************************)
(* ShThreadCreateFenced (runtime/runtime.c): the creator of a system       *)
(* thread decides by two events in a block they share whether the thread   *)
(* runs its body or exits; the thread frees the block.                     *)
(***************************************************************************)
VARIABLES
  creator,   \* control point of the creating thread; "created" and "failed" are its returns
  thread,    \* the new thread: "none", at the fence, in its body, "dead"
  block,     \* the SHINKEN_THREAD_STARTUP block: "none", "live", "freed"
  gates      \* the events set in the block

fenceVars == <<creator, thread, block, gates>>

FenceInit ==
  /\ creator = "idle" /\ thread = "none" /\ block = "none" /\ gates = {}

-----------------------------------------------------------------------------
(***************************************************************************)
(* The creator.                                                            *)
(***************************************************************************)
AllocateBlock ==
  /\ creator = "begin"
  /\ \/ block' = "live" /\ gates' = {} /\ creator' = "spawn"
     \/ creator' = "failed" /\ UNCHANGED <<block, gates>>
  /\ UNCHANGED thread

\* PsCreateSystemThread; a thread that was never spawned leaves the block to the creator.
Spawn ==
  /\ creator = "spawn"
  /\ \/ thread' = "fence" /\ creator' = "reference" /\ UNCHANGED block
     \/ block' = "freed" /\ creator' = "failed" /\ UNCHANGED thread
  /\ UNCHANGED gates

\* ObReferenceObjectByHandle.
Reference ==
  /\ creator = "reference"
  /\ creator' \in {"open", "abort"}
  /\ UNCHANGED <<thread, block, gates>>

OpenGate ==
  /\ creator = "open"
  /\ gates' = gates \cup {"startup"}
  /\ creator' = "created"
  /\ UNCHANGED <<thread, block>>

\* Mutant: the aborted thread is not waited for.
AbortOnly ==
  /\ creator = "abort"
  /\ gates' = gates \cup {"abort"}
  /\ creator' = "failed"
  /\ UNCHANGED <<thread, block>>

AbortGate ==
  /\ creator = "abort"
  /\ gates' = gates \cup {"abort"}
  /\ creator' = "reap"
  /\ UNCHANGED <<thread, block>>

\* ZwWaitForSingleObject on the handle that was kept.
Reap ==
  /\ creator = "reap" /\ thread = "dead"
  /\ creator' = "failed"
  /\ UNCHANGED <<thread, block, gates>>

CreatorStep == AllocateBlock \/ Spawn \/ Reference \/ OpenGate \/ AbortGate \/ Reap

-----------------------------------------------------------------------------
(***************************************************************************)
(* shkThreadFenceWrapper.                                                  *)
(***************************************************************************)
\* The wait ends; which of the events ended it decides what becomes of the thread.
WakeAtFence ==
  /\ thread = "fence" /\ gates # {}
  /\ thread' = IF "startup" \in gates THEN "started" ELSE "aborted"
  /\ UNCHANGED <<creator, block, gates>>

\* Frees the block on every path, then runs the body or exits.
LeaveFence ==
  /\ thread \in {"started", "aborted"}
  /\ block' = "freed"
  /\ thread' = IF thread = "started" THEN "body" ELSE "dead"
  /\ UNCHANGED <<creator, gates>>

FenceStep == WakeAtFence \/ LeaveFence

FenceTypeOK ==
  /\ creator \in {"idle", "begin", "spawn", "reference", "open", "abort", "reap",
                  "created", "failed"}
  /\ thread \in {"none", "fence", "started", "aborted", "body", "dead"}
  /\ block \in {"none", "live", "freed"} /\ gates \subseteq {"startup", "abort"}

\* "The wrapper exits without running the body; no untracked thread survives": whoever
\* waits at the fence or is about to decide finds the block allocated; the body runs
\* only after the creation has succeeded; a failed creation leaves neither thread nor block.
FencedThread ==
  /\ creator \in {"spawn", "reference", "open", "abort"} => block = "live"
  /\ thread \in {"fence", "started", "aborted"} => block = "live"
  /\ thread \in {"started", "body"} => creator = "created"
  /\ creator = "failed" => thread \in {"none", "dead"} /\ block # "live"
=============================================================================
