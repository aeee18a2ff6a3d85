----------------------------- MODULE WfpManager -----------------------------
(***************************************************************************)
(* The WFP object manager of wfp/wfp_manager.c and wfp/wfp_objects.c:      *)
(* SkWfpManagerInstall, its rollback and SkWfpManagerTeardown, each under  *)
(* the install mutex, with every call to WFP free to fail.                 *)
(*                                                                         *)
(* What the manager believes of an object (its state and its ids) is kept  *)
(* apart from what is the case in the kernel (registered, sessions): the   *)
(* module is about the two drifting apart.                                 *)
(***************************************************************************)
EXTENDS Integers

CONSTANTS
  LayerCount,   \* SK_LAYER_COUNT
  Callers,      \* the threads that call the manager
  NoCaller

ASSUME WfpAssumption == LayerCount \in Nat \ {0} /\ NoCaller \notin Callers

Layers == 1 .. LayerCount
Engine == <<"engine", 0>>
Provider == <<"provider", 0>>
SubLayer == <<"sublayer", 0>>
Callout(l) == <<"callout", l>>
Filter(l) == <<"filter", l>>
Objects == {Engine, Provider, SubLayer} \cup ({"callout", "filter"} \X Layers)

\* QUIESCING is left and entered within one call; PREPARED is never entered.
States == {"UNINITIALIZED", "REGISTERED", "ACTIVE", "DELETED", "FAILED", "LEAKED"}

VARIABLES
  mutex,        \* installMutex
  op, layer,    \* control point of the call under way, and its loop index
  clean,        \* its local "clean" or "ok"
  result,       \* what it returns
  installed, engine, st,
  calloutId, filterId,   \* the layers whose id is not zero
  registered,   \* the layers whose callout the kernel holds
  sessions,     \* the engine sessions that are open
  lost,         \* layers whose callout, registered, could not be added and was forgotten
  abandoned     \* layers whose callout a rollback could not unregister

objs == <<installed, engine, st, calloutId, filterId>>
kernel == <<registered, sessions, lost, abandoned>>
wfpVars == <<mutex, op, layer, clean, result, objs, kernel>>

WfpInit ==
  /\ mutex = NoCaller /\ op = "none" /\ layer = 0 /\ clean = TRUE /\ result = "none"
  /\ installed = FALSE /\ engine = FALSE
  /\ st = [o \in Objects |-> "UNINITIALIZED"]
  /\ calloutId = {} /\ filterId = {}
  /\ registered = {} /\ sessions = 0 /\ lost = {} /\ abandoned = {}

OnTheBooks(o) == st[o] \in {"REGISTERED", "ACTIVE"}

Returns(r) == op' = "return" /\ result' = r
Continues(next) == op' = next /\ UNCHANGED result

\* The state of an object whose removal did or did not succeed.
Removed(ok) == IF ok THEN "DELETED" ELSE "LEAKED"

\* The caller takes the result, the locals are gone and the mutex is free.
Unlock(c) ==
  /\ mutex = c /\ op = "return"
  /\ mutex' = NoCaller /\ op' = "none" /\ result' = "none"
  /\ layer' = 0 /\ clean' = TRUE
  /\ UNCHANGED <<objs, kernel>>

-----------------------------------------------------------------------------
(***************************************************************************)
(* SkWfpManagerInstall.                                                    *)
(***************************************************************************)
\* Mutant: leaked objects do not stop a new installation.
NoneLeaked == FALSE

AnyLeaked == \E o \in Objects : st[o] = "LEAKED"

\* Installed: nothing to do.  Something leaked: refused.  Else every object is reset
\* and the engine opened.
InstallBegin(c) ==
  /\ mutex = NoCaller
  /\ mutex' = c
  /\ IF installed \/ AnyLeaked
       THEN /\ Returns(IF installed THEN "SUCCESS" ELSE "FAILED")
            /\ UNCHANGED <<layer, clean, objs, kernel>>
       ELSE \E ok \in BOOLEAN :
              /\ st' = [o \in Objects |-> IF o # Engine THEN "UNINITIALIZED"
                                          ELSE IF ok THEN "REGISTERED" ELSE "FAILED"]
              /\ engine' = ok
              /\ calloutId' = {} /\ filterId' = {}
              /\ sessions' = IF ok THEN sessions + 1 ELSE sessions
              /\ IF ok THEN Continues("begin") ELSE Returns("FAILED")
              /\ layer' = 1 /\ clean' = TRUE
              /\ UNCHANGED <<installed, registered, lost, abandoned>>

\* A step of the installation that adds object o: the next one, or the rollback.
Adds(o, ok, next) ==
  /\ st' = [st EXCEPT ![o] = IF ok THEN "REGISTERED" ELSE "FAILED"]
  /\ Continues(IF ok THEN next ELSE "rollback")
  /\ layer' = IF ok THEN layer ELSE LayerCount

TransactionBegin ==
  /\ op = "begin"
  /\ \E ok \in BOOLEAN :
       /\ Continues(IF ok THEN "provider" ELSE "rollback")
       /\ layer' = IF ok THEN layer ELSE LayerCount
  /\ UNCHANGED <<mutex, clean, objs, kernel>>

AddProvider ==
  /\ op = "provider"
  /\ \E ok \in BOOLEAN : Adds(Provider, ok, "sublayer")
  /\ UNCHANGED <<mutex, clean, installed, engine, calloutId, filterId, kernel>>

AddSubLayer ==
  /\ op = "sublayer"
  /\ \E ok \in BOOLEAN : Adds(SubLayer, ok, "register")
  /\ UNCHANGED <<mutex, clean, installed, engine, calloutId, filterId, kernel>>

\* A key that is still registered is not registered twice.
RegisterCallout ==
  /\ op = "register"
  /\ \E ok \in BOOLEAN :
       /\ ok => layer \notin registered
       /\ Adds(Callout(layer), ok, "add")
       /\ registered' = IF ok THEN registered \cup {layer} ELSE registered
  /\ UNCHANGED <<mutex, clean, installed, engine, calloutId, filterId, sessions, lost,
                 abandoned>>

\* The failure leaves the object FAILED and the callout registered.
AddCallout ==
  /\ op = "add"
  /\ \E ok \in BOOLEAN :
       /\ Adds(Callout(layer), ok, "filter")
       /\ calloutId' = IF ok THEN calloutId \cup {layer} ELSE calloutId
       /\ lost' = IF ok THEN lost ELSE lost \cup {layer}
  /\ UNCHANGED <<mutex, clean, installed, engine, filterId, registered, sessions, abandoned>>

\* Mutant: a filter that cannot be added marks the callout as failed, too.
AddFilterFailsBoth ==
  /\ op = "filter"
  /\ \E ok \in BOOLEAN :
       /\ st' = [st EXCEPT ![Filter(layer)] = IF ok THEN "REGISTERED" ELSE "FAILED",
                           ![Callout(layer)] = IF ok THEN "ACTIVE" ELSE "FAILED"]
       /\ filterId' = IF ok THEN filterId \cup {layer} ELSE filterId
       /\ Continues(CASE ~ok -> "rollback"
                      [] ok /\ layer < LayerCount -> "register"
                      [] ok /\ layer = LayerCount -> "commit")
       /\ layer' = IF ok /\ layer < LayerCount THEN layer + 1 ELSE LayerCount
  /\ UNCHANGED <<mutex, clean, installed, engine, calloutId, kernel>>

AddFilter ==
  /\ op = "filter"
  /\ \E ok \in BOOLEAN :
       /\ st' = [st EXCEPT ![Filter(layer)] = IF ok THEN "REGISTERED" ELSE "FAILED",
                           ![Callout(layer)] = IF ok THEN "ACTIVE" ELSE @]
       /\ filterId' = IF ok THEN filterId \cup {layer} ELSE filterId
       /\ Continues(CASE ~ok -> "rollback"
                      [] ok /\ layer < LayerCount -> "register"
                      [] ok /\ layer = LayerCount -> "commit")
       /\ layer' = IF ok /\ layer < LayerCount THEN layer + 1 ELSE LayerCount
  /\ UNCHANGED <<mutex, clean, installed, engine, calloutId, kernel>>

Commit ==
  /\ op = "commit"
  /\ \E ok \in BOOLEAN :
       /\ installed' = ok
       /\ IF ok THEN Returns("SUCCESS") ELSE Continues("rollback")
  /\ UNCHANGED <<mutex, layer, clean, engine, st, calloutId, filterId, kernel>>

-----------------------------------------------------------------------------
(***************************************************************************)
(* skWfpRollbackLocked: the layers from the last to the first, then the    *)
(* sublayer, the provider and the engine.                                  *)
(***************************************************************************)
RollbackLayer ==
  /\ op = "rollback" /\ layer > 0
  /\ \E filterOk, calloutOk, deleteOk \in BOOLEAN :
       LET unregisters == OnTheBooks(Callout(layer))
           deletes == unregisters /\ calloutOk /\ layer \in calloutId
       IN /\ st' = [st EXCEPT
                      ![Filter(layer)] = IF OnTheBooks(Filter(layer)) THEN Removed(filterOk) ELSE @,
                      ![Callout(layer)] = IF unregisters
                                            THEN Removed(calloutOk /\ (deletes => deleteOk)) ELSE @]
          /\ filterId' = IF OnTheBooks(Filter(layer)) /\ filterOk
                           THEN filterId \ {layer} ELSE filterId
          /\ calloutId' = IF deletes /\ deleteOk THEN calloutId \ {layer} ELSE calloutId
          /\ registered' = IF unregisters /\ calloutOk THEN registered \ {layer} ELSE registered
          /\ abandoned' = IF unregisters /\ ~calloutOk THEN abandoned \cup {layer} ELSE abandoned
  /\ layer' = layer - 1
  /\ UNCHANGED <<mutex, op, clean, result, installed, engine, sessions, lost>>

\* The outcome of the removals is recorded as a reason; Install has failed either way.
RollbackClose ==
  /\ op = "rollback" /\ layer = 0
  /\ \E subOk, provOk, engineOk \in BOOLEAN :
       /\ st' = [st EXCEPT ![SubLayer] = IF OnTheBooks(SubLayer) THEN Removed(subOk) ELSE @,
                           ![Provider] = IF OnTheBooks(Provider) THEN Removed(provOk) ELSE @,
                           ![Engine] = Removed(engineOk)]
       /\ engine' = ~engineOk
       /\ sessions' = IF engineOk THEN sessions - 1 ELSE sessions
  /\ Returns("FAILED")
  /\ UNCHANGED <<mutex, layer, clean, installed, calloutId, filterId, registered, lost,
                 abandoned>>

-----------------------------------------------------------------------------
(***************************************************************************)
(* SkWfpManagerTeardown.                                                   *)
(***************************************************************************)
TeardownBegin(c) ==
  /\ mutex = NoCaller
  /\ mutex' = c
  /\ IF ~installed /\ ~engine THEN Returns("TRUE") ELSE Continues("unregister")
  /\ layer' = 1 /\ clean' = TRUE
  /\ UNCHANGED <<objs, kernel>>

\* Retries while the callout is busy, up to SK_WFP_BUSY_RETRIES.
TeardownUnregister ==
  /\ op = "unregister"
  /\ \E ok \in BOOLEAN :
       LET unregisters == OnTheBooks(Callout(layer))
       IN /\ st' = [st EXCEPT ![Callout(layer)] = IF unregisters THEN Removed(ok) ELSE @]
          /\ registered' = IF unregisters /\ ok THEN registered \ {layer} ELSE registered
          /\ clean' = (clean /\ (unregisters => ok))
  /\ Continues(IF layer < LayerCount THEN "unregister" ELSE "delete")
  /\ layer' = IF layer < LayerCount THEN layer + 1 ELSE 1
  /\ UNCHANGED <<mutex, installed, engine, calloutId, filterId, sessions, lost,
                 abandoned>>

\* By the ids that are set; a leaked filter fails the call again, a leaked callout is
\* left alone.
TeardownDelete ==
  /\ op = "delete"
  /\ \E filterOk, calloutOk \in BOOLEAN :
       LET deletes == layer \in calloutId /\ st[Callout(layer)] # "LEAKED"
           filterGone == filterOk /\ st[Filter(layer)] # "LEAKED"
       IN /\ st' = [st EXCEPT ![Filter(layer)] =
                                IF layer \in filterId THEN Removed(filterGone) ELSE @,
                              ![Callout(layer)] = IF deletes THEN Removed(calloutOk) ELSE @]
          /\ filterId' = IF filterGone THEN filterId \ {layer} ELSE filterId
          /\ calloutId' = IF deletes /\ calloutOk THEN calloutId \ {layer} ELSE calloutId
          /\ clean' = (clean /\ (layer \in filterId => filterGone) /\ (deletes => calloutOk))
  /\ Continues(IF layer < LayerCount THEN "delete" ELSE "close")
  /\ layer' = IF layer < LayerCount THEN layer + 1 ELSE 0
  /\ UNCHANGED <<mutex, installed, engine, kernel>>

\* The engine is closed only if everything else was removed.
TeardownClose ==
  /\ op = "close"
  /\ \E subOk, provOk, engineOk \in BOOLEAN :
       LET removed == /\ clean
                      /\ OnTheBooks(SubLayer) => subOk
                      /\ OnTheBooks(Provider) => provOk
           closes == engine /\ removed
       IN /\ st' = [st EXCEPT ![SubLayer] = IF OnTheBooks(SubLayer) THEN Removed(subOk) ELSE @,
                              ![Provider] = IF OnTheBooks(Provider) THEN Removed(provOk) ELSE @,
                              ![Engine] = IF closes THEN Removed(engineOk) ELSE @]
          /\ engine' = (engine /\ ~(closes /\ engineOk))
          /\ sessions' = IF closes /\ engineOk THEN sessions - 1 ELSE sessions
          /\ installed' = (installed /\ ~(removed /\ (closes => engineOk)))
          /\ Returns(IF removed /\ (closes => engineOk) THEN "TRUE" ELSE "FALSE")
  /\ UNCHANGED <<mutex, layer, clean, calloutId, filterId, registered, lost,
                 abandoned>>

WfpStep ==
  \/ TransactionBegin \/ AddProvider \/ AddSubLayer
  \/ RegisterCallout \/ AddCallout \/ AddFilter \/ Commit
  \/ RollbackLayer \/ RollbackClose
  \/ TeardownUnregister \/ TeardownDelete \/ TeardownClose

-----------------------------------------------------------------------------
(***************************************************************************)
(* Properties.                                                             *)
(***************************************************************************)
\* The types of the manager's objects and of its control point (wfp_objects.h).
WfpTypeOK ==
  /\ mutex \in Callers \cup {NoCaller}
  /\ op \in {"none", "return", "begin", "provider", "sublayer", "register", "add", "filter",
             "commit", "rollback", "unregister", "delete", "close"}
  /\ layer \in 0 .. LayerCount /\ {clean, installed, engine} \subseteq BOOLEAN
  /\ result \in {"none", "SUCCESS", "FAILED", "TRUE", "FALSE"}
  /\ st \in [Objects -> States]
  /\ {calloutId, filterId, registered, lost, abandoned} \subseteq SUBSET Layers
  /\ sessions \in 0 .. 1

\* A callout the kernel holds is on the manager's books, as REGISTERED, ACTIVE or LEAKED, to
\* the end of time and whatever fails, except those that SkWfpObjectAddCallout could not add
\* (see lost); and the manager holds the handle of every session, so that none is forgotten
\* whose close has failed.
CalloutsTracked ==
  /\ \A l \in registered \ lost : st[Callout(l)] \in {"REGISTERED", "ACTIVE", "LEAKED"}
  /\ sessions = IF engine THEN 1 ELSE 0
=============================================================================
