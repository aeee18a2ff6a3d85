--------------------------- MODULE AtomicRuleStore ---------------------------
(***************************************************************************)
(* What rules/rule_store.h promises to the users of the store, without     *)
(* snapshots, locks or reclamation: one register that is closed, or holds  *)
(* a rule set, a default policy and a version.  A write replaces it in one *)
(* step by what the request makes of the value it finds there and adds one *)
(* to the version; a read returns the register's value at one moment and   *)
(* the reader keeps that very value until it lets go of it, whatever       *)
(* happens to the register.                                                *)
(***************************************************************************)
EXTENDS Naturals

CONSTANTS
  Readers,
  Requests,  \* what writers may ask for
  NoRules,   \* the empty rule set
  Closed     \* the value of a closed register, and of a reader that holds none

VARIABLES
  register,  \* Closed, or [rules, defaultPolicy, version]
  previous,  \* the value that the last write displaced, or Closed
  view       \* the value that each reader holds, or Closed

vars == <<register, previous, view>>

Init ==
  /\ register = Closed
  /\ previous = Closed
  /\ view = [r \in Readers |-> Closed]

(***************************************************************************)
(* When a request is granted, and the rules and policy it leaves behind.   *)
(***************************************************************************)
Admissible(q, now, before) ==
  CASE q.op = "add" -> q.id \notin DOMAIN now.rules
    [] q.op \in {"update", "delete", "enable"} -> q.id \in DOMAIN now.rules
    [] q.op = "replace" -> q.expected \in {0, now.version}
    [] q.op = "rollback" -> before # Closed
    [] q.op \in {"clear", "policy"} -> TRUE
    [] OTHER -> FALSE

NewRules(q, now, before) ==
  CASE q.op \in {"add", "update"} ->
         [i \in DOMAIN now.rules \cup {q.id} |->
            IF i = q.id THEN q.rule ELSE now.rules[i]]
    [] q.op = "delete" -> [i \in DOMAIN now.rules \ {q.id} |-> now.rules[i]]
    [] q.op = "enable" -> [now.rules EXCEPT ![q.id].enabled = q.enabled]
    [] q.op = "replace" -> q.rules
    [] q.op = "rollback" -> before.rules
    [] q.op = "clear" -> NoRules
    [] OTHER -> now.rules

NewPolicy(q, now, before) ==
  CASE q.op = "policy" -> q.defaultPolicy
    [] q.op = "rollback" -> before.defaultPolicy
    [] OTHER -> now.defaultPolicy

Applied(q, now, before) ==
  [rules |-> NewRules(q, now, before),
   defaultPolicy |-> NewPolicy(q, now, before),
   version |-> now.version + 1]

-----------------------------------------------------------------------------
Open ==
  /\ register = Closed
  /\ register' = [rules |-> NoRules, defaultPolicy |-> "PERMIT", version |-> 0]
  /\ previous' = Closed
  /\ UNCHANGED view

\* A rollback consumes the previous value; any other write makes one.
Write(q) ==
  /\ register # Closed
  /\ Admissible(q, register, previous)
  /\ register' = Applied(q, register, previous)
  /\ previous' = IF q.op = "rollback" THEN Closed ELSE register
  /\ UNCHANGED view

Close ==
  /\ register # Closed
  /\ register' = Closed
  /\ previous' = Closed
  /\ UNCHANGED view

Take(r) ==
  /\ view[r] = Closed
  /\ register # Closed
  /\ view' = [view EXCEPT ![r] = register]
  /\ UNCHANGED <<register, previous>>

Drop(r) ==
  /\ view[r] # Closed
  /\ view' = [view EXCEPT ![r] = Closed]
  /\ UNCHANGED <<register, previous>>

Next ==
  \/ Open \/ Close
  \/ \E q \in Requests : Write(q)
  \/ \E r \in Readers : Take(r) \/ Drop(r)

Spec == Init /\ [][Next]_vars
=============================================================================
