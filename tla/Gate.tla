-------------------------------- MODULE Gate --------------------------------
(***************************************************************************)
(* What runtime/rundown.h promises, without counters: a gate that threads  *)
(* enter and leave until it is stopped.  Nobody enters a stopped gate, and *)
(* it is reported drained only when nobody is inside.                      *)
(***************************************************************************)
CONSTANT Threads

VARIABLES stopped, inside, drained

vars == <<stopped, inside, drained>>

Init == stopped = FALSE /\ inside = {} /\ drained = FALSE

Enter(t) ==
  /\ ~stopped
  /\ t \notin inside
  /\ inside' = inside \cup {t}
  /\ UNCHANGED <<stopped, drained>>

Leave(t) ==
  /\ t \in inside
  /\ inside' = inside \ {t}
  /\ UNCHANGED <<stopped, drained>>

Stop ==
  /\ stopped' = TRUE
  /\ UNCHANGED <<inside, drained>>

Drain ==
  /\ stopped
  /\ inside = {}
  /\ drained' = TRUE
  /\ UNCHANGED <<stopped, inside>>

Next == Stop \/ Drain \/ \E t \in Threads : Enter(t) \/ Leave(t)

Spec == Init /\ [][Next]_vars
=============================================================================
