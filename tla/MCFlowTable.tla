---------------------------- MODULE MCFlowTable ----------------------------
(* A small instance of FlowTable: flows and callouts by number, so that the  *)
(* layer of each flow can be given.                                        *)
EXTENDS FlowTable, TLC

MCFlows == {1, 2}
MCCalloutOf == [f \in MCFlows |-> f]

OneFlow == {1}
OneCalloutOf == [f \in OneFlow |-> 1]

Symmetry == Permutations(Threads) \cup Permutations(Ctxs)
=============================================================================
