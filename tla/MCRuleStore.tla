----------------------------- MODULE MCRuleStore -----------------------------
(***************************************************************************)
(* Model-checking instance of RuleStore.                                   *)
(***************************************************************************)
EXTENDS RuleStore, TLC

\* Readers, writers and pool blocks are interchangeable.
Symmetry == Permutations(Readers) \cup Permutations(Writers) \cup Permutations(Snaps)
=============================================================================
