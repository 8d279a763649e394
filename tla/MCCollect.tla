----------------------------- MODULE MCCollect -----------------------------
(***************************************************************************)
(* Instances of Collect.tla for TLC.                                       *)
(***************************************************************************)
EXTENDS Collect, TLC

\* Metrics of one kind are interchangeable.
Symmetric == Permutations(Important) \cup Permutations(Metrics \ Important)
=============================================================================
