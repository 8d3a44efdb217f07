-------------------------- MODULE MCExperimentReport --------------------------
(* ExperimentReport for TLC: a run that is open, two that are completed, one    *)
(* that failed with an accuracy below zero.                                   *)
EXTENDS ExperimentReport, TLC

Acc(v) == "accuracy" :> v

MCRows == {
  [status |-> "open",      duration |-> Nil, summary |-> [k \in {} |-> 0]],
  [status |-> "completed", duration |-> 1,   summary |-> Acc(1)],
  [status |-> "completed", duration |-> 3,   summary |-> Acc(2)],
  [status |-> "failed",    duration |-> Nil, summary |-> Acc(-1)]}

Symmetry == Permutations(Experiments)
=============================================================================
