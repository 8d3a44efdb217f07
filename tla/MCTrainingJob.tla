---------------------------- MODULE MCTrainingJob ----------------------------
(* TrainingJob for TLC: jobs are interchangeable, and so are requests.        *)
EXTENDS TrainingJob, TLC

Symmetry == Permutations(Jobs) \cup Permutations(Clients)
=============================================================================
