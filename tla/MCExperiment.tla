----------------------------- MODULE MCExperiment -----------------------------
(* Experiment for TLC: identifiers, texts and requests are interchangeable.    *)
EXTENDS Experiment, TLC

Symmetry == Permutations(Experiments) \cup Permutations(Runs)
            \cup Permutations(Clients) \cup Permutations(Names)
=============================================================================
