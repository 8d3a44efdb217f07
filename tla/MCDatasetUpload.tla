--------------------------- MODULE MCDatasetUpload ---------------------------
(* DatasetUpload for TLC: datasets, names and requests are interchangeable.   *)
EXTENDS DatasetUpload, TLC

Symmetry == Permutations(Datasets) \cup Permutations(Names)
            \cup Permutations(Clients)
=============================================================================
