----------------------------- MODULE MCUserAuth -----------------------------
(* UserAuth for TLC: two accounts' worth of emails and names, two overlapping
   requests and one key.                                                      *)
EXTENDS UserAuth, TLC

CONSTANTS e1, e2, n1, n2, c1, c2

MCEmails   == {e1, e2}
MCNames    == {n1, n2}
MCRequests == {c1, c2}

Symmetric == Permutations(MCEmails) \cup Permutations(MCNames)
               \cup Permutations(MCRequests)
=============================================================================
