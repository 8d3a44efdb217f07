----------------------------- MODULE LogChannel -----------------------------
(****************************************************************************)
(* What a reader of a live log is promised: a lossy channel that keeps the    *)
(* order.  Entries are numbered as they are made.  An entry may be skipped,   *)
(* and then it stays skipped; none comes twice, none comes before an older    *)
(* one, none is invented, and nothing comes after the end.                   *)
(****************************************************************************)
EXTENDS Naturals, Sequences

VARIABLES made,   \* how many entries were made
          seen,   \* the entries the reader saw, in the order it saw them
          ended   \* the reader was told that there are no more, or went away

vars == <<made, seen, ended>>

Newest == IF seen = <<>> THEN 0 ELSE seen[Len(seen)]

Init == made \in Nat /\ seen = <<>> /\ ended = FALSE

Make == made' = made + 1 /\ UNCHANGED <<seen, ended>>

Show ==
  /\ ~ended
  /\ \E i \in Newest + 1 .. made : seen' = Append(seen, i)
  /\ UNCHANGED <<made, ended>>

End == ~ended /\ ended' = TRUE /\ UNCHANGED <<made, seen>>

Next == Make \/ Show \/ End

Spec == Init /\ [][Next]_vars
=============================================================================
