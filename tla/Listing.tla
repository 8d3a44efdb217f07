------------------------------- MODULE Listing -------------------------------
(****************************************************************************)
(* The paged lists of datasets, experiments and training jobs, and a client    *)
(* that walks through the pages of one while rows come and go.                *)
(*                                                                          *)
(*   services/data/internal/{handler,service,repository,domain}             *)
(*   services/experiment/internal/{handler,service,repository}              *)
(*   services/training/internal/{handler,repository,domain}                 *)
(*                                                                          *)
(* Every answer takes two queries that no transaction joins: one counts the    *)
(* rows, one finds those of the page, the newest first.  Rows are numbered in   *)
(* the order of their created_at.  A row comes when it is created, or when an   *)
(* update makes it match the filter of the walk, and goes likewise.           *)
(****************************************************************************)
EXTENDS FiniteSets, Integers

CONSTANTS Rows,        \* bound: the rows that may ever match, 1..Rows
          DefaultSize, \* 20 in the code
          MaxSize,     \* 100 in the code
          Sizes,       \* page sizes a client asks for
          MaxChanges   \* bound on the rows that come, and on those that go

ASSUME ListingAssumption ==
  /\ Rows \in Nat /\ MaxChanges \in Nat /\ Sizes \subseteq Int
  /\ DefaultSize \in Nat \ {0} /\ MaxSize \in Nat /\ DefaultSize <= MaxSize

VARIABLES matching, \* rows that match the filter
          req,      \* the request: whose list, page and page size
          total,    \* what the count of this request found
          pc,       \* "ask", "count", "find", "over" or, with a 400, "refused"
          shown,    \* how often each row was on a page of the walk
          past      \* history of the walk, see NewWalk

vars == <<matching, req, total, pc, shown, past>>

Services == {"data", "experiment", "training"}

\* Nothing has come or gone; the rows that are there, and will be the ones never
\* to have gone; and what came after the latest count.
NewWalk(M) == [came |-> 0, gone |-> 0, stayed |-> M, late |-> 0]

TypeOK ==
  /\ matching \subseteq 1..Rows /\ total \in 0..Rows
  /\ req.service \in Services /\ req.page \in 1..Rows + 1
  /\ pc \in {"ask", "count", "find", "over", "refused"}
  /\ req.size \in IF pc \in {"count", "find", "over"} THEN 1..MaxSize ELSE Sizes \cup 1..MaxSize
  /\ shown \in [1..Rows -> 0..req.page]
  /\ past.came \in 0..MaxChanges /\ past.gone \in 0..MaxChanges
  /\ past.late \in 0..past.came /\ past.stayed \subseteq matching

Init ==
  /\ matching \in SUBSET (1..Rows)
  /\ req \in [service : Services, page : {1}, size : Sizes]
  /\ total = 0 /\ pc = "ask" /\ shown = [i \in 1..Rows |-> 0] /\ past = NewWalk(matching)

-----------------------------------------------------------------------------
(* The rows.                                                                  *)

\* A row is created, or updated so that it matches.
Come(i) ==
  /\ past.came < MaxChanges /\ matching' = matching \cup {i}
  /\ past' = [past EXCEPT !.came = @ + 1, !.late = IF pc = "find" THEN @ + 1 ELSE @]
  /\ UNCHANGED <<req, total, pc, shown>>

\* A row is deleted, or updated so that it matches no more.
Go(i) ==
  /\ past.gone < MaxChanges /\ matching' = matching \ {i}
  /\ past' = [past EXCEPT !.gone = @ + 1, !.stayed = @ \ {i}]
  /\ UNCHANGED <<req, total, pc, shown>>

-----------------------------------------------------------------------------
(* A request.                                                                 *)

\* Mutant: the data service forgets that a size can be too large.
DataSize_AnySize(n) == IF n < 1 THEN DefaultSize ELSE n

\* The data service takes its default for a size it does not like.
DataSize(n) == IF n \in 1..MaxSize THEN n ELSE DefaultSize

\* The experiment service takes its limit for a larger one.
ExperimentSize(n) == IF n < 1 THEN DefaultSize ELSE IF n > MaxSize THEN MaxSize ELSE n

\* The training service has the binding refuse such a size.
Ask ==
  /\ pc = "ask"
  /\ \/ /\ req.service = "training" /\ req.size \notin 1..MaxSize
        /\ pc' = "refused" /\ UNCHANGED req
     \/ /\ req.service = "training" /\ req.size \in 1..MaxSize
        /\ pc' = "count" /\ UNCHANGED req
     \/ /\ req.service = "data"
        /\ pc' = "count" /\ req' = [req EXCEPT !.size = DataSize(@)]
     \/ /\ req.service = "experiment"
        /\ pc' = "count" /\ req' = [req EXCEPT !.size = ExperimentSize(@)]
  /\ UNCHANGED <<matching, total, shown, past>>

\* SELECT count(*).
Count ==
  /\ pc = "count" /\ pc' = "find"
  /\ total' = Cardinality(matching) /\ past' = [past EXCEPT !.late = 0]
  /\ UNCHANGED <<matching, req, shown>>

\* Mutant: pages counted from 0.
Offset_FromZero == req.page * req.size

Offset == (req.page - 1) * req.size

\* The place of row i among the rows M in the order of created_at DESC, from 0.
Rank(M, i) == Cardinality({j \in M : j > i})

\* OFFSET .. LIMIT ..
Page == {i \in matching : Rank(matching, i) \in Offset..Offset + req.size - 1}

TotalPage == total \div req.size + IF total % req.size > 0 THEN 1 ELSE 0

\* The page is answered, with TotalPage; the client asks for the next one, unless
\* there is none.
Answered ==
  IF req.page < TotalPage
  THEN pc' = "ask" /\ req' = [req EXCEPT !.page = @ + 1]
  ELSE pc' = "over" /\ UNCHANGED req

Find ==
  /\ pc = "find" /\ Answered
  /\ shown' = [i \in 1..Rows |-> IF i \in Page THEN shown[i] + 1 ELSE shown[i]]
  /\ UNCHANGED <<matching, total, past>>

\* A query fails, the answer is a 500, and the client asks for the page again.
Fail ==
  /\ pc \in {"count", "find"} /\ pc' = "ask"
  /\ UNCHANGED <<matching, req, total, shown, past>>

Next ==
  \/ \E i \in 1..Rows \ matching : Come(i)
  \/ \E i \in matching : Go(i)
  \/ Ask \/ Count \/ Find \/ Fail

Spec == Init /\ [][Next]_vars

-----------------------------------------------------------------------------
\* The second and later times that a row was shown.
Repeats == UNION {{i} \X (2..shown[i]) : i \in 1..Rows}

(* A walk misses no row that stayed, except one for each row that went, which    *)
(* moves the later ones up a page, and one for each that came between the last   *)
(* page's count and its find, which leaves the total behind; and it shows rows a   *)
(* second time at most as often as a row came, which moves the older ones down. *)
WalkMissesOnlyMoved ==
  pc = "over" =>
    /\ Cardinality({i \in past.stayed : shown[i] = 0}) <= past.gone + past.late
    /\ Cardinality(Repeats) <= past.came
=============================================================================
