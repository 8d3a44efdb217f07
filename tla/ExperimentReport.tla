--------------------------- MODULE ExperimentReport ---------------------------
(****************************************************************************)
(* The readers of the experiment service: the report of an experiment, the     *)
(* comparison of several, the charts of a run.  They are put together from     *)
(* queries that no transaction joins, while the requests of module Experiment   *)
(* go on writing.                                                           *)
(*                                                                          *)
(*   services/experiment/internal/service/experiment_service.go             *)
(*   services/experiment/internal/repository/experiment_repo.go             *)
(*                                                                          *)
(* A step is one query, or what the service computes between two.  The runs of  *)
(* an experiment are numbered from the oldest; queries list them from the       *)
(* newest (ORDER BY created_at DESC).                                        *)
(****************************************************************************)
EXTENDS Integers, SequencesExt

CONSTANTS Experiments,
          Keys,        \* keys of a metrics summary, "accuracy" among them
          Rows,        \* contents of a run that the writers may leave
          MaxIDs,      \* bound on the experiments of a comparison, 10 in the code
          MaxRuns,     \* bound on the runs of all experiments
          Metrics,     \* keys that points are recorded under, "loss" among them
          MaxPoints    \* bound on the points of a run under one key

Nil == -1                        \* a nil *int64

\* Scores are counted in halves: an accuracy of 1.0 is 2.
Score == -2..2

\* The statuses the readers do not tell apart are "open".
Row == [status : {"open", "completed", "failed"}, duration : Nat \cup {Nil},
        summary : UNION {[K -> Score] : K \in SUBSET Keys}]

ASSUME ReportAssumption ==
  /\ "accuracy" \in Keys
  /\ Rows \subseteq Row
  /\ "loss" \in Metrics /\ IsFiniteSet(Metrics)
  /\ MaxIDs \in Nat /\ MaxRuns \in Nat /\ MaxPoints \in Nat

VARIABLES table,  \* runs of each experiment: the row, its points under each key
          gone,   \* the experiments with a deleted_at
          rd      \* the request that reads

vars == <<table, gone, rd>>

Entry == [row : Rows, points : [Metrics -> 0..MaxPoints]]
IDs   == UNION {[1..n -> Experiments] : n \in 2..MaxIDs}

NoReader ==
  [pc |-> "idle",
   ids |-> <<>>,            \* the experiments asked for
   keys |-> <<>>,           \* the metrics asked for, those a chart tries in their order
   before |-> <<>>,         \* history: the points there were when the request began,
                            \* losses of each run or points under each key
   list |-> <<>>, at |-> 0, \* the rows of the runs, the run whose turn it is
   completed |-> 0, failed |-> 0, duration |-> 0,
   best |-> 0, bestMetric |-> -2,
   chart |-> <<>>,          \* likewise those read, Nil where the query failed
   shown |-> <<>>,          \* a comparison: the keys of each experiment in it
   count |-> [k \in Keys |-> 0]]

TypeOK ==
  /\ DOMAIN table = Experiments
  /\ \A e \in Experiments :
       Len(table[e]) <= MaxRuns /\ \A i \in DOMAIN table[e] : table[e][i] \in Entry
  /\ gone \subseteq Experiments
  /\ rd.pc \in {"idle", "list", "loop", "reported", "find", "latest", "compared",
               "chart", "series", "metrics", "charted"}
  /\ rd.ids \in IDs \cup {<<e>> : e \in Experiments} \cup {<<>>}
  /\ rd.at \in 0..Len(rd.list) + Len(rd.ids) + MaxRuns + 1
  /\ Len(rd.chart) <= Len(rd.list) + Len(rd.keys)
  /\ rd.best \in 0..Len(rd.list) /\ rd.bestMetric \in Score
  /\ \A k \in Keys : rd.count[k] \in 0..Len(rd.shown)

Init ==
  /\ table = [e \in Experiments |-> <<>>]
  /\ gone = {}
  /\ rd = NoReader

-----------------------------------------------------------------------------
(* The writers: CreateRun, UpdateRunStatus and CompleteRun leave one of Rows,    *)
(* RecordMetric and BatchRecordMetrics insert points in one transaction.         *)

RunIDs == UNION {{e} \X DOMAIN table[e] : e \in Experiments}

CreateRun(e, r) ==
  /\ Cardinality(RunIDs) < MaxRuns
  /\ table' = [table EXCEPT ![e] = Append(@, [row |-> r,
                                               points |-> [k \in Metrics |-> 0]])]
  /\ UNCHANGED <<gone, rd>>

UpdateRun(e, r) ==
  /\ \E i \in DOMAIN table[e] : table' = [table EXCEPT ![e][i].row = r]
  /\ UNCHANGED <<gone, rd>>

\* Create and BatchCreate: the inserts of a batch are one transaction.
WithPoint(entry, k) == [entry EXCEPT !.points[k] = @ + 1]

\* A batch may hold metrics of several runs, here of one experiment and one key.
RecordMetrics(e, S, k) ==
  /\ S # {} /\ \A i \in S : table[e][i].points[k] < MaxPoints
  /\ table' = [table EXCEPT ![e] = [i \in DOMAIN @ |-> IF i \in S THEN WithPoint(@[i], k)
                                                      ELSE @[i]]]
  /\ UNCHANGED <<gone, rd>>

DeleteExperiment(e) ==
  /\ e \notin gone /\ gone' = gone \cup {e}
  /\ UNCHANGED <<table, rd>>

-----------------------------------------------------------------------------
\* GetByRunIDAndKey: the points of a run under a key.
Points(e, i, k) == IF k \in Metrics THEN table[e][i].points[k] ELSE 0

(* GetExperimentReport.                                                       *)

Read(r) == rd' = r /\ UNCHANGED <<table, gone>>

\* GetByIDWithRuns, whose runs are only counted, and GetByID.
Found(e) == e \notin gone

\* The experiment is found.
Report(e) ==
  /\ rd.pc = "idle" /\ Found(e)
  /\ Read([NoReader EXCEPT !.pc = "list", !.ids = <<e>>,
             !.before = [i \in DOMAIN table[e] |-> Points(e, i, "loss")]])

\* Its runs are read in one query; no other query reads their rows.
ListRuns ==
  LET runs == table[rd.ids[1]] IN
  /\ rd.pc = "list"
  /\ Read([rd EXCEPT !.pc = "loop", !.at = Len(runs),
             !.list = [i \in DOMAIN runs |-> runs[i].row],
             !.chart = [i \in DOMAIN runs |-> 0]])

IsBetter(r) ==
  "accuracy" \in DOMAIN r.summary /\ r.summary["accuracy"] > rd.bestMetric

\* Mutant: the best metric is not remembered.
Counted_ForgetsBest(r) ==
  [rd EXCEPT
     !.completed = IF r.status = "completed" THEN @ + 1 ELSE @,
     !.failed = IF r.status = "failed" THEN @ + 1 ELSE @,
     !.duration = IF r.duration = Nil THEN @ ELSE @ + r.duration,
     !.best = IF IsBetter(r) THEN rd.at ELSE @]

\* The summary with a run counted in.
Counted(r) ==
  [rd EXCEPT
     !.completed = IF r.status = "completed" THEN @ + 1 ELSE @,
     !.failed = IF r.status = "failed" THEN @ + 1 ELSE @,
     !.duration = IF r.duration = Nil THEN @ ELSE @ + r.duration,
     !.best = IF IsBetter(r) THEN rd.at ELSE @,
     !.bestMetric = IF IsBetter(r) THEN r.summary["accuracy"] ELSE @]

\* Mutant: only runs that have a duration get a loss curve.
CountRun_SkipsOpen ==
  LET i == rd.at IN
  /\ rd.pc = "loop" /\ i > 0
  /\ \E n \in {Points(rd.ids[1], i, "loss"), Nil} :
       Read([Counted(rd.list[i]) EXCEPT
               !.at = i - 1,
               !.chart[i] = IF rd.list[i].duration = Nil THEN @ ELSE n])

\* One turn of the loop, from the newest run: its losses are read as they are by
\* now, and the error of a query that fails is dropped.
CountRun ==
  LET i == rd.at IN
  /\ rd.pc = "loop" /\ i > 0
  /\ \E n \in {Points(rd.ids[1], i, "loss"), Nil} :
       Read([Counted(rd.list[i]) EXCEPT !.at = i - 1, !.chart[i] = n])

Reported ==
  /\ rd.pc = "loop" /\ rd.at = 0
  /\ Read([rd EXCEPT !.pc = "reported"])

\* The summary of the answer.
AverageDuration ==
  IF rd.list = <<>> THEN 0 ELSE rd.duration \div Len(rd.list)
BestMetrics == {v \in {rd.bestMetric} : v >= 0}

-----------------------------------------------------------------------------
(* CompareExperiments: the experiments in the order they were given, one twice  *)
(* if it was given twice.                                                     *)

Compare(ids) ==
  /\ rd.pc = "idle"
  /\ Read([NoReader EXCEPT !.pc = "find", !.ids = ids, !.at = 1])

\* An experiment that is not found, or not read, is left out.
FindExperiment ==
  /\ rd.pc = "find" /\ rd.at <= Len(rd.ids)
  /\ \/ Found(rd.ids[rd.at]) /\ Read([rd EXCEPT !.pc = "latest"])
     \/ Read([rd EXCEPT !.at = @ + 1])

\* Mutant: the loop goes on before the experiment is appended to the answer.
Show_NotAppended(K) ==
  [rd EXCEPT !.pc = "find", !.at = @ + 1,
             !.count = [k \in Keys |-> IF k \in K THEN @[k] + 1 ELSE @[k]]]

\* The experiment is in the answer, with these metrics.
Show(K) ==
  [rd EXCEPT !.pc = "find", !.at = @ + 1, !.shown = Append(@, K),
             !.count = [k \in Keys |-> IF k \in K THEN @[k] + 1 ELSE @[k]]]

\* Mutant: the metrics of every run are counted, not those of the latest.
LatestRun_AllRuns ==
  LET runs == table[rd.ids[rd.at]]
      keys == {DOMAIN runs[i].row.summary : i \in DOMAIN runs} IN
  /\ rd.pc = "latest"
  /\ \/ Read(IF runs = <<>> THEN Show({})
             ELSE [Show(UNION keys) EXCEPT
                     !.shown[Len(rd.shown) + 1] =
                        DOMAIN runs[Len(runs)].row.summary])
     \/ Read(Show({}))

\* GetByExperimentID; when there is no run, or the query fails, the experiment is
\* shown with no metrics.
LatestRun ==
  LET runs == table[rd.ids[rd.at]] IN
  /\ rd.pc = "latest"
  /\ \/ runs # <<>> /\ Read(Show(DOMAIN runs[Len(runs)].row.summary))
     \/ Read(Show({}))

Compared ==
  /\ rd.pc = "find" /\ rd.at > Len(rd.ids)
  /\ Read([rd EXCEPT !.pc = "compared"])

CommonMetrics == {k \in Keys : rd.count[k] = Len(rd.ids)}

-----------------------------------------------------------------------------
(* GetLossCurve, GetAccuracyTrend, GetMetricSeries and GetRunMetrics: a run of      *)
(* experiment e, by its own id; whether e still exists is not asked.            *)

LossCurve     == <<"loss", "train_loss", "training_loss">>
AccuracyTrend == <<"accuracy", "acc", "val_accuracy">>

AskFor(e, i, keys, pc) ==
  /\ rd.pc = "idle"
  /\ Read([NoReader EXCEPT !.pc = pc, !.ids = <<e>>, !.at = i, !.keys = keys,
             !.before = [j \in DOMAIN keys |-> Points(e, i, keys[j])]])

Chart(e, i, keys) == AskFor(e, i, keys, "chart")

\* Whatever the reason why a name gives no chart, no point or a query that fails,
\* the next name is tried.
TryKey ==
  LET j == Len(rd.chart) + 1 IN
  /\ rd.pc = "chart"
  /\ \E n \in {Points(rd.ids[1], rd.at, rd.keys[j]), Nil} :
       Read([rd EXCEPT !.chart = Append(@, n),
                       !.pc = IF n > 0 \/ j = Len(rd.keys) THEN "charted" ELSE @])

GetMetricSeries(e, i, k) == AskFor(e, i, <<k>>, "series")

\* The points under one name, if only none; a query that fails answers 500.
Series ==
  /\ rd.pc = "series"
  /\ \/ Read([rd EXCEPT !.pc = "charted",
                        !.chart = <<Points(rd.ids[1], rd.at, rd.keys[1])>>])
     \/ Read(NoReader)

\* Some names, or none for all.
GetRunMetrics(e, i, keys) ==
  AskFor(e, i, IF keys = <<>> THEN SetToSeq(Metrics) ELSE keys, "metrics")

\* GetByRunID: one query for all names.
ByRun(e, i, keys) == [j \in DOMAIN keys |-> Points(e, i, keys[j])]

RunMetrics ==
  /\ rd.pc = "metrics"
  /\ \/ Read([rd EXCEPT !.pc = "charted", !.chart = ByRun(rd.ids[1], rd.at, rd.keys)])
     \/ Read(NoReader)

Answer == rd.pc \in {"reported", "compared", "charted"} /\ Read(NoReader)

-----------------------------------------------------------------------------
Write ==
  \E e \in Experiments :
    \/ \E r \in Rows : CreateRun(e, r) \/ UpdateRun(e, r)
    \/ \E S \in SUBSET DOMAIN table[e], k \in Metrics : RecordMetrics(e, S, k)
    \/ DeleteExperiment(e)

ReadStep ==
  \/ \E e \in Experiments : Report(e)
  \/ ListRuns \/ CountRun \/ Reported
  \/ \E ids \in IDs : Compare(ids)
  \/ FindExperiment \/ LatestRun \/ Compared
  \/ \E e \in Experiments : \E i \in DOMAIN table[e] :
       \/ Chart(e, i, LossCurve) \/ Chart(e, i, AccuracyTrend)
       \/ \E k \in Metrics : GetMetricSeries(e, i, k)
       \/ \E keys \in {<<>>} \cup {<<k>> : k \in Metrics} : GetRunMetrics(e, i, keys)
  \/ TryKey \/ Series \/ RunMetrics \/ Answer

Next == Write \/ ReadStep

Spec == Init /\ [][Next]_vars

-----------------------------------------------------------------------------
(* A report has every run that was there when it was asked for, and every loss   *)
(* recorded by then, though the runs and the losses of each are separate         *)
(* queries.  Only a query that failed may leave a gap.  A chart has all points of  *)
(* the first name the run had any under, and none of a later name; the answer     *)
(* that there are no points was true when it was asked for.                    *)
ReportSeesPast ==
  /\ rd.pc = "reported" => Len(rd.before) <= Len(rd.list)
  /\ rd.pc = "charted" /\ Len(rd.chart) < Len(rd.before) => rd.chart[Len(rd.chart)] > 0
  /\ rd.pc \in {"reported", "charted"} =>
       \A i \in DOMAIN rd.before \cap DOMAIN rd.chart :
         rd.chart[i] = Nil \/ rd.before[i] <= rd.chart[i]

(* The best run of a report has the highest accuracy of the runs listed, the     *)
(* newest of those that have it; the best accuracy the summary gives is the one  *)
(* of that run; and no run of an accuracy that counts, zero or more, goes         *)
(* without a best run.  The duration averages over all runs stay within what a   *)
(* run took.                                                                 *)
BestRunIsBest ==
  LET acc(i) == rd.list[i].summary["accuracy"]
      scored == {i \in DOMAIN rd.list : "accuracy" \in DOMAIN rd.list[i].summary}
  IN
  rd.pc = "reported" =>
    /\ rd.best = 0 => BestMetrics = {} /\ \A i \in scored : acc(i) < 0
    /\ rd.best # 0 =>
         /\ rd.best \in scored
         /\ \A i \in scored : /\ acc(i) <= acc(rd.best)
                              /\ i > rd.best => acc(i) < acc(rd.best)
         /\ BestMetrics \subseteq {acc(rd.best)}
    /\ \/ AverageDuration = 0
       \/ \E i \in DOMAIN rd.list : AverageDuration <= rd.list[i].duration

(* A metric is called common only if every experiment asked for is in the        *)
(* answer and shown with it, whatever was deleted, added or not read between     *)
(* the queries.                                                              *)
CommonIsCommon ==
  rd.pc = "compared" =>
    \A k \in CommonMetrics :
      Len(rd.shown) = Len(rd.ids) /\ \A i \in DOMAIN rd.shown : k \in rd.shown[i]

=============================================================================
