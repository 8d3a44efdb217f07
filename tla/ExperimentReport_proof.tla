------------------------ MODULE ExperimentReport_proof ------------------------
(* What holds of the answers of module ExperimentReport, for any experiments,   *)
(* rows, metrics and bounds.                                                  *)
EXTENDS ExperimentReport, FiniteSetTheorems, SequenceTheorems, TLAPS

KeyNames == Metrics \cup {"loss", "train_loss", "training_loss", "accuracy",
                          "acc", "val_accuracy"}

Reader ==
  [pc : {"idle", "list", "loop", "reported", "find", "latest", "compared",
         "chart", "series", "metrics", "charted"},
   ids : Seq(Experiments), keys : Seq(KeyNames), before : Seq(Nat),
   list : Seq(Rows), at : Int, completed : Int, failed : Int, duration : Int,
   best : Int, bestMetric : Int, chart : Seq(Int), shown : Seq(SUBSET Keys),
   count : [Keys -> Int]]

\* The runs are rows, and the reader is the record it was made as.
Typed ==
  /\ table \in [Experiments -> Seq(Entry)]
  /\ rd \in Reader

-----------------------------------------------------------------------------
(* The writers.                                                               *)

\* Runs and points are only added.
Grown ==
  \A e \in Experiments :
    /\ Len(table[e]) <= Len(table'[e])
    /\ \A i \in DOMAIN table[e], k \in Metrics :
         table[e][i].points[k] <= table'[e][i].points[k]

\* An entry of a run has points.
LEMMA EntryPoints ==
  ASSUME NEW t \in [Experiments -> Seq(Entry)], NEW e \in Experiments,
         NEW i \in DOMAIN t[e]
  PROVE  /\ t[e][i] \in Entry
         /\ \A k \in Metrics : t[e][i].points[k] \in Nat
<1>1. t[e] \in Seq(Entry)
  OBVIOUS
<1>2. t[e][i] \in Entry
  BY <1>1, ElementOfSeq, LenProperties
<1>3. 0..MaxPoints \subseteq Nat
  OBVIOUS
<1> QED BY <1>2, <1>3 DEF Entry

\* A write adds to the runs of one experiment, or changes a row, and no more.
LEMMA WriteGrows ==
  ASSUME Typed, Write
  PROVE  table' \in [Experiments -> Seq(Entry)] /\ Grown /\ UNCHANGED rd
<1> DEFINE Goal == table' \in [Experiments -> Seq(Entry)] /\ Grown /\ UNCHANGED rd
<1>t. table \in [Experiments -> Seq(Entry)]
  BY DEF Typed
<1>p. \A e \in Experiments : \A i \in DOMAIN table[e] :
         table[e][i] \in Entry /\ \A k \in Metrics : table[e][i].points[k] \in Nat
  BY <1>t, EntryPoints
<1>1. ASSUME NEW e \in Experiments, NEW s \in Seq(Entry),
             table' = [table EXCEPT ![e] = s], UNCHANGED rd,
             Len(table[e]) <= Len(s),
             \A i \in DOMAIN table[e], k \in Metrics :
               table[e][i].points[k] <= s[i].points[k]
      PROVE  Goal
  <2>1. table' \in [Experiments -> Seq(Entry)]
    BY <1>t, <1>1
  <2>2. ASSUME NEW f \in Experiments
        PROVE  /\ Len(table[f]) <= Len(table'[f])
               /\ \A i \in DOMAIN table[f], k \in Metrics :
                    table[f][i].points[k] <= table'[f][i].points[k]
    <3>1. CASE f = e
      BY <1>t, <1>1, <3>1
    <3>2. CASE f # e
      <4>1. table'[f] = table[f]
        BY <1>t, <1>1, <3>2
      <4>2. Len(table[f]) \in Nat
        BY <1>t, LenProperties
      <4> QED BY <1>p, <4>1, <4>2
    <3> QED BY <3>1, <3>2
  <2> QED BY <1>1, <2>1, <2>2 DEF Grown
<1>2. ASSUME NEW e \in Experiments, NEW r \in Rows, CreateRun(e, r) PROVE Goal
  <2> DEFINE new == [row |-> r, points |-> [k \in Metrics |-> 0]]
  <2>1. new \in Entry
    BY ReportAssumption DEF Entry
  <2>2. table' = [table EXCEPT ![e] = Append(table[e], new)] /\ UNCHANGED rd
    BY <1>2 DEF CreateRun
  <2>s. table[e] \in Seq(Entry)
    BY <1>t
  <2> HIDE DEF new
  <2>3. /\ Append(table[e], new) \in Seq(Entry)
        /\ Len(Append(table[e], new)) = Len(table[e]) + 1
        /\ \A i \in DOMAIN table[e] : Append(table[e], new)[i] = table[e][i]
    BY <2>1, <2>s, AppendProperties, LenProperties
  <2>4. Len(table[e]) <= Len(table[e]) + 1
    BY <2>s, LenProperties
  <2>5. \A i \in DOMAIN table[e], k \in Metrics :
          table[e][i].points[k] <= Append(table[e], new)[i].points[k]
    BY <1>p, <2>3
  <2> QED BY <1>1, <2>2, <2>3, <2>4, <2>5
<1>3. ASSUME NEW e \in Experiments, NEW s, table' = [table EXCEPT ![e] = s],
             UNCHANGED rd, DOMAIN s = DOMAIN table[e],
             s = [i \in DOMAIN table[e] |-> s[i]],
             \A i \in DOMAIN table[e] : s[i] \in Entry,
             \A i \in DOMAIN table[e], k \in Metrics :
               table[e][i].points[k] <= s[i].points[k]
      PROVE  Goal
  <2>1. table[e] \in Seq(Entry) /\ DOMAIN table[e] = 1..Len(table[e])
          /\ Len(table[e]) \in Nat
    BY <1>t, LenProperties
  <2>2. s \in [1..Len(table[e]) -> Entry]
    BY <1>3, <2>1
  <2>3. s \in Seq(Entry) /\ Len(s) = Len(table[e])
    BY <2>1, <2>2, SeqDef, LenProperties
  <2>4. Len(table[e]) <= Len(s)
    BY <2>1, <2>3
  <2>5. Goal
    BY <1>1, <1>3, <2>3, <2>4
  <2> QED BY <2>5
<1>4. ASSUME NEW e \in Experiments, NEW r \in Rows, UpdateRun(e, r) PROVE Goal
  <2>1. PICK i \in DOMAIN table[e] : table' = [table EXCEPT ![e][i].row = r]
    BY <1>4 DEF UpdateRun
  <2> DEFINE s == [table[e] EXCEPT ![i].row = r]
  <2>2. table' = [table EXCEPT ![e] = s] /\ UNCHANGED rd
    BY <1>4, <2>1 DEF UpdateRun
  <2>3. DOMAIN s = DOMAIN table[e] /\ s = [j \in DOMAIN table[e] |-> s[j]]
    BY <1>t
  <2>4. \A j \in DOMAIN table[e] :
          s[j] = table[e][j] \/ s[j] = [table[e][j] EXCEPT !.row = r]
    BY <1>t
  <2>5. \A j \in DOMAIN table[e] : s[j] \in Entry /\ s[j].points = table[e][j].points
    BY <1>p, <2>4 DEF Entry
  <2> HIDE DEF s
  <2>6. \A j \in DOMAIN table[e], k \in Metrics :
          table[e][j].points[k] <= s[j].points[k]
    BY <1>p, <2>5
  <2> QED BY <1>3, <2>2, <2>3, <2>5, <2>6
<1>5. ASSUME NEW e \in Experiments, NEW S \in SUBSET DOMAIN table[e],
             NEW k \in Metrics, RecordMetrics(e, S, k)
      PROVE  Goal
  <2> DEFINE s == [i \in DOMAIN table[e] |->
                     IF i \in S THEN WithPoint(table[e][i], k) ELSE table[e][i]]
  <2>1. table' = [table EXCEPT ![e] = s] /\ UNCHANGED rd
    BY <1>5 DEF RecordMetrics
  <2>2. \A i \in S : table[e][i].points[k] < MaxPoints
    BY <1>5 DEF RecordMetrics
  <2>3. ASSUME NEW i \in DOMAIN table[e]
        PROVE  /\ s[i] \in Entry
               /\ \A m \in Metrics : table[e][i].points[m] <= s[i].points[m]
    <3>1. CASE i \notin S
      BY <1>p, <3>1
    <3>2. CASE i \in S
      <4>1. s[i] = WithPoint(table[e][i], k) /\ table[e][i] \in Entry
              /\ table[e][i].points[k] \in Nat
        BY <1>p, <3>2
      <4>2. table[e][i].points[k] + 1 \in 0..MaxPoints
        BY <2>2, <3>2, <4>1, ReportAssumption
      <4>3. s[i] \in Entry
        BY <4>1, <4>2 DEF WithPoint, Entry
      <4>4. \A m \in Metrics :
              s[i].points[m] = table[e][i].points[m]
                + (IF m = k THEN 1 ELSE 0)
        BY <1>p, <4>1 DEF WithPoint, Entry
      <4> QED BY <1>p, <4>3, <4>4
    <3> QED BY <3>1, <3>2
  <2>4. DOMAIN s = DOMAIN table[e] /\ s = [j \in DOMAIN table[e] |-> s[j]]
    OBVIOUS
  <2> HIDE DEF s
  <2> QED BY <1>3, <2>1, <2>3, <2>4
<1>6. ASSUME NEW e \in Experiments, DeleteExperiment(e) PROVE Goal
  <2>1. UNCHANGED <<table, rd>>
    BY <1>6 DEF DeleteExperiment
  <2>2. \A f \in Experiments : Len(table[f]) \in Nat
    BY <1>t, LenProperties
  <2> QED BY <1>t, <1>p, <2>1, <2>2 DEF Grown
<1> QED BY <1>2, <1>4, <1>5, <1>6 DEF Write

-----------------------------------------------------------------------------
(* The reader.                                                                *)

\* A chart's names and those asked for are a sequence, whatever order.
LEMMA SetToSeqType == SetToSeq(Metrics) \in Seq(Metrics)
<1>1. IsFiniteSet(Metrics)
  BY ReportAssumption
<1>2. Cardinality(Metrics) \in Nat
  BY <1>1, FS_CardinalityType
<1>3. \E f \in [1..Cardinality(Metrics) -> Metrics] : IsInjective(f)
  <2>1. ExistsBijection(1..Cardinality(Metrics), Metrics)
    BY <1>1, FS_CardinalityType
  <2> QED BY <2>1 DEF ExistsBijection, Bijection, Injection, IsInjective
<1>4. SetToSeq(Metrics) \in [1..Cardinality(Metrics) -> Metrics]
  BY <1>3 DEF SetToSeq
<1> QED BY <1>2, <1>4, SeqDef

\* The idle reader is a reader.
LEMMA NoReaderType == NoReader \in Reader
BY EmptySeq DEF NoReader, Reader

\* A function on an initial segment is a sequence.
LEMMA FunSeq ==
  ASSUME NEW S, NEW n \in Nat, NEW f \in [1..n -> S]
  PROVE  f \in Seq(S) /\ Len(f) = n
<1>1. f \in Seq(S)
  BY SeqDef
<1> QED BY <1>1, LenProperties

\* What is known while a report is put together: the runs and the losses that
\* were there when it was asked for are there still, and those of the runs that
\* had their turn have been read.
Reporting ==
  rd.pc \in {"list", "loop", "reported"} =>
    LET e == rd.ids[1] IN
    /\ Len(rd.ids) = 1
    /\ Len(rd.before) <= Len(table[e])
    /\ \A i \in DOMAIN rd.before : rd.before[i] <= table[e][i].points["loss"]
    /\ rd.pc # "list" =>
         /\ Len(rd.before) <= Len(rd.list) /\ Len(rd.list) <= Len(table[e])
         /\ Len(rd.chart) = Len(rd.list) /\ rd.at \in 0..Len(rd.list)
         /\ \A i \in DOMAIN rd.before :
              i > rd.at => rd.chart[i] = Nil \/ rd.before[i] <= rd.chart[i]
    /\ rd.pc = "reported" => rd.at = 0

\* Likewise for a chart: under each name there are at least the points there were.
Charting ==
  rd.pc \in {"chart", "series", "metrics"} =>
    LET e == rd.ids[1] IN
    /\ Len(rd.ids) = 1 /\ rd.at \in DOMAIN table[e]
    /\ Len(rd.before) = Len(rd.keys)
    /\ \A j \in DOMAIN rd.keys : rd.before[j] <= Points(e, rd.at, rd.keys[j])
    /\ rd.pc = "series" => Len(rd.keys) = 1
    /\ rd.pc = "chart" =>
         /\ Len(rd.chart) < Len(rd.keys)
         /\ \A j \in DOMAIN rd.chart :
              rd.chart[j] = Nil \/ rd.before[j] <= rd.chart[j]

\* A metric counts at most once for an experiment shown, and as often as that
\* only when all are shown with it.
Comparing ==
  rd.pc \in {"find", "latest", "compared"} =>
    /\ rd.at \in 1..Len(rd.ids) + 1 /\ Len(rd.shown) < rd.at
    /\ rd.pc = "latest" => rd.at <= Len(rd.ids)
    /\ \A k \in Keys :
         /\ rd.count[k] <= Len(rd.shown)
         /\ rd.count[k] = Len(rd.shown) =>
              \A i \in DOMAIN rd.shown : k \in rd.shown[i]

ReportInv ==
  Typed /\ Reporting /\ Charting /\ Comparing /\ ReportSeesPast

\* The points of a run that is there are a number.
LEMMA PointsType ==
  ASSUME Typed, NEW e \in Experiments, NEW i \in DOMAIN table[e], NEW k
  PROVE  Points(e, i, k) \in Nat
<1>1. \A m \in Metrics : table[e][i].points[m] \in Nat
  BY EntryPoints DEF Typed
<1> QED BY <1>1 DEF Points

\* The experiment a reader that has one asks for.
LEMMA OneExperiment ==
  ASSUME Typed, Len(rd.ids) = 1
  PROVE  rd.ids[1] \in Experiments /\ table[rd.ids[1]] \in Seq(Entry)
<1>1. rd.ids \in Seq(Experiments)
  BY DEF Typed, Reader
<1>2. 1 \in 1..Len(rd.ids)
  OBVIOUS
<1>3. rd.ids[1] \in Experiments
  BY <1>1, <1>2, ElementOfSeq
<1> QED BY <1>3 DEF Typed

\* A write leaves what is known of the reader.
LEMMA WriteInv ==
  ASSUME ReportInv, Write
  PROVE  ReportInv'
<1> USE DEF ReportInv
<1>1. table' \in [Experiments -> Seq(Entry)] /\ Grown /\ UNCHANGED rd
  BY WriteGrows
<1>2. Typed'
  BY <1>1 DEF Typed
<1>3. Comparing' /\ ReportSeesPast'
  BY <1>1 DEF Comparing, ReportSeesPast
<1>4. \A e \in Experiments :
        /\ table[e] \in Seq(Entry) /\ table'[e] \in Seq(Entry)
        /\ Len(table[e]) \in Nat /\ Len(table'[e]) \in Nat
        /\ DOMAIN table[e] = 1..Len(table[e])
        /\ DOMAIN table'[e] = 1..Len(table'[e])
        /\ Len(table[e]) <= Len(table'[e])
  BY <1>1, LenProperties DEF Typed, Grown
<1>5. \A e \in Experiments : DOMAIN table[e] \subseteq DOMAIN table'[e]
  BY <1>4
<1>6. ASSUME NEW e \in Experiments, NEW i \in DOMAIN table[e], NEW k \in Metrics
      PROVE  /\ table[e][i].points[k] \in Nat /\ table'[e][i].points[k] \in Nat
             /\ table[e][i].points[k] <= table'[e][i].points[k]
  <2>1. table[e][i].points[k] \in Nat
    BY EntryPoints DEF Typed
  <2>2. i \in DOMAIN table'[e]
    BY <1>5
  <2>3. table'[e][i].points[k] \in Nat
    BY <1>1, <2>2, EntryPoints
  <2> QED BY <1>1, <2>1, <2>3 DEF Grown
<1>7. rd.before \in Seq(Nat) /\ Len(rd.before) \in Nat
        /\ DOMAIN rd.before = 1..Len(rd.before)
        /\ \A i \in DOMAIN rd.before : rd.before[i] \in Nat
  BY LenProperties, ElementOfSeq DEF Typed, Reader
<1>8. Reporting'
  <2> SUFFICES ASSUME rd.pc \in {"list", "loop", "reported"} PROVE Reporting'
    BY <1>1 DEF Reporting
  <2>1. Len(rd.ids) = 1
    BY DEF Reporting
  <2>2. PICK e \in Experiments : e = rd.ids[1]
    BY <2>1, OneExperiment
  <2>3. /\ Len(rd.before) <= Len(table[e])
        /\ \A i \in DOMAIN rd.before : rd.before[i] <= table[e][i].points["loss"]
    BY <2>2 DEF Reporting
  <2>4. Len(rd.before) <= Len(table'[e])
    BY <1>4, <1>7, <2>3
  <2>5. ASSUME NEW i \in DOMAIN rd.before
        PROVE  rd.before[i] <= table'[e][i].points["loss"]
    <3>1. i \in DOMAIN table[e]
      BY <1>4, <1>7, <2>3
    <3>2. /\ table[e][i].points["loss"] \in Nat
          /\ table'[e][i].points["loss"] \in Nat
          /\ table[e][i].points["loss"] <= table'[e][i].points["loss"]
      BY <1>6, <3>1, ReportAssumption
    <3>3. rd.before[i] \in Nat /\ rd.before[i] <= table[e][i].points["loss"]
      BY <1>7, <2>3
    <3> QED BY <3>2, <3>3
  <2>6. rd.pc # "list" => Len(rd.list) <= Len(table'[e])
    <3>1. Len(rd.list) \in Nat
      BY LenProperties DEF Typed, Reader
    <3>2. rd.pc # "list" => Len(rd.list) <= Len(table[e])
      BY <2>2 DEF Reporting
    <3> QED BY <1>4, <3>1, <3>2
  <2> QED BY <1>1, <2>1, <2>2, <2>4, <2>5, <2>6 DEF Reporting
<1>9. Charting'
  <2> SUFFICES ASSUME rd.pc \in {"chart", "series", "metrics"} PROVE Charting'
    BY <1>1 DEF Charting
  <2>1. Len(rd.ids) = 1
    BY DEF Charting
  <2>2. PICK e \in Experiments : e = rd.ids[1]
    BY <2>1, OneExperiment
  <2>3. rd.at \in DOMAIN table[e] /\ rd.at \in DOMAIN table'[e]
    BY <1>5, <2>2 DEF Charting
  <2>4. ASSUME NEW j \in DOMAIN rd.keys
        PROVE  rd.before[j] <= Points(e, rd.at, rd.keys[j])'
    <3>1. rd.before[j] \in Nat
      <4>1. Len(rd.before) = Len(rd.keys)
        BY DEF Charting
      <4>2. DOMAIN rd.keys = 1..Len(rd.keys)
        BY LenProperties DEF Typed, Reader
      <4> QED BY <1>7, <4>1, <4>2
    <3>2. rd.before[j] <= Points(e, rd.at, rd.keys[j])
      BY <2>2 DEF Charting
    <3>3. CASE rd.keys[j] \in Metrics
      <4>1. rd.before[j] <= table[e][rd.at].points[rd.keys[j]]
        BY <3>2, <3>3 DEF Points
      <4>2. /\ table[e][rd.at].points[rd.keys[j]] \in Nat
            /\ table'[e][rd.at].points[rd.keys[j]] \in Nat
            /\ table[e][rd.at].points[rd.keys[j]]
                 <= table'[e][rd.at].points[rd.keys[j]]
        BY <1>6, <2>3, <3>3
      <4>3. rd.before[j] <= table'[e][rd.at].points[rd.keys[j]]
        BY <3>1, <4>1, <4>2
      <4> QED BY <1>1, <3>3, <4>3 DEF Points
    <3>4. CASE rd.keys[j] \notin Metrics
      BY <1>1, <3>2, <3>4 DEF Points
    <3> QED BY <3>3, <3>4
  <2> QED BY <1>1, <2>1, <2>2, <2>3, <2>4 DEF Charting
<1> QED BY <1>2, <1>3, <1>8, <1>9

\* A reader that is idle, or in no part an invariant speaks of.
LEMMA IdleInv ==
  ASSUME ReportInv, Read(NoReader)
  PROVE  ReportInv'
<1>1. rd' = NoReader /\ UNCHANGED table
  BY DEF Read
<1>2. rd' \in Reader /\ rd'.pc = "idle"
  BY <1>1, NoReaderType DEF NoReader
<1> QED BY <1>1, <1>2 DEF ReportInv, Typed, Reporting, Charting, Comparing,
        ReportSeesPast

\* The report of an experiment begins with the runs and losses there are.
LEMMA ReportStep ==
  ASSUME ReportInv, NEW e \in Experiments, Report(e)
  PROVE  ReportInv'
<1> DEFINE losses == [i \in DOMAIN table[e] |-> Points(e, i, "loss")]
<1>t. Typed
  BY DEF ReportInv
<1>1. UNCHANGED table
        /\ rd' = [NoReader EXCEPT !.pc = "list", !.ids = <<e>>, !.before = losses]
  BY DEF Report, Read
<1>2. table[e] \in Seq(Entry) /\ Len(table[e]) \in Nat
        /\ DOMAIN table[e] = 1..Len(table[e])
  BY <1>t, LenProperties DEF Typed
<1>3. losses \in [1..Len(table[e]) -> Nat]
  BY <1>t, <1>2, PointsType
<1>4. losses \in Seq(Nat) /\ Len(losses) = Len(table[e])
        /\ DOMAIN losses = DOMAIN table[e]
  BY <1>2, <1>3, FunSeq
<1>5. \A i \in DOMAIN losses : losses[i] <= table[e][i].points["loss"]
  <2>1. ASSUME NEW i \in DOMAIN losses
        PROVE  /\ losses[i] = table[e][i].points["loss"]
               /\ losses[i] \in Nat
    BY <1>2, <1>3, ReportAssumption DEF Points
  <2> QED BY <2>1
<1> HIDE DEF losses
<1>6. <<e>> \in Seq(Experiments) /\ Len(<<e>>) = 1 /\ <<e>>[1] = e
  OBVIOUS
<1>7. rd' \in Reader /\ rd'.pc = "list" /\ rd'.ids = <<e>> /\ rd'.before = losses
  BY <1>1, <1>4, <1>6, NoReaderType DEF Reader
<1>8. Typed'
  BY <1>t, <1>1, <1>7 DEF Typed
<1>9. Len(losses) <= Len(table[e])
  BY <1>2, <1>4
<1>10. Reporting'
  BY <1>1, <1>5, <1>6, <1>7, <1>9 DEF Reporting
<1> QED BY <1>7, <1>8, <1>10 DEF ReportInv, Charting, Comparing, ReportSeesPast

\* Its runs are those there are now, no fewer.
LEMMA ListStep ==
  ASSUME ReportInv, ListRuns
  PROVE  ReportInv'
<1>t. Typed /\ rd \in Reader /\ rd.pc = "list"
  BY DEF ReportInv, Typed, ListRuns
<1>1. Len(rd.ids) = 1
  BY <1>t DEF ReportInv, Reporting
<1>2. PICK e \in Experiments : e = rd.ids[1]
  BY <1>t, <1>1, OneExperiment
<1> DEFINE rows == [i \in DOMAIN table[e] |-> table[e][i].row]
           none == [i \in DOMAIN table[e] |-> 0]
<1>3. UNCHANGED table
        /\ rd' = [rd EXCEPT !.pc = "loop", !.at = Len(table[e]), !.list = rows,
                            !.chart = none]
  BY <1>2 DEF ListRuns, Read
<1>4. table[e] \in Seq(Entry) /\ Len(table[e]) \in Nat
        /\ DOMAIN table[e] = 1..Len(table[e])
  BY <1>t, LenProperties DEF Typed
<1>5. \A i \in DOMAIN table[e] : table[e][i].row \in Rows
  BY <1>t, EntryPoints DEF Typed, Entry
<1>6. rows \in Seq(Rows) /\ Len(rows) = Len(table[e])
  BY <1>4, <1>5, FunSeq
<1>7. none \in Seq(Int) /\ Len(none) = Len(table[e])
  BY <1>4, FunSeq
<1> HIDE DEF rows, none
<1>8. rd' \in Reader /\ rd'.pc = "loop" /\ rd'.ids = rd.ids
        /\ rd'.before = rd.before /\ rd'.at = Len(table[e]) /\ rd'.list = rows
        /\ rd'.chart = none
  <2>1. rd' \in Reader
    <3>1. rd' = [rd EXCEPT !.pc = "loop", !.at = Len(table[e]), !.list = rows,
                           !.chart = none]
      BY <1>3
    <3>2. Len(table[e]) \in Int /\ rows \in Seq(Rows) /\ none \in Seq(Int)
      BY <1>4, <1>6, <1>7
    <3>3. rd \in Reader
      BY <1>t
    <3> QED BY <3>1, <3>2, <3>3 DEF Reader
  <2> QED BY <1>t, <1>3, <2>1 DEF Reader
<1>9. Typed'
  BY <1>t, <1>3, <1>8 DEF Typed
<1>10. /\ Len(rd.before) <= Len(table[e])
       /\ \A i \in DOMAIN rd.before : rd.before[i] <= table[e][i].points["loss"]
  BY <1>t, <1>2 DEF ReportInv, Reporting
<1>11. Len(rd.before) \in Nat /\ DOMAIN rd.before = 1..Len(rd.before)
  BY <1>t, LenProperties DEF Reader
<1>12. /\ Len(table[e]) \in 0..Len(rows)
       /\ \A i \in DOMAIN rd.before : ~(i > Len(table[e]))
  BY <1>4, <1>6, <1>10, <1>11
<1>13. Reporting'
  BY <1>1, <1>2, <1>3, <1>4, <1>6, <1>7, <1>8, <1>10, <1>12 DEF Reporting
<1> QED BY <1>8, <1>9, <1>13 DEF ReportInv, Charting, Comparing, ReportSeesPast

\* What the summary counts are numbers.
LEMMA CountedType ==
  ASSUME rd \in Reader, NEW r \in Rows
  PROVE  /\ Counted(r) \in Reader
         /\ Counted(r).pc = rd.pc /\ Counted(r).ids = rd.ids
         /\ Counted(r).before = rd.before /\ Counted(r).list = rd.list
         /\ Counted(r).at = rd.at /\ Counted(r).chart = rd.chart
         /\ Counted(r).count = rd.count /\ Counted(r).shown = rd.shown
         /\ Counted(r).keys = rd.keys
         /\ Counted(r).best = (IF IsBetter(r) THEN rd.at ELSE rd.best)
         /\ Counted(r).bestMetric
              = (IF IsBetter(r) THEN r.summary["accuracy"] ELSE rd.bestMetric)
         /\ Counted(r).duration
              = (IF r.duration = Nil THEN rd.duration ELSE rd.duration + r.duration)
<1>1. r \in Row
  BY ReportAssumption
<1>2. r.duration \in Int
  BY <1>1 DEF Row, Nil
<1>3. IsBetter(r) => r.summary["accuracy"] \in Int
  <2>1. PICK K \in SUBSET Keys : r.summary \in [K -> Score]
    BY <1>1 DEF Row
  <2>2. Score \subseteq Int
    BY DEF Score
  <2> QED BY <2>1, <2>2 DEF IsBetter
<1> DEFINE completed == IF r.status = "completed" THEN rd.completed + 1
                        ELSE rd.completed
           failed == IF r.status = "failed" THEN rd.failed + 1 ELSE rd.failed
           duration == IF r.duration = Nil THEN rd.duration
                       ELSE rd.duration + r.duration
           best == IF IsBetter(r) THEN rd.at ELSE rd.best
           metric == IF IsBetter(r) THEN r.summary["accuracy"] ELSE rd.bestMetric
<1>4. rd.completed \in Int /\ rd.failed \in Int /\ rd.duration \in Int
        /\ rd.at \in Int /\ rd.best \in Int /\ rd.bestMetric \in Int
  BY DEF Reader
<1>5. completed \in Int /\ failed \in Int /\ duration \in Int /\ best \in Int
        /\ metric \in Int
  BY <1>2, <1>3, <1>4
<1>6. Counted(r) = [rd EXCEPT !.completed = completed, !.failed = failed,
                              !.duration = duration, !.best = best,
                              !.bestMetric = metric]
  BY DEF Counted
<1> HIDE DEF completed, failed, duration, best, metric
<1>7. /\ Counted(r) \in Reader
      /\ Counted(r).pc = rd.pc /\ Counted(r).ids = rd.ids
      /\ Counted(r).before = rd.before /\ Counted(r).list = rd.list
      /\ Counted(r).at = rd.at /\ Counted(r).chart = rd.chart
      /\ Counted(r).count = rd.count /\ Counted(r).shown = rd.shown
      /\ Counted(r).keys = rd.keys
      /\ Counted(r).best = best /\ Counted(r).bestMetric = metric
      /\ Counted(r).duration = duration
  BY <1>5, <1>6 DEF Reader
<1> QED BY <1>7 DEF best, metric, duration

\* A run has its turn.
LEMMA CountStep ==
  ASSUME ReportInv, CountRun
  PROVE  ReportInv'
<1> DEFINE at == rd.at
<1>t. Typed /\ rd \in Reader /\ rd.pc = "loop" /\ at > 0
  BY DEF ReportInv, Typed, CountRun
<1>1. Len(rd.ids) = 1
  BY <1>t DEF ReportInv, Reporting
<1>2. PICK e \in Experiments : e = rd.ids[1]
  BY <1>t, <1>1, OneExperiment
<1>3. /\ Len(rd.before) <= Len(table[e])
      /\ \A i \in DOMAIN rd.before : rd.before[i] <= table[e][i].points["loss"]
      /\ Len(rd.before) <= Len(rd.list) /\ Len(rd.list) <= Len(table[e])
      /\ Len(rd.chart) = Len(rd.list) /\ at \in 0..Len(rd.list)
      /\ \A i \in DOMAIN rd.before :
           i > at => rd.chart[i] = Nil \/ rd.before[i] <= rd.chart[i]
  BY <1>t, <1>2 DEF ReportInv, Reporting
<1>4. /\ Len(rd.before) \in Nat /\ DOMAIN rd.before = 1..Len(rd.before)
      /\ Len(rd.list) \in Nat /\ Len(table[e]) \in Nat
      /\ DOMAIN table[e] = 1..Len(table[e])
  BY <1>t, LenProperties DEF Reader, Typed
<1>5. at \in 1..Len(rd.list) /\ at \in 1..Len(rd.chart) /\ at \in DOMAIN table[e]
        /\ at - 1 \in 0..Len(rd.list)
  BY <1>t, <1>3, <1>4
<1>6. rd.list[at] \in Rows
  BY <1>t, <1>5, ElementOfSeq DEF Reader
<1>7. PICK n \in {Points(e, at, "loss"), Nil} :
        rd' = [Counted(rd.list[at]) EXCEPT !.at = at - 1, !.chart[at] = n]
  BY <1>2 DEF CountRun, Read
<1>8. Points(e, at, "loss") \in Nat /\ n \in Int
  BY <1>t, <1>5, PointsType DEF Nil
<1> DEFINE chart == [rd.chart EXCEPT ![at] = n]
<1>9. /\ chart \in Seq(Int) /\ Len(chart) = Len(rd.chart)
      /\ \A j \in 1..Len(rd.chart) : chart[j] = IF j = at THEN n ELSE rd.chart[j]
  <2>1. rd.chart \in Seq(Int)
    BY <1>t DEF Reader
  <2> QED BY <1>5, <1>8, <2>1, ExceptSeq
<1>10. rd' = [Counted(rd.list[at]) EXCEPT !.at = at - 1, !.chart = chart]
  BY <1>t, <1>6, <1>7, CountedType DEF Reader
<1> HIDE DEF chart
<1>11. rd' \in Reader /\ rd'.pc = "loop" /\ rd'.ids = rd.ids
         /\ rd'.before = rd.before /\ rd'.at = at - 1 /\ rd'.list = rd.list
         /\ rd'.chart = chart
  <2>1. at - 1 \in Int
    BY <1>5
  <2> QED BY <1>t, <1>6, <1>9, <1>10, <2>1, CountedType DEF Reader
<1>12. Typed' /\ UNCHANGED table
  BY <1>t, <1>11 DEF Typed, CountRun, Read
<1>13. ASSUME NEW i \in DOMAIN rd.before, i > at - 1
       PROVE  chart[i] = Nil \/ rd.before[i] <= chart[i]
  <2>1. i \in 1..Len(rd.chart) /\ i \in Nat
    BY <1>3, <1>4
  <2>2. CASE i = at
    <3>1. chart[i] = n
      BY <1>9, <2>1, <2>2
    <3>2. Points(e, at, "loss") = table[e][i].points["loss"]
      BY <2>2, ReportAssumption DEF Points
    <3> QED BY <1>3, <3>1, <3>2
  <2>3. CASE i # at
    <3>1. i > at
      BY <1>5, <1>13, <2>1, <2>3
    <3> QED BY <1>3, <1>9, <2>1, <2>3, <3>1
  <2> QED BY <2>2, <2>3
<1>14. Reporting'
  BY <1>1, <1>2, <1>3, <1>5, <1>9, <1>11, <1>12, <1>13 DEF Reporting
<1> QED BY <1>11, <1>12, <1>14 DEF ReportInv, Charting, Comparing,
        ReportSeesPast

\* After the last turn the report is what was read.
LEMMA ReportedStep ==
  ASSUME ReportInv, Reported
  PROVE  ReportInv'
<1>t. Typed /\ rd \in Reader /\ rd.pc = "loop" /\ rd.at = 0
  BY DEF ReportInv, Typed, Reported
<1>1. UNCHANGED table /\ rd' = [rd EXCEPT !.pc = "reported"]
  BY DEF Reported, Read
<1>2. rd' \in Reader /\ rd'.pc = "reported" /\ rd'.ids = rd.ids
        /\ rd'.before = rd.before /\ rd'.at = 0 /\ rd'.list = rd.list
        /\ rd'.chart = rd.chart
  BY <1>t, <1>1 DEF Reader
<1>3. Typed'
  BY <1>t, <1>1, <1>2 DEF Typed
<1>4. Reporting'
  BY <1>t, <1>1, <1>2 DEF ReportInv, Reporting
<1>5. \A i \in DOMAIN rd.before : i > 0
  BY <1>t, LenProperties DEF Reader
<1>6. ReportSeesPast'
  BY <1>t, <1>2, <1>5 DEF ReportInv, Reporting, ReportSeesPast
<1> QED BY <1>2, <1>3, <1>4, <1>6 DEF ReportInv, Charting, Comparing

\* A comparison begins at the first experiment, with nothing counted.
LEMMA CompareStep ==
  ASSUME ReportInv, NEW ids \in IDs, Compare(ids)
  PROVE  ReportInv'
<1>1. PICK first \in Int, b \in Reader :
        /\ first = 1 /\ b = NoReader /\ UNCHANGED table
        /\ rd' = [b EXCEPT !.pc = "find", !.ids = ids, !.at = first]
  <2>1. 1 \in Int
    OBVIOUS
  <2> QED BY <2>1, NoReaderType, Zenon DEF Compare, Read
<1>2. PICK n \in 2..MaxIDs : ids \in [1..n -> Experiments]
  BY DEF IDs
<1>3. ids \in Seq(Experiments) /\ Len(ids) = n /\ n \in Nat
  BY <1>2, FunSeq, ReportAssumption
<1>4. /\ rd' \in Reader /\ rd'.pc = "find" /\ rd'.ids = ids /\ rd'.at = first
      /\ rd'.shown = b.shown /\ rd'.count = b.count
  <2>1. rd' = [b EXCEPT !.pc = "find", !.ids = ids, !.at = first]
    BY <1>1
  <2> QED BY <1>3, <2>1 DEF Reader
<1>5. rd'.at = 1 /\ rd'.shown = <<>> /\ \A k \in Keys : rd'.count[k] = 0
  BY <1>1, <1>4 DEF NoReader
<1>6. Len(<<>>) = 0 /\ DOMAIN <<>> = {}
  OBVIOUS
<1>7. Comparing'
  BY <1>3, <1>4, <1>5, <1>6 DEF Comparing
<1> QED BY <1>1, <1>4, <1>7 DEF ReportInv, Typed, Reporting, Charting,
        ReportSeesPast

\* What the comparison has counted, in numbers.
LEMMA CompareTypes ==
  ASSUME rd \in Reader
  PROVE  /\ Len(rd.shown) \in Nat /\ Len(rd.ids) \in Nat /\ rd.at \in Int
         /\ DOMAIN rd.shown = 1..Len(rd.shown)
         /\ \A k \in Keys : rd.count[k] \in Int
BY LenProperties DEF Reader

\* An experiment is found, or left out.
LEMMA FindStep ==
  ASSUME ReportInv, FindExperiment
  PROVE  ReportInv'
<1>t. Typed /\ rd \in Reader /\ rd.pc = "find" /\ rd.at <= Len(rd.ids)
  BY DEF ReportInv, Typed, FindExperiment
<1>1. /\ UNCHANGED table
      /\ rd' = [rd EXCEPT !.pc = "latest"] \/ rd' = [rd EXCEPT !.at = rd.at + 1]
  BY DEF FindExperiment, Read
<1>2. rd' \in Reader /\ rd'.ids = rd.ids /\ rd'.shown = rd.shown
        /\ rd'.count = rd.count
  <2>1. rd.at + 1 \in Int
    BY <1>t, CompareTypes
  <2> QED BY <1>t, <1>1, <2>1 DEF Reader
<1>3. \/ rd'.pc = "latest" /\ rd'.at = rd.at
      \/ rd'.pc = "find" /\ rd'.at = rd.at + 1
  BY <1>t, <1>1 DEF Reader
<1>4. /\ rd.at \in 1..Len(rd.ids) + 1 /\ Len(rd.shown) < rd.at
      /\ \A k \in Keys :
           /\ rd.count[k] <= Len(rd.shown)
           /\ rd.count[k] = Len(rd.shown) =>
                \A i \in DOMAIN rd.shown : k \in rd.shown[i]
  BY <1>t DEF ReportInv, Comparing
<1>5. /\ rd'.at \in 1..Len(rd.ids) + 1 /\ Len(rd.shown) < rd'.at
      /\ rd'.pc = "latest" => rd'.at <= Len(rd.ids)
  BY <1>t, <1>3, <1>4, CompareTypes
<1>6. Comparing'
  BY <1>2, <1>4, <1>5 DEF Comparing
<1> QED BY <1>t, <1>1, <1>2, <1>3, <1>6 DEF ReportInv, Typed, Reporting,
        Charting, ReportSeesPast

\* An experiment is shown with the metrics K, which are counted.
LEMMA ShowStep ==
  ASSUME ReportInv, rd.pc = "latest", NEW K \in SUBSET Keys, Read(Show(K))
  PROVE  ReportInv'
<1>t. Typed /\ rd \in Reader
  BY DEF ReportInv, Typed
<1> DEFINE shown == Append(rd.shown, K)
           count == [k \in Keys |-> IF k \in K THEN rd.count[k] + 1
                                    ELSE rd.count[k]]
<1>1. UNCHANGED table
        /\ rd' = [rd EXCEPT !.pc = "find", !.at = rd.at + 1, !.shown = shown,
                            !.count = count]
  BY DEF Read, Show
<1>2. rd.shown \in Seq(SUBSET Keys) /\ Len(rd.shown) \in Nat
  BY <1>t, CompareTypes DEF Reader
<1>3. /\ shown \in Seq(SUBSET Keys) /\ Len(shown) = Len(rd.shown) + 1
      /\ \A i \in 1..Len(rd.shown) : shown[i] = rd.shown[i]
      /\ shown[Len(rd.shown) + 1] = K
  BY <1>2, AppendProperties
<1>4. DOMAIN shown = 1..Len(rd.shown) + 1
  BY <1>2, <1>3, LenProperties
<1>5. count \in [Keys -> Int]
  BY <1>t, CompareTypes
<1>6. \A k \in Keys :
        count[k] = IF k \in K THEN rd.count[k] + 1 ELSE rd.count[k]
  OBVIOUS
<1> HIDE DEF shown, count
<1>7. rd.at + 1 \in Int
  BY <1>t, CompareTypes
<1>8. rd' \in Reader
  BY <1>t, <1>1, <1>3, <1>5, <1>7 DEF Reader
<1>9. rd'.pc = "find" /\ rd'.ids = rd.ids /\ rd'.at = rd.at + 1
        /\ rd'.shown = shown /\ rd'.count = count
  BY <1>t, <1>1 DEF Reader
<1>10. /\ rd.at \in 1..Len(rd.ids) + 1 /\ Len(rd.shown) < rd.at
       /\ rd.at <= Len(rd.ids)
       /\ \A k \in Keys :
            /\ rd.count[k] <= Len(rd.shown)
            /\ rd.count[k] = Len(rd.shown) =>
                 \A i \in DOMAIN rd.shown : k \in rd.shown[i]
  BY DEF ReportInv, Comparing
<1>11. rd.at + 1 \in 1..Len(rd.ids) + 1 /\ Len(shown) < rd.at + 1
  BY <1>t, <1>3, <1>10, CompareTypes
<1>12. ASSUME NEW k \in Keys
       PROVE  /\ count[k] <= Len(shown)
              /\ count[k] = Len(shown) => \A i \in DOMAIN shown : k \in shown[i]
  <2>1. rd.count[k] \in Int /\ Len(rd.shown) \in Nat
          /\ DOMAIN rd.shown = 1..Len(rd.shown)
    BY <1>t, CompareTypes
  <2>2. count[k] <= Len(shown)
    BY <1>3, <1>6, <1>10, <2>1
  <2>3. ASSUME count[k] = Len(shown) PROVE \A i \in DOMAIN shown : k \in shown[i]
    <3>1. k \in K /\ rd.count[k] = Len(rd.shown)
      BY <1>3, <1>6, <1>10, <2>1, <2>3
    <3>2. \A i \in 1..Len(rd.shown) : k \in rd.shown[i]
      BY <1>10, <2>1, <3>1
    <3> QED BY <1>3, <1>4, <2>1, <3>1, <3>2
  <2> QED BY <2>2, <2>3
<1>13. Comparing'
  BY <1>9, <1>11, <1>12 DEF Comparing
<1> QED BY <1>t, <1>1, <1>8, <1>9, <1>13 DEF ReportInv, Typed, Reporting,
        Charting, ReportSeesPast

\* The metrics of the latest run are keys.
LEMMA LatestStep ==
  ASSUME ReportInv, LatestRun
  PROVE  ReportInv'
<1> DEFINE runs == table[rd.ids[rd.at]]
<1>t. Typed /\ rd \in Reader /\ rd.pc = "latest"
  BY DEF ReportInv, Typed, LatestRun
<1>1. rd.at \in 1..Len(rd.ids)
  BY <1>t, CompareTypes DEF ReportInv, Comparing
<1>2. rd.ids[rd.at] \in Experiments
  BY <1>t, <1>1, ElementOfSeq DEF Reader
<1>3. runs \in Seq(Entry) /\ Len(runs) \in Nat /\ DOMAIN runs = 1..Len(runs)
  BY <1>t, <1>2, LenProperties DEF Typed
<1>4. runs # <<>> => DOMAIN runs[Len(runs)].row.summary \subseteq Keys
  <2>1. ASSUME runs # <<>> PROVE DOMAIN runs[Len(runs)].row.summary \subseteq Keys
    <3>1. Len(runs) \in DOMAIN runs
      BY <1>3, <2>1, EmptySeq
    <3>2. runs[Len(runs)].row \in Row
      BY <1>t, <1>2, <3>1, EntryPoints, ReportAssumption DEF Typed, Entry
    <3>3. PICK K \in SUBSET Keys : runs[Len(runs)].row.summary \in [K -> Score]
      BY <3>2 DEF Row
    <3> QED BY <3>3
  <2> QED BY <2>1
<1>5. \E K \in SUBSET Keys : Read(Show(K))
  BY <1>4 DEF LatestRun
<1> QED BY <1>t, <1>5, ShowStep

\* The comparison is over.
LEMMA ComparedStep ==
  ASSUME ReportInv, Compared
  PROVE  ReportInv'
<1>t. Typed /\ rd \in Reader /\ rd.pc = "find"
  BY DEF ReportInv, Typed, Compared
<1>1. UNCHANGED table /\ rd' = [rd EXCEPT !.pc = "compared"]
  BY DEF Compared, Read
<1>2. rd' \in Reader /\ rd'.pc = "compared" /\ rd'.ids = rd.ids /\ rd'.at = rd.at
        /\ rd'.shown = rd.shown /\ rd'.count = rd.count
  BY <1>t, <1>1 DEF Reader
<1>3. Comparing'
  BY <1>t, <1>2 DEF ReportInv, Comparing
<1> QED BY <1>t, <1>1, <1>2, <1>3 DEF ReportInv, Typed, Reporting, Charting,
        ReportSeesPast

\* A chart, or the points under some names, are asked for.
LEMMA AskStep ==
  ASSUME ReportInv, NEW e \in Experiments, NEW i \in DOMAIN table[e],
         NEW keys \in Seq(KeyNames), NEW pc \in {"chart", "series", "metrics"},
         pc = "chart" => Len(keys) > 0, pc = "series" => Len(keys) = 1,
         AskFor(e, i, keys, pc)
  PROVE  ReportInv'
<1> DEFINE points == [j \in DOMAIN keys |-> Points(e, i, keys[j])]
<1>t. Typed
  BY DEF ReportInv
<1>1. PICK b \in Reader :
        /\ b = NoReader /\ UNCHANGED table
        /\ rd' = [b EXCEPT !.pc = pc, !.ids = <<e>>, !.at = i, !.keys = keys,
                           !.before = points]
  BY NoReaderType, Zenon DEF AskFor, Read
<1>2. Len(keys) \in Nat /\ DOMAIN keys = 1..Len(keys)
  BY LenProperties
<1>3. points \in [1..Len(keys) -> Nat]
  BY <1>t, <1>2, PointsType
<1>4. points \in Seq(Nat) /\ Len(points) = Len(keys)
  BY <1>2, <1>3, FunSeq
<1>5. \A j \in DOMAIN keys : points[j] <= Points(e, i, keys[j])
  <2>1. ASSUME NEW j \in DOMAIN keys
        PROVE  points[j] = Points(e, i, keys[j]) /\ points[j] \in Nat
    BY <1>2, <1>3
  <2> QED BY <2>1
<1> HIDE DEF points
<1>6. <<e>> \in Seq(Experiments) /\ Len(<<e>>) = 1 /\ <<e>>[1] = e
  OBVIOUS
<1>7. i \in Int
  BY <1>t, LenProperties DEF Typed
<1>8. /\ rd' \in Reader /\ rd'.pc = pc /\ rd'.ids = <<e>> /\ rd'.at = i
      /\ rd'.keys = keys /\ rd'.before = points /\ rd'.chart = b.chart
  <2>1. rd' = [b EXCEPT !.pc = pc, !.ids = <<e>>, !.at = i, !.keys = keys,
                        !.before = points]
    BY <1>1
  <2> QED BY <1>4, <1>6, <1>7, <2>1 DEF Reader
<1>9. rd'.chart = <<>>
  BY <1>1, <1>8 DEF NoReader
<1>10. Len(<<>>) = 0 /\ DOMAIN <<>> = {}
  OBVIOUS
<1>11. UNCHANGED table
  BY <1>1
<1>12. \A j \in DOMAIN keys : points[j] <= Points(e, i, keys[j])'
  BY <1>5, <1>11 DEF Points
<1>13. Charting'
  BY <1>4, <1>6, <1>8, <1>9, <1>10, <1>11, <1>12 DEF Charting
<1>14. Typed'
  BY <1>t, <1>8, <1>11 DEF Typed
<1> QED BY <1>8, <1>13, <1>14 DEF ReportInv, Reporting, Comparing, ReportSeesPast

\* The readers that ask for them.
LEMMA AskSteps ==
  ASSUME ReportInv, NEW e \in Experiments, NEW i \in DOMAIN table[e],
         \/ Chart(e, i, LossCurve)
         \/ Chart(e, i, AccuracyTrend)
         \/ \E k \in Metrics : GetMetricSeries(e, i, k)
         \/ \E keys \in {<<>>} \cup {<<k>> : k \in Metrics} :
              GetRunMetrics(e, i, keys)
  PROVE  ReportInv'
<1>1. CASE Chart(e, i, LossCurve)
  <2>1. LossCurve \in Seq(KeyNames) /\ Len(LossCurve) > 0
    BY DEF LossCurve, KeyNames
  <2> QED BY <1>1, <2>1, AskStep DEF Chart
<1>2. CASE Chart(e, i, AccuracyTrend)
  <2>1. AccuracyTrend \in Seq(KeyNames) /\ Len(AccuracyTrend) > 0
    BY DEF AccuracyTrend, KeyNames
  <2> QED BY <1>2, <2>1, AskStep DEF Chart
<1>3. ASSUME NEW k \in Metrics
      PROVE  <<k>> \in Seq(KeyNames) /\ Len(<<k>>) = 1
  BY DEF KeyNames
<1>4. ASSUME NEW k \in Metrics, GetMetricSeries(e, i, k) PROVE ReportInv'
  BY <1>3, <1>4, AskStep DEF GetMetricSeries
<1>5. ASSUME NEW keys \in {<<>>} \cup {<<k>> : k \in Metrics},
             GetRunMetrics(e, i, keys)
      PROVE  ReportInv'
  <2> DEFINE names == IF keys = <<>> THEN SetToSeq(Metrics) ELSE keys
  <2>1. SetToSeq(Metrics) \in Seq(KeyNames)
    BY SetToSeqType DEF KeyNames
  <2>2. names \in Seq(KeyNames)
    BY <1>3, <2>1
  <2>3. AskFor(e, i, names, "metrics")
    BY <1>5 DEF GetRunMetrics
  <2> HIDE DEF names
  <2> QED BY <2>2, <2>3, AskStep
<1> QED BY <1>1, <1>2, <1>4, <1>5

\* What is known of a chart that is read, in numbers.
LEMMA ChartTypes ==
  ASSUME ReportInv, rd.pc \in {"chart", "series", "metrics"}
  PROVE  \E e \in Experiments :
           /\ e = rd.ids[1] /\ rd.at \in DOMAIN table[e]
           /\ Len(rd.keys) \in Nat /\ DOMAIN rd.keys = 1..Len(rd.keys)
           /\ Len(rd.before) = Len(rd.keys) /\ DOMAIN rd.before = DOMAIN rd.keys
           /\ \A j \in DOMAIN rd.keys :
                /\ rd.before[j] \in Nat /\ Points(e, rd.at, rd.keys[j]) \in Nat
                /\ rd.before[j] <= Points(e, rd.at, rd.keys[j])
<1>1. Typed /\ rd \in Reader
  BY DEF ReportInv, Typed
<1>2. /\ Len(rd.ids) = 1 /\ rd.at \in DOMAIN table[rd.ids[1]]
      /\ Len(rd.before) = Len(rd.keys)
      /\ \A j \in DOMAIN rd.keys :
           rd.before[j] <= Points(rd.ids[1], rd.at, rd.keys[j])
  BY DEF ReportInv, Charting
<1>3. PICK e \in Experiments : e = rd.ids[1]
  BY <1>1, <1>2, OneExperiment
<1>4. /\ Len(rd.keys) \in Nat /\ DOMAIN rd.keys = 1..Len(rd.keys)
      /\ DOMAIN rd.before = DOMAIN rd.keys
  BY <1>1, <1>2, LenProperties DEF Reader
<1>5. \A j \in DOMAIN rd.keys : rd.before[j] \in Nat
  BY <1>1, <1>4, ElementOfSeq, LenProperties DEF Reader
<1>6. \A j \in DOMAIN rd.keys : Points(e, rd.at, rd.keys[j]) \in Nat
  BY <1>1, <1>2, <1>3, PointsType
<1> QED BY <1>2, <1>3, <1>4, <1>5, <1>6

\* A name is tried.
LEMMA TryStep ==
  ASSUME ReportInv, TryKey
  PROVE  ReportInv'
<1> DEFINE j == Len(rd.chart) + 1
<1>t. Typed /\ rd \in Reader /\ rd.pc = "chart"
  BY DEF ReportInv, Typed, TryKey
<1>1. PICK e \in Experiments :
        /\ e = rd.ids[1] /\ rd.at \in DOMAIN table[e]
        /\ Len(rd.keys) \in Nat /\ DOMAIN rd.keys = 1..Len(rd.keys)
        /\ Len(rd.before) = Len(rd.keys) /\ DOMAIN rd.before = DOMAIN rd.keys
        /\ \A m \in DOMAIN rd.keys :
             /\ rd.before[m] \in Nat /\ Points(e, rd.at, rd.keys[m]) \in Nat
             /\ rd.before[m] <= Points(e, rd.at, rd.keys[m])
  BY <1>t, ChartTypes
<1>2. /\ Len(rd.ids) = 1 /\ Len(rd.chart) < Len(rd.keys)
      /\ \A m \in DOMAIN rd.chart : rd.chart[m] = Nil \/ rd.before[m] <= rd.chart[m]
  BY <1>t DEF ReportInv, Charting
<1>3. rd.chart \in Seq(Int) /\ Len(rd.chart) \in Nat
        /\ DOMAIN rd.chart = 1..Len(rd.chart)
  BY <1>t, LenProperties DEF Reader
<1>4. j \in DOMAIN rd.keys
  BY <1>1, <1>2, <1>3
<1>5. PICK n \in {Points(e, rd.at, rd.keys[j]), Nil} :
        /\ UNCHANGED table
        /\ rd' = [rd EXCEPT !.chart = Append(rd.chart, n),
                            !.pc = IF n > 0 \/ j = Len(rd.keys) THEN "charted"
                                   ELSE rd.pc]
  BY <1>1 DEF TryKey, Read
<1>6. n \in Int /\ (n = Nil \/ rd.before[j] <= n)
  BY <1>1, <1>4, <1>5 DEF Nil
<1> DEFINE chart == Append(rd.chart, n)
<1>7. /\ chart \in Seq(Int) /\ Len(chart) = j /\ DOMAIN chart = 1..j
      /\ \A m \in 1..Len(rd.chart) : chart[m] = rd.chart[m]
      /\ chart[j] = n
  BY <1>3, <1>6, AppendProperties, LenProperties
<1>8. PICK pc \in {"chart", "charted"} :
        /\ rd' = [rd EXCEPT !.chart = chart, !.pc = pc]
        /\ pc = "charted" <=> (n > 0 \/ j = Len(rd.keys))
  BY <1>t, <1>5
<1> HIDE DEF chart
<1>9. /\ rd' \in Reader /\ rd'.pc = pc /\ rd'.ids = rd.ids /\ rd'.at = rd.at
      /\ rd'.keys = rd.keys /\ rd'.before = rd.before /\ rd'.chart = chart
  BY <1>t, <1>7, <1>8 DEF Reader
<1>10. \A m \in DOMAIN chart : chart[m] = Nil \/ rd.before[m] <= chart[m]
  <2>1. ASSUME NEW m \in DOMAIN chart
        PROVE  chart[m] = Nil \/ rd.before[m] <= chart[m]
    <3>1. CASE m = j
      BY <1>6, <1>7, <3>1
    <3>2. CASE m # j
      <4>1. m \in 1..Len(rd.chart)
        BY <1>3, <1>7, <2>1, <3>2
      <4> QED BY <1>2, <1>3, <1>7, <4>1
    <3> QED BY <3>1, <3>2
  <2> QED BY <2>1
<1>11. Typed'
  BY <1>t, <1>5, <1>9 DEF Typed
<1>12. j \in Nat /\ j <= Len(rd.keys)
  BY <1>1, <1>4
<1>13. Charting'
  <2> SUFFICES ASSUME pc = "chart" PROVE Charting'
    BY <1>9 DEF Charting
  <2>1. Len(chart) < Len(rd.keys)
    BY <1>1, <1>7, <1>8, <1>12
  <2>2. \A m \in DOMAIN rd.keys : rd.before[m] <= Points(e, rd.at, rd.keys[m])'
    BY <1>1, <1>5, <1>9 DEF Points
  <2> QED BY <1>1, <1>2, <1>5, <1>9, <1>10, <2>1, <2>2 DEF Charting
<1>14. ReportSeesPast'
  <2> SUFFICES ASSUME pc = "charted" PROVE ReportSeesPast'
    BY <1>9 DEF ReportSeesPast
  <2>1. Len(chart) < Len(rd.before) => chart[Len(chart)] > 0
    BY <1>1, <1>7, <1>8, <1>12
  <2> QED BY <1>9, <1>10, <2>1 DEF ReportSeesPast
<1> QED BY <1>9, <1>11, <1>13, <1>14 DEF ReportInv, Reporting, Comparing

\* The points of the names asked for are read in one query.
LEMMA ReadStepInv ==
  ASSUME ReportInv, rd.pc \in {"series", "metrics"}, NEW chart,
         chart = [j \in DOMAIN rd.keys |-> Points(rd.ids[1], rd.at, rd.keys[j])],
         Read([rd EXCEPT !.pc = "charted", !.chart = chart])
  PROVE  ReportInv'
<1>t. Typed /\ rd \in Reader
  BY DEF ReportInv, Typed
<1>1. PICK e \in Experiments :
        /\ e = rd.ids[1] /\ rd.at \in DOMAIN table[e]
        /\ Len(rd.keys) \in Nat /\ DOMAIN rd.keys = 1..Len(rd.keys)
        /\ Len(rd.before) = Len(rd.keys) /\ DOMAIN rd.before = DOMAIN rd.keys
        /\ \A m \in DOMAIN rd.keys :
             /\ rd.before[m] \in Nat /\ Points(e, rd.at, rd.keys[m]) \in Nat
             /\ rd.before[m] <= Points(e, rd.at, rd.keys[m])
  BY ChartTypes
<1>2. chart \in [1..Len(rd.keys) -> Int]
  BY <1>1
<1>3. chart \in Seq(Int) /\ Len(chart) = Len(rd.keys) /\ DOMAIN chart = DOMAIN rd.keys
  BY <1>1, <1>2, FunSeq
<1>4. \A m \in DOMAIN chart : rd.before[m] <= chart[m]
  BY <1>1
<1>5. UNCHANGED table /\ rd' = [rd EXCEPT !.pc = "charted", !.chart = chart]
  BY DEF Read
<1>6. rd' \in Reader /\ rd'.pc = "charted" /\ rd'.before = rd.before
        /\ rd'.chart = chart
  BY <1>t, <1>3, <1>5 DEF Reader
<1>7. ~(Len(chart) < Len(rd.before))
  BY <1>1, <1>3
<1>8. ReportSeesPast'
  BY <1>4, <1>6, <1>7 DEF ReportSeesPast
<1> QED BY <1>t, <1>5, <1>6, <1>8 DEF ReportInv, Typed, Reporting, Charting, Comparing

\* Those under one name, or all.
LEMMA SeriesSteps ==
  ASSUME ReportInv, Series \/ RunMetrics
  PROVE  ReportInv'
<1>1. CASE Read(NoReader)
  BY <1>1, IdleInv
<1>2. CASE /\ rd.pc = "metrics"
           /\ Read([rd EXCEPT !.pc = "charted",
                              !.chart = ByRun(rd.ids[1], rd.at, rd.keys)])
  <2>1. PICK chart : /\ chart = ByRun(rd.ids[1], rd.at, rd.keys)
                     /\ Read([rd EXCEPT !.pc = "charted", !.chart = chart])
    BY <1>2
  <2>2. chart = [j \in DOMAIN rd.keys |-> Points(rd.ids[1], rd.at, rd.keys[j])]
    BY <2>1 DEF ByRun
  <2> QED BY <1>2, <2>1, <2>2, ReadStepInv
<1>3. CASE /\ rd.pc = "series"
           /\ Read([rd EXCEPT !.pc = "charted",
                              !.chart = <<Points(rd.ids[1], rd.at, rd.keys[1])>>])
  <2>1. Len(rd.keys) = 1
    BY <1>3 DEF ReportInv, Charting
  <2>2. DOMAIN rd.keys = 1..1
    BY <2>1, LenProperties DEF ReportInv, Typed, Reader
  <2>3. PICK chart :
          /\ chart = <<Points(rd.ids[1], rd.at, rd.keys[1])>>
          /\ Read([rd EXCEPT !.pc = "charted", !.chart = chart])
    BY <1>3
  <2>4. chart = [j \in DOMAIN rd.keys |-> Points(rd.ids[1], rd.at, rd.keys[j])]
    BY <2>2, <2>3
  <2> QED BY <1>3, <2>3, <2>4, ReadStepInv
<1> QED BY <1>1, <1>2, <1>3 DEF Series, RunMetrics

\* Every step keeps what is known of the reader.
LEMMA StepInv ==
  ASSUME ReportInv, [Next]_vars
  PROVE  ReportInv'
<1>1. CASE Write
  BY <1>1, WriteInv
<1>2. CASE ReadStep
  <2>1. ASSUME NEW e \in Experiments, Report(e) PROVE ReportInv'
    BY <2>1, ReportStep
  <2>2. ASSUME NEW ids \in IDs, Compare(ids) PROVE ReportInv'
    BY <2>2, CompareStep
  <2>3. ASSUME NEW e \in Experiments, NEW i \in DOMAIN table[e],
               \/ Chart(e, i, LossCurve)
               \/ Chart(e, i, AccuracyTrend)
               \/ \E k \in Metrics : GetMetricSeries(e, i, k)
               \/ \E keys \in {<<>>} \cup {<<k>> : k \in Metrics} :
                    GetRunMetrics(e, i, keys)
        PROVE  ReportInv'
    BY <2>3, AskSteps
  <2>4. CASE Answer
    BY <2>4, IdleInv DEF Answer
  <2>5. CASE ListRuns \/ CountRun \/ Reported
    BY <2>5, ListStep, CountStep, ReportedStep
  <2>6. CASE FindExperiment \/ LatestRun \/ Compared
    BY <2>6, FindStep, LatestStep, ComparedStep
  <2>7. CASE TryKey \/ Series \/ RunMetrics
    BY <2>7, TryStep, SeriesSteps
  <2> QED BY <1>2, <2>1, <2>2, <2>3, <2>4, <2>5, <2>6, <2>7 DEF ReadStep
<1>3. CASE UNCHANGED vars
  BY <1>3 DEF vars, ReportInv, Typed, Reporting, Charting, Comparing,
     ReportSeesPast, Points
<1> QED BY <1>1, <1>2, <1>3 DEF Next

\* At first there are no runs, and no reader.
LEMMA InitInv == Init => ReportInv
<1> SUFFICES ASSUME Init PROVE ReportInv
  OBVIOUS
<1>1. rd \in Reader /\ rd.pc = "idle"
  BY NoReaderType DEF Init, NoReader
<1>2. table \in [Experiments -> Seq(Entry)]
  BY EmptySeq DEF Init
<1> QED BY <1>1, <1>2 DEF ReportInv, Typed, Reporting, Charting, Comparing,
        ReportSeesPast

-----------------------------------------------------------------------------
(* The bounds of the types, and the summary of a report.                      *)

\* The runs are as many as the bound allows, and what is gone is an experiment.
Sized ==
  /\ IsFiniteSet(RunIDs) /\ Cardinality(RunIDs) <= MaxRuns
  /\ gone \subseteq Experiments

\* What a request asks for, and the answers it has so far.
Shaped ==
  /\ rd.ids \in IDs \cup {<<e>> : e \in Experiments} \cup {<<>>}
  /\ rd.pc \in {"idle", "list"} => rd.at = 0
  /\ rd.pc = "charted" => rd.at \in 0..MaxRuns /\ Len(rd.chart) <= Len(rd.keys)
  /\ rd.pc \notin {"loop", "reported", "chart", "charted"} => rd.chart = <<>>
  /\ \A k \in Keys : rd.count[k] \in Nat
  /\ rd.pc \notin {"find", "latest", "compared"} => \A k \in Keys : rd.count[k] = 0

Scored(list) == {i \in DOMAIN list : "accuracy" \in DOMAIN list[i].summary}
Acc(list, i) == list[i].summary["accuracy"]

\* The best run is the best of those that had their turn, the newest first; and
\* the durations added up are at most as many as those runs times one of them.
Scoring ==
  /\ rd.bestMetric \in Score /\ rd.duration \in Nat
  /\ rd.pc \notin {"loop", "reported"} =>
       rd.list = <<>> /\ rd.best = 0 /\ rd.bestMetric = -2 /\ rd.duration = 0
  /\ rd.pc \in {"loop", "reported"} =>
       /\ rd.best \in 0..Len(rd.list)
       /\ rd.best = 0 => rd.bestMetric = -2
       /\ rd.best # 0 => /\ rd.best \in Scored(rd.list) /\ rd.best > rd.at
                         /\ rd.bestMetric = Acc(rd.list, rd.best)
       /\ \A i \in Scored(rd.list) :
            i > rd.at =>
              /\ Acc(rd.list, i) <= rd.bestMetric
              /\ rd.best # 0 /\ i > rd.best => Acc(rd.list, i) < rd.bestMetric
       /\ \/ rd.duration = 0
          \/ \E i \in DOMAIN rd.list :
               /\ rd.list[i].duration \in Nat
               /\ rd.duration <= (Len(rd.list) - rd.at) * rd.list[i].duration

SummaryInv == Sized /\ Shaped /\ Scoring

\* A run has a place among those of its experiment within the bound.
LEMMA RunsBound ==
  ASSUME Typed, Sized, NEW e \in Experiments
  PROVE  Len(table[e]) \in 0..MaxRuns /\ DOMAIN table[e] = 1..Len(table[e])
<1>1. Len(table[e]) \in Nat /\ DOMAIN table[e] = 1..Len(table[e])
  BY LenProperties DEF Typed
<1>2. IsFiniteSet({e}) /\ Cardinality({e}) = 1
  BY FS_Singleton
<1>3. IsFiniteSet(DOMAIN table[e]) /\ Cardinality(DOMAIN table[e]) = Len(table[e])
  BY <1>1, FS_Interval
<1>4. Cardinality({e} \X DOMAIN table[e]) = Len(table[e])
  <2>1. Cardinality({e} \X DOMAIN table[e])
          = Cardinality({e}) * Cardinality(DOMAIN table[e])
    BY <1>2, <1>3, FS_Product, Zenon
  <2> QED BY <1>1, <1>2, <1>3, <2>1
<1>5. {e} \X DOMAIN table[e] \subseteq RunIDs
  BY DEF RunIDs
<1>6. Cardinality({e} \X DOMAIN table[e]) <= Cardinality(RunIDs)
  BY <1>5, FS_Subset DEF Sized
<1>7. Cardinality(RunIDs) \in Nat
  BY FS_CardinalityType DEF Sized
<1> QED BY <1>1, <1>4, <1>6, <1>7, ReportAssumption DEF Sized

\* A write adds a run only while there is room.
LEMMA WriteSized ==
  ASSUME Typed, Sized, Write
  PROVE  Sized'
<1>t. table \in [Experiments -> Seq(Entry)]
  BY DEF Typed
<1>1. ASSUME NEW e \in Experiments, NEW s, DOMAIN s = DOMAIN table[e],
             table' = [table EXCEPT ![e] = s], UNCHANGED gone
      PROVE  Sized'
  <2>1. \A f \in Experiments : DOMAIN table'[f] = DOMAIN table[f]
    BY <1>t, <1>1
  <2>2. RunIDs' = RunIDs
    BY <2>1 DEF RunIDs
  <2> QED BY <1>1, <2>2 DEF Sized
<1>2. ASSUME NEW e \in Experiments, NEW r \in Rows, CreateRun(e, r) PROVE Sized'
  <2> DEFINE new == [row |-> r, points |-> [k \in Metrics |-> 0]]
  <2>1. table' = [table EXCEPT ![e] = Append(table[e], new)]
          /\ Cardinality(RunIDs) < MaxRuns /\ UNCHANGED gone
    BY <1>2 DEF CreateRun
  <2>2. table[e] \in Seq(Entry) /\ Len(table[e]) \in Nat
          /\ DOMAIN table[e] = 1..Len(table[e])
    BY <1>t, LenProperties
  <2> HIDE DEF new
  <2>3. DOMAIN Append(table[e], new) = 1..Len(table[e]) + 1
    BY <2>2
  <2> DEFINE last == <<e, Len(table[e]) + 1>>
  <2>4. \A f \in Experiments : DOMAIN table'[f] = IF f = e THEN 1..Len(table[e]) + 1
                                                  ELSE DOMAIN table[f]
    BY <1>t, <2>1, <2>3
  <2>5. RunIDs' \subseteq RunIDs \cup {last}
    <3>1. SUFFICES ASSUME NEW f \in Experiments, NEW i \in DOMAIN table'[f]
                   PROVE  <<f, i>> \in RunIDs \cup {last}
      BY DEF RunIDs
    <3>2. CASE i \in DOMAIN table[f]
      BY <3>2 DEF RunIDs
    <3>3. CASE i \notin DOMAIN table[f]
      <4>1. f = e /\ i = Len(table[e]) + 1
        BY <2>2, <2>4, <3>1, <3>3
      <4> QED BY <4>1
    <3> QED BY <3>2, <3>3
  <2> HIDE DEF last
  <2>6. IsFiniteSet(RunIDs \cup {last}) /\ Cardinality(RunIDs \cup {last}) <= MaxRuns
    <3>1. IsFiniteSet(RunIDs) /\ Cardinality(RunIDs) \in Nat
      BY FS_CardinalityType DEF Sized
    <3>2. CASE last \in RunIDs
      <4>1. RunIDs \cup {last} = RunIDs
        BY <3>2
      <4> QED BY <4>1 DEF Sized
    <3>3. CASE last \notin RunIDs
      <4>1. IsFiniteSet(RunIDs \cup {last})
              /\ Cardinality(RunIDs \cup {last}) = Cardinality(RunIDs) + 1
        BY <3>1, <3>3, FS_AddElement
      <4> QED BY <2>1, <3>1, <4>1, ReportAssumption
    <3> QED BY <3>2, <3>3
  <2>7. IsFiniteSet(RunIDs') /\ Cardinality(RunIDs') <= Cardinality(RunIDs \cup {last})
    BY <2>5, <2>6, FS_Subset
  <2>8. Cardinality(RunIDs') \in Nat /\ Cardinality(RunIDs \cup {last}) \in Nat
    BY <2>6, <2>7, FS_CardinalityType
  <2> QED BY <2>1, <2>6, <2>7, <2>8, ReportAssumption DEF Sized
<1>3. ASSUME NEW e \in Experiments, NEW r \in Rows, UpdateRun(e, r) PROVE Sized'
  <2>1. UNCHANGED gone
          /\ \E i \in DOMAIN table[e] : table' = [table EXCEPT ![e][i].row = r]
    BY <1>3 DEF UpdateRun
  <2>i. PICK i \in DOMAIN table[e] : table' = [table EXCEPT ![e][i].row = r]
    BY <2>1
  <2> DEFINE s == [table[e] EXCEPT ![i].row = r]
  <2>2. DOMAIN s = DOMAIN table[e] /\ table' = [table EXCEPT ![e] = s]
    BY <1>t, <2>i
  <2> HIDE DEF s
  <2> QED BY <1>1, <2>1, <2>2
<1>4. ASSUME NEW e \in Experiments, NEW S \in SUBSET DOMAIN table[e],
             NEW k \in Metrics, RecordMetrics(e, S, k)
      PROVE  Sized'
  <2> DEFINE s == [i \in DOMAIN table[e] |->
                     IF i \in S THEN WithPoint(table[e][i], k) ELSE table[e][i]]
  <2>1. table' = [table EXCEPT ![e] = s] /\ DOMAIN s = DOMAIN table[e]
          /\ UNCHANGED gone
    BY <1>4 DEF RecordMetrics
  <2> HIDE DEF s
  <2> QED BY <1>1, <2>1
<1>5. ASSUME NEW e \in Experiments, DeleteExperiment(e) PROVE Sized'
  BY <1>5 DEF DeleteExperiment, Sized, RunIDs
<1> QED BY <1>2, <1>3, <1>4, <1>5 DEF Write

\* What NoReader has where no request put anything.
Blank(r) ==
  /\ r.list = <<>> /\ r.best = 0 /\ r.bestMetric = -2 /\ r.duration = 0
  /\ r.chart = <<>> /\ r.at = 0 /\ r.count = [k \in Keys |-> 0]

LEMMA NoReaderBlank == Blank(NoReader) /\ NoReader.pc = "idle" /\ NoReader.ids = <<>>
BY DEF Blank, NoReader

\* A request begins with nothing counted.
LEMMA FreshStep ==
  ASSUME rd'.list = <<>>, rd'.best = 0, rd'.bestMetric = -2, rd'.duration = 0,
         rd'.chart = <<>>, rd'.count = [k \in Keys |-> 0],
         rd'.pc \in {"idle", "list", "find", "chart", "series", "metrics"},
         rd'.pc \in {"idle", "list"} => rd'.at = 0,
         rd'.ids \in IDs \cup {<<e>> : e \in Experiments} \cup {<<>>}
  PROVE  Shaped' /\ Scoring'
<1>1. \A k \in Keys : rd'.count[k] = 0
  OBVIOUS
<1>2. Shaped'
  BY <1>1 DEF Shaped
<1>3. -2 \in Score
  BY DEF Score
<1>4. Scoring'
  BY <1>3 DEF Scoring
<1> QED BY <1>2, <1>4

LEMMA NoReaderStep ==
  ASSUME Read(NoReader)
  PROVE  Shaped' /\ Scoring'
<1>1. PICK b \in Reader : b = NoReader /\ rd' = b
  BY NoReaderType DEF Read
<1>2. Blank(rd') /\ rd'.pc = "idle" /\ rd'.ids = <<>>
  BY <1>1, NoReaderBlank
<1> QED BY <1>2, FreshStep DEF Blank

\* A report, a comparison or a chart is asked for.
LEMMA ReportFresh ==
  ASSUME NEW e \in Experiments, Report(e)
  PROVE  Shaped' /\ Scoring'
<1>1. PICK b, losses :
        /\ b \in Reader /\ b = NoReader
        /\ rd' = [b EXCEPT !.pc = "list", !.ids = <<e>>, !.before = losses]
  BY NoReaderType DEF Report, Read
<1>2. Blank(b)
  BY <1>1, NoReaderBlank
<1>3. /\ rd'.pc = "list" /\ rd'.ids = <<e>> /\ rd'.list = b.list /\ rd'.best = b.best
      /\ rd'.bestMetric = b.bestMetric /\ rd'.duration = b.duration
      /\ rd'.chart = b.chart /\ rd'.count = b.count /\ rd'.at = b.at
  BY <1>1 DEF Reader
<1> QED BY <1>2, <1>3, FreshStep DEF Blank

LEMMA CompareFresh ==
  ASSUME NEW ids \in IDs, Compare(ids)
  PROVE  Shaped' /\ Scoring'
<1>1. PICK b, first :
        /\ b \in Reader /\ b = NoReader
        /\ rd' = [b EXCEPT !.pc = "find", !.ids = ids, !.at = first]
  BY NoReaderType DEF Compare, Read
<1>2. Blank(b)
  BY <1>1, NoReaderBlank
<1>3. /\ rd'.pc = "find" /\ rd'.ids = ids /\ rd'.list = b.list /\ rd'.best = b.best
      /\ rd'.bestMetric = b.bestMetric /\ rd'.duration = b.duration
      /\ rd'.chart = b.chart /\ rd'.count = b.count
  BY <1>1 DEF Reader
<1> QED BY <1>2, <1>3, FreshStep DEF Blank

LEMMA AskFresh ==
  ASSUME NEW e \in Experiments, NEW i, NEW keys, NEW pc \in {"chart", "series", "metrics"},
         AskFor(e, i, keys, pc)
  PROVE  Shaped' /\ Scoring'
<1>1. PICK b, points :
        /\ b \in Reader /\ b = NoReader
        /\ rd' = [b EXCEPT !.pc = pc, !.ids = <<e>>, !.at = i, !.keys = keys,
                           !.before = points]
  BY NoReaderType DEF AskFor, Read
<1>2. Blank(b)
  BY <1>1, NoReaderBlank
<1>3. /\ rd'.pc = pc /\ rd'.ids = <<e>> /\ rd'.list = b.list /\ rd'.best = b.best
      /\ rd'.bestMetric = b.bestMetric /\ rd'.duration = b.duration
      /\ rd'.chart = b.chart /\ rd'.count = b.count
  BY <1>1 DEF Reader
<1> QED BY <1>2, <1>3, FreshStep DEF Blank

\* A step of a comparison or a chart leaves what only a report uses.
LEMMA ElsewhereStep ==
  ASSUME Scoring, rd.pc \notin {"loop", "reported"}, rd'.pc \notin {"loop", "reported"},
         rd'.list = rd.list, rd'.best = rd.best, rd'.bestMetric = rd.bestMetric,
         rd'.duration = rd.duration
  PROVE  Scoring'
BY DEF Scoring

LEMMA ComparisonSteps ==
  ASSUME ReportInv, SummaryInv, FindExperiment \/ LatestRun \/ Compared
  PROVE  Shaped' /\ Scoring'
<1>t. rd \in Reader /\ Shaped /\ Scoring
  BY DEF ReportInv, Typed, SummaryInv
<1>1. CASE FindExperiment \/ Compared
  <2>1. rd.pc = "find"
    BY <1>1 DEF FindExperiment, Compared
  <2>2. PICK pc \in {"find", "latest", "compared"}, at \in Int :
          rd' = [rd EXCEPT !.pc = pc, !.at = at]
    <3>1. rd.at \in Int /\ rd.at + 1 \in Int
      BY <1>t DEF Reader
    <3>2. \/ rd' = [rd EXCEPT !.pc = "latest", !.at = rd.at]
          \/ rd' = [rd EXCEPT !.pc = "find", !.at = rd.at + 1]
          \/ rd' = [rd EXCEPT !.pc = "compared", !.at = rd.at]
      <4>1. \/ rd' = [rd EXCEPT !.pc = "latest"]
            \/ rd' = [rd EXCEPT !.at = rd.at + 1]
            \/ rd' = [rd EXCEPT !.pc = "compared"]
        BY <1>1 DEF FindExperiment, Compared, Read
      <4> QED BY <1>t, <2>1, <4>1 DEF Reader
    <3> QED BY <3>1, <3>2
  <2>3. /\ rd'.pc = pc /\ rd'.ids = rd.ids /\ rd'.list = rd.list /\ rd'.best = rd.best
        /\ rd'.bestMetric = rd.bestMetric /\ rd'.duration = rd.duration
        /\ rd'.chart = rd.chart /\ rd'.count = rd.count
    BY <1>t, <2>2 DEF Reader
  <2>4. Shaped'
    BY <1>t, <2>1, <2>3 DEF Shaped
  <2>5. Scoring'
    BY <1>t, <2>1, <2>3, ElsewhereStep
  <2> QED BY <2>4, <2>5
<1>2. ASSUME rd.pc = "latest", NEW K, Read(Show(K)) PROVE Shaped' /\ Scoring'
  <2> DEFINE count == [k \in Keys |-> IF k \in K THEN rd.count[k] + 1 ELSE rd.count[k]]
  <2>1. rd' = [rd EXCEPT !.pc = "find", !.at = rd.at + 1, !.shown = Append(rd.shown, K),
                         !.count = count]
    BY <1>2 DEF Read, Show
  <2>2. \A k \in Keys : count[k] \in Nat
    BY <1>t DEF Shaped
  <2> HIDE DEF count
  <2>3. /\ rd'.pc = "find" /\ rd'.ids = rd.ids /\ rd'.list = rd.list /\ rd'.best = rd.best
        /\ rd'.bestMetric = rd.bestMetric /\ rd'.duration = rd.duration
        /\ rd'.chart = rd.chart /\ rd'.count = count
    BY <1>t, <2>1 DEF Reader
  <2>4. Shaped'
    BY <1>t, <1>2, <2>2, <2>3 DEF Shaped
  <2>5. Scoring'
    BY <1>t, <1>2, <2>3, ElsewhereStep
  <2> QED BY <2>4, <2>5
<1> QED BY <1>1, <1>2 DEF LatestRun

LEMMA ChartSteps ==
  ASSUME ReportInv, SummaryInv, TryKey \/ Series \/ RunMetrics
  PROVE  Shaped' /\ Scoring'
<1>t. Typed /\ rd \in Reader /\ Sized /\ Shaped /\ Scoring
        /\ rd.pc \in {"chart", "series", "metrics"}
  BY DEF ReportInv, Typed, SummaryInv, TryKey, Series, RunMetrics
<1>1. CASE Read(NoReader)
  BY <1>1, NoReaderStep
<1>2. ASSUME NEW pc \in {"chart", "charted"}, NEW chart,
             rd' = [rd EXCEPT !.pc = pc, !.chart = chart],
             pc = "charted" => Len(chart) <= Len(rd.keys)
      PROVE  Shaped' /\ Scoring'
  <2>1. /\ rd'.pc = pc /\ rd'.ids = rd.ids /\ rd'.list = rd.list /\ rd'.best = rd.best
        /\ rd'.bestMetric = rd.bestMetric /\ rd'.duration = rd.duration
        /\ rd'.chart = chart /\ rd'.count = rd.count /\ rd'.at = rd.at
        /\ rd'.keys = rd.keys
    BY <1>t, <1>2 DEF Reader
  <2>2. rd.at \in 0..MaxRuns
    <3>1. PICK e \in Experiments : rd.at \in DOMAIN table[e]
      BY <1>t, ChartTypes
    <3>2. Len(table[e]) \in 0..MaxRuns /\ DOMAIN table[e] = 1..Len(table[e])
      BY <1>t, RunsBound
    <3> QED BY <3>1, <3>2, ReportAssumption
  <2>3. Shaped'
    BY <1>t, <1>2, <2>1, <2>2 DEF Shaped
  <2>4. Scoring'
    BY <1>t, <2>1, ElsewhereStep
  <2> QED BY <2>3, <2>4
<1>k. rd.chart \in Seq(Int) /\ Len(rd.chart) \in Nat /\ Len(rd.keys) \in Nat
        /\ DOMAIN rd.keys = 1..Len(rd.keys)
  BY <1>t, LenProperties DEF Reader
<1>3. CASE TryKey
  <2>1. Len(rd.chart) < Len(rd.keys)
    BY <1>3 DEF TryKey, ReportInv, Charting
  <2>2. PICK n \in {Points(rd.ids[1], rd.at, rd.keys[Len(rd.chart) + 1]), Nil} :
          rd' = [rd EXCEPT !.chart = Append(rd.chart, n),
                           !.pc = IF n > 0 \/ Len(rd.chart) + 1 = Len(rd.keys)
                                  THEN "charted" ELSE rd.pc]
    BY <1>3 DEF TryKey, Read
  <2>3. PICK pc \in {"chart", "charted"} :
          rd' = [rd EXCEPT !.pc = pc, !.chart = Append(rd.chart, n)]
    <3>1. rd.pc = "chart"
      BY <1>3 DEF TryKey
    <3> QED BY <2>2, <3>1
  <2>4. Len(Append(rd.chart, n)) <= Len(rd.keys)
    <3>1. n \in Int
      <4>1. PICK e \in Experiments :
              /\ e = rd.ids[1]
              /\ \A j \in DOMAIN rd.keys : Points(e, rd.at, rd.keys[j]) \in Nat
        BY <1>t, ChartTypes
      <4>2. Len(rd.chart) + 1 \in DOMAIN rd.keys
        BY <1>k, <2>1
      <4> QED BY <4>1, <4>2 DEF Nil
    <3>2. Len(Append(rd.chart, n)) = Len(rd.chart) + 1
      BY <1>k, <3>1, AppendProperties
    <3> QED BY <1>k, <2>1, <3>2
  <2> QED BY <1>2, <2>3, <2>4
<1>4. CASE /\ rd.pc = "series"
           /\ Read([rd EXCEPT !.pc = "charted",
                              !.chart = <<Points(rd.ids[1], rd.at, rd.keys[1])>>])
  <2>1. Len(rd.keys) = 1
    BY <1>4 DEF ReportInv, Charting
  <2>2. PICK chart : /\ chart = <<Points(rd.ids[1], rd.at, rd.keys[1])>>
                     /\ rd' = [rd EXCEPT !.pc = "charted", !.chart = chart]
    BY <1>4 DEF Read
  <2>3. Len(chart) <= Len(rd.keys)
    BY <2>1, <2>2
  <2> QED BY <1>2, <2>2, <2>3
<1>5. CASE /\ rd.pc = "metrics"
           /\ Read([rd EXCEPT !.pc = "charted",
                              !.chart = ByRun(rd.ids[1], rd.at, rd.keys)])
  <2>1. PICK chart : /\ chart = [j \in DOMAIN rd.keys |->
                                   Points(rd.ids[1], rd.at, rd.keys[j])]
                     /\ rd' = [rd EXCEPT !.pc = "charted", !.chart = chart]
    BY <1>5 DEF Read, ByRun
  <2>2. chart \in [1..Len(rd.keys) -> {chart[j] : j \in 1..Len(rd.keys)}]
    BY <1>k, <2>1
  <2>3. Len(chart) = Len(rd.keys)
    BY <1>k, <2>2, FunSeq
  <2>4. Len(chart) <= Len(rd.keys)
    BY <1>k, <2>3
  <2> QED BY <1>2, <2>1, <2>4
<1> QED BY <1>1, <1>2, <1>3, <1>4, <1>5 DEF Series, RunMetrics

\* The durations of one run more.
LEMMA DurationGrows ==
  ASSUME NEW sum \in Nat, NEW n \in Nat, NEW M \in Nat, NEW d \in Nat,
         sum <= n * M
  PROVE  /\ sum <= (n + 1) * M
         /\ sum + d <= (n + 1) * M \/ sum + d <= (n + 1) * d
<1>1. n * M \in Nat /\ n * d \in Nat
  OBVIOUS
<1>2. (n + 1) * M = n * M + M /\ (n + 1) * d = n * d + d
  OBVIOUS
<1>3. CASE d <= M
  BY <1>1, <1>2, <1>3
<1>4. CASE ~(d <= M)
  <2>1. n * M <= n * d
    BY <1>4
  <2> QED BY <1>1, <1>2, <2>1
<1> QED BY <1>3, <1>4

\* A run of a list.
LEMMA RowOfList ==
  ASSUME rd \in Reader, NEW i \in DOMAIN rd.list
  PROVE  /\ rd.list[i] \in Rows
         /\ rd.list[i].duration = Nil \/ rd.list[i].duration \in Nat
         /\ i \in Scored(rd.list) =>
              /\ Acc(rd.list, i) \in Score /\ Acc(rd.list, i) \in Int
              /\ -2 <= Acc(rd.list, i)
<1>1. rd.list[i] \in Rows
  BY ElementOfSeq, LenProperties DEF Reader
<1>2. rd.list[i] \in Row
  BY <1>1, ReportAssumption
<1>3. i \in Scored(rd.list) => Acc(rd.list, i) \in Score
  <2>1. PICK K \in SUBSET Keys : rd.list[i].summary \in [K -> Score]
    BY <1>2 DEF Row
  <2> QED BY <2>1 DEF Scored, Acc
<1>4. \A v \in Score : v \in Int /\ -2 <= v
  BY DEF Score
<1> QED BY <1>1, <1>2, <1>3, <1>4 DEF Row

LEMMA ListSummary ==
  ASSUME ReportInv, SummaryInv, ListRuns
  PROVE  Shaped' /\ Scoring'
<1>t. Typed /\ rd \in Reader /\ Shaped /\ Scoring /\ rd.pc = "list" /\ ReportInv'
  <2>1. ListRuns => ReadStep
    BY DEF ReadStep
  <2>2. ReportInv'
    BY <2>1, StepInv DEF Next
  <2> QED BY <2>2 DEF ReportInv, Typed, SummaryInv, ListRuns
<1>1. PICK n, rows, none :
        rd' = [rd EXCEPT !.pc = "loop", !.at = n, !.list = rows, !.chart = none]
        /\ n = Len(rows)
  <2>1. Len(rd.ids) = 1
    BY <1>t DEF ReportInv, Reporting
  <2>2. PICK e \in Experiments : e = rd.ids[1]
    BY <1>t, <2>1, OneExperiment
  <2>3. table[e] \in Seq(Entry) /\ Len(table[e]) \in Nat
          /\ DOMAIN table[e] = 1..Len(table[e])
    BY <1>t, LenProperties DEF Typed
  <2> DEFINE rows == [i \in DOMAIN table[e] |-> table[e][i].row]
             none == [i \in DOMAIN table[e] |-> 0]
  <2>4. rd' = [rd EXCEPT !.pc = "loop", !.at = Len(table[e]), !.list = rows,
                         !.chart = none]
    BY <2>2 DEF ListRuns, Read
  <2>5. rows \in [1..Len(table[e]) -> {rows[i] : i \in 1..Len(table[e])}]
    BY <2>3
  <2> HIDE DEF rows, none
  <2>6. Len(rows) = Len(table[e])
    BY <2>3, <2>5, FunSeq
  <2> QED BY <2>4, <2>6
<1>2. /\ rd'.pc = "loop" /\ rd'.ids = rd.ids /\ rd'.list = rows /\ rd'.best = rd.best
      /\ rd'.bestMetric = rd.bestMetric /\ rd'.duration = rd.duration
      /\ rd'.count = rd.count /\ rd'.at = n
  BY <1>t, <1>1 DEF Reader
<1>3. Shaped'
  BY <1>t, <1>2 DEF Shaped
<1>4. rd.best = 0 /\ rd.bestMetric = -2 /\ rd.duration = 0 /\ -2 \in Score
  BY <1>t DEF Scoring, Score
<1>5. rd' \in Reader
  BY <1>t DEF ReportInv, Typed
<1>6. Len(rows) \in Nat /\ DOMAIN rows = 1..Len(rows)
  BY <1>2, <1>5, LenProperties DEF Reader
<1>7. \A i \in Scored(rows) : ~(i > n)
  BY <1>1, <1>6 DEF Scored
<1>8. Scoring'
  BY <1>2, <1>4, <1>6, <1>7 DEF Scoring
<1> QED BY <1>3, <1>8

LEMMA CountSummary ==
  ASSUME ReportInv, SummaryInv, CountRun
  PROVE  Shaped' /\ Scoring'
<1> DEFINE at == rd.at
           list == rd.list
           r == list[at]
<1>t. Typed /\ rd \in Reader /\ Shaped /\ Scoring /\ rd.pc = "loop" /\ at > 0
  BY DEF ReportInv, Typed, SummaryInv, CountRun
<1>1. /\ Len(list) \in Nat /\ DOMAIN list = 1..Len(list) /\ at \in 1..Len(list)
      /\ at \in Nat
  <2>1. at \in 0..Len(list)
    BY <1>t DEF ReportInv, Reporting
  <2> QED BY <1>t, <2>1, LenProperties DEF Reader
<1>2. /\ r \in Rows
      /\ r.duration = Nil \/ r.duration \in Nat
      /\ IsBetter(r) => at \in Scored(list)
      /\ at \in Scored(list) /\ ~IsBetter(r) => Acc(list, at) <= rd.bestMetric
      /\ IsBetter(r) => Acc(list, at) > rd.bestMetric
  <2>1. r \in Rows /\ (r.duration = Nil \/ r.duration \in Nat)
          /\ (at \in Scored(list) => Acc(list, at) \in Int)
    BY <1>t, <1>1, RowOfList
  <2>2. rd.bestMetric \in Int
    BY <1>t DEF Reader
  <2> QED BY <1>1, <2>1, <2>2 DEF IsBetter, Scored, Acc
<1>3. PICK n : rd' = [Counted(r) EXCEPT !.at = at - 1, !.chart[at] = n]
  BY DEF CountRun, Read
<1>4. /\ rd'.pc = "loop" /\ rd'.ids = rd.ids /\ rd'.list = list /\ rd'.count = rd.count
      /\ rd'.at = at - 1
      /\ rd'.best = (IF IsBetter(r) THEN at ELSE rd.best)
      /\ rd'.bestMetric = (IF IsBetter(r) THEN Acc(list, at) ELSE rd.bestMetric)
      /\ rd'.duration = (IF r.duration = Nil THEN rd.duration
                         ELSE rd.duration + r.duration)
  <2>1. PICK c \in Reader : c = Counted(r)
    BY <1>t, <1>2, CountedType
  <2>2. rd' = [c EXCEPT !.at = at - 1, !.chart = [c.chart EXCEPT ![at] = n]]
    BY <1>3, <2>1 DEF Reader
  <2>3. /\ rd'.pc = c.pc /\ rd'.ids = c.ids /\ rd'.list = c.list /\ rd'.count = c.count
        /\ rd'.at = at - 1 /\ rd'.best = c.best /\ rd'.bestMetric = c.bestMetric
        /\ rd'.duration = c.duration
    BY <2>2 DEF Reader
  <2> QED BY <1>t, <1>2, <2>1, <2>3, CountedType DEF Acc
<1>5. Shaped'
  BY <1>t, <1>4 DEF Shaped
<1>6. /\ rd.best \in 0..Len(list)
      /\ rd.best = 0 => rd.bestMetric = -2
      /\ rd.best # 0 => rd.best \in Scored(list) /\ rd.best > at
                        /\ rd.bestMetric = Acc(list, rd.best)
      /\ \A i \in Scored(list) :
           i > at => /\ Acc(list, i) <= rd.bestMetric
                     /\ rd.best # 0 /\ i > rd.best => Acc(list, i) < rd.bestMetric
      /\ rd.bestMetric \in Score /\ rd.duration \in Nat
  BY <1>t DEF Scoring
<1>7. \A i \in Scored(list) : i \in 1..Len(list) /\ Acc(list, i) \in Int
                                /\ Acc(list, i) \in Score
  <2>1. ASSUME NEW i \in Scored(list)
        PROVE  i \in 1..Len(list) /\ Acc(list, i) \in Int /\ Acc(list, i) \in Score
    <3>1. i \in DOMAIN list
      BY DEF Scored
    <3> QED BY <1>t, <1>1, <3>1, RowOfList
  <2> QED BY <2>1
<1>8. rd.bestMetric \in Int /\ rd.best \in Nat
  BY <1>1, <1>6 DEF Score
<1> HIDE DEF at, list, r
<1>9. /\ rd'.best \in 0..Len(list)
      /\ rd'.best = 0 => rd'.bestMetric = -2
      /\ rd'.best # 0 => rd'.best \in Scored(list) /\ rd'.best > at - 1
                         /\ rd'.bestMetric = Acc(list, rd'.best)
      /\ rd'.bestMetric \in Score
  <2>1. CASE IsBetter(r)
    BY <1>1, <1>2, <1>4, <1>7, <2>1
  <2>2. CASE ~IsBetter(r)
    BY <1>1, <1>4, <1>6, <1>8, <2>2
  <2> QED BY <2>1, <2>2
<1>10. ASSUME NEW i \in Scored(list), i > at - 1
       PROVE  /\ Acc(list, i) <= rd'.bestMetric
              /\ rd'.best # 0 /\ i > rd'.best => Acc(list, i) < rd'.bestMetric
  <2>1. CASE i = at
    <3>1. CASE IsBetter(r)
      BY <1>1, <1>4, <1>7, <2>1, <3>1
    <3>2. CASE ~IsBetter(r)
      <4>1. rd'.best # 0 => ~(i > rd'.best)
        BY <1>1, <1>4, <1>6, <1>8, <2>1, <3>2
      <4> QED BY <1>2, <1>4, <2>1, <3>2, <4>1
    <3> QED BY <3>1, <3>2
  <2>2. CASE i # at
    <3>1. i > at /\ Acc(list, i) \in Int
      BY <1>1, <1>7, <1>10, <2>2
    <3>2. Acc(list, i) <= rd.bestMetric
            /\ (rd.best # 0 /\ i > rd.best => Acc(list, i) < rd.bestMetric)
      BY <1>6, <3>1
    <3>3. CASE IsBetter(r)
      <4>1. Acc(list, at) \in Int /\ Acc(list, at) > rd.bestMetric
        BY <1>2, <1>7, <3>3
      <4> QED BY <1>4, <1>8, <3>1, <3>2, <3>3, <4>1
    <3>4. CASE ~IsBetter(r)
      BY <1>4, <3>2, <3>4
    <3> QED BY <3>3, <3>4
  <2> QED BY <2>1, <2>2
<1>11. /\ rd'.duration \in Nat
       /\ \/ rd'.duration = 0
          \/ \E i \in DOMAIN list :
               /\ list[i].duration \in Nat
               /\ rd'.duration <= (Len(list) - (at - 1)) * list[i].duration
  <2> DEFINE m == Len(list) - at
  <2>1. m \in Nat /\ Len(list) - (at - 1) = m + 1
    BY <1>1
  <2>2. \/ rd.duration = 0
        \/ \E i \in DOMAIN list : /\ list[i].duration \in Nat
                                  /\ rd.duration <= m * list[i].duration
    BY <1>t DEF Scoring, list, at
  <2> HIDE DEF m
  <2>3. CASE r.duration = Nil
    <3>1. rd'.duration = rd.duration
      BY <1>4, <2>3
    <3>2. ASSUME NEW i \in DOMAIN list, list[i].duration \in Nat,
                 rd.duration <= m * list[i].duration
          PROVE  rd.duration <= (m + 1) * list[i].duration
      BY <1>6, <2>1, <3>2, DurationGrows
    <3> QED BY <1>6, <2>1, <2>2, <3>1, <3>2
  <2>4. CASE r.duration # Nil
    <3>1. r.duration \in Nat /\ rd'.duration = rd.duration + r.duration
            /\ at \in DOMAIN list /\ list[at] = r
      BY <1>1, <1>2, <1>4, <2>4 DEF r
    <3>2. CASE rd.duration = 0
      <4>1. 0 <= m * 0
        BY <2>1
      <4>2. 0 + r.duration <= (m + 1) * r.duration
        BY <2>1, <3>1, <4>1, DurationGrows
      <4> QED BY <2>1, <3>1, <3>2, <4>2
    <3>3. ASSUME NEW i \in DOMAIN list, list[i].duration \in Nat,
                 rd.duration <= m * list[i].duration
          PROVE  \E k \in DOMAIN list :
                   /\ list[k].duration \in Nat
                   /\ rd'.duration <= (m + 1) * list[k].duration
      <4>1. \/ rd.duration + r.duration <= (m + 1) * list[i].duration
            \/ rd.duration + r.duration <= (m + 1) * r.duration
        BY <1>6, <2>1, <3>1, <3>3, DurationGrows
      <4> QED BY <3>1, <3>3, <4>1
    <3>4. rd'.duration \in Nat
      BY <1>6, <3>1
    <3> QED BY <2>1, <2>2, <3>2, <3>3, <3>4
  <2> QED BY <2>3, <2>4
<1>12. Scoring'
  BY <1>4, <1>9, <1>10, <1>11 DEF Scoring
<1> QED BY <1>5, <1>12

LEMMA ReportedSummary ==
  ASSUME ReportInv, SummaryInv, Reported
  PROVE  Shaped' /\ Scoring'
<1>t. rd \in Reader /\ Shaped /\ Scoring /\ rd.pc = "loop"
  BY DEF ReportInv, Typed, SummaryInv, Reported
<1>1. rd' = [rd EXCEPT !.pc = "reported"]
  BY DEF Reported, Read
<1>2. /\ rd'.pc = "reported" /\ rd'.ids = rd.ids /\ rd'.list = rd.list
      /\ rd'.best = rd.best /\ rd'.bestMetric = rd.bestMetric
      /\ rd'.duration = rd.duration /\ rd'.count = rd.count /\ rd'.at = rd.at
  BY <1>t, <1>1 DEF Reader
<1>3. Shaped'
  BY <1>t, <1>2 DEF Shaped
<1>4. Scoring'
  BY <1>t, <1>2 DEF Scoring
<1> QED BY <1>3, <1>4

\* Every step keeps the bounds and the summary.
LEMMA SummaryStep ==
  ASSUME ReportInv, SummaryInv, [Next]_vars
  PROVE  SummaryInv'
<1>1. CASE Write
  <2>1. Typed /\ Sized
    BY DEF ReportInv, SummaryInv
  <2>2. UNCHANGED rd
    BY <1>1, <2>1, WriteGrows
  <2>3. Sized'
    BY <1>1, <2>1, WriteSized
  <2> QED BY <2>2, <2>3 DEF SummaryInv, Shaped, Scoring
<1>2. CASE ReadStep
  <2>1. UNCHANGED <<table, gone>>
    BY <1>2 DEF ReadStep, Report, ListRuns, CountRun, Reported, Compare, FindExperiment,
       LatestRun, Compared, Chart, GetMetricSeries, GetRunMetrics, AskFor, TryKey, Series,
       RunMetrics, Answer, Read
  <2>2. Sized'
    BY <2>1 DEF SummaryInv, Sized, RunIDs
  <2>3. ASSUME NEW e \in Experiments, Report(e) PROVE Shaped' /\ Scoring'
    BY <2>3, ReportFresh
  <2>4. ASSUME NEW ids \in IDs, Compare(ids) PROVE Shaped' /\ Scoring'
    BY <2>4, CompareFresh
  <2>5. ASSUME NEW e \in Experiments, NEW i \in DOMAIN table[e],
               \/ Chart(e, i, LossCurve)
               \/ Chart(e, i, AccuracyTrend)
               \/ \E k \in Metrics : GetMetricSeries(e, i, k)
               \/ \E keys \in {<<>>} \cup {<<k>> : k \in Metrics} :
                    GetRunMetrics(e, i, keys)
        PROVE  Shaped' /\ Scoring'
    BY <2>5, AskFresh, Zenon DEF Chart, GetMetricSeries, GetRunMetrics
  <2>6. ASSUME Answer PROVE Shaped' /\ Scoring'
    BY <2>6, NoReaderStep DEF Answer
  <2>7. ASSUME ListRuns \/ CountRun \/ Reported PROVE Shaped' /\ Scoring'
    BY <2>7, ListSummary, CountSummary, ReportedSummary
  <2>8. ASSUME FindExperiment \/ LatestRun \/ Compared PROVE Shaped' /\ Scoring'
    BY <2>8, ComparisonSteps
  <2>9. ASSUME TryKey \/ Series \/ RunMetrics PROVE Shaped' /\ Scoring'
    BY <2>9, ChartSteps
  <2>10. Shaped' /\ Scoring'
    BY <1>2, <2>3, <2>4, <2>5, <2>6, <2>7, <2>8, <2>9 DEF ReadStep
  <2> QED BY <2>2, <2>10 DEF SummaryInv
<1>3. CASE UNCHANGED vars
  BY <1>3 DEF vars, SummaryInv, Sized, RunIDs, Shaped, Scoring
<1> QED BY <1>1, <1>2, <1>3 DEF Next

LEMMA InitSummary == Init => SummaryInv
<1> SUFFICES ASSUME Init PROVE SummaryInv
  OBVIOUS
<1>1. table = [e \in Experiments |-> <<>>] /\ rd = NoReader
  BY DEF Init
<1>2. RunIDs = {}
  BY <1>1 DEF RunIDs
<1>3. Sized
  <2>1. gone = {}
    BY DEF Init
  <2> QED BY <1>2, <2>1, FS_EmptySet, ReportAssumption DEF Sized
<1>4. Blank(rd) /\ rd.pc = "idle" /\ rd.ids = <<>>
  BY <1>1, NoReaderBlank
<1>5. Shaped
  <2>1. \A k \in Keys : rd.count[k] = 0
    BY <1>4 DEF Blank
  <2> QED BY <1>4, <2>1 DEF Blank, Shaped
<1>6. -2 \in Score
  BY DEF Score
<1>7. Scoring
  BY <1>4, <1>6 DEF Blank, Scoring
<1> QED BY <1>3, <1>5, <1>7 DEF SummaryInv

LEMMA SummaryIsInvariant == Spec => [](ReportInv /\ SummaryInv)
<1>1. Init => ReportInv /\ SummaryInv
  BY InitInv, InitSummary
<1>2. ReportInv /\ SummaryInv /\ [Next]_vars => (ReportInv /\ SummaryInv)'
  BY StepInv, SummaryStep
<1> QED BY <1>1, <1>2, PTL DEF Spec

\* A whole average is not above what it is the average of.
LEMMA AverageBelow ==
  ASSUME NEW x \in Nat, NEW n \in Nat \ {0}, NEW M \in Nat, x <= n * M
  PROVE  x \div n \in Nat /\ x \div n <= M
<1> DEFINE q == x \div n
           r == x % n
<1>1. q \in Nat /\ r \in Nat /\ x = n * q + r
  OBVIOUS
<1> HIDE DEF q, r
<1>2. ASSUME q > M PROVE FALSE
  <2>1. q >= M + 1
    BY <1>1, <1>2
  <2>2. n * q >= n * (M + 1)
    BY <1>1, <2>1
  <2>3. n * (M + 1) = n * M + n
    OBVIOUS
  <2>4. n * q \in Nat /\ n * M \in Nat
    BY <1>1
  <2> QED BY <1>1, <2>2, <2>3, <2>4
<1>3. q <= M
  BY <1>1, <1>2
<1> QED BY <1>1, <1>3 DEF q

-----------------------------------------------------------------------------
\* A count that reaches the experiments asked for is that of those shown.
LEMMA CountsAreCommon == ReportInv => CommonIsCommon
<1> SUFFICES ASSUME ReportInv, rd.pc = "compared", NEW k \in CommonMetrics
             PROVE  Len(rd.shown) = Len(rd.ids) /\ \A i \in DOMAIN rd.shown : k \in rd.shown[i]
  BY DEF CommonIsCommon
<1>1. k \in Keys /\ rd.count[k] = Len(rd.ids)
  BY DEF CommonMetrics
<1>2. /\ rd.at \in 1..Len(rd.ids) + 1 /\ Len(rd.shown) < rd.at
      /\ rd.count[k] <= Len(rd.shown)
      /\ rd.count[k] = Len(rd.shown) => \A i \in DOMAIN rd.shown : k \in rd.shown[i]
  BY <1>1 DEF ReportInv, Comparing
<1>3. Len(rd.shown) \in Nat /\ Len(rd.ids) \in Nat
  BY CompareTypes DEF ReportInv, Typed
<1> QED BY <1>1, <1>2, <1>3

(* A report has the runs and losses that were there when it was asked for,       *)
(* whatever is written while its queries are made, unless one fails; a chart has  *)
(* the points of the first name that had any (GetExperimentReport, the charts).  *)
THEOREM ReportsSeePast == Spec => []ReportSeesPast
<1>1. ReportInv => ReportSeesPast
  BY DEF ReportInv
<1> QED BY InitInv, StepInv, <1>1, PTL DEF Spec

(* A comparison calls a metric common only if all experiments asked for are in    *)
(* the answer and shown with it (CompareExperiments).                           *)
THEOREM CommonIsTrue == Spec => []CommonIsCommon
BY InitInv, StepInv, CountsAreCommon, PTL DEF Spec

\* A turn among the runs listed, the experiments compared, or the runs of one.
LEMMA TurnsInRange ==
  ASSUME NEW l \in Nat, NEW m \in Nat, NEW n \in Nat, NEW x \in Int,
         x \in 0..l \/ x \in 1..m + 1 \/ x \in 0..n
  PROVE  x \in 0..l + m + n + 1
OBVIOUS

LEMMA PartInRange ==
  ASSUME NEW l \in Nat, NEW m \in Nat, NEW x \in Nat, x <= l \/ x <= m
  PROVE  x <= l + m
OBVIOUS

\* The state is within its types while what is known of it holds.
LEMMA KnownTypes ==
  ASSUME ReportInv, SummaryInv
  PROVE  TypeOK
<1>t. Typed /\ rd \in Reader /\ Sized /\ Shaped /\ Scoring
  BY DEF ReportInv, Typed, SummaryInv
<1>1. /\ DOMAIN table = Experiments
      /\ \A e \in Experiments :
           Len(table[e]) <= MaxRuns /\ \A i \in DOMAIN table[e] : table[e][i] \in Entry
  <2>1. ASSUME NEW e \in Experiments
        PROVE  Len(table[e]) <= MaxRuns /\ \A i \in DOMAIN table[e] : table[e][i] \in Entry
    BY <1>t, RunsBound, EntryPoints, ReportAssumption DEF Typed
  <2> QED BY <1>t, <2>1 DEF Typed
<1>n. /\ Len(rd.list) \in Nat /\ Len(rd.ids) \in Nat /\ Len(rd.keys) \in Nat
      /\ Len(rd.shown) \in Nat /\ Len(rd.chart) \in Nat /\ rd.at \in Int
      /\ MaxRuns \in Nat
  BY <1>t, LenProperties, ReportAssumption DEF Reader
<1>2. rd.at \in 0..Len(rd.list) + Len(rd.ids) + MaxRuns + 1
  <2>1. CASE rd.pc \in {"idle", "list"}
    <3>1. rd.at \in 0..MaxRuns
      BY <1>t, <1>n, <2>1 DEF Shaped
    <3> QED BY <1>n, <3>1, TurnsInRange
  <2>2. CASE rd.pc \in {"loop", "reported"}
    <3>1. rd.at \in 0..Len(rd.list)
      BY <2>2 DEF ReportInv, Reporting
    <3> QED BY <1>n, <3>1, TurnsInRange
  <2>3. CASE rd.pc \in {"find", "latest", "compared"}
    <3>1. rd.at \in 1..Len(rd.ids) + 1
      BY <2>3 DEF ReportInv, Comparing
    <3> QED BY <1>n, <3>1, TurnsInRange
  <2>4. CASE rd.pc \in {"chart", "series", "metrics"}
    <3>1. PICK e \in Experiments : rd.at \in DOMAIN table[e]
      BY <2>4, ChartTypes
    <3>2. Len(table[e]) \in 0..MaxRuns /\ rd.at \in 1..Len(table[e])
      BY <1>t, <3>1, RunsBound
    <3>3. rd.at \in 0..MaxRuns
      BY <1>n, <3>2
    <3> QED BY <1>n, <3>3, TurnsInRange
  <2>5. CASE rd.pc = "charted"
    <3>1. rd.at \in 0..MaxRuns
      BY <1>t, <2>5 DEF Shaped
    <3> QED BY <1>n, <3>1, TurnsInRange
  <2> QED BY <1>t, <2>1, <2>2, <2>3, <2>4, <2>5 DEF Reader
<1>3. Len(rd.chart) <= Len(rd.list) + Len(rd.keys)
  <2>1. CASE rd.pc \in {"loop", "reported"}
    <3>1. Len(rd.chart) = Len(rd.list)
      BY <2>1 DEF ReportInv, Reporting
    <3>2. Len(rd.chart) <= Len(rd.list)
      BY <1>n, <3>1
    <3> QED BY <1>n, <3>2, PartInRange
  <2>2. CASE rd.pc = "chart"
    <3>1. Len(rd.chart) < Len(rd.keys)
      BY <2>2 DEF ReportInv, Charting
    <3>2. Len(rd.chart) <= Len(rd.keys)
      BY <1>n, <3>1
    <3> QED BY <1>n, <3>2, PartInRange
  <2>3. CASE rd.pc = "charted"
    <3>1. Len(rd.chart) <= Len(rd.keys)
      BY <1>t, <2>3 DEF Shaped
    <3> QED BY <1>n, <3>1, PartInRange
  <2>4. CASE rd.pc \notin {"loop", "reported", "chart", "charted"}
    <3>1. Len(rd.chart) = 0
      BY <1>t, <2>4 DEF Shaped
    <3>2. Len(rd.chart) <= Len(rd.list)
      BY <1>n, <3>1
    <3> QED BY <1>n, <3>2, PartInRange
  <2> QED BY <2>1, <2>2, <2>3, <2>4
<1>4. rd.best \in 0..Len(rd.list) /\ rd.bestMetric \in Score
  <2>1. rd.bestMetric \in Score /\ (rd.best \in 0..Len(rd.list) \/ rd.best = 0)
    BY <1>t DEF Scoring
  <2> QED BY <1>n, <2>1
<1>5. ASSUME NEW k \in Keys PROVE rd.count[k] \in 0..Len(rd.shown)
  <2>1. rd.count[k] \in Nat
    BY <1>t DEF Shaped
  <2>2. CASE rd.pc \in {"find", "latest", "compared"}
    BY <1>n, <2>1, <2>2 DEF ReportInv, Comparing
  <2>3. CASE rd.pc \notin {"find", "latest", "compared"}
    BY <1>t, <1>n, <2>3 DEF Shaped
  <2> QED BY <2>2, <2>3
<1>6. /\ gone \subseteq Experiments
      /\ rd.pc \in {"idle", "list", "loop", "reported", "find", "latest", "compared",
                    "chart", "series", "metrics", "charted"}
      /\ rd.ids \in IDs \cup {<<e>> : e \in Experiments} \cup {<<>>}
  BY <1>t DEF Reader, Sized, Shaped
<1> QED BY <1>1, <1>2, <1>3, <1>4, <1>5, <1>6 DEF TypeOK

\* When every run had its turn, the best is the best of all.
LEMMA ScoresAreBest ==
  ASSUME ReportInv, SummaryInv
  PROVE  BestRunIsBest
<1> SUFFICES ASSUME rd.pc = "reported" PROVE BestRunIsBest
  BY DEF BestRunIsBest
<1> DEFINE list == rd.list
           scored == Scored(list)
<1>t. rd \in Reader /\ Scoring
  BY DEF ReportInv, Typed, SummaryInv
<1>1. /\ Len(list) \in Nat /\ DOMAIN list = 1..Len(list) /\ rd.at = 0
      /\ rd.bestMetric \in Int /\ rd.best \in Int
  BY <1>t, LenProperties DEF Reader, ReportInv, Reporting
<1>2. \A i \in scored : Acc(list, i) \in Int /\ i > rd.at
  <2>1. ASSUME NEW i \in scored PROVE Acc(list, i) \in Int /\ i > rd.at
    <3>1. i \in DOMAIN list
      BY DEF Scored
    <3> QED BY <1>t, <1>1, <3>1, RowOfList
  <2> QED BY <2>1
<1>3. /\ rd.best = 0 => rd.bestMetric = -2
      /\ rd.best # 0 => rd.best \in scored /\ rd.bestMetric = Acc(list, rd.best)
      /\ \A i \in scored :
           /\ Acc(list, i) <= rd.bestMetric
           /\ rd.best # 0 /\ i > rd.best => Acc(list, i) < rd.bestMetric
  BY <1>t, <1>2 DEF Scoring
<1>4. rd.best = 0 => BestMetrics = {} /\ \A i \in scored : Acc(list, i) < 0
  <2>1. SUFFICES ASSUME rd.best = 0
                 PROVE  BestMetrics = {} /\ \A i \in scored : Acc(list, i) < 0
    OBVIOUS
  <2>2. rd.bestMetric = -2
    BY <1>3, <2>1
  <2>3. BestMetrics = {}
    BY <2>2 DEF BestMetrics
  <2>4. \A i \in scored : Acc(list, i) < 0
    BY <1>2, <1>3, <2>2
  <2> QED BY <2>3, <2>4
<1>5. rd.best # 0 =>
        /\ rd.best \in scored
        /\ \A i \in scored : /\ Acc(list, i) <= Acc(list, rd.best)
                             /\ i > rd.best => Acc(list, i) < Acc(list, rd.best)
        /\ BestMetrics \subseteq {Acc(list, rd.best)}
  BY <1>3 DEF BestMetrics
<1>6. \/ AverageDuration = 0
      \/ \E i \in DOMAIN list : AverageDuration <= list[i].duration
  <2>1. CASE list = <<>>
    BY <2>1 DEF AverageDuration
  <2>2. CASE list # <<>>
    <3>1. Len(list) \in Nat \ {0}
      BY <1>t, <1>1, <2>2, EmptySeq DEF Reader
    <3>2. AverageDuration = rd.duration \div Len(list) /\ rd.duration \in Nat
      BY <1>t, <2>2 DEF AverageDuration, Scoring
    <3>3. CASE rd.duration = 0
      <4>1. rd.duration <= Len(list) * 0
        BY <3>1, <3>3
      <4>2. AverageDuration \in Nat /\ AverageDuration <= 0
        BY <3>1, <3>2, <4>1, AverageBelow
      <4>3. AverageDuration = 0
        BY <4>2
      <4> QED BY <4>3
    <3>4. CASE rd.duration # 0
      <4>1. PICK i \in DOMAIN list : /\ list[i].duration \in Nat
                                     /\ rd.duration <= (Len(list) - rd.at) * list[i].duration
        BY <1>t, <3>4 DEF Scoring
      <4>2. rd.duration <= Len(list) * list[i].duration
        <5>1. Len(list) - rd.at = Len(list)
          BY <1>1
        <5> QED BY <4>1, <5>1
      <4>3. rd.duration \div Len(list) <= list[i].duration
        BY <3>1, <3>2, <4>1, <4>2, AverageBelow
      <4> QED BY <3>2, <4>3
    <3> QED BY <3>3, <3>4
  <2> QED BY <2>1, <2>2
<1> QED BY <1>4, <1>5, <1>6 DEF BestRunIsBest, Scored, Acc

\* Every reader and every run is within its types and bounds: the counts of a
\* comparison, the turn of a loop, the chart of a run.
THEOREM TypeCorrect == Spec => []TypeOK
BY SummaryIsInvariant, KnownTypes, PTL

(* The best run of a report is the newest of those with the highest accuracy, its  *)
(* metric is the one answered, and the average is within the durations           *)
(* (GetExperimentReport), for lists of any length.                             *)
THEOREM BestIsTrue == Spec => []BestRunIsBest
BY SummaryIsInvariant, ScoresAreBest, PTL
================================================================================
