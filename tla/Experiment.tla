------------------------------ MODULE Experiment ------------------------------
(****************************************************************************)
(* The experiments and their runs: the rows of two PostgreSQL tables and the   *)
(* requests that change them, none of which opens a transaction.             *)
(*                                                                          *)
(*   services/experiment/internal/service/experiment_service.go             *)
(*   services/experiment/internal/repository/experiment_repo.go             *)
(*                                                                          *)
(* A step is one SQL statement or one reading of the clock.  The first call    *)
(* of a request is its first step; a request that finds no row answers        *)
(* "not found" and changes nothing, so it has no action.                     *)
(****************************************************************************)
EXTENDS FiniteSets, Integers

CONSTANTS Experiments,  \* experiment identifiers, each drawn once
          Runs,         \* run identifiers, each drawn once
          Clients,      \* HTTP requests that may be in progress at once
          Names,        \* name, description, tags and config, as one text
          Keys,         \* keys of a metrics summary
          Scores,       \* values of a metrics summary
          None,         \* no experiment, no run, no text
          MaxTime       \* bound on the clock

ASSUME ExperimentAssumption ==
  /\ MaxTime \in Nat
  /\ Scores \subseteq Int
  /\ None \notin Experiments \cup Runs \cup Names

VARIABLES exp,   \* the table experiments
          gone,  \* the experiments with a deleted_at
          run,   \* the table runs; the service deletes none
          now,   \* the clock of the service
          req    \* the HTTP requests in progress

vars == <<exp, gone, run, now, req>>

Nil   == -1                      \* a nil *time.Time or *int64
Stamp == Nat \cup {Nil}

ExpStatus == {"running", "completed", "failed", "stopped"}
RunStatus == ExpStatus \cup {"pending"}
Over      == {"completed", "failed", "stopped"}

\* MetricsSummary: some keys, each with its value.
Summaries == UNION {[K -> Scores] : K \in SUBSET Keys}
NoSummary == [k \in {} |-> 0]

Experiment == [status : ExpStatus \cup {"none"}, name : Names \cup {None}]
NoExp      == [status |-> "none", name |-> None]

Run   == [exp : Experiments \cup {None}, status : RunStatus \cup {"none"},
          created : Nat, started : Stamp, ended : Stamp, duration : Stamp,
          summary : Summaries]
NoRun == [exp |-> None, status |-> "none", created |-> 0, started |-> Nil,
          ended |-> Nil, duration |-> Nil, summary |-> NoSummary]

ReqPC == {"idle", "writeExp", "stampRun", "insertRun", "writeStatus",
          "stampDone", "writeRun"}

\* A request: the rows it is about and the ones it has made up to write.
Request == [pc : ReqPC, exp : Experiments \cup {None}, run : Runs \cup {None},
            doc : Experiment, row : Run]
NoReq   == [pc |-> "idle", exp |-> None, run |-> None, doc |-> NoExp,
            row |-> NoRun]

TypeOK ==
  /\ exp \in [Experiments -> Experiment]
  /\ gone \subseteq Experiments
  /\ run \in [Runs -> Run]
  /\ now \in 0..MaxTime
  /\ req \in [Clients -> Request]
  /\ \A c \in Clients :
       /\ req[c].pc = "writeExp" => req[c].exp \in Experiments
       /\ req[c].pc \notin {"idle", "writeExp"} => req[c].run \in Runs

Init ==
  /\ exp = [e \in Experiments |-> NoExp]
  /\ gone = {}
  /\ run = [r \in Runs |-> NoRun]
  /\ now = 0
  /\ req = [c \in Clients |-> NoReq]

-----------------------------------------------------------------------------
\* What GetByID finds: gorm leaves the soft-deleted rows out.
Live(e)  == exp[e] # NoExp /\ e \notin gone
There(r) == run[r] # NoRun

Free(c)   == req[c].pc = "idle"
Goes(c, q) == req' = [req EXCEPT ![c] = q]
Return(c)  == Goes(c, NoReq)

Tick == now < MaxTime /\ now' = now + 1 /\ UNCHANGED <<exp, gone, run, req>>

\* A call to the database fails, the client goes away or the process dies: the
\* request ends where it stands and nothing it did is undone.
Abandon(c) == ~Free(c) /\ Return(c) /\ UNCHANGED <<exp, gone, run, now>>

-----------------------------------------------------------------------------
(* Experiments.                                                               *)

CreateExperiment(e, n) ==
  /\ exp[e] = NoExp
  /\ exp' = [exp EXCEPT ![e] = [status |-> "running", name |-> n]]
  /\ UNCHANGED <<gone, run, now, req>>

\* The fields a request leaves out keep what the row holds.
Patched(row, n, s) ==
  [status |-> IF s = None THEN row.status ELSE s,
   name   |-> IF n = None THEN row.name ELSE n]

\* UpdateExperiment reads the row and patches it in memory ...
UpdateExperiment(c, e, n, s) ==
  /\ Free(c) /\ Live(e)
  /\ Goes(c, [NoReq EXCEPT !.pc = "writeExp", !.exp = e,
                           !.doc = Patched(exp[e], n, s)])
  /\ UNCHANGED <<exp, gone, run, now>>

\* Mutant: the UPDATE reaches a soft-deleted row.
WriteExperiment_Unscoped(c) ==
  /\ req[c].pc = "writeExp"
  /\ exp' = [exp EXCEPT ![req[c].exp] = req[c].doc]
  /\ Return(c)
  /\ UNCHANGED <<gone, run, now>>

\* ... then writes all its fields, if the row is still there.
WriteExperiment(c) ==
  LET e == req[c].exp IN
  /\ req[c].pc = "writeExp"
  /\ exp' = IF Live(e) THEN [exp EXCEPT ![e] = req[c].doc] ELSE exp
  /\ Return(c)
  /\ UNCHANGED <<gone, run, now>>

\* A soft delete; the runs of the experiment stay.
DeleteExperiment(e) ==
  /\ Live(e)
  /\ gone' = gone \cup {e}
  /\ UNCHANGED <<exp, run, now, req>>

-----------------------------------------------------------------------------
(* Runs.                                                                      *)

Pending(e) == [NoRun EXCEPT !.exp = e, !.status = "pending"]

\* CreateRun finds the experiment, ...
CreateRun(c, e, r) ==
  /\ Free(c) /\ Live(e)
  /\ ~There(r) /\ \A d \in Clients : req[d].run # r
  /\ Goes(c, [NoReq EXCEPT !.pc = "stampRun", !.run = r, !.row = Pending(e)])
  /\ UNCHANGED <<exp, gone, run, now>>

\* ... takes the time ...
StampRun(c) ==
  /\ req[c].pc = "stampRun"
  /\ Goes(c, [req[c] EXCEPT !.pc = "insertRun", !.row.created = now])
  /\ UNCHANGED <<exp, gone, run, now>>

\* ... and inserts the row.  UpdateRunsCount, which comes after, counts the runs
\* and sets a column that experiments does not have; its error is logged.
InsertRun(c) ==
  /\ req[c].pc = "insertRun"
  /\ run' = [run EXCEPT ![req[c].run] = req[c].row]
  /\ Return(c)
  /\ UNCHANGED <<exp, gone, now>>

\* The columns that go with a status, at a time: Nil where there is none to set.
Moved(s, t) ==
  [NoRun EXCEPT !.status = s,
                !.started = IF s = "running" THEN t ELSE Nil,
                !.ended = IF s \in Over THEN t ELSE Nil]

\* UpdateRunStatus takes the time ...
UpdateRunStatus(c, r, s) ==
  /\ Free(c) /\ There(r)
  /\ Goes(c, [NoReq EXCEPT !.pc = "writeStatus", !.run = r,
                           !.row = Moved(s, now)])
  /\ UNCHANGED <<exp, gone, run, now>>

Set(new, old) == IF new = Nil THEN old ELSE new

\* Mutant: a status that is over leaves ended_at alone.
WriteStatus_NoEnd(c) ==
  LET w == req[c].row  row == run[req[c].run] IN
  /\ req[c].pc = "writeStatus"
  /\ run' = [run EXCEPT ![req[c].run] =
               [row EXCEPT !.status = w.status,
                           !.started = Set(w.started, row.started)]]
  /\ Return(c)
  /\ UNCHANGED <<exp, gone, now>>

\* ... and writes the status and the times that go with it, whatever the status
\* of the run was.
WriteStatus(c) ==
  LET w == req[c].row  row == run[req[c].run] IN
  /\ req[c].pc = "writeStatus"
  /\ run' = [run EXCEPT ![req[c].run] =
               [row EXCEPT !.status = w.status,
                           !.started = Set(w.started, row.started),
                           !.ended = Set(w.ended, row.ended)]]
  /\ Return(c)
  /\ UNCHANGED <<exp, gone, now>>

\* CompleteRun reads the row, ...
CompleteRun(c, r, m) ==
  /\ Free(c) /\ There(r)
  /\ Goes(c, [NoReq EXCEPT !.pc = "stampDone", !.run = r,
                  !.row = [run[r] EXCEPT !.status = "completed", !.summary = m]])
  /\ UNCHANGED <<exp, gone, run, now>>

\* Mutant: the two times are the wrong way round.
Ended_Swapped(w, t) ==
  [w EXCEPT !.ended = t,
            !.duration = IF w.started = Nil THEN w.duration ELSE w.started - t]

\* A row that ends at a time; its duration follows from its own started_at.
Ended(w, t) ==
  [w EXCEPT !.ended = t,
            !.duration = IF w.started = Nil THEN w.duration ELSE t - w.started]

\* ... takes the time, ...
StampDone(c) ==
  /\ req[c].pc = "stampDone"
  /\ Goes(c, [req[c] EXCEPT !.pc = "writeRun", !.row = Ended(req[c].row, now)])
  /\ UNCHANGED <<exp, gone, run, now>>

\* Mutant: a duration that is nil is left out of the UPDATE.
WriteRun_SkipsNil(c) ==
  LET w == req[c].row  row == run[req[c].run] IN
  /\ req[c].pc = "writeRun"
  /\ run' = [run EXCEPT ![req[c].run] =
               [w EXCEPT !.duration = Set(w.duration, row.duration)]]
  /\ Return(c)
  /\ UNCHANGED <<exp, gone, now>>

\* ... and writes every column it has read.
WriteRun(c) ==
  /\ req[c].pc = "writeRun"
  /\ run' = [run EXCEPT ![req[c].run] = req[c].row]
  /\ Return(c)
  /\ UNCHANGED <<exp, gone, now>>

-----------------------------------------------------------------------------
ExperimentStep ==
  \E e \in Experiments :
    \/ \E n \in Names : CreateExperiment(e, n)
    \/ DeleteExperiment(e)
    \/ \E c \in Clients, n \in Names \cup {None}, s \in ExpStatus \cup {None} :
         UpdateExperiment(c, e, n, s)

RunCall(c) ==
  \E r \in Runs :
    \/ \E e \in Experiments : CreateRun(c, e, r)
    \/ \E s \in RunStatus : UpdateRunStatus(c, r, s)
    \/ \E m \in Summaries : CompleteRun(c, r, m)

RequestStep(c) ==
  \/ WriteExperiment(c)
  \/ StampRun(c)
  \/ InsertRun(c)
  \/ WriteStatus(c)
  \/ StampDone(c)
  \/ WriteRun(c)
  \/ Abandon(c)

Next ==
  \/ Tick
  \/ ExperimentStep
  \/ \E c \in Clients : RunCall(c) \/ RequestStep(c)

Spec == Init /\ [][Next]_vars

-----------------------------------------------------------------------------
(* CompleteRun computes a duration from the row it has read and writes it next   *)
(* to started_at; UpdateRunStatus moves both times with no look at it.  However  *)
(* the two interleave, a run with a duration has a start, and the duration is    *)
(* one the run can have had: not negative, and no longer than its age.          *)
DurationReal ==
  \A r \in Runs : run[r].duration # Nil =>
    /\ run[r].started # Nil
    /\ run[r].duration \in 0..(now - run[r].created)

(* A run that is over has an end, whichever of UpdateRunStatus and CompleteRun   *)
(* ended it and whatever stale row the other one wrote over it.                 *)
EndedWhenOver ==
  \A r \in Runs : run[r].status \in Over => run[r].ended # Nil

(* An experiment that was deleted stays deleted, and an UpdateExperiment that    *)
(* read it before does not change it any more.                                 *)
DeletedStays ==
  [][\A e \in gone : e \in gone' /\ exp'[e] = exp[e]]_vars

=============================================================================
