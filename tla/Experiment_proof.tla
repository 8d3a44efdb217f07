--------------------------- MODULE Experiment_proof ---------------------------
(* Theorems about Experiment, for any experiments, runs, requests, texts, keys
   and scores, and any bound on the clock.                                   *)
EXTENDS Experiment, TLAPS

-----------------------------------------------------------------------------
(* The rows and requests the actions make up have their types.                *)

LEMMA NoRunType == NoRun \in Run
<1>1. NoSummary \in Summaries
  <2>1. NoSummary \in [{} -> Scores] /\ {} \in SUBSET Keys
    BY DEF NoSummary
  <2> QED BY <2>1 DEF Summaries
<1> QED BY <1>1 DEF NoRun, Run, Stamp, Nil

LEMMA NoReqType == NoReq \in Request
BY NoRunType DEF NoReq, Request, ReqPC, NoExp, Experiment

LEMMA PatchedType ==
  ASSUME NEW x \in Experiment,
         NEW n \in Names \cup {None}, NEW s \in ExpStatus \cup {None}
  PROVE  Patched(x, n, s) \in Experiment
BY DEF Patched, Experiment

LEMMA PendingType == ASSUME NEW e \in Experiments PROVE Pending(e) \in Run
<1>1. "pending" \in RunStatus
  BY DEF RunStatus
<1> QED BY <1>1, NoRunType DEF Pending, Run

LEMMA MovedType ==
  ASSUME NEW s \in RunStatus, NEW t \in Nat PROVE Moved(s, t) \in Run
<1>1. \A x, y \in Stamp : [NoRun EXCEPT !.status = s, !.started = x, !.ended = y] \in Run
  BY NoRunType DEF Run
<1>2. t \in Stamp /\ Nil \in Stamp
  BY DEF Stamp
<1> QED BY <1>1, <1>2 DEF Moved

LEMMA EndedType ==
  ASSUME NEW w \in Run, NEW t \in Nat, w.started # Nil => w.started <= t
  PROVE  Ended(w, t) \in Run
<1>1. CASE w.started = Nil
  BY <1>1 DEF Ended, Run, Stamp
<1>2. CASE w.started # Nil
  <2>1. w.started \in Nat /\ w.started <= t
    BY <1>2 DEF Run, Stamp
  <2>2. t - w.started \in Nat
    BY <2>1
  <2> QED BY <1>2, <2>2 DEF Ended, Run, Stamp
<1> QED BY <1>1, <1>2

-----------------------------------------------------------------------------
(* The inductive invariant.  What a request has made up to write must suit the
   row it will be written over, whatever other requests write in between.     *)

\* The times of a row, at a time of the clock.
Times(w, t) ==
  /\ w.created <= t
  /\ w.started # Nil => w.created <= w.started /\ w.started <= t
  /\ w.duration # Nil => w.started # Nil /\ w.duration \in 0..(t - w.created)

EndOK(w) == w.status \in Over => w.ended # Nil

\* A request in progress on a run whose row is w.
Held(q, w, t) ==
  /\ q.pc \in {"stampRun", "insertRun"} =>
       /\ w = NoRun /\ q.row.status = "pending"
       /\ q.row.created <= t /\ q.row.started = Nil /\ q.row.duration = Nil
  /\ q.pc = "writeStatus" =>
       /\ w # NoRun /\ q.row.status # "none" /\ EndOK(q.row)
       /\ q.row.started # Nil => w.created <= q.row.started /\ q.row.started <= t
  /\ q.pc \in {"stampDone", "writeRun"} =>
       /\ w # NoRun /\ q.row.status = "completed"
       /\ Times(q.row, t) /\ q.row.created = w.created
  /\ q.pc = "writeRun" => EndOK(q.row)

RowsInv == \A r \in Runs : Times(run[r], now) /\ EndOK(run[r])
HeldInv == \A c \in Clients : Held(req[c], run[req[c].run], now)

\* A run being created is known to no other request.
NewInv ==
  \A c, d \in Clients :
    c # d /\ req[c].pc \in {"stampRun", "insertRun"} => req[d].run # req[c].run

IInv == TypeOK /\ RowsInv /\ HeldInv /\ NewInv

\* The requests that TypeOK allows.
TypedReq(q) ==
  /\ q \in Request
  /\ q.pc = "writeExp" => q.exp \in Experiments
  /\ q.pc \notin {"idle", "writeExp"} => q.run \in Runs

\* A step that only sets a request keeps the invariant if the request suits.
LEMMA GoesInv ==
  ASSUME IInv, NEW c \in Clients, NEW q, Goes(c, q), UNCHANGED <<run, now>>,
         exp' \in [Experiments -> Experiment], gone' \subseteq Experiments,
         TypedReq(q), Held(q, run[q.run], now),
         q.pc \in {"stampRun", "insertRun"} =>
           \A d \in Clients : d # c => req[d].run # q.run,
         \A d \in Clients :
           d # c /\ req[d].pc \in {"stampRun", "insertRun"} => q.run # req[d].run
  PROVE  IInv'
<1>1. req \in [Clients -> Request] /\ req' = [req EXCEPT ![c] = q]
  BY DEF IInv, TypeOK, Goes
<1>2. \A d \in Clients : req'[d] = IF d = c THEN q ELSE req[d]
  BY <1>1
<1>3. TypeOK'
  <2>1. req' \in [Clients -> Request]
    BY <1>1 DEF TypedReq
  <2> QED BY <1>2, <2>1 DEF IInv, TypeOK, TypedReq
<1>4. RowsInv'
  BY DEF IInv, RowsInv
<1>5. HeldInv'
  <2> SUFFICES ASSUME NEW d \in Clients
               PROVE  Held(req'[d], run[req'[d].run], now)
    BY DEF HeldInv
  <2> QED BY <1>2 DEF IInv, HeldInv
<1>6. NewInv'
  BY <1>2 DEF IInv, NewInv
<1> QED BY <1>3, <1>4, <1>5, <1>6 DEF IInv

\* A step that writes the row of a request and ends it keeps the invariant if the
\* row suits: new, or created when the old one was.
LEMMA WriteInv ==
  ASSUME IInv, NEW c \in Clients, NEW w \in Run,
         req[c].pc \in {"insertRun", "writeStatus", "writeRun"},
         run' = [run EXCEPT ![req[c].run] = w], Return(c),
         UNCHANGED <<exp, gone, now>>,
         Times(w, now), EndOK(w), w # NoRun,
         req[c].pc # "insertRun" => w.created = run[req[c].run].created
  PROVE  IInv'
<1> DEFINE r == req[c].run
<1>1. req \in [Clients -> Request] /\ req' = [req EXCEPT ![c] = NoReq]
  BY DEF IInv, TypeOK, Return, Goes
<1>2. \A d \in Clients : req'[d] = IF d = c THEN NoReq ELSE req[d]
  BY <1>1
<1>3. r \in Runs /\ run \in [Runs -> Run]
  BY DEF IInv, TypeOK
<1>4. \A s \in Runs : run'[s] = IF s = r THEN w ELSE run[s]
  BY <1>3
<1>5. TypeOK'
  <2>1. req' \in [Clients -> Request] /\ run' \in [Runs -> Run]
    BY <1>1, <1>3, NoReqType
  <2> QED BY <1>2, <2>1 DEF IInv, TypeOK, NoReq
<1>6. RowsInv'
  BY <1>4 DEF IInv, RowsInv
<1>7. HeldInv'
  <2> SUFFICES ASSUME NEW d \in Clients
               PROVE  Held(req'[d], run'[req'[d].run], now)
    BY DEF HeldInv
  <2>1. CASE d = c
    BY <2>1, <1>2 DEF Held, NoReq
  <2>2. CASE d # c /\ req[d].pc \in {"idle", "writeExp"}
    BY <2>2, <1>2 DEF Held
  <2>3. CASE d # c /\ req[d].pc \notin {"idle", "writeExp"} /\ req[d].run # r
    <3>1. req'[d] = req[d] /\ req[d].run \in Runs
      BY <2>3, <1>2 DEF IInv, TypeOK
    <3>2. run'[req[d].run] = run[req[d].run]
      BY <3>1, <2>3, <1>4
    <3> QED BY <3>1, <3>2 DEF IInv, HeldInv
  <2>4. CASE d # c /\ req[d].pc \notin {"idle", "writeExp"} /\ req[d].run = r
    <3>1. req[c].pc # "insertRun" /\ req[d].pc \notin {"stampRun", "insertRun"}
      BY <2>4 DEF IInv, NewInv
    <3>2. w.created = run[r].created /\ req'[d] = req[d] /\ run'[r] = w
      BY <3>1, <2>4, <1>2, <1>3, <1>4
    <3>3. Held(req[d], run[r], now)
      BY <2>4 DEF IInv, HeldInv
    <3> QED BY <2>4, <3>1, <3>2, <3>3 DEF Held
  <2> QED BY <2>1, <2>2, <2>3, <2>4
<1>8. NewInv'
  <2> SUFFICES ASSUME NEW a \in Clients, NEW d \in Clients, a # d,
                      req'[a].pc \in {"stampRun", "insertRun"}
               PROVE  req'[d].run # req'[a].run
    BY DEF NewInv
  <2>1. a # c /\ req'[a] = req[a] /\ req[a].run \in Runs
    BY <1>2 DEF IInv, TypeOK, NoReq
  <2>2. NoReq.run \notin Runs
    BY ExperimentAssumption DEF NoReq
  <2> QED BY <1>2, <2>1, <2>2 DEF IInv, NewInv
<1> QED BY <1>5, <1>6, <1>7, <1>8 DEF IInv

-----------------------------------------------------------------------------
(* The invariant holds at first and every step keeps it.                      *)

LEMMA InitIInv == Init => IInv
<1> SUFFICES ASSUME Init PROVE IInv
  OBVIOUS
<1>1. NoExp \in Experiment /\ 0 \in 0..MaxTime
  BY ExperimentAssumption DEF NoExp, Experiment
<1>2. \A c \in Clients : req[c] = NoReq /\ req[c].pc = "idle"
  BY DEF Init, NoReq
<1>3. TypeOK
  BY <1>1, <1>2, NoRunType, NoReqType DEF Init, TypeOK
<1>4. Times(NoRun, 0) /\ EndOK(NoRun)
  BY DEF Times, EndOK, NoRun, Over, Nil
<1>5. RowsInv
  BY <1>4 DEF Init, RowsInv
<1>6. HeldInv /\ NewInv
  BY <1>2 DEF HeldInv, Held, NewInv
<1> QED BY <1>3, <1>5, <1>6 DEF IInv

\* The invariant rests on the tables and the requests, and the clock only adds.
LEMMA TickIInv == IInv /\ Tick => IInv'
<1> SUFFICES ASSUME IInv, Tick PROVE IInv'
  OBVIOUS
<1>1. now \in Nat /\ now' = now + 1 /\ now' \in 0..MaxTime
  BY ExperimentAssumption DEF IInv, TypeOK, Tick
<1>2. TypeOK'
  BY <1>1 DEF IInv, TypeOK, Tick
<1>3. \A w \in Run : Times(w, now) => Times(w, now')
  BY <1>1 DEF Times, Run, Stamp
<1>4. RowsInv'
  BY <1>3 DEF IInv, TypeOK, RowsInv, Tick
<1>5. HeldInv'
  <2> SUFFICES ASSUME NEW c \in Clients
               PROVE  Held(req[c], run[req[c].run], now')
    BY DEF HeldInv, Tick
  <2>1. Held(req[c], run[req[c].run], now) /\ req[c].row \in Run
    BY DEF IInv, HeldInv, TypeOK, Request
  <2> QED BY <2>1, <1>1, <1>3 DEF Held, Run, Stamp
<1>6. NewInv'
  BY DEF IInv, NewInv, Tick
<1> QED BY <1>2, <1>4, <1>5, <1>6 DEF IInv

\* A step on the experiments leaves the runs, and what is held for them, alone.
LEMMA ExperimentIInv == IInv /\ ExperimentStep => IInv'
<1> SUFFICES ASSUME IInv, ExperimentStep PROVE IInv'
  OBVIOUS
<1>1. CASE \E e \in Experiments, n \in Names : CreateExperiment(e, n)
  <2>1. exp' \in [Experiments -> Experiment] /\ UNCHANGED <<gone, run, now, req>>
    BY <1>1 DEF CreateExperiment, IInv, TypeOK, Experiment, ExpStatus
  <2> QED BY <2>1 DEF IInv, TypeOK, RowsInv, HeldInv, NewInv
<1>2. CASE \E e \in Experiments : DeleteExperiment(e)
  BY <1>2 DEF DeleteExperiment, IInv, TypeOK, RowsInv, HeldInv, NewInv
<1>3. CASE \E e \in Experiments, c \in Clients, n \in Names \cup {None},
             s \in ExpStatus \cup {None} : UpdateExperiment(c, e, n, s)
  <2>1. PICK e \in Experiments, c \in Clients, n \in Names \cup {None},
             s \in ExpStatus \cup {None} : UpdateExperiment(c, e, n, s)
    BY <1>3
  <2> DEFINE x == Patched(exp[e], n, s)
             q == [NoReq EXCEPT !.pc = "writeExp", !.exp = e, !.doc = x]
  <2>2. x \in Experiment
    BY PatchedType DEF IInv, TypeOK
  <2>3. q \in Request /\ q.pc = "writeExp" /\ q.exp = e /\ q.run = None
    BY <2>2, NoReqType DEF Request, ReqPC, NoReq
  <2>4. Goes(c, q) /\ UNCHANGED <<exp, gone, run, now>>
    BY <2>1 DEF UpdateExperiment
  <2> HIDE DEF q
  <2>5. TypedReq(q) /\ Held(q, run[q.run], now)
    BY <2>3 DEF TypedReq, Held
  <2>6. \A d \in Clients :
          req[d].pc \in {"stampRun", "insertRun"} => q.run # req[d].run
    BY <2>3, ExperimentAssumption DEF IInv, TypeOK
  <2>7. exp' \in [Experiments -> Experiment] /\ gone' \subseteq Experiments
    BY <2>4 DEF IInv, TypeOK
  <2> QED BY <2>3, <2>4, <2>5, <2>6, <2>7, GoesInv
<1> QED BY <1>1, <1>2, <1>3 DEF ExperimentStep

\* A call about a run: the request it begins suits the row as it is.
LEMMA CallIInv ==
  ASSUME IInv, NEW c \in Clients, RunCall(c)
  PROVE  IInv'
<1>n. now \in Nat /\ exp \in [Experiments -> Experiment] /\ gone \subseteq Experiments
      /\ run \in [Runs -> Run]
  BY ExperimentAssumption DEF IInv, TypeOK
<1>1. CASE \E r \in Runs, e \in Experiments : CreateRun(c, e, r)
  <2>1. PICK r \in Runs, e \in Experiments : CreateRun(c, e, r)
    BY <1>1
  <2> DEFINE q == [NoReq EXCEPT !.pc = "stampRun", !.run = r, !.row = Pending(e)]
  <2>2. q \in Request /\ q.pc = "stampRun" /\ q.run = r /\ q.row = Pending(e)
    BY PendingType, NoReqType DEF Request, ReqPC, NoReq
  <2>3. Goes(c, q) /\ UNCHANGED <<exp, gone, run, now>>
    BY <2>1 DEF CreateRun
  <2> HIDE DEF q
  <2>4. run[r] = NoRun /\ \A d \in Clients : req[d].run # r
    BY <2>1 DEF CreateRun, There
  <2>5. /\ Pending(e).status = "pending" /\ Pending(e).created = 0
        /\ Pending(e).started = Nil /\ Pending(e).duration = Nil
    BY DEF Pending, NoRun
  <2>6. TypedReq(q) /\ Held(q, run[q.run], now)
    BY <2>2, <2>4, <2>5, <1>n DEF TypedReq, Held
  <2> QED BY <2>2, <2>3, <2>4, <2>6, <1>n, GoesInv
<1>2. CASE \E r \in Runs, s \in RunStatus : UpdateRunStatus(c, r, s)
  <2>1. PICK r \in Runs, s \in RunStatus : UpdateRunStatus(c, r, s)
    BY <1>2
  <2> DEFINE q == [NoReq EXCEPT !.pc = "writeStatus", !.run = r,
                                !.row = Moved(s, now)]
  <2>2. q \in Request /\ q.pc = "writeStatus" /\ q.run = r /\ q.row = Moved(s, now)
    BY MovedType, NoReqType, <1>n DEF Request, ReqPC, NoReq
  <2>3. Goes(c, q) /\ UNCHANGED <<exp, gone, run, now>>
    BY <2>1 DEF UpdateRunStatus
  <2> HIDE DEF q
  <2>4. run[r] # NoRun /\ run[r].created <= now
    BY <2>1 DEF UpdateRunStatus, There, IInv, RowsInv, Times
  <2>5. /\ Moved(s, now).status = s /\ s # "none" /\ EndOK(Moved(s, now))
        /\ Moved(s, now).started \in {now, Nil}
    BY <1>n DEF Moved, NoRun, EndOK, RunStatus, ExpStatus, Nil
  <2>6. TypedReq(q) /\ Held(q, run[q.run], now)
    BY <2>2, <2>4, <2>5, <1>n DEF TypedReq, Held
  <2>7. \A d \in Clients :
          req[d].pc \in {"stampRun", "insertRun"} => req[d].run # r
    BY <2>4 DEF IInv, HeldInv, Held
  <2> QED BY <2>2, <2>3, <2>6, <2>7, <1>n, GoesInv
<1>3. CASE \E r \in Runs, m \in Summaries : CompleteRun(c, r, m)
  <2>1. PICK r \in Runs, m \in Summaries : CompleteRun(c, r, m)
    BY <1>3
  <2> DEFINE w == [run[r] EXCEPT !.status = "completed", !.summary = m]
             q == [NoReq EXCEPT !.pc = "stampDone", !.run = r, !.row = w]
  <2>w. w \in Run /\ w.status = "completed" /\ w.created = run[r].created
        /\ w.started = run[r].started /\ w.duration = run[r].duration
    BY <1>n DEF Run, RunStatus, ExpStatus
  <2>3. Goes(c, q) /\ UNCHANGED <<exp, gone, run, now>>
    BY <2>1 DEF CompleteRun
  <2> HIDE DEF w
  <2>2. q \in Request /\ q.pc = "stampDone" /\ q.run = r /\ q.row = w
    BY <2>w, NoReqType DEF Request, ReqPC, NoReq
  <2> HIDE DEF q
  <2>4. run[r] # NoRun /\ Times(w, now)
    BY <2>1, <2>w DEF CompleteRun, There, IInv, RowsInv, Times
  <2>6. TypedReq(q) /\ Held(q, run[q.run], now)
    BY <2>2, <2>w, <2>4, <1>n DEF TypedReq, Held
  <2>7. \A d \in Clients :
          req[d].pc \in {"stampRun", "insertRun"} => req[d].run # r
    BY <2>4 DEF IInv, HeldInv, Held
  <2> QED BY <2>2, <2>3, <2>6, <2>7, <1>n, GoesInv
<1> QED BY <1>1, <1>2, <1>3 DEF RunCall

\* A step of a request in progress: one that sets the request, one that writes a
\* row, or the end of it.
LEMMA RequestIInv ==
  ASSUME IInv, NEW c \in Clients, RequestStep(c)
  PROVE  IInv'
<1> DEFINE r == req[c].run
           w == req[c].row
<1>n. now \in Nat /\ exp \in [Experiments -> Experiment] /\ gone \subseteq Experiments
      /\ run \in [Runs -> Run]
  BY ExperimentAssumption DEF IInv, TypeOK
<1>c. req[c] \in Request /\ w \in Run /\ Held(req[c], run[r], now)
  BY DEF IInv, TypeOK, HeldInv, Request
<1>r. req[c].pc \notin {"idle", "writeExp"} => r \in Runs
  BY DEF IInv, TypeOK
<1>0. TypedReq(NoReq) /\ Held(NoReq, run[NoReq.run], now) /\ NoReq.pc = "idle"
      /\ NoReq.run = None
  BY NoReqType DEF TypedReq, Held, NoReq
<1>1. CASE WriteExperiment(c)
  <2>1. exp' \in [Experiments -> Experiment] /\ gone' \subseteq Experiments
        /\ Goes(c, NoReq) /\ UNCHANGED <<run, now>>
    BY <1>1, <1>n, <1>c DEF WriteExperiment, Return, Request
  <2>2. \A d \in Clients :
          req[d].pc \in {"stampRun", "insertRun"} => NoReq.run # req[d].run
    BY <1>0, ExperimentAssumption DEF IInv, TypeOK
  <2> QED BY <2>1, <2>2, <1>0, GoesInv
<1>2. CASE Abandon(c)
  <2>1. Goes(c, NoReq) /\ UNCHANGED <<exp, gone, run, now>>
    BY <1>2 DEF Abandon, Return
  <2>2. \A d \in Clients :
          req[d].pc \in {"stampRun", "insertRun"} => NoReq.run # req[d].run
    BY <1>0, ExperimentAssumption DEF IInv, TypeOK
  <2> QED BY <2>1, <2>2, <1>0, <1>n, GoesInv
<1>3. CASE StampRun(c)
  <2> DEFINE x == [w EXCEPT !.created = now]
             q == [req[c] EXCEPT !.pc = "insertRun", !.row = x]
  <2>1. x \in Run /\ x.created = now /\ x.status = w.status
        /\ x.started = w.started /\ x.duration = w.duration
    BY <1>c, <1>n DEF Run
  <2>2. req[c].pc = "stampRun" /\ UNCHANGED <<exp, gone, run, now>>
    BY <1>3 DEF StampRun
  <2>3. Goes(c, q)
    BY <1>3, <1>c, Zenon DEF StampRun
  <2> HIDE DEF x
  <2>4. q \in Request /\ q.pc = "insertRun" /\ q.run = r /\ q.row = x
    BY <1>c, <2>1 DEF Request, ReqPC
  <2> HIDE DEF q
  <2>5. TypedReq(q) /\ Held(q, run[q.run], now)
    BY <1>c, <1>r, <1>n, <2>1, <2>2, <2>4 DEF TypedReq, Held
  <2>6. \A d \in Clients : d # c => req[d].run # q.run
    BY <2>2, <2>4 DEF IInv, NewInv
  <2>7. \A d \in Clients :
          d # c /\ req[d].pc \in {"stampRun", "insertRun"} => q.run # req[d].run
    BY <2>6
  <2> QED BY <2>2, <2>3, <2>4, <2>5, <2>6, <2>7, <1>n, GoesInv
<1>4. CASE StampDone(c)
  <2> DEFINE x == Ended(w, now)
             q == [req[c] EXCEPT !.pc = "writeRun", !.row = x]
  <2>1. req[c].pc = "stampDone" /\ UNCHANGED <<exp, gone, run, now>> /\ Goes(c, q)
    BY <1>4 DEF StampDone
  <2>2. run[r] # NoRun /\ w.status = "completed" /\ Times(w, now)
        /\ w.created = run[r].created
    BY <1>c, <2>1 DEF Held
  <2>3. x \in Run
    BY <1>c, <1>n, <2>2, EndedType DEF Times
  <2>4. /\ x.status = w.status /\ x.created = w.created /\ x.ended = now
        /\ x.started = w.started
        /\ x.duration = IF w.started = Nil THEN w.duration ELSE now - w.started
    BY <1>c DEF Ended, Run
  <2> HIDE DEF x
  <2>5. q \in Request /\ q.pc = "writeRun" /\ q.run = r /\ q.row = x
    BY <1>c, <2>3 DEF Request, ReqPC
  <2> HIDE DEF q
  <2>6. w.created \in Nat /\ w.started \in Stamp /\ w.duration \in Stamp
    BY <1>c DEF Run
  <2>7. Times(x, now) /\ EndOK(x)
    BY <2>2, <2>4, <2>6, <1>n DEF Times, EndOK, Stamp, Nil
  <2>8. TypedReq(q) /\ Held(q, run[q.run], now)
    BY <1>r, <2>1, <2>2, <2>4, <2>5, <2>7 DEF TypedReq, Held
  <2>9. \A d \in Clients :
          d # c /\ req[d].pc \in {"stampRun", "insertRun"} => q.run # req[d].run
    BY <2>5 DEF IInv, NewInv
  <2> QED BY <2>1, <2>5, <2>8, <2>9, <1>n, GoesInv
<1>5. CASE InsertRun(c)
  <2>1. req[c].pc = "insertRun" /\ run' = [run EXCEPT ![r] = w] /\ Return(c)
        /\ UNCHANGED <<exp, gone, now>>
    BY <1>5 DEF InsertRun
  <2>2. /\ w.status = "pending" /\ w.created <= now
        /\ w.started = Nil /\ w.duration = Nil
    BY <1>c, <2>1 DEF Held
  <2>3. Times(w, now) /\ EndOK(w) /\ w # NoRun
    BY <2>2 DEF Times, EndOK, Over, NoRun
  <2> QED BY <2>1, <2>3, <1>c, WriteInv
<1>6. CASE WriteStatus(c)
  <2> DEFINE o == run[r]
             x == [o EXCEPT !.status = w.status,
                            !.started = Set(w.started, o.started),
                            !.ended = Set(w.ended, o.ended)]
  <2>1. req[c].pc = "writeStatus" /\ run' = [run EXCEPT ![r] = x] /\ Return(c)
        /\ UNCHANGED <<exp, gone, now>>
    BY <1>6 DEF WriteStatus
  <2>2. /\ w.status # "none" /\ EndOK(w)
        /\ w.started # Nil => o.created <= w.started /\ w.started <= now
    BY <1>c, <2>1 DEF Held
  <2>3. r \in Runs /\ o \in Run /\ Times(o, now)
    BY <1>n, <1>r, <2>1 DEF IInv, RowsInv
  <2>4. /\ x \in Run /\ x.status = w.status /\ x.created = o.created
        /\ x.started = Set(w.started, o.started)
        /\ x.ended = Set(w.ended, o.ended) /\ x.duration = o.duration
    BY <1>c, <2>3 DEF Run, Set
  <2> HIDE DEF x
  <2>5. Times(x, now)
    BY <2>2, <2>3, <2>4 DEF Times, Set
  <2>6. EndOK(x) /\ x # NoRun
    BY <2>2, <2>4 DEF EndOK, Set, NoRun
  <2> QED BY <2>1, <2>4, <2>5, <2>6, WriteInv
<1>7. CASE WriteRun(c)
  <2>1. req[c].pc = "writeRun" /\ run' = [run EXCEPT ![r] = w] /\ Return(c)
        /\ UNCHANGED <<exp, gone, now>>
    BY <1>7 DEF WriteRun
  <2>2. /\ w.status = "completed" /\ Times(w, now) /\ EndOK(w)
        /\ w.created = run[r].created
    BY <1>c, <2>1 DEF Held
  <2>3. w # NoRun
    BY <2>2 DEF NoRun
  <2> QED BY <2>1, <2>2, <2>3, <1>c, WriteInv
<1> QED BY <1>1, <1>2, <1>3, <1>4, <1>5, <1>6, <1>7 DEF RequestStep

LEMMA NextIInv == IInv /\ [Next]_vars => IInv'
<1> SUFFICES ASSUME IInv, [Next]_vars PROVE IInv'
  OBVIOUS
<1>1. CASE UNCHANGED vars
  BY <1>1 DEF vars, IInv, TypeOK, RowsInv, HeldInv, NewInv
<1>2. CASE Next
  BY <1>2, TickIInv, ExperimentIInv, CallIInv, RequestIInv DEF Next
<1> QED BY <1>1, <1>2

-----------------------------------------------------------------------------
(* What follows.                                                              *)

\* The invariant, of every behaviour.
THEOREM Invariant == Spec => []IInv
BY InitIInv, NextIInv, PTL DEF Spec

\* Every value a request or a row of the two tables takes has its type: no
\* duration CompleteRun computes is negative.
THEOREM TypeCorrect == Spec => []TypeOK
BY Invariant, PTL DEF IInv

\* However CompleteRun and UpdateRunStatus interleave, a run that has a duration
\* has a start, and the duration is within its age.
THEOREM DurationIsReal == Spec => []DurationReal
<1>1. IInv => DurationReal
  BY DEF IInv, RowsInv, Times, DurationReal
<1> QED BY <1>1, Invariant, PTL

\* Whichever request ends a run, and whatever another writes over it, a run that
\* is over has an end.
THEOREM OverHasEnd == Spec => []EndedWhenOver
<1>1. IInv => EndedWhenOver
  BY DEF IInv, RowsInv, EndOK, EndedWhenOver
<1> QED BY <1>1, Invariant, PTL

\* A deleted experiment has a row, so that its identifier is not drawn again.
GoneHasRow == \A e \in gone : exp[e] # NoExp

\* What a step does to an experiment that was deleted: nothing.
LEMMA GoneStep ==
  ASSUME IInv, GoneHasRow, Next, NEW e \in gone
  PROVE  e \in gone' /\ exp'[e] = exp[e]
<1>t. exp \in [Experiments -> Experiment] /\ e \in Experiments /\ exp[e] # NoExp
  BY DEF IInv, TypeOK, GoneHasRow
<1>1. CASE Tick
  BY <1>1 DEF Tick
<1>2. CASE ExperimentStep
  BY <1>2, <1>t DEF ExperimentStep, CreateExperiment, DeleteExperiment,
     UpdateExperiment
<1>3. CASE \E c \in Clients : RunCall(c)
  BY <1>3 DEF RunCall, CreateRun, UpdateRunStatus, CompleteRun
<1>4. CASE \E c \in Clients : RequestStep(c)
  BY <1>4, <1>t DEF RequestStep, WriteExperiment, StampRun, InsertRun,
     WriteStatus, StampDone, WriteRun, Abandon, Live
<1> QED BY <1>1, <1>2, <1>3, <1>4 DEF Next

\* An experiment that becomes deleted was live.
LEMMA NewlyGone ==
  ASSUME IInv, Next, NEW e \in gone' \ gone
  PROVE  exp[e] # NoExp /\ exp'[e] = exp[e]
<1>1. gone' # gone
  OBVIOUS
<1>2. CASE \E d \in Experiments : DeleteExperiment(d)
  BY <1>2 DEF DeleteExperiment, Live
<1>3. CASE ~\E d \in Experiments : DeleteExperiment(d)
  BY <1>1, <1>3 DEF Next, Tick, ExperimentStep, CreateExperiment,
     UpdateExperiment, RunCall, CreateRun, UpdateRunStatus, CompleteRun,
     RequestStep, WriteExperiment, StampRun, InsertRun, WriteStatus, StampDone,
     WriteRun, Abandon
<1> QED BY <1>2, <1>3

\* No step touches an experiment that was deleted: an UpdateExperiment that read
\* it before writes nothing.
THEOREM DeletedIsFinal == Spec => DeletedStays
<1>1. Init => GoneHasRow
  BY DEF Init, GoneHasRow
<1>2. IInv /\ GoneHasRow /\ [Next]_vars => GoneHasRow'
  <2>1. ASSUME UNCHANGED vars, GoneHasRow PROVE GoneHasRow'
    BY <2>1 DEF vars, GoneHasRow
  <2>2. ASSUME IInv, GoneHasRow, Next PROVE GoneHasRow'
    BY <2>2, GoneStep, NewlyGone DEF GoneHasRow
  <2> QED BY <2>1, <2>2
<1>3. IInv /\ GoneHasRow /\ [Next]_vars =>
        [\A e \in gone : e \in gone' /\ exp'[e] = exp[e]]_vars
  BY GoneStep
<1> QED BY <1>1, <1>2, <1>3, Invariant, PTL DEF Spec, DeletedStays
=============================================================================
