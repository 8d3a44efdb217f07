-------------------------- MODULE TrainingJob_proof --------------------------
(* Theorems about TrainingJob, for any jobs, clients, operations and faults.  *)
EXTENDS TrainingJob, TLAPS

(* Type correctness, one lemma per group of steps.                           *)

\* The empty service with an empty table is well typed.
LEMMA InitTypeOK == Init => TypeOK
BY ConstantsAssumption
   DEF Init, TypeOK, Status, Terminal, StarterPC, Locked, ExecMonPC, JobMonPC,
       ReqPC, NoMon, NoReq,
       JobMonitor, Request

\* A status update leaves a row with a status, or without one, in every place.
LEMMA UpdateStatusType ==
  ASSUME row \in [Jobs -> Status \cup {"none"}], NEW j,
         NEW s \in Status, UpdateStatus(j, s)
  PROVE  row' \in [Jobs -> Status \cup {"none"}]
BY DEF UpdateStatus

\* Moving a completion monitor to another place keeps the monitors typed.
LEMMA MonitorType ==
  ASSUME jobMon \in [Jobs -> JobMonitor], NEW j \in Jobs, NEW pc \in JobMonPC,
         JobMonTo(j, pc)
  PROVE  jobMon' \in [Jobs -> JobMonitor]
<1>1. [jobMon[j] EXCEPT !.pc = pc] \in JobMonitor
  BY DEF JobMonitor
<1> QED BY <1>1 DEF JobMonTo

\* So does giving it the status it will write.
LEMMA MonitorVerdictType ==
  ASSUME NEW m \in JobMonitor, NEW v \in Terminal
  PROVE  [m EXCEPT !.pc = "write", !.verdict = v] \in JobMonitor
BY DEF JobMonitor, JobMonPC

\* The steps of startJobAsync and Start keep the types.
LEMMA StarterTypeOK ==
  ASSUME TypeOK, NEW j \in Jobs, StarterStep(j)
  PROVE  TypeOK'
<1> USE DEF TypeOK, StarterPC, StarterTo, executorVars, daemonVars
<1>s. {"running", "failed"} \subseteq Status BY DEF Status, Terminal
<1>1. CASE StartFetch(j)    BY <1>1 DEF StartFetch
<1>2. CASE StartMark(j)
  <2>1. row' \in [Jobs -> Status \cup {"none"}]
    BY <1>2, <1>s, UpdateStatusType DEF StartMark
  <2> QED BY <1>2, <2>1 DEF StartMark
<1>3. CASE StartLock(j)     BY <1>3 DEF StartLock
<1>4. CASE StartCreate(j)   BY <1>4 DEF StartCreate
<1>5. CASE StartLaunch(j)   BY <1>5 DEF StartLaunch
<1>6. CASE StartRegister(j)
  <2>1. jobMon' \in [Jobs -> JobMonitor]
    BY <1>6, MonitorType DEF StartRegister, JobMonPC, JobMonTo
  <2>2. execMon' \in [Jobs -> ExecMonPC]
    BY <1>6 DEF StartRegister, ExecMonPC
  <2> QED BY <1>6, <2>1, <2>2 DEF StartRegister
<1>7. CASE StartFailed(j)
  <2>1. row' \in [Jobs -> Status \cup {"none"}]
    BY <1>7, <1>s, UpdateStatusType DEF StartFailed
  <2> QED BY <1>7, <2>1 DEF StartFailed
<1> QED BY <1>1, <1>2, <1>3, <1>4, <1>5, <1>6, <1>7 DEF StarterStep

\* The steps of monitorContainer keep the types.
LEMMA ExecTypeOK ==
  ASSUME TypeOK, NEW j \in Jobs, ExecStep(j)
  PROVE  TypeOK'
<1> USE DEF TypeOK, ExecMonPC, ExecMonTo, executorVars, daemonVars
<1>1. CASE ExecWait(j)       BY <1>1 DEF ExecWait
<1>2. CASE ExecExited(j)     BY <1>2 DEF ExecExited
<1>3. CASE ExecCancelled(j)  BY <1>3 DEF ExecCancelled
<1>4. CASE ExecUnregister(j) BY <1>4 DEF ExecUnregister
<1>5. CASE ExecStop(j)       BY <1>5 DEF ExecStop, ContainerStop, Exit, ExitCodes
<1> QED BY <1>1, <1>2, <1>3, <1>4, <1>5 DEF ExecStep

\* The steps of monitorJobCompletion keep the types.
LEMMA MonTypeOK ==
  ASSUME TypeOK, NEW j \in Jobs, MonStep(j) \/ MonDeadline(j)
  PROVE  TypeOK'
<1> USE DEF TypeOK, executorVars, daemonVars
<1>1. CASE MonTick(j)
  BY <1>1 DEF MonTick, NoMon, JobMonitor, JobMonPC
<1>2. CASE MonDeadline(j)
  <2>1. [jobMon[j] EXCEPT !.late = TRUE] \in JobMonitor
    BY DEF JobMonitor
  <2> QED BY <1>2, <2>1 DEF MonDeadline
<1>3. CASE MonLookup1(j)
  <2>1. jobMon' \in [Jobs -> JobMonitor]
    BY <1>3, MonitorType DEF MonLookup1, JobMonPC
  <2> QED BY <1>3, <2>1 DEF MonLookup1
<1>4. CASE MonInspect1(j)
  <2>1. jobMon' \in [Jobs -> JobMonitor]
    BY <1>4, MonitorType DEF MonInspect1, JobMonPC
  <2> QED BY <1>4, <2>1 DEF MonInspect1
<1>5. CASE MonLookup2(j)
  <2>1. CASE j \in registry
    <3>1. jobMon' \in [Jobs -> JobMonitor]
      BY <1>5, <2>1, MonitorType DEF MonLookup2, JobMonPC
    <3> QED BY <1>5, <3>1 DEF MonLookup2
  <2>2. CASE j \notin registry
    <3>1. [jobMon[j] EXCEPT !.pc = "write", !.verdict = "failed"] \in JobMonitor
      BY MonitorVerdictType DEF Terminal
    <3> QED BY <1>5, <2>2, <3>1 DEF MonLookup2
  <2> QED BY <2>1, <2>2
<1>6. CASE MonInspect2(j)
  <2>1. PICK s \in {FinalStatus(InspectStatus(j)), "failed"} :
          jobMon' = [jobMon EXCEPT ![j].pc = "write", ![j].verdict = s]
    BY <1>6 DEF MonInspect2
  <2>2. s \in Terminal
    BY <2>1 DEF FinalStatus, Terminal
  <2>3. [jobMon[j] EXCEPT !.pc = "write", !.verdict = s] \in JobMonitor
    BY <2>2, MonitorVerdictType
  <2> QED BY <1>6, <2>1, <2>3 DEF MonInspect2
<1>7. CASE MonWrite(j)
  <2>1. jobMon' \in [Jobs -> JobMonitor]
    BY <1>7, MonitorType DEF MonWrite, JobMonPC
  <2>2. row' \in [Jobs -> Status \cup {"none"}]
    <3>1. CASE UNCHANGED row BY <3>1
    <3>2. CASE UpdateStatus(j, jobMon[j].verdict)
      <4>1. jobMon[j].verdict \in Status \cup {"none"}
        BY DEF JobMonitor, Status
      <4> QED BY <3>2, <4>1 DEF UpdateStatus
    <3> QED BY <1>7, <3>1, <3>2 DEF MonWrite
  <2> QED BY <1>7, <2>1, <2>2 DEF MonWrite
<1> QED BY <1>1, <1>2, <1>3, <1>4, <1>5, <1>6, <1>7 DEF MonStep

\* Moving a request to another place keeps the requests typed.
LEMMA ReqToType ==
  ASSUME req \in [Clients -> Request], NEW c \in Clients, NEW pc \in ReqPC,
         ReqTo(c, pc)
  PROVE  req' \in [Clients -> Request]
<1>1. [req[c] EXCEPT !.pc = pc] \in Request
  BY DEF Request
<1> QED BY <1>1 DEF ReqTo

\* A place where no request is in progress is a typed request.
LEMMA NoReqType == NoReq \in Request
BY DEF NoReq, Request, ReqPC

\* A request that returns leaves such a place.
LEMMA ReturnType ==
  ASSUME req \in [Clients -> Request], NEW c \in Clients, Return(c)
  PROVE  req' \in [Clients -> Request]
BY NoReqType DEF Return

\* What a step of a request does to req, whatever else it does.
LEMMA ReqStepReq ==
  ASSUME req \in [Clients -> Request], NEW c \in Clients, ReqStep(c)
  PROVE  \/ Return(c)
         \/ \E pc \in ReqPC : ReqTo(c, pc)
         \/ UpdateRead(c)
BY Zenon DEF ReqStep, UpdateSave, DeleteRead, DeleteRow, StopRead, StopMark,
       StopLookup, StopDocker, StopUnregister, StopAgain, StopOrphan, StopFinal,
       ReqPC

\* The steps of UpdateJob, DeleteJob and StopJob keep the types.
LEMMA ReqTypeOK ==
  ASSUME TypeOK, NEW c \in Clients, ReqStep(c)
  PROVE  TypeOK'
<1> DEFINE J == req[c].job
<1> USE DEF executorVars, daemonVars
<1>j. req[c].pc # "idle" /\ J \in Jobs
  BY DEF TypeOK, ReqStep, UpdateRead, UpdateSave, DeleteRead, DeleteRow,
         StopRead, StopMark, StopLookup, StopDocker, StopUnregister, StopAgain,
         StopOrphan, StopFinal
<1>c. req[c] \in Request /\ row[J] \in Status \cup {"none"}
  BY <1>j DEF TypeOK
<1>r. req' \in [Clients -> Request]
  <2>1. CASE UpdateRead(c)
    <3>1. CASE Return(c) BY <3>1, ReturnType DEF TypeOK
    <3>2. CASE req' = [req EXCEPT ![c].pc = "save", ![c].seen = row[J]]
      <4>1. [req[c] EXCEPT !.pc = "save", !.seen = row[J]] \in Request
        BY <1>c DEF Request, ReqPC
      <4> QED BY <3>2, <4>1 DEF TypeOK
    <3> QED BY <2>1, <3>1, <3>2 DEF UpdateRead
  <2> QED BY <2>1, ReqStepReq, ReqToType, ReturnType DEF TypeOK
<1>s. \A d \in Clients : req'[d].pc = "idle" \/ req'[d].job \in Jobs
  <2>1. CASE Return(c) BY <2>1 DEF Return, NoReq, TypeOK
  <2>2. CASE \E pc \in ReqPC : ReqTo(c, pc)
    BY <2>2, <1>j, <1>c DEF ReqTo, TypeOK, Request
  <2>3. CASE UpdateRead(c)
    BY <2>3, <2>1, <1>j, <1>c DEF UpdateRead, TypeOK, Request
  <2> QED BY <2>1, <2>2, <2>3, ReqStepReq DEF TypeOK
<1>w. row' \in [Jobs -> Status \cup {"none"}]
  <2>1. CASE UNCHANGED row BY <2>1 DEF TypeOK
  <2>2. CASE row' = [row EXCEPT ![J] = req[c].seen]
               \/ row' = [row EXCEPT ![J] = "none"]
    BY <2>2, <1>c DEF TypeOK, Request
  <2>3. CASE UpdateStatus(J, "stopping") \/ UpdateStatus(J, "cancelled")
    BY <2>3, UpdateStatusType DEF TypeOK, Status, Terminal
  <2> QED
    BY <2>1, <2>2, <2>3 DEF ReqStep, UpdateRead, UpdateSave, DeleteRead,
       DeleteRow, StopRead, StopMark, StopLookup, StopDocker, StopUnregister,
       StopAgain, StopOrphan, StopFinal
<1>d. /\ container' \in
           [Jobs -> {"absent", "created", "running", "exited", "gone"}]
      /\ exitCode' \in [Jobs -> {"none", "ok", "bad"}]
  <2>1. CASE UNCHANGED daemonVars BY <2>1 DEF TypeOK
  <2>2. CASE Exit(J)
    <3>1. PICK code \in {"ok", "bad"} : exitCode' = [exitCode EXCEPT ![J] = code]
      BY <2>2 DEF Exit, ExitCodes
    <3> QED BY <2>2, <3>1, <1>j DEF Exit, ExitCodes, TypeOK
  <2> QED
    BY <2>1, <2>2 DEF ContainerStop, ReqStep, UpdateRead, UpdateSave, DeleteRead,
       DeleteRow, StopRead, StopMark, StopLookup, StopDocker, StopUnregister,
       StopAgain, StopOrphan, StopFinal
<1>e. /\ registry' \subseteq Jobs /\ cancelled' \subseteq Jobs
      /\ UNCHANGED <<starter, mu, execMon, jobMon>>
  BY <1>j DEF TypeOK, ReqStep, UpdateRead, UpdateSave, DeleteRead, DeleteRow,
     StopRead, StopMark, StopLookup, StopDocker, StopUnregister, StopAgain,
     StopOrphan, StopFinal
<1> QED BY <1>r, <1>s, <1>w, <1>d, <1>e DEF TypeOK

\* A new request is typed.
LEMMA CallTypeOK ==
  ASSUME TypeOK, NEW c \in Clients, NEW op \in Ops, NEW j \in Jobs,
         Call(c, op, j)
  PROVE  TypeOK'
<1>1. [NoReq EXCEPT !.pc = IF op = "stop" THEN "stopRead" ELSE "read",
                    !.op = op, !.job = j] \in Request
  BY DEF NoReq, Request, ReqPC
<1>2. req' \in [Clients -> Request]
  BY <1>1 DEF Call, TypeOK
<1> QED BY <1>2 DEF Call, TypeOK, NoReq, executorVars, daemonVars

\* A request whose client went away is typed.
LEMMA DisconnectTypeOK ==
  ASSUME TypeOK, NEW c \in Clients, Disconnect(c)
  PROVE  TypeOK'
<1>1. [req[c] EXCEPT !.live = FALSE] \in Request
  BY DEF TypeOK, Request
<1>2. req' \in [Clients -> Request]
  BY <1>1 DEF Disconnect, TypeOK
<1>3. \A d \in Clients : req'[d].pc = req[d].pc /\ req'[d].job = req[d].job
  BY DEF Disconnect, TypeOK, Request
<1> QED BY <1>2, <1>3 DEF Disconnect, TypeOK, executorVars, daemonVars

\* The death of the process keeps the types.
LEMMA ProcessDiesTypeOK ==
  ASSUME TypeOK, ProcessDies
  PROVE  TypeOK'
<1>1. starter' \in [Jobs -> StarterPC] /\ execMon' \in [Jobs -> ExecMonPC]
  BY DEF TypeOK, ProcessDies, StarterPC, ExecMonPC
<1>2. jobMon' \in [Jobs -> JobMonitor]
  <2>1. NoMon \in JobMonitor /\ [NoMon EXCEPT !.pc = "done"] \in JobMonitor
    BY DEF NoMon, JobMonitor, JobMonPC
  <2> QED BY <2>1 DEF ProcessDies
<1>3. req' \in [Clients -> Request] /\ \A c \in Clients : req'[c].pc = "idle"
  BY NoReqType DEF ProcessDies, NoReq
<1> QED BY <1>1, <1>2, <1>3 DEF TypeOK, ProcessDies, daemonVars

\* TypeOK is inductive.
LEMMA NextTypeOK == TypeOK /\ [Next]_vars => TypeOK'
<1> SUFFICES ASSUME TypeOK, [Next]_vars PROVE TypeOK'
  OBVIOUS
<1>1. CASE UNCHANGED vars
  BY <1>1 DEF vars, TypeOK
<1>2. ASSUME NEW j \in Jobs, CreateJob(j) PROVE TypeOK'
  BY <1>2 DEF CreateJob, StarterTo, TypeOK, StarterPC, Status, executorVars,
     daemonVars
<1>3. ASSUME NEW j \in Jobs, ContainerExit(j) \/ AutoRemove(j) PROVE TypeOK'
  BY <1>3 DEF ContainerExit, AutoRemove, Exit, ExitCodes, TypeOK, serviceVars,
     executorVars
<1>4. CASE Crash \/ \E j \in Jobs : StartPanic(j)
  BY <1>4, ProcessDiesTypeOK DEF Crash, StartPanic
<1>5. ASSUME NEW j \in Jobs, StarterStep(j) \/ ExecStep(j) PROVE TypeOK'
  BY <1>5, StarterTypeOK, ExecTypeOK
<1>6. ASSUME NEW j \in Jobs, MonStep(j) \/ MonDeadline(j) PROVE TypeOK'
  BY <1>6, MonTypeOK
<1>7. ASSUME NEW c \in Clients,
             (\E op \in Ops, j \in Jobs : Call(c, op, j)) \/ ReqStep(c)
               \/ Disconnect(c)
      PROVE  TypeOK'
  <2>1. CASE \E op \in Ops, j \in Jobs : Call(c, op, j)
    BY <2>1, CallTypeOK
  <2>2. CASE Disconnect(c)
    BY <2>2, DisconnectTypeOK
  <2> QED BY <1>7, <2>1, <2>2, ReqTypeOK
<1>8. ASSUME NEW j \in Jobs, JobStep(j) PROVE TypeOK'
  BY <1>8, <1>2, <1>3, <1>4, <1>5, <1>6 DEF JobStep
<1>9. ASSUME NEW c \in Clients, ClientStep(c) PROVE TypeOK'
  BY <1>9, <1>7 DEF ClientStep
<1> QED BY <1>1, <1>4, <1>8, <1>9 DEF Next

(* Every reachable state is well typed: no step writes a status, program
   counter or job that its variable cannot hold.                             *)
THEOREM TypeCorrect == Spec => []TypeOK
BY InitTypeOK, NextTypeOK, PTL DEF Spec

-----------------------------------------------------------------------------
(* CompletedMeansExitedZero.  The row is written by the completion monitor from
   a verdict it formed earlier, and by UpdateJob from a status it read earlier;
   the invariant follows both through, and needs that an exit code, once there,
   never changes: a container that ended is not started again.               *)

\* How far Start has come bounds what the daemon has of the job.
ContainerOrder ==
  \A j \in Jobs :
    /\ starter[j] \in {"idle", "sleep", "mark", "lock", "create"} =>
         container[j] = "absent"
    /\ starter[j] = "launch" => container[j] = "created"
    /\ exitCode[j] # "none" => container[j] \in {"exited", "gone"}

\* Every "completed" in flight belongs to a container that exited with 0.
CompletedInFlight ==
  /\ \A j \in Jobs : jobMon[j].verdict = "completed" => exitCode[j] = "ok"
  /\ \A c \in Clients :
       req[c].seen = "completed" =>
         req[c].job \in Jobs /\ exitCode[req[c].job] = "ok"

OutcomeInv ==
  /\ TypeOK
  /\ ContainerOrder
  /\ CompletedInFlight
  /\ CompletedMeansExitedZero

\* At the start there is no container, no exit code and no verdict.
LEMMA InitOutcome == Init => OutcomeInv
<1>1. Init => ContainerOrder /\ CompletedInFlight /\ CompletedMeansExitedZero
  BY DEF Init, ContainerOrder, CompletedInFlight, CompletedMeansExitedZero,
         NoMon, NoReq
<1> QED BY <1>1, InitTypeOK DEF OutcomeInv

\* The exit of a container changes one exit code, from none.
LEMMA ExitOrder ==
  ASSUME TypeOK, ContainerOrder, NEW j \in Jobs, Exit(j), UNCHANGED starter
  PROVE  /\ ContainerOrder'
         /\ \A i \in Jobs : exitCode[i] # "none" => exitCode'[i] = exitCode[i]
<1>1. PICK code \in {"ok", "bad"} : exitCode' = [exitCode EXCEPT ![j] = code]
  BY DEF Exit, ExitCodes
<1>2. container[j] = "running" /\ container' = [container EXCEPT ![j] = "exited"]
  BY DEF Exit, ExitCodes
<1> QED BY <1>1, <1>2 DEF ContainerOrder, TypeOK

\* No step takes a container back, and none changes an exit code.
LEMMA StepOrder ==
  ASSUME TypeOK, ContainerOrder, [Next]_vars
  PROVE  /\ ContainerOrder'
         /\ \A i \in Jobs : exitCode[i] # "none" => exitCode'[i] = exitCode[i]
<1> DEFINE Goal ==
      /\ ContainerOrder'
      /\ \A i \in Jobs : exitCode[i] # "none" => exitCode'[i] = exitCode[i]
<1> SUFFICES Goal OBVIOUS
<1>1. CASE UNCHANGED <<starter, container, exitCode>>
  BY <1>1 DEF ContainerOrder
<1>2. ASSUME NEW j \in Jobs, Exit(j), UNCHANGED starter PROVE Goal
  BY <1>2, ExitOrder
<1>3. ASSUME NEW j \in Jobs, CreateJob(j) \/ StarterStep(j) PROVE Goal
  <2> USE DEF ContainerOrder, TypeOK, StarterTo, daemonVars
  <2>1. CASE CreateJob(j)     BY <2>1 DEF CreateJob
  <2>2. CASE StartFetch(j)    BY <2>2 DEF StartFetch
  <2>3. CASE StartMark(j)     BY <2>3 DEF StartMark
  <2>4. CASE StartLock(j)     BY <2>4 DEF StartLock
  <2>5. CASE StartCreate(j)   BY <2>5 DEF StartCreate
  <2>6. CASE StartLaunch(j)   BY <2>6 DEF StartLaunch
  <2>7. CASE StartRegister(j) BY <2>7 DEF StartRegister
  <2>8. CASE StartFailed(j)   BY <2>8 DEF StartFailed
  <2> QED BY <1>3, <2>1, <2>2, <2>3, <2>4, <2>5, <2>6, <2>7, <2>8
          DEF StarterStep
<1>4. CASE ProcessDies
  BY <1>4 DEF ProcessDies, ContainerOrder, TypeOK, daemonVars, StarterPC
<1>5. ASSUME NEW j \in Jobs, ExecStep(j) PROVE Goal
  BY <1>5, <1>1, <1>2 DEF ExecStep, ExecWait, ExecExited, ExecCancelled,
     ExecUnregister, ExecStop, ContainerStop, daemonVars
<1>6. ASSUME NEW j \in Jobs, MonStep(j) \/ MonDeadline(j) PROVE Goal
  BY <1>6, <1>1 DEF MonStep, MonDeadline, MonTick, MonLookup1, MonInspect1,
     MonLookup2, MonInspect2, MonWrite, daemonVars
<1>7. ASSUME NEW j \in Jobs, ContainerExit(j) PROVE Goal
  BY <1>7, <1>2 DEF ContainerExit, serviceVars
<1>8. ASSUME NEW j \in Jobs, AutoRemove(j) PROVE Goal
  BY <1>8 DEF AutoRemove, serviceVars, ContainerOrder, TypeOK
<1>9. ASSUME NEW c \in Clients, ReqStep(c) PROVE Goal
  <2>1. req[c].pc # "idle" => req[c].job \in Jobs
    BY DEF TypeOK
  <2>2. \/ UNCHANGED <<starter, container, exitCode>>
        \/ req[c].job \in Jobs /\ Exit(req[c].job) /\ UNCHANGED starter
    BY <1>9, <2>1 DEF ReqStep, UpdateRead, UpdateSave, DeleteRead, DeleteRow,
       StopRead, StopMark, StopLookup, StopDocker, StopUnregister, StopAgain,
       StopOrphan, StopFinal, ContainerStop, daemonVars
  <2> QED BY <2>2, <1>1, <1>2
<1>10. ASSUME NEW c \in Clients, Disconnect(c) \/
              \E op \in Ops, j \in Jobs : Call(c, op, j)
       PROVE  Goal
  BY <1>10, <1>1 DEF Disconnect, Call, daemonVars
<1>11. ASSUME NEW j \in Jobs, JobStep(j) PROVE Goal
  BY <1>11, <1>3, <1>4, <1>5, <1>6, <1>7, <1>8 DEF JobStep, StartPanic
<1>12. ASSUME NEW c \in Clients, ClientStep(c) PROVE Goal
  BY <1>12, <1>9, <1>10 DEF ClientStep
<1> QED BY <1>1, <1>4, <1>11, <1>12 DEF Next, Crash, vars

\* InspectStatus says completed only of exit code 0, MonWrite repeats the
\* verdict, UpdateSave what was read; every other write is another status.
LEMMA StepOutcome ==
  ASSUME OutcomeInv, [Next]_vars
  PROVE  CompletedInFlight' /\ CompletedMeansExitedZero'
<1> DEFINE Goal == CompletedInFlight' /\ CompletedMeansExitedZero'
<1> SUFFICES Goal OBVIOUS
<1> USE DEF OutcomeInv
<1>k. \A i \in Jobs : exitCode[i] = "ok" => exitCode'[i] = "ok"
  BY StepOrder
<1>r. ASSUME NEW i \in Jobs, row[i] = "completed" PROVE exitCode'[i] = "ok"
  BY <1>r, <1>k DEF CompletedMeansExitedZero
<1>v. ASSUME NEW i \in Jobs, jobMon[i].verdict = "completed"
      PROVE  exitCode'[i] = "ok"
  BY <1>v, <1>k DEF CompletedInFlight
<1>q. ASSUME NEW c \in Clients, req[c].seen = "completed"
      PROVE  req[c].job \in Jobs /\ exitCode'[req[c].job] = "ok"
  BY <1>q, <1>k DEF CompletedInFlight
<1>w. ASSUME NEW j, NEW s, s # "completed", UpdateStatus(j, s), NEW i \in Jobs,
             row'[i] = "completed"
      PROVE  row[i] = "completed"
  BY <1>w DEF UpdateStatus, TypeOK
<1> USE DEF CompletedInFlight, CompletedMeansExitedZero
<1>1. CASE UNCHANGED <<row, jobMon, req>>
  BY <1>1, <1>r, <1>v, <1>q
<1>2. ASSUME NEW j \in Jobs, StarterStep(j) \/ CreateJob(j) PROVE Goal
  <2>1. \A i \in Jobs : row'[i] = "completed" => row[i] = "completed"
    BY <1>2, <1>w DEF StarterStep, CreateJob, StartFetch, StartMark, StartLock,
       StartCreate, StartLaunch, StartRegister, StartFailed, TypeOK
  <2>2. \A i \in Jobs : jobMon'[i].verdict = jobMon[i].verdict
    BY <1>2 DEF StarterStep, CreateJob, StartFetch, StartMark, StartLock,
       StartCreate, StartLaunch, StartRegister, StartFailed, TypeOK, JobMonitor
  <2>3. UNCHANGED req
    BY <1>2 DEF StarterStep, CreateJob, StartFetch, StartMark, StartLock,
       StartCreate, StartLaunch, StartRegister, StartFailed
  <2> QED BY <2>1, <2>2, <2>3, <1>r, <1>v, <1>q
<1>3. CASE ProcessDies
  BY <1>3, <1>r DEF ProcessDies, NoMon, NoReq
<1>4. ASSUME NEW j \in Jobs, ExecStep(j) \/ ContainerExit(j) \/ AutoRemove(j)
      PROVE  Goal
  BY <1>4, <1>1 DEF ExecStep, ExecWait, ExecExited, ExecCancelled,
     ExecUnregister, ExecStop, ContainerExit, AutoRemove, serviceVars
<1>5. ASSUME NEW j \in Jobs, MonStep(j) \/ MonDeadline(j) PROVE Goal
  <2>1. UNCHANGED req
    BY <1>5 DEF MonStep, MonDeadline, MonTick, MonLookup1, MonInspect1,
       MonLookup2, MonInspect2, MonWrite
  <2>2. ASSUME NEW i \in Jobs, jobMon'[i].verdict = "completed"
        PROVE  exitCode'[i] = "ok"
    <3>1. CASE MonInspect2(j)
      <4>1. PICK s \in {FinalStatus(InspectStatus(j)), "failed"} :
              jobMon' = [jobMon EXCEPT ![j].pc = "write", ![j].verdict = s]
        BY <3>1 DEF MonInspect2
      <4>2. i # j => jobMon'[i] = jobMon[i]
        BY <4>1 DEF TypeOK
      <4>3. i = j => jobMon'[i].verdict = s
        BY <4>1 DEF TypeOK, JobMonitor
      <4>4. s = "completed" => exitCode[j] = "ok"
        BY DEF FinalStatus, InspectStatus
      <4> QED BY <2>2, <4>2, <4>3, <4>4, <1>v, <1>k
    <3>2. CASE ~MonInspect2(j)
      <4>1. jobMon[i].verdict = "completed"
        BY <1>5, <2>2, <3>2 DEF MonStep, MonDeadline, MonTick, MonLookup1,
           MonInspect1, MonLookup2, MonWrite, JobMonTo, NoMon, TypeOK, JobMonitor
      <4> QED BY <4>1, <1>v
    <3> QED BY <3>1, <3>2
  <2>3. ASSUME NEW i \in Jobs, row'[i] = "completed" PROVE exitCode'[i] = "ok"
    <3>1. CASE UNCHANGED row BY <3>1, <2>3, <1>r
    <3>2. CASE UpdateStatus(j, jobMon[j].verdict)
      BY <3>2, <2>3, <1>r, <1>v DEF UpdateStatus, TypeOK
    <3> QED BY <1>5, <3>1, <3>2 DEF MonStep, MonDeadline, MonTick, MonLookup1,
            MonInspect1, MonLookup2, MonInspect2, MonWrite
  <2> QED BY <2>1, <2>2, <2>3, <1>q
<1>6. ASSUME NEW c \in Clients, ReqStep(c) PROVE Goal
  <2> DEFINE J == req[c].job
  <2>1. UNCHANGED jobMon /\ J \in Jobs
    BY <1>6 DEF TypeOK, ReqStep, UpdateRead, UpdateSave, DeleteRead, DeleteRow,
       StopRead, StopMark, StopLookup, StopDocker, StopUnregister, StopAgain,
       StopOrphan, StopFinal
  <2>2. ASSUME NEW d \in Clients, req'[d].seen = "completed"
        PROVE  req'[d].job \in Jobs /\ exitCode'[req'[d].job] = "ok"
    <3>1. CASE UpdateRead(c) /\ ~Return(c) /\ d = c
      <4>1. req' = [req EXCEPT ![c].pc = "save", ![c].seen = row[J]]
        BY <3>1 DEF UpdateRead
      <4>2. req'[c].seen = row[J] /\ req'[c].job = J
        BY <4>1 DEF TypeOK, Request
      <4> QED BY <3>1, <4>2, <2>1, <2>2, <1>r
    <3>2. CASE ~(UpdateRead(c) /\ ~Return(c) /\ d = c)
      <4>1. \/ req'[d].seen = req[d].seen /\ req'[d].job = req[d].job
            \/ req'[d] = NoReq
        <5>1. CASE d # c
          <6>1. req \in [Clients -> Request] BY DEF TypeOK
          <6>2. CASE Return(c) BY <5>1, <6>1, <6>2 DEF Return
          <6>3. CASE \E pc \in ReqPC : ReqTo(c, pc)
            BY <5>1, <6>1, <6>3 DEF ReqTo
          <6>4. CASE UpdateRead(c)
            BY <5>1, <6>1, <6>2, <6>4 DEF UpdateRead
          <6> QED BY <1>6, <6>1, <6>2, <6>3, <6>4, ReqStepReq
        <5>2. CASE d = c
          BY <1>6, <3>2, <5>2, ReqStepReq DEF TypeOK, Return, ReqTo, Request
        <5> QED BY <5>1, <5>2
      <4> QED BY <2>2, <4>1, <1>q DEF NoReq
    <3> QED BY <3>1, <3>2
  <2>3. ASSUME NEW i \in Jobs, row'[i] = "completed" PROVE exitCode'[i] = "ok"
    <3>1. CASE UNCHANGED row BY <3>1, <2>3, <1>r
    <3>2. CASE row' = [row EXCEPT ![J] = req[c].seen]
      BY <3>2, <2>3, <1>r, <1>q DEF TypeOK
    <3>3. CASE row' = [row EXCEPT ![J] = "none"]
      BY <3>3, <2>3, <1>r DEF TypeOK
    <3>4. CASE UpdateStatus(J, "stopping") \/ UpdateStatus(J, "cancelled")
      BY <3>4, <2>3, <1>r, <1>w
    <3> QED
      BY <1>6, <3>1, <3>2, <3>3, <3>4 DEF ReqStep, UpdateRead, UpdateSave,
         DeleteRead, DeleteRow, StopRead, StopMark, StopLookup, StopDocker,
         StopUnregister, StopAgain, StopOrphan, StopFinal
  <2> QED BY <2>1, <2>2, <2>3, <1>v
<1>7. ASSUME NEW c \in Clients, NEW op \in Ops, NEW j \in Jobs, Call(c, op, j)
      PROVE  Goal
  <2>1. \A d \in Clients : req'[d] = req[d] \/ req'[d].seen = "none"
    BY <1>7 DEF Call, TypeOK, NoReq
  <2> QED BY <1>7, <2>1, <1>r, <1>v, <1>q DEF Call
<1>8. ASSUME NEW c \in Clients, Disconnect(c) PROVE Goal
  <2>1. \A d \in Clients : req'[d].seen = req[d].seen /\ req'[d].job = req[d].job
    BY <1>8 DEF Disconnect, TypeOK, Request
  <2> QED BY <1>8, <2>1, <1>r, <1>v, <1>q DEF Disconnect
<1>9. ASSUME NEW j \in Jobs, JobStep(j) PROVE Goal
  BY <1>9, <1>2, <1>3, <1>4, <1>5 DEF JobStep, StartPanic
<1>10. ASSUME NEW c \in Clients, ClientStep(c) PROVE Goal
  BY <1>10, <1>6, <1>7, <1>8 DEF ClientStep
<1> QED BY <1>1, <1>3, <1>9, <1>10 DEF Next, Crash, vars

(* No row says completed of a job whose container did not exit with 0: for any
   number of jobs and requests, and whatever fails.                          *)
THEOREM CompletedIsTrue == Spec => []CompletedMeansExitedZero
<1>1. OutcomeInv /\ [Next]_vars => OutcomeInv'
  BY NextTypeOK, StepOrder, StepOutcome DEF OutcomeInv
<1>2. OutcomeInv => CompletedMeansExitedZero
  BY DEF OutcomeInv
<1> QED BY <1>1, <1>2, InitOutcome, PTL DEF Spec

-----------------------------------------------------------------------------
(* MutexHeldByStarter is inductive, given the types.                         *)

\* Every step that takes or releases e.mu moves its starter with it.
LEMMA StepMutex ==
  ASSUME TypeOK, MutexHeldByStarter, [Next]_vars
  PROVE  MutexHeldByStarter'
<1> USE DEF MutexHeldByStarter, TypeOK, Locked
<1>1. CASE UNCHANGED <<starter, mu>> BY <1>1
<1>2. ASSUME NEW j \in Jobs, StarterStep(j) \/ CreateJob(j)
      PROVE  MutexHeldByStarter'
  <2> USE ConstantsAssumption DEF StarterTo, executorVars
  <2>1. CASE CreateJob(j)     BY <2>1 DEF CreateJob
  <2>2. CASE StartFetch(j)    BY <2>2 DEF StartFetch
  <2>3. CASE StartMark(j)     BY <2>3 DEF StartMark
  <2>4. CASE StartLock(j)     BY <2>4 DEF StartLock
  <2>5. CASE StartCreate(j)   BY <2>5 DEF StartCreate
  <2>6. CASE StartLaunch(j)   BY <2>6 DEF StartLaunch
  <2>7. CASE StartRegister(j) BY <2>7 DEF StartRegister
  <2>8. CASE StartFailed(j)   BY <2>8 DEF StartFailed
  <2> QED BY <1>2, <2>1, <2>2, <2>3, <2>4, <2>5, <2>6, <2>7, <2>8
          DEF StarterStep
<1>3. CASE ProcessDies
  BY <1>3, ConstantsAssumption DEF ProcessDies
<1>4. ASSUME NEW j \in Jobs, JobStep(j) PROVE MutexHeldByStarter'
  BY <1>4, <1>1, <1>2, <1>3 DEF JobStep, StartPanic, ExecStep, ExecWait,
     ExecExited, ExecCancelled, ExecUnregister, ExecStop, MonStep, MonDeadline,
     MonTick, MonLookup1, MonInspect1, MonLookup2, MonInspect2, MonWrite,
     ContainerExit, AutoRemove, serviceVars, executorVars
<1>5. ASSUME NEW c \in Clients, ClientStep(c) PROVE MutexHeldByStarter'
  BY <1>5, <1>1 DEF ClientStep, Call, Disconnect, ReqStep, UpdateRead,
     UpdateSave, DeleteRead, DeleteRow, StopRead, StopMark, StopLookup,
     StopDocker, StopUnregister, StopAgain, StopOrphan, StopFinal, executorVars
<1> QED BY <1>1, <1>3, <1>4, <1>5 DEF Next, Crash, vars

(* e.mu is locked exactly while one job is in Start: mutual exclusion of the
   image pulls and no path out of Start that forgets the unlock.             *)
THEOREM MutexCorrect == Spec => []MutexHeldByStarter
<1>1. Init => MutexHeldByStarter
  BY ConstantsAssumption DEF Init, MutexHeldByStarter, Locked
<1>2. TypeOK /\ MutexHeldByStarter /\ [Next]_vars => MutexHeldByStarter'
  BY StepMutex
<1> QED BY <1>1, <1>2, TypeCorrect, PTL DEF Spec

-----------------------------------------------------------------------------
(* RegistryOwned.  monitorContainer may end without cleaning up, but only when
   the job's context was cancelled; the Stop that did this is then still on its
   way to the clean-up, unless the entry is gone.                            *)

CancelOwned ==
  /\ \A j \in registry \cup cancelled : starter[j] = "done"
  /\ \A j \in registry \cap cancelled : \E c \in Clients : Stopping(c, j)

RegistryInv == TypeOK /\ RegistryOwned /\ CancelOwned

\* The step of a request leaves the others where they are.
LEMMA OthersKept ==
  ASSUME TypeOK, NEW c \in Clients, ReqStep(c), NEW d \in Clients, d # c
  PROVE  req'[d] = req[d]
<1>1. req \in [Clients -> Request]
  BY DEF TypeOK
<1>2. CASE Return(c)
  BY <1>1, <1>2 DEF Return
<1>3. CASE \E pc \in ReqPC : ReqTo(c, pc)
  BY <1>1, <1>3 DEF ReqTo
<1>4. CASE UpdateRead(c)
  BY <1>1, <1>2, <1>4 DEF UpdateRead
<1> QED BY <1>1, <1>2, <1>3, <1>4, ReqStepReq

\* The requests that are stopping job i go on doing so.
LEMMA StoppingKept ==
  ASSUME TypeOK, NEW c \in Clients, ReqStep(c), NEW i \in registry',
         \E d \in Clients : Stopping(d, i)
  PROVE  \E d \in Clients : Stopping(d, i)'
<1>1. PICK d \in Clients : Stopping(d, i)
  OBVIOUS
<1> USE DEF TypeOK, Stopping
<1>2. CASE d # c
  BY <1>1, <1>2, OthersKept
<1>3. CASE d = c
  <2>1. CASE StopDocker(c)
    BY <1>1, <1>3, <2>1 DEF StopDocker, ReqTo, Request
  <2>2. CASE StopUnregister(c)
    BY <1>1, <1>3, <2>2 DEF StopUnregister
  <2> QED
    BY <1>1, <1>3, <2>1, <2>2 DEF ReqStep, UpdateRead, UpdateSave, DeleteRead,
       DeleteRow, StopRead, StopMark, StopLookup, StopAgain, StopOrphan,
       StopFinal
<1> QED BY <1>2, <1>3

\* The registry invariant is inductive.
LEMMA StepRegistry ==
  ASSUME RegistryInv, [Next]_vars
  PROVE  RegistryOwned' /\ CancelOwned'
<1> DEFINE Goal == RegistryOwned' /\ CancelOwned'
<1> SUFFICES Goal OBVIOUS
<1> USE DEF RegistryInv
<1>1. CASE UNCHANGED <<starter, registry, cancelled, execMon, req>>
  BY <1>1 DEF RegistryOwned, CancelOwned, Stopping
<1>2. ASSUME NEW j \in Jobs, CreateJob(j) PROVE Goal
  <2>1. CASE j \in registry \cup cancelled
    BY <1>2, <2>1 DEF CreateJob, CancelOwned
  <2> QED BY <1>2, <2>1 DEF CreateJob, StarterTo, RegistryOwned, CancelOwned,
          Stopping, TypeOK, executorVars
<1>3. ASSUME NEW j \in Jobs, StarterStep(j) PROVE Goal
  <2>1. j \notin registry \cup cancelled
    BY <1>3 DEF CancelOwned, StarterStep, StartFetch, StartMark, StartLock,
       StartCreate, StartLaunch, StartRegister, StartFailed
  <2>2. UNCHANGED <<cancelled, req>>
          /\ \A i \in Jobs \ {j} : starter'[i] = starter[i]
    BY <1>3 DEF StarterStep, StartFetch, StartMark, StartLock, StartCreate,
       StartLaunch, StartRegister, StartFailed, StarterTo, TypeOK, executorVars
  <2>3. CASE StartRegister(j)
    BY <2>1, <2>2, <2>3 DEF StartRegister, StarterTo, RegistryOwned,
       CancelOwned, Stopping, TypeOK
  <2>4. CASE ~StartRegister(j)
    <3>1. UNCHANGED <<registry, execMon>>
      BY <1>3, <2>4 DEF StarterStep, StartFetch, StartMark, StartLock,
         StartCreate, StartLaunch, StartFailed, executorVars
    <3> QED BY <2>1, <2>2, <3>1 DEF RegistryOwned, CancelOwned, Stopping, TypeOK
  <2> QED BY <2>3, <2>4
<1>4. CASE ProcessDies
  BY <1>4 DEF ProcessDies, RegistryOwned, CancelOwned, TypeOK, StarterPC
<1>5. ASSUME NEW j \in Jobs, ExecStep(j) PROVE Goal
  <2>1. UNCHANGED <<starter, cancelled, req>> /\ registry' \subseteq registry
    BY <1>5 DEF ExecStep, ExecWait, ExecExited, ExecCancelled, ExecUnregister,
       ExecStop, executorVars
  <2>2. CancelOwned'
    BY <2>1 DEF CancelOwned, Stopping
  <2>3. \A i \in Jobs \ {j} : execMon'[i] = execMon[i]
    BY <1>5 DEF ExecStep, ExecWait, ExecExited, ExecCancelled, ExecUnregister,
       ExecStop, ExecMonTo, TypeOK
  <2>4. j \in registry' =>
          \/ execMon'[j] \in {"begin", "waiting", "unregister"}
          \/ \E c \in Clients : Stopping(c, j)
    <3>1. CASE ExecWait(j) \/ ExecExited(j)
      BY <3>1 DEF ExecWait, ExecExited, ExecMonTo, TypeOK
    <3>2. CASE ExecCancelled(j)
      BY <2>1, <3>2 DEF ExecCancelled, CancelOwned
    <3>3. CASE ExecUnregister(j) BY <3>3 DEF ExecUnregister
    <3>4. CASE ExecStop(j)
      BY <2>1, <3>4 DEF ExecStop, RegistryOwned
    <3> QED BY <1>5, <3>1, <3>2, <3>3, <3>4 DEF ExecStep
  <2>5. RegistryOwned'
    BY <2>1, <2>3, <2>4 DEF RegistryOwned, Stopping, TypeOK
  <2> QED BY <2>2, <2>5
<1>6. ASSUME NEW j \in Jobs, MonStep(j) \/ MonDeadline(j) \/ ContainerExit(j)
               \/ AutoRemove(j)
      PROVE  Goal
  BY <1>6, <1>1 DEF MonStep, MonDeadline, MonTick, MonLookup1, MonInspect1,
     MonLookup2, MonInspect2, MonWrite, ContainerExit, AutoRemove, serviceVars,
     executorVars
<1>7. ASSUME NEW c \in Clients, ReqStep(c) PROVE Goal
  <2>1. UNCHANGED <<starter, execMon>> /\ registry' \subseteq registry
    BY <1>7 DEF ReqStep, UpdateRead, UpdateSave, DeleteRead, DeleteRow, StopRead,
       StopMark, StopLookup, StopDocker, StopUnregister, StopAgain, StopOrphan,
       StopFinal, executorVars
  <2>2. RegistryOwned'
    BY <1>7, <2>1, StoppingKept DEF RegistryOwned
  <2>3. CASE StopLookup(c) /\ req[c].job \in registry
    <3>1. cancelled' = cancelled \cup {req[c].job} /\ UNCHANGED registry
      BY <2>3 DEF StopLookup
    <3>2. ASSUME NEW k, k = req[c].job PROVE Stopping(c, k)'
      BY <2>3, <3>2 DEF StopLookup, ReqTo, Stopping, TypeOK, Request
    <3>3. \A i \in registry' \cup cancelled' : starter'[i] = "done"
      BY <2>1, <2>3, <3>1 DEF CancelOwned
    <3>4. ASSUME NEW i \in registry' \cap cancelled'
          PROVE  \E d \in Clients : Stopping(d, i)'
      <4>1. CASE i = req[c].job BY <3>2, <4>1
      <4>2. CASE i # req[c].job
        <5>1. i \in registry \cap cancelled BY <3>1, <4>2
        <5> QED BY <1>7, <5>1, StoppingKept DEF CancelOwned
      <4> QED BY <4>1, <4>2
    <3> QED BY <2>2, <3>3, <3>4 DEF CancelOwned
  <2>4. CASE ~(StopLookup(c) /\ req[c].job \in registry)
    <3>1. UNCHANGED cancelled
      BY <1>7, <2>4 DEF ReqStep, UpdateRead, UpdateSave, DeleteRead, DeleteRow,
         StopRead, StopMark, StopLookup, StopDocker, StopUnregister, StopAgain,
         StopOrphan, StopFinal, executorVars
    <3> QED BY <1>7, <2>1, <2>2, <3>1, StoppingKept DEF CancelOwned
  <2> QED BY <2>3, <2>4
<1>8. ASSUME NEW c \in Clients, NEW op \in Ops, NEW j \in Jobs, Call(c, op, j)
      PROVE  Goal
  <2>1. \A d \in Clients, i \in Jobs : Stopping(d, i) => Stopping(d, i)'
    BY <1>8 DEF Call, Stopping, TypeOK
  <2> QED BY <1>8, <2>1 DEF Call, RegistryOwned, CancelOwned, TypeOK,
          executorVars
<1>9. ASSUME NEW c \in Clients, Disconnect(c) PROVE Goal
  <2>1. \A d \in Clients, i \in Jobs : Stopping(d, i) => Stopping(d, i)'
    BY <1>9 DEF Disconnect, Stopping, TypeOK, Request
  <2> QED BY <1>9, <2>1 DEF Disconnect, RegistryOwned, CancelOwned, TypeOK,
          executorVars
<1>10. ASSUME NEW j \in Jobs, JobStep(j) PROVE Goal
  BY <1>10, <1>2, <1>3, <1>4, <1>5, <1>6 DEF JobStep, StartPanic
<1>11. ASSUME NEW c \in Clients, ClientStep(c) PROVE Goal
  BY <1>11, <1>7, <1>8, <1>9 DEF ClientStep
<1> QED BY <1>1, <1>4, <1>10, <1>11 DEF Next, Crash, vars

(* Whatever fails, every entry of DockerExecutor.jobs has a goroutine that is
   going to delete it.                                                       *)
THEOREM RegistryHasOwners == Spec => []RegistryOwned
<1>1. Init => RegistryInv
  BY InitTypeOK DEF Init, RegistryInv, RegistryOwned, CancelOwned
<1>2. RegistryInv /\ [Next]_vars => RegistryInv'
  BY NextTypeOK, StepRegistry DEF RegistryInv
<1>3. RegistryInv => RegistryOwned
  BY DEF RegistryInv
<1> QED BY <1>1, <1>2, <1>3, PTL DEF Spec

-----------------------------------------------------------------------------
(* ContainerSupervised, while the daemon answers and the process lives.  The
   queries, the contexts and the clients may still fail.  A monitor may only
   leave a running container when somebody cancelled the job, and a Stop that
   did so does not return before it stopped the container.                    *)

DaemonReliable == Faults \cap {"crash", "docker", "fastexit"} = {}

Halting(c, j) ==
  req[c].job = j /\ req[c].pc \in {"stopDocker", "stopUnregister", "stopAgain"}

\* A job is known to the executor, and watched, only when Start has returned.
KnownWhenStarted ==
  \A j \in Jobs :
    j \in registry \cup cancelled \/ execMon[j] # "none" => starter[j] = "done"

\* The Stop that cancelled a job goes on until its container is stopped.
CancelledIsHalted ==
  \A j \in cancelled : container[j] = "running" =>
    \E c \in Clients : Halting(c, j)

InspectFinds ==
  \A j \in Jobs : starter[j] = "inspect" => container[j] # "gone"

SupervisionInv ==
  /\ TypeOK /\ ContainerOrder
  /\ KnownWhenStarted /\ CancelledIsHalted /\ InspectFinds
  /\ ContainerSupervised

\* What is to be kept of the job i.
Supervised(i) ==
  /\ i \in registry \cup cancelled \/ execMon[i] # "none" => starter[i] = "done"
  /\ i \in cancelled /\ container[i] = "running" =>
       \E c \in Clients : Halting(c, i)
  /\ starter[i] = "inspect" => container[i] # "gone"
  /\ container[i] = "running" =>
       \/ starter[i] = "inspect"
       \/ i \in registry /\ execMon[i] \in {"begin", "waiting"}
       \/ \E c \in Clients : Halting(c, i)
       \/ execMon[i] \in {"unregister", "stop"}

\* The invariant says this of every job.
LEMMA SupervisedEach ==
  TypeOK => ((KnownWhenStarted /\ CancelledIsHalted /\ InspectFinds
               /\ ContainerSupervised) <=> \A i \in Jobs : Supervised(i))
<1> SUFFICES ASSUME TypeOK
             PROVE  (KnownWhenStarted /\ CancelledIsHalted /\ InspectFinds
                      /\ ContainerSupervised) <=> \A i \in Jobs : Supervised(i)
  OBVIOUS
<1>1. cancelled \subseteq Jobs
  BY DEF TypeOK
<1> QED BY <1>1 DEF KnownWhenStarted, CancelledIsHalted, InspectFinds,
        ContainerSupervised, Supervised, Halting

\* A stop leaves the container alone, or it is not running any more.
LEMMA StopStops ==
  ASSUME TypeOK, NEW j \in Jobs, NEW mayFail \in BOOLEAN,
         ContainerStop(j, mayFail)
  PROVE  /\ container' = container
              \/ container' = [container EXCEPT ![j] = "exited"]
         /\ ~mayFail => container'[j] # "running"
BY DEF ContainerStop, Exit, ExitCodes, TypeOK, daemonVars

\* A request touches containers only to stop them.
LEMMA RequestStops ==
  ASSUME TypeOK, NEW c \in Clients, ReqStep(c), NEW i \in Jobs
  PROVE  /\ container'[i] = container[i] \/ container'[i] = "exited"
         /\ container[i] # "running" => container'[i] # "running"
         /\ container[i] # "gone" => container'[i] # "gone"
<1>1. CASE UNCHANGED container
  BY <1>1
<1>2. ASSUME ContainerStop(req[c].job, TRUE) \/ ContainerStop(req[c].job, FALSE),
             req[c].pc # "idle"
      PROVE  \/ container'[i] = container[i]
             \/ /\ container[i] = "running"
                /\ container'[i] = "exited"
  <2>1. req[c].job \in Jobs
    BY <1>2 DEF TypeOK
  <2> QED BY <1>2, <2>1 DEF ContainerStop, Exit, ExitCodes, TypeOK, daemonVars
<1>3. CASE StopDocker(c) \/ StopAgain(c) \/ StopOrphan(c)
  <2>1. req[c].pc # "idle"
    BY <1>3 DEF StopDocker, StopAgain, StopOrphan
  <2>2. ContainerStop(req[c].job, TRUE) \/ ContainerStop(req[c].job, FALSE)
    BY <1>3 DEF StopDocker, StopAgain, StopOrphan, DockerFails, ContainerStop
  <2> QED BY <1>2, <2>1, <2>2
<1> QED
  BY <1>1, <1>3 DEF ReqStep, UpdateRead, UpdateSave, DeleteRead, DeleteRow,
     StopRead, StopMark, StopLookup, StopUnregister, StopFinal, daemonVars

\* The requests that halt job i go on until its container does not run.
LEMMA HaltingKept ==
  ASSUME DaemonReliable, TypeOK, NEW c \in Clients, ReqStep(c), NEW i \in Jobs,
         container'[i] = "running", \E d \in Clients : Halting(d, i)
  PROVE  \E d \in Clients : Halting(d, i)'
<1>1. PICK d \in Clients : Halting(d, i)
  OBVIOUS
<1> USE DEF TypeOK, Halting
<1>2. CASE d # c
  BY <1>1, <1>2, OthersKept
<1>3. CASE d = c
  <2>1. CASE StopDocker(c)
    BY <1>1, <1>3, <2>1 DEF StopDocker, ReqTo, Request
  <2>2. CASE StopUnregister(c)
    BY <1>1, <1>3, <2>2 DEF StopUnregister, ReqTo, Request
  <2>3. CASE StopAgain(c)
    <3>1. ContainerStop(i, FALSE)
      BY <1>1, <1>3, <2>3 DEF StopAgain, DaemonReliable, ContainerStop
    <3> QED BY <3>1, StopStops
  <2> QED
    BY <1>1, <1>3, <2>1, <2>2, <2>3 DEF ReqStep, UpdateRead, UpdateSave,
       DeleteRead, DeleteRow, StopRead, StopMark, StopLookup, StopOrphan,
       StopFinal
<1> QED BY <1>2, <1>3

\* A step of the starter of job j: it has no monitor yet, and nobody knows it.
LEMMA StarterSupervised ==
  ASSUME DaemonReliable, SupervisionInv, NEW j \in Jobs, StarterStep(j),
         NEW i \in Jobs, Supervised(i)
  PROVE  Supervised(i)'
<1> USE DEF SupervisionInv
<1>1. UNCHANGED <<cancelled, req>>
  BY DEF StarterStep, StartFetch, StartMark, StartLock, StartCreate,
     StartLaunch, StartRegister, StartFailed, executorVars
<1>2. CASE i # j
  <2>1. UNCHANGED <<starter[i], container[i], execMon[i]>>
          /\ (i \in registry' <=> i \in registry)
    BY <1>2 DEF StarterStep, StartFetch, StartMark, StartLock, StartCreate,
       StartLaunch, StartRegister, StartFailed, StarterTo, executorVars,
       daemonVars, TypeOK
  <2> QED BY <1>1, <2>1 DEF Supervised, Halting
<1>3. CASE i = j
  <2>1. /\ starter[i] # "done" /\ i \notin registry \cup cancelled
        /\ execMon[i] = "none"
    BY <1>3 DEF Supervised, StarterStep, StartFetch, StartMark, StartLock,
       StartCreate, StartLaunch, StartRegister, StartFailed
  <2>2. CASE StartRegister(j)
    BY <1>1, <1>3, <2>1, <2>2 DEF StartRegister, StarterTo, Supervised, TypeOK,
       daemonVars
  <2>3. CASE ~StartRegister(j)
    <3>1. UNCHANGED <<registry, execMon>>
      BY <2>3 DEF StarterStep, StartFetch, StartMark, StartLock,
         StartCreate, StartLaunch, StartFailed, executorVars
    <3>2. container'[i] = "running" =>
            starter'[i] = "inspect" \/ \E c \in Clients : Halting(c, i)
      <4>1. CASE StartLaunch(j)
        BY <1>3, <4>1 DEF StartLaunch, StarterTo, ContainerOrder, TypeOK
      <4>2. CASE StartCreate(j)
        BY <1>3, <4>2 DEF StartCreate, StarterTo, ContainerOrder, TypeOK
      <4>3. CASE StartFetch(j) \/ StartMark(j) \/ StartLock(j)
        BY <1>3, <4>3 DEF StartFetch, StartMark, StartLock, ContainerOrder,
           daemonVars
      <4>4. CASE StartFailed(j)
        <5>1. starter[i] = "failing" /\ UNCHANGED container
          BY <1>3, <4>4 DEF StartFailed, daemonVars
        <5> QED BY <2>1, <5>1 DEF Supervised
      <4> QED BY <2>3, <4>1, <4>2, <4>3, <4>4 DEF StarterStep
    <3>3. starter'[i] = "inspect" => container'[i] = "running"
      BY <1>3, <2>3 DEF StarterStep, StartFetch, StartMark, StartLock,
         StartCreate, StartLaunch, StartFailed, StarterTo, TypeOK
    <3>4. \A c \in Clients : Halting(c, i)' <=> Halting(c, i)
      BY <1>1 DEF Halting
    <3> QED BY <1>1, <2>1, <3>1, <3>2, <3>3, <3>4 DEF Supervised
  <2> QED BY <2>2, <2>3
<1> QED BY <1>2, <1>3

\* A step of the exit monitor of job j, which ends by stopping the container
\* unless the job was cancelled.
LEMMA ExecSupervised ==
  ASSUME DaemonReliable, SupervisionInv, NEW j \in Jobs, ExecStep(j),
         NEW i \in Jobs, Supervised(i)
  PROVE  Supervised(i)'
<1> USE DEF SupervisionInv
<1>1. UNCHANGED <<starter, cancelled, req>>
  BY DEF ExecStep, ExecWait, ExecExited, ExecCancelled, ExecUnregister,
     ExecStop, executorVars
<1>2. \A c \in Clients : Halting(c, i)' <=> Halting(c, i)
  BY <1>1 DEF Halting
<1>3. CASE i # j
  <2>1. UNCHANGED <<container[i], execMon[i]>>
          /\ (i \in registry' <=> i \in registry)
    <3>1. execMon'[i] = execMon[i] /\ (i \in registry' <=> i \in registry)
      BY <1>3 DEF ExecStep, ExecWait, ExecExited, ExecCancelled,
         ExecUnregister, ExecStop, ExecMonTo, TypeOK, executorVars
    <3>2. CASE ExecStop(j)
      <4>1. ContainerStop(j, TRUE)
        BY <3>2 DEF ExecStop, ContainerStop
      <4>2. container' = container \/ container' = [container EXCEPT ![j] = "exited"]
        BY <4>1, StopStops
      <4> QED BY <1>3, <3>1, <4>2 DEF TypeOK
    <3>3. CASE ~ExecStop(j)
      BY <3>1, <3>3 DEF ExecStep, ExecWait, ExecExited, ExecCancelled,
         ExecUnregister, daemonVars
    <3> QED BY <3>2, <3>3
  <2> QED BY <1>1, <1>2, <2>1 DEF Supervised
<1>4. CASE i = j
  <2>1. execMon[i] # "none"
    BY <1>4 DEF ExecStep, ExecWait, ExecExited, ExecCancelled, ExecUnregister,
       ExecStop
  <2>2. starter[i] = "done"
    BY <2>1 DEF Supervised
  <2>3. CASE ExecWait(j) \/ ExecExited(j)
    <3>1. UNCHANGED <<registry, container>>
      BY <2>3 DEF ExecWait, ExecExited, executorVars, daemonVars
    <3>2. container[i] = "running" =>
            execMon[i] = "begin" /\ execMon'[i] = "waiting"
      BY <1>4, <2>3 DEF ExecWait, ExecExited, ExecMonTo, TypeOK, DaemonReliable
    <3> QED BY <1>1, <1>2, <2>2, <3>1, <3>2 DEF Supervised
  <2>4. CASE ExecCancelled(j)
    <3>1. UNCHANGED container /\ i \in cancelled
      BY <1>4, <2>4 DEF ExecCancelled, daemonVars
    <3> QED BY <1>1, <1>2, <2>2, <3>1 DEF Supervised
  <2>5. CASE ExecUnregister(j)
    <3>1. UNCHANGED container /\ execMon'[i] = "stop"
      BY <1>4, <2>5 DEF ExecUnregister, ExecMonTo, TypeOK, daemonVars
    <3> QED BY <1>1, <1>2, <2>2, <3>1 DEF Supervised
  <2>6. CASE ExecStop(j)
    <3>1. ContainerStop(j, FALSE)
      BY <2>6 DEF ExecStop, ContainerStop, DaemonReliable
    <3>2. container'[i] # "running"
      BY <1>4, <3>1, StopStops
    <3> QED BY <1>1, <2>2, <3>2 DEF Supervised
  <2> QED BY <2>3, <2>4, <2>5, <2>6 DEF ExecStep
<1> QED BY <1>3, <1>4

\* A step of a request: a Stop that takes a job out of the registry, or has its
\* monitor leave, goes on to stop the container itself.
LEMMA RequestSupervised ==
  ASSUME DaemonReliable, SupervisionInv, NEW c \in Clients, ReqStep(c),
         NEW i \in Jobs, Supervised(i)
  PROVE  Supervised(i)'
<1> USE DEF SupervisionInv
<1>1. UNCHANGED <<starter, execMon>> /\ registry' \subseteq registry
  BY DEF ReqStep, UpdateRead, UpdateSave, DeleteRead, DeleteRow, StopRead,
     StopMark, StopLookup, StopDocker, StopUnregister, StopAgain, StopOrphan,
     StopFinal, executorVars
<1>2. i \in cancelled' => i \in registry \cup cancelled
  BY DEF ReqStep, UpdateRead, UpdateSave, DeleteRead, DeleteRow, StopRead,
     StopMark, StopLookup, StopDocker, StopUnregister, StopAgain, StopOrphan,
     StopFinal, executorVars
<1>3. starter'[i] = "inspect" => container'[i] # "gone"
  BY <1>1, RequestStops DEF Supervised
<1>4. CASE container'[i] # "running"
  BY <1>1, <1>2, <1>3, <1>4 DEF Supervised
<1>5. CASE container'[i] = "running"
  <2>1. container[i] = "running"
    BY <1>5, RequestStops
  <2>2. (\E d \in Clients : Halting(d, i)) => \E d \in Clients : Halting(d, i)'
    BY <1>5, HaltingKept
  <2>3. i \in cancelled' \ cancelled => Halting(c, i)'
    <3>1. CASE StopLookup(c)
      BY <3>1 DEF StopLookup, ReqTo, Halting, TypeOK, Request
    <3>2. CASE ~StopLookup(c)
      BY <3>2 DEF ReqStep, UpdateRead, UpdateSave, DeleteRead, DeleteRow,
         StopRead, StopMark, StopDocker, StopUnregister, StopAgain, StopOrphan,
         StopFinal, executorVars
    <3> QED BY <3>1, <3>2
  <2>4. i \in registry \ registry' => Halting(c, i)
    BY DEF ReqStep, UpdateRead, UpdateSave, DeleteRead, DeleteRow,
       StopRead, StopMark, StopLookup, StopDocker, StopUnregister, StopAgain,
       StopOrphan, StopFinal, executorVars, Halting
  <2> QED BY <1>1, <1>2, <1>3, <2>1, <2>2, <2>3, <2>4 DEF Supervised
<1> QED BY <1>4, <1>5

\* What leaves the executor and the daemon's containers alone, or ends one.
LEMMA SupervisedKept ==
  ASSUME NEW i \in Jobs, Supervised(i),
         UNCHANGED <<starter, registry, cancelled, execMon>>,
         \/ container'[i] = container[i]
         \/ container'[i] = "exited"
         \/ container'[i] = "gone" /\ starter[i] # "inspect",
         \A c \in Clients : Halting(c, i) => Halting(c, i)'
  PROVE  Supervised(i)'
BY DEF Supervised

\* A step keeps what is said of job i.
LEMMA StepSupervised ==
  ASSUME DaemonReliable, SupervisionInv, [Next]_vars, NEW i \in Jobs,
         Supervised(i)
  PROVE  Supervised(i)'
<1> DEFINE Goal == Supervised(i)'
<1> SUFFICES Goal OBVIOUS
<1> USE DEF SupervisionInv
<1>1. CASE UNCHANGED <<starter, registry, cancelled, execMon, container, req>>
  <2>1. \A c \in Clients : Halting(c, i) => Halting(c, i)'
    BY <1>1 DEF Halting
  <2> QED BY <1>1, <2>1, SupervisedKept
<1>2. ASSUME NEW j \in Jobs, CreateJob(j) PROVE Goal
  <2>1. UNCHANGED <<registry, cancelled, execMon, container, req>>
    BY <1>2 DEF CreateJob, executorVars, daemonVars
  <2>2. \/ starter'[i] = starter[i]
        \/ i = j /\ starter[i] = "idle" /\ starter'[i] = "sleep"
    BY <1>2 DEF CreateJob, StarterTo, TypeOK
  <2>3. \A c \in Clients : Halting(c, i)' <=> Halting(c, i)
    BY <2>1 DEF Halting
  <2>4. starter[i] = "idle" => container[i] = "absent"
    BY DEF ContainerOrder
  <2> QED BY <2>1, <2>2, <2>3, <2>4 DEF Supervised
<1>3. ASSUME NEW j \in Jobs, StarterStep(j) PROVE Goal
  BY <1>3, StarterSupervised
<1>4. ASSUME NEW j \in Jobs, ExecStep(j) PROVE Goal
  BY <1>4, ExecSupervised
<1>5. ASSUME NEW j \in Jobs, MonStep(j) \/ MonDeadline(j) PROVE Goal
  <2>1. UNCHANGED <<starter, executorVars, execMon, daemonVars, req>>
    BY <1>5 DEF MonStep, MonDeadline, MonTick, MonLookup1, MonInspect1,
       MonLookup2, MonInspect2, MonWrite
  <2> QED BY <1>1, <2>1 DEF executorVars, daemonVars
<1>6. ASSUME NEW j \in Jobs, ContainerExit(j) \/ AutoRemove(j) PROVE Goal
  <2>1. UNCHANGED <<starter, registry, cancelled, execMon, req>>
    BY <1>6 DEF ContainerExit, AutoRemove, serviceVars, executorVars
  <2>2. \A c \in Clients : Halting(c, i) => Halting(c, i)'
    BY <2>1 DEF Halting
  <2>3. \/ container'[i] = container[i]
        \/ container'[i] = "exited"
        \/ container'[i] = "gone" /\ starter[i] # "inspect"
    BY <1>6 DEF ContainerExit, Exit, ExitCodes, AutoRemove, DaemonReliable,
       TypeOK
  <2> QED BY <2>1, <2>2, <2>3, SupervisedKept
<1>7. ASSUME NEW c \in Clients, ReqStep(c) PROVE Goal
  BY <1>7, RequestSupervised
<1>8. ASSUME NEW c \in Clients, Disconnect(c)
               \/ \E op \in Ops, j \in Jobs : Call(c, op, j)
      PROVE  Goal
  <2>1. UNCHANGED <<starter, registry, cancelled, execMon, container>>
    BY <1>8 DEF Disconnect, Call, executorVars, daemonVars
  <2>2. \A d \in Clients : Halting(d, i) => Halting(d, i)'
    <3>1. \A d \in Clients \ {c} : req'[d] = req[d]
      BY <1>8 DEF Disconnect, Call, TypeOK
    <3>2. \/ req[c].pc = "idle"
          \/ req'[c].pc = req[c].pc /\ req'[c].job = req[c].job
      BY <1>8 DEF Disconnect, Call, TypeOK, Request
    <3> QED BY <3>1, <3>2 DEF Halting
  <2> QED BY <2>1, <2>2, SupervisedKept
<1>9. ~Crash
  BY DEF Crash, DaemonReliable
<1>10. \A j \in Jobs : ~StartPanic(j)
  BY DEF StartPanic, DaemonReliable, InspectFinds
<1>11. ASSUME NEW j \in Jobs, JobStep(j) PROVE Goal
  BY <1>11, <1>2, <1>3, <1>4, <1>5, <1>6, <1>10 DEF JobStep
<1>12. ASSUME NEW c \in Clients, ClientStep(c) PROVE Goal
  BY <1>12, <1>7, <1>8 DEF ClientStep
<1> QED BY <1>1, <1>9, <1>11, <1>12 DEF Next, vars

\* The supervision invariant is inductive.
LEMMA StepSupervision ==
  ASSUME DaemonReliable, SupervisionInv, [Next]_vars
  PROVE  SupervisionInv'
<1>1. TypeOK' /\ ContainerOrder'
  BY NextTypeOK, StepOrder DEF SupervisionInv
<1>2. \A i \in Jobs : Supervised(i)'
  BY SupervisedEach, StepSupervised DEF SupervisionInv
<1>3. cancelled' \subseteq Jobs
  BY <1>1 DEF TypeOK
<1>4. KnownWhenStarted'
  BY <1>2 DEF KnownWhenStarted, Supervised
<1>5. CancelledIsHalted'
  BY <1>2, <1>3 DEF CancelledIsHalted, Supervised
<1>6. InspectFinds'
  BY <1>2 DEF InspectFinds, Supervised
<1>7. ContainerSupervised'
  BY <1>2 DEF ContainerSupervised, Supervised, Halting
<1> QED BY <1>1, <1>4, <1>5, <1>6, <1>7 DEF SupervisionInv

\* So it holds in every reachable state.
LEMMA SupervisionHolds == DaemonReliable => (Spec => []SupervisionInv)
<1> SUFFICES ASSUME DaemonReliable PROVE Spec => []SupervisionInv
  OBVIOUS
<1>1. Init => SupervisionInv
  <2>1. Init => ContainerOrder
    BY InitOutcome DEF OutcomeInv
  <2> QED BY <2>1, InitTypeOK DEF Init, SupervisionInv, KnownWhenStarted,
          CancelledIsHalted, InspectFinds, ContainerSupervised
<1>2. SupervisionInv /\ [Next]_vars => SupervisionInv'
  BY StepSupervision
<1> QED BY <1>1, <1>2, PTL DEF Spec

(* While the daemon answers and the process lives, no container runs behind the
   executor's back: whatever the queries, the deadlines and the clients do, and
   whatever is asked for at the same time, somebody watches it or is about to
   stop it.                                                                   *)
THEOREM ContainersAreSupervised ==
  DaemonReliable => (Spec => []ContainerSupervised)
<1>1. SupervisionInv => ContainerSupervised
  BY DEF SupervisionInv
<1> QED BY <1>1, SupervisionHolds, PTL

-----------------------------------------------------------------------------
(* MonitorQuitsWhenOver, when no wait outlives its context besides.  A job that
   left the registry with its container running is being stopped for good, and
   the monitor moves on only when it saw one or the other.                    *)

WaitsInTime == DaemonReliable /\ "deadline" \notin Faults

Ended(j) ==
  \/ container[j] # "running"
  \/ \E c \in Clients : req[c].job = j /\ req[c].pc = "stopAgain"
  \/ execMon[j] = "stop"

\* What is known of job i once its completion monitor runs.
Monitored(i) ==
  /\ ~jobMon[i].late
  /\ jobMon[i].pc # "none" => starter[i] = "done"
  /\ jobMon[i].pc # "none" /\ i \notin registry => Ended(i)
  /\ jobMon[i].pc \in {"lookup2", "inspect2", "write", "done"} =>
       container[i] # "running" \/ i \notin registry

MonitoredAll == \A i \in Jobs : Monitored(i)

\* A started job's container does not start again, and what has ended has.
LEMMA EndedKept ==
  ASSUME WaitsInTime, SupervisionInv, [Next]_vars, NEW i \in Jobs,
         starter[i] = "done"
  PROVE  /\ starter'[i] = "done"
         /\ container[i] # "running" => container'[i] # "running"
         /\ i \notin registry => i \notin registry'
         /\ Ended(i) => Ended(i)'
         /\ i \in registry \ registry' => Ended(i)'
<1> DEFINE Goal ==
      /\ starter'[i] = "done"
      /\ container[i] # "running" => container'[i] # "running"
      /\ i \notin registry => i \notin registry'
      /\ Ended(i) => Ended(i)'
      /\ i \in registry \ registry' => Ended(i)'
<1> SUFFICES Goal OBVIOUS
<1> USE DEF SupervisionInv
<1>1. CASE UNCHANGED <<starter, registry, execMon, container, req>>
  BY <1>1 DEF Ended
<1>2. ASSUME NEW j \in Jobs, CreateJob(j) \/ StarterStep(j) PROVE Goal
  <2>1. i # j
    BY <1>2 DEF CreateJob, StarterStep, StartFetch, StartMark, StartLock,
       StartCreate, StartLaunch, StartRegister, StartFailed
  <2>2. /\ UNCHANGED <<starter[i], container[i], execMon[i], req>>
        /\ i \in registry' <=> i \in registry
    BY <1>2, <2>1 DEF CreateJob, StarterStep, StartFetch, StartMark,
       StartLock, StartCreate, StartLaunch, StartRegister, StartFailed,
       StarterTo, executorVars, daemonVars, TypeOK
  <2> QED BY <2>2 DEF Ended
<1>3. ASSUME NEW j \in Jobs, ExecStep(j) PROVE Goal
  <2>1. UNCHANGED <<starter, req>> /\ registry' \subseteq registry
    BY <1>3 DEF ExecStep, ExecWait, ExecExited, ExecCancelled, ExecUnregister,
       ExecStop, executorVars
  <2>2. CASE ExecStop(j)
    <3>1. ContainerStop(j, FALSE)
      BY <2>2 DEF ExecStop, ContainerStop, WaitsInTime, DaemonReliable
    <3>2. /\ container'[j] # "running"
          /\ container[i] # "running" => container'[i] # "running"
      BY <3>1, StopStops DEF TypeOK
    <3>3. registry' = registry /\ (i # j => execMon'[i] = execMon[i])
      BY <2>2 DEF ExecStop, ExecMonTo, TypeOK, executorVars
    <3> QED BY <2>1, <3>2, <3>3 DEF Ended
  <2>3. CASE ~ExecStop(j)
    <3>1. UNCHANGED container
      BY <1>3, <2>3 DEF ExecStep, ExecWait, ExecExited, ExecCancelled,
         ExecUnregister, daemonVars
    <3>2. execMon[i] = "stop" => execMon'[i] = "stop"
      BY <1>3, <2>3 DEF ExecStep, ExecWait, ExecExited, ExecCancelled,
         ExecUnregister, ExecMonTo, TypeOK
    <3>3. i \in registry \ registry' => execMon'[i] = "stop"
      BY <1>3, <2>3 DEF ExecStep, ExecWait, ExecExited, ExecCancelled,
         ExecUnregister, ExecMonTo, TypeOK, executorVars
    <3> QED BY <2>1, <3>1, <3>2, <3>3 DEF Ended
  <2> QED BY <2>2, <2>3
<1>4. ASSUME NEW j \in Jobs, MonStep(j) \/ MonDeadline(j) PROVE Goal
  <2>1. UNCHANGED <<starter, executorVars, execMon, daemonVars, req>>
    BY <1>4 DEF MonStep, MonDeadline, MonTick, MonLookup1, MonInspect1,
       MonLookup2, MonInspect2, MonWrite
  <2> QED BY <1>1, <2>1 DEF executorVars, daemonVars
<1>5. ASSUME NEW j \in Jobs, ContainerExit(j) \/ AutoRemove(j) PROVE Goal
  <2>1. UNCHANGED <<starter, registry, execMon, req>>
    BY <1>5 DEF ContainerExit, AutoRemove, serviceVars, executorVars
  <2>2. container[i] # "running" => container'[i] # "running"
    BY <1>5 DEF ContainerExit, Exit, ExitCodes, AutoRemove, TypeOK
  <2> QED BY <2>1, <2>2 DEF Ended
<1>6. ASSUME NEW c \in Clients, ReqStep(c) PROVE Goal
  <2>1. UNCHANGED <<starter, execMon>> /\ registry' \subseteq registry
    BY <1>6 DEF ReqStep, UpdateRead, UpdateSave, DeleteRead, DeleteRow, StopRead,
       StopMark, StopLookup, StopDocker, StopUnregister, StopAgain, StopOrphan,
       StopFinal, executorVars
  <2>2. container[i] # "running" => container'[i] # "running"
    BY <1>6, RequestStops
  <2>3. \A d \in Clients \ {c} : req'[d] = req[d]
    BY <1>6, OthersKept
  <2>4. req[c].job = i /\ req[c].pc = "stopAgain" => container'[i] # "running"
    <3>1. ASSUME req[c].job = i, req[c].pc = "stopAgain"
          PROVE  container'[i] # "running"
      <4>1. StopAgain(c)
        BY <1>6, <3>1 DEF ReqStep, UpdateRead, UpdateSave, DeleteRead,
           DeleteRow, StopRead, StopMark, StopLookup, StopDocker,
           StopUnregister, StopOrphan, StopFinal
      <4>2. ContainerStop(i, FALSE)
        BY <3>1, <4>1 DEF StopAgain, ContainerStop, WaitsInTime, DaemonReliable
      <4> QED BY <4>2, StopStops
    <3> QED BY <3>1
  <2>5. Ended(i) => Ended(i)'
    BY <2>1, <2>2, <2>3, <2>4 DEF Ended
  <2>6. i \in registry \ registry' => Ended(i)'
    <3>1. CASE StopUnregister(c)
      <4>1. i \in registry \ registry' => req[c].job = i
        BY <3>1 DEF StopUnregister
      <4>2. req'[c].job = req[c].job /\ req'[c].pc = "stopAgain"
        BY <3>1 DEF StopUnregister, ReqTo, TypeOK, Request
      <4> QED BY <4>1, <4>2 DEF Ended
    <3>2. CASE ~StopUnregister(c)
      BY <1>6, <3>2 DEF ReqStep, UpdateRead, UpdateSave, DeleteRead, DeleteRow,
         StopRead, StopMark, StopLookup, StopDocker, StopAgain, StopOrphan,
         StopFinal, executorVars
    <3> QED BY <3>1, <3>2
  <2> QED BY <2>1, <2>2, <2>5, <2>6
<1>7. ASSUME NEW c \in Clients, Disconnect(c)
               \/ \E op \in Ops, j \in Jobs : Call(c, op, j)
      PROVE  Goal
  <2>1. UNCHANGED <<starter, registry, execMon, container>>
    BY <1>7 DEF Disconnect, Call, executorVars, daemonVars
  <2>2. \A d \in Clients \ {c} : req'[d] = req[d]
    BY <1>7 DEF Disconnect, Call, TypeOK
  <2>3. \/ req[c].pc = "idle"
        \/ req'[c].pc = req[c].pc /\ req'[c].job = req[c].job
    BY <1>7 DEF Disconnect, Call, TypeOK, Request
  <2> QED BY <2>1, <2>2, <2>3 DEF Ended
<1>8. ~Crash
  BY DEF Crash, WaitsInTime, DaemonReliable
<1>9. \A j \in Jobs : ~StartPanic(j)
  BY DEF StartPanic, WaitsInTime, DaemonReliable, InspectFinds
<1>10. ASSUME NEW j \in Jobs, JobStep(j) PROVE Goal
  BY <1>10, <1>2, <1>3, <1>4, <1>5, <1>9 DEF JobStep
<1>11. ASSUME NEW c \in Clients, ClientStep(c) PROVE Goal
  BY <1>11, <1>6, <1>7 DEF ClientStep
<1> QED BY <1>1, <1>8, <1>10, <1>11 DEF Next, vars

\* The completion monitor of a job, in a step of that monitor or of another.
LEMMA MonMonitored ==
  ASSUME WaitsInTime, SupervisionInv, NEW j \in Jobs, MonStep(j),
         NEW i \in Jobs, Monitored(i)
  PROVE  Monitored(i)'
<1> USE DEF SupervisionInv
<1>1. UNCHANGED <<starter, registry, container, execMon, req>>
  BY DEF MonStep, MonTick, MonLookup1, MonInspect1, MonLookup2, MonInspect2,
     MonWrite, executorVars, daemonVars
<1>2. Ended(i)' <=> Ended(i)
  BY <1>1 DEF Ended
<1>3. CASE i # j
  <2>1. jobMon'[i] = jobMon[i]
    BY <1>3 DEF MonStep, MonTick, MonLookup1, MonInspect1, MonLookup2,
       MonInspect2, MonWrite, JobMonTo, TypeOK
  <2> QED BY <1>1, <1>2, <2>1 DEF Monitored
<1>4. CASE i = j
  <2>1. jobMon[i].pc # "none" /\ ~jobMon[i].late /\ starter[i] = "done"
    BY <1>4 DEF Monitored, MonStep, MonTick, MonLookup1, MonInspect1,
       MonLookup2, MonInspect2, MonWrite
  <2>2. ~jobMon'[i].late
    BY <1>4, <2>1 DEF MonStep, MonTick, MonLookup1, MonInspect1, MonLookup2,
       MonInspect2, MonWrite, JobMonTo, TypeOK, JobMonitor, NoMon
  <2>3. ~InspectFails(i)
    BY <2>1 DEF InspectFails, WaitsInTime, DaemonReliable
  <2>4. jobMon'[i].pc \in {"lookup2", "inspect2", "write", "done"} =>
          container[i] # "running" \/ i \notin registry
    <3>1. CASE MonTick(j)
      BY <1>4, <3>1 DEF MonTick, NoMon, TypeOK
    <3>2. CASE MonLookup1(j)
      BY <1>4, <3>2 DEF MonLookup1, JobMonTo, TypeOK, JobMonitor
    <3>3. CASE MonInspect1(j)
      BY <1>4, <2>3, <3>3 DEF MonInspect1, InspectStatus, JobMonTo, TypeOK,
         JobMonitor
    <3>4. CASE MonLookup2(j) \/ MonInspect2(j) \/ MonWrite(j)
      BY <1>4, <3>4 DEF MonLookup2, MonInspect2, MonWrite, Monitored
    <3> QED BY <3>1, <3>2, <3>3, <3>4 DEF MonStep
  <2> QED BY <1>1, <1>2, <2>1, <2>2, <2>4 DEF Monitored
<1> QED BY <1>3, <1>4

\* What is known of a monitored job stays true.
LEMMA StepMonitored ==
  ASSUME WaitsInTime, SupervisionInv, [Next]_vars, NEW i \in Jobs, Monitored(i)
  PROVE  Monitored(i)'
<1> USE DEF SupervisionInv
<1>1. CASE jobMon'[i] = jobMon[i]
  <2>1. CASE jobMon[i].pc = "none"
    BY <1>1, <2>1 DEF Monitored
  <2>2. CASE jobMon[i].pc # "none"
    <3>1. starter[i] = "done"
      BY <2>2 DEF Monitored
    <3> QED BY <1>1, <2>2, <3>1, EndedKept DEF Monitored
  <2> QED BY <2>1, <2>2
<1>2. CASE \E j \in Jobs : MonStep(j)
  BY <1>2, MonMonitored
<1>3. CASE StartRegister(i)
  <2>1. starter'[i] = "done" /\ i \in registry'
    BY <1>3 DEF StartRegister, StarterTo, TypeOK
  <2>2. jobMon'[i].pc = "tick" /\ ~jobMon'[i].late
    BY <1>3 DEF StartRegister, Monitored, TypeOK, JobMonitor
  <2> QED BY <2>1, <2>2 DEF Monitored
<1>4. \/ jobMon'[i] = jobMon[i]
      \/ \E j \in Jobs : MonStep(j)
      \/ StartRegister(i)
  <2>1. CASE UNCHANGED vars
    BY <2>1 DEF vars
  <2>2. ASSUME NEW j \in Jobs, CreateJob(j) \/ ExecStep(j) \/ ContainerExit(j)
                 \/ AutoRemove(j)
        PROVE  UNCHANGED jobMon
    BY <2>2 DEF CreateJob, ExecStep, ExecWait, ExecExited, ExecCancelled,
       ExecUnregister, ExecStop, ContainerExit, AutoRemove, serviceVars
  <2>3. ASSUME NEW j \in Jobs, StarterStep(j)
        PROVE  jobMon'[i] = jobMon[i] \/ StartRegister(i)
    BY <2>3 DEF StarterStep, StartFetch, StartMark, StartLock, StartCreate,
       StartLaunch, StartRegister, StartFailed, TypeOK
  <2>4. ASSUME NEW c \in Clients, ClientStep(c)
        PROVE  UNCHANGED jobMon
    BY <2>4 DEF ClientStep, Call, Disconnect, ReqStep, UpdateRead, UpdateSave,
       DeleteRead, DeleteRow, StopRead, StopMark, StopLookup, StopDocker,
       StopUnregister, StopAgain, StopOrphan, StopFinal
  <2>5. /\ ~Crash
        /\ \A j \in Jobs : ~StartPanic(j) /\ ~MonDeadline(j)
    BY DEF Crash, StartPanic, MonDeadline, WaitsInTime, DaemonReliable,
       InspectFinds
  <2> QED BY <2>1, <2>2, <2>3, <2>4, <2>5 DEF Next, JobStep
<1> QED BY <1>1, <1>2, <1>3, <1>4

(* While waits end in time too, a completion monitor gives a job up only when
   its container is over, or about to be stopped: a monitor that left earlier
   would leave a row that nobody corrects.                                    *)
THEOREM MonitorsQuitInTime ==
  WaitsInTime => (Spec => []MonitorQuitsWhenOver)
<1> SUFFICES ASSUME WaitsInTime PROVE Spec => []MonitorQuitsWhenOver
  OBVIOUS
<1>1. Init => MonitoredAll
  BY DEF Init, MonitoredAll, Monitored, NoMon
<1>2. SupervisionInv /\ MonitoredAll /\ [Next]_vars => MonitoredAll'
  BY StepMonitored DEF MonitoredAll
<1>3. MonitoredAll => MonitorQuitsWhenOver
  BY DEF MonitoredAll, Monitored, Ended, MonitorQuitsWhenOver
<1>4. Spec => []SupervisionInv
  BY SupervisionHolds DEF WaitsInTime
<1> QED BY <1>1, <1>2, <1>3, <1>4, PTL DEF Spec

-----------------------------------------------------------------------------
(* RowOwned, when nothing fails but training itself, and no row is updated (an
   UpdateJob puts a row back to a status that nobody is working on any more).  *)

NothingFails == Faults \subseteq {"badexit"} /\ "update" \notin Ops

Ending(c, j) ==
  /\ req[c].job = j
  /\ req[c].pc \in {"stopLookup", "stopDocker", "stopUnregister", "stopAgain",
                    "stopOrphan", "stopFinal"}

\* No request loses its context, and none is about to save a row.
RequestsLive == \A c \in Clients : req[c].live /\ req[c].pc # "save"

\* Who will change the row of job i: for stopping, always a stop.
Owned(i) ==
  /\ ~jobMon[i].late
  /\ row[i] = "pending" => starter[i] \in {"sleep", "mark"}
  /\ row[i] = "running" =>
       starter[i] \in {"lock", "failing"} \cup Locked
         \/ jobMon[i].pc \notin {"none", "done"}
  /\ row[i] = "stopping" => \E c \in Clients : Ending(c, i)

OwnedInv == RequestsLive /\ \A i \in Jobs : Owned(i)

\* What the fault set leaves out.
LEMMA NoFault ==
  ASSUME NothingFails
  PROVE  /\ WaitsInTime /\ DaemonReliable
         /\ {"db", "deadline", "docker", "crash", "disconnect"} \cap Faults = {}
BY DEF NothingFails, WaitsInTime, DaemonReliable

\* Requests stay live.
LEMMA StepLive ==
  ASSUME NothingFails, TypeOK, RequestsLive, NEW c \in Clients, ClientStep(c)
  PROVE  RequestsLive'
<1> USE DEF TypeOK, RequestsLive
<1>1. CASE Return(c)
  BY <1>1 DEF Return, NoReq
<1>2. ASSUME NEW pc \in ReqPC \ {"save"}, ReqTo(c, pc) PROVE RequestsLive'
  BY <1>2 DEF ReqTo, Request
<1>3. CASE \E op \in Ops, j \in Jobs : Call(c, op, j)
  BY <1>3 DEF Call, NoReq
<1>4. ~UpdateRead(c) /\ ~UpdateSave(c) /\ ~Disconnect(c)
  <2>1. req[c].op \in Ops \cup {"none"}
    BY DEF Request
  <2> QED BY <2>1, NoFault DEF UpdateRead, UpdateSave, Disconnect, NothingFails
<1>5. CASE ReqStep(c)
  <2>1. Return(c) \/ \E pc \in ReqPC \ {"save"} : ReqTo(c, pc)
    BY <1>4, <1>5 DEF ReqStep, DeleteRead, DeleteRow, StopRead, StopMark,
       StopLookup, StopDocker, StopUnregister, StopAgain, StopOrphan, StopFinal,
       ReqPC
  <2> QED BY <2>1, <1>1, <1>2
<1> QED BY <1>3, <1>4, <1>5 DEF ClientStep

\* A stop that has marked the row goes on until it writes the final status.
LEMMA EndingKept ==
  ASSUME NothingFails, TypeOK, RequestsLive, NEW c \in Clients, ReqStep(c),
         NEW i \in Jobs, \E d \in Clients : Ending(d, i)
  PROVE  \/ \E d \in Clients : Ending(d, i)'
         \/ row'[i] \notin {"stopping", "running", "pending"}
<1>1. PICK d \in Clients : Ending(d, i)
  OBVIOUS
<1>2. CASE d # c
  BY <1>1, <1>2, OthersKept DEF Ending
<1>3. CASE d = c
  <2>1. req[c].live /\ req[c] \in Request
    BY DEF RequestsLive, TypeOK
  <2>2. CASE StopFinal(c)
    BY <1>1, <1>3, <2>1, <2>2, NoFault DEF StopFinal, DbFails, UpdateStatus,
       Ending, TypeOK
  <2>3. ASSUME NEW pc \in {"stopDocker", "stopUnregister", "stopAgain",
                           "stopOrphan", "stopFinal"},
               ReqTo(c, pc)
        PROVE  Ending(c, i)'
    <3>1. req'[c].pc = pc /\ req'[c].job = req[c].job
      BY <2>1, <2>3 DEF ReqTo, TypeOK, Request
    <3> QED BY <1>1, <1>3, <3>1 DEF Ending
  <2>4. CASE StopLookup(c) \/ StopDocker(c) \/ StopUnregister(c)
               \/ StopAgain(c) \/ StopOrphan(c)
    <3>1. \E pc \in {"stopDocker", "stopUnregister", "stopAgain",
                     "stopOrphan", "stopFinal"} : ReqTo(c, pc)
      BY <2>4 DEF StopLookup, StopDocker, StopUnregister, StopAgain, StopOrphan
    <3> QED BY <2>3, <3>1
  <2> QED
    BY <1>1, <1>3, <2>2, <2>4 DEF ReqStep, UpdateRead, UpdateSave,
       DeleteRead, DeleteRow, StopRead, StopMark, Ending
<1> QED BY <1>2, <1>3

\* A request keeps the owner of every row.
LEMMA RequestOwned ==
  ASSUME NothingFails, TypeOK, RequestsLive, NEW c \in Clients, ReqStep(c),
         NEW i \in Jobs, Owned(i)
  PROVE  Owned(i)'
<1>1. UNCHANGED <<starter, jobMon>>
  BY DEF ReqStep, UpdateRead, UpdateSave, DeleteRead, DeleteRow, StopRead,
     StopMark, StopLookup, StopDocker, StopUnregister, StopAgain, StopOrphan,
     StopFinal
<1>2. CASE row'[i] = row[i]
  <2>1. row[i] = "stopping" => \E d \in Clients : Ending(d, i)'
    BY <1>2, EndingKept DEF Owned
  <2> QED BY <1>1, <1>2, <2>1 DEF Owned
<1>3. CASE row'[i] # row[i]
  <2>1. CASE StopMark(c)
    <3>1. req[c].job = i /\ row'[i] = "stopping"
      BY <1>3, <2>1 DEF StopMark, UpdateStatus, TypeOK
    <3>2. req'[c].pc = "stopLookup" /\ req'[c].job = req[c].job
      BY <1>3, <2>1 DEF StopMark, ReqTo, TypeOK, Request
    <3>3. Ending(c, i)'
      BY <3>1, <3>2 DEF Ending
    <3> QED BY <1>1, <3>1, <3>3 DEF Owned
  <2>2. CASE StopFinal(c) \/ DeleteRow(c)
    <3>1. row'[i] \in {"none", "cancelled"}
      BY <1>3, <2>2 DEF StopFinal, DeleteRow, UpdateStatus, TypeOK
    <3> QED BY <1>1, <3>1 DEF Owned
  <2>3. ~UpdateSave(c)
    BY DEF UpdateSave, RequestsLive
  <2> QED
    BY <1>3, <2>1, <2>2, <2>3 DEF ReqStep, UpdateRead, DeleteRead, StopRead,
       StopLookup, StopDocker, StopUnregister, StopAgain, StopOrphan
<1> QED BY <1>2, <1>3

\* So does the starter: it hands the row from itself to the completion monitor.
LEMMA StarterOwned ==
  ASSUME NothingFails, TypeOK, NEW j \in Jobs, CreateJob(j) \/ StarterStep(j),
         NEW i \in Jobs, Owned(i)
  PROVE  Owned(i)'
<1>1. UNCHANGED req
  BY DEF CreateJob, StarterStep, StartFetch, StartMark, StartLock, StartCreate,
     StartLaunch, StartRegister, StartFailed
<1>2. \A c \in Clients : Ending(c, i)' <=> Ending(c, i)
  BY <1>1 DEF Ending
<1>3. ~jobMon'[i].late
  BY DEF Owned, CreateJob, StarterStep, StartFetch, StartMark, StartLock,
     StartCreate, StartLaunch, StartRegister, StartFailed, TypeOK, JobMonitor
<1>4. CASE i # j
  <2>1. UNCHANGED <<row[i], starter[i], jobMon[i]>>
    BY <1>4 DEF CreateJob, StarterStep, StartFetch, StartMark, StartLock,
       StartCreate, StartLaunch, StartRegister, StartFailed, StarterTo,
       UpdateStatus, TypeOK
  <2> QED BY <1>2, <2>1 DEF Owned
<1>5. CASE i = j
  <2>1. CASE CreateJob(j)
    <3>1. row'[i] = "pending" /\ starter'[i] = "sleep"
      BY <1>5, <2>1 DEF CreateJob, StarterTo, TypeOK
    <3> QED BY <1>3, <3>1 DEF Owned
  <2>2. CASE StartFetch(j)
    <3>1. row' = row /\ jobMon' = jobMon /\ starter[i] = "sleep"
      BY <1>5, <2>2 DEF StartFetch
    <3>2. \/ starter'[i] = "mark"
          \/ starter'[i] = "done" /\ row[i] = "none"
      BY <1>5, <2>2, NoFault DEF StartFetch, StarterTo, TypeOK
    <3> QED BY <1>2, <3>1, <3>2 DEF Owned, Locked
  <2>3. CASE StartMark(j)
    <3>1. row'[i] \in {"none", "running"} /\ starter'[i] = "lock"
      BY <1>5, <2>3, NoFault DEF StartMark, StarterTo, UpdateStatus, TypeOK
    <3> QED BY <1>3, <3>1 DEF Owned
  <2>4. CASE StartLock(j) \/ StartCreate(j) \/ StartLaunch(j)
    <3>1. row' = row /\ jobMon' = jobMon /\ starter[i] \notin {"sleep", "mark"}
      BY <1>5, <2>4 DEF StartLock, StartCreate, StartLaunch
    <3>2. starter'[i] \in {"failing"} \cup Locked
      BY <1>5, <2>4 DEF StartLock, StartCreate, StartLaunch, StarterTo, TypeOK,
         Locked
    <3> QED BY <1>2, <3>1, <3>2 DEF Owned
  <2>5. CASE StartRegister(j)
    <3>1. row' = row /\ jobMon'[i].pc = "tick" /\ starter[i] = "inspect"
      BY <1>5, <2>5 DEF StartRegister, TypeOK, JobMonitor
    <3> QED BY <1>2, <1>3, <3>1 DEF Owned
  <2>6. CASE StartFailed(j)
    <3>1. row'[i] \in {"none", "failed"}
      BY <1>5, <2>6, NoFault DEF StartFailed, UpdateStatus, TypeOK
    <3> QED BY <1>3, <3>1 DEF Owned
  <2> QED BY <2>1, <2>2, <2>3, <2>4, <2>5, <2>6 DEF StarterStep
<1> QED BY <1>4, <1>5

\* And the completion monitor, whose last act is to write a final status.
LEMMA MonOwned ==
  ASSUME NothingFails, TypeOK, NEW j \in Jobs, MonStep(j), NEW i \in Jobs,
         Owned(i), jobMon[i].pc = "write" => jobMon[i].verdict \in Terminal
  PROVE  Owned(i)'
<1>1. UNCHANGED <<starter, req>>
  BY DEF MonStep, MonTick, MonLookup1, MonInspect1, MonLookup2, MonInspect2,
     MonWrite
<1>2. \A c \in Clients : Ending(c, i)' <=> Ending(c, i)
  BY <1>1 DEF Ending
<1>3. CASE i # j
  <2>1. UNCHANGED <<row[i], jobMon[i]>>
    BY <1>3 DEF MonStep, MonTick, MonLookup1, MonInspect1, MonLookup2,
       MonInspect2, MonWrite, JobMonTo, UpdateStatus, TypeOK
  <2> QED BY <1>1, <1>2, <2>1 DEF Owned
<1>4. CASE i = j
  <2>1. jobMon[i].pc \notin {"none", "done"} /\ ~jobMon[i].late
    BY <1>4 DEF MonStep, MonTick, MonLookup1, MonInspect1, MonLookup2,
       MonInspect2, MonWrite, Owned
  <2>2. ~jobMon'[i].late
    BY <1>4, <2>1 DEF MonStep, MonTick, MonLookup1, MonInspect1, MonLookup2,
       MonInspect2, MonWrite, JobMonTo, TypeOK, JobMonitor, NoMon
  <2>3. CASE MonWrite(j)
    <3>1. row'[i] \in {"none"} \cup Terminal
      BY <1>4, <2>1, <2>3, NoFault DEF MonWrite, UpdateStatus, TypeOK
    <3> QED BY <2>2, <3>1 DEF Owned, Terminal
  <2>4. CASE ~MonWrite(j)
    <3>1. UNCHANGED row
      BY <2>4 DEF MonStep, MonTick, MonLookup1, MonInspect1, MonLookup2,
         MonInspect2
    <3>2. jobMon'[i].pc \notin {"none", "done"}
      BY <1>4, <2>4 DEF MonStep, MonTick, MonLookup1, MonInspect1, MonLookup2,
         MonInspect2, JobMonTo, TypeOK, JobMonitor, NoMon
    <3> QED BY <1>1, <1>2, <2>2, <3>1, <3>2 DEF Owned
  <2> QED BY <2>3, <2>4
<1> QED BY <1>3, <1>4

\* A monitor about to write has formed a verdict.
VerdictFormed ==
  \A j \in Jobs : jobMon[j].pc = "write" => jobMon[j].verdict \in Terminal

\* A step keeps it so.
LEMMA StepVerdict ==
  ASSUME TypeOK, VerdictFormed, [Next]_vars
  PROVE  VerdictFormed'
<1> USE DEF VerdictFormed
<1>1. CASE UNCHANGED jobMon
  BY <1>1
<1>2. ASSUME NEW j \in Jobs, MonStep(j) \/ MonDeadline(j) \/ StartRegister(j)
      PROVE  VerdictFormed'
  <2>1. \A i \in Jobs \ {j} : jobMon'[i] = jobMon[i]
    BY <1>2 DEF MonStep, MonDeadline, StartRegister, MonTick, MonLookup1,
       MonInspect1, MonLookup2, MonInspect2, MonWrite, JobMonTo, TypeOK
  <2>2. CASE MonLookup2(j) \/ MonInspect2(j)
    BY <2>1, <2>2 DEF MonLookup2, MonInspect2, FinalStatus, Terminal, JobMonTo,
       TypeOK, JobMonitor
  <2>3. CASE ~(MonLookup2(j) \/ MonInspect2(j))
    <3>1. jobMon'[j].pc # "write"
      BY <1>2, <2>3 DEF MonStep, MonDeadline, StartRegister, MonTick,
         MonLookup1, MonInspect1, MonWrite, JobMonTo, NoMon, TypeOK, JobMonitor
    <3> QED BY <2>1, <3>1
  <2> QED BY <2>2, <2>3
<1>3. CASE ProcessDies
  BY <1>3 DEF ProcessDies, NoMon, TypeOK
<1>4. \/ UNCHANGED jobMon
      \/ \E j \in Jobs : MonStep(j) \/ MonDeadline(j) \/ StartRegister(j)
      \/ ProcessDies
  <2>1. CASE UNCHANGED vars \/ Crash
    BY <2>1 DEF vars, Crash
  <2>2. ASSUME NEW j \in Jobs, CreateJob(j) \/ ExecStep(j) \/ ContainerExit(j)
                 \/ AutoRemove(j)
        PROVE  UNCHANGED jobMon
    BY <2>2 DEF CreateJob, ExecStep, ExecWait, ExecExited, ExecCancelled,
       ExecUnregister, ExecStop, ContainerExit, AutoRemove, serviceVars
  <2>3. ASSUME NEW j \in Jobs, StarterStep(j)
        PROVE  UNCHANGED jobMon \/ StartRegister(j)
    BY <2>3 DEF StarterStep, StartFetch, StartMark, StartLock, StartCreate,
       StartLaunch, StartFailed
  <2>4. ASSUME NEW c \in Clients, ClientStep(c)
        PROVE  UNCHANGED jobMon
    BY <2>4 DEF ClientStep, Call, Disconnect, ReqStep, UpdateRead, UpdateSave,
       DeleteRead, DeleteRow, StopRead, StopMark, StopLookup, StopDocker,
       StopUnregister, StopAgain, StopOrphan, StopFinal
  <2>5. ASSUME NEW j \in Jobs, StartPanic(j) PROVE ProcessDies
    BY <2>5 DEF StartPanic
  <2> QED BY <2>1, <2>2, <2>3, <2>4, <2>5 DEF Next, JobStep
<1> QED BY <1>1, <1>2, <1>3, <1>4

\* Every row keeps its owner.
LEMMA StepOwned ==
  ASSUME NothingFails, SupervisionInv, VerdictFormed, OwnedInv, [Next]_vars
  PROVE  OwnedInv'
<1> USE DEF OwnedInv
<1>t. TypeOK /\ InspectFinds
  BY DEF SupervisionInv
<1>1. CASE UNCHANGED <<row, starter, jobMon, req>>
  BY <1>1 DEF RequestsLive, Owned, Ending
<1>2. ASSUME NEW j \in Jobs, CreateJob(j) \/ StarterStep(j) PROVE OwnedInv'
  <2>1. UNCHANGED req
    BY <1>2 DEF CreateJob, StarterStep, StartFetch, StartMark, StartLock,
       StartCreate, StartLaunch, StartRegister, StartFailed
  <2> QED BY <1>2, <1>t, <2>1, StarterOwned DEF RequestsLive
<1>3. ASSUME NEW j \in Jobs, MonStep(j) PROVE OwnedInv'
  <2>1. UNCHANGED req
    BY <1>3 DEF MonStep, MonTick, MonLookup1, MonInspect1, MonLookup2,
       MonInspect2, MonWrite
  <2> QED BY <1>3, <1>t, <2>1, MonOwned DEF RequestsLive, VerdictFormed
<1>4. ASSUME NEW j \in Jobs, ExecStep(j) \/ ContainerExit(j) \/ AutoRemove(j)
      PROVE  OwnedInv'
  <2>1. UNCHANGED <<row, starter, jobMon, req>>
    BY <1>4 DEF ExecStep, ExecWait, ExecExited, ExecCancelled, ExecUnregister,
       ExecStop, ContainerExit, AutoRemove, serviceVars
  <2> QED BY <1>1, <2>1
<1>5. ASSUME NEW c \in Clients, ClientStep(c) PROVE OwnedInv'
  <2>1. RequestsLive'
    BY <1>5, <1>t, StepLive
  <2>2. CASE ReqStep(c)
    BY <1>t, <2>1, <2>2, RequestOwned
  <2>3. CASE \E op \in Ops, j \in Jobs : Call(c, op, j)
    <3>1. UNCHANGED <<row, starter, jobMon>> /\ req[c].pc = "idle"
            /\ \A d \in Clients \ {c} : req'[d] = req[d]
      BY <1>t, <2>3 DEF Call, TypeOK
    <3>2. \A i \in Jobs, d \in Clients : Ending(d, i) => Ending(d, i)'
      BY <3>1 DEF Ending
    <3>3. ASSUME NEW i \in Jobs PROVE Owned(i)'
      <4>1. Owned(i)
        OBVIOUS
      <4> QED BY <3>1, <3>2, <4>1 DEF Owned
    <3> QED BY <2>1, <3>3
  <2>4. ~Disconnect(c)
    BY NoFault DEF Disconnect
  <2> QED BY <1>5, <2>2, <2>3, <2>4 DEF ClientStep
<1>6. /\ ~Crash
      /\ \A j \in Jobs : ~StartPanic(j) /\ ~MonDeadline(j)
  BY <1>t, NoFault DEF Crash, StartPanic, MonDeadline, DaemonReliable,
     InspectFinds
<1>7. ASSUME NEW j \in Jobs, JobStep(j) PROVE OwnedInv'
  BY <1>7, <1>2, <1>3, <1>4, <1>6 DEF JobStep
<1> QED BY <1>1, <1>5, <1>6, <1>7 DEF Next, vars

(* While nothing fails, every row that is not final has somebody who is going to
   change it, whatever stops and deletes overlap with the start and the end of
   the job: no job is left "running" or "stopping".                            *)
THEOREM RowsAreOwned == NothingFails => (Spec => []RowOwned)
<1> SUFFICES ASSUME NothingFails PROVE Spec => []RowOwned
  OBVIOUS
<1>1. Init => VerdictFormed /\ OwnedInv
  BY DEF Init, VerdictFormed, OwnedInv, RequestsLive, Owned, NoMon, NoReq
<1>2. SupervisionInv /\ VerdictFormed /\ [Next]_vars => VerdictFormed'
  BY StepVerdict DEF SupervisionInv
<1>3. SupervisionInv /\ VerdictFormed /\ OwnedInv /\ [Next]_vars => OwnedInv'
  BY StepOwned
<1>4. OwnedInv => RowOwned
  BY DEF OwnedInv, Owned, Ending, RowOwned
<1>5. Spec => []SupervisionInv
  BY SupervisionHolds, NoFault
<1> QED BY <1>1, <1>2, <1>3, <1>4, <1>5, PTL DEF Spec
=============================================================================
