----------------------------- MODULE TrainingJob -----------------------------
(****************************************************************************)
(* The life of a training job: the job service (rows, background start,      *)
(* completion monitor), the Docker executor (mutex, registry of live jobs,   *)
(* exit monitor) and the Docker daemon they drive.                           *)
(*                                                                          *)
(*   services/training/internal/service/job_service.go                      *)
(*   services/training/internal/executor/docker.go                          *)
(*   services/training/internal/repository/job_repo.go                      *)
(*                                                                          *)
(* Every goroutine is a program counter; a step is the code between two       *)
(* calls that another goroutine can observe (a query, a Docker call, a        *)
(* critical section of e.mu).                                                *)
(****************************************************************************)
EXTENDS FiniteSets, Naturals

CONSTANTS Jobs,      \* job identifiers; CreateJob draws each one once (uuid.New)
          Clients,   \* HTTP requests that may be in progress at once
          NoJob,     \* e.mu is free
          Ops,       \* what clients ask for: "stop", "delete", "update"
          Faults     \* what the environment may do, see below

(* "crash"      the service process dies (and comes back empty-handed)
   "docker"     a Docker API call fails
   "db"         a query fails
   "deadline"   a wait outlives the context of the goroutine that waits
   "disconnect" an HTTP client goes away, which cancels its request context
   "fastexit"   a container may be gone before Start has inspected it
   "badexit"    a process may exit with another code than 0                 *)
FaultKinds == {"crash", "docker", "db", "deadline", "disconnect", "fastexit",
               "badexit"}

ASSUME ConstantsAssumption ==
  /\ NoJob \notin Jobs
  /\ Ops \subseteq {"stop", "delete", "update"}
  /\ Faults \subseteq FaultKinds

VARIABLES row,        \* status column of training_jobs, "none" when no row
          starter,    \* startJobAsync, one goroutine per job
          mu,         \* the job whose Start holds DockerExecutor.mu
          registry,   \* keys of DockerExecutor.jobs
          cancelled,  \* jobs whose JobProcess.CancelFunc was called
          container,  \* the job's container, as the daemon sees it
          exitCode,   \* of the container: "none", "ok" (0) or "bad"
          execMon,    \* monitorContainer, one goroutine per started job
          jobMon,     \* monitorJobCompletion, one goroutine per started job
          req         \* the HTTP requests in progress

vars == <<row, starter, mu, registry, cancelled, container, exitCode,
          execMon, jobMon, req>>

executorVars == <<mu, registry, cancelled>>
daemonVars   == <<container, exitCode>>
serviceVars  == <<starter, executorVars, execMon, jobMon, req>>

-----------------------------------------------------------------------------
Terminal == {"completed", "failed", "cancelled"}
Status   == {"pending", "running", "stopping"} \cup Terminal

StarterPC == {"idle", "sleep", "mark", "lock", "create", "launch", "inspect",
              "failing", "done", "dead"}
\* The part of startJobAsync that runs inside Start, with e.mu locked.
Locked    == {"create", "launch", "inspect"}

ExecMonPC == {"none", "begin", "waiting", "unregister", "stop", "done"}
JobMonPC  == {"none", "tick", "lookup1", "inspect1", "lookup2", "inspect2",
              "write", "done"}
ReqPC     == {"idle", "read", "save", "delete", "stopRead", "stopMark",
              "stopLookup", "stopDocker", "stopUnregister", "stopAgain",
              "stopOrphan", "stopFinal"}

\* monitorJobCompletion: the status it will write, whether its context expired.
JobMonitor == [pc : JobMonPC, verdict : Terminal \cup {"none"}, late : BOOLEAN]

\* A request: what it does to which job, the status UpdateJob has read, and
\* whether its context is still live.
Request == [pc : ReqPC, op : Ops \cup {"none"}, job : Jobs \cup {NoJob},
            seen : Status \cup {"none"}, live : BOOLEAN]

NoMon  == [pc |-> "none", verdict |-> "none", late |-> FALSE]
NoReq  == [pc |-> "idle", op |-> "none", job |-> NoJob, seen |-> "none",
           live |-> TRUE]

TypeOK ==
  /\ row \in [Jobs -> Status \cup {"none"}]
  /\ starter \in [Jobs -> StarterPC]
  /\ mu \in Jobs \cup {NoJob}
  /\ registry \subseteq Jobs
  /\ cancelled \subseteq Jobs
  /\ container \in [Jobs -> {"absent", "created", "running", "exited", "gone"}]
  /\ exitCode \in [Jobs -> {"none", "ok", "bad"}]
  /\ execMon \in [Jobs -> ExecMonPC]
  /\ jobMon \in [Jobs -> JobMonitor]
  /\ req \in [Clients -> Request]
  /\ \A c \in Clients : req[c].pc = "idle" \/ req[c].job \in Jobs

Init ==
  /\ row = [j \in Jobs |-> "none"]
  /\ starter = [j \in Jobs |-> "idle"]
  /\ mu = NoJob
  /\ registry = {}
  /\ cancelled = {}
  /\ container = [j \in Jobs |-> "absent"]
  /\ exitCode = [j \in Jobs |-> "none"]
  /\ execMon = [j \in Jobs |-> "none"]
  /\ jobMon = [j \in Jobs |-> NoMon]
  /\ req = [c \in Clients |-> NoReq]

-----------------------------------------------------------------------------
(* The repository.  UpdateStatus is an UPDATE ... WHERE id, and not an error  *)
(* when it matches no row.                                                   *)
CanStop(s) == s \in {"pending", "running"}

UpdateStatus(j, s) ==
  row' = [row EXCEPT ![j] = IF @ = "none" THEN "none" ELSE s]

(* The daemon.  A stop returns when the container is not running any more;    *)
(* a process stopped by signal exits with whatever code it likes.            *)
ExitCodes == {"ok"} \cup (IF "badexit" \in Faults THEN {"bad"} ELSE {})

Exit(j) ==
  /\ container[j] = "running"
  /\ container' = [container EXCEPT ![j] = "exited"]
  /\ \E code \in ExitCodes : exitCode' = [exitCode EXCEPT ![j] = code]

ContainerStop(j, mayFail) ==
  \/ Exit(j)
  \/ /\ container[j] # "running" \/ mayFail
     /\ UNCHANGED daemonVars

\* The training process ends by itself.
ContainerExit(j) ==
  /\ Exit(j)
  /\ UNCHANGED <<row, serviceVars>>

\* HostConfig.AutoRemove: the daemon deletes the container once it exited.
AutoRemove(j) ==
  /\ container[j] = "exited"
  /\ starter[j] # "inspect" \/ "fastexit" \in Faults
  /\ container' = [container EXCEPT ![j] = "gone"]
  /\ UNCHANGED <<row, exitCode, serviceVars>>

-----------------------------------------------------------------------------
(* CreateJob and startJobAsync.  The goroutine never asks CanStart: it sets   *)
(* "running" over whatever the row says, and goes on when there is no row.   *)

StarterTo(j, pc) == starter' = [starter EXCEPT ![j] = pc]

CreateJob(j) ==
  /\ starter[j] = "idle"
  /\ row' = [row EXCEPT ![j] = "pending"]
  /\ StarterTo(j, "sleep")
  /\ UNCHANGED <<executorVars, daemonVars, execMon, jobMon, req>>

\* GetByID after the 100 ms pause.
StartFetch(j) ==
  /\ starter[j] = "sleep"
  /\ \/ /\ row[j] # "none"
        /\ StarterTo(j, "mark")
     \/ /\ row[j] = "none" \/ "db" \in Faults
        /\ StarterTo(j, "done")
  /\ UNCHANGED <<row, executorVars, daemonVars, execMon, jobMon, req>>

StartMark(j) ==
  /\ starter[j] = "mark"
  /\ \/ /\ UpdateStatus(j, "running")
        /\ StarterTo(j, "lock")
     \/ /\ "db" \in Faults
        /\ StarterTo(j, "done")
        /\ UNCHANGED row
  /\ UNCHANGED <<executorVars, daemonVars, execMon, jobMon, req>>

\* Start takes e.mu and keeps it through the image pull.
StartLock(j) ==
  /\ starter[j] = "lock"
  /\ mu = NoJob
  /\ IF j \in registry
     THEN StarterTo(j, "failing") /\ UNCHANGED mu
     ELSE StarterTo(j, "create") /\ mu' = j
  /\ UNCHANGED <<row, registry, cancelled, daemonVars, execMon, jobMon, req>>

\* Mutant: the error path returns without the unlock.
StartCreate_KeepsLock(j) ==
  /\ starter[j] = "create"
  /\ \/ /\ container' = [container EXCEPT ![j] = "created"]
        /\ StarterTo(j, "launch")
     \/ /\ "docker" \in Faults
        /\ StarterTo(j, "failing")
        /\ UNCHANGED container
  /\ UNCHANGED <<row, executorVars, exitCode, execMon, jobMon, req>>

StartCreate(j) ==
  /\ starter[j] = "create"
  /\ \/ /\ container' = [container EXCEPT ![j] = "created"]
        /\ StarterTo(j, "launch")
        /\ UNCHANGED mu
     \/ /\ "docker" \in Faults
        /\ StarterTo(j, "failing")
        /\ mu' = NoJob
        /\ UNCHANGED container
  /\ UNCHANGED <<row, registry, cancelled, exitCode, execMon, jobMon, req>>

\* ContainerStart; when it fails the container is removed, if that works.
StartLaunch(j) ==
  /\ starter[j] = "launch"
  /\ \/ /\ container' = [container EXCEPT ![j] = "running"]
        /\ StarterTo(j, "inspect")
        /\ UNCHANGED mu
     \/ /\ "docker" \in Faults
        /\ \/ container' = [container EXCEPT ![j] = "gone"]
           \/ UNCHANGED container
        /\ StarterTo(j, "failing")
        /\ mu' = NoJob
  /\ UNCHANGED <<row, registry, cancelled, exitCode, execMon, jobMon, req>>

\* Mutants: one of the two monitors is not started.
StartRegister_NoExecMon(j) ==
  /\ starter[j] = "inspect"
  /\ container[j] # "gone"
  /\ registry' = registry \cup {j}
  /\ mu' = NoJob
  /\ jobMon' = [jobMon EXCEPT ![j].pc = "tick"]
  /\ StarterTo(j, "done")
  /\ UNCHANGED <<row, cancelled, daemonVars, execMon, req>>

StartRegister_NoJobMon(j) ==
  /\ starter[j] = "inspect"
  /\ container[j] # "gone"
  /\ registry' = registry \cup {j}
  /\ mu' = NoJob
  /\ execMon' = [execMon EXCEPT ![j] = "begin"]
  /\ StarterTo(j, "done")
  /\ UNCHANGED <<row, cancelled, daemonVars, jobMon, req>>

\* The inspection answers; Start registers the job and returns, and the two
\* monitors are started.
StartRegister(j) ==
  /\ starter[j] = "inspect"
  /\ container[j] # "gone"
  /\ registry' = registry \cup {j}
  /\ mu' = NoJob
  /\ execMon' = [execMon EXCEPT ![j] = "begin"]
  /\ jobMon' = [jobMon EXCEPT ![j].pc = "tick"]
  /\ StarterTo(j, "done")
  /\ UNCHANGED <<row, cancelled, daemonVars, req>>

\* The failure of Start goes to the row, through a context that was made
\* before the image pull and lives 30 s.
StartFailed(j) ==
  /\ starter[j] = "failing"
  /\ StarterTo(j, "done")
  /\ \/ UpdateStatus(j, "failed")
     \/ {"db", "deadline"} \cap Faults # {} /\ UNCHANGED row
  /\ UNCHANGED <<executorVars, daemonVars, execMon, jobMon, req>>

StarterStep(j) ==
  \/ StartFetch(j) \/ StartMark(j) \/ StartLock(j) \/ StartCreate(j)
  \/ StartLaunch(j) \/ StartRegister(j) \/ StartFailed(j)

-----------------------------------------------------------------------------
(* monitorContainer, handleContainerExit, handleJobFailure, cleanupJob.      *)

ExecMonTo(j, pc) == execMon' = [execMon EXCEPT ![j] = pc]

\* ContainerWait is refused when the container is gone already.
ExecWait(j) ==
  /\ execMon[j] = "begin"
  /\ \/ container[j] # "gone" /\ ExecMonTo(j, "waiting")
     \/ container[j] = "gone" /\ ExecMonTo(j, "unregister")
  /\ UNCHANGED <<row, starter, executorVars, daemonVars, jobMon, req>>

ExecExited(j) ==
  /\ execMon[j] = "waiting"
  /\ container[j] \in {"exited", "gone"} \/ "docker" \in Faults
  /\ ExecMonTo(j, "unregister")
  /\ UNCHANGED <<row, starter, executorVars, daemonVars, jobMon, req>>

\* The context of the job was cancelled: either that case of the select, which
\* cleans nothing up, or the error the wait returns for it.
ExecCancelled(j) ==
  /\ execMon[j] \in {"begin", "waiting"}
  /\ j \in cancelled
  /\ ExecMonTo(j, "done") \/ ExecMonTo(j, "unregister")
  /\ UNCHANGED <<row, starter, executorVars, daemonVars, jobMon, req>>

\* Mutant: a container that ended is not taken out of the registry.
ExecUnregister_Forgets(j) ==
  /\ execMon[j] = "unregister"
  /\ mu = NoJob
  /\ ExecMonTo(j, "stop")
  /\ UNCHANGED <<row, starter, executorVars, daemonVars, jobMon, req>>

ExecUnregister(j) ==
  /\ execMon[j] = "unregister"
  /\ mu = NoJob
  /\ registry' = registry \ {j}
  /\ ExecMonTo(j, "stop")
  /\ UNCHANGED <<row, starter, mu, cancelled, daemonVars, jobMon, req>>

ExecStop(j) ==
  /\ execMon[j] = "stop"
  /\ ContainerStop(j, "docker" \in Faults)
  /\ ExecMonTo(j, "done")
  /\ UNCHANGED <<row, starter, executorVars, jobMon, req>>

ExecStep(j) ==
  \/ ExecWait(j) \/ ExecExited(j) \/ ExecCancelled(j) \/ ExecUnregister(j)
  \/ ExecStop(j)

-----------------------------------------------------------------------------
(* monitorJobCompletion: IsRunning, then GetStatus, then the final status.    *)
(* GetStatus looks the job up under e.mu and inspects the container after.   *)

JobMonTo(j, pc) == jobMon' = [jobMon EXCEPT ![j].pc = pc]

\* Every tick makes a context of 10 s for all it does.
MonTick(j) ==
  /\ jobMon[j].pc = "tick"
  /\ jobMon' = [jobMon EXCEPT ![j] = [NoMon EXCEPT !.pc = "lookup1"]]
  /\ UNCHANGED <<row, starter, executorVars, daemonVars, execMon, req>>

\* Another job's Start holds e.mu for longer than that.
MonDeadline(j) ==
  /\ jobMon[j].pc \in {"lookup1", "lookup2"}
  /\ ~jobMon[j].late
  /\ mu # NoJob
  /\ "deadline" \in Faults
  /\ jobMon' = [jobMon EXCEPT ![j].late = TRUE]
  /\ UNCHANGED <<row, starter, executorVars, daemonVars, execMon, req>>

\* Mutant: an exited container counts as completed, whatever its code.
InspectStatus_IgnoresCode(j) ==
  CASE container[j] = "running" -> "running"
    [] container[j] = "exited" -> "completed"
    [] OTHER -> "failed"

\* What GetStatus says of a job in the registry.
InspectStatus(j) ==
  CASE container[j] = "running" -> "running"
    [] container[j] = "exited" /\ exitCode[j] = "ok" -> "completed"
    [] container[j] = "exited" /\ exitCode[j] = "bad" -> "failed"
    [] OTHER -> "failed"

\* Mutant: the row gets the status GetStatus gave, final or not.
FinalStatus_AsGiven(s) == s

\* The statuses that are not final become "failed", as does a job that is not
\* in the registry any more ("Training ended with unknown status").
FinalStatus(s) == IF s = "completed" THEN "completed" ELSE "failed"

MonLookup1(j) ==
  /\ jobMon[j].pc = "lookup1"
  /\ mu = NoJob
  /\ JobMonTo(j, IF j \in registry THEN "inspect1" ELSE "lookup2")
  /\ UNCHANGED <<row, starter, executorVars, daemonVars, execMon, req>>

InspectFails(j) == jobMon[j].late \/ "docker" \in Faults

MonInspect1(j) ==
  /\ jobMon[j].pc = "inspect1"
  /\ \/ /\ ~jobMon[j].late
        /\ JobMonTo(j, IF InspectStatus(j) = "running" THEN "tick"
                       ELSE "lookup2")
     \/ InspectFails(j) /\ JobMonTo(j, "lookup2")
  /\ UNCHANGED <<row, starter, executorVars, daemonVars, execMon, req>>

MonLookup2(j) ==
  /\ jobMon[j].pc = "lookup2"
  /\ mu = NoJob
  /\ IF j \in registry
     THEN JobMonTo(j, "inspect2")
     ELSE jobMon' = [jobMon EXCEPT ![j].pc = "write", ![j].verdict = "failed"]
  /\ UNCHANGED <<row, starter, executorVars, daemonVars, execMon, req>>

MonInspect2(j) ==
  /\ jobMon[j].pc = "inspect2"
  /\ \E s \in {FinalStatus(InspectStatus(j)), "failed"} :
       /\ \/ s = FinalStatus(InspectStatus(j)) /\ ~jobMon[j].late
          \/ s = "failed" /\ InspectFails(j)
       /\ jobMon' = [jobMon EXCEPT ![j].pc = "write", ![j].verdict = s]
  /\ UNCHANGED <<row, starter, executorVars, daemonVars, execMon, req>>

\* The error of the final write is dropped, and the monitor ends.
MonWrite(j) ==
  /\ jobMon[j].pc = "write"
  /\ \/ ~jobMon[j].late /\ UpdateStatus(j, jobMon[j].verdict)
     \/ (jobMon[j].late \/ "db" \in Faults) /\ UNCHANGED row
  /\ JobMonTo(j, "done")
  /\ UNCHANGED <<starter, executorVars, daemonVars, execMon, req>>

MonStep(j) ==
  \/ MonTick(j) \/ MonLookup1(j) \/ MonInspect1(j) \/ MonLookup2(j)
  \/ MonInspect2(j) \/ MonWrite(j)

-----------------------------------------------------------------------------
(* UpdateJob, DeleteJob and StopJob, each in the goroutine of its request.    *)

ReqTo(c, pc) == req' = [req EXCEPT ![c].pc = pc]
Return(c)    == req' = [req EXCEPT ![c] = NoReq]

\* A query of the request can fail, and must when its context is cancelled.
DbFails(c)     == "db" \in Faults \/ ~req[c].live
DockerFails(c) == "docker" \in Faults \/ ~req[c].live

Call(c, op, j) ==
  /\ req[c].pc = "idle"
  /\ starter[j] # "idle"
  /\ req' = [req EXCEPT ![c] =
               [NoReq EXCEPT !.pc = IF op = "stop" THEN "stopRead" ELSE "read",
                             !.op = op, !.job = j]]
  /\ UNCHANGED <<row, starter, executorVars, daemonVars, execMon, jobMon>>

Disconnect(c) ==
  /\ "disconnect" \in Faults
  /\ req[c].pc # "idle" /\ req[c].live
  /\ req' = [req EXCEPT ![c].live = FALSE]
  /\ UNCHANGED <<row, starter, executorVars, daemonVars, execMon, jobMon>>

\* UpdateJob: refused when the status read is running; Save writes back every
\* column that was read, and inserts the row when it is gone.
UpdateRead(c) ==
  LET s == row[req[c].job] IN
  /\ req[c].pc = "read" /\ req[c].op = "update"
  /\ \/ /\ req[c].live /\ s \notin {"none", "running"}
        /\ req' = [req EXCEPT ![c].pc = "save", ![c].seen = s]
     \/ /\ s \in {"none", "running"} \/ DbFails(c)
        /\ Return(c)
  /\ UNCHANGED <<row, starter, executorVars, daemonVars, execMon, jobMon>>

UpdateSave(c) ==
  /\ req[c].pc = "save"
  /\ \/ req[c].live /\ row' = [row EXCEPT ![req[c].job] = req[c].seen]
     \/ DbFails(c) /\ UNCHANGED row
  /\ Return(c)
  /\ UNCHANGED <<starter, executorVars, daemonVars, execMon, jobMon>>

\* DeleteJob: a job that was read as running is stopped first.
DeleteRead(c) ==
  LET s == row[req[c].job] IN
  /\ req[c].pc = "read" /\ req[c].op = "delete"
  /\ \/ req[c].live /\ s = "running" /\ ReqTo(c, "stopRead")
     \/ req[c].live /\ s \notin {"none", "running"} /\ ReqTo(c, "delete")
     \/ (s = "none" \/ DbFails(c)) /\ Return(c)
  /\ UNCHANGED <<row, starter, executorVars, daemonVars, execMon, jobMon>>

DeleteRow(c) ==
  /\ req[c].pc = "delete"
  /\ \/ req[c].live /\ row' = [row EXCEPT ![req[c].job] = "none"]
     \/ DbFails(c) /\ UNCHANGED row
  /\ Return(c)
  /\ UNCHANGED <<starter, executorVars, daemonVars, execMon, jobMon>>

\* StopJob, first half: the check and the row.
StopRead(c) ==
  LET s == row[req[c].job] IN
  /\ req[c].pc = "stopRead"
  /\ \/ req[c].live /\ CanStop(s) /\ ReqTo(c, "stopMark")
     \/ (~CanStop(s) \/ DbFails(c)) /\ Return(c)
  /\ UNCHANGED <<row, starter, executorVars, daemonVars, execMon, jobMon>>

StopMark(c) ==
  /\ req[c].pc = "stopMark"
  /\ \/ /\ req[c].live
        /\ UpdateStatus(req[c].job, "stopping")
        /\ ReqTo(c, "stopLookup")
     \/ DbFails(c) /\ Return(c) /\ UNCHANGED row
  /\ UNCHANGED <<starter, executorVars, daemonVars, execMon, jobMon>>

\* Mutant: the entry is deleted before the container is stopped.
StopLookup_DeletesFirst(c) ==
  /\ req[c].pc = "stopLookup"
  /\ mu = NoJob
  /\ IF req[c].job \in registry
     THEN /\ cancelled' = cancelled \cup {req[c].job}
          /\ registry' = registry \ {req[c].job}
          /\ ReqTo(c, "stopDocker")
     ELSE ReqTo(c, "stopOrphan") /\ UNCHANGED <<registry, cancelled>>
  /\ UNCHANGED <<row, starter, mu, daemonVars, execMon, jobMon>>

\* Mutant: a job that is not in the registry is an error, and StopJob returns it.
StopLookup_UnknownIsError(c) ==
  /\ req[c].pc = "stopLookup"
  /\ mu = NoJob
  /\ IF req[c].job \in registry
     THEN cancelled' = cancelled \cup {req[c].job} /\ ReqTo(c, "stopDocker")
     ELSE Return(c) /\ UNCHANGED cancelled
  /\ UNCHANGED <<row, starter, mu, registry, daemonVars, execMon, jobMon>>

\* DockerExecutor.Stop: a job in the registry is cancelled, stopped, taken out
\* and stopped again; for any other, containers are looked up by name.
StopLookup(c) ==
  /\ req[c].pc = "stopLookup"
  /\ mu = NoJob
  /\ IF req[c].job \in registry
     THEN cancelled' = cancelled \cup {req[c].job} /\ ReqTo(c, "stopDocker")
     ELSE ReqTo(c, "stopOrphan") /\ UNCHANGED cancelled
  /\ UNCHANGED <<row, starter, mu, registry, daemonVars, execMon, jobMon>>

\* Mutant: when the daemon refuses, Stop returns and cleans nothing up.
StopDocker_ReturnsOnError(c) ==
  /\ req[c].pc = "stopDocker"
  /\ \/ ContainerStop(req[c].job, FALSE) /\ ReqTo(c, "stopUnregister")
     \/ DockerFails(c) /\ ReqTo(c, "stopFinal") /\ UNCHANGED daemonVars
  /\ UNCHANGED <<row, starter, executorVars, execMon, jobMon>>

\* ContainerStop, ContainerKill if that fails, and a wait that ends as soon as
\* ContainerWait has handed out its channels, or after 35 s: in every case Stop
\* goes on to cleanupJob.
StopDocker(c) ==
  /\ req[c].pc = "stopDocker"
  /\ ContainerStop(req[c].job, DockerFails(c))
  /\ ReqTo(c, "stopUnregister")
  /\ UNCHANGED <<row, starter, executorVars, execMon, jobMon>>

\* Mutant: Stop leaves the registry to monitorContainer and waits for it.
StopUnregister_Waits(c) ==
  /\ req[c].pc = "stopUnregister"
  /\ mu = NoJob
  /\ req[c].job \notin registry
  /\ ReqTo(c, "stopAgain")
  /\ UNCHANGED <<row, starter, executorVars, daemonVars, execMon, jobMon>>

StopUnregister(c) ==
  /\ req[c].pc = "stopUnregister"
  /\ mu = NoJob
  /\ registry' = registry \ {req[c].job}
  /\ ReqTo(c, "stopAgain")
  /\ UNCHANGED <<row, starter, mu, cancelled, daemonVars, execMon, jobMon>>

\* cleanupJob makes a context of its own.
StopAgain(c) ==
  /\ req[c].pc = "stopAgain"
  /\ ContainerStop(req[c].job, "docker" \in Faults)
  /\ ReqTo(c, "stopFinal")
  /\ UNCHANGED <<row, starter, executorVars, execMon, jobMon>>

StopOrphan(c) ==
  /\ req[c].pc = "stopOrphan"
  /\ ContainerStop(req[c].job, DockerFails(c))
  /\ ReqTo(c, "stopFinal")
  /\ UNCHANGED <<row, starter, executorVars, execMon, jobMon>>

\* StopJob, second half: whatever Stop answered, the row becomes cancelled.
StopFinal(c) ==
  /\ req[c].pc = "stopFinal"
  /\ \/ /\ req[c].live
        /\ UpdateStatus(req[c].job, "cancelled")
        /\ IF req[c].op = "delete" THEN ReqTo(c, "delete") ELSE Return(c)
     \/ DbFails(c) /\ Return(c) /\ UNCHANGED row
  /\ UNCHANGED <<starter, executorVars, daemonVars, execMon, jobMon>>

ReqStep(c) ==
  \/ UpdateRead(c) \/ UpdateSave(c) \/ DeleteRead(c) \/ DeleteRow(c)
  \/ StopRead(c) \/ StopMark(c) \/ StopLookup(c) \/ StopDocker(c)
  \/ StopUnregister(c) \/ StopAgain(c) \/ StopOrphan(c) \/ StopFinal(c)

-----------------------------------------------------------------------------
(* The process dies and is started again: main recovers nothing from the rows *)
(* or the daemon, and the containers go on.                                  *)

ProcessDies ==
  /\ starter' = [j \in Jobs |-> IF starter[j] \in {"idle", "done"}
                                THEN starter[j] ELSE "dead"]
  /\ mu' = NoJob
  /\ registry' = {}
  /\ execMon' = [j \in Jobs |-> IF execMon[j] = "none" THEN "none" ELSE "done"]
  /\ jobMon' = [j \in Jobs |-> IF jobMon[j] = NoMon THEN NoMon
                               ELSE [NoMon EXCEPT !.pc = "done"]]
  /\ req' = [c \in Clients |-> NoReq]
  /\ UNCHANGED <<row, cancelled, daemonVars>>

Crash ==
  /\ "crash" \in Faults
  /\ ProcessDies

\* The inspection fails: Start logs it and reads info.State.Pid, which is a nil
\* pointer then, in a goroutine that recovers no panic.
StartPanic(j) ==
  /\ starter[j] = "inspect"
  /\ container[j] = "gone" \/ "docker" \in Faults
  /\ ProcessDies

-----------------------------------------------------------------------------
JobStep(j) ==
  \/ CreateJob(j) \/ StarterStep(j) \/ StartPanic(j) \/ ExecStep(j)
  \/ MonStep(j) \/ MonDeadline(j) \/ ContainerExit(j) \/ AutoRemove(j)

ClientStep(c) ==
  \/ \E op \in Ops, j \in Jobs : Call(c, op, j)
  \/ ReqStep(c) \/ Disconnect(c)

Next ==
  \/ \E j \in Jobs : JobStep(j)
  \/ \E c \in Clients : ClientStep(c)
  \/ Crash

Spec == Init /\ [][Next]_vars

\* The Go scheduler runs every goroutine, and the daemon removes what exited.
Fairness ==
  /\ \A j \in Jobs : /\ WF_vars(StarterStep(j)) /\ WF_vars(ExecStep(j))
                     /\ WF_vars(MonStep(j)) /\ WF_vars(AutoRemove(j))
  /\ \A c \in Clients : WF_vars(ReqStep(c))

FairSpec == Spec /\ Fairness

\* Besides, every training process ends at some time.
TerminatingSpec == FairSpec /\ \A j \in Jobs : WF_vars(ContainerExit(j))

-----------------------------------------------------------------------------
(* Safety, whatever fails.                                                    *)

\* A job whose row says completed has a container that exited with 0: no order
\* of stops, crashes, lost queries and late monitors reports a success that was
\* not one (the GetStatus and monitorJobCompletion switches).
CompletedMeansExitedZero ==
  \A j \in Jobs : row[j] = "completed" => exitCode[j] = "ok"

\* Each entry of DockerExecutor.jobs has a goroutine that will take it out: its
\* monitorContainer, or the Stop that cancelled that one.  An entry with neither
\* would make IsRunning poll a container that no longer exists, for ever.
Stopping(c, j) == req[c].job = j /\ req[c].pc \in {"stopDocker", "stopUnregister"}

RegistryOwned ==
  \A j \in registry :
    \/ execMon[j] \in {"begin", "waiting", "unregister"}
    \/ \E c \in Clients : Stopping(c, j)

\* A goroutine has e.mu exactly while it is in Start between the lock and the
\* return, on every path out of Start and through every failure.
MutexHeldByStarter ==
  \A j \in Jobs : (mu = j) <=> (starter[j] \in Locked)

-----------------------------------------------------------------------------
(* Safety while nothing fails.                                                *)

\* A row that is not final has a goroutine that will change it: the starter for
\* pending, the completion monitor for running, a stop for stopping.
RowOwned ==
  \A j \in Jobs :
    /\ row[j] = "pending" => starter[j] \in {"sleep", "mark"}
    /\ row[j] = "running" =>
         starter[j] \in {"lock", "failing"} \cup Locked
           \/ jobMon[j].pc \notin {"none", "done"}
    /\ row[j] = "stopping" =>
         \/ starter[j] \in {"sleep", "mark", "lock"} \cup Locked
         \/ jobMon[j].pc \notin {"none", "done"}
         \/ \E c \in Clients :
              /\ req[c].job = j
              /\ req[c].pc \in {"stopLookup", "stopDocker", "stopUnregister",
                                "stopAgain", "stopOrphan", "stopFinal"}

\* No container runs behind the executor's back: it is in the registry and
\* watched, or still in Start, or somebody is about to stop it.
ContainerSupervised ==
  \A j \in Jobs : container[j] = "running" =>
    \/ starter[j] = "inspect"
    \/ j \in registry /\ execMon[j] \in {"begin", "waiting"}
    \/ \E c \in Clients : req[c].job = j
                          /\ req[c].pc \in {"stopDocker", "stopUnregister",
                                            "stopAgain"}
    \/ execMon[j] \in {"unregister", "stop"}

\* A completion monitor gives up on a job only when its container is over or
\* being stopped.
MonitorQuitsWhenOver ==
  \A j \in Jobs : jobMon[j].pc = "done" =>
    \/ container[j] # "running"
    \/ \E c \in Clients : req[c].job = j /\ req[c].pc = "stopAgain"
    \/ execMon[j] = "stop"

-----------------------------------------------------------------------------
(* Liveness.                                                                  *)

\* Every job ends with a final status, and keeps it, or without a row.
JobSettles ==
  \A j \in Jobs :
    starter[j] # "idle" ~> [](row[j] \in Terminal \cup {"none"})

\* The registry forgets every job.
RegistryDrains == \A j \in Jobs : j \in registry ~> j \notin registry

\* No request waits for ever, for e.mu in particular.
RequestReturns == \A c \in Clients : req[c].pc # "idle" ~> req[c].pc = "idle"
=============================================================================
