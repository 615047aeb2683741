------------------------ MODULE DeploySchedulerProofs ------------------------
(***************************************************************************)
(* Proofs that DeployScheduler is type correct, that no task is worked on  *)
(* by two goroutines, that no service runs before its image exists, and    *)
(* that, with one request at a time, no task is lost behind rs.last: for   *)
(* any number of spaces, models, goroutines, rows, database failures and   *)
(* restarts.                                                               *)
(***************************************************************************)
EXTENDS DeployScheduler, TLAPS

\* What runners and requests refer to is in the tables.
Linked ==
  /\ \A w \in Workers : Busy(w) =>
        worker[w].task \in TaskIDs /\ tasks[worker[w].task].deploy \in DeployIDs
  /\ \A c \in Clients : client[c].pc \notin {"idle", "row"} => client[c].d \in DeployIDs
  /\ \A c \in Clients : client[c].pc # "idle" => client[c].target \in Targets
  /\ \A c \in Clients : client[c].pc \in {"buildcommit", "runcommit"} =>
        client[c].task \in TaskIDs

\* A task that a goroutine works on was taken before: rs.last is not below it.
TakenBefore == \A w \in Workers : Busy(w) => worker[w].task <= last

TypeInv == TypeOK /\ Linked

----------------------------------------------------------------------------
(* Rows and process states that the actions write have their types. *)

LEMMA RowTypes ==
  /\ NoDeploy \in DeployRow /\ NoTask \in TaskRow
  /\ Gone \in WorkerState /\ Idle \in WorkerState
  /\ NoRequest \in ClientState
  /\ NoService \in [deploy : 0..MaxDeploys, code : RunnerCodes \cup {Stopped}]
<1> USE DeployAssumption
<1>1. NoDeploy \in DeployRow /\ NoTask \in TaskRow
  BY DEF NoDeploy, DeployRow, NoTask, TaskRow, DeployStatus, TaskStatus
<1>2. NoSnap \in [TaskIDs -> TaskStatus \cup {NotOfDeploy}]
  BY DEF NoSnap
<1>3. Gone \in WorkerState /\ Idle \in WorkerState
  BY <1>2 DEF Gone, Idle, Goroutine, WorkerState, WorkerPcs, TaskStatus, Codes
<1>4. NoRequest \in ClientState
  BY DEF NoRequest, ClientState, ClientPcs, DeployStatus
<1>5. NoService \in [deploy : 0..MaxDeploys, code : RunnerCodes \cup {Stopped}]
  BY DEF NoService
<1> QED BY <1>1, <1>3, <1>4, <1>5

LEMMA StatusTypes ==
  /\ {cancelled, buildInProgress, buildFailed, buildSucceed, BuildSkip, deploying, deployFailed,
      deployStartUp, deployRunning, deployRunTimeError} \subseteq TaskStatus
  /\ {Pending, Building, BuildFailed, BuildSuccess, Deploying, DeployFailed, Startup, Running,
      RunTimeError, Stopped, Deleted} \subseteq DeployStatus
BY DEF TaskStatus, DeployStatus, cancelled, buildInProgress, buildFailed, buildSucceed,
  BuildSkip, deploying, deployFailed, deployStartUp, deployRunning, deployRunTimeError

LEMMA InitTypeInv == Init => TypeInv
<1> SUFFICES ASSUME Init PROVE TypeInv
  OBVIOUS
<1> USE DeployAssumption
<1>1. StoreType
  BY RowTypes DEF Init, StoreType, DeployIDs, TaskIDs
<1>2. ProcessType
  BY RowTypes DEF Init, ProcessType, Primed
<1>3. ExternalType
  BY RowTypes DEF Init, ExternalType
<1>4. Linked
  BY DEF Init, Linked, Busy, Primed, Gone, Idle, Goroutine, NoRequest
<1> QED BY <1>1, <1>2, <1>3, <1>4 DEF TypeInv, TypeOK

----------------------------------------------------------------------------
(* The store operators keep the types and the links of the tables. *)

LEMMA UpdateInTxType ==
  ASSUME StoreType,
         NEW nd, nd \in [DeployIDs -> DeployRow],
         NEW nt, nt \in [TaskIDs -> TaskRow],
         \A t \in TaskIDs : nt[t].deploy = tasks[t].deploy,
         UpdateInTx(nd, nt)
  PROVE  /\ deploys' \in [DeployIDs -> DeployRow]
         /\ tasks' \in [TaskIDs -> TaskRow]
         /\ faults' \in 0..MaxFaults
         /\ \A t \in TaskIDs : tasks'[t].deploy = tasks[t].deploy
<1>1. CASE deploys' = nd /\ tasks' = nt /\ UNCHANGED faults
  BY <1>1 DEF StoreType
<1>2. CASE faults < MaxFaults /\ faults' = faults + 1 /\ UNCHANGED <<deploys, tasks>>
  BY <1>2, DeployAssumption DEF StoreType
<1> QED BY <1>1, <1>2 DEF UpdateInTx

LEMMA SetStatusType ==
  ASSUME TypeInv, NEW w \in Workers, Busy(w),
         NEW ds \in DeployStatus, NEW ts \in TaskStatus, SetStatus(w, ds, ts)
  PROVE  /\ deploys' \in [DeployIDs -> DeployRow]
         /\ tasks' \in [TaskIDs -> TaskRow]
         /\ faults' \in 0..MaxFaults
         /\ \A t \in TaskIDs : tasks'[t].deploy = tasks[t].deploy
<1> DEFINE nd == [deploys EXCEPT ![DeployOf(w)].status = ds]
           nt == [tasks EXCEPT ![worker[w].task].status = ts]
<1>1. worker[w].task \in TaskIDs
  BY DEF TypeInv, Linked
<1>2. nd \in [DeployIDs -> DeployRow]
  BY DEF TypeInv, TypeOK, StoreType, DeployRow
<1>3. nt \in [TaskIDs -> TaskRow] /\ \A t \in TaskIDs : nt[t].deploy = tasks[t].deploy
  BY <1>1 DEF TypeInv, TypeOK, StoreType, TaskRow
<1>4. UpdateInTx(nd, nt)
  BY DEF SetStatus
<1> HIDE DEF nd, nt
<1> QED BY <1>2, <1>3, <1>4, UpdateInTxType DEF TypeInv, TypeOK

LEMMA RunNextType ==
  ASSUME TypeInv, NEW w \in Workers, RunNext(w)  PROVE TypeInv'
<1> USE DeployAssumption
<1>1. PICK t \in TaskIDs : TakeTask(t) /\ worker' = [worker EXCEPT ![w] = RunnerOf(t)]
  BY DEF RunNext
<1>2. RunnerOf(t) \in WorkerState /\ RunnerOf(t).task = t /\ tasks[t].deploy \in DeployIDs
  BY <1>1 DEF RunnerOf, Goroutine, TakeTask, GetNewTaskFirst, GetNewTaskAfter, Unfinished,
     TypeInv, TypeOK, StoreType, TaskRow, WorkerState, WorkerPcs, NoSnap, Codes, TaskIDs, DeployIDs
<1>3. StoreType' /\ ExternalType'
  BY DEF RunNext, TypeInv, TypeOK, StoreType, ExternalType, store, external
<1>4. ProcessType'
  BY <1>1, <1>2 DEF RunNext, TypeInv, TypeOK, ProcessType, TakeTask, TaskIDs
<1>5. Linked'
  BY <1>1, <1>2 DEF RunNext, TypeInv, TypeOK, ProcessType, Linked, Busy, store
<1> QED BY <1>3, <1>4, <1>5 DEF TypeInv, TypeOK
----------------------------------------------------------------------------
(* A goroutine that works on a task changes only itself, and keeps its task *)
(* until it is done with it.                                                *)

OwnStep(w) ==
  /\ worker' \in [Workers -> WorkerState]
  /\ \A v \in Workers \ {w} : worker'[v] = worker[v]
  /\ worker'[w].pc \in {"none", "idle"} \/ worker'[w].task = worker[w].task
  /\ Busy(w)
  /\ UNCHANGED <<last, handed, dropped, client, nextTask, alive, restarts>>

RunnerStep(w) ==
  \/ ReadFollowing(w) \/ FailFollowing(w)
  \/ BuildError(w) \/ Build(w) \/ MarkBuildInProgress(w)
  \/ BuildSucceeds(w) \/ BuildFails(w)
  \/ MakeDeployRequest(w) \/ RunError(w) \/ RunImage(w)
  \/ MarkDeploying(w) \/ Poll(w) \/ Finish(w) \/ FinishError(w)
  \/ UnknownStatus(w) \/ KeepPolling(w) \/ CancelDeploy(w) \/ RequestError(w)

LEMMA RunnerStepOwn ==
  ASSUME TypeInv, NEW w \in Workers, RunnerStep(w)
  PROVE  OwnStep(w)
<1> USE DeployAssumption, RowTypes
<1>0. worker \in [Workers -> WorkerState]
  BY DEF TypeInv, TypeOK, ProcessType
<1> USE DEF OwnStep, Busy, Goto, Return, Done, Goroutine, store
<1>1. ASSUME Return(w) PROVE worker' \in [Workers -> WorkerState]
  <2>1. Goroutine("err", worker[w].task, 0) \in WorkerState
    BY <1>0 DEF WorkerState, WorkerPcs, TaskStatus, Codes, NoSnap
  <2> QED BY <1>0, <1>1, <2>1
<1>2. ASSUME NEW l \in WorkerPcs, Goto(w, l) PROVE worker' \in [Workers -> WorkerState]
  BY <1>0, <1>2 DEF WorkerState
<1>3. ASSUME Done(w) PROVE worker' \in [Workers -> WorkerState]
  BY <1>0, <1>3
<1>4. CASE ReadFollowing(w)
  <2>1. [t \in TaskIDs |-> IF t \in GetDeployTasksOfDeploy(DeployOf(w))
                           THEN tasks[t].status ELSE NotOfDeploy]
          \in [TaskIDs -> TaskStatus \cup {NotOfDeploy}]
    BY DEF TypeInv, TypeOK, StoreType, TaskRow
  <2> QED BY <1>0, <1>4, <2>1 DEF ReadFollowing, WorkerState, WorkerPcs
<1>5. CASE FailFollowing(w)
  BY <1>0, <1>3, <1>5 DEF FailFollowing, Idle
<1>6. CASE BuildError(w) \/ UnknownStatus(w) \/ RequestError(w)
  BY <1>0, <1>1, <1>6 DEF BuildError, UnknownStatus, RequestError
<1>7. CASE Build(w)
  BY <1>0, <1>2, <1>7 DEF Build, WorkerPcs
<1>8. CASE MarkBuildInProgress(w)
  <2>1. worker' = [worker EXCEPT ![w].pc = "build", ![w].st = buildInProgress]
    BY <1>8 DEF MarkBuildInProgress
  <2>2. worker' \in [Workers -> WorkerState] /\ worker'[w].task = worker[w].task
    BY <1>0, <2>1, StatusTypes DEF WorkerState, WorkerPcs
  <2> QED BY <1>0, <1>8, <2>1, <2>2 DEF MarkBuildInProgress
<1>9. CASE BuildSucceeds(w) \/ BuildFails(w) \/ Finish(w)
  BY <1>0, <1>3, <1>9 DEF BuildSucceeds, BuildFails, Finish, Idle
<1>10. CASE MakeDeployRequest(w)
  BY <1>0, <1>2, <1>10 DEF MakeDeployRequest, WorkerPcs
<1>11. CASE RunError(w) \/ FinishError(w)
  BY <1>0, <1>1, <1>11 DEF RunError, FinishError
<1>12. CASE RunImage(w)
  BY <1>0, <1>2, <1>12 DEF RunImage, WorkerPcs
<1>13. CASE MarkDeploying(w)
  <2>1. worker' = [worker EXCEPT ![w].pc = "poll", ![w].st = deploying]
    BY <1>13 DEF MarkDeploying
  <2>2. worker' \in [Workers -> WorkerState] /\ worker'[w].task = worker[w].task
    BY <1>0, <2>1, StatusTypes DEF WorkerState, WorkerPcs
  <2> QED BY <1>0, <1>13, <2>1, <2>2 DEF MarkDeploying
<1>14. CASE Poll(w)
  <2> DEFINE s == svc[SvcName(DeployOf(w))]
  <2>1. DeployOf(w) \in DeployIDs
    BY <1>14 DEF Poll, TypeInv, Linked, DeployOf
  <2>2. s.code \in Codes
    BY <2>1 DEF SvcName, SvcNames, TypeInv, TypeOK, ExternalType, Codes
  <2>3. (IF s.deploy > DeployOf(w) THEN Superseded ELSE s.code) \in Codes
    BY <2>2 DEF Codes
  <2> QED BY <1>0, <1>14, <2>3 DEF Poll, WorkerState, WorkerPcs
<1>15. CASE KeepPolling(w)
  <2>1. PICK st \in {deploying, deployStartUp} :
          worker' = [worker EXCEPT ![w].pc = "poll", ![w].st = st, ![w].code = 0]
    BY <1>15 DEF KeepPolling
  <2>2. worker' \in [Workers -> WorkerState] /\ worker'[w].task = worker[w].task
    BY <1>0, <2>1, StatusTypes DEF WorkerState, WorkerPcs
  <2> QED BY <1>0, <1>15, <2>1, <2>2 DEF KeepPolling
<1>16. CASE CancelDeploy(w)
  <2>1. CASE worker' = [worker EXCEPT ![w].code = TimedOut]
    BY <1>0, <1>16, <2>1 DEF CancelDeploy, WorkerState, Codes
  <2>2. CASE Return(w)
    BY <1>0, <1>1, <1>16, <2>2 DEF CancelDeploy
  <2> QED BY <1>16, <2>1, <2>2 DEF CancelDeploy
<1> QED
  BY <1>4, <1>5, <1>6, <1>7, <1>8, <1>9, <1>10, <1>11, <1>12, <1>13, <1>14, <1>15, <1>16
  DEF RunnerStep
----------------------------------------------------------------------------
(* What a runner writes to the store and to the remote services. *)

\* A runner leaves the links from tasks to deploys as they are.
StoreStep ==
  /\ deploys' \in [DeployIDs -> DeployRow]
  /\ tasks' \in [TaskIDs -> TaskRow]
  /\ faults' \in 0..MaxFaults
  /\ \A t \in TaskIDs : tasks'[t].deploy = tasks[t].deploy

LEMMA RunnerStepStore ==
  ASSUME TypeInv, NEW w \in Workers, RunnerStep(w)
  PROVE  StoreStep
<1>0. Busy(w)
  BY RunnerStepOwn DEF OwnStep
<1>1. worker[w].task \in TaskIDs /\ DeployOf(w) \in DeployIDs
  BY <1>0 DEF TypeInv, Linked, DeployOf
<1>2. deploys \in [DeployIDs -> DeployRow] /\ tasks \in [TaskIDs -> TaskRow]
       /\ faults \in 0..MaxFaults
  BY DEF TypeInv, TypeOK, StoreType
<1>3. ASSUME UNCHANGED <<deploys, tasks, faults>> PROVE StoreStep
  BY <1>2, <1>3 DEF StoreStep
<1>4. ASSUME NEW ds \in DeployStatus, NEW ts \in TaskStatus, SetStatus(w, ds, ts)
      PROVE  StoreStep
  BY <1>0, <1>4, SetStatusType DEF StoreStep
<1>5. CASE ReadFollowing(w) \/ BuildError(w) \/ Build(w) \/ MakeDeployRequest(w) \/ RunError(w)
           \/ RunImage(w) \/ Poll(w) \/ UnknownStatus(w) \/ CancelDeploy(w) \/ RequestError(w)
  BY <1>3, <1>5 DEF ReadFollowing, BuildError, Build, MakeDeployRequest, RunError, RunImage, Poll,
     UnknownStatus, CancelDeploy, RequestError, store
<1>6. CASE MarkBuildInProgress(w) \/ BuildFails(w) \/ MarkDeploying(w)
  BY <1>4, <1>6, StatusTypes DEF MarkBuildInProgress, BuildFails, MarkDeploying
<1>7. CASE Finish(w) \/ FinishError(w) \/ KeepPolling(w)
  BY <1>4, <1>7, StatusTypes DEF Finish, FinishError, KeepPolling
<1>8. CASE BuildSucceeds(w)
  <2> DEFINE nd == [deploys EXCEPT ![DeployOf(w)].status = BuildSuccess,
                                   ![DeployOf(w)].image = TRUE]
             nt == [tasks EXCEPT ![worker[w].task].status = buildSucceed]
  <2>1. nd \in [DeployIDs -> DeployRow]
    BY <1>1, <1>2, StatusTypes DEF DeployRow
  <2>2. nt \in [TaskIDs -> TaskRow] /\ \A t \in TaskIDs : nt[t].deploy = tasks[t].deploy
    BY <1>1, <1>2, StatusTypes DEF TaskRow
  <2>3. UpdateInTx(nd, nt)
    BY <1>8 DEF BuildSucceeds
  <2> HIDE DEF nd, nt
  <2> QED BY <2>1, <2>2, <2>3, UpdateInTxType DEF StoreStep, TypeInv, TypeOK
<1>9. CASE FailFollowing(w)
  <2> DEFINE new(t) == [deploy |-> tasks[t].deploy, type |-> tasks[t].type,
                        status |-> FollowingStatus(w, t)]
             nt == [t \in TaskIDs |-> IF worker[w].snap[t] # NotOfDeploy THEN new(t) ELSE tasks[t]]
  <2>1. ASSUME NEW t \in TaskIDs, worker[w].snap[t] # NotOfDeploy
        PROVE  FollowingStatus(w, t) \in TaskStatus
    BY <2>1, StatusTypes DEF FollowingStatus, TypeInv, TypeOK, ProcessType, WorkerState
  <2>2. ASSUME NEW t \in TaskIDs PROVE nt[t] \in TaskRow /\ nt[t].deploy = tasks[t].deploy
    <3>1. CASE worker[w].snap[t] # NotOfDeploy
      <4>1. tasks[t].deploy \in 0..MaxDeploys /\ tasks[t].type \in {0, 1}
        BY <1>2 DEF TaskRow
      <4>2. nt[t] = new(t)
        BY <3>1
      <4> QED BY <2>1, <3>1, <4>1, <4>2 DEF TaskRow
    <3>2. CASE worker[w].snap[t] = NotOfDeploy
      BY <1>2, <3>2
    <3> QED BY <3>1, <3>2
  <2>3. nt \in [TaskIDs -> TaskRow] /\ \A t \in TaskIDs : nt[t].deploy = tasks[t].deploy
    BY <2>2
  <2>4. UpdateInTx(deploys, nt)
    BY <1>9 DEF FailFollowing
  <2> HIDE DEF nt
  <2> QED BY <1>2, <2>3, <2>4, UpdateInTxType DEF StoreStep, TypeInv, TypeOK
<1> QED BY <1>5, <1>6, <1>7, <1>8, <1>9 DEF RunnerStep

LEMMA RunnerStepExternal ==
  ASSUME TypeInv, NEW w \in Workers, RunnerStep(w)
  PROVE  ExternalType'
<1> USE DeployAssumption, RowTypes
<1>0. Busy(w)
  BY RunnerStepOwn DEF OwnStep
<1>1. DeployOf(w) \in DeployIDs /\ SvcName(DeployOf(w)) \in SvcNames
  BY <1>0 DEF TypeInv, Linked, DeployOf, SvcName, SvcNames
<1>2. ExternalType
  BY DEF TypeInv, TypeOK
<1>3. ASSUME UNCHANGED external PROVE ExternalType'
  BY <1>2, <1>3 DEF external, ExternalType
<1>4. CASE Build(w)
  BY <1>1, <1>2, <1>4 DEF Build, ExternalType
<1>5. CASE RunError(w)
  BY <1>1, <1>2, <1>5 DEF RunError, ExternalType
<1>6. CASE RunImage(w)
  <2>1. [deploy |-> DeployOf(w), code |-> Deploying]
          \in [deploy : 0..MaxDeploys, code : RunnerCodes \cup {Stopped}]
    BY <1>1 DEF DeployIDs
  <2> QED BY <1>1, <1>2, <1>6, <2>1 DEF RunImage, ExternalType
<1>7. CASE CancelDeploy(w)
  BY <1>1, <1>2, <1>7 DEF CancelDeploy, ExternalType
<1>8. CASE ReadFollowing(w) \/ FailFollowing(w) \/ BuildError(w) \/ MarkBuildInProgress(w)
           \/ BuildSucceeds(w) \/ BuildFails(w) \/ MakeDeployRequest(w) \/ MarkDeploying(w)
           \/ Poll(w) \/ Finish(w) \/ FinishError(w) \/ UnknownStatus(w) \/ KeepPolling(w)
           \/ RequestError(w)
  BY <1>3, <1>8 DEF ReadFollowing, FailFollowing, BuildError, MarkBuildInProgress, BuildSucceeds,
     BuildFails, MakeDeployRequest, MarkDeploying, Poll, Finish, FinishError, UnknownStatus,
     KeepPolling, RequestError
<1> QED BY <1>4, <1>5, <1>6, <1>7, <1>8 DEF RunnerStep

LEMMA RunnerStepType ==
  ASSUME TypeInv, NEW w \in Workers, RunnerStep(w)
  PROVE  TypeInv'
<1>1. OwnStep(w) /\ StoreStep /\ ExternalType'
  BY RunnerStepOwn, RunnerStepStore, RunnerStepExternal
<1>2. StoreType'
  BY <1>1 DEF TypeInv, TypeOK, StoreType, OwnStep, StoreStep
<1>3. ProcessType'
  BY <1>1 DEF TypeInv, TypeOK, ProcessType, OwnStep
<1>4. Linked'
  <2>1. ASSUME NEW v \in Workers, Busy(v)'
        PROVE  worker'[v].task \in TaskIDs /\ tasks'[worker'[v].task].deploy \in DeployIDs
    <3>1. Busy(v) /\ worker'[v].task = worker[v].task
      BY <1>1, <2>1 DEF OwnStep, Busy
    <3> QED BY <1>1, <3>1 DEF TypeInv, Linked, StoreStep
  <2> QED BY <1>1, <2>1 DEF OwnStep, TypeInv, Linked
<1> QED BY <1>1, <1>2, <1>3, <1>4 DEF TypeInv, TypeOK
----------------------------------------------------------------------------
(* The other steps of the scheduler. *)

LEMMA CancelNextType ==
  ASSUME TypeInv, NEW w \in Workers, CancelNext(w)  PROVE TypeInv'
<1> USE DeployAssumption
<1>1. PICK t \in TaskIDs :
        /\ TakeTask(t)
        /\ UpdateInTx(deploys, [tasks EXCEPT ![t].status = cancelled])
  BY DEF CancelNext
<1> DEFINE nt == [tasks EXCEPT ![t].status = cancelled]
<1>2. nt \in [TaskIDs -> TaskRow] /\ \A u \in TaskIDs : nt[u].deploy = tasks[u].deploy
  BY StatusTypes DEF TypeInv, TypeOK, StoreType, TaskRow
<1>3. UpdateInTx(deploys, nt)
  BY <1>1
<1> HIDE DEF nt
<1>4. StoreStep
  BY <1>2, <1>3, UpdateInTxType DEF StoreStep, TypeInv, TypeOK, StoreType
<1>5. StoreType' /\ ExternalType'
  BY <1>4 DEF CancelNext, StoreStep, TypeInv, TypeOK, StoreType, ExternalType, external
<1>6. ProcessType'
  BY <1>1 DEF CancelNext, TypeInv, TypeOK, ProcessType, TakeTask, TaskIDs
<1>7. Linked'
  BY <1>4 DEF CancelNext, StoreStep, TypeInv, Linked, Busy
<1> QED BY <1>5, <1>6, <1>7 DEF TypeInv, TypeOK

LEMMA SkipNextType ==
  ASSUME TypeInv, NEW w \in Workers, SkipNext(w)  PROVE TypeInv'
<1> USE DeployAssumption
<1>1. PICK t \in TaskIDs : TakeTask(t)
  BY DEF SkipNext
<1>2. StoreType' /\ ExternalType'
  BY DEF SkipNext, TypeInv, TypeOK, StoreType, ExternalType, external, store
<1>3. ProcessType'
  BY <1>1 DEF SkipNext, TypeInv, TypeOK, ProcessType, TakeTask, TaskIDs
<1>4. Linked'
  BY DEF SkipNext, TypeInv, Linked, Busy, store
<1> QED BY <1>2, <1>3, <1>4 DEF TypeInv, TypeOK

LEMMA RestartType ==
  ASSUME TypeInv, Restart  PROVE TypeInv'
<1> USE DeployAssumption, RowTypes
<1>1. StoreType' /\ ExternalType'
  BY DEF Restart, TypeInv, TypeOK, StoreType, ExternalType, external, store
<1>2. ProcessType'
  BY DEF Restart, ProcessType, Primed
<1>3. Linked'
  BY DEF Restart, Linked, Busy, Primed, Gone, Idle, Goroutine, NoRequest
<1> QED BY <1>1, <1>2, <1>3 DEF TypeInv, TypeOK

LEMMA ExternalStepType ==
  ASSUME TypeInv, ExternalStep  PROVE TypeInv'
<1> USE DeployAssumption
<1> USE DEF store, process
<1>1. ExternalType /\ StoreType /\ ProcessType /\ Linked
  BY DEF TypeInv, TypeOK
<1>2. ASSUME UNCHANGED <<store, process, client, faults, restarts>>
      PROVE  StoreType' /\ ProcessType' /\ Linked'
  BY <1>1, <1>2 DEF StoreType, ProcessType, Linked, Busy
<1>3. ASSUME NEW d \in DeployIDs, BuilderStep(d) PROVE TypeInv'
  BY <1>1, <1>2, <1>3 DEF BuilderStep, ExternalType, TypeInv, TypeOK
<1>4. ASSUME NEW n \in SvcNames, ServiceSettles(n) PROVE TypeInv'
  BY <1>1, <1>2, <1>4 DEF ServiceSettles, ExternalType, TypeInv, TypeOK
<1>5. ASSUME NEW n \in SvcNames, ServiceScales(n) PROVE TypeInv'
  BY <1>1, <1>2, <1>5 DEF ServiceScales, ExternalType, TypeInv, TypeOK
<1> QED BY <1>3, <1>4, <1>5 DEF ExternalStep

----------------------------------------------------------------------------
(* The requests. *)

\* A request that has nothing to do with the goroutines.
LEMMA ClientLinked ==
  ASSUME TypeInv, NEW c \in Clients, NEW r \in ClientState,
         client' = [client EXCEPT ![c] = r],
         r.pc \notin {"idle", "row"} => r.d \in DeployIDs,
         r.pc # "idle" => r.target \in Targets,
         r.pc \in {"buildcommit", "runcommit"} => r.task \in TaskIDs,
         UNCHANGED process,
         \A t \in TaskIDs : tasks[t].deploy \in DeployIDs => tasks'[t].deploy \in DeployIDs
  PROVE  ProcessType' /\ Linked'
<1>1. ProcessType'
  BY DEF TypeInv, TypeOK, ProcessType, process
<1>2. \A b \in Clients : client'[b] = IF b = c THEN r ELSE client[b]
  BY DEF TypeInv, TypeOK, ProcessType
<1>3. Linked'
  BY <1>2 DEF TypeInv, Linked, Busy, process
<1> QED BY <1>1, <1>3

LEMMA NewRequestType ==
  ASSUME TypeInv, NEW c \in Clients, NewRequest(c)  PROVE TypeInv'
<1> USE DeployAssumption
<1>0. StoreType /\ ProcessType /\ ExternalType /\ Linked
  BY DEF TypeInv, TypeOK
<1> DEFINE Req(label, d) ==
      [pc |-> label, d |-> d, target |-> deploys[d].target, st |-> deploys[d].status,
       img |-> deploys[d].image, task |-> 0]
<1>1. ASSUME NEW label \in ClientPcs \ {"buildcommit", "runcommit"},
             NEW d \in DeployIDs, deploys[d].target \in Targets, Request(c, label, d), UNCHANGED <<store, process>>
      PROVE  ProcessType' /\ Linked'
  <2>1. Req(label, d) \in ClientState
    BY <1>0, <1>1 DEF ClientState, StoreType, DeployRow, DeployIDs
  <2> QED BY <1>1, <2>1, ClientLinked DEF Request, store
<1>2. CASE Deploy(c)
  <2> DEFINE r(x, d) == [pc |-> "row", d |-> d, target |-> x,
                         st |-> IF d = 0 THEN Pending ELSE deploys[d].status,
                         img |-> x \in Prebuilt, task |-> 0]
  <2>1. PICK x \in alive, d \in 0..MaxDeploys : client' = [client EXCEPT ![c] = r(x, d)]
    BY <1>2 DEF Deploy
  <2>2. d # 0 => d \in DeployIDs
    BY DEF DeployIDs
  <2>3. (x \in Prebuilt) \in BOOLEAN
    OBVIOUS
  <2>4. r(x, d) \in ClientState
    BY <1>0, <2>2, <2>3, StatusTypes DEF ClientState, ClientPcs, StoreType, DeployRow
  <2>5. ProcessType' /\ Linked'
    BY <1>0, <1>2, <2>1, <2>4, ClientLinked DEF Deploy, StoreType, store
  <2> QED BY <1>0, <1>2, <2>5 DEF Deploy, TypeInv, TypeOK, StoreType, ExternalType, store, external
<1>3. CASE DeployStart(c)
  <2>1. PICK d \in DeployIDs : deploys[d].target \in Models /\ Request(c, "start", d)
    BY <1>3 DEF DeployStart
  <2>2. ProcessType' /\ Linked'
    BY <1>1, <1>3, <2>1 DEF DeployStart, ClientPcs, Targets
  <2> QED BY <1>0, <1>3, <2>2 DEF DeployStart, TypeInv, TypeOK, StoreType, ExternalType, store, external
<1>4. CASE DeployUpdate(c)
  <2>1. PICK d \in DeployIDs : deploys[d].target \in Models /\ Request(c, "update", d)
    BY <1>4 DEF DeployUpdate
  <2>2. ProcessType' /\ Linked'
    BY <1>1, <1>4, <2>1 DEF DeployUpdate, ClientPcs, Targets
  <2> QED BY <1>0, <1>4, <2>2 DEF DeployUpdate, TypeInv, TypeOK, StoreType, ExternalType, store, external
<1>5. CASE StopService(c)
  <2>1. PICK d \in DeployIDs :
          /\ deploys[d].target \in Targets
          /\ \E label \in {"stop", "stopcheck", "deletecheck"} : Request(c, label, d)
          /\ svc' = [svc EXCEPT ![SvcName(d)] = NoService]
    BY <1>5 DEF StopService, Targets
  <2>2. ProcessType' /\ Linked'
    BY <1>1, <1>5, <2>1 DEF StopService, ClientPcs
  <2>3. ExternalType'
    BY <1>0, <1>5, <2>1, RowTypes DEF StopService, ExternalType
  <2> QED BY <1>0, <1>5, <2>2, <2>3 DEF StopService, TypeInv, TypeOK, StoreType, store
<1>6. CASE DeleteTarget(c)
  <2>1. StoreType' /\ ExternalType'
    BY <1>0, <1>6 DEF DeleteTarget, StoreType, ExternalType, external
  <2>2. ProcessType' /\ Linked'
    BY <1>0, <1>6 DEF DeleteTarget, ProcessType, Linked, Busy, process
  <2> QED BY <2>1, <2>2 DEF TypeInv, TypeOK
<1> QED BY <1>2, <1>3, <1>4, <1>5, <1>6 DEF NewRequest

LEMMA ClientStepType ==
  ASSUME TypeInv, NEW c \in Clients, ClientStep(c)  PROVE TypeInv'
<1> USE DeployAssumption
<1>0. StoreType /\ ProcessType /\ ExternalType /\ Linked
  BY DEF TypeInv, TypeOK
<1>r. client[c] \in ClientState
  BY <1>0 DEF ProcessType
<1>e. ASSUME UNCHANGED external PROVE ExternalType'
  BY <1>0, <1>e DEF external, ExternalType
<1>1. CASE DedicatedDeploy(c)
  <2>1. PICK d \in DeployIDs :
         /\ deploys' = [deploys EXCEPT ![d] =
              [target |-> client[c].target, status |-> Pending, image |-> client[c].img]]
         /\ client' = [client EXCEPT ![c].pc = "build", ![c].d = d]
    BY <1>1 DEF DedicatedDeploy
  <2>2. deploys' \in [DeployIDs -> DeployRow]
    <3>1. [target |-> client[c].target, status |-> Pending, image |-> client[c].img] \in DeployRow
      BY <1>r, StatusTypes DEF ClientState, DeployRow
    <3> QED BY <1>0, <2>1, <3>1 DEF StoreType
  <2>3. StoreType'
    BY <1>0, <1>1, <2>2 DEF DedicatedDeploy, StoreType
  <2>4. ProcessType' /\ Linked'
    <3> DEFINE r == [client[c] EXCEPT !.pc = "build", !.d = d]
    <3>1. client' = [client EXCEPT ![c] = r]
      BY <1>0, <1>r, <2>1 DEF ProcessType, ClientState
    <3>2. d \in 0..MaxDeploys /\ client[c].target \in Targets
      BY <1>0, <1>1 DEF DeployIDs, Linked, DedicatedDeploy
    <3>3. r \in ClientState /\ r.pc = "build" /\ r.d = d /\ r.target \in Targets
      BY <1>r, <3>2 DEF ClientState, ClientPcs
    <3> QED BY <1>1, <3>1, <3>3, ClientLinked DEF DedicatedDeploy
  <2> QED BY <1>1, <1>e, <2>3, <2>4 DEF DedicatedDeploy, TypeInv, TypeOK
<1>2. ASSUME NEW r \in ClientState, client' = [client EXCEPT ![c] = r],
             r.pc \notin {"idle", "row"} => r.d \in DeployIDs,
             r.pc # "idle" => r.target \in Targets,
             r.pc \notin {"buildcommit", "runcommit"},
             deploys' \in [DeployIDs -> DeployRow],
             UNCHANGED <<tasks, nextTask, alive, process, external, faults, restarts>>
      PROVE  TypeInv'
  <2>1. ProcessType' /\ Linked'
    BY <1>2, ClientLinked
  <2>2. StoreType'
    BY <1>0, <1>2 DEF StoreType
  <2> QED BY <1>2, <1>e, <2>1, <2>2 DEF TypeInv, TypeOK
<1>3. ASSUME client[c].d \in DeployIDs, UpdateDeploy(c) PROVE deploys' \in [DeployIDs -> DeployRow]
  BY <1>0, <1>3, <1>r DEF UpdateDeploy, StoreType, DeployRow, ClientState
<1>4. CASE ServerlessDeploy(c)
  <2> DEFINE r == [client[c] EXCEPT !.pc = "build", !.st = Pending]
  <2>1. client' = [client EXCEPT ![c] = r]
    BY <1>0, <1>r, <1>4 DEF ProcessType, ClientState, ServerlessDeploy
  <2>0. client[c].d \in DeployIDs /\ client[c].target \in Targets
    BY <1>0, <1>4, <1>r DEF ClientState, DeployIDs, Linked, ServerlessDeploy
  <2>2. r \in ClientState /\ r.pc = "build" /\ r.d \in DeployIDs /\ r.target \in Targets
    BY <1>r, <2>0, StatusTypes DEF ClientState, ClientPcs
  <2>3. deploys' \in [DeployIDs -> DeployRow]
    BY <1>3, <1>4, <2>0 DEF ServerlessDeploy
  <2> HIDE DEF r
  <2> QED BY <1>2, <1>4, <2>1, <2>2, <2>3 DEF ServerlessDeploy
<1>5. CASE StartDeploy(c)
  <2> DEFINE r == [client[c] EXCEPT !.pc = "run", !.st = Pending]
  <2>1. client' = [client EXCEPT ![c] = r]
    BY <1>0, <1>r, <1>5 DEF ProcessType, ClientState, StartDeploy
  <2>2. r \in ClientState /\ r.pc = "run" /\ r.d = client[c].d /\ r.d \in DeployIDs
        /\ r.target \in Targets
    BY <1>0, <1>5, <1>r, StatusTypes DEF ClientState, ClientPcs, Linked, StartDeploy
  <2>3. deploys' \in [DeployIDs -> DeployRow]
    BY <1>0, <1>5, <1>r, <2>2, StatusTypes DEF StartDeploy, ClientState, StoreType, DeployRow
  <2> HIDE DEF r
  <2> QED BY <1>2, <1>5, <2>1, <2>2, <2>3 DEF StartDeploy
<1>6. CASE WriteUpdate(c)
  <2>1. deploys' \in [DeployIDs -> DeployRow]
    BY <1>0, <1>3, <1>6 DEF WriteUpdate, Linked
  <2>2. NoRequest \in ClientState /\ NoRequest.pc = "idle"
    BY RowTypes DEF NoRequest
  <2> QED BY <1>2, <1>6, <2>1, <2>2 DEF WriteUpdate
<1>7. CASE StopDeploy(c)
  <2>1. deploys' \in [DeployIDs -> DeployRow]
    BY <1>0, <1>7, StatusTypes DEF StopDeploy, Linked, StoreType, DeployRow
  <2>2. NoRequest \in ClientState /\ NoRequest.pc = "idle"
    BY RowTypes DEF NoRequest
  <2> QED BY <1>2, <1>7, <2>1, <2>2 DEF StopDeploy
<1>8. CASE Exist(c)
  <2>1. PICK r \in {NoRequest, [client[c] EXCEPT !.pc = "stop"], [client[c] EXCEPT !.pc = "delete"]} :
          client' = [client EXCEPT ![c] = r]
    BY <1>0, <1>r, <1>8 DEF Exist, ProcessType, ClientState
  <2>2. r \in ClientState /\ r.pc \in {"idle", "stop", "delete"}
        /\ (r.pc # "idle" => r.d \in DeployIDs /\ r.target \in Targets)
    BY <1>0, <1>8, <1>r, <2>1, RowTypes DEF Exist, Linked, NoRequest, ClientState, ClientPcs
  <2> QED BY <1>0, <1>2, <1>8, <2>1, <2>2 DEF Exist, store, StoreType
<1>9. CASE CreateDeployTask(c)
  <2> DEFINE p == IF client[c].pc = "build" THEN "buildcommit" ELSE "runcommit"
             r == [client[c] EXCEPT !.task = nextTask, !.pc = p]
  <2>1. client' = [client EXCEPT ![c] = r]
    BY <1>0, <1>r, <1>9 DEF CreateDeployTask, ProcessType, ClientState
  <2>2. r \in ClientState /\ r.task \in TaskIDs /\ r.d \in DeployIDs /\ r.target \in Targets
    <3>1. client[c].d \in DeployIDs /\ client[c].target \in Targets
      BY <1>0, <1>9 DEF CreateDeployTask, Linked
    <3>2. nextTask \in TaskIDs /\ nextTask \in 0..MaxTasks
      BY <1>9 DEF CreateDeployTask, TaskIDs
    <3>3. p \in ClientPcs
      BY DEF ClientPcs
    <3> HIDE DEF p
    <3> QED BY <1>r, <3>1, <3>2, <3>3 DEF ClientState
  <2> HIDE DEF r
  <2>3. ProcessType' /\ Linked'
    BY <1>0, <1>9, <2>1, <2>2, ClientLinked DEF CreateDeployTask
  <2>4. StoreType'
    BY <1>0, <1>9 DEF StoreType, CreateDeployTask, TaskIDs
  <2> QED BY <1>9, <1>e, <2>3, <2>4 DEF CreateDeployTask, TypeInv, TypeOK
<1>10. CASE CommitDeployTask(c)
  <2>0. client[c].d \in DeployIDs /\ client[c].task \in TaskIDs /\ client[c].target \in Targets
    BY <1>0, <1>10 DEF CommitDeployTask, Linked
  <2> DEFINE r(p) == [client[c] EXCEPT !.pc = p, !.task = 0]
             row(k, s) == [deploy |-> client[c].d, type |-> k, status |-> s]
  <2>1. PICK p \in {"run", "queue"} : client' = [client EXCEPT ![c] = r(p)]
    BY <1>0, <1>r, <1>10 DEF CommitDeployTask, ProcessType, ClientState
  <2>2. PICK k \in {0, 1}, s \in TaskStatus : tasks' = [tasks EXCEPT ![client[c].task] = row(k, s)]
    <3>1. CASE client[c].pc = "buildcommit"
      <4>1. PICK s \in {0, BuildSkip} : tasks' = [tasks EXCEPT ![client[c].task] = row(0, s)]
        BY <1>10, <3>1 DEF CommitDeployTask
      <4>2. s \in TaskStatus
        BY StatusTypes DEF TaskStatus
      <4> QED BY <4>1, <4>2
    <3>2. CASE client[c].pc = "runcommit"
      <4>1. tasks' = [tasks EXCEPT ![client[c].task] = row(1, 0)]
        BY <1>10, <3>2 DEF CommitDeployTask
      <4> QED BY <4>1 DEF TaskStatus
    <3> QED BY <1>10, <3>1, <3>2 DEF CommitDeployTask
  <2>3. row(k, s) \in TaskRow /\ row(k, s).deploy \in DeployIDs
    BY <2>0 DEF TaskRow, DeployIDs
  <2>4. StoreType'
    BY <1>0, <1>10, <2>0, <2>2, <2>3 DEF StoreType, CommitDeployTask
  <2>5. r(p) \in ClientState /\ r(p).pc = p /\ r(p).d = client[c].d /\ r(p).target = client[c].target
    <3>1. p \in ClientPcs
      BY DEF ClientPcs
    <3>2. 0 \in 0..MaxTasks
      OBVIOUS
    <3> QED BY <1>r, <3>1, <3>2 DEF ClientState
  <2>6. ProcessType' /\ Linked'
    <3>1. \A t \in TaskIDs : tasks[t].deploy \in DeployIDs => tasks'[t].deploy \in DeployIDs
      BY <1>0, <2>2, <2>3 DEF StoreType
    <3> HIDE DEF r, row
    <3> QED BY <1>10, <2>0, <2>1, <2>5, <3>1, ClientLinked DEF CommitDeployTask
  <2> QED BY <1>10, <1>e, <2>4, <2>6 DEF CommitDeployTask, TypeInv, TypeOK
<1>11. CASE Queue(c)
  <2>1. PICK w \in Workers : worker' = [worker EXCEPT ![w] = Idle]
    BY <1>11 DEF Queue
  <2>2. ProcessType'
    BY <1>0, <1>11, <2>1, RowTypes DEF Queue, ProcessType
  <2>3. Linked'
    BY <1>0, <1>11, <2>1 DEF Queue, Linked, ProcessType, Busy, Idle, Goroutine, NoRequest, store
  <2> QED BY <1>0, <1>11, <1>e, <2>2, <2>3 DEF Queue, TypeInv, TypeOK, StoreType, store
<1>12. CASE LoseDeployTask(c)
  <2> DEFINE r(p) == [client[c] EXCEPT !.pc = p, !.task = 0]
  <2>0. client[c].d \in DeployIDs /\ client[c].target \in Targets
    BY <1>0, <1>12 DEF LoseDeployTask, Linked
  <2>1. PICK p \in {"run", "queue"} : client' = [client EXCEPT ![c] = r(p)]
    BY <1>0, <1>r, <1>12 DEF LoseDeployTask, ProcessType, ClientState
  <2>2. r(p) \in ClientState /\ r(p).pc = p /\ r(p).d = client[c].d /\ r(p).target = client[c].target
    <3>1. p \in ClientPcs /\ 0 \in 0..MaxTasks
      BY DEF ClientPcs
    <3> QED BY <1>r, <3>1 DEF ClientState
  <2>3. ProcessType' /\ Linked'
    <3> HIDE DEF r
    <3> QED BY <1>0, <1>12, <2>0, <2>1, <2>2, ClientLinked DEF LoseDeployTask, store
  <2>4. StoreType'
    BY <1>0, <1>12 DEF LoseDeployTask, StoreType, store
  <2> QED BY <1>12, <1>e, <2>3, <2>4 DEF LoseDeployTask, TypeInv, TypeOK
<1> QED BY <1>1, <1>4, <1>5, <1>6, <1>7, <1>8, <1>9, <1>10, <1>11, <1>12 DEF ClientStep

----------------------------------------------------------------------------
(* Type correctness. *)

LEMMA NextTypeInv == TypeInv /\ [Next]_vars => TypeInv'
<1> SUFFICES ASSUME TypeInv, [Next]_vars PROVE TypeInv'
  OBVIOUS
<1>1. ASSUME NEW w \in Workers, WorkerProgress(w) \/ WorkerFault(w) PROVE TypeInv'
  <2>1. CASE RunnerStep(w)
    BY <2>1, RunnerStepType
  <2>2. CASE RunNext(w) \/ CancelNext(w) \/ SkipNext(w)
    BY <2>2, RunNextType, CancelNextType, SkipNextType
  <2> QED BY <1>1, <2>1, <2>2 DEF WorkerProgress, WorkerFault, RunnerStep
<1>2. ASSUME NEW c \in Clients, ClientStep(c) \/ NewRequest(c) PROVE TypeInv'
  BY <1>2, ClientStepType, NewRequestType
<1>3. CASE ExternalStep
  BY <1>3, ExternalStepType
<1>4. CASE Restart
  BY <1>4, RestartType
<1>5. CASE UNCHANGED vars
  BY <1>5 DEF vars, TypeInv, TypeOK, StoreType, ProcessType, ExternalType, Linked, Busy
<1> QED BY <1>1, <1>2, <1>3, <1>4, <1>5 DEF Next

\* Every reachable state of the scheduler has its types, and its goroutines and
\* requests only refer to rows that are in the tables.
THEOREM TypeCorrect == Spec => [](TypeOK /\ Linked)
<1>1. Spec => []TypeInv
  BY InitTypeInv, NextTypeInv, PTL DEF Spec
<1> QED BY <1>1, PTL DEF TypeInv

----------------------------------------------------------------------------
(* Exclusive tasks: next() only hands out IDs above rs.last, and no task of *)
(* a busy goroutine is above it.                                            *)

ExclusiveInv == TypeInv /\ TakenBefore /\ ExclusiveTask

\* A goroutine that was busy, with the task it had.
Keeps(w) == Busy(w)' => Busy(w) /\ worker'[w].task = worker[w].task

LEMMA KeepsExclusive ==
  ASSUME ExclusiveInv, TypeInv', last' >= last, \A w \in Workers : Keeps(w)
  PROVE  TakenBefore' /\ ExclusiveTask'
<1>1. TakenBefore'
  <2> SUFFICES ASSUME NEW w \in Workers, Busy(w)' PROVE worker'[w].task <= last'
    BY DEF TakenBefore
  <2>1. worker'[w].task = worker[w].task /\ worker[w].task <= last
    BY DEF Keeps, ExclusiveInv, TakenBefore
  <2>2. worker[w].task \in Int /\ last \in Int /\ last' \in Int
    BY DeployAssumption DEF ExclusiveInv, TypeInv, TypeOK, ProcessType, WorkerState
  <2> QED BY <2>1, <2>2
<1>2. ExclusiveTask'
  BY DEF Keeps, ExclusiveInv, ExclusiveTask
<1> QED BY <1>1, <1>2

\* next() moves forward.
LEMMA TakeTaskForward ==
  ASSUME TypeInv, NEW t \in TaskIDs, TakeTask(t)
  PROVE  last' = t /\ t > last
BY DeployAssumption DEF TakeTask, GetNewTaskFirst, GetNewTaskAfter, TypeInv, TypeOK, ProcessType, TaskIDs

LEMMA NextForward ==
  ASSUME TypeInv, [Next]_vars, restarts' = restarts
  PROVE  last' >= last
<1>0. last \in Int /\ restarts \in Int
  BY DeployAssumption DEF TypeInv, TypeOK, ProcessType, StoreType
<1>1. ASSUME NEW w \in Workers, WorkerProgress(w) \/ WorkerFault(w)
      PROVE  last' >= last
  <2>1. CASE RunnerStep(w)
    BY <1>0, <2>1, RunnerStepOwn DEF OwnStep
  <2>2. CASE RunNext(w) \/ CancelNext(w) \/ SkipNext(w)
    <3>1. PICK t \in TaskIDs : TakeTask(t)
      BY <2>2 DEF RunNext, CancelNext, SkipNext
    <3> QED BY <1>0, <3>1, TakeTaskForward DEF TaskIDs
  <2> QED BY <1>1, <2>1, <2>2 DEF WorkerProgress, WorkerFault, RunnerStep
<1>2. ASSUME NEW c \in Clients, ClientStep(c) \/ NewRequest(c)
      PROVE  last' >= last
  BY <1>0, <1>2 DEF ClientStep, NewRequest, DedicatedDeploy, ServerlessDeploy, CreateDeployTask,
     CommitDeployTask, LoseDeployTask, Queue, StartDeploy, WriteUpdate, Exist, StopDeploy, Deploy,
     DeployStart, DeployUpdate, StopService, DeleteTarget, process
<1>3. CASE ExternalStep
  BY <1>0, <1>3 DEF ExternalStep, BuilderStep, ServiceSettles, ServiceScales, process
<1>4. CASE Restart
  BY <1>0, <1>4 DEF Restart
<1>5. CASE UNCHANGED vars
  BY <1>0, <1>5 DEF vars
<1> QED BY <1>1, <1>2, <1>3, <1>4, <1>5 DEF Next

LEMMA NextExclusive ==
  ASSUME ExclusiveInv, [Next]_vars, TypeInv'
  PROVE  TakenBefore' /\ ExclusiveTask'
<1>0. TypeInv /\ last \in Int
  BY DEF ExclusiveInv, TypeInv, TypeOK, ProcessType
<1>1. ASSUME NEW w \in Workers, RunNext(w) PROVE TakenBefore' /\ ExclusiveTask'
  <2>1. PICK t \in TaskIDs : TakeTask(t) /\ worker' = [worker EXCEPT ![w] = RunnerOf(t)]
    BY <1>1 DEF RunNext
  <2>2. last' = t /\ t > last
    BY <1>0, <2>1, TakeTaskForward
  <2>3. RunnerOf(t).task = t
    BY DEF RunnerOf, Goroutine
  <2>4. \A v \in Workers : worker'[v] = IF v = w THEN RunnerOf(t) ELSE worker[v]
    BY <1>0, <2>1 DEF TypeInv, TypeOK, ProcessType
  <2>5. \A v \in Workers \ {w} : Busy(v)' => worker'[v].task < t
    BY <1>0, <2>2, <2>4, DeployAssumption DEF ExclusiveInv, TakenBefore, Busy, TaskIDs, TypeInv,
       TypeOK, ProcessType, WorkerState
  <2>6. \A v \in Workers : Busy(v)' => worker'[v].task \in Int
    BY DeployAssumption DEF TypeInv, TypeOK, ProcessType, WorkerState
  <2> QED BY <2>2, <2>3, <2>4, <2>5, <2>6 DEF TakenBefore, ExclusiveTask, ExclusiveInv, Busy, TaskIDs
<1>2. CASE Restart
  <2>1. \A w \in Workers : ~Busy(w)'
    BY <1>2 DEF Restart, Primed, Busy, Idle, Gone, Goroutine
  <2> QED BY <2>1 DEF TakenBefore, ExclusiveTask
<1>3. CASE restarts' = restarts /\ \A w \in Workers : Keeps(w)
  <2>1. last' >= last
    BY <1>0, <1>3, NextForward
  <2> QED BY <1>3, <2>1, KeepsExclusive
<1>4. ASSUME NEW w \in Workers, RunnerStep(w)
      PROVE  restarts' = restarts /\ \A v \in Workers : Keeps(v)
  BY <1>0, <1>4, RunnerStepOwn DEF OwnStep, Keeps, Busy
<1>5. ASSUME NEW w \in Workers, CancelNext(w) \/ SkipNext(w)
      PROVE  restarts' = restarts /\ \A v \in Workers : Keeps(v)
  BY <1>5 DEF CancelNext, SkipNext, Keeps, Busy
<1>6. ASSUME NEW c \in Clients, Queue(c)
      PROVE  restarts' = restarts /\ \A v \in Workers : Keeps(v)
  <2>1. PICK w \in Workers : worker' = [worker EXCEPT ![w] = Idle]
    BY <1>6 DEF Queue
  <2> QED BY <1>0, <1>6, <2>1 DEF Queue, Keeps, Busy, Idle, Goroutine, TypeInv, TypeOK, ProcessType
<1>7. ASSUME NEW c \in Clients, ClientStep(c) \/ NewRequest(c), ~Queue(c)
      PROVE  restarts' = restarts /\ \A v \in Workers : Keeps(v)
  <2>1. UNCHANGED <<worker, restarts>>
    BY <1>7 DEF ClientStep, NewRequest, DedicatedDeploy, ServerlessDeploy, CreateDeployTask,
       CommitDeployTask, LoseDeployTask, StartDeploy, WriteUpdate, Exist, StopDeploy, Deploy, DeployStart,
       DeployUpdate, StopService, DeleteTarget, process
  <2> QED BY <2>1 DEF Keeps, Busy
<1>8. CASE ExternalStep \/ UNCHANGED vars
  <2>1. UNCHANGED <<worker, restarts>>
    BY <1>8 DEF ExternalStep, BuilderStep, ServiceSettles, ServiceScales, process, vars
  <2> QED BY <1>3, <2>1 DEF Keeps, Busy
<1>9. ASSUME NEW w \in Workers, WorkerProgress(w) \/ WorkerFault(w)
      PROVE  RunNext(w) \/ CancelNext(w) \/ SkipNext(w) \/ RunnerStep(w)
  BY <1>9 DEF WorkerProgress, WorkerFault, RunnerStep
<1> QED BY <1>1, <1>2, <1>3, <1>4, <1>5, <1>6, <1>7, <1>8, <1>9 DEF Next

\* No two goroutines of the scheduler ever work on the same deploy task, for any
\* number of goroutines, requests, failures and restarts.
THEOREM TasksExclusive == Spec => []ExclusiveTask
<1>1. Init => ExclusiveInv
  BY InitTypeInv DEF ExclusiveInv, Init, TakenBefore, ExclusiveTask, Busy, Primed, Idle, Gone, Goroutine
<1>2. ExclusiveInv /\ [Next]_vars => ExclusiveInv'
  BY NextTypeInv, NextExclusive DEF ExclusiveInv
<1>3. ExclusiveInv => ExclusiveTask
  BY DEF ExclusiveInv
<1> QED BY <1>1, <1>2, <1>3, PTL DEF Spec

----------------------------------------------------------------------------
(* What the steps of the scheduler leave alone: a task keeps its deploy and *)
(* its type, a deploy its target; an image column is only set to TRUE when  *)
(* the builder has reported success.                                        *)

RowKept(t) == tasks'[t].deploy = tasks[t].deploy /\ tasks'[t].type = tasks[t].type
TargetKept(d) == deploys'[d].target = deploys[d].target
ImageKept(d) == deploys'[d].image => deploys[d].image \/ builder[d] = "ok"

\* The status that a runner leaves a task in, when it is not its own task.
StatusKept(w, t) ==
  \/ t = worker[w].task
  \/ tasks'[t].status = tasks[t].status
  \/ /\ worker[w].pc = "fail" /\ worker[w].snap[t] # NotOfDeploy
     /\ tasks'[t].status = FollowingStatus(w, t)

RunnerWrites(w) ==
  /\ \A d \in DeployIDs : TargetKept(d) /\ ImageKept(d)
  /\ \A t \in TaskIDs : RowKept(t) /\ StatusKept(w, t)

LEMMA SetStatusWrites ==
  ASSUME TypeInv, NEW w \in Workers, Busy(w), NEW ds, NEW ts, SetStatus(w, ds, ts)
  PROVE  RunnerWrites(w)
<1>1. deploys \in [DeployIDs -> DeployRow] /\ tasks \in [TaskIDs -> TaskRow]
  BY DEF TypeInv, TypeOK, StoreType
<1>2. deploys' = deploys \/ deploys' = [deploys EXCEPT ![DeployOf(w)].status = ds]
  BY DEF SetStatus, UpdateInTx
<1>3. tasks' = tasks \/ tasks' = [tasks EXCEPT ![worker[w].task].status = ts]
  BY DEF SetStatus, UpdateInTx
<1>4. ASSUME NEW d \in DeployIDs PROVE TargetKept(d) /\ ImageKept(d)
  BY <1>1, <1>2 DEF TargetKept, ImageKept, DeployRow
<1>5. ASSUME NEW t \in TaskIDs PROVE RowKept(t) /\ StatusKept(w, t)
  BY <1>1, <1>3 DEF RowKept, StatusKept, TaskRow
<1> QED BY <1>4, <1>5 DEF RunnerWrites

LEMMA RunnerStepWrites ==
  ASSUME TypeInv, NEW w \in Workers, RunnerStep(w)
  PROVE  RunnerWrites(w)
<1>0. Busy(w)
  BY RunnerStepOwn DEF OwnStep
<1>1. deploys \in [DeployIDs -> DeployRow] /\ tasks \in [TaskIDs -> TaskRow]
  BY DEF TypeInv, TypeOK, StoreType
<1>2. CASE UNCHANGED <<deploys, tasks>>
  BY <1>2 DEF RunnerWrites, TargetKept, ImageKept, RowKept, StatusKept
<1>3. CASE \E ds, ts : SetStatus(w, ds, ts)
  BY <1>0, <1>3, SetStatusWrites
<1>4. CASE BuildSucceeds(w)
  <2>1. deploys' = deploys
        \/ deploys' = [deploys EXCEPT ![DeployOf(w)].status = BuildSuccess,
                                      ![DeployOf(w)].image = TRUE]
    BY <1>4 DEF BuildSucceeds, UpdateInTx
  <2>2. tasks' = tasks \/ tasks' = [tasks EXCEPT ![worker[w].task].status = buildSucceed]
    BY <1>4 DEF BuildSucceeds, UpdateInTx
  <2>3. builder[DeployOf(w)] = "ok"
    BY <1>4 DEF BuildSucceeds
  <2>4. ASSUME NEW d \in DeployIDs PROVE TargetKept(d) /\ ImageKept(d)
    BY <1>1, <2>1, <2>3 DEF TargetKept, ImageKept, DeployRow
  <2>5. ASSUME NEW t \in TaskIDs PROVE RowKept(t) /\ StatusKept(w, t)
    BY <1>1, <2>2 DEF RowKept, StatusKept, TaskRow
  <2> QED BY <2>4, <2>5 DEF RunnerWrites
<1>5. CASE FailFollowing(w)
  <2>1. deploys' = deploys /\ worker[w].pc = "fail"
    BY <1>5 DEF FailFollowing, UpdateInTx
  <2>2. \/ tasks' = tasks
        \/ tasks' = [t \in TaskIDs |->
             IF worker[w].snap[t] # NotOfDeploy
             THEN [deploy |-> tasks[t].deploy, type |-> tasks[t].type,
                   status |-> FollowingStatus(w, t)]
             ELSE tasks[t]]
    BY <1>5 DEF FailFollowing, UpdateInTx
  <2>3. ASSUME NEW t \in TaskIDs PROVE RowKept(t) /\ StatusKept(w, t)
    BY <2>1, <2>2 DEF RowKept, StatusKept
  <2> QED BY <2>1, <2>3 DEF RunnerWrites, TargetKept, ImageKept
<1>6. CASE ReadFollowing(w) \/ BuildError(w) \/ Build(w) \/ MakeDeployRequest(w) \/ RunError(w)
           \/ RunImage(w) \/ Poll(w) \/ UnknownStatus(w) \/ CancelDeploy(w) \/ RequestError(w)
  BY <1>2, <1>6 DEF ReadFollowing, BuildError, Build, MakeDeployRequest, RunError, RunImage, Poll,
     UnknownStatus, CancelDeploy, RequestError, store
<1>7. CASE MarkBuildInProgress(w) \/ BuildFails(w) \/ MarkDeploying(w)
  BY <1>3, <1>7 DEF MarkBuildInProgress, BuildFails, MarkDeploying
<1>8. CASE Finish(w) \/ FinishError(w) \/ KeepPolling(w)
  BY <1>3, <1>8 DEF Finish, FinishError, KeepPolling
<1> QED BY <1>4, <1>5, <1>6, <1>7, <1>8 DEF RunnerStep

\* CancelNext writes the status of the task that next() has just taken.
LEMMA TakeTaskWrites ==
  ASSUME TypeInv, NEW w \in Workers, RunNext(w) \/ CancelNext(w) \/ SkipNext(w)
  PROVE  \E t \in TaskIDs :
           /\ TakeTask(t)
           /\ UNCHANGED <<deploys, images, builder, svc, client, nextTask>>
           /\ \A u \in TaskIDs : RowKept(u) /\ (u = t \/ tasks'[u].status = tasks[u].status)
           /\ \/ worker' = worker
              \/ worker' = [worker EXCEPT ![w] = RunnerOf(t)]
<1>1. tasks \in [TaskIDs -> TaskRow]
  BY DEF TypeInv, TypeOK, StoreType
<1>2. CASE RunNext(w) \/ SkipNext(w)
  BY <1>2 DEF RunNext, SkipNext, store, external, RowKept
<1>3. CASE CancelNext(w)
  <2>1. PICK t \in TaskIDs :
          /\ TakeTask(t)
          /\ UpdateInTx(deploys, [tasks EXCEPT ![t].status = cancelled])
    BY <1>3 DEF CancelNext
  <2>2. deploys' = deploys
        /\ (tasks' = tasks \/ tasks' = [tasks EXCEPT ![t].status = cancelled])
    BY <2>1 DEF UpdateInTx
  <2>3. ASSUME NEW u \in TaskIDs
        PROVE  RowKept(u) /\ (u = t \/ tasks'[u].status = tasks[u].status)
    BY <1>1, <2>2 DEF RowKept, TaskRow
  <2> QED BY <1>3, <2>1, <2>2, <2>3 DEF CancelNext, external
<1> QED BY <1>2, <1>3

\* The labels a runner goes to: before a service is started the deploy has an
\* image, and the statuses that failDeployFollowingTasks writes were just read.
LEMMA RunnerStepLabels ==
  ASSUME TypeInv, NEW w \in Workers, RunnerStep(w)
  PROVE  /\ worker'[w].pc = "call" =>
              /\ deploys[DeployOf(w)].image
              /\ worker'[w].task = worker[w].task
         /\ worker'[w].pc = "fail" =>
              /\ worker'[w].task = worker[w].task
              /\ \A t \in TaskIDs : worker'[w].snap[t] # NotOfDeploy =>
                   /\ worker'[w].snap[t] = tasks[t].status
                   /\ tasks[t].deploy = DeployOf(w)
<1>0. worker \in [Workers -> WorkerState]
  BY DEF TypeInv, TypeOK, ProcessType
<1> USE DEF Goto, Return, Done, Goroutine, Idle
<1>1. CASE ReadFollowing(w)
  <2> DEFINE sn == [t \in TaskIDs |-> IF t \in GetDeployTasksOfDeploy(DeployOf(w))
                                      THEN tasks[t].status ELSE NotOfDeploy]
  <2>1. worker' = [worker EXCEPT ![w].pc = "fail", ![w].snap = sn]
    BY <1>1 DEF ReadFollowing
  <2>2. ASSUME NEW t \in TaskIDs, sn[t] # NotOfDeploy
        PROVE  sn[t] = tasks[t].status /\ tasks[t].deploy = DeployOf(w)
    BY <2>2 DEF GetDeployTasksOfDeploy
  <2> HIDE DEF sn
  <2>3. worker'[w].pc = "fail" /\ worker'[w].task = worker[w].task /\ worker'[w].snap = sn
    BY <1>0, <2>1 DEF WorkerState
  <2> QED BY <2>2, <2>3
<1>2. CASE MakeDeployRequest(w)
  BY <1>0, <1>2 DEF MakeDeployRequest, WorkerState
<1>3. CASE FailFollowing(w) \/ BuildSucceeds(w) \/ BuildFails(w) \/ Finish(w)
  BY <1>0, <1>3 DEF FailFollowing, BuildSucceeds, BuildFails, Finish
<1>4. CASE BuildError(w) \/ RunError(w) \/ FinishError(w) \/ UnknownStatus(w) \/ RequestError(w)
  BY <1>0, <1>4 DEF BuildError, RunError, FinishError, UnknownStatus, RequestError
<1>5. CASE Build(w) \/ RunImage(w)
  BY <1>0, <1>5 DEF Build, RunImage, WorkerState
<1>6. CASE MarkBuildInProgress(w) \/ MarkDeploying(w)
  BY <1>0, <1>6 DEF MarkBuildInProgress, MarkDeploying, WorkerState
<1>7. CASE Poll(w)
  <2>1. PICK k : worker' = [worker EXCEPT ![w].pc = "polled", ![w].code = k]
    BY <1>7 DEF Poll
  <2> QED BY <1>0, <2>1 DEF WorkerState
<1>8. CASE KeepPolling(w)
  BY <1>0, <1>8 DEF KeepPolling, WorkerState
<1>9. CASE CancelDeploy(w)
  BY <1>0, <1>9 DEF CancelDeploy, WorkerState
<1> QED BY <1>1, <1>2, <1>3, <1>4, <1>5, <1>6, <1>7, <1>8, <1>9 DEF RunnerStep

\* What a runner does to the image builder and to the services.
LEMMA RunnerStepRemote ==
  ASSUME TypeInv, NEW w \in Workers, RunnerStep(w)
  PROVE  /\ images' = images
         /\ \A d \in DeployIDs : builder'[d] = "ok" => builder[d] = "ok"
         /\ \A n \in SvcNames :
              \/ svc'[n].deploy \in {0, svc[n].deploy}
              \/ svc'[n].deploy = DeployOf(w) /\ worker[w].pc = "call"
<1> DEFINE S == [deploy : 0..MaxDeploys, code : RunnerCodes \cup {Stopped}]
<1>1. svc \in [SvcNames -> S] /\ builder \in [DeployIDs -> {"none", "inprogress", "ok", "fail"}]
  BY DEF TypeInv, TypeOK, ExternalType
<1>2. CASE UNCHANGED external
  BY <1>2 DEF external
<1>3. CASE Build(w)
  BY <1>1, <1>3 DEF Build
<1>4. CASE RunError(w) \/ CancelDeploy(w)
  BY <1>1, <1>4 DEF RunError, CancelDeploy, NoService
<1>5. CASE RunImage(w)
  BY <1>1, <1>5 DEF RunImage
<1>6. CASE ReadFollowing(w) \/ FailFollowing(w) \/ BuildError(w) \/ MarkBuildInProgress(w)
           \/ BuildSucceeds(w) \/ BuildFails(w) \/ MakeDeployRequest(w) \/ MarkDeploying(w)
           \/ Poll(w) \/ Finish(w) \/ FinishError(w) \/ UnknownStatus(w) \/ KeepPolling(w)
           \/ RequestError(w)
  BY <1>2, <1>6 DEF ReadFollowing, FailFollowing, BuildError, MarkBuildInProgress, BuildSucceeds,
     BuildFails, MakeDeployRequest, MarkDeploying, Poll, Finish, FinishError, UnknownStatus,
     KeepPolling, RequestError
<1> QED BY <1>3, <1>4, <1>5, <1>6 DEF RunnerStep
----------------------------------------------------------------------------
(* Deploy tasks get IDs of their own, and every step keeps what a task and  *)
(* a deploy were made for.                                                  *)

\* The insert of a request takes its ID before its row is there.
Committing(c) == client[c].pc \in {"buildcommit", "runcommit"}

FreshTasks ==
  /\ \A t \in TaskIDs : t >= nextTask => tasks[t].deploy = 0
  /\ \A c \in Clients : Committing(c) =>
        client[c].task < nextTask /\ tasks[client[c].task].deploy = 0
  /\ \A b, c \in Clients : Committing(b) /\ Committing(c) /\ b # c =>
        client[b].task # client[c].task

\* A step that inserts no task and takes no ID.
NoNewTask ==
  /\ \A t \in TaskIDs : RowKept(t)
  /\ nextTask' = nextTask
  /\ \A c \in Clients : Committing(c)' => Committing(c) /\ client'[c].task = client[c].task

LEMMA CommitWrites ==
  ASSUME TypeInv, NEW c \in Clients, CommitDeployTask(c)
  PROVE  /\ Committing(c) /\ client[c].task \in TaskIDs
         /\ \A t \in TaskIDs \ {client[c].task} : tasks'[t] = tasks[t]
         /\ tasks'[client[c].task].deploy \in DeployIDs
         /\ ~ Committing(c)'
         /\ \A b \in Clients \ {c} : client'[b] = client[b]
         /\ client'[c].pc \in {"run", "queue"}
         /\ client'[c].d = client[c].d
         /\ nextTask' = nextTask
<1>1. tasks \in [TaskIDs -> TaskRow] /\ client \in [Clients -> ClientState]
  BY DEF TypeInv, TypeOK, StoreType, ProcessType
<1>2. Committing(c) /\ client[c].task \in TaskIDs /\ client[c].d \in DeployIDs
  BY DEF CommitDeployTask, Committing, TypeInv, Linked
<1>3. PICK row : tasks' = [tasks EXCEPT ![client[c].task] = row] /\ row.deploy = client[c].d
  <2> DEFINE isBuild == client[c].pc = "buildcommit"
             r == [deploy |-> client[c].d, type |-> IF isBuild THEN 0 ELSE 1,
                   status |-> IF isBuild /\ client[c].img THEN BuildSkip ELSE 0]
  <2>1. tasks' = [tasks EXCEPT ![client[c].task] = r]
    BY DEF CommitDeployTask
  <2>2. r.deploy = client[c].d
    OBVIOUS
  <2> HIDE DEF r
  <2> QED BY <2>1, <2>2
<1>4. PICK p \in {"run", "queue"} : client' = [client EXCEPT ![c].pc = p, ![c].task = 0]
  BY DEF CommitDeployTask
<1>5. client'[c].pc = p /\ client'[c].d = client[c].d
  BY <1>1, <1>4 DEF ClientState
<1>6. nextTask' = nextTask
  BY DEF CommitDeployTask
<1> QED BY <1>1, <1>2, <1>3, <1>4, <1>5, <1>6 DEF Committing

LEMMA CreateWrites ==
  ASSUME TypeInv, NEW c \in Clients, CreateDeployTask(c)
  PROVE  /\ nextTask \in TaskIDs /\ nextTask' = nextTask + 1
         /\ tasks' = tasks
         /\ client'[c].task = nextTask /\ client'[c].pc \in {"buildcommit", "runcommit"}
         /\ client'[c].d = client[c].d
         /\ \A b \in Clients \ {c} : client'[b] = client[b]
<1>1. client \in [Clients -> ClientState]
  BY DEF TypeInv, TypeOK, ProcessType
<1>2. PICK p \in {"buildcommit", "runcommit"} :
        client' = [client EXCEPT ![c].task = nextTask, ![c].pc = p]
  BY <1>1 DEF CreateDeployTask, ClientState
<1>3. client'[c].task = nextTask /\ client'[c].pc = p /\ client'[c].d = client[c].d
  BY <1>1, <1>2 DEF ClientState
<1>4. nextTask \in TaskIDs /\ nextTask' = nextTask + 1 /\ tasks' = tasks
  BY DEF CreateDeployTask
<1> QED BY <1>1, <1>2, <1>3, <1>4

\* The other requests insert no task.
OtherRequest(c) ==
  \/ DedicatedDeploy(c) \/ ServerlessDeploy(c) \/ LoseDeployTask(c) \/ Queue(c)
  \/ StartDeploy(c) \/ WriteUpdate(c) \/ Exist(c) \/ StopDeploy(c)
  \/ NewRequest(c)

LEMMA OtherRequestTasks ==
  ASSUME TypeInv, NEW c \in Clients, OtherRequest(c)
  PROVE  /\ NoNewTask /\ tasks' = tasks /\ UNCHANGED <<last, handed, dropped>>
         /\ \A b \in Clients \ {c} : client'[b] = client[b]
         /\ ~ Committing(c)' \/ UNCHANGED client
<1>1. client \in [Clients -> ClientState]
  BY DEF TypeInv, TypeOK, ProcessType
<1>2. tasks' = tasks /\ nextTask' = nextTask /\ UNCHANGED <<last, handed, dropped>>
  BY DEF OtherRequest, NewRequest, DedicatedDeploy, ServerlessDeploy, LoseDeployTask, Queue, StartDeploy,
     WriteUpdate, Exist, StopDeploy, Deploy, DeployStart, DeployUpdate, StopService,
     DeleteTarget, store, process
<1>3. \/ UNCHANGED client
      \/ \E r : client' = [client EXCEPT ![c] = r] /\ r.pc \notin {"buildcommit", "runcommit"}
  <2>1. CASE DedicatedDeploy(c)
    <3>1. PICK d \in DeployIDs : client' = [client EXCEPT ![c].pc = "build", ![c].d = d]
      BY <2>1 DEF DedicatedDeploy
    <3>2. client' = [client EXCEPT ![c] = client'[c]] /\ client'[c].pc = "build"
      BY <1>1, <3>1 DEF ClientState
    <3> QED BY <3>2
  <2>2. CASE ServerlessDeploy(c) \/ StartDeploy(c)
    <3>1. client' = [client EXCEPT ![c] = client'[c]] /\ client'[c].pc \in {"build", "run"}
      BY <1>1, <2>2 DEF ServerlessDeploy, StartDeploy, ClientState
    <3> QED BY <3>1
  <2>3. CASE Queue(c) \/ WriteUpdate(c) \/ StopDeploy(c)
    <3>1. client' = [client EXCEPT ![c] = NoRequest] /\ NoRequest.pc = "idle"
      BY <2>3 DEF Queue, WriteUpdate, StopDeploy, NoRequest
    <3> QED BY <3>1
  <2>4. CASE Exist(c)
    <3>1. client' = [client EXCEPT ![c] = client'[c]] /\ client'[c].pc \in {"idle", "stop", "delete"}
      BY <1>1, <2>4 DEF Exist, ClientState, NoRequest
    <3> QED BY <3>1
  <2>5. CASE Deploy(c) \/ DeployStart(c) \/ DeployUpdate(c) \/ StopService(c)
    <3>1. client' = [client EXCEPT ![c] = client'[c]]
          /\ client'[c].pc \in {"row", "start", "update", "stop", "stopcheck", "deletecheck"}
      <4>1. CASE Deploy(c)
        BY <1>1, <4>1 DEF Deploy
      <4>2. CASE DeployStart(c) \/ DeployUpdate(c)
        BY <1>1, <4>2 DEF DeployStart, DeployUpdate, Request
      <4>3. CASE StopService(c)
        BY <1>1, <4>3 DEF StopService, Request
      <4> QED BY <2>5, <4>1, <4>2, <4>3
    <3> QED BY <3>1
  <2>6. CASE DeleteTarget(c)
    BY <2>6 DEF DeleteTarget
  <2>7. CASE LoseDeployTask(c)
    <3>1. client' = [client EXCEPT ![c] = client'[c]] /\ client'[c].pc \in {"run", "queue"}
      BY <1>1, <2>7 DEF LoseDeployTask, ClientState
    <3> QED BY <3>1
  <2> QED BY <2>1, <2>2, <2>3, <2>4, <2>5, <2>6, <2>7 DEF OtherRequest, NewRequest
<1>4. \A t \in TaskIDs : RowKept(t)
  BY <1>2 DEF RowKept
<1>5. \A b \in Clients \ {c} : client'[b] = client[b]
  BY <1>1, <1>3
<1>6. ~ Committing(c)' \/ UNCHANGED client
  BY <1>1, <1>3 DEF Committing
<1> QED BY <1>2, <1>4, <1>5, <1>6 DEF NoNewTask, Committing

\* The steps, sorted by what they do to the tasks.
LEMMA StepKinds ==
  ASSUME [Next]_vars
  PROVE  \/ \E w \in Workers : RunnerStep(w)
         \/ \E w \in Workers : RunNext(w) \/ CancelNext(w) \/ SkipNext(w)
         \/ \E c \in Clients : CommitDeployTask(c)
         \/ \E c \in Clients : CreateDeployTask(c)
         \/ \E c \in Clients : OtherRequest(c)
         \/ ExternalStep \/ Restart \/ UNCHANGED vars
<1>1. ASSUME NEW w \in Workers, WorkerProgress(w) \/ WorkerFault(w)
      PROVE  RunNext(w) \/ CancelNext(w) \/ SkipNext(w) \/ RunnerStep(w)
  BY <1>1 DEF WorkerProgress, WorkerFault, RunnerStep
<1>2. ASSUME NEW c \in Clients, ClientStep(c) \/ NewRequest(c)
      PROVE  CommitDeployTask(c) \/ CreateDeployTask(c) \/ OtherRequest(c)
  BY <1>2 DEF ClientStep, OtherRequest
<1> QED BY <1>1, <1>2 DEF Next

LEMMA NextFresh ==
  ASSUME TypeInv, FreshTasks, [Next]_vars
  PROVE  /\ FreshTasks'
         /\ \A t \in TaskIDs : tasks[t].deploy # 0 => RowKept(t)
<1> DEFINE Goal == FreshTasks' /\ \A t \in TaskIDs : tasks[t].deploy # 0 => RowKept(t)
<1>0. nextTask \in Int /\ client \in [Clients -> ClientState] /\ tasks \in [TaskIDs -> TaskRow]
      /\ TaskIDs \subseteq Int
  BY DeployAssumption DEF TypeInv, TypeOK, StoreType, ProcessType, TaskIDs
<1>t. \A c \in Clients : Committing(c) => client[c].task \in TaskIDs
  BY DEF Committing, TypeInv, Linked
<1>1. ASSUME NoNewTask PROVE Goal
  BY <1>1, <1>t DEF NoNewTask, FreshTasks, RowKept, Committing
<1>2. ASSUME NEW w \in Workers, RunnerStep(w) PROVE NoNewTask
  <2>1. UNCHANGED <<nextTask, client>>
    BY <1>2, RunnerStepOwn DEF OwnStep
  <2> QED BY <1>2, <2>1, RunnerStepWrites DEF RunnerWrites, NoNewTask, Committing
<1>3. ASSUME NEW w \in Workers, RunNext(w) \/ CancelNext(w) \/ SkipNext(w) PROVE NoNewTask
  BY <1>3, TakeTaskWrites DEF NoNewTask, Committing
<1>4. ASSUME NEW c \in Clients, CommitDeployTask(c) PROVE Goal
  <2>1. \A t \in TaskIDs : t # client[c].task => RowKept(t)
    BY <1>4, CommitWrites DEF RowKept
  <2>2. client[c].task < nextTask /\ tasks[client[c].task].deploy = 0 /\ client[c].task \in TaskIDs
    BY <1>4, CommitWrites DEF FreshTasks
  <2>3. \A t \in TaskIDs : t >= nextTask' => tasks'[t].deploy = 0
    <3> SUFFICES ASSUME NEW t \in TaskIDs, t >= nextTask' PROVE tasks'[t].deploy = 0
      OBVIOUS
    <3>1. t # client[c].task /\ t >= nextTask
      BY <1>0, <1>4, <2>2, CommitWrites
    <3> QED BY <1>4, <3>1, CommitWrites DEF FreshTasks
  <2>4. ASSUME NEW b \in Clients, Committing(b)'
        PROVE  b # c /\ Committing(b) /\ client'[b] = client[b] /\ tasks'[client[b].task].deploy = 0
               /\ client[b].task < nextTask'
    <3>1. b # c /\ client'[b] = client[b]
      BY <1>4, <2>4, CommitWrites
    <3>2. Committing(b) /\ Committing(c)
      BY <1>4, <2>4, <3>1, CommitWrites DEF Committing
    <3>3. client[b].task # client[c].task /\ client[b].task \in TaskIDs
      BY <1>t, <3>1, <3>2 DEF FreshTasks
    <3> QED BY <1>4, <3>1, <3>2, <3>3, CommitWrites DEF FreshTasks
  <2>5. FreshTasks'
    BY <2>3, <2>4 DEF FreshTasks
  <2> QED BY <2>1, <2>2, <2>5
<1>5. ASSUME NEW c \in Clients, CreateDeployTask(c) PROVE Goal
  <2>1. tasks' = tasks /\ nextTask' = nextTask + 1 /\ nextTask \in TaskIDs
        /\ client'[c].task = nextTask
    BY <1>5, CreateWrites
  <2>2. ASSUME NEW b \in Clients, b # c, Committing(b)'
        PROVE  Committing(b) /\ client'[b].task = client[b].task /\ client[b].task < nextTask
               /\ client[b].task \in Int /\ tasks[client[b].task].deploy = 0
    <3>1. client'[b] = client[b]
      BY <1>5, <2>2, CreateWrites
    <3>2. Committing(b)
      BY <2>2, <3>1 DEF Committing
    <3> QED BY <1>0, <1>t, <3>1, <3>2 DEF FreshTasks
  <2>3. tasks[nextTask].deploy = 0
    BY <1>0, <2>1 DEF FreshTasks
  <2>4. \A t \in TaskIDs : t >= nextTask' => tasks'[t].deploy = 0
    BY <1>0, <2>1 DEF FreshTasks
  <2>5. ASSUME NEW b \in Clients, Committing(b)'
        PROVE  client'[b].task < nextTask' /\ tasks'[client'[b].task].deploy = 0
    BY <1>0, <2>1, <2>2, <2>3, <2>5
  <2>6. ASSUME NEW a \in Clients, NEW b \in Clients, Committing(a)', Committing(b)', a # b
        PROVE  client'[a].task # client'[b].task
    <3>1. CASE a = c
      BY <1>0, <2>1, <2>2, <2>6, <3>1
    <3>2. CASE b = c
      BY <1>0, <2>1, <2>2, <2>6, <3>2
    <3>3. CASE a # c /\ b # c
      BY <2>2, <2>6, <3>3 DEF FreshTasks
    <3> QED BY <3>1, <3>2, <3>3
  <2>7. FreshTasks'
    BY <2>4, <2>5, <2>6 DEF FreshTasks
  <2> QED BY <2>1, <2>7 DEF RowKept
<1>6. ASSUME NEW c \in Clients, OtherRequest(c) PROVE NoNewTask
  BY <1>6, OtherRequestTasks
<1>7. ASSUME ExternalStep \/ UNCHANGED vars PROVE Goal
  <2>1. UNCHANGED <<tasks, nextTask, client>>
    BY <1>7 DEF ExternalStep, BuilderStep, ServiceSettles, ServiceScales, store, vars
  <2>2. NoNewTask
    BY <2>1 DEF NoNewTask, RowKept, Committing
  <2> QED BY <1>1, <2>2
<1>8. ASSUME Restart PROVE Goal
  <2>1. NoNewTask
    BY <1>8 DEF Restart, NoNewTask, RowKept, Committing, NoRequest, store
  <2> QED BY <1>1, <2>1
<1> HIDE DEF Goal
<1>9. Goal
  BY <1>1, <1>2, <1>3, <1>4, <1>5, <1>6, <1>7, <1>8, StepKinds
<1> QED BY <1>9 DEF Goal
----------------------------------------------------------------------------
(* Images come before services.  A deploy is good when it needs no build or *)
(* its image was made; that never changes back, and whatever leads to a     *)
(* service, an image column, a job that succeeded, a runner about to call   *)
(* the image runner, comes from a good deploy.                              *)

Good(d) == deploys[d].target \in Prebuilt \/ d \in images

\* A request writes back the image column of a prebuilt target, or of the row
\* that its own target has.
RequestGood(c) ==
  /\ client[c].pc = "row" =>
       /\ client[c].img => client[c].target \in Prebuilt
       /\ client[c].d # 0 => deploys[client[c].d].target = client[c].target
  /\ client[c].pc \in {"start", "update"} => deploys[client[c].d].target \in Prebuilt

ImageInv ==
  /\ \A d \in DeployIDs : deploys[d].image \/ builder[d] = "ok" => Good(d)
  /\ \A w \in Workers : worker[w].pc = "call" => Good(DeployOf(w))
  /\ ImageBeforeService
  /\ \A c \in Clients : RequestGood(c)

\* The rows of deploys keep their targets, and a new row or a new image column
\* is of a prebuilt target or of a deploy the builder succeeded for.
RowsGood ==
  /\ \A d \in DeployIDs : Exists(d) => TargetKept(d)
  /\ \A d \in DeployIDs : deploys'[d].image =>
        deploys[d].image \/ builder[d] = "ok" \/ deploys'[d].target \in Prebuilt

LEMMA GoodStays ==
  ASSUME RowsGood, images \subseteq images', NEW d \in DeployIDs, Good(d)
  PROVE  Good(d)'
BY DeployAssumption DEF RowsGood, Good, TargetKept, Exists

LEMMA RequestStaysGood ==
  ASSUME TypeInv, RowsGood, NEW c \in Clients, RequestGood(c), client'[c] = client[c]
  PROVE  RequestGood(c)'
<1>1. CASE client[c].pc = "row"
  <2>1. client[c].d # 0 => client[c].d \in DeployIDs
    BY <1>1 DEF TypeInv, TypeOK, ProcessType, ClientState, DeployIDs
  <2>2. client[c].target \in Targets
    BY <1>1 DEF TypeInv, Linked
  <2> QED BY <1>1, <2>1, <2>2, DeployAssumption DEF RowsGood, RequestGood, TargetKept, Exists
<1>2. CASE client[c].pc \in {"start", "update"}
  <2>1. client[c].d \in DeployIDs
    BY <1>2 DEF TypeInv, Linked
  <2> QED BY <1>2, <2>1, DeployAssumption DEF RowsGood, RequestGood, TargetKept, Exists
<1> QED BY <1>1, <1>2 DEF RequestGood

\* What a step has to respect.
LEMMA ImageFrame ==
  ASSUME TypeInv, TypeInv', ImageInv, RowsGood, images \subseteq images',
         \A t \in TaskIDs : tasks[t].deploy # 0 => RowKept(t),
         \A d \in DeployIDs : builder'[d] = "ok" => builder[d] = "ok" \/ d \in images',
         \A w \in Workers : worker'[w].pc = "call" =>
            /\ worker'[w].task = worker[w].task
            /\ worker[w].pc = "call" \/ (Busy(w) /\ deploys[DeployOf(w)].image),
         \A n \in SvcNames : svc'[n].deploy \in {0, svc[n].deploy}
            \/ \E w \in Workers : worker[w].pc = "call" /\ svc'[n].deploy = DeployOf(w),
         \A c \in Clients : RequestGood(c)'
  PROVE  ImageInv'
<1>1. \A d \in DeployIDs : Good(d) => Good(d)'
  BY GoodStays
<1>2. \A d \in DeployIDs : (deploys[d].image \/ builder[d] = "ok" => Good(d))'
  <2> SUFFICES ASSUME NEW d \in DeployIDs, deploys'[d].image \/ builder'[d] = "ok"
               PROVE  Good(d)'
    OBVIOUS
  <2>1. deploys[d].image \/ builder[d] = "ok" => Good(d)
    BY DEF ImageInv
  <2>2. CASE deploys'[d].target \in Prebuilt \/ d \in images'
    BY <2>2 DEF Good
  <2>3. CASE deploys[d].image \/ builder[d] = "ok"
    BY <1>1, <2>1, <2>3
  <2> QED BY <2>2, <2>3 DEF RowsGood
<1>3. \A w \in Workers : (worker[w].pc = "call" => Good(DeployOf(w)))'
  <2> SUFFICES ASSUME NEW w \in Workers, worker'[w].pc = "call"
               PROVE  Good(DeployOf(w))'
    OBVIOUS
  <2>1. Busy(w)
    BY DEF Busy
  <2>2. worker[w].task \in TaskIDs /\ DeployOf(w) \in DeployIDs
    BY <2>1 DEF TypeInv, Linked, DeployOf
  <2>3. tasks[worker[w].task].deploy # 0
    BY <2>2 DEF DeployOf, DeployIDs
  <2>4. DeployOf(w)' = DeployOf(w)
    BY <2>2, <2>3 DEF RowKept, DeployOf
  <2>5. Good(DeployOf(w))
    BY <2>2 DEF ImageInv
  <2> DEFINE d == DeployOf(w)
  <2>6. \A e \in DeployIDs : e = d => Good(e)'
    BY <1>1, <2>5
  <2> QED BY <2>2, <2>4, <2>6 DEF Good
<1>4. ImageBeforeService'
  <2> SUFFICES ASSUME NEW n \in SvcNames, svc'[n].deploy # 0
               PROVE  deploys'[svc'[n].deploy].target \in Prebuilt \/ svc'[n].deploy \in images'
    BY DEF ImageBeforeService
  <2>1. svc'[n].deploy \in DeployIDs
    BY DEF TypeInv, TypeOK, ExternalType, DeployIDs
  <2>2. \A d \in DeployIDs : d = svc'[n].deploy => Good(d)
    <3>1. CASE svc'[n].deploy = svc[n].deploy
      BY <3>1 DEF ImageInv, ImageBeforeService, Good
    <3>2. CASE \E w \in Workers : worker[w].pc = "call" /\ svc'[n].deploy = DeployOf(w)
      BY <3>2 DEF ImageInv
    <3> QED BY <3>1, <3>2
  <2> QED BY <1>1, <2>1, <2>2 DEF Good
<1> QED BY <1>2, <1>3, <1>4 DEF ImageInv

LEMMA RunnerStepImage ==
  ASSUME TypeInv, TypeInv', ImageInv, NEW w \in Workers, RunnerStep(w)
  PROVE  ImageInv'
<1>1. OwnStep(w) /\ RunnerWrites(w)
  BY RunnerStepOwn, RunnerStepWrites
<1>2. RowsGood
  BY <1>1 DEF RowsGood, RunnerWrites, ImageKept
<1>3. \A t \in TaskIDs : RowKept(t)
  BY <1>1 DEF RunnerWrites
<1>4. /\ images \subseteq images'
      /\ \A d \in DeployIDs : builder'[d] = "ok" => builder[d] = "ok"
      /\ \A n \in SvcNames : svc'[n].deploy \in {0, svc[n].deploy}
            \/ \E v \in Workers : worker[v].pc = "call" /\ svc'[n].deploy = DeployOf(v)
  BY RunnerStepRemote
<1>5. \A v \in Workers : worker'[v].pc = "call" =>
        /\ worker'[v].task = worker[v].task
        /\ worker[v].pc = "call" \/ (Busy(v) /\ deploys[DeployOf(v)].image)
  BY <1>1, RunnerStepLabels DEF OwnStep
<1>6. \A c \in Clients : RequestGood(c)'
  BY <1>1, <1>2, RequestStaysGood DEF OwnStep, ImageInv
<1> QED BY <1>2, <1>3, <1>4, <1>5, <1>6, ImageFrame

LEMMA TakeTaskImage ==
  ASSUME TypeInv, TypeInv', ImageInv, NEW w \in Workers,
         RunNext(w) \/ CancelNext(w) \/ SkipNext(w)
  PROVE  ImageInv'
<1>0. worker \in [Workers -> WorkerState]
  BY DEF TypeInv, TypeOK, ProcessType
<1>1. PICK t \in TaskIDs :
        /\ UNCHANGED <<deploys, images, builder, svc, client>>
        /\ \A u \in TaskIDs : RowKept(u)
        /\ worker' = worker \/ worker' = [worker EXCEPT ![w] = RunnerOf(t)]
  BY TakeTaskWrites
<1>2. RowsGood
  BY <1>1 DEF RowsGood, TargetKept
<1>3. RunnerOf(t).pc # "call"
  BY DEF RunnerOf, Goroutine
<1>4. \A v \in Workers : worker'[v].pc = "call" => worker'[v] = worker[v]
  BY <1>0, <1>1, <1>3
<1>5. \A c \in Clients : RequestGood(c)'
  BY <1>1, <1>2, RequestStaysGood DEF ImageInv
<1> QED BY <1>1, <1>2, <1>4, <1>5, ImageFrame

\* What the requests write to the deploys.
LEMMA RequestWrites ==
  ASSUME TypeInv, ImageInv, NEW c \in Clients, ClientStep(c) \/ NewRequest(c)
  PROVE  RowsGood
<1>0. deploys \in [DeployIDs -> DeployRow]
  BY DEF TypeInv, TypeOK, StoreType
<1>g. RequestGood(c)
  BY DEF ImageInv
<1>1. CASE UNCHANGED deploys
  BY <1>1 DEF RowsGood, TargetKept
<1>2. CASE DedicatedDeploy(c)
  <2>1. PICK d \in DeployIDs :
          /\ ~Exists(d)
          /\ deploys' = [deploys EXCEPT ![d] =
                [target |-> client[c].target, status |-> Pending, image |-> client[c].img]]
    BY <1>2 DEF DedicatedDeploy
  <2>2. client[c].img => client[c].target \in Prebuilt
    BY <1>2, <1>g DEF RequestGood, DedicatedDeploy
  <2> QED BY <1>0, <2>1, <2>2 DEF RowsGood, TargetKept
<1>3. CASE ServerlessDeploy(c) \/ WriteUpdate(c) \/ StartDeploy(c)
  <2>1. client[c].img => deploys[client[c].d].target \in Prebuilt
    BY <1>3, <1>g DEF RequestGood, ServerlessDeploy, WriteUpdate, StartDeploy
  <2>2. PICK s : deploys' = [deploys EXCEPT ![client[c].d].status = s,
                                            ![client[c].d].image = client[c].img]
    BY <1>3 DEF ServerlessDeploy, WriteUpdate, StartDeploy, UpdateDeploy
  <2>3. ASSUME NEW d \in DeployIDs
        PROVE  /\ TargetKept(d)
               /\ deploys'[d].image => deploys[d].image \/ deploys'[d].target \in Prebuilt
    BY <1>0, <2>1, <2>2 DEF TargetKept, DeployRow
  <2> QED BY <2>3 DEF RowsGood
<1>4. CASE StopDeploy(c)
  <2>1. PICK s : deploys' = [deploys EXCEPT ![client[c].d].status = s]
    BY <1>4 DEF StopDeploy
  <2>2. ASSUME NEW d \in DeployIDs
        PROVE  TargetKept(d) /\ (deploys'[d].image => deploys[d].image)
    BY <1>0, <2>1 DEF TargetKept, DeployRow
  <2> QED BY <2>2 DEF RowsGood
<1>5. CASE CreateDeployTask(c) \/ CommitDeployTask(c) \/ LoseDeployTask(c) \/ Queue(c) \/ Exist(c)
  BY <1>1, <1>5 DEF CreateDeployTask, CommitDeployTask, LoseDeployTask, Queue, Exist, store
<1>6. CASE NewRequest(c)
  BY <1>1, <1>6 DEF NewRequest, Deploy, DeployStart, DeployUpdate, StopService, DeleteTarget, store
<1> QED BY <1>2, <1>3, <1>4, <1>5, <1>6 DEF ClientStep

\* What the requests hold themselves.
LEMMA RequestHolds ==
  ASSUME TypeInv, ImageInv, NEW c \in Clients, ClientStep(c) \/ NewRequest(c)
  PROVE  \A b \in Clients : RequestGood(b)'
<1>0. client \in [Clients -> ClientState] /\ deploys \in [DeployIDs -> DeployRow]
  BY DEF TypeInv, TypeOK, StoreType, ProcessType
<1>1. RowsGood
  BY RequestWrites
<1>2. ASSUME NEW b \in Clients, client'[b] = client[b] PROVE RequestGood(b)'
  BY <1>1, <1>2, RequestStaysGood DEF ImageInv
<1>3. \A b \in Clients \ {c} : client'[b] = client[b]
  <2>1. CASE CommitDeployTask(c)
    BY <2>1, CommitWrites
  <2>2. CASE CreateDeployTask(c)
    BY <2>2, CreateWrites
  <2>3. CASE OtherRequest(c)
    BY <2>3, OtherRequestTasks
  <2> QED BY <2>1, <2>2, <2>3 DEF ClientStep, OtherRequest
<1>4. ASSUME client'[c].pc \notin {"row", "start", "update"} PROVE RequestGood(c)'
  BY <1>4 DEF RequestGood
<1>5. CASE ClientStep(c)
  <2>1. CASE CommitDeployTask(c)
    BY <1>2, <1>3, <1>4, <2>1, CommitWrites
  <2>2. CASE CreateDeployTask(c)
    BY <1>2, <1>3, <1>4, <2>2, CreateWrites
  <2>3. CASE DedicatedDeploy(c)
    <3>1. PICK d \in DeployIDs : client' = [client EXCEPT ![c].pc = "build", ![c].d = d]
      BY <2>3 DEF DedicatedDeploy
    <3>2. client'[c].pc = "build"
      BY <1>0, <3>1 DEF ClientState
    <3> QED BY <1>2, <1>3, <1>4, <3>2
  <2>4. CASE ServerlessDeploy(c) \/ StartDeploy(c)
    <3>1. client'[c].pc \in {"build", "run"}
      BY <1>0, <2>4 DEF ServerlessDeploy, StartDeploy, ClientState
    <3> QED BY <1>2, <1>3, <1>4, <3>1
  <2>5. CASE Queue(c) \/ WriteUpdate(c) \/ StopDeploy(c) \/ Exist(c)
    <3>1. client'[c].pc \in {"idle", "stop", "delete"}
      BY <1>0, <2>5 DEF Queue, WriteUpdate, StopDeploy, Exist, ClientState, NoRequest
    <3> QED BY <1>2, <1>3, <1>4, <3>1
  <2>6. CASE LoseDeployTask(c)
    <3>1. client'[c].pc \in {"run", "queue"}
      BY <1>0, <2>6 DEF LoseDeployTask, ClientState
    <3> QED BY <1>2, <1>3, <1>4, <3>1
  <2> QED BY <1>5, <2>1, <2>2, <2>3, <2>4, <2>5, <2>6 DEF ClientStep
<1>6. CASE NewRequest(c)
  <2>1. CASE Deploy(c)
    <3>1. PICK x \in alive, d \in 0..MaxDeploys :
            /\ IF x \in Spaces THEN GetLatestDeployBySpaceID(d, x) ELSE d = 0
            /\ client' = [client EXCEPT ![c] = [pc |-> "row", d |-> d, target |-> x,
                  st |-> IF d = 0 THEN Pending ELSE deploys[d].status,
                  img |-> x \in Prebuilt, task |-> 0]]
      BY <2>1 DEF Deploy
    <3>2. d # 0 => deploys[d].target = x
      BY <3>1 DEF GetLatestDeployBySpaceID
    <3>3. /\ client'[c].pc = "row" /\ client'[c].target = x /\ client'[c].d = d
          /\ client'[c].img = (x \in Prebuilt)
      BY <1>0, <3>1
    <3>4. deploys' = deploys
      BY <2>1 DEF Deploy, store
    <3>5. RequestGood(c)'
      BY <3>2, <3>3, <3>4 DEF RequestGood
    <3> QED BY <1>2, <1>3, <3>5
  <2>2. CASE DeployStart(c) \/ DeployUpdate(c)
    <3>1. PICK d \in DeployIDs, label \in {"start", "update"} :
            deploys[d].target \in Models /\ Request(c, label, d)
      BY <2>2 DEF DeployStart, DeployUpdate
    <3>2. client'[c].pc \in {"start", "update"} /\ client'[c].d = d
      BY <1>0, <3>1 DEF Request
    <3>3. deploys' = deploys
      BY <2>2 DEF DeployStart, DeployUpdate, store
    <3>4. RequestGood(c)'
      BY <3>1, <3>2, <3>3, DeployAssumption DEF RequestGood
    <3> QED BY <1>2, <1>3, <3>4
  <2>3. CASE StopService(c)
    <3>1. client'[c].pc \in {"stop", "stopcheck", "deletecheck"}
      BY <1>0, <2>3 DEF StopService, Request
    <3> QED BY <1>2, <1>3, <1>4, <3>1
  <2>4. CASE DeleteTarget(c)
    BY <1>2, <2>4 DEF DeleteTarget
  <2> QED BY <1>6, <2>1, <2>2, <2>3, <2>4 DEF NewRequest
<1> QED BY <1>5, <1>6

LEMMA RequestImage ==
  ASSUME TypeInv, TypeInv', ImageInv, NEW c \in Clients, ClientStep(c) \/ NewRequest(c),
         \A t \in TaskIDs : tasks[t].deploy # 0 => RowKept(t)
  PROVE  ImageInv'
<1> DEFINE S == [deploy : 0..MaxDeploys, code : RunnerCodes \cup {Stopped}]
<1>0. worker \in [Workers -> WorkerState] /\ svc \in [SvcNames -> S]
  BY DEF TypeInv, TypeOK, ProcessType, ExternalType
<1>1. RowsGood /\ \A b \in Clients : RequestGood(b)'
  BY RequestWrites, RequestHolds
<1>2. UNCHANGED <<builder, images>>
  BY DEF ClientStep, NewRequest, DedicatedDeploy, ServerlessDeploy, CreateDeployTask,
     CommitDeployTask, LoseDeployTask, Queue, StartDeploy, WriteUpdate, Exist, StopDeploy, Deploy, DeployStart,
     DeployUpdate, StopService, DeleteTarget, external
<1>3. \A n \in SvcNames : svc'[n].deploy \in {0, svc[n].deploy}
  <2>1. CASE StopService(c)
    BY <1>0, <2>1 DEF StopService, NoService
  <2>2. CASE ~StopService(c)
    <3>1. svc' = svc
      BY <2>2 DEF ClientStep, NewRequest, DedicatedDeploy, ServerlessDeploy, CreateDeployTask,
         CommitDeployTask, LoseDeployTask, Queue, StartDeploy, WriteUpdate, Exist, StopDeploy, Deploy, DeployStart,
         DeployUpdate, DeleteTarget, external
    <3> QED BY <3>1
  <2> QED BY <2>1, <2>2
<1>4. \A w \in Workers : worker'[w].pc = "call" => worker'[w] = worker[w]
  <2>1. CASE Queue(c)
    <3>1. PICK w \in Workers : worker' = [worker EXCEPT ![w] = Idle]
      BY <2>1 DEF Queue
    <3> QED BY <1>0, <3>1 DEF Idle, Goroutine
  <2>2. CASE ~Queue(c)
    <3>1. worker' = worker
      BY <2>2 DEF ClientStep, NewRequest, DedicatedDeploy, ServerlessDeploy, CreateDeployTask,
         CommitDeployTask, LoseDeployTask, StartDeploy, WriteUpdate, Exist, StopDeploy, Deploy, DeployStart,
         DeployUpdate, StopService, DeleteTarget, process
    <3> QED BY <3>1
  <2> QED BY <2>1, <2>2
<1> QED BY <1>1, <1>2, <1>3, <1>4, ImageFrame

LEMMA NextImage ==
  ASSUME TypeInv, TypeInv', FreshTasks, ImageInv, [Next]_vars
  PROVE  ImageInv'
<1> DEFINE S == [deploy : 0..MaxDeploys, code : RunnerCodes \cup {Stopped}]
<1>0. \A t \in TaskIDs : tasks[t].deploy # 0 => RowKept(t)
  BY NextFresh
<1>1. ASSUME NEW w \in Workers, WorkerProgress(w) \/ WorkerFault(w) PROVE ImageInv'
  <2>1. CASE RunnerStep(w)
    BY <2>1, RunnerStepImage
  <2>2. CASE RunNext(w) \/ CancelNext(w) \/ SkipNext(w)
    BY <2>2, TakeTaskImage
  <2> QED BY <1>1, <2>1, <2>2 DEF WorkerProgress, WorkerFault, RunnerStep
<1>2. ASSUME NEW c \in Clients, ClientStep(c) \/ NewRequest(c) PROVE ImageInv'
  BY <1>0, <1>2, RequestImage
<1>3. ASSUME UNCHANGED <<deploys, tasks, worker, client>>, images \subseteq images',
             \A d \in DeployIDs : builder'[d] = "ok" => builder[d] = "ok" \/ d \in images',
             \A n \in SvcNames : svc'[n].deploy = svc[n].deploy
      PROVE  ImageInv'
  <2>1. RowsGood
    BY <1>3 DEF RowsGood, TargetKept
  <2>2. \A c \in Clients : RequestGood(c)'
    BY <1>3, <2>1, RequestStaysGood DEF ImageInv
  <2> QED BY <1>0, <1>3, <2>1, <2>2, ImageFrame
<1>4. CASE ExternalStep
  <2>0. svc \in [SvcNames -> S] /\ builder \in [DeployIDs -> {"none", "inprogress", "ok", "fail"}]
    BY DEF TypeInv, TypeOK, ExternalType
  <2>1. ASSUME NEW d \in DeployIDs, BuilderStep(d) PROVE ImageInv'
    BY <1>3, <2>0, <2>1 DEF BuilderStep, store, process
  <2>2. ASSUME NEW n \in SvcNames, ServiceSettles(n) \/ ServiceScales(n) PROVE ImageInv'
    <3>1. PICK k : svc' = [svc EXCEPT ![n].code = k]
      BY <2>2 DEF ServiceSettles, ServiceScales
    <3>2. \A m \in SvcNames : svc'[m].deploy = svc[m].deploy
      BY <2>0, <3>1
    <3>3. UNCHANGED <<deploys, tasks, worker, client, images, builder>>
      BY <2>2 DEF ServiceSettles, ServiceScales, store, process
    <3> QED BY <1>3, <3>2, <3>3
  <2> QED BY <1>4, <2>1, <2>2 DEF ExternalStep
<1>5. CASE Restart
  <2>1. UNCHANGED <<deploys, tasks, images, builder, svc>>
    BY <1>5 DEF Restart, store, external
  <2>2. \A w \in Workers : worker'[w].pc # "call"
    BY <1>5 DEF Restart, Primed, Idle, Gone, Goroutine
  <2>3. \A c \in Clients : RequestGood(c)'
    BY <1>5 DEF Restart, RequestGood, NoRequest
  <2>4. RowsGood
    BY <2>1 DEF RowsGood, TargetKept
  <2> QED BY <1>0, <2>1, <2>2, <2>3, <2>4, ImageFrame
<1>6. CASE UNCHANGED vars
  BY <1>3, <1>6 DEF vars
<1> QED BY <1>1, <1>2, <1>4, <1>5, <1>6 DEF Next

LEMMA InitImage == Init => FreshTasks /\ ImageInv
<1> SUFFICES ASSUME Init PROVE FreshTasks /\ ImageInv
  OBVIOUS
<1>1. FreshTasks
  BY DEF Init, FreshTasks, Committing, NoRequest, NoTask
<1>2. \A d \in DeployIDs : ~ deploys[d].image /\ builder[d] # "ok"
  BY DEF Init, NoDeploy
<1>3. \A w \in Workers : worker[w].pc # "call"
  BY DEF Init, Primed, Idle, Gone, Goroutine
<1>4. ImageBeforeService
  BY DEF Init, ImageBeforeService, NoService
<1>5. \A c \in Clients : RequestGood(c)
  BY DEF Init, RequestGood, NoRequest
<1> QED BY <1>1, <1>2, <1>3, <1>4, <1>5 DEF ImageInv

\* No service of a deploy ever runs before its image was given to it or made by
\* the image builder, whatever is redeployed, restarted or fails.
THEOREM ImageComesFirst == Spec => []ImageBeforeService
<1> DEFINE IInv == TypeInv /\ FreshTasks /\ ImageInv
<1>1. Init => IInv
  BY InitTypeInv, InitImage
<1>2. IInv /\ [Next]_vars => IInv'
  BY NextTypeInv, NextFresh, NextImage
<1>3. IInv => ImageBeforeService
  BY DEF ImageInv
<1> QED BY <1>1, <1>2, <1>3, PTL DEF Spec
----------------------------------------------------------------------------
(* Nothing is skipped, with one request at a time: the row of a task that   *)
(* has an ID but is not committed yet is then the last one of the sequence, *)
(* so that next() cannot have moved past it.  A failed task writes the      *)
(* statuses back that it read; those that would make a task run again       *)
(* belong to tasks that were handed out or given up before.                 *)

OneRequest == \A b, c \in Clients : b = c

StillToRun(type, status) ==
  \/ type = 0 /\ status \in {0, 1}
  \/ type = 1 /\ status \in {0, 1, 3}

\* What the goroutine w holds was taken up in this life of the server.
HoldsSeen(w) ==
  /\ Busy(w) => worker[w].task \in TakenUp
  /\ worker[w].pc = "fail" =>
       \A t \in TaskIDs :
         /\ t < worker[w].task /\ worker[w].snap[t] # NotOfDeploy
         /\ StillToRun(tasks[t].type, worker[w].snap[t])
         => t \in TakenUp

LastIsTask == last # 0 => tasks[last].deploy # 0
CommitsLast == \A c \in Clients : Committing(c) => client[c].task = nextTask - 1

SkipInv ==
  /\ LastIsTask /\ CommitsLast /\ NoTaskSkipped
  /\ \A w \in Workers : HoldsSeen(w)

\* A goroutine that goes on, or starts to look for a task, without a task read.
LEMMA HoldsSeenFrame ==
  ASSUME TypeInv, TakenBefore, NEW w \in Workers, HoldsSeen(w), TakenUp \subseteq TakenUp',
         \A t \in TaskIDs : t <= last => tasks'[t].type = tasks[t].type,
         worker'[w] = worker[w] \/ worker'[w] = Idle
  PROVE  HoldsSeen(w)'
<1>1. CASE worker'[w] = Idle
  BY <1>1 DEF HoldsSeen, Busy, Idle, Goroutine
<1>2. CASE worker'[w] = worker[w] /\ worker[w].pc = "fail"
  <2>1. Busy(w) /\ worker[w].task \in TaskIDs /\ worker[w].task <= last
    BY <1>2 DEF Busy, TakenBefore, TypeInv, Linked
  <2>2. last \in Int /\ TaskIDs \subseteq Int
    BY DEF TypeInv, TypeOK, ProcessType, TaskIDs
  <2>3. ASSUME NEW t \in TaskIDs, t < worker[w].task PROVE tasks'[t].type = tasks[t].type
    <3>1. t \in Int /\ worker[w].task \in Int /\ last \in Int
      BY <2>1, <2>2
    <3>2. t <= last
      BY <2>1, <2>3, <3>1
    <3> QED BY <3>2
  <2>4. Busy(w)' => worker'[w].task \in TakenUp'
    BY <1>2, <2>1 DEF HoldsSeen
  <2>5. ASSUME NEW t \in TaskIDs, t < worker'[w].task, worker'[w].snap[t] # NotOfDeploy,
               StillToRun(tasks'[t].type, worker'[w].snap[t])
        PROVE  t \in TakenUp'
    BY <1>2, <2>3, <2>5 DEF HoldsSeen
  <2> QED BY <2>4, <2>5 DEF HoldsSeen
<1>3. CASE worker'[w] = worker[w] /\ worker[w].pc # "fail"
  BY <1>3 DEF HoldsSeen, Busy
<1> QED BY <1>1, <1>2, <1>3

LEMMA RunnerStepSkips ==
  ASSUME TypeInv, TakenBefore, SkipInv, NEW w \in Workers, RunnerStep(w)
  PROVE  SkipInv'
<1>1. OwnStep(w) /\ RunnerWrites(w)
  BY RunnerStepOwn, RunnerStepWrites
<1>2. \A t \in TaskIDs : RowKept(t) /\ StatusKept(w, t)
  BY <1>1 DEF RunnerWrites
<1>3. UNCHANGED <<last, handed, dropped, client, nextTask>> /\ Busy(w)
  BY <1>1 DEF OwnStep
<1>u. TakenUp' = TakenUp
  BY <1>3 DEF TakenUp
<1>4. worker[w].task \in TaskIDs /\ worker[w].task <= last /\ worker[w].task \in TakenUp
      /\ DeployOf(w) # 0
  BY <1>3 DEF TypeInv, Linked, TakenBefore, SkipInv, HoldsSeen, DeployOf, DeployIDs
<1>5. last \in 0..MaxTasks /\ TaskIDs \subseteq Int
  BY DeployAssumption DEF TypeInv, TypeOK, ProcessType, TaskIDs
<1>6. LastIsTask' /\ CommitsLast'
  <2>1. last # 0 => last \in TaskIDs
    BY <1>5, DeployAssumption DEF TaskIDs
  <2> QED BY <1>2, <1>3, <2>1 DEF SkipInv, LastIsTask, CommitsLast, RowKept, Committing
<1>7. NoTaskSkipped'
  <2> SUFFICES ASSUME NEW t \in TaskIDs, t <= last, Unfinished(tasks'[t])
               PROVE  t \in TakenUp
    BY <1>3, <1>u DEF NoTaskSkipped
  <2>0. tasks'[t].deploy = tasks[t].deploy /\ tasks'[t].type = tasks[t].type
    BY <1>2 DEF RowKept
  <2>1. CASE t = worker[w].task
    BY <1>4, <2>1
  <2>2. CASE tasks'[t].status = tasks[t].status
    BY <2>0, <2>2 DEF SkipInv, NoTaskSkipped, Unfinished
  <2>3. CASE /\ t # worker[w].task
             /\ worker[w].pc = "fail" /\ worker[w].snap[t] # NotOfDeploy
             /\ tasks'[t].status = FollowingStatus(w, t)
    <3>1. CASE t > worker[w].task
      BY <2>3, <3>1 DEF FollowingStatus, cancelled, Unfinished
    <3>2. CASE t < worker[w].task
      <4>0. t \in Int /\ worker[w].task \in Int
        BY <1>4, <1>5
      <4>1. FollowingStatus(w, t) = worker[w].snap[t]
        BY <3>2, <4>0 DEF FollowingStatus
      <4>2. StillToRun(tasks[t].type, worker[w].snap[t])
        BY <2>0, <2>3, <4>1 DEF Unfinished, StillToRun
      <4> QED BY <2>3, <3>2, <4>2 DEF SkipInv, HoldsSeen
    <3> QED BY <1>4, <1>5, <2>3, <3>1, <3>2
  <2> QED BY <1>2, <2>1, <2>2, <2>3 DEF StatusKept
<1>8. HoldsSeen(w)'
  <2>1. Busy(w)' => worker'[w].task \in TakenUp'
    BY <1>1, <1>3, <1>4, <1>u DEF OwnStep, Busy
  <2>2. ASSUME worker'[w].pc = "fail", NEW t \in TaskIDs,
               t < worker'[w].task, worker'[w].snap[t] # NotOfDeploy,
               StillToRun(tasks'[t].type, worker'[w].snap[t])
        PROVE  t \in TakenUp'
    <3>1. worker'[w].task = worker[w].task /\ worker'[w].snap[t] = tasks[t].status
          /\ tasks[t].deploy = DeployOf(w)
      BY <2>2, RunnerStepLabels
    <3>2. Unfinished(tasks[t])
      BY <1>2, <1>4, <2>2, <3>1 DEF RowKept, Unfinished, StillToRun
    <3>3. t <= last
      BY <1>4, <1>5, <2>2, <3>1
    <3> QED BY <1>u, <3>2, <3>3 DEF SkipInv, NoTaskSkipped
  <2> QED BY <2>1, <2>2 DEF HoldsSeen
<1>9. ASSUME NEW v \in Workers, v # w PROVE HoldsSeen(v)'
  <2>1. worker'[v] = worker[v]
    BY <1>1, <1>9 DEF OwnStep
  <2> QED BY <1>2, <1>3, <1>u, <2>1, HoldsSeenFrame DEF SkipInv, RowKept
<1> QED BY <1>6, <1>7, <1>8, <1>9 DEF SkipInv

LEMMA TakeTaskSkips ==
  ASSUME TypeInv, TakenBefore, SkipInv, NEW w \in Workers,
         RunNext(w) \/ CancelNext(w) \/ SkipNext(w)
  PROVE  SkipInv'
<1>1. PICK t \in TaskIDs :
        /\ TakeTask(t)
        /\ UNCHANGED <<client, nextTask>>
        /\ \A u \in TaskIDs : RowKept(u) /\ (u = t \/ tasks'[u].status = tasks[u].status)
        /\ worker' = worker \/ worker' = [worker EXCEPT ![w] = RunnerOf(t)]
  BY TakeTaskWrites
<1>2. last' = t /\ t > last
  BY <1>1, TakeTaskForward
<1>8. /\ TakenUp \subseteq TakenUp'
      /\ worker' # worker => t \in TakenUp'
      /\ Unfinished(tasks'[t]) => t \in TakenUp'
  <2>1. tasks \in [TaskIDs -> TaskRow]
    BY DEF TypeInv, TypeOK, StoreType
  <2>2. \A u \in TaskIDs : TakeTask(u) => u = t
    BY <1>1 DEF TakeTask
  <2>3. CASE RunNext(w)
    BY <2>2, <2>3 DEF RunNext, TakenUp
  <2>4. CASE SkipNext(w)
    BY <2>2, <2>4 DEF SkipNext, TakenUp
  <2>5. CASE CancelNext(w)
    <3>1. /\ UpdateInTx(deploys, [tasks EXCEPT ![t].status = cancelled])
          /\ dropped' = IF faults' = faults THEN dropped ELSE dropped \cup {t}
          /\ UNCHANGED <<handed, worker>>
      BY <2>2, <2>5 DEF CancelNext
    <3>2. faults \in Int
      BY DeployAssumption DEF TypeInv, TypeOK, StoreType
    <3>3. CASE faults' = faults
      <4>1. tasks'[t].status = cancelled
        BY <2>1, <3>1, <3>2, <3>3 DEF UpdateInTx, TaskRow
      <4> QED BY <3>1, <3>3, <4>1 DEF TakenUp, Unfinished, cancelled
    <3>4. CASE faults' # faults
      BY <3>1, <3>4 DEF TakenUp
    <3> QED BY <3>3, <3>4
  <2> QED BY <2>3, <2>4, <2>5
<1>3. last \in 0..MaxTasks /\ TaskIDs \subseteq Int
  BY DeployAssumption DEF TypeInv, TypeOK, ProcessType, TaskIDs
<1>4. /\ Unfinished(tasks[t])
      /\ \A u \in TaskIDs : u > last /\ Unfinished(tasks[u]) => t <= u
  BY <1>1, <1>3 DEF TakeTask, GetNewTaskFirst, GetNewTaskAfter
<1>5. LastIsTask' /\ CommitsLast'
  BY <1>1, <1>2, <1>4 DEF LastIsTask, CommitsLast, SkipInv, Committing, RowKept, Unfinished
<1>6. NoTaskSkipped'
  <2> SUFFICES ASSUME NEW u \in TaskIDs, u <= t, Unfinished(tasks'[u]), u # t
               PROVE  u \in TakenUp
    BY <1>2, <1>8 DEF NoTaskSkipped
  <2>1. Unfinished(tasks[u])
    BY <1>1 DEF RowKept, Unfinished
  <2>2. u <= last
    BY <1>3, <1>4, <2>1
  <2> QED BY <2>1, <2>2 DEF SkipInv, NoTaskSkipped
<1>7. ASSUME NEW v \in Workers PROVE HoldsSeen(v)'
  <2>1. CASE worker'[v] = worker[v]
    BY <1>1, <1>2, <1>8, <2>1, HoldsSeenFrame DEF SkipInv, RowKept
  <2>2. CASE worker'[v] = RunnerOf(t) /\ worker'[v] # worker[v]
    BY <1>2, <1>8, <2>2 DEF HoldsSeen, RunnerOf, Goroutine
  <2>3. worker'[v] = worker[v] \/ worker'[v] = RunnerOf(t)
    BY <1>1 DEF TypeInv, TypeOK, ProcessType
  <2> QED BY <2>1, <2>2, <2>3
<1> QED BY <1>5, <1>6, <1>7 DEF SkipInv

\* Steps that neither take nor finish a task.
LEMMA SkipsFrame ==
  ASSUME TypeInv, TakenBefore, SkipInv, UNCHANGED <<last, handed, dropped>>, CommitsLast',
         \A t \in TaskIDs : t <= last => tasks'[t] = tasks[t],
         \A w \in Workers : worker'[w] = worker[w] \/ worker'[w] = Idle
  PROVE  SkipInv'
<1>u. TakenUp' = TakenUp
  BY DEF TakenUp
<1>1. last \in 0..MaxTasks
  BY DEF TypeInv, TypeOK, ProcessType
<1>2. last # 0 => last \in TaskIDs /\ last <= last
  BY <1>1, DeployAssumption DEF TaskIDs
<1>3. LastIsTask'
  BY <1>2 DEF SkipInv, LastIsTask
<1>4. NoTaskSkipped'
  BY <1>u DEF SkipInv, NoTaskSkipped
<1>5. \A w \in Workers : HoldsSeen(w)'
  BY <1>u, HoldsSeenFrame DEF SkipInv
<1> QED BY <1>3, <1>4, <1>5 DEF SkipInv

LEMMA RequestSkips ==
  ASSUME OneRequest, TypeInv, TakenBefore, FreshTasks, SkipInv,
         NEW c \in Clients, ClientStep(c) \/ NewRequest(c)
  PROVE  SkipInv'
<1>0. /\ last \in 0..MaxTasks /\ TaskIDs \subseteq Int /\ nextTask \in Int
      /\ worker \in [Workers -> WorkerState]
  BY DeployAssumption DEF TypeInv, TypeOK, StoreType, ProcessType, TaskIDs
<1>1. CASE CommitDeployTask(c)
  <2>1. client[c].task = nextTask - 1 /\ tasks[client[c].task].deploy = 0
        /\ client[c].task \in TaskIDs
    BY <1>1, CommitWrites DEF SkipInv, CommitsLast, FreshTasks
  <2>2. last < client[c].task
    <3>1. CASE last = 0
      BY <2>1, <3>1 DEF TaskIDs
    <3>2. CASE last # 0
      <4>1. last \in TaskIDs /\ tasks[last].deploy # 0
        BY <1>0, <3>2, DeployAssumption DEF SkipInv, LastIsTask, TaskIDs
      <4>2. last < nextTask /\ last # client[c].task
        BY <1>0, <2>1, <4>1 DEF FreshTasks
      <4> QED BY <1>0, <2>1, <4>1, <4>2
    <3> QED BY <3>1, <3>2
  <2>3. \A t \in TaskIDs : t <= last => tasks'[t] = tasks[t]
    BY <1>0, <1>1, <2>1, <2>2, CommitWrites
  <2>4. CommitsLast'
    BY <1>1, CommitWrites DEF CommitsLast, OneRequest
  <2>5. UNCHANGED <<last, handed, dropped, worker>>
    BY <1>1 DEF CommitDeployTask, process
  <2> QED BY <2>3, <2>4, <2>5, SkipsFrame
<1>2. CASE CreateDeployTask(c)
  <2>1. CommitsLast'
    BY <1>0, <1>2, CreateWrites DEF CommitsLast, OneRequest
  <2>2. UNCHANGED <<last, handed, dropped, worker, tasks>>
    BY <1>2 DEF CreateDeployTask, process
  <2> QED BY <2>1, <2>2, SkipsFrame
<1>3. CASE OtherRequest(c)
  <2>1. NoNewTask /\ tasks' = tasks /\ UNCHANGED <<last, handed, dropped>>
    BY <1>3, OtherRequestTasks
  <2>2. CommitsLast'
    BY <2>1 DEF NoNewTask, CommitsLast, SkipInv
  <2>3. \A w \in Workers : worker'[w] = worker[w] \/ worker'[w] = Idle
    <3>1. CASE Queue(c)
      <4>1. PICK w \in Workers : worker' = [worker EXCEPT ![w] = Idle]
        BY <3>1 DEF Queue
      <4> QED BY <1>0, <4>1
    <3>2. CASE ~Queue(c)
      <4>1. worker' = worker
        BY <1>3, <3>2 DEF OtherRequest, NewRequest, DedicatedDeploy, ServerlessDeploy,
           LoseDeployTask, StartDeploy, WriteUpdate, Exist, StopDeploy, Deploy, DeployStart, DeployUpdate,
           StopService, DeleteTarget, process
      <4> QED BY <4>1
    <3> QED BY <3>1, <3>2
  <2> QED BY <2>1, <2>2, <2>3, SkipsFrame
<1> QED BY <1>1, <1>2, <1>3 DEF ClientStep, OtherRequest

LEMMA NextSkips ==
  ASSUME OneRequest, TypeInv, TakenBefore, FreshTasks, SkipInv, [Next]_vars
  PROVE  SkipInv'
<1>1. ASSUME NEW w \in Workers, WorkerProgress(w) \/ WorkerFault(w) PROVE SkipInv'
  <2>1. CASE RunnerStep(w)
    BY <2>1, RunnerStepSkips
  <2>2. CASE RunNext(w) \/ CancelNext(w) \/ SkipNext(w)
    BY <2>2, TakeTaskSkips
  <2> QED BY <1>1, <2>1, <2>2 DEF WorkerProgress, WorkerFault, RunnerStep
<1>2. ASSUME NEW c \in Clients, ClientStep(c) \/ NewRequest(c) PROVE SkipInv'
  BY <1>2, RequestSkips
<1>3. CASE ExternalStep \/ UNCHANGED vars
  <2>1. UNCHANGED <<last, handed, dropped, worker, tasks, client, nextTask>>
    BY <1>3 DEF ExternalStep, BuilderStep, ServiceSettles, ServiceScales, store, process, vars
  <2>2. CommitsLast'
    BY <2>1 DEF SkipInv, CommitsLast, Committing
  <2> QED BY <2>1, <2>2, SkipsFrame
<1>4. CASE Restart
  <2>1. last' = 0 /\ handed' = {} /\ dropped' = {}
    BY <1>4 DEF Restart
  <2>2. \A w \in Workers : HoldsSeen(w)'
    BY <1>4 DEF Restart, HoldsSeen, Busy, Primed, Idle, Gone, Goroutine
  <2>3. CommitsLast'
    BY <1>4 DEF Restart, CommitsLast, Committing, NoRequest
  <2>4. LastIsTask' /\ NoTaskSkipped'
    BY <2>1, DeployAssumption DEF LastIsTask, NoTaskSkipped, TaskIDs
  <2> QED BY <2>2, <2>3, <2>4 DEF SkipInv
<1> QED BY <1>1, <1>2, <1>3, <1>4 DEF Next

\* A task is given up only when a call of the database fails.
GivenUp == faults = 0 => dropped = {}

LEMMA NextGivenUp ==
  ASSUME TypeInv, GivenUp, [Next]_vars  PROVE GivenUp'
<1>0. faults \in Nat /\ faults' \in Int
  BY NextTypeInv, DeployAssumption DEF TypeInv, TypeOK, StoreType
<1>1. faults' = 0 => faults = 0
  <2>1. ASSUME NEW nd, NEW nt, UpdateInTx(nd, nt) PROVE faults' >= faults
    BY <1>0, <2>1 DEF UpdateInTx
  <2>2. ASSUME NEW w \in Workers, WorkerProgress(w) \/ WorkerFault(w) PROVE faults' >= faults
    <3>1. CASE RunNext(w) \/ SkipNext(w) \/ RequestError(w) \/ ReadFollowing(w) \/ BuildError(w)
               \/ Build(w) \/ MakeDeployRequest(w) \/ RunError(w) \/ RunImage(w) \/ Poll(w)
               \/ UnknownStatus(w) \/ CancelDeploy(w)
      BY <1>0, <3>1 DEF RunNext, SkipNext, RequestError, ReadFollowing, BuildError, Build,
         MakeDeployRequest, RunError, RunImage, Poll, UnknownStatus, CancelDeploy
    <3>2. CASE CancelNext(w) \/ FailFollowing(w) \/ BuildSucceeds(w)
      BY <2>1, <3>2 DEF CancelNext, FailFollowing, BuildSucceeds
    <3>3. CASE MarkBuildInProgress(w) \/ BuildFails(w) \/ MarkDeploying(w) \/ Finish(w)
               \/ FinishError(w) \/ KeepPolling(w)
      BY <2>1, <3>3 DEF MarkBuildInProgress, BuildFails, MarkDeploying, Finish, FinishError,
         KeepPolling, SetStatus
    <3> QED BY <2>2, <3>1, <3>2, <3>3 DEF WorkerProgress, WorkerFault
  <2>3. ASSUME NEW c \in Clients, ClientStep(c) \/ NewRequest(c) PROVE faults' >= faults
    BY <1>0, <2>3 DEF ClientStep, NewRequest, DedicatedDeploy, ServerlessDeploy, CreateDeployTask,
       CommitDeployTask, LoseDeployTask, Queue, StartDeploy, WriteUpdate, Exist, StopDeploy, Deploy,
       DeployStart, DeployUpdate, StopService, DeleteTarget
  <2>4. CASE ExternalStep \/ Restart \/ UNCHANGED vars
    BY <1>0, <2>4 DEF ExternalStep, BuilderStep, ServiceSettles, ServiceScales, Restart, vars
  <2> QED BY <1>0, <2>2, <2>3, <2>4 DEF Next
<1>2. CASE faults' = faults
  <2>1. ASSUME NEW w \in Workers, RunNext(w) \/ CancelNext(w) \/ SkipNext(w) PROVE dropped' = dropped
    <3>1. CASE RunNext(w)
      BY <3>1 DEF RunNext
    <3>2. CASE CancelNext(w)
      BY <1>2, <3>2 DEF CancelNext
    <3>3. CASE SkipNext(w)
      <4>1. faults' = faults + 1
        BY <3>3 DEF SkipNext
      <4> QED BY <1>0, <1>2, <4>1
    <3> QED BY <2>1, <3>1, <3>2, <3>3
  <2>2. ASSUME NEW w \in Workers, RunnerStep(w) PROVE dropped' = dropped
    BY <2>2, RunnerStepOwn DEF OwnStep
  <2>3. ASSUME NEW c \in Clients, CommitDeployTask(c) \/ CreateDeployTask(c) \/ OtherRequest(c)
        PROVE  dropped' = dropped
    BY <2>3, OtherRequestTasks DEF CommitDeployTask, CreateDeployTask, process
  <2>4. CASE ExternalStep \/ UNCHANGED vars
    BY <1>2, <2>4 DEF ExternalStep, BuilderStep, ServiceSettles, ServiceScales, process, vars, GivenUp
  <2>5. CASE Restart
    BY <2>5 DEF Restart, GivenUp
  <2> QED BY <1>2, <2>1, <2>2, <2>3, <2>4, <2>5, StepKinds DEF GivenUp
<1>3. CASE faults' # faults
  <2>1. faults' # 0
    BY <1>1, <1>3
  <2> QED BY <2>1 DEF GivenUp
<1> QED BY <1>2, <1>3

\* With one request at a time next() moves past a task that has yet to run only when
\* it hands it out or gives it up, across failures and restarts (with two it does
\* more, as a run shows); and when no call of the database has failed, every such
\* task was handed to a goroutine of this server.
THEOREM NothingSkipped ==
  Spec => [](OneRequest => /\ NoTaskSkipped
                           /\ faults = 0 => \A t \in TaskIDs :
                                t <= last /\ Unfinished(tasks[t]) => t \in handed)
<1> DEFINE Handed == faults = 0 => \A t \in TaskIDs :
                       t <= last /\ Unfinished(tasks[t]) => t \in handed
           IInv == ExclusiveInv /\ FreshTasks /\ GivenUp /\ (OneRequest => SkipInv)
<1>1. Init => IInv
  <2> SUFFICES ASSUME Init PROVE IInv
    OBVIOUS
  <2>1. ExclusiveInv
    BY InitTypeInv DEF ExclusiveInv, Init, TakenBefore, ExclusiveTask, Busy, Primed, Idle, Gone,
       Goroutine
  <2>2. LastIsTask /\ CommitsLast
    BY DEF Init, LastIsTask, CommitsLast, Committing, NoRequest
  <2>3. NoTaskSkipped /\ GivenUp
    BY DeployAssumption DEF Init, NoTaskSkipped, Unfinished, NoTask, GivenUp
  <2>4. \A w \in Workers : HoldsSeen(w)
    BY DEF Init, HoldsSeen, Busy, Primed, Idle, Gone, Goroutine
  <2> QED BY <2>1, <2>2, <2>3, <2>4, InitImage DEF SkipInv
<1>2. IInv /\ [Next]_vars => IInv'
  BY NextTypeInv, NextExclusive, NextFresh, NextSkips, NextGivenUp DEF ExclusiveInv, OneRequest
<1>3. IInv => (OneRequest => NoTaskSkipped /\ Handed)
  BY DEF SkipInv, NoTaskSkipped, GivenUp, TakenUp
<1> QED BY <1>1, <1>2, <1>3, PTL DEF Spec
=============================================================================
