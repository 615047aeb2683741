--------------------------- MODULE DeployScheduler ---------------------------
(***************************************************************************)
(* The deployment scheduler of csghub-server: the deploys and deploy_tasks *)
(* tables, the FIFOScheduler with its goroutines, the BuilderRunner and    *)
(* DeployRunner they execute, and the API requests that create, start,     *)
(* stop, update and delete deployments in the same server process.  The    *)
(* image builder and the image runner are remote services.                 *)
(*                                                                         *)
(* A table row that does not exist is a task with deploy 0 and a deploy    *)
(* with target NoTarget: IDs come from a sequence that starts at 1.        *)
(***************************************************************************)
EXTENDS Integers, FiniteSets

CONSTANTS
  Spaces,        \* spaces: one deploy row, reused by every later deployment
  Models,        \* models: a new deploy row for every deployment
  Prebuilt,      \* targets deployed with an image that needs no build
  NoTarget,      \* target of a deploy row that does not exist
  Workers,       \* goroutines of the scheduler
  ChanCap,       \* cap(rs.tasks): Run primes one goroutine more than this
  Clients,       \* API requests in progress at the same time
  RunnerCodes,   \* the codes the image runner reports for an existing service
  MaxDeploys,    \* bound on deploy rows
  MaxTasks,      \* bound on deploy task rows
  MaxFaults,     \* bound on database writes that fail
  MaxRestarts    \* bound on restarts of the server

Targets == Spaces \cup Models
DeployIDs == 1..MaxDeploys
TaskIDs == 1..MaxTasks

----------------------------------------------------------------------------
(* Status codes of deploy tasks. *)
cancelled == -1
buildPending == 0
buildInProgress == 1
buildFailed == 2
buildSucceed == 3
BuildSkip == 4
deployPending == 0
deploying == 1
deployFailed == 2
deployStartUp == 3
deployRunning == 4
deployRunTimeError == 5

(* Status codes of deploys, shared with the image runner. *)
Pending == 0
Building == 11
BuildFailed == 12
BuildSuccess == 13
Deploying == 20
DeployFailed == 21
Startup == 22
Running == 23
RunTimeError == 24
Sleeping == 25
Stopped == 26
Deleted == 27

(* Outcomes of DeployRunner that are not codes of the image runner: another *)
(* deploy took over the service, and cancelDeploy after the deploy timeout. *)
Superseded == 98
TimedOut == 99

DeployStatus == {Pending, Building, BuildFailed, BuildSuccess, Deploying,
  DeployFailed, Startup, Running, RunTimeError, Stopped, Deleted}
TaskStatus == -1..5
Codes == RunnerCodes \cup {Stopped, Superseded, TimedOut}

ASSUME DeployAssumption ==
  /\ MaxDeploys \in Nat /\ MaxTasks \in Nat
  /\ MaxFaults \in Nat /\ MaxRestarts \in Nat
  /\ Spaces \cap Models = {}
  /\ Models \subseteq Prebuilt /\ Prebuilt \subseteq Targets
  /\ NoTarget \notin Targets
  /\ ChanCap \in Nat
  /\ RunnerCodes \subseteq {Deploying, DeployFailed, Startup, Running,
                            RunTimeError, Sleeping}
  /\ Deploying \in RunnerCodes
  /\ Targets \cap DeployIDs = {}

VARIABLES
  deploys,   \* table deploys
  tasks,     \* table deploy_tasks
  nextTask,  \* the sequence of deploy_tasks.id
  alive,     \* the spaces and models that are in the database
  last,      \* rs.last.ID, 0 for nil
  handed,    \* history: tasks that goroutines got since the server started
  dropped,   \* history: tasks that next() gave up since then, see SkipNext
  worker,    \* the scheduler's goroutines
  client,    \* the API requests
  builder,   \* external: the image builder's job for each deploy
  images,    \* external: deploys for which the image builder made an image
  svc,       \* external: the services the image runner keeps
  faults, restarts

store == <<deploys, tasks, nextTask, alive>>
process == <<last, handed, dropped, worker>>
external == <<builder, images, svc>>
vars == <<deploys, tasks, nextTask, alive, last, handed, dropped, worker, client,
          builder, images, svc, faults, restarts>>

----------------------------------------------------------------------------
(* Row and process types. *)
NoDeploy == [target |-> NoTarget, status |-> Pending, image |-> FALSE]
NoTask == [deploy |-> 0, type |-> 0, status |-> 0]
DeployRow == [target : Targets \cup {NoTarget}, status : DeployStatus, image : BOOLEAN]
TaskRow == [deploy : 0..MaxDeploys, type : {0, 1}, status : TaskStatus]

\* A goroutine that is not there, or that sleeps before its next call of next().
NotOfDeploy == 9
NoSnap == [t \in TaskIDs |-> NotOfDeploy]
Goroutine(label, t, st) ==
  [pc |-> label, task |-> t, st |-> st, code |-> 0, snap |-> NoSnap]
Gone == Goroutine("none", 0, 0)
Idle == Goroutine("idle", 0, 0)
Busy(w) == worker[w].pc \notin {"none", "idle"}

\* Columns 'status' and 'image_id' of the deploy row read by a request; the
\* service name of a deploy is derived from its space, or is its own.
NoRequest == [pc |-> "idle", d |-> 0, target |-> NoTarget, st |-> Pending,
              img |-> FALSE, task |-> 0]
SvcNames == Spaces \cup DeployIDs
SvcName(d) == IF deploys[d].target \in Spaces THEN deploys[d].target ELSE d
NoService == [deploy |-> 0, code |-> Stopped]

DeployOf(w) == tasks[worker[w].task].deploy
Exists(d) == deploys[d].target # NoTarget

\* Run calls next() for count = 0 .. cap(rs.tasks): each call leaves a goroutine
\* behind that calls next() again and again.
PrimeOneLess(ws) == Cardinality(ws) = ChanCap  \* mutant: count < cap(rs.tasks)
Prime(ws) == Cardinality(ws) = ChanCap + 1
Primed(ws) == [w \in Workers |-> IF w \in ws THEN Idle ELSE Gone]

Init ==
  /\ deploys = [d \in DeployIDs |-> NoDeploy]
  /\ tasks = [t \in TaskIDs |-> NoTask]
  /\ nextTask = 1
  /\ alive = Targets
  /\ last = 0
  /\ handed = {} /\ dropped = {}
  /\ \E primed \in SUBSET Workers : Prime(primed) /\ worker = Primed(primed)
  /\ client = [c \in Clients |-> NoRequest]
  /\ builder = [d \in DeployIDs |-> "none"]
  /\ images = {}
  /\ svc = [n \in SvcNames |-> NoService]
  /\ faults = 0
  /\ restarts = 0

----------------------------------------------------------------------------
(* The store. *)

\* The tasks that have not ended, as the two queries of the scheduler see them.
Unfinished(row) ==
  /\ row.deploy # 0
  /\ \/ row.type = 0 /\ row.status \in {0, 1}
     \/ row.type = 1 /\ row.status \in {0, 1, 3}

\* Mutants of the query: the last task is returned again; the order is dropped.
GetNewTaskFrom(t, after) ==
  /\ t >= after
  /\ Unfinished(tasks[t])
  /\ \A u \in TaskIDs : u >= after /\ Unfinished(tasks[u]) => t <= u
GetAnyTaskAfter(t, after) == t > after /\ Unfinished(tasks[t])

GetNewTaskAfter(t, after) ==
  /\ t > after
  /\ Unfinished(tasks[t])
  /\ \A u \in TaskIDs : u > after /\ Unfinished(tasks[u]) => t <= u

GetNewTaskFirst(t) == GetNewTaskAfter(t, 0)

GetDeployTasksOfDeploy(d) == {t \in TaskIDs : tasks[t].deploy = d}

\* d is the latest deploy row of a space, 0 when it has none.
GetLatestDeployBySpaceID(d, s) ==
  /\ d # 0 => deploys[d].target = s
  /\ \A e \in DeployIDs : deploys[e].target = s => e <= d

\* One transaction that writes the given deploy and task; its error is logged
\* and otherwise ignored by the runners, so that nothing may be written.
UpdateInTx(newDeploys, newTasks) ==
  \/ deploys' = newDeploys /\ tasks' = newTasks /\ UNCHANGED faults
  \/ /\ faults < MaxFaults
     /\ faults' = faults + 1
     /\ UNCHANGED <<deploys, tasks>>

\* The runner of worker w writes the statuses of its deploy and of its task.
SetStatus(w, deployStatus, taskStatus) ==
  UpdateInTx(
    [deploys EXCEPT ![DeployOf(w)].status = deployStatus],
    [tasks EXCEPT ![worker[w].task].status = taskStatus])

----------------------------------------------------------------------------
(* FIFOScheduler. *)

\* The goroutine that holds a task that next() has just read.
RunnerOf(t) ==
  Goroutine(IF tasks[t].type = 0 THEN "build"
            ELSE IF tasks[t].status = deployPending THEN "run" ELSE "poll",
            t, tasks[t].status)

TakeTask(t) ==
  /\ IF last = 0 THEN GetNewTaskFirst(t) ELSE GetNewTaskAfter(t, last)
  /\ last' = t

\* next() finds a task whose space or model exists and hands it to a goroutine.
RunNext(w) ==
  /\ worker[w].pc = "idle"
  /\ \E t \in TaskIDs :
       /\ TakeTask(t)
       /\ deploys[tasks[t].deploy].target \in alive
       /\ worker' = [worker EXCEPT ![w] = RunnerOf(t)]
       /\ handed' = handed \cup {t}
  /\ UNCHANGED <<store, dropped, client, external, faults, restarts>>

\* next() finds a task whose space or model is gone and cancels it.  Whether that
\* could be written is not looked at.
CancelNext(w) ==
  /\ worker[w].pc = "idle"
  /\ \E t \in TaskIDs :
       /\ TakeTask(t)
       /\ deploys[tasks[t].deploy].target \notin alive
       /\ UpdateInTx(deploys, [tasks EXCEPT ![t].status = cancelled])
       /\ dropped' = IF faults' = faults THEN dropped ELSE dropped \cup {t}
  /\ UNCHANGED <<nextTask, alive, handed, worker, client, external, restarts>>

\* next() cannot look up the space or model for another reason.  It moves on all
\* the same: the task stays as it is and nobody gets it before the next restart.
SkipNext(w) ==
  /\ worker[w].pc = "idle"
  /\ faults < MaxFaults
  /\ faults' = faults + 1
  /\ \E t \in TaskIDs : TakeTask(t) /\ dropped' = dropped \cup {t}
  /\ UNCHANGED <<store, handed, worker, client, external, restarts>>

\* Queue() is called in a goroutine of its own, which then keeps calling next().
Queue(c) ==
  /\ client[c].pc = "queue"
  /\ \E w \in Workers :
       worker[w].pc = "none" /\ worker' = [worker EXCEPT ![w] = Idle]
  /\ client' = [client EXCEPT ![c] = NoRequest]
  /\ UNCHANGED <<store, last, handed, dropped, external, faults, restarts>>

\* Run() returned an error: failDeployFollowingTasks reads the tasks of the deploy ...
ReadFollowing(w) ==
  /\ worker[w].pc = "err"
  /\ worker' = [worker EXCEPT ![w].pc = "fail",
                  ![w].snap = [t \in TaskIDs |->
                     IF t \in GetDeployTasksOfDeploy(DeployOf(w))
                     THEN tasks[t].status ELSE NotOfDeploy]]
  /\ UNCHANGED <<store, last, handed, dropped, client, external, faults, restarts>>

\* ... and writes the statuses of all of them, those before its own as it read them.
FollowingStatus(w, t) ==
  LET own == worker[w].task
  IN  IF t = own THEN buildFailed
      ELSE IF t > own THEN cancelled ELSE worker[w].snap[t]

FailFollowing(w) ==
  /\ worker[w].pc = "fail"
  /\ UpdateInTx(deploys,
       [t \in TaskIDs |-> IF worker[w].snap[t] # NotOfDeploy
                          THEN [deploy |-> tasks[t].deploy, type |-> tasks[t].type,
                                status |-> FollowingStatus(w, t)]
                          ELSE tasks[t]])
  /\ worker' = [worker EXCEPT ![w] = Idle]
  /\ UNCHANGED <<nextTask, alive, last, handed, dropped, client, external, restarts>>

----------------------------------------------------------------------------
(* BuilderRunner. *)

\* A runner returns nil: its goroutine goes back to next().
Done(w) == worker' = [worker EXCEPT ![w] = Idle]
Goto(w, label) == worker' = [worker EXCEPT ![w].pc = label]
\* It returns an error: only its task is of interest from here on.
Return(w) == worker' = [worker EXCEPT ![w] = Goroutine("err", worker[w].task, 0)]

\* makeBuildRequest or ib.Build fails, or the builder answers a nonzero code.
BuildError(w) ==
  /\ worker[w].pc = "build" /\ worker[w].st = buildPending
  /\ Return(w)
  /\ UNCHANGED <<store, last, handed, dropped, client, external, faults, restarts>>

\* ib.Build is accepted: the job of this deploy starts again from the beginning.
Build(w) ==
  /\ worker[w].pc = "build" /\ worker[w].st = buildPending
  /\ builder' = [builder EXCEPT ![DeployOf(w)] = "inprogress"]
  /\ Goto(w, "built")
  /\ UNCHANGED <<store, last, handed, dropped, client, images, svc, faults, restarts>>

MarkBuildInProgress(w) ==
  /\ worker[w].pc = "built"
  /\ SetStatus(w, Building, buildInProgress)
  /\ worker' = [worker EXCEPT ![w].pc = "build", ![w].st = buildInProgress]
  /\ UNCHANGED <<nextTask, alive, last, handed, dropped, client, external, restarts>>

\* ib.Status reports success: the image is stored and Run returns nil.
BuildSucceeds(w) ==
  /\ worker[w].pc = "build" /\ worker[w].st = buildInProgress
  /\ builder[DeployOf(w)] = "ok"
  /\ UpdateInTx(
       [deploys EXCEPT ![DeployOf(w)].status = BuildSuccess, ![DeployOf(w)].image = TRUE],
       [tasks EXCEPT ![worker[w].task].status = buildSucceed])
  /\ Done(w)
  /\ UNCHANGED <<nextTask, alive, last, handed, dropped, client, external, restarts>>

\* ib.Status reports failure: the task fails and Run returns nil all the same.
BuildFails(w) ==
  /\ worker[w].pc = "build" /\ worker[w].st = buildInProgress
  /\ builder[DeployOf(w)] = "fail"
  /\ SetStatus(w, BuildFailed, buildFailed)
  /\ Done(w)
  /\ UNCHANGED <<nextTask, alive, last, handed, dropped, client, external, restarts>>

----------------------------------------------------------------------------
(* DeployRunner. *)

\* makeDeployRequest fails (no access token, invalid stored settings).
RequestError(w) ==
  /\ worker[w].pc = "run"
  /\ Return(w)
  /\ UNCHANGED <<store, last, handed, dropped, client, external, faults, restarts>>

\* Mutant: the image is not waited for.
RequestAnyImage(w) ==
  /\ worker[w].pc = "run"
  /\ Goto(w, "call")
  /\ UNCHANGED <<store, last, handed, dropped, client, external, faults, restarts>>

\* makeDeployRequest reads the deploy row; the runner waits until it has an image.
MakeDeployRequest(w) ==
  /\ worker[w].pc = "run"
  /\ deploys[DeployOf(w)].image
  /\ Goto(w, "call")
  /\ UNCHANGED <<store, last, handed, dropped, client, external, faults, restarts>>

\* ir.Run fails; the image runner may have removed the previous service by then.
RunError(w) ==
  /\ worker[w].pc = "call"
  /\ \E removed \in BOOLEAN :
       svc' = IF removed THEN [svc EXCEPT ![SvcName(DeployOf(w))] = NoService] ELSE svc
  /\ Return(w)
  /\ UNCHANGED <<store, last, handed, dropped, client, builder, images, faults, restarts>>

\* ir.Run replaces the service of this name by one of this deploy.
RunImage(w) ==
  /\ worker[w].pc = "call"
  /\ svc' = [svc EXCEPT ![SvcName(DeployOf(w))] =
                 [deploy |-> DeployOf(w), code |-> Deploying]]
  /\ Goto(w, "ran")
  /\ UNCHANGED <<store, last, handed, dropped, client, builder, images, faults, restarts>>

MarkDeploying(w) ==
  /\ worker[w].pc = "ran"
  /\ SetStatus(w, Deploying, deploying)
  /\ worker' = [worker EXCEPT ![w].pc = "poll", ![w].st = deploying]
  /\ UNCHANGED <<nextTask, alive, last, handed, dropped, client, external, restarts>>

\* ir.Status: a service that is not there is reported as stopped.
Poll(w) ==
  /\ worker[w].pc = "poll"
  /\ LET s == svc[SvcName(DeployOf(w))]
     IN  worker' = [worker EXCEPT ![w].pc = "polled",
           ![w].code = IF s.deploy > DeployOf(w) THEN Superseded ELSE s.code]
  /\ UNCHANGED <<store, last, handed, dropped, client, external, faults, restarts>>

\* The answer is used: the runner writes its statuses and returns nil ...
Finish(w) ==
  /\ worker[w].pc = "polled"
  /\ \/ worker[w].code = Running /\ SetStatus(w, Running, deployRunning)
     \/ worker[w].code \in {Superseded, TimedOut}
        /\ SetStatus(w, DeployFailed, deployFailed)
  /\ Done(w)
  /\ UNCHANGED <<nextTask, alive, last, handed, dropped, client, external, restarts>>

\* ... or writes them and returns an error ...
FinishError(w) ==
  /\ worker[w].pc = "polled"
  /\ \/ worker[w].code = DeployFailed /\ SetStatus(w, DeployFailed, deployFailed)
     \/ worker[w].code = RunTimeError
        /\ SetStatus(w, RunTimeError, deployRunTimeError)
  /\ Return(w)
  /\ UNCHANGED <<nextTask, alive, last, handed, dropped, client, external, restarts>>

\* Mutant: an unknown status is polled again.
PollAgain(w) ==
  /\ worker[w].pc = "polled"
  /\ worker[w].code \in {Stopped, Sleeping}
  /\ worker' = [worker EXCEPT ![w].pc = "poll", ![w].code = 0]
  /\ UNCHANGED <<store, last, handed, dropped, client, external, faults, restarts>>

\* ... or knows no such status and returns an error without writing ...
UnknownStatus(w) ==
  /\ worker[w].pc = "polled"
  /\ worker[w].code \in {Stopped, Sleeping}
  /\ Return(w)
  /\ UNCHANGED <<store, last, handed, dropped, client, external, faults, restarts>>

\* ... or writes them and keeps polling.
KeepPolling(w) ==
  /\ worker[w].pc = "polled"
  /\ \/ /\ worker[w].code = Deploying /\ SetStatus(w, Deploying, deploying)
        /\ worker' = [worker EXCEPT ![w].pc = "poll", ![w].st = deploying, ![w].code = 0]
     \/ /\ worker[w].code = Startup /\ SetStatus(w, Startup, deployStartUp)
        /\ worker' = [worker EXCEPT ![w].pc = "poll", ![w].st = deployStartUp, ![w].code = 0]
  /\ UNCHANGED <<nextTask, alive, last, handed, dropped, client, external, restarts>>

\* The deploy timeout has passed: cancelDeploy stops the service, or fails to.
CancelDeploy(w) ==
  /\ worker[w].pc = "polled" /\ worker[w].code = Deploying
  /\ \/ /\ svc' = [svc EXCEPT ![SvcName(DeployOf(w))] = NoService]
        /\ worker' = [worker EXCEPT ![w].code = TimedOut]
     \/ Return(w) /\ UNCHANGED svc
  /\ UNCHANGED <<store, last, handed, dropped, client, builder, images, faults, restarts>>

----------------------------------------------------------------------------
(* API requests. *)

Request(c, label, d) ==
  client' = [client EXCEPT ![c] =
    [pc |-> label, d |-> d, target |-> deploys[d].target, st |-> deploys[d].status,
     img |-> deploys[d].image, task |-> 0]]

\* Deploy: buildDeploy reads the latest deploy row of a space; a model has none.
Deploy(c) ==
  /\ client[c].pc = "idle"
  /\ \E x \in alive, d \in 0..MaxDeploys :
       /\ IF x \in Spaces THEN GetLatestDeployBySpaceID(d, x) ELSE d = 0
       /\ client' = [client EXCEPT ![c] = [pc |-> "row", d |-> d, target |-> x,
             st |-> IF d = 0 THEN Pending ELSE deploys[d].status,
             img |-> x \in Prebuilt, task |-> 0]]
  /\ UNCHANGED <<store, process, external, faults, restarts>>

\* dedicatedDeploy inserts a new row.
DedicatedDeploy(c) ==
  /\ client[c].pc = "row" /\ client[c].d = 0
  /\ \E d \in DeployIDs :
       /\ ~Exists(d) /\ \A e \in DeployIDs : ~Exists(e) => d <= e
       /\ deploys' = [deploys EXCEPT ![d] =
             [target |-> client[c].target, status |-> Pending, image |-> client[c].img]]
       /\ client' = [client EXCEPT ![c].pc = "build", ![c].d = d]
  /\ UNCHANGED <<tasks, nextTask, alive, process, external, faults, restarts>>

\* A whole row is written back with the columns read before.
UpdateDeploy(c) ==
  deploys' = [deploys EXCEPT ![client[c].d].status = client[c].st,
                             ![client[c].d].image = client[c].img]

\* serverlessDeploy resets the image of the row it found.
ServerlessDeploy(c) ==
  /\ client[c].pc = "row" /\ client[c].d # 0
  /\ UpdateDeploy(c)
  /\ client' = [client EXCEPT ![c].pc = "build", ![c].st = Pending]
  /\ UNCHANGED <<tasks, nextTask, alive, process, external, faults, restarts>>

\* CreateDeployTask takes an ID from the sequence ...
CreateDeployTask(c) ==
  /\ client[c].pc \in {"build", "run"}
  /\ nextTask \in TaskIDs
  /\ nextTask' = nextTask + 1
  /\ client' = [client EXCEPT ![c].task = nextTask,
       ![c].pc = IF @ = "build" THEN "buildcommit" ELSE "runcommit"]
  /\ UNCHANGED <<deploys, tasks, alive, process, external, faults, restarts>>

\* ... and the row is visible to others when its insert commits.
CommitDeployTask(c) ==
  /\ client[c].pc \in {"buildcommit", "runcommit"}
  /\ LET isBuild == client[c].pc = "buildcommit"
     IN  /\ tasks' = [tasks EXCEPT ![client[c].task] =
               [deploy |-> client[c].d, type |-> IF isBuild THEN 0 ELSE 1,
                status |-> IF isBuild /\ client[c].img THEN BuildSkip ELSE 0]]
         /\ client' = [client EXCEPT ![c].pc = IF isBuild THEN "run" ELSE "queue",
                                     ![c].task = 0]
  /\ UNCHANGED <<deploys, nextTask, alive, process, external, faults, restarts>>

\* The insert fails.  Nobody looks at its error: the request goes on.
LoseDeployTask(c) ==
  /\ client[c].pc \in {"buildcommit", "runcommit"}
  /\ faults < MaxFaults
  /\ faults' = faults + 1
  /\ client' = [client EXCEPT ![c].pc = IF @ = "buildcommit" THEN "run" ELSE "queue",
                              ![c].task = 0]
  /\ UNCHANGED <<store, process, external, restarts>>

\* DeployStart: the deploy of a model that has no service is read ...
DeployStart(c) ==
  /\ client[c].pc = "idle"
  /\ \E d \in DeployIDs :
       /\ deploys[d].target \in Models /\ svc[SvcName(d)] = NoService
       /\ Request(c, "start", d)
  /\ UNCHANGED <<store, process, external, faults, restarts>>

\* ... and StartDeploy writes it back as pending and creates a run task.
StartDeploy(c) ==
  /\ client[c].pc = "start"
  /\ deploys' = [deploys EXCEPT ![client[c].d].status = Pending,
                                ![client[c].d].image = client[c].img]
  /\ client' = [client EXCEPT ![c].pc = "run", ![c].st = Pending]
  /\ UNCHANGED <<tasks, nextTask, alive, process, external, faults, restarts>>

\* DeployUpdate reads the deploy of a model that has no service ...
DeployUpdate(c) ==
  /\ client[c].pc = "idle"
  /\ \E d \in DeployIDs :
       /\ deploys[d].target \in Models /\ svc[SvcName(d)] = NoService
       /\ Request(c, "update", d)
  /\ UNCHANGED <<store, process, external, faults, restarts>>

\* ... and writes the row back with the image of the chosen framework.
WriteUpdate(c) ==
  /\ client[c].pc = "update"
  /\ UpdateDeploy(c)
  /\ client' = [client EXCEPT ![c] = NoRequest]
  /\ UNCHANGED <<tasks, nextTask, alive, process, external, faults, restarts>>

\* Stop of a space, DeployStop and DeleteDeploy of a model: the service goes first.
\* The stop of a space needs its row; that of a model only the deploy.
StopService(c) ==
  /\ client[c].pc = "idle"
  /\ \E d \in DeployIDs :
       /\ Exists(d)
       /\ \/ /\ deploys[d].target \in Spaces \cap alive
             /\ GetLatestDeployBySpaceID(d, deploys[d].target)
             /\ Request(c, "stop", d)
          \/ /\ deploys[d].target \in Models
             /\ \E label \in {"stopcheck", "deletecheck"} : Request(c, label, d)
       /\ svc' = [svc EXCEPT ![SvcName(d)] = NoService]
  /\ UNCHANGED <<store, process, builder, images, faults, restarts>>

\* Exist: the stop or deletion of a model fails when there is a service again.
Exist(c) ==
  /\ client[c].pc \in {"stopcheck", "deletecheck"}
  /\ \/ /\ svc[SvcName(client[c].d)] # NoService
        /\ client' = [client EXCEPT ![c] = NoRequest]
     \/ /\ svc[SvcName(client[c].d)] = NoService
        /\ client' = [client EXCEPT ![c].pc = IF @ = "stopcheck" THEN "stop" ELSE "delete"]
  /\ UNCHANGED <<store, process, external, faults, restarts>>

\* StopDeploy and DeleteDeploy write the status column only.
StopDeploy(c) ==
  /\ client[c].pc \in {"stop", "delete"}
  /\ deploys' = [deploys EXCEPT ![client[c].d].status =
                    IF client[c].pc = "stop" THEN Stopped ELSE Deleted]
  /\ client' = [client EXCEPT ![c] = NoRequest]
  /\ UNCHANGED <<tasks, nextTask, alive, process, external, faults, restarts>>

\* Delete of a space or model: the rows go, then Stop looks the space up again
\* and does not find it.
DeleteTarget(c) ==
  /\ client[c].pc = "idle"
  /\ \E x \in alive : alive' = alive \ {x}
  /\ UNCHANGED <<deploys, tasks, nextTask, process, client, external, faults, restarts>>

----------------------------------------------------------------------------
(* The image builder and the image runner, and a restart of the server. *)

\* A build job ends.
BuilderStep(d) ==
  /\ builder[d] = "inprogress"
  /\ \/ builder' = [builder EXCEPT ![d] = "ok"] /\ images' = images \cup {d}
     \/ builder' = [builder EXCEPT ![d] = "fail"] /\ UNCHANGED images
  /\ UNCHANGED <<store, process, client, svc, faults, restarts>>

\* A service leaves its starting state.
ServiceSettles(n) ==
  /\ svc[n].deploy # 0 /\ svc[n].code \in {Deploying, Startup}
  /\ \E code \in RunnerCodes \ {Deploying} :
       code # svc[n].code /\ svc' = [svc EXCEPT ![n].code = code]
  /\ UNCHANGED <<store, process, client, builder, images, faults, restarts>>

\* A running service is scaled to zero, and up again by a request.
ServiceScales(n) ==
  /\ svc[n].deploy # 0 /\ {Running, Sleeping} \subseteq RunnerCodes
  /\ \/ svc[n].code = Running /\ svc' = [svc EXCEPT ![n].code = Sleeping]
     \/ svc[n].code = Sleeping /\ svc' = [svc EXCEPT ![n].code = Running]
  /\ UNCHANGED <<store, process, client, builder, images, faults, restarts>>

\* The server stops at any point and starts again with what the database holds.
Restart ==
  /\ restarts < MaxRestarts
  /\ restarts' = restarts + 1
  /\ last' = 0 /\ handed' = {} /\ dropped' = {}
  /\ \E primed \in SUBSET Workers : Prime(primed) /\ worker' = Primed(primed)
  /\ client' = [c \in Clients |-> NoRequest]
  /\ UNCHANGED <<store, external, faults>>

----------------------------------------------------------------------------
\* A goroutine takes its next step; a call of a remote service returns.
WorkerProgress(w) ==
  \/ RunNext(w) \/ CancelNext(w)
  \/ ReadFollowing(w) \/ FailFollowing(w)
  \/ BuildError(w) \/ Build(w) \/ MarkBuildInProgress(w)
  \/ BuildSucceeds(w) \/ BuildFails(w)
  \/ MakeDeployRequest(w) \/ RunError(w) \/ RunImage(w)
  \/ MarkDeploying(w) \/ Poll(w) \/ Finish(w) \/ FinishError(w)
  \/ UnknownStatus(w) \/ KeepPolling(w) \/ CancelDeploy(w)

\* A failure of the database, which may but need not happen.
WorkerFault(w) == SkipNext(w) \/ RequestError(w)

\* A request that has been accepted runs to its end.
ClientStep(c) ==
  \/ DedicatedDeploy(c) \/ ServerlessDeploy(c)
  \/ CreateDeployTask(c) \/ CommitDeployTask(c) \/ LoseDeployTask(c) \/ Queue(c)
  \/ StartDeploy(c) \/ WriteUpdate(c) \/ Exist(c) \/ StopDeploy(c)

NewRequest(c) ==
  \/ Deploy(c) \/ DeployStart(c) \/ DeployUpdate(c) \/ StopService(c) \/ DeleteTarget(c)

ExternalStep ==
  \/ \E d \in DeployIDs : BuilderStep(d)
  \/ \E n \in SvcNames : ServiceSettles(n) \/ ServiceScales(n)

Next ==
  \/ \E w \in Workers : WorkerProgress(w) \/ WorkerFault(w)
  \/ \E c \in Clients : ClientStep(c) \/ NewRequest(c)
  \/ ExternalStep
  \/ Restart

Spec == Init /\ [][Next]_vars

\* Goroutines and accepted requests keep running, and the remote services end
\* what they start; nobody has to send a request and the server need not stop.
Fairness ==
  /\ \A w \in Workers : WF_vars(WorkerProgress(w))
  /\ \A c \in Clients : WF_vars(ClientStep(c))
  /\ \A d \in DeployIDs : WF_vars(BuilderStep(d))
  /\ \A n \in SvcNames : WF_vars(ServiceSettles(n))

FairSpec == Spec /\ Fairness

----------------------------------------------------------------------------
(* Properties. *)

WorkerPcs == {"none", "idle", "err", "fail", "build", "built", "run", "call",
              "ran", "poll", "polled"}
ClientPcs == {"idle", "row", "build", "buildcommit", "run", "runcommit", "queue",
              "start", "update", "stopcheck", "deletecheck", "stop", "delete"}
WorkerState == [pc : WorkerPcs, task : 0..MaxTasks, st : TaskStatus,
                code : Codes \cup {0}, snap : [TaskIDs -> TaskStatus \cup {NotOfDeploy}]]
ClientState == [pc : ClientPcs, d : 0..MaxDeploys, target : Targets \cup {NoTarget},
                st : DeployStatus, img : BOOLEAN, task : 0..MaxTasks]

StoreType ==
  /\ deploys \in [DeployIDs -> DeployRow]
  /\ tasks \in [TaskIDs -> TaskRow]
  /\ nextTask \in 1..(MaxTasks + 1)
  /\ alive \subseteq Targets
  /\ faults \in 0..MaxFaults /\ restarts \in 0..MaxRestarts

ProcessType ==
  /\ last \in 0..MaxTasks
  /\ handed \subseteq TaskIDs /\ dropped \subseteq TaskIDs
  /\ worker \in [Workers -> WorkerState]
  /\ client \in [Clients -> ClientState]

ExternalType ==
  /\ builder \in [DeployIDs -> {"none", "inprogress", "ok", "fail"}]
  /\ images \subseteq DeployIDs
  /\ svc \in [SvcNames -> [deploy : 0..MaxDeploys, code : RunnerCodes \cup {Stopped}]]

\* Every variable has its type: the rows hold statuses the status columns know, the
\* runners and requests refer to IDs of the tables.
TypeOK == StoreType /\ ProcessType /\ ExternalType

\* No two goroutines of a server ever work on the same deploy task, although every
\* one of them, and every Queue call, asks next() for work.
ExclusiveTask ==
  \A v, w \in Workers :
    Busy(v) /\ Busy(w) /\ v # w => worker[v].task # worker[w].task

\* A service exists only for a deploy whose image was given to it or was made by
\* the image builder: no runner starts a service before its image is there.
ImageBeforeService ==
  \A n \in SvcNames : svc[n].deploy # 0 =>
    \/ deploys[svc[n].deploy].target \in Prebuilt
    \/ svc[n].deploy \in images

\* A task that next() has passed was handed to a goroutine, or given up because the
\* look-up of its space or model, or the write of its cancellation, failed.
TakenUp == handed \cup dropped

\* Whatever is redeployed, redone or fails, next() moves past a task that has yet to
\* run only if a goroutine of this server got it, or if it was given up: no task is
\* lost behind rs.last in silence as long as requests come one at a time.
NoTaskSkipped ==
  \A t \in TaskIDs : t <= last /\ Unfinished(tasks[t]) => t \in TakenUp

\* Every task that has to run is eventually handed to a goroutine, in each life of
\* the server anew, unless it is finished or cancelled by then or was given up in
\* this life: then it is handed out after the next restart.
TaskEventuallyTaken ==
  \A t \in TaskIDs : Unfinished(tasks[t]) ~> (t \in TakenUp \/ ~Unfinished(tasks[t]))

\* A goroutine that took a task of a prebuilt target eventually returns to next().
WorkerReturns ==
  \A w \in Workers :
    Busy(w) /\ deploys[tasks[worker[w].task].deploy].target \in Prebuilt ~> ~Busy(w)

\* What failDeployFollowingTasks says of the tasks it cancels, "update following
\* tasks to be failed to stop scheduler to run it": a cancelled task never deploys.
CancelledNotRun ==
  [][\A t \in TaskIDs : tasks[t].deploy # 0 /\ tasks[t].status = cancelled
        => tasks'[t].status \notin {deploying, deployStartUp, deployRunning}]_vars

\* A failed build stops the run task that follows it in the same deploy.
FailedBuildStopsRun ==
  \A t \in TaskIDs : (tasks[t].deploy # 0 /\ tasks[t].type = 0 /\ tasks[t].status = buildFailed)
    ~> \A u \in GetDeployTasksOfDeploy(tasks[t].deploy) :
         u > t /\ tasks[u].type = 1 => tasks[u].status # deployPending

\* What Delete says it does for a space, "stop any running space instance": the
\* service of a deleted space goes away, at the latest when no runner is at work.
DeletedSpaceStops ==
  \A s \in Spaces :
    (s \notin alive /\ \A w \in Workers : ~Busy(w)) ~> svc[s] = NoService
=============================================================================
