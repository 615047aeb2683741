# Verification of csghub-server

csghub-server is the back end of a hub for models, datasets, code, prompts and spaces.
It keeps rows in PostgreSQL, trees in a git server (Gitea or Gitaly), LFS objects in S3,
queues and locks in Redis and metering events in NATS JetStream, and it starts services
on Kubernetes through a remote image builder and a remote image runner. Several server
processes, and many goroutines in each, work on the same rows. Hardly anything is
locked: a request reads a row, calls something remote and writes the whole row back.

This directory holds

- TLA+ modules of the parts where that matters, each named after a component;
- `MC*.tla` and `*.cfg`: the instances that TLC checks;
- `*Proofs.tla`: theorems for every value of the constants, with proofs for TLAPS;
- `PROJECT.json`: the components, the runs, which definition models which lines, a
  mutation of the code that breaks each property, the hazards and the theorems.

```
tlc -workers 2 -config deploy_safe.cfg MCDeployScheduler     # one of the runs below
tlapm DeploySchedulerProofs.tla                              # one of the proofs
```

## 1. Inventory

### Modelled

| Component | State | Operations | What is hard about it | Correct when |
|---|---|---|---|---|
| Deployment scheduler: `builder/deploy`, `component/{space,model,repo}.go` | tables `deploys` and `deploy_tasks`; `rs.last` and the goroutines of `FIFOScheduler`; images; services | deploy, start, stop, update, delete; `next`, `Queue`, the builder and deploy runners; restart | a hundred goroutines and every request share rows; a space reuses its row; statuses are written from copies; remote services change by themselves | no task is run twice or skipped; no service before its image; a task is handed to a goroutine, or to one of the next life of the server; a runner returns |
| Redis lock: `builder/store/cache/lock.go` | one key with an expiration | `RunWhileLocked`, `WaitLockToRun` | the job may take longer than the expiration; lost answers; crashes | leases exclude each other; nobody releases another's key; the key becomes free |
| Mirrors with Gitaly: `mirror/`, `component/{mirror,repo}.go` | tables `mirrors`, `repositories`, `lfs_meta_objects`; two sorted sets of Redis; workers | create, synchronize, update, delete; enqueue at start; repository and LFS workers | three processes write whole rows from old copies; a task may be in the queue before its row; crashes lose tasks | a status never claims what did not happen; nothing is left halfway unless something failed |
| Metering: `builder/deploy/deployer.go`, `builder/event`, `accounting/`, `mq/` | stream, table `account_meterings`, dead letter queue | publish with retries; fetch, save with retries, move, acknowledge | at least once delivery, late commits, several consumers | an interval is billed once; an event is not lost before every attempt has failed; no message comes back for ever |
| Git LFS: `component/git_http.go` | S3 objects, shared by all repositories; tables `lfs_meta_objects` and `lfs_locks` | batch, upload, verify, download, lock, unlock | S3 and the table are written one after the other, by clients who push the same object | a link leads to an object; a push succeeds in the end; a path has one lock |
| User service: `user/` | tables `users`, `namespaces`, `organizations`, `members`, `access_tokens`; users, organizations and tokens of Gitea; deletion workflows | sign-in, profile, rename, delete; organizations and members; tokens | rows written back from copies by goroutines; a name is in three tables and in Gitea; a workflow that repeats itself | one account for a person; names and namespaces agree; a replaced token is dead |
| Repositories, likes, collections: `component/{repo,model,dataset,code,space,prompt,user,collection}.go` | tables `repositories`, of the five kinds, `user_likes`, `collections`, `repository_downloads`; trees in Gitaly | create, update, delete; like, unlike; downloads | three or more writes without a transaction; trees are removed by path and rows by ID; whole rows written back | a repository is complete or is not there; what is deleted stays deleted; counters are numbers of rows |
| After a push: `api/handler/internal.go`, `api/workflow`, `component/callback`, `component/tag.go` | tags, `repository_tags`, counts of library tags, license, `repo_relations`, deploys | the hook, a workflow of five activities with three attempts each | workflows of two pushes mix; they read files as they are then; repeated activities; dropped errors | the last push wins; counts are numbers of files; every workflow ends |
| Moderation: `moderation/` | `repository_files`, `repository_file_checks`, `private` and `sensitive_check_status` of `repositories` | a request, a workflow of four activities | two workflows write whole rows back; a record is of one content and the file read may be another; logged errors | a repository with a sensitive file is hidden |
| One request: `api/handler`, `api/router`, `api/middleware`, `component/`, `user/`, `builder/store/database`, the clients of other servers, `servicerunner/` | every table and every server, as *changed* or *not* | some 270 routes: what each checks, reads, writes, calls and answers | any call may fail, and errors are returned, replaced or only logged | 200 means done; a refusal changes nothing; a row has its tree; nothing happens after an error was answered |

How they meet: the scheduler's services are what the deployer meters; the cron jobs
(telemetry, multi-source synchronization, mirror progress) run under the Redis lock; the
LFS worker of a mirror fills the same S3 bucket and the same table as a push of a client;
every request is made for a user of the user service.

The rest of the inventory (discussions, multi-source synchronization, mirrors with Gitea,
space resources, recommendations, the dataset viewer and others) consists of operations
that are modelled as requests: each is one program that `Requests` runs, alone.

### Not modelled

Command line, configuration and migrations run once, before anything else; their unique
indexes are part of the modules that rely on them. The generated `docs.go` and the types
have no behaviour. Of the parts that are modelled the following is left out: what is
parsed, formatted, searched, sorted or counted (YAML of a README.md, parquet files, scores
of recommendations, GPU resources of nodes, words that are sensitive); bytes that pass
through (the reverse proxy, logs); what Gitaly, Gitea, S3, Casdoor, Temporal, Kubernetes
and the image builder do inside.

## 2. Modules

Conventions. An action is what happens between two points where something else can see
it: one statement or transaction of the database, one call of a remote service. The state
of a request or a goroutine is a record with the label of its next step and the copies it
holds of rows, so that a write from an old copy is one. A failing call is a step of its
own, counted in `faults`. *External* services are modelled by what the code relies on.
`Loads` is a set of records, one of which Init chooses: the operations that are called,
how often, and how much fails. One run checks its properties under all of them. Variables
marked as history are there for the properties only; no guard reads them.

### DeployScheduler

`deploys` and `tasks` are the tables; a row that does not exist has deploy 0 or target
`NoTarget`. `last` is `rs.last`. `worker[w]` is a goroutine with the task it took and the
status it holds in memory, `client[c]` a request. `svc` and `images` are external.

- `TakeTask`, `RunNext`, `CancelNext`, `SkipNext`, `Queue`: `next()` and the loop of
  `scheduler.go`; `Prime` is what `Run` starts. `SkipNext` is a look-up that fails after
  `rs.last` was set (`scheduler.go:176-190`): nobody runs the task before a restart.
  `handed` and `dropped` are history: what goroutines got, and what `next()` gave up.
- `ReadFollowing`, `FailFollowing`: `failDeployFollowingTasks`, a read and a later write.
- `Build` ... `BuildFails`: `BuilderRunner.Run`. `MakeDeployRequest`, `RunImage`,
  `MarkDeploying`, `Poll`, `Finish`, `KeepPolling`: `DeployRunner.Run`.
- `Deploy`, `DedicatedDeploy`, `ServerlessDeploy`, `CreateDeployTask`,
  `CommitDeployTask`: a deployment. An ID is taken from its sequence before the row is
  visible, and these are two steps. `LoseDeployTask` is an insert whose error is dropped
  (`deployer.go:220`), which leaves a deployment without a task.
- `DeployStart`, `DeployUpdate`, `StopDeploy`, `DeleteTarget`: the other requests.

### RedisLock and Lease

`key` is a random string, here the owner and the number of its call, `ttl` what is left
of it; time is a `Tick`. `SetNX`, `AlreadyLocked`, `TimerFires`, `ContextDone` and
`SetNXError` acquire, `releaseLock` compares and deletes, `Crash` skips the release.
`Lease` says what callers are promised, a holder that changes only through nobody, and
`ImplementsLease` maps the process within its lease to its holder.

### MirrorSync

`mirrors[m]` and `repos[r]` are rows; `edit` in a row stands for everything a user can
change. `queues` are the sorted sets (a task that was pushed without a date has that of
its push, `late`), `held` what a dispatcher has popped and not handed to a worker. `rw` are the workers of `mirror/reposyncer`, `lw` those of
`mirror/lfssyncer`, `enq` is `EnqueueMirrorTasks` at start, `cl` are API requests. `Crash`
ends both processes and loses what they held; the queues are in Redis and stay.

### Metering and Ledger

`pub` is `startAccountingMetering` with the attempts of `PublishMeteringEvent`, `stream`
the messages with their states, `con[c]` a consumer with its batch, its attempts and its
count of failures. A timeout is a step that does its work and reports a failure: a message
stored and published again, a row inserted and inserted again.
`Ledger` says what the service promises those who are billed; `ImplementsLedger` maps the
messages to requests, acknowledgements to settlements, rows to entries and the dead letter
queue to what was set aside.

### Lfs and PathLocks

`push[c]` goes through batch (`stat`, `create`), upload (directly to S3, or through the
server: `stat`, `put`, `clean`, `insert`, `remove`) and verify; a client that failed may
try again. `lreq[c]` is a request about a lock. `Content` is the size that the contents
really have, `load.sizes` those that pointers give. `PathLocks` says what users are promised
about locks; in `ImplementsPathLocks` a request that has looked at a lock, and is about to
remove it, is what has leave.

### Accounts

Users, namespaces, organizations, members and tokens are sets of rows with IDs. Each
request goes through the steps of its function in `user/component`; `jobs` are the runs of
`UserDeletionWorkflow`. `load.gitea` says which git server is configured: with Gitaly the
calls do nothing. `stale` remembers that a row of a user was written from a copy with a
former name, `doomed` the users whose deletion was accepted, `refreshed` the tokens that
were replaced, `claimed` the UUIDs that an update of a profile was to write into the row of
another person (`user/component/user.go:327`).

### Repos

A slot is a kind and a path. `repos`, `typed` (the tables of the five kinds), `likes`,
`colls` and `downloads` are tables, `git` the files of each tree. `Null` is NULL in a
column that Go reads as 0 and writes back as NULL.

- `CreateModel` ... `CreateSpace` begin a creation; `CreateTree`, `InsertRow`,
  `InsertTyped` and `CreateRepoFile` are its steps.
- `DeleteModel` ... `DeleteSpace` find the row of the kind; `DeleteRepo` finds the row and
  checks the role; `CleanRelationsByRepoID`, `RemoveTree`, `DeleteRow`, `DeleteTyped`.
- `Update`, `IncrDownloads` and `UpdateDownloads` end in `SaveRow`, which writes all
  columns of the copy they made at their beginning.
- `Add` is one transaction; `DeleteLike` and `CountDown` are not.

### Pushes and Moderation

`tree[b]` is what the git server has at the head of a branch: one README.md, which stands
for a metadata file, and up to two other files. `wf` are the workflows of pushes in order, each
with the activity it is in, the attempts, and what it has read; `check` those of the
moderation service.

- `PostReceive` is a push and the hook that starts its workflow with the difference of the two
  commits. A hook that fails leaves a push without a workflow (`lost`): the tree has changed and
  nobody will look at it. `FixHasEntryFile`, `Deploy`: `WatchSpaceChange`.
  `toRepoIDsFromReadme`, `Override`: `WatchRepoRelation`. `SetRepoUpdateTime`, `SensitiveCheck`.
- `UpdateRepoInfos` goes through the files that were modified, removed and added:
  `getFileRaw`, `ProcessReadme`, `SaveTags`, `SetMetaTags` with `ReplaceMetaTags`;
  `SelectLicense`, `FindById` and `UpdateLicenseByTag`, a license written into the whole row
  as it was read; `SelectLibraryTag` and then `SetLibraryTag` or `RemoveLibraryTag`, so that
  two first counts collide. `FileFails` is an error for one of the files, which a README.md
  that cannot be parsed (`Unparsed`) brings about by itself; `BadTags` are the names that
  the checkers object to, which are left out.
- `WorkerDies`, `CallFails`, `InfoFails` and `TryAgain` are Temporal's attempts;
  `WatcherFails` is an error that a watcher drops, so that there is no other attempt.
- `FullCheck` starts a workflow of `Moderation`. `FindByPath` and `UpdateRepo` are the two
  halves of a status written into the row as it was read; `GenRepoFileRecords`, `Exists`
  and `CreateFile` record the file; `BatchGetUnchcked`, `processFile`, `hideRepo` and
  `Upsert` check it; `DetectFailed`, `DetectException` and `SaveStatus` state the result.

`hist` notes what the properties except: writes that crossed, repeated activities, errors
that were only logged, a README.md that had gone or cannot be parsed, rows written back
from old copies, a license written back over another one.

### Steps, Stores, RepoStores, Servers, RepoComponent, KindComponents, Components, RepoHandlers, Handlers, UserService, Services, Router and Requests

These model one request at a time. `Steps` is a vocabulary; with it each function is a
*program*, the sequence of what it checks, reads, writes and calls, in the order of the
code, with its branches, its loops and the places where errors go. A definition is named
after its method, with the receiver in front: `repoStore_DeleteRepo` is in `RepoStores`,
`git_DeleteRepo` in `Servers`, `Repo_DeleteRepo` in `RepoComponent` and
`RepoHandler_CreateFile` in `RepoHandlers`; a caller contains the programs of its callees.
`Stores` and `RepoStores` hold `builder/store/database`, `Servers` the git servers and other
remote calls, the three modules with *Component* `component/`, the two with *Handlers*
`api/handler`, `UserService` the user service, `Services` the service runner (against
Kubernetes), accounting and moderation, `Router` all routes with their middleware and the
cron jobs.

`Requests` is the machine that runs them: `Begin` takes a route; `Check`, `LookUp`,
`Decide` and `Branch` choose any outcome that does not contradict what the request has
found out before (`facts`); `Write` changes; `Fail` lets the call at hand fail, and `Leave`
follows the error to the innermost place that handles it; `Panic` is a panic in a goroutine,
which ends the process. A panic in a handler is a refusal with status 500, which is what the
recovery of the server answers. `did` is what was changed, in
order; `lost` what was skipped by an error that nobody reports, with all that the branches
and loops after it could have changed. Data is left out: a
condition is the name of a fact, which is true or false for the whole request.

## 3. Runs

`CHECK_DEADLOCK FALSE` stands in every configuration: requests are bounded, and a server
without requests may stay as it is.

| Run | Instance | Shows |
|---|---|---|
| `deploy_safe` | a space and a model with a given image, 2 goroutines, 1 request, all runner codes, 4 tasks, 1 failing write | `ExclusiveTask`; `ImageBeforeService`; `NoTaskSkipped` as long as requests come one at a time |
| `deploy_live` | the same with 2 tasks, 1 failing write, 1 restart, fairness | `TaskEventuallyTaken`; `WorkerReturns` for targets that need no build |
| `deploy_late` (violation) | 2 spaces, 2 requests at a time | `NoTaskSkipped` fails: a task whose row becomes visible late is passed over |
| `deploy_delete` (violation) | a space that is deleted, fairness | `DeletedSpaceStops` fails: its service stays |
| `lock` | 3 processes, one of which waits, expiration 2, 2 calls each, fairness | `OneInLease`, `CleanRelease`, `ImplementsLease`, `LockFreed` |
| `mirror` | 2 repositories (one with an LFS object), up to 2 + 2 workers, 1 client, four loads, fairness | `SyncedWasFetched` whatever fails; `QuietSettled`, `QuietComplete` when nothing does; `Drained`: no worker is lost |
| `meter` | 1 consumer, 1 interval, 2 messages and 1 that is no event, 8 failures = 3 + 5 attempts, 1 crash, fairness | `AckedIsKept` when every attempt fails; `ImplementsLedger`; `AllAcked` |
| `lfs` | 2 clients, 2 repositories, 1 object, 1 path; right sizes, wrong sizes, locks | `LinksLeadSomewhere`, `DoneHasRow`, `OwnLockStays`, `ImplementsPathLocks`, `Pushed` |
| `repos` | 2 requests, 2 users, a repository of each kind, up to 5 requests, 1 failure | `CreatedStays`, `RowsAgree`, `DeletedIsGone`, `LikesCounted` |
| `accounts` | 2 requests, 3 persons, 4 names, six loads, Gitea and Gitaly | `OneAccount`, `NamesAgree`, `RefreshedIsDead`, `UserGone` |
| `pushes` | 2 pushes, 2 branches, 3 contents of README.md (one cannot be parsed, one has a name that is objected to), 2 licenses, 2 other files; eleven loads of a model, a space and a code, four of them checked; up to 3 failures | `LatestInfos`, `LibraryCounted`, `SensitiveIsHidden`, `PushHandled` |
| `requests` | every route, every outcome, 2 failing calls | `OkMeansDone`, `RejectedChangesNothing`, `TreeBeforeRow`, `AnsweredIsOver` |

No run checks types: the theorem `TypeCorrect` of each proof module proves the type
invariant (`TypeOK`, or `Typed` in the proof module) for all instances.

### Why the bounds are enough to be interesting

- Deployments: a build and a run task make one deployment, so 4 tasks are a deployment
  and a redeployment of the same row, the case in which old runners meet new ones. Two
  goroutines suffice for them to meet; `ChanCap` is 0 because `Run` primes one goroutine
  more than the channel holds (a hundred and one in the code), and here that leaves one for
  `Queue` to add.
- Lock: with three processes one can overrun, a second take over and a third wait; two
  calls each make an old string differ from a new one of the same process.
- Mirrors: two workers of each kind on one mirror that is triggered twice; every call with
  two failures; a crash with one failure. The second repository has no LFS objects, which
  is a path of its own.
- Metering: one event, which can be in the stream twice; eight failures are exactly what it
  takes to lose it. `FailedLimit` is 1 (10 in the code) to have the streams built anew
  within the bound; nothing else depends on it. The theorems about metering hold for any
  number of consumers.
- LFS: what clients can do to each other they do to one object and one path.
- Repositories: five requests are a deletion, a creation and another deletion of one path
  by two clients, with a like in between. The kinds share their steps, so that the longer
  loads look at one kind each.
- Accounts: `Parts` is 2 (4 in the code), enough for a creation in Gitea to stop halfway.

- Pushes: two workflows at a time are what can cross; three attempts are used up by three
  failures of one push. With three pushes at a time a workflow can use up its attempts
  without a failure, because a tag or a name is there by the time it inserts it: therefore
  `PushHandled` counts two attempts for each other push, and one for the first row of a
  library. Two codes are checked, whose workflows are short, so that two checks can overlap in
  every way, and two models, in which a license is written back over what a check has found.
- Requests: a request that fails twice is one whose error path fails too, or whose first
  error was only logged. Loops run zero times, once or twice.

### Fairness

Weak fairness only, and of these steps: a goroutine that has something to do goes on (the Go
scheduler); a request that was accepted goes on to its end; the image builder ends a build and a
service that is starting settles (the code polls without a limit and relies on it); Redis lets a
key expire; JetStream delivers again what was not acknowledged; Temporal runs a workflow it has
accepted (a push's as well; nothing is assumed of its failures). No fairness is assumed of new
requests, of failures, crashes and restarts, nor of a service that scales up and down.

### Conditions in the properties

Some properties are stated for part of the behaviours. Each condition names what breaks
the property otherwise; section 5 lists these cases.

- `NoTaskSkipped` holds with one request at a time; `deploy_late` shows why. It and
  `TaskEventuallyTaken` count a task as taken that `next()` gave up (`dropped`): its look-up
  failed, or the write that cancels it. No goroutine gets it in this life of the server; the
  theorem `NothingSkipped` says so apart, and `deploy_live` has the restart after which it is
  handed out.
- `WorkerReturns` speaks of targets with an image: others may wait for a build for ever.
- `QuietSettled` and `QuietComplete` speak of behaviours without failures: a mirror whose
  worker dies stays `running`.
- `AckedIsKept` allows a loss after as many failures as there are attempts.
- `LinksLeadSomewhere` excepts objects of which an upload through the server has failed,
  `DoneHasRow` rows that another upload has removed.
- `NamesAgree` excepts behaviours in which a row was written back with a former name,
  `OneAccount` users of WeChat and the UUIDs that a profile update has claimed.
- `LatestInfos` excepts behaviours in which an earlier push wrote after a later one had read, or
  an error was only logged, and from its part about licenses those in which a check wrote back
  a row with an older license; relations stay what they were when the README.md cannot be
  parsed. `LibraryCounted` excepts behaviours in which an
  activity was repeated or a removal found a count of zero; `PushHandled` those in which the
  README.md of a push was not there any more or cannot be parsed, or attempts were used up by
  collisions. A push whose hook has failed is handled by nobody: `LatestInfos` says
  nothing when it is the last one, `SensitiveIsHidden` when there is any, and `PushHandled`
  speaks of the others.
- `SensitiveIsHidden` excepts behaviours in which a row was written back, by a check or by the
  update of a license, that had been hidden or judged since it was read, the file read was not
  the one recorded, or an error was only logged.
- `OkMeansDone` excepts what `MayLose` lists for a route, `RejectedChangesNothing` uploads of
  several files and the start of a service, `TreeBeforeRow` the copies of other servers'
  repositories.
- `CreatedStays` and `RowsAgree` except paths of which a deletion met another deletion or
  a creation; `RowsAgree` and `LikesCounted` speak of behaviours without failures, and
  `LikesCounted` of loads in which no request writes whole rows.
- `UserGone` excepts loads with renames: the workflow deletes by name.

## 4. Proofs

A theorem holds for every value of the constants that satisfies the named assumption of
its module (`DeployAssumption`, `LockAssumption`, `MeteringAssumption`, `MirrorAssumption`,
`LfsAssumption`, `AccountsAssumption`, `ReposAssumption`, `PushesAssumption`), which TLC
evaluates in every run.
The assumptions give the constants their types and say that the bounds are numbers. Three
say more: in `AccountsAssumption` the generated name of a user of WeChat is nobody else's
name in Casdoor and the accounts that exist at first have different names; in
`ReposAssumption` the IDs suffice for the repositories that exist at first, and the calls of
a load are fewer than `Null`, so that no counter can take the value that stands for NULL.

Each proof goes the same way: an invariant that says what the property needs of the state of
every process halfway through its work, a lemma per action, and the theorem from both.

### DeploySchedulerProofs

- `TypeCorrect`: the types, strengthened by `Linked` (a process refers only to IDs that exist).
- `TasksExclusive`: no two goroutines work on the same task. `ExclusiveTask` alone is not
  inductive, because nothing in it prevents `next()` from returning a task that is being
  worked on; `TakenBefore` (no goroutine has a task above `rs.last`) does, together with the
  guard of `GetNewTaskAfter`.
- `ImageComesFirst`: `ImageInv` follows the image from the builder, or from the target that
  brings it, into the row, the runner and the service. A redeployment empties the image of the
  row while runners of the former one go on, hence it speaks of the deploy (`Good`) and not of
  the column. `FreshTasks` says that a task that is inserted was nobody's before.
- `NothingSkipped`: with one request at a time `NoTaskSkipped`, and when no call of the database
  has failed a task that `next()` has passed and that still has to run was handed to a goroutine
  (`GivenUp`: only a failure puts a task into `dropped`). The run `deploy_late` shows why the
  first condition is needed, `SkipNext` the second. `SkipInv`: with one request the task that
  has an ID and no row yet is the last of the sequence (`CommitsLast`), and `rs.last` is a task
  that has a row (`LastIsTask`). The delicate step is `FailFollowing`, which writes back
  statuses that it read: those that would make a task run again were read when the task was
  taken already (`HoldsSeen`).

### RedisLockProofs

`TypeCorrect`: the types. The invariant `LockInv` consists of them, `LeaseHeld` (within the
lease the key holds the process's string, and age and time left add up to the expiration),
`KeyLives` (a key that is set has time left), `LastToSet` (the owner of the key set it last) and
`Called`. `LeaseExclusive` follows from `LeaseHeld`, since two strings differ; `ReleaseClean`
from `LastToSet`; `LockImplementsLease` maps each step to a grant, an end or a stutter: the
delicate one is an expiration, in which age and time left run out in the same tick.

### MeteringProofs

`TypeCorrect`; `KeepAcked`, with the invariant `KeptInv`: a consumer that is about to
acknowledge has stored its event or has met as many failures as it has attempts behind it
(`Worked`). It needs that rows and dead letters never go away and that the stream only grows,
whatever the other consumers do (`Growing`). `MeteringIsLedger`: each step maps to one of the
ledger or a stutter. An insert is an entry that was asked for because the batch refers to the
stream; an acknowledgement settles by `Worked`, and as the unique index allows one row (lemma
`BillOnce`); and a fetch or a redelivery never takes up a message that was acknowledged.

### MirrorSyncProofs

- `TypeCorrect`: `Typed` says of each process, by the step it is at, which rows it holds. It
  lets the counter of edits be any number.
- `SyncedMeansFetched`: a status says the repository was fetched only when it was. All the
  processes hold old copies of rows and write them back, so the invariant `TrueInv` says of
  every copy, wherever it is, that what it claims is true *of the tables as they are now*. That
  is stable since what rows speak of only moves forward (`Forward`): a fetched repository stays
  fetched or goes, the objects of a pointer stay known, an ID is given once. One lemma
  (`CarryProcesses`) carries the claims of all processes along any such step; each action then
  has to show only what it writes itself.
- `NothingLeftRunning` (`QuietSettled`) and `EverythingCompleted` (`QuietComplete`): the
  condition, no failures and nothing changed by users, is part of the property. `CalmInv` turns
  "when all is at rest" around: a mirror that is not settled is in the hands of somebody who has
  yet to write its status (`Writing`: a request, the queue, the dispatcher or a worker), and a
  repository that is not complete in those of somebody who has yet to complete it
  (`Completing`). A step either keeps these hands or passes the task on. Whoever is late and
  writes an old status back is in one of these hands itself, which is why an old copy does no
  lasting harm.

### LfsProofs

- `TypeCorrect`.
- `DownloadFindsObject` and `DoneIsThere`: `Founded` says that a client who is about to create
  the row has seen the object or brought it there, and that only an upload that failed removes
  one.
- The action property `OwnersKeepLocks`: `LocksKnown` says that IDs are
  given once, so that what a request has found under an ID, and has compared with its user, is
  what it removes.
- `LocksOfPaths`: `Leave` changes only for the client that makes the step (`LeaveChange`); a
  new lock is nobody's leave, since its ID is above all that requests have found.

### AccountsProofs

- `TypeCorrect`.
- `OneAccountOnly`: what is left when users of WeChat and claimed UUIDs are excepted. Names of
  users are unique, and the name that Casdoor has for a person is on
  that person's row only (`Genuine`), also in the rows that requests and goroutines are about
  to write; a row with the UUID of another person is one of a claim (`claimed`).
- `NamesAlwaysAgree`: strengthened by the owner of an organization owning its namespace, since
  the deletion of a user takes both.
- `ReplacedTokenIsDead`: when a refresh writes, the statement that disables has seen every token
  that is still accepted and was to be replaced (`ReqOK`).

### ReposProofs

- `TypeCorrect`: `Typed`, with one row for a path. The column of downloads is the total of a
  set of rows, a fold of the community modules, about which only induction over sets could
  prove something: it is left open, and no theorem needs it.
- `DeletedStaysGone`, from `IdsInv`: no ID is given twice, to a row of a kind neither.
- `CreatedIsKept` and `TablesAgree`: `Placed`, `Made` and `Met` say of each step of a creation
  and a deletion what it has made or found that is still there, and `AloneInv` that a deletion
  that meets another request of its path is noted in `overlap`. `AgreeInv` is `RowsAgree` but
  for what a request is about to do.
- `CounterIsRight`: in `LikesInv` the counter of a row is the number of its likes and of those
  who have removed one and not yet counted it (`CountInv`). It needs that the counter stays
  below `Null`: likes and requests under way never exceed the number of calls (`BoundInv`).

### PushesProofs

- `TypeCorrect`: `Typed` and, because an attempt begins anew, the shape of each workflow
  (`Shapes`: at which step of which activity it is, that what is left of its files is part of
  its difference) and of each check (`CheckShapes`).
- `SensitiveHidden`: the property speaks of the end only, the invariant of every moment.
  `Judged`: what a check is about to record is the verdict on the content it read. `Hidden`: the
  repository is hidden before the first record says so, because a sensitive file is hidden
  before its result is written. `Covered`: a sensitive README.md at the head has its record, or
  a check that is still to make or to find it, or a workflow that has yet to ask for one
  (`Coming`). It holds as long as no row that was hidden or judged in the meantime was written
  back from an old copy, by a check or with a license (`Trusted`), which is the condition of the
  property: such a write undoes `Hidden`.
- `LibraryIsCounted`: `Balanced` is an equation between numbers of pairs of a workflow and
  a file: the count and what is still to be added are what there is and what is still to be
  taken away. A push adds to both sides, a file that is counted moves from one term to the
  other, whatever the other workflows do in between. It needs that a workflow that has not begun
  to count has all of its difference left, and one that has finished nothing (`Left`).
- `InfosAreLatest`: `InfosInv` follows the last push that concerns an information (`LastIn`)
  through its workflow: what it has read is still what there is (`TagsRight` with
  `LicenseRight`, `RelationsRight`, `LatestDeploy`), because only a later push changes a tree
  and then this one is not the last; and once it has written, the rows are right. That a
  README.md was removed is read from the difference and not from the tree: `Told` says that the
  two agree for the last push of a branch. A write of an earlier push either comes before the
  last one has looked, or is noted as `crossed`. A file that fails sets `err`, so that no
  workflow gets past the activity without having written (`TagsWritten`). Names that the
  checkers object to are in a table of tags only if they were there at first (`Allowed`), so
  that what is written is `MetaTags` however often an attempt is repeated.

### Only model-checked

- Everything under fairness: `TaskEventuallyTaken`, `WorkerReturns`, `LockFreed`, `Drained`,
  `AllAcked`, `Pushed`, `UserGone`, `PushHandled` (out of TLAPS's reach).
- `OkMeansDone`, `RejectedChangesNothing`, `TreeBeforeRow` and `AnsweredIsOver`: they depend on
  what each of the 270 programs does, step by step. For routes in general there is nothing to
  prove, and a proof about these routes would be a walk through every one of them, which is what
  TLC does.

## 5. What does not hold

### Shown by a run

- `deploy_late`: `scheduler.go:25` says "a Scheduler will run tasks in their arrival
  order". IDs come from a sequence and rows become visible when their insert commits;
  `next()` asks for IDs above `rs.last` (`scheduler.go:122`) and passes over one that
  commits late, until the server restarts.
- `deploy_delete`: `component/space.go:587` says "stop any running space instance". `Stop`
  looks the space up, which `Delete` has just removed.

### Stated in the modules, not part of a run

To see one, add it to the configuration (as an INVARIANT, or as a PROPERTY when it is
temporal).

| Definition | Configuration | What happens |
|---|---|---|
| `CancelledNotRun` | `deploy_safe` | an old task that fails cancels the tasks of a redeployment, whose goroutines write their statuses over it |
| `FailedBuildStopsRun` | `deploy_live` | `BuilderRunner.Run` returns nil after a failed build: the run task polls for an image for ever |
| `OneMirrorPerRepo` | `mirror` with 2 clients | the check and the insert are two statements without a unique index |
| `FinishedHasObjects` | `mirror` | an object that could not be copied is skipped and the mirror becomes finished |
| `EditsKept` | `mirror` | a worker writes the row it read before `UpdateMirror` |
| `DLQUnhandled` | `meter` | the insert commits after its timeout and the event goes to the dead letter queue as well |
| `AckedIsDone` | `meter` | after 3 + 5 failures the message is acknowledged and its event is nowhere |
| `OneRole` without its condition | `accounts` with two clients in the load of members | an administrator changes a role while a member is added: two rows for one member |
| `LoserIsTold` | `lfs` | of two requests for a lock the second gets an error without a lock, which the handler dereferences |
| `FailedLeavesNoRow` | `lfs` | a failed upload through the server still creates the row |
| `DownloadsIncrease` | `repos` | `component/repo.go:1308` says "increase clone download count for repo by given count"; a report replaces the count, and late writers put an older total back |
| `PrivateStays` | `repos` | a count of downloads that began before writes back that the repository is public |

### Seen in DeployScheduler, excepted from its properties

- `next()` sets `rs.last` before it looks up the space, the model or the deployment
  (`scheduler.go:176-190`): when that fails, the task stays pending and no goroutine gets
  it until the server restarts.
- `Deploy` drops the errors of the inserts of its tasks (`deployer.go:220`, `225`) and
  reports success: the row of the deployment stays pending without a task.
- The runners write a status back from the row they hold: an old one can replace a newer
  one, as in `CancelledNotRun` above.

### Seen in Accounts and Repos, excepted from their properties

- `PUT /user` writes the UUID of the request into the row (`user/component/user.go:327`), and
  `users.uuid` has no unique index: a person can get a second account.
- The goroutine of a sign-in writes the whole row of the user from the copy it read: it
  undoes a rename in `users` but not in `namespaces`, and gives back the permission to
  change the name, of which `builder/store/database/user.go:74` says "allow user to change
  username once".
- Two sign-ins by WeChat at the same time generate two names and create two accounts.
- `DeleteUserAndRelations` panics after its transaction (`user/component/user.go:391` uses
  a client that is nil): the user of Casdoor is never deleted and the attempt is repeated.
- An administrator who changes their own role removes their membership and then lacks the
  right to add it again.
- Two requests at a time give a member two roles, or leave two active tokens of one name.
- `user/handler/user.go:170` refuses to delete a user who owns organizations; one can be
  created between this check and the workflow.
- A repository whose creation or deletion failed halfway keeps what was made or left of it:
  a tree without a row makes its path unusable, since creating finds the tree and deleting
  does not find the row. The same happens without a failure when a creation begins while
  the repository of that path is being deleted.
- A second deletion that is late removes the tree of a repository created in between.
- An unlike that fails between its two steps leaves the counter too high; a late write of
  a whole row puts an older counter back, from which it can become negative.

### Seen in Pushes and Moderation

- A workflow whose README.md has gone by the time it reads it fails three times and gives
  up: the last activity, which asks for the sensitive check, is never reached. So does
  one whose README.md has metadata that cannot be parsed: what is pushed with it is not
  checked.
- A hook that fails after the push was stored (`api/handler/internal.go:131-152`) starts no
  workflow: tags, license, relations and the sensitive check stay those of the push before.
- `UpdateLicenseByTag` (`builder/store/database/repository.go:611`) selects the tag, reads the
  repository and writes the whole row: a late one puts back an old license, and an old
  `private` and `sensitive_check_status`, so that a repository that a check has hidden is
  public again.
- The first count of a library tag is a SELECT and an INSERT
  (`builder/store/database/tag.go:306`): of two the second fails, and so does its attempt.
- A check of a repository writes the row back as it was read: a repository that another
  check has hidden in the meantime is public again, and its file counts as checked.
- A record of a file is of one content (its blob), but the content that is read and judged
  is the one at the head of the branch. A content that was once recorded is not checked
  again, one whose check failed for a technical reason neither; and a repository of which
  any recorded content was sensitive is reported as failed for ever, although the file has
  gone.
- The count of a library tag counts attempts, not files, when an activity is repeated.
- `component/callback/space_deploy_watcher.go:41` drops the errors it joins, so that a
  failed deployment is not tried again.

### Seen in Requests

- Creating a file answers 200 although the file was not created (`component/repo.go:553`);
  a deployment answers 200 although its tasks could not be queued.
- A change of role removes the member before it adds them again; when the second fails the
  member is gone.
- A creation that fails after the tree was made leaves a tree without a row.
- `GitHTTPParamMiddleware` answers 400 and lets the request go on, which then fails.
- An upload of several files checks the second when the first may be written.
- The service runner removes the service of that name before it checks the request for the
  new one; it reports a service that it cannot read as stopped, and takes it for purged.
  `UpdateCluster` answers success when the row was not found.
- Listing prompts ends the process when one file cannot be parsed: the goroutine that collects
  them dereferences nil (`component/prompt.go:124`).
- The webhook of a space is registered without a handler (`api/router/api.go:584`).
- The loop that streams the logs of a pod leaves only its `select` when the stream has ended
  (`servicerunner/handler/k8s.go:520`) and spins until the client goes away.

## 6. Plan

Done, in this order: DeployScheduler, RedisLock with Lease, MirrorSync, Metering with Ledger,
Lfs with PathLocks, Accounts, Repos, Pushes with Moderation, and Requests with the programs it
runs.

Proved: every safety property of the runs but those of `Requests`. What `Requests` shows
depends on the programs themselves and stays with TLC, which goes through all of them.

Left to model: the composition of DeployScheduler with the service runner and Kubernetes;
two requests at a time for the programs of `Requests`, beyond the operations that Repos,
Accounts and Lfs model; files of a tree in Moderation.
