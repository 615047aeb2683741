----------------------------- MODULE MirrorSync -----------------------------
(***************************************************************************)
(* Mirroring of remote repositories with the Gitaly git server: the API    *)
(* calls that create, trigger, change and delete a mirror, the two         *)
(* priority queues in Redis, the process that fetches the repositories     *)
(* (mirror/reposyncer) and the process that copies their LFS files into    *)
(* the object store (mirror/lfssyncer).  Everybody reads a row of the      *)
(* database, works for a while and writes the whole row back.              *)
(***************************************************************************)
EXTENDS Naturals, FiniteSets

CONSTANTS
  Repos,        \* repositories
  Existing,     \* those that exist when the system starts
  Objs,         \* LFS objects
  Pointers,     \* the objects that the source of each repository points to
  RepoWorkers,  \* goroutines of the repo-sync process
  LfsWorkers,   \* goroutines of the lfs-sync process
  Clients,      \* concurrent requests to the API server
  MaxMirrors,   \* bound on the mirrors ever created
  MaxCalls,     \* bound on the API calls
  Loads         \* the kinds of behaviour to look at, one of which Init chooses

ASSUME MirrorAssumption ==
  /\ Existing \subseteq Repos
  /\ Pointers \in [Repos -> SUBSET Objs]
  /\ MaxMirrors \in Nat /\ MaxCalls \in Nat
  /\ \A l \in Loads :
       /\ l.ops \subseteq {"create", "crawl", "saas", "sync", "update", "delete", "edit", "drop"}
       /\ l.team \subseteq RepoWorkers \cup LfsWorkers
       /\ l.calls \in 0..MaxCalls /\ l.faults \in Nat /\ l.crashes \in Nat

VARIABLES
  mirrors,   \* table mirrors: a row for each ID
  created,   \* the ID given last
  repos,     \* table repositories
  git,       \* external: what the git server has of each repository
  meta,      \* table lfs_meta_objects: the objects of each repository
  stored,    \* external: the objects in S3 that have their right size
  queues,    \* external: the sorted sets of Redis, "repo" and "lfs"
  held,      \* the task that each dispatcher has popped and not yet handed over
  rw, lw,    \* the workers
  enq,       \* EnqueueMirrorTasks, which the API server runs when it starts
  cl,        \* the requests
  load,      \* bounds: the API calls made, the workers at work, how many calls, failures
             \* (of git, S3, Redis, database, network) and crashes
  calls, faults, crashes

vars == <<mirrors, created, repos, git, meta, stored, queues, held, rw, lw, enq, cl,
          load, calls, faults, crashes>>
tables == <<mirrors, created, repos, git, meta, stored>>
counts == <<load, calls, faults, crashes>>

IDs == 1..MaxMirrors
Kinds == {"repo", "lfs"}
Status == {"none", "waiting", "running", "repo_synced", "finished", "failed", "incomplete"}
SyncStatus == {"none", "pending", "inprogress", "failed", "completed"}

\* Columns that nobody writes differently (progress, message, times) are left
\* out; "edit" counts the changes that users made to the other columns.
NoRow == [repo |-> "absent"]
NoRepo == [sync |-> "absent"]
Edits == 0..MaxCalls
Row == [repo : Repos, st : Status, prio : 0..3, edit : Edits]
RepoRow == [sync : SyncStatus, edit : Edits]
NewRow(r, p) == [repo |-> r, st |-> "none", prio |-> p, edit |-> 0]

\* A member of a sorted set is the task in JSON, so equal tasks are one member.  A
\* task without a date has that of its push, which may be later than its row's.
Task == [m : IDs, prio : 0..3, saas : BOOLEAN, late : BOOLEAN]
NoTask == [m |-> 0]

Idle == [pc |-> "idle"]

Init ==
  /\ mirrors = [m \in IDs |-> NoRow] /\ created = 0
  /\ repos = [r \in Repos |-> IF r \in Existing THEN [sync |-> "none", edit |-> 0] ELSE NoRepo]
  /\ git = [r \in Repos |-> IF r \in Existing THEN "empty" ELSE "none"]
  /\ meta = [r \in Repos |-> {}] /\ stored = {}
  /\ queues = [k \in Kinds |-> {}] /\ held = [k \in Kinds |-> NoTask]
  /\ rw = [w \in RepoWorkers |-> Idle] /\ lw = [w \in LfsWorkers |-> Idle]
  /\ enq = [pc |-> "start", todo |-> {}]
  /\ cl = [c \in Clients |-> Idle]
  /\ load \in Loads /\ calls = 0 /\ faults = 0 /\ crashes = 0

Fault == faults < load.faults /\ faults' = faults + 1 /\ UNCHANGED <<load, calls, crashes>>

----------------------------------------------------------------------------
(* The stores.  An update names every column; it fails when the row is gone, *)
(* unless it is part of UpdateMirrorAndRepository or goes to repositories.   *)

Update(m, row) == mirrors[m] # NoRow /\ mirrors' = [mirrors EXCEPT ![m] = row]

UpdateRepo(r, rec) == repos' = [repos EXCEPT ![r] = IF @ = NoRepo THEN NoRepo ELSE rec]

UpdateMirrorAndRepository(m, row, r, rec) ==
  /\ mirrors' = [mirrors EXCEPT ![m] = IF @ = NoRow THEN NoRow ELSE row]
  /\ UpdateRepo(r, rec)

FindByRepoID(m, r) == mirrors[m] # NoRow /\ mirrors[m].repo = r
IsExist(r) == \E m \in IDs : FindByRepoID(m, r)

\* Nobody writes next_execution_timestamp, and no date is before NULL.
ToSyncRepo == {m \in IDs : mirrors[m] # NoRow
                           /\ mirrors[m].st \in {"incomplete", "failed", "waiting"}}
ToSyncLfs == {m \in IDs : mirrors[m] # NoRow /\ mirrors[m].st = "repo_synced"}

BulkUpdateOrCreate(r, objs) == meta' = [meta EXCEPT ![r] = @ \cup objs]

----------------------------------------------------------------------------
(* The queues and their dispatchers. *)

Push(k, t) == queues' = [queues EXCEPT ![k] = @ \cup {t}]

\* BZPOPMAX by created_at * priority: every date is near the others and newer
\* mirrors have larger IDs, but a priority of 0 makes all scores equal.
Newer(u, t) == IF u.m = t.m THEN u.late /\ ~t.late ELSE u.m > t.m /\ ~t.late
First(k, t) ==
  /\ t \in queues[k]
  /\ \A u \in queues[k] : u.prio < t.prio \/ (u.prio = t.prio /\ (~Newer(u, t) \/ t.prio = 0))

\* The dispatcher blocks on the channel until a worker receives.
dispatcher(k) ==
  /\ held[k] = NoTask
  /\ \E t \in queues[k] :
       /\ First(k, t)
       /\ queues' = [queues EXCEPT ![k] = @ \ {t}]
       /\ held' = [held EXCEPT ![k] = t]
  /\ UNCHANGED <<tables, rw, lw, enq, cl, counts>>

\* Redis has popped the task, the answer does not arrive.
PopLost(k) ==
  /\ held[k] = NoTask
  /\ \E t \in queues[k] : First(k, t) /\ queues' = [queues EXCEPT ![k] = @ \ {t}]
  /\ Fault
  /\ UNCHANGED <<tables, held, rw, lw, enq, cl>>

----------------------------------------------------------------------------
(* A worker of the repo-sync process. *)

Has(r) == git[r] \in {"empty", "fetched"}
RepoStep(w, pc, next) == rw[w].pc = pc /\ rw' = [rw EXCEPT ![w] = next]
RepoUnchanged == UNCHANGED <<created, stored, held, lw, enq, cl>>

ReceiveRepo(w) ==
  /\ rw[w] = Idle /\ held["repo"] # NoTask
  /\ LET t == held["repo"] IN
     rw' = [rw EXCEPT ![w] =
              IF mirrors[t.m] = NoRow THEN Idle
              ELSE [pc |-> "run", t |-> t, row |-> mirrors[t.m],
                    repo |-> repos[mirrors[t.m].repo]]]
  /\ held' = [held EXCEPT !["repo"] = NoTask]
  /\ UNCHANGED <<tables, queues, lw, enq, cl, counts>>

\* The row is deleted, or its repository is: SyncRepo returns an error, in the
\* latter case with the row left running.
SetRunning(w) ==
  LET row == [rw[w].row EXCEPT !.st = "running", !.prio = 1]
      m == rw[w].t.m IN
  /\ rw[w].pc = "run"
  /\ \/ /\ mirrors[m] = NoRow
        /\ RepoStep(w, "run", Idle)
        /\ UNCHANGED mirrors
     \/ /\ Update(m, row)
        /\ RepoStep(w, "run", IF rw[w].repo = NoRepo THEN Idle
                              ELSE [rw[w] EXCEPT !.pc = "fetch", !.row = row])
  /\ RepoUnchanged /\ UNCHANGED <<repos, git, meta, queues, counts>>

\* Mutant: the error is logged only.
GitErrorLogged(w) ==
  /\ rw[w].pc \in {"fetch", "info"}
  /\ rw' = [rw EXCEPT ![w].pc = IF @ = "fetch" THEN "info" ELSE "meta"]
  /\ IF Has(rw[w].row.repo) THEN Fault ELSE UNCHANGED counts
  /\ RepoUnchanged /\ UNCHANGED <<mirrors, repos, git, meta, queues>>

\* git.MirrorSync or git.GetRepo fails; a deleted git repository makes it fail.
GitFails(w) ==
  /\ rw[w].pc \in {"fetch", "info"}
  /\ rw' = [rw EXCEPT ![w] = Idle]
  /\ IF Has(rw[w].row.repo) THEN Fault ELSE UNCHANGED counts
  /\ \/ mirrors[rw[w].t.m] = NoRow /\ UNCHANGED mirrors
     \/ Update(rw[w].t.m, [rw[w].row EXCEPT !.st = "failed"])
  /\ RepoUnchanged /\ UNCHANGED <<repos, git, meta, queues>>

MirrorSync(w) ==
  /\ RepoStep(w, "fetch", [rw[w] EXCEPT !.pc = "info"])
  /\ Has(rw[w].row.repo)
  /\ git' = [git EXCEPT ![rw[w].row.repo] = "fetched"]
  /\ RepoUnchanged /\ UNCHANGED <<mirrors, repos, meta, queues, counts>>

\* The default branch and the status go into the row of the repository.
SetInProgress(w) ==
  LET rec == [rw[w].repo EXCEPT !.sync = "inprogress"] IN
  /\ RepoStep(w, "info", [rw[w] EXCEPT !.pc = "meta", !.repo = rec])
  /\ Has(rw[w].row.repo)
  /\ UpdateRepo(rw[w].row.repo, rec)
  /\ RepoUnchanged /\ UNCHANGED <<mirrors, git, meta, queues, counts>>

generateLfsMetaObjects(w) ==
  LET r == rw[w].row.repo IN
  /\ rw[w].pc = "meta" /\ Has(r)
  /\ BulkUpdateOrCreate(r, Pointers[r])
  /\ RepoStep(w, "meta", IF Pointers[r] # {}
                         THEN [rw[w] EXCEPT !.pc = "push", !.row.st = "repo_synced"]
                         ELSE [rw[w] EXCEPT !.pc = "complete", !.row.st = "finished"])
  /\ RepoUnchanged /\ UNCHANGED <<mirrors, repos, git, queues, counts>>

PointersFail(w) ==
  /\ RepoStep(w, "meta", Idle)
  /\ IF Has(rw[w].row.repo) THEN Fault ELSE UNCHANGED counts
  /\ UpdateMirrorAndRepository(rw[w].t.m, [rw[w].row EXCEPT !.st = "incomplete"],
                               rw[w].row.repo, [rw[w].repo EXCEPT !.sync = "failed"])
  /\ RepoUnchanged /\ UNCHANGED <<git, meta, queues>>

\* The task is in the queue before the row says repo_synced.
PushLfs(w) ==
  /\ RepoStep(w, "push", [rw[w] EXCEPT !.pc = "save"])
  /\ \/ Push("lfs", [rw[w].t EXCEPT !.prio = rw[w].row.prio]) /\ UNCHANGED counts
     \/ Fault /\ UNCHANGED queues
  /\ RepoUnchanged /\ UNCHANGED <<mirrors, repos, git, meta>>

SetCompleted(w) ==
  /\ RepoStep(w, "complete", [rw[w] EXCEPT !.pc = "save"])
  /\ UpdateRepo(rw[w].row.repo, [rw[w].repo EXCEPT !.sync = "completed"])
  /\ RepoUnchanged /\ UNCHANGED <<mirrors, git, meta, queues, counts>>

\* The workflow for the pushed files, started next, touches none of this.
SaveMirror(w) ==
  /\ RepoStep(w, "save", Idle)
  /\ \/ mirrors[rw[w].t.m] = NoRow /\ UNCHANGED mirrors
     \/ Update(rw[w].t.m, rw[w].row)
  /\ RepoUnchanged /\ UNCHANGED <<repos, git, meta, queues, counts>>

\* A statement fails, be it the one that would record a failure: SyncRepo returns
\* and nothing tells the row.
RepoDbError(w) ==
  /\ rw[w].pc \in {"run", "fetch", "info", "meta", "complete", "save"}
  /\ rw' = [rw EXCEPT ![w] = Idle]
  /\ Fault
  /\ RepoUnchanged /\ UNCHANGED <<mirrors, repos, git, meta, queues>>

RepoWorker(w) ==
  \/ ReceiveRepo(w) \/ SetRunning(w) \/ GitFails(w) \/ MirrorSync(w) \/ SetInProgress(w)
  \/ generateLfsMetaObjects(w) \/ PointersFail(w) \/ PushLfs(w) \/ SetCompleted(w)
  \/ SaveMirror(w) \/ RepoDbError(w)

----------------------------------------------------------------------------
(* A worker of the lfs-sync process. *)

LfsStep(w, pc, next) == lw[w].pc = pc /\ lw' = [lw EXCEPT ![w] = next]
LfsUnchanged == UNCHANGED <<created, git, meta, queues, held, rw, enq, cl>>
At(w, pc) == [lw[w] EXCEPT !.pc = pc]

ReceiveLfs(w) ==
  /\ lw[w] = Idle /\ held["lfs"] # NoTask
  /\ LET m == held["lfs"].m IN
     lw' = [lw EXCEPT ![w] =
              IF mirrors[m] = NoRow \/ (mirrors[m] # NoRow /\ repos[mirrors[m].repo] = NoRepo)
              THEN Idle
              ELSE [pc |-> "list", m |-> m, row |-> mirrors[m], repo |-> repos[mirrors[m].repo],
                    todo |-> {}, cur |-> {}]]
  /\ held' = [held EXCEPT !["lfs"] = NoTask]
  /\ UNCHANGED <<tables, queues, rw, enq, cl, counts>>

\* The source answers the batch request with the objects that were asked for.
GetLFSDownloadURLs(w) ==
  LET objs == meta[lw[w].row.repo] IN
  /\ LfsStep(w, "list", IF objs = {} THEN At(w, "fail")
                        ELSE [lw[w] EXCEPT !.pc = "loop", !.todo = objs])
  /\ LfsUnchanged /\ UNCHANGED <<mirrors, repos, stored, counts>>

\* The object has the right size in S3 (go on), has not (download it), or the
\* request fails (skip the object).
StatObject(w) ==
  /\ lw[w].pc = "loop"
  /\ \E o \in lw[w].todo :
       LET rest == [lw[w] EXCEPT !.todo = @ \ {o}, !.cur = {o}] IN
       \/ /\ LfsStep(w, "loop", [rest EXCEPT !.pc = IF o \in stored THEN "progress" ELSE "get"])
          /\ UNCHANGED counts
       \/ LfsStep(w, "loop", [rest EXCEPT !.cur = {}]) /\ Fault
  /\ LfsUnchanged /\ UNCHANGED <<mirrors, repos, stored>>

\* A failure is logged and the object counted as done all the same; it may leave
\* an object of the wrong size.
DownloadAndUploadLFSFile(w) ==
  /\ LfsStep(w, "get", At(w, "progress"))
  /\ \/ stored' = stored \cup lw[w].cur /\ UNCHANGED counts
     \/ stored' \in {stored, stored \ lw[w].cur} /\ Fault
  /\ LfsUnchanged /\ UNCHANGED <<mirrors, repos>>

\* UpdateOrCreate finds the object's row, then the progress is written.
UpdateProgress(w) ==
  /\ lw[w].pc = "progress"
  /\ \/ mirrors[lw[w].m] = NoRow /\ LfsStep(w, "progress", At(w, "fail")) /\ UNCHANGED mirrors
     \/ /\ LfsStep(w, "progress", [lw[w] EXCEPT !.pc = "loop", !.cur = {}])
        /\ Update(lw[w].m, lw[w].row)
  /\ LfsUnchanged /\ UNCHANGED <<repos, stored, counts>>

\* Mutant: the status is not set.
FinishedForgotten(w) ==
  /\ lw[w].pc = "loop" /\ lw[w].todo = {}
  /\ Update(lw[w].m, lw[w].row)
  /\ LfsStep(w, "loop", At(w, "complete"))
  /\ LfsUnchanged /\ UNCHANGED <<repos, stored, counts>>

SetFinished(w) ==
  LET row == [lw[w].row EXCEPT !.st = "finished"] IN
  /\ lw[w].pc = "loop" /\ lw[w].todo = {}
  /\ \/ /\ mirrors[lw[w].m] = NoRow
        /\ LfsStep(w, "loop", [lw[w] EXCEPT !.pc = "fail", !.row = row])
        /\ UNCHANGED mirrors
     \/ /\ Update(lw[w].m, row)
        /\ LfsStep(w, "loop", [lw[w] EXCEPT !.pc = "complete", !.row = row])
  /\ LfsUnchanged /\ UNCHANGED <<repos, stored, counts>>

\* Mutant: the repository is not told.
CompletedForgotten(w) ==
  /\ LfsStep(w, "complete", Idle)
  /\ Update(lw[w].m, lw[w].row)
  /\ LfsUnchanged /\ UNCHANGED <<repos, stored, counts>>

SaveCompleted(w) ==
  /\ LfsStep(w, "complete", Idle)
  /\ \/ /\ UpdateMirrorAndRepository(lw[w].m, lw[w].row, lw[w].row.repo,
                                     [lw[w].repo EXCEPT !.sync = "completed"])
        /\ UNCHANGED counts
     \/ Fault /\ UNCHANGED <<mirrors, repos>>
  /\ LfsUnchanged /\ UNCHANGED stored

\* The source, or a statement, fails.
LfsError(w) ==
  /\ lw[w].pc \in {"list", "progress"} \/ (lw[w].pc = "loop" /\ lw[w].todo = {})
  /\ lw' = [lw EXCEPT ![w] = [At(w, "fail") EXCEPT
                                !.row.st = IF lw[w].pc = "loop" THEN "finished" ELSE lw[w].row.st]]
  /\ Fault
  /\ LfsUnchanged /\ UNCHANGED <<mirrors, repos, stored>>

\* The error is overwritten by that of the update: when the update succeeds,
\* err.Error() is a call through a nil pointer.
SyncLfsFailed(w) ==
  /\ \/ /\ LfsStep(w, "fail", At(w, "panic"))
        /\ UpdateMirrorAndRepository(lw[w].m, lw[w].row, lw[w].row.repo,
                                     [lw[w].repo EXCEPT !.sync = "failed"])
        /\ UNCHANGED counts
     \/ LfsStep(w, "fail", Idle) /\ Fault /\ UNCHANGED <<mirrors, repos>>
  /\ LfsUnchanged /\ UNCHANGED stored

\* Mutant: no recover, the worker is gone.
NoRecover(w) == FALSE /\ UNCHANGED vars

\* recover starts the worker again.
Recover(w) ==
  /\ LfsStep(w, "panic", Idle)
  /\ LfsUnchanged /\ UNCHANGED <<mirrors, repos, stored, counts>>

LfsWorker(w) ==
  \/ ReceiveLfs(w) \/ GetLFSDownloadURLs(w) \/ StatObject(w) \/ DownloadAndUploadLFSFile(w)
  \/ UpdateProgress(w) \/ SetFinished(w) \/ SaveCompleted(w) \/ LfsError(w)
  \/ SyncLfsFailed(w) \/ Recover(w)

----------------------------------------------------------------------------
(* The API server: EnqueueMirrorTasks before it serves, then the requests. *)

EnqStep(pc, next) == enq.pc = pc /\ enq' = next
EnqUnchanged == UNCHANGED <<created, repos, git, meta, stored, held, rw, lw, cl>>
Copies(ids) == {[m |-> m, row |-> mirrors[m]] : m \in ids}

\* The mirrors are listed once; an error ends the whole job.
ListToSync ==
  /\ \/ EnqStep("start", [pc |-> "repo", todo |-> Copies(ToSyncRepo)]) /\ UNCHANGED counts
     \/ /\ enq.pc = "repo" /\ enq.todo = {}
        /\ enq' = [pc |-> "lfs", todo |-> Copies(ToSyncLfs)]
        /\ UNCHANGED counts
     \/ /\ enq.pc = "lfs" /\ enq.todo = {}
        /\ enq' = [pc |-> "done", todo |-> {}]
        /\ UNCHANGED counts
     \/ /\ enq.pc \in {"start", "repo"} /\ enq.todo = {}
        /\ enq' = [pc |-> "done", todo |-> {}]
        /\ Fault
  /\ EnqUnchanged /\ UNCHANGED <<mirrors, queues>>

EnqueueMirrorTasks ==
  /\ enq.pc \in Kinds
  /\ \E e \in enq.todo :
       /\ enq' = [pc |-> "save", todo |-> enq.todo \ {e}, kind |-> enq.pc, cur |-> e]
       /\ \/ /\ Push(enq.pc, [m |-> e.m, prio |-> e.row.prio, saas |-> FALSE, late |-> FALSE])
             /\ UNCHANGED counts
          \/ Fault /\ UNCHANGED queues
  /\ EnqUnchanged /\ UNCHANGED mirrors

SaveWaiting ==
  /\ EnqStep("save", [pc |-> enq.kind, todo |-> enq.todo])
  /\ \/ Update(enq.cur.m, [enq.cur.row EXCEPT !.st = "waiting"]) /\ UNCHANGED counts
     \/ Fault /\ UNCHANGED mirrors
  /\ EnqUnchanged /\ UNCHANGED queues

\* A request begins.
Call(c, op) ==
  /\ enq.pc = "done" /\ cl[c] = Idle
  /\ op \in load.ops /\ calls < load.calls
  /\ calls' = calls + 1 /\ UNCHANGED <<load, faults, crashes>>
ClientStep(c, pc, next) == cl[c].pc = pc /\ cl' = [cl EXCEPT ![c] = next]
ClientUnchanged == UNCHANGED <<meta, stored, held, rw, lw, enq>>
At0(c, pc) == [cl[c] EXCEPT !.pc = pc]
Holding(pc, op, r, m, row) ==
  [pc |-> pc, op |-> op, r |-> r, m |-> m, row |-> row, repo |-> repos[r]]

\* Finds the repository and no mirror of it.
CreateMirror(c, r) ==
  /\ Call(c, "create")
  /\ repos[r] # NoRepo /\ ~IsExist(r)
  /\ cl' = [cl EXCEPT ![c] = Holding("insert", "create", r, 0, NewRow(r, 0))]
  /\ ClientUnchanged /\ UNCHANGED <<mirrors, created, repos, git, queues>>

\* Creates the repository, in the git server and in the database.
CreateMirrorRepo(c, r) ==
  /\ Call(c, "crawl")
  /\ repos[r] = NoRepo /\ git[r] = "none"
  /\ git' = [git EXCEPT ![r] = "empty"]
  /\ repos' = [repos EXCEPT ![r] = [sync |-> "none", edit |-> 0]]
  /\ cl' = [cl EXCEPT ![c] = [Holding("insert", "crawl", r, 0, NewRow(r, 3))
                                EXCEPT !.repo = repos'[r]]]
  /\ ClientUnchanged /\ UNCHANGED <<mirrors, created, queues>>

\* mirrorFromSaasSync when there is a mirror; otherwise the git server clones.
MirrorFromSaas(c, r) ==
  /\ Call(c, "saas")
  /\ repos[r] # NoRepo
  /\ \/ /\ ~IsExist(r) /\ Has(r)
        /\ git' = [git EXCEPT ![r] = "fetched"]
        /\ cl' = [cl EXCEPT ![c] = Holding("insert", "saas", r, 0, NewRow(r, 0))]
     \/ /\ UNCHANGED git
        /\ \E m \in IDs : /\ FindByRepoID(m, r)
                          /\ cl' = [cl EXCEPT ![c] = Holding("push", "saas", r, m, mirrors[m])]
  /\ ClientUnchanged /\ UNCHANGED <<mirrors, created, repos, queues>>

\* SyncMirror pushes with high priority and UpdateMirror does not push.
SyncMirror(c, r) ==
  /\ Call(c, "sync")
  /\ repos[r] # NoRepo
  /\ \E m \in IDs :
       /\ FindByRepoID(m, r)
       /\ cl' = [cl EXCEPT ![c] = Holding("push", "sync", r, m, [mirrors[m] EXCEPT !.prio = 3])]
  /\ ClientUnchanged /\ UNCHANGED <<mirrors, created, repos, git, queues>>

UpdateMirror(c, r) ==
  /\ Call(c, "update")
  /\ repos[r] # NoRepo
  /\ \E m \in IDs :
       /\ FindByRepoID(m, r)
       /\ cl' = [cl EXCEPT ![c] = Holding("save", "update", r, m, [mirrors[m] EXCEPT !.edit = @ + 1])]
  /\ ClientUnchanged /\ UNCHANGED <<mirrors, created, repos, git, queues>>

DeleteMirror(c, r) ==
  /\ Call(c, "delete")
  /\ repos[r] # NoRepo
  /\ \E m \in IDs : FindByRepoID(m, r) /\ mirrors' = [mirrors EXCEPT ![m] = NoRow]
  /\ ClientUnchanged /\ UNCHANGED <<created, repos, git, queues, cl>>

\* UpdateRepo of the repository component: the git server comes first.
EditRepo(c, r) ==
  /\ Call(c, "edit")
  /\ repos[r] # NoRepo
  /\ cl' = [cl EXCEPT ![c] = [pc |-> "saverepo", op |-> "edit", r |-> r,
                               repo |-> [repos[r] EXCEPT !.edit = @ + 1]]]
  /\ ClientUnchanged /\ UNCHANGED <<mirrors, created, repos, git, queues>>

\* DeleteRepo deletes in the git server, then the row; mirrors are not touched.
DeleteRepo(c, r) ==
  /\ \/ /\ Call(c, "drop") /\ repos[r] # NoRepo
        /\ git' = [git EXCEPT ![r] = "gone"]
        /\ cl' = [cl EXCEPT ![c] = [pc |-> "drop", r |-> r]]
        /\ UNCHANGED repos
     \/ /\ ClientStep(c, "drop", Idle) /\ cl[c].r = r
        /\ repos' = [repos EXCEPT ![r] = NoRepo]
        /\ UNCHANGED <<git, counts>>
  /\ ClientUnchanged /\ UNCHANGED <<mirrors, created, queues>>

\* The rest of a request: insert the row, push the task, save what was changed.
InsertMirror(c) ==
  /\ created < MaxMirrors
  /\ ClientStep(c, "insert", [At0(c, "push") EXCEPT !.m = created + 1])
  /\ created' = created + 1
  /\ mirrors' = [mirrors EXCEPT ![created + 1] = cl[c].row]
  /\ ClientUnchanged /\ UNCHANGED <<repos, git, queues, counts>>

\* CreateMirrorRepo gives its task no date.
PushRepoMirror(c) ==
  LET saas == cl[c].op = "saas" IN
  /\ ClientStep(c, "push", IF saas THEN [At0(c, "saverepo") EXCEPT !.repo.sync = "pending"]
                           ELSE [At0(c, "save") EXCEPT !.row.st = "waiting"])
  /\ \/ /\ \E late \in {FALSE, cl[c].op = "crawl"} :
              Push("repo", [m |-> cl[c].m, prio |-> cl[c].row.prio, saas |-> saas, late |-> late])
        /\ UNCHANGED counts
     \/ Fault /\ UNCHANGED queues
  /\ ClientUnchanged /\ UNCHANGED <<mirrors, created, repos, git>>

SaveRow(c) ==
  /\ ClientStep(c, "save", Idle)
  /\ \/ mirrors[cl[c].m] = NoRow /\ UNCHANGED mirrors
     \/ Update(cl[c].m, cl[c].row)
  /\ ClientUnchanged /\ UNCHANGED <<created, repos, git, queues, counts>>

SaveRepo(c) ==
  /\ ClientStep(c, "saverepo", Idle)
  /\ UpdateRepo(cl[c].r, cl[c].repo)
  /\ ClientUnchanged /\ UNCHANGED <<mirrors, created, git, queues, counts>>

RequestFails(c) ==
  /\ cl[c] # Idle
  /\ cl' = [cl EXCEPT ![c] = Idle]
  /\ Fault
  /\ ClientUnchanged /\ UNCHANGED <<mirrors, created, repos, git, queues>>

Request(c) == InsertMirror(c) \/ PushRepoMirror(c) \/ SaveRow(c) \/ SaveRepo(c)
              \/ \E r \in Repos : DeleteRepo(c, r) /\ cl[c] # Idle

Begin(c, r) ==
  \/ CreateMirror(c, r) \/ CreateMirrorRepo(c, r) \/ MirrorFromSaas(c, r) \/ SyncMirror(c, r)
  \/ UpdateMirror(c, r) \/ DeleteMirror(c, r) \/ EditRepo(c, r)
  \/ DeleteRepo(c, r) /\ cl[c] = Idle

----------------------------------------------------------------------------
(* A process dies and is started again; Redis and the database live on. *)

Crash ==
  /\ crashes < load.crashes /\ crashes' = crashes + 1
  /\ \/ /\ enq' = [pc |-> "start", todo |-> {}]
        /\ cl' = [c \in Clients |-> Idle]
        /\ UNCHANGED <<held, rw, lw>>
     \/ /\ rw' = [w \in RepoWorkers |-> Idle]
        /\ held' = [held EXCEPT !["repo"] = NoTask]
        /\ UNCHANGED <<enq, cl, lw>>
     \/ /\ lw' = [w \in LfsWorkers |-> Idle]
        /\ held' = [held EXCEPT !["lfs"] = NoTask]
        /\ UNCHANGED <<enq, cl, rw>>
  /\ UNCHANGED <<tables, queues, load, calls, faults>>

Enqueue == ListToSync \/ EnqueueMirrorTasks \/ SaveWaiting

Next ==
  \/ \E k \in Kinds : dispatcher(k) \/ PopLost(k)
  \/ \E w \in RepoWorkers \cap load.team : RepoWorker(w)
  \/ \E w \in LfsWorkers \cap load.team : LfsWorker(w)
  \/ Enqueue
  \/ \E c \in Clients : Request(c) \/ RequestFails(c) \/ \E r \in Repos : Begin(c, r)
  \/ Crash

Spec == Init /\ [][Next]_vars

\* Every goroutine that can go on does.
Fairness ==
  /\ \A k \in Kinds : WF_vars(dispatcher(k))
  /\ \A w \in RepoWorkers : WF_vars(RepoWorker(w))
  /\ \A w \in LfsWorkers : WF_vars(LfsWorker(w))
  /\ WF_vars(Enqueue)
  /\ \A c \in Clients : WF_vars(Request(c))
LiveSpec == Spec /\ Fairness

----------------------------------------------------------------------------
(* Properties. *)

RepoWorkerState ==
  {Idle} \cup [pc : {"run", "fetch", "info", "meta", "push", "complete", "save"}, t : Task,
               row : Row, repo : RepoRow \cup {NoRepo}]
LfsWorkerState ==
  {Idle} \cup [pc : {"list", "loop", "get", "progress", "complete", "fail", "panic"}, m : IDs,
               row : Row, repo : RepoRow, todo : SUBSET Objs, cur : SUBSET Objs]

\* The tables hold rows, the queues tasks of mirrors that were inserted.
TypeOK ==
  /\ mirrors \in [IDs -> Row \cup {NoRow}] /\ created \in 0..MaxMirrors
  /\ repos \in [Repos -> RepoRow \cup {NoRepo}]
  /\ git \in [Repos -> {"none", "empty", "fetched", "gone"}]
  /\ meta \in [Repos -> SUBSET Objs] /\ stored \subseteq Objs
  /\ \A k \in Kinds : queues[k] \subseteq Task /\ held[k] \in Task \cup {NoTask}
  /\ rw \in [RepoWorkers -> RepoWorkerState]
  /\ lw \in [LfsWorkers -> LfsWorkerState]
  /\ \A m \in IDs : m > created => mirrors[m] = NoRow

\* A mirror is repo_synced or finished, and a repository completed, only after
\* the git server has fetched from the source, whatever failed, whoever wrote
\* the row from an old copy and however often a process died.
SyncedWasFetched ==
  /\ \A m \in IDs : mirrors[m] # NoRow /\ mirrors[m].st \in {"repo_synced", "finished"}
                    => git[mirrors[m].repo] \in {"fetched", "gone"}
  /\ \A r \in Repos : repos[r].sync = "completed" => git[r] \in {"fetched", "gone"}

\* The LFS worker takes an empty batch for a failure, so no mirror gets into its
\* queue, nor into the status that puts it there when the server starts again,
\* before the objects are in lfs_meta_objects.
LfsTaskHasObjects ==
  \A m \in IDs : mirrors[m] # NoRow =>
    ((mirrors[m].st = "repo_synced" \/ \E t \in queues["lfs"] \cup {held["lfs"]} : t.m = m)
     => meta[mirrors[m].repo] # {})

Quiet ==
  /\ \A k \in Kinds : queues[k] = {} /\ held[k] = NoTask
  /\ \A w \in RepoWorkers : rw[w] = Idle
  /\ \A w \in LfsWorkers : lw[w] = Idle
  /\ \A c \in Clients : cl[c] = Idle
Untroubled == faults = 0 /\ crashes = 0 /\ load.ops \cap {"update", "delete", "drop"} = {}

\* As long as nothing fails, no interleaving of requests, repository workers and
\* LFS workers on the same mirror leaves it running (or never started) when all
\* is done: the next start of the server would not list it.
QuietSettled ==
  Untroubled /\ Quiet =>
    \A m \in IDs : mirrors[m] # NoRow => mirrors[m].st \notin {"none", "running"}

\* As long as nothing fails and the repository's row is written by the workers
\* only, in the end the repository of a mirror is completed and has its objects.
QuietComplete ==
  Untroubled /\ load.ops \cap {"saas", "edit"} = {} /\ Quiet =>
    \A m \in IDs : mirrors[m] # NoRow =>
      /\ repos[mirrors[m].repo].sync = "completed"
      /\ Pointers[mirrors[m].repo] \subseteq stored

\* Every request is answered, every task served and every worker waits for the
\* next one in the end, whatever failed: a panic costs no worker.
Drained == <>[]Quiet

\* CreateMirror answers "mirror already exists" rather than create a second one.
OneMirrorPerRepo ==
  \A m, n \in IDs : mirrors[m] # NoRow /\ mirrors[n] # NoRow /\ mirrors[m].repo = mirrors[n].repo
                    => m = n

\* A mirror that is finished, its log saying "finish to download and upload LFS
\* file" for every object, has its objects in the store.
FinishedHasObjects ==
  \A m \in IDs : mirrors[m] # NoRow /\ mirrors[m].st = "finished"
                 => meta[mirrors[m].repo] \subseteq stored

\* A change that UpdateMirror has stored stays until the next one.
EditsKept ==
  [][\A m \in IDs : mirrors[m] # NoRow /\ mirrors'[m] # NoRow
                    => mirrors'[m].edit >= mirrors[m].edit]_vars
=============================================================================
