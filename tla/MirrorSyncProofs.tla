-------------------------- MODULE MirrorSyncProofs --------------------------
(***************************************************************************)
(* Proofs about MirrorSync, for any repositories, workers, requests,       *)
(* failures and crashes: what the rows say was fetched was fetched, and as *)
(* long as nothing fails no mirror is left half done, neither its status   *)
(* nor its repository nor its LFS objects.                                 *)
(***************************************************************************)
EXTENDS MirrorSync, TLAPS

\* Rows, with any number of edits, and the states of the processes.
MRow == [repo : Repos, st : Status, prio : 0..3, edit : Nat]
RRow == [sync : SyncStatus, edit : Nat]

Starting == [pc : {"run"}, t : Task, row : MRow, repo : RRow \cup {NoRepo}]
Going == [pc : {"fetch", "info", "meta", "push", "complete", "save"}, t : Task,
          row : MRow, repo : RRow]
Fetching == [pc : {"list", "loop", "get", "progress", "complete", "fail", "panic"}, m : IDs,
             row : MRow, repo : RRow, todo : SUBSET Objs, cur : SUBSET Objs]
Inserter == [pc : {"insert"}, op : {"create", "crawl", "saas"}, r : Repos, m : {0},
             row : MRow, repo : RRow]
Holder == [pc : {"push", "save", "saverepo"}, op : {"create", "crawl", "saas", "sync", "update"},
           r : Repos, m : IDs, row : MRow, repo : RRow]
Editor == [pc : {"saverepo"}, op : {"edit"}, r : Repos, repo : RRow]
Dropper == [pc : {"drop"}, r : Repos]
Copy == [m : IDs, row : MRow]
Lister == [pc : {"start", "repo", "lfs", "done"}, todo : SUBSET Copy]
Saver == [pc : {"save"}, todo : SUBSET Copy, kind : Kinds, cur : Copy]

RepoState == {Idle} \cup Starting \cup Going
LfsState == {Idle} \cup Fetching
ClientState == {Idle} \cup Inserter \cup Holder \cup Editor \cup Dropper
EnqState == Lister \cup Saver

TypedTables ==
  /\ mirrors \in [IDs -> MRow \cup {NoRow}] /\ created \in 0..MaxMirrors
  /\ repos \in [Repos -> RRow \cup {NoRepo}]
  /\ git \in [Repos -> {"none", "empty", "fetched", "gone"}]
  /\ meta \in [Repos -> SUBSET Objs]
  /\ queues \in [Kinds -> SUBSET Task]

TypedProcesses ==
  /\ held \in [Kinds -> Task \cup {NoTask}]
  /\ rw \in [RepoWorkers -> RepoState]
  /\ lw \in [LfsWorkers -> LfsState]
  /\ cl \in [Clients -> ClientState]
  /\ enq \in EnqState
  /\ load \in Loads /\ calls \in Nat /\ faults \in Nat /\ crashes \in Nat

Typed == TypedTables /\ TypedProcesses

----------------------------------------------------------------------------
(* Types. *)

\* What is missing is no row and no task, and an idle process is in no state.
LEMMA Distinct ==
  /\ NoRow \notin MRow /\ NoRepo \notin RRow /\ NoTask \notin Task
  /\ Idle \notin Starting \cup Going /\ Idle \notin Fetching
  /\ Idle \notin Inserter \cup Holder \cup Editor \cup Dropper
<1>1. NoRow \notin MRow
  BY DEF NoRow, MRow
<1>2. NoRepo \notin RRow
  BY DEF NoRepo, RRow
<1>3. NoTask \notin Task
  BY DEF NoTask, Task, IDs
<1>4. Idle \notin Starting \cup Going
  BY DEF Idle, Starting, Going
<1>5. Idle \notin Fetching
  BY DEF Idle, Fetching
<1>6. Idle \notin Inserter \cup Holder \cup Editor \cup Dropper
  BY DEF Idle, Inserter, Holder, Editor, Dropper
<1> QED BY <1>1, <1>2, <1>3, <1>4, <1>5, <1>6

\* An idle process is at none of its labels.
LEMMA IdlePc == Idle.pc = "idle"
BY DEF Idle

LEMMA RowTypes ==
  /\ \A r \in Repos : \A p \in 0..3 : NewRow(r, p) \in MRow
  /\ \A row \in MRow : \A s \in Status : [row EXCEPT !.st = s] \in MRow
  /\ \A row \in MRow : \A s \in Status : \A p \in 0..3 : [row EXCEPT !.st = s, !.prio = p] \in MRow
  /\ \A row \in MRow : \A p \in 0..3 : [row EXCEPT !.prio = p] \in MRow
  /\ \A row \in MRow : [row EXCEPT !.edit = @ + 1] \in MRow
  /\ \A rec \in RRow : \A s \in SyncStatus : [rec EXCEPT !.sync = s] \in RRow
  /\ \A rec \in RRow : [rec EXCEPT !.edit = @ + 1] \in RRow
<1>1. \A r \in Repos : \A p \in 0..3 : NewRow(r, p) \in MRow
  BY DEF NewRow, MRow, Status
<1>2. ASSUME NEW row \in MRow, NEW s \in Status, NEW p \in 0..3
      PROVE  /\ [row EXCEPT !.st = s] \in MRow /\ [row EXCEPT !.st = s, !.prio = p] \in MRow
             /\ [row EXCEPT !.prio = p] \in MRow
  BY DEF MRow
<1>3. ASSUME NEW row \in MRow PROVE [row EXCEPT !.edit = @ + 1] \in MRow
  BY DEF MRow
<1>4. ASSUME NEW rec \in RRow, NEW s \in SyncStatus PROVE [rec EXCEPT !.sync = s] \in RRow
  BY DEF RRow
<1>5. ASSUME NEW rec \in RRow PROVE [rec EXCEPT !.edit = @ + 1] \in RRow
  BY DEF RRow
<1>6. \A row \in MRow : \A s \in Status : [row EXCEPT !.st = s] \in MRow
  BY DEF MRow
<1>7. \A row \in MRow : \A p \in 0..3 : [row EXCEPT !.prio = p] \in MRow
  BY DEF MRow
<1> QED BY <1>1, <1>2, <1>3, <1>4, <1>5, <1>6, <1>7

\* The fields of a process that is at work.
LEMMA RepoFields ==
  ASSUME Typed, NEW w \in RepoWorkers, rw[w].pc # "idle"
  PROVE  /\ rw[w] \in Starting \cup Going /\ rw[w] # Idle
         /\ rw[w].t \in Task /\ rw[w].t.m \in IDs /\ rw[w].row \in MRow /\ rw[w].row.repo \in Repos
         /\ rw[w].pc # "run" => rw[w] \in Going /\ rw[w].repo \in RRow
         /\ rw[w].pc = "run" => rw[w] \in Starting /\ rw[w].repo \in RRow \cup {NoRepo}
<1>1. rw[w] \in Starting \cup Going /\ rw[w] # Idle
  BY IdlePc DEF Typed, TypedProcesses, RepoState
<1> QED BY <1>1 DEF Starting, Going, Task, MRow

LEMMA LfsFields ==
  ASSUME Typed, NEW w \in LfsWorkers, lw[w].pc # "idle"
  PROVE  /\ lw[w] \in Fetching /\ lw[w] # Idle
         /\ lw[w].m \in IDs /\ lw[w].row \in MRow /\ lw[w].row.repo \in Repos /\ lw[w].repo \in RRow
         /\ lw[w].todo \subseteq Objs /\ lw[w].cur \subseteq Objs
<1>1. lw[w] \in Fetching /\ lw[w] # Idle
  BY IdlePc DEF Typed, TypedProcesses, LfsState
<1> QED BY <1>1 DEF Fetching, MRow

LEMMA ClientFields ==
  ASSUME Typed, NEW c \in Clients
  PROVE  /\ cl[c].pc = "insert" => cl[c] \in Inserter
         /\ cl[c].pc \in {"push", "save"} => cl[c] \in Holder
         /\ cl[c].pc = "saverepo" => cl[c] \in Holder \cup Editor
         /\ cl[c].pc = "drop" => cl[c] \in Dropper
         /\ cl[c].pc # "idle" => cl[c] # Idle /\ cl[c].r \in Repos
         /\ cl[c] # Idle => cl[c].pc # "idle"
<1>1. cl[c] \in {Idle} \cup Inserter \cup Holder \cup Editor \cup Dropper
  BY DEF Typed, TypedProcesses, ClientState
<1> QED BY <1>1, IdlePc DEF Inserter, Holder, Editor, Dropper

\* What a worker goes on with.
LEMMA RepoEdits ==
  ASSUME Typed, NEW w \in RepoWorkers, rw[w].pc # "idle"
  PROVE  /\ \A row \in MRow : rw[w].repo # NoRepo => [rw[w] EXCEPT !.pc = "fetch", !.row = row] \in Going
         /\ rw[w].pc # "run" => \A p \in {"info", "meta", "push", "complete", "save"} :
              /\ [rw[w] EXCEPT !.pc = p] \in Going
              /\ \A rec \in RRow : [rw[w] EXCEPT !.pc = p, !.repo = rec] \in Going
              /\ \A s \in Status : [rw[w] EXCEPT !.pc = p, !.row.st = s] \in Going
<1>1. rw[w] \in Starting \cup Going /\ rw[w].row \in MRow /\ rw[w].repo \in RRow \cup {NoRepo}
  BY RepoFields
<1>2. ASSUME NEW row \in MRow, rw[w].repo # NoRepo
      PROVE  [rw[w] EXCEPT !.pc = "fetch", !.row = row] \in Going
  BY <1>1, <1>2 DEF Starting, Going
<1>3. ASSUME rw[w].pc # "run", NEW p \in {"info", "meta", "push", "complete", "save"}
      PROVE  /\ [rw[w] EXCEPT !.pc = p] \in Going
             /\ \A rec \in RRow : [rw[w] EXCEPT !.pc = p, !.repo = rec] \in Going
             /\ \A s \in Status : [rw[w] EXCEPT !.pc = p, !.row.st = s] \in Going
  <2>1. rw[w] \in Going
    BY <1>3, RepoFields
  <2>2. \A s \in Status : [rw[w].row EXCEPT !.st = s] \in MRow
    BY <1>1, RowTypes
  <2> QED BY <2>1, <2>2 DEF Going
<1> QED BY <1>2, <1>3

LEMMA LfsEdits ==
  ASSUME Typed, NEW w \in LfsWorkers, lw[w].pc # "idle",
         NEW p \in {"loop", "get", "progress", "complete", "fail", "panic"}
  PROVE  /\ [lw[w] EXCEPT !.pc = p] \in Fetching
         /\ \A os \in SUBSET Objs : [lw[w] EXCEPT !.pc = p, !.todo = os] \in Fetching
         /\ \A os \in SUBSET Objs : [lw[w] EXCEPT !.pc = p, !.cur = os] \in Fetching
         /\ \A row \in MRow : [lw[w] EXCEPT !.pc = p, !.row = row] \in Fetching
         /\ \A s \in Status : [lw[w] EXCEPT !.pc = p, !.row.st = s] \in Fetching
<1>1. lw[w] \in Fetching /\ lw[w].row \in MRow
  BY LfsFields
<1>2. \A s \in Status : [lw[w].row EXCEPT !.st = s] \in MRow
  BY <1>1, RowTypes
<1> QED BY <1>1, <1>2 DEF Fetching

\* Writing a whole row, if it is still there.
LEMMA UpdateTypes ==
  ASSUME TypedTables
  PROVE  /\ \A m \in IDs : \A row \in MRow :
              /\ [mirrors EXCEPT ![m] = row] \in [IDs -> MRow \cup {NoRow}]
              /\ [mirrors EXCEPT ![m] = IF @ = NoRow THEN NoRow ELSE row] \in [IDs -> MRow \cup {NoRow}]
         /\ \A r \in Repos : \A rec \in RRow :
              [repos EXCEPT ![r] = IF @ = NoRepo THEN NoRepo ELSE rec] \in [Repos -> RRow \cup {NoRepo}]
         /\ \A k \in Kinds : \A t \in Task : [queues EXCEPT ![k] = @ \cup {t}] \in [Kinds -> SUBSET Task]
BY DEF TypedTables

----------------------------------------------------------------------------
(* Types, step by step. *)

LEMMA RepoWorkerTyped ==
  ASSUME Typed, NEW w \in RepoWorkers, RepoWorker(w)
  PROVE  Typed'
<1>0. TypedTables /\ TypedProcesses
  BY DEF Typed
<1> USE DEF Typed, RepoUnchanged, RepoStep, counts, tables, Fault
<1>t. ASSUME mirrors' \in [IDs -> MRow \cup {NoRow}], repos' \in [Repos -> RRow \cup {NoRepo}],
             git' \in [Repos -> {"none", "empty", "fetched", "gone"}],
             meta' \in [Repos -> SUBSET Objs], queues' \in [Kinds -> SUBSET Task],
             rw' \in [RepoWorkers -> RepoState], faults' \in Nat,
             UNCHANGED <<created, held, lw, enq, cl, load, calls, crashes>>
      PROVE  Typed'
  BY <1>0, <1>t DEF TypedTables, TypedProcesses
<1>n. /\ faults \in Nat /\ rw \in [RepoWorkers -> RepoState]
      /\ mirrors \in [IDs -> MRow \cup {NoRow}] /\ repos \in [Repos -> RRow \cup {NoRepo}]
      /\ git \in [Repos -> {"none", "empty", "fetched", "gone"}]
      /\ meta \in [Repos -> SUBSET Objs] /\ queues \in [Kinds -> SUBSET Task]
  BY <1>0 DEF TypedTables, TypedProcesses
<1>i. ASSUME rw' = [rw EXCEPT ![w] = Idle] PROVE rw' \in [RepoWorkers -> RepoState]
  BY <1>n, <1>i DEF RepoState
<1>g. ASSUME NEW s \in Starting \cup Going, rw' = [rw EXCEPT ![w] = s]
      PROVE  rw' \in [RepoWorkers -> RepoState]
  BY <1>n, <1>g DEF RepoState
<1>s. {"running", "failed", "incomplete", "repo_synced", "finished", "waiting"} \subseteq Status
      /\ {"inprogress", "completed", "failed"} \subseteq SyncStatus
  BY DEF Status, SyncStatus
<1>1. CASE ReceiveRepo(w)
  <2>1. held["repo"] \in Task /\ held["repo"].m \in IDs
    BY <1>0, <1>1 DEF ReceiveRepo, TypedProcesses, Kinds, Task
  <2> DEFINE t == held["repo"]
             s == [pc |-> "run", t |-> t, row |-> mirrors[t.m], repo |-> repos[mirrors[t.m].repo]]
  <2>2. rw' \in [RepoWorkers -> RepoState]
    <3>1. CASE mirrors[t.m] = NoRow
      <4>1. rw' = [rw EXCEPT ![w] = Idle]
        BY <1>1, <3>1 DEF ReceiveRepo
      <4> QED BY <1>i, <4>1
    <3>2. CASE mirrors[t.m] # NoRow
      <4>1. rw' = [rw EXCEPT ![w] = s]
        BY <1>1, <3>2 DEF ReceiveRepo
      <4>2. mirrors[t.m] \in MRow /\ mirrors[t.m].repo \in Repos
        BY <1>n, <2>1, <3>2 DEF MRow
      <4>3. s \in Starting
        BY <1>n, <2>1, <4>2 DEF Starting
      <4> HIDE DEF s
      <4> QED BY <1>g, <4>1, <4>3
    <3> QED BY <3>1, <3>2
  <2>3. held' \in [Kinds -> Task \cup {NoTask}]
    BY <1>0, <1>1 DEF ReceiveRepo, TypedProcesses
  <2> QED BY <1>0, <1>1, <2>2, <2>3 DEF ReceiveRepo, TypedTables, TypedProcesses
<1>p. rw[w].pc # "idle" \/ ReceiveRepo(w)
  BY DEF RepoWorker, SetRunning, GitFails, MirrorSync, SetInProgress, generateLfsMetaObjects,
     PointersFail, PushLfs, SetCompleted, SaveMirror, RepoDbError
<1>2. CASE SetRunning(w)
  <2>0. rw[w].pc = "run" /\ rw[w].row \in MRow /\ rw[w].t.m \in IDs
    BY <1>2, RepoFields DEF SetRunning
  <2> DEFINE row == [rw[w].row EXCEPT !.st = "running", !.prio = 1]
             s == [rw[w] EXCEPT !.pc = "fetch", !.row = row]
  <2>1. row \in MRow
    <3>1. ASSUME NEW x \in MRow PROVE [x EXCEPT !.st = "running", !.prio = 1] \in MRow
      <4>1. "running" \in Status /\ 1 \in 0..3
        BY <1>s
      <4> QED BY <4>1 DEF MRow
    <3> QED BY <2>0, <3>1
  <2>2. mirrors' \in [IDs -> MRow \cup {NoRow}]
    BY <1>n, <1>2, <2>0, <2>1 DEF SetRunning, Update
  <2>3. rw' \in [RepoWorkers -> RepoState]
    <3>1. CASE rw' = [rw EXCEPT ![w] = Idle]
      BY <1>i, <3>1
    <3>2. CASE rw' = [rw EXCEPT ![w] = s] /\ rw[w].repo # NoRepo
      <4>1. s \in Going
        BY <2>0, <2>1, <3>2, RepoEdits
      <4> HIDE DEF s
      <4> QED BY <1>g, <3>2, <4>1
    <3> QED BY <1>2, <3>1, <3>2 DEF SetRunning
  <2> QED BY <1>n, <1>t, <1>2, <2>2, <2>3 DEF SetRunning
<1>3. CASE GitFails(w)
  <2>0. rw[w].row \in MRow /\ rw[w].t.m \in IDs
    BY <1>3, RepoFields DEF GitFails
  <2>1. [rw[w].row EXCEPT !.st = "failed"] \in MRow
    BY <1>s, <2>0, RowTypes
  <2>2. mirrors' \in [IDs -> MRow \cup {NoRow}]
    BY <1>n, <1>3, <2>0, <2>1 DEF GitFails, Update
  <2>3. faults' \in Nat /\ UNCHANGED <<load, calls, crashes>>
    BY <1>n, <1>3 DEF GitFails
  <2> QED BY <1>n, <1>t, <1>3, <1>i, <2>2, <2>3 DEF GitFails
<1>4. CASE MirrorSync(w)
  <2>0. rw[w].pc = "fetch" /\ rw[w].row.repo \in Repos
    BY <1>4, RepoFields DEF MirrorSync
  <2>1. [rw[w] EXCEPT !.pc = "info"] \in Going
    BY <2>0, RepoEdits
  <2> QED BY <1>n, <1>t, <1>4, <1>g, <2>0, <2>1 DEF MirrorSync
<1>5. CASE SetInProgress(w)
  <2>0. rw[w].pc = "info" /\ rw[w].row.repo \in Repos /\ rw[w].repo \in RRow
    BY <1>5, RepoFields DEF SetInProgress
  <2> DEFINE rec == [rw[w].repo EXCEPT !.sync = "inprogress"]
  <2>1. rec \in RRow
    BY <1>s, <2>0, RowTypes
  <2>2. [rw[w] EXCEPT !.pc = "meta", !.repo = rec] \in Going
    BY <2>0, <2>1, RepoEdits
  <2>3. rw' \in [RepoWorkers -> RepoState]
    BY <1>5, <1>g, <2>2 DEF SetInProgress
  <2>4. repos' \in [Repos -> RRow \cup {NoRepo}]
    BY <1>0, <1>5, <2>0, <2>1, UpdateTypes DEF SetInProgress, UpdateRepo
  <2> QED BY <1>n, <1>t, <1>5, <2>3, <2>4 DEF SetInProgress
<1>6. CASE generateLfsMetaObjects(w)
  <2> DEFINE r == rw[w].row.repo
  <2>0. rw[w].pc = "meta" /\ r \in Repos
    BY <1>6, RepoFields DEF generateLfsMetaObjects
  <2>1. Pointers[r] \subseteq Objs
    BY <2>0, MirrorAssumption
  <2>2. PICK s \in Going : rw' = [rw EXCEPT ![w] = s]
    <3>1. [rw[w] EXCEPT !.pc = "push", !.row.st = "repo_synced"] \in Going
          /\ [rw[w] EXCEPT !.pc = "complete", !.row.st = "finished"] \in Going
      BY <1>s, <2>0, RepoEdits
    <3> QED BY <1>6, <3>1 DEF generateLfsMetaObjects
  <2>3. meta' \in [Repos -> SUBSET Objs]
    BY <1>n, <1>6, <2>0, <2>1 DEF generateLfsMetaObjects, BulkUpdateOrCreate
  <2> QED BY <1>n, <1>t, <1>6, <1>g, <2>2, <2>3 DEF generateLfsMetaObjects
<1>7. CASE PointersFail(w)
  <2>0. rw[w].pc = "meta" /\ rw[w].row \in MRow /\ rw[w].t.m \in IDs /\ rw[w].row.repo \in Repos
        /\ rw[w].repo \in RRow
    BY <1>7, RepoFields DEF PointersFail
  <2>1. [rw[w].row EXCEPT !.st = "incomplete"] \in MRow /\ [rw[w].repo EXCEPT !.sync = "failed"] \in RRow
    BY <1>s, <2>0, RowTypes
  <2>2. mirrors' \in [IDs -> MRow \cup {NoRow}] /\ repos' \in [Repos -> RRow \cup {NoRepo}]
    BY <1>0, <1>7, <2>0, <2>1, UpdateTypes DEF PointersFail, UpdateMirrorAndRepository, UpdateRepo
  <2>3. faults' \in Nat /\ UNCHANGED <<load, calls, crashes>>
    BY <1>n, <1>7 DEF PointersFail
  <2> QED BY <1>n, <1>t, <1>7, <1>i, <2>2, <2>3 DEF PointersFail
<1>8. CASE PushLfs(w)
  <2>0. rw[w].pc = "push" /\ rw[w].t \in Task /\ rw[w].row \in MRow
    BY <1>8, RepoFields DEF PushLfs
  <2>1. [rw[w].t EXCEPT !.prio = rw[w].row.prio] \in Task
    BY <2>0 DEF Task, MRow
  <2>2. queues' \in [Kinds -> SUBSET Task]
    BY <1>0, <1>8, <1>n, <2>1, UpdateTypes DEF PushLfs, Push, Kinds
  <2>3. [rw[w] EXCEPT !.pc = "save"] \in Going
    BY <2>0, RepoEdits
  <2>4. faults' \in Nat /\ UNCHANGED <<load, calls, crashes>>
    BY <1>n, <1>8 DEF PushLfs
  <2> QED BY <1>n, <1>t, <1>8, <1>g, <2>2, <2>3, <2>4 DEF PushLfs
<1>9. CASE SetCompleted(w)
  <2>0. rw[w].pc = "complete" /\ rw[w].row.repo \in Repos /\ rw[w].repo \in RRow
    BY <1>9, RepoFields DEF SetCompleted
  <2>1. [rw[w].repo EXCEPT !.sync = "completed"] \in RRow
    BY <1>s, <2>0, RowTypes
  <2>2. repos' \in [Repos -> RRow \cup {NoRepo}]
    BY <1>0, <1>9, <2>0, <2>1, UpdateTypes DEF SetCompleted, UpdateRepo
  <2>3. [rw[w] EXCEPT !.pc = "save"] \in Going
    BY <2>0, RepoEdits
  <2> QED BY <1>n, <1>t, <1>9, <1>g, <2>2, <2>3 DEF SetCompleted
<1>10. CASE SaveMirror(w)
  <2>0. rw[w].row \in MRow /\ rw[w].t.m \in IDs
    BY <1>10, RepoFields DEF SaveMirror
  <2>1. mirrors' \in [IDs -> MRow \cup {NoRow}]
    BY <1>n, <1>10, <2>0 DEF SaveMirror, Update
  <2> QED BY <1>n, <1>t, <1>10, <1>i, <2>1 DEF SaveMirror
<1>11. CASE RepoDbError(w)
  BY <1>n, <1>t, <1>11, <1>i DEF RepoDbError
<1> QED BY <1>1, <1>2, <1>3, <1>4, <1>5, <1>6, <1>7, <1>8, <1>9, <1>10, <1>11 DEF RepoWorker

LEMMA LfsWorkerTyped ==
  ASSUME Typed, NEW w \in LfsWorkers, LfsWorker(w)
  PROVE  Typed'
<1>0. TypedTables /\ TypedProcesses
  BY DEF Typed
<1> USE DEF Typed, LfsUnchanged, LfsStep, At, counts, tables, Fault
<1>n. /\ faults \in Nat /\ lw \in [LfsWorkers -> LfsState]
      /\ mirrors \in [IDs -> MRow \cup {NoRow}] /\ repos \in [Repos -> RRow \cup {NoRepo}]
  BY <1>0 DEF TypedTables, TypedProcesses
<1>t. ASSUME mirrors' \in [IDs -> MRow \cup {NoRow}], repos' \in [Repos -> RRow \cup {NoRepo}],
             lw' \in [LfsWorkers -> LfsState], faults' \in Nat,
             UNCHANGED <<created, git, meta, queues, held, rw, enq, cl, load, calls, crashes>>
      PROVE  Typed'
  BY <1>0, <1>t DEF TypedTables, TypedProcesses
<1>i. ASSUME lw' = [lw EXCEPT ![w] = Idle] PROVE lw' \in [LfsWorkers -> LfsState]
  BY <1>n, <1>i DEF LfsState
<1>g. ASSUME NEW s \in Fetching, lw' = [lw EXCEPT ![w] = s]
      PROVE  lw' \in [LfsWorkers -> LfsState]
  BY <1>n, <1>g DEF LfsState
<1>s. "finished" \in Status /\ {"completed", "failed"} \subseteq SyncStatus
  BY DEF Status, SyncStatus
<1>1. CASE ReceiveLfs(w)
  <2>1. held["lfs"] \in Task /\ held["lfs"].m \in IDs
    BY <1>0, <1>1 DEF ReceiveLfs, TypedProcesses, Kinds, Task
  <2> DEFINE m == held["lfs"].m
             s == [pc |-> "list", m |-> m, row |-> mirrors[m], repo |-> repos[mirrors[m].repo],
                   todo |-> {}, cur |-> {}]
  <2>2. lw' \in [LfsWorkers -> LfsState]
    <3>1. CASE mirrors[m] = NoRow \/ repos[mirrors[m].repo] = NoRepo
      <4>1. lw' = [lw EXCEPT ![w] = Idle]
        BY <1>1, <3>1 DEF ReceiveLfs
      <4> QED BY <1>i, <4>1
    <3>2. CASE mirrors[m] # NoRow /\ repos[mirrors[m].repo] # NoRepo
      <4>1. lw' = [lw EXCEPT ![w] = s]
        BY <1>1, <3>2 DEF ReceiveLfs
      <4>2. mirrors[m] \in MRow /\ mirrors[m].repo \in Repos
        BY <1>n, <2>1, <3>2 DEF MRow
      <4>3. repos[mirrors[m].repo] \in RRow
        BY <1>n, <3>2, <4>2
      <4>4. s \in Fetching
        BY <1>n, <2>1, <4>2, <4>3 DEF Fetching
      <4> HIDE DEF s
      <4> QED BY <1>g, <4>1, <4>4
    <3> QED BY <3>1, <3>2
  <2>3. held' \in [Kinds -> Task \cup {NoTask}]
    BY <1>0, <1>1 DEF ReceiveLfs, TypedProcesses
  <2> QED BY <1>0, <1>1, <2>2, <2>3 DEF ReceiveLfs, TypedTables, TypedProcesses
<1>2. CASE GetLFSDownloadURLs(w)
  <2>0. lw[w].pc = "list" /\ lw[w].row.repo \in Repos
    BY <1>2, LfsFields DEF GetLFSDownloadURLs
  <2>1. meta[lw[w].row.repo] \subseteq Objs
    BY <1>0, <2>0 DEF TypedTables
  <2>2. [lw[w] EXCEPT !.pc = "fail"] \in Fetching
        /\ [lw[w] EXCEPT !.pc = "loop", !.todo = meta[lw[w].row.repo]] \in Fetching
    BY <2>0, <2>1, LfsEdits
  <2>3. lw' \in [LfsWorkers -> LfsState]
    BY <1>2, <1>g, <2>2 DEF GetLFSDownloadURLs
  <2> QED BY <1>n, <1>t, <1>2, <2>3 DEF GetLFSDownloadURLs
<1>3. CASE StatObject(w)
  <2>0. lw[w] \in Fetching /\ lw[w].todo \subseteq Objs
    BY <1>3, LfsFields DEF StatObject
  <2>1. PICK o \in lw[w].todo :
          LET rest == [lw[w] EXCEPT !.todo = @ \ {o}, !.cur = {o}] IN
          \/ /\ lw' = [lw EXCEPT ![w] = [rest EXCEPT !.pc = IF o \in stored THEN "progress" ELSE "get"]]
             /\ UNCHANGED counts
          \/ lw' = [lw EXCEPT ![w] = [rest EXCEPT !.cur = {}]] /\ Fault
    BY <1>3 DEF StatObject
  <2> DEFINE rest == [lw[w] EXCEPT !.todo = @ \ {o}, !.cur = {o}]
  <2>2. rest \in Fetching
    BY <2>0 DEF Fetching
  <2>3. [rest EXCEPT !.pc = "progress"] \in Fetching /\ [rest EXCEPT !.pc = "get"] \in Fetching
        /\ [rest EXCEPT !.cur = {}] \in Fetching
    <3> HIDE DEF rest
    <3> QED BY <2>2 DEF Fetching
  <2>4. \E s \in Fetching : lw' = [lw EXCEPT ![w] = s]
    <3> HIDE DEF rest
    <3> QED BY <2>1, <2>3 DEF rest
  <2>5. lw' \in [LfsWorkers -> LfsState]
    BY <1>g, <2>4
  <2>6. UNCHANGED counts \/ Fault
    BY <2>1
  <2>7. faults' \in Nat /\ UNCHANGED <<load, calls, crashes>>
    BY <1>n, <2>6
  <2> QED BY <1>n, <1>t, <1>3, <2>5, <2>7 DEF StatObject
<1>4. CASE DownloadAndUploadLFSFile(w)
  <2>1. [lw[w] EXCEPT !.pc = "progress"] \in Fetching
    BY <1>4, LfsEdits DEF DownloadAndUploadLFSFile
  <2>2. lw' \in [LfsWorkers -> LfsState]
    BY <1>4, <1>g, <2>1 DEF DownloadAndUploadLFSFile
  <2>3. faults' \in Nat /\ UNCHANGED <<load, calls, crashes>>
    BY <1>4, <1>n DEF DownloadAndUploadLFSFile
  <2> QED BY <1>n, <1>t, <1>4, <2>2, <2>3 DEF DownloadAndUploadLFSFile
<1>5. CASE UpdateProgress(w)
  <2>0. lw[w].pc = "progress" /\ lw[w].m \in IDs /\ lw[w].row \in MRow
    BY <1>5, LfsFields DEF UpdateProgress
  <2>1. [lw[w] EXCEPT !.pc = "fail"] \in Fetching /\ [lw[w] EXCEPT !.pc = "loop", !.cur = {}] \in Fetching
    BY <2>0, LfsEdits
  <2>2. lw' \in [LfsWorkers -> LfsState] /\ mirrors' \in [IDs -> MRow \cup {NoRow}]
    BY <1>5, <1>g, <1>n, <2>0, <2>1 DEF UpdateProgress, Update
  <2> QED BY <1>n, <1>t, <1>5, <2>2 DEF UpdateProgress
<1>6. CASE SetFinished(w)
  <2>0. lw[w].pc = "loop" /\ lw[w].m \in IDs /\ lw[w].row \in MRow
    BY <1>6, LfsFields DEF SetFinished
  <2> DEFINE row == [lw[w].row EXCEPT !.st = "finished"]
  <2>1. row \in MRow
    BY <1>s, <2>0, RowTypes
  <2>2. [lw[w] EXCEPT !.pc = "fail", !.row = row] \in Fetching
        /\ [lw[w] EXCEPT !.pc = "complete", !.row = row] \in Fetching
    BY <2>0, <2>1, LfsEdits
  <2>3. lw' \in [LfsWorkers -> LfsState] /\ mirrors' \in [IDs -> MRow \cup {NoRow}]
    BY <1>6, <1>g, <1>n, <2>0, <2>1, <2>2 DEF SetFinished, Update
  <2> QED BY <1>n, <1>t, <1>6, <2>3 DEF SetFinished
<1>7. CASE SaveCompleted(w) \/ SyncLfsFailed(w)
  <2>0. lw[w].m \in IDs /\ lw[w].row \in MRow /\ lw[w].row.repo \in Repos /\ lw[w].repo \in RRow
        /\ lw[w].pc # "idle"
    BY <1>7, LfsFields DEF SaveCompleted, SyncLfsFailed
  <2>1. [lw[w].repo EXCEPT !.sync = "completed"] \in RRow /\ [lw[w].repo EXCEPT !.sync = "failed"] \in RRow
    BY <1>s, <2>0, RowTypes
  <2>2. mirrors' \in [IDs -> MRow \cup {NoRow}] /\ repos' \in [Repos -> RRow \cup {NoRepo}]
    BY <1>0, <1>7, <1>n, <2>0, <2>1, UpdateTypes
    DEF SaveCompleted, SyncLfsFailed, UpdateMirrorAndRepository, UpdateRepo
  <2>3. lw' \in [LfsWorkers -> LfsState]
    <3>1. [lw[w] EXCEPT !.pc = "panic"] \in Fetching
      BY <2>0, LfsEdits
    <3> QED BY <1>7, <1>i, <1>g, <3>1 DEF SaveCompleted, SyncLfsFailed
  <2>4. faults' \in Nat /\ UNCHANGED <<load, calls, crashes>>
    BY <1>7, <1>n DEF SaveCompleted, SyncLfsFailed
  <2> QED BY <1>t, <1>7, <2>2, <2>3, <2>4 DEF SaveCompleted, SyncLfsFailed
<1>8. CASE LfsError(w)
  <2>0. lw[w].pc # "idle"
    BY <1>8 DEF LfsError
  <2>1. ASSUME NEW s \in Status PROVE [[lw[w] EXCEPT !.pc = "fail"] EXCEPT !.row.st = s] \in Fetching
    <3>1. [lw[w] EXCEPT !.pc = "fail", !.row.st = s] \in Fetching /\ lw[w] \in Fetching
      BY <2>0, LfsEdits, LfsFields
    <3> QED BY <3>1 DEF Fetching
  <2>2. lw[w].row.st \in Status
    BY <2>0, LfsFields DEF MRow
  <2>3. \E s \in Status :
          lw' = [lw EXCEPT ![w] = [[lw[w] EXCEPT !.pc = "fail"] EXCEPT !.row.st = s]]
    <3>1. CASE lw[w].pc = "loop"
      BY <1>8, <1>s, <3>1 DEF LfsError
    <3>2. CASE lw[w].pc # "loop"
      <4>1. lw' = [lw EXCEPT ![w] = [[lw[w] EXCEPT !.pc = "fail"] EXCEPT !.row.st = lw[w].row.st]]
        BY <1>8, <3>2 DEF LfsError
      <4> QED BY <2>2, <4>1
    <3> QED BY <3>1, <3>2
  <2>5. lw' \in [LfsWorkers -> LfsState]
    BY <1>g, <2>1, <2>3
  <2> QED BY <1>n, <1>t, <1>8, <2>5 DEF LfsError
<1>9. CASE Recover(w)
  BY <1>n, <1>t, <1>9, <1>i DEF Recover
<1> QED BY <1>1, <1>2, <1>3, <1>4, <1>5, <1>6, <1>7, <1>8, <1>9 DEF LfsWorker

LEMMA QueueTyped ==
  ASSUME Typed, NEW k \in Kinds, dispatcher(k) \/ PopLost(k)
  PROVE  Typed'
<1>0. TypedTables /\ TypedProcesses
  BY DEF Typed
<1>1. PICK t \in queues[k] : queues' = [queues EXCEPT ![k] = @ \ {t}]
                             /\ (held' = [held EXCEPT ![k] = t] \/ UNCHANGED held)
  BY DEF dispatcher, PopLost
<1>2. t \in Task /\ queues' \in [Kinds -> SUBSET Task]
  BY <1>0, <1>1 DEF TypedTables
<1>3. held' \in [Kinds -> Task \cup {NoTask}]
  BY <1>0, <1>1, <1>2 DEF TypedProcesses
<1>4. faults' \in Nat /\ UNCHANGED <<load, calls, crashes>>
  BY <1>0 DEF dispatcher, PopLost, counts, Fault, TypedProcesses
<1>5. UNCHANGED <<tables, rw, lw, enq, cl>>
  BY DEF dispatcher, PopLost
<1> QED BY <1>0, <1>2, <1>3, <1>4, <1>5 DEF Typed, TypedTables, TypedProcesses, tables

\* The copies that EnqueueMirrorTasks makes are of rows.
LEMMA CopiesTyped ==
  ASSUME Typed, NEW ids \in SUBSET IDs, \A m \in ids : mirrors[m] # NoRow
  PROVE  Copies(ids) \subseteq Copy
<1>1. \A m \in ids : m \in IDs /\ mirrors[m] \in MRow
  BY DEF Typed, TypedTables
<1> QED BY <1>1 DEF Copies, Copy

LEMMA EnqueueTyped ==
  ASSUME Typed, Enqueue
  PROVE  Typed'
<1>0. TypedTables /\ TypedProcesses /\ enq \in Lister \cup Saver /\ enq.todo \subseteq Copy
  BY DEF Typed, TypedProcesses, EnqState, Lister, Saver
<1>1. UNCHANGED <<created, repos, git, meta, stored, held, rw, lw, cl>>
  BY DEF Enqueue, ListToSync, EnqueueMirrorTasks, SaveWaiting, EnqUnchanged
<1>2. UNCHANGED counts \/ Fault
  BY DEF Enqueue, ListToSync, EnqueueMirrorTasks, SaveWaiting
<1>3. faults' \in Nat /\ UNCHANGED <<load, calls, crashes>>
  BY <1>0, <1>2 DEF counts, Fault, TypedProcesses
<1>4. ASSUME mirrors' \in [IDs -> MRow \cup {NoRow}], queues' \in [Kinds -> SUBSET Task],
             enq' \in EnqState
      PROVE  Typed'
  BY <1>0, <1>1, <1>3, <1>4 DEF Typed, TypedTables, TypedProcesses
<1>5. mirrors \in [IDs -> MRow \cup {NoRow}] /\ queues \in [Kinds -> SUBSET Task]
  BY <1>0 DEF TypedTables
<1>6. CASE ListToSync
  <2>1. Copies(ToSyncRepo) \subseteq Copy /\ Copies(ToSyncLfs) \subseteq Copy
    BY CopiesTyped DEF ToSyncRepo, ToSyncLfs
  <2>2. enq' \in Lister
    BY <1>6, <2>1 DEF ListToSync, EnqStep, Lister
  <2> QED BY <1>4, <1>5, <1>6, <2>2 DEF ListToSync, EnqState
<1>7. CASE EnqueueMirrorTasks
  <2>1. PICK e \in enq.todo :
          /\ enq' = [pc |-> "save", todo |-> enq.todo \ {e}, kind |-> enq.pc, cur |-> e]
          /\ \/ Push(enq.pc, [m |-> e.m, prio |-> e.row.prio, saas |-> FALSE, late |-> FALSE])
             \/ UNCHANGED queues
    BY <1>7 DEF EnqueueMirrorTasks
  <2>2. e \in Copy /\ enq.pc \in Kinds
    BY <1>0, <1>7 DEF EnqueueMirrorTasks
  <2>3. [m |-> e.m, prio |-> e.row.prio, saas |-> FALSE, late |-> FALSE] \in Task
    BY <2>2 DEF Copy, MRow, Task
  <2>4. queues' \in [Kinds -> SUBSET Task]
    <3> DEFINE t == [m |-> e.m, prio |-> e.row.prio, saas |-> FALSE, late |-> FALSE]
    <3>1. [queues EXCEPT ![enq.pc] = @ \cup {t}] \in [Kinds -> SUBSET Task]
      <4> HIDE DEF t
      <4> QED BY <1>0, <2>2, <2>3, UpdateTypes DEF t
    <3> QED BY <1>5, <2>1, <3>1 DEF Push
  <2>5. enq' \in Saver
    BY <1>0, <2>1, <2>2 DEF Saver
  <2> QED BY <1>4, <1>5, <1>7, <2>4, <2>5 DEF EnqueueMirrorTasks, EnqState
<1>8. CASE SaveWaiting
  <2>1. enq \in Saver
    BY <1>0, <1>8 DEF SaveWaiting, EnqStep, Lister
  <2>2. enq.cur.m \in IDs /\ enq.cur.row \in MRow /\ enq.kind \in {"repo", "lfs"}
    BY <2>1 DEF Saver, Copy, Kinds
  <2>3. [enq.cur.row EXCEPT !.st = "waiting"] \in MRow
    <3>1. "waiting" \in Status
      BY DEF Status
    <3> QED BY <2>2, <3>1, RowTypes
  <2>4. mirrors' \in [IDs -> MRow \cup {NoRow}]
    BY <1>5, <1>8, <2>2, <2>3 DEF SaveWaiting, Update
  <2>5. enq' \in Lister
    BY <1>0, <1>8, <2>2 DEF SaveWaiting, EnqStep, Lister
  <2> QED BY <1>4, <1>5, <1>8, <2>4, <2>5 DEF SaveWaiting, EnqState
<1> QED BY <1>6, <1>7, <1>8 DEF Enqueue

LEMMA BeginTyped ==
  ASSUME Typed, NEW c \in Clients, NEW r \in Repos, Begin(c, r)
  PROVE  Typed'
<1>0. TypedTables /\ TypedProcesses
  BY DEF Typed
<1> USE DEF Call, ClientUnchanged
<1>n. /\ mirrors \in [IDs -> MRow \cup {NoRow}] /\ repos \in [Repos -> RRow \cup {NoRepo}]
      /\ git \in [Repos -> {"none", "empty", "fetched", "gone"}] /\ cl \in [Clients -> ClientState]
      /\ calls \in Nat
  BY <1>0 DEF TypedTables, TypedProcesses
<1>t. ASSUME mirrors' \in [IDs -> MRow \cup {NoRow}], repos' \in [Repos -> RRow \cup {NoRepo}],
             git' \in [Repos -> {"none", "empty", "fetched", "gone"}], cl' \in [Clients -> ClientState]
      PROVE  Typed'
  <2>1. UNCHANGED <<meta, stored, held, rw, lw, enq, created, queues, load, faults, crashes>>
    BY DEF Begin, CreateMirror, CreateMirrorRepo, MirrorFromSaas, SyncMirror, UpdateMirror,
           DeleteMirror, EditRepo, DeleteRepo, counts
  <2>2. calls' \in Nat
    BY <1>n DEF Begin, CreateMirror, CreateMirrorRepo, MirrorFromSaas, SyncMirror, UpdateMirror,
           DeleteMirror, EditRepo, DeleteRepo, counts
  <2> QED BY <1>0, <1>t, <2>1, <2>2 DEF Typed, TypedTables, TypedProcesses
<1>g. ASSUME NEW s \in Inserter \cup Holder \cup Editor \cup Dropper, cl' = [cl EXCEPT ![c] = s]
      PROVE  cl' \in [Clients -> ClientState]
  BY <1>n, <1>g DEF ClientState
<1>r. ASSUME NEW m \in IDs, FindByRepoID(m, r) PROVE mirrors[m] \in MRow
  BY <1>n, <1>r DEF FindByRepoID
<1>h. ASSUME NEW op \in {"create", "crawl", "saas", "sync", "update"}, NEW m \in IDs, NEW row \in MRow,
             NEW pc \in {"push", "save"}, repos[r] # NoRepo,
             cl' = [cl EXCEPT ![c] = Holding(pc, op, r, m, row)]
      PROVE  cl' \in [Clients -> ClientState]
  <2>1. repos[r] \in RRow
    BY <1>n, <1>h
  <2>2. Holding(pc, op, r, m, row) \in Holder
    BY <2>1 DEF Holding, Holder
  <2> QED BY <1>g, <1>h, <2>2
<1>i. ASSUME NEW op \in {"create", "saas"}, repos[r] # NoRepo,
             cl' = [cl EXCEPT ![c] = Holding("insert", op, r, 0, NewRow(r, 0))]
      PROVE  cl' \in [Clients -> ClientState]
  <2>1. repos[r] \in RRow /\ NewRow(r, 0) \in MRow
    <3>1. 0 \in 0..3
      OBVIOUS
    <3> QED BY <1>n, <1>i, <3>1, RowTypes
  <2>2. Holding("insert", op, r, 0, NewRow(r, 0)) \in Inserter
    BY <2>1 DEF Holding, Inserter
  <2> QED BY <1>g, <1>i, <2>2
<1>1. CASE CreateMirror(c, r)
  BY <1>n, <1>t, <1>1, <1>i DEF CreateMirror
<1>2. CASE CreateMirrorRepo(c, r)
  <2> DEFINE rec == [sync |-> "none", edit |-> 0]
             s == [Holding("insert", "crawl", r, 0, NewRow(r, 3)) EXCEPT !.repo = repos'[r]]
  <2>1. rec \in RRow /\ NewRow(r, 3) \in MRow
    <3>1. rec \in RRow /\ 3 \in 0..3
      BY DEF RRow, SyncStatus
    <3> HIDE DEF rec
    <3> QED BY <3>1, RowTypes
  <2>2. repos' = [repos EXCEPT ![r] = rec] /\ repos'[r] = rec /\ repos' \in [Repos -> RRow \cup {NoRepo}]
    BY <1>2, <1>n, <2>1 DEF CreateMirrorRepo
  <2>3. s \in Inserter
    BY <2>1, <2>2 DEF Holding, Inserter
  <2>4. cl' \in [Clients -> ClientState]
    BY <1>2, <1>g, <2>3 DEF CreateMirrorRepo
  <2>5. git' \in [Repos -> {"none", "empty", "fetched", "gone"}]
    BY <1>2, <1>n DEF CreateMirrorRepo
  <2> QED BY <1>n, <1>t, <1>2, <2>2, <2>4, <2>5 DEF CreateMirrorRepo
<1>3. CASE MirrorFromSaas(c, r)
  <2>1. git' \in [Repos -> {"none", "empty", "fetched", "gone"}]
    BY <1>3, <1>n DEF MirrorFromSaas
  <2>2. cl' \in [Clients -> ClientState]
    BY <1>3, <1>i, <1>h, <1>r DEF MirrorFromSaas
  <2> QED BY <1>n, <1>t, <1>3, <2>1, <2>2 DEF MirrorFromSaas
<1>4. CASE SyncMirror(c, r)
  <2>1. PICK m \in IDs : FindByRepoID(m, r)
                         /\ cl' = [cl EXCEPT ![c] = Holding("push", "sync", r, m, [mirrors[m] EXCEPT !.prio = 3])]
    BY <1>4 DEF SyncMirror
  <2>2. [mirrors[m] EXCEPT !.prio = 3] \in MRow
    <3>1. 3 \in 0..3 /\ mirrors[m] \in MRow
      BY <1>r, <2>1
    <3> QED BY <3>1, RowTypes
  <2>3. cl' \in [Clients -> ClientState]
    BY <1>4, <1>h, <2>1, <2>2 DEF SyncMirror
  <2> QED BY <1>n, <1>t, <1>4, <2>3 DEF SyncMirror
<1>5. CASE UpdateMirror(c, r)
  <2>1. PICK m \in IDs : FindByRepoID(m, r)
                         /\ cl' = [cl EXCEPT ![c] = Holding("save", "update", r, m, [mirrors[m] EXCEPT !.edit = @ + 1])]
    BY <1>5 DEF UpdateMirror
  <2>2. [mirrors[m] EXCEPT !.edit = @ + 1] \in MRow
    BY <1>r, <2>1, RowTypes
  <2>3. cl' \in [Clients -> ClientState]
    BY <1>5, <1>h, <2>1, <2>2 DEF UpdateMirror
  <2> QED BY <1>n, <1>t, <1>5, <2>3 DEF UpdateMirror
<1>6. CASE DeleteMirror(c, r)
  <2>1. mirrors' \in [IDs -> MRow \cup {NoRow}]
    BY <1>n, <1>6 DEF DeleteMirror
  <2> QED BY <1>n, <1>t, <1>6, <2>1 DEF DeleteMirror
<1>7. CASE EditRepo(c, r)
  <2> DEFINE rec == [repos[r] EXCEPT !.edit = @ + 1]
  <2>1. rec \in RRow
    BY <1>n, <1>7, RowTypes DEF EditRepo
  <2>2. [pc |-> "saverepo", op |-> "edit", r |-> r, repo |-> rec] \in Editor
    <3> HIDE DEF rec
    <3> QED BY <2>1 DEF Editor
  <2>3. cl' \in [Clients -> ClientState]
    BY <1>7, <1>g, <2>2 DEF EditRepo
  <2> QED BY <1>n, <1>t, <1>7, <2>3 DEF EditRepo
<1>8. CASE DeleteRepo(c, r) /\ cl[c] = Idle
  <2>1. cl[c].pc # "drop"
    BY <1>8, IdlePc
  <2>2. git' = [git EXCEPT ![r] = "gone"] /\ cl' = [cl EXCEPT ![c] = [pc |-> "drop", r |-> r]]
        /\ UNCHANGED <<repos, mirrors>>
    BY <1>8, <2>1 DEF DeleteRepo, ClientStep
  <2>3. [pc |-> "drop", r |-> r] \in Dropper
    BY DEF Dropper
  <2>4. cl' \in [Clients -> ClientState] /\ git' \in [Repos -> {"none", "empty", "fetched", "gone"}]
    BY <1>g, <1>n, <2>2, <2>3
  <2> QED BY <1>n, <1>t, <2>2, <2>4
<1> QED BY <1>1, <1>2, <1>3, <1>4, <1>5, <1>6, <1>7, <1>8 DEF Begin

\* The task of a request has the date of its push, which may be late, or of its row.
PushesLate(c, late) ==
  Push("repo", [m |-> cl[c].m, prio |-> cl[c].row.prio, saas |-> cl[c].op = "saas", late |-> late])

LEMMA RequestTyped ==
  ASSUME Typed, NEW c \in Clients, Request(c) \/ RequestFails(c)
  PROVE  Typed'
<1>0. TypedTables /\ TypedProcesses
  BY DEF Typed
<1> USE DEF ClientUnchanged, ClientStep
<1>n. /\ mirrors \in [IDs -> MRow \cup {NoRow}] /\ repos \in [Repos -> RRow \cup {NoRepo}]
      /\ queues \in [Kinds -> SUBSET Task] /\ cl \in [Clients -> ClientState]
      /\ created \in 0..MaxMirrors /\ faults \in Nat
  BY <1>0 DEF TypedTables, TypedProcesses
<1>t. ASSUME mirrors' \in [IDs -> MRow \cup {NoRow}], repos' \in [Repos -> RRow \cup {NoRepo}],
             queues' \in [Kinds -> SUBSET Task], cl' \in [Clients -> ClientState],
             created' \in 0..MaxMirrors, faults' \in Nat,
             UNCHANGED <<git, meta, stored, held, rw, lw, enq, load, calls, crashes>>
      PROVE  Typed'
  BY <1>0, <1>t DEF Typed, TypedTables, TypedProcesses
<1>i. ASSUME cl' = [cl EXCEPT ![c] = Idle] PROVE cl' \in [Clients -> ClientState]
  BY <1>n, <1>i DEF ClientState
<1>g. ASSUME NEW s \in Holder, cl' = [cl EXCEPT ![c] = s]
      PROVE  cl' \in [Clients -> ClientState]
  BY <1>n, <1>g DEF ClientState
<1>1. CASE InsertMirror(c)
  <2>1. cl[c] \in Inserter /\ cl[c].row \in MRow
    BY <1>1, ClientFields DEF InsertMirror, Inserter
  <2>2. created + 1 \in IDs /\ created' \in 0..MaxMirrors
    BY <1>1, <1>n, MirrorAssumption DEF InsertMirror, IDs
  <2> DEFINE s == [[cl[c] EXCEPT !.pc = "push"] EXCEPT !.m = created + 1]
  <2>3. s \in Holder
    BY <2>1, <2>2 DEF Inserter, Holder
  <2>4. cl' \in [Clients -> ClientState]
    BY <1>1, <1>g, <2>3 DEF InsertMirror, At0
  <2>5. mirrors' \in [IDs -> MRow \cup {NoRow}]
    BY <1>1, <1>n, <2>1, <2>2 DEF InsertMirror
  <2> QED BY <1>t, <1>1, <1>n, <2>2, <2>4, <2>5 DEF InsertMirror, counts
<1>2. CASE PushRepoMirror(c)
  <2>1. cl[c] \in Holder /\ cl[c].m \in IDs /\ cl[c].row \in MRow /\ cl[c].repo \in RRow
    BY <1>2, ClientFields DEF PushRepoMirror, Holder
  <2> DEFINE a == [[cl[c] EXCEPT !.pc = "saverepo"] EXCEPT !.repo.sync = "pending"]
             b == [[cl[c] EXCEPT !.pc = "save"] EXCEPT !.row.st = "waiting"]
  <2>2. a \in Holder
    <3>1. [cl[c].repo EXCEPT !.sync = "pending"] \in RRow
      <4>1. "pending" \in SyncStatus
        BY DEF SyncStatus
      <4> QED BY <2>1, <4>1, RowTypes
    <3> QED BY <2>1, <3>1 DEF Holder
  <2>3. b \in Holder
    <3>1. [cl[c].row EXCEPT !.st = "waiting"] \in MRow
      <4>1. "waiting" \in Status
        BY DEF Status
      <4> QED BY <2>1, <4>1, RowTypes
    <3> QED BY <2>1, <3>1 DEF Holder
  <2>4. cl' = [cl EXCEPT ![c] = a] \/ cl' = [cl EXCEPT ![c] = b]
    BY <1>2 DEF PushRepoMirror, At0
  <2>5. cl' \in [Clients -> ClientState]
    <3> HIDE DEF a, b
    <3> QED BY <1>g, <2>2, <2>3, <2>4
  <2>6. \A x, y \in BOOLEAN : [m |-> cl[c].m, prio |-> cl[c].row.prio, saas |-> x, late |-> y] \in Task
    BY <2>1 DEF MRow, Task
  <2>7. queues' \in [Kinds -> SUBSET Task]
    <3>1. "repo" \in Kinds /\ (cl[c].op = "saas") \in BOOLEAN
      BY DEF Kinds
    <3>2. PICK late \in BOOLEAN : PushesLate(c, late) \/ UNCHANGED queues
      BY <1>2 DEF PushRepoMirror, PushesLate
    <3> DEFINE t == [m |-> cl[c].m, prio |-> cl[c].row.prio, saas |-> cl[c].op = "saas", late |-> late]
    <3>3. [queues EXCEPT !["repo"] = @ \cup {t}] \in [Kinds -> SUBSET Task]
      <4>1. t \in Task
        BY <2>6, <3>1
      <4> HIDE DEF t
      <4> QED BY <1>0, <3>1, <4>1, UpdateTypes
    <3> QED BY <1>n, <3>2, <3>3 DEF Push, PushesLate
  <2>8. faults' \in Nat /\ UNCHANGED <<load, calls, crashes>>
    BY <1>2, <1>n DEF PushRepoMirror, counts, Fault
  <2> QED BY <1>t, <1>2, <1>n, <2>5, <2>7, <2>8 DEF PushRepoMirror
<1>3. CASE SaveRow(c)
  <2>1. cl[c].m \in IDs /\ cl[c].row \in MRow
    BY <1>3, ClientFields DEF SaveRow, Holder
  <2>2. mirrors' \in [IDs -> MRow \cup {NoRow}]
    BY <1>3, <1>n, <2>1 DEF SaveRow, Update
  <2> QED BY <1>t, <1>3, <1>n, <1>i, <2>2 DEF SaveRow, counts
<1>4. CASE SaveRepo(c)
  <2>1. cl[c].r \in Repos /\ cl[c].repo \in RRow
    BY <1>4, ClientFields DEF SaveRepo, Holder, Editor
  <2>2. repos' \in [Repos -> RRow \cup {NoRepo}]
    BY <1>0, <1>4, <2>1, UpdateTypes DEF SaveRepo, UpdateRepo
  <2> QED BY <1>t, <1>4, <1>n, <1>i, <2>2 DEF SaveRepo, counts
<1>5. CASE RequestFails(c)
  BY <1>t, <1>5, <1>n, <1>i DEF RequestFails, Fault
<1>6. CASE \E r \in Repos : DeleteRepo(c, r) /\ cl[c] # Idle
  <2>1. PICK r \in Repos : DeleteRepo(c, r) /\ cl[c] # Idle
    BY <1>6
  <2>2. cl' = [cl EXCEPT ![c] = Idle] /\ repos' = [repos EXCEPT ![r] = NoRepo]
        /\ UNCHANGED <<git, counts, mirrors, created, queues>>
    BY <2>1 DEF DeleteRepo, Call
  <2>3. repos' \in [Repos -> RRow \cup {NoRepo}]
    BY <1>n, <2>2
  <2> QED BY <1>t, <1>n, <1>i, <2>1, <2>2, <2>3 DEF DeleteRepo, counts
<1> QED BY <1>1, <1>2, <1>3, <1>4, <1>5, <1>6 DEF Request

LEMMA CrashTyped ==
  ASSUME Typed, Crash
  PROVE  Typed'
<1>0. TypedTables /\ TypedProcesses
  BY DEF Typed
<1>1. held' \in [Kinds -> Task \cup {NoTask}]
  BY <1>0 DEF Crash, TypedProcesses
<1>2. rw' \in [RepoWorkers -> RepoState] /\ lw' \in [LfsWorkers -> LfsState]
  BY <1>0 DEF Crash, TypedProcesses, RepoState, LfsState
<1>3. cl' \in [Clients -> ClientState]
  BY <1>0 DEF Crash, TypedProcesses, ClientState
<1>4. enq' \in EnqState
  BY <1>0 DEF Crash, TypedProcesses, EnqState, Lister
<1>5. crashes' \in Nat /\ UNCHANGED <<tables, queues, load, calls, faults>>
  BY <1>0 DEF Crash, TypedProcesses
<1> QED BY <1>0, <1>1, <1>2, <1>3, <1>4, <1>5 DEF Typed, TypedTables, TypedProcesses, tables

LEMMA InitTyped == Init => Typed
<1> SUFFICES ASSUME Init PROVE Typed
  OBVIOUS
<1> USE DEF Init
<1>1. [sync |-> "none", edit |-> 0] \in RRow
  BY DEF RRow, SyncStatus
<1>2. TypedTables
  BY <1>1, MirrorAssumption DEF TypedTables
<1>3. enq \in EnqState
  BY DEF EnqState, Lister
<1>4. rw \in [RepoWorkers -> RepoState] /\ lw \in [LfsWorkers -> LfsState] /\ cl \in [Clients -> ClientState]
  BY DEF RepoState, LfsState, ClientState
<1>5. held \in [Kinds -> Task \cup {NoTask}]
  OBVIOUS
<1> QED BY <1>2, <1>3, <1>4, <1>5 DEF Typed, TypedProcesses

LEMMA NextTyped == Typed /\ [Next]_vars => Typed'
<1> SUFFICES ASSUME Typed, [Next]_vars PROVE Typed'
  OBVIOUS
<1>1. CASE UNCHANGED vars
  BY <1>1 DEF vars, Typed, TypedTables, TypedProcesses
<1>2. CASE Next
  BY <1>2, QueueTyped, RepoWorkerTyped, LfsWorkerTyped, EnqueueTyped, RequestTyped, BeginTyped, CrashTyped
  DEF Next
<1> QED BY <1>1, <1>2

\* The tables hold rows, the queues and the dispatchers tasks, and every process
\* is in a state that its code can be in: what a worker holds of its repository
\* is a row from its second statement on, and a request that pushes or saves
\* holds a mirror that was inserted.
THEOREM TypeCorrect == Spec => []Typed
BY InitTyped, NextTyped, PTL DEF Spec

----------------------------------------------------------------------------
(* What the rows, and everybody's copies of them, say is true of the git     *)
(* server and of lfs_meta_objects.  A copy may be old, and its owner writes  *)
(* it back whole; it stays true because what it speaks of only moves forward *)
(* (Forward): a fetched repository stays fetched or is deleted, its objects  *)
(* stay known, and the ID of a mirror is never given to another one.  So all *)
(* of this is said of a view of the tables, which steps then move forward.   *)

View == [mirrors : [IDs -> MRow \cup {NoRow}], created : 0..MaxMirrors,
         git : [Repos -> {"none", "empty", "fetched", "gone"}], meta : [Repos -> SUBSET Objs]]
now == [mirrors |-> mirrors, created |-> created, git |-> git, meta |-> meta]

Fetched(v, r) == v.git[r] \in {"fetched", "gone"}
LfsReady(v, r) == Fetched(v, r) /\ Pointers[r] # {} /\ v.meta[r] = Pointers[r]

Honest(v, row) ==
  /\ row.st = "finished" => Fetched(v, row.repo)
  /\ row.st = "repo_synced" => LfsReady(v, row.repo)
HonestRepo(v, r, rec) == rec.sync = "completed" => Fetched(v, r)

\* The row is of the mirror m, as long as that is there.
RowOf(v, m, row) == m <= v.created /\ (v.mirrors[m] # NoRow => v.mirrors[m].repo = row.repo)

MirrorOK(v, m) == v.mirrors[m] # NoRow => m <= v.created /\ Honest(v, v.mirrors[m])

RepoRowOK(v, r, rec) ==
  /\ rec # NoRepo => HonestRepo(v, r, rec)
  /\ v.meta[r] \in {{}, Pointers[r]}

\* A task of the LFS queue is of a mirror whose objects are known.
TaskOK(v, k, t) ==
  /\ t.m <= v.created
  /\ k = "lfs" /\ v.mirrors[t.m] # NoRow => LfsReady(v, v.mirrors[t.m].repo)

RepoOK(v, s) ==
  s.pc # "idle" =>
    /\ RowOf(v, s.t.m, s.row) /\ Honest(v, s.row)
    /\ s.repo # NoRepo => HonestRepo(v, s.row.repo, s.repo)
    /\ s.pc \in {"info", "meta", "push", "complete", "save"} => Fetched(v, s.row.repo)
    /\ s.pc = "push" => LfsReady(v, s.row.repo) /\ s.row.st = "repo_synced"
    /\ s.pc = "complete" => Pointers[s.row.repo] = {} /\ s.row.st = "finished"
    /\ s.pc = "save" => s.row.st \in {"repo_synced", "finished"}

LfsOK(v, s) ==
  s.pc # "idle" =>
    /\ RowOf(v, s.m, s.row) /\ Honest(v, s.row)
    /\ HonestRepo(v, s.row.repo, s.repo) /\ LfsReady(v, s.row.repo)
    /\ s.pc = "complete" => s.row.st = "finished"

ClientOK(v, s) ==
  /\ s.pc \in {"insert", "push", "save"} =>
       s.row.repo = s.r /\ Honest(v, s.row) /\ HonestRepo(v, s.r, s.repo)
  /\ s.pc \in {"push", "save"} => RowOf(v, s.m, s.row)
  /\ s.pc = "saverepo" => HonestRepo(v, s.r, s.repo)

CopyOK(v, e) == RowOf(v, e.m, e.row) /\ Honest(v, e.row)

EnqOK(v, e) ==
  /\ \A x \in e.todo : CopyOK(v, x)
  /\ e.pc = "lfs" => \A x \in e.todo : x.row.st = "repo_synced"
  /\ e.pc = "save" =>
       /\ CopyOK(v, e.cur)
       /\ e.kind = "lfs" => \A x \in e.todo : x.row.st = "repo_synced"

TrueInv ==
  /\ \A m \in IDs : MirrorOK(now, m)
  /\ \A r \in Repos : RepoRowOK(now, r, repos[r])
  /\ \A k \in Kinds : \A t \in queues[k] : TaskOK(now, k, t)
  /\ \A k \in Kinds : held[k] # NoTask => TaskOK(now, k, held[k])
  /\ \A w \in RepoWorkers : RepoOK(now, rw[w])
  /\ \A w \in LfsWorkers : LfsOK(now, lw[w])
  /\ \A c \in Clients : ClientOK(now, cl[c])
  /\ EnqOK(now, enq)

Forward(v, v2) ==
  /\ v.created <= v2.created
  /\ \A r \in Repos : /\ Fetched(v, r) => Fetched(v2, r)
                      /\ v.meta[r] = Pointers[r] => v2.meta[r] = Pointers[r]
  /\ \A m \in IDs : m <= v.created /\ v2.mirrors[m] # NoRow =>
                      v.mirrors[m] # NoRow /\ v2.mirrors[m].repo = v.mirrors[m].repo

\* What is true of a view is true of a later one.
LEMMA CarryRows ==
  ASSUME NEW v \in View, NEW v2 \in View, Forward(v, v2)
  PROVE  /\ \A r \in Repos : LfsReady(v, r) => LfsReady(v2, r)
         /\ \A row \in MRow : Honest(v, row) => Honest(v2, row)
         /\ \A r \in Repos : \A rec \in RRow : HonestRepo(v, r, rec) => HonestRepo(v2, r, rec)
         /\ \A m \in IDs : \A row \in MRow : RowOf(v, m, row) => RowOf(v2, m, row)
         /\ \A t \in Task : \A k \in Kinds : TaskOK(v, k, t) => TaskOK(v2, k, t)
<1>0. v.created \in Nat /\ v2.created \in Nat /\ v.created <= v2.created /\ \A m \in IDs : m \in Nat
  BY MirrorAssumption DEF View, Forward, IDs
<1>1. ASSUME NEW r \in Repos, LfsReady(v, r) PROVE LfsReady(v2, r)
  BY <1>1 DEF Forward, LfsReady
<1>2. ASSUME NEW row \in MRow, Honest(v, row) PROVE Honest(v2, row)
  <2>1. row.repo \in Repos
    BY DEF MRow
  <2> QED BY <1>1, <1>2, <2>1 DEF Honest, Forward
<1>3. ASSUME NEW r \in Repos, NEW rec \in RRow, HonestRepo(v, r, rec) PROVE HonestRepo(v2, r, rec)
  BY <1>3 DEF HonestRepo, Forward
<1>4. ASSUME NEW m \in IDs, NEW row \in MRow, RowOf(v, m, row) PROVE RowOf(v2, m, row)
  <2>1. m \in Nat /\ m <= v.created
    BY <1>0, <1>4 DEF RowOf
  <2>2. m <= v2.created
    BY <1>0, <2>1
  <2> QED BY <1>4, <2>1, <2>2 DEF RowOf, Forward
<1>5. ASSUME NEW t \in Task, NEW k \in Kinds, TaskOK(v, k, t) PROVE TaskOK(v2, k, t)
  <2>1. t.m \in IDs /\ t.m <= v.created
    BY <1>5 DEF Task, TaskOK
  <2>2. t.m <= v2.created
    BY <1>0, <2>1
  <2>3. ASSUME k = "lfs", v2.mirrors[t.m] # NoRow PROVE LfsReady(v2, v2.mirrors[t.m].repo)
    <3>1. v.mirrors[t.m] # NoRow /\ v2.mirrors[t.m].repo = v.mirrors[t.m].repo
      BY <2>1, <2>3 DEF Forward
    <3>2. v.mirrors[t.m] \in MRow
      BY <2>1, <3>1 DEF View
    <3>3. v.mirrors[t.m].repo \in Repos /\ LfsReady(v, v.mirrors[t.m].repo)
      BY <1>5, <2>3, <3>1, <3>2 DEF MRow, TaskOK
    <3> QED BY <1>1, <3>1, <3>3
  <2> QED BY <2>2, <2>3 DEF TaskOK
<1> QED BY <1>1, <1>2, <1>3, <1>4, <1>5

LEMMA CarryProcesses ==
  ASSUME NEW v \in View, NEW v2 \in View, Forward(v, v2)
  PROVE  /\ \A s \in RepoState : RepoOK(v, s) => RepoOK(v2, s)
         /\ \A s \in LfsState : LfsOK(v, s) => LfsOK(v2, s)
         /\ \A s \in ClientState : ClientOK(v, s) => ClientOK(v2, s)
         /\ \A e \in EnqState : EnqOK(v, e) => EnqOK(v2, e)
<1>1. ASSUME NEW s \in RepoState, RepoOK(v, s) PROVE RepoOK(v2, s)
  <2> SUFFICES ASSUME s.pc # "idle" PROVE RepoOK(v2, s)
    BY DEF RepoOK
  <2>1. s \in Starting \cup Going
    BY IdlePc DEF RepoState
  <2>2. s.t.m \in IDs /\ s.row \in MRow /\ s.row.repo \in Repos /\ s.repo \in RRow \cup {NoRepo}
    BY <2>1 DEF Starting, Going, Task, MRow
  <2>3. RowOf(v2, s.t.m, s.row) /\ Honest(v2, s.row)
    BY <1>1, <2>2, CarryRows DEF RepoOK
  <2>4. s.repo # NoRepo => HonestRepo(v2, s.row.repo, s.repo)
    BY <1>1, <2>2, CarryRows DEF RepoOK
  <2>5. Fetched(v, s.row.repo) => Fetched(v2, s.row.repo)
    BY <2>2 DEF Forward
  <2>6. LfsReady(v, s.row.repo) => LfsReady(v2, s.row.repo)
    BY <2>2, CarryRows
  <2> QED BY <1>1, <2>3, <2>4, <2>5, <2>6 DEF RepoOK
<1>2. ASSUME NEW s \in LfsState, LfsOK(v, s) PROVE LfsOK(v2, s)
  <2> SUFFICES ASSUME s.pc # "idle" PROVE LfsOK(v2, s)
    BY DEF LfsOK
  <2>1. s \in Fetching
    BY IdlePc DEF LfsState
  <2>2. s.m \in IDs /\ s.row \in MRow /\ s.row.repo \in Repos /\ s.repo \in RRow
    BY <2>1 DEF Fetching, MRow
  <2> QED BY <1>2, <2>2, CarryRows DEF LfsOK
<1>3. ASSUME NEW s \in ClientState, ClientOK(v, s) PROVE ClientOK(v2, s)
  <2>1. s.pc \in {"insert", "push", "save"} => s.r \in Repos /\ s.row \in MRow /\ s.repo \in RRow
    BY IdlePc DEF ClientState, Inserter, Holder, Editor, Dropper
  <2>2. s.pc \in {"push", "save"} => s.m \in IDs
    BY IdlePc DEF ClientState, Inserter, Holder, Editor, Dropper
  <2>3. s.pc = "saverepo" => s.r \in Repos /\ s.repo \in RRow
    BY IdlePc DEF ClientState, Inserter, Holder, Editor, Dropper
  <2> QED BY <1>3, <2>1, <2>2, <2>3, CarryRows DEF ClientOK
<1>4. ASSUME NEW e \in EnqState, EnqOK(v, e) PROVE EnqOK(v2, e)
  <2>1. \A x \in Copy : CopyOK(v, x) => CopyOK(v2, x)
    BY CarryRows DEF Copy, CopyOK
  <2>2. e.todo \subseteq Copy /\ (e.pc = "save" => e.cur \in Copy)
    BY DEF EnqState, Lister, Saver
  <2> QED BY <1>4, <2>1, <2>2 DEF EnqOK
<1> QED BY <1>1, <1>2, <1>3, <1>4

LEMMA NowTyped == ASSUME Typed PROVE now \in View
BY DEF Typed, TypedTables, View, now

LEMMA NowIs ==
  /\ now.mirrors = mirrors /\ now.created = created /\ now.git = git /\ now.meta = meta
  /\ now'.mirrors = mirrors' /\ now'.created = created' /\ now'.git = git' /\ now'.meta = meta'
BY DEF now

\* A step keeps TrueInv when the tables move forward and stay true, and every
\* queue and process that changes is true of the new tables.
LEMMA TrueStep ==
  ASSUME Typed, Typed', TrueInv, Forward(now, now'),
         \A m \in IDs : MirrorOK(now', m),
         \A r \in Repos : RepoRowOK(now', r, repos'[r]),
         \A k \in Kinds : \A t \in queues'[k] : t \in queues[k] \/ TaskOK(now', k, t),
         \A k \in Kinds : held'[k] \in {NoTask, held[k]} \cup queues[k],
         \A w \in RepoWorkers : rw'[w] \in {Idle, rw[w]} \/ RepoOK(now', rw'[w]),
         \A w \in LfsWorkers : lw'[w] \in {Idle, lw[w]} \/ LfsOK(now', lw'[w]),
         \A c \in Clients : cl'[c] \in {Idle, cl[c]} \/ ClientOK(now', cl'[c]),
         enq' = enq \/ EnqOK(now', enq')
  PROVE  TrueInv'
<1>0. now \in View /\ now' \in View
  <2>1. now \in View
    BY NowTyped
  <2>2. now' \in View
    BY DEF Typed, TypedTables, View, now
  <2> QED BY <2>1, <2>2
<1>1. /\ \A k \in Kinds : queues[k] \subseteq Task /\ held[k] \in Task \cup {NoTask}
      /\ \A w \in RepoWorkers : rw[w] \in RepoState
      /\ \A w \in LfsWorkers : lw[w] \in LfsState
      /\ \A c \in Clients : cl[c] \in ClientState
      /\ enq \in EnqState
  BY DEF Typed, TypedTables, TypedProcesses
<1>2. ASSUME NEW k \in Kinds, NEW t \in queues'[k] PROVE TaskOK(now', k, t)
  <2>1. t \in queues[k] => TaskOK(now, k, t) /\ t \in Task
    BY <1>1 DEF TrueInv
  <2> QED BY <1>0, <2>1, CarryRows
<1>3. ASSUME NEW k \in Kinds, held'[k] # NoTask PROVE TaskOK(now', k, held'[k])
  <2>1. held'[k] \in {held[k]} \cup queues[k]
    BY <1>3
  <2>2. held'[k] \in Task /\ TaskOK(now, k, held'[k])
    BY <1>1, <1>3, <2>1 DEF TrueInv
  <2> QED BY <1>0, <2>2, CarryRows
<1>4. ASSUME NEW w \in RepoWorkers PROVE RepoOK(now', rw'[w])
  <2>1. rw[w] \in RepoState /\ RepoOK(now, rw[w])
    BY <1>1 DEF TrueInv
  <2>2. RepoOK(now', rw[w])
    BY <1>0, <2>1, CarryProcesses
  <2>3. RepoOK(now', Idle)
    BY IdlePc DEF RepoOK
  <2> QED BY <2>2, <2>3
<1>5. ASSUME NEW w \in LfsWorkers PROVE LfsOK(now', lw'[w])
  <2>1. lw[w] \in LfsState /\ LfsOK(now, lw[w])
    BY <1>1 DEF TrueInv
  <2>2. LfsOK(now', lw[w])
    BY <1>0, <2>1, CarryProcesses
  <2>3. LfsOK(now', Idle)
    BY IdlePc DEF LfsOK
  <2> QED BY <2>2, <2>3
<1>6. ASSUME NEW c \in Clients PROVE ClientOK(now', cl'[c])
  <2>1. cl[c] \in ClientState /\ ClientOK(now, cl[c])
    BY <1>1 DEF TrueInv
  <2>2. ClientOK(now', cl[c])
    BY <1>0, <2>1, CarryProcesses
  <2>3. ClientOK(now', Idle)
    BY IdlePc DEF ClientOK
  <2> QED BY <2>2, <2>3
<1>7. EnqOK(now', enq')
  <2>1. EnqOK(now, enq)
    BY DEF TrueInv
  <2> QED BY <1>0, <1>1, <2>1, CarryProcesses
<1> QED BY <1>2, <1>3, <1>4, <1>5, <1>6, <1>7 DEF TrueInv

\* What a step may do to the tables.
RowsWritten ==
  \/ mirrors' = mirrors /\ created' = created
  \/ created' = created /\ \E m \in IDs : mirrors' = [mirrors EXCEPT ![m] = NoRow]
  \/ /\ created' = created
     /\ \E m \in IDs : \E row \in MRow :
          /\ mirrors[m] # NoRow /\ RowOf(now, m, row) /\ Honest(now, row)
          /\ mirrors' = [mirrors EXCEPT ![m] = row]
  \/ /\ created < MaxMirrors /\ created' = created + 1
     /\ \E row \in MRow : Honest(now, row) /\ mirrors' = [mirrors EXCEPT ![created + 1] = row]

ReposWritten ==
  \/ repos' = repos
  \/ \E r \in Repos : repos' = [repos EXCEPT ![r] = NoRepo]
  \/ \E r \in Repos : \E rec \in RRow :
       HonestRepo(now, r, rec) /\ repos' = [repos EXCEPT ![r] = rec]

GitMoves ==
  \A r \in Repos : /\ Fetched(now, r) => Fetched(now', r)
                   /\ meta'[r] \in {meta[r], Pointers[r]}

LEMMA TablesKept ==
  ASSUME Typed, Typed', TrueInv, RowsWritten, ReposWritten, GitMoves
  PROVE  /\ Forward(now, now')
         /\ \A m \in IDs : MirrorOK(now', m)
         /\ \A r \in Repos : RepoRowOK(now', r, repos'[r])
<1>0. /\ mirrors \in [IDs -> MRow \cup {NoRow}] /\ repos \in [Repos -> RRow \cup {NoRepo}]
      /\ created \in Nat /\ MaxMirrors \in Nat /\ IDs = 1..MaxMirrors /\ created \in 0..MaxMirrors
  BY MirrorAssumption DEF Typed, TypedTables, IDs
<1>1. \A row \in MRow : Honest(now, row) => Honest(now', row)
  BY NowIs DEF GitMoves, Honest, LfsReady, MRow
<1>2. \A r \in Repos : \A rec : HonestRepo(now, r, rec) => HonestRepo(now', r, rec)
  BY DEF GitMoves, HonestRepo
<1>3. created <= created' /\ created' \in Nat
  BY <1>0 DEF RowsWritten
<1>4. ASSUME NEW m \in IDs, mirrors'[m] # NoRow
      PROVE  /\ m <= created => mirrors[m] # NoRow /\ mirrors'[m].repo = mirrors[m].repo
             /\ m <= created' /\ Honest(now', mirrors'[m])
  <2>1. MirrorOK(now, m) /\ (mirrors[m] # NoRow => mirrors[m] \in MRow) /\ m \in Nat
    BY <1>0 DEF TrueInv
  <2>2. mirrors[m] # NoRow => m <= created /\ m <= created' /\ Honest(now', mirrors[m])
    BY <1>0, <1>1, <1>3, <2>1, NowIs DEF MirrorOK
  <2>3. CASE mirrors'[m] = mirrors[m]
    BY <1>4, <2>2, <2>3
  <2>4. CASE /\ created' = created
             /\ \E row \in MRow : /\ mirrors[m] # NoRow /\ RowOf(now, m, row) /\ Honest(now, row)
                                  /\ mirrors'[m] = row
    BY <1>1, <2>2, <2>4, NowIs DEF RowOf
  <2>5. CASE m = created + 1 /\ created' = created + 1
             /\ \E row \in MRow : Honest(now, row) /\ mirrors'[m] = row
    BY <1>0, <1>1, <2>5
  <2>6. mirrors'[m] = mirrors[m] \/ <2>4!1 \/ <2>5!1
    BY <1>0, <1>4 DEF RowsWritten
  <2> QED BY <2>3, <2>4, <2>5, <2>6
<1>5. Forward(now, now')
  BY <1>3, <1>4, NowIs DEF Forward, GitMoves
<1>6. \A m \in IDs : MirrorOK(now', m)
  BY <1>4, NowIs DEF MirrorOK
<1>7. ASSUME NEW r \in Repos PROVE RepoRowOK(now', r, repos'[r])
  <2>1. RepoRowOK(now, r, repos[r])
    BY DEF TrueInv
  <2>2. now'.meta[r] \in {{}, Pointers[r]}
    BY <2>1, NowIs DEF GitMoves, RepoRowOK
  <2>3. repos'[r] # NoRepo => HonestRepo(now', r, repos'[r])
    <3>1. repos'[r] \in {repos[r], NoRepo} \/ HonestRepo(now, r, repos'[r])
      BY <1>0 DEF ReposWritten
    <3> QED BY <1>2, <2>1, <3>1 DEF RepoRowOK
  <2> QED BY <2>2, <2>3 DEF RepoRowOK
<1> QED BY <1>5, <1>6, <1>7

\* A row written only if it is there, and a repository likewise.
LEMMA WriteRow ==
  ASSUME Typed, NEW m \in IDs, NEW row \in MRow, RowOf(now, m, row), Honest(now, row),
         created' = created,
         \/ mirrors' = mirrors
         \/ Update(m, row)
         \/ mirrors' = [mirrors EXCEPT ![m] = IF @ = NoRow THEN NoRow ELSE row]
  PROVE  RowsWritten
<1>0. mirrors \in [IDs -> MRow \cup {NoRow}]
  BY DEF Typed, TypedTables
<1>1. mirrors' = mirrors \/ (mirrors[m] # NoRow /\ mirrors' = [mirrors EXCEPT ![m] = row])
  <2>1. CASE mirrors[m] = NoRow
    BY <1>0, <2>1 DEF Update
  <2>2. CASE mirrors[m] # NoRow
    BY <1>0, <2>2 DEF Update
  <2> QED BY <2>1, <2>2
<1> QED BY <1>1 DEF RowsWritten

LEMMA WriteRepo ==
  ASSUME Typed, NEW r \in Repos, NEW rec \in RRow, HonestRepo(now, r, rec),
         repos' = repos \/ UpdateRepo(r, rec)
  PROVE  ReposWritten
<1>0. repos \in [Repos -> RRow \cup {NoRepo}]
  BY DEF Typed, TypedTables
<1>1. repos' = repos \/ (repos[r] # NoRepo /\ repos' = [repos EXCEPT ![r] = rec])
  <2>1. CASE repos[r] = NoRepo
    BY <1>0, <2>1 DEF UpdateRepo
  <2>2. CASE repos[r] # NoRepo
    BY <1>0, <2>2 DEF UpdateRepo
  <2> QED BY <2>1, <2>2
<1> QED BY <1>1 DEF ReposWritten

LEMMA SameTables ==
  /\ mirrors' = mirrors /\ created' = created => RowsWritten
  /\ repos' = repos => ReposWritten
  /\ git' = git /\ meta' = meta => GitMoves
BY NowIs DEF RowsWritten, ReposWritten, GitMoves, Fetched

\* A changed row is of the same mirror, and honest in any status that claims nothing.
LEMMA ChangedRow ==
  ASSUME NEW v \in View, NEW row \in MRow
  PROVE  /\ \A s \in Status : LET new == [row EXCEPT !.st = s] IN
              /\ new.repo = row.repo /\ new.st = s
              /\ s \notin {"repo_synced", "finished"} => Honest(v, new)
              /\ \A m \in IDs : RowOf(v, m, row) => RowOf(v, m, new)
         /\ LET new == [row EXCEPT !.st = "running", !.prio = 1] IN
              /\ new.repo = row.repo /\ new.st = "running" /\ Honest(v, new)
              /\ \A m \in IDs : RowOf(v, m, row) => RowOf(v, m, new)
         /\ LET new == [row EXCEPT !.prio = 3] IN
              /\ new.repo = row.repo /\ (Honest(v, row) => Honest(v, new))
              /\ \A m \in IDs : RowOf(v, m, row) => RowOf(v, m, new)
         /\ LET new == [row EXCEPT !.edit = @ + 1] IN
              /\ new.repo = row.repo /\ (Honest(v, row) => Honest(v, new))
              /\ \A m \in IDs : RowOf(v, m, row) => RowOf(v, m, new)
<1>1. ASSUME NEW new \in MRow, new.repo = row.repo
      PROVE  /\ new.st \notin {"repo_synced", "finished"} => Honest(v, new)
             /\ new.st = row.st /\ Honest(v, row) => Honest(v, new)
             /\ \A m \in IDs : RowOf(v, m, row) => RowOf(v, m, new)
  BY <1>1 DEF Honest, RowOf
<1>2. ASSUME NEW s \in Status
      PROVE  LET new == [row EXCEPT !.st = s] IN
               /\ new.repo = row.repo /\ new.st = s
               /\ s \notin {"repo_synced", "finished"} => Honest(v, new)
               /\ \A m \in IDs : RowOf(v, m, row) => RowOf(v, m, new)
  <2> DEFINE new == [row EXCEPT !.st = s]
  <2>1. new \in MRow /\ new.repo = row.repo /\ new.st = s
    BY DEF MRow
  <2> HIDE DEF new
  <2>2. /\ new.repo = row.repo /\ new.st = s
        /\ s \notin {"repo_synced", "finished"} => Honest(v, new)
        /\ \A m \in IDs : RowOf(v, m, row) => RowOf(v, m, new)
    BY <1>1, <2>1
  <2> QED BY <2>2 DEF new
<1>3. LET new == [row EXCEPT !.st = "running", !.prio = 1] IN
        /\ new.repo = row.repo /\ new.st = "running" /\ Honest(v, new)
        /\ \A m \in IDs : RowOf(v, m, row) => RowOf(v, m, new)
  <2> DEFINE new == [row EXCEPT !.st = "running", !.prio = 1]
  <2>1. new \in MRow /\ new.repo = row.repo /\ new.st = "running"
    <3>1. "running" \in Status /\ 1 \in 0..3
      BY DEF Status
    <3> QED BY <3>1 DEF MRow
  <2> HIDE DEF new
  <2>2. /\ new.repo = row.repo /\ new.st = "running" /\ Honest(v, new)
        /\ \A m \in IDs : RowOf(v, m, row) => RowOf(v, m, new)
    BY <1>1, <2>1
  <2> QED BY <2>2 DEF new
<1>4. LET new == [row EXCEPT !.prio = 3] IN
        /\ new.repo = row.repo /\ (Honest(v, row) => Honest(v, new))
        /\ \A m \in IDs : RowOf(v, m, row) => RowOf(v, m, new)
  <2> DEFINE new == [row EXCEPT !.prio = 3]
  <2>1. new \in MRow /\ new.repo = row.repo /\ new.st = row.st
    BY DEF MRow
  <2> HIDE DEF new
  <2>2. /\ new.repo = row.repo /\ (Honest(v, row) => Honest(v, new))
        /\ \A m \in IDs : RowOf(v, m, row) => RowOf(v, m, new)
    BY <1>1, <2>1
  <2> QED BY <2>2 DEF new
<1>5. LET new == [row EXCEPT !.edit = @ + 1] IN
        /\ new.repo = row.repo /\ (Honest(v, row) => Honest(v, new))
        /\ \A m \in IDs : RowOf(v, m, row) => RowOf(v, m, new)
  <2> DEFINE new == [row EXCEPT !.edit = @ + 1]
  <2>1. new \in MRow /\ new.repo = row.repo /\ new.st = row.st
    BY DEF MRow
  <2> HIDE DEF new
  <2>2. /\ new.repo = row.repo /\ (Honest(v, row) => Honest(v, new))
        /\ \A m \in IDs : RowOf(v, m, row) => RowOf(v, m, new)
    BY <1>1, <2>1
  <2> QED BY <2>2 DEF new
<1> QED BY <1>2, <1>3, <1>4, <1>5

LEMMA RepoWorkerTrue ==
  ASSUME Typed, Typed', TrueInv, NEW w \in RepoWorkers, RepoWorker(w)
  PROVE  TrueInv'
<1> USE DEF RepoStep, RepoUnchanged
<1>n. now \in View /\ now' \in View /\ rw \in [RepoWorkers -> RepoState]
      /\ UNCHANGED <<created, lw, enq, cl>>
  <2>1. now \in View /\ rw \in [RepoWorkers -> RepoState]
    BY NowTyped DEF Typed, TypedProcesses
  <2>2. now' \in View
    BY DEF Typed, TypedTables, View, now
  <2>3. UNCHANGED <<created, lw, enq, cl>>
    BY DEF RepoWorker, ReceiveRepo, SetRunning, GitFails, MirrorSync, SetInProgress,
       generateLfsMetaObjects, PointersFail, PushLfs, SetCompleted, SaveMirror, RepoDbError, tables
  <2> QED BY <2>1, <2>2, <2>3
<1>t. ASSUME RowsWritten, ReposWritten, GitMoves,
             NEW s, rw' = [rw EXCEPT ![w] = s], s = Idle \/ RepoOK(now', s),
             \A k \in Kinds : \A t \in queues'[k] : t \in queues[k] \/ TaskOK(now', k, t),
             \A k \in Kinds : held'[k] \in {NoTask, held[k]} \cup queues[k]
      PROVE  TrueInv'
  <2>1. \A v \in RepoWorkers : rw'[v] \in {Idle, rw[v]} \/ RepoOK(now', rw'[v])
    BY <1>n, <1>t
  <2>2. \A v \in LfsWorkers : lw'[v] \in {Idle, lw[v]}
    BY <1>n
  <2>3. \A c \in Clients : cl'[c] \in {Idle, cl[c]}
    BY <1>n
  <2> QED BY <1>n, <1>t, <2>1, <2>2, <2>3, TablesKept, TrueStep
<1>f. ASSUME RowsWritten, ReposWritten, GitMoves PROVE RepoOK(now', rw[w])
  <2>1. Forward(now, now')
    BY <1>f, TablesKept
  <2>2. rw[w] \in RepoState /\ RepoOK(now, rw[w])
    BY <1>n DEF TrueInv
  <2> QED BY <1>n, <2>1, <2>2, CarryProcesses
<1>o. rw[w].pc # "idle" =>
        /\ rw[w].row \in MRow /\ rw[w].t.m \in IDs /\ rw[w].row.repo \in Repos
        /\ RowOf(now, rw[w].t.m, rw[w].row) /\ Honest(now, rw[w].row)
        /\ rw[w].repo # NoRepo => HonestRepo(now, rw[w].row.repo, rw[w].repo)
  <2>1. RepoOK(now, rw[w])
    BY DEF TrueInv
  <2> QED BY <2>1, RepoFields DEF RepoOK
<1>s. {"running", "failed", "incomplete", "repo_synced", "finished", "waiting"} \subseteq Status
      /\ {"inprogress", "completed", "failed"} \subseteq SyncStatus
  BY DEF Status, SyncStatus
<1>q. ASSUME UNCHANGED <<queues, held>>
      PROVE  /\ \A k \in Kinds : \A t \in queues'[k] : t \in queues[k] \/ TaskOK(now', k, t)
             /\ \A k \in Kinds : held'[k] \in {NoTask, held[k]} \cup queues[k]
  BY <1>q
<1>h. ASSUME UNCHANGED held PROVE \A k \in Kinds : held'[k] \in {NoTask, held[k]} \cup queues[k]
  BY <1>h
<1>1. CASE ReceiveRepo(w)
  <2> DEFINE t == held["repo"]
             s == [pc |-> "run", t |-> t, row |-> mirrors[t.m], repo |-> repos[mirrors[t.m].repo]]
  <2>1. UNCHANGED <<mirrors, created, git, meta, repos, queues>> /\ t # NoTask
        /\ held' = [held EXCEPT !["repo"] = NoTask]
    BY <1>1 DEF ReceiveRepo, tables
  <2>2. RowsWritten /\ ReposWritten /\ GitMoves /\ now' = now
    BY <2>1, SameTables DEF now
  <2>3. \A k \in Kinds : held'[k] \in {NoTask, held[k]} \cup queues[k]
    BY <2>1 DEF Typed, TypedProcesses
  <2>4. CASE mirrors[t.m] = NoRow
    <3>1. rw' = [rw EXCEPT ![w] = Idle]
      BY <1>1, <2>4 DEF ReceiveRepo
    <3> HIDE DEF t
    <3> QED BY <1>t, <2>1, <2>2, <2>3, <3>1
  <2>5. CASE mirrors[t.m] # NoRow
    <3>1. rw' = [rw EXCEPT ![w] = s]
      BY <1>1, <2>5 DEF ReceiveRepo
    <3>2. "repo" \in Kinds /\ t \in Task
      BY <2>1 DEF Kinds, Typed, TypedProcesses
    <3>3. t.m \in IDs /\ TaskOK(now, "repo", t)
      BY <2>1, <3>2 DEF Task, TrueInv
    <3>4. mirrors[t.m] \in MRow /\ mirrors[t.m].repo \in Repos
      BY <2>5, <3>3 DEF Typed, TypedTables, MRow
    <3>5. MirrorOK(now, t.m) /\ RepoRowOK(now, mirrors[t.m].repo, repos[mirrors[t.m].repo])
      BY <3>3, <3>4 DEF TrueInv
    <3>6. RowOf(now, t.m, mirrors[t.m]) /\ Honest(now, mirrors[t.m])
      BY <2>5, <3>5, NowIs DEF MirrorOK, RowOf
    <3>7. s.repo # NoRepo => HonestRepo(now, mirrors[t.m].repo, s.repo)
      BY <3>5 DEF RepoRowOK
    <3>8. s.pc = "run" /\ s.t = t /\ s.row = mirrors[t.m]
      OBVIOUS
    <3> HIDE DEF s, t
    <3>9. RepoOK(now', s)
      BY <2>2, <3>6, <3>7, <3>8 DEF RepoOK
    <3> QED BY <1>t, <2>1, <2>2, <2>3, <3>1, <3>9
  <2> QED BY <2>4, <2>5
<1>2. CASE SetRunning(w)
  <2> DEFINE row == [rw[w].row EXCEPT !.st = "running", !.prio = 1]
             s == [rw[w] EXCEPT !.pc = "fetch", !.row = row]
  <2>0. rw[w].pc = "run" /\ UNCHANGED <<repos, git, meta, queues, held>>
    BY <1>2 DEF SetRunning
  <2>1. row \in MRow
    <3>1. 1 \in 0..3
      OBVIOUS
    <3> QED BY <1>o, <1>s, <2>0, <3>1, RowTypes
  <2>2. row.repo = rw[w].row.repo /\ row.st = "running" /\ Honest(now, row) /\ Honest(now', row)
        /\ RowOf(now, rw[w].t.m, row)
    BY <1>n, <1>o, <2>0, ChangedRow
  <2>3. mirrors' = mirrors \/ Update(rw[w].t.m, row)
    BY <1>2 DEF SetRunning
  <2>4. RowsWritten
    <3> HIDE DEF row
    <3> QED BY <1>n, <1>o, <2>0, <2>1, <2>2, <2>3, WriteRow
  <2>5. ReposWritten /\ GitMoves
    BY <2>0, SameTables
  <2>6. CASE rw' = [rw EXCEPT ![w] = Idle]
    BY <1>t, <1>q, <2>0, <2>4, <2>5, <2>6
  <2>7. CASE rw' = [rw EXCEPT ![w] = s]
    <3>1. RepoOK(now', rw[w]) /\ rw[w] \in Starting
      BY <1>f, <2>0, <2>4, <2>5, RepoFields
    <3>2. s.pc = "fetch" /\ s.t = rw[w].t /\ s.row = row /\ s.repo = rw[w].repo
      BY <3>1 DEF Starting
    <3>3. RowOf(now', s.t.m, row)
      BY <2>2, <3>1, <3>2, <2>0 DEF RepoOK, RowOf
    <3> HIDE DEF s, row
    <3>4. RepoOK(now', s)
      BY <2>0, <2>2, <3>1, <3>2, <3>3 DEF RepoOK
    <3> QED BY <1>t, <1>q, <2>0, <2>4, <2>5, <2>7, <3>4
  <2> QED BY <1>2, <2>6, <2>7 DEF SetRunning
<1>3. CASE GitFails(w)
  <2> DEFINE row == [rw[w].row EXCEPT !.st = "failed"]
  <2>1. row \in MRow /\ Honest(now, row) /\ RowOf(now, rw[w].t.m, row)
    BY <1>n, <1>o, <1>s, <1>3, RowTypes, ChangedRow DEF GitFails
  <2>2. mirrors' = mirrors \/ Update(rw[w].t.m, row)
    BY <1>3 DEF GitFails
  <2>3. RowsWritten
    <3> HIDE DEF row
    <3> QED BY <1>n, <1>o, <1>3, <2>1, <2>2, WriteRow DEF GitFails
  <2>4. ReposWritten /\ GitMoves /\ UNCHANGED <<queues, held>>
    BY <1>3, SameTables DEF GitFails
  <2> QED BY <1>t, <1>q, <1>3, <2>3, <2>4 DEF GitFails
<1>4. CASE MirrorSync(w)
  <2> DEFINE s == [rw[w] EXCEPT !.pc = "info"]
             r == rw[w].row.repo
  <2>0. rw[w].pc = "fetch" /\ rw' = [rw EXCEPT ![w] = s] /\ Has(r)
        /\ git' = [git EXCEPT ![r] = "fetched"] /\ UNCHANGED <<mirrors, repos, meta, queues, held>>
    BY <1>4 DEF MirrorSync
  <2>1. RowsWritten /\ ReposWritten
    BY <1>n, <2>0, SameTables
  <2>2. git \in [Repos -> {"none", "empty", "fetched", "gone"}]
    BY DEF Typed, TypedTables
  <2>3. GitMoves /\ Fetched(now', r)
    BY <1>o, <2>0, <2>2, NowIs DEF GitMoves, Fetched
  <2>4. RepoOK(now', rw[w]) /\ rw[w] \in Going
    BY <1>f, <2>0, <2>1, <2>3, RepoFields
  <2>5. s.pc = "info" /\ s.t = rw[w].t /\ s.row = rw[w].row /\ s.repo = rw[w].repo
    BY <2>4 DEF Going
  <2>6. RepoOK(now', s)
    <3> HIDE DEF s
    <3> QED BY <2>0, <2>3, <2>4, <2>5 DEF RepoOK
  <2> HIDE DEF s
  <2> QED BY <1>t, <1>q, <2>0, <2>1, <2>3, <2>6
<1>5. CASE SetInProgress(w)
  <2> DEFINE rec == [rw[w].repo EXCEPT !.sync = "inprogress"]
             s == [rw[w] EXCEPT !.pc = "meta", !.repo = rec]
  <2>0. rw[w].pc = "info" /\ rw' = [rw EXCEPT ![w] = s] /\ UpdateRepo(rw[w].row.repo, rec)
        /\ UNCHANGED <<mirrors, git, meta, queues, held>>
    BY <1>5 DEF SetInProgress
  <2>1. rw[w] \in Going /\ rw[w].repo \in RRow
    BY <2>0, RepoFields
  <2>2. rec \in RRow /\ rec.sync = "inprogress"
    BY <1>s, <2>1 DEF RRow
  <2>3. s.pc = "meta" /\ s.t = rw[w].t /\ s.row = rw[w].row /\ s.repo = rec
    BY <2>1 DEF Going
  <2> HIDE DEF rec, s
  <2>4. HonestRepo(now, rw[w].row.repo, rec) /\ HonestRepo(now', rw[w].row.repo, rec)
    BY <2>2 DEF HonestRepo
  <2>5. RowsWritten /\ ReposWritten /\ GitMoves
    BY <1>n, <1>o, <2>0, <2>2, <2>4, SameTables, WriteRepo
  <2>6. RepoOK(now', rw[w])
    BY <1>f, <2>5
  <2>7. RepoOK(now', s)
    BY <2>0, <2>3, <2>4, <2>6 DEF RepoOK
  <2> QED BY <1>t, <1>q, <2>0, <2>5, <2>7
<1>6. CASE generateLfsMetaObjects(w)
  <2> DEFINE r == rw[w].row.repo
             a == [rw[w] EXCEPT !.pc = "push", !.row.st = "repo_synced"]
             b == [rw[w] EXCEPT !.pc = "complete", !.row.st = "finished"]
  <2>0. rw[w].pc = "meta" /\ meta' = [meta EXCEPT ![r] = @ \cup Pointers[r]]
        /\ UNCHANGED <<mirrors, repos, git, queues, held>>
        /\ IF Pointers[r] # {} THEN rw' = [rw EXCEPT ![w] = a] ELSE rw' = [rw EXCEPT ![w] = b]
    BY <1>6 DEF generateLfsMetaObjects, BulkUpdateOrCreate
  <2>1. rw[w] \in Going /\ r \in Repos
    BY <2>0, RepoFields
  <2>2. \A x \in Repos : meta[x] \in {{}, Pointers[x]}
    BY NowIs DEF TrueInv, RepoRowOK
  <2>3. meta'[r] = Pointers[r] /\ \A x \in Repos : x # r => meta'[x] = meta[x]
    BY <2>0, <2>1, <2>2 DEF Typed, TypedTables
  <2>4. RowsWritten /\ ReposWritten /\ GitMoves
    <3>1. GitMoves
      BY <2>0, <2>3, NowIs DEF GitMoves, Fetched
    <3> QED BY <1>n, <2>0, <3>1, SameTables
  <2>5. RepoOK(now', rw[w])
    BY <1>f, <2>4
  <2>6. a.pc = "push" /\ a.t = rw[w].t /\ a.repo = rw[w].repo /\ a.row.repo = r
        /\ a.row.st = "repo_synced" /\ b.pc = "complete" /\ b.t = rw[w].t /\ b.repo = rw[w].repo
        /\ b.row.repo = r /\ b.row.st = "finished"
    BY <2>1 DEF Going, MRow
  <2> HIDE DEF a, b, r
  <2>7. CASE Pointers[r] # {}
    <3>1. LfsReady(now', r)
      BY <2>0, <2>3, <2>5, <2>7, NowIs DEF LfsReady, RepoOK, r
    <3>2. RepoOK(now', a)
      <4>1. RowOf(now', a.t.m, a.row)
        BY <2>0, <2>5, <2>6 DEF RepoOK, RowOf, r
      <4>2. Honest(now', a.row)
        BY <2>6, <3>1 DEF Honest
      <4> QED BY <2>0, <2>5, <2>6, <3>1, <4>1, <4>2 DEF RepoOK, r
    <3> QED BY <1>t, <1>q, <2>0, <2>4, <2>7, <3>2
  <2>8. CASE Pointers[r] = {}
    <3>1. Fetched(now', r)
      BY <2>0, <2>5 DEF RepoOK, r
    <3>2. RepoOK(now', b)
      <4>1. RowOf(now', b.t.m, b.row)
        BY <2>0, <2>5, <2>6 DEF RepoOK, RowOf, r
      <4>2. Honest(now', b.row)
        BY <2>6, <3>1 DEF Honest
      <4> QED BY <2>0, <2>5, <2>6, <2>8, <3>1, <4>1, <4>2 DEF RepoOK, r
    <3> QED BY <1>t, <1>q, <2>0, <2>4, <2>8, <3>2
  <2> QED BY <2>7, <2>8
<1>7. CASE PointersFail(w)
  <2> DEFINE row == [rw[w].row EXCEPT !.st = "incomplete"]
             rec == [rw[w].repo EXCEPT !.sync = "failed"]
  <2>0. rw[w].pc = "meta" /\ rw' = [rw EXCEPT ![w] = Idle]
        /\ UpdateMirrorAndRepository(rw[w].t.m, row, rw[w].row.repo, rec)
        /\ UNCHANGED <<git, meta, queues, held>>
    BY <1>7 DEF PointersFail
  <2>1. row \in MRow /\ Honest(now, row) /\ RowOf(now, rw[w].t.m, row)
    BY <1>n, <1>o, <1>s, <2>0, RowTypes, ChangedRow
  <2>2. rec \in RRow /\ HonestRepo(now, rw[w].row.repo, rec)
    <3>1. rw[w].repo \in RRow
      BY <2>0, RepoFields
    <3>2. rec \in RRow /\ rec.sync = "failed"
      BY <1>s, <3>1 DEF RRow
    <3> QED BY <3>2 DEF HonestRepo
  <2> HIDE DEF row, rec
  <2>3. RowsWritten
    BY <1>n, <1>o, <2>0, <2>1, WriteRow DEF UpdateMirrorAndRepository
  <2>4. ReposWritten
    BY <1>o, <2>0, <2>2, WriteRepo DEF UpdateMirrorAndRepository
  <2>5. GitMoves
    BY <2>0, SameTables
  <2> QED BY <1>t, <1>q, <2>0, <2>3, <2>4, <2>5
<1>8. CASE PushLfs(w)
  <2> DEFINE s == [rw[w] EXCEPT !.pc = "save"]
             t == [rw[w].t EXCEPT !.prio = rw[w].row.prio]
  <2>0. rw[w].pc = "push" /\ rw' = [rw EXCEPT ![w] = s] /\ (Push("lfs", t) \/ UNCHANGED queues)
        /\ UNCHANGED <<mirrors, repos, git, meta, held>>
    BY <1>8 DEF PushLfs
  <2>1. RowsWritten /\ ReposWritten /\ GitMoves /\ now' = now
    BY <1>n, <2>0, SameTables DEF now
  <2>2. RepoOK(now', rw[w]) /\ rw[w] \in Going /\ rw[w].t \in Task
    BY <1>f, <2>0, <2>1, RepoFields
  <2>3. s.pc = "save" /\ s.t = rw[w].t /\ s.row = rw[w].row /\ s.repo = rw[w].repo
        /\ t.m = rw[w].t.m
    BY <2>2 DEF Going, Task
  <2> HIDE DEF s, t
  <2>4. RepoOK(now', s)
    BY <2>0, <2>2, <2>3 DEF RepoOK
  <2>5. TaskOK(now', "lfs", t)
    BY <2>0, <2>2, <2>3 DEF RepoOK, RowOf, TaskOK
  <2>6. \A k \in Kinds : \A u \in queues'[k] : u \in queues[k] \/ TaskOK(now', k, u)
    BY <2>0, <2>5 DEF Push, Typed, TypedTables
  <2> QED BY <1>t, <1>h, <2>0, <2>1, <2>4, <2>6
<1>9. CASE SetCompleted(w)
  <2> DEFINE rec == [rw[w].repo EXCEPT !.sync = "completed"]
             s == [rw[w] EXCEPT !.pc = "save"]
  <2>0. rw[w].pc = "complete" /\ rw' = [rw EXCEPT ![w] = s] /\ UpdateRepo(rw[w].row.repo, rec)
        /\ UNCHANGED <<mirrors, git, meta, queues, held>>
    BY <1>9 DEF SetCompleted
  <2>1. rw[w] \in Going /\ rw[w].repo \in RRow
    BY <2>0, RepoFields
  <2>2. rec \in RRow /\ HonestRepo(now, rw[w].row.repo, rec)
    <3>1. rec \in RRow
      BY <1>s, <2>1 DEF RRow
    <3>2. RepoOK(now, rw[w])
      BY DEF TrueInv
    <3> HIDE DEF rec
    <3> QED BY <2>0, <3>1, <3>2 DEF HonestRepo, RepoOK
  <2>3. s.pc = "save" /\ s.t = rw[w].t /\ s.row = rw[w].row /\ s.repo = rw[w].repo
    BY <2>1 DEF Going
  <2> HIDE DEF rec, s
  <2>4. RowsWritten /\ ReposWritten /\ GitMoves
    BY <1>n, <1>o, <2>0, <2>2, SameTables, WriteRepo
  <2>5. RepoOK(now', rw[w])
    BY <1>f, <2>4
  <2>6. RepoOK(now', s)
    BY <2>0, <2>3, <2>5 DEF RepoOK
  <2> QED BY <1>t, <1>q, <2>0, <2>4, <2>6
<1>10. CASE SaveMirror(w)
  <2>1. rw[w].pc # "idle" /\ rw' = [rw EXCEPT ![w] = Idle] /\ UNCHANGED <<repos, git, meta, queues, held>>
        /\ (mirrors' = mirrors \/ Update(rw[w].t.m, rw[w].row))
    BY <1>10 DEF SaveMirror
  <2>2. RowsWritten
    BY <1>n, <1>o, <2>1, WriteRow
  <2> QED BY <1>t, <1>q, <2>1, <2>2, SameTables
<1>11. CASE RepoDbError(w)
  <2>1. rw' = [rw EXCEPT ![w] = Idle] /\ UNCHANGED <<mirrors, repos, git, meta, queues, held>>
    BY <1>11 DEF RepoDbError
  <2> QED BY <1>n, <1>t, <1>q, <2>1, SameTables
<1> QED BY <1>1, <1>2, <1>3, <1>4, <1>5, <1>6, <1>7, <1>8, <1>9, <1>10, <1>11 DEF RepoWorker

LEMMA LfsWorkerTrue ==
  ASSUME Typed, Typed', TrueInv, NEW w \in LfsWorkers, LfsWorker(w)
  PROVE  TrueInv'
<1> USE DEF LfsStep, LfsUnchanged, At
<1>n. now \in View /\ now' \in View /\ lw \in [LfsWorkers -> LfsState]
      /\ UNCHANGED <<created, rw, enq, cl>> /\ UNCHANGED <<git, meta, queues>>
  <2>1. now \in View /\ lw \in [LfsWorkers -> LfsState]
    BY NowTyped DEF Typed, TypedProcesses
  <2>2. now' \in View
    BY DEF Typed, TypedTables, View, now
  <2>3. UNCHANGED <<created, rw, enq, cl, git, meta, queues>>
    BY DEF LfsWorker, ReceiveLfs, GetLFSDownloadURLs, StatObject, DownloadAndUploadLFSFile,
       UpdateProgress, SetFinished, SaveCompleted, LfsError, SyncLfsFailed, Recover, tables
  <2> QED BY <2>1, <2>2, <2>3
<1>m. GitMoves /\ (mirrors' = mirrors => RowsWritten) /\ (repos' = repos => ReposWritten)
  BY <1>n, SameTables
<1>t. ASSUME RowsWritten, ReposWritten,
             NEW s, lw' = [lw EXCEPT ![w] = s], s = Idle \/ LfsOK(now', s),
             held' = held \/ held' = [held EXCEPT !["lfs"] = NoTask]
      PROVE  TrueInv'
  <2>1. \A v \in LfsWorkers : lw'[v] \in {Idle, lw[v]} \/ LfsOK(now', lw'[v])
    BY <1>n, <1>t
  <2>2. \A v \in RepoWorkers : rw'[v] \in {Idle, rw[v]}
    BY <1>n
  <2>3. \A c \in Clients : cl'[c] \in {Idle, cl[c]}
    BY <1>n
  <2>4. \A k \in Kinds : held'[k] \in {NoTask, held[k]} \cup queues[k]
    BY <1>t DEF Typed, TypedProcesses
  <2>5. \A k \in Kinds : \A t \in queues'[k] : t \in queues[k]
    BY <1>n
  <2> QED BY <1>m, <1>n, <1>t, <2>1, <2>2, <2>3, <2>4, <2>5, TablesKept, TrueStep
<1>f. ASSUME RowsWritten, ReposWritten PROVE LfsOK(now', lw[w])
  <2>1. Forward(now, now')
    BY <1>f, <1>m, TablesKept
  <2>2. lw[w] \in LfsState /\ LfsOK(now, lw[w])
    BY <1>n DEF TrueInv
  <2> QED BY <1>n, <2>1, <2>2, CarryProcesses
<1>o. lw[w].pc # "idle" =>
        /\ lw[w] \in Fetching /\ lw[w].row \in MRow /\ lw[w].m \in IDs /\ lw[w].row.repo \in Repos
        /\ lw[w].repo \in RRow
        /\ RowOf(now, lw[w].m, lw[w].row) /\ Honest(now, lw[w].row)
        /\ HonestRepo(now, lw[w].row.repo, lw[w].repo) /\ LfsReady(now, lw[w].row.repo)
  <2>1. LfsOK(now, lw[w])
    BY DEF TrueInv
  <2> QED BY <2>1, LfsFields DEF LfsOK

\* The same row and repository at another label.
<1>e. ASSUME RowsWritten, ReposWritten, lw[w].pc # "idle",
             NEW s, s.m = lw[w].m, s.row = lw[w].row, s.repo = lw[w].repo,
             s.pc = "complete" => s.row.st = "finished"
      PROVE  LfsOK(now', s)
  BY <1>e, <1>f DEF LfsOK
<1>s. "finished" \in Status /\ {"completed", "failed"} \subseteq SyncStatus
  BY DEF Status, SyncStatus
<1>1. CASE ReceiveLfs(w)
  <2> DEFINE m == held["lfs"].m
             s == [pc |-> "list", m |-> m, row |-> mirrors[m], repo |-> repos[mirrors[m].repo],
                   todo |-> {}, cur |-> {}]
  <2>1. UNCHANGED <<mirrors, created, git, meta, repos, queues>> /\ held["lfs"] # NoTask
        /\ held' = [held EXCEPT !["lfs"] = NoTask]
    BY <1>1 DEF ReceiveLfs, tables
  <2>2. RowsWritten /\ ReposWritten /\ now' = now
    BY <2>1, SameTables DEF now
  <2>4. CASE mirrors[m] = NoRow \/ repos[mirrors[m].repo] = NoRepo
    <3>1. lw' = [lw EXCEPT ![w] = Idle]
      BY <1>1, <2>4 DEF ReceiveLfs
    <3> HIDE DEF m
    <3> QED BY <1>t, <2>1, <2>2, <3>1
  <2>5. CASE mirrors[m] # NoRow /\ repos[mirrors[m].repo] # NoRepo
    <3>1. lw' = [lw EXCEPT ![w] = s]
      BY <1>1, <2>5 DEF ReceiveLfs
    <3>2. "lfs" \in Kinds /\ held["lfs"] \in Task
      BY <2>1 DEF Kinds, Typed, TypedProcesses
    <3>3. m \in IDs /\ TaskOK(now, "lfs", held["lfs"])
      BY <2>1, <3>2 DEF Task, TrueInv
    <3>4. mirrors[m] \in MRow /\ mirrors[m].repo \in Repos
      BY <2>5, <3>3 DEF Typed, TypedTables, MRow
    <3>5. MirrorOK(now, m) /\ RepoRowOK(now, mirrors[m].repo, repos[mirrors[m].repo])
      BY <3>3, <3>4 DEF TrueInv
    <3>6. RowOf(now, m, mirrors[m]) /\ Honest(now, mirrors[m])
      BY <2>5, <3>5, NowIs DEF MirrorOK, RowOf
    <3>7. HonestRepo(now, mirrors[m].repo, s.repo)
      BY <2>5, <3>5 DEF RepoRowOK
    <3>8. LfsReady(now, mirrors[m].repo)
      BY <2>5, <3>3, NowIs DEF TaskOK
    <3>9. s.pc = "list" /\ s.m = m /\ s.row = mirrors[m]
      OBVIOUS
    <3> HIDE DEF s, m
    <3>10. LfsOK(now', s)
      BY <2>2, <3>6, <3>7, <3>8, <3>9 DEF LfsOK
    <3> QED BY <1>t, <2>1, <2>2, <3>1, <3>10
  <2> QED BY <2>4, <2>5
<1>2. CASE GetLFSDownloadURLs(w)
  <2> DEFINE objs == meta[lw[w].row.repo]
             a == [lw[w] EXCEPT !.pc = "fail"]
             b == [lw[w] EXCEPT !.pc = "loop", !.todo = objs]
  <2>0. lw[w].pc = "list" /\ UNCHANGED <<mirrors, repos, held>>
        /\ (lw' = [lw EXCEPT ![w] = a] \/ lw' = [lw EXCEPT ![w] = b])
    BY <1>2 DEF GetLFSDownloadURLs
  <2>1. RowsWritten /\ ReposWritten
    BY <1>m, <2>0
  <2>2. /\ a.pc = "fail" /\ a.m = lw[w].m /\ a.row = lw[w].row /\ a.repo = lw[w].repo
        /\ b.pc = "loop" /\ b.m = lw[w].m /\ b.row = lw[w].row /\ b.repo = lw[w].repo
    BY <1>o, <2>0 DEF Fetching
  <2> HIDE DEF a, b
  <2>3. LfsOK(now', a) /\ LfsOK(now', b)
    BY <1>e, <2>0, <2>1, <2>2
  <2> QED BY <1>t, <2>0, <2>1, <2>3
<1>3. CASE StatObject(w)
  <2>0. lw[w].pc = "loop" /\ UNCHANGED <<mirrors, repos, held>>
    BY <1>3 DEF StatObject
  <2>1. RowsWritten /\ ReposWritten
    BY <1>m, <2>0
  <2>2. PICK o \in lw[w].todo :
          LET rest == [lw[w] EXCEPT !.todo = @ \ {o}, !.cur = {o}] IN
          \/ lw' = [lw EXCEPT ![w] = [rest EXCEPT !.pc = IF o \in stored THEN "progress" ELSE "get"]]
          \/ lw' = [lw EXCEPT ![w] = [rest EXCEPT !.cur = {}]]
    BY <1>3 DEF StatObject
  <2> DEFINE rest == [lw[w] EXCEPT !.todo = @ \ {o}, !.cur = {o}]
             a == [rest EXCEPT !.pc = IF o \in stored THEN "progress" ELSE "get"]
             b == [rest EXCEPT !.cur = {}]
  <2>3. /\ a.pc # "complete" /\ a.m = lw[w].m /\ a.row = lw[w].row /\ a.repo = lw[w].repo
        /\ b.pc # "complete" /\ b.m = lw[w].m /\ b.row = lw[w].row /\ b.repo = lw[w].repo
    BY <1>o, <2>0 DEF Fetching
  <2>4. lw' = [lw EXCEPT ![w] = a] \/ lw' = [lw EXCEPT ![w] = b]
    BY <2>2
  <2> HIDE DEF a, b
  <2>5. LfsOK(now', a) /\ LfsOK(now', b)
    BY <1>e, <2>0, <2>1, <2>3
  <2> QED BY <1>t, <2>0, <2>1, <2>4, <2>5
<1>4. CASE DownloadAndUploadLFSFile(w) \/ UpdateProgress(w)
  <2>0. lw[w].pc \in {"get", "progress"} /\ UNCHANGED <<repos, held>>
        /\ (mirrors' = mirrors \/ Update(lw[w].m, lw[w].row))
    BY <1>4 DEF DownloadAndUploadLFSFile, UpdateProgress
  <2>1. RowsWritten /\ ReposWritten
    BY <1>m, <1>n, <1>o, <2>0, WriteRow
  <2>2. \E s : /\ lw' = [lw EXCEPT ![w] = s] /\ s.pc # "complete"
               /\ s.m = lw[w].m /\ s.row = lw[w].row /\ s.repo = lw[w].repo
    <3>1. \A p \in {"progress", "fail"} : LET s == [lw[w] EXCEPT !.pc = p] IN
            s.pc # "complete" /\ s.m = lw[w].m /\ s.row = lw[w].row /\ s.repo = lw[w].repo
      BY <1>o, <2>0 DEF Fetching
    <3>2. LET s == [lw[w] EXCEPT !.pc = "loop", !.cur = {}] IN
            s.pc # "complete" /\ s.m = lw[w].m /\ s.row = lw[w].row /\ s.repo = lw[w].repo
      BY <1>o, <2>0 DEF Fetching
    <3>3. \/ \E p \in {"progress", "fail"} : lw' = [lw EXCEPT ![w] = [lw[w] EXCEPT !.pc = p]]
          \/ lw' = [lw EXCEPT ![w] = [lw[w] EXCEPT !.pc = "loop", !.cur = {}]]
      BY <1>4 DEF DownloadAndUploadLFSFile, UpdateProgress
    <3> QED BY <3>1, <3>2, <3>3
  <2>3. PICK s : /\ lw' = [lw EXCEPT ![w] = s] /\ s.pc # "complete"
                 /\ s.m = lw[w].m /\ s.row = lw[w].row /\ s.repo = lw[w].repo
    BY <2>2
  <2>4. LfsOK(now', s)
    BY <1>e, <2>0, <2>1, <2>3
  <2> QED BY <1>t, <2>0, <2>1, <2>3, <2>4
<1>5. CASE SetFinished(w)
  <2> DEFINE row == [lw[w].row EXCEPT !.st = "finished"]
             a == [lw[w] EXCEPT !.pc = "fail", !.row = row]
             b == [lw[w] EXCEPT !.pc = "complete", !.row = row]
  <2>0. lw[w].pc = "loop" /\ UNCHANGED <<repos, held>>
        /\ (mirrors' = mirrors \/ Update(lw[w].m, row))
        /\ (lw' = [lw EXCEPT ![w] = a] \/ lw' = [lw EXCEPT ![w] = b])
    BY <1>5 DEF SetFinished
  <2>1. row \in MRow /\ row.repo = lw[w].row.repo /\ row.st = "finished" /\ RowOf(now, lw[w].m, row)
    <3>1. row \in MRow
      BY <1>o, <1>s, <2>0, RowTypes
    <3>2. row.repo = lw[w].row.repo /\ row.st = "finished"
      BY <1>o, <2>0 DEF MRow
    <3>3. RowOf(now, lw[w].m, row)
      <4> HIDE DEF row
      <4> QED BY <1>o, <2>0, <3>2 DEF RowOf
    <3> QED BY <3>1, <3>2, <3>3
  <2>2. /\ a.m = lw[w].m /\ a.row = row /\ a.repo = lw[w].repo
        /\ b.m = lw[w].m /\ b.row = row /\ b.repo = lw[w].repo
    BY <1>o, <2>0 DEF Fetching
  <2> HIDE DEF row, a, b
  <2>3. Honest(now, row)
    BY <1>o, <2>0, <2>1 DEF Honest, LfsReady
  <2>4. RowsWritten /\ ReposWritten
    BY <1>m, <1>n, <1>o, <2>0, <2>1, <2>3, WriteRow
  <2>5. LfsOK(now', lw[w])
    BY <1>f, <2>4
  <2>6. Honest(now', row) /\ RowOf(now', lw[w].m, row)
    BY <2>0, <2>1, <2>5 DEF Honest, LfsReady, LfsOK, RowOf
  <2>7. LfsOK(now', a) /\ LfsOK(now', b)
    BY <2>0, <2>1, <2>2, <2>5, <2>6 DEF LfsOK
  <2> QED BY <1>t, <2>0, <2>4, <2>7
<1>6. CASE SaveCompleted(w) \/ SyncLfsFailed(w)
  <2> DEFINE good == [lw[w].repo EXCEPT !.sync = "completed"]
             bad == [lw[w].repo EXCEPT !.sync = "failed"]
             s == [lw[w] EXCEPT !.pc = "panic"]
  <2>0. lw[w].pc \in {"complete", "fail"} /\ UNCHANGED held
        /\ (lw' = [lw EXCEPT ![w] = Idle] \/ lw' = [lw EXCEPT ![w] = s])
    BY <1>6 DEF SaveCompleted, SyncLfsFailed
  <2>1. good \in RRow /\ bad \in RRow /\ bad.sync = "failed"
    BY <1>o, <1>s, <2>0 DEF RRow
  <2>2. s.pc = "panic" /\ s.m = lw[w].m /\ s.row = lw[w].row /\ s.repo = lw[w].repo
    BY <1>o, <2>0 DEF Fetching
  <2>3. \/ UNCHANGED <<mirrors, repos>>
        \/ UpdateMirrorAndRepository(lw[w].m, lw[w].row, lw[w].row.repo, good)
        \/ UpdateMirrorAndRepository(lw[w].m, lw[w].row, lw[w].row.repo, bad)
    BY <1>6 DEF SaveCompleted, SyncLfsFailed
  <2> HIDE DEF good, bad, s
  <2>4. HonestRepo(now, lw[w].row.repo, good) /\ HonestRepo(now, lw[w].row.repo, bad)
    BY <1>o, <2>0, <2>1 DEF HonestRepo, LfsReady
  <2>5. mirrors' = mirrors
        \/ mirrors' = [mirrors EXCEPT ![lw[w].m] = IF @ = NoRow THEN NoRow ELSE lw[w].row]
    BY <2>3 DEF UpdateMirrorAndRepository
  <2>6. repos' = repos \/ UpdateRepo(lw[w].row.repo, good) \/ UpdateRepo(lw[w].row.repo, bad)
    BY <2>3 DEF UpdateMirrorAndRepository
  <2>7. RowsWritten
    BY <1>n, <1>o, <2>0, <2>5, WriteRow
  <2>8. ReposWritten
    BY <1>o, <2>0, <2>1, <2>4, <2>6, WriteRepo
  <2>9. LfsOK(now', s)
    BY <1>e, <2>0, <2>2, <2>7, <2>8
  <2> QED BY <1>t, <2>0, <2>7, <2>8, <2>9
<1>7. CASE LfsError(w)
  <2> DEFINE f == [lw[w] EXCEPT !.pc = "fail"]
             st == IF lw[w].pc = "loop" THEN "finished" ELSE lw[w].row.st
             s == [f EXCEPT !.row.st = st]
  <2>0. lw[w].pc # "idle" /\ lw' = [lw EXCEPT ![w] = s] /\ UNCHANGED <<mirrors, repos, held>>
    BY <1>7 DEF LfsError
  <2>1. f \in Fetching /\ f.pc = "fail" /\ f.m = lw[w].m /\ f.row = lw[w].row /\ f.repo = lw[w].repo
    BY <1>o, <2>0 DEF Fetching
  <2>2. st \in {"finished", lw[w].row.st}
    OBVIOUS
  <2>3. s.pc = "fail" /\ s.m = lw[w].m /\ s.repo = lw[w].repo /\ s.row.repo = lw[w].row.repo
        /\ s.row.st = st
    <3> HIDE DEF f, st
    <3>1. f.row \in MRow
      BY <2>1 DEF Fetching
    <3> QED BY <2>1, <3>1 DEF Fetching, MRow
  <2> HIDE DEF f, st, s
  <2>4. RowsWritten /\ ReposWritten
    BY <1>m, <2>0
  <2>5. LfsOK(now', lw[w])
    BY <1>f, <2>4
  <2>6. LfsOK(now', s)
    BY <2>0, <2>2, <2>3, <2>5 DEF LfsOK, Honest, LfsReady, RowOf
  <2> QED BY <1>t, <2>0, <2>4, <2>6
<1>8. CASE Recover(w)
  <2>1. lw' = [lw EXCEPT ![w] = Idle] /\ UNCHANGED <<mirrors, repos, held>>
    BY <1>8 DEF Recover
  <2> QED BY <1>m, <1>t, <2>1
<1> QED BY <1>1, <1>2, <1>3, <1>4, <1>5, <1>6, <1>7, <1>8 DEF LfsWorker

LEMMA QueueTrue ==
  ASSUME Typed, Typed', TrueInv, NEW k \in Kinds, dispatcher(k) \/ PopLost(k)
  PROVE  TrueInv'
<1>1. PICK t \in queues[k] : queues' = [queues EXCEPT ![k] = @ \ {t}]
                             /\ (held' = [held EXCEPT ![k] = t] \/ UNCHANGED held)
  BY DEF dispatcher, PopLost
<1>2. UNCHANGED <<mirrors, created, repos, git, meta, rw, lw, enq, cl>>
  BY DEF dispatcher, PopLost, tables
<1>3. RowsWritten /\ ReposWritten /\ GitMoves
  BY <1>2, SameTables
<1>4. \A j \in Kinds : \A u \in queues'[j] : u \in queues[j]
  BY <1>1 DEF Typed, TypedTables
<1>5. \A j \in Kinds : held'[j] \in {NoTask, held[j]} \cup queues[j]
  BY <1>1 DEF Typed, TypedProcesses
<1> QED BY <1>2, <1>3, <1>4, <1>5, TablesKept, TrueStep

LEMMA CrashTrue ==
  ASSUME Typed, Typed', TrueInv, Crash
  PROVE  TrueInv'
<1>1. UNCHANGED <<mirrors, created, repos, git, meta, queues>>
  BY DEF Crash, tables
<1>2. RowsWritten /\ ReposWritten /\ GitMoves
  BY <1>1, SameTables
<1>3. \A k \in Kinds : held'[k] \in {NoTask, held[k]} \cup queues[k]
  BY DEF Crash, Typed, TypedProcesses
<1>4. /\ \A w \in RepoWorkers : rw'[w] \in {Idle, rw[w]}
      /\ \A w \in LfsWorkers : lw'[w] \in {Idle, lw[w]}
      /\ \A c \in Clients : cl'[c] \in {Idle, cl[c]}
  BY DEF Crash
<1>5. enq' = enq \/ EnqOK(now', enq')
  <2>1. enq' = enq \/ enq' = [pc |-> "start", todo |-> {}]
    BY DEF Crash
  <2> QED BY <2>1 DEF EnqOK
<1> QED BY <1>1, <1>2, <1>3, <1>4, <1>5, TablesKept, TrueStep

LEMMA EnqueueTrue ==
  ASSUME Typed, Typed', TrueInv, Enqueue
  PROVE  TrueInv'
<1>n. now \in View /\ now' \in View /\ enq \in Lister \cup Saver /\ enq.todo \subseteq Copy
      /\ UNCHANGED <<created, repos, git, meta, held, rw, lw, cl>>
  <2>1. now \in View /\ enq \in Lister \cup Saver /\ enq.todo \subseteq Copy
    BY NowTyped DEF Typed, TypedProcesses, EnqState, Lister, Saver
  <2>2. now' \in View
    BY DEF Typed, TypedTables, View, now
  <2>3. UNCHANGED <<created, repos, git, meta, held, rw, lw, cl>>
    BY DEF Enqueue, ListToSync, EnqueueMirrorTasks, SaveWaiting, EnqUnchanged
  <2> QED BY <2>1, <2>2, <2>3
<1>t. ASSUME RowsWritten, EnqOK(now', enq'),
             \A k \in Kinds : \A t \in queues'[k] : t \in queues[k] \/ TaskOK(now', k, t)
      PROVE  TrueInv'
  <2>1. ReposWritten /\ GitMoves
    BY <1>n, SameTables
  <2>2. /\ \A k \in Kinds : held'[k] = held[k]
        /\ \A w \in RepoWorkers : rw'[w] = rw[w]
        /\ \A w \in LfsWorkers : lw'[w] = lw[w]
        /\ \A c \in Clients : cl'[c] = cl[c]
    BY <1>n
  <2> QED BY <1>t, <2>1, <2>2, TablesKept, TrueStep
<1>f. ASSUME RowsWritten PROVE EnqOK(now', enq)
  <2>1. Forward(now, now')
    BY <1>n, <1>f, SameTables, TablesKept
  <2>2. enq \in EnqState /\ EnqOK(now, enq)
    BY DEF Typed, TypedProcesses, TrueInv
  <2> QED BY <1>n, <2>1, <2>2, CarryProcesses
<1>1. CASE ListToSync
  <2>1. UNCHANGED <<mirrors, queues>>
    BY <1>1 DEF ListToSync
  <2>2. RowsWritten /\ now' = now
    BY <1>n, <2>1, SameTables DEF now
  <2>3. \A m \in IDs : mirrors[m] # NoRow => RowOf(now, m, mirrors[m]) /\ Honest(now, mirrors[m])
    BY NowIs DEF TrueInv, MirrorOK, RowOf
  <2>4. \A ids \in SUBSET IDs : (\A m \in ids : mirrors[m] # NoRow) =>
          \A e \in Copies(ids) : CopyOK(now, e)
    BY <2>3 DEF Copies, CopyOK
  <2>5. /\ \A e \in Copies(ToSyncRepo) : CopyOK(now, e)
        /\ \A e \in Copies(ToSyncLfs) : CopyOK(now, e)
    BY <2>4 DEF ToSyncRepo, ToSyncLfs
  <2>6. \A e \in Copies(ToSyncLfs) : e.row.st = "repo_synced"
    BY DEF Copies, ToSyncLfs
  <2>7. \/ enq' = [pc |-> "repo", todo |-> Copies(ToSyncRepo)]
        \/ enq' = [pc |-> "lfs", todo |-> Copies(ToSyncLfs)]
        \/ enq' = [pc |-> "done", todo |-> {}]
    BY <1>1 DEF ListToSync, EnqStep
  <2>8. EnqOK(now', enq')
    BY <2>2, <2>5, <2>6, <2>7 DEF EnqOK
  <2> QED BY <1>t, <2>1, <2>2, <2>8
<1>2. CASE EnqueueMirrorTasks
  <2>1. PICK e \in enq.todo :
          /\ enq' = [pc |-> "save", todo |-> enq.todo \ {e}, kind |-> enq.pc, cur |-> e]
          /\ \/ Push(enq.pc, [m |-> e.m, prio |-> e.row.prio, saas |-> FALSE, late |-> FALSE])
             \/ UNCHANGED queues
    BY <1>2 DEF EnqueueMirrorTasks
  <2>2. enq.pc \in Kinds /\ UNCHANGED mirrors
    BY <1>2 DEF EnqueueMirrorTasks
  <2>3. RowsWritten
    BY <1>n, <2>2, SameTables
  <2>4. EnqOK(now', enq)
    BY <1>f, <2>3
  <2>5. EnqOK(now', enq')
    BY <2>1, <2>4 DEF EnqOK
  <2> DEFINE t == [m |-> e.m, prio |-> e.row.prio, saas |-> FALSE, late |-> FALSE]
  <2>6. TaskOK(now', enq.pc, t)
    <3>1. RowOf(now', e.m, e.row) /\ Honest(now', e.row) /\ (enq.pc = "lfs" => e.row.st = "repo_synced")
      BY <2>1, <2>4 DEF EnqOK, CopyOK
    <3>2. t.m = e.m
      OBVIOUS
    <3> HIDE DEF t
    <3> QED BY <3>1, <3>2 DEF TaskOK, RowOf, Honest
  <2>7. queues' = queues \/ queues' = [queues EXCEPT ![enq.pc] = @ \cup {t}]
    BY <2>1 DEF Push
  <2> HIDE DEF t
  <2>8. \A k \in Kinds : \A u \in queues'[k] : u \in queues[k] \/ TaskOK(now', k, u)
    BY <2>2, <2>6, <2>7 DEF Typed, TypedTables
  <2> QED BY <1>t, <2>3, <2>5, <2>8
<1>3. CASE SaveWaiting
  <2> DEFINE row == [enq.cur.row EXCEPT !.st = "waiting"]
  <2>0. enq.pc = "save" /\ enq' = [pc |-> enq.kind, todo |-> enq.todo] /\ UNCHANGED queues
        /\ (mirrors' = mirrors \/ Update(enq.cur.m, row))
    BY <1>3 DEF SaveWaiting, EnqStep
  <2>1. enq.cur.m \in IDs /\ enq.cur.row \in MRow /\ enq.kind \in {"repo", "lfs"}
    BY <1>n, <2>0 DEF Lister, Saver, Copy, Kinds
  <2>2. RowOf(now, enq.cur.m, enq.cur.row)
    BY <2>0 DEF TrueInv, EnqOK, CopyOK
  <2>3. row \in MRow /\ Honest(now, row) /\ RowOf(now, enq.cur.m, row)
    <3>1. "waiting" \in Status
      BY DEF Status
    <3> QED BY <1>n, <2>1, <2>2, <3>1, RowTypes, ChangedRow
  <2> HIDE DEF row
  <2>4. RowsWritten
    BY <1>n, <2>0, <2>1, <2>3, WriteRow
  <2>5. EnqOK(now', enq')
    BY <1>f, <2>0, <2>1, <2>4 DEF EnqOK
  <2> QED BY <1>t, <2>0, <2>4, <2>5
<1> QED BY <1>1, <1>2, <1>3 DEF Enqueue

LEMMA BeginTrue ==
  ASSUME Typed, Typed', TrueInv, NEW c \in Clients, NEW r \in Repos, Begin(c, r)
  PROVE  TrueInv'
<1> USE DEF Call, ClientUnchanged
<1>n. now \in View /\ now' \in View /\ cl \in [Clients -> ClientState]
      /\ UNCHANGED <<created, meta, queues, held, rw, lw, enq>>
      /\ mirrors \in [IDs -> MRow \cup {NoRow}] /\ repos \in [Repos -> RRow \cup {NoRepo}]
      /\ git \in [Repos -> {"none", "empty", "fetched", "gone"}]
  <2>1. now \in View /\ cl \in [Clients -> ClientState]
        /\ mirrors \in [IDs -> MRow \cup {NoRow}] /\ repos \in [Repos -> RRow \cup {NoRepo}]
        /\ git \in [Repos -> {"none", "empty", "fetched", "gone"}]
    BY NowTyped DEF Typed, TypedTables, TypedProcesses
  <2>2. now' \in View
    BY DEF Typed, TypedTables, View, now
  <2>3. UNCHANGED <<created, meta, queues, held, rw, lw, enq>>
    BY DEF Begin, CreateMirror, CreateMirrorRepo, MirrorFromSaas, SyncMirror, UpdateMirror,
           DeleteMirror, EditRepo, DeleteRepo
  <2> QED BY <2>1, <2>2, <2>3
<1>t. ASSUME RowsWritten, ReposWritten, GitMoves,
             cl' = cl \/ \E s : cl' = [cl EXCEPT ![c] = s] /\ ClientOK(now', s)
      PROVE  TrueInv'
  <2>1. \A d \in Clients : cl'[d] \in {Idle, cl[d]} \/ ClientOK(now', cl'[d])
    BY <1>n, <1>t
  <2>2. /\ \A k \in Kinds : held'[k] = held[k] /\ queues'[k] = queues[k]
        /\ \A w \in RepoWorkers : rw'[w] = rw[w]
        /\ \A w \in LfsWorkers : lw'[w] = lw[w]
    BY <1>n
  <2> QED BY <1>n, <1>t, <2>1, <2>2, TablesKept, TrueStep

\* A request that finds a mirror holds an honest row of it.
<1>r. ASSUME NEW m \in IDs, FindByRepoID(m, r)
      PROVE  mirrors[m] \in MRow /\ mirrors[m].repo = r
             /\ RowOf(now, m, mirrors[m]) /\ Honest(now, mirrors[m])
  <2>1. MirrorOK(now, m)
    BY DEF TrueInv
  <2> QED BY <1>n, <1>r, <2>1, NowIs DEF FindByRepoID, MirrorOK, RowOf
<1>p. repos[r] # NoRepo => repos[r] \in RRow /\ HonestRepo(now, r, repos[r])
  BY <1>n DEF TrueInv, RepoRowOK
<1>h. ASSUME RowsWritten, ReposWritten, GitMoves, repos[r] # NoRepo,
             NEW pc \in {"push", "save"}, NEW op, NEW m \in IDs, NEW row \in MRow,
             row.repo = r, RowOf(now, m, row), Honest(now, row)
      PROVE  ClientOK(now', Holding(pc, op, r, m, row))
  <2>1. Forward(now, now')
    BY <1>h, TablesKept
  <2>2. Honest(now', row) /\ RowOf(now', m, row) /\ HonestRepo(now', r, repos[r])
    BY <1>h, <1>n, <1>p, <2>1, CarryRows
  <2> QED BY <1>h, <2>2 DEF ClientOK, Holding
<1>i. ASSUME HonestRepo(now', r, repos[r]), NEW op
      PROVE  ClientOK(now', Holding("insert", op, r, 0, NewRow(r, 0)))
  <2>1. Honest(now', NewRow(r, 0)) /\ NewRow(r, 0).repo = r
    BY DEF NewRow, Honest
  <2> QED BY <1>i, <2>1 DEF ClientOK, Holding
<1>1. CASE CreateMirror(c, r)
  <2>1. UNCHANGED <<mirrors, repos, git>> /\ repos[r] # NoRepo
        /\ cl' = [cl EXCEPT ![c] = Holding("insert", "create", r, 0, NewRow(r, 0))]
    BY <1>1 DEF CreateMirror
  <2>2. RowsWritten /\ ReposWritten /\ GitMoves /\ now' = now
    BY <1>n, <2>1, SameTables DEF now
  <2>3. ClientOK(now', Holding("insert", "create", r, 0, NewRow(r, 0)))
    BY <1>i, <1>p, <2>1, <2>2
  <2> QED BY <1>t, <2>1, <2>2, <2>3
<1>2. CASE CreateMirrorRepo(c, r)
  <2> DEFINE rec == [sync |-> "none", edit |-> 0]
             s == [Holding("insert", "crawl", r, 0, NewRow(r, 3)) EXCEPT !.repo = repos'[r]]
  <2>1. UNCHANGED mirrors /\ git[r] = "none" /\ git' = [git EXCEPT ![r] = "empty"]
        /\ repos' = [repos EXCEPT ![r] = rec] /\ cl' = [cl EXCEPT ![c] = s]
    BY <1>2 DEF CreateMirrorRepo
  <2>2. rec \in RRow /\ HonestRepo(now, r, rec) /\ HonestRepo(now', r, rec)
    BY DEF RRow, SyncStatus, HonestRepo
  <2>3. RowsWritten
    BY <1>n, <2>1, SameTables
  <2>4. ReposWritten
    <3> HIDE DEF rec
    <3> QED BY <2>1, <2>2 DEF ReposWritten
  <2>5. GitMoves
    BY <1>n, <2>1, NowIs DEF GitMoves, Fetched
  <2>6. repos'[r] = rec
    BY <1>n, <2>1
  <2>7. s.pc = "insert" /\ s.r = r /\ s.row = NewRow(r, 3) /\ s.repo = rec
    BY <2>6 DEF Holding
  <2>8. Honest(now', NewRow(r, 3)) /\ NewRow(r, 3).repo = r
    BY DEF NewRow, Honest
  <2>9. ClientOK(now', s)
    <3> HIDE DEF s, rec
    <3> QED BY <2>2, <2>7, <2>8 DEF ClientOK
  <2> HIDE DEF s
  <2> QED BY <1>t, <2>1, <2>3, <2>4, <2>5, <2>9
<1>3. CASE MirrorFromSaas(c, r)
  <2>1. UNCHANGED <<mirrors, repos>> /\ repos[r] # NoRepo
    BY <1>3 DEF MirrorFromSaas
  <2>2. RowsWritten /\ ReposWritten
    BY <1>n, <2>1, SameTables
  <2>3. CASE /\ Has(r) /\ git' = [git EXCEPT ![r] = "fetched"]
             /\ cl' = [cl EXCEPT ![c] = Holding("insert", "saas", r, 0, NewRow(r, 0))]
    <3>1. GitMoves /\ Fetched(now', r)
      BY <1>n, <2>3, NowIs DEF GitMoves, Fetched
    <3>2. HonestRepo(now', r, repos[r])
      BY <3>1 DEF HonestRepo
    <3>3. ClientOK(now', Holding("insert", "saas", r, 0, NewRow(r, 0)))
      BY <1>i, <3>2
    <3> QED BY <1>t, <2>2, <2>3, <3>1, <3>3
  <2>4. CASE UNCHANGED git
             /\ \E m \in IDs : /\ FindByRepoID(m, r)
                               /\ cl' = [cl EXCEPT ![c] = Holding("push", "saas", r, m, mirrors[m])]
    <3>1. PICK m \in IDs : /\ FindByRepoID(m, r)
                           /\ cl' = [cl EXCEPT ![c] = Holding("push", "saas", r, m, mirrors[m])]
      BY <2>4
    <3>2. GitMoves
      BY <1>n, <2>4, SameTables
    <3>3. ClientOK(now', Holding("push", "saas", r, m, mirrors[m]))
      BY <1>h, <1>r, <2>1, <2>2, <3>1, <3>2
    <3> QED BY <1>t, <2>2, <3>1, <3>2, <3>3
  <2> QED BY <1>3, <2>3, <2>4 DEF MirrorFromSaas
<1>4. CASE SyncMirror(c, r)
  <2>1. PICK m \in IDs : FindByRepoID(m, r)
                         /\ cl' = [cl EXCEPT ![c] = Holding("push", "sync", r, m, [mirrors[m] EXCEPT !.prio = 3])]
    BY <1>4 DEF SyncMirror
  <2> DEFINE row == [mirrors[m] EXCEPT !.prio = 3]
  <2>2. row \in MRow /\ row.repo = r /\ RowOf(now, m, row) /\ Honest(now, row)
    <3>1. 3 \in 0..3 /\ mirrors[m] \in MRow /\ mirrors[m].repo = r
          /\ RowOf(now, m, mirrors[m]) /\ Honest(now, mirrors[m])
      BY <1>r, <2>1
    <3>2. row \in MRow
      BY <3>1, RowTypes
    <3>3. row.repo = r /\ RowOf(now, m, row) /\ Honest(now, row)
      BY <1>n, <3>1, ChangedRow
    <3> QED BY <3>2, <3>3
  <2>3. RowsWritten /\ ReposWritten /\ GitMoves /\ repos[r] # NoRepo
    BY <1>n, <1>4, SameTables DEF SyncMirror
  <2> HIDE DEF row
  <2>4. ClientOK(now', Holding("push", "sync", r, m, row))
    BY <1>h, <2>2, <2>3
  <2> QED BY <1>t, <2>1, <2>3, <2>4 DEF row
<1>5. CASE UpdateMirror(c, r)
  <2>1. PICK m \in IDs : FindByRepoID(m, r)
                         /\ cl' = [cl EXCEPT ![c] = Holding("save", "update", r, m, [mirrors[m] EXCEPT !.edit = @ + 1])]
    BY <1>5 DEF UpdateMirror
  <2> DEFINE row == [mirrors[m] EXCEPT !.edit = @ + 1]
  <2>2. row \in MRow /\ row.repo = r /\ RowOf(now, m, row) /\ Honest(now, row)
    <3>1. mirrors[m] \in MRow /\ mirrors[m].repo = r
          /\ RowOf(now, m, mirrors[m]) /\ Honest(now, mirrors[m])
      BY <1>r, <2>1
    <3>2. row \in MRow
      BY <3>1, RowTypes
    <3>3. row.repo = r /\ RowOf(now, m, row) /\ Honest(now, row)
      BY <1>n, <3>1, ChangedRow
    <3> QED BY <3>2, <3>3
  <2>3. RowsWritten /\ ReposWritten /\ GitMoves /\ repos[r] # NoRepo
    BY <1>n, <1>5, SameTables DEF UpdateMirror
  <2> HIDE DEF row
  <2>4. ClientOK(now', Holding("save", "update", r, m, row))
    BY <1>h, <2>2, <2>3
  <2> QED BY <1>t, <2>1, <2>3, <2>4 DEF row
<1>6. CASE DeleteMirror(c, r)
  <2>1. (\E m \in IDs : mirrors' = [mirrors EXCEPT ![m] = NoRow]) /\ UNCHANGED <<repos, git, cl>>
    BY <1>6 DEF DeleteMirror
  <2>2. RowsWritten
    BY <1>n, <2>1 DEF RowsWritten
  <2> QED BY <1>n, <1>t, <2>1, <2>2, SameTables
<1>7. CASE EditRepo(c, r)
  <2> DEFINE rec == [repos[r] EXCEPT !.edit = @ + 1]
             s == [pc |-> "saverepo", op |-> "edit", r |-> r, repo |-> rec]
  <2>1. UNCHANGED <<mirrors, repos, git>> /\ repos[r] # NoRepo /\ cl' = [cl EXCEPT ![c] = s]
    BY <1>7 DEF EditRepo
  <2>2. RowsWritten /\ ReposWritten /\ GitMoves /\ now' = now
    BY <1>n, <2>1, SameTables DEF now
  <2>3. rec.sync = repos[r].sync
    BY <1>p, <2>1 DEF RRow
  <2>4. s.pc = "saverepo" /\ s.r = r /\ s.repo = rec
    OBVIOUS
  <2> HIDE DEF s, rec
  <2>5. ClientOK(now', s)
    BY <1>p, <2>1, <2>2, <2>3, <2>4 DEF ClientOK, HonestRepo
  <2> QED BY <1>t, <2>1, <2>2, <2>5
<1>8. CASE DeleteRepo(c, r) /\ cl[c] = Idle
  <2>1. cl[c].pc # "drop"
    BY <1>8, IdlePc
  <2>2. git' = [git EXCEPT ![r] = "gone"] /\ cl' = [cl EXCEPT ![c] = [pc |-> "drop", r |-> r]]
        /\ UNCHANGED <<repos, mirrors>>
    BY <1>8, <2>1 DEF DeleteRepo, ClientStep
  <2>3. GitMoves
    BY <1>n, <2>2, NowIs DEF GitMoves, Fetched
  <2>4. ClientOK(now', [pc |-> "drop", r |-> r])
    BY DEF ClientOK
  <2> QED BY <1>n, <1>t, <2>2, <2>3, <2>4, SameTables
<1> QED BY <1>1, <1>2, <1>3, <1>4, <1>5, <1>6, <1>7, <1>8 DEF Begin

LEMMA RequestTrue ==
  ASSUME Typed, Typed', TrueInv, NEW c \in Clients, Request(c) \/ RequestFails(c)
  PROVE  TrueInv'
<1> USE DEF ClientUnchanged, ClientStep
<1>n. now \in View /\ now' \in View /\ cl \in [Clients -> ClientState]
      /\ UNCHANGED <<git, meta, held, rw, lw, enq>> /\ created \in 0..MaxMirrors
  <2>1. now \in View /\ cl \in [Clients -> ClientState] /\ created \in 0..MaxMirrors
    BY NowTyped DEF Typed, TypedTables, TypedProcesses
  <2>2. now' \in View
    BY DEF Typed, TypedTables, View, now
  <2>3. UNCHANGED <<git, meta, held, rw, lw, enq>>
    BY IdlePc DEF Request, InsertMirror, PushRepoMirror, SaveRow, SaveRepo, RequestFails, DeleteRepo, Call
  <2> QED BY <2>1, <2>2, <2>3
<1>t. ASSUME RowsWritten, ReposWritten,
             NEW s, cl' = [cl EXCEPT ![c] = s], s = Idle \/ ClientOK(now', s),
             \A k \in Kinds : \A t \in queues'[k] : t \in queues[k] \/ TaskOK(now', k, t)
      PROVE  TrueInv'
  <2>1. \A d \in Clients : cl'[d] \in {Idle, cl[d]} \/ ClientOK(now', cl'[d])
    BY <1>n, <1>t
  <2>2. /\ \A k \in Kinds : held'[k] = held[k]
        /\ \A w \in RepoWorkers : rw'[w] = rw[w]
        /\ \A w \in LfsWorkers : lw'[w] = lw[w]
    BY <1>n
  <2>3. GitMoves
    BY <1>n, SameTables
  <2> QED BY <1>n, <1>t, <2>1, <2>2, <2>3, TablesKept, TrueStep
<1>f. ASSUME RowsWritten, ReposWritten PROVE ClientOK(now', cl[c])
  <2>1. Forward(now, now')
    BY <1>f, <1>n, SameTables, TablesKept
  <2>2. cl[c] \in ClientState /\ ClientOK(now, cl[c])
    BY <1>n DEF TrueInv
  <2> QED BY <1>n, <2>1, <2>2, CarryProcesses
<1>o. ClientOK(now, cl[c])
  BY DEF TrueInv
<1>1. CASE InsertMirror(c)
  <2> DEFINE s == [[cl[c] EXCEPT !.pc = "push"] EXCEPT !.m = created + 1]
  <2>0. /\ created < MaxMirrors /\ cl[c].pc = "insert" /\ cl' = [cl EXCEPT ![c] = s]
        /\ created' = created + 1 /\ mirrors' = [mirrors EXCEPT ![created + 1] = cl[c].row]
        /\ UNCHANGED <<repos, queues>>
    BY <1>1 DEF InsertMirror, At0
  <2>1. cl[c] \in Inserter /\ cl[c].row \in MRow /\ cl[c].row.repo = cl[c].r /\ Honest(now, cl[c].row)
        /\ created + 1 \in IDs
    <3>1. cl[c] \in Inserter
      BY <2>0, ClientFields
    <3>2. created + 1 \in IDs
      BY <1>n, <2>0, MirrorAssumption DEF IDs
    <3> QED BY <1>o, <2>0, <3>1, <3>2 DEF Inserter, ClientOK
  <2>2. RowsWritten /\ ReposWritten
    BY <2>0, <2>1, SameTables DEF RowsWritten
  <2>3. ClientOK(now', cl[c])
    BY <1>f, <2>2
  <2>4. s.pc = "push" /\ s.r = cl[c].r /\ s.m = created + 1 /\ s.row = cl[c].row /\ s.repo = cl[c].repo
    BY <2>1 DEF Inserter
  <2> HIDE DEF s
  <2>5. mirrors'[created + 1] = cl[c].row
    BY <2>0, <2>1 DEF Typed, TypedTables
  <2>6. RowOf(now', s.m, s.row)
    BY <1>n, <2>0, <2>4, <2>5, NowIs DEF RowOf
  <2>7. ClientOK(now', s)
    BY <2>0, <2>3, <2>4, <2>6 DEF ClientOK
  <2>8. \A k \in Kinds : \A t \in queues'[k] : t \in queues[k]
    BY <2>0
  <2> QED BY <1>t, <2>0, <2>2, <2>7, <2>8
<1>2. CASE PushRepoMirror(c)
  <2>p. PICK late \in BOOLEAN : PushesLate(c, late) \/ UNCHANGED queues
    BY <1>2 DEF PushRepoMirror, PushesLate
  <2> DEFINE a == [[cl[c] EXCEPT !.pc = "saverepo"] EXCEPT !.repo.sync = "pending"]
             b == [[cl[c] EXCEPT !.pc = "save"] EXCEPT !.row.st = "waiting"]
             t == [m |-> cl[c].m, prio |-> cl[c].row.prio, saas |-> cl[c].op = "saas", late |-> late]
  <2>0. cl[c].pc = "push" /\ UNCHANGED <<mirrors, created, repos>>
        /\ (cl' = [cl EXCEPT ![c] = a] \/ cl' = [cl EXCEPT ![c] = b])
        /\ (Push("repo", t) \/ UNCHANGED queues)
    BY <1>2, <2>p DEF PushRepoMirror, At0, PushesLate
  <2>1. RowsWritten /\ ReposWritten
    BY <2>0, SameTables
  <2>2. cl[c] \in Holder /\ ClientOK(now', cl[c])
    BY <1>f, <2>0, <2>1, ClientFields
  <2>3. a.pc = "saverepo" /\ a.r = cl[c].r /\ a.repo.sync = "pending"
    BY <2>2 DEF Holder, RRow
  <2>4. b.pc = "save" /\ b.r = cl[c].r /\ b.m = cl[c].m /\ b.repo = cl[c].repo
        /\ b.row.repo = cl[c].row.repo /\ b.row.st = "waiting"
    BY <2>2 DEF Holder, MRow
  <2>5. t.m = cl[c].m
    OBVIOUS
  <2> HIDE DEF a, b, t
  <2>6. ClientOK(now', a)
    BY <2>3 DEF ClientOK, HonestRepo
  <2>7. ClientOK(now', b)
    BY <2>0, <2>2, <2>4 DEF ClientOK, Honest, RowOf
  <2>8. TaskOK(now', "repo", t)
    BY <2>0, <2>2, <2>5 DEF ClientOK, RowOf, TaskOK
  <2>9. \A k \in Kinds : \A u \in queues'[k] : u \in queues[k] \/ TaskOK(now', k, u)
    BY <2>0, <2>8 DEF Push, Typed, TypedTables
  <2> QED BY <1>t, <2>0, <2>1, <2>6, <2>7, <2>9
<1>3. CASE SaveRow(c)
  <2>0. /\ cl[c].pc = "save" /\ cl' = [cl EXCEPT ![c] = Idle] /\ UNCHANGED <<created, repos, queues>>
        /\ mirrors' = mirrors \/ Update(cl[c].m, cl[c].row)
    BY <1>3 DEF SaveRow
  <2>1. cl[c].m \in IDs /\ cl[c].row \in MRow
    BY <2>0, ClientFields DEF Holder
  <2>2. RowsWritten /\ ReposWritten
    BY <1>o, <2>0, <2>1, WriteRow, SameTables DEF ClientOK
  <2>3. \A k \in Kinds : \A t \in queues'[k] : t \in queues[k]
    BY <2>0
  <2> QED BY <1>t, <2>0, <2>2, <2>3
<1>4. CASE SaveRepo(c)
  <2>0. cl[c].pc = "saverepo" /\ cl' = [cl EXCEPT ![c] = Idle] /\ UNCHANGED <<mirrors, created, queues>>
        /\ UpdateRepo(cl[c].r, cl[c].repo)
    BY <1>4 DEF SaveRepo
  <2>1. cl[c].r \in Repos /\ cl[c].repo \in RRow
    BY <2>0, ClientFields DEF Holder, Editor
  <2>2. RowsWritten /\ ReposWritten
    BY <1>o, <2>0, <2>1, WriteRepo, SameTables DEF ClientOK
  <2>3. \A k \in Kinds : \A t \in queues'[k] : t \in queues[k]
    BY <2>0
  <2> QED BY <1>t, <2>0, <2>2, <2>3
<1>5. CASE RequestFails(c)
  <2>0. cl' = [cl EXCEPT ![c] = Idle] /\ UNCHANGED <<mirrors, created, repos, queues>>
    BY <1>5 DEF RequestFails
  <2>1. \A k \in Kinds : \A t \in queues'[k] : t \in queues[k]
    BY <2>0
  <2> QED BY <1>t, <2>0, <2>1, SameTables
<1>6. CASE \E r \in Repos : DeleteRepo(c, r) /\ cl[c] # Idle
  <2>1. PICK r \in Repos : DeleteRepo(c, r) /\ cl[c] # Idle
    BY <1>6
  <2>2. cl' = [cl EXCEPT ![c] = Idle] /\ repos' = [repos EXCEPT ![r] = NoRepo]
        /\ UNCHANGED <<mirrors, created, queues>>
    BY <2>1 DEF DeleteRepo, Call
  <2>3. RowsWritten /\ ReposWritten
    BY <2>2, SameTables DEF ReposWritten
  <2>4. \A k \in Kinds : \A t \in queues'[k] : t \in queues[k]
    BY <2>2
  <2> QED BY <1>t, <2>2, <2>3, <2>4
<1> QED BY <1>1, <1>2, <1>3, <1>4, <1>5, <1>6 DEF Request

LEMMA InitTrue == Init => TrueInv
<1> SUFFICES ASSUME Init PROVE TrueInv
  OBVIOUS
<1> USE DEF Init
<1>1. \A m \in IDs : MirrorOK(now, m)
  BY NowIs DEF MirrorOK
<1>2. \A r \in Repos : RepoRowOK(now, r, repos[r])
  BY NowIs DEF RepoRowOK, HonestRepo
<1>3. /\ \A k \in Kinds : \A t \in queues[k] : TaskOK(now, k, t)
      /\ \A k \in Kinds : held[k] = NoTask
  OBVIOUS
<1>4. /\ \A w \in RepoWorkers : RepoOK(now, rw[w])
      /\ \A w \in LfsWorkers : LfsOK(now, lw[w])
      /\ \A c \in Clients : ClientOK(now, cl[c])
  BY IdlePc DEF RepoOK, LfsOK, ClientOK
<1>5. EnqOK(now, enq)
  BY DEF EnqOK
<1> QED BY <1>1, <1>2, <1>3, <1>4, <1>5 DEF TrueInv

LEMMA NextTrue == Typed /\ Typed' /\ TrueInv /\ [Next]_vars => TrueInv'
<1> SUFFICES ASSUME Typed, Typed', TrueInv, [Next]_vars PROVE TrueInv'
  OBVIOUS
<1>1. CASE UNCHANGED vars
  <2>1. UNCHANGED <<mirrors, created, repos, git, meta, queues, held, rw, lw, cl, enq>>
    BY <1>1 DEF vars
  <2>2. now' = now
    BY <2>1 DEF now
  <2> QED BY <2>1, <2>2 DEF TrueInv
<1>2. CASE Next
  BY <1>2, QueueTrue, RepoWorkerTrue, LfsWorkerTrue, EnqueueTrue, RequestTrue, BeginTrue, CrashTrue
  DEF Next
<1> QED BY <1>1, <1>2

\* A mirror is repo_synced or finished, and a repository completed, only after
\* the git server has fetched from the source: whatever failed, whoever wrote
\* back an old copy of a row, and wherever a process died.
THEOREM SyncedMeansFetched == Spec => []SyncedWasFetched
<1>1. Typed /\ TrueInv => SyncedWasFetched
  <2> SUFFICES ASSUME Typed, TrueInv PROVE SyncedWasFetched
    OBVIOUS
  <2>1. ASSUME NEW m \in IDs, mirrors[m] # NoRow, mirrors[m].st \in {"repo_synced", "finished"}
        PROVE  git[mirrors[m].repo] \in {"fetched", "gone"}
    <3>1. Honest(now, mirrors[m])
      BY <2>1, NowIs DEF TrueInv, MirrorOK
    <3> QED BY <2>1, <3>1, NowIs DEF Honest, LfsReady, Fetched
  <2>2. ASSUME NEW r \in Repos, repos[r].sync = "completed" PROVE git[r] \in {"fetched", "gone"}
    <3>1. repos[r] # NoRepo
      BY <2>2 DEF NoRepo
    <3> QED BY <2>2, <3>1, NowIs DEF TrueInv, RepoRowOK, HonestRepo, Fetched
  <2> QED BY <2>1, <2>2 DEF SyncedWasFetched
<1> QED BY <1>1, InitTyped, NextTyped, InitTrue, NextTrue, PTL DEF Spec

----------------------------------------------------------------------------
(* As long as nothing fails and nothing is changed or deleted by a request.  *)
(* Every mirror that is not settled and every repository that is not         *)
(* complete is then somebody's business: it is with a request that has yet   *)
(* to push its task, in a queue, or with a worker that has yet to write the  *)
(* status.  So nothing is left over when nobody has anything to do.          *)

\* EnqueueMirrorTasks finds no mirror, and no request comes before it is done.
CalmStart ==
  /\ enq.pc # "save" /\ enq.todo = {}
  /\ enq.pc # "done" => created = 0 /\ \A c \in Clients : cl[c].pc = "idle"

\* Rows stay, with their repositories.
CalmRows ==
  /\ \A m \in IDs : m <= created => mirrors[m] # NoRow /\ repos[mirrors[m].repo] # NoRepo
  /\ \A r \in Repos : repos[r] # NoRepo => git[r] \in {"empty", "fetched"}

CalmClient(c) ==
  cl[c].pc # "idle" =>
    /\ cl[c].pc # "drop" /\ cl[c].op \in load.ops /\ repos[cl[c].r] # NoRepo
    /\ cl[c].pc = "save" => cl[c].row.st = "waiting"
    /\ cl[c].pc = "saverepo" => cl[c].op \in {"saas", "edit"}

\* Every object is in the store or still to be looked at.
CalmLfs(w) ==
  lw[w].pc # "idle" =>
    /\ lw[w].pc \in {"list", "loop", "get", "progress", "complete"}
    /\ lw[w].pc # "list" =>
         \A o \in Pointers[lw[w].row.repo] :
           \/ o \in stored
           \/ lw[w].pc # "complete" /\ o \in lw[w].todo
           \/ lw[w].pc = "get" /\ o \in lw[w].cur

Orderly ==
  /\ CalmStart /\ CalmRows
  /\ \A c \in Clients : CalmClient(c)
  /\ \A w \in RepoWorkers : rw[w].pc # "idle" => rw[w].repo # NoRepo
  /\ \A w \in LfsWorkers : CalmLfs(w)

\* Somebody has yet to write the status of the mirror m.
Writing(m) ==
  \/ \E c \in Clients : cl[c].pc \in {"push", "save"} /\ cl[c].m = m
  \/ \E t \in queues["repo"] : t.m = m
  \/ held["repo"].m = m
  \/ \E w \in RepoWorkers : rw[w].pc # "idle" /\ rw[w].t.m = m
  \/ \E w \in LfsWorkers : lw[w].pc \notin {"idle", "complete"} /\ lw[w].m = m

Settled(m) == mirrors[m] # NoRow /\ mirrors[m].st \in {"none", "running"} => Writing(m)

\* Somebody has yet to complete the repository r.
Of(m, r) == m \in IDs /\ mirrors[m] # NoRow /\ mirrors[m].repo = r
Completing(r) ==
  \/ \E c \in Clients : cl[c].pc = "push" /\ cl[c].r = r
  \/ \E k \in Kinds : (\E t \in queues[k] : Of(t.m, r)) \/ Of(held[k].m, r)
  \/ \E w \in RepoWorkers : rw[w].pc \notin {"idle", "save"} /\ rw[w].row.repo = r
  \/ \E w \in LfsWorkers : lw[w].pc # "idle" /\ lw[w].row.repo = r

Complete(r) ==
  (\E m \in IDs : Of(m, r)) =>
     (repos[r].sync = "completed" /\ Pointers[r] \subseteq stored) \/ Completing(r)

WorkersOnly == load.ops \cap {"saas", "edit"} = {}

CalmInv ==
  Untroubled =>
    /\ Orderly
    /\ \A m \in IDs : Settled(m)
    /\ WorkersOnly => \A r \in Repos : Complete(r)

----------------------------------------------------------------------------
(* What the processes do in a calm step. *)

\* A step that is calm afterwards was calm before, and nothing failed in it.
LEMMA CalmBefore ==
  ASSUME Typed, Next, Untroubled'
  PROVE  Untroubled /\ ~Fault /\ ~Crash /\ load' = load
<1>0. faults \in Nat /\ crashes \in Nat
  BY DEF Typed, TypedProcesses
<1>1. ~Fault
  BY <1>0 DEF Fault, Untroubled
<1>2. ~Crash
  BY <1>0 DEF Crash, Untroubled
<1>3. Fault \/ UNCHANGED <<load, faults, crashes>>
  <2>1. ASSUME NEW k \in Kinds, dispatcher(k) \/ PopLost(k) PROVE Fault \/ UNCHANGED <<load, faults, crashes>>
    BY <2>1 DEF dispatcher, PopLost, counts
  <2>2. ASSUME NEW w \in RepoWorkers, RepoWorker(w) PROVE Fault \/ UNCHANGED <<load, faults, crashes>>
    BY <2>2 DEF RepoWorker, ReceiveRepo, SetRunning, GitFails, MirrorSync, SetInProgress,
       generateLfsMetaObjects, PointersFail, PushLfs, SetCompleted, SaveMirror, RepoDbError, counts
  <2>3. ASSUME NEW w \in LfsWorkers, LfsWorker(w) PROVE Fault \/ UNCHANGED <<load, faults, crashes>>
    BY <2>3 DEF LfsWorker, ReceiveLfs, GetLFSDownloadURLs, StatObject, DownloadAndUploadLFSFile,
       UpdateProgress, SetFinished, SaveCompleted, LfsError, SyncLfsFailed, Recover, counts
  <2>4. ASSUME Enqueue PROVE Fault \/ UNCHANGED <<load, faults, crashes>>
    BY <2>4 DEF Enqueue, ListToSync, EnqueueMirrorTasks, SaveWaiting, counts
  <2>5. ASSUME NEW c \in Clients, Request(c) \/ RequestFails(c)
        PROVE  Fault \/ UNCHANGED <<load, faults, crashes>>
    BY <2>5 DEF Request, InsertMirror, PushRepoMirror, SaveRow, SaveRepo, RequestFails, DeleteRepo,
       Call, counts
  <2>6. ASSUME NEW c \in Clients, NEW r \in Repos, Begin(c, r)
        PROVE  Fault \/ UNCHANGED <<load, faults, crashes>>
    BY <2>6 DEF Begin, CreateMirror, CreateMirrorRepo, MirrorFromSaas, SyncMirror, UpdateMirror,
           DeleteMirror, EditRepo, DeleteRepo, Call, counts
  <2> QED BY <1>2, <2>1, <2>2, <2>3, <2>4, <2>5, <2>6 DEF Next
<1>4. Untroubled
  BY <1>1, <1>3 DEF Untroubled
<1> QED BY <1>1, <1>2, <1>3, <1>4

RepoGoes(w) ==
  /\ \A v \in RepoWorkers : v # w => rw'[v] = rw[v]
  /\ UNCHANGED <<created, stored, lw, enq, cl>>

\* A mirror's row is written over an existing one of the same repository.
Overwritten(m) ==
  /\ mirrors[m] # NoRow /\ mirrors'[m] # NoRow /\ mirrors'[m].repo = mirrors[m].repo
  /\ \A n \in IDs : n # m => mirrors'[n] = mirrors[n]

RepoReceives(w) ==
  /\ rw[w].pc = "idle" /\ held["repo"] # NoTask /\ held["repo"].m \in IDs
  /\ held' = [held EXCEPT !["repo"] = NoTask]
  /\ rw'[w].pc = "run" /\ rw'[w].t = held["repo"] /\ rw'[w].repo # NoRepo
  /\ rw'[w].row = mirrors[held["repo"].m] /\ mirrors[held["repo"].m] # NoRow
  /\ UNCHANGED <<mirrors, repos, git, queues>>

RepoWorks(w) ==
  /\ rw[w].pc \in {"run", "fetch", "info", "meta"}
  /\ rw'[w].pc \in {"fetch", "info", "meta", "push", "complete"} /\ rw'[w].repo # NoRepo
  /\ rw'[w].t = rw[w].t /\ rw'[w].row.repo = rw[w].row.repo
  /\ mirrors' = mirrors \/ Overwritten(rw[w].t.m)
  /\ \A r \in Repos : /\ repos[r] # NoRepo => repos'[r] # NoRepo
                      /\ r # rw[w].row.repo => repos'[r] = repos[r]
                      /\ repos[r] = NoRepo => repos'[r] = NoRepo
                      /\ git[r] \in {"empty", "fetched"} => git'[r] \in {"empty", "fetched"}
  /\ UNCHANGED <<queues, held>>

RepoPushes(w) ==
  /\ rw[w].pc = "push" /\ rw'[w].pc = "save" /\ rw'[w].repo # NoRepo
  /\ rw'[w].t = rw[w].t /\ rw'[w].row = rw[w].row
  /\ Of(rw[w].t.m, rw[w].row.repo)
  /\ queues'["repo"] = queues["repo"] /\ queues["lfs"] \subseteq queues'["lfs"]
  /\ \E t \in queues'["lfs"] : t.m = rw[w].t.m
  /\ UNCHANGED <<mirrors, repos, git, held>>

RepoCompletes(w) ==
  LET r == rw[w].row.repo IN
  /\ rw[w].pc = "complete" /\ rw'[w].pc = "save" /\ rw'[w].repo # NoRepo
  /\ rw'[w].t = rw[w].t /\ rw'[w].row = rw[w].row
  /\ Pointers[r] = {} /\ repos'[r] # NoRepo /\ repos'[r].sync = "completed"
  /\ \A x \in Repos : x # r => repos'[x] = repos[x]
  /\ UNCHANGED <<mirrors, git, queues, held>>

RepoSaves(w) ==
  /\ rw[w].pc = "save" /\ rw'[w].pc = "idle"
  /\ Overwritten(rw[w].t.m) /\ mirrors'[rw[w].t.m].st \in {"repo_synced", "finished"}
  /\ UNCHANGED <<repos, git, queues, held>>

LEMMA RepoCalm ==
  ASSUME Typed, TrueInv, Orderly, ~Fault, NEW w \in RepoWorkers, RepoWorker(w)
  PROVE  RepoGoes(w) /\ (RepoReceives(w) \/ RepoWorks(w) \/ RepoPushes(w) \/ RepoCompletes(w) \/ RepoSaves(w))
<1> USE DEF RepoStep, RepoUnchanged
<1>n. /\ rw \in [RepoWorkers -> RepoState] /\ repos \in [Repos -> RRow \cup {NoRepo}]
      /\ mirrors \in [IDs -> MRow \cup {NoRow}] /\ queues \in [Kinds -> SUBSET Task]
      /\ git \in [Repos -> {"none", "empty", "fetched", "gone"}]
      /\ held \in [Kinds -> Task \cup {NoTask}]
  BY DEF Typed, TypedTables, TypedProcesses
<1>g. RepoGoes(w)
  <2>1. UNCHANGED <<created, stored, lw, enq, cl>>
    BY DEF RepoWorker, ReceiveRepo, SetRunning, GitFails, MirrorSync, SetInProgress,
       generateLfsMetaObjects, PointersFail, PushLfs, SetCompleted, SaveMirror, RepoDbError, tables
  <2>2. \E s : rw' = [rw EXCEPT ![w] = s]
    <3>1. ReceiveRepo(w) \/ SetRunning(w) => \E s : rw' = [rw EXCEPT ![w] = s]
      BY DEF ReceiveRepo, SetRunning
    <3>2. GitFails(w) \/ MirrorSync(w) \/ SetInProgress(w) \/ RepoDbError(w)
          => \E s : rw' = [rw EXCEPT ![w] = s]
      BY DEF GitFails, MirrorSync, SetInProgress, RepoDbError
    <3>3. generateLfsMetaObjects(w) \/ PointersFail(w) \/ PushLfs(w) \/ SetCompleted(w) \/ SaveMirror(w)
          => \E s : rw' = [rw EXCEPT ![w] = s]
      BY DEF generateLfsMetaObjects, PointersFail, PushLfs, SetCompleted, SaveMirror
    <3> QED BY <3>1, <3>2, <3>3 DEF RepoWorker
  <2>3. \A v \in RepoWorkers : v # w => rw'[v] = rw[v]
    BY <1>n, <2>2
  <2> QED BY <2>1, <2>3 DEF RepoGoes

\* What a busy worker holds: the row of a mirror that is there, and so is its repository.
<1>o. rw[w].pc # "idle" =>
        /\ rw[w].row \in MRow /\ rw[w].t.m \in IDs /\ rw[w].row.repo \in Repos
        /\ mirrors[rw[w].t.m] # NoRow /\ mirrors[rw[w].t.m].repo = rw[w].row.repo
        /\ repos[rw[w].row.repo] # NoRepo /\ Has(rw[w].row.repo) /\ rw[w].repo # NoRepo
        /\ RepoOK(now, rw[w])
  <2> SUFFICES ASSUME rw[w].pc # "idle"
               PROVE  /\ rw[w].row \in MRow /\ rw[w].t.m \in IDs /\ rw[w].row.repo \in Repos
                      /\ mirrors[rw[w].t.m] # NoRow /\ mirrors[rw[w].t.m].repo = rw[w].row.repo
                      /\ repos[rw[w].row.repo] # NoRepo /\ Has(rw[w].row.repo) /\ rw[w].repo # NoRepo
                      /\ RepoOK(now, rw[w])
    OBVIOUS
  <2>1. rw[w].row \in MRow /\ rw[w].t.m \in IDs /\ rw[w].row.repo \in Repos
    BY RepoFields
  <2>2. RepoOK(now, rw[w])
    BY DEF TrueInv
  <2>3. RowOf(now, rw[w].t.m, rw[w].row)
    BY <2>2 DEF RepoOK
  <2>4. mirrors[rw[w].t.m] # NoRow /\ mirrors[rw[w].t.m].repo = rw[w].row.repo
        /\ repos[rw[w].row.repo] # NoRepo
    BY <2>1, <2>3, NowIs DEF RowOf, Orderly, CalmRows
  <2>5. Has(rw[w].row.repo) /\ rw[w].repo # NoRepo
    BY <2>1, <2>4 DEF Has, Orderly, CalmRows
  <2> QED BY <2>1, <2>2, <2>4, <2>5
<1>u. ASSUME rw[w].pc # "idle", NEW row \in MRow, row.repo = rw[w].row.repo, Update(rw[w].t.m, row)
      PROVE  Overwritten(rw[w].t.m) /\ mirrors'[rw[w].t.m] = row
  BY <1>n, <1>o, <1>u, Distinct DEF Update, Overwritten

\* A worker that is at work and goes on.
<1>e. ASSUME rw[w].pc \notin {"idle", "run"}, NEW p, rw' = [rw EXCEPT ![w] = [rw[w] EXCEPT !.pc = p]]
      PROVE  rw'[w].pc = p /\ rw'[w].t = rw[w].t /\ rw'[w].row = rw[w].row /\ rw'[w].repo = rw[w].repo
  <2>1. rw[w] \in Going
    BY <1>e, RepoFields
  <2>2. LET s == [rw[w] EXCEPT !.pc = p] IN
          s.pc = p /\ s.t = rw[w].t /\ s.row = rw[w].row /\ s.repo = rw[w].repo
    BY <2>1 DEF Going
  <2> QED BY <1>n, <1>e, <2>2
<1>1. CASE ReceiveRepo(w)
  <2> DEFINE t == held["repo"]
             s == [pc |-> "run", t |-> t, row |-> mirrors[t.m], repo |-> repos[mirrors[t.m].repo]]
  <2>1. UNCHANGED <<mirrors, git, repos, queues>> /\ t # NoTask /\ rw[w] = Idle
        /\ held' = [held EXCEPT !["repo"] = NoTask]
    BY <1>1 DEF ReceiveRepo, tables
  <2>2. "repo" \in Kinds /\ t \in Task
    BY <1>n, <2>1 DEF Kinds
  <2>3. t.m \in IDs /\ TaskOK(now, "repo", t)
    BY <2>1, <2>2 DEF Task, TrueInv
  <2>4. mirrors[t.m] # NoRow /\ repos[mirrors[t.m].repo] # NoRepo
    BY <2>3, NowIs DEF TaskOK, Orderly, CalmRows
  <2>5. rw' = [rw EXCEPT ![w] = s]
    BY <1>1, <2>4 DEF ReceiveRepo
  <2>6. rw'[w] = s
    BY <1>n, <2>5
  <2> QED BY <1>g, <2>1, <2>3, <2>4, <2>6, IdlePc DEF RepoReceives
<1>2. CASE SetRunning(w)
  <2> DEFINE row == [rw[w].row EXCEPT !.st = "running", !.prio = 1]
             s == [rw[w] EXCEPT !.pc = "fetch", !.row = row]
  <2>0. rw[w].pc = "run" /\ UNCHANGED <<repos, git, meta, queues, held>>
    BY <1>2 DEF SetRunning
  <2>1. row \in MRow /\ row.repo = rw[w].row.repo
    <3>1. ASSUME NEW x \in MRow
          PROVE  LET y == [x EXCEPT !.st = "running", !.prio = 1] IN y \in MRow /\ y.repo = x.repo
      <4>1. "running" \in Status /\ 1 \in 0..3
        BY DEF Status
      <4> QED BY <4>1 DEF MRow
    <3> QED BY <1>o, <2>0, <3>1
  <2>2. Update(rw[w].t.m, row) /\ rw' = [rw EXCEPT ![w] = s]
    BY <1>2, <1>o, <2>0 DEF SetRunning
  <2>3. s.pc = "fetch" /\ s.t = rw[w].t /\ s.row = row /\ s.repo = rw[w].repo
    <3>1. rw[w] \in Starting
      BY <2>0, RepoFields
    <3> HIDE DEF row
    <3> QED BY <3>1 DEF Starting
  <2> HIDE DEF row, s
  <2>4. Overwritten(rw[w].t.m)
    BY <1>u, <2>0, <2>1, <2>2
  <2>5. rw'[w] = s
    BY <1>n, <2>2
  <2>6. RepoWorks(w)
    BY <1>o, <2>0, <2>1, <2>3, <2>4, <2>5 DEF RepoWorks
  <2> QED BY <1>g, <2>6
<1>3. CASE GitFails(w)
  <2>1. rw[w].pc # "idle"
    BY <1>3 DEF GitFails
  <2> QED BY <1>3, <1>o, <2>1 DEF GitFails
<1>4. CASE MirrorSync(w)
  <2>0. rw[w].pc = "fetch" /\ rw' = [rw EXCEPT ![w] = [rw[w] EXCEPT !.pc = "info"]]
        /\ git' = [git EXCEPT ![rw[w].row.repo] = "fetched"] /\ UNCHANGED <<mirrors, repos, queues, held>>
    BY <1>4 DEF MirrorSync
  <2>1. rw'[w].pc = "info" /\ rw'[w].t = rw[w].t /\ rw'[w].row = rw[w].row /\ rw'[w].repo = rw[w].repo
    BY <1>e, <2>0
  <2>2. \A r \in Repos : git[r] \in {"empty", "fetched"} => git'[r] \in {"empty", "fetched"}
    BY <1>n, <2>0
  <2>3. RepoWorks(w)
    BY <1>o, <2>0, <2>1, <2>2 DEF RepoWorks
  <2> QED BY <1>g, <2>3
<1>5. CASE SetInProgress(w)
  <2> DEFINE rec == [rw[w].repo EXCEPT !.sync = "inprogress"]
             s == [rw[w] EXCEPT !.pc = "meta", !.repo = rec]
  <2>0. rw[w].pc = "info" /\ rw' = [rw EXCEPT ![w] = s] /\ UpdateRepo(rw[w].row.repo, rec)
        /\ UNCHANGED <<mirrors, git, queues, held>>
    BY <1>5 DEF SetInProgress
  <2>1. rw[w] \in Going /\ rw[w].repo \in RRow
    BY <2>0, RepoFields
  <2>2. rec \in RRow
    <3>1. "inprogress" \in SyncStatus
      BY DEF SyncStatus
    <3> QED BY <2>1, <3>1, RowTypes
  <2>3. s.pc = "meta" /\ s.t = rw[w].t /\ s.row = rw[w].row /\ s.repo = rec
    <3> HIDE DEF rec
    <3> QED BY <2>1 DEF Going
  <2> HIDE DEF rec, s
  <2>4. rw'[w] = s /\ rec # NoRepo
    BY <1>n, <2>0, <2>2, Distinct
  <2>5. \A r \in Repos : /\ repos[r] # NoRepo => repos'[r] # NoRepo
                         /\ r # rw[w].row.repo => repos'[r] = repos[r]
                         /\ repos[r] = NoRepo => repos'[r] = NoRepo
    BY <1>n, <2>0, <2>4 DEF UpdateRepo
  <2>6. RepoWorks(w)
    BY <2>0, <2>3, <2>4, <2>5 DEF RepoWorks
  <2> QED BY <1>g, <2>6
<1>6. CASE generateLfsMetaObjects(w)
  <2> DEFINE a == [rw[w] EXCEPT !.pc = "push", !.row.st = "repo_synced"]
             b == [rw[w] EXCEPT !.pc = "complete", !.row.st = "finished"]
  <2>0. rw[w].pc = "meta" /\ UNCHANGED <<mirrors, repos, git, queues, held>>
        /\ (rw' = [rw EXCEPT ![w] = a] \/ rw' = [rw EXCEPT ![w] = b])
    BY <1>6 DEF generateLfsMetaObjects
  <2>1. rw[w] \in Going
    BY <2>0, RepoFields
  <2>2. a.pc = "push" /\ a.t = rw[w].t /\ a.repo = rw[w].repo /\ a.row.repo = rw[w].row.repo
        /\ b.pc = "complete" /\ b.t = rw[w].t /\ b.repo = rw[w].repo /\ b.row.repo = rw[w].row.repo
    BY <2>1 DEF Going, MRow
  <2> HIDE DEF a, b
  <2>3. rw'[w] \in {a, b}
    BY <1>n, <2>0
  <2>4. RepoWorks(w)
    BY <1>o, <2>0, <2>2, <2>3 DEF RepoWorks
  <2> QED BY <1>g, <2>4
<1>7. CASE PointersFail(w)
  <2>1. rw[w].pc = "meta"
    BY <1>7 DEF PointersFail
  <2> QED BY <1>7, <1>o, <2>1 DEF PointersFail
<1>8. CASE PushLfs(w)
  <2> DEFINE t == [rw[w].t EXCEPT !.prio = rw[w].row.prio]
  <2>0. rw[w].pc = "push" /\ rw' = [rw EXCEPT ![w] = [rw[w] EXCEPT !.pc = "save"]]
        /\ queues' = [queues EXCEPT !["lfs"] = @ \cup {t}] /\ UNCHANGED <<mirrors, repos, git, held>>
    BY <1>8 DEF PushLfs, Push
  <2>1. rw[w].t \in Task /\ t.m = rw[w].t.m
    <3>1. rw[w].t \in Task
      BY <2>0, RepoFields
    <3> QED BY <3>1 DEF Task
  <2>2. rw'[w].pc = "save" /\ rw'[w].t = rw[w].t /\ rw'[w].row = rw[w].row /\ rw'[w].repo = rw[w].repo
    BY <1>e, <2>0
  <2> HIDE DEF t
  <2>3. queues'["repo"] = queues["repo"] /\ queues'["lfs"] = queues["lfs"] \cup {t}
    BY <1>n, <2>0 DEF Kinds
  <2>4. RepoPushes(w)
    BY <1>o, <2>0, <2>1, <2>2, <2>3 DEF RepoPushes, Of
  <2> QED BY <1>g, <2>4
<1>9. CASE SetCompleted(w)
  <2> DEFINE rec == [rw[w].repo EXCEPT !.sync = "completed"]
  <2>0. rw[w].pc = "complete" /\ rw' = [rw EXCEPT ![w] = [rw[w] EXCEPT !.pc = "save"]]
        /\ UpdateRepo(rw[w].row.repo, rec) /\ UNCHANGED <<mirrors, git, queues, held>>
    BY <1>9 DEF SetCompleted
  <2>1. rw[w].repo \in RRow
    BY <2>0, RepoFields
  <2>2. rec \in RRow /\ rec.sync = "completed"
    <3>1. "completed" \in SyncStatus
      BY DEF SyncStatus
    <3> QED BY <2>1, <3>1 DEF RRow
  <2>3. rw'[w].pc = "save" /\ rw'[w].t = rw[w].t /\ rw'[w].row = rw[w].row /\ rw'[w].repo = rw[w].repo
    BY <1>e, <2>0
  <2>4. Pointers[rw[w].row.repo] = {}
    BY <1>o, <2>0 DEF RepoOK
  <2> HIDE DEF rec
  <2>5. repos'[rw[w].row.repo] = rec /\ \A x \in Repos : x # rw[w].row.repo => repos'[x] = repos[x]
    BY <1>n, <1>o, <2>0 DEF UpdateRepo
  <2>6. RepoCompletes(w)
    BY <1>o, <2>0, <2>2, <2>3, <2>4, <2>5, Distinct DEF RepoCompletes
  <2> QED BY <1>g, <2>6
<1>10. CASE SaveMirror(w)
  <2>1. rw[w].pc = "save" /\ rw' = [rw EXCEPT ![w] = Idle] /\ UNCHANGED <<repos, git, queues, held>>
    BY <1>10 DEF SaveMirror
  <2>2. Update(rw[w].t.m, rw[w].row)
    BY <1>10, <1>o, <2>1 DEF SaveMirror
  <2>3. Overwritten(rw[w].t.m) /\ mirrors'[rw[w].t.m] = rw[w].row
    BY <1>u, <1>o, <2>1, <2>2
  <2>4. rw[w].row.st \in {"repo_synced", "finished"}
    BY <1>o, <2>1 DEF RepoOK
  <2>5. rw'[w].pc = "idle"
    BY <1>n, <2>1, IdlePc
  <2>6. RepoSaves(w)
    BY <2>1, <2>3, <2>4, <2>5 DEF RepoSaves
  <2> QED BY <1>g, <2>6
<1>11. CASE RepoDbError(w)
  BY <1>11 DEF RepoDbError
<1> QED BY <1>1, <1>2, <1>3, <1>4, <1>5, <1>6, <1>7, <1>8, <1>9, <1>10, <1>11 DEF RepoWorker

LfsGoes(w) ==
  /\ \A v \in LfsWorkers : v # w => lw'[v] = lw[v]
  /\ UNCHANGED <<created, git, queues, rw, enq, cl>>

LfsReceives(w) ==
  /\ lw[w].pc = "idle" /\ held["lfs"] # NoTask /\ held["lfs"].m \in IDs
  /\ held' = [held EXCEPT !["lfs"] = NoTask]
  /\ lw'[w].pc = "list" /\ lw'[w].m = held["lfs"].m
  /\ lw'[w].row = mirrors[held["lfs"].m] /\ mirrors[held["lfs"].m] # NoRow
  /\ UNCHANGED <<mirrors, repos, stored>>

LfsWorks(w) ==
  /\ lw[w].pc \in {"list", "loop", "get", "progress"} /\ lw'[w].pc \in {"loop", "get", "progress"}
  /\ lw'[w].m = lw[w].m /\ lw'[w].row = lw[w].row
  /\ \A o \in Pointers[lw[w].row.repo] :
       o \in stored' \/ o \in lw'[w].todo \/ (lw'[w].pc = "get" /\ o \in lw'[w].cur)
  /\ mirrors' = mirrors \/ Overwritten(lw[w].m)
  /\ stored \subseteq stored'
  /\ UNCHANGED <<repos, held>>

LfsFinishes(w) ==
  /\ lw[w].pc = "loop" /\ lw'[w].pc = "complete"
  /\ lw'[w].m = lw[w].m /\ lw'[w].row.repo = lw[w].row.repo
  /\ Pointers[lw[w].row.repo] \subseteq stored
  /\ Overwritten(lw[w].m) /\ mirrors'[lw[w].m].st = "finished"
  /\ UNCHANGED <<repos, stored, held>>

LfsCompletes(w) ==
  LET r == lw[w].row.repo IN
  /\ lw[w].pc = "complete" /\ lw'[w].pc = "idle"
  /\ Pointers[r] \subseteq stored /\ repos'[r] # NoRepo /\ repos'[r].sync = "completed"
  /\ \A x \in Repos : x # r => repos'[x] = repos[x]
  /\ Overwritten(lw[w].m) /\ mirrors'[lw[w].m].st = "finished"
  /\ UNCHANGED <<stored, held>>

LEMMA LfsCalm ==
  ASSUME Typed, TrueInv, Orderly, ~Fault, NEW w \in LfsWorkers, LfsWorker(w)
  PROVE  LfsGoes(w) /\ (LfsReceives(w) \/ LfsWorks(w) \/ LfsFinishes(w) \/ LfsCompletes(w))
<1> USE DEF LfsStep, LfsUnchanged, At
<1>n. /\ lw \in [LfsWorkers -> LfsState] /\ repos \in [Repos -> RRow \cup {NoRepo}]
      /\ mirrors \in [IDs -> MRow \cup {NoRow}] /\ held \in [Kinds -> Task \cup {NoTask}]
  BY DEF Typed, TypedTables, TypedProcesses
<1>g. LfsGoes(w)
  <2>1. UNCHANGED <<created, git, queues, rw, enq, cl>>
    BY DEF LfsWorker, ReceiveLfs, GetLFSDownloadURLs, StatObject, DownloadAndUploadLFSFile,
       UpdateProgress, SetFinished, SaveCompleted, LfsError, SyncLfsFailed, Recover, tables
  <2>2. \E s : lw' = [lw EXCEPT ![w] = s]
    <3>1. ReceiveLfs(w) \/ GetLFSDownloadURLs(w) \/ StatObject(w) => \E s : lw' = [lw EXCEPT ![w] = s]
      BY DEF ReceiveLfs, GetLFSDownloadURLs, StatObject
    <3>2. DownloadAndUploadLFSFile(w) \/ UpdateProgress(w) \/ SetFinished(w)
          => \E s : lw' = [lw EXCEPT ![w] = s]
      BY DEF DownloadAndUploadLFSFile, UpdateProgress, SetFinished
    <3>3. SaveCompleted(w) \/ LfsError(w) \/ SyncLfsFailed(w) \/ Recover(w)
          => \E s : lw' = [lw EXCEPT ![w] = s]
      BY DEF SaveCompleted, LfsError, SyncLfsFailed, Recover
    <3> QED BY <3>1, <3>2, <3>3 DEF LfsWorker
  <2>3. \A v \in LfsWorkers : v # w => lw'[v] = lw[v]
    BY <1>n, <2>2
  <2> QED BY <2>1, <2>3 DEF LfsGoes
<1>o. lw[w].pc # "idle" =>
        /\ lw[w] \in Fetching /\ lw[w].row \in MRow /\ lw[w].m \in IDs /\ lw[w].row.repo \in Repos
        /\ lw[w].repo \in RRow
        /\ mirrors[lw[w].m] # NoRow /\ mirrors[lw[w].m].repo = lw[w].row.repo
        /\ repos[lw[w].row.repo] # NoRepo
        /\ LfsOK(now, lw[w]) /\ CalmLfs(w)
  <2> SUFFICES ASSUME lw[w].pc # "idle"
               PROVE  /\ lw[w] \in Fetching /\ lw[w].row \in MRow /\ lw[w].m \in IDs
                      /\ lw[w].row.repo \in Repos /\ lw[w].repo \in RRow
                      /\ mirrors[lw[w].m] # NoRow /\ mirrors[lw[w].m].repo = lw[w].row.repo
                      /\ repos[lw[w].row.repo] # NoRepo
                      /\ LfsOK(now, lw[w]) /\ CalmLfs(w)
    OBVIOUS
  <2>1. lw[w] \in Fetching /\ lw[w].row \in MRow /\ lw[w].m \in IDs /\ lw[w].row.repo \in Repos
        /\ lw[w].repo \in RRow
    BY LfsFields
  <2>2. LfsOK(now, lw[w]) /\ CalmLfs(w)
    BY DEF TrueInv, Orderly
  <2>3. RowOf(now, lw[w].m, lw[w].row)
    BY <2>2 DEF LfsOK
  <2>4. mirrors[lw[w].m] # NoRow /\ mirrors[lw[w].m].repo = lw[w].row.repo
        /\ repos[lw[w].row.repo] # NoRepo
    BY <2>1, <2>3, NowIs DEF RowOf, Orderly, CalmRows
  <2> QED BY <2>1, <2>2, <2>4
<1>u. ASSUME lw[w].pc # "idle", NEW row \in MRow, row.repo = lw[w].row.repo,
             \/ Update(lw[w].m, row)
             \/ mirrors' = [mirrors EXCEPT ![lw[w].m] = IF @ = NoRow THEN NoRow ELSE row]
      PROVE  Overwritten(lw[w].m) /\ mirrors'[lw[w].m] = row
  <2>1. lw[w].m \in IDs /\ mirrors[lw[w].m] # NoRow /\ mirrors[lw[w].m].repo = row.repo /\ row # NoRow
    BY <1>o, <1>u, Distinct
  <2>2. mirrors' = [mirrors EXCEPT ![lw[w].m] = row]
    BY <1>n, <1>u, <2>1 DEF Update
  <2> QED BY <1>n, <2>1, <2>2 DEF Overwritten
<1>1. CASE ReceiveLfs(w)
  <2> DEFINE m == held["lfs"].m
             s == [pc |-> "list", m |-> m, row |-> mirrors[m], repo |-> repos[mirrors[m].repo],
                   todo |-> {}, cur |-> {}]
  <2>1. UNCHANGED <<mirrors, repos, stored>> /\ held["lfs"] # NoTask /\ lw[w] = Idle
        /\ held' = [held EXCEPT !["lfs"] = NoTask]
    BY <1>1 DEF ReceiveLfs, tables
  <2>2. "lfs" \in Kinds /\ held["lfs"] \in Task
    BY <1>n, <2>1 DEF Kinds
  <2>3. m \in IDs /\ TaskOK(now, "lfs", held["lfs"])
    BY <2>1, <2>2 DEF Task, TrueInv
  <2>4. mirrors[m] # NoRow /\ repos[mirrors[m].repo] # NoRepo
    BY <2>3, NowIs DEF TaskOK, Orderly, CalmRows
  <2>5. lw' = [lw EXCEPT ![w] = s]
    BY <1>1, <2>4 DEF ReceiveLfs
  <2>6. lw'[w] = s
    BY <1>n, <2>5
  <2> QED BY <1>g, <2>1, <2>3, <2>4, <2>6, IdlePc DEF LfsReceives
<1>2. CASE GetLFSDownloadURLs(w)
  <2> DEFINE objs == meta[lw[w].row.repo]
             b == [lw[w] EXCEPT !.pc = "loop", !.todo = objs]
  <2>0. lw[w].pc = "list" /\ UNCHANGED <<mirrors, repos, stored, held>>
    BY <1>2 DEF GetLFSDownloadURLs
  <2>1. objs # {} /\ objs = Pointers[lw[w].row.repo]
    BY <1>o, <2>0, NowIs DEF LfsOK, LfsReady
  <2>2. lw' = [lw EXCEPT ![w] = b]
    BY <1>2, <2>1 DEF GetLFSDownloadURLs
  <2>3. b.pc = "loop" /\ b.m = lw[w].m /\ b.row = lw[w].row /\ b.todo = objs
    BY <1>o, <2>0 DEF Fetching
  <2> HIDE DEF b
  <2>4. lw'[w] = b
    BY <1>n, <2>2
  <2>5. LfsWorks(w)
    BY <2>0, <2>1, <2>3, <2>4 DEF LfsWorks
  <2> QED BY <1>g, <2>5
<1>3. CASE StatObject(w)
  <2>0. lw[w].pc = "loop" /\ UNCHANGED <<mirrors, repos, stored, held>>
    BY <1>3 DEF StatObject
  <2>1. PICK o \in lw[w].todo :
          LET rest == [lw[w] EXCEPT !.todo = @ \ {o}, !.cur = {o}] IN
          lw' = [lw EXCEPT ![w] = [rest EXCEPT !.pc = IF o \in stored THEN "progress" ELSE "get"]]
    BY <1>3 DEF StatObject
  <2> DEFINE rest == [lw[w] EXCEPT !.todo = @ \ {o}, !.cur = {o}]
             p == IF o \in stored THEN "progress" ELSE "get"
             a == [rest EXCEPT !.pc = p]
  <2>2. a.pc = p /\ a.m = lw[w].m /\ a.row = lw[w].row /\ a.todo = lw[w].todo \ {o} /\ a.cur = {o}
    <3> HIDE DEF p
    <3> QED BY <1>o, <2>0 DEF Fetching
  <2>3. lw' = [lw EXCEPT ![w] = a]
    BY <2>1
  <2> HIDE DEF a
  <2>4. lw'[w] = a
    BY <1>n, <2>3
  <2>5. \A x \in Pointers[lw[w].row.repo] : x \in stored \/ x \in lw[w].todo
    BY <1>o, <2>0 DEF CalmLfs
  <2>6. LfsWorks(w)
    BY <2>0, <2>2, <2>4, <2>5 DEF LfsWorks
  <2> QED BY <1>g, <2>6
<1>4. CASE DownloadAndUploadLFSFile(w)
  <2> DEFINE a == [lw[w] EXCEPT !.pc = "progress"]
  <2>0. lw[w].pc = "get" /\ lw' = [lw EXCEPT ![w] = a] /\ stored' = stored \cup lw[w].cur
        /\ UNCHANGED <<mirrors, repos, held>>
    BY <1>4 DEF DownloadAndUploadLFSFile
  <2>1. a.pc = "progress" /\ a.m = lw[w].m /\ a.row = lw[w].row /\ a.todo = lw[w].todo
    BY <1>o, <2>0 DEF Fetching
  <2> HIDE DEF a
  <2>2. lw'[w] = a
    BY <1>n, <2>0
  <2>3. \A o \in Pointers[lw[w].row.repo] : o \in stored \/ o \in lw[w].todo \/ o \in lw[w].cur
    BY <1>o, <2>0 DEF CalmLfs
  <2>4. LfsWorks(w)
    BY <2>0, <2>1, <2>2, <2>3 DEF LfsWorks
  <2> QED BY <1>g, <2>4
<1>5. CASE UpdateProgress(w)
  <2> DEFINE a == [lw[w] EXCEPT !.pc = "loop", !.cur = {}]
  <2>0. lw[w].pc = "progress" /\ UNCHANGED <<repos, stored, held>>
    BY <1>5 DEF UpdateProgress
  <2>1. lw' = [lw EXCEPT ![w] = a] /\ Update(lw[w].m, lw[w].row)
    BY <1>5, <1>o, <2>0 DEF UpdateProgress
  <2>2. a.pc = "loop" /\ a.m = lw[w].m /\ a.row = lw[w].row /\ a.todo = lw[w].todo
    BY <1>o, <2>0 DEF Fetching
  <2> HIDE DEF a
  <2>3. lw'[w] = a
    BY <1>n, <2>1
  <2>4. \A o \in Pointers[lw[w].row.repo] : o \in stored \/ o \in lw[w].todo
    BY <1>o, <2>0 DEF CalmLfs
  <2>5. Overwritten(lw[w].m)
    BY <1>o, <1>u, <2>0, <2>1
  <2>6. LfsWorks(w)
    BY <2>0, <2>2, <2>3, <2>4, <2>5 DEF LfsWorks
  <2> QED BY <1>g, <2>6
<1>6. CASE SetFinished(w)
  <2> DEFINE row == [lw[w].row EXCEPT !.st = "finished"]
             b == [lw[w] EXCEPT !.pc = "complete", !.row = row]
  <2>0. lw[w].pc = "loop" /\ lw[w].todo = {} /\ UNCHANGED <<repos, stored, held>>
    BY <1>6 DEF SetFinished
  <2>1. lw' = [lw EXCEPT ![w] = b] /\ Update(lw[w].m, row)
    BY <1>6, <1>o, <2>0 DEF SetFinished
  <2>2. row \in MRow /\ row.repo = lw[w].row.repo /\ row.st = "finished"
    <3>1. "finished" \in Status
      BY DEF Status
    <3> QED BY <1>o, <2>0, <3>1 DEF MRow
  <2>3. b.pc = "complete" /\ b.m = lw[w].m /\ b.row = row
    BY <1>o, <2>0 DEF Fetching
  <2> HIDE DEF row, b
  <2>4. lw'[w] = b
    BY <1>n, <2>1
  <2>5. Pointers[lw[w].row.repo] \subseteq stored
    BY <1>o, <2>0 DEF CalmLfs
  <2>6. Overwritten(lw[w].m) /\ mirrors'[lw[w].m] = row
    BY <1>u, <2>0, <2>1, <2>2
  <2>7. LfsFinishes(w)
    BY <2>0, <2>2, <2>3, <2>4, <2>5, <2>6 DEF LfsFinishes
  <2> QED BY <1>g, <2>7
<1>7. CASE SaveCompleted(w)
  <2> DEFINE rec == [lw[w].repo EXCEPT !.sync = "completed"]
  <2>0. lw[w].pc = "complete" /\ lw' = [lw EXCEPT ![w] = Idle] /\ UNCHANGED <<stored, held>>
        /\ UpdateMirrorAndRepository(lw[w].m, lw[w].row, lw[w].row.repo, rec)
    BY <1>7 DEF SaveCompleted
  <2>1. rec \in RRow /\ rec.sync = "completed"
    <3>1. "completed" \in SyncStatus
      BY DEF SyncStatus
    <3> QED BY <1>o, <2>0, <3>1 DEF RRow
  <2> HIDE DEF rec
  <2>2. lw'[w].pc = "idle"
    BY <1>n, <2>0, IdlePc
  <2>3. Pointers[lw[w].row.repo] \subseteq stored /\ lw[w].row.st = "finished"
    BY <1>o, <2>0 DEF CalmLfs, LfsOK
  <2>4. Overwritten(lw[w].m) /\ mirrors'[lw[w].m] = lw[w].row
    BY <1>u, <1>o, <2>0 DEF UpdateMirrorAndRepository
  <2>5. repos'[lw[w].row.repo] = rec /\ \A x \in Repos : x # lw[w].row.repo => repos'[x] = repos[x]
    BY <1>n, <1>o, <2>0 DEF UpdateMirrorAndRepository, UpdateRepo
  <2>6. LfsCompletes(w)
    BY <2>0, <2>1, <2>2, <2>3, <2>4, <2>5, Distinct DEF LfsCompletes
  <2> QED BY <1>g, <2>6
<1>8. CASE LfsError(w)
  BY <1>8 DEF LfsError
<1>9. CASE SyncLfsFailed(w) \/ Recover(w)
  <2>1. lw[w].pc \in {"fail", "panic"}
    BY <1>9 DEF SyncLfsFailed, Recover
  <2> QED BY <1>o, <2>1 DEF CalmLfs
<1> QED BY <1>1, <1>2, <1>3, <1>4, <1>5, <1>6, <1>7, <1>8, <1>9 DEF LfsWorker

ClientGoes(c) ==
  /\ \A d \in Clients : d # c => cl'[d] = cl[d]
  /\ enq.pc = "done"
  /\ UNCHANGED <<stored, held, rw, lw, enq>>

\* A request begins with a copy of the rows; it may create a repository or make
\* the git server clone one.
Begins(c) ==
  /\ cl[c].pc = "idle" /\ cl'[c].pc \in {"insert", "push", "saverepo"}
  /\ cl'[c].op \in load.ops /\ (cl'[c].pc = "saverepo" => cl'[c].op \in {"saas", "edit"})
  /\ repos'[cl'[c].r] # NoRepo
  /\ \A r \in Repos : /\ repos[r] # NoRepo => repos'[r] = repos[r]
                      /\ git[r] \in {"empty", "fetched"} => git'[r] \in {"empty", "fetched"}
                      /\ repos'[r] # NoRepo /\ repos[r] = NoRepo => git'[r] \in {"empty", "fetched"}
  /\ UNCHANGED <<mirrors, created, queues>>

Inserts(c) ==
  /\ cl[c].pc = "insert" /\ cl'[c].pc = "push" /\ cl'[c].op = cl[c].op /\ cl'[c].r = cl[c].r
  /\ created + 1 \in IDs /\ created' = created + 1 /\ cl'[c].m = created + 1
  /\ mirrors'[created + 1] # NoRow /\ mirrors'[created + 1].repo = cl[c].r
  /\ \A m \in IDs : m # created + 1 => mirrors'[m] = mirrors[m]
  /\ UNCHANGED <<repos, git, queues>>

PushesTask(c) ==
  /\ cl[c].pc = "push" /\ cl'[c].pc \in {"save", "saverepo"}
  /\ cl'[c].op = cl[c].op /\ cl'[c].r = cl[c].r
  /\ cl'[c].pc = "save" => cl'[c].row.st = "waiting" /\ cl'[c].m = cl[c].m
  /\ cl'[c].pc = "saverepo" => cl'[c].op = "saas"
  /\ Of(cl[c].m, cl[c].r)
  /\ queues'["lfs"] = queues["lfs"] /\ queues["repo"] \subseteq queues'["repo"]
  /\ \E t \in queues'["repo"] : t.m = cl[c].m
  /\ UNCHANGED <<mirrors, created, repos, git>>

SavesRow(c) ==
  /\ cl[c].pc = "save" /\ cl'[c].pc = "idle"
  /\ Overwritten(cl[c].m) /\ mirrors'[cl[c].m].st = "waiting"
  /\ UNCHANGED <<created, repos, git, queues>>

SavesRepo(c) ==
  /\ cl[c].pc = "saverepo" /\ cl'[c].pc = "idle" /\ cl[c].op \in {"saas", "edit"}
  /\ \A r \in Repos : repos[r] # NoRepo <=> repos'[r] # NoRepo
  /\ UNCHANGED <<mirrors, created, git, queues>>

LEMMA BeginCalm ==
  ASSUME Typed, TrueInv, Orderly, Untroubled, NEW c \in Clients, NEW r \in Repos, Begin(c, r)
  PROVE  ClientGoes(c) /\ Begins(c)
<1> USE DEF Call, ClientUnchanged
<1>n. /\ cl \in [Clients -> ClientState] /\ repos \in [Repos -> RRow \cup {NoRepo}]
      /\ git \in [Repos -> {"none", "empty", "fetched", "gone"}]
  BY DEF Typed, TypedTables, TypedProcesses
<1>x. load.ops \cap {"update", "delete", "drop"} = {}
  BY DEF Untroubled
<1>i. cl[c] = Idle => cl[c].pc = "idle"
  BY IdlePc
<1>t. ASSUME enq.pc = "done", cl[c] = Idle, UNCHANGED <<stored, held, rw, lw, enq, mirrors, created, queues>>,
             NEW s, cl' = [cl EXCEPT ![c] = s], s.pc \in {"insert", "push", "saverepo"},
             s.op \in load.ops, s.pc = "saverepo" => s.op \in {"saas", "edit"}, s.r = r,
             repos'[r] # NoRepo,
             \A x \in Repos : /\ repos[x] # NoRepo => repos'[x] = repos[x]
                              /\ git[x] \in {"empty", "fetched"} => git'[x] \in {"empty", "fetched"}
                              /\ repos'[x] # NoRepo /\ repos[x] = NoRepo => git'[x] \in {"empty", "fetched"}
      PROVE  ClientGoes(c) /\ Begins(c)
  <2>1. cl'[c] = s /\ \A d \in Clients : d # c => cl'[d] = cl[d]
    BY <1>n, <1>t
  <2> QED BY <1>i, <1>t, <2>1 DEF ClientGoes, Begins
<1>h. ASSUME enq.pc = "done", cl[c] = Idle, repos[r] # NoRepo,
             UNCHANGED <<stored, held, rw, lw, enq, mirrors, created, queues, repos>>,
             \A x \in Repos : git[x] \in {"empty", "fetched"} => git'[x] \in {"empty", "fetched"},
             NEW pc \in {"insert", "push"}, NEW op \in load.ops, NEW m, NEW row,
             cl' = [cl EXCEPT ![c] = Holding(pc, op, r, m, row)]
      PROVE  ClientGoes(c) /\ Begins(c)
  <2> DEFINE s == Holding(pc, op, r, m, row)
  <2>1. s.pc = pc /\ s.op = op /\ s.r = r
    BY DEF Holding
  <2>2. \A x \in Repos : /\ repos[x] # NoRepo => repos'[x] = repos[x]
                         /\ repos'[x] # NoRepo /\ repos[x] = NoRepo => git'[x] \in {"empty", "fetched"}
    BY <1>h
  <2> HIDE DEF s
  <2>3. cl' = [cl EXCEPT ![c] = s]
    BY <1>h DEF s
  <2> QED BY <1>h, <1>t, <2>1, <2>2, <2>3
<1>1. CASE CreateMirror(c, r)
  <2>1. /\ enq.pc = "done" /\ cl[c] = Idle /\ "create" \in load.ops /\ repos[r] # NoRepo
        /\ UNCHANGED <<stored, held, rw, lw, enq, mirrors, created, queues, repos, git>>
        /\ cl' = [cl EXCEPT ![c] = Holding("insert", "create", r, 0, NewRow(r, 0))]
    BY <1>1 DEF CreateMirror
  <2> QED BY <1>h, <2>1
<1>2. CASE CreateMirrorRepo(c, r)
  <2> DEFINE rec == [sync |-> "none", edit |-> 0]
             s == [Holding("insert", "crawl", r, 0, NewRow(r, 3)) EXCEPT !.repo = repos'[r]]
  <2>1. /\ enq.pc = "done" /\ cl[c] = Idle /\ "crawl" \in load.ops
        /\ UNCHANGED <<stored, held, rw, lw, enq, mirrors, created, queues>>
        /\ cl' = [cl EXCEPT ![c] = s] /\ git' = [git EXCEPT ![r] = "empty"]
        /\ repos' = [repos EXCEPT ![r] = rec] /\ repos[r] = NoRepo
    BY <1>2 DEF CreateMirrorRepo
  <2>2. s.pc = "insert" /\ s.op = "crawl" /\ s.r = r
    BY DEF Holding
  <2>3. rec # NoRepo
    BY DEF NoRepo
  <2> HIDE DEF s, rec
  <2>4. repos'[r] # NoRepo /\ \A x \in Repos : x # r => repos'[x] = repos[x] /\ git'[x] = git[x]
    BY <1>n, <2>1, <2>3
  <2>5. git'[r] = "empty"
    BY <1>n, <2>1
  <2>6. \A x \in Repos : /\ repos[x] # NoRepo => repos'[x] = repos[x]
                         /\ git[x] \in {"empty", "fetched"} => git'[x] \in {"empty", "fetched"}
                         /\ repos'[x] # NoRepo /\ repos[x] = NoRepo => git'[x] \in {"empty", "fetched"}
    BY <2>1, <2>4, <2>5
  <2> QED BY <1>t, <2>1, <2>2, <2>4, <2>6
<1>3. CASE MirrorFromSaas(c, r)
  <2>1. /\ enq.pc = "done" /\ cl[c] = Idle /\ "saas" \in load.ops /\ repos[r] # NoRepo
        /\ UNCHANGED <<stored, held, rw, lw, enq, mirrors, created, queues, repos>>
        /\ UNCHANGED git \/ git' = [git EXCEPT ![r] = "fetched"]
    BY <1>3 DEF MirrorFromSaas
  <2>2. \A x \in Repos : git[x] \in {"empty", "fetched"} => git'[x] \in {"empty", "fetched"}
    BY <1>n, <2>1
  <2>3. \E pc \in {"insert", "push"} : \E m, row : cl' = [cl EXCEPT ![c] = Holding(pc, "saas", r, m, row)]
    BY <1>3 DEF MirrorFromSaas
  <2>4. PICK pc \in {"insert", "push"} : \E m, row : cl' = [cl EXCEPT ![c] = Holding(pc, "saas", r, m, row)]
    BY <2>3
  <2>5. PICK m, row : cl' = [cl EXCEPT ![c] = Holding(pc, "saas", r, m, row)]
    BY <2>4
  <2> QED BY <1>h, <2>1, <2>2, <2>5
<1>4. CASE SyncMirror(c, r)
  <2>1. /\ enq.pc = "done" /\ cl[c] = Idle /\ "sync" \in load.ops /\ repos[r] # NoRepo
        /\ UNCHANGED <<stored, held, rw, lw, enq, mirrors, created, queues, repos, git>>
    BY <1>4 DEF SyncMirror
  <2>2. PICK m \in IDs : cl' = [cl EXCEPT ![c] = Holding("push", "sync", r, m, [mirrors[m] EXCEPT !.prio = 3])]
    BY <1>4 DEF SyncMirror
  <2> QED BY <1>h, <2>1, <2>2
<1>5. CASE UpdateMirror(c, r) \/ DeleteMirror(c, r)
  BY <1>5, <1>x DEF UpdateMirror, DeleteMirror
<1>6. CASE EditRepo(c, r)
  <2> DEFINE s == [pc |-> "saverepo", op |-> "edit", r |-> r, repo |-> [repos[r] EXCEPT !.edit = @ + 1]]
  <2>1. cl' = [cl EXCEPT ![c] = s] /\ s.pc = "saverepo" /\ s.op = "edit" /\ s.r = r
    BY <1>6 DEF EditRepo
  <2> HIDE DEF s
  <2> QED BY <1>6, <1>t, <2>1 DEF EditRepo
<1>7. CASE DeleteRepo(c, r) /\ cl[c] = Idle
  BY <1>7, <1>i, <1>x DEF DeleteRepo, ClientStep
<1> QED BY <1>1, <1>2, <1>3, <1>4, <1>5, <1>6, <1>7 DEF Begin

LEMMA RequestCalm ==
  ASSUME Typed, TrueInv, Orderly, ~Fault, NEW c \in Clients, Request(c) \/ RequestFails(c)
  PROVE  ClientGoes(c) /\ (Inserts(c) \/ PushesTask(c) \/ SavesRow(c) \/ SavesRepo(c))
<1> USE DEF ClientUnchanged, ClientStep
<1>n. /\ cl \in [Clients -> ClientState] /\ repos \in [Repos -> RRow \cup {NoRepo}]
      /\ mirrors \in [IDs -> MRow \cup {NoRow}] /\ queues \in [Kinds -> SUBSET Task]
      /\ created \in 0..MaxMirrors
  BY DEF Typed, TypedTables, TypedProcesses
<1>o. ClientOK(now, cl[c]) /\ CalmClient(c)
  BY DEF TrueInv, Orderly
<1>i. cl[c].pc # "idle"
  BY ClientFields DEF Request, RequestFails, InsertMirror, PushRepoMirror, SaveRow, SaveRepo
<1>d. enq.pc = "done"
  BY <1>i DEF Orderly, CalmStart
<1>t. ASSUME UNCHANGED <<stored, held, rw, lw, enq>>, NEW s, cl' = [cl EXCEPT ![c] = s]
      PROVE  ClientGoes(c) /\ cl'[c] = s
  BY <1>d, <1>n, <1>t DEF ClientGoes

\* A request with a mirror: its row is there.
<1>m. cl[c].pc \in {"push", "save"} =>
        cl[c].m \in IDs /\ cl[c].row \in MRow /\ cl[c].row.repo = cl[c].r
        /\ mirrors[cl[c].m] # NoRow /\ mirrors[cl[c].m].repo = cl[c].r
  <2> SUFFICES ASSUME cl[c].pc \in {"push", "save"}
               PROVE  cl[c].m \in IDs /\ cl[c].row \in MRow /\ cl[c].row.repo = cl[c].r
                      /\ mirrors[cl[c].m] # NoRow /\ mirrors[cl[c].m].repo = cl[c].r
    OBVIOUS
  <2>1. cl[c].m \in IDs /\ cl[c].row \in MRow
    BY ClientFields DEF Holder
  <2>2. RowOf(now, cl[c].m, cl[c].row) /\ cl[c].row.repo = cl[c].r
    BY <1>o DEF ClientOK
  <2> QED BY <2>1, <2>2, NowIs DEF RowOf, Orderly, CalmRows
<1>1. CASE InsertMirror(c)
  <2> DEFINE s == [[cl[c] EXCEPT !.pc = "push"] EXCEPT !.m = created + 1]
  <2>0. /\ created < MaxMirrors /\ cl[c].pc = "insert" /\ cl' = [cl EXCEPT ![c] = s]
        /\ created' = created + 1 /\ mirrors' = [mirrors EXCEPT ![created + 1] = cl[c].row]
        /\ UNCHANGED <<repos, git, queues>> /\ UNCHANGED <<stored, held, rw, lw, enq>>
    BY <1>1 DEF InsertMirror, At0
  <2>1. cl[c] \in Inserter /\ cl[c].row \in MRow /\ cl[c].row.repo = cl[c].r /\ created + 1 \in IDs
    <3>1. cl[c] \in Inserter
      BY <2>0, ClientFields
    <3>2. created + 1 \in IDs
      BY <1>n, <2>0, MirrorAssumption DEF IDs
    <3> QED BY <1>o, <2>0, <3>1, <3>2 DEF Inserter, ClientOK
  <2>2. s.pc = "push" /\ s.r = cl[c].r /\ s.m = created + 1 /\ s.op = cl[c].op
    BY <2>1 DEF Inserter
  <2> HIDE DEF s
  <2>3. ClientGoes(c) /\ cl'[c] = s
    BY <1>t, <2>0
  <2>4. mirrors'[created + 1] = cl[c].row /\ \A m \in IDs : m # created + 1 => mirrors'[m] = mirrors[m]
    BY <1>n, <2>0, <2>1
  <2>5. Inserts(c)
    BY <2>0, <2>1, <2>2, <2>3, <2>4, Distinct DEF Inserts
  <2> QED BY <2>3, <2>5
<1>2. CASE PushRepoMirror(c)
  <2>p. PICK late \in BOOLEAN : PushesLate(c, late)
    BY <1>2, <1>n DEF PushRepoMirror, PushesLate
  <2> DEFINE a == [[cl[c] EXCEPT !.pc = "saverepo"] EXCEPT !.repo.sync = "pending"]
             b == [[cl[c] EXCEPT !.pc = "save"] EXCEPT !.row.st = "waiting"]
             t == [m |-> cl[c].m, prio |-> cl[c].row.prio, saas |-> cl[c].op = "saas", late |-> late]
  <2>0. /\ cl[c].pc = "push" /\ queues' = [queues EXCEPT !["repo"] = @ \cup {t}]
        /\ UNCHANGED <<mirrors, created, repos, git>> /\ UNCHANGED <<stored, held, rw, lw, enq>>
        /\ IF cl[c].op = "saas" THEN cl' = [cl EXCEPT ![c] = a] ELSE cl' = [cl EXCEPT ![c] = b]
    BY <1>2, <2>p DEF PushRepoMirror, At0, Push, PushesLate
  <2>1. cl[c] \in Holder
    BY <2>0, ClientFields
  <2>2. a.pc = "saverepo" /\ a.r = cl[c].r /\ a.op = cl[c].op
    BY <2>1 DEF Holder
  <2>3. b.pc = "save" /\ b.r = cl[c].r /\ b.m = cl[c].m /\ b.op = cl[c].op /\ b.row.st = "waiting"
    BY <2>1 DEF Holder, MRow
  <2>4. t.m = cl[c].m
    OBVIOUS
  <2> HIDE DEF a, b, t
  <2>5. queues'["lfs"] = queues["lfs"] /\ queues'["repo"] = queues["repo"] \cup {t}
    BY <1>n, <2>0 DEF Kinds
  <2>6. ClientGoes(c) /\ (IF cl[c].op = "saas" THEN cl'[c] = a ELSE cl'[c] = b)
    <3>1. CASE cl[c].op = "saas"
      BY <1>t, <2>0, <3>1
    <3>2. CASE cl[c].op # "saas"
      BY <1>t, <2>0, <3>2
    <3> QED BY <3>1, <3>2
  <2>7. Of(cl[c].m, cl[c].r)
    BY <1>m, <2>0 DEF Of
  <2>8. PushesTask(c)
    BY <2>0, <2>2, <2>3, <2>4, <2>5, <2>6, <2>7 DEF PushesTask
  <2> QED BY <2>6, <2>8
<1>3. CASE SaveRow(c)
  <2>0. /\ cl[c].pc = "save" /\ cl' = [cl EXCEPT ![c] = Idle] /\ UNCHANGED <<created, repos, git, queues>>
        /\ UNCHANGED <<stored, held, rw, lw, enq>> /\ UNCHANGED git
    BY <1>3 DEF SaveRow
  <2>1. mirrors' = [mirrors EXCEPT ![cl[c].m] = cl[c].row]
    BY <1>3, <1>m, <2>0 DEF SaveRow, Update
  <2>2. Overwritten(cl[c].m) /\ mirrors'[cl[c].m] = cl[c].row
    BY <1>n, <1>m, <2>0, <2>1, Distinct DEF Overwritten
  <2>3. cl[c].row.st = "waiting"
    BY <1>o, <2>0 DEF CalmClient
  <2>4. ClientGoes(c) /\ cl'[c].pc = "idle"
    BY <1>t, <2>0, IdlePc
  <2>5. SavesRow(c)
    BY <2>0, <2>2, <2>3, <2>4 DEF SavesRow
  <2> QED BY <2>4, <2>5
<1>4. CASE SaveRepo(c)
  <2>0. /\ cl[c].pc = "saverepo" /\ cl' = [cl EXCEPT ![c] = Idle]
        /\ UNCHANGED <<mirrors, created, git, queues>>
        /\ UNCHANGED <<stored, held, rw, lw, enq>> /\ UpdateRepo(cl[c].r, cl[c].repo)
    BY <1>4 DEF SaveRepo
  <2>1. cl[c].r \in Repos /\ cl[c].repo \in RRow
    BY <2>0, ClientFields DEF Holder, Editor
  <2>2. \A r \in Repos : repos[r] # NoRepo <=> repos'[r] # NoRepo
    BY <1>n, <2>0, <2>1, Distinct DEF UpdateRepo
  <2>3. ClientGoes(c) /\ cl'[c].pc = "idle"
    BY <1>t, <2>0, IdlePc
  <2>4. SavesRepo(c)
    BY <1>o, <2>0, <2>2, <2>3 DEF SavesRepo, CalmClient
  <2> QED BY <2>3, <2>4
<1>5. CASE RequestFails(c)
  BY <1>5 DEF RequestFails
<1>6. CASE \E r \in Repos : DeleteRepo(c, r) /\ cl[c] # Idle
  BY <1>6, <1>o, <1>i DEF DeleteRepo, Call, CalmClient
<1> QED BY <1>1, <1>2, <1>3, <1>4, <1>5, <1>6 DEF Request

QueueGoes(k) ==
  /\ held[k] = NoTask
  /\ \E t \in queues[k] : queues' = [queues EXCEPT ![k] = @ \ {t}] /\ held' = [held EXCEPT ![k] = t]
  /\ UNCHANGED <<mirrors, created, repos, git, stored, rw, lw, enq, cl>>

LEMMA QueueCalm ==
  ASSUME ~Fault, NEW k \in Kinds, dispatcher(k) \/ PopLost(k)
  PROVE  QueueGoes(k)
BY DEF dispatcher, PopLost, QueueGoes, tables

EnqueueGoes ==
  /\ enq.pc # "done" /\ enq'.pc # "save" /\ enq'.todo = {}
  /\ UNCHANGED <<mirrors, created, repos, git, stored, queues, held, rw, lw, cl>>

LEMMA EnqueueCalm ==
  ASSUME Typed, TrueInv, Orderly, ~Fault, Enqueue
  PROVE  EnqueueGoes
<1>1. enq.pc # "save" /\ enq.todo = {} /\ (enq.pc # "done" => created = 0)
  BY DEF Orderly, CalmStart
<1>2. ListToSync
  BY <1>1 DEF Enqueue, EnqueueMirrorTasks, SaveWaiting, EnqStep
<1>3. enq.pc # "done" /\ created = 0
  BY <1>1, <1>2 DEF ListToSync, EnqStep
<1>4. \A m \in IDs : mirrors[m] = NoRow
  <2>1. \A m \in IDs : m \in Nat /\ m >= 1
    BY MirrorAssumption DEF IDs
  <2>2. \A m \in IDs : mirrors[m] # NoRow => m <= created
    BY NowIs DEF TrueInv, MirrorOK
  <2> QED BY <1>3, <2>1, <2>2
<1>5. Copies(ToSyncRepo) = {} /\ Copies(ToSyncLfs) = {}
  BY <1>4 DEF Copies, ToSyncRepo, ToSyncLfs
<1>6. enq'.pc # "save" /\ enq'.todo = {}
  BY <1>2, <1>5 DEF ListToSync, EnqStep
<1>7. UNCHANGED <<mirrors, created, repos, git, stored, queues, held, rw, lw, cl>>
  BY <1>2 DEF ListToSync, EnqUnchanged
<1> QED BY <1>3, <1>6, <1>7 DEF EnqueueGoes

\* All that can happen.
CalmStep ==
  \/ \E k \in Kinds : QueueGoes(k)
  \/ \E w \in RepoWorkers :
       RepoGoes(w) /\ (RepoReceives(w) \/ RepoWorks(w) \/ RepoPushes(w) \/ RepoCompletes(w) \/ RepoSaves(w))
  \/ \E w \in LfsWorkers :
       LfsGoes(w) /\ (LfsReceives(w) \/ LfsWorks(w) \/ LfsFinishes(w) \/ LfsCompletes(w))
  \/ \E c \in Clients :
       ClientGoes(c) /\ (Begins(c) \/ Inserts(c) \/ PushesTask(c) \/ SavesRow(c) \/ SavesRepo(c))
  \/ EnqueueGoes

LEMMA CalmSteps ==
  ASSUME Typed, TrueInv, Orderly, Untroubled, ~Fault, ~Crash, Next
  PROVE  CalmStep
BY RepoCalm, LfsCalm, BeginCalm, RequestCalm, QueueCalm, EnqueueCalm DEF Next, CalmStep

----------------------------------------------------------------------------
(* Everything stays in order. *)

\* Rows and repositories stay, whatever step it is.
LEMMA RowsStay ==
  ASSUME Typed, TrueInv, Orderly, CalmStep
  PROVE  /\ \A m \in IDs : mirrors[m] # NoRow =>
              mirrors'[m] # NoRow /\ mirrors'[m].repo = mirrors[m].repo
         /\ \A r \in Repos : repos[r] # NoRepo => repos'[r] # NoRepo
         /\ stored \subseteq stored'
<1> DEFINE Goal == /\ \A m \in IDs : mirrors[m] # NoRow =>
                        mirrors'[m] # NoRow /\ mirrors'[m].repo = mirrors[m].repo
                   /\ \A r \in Repos : repos[r] # NoRepo => repos'[r] # NoRepo
                   /\ stored \subseteq stored'
<1>1. ASSUME NEW k \in Kinds, QueueGoes(k) PROVE Goal
  BY <1>1 DEF QueueGoes
<1>2. ASSUME NEW w \in RepoWorkers, RepoGoes(w),
             RepoReceives(w) \/ RepoWorks(w) \/ RepoPushes(w) \/ RepoCompletes(w) \/ RepoSaves(w)
      PROVE  Goal
  BY <1>2 DEF RepoGoes, RepoReceives, RepoWorks, RepoPushes, RepoCompletes, RepoSaves, Overwritten
<1>3. ASSUME NEW w \in LfsWorkers, LfsGoes(w),
             LfsReceives(w) \/ LfsWorks(w) \/ LfsFinishes(w) \/ LfsCompletes(w)
      PROVE  Goal
  BY <1>3 DEF LfsGoes, LfsReceives, LfsWorks, LfsFinishes, LfsCompletes, Overwritten
<1>4. ASSUME NEW c \in Clients, ClientGoes(c),
             Begins(c) \/ Inserts(c) \/ PushesTask(c) \/ SavesRow(c) \/ SavesRepo(c)
      PROVE  Goal
  <2>1. created + 1 \in IDs => mirrors[created + 1] = NoRow
    <3>1. created \in Nat /\ ~(created + 1 <= created)
      BY MirrorAssumption DEF Typed, TypedTables
    <3> QED BY <3>1, NowIs DEF TrueInv, MirrorOK
  <2>2. CASE Begins(c) \/ PushesTask(c) \/ SavesRepo(c)
    BY <1>4, <2>2 DEF ClientGoes, Begins, PushesTask, SavesRepo
  <2>3. CASE Inserts(c)
    BY <1>4, <2>1, <2>3 DEF ClientGoes, Inserts
  <2>4. CASE SavesRow(c)
    BY <1>4, <2>4 DEF ClientGoes, SavesRow, Overwritten
  <2> QED BY <1>4, <2>2, <2>3, <2>4
<1>5. CASE EnqueueGoes
  BY <1>5 DEF EnqueueGoes
<1> QED BY <1>1, <1>2, <1>3, <1>4, <1>5 DEF CalmStep

LEMMA OrderlyStep ==
  ASSUME Typed, TrueInv, Orderly, CalmStep, load' = load
  PROVE  Orderly'
<1>s. /\ \A m \in IDs : mirrors[m] # NoRow => mirrors'[m] # NoRow /\ mirrors'[m].repo = mirrors[m].repo
      /\ \A r \in Repos : repos[r] # NoRepo => repos'[r] # NoRepo
      /\ stored \subseteq stored'
  BY RowsStay
<1>t. /\ mirrors \in [IDs -> MRow \cup {NoRow}] /\ created \in Nat /\ IDs \subseteq Nat
  BY MirrorAssumption DEF Typed, TypedTables, IDs
<1>o. /\ CalmStart /\ CalmRows
      /\ \A c \in Clients : CalmClient(c)
      /\ \A w \in RepoWorkers : rw[w].pc # "idle" => rw[w].repo # NoRepo
      /\ \A w \in LfsWorkers : CalmLfs(w)
  BY DEF Orderly

\* Rows that were there are there, and so are their repositories.
<1>m. ASSUME NEW m \in IDs, m <= created
      PROVE  mirrors'[m] # NoRow /\ repos'[mirrors'[m].repo] # NoRepo
  <2>1. mirrors[m] \in MRow /\ repos[mirrors[m].repo] # NoRepo
    BY <1>m, <1>o, <1>t DEF CalmRows
  <2> QED BY <1>s, <2>1, Distinct DEF MRow
<1>r. ASSUME created' = created,
             \A r \in Repos : repos'[r] # NoRepo => git'[r] \in {"empty", "fetched"}
      PROVE  CalmRows'
  BY <1>m, <1>r DEF CalmRows
<1>c. ASSUME NEW d \in Clients, cl'[d] = cl[d] PROVE CalmClient(d)'
  <2>1. cl[d].pc # "idle" => cl[d].r \in Repos
    BY ClientFields
  <2> QED BY <1>c, <1>o, <1>s, <2>1 DEF CalmClient
<1>l. ASSUME NEW v \in LfsWorkers, lw'[v] = lw[v] PROVE CalmLfs(v)'
  BY <1>l, <1>o, <1>s DEF CalmLfs
<1>q. ASSUME UNCHANGED <<created, enq, cl>> PROVE CalmStart' /\ \A c \in Clients : CalmClient(c)'
  <2>1. CalmStart'
    BY <1>o, <1>q DEF CalmStart
  <2> QED BY <1>c, <1>q, <2>1
<1>1. ASSUME NEW k \in Kinds, QueueGoes(k) PROVE Orderly'
  <2>1. UNCHANGED <<mirrors, created, repos, git, stored, rw, lw, enq, cl>>
    BY <1>1 DEF QueueGoes
  <2>2. CalmRows'
    BY <1>o, <1>r, <2>1 DEF CalmRows
  <2> QED BY <1>o, <1>q, <1>l, <2>1, <2>2 DEF Orderly
<1>2. ASSUME NEW w \in RepoWorkers, RepoGoes(w),
             RepoReceives(w) \/ RepoWorks(w) \/ RepoPushes(w) \/ RepoCompletes(w) \/ RepoSaves(w)
      PROVE  Orderly'
  <2>1. CalmStart' /\ \A c \in Clients : CalmClient(c)'
    BY <1>2, <1>q DEF RepoGoes
  <2>2. \A v \in LfsWorkers : CalmLfs(v)'
    BY <1>2, <1>l DEF RepoGoes
  <2>3. \A v \in RepoWorkers : rw'[v].pc # "idle" => rw'[v].repo # NoRepo
    BY <1>2, <1>o DEF RepoGoes, RepoReceives, RepoWorks, RepoPushes, RepoCompletes, RepoSaves
  <2>4. \A r \in Repos : repos'[r] # NoRepo => git'[r] \in {"empty", "fetched"}
    <3>1. \A r \in Repos : repos[r] # NoRepo => git[r] \in {"empty", "fetched"}
      BY <1>o DEF CalmRows
    <3>2. CASE RepoReceives(w) \/ RepoPushes(w) \/ RepoSaves(w)
      BY <3>1, <3>2 DEF RepoReceives, RepoPushes, RepoSaves
    <3>3. CASE RepoWorks(w)
      BY <3>1, <3>3 DEF RepoWorks
    <3>4. CASE RepoCompletes(w)
      <4>1. repos[rw[w].row.repo] # NoRepo
        <5>1. rw[w].pc = "complete"
          BY <3>4 DEF RepoCompletes
        <5>2. rw[w].t.m \in IDs /\ RowOf(now, rw[w].t.m, rw[w].row)
          BY <5>1, RepoFields DEF TrueInv, RepoOK
        <5> QED BY <1>o, <5>2, NowIs DEF RowOf, CalmRows
      <4> QED BY <3>1, <3>4, <4>1 DEF RepoCompletes
    <3> QED BY <1>2, <3>2, <3>3, <3>4
  <2>5. CalmRows'
    BY <1>2, <1>r, <2>4 DEF RepoGoes
  <2> QED BY <2>1, <2>2, <2>3, <2>5 DEF Orderly
<1>3. ASSUME NEW w \in LfsWorkers, LfsGoes(w),
             LfsReceives(w) \/ LfsWorks(w) \/ LfsFinishes(w) \/ LfsCompletes(w)
      PROVE  Orderly'
  <2>1. CalmStart' /\ \A c \in Clients : CalmClient(c)'
    BY <1>3, <1>q DEF LfsGoes
  <2>2. \A v \in RepoWorkers : rw'[v].pc # "idle" => rw'[v].repo # NoRepo
    BY <1>3, <1>o DEF LfsGoes
  <2>3. CalmLfs(w)'
    <3>1. CASE LfsReceives(w)
      BY <3>1 DEF LfsReceives, CalmLfs
    <3>2. CASE LfsWorks(w)
      BY <3>2 DEF LfsWorks, CalmLfs
    <3>3. CASE LfsFinishes(w)
      BY <3>3 DEF LfsFinishes, CalmLfs
    <3>4. CASE LfsCompletes(w)
      BY <3>4 DEF LfsCompletes, CalmLfs
    <3> QED BY <1>3, <3>1, <3>2, <3>3, <3>4
  <2>4. \A v \in LfsWorkers : CalmLfs(v)'
    <3>1. \A v \in LfsWorkers : v # w => lw'[v] = lw[v]
      BY <1>3 DEF LfsGoes
    <3>2. ASSUME NEW v \in LfsWorkers PROVE CalmLfs(v)'
      <4>1. CASE v = w
        BY <2>3, <4>1
      <4>2. CASE v # w
        BY <1>l, <3>1, <4>2
      <4> QED BY <4>1, <4>2
    <3> QED BY <3>2
  <2>5. \A r \in Repos : repos'[r] # NoRepo => git'[r] \in {"empty", "fetched"}
    <3>1. \A r \in Repos : repos[r] # NoRepo => git'[r] \in {"empty", "fetched"}
      BY <1>3, <1>o DEF CalmRows, LfsGoes
    <3>2. CASE LfsReceives(w) \/ LfsWorks(w) \/ LfsFinishes(w)
      BY <3>1, <3>2 DEF LfsReceives, LfsWorks, LfsFinishes
    <3>3. CASE LfsCompletes(w)
      <4>1. repos[lw[w].row.repo] # NoRepo
        <5>1. lw[w].pc = "complete"
          BY <3>3 DEF LfsCompletes
        <5>2. lw[w].m \in IDs /\ RowOf(now, lw[w].m, lw[w].row)
          BY <5>1, LfsFields DEF TrueInv, LfsOK
        <5> QED BY <1>o, <5>2, NowIs DEF RowOf, CalmRows
      <4> QED BY <3>1, <3>3, <4>1 DEF LfsCompletes
    <3> QED BY <1>3, <3>2, <3>3
  <2>6. CalmRows'
    BY <1>3, <1>r, <2>5 DEF LfsGoes
  <2> QED BY <2>1, <2>2, <2>4, <2>6 DEF Orderly
<1>4. ASSUME NEW c \in Clients, ClientGoes(c),
             Begins(c) \/ Inserts(c) \/ PushesTask(c) \/ SavesRow(c) \/ SavesRepo(c)
      PROVE  Orderly'
  <2>1. CalmStart'
    BY <1>4, <1>o DEF ClientGoes, CalmStart
  <2>2. /\ \A v \in RepoWorkers : rw'[v].pc # "idle" => rw'[v].repo # NoRepo
        /\ \A v \in LfsWorkers : CalmLfs(v)'
    BY <1>4, <1>o, <1>l DEF ClientGoes
  <2>3. cl[c].pc # "idle" => cl[c].r \in Repos /\ repos'[cl[c].r] # NoRepo /\ cl[c].op \in load.ops
    BY <1>o, <1>s, ClientFields DEF CalmClient
  <2>4. CalmClient(c)'
    <3>1. CASE Begins(c)
      BY <3>1 DEF Begins, CalmClient
    <3>2. CASE Inserts(c)
      BY <2>3, <3>2 DEF Inserts, CalmClient
    <3>3. CASE PushesTask(c)
      BY <2>3, <3>3 DEF PushesTask, CalmClient
    <3>4. CASE SavesRow(c) \/ SavesRepo(c)
      BY <3>4 DEF SavesRow, SavesRepo, CalmClient
    <3> QED BY <1>4, <3>1, <3>2, <3>3, <3>4
  <2>5. \A d \in Clients : CalmClient(d)'
    <3>1. \A d \in Clients : d # c => cl'[d] = cl[d]
      BY <1>4 DEF ClientGoes
    <3>2. ASSUME NEW d \in Clients PROVE CalmClient(d)'
      <4>1. CASE d = c
        BY <2>4, <4>1
      <4>2. CASE d # c
        BY <1>c, <3>1, <4>2
      <4> QED BY <4>1, <4>2
    <3> QED BY <3>2
  <2>6. \A r \in Repos : repos'[r] # NoRepo => git'[r] \in {"empty", "fetched"}
    <3>1. \A r \in Repos : repos[r] # NoRepo => git[r] \in {"empty", "fetched"}
      BY <1>o DEF CalmRows
    <3>2. CASE Begins(c)
      BY <3>1, <3>2 DEF Begins
    <3>3. CASE Inserts(c) \/ PushesTask(c) \/ SavesRow(c) \/ SavesRepo(c)
      BY <3>1, <3>3 DEF Inserts, PushesTask, SavesRow, SavesRepo
    <3> QED BY <1>4, <3>2, <3>3
  <2>7. CalmRows'
    <3>1. CASE created' = created
      BY <1>r, <2>6, <3>1
    <3>2. CASE Inserts(c)
      <4>1. repos'[mirrors'[created + 1].repo] # NoRepo /\ mirrors'[created + 1] # NoRow
        BY <2>3, <3>2 DEF Inserts
      <4>2. \A m \in IDs : m <= created' => m <= created \/ m = created + 1
        BY <1>t, <3>2 DEF Inserts
      <4> QED BY <1>m, <2>6, <4>1, <4>2 DEF CalmRows
    <3> QED BY <1>4, <3>1, <3>2 DEF Begins, PushesTask, SavesRow, SavesRepo
  <2> QED BY <2>1, <2>2, <2>5, <2>7 DEF Orderly
<1>5. ASSUME EnqueueGoes PROVE Orderly'
  <2>1. UNCHANGED <<mirrors, created, repos, git, stored, rw, lw, cl>> /\ enq'.pc # "save" /\ enq'.todo = {}
        /\ enq.pc # "done"
    BY <1>5 DEF EnqueueGoes
  <2>2. CalmStart'
    BY <1>o, <2>1 DEF CalmStart
  <2>3. CalmRows'
    BY <1>o, <1>r, <2>1 DEF CalmRows
  <2> QED BY <1>o, <1>c, <1>l, <2>1, <2>2, <2>3 DEF Orderly
<1> QED BY <1>1, <1>2, <1>3, <1>4, <1>5 DEF CalmStep

----------------------------------------------------------------------------
(* Nobody forgets a mirror. *)

LEMMA SettledStep ==
  ASSUME Typed, TrueInv, Orderly, CalmStep, NEW m \in IDs, Settled(m)
  PROVE  Settled(m)'
<1> DEFINE Busy == mirrors'[m] # NoRow /\ mirrors'[m].st \in {"none", "running"}
<1>z. m # 0 /\ NoTask.m = 0
  BY MirrorAssumption DEF IDs, NoTask
<1>h. /\ held \in [Kinds -> Task \cup {NoTask}] /\ queues \in [Kinds -> SUBSET Task]
      /\ "repo" \in Kinds /\ "lfs" \in Kinds /\ "repo" # "lfs"
  BY DEF Typed, TypedTables, TypedProcesses, Kinds

\* A row that the step leaves alone had somebody to write its status.
<1>w. ASSUME Busy, mirrors'[m] = mirrors[m] PROVE Writing(m)
  BY <1>w DEF Settled
<1> SUFFICES ASSUME Busy PROVE Writing(m)'
  BY DEF Settled
<1>1. ASSUME NEW k \in Kinds, QueueGoes(k) PROVE Writing(m)'
  <2>1. PICK t \in queues[k] : queues' = [queues EXCEPT ![k] = @ \ {t}] /\ held' = [held EXCEPT ![k] = t]
    BY <1>1 DEF QueueGoes
  <2>2. UNCHANGED <<mirrors, rw, lw, cl>> /\ held[k] = NoTask /\ Writing(m)
    BY <1>1, <1>w DEF QueueGoes
  <2>3. CASE k = "repo"
    <3>1. held["repo"].m # m
      BY <1>z, <2>2, <2>3
    <3>2. queues'["repo"] = queues["repo"] \ {t} /\ held'["repo"] = t
      BY <1>h, <2>1, <2>3
    <3> QED BY <2>2, <3>1, <3>2 DEF Writing
  <2>4. CASE k # "repo"
    <3>1. queues'["repo"] = queues["repo"] /\ held'["repo"] = held["repo"]
      BY <1>h, <2>1, <2>4
    <3> QED BY <2>2, <3>1 DEF Writing
  <2> QED BY <2>3, <2>4
<1>2. ASSUME NEW w \in RepoWorkers, RepoGoes(w),
             RepoReceives(w) \/ RepoWorks(w) \/ RepoPushes(w) \/ RepoCompletes(w) \/ RepoSaves(w)
      PROVE  Writing(m)'
  <2>1. lw' = lw /\ cl' = cl /\ \A v \in RepoWorkers : v # w => rw'[v] = rw[v]
    BY <1>2 DEF RepoGoes
  <2>2. CASE RepoReceives(w)
    <3>1. queues' = queues /\ mirrors' = mirrors /\ rw[w].pc = "idle" /\ rw'[w].pc = "run"
          /\ rw'[w].t.m = held["repo"].m
      BY <2>2 DEF RepoReceives
    <3>2. Writing(m)
      BY <1>w, <3>1
    <3> QED BY <2>1, <3>1, <3>2 DEF Writing
  <2>3. CASE RepoWorks(w) \/ RepoPushes(w) \/ RepoCompletes(w)
    <3>1. queues'["repo"] = queues["repo"] /\ held' = held /\ rw'[w].t = rw[w].t /\ rw'[w].pc # "idle"
          /\ (mirrors' = mirrors \/ Overwritten(rw[w].t.m))
      BY <2>3 DEF RepoWorks, RepoPushes, RepoCompletes
    <3>2. CASE rw[w].t.m = m
      BY <3>1, <3>2 DEF Writing
    <3>3. CASE rw[w].t.m # m
      <4>1. Writing(m)
        BY <1>w, <3>1, <3>3 DEF Overwritten
      <4> QED BY <2>1, <3>1, <4>1 DEF Writing
    <3> QED BY <3>2, <3>3
  <2>4. CASE RepoSaves(w)
    <3>1. queues' = queues /\ held' = held /\ Overwritten(rw[w].t.m)
          /\ mirrors'[rw[w].t.m].st \in {"repo_synced", "finished"}
      BY <2>4 DEF RepoSaves
    <3>2. rw[w].t.m # m
      BY <3>1
    <3>3. Writing(m)
      BY <1>w, <3>1, <3>2 DEF Overwritten
    <3> QED BY <2>1, <3>1, <3>2, <3>3 DEF Writing
  <2> QED BY <1>2, <2>2, <2>3, <2>4
<1>3. ASSUME NEW w \in LfsWorkers, LfsGoes(w),
             LfsReceives(w) \/ LfsWorks(w) \/ LfsFinishes(w) \/ LfsCompletes(w)
      PROVE  Writing(m)'
  <2>1. queues' = queues /\ rw' = rw /\ cl' = cl /\ \A v \in LfsWorkers : v # w => lw'[v] = lw[v]
    BY <1>3 DEF LfsGoes
  <2>2. held'["repo"] = held["repo"]
    BY <1>3, <1>h DEF LfsReceives, LfsWorks, LfsFinishes, LfsCompletes
  <2>3. CASE LfsReceives(w)
    <3>1. mirrors' = mirrors /\ lw[w].pc = "idle"
      BY <2>3 DEF LfsReceives
    <3>2. Writing(m)
      BY <1>w, <3>1
    <3> QED BY <2>1, <2>2, <3>1, <3>2 DEF Writing
  <2>4. CASE LfsWorks(w)
    <3>1. lw'[w].m = lw[w].m /\ lw'[w].pc \notin {"idle", "complete"}
          /\ (mirrors' = mirrors \/ Overwritten(lw[w].m))
      BY <2>4 DEF LfsWorks
    <3>2. CASE lw[w].m = m
      BY <3>1, <3>2 DEF Writing
    <3>3. CASE lw[w].m # m
      <4>1. Writing(m)
        BY <1>w, <3>1, <3>3 DEF Overwritten
      <4> QED BY <2>1, <2>2, <3>3, <4>1 DEF Writing
    <3> QED BY <3>2, <3>3
  <2>5. CASE LfsFinishes(w) \/ LfsCompletes(w)
    <3>1. Overwritten(lw[w].m) /\ mirrors'[lw[w].m].st = "finished"
      BY <2>5 DEF LfsFinishes, LfsCompletes
    <3>2. lw[w].m # m
      BY <3>1
    <3>3. Writing(m)
      BY <1>w, <3>1, <3>2 DEF Overwritten
    <3> QED BY <2>1, <2>2, <3>2, <3>3 DEF Writing
  <2> QED BY <1>3, <2>3, <2>4, <2>5
<1>4. ASSUME NEW c \in Clients, ClientGoes(c),
             Begins(c) \/ Inserts(c) \/ PushesTask(c) \/ SavesRow(c) \/ SavesRepo(c)
      PROVE  Writing(m)'
  <2>1. held' = held /\ rw' = rw /\ lw' = lw /\ \A d \in Clients : d # c => cl'[d] = cl[d]
    BY <1>4 DEF ClientGoes
  <2>2. CASE Begins(c) \/ SavesRepo(c)
    <3>1. mirrors' = mirrors /\ queues' = queues /\ cl[c].pc \notin {"push", "save"}
      BY <2>2 DEF Begins, SavesRepo
    <3>2. Writing(m)
      BY <1>w, <3>1
    <3> QED BY <2>1, <3>1, <3>2 DEF Writing
  <2>3. CASE Inserts(c)
    <3>1. queues' = queues /\ cl[c].pc = "insert" /\ cl'[c].pc = "push" /\ cl'[c].m = created + 1
          /\ (m # created + 1 => mirrors'[m] = mirrors[m])
      BY <2>3 DEF Inserts
    <3>2. CASE m = created + 1
      BY <3>1, <3>2 DEF Writing
    <3>3. CASE m # created + 1
      <4>1. Writing(m)
        BY <1>w, <3>1, <3>3
      <4> QED BY <2>1, <3>1, <4>1 DEF Writing
    <3> QED BY <3>2, <3>3
  <2>4. CASE PushesTask(c)
    <3>1. mirrors' = mirrors /\ queues["repo"] \subseteq queues'["repo"]
          /\ \E t \in queues'["repo"] : t.m = cl[c].m
      BY <2>4 DEF PushesTask
    <3>2. Writing(m)
      BY <1>w, <3>1
    <3> QED BY <2>1, <3>1, <3>2 DEF Writing
  <2>5. CASE SavesRow(c)
    <3>1. queues' = queues /\ Overwritten(cl[c].m) /\ mirrors'[cl[c].m].st = "waiting"
      BY <2>5 DEF SavesRow
    <3>2. cl[c].m # m
      BY <3>1
    <3>3. Writing(m)
      BY <1>w, <3>1, <3>2 DEF Overwritten
    <3> QED BY <2>1, <3>1, <3>2, <3>3 DEF Writing
  <2> QED BY <1>4, <2>2, <2>3, <2>4, <2>5
<1>5. ASSUME EnqueueGoes PROVE Writing(m)'
  <2>1. UNCHANGED <<mirrors, queues, held, rw, lw, cl>>
    BY <1>5 DEF EnqueueGoes
  <2>2. Writing(m)
    BY <1>w, <2>1
  <2> QED BY <2>1, <2>2 DEF Writing
<1> QED BY <1>1, <1>2, <1>3, <1>4, <1>5 DEF CalmStep

\* Nobody forgets a repository, as long as only the workers write its row.
LEMMA CompleteStep ==
  ASSUME Typed, TrueInv, Orderly, CalmStep, WorkersOnly, NEW r \in Repos, Complete(r)
  PROVE  Complete(r)'
<1> DEFINE Done == repos[r].sync = "completed" /\ Pointers[r] \subseteq stored
           Done2 == repos'[r].sync = "completed" /\ Pointers[r] \subseteq stored'
<1>z. 0 \notin IDs /\ NoTask.m = 0
  BY MirrorAssumption DEF IDs, NoTask
<1>h. /\ held \in [Kinds -> Task \cup {NoTask}] /\ queues \in [Kinds -> SUBSET Task]
      /\ Kinds = {"repo", "lfs"} /\ "repo" # "lfs"
  BY DEF Typed, TypedTables, TypedProcesses, Kinds
<1>s. /\ \A m \in IDs : mirrors[m] # NoRow => mirrors'[m] # NoRow /\ mirrors'[m].repo = mirrors[m].repo
      /\ stored \subseteq stored'
  BY RowsStay
<1>f. ASSUME NEW m, Of(m, r) PROVE Of(m, r)'
  BY <1>f, <1>s DEF Of
<1>d. ASSUME Done, repos'[r] = repos[r] PROVE Done2
  BY <1>d, <1>s
<1> SUFFICES ASSUME NEW n \in IDs, mirrors'[n] # NoRow, mirrors'[n].repo = r
             PROVE  Done2 \/ Completing(r)'
  BY DEF Complete, Of

\* A mirror that was there before had somebody to complete its repository.
<1>o. ASSUME mirrors[n] # NoRow PROVE Done \/ Completing(r)
  <2>1. Of(n, r)
    BY <1>o, <1>s DEF Of
  <2> QED BY <2>1 DEF Complete
<1>v. ASSUME NEW m, Overwritten(m) PROVE mirrors[n] # NoRow
  BY <1>v DEF Overwritten
<1>1. ASSUME NEW k \in Kinds, QueueGoes(k) PROVE Done2 \/ Completing(r)'
  <2>1. PICK t \in queues[k] : queues' = [queues EXCEPT ![k] = @ \ {t}] /\ held' = [held EXCEPT ![k] = t]
    BY <1>1 DEF QueueGoes
  <2>2. UNCHANGED <<mirrors, repos, rw, lw, cl>> /\ held[k] = NoTask
    BY <1>1 DEF QueueGoes
  <2>3. Done \/ Completing(r)
    BY <1>o, <2>2
  <2>4. held'[k] = t /\ queues'[k] = queues[k] \ {t}
        /\ \A j \in Kinds : j # k => held'[j] = held[j] /\ queues'[j] = queues[j]
    BY <1>h, <2>1
  <2>5. ASSUME NEW j \in Kinds, (\E u \in queues[j] : Of(u.m, r)) \/ Of(held[j].m, r)
        PROVE  Completing(r)'
    <3>1. CASE j = k
      <4>1. ~Of(held[j].m, r)
        BY <1>z, <2>2, <3>1 DEF Of
      <4>2. PICK u \in queues[k] : Of(u.m, r)
        BY <2>5, <3>1, <4>1
      <4>3. Of(u.m, r)'
        BY <1>f, <4>2
      <4> QED BY <2>4, <4>3 DEF Completing
    <3>2. CASE j # k
      BY <2>2, <2>4, <2>5, <3>2 DEF Completing, Of
    <3> QED BY <3>1, <3>2
  <2> QED BY <1>d, <2>2, <2>3, <2>5 DEF Completing
<1>2. ASSUME NEW w \in RepoWorkers, RepoGoes(w),
             RepoReceives(w) \/ RepoWorks(w) \/ RepoPushes(w) \/ RepoCompletes(w) \/ RepoSaves(w)
      PROVE  Done2 \/ Completing(r)'
  <2>1. lw' = lw /\ cl' = cl /\ \A v \in RepoWorkers : v # w => rw'[v] = rw[v]
    BY <1>2 DEF RepoGoes
  <2>2. mirrors[n] # NoRow
    BY <1>2, <1>v DEF RepoReceives, RepoWorks, RepoPushes, RepoCompletes, RepoSaves
  <2>3. Done \/ Completing(r)
    BY <1>o, <2>2
  <2>4. CASE RepoReceives(w)
    <3>1. /\ queues' = queues /\ mirrors' = mirrors /\ repos' = repos
          /\ held'["repo"] = NoTask /\ held'["lfs"] = held["lfs"]
          /\ rw[w].pc = "idle" /\ rw'[w].pc = "run"
          /\ rw'[w].row = mirrors[held["repo"].m]
      BY <1>h, <2>4 DEF RepoReceives
    <3>2. ASSUME Of(held["repo"].m, r) PROVE Completing(r)'
      BY <3>1, <3>2 DEF Completing, Of
    <3> QED BY <1>d, <1>h, <2>1, <2>3, <3>1, <3>2 DEF Completing, Of
  <2>5. CASE RepoWorks(w)
    <3>1. /\ queues' = queues /\ held' = held /\ rw'[w].row.repo = rw[w].row.repo
          /\ rw'[w].pc \notin {"idle", "save"}
          /\ (r # rw[w].row.repo => repos'[r] = repos[r])
      BY <2>5 DEF RepoWorks
    <3>2. CASE rw[w].row.repo = r
      BY <3>1, <3>2 DEF Completing
    <3>3. CASE rw[w].row.repo # r
      BY <1>d, <1>f, <2>1, <2>3, <3>1, <3>3 DEF Completing
    <3> QED BY <3>2, <3>3
  <2>6. CASE RepoPushes(w)
    <3>1. /\ held' = held /\ repos' = repos
          /\ \A k \in Kinds : queues[k] \subseteq queues'[k]
          /\ Of(rw[w].t.m, rw[w].row.repo)
      BY <1>h, <2>6 DEF RepoPushes
    <3>2. PICK t \in queues'["lfs"] : t.m = rw[w].t.m
      BY <2>6 DEF RepoPushes
    <3>3. CASE rw[w].row.repo = r
      <4>1. Of(t.m, r)'
        BY <1>f, <3>1, <3>2, <3>3
      <4> QED BY <1>h, <3>2, <4>1 DEF Completing
    <3>4. CASE rw[w].row.repo # r
      BY <1>d, <1>f, <2>1, <2>3, <3>1, <3>4 DEF Completing
    <3> QED BY <3>3, <3>4
  <2>7. CASE RepoCompletes(w)
    <3>1. queues' = queues /\ held' = held /\ (r # rw[w].row.repo => repos'[r] = repos[r])
      BY <2>7 DEF RepoCompletes
    <3>2. CASE rw[w].row.repo = r
      BY <2>7, <3>2 DEF RepoCompletes
    <3>3. CASE rw[w].row.repo # r
      BY <1>d, <1>f, <2>1, <2>3, <3>1, <3>3 DEF Completing
    <3> QED BY <3>2, <3>3
  <2>8. CASE RepoSaves(w)
    <3>1. queues' = queues /\ held' = held /\ repos' = repos /\ rw[w].pc = "save"
      BY <2>8 DEF RepoSaves
    <3> QED BY <1>d, <1>f, <2>1, <2>3, <3>1 DEF Completing
  <2> QED BY <1>2, <2>4, <2>5, <2>6, <2>7, <2>8
<1>3. ASSUME NEW w \in LfsWorkers, LfsGoes(w),
             LfsReceives(w) \/ LfsWorks(w) \/ LfsFinishes(w) \/ LfsCompletes(w)
      PROVE  Done2 \/ Completing(r)'
  <2>1. queues' = queues /\ rw' = rw /\ cl' = cl /\ \A v \in LfsWorkers : v # w => lw'[v] = lw[v]
    BY <1>3 DEF LfsGoes
  <2>2. mirrors[n] # NoRow
    BY <1>3, <1>v DEF LfsReceives, LfsWorks, LfsFinishes, LfsCompletes
  <2>3. Done \/ Completing(r)
    BY <1>o, <2>2
  <2>4. CASE LfsReceives(w)
    <3>1. /\ mirrors' = mirrors /\ repos' = repos
          /\ held'["lfs"] = NoTask /\ held'["repo"] = held["repo"]
          /\ lw[w].pc = "idle" /\ lw'[w].pc = "list"
          /\ lw'[w].row = mirrors[held["lfs"].m]
      BY <1>h, <2>4 DEF LfsReceives
    <3>2. ASSUME Of(held["lfs"].m, r) PROVE Completing(r)'
      BY <3>1, <3>2 DEF Completing, Of
    <3> QED BY <1>d, <1>h, <2>1, <2>3, <3>1, <3>2 DEF Completing, Of
  <2>5. CASE LfsWorks(w) \/ LfsFinishes(w)
    <3>1. held' = held /\ repos' = repos /\ lw'[w].row.repo = lw[w].row.repo /\ lw'[w].pc # "idle"
      BY <2>5 DEF LfsWorks, LfsFinishes
    <3> QED BY <1>d, <1>f, <2>1, <2>3, <3>1 DEF Completing
  <2>6. CASE LfsCompletes(w)
    <3>1. held' = held /\ (r # lw[w].row.repo => repos'[r] = repos[r])
      BY <2>6 DEF LfsCompletes
    <3>2. CASE lw[w].row.repo = r
      BY <1>s, <2>6, <3>2 DEF LfsCompletes
    <3>3. CASE lw[w].row.repo # r
      BY <1>d, <1>f, <2>1, <2>3, <3>1, <3>3 DEF Completing
    <3> QED BY <3>2, <3>3
  <2> QED BY <1>3, <2>4, <2>5, <2>6
<1>4. ASSUME NEW c \in Clients, ClientGoes(c),
             Begins(c) \/ Inserts(c) \/ PushesTask(c) \/ SavesRow(c) \/ SavesRepo(c)
      PROVE  Done2 \/ Completing(r)'
  <2>1. held' = held /\ rw' = rw /\ lw' = lw /\ \A d \in Clients : d # c => cl'[d] = cl[d]
    BY <1>4 DEF ClientGoes
  <2>2. CASE Begins(c)
    <3>1. mirrors' = mirrors /\ queues' = queues /\ cl[c].pc = "idle" /\ (repos[r] # NoRepo => repos'[r] = repos[r])
      BY <2>2 DEF Begins
    <3>2. repos[r] # NoRepo
      <4>1. mirrors[n] # NoRow /\ mirrors[n].repo = r
        BY <3>1
      <4>2. n <= created
        BY <4>1, NowIs DEF TrueInv, MirrorOK
      <4> QED BY <4>1, <4>2 DEF Orderly, CalmRows
    <3>3. Done \/ Completing(r)
      BY <1>o, <3>1
    <3> QED BY <1>d, <1>f, <2>1, <3>1, <3>2, <3>3 DEF Completing
  <2>3. CASE Inserts(c)
    <3>1. /\ queues' = queues /\ repos' = repos
          /\ cl[c].pc = "insert" /\ cl'[c].pc = "push" /\ cl'[c].r = cl[c].r
          /\ mirrors'[created + 1].repo = cl[c].r /\ (n # created + 1 => mirrors'[n] = mirrors[n])
      BY <2>3 DEF Inserts
    <3>2. CASE n = created + 1
      BY <3>1, <3>2 DEF Completing
    <3>3. CASE n # created + 1
      <4>1. Done \/ Completing(r)
        BY <1>o, <3>1, <3>3
      <4> QED BY <1>d, <1>f, <2>1, <3>1, <4>1 DEF Completing
    <3> QED BY <3>2, <3>3
  <2>4. CASE PushesTask(c)
    <3>1. /\ mirrors' = mirrors /\ repos' = repos
          /\ \A k \in Kinds : queues[k] \subseteq queues'[k]
          /\ Of(cl[c].m, cl[c].r)
      BY <1>h, <2>4 DEF PushesTask
    <3>2. PICK t \in queues'["repo"] : t.m = cl[c].m
      BY <2>4 DEF PushesTask
    <3>3. CASE cl[c].r = r
      <4>1. Of(t.m, r)'
        BY <1>f, <3>1, <3>2, <3>3
      <4> QED BY <1>h, <3>2, <4>1 DEF Completing
    <3>4. CASE cl[c].r # r
      <4>1. Done \/ Completing(r)
        BY <1>o, <3>1
      <4> QED BY <1>d, <1>f, <2>1, <3>1, <3>4, <4>1 DEF Completing
    <3> QED BY <3>3, <3>4
  <2>5. CASE SavesRow(c)
    <3>1. queues' = queues /\ repos' = repos /\ cl[c].pc = "save" /\ mirrors[n] # NoRow
      BY <1>v, <2>5 DEF SavesRow
    <3>2. Done \/ Completing(r)
      BY <1>o, <3>1
    <3> QED BY <1>d, <1>f, <2>1, <3>1, <3>2 DEF Completing
  <2>6. CASE SavesRepo(c)
    <3>1. cl[c].op \in load.ops
      BY <2>6 DEF SavesRepo, Orderly, CalmClient
    <3> QED BY <2>6, <3>1 DEF SavesRepo, WorkersOnly
  <2> QED BY <1>4, <2>2, <2>3, <2>4, <2>5, <2>6
<1>5. ASSUME EnqueueGoes PROVE Done2 \/ Completing(r)'
  <2>1. UNCHANGED <<mirrors, repos, queues, held, rw, lw, cl>>
    BY <1>5 DEF EnqueueGoes
  <2>2. Done \/ Completing(r)
    BY <1>o, <2>1
  <2> QED BY <1>d, <2>1, <2>2 DEF Completing, Of
<1> QED BY <1>1, <1>2, <1>3, <1>4, <1>5 DEF CalmStep

----------------------------------------------------------------------------

LEMMA InitCalm == Init => CalmInv
<1> SUFFICES ASSUME Init PROVE CalmInv
  OBVIOUS
<1>1. /\ \A m \in IDs : m \in Nat /\ m >= 1 /\ mirrors[m] = NoRow
      /\ created = 0 /\ enq.pc = "start" /\ enq.todo = {}
      /\ \A r \in Repos : repos[r] # NoRepo => git[r] = "empty"
      /\ \A c \in Clients : cl[c].pc = "idle"
      /\ \A w \in RepoWorkers : rw[w].pc = "idle"
      /\ \A w \in LfsWorkers : lw[w].pc = "idle"
  BY MirrorAssumption, IdlePc DEF Init, IDs
<1>2. CalmRows
  <2>1. \A m \in IDs : ~(m <= created)
    BY <1>1
  <2> QED BY <1>1, <2>1 DEF CalmRows
<1>3. Orderly
  BY <1>1, <1>2 DEF Orderly, CalmStart, CalmClient, CalmLfs
<1>4. \A m \in IDs : Settled(m)
  BY <1>1 DEF Settled
<1>5. \A r \in Repos : Complete(r)
  BY <1>1 DEF Complete, Of
<1> QED BY <1>3, <1>4, <1>5 DEF CalmInv

LEMMA NextCalm == Typed /\ TrueInv /\ CalmInv /\ [Next]_vars => CalmInv'
<1> SUFFICES ASSUME Typed, TrueInv, CalmInv, [Next]_vars, Untroubled'
             PROVE  /\ Orderly'
                    /\ \A m \in IDs : Settled(m)'
                    /\ WorkersOnly' => \A r \in Repos : Complete(r)'
  BY DEF CalmInv
<1>1. CASE UNCHANGED vars
  <2>1. UNCHANGED <<mirrors, created, repos, git, stored, queues, held, rw, lw, enq, cl, load, faults, crashes>>
    BY <1>1 DEF vars
  <2>2. Untroubled
    BY <2>1 DEF Untroubled
  <2>3. Orderly /\ (\A m \in IDs : Settled(m)) /\ (WorkersOnly => \A r \in Repos : Complete(r))
    BY <2>2 DEF CalmInv
  <2>4. Orderly'
    BY <2>1, <2>3 DEF Orderly, CalmStart, CalmRows, CalmClient, CalmLfs
  <2>5. \A m \in IDs : Settled(m)'
    BY <2>1, <2>3 DEF Settled, Writing
  <2>6. ASSUME WorkersOnly' PROVE \A r \in Repos : Complete(r)'
    <3>1. WorkersOnly
      BY <2>1, <2>6 DEF WorkersOnly
    <3> QED BY <2>1, <2>3, <3>1 DEF Complete, Completing, Of
  <2> QED BY <2>4, <2>5, <2>6
<1>2. CASE Next
  <2>1. Untroubled /\ ~Fault /\ ~Crash /\ load' = load
    BY <1>2, CalmBefore
  <2>2. Orderly /\ (\A m \in IDs : Settled(m)) /\ (WorkersOnly => \A r \in Repos : Complete(r))
    BY <2>1 DEF CalmInv
  <2>3. CalmStep
    BY <1>2, <2>1, <2>2, CalmSteps
  <2>4. Orderly'
    BY <2>1, <2>2, <2>3, OrderlyStep
  <2>5. \A m \in IDs : Settled(m)'
    BY <2>2, <2>3, SettledStep
  <2>6. ASSUME WorkersOnly' PROVE \A r \in Repos : Complete(r)'
    <3>1. WorkersOnly
      BY <2>1, <2>6 DEF WorkersOnly
    <3> QED BY <2>2, <2>3, <3>1, CompleteStep
  <2> QED BY <2>4, <2>5, <2>6
<1> QED BY <1>1, <1>2

\* Without failures and changes by users, whoever reads, works and writes back in
\* whatever order: when the queues are empty and all the workers and requests are
\* idle, no mirror is left running, or never started, where the next start of the
\* server (EnqueueMirrorTasks, ToSyncRepo, ToSyncLfs) would not find it.
THEOREM NothingLeftRunning == Spec => []QuietSettled
<1>1. Typed /\ CalmInv => QuietSettled
  <2> SUFFICES ASSUME Typed, CalmInv, Untroubled, Quiet, NEW m \in IDs
               PROVE  mirrors[m] # NoRow => mirrors[m].st \notin {"none", "running"}
    BY DEF QuietSettled
  <2>1. m # 0
    BY MirrorAssumption DEF IDs
  <2>2. ~Writing(m)
    BY <2>1, IdlePc DEF Quiet, Writing, Kinds, NoTask
  <2> QED BY <2>2 DEF CalmInv, Settled
<1> QED BY <1>1, InitTyped, NextTyped, InitTrue, NextTrue, InitCalm, NextCalm, PTL DEF Spec

\* Without failures and changes by users, and as long as the workers alone write
\* the status of a repository: when all is done the repository of every mirror is
\* completed and each object it points to is in the store with its right size.
THEOREM EverythingCompleted == Spec => []QuietComplete
<1>1. Typed /\ CalmInv => QuietComplete
  <2> SUFFICES ASSUME Typed, CalmInv, Untroubled, load.ops \cap {"saas", "edit"} = {}, Quiet,
                      NEW m \in IDs, mirrors[m] # NoRow
               PROVE  repos[mirrors[m].repo].sync = "completed" /\ Pointers[mirrors[m].repo] \subseteq stored
    BY DEF QuietComplete
  <2> DEFINE r == mirrors[m].repo
  <2>1. r \in Repos
    BY DEF Typed, TypedTables, MRow
  <2>2. Of(m, r)
    BY DEF Of
  <2>3. Complete(r)
    BY <2>1 DEF CalmInv, WorkersOnly
  <2>4. ~Completing(r)
    <3>1. 0 \notin IDs
      BY MirrorAssumption DEF IDs
    <3> QED BY <3>1, IdlePc DEF Quiet, Completing, Of, Kinds, NoTask
  <2> QED BY <2>2, <2>3, <2>4 DEF Complete
<1> QED BY <1>1, InitTyped, NextTyped, InitTrue, NextTrue, InitCalm, NextCalm, PTL DEF Spec
=============================================================================
