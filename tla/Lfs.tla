-------------------------------- MODULE Lfs --------------------------------
(***************************************************************************)
(* Git LFS of the API server (component/git_http.go): a client that pushes *)
(* asks for links (batch), puts the object into S3, either directly by a   *)
(* presigned link or through the server, and lets the server verify it.    *)
(* S3 stores an object once for all repositories; lfs_meta_objects says    *)
(* which repository has it.  Users lock the paths of a repository.         *)
(***************************************************************************)
EXTENDS Naturals, FiniteSets

CONSTANTS
  Clients,    \* clients, each at work for one user
  Repos, Oids, Paths,
  Content,    \* the size that the contents really have
  MaxLocks,   \* bound on the IDs of locks
  Loads       \* the kinds of behaviour to look at, one of which Init chooses

ASSUME LfsAssumption ==
  /\ Content \in Nat \ {0} /\ MaxLocks \in Nat
  /\ \A l \in Loads : /\ l.sizes \subseteq Nat \ {0} /\ l.links \subseteq {"direct", "server"}
                      /\ l.writers \subseteq Clients
                      /\ l.pushes \in Nat /\ l.lockCalls \in Nat /\ l.faults \in Nat

VARIABLES
  objects,  \* external: S3, the size of each object, None when it is not there
  rows,     \* table lfs_meta_objects
  spoiled,  \* history: the objects that an upload through the server has failed to put
  dropped,  \* history: the rows (repository and object) that such an upload has removed
  push,     \* what each client pushes, and how far it is
  locks,    \* table lfs_locks
  lockID,   \* the ID given last
  lreq,     \* the request about locks of each client
  load,     \* the clients whose users may write; bounds: the sizes that pointers give, the links that buildUploadLink gives
            \* (presigned or to the server), how many pushes, lock requests and failures
  pushes, lockCalls, faults

lfsVars == <<objects, rows, spoiled, dropped, push, pushes>>
lockVars == <<locks, lockID, lreq, lockCalls, load>>
vars == <<objects, rows, spoiled, dropped, push, locks, lockID, lreq,
          load, pushes, lockCalls, faults>>

None == 0
Idle == [pc |-> "idle"]

Init ==
  /\ objects = [o \in Oids |-> None] /\ rows = {} /\ spoiled = {} /\ dropped = {}
  /\ push = [c \in Clients |-> Idle]
  /\ locks = {} /\ lockID = 0
  /\ lreq = [c \in Clients |-> Idle]
  /\ load \in Loads /\ pushes = 0 /\ lockCalls = 0 /\ faults = 0

NoFault == UNCHANGED faults
Fault == faults < load.faults /\ faults' = faults + 1

----------------------------------------------------------------------------
(* Objects. *)

At(c, pc) == push[c].pc = pc
Goto(c, pc) == push' = [push EXCEPT ![c].pc = pc]
OnlyPush == UNCHANGED <<objects, rows, spoiled, dropped, pushes, lockVars>>

\* git-lfs starts to push an object to a repository; its pointer has a size.
Begin(c) ==
  /\ push[c].pc \in {"idle", "done"} /\ pushes < load.pushes
  /\ \E r \in Repos, o \in Oids, s \in load.sizes :
       push' = [push EXCEPT ![c] = [pc |-> "stat", repo |-> r, oid |-> o, size |-> s,
                                    exists |-> FALSE]]
  /\ pushes' = pushes + 1
  /\ NoFault /\ UNCHANGED <<objects, rows, spoiled, dropped, lockVars>>

\* The user pushes again.
Again(c) == At(c, "failed") /\ Goto(c, "stat") /\ NoFault /\ OnlyPush

RowOf(c) == {w \in rows : w.repo = push[c].repo /\ w.oid = push[c].oid}

\* The index idx_lfs_meta_objects_repository_id_oid refuses a second row.
Create(c) ==
  /\ RowOf(c) = {}
  /\ rows' = rows \cup {[repo |-> push[c].repo, oid |-> push[c].oid, size |-> push[c].size]}

\* An insert that is the next step: what it leads to, and what its failure does.
\* A failure may come after the row was inserted.
CreateStep(c, pc, then, else) ==
  /\ At(c, pc)
  /\ \/ Create(c) /\ Goto(c, then) /\ NoFault
     \/ /\ Goto(c, else)
        /\ \/ RowOf(c) # {} /\ UNCHANGED rows /\ NoFault
           \/ (Create(c) \/ UNCHANGED rows) /\ Fault
  /\ UNCHANGED <<objects, spoiled, dropped, pushes, lockVars>>

\* Any error of StatObject counts as "not there".
StatStep(c, pc, then) ==
  /\ At(c, pc)
  /\ \E e \in BOOLEAN :
       /\ push' = [push EXCEPT ![c] = [@ EXCEPT !.exists = e, !.pc = then[e]]]
       /\ \/ e = (objects[push[c].oid] # None) /\ NoFault
          \/ ~e /\ Fault
  /\ OnlyPush

\* Mutant: the object is never seen.
SeeNothing(c) ==
  At(c, "stat") /\ Goto(c, "find") /\ NoFault /\ OnlyPush

BatchStat(c) == StatStep(c, "stat", [e \in BOOLEAN |-> "find"])

\* Mutant: an object that is there needs no row.
AnswerByObject(c) ==
  /\ At(c, "find") /\ Goto(c, IF push[c].exists THEN "done" ELSE "link")
  /\ NoFault /\ OnlyPush

\* Nothing to upload when the object and its row are there.  A row of another
\* size, or an error, ends the request.
BuildObjectResponse(c) ==
  /\ At(c, "find")
  /\ \/ \E w \in RowOf(c) : w.size # push[c].size /\ Goto(c, "failed") /\ NoFault
     \/ /\ \A w \in RowOf(c) : w.size = push[c].size
        /\ Goto(c, IF push[c].exists /\ RowOf(c) # {} THEN "done"
                   ELSE IF push[c].exists /\ c \in load.writers THEN "create"
                   ELSE "link")
        /\ NoFault
     \/ Goto(c, "failed") /\ Fault
  /\ OnlyPush

BatchCreate(c) == CreateStep(c, "create", "done", "failed")

buildUploadLink(c) ==
  /\ At(c, "link")
  /\ \E l \in load.links : Goto(c, IF l = "direct" THEN "put" ELSE "upload")
  /\ NoFault /\ OnlyPush

\* The client puts the object into S3 itself.  It may ask the server to verify
\* what never arrived.
PutDirect(c) ==
  /\ At(c, "put")
  /\ LET put == objects' = [objects EXCEPT ![push[c].oid] = Content]
     IN  \/ put /\ Goto(c, "verify") /\ NoFault
         \/ /\ put \/ UNCHANGED objects
            /\ Goto(c, "failed") \/ Goto(c, "verify")
            /\ Fault
  /\ UNCHANGED <<rows, spoiled, dropped, pushes, lockVars>>

\* The server looks once more.  Of a user who may not write it wants to see
\* content of the right size and hash, of others nothing, if the object is there.
\* When the rights cannot be found out, the upload has failed.
UploadStat(c) ==
  \/ StatStep(c, "upload",
              [e \in BOOLEAN |->
                 IF ~e THEN "s3put"
                 ELSE IF c \in load.writers \/ push[c].size = Content THEN "insert"
                 ELSE "remove"])
  \/ /\ At(c, "upload") /\ objects[push[c].oid] # None
     /\ Goto(c, "remove") /\ Fault /\ OnlyPush

\* S3 takes as many bytes as the pointer says; fewer are an error.
UploadPut(c) ==
  /\ At(c, "s3put")
  /\ LET o == push[c].oid
         put == push[c].size <= Content /\ objects' = [objects EXCEPT ![o] = push[c].size]
     IN  \/ put /\ Goto(c, "insert") /\ NoFault /\ UNCHANGED spoiled
         \/ /\ \/ push[c].size > Content /\ UNCHANGED objects /\ NoFault
               \/ (put \/ UNCHANGED objects) /\ Fault
            /\ Goto(c, "clean") /\ spoiled' = spoiled \cup {o}
  /\ UNCHANGED <<rows, dropped, pushes, lockVars>>

\* The object is removed, whoever has put it there, and the row created.
UploadClean(c) ==
  /\ At(c, "clean") /\ Goto(c, "insert")
  /\ \/ objects' = [objects EXCEPT ![push[c].oid] = None] /\ NoFault
     \/ UNCHANGED objects /\ Fault
  /\ UNCHANGED <<rows, spoiled, dropped, pushes, lockVars>>

UploadCreate(c) == CreateStep(c, "insert", "verify", "remove")

\* Whatever went wrong, the row goes, also one that was there before.
UploadRemove(c) ==
  /\ At(c, "remove") /\ Goto(c, "failed")
  /\ \/ /\ rows' = rows \ RowOf(c)
        /\ dropped' = dropped \cup {<<w.repo, w.oid>> : w \in RowOf(c)}
        /\ NoFault
     \/ UNCHANGED <<rows, dropped>> /\ Fault
  /\ UNCHANGED <<objects, spoiled, pushes, lockVars>>

\* Mutant: the size is not looked at, nor whether the object is there.
VerifyNothing(c) == At(c, "verify") /\ Goto(c, "record") /\ NoFault /\ OnlyPush

LfsVerify(c) ==
  /\ At(c, "verify")
  /\ \/ objects[push[c].oid] = push[c].size /\ Goto(c, "record") /\ NoFault
     \/ objects[push[c].oid] # push[c].size /\ Goto(c, "failed") /\ NoFault
     \/ Goto(c, "failed") /\ Fault
  /\ OnlyPush

VerifyCreate(c) == CreateStep(c, "record", "done", "failed")

\* LfsDownload gives a link to an object when the repository has a row for it.
LfsDownload(r, o) == \E w \in rows : w.repo = r /\ w.oid = o

Push(c) ==
  \/ Again(c) \/ BatchStat(c) \/ BuildObjectResponse(c) \/ BatchCreate(c) \/ buildUploadLink(c)
  \/ PutDirect(c) \/ UploadStat(c) \/ UploadPut(c) \/ UploadClean(c) \/ UploadCreate(c)
  \/ UploadRemove(c) \/ LfsVerify(c) \/ VerifyCreate(c)

----------------------------------------------------------------------------
(* Locks.  A client whose user may not write is refused at once. *)

Answer(c, a) == lreq' = [lreq EXCEPT ![c] = [pc |-> a]]
Ask(c) ==
  /\ lreq[c].pc \notin {"insert", "remove"} /\ c \in load.writers
  /\ lockCalls < load.lockCalls /\ lockCalls' = lockCalls + 1
  /\ UNCHANGED <<locks, lockID, load>>

FindByPath(r, p) == {l \in locks : l.repo = r /\ l.path = p}

CreateLock(c) ==
  /\ Ask(c)
  /\ \E r \in Repos, p \in Paths :
       \/ FindByPath(r, p) # {} /\ Answer(c, "conflict") /\ NoFault
       \/ /\ FindByPath(r, p) = {} /\ NoFault
          /\ lreq' = [lreq EXCEPT ![c] = [pc |-> "insert", repo |-> r, path |-> p]]
       \/ Answer(c, "error") /\ Fault
  /\ UNCHANGED lfsVars

\* The index idx_unique_repository_id_path refuses a second lock.
InsertLock(c) ==
  /\ FindByPath(lreq[c].repo, lreq[c].path) = {}
  /\ locks' = locks \cup {[id |-> lockID + 1, repo |-> lreq[c].repo, path |-> lreq[c].path,
                           user |-> c]}

\* CreateLock returns no lock with ErrAlreadyExists when the insert fails, and the
\* handler takes its ID: the request ends in a panic.  The sequence goes on.
CreateLockRow(c) ==
  /\ lreq[c].pc = "insert" /\ lockID < MaxLocks /\ lockID' = lockID + 1
  /\ \/ InsertLock(c) /\ Answer(c, "locked") /\ NoFault
     \/ /\ Answer(c, "panic")
        /\ \/ FindByPath(lreq[c].repo, lreq[c].path) # {} /\ UNCHANGED locks /\ NoFault
           \/ (InsertLock(c) \/ UNCHANGED locks) /\ Fault
  /\ UNCHANGED <<lfsVars, load, lockCalls>>

\* Mutant: nobody looks whose lock it is.
UnLockAny(c) ==
  /\ Ask(c)
  /\ \E l \in locks : lreq' = [lreq EXCEPT ![c] = [pc |-> "remove", lock |-> l, force |-> FALSE]]
  /\ NoFault /\ UNCHANGED lfsVars

\* A lock of another user is only removed by force.
UnLock(c) ==
  /\ Ask(c)
  /\ \E id \in 1..MaxLocks, force \in BOOLEAN :
       \/ \E l \in locks :
            /\ l.id = id
            /\ IF ~force /\ l.user # c THEN Answer(c, "denied")
               ELSE lreq' = [lreq EXCEPT ![c] = [pc |-> "remove", lock |-> l, force |-> force]]
            /\ NoFault
       \/ (\A l \in locks : l.id # id) /\ Answer(c, "not found") /\ NoFault
       \/ Answer(c, "error") /\ Fault
  /\ UNCHANGED lfsVars

\* Mutant: the lock is removed by its path.
RemoveByPath(c) == FindByPath(lreq[c].lock.repo, lreq[c].lock.path)

RemoveByID(c) == {l \in locks : l.id = lreq[c].lock.id}

UnLockRow(c) ==
  /\ lreq[c].pc = "remove"
  /\ \/ locks' = locks \ RemoveByID(c) /\ Answer(c, "unlocked") /\ NoFault
     \/ locks' \in {locks, locks \ RemoveByID(c)} /\ Answer(c, "error") /\ Fault
  /\ UNCHANGED <<lfsVars, lockID, load, lockCalls>>

LockRequest(c) == CreateLock(c) \/ CreateLockRow(c) \/ UnLock(c) \/ UnLockRow(c)

Next == \E c \in Clients : Begin(c) \/ Push(c) \/ LockRequest(c)

Spec == Init /\ [][Next]_vars

\* A client goes on, and pushes again until it has succeeded.
LiveSpec == Spec /\ \A c \in Clients : WF_vars(Push(c))

----------------------------------------------------------------------------
(* Properties. *)

Sizes == UNION {l.sizes : l \in Loads}
PushState ==
  {Idle} \cup [pc : {"stat", "find", "create", "link", "put", "upload", "s3put", "clean", "insert",
                     "remove", "verify", "record", "done", "failed"},
               repo : Repos, oid : Oids, size : Sizes, exists : BOOLEAN]

\* An object in S3 is never larger than its content.
TypeOK ==
  /\ objects \in [Oids -> 0..Content]
  /\ rows \subseteq [repo : Repos, oid : Oids, size : Sizes]
  /\ spoiled \subseteq Oids /\ dropped \subseteq Repos \X Oids
  /\ push \in [Clients -> PushState]
  /\ locks \subseteq [id : 1..MaxLocks, repo : Repos, path : Paths, user : Clients]
  /\ lockID \in 0..MaxLocks /\ \A l \in locks : l.id <= lockID

\* LfsDownload gives no link to an object that is not in S3, whoever put it there
\* for whichever repository, unless an upload of it through the server has failed.
LinksLeadSomewhere ==
  \A r \in Repos, o \in Oids : LfsDownload(r, o) /\ o \notin spoiled => objects[o] # None

\* A client that was told that its push is complete finds the object in the
\* repository, unless an upload through the server has removed the row.
DoneHasRow ==
  \A c \in Clients :
    push[c].pc = "done" => \/ LfsDownload(push[c].repo, push[c].oid)
                           \/ <<push[c].repo, push[c].oid>> \in dropped

\* A lock goes when its owner gives it up or somebody uses force, and not because
\* a request that found the path's former lock is late.
OwnLockStays ==
  [][\A l \in locks \ locks' : \E c \in Clients :
       lreq[c].pc = "remove" /\ lreq[c].lock = l /\ (lreq[c].force \/ l.user = c)]_vars

\* The locks of a repository are locks of its paths: one lock for a path, and a lock
\* that a request has leave to remove is this very lock and not its successor, however
\* requests of several clients meet and whichever of them fail.
AllLocks == [id : 1..MaxLocks, repo : Repos, path : Paths, user : Clients]
Leave ==
  {[user |-> c, lock |-> lreq[c].lock, force |-> lreq[c].force] :
     c \in {d \in Clients : lreq[d].pc = "remove"}}
AbstractLocks ==
  INSTANCE PathLocks WITH Users <- Clients, Locks <- AllLocks, held <- locks, leave <- Leave
ImplementsPathLocks == AbstractLocks!Spec

\* Pushes that use the right size all succeed in the end, also when clients push
\* the same object at the same time and remove each other's row.
Pushed ==
  load.sizes = {Content} =>
    \A c \in Clients : push[c].pc # "idle" ~> push[c].pc = "done"

\* Who comes too late is told "already created lock", by the handler of CreateLock.
LoserIsTold == \A c \in Clients : faults = 0 => lreq[c].pc # "panic"

\* An upload through the server of which nothing arrived ("content size does not
\* match") leaves no row behind.
FailedLeavesNoRow == \A r \in Repos, o \in Oids : LfsDownload(r, o) => objects[o] # None
============================================================================
