------------------------------ MODULE LfsProofs ------------------------------
(***************************************************************************)
(* Proofs about Lfs, for any clients, repositories, objects, paths, sizes, *)
(* failures and numbers of requests: a link leads to an object, a push     *)
(* that was reported complete has its row, and a lock belongs to one path  *)
(* and goes only when it may, as PathLocks has it.                         *)
(***************************************************************************)
EXTENDS Lfs, TLAPS

\* The object is in S3, unless an upload of it through the server has failed.
Somewhere(o) == o \in spoiled \/ objects[o] # None

\* A client that has seen the object, or has brought it there, is right about it;
\* only an upload that has failed removes an object.
Founded ==
  \A c \in Clients : push[c] # Idle =>
    /\ push[c].exists => Somewhere(push[c].oid)
    /\ push[c].pc \in {"create", "insert", "record"} => Somewhere(push[c].oid)
    /\ push[c].pc = "clean" => push[c].oid \in spoiled

\* IDs of locks are given once: what a request has found under an ID is what it
\* will remove, and it has asked whether it may.
LockReq ==
  {Idle} \cup [pc : {"conflict", "error", "locked", "panic", "denied", "not found", "unlocked"}]
         \cup [pc : {"insert"}, repo : Repos, path : Paths]
         \cup [pc : {"remove"}, force : BOOLEAN,
               lock : [id : 1..MaxLocks, repo : Repos, path : Paths, user : Clients]]
LocksKnown ==
  /\ lreq \in [Clients -> LockReq]
  /\ \A k, l \in locks : k.id = l.id => k = l
  /\ \A c \in Clients : lreq[c].pc = "remove" =>
       /\ lreq[c].lock.id <= lockID
       /\ lreq[c].force \/ lreq[c].lock.user = c
       /\ \A l \in locks : l.id = lreq[c].lock.id => l = lreq[c].lock

TypeInv == TypeOK /\ load \in Loads

Inv == TypeInv /\ Founded /\ LinksLeadSomewhere /\ DoneHasRow

\* The unique index of lfs_locks.
OneLockPerPath == \A k, l \in locks : k.repo = l.repo /\ k.path = l.path => k = l

LockInv == OneLockPerPath /\ LocksKnown

IInv == Inv /\ LockInv

----------------------------------------------------------------------------
(* Typing. *)

LEMMA LoadType ==
  ASSUME load \in Loads
  PROVE  /\ load.sizes \subseteq Sizes /\ load.writers \subseteq Clients
         /\ load.links \subseteq {"direct", "server"}
  BY LfsAssumption DEF Sizes

LEMMA SizesType == Sizes \subseteq Nat \ {0}
  BY LfsAssumption DEF Sizes

LEMMA InitTypeInv == Init => TypeInv
  BY LfsAssumption DEF Init, TypeInv, TypeOK, PushState, None

\* A client that goes on keeps what it pushes.
LEMMA GotoType ==
  ASSUME push \in [Clients -> PushState], NEW c \in Clients, push[c] # Idle,
         NEW pc \in {"stat", "find", "create", "link", "put", "upload", "s3put", "clean", "insert",
                     "remove", "verify", "record", "done", "failed"},
         Goto(c, pc)
  PROVE  /\ push' \in [Clients -> PushState]
         /\ push'[c].pc = pc /\ push'[c] # Idle
         /\ push'[c].repo = push[c].repo /\ push'[c].oid = push[c].oid
         /\ push'[c].size = push[c].size /\ push'[c].exists = push[c].exists
         /\ \A d \in Clients \ {c} : push'[d] = push[d]
  BY DEF PushState, Goto, Idle

----------------------------------------------------------------------------
(* What a step of a push does for everybody. *)

\* The repository has the object, or an upload through the server has removed it.
Has(r, o) == LfsDownload(r, o) \/ <<r, o>> \in dropped

\* What Inv says of one client.
FoundedAt(c) ==
  push[c] # Idle =>
    /\ push[c].exists => Somewhere(push[c].oid)
    /\ push[c].pc \in {"create", "insert", "record"} => Somewhere(push[c].oid)
    /\ push[c].pc = "clean" => push[c].oid \in spoiled
    /\ push[c].pc = "done" => Has(push[c].repo, push[c].oid)

\* Nothing is lost that others rely on, and what is new leads somewhere.
Keeps ==
  /\ spoiled \subseteq spoiled'
  /\ \A o \in Oids : Somewhere(o) => Somewhere(o)'
  /\ \A r \in Repos, o \in Oids : Has(r, o) => Has(r, o)'
  /\ \A w \in rows' \ rows : Somewhere(w.oid)'

OwnStep(c) == push' \in [Clients -> PushState] /\ \A d \in Clients \ {c} : push'[d] = push[d]

\* The part of TypeOK about objects and rows.
StoreType ==
  /\ objects \in [Oids -> 0..Content]
  /\ rows \subseteq [repo : Repos, oid : Oids, size : Sizes]
  /\ spoiled \subseteq Oids /\ dropped \subseteq Repos \X Oids

LockType ==
  /\ locks \subseteq [id : 1..MaxLocks, repo : Repos, path : Paths, user : Clients]
  /\ lockID \in 0..MaxLocks /\ \A l \in locks : l.id <= lockID

AllFounded == \A c \in Clients : FoundedAt(c)

LEMMA InvByClient == Founded /\ DoneHasRow <=> AllFounded
<1>1. \A c \in Clients : push[c].pc = "done" => push[c] # Idle
  BY DEF Idle
<1>2. Founded /\ DoneHasRow => AllFounded
  BY DEF Founded, DoneHasRow, FoundedAt, Has, AllFounded
<1>3. AllFounded => Founded
  BY DEF Founded, FoundedAt, AllFounded
<1>4. AllFounded => DoneHasRow
  BY <1>1 DEF DoneHasRow, FoundedAt, Has, AllFounded
<1> QED BY <1>2, <1>3, <1>4

LEMMA KeepsInv ==
  ASSUME Inv, NEW c \in Clients, StoreType', OwnStep(c), Keeps, FoundedAt(c)',
         UNCHANGED lockVars
  PROVE  Inv'
<1>1. TypeInv'
  BY DEF Inv, TypeInv, TypeOK, OwnStep, StoreType, lockVars
<1>2. LinksLeadSomewhere'
  <2> SUFFICES ASSUME NEW r \in Repos, NEW o \in Oids, LfsDownload(r, o)'
               PROVE  Somewhere(o)'
    BY DEF LinksLeadSomewhere, Somewhere
  <2>1. PICK w \in rows' : w.repo = r /\ w.oid = o
    BY DEF LfsDownload
  <2>2. CASE w \in rows
    BY <2>1, <2>2 DEF Inv, LinksLeadSomewhere, Somewhere, LfsDownload, Keeps
  <2>3. CASE w \notin rows
    BY <2>1, <2>3 DEF Keeps
  <2> QED BY <2>2, <2>3
<1>3. ASSUME NEW d \in Clients PROVE FoundedAt(d)'
  <2>1. CASE d = c
    BY <2>1
  <2>2. CASE d # c
    <3>1. push'[d] = push[d] /\ FoundedAt(d)
      BY <2>2, InvByClient DEF OwnStep, Inv, AllFounded
    <3>2. CASE push[d] = Idle
      BY <3>1, <3>2 DEF FoundedAt
    <3>3. CASE push[d] # Idle
      <4>1. push[d].oid \in Oids /\ push[d].repo \in Repos
        BY <3>3 DEF Inv, TypeInv, TypeOK, PushState
      <4> QED BY <3>1, <4>1 DEF FoundedAt, Keeps
    <3> QED BY <3>2, <3>3
  <2> QED BY <2>1, <2>2
<1>4. AllFounded'
  BY <1>3 DEF AllFounded
<1> QED BY <1>1, <1>2, <1>4, InvByClient, PTL DEF Inv

----------------------------------------------------------------------------
(* The steps of a push. *)

\* A step that changes nothing but its client.
LEMMA OnlyPushKeeps ==
  ASSUME Inv, NEW c \in Clients, OnlyPush, OwnStep(c), FoundedAt(c)'
  PROVE  Inv'
<1>1. StoreType' /\ Keeps /\ UNCHANGED lockVars
  BY DEF OnlyPush, Inv, TypeInv, TypeOK, StoreType, Keeps, Somewhere, Has, LfsDownload
<1> QED BY <1>1, KeepsInv

\* A client that goes on is founded when its next step is.
LEMMA GotoFounded ==
  ASSUME Inv, NEW c \in Clients, push[c] # Idle,
         NEW pc \in {"stat", "find", "create", "link", "put", "upload", "s3put", "clean", "insert",
                     "remove", "verify", "record", "done", "failed"},
         Goto(c, pc),
         \A r \in Repos, o \in Oids : r = push[c].repo /\ o = push[c].oid =>
           /\ Somewhere(o) => Somewhere(o)'
           /\ pc \in {"create", "insert", "record"} => Somewhere(o)'
           /\ pc = "clean" => o \in spoiled'
           /\ pc = "done" => Has(r, o)'
  PROVE  OwnStep(c) /\ FoundedAt(c)'
<1>1. FoundedAt(c)
  BY InvByClient DEF Inv, AllFounded
<1>2. /\ OwnStep(c) /\ push'[c].pc = pc /\ push'[c] # Idle
      /\ push'[c].repo = push[c].repo /\ push'[c].oid = push[c].oid
      /\ push'[c].exists = push[c].exists
      /\ push[c].repo \in Repos /\ push[c].oid \in Oids
  BY GotoType DEF OwnStep, Inv, TypeInv, TypeOK, PushState
<1>3. PICK r \in Repos, o \in Oids : r = push[c].repo /\ o = push[c].oid
  BY <1>2
<1>4. Somewhere(o)' <=> Somewhere(push[c].oid)'
  BY <1>2, <1>3
<1>5. Has(r, o)' <=> Has(push[c].repo, push[c].oid)'
  BY <1>2, <1>3
<1> QED BY <1>1, <1>2, <1>3, <1>4, <1>5 DEF FoundedAt

LEMMA BeginInv ==
  ASSUME Inv, NEW c \in Clients, Begin(c)  PROVE Inv'
<1>1. OwnStep(c) /\ FoundedAt(c)'
  BY LoadType DEF Begin, Inv, TypeInv, TypeOK, PushState, OwnStep, FoundedAt
<1>2. StoreType' /\ Keeps /\ UNCHANGED lockVars
  BY DEF Begin, Inv, TypeInv, TypeOK, StoreType, Keeps, Somewhere, Has, LfsDownload
<1> QED BY <1>1, <1>2, KeepsInv

LEMMA CreateStepInv ==
  ASSUME Inv, NEW c \in Clients, push[c] # Idle, Somewhere(push[c].oid),
         NEW pc \in {"create", "insert", "record"},
         NEW then \in {"done", "verify"}, NEW else \in {"failed", "remove"},
         CreateStep(c, pc, then, else)
  PROVE  Inv'
<1> DEFINE new == [repo |-> push[c].repo, oid |-> push[c].oid, size |-> push[c].size]
<1>1. new \in [repo : Repos, oid : Oids, size : Sizes]
  BY DEF Inv, TypeInv, TypeOK, PushState
<1>2. rows' = rows \cup {new} \/ rows' = rows
  BY DEF CreateStep, Create
<1>3. StoreType' /\ Keeps /\ UNCHANGED lockVars
  <2>1. UNCHANGED <<objects, spoiled, dropped>> /\ UNCHANGED lockVars
    BY DEF CreateStep
  <2>2. StoreType'
    BY <1>1, <1>2, <2>1 DEF Inv, TypeInv, TypeOK, StoreType
  <2> QED BY <1>2, <2>1, <2>2 DEF Keeps, Somewhere, Has, LfsDownload
<1>4. OwnStep(c) /\ FoundedAt(c)'
  <2>1. CASE Goto(c, then) /\ Create(c)
    <3>1. ASSUME NEW r \in Repos, NEW o \in Oids, r = push[c].repo, o = push[c].oid
          PROVE  Has(r, o)'
      <4>1. new \in rows' /\ new.repo = r /\ new.oid = o
        BY <2>1, <3>1 DEF Create
      <4> HIDE DEF new
      <4> QED BY <4>1 DEF Has, LfsDownload
    <3>2. OwnStep(c) /\ FoundedAt(c)'
      BY <1>3, <2>1, <3>1, GotoFounded DEF Keeps
    <3> QED BY <3>2
  <2>2. CASE Goto(c, else)
    BY <1>3, <2>2, GotoFounded DEF Keeps
  <2> QED BY <2>1, <2>2 DEF CreateStep
<1> QED BY <1>3, <1>4, KeepsInv

LEMMA StatStepInv ==
  ASSUME Inv, NEW c \in Clients, push[c] # Idle, NEW pc \in {"stat", "upload"},
         NEW then, \A e \in BOOLEAN : then[e] \in {"find", "s3put", "insert", "remove"},
         then[FALSE] # "insert",
         StatStep(c, pc, then)
  PROVE  Inv'
<1>1. PICK e \in BOOLEAN :
        /\ push' = [push EXCEPT ![c] = [@ EXCEPT !.exists = e, !.pc = then[e]]]
        /\ e => objects[push[c].oid] # None
  BY DEF StatStep
<1>2. /\ push'[c].pc = then[e] /\ push'[c].exists = e
      /\ push'[c].oid = push[c].oid /\ push'[c].repo = push[c].repo
      /\ OwnStep(c)
  BY <1>1 DEF Inv, TypeInv, TypeOK, PushState, OwnStep, Idle
<1>3. UNCHANGED <<objects, spoiled>> /\ OnlyPush
  BY DEF StatStep, OnlyPush
<1>4. FoundedAt(c)'
  BY <1>1, <1>2, <1>3 DEF FoundedAt, Somewhere
<1> QED BY <1>2, <1>3, <1>4, OnlyPushKeeps

LEMMA PushInv ==
  ASSUME Inv, NEW c \in Clients, Push(c)  PROVE Inv'
<1>0. push[c] # Idle
  <2> SUFFICES ASSUME push[c] = Idle PROVE FALSE
    OBVIOUS
  <2>1. \A pc : At(c, pc) => pc = "idle"
    BY DEF At, Idle
  <2> QED BY <2>1 DEF Push, Again, BatchStat, BuildObjectResponse, BatchCreate, buildUploadLink,
       PutDirect, UploadStat, UploadPut, UploadClean, UploadCreate, UploadRemove, LfsVerify,
       VerifyCreate, StatStep, CreateStep
<1>a. FoundedAt(c)
  BY InvByClient DEF Inv, AllFounded
<1>t. /\ push[c].repo \in Repos /\ push[c].oid \in Oids /\ push[c].size \in Sizes
      /\ push[c].size \in Nat \ {0}
  BY <1>0, SizesType DEF Inv, TypeInv, TypeOK, PushState
\* A step that changes nothing but where the client is.
<1>g. ASSUME OnlyPush, NEW pc \in {"stat", "find", "create", "link", "put", "upload", "s3put", "clean",
                                   "insert", "remove", "verify", "record", "done", "failed"},
             Goto(c, pc), pc \in {"create", "insert", "record"} => Somewhere(push[c].oid),
             pc # "clean", pc = "done" => Has(push[c].repo, push[c].oid)
      PROVE  Inv'
  <2>1. OwnStep(c) /\ FoundedAt(c)'
    BY <1>0, <1>g, GotoFounded DEF OnlyPush, Somewhere, Has, LfsDownload
  <2> QED BY <1>g, <2>1, OnlyPushKeeps
<1>1. CASE Again(c)
  BY <1>1, <1>g DEF Again
<1>2. CASE BatchStat(c)
  BY <1>0, <1>2, StatStepInv DEF BatchStat
<1>3. CASE BuildObjectResponse(c)
  BY <1>3, <1>a, <1>0, <1>g DEF BuildObjectResponse, FoundedAt, Has, LfsDownload, RowOf
<1>4. CASE BatchCreate(c)
  BY <1>0, <1>4, <1>a, CreateStepInv DEF BatchCreate, CreateStep, At, FoundedAt
<1>5. CASE buildUploadLink(c)
  BY <1>5, <1>g DEF buildUploadLink
<1>6. CASE PutDirect(c)
  <2>1. PICK pc \in {"verify", "failed"} : Goto(c, pc)
    BY <1>6 DEF PutDirect
  <2>2. UNCHANGED <<rows, spoiled, dropped, pushes, lockVars>>
    BY <1>6 DEF PutDirect
  <2>3. StoreType' /\ \A o \in Oids : objects[o] # None => objects'[o] # None
    BY <1>6, <1>t, <2>2, LfsAssumption DEF PutDirect, Inv, TypeInv, TypeOK, StoreType, None
  <2>4. OwnStep(c) /\ FoundedAt(c)'
    BY <1>0, <2>1, <2>2, <2>3, GotoFounded DEF Somewhere
  <2>5. Keeps /\ UNCHANGED lockVars
    BY <2>2, <2>3 DEF Keeps, Somewhere, Has, LfsDownload
  <2> QED BY <2>3, <2>4, <2>5, KeepsInv
<1>7. CASE UploadStat(c)
  <2>1. CASE StatStep(c, "upload",
               [e \in BOOLEAN |->
                 IF ~e THEN "s3put"
                 ELSE IF c \in load.writers \/ push[c].size = Content THEN "insert"
                 ELSE "remove"])
    BY <1>0, <2>1, StatStepInv
  <2>2. CASE OnlyPush /\ Goto(c, "remove")
    BY <2>2, <1>g
  <2> QED BY <1>7, <2>1, <2>2 DEF UploadStat
<1>8. CASE UploadPut(c)
  <2>1. UNCHANGED <<rows, dropped>> /\ UNCHANGED lockVars
    BY <1>8 DEF UploadPut
  <2>2. /\ StoreType' /\ spoiled \subseteq spoiled'
        /\ \A o \in Oids : objects[o] # None => objects'[o] # None
    BY <1>8, <1>t, <2>1, LfsAssumption
    DEF UploadPut, Inv, TypeInv, TypeOK, StoreType, None
  <2>3. ASSUME Goto(c, "insert"), objects' = [objects EXCEPT ![push[c].oid] = push[c].size]
        PROVE  OwnStep(c) /\ FoundedAt(c)'
    <3>1. objects'[push[c].oid] # None
      BY <2>3, <1>t DEF Inv, TypeInv, TypeOK, None
    <3>2. OwnStep(c) /\ FoundedAt(c)'
      BY <1>0, <2>2, <2>3, <3>1, GotoFounded DEF Somewhere
    <3> QED BY <3>2
  <2>4. ASSUME Goto(c, "clean"), spoiled' = spoiled \cup {push[c].oid}
        PROVE  OwnStep(c) /\ FoundedAt(c)'
    BY <1>0, <2>2, <2>4, GotoFounded DEF Somewhere
  <2>5. OwnStep(c) /\ FoundedAt(c)'
    BY <1>8, <2>3, <2>4 DEF UploadPut
  <2>6. Keeps
    BY <2>1, <2>2 DEF Keeps, Somewhere, Has, LfsDownload
  <2> QED BY <2>1, <2>2, <2>5, <2>6, KeepsInv
<1>9. CASE UploadClean(c)
  <2>1. push[c].oid \in spoiled
    BY <1>0, <1>9, <1>a DEF UploadClean, At, FoundedAt
  <2>2. UNCHANGED <<rows, spoiled, dropped>> /\ UNCHANGED lockVars
    BY <1>9 DEF UploadClean
  <2>3. StoreType' /\ \A o \in Oids : Somewhere(o) => Somewhere(o)'
    BY <1>9, <1>t, <2>1, <2>2, LfsAssumption
    DEF UploadClean, Inv, TypeInv, TypeOK, StoreType, Somewhere, None
  <2>4. OwnStep(c) /\ FoundedAt(c)'
    BY <1>0, <1>9, <2>1, <2>2, <2>3, GotoFounded DEF UploadClean, Somewhere
  <2>5. Keeps
    BY <2>2, <2>3 DEF Keeps, Has, LfsDownload
  <2> QED BY <2>2, <2>3, <2>4, <2>5, KeepsInv
<1>10. CASE UploadCreate(c)
  BY <1>0, <1>10, <1>a, CreateStepInv DEF UploadCreate, CreateStep, At, FoundedAt
<1>11. CASE UploadRemove(c)
  <2>1. UNCHANGED <<objects, spoiled>> /\ UNCHANGED lockVars
    BY <1>11 DEF UploadRemove
  <2>2. StoreType' /\ rows' \subseteq rows
    <3>1. \A w \in RowOf(c) : <<w.repo, w.oid>> \in Repos \X Oids
      BY DEF RowOf, Inv, TypeInv, TypeOK
    <3> QED BY <1>11, <2>1, <3>1 DEF UploadRemove, Inv, TypeInv, TypeOK, StoreType
  <2>3. \A r \in Repos, o \in Oids : Has(r, o) => Has(r, o)'
    BY <1>11 DEF UploadRemove, Has, LfsDownload
  <2>4. OwnStep(c) /\ FoundedAt(c)'
    BY <1>0, <1>11, <2>1, GotoFounded DEF UploadRemove, Somewhere
  <2>5. Keeps
    BY <2>1, <2>2, <2>3 DEF Keeps, Somewhere
  <2> QED BY <2>1, <2>2, <2>4, <2>5, KeepsInv
<1>12. CASE LfsVerify(c)
  BY <1>12, <1>t, <1>g DEF LfsVerify, Somewhere, None
<1>13. CASE VerifyCreate(c)
  BY <1>0, <1>13, <1>a, CreateStepInv DEF VerifyCreate, CreateStep, At, FoundedAt
<1> QED
  BY <1>1, <1>2, <1>3, <1>4, <1>5, <1>6, <1>7, <1>8, <1>9, <1>10, <1>11, <1>12, <1>13 DEF Push

----------------------------------------------------------------------------
(* The requests about locks. *)

\* What a step about locks may do: a lock more with a new ID, or one less that the
\* request may remove.
Added(c) ==
  \E r \in Repos, p \in Paths :
    /\ FindByPath(r, p) = {}
    /\ lockID < MaxLocks /\ lockID' = lockID + 1
    /\ locks' = locks \cup {[id |-> lockID + 1, repo |-> r, path |-> p, user |-> c]}
Removed(c) ==
  /\ lreq[c].pc = "remove" /\ UNCHANGED lockID
  /\ locks' = locks \ RemoveByID(c)
Same == UNCHANGED locks /\ lockID' \in {lockID, lockID + 1} /\ lockID' <= MaxLocks

LEMMA LocksChange ==
  ASSUME TypeInv, LockInv, NEW c \in Clients, Added(c) \/ Removed(c) \/ Same
  PROVE  /\ LockType' /\ OneLockPerPath'
         /\ lockID <= lockID'
         /\ \A k, l \in locks' : k.id = l.id => k = l
         /\ \A l \in locks' \ locks : l.id > lockID
         /\ \A l \in locks \ locks' :
               lreq[c].pc = "remove" /\ lreq[c].lock = l /\ (lreq[c].force \/ l.user = c)
<1>0. LockType
  BY DEF LockType, TypeInv, TypeOK
<1>1. CASE Added(c)
  <2>1. PICK r \in Repos, p \in Paths :
          /\ FindByPath(r, p) = {}
          /\ lockID < MaxLocks /\ lockID' = lockID + 1
          /\ locks' = locks \cup {[id |-> lockID + 1, repo |-> r, path |-> p, user |-> c]}
    BY <1>1 DEF Added
  <2>2. PICK new : new = [id |-> lockID + 1, repo |-> r, path |-> p, user |-> c]
    OBVIOUS
  <2>3. /\ new \in [id : 1..MaxLocks, repo : Repos, path : Paths, user : Clients]
        /\ new.id = lockID + 1 /\ new.repo = r /\ new.path = p
    BY <1>0, <2>1, <2>2, LfsAssumption DEF LockType
  <2>4. locks' = locks \cup {new}
    BY <2>1, <2>2
  <2>5. LockType'
    BY <1>0, <2>1, <2>3, <2>4, LfsAssumption DEF LockType
  <2>6. \A l \in locks : ~(l.repo = r /\ l.path = p)
    BY <2>1 DEF FindByPath
  <2>7. OneLockPerPath'
    BY <2>3, <2>4, <2>6 DEF OneLockPerPath, LockInv
  <2>8. \A k, l \in locks' : k.id = l.id => k = l
    BY <1>0, <2>3, <2>4 DEF LockType, LockInv, LocksKnown
  <2> QED BY <1>0, <2>1, <2>3, <2>4, <2>5, <2>7, <2>8 DEF LockType
<1>2. CASE Removed(c)
  <2>1. locks' \subseteq locks /\ lockID' = lockID
    BY <1>2 DEF Removed
  <2>2. LockType' /\ OneLockPerPath'
    BY <1>0, <2>1 DEF LockType, LockInv, OneLockPerPath
  <2>3. \A l \in locks \ locks' :
          lreq[c].pc = "remove" /\ lreq[c].lock = l /\ (lreq[c].force \/ l.user = c)
    BY <1>2 DEF Removed, RemoveByID, LockInv, LocksKnown
  <2> QED BY <1>0, <2>1, <2>2, <2>3 DEF LockInv, LocksKnown, LockType
<1>3. CASE Same
  BY <1>0, <1>3, LfsAssumption DEF Same, LockType, LockInv, OneLockPerPath, LocksKnown
<1> QED BY <1>1, <1>2, <1>3

LEMMA AnswerType ==
  ASSUME lreq \in [Clients -> LockReq], NEW c \in Clients,
         NEW a \in {"conflict", "error", "locked", "panic", "denied", "not found", "unlocked"},
         Answer(c, a)
  PROVE  /\ lreq' \in [Clients -> LockReq] /\ lreq'[c].pc # "remove"
         /\ \A d \in Clients : lreq'[d] = lreq[d] \/ d = c
<1>1. [pc |-> a] \in LockReq
  BY DEF LockReq
<1> QED BY <1>1 DEF Answer

LEMMA LockReqTypes ==
  ASSUME NEW r \in LockReq
  PROVE  /\ r.pc = "insert" => r.repo \in Repos /\ r.path \in Paths
         /\ r.pc = "remove" => /\ r.force \in BOOLEAN
                              /\ r.lock \in [id : 1..MaxLocks, repo : Repos, path : Paths,
                                            user : Clients]
<1> DEFINE Lock == [id : 1..MaxLocks, repo : Repos, path : Paths, user : Clients]
<1>1. CASE r = Idle
  BY <1>1 DEF Idle
<1>2. CASE r \in [pc : {"conflict", "error", "locked", "panic", "denied", "not found", "unlocked"}]
  BY <1>2
<1>3. CASE r \in [pc : {"insert"}, repo : Repos, path : Paths]
  BY <1>3
<1>4. CASE r \in [pc : {"remove"}, force : BOOLEAN, lock : Lock]
  BY <1>4
<1> QED BY <1>1, <1>2, <1>3, <1>4 DEF LockReq

LEMMA LockRequestChange ==
  ASSUME TypeInv, LockInv, NEW c \in Clients, LockRequest(c)
  PROVE  /\ Added(c) \/ Removed(c) \/ Same
         /\ UNCHANGED lfsVars /\ UNCHANGED load
         /\ lreq' \in [Clients -> LockReq]
         /\ \A d \in Clients : lreq'[d] = lreq[d] \/ d = c
         /\ lreq'[c].pc = "remove" =>
              /\ UNCHANGED <<locks, lockID>>
              /\ lreq'[c].lock \in locks
              /\ lreq'[c].force \/ lreq'[c].lock.user = c
<1>0. lreq \in [Clients -> LockReq] /\ LockType
  BY DEF LockInv, LocksKnown, TypeInv, TypeOK, LockType
<1>1. CASE CreateLock(c)
  <2>1. UNCHANGED lfsVars /\ UNCHANGED load /\ UNCHANGED <<locks, lockID>>
    BY <1>1 DEF CreateLock, Ask
  <2>2. CASE \E a \in {"conflict", "error"} : Answer(c, a)
    <3>1. PICK a \in {"conflict", "error"} : Answer(c, a)
      BY <2>2
    <3>2. /\ lreq' \in [Clients -> LockReq] /\ lreq'[c].pc # "remove"
          /\ \A d \in Clients : lreq'[d] = lreq[d] \/ d = c
      BY <1>0, <3>1, AnswerType
    <3>3. Same
      BY <1>0, <2>1 DEF Same, LockType
    <3> QED BY <2>1, <3>2, <3>3
  <2>3. CASE \E r \in Repos, p \in Paths :
               lreq' = [lreq EXCEPT ![c] = [pc |-> "insert", repo |-> r, path |-> p]]
    <3>1. PICK r \in Repos, p \in Paths :
               lreq' = [lreq EXCEPT ![c] = [pc |-> "insert", repo |-> r, path |-> p]]
      BY <2>3
    <3>2. [pc |-> "insert", repo |-> r, path |-> p] \in LockReq
      BY DEF LockReq
    <3> QED BY <1>0, <2>1, <3>1, <3>2 DEF Same, LockType
  <2> QED BY <1>1, <2>2, <2>3 DEF CreateLock
<1>2. CASE CreateLockRow(c)
  <2>1. lreq[c].repo \in Repos /\ lreq[c].path \in Paths
    BY <1>0, <1>2, LockReqTypes DEF CreateLockRow
  <2>2. UNCHANGED lfsVars /\ UNCHANGED load
    BY <1>2 DEF CreateLockRow
  <2>3. /\ lockID < MaxLocks /\ lockID' = lockID + 1
        /\ InsertLock(c) \/ UNCHANGED locks
        /\ Answer(c, "locked") \/ Answer(c, "panic")
    BY <1>2 DEF CreateLockRow
  <2>4. Added(c) \/ Same
    BY <1>0, <2>1, <2>3, LfsAssumption DEF InsertLock, Added, Same, LockType
  <2> QED BY <1>0, <2>2, <2>3, <2>4, AnswerType
<1>3. CASE UnLock(c)
  <2>1. UNCHANGED lfsVars /\ UNCHANGED load /\ UNCHANGED <<locks, lockID>>
    BY <1>3 DEF UnLock, Ask
  <2>1a. Same
    BY <1>0, <2>1 DEF Same, LockType
  <2>2. CASE \E a \in {"denied", "not found", "error"} : Answer(c, a)
    <3>1. PICK a \in {"denied", "not found", "error"} : Answer(c, a)
      BY <2>2
    <3>2. /\ lreq' \in [Clients -> LockReq] /\ lreq'[c].pc # "remove"
          /\ \A d \in Clients : lreq'[d] = lreq[d] \/ d = c
      BY <1>0, <3>1, AnswerType
    <3> QED BY <2>1, <2>1a, <3>2
  <2>3. CASE \E l \in locks, force \in BOOLEAN :
               /\ force \/ l.user = c
               /\ lreq' = [lreq EXCEPT ![c] = [pc |-> "remove", lock |-> l, force |-> force]]
    <3>1. PICK l \in locks, force \in BOOLEAN :
               /\ force \/ l.user = c
               /\ lreq' = [lreq EXCEPT ![c] = [pc |-> "remove", lock |-> l, force |-> force]]
      BY <2>3
    <3>2. [pc |-> "remove", lock |-> l, force |-> force] \in LockReq
      BY <1>0 DEF LockReq, LockType
    <3> QED BY <1>0, <2>1, <3>1, <3>2 DEF Same, LockType
  <2> QED BY <1>3, <2>2, <2>3 DEF UnLock
<1>4. CASE UnLockRow(c)
  <2>1. UNCHANGED lfsVars /\ UNCHANGED load /\ UNCHANGED lockID
    BY <1>4 DEF UnLockRow
  <2>2. \E a \in {"unlocked", "error"} : Answer(c, a)
    BY <1>4 DEF UnLockRow
  <2>3. Removed(c) \/ Same
    BY <1>0, <1>4, <2>1 DEF UnLockRow, Removed, Same, LockType
  <2> QED BY <1>0, <2>1, <2>2, <2>3, AnswerType
<1> QED BY <1>1, <1>2, <1>3, <1>4 DEF LockRequest

LEMMA LockRequestInv ==
  ASSUME IInv, NEW c \in Clients, LockRequest(c)  PROVE IInv'
<1> USE DEF IInv, Inv
<1>1. LockType' /\ OneLockPerPath' /\ lockID <= lockID'
  BY LockRequestChange, LocksChange
<1>2. TypeInv' /\ Founded' /\ LinksLeadSomewhere' /\ DoneHasRow'
  BY <1>1, LockRequestChange
  DEF TypeInv, TypeOK, LockType, lfsVars, Founded, LinksLeadSomewhere, DoneHasRow, Somewhere,
      LfsDownload
<1>3. LocksKnown'
  <2>1. ASSUME NEW d \in Clients, lreq'[d].pc = "remove"
        PROVE  /\ lreq'[d].lock.id <= lockID'
               /\ lreq'[d].force \/ lreq'[d].lock.user = d
               /\ \A l \in locks' : l.id = lreq'[d].lock.id => l = lreq'[d].lock
    <3>1. CASE lreq'[d] = lreq[d]
      <4>1. /\ lreq[d].lock.id <= lockID /\ lreq[d].lock.id \in Nat
            /\ lreq[d].force \/ lreq[d].lock.user = d
            /\ \A l \in locks : l.id = lreq[d].lock.id => l = lreq[d].lock
        BY <2>1, <3>1, LockReqTypes DEF LockInv, LocksKnown
      <4>2. \A l \in locks' \ locks : l.id > lockID
        BY LockRequestChange, LocksChange
      <4>3. \A l \in locks' \ locks : l.id # lreq[d].lock.id
        BY <1>1, <4>1, <4>2 DEF TypeInv, TypeOK, LockType
      <4> QED BY <1>1, <3>1, <4>1, <4>3 DEF TypeInv, TypeOK, LockType
    <3>2. CASE d = c /\ lreq'[c].lock \in locks
      BY <2>1, <3>2, LockRequestChange DEF TypeInv, TypeOK, LockInv, LocksKnown
    <3> QED BY <2>1, <3>1, <3>2, LockRequestChange
  <2>2. lreq' \in [Clients -> LockReq] /\ \A k, l \in locks' : k.id = l.id => k = l
    BY LockRequestChange, LocksChange
  <2> QED BY <2>1, <2>2 DEF LocksKnown
<1> QED BY <1>1, <1>2, <1>3 DEF LockInv

----------------------------------------------------------------------------
(* Every step. *)

LEMMA InitIInv == Init => IInv
<1> SUFFICES ASSUME Init PROVE IInv
  OBVIOUS
<1>1. Founded /\ LinksLeadSomewhere /\ DoneHasRow
  BY DEF Init, Founded, LinksLeadSomewhere, DoneHasRow, LfsDownload, Idle
<1>2. LockInv
  BY DEF Init, LockInv, OneLockPerPath, LocksKnown, LockReq, Idle
<1> QED BY <1>1, <1>2, InitTypeInv DEF IInv, Inv

LEMMA PushKeepsLocks ==
  ASSUME IInv, UNCHANGED lockVars  PROVE LockInv'
  BY DEF IInv, LockInv, OneLockPerPath, LocksKnown, lockVars

LEMMA NextIInv == IInv /\ [Next]_vars => IInv'
<1> SUFFICES ASSUME IInv, [Next]_vars PROVE IInv'
  OBVIOUS
<1>1. CASE UNCHANGED vars
  BY <1>1 DEF vars, IInv, Inv, TypeInv, TypeOK, Founded, LinksLeadSomewhere, DoneHasRow, Somewhere,
     LfsDownload, LockInv, OneLockPerPath, LocksKnown
<1>2. ASSUME NEW c \in Clients, Begin(c) PROVE IInv'
  <2>1. UNCHANGED lockVars
    BY <1>2 DEF Begin
  <2> QED BY <1>2, <2>1, BeginInv, PushKeepsLocks DEF IInv
<1>3. ASSUME NEW c \in Clients, Push(c) PROVE IInv'
  <2>1. UNCHANGED lockVars
    BY <1>3 DEF Push, Again, BatchStat, BuildObjectResponse, BatchCreate, buildUploadLink,
       PutDirect, UploadStat, UploadPut, UploadClean, UploadCreate, UploadRemove, LfsVerify,
       VerifyCreate, StatStep, CreateStep, OnlyPush
  <2> QED BY <1>3, <2>1, PushInv, PushKeepsLocks DEF IInv
<1>4. ASSUME NEW c \in Clients, LockRequest(c) PROVE IInv'
  BY <1>4, LockRequestInv
<1> QED BY <1>1, <1>2, <1>3, <1>4 DEF Next

\* The state of every push, every row and every lock has its type, and no object
\* in S3 is larger than its content, whatever sizes pointers give.
THEOREM TypeCorrect == Spec => []TypeOK
<1>1. IInv => TypeOK
  BY DEF IInv, Inv, TypeInv
<1> QED BY <1>1, InitIInv, NextIInv, PTL DEF Spec

\* LfsDownload gives no link to an object that is not in S3, unless an upload of
\* it through the server has failed.
THEOREM DownloadFindsObject == Spec => []LinksLeadSomewhere
<1>1. IInv => LinksLeadSomewhere
  BY DEF IInv, Inv
<1> QED BY <1>1, InitIInv, NextIInv, PTL DEF Spec

\* A push that was reported complete has its row, unless an upload through the
\* server has removed it.
THEOREM DoneIsThere == Spec => []DoneHasRow
<1>1. IInv => DoneHasRow
  BY DEF IInv, Inv
<1> QED BY <1>1, InitIInv, NextIInv, PTL DEF Spec

\* A lock goes by its owner's request or by force only: the request that is about
\* to remove it has looked at this very lock, and IDs are not given again.
THEOREM OwnersKeepLocks == Spec => OwnLockStays
<1>1. IInv /\ [Next]_vars =>
        [\A l \in locks \ locks' : \E c \in Clients :
           lreq[c].pc = "remove" /\ lreq[c].lock = l /\ (lreq[c].force \/ l.user = c)]_vars
  <2> SUFFICES ASSUME IInv, [Next]_vars
               PROVE  \A l \in locks \ locks' : \E c \in Clients :
                        lreq[c].pc = "remove" /\ lreq[c].lock = l /\ (lreq[c].force \/ l.user = c)
    OBVIOUS
  <2>1. CASE UNCHANGED locks
    BY <2>1
  <2>2. ASSUME NEW c \in Clients, LockRequest(c)
        PROVE  \A l \in locks \ locks' :
                 lreq[c].pc = "remove" /\ lreq[c].lock = l /\ (lreq[c].force \/ l.user = c)
    BY <2>2, LockRequestChange, LocksChange DEF IInv, Inv
  <2>3. ASSUME NEW c \in Clients, Begin(c) \/ Push(c) PROVE UNCHANGED locks
    BY <2>3 DEF Begin, Push, Again, BatchStat, BuildObjectResponse, BatchCreate, buildUploadLink,
       PutDirect, UploadStat, UploadPut, UploadClean, UploadCreate, UploadRemove, LfsVerify,
       VerifyCreate, StatStep, CreateStep, OnlyPush, lockVars
  <2> QED BY <2>1, <2>2, <2>3 DEF Next, vars
<1> QED BY <1>1, InitIInv, NextIInv, PTL DEF Spec, OwnLockStays

----------------------------------------------------------------------------
(* Locks implement locks of paths. *)

\* The leave that the request of c has got, if it is about to remove a lock.
LeaveOf(c) == [user |-> c, lock |-> lreq[c].lock, force |-> lreq[c].force]

LEMMA LeaveByClient ==
  \A a : a \in Leave <=> \E d \in Clients : lreq[d].pc = "remove" /\ a = LeaveOf(d)
  BY DEF Leave, LeaveOf

\* Only the leave of the client that makes the step may come or go.
LEMMA LeaveChange ==
  ASSUME NEW c \in Clients, lreq \in [Clients -> LockReq], lreq' \in [Clients -> LockReq],
         \A d \in Clients : lreq'[d] = lreq[d] \/ d = c
  PROVE  /\ lreq[c].pc # "remove" /\ lreq'[c].pc # "remove" => Leave' = Leave
         /\ lreq[c].pc # "remove" /\ lreq'[c].pc = "remove" => Leave' = Leave \cup {LeaveOf(c)'}
         /\ lreq[c].pc = "remove" /\ lreq'[c].pc # "remove" => Leave' = Leave \ {LeaveOf(c)}
<1>1. \A a : a \in Leave <=> \E d \in Clients : lreq[d].pc = "remove" /\ a = LeaveOf(d)
  BY LeaveByClient
<1>2. \A a : a \in Leave' <=> \E d \in Clients : lreq'[d].pc = "remove" /\ a = LeaveOf(d)'
  BY DEF Leave, LeaveOf
<1>3. \A d \in Clients : d # c => LeaveOf(d)' = LeaveOf(d)
  BY DEF LeaveOf
<1>4. \A d \in Clients : LeaveOf(d).user = d
  BY DEF LeaveOf
<1>5. ASSUME lreq[c].pc # "remove", lreq'[c].pc # "remove" PROVE Leave' = Leave
  <2>1. \A a : a \in Leave' <=> a \in Leave
    BY <1>1, <1>2, <1>3, <1>5
  <2> QED BY <2>1
<1>6. ASSUME lreq[c].pc # "remove", lreq'[c].pc = "remove" PROVE Leave' = Leave \cup {LeaveOf(c)'}
  BY <1>1, <1>2, <1>3, <1>6
<1>7. ASSUME lreq[c].pc = "remove", lreq'[c].pc # "remove" PROVE Leave' = Leave \ {LeaveOf(c)}
  BY <1>1, <1>2, <1>3, <1>4, <1>7
<1> QED BY <1>5, <1>6, <1>7

\* What the requests have asked leave for.
LEMMA LeaveKnown ==
  ASSUME LockInv, NEW a \in Leave  PROVE a.lock.id <= lockID
  BY LeaveByClient DEF LeaveOf, LockInv, LocksKnown

\* Requests about locks are steps of locks of paths.
LEMMA LockRequestImplements ==
  ASSUME IInv, NEW c \in Clients, LockRequest(c)
  PROVE  [AbstractLocks!Next]_<<locks, Leave>>
<1>0. /\ lreq \in [Clients -> LockReq] /\ lreq' \in [Clients -> LockReq]
      /\ \A d \in Clients : lreq'[d] = lreq[d] \/ d = c
      /\ TypeInv /\ LockInv
  BY LockRequestChange DEF IInv, Inv, LockInv, LocksKnown
<1>1. CASE CreateLock(c)
  <2>1. lreq[c].pc # "remove" /\ UNCHANGED locks
    BY <1>1 DEF CreateLock, Ask
  <2>2. lreq'[c].pc # "remove"
    BY <1>0, <1>1 DEF CreateLock, Answer
  <2> QED BY <1>0, <2>1, <2>2, LeaveChange
<1>2. CASE CreateLockRow(c)
  <2>1. lreq[c].pc = "insert" /\ lreq'[c].pc # "remove"
    BY <1>0, <1>2 DEF CreateLockRow, Answer
  <2>2. UNCHANGED Leave
    BY <1>0, <2>1, LeaveChange
  <2>3. CASE UNCHANGED locks
    BY <2>2, <2>3
  <2>4. CASE InsertLock(c)
    <3>1. lreq[c].repo \in Repos /\ lreq[c].path \in Paths
      BY <1>0, <2>1, LockReqTypes
    <3>2. PICK l : l = [id |-> lockID + 1, repo |-> lreq[c].repo, path |-> lreq[c].path, user |-> c]
      OBVIOUS
    <3>3. lockID \in 0..MaxLocks /\ lockID < MaxLocks
      BY <1>0, <1>2 DEF CreateLockRow, TypeInv, TypeOK
    <3>4. l \in AllLocks
      BY <3>1, <3>2, <3>3, LfsAssumption DEF AllLocks
    <3>5. \A k \in locks : k.repo # l.repo \/ k.path # l.path
      BY <2>4, <3>2 DEF InsertLock, FindByPath
    <3>6. l.id = lockID + 1
      BY <3>2
    <3>7. \A a \in Leave : a.lock # l
      BY <1>0, <3>3, <3>6, LeaveKnown
    <3>8. locks' = locks \cup {l}
      BY <2>4, <3>2 DEF InsertLock
    <3>9. AbstractLocks!Grant(l)
      BY <2>2, <3>5, <3>7, <3>8 DEF AbstractLocks!Grant
    <3> QED BY <3>4, <3>9 DEF AbstractLocks!Next
  <2> QED BY <1>2, <2>3, <2>4 DEF CreateLockRow
<1>3. CASE UnLock(c)
  <2>1. lreq[c].pc # "remove" /\ UNCHANGED locks
    BY <1>3 DEF UnLock, Ask
  <2>2. CASE lreq'[c].pc # "remove"
    BY <1>0, <2>1, <2>2, LeaveChange
  <2>3. CASE lreq'[c].pc = "remove"
    <3>1. lreq'[c].lock \in locks /\ (lreq'[c].force \/ lreq'[c].lock.user = c)
      BY <1>0, <1>3, <2>3, LockRequestChange DEF LockRequest
    <3>2. lreq'[c].force \in BOOLEAN
      BY <1>0, <2>3, LockReqTypes
    <3>3. PICK l \in locks, f \in BOOLEAN : l = lreq'[c].lock /\ f = lreq'[c].force
      BY <3>1, <3>2
    <3>4. Leave' = Leave \cup {[user |-> c, lock |-> l, force |-> f]}
      BY <1>0, <2>1, <2>3, <3>3, LeaveChange DEF LeaveOf
    <3>5. AbstractLocks!GetLeave(c, l, f)
      BY <2>1, <3>1, <3>3, <3>4 DEF AbstractLocks!GetLeave
    <3> QED BY <3>5 DEF AbstractLocks!Next
  <2> QED BY <2>2, <2>3
<1>4. CASE UnLockRow(c)
  <2>1. lreq[c].pc = "remove" /\ lreq'[c].pc # "remove"
    BY <1>0, <1>4 DEF UnLockRow, Answer
  <2>2. PICK a : a = LeaveOf(c)
    OBVIOUS
  <2>3. a \in Leave /\ Leave' = Leave \ {a}
    BY <1>0, <2>1, <2>2, LeaveChange, LeaveByClient
  <2>4. RemoveByID(c) \subseteq {a.lock} /\ (a.lock \in locks => a.lock \in RemoveByID(c))
    BY <1>0, <2>1, <2>2 DEF RemoveByID, LeaveOf, LockInv, LocksKnown
  <2>5. CASE UNCHANGED locks
    BY <2>3, <2>5 DEF AbstractLocks!Next, AbstractLocks!Forget
  <2>6. CASE locks' = locks \ RemoveByID(c)
    <3>1. locks' = locks \ {a.lock}
      BY <2>4, <2>6
    <3> QED BY <2>3, <3>1 DEF AbstractLocks!Next, AbstractLocks!Remove
  <2> QED BY <1>4, <2>5, <2>6 DEF UnLockRow
<1> QED BY <1>1, <1>2, <1>3, <1>4 DEF LockRequest

\* Locks of a repository are locks of paths, for any clients, paths, failures and
\* numbers of requests.
THEOREM LocksOfPaths == Spec => ImplementsPathLocks
<1>1. Init => AbstractLocks!Init
  BY DEF Init, AbstractLocks!Init, Leave, Idle
<1>2. IInv /\ [Next]_vars => [AbstractLocks!Next]_<<locks, Leave>>
  <2> SUFFICES ASSUME IInv, [Next]_vars PROVE [AbstractLocks!Next]_<<locks, Leave>>
    OBVIOUS
  <2>1. CASE UNCHANGED lockVars
    BY <2>1 DEF lockVars, Leave
  <2>2. CASE UNCHANGED vars
    BY <2>1, <2>2 DEF vars, lockVars
  <2>3. ASSUME NEW c \in Clients, LockRequest(c) PROVE [AbstractLocks!Next]_<<locks, Leave>>
    BY <2>3, LockRequestImplements
  <2>4. ASSUME NEW c \in Clients, Begin(c) \/ Push(c) PROVE UNCHANGED lockVars
    BY <2>4 DEF Begin, Push, Again, BatchStat, BuildObjectResponse, BatchCreate, buildUploadLink,
       PutDirect, UploadStat, UploadPut, UploadClean, UploadCreate, UploadRemove, LfsVerify,
       VerifyCreate, StatStep, CreateStep, OnlyPush
  <2> QED BY <2>1, <2>2, <2>3, <2>4 DEF Next
<1> QED BY <1>1, <1>2, InitIInv, NextIInv, PTL DEF Spec, ImplementsPathLocks, AbstractLocks!Spec

============================================================================
