-------------------------------- MODULE Repos --------------------------------
(***************************************************************************)
(* Repositories of the API server (component/): models, datasets, codes,   *)
(* spaces and prompts, each with a row in repositories, a row in the table *)
(* of its kind and a tree in Gitaly; the likes of repositories and of      *)
(* collections, and the count of downloads.  No request uses a transaction *)
(* for more than one table and its counter: what a request has read may be *)
(* old when it writes, and it may fail between any two of its writes.      *)
(***************************************************************************)
EXTENDS Integers, FiniteSets, FiniteSetsExt

CONSTANTS
  Clients,   \* requests at the same time
  Users,
  Rights,    \* what each user may do in the namespace: "read", "write" and "admin"
             \* stand for roles, "site" for CanAdmin and "mail" for an email address
  Slots,     \* a kind and a path: git_path in the table and in Gitaly
  MaxID,     \* bound on the IDs of rows
  Loads      \* the kinds of behaviour to look at, one of which Init chooses

Kinds == {"model", "dataset", "code", "space", "prompt"}
FirstFiles == {"README.md", ".gitattributes"}
Files == FirstFiles \cup {"config.toml"}

\* NULL in a column that Go reads as 0, and writes when the value is 0 (nullzero).
Null == 1000

ASSUME ReposAssumption ==
  /\ Rights \in [Users -> SUBSET {"read", "write", "admin", "site", "mail"}]
  /\ \A s \in Slots : s.kind \in Kinds
  /\ MaxID \in Nat
  /\ \A l \in Loads : /\ l.slots \subseteq Slots /\ l.known \subseteq Slots
                      /\ IsFiniteSet(l.known) /\ 2 * Cardinality(l.known) <= MaxID
                      /\ l.calls \in 0..(Null - 1) /\ l.faults \in Nat

VARIABLES
  repos,      \* table repositories
  typed,      \* tables models, datasets, codes, spaces and prompts
  git,        \* external: Gitaly, the files of each tree
  likes,      \* table user_likes: the user and what is liked, with a unique index
  colls,      \* table collections
  downloads,  \* table repository_downloads, of one day
  lastID,     \* the ID given last; the tables' sequences are one here
  req,        \* the requests
  load,       \* the slots, the requests that are made, and bounds
  calls, faults,
  answered,   \* history: the repositories whose creation was reported
  condemned,  \* history: the repositories that a deletion has found
  gone,       \* history: the rows whose deletion was reported
  overlap     \* history: slots of which a deletion met another deletion or a creation

tables == <<repos, typed, likes, colls, downloads, lastID>>
history == <<answered, condemned, gone, overlap>>
vars == <<tables, git, req, load, calls, faults, history>>

Coalesce(v, d) == IF v = Null THEN d ELSE v
Written(n) == IF n = 0 THEN Null ELSE n

NoTree == {"absent"}
Idle == [pc |-> "idle"]

Row(id, s, private) == [id |-> id, slot |-> s, private |-> private, likes |-> Null, downloads |-> 0]

\* Every known repository is complete and has two IDs.
Init ==
  /\ load \in Loads
  /\ \E no \in [load.known -> 1..Cardinality(load.known)] :
       /\ \A s, t \in load.known : no[s] = no[t] => s = t
       /\ repos = {Row(no[s], s, FALSE) : s \in load.known}
       /\ typed = {[id |-> no[s] + Cardinality(load.known), repo |-> no[s]] : s \in load.known}
       /\ answered = {[id |-> no[s], slot |-> s, files |-> FirstFiles] : s \in load.known}
  /\ lastID = 2 * Cardinality(load.known)
  /\ git = [s \in Slots |-> IF s \in load.known THEN FirstFiles ELSE NoTree]
  /\ likes = {} /\ colls = {} /\ downloads = {}
  /\ req = [c \in Clients |-> Idle]
  /\ calls = 0 /\ faults = 0
  /\ condemned = {} /\ gone = {} /\ overlap = {}

----------------------------------------------------------------------------
(* Requests. *)

NoFault == UNCHANGED faults
Fault == faults < load.faults /\ faults' = faults + 1

Start(c, op, r) ==
  /\ req[c] = Idle /\ op \in load.ops
  /\ calls < load.calls /\ calls' = calls + 1
  /\ req' = [req EXCEPT ![c] = r]

At(c, pc) == req[c].pc = pc
Then(c, r) == req' = [req EXCEPT ![c] = r]
Goto(c, pc) == req' = [req EXCEPT ![c].pc = pc]
End(c) == Then(c, Idle)

Only == UNCHANGED <<load, calls>>
OnlyReq == UNCHANGED <<tables, git, load, history>> /\ NoFault
NewID == lastID < MaxID /\ lastID' = lastID + 1

\* An error that changes nothing ends a request at any of its steps.
Fails(c) ==
  /\ req[c] # Idle /\ End(c) /\ Fault
  /\ UNCHANGED <<tables, git, history>> /\ Only

May(u, right) == right \in Rights[u]
MayWrite(u) == May(u, "site") \/ May(u, "write")

Find(s) == {r \in repos : r.slot = s}
ByID(id) == {r \in repos : r.id = id}

\* The requests that create or delete the repository of a slot.
Busy(ops, s) == \E c \in Clients : req[c] # Idle /\ req[c].op \in ops /\ req[c].slot = s
Meet(ops, s) == overlap' = IF Busy(ops, s) THEN overlap \cup {s} ELSE overlap

----------------------------------------------------------------------------
(* Creation: the tree, the row, the row of the kind, the first files. *)

Create(c, s, files) ==
  /\ \E u \in Users, private \in BOOLEAN :
       /\ May(u, "mail") /\ MayWrite(u)
       /\ Start(c, "create", [pc |-> "tree", op |-> "create", slot |-> s, private |-> private,
                              id |-> 0, files |-> files, todo |-> files])
  /\ Meet({"delete"}, s)
  /\ UNCHANGED <<tables, git, load, answered, condemned, gone>> /\ NoFault

SlotsOf(kind) == {s \in load.slots : s.kind = kind}

CreateModel(c) == \E s \in SlotsOf("model") : Create(c, s, FirstFiles)
CreateDataset(c) == \E s \in SlotsOf("dataset") : Create(c, s, FirstFiles)
CreateCode(c) == \E s \in SlotsOf("code") : Create(c, s, FirstFiles)
CreatePrompt(c) == \E s \in SlotsOf("prompt") : Create(c, s, FirstFiles)
\* A space that uses Streamlit gets a third file.
CreateSpace(c) ==
  \E s \in SlotsOf("space"), more \in {{}, {"config.toml"}} : Create(c, s, FirstFiles \cup more)

\* Creating a tree that exists is an error; a timeout may come after the work is done.
MakeAnyTree(c) ==
  /\ At(c, "tree")
  /\ git' = [git EXCEPT ![req[c].slot] = {}]
  /\ Goto(c, "insert") /\ NoFault
  /\ UNCHANGED <<tables, history>> /\ Only
CreateTree(c) ==
  /\ At(c, "tree")
  /\ \/ /\ git[req[c].slot] = NoTree
        /\ git' = [git EXCEPT ![req[c].slot] = {}]
        /\ \/ Goto(c, "insert") /\ NoFault
           \/ End(c) /\ Fault
     \/ git[req[c].slot] # NoTree /\ End(c) /\ NoFault /\ UNCHANGED git
  /\ UNCHANGED <<tables, history>> /\ Only

\* The index on git_path refuses a second row.
InsertRow(c) ==
  /\ At(c, "insert")
  /\ \/ /\ Find(req[c].slot) = {} /\ NewID
        /\ repos' = repos \cup {Row(lastID + 1, req[c].slot, req[c].private)}
        /\ Then(c, [req[c] EXCEPT !.pc = "kind", !.id = lastID + 1])
     \/ Find(req[c].slot) # {} /\ End(c) /\ UNCHANGED <<repos, lastID>>
  /\ UNCHANGED <<typed, git, likes, colls, downloads, history>> /\ NoFault /\ Only

InsertTyped(c) ==
  /\ At(c, "kind") /\ NewID
  /\ typed' = typed \cup {[id |-> lastID + 1, repo |-> req[c].id]}
  /\ Goto(c, "file")
  /\ UNCHANGED <<repos, git, likes, colls, downloads, history>> /\ NoFault /\ Only

\* The README comes first, config.toml last.
NextFile(todo) ==
  CHOOSE f \in todo : \/ f = "README.md"
                      \/ "README.md" \notin todo /\ f = ".gitattributes"
                      \/ todo = {"config.toml"}

\* A commit needs its tree, and a file of the same name is an error.
CreateRepoFile(c) ==
  LET s == req[c].slot
      f == NextFile(req[c].todo)
      rest == req[c].todo \ {f}
  IN /\ At(c, "file")
     /\ \/ /\ git[s] # NoTree /\ f \notin git[s]
           /\ git' = [git EXCEPT ![s] = @ \cup {f}]
           /\ IF rest = {}
              THEN /\ End(c)
                   /\ answered' = answered \cup {[id |-> req[c].id, slot |-> s, files |-> req[c].files]}
              ELSE Then(c, [req[c] EXCEPT !.todo = rest]) /\ UNCHANGED answered
        \/ (git[s] = NoTree \/ f \in git[s]) /\ End(c) /\ UNCHANGED <<git, answered>>
     /\ UNCHANGED <<tables, condemned, gone, overlap>> /\ NoFault /\ Only

----------------------------------------------------------------------------
(* Deletion: the row of the kind is found by its path, then the row. *)

Delete(c, s) ==
  /\ \E u \in Users, t \in typed :
       /\ \E r \in Find(s) : r.id = t.repo
       /\ Start(c, "delete", [pc |-> "find", op |-> "delete", slot |-> s, user |-> u,
                              id |-> 0, typed |-> t.id])
  /\ Meet({"delete", "create"}, s)
  /\ UNCHANGED <<tables, git, load, answered, condemned, gone>> /\ NoFault

DeleteModel(c) == \E s \in SlotsOf("model") : Delete(c, s)
DeleteDataset(c) == \E s \in SlotsOf("dataset") : Delete(c, s)
DeleteCode(c) == \E s \in SlotsOf("code") : Delete(c, s)
DeletePrompt(c) == \E s \in SlotsOf("prompt") : Delete(c, s)
DeleteSpace(c) == \E s \in SlotsOf("space") : Delete(c, s)

\* A site administrator without the role in the namespace may not delete.
DeleteRepo(c) ==
  /\ At(c, "find")
  /\ \/ /\ May(req[c].user, "admin")
        /\ \E r \in Find(req[c].slot) :
             /\ Then(c, [req[c] EXCEPT !.pc = "clean", !.id = r.id])
             /\ condemned' = condemned \cup {r.id}
     \/ /\ ~May(req[c].user, "admin") \/ Find(req[c].slot) = {}
        /\ End(c) /\ UNCHANGED condemned
  /\ UNCHANGED <<tables, git, answered, gone, overlap>> /\ NoFault /\ Only

CleanRelationsByRepoID(c) ==
  /\ At(c, "clean")
  /\ likes' = {l \in likes : l.of # req[c].id}
  /\ Goto(c, "remove")
  /\ UNCHANGED <<repos, typed, git, colls, downloads, lastID, history>> /\ NoFault /\ Only

\* By path; removing a tree that does not exist is an error.
ForgetTree(c) == At(c, "remove") /\ Goto(c, "delete") /\ OnlyReq /\ UNCHANGED calls
RemoveTree(c) ==
  /\ At(c, "remove")
  /\ \/ /\ git[req[c].slot] # NoTree
        /\ git' = [git EXCEPT ![req[c].slot] = NoTree]
        /\ \/ Goto(c, "delete") /\ NoFault
           \/ End(c) /\ Fault
     \/ git[req[c].slot] = NoTree /\ End(c) /\ NoFault /\ UNCHANGED git
  /\ UNCHANGED <<tables, history>> /\ Only

\* By ID; no error when the row is gone.
DeleteRow(c) ==
  /\ At(c, "delete")
  /\ repos' = repos \ ByID(req[c].id)
  /\ Goto(c, "untype")
  /\ UNCHANGED <<typed, git, likes, colls, downloads, lastID, history>> /\ NoFault /\ Only

\* By ID; an error when the row is gone.
DeleteTyped(c) ==
  /\ At(c, "untype") /\ End(c)
  /\ typed' = {t \in typed : t.id # req[c].typed}
  /\ gone' = IF typed' # typed THEN gone \cup {req[c].id, req[c].typed} ELSE gone
  /\ UNCHANGED <<repos, git, likes, colls, downloads, lastID, answered, condemned, overlap>>
  /\ NoFault /\ Only

----------------------------------------------------------------------------
(* Changes of a row: all its columns are written back as they were read. *)

\* The columns of the copy, where the row still exists.
UpdateOrInsert(row) ==
  repos' = (repos \ ByID(row.id)) \cup {[row EXCEPT !.likes = Written(Coalesce(@, 0))]}
UpdateRow(row) ==
  repos' = IF ByID(row.id) = {} THEN repos
           ELSE (repos \ ByID(row.id)) \cup {[row EXCEPT !.likes = Written(Coalesce(@, 0))]}

Update(c, s) ==
  /\ \E u \in Users, r \in Find(s), private \in BOOLEAN :
       /\ MayWrite(u)
       /\ Start(c, "update", [pc |-> "save", op |-> "update", slot |-> s,
                              row |-> [r EXCEPT !.private = private]])
  /\ OnlyReq

\* The table of the kind is then written the same way; its columns are left out.
UpdateModel(c) == \E s \in SlotsOf("model") : Update(c, s)
UpdateDataset(c) == \E s \in SlotsOf("dataset") : Update(c, s)
UpdateCode(c) == \E s \in SlotsOf("code") : Update(c, s)
UpdatePrompt(c) == \E s \in SlotsOf("prompt") : Update(c, s)
UpdateSpace(c) == \E s \in SlotsOf("space") : Update(c, s)

SaveRow(c) ==
  /\ At(c, "save") /\ End(c)
  /\ UpdateRow(req[c].row)
  /\ UNCHANGED <<typed, git, likes, colls, downloads, lastID, history>> /\ NoFault /\ Only

IncrDownloads(c) ==
  /\ \E s \in load.slots : \E r \in Find(s) :
       Start(c, "click", [pc |-> "day", op |-> "click", slot |-> s, row |-> r, day |-> {}])
  /\ OnlyReq
UpdateDownloads(c) ==
  /\ \E s \in load.slots : \E r \in Find(s) :
       Start(c, "clone", [pc |-> "day", op |-> "clone", slot |-> s, row |-> r, day |-> {}])
  /\ OnlyReq

\* The day's row of the repository; two requests may have inserted two.
ReadDay(c) ==
  /\ At(c, "day")
  /\ LET days == {d \in downloads : d.repo = req[c].row.id}
     IN \E day \in (IF days = {} THEN {{}} ELSE {{d} : d \in days}) :
          Then(c, [req[c] EXCEPT !.pc = "count", !.day = day])
  /\ OnlyReq /\ UNCHANGED calls

\* A click adds one; a report of clones, here of two, replaces what was there.
Counted(op, d) ==
  IF op = "click" THEN [d EXCEPT !.click = @ + 1] ELSE [d EXCEPT !.clone = 2]

WriteDay(c) ==
  LET day == req[c].day
      new == [id |-> lastID + 1, repo |-> req[c].row.id, click |-> 0, clone |-> 0]
  IN /\ At(c, "count")
     /\ \/ /\ day = {} /\ NewID
           /\ downloads' = downloads \cup {Counted(req[c].op, new)}
        \/ /\ day # {} /\ UNCHANGED lastID
           /\ downloads' = {IF \E e \in day : d.id = e.id
                            THEN CHOOSE x \in {Counted(req[c].op, e) : e \in day} : TRUE
                            ELSE d : d \in downloads}
     /\ Goto(c, "sum")
     /\ UNCHANGED <<repos, typed, git, likes, colls, history>> /\ NoFault /\ Only

Total(days) == MapThenSumSet(LAMBDA d : d.click + d.clone, days)
SumDownloads(c) ==
  /\ At(c, "sum")
  /\ LET days == {d \in downloads : d.repo = req[c].row.id}
     IN Then(c, [req[c] EXCEPT !.pc = "save", !.row.downloads = Total(days)])
  /\ OnlyReq /\ UNCHANGED calls

----------------------------------------------------------------------------
(* Likes and collections. *)

\* The counter of a repository or of a collection, where it exists.
Bumped(rows, id, n, default) ==
  {IF r.id = id THEN [r EXCEPT !.likes = Coalesce(@, default) + n] ELSE r : r \in rows}
Exists(id) == \E r \in repos \cup colls : r.id = id

AddLikes(c) ==
  /\ \E u \in Users, r \in repos :
       /\ r.private => May(u, "read")
       /\ Start(c, "like", [pc |-> "like", op |-> "like", slot |-> r.slot, user |-> u, id |-> r.id])
  /\ OnlyReq
LikeCollection(c) ==
  /\ \E u \in Users, k \in colls :
       /\ k.private => k.user = u
       /\ Start(c, "like", [pc |-> "like", op |-> "like", slot |-> "none", user |-> u, id |-> k.id])
  /\ OnlyReq

\* One transaction: the row, which must be new, and the counter, which must exist.
Add(c) ==
  LET l == [user |-> req[c].user, of |-> req[c].id]
  IN /\ At(c, "like") /\ End(c)
     /\ IF l \notin likes /\ Exists(l.of)
        THEN /\ likes' = likes \cup {l}
             /\ repos' = Bumped(repos, l.of, 1, 0) /\ colls' = Bumped(colls, l.of, 1, 0)
        ELSE UNCHANGED <<likes, repos, colls>>
     /\ UNCHANGED <<typed, git, downloads, lastID, history>> /\ NoFault /\ Only

\* The row is deleted outside of the transaction that changes the counter.
Unlike(c) ==
  /\ \E u \in Users, id \in 1..lastID :
       /\ \E l \in likes : l.of = id
       /\ Start(c, "unlike", [pc |-> "unlike", op |-> "unlike", slot |-> "none", user |-> u, id |-> id])
  /\ OnlyReq
UnlikeAlways(c) ==
  LET l == [user |-> req[c].user, of |-> req[c].id]
  IN /\ At(c, "unlike") /\ likes' = likes \ {l} /\ Goto(c, "countdown")
     /\ UNCHANGED <<repos, typed, git, colls, downloads, lastID, history>> /\ NoFault /\ Only
DeleteLike(c) ==
  LET l == [user |-> req[c].user, of |-> req[c].id]
  IN /\ At(c, "unlike")
     /\ likes' = likes \ {l}
     /\ IF l \in likes THEN Goto(c, "countdown") ELSE End(c)
     /\ UNCHANGED <<repos, typed, git, colls, downloads, lastID, history>> /\ NoFault /\ Only
CountDown(c) ==
  /\ At(c, "countdown") /\ End(c)
  /\ repos' = Bumped(repos, req[c].id, -1, 1) /\ colls' = Bumped(colls, req[c].id, -1, 1)
  /\ UNCHANGED <<typed, git, likes, downloads, lastID, history>> /\ NoFault /\ Only

CreateCollection(c) ==
  /\ req[c] = Idle /\ Start(c, "collect", Idle) /\ NewID
  /\ \E u \in Users, private \in BOOLEAN :
       colls' = colls \cup {[id |-> lastID + 1, user |-> u, private |-> private, likes |-> Null]}
  /\ UNCHANGED <<repos, typed, git, likes, downloads, load, history>> /\ NoFault

\* Every column of the collection, its likes too, is written back.
UpdateCollection(c) ==
  /\ \E k \in colls, private \in BOOLEAN :
       Start(c, "edit", [pc |-> "edit", op |-> "edit", slot |-> "none",
                         row |-> [k EXCEPT !.private = private]])
  /\ OnlyReq
SaveCollection(c) ==
  /\ At(c, "edit") /\ End(c)
  /\ colls' = {IF k.id = req[c].row.id
               THEN [req[c].row EXCEPT !.likes = Written(Coalesce(@, 0))] ELSE k : k \in colls}
  /\ UNCHANGED <<repos, typed, git, likes, downloads, lastID, history>> /\ NoFault /\ Only

\* The likes of the collection stay.
DeleteCollection(c) ==
  /\ Start(c, "uncollect", Idle)
  /\ \E u \in Users, k \in colls : k.user = u /\ colls' = colls \ {k}
  /\ UNCHANGED <<repos, typed, git, likes, downloads, lastID, load, history>> /\ NoFault

----------------------------------------------------------------------------
Request(c) ==
  \/ CreateModel(c) \/ CreateDataset(c) \/ CreateCode(c) \/ CreatePrompt(c) \/ CreateSpace(c)
  \/ DeleteModel(c) \/ DeleteDataset(c) \/ DeleteCode(c) \/ DeletePrompt(c) \/ DeleteSpace(c)
  \/ UpdateModel(c) \/ UpdateDataset(c) \/ UpdateCode(c) \/ UpdatePrompt(c) \/ UpdateSpace(c)
  \/ IncrDownloads(c) \/ UpdateDownloads(c)
  \/ AddLikes(c) \/ LikeCollection(c) \/ Unlike(c)
  \/ CreateCollection(c) \/ UpdateCollection(c) \/ DeleteCollection(c)

Work(c) ==
  \/ CreateTree(c) \/ InsertRow(c) \/ InsertTyped(c) \/ CreateRepoFile(c)
  \/ DeleteRepo(c) \/ CleanRelationsByRepoID(c) \/ RemoveTree(c) \/ DeleteRow(c) \/ DeleteTyped(c)
  \/ SaveRow(c) \/ ReadDay(c) \/ WriteDay(c) \/ SumDownloads(c)
  \/ Add(c) \/ DeleteLike(c) \/ CountDown(c) \/ SaveCollection(c)

Next == \E c \in Clients : Request(c) \/ Work(c) \/ Fails(c)
Spec == Init /\ [][Next]_vars

----------------------------------------------------------------------------
(* Properties. *)

TypeOK ==
  /\ repos \subseteq [id : 1..lastID, slot : Slots, private : BOOLEAN, likes : Int, downloads : Nat]
  /\ typed \subseteq [id : 1..lastID, repo : 1..lastID]
  /\ git \in [Slots -> (SUBSET Files) \cup {NoTree}]
  /\ likes \subseteq [user : Users, of : 1..lastID]
  /\ colls \subseteq [id : 1..lastID, user : Users, private : BOOLEAN, likes : Int]
  /\ downloads \subseteq [id : 1..lastID, repo : 1..lastID, click : Nat, clone : Nat]
  /\ lastID \in 0..MaxID
  /\ \A r, q \in repos : r.slot = q.slot => r = q

\* A repository whose creation was reported has its row, the row of its kind and
\* its files until somebody deletes it, whatever fails and whoever else tries to
\* create it, unless a deletion of its path met another one or a creation.
CreatedStays ==
  \A a \in answered :
    \/ a.id \in condemned \/ a.slot \in overlap
    \/ /\ \E r \in repos : r.id = a.id /\ r.slot = a.slot
       /\ \E t \in typed : t.repo = a.id
       /\ git[a.slot] # NoTree /\ a.files \subseteq git[a.slot]

\* When all is done and nothing failed, a path has a row, a row of its kind and a
\* tree, or none of them (it can be used again), with the same exception.
RowsAgree ==
  (faults = 0 /\ \A c \in Clients : req[c] = Idle) =>
    \A s \in Slots \ overlap :
      /\ Find(s) # {} <=> git[s] # NoTree
      /\ \A r \in Find(s) : \E t \in typed : t.repo = r.id
      /\ overlap = {} => \A t \in typed : \E r \in repos : r.id = t.repo

\* What was reported as deleted does not come back, although updates, downloads
\* and likes of it were under way.
DeletedIsGone == \A x \in repos \cup typed : x.id \notin gone

\* The counter is the number of likes, as long as nothing fails, no deletion meets
\* another one and no request writes whole rows.
LikesCounted ==
  (faults = 0 /\ overlap = {} /\ load.ops \cap {"update", "click", "clone", "edit"} = {}) =>
    \A x \in repos \cup colls :
      \/ \E c \in Clients : req[c].pc \in {"remove", "delete"} /\ req[c].id = x.id
      \/ Coalesce(x.likes, 0) =
           Cardinality({l \in likes : l.of = x.id})
           + Cardinality({c \in Clients : req[c].pc = "countdown" /\ req[c].id = x.id})

\* "increase the click download count for repo by 1", and "increase clone download
\* count for repo by given count": no report makes the count smaller.
DownloadsIncrease ==
  [][\A r \in repos, q \in repos' : r.id = q.id => q.downloads >= r.downloads]_vars

\* A repository that was made private stays so unless it is updated.
PrivateStays ==
  [][\A r \in repos, q \in repos' :
       r.id = q.id /\ r.private /\ ~q.private =>
         \E c \in Clients : req[c].pc = "save" /\ req[c].op = "update"]_vars
=============================================================================
