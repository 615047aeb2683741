----------------------------- MODULE ReposProofs -----------------------------
(***************************************************************************)
(* Proofs about Repos, for any requests at the same time, users, paths,    *)
(* failures and calls: a repository whose creation was reported stays      *)
(* complete, rows and trees agree in the end, what was deleted does not    *)
(* come back, and the counters of likes are right.                         *)
(***************************************************************************)
EXTENDS Repos, FiniteSetTheorems, TLAPS

\* What rows, likes and counters leave alone: which row stands for which path.
Key(n) == [id : 1..n, slot : Slots]
Keys == {[id |-> r.id, slot |-> r.slot] : r \in repos}

\* A total of downloads: what a sum over a day's rows returns is not looked at.
Day == [id : Nat, repo : Nat, click : Nat, clone : Nat]
Counts == Nat \cup {Total(days) : days \in SUBSET Day}

\* The rows of the tables and the requests, by the last ID.
RepoRow(n) == [id : 1..n, slot : Slots, private : BOOLEAN, likes : Int, downloads : Counts]
TypedRow(n) == [id : 1..n, repo : 1..n]
CollRow(n) == [id : 1..n, user : Users, private : BOOLEAN, likes : Int]
DayRow(n) == [id : 1..n, repo : 1..n, click : Nat, clone : Nat]
Reported(n) == [id : 1..n, slot : Slots, files : SUBSET Files]

CreateReq(n) == [pc : {"tree", "insert", "kind", "file"}, op : {"create"}, slot : Slots,
                 private : BOOLEAN, id : 0..n, files : SUBSET Files, todo : SUBSET Files]
DeleteReq(n) == [pc : {"find", "clean", "remove", "delete", "untype"}, op : {"delete"},
                 slot : Slots, user : Users, id : 0..n, typed : 1..n]
UpdateReq(n) == [pc : {"save"}, op : {"update"}, slot : Slots, row : RepoRow(n)]
CountReq(n) == [pc : {"day", "count", "sum", "save"}, op : {"click", "clone"}, slot : Slots,
                row : RepoRow(n), day : SUBSET DayRow(n)]
LikeReq(n) == [pc : {"like", "unlike", "countdown"}, op : {"like", "unlike"},
               slot : Slots \cup {"none"}, user : Users, id : 1..n]
EditReq(n) == [pc : {"edit"}, op : {"edit"}, slot : {"none"}, row : CollRow(n)]

ReqState(n) == {Idle} \cup CreateReq(n) \cup DeleteReq(n) \cup UpdateReq(n)
                      \cup CountReq(n) \cup LikeReq(n) \cup EditReq(n)

Making == {"tree", "insert", "kind", "file"}
Deleting == {"find", "clean", "remove", "delete", "untype"}
Holding == {"save", "day", "count", "sum"}

----------------------------------------------------------------------------
(* The inductive invariant. *)

Typed ==
  /\ repos \subseteq RepoRow(lastID)
  /\ typed \subseteq TypedRow(lastID)
  /\ git \in [Slots -> (SUBSET Files) \cup {NoTree}]
  /\ likes \subseteq [user : Users, of : 1..lastID]
  /\ colls \subseteq CollRow(lastID)
  /\ downloads \subseteq DayRow(lastID)
  /\ lastID \in 0..MaxID
  /\ load \in Loads /\ calls \in Nat /\ faults \in Nat
  /\ answered \subseteq Reported(lastID)
  /\ condemned \subseteq 1..lastID /\ gone \subseteq 1..lastID
  /\ req \in [Clients -> ReqState(lastID)]
  /\ \A r, q \in repos : r.slot = q.slot => r = q

\* A path has one row, and no ID is given twice, to rows of kinds neither.
IdsInv ==
  /\ \A k, l \in Keys : k.id = l.id \/ k.slot = l.slot => k = l
  /\ \A t, u \in typed : t.id = u.id \/ t.repo = u.repo => t = u
  /\ \A t \in typed, k \in Keys : t.id # k.id
  /\ \A k \in Keys : k.id \notin gone
  /\ \A t \in typed : t.id \notin gone

\* Whatever a request holds stays with its path, or has gone for ever.
OfSlot(i, s) == \A k \in Keys : k.id = i => k.slot = s
NoRow(i) == \A k \in Keys : k.id # i
Placed(r) ==
  /\ r.pc \in Holding => OfSlot(r.row.id, r.row.slot)
  /\ r.pc \in {"kind", "file"} => r.id > 0 /\ OfSlot(r.id, r.slot)
  /\ r.pc = "kind" => \A t \in typed : t.repo # r.id
  /\ r.pc \in Deleting =>
       NoRow(r.typed) /\ \A t \in typed : t.id = r.typed => OfSlot(t.repo, r.slot)
  /\ r.pc \in Deleting \ {"find"} =>
       /\ r.id \in condemned /\ OfSlot(r.id, r.slot)
       /\ \A t \in typed : t.id # r.id
  /\ r.pc = "untype" => NoRow(r.id)
PlacedInv ==
  /\ \A c \in Clients : Placed(req[c])
  /\ \A c, d \in Clients : req[c].pc = "kind" /\ req[d].pc = "kind" /\ req[c].id = req[d].id => c = d

\* A deletion that meets another request of its path is known.
AloneInv ==
  \A c, d \in Clients :
    /\ c # d /\ req[c].pc \in Deleting /\ req[d].pc \in Deleting \cup Making
    /\ req[c].slot = req[d].slot
    => req[c].slot \in overlap

\* What a request has made, or found, is still there.
Made(r) ==
  /\ r.pc \in Making => r.todo # {} /\ r.todo \subseteq r.files
  /\ r.pc \in Making \ {"file"} => r.todo = r.files
  /\ r.pc \in Making /\ r.slot \notin overlap =>
       /\ r.pc # "tree" => git[r.slot] # NoTree /\ r.files \ r.todo \subseteq git[r.slot]
       /\ r.pc \in {"kind", "file"} => [id |-> r.id, slot |-> r.slot] \in Keys
       /\ r.pc = "file" => \E t \in typed : t.repo = r.id
Met(r) ==
  r.pc \in Deleting /\ r.slot \notin overlap =>
    /\ r.pc = "find" => \E t \in typed : t.id = r.typed /\ [id |-> t.repo, slot |-> r.slot] \in Keys
    /\ r.pc \in {"clean", "remove", "delete"} => [id |-> r.id, slot |-> r.slot] \in Keys
    /\ r.pc \in {"clean", "remove", "delete"} => \E t \in typed : t.id = r.typed /\ t.repo = r.id
    /\ r.pc = "untype" => \A t \in typed : t.id = r.typed => t.repo = r.id
    /\ r.pc = "delete" => git[r.slot] = NoTree
MadeInv == \A c \in Clients : Made(req[c]) /\ Met(req[c])

\* CreatedStays, of keys.
Stays ==
  \A a \in answered :
    \/ a.id \in condemned \/ a.slot \in overlap
    \/ /\ [id |-> a.id, slot |-> a.slot] \in Keys
       /\ \E t \in typed : t.repo = a.id
       /\ git[a.slot] # NoTree /\ a.files \subseteq git[a.slot]

\* RowsAgree, but for what a request is about to do.
Doing(pc, s) == \E c \in Clients : req[c].pc = pc /\ req[c].slot = s
AgreeInv ==
  faults = 0 =>
    /\ \A k \in Keys : k.slot \notin overlap =>
         /\ git[k.slot] # NoTree \/ Doing("delete", k.slot)
         /\ (\E t \in typed : t.repo = k.id) \/ Doing("kind", k.slot)
    /\ \A s \in Slots \ overlap : git[s] # NoTree =>
         (\E k \in Keys : k.slot = s) \/ Doing("insert", s)
    /\ overlap = {} => \A t \in typed :
         \/ \E k \in Keys : k.id = t.repo
         \/ \E c \in Clients : req[c].pc = "untype" /\ req[c].typed = t.id

Core == IdsInv /\ PlacedInv /\ AloneInv /\ MadeInv /\ Stays /\ AgreeInv
IInv == Typed /\ Core

----------------------------------------------------------------------------
(* Lemmas about requests and tables. *)

\* A request's record by where the request is.
LEMMA ReqShapes ==
  ASSUME NEW n \in Nat, NEW r \in ReqState(n)
  PROVE  /\ r.pc \in Making => r \in CreateReq(n) /\ r # Idle
         /\ r.pc \in Deleting => r \in DeleteReq(n) /\ r # Idle
         /\ r.pc = "save" => r \in UpdateReq(n) \cup CountReq(n)
         /\ r.pc \in {"day", "count", "sum"} => r \in CountReq(n)
         /\ r.pc \in {"like", "unlike", "countdown"} => r \in LikeReq(n)
         /\ r.pc = "edit" => r \in EditReq(n)
<1>1. CASE r = Idle
  BY <1>1 DEF Idle, Making, Deleting
<1>2. CASE r \in CreateReq(n)
  BY <1>2 DEF CreateReq, Making, Deleting, Idle
<1>3. CASE r \in DeleteReq(n)
  BY <1>3 DEF DeleteReq, Making, Deleting, Idle
<1>4. CASE r \in UpdateReq(n)
  BY <1>4 DEF UpdateReq, Making, Deleting
<1>5. CASE r \in CountReq(n)
  BY <1>5 DEF CountReq, Making, Deleting
<1>6. CASE r \in LikeReq(n)
  BY <1>6 DEF LikeReq, Making, Deleting
<1>7. CASE r \in EditReq(n)
  BY <1>7 DEF EditReq, Making, Deleting
<1> QED BY <1>1, <1>2, <1>3, <1>4, <1>5, <1>6, <1>7 DEF ReqState

\* The fields of the requests that create, delete or hold a row.
LEMMA ReqFields ==
  ASSUME NEW n \in Nat, NEW r \in ReqState(n)
  PROVE  /\ r.pc \in Making => /\ r # Idle /\ r.op = "create" /\ r.slot \in Slots
                               /\ r.private \in BOOLEAN /\ r.id \in 0..n
                               /\ r.files \in SUBSET Files /\ r.todo \in SUBSET Files
         /\ r.pc \in Deleting => /\ r # Idle /\ r.op = "delete" /\ r.slot \in Slots
                                 /\ r.user \in Users /\ r.id \in 0..n /\ r.typed \in 1..n
         /\ r.pc \in Holding => r.row \in RepoRow(n)
<1>1. r.pc \in Making => r \in CreateReq(n) /\ r # Idle
  BY ReqShapes
<1>2. r.pc \in Deleting => r \in DeleteReq(n) /\ r # Idle
  BY ReqShapes
<1>3. r.pc \in Holding => r \in UpdateReq(n) \cup CountReq(n)
  BY ReqShapes DEF Holding
<1>4. r.pc \in Holding => r.row \in RepoRow(n)
  BY <1>3 DEF UpdateReq, CountReq
<1>5. r \in CreateReq(n) =>
        /\ r.op = "create" /\ r.slot \in Slots
        /\ r.private \in BOOLEAN /\ r.id \in 0..n
        /\ r.files \in SUBSET Files /\ r.todo \in SUBSET Files
  BY DEF CreateReq
<1>6. r \in DeleteReq(n) =>
        /\ r.op = "delete" /\ r.slot \in Slots
        /\ r.user \in Users /\ r.id \in 0..n /\ r.typed \in 1..n
  BY DEF DeleteReq
<1> QED BY <1>1, <1>2, <1>4, <1>5, <1>6

\* What was right for an ID stays right for the next ones.
LEMMA RowsGrow ==
  ASSUME NEW n \in Nat, NEW m \in Nat, n <= m
  PROVE  /\ RepoRow(n) \subseteq RepoRow(m) /\ TypedRow(n) \subseteq TypedRow(m)
         /\ CollRow(n) \subseteq CollRow(m) /\ DayRow(n) \subseteq DayRow(m)
         /\ Reported(n) \subseteq Reported(m) /\ ReqState(n) \subseteq ReqState(m)
         /\ 1..n \subseteq 1..m
         /\ [user : Users, of : 1..n] \subseteq [user : Users, of : 1..m]
<1>1. 1..n \subseteq 1..m /\ 0..n \subseteq 0..m
  OBVIOUS
<1>2. /\ RepoRow(n) \subseteq RepoRow(m) /\ TypedRow(n) \subseteq TypedRow(m)
      /\ CollRow(n) \subseteq CollRow(m) /\ DayRow(n) \subseteq DayRow(m)
      /\ Reported(n) \subseteq Reported(m)
      /\ [user : Users, of : 1..n] \subseteq [user : Users, of : 1..m]
  BY <1>1 DEF RepoRow, TypedRow, CollRow, DayRow, Reported
<1>3. CreateReq(n) \subseteq CreateReq(m) /\ DeleteReq(n) \subseteq DeleteReq(m)
  BY <1>1 DEF CreateReq, DeleteReq
<1>4. UpdateReq(n) \subseteq UpdateReq(m) /\ EditReq(n) \subseteq EditReq(m)
  BY <1>2 DEF UpdateReq, EditReq
<1>5. CountReq(n) \subseteq CountReq(m)
  BY <1>2 DEF CountReq
<1>6. LikeReq(n) \subseteq LikeReq(m)
  BY <1>1 DEF LikeReq
<1> QED BY <1>1, <1>2, <1>3, <1>4, <1>5, <1>6 DEF ReqState

\* A tree that exists is not the mark of one that does not.
LEMMA TreeIsNoMark == \A fs \in SUBSET Files : fs # NoTree
  BY DEF Files, FirstFiles, NoTree

LEMMA KeysTyped == Typed => Keys \subseteq Key(lastID)
  BY DEF Typed, Keys, Key, RepoRow

LEMMA FindByKey ==
  ASSUME NEW s
  PROVE  /\ Find(s) # {} <=> \E k \in Keys : k.slot = s
         /\ \A r \in Find(s) : [id |-> r.id, slot |-> s] \in Keys
<1>1. \A r \in Find(s) : r \in repos /\ r.slot = s
  BY DEF Find
<1>2. \A r \in repos : [id |-> r.id, slot |-> r.slot] \in Keys
  BY DEF Keys
<1>3. \A k \in Keys : \E r \in repos : k = [id |-> r.id, slot |-> r.slot]
  BY DEF Keys
<1>4. \A k \in Keys : k.slot = s => Find(s) # {}
  <2> TAKE k \in Keys
  <2>1. PICK r \in repos : k = [id |-> r.id, slot |-> r.slot]
    BY <1>3
  <2>2. k.slot = r.slot
    BY <2>1
  <2> QED BY <2>2 DEF Find
<1>5. \A r \in Find(s) : [id |-> r.id, slot |-> s] \in Keys
  BY <1>1, <1>2
<1>6. Find(s) # {} => \E k \in Keys : k.slot = s
  <2> SUFFICES ASSUME NEW r \in Find(s)
               PROVE  \E k \in Keys : k.slot = s
    OBVIOUS
  <2>1. [id |-> r.id, slot |-> s] \in Keys
    BY <1>5
  <2> QED BY <2>1
<1> QED BY <1>4, <1>5, <1>6

LEMMA InitInv == Init => IInv
<1> SUFFICES ASSUME Init
             PROVE  IInv
  OBVIOUS
<1> DEFINE n == Cardinality(load.known)
<1>1. load \in Loads /\ load.known \subseteq Slots /\ n \in Nat /\ 2 * n \in 0..MaxID
  BY FS_CardinalityType, ReposAssumption DEF Init
<1>2. PICK no \in [load.known -> 1..n] :
        /\ \A s, t \in load.known : no[s] = no[t] => s = t
        /\ repos = {Row(no[s], s, FALSE) : s \in load.known}
        /\ typed = {[id |-> no[s] + n, repo |-> no[s]] : s \in load.known}
        /\ answered = {[id |-> no[s], slot |-> s, files |-> FirstFiles] : s \in load.known}
  BY DEF Init
<1>3. /\ lastID = 2 * n /\ req = [c \in Clients |-> Idle]
      /\ git = [s \in Slots |-> IF s \in load.known THEN FirstFiles ELSE NoTree]
      /\ likes = {} /\ colls = {} /\ downloads = {} /\ calls = 0 /\ faults = 0
      /\ condemned = {} /\ gone = {} /\ overlap = {}
  BY DEF Init
<1> HIDE DEF n
<1> DEFINE row(s) == [id |-> no[s], slot |-> s, private |-> FALSE, likes |-> 1000, downloads |-> 0]
<1>r. repos = {row(s) : s \in load.known}
  BY <1>2 DEF Row, Null
<1>4. FirstFiles \in SUBSET Files /\ FirstFiles # NoTree
  BY TreeIsNoMark DEF Files
<1>5. \A s \in load.known : no[s] \in 1..n /\ no[s] \in 1..lastID /\ no[s] + n \in 1..lastID
  BY <1>1, <1>2, <1>3
<1>6. \A c \in Clients : req[c] = Idle /\ req[c].pc = "idle"
  BY <1>3 DEF Idle
<1>7. Typed
  <2>1. repos \subseteq RepoRow(lastID)
    <3>1. \A s \in load.known : row(s) \in RepoRow(lastID)
      BY <1>1, <1>5 DEF RepoRow, Counts
    <3> HIDE DEF row
    <3> QED BY <3>1, <1>r
  <2>2. typed \subseteq TypedRow(lastID)
    BY <1>2, <1>5 DEF TypedRow
  <2>3. answered \subseteq Reported(lastID)
    BY <1>1, <1>2, <1>4, <1>5 DEF Reported
  <2>4. git \in [Slots -> (SUBSET Files) \cup {NoTree}]
    BY <1>3, <1>4
  <2>5. req \in [Clients -> ReqState(lastID)]
    BY <1>3 DEF ReqState
  <2>6. \A r, q \in repos : r.slot = q.slot => r = q
    <3>1. \A s, u \in load.known : row(s).slot = row(u).slot => s = u
      OBVIOUS
    <3> HIDE DEF row
    <3> QED BY <3>1, <1>r
  <2> QED BY <1>1, <1>3, <2>1, <2>2, <2>3, <2>4, <2>5, <2>6 DEF Typed
<1>8. Keys = {[id |-> no[s], slot |-> s] : s \in load.known}
  <2>1. \A s \in load.known : row(s).id = no[s] /\ row(s).slot = s
    OBVIOUS
  <2> HIDE DEF row
  <2> QED BY <2>1, <1>r DEF Keys
<1> HIDE DEF row
<1>9. IdsInv
  <2>1. \A k, l \in Keys : k.id = l.id \/ k.slot = l.slot => k = l
    BY <1>2, <1>8
  <2>2. \A t, u \in typed : t.id = u.id \/ t.repo = u.repo => t = u
    BY <1>1, <1>2, <1>5
  <2>3. \A t \in typed, k \in Keys : t.id # k.id
    BY <1>1, <1>2, <1>5, <1>8
  <2> QED BY <1>3, <2>1, <2>2, <2>3 DEF IdsInv
<1>10. PlacedInv /\ AloneInv /\ MadeInv
  <2>1. PlacedInv
    BY <1>6 DEF PlacedInv, Placed, Holding, Deleting
  <2>2. AloneInv
    BY <1>6 DEF AloneInv, Deleting
  <2>3. MadeInv
    BY <1>6 DEF MadeInv, Made, Met, Making, Deleting
  <2> QED BY <2>1, <2>2, <2>3
<1>11. \A k \in Keys : /\ \E t \in typed : t.repo = k.id
                       /\ git[k.slot] = FirstFiles
  <2> SUFFICES ASSUME NEW s \in load.known
               PROVE  /\ \E t \in typed : t.repo = no[s]
                      /\ git[s] = FirstFiles
    BY <1>8
  <2>1. [id |-> no[s] + n, repo |-> no[s]] \in typed
    BY <1>2
  <2> QED BY <1>1, <1>3, <2>1
<1>12. Stays
  BY <1>1, <1>2, <1>3, <1>4, <1>8, <1>11 DEF Stays
<1>13. AgreeInv
  <2>1. \A s \in Slots : git[s] # NoTree => \E k \in Keys : k.slot = s
    <3>1. \A s \in load.known : [id |-> no[s], slot |-> s] \in Keys
      BY <1>8
    <3> QED BY <1>3, <3>1
  <2>2. \A t \in typed : \E k \in Keys : k.id = t.repo
    <3>1. \A s \in load.known : [id |-> no[s], slot |-> s] \in Keys
      BY <1>8
    <3>2. \A t \in typed : \E s \in load.known : t.repo = no[s]
      BY <1>2
    <3> QED BY <3>1, <3>2
  <2> QED BY <1>4, <1>11, <2>1, <2>2 DEF AgreeInv
<1> QED BY <1>7, <1>9, <1>10, <1>12, <1>13 DEF IInv, Core

\* A request that is not looked at keeps its place while only new IDs are given.
LEMMA PlacedStays ==
  ASSUME Typed, NEW d \in Clients, req'[d] = req[d], Placed(req[d]),
         \A k \in Keys' : k \in Keys \/ k.id > lastID,
         \A t \in typed' : t \in typed \/ (t.id > lastID /\ t.repo # req[d].id),
         condemned \subseteq condemned'
  PROVE  Placed(req[d])'
<1> DEFINE r == req[d]
<1>1. r \in ReqState(lastID) /\ lastID \in Nat
  BY ReposAssumption DEF Typed
<1>2. /\ r.pc \in Making => r.id \in 0..lastID
      /\ r.pc \in Deleting => r.id \in 0..lastID /\ r.typed \in 1..lastID
      /\ r.pc \in Holding => r.row.id \in 1..lastID
  BY <1>1, ReqFields DEF RepoRow
<1>3. \A t \in typed : t.id \in 1..lastID /\ t.repo \in 1..lastID
  BY DEF Typed, TypedRow
<1> HIDE DEF r
<1>4. \A i \in 0..lastID : \A s : OfSlot(i, s) => OfSlot(i, s)'
  BY <1>1 DEF OfSlot
<1>5. \A i \in 0..lastID : NoRow(i) => NoRow(i)'
  BY <1>1 DEF NoRow
<1> QED BY <1>1, <1>2, <1>3, <1>4, <1>5 DEF Placed, Making, Deleting, Holding, r

\* Two requests of which one may be at "kind": IDs of rows are given once.
LEMMA KindsDiffer ==
  ASSUME PlacedInv, NEW c \in Clients, req'[c].pc # "kind",
         \A d \in Clients : d # c => req'[d] = req[d]
  PROVE  \A d, e \in Clients :
           req'[d].pc = "kind" /\ req'[e].pc = "kind" /\ req'[d].id = req'[e].id => d = e
  BY DEF PlacedInv

\* A step of a request that neither creates nor deletes, or that ends with nothing done.
LEMMA QuietRest ==
  ASSUME Typed, Core, NEW c \in Clients,
         \A d \in Clients : d # c => req'[d] = req[d],
         Keys' = Keys, UNCHANGED <<typed, git, history>>,
         req'[c].pc \notin Making \cup Deleting,
         req'[c].pc \in Holding => OfSlot(req'[c].row.id, req'[c].row.slot)
  PROVE  IdsInv' /\ PlacedInv' /\ AloneInv' /\ MadeInv' /\ Stays'
<1>1. typed' = typed /\ git' = git /\ answered' = answered /\ condemned' = condemned
      /\ gone' = gone /\ overlap' = overlap
  BY DEF history
<1>2. IdsInv'
  BY <1>1 DEF Core, IdsInv
<1>3. PlacedInv'
  <2>1. ASSUME NEW d \in Clients
        PROVE  Placed(req[d])'
    <3>1. CASE d = c
      BY <3>1, <1>1 DEF Placed, Making, Deleting, Holding, OfSlot
    <3>2. CASE d # c
      <4>1. req'[d] = req[d]
        BY <3>2
      <4>2. Placed(req[d])
        BY DEF Core, PlacedInv
      <4> QED BY <4>1, <4>2, <1>1, PlacedStays
    <3> QED BY <3>1, <3>2
  <2>2. req'[c].pc # "kind"
    BY DEF Making
  <2> QED BY <2>1, <2>2, KindsDiffer DEF Core, PlacedInv
<1>4. AloneInv'
  BY <1>1 DEF Core, AloneInv
<1>5. MadeInv'
  <2>1. ASSUME NEW d \in Clients
        PROVE  Made(req[d])' /\ Met(req[d])'
    <3>1. CASE d = c
      BY <3>1 DEF Made, Met, Making, Deleting
    <3>2. CASE d # c
      <4>1. req'[d] = req[d]
        BY <3>2
      <4>2. Made(req[d]) /\ Met(req[d])
        BY DEF Core, MadeInv
      <4>3. Made(req[d])'
        BY <4>1, <4>2, <1>1 DEF Made
      <4>4. Met(req[d])'
        BY <4>1, <4>2, <1>1 DEF Met
      <4> QED BY <4>3, <4>4
    <3> QED BY <3>1, <3>2
  <2> QED BY <2>1 DEF MadeInv
<1>6. Stays'
  BY <1>1 DEF Core, Stays
<1> QED BY <1>2, <1>3, <1>4, <1>5, <1>6

LEMMA QuietStep ==
  ASSUME Typed, Core, NEW c \in Clients,
         \A d \in Clients : d # c => req'[d] = req[d],
         Keys' = Keys, UNCHANGED <<typed, git, history>>,
         req'[c].pc \notin Making \cup Deleting,
         req'[c].pc \in Holding => OfSlot(req'[c].row.id, req'[c].row.slot),
         faults' = 0 => faults = 0 /\ req[c].pc \notin {"insert", "kind", "delete", "untype"}
  PROVE  Core'
<1>1. typed' = typed /\ git' = git /\ overlap' = overlap
  BY DEF history
<1>2. IdsInv' /\ PlacedInv' /\ AloneInv' /\ MadeInv' /\ Stays'
  BY QuietRest
<1>3. AgreeInv'
  <2> SUFFICES ASSUME faults' = 0
               PROVE  AgreeInv'
    BY DEF AgreeInv
  <2>1. \A pc \in {"insert", "kind", "delete"}, s \in Slots : Doing(pc, s) => Doing(pc, s)'
    BY DEF Doing
  <2>2. \A t \in typed :
          (\E d \in Clients : req[d].pc = "untype" /\ req[d].typed = t.id)
          => \E d \in Clients : req'[d].pc = "untype" /\ req'[d].typed = t.id
    OBVIOUS
  <2>3. \A k \in Keys : k.slot \in Slots
    BY KeysTyped DEF Key
  <2> HIDE DEF Doing
  <2> QED BY <1>1, <2>1, <2>2, <2>3 DEF Core, AgreeInv
<1> QED BY <1>2, <1>3 DEF Core

LEMMA StartSets ==
  ASSUME Typed, NEW c \in Clients, NEW op, NEW r, Start(c, op, r)
  PROVE  /\ req[c] = Idle /\ req[c].pc = "idle"
         /\ req'[c] = r /\ \A d \in Clients : d # c => req'[d] = req[d]
  BY DEF Typed, Start, Idle

LEMMA ThenSets ==
  ASSUME Typed, NEW c \in Clients, NEW r, Then(c, r)
  PROVE  req'[c] = r /\ \A d \in Clients : d # c => req'[d] = req[d]
  BY DEF Typed, Then

LEMMA GotoSets ==
  ASSUME Typed, NEW c \in Clients, NEW pc, Goto(c, pc),
         req[c].pc \in Making \cup Deleting
  PROVE  /\ req'[c] = [req[c] EXCEPT !.pc = pc] /\ req'[c].pc = pc
         /\ req[c].pc \in Making =>
              /\ req'[c].slot = req[c].slot /\ req'[c].id = req[c].id
              /\ req'[c].files = req[c].files /\ req'[c].todo = req[c].todo
         /\ req[c].pc \in Deleting =>
              /\ req'[c].slot = req[c].slot /\ req'[c].id = req[c].id
              /\ req'[c].typed = req[c].typed
         /\ \A d \in Clients : d # c => req'[d] = req[d]
<1>1. req[c] \in ReqState(lastID) /\ lastID \in Nat
  BY ReposAssumption DEF Typed
<1>2. /\ req[c].pc \in Making => req[c] \in CreateReq(lastID)
      /\ req[c].pc \in Deleting => req[c] \in DeleteReq(lastID)
  BY <1>1, ReqShapes
<1>3. /\ req'[c] = [req[c] EXCEPT !.pc = pc]
      /\ \A d \in Clients : d # c => req'[d] = req[d]
  BY DEF Typed, Goto
<1>4. CASE req[c] \in CreateReq(lastID)
  BY <1>3, <1>4 DEF CreateReq, Making, Deleting
<1>5. CASE req[c] \in DeleteReq(lastID)
  BY <1>3, <1>5 DEF DeleteReq, Making, Deleting
<1> QED BY <1>2, <1>4, <1>5

LEMMA EndSets ==
  ASSUME Typed, NEW c \in Clients, End(c)
  PROVE  /\ req'[c] = Idle /\ req'[c].pc = "idle" /\ req'[c].pc \notin Making \cup Deleting \cup Holding
         /\ \A d \in Clients : d # c => req'[d] = req[d]
<1>1. req'[c] = Idle /\ \A d \in Clients : d # c => req'[d] = req[d]
  BY ThenSets DEF End
<1> QED BY <1>1 DEF Idle, Making, Deleting, Holding

\* A request that ends with nothing done, or that fails.
LEMMA EndQuiet ==
  ASSUME Typed, Core, NEW c \in Clients, End(c),
         UNCHANGED <<repos, typed, git, history>>,
         \/ Fault
         \/ NoFault /\ req[c].pc \notin {"insert", "kind", "delete", "untype"}
  PROVE  Core'
<1>1. Keys' = Keys
  BY DEF Keys
<1>2. faults' = 0 => faults = 0 /\ req[c].pc \notin {"insert", "kind", "delete", "untype"}
  BY DEF Fault, NoFault, Typed
<1> QED BY <1>1, <1>2, EndSets, QuietStep

\* The requests that Meet looks for.
LEMMA BusySlots ==
  ASSUME Typed, NEW c \in Clients
  PROVE  /\ req[c].pc \in Making => Busy({"create"}, req[c].slot) /\ Busy({"delete", "create"}, req[c].slot)
         /\ req[c].pc \in Deleting => Busy({"delete"}, req[c].slot) /\ Busy({"delete", "create"}, req[c].slot)
  BY ReqFields, ReposAssumption DEF Typed, Busy

\* A new request at its first step: what others do is seen by AloneInv.
LEMMA BeginStep ==
  ASSUME Typed, Core, NEW c \in Clients,
         \A d \in Clients : d # c => req'[d] = req[d],
         req[c].pc = "idle", req'[c].pc \in {"tree", "find"},
         UNCHANGED <<repos, typed, git, answered, condemned, gone, faults>>,
         overlap \subseteq overlap',
         \A d \in Clients : /\ req[d].pc \in Deleting \cup Making
                            /\ req'[c].pc = "find" \/ req[d].pc \in Deleting
                            /\ req[d].slot = req'[c].slot
                            => req[d].slot \in overlap',
         Placed(req[c])', Made(req[c])', Met(req[c])'
  PROVE  Core'
<1>1. Keys' = Keys
  BY DEF Keys
<1>2. IdsInv'
  BY <1>1 DEF Core, IdsInv
<1>3. PlacedInv'
  <2>1. ASSUME NEW d \in Clients, d # c
        PROVE  Placed(req[d])'
    <3>1. req'[d] = req[d]
      BY <2>1
    <3>2. Placed(req[d])
      BY DEF Core, PlacedInv
    <3> QED BY <3>1, <3>2, <1>1, PlacedStays
  <2> QED BY <2>1, KindsDiffer DEF Core, PlacedInv
<1>4. AloneInv'
  <2> SUFFICES ASSUME NEW d \in Clients, NEW e \in Clients, d # e,
                      req'[d].pc \in Deleting, req'[e].pc \in Deleting \cup Making,
                      req'[d].slot = req'[e].slot
               PROVE  req'[d].slot \in overlap'
    BY DEF AloneInv
  <2>1. CASE d = c
    BY <2>1 DEF Deleting, Making
  <2>2. CASE e = c
    BY <2>2 DEF Deleting, Making
  <2>3. CASE d # c /\ e # c
    BY <2>3 DEF Core, AloneInv
  <2> QED BY <2>1, <2>2, <2>3
<1>5. MadeInv'
  <2>1. ASSUME NEW d \in Clients, d # c
        PROVE  Made(req[d])' /\ Met(req[d])'
    <3>1. req'[d] = req[d]
      BY <2>1
    <3>2. Made(req[d]) /\ Met(req[d])
      BY DEF Core, MadeInv
    <3>3. Made(req[d])'
      BY <3>1, <3>2, <1>1 DEF Made
    <3>4. Met(req[d])'
      BY <3>1, <3>2, <1>1 DEF Met
    <3> QED BY <3>3, <3>4
  <2> QED BY <2>1 DEF MadeInv
<1>6. Stays'
  BY <1>1 DEF Core, Stays
<1>7. AgreeInv'
  <2>1. \A pc \in {"insert", "kind", "delete"}, s \in Slots : Doing(pc, s) => Doing(pc, s)'
    BY DEF Doing
  <2>2. \A t \in typed :
          (\E d \in Clients : req[d].pc = "untype" /\ req[d].typed = t.id)
          => \E d \in Clients : req'[d].pc = "untype" /\ req'[d].typed = t.id
    OBVIOUS
  <2>3. \A k \in Keys : k.slot \in Slots
    BY KeysTyped DEF Key
  <2> HIDE DEF Doing
  <2> QED BY <1>1, <2>1, <2>2, <2>3 DEF Core, AgreeInv
<1> QED BY <1>2, <1>3, <1>4, <1>5, <1>6, <1>7 DEF Core

LEMMA CreateInv ==
  ASSUME Typed, Core, NEW c \in Clients, NEW s \in Slots, NEW files \in SUBSET Files,
         files # {}, Create(c, s, files)
  PROVE  Core'
<1>1. PICK private \in BOOLEAN :
        Start(c, "create", [pc |-> "tree", op |-> "create", slot |-> s, private |-> private,
                            id |-> 0, files |-> files, todo |-> files])
  BY DEF Create
<1> DEFINE r == [pc |-> "tree", op |-> "create", slot |-> s, private |-> private,
                 id |-> 0, files |-> files, todo |-> files]
<1>2. /\ req[c].pc = "idle" /\ req'[c] = r
      /\ \A d \in Clients : d # c => req'[d] = req[d]
  BY <1>1, StartSets
<1>3. /\ req'[c].pc = "tree" /\ req'[c].slot = s
      /\ req'[c].todo = files /\ req'[c].files = files
  BY <1>2
<1> HIDE DEF r
<1>4. /\ UNCHANGED <<repos, typed, git, answered, condemned, gone, faults>>
      /\ Meet({"delete"}, s)
  BY DEF Create, tables, NoFault
<1>5. overlap \subseteq overlap'
  BY <1>4 DEF Meet
<1>6. \A d \in Clients : req[d].pc \in Deleting /\ req[d].slot = s => s \in overlap'
  BY <1>4, BusySlots DEF Meet
<1>7. Placed(req[c])' /\ Made(req[c])' /\ Met(req[c])'
  BY <1>3 DEF Placed, Made, Met, Making, Deleting, Holding
<1> QED BY <1>2, <1>3, <1>4, <1>5, <1>6, <1>7, BeginStep

LEMMA DeleteInv ==
  ASSUME Typed, Core, NEW c \in Clients, NEW s \in Slots, Delete(c, s)
  PROVE  Core'
<1>1. PICK u \in Users, t \in typed :
        /\ \E r \in Find(s) : r.id = t.repo
        /\ Start(c, "delete", [pc |-> "find", op |-> "delete", slot |-> s, user |-> u,
                               id |-> 0, typed |-> t.id])
  BY DEF Delete
<1> DEFINE r == [pc |-> "find", op |-> "delete", slot |-> s, user |-> u, id |-> 0, typed |-> t.id]
<1>2. /\ req[c].pc = "idle" /\ req'[c] = r
      /\ \A d \in Clients : d # c => req'[d] = req[d]
  BY <1>1, StartSets
<1>3. req'[c].pc = "find" /\ req'[c].slot = s /\ req'[c].typed = t.id
  BY <1>2
<1> HIDE DEF r
<1>4. /\ UNCHANGED <<repos, typed, git, answered, condemned, gone, faults>>
      /\ Meet({"delete", "create"}, s)
  BY DEF Delete, tables, NoFault
<1>5. overlap \subseteq overlap'
  BY <1>4 DEF Meet
<1>6. \A d \in Clients : req[d].pc \in Deleting \cup Making /\ req[d].slot = s => s \in overlap'
  BY <1>4, BusySlots DEF Meet
<1>7. Keys' = Keys /\ typed' = typed
  BY <1>4 DEF Keys
<1>8. [id |-> t.repo, slot |-> s] \in Keys
  BY <1>1, FindByKey
<1>9. NoRow(t.id) /\ \A v \in typed : v.id = t.id => OfSlot(v.repo, s)
  <2>1. NoRow(t.id)
    BY DEF Core, IdsInv, NoRow
  <2>2. OfSlot(t.repo, s)
    BY <1>8 DEF Core, IdsInv, OfSlot
  <2> QED BY <2>1, <2>2 DEF Core, IdsInv
<1>10. Placed(req[c])'
  BY <1>3, <1>7, <1>9 DEF Placed, Deleting, Holding, NoRow, OfSlot
<1>11. Made(req[c])' /\ Met(req[c])'
  BY <1>3, <1>7, <1>8 DEF Made, Met, Making
<1> QED BY <1>2, <1>3, <1>4, <1>5, <1>6, <1>10, <1>11, BeginStep

LEMMA MoveAlone ==
  ASSUME AloneInv, NEW c \in Clients,
         \A d \in Clients : d # c => req'[d] = req[d],
         overlap' = overlap,
         \/ req'[c].pc \notin Making \cup Deleting
         \/ req'[c].pc \in Making /\ req[c].pc \in Making /\ req'[c].slot = req[c].slot
         \/ req'[c].pc \in Deleting /\ req[c].pc \in Deleting /\ req'[c].slot = req[c].slot
  PROVE  AloneInv'
<1> SUFFICES ASSUME NEW d \in Clients, NEW e \in Clients, d # e,
                    req'[d].pc \in Deleting, req'[e].pc \in Deleting \cup Making,
                    req'[d].slot = req'[e].slot
             PROVE  req'[d].slot \in overlap'
  BY DEF AloneInv
<1>1. \A x \in Clients :
        /\ req'[x].pc \in Deleting => req[x].pc \in Deleting /\ req'[x].slot = req[x].slot
        /\ req'[x].pc \in Making => req[x].pc \in Making /\ req'[x].slot = req[x].slot
  BY DEF Making, Deleting
<1> QED BY <1>1 DEF AloneInv

\* Requests of other slots, or that do not meet c, for the lemmas that follow.
LEMMA OthersPlaced ==
  ASSUME Typed, Core, NEW c \in Clients,
         \A d \in Clients : d # c => req'[d] = req[d],
         \A k \in Keys' : k \in Keys \/ k.id > lastID,
         \A t \in typed' : t \in typed,
         condemned \subseteq condemned',
         Placed(req[c])', req'[c].pc # "kind"
  PROVE  PlacedInv'
<1>1. ASSUME NEW d \in Clients, d # c
      PROVE  Placed(req[d])'
  <2>1. req'[d] = req[d] /\ Placed(req[d])
    BY <1>1 DEF Core, PlacedInv
  <2> QED BY <2>1, PlacedStays
<1> QED BY <1>1, KindsDiffer DEF Core, PlacedInv

LEMMA CreateTreeInv ==
  ASSUME Typed, Core, NEW c \in Clients, CreateTree(c)
  PROVE  Core'
<1> DEFINE s == req[c].slot
<1>1. /\ UNCHANGED <<repos, typed, answered, condemned, gone, overlap>>
      /\ req[c].pc = "tree"
  BY DEF CreateTree, tables, history, At
<1>2. Keys' = Keys
  BY <1>1 DEF Keys
<1>3. CASE git[s] # NoTree /\ End(c) /\ NoFault /\ UNCHANGED git
  BY <1>1, <1>3, EndQuiet DEF history
<1>4. CASE /\ git[s] = NoTree
           /\ git' = [git EXCEPT ![s] = {}]
           /\ \/ Goto(c, "insert") /\ NoFault
              \/ End(c) /\ Fault
  <2>1. s \in Slots /\ git \in [Slots -> (SUBSET Files) \cup {NoTree}]
    BY <1>1, ReqFields, ReposAssumption DEF Typed, Making
  <2>2. git'[s] = {} /\ {} # NoTree /\ \A x \in Slots : x # s => git'[x] = git[x]
    BY <1>4, <2>1, TreeIsNoMark
  <2>4. \A d \in Clients : d # c => req'[d] = req[d]
    BY <1>4, <1>1, EndSets, GotoSets DEF Making
  <2>5. \/ req'[c].pc = "idle" /\ faults' # 0
        \/ /\ req'[c].pc = "insert" /\ req'[c].slot = s
           /\ req'[c].files = req[c].files /\ req'[c].todo = req[c].todo
    <3>1. CASE Goto(c, "insert")
      BY <3>1, <1>1, GotoSets DEF Making
    <3>2. CASE End(c) /\ Fault
      BY <3>2, EndSets DEF Fault, Typed
    <3> QED BY <1>4, <3>1, <3>2
  <2>6. \A d \in Clients : req[d].pc \in Making \cup Deleting => req[d].slot \in Slots
    BY ReqFields, ReposAssumption DEF Typed
  <2> HIDE DEF s
  <2>7. IdsInv'
    BY <1>1, <1>2 DEF Core, IdsInv
  <2>8. PlacedInv'
    <3>1. Placed(req[c])' /\ req'[c].pc # "kind"
      BY <2>5 DEF Placed, Deleting, Holding
    <3> QED BY <3>1, <1>1, <1>2, <2>4, OthersPlaced
  <2>9. AloneInv'
    BY <1>1, <2>4, <2>5, MoveAlone DEF Core, Making, Deleting, s
  <2>10. MadeInv'
    <3>1. ASSUME NEW d \in Clients, d # c
          PROVE  Made(req[d])' /\ Met(req[d])'
      <4>1. req'[d] = req[d] /\ Made(req[d]) /\ Met(req[d])
        BY <2>4, <3>1 DEF Core, MadeInv
      <4>2. Made(req[d])'
        BY <4>1, <1>1, <1>2, <1>4, <2>2, <2>6 DEF Made, s
      <4>3. req[d].pc \in Deleting /\ req[d].slot = s => s \in overlap
        BY <1>1, <3>1 DEF Core, AloneInv, Making, s
      <4>4. Met(req[d])'
        BY <4>1, <4>3, <1>1, <1>2, <2>2, <2>6 DEF Met
      <4> QED BY <4>2, <4>4
    <3>2. Made(req[c])' /\ Met(req[c])'
      <4>1. Made(req[c])
        BY DEF Core, MadeInv
      <4>2. CASE req'[c].pc = "idle"
        BY <4>2 DEF Made, Met, Making, Deleting
      <4>3. CASE req'[c].pc = "insert"
        BY <4>1, <4>3, <1>1, <2>5, <2>2 DEF Made, Met, Making, Deleting
      <4> QED BY <2>5, <4>2, <4>3
    <3> QED BY <3>1, <3>2 DEF MadeInv
  <2>11. Stays'
    <3>1. \A a \in answered : a.slot \in Slots
      BY DEF Typed, Reported
    <3> QED BY <3>1, <1>1, <1>2, <1>4, <2>2 DEF Core, Stays, s
  <2>12. AgreeInv'
    <3> SUFFICES ASSUME faults' = 0
                 PROVE  AgreeInv'
      BY DEF AgreeInv
    <3>0. req'[c].pc = "insert" /\ req'[c].slot = s /\ faults = 0
      BY <2>5, <1>4 DEF NoFault, Fault, Typed, s
    <3>1. \A pc \in {"insert", "kind", "delete"}, x \in Slots : Doing(pc, x) => Doing(pc, x)'
      BY <1>1, <2>4 DEF Doing
    <3>2. \A t \in typed :
            (\E d \in Clients : req[d].pc = "untype" /\ req[d].typed = t.id)
            => \E d \in Clients : req'[d].pc = "untype" /\ req'[d].typed = t.id
      BY <1>1, <2>4
    <3>3. \A k \in Keys : k.slot \in Slots
      BY KeysTyped DEF Key
    <3>4. \A x \in Slots : x = s => Doing("insert", x)'
      BY <3>0 DEF Doing
    <3> HIDE DEF Doing
    <3> QED BY <3>0, <1>1, <1>2, <2>1, <2>2, <3>1, <3>2, <3>3, <3>4 DEF Core, AgreeInv
  <2> QED BY <2>7, <2>8, <2>9, <2>10, <2>11, <2>12 DEF Core
<1> QED BY <1>3, <1>4 DEF CreateTree

LEMMA InsertRowInv ==
  ASSUME Typed, Core, NEW c \in Clients, InsertRow(c)
  PROVE  Core'
<1> DEFINE s == req[c].slot
           key == [id |-> lastID + 1, slot |-> s]
<1>1. /\ UNCHANGED <<typed, git, answered, condemned, gone, overlap, faults>>
      /\ req[c].pc = "insert"
  BY DEF InsertRow, NoFault, history, At
<1>2. /\ req[c] \in CreateReq(lastID) /\ s \in Slots /\ lastID \in Nat
      /\ git \in [Slots -> (SUBSET Files) \cup {NoTree}]
      /\ Made(req[c])
  BY <1>1, ReqFields, ReqShapes, ReposAssumption DEF Typed, Making, Core, MadeInv
<1>3. /\ \A k \in Keys : k.id \in 1..lastID /\ k.slot \in Slots
      /\ \A t \in typed : t.id \in 1..lastID /\ t.repo \in 1..lastID
      /\ gone \subseteq 1..lastID
      /\ \A d \in Clients : req[d].pc \in Making \cup Deleting =>
                             req[d].slot \in Slots /\ req[d].id \in 0..lastID
  BY KeysTyped, ReqFields, ReposAssumption DEF Typed, TypedRow, Key
<1>4. CASE Find(s) # {} /\ End(c) /\ UNCHANGED <<repos, lastID>>
  <2>1. Keys' = Keys /\ \E k \in Keys : k.slot = s
    BY <1>4, FindByKey DEF Keys
  <2>2. /\ req'[c].pc \notin Making \cup Deleting \cup Holding /\ req'[c].pc = "idle"
        /\ \A d \in Clients : d # c => req'[d] = req[d]
    BY <1>4, EndSets
  <2> HIDE DEF s
  <2>3. AgreeInv'
    <3>1. \A pc \in {"kind", "delete"}, x \in Slots : Doing(pc, x) => Doing(pc, x)'
      BY <1>1, <2>2 DEF Doing
    <3>2. \A t \in typed :
            (\E d \in Clients : req[d].pc = "untype" /\ req[d].typed = t.id)
            => \E d \in Clients : req'[d].pc = "untype" /\ req'[d].typed = t.id
      BY <1>1, <2>2
    <3>3. \A x \in Slots : x # s => (Doing("insert", x) => Doing("insert", x)')
      BY <1>1, <2>2 DEF Doing, s
    <3> HIDE DEF Doing
    <3> QED BY <1>1, <1>3, <2>1, <3>1, <3>2, <3>3 DEF Core, AgreeInv
  <2>4. IdsInv' /\ PlacedInv' /\ AloneInv' /\ MadeInv' /\ Stays'
    BY <1>1, <2>1, <2>2, QuietRest DEF history
  <2> QED BY <2>3, <2>4 DEF Core
<1>5. CASE /\ Find(s) = {} /\ NewID
           /\ repos' = repos \cup {Row(lastID + 1, s, req[c].private)}
           /\ Then(c, [req[c] EXCEPT !.pc = "kind", !.id = lastID + 1])
  <2>1. Keys' = Keys \cup {key} /\ \A k \in Keys : k.slot # s
    <3>1. Row(lastID + 1, s, req[c].private).id = lastID + 1
          /\ Row(lastID + 1, s, req[c].private).slot = s
      BY DEF Row
    <3>2. \A k \in Keys : k.slot # s
      BY <1>5, FindByKey
    <3> QED BY <1>5, <3>1, <3>2 DEF Keys
  <2>2. /\ \A d \in Clients : d # c => req'[d] = req[d]
        /\ req'[c].pc = "kind" /\ req'[c].id = lastID + 1 /\ req'[c].slot = s
        /\ req'[c].files = req[c].files /\ req'[c].todo = req[c].todo
    <3>1. /\ \A d \in Clients : d # c => req'[d] = req[d]
          /\ req'[c] = [req[c] EXCEPT !.pc = "kind", !.id = lastID + 1]
      BY <1>5, ThenSets
    <3> QED BY <1>2, <3>1 DEF CreateReq
  <2>3. key.id = lastID + 1 /\ key.slot = s
    OBVIOUS
  <2> HIDE DEF s, key
  <2>4. IdsInv'
    <3>1. \A k, l \in Keys' : k.id = l.id \/ k.slot = l.slot => k = l
      BY <1>2, <1>3, <2>1, <2>3 DEF Core, IdsInv
    <3>2. \A t \in typed, k \in Keys' : t.id # k.id
      BY <1>2, <1>3, <2>1, <2>3 DEF Core, IdsInv
    <3>3. \A k \in Keys' : k.id \notin gone
      BY <1>2, <1>3, <2>1, <2>3 DEF Core, IdsInv
    <3> QED BY <1>1, <3>1, <3>2, <3>3 DEF Core, IdsInv
  <2>5. PlacedInv'
    <3>1. ASSUME NEW d \in Clients, d # c
          PROVE  Placed(req[d])'
      <4>1. req'[d] = req[d] /\ Placed(req[d])
        BY <2>2, <3>1 DEF Core, PlacedInv
      <4> QED BY <1>1, <1>2, <2>1, <2>3, <4>1, PlacedStays
    <3>2. Placed(req[c])'
      BY <1>1, <1>2, <1>3, <2>1, <2>2, <2>3 DEF Placed, OfSlot, Deleting, Holding
    <3>3. \A d \in Clients : d # c /\ req'[d].pc = "kind" => req'[d].id # req'[c].id
      BY <1>2, <1>3, <2>2 DEF Making
    <3> QED BY <2>2, <3>1, <3>2, <3>3 DEF Core, PlacedInv
  <2>6. AloneInv'
    BY <1>1, <2>2, MoveAlone DEF Core, Making, s
  <2>7. MadeInv'
    <3>1. ASSUME NEW d \in Clients, d # c
          PROVE  Made(req[d])' /\ Met(req[d])'
      <4>1. req'[d] = req[d] /\ Made(req[d]) /\ Met(req[d])
        BY <2>2, <3>1 DEF Core, MadeInv
      <4>2. Made(req[d])'
        BY <4>1, <1>1, <2>1 DEF Made
      <4>3. Met(req[d])'
        BY <4>1, <1>1, <2>1 DEF Met
      <4> QED BY <4>2, <4>3
    <3>2. Made(req[c])' /\ Met(req[c])'
      BY <1>1, <1>2, <2>1, <2>2 DEF Made, Met, Making, Deleting, s, key
    <3> QED BY <3>1, <3>2 DEF MadeInv
  <2>8. Stays'
    BY <1>1, <2>1 DEF Core, Stays
  <2>9. AgreeInv'
    <3>1. \A pc \in {"kind", "delete"}, x \in Slots : Doing(pc, x) => Doing(pc, x)'
      BY <1>1, <2>2 DEF Doing
    <3>2. \A t \in typed :
            (\E d \in Clients : req[d].pc = "untype" /\ req[d].typed = t.id)
            => \E d \in Clients : req'[d].pc = "untype" /\ req'[d].typed = t.id
      BY <1>1, <2>2
    <3>3. \A x \in Slots : x # s => (Doing("insert", x) => Doing("insert", x)')
      BY <1>1, <2>2 DEF Doing, s
    <3>4. \A x \in Slots : x = s => Doing("kind", x)'
      BY <2>2 DEF Doing
    <3>5. s \notin overlap => git[s] # NoTree
      BY <1>1, <1>2 DEF Made, Making, s
    <3> HIDE DEF Doing
    <3> QED BY <1>1, <1>2, <1>3, <2>1, <2>3, <3>1, <3>2, <3>3, <3>4, <3>5 DEF Core, AgreeInv
  <2> QED BY <2>4, <2>5, <2>6, <2>7, <2>8, <2>9 DEF Core
<1> QED BY <1>4, <1>5 DEF InsertRow

LEMMA InsertTypedInv ==
  ASSUME Typed, Core, NEW c \in Clients, InsertTyped(c)
  PROVE  Core'
<1> DEFINE s == req[c].slot
           i == req[c].id
           new == [id |-> lastID + 1, repo |-> i]
<1>1. /\ UNCHANGED <<repos, git, answered, condemned, gone, overlap, faults>>
      /\ req[c].pc = "kind" /\ typed' = typed \cup {new}
  BY DEF InsertTyped, NoFault, history, At
<1>2. /\ s \in Slots /\ lastID \in Nat /\ i \in 1..lastID
      /\ Made(req[c]) /\ Placed(req[c])
  <2>1. Made(req[c]) /\ Placed(req[c])
    BY DEF Core, MadeInv, PlacedInv
  <2>2. s \in Slots /\ lastID \in Nat /\ i \in 0..lastID
    BY <1>1, ReqFields, ReposAssumption DEF Typed, Making
  <2>3. i > 0
    BY <1>1, <2>1 DEF Placed
  <2> HIDE DEF s, i
  <2> QED BY <2>1, <2>2, <2>3
<1>3. /\ \A k \in Keys : k.id \in 1..lastID /\ k.slot \in Slots
      /\ \A t \in typed : t.id \in 1..lastID /\ t.repo \in 1..lastID
      /\ gone \subseteq 1..lastID
      /\ \A d \in Clients : req[d].pc \in Making \cup Deleting =>
                             req[d].slot \in Slots /\ req[d].id \in 0..lastID
      /\ \A d \in Clients : req[d].pc \in Deleting => req[d].typed \in 1..lastID
      /\ \A d \in Clients : req[d].pc \in Holding => req[d].row.id \in 1..lastID
  BY KeysTyped, ReqFields, ReposAssumption DEF Typed, TypedRow, Key, RepoRow
<1>4. /\ \A d \in Clients : d # c => req'[d] = req[d]
      /\ req'[c].pc = "file" /\ req'[c].id = i /\ req'[c].slot = s
      /\ req'[c].files = req[c].files /\ req'[c].todo = req[c].todo
  BY <1>1, GotoSets DEF InsertTyped, Making
<1>5. Keys' = Keys
  BY <1>1 DEF Keys
<1>6. new.id = lastID + 1 /\ new.repo = i
  OBVIOUS
<1>7. \A t \in typed : t.repo # i
  BY <1>1, <1>2 DEF Placed
<1>k. s \notin overlap => [id |-> i, slot |-> s] \in Keys
  BY <1>1, <1>2 DEF Made, Making
<1> HIDE DEF s, new, i
<1>8. IdsInv'
  <2>1. \A t, u \in typed' : t.id = u.id \/ t.repo = u.repo => t = u
    BY <1>1, <1>2, <1>3, <1>6, <1>7 DEF Core, IdsInv
  <2>2. \A t \in typed', k \in Keys' : t.id # k.id
    BY <1>1, <1>2, <1>3, <1>5, <1>6 DEF Core, IdsInv
  <2>3. \A t \in typed' : t.id \notin gone'
    BY <1>1, <1>2, <1>3, <1>6 DEF Core, IdsInv
  <2> QED BY <1>1, <1>5, <2>1, <2>2, <2>3 DEF Core, IdsInv
<1>9. PlacedInv'
  <2>1. ASSUME NEW d \in Clients, d # c
        PROVE  Placed(req[d])'
    <3>1. req'[d] = req[d] /\ Placed(req[d])
      BY <1>4, <2>1 DEF Core, PlacedInv
    <3>2. CASE req[d].id # i
      BY <1>1, <1>2, <1>5, <1>6, <3>1, <3>2, PlacedStays
    <3>3. CASE req[d].id = i
      <4>1. req[d].pc # "kind"
        BY <1>1, <2>1, <3>3 DEF Core, PlacedInv, i
      <4>2. \A x, y : OfSlot(x, y)' <=> OfSlot(x, y)
        BY <1>5 DEF OfSlot
      <4>3. \A x : NoRow(x)' <=> NoRow(x)
        BY <1>5 DEF NoRow
      <4>4. \A t \in typed' : t \in typed \/ t.id = lastID + 1
        BY <1>1, <1>6
      <4> QED BY <1>1, <1>2, <1>3, <3>1, <4>1, <4>2, <4>3, <4>4
              DEF Placed, Making, Deleting, Holding
    <3> QED BY <3>2, <3>3
  <2>2. Placed(req[c])'
    BY <1>1, <1>2, <1>4, <1>5 DEF Placed, OfSlot, Deleting, Holding, i, s
  <2> QED BY <1>4, <2>1, <2>2, KindsDiffer DEF Core, PlacedInv
<1>10. AloneInv'
  BY <1>1, <1>4, MoveAlone DEF Core, Making, s
<1>11. MadeInv'
  <2>1. ASSUME NEW d \in Clients, d # c
        PROVE  Made(req[d])' /\ Met(req[d])'
    <3>1. req'[d] = req[d] /\ Made(req[d]) /\ Met(req[d])
      BY <1>4, <2>1 DEF Core, MadeInv
    <3>2. Made(req[d])'
      BY <3>1, <1>1, <1>5 DEF Made
    <3>3. Met(req[d])'
      <4>1. req[d].pc = "untype" => new.id # req[d].typed
        BY <1>2, <1>3, <1>6 DEF Deleting
      <4> QED BY <3>1, <4>1, <1>1, <1>5 DEF Met
    <3> QED BY <3>2, <3>3
  <2>2. Made(req[c])'
    <3>1. new \in typed'
      BY <1>1
    <3> QED BY <1>1, <1>2, <1>4, <1>5, <1>6, <1>k, <3>1 DEF Made, Making, s
  <2>3. Met(req[c])'
    BY <1>4 DEF Met, Deleting
  <2> QED BY <2>1, <2>2, <2>3 DEF MadeInv
<1>12. Stays'
  BY <1>1, <1>5 DEF Core, Stays
<1>13. AgreeInv'
  <2>1. \A pc \in {"insert", "delete"}, x \in Slots : Doing(pc, x) => Doing(pc, x)'
    BY <1>1, <1>4 DEF Doing
  <2>2. \A t \in typed :
          (\E d \in Clients : req[d].pc = "untype" /\ req[d].typed = t.id)
          => \E d \in Clients : req'[d].pc = "untype" /\ req'[d].typed = t.id
    BY <1>1, <1>4
  <2>3. \A x \in Slots : x # s => (Doing("kind", x) => Doing("kind", x)')
    BY <1>1, <1>4 DEF Doing, s
  <2>4. \A k \in Keys : k.slot = s /\ s \notin overlap => k.id = i
    BY <1>k DEF Core, IdsInv
  <2>5. new \in typed' /\ new.repo = i
    BY <1>1, <1>6
  <2> HIDE DEF Doing
  <2>6. \A k \in Keys' : faults' = 0 /\ k.slot \notin overlap' =>
          /\ git'[k.slot] # NoTree \/ Doing("delete", k.slot)'
          /\ (\E t \in typed' : t.repo = k.id) \/ Doing("kind", k.slot)'
    <3> SUFFICES ASSUME NEW k \in Keys, faults = 0, k.slot \notin overlap
                 PROVE  \A x \in Slots : x = k.slot =>
                          /\ git[x] # NoTree \/ Doing("delete", x)'
                          /\ (\E t \in typed' : t.repo = k.id) \/ Doing("kind", x)'
      BY <1>1, <1>3, <1>5
    <3> QED BY <1>1, <2>1, <2>3, <2>4, <2>5 DEF Core, AgreeInv
  <2>7. overlap = {} /\ faults = 0 => \A t \in typed' :
          \/ \E k \in Keys : k.id = t.repo
          \/ \E d \in Clients : req'[d].pc = "untype" /\ req'[d].typed = t.id
    BY <1>1, <1>6, <1>k, <2>2 DEF Core, AgreeInv
  <2> QED BY <1>1, <1>5, <2>1, <2>6, <2>7 DEF Core, AgreeInv
<1> QED BY <1>8, <1>9, <1>10, <1>11, <1>12, <1>13 DEF Core

LEMMA NextIsToDo ==
  ASSUME NEW todo \in SUBSET Files, todo # {}
  PROVE  NextFile(todo) \in todo
<1> DEFINE P(f) == \/ f = "README.md"
                   \/ "README.md" \notin todo /\ f = ".gitattributes"
                   \/ todo = {"config.toml"}
<1>1. \E f \in todo : P(f)
  BY DEF Files, FirstFiles
<1>2. NextFile(todo) = CHOOSE f \in todo : P(f)
  BY DEF NextFile
<1> HIDE DEF P
<1> QED BY <1>1, <1>2

LEMMA CreateRepoFileInv ==
  ASSUME Typed, Core, NEW c \in Clients, CreateRepoFile(c)
  PROVE  Core'
<1> DEFINE s == req[c].slot
           f == NextFile(req[c].todo)
           rest == req[c].todo \ {f}
           report == [id |-> req[c].id, slot |-> s, files |-> req[c].files]
<1>1. /\ UNCHANGED <<repos, typed, condemned, gone, overlap, faults>>
      /\ req[c].pc = "file"
  BY DEF CreateRepoFile, NoFault, tables, At
<1>2. Keys' = Keys
  BY <1>1 DEF Keys
<1>3. /\ s \in Slots /\ req[c].todo \in SUBSET Files /\ req[c].files \in SUBSET Files
      /\ req[c] \in CreateReq(lastID) /\ git \in [Slots -> (SUBSET Files) \cup {NoTree}]
  BY <1>1, ReqFields, ReqShapes, ReposAssumption DEF Typed, Making
<1>4. CASE /\ git[s] = NoTree \/ f \in git[s]
           /\ End(c) /\ UNCHANGED <<git, answered>>
  <2>1. NoFault
    BY DEF CreateRepoFile
  <2> QED BY <1>1, <1>4, <2>1, EndQuiet DEF history
<1>5. CASE /\ git[s] # NoTree /\ f \notin git[s]
           /\ git' = [git EXCEPT ![s] = @ \cup {f}]
           /\ IF rest = {}
              THEN End(c) /\ answered' = answered \cup {report}
              ELSE Then(c, [req[c] EXCEPT !.todo = rest]) /\ UNCHANGED answered
  <2>1. Made(req[c]) /\ Placed(req[c])
    BY DEF Core, MadeInv, PlacedInv
  <2>2. f \in req[c].todo /\ req[c].todo \subseteq req[c].files
    BY <1>1, <1>3, <2>1, NextIsToDo DEF Made, Making
  <2>3. /\ git'[s] = git[s] \cup {f} /\ git'[s] # NoTree
        /\ \A x \in Slots : x # s => git'[x] = git[x]
        /\ \A x \in Slots : git[x] # NoTree => git'[x] # NoTree /\ git[x] \subseteq git'[x]
        /\ \A x \in Slots : git'[x] = NoTree <=> git[x] = NoTree
    <3>1. git[s] \in SUBSET Files /\ f \in Files
      BY <1>3, <1>5, <2>2
    <3>2. git'[s] = git[s] \cup {f} /\ git[s] \cup {f} # NoTree
      BY <1>3, <1>5, <3>1, TreeIsNoMark
    <3>3. \A x \in Slots : x # s => git'[x] = git[x]
      BY <1>3, <1>5
    <3> QED BY <1>5, <3>2, <3>3
  <2>4. /\ \A d \in Clients : d # c => req'[d] = req[d]
        /\ \/ req'[c].pc = "idle" /\ rest = {} /\ answered' = answered \cup {report}
           \/ /\ req'[c].pc = "file" /\ req'[c].id = req[c].id /\ req'[c].slot = s
              /\ req'[c].files = req[c].files /\ req'[c].todo = rest
              /\ rest # {} /\ answered' = answered
    <3>1. CASE rest = {}
      BY <1>5, <3>1, EndSets
    <3>2. CASE rest # {}
      <4>1. /\ \A d \in Clients : d # c => req'[d] = req[d]
            /\ req'[c] = [req[c] EXCEPT !.todo = rest]
        BY <1>5, <3>2, ThenSets
      <4> HIDE DEF rest
      <4> QED BY <1>1, <1>3, <1>5, <3>2, <4>1 DEF CreateReq
    <3> QED BY <3>1, <3>2
  <2>5. \A d \in Clients : req[d].pc \in Making \cup Deleting => req[d].slot \in Slots
    BY ReqFields, ReposAssumption DEF Typed
  <2>6. s \notin overlap =>
          /\ git[s] # NoTree /\ req[c].files \ req[c].todo \subseteq git[s]
          /\ [id |-> req[c].id, slot |-> s] \in Keys
          /\ \E t \in typed : t.repo = req[c].id
    BY <1>1, <2>1 DEF Made, Making
  <2>7. rest \subseteq req[c].files /\ req[c].files \ rest \subseteq (req[c].files \ req[c].todo) \cup {f}
    BY <2>2
  <2>r. report.id = req[c].id /\ report.slot = s /\ report.files = req[c].files
    OBVIOUS
  <2> HIDE DEF s, f, rest, report
  <2>8. IdsInv'
    BY <1>1, <1>2 DEF Core, IdsInv
  <2>9. PlacedInv'
    <3>1. Placed(req[c])' /\ req'[c].pc # "kind"
      BY <1>1, <1>2, <2>1, <2>4 DEF Placed, OfSlot, Deleting, Holding, s
    <3> QED BY <3>1, <1>1, <1>2, <2>4, OthersPlaced
  <2>10. AloneInv'
    BY <1>1, <2>4, MoveAlone DEF Core, Making, Deleting, s
  <2>11. MadeInv'
    <3>1. ASSUME NEW d \in Clients, d # c
          PROVE  Made(req[d])' /\ Met(req[d])'
      <4>1. req'[d] = req[d] /\ Made(req[d]) /\ Met(req[d])
        BY <2>4, <3>1 DEF Core, MadeInv
      <4>2. Made(req[d])'
        BY <4>1, <1>1, <1>2, <2>3, <2>5 DEF Made
      <4>3. Met(req[d])'
        BY <4>1, <1>1, <1>2, <2>3, <2>5 DEF Met
      <4> QED BY <4>2, <4>3
    <3>2. Made(req[c])' /\ Met(req[c])'
      <4>1. CASE req'[c].pc = "idle"
        BY <4>1 DEF Made, Met, Making, Deleting
      <4>2. CASE req'[c].pc = "file"
        BY <4>2, <1>1, <1>2, <2>3, <2>4, <2>6, <2>7 DEF Made, Met, Making, Deleting
      <4> QED BY <2>4, <4>1, <4>2
    <3> QED BY <3>1, <3>2 DEF MadeInv
  <2>12. Stays'
    <3>1. \A a \in answered : a.slot \in Slots
      BY DEF Typed, Reported
    <3>2. ASSUME NEW a \in answered
          PROVE  \/ a.id \in condemned' \/ a.slot \in overlap'
                 \/ /\ [id |-> a.id, slot |-> a.slot] \in Keys'
                    /\ \E t \in typed' : t.repo = a.id
                    /\ git'[a.slot] # NoTree /\ a.files \subseteq git'[a.slot]
      BY <3>1, <1>1, <1>2, <2>3 DEF Core, Stays
    <3>3. rest = {} => report.files \subseteq git[s] \cup {f} \/ s \in overlap
      BY <2>6, <2>7, <2>r
    <3>4. ASSUME NEW a \in answered', a \notin answered
          PROVE  \/ a.slot \in overlap'
                 \/ /\ [id |-> a.id, slot |-> a.slot] \in Keys'
                    /\ \E t \in typed' : t.repo = a.id
                    /\ git'[a.slot] # NoTree /\ a.files \subseteq git'[a.slot]
      <4>1. a = report /\ rest = {}
        BY <2>4, <3>4
      <4> QED BY <4>1, <1>1, <1>2, <2>3, <2>6, <2>r, <3>3
    <3> QED BY <3>2, <3>4 DEF Stays
  <2>13. AgreeInv'
    <3>1. \A pc \in {"insert", "kind", "delete"}, x \in Slots : Doing(pc, x) => Doing(pc, x)'
      BY <1>1, <2>4 DEF Doing
    <3>2. \A t \in typed :
            (\E d \in Clients : req[d].pc = "untype" /\ req[d].typed = t.id)
            => \E d \in Clients : req'[d].pc = "untype" /\ req'[d].typed = t.id
      BY <1>1, <2>4
    <3>3. \A k \in Keys : k.slot \in Slots
      BY KeysTyped DEF Key
    <3> HIDE DEF Doing
    <3> QED BY <1>1, <1>2, <2>3, <3>1, <3>2, <3>3 DEF Core, AgreeInv
  <2> QED BY <2>8, <2>9, <2>10, <2>11, <2>12, <2>13 DEF Core
<1>6. \/ /\ git[s] # NoTree /\ f \notin git[s]
         /\ git' = [git EXCEPT ![s] = @ \cup {f}]
         /\ IF rest = {}
            THEN End(c) /\ answered' = answered \cup {report}
            ELSE Then(c, [req[c] EXCEPT !.todo = rest]) /\ UNCHANGED answered
      \/ (git[s] = NoTree \/ f \in git[s]) /\ End(c) /\ UNCHANGED <<git, answered>>
  BY DEF CreateRepoFile
<1> QED BY <1>4, <1>5, <1>6

\* What requests leave behind when they neither make nor remove a tree or a row.
LEMMA MarkedStep ==
  ASSUME Typed, Core, NEW c \in Clients,
         \A d \in Clients : d # c => req'[d] = req[d],
         Keys' = Keys, UNCHANGED <<typed, git, answered, gone, overlap, faults>>,
         condemned \subseteq condemned',
         req[c].pc \in {"find", "clean"}, req'[c].pc \in {"clean", "remove"},
         req'[c].slot = req[c].slot,
         Placed(req[c])', Made(req[c])', Met(req[c])'
  PROVE  Core'
<1>1. IdsInv'
  BY DEF Core, IdsInv
<1>2. PlacedInv'
  BY OthersPlaced
<1>3. AloneInv'
  BY MoveAlone DEF Core, Deleting
<1>4. MadeInv'
  <2>1. ASSUME NEW d \in Clients, d # c
        PROVE  Made(req[d])' /\ Met(req[d])'
    <3>1. req'[d] = req[d] /\ Made(req[d]) /\ Met(req[d])
      BY <2>1 DEF Core, MadeInv
    <3>2. Made(req[d])'
      BY <3>1 DEF Made
    <3>3. Met(req[d])'
      BY <3>1 DEF Met
    <3> QED BY <3>2, <3>3
  <2> QED BY <2>1 DEF MadeInv
<1>5. Stays'
  BY DEF Core, Stays
<1>6. AgreeInv'
  <2>1. \A pc \in {"insert", "kind", "delete"}, x \in Slots : Doing(pc, x) => Doing(pc, x)'
    BY DEF Doing
  <2>2. \A t \in typed :
          (\E d \in Clients : req[d].pc = "untype" /\ req[d].typed = t.id)
          => \E d \in Clients : req'[d].pc = "untype" /\ req'[d].typed = t.id
    OBVIOUS
  <2>3. \A k \in Keys : k.slot \in Slots
    BY KeysTyped DEF Key
  <2> HIDE DEF Doing
  <2> QED BY <2>1, <2>2, <2>3 DEF Core, AgreeInv
<1> QED BY <1>1, <1>2, <1>3, <1>4, <1>5, <1>6 DEF Core

LEMMA DeleteRepoInv ==
  ASSUME Typed, Core, NEW c \in Clients, DeleteRepo(c)
  PROVE  Core'
<1> DEFINE s == req[c].slot
<1>1. /\ UNCHANGED <<repos, typed, git, answered, gone, overlap, faults>>
      /\ req[c].pc = "find"
  BY DEF DeleteRepo, NoFault, tables, At
<1>2. Keys' = Keys /\ typed' = typed
  BY <1>1 DEF Keys
<1>3. Met(req[c]) /\ Placed(req[c]) /\ req[c] \in DeleteReq(lastID)
  BY <1>1, ReqShapes, ReposAssumption DEF Core, MadeInv, PlacedInv, Typed, Deleting
<1>4. CASE End(c) /\ UNCHANGED condemned
  BY <1>1, <1>4, EndQuiet DEF history, NoFault
<1>5. ASSUME NEW i, [id |-> i, slot |-> s] \in Keys,
             Then(c, [req[c] EXCEPT !.pc = "clean", !.id = i]),
             condemned' = condemned \cup {i}
      PROVE  Core'
  <2>1. /\ \A d \in Clients : d # c => req'[d] = req[d]
        /\ req'[c].pc = "clean" /\ req'[c].id = i
        /\ req'[c].slot = s /\ req'[c].typed = req[c].typed
    <3>1. /\ \A d \in Clients : d # c => req'[d] = req[d]
          /\ req'[c] = [req[c] EXCEPT !.pc = "clean", !.id = i]
      BY <1>5, ThenSets
    <3> QED BY <1>3, <3>1 DEF DeleteReq
  <2>2. OfSlot(i, s) /\ \A t \in typed : t.id # i
    BY <1>5 DEF Core, IdsInv, OfSlot
  <2>3. s \notin overlap => \E t \in typed : t.id = req[c].typed /\ t.repo = i
    <3>1. \A k \in Keys : k.slot = s => k.id = i
      BY <1>5 DEF Core, IdsInv
    <3>2. s \notin overlap => \E t \in typed : t.id = req[c].typed /\ [id |-> t.repo, slot |-> s] \in Keys
      BY <1>1, <1>3 DEF Met, Deleting
    <3>3. \A t \in typed : [id |-> t.repo, slot |-> s] \in Keys => t.repo = i
      BY <3>1
    <3> QED BY <3>2, <3>3
  <2> HIDE DEF s
  <2>4. Placed(req[c])'
    BY <1>1, <1>2, <1>3, <1>5, <2>1, <2>2 DEF Placed, NoRow, OfSlot, Deleting, Holding, s
  <2>5. Made(req[c])'
    BY <2>1 DEF Made, Making
  <2>6. Met(req[c])'
    BY <1>1, <1>2, <1>5, <2>1, <2>3 DEF Met
  <2> QED BY <1>1, <1>2, <1>5, <2>1, <2>4, <2>5, <2>6, MarkedStep DEF s
<1>6. \/ End(c) /\ UNCHANGED condemned
      \/ \E r \in Find(s) :
           /\ Then(c, [req[c] EXCEPT !.pc = "clean", !.id = r.id])
           /\ condemned' = condemned \cup {r.id}
  BY DEF DeleteRepo
<1>7. CASE \E r \in Find(s) :
             /\ Then(c, [req[c] EXCEPT !.pc = "clean", !.id = r.id])
             /\ condemned' = condemned \cup {r.id}
  <2>1. PICK r \in Find(s) :
             /\ Then(c, [req[c] EXCEPT !.pc = "clean", !.id = r.id])
             /\ condemned' = condemned \cup {r.id}
    BY <1>7
  <2>2. [id |-> r.id, slot |-> s] \in Keys
    BY FindByKey
  <2> HIDE DEF s
  <2> QED BY <1>5, <2>1, <2>2
<1> QED BY <1>4, <1>6, <1>7

LEMMA CleanInv ==
  ASSUME Typed, Core, NEW c \in Clients, CleanRelationsByRepoID(c)
  PROVE  Core'
<1>1. /\ UNCHANGED <<repos, typed, git, answered, condemned, gone, overlap, faults>>
      /\ req[c].pc = "clean" /\ Goto(c, "remove")
  BY DEF CleanRelationsByRepoID, NoFault, history, At
<1>2. Keys' = Keys /\ typed' = typed
  BY <1>1 DEF Keys
<1>3. Met(req[c]) /\ Placed(req[c])
  BY DEF Core, MadeInv, PlacedInv
<1>4. /\ \A d \in Clients : d # c => req'[d] = req[d]
      /\ req'[c].pc = "remove" /\ req'[c].id = req[c].id
      /\ req'[c].slot = req[c].slot /\ req'[c].typed = req[c].typed
  BY <1>1, GotoSets DEF Deleting
<1>5. Placed(req[c])'
  BY <1>1, <1>2, <1>3, <1>4 DEF Placed, NoRow, OfSlot, Deleting, Holding
<1>6. Made(req[c])'
  BY <1>4 DEF Made, Making
<1>7. Met(req[c])'
  BY <1>1, <1>2, <1>3, <1>4 DEF Met, Deleting
<1> QED BY <1>1, <1>2, <1>4, <1>5, <1>6, <1>7, MarkedStep

LEMMA RemoveTreeInv ==
  ASSUME Typed, Core, NEW c \in Clients, RemoveTree(c)
  PROVE  Core'
<1> DEFINE s == req[c].slot
<1>1. /\ UNCHANGED <<repos, typed, answered, condemned, gone, overlap>>
      /\ req[c].pc = "remove"
  BY DEF RemoveTree, tables, history, At
<1>2. Keys' = Keys
  BY <1>1 DEF Keys
<1>3. CASE git[s] = NoTree /\ End(c) /\ NoFault /\ UNCHANGED git
  BY <1>1, <1>3, EndQuiet DEF history
<1>4. CASE /\ git[s] # NoTree
           /\ git' = [git EXCEPT ![s] = NoTree]
           /\ \/ Goto(c, "delete") /\ NoFault
              \/ End(c) /\ Fault
  <2>1. s \in Slots /\ git \in [Slots -> (SUBSET Files) \cup {NoTree}]
    BY <1>1, ReqFields, ReposAssumption DEF Typed, Deleting
  <2>2. git'[s] = NoTree /\ \A x \in Slots : x # s => git'[x] = git[x]
    BY <1>4, <2>1
  <2>3. Met(req[c]) /\ Placed(req[c])
    BY DEF Core, MadeInv, PlacedInv
  <2>4. \A d \in Clients : d # c => req'[d] = req[d]
    BY <1>4, <1>1, EndSets, GotoSets DEF Deleting
  <2>5. \/ req'[c].pc = "idle" /\ faults' # 0
        \/ /\ req'[c].pc = "delete" /\ req'[c].slot = s
           /\ req'[c].id = req[c].id /\ req'[c].typed = req[c].typed
    <3>1. CASE Goto(c, "delete")
      BY <3>1, <1>1, GotoSets DEF Deleting
    <3>2. CASE End(c) /\ Fault
      BY <3>2, EndSets DEF Fault, Typed
    <3> QED BY <1>4, <3>1, <3>2
  <2>6. \A d \in Clients : req[d].pc \in Making \cup Deleting => req[d].slot \in Slots
    BY ReqFields, ReposAssumption DEF Typed
  <2>7. s \notin overlap => /\ [id |-> req[c].id, slot |-> s] \in Keys
                           /\ \E t \in typed : t.id = req[c].typed /\ t.repo = req[c].id
    BY <1>1, <2>3 DEF Met, Deleting
  <2>8. req[c].id \in condemned
    BY <1>1, <2>3 DEF Placed, Deleting
  <2> HIDE DEF s
  <2>9. IdsInv'
    BY <1>1, <1>2 DEF Core, IdsInv
  <2>10. PlacedInv'
    <3>1. Placed(req[c])' /\ req'[c].pc # "kind"
      BY <1>1, <1>2, <2>3, <2>5 DEF Placed, NoRow, OfSlot, Deleting, Holding, s
    <3> QED BY <3>1, <1>1, <1>2, <2>4, OthersPlaced
  <2>11. AloneInv'
    BY <1>1, <2>4, <2>5, MoveAlone DEF Core, Making, Deleting, s
  <2>12. MadeInv'
    <3>1. ASSUME NEW d \in Clients, d # c
          PROVE  Made(req[d])' /\ Met(req[d])'
      <4>1. req'[d] = req[d] /\ Made(req[d]) /\ Met(req[d])
        BY <2>4, <3>1 DEF Core, MadeInv
      <4>2. req[d].pc \in Making /\ req[d].slot = s => s \in overlap
        BY <1>1, <3>1 DEF Core, AloneInv, Deleting, s
      <4>3. Made(req[d])'
        BY <4>1, <4>2, <1>1, <1>2, <2>2, <2>6 DEF Made
      <4>4. Met(req[d])'
        BY <4>1, <1>1, <1>2, <2>2, <2>6 DEF Met
      <4> QED BY <4>3, <4>4
    <3>2. Made(req[c])' /\ Met(req[c])'
      <4>1. CASE req'[c].pc = "idle"
        BY <4>1 DEF Made, Met, Making, Deleting
      <4>2. CASE req'[c].pc = "delete"
        BY <4>2, <1>1, <1>2, <2>2, <2>5, <2>7 DEF Made, Met, Making, Deleting
      <4> QED BY <2>5, <4>1, <4>2
    <3> QED BY <3>1, <3>2 DEF MadeInv
  <2>13. Stays'
    <3> SUFFICES ASSUME NEW a \in answered, a.id \notin condemned, a.slot \notin overlap
                 PROVE  a.slot # s
      <4>1. \A a \in answered : a.slot \in Slots
        BY DEF Typed, Reported
      <4> QED BY <4>1, <1>1, <1>2, <2>2 DEF Core, Stays
    <3>1. [id |-> a.id, slot |-> a.slot] \in Keys
      BY DEF Core, Stays
    <3> QED BY <3>1, <2>7, <2>8 DEF Core, IdsInv
  <2>14. AgreeInv'
    <3> SUFFICES ASSUME faults' = 0
                 PROVE  AgreeInv'
      BY DEF AgreeInv
    <3>0. req'[c].pc = "delete" /\ req'[c].slot = s /\ faults = 0
      BY <2>5, <1>4 DEF NoFault, Fault, Typed, s
    <3>1. \A pc \in {"insert", "kind", "delete"}, x \in Slots : Doing(pc, x) => Doing(pc, x)'
      BY <1>1, <2>4 DEF Doing
    <3>2. \A t \in typed :
            (\E d \in Clients : req[d].pc = "untype" /\ req[d].typed = t.id)
            => \E d \in Clients : req'[d].pc = "untype" /\ req'[d].typed = t.id
      BY <1>1, <2>4
    <3>3. \A k \in Keys : k.slot \in Slots
      BY KeysTyped DEF Key
    <3>4. \A x \in Slots : x = s => Doing("delete", x)'
      BY <3>0 DEF Doing
    <3> HIDE DEF Doing
    <3> QED BY <3>0, <1>1, <1>2, <2>1, <2>2, <3>1, <3>2, <3>3, <3>4 DEF Core, AgreeInv
  <2> QED BY <2>9, <2>10, <2>11, <2>12, <2>13, <2>14 DEF Core
<1> QED BY <1>3, <1>4 DEF RemoveTree

LEMMA DeleteRowInv ==
  ASSUME Typed, Core, NEW c \in Clients, DeleteRow(c)
  PROVE  Core'
<1> DEFINE s == req[c].slot
           i == req[c].id
<1>1. /\ UNCHANGED <<typed, git, answered, condemned, gone, overlap, faults>>
      /\ req[c].pc = "delete" /\ Goto(c, "untype")
  BY DEF DeleteRow, NoFault, history, At
<1>2. Keys' = {k \in Keys : k.id # i}
  <2>1. repos' = {r \in repos : r.id # i}
    BY DEF DeleteRow, ByID
  <2> HIDE DEF i
  <2>2. \A k : k \in Keys' => k \in Keys /\ k.id # i
    BY <2>1 DEF Keys
  <2>3. \A k : k \in Keys /\ k.id # i => k \in Keys'
    BY <2>1 DEF Keys
  <2> QED BY <2>2, <2>3
<1>3. Met(req[c]) /\ Placed(req[c])
  BY DEF Core, MadeInv, PlacedInv
<1>4. /\ \A d \in Clients : d # c => req'[d] = req[d]
      /\ req'[c].pc = "untype" /\ req'[c].id = i
      /\ req'[c].slot = s /\ req'[c].typed = req[c].typed
  BY <1>1, GotoSets DEF Deleting
<1>5. i \in condemned /\ OfSlot(i, s)
  BY <1>1, <1>3 DEF Placed, Deleting
<1>6. s \notin overlap => /\ [id |-> i, slot |-> s] \in Keys /\ git[s] = NoTree
                         /\ \E t \in typed : t.id = req[c].typed /\ t.repo = i
  BY <1>1, <1>3 DEF Met, Deleting
<1>7. \A k \in Keys : k.slot \in Slots
  BY KeysTyped DEF Key
<1>8. s \notin overlap => /\ \A k \in Keys : k.slot = s => k.id = i
                         /\ \A t \in typed : t.id = req[c].typed <=> t.repo = i
  BY <1>6 DEF Core, IdsInv
<1> HIDE DEF s, i
<1>9. IdsInv'
  BY <1>1, <1>2 DEF Core, IdsInv
<1>10. PlacedInv'
  <2>1. Placed(req[c])' /\ req'[c].pc # "kind"
    BY <1>1, <1>2, <1>3, <1>4 DEF Placed, NoRow, OfSlot, Deleting, Holding, s, i
  <2> QED BY <2>1, <1>1, <1>2, <1>4, OthersPlaced
<1>11. AloneInv'
  BY <1>1, <1>4, MoveAlone DEF Core, Deleting, s
<1>12. MadeInv'
  <2>1. ASSUME NEW d \in Clients, d # c
        PROVE  Made(req[d])' /\ Met(req[d])'
    <3>1. req'[d] = req[d] /\ Made(req[d]) /\ Met(req[d])
      BY <1>4, <2>1 DEF Core, MadeInv
    <3>2. req[d].pc \in Making \cup Deleting /\ req[d].slot = s => s \in overlap
      BY <1>1, <2>1 DEF Core, AloneInv, Deleting, s
    <3>3. \A x : /\ req[d].pc \in Making \cup Deleting /\ req[d].slot \notin overlap
                 /\ [id |-> x, slot |-> req[d].slot] \in Keys
                 => [id |-> x, slot |-> req[d].slot] \in Keys'
      BY <1>2, <1>5, <3>2 DEF OfSlot
    <3>4. Made(req[d])'
      BY <3>1, <3>3, <1>1 DEF Made, Making
    <3>5. Met(req[d])'
      BY <3>1, <3>3, <1>1 DEF Met, Deleting
    <3> QED BY <3>4, <3>5
  <2>2. Made(req[c])' /\ Met(req[c])'
    BY <1>1, <1>4, <1>8 DEF Made, Met, Making, Deleting
  <2> QED BY <2>1, <2>2 DEF MadeInv
<1>13. Stays'
  <2>1. \A a \in answered : a.id \notin condemned /\ [id |-> a.id, slot |-> a.slot] \in Keys
                            => [id |-> a.id, slot |-> a.slot] \in Keys'
    BY <1>2, <1>5
  <2> QED BY <1>1, <2>1 DEF Core, Stays
<1>14. AgreeInv'
  <2>1. \A pc \in {"insert", "kind"}, x \in Slots : Doing(pc, x) => Doing(pc, x)'
    BY <1>1, <1>4 DEF Doing
  <2>2. \A x \in Slots : x # s => (Doing("delete", x) => Doing("delete", x)')
    BY <1>1, <1>4 DEF Doing, s
  <2>3. \A t \in typed :
          (\E d \in Clients : req[d].pc = "untype" /\ req[d].typed = t.id)
          => \E d \in Clients : req'[d].pc = "untype" /\ req'[d].typed = t.id
    BY <1>1, <1>4
  <2> HIDE DEF Doing
  <2>4. ASSUME faults = 0, NEW k \in Keys, k.id # i, k.slot \notin overlap
        PROVE  \A x \in Slots : x = k.slot =>
                 /\ git[x] # NoTree \/ Doing("delete", x)'
                 /\ (\E t \in typed : t.repo = k.id) \/ Doing("kind", x)'
    BY <1>7, <1>8, <2>1, <2>2, <2>4 DEF Core, AgreeInv
  <2>5. ASSUME faults = 0, NEW x \in Slots \ overlap, git[x] # NoTree
        PROVE  (\E k \in Keys' : k.slot = x) \/ Doing("insert", x)'
    <3>1. (\E k \in Keys : k.slot = x) \/ Doing("insert", x)'
      BY <2>1, <2>5 DEF Core, AgreeInv
    <3>2. x # s
      BY <1>6, <2>5
    <3> QED BY <1>2, <1>5, <3>1, <3>2 DEF OfSlot
  <2>6. ASSUME faults = 0, overlap = {}, NEW t \in typed
        PROVE  \/ \E k \in Keys' : k.id = t.repo
               \/ \E d \in Clients : req'[d].pc = "untype" /\ req'[d].typed = t.id
    <3>1. CASE t.repo = i
      BY <1>4, <1>8, <2>6, <3>1
    <3>2. CASE t.repo # i
      BY <1>2, <2>3, <2>6, <3>2 DEF Core, AgreeInv
    <3> QED BY <3>1, <3>2
  <2>7. \A k \in Keys' : faults' = 0 /\ k.slot \notin overlap' =>
          /\ git'[k.slot] # NoTree \/ Doing("delete", k.slot)'
          /\ (\E t \in typed' : t.repo = k.id) \/ Doing("kind", k.slot)'
    BY <1>1, <1>2, <1>7, <2>4
  <2> QED BY <1>1, <2>5, <2>6, <2>7 DEF AgreeInv
<1> QED BY <1>9, <1>10, <1>11, <1>12, <1>13, <1>14 DEF Core

LEMMA DeleteTypedInv ==
  ASSUME Typed, Core, NEW c \in Clients, DeleteTyped(c)
  PROVE  Core'
<1> DEFINE s == req[c].slot
           i == req[c].id
           ty == req[c].typed
<1>1. /\ UNCHANGED <<repos, git, answered, condemned, overlap, faults>>
      /\ req[c].pc = "untype" /\ End(c) /\ typed' = {t \in typed : t.id # ty}
      /\ gone' \subseteq gone \cup {i, ty}
  BY DEF DeleteTyped, NoFault, At
<1>2. Keys' = Keys
  BY <1>1 DEF Keys
<1>3. Met(req[c]) /\ Placed(req[c])
  BY DEF Core, MadeInv, PlacedInv
<1>4. /\ \A d \in Clients : d # c => req'[d] = req[d]
      /\ req'[c].pc \notin Making \cup Deleting \cup Holding /\ req'[c].pc = "idle"
  BY <1>1, EndSets
<1>5. /\ i \in condemned /\ NoRow(i) /\ NoRow(ty)
      /\ \A t \in typed : t.id # i
      /\ \A t \in typed : t.id = ty => OfSlot(t.repo, s)
  BY <1>1, <1>3 DEF Placed, Deleting
<1>6. s \notin overlap => \A t \in typed : t.id = ty => t.repo = i
  BY <1>1, <1>3 DEF Met, Deleting
<1>7. \A k \in Keys : k.slot \in Slots
  BY KeysTyped DEF Key
<1> HIDE DEF s, i, ty
<1>8. IdsInv'
  BY <1>1, <1>2, <1>5 DEF Core, IdsInv, NoRow
<1>9. PlacedInv'
  <2>1. Placed(req[c])' /\ req'[c].pc # "kind"
    BY <1>4 DEF Placed, Deleting, Holding
  <2> QED BY <2>1, <1>1, <1>2, <1>4, OthersPlaced
<1>10. AloneInv'
  BY <1>1, <1>4, MoveAlone DEF Core
\* The row of the kind of a repository of another slot is not the one removed.
<1>11. ASSUME NEW t \in typed, NEW x, [id |-> t.repo, slot |-> x] \in Keys, t.id = ty
       PROVE  x = s
  BY <1>5, <1>11 DEF OfSlot
<1>12. MadeInv'
  <2>1. ASSUME NEW d \in Clients, d # c
        PROVE  Made(req[d])' /\ Met(req[d])'
    <3>1. req'[d] = req[d] /\ Made(req[d]) /\ Met(req[d])
      BY <1>4, <2>1 DEF Core, MadeInv
    <3>2. req[d].pc \in Making \cup Deleting /\ req[d].slot = s => s \in overlap
      BY <1>1, <2>1 DEF Core, AloneInv, Deleting, s
    <3>3. ASSUME NEW t \in typed, req[d].pc \in Making \cup Deleting, req[d].slot \notin overlap,
                 [id |-> t.repo, slot |-> req[d].slot] \in Keys
          PROVE  t \in typed'
      BY <1>1, <1>11, <3>2, <3>3
    <3>4. Made(req[d])'
      BY <3>1, <3>3, <1>1, <1>2 DEF Made, Making
    <3>5. Met(req[d])'
      BY <3>1, <3>3, <1>1, <1>2 DEF Met, Deleting
    <3> QED BY <3>4, <3>5
  <2>2. Made(req[c])' /\ Met(req[c])'
    BY <1>4 DEF Made, Met
  <2> QED BY <2>1, <2>2 DEF MadeInv
<1>13. Stays'
  <2>1. ASSUME NEW a \in answered, a.id \notin condemned, a.slot \notin overlap
        PROVE  \E t \in typed' : t.repo = a.id
    <3>1. [id |-> a.id, slot |-> a.slot] \in Keys
      BY <2>1 DEF Core, Stays
    <3>2. PICK t \in typed : t.repo = a.id
      BY <2>1 DEF Core, Stays
    <3>3. t.id # ty
      BY <1>5, <1>6, <1>11, <2>1, <3>1, <3>2
    <3> QED BY <1>1, <3>2, <3>3
  <2> QED BY <1>1, <1>2, <2>1 DEF Core, Stays
<1>14. AgreeInv'
  <2>1. \A pc \in {"insert", "kind", "delete"}, x \in Slots : Doing(pc, x) => Doing(pc, x)'
    BY <1>1, <1>4 DEF Doing
  <2>2. \A t \in typed' :
          (\E d \in Clients : req[d].pc = "untype" /\ req[d].typed = t.id)
          => \E d \in Clients : req'[d].pc = "untype" /\ req'[d].typed = t.id
    BY <1>1, <1>4 DEF ty
  <2>3. ASSUME NEW k \in Keys, k.slot \notin overlap, NEW t \in typed, t.repo = k.id
        PROVE  t \in typed'
    <3>1. CASE t.id = ty
      <4>1. k.slot = s
        BY <1>5, <2>3, <3>1 DEF OfSlot
      <4>2. t.repo = i
        BY <1>6, <2>3, <3>1, <4>1
      <4> QED BY <1>5, <2>3, <4>2 DEF NoRow
    <3>2. CASE t.id # ty
      BY <1>1, <3>2
    <3> QED BY <3>1, <3>2
  <2> HIDE DEF Doing
  <2> QED BY <1>1, <1>2, <1>7, <2>1, <2>2, <2>3 DEF Core, AgreeInv
<1> QED BY <1>8, <1>9, <1>10, <1>12, <1>13, <1>14 DEF Core

----------------------------------------------------------------------------
(* Steps that change a row or a counter: the tables stay of their types, and *)
(* the keys stay as they are.                                                *)

Moved(c) ==
  /\ req' = [d \in Clients |-> req'[d]]
  /\ \A d \in Clients : d # c => req'[d] = req[d]

LEMMA StartMoves ==
  ASSUME Typed, NEW c \in Clients, NEW op, NEW r, Start(c, op, r)
  PROVE  Moved(c) /\ req'[c] = r /\ req[c].pc = "idle" /\ calls' \in Nat
<1>1. calls' \in Nat
  BY DEF Typed, Start
<1>2. req \in [Clients -> ReqState(lastID)] /\ req' = [req EXCEPT ![c] = r] /\ req[c] = Idle
  BY DEF Typed, Start
<1>3. req[c].pc = "idle"
  BY <1>2 DEF Idle
<1>4. Moved(c) /\ req'[c] = r
  BY <1>2 DEF Moved
<1> QED BY <1>1, <1>3, <1>4

LEMMA ThenMoves ==
  ASSUME Typed, NEW c \in Clients, NEW r, Then(c, r)
  PROVE  Moved(c) /\ req'[c] = r
  BY DEF Typed, Then, Moved

LEMMA GotoMoves ==
  ASSUME Typed, NEW c \in Clients, NEW pc, Goto(c, pc)
  PROVE  Moved(c) /\ req'[c] = [req[c] EXCEPT !.pc = pc]
  BY DEF Typed, Goto, Moved

LEMMA TypedFrame ==
  ASSUME Typed, NEW c \in Clients, Moved(c), req'[c] \in ReqState(lastID'),
         lastID' = lastID \/ NewID, load' = load, calls' \in Nat, faults' \in Nat,
         repos' \subseteq RepoRow(lastID'), \A r, q \in repos' : r.slot = q.slot => r = q,
         typed' = typed \/ typed' \subseteq TypedRow(lastID'),
         git' = git \/ git' \in [Slots -> (SUBSET Files) \cup {NoTree}],
         likes' = likes \/ likes' \subseteq [user : Users, of : 1..lastID'],
         colls' = colls \/ colls' \subseteq CollRow(lastID'),
         downloads' = downloads \/ downloads' \subseteq DayRow(lastID'),
         answered' = answered \/ answered' \subseteq Reported(lastID'),
         condemned' \subseteq 1..lastID', gone' \subseteq 1..lastID'
  PROVE  Typed'
<1>1. lastID' \in 0..MaxID /\ lastID \in Nat /\ lastID' \in Nat /\ lastID <= lastID'
  BY ReposAssumption DEF Typed, NewID
<1>2. /\ typed' \subseteq TypedRow(lastID')
      /\ likes' \subseteq [user : Users, of : 1..lastID']
      /\ colls' \subseteq CollRow(lastID')
      /\ downloads' \subseteq DayRow(lastID')
      /\ answered' \subseteq Reported(lastID')
      /\ ReqState(lastID) \subseteq ReqState(lastID')
  BY <1>1, RowsGrow DEF Typed
<1>3. req' \in [Clients -> ReqState(lastID')]
  BY <1>2 DEF Typed, Moved
<1>4. git' \in [Slots -> (SUBSET Files) \cup {NoTree}]
  BY DEF Typed
<1> QED BY <1>1, <1>2, <1>3, <1>4 DEF Typed

\* The same rows, or rows that were there.
LEMMA FewerRows ==
  ASSUME Typed, lastID' = lastID \/ NewID, repos' \subseteq repos
  PROVE  repos' \subseteq RepoRow(lastID') /\ \A r, q \in repos' : r.slot = q.slot => r = q
<1>1. lastID \in Nat /\ lastID' \in Nat /\ lastID <= lastID'
  BY ReposAssumption DEF Typed, NewID
<1> QED BY <1>1, RowsGrow DEF Typed

LEMMA BumpedRows ==
  ASSUME Typed, NEW id, NEW n \in Int, NEW default \in Int, lastID' = lastID,
         repos' = Bumped(repos, id, n, default)
  PROVE  /\ repos' \subseteq RepoRow(lastID') /\ \A r, q \in repos' : r.slot = q.slot => r = q
         /\ Keys' = Keys
<1> DEFINE new(r) == IF r.id = id THEN [r EXCEPT !.likes = Coalesce(@, default) + n] ELSE r
<1>1. repos' = {new(r) : r \in repos}
  BY DEF Bumped
<1>2. \A r \in repos : new(r) \in RepoRow(lastID) /\ new(r).id = r.id /\ new(r).slot = r.slot
  <2> SUFFICES ASSUME NEW r \in RepoRow(lastID)
               PROVE  new(r) \in RepoRow(lastID) /\ new(r).id = r.id /\ new(r).slot = r.slot
    BY DEF Typed
  <2>1. Coalesce(r.likes, default) + n \in Int
    BY DEF RepoRow, Coalesce
  <2> QED BY <2>1 DEF RepoRow
<1> HIDE DEF new
<1>3. \A r, q \in repos' : r.slot = q.slot => r = q
  BY <1>1, <1>2 DEF Typed
<1>4. Keys' = Keys
  BY <1>1, <1>2 DEF Keys
<1> QED BY <1>1, <1>2, <1>3, <1>4

LEMMA BumpedColls ==
  ASSUME Typed, NEW id, NEW n \in Int, NEW default \in Int, lastID' = lastID,
         colls' = Bumped(colls, id, n, default)
  PROVE  colls' \subseteq CollRow(lastID')
<1> DEFINE new(r) == IF r.id = id THEN [r EXCEPT !.likes = Coalesce(@, default) + n] ELSE r
<1>1. colls' = {new(r) : r \in colls}
  BY DEF Bumped
<1>2. \A r \in CollRow(lastID) : new(r) \in CollRow(lastID)
  <2> SUFFICES ASSUME NEW r \in CollRow(lastID)
               PROVE  new(r) \in CollRow(lastID)
    OBVIOUS
  <2>1. Coalesce(r.likes, default) + n \in Int
    BY DEF CollRow, Coalesce
  <2> QED BY <2>1 DEF CollRow
<1> HIDE DEF new
<1> QED BY <1>1, <1>2 DEF Typed

\* Writing a copy of a row back: it has the key of the row, if that exists.
LEMMA SavedRows ==
  ASSUME Typed, IdsInv, NEW row \in RepoRow(lastID), OfSlot(row.id, row.slot),
         lastID' = lastID, UpdateRow(row)
  PROVE  /\ repos' \subseteq RepoRow(lastID') /\ \A r, q \in repos' : r.slot = q.slot => r = q
         /\ Keys' = Keys
<1> DEFINE new == [row EXCEPT !.likes = Written(Coalesce(@, 0))]
<1>1. CASE ByID(row.id) = {}
  BY <1>1 DEF UpdateRow, Typed, Keys
<1>2. CASE ByID(row.id) # {}
  <2>1. repos' = {r \in repos : r.id # row.id} \cup {new}
    BY <1>2 DEF UpdateRow, ByID
  <2>2. new \in RepoRow(lastID) /\ new.id = row.id /\ new.slot = row.slot
    <3>1. Written(Coalesce(row.likes, 0)) \in Int
      BY DEF Written, Coalesce, Null, RepoRow
    <3> QED BY <3>1 DEF RepoRow
  <2> HIDE DEF new
  <2>3. PICK old \in repos : old.id = row.id
    BY <1>2 DEF ByID
  <2>4. \A r \in repos : [id |-> r.id, slot |-> r.slot] \in Keys
    BY DEF Keys
  <2>5. old.slot = row.slot
    <3>1. [id |-> old.id, slot |-> old.slot] \in Keys
      BY <2>4
    <3> QED BY <2>3, <3>1 DEF OfSlot
  <2>6. \A r \in repos : r.slot = row.slot => r = old
    BY <2>5 DEF Typed
  <2>7. \A r \in repos : r.id = row.id => r.slot = row.slot
    <3> SUFFICES ASSUME NEW r \in repos, r.id = row.id
                 PROVE  r.slot = row.slot
      OBVIOUS
    <3>1. [id |-> r.id, slot |-> r.slot] \in Keys
      BY <2>4
    <3> QED BY <3>1 DEF OfSlot
  <2>8. \A r, q \in repos' : r.slot = q.slot => r = q
    BY <2>1, <2>2, <2>3, <2>6 DEF Typed
  <2>9. Keys' = Keys
    <3>1. \A k : k \in Keys' => k \in Keys
      BY <2>1, <2>2, <2>3, <2>5 DEF Keys
    <3>2. \A k : k \in Keys => k \in Keys'
      BY <2>1, <2>2, <2>7 DEF Keys
    <3> QED BY <3>1, <3>2
  <2>10. repos' \subseteq RepoRow(lastID')
    BY <2>1, <2>2 DEF Typed
  <2> QED BY <2>8, <2>9, <2>10
<1> QED BY <1>1, <1>2

\* The steps of creations and deletions.
LEMMA BeginTyped ==
  ASSUME Typed, NEW c \in Clients, NEW s \in Slots,
         \/ \E files \in SUBSET Files : Create(c, s, files)
         \/ Delete(c, s)
  PROVE  Typed'
<1>1. /\ UNCHANGED <<repos, typed, git, likes, colls, downloads, lastID, load,
                     answered, condemned, gone, faults>>
  BY DEF Create, Delete, tables, NoFault
<1>2. Moved(c) /\ req'[c] \in ReqState(lastID) /\ calls' \in Nat
  <2>1. ASSUME NEW files \in SUBSET Files, Create(c, s, files)
        PROVE  Moved(c) /\ req'[c] \in ReqState(lastID) /\ calls' \in Nat
    <3>1. PICK private \in BOOLEAN :
            Start(c, "create", [pc |-> "tree", op |-> "create", slot |-> s, private |-> private,
                                id |-> 0, files |-> files, todo |-> files])
      BY <2>1 DEF Create
    <3> DEFINE r == [pc |-> "tree", op |-> "create", slot |-> s, private |-> private,
                     id |-> 0, files |-> files, todo |-> files]
    <3>2. r \in CreateReq(lastID)
      BY ReposAssumption DEF CreateReq, Typed
    <3> HIDE DEF r
    <3>3. Moved(c) /\ req'[c] = r /\ calls' \in Nat
      BY <3>1, StartMoves DEF r
    <3> QED BY <3>2, <3>3 DEF ReqState
  <2>2. ASSUME Delete(c, s)
        PROVE  Moved(c) /\ req'[c] \in ReqState(lastID) /\ calls' \in Nat
    <3>1. PICK u \in Users, t \in typed :
            Start(c, "delete", [pc |-> "find", op |-> "delete", slot |-> s, user |-> u,
                                id |-> 0, typed |-> t.id])
      BY <2>2 DEF Delete
    <3> DEFINE r == [pc |-> "find", op |-> "delete", slot |-> s, user |-> u, id |-> 0, typed |-> t.id]
    <3>2. r \in DeleteReq(lastID)
      BY ReposAssumption DEF DeleteReq, Typed, TypedRow
    <3> HIDE DEF r
    <3>3. Moved(c) /\ req'[c] = r /\ calls' \in Nat
      BY <3>1, StartMoves DEF r
    <3> QED BY <3>2, <3>3 DEF ReqState
  <2> QED BY <2>1, <2>2
<1>3. repos' \subseteq RepoRow(lastID') /\ \A r, q \in repos' : r.slot = q.slot => r = q
  BY <1>1, FewerRows
<1> QED BY <1>1, <1>2, <1>3, TypedFrame DEF Typed

\* A step that only moves on, or ends.
LEMMA MoveTyped ==
  ASSUME Typed, NEW c \in Clients,
         \/ End(c)
         \/ \E pc \in Making : Goto(c, pc) /\ req[c].pc \in Making
         \/ \E pc \in Deleting : Goto(c, pc) /\ req[c].pc \in Deleting
         \/ Goto(c, "countdown") /\ req[c].pc = "unlike"
  PROVE  Moved(c) /\ req'[c] \in ReqState(lastID)
<1>1. req[c] \in ReqState(lastID) /\ lastID \in Nat
  BY ReposAssumption DEF Typed
<1>2. CASE End(c)
  BY <1>2, ThenMoves DEF End, ReqState
<1>3. ASSUME NEW pc \in Making, Goto(c, pc), req[c].pc \in Making
      PROVE  Moved(c) /\ req'[c] \in ReqState(lastID)
  <2>1. Moved(c) /\ req'[c] = [req[c] EXCEPT !.pc = pc] /\ req[c] \in CreateReq(lastID)
    BY <1>1, <1>3, GotoMoves, ReqShapes
  <2>2. req'[c] \in CreateReq(lastID)
    BY <2>1 DEF CreateReq, Making
  <2> QED BY <2>1, <2>2 DEF ReqState
<1>4. ASSUME NEW pc \in Deleting, Goto(c, pc), req[c].pc \in Deleting
      PROVE  Moved(c) /\ req'[c] \in ReqState(lastID)
  <2>1. Moved(c) /\ req'[c] = [req[c] EXCEPT !.pc = pc] /\ req[c] \in DeleteReq(lastID)
    BY <1>1, <1>4, GotoMoves, ReqShapes
  <2>2. req'[c] \in DeleteReq(lastID)
    BY <2>1 DEF DeleteReq, Deleting
  <2> QED BY <2>1, <2>2 DEF ReqState
<1>5. CASE Goto(c, "countdown") /\ req[c].pc = "unlike"
  <2>1. Moved(c) /\ req'[c] = [req[c] EXCEPT !.pc = "countdown"] /\ req[c] \in LikeReq(lastID)
    BY <1>1, <1>5, GotoMoves, ReqShapes
  <2>2. req'[c] \in LikeReq(lastID)
    BY <2>1 DEF LikeReq
  <2> QED BY <2>1, <2>2 DEF ReqState
<1> QED BY <1>2, <1>3, <1>4, <1>5

LEMMA MakeTyped ==
  ASSUME Typed, Core, NEW c \in Clients,
         CreateTree(c) \/ InsertRow(c) \/ InsertTyped(c) \/ CreateRepoFile(c)
  PROVE  Typed'
<1> DEFINE s == req[c].slot
<1>1. /\ req[c].pc \in Making
      /\ UNCHANGED <<likes, colls, downloads, load, calls, condemned, gone>>
      /\ faults' \in Nat
  BY DEF CreateTree, InsertRow, InsertTyped, CreateRepoFile, At, Making, tables, history,
         Only, NoFault, Fault, Typed
<1>2. /\ req[c] \in CreateReq(lastID) /\ s \in Slots /\ req[c].id \in 0..lastID
      /\ req[c].todo \in SUBSET Files /\ req[c].files \in SUBSET Files
      /\ lastID \in Nat
      /\ req[c].private \in BOOLEAN
  BY <1>1, ReqFields, ReqShapes, ReposAssumption DEF Typed
<1>3. /\ \A n \in Nat : 0..n \subseteq Nat
      /\ git \in [Slots -> (SUBSET Files) \cup {NoTree}]
      /\ condemned \subseteq 1..lastID /\ gone \subseteq 1..lastID
  BY DEF Typed
<1>4. CASE CreateTree(c)
  <2>1. UNCHANGED <<repos, typed, lastID, answered>>
    BY <1>4 DEF CreateTree, tables, history
  <2>2. Moved(c) /\ req'[c] \in ReqState(lastID)
    BY <1>1, <1>4, MoveTyped DEF CreateTree, Making
  <2>3. git' \in [Slots -> (SUBSET Files) \cup {NoTree}]
    BY <1>2, <1>3, <1>4 DEF CreateTree
  <2>4. repos' \subseteq RepoRow(lastID') /\ \A r, q \in repos' : r.slot = q.slot => r = q
    BY <2>1, FewerRows
  <2> QED BY <1>1, <1>3, <2>1, <2>2, <2>3, <2>4, TypedFrame DEF Typed
<1>5. CASE InsertRow(c)
  <2>1. UNCHANGED <<typed, git, answered>>
    BY <1>5 DEF InsertRow, history
  <2>2. CASE Find(s) # {} /\ End(c) /\ UNCHANGED <<repos, lastID>>
    <3>1. Moved(c) /\ req'[c] \in ReqState(lastID)
      BY <2>2, MoveTyped
    <3>2. repos' \subseteq RepoRow(lastID') /\ \A r, q \in repos' : r.slot = q.slot => r = q
      BY <2>2, FewerRows
    <3> QED BY <1>1, <1>3, <2>1, <2>2, <3>1, <3>2, TypedFrame DEF Typed
  <2>3. CASE /\ Find(s) = {} /\ NewID
             /\ repos' = repos \cup {Row(lastID + 1, s, req[c].private)}
             /\ Then(c, [req[c] EXCEPT !.pc = "kind", !.id = lastID + 1])
    <3>1. lastID' = lastID + 1 /\ 1..lastID \subseteq 1..lastID'
      BY <1>2, <2>3 DEF NewID
    <3>2. Moved(c) /\ req'[c] = [req[c] EXCEPT !.pc = "kind", !.id = lastID + 1]
      BY <2>3, ThenMoves
    <3>3. req'[c] \in CreateReq(lastID')
      <4>1. lastID + 1 \in 0..lastID'
        BY <1>2, <3>1
      <4>2. lastID' \in Nat /\ lastID <= lastID'
        BY <1>2, <3>1
      <4> HIDE DEF s
      <4> QED BY <1>2, <3>2, <4>1, <4>2 DEF CreateReq
    <3>4. /\ Row(lastID + 1, s, req[c].private) \in RepoRow(lastID')
          /\ Row(lastID + 1, s, req[c].private).slot = s
      BY <1>2, <3>1 DEF Row, RepoRow, Null, Counts
    <3>5. repos' \subseteq RepoRow(lastID')
      BY <1>2, <2>3, <3>1, <3>4, RowsGrow DEF Typed
    <3>6. \A r, q \in repos' : r.slot = q.slot => r = q
      BY <2>3, <3>4 DEF Find, Typed
    <3>7. req'[c] \in ReqState(lastID')
      BY <3>3 DEF ReqState
    <3>8. condemned' \subseteq 1..lastID' /\ gone' \subseteq 1..lastID'
      BY <1>1, <1>3, <3>1
    <3> QED BY <1>1, <2>1, <2>3, <3>2, <3>5, <3>6, <3>7, <3>8, TypedFrame DEF Typed
  <2> QED BY <1>5, <2>2, <2>3 DEF InsertRow
<1>6. CASE InsertTyped(c)
  <2>0. UNCHANGED <<repos, git, answered>> /\ NewID /\ Goto(c, "file")
    BY <1>6 DEF InsertTyped, history
  <2>1. lastID' = lastID + 1 /\ 1..lastID \subseteq 1..lastID'
    BY <1>2, <2>0 DEF NewID
  <2>2. Moved(c) /\ req'[c] \in ReqState(lastID')
    BY <1>1, <1>2, <2>0, <2>1, MoveTyped, RowsGrow DEF Making
  <2>3. repos' \subseteq RepoRow(lastID') /\ \A r, q \in repos' : r.slot = q.slot => r = q
    BY <2>0, FewerRows
  <2>4. typed' \subseteq TypedRow(lastID')
    <3>0. req[c].id # 0
      BY <1>2, <1>6 DEF Core, PlacedInv, Placed, InsertTyped, At
    <3>1. [id |-> lastID + 1, repo |-> req[c].id] \in TypedRow(lastID')
      BY <1>2, <2>1, <3>0 DEF TypedRow
    <3>2. typed \subseteq TypedRow(lastID')
      BY <1>2, <2>1, RowsGrow DEF Typed
    <3> QED BY <1>6, <3>1, <3>2 DEF InsertTyped
  <2>5. condemned' \subseteq 1..lastID' /\ gone' \subseteq 1..lastID'
    BY <1>1, <1>3, <2>1
  <2> QED BY <1>1, <2>0, <2>2, <2>3, <2>4, <2>5, TypedFrame DEF Typed
<1>7. CASE CreateRepoFile(c)
  <2>1. UNCHANGED <<repos, typed, lastID>>
    BY <1>7 DEF CreateRepoFile, tables
  <2> DEFINE f == NextFile(req[c].todo)
             rest == req[c].todo \ {f}
             report == [id |-> req[c].id, slot |-> s, files |-> req[c].files]
  <2>2. req[c].id \in 1..lastID /\ req[c].todo # {}
    <3>1. Placed(req[c]) /\ Made(req[c]) /\ req[c].pc = "file"
      BY <1>7 DEF Core, PlacedInv, MadeInv, CreateRepoFile, At
    <3> QED BY <1>1, <1>2, <3>1 DEF Placed, Made
  <2>3. f \in Files
    BY <1>2, <2>2, NextIsToDo
  <2>4. \/ /\ git[s] # NoTree
           /\ git' = [git EXCEPT ![s] = @ \cup {f}]
           /\ IF rest = {}
              THEN End(c) /\ answered' = answered \cup {report}
              ELSE Then(c, [req[c] EXCEPT !.todo = rest]) /\ UNCHANGED answered
        \/ End(c) /\ UNCHANGED <<git, answered>>
    BY <1>7 DEF CreateRepoFile
  <2>5. report \in Reported(lastID)
    BY <1>2, <2>2 DEF Reported
  <2>6. rest \in SUBSET Files
    BY <1>2
  <2> HIDE DEF f, rest, report
  <2>7. Moved(c) /\ req'[c] \in ReqState(lastID)
    <3>1. CASE End(c)
      BY <3>1, MoveTyped
    <3>2. CASE Then(c, [req[c] EXCEPT !.todo = rest])
      <4>1. Moved(c) /\ req'[c] = [req[c] EXCEPT !.todo = rest]
        BY <3>2, ThenMoves
      <4>2. req'[c] \in CreateReq(lastID)
        BY <1>2, <2>6, <4>1 DEF CreateReq
      <4> QED BY <4>1, <4>2 DEF ReqState
    <3> QED BY <2>4, <3>1, <3>2
  <2>8. git' = git \/ git' \in [Slots -> (SUBSET Files) \cup {NoTree}]
    <3>1. git[s] # NoTree => git[s] \cup {f} \in SUBSET Files
      BY <1>2, <1>3, <2>3
    <3> HIDE DEF s
    <3> QED BY <1>3, <2>4, <3>1
  <2>9. answered' = answered \/ answered' \subseteq Reported(lastID')
    BY <2>1, <2>4, <2>5 DEF Typed
  <2>10. repos' \subseteq RepoRow(lastID') /\ \A r, q \in repos' : r.slot = q.slot => r = q
    BY <2>1, FewerRows
  <2> QED BY <1>1, <1>3, <2>1, <2>7, <2>8, <2>9, <2>10, TypedFrame DEF Typed
<1> QED BY <1>4, <1>5, <1>6, <1>7

LEMMA UnmakeTyped ==
  ASSUME Typed, Core, NEW c \in Clients,
         \/ DeleteRepo(c) \/ CleanRelationsByRepoID(c) \/ RemoveTree(c)
         \/ DeleteRow(c) \/ DeleteTyped(c)
  PROVE  Typed'
<1>1. /\ req[c].pc \in Deleting
      /\ UNCHANGED <<colls, downloads, lastID, load, calls, answered>>
      /\ faults' \in Nat
  <2>1. CASE RemoveTree(c)
    <3>1. req[c].pc \in Deleting
      BY <2>1 DEF RemoveTree, At, Deleting
    <3>2. UNCHANGED <<colls, downloads, lastID, load, calls, answered>>
      BY <2>1 DEF RemoveTree, tables, history, Only
    <3>3. NoFault \/ Fault
      BY <2>1 DEF RemoveTree
    <3> QED BY <3>1, <3>2, <3>3 DEF NoFault, Fault, Typed
  <2>2. CASE DeleteRepo(c) \/ CleanRelationsByRepoID(c) \/ DeleteRow(c) \/ DeleteTyped(c)
    <3>1. req[c].pc \in Deleting
      BY <2>2 DEF DeleteRepo, CleanRelationsByRepoID, DeleteRow, DeleteTyped, At, Deleting
    <3>2. UNCHANGED <<colls, downloads, lastID, load, calls, answered>>
      BY <2>2 DEF DeleteRepo, CleanRelationsByRepoID, DeleteRow, DeleteTyped, tables, history, Only
    <3>3. NoFault
      BY <2>2 DEF DeleteRepo, CleanRelationsByRepoID, DeleteRow, DeleteTyped
    <3> QED BY <3>1, <3>2, <3>3 DEF NoFault, Typed
  <2> QED BY <2>1, <2>2
<1>2. /\ req[c] \in DeleteReq(lastID) /\ lastID \in Nat
      /\ req[c].id \in 0..lastID /\ req[c].typed \in 1..lastID /\ req[c].slot \in Slots
      /\ Placed(req[c])
  BY <1>1, ReqFields, ReqShapes, ReposAssumption DEF Typed, Core, PlacedInv
<1>3. /\ git \in [Slots -> (SUBSET Files) \cup {NoTree}]
      /\ condemned \subseteq 1..lastID /\ gone \subseteq 1..lastID
      /\ typed \subseteq TypedRow(lastID)
      /\ likes \subseteq [user : Users, of : 1..lastID]
  BY DEF Typed
<1>4. repos' \subseteq repos /\ typed' \subseteq typed /\ likes' \subseteq likes
  BY DEF DeleteRepo, CleanRelationsByRepoID, RemoveTree, DeleteRow, DeleteTyped, tables
<1>5. git' \in [Slots -> (SUBSET Files) \cup {NoTree}]
  BY <1>3 DEF DeleteRepo, CleanRelationsByRepoID, RemoveTree, DeleteRow, DeleteTyped
<1>6. condemned' \subseteq 1..lastID
  <2>1. CASE DeleteRepo(c)
    <3>1. \A r \in Find(req[c].slot) : r.id \in 1..lastID
      BY DEF Find, Typed, RepoRow
    <3> QED BY <1>3, <2>1, <3>1 DEF DeleteRepo
  <2>2. CASE ~DeleteRepo(c)
    BY <1>3, <2>2 DEF CleanRelationsByRepoID, RemoveTree, DeleteRow, DeleteTyped, history
  <2> QED BY <2>1, <2>2
<1>7. gone' \subseteq 1..lastID
  <2>1. CASE DeleteTyped(c)
    <3>1. req[c].id \in 1..lastID
      BY <1>2, <1>3, <2>1 DEF Placed, DeleteTyped, At, Deleting
    <3> QED BY <1>2, <1>3, <2>1, <3>1 DEF DeleteTyped
  <2>2. CASE ~DeleteTyped(c)
    BY <1>3, <2>2 DEF DeleteRepo, CleanRelationsByRepoID, RemoveTree, DeleteRow, history
  <2> QED BY <2>1, <2>2
<1>8. Moved(c) /\ req'[c] \in ReqState(lastID)
  <2>1. CASE \/ End(c)
             \/ \E pc \in Deleting : Goto(c, pc)
    BY <1>1, <2>1, MoveTyped
  <2>2. CASE \E r \in Find(req[c].slot) : Then(c, [req[c] EXCEPT !.pc = "clean", !.id = r.id])
    <3>1. PICK r \in Find(req[c].slot) : Then(c, [req[c] EXCEPT !.pc = "clean", !.id = r.id])
      BY <2>2
    <3>2. r.id \in 0..lastID
      BY <1>2 DEF Find, Typed, RepoRow
    <3>3. Moved(c) /\ req'[c] = [req[c] EXCEPT !.pc = "clean", !.id = r.id]
      BY <3>1, ThenMoves
    <3>4. req'[c] \in DeleteReq(lastID)
      BY <1>2, <3>2, <3>3 DEF DeleteReq
    <3> QED BY <3>3, <3>4 DEF ReqState
  <2>3. \/ End(c)
        \/ \E pc \in Deleting : Goto(c, pc)
        \/ \E r \in Find(req[c].slot) : Then(c, [req[c] EXCEPT !.pc = "clean", !.id = r.id])
    <3>1. {"remove", "delete", "untype"} \subseteq Deleting
      BY DEF Deleting
    <3> QED BY <3>1 DEF DeleteRepo, CleanRelationsByRepoID, RemoveTree, DeleteRow, DeleteTyped
  <2> QED BY <2>1, <2>2, <2>3
<1>9. repos' \subseteq RepoRow(lastID') /\ \A r, q \in repos' : r.slot = q.slot => r = q
  BY <1>1, <1>4, FewerRows
<1>10. /\ typed' \subseteq TypedRow(lastID')
       /\ likes' \subseteq [user : Users, of : 1..lastID']
  BY <1>1, <1>3, <1>4
<1> QED BY <1>1, <1>5, <1>6, <1>7, <1>8, <1>9, <1>10, TypedFrame DEF Typed

\* A request that neither creates nor deletes, at its first step and later.
LEMMA StartQuiet ==
  ASSUME Typed, Core, NEW c \in Clients, NEW op, NEW r \in ReqState(lastID),
         Start(c, op, r), OnlyReq,
         r.pc \notin Making \cup Deleting,
         r.pc \in Holding => OfSlot(r.row.id, r.row.slot)
  PROVE  IInv'
<1>1. Moved(c) /\ req'[c] = r /\ req[c].pc = "idle" /\ calls' \in Nat
  BY StartMoves
<1>2. /\ UNCHANGED <<repos, typed, git, likes, colls, downloads, lastID, load, faults>>
      /\ UNCHANGED history
      /\ answered' = answered /\ condemned' = condemned /\ gone' = gone
  BY DEF OnlyReq, tables, history, NoFault
<1>3. repos' \subseteq RepoRow(lastID') /\ \A p, q \in repos' : p.slot = q.slot => p = q
  BY <1>2, FewerRows
<1>4. Typed'
  BY <1>1, <1>2, <1>3, TypedFrame DEF Typed
<1>5. Keys' = Keys
  BY <1>2 DEF Keys
<1>6. Core'
  BY <1>1, <1>2, <1>5, QuietStep DEF Moved
<1> QED BY <1>4, <1>6 DEF IInv

LEMMA WorkQuiet ==
  ASSUME Typed, Core, NEW c \in Clients, Moved(c), req'[c] \in ReqState(lastID'),
         lastID' = lastID \/ NewID, calls' \in Nat,
         UNCHANGED <<typed, git, load, faults, history>>,
         repos' \subseteq RepoRow(lastID'), \A r, q \in repos' : r.slot = q.slot => r = q,
         Keys' = Keys,
         likes' = likes \/ likes' \subseteq [user : Users, of : 1..lastID'],
         colls' = colls \/ colls' \subseteq CollRow(lastID'),
         downloads' = downloads \/ downloads' \subseteq DayRow(lastID'),
         req[c].pc \notin Making \cup Deleting,
         req'[c].pc \notin Making \cup Deleting,
         req'[c].pc \in Holding => OfSlot(req'[c].row.id, req'[c].row.slot)
  PROVE  IInv'
<1>1. answered' = answered /\ condemned' = condemned /\ gone' = gone
  BY DEF history
<1>2. condemned' \subseteq 1..lastID' /\ gone' \subseteq 1..lastID'
  BY <1>1, RowsGrow, ReposAssumption DEF Typed, NewID
<1>3. Typed'
  BY <1>1, <1>2, TypedFrame DEF Typed
<1>4. Core'
  BY QuietStep DEF Moved, Making, Deleting
<1> QED BY <1>3, <1>4 DEF IInv

LEMMA RowsPlaced == Typed /\ IdsInv => \A r \in repos : OfSlot(r.id, r.slot)
<1> SUFFICES ASSUME Typed, IdsInv, NEW r \in repos
             PROVE  OfSlot(r.id, r.slot)
  OBVIOUS
<1>1. [id |-> r.id, slot |-> r.slot] \in Keys
  BY DEF Keys
<1> QED BY <1>1 DEF IdsInv, OfSlot

LEMMA UpdateInv ==
  ASSUME Typed, Core, NEW c \in Clients, NEW s \in Slots, Update(c, s)
  PROVE  IInv'
<1>1. PICK r \in Find(s), private \in BOOLEAN :
        Start(c, "update", [pc |-> "save", op |-> "update", slot |-> s,
                            row |-> [r EXCEPT !.private = private]])
  BY DEF Update
<1> DEFINE row == [r EXCEPT !.private = private]
           q == [pc |-> "save", op |-> "update", slot |-> s, row |-> row]
<1>2. r \in RepoRow(lastID) /\ OfSlot(r.id, r.slot)
  BY RowsPlaced DEF Find, Typed, Core
<1>3. row \in RepoRow(lastID) /\ row.id = r.id /\ row.slot = r.slot
  BY <1>2 DEF RepoRow
<1> HIDE DEF row
<1>4. /\ q \in ReqState(lastID) /\ q.pc \notin Making \cup Deleting
      /\ OfSlot(q.row.id, q.row.slot)
  BY <1>2, <1>3 DEF ReqState, UpdateReq, Making, Deleting
<1>5. Start(c, "update", q) /\ OnlyReq
  BY <1>1 DEF Update, row
<1> HIDE DEF q
<1> QED BY <1>4, <1>5, StartQuiet

LEMMA DownloadInv ==
  ASSUME Typed, Core, NEW c \in Clients, IncrDownloads(c) \/ UpdateDownloads(c)
  PROVE  IInv'
<1>1. PICK op \in {"click", "clone"}, s \in load.slots : \E r \in Find(s) :
        Start(c, op, [pc |-> "day", op |-> op, slot |-> s, row |-> r, day |-> {}])
  BY DEF IncrDownloads, UpdateDownloads
<1>2. PICK r \in Find(s) :
        Start(c, op, [pc |-> "day", op |-> op, slot |-> s, row |-> r, day |-> {}])
  BY <1>1
<1> DEFINE q == [pc |-> "day", op |-> op, slot |-> s, row |-> r, day |-> {}]
<1>3. r \in RepoRow(lastID) /\ OfSlot(r.id, r.slot) /\ s \in Slots
  BY RowsPlaced, ReposAssumption DEF Find, Typed, Core
<1>4. /\ q \in ReqState(lastID) /\ q.pc \notin Making \cup Deleting
      /\ OfSlot(q.row.id, q.row.slot)
  BY <1>3 DEF ReqState, CountReq, Making, Deleting
<1>5. Start(c, op, q) /\ OnlyReq
  BY <1>2 DEF IncrDownloads, UpdateDownloads
<1> HIDE DEF q
<1> QED BY <1>4, <1>5, StartQuiet

LEMMA LikeInv ==
  ASSUME Typed, Core, NEW c \in Clients, AddLikes(c) \/ LikeCollection(c) \/ Unlike(c)
  PROVE  IInv'
<1>1. ASSUME NEW pc \in {"like", "unlike"}, NEW s \in Slots \cup {"none"},
             NEW u \in Users, NEW id \in 1..lastID,
             Start(c, pc, [pc |-> pc, op |-> pc, slot |-> s, user |-> u, id |-> id])
      PROVE  IInv'
  <2> DEFINE q == [pc |-> pc, op |-> pc, slot |-> s, user |-> u, id |-> id]
  <2>1. q \in ReqState(lastID) /\ q.pc \notin Making \cup Deleting \cup Holding
    BY DEF ReqState, LikeReq, Making, Deleting, Holding
  <2>2. Start(c, pc, q) /\ OnlyReq
    BY <1>1 DEF AddLikes, LikeCollection, Unlike
  <2> HIDE DEF q
  <2> QED BY <2>1, <2>2, StartQuiet
<1>2. CASE AddLikes(c)
  <2>1. PICK u \in Users, r \in repos :
          Start(c, "like", [pc |-> "like", op |-> "like", slot |-> r.slot, user |-> u, id |-> r.id])
    BY <1>2 DEF AddLikes
  <2>2. r.slot \in Slots /\ r.id \in 1..lastID
    BY DEF Typed, RepoRow
  <2> QED BY <1>1, <2>1, <2>2
<1>3. CASE LikeCollection(c)
  <2>1. PICK u \in Users, k \in colls :
          Start(c, "like", [pc |-> "like", op |-> "like", slot |-> "none", user |-> u, id |-> k.id])
    BY <1>3 DEF LikeCollection
  <2>2. k.id \in 1..lastID
    BY DEF Typed, CollRow
  <2> QED BY <1>1, <2>1, <2>2
<1>4. CASE Unlike(c)
  BY <1>1, <1>4 DEF Unlike
<1> QED BY <1>2, <1>3, <1>4

LEMMA CollectionInv ==
  ASSUME Typed, Core, NEW c \in Clients,
         CreateCollection(c) \/ UpdateCollection(c) \/ DeleteCollection(c)
  PROVE  IInv'
<1>0. "edit" \notin Making \cup Deleting \cup Holding /\ "idle" \notin Making \cup Deleting \cup Holding
  BY DEF Making, Deleting, Holding
<1>1. CASE UpdateCollection(c)
  <2>1. PICK k \in colls, private \in BOOLEAN :
          Start(c, "edit", [pc |-> "edit", op |-> "edit", slot |-> "none",
                            row |-> [k EXCEPT !.private = private]])
    BY <1>1 DEF UpdateCollection
  <2> DEFINE row == [k EXCEPT !.private = private]
             q == [pc |-> "edit", op |-> "edit", slot |-> "none", row |-> row]
  <2>2. row \in CollRow(lastID)
    BY DEF Typed, CollRow
  <2> HIDE DEF row
  <2>3. q \in ReqState(lastID) /\ q.pc \notin Making \cup Deleting \cup Holding
    BY <1>0, <2>2 DEF ReqState, EditReq
  <2>4. Start(c, "edit", q) /\ OnlyReq
    BY <1>1, <2>1 DEF UpdateCollection, row
  <2> HIDE DEF q
  <2> QED BY <2>3, <2>4, StartQuiet
<1>2. CASE CreateCollection(c) \/ DeleteCollection(c)
  <2>1. \E op : Start(c, op, Idle)
    BY <1>2 DEF CreateCollection, DeleteCollection
  <2>2. Moved(c) /\ req'[c] = Idle /\ req[c].pc = "idle" /\ calls' \in Nat
    BY <2>1, StartMoves
  <2>3. req'[c] \in ReqState(lastID') /\ req'[c].pc = "idle"
    BY <2>2 DEF ReqState, Idle
  <2>4. UNCHANGED <<repos, typed, git, likes, downloads, load, faults, history>>
    BY <1>2 DEF CreateCollection, DeleteCollection, NoFault
  <2>5. lastID' = lastID \/ NewID
    BY <1>2 DEF CreateCollection, DeleteCollection
  <2>6. colls' \subseteq CollRow(lastID')
    <3>1. lastID \in Nat /\ lastID' \in Nat /\ lastID <= lastID' /\ CollRow(lastID) \subseteq CollRow(lastID')
      BY <2>5, ReposAssumption, RowsGrow DEF Typed, NewID
    <3>2. CASE CreateCollection(c)
      <4>1. PICK u \in Users, private \in BOOLEAN :
              colls' = colls \cup {[id |-> lastID + 1, user |-> u, private |-> private, likes |-> Null]}
        BY <3>2 DEF CreateCollection
      <4>2. [id |-> lastID + 1, user |-> u, private |-> private, likes |-> Null] \in CollRow(lastID')
        BY <3>1, <3>2 DEF CreateCollection, NewID, CollRow, Null
      <4> QED BY <3>1, <4>1, <4>2 DEF Typed
    <3>3. CASE DeleteCollection(c)
      BY <3>1, <3>3 DEF DeleteCollection, Typed
    <3> QED BY <1>2, <3>2, <3>3
  <2>7. repos' \subseteq RepoRow(lastID') /\ \A r, q \in repos' : r.slot = q.slot => r = q
    BY <2>4, <2>5, FewerRows
  <2>8. Keys' = Keys
    BY <2>4 DEF Keys
  <2> QED BY <1>0, <2>2, <2>3, <2>4, <2>5, <2>6, <2>7, <2>8, WorkQuiet
<1> QED BY <1>1, <1>2

LEMMA LikeWorkInv ==
  ASSUME Typed, Core, NEW c \in Clients,
         Add(c) \/ DeleteLike(c) \/ CountDown(c) \/ SaveCollection(c)
  PROVE  IInv'
<1>1. /\ req[c].pc \in {"like", "unlike", "countdown", "edit"}
      /\ UNCHANGED <<typed, git, downloads, lastID, load, calls, faults, history>>
  BY DEF Add, DeleteLike, CountDown, SaveCollection, At, NoFault, Only
<1>2. /\ req[c] \in ReqState(lastID) /\ lastID \in Nat
      /\ req[c].pc # "edit" => req[c].user \in Users /\ req[c].id \in 1..lastID
      /\ req[c].pc = "edit" => req[c].row \in CollRow(lastID)
  <2>1. req[c] \in ReqState(lastID) /\ lastID \in Nat
    BY ReposAssumption DEF Typed
  <2>2. /\ req[c].pc # "edit" => req[c] \in LikeReq(lastID)
        /\ req[c].pc = "edit" => req[c] \in EditReq(lastID)
    BY <1>1, <2>1, ReqShapes
  <2> QED BY <2>1, <2>2 DEF LikeReq, EditReq
<1>3. \/ End(c)
      \/ Goto(c, "countdown") /\ req[c].pc = "unlike"
  BY DEF Add, DeleteLike, CountDown, SaveCollection, At
<1>4. Moved(c) /\ req'[c] \in ReqState(lastID)
  BY <1>3, MoveTyped
<1>5. req'[c].pc \in {"idle", "countdown"}
  <2>1. CASE End(c)
    BY <2>1, EndSets
  <2>2. CASE Goto(c, "countdown") /\ req[c].pc = "unlike"
    <3>1. req[c] \in LikeReq(lastID)
      BY <1>2, <2>2, ReqShapes
    <3>2. req'[c] = [req[c] EXCEPT !.pc = "countdown"]
      BY <2>2, GotoMoves
    <3> QED BY <3>1, <3>2 DEF LikeReq
  <2> QED BY <1>3, <2>1, <2>2
<1>6. \/ repos' = repos
      \/ \E id, n, default : n \in Int /\ default \in Int /\ repos' = Bumped(repos, id, n, default)
  <2>1. 1 \in Int /\ -1 \in Int /\ 0 \in Int
    OBVIOUS
  <2> QED BY <2>1 DEF Add, DeleteLike, CountDown, SaveCollection
<1>7. /\ repos' \subseteq RepoRow(lastID') /\ \A r, q \in repos' : r.slot = q.slot => r = q
      /\ Keys' = Keys
  <2>1. CASE repos' = repos
    BY <1>1, <2>1, FewerRows DEF Keys
  <2>2. CASE \E id, n, default : n \in Int /\ default \in Int /\ repos' = Bumped(repos, id, n, default)
    BY <1>1, <2>2, BumpedRows
  <2> QED BY <1>6, <2>1, <2>2
<1>8. likes' \subseteq [user : Users, of : 1..lastID]
  BY <1>1, <1>2 DEF Add, DeleteLike, CountDown, SaveCollection, At, Typed
<1>9. colls' \subseteq CollRow(lastID')
  <2>1. CASE colls' = colls
    BY <1>1, <2>1 DEF Typed
  <2>2. CASE \E id, n, default : n \in Int /\ default \in Int /\ colls' = Bumped(colls, id, n, default)
    BY <1>1, <2>2, BumpedColls
  <2>3. CASE SaveCollection(c)
    <3>1. req[c].row \in CollRow(lastID)
      BY <1>2, <2>3 DEF SaveCollection, At
    <3>2. Written(Coalesce(req[c].row.likes, 0)) \in Int
      BY <3>1 DEF CollRow, Written, Coalesce, Null
    <3>3. [req[c].row EXCEPT !.likes = Written(Coalesce(@, 0))] \in CollRow(lastID)
      BY <3>1, <3>2 DEF CollRow
    <3> QED BY <1>1, <2>3, <3>3 DEF SaveCollection, Typed
  <2>4. 1 \in Int /\ -1 \in Int /\ 0 \in Int
    OBVIOUS
  <2> QED BY <2>1, <2>2, <2>3, <2>4 DEF Add, DeleteLike, CountDown
<1> QED BY <1>1, <1>4, <1>5, <1>7, <1>8, <1>9, WorkQuiet DEF Making, Deleting, Holding, Typed

LEMMA SaveRowInv ==
  ASSUME Typed, Core, NEW c \in Clients, SaveRow(c)
  PROVE  IInv'
<1>1. /\ req[c].pc = "save" /\ End(c) /\ UpdateRow(req[c].row)
      /\ UNCHANGED <<typed, git, likes, colls, downloads, lastID, load, calls, faults, history>>
  BY DEF SaveRow, At, NoFault, Only
<1>2. req[c].row \in RepoRow(lastID) /\ OfSlot(req[c].row.id, req[c].row.slot)
  <2>1. req[c].pc \in Holding
    BY <1>1 DEF Holding
  <2>2. Placed(req[c])
    BY DEF Core, PlacedInv
  <2> QED BY <2>1, <2>2, ReqFields, ReposAssumption DEF Typed, Placed
<1>3. /\ repos' \subseteq RepoRow(lastID') /\ \A r, q \in repos' : r.slot = q.slot => r = q
      /\ Keys' = Keys
  BY <1>1, <1>2, SavedRows DEF Core
<1>4. Moved(c) /\ req'[c] \in ReqState(lastID')
  BY <1>1, MoveTyped
<1>5. req'[c].pc \notin Making \cup Deleting \cup Holding
  BY <1>1, EndSets
<1> QED BY <1>1, <1>3, <1>4, <1>5, WorkQuiet DEF Making, Deleting, Typed

LEMMA DayInv ==
  ASSUME Typed, Core, NEW c \in Clients, ReadDay(c) \/ WriteDay(c) \/ SumDownloads(c)
  PROVE  IInv'
<1>1. /\ req[c].pc \in {"day", "count", "sum"}
      /\ UNCHANGED <<repos, typed, git, likes, colls, load, calls, faults, history>>
  BY DEF ReadDay, WriteDay, SumDownloads, At, OnlyReq, tables, NoFault, Only
<1>2. /\ req[c] \in CountReq(lastID) /\ lastID \in Nat /\ Placed(req[c])
      /\ req[c].row \in RepoRow(lastID) /\ req[c].day \in SUBSET DayRow(lastID)
      /\ req[c].op \in {"click", "clone"}
  <2>1. req[c] \in CountReq(lastID) /\ lastID \in Nat /\ Placed(req[c])
    BY <1>1, ReqShapes, ReposAssumption DEF Typed, Core, PlacedInv
  <2> QED BY <2>1 DEF CountReq
<1>3. OfSlot(req[c].row.id, req[c].row.slot)
  BY <1>1, <1>2 DEF Placed, Holding
<1>4. lastID' = lastID \/ NewID
  BY DEF ReadDay, WriteDay, SumDownloads, OnlyReq, tables
<1>5. /\ lastID' \in Nat /\ lastID <= lastID'
      /\ DayRow(lastID) \subseteq DayRow(lastID') /\ CountReq(lastID) \subseteq ReqState(lastID')
  <2>1. lastID' \in Nat /\ lastID <= lastID'
    BY <1>2, <1>4 DEF NewID
  <2> QED BY <1>2, <2>1, RowsGrow DEF ReqState
<1>6. \A d \in DayRow(lastID') : Counted(req[c].op, d) \in DayRow(lastID')
  BY DEF DayRow, Counted
<1>7. downloads' = downloads \/ downloads' \subseteq DayRow(lastID')
  <2>1. CASE WriteDay(c)
    <3> DEFINE new == [id |-> lastID + 1, repo |-> req[c].row.id, click |-> 0, clone |-> 0]
               day == req[c].day
               X == {Counted(req[c].op, e) : e \in day}
               new2(d) == IF \E e \in day : d.id = e.id THEN CHOOSE x \in X : TRUE ELSE d
    <3>1. downloads \subseteq DayRow(lastID') /\ day \subseteq DayRow(lastID')
      BY <1>2, <1>5 DEF Typed
    <3>2. CASE NewID /\ downloads' = downloads \cup {Counted(req[c].op, new)}
      <4>1. new \in DayRow(lastID')
        BY <1>2, <3>2 DEF DayRow, RepoRow, NewID
      <4> HIDE DEF new
      <4> QED BY <1>6, <3>1, <3>2, <4>1
    <3>3. CASE day # {} /\ downloads' = {new2(d) : d \in downloads}
      <4>1. (CHOOSE x \in X : TRUE) \in DayRow(lastID')
        <5>1. X # {} /\ X \subseteq DayRow(lastID')
          BY <1>6, <3>1, <3>3
        <5> HIDE DEF X
        <5> QED BY <5>1
      <4>2. \A d \in downloads : new2(d) \in DayRow(lastID')
        BY <3>1, <4>1
      <4> HIDE DEF new2
      <4> QED BY <3>3, <4>2
    <3> QED BY <2>1, <3>2, <3>3 DEF WriteDay
  <2>2. CASE ReadDay(c) \/ SumDownloads(c)
    BY <2>2 DEF ReadDay, SumDownloads, OnlyReq, tables
  <2> QED BY <2>1, <2>2
\* The request holds the same row, whose total may be new.
<1>8. /\ Moved(c) /\ req'[c] \in CountReq(lastID)
      /\ req'[c].row.id = req[c].row.id /\ req'[c].row.slot = req[c].row.slot
  <2>1. CASE ReadDay(c)
    <3> DEFINE days == {d \in downloads : d.repo = req[c].row.id}
    <3>1. days \subseteq DayRow(lastID)
      BY DEF Typed
    <3>2. PICK day \in (IF days = {} THEN {{}} ELSE {{d} : d \in days}) :
            Then(c, [req[c] EXCEPT !.pc = "count", !.day = day])
      BY <2>1 DEF ReadDay
    <3> HIDE DEF days
    <3>3. day \in SUBSET DayRow(lastID)
      BY <3>1, <3>2
    <3>4. Moved(c) /\ req'[c] = [req[c] EXCEPT !.pc = "count", !.day = day]
      BY <3>2, ThenMoves
    <3> QED BY <1>2, <3>3, <3>4 DEF CountReq
  <2>2. CASE WriteDay(c)
    <3>1. Moved(c) /\ req'[c] = [req[c] EXCEPT !.pc = "sum"]
      BY <2>2, GotoMoves DEF WriteDay
    <3> QED BY <1>2, <3>1 DEF CountReq
  <2>3. CASE SumDownloads(c)
    <3> DEFINE days == {d \in downloads : d.repo = req[c].row.id}
    <3>1. days \in SUBSET Day
      BY <1>2 DEF Typed, DayRow, Day
    <3>2. Total(days) \in Counts
      BY <3>1 DEF Counts
    <3>3. Then(c, [req[c] EXCEPT !.pc = "save", !.row.downloads = Total(days)])
      BY <2>3 DEF SumDownloads
    <3>4. Moved(c) /\ req'[c] = [req[c] EXCEPT !.pc = "save", !.row.downloads = Total(days)]
      BY <3>3, ThenMoves
    <3> DEFINE total == Total(days)
    <3> HIDE DEF days, total
    <3>5. /\ [req[c].row EXCEPT !.downloads = total] \in RepoRow(lastID)
          /\ [req[c].row EXCEPT !.downloads = total].id = req[c].row.id
          /\ [req[c].row EXCEPT !.downloads = total].slot = req[c].row.slot
      BY <1>2, <3>2 DEF RepoRow, total
    <3>6. req'[c] = [req[c] EXCEPT !.pc = "save", !.row = [req[c].row EXCEPT !.downloads = total]]
      BY <1>2, <3>4 DEF CountReq, total
    <3> QED BY <1>2, <3>4, <3>5, <3>6 DEF CountReq
  <2> QED BY <2>1, <2>2, <2>3
<1>9. /\ req'[c].pc \notin Making \cup Deleting /\ req[c].pc \notin Making \cup Deleting
      /\ req'[c] \in ReqState(lastID')
  BY <1>1, <1>5, <1>8 DEF CountReq, Making, Deleting
<1>10. /\ repos' \subseteq RepoRow(lastID') /\ \A r, q \in repos' : r.slot = q.slot => r = q
       /\ Keys' = Keys
  BY <1>1, <1>4, FewerRows DEF Keys
<1> QED BY <1>1, <1>3, <1>4, <1>7, <1>8, <1>9, <1>10, WorkQuiet DEF Typed

LEMMA FailsInv ==
  ASSUME Typed, Core, NEW c \in Clients, Fails(c)
  PROVE  IInv'
<1>1. /\ End(c) /\ Fault
      /\ UNCHANGED <<repos, typed, git, likes, colls, downloads, lastID, load, calls,
                     answered, condemned, gone, overlap>>
  BY DEF Fails, tables, history, Only
<1>2. Moved(c) /\ req'[c] \in ReqState(lastID')
  BY <1>1, MoveTyped
<1>3. repos' \subseteq RepoRow(lastID') /\ \A r, q \in repos' : r.slot = q.slot => r = q
  BY <1>1, FewerRows
<1>4. Typed'
  BY <1>1, <1>2, <1>3, TypedFrame DEF Typed, Fault
<1>5. Core'
  BY <1>1, EndQuiet DEF history
<1> QED BY <1>4, <1>5 DEF IInv

----------------------------------------------------------------------------
(* The theorems. *)

LEMMA StepInv ==
  ASSUME IInv, NEW c \in Clients, Request(c) \/ Work(c) \/ Fails(c)
  PROVE  IInv'
<1>1. Typed /\ Core
  BY DEF IInv
<1>2. load.slots \subseteq Slots /\ \A kind : SlotsOf(kind) \subseteq Slots
  BY <1>1, ReposAssumption DEF Typed, SlotsOf
<1>3. ASSUME NEW s \in Slots, NEW files \in SUBSET Files, files # {}, Create(c, s, files)
      PROVE  IInv'
  BY <1>1, <1>3, CreateInv, BeginTyped DEF IInv
<1>4. ASSUME NEW s \in Slots, Delete(c, s)
      PROVE  IInv'
  BY <1>1, <1>4, DeleteInv, BeginTyped DEF IInv
<1>5. ASSUME NEW s \in Slots, Update(c, s)
      PROVE  IInv'
  BY <1>1, <1>5, UpdateInv
<1>6. /\ FirstFiles \in SUBSET Files /\ FirstFiles # {}
      /\ \A more \in {{}, {"config.toml"}} :
           FirstFiles \cup more \in SUBSET Files /\ FirstFiles \cup more # {}
  BY DEF FirstFiles, Files
<1>7. CASE Request(c)
  <2>1. CASE CreateModel(c) \/ CreateDataset(c) \/ CreateCode(c) \/ CreatePrompt(c) \/ CreateSpace(c)
    BY <1>2, <1>3, <1>6, <2>1
    DEF CreateModel, CreateDataset, CreateCode, CreatePrompt, CreateSpace
  <2>2. CASE DeleteModel(c) \/ DeleteDataset(c) \/ DeleteCode(c) \/ DeletePrompt(c) \/ DeleteSpace(c)
    BY <1>2, <1>4, <2>2
    DEF DeleteModel, DeleteDataset, DeleteCode, DeletePrompt, DeleteSpace
  <2>3. CASE UpdateModel(c) \/ UpdateDataset(c) \/ UpdateCode(c) \/ UpdatePrompt(c) \/ UpdateSpace(c)
    BY <1>2, <1>5, <2>3
    DEF UpdateModel, UpdateDataset, UpdateCode, UpdatePrompt, UpdateSpace
  <2>4. CASE IncrDownloads(c) \/ UpdateDownloads(c)
    BY <1>1, <2>4, DownloadInv
  <2>5. CASE AddLikes(c) \/ LikeCollection(c) \/ Unlike(c)
    BY <1>1, <2>5, LikeInv
  <2>6. CASE CreateCollection(c) \/ UpdateCollection(c) \/ DeleteCollection(c)
    BY <1>1, <2>6, CollectionInv
  <2> QED BY <1>7, <2>1, <2>2, <2>3, <2>4, <2>5, <2>6 DEF Request
<1>8. CASE Work(c)
  <2>1. CASE CreateTree(c)
    BY <1>1, <2>1, CreateTreeInv, MakeTyped DEF IInv
  <2>2. CASE InsertRow(c)
    BY <1>1, <2>2, InsertRowInv, MakeTyped DEF IInv
  <2>3. CASE InsertTyped(c)
    BY <1>1, <2>3, InsertTypedInv, MakeTyped DEF IInv
  <2>4. CASE CreateRepoFile(c)
    BY <1>1, <2>4, CreateRepoFileInv, MakeTyped DEF IInv
  <2>5. CASE DeleteRepo(c)
    BY <1>1, <2>5, DeleteRepoInv, UnmakeTyped DEF IInv
  <2>6. CASE CleanRelationsByRepoID(c)
    BY <1>1, <2>6, CleanInv, UnmakeTyped DEF IInv
  <2>7. CASE RemoveTree(c)
    BY <1>1, <2>7, RemoveTreeInv, UnmakeTyped DEF IInv
  <2>8. CASE DeleteRow(c)
    BY <1>1, <2>8, DeleteRowInv, UnmakeTyped DEF IInv
  <2>9. CASE DeleteTyped(c)
    BY <1>1, <2>9, DeleteTypedInv, UnmakeTyped DEF IInv
  <2>10. CASE SaveRow(c)
    BY <1>1, <2>10, SaveRowInv
  <2>11. CASE ReadDay(c) \/ WriteDay(c) \/ SumDownloads(c)
    BY <1>1, <2>11, DayInv
  <2>12. CASE Add(c) \/ DeleteLike(c) \/ CountDown(c) \/ SaveCollection(c)
    BY <1>1, <2>12, LikeWorkInv
  <2> QED BY <1>8, <2>1, <2>2, <2>3, <2>4, <2>5, <2>6, <2>7, <2>8, <2>9, <2>10, <2>11, <2>12 DEF Work
<1>9. CASE Fails(c)
  BY <1>1, <1>9, FailsInv
<1> QED BY <1>7, <1>8, <1>9

LEMMA StutterInv == IInv /\ UNCHANGED vars => IInv'
<1> SUFFICES ASSUME IInv, UNCHANGED vars
             PROVE  IInv'
  OBVIOUS
<1>1. /\ UNCHANGED <<repos, typed, git, likes, colls, downloads, lastID, req, load, calls, faults>>
      /\ UNCHANGED <<answered, condemned, gone, overlap>>
  BY DEF vars, tables, history
<1>2. Keys' = Keys
  BY <1>1 DEF Keys
<1>3. Typed' /\ IdsInv' /\ AloneInv' /\ Stays'
  BY <1>1, <1>2 DEF IInv, Core, Typed, IdsInv, AloneInv, Stays
<1>4. PlacedInv' /\ MadeInv'
  BY <1>1, <1>2 DEF IInv, Core, PlacedInv, Placed, OfSlot, NoRow, MadeInv, Made, Met
<1>5. AgreeInv'
  BY <1>1, <1>2 DEF IInv, Core, AgreeInv, Doing
<1> QED BY <1>3, <1>4, <1>5 DEF IInv, Core

LEMMA Invariant == Spec => []IInv
<1>1. IInv /\ [Next]_vars => IInv'
  BY StepInv, StutterInv DEF Next
<1> QED BY InitInv, <1>1, PTL DEF Spec

\* Every row, request and history stays of its type, and a path has one row.
THEOREM TypeCorrect == Spec => []Typed
<1>1. IInv => Typed
  BY DEF IInv
<1> QED BY <1>1, Invariant, PTL

\* What was reported as deleted does not come back (Repos!DeletedIsGone), although
\* an update, a report of downloads or a like of it may still write.
THEOREM DeletedStaysGone == Spec => []DeletedIsGone
<1>1. IInv => DeletedIsGone
  <2> SUFFICES ASSUME IInv
               PROVE  DeletedIsGone
    OBVIOUS
  <2>1. \A r \in repos : r.id \notin gone
    <3> SUFFICES ASSUME NEW r \in repos
                 PROVE  r.id \notin gone
      OBVIOUS
    <3>1. [id |-> r.id, slot |-> r.slot] \in Keys
      BY DEF Keys
    <3> QED BY <3>1 DEF IInv, Core, IdsInv
  <2> QED BY <2>1 DEF IInv, Core, IdsInv, DeletedIsGone
<1> QED BY <1>1, Invariant, PTL

\* A repository whose creation was reported keeps its row, the row of its kind and
\* its files until it is deleted (Repos!CreatedStays): neither the steps of others nor
\* failures take them, with the exception of paths whose deletion meets another
\* deletion or a creation.
THEOREM CreatedIsKept == Spec => []CreatedStays
<1>1. IInv => CreatedStays
  <2> SUFFICES ASSUME IInv, NEW a \in answered, a.id \notin condemned, a.slot \notin overlap
               PROVE  /\ \E r \in repos : r.id = a.id /\ r.slot = a.slot
                      /\ \E t \in typed : t.repo = a.id
                      /\ git[a.slot] # NoTree /\ a.files \subseteq git[a.slot]
    BY DEF CreatedStays
  <2>1. /\ [id |-> a.id, slot |-> a.slot] \in Keys
        /\ \E t \in typed : t.repo = a.id
        /\ git[a.slot] # NoTree /\ a.files \subseteq git[a.slot]
    BY DEF IInv, Core, Stays
  <2>2. \E r \in repos : r.id = a.id /\ r.slot = a.slot
    BY <2>1 DEF Keys
  <2> QED BY <2>1, <2>2
<1> QED BY <1>1, Invariant, PTL

\* When all requests are done and none failed, rows, rows of kinds and trees agree
\* (Repos!RowsAgree), so that every path can be used again or is in use.
THEOREM TablesAgree == Spec => []RowsAgree
<1>1. IInv => RowsAgree
  <2> SUFFICES ASSUME IInv, faults = 0, \A c \in Clients : req[c] = Idle,
                      NEW s \in Slots \ overlap
               PROVE  /\ Find(s) # {} <=> git[s] # NoTree
                      /\ \A r \in Find(s) : \E t \in typed : t.repo = r.id
                      /\ overlap = {} => \A t \in typed : \E r \in repos : r.id = t.repo
    BY DEF RowsAgree
  <2>1. \A c \in Clients : req[c].pc = "idle"
    BY DEF Idle
  <2>2. \A pc \in {"insert", "kind", "delete"} : \A x : ~Doing(pc, x)
    BY <2>1 DEF Doing
  <2>3. /\ \A k \in Keys : k.slot = s => git[s] # NoTree /\ \E t \in typed : t.repo = k.id
        /\ git[s] # NoTree => \E k \in Keys : k.slot = s
        /\ overlap = {} => \A t \in typed : \E k \in Keys : k.id = t.repo
    BY <2>1, <2>2 DEF IInv, Core, AgreeInv
  <2>4. \A r \in Find(s) : \E t \in typed : t.repo = r.id
    <3> SUFFICES ASSUME NEW r \in Find(s)
                 PROVE  \E t \in typed : t.repo = r.id
      OBVIOUS
    <3>1. [id |-> r.id, slot |-> s] \in Keys
      BY FindByKey
    <3> QED BY <2>3, <3>1
  <2>5. \A k \in Keys : \E r \in repos : r.id = k.id
    BY DEF Keys
  <2> QED BY <2>3, <2>4, <2>5, FindByKey
<1> QED BY <1>1, Invariant, PTL


----------------------------------------------------------------------------
(* The counters of likes.                                                    *)

Writers == {"update", "click", "clone", "edit"}
Undisturbed == faults = 0 /\ overlap = {} /\ load.ops \cap Writers = {}
Erasing == {"clean", "remove", "delete"}

\* Whole rows are written by requests of some loads only.
OpsInv == \A c \in Clients : req[c].pc \in Holding \cup {"edit"} => load.ops \cap Writers # {}

\* Every like, there or about to be counted, took a call: no counter reaches Null.
Pending == {c \in Clients : req[c].pc \in {"like", "countdown"}}
BoundInv ==
  /\ IsFiniteSet(likes) /\ IsFiniteSet(Pending)
  /\ Cardinality(likes) + Cardinality(Pending) <= calls /\ calls <= load.calls

\* A collection has an ID of its own, and is never meant by a deletion.
CollsInv ==
  \A k \in colls : NoRow(k.id) /\ \A c \in Clients : req[c].pc \in Erasing => req[c].id # k.id

\* LikesCounted, of any row.
LikesOf(i) == {l \in likes : l.of = i}
Leaving(i) == {c \in Clients : req[c].pc = "countdown" /\ req[c].id = i}
Erased(i) == \E c \in Clients : req[c].pc \in {"remove", "delete"} /\ req[c].id = i
Right(x) == Erased(x.id) \/ Coalesce(x.likes, 0) = Cardinality(LikesOf(x.id)) + Cardinality(Leaving(x.id))
CountInv == Undisturbed => \A x \in repos \cup colls : Right(x)

LikesInv == OpsInv /\ BoundInv /\ CollsInv /\ CountInv

LEMMA IdlePc == Idle.pc = "idle"
BY DEF Idle

\* What every step has in common: nothing is forgotten that makes a run disturbed.
LEMMA StepFrame ==
  ASSUME Typed, NEW c \in Clients, Request(c) \/ Work(c) \/ Fails(c)
  PROVE  /\ load' = load /\ overlap \subseteq overlap' /\ (faults' = faults \/ Fault)
         /\ \A d \in Clients : d # c => req'[d] = req[d]
         /\ Undisturbed' => Undisturbed /\ ~Fault
<1>1. ASSUME Request(c)
      PROVE  load' = load /\ overlap \subseteq overlap' /\ faults' = faults
  BY <1>1 DEF Request, CreateModel, CreateDataset, CreateCode, CreatePrompt, CreateSpace, Create,
     DeleteModel, DeleteDataset, DeleteCode, DeletePrompt, DeleteSpace, Delete, Meet,
     UpdateModel, UpdateDataset, UpdateCode, UpdatePrompt, UpdateSpace, Update,
     IncrDownloads, UpdateDownloads, AddLikes, LikeCollection, Unlike, OnlyReq,
     CreateCollection, UpdateCollection, DeleteCollection, history, NoFault
<1>2. ASSUME Work(c) \/ Fails(c)
      PROVE  load' = load /\ overlap \subseteq overlap' /\ (faults' = faults \/ Fault)
  BY <1>2 DEF Work, Fails, CreateTree, InsertRow, InsertTyped, CreateRepoFile, DeleteRepo,
     CleanRelationsByRepoID, RemoveTree, DeleteRow, DeleteTyped, SaveRow, ReadDay, WriteDay,
     SumDownloads, Add, DeleteLike, CountDown, SaveCollection, OnlyReq, Only, history, NoFault
<1>3. \E r : req' = [req EXCEPT ![c] = r]
  <2>1. CASE Request(c)
    BY <2>1 DEF Request, CreateModel, CreateDataset, CreateCode, CreatePrompt, CreateSpace, Create,
     DeleteModel, DeleteDataset, DeleteCode, DeletePrompt, DeleteSpace, Delete,
     UpdateModel, UpdateDataset, UpdateCode, UpdatePrompt, UpdateSpace, Update,
     IncrDownloads, UpdateDownloads, AddLikes, LikeCollection, Unlike,
     CreateCollection, UpdateCollection, DeleteCollection, Start
  <2>2. ASSUME NEW r, Then(c, r) PROVE \E q : req' = [req EXCEPT ![c] = q]
    BY <2>2 DEF Then
  <2>3. ASSUME NEW pc, Goto(c, pc) PROVE \E q : req' = [req EXCEPT ![c] = q]
    BY <2>3 DEF Goto
  <2>4. CASE Work(c) \/ Fails(c)
    BY <2>2, <2>3, <2>4 DEF Work, Fails, CreateTree, InsertRow, InsertTyped, CreateRepoFile, DeleteRepo,
     CleanRelationsByRepoID, RemoveTree, DeleteRow, DeleteTyped, SaveRow, ReadDay, WriteDay,
     SumDownloads, Add, DeleteLike, CountDown, SaveCollection, End
  <2> QED BY <2>1, <2>4
<1>4. \A d \in Clients : d # c => req'[d] = req[d]
  BY <1>3 DEF Typed
<1>5. Undisturbed' => Undisturbed /\ ~Fault
  BY <1>1, <1>2 DEF Typed, Undisturbed, Fault
<1> QED BY <1>1, <1>2, <1>4, <1>5

\* Who may write whole rows, and which IDs are of collections.
LEMMA OthersKept ==
  ASSUME Typed, OpsInv, CollsInv, NEW c \in Clients, load' = load,
         \A d \in Clients : d # c => req'[d] = req[d],
         req'[c].pc \in Holding \cup {"edit"} =>
           req[c].pc \in Holding \cup {"edit"} \/ load.ops \cap Writers # {},
         \A k \in colls' : (\E j \in colls : j.id = k.id) \/ k.id > lastID,
         \A k \in Keys' : k \in Keys \/ k.id > lastID,
         Keys' \subseteq Keys \/ \A k \in colls' : \E j \in colls : j.id = k.id,
         req'[c].pc \in Erasing =>
           \/ req[c].pc \in Erasing /\ req'[c].id = req[c].id
           \/ \E k \in Keys : k.id = req'[c].id
  PROVE  OpsInv' /\ CollsInv'
<1>1. OpsInv'
  BY DEF OpsInv
<1>2. lastID \in Nat
  BY ReposAssumption DEF Typed
<1>3. \A k \in Keys : k.id \in 1..lastID
  BY KeysTyped DEF Key
<1>4. \A j \in colls : j.id \in 1..lastID
  BY DEF Typed, CollRow
<1>5. \A d \in Clients : req[d].pc \in Erasing => req[d].id \in 0..lastID
  BY <1>2, ReqFields DEF Typed, Erasing, Deleting
<1>6. ASSUME NEW k \in colls' PROVE NoRow(k.id)'
  <2>1. CASE \E j \in colls : j.id = k.id
    BY <1>2, <1>4, <2>1 DEF CollsInv, NoRow
  <2>2. CASE k.id > lastID /\ Keys' \subseteq Keys
    BY <1>2, <1>3, <2>2 DEF NoRow
  <2> QED BY <2>1, <2>2
<1>7. ASSUME NEW k \in colls', NEW d \in Clients, req'[d].pc \in Erasing PROVE req'[d].id # k.id
  <2>1. \/ req[d].pc \in Erasing /\ req'[d].id = req[d].id
        \/ \E l \in Keys : l.id = req'[d].id
    BY <1>7
  <2>2. CASE \E j \in colls : j.id = k.id
    BY <2>1, <2>2 DEF CollsInv, NoRow
  <2>3. CASE k.id > lastID
    BY <1>2, <1>3, <1>5, <2>1, <2>3
  <2> QED BY <2>2, <2>3
<1> QED BY <1>1, <1>6, <1>7 DEF CollsInv

\* A step that adds no like, and no pending one without a call.
LEMMA BoundKept ==
  ASSUME Typed, BoundInv, NEW c \in Clients, load' = load, likes' \subseteq likes,
         \A d \in Clients : d # c => req'[d] = req[d],
         \/ calls' = calls + 1 /\ calls' <= load.calls
         \/ calls' = calls /\ (req'[c].pc \in {"like", "countdown"} => req[c].pc \in {"like", "countdown"})
  PROVE  BoundInv'
<1>1. load.calls \in Nat /\ calls \in Nat
  BY ReposAssumption DEF Typed
<1>2. /\ IsFiniteSet(likes) /\ IsFiniteSet(Pending)
      /\ Cardinality(likes) + Cardinality(Pending) <= calls /\ calls <= load.calls
  BY DEF BoundInv
<1>3. Cardinality(likes) \in Nat /\ Cardinality(Pending) \in Nat
  BY <1>2, FS_CardinalityType
<1>4. IsFiniteSet(likes') /\ Cardinality(likes') <= Cardinality(likes) /\ Cardinality(likes') \in Nat
  BY <1>2, FS_Subset, FS_CardinalityType
<1>5. CASE calls' = calls + 1 /\ calls' <= load.calls
  <2>1. Pending' \subseteq Pending \cup {c}
    BY DEF Pending
  <2>2. IsFiniteSet(Pending \cup {c}) /\ Cardinality(Pending \cup {c}) <= Cardinality(Pending) + 1
    <3>1. /\ IsFiniteSet(Pending \cup {c})
          /\ Cardinality(Pending \cup {c}) = IF c \in Pending THEN Cardinality(Pending) ELSE Cardinality(Pending) + 1
      BY <1>2, FS_AddElement
    <3> QED BY <1>3, <3>1
  <2>3. IsFiniteSet(Pending') /\ Cardinality(Pending') <= Cardinality(Pending \cup {c})
        /\ Cardinality(Pending') \in Nat /\ Cardinality(Pending \cup {c}) \in Nat
    BY <2>1, <2>2, FS_Subset, FS_CardinalityType
  <2>4. Cardinality(likes') + Cardinality(Pending') <= calls'
    BY <1>1, <1>2, <1>3, <1>4, <1>5, <2>2, <2>3
  <2> QED BY <1>4, <1>5, <2>3, <2>4 DEF BoundInv
<1>6. CASE calls' = calls /\ (req'[c].pc \in {"like", "countdown"} => req[c].pc \in {"like", "countdown"})
  <2>1. Pending' \subseteq Pending
    BY <1>6 DEF Pending
  <2>2. IsFiniteSet(Pending') /\ Cardinality(Pending') <= Cardinality(Pending) /\ Cardinality(Pending') \in Nat
    BY <1>2, <2>1, FS_Subset, FS_CardinalityType
  <2>3. Cardinality(likes') + Cardinality(Pending') <= calls'
    BY <1>1, <1>2, <1>3, <1>4, <1>6, <2>2
  <2> QED BY <1>2, <1>4, <1>6, <2>2, <2>3 DEF BoundInv
<1> QED BY <1>5, <1>6

\* Rows that a like can be of keep their likes and their counter; new ones have none.
LEMMA CountKept ==
  ASSUME Typed, CountInv, NEW c \in Clients, likes' = likes, Undisturbed' => Undisturbed,
         \A d \in Clients : d # c => req'[d] = req[d],
         req[c].pc # "countdown", req'[c].pc # "countdown",
         \A x \in repos' \cup colls' : x \in repos \cup colls \/ (x.id > lastID /\ x.likes = Null),
         \A x \in repos' \cup colls' : req[c].pc \in {"remove", "delete"} /\ req[c].id = x.id =>
            req'[c].pc \in {"remove", "delete"} /\ req'[c].id = x.id
  PROVE  CountInv'
<1> SUFFICES ASSUME Undisturbed', NEW x \in repos' \cup colls'
             PROVE  Right(x)'
  BY DEF CountInv
<1>1. LikesOf(x.id)' = LikesOf(x.id) /\ Leaving(x.id)' = Leaving(x.id)
  BY DEF LikesOf, Leaving
<1>2. Erased(x.id) => Erased(x.id)'
  BY DEF Erased
<1>3. CASE x \in repos \cup colls
  BY <1>1, <1>2, <1>3 DEF CountInv, Right
<1>4. CASE x.id > lastID /\ x.likes = Null
  <2>1. lastID \in Nat /\ \A l \in likes : l.of \in 1..lastID
    BY ReposAssumption DEF Typed
  <2>2. ASSUME NEW d \in Clients, req[d].pc = "countdown" PROVE req[d].id \in 1..lastID
    <3>1. req[d] \in LikeReq(lastID)
      BY <2>1, <2>2, ReqShapes DEF Typed
    <3> QED BY <3>1 DEF LikeReq
  <2>3. LikesOf(x.id) = {} /\ Leaving(x.id) = {}
    BY <1>4, <2>1, <2>2 DEF LikesOf, Leaving
  <2>4. Cardinality({}) = 0
    BY FS_EmptySet
  <2>5. Coalesce(x.likes, 0) = 0
    BY <1>4 DEF Coalesce
  <2> QED BY <1>1, <2>3, <2>4, <2>5 DEF Right
<1> QED BY <1>3, <1>4

\* A new request.
LEMMA StartLikes ==
  ASSUME Typed, LikesInv, NEW c \in Clients, NEW op, NEW r, Start(c, op, r), load' = load,
         UNCHANGED <<repos, likes>>, Undisturbed' => Undisturbed,
         r.pc \in {"idle", "tree", "find", "save", "day", "like", "unlike", "edit"},
         r.pc \in Holding \cup {"edit"} => op \in Writers,
         \A k \in colls' : k \in colls \/ (k.id > lastID /\ k.likes = Null)
  PROVE  LikesInv'
<1>1. /\ req[c].pc = "idle" /\ req'[c] = r
      /\ \A d \in Clients : d # c => req'[d] = req[d]
  BY StartSets
<1>2. op \in load.ops /\ calls' = calls + 1 /\ calls' <= load.calls
  <2>1. load.calls \in Nat /\ calls \in Nat
    BY ReposAssumption DEF Typed
  <2> QED BY <2>1 DEF Start
<1>3. Keys' = Keys
  BY DEF Keys
<1>4. OpsInv' /\ CollsInv'
  <2>1. r.pc \notin Erasing
    BY DEF Erasing
  <2> QED BY <1>1, <1>2, <1>3, <2>1, OthersKept DEF LikesInv
<1>5. BoundInv'
  BY <1>1, <1>2, BoundKept DEF LikesInv
<1>6. CountInv'
  BY <1>1, CountKept DEF LikesInv
<1> QED BY <1>4, <1>5, <1>6 DEF LikesInv

LEMMA RequestLikes ==
  ASSUME Typed, LikesInv, NEW c \in Clients, Request(c)
  PROVE  LikesInv'
<1>f. load' = load /\ (Undisturbed' => Undisturbed)
  BY StepFrame
<1>1. ASSUME NEW s, NEW files, Create(c, s, files)
      PROVE  LikesInv'
  <2>1. PICK private \in BOOLEAN :
          Start(c, "create", [pc |-> "tree", op |-> "create", slot |-> s, private |-> private,
                              id |-> 0, files |-> files, todo |-> files])
    BY <1>1 DEF Create
  <2>2. UNCHANGED <<repos, likes, colls>>
    BY <1>1 DEF Create, tables
  <2> DEFINE r == [pc |-> "tree", op |-> "create", slot |-> s, private |-> private,
                   id |-> 0, files |-> files, todo |-> files]
  <2>3. r.pc = "tree"
    OBVIOUS
  <2> HIDE DEF r
  <2> QED BY <1>f, <2>1, <2>2, <2>3, StartLikes DEF Holding, r
<1>2. ASSUME NEW s, Delete(c, s)
      PROVE  LikesInv'
  <2>1. PICK u \in Users, t \in typed :
          Start(c, "delete", [pc |-> "find", op |-> "delete", slot |-> s, user |-> u,
                              id |-> 0, typed |-> t.id])
    BY <1>2 DEF Delete
  <2>2. UNCHANGED <<repos, likes, colls>>
    BY <1>2 DEF Delete, tables
  <2> DEFINE r == [pc |-> "find", op |-> "delete", slot |-> s, user |-> u, id |-> 0, typed |-> t.id]
  <2>3. r.pc = "find"
    OBVIOUS
  <2> HIDE DEF r
  <2> QED BY <1>f, <2>1, <2>2, <2>3, StartLikes DEF Holding, r
<1>3. ASSUME NEW op, NEW r, Start(c, op, r), OnlyReq,
             r.pc \in {"save", "day", "like", "unlike", "edit"},
             r.pc \in Holding \cup {"edit"} => op \in Writers
      PROVE  LikesInv'
  <2>1. UNCHANGED <<repos, likes, colls>>
    BY <1>3 DEF OnlyReq, tables
  <2> QED BY <1>f, <1>3, <2>1, StartLikes
<1>4. ASSUME NEW s, Update(c, s)
      PROVE  LikesInv'
  <2>1. PICK row : Start(c, "update", [pc |-> "save", op |-> "update", slot |-> s, row |-> row])
    BY <1>4 DEF Update
  <2> QED BY <1>3, <1>4, <2>1 DEF Update, Writers
<1>5. ASSUME IncrDownloads(c) \/ UpdateDownloads(c)
      PROVE  LikesInv'
  <2>1. PICK op \in {"click", "clone"}, s \in load.slots, row \in repos :
          Start(c, op, [pc |-> "day", op |-> op, slot |-> s, row |-> row, day |-> {}])
    BY <1>5 DEF IncrDownloads, UpdateDownloads, Find
  <2> QED BY <1>3, <1>5, <2>1 DEF IncrDownloads, UpdateDownloads, Writers
<1>6. ASSUME AddLikes(c) \/ LikeCollection(c) \/ Unlike(c)
      PROVE  LikesInv'
  <2>1. PICK op \in {"like", "unlike"} : \E s, u, id :
          Start(c, op, [pc |-> op, op |-> op, slot |-> s, user |-> u, id |-> id])
    BY <1>6 DEF AddLikes, LikeCollection, Unlike
  <2>2. PICK s, u, id : Start(c, op, [pc |-> op, op |-> op, slot |-> s, user |-> u, id |-> id])
    BY <2>1
  <2> QED BY <1>3, <1>6, <2>2 DEF AddLikes, LikeCollection, Unlike, Holding
<1>7. CASE UpdateCollection(c)
  <2>1. PICK row : Start(c, "edit", [pc |-> "edit", op |-> "edit", slot |-> "none", row |-> row])
    BY <1>7 DEF UpdateCollection
  <2> QED BY <1>3, <1>7, <2>1 DEF UpdateCollection, Writers
<1>8. CASE CreateCollection(c)
  <2>1. Start(c, "collect", Idle) /\ UNCHANGED <<repos, likes>> /\ lastID + 1 > lastID
    BY <1>8, ReposAssumption DEF CreateCollection, Typed
  <2>2. PICK u, private :
          colls' = colls \cup {[id |-> lastID + 1, user |-> u, private |-> private, likes |-> Null]}
    BY <1>8 DEF CreateCollection
  <2>3. \A k \in colls' : k \in colls \/ (k.id > lastID /\ k.likes = Null)
    BY <2>1, <2>2
  <2> QED BY <1>f, <2>1, <2>3, IdlePc, StartLikes DEF Holding
<1>9. CASE DeleteCollection(c)
  <2>1. Start(c, "uncollect", Idle) /\ UNCHANGED <<repos, likes>> /\ colls' \subseteq colls
    BY <1>9 DEF DeleteCollection
  <2> QED BY <1>f, <2>1, IdlePc, StartLikes DEF Holding
<1>10. ASSUME CreateModel(c) \/ CreateDataset(c) \/ CreateCode(c) \/ CreatePrompt(c) \/ CreateSpace(c)
       PROVE  LikesInv'
  BY <1>1, <1>10 DEF CreateModel, CreateDataset, CreateCode, CreatePrompt, CreateSpace
<1>11. ASSUME DeleteModel(c) \/ DeleteDataset(c) \/ DeleteCode(c) \/ DeletePrompt(c) \/ DeleteSpace(c)
       PROVE  LikesInv'
  BY <1>2, <1>11 DEF DeleteModel, DeleteDataset, DeleteCode, DeletePrompt, DeleteSpace
<1>12. ASSUME UpdateModel(c) \/ UpdateDataset(c) \/ UpdateCode(c) \/ UpdatePrompt(c) \/ UpdateSpace(c)
       PROVE  LikesInv'
  BY <1>4, <1>12 DEF UpdateModel, UpdateDataset, UpdateCode, UpdatePrompt, UpdateSpace
<1> QED BY <1>5, <1>6, <1>7, <1>8, <1>9, <1>10, <1>11, <1>12 DEF Request

\* A step of a request that goes on, but for the counters.
LEMMA RestKept ==
  ASSUME Typed, LikesInv, NEW c \in Clients, load' = load, calls' = calls, likes' \subseteq likes,
         \A d \in Clients : d # c => req'[d] = req[d],
         req'[c].pc \in {"like", "countdown"} => req[c].pc \in {"like", "countdown"},
         req'[c].pc \in Holding \cup {"edit"} => req[c].pc \in Holding \cup {"edit"},
         \A k \in colls' : \E j \in colls : j.id = k.id,
         \A k \in Keys' : k \in Keys \/ k.id > lastID,
         req'[c].pc \in Erasing =>
           \/ req[c].pc \in Erasing /\ req'[c].id = req[c].id
           \/ \E k \in Keys : k.id = req'[c].id,
         CountInv'
  PROVE  LikesInv'
<1>1. OpsInv' /\ CollsInv'
  BY OthersKept DEF LikesInv
<1>2. BoundInv'
  BY BoundKept DEF LikesInv
<1> QED BY <1>1, <1>2 DEF LikesInv

LEMMA MakeLikes ==
  ASSUME Typed, LikesInv, NEW c \in Clients,
         CreateTree(c) \/ InsertRow(c) \/ InsertTyped(c) \/ CreateRepoFile(c)
  PROVE  LikesInv'
<1>f. /\ load' = load /\ (Undisturbed' => Undisturbed)
      /\ \A d \in Clients : d # c => req'[d] = req[d]
  BY StepFrame DEF Work
<1>1. /\ req[c].pc \in Making
      /\ UNCHANGED <<likes, colls, calls>>
  BY DEF CreateTree, InsertRow, InsertTyped, CreateRepoFile, At, tables, Only, Making
<1>n. req[c] \in CreateReq(lastID) /\ lastID \in Nat /\ req \in [Clients -> ReqState(lastID)]
  BY <1>1, ReqShapes, ReposAssumption DEF Typed
<1>2. req'[c].pc \in Making \cup {"idle"}
  <2>1. ASSUME End(c) PROVE req'[c].pc \in Making \cup {"idle"}
    BY <2>1, EndSets
  <2>2. ASSUME NEW pc \in Making, Goto(c, pc) PROVE req'[c].pc \in Making \cup {"idle"}
    BY <1>1, <2>2, GotoSets
  <2>3. CASE InsertRow(c)
    <3>1. ASSUME Then(c, [req[c] EXCEPT !.pc = "kind", !.id = lastID + 1])
          PROVE  req'[c].pc \in Making
      <4>1. req'[c] = [req[c] EXCEPT !.pc = "kind", !.id = lastID + 1]
        BY <3>1, ThenSets
      <4> QED BY <1>n, <4>1 DEF CreateReq, Making
    <3> QED BY <2>1, <2>3, <3>1 DEF InsertRow
  <2>4. CASE CreateRepoFile(c)
    <3>1. ASSUME NEW rest, Then(c, [req[c] EXCEPT !.todo = rest])
          PROVE  req'[c].pc \in Making
      <4>1. req'[c] = [req[c] EXCEPT !.todo = rest]
        BY <3>1, ThenSets
      <4> QED BY <1>1, <1>n, <4>1 DEF CreateReq
    <3> QED BY <2>1, <2>4, <3>1 DEF CreateRepoFile
  <2>5. "insert" \in Making /\ "file" \in Making
    BY DEF Making
  <2> QED BY <2>1, <2>2, <2>3, <2>4, <2>5 DEF CreateTree, InsertRow, InsertTyped, CreateRepoFile
<1>3. \A x \in repos' : x \in repos \/ (x.id > lastID /\ x.likes = Null)
  <2>1. CASE InsertRow(c)
    <3> DEFINE row == Row(lastID + 1, req[c].slot, req[c].private)
    <3>1. row.id = lastID + 1 /\ row.likes = Null
      BY DEF Row
    <3>2. repos' \subseteq repos \cup {row}
      BY <2>1 DEF InsertRow
    <3> HIDE DEF row
    <3> QED BY <1>n, <3>1, <3>2
  <2>2. CASE repos' = repos
    BY <2>2
  <2> QED BY <2>1, <2>2 DEF CreateTree, InsertTyped, CreateRepoFile, tables
<1>4. \A k \in Keys' : k \in Keys \/ k.id > lastID
  <2> SUFFICES ASSUME NEW k \in Keys'
               PROVE  k \in Keys \/ k.id > lastID
    OBVIOUS
  <2>1. PICK x \in repos' : k = [id |-> x.id, slot |-> x.slot]
    BY DEF Keys
  <2>2. k.id = x.id /\ (x \in repos => k \in Keys)
    BY <2>1 DEF Keys
  <2> QED BY <1>3, <2>2
<1>5. CountInv'
  BY <1>f, <1>1, <1>2, <1>3, CountKept DEF LikesInv, Making
<1> QED BY <1>f, <1>1, <1>2, <1>4, <1>5, RestKept DEF Making, Holding, Erasing

\* A deletion: once its likes are gone, a row goes too, unless something fails.
LEMMA UnmakeLikes ==
  ASSUME Typed, Core, LikesInv, NEW c \in Clients,
         DeleteRepo(c) \/ RemoveTree(c) \/ DeleteRow(c) \/ DeleteTyped(c)
  PROVE  LikesInv'
<1>f. /\ load' = load /\ (Undisturbed' => Undisturbed /\ ~Fault)
      /\ \A d \in Clients : d # c => req'[d] = req[d]
  BY StepFrame DEF Work
<1>1. /\ req[c].pc \in Deleting /\ repos' \subseteq repos
      /\ UNCHANGED <<likes, colls, calls>>
  BY DEF DeleteRepo, RemoveTree, DeleteRow, DeleteTyped, At, tables, Only, Deleting
<1>n. req[c] \in DeleteReq(lastID) /\ lastID \in Nat /\ req[c].slot \in Slots
  <2>1. req[c] \in DeleteReq(lastID) /\ lastID \in Nat
    BY <1>1, ReqShapes, ReposAssumption DEF Typed
  <2> QED BY <2>1 DEF DeleteReq
<1>2. Keys' \subseteq Keys
  BY <1>1 DEF Keys
<1>3. CASE DeleteRepo(c)
  <2>1. /\ req[c].pc = "find" /\ req'[c].pc \in {"clean", "idle"}
        /\ req'[c].pc = "clean" => \E k \in Keys : k.id = req'[c].id
    <3>1. ASSUME NEW r \in Find(req[c].slot), Then(c, [req[c] EXCEPT !.pc = "clean", !.id = r.id])
          PROVE  req'[c].pc = "clean" /\ \E k \in Keys : k.id = req'[c].id
      <4>1. req'[c] = [req[c] EXCEPT !.pc = "clean", !.id = r.id]
        BY <3>1, ThenSets
      <4>2. req'[c].pc = "clean" /\ req'[c].id = r.id
        BY <1>n, <4>1 DEF DeleteReq
      <4>3. [id |-> r.id, slot |-> req[c].slot] \in Keys
        BY FindByKey
      <4> QED BY <4>2, <4>3
    <3> QED BY <1>3, <3>1, EndSets DEF DeleteRepo, At
  <2>2. CountInv'
    BY <1>f, <1>1, <2>1, CountKept DEF LikesInv
  <2> QED BY <1>f, <1>1, <1>2, <2>1, <2>2, RestKept DEF Holding, Erasing
<1>4. CASE RemoveTree(c)
  <2>1. req[c].pc = "remove"
    BY <1>4 DEF RemoveTree, At
  <2>2. \/ req'[c].pc = "delete" /\ req'[c].id = req[c].id
        \/ req'[c].pc = "idle" /\ (Fault \/ git[req[c].slot] = NoTree)
    BY <1>1, <1>4, EndSets, GotoSets DEF RemoveTree
  <2>3. ASSUME Undisturbed PROVE git[req[c].slot] # NoTree
    <3>1. faults = 0 /\ req[c].slot \notin overlap
      BY <2>3 DEF Undisturbed
    <3>2. [id |-> req[c].id, slot |-> req[c].slot] \in Keys
      BY <2>1, <3>1 DEF Core, MadeInv, Met, Deleting
    <3>3. ~Doing("delete", req[c].slot)
      BY <2>1, <3>1 DEF Core, AloneInv, Doing, Deleting
    <3> HIDE DEF Doing
    <3> QED BY <3>1, <3>2, <3>3 DEF Core, AgreeInv
  <2>4. CountInv'
    <3>1. CASE Undisturbed'
      BY <1>f, <1>1, <2>1, <2>2, <2>3, <3>1, CountKept DEF LikesInv
    <3> QED BY <3>1 DEF CountInv
  <2> QED BY <1>f, <1>1, <1>2, <2>1, <2>2, <2>4, RestKept DEF Holding, Erasing
<1>5. CASE DeleteRow(c)
  <2>1. req[c].pc = "delete" /\ req'[c].pc = "untype" /\ repos' = repos \ ByID(req[c].id)
    BY <1>1, <1>5, GotoSets DEF DeleteRow, At
  <2>2. \A x \in repos' \cup colls' : x.id # req[c].id
    BY <1>1, <2>1 DEF ByID, LikesInv, CollsInv, Erasing
  <2>3. CountInv'
    BY <1>f, <1>1, <2>1, <2>2, CountKept DEF LikesInv
  <2> QED BY <1>f, <1>1, <1>2, <2>1, <2>3, RestKept DEF Holding, Erasing
<1>6. CASE DeleteTyped(c)
  <2>1. req[c].pc = "untype" /\ req'[c].pc = "idle"
    BY <1>6, EndSets DEF DeleteTyped, At
  <2>2. CountInv'
    BY <1>f, <1>1, <2>1, CountKept DEF LikesInv
  <2> QED BY <1>f, <1>1, <1>2, <2>1, <2>2, RestKept DEF Holding, Erasing
<1> QED BY <1>3, <1>4, <1>5, <1>6

LEMMA CleanLikes ==
  ASSUME Typed, LikesInv, NEW c \in Clients, CleanRelationsByRepoID(c)
  PROVE  LikesInv'
<1>f. /\ load' = load /\ (Undisturbed' => Undisturbed)
      /\ \A d \in Clients : d # c => req'[d] = req[d]
  BY StepFrame DEF Work
<1>1. /\ req[c].pc = "clean" /\ Goto(c, "remove") /\ likes' = {l \in likes : l.of # req[c].id}
      /\ UNCHANGED <<repos, colls, calls>>
  BY DEF CleanRelationsByRepoID, At, Only
<1>2. req'[c].pc = "remove" /\ req'[c].id = req[c].id
  BY <1>1, GotoSets DEF Deleting
<1>3. CountInv'
  <2> SUFFICES ASSUME Undisturbed', NEW x \in repos \cup colls
               PROVE  Right(x)'
    BY <1>1 DEF CountInv
  <2>1. CASE x.id = req[c].id
    BY <1>2, <2>1 DEF Right, Erased
  <2>2. CASE x.id # req[c].id
    <3>1. LikesOf(x.id)' = LikesOf(x.id) /\ Leaving(x.id)' = Leaving(x.id)
      BY <1>f, <1>1, <1>2, <2>2 DEF LikesOf, Leaving
    <3>2. Erased(x.id) => Erased(x.id)'
      BY <1>f, <1>1 DEF Erased
    <3> QED BY <1>f, <3>1, <3>2 DEF LikesInv, CountInv, Right
  <2> QED BY <2>1, <2>2
<1>4. Keys' = Keys
  BY <1>1 DEF Keys
<1> QED BY <1>f, <1>1, <1>2, <1>3, <1>4, RestKept DEF Holding, Erasing

\* Requests that hold a row or that fail: the run is disturbed, or no counter is touched.
LEMMA HoldLikes ==
  ASSUME Typed, Core, LikesInv, NEW c \in Clients,
         SaveRow(c) \/ ReadDay(c) \/ WriteDay(c) \/ SumDownloads(c) \/ SaveCollection(c) \/ Fails(c)
  PROVE  LikesInv'
<1>f. /\ load' = load /\ (Undisturbed' => Undisturbed /\ ~Fault)
      /\ \A d \in Clients : d # c => req'[d] = req[d]
  BY StepFrame DEF Work
<1>1. calls' = calls /\ likes' = likes
  BY DEF SaveRow, ReadDay, WriteDay, SumDownloads, SaveCollection, Fails, Only, OnlyReq, tables
<1>2. CountInv'
  <2>1. CASE Fails(c)
    BY <1>f, <2>1 DEF CountInv, Fails
  <2>2. CASE ~Fails(c)
    <3>1. req[c].pc \in Holding \cup {"edit"}
      BY <2>2 DEF SaveRow, ReadDay, WriteDay, SumDownloads, SaveCollection, At, Holding
    <3>2. ~Undisturbed
      BY <3>1 DEF LikesInv, OpsInv, Undisturbed
    <3> QED BY <1>f, <3>2 DEF CountInv
  <2> QED BY <2>1, <2>2
<1>3. /\ req'[c].pc \in Holding \cup {"idle"}
      /\ req'[c].pc \in Holding => req[c].pc \in Holding
  <2>1. CASE End(c)
    BY <2>1, EndSets DEF Holding
  <2>2. CASE ReadDay(c) \/ WriteDay(c) \/ SumDownloads(c)
    <3>1. req[c].pc \in {"day", "count", "sum"}
      BY <2>2 DEF ReadDay, WriteDay, SumDownloads, At
    <3>2. req[c] \in CountReq(lastID) /\ req \in [Clients -> ReqState(lastID)]
      BY <3>1, ReqShapes, ReposAssumption DEF Typed
    <3>3. CASE ReadDay(c)
      <4>1. PICK day : Then(c, [req[c] EXCEPT !.pc = "count", !.day = day])
        BY <3>3 DEF ReadDay
      <4>2. req'[c] = [req[c] EXCEPT !.pc = "count", !.day = day]
        BY <4>1, ThenSets
      <4>3. req'[c].pc = "count"
        BY <3>2, <4>2 DEF CountReq
      <4> QED BY <3>1, <4>3 DEF Holding
    <3>4. CASE WriteDay(c)
      <4>1. req'[c] = [req[c] EXCEPT !.pc = "sum"]
        BY <3>2, <3>4 DEF WriteDay, Goto
      <4>2. req'[c].pc = "sum"
        BY <3>2, <4>1 DEF CountReq
      <4> QED BY <3>1, <4>2 DEF Holding
    <3>5. CASE SumDownloads(c)
      <4>1. PICK n : Then(c, [req[c] EXCEPT !.pc = "save", !.row.downloads = n])
        BY <3>5 DEF SumDownloads
      <4>2. req'[c] = [req[c] EXCEPT !.pc = "save", !.row.downloads = n]
        BY <4>1, ThenSets
      <4>3. req'[c].pc = "save"
        BY <3>2, <4>2 DEF CountReq
      <4> QED BY <3>1, <4>3 DEF Holding
    <3> QED BY <2>2, <3>3, <3>4, <3>5
  <2> QED BY <2>1, <2>2 DEF SaveRow, SaveCollection, Fails
<1>4. Keys' = Keys
  <2>1. CASE SaveRow(c)
    <3>1. req[c].pc \in Holding /\ lastID' = lastID /\ UpdateRow(req[c].row)
      BY <2>1 DEF SaveRow, At, Holding
    <3>2. req[c].row \in RepoRow(lastID) /\ OfSlot(req[c].row.id, req[c].row.slot)
      BY <3>1, ReqFields, ReposAssumption DEF Typed, Core, PlacedInv, Placed
    <3> QED BY <3>1, <3>2, SavedRows DEF Core
  <2>2. CASE repos' = repos
    BY <2>2 DEF Keys
  <2> QED BY <2>1, <2>2 DEF ReadDay, WriteDay, SumDownloads, SaveCollection, Fails, OnlyReq, tables
<1>5. \A k \in colls' : \E j \in colls : j.id = k.id
  <2>1. CASE SaveCollection(c)
    <3>1. req[c] \in EditReq(lastID)
      BY <2>1, ReqShapes, ReposAssumption DEF Typed, SaveCollection, At
    <3> DEFINE row == [req[c].row EXCEPT !.likes = Written(Coalesce(@, 0))]
    <3>2. row.id = req[c].row.id
      BY <3>1 DEF EditReq, CollRow
    <3>3. colls' = {IF k.id = req[c].row.id THEN row ELSE k : k \in colls}
      BY <2>1 DEF SaveCollection
    <3> HIDE DEF row
    <3> QED BY <3>2, <3>3
  <2>2. CASE colls' = colls
    BY <2>2
  <2> QED BY <2>1, <2>2 DEF SaveRow, ReadDay, WriteDay, SumDownloads, Fails, OnlyReq, tables
<1> QED BY <1>f, <1>1, <1>2, <1>3, <1>4, <1>5, RestKept DEF Holding, Erasing

\* A row of a changed table, by the row that it was.
LEMMA BumpedFrom ==
  ASSUME Typed, NEW i, NEW n \in Int, NEW default \in Int,
         repos' = Bumped(repos, i, n, default), colls' = Bumped(colls, i, n, default)
  PROVE  /\ \A x \in repos' \cup colls' : \E r \in repos \cup colls :
              /\ x.id = r.id /\ r.likes \in Int
              /\ r.id # i => x = r
              /\ r.id = i => x.likes = Coalesce(r.likes, default) + n
         /\ \A k \in colls' : \E j \in colls : j.id = k.id
<1> DEFINE new(r) == IF r.id = i THEN [r EXCEPT !.likes = Coalesce(@, default) + n] ELSE r
<1>1. repos' = {new(r) : r \in repos} /\ colls' = {new(r) : r \in colls}
  BY DEF Bumped
<1>2. \A r \in repos \cup colls : /\ new(r).id = r.id /\ r.likes \in Int
                                  /\ r.id # i => new(r) = r
                                  /\ r.id = i => new(r).likes = Coalesce(r.likes, default) + n
  <2>1. ASSUME NEW r \in RepoRow(lastID) \cup CollRow(lastID)
        PROVE  /\ new(r).id = r.id /\ r.likes \in Int
               /\ r.id # i => new(r) = r
               /\ r.id = i => new(r).likes = Coalesce(r.likes, default) + n
    BY DEF RepoRow, CollRow
  <2> HIDE DEF new
  <2> QED BY <2>1 DEF Typed
<1> HIDE DEF new
<1> QED BY <1>1, <1>2

\* What is counted for a row is less than the calls made, and than Null.
LEMMA Sizes ==
  ASSUME Typed, BoundInv, NEW i
  PROVE  /\ IsFiniteSet(LikesOf(i)) /\ IsFiniteSet(Leaving(i))
         /\ Cardinality(LikesOf(i)) \in Nat /\ Cardinality(Leaving(i)) \in Nat
         /\ Cardinality(LikesOf(i)) + Cardinality(Leaving(i)) < Null
         /\ \A c \in Clients : req[c].pc = "like" =>
              Cardinality(LikesOf(i)) + Cardinality(Leaving(i)) + 1 < Null
<1>1. load.calls \in 0..999 /\ calls \in Nat
  BY ReposAssumption DEF Typed, Null
<1>2. /\ IsFiniteSet(likes) /\ IsFiniteSet(Pending)
      /\ Cardinality(likes) + Cardinality(Pending) <= calls /\ calls <= load.calls
  BY DEF BoundInv
<1>3. LikesOf(i) \in SUBSET likes /\ Leaving(i) \in SUBSET Pending
  BY DEF LikesOf, Leaving, Pending
<1>4. /\ IsFiniteSet(LikesOf(i)) /\ Cardinality(LikesOf(i)) <= Cardinality(likes)
      /\ IsFiniteSet(Leaving(i)) /\ Cardinality(Leaving(i)) <= Cardinality(Pending)
  BY <1>2, <1>3, FS_Subset
<1>5. /\ Cardinality(LikesOf(i)) \in Nat /\ Cardinality(Leaving(i)) \in Nat
      /\ Cardinality(likes) \in Nat /\ Cardinality(Pending) \in Nat
  BY <1>2, <1>4, FS_CardinalityType
<1>6. ASSUME NEW c \in Clients, req[c].pc = "like"
      PROVE  Cardinality(Leaving(i)) + 1 <= Cardinality(Pending)
  <2>1. c \in Pending /\ Leaving(i) \in SUBSET (Pending \ {c})
    BY <1>6 DEF Pending, Leaving
  <2>2. IsFiniteSet(Pending \ {c}) /\ Cardinality(Pending \ {c}) = Cardinality(Pending) - 1
    BY <1>2, <2>1, FS_RemoveElement
  <2>3. Cardinality(Leaving(i)) <= Cardinality(Pending \ {c})
    BY <2>1, <2>2, FS_Subset
  <2> QED BY <1>5, <2>2, <2>3
<1>7. Cardinality(LikesOf(i)) + Cardinality(Leaving(i)) < Null
  BY <1>1, <1>2, <1>4, <1>5 DEF Null
<1>8. \A c \in Clients : req[c].pc = "like" =>
        Cardinality(LikesOf(i)) + Cardinality(Leaving(i)) + 1 < Null
  BY <1>1, <1>2, <1>4, <1>5, <1>6 DEF Null
<1> QED BY <1>4, <1>5, <1>7, <1>8

LEMMA AddKept ==
  ASSUME Typed, LikesInv, NEW c \in Clients, Add(c)
  PROVE  LikesInv'
<1> DEFINE i == req[c].id
           l == [user |-> req[c].user, of |-> i]
<1>f. /\ load' = load /\ (Undisturbed' => Undisturbed)
      /\ \A d \in Clients : d # c => req'[d] = req[d]
  BY StepFrame DEF Work
<1>1. req[c].pc = "like" /\ calls' = calls /\ lastID' = lastID /\ req'[c].pc = "idle"
  BY EndSets DEF Add, At, Only
<1>2. CASE UNCHANGED <<likes, repos, colls>>
  <2>1. CountInv'
    BY <1>f, <1>1, <1>2, CountKept DEF LikesInv
  <2> QED BY <1>f, <1>1, <1>2, <2>1, RestKept DEF Holding, Erasing, Keys
<1>3. CASE /\ l \notin likes /\ likes' = likes \cup {l}
           /\ repos' = Bumped(repos, i, 1, 0) /\ colls' = Bumped(colls, i, 1, 0)
  <2>0. l.of = i
    OBVIOUS
  <2> HIDE DEF l, i
  <2>1. Keys' = Keys
    BY <1>1, <1>3, BumpedRows
  <2>2. OpsInv' /\ CollsInv'
    <3>1. \A k \in colls' : \E j \in colls : j.id = k.id
      BY <1>3, BumpedFrom
    <3> QED BY <1>f, <1>1, <2>1, <3>1, OthersKept DEF LikesInv, Holding, Erasing
  <2>3. BoundInv'
    <3>1. /\ IsFiniteSet(likes) /\ IsFiniteSet(Pending)
          /\ Cardinality(likes) + Cardinality(Pending) <= calls /\ calls <= load.calls
      BY DEF LikesInv, BoundInv
    <3>2. Pending' = Pending \ {c} /\ c \in Pending
      BY <1>f, <1>1 DEF Pending
    <3>3. /\ IsFiniteSet(likes') /\ Cardinality(likes') = Cardinality(likes) + 1
      BY <1>3, <3>1, FS_AddElement
    <3>4. IsFiniteSet(Pending \ {c}) /\ Cardinality(Pending \ {c}) = Cardinality(Pending) - 1
      BY <3>1, <3>2, FS_RemoveElement
    <3>5. Cardinality(likes) \in Nat /\ Cardinality(Pending) \in Nat /\ calls \in Nat
      BY <3>1, FS_CardinalityType DEF Typed
    <3>6. Cardinality(likes') + Cardinality(Pending \ {c}) <= calls
      BY <3>1, <3>3, <3>4, <3>5
    <3> QED BY <1>f, <1>1, <3>1, <3>2, <3>3, <3>4, <3>6 DEF BoundInv
  <2>4. CountInv'
    <3> SUFFICES ASSUME Undisturbed', NEW x \in repos' \cup colls'
                 PROVE  Right(x)'
      BY DEF CountInv
    <3>1. PICK r \in repos \cup colls :
            /\ x.id = r.id /\ r.likes \in Int
            /\ r.id # i => x = r
            /\ r.id = i => x.likes = Coalesce(r.likes, 0) + 1
      BY <1>3, BumpedFrom
    <3>2. Right(r)
      BY <1>f DEF LikesInv, CountInv
    <3>3. (Erased(r.id) => Erased(r.id)') /\ Leaving(r.id)' = Leaving(r.id)
      BY <1>f, <1>1 DEF Erased, Leaving
    <3>4. CASE r.id # i
      <4>1. LikesOf(r.id)' = LikesOf(r.id)
        BY <1>3, <2>0, <3>4 DEF LikesOf
      <4> QED BY <3>1, <3>2, <3>3, <3>4, <4>1 DEF Right
    <3>5. CASE r.id = i /\ ~Erased(r.id)
      <4> DEFINE n == Cardinality(LikesOf(r.id))
                 m == Cardinality(Leaving(r.id))
      <4>1. IsFiniteSet(LikesOf(r.id)) /\ n \in Nat /\ m \in Nat /\ n + m + 1 < Null
        BY <1>1, Sizes DEF LikesInv
      <4>2. LikesOf(r.id)' = LikesOf(r.id) \cup {l} /\ l \notin LikesOf(r.id)
        BY <1>3, <2>0, <3>5 DEF LikesOf
      <4>3. Cardinality(LikesOf(r.id) \cup {l}) = n + 1
        BY <4>1, <4>2, FS_AddElement
      <4>4. Coalesce(r.likes, 0) = n + m
        BY <3>2, <3>5 DEF Right
      <4> HIDE DEF n, m
      <4>5. Coalesce(x.likes, 0) = n + 1 + m
        BY <3>1, <3>5, <4>1, <4>4 DEF Coalesce, Null
      <4> QED BY <3>1, <3>3, <4>2, <4>3, <4>5 DEF Right, m
    <3> QED BY <3>1, <3>3, <3>4, <3>5 DEF Right
  <2> QED BY <2>2, <2>3, <2>4 DEF LikesInv
<1> QED BY <1>2, <1>3 DEF Add

LEMMA DeleteLikeKept ==
  ASSUME Typed, LikesInv, NEW c \in Clients, DeleteLike(c)
  PROVE  LikesInv'
<1> DEFINE i == req[c].id
           l == [user |-> req[c].user, of |-> i]
<1>f. /\ load' = load /\ (Undisturbed' => Undisturbed)
      /\ \A d \in Clients : d # c => req'[d] = req[d]
  BY StepFrame DEF Work
<1>1. req[c].pc = "unlike" /\ likes' = likes \ {l} /\ UNCHANGED <<repos, colls, calls>>
  BY DEF DeleteLike, At, Only
<1>k. Keys' = Keys
  BY <1>1 DEF Keys
<1>2. CASE l \notin likes
  <2>1. req'[c].pc = "idle" /\ likes' = likes
    BY <1>1, <1>2, EndSets DEF DeleteLike
  <2>2. CountInv'
    BY <1>f, <1>1, <2>1, CountKept DEF LikesInv
  <2> QED BY <1>f, <1>1, <1>k, <2>1, <2>2, RestKept DEF Holding, Erasing
<1>3. CASE l \in likes
  <2>0. l.of = i
    OBVIOUS
  <2>1. req'[c].pc = "countdown" /\ req'[c].id = i
    <3>1. req[c] \in LikeReq(lastID) /\ Goto(c, "countdown")
      BY <1>1, <1>3, ReqShapes, ReposAssumption DEF Typed, DeleteLike
    <3>2. req'[c] = [req[c] EXCEPT !.pc = "countdown"]
      BY <3>1, GotoMoves
    <3> QED BY <3>1, <3>2 DEF LikeReq
  <2> HIDE DEF l, i
  <2>2. OpsInv' /\ CollsInv'
    BY <1>f, <1>1, <1>k, <2>1, OthersKept DEF LikesInv, Holding, Erasing
  <2>3. BoundInv'
    <3>1. /\ IsFiniteSet(likes) /\ IsFiniteSet(Pending)
          /\ Cardinality(likes) + Cardinality(Pending) <= calls /\ calls <= load.calls
      BY DEF LikesInv, BoundInv
    <3>2. Pending' = Pending \cup {c} /\ c \notin Pending
      BY <1>f, <1>1, <2>1 DEF Pending
    <3>3. /\ IsFiniteSet(likes') /\ Cardinality(likes') = Cardinality(likes) - 1
      BY <1>1, <1>3, <3>1, FS_RemoveElement
    <3>4. IsFiniteSet(Pending \cup {c}) /\ Cardinality(Pending \cup {c}) = Cardinality(Pending) + 1
      BY <3>1, <3>2, FS_AddElement
    <3>5. Cardinality(likes) \in Nat /\ Cardinality(Pending) \in Nat /\ calls \in Nat
      BY <3>1, FS_CardinalityType DEF Typed
    <3>6. Cardinality(likes') + Cardinality(Pending \cup {c}) <= calls
      BY <3>1, <3>3, <3>4, <3>5
    <3> QED BY <1>f, <1>1, <3>1, <3>2, <3>3, <3>4, <3>6 DEF BoundInv
  <2>4. CountInv'
    <3> SUFFICES ASSUME Undisturbed', NEW x \in repos \cup colls
                 PROVE  Right(x)'
      BY <1>1 DEF CountInv
    <3>2. Right(x)
      BY <1>f DEF LikesInv, CountInv
    <3>3. Erased(x.id) => Erased(x.id)'
      BY <1>f, <1>1 DEF Erased
    <3>4. CASE x.id # i
      <4>1. LikesOf(x.id)' = LikesOf(x.id) /\ Leaving(x.id)' = Leaving(x.id)
        BY <1>f, <1>1, <2>0, <2>1, <3>4 DEF LikesOf, Leaving
      <4> QED BY <3>2, <3>3, <4>1 DEF Right
    <3>5. CASE x.id = i
      <4> DEFINE n == Cardinality(LikesOf(x.id))
                 m == Cardinality(Leaving(x.id))
      <4>1. IsFiniteSet(LikesOf(x.id)) /\ IsFiniteSet(Leaving(x.id)) /\ n \in Nat /\ m \in Nat
        BY Sizes DEF LikesInv
      <4>2. /\ LikesOf(x.id)' = LikesOf(x.id) \ {l} /\ l \in LikesOf(x.id)
            /\ Leaving(x.id)' = Leaving(x.id) \cup {c} /\ c \notin Leaving(x.id)
        BY <1>f, <1>1, <1>3, <2>0, <2>1, <3>5 DEF LikesOf, Leaving
      <4>3. Cardinality(LikesOf(x.id) \ {l}) = n - 1 /\ Cardinality(Leaving(x.id) \cup {c}) = m + 1
        BY <4>1, <4>2, FS_AddElement, FS_RemoveElement
      <4> HIDE DEF n, m
      <4>4. (n - 1) + (m + 1) = n + m
        BY <4>1
      <4> QED BY <3>2, <3>3, <4>2, <4>3, <4>4 DEF Right, n, m
    <3> QED BY <3>4, <3>5
  <2> QED BY <2>2, <2>3, <2>4 DEF LikesInv
<1> QED BY <1>2, <1>3

LEMMA CountDownKept ==
  ASSUME Typed, LikesInv, NEW c \in Clients, CountDown(c)
  PROVE  LikesInv'
<1> DEFINE i == req[c].id
<1>f. /\ load' = load /\ (Undisturbed' => Undisturbed)
      /\ \A d \in Clients : d # c => req'[d] = req[d]
  BY StepFrame DEF Work
<1>1. /\ req[c].pc = "countdown" /\ req'[c].pc = "idle"
      /\ repos' = Bumped(repos, i, -1, 1) /\ colls' = Bumped(colls, i, -1, 1)
      /\ calls' = calls /\ likes' = likes /\ lastID' = lastID /\ -1 \in Int
  BY EndSets DEF CountDown, At, Only
<1> HIDE DEF i
<1>2. Keys' = Keys
  BY <1>1, BumpedRows
<1>3. \A k \in colls' : \E j \in colls : j.id = k.id
  BY <1>1, BumpedFrom
<1>4. CountInv'
  <2> SUFFICES ASSUME Undisturbed', NEW x \in repos' \cup colls'
               PROVE  Right(x)'
    BY DEF CountInv
  <2>1. PICK r \in repos \cup colls :
          /\ x.id = r.id /\ r.likes \in Int
          /\ r.id # i => x = r
          /\ r.id = i => x.likes = Coalesce(r.likes, 1) + -1
    BY <1>1, BumpedFrom
  <2>2. Right(r)
    BY <1>f DEF LikesInv, CountInv
  <2>3. (Erased(r.id) => Erased(r.id)') /\ LikesOf(r.id)' = LikesOf(r.id)
    BY <1>f, <1>1 DEF Erased, LikesOf
  <2>4. CASE r.id # i
    <3>1. Leaving(r.id)' = Leaving(r.id)
      BY <1>f, <1>1, <2>4 DEF Leaving, i
    <3> QED BY <2>1, <2>2, <2>3, <2>4, <3>1 DEF Right
  <2>5. CASE r.id = i /\ ~Erased(r.id)
    <3> DEFINE n == Cardinality(LikesOf(r.id))
               m == Cardinality(Leaving(r.id))
    <3>1. IsFiniteSet(Leaving(r.id)) /\ n \in Nat /\ m \in Nat /\ n + m < Null
      BY Sizes DEF LikesInv
    <3>2. Leaving(r.id)' = Leaving(r.id) \ {c} /\ c \in Leaving(r.id)
      BY <1>f, <1>1, <2>5 DEF Leaving, i
    <3>3. Cardinality(Leaving(r.id) \ {c}) = m - 1 /\ Cardinality(Leaving(r.id) \ {c}) \in Nat
      BY <3>1, <3>2, FS_RemoveElement, FS_CardinalityType
    <3>4. Coalesce(r.likes, 0) = n + m
      BY <2>2, <2>5 DEF Right
    <3> HIDE DEF n, m
    <3>5. Coalesce(x.likes, 0) = n + (m - 1)
      BY <2>1, <2>5, <3>1, <3>3, <3>4 DEF Coalesce, Null
    <3> QED BY <2>1, <2>3, <3>2, <3>3, <3>5 DEF Right, n
  <2> QED BY <2>1, <2>3, <2>4, <2>5 DEF Right
<1> QED BY <1>f, <1>1, <1>2, <1>3, <1>4, RestKept DEF Holding, Erasing

LEMMA InitLikes == Init => LikesInv
<1> SUFFICES ASSUME Init PROVE LikesInv
  OBVIOUS
<1>1. /\ likes = {} /\ colls = {} /\ calls = 0 /\ load \in Loads
      /\ \A c \in Clients : req[c].pc = "idle"
  BY IdlePc DEF Init
<1>2. IsFiniteSet({}) /\ Cardinality({}) = 0
  BY FS_EmptySet
<1>3. OpsInv /\ CollsInv
  BY <1>1 DEF OpsInv, CollsInv, Holding
<1>4. BoundInv
  <2>1. Pending = {}
    BY <1>1 DEF Pending
  <2>2. 0 <= load.calls
    BY <1>1, ReposAssumption
  <2> QED BY <1>1, <1>2, <2>1, <2>2 DEF BoundInv
<1>5. CountInv
  <2> SUFFICES ASSUME NEW x \in repos PROVE Right(x)
    BY <1>1 DEF CountInv
  <2>1. x.likes = Null
    <3>1. PICK no : repos = {Row(no[s], s, FALSE) : s \in load.known}
      BY DEF Init
    <3>2. PICK s \in load.known : x = Row(no[s], s, FALSE)
      BY <3>1
    <3> QED BY <3>2 DEF Row
  <2>2. LikesOf(x.id) = {} /\ Leaving(x.id) = {}
    BY <1>1 DEF LikesOf, Leaving
  <2> QED BY <1>2, <2>1, <2>2 DEF Right, Coalesce
<1> QED BY <1>3, <1>4, <1>5 DEF LikesInv

LEMMA StepLikes == IInv /\ LikesInv /\ [Next]_vars => LikesInv'
<1> SUFFICES ASSUME Typed, Core, LikesInv, [Next]_vars PROVE LikesInv'
  BY DEF IInv
<1>1. ASSUME NEW c \in Clients, Request(c) \/ Work(c) \/ Fails(c) PROVE LikesInv'
  BY <1>1, RequestLikes, MakeLikes, UnmakeLikes, CleanLikes, HoldLikes, AddKept, DeleteLikeKept,
     CountDownKept DEF Work
<1>2. CASE UNCHANGED vars
  <2>1. UNCHANGED <<repos, likes, colls, req, load, calls, faults, overlap>>
    BY <1>2 DEF vars, tables, history
  <2>2. OpsInv' /\ BoundInv'
    BY <2>1 DEF LikesInv, OpsInv, BoundInv, Pending
  <2>3. CollsInv'
    BY <2>1 DEF LikesInv, CollsInv, NoRow, Keys
  <2>4. CountInv'
    BY <2>1 DEF LikesInv, CountInv, Undisturbed, Right, Erased, LikesOf, Leaving
  <2> QED BY <2>2, <2>3, <2>4 DEF LikesInv
<1> QED BY <1>1, <1>2 DEF Next

\* The counter of a repository or of a collection is the number of its likes, and of
\* those that are on their way out (Repos!LikesCounted), however likes, unlikes and
\* deletions interleave, as long as nothing fails, deletions do not meet and nobody
\* writes whole rows.
THEOREM CounterIsRight == Spec => []LikesCounted
<1>1. LikesInv => LikesCounted
  <2> SUFFICES ASSUME LikesInv, Undisturbed, NEW x \in repos \cup colls
               PROVE  \/ \E c \in Clients : req[c].pc \in {"remove", "delete"} /\ req[c].id = x.id
                      \/ Coalesce(x.likes, 0) =
                           Cardinality({l \in likes : l.of = x.id})
                           + Cardinality({c \in Clients : req[c].pc = "countdown" /\ req[c].id = x.id})
    BY DEF LikesCounted, Undisturbed, Writers
  <2> QED BY DEF LikesInv, CountInv, Right, Erased, LikesOf, Leaving
<1> QED BY <1>1, InitLikes, StepLikes, Invariant, PTL DEF Spec
=============================================================================
