---------------------------- MODULE PushesProofs ----------------------------
(***************************************************************************)
(* Proofs about Pushes and Moderation, for any number of pushes, branches, *)
(* files, contents and failures.                                           *)
(***************************************************************************)
EXTENDS Pushes, TLAPS, FiniteSetTheorems, WellFoundedInduction, SequenceTheorems

----------------------------------------------------------------------------
(* The types of all states. *)

Names == Files \cup {"README.md"}
Contents == Readmes \cup {None}
Diff == [Groups -> SUBSET Names]
TagPcs == {"raw", "tags", "save", "old", "set"}
LicensePcs == {"license", "row", "relicense"}
LibraryPcs == {"library", "insert", "update"}
Pcs == {"start", "deploy", "override", "end"} \cup TagPcs \cup LicensePcs \cup LibraryPcs
Verdicts == {"pending", "pass", "fail", "exception"}
Row == [private : BOOLEAN, status : Verdicts, license : Tags \cup {None}]
Workflow ==
    [st : {"run", "done", "failed", "lost"}, act : 1 .. 5, tries : Nat, pc : Pcs, ref : Refs, diff : Diff,
     todo : Diff, content : Contents, new : SUBSET Tags, tags : SUBSET Tags, old : SUBSET Tags,
     license : Tags \cup {None}, row : Row, err : BOOLEAN]

CheckPcs == {"start", "save", "failed", "exists", "create", "run", "hide", "record", "exceptions"}
Check ==
    [st : {"run", "done", "failed"}, act : 1 .. 4, tries : Nat, pc : CheckPcs, row : Row,
     todo : SUBSET Nat, found : Contents, verdict : Verdicts]
Flags == {"crossed", "repeated", "skipped", "logged", "unread", "stale", "relicensed", "moved"}

\* There is no count without a row of the library.
Counter == libRow \in BOOLEAN /\ libCount \in Nat /\ (libRow \/ libCount = 0)
PushTypes ==
    /\ tree \in [Refs -> [readme : Contents, files : SUBSET Files]]
    /\ wf \in Seq(Workflow)
    /\ known \subseteq Tags /\ repoTags \subseteq Tags /\ Counter
    /\ load \in Loads /\ faults \in Nat /\ hist \in [Flags -> BOOLEAN]
File == [content : Readmes, status : Verdicts]
CheckTypes ==
    /\ repo \in Row
    /\ files \in Seq(File)
    /\ check \in Seq(Check)
Typed == PushTypes /\ CheckTypes

\* The least and the greatest of some numbers.
LEMMA Least ==
  ASSUME NEW S \in SUBSET Nat, S # {}
  PROVE  Min(S) \in S /\ \A x \in S : Min(S) <= x
<1>1. \E x \in S : \A y \in S : ~ (<<y, x>> \in OpToRel(<, Nat))
  BY NatLessThanWellFounded, WFMin
<1>2. \A x, y \in S : y < x => <<y, x>> \in OpToRel(<, Nat)
  BY DEF OpToRel
<1>4. PICK x \in S : \A y \in S : ~ (<<y, x>> \in OpToRel(<, Nat))
  BY <1>1
<1>5. \A y \in S : ~ (y < x)
  BY <1>2, <1>4
<1>3. \E z \in S : \A y \in S : z <= y
  BY <1>5
<1> QED BY <1>3 DEF Min

LEMMA Greatest ==
  ASSUME NEW n \in Nat, NEW S \in SUBSET (1 .. n), S # {}
  PROVE  Max(S) \in S /\ \A x \in S : x <= Max(S)
<1> DEFINE T == {k \in 0 .. n : n - k \in S}
<1>1. PICK x \in S : TRUE
  OBVIOUS
<1>2. n - x \in T /\ T \in SUBSET Nat
  OBVIOUS
<1>3. Min(T) \in T /\ \A k \in T : Min(T) <= k
  BY <1>2, Least
<1>4. \A y \in S : n - y \in T
  OBVIOUS
<1>5. n - Min(T) \in S /\ \A y \in S : y <= n - Min(T)
  BY <1>3, <1>4
<1>6. \E z \in S : \A y \in S : z >= y
  BY <1>5
<1> QED BY <1>6 DEF Max

----------------------------------------------------------------------------
(* Workflows that are written. *)

LEMMA Activities ==
  /\ Len(Activity) = 5
  /\ \A i \in 1 .. 5 :
       /\ Activity[i] = "WatchSpaceChange" <=> i = 1
       /\ Activity[i] = "WatchRepoRelation" <=> i = 2
       /\ Activity[i] = "SetRepoUpdateTime" <=> i = 3
       /\ Activity[i] = "UpdateRepoInfos" <=> i = 4
       /\ Activity[i] = "SensitiveCheck" <=> i = 5
BY DEF Activity

LEMMA CheckActivities ==
  /\ Len(CheckActivity) = 4
  /\ \A i \in 1 .. 4 :
       /\ CheckActivity[i] = "RepoSensitiveCheckPending" <=> i = 1
       /\ CheckActivity[i] = "GenRepoFileList" <=> i = 2
       /\ CheckActivity[i] = "CheckRepoFiles" <=> i = 3
       /\ CheckActivity[i] = "DetectRepoSensitiveCheckStatus" <=> i = 4
BY DEF CheckActivity

LEMMA Rows ==
  ASSUME Typed
  PROVE  /\ W = 1 .. Len(wf) /\ Len(wf) \in Nat /\ \A w \in W : wf[w] \in Workflow
         /\ C = 1 .. Len(check) /\ Len(check) \in Nat /\ \A c \in C : check[c] \in Check
         /\ DOMAIN files = 1 .. Len(files) /\ Len(files) \in Nat
         /\ \A i \in DOMAIN files : files[i] \in File
<1>1. wf \in Seq(Workflow) /\ check \in Seq(Check) /\ files \in Seq(File)
  BY DEF Typed, PushTypes, CheckTypes
<1>2. Len(wf) \in Nat /\ DOMAIN wf = 1 .. Len(wf) /\ \A w \in DOMAIN wf : wf[w] \in Workflow
  BY <1>1
<1>3. Len(check) \in Nat /\ DOMAIN check = 1 .. Len(check) /\ \A c \in DOMAIN check : check[c] \in Check
  BY <1>1
<1>4. /\ Len(files) \in Nat /\ DOMAIN files = 1 .. Len(files)
      /\ \A i \in DOMAIN files : files[i] \in File
  BY <1>1
<1> QED BY <1>2, <1>3, <1>4 DEF W, C

\* Which activity a workflow is in, by its number.
LEMMA AtIs ==
  ASSUME Typed, NEW w \in W, NEW pc
  PROVE  /\ At(w, "WatchSpaceChange", pc) <=> wf[w].st = "run" /\ wf[w].act = 1 /\ wf[w].pc = pc
         /\ At(w, "WatchRepoRelation", pc) <=> wf[w].st = "run" /\ wf[w].act = 2 /\ wf[w].pc = pc
         /\ At(w, "SetRepoUpdateTime", pc) <=> wf[w].st = "run" /\ wf[w].act = 3 /\ wf[w].pc = pc
         /\ At(w, "UpdateRepoInfos", pc) <=> wf[w].st = "run" /\ wf[w].act = 4 /\ wf[w].pc = pc
         /\ At(w, "SensitiveCheck", pc) <=> wf[w].st = "run" /\ wf[w].act = 5 /\ wf[w].pc = pc
<1>1. wf[w].act \in 1 .. 5
  BY Rows DEF Workflow
<1> QED BY <1>1, Activities DEF At

LEMMA InIs ==
  ASSUME Typed, NEW c \in C, NEW pc
  PROVE  /\ In(c, "RepoSensitiveCheckPending", pc) <=> check[c].st = "run" /\ check[c].act = 1 /\ check[c].pc = pc
         /\ In(c, "GenRepoFileList", pc) <=> check[c].st = "run" /\ check[c].act = 2 /\ check[c].pc = pc
         /\ In(c, "CheckRepoFiles", pc) <=> check[c].st = "run" /\ check[c].act = 3 /\ check[c].pc = pc
         /\ In(c, "DetectRepoSensitiveCheckStatus", pc)
              <=> check[c].st = "run" /\ check[c].act = 4 /\ check[c].pc = pc
<1>1. check[c].act \in 1 .. 4
  BY Rows DEF Check
<1> QED BY <1>1, CheckActivities DEF In

LEMMA Written ==
  ASSUME Typed, NEW w \in W, NEW r \in Workflow, With(w, r)
  PROVE  /\ wf' \in Seq(Workflow) /\ W' = W /\ wf'[w] = r
         /\ \A v \in W \ {w} : wf'[v] = wf[v]
<1>1. wf \in Seq(Workflow) /\ w \in 1 .. Len(wf)
  BY Rows DEF Typed, PushTypes
<1>2. wf' = [wf EXCEPT ![w] = r]
  BY DEF With
<1>3. wf' \in Seq(Workflow) /\ Len(wf') = Len(wf)
  BY <1>1, <1>2, ExceptSeq
<1> QED BY <1>1, <1>2, <1>3 DEF W

LEMMA CheckWritten ==
  ASSUME Typed, NEW c \in C, NEW r \in Check, Set(c, r)
  PROVE  /\ check' \in Seq(Check) /\ C' = C /\ check'[c] = r
         /\ \A d \in C \ {c} : check'[d] = check[d]
<1>1. check \in Seq(Check) /\ c \in 1 .. Len(check)
  BY Rows DEF Typed, CheckTypes
<1>2. check' = [check EXCEPT ![c] = r]
  BY DEF Set
<1>3. check' \in Seq(Check) /\ Len(check') = Len(check)
  BY <1>1, <1>2, ExceptSeq
<1> QED BY <1>1, <1>2, <1>3 DEF C

----------------------------------------------------------------------------
(* What is true of each workflow, by itself. *)

Fresh(w) ==
    wf[w].pc = "start" /\ wf[w].content = None /\ wf[w].err = FALSE /\ wf[w].todo = Nothing

\* It handles what the difference names, the files of a group one after the other.
Handling(w) ==
    /\ \A how \in Groups : wf[w].todo[how] \subseteq Todo(wf[w].diff)[how]
    /\ wf[w].pc = "end" <=> wf[w].todo = Nothing
    /\ wf[w].pc \in LibraryPcs => Item(w) # "README.md"
    /\ wf[w].pc \in LibraryPcs \ {"library"} => How(w) # "Removed"
    /\ wf[w].pc \in TagPcs \cup LicensePcs => Item(w) = "README.md"
    /\ wf[w].pc = "tags" => wf[w].content # None
    /\ wf[w].pc \in TagPcs \cup LicensePcs /\ How(w) = "Removed" =>
          wf[w].pc \in {"old", "set"} /\ wf[w].content = None /\ wf[w].tags = {}

Shape(w) ==
    /\ wf[w].st # "run" \/ wf[w].pc = "start" => Fresh(w)
    /\ wf[w].st = "done" => wf[w].act = 5
    /\ wf[w].st = "lost" => wf[w].act = 1
    /\ wf[w].act = 1 => wf[w].pc \in {"start", "deploy"}
    /\ wf[w].act = 2 => wf[w].pc \in {"start", "override"}
    /\ wf[w].act \in {3, 5} => wf[w].pc = "start"
    /\ wf[w].act = 4 => wf[w].pc \notin {"deploy", "override"}
    /\ wf[w].act # 4 => wf[w].err = FALSE
    /\ wf[w].act = 2 /\ wf[w].pc = "override" => SetsRelations(w)
    /\ wf[w].act = 4 /\ wf[w].pc # "start" => Handling(w)
    /\ wf[w].diff.Modified \subseteq {"README.md"}
    /\ wf[w].pc = "update" => libRow

Shapes == \A w \in W : Shape(w)

\* Only the workflow w moves, and stays the workflow of its push.
Moves(w) ==
    /\ wf' \in Seq(Workflow) /\ W' = W
    /\ wf'[w].ref = wf[w].ref /\ wf'[w].diff = wf[w].diff
    /\ \A v \in W \ {w} : wf'[v] = wf[v]

LEMMA Nothings == Nothing \in Diff /\ \A how \in Groups : Nothing[how] = {}
BY DEF Nothing, Diff

LEMMA BegunIs ==
  ASSUME NEW st \in {"run", "done", "failed", "lost"}, NEW act \in 1 .. 5, NEW tries \in Nat,
         NEW ref \in Refs, NEW diff \in Diff
  PROVE  Begun(st, act, tries, ref, diff) \in Workflow
BY Nothings DEF Begun, Workflow, Pcs, Contents, NewRepo, Row, Verdicts

LEMMA CleanIs ==
  ASSUME Typed, NEW w \in W, NEW st \in {"run", "done", "failed"}, NEW act \in 1 .. 5,
         NEW tries \in Nat, Clean(w, st, act, tries)
  PROVE  Moves(w) /\ Fresh(w)' /\ wf'[w].st = st /\ wf'[w].act = act
<1>1. wf[w].ref \in Refs /\ wf[w].diff \in Diff
  BY Rows DEF Workflow
<1> DEFINE r == Begun(st, act, tries, wf[w].ref, wf[w].diff)
<1>2. r \in Workflow /\ With(w, r)
  BY <1>1, BegunIs DEF Clean
<1>3. /\ r.st = st /\ r.act = act /\ r.ref = wf[w].ref /\ r.diff = wf[w].diff
      /\ r.pc = "start" /\ r.content = None /\ r.err = FALSE /\ r.todo = Nothing
  BY DEF Begun
<1> HIDE DEF r
<1>4. wf' \in Seq(Workflow) /\ W' = W /\ wf'[w] = r /\ \A v \in W \ {w} : wf'[v] = wf[v]
  BY <1>2, Written
<1>5. Nothing' = Nothing
  BY DEF Nothing
<1> QED BY <1>3, <1>4, <1>5 DEF Moves, Fresh

LEMMA CompletedIs ==
  ASSUME Typed, NEW w \in W, Completed(w)
  PROVE  /\ Moves(w) /\ Fresh(w)'
         /\ wf[w].act = 5 => wf'[w].st = "done" /\ wf'[w].act = 5
         /\ wf[w].act # 5 => wf'[w].st = "run" /\ wf'[w].act = wf[w].act + 1
<1>1. wf[w].act \in 1 .. 5 /\ wf[w].tries \in Nat
  BY Rows DEF Workflow
<1>2. CASE wf[w].act = 5
  <2>1. Clean(w, "done", 5, wf[w].tries)
    BY <1>2, Activities DEF Completed
  <2> QED BY <1>1, <1>2, <2>1, CleanIs
<1>3. CASE wf[w].act # 5
  <2>1. Clean(w, "run", wf[w].act + 1, 1) /\ wf[w].act + 1 \in 1 .. 5
    BY <1>1, <1>3, Activities DEF Completed
  <2> QED BY <1>1, <1>3, <2>1, CleanIs
<1> QED BY <1>2, <1>3

LEMMA TryAgainIs ==
  ASSUME Typed, NEW w \in W, TryAgain(w)
  PROVE  Moves(w) /\ Fresh(w)' /\ wf'[w].st \in {"run", "failed"} /\ wf'[w].act = wf[w].act
<1>1. wf[w].act \in 1 .. 5 /\ wf[w].tries \in Nat
  BY Rows DEF Workflow
<1>2. CASE Clean(w, "run", wf[w].act, wf[w].tries + 1)
  BY <1>1, <1>2, CleanIs
<1>3. CASE Clean(w, "failed", wf[w].act, wf[w].tries)
  BY <1>1, <1>3, CleanIs
<1> QED BY <1>2, <1>3 DEF TryAgain

\* A step to another place of the same activity.
LEMMA MoveIs ==
  ASSUME Typed, NEW w \in W, NEW r \in Workflow, With(w, r),
         r.ref = wf[w].ref, r.diff = wf[w].diff
  PROVE  Moves(w) /\ wf'[w] = r
BY Written DEF Moves

\* The first of the files that are left.
LEMMA FirstIs ==
  ASSUME NEW todo \in Diff, todo # Nothing
  PROVE  Group(todo) \in Groups /\ First(todo) \in todo[Group(todo)]
<1>1. \E how \in Groups : todo[how] # {}
  BY DEF Diff, Nothing
<1>2. Group(todo) \in Groups /\ todo[Group(todo)] # {}
  BY <1>1 DEF Group, Groups
<1> QED BY <1>2 DEF First

\* How the rest of the files begins.
Begins(w, r, todo) ==
    /\ r \in Workflow /\ r.st = wf[w].st /\ r.act = wf[w].act
    /\ r.ref = wf[w].ref /\ r.diff = wf[w].diff
    /\ r.todo = todo /\ r.content = None /\ r.tags = {} /\ r.new = {}
    /\ r.pc \in {"end", "library", "old", "raw"}
    /\ r.pc = "end" <=> todo = Nothing
    /\ r.pc = "library" => First(todo) # "README.md"
    /\ r.pc \in {"old", "raw"} => First(todo) = "README.md"
    /\ r.pc = "old" <=> todo # Nothing /\ First(todo) = "README.md" /\ Group(todo) = "Removed"

LEMMA BeginIs ==
  ASSUME Typed, NEW w \in W, NEW todo \in Diff
  PROVE  /\ Begins(w, Begin(w, todo), todo) /\ Begin(w, todo).err = wf[w].err
         /\ Begins(w, [Begin(w, todo) EXCEPT !.err = TRUE], todo)
         /\ [Begin(w, todo) EXCEPT !.err = TRUE].err = TRUE
<1>1. wf[w] \in Workflow
  BY Rows
<1> DEFINE pc == IF todo = Nothing THEN "end"
                 ELSE IF First(todo) # "README.md" THEN "library"
                 ELSE IF Group(todo) = "Removed" THEN "old" ELSE "raw"
<1>a. pc \in Pcs /\ NewRepo \in Row /\ None \in Contents
  BY DEF Pcs, TagPcs, LibraryPcs, Contents, NewRepo, Row, Verdicts
<1>b. /\ Begin(w, todo) \in Workflow /\ Begin(w, todo).err = wf[w].err
      /\ Begin(w, todo).pc = pc /\ Begin(w, todo).todo = todo /\ Begin(w, todo).content = None
      /\ Begin(w, todo).st = wf[w].st /\ Begin(w, todo).act = wf[w].act /\ Begin(w, todo).ref = wf[w].ref
      /\ Begin(w, todo).diff = wf[w].diff /\ Begin(w, todo).tags = {} /\ Begin(w, todo).new = {}
  <2> HIDE DEF pc
  <2>1. Begin(w, todo) = [wf[w] EXCEPT !.pc = pc, !.todo = todo, !.content = None, !.new = {}, !.tags = {},
                                       !.old = {}, !.license = None, !.row = NewRepo]
    BY DEF Begin, pc
  <2> DEFINE q == [wf[w] EXCEPT !.pc = pc, !.todo = todo, !.content = None, !.new = {}]
             r == [q EXCEPT !.tags = {}, !.old = {}, !.license = None, !.row = NewRepo]
  <2>2. /\ q \in Workflow /\ q.err = wf[w].err /\ q.pc = pc /\ q.todo = todo /\ q.content = None
        /\ q.st = wf[w].st /\ q.act = wf[w].act /\ q.ref = wf[w].ref /\ q.diff = wf[w].diff /\ q.new = {}
    BY <1>1, <1>a DEF Workflow
  <2>4. Begin(w, todo) = r
    BY <1>1, <2>1 DEF Workflow
  <2> HIDE DEF q
  <2>3. /\ r \in Workflow /\ r.err = q.err /\ r.pc = q.pc /\ r.todo = q.todo /\ r.content = q.content
        /\ r.st = q.st /\ r.act = q.act /\ r.ref = q.ref /\ r.diff = q.diff /\ r.new = q.new /\ r.tags = {}
    BY <1>a, <2>2 DEF Workflow
  <2> HIDE DEF r
  <2> QED BY <2>2, <2>3, <2>4
<1>2. Begins(w, Begin(w, todo), todo) /\ Begin(w, todo).err = wf[w].err
  BY <1>b DEF Begins
<1> DEFINE r == Begin(w, todo)
          q == [r EXCEPT !.err = TRUE]
<1>3. /\ q \in Workflow /\ q.st = r.st /\ q.act = r.act /\ q.ref = r.ref /\ q.diff = r.diff
      /\ q.todo = r.todo /\ q.content = r.content /\ q.tags = r.tags /\ q.new = r.new /\ q.pc = r.pc
      /\ q.err = TRUE
  BY <1>2 DEF Begins, Workflow
<1> HIDE DEF r, q
<1>4. Begins(w, r, todo)
  BY <1>2 DEF r
<1>5. Begins(w, q, todo)
  BY <1>3, <1>4 DEF Begins
<1> QED BY <1>2, <1>3, <1>5 DEF q, r

\* What is left after a file, and after its group.
OneLess(w) == [wf[w].todo EXCEPT ![How(w)] = @ \ {Item(w)}]
GroupLess(w) == [wf[w].todo EXCEPT ![How(w)] = {}]

LEMMA LessIs ==
  ASSUME Typed, NEW w \in W, wf[w].todo # Nothing
  PROVE  /\ How(w) \in Groups /\ Item(w) \in wf[w].todo[How(w)] /\ wf[w].todo \in Diff
         /\ OneLess(w) \in Diff /\ OneLess(w)[How(w)] = wf[w].todo[How(w)] \ {Item(w)}
         /\ \A how \in Groups \ {How(w)} : OneLess(w)[how] = wf[w].todo[how]
         /\ GroupLess(w) \in Diff /\ GroupLess(w)[How(w)] = {}
         /\ \A how \in Groups \ {How(w)} : GroupLess(w)[how] = wf[w].todo[how]
         /\ \A how \in Groups : /\ OneLess(w)[how] \subseteq wf[w].todo[how]
                                /\ GroupLess(w)[how] \subseteq wf[w].todo[how]
<1>1. wf[w].todo \in Diff
  BY Rows DEF Workflow
<1>2. How(w) \in Groups /\ Item(w) \in wf[w].todo[How(w)]
  BY <1>1, FirstIs DEF How, Item
<1> QED BY <1>1, <1>2 DEF OneLess, GroupLess, Diff

\* A file is done, or its group is given up.
LEMMA RestIs ==
  ASSUME Typed, NEW w \in W, wf[w].todo # Nothing
  PROVE  /\ Begins(w, Rest(w), OneLess(w)) /\ Rest(w).err = wf[w].err
         /\ FileFails(w) =>
              \E r : With(w, r) /\ Begins(w, r, GroupLess(w)) /\ r.err = TRUE
<1>1. OneLess(w) \in Diff /\ GroupLess(w) \in Diff
  BY LessIs
<1>2. Rest(w) = Begin(w, OneLess(w)) /\ GroupLeft(w) = Begin(w, GroupLess(w))
  BY DEF Rest, GroupLeft, OneLess, GroupLess
<1> QED BY <1>1, <1>2, BeginIs DEF FileFails

LEMMA FreshShape ==
  ASSUME Typed, NEW w \in W, Shape(w), Moves(w), Fresh(w)', wf'[w].st = "done" => wf'[w].act = 5,
         wf'[w].st # "lost"
  PROVE  Shape(w)'
BY DEF Shape, Moves, Fresh

LEMMA CompletedShape ==
  ASSUME Typed, NEW w \in W, Shape(w), Completed(w)
  PROVE  Moves(w) /\ Shape(w)'
<1>1. Moves(w) /\ Fresh(w)' /\ (wf'[w].st = "done" => wf'[w].act = 5) /\ wf'[w].st # "lost"
  BY CompletedIs
<1> QED BY <1>1, FreshShape

LEMMA TryAgainShape ==
  ASSUME Typed, NEW w \in W, Shape(w), TryAgain(w)
  PROVE  Moves(w) /\ Shape(w)'
<1>1. Moves(w) /\ Fresh(w)' /\ (wf'[w].st = "done" => wf'[w].act = 5) /\ wf'[w].st # "lost"
  BY TryAgainIs
<1> QED BY <1>1, FreshShape

LEMMA BeginShape ==
  ASSUME Typed, NEW w \in W, Shape(w), load' = load, wf[w].st = "run", wf[w].act = 4,
         NEW todo \in Diff, \A how \in Groups : todo[how] \subseteq Todo(wf[w].diff)[how],
         NEW r, Begins(w, r, todo), With(w, r)
  PROVE  Moves(w) /\ Shape(w)' /\ wf'[w] = r
<1>1. Moves(w) /\ wf'[w] = r
  BY MoveIs DEF Begins
<1>2. Nothing' = Nothing /\ Todo(r.diff)' = Todo(r.diff)
  BY DEF Nothing, Todo, Tagged
<1>3. Item(w)' = First(todo) /\ How(w)' = Group(todo)
  BY <1>1 DEF Item, How, First, Group, Begins
<1>4. Handling(w)'
  BY <1>1, <1>2, <1>3 DEF Handling, Begins, TagPcs, LicensePcs, LibraryPcs
<1>5. /\ r.st = "run" /\ r.act = 4 /\ r.pc \in {"end", "library", "old", "raw"} /\ r.diff = wf[w].diff
  BY DEF Begins
<1>6. Shape(w)'
  BY <1>1, <1>4, <1>5 DEF Shape
<1> QED BY <1>1, <1>6

LEMMA FileFailsShape ==
  ASSUME Typed, NEW w \in W, Shape(w), load' = load, wf[w].st = "run", wf[w].act = 4,
         wf[w].pc \notin {"start", "end"}, FileFails(w)
  PROVE  Moves(w) /\ Shape(w)' /\ wf'[w].err = TRUE /\ Begins(w, wf'[w], GroupLess(w))
<1>1. wf[w].todo # Nothing /\ \A how \in Groups : wf[w].todo[how] \subseteq Todo(wf[w].diff)[how]
  BY DEF Shape, Handling
<1>2. PICK r : With(w, r) /\ Begins(w, r, GroupLess(w)) /\ r.err = TRUE
  BY <1>1, RestIs
<1>3. GroupLess(w) \in Diff /\ \A how \in Groups : GroupLess(w)[how] \subseteq Todo(wf[w].diff)[how]
  BY <1>1, LessIs
<1> QED BY <1>2, <1>3, BeginShape

LEMMA RestShape ==
  ASSUME Typed, NEW w \in W, Shape(w), load' = load, wf[w].st = "run", wf[w].act = 4,
         wf[w].pc \notin {"start", "end"}, With(w, Rest(w))
  PROVE  Moves(w) /\ Shape(w)' /\ wf'[w].err = wf[w].err /\ Begins(w, wf'[w], OneLess(w))
<1>1. wf[w].todo # Nothing /\ \A how \in Groups : wf[w].todo[how] \subseteq Todo(wf[w].diff)[how]
  BY DEF Shape, Handling
<1>2. Begins(w, Rest(w), OneLess(w)) /\ Rest(w).err = wf[w].err
  BY <1>1, RestIs
<1>3. OneLess(w) \in Diff /\ \A how \in Groups : OneLess(w)[how] \subseteq Todo(wf[w].diff)[how]
  BY <1>1, LessIs
<1> QED BY <1>2, <1>3, BeginShape

\* From one place to another with the same file.
LEMMA SameFileShape ==
  ASSUME Typed, NEW w \in W, Shape(w), load' = load, wf[w].st = "run", wf[w].act = 4,
         wf[w].pc # "start",
         NEW r \in Workflow, With(w, r), r.st = "run", r.act = 4, r.ref = wf[w].ref, r.diff = wf[w].diff,
         r.todo = wf[w].todo,
         \/ /\ wf[w].pc \in TagPcs \cup LicensePcs /\ r.pc \in TagPcs \cup LicensePcs
            /\ How(w) = "Removed" => r.pc \in {"old", "set"} /\ r.content = None /\ r.tags = {}
            /\ r.pc = "tags" => r.content # None
         \/ wf[w].pc \in LibraryPcs /\ r.pc \in LibraryPcs /\ How(w) # "Removed" /\ (r.pc = "update" => libRow')
  PROVE  Moves(w) /\ Shape(w)' /\ wf'[w] = r
<1>1. Moves(w) /\ wf'[w] = r
  BY MoveIs
<1>2. Nothing' = Nothing /\ Todo(r.diff)' = Todo(r.diff)
  BY DEF Nothing, Todo, Tagged
<1>3. Item(w)' = Item(w) /\ How(w)' = How(w)
  BY <1>1 DEF Item, How, First, Group
<1>4. Handling(w)
  BY DEF Shape
<1>p. /\ TagPcs' = TagPcs /\ LicensePcs' = LicensePcs /\ LibraryPcs' = LibraryPcs
      /\ TagPcs \cap LibraryPcs = {} /\ LicensePcs \cap LibraryPcs = {}
      /\ \A pc \in TagPcs \cup LicensePcs \cup LibraryPcs : pc \notin {"start", "deploy", "override", "end"}
  BY DEF TagPcs, LicensePcs, LibraryPcs
<1>5. Handling(w)'
  <2>1. /\ \A how \in Groups : wf[w].todo[how] \subseteq Todo(wf[w].diff)[how]
        /\ wf[w].todo # Nothing
    BY <1>4, <1>p DEF Handling
  <2>2. /\ (\A how \in Groups : wf[w].todo[how] \subseteq Todo(wf[w].diff)[how])'
        /\ wf'[w].todo # Nothing'
    BY <1>1, <1>2, <2>1 DEF Groups
  <2>3. CASE wf[w].pc \in LibraryPcs
    BY <1>1, <1>3, <1>4, <1>p, <2>2, <2>3, "tags" \in TagPcs DEF Handling, TagPcs
  <2>4. CASE wf[w].pc \in TagPcs \cup LicensePcs
    BY <1>1, <1>3, <1>4, <1>p, <2>2, <2>4 DEF Handling
  <2> QED BY <2>3, <2>4
<1>6. r.pc = "update" => libRow'
  BY DEF TagPcs, LicensePcs
<1>7. Shape(w)'
  BY <1>1, <1>5, <1>6, <1>p DEF Shape
<1> QED BY <1>1, <1>7

LEMMA WatchShape ==
  ASSUME Typed, NEW w \in W, Shape(w), load' = load,
         \/ FixHasEntryFile(w) \/ Deploy(w) \/ toRepoIDsFromReadme(w) \/ Override(w)
         \/ SetRepoUpdateTime(w) \/ SensitiveCheck(w)
         \/ WorkerDies(w) \/ WatcherFails(w) \/ CallFails(w)
  PROVE  Moves(w) /\ Shape(w)'
<1>0. wf[w] \in Workflow
  BY Rows
<1>1. CASE FixHasEntryFile(w)
  <2>1. CASE Goto(w, "deploy")
    <3> DEFINE r == [wf[w] EXCEPT !.pc = "deploy"]
    <3>1. /\ r \in Workflow /\ r.st = wf[w].st /\ r.act = wf[w].act /\ r.ref = wf[w].ref
          /\ r.diff = wf[w].diff /\ r.err = wf[w].err /\ r.pc = "deploy"
      BY <1>0 DEF Workflow, Pcs
    <3>2. With(w, r)
      BY <2>1 DEF Goto
    <3> HIDE DEF r
    <3>3. Moves(w) /\ wf'[w] = r
      BY <3>1, <3>2, MoveIs
    <3>4. wf[w].st = "run" /\ wf[w].act = 1
      BY <1>1, AtIs DEF FixHasEntryFile
    <3> QED BY <3>1, <3>3, <3>4 DEF Shape
  <2> QED BY <1>1, <2>1, CompletedShape DEF FixHasEntryFile
<1>2. CASE Deploy(w) \/ Override(w) \/ SetRepoUpdateTime(w) \/ WatcherFails(w)
  BY <1>2, CompletedShape DEF Deploy, Override, SetRepoUpdateTime, WatcherFails
<1>3. CASE toRepoIDsFromReadme(w)
  <2>1. wf[w].st = "run" /\ wf[w].act = 2 /\ wf[w].pc = "start"
    BY <1>3, AtIs DEF toRepoIDsFromReadme
  <2>2. ASSUME SetsRelations(w), NEW r \in Workflow, With(w, r), r.st = "run", r.act = 2, r.pc = "override",
               r.ref = wf[w].ref, r.diff = wf[w].diff, r.err = wf[w].err
        PROVE  Moves(w) /\ Shape(w)'
    <3>1. Moves(w) /\ wf'[w] = r
      BY <2>2, MoveIs
    <3>2. SetsRelations(w)'
      BY <2>2, <3>1 DEF SetsRelations
    <3> QED BY <2>1, <2>2, <3>1, <3>2 DEF Shape
  <2>3. CASE SetsRelations(w) /\ Goto(w, "override")
    <3> DEFINE r == [wf[w] EXCEPT !.pc = "override"]
    <3>1. /\ r \in Workflow /\ r.st = wf[w].st /\ r.act = wf[w].act /\ r.ref = wf[w].ref
          /\ r.diff = wf[w].diff /\ r.err = wf[w].err /\ r.pc = "override"
      BY <1>0 DEF Workflow, Pcs
    <3>2. With(w, r)
      BY <2>3 DEF Goto
    <3> HIDE DEF r
    <3> QED BY <2>1, <2>2, <2>3, <3>1, <3>2
  <2>4. CASE SetsRelations(w) /\ With(w, [wf[w] EXCEPT !.pc = "override", !.content = tree[wf[w].ref].readme])
    <3> DEFINE r == [wf[w] EXCEPT !.pc = "override", !.content = tree[wf[w].ref].readme]
    <3>1. tree[wf[w].ref].readme \in Contents
      BY <1>0 DEF Workflow, Typed, PushTypes
    <3>2. /\ r \in Workflow /\ r.st = wf[w].st /\ r.act = wf[w].act /\ r.ref = wf[w].ref
          /\ r.diff = wf[w].diff /\ r.err = wf[w].err /\ r.pc = "override"
      BY <1>0, <3>1 DEF Workflow, Pcs
    <3>3. With(w, r)
      BY <2>4
    <3> HIDE DEF r
    <3> QED BY <2>1, <2>2, <2>4, <3>2, <3>3
  <2>5. \/ Completed(w)
        \/ SetsRelations(w) /\ Goto(w, "override")
        \/ SetsRelations(w) /\ With(w, [wf[w] EXCEPT !.pc = "override", !.content = tree[wf[w].ref].readme])
    BY <1>3 DEF toRepoIDsFromReadme
  <2> QED BY <2>3, <2>4, <2>5, CompletedShape
<1>4. CASE WorkerDies(w) \/ CallFails(w)
  BY <1>4, TryAgainShape DEF WorkerDies, CallFails
<1>5. CASE SensitiveCheck(w)
  BY <1>5, TryAgainShape, CompletedShape DEF SensitiveCheck
<1> QED BY <1>1, <1>2, <1>3, <1>4, <1>5

\* The steps of UpdateRepoInfos.
LicenseSteps(w) == SelectLicense(w) \/ FindById(w) \/ UpdateLicenseByTag(w) \/ LicenseFails(w)
LibrarySteps(w) == SelectLibraryTag(w) \/ SetLibraryTag(w) \/ RemoveLibraryTag(w)
Infos(w) ==
    \/ UpdateRepoInfos(w) \/ getFileRaw(w) \/ ProcessReadme(w) \/ SaveTags(w)
    \/ SetMetaTags(w) \/ ReplaceMetaTags(w) \/ LicenseSteps(w) \/ LibrarySteps(w)
    \/ InfosUpdated(w) \/ InfoFails(w)

LEMMA ProcessReadmeIs ==
  ASSUME Typed, NEW w \in W, ProcessReadme(w)
  PROVE  \/ FileFails(w) /\ wf[w].content \in Unparsed /\ Note("unread")
         \/ \E ts \in SUBSET (TagsOf[wf[w].content] \ known) :
              /\ With(w, [wf[w] EXCEPT !.pc = "save", !.new = ts, !.tags = (TagsOf[wf[w].content] \cap known) \cup ts])
              /\ load.checks => ts \cap BadTags = {}
              /\ \/ ts = {t \in TagsOf[wf[w].content] \ known : load.checks => t \notin BadTags} /\ UNCHANGED hist
                 \/ Note("logged")
<1> DEFINE tags == TagsOf[wf[w].content]
           new == {t \in tags \ known : load.checks => t \notin BadTags}
           keep(ts) == With(w, [wf[w] EXCEPT !.pc = "save", !.new = ts, !.tags = (tags \cap known) \cup ts])
<1>1. IF wf[w].content \in Unparsed THEN FileFails(w) /\ Note("unread")
      ELSE \/ keep(new) /\ UNCHANGED hist
           \/ (\E t \in new : keep(new \ {t})) /\ Note("logged")
  BY DEF ProcessReadme
<1>2. CASE keep(new) /\ UNCHANGED hist
  <2>1. new \in SUBSET (tags \ known) /\ (load.checks => new \cap BadTags = {})
    OBVIOUS
  <2> QED BY <1>2, <2>1
<1>3. ASSUME NEW t \in new, keep(new \ {t}), Note("logged")
      PROVE  \E ts \in SUBSET (tags \ known) :
                keep(ts) /\ (load.checks => ts \cap BadTags = {}) /\ Note("logged")
  <2>1. new \ {t} \in SUBSET (tags \ known) /\ (load.checks => (new \ {t}) \cap BadTags = {})
    OBVIOUS
  <2> QED BY <1>3, <2>1
<1> QED BY <1>1, <1>2, <1>3

LEMMA InfosShape ==
  ASSUME Typed, NEW w \in W, Shape(w), load' = load, Infos(w)
  PROVE  Moves(w) /\ Shape(w)'
<1>0. wf[w] \in Workflow
  BY Rows
<1>h. wf[w].act = 4 /\ wf[w].pc # "start" => Handling(w)
  BY DEF Shape
<1>1. CASE UpdateRepoInfos(w)
  <2>1. wf[w].st = "run" /\ wf[w].act = 4
    BY <1>1, AtIs DEF UpdateRepoInfos
  <2>2. Todo(wf[w].diff) \in Diff
    BY <1>0 DEF Todo, Diff, Workflow
  <2>3. Begins(w, Begin(w, Todo(wf[w].diff)), Todo(wf[w].diff))
    BY <2>2, BeginIs
  <2> QED BY <1>1, <2>1, <2>2, <2>3, BeginShape DEF UpdateRepoInfos
<1>2. CASE getFileRaw(w)
  <2>1. wf[w].st = "run" /\ wf[w].act = 4 /\ wf[w].pc = "raw"
    BY <1>2, AtIs DEF getFileRaw
  <2>2. ASSUME With(w, [wf[w] EXCEPT !.pc = "tags", !.content = tree[wf[w].ref].readme]), tree[wf[w].ref].readme # None
        PROVE  Moves(w) /\ Shape(w)'
    <3> DEFINE r == [wf[w] EXCEPT !.pc = "tags", !.content = tree[wf[w].ref].readme]
    <3>1. tree[wf[w].ref].readme \in Contents
      BY <1>0 DEF Workflow, Typed, PushTypes
    <3>2. /\ r \in Workflow /\ r.st = wf[w].st /\ r.act = wf[w].act /\ r.ref = wf[w].ref
          /\ r.diff = wf[w].diff /\ r.todo = wf[w].todo /\ r.pc = "tags" /\ r.content # None
      BY <1>0, <2>2, <3>1 DEF Workflow, Pcs, TagPcs
    <3>3. With(w, r)
      BY <2>2
    <3>4. How(w) # "Removed"
      BY <1>h, <2>1 DEF Handling, TagPcs
    <3> HIDE DEF r
    <3> QED BY <2>1, <3>2, <3>3, <3>4, SameFileShape DEF TagPcs
  <2>3. CASE With(w, Rest(w))
    BY <2>1, <2>3, RestShape
  <2>4. CASE FileFails(w)
    BY <2>1, <2>4, FileFailsShape
  <2> QED BY <1>2, <2>2, <2>3, <2>4 DEF getFileRaw
<1>3. CASE ProcessReadme(w)
  <2>1. wf[w].st = "run" /\ wf[w].act = 4 /\ wf[w].pc = "tags"
    BY <1>3, AtIs DEF ProcessReadme
  <2>2. wf[w].content # None => TagsOf[wf[w].content] \subseteq Tags
    BY <1>0, PushesAssumption DEF Workflow, Contents
  <2>3. wf[w].content # None
    BY <1>h, <2>1 DEF Handling, TagPcs
  <2>4. ASSUME NEW ts \in SUBSET (TagsOf[wf[w].content] \ known),
               With(w, [wf[w] EXCEPT !.pc = "save", !.new = ts, !.tags = (TagsOf[wf[w].content] \cap known) \cup ts])
        PROVE  Moves(w) /\ Shape(w)'
    <3> DEFINE r == [wf[w] EXCEPT !.pc = "save", !.new = ts, !.tags = (TagsOf[wf[w].content] \cap known) \cup ts]
    <3>1. ts \in SUBSET Tags /\ (TagsOf[wf[w].content] \cap known) \cup ts \in SUBSET Tags
      BY <2>2, <2>3
    <3>2. /\ r \in Workflow /\ r.st = wf[w].st /\ r.act = wf[w].act /\ r.ref = wf[w].ref
          /\ r.diff = wf[w].diff /\ r.todo = wf[w].todo /\ r.pc = "save"
      BY <1>0, <3>1 DEF Workflow, Pcs, TagPcs
    <3>3. With(w, r)
      BY <2>4
    <3>4. How(w) # "Removed"
      BY <1>h, <2>1 DEF Handling, TagPcs
    <3> HIDE DEF r
    <3> QED BY <2>1, <3>2, <3>3, <3>4, SameFileShape DEF TagPcs
  <2> QED BY <1>3, <2>1, <2>4, ProcessReadmeIs, FileFailsShape
<1>4. CASE SaveTags(w)
  <2>1. wf[w].st = "run" /\ wf[w].act = 4 /\ wf[w].pc = "save"
    BY <1>4, AtIs DEF SaveTags
  <2>2. CASE Goto(w, "old")
    <3> DEFINE r == [wf[w] EXCEPT !.pc = "old"]
    <3>1. /\ r \in Workflow /\ r.st = wf[w].st /\ r.act = wf[w].act /\ r.ref = wf[w].ref
          /\ r.diff = wf[w].diff /\ r.todo = wf[w].todo /\ r.pc = "old"
      BY <1>0 DEF Workflow, Pcs, TagPcs
    <3>2. With(w, r)
      BY <2>2 DEF Goto
    <3>3. How(w) # "Removed"
      BY <1>h, <2>1 DEF Handling, TagPcs
    <3> HIDE DEF r
    <3> QED BY <2>1, <3>1, <3>2, <3>3, SameFileShape DEF TagPcs
  <2> QED BY <1>4, <2>1, <2>2, FileFailsShape DEF SaveTags
<1>5. CASE SetMetaTags(w)
  <2> DEFINE r == [wf[w] EXCEPT !.pc = "set", !.old = repoTags]
  <2>1. wf[w].st = "run" /\ wf[w].act = 4 /\ wf[w].pc = "old"
    BY <1>5, AtIs DEF SetMetaTags
  <2>2. /\ r \in Workflow /\ r.st = wf[w].st /\ r.act = wf[w].act /\ r.ref = wf[w].ref
        /\ r.diff = wf[w].diff /\ r.todo = wf[w].todo /\ r.pc = "set" /\ r.content = wf[w].content
        /\ r.tags = wf[w].tags
    BY <1>0 DEF Workflow, Pcs, TagPcs, Typed, PushTypes
  <2>3. With(w, r)
    BY <1>5 DEF SetMetaTags
  <2>4. How(w) = "Removed" => wf[w].content = None /\ wf[w].tags = {}
    BY <1>h, <2>1 DEF Handling, TagPcs
  <2> HIDE DEF r
  <2> QED BY <2>1, <2>2, <2>3, <2>4, SameFileShape DEF TagPcs
<1>6. CASE ReplaceMetaTags(w)
  <2>1. wf[w].st = "run" /\ wf[w].act = 4 /\ wf[w].pc = "set"
    BY <1>6, AtIs DEF ReplaceMetaTags
  <2>2. CASE How(w) # "Removed" /\ Goto(w, "license")
    <3> DEFINE r == [wf[w] EXCEPT !.pc = "license"]
    <3>1. /\ r \in Workflow /\ r.st = wf[w].st /\ r.act = wf[w].act /\ r.ref = wf[w].ref
          /\ r.diff = wf[w].diff /\ r.todo = wf[w].todo /\ r.pc = "license"
      BY <1>0 DEF Workflow, Pcs, LicensePcs
    <3>2. With(w, r)
      BY <2>2 DEF Goto
    <3> HIDE DEF r
    <3> QED BY <2>1, <2>2, <3>1, <3>2, SameFileShape DEF TagPcs, LicensePcs
  <2> QED BY <1>6, <2>1, <2>2, FileFailsShape, RestShape DEF ReplaceMetaTags
<1>7. CASE LicenseSteps(w)
  <2>1. wf[w].st = "run" /\ wf[w].act = 4 /\ wf[w].pc \in LicensePcs
    BY <1>7, AtIs DEF LicenseSteps, SelectLicense, FindById, UpdateLicenseByTag, LicenseFails, LicensePcs
  <2>2. How(w) # "Removed"
    BY <1>h, <2>1 DEF Handling, LicensePcs
  <2>3. ASSUME NEW t \in repoTags, With(w, [wf[w] EXCEPT !.pc = "row", !.license = t])
        PROVE  Moves(w) /\ Shape(w)'
    <3> DEFINE r == [wf[w] EXCEPT !.pc = "row", !.license = t]
    <3>1. /\ r \in Workflow /\ r.st = wf[w].st /\ r.act = wf[w].act /\ r.ref = wf[w].ref
          /\ r.diff = wf[w].diff /\ r.todo = wf[w].todo /\ r.pc = "row"
      BY <1>0 DEF Workflow, Pcs, LicensePcs, Typed, PushTypes
    <3>2. With(w, r)
      BY <2>3
    <3> HIDE DEF r
    <3> QED BY <2>1, <2>2, <3>1, <3>2, SameFileShape DEF LicensePcs
  <2>4. ASSUME With(w, [wf[w] EXCEPT !.pc = "relicense", !.row = repo])
        PROVE  Moves(w) /\ Shape(w)'
    <3> DEFINE r == [wf[w] EXCEPT !.pc = "relicense", !.row = repo]
    <3>1. /\ r \in Workflow /\ r.st = wf[w].st /\ r.act = wf[w].act /\ r.ref = wf[w].ref
          /\ r.diff = wf[w].diff /\ r.todo = wf[w].todo /\ r.pc = "relicense"
      BY <1>0 DEF Workflow, Pcs, LicensePcs, Typed, CheckTypes
    <3>2. With(w, r)
      BY <2>4
    <3> HIDE DEF r
    <3> QED BY <2>1, <2>2, <3>1, <3>2, SameFileShape DEF LicensePcs
  <2>5. With(w, Rest(w)) => Moves(w) /\ Shape(w)'
    BY <2>1, RestShape DEF LicensePcs
  <2> QED BY <1>7, <2>3, <2>4, <2>5 DEF LicenseSteps, SelectLicense, FindById, UpdateLicenseByTag, LicenseFails
<1>8. CASE LibrarySteps(w)
  <2>1. wf[w].st = "run" /\ wf[w].act = 4 /\ wf[w].pc \in LibraryPcs
    BY <1>8, AtIs DEF LibrarySteps, SelectLibraryTag, SetLibraryTag, RemoveLibraryTag, LibraryPcs
  <2>2. CASE SelectLibraryTag(w)
    <3>1. PICK pc \in {"insert", "update"} : Goto(w, pc) /\ (pc = "update" => libRow')
      BY <2>2 DEF SelectLibraryTag, rows
    <3> DEFINE r == [wf[w] EXCEPT !.pc = pc]
    <3>2. /\ r \in Workflow /\ r.st = wf[w].st /\ r.act = wf[w].act /\ r.ref = wf[w].ref
          /\ r.diff = wf[w].diff /\ r.todo = wf[w].todo /\ r.pc = pc
      BY <1>0, <3>1 DEF Workflow, Pcs, LibraryPcs
    <3>3. With(w, r) /\ How(w) # "Removed"
      BY <2>2, <3>1 DEF Goto, SelectLibraryTag
    <3> HIDE DEF r
    <3> QED BY <2>1, <3>1, <3>2, <3>3, SameFileShape DEF LibraryPcs
  <2>3. CASE SetLibraryTag(w) \/ RemoveLibraryTag(w)
    BY <2>1, <2>3, RestShape, FileFailsShape DEF SetLibraryTag, RemoveLibraryTag, LibraryPcs
  <2> QED BY <1>8, <2>2, <2>3 DEF LibrarySteps
<1>9. CASE InfosUpdated(w)
  BY <1>9, TryAgainShape, CompletedShape DEF InfosUpdated
<1>10. CASE InfoFails(w)
  <2>1. /\ wf[w].st = "run" /\ wf[w].act = 4
        /\ wf[w].pc \in {"raw", "tags", "save", "old", "set", "library", "insert", "update"}
    BY <1>10, AtIs DEF InfoFails
  <2> QED BY <1>10, <2>1, FileFailsShape DEF InfoFails
<1> QED BY <1>1, <1>2, <1>3, <1>4, <1>5, <1>6, <1>7, <1>8, <1>9, <1>10 DEF Infos

----------------------------------------------------------------------------
(* What is true of each check, by itself. *)

CheckShape(c) ==
    /\ check[c].st # "run" => check[c].pc = "start"
    /\ check[c].st = "done" => check[c].act = 4
    /\ check[c].act = 1 => check[c].pc \in {"start", "save"}
    /\ check[c].act = 2 => check[c].pc \in {"start", "exists", "create"}
    /\ check[c].act = 3 => check[c].pc \in {"start", "run", "hide", "record"}
    /\ check[c].act = 4 => check[c].pc \in {"start", "failed", "exceptions", "save"}
    /\ check[c].pc \in {"exists", "create"} => check[c].found # None
    /\ check[c].act = 3 /\ check[c].pc # "start" => check[c].todo # {} /\ check[c].todo \subseteq DOMAIN files
    /\ check[c].pc \in {"hide", "record"} => check[c].verdict # "pending"
    /\ check[c].pc = "hide" => check[c].verdict = "fail"

CheckShapes == \A c \in C : CheckShape(c)

\* Only the check c moves.
Stays(c) ==
    /\ check' \in Seq(Check) /\ C' = C
    /\ \A d \in C \ {c} : check'[d] = check[d]

LEMMA SetIs ==
  ASSUME Typed, NEW c \in C, NEW r \in Check, Set(c, r)
  PROVE  Stays(c) /\ check'[c] = r
BY CheckWritten DEF Stays

LEMMA OpenedIs ==
  ASSUME NEW st \in {"run", "done", "failed"}, NEW act \in 1 .. 4, NEW tries \in Nat
  PROVE  Opened(st, act, tries) \in Check
BY DEF Opened, NewRepo, Check, Row, CheckPcs, Verdicts, Contents

LEMMA SetOpened ==
  ASSUME Typed, NEW c \in C, NEW st \in {"run", "done", "failed"}, NEW act \in 1 .. 4,
         NEW tries \in Nat, Set(c, Opened(st, act, tries))
  PROVE  Stays(c) /\ check'[c].st = st /\ check'[c].act = act /\ check'[c].pc = "start"
<1> DEFINE r == Opened(st, act, tries)
<1>1. r \in Check
  BY OpenedIs
<1>2. r.st = st /\ r.act = act /\ r.pc = "start"
  BY DEF Opened
<1>3. Set(c, r)
  OBVIOUS
<1> HIDE DEF r
<1> QED BY <1>1, <1>2, <1>3, SetIs

LEMMA DoneIs ==
  ASSUME Typed, NEW c \in C, ActivityDone(c)
  PROVE  /\ Stays(c) /\ check'[c].pc = "start"
         /\ check[c].act = 4 => check'[c].st = "done" /\ check'[c].act = 4
         /\ check[c].act # 4 => check'[c].st = "run" /\ check'[c].act = check[c].act + 1
<1>1. check[c].act \in 1 .. 4 /\ check[c].tries \in Nat
  BY Rows DEF Check
<1>2. CASE check[c].act = 4
  <2>1. Set(c, Opened("done", 4, check[c].tries))
    BY <1>2, CheckActivities DEF ActivityDone
  <2> QED BY <1>1, <1>2, <2>1, SetOpened
<1>3. CASE check[c].act # 4
  <2>1. Set(c, Opened("run", check[c].act + 1, 1)) /\ check[c].act + 1 \in 1 .. 4
    BY <1>1, <1>3, CheckActivities DEF ActivityDone
  <2> QED BY <1>1, <1>3, <2>1, SetOpened
<1> QED BY <1>2, <1>3

LEMMA FailsIs ==
  ASSUME Typed, NEW c \in C, ActivityFails(c)
  PROVE  /\ Stays(c) /\ check'[c].pc = "start" /\ check[c].st = "run"
         /\ check'[c].st \in {"run", "failed"} /\ check'[c].act = check[c].act
<1>1. check[c].act \in 1 .. 4 /\ check[c].tries \in Nat
  BY Rows DEF Check
<1>2. CASE check[c].tries < MaxTries
  <2>1. Set(c, Opened("run", check[c].act, check[c].tries + 1)) /\ check[c].st = "run"
    BY <1>2 DEF ActivityFails
  <2> QED BY <1>1, <2>1, SetOpened
<1>3. CASE ~ (check[c].tries < MaxTries)
  <2>1. Set(c, Opened("failed", check[c].act, check[c].tries)) /\ check[c].st = "run"
    BY <1>3 DEF ActivityFails
  <2> QED BY <1>1, <2>1, SetOpened
<1> QED BY <1>2, <1>3

\* A step to another place of the same activity.
LEMMA GoIs ==
  ASSUME Typed, NEW c \in C, NEW pc \in CheckPcs, Go(c, pc)
  PROVE  /\ Stays(c) /\ check'[c].pc = pc /\ check'[c].st = check[c].st /\ check'[c].act = check[c].act
         /\ check'[c].todo = check[c].todo /\ check'[c].found = check[c].found
         /\ check'[c].verdict = check[c].verdict
<1> DEFINE r == [check[c] EXCEPT !.pc = pc]
<1>1. check[c] \in Check
  BY Rows
<1>2. /\ r \in Check /\ r.pc = pc /\ r.st = check[c].st /\ r.act = check[c].act
      /\ r.todo = check[c].todo /\ r.found = check[c].found /\ r.verdict = check[c].verdict
  BY <1>1 DEF Check
<1>3. Set(c, r)
  BY DEF Go
<1> HIDE DEF r
<1> QED BY <1>2, <1>3, SetIs

LEMMA NextResultIs ==
  ASSUME Typed, NEW c \in C, CheckShape(c), check[c].st = "run", check[c].act = 3,
         check[c].pc \in {"hide", "record"}, NextResult(c)
  PROVE  /\ Stays(c) /\ check'[c].st = "run"
         /\ check[c].pc = "hide" =>
               /\ check'[c].act = 3 /\ check'[c].pc = "record" /\ check'[c].todo = check[c].todo
               /\ check'[c].verdict = "fail"
         /\ check[c].pc = "record" =>
               \/ /\ check[c].todo = {Checked(c)} /\ check'[c].act = 4 /\ check'[c].pc = "start"
               \/ /\ check'[c].act = 3 /\ check'[c].pc = "run" /\ check'[c].todo # {}
                  /\ check'[c].todo = check[c].todo \ {Checked(c)}
<1>0. check[c] \in Check
  BY Rows
<1>t. Checked(c) \in check[c].todo
  <2>1. check[c].todo \in SUBSET Nat /\ check[c].todo # {}
    BY <1>0 DEF Check, CheckShape
  <2> QED BY <2>1, Least DEF Checked
<1>1. CASE check[c].pc = "hide"
  <2>1. check[c].verdict = "fail"
    BY <1>1 DEF CheckShape
  <2>2. Go(c, "record")
    BY <1>1, <2>1 DEF NextResult, Results
  <2>3. "record" \in CheckPcs
    BY DEF CheckPcs
  <2> QED BY <1>1, <2>1, <2>2, <2>3, GoIs
<1>2. CASE check[c].pc = "record"
  <2> DEFINE rest == check[c].todo \ {Checked(c)}
  <2>1. IF rest = {} THEN ActivityDone(c) ELSE Set(c, [check[c] EXCEPT !.pc = "run", !.todo = rest])
    BY <1>2 DEF NextResult, Results
  <2>2. CASE rest = {}
    BY <1>2, <1>t, <2>1, <2>2, DoneIs
  <2>3. CASE rest # {}
    <3> DEFINE r == [check[c] EXCEPT !.pc = "run", !.todo = rest]
    <3>1. /\ r \in Check /\ r.pc = "run" /\ r.st = check[c].st /\ r.act = check[c].act
          /\ r.todo = rest
      BY <1>0 DEF Check, CheckPcs
    <3>2. Set(c, r)
      BY <2>1, <2>3
    <3> HIDE DEF r
    <3>3. Stays(c) /\ check'[c] = r
      BY <3>1, <3>2, SetIs
    <3> QED BY <1>2, <2>3, <3>1, <3>3
  <2> QED BY <2>2, <2>3
<1> QED BY <1>1, <1>2

----------------------------------------------------------------------------
(* What each step of a check does. *)

HistGrows == hist' \in [Flags -> BOOLEAN] /\ \A g \in Flags : hist[g] => hist'[g]

\* The license stays, unless an old one was written back.
LicenseStays == ~hist'.relicensed => repo'.license = repo.license

LEMMA Noted ==
  ASSUME Typed, NEW f \in Flags
  PROVE  /\ Note(f) => hist'[f]
         /\ Note(f) \/ UNCHANGED hist =>
              hist' \in [Flags -> BOOLEAN] /\ \A g \in Flags : hist[g] => hist'[g]
BY DEF Note, Typed, PushTypes

LEMMA Faults ==
  ASSUME Typed
  PROVE  /\ Fault \/ UNCHANGED faults => faults' \in Nat
         /\ NoFault => faults' = faults /\ hist' = hist
BY DEF Fault, NoFault, Typed, PushTypes

LEMMA HistKept ==
  ASSUME Typed, UNCHANGED hist \/ \E f \in Flags : Note(f)
  PROVE  HistGrows
<1>1. CASE UNCHANGED hist
  BY <1>1 DEF HistGrows, Typed, PushTypes
<1>2. CASE \E f \in Flags : Note(f)
  BY <1>2, Noted DEF HistGrows
<1> QED BY <1>1, <1>2

\* Two marks at once, of which each stays.
LEMMA NotedTwo ==
  ASSUME Typed, NEW f \in Flags, NEW g \in Flags, f # g, NEW a \in BOOLEAN, NEW b \in BOOLEAN,
         DOMAIN hist' = Flags, hist' = [h \in Flags |-> hist'[h]],
         hist'[f] = (hist[f] \/ a), hist'[g] = (hist[g] \/ b), \A h \in Flags \ {f, g} : hist'[h] = hist[h]
  PROVE  HistGrows
<1>1. hist \in [Flags -> BOOLEAN]
  BY DEF Typed, PushTypes
<1>2. \A h \in Flags : hist'[h] \in BOOLEAN /\ (hist[h] => hist'[h])
  BY <1>1
<1> QED BY <1>2 DEF HistGrows

LEMMA UpdateRepoIs ==
  ASSUME Typed, NEW c \in C, NEW status \in Verdicts, UpdateRepo(c, status)
  PROVE  /\ repo' \in Row /\ repo'.status = status
         /\ ~hist'.stale => repo'.private = repo.private
         /\ HistGrows /\ LicenseStays
<1>1. check[c].row \in Row /\ repo \in Row
  BY Rows DEF Check, Typed, CheckTypes
<1> DEFINE a == Outdated(check[c].row)
           b == Relicensed(check[c].row)
<1>2. /\ repo' = [check[c].row EXCEPT !.status = status]
      /\ hist' = [hist EXCEPT !.stale = @ \/ a, !.relicensed = @ \/ b]
  BY DEF UpdateRepo
<1>3. /\ repo' \in Row /\ repo'.status = status /\ repo'.private = check[c].row.private
      /\ repo'.license = check[c].row.license
  BY <1>1, <1>2 DEF Row
<1>4. a \in BOOLEAN /\ b \in BOOLEAN /\ "stale" \in Flags /\ "relicensed" \in Flags
  BY DEF Outdated, Relicensed, Flags
<1>5. ~a => repo.private = check[c].row.private
  BY DEF Outdated
<1>6. ~b => repo.license = check[c].row.license
  BY DEF Relicensed
<1> HIDE DEF a, b
<1>7. HistGrows /\ hist'.stale = (hist.stale \/ a) /\ hist'.relicensed = (hist.relicensed \/ b)
  <2>1. hist \in [Flags -> BOOLEAN]
    BY DEF Typed, PushTypes
  <2>2. /\ hist'["stale"] = (hist["stale"] \/ a) /\ hist'["relicensed"] = (hist["relicensed"] \/ b)
        /\ DOMAIN hist' = Flags /\ hist' = [h \in Flags |-> hist'[h]]
        /\ \A h \in Flags \ {"stale", "relicensed"} : hist'[h] = hist[h]
    BY <1>2, <1>4, <2>1
  <2>3. "stale" # "relicensed"
    OBVIOUS
  <2> QED BY <1>4, <2>2, <2>3, NotedTwo
<1> QED BY <1>3, <1>5, <1>6, <1>7 DEF LicenseStays

LEMMA FindByPathIs ==
  ASSUME Typed, NEW c \in C, FindByPath(c)
  PROVE  /\ Stays(c) /\ UNCHANGED <<tree, repo, files, load, faults, hist>>
         /\ check[c].st = "run" /\ check[c].pc = "start"
         /\ check'[c].st = "run" /\ check'[c].act = check[c].act
         /\ \/ check[c].act = 1 /\ check'[c].pc = "save"
            \/ check[c].act = 4 /\ check'[c].pc = "failed"
<1>0. check[c] \in Check /\ repo \in Row
  BY Rows DEF Typed, CheckTypes
<1>1. ASSUME NEW pc \in CheckPcs, Set(c, [check[c] EXCEPT !.pc = pc, !.row = repo])
      PROVE  Stays(c) /\ check'[c].st = check[c].st /\ check'[c].act = check[c].act /\ check'[c].pc = pc
  <2> DEFINE r == [check[c] EXCEPT !.pc = pc, !.row = repo]
  <2>1. r \in Check /\ r.st = check[c].st /\ r.act = check[c].act /\ r.pc = pc
    BY <1>0 DEF Check
  <2>2. Set(c, r)
    BY <1>1
  <2> HIDE DEF r
  <2> QED BY <2>1, <2>2, SetIs
<1>2. "save" \in CheckPcs /\ "failed" \in CheckPcs
  BY DEF CheckPcs
<1>3. UNCHANGED <<tree, repo, files, load, faults, hist>>
  BY Faults DEF FindByPath
<1>4. CASE In(c, "RepoSensitiveCheckPending", "start") /\ Set(c, [check[c] EXCEPT !.pc = "save", !.row = repo])
  BY <1>1, <1>2, <1>3, <1>4, InIs
<1>5. CASE In(c, "DetectRepoSensitiveCheckStatus", "start") /\ Set(c, [check[c] EXCEPT !.pc = "failed", !.row = repo])
  BY <1>1, <1>2, <1>3, <1>5, InIs
<1> QED BY <1>4, <1>5 DEF FindByPath

LEMMA PendingIs ==
  ASSUME Typed, NEW c \in C, UpdateRepoSensitiveCheckStatus(c)
  PROVE  /\ Stays(c) /\ UNCHANGED <<tree, files, load, faults>>
         /\ check[c].st = "run" /\ check[c].act = 1
         /\ check'[c].st = "run" /\ check'[c].act = 2 /\ check'[c].pc = "start"
         /\ repo' \in Row /\ (~hist'.stale => repo'.private = repo.private) /\ repo'.status = "pending"
         /\ HistGrows /\ LicenseStays
<1>1. check[c].st = "run" /\ check[c].act = 1
  BY InIs DEF UpdateRepoSensitiveCheckStatus
<1>2. UpdateRepo(c, "pending") /\ "pending" \in Verdicts /\ ActivityDone(c)
  BY DEF UpdateRepoSensitiveCheckStatus, Verdicts
<1> QED BY <1>1, <1>2, UpdateRepoIs, DoneIs DEF UpdateRepoSensitiveCheckStatus

LEMMA GenRepoFileRecordsIs ==
  ASSUME Typed, NEW c \in C, GenRepoFileRecords(c)
  PROVE  /\ Stays(c) /\ UNCHANGED <<tree, repo, files, load, faults, hist>>
         /\ check[c].st = "run" /\ check[c].act = 2 /\ check'[c].st = "run"
         /\ \/ tree[Main].readme = None /\ check'[c].act = 3 /\ check'[c].pc = "start"
            \/ /\ tree[Main].readme # None /\ check'[c].act = 2 /\ check'[c].pc = "exists"
               /\ check'[c].found = tree[Main].readme
<1>0. check[c] \in Check /\ tree[Main].readme \in Contents
  BY Rows, PushesAssumption DEF Typed, PushTypes
<1>1. check[c].st = "run" /\ check[c].act = 2
  BY InIs DEF GenRepoFileRecords
<1>2. UNCHANGED <<tree, repo, files, load, faults, hist>>
  BY Faults DEF GenRepoFileRecords
<1>3. CASE tree[Main].readme = None
  BY <1>1, <1>2, <1>3, DoneIs DEF GenRepoFileRecords
<1>4. CASE tree[Main].readme # None
  <2> DEFINE r == [check[c] EXCEPT !.pc = "exists", !.found = tree[Main].readme]
  <2>1. /\ r \in Check /\ r.st = check[c].st /\ r.act = check[c].act /\ r.pc = "exists"
        /\ r.found = tree[Main].readme
    BY <1>0 DEF Check, CheckPcs
  <2>2. Set(c, r)
    BY <1>4 DEF GenRepoFileRecords
  <2> HIDE DEF r
  <2> QED BY <1>1, <1>2, <1>4, <2>1, <2>2, SetIs
<1> QED BY <1>3, <1>4

LEMMA ExistsIs ==
  ASSUME Typed, NEW c \in C, Exists(c)
  PROVE  /\ Stays(c) /\ UNCHANGED <<tree, repo, files, load>> /\ faults' \in Nat
         /\ Note("logged") \/ UNCHANGED hist
         /\ check[c].st = "run" /\ check[c].act = 2 /\ check[c].pc = "exists" /\ check'[c].st = "run"
         /\ \/ /\ hist'.logged \/ \E i \in DOMAIN files : files[i].content = check[c].found
               /\ check'[c].act = 3 /\ check'[c].pc = "start"
            \/ check'[c].act = 2 /\ check'[c].pc = "create" /\ check'[c].found = check[c].found
<1>1. check[c].st = "run" /\ check[c].act = 2 /\ check[c].pc = "exists"
  BY InIs DEF Exists
<1>2. UNCHANGED <<tree, repo, files, load>>
  BY DEF Exists
<1>3. CASE ActivityDone(c) /\ Fault /\ Note("logged")
  <2>1. hist'.logged
    BY <1>3, Noted DEF Flags
  <2> QED BY <1>1, <1>2, <1>3, <2>1, DoneIs, Faults
<1>4. CASE /\ IF \E i \in DOMAIN files : files[i].content = check[c].found
              THEN ActivityDone(c) ELSE Go(c, "create")
           /\ NoFault
  <2>1. faults' \in Nat /\ UNCHANGED hist
    BY <1>4, Faults
  <2>2. "create" \in CheckPcs
    BY DEF CheckPcs
  <2>3. CASE \E i \in DOMAIN files : files[i].content = check[c].found
    BY <1>1, <1>2, <1>4, <2>1, <2>3, DoneIs
  <2>4. CASE ~ (\E i \in DOMAIN files : files[i].content = check[c].found)
    BY <1>1, <1>2, <1>4, <2>1, <2>2, <2>4, GoIs
  <2> QED BY <2>3, <2>4
<1> QED BY <1>3, <1>4 DEF Exists

LEMMA CreateFileIs ==
  ASSUME Typed, NEW c \in C, CheckShape(c), CreateFile(c)
  PROVE  /\ Stays(c) /\ UNCHANGED <<tree, repo, load, faults, hist>>
         /\ files' \in Seq(File) /\ DOMAIN files' = DOMAIN files \cup {Len(files) + 1}
         /\ \A i \in DOMAIN files : files'[i] = files[i]
         /\ files'[Len(files) + 1].content = check[c].found
         /\ files'[Len(files) + 1].status = "pending"
         /\ check[c].st = "run" /\ check[c].act = 2 /\ check[c].pc = "create"
         /\ check'[c].st = "run" /\ check'[c].act = 3 /\ check'[c].pc = "start"
<1>1. check[c].st = "run" /\ check[c].act = 2 /\ check[c].pc = "create"
  BY InIs DEF CreateFile
<1>2. UNCHANGED <<tree, repo, load, faults, hist>> /\ ActivityDone(c)
  BY Faults DEF CreateFile
<1> DEFINE f == [content |-> check[c].found, status |-> "pending"]
<1>3. check[c].found \in Readmes
  BY <1>1, Rows DEF CheckShape, Check, Contents
<1>4. f \in File /\ f.content = check[c].found /\ f.status = "pending"
  BY <1>3 DEF File, Verdicts
<1>5. files \in Seq(File) /\ files' = Append(files, f)
  BY DEF Typed, CheckTypes, CreateFile
<1> HIDE DEF f
<1>6. /\ files' \in Seq(File) /\ DOMAIN files' = DOMAIN files \cup {Len(files) + 1}
      /\ \A i \in DOMAIN files : files'[i] = files[i]
      /\ files'[Len(files) + 1] = f
  BY <1>4, <1>5
<1> QED BY <1>1, <1>2, <1>4, <1>6, DoneIs

LEMMA BatchGetUnchckedIs ==
  ASSUME Typed, NEW c \in C, BatchGetUnchcked(c)
  PROVE  /\ Stays(c) /\ UNCHANGED <<tree, repo, files, load, faults, hist>>
         /\ check[c].st = "run" /\ check[c].act = 3 /\ check[c].pc = "start" /\ check'[c].st = "run"
         /\ \/ /\ \A i \in DOMAIN files : files[i].status # "pending"
               /\ check'[c].act = 4 /\ check'[c].pc = "start"
            \/ /\ check'[c].act = 3 /\ check'[c].pc = "run" /\ check'[c].todo # {}
               /\ check'[c].todo = {i \in DOMAIN files : files[i].status = "pending"}
<1>1. check[c].st = "run" /\ check[c].act = 3 /\ check[c].pc = "start" /\ check[c] \in Check
  BY InIs, Rows DEF BatchGetUnchcked
<1>2. UNCHANGED <<tree, repo, files, load, faults, hist>>
  BY Faults DEF BatchGetUnchcked
<1> DEFINE ids == {i \in DOMAIN files : files[i].status = "pending"}
<1>3. IF ids = {} THEN ActivityDone(c) ELSE Set(c, [check[c] EXCEPT !.pc = "run", !.todo = ids, !.row = repo])
  BY DEF BatchGetUnchcked
<1>4. CASE ids = {}
  BY <1>1, <1>2, <1>3, <1>4, DoneIs
<1>5. CASE ids # {}
  <2> DEFINE r == [check[c] EXCEPT !.pc = "run", !.todo = ids, !.row = repo]
  <2>1. ids \in SUBSET Nat /\ repo \in Row
    BY Rows DEF Typed, CheckTypes
  <2>2. /\ r \in Check /\ r.pc = "run" /\ r.st = check[c].st /\ r.act = check[c].act
        /\ r.todo = ids
    BY <1>1, <2>1 DEF Check, CheckPcs
  <2>3. Set(c, r)
    BY <1>3, <1>5
  <2> HIDE DEF r
  <2> QED BY <1>1, <1>2, <1>5, <2>2, <2>3, SetIs
<1> QED BY <1>4, <1>5

LEMMA processFileIs ==
  ASSUME Typed, NEW c \in C, processFile(c)
  PROVE  /\ Stays(c) /\ UNCHANGED <<tree, repo, files, load>> /\ faults' \in Nat
         /\ Note("moved") \/ Note("logged") \/ UNCHANGED hist
         /\ check[c].st = "run" /\ check[c].act = 3 /\ check[c].pc = "run"
         /\ check'[c].st = "run" /\ check'[c].act = 3 /\ check'[c].todo = check[c].todo
         /\ check'[c].verdict \in {"pass", "fail", "exception"}
         /\ check'[c].pc = IF check'[c].verdict = "fail" THEN "hide" ELSE "record"
         /\ ~hist'.moved /\ ~hist'.logged =>
              /\ check'[c].verdict # "exception"
              /\ check'[c].verdict = "fail" <=> files[Checked(c)].content \in Sensitive
<1>1. check[c].st = "run" /\ check[c].act = 3 /\ check[c].pc = "run" /\ check[c] \in Check
  BY InIs, Rows DEF processFile
<1>2. PICK v \in {"pass", "fail", "exception"} :
         /\ Set(c, [check[c] EXCEPT !.verdict = v, !.pc = Results(v)[1]])
         /\ IF tree[Main].readme = None THEN v = "exception" /\ Note("moved") /\ UNCHANGED faults
            ELSE IF v = "exception" THEN Fault /\ Note("logged")
            ELSE /\ (v = "fail") = (tree[Main].readme \in Sensitive)
                 /\ IF tree[Main].readme # files[Checked(c)].content THEN Note("moved") ELSE UNCHANGED hist
                 /\ UNCHANGED faults
  BY DEF processFile
<1> DEFINE r == [check[c] EXCEPT !.verdict = v, !.pc = Results(v)[1]]
<1>3. Results(v)[1] = IF v = "fail" THEN "hide" ELSE "record"
  BY DEF Results
<1>4. /\ r \in Check /\ r.st = check[c].st /\ r.act = check[c].act /\ r.todo = check[c].todo
      /\ r.verdict = v /\ r.pc = IF v = "fail" THEN "hide" ELSE "record"
  BY <1>1, <1>3 DEF Check, CheckPcs, Verdicts
<1>5. Set(c, r)
  BY <1>2
<1> HIDE DEF r
<1>6. Stays(c) /\ check'[c] = r
  BY <1>4, <1>5, SetIs
<1>7. faults' \in Nat /\ (Note("moved") \/ Note("logged") \/ UNCHANGED hist)
  BY <1>2, Faults
<1>8. ~hist'.moved /\ ~hist'.logged =>
         v # "exception" /\ (v = "fail" <=> files[Checked(c)].content \in Sensitive)
  <2>1. Note("moved") => hist'.moved
    BY Noted DEF Flags
  <2>2. Note("logged") => hist'.logged
    BY Noted DEF Flags
  <2> QED BY <1>2, <2>1, <2>2
<1>9. UNCHANGED <<tree, repo, files, load>>
  BY DEF processFile
<1> QED BY <1>1, <1>4, <1>6, <1>7, <1>8, <1>9

LEMMA hideRepoIs ==
  ASSUME Typed, NEW c \in C, CheckShape(c), hideRepo(c)
  PROVE  /\ Stays(c) /\ UNCHANGED <<tree, files, load>> /\ faults' \in Nat
         /\ Note("logged") \/ Note("relicensed") \/ UNCHANGED hist
         /\ repo' \in Row /\ LicenseStays
         /\ (repo' = repo /\ hist'.logged) \/ (repo'.private /\ repo'.status = "fail")
         /\ check[c].st = "run" /\ check[c].act = 3 /\ check[c].pc = "hide" /\ check[c].verdict = "fail"
         /\ check'[c].st = "run" /\ check'[c].act = 3 /\ check'[c].pc = "record"
         /\ check'[c].todo = check[c].todo /\ check'[c].verdict = "fail"
<1>1. check[c].st = "run" /\ check[c].act = 3 /\ check[c].pc = "hide" /\ check[c].verdict = "fail"
  BY InIs DEF hideRepo, CheckShape
<1>2. /\ Stays(c) /\ check'[c].st = "run" /\ check'[c].act = 3 /\ check'[c].pc = "record"
      /\ check'[c].todo = check[c].todo /\ check'[c].verdict = "fail"
  BY <1>1, NextResultIs DEF hideRepo
<1>3. CASE /\ repo' = [check[c].row EXCEPT !.private = TRUE, !.status = "fail"]
           /\ IF Relicensed(check[c].row) THEN Note("relicensed") ELSE UNCHANGED hist
           /\ UNCHANGED faults
  <2>1. check[c].row \in Row
    BY Rows DEF Check
  <2>2. /\ repo' \in Row /\ repo'.private /\ repo'.status = "fail"
        /\ repo'.license = check[c].row.license
    BY <1>3, <2>1 DEF Row, Verdicts
  <2>3. LicenseStays
    BY <1>3, <2>2, Noted DEF LicenseStays, Relicensed, Flags
  <2> QED BY <1>1, <1>2, <1>3, <2>2, <2>3, Faults DEF hideRepo
<1>4. CASE UNCHANGED repo /\ Fault /\ Note("logged")
  <2>1. hist'.logged
    BY <1>4, Noted DEF Flags
  <2>2. repo' \in Row /\ faults' \in Nat
    BY <1>4, Faults DEF Typed, CheckTypes
  <2> QED BY <1>1, <1>2, <1>4, <2>1, <2>2 DEF hideRepo, LicenseStays
<1> QED BY <1>3, <1>4 DEF hideRepo

LEMMA UpsertIs ==
  ASSUME Typed, NEW c \in C, CheckShape(c), Upsert(c)
  PROVE  /\ Stays(c) /\ UNCHANGED <<tree, repo, load>> /\ faults' \in Nat
         /\ Note("logged") \/ Note("stale") \/ UNCHANGED hist
         /\ files' \in Seq(File) /\ DOMAIN files' = DOMAIN files
         /\ check[c].st = "run" /\ check[c].act = 3 /\ check[c].pc = "record"
         /\ Checked(c) \in check[c].todo /\ Checked(c) \in DOMAIN files
         /\ \/ hist'.logged /\ files' = files
            \/ /\ \A i \in DOMAIN files : files'[i].content = files[i].content
               /\ \A i \in DOMAIN files \ {Checked(c)} : files'[i] = files[i]
               /\ files'[Checked(c)].status = check[c].verdict
               /\ hist'.stale \/ \A d \in C : ~Decided(d)
         /\ check'[c].st = "run"
         /\ \/ check[c].todo = {Checked(c)} /\ check'[c].act = 4 /\ check'[c].pc = "start"
            \/ /\ check'[c].act = 3 /\ check'[c].pc = "run" /\ check'[c].todo # {}
               /\ check'[c].todo = check[c].todo \ {Checked(c)}
<1>1. check[c].st = "run" /\ check[c].act = 3 /\ check[c].pc = "record" /\ check[c] \in Check
  BY InIs, Rows DEF Upsert
<1>2. /\ Stays(c) /\ check'[c].st = "run"
      /\ \/ check[c].todo = {Checked(c)} /\ check'[c].act = 4 /\ check'[c].pc = "start"
         \/ /\ check'[c].act = 3 /\ check'[c].pc = "run" /\ check'[c].todo # {}
            /\ check'[c].todo = check[c].todo \ {Checked(c)}
  BY <1>1, NextResultIs DEF Upsert
<1>3. Checked(c) \in check[c].todo /\ Checked(c) \in DOMAIN files
  <2>1. check[c].todo \in SUBSET Nat /\ check[c].todo # {} /\ check[c].todo \subseteq DOMAIN files
    BY <1>1 DEF Check, CheckShape
  <2> QED BY <2>1, Least DEF Checked
<1>4. UNCHANGED <<tree, repo, load>>
  BY DEF Upsert
<1>f. files \in Seq(File)
  BY DEF Typed, CheckTypes
<1>5. CASE /\ files' = [files EXCEPT ![Checked(c)].status = check[c].verdict]
           /\ IF \E d \in C : Decided(d) THEN Note("stale") ELSE UNCHANGED hist
           /\ UNCHANGED faults
  <2> DEFINE i == Checked(c)
             f == [files[i] EXCEPT !.status = check[c].verdict]
  <2>1. files[i] \in File /\ check[c].verdict \in Verdicts
    BY <1>1, <1>3, Rows DEF Check
  <2>2. f \in File /\ f.content = files[i].content /\ f.status = check[c].verdict
    BY <2>1 DEF File
  <2>3. files' = [files EXCEPT ![i] = f] /\ i \in 1 .. Len(files)
    BY <1>3, <1>5, Rows
  <2> HIDE DEF f, i
  <2>4. /\ files' \in Seq(File) /\ DOMAIN files' = DOMAIN files /\ files'[i] = f
        /\ \A j \in DOMAIN files \ {i} : files'[j] = files[j]
    BY <1>f, <2>2, <2>3, ExceptSeq
  <2>5. hist'.stale \/ \A d \in C : ~Decided(d)
    BY <1>5, Noted DEF Flags
  <2>6. faults' \in Nat
    BY <1>5, Faults
  <2>7. /\ \A j \in DOMAIN files : files'[j].content = files[j].content
        /\ \A j \in DOMAIN files \ {Checked(c)} : files'[j] = files[j]
        /\ files'[Checked(c)].status = check[c].verdict
    BY <2>2, <2>4 DEF i
  <2>8. Note("stale") \/ UNCHANGED hist
    BY <1>5
  <2> QED BY <1>1, <1>2, <1>3, <1>4, <2>4, <2>5, <2>6, <2>7, <2>8
<1>6. CASE UNCHANGED files /\ Fault /\ Note("logged")
  <2>1. hist'.logged /\ faults' \in Nat
    BY <1>6, Noted, Faults DEF Flags
  <2> QED BY <1>1, <1>2, <1>3, <1>4, <1>f, <1>6, <2>1
<1> QED BY <1>5, <1>6 DEF Upsert

LEMMA DetectFailedIs ==
  ASSUME Typed, NEW c \in C, DetectFailed(c)
  PROVE  /\ Stays(c) /\ UNCHANGED <<tree, repo, files, load, faults, hist>>
         /\ check[c].st = "run" /\ check[c].act = 4 /\ check[c].pc = "failed"
         /\ check'[c].st = "run" /\ check'[c].act = 4
         /\ IF ExistsSensitiveCheckRecord("fail")
            THEN check'[c].pc = "save" /\ check'[c].verdict = "fail" ELSE check'[c].pc = "exceptions"
<1>1. check[c].st = "run" /\ check[c].act = 4 /\ check[c].pc = "failed" /\ check[c] \in Check
  BY InIs, Rows DEF DetectFailed
<1>2. UNCHANGED <<tree, repo, files, load, faults, hist>>
  BY Faults DEF DetectFailed
<1>3. CASE ExistsSensitiveCheckRecord("fail")
  <2> DEFINE r == [check[c] EXCEPT !.pc = "save", !.verdict = "fail"]
  <2>1. /\ r \in Check /\ r.pc = "save" /\ r.st = check[c].st /\ r.act = check[c].act
        /\ r.verdict = "fail"
    BY <1>1 DEF Check, CheckPcs, Verdicts
  <2>2. Set(c, r)
    BY <1>3 DEF DetectFailed
  <2> HIDE DEF r
  <2> QED BY <1>1, <1>2, <1>3, <2>1, <2>2, SetIs
<1>4. CASE ~ExistsSensitiveCheckRecord("fail")
  <2>1. Go(c, "exceptions") /\ "exceptions" \in CheckPcs
    BY <1>4 DEF DetectFailed, CheckPcs
  <2> QED BY <1>1, <1>2, <1>4, <2>1, GoIs
<1> QED BY <1>3, <1>4

LEMMA DetectExceptionIs ==
  ASSUME Typed, NEW c \in C, DetectException(c)
  PROVE  /\ Stays(c) /\ UNCHANGED <<tree, repo, files, load, faults, hist>>
         /\ check[c].st = "run" /\ check[c].act = 4 /\ check[c].pc = "exceptions"
         /\ check'[c].st = "run" /\ check'[c].act = 4 /\ check'[c].pc = "save"
<1>1. check[c].st = "run" /\ check[c].act = 4 /\ check[c].pc = "exceptions" /\ check[c] \in Check
  BY InIs, Rows DEF DetectException
<1>2. UNCHANGED <<tree, repo, files, load, faults, hist>>
  BY Faults DEF DetectException
<1> DEFINE v == IF ExistsSensitiveCheckRecord("exception") THEN "exception" ELSE "pass"
           r == [check[c] EXCEPT !.pc = "save", !.verdict = v]
<1>3. r \in Check /\ r.pc = "save" /\ r.st = check[c].st /\ r.act = check[c].act
  BY <1>1 DEF Check, CheckPcs, Verdicts
<1>4. Set(c, r)
  BY DEF DetectException
<1> HIDE DEF r
<1> QED BY <1>1, <1>2, <1>3, <1>4, SetIs

LEMMA SaveStatusIs ==
  ASSUME Typed, NEW c \in C, SaveStatus(c)
  PROVE  /\ Stays(c) /\ UNCHANGED <<tree, files, load, faults>>
         /\ check[c].st = "run" /\ check[c].act = 4 /\ check[c].pc = "save"
         /\ check'[c].st = "done" /\ check'[c].act = 4 /\ check'[c].pc = "start"
         /\ repo' \in Row /\ (~hist'.stale => repo'.private = repo.private)
         /\ repo'.status = check[c].verdict
         /\ HistGrows /\ LicenseStays
<1>1. check[c].st = "run" /\ check[c].act = 4 /\ check[c].pc = "save" /\ check[c].verdict \in Verdicts
  BY InIs, Rows DEF SaveStatus, Check
<1>2. UpdateRepo(c, check[c].verdict) /\ ActivityDone(c)
  BY DEF SaveStatus
<1> QED BY <1>1, <1>2, UpdateRepoIs, DoneIs DEF SaveStatus

\* Records stay, with their contents.
Recorded == \A i \in DOMAIN files : i \in DOMAIN files' /\ files'[i].content = files[i].content

LEMMA CheckShapesKept ==
  ASSUME Typed, CheckShapes, NEW c \in C, CheckStep(c) \/ ActivityFails(c)
  PROVE  CheckShapes' /\ CheckTypes' /\ Stays(c) /\ Recorded
<1>0. CheckShape(c) /\ repo \in Row /\ files \in Seq(File)
  BY DEF CheckShapes, Typed, CheckTypes
<1>1. ASSUME Stays(c), CheckShape(c)', Recorded
      PROVE  CheckShapes'
  <2>1. DOMAIN files \subseteq DOMAIN files'
    BY <1>1 DEF Recorded
  <2>2. ASSUME NEW d \in C, d # c
        PROVE  CheckShape(d)'
    <3>1. check'[d] = check[d] /\ CheckShape(d)
      BY <1>1, <2>2 DEF CheckShapes, Stays
    <3> QED BY <2>1, <3>1 DEF CheckShape
  <2> QED BY <1>1, <2>2 DEF CheckShapes, Stays
<1>2. ASSUME Stays(c), files' = files, repo' \in Row, CheckShape(c)'
      PROVE  CheckShapes' /\ CheckTypes' /\ Stays(c) /\ Recorded
  <2>1. Recorded
    BY <1>2 DEF Recorded
  <2> QED BY <1>0, <1>1, <1>2, <2>1 DEF CheckTypes, Stays
<1>3. CASE FindByPath(c)
  <2>1. CheckShape(c)'
    BY <1>3, FindByPathIs DEF CheckShape
  <2> QED BY <1>0, <1>2, <1>3, <2>1, FindByPathIs
<1>4. CASE UpdateRepoSensitiveCheckStatus(c)
  <2>1. CheckShape(c)'
    BY <1>4, PendingIs DEF CheckShape
  <2> QED BY <1>2, <1>4, <2>1, PendingIs
<1>5. CASE GenRepoFileRecords(c)
  <2>1. CheckShape(c)'
    BY <1>5, GenRepoFileRecordsIs DEF CheckShape
  <2> QED BY <1>0, <1>2, <1>5, <2>1, GenRepoFileRecordsIs
<1>6. CASE Exists(c)
  <2>1. CheckShape(c)'
    BY <1>0, <1>6, ExistsIs DEF CheckShape
  <2> QED BY <1>0, <1>2, <1>6, <2>1, ExistsIs
<1>7. CASE CreateFile(c)
  <2>1. CheckShape(c)'
    BY <1>0, <1>7, CreateFileIs DEF CheckShape
  <2>2. Recorded
    BY <1>0, <1>7, CreateFileIs DEF Recorded
  <2> QED BY <1>0, <1>1, <1>7, <2>1, <2>2, CreateFileIs DEF CheckTypes, Stays
<1>8. CASE BatchGetUnchcked(c)
  <2>1. CheckShape(c)'
    BY <1>8, BatchGetUnchckedIs DEF CheckShape
  <2> QED BY <1>0, <1>2, <1>8, <2>1, BatchGetUnchckedIs
<1>9. CASE processFile(c)
  <2>1. CheckShape(c)'
    BY <1>0, <1>9, processFileIs DEF CheckShape
  <2> QED BY <1>0, <1>2, <1>9, <2>1, processFileIs
<1>10. CASE hideRepo(c)
  <2>1. CheckShape(c)'
    BY <1>0, <1>10, hideRepoIs DEF CheckShape
  <2> QED BY <1>0, <1>2, <1>10, <2>1, hideRepoIs
<1>11. CASE Upsert(c)
  <2>1. CheckShape(c)'
    <3>1. /\ check'[c].st = "run" /\ check[c].todo \subseteq DOMAIN files /\ DOMAIN files' = DOMAIN files
          /\ \/ check'[c].act = 4 /\ check'[c].pc = "start"
             \/ /\ check'[c].act = 3 /\ check'[c].pc = "run" /\ check'[c].todo # {}
                /\ check'[c].todo \subseteq check[c].todo
      BY <1>0, <1>11, UpsertIs DEF CheckShape
    <3> QED BY <3>1 DEF CheckShape
  <2>2. Recorded
    BY <1>0, <1>11, UpsertIs DEF Recorded
  <2>3. Stays(c) /\ files' \in Seq(File) /\ repo' = repo
    BY <1>0, <1>11, UpsertIs
  <2> QED BY <1>0, <1>1, <2>1, <2>2, <2>3 DEF CheckTypes, Stays
<1>12. CASE DetectFailed(c)
  <2>1. CheckShape(c)'
    BY <1>12, DetectFailedIs DEF CheckShape
  <2> QED BY <1>0, <1>2, <1>12, <2>1, DetectFailedIs
<1>13. CASE DetectException(c)
  <2>1. CheckShape(c)'
    BY <1>13, DetectExceptionIs DEF CheckShape
  <2> QED BY <1>0, <1>2, <1>13, <2>1, DetectExceptionIs
<1>14. CASE SaveStatus(c)
  <2>1. CheckShape(c)'
    BY <1>14, SaveStatusIs DEF CheckShape
  <2> QED BY <1>0, <1>2, <1>14, <2>1, SaveStatusIs
<1>15. CASE ActivityFails(c)
  <2>1. CheckShape(c)'
    BY <1>0, <1>15, FailsIs DEF CheckShape
  <2>2. UNCHANGED <<repo, files>>
    BY <1>15 DEF ActivityFails
  <2> QED BY <1>0, <1>2, <1>15, <2>1, <2>2, FailsIs
<1> QED BY <1>3, <1>4, <1>5, <1>6, <1>7, <1>8, <1>9, <1>10, <1>11, <1>12, <1>13, <1>14, <1>15 DEF CheckStep

\* Nothing of what SensitiveIsHidden excludes has happened.
Trusted == ~hist.stale /\ ~hist.moved /\ ~hist.logged

LEMMA CheckHist ==
  ASSUME Typed, CheckShapes, NEW c \in C, CheckStep(c) \/ ActivityFails(c)
  PROVE  UNCHANGED <<tree, load>> /\ faults' \in Nat /\ HistGrows /\ LicenseStays
<1>0. CheckShape(c) /\ PushTypes
  BY DEF CheckShapes, Typed
<1>1. \A f \in {"stale", "relicensed", "moved", "logged"} : f \in Flags
  BY DEF Flags
<1>2. UNCHANGED hist \/ (\E f \in Flags : Note(f)) => HistGrows
  BY HistKept
<1>3. CASE FindByPath(c) \/ GenRepoFileRecords(c) \/ CreateFile(c) \/ BatchGetUnchcked(c)
           \/ DetectFailed(c) \/ DetectException(c)
  BY <1>0, <1>2, <1>3, FindByPathIs, GenRepoFileRecordsIs, CreateFileIs, BatchGetUnchckedIs, DetectFailedIs,
     DetectExceptionIs DEF PushTypes, LicenseStays
<1>4. CASE UpdateRepoSensitiveCheckStatus(c) \/ SaveStatus(c)
  BY <1>0, <1>4, PendingIs, SaveStatusIs DEF PushTypes
<1>5. CASE Exists(c) \/ processFile(c) \/ Upsert(c)
  BY <1>0, <1>1, <1>2, <1>5, ExistsIs, processFileIs, UpsertIs DEF LicenseStays
<1>6. CASE hideRepo(c)
  BY <1>0, <1>1, <1>2, <1>6, hideRepoIs
<1>7. CASE ActivityFails(c)
  BY <1>0, <1>2, <1>7, Faults DEF ActivityFails, LicenseStays
<1> QED BY <1>3, <1>4, <1>5, <1>6, <1>7 DEF CheckStep

LEMMA CheckFrame ==
  ASSUME Typed, CheckShapes, NEW c \in C, CheckStep(c) \/ ActivityFails(c), UNCHANGED <<wf, rows>>
  PROVE  PushTypes' /\ (Trusted' => Trusted) /\ tree' = tree /\ load' = load
<1>1. UNCHANGED <<tree, load>> /\ faults' \in Nat /\ HistGrows
  BY CheckHist
<1>2. Trusted' => Trusted
  BY <1>1 DEF HistGrows, Trusted, Flags
<1> QED BY <1>1, <1>2 DEF HistGrows, Typed, PushTypes, Counter, rows

----------------------------------------------------------------------------
(* Types and shapes, after each step. *)

Base == Typed /\ Shapes /\ CheckShapes

LEMMA CrossedIs ==
  ASSUME Typed, NEW b \in BOOLEAN, hist' = [hist EXCEPT !.crossed = @ \/ b]
  PROVE  /\ hist' \in [Flags -> BOOLEAN] /\ \A g \in Flags : hist[g] => hist'[g]
         /\ hist'.crossed <=> hist.crossed \/ b
         /\ \A g \in Flags \ {"crossed"} : hist'[g] = hist[g]
BY DEF Flags, Typed, PushTypes

\* The rows of the repository that the workflows write.
Stored ==
    /\ known' \subseteq Tags /\ repoTags' \subseteq Tags /\ Counter' /\ (libRow => libRow')
    /\ tree' = tree /\ load' = load /\ faults' \in Nat
    /\ HistGrows
    /\ files' = files /\ repo' \in Row
    /\ ~hist'.stale => repo'.private = repo.private /\ repo'.status = repo.status

LEMMA StoredIs ==
  ASSUME Typed, UNCHANGED <<checkVars, tree, load>>, faults' \in Nat, HistGrows,
         known' \subseteq Tags, repoTags' \subseteq Tags,
         UNCHANGED <<libRow, libCount>> \/ (Counter' /\ (libRow => libRow'))
  PROVE  Stored /\ check' = check
BY DEF Stored, checkVars, Typed, PushTypes, CheckTypes, Counter

LEMMA WatchStored ==
  ASSUME Typed, NEW w \in W,
         \/ FixHasEntryFile(w) \/ Deploy(w) \/ toRepoIDsFromReadme(w) \/ Override(w)
         \/ SetRepoUpdateTime(w) \/ SensitiveCheck(w)
         \/ WorkerDies(w) \/ WatcherFails(w) \/ CallFails(w)
  PROVE  Stored /\ (check' = check \/ SensitiveCheck(w))
<1>0. known \subseteq Tags /\ repoTags \subseteq Tags /\ "logged" \in Flags /\ "repeated" \in Flags
  BY DEF Typed, PushTypes, Flags
<1>1. CASE FixHasEntryFile(w)
  <2>1. faults' \in Nat /\ (UNCHANGED hist \/ Note("logged"))
    BY <1>1, Faults DEF FixHasEntryFile
  <2>2. HistGrows
    BY <1>0, <2>1, HistKept
  <2> QED BY <1>0, <1>1, <2>1, <2>2, StoredIs DEF FixHasEntryFile
<1>2. CASE Deploy(w) \/ toRepoIDsFromReadme(w) \/ SetRepoUpdateTime(w) \/ CallFails(w)
  <2>1. UNCHANGED <<hist, checkVars, tree, load, known, repoTags, libRow, libCount>> /\ faults' \in Nat
    BY <1>2, Faults DEF Deploy, toRepoIDsFromReadme, SetRepoUpdateTime, CallFails, rows
  <2>2. HistGrows
    BY <2>1, HistKept
  <2> QED BY <1>0, <2>1, <2>2, StoredIs
<1>3. CASE SensitiveCheck(w)
  <2>1. UNCHANGED <<hist, repo, files, tree, load, known, repoTags, libRow, libCount>> /\ faults' \in Nat
    BY <1>3, Faults DEF SensitiveCheck, rows
  <2>2. HistGrows
    BY <2>1, HistKept
  <2> QED BY <1>3, <2>1, <2>2 DEF Stored, Typed, PushTypes, CheckTypes, Counter
<1>4. CASE Override(w)
  <2> DEFINE b == \E v \in W : v > w /\ ReadForRelations(v)
  <2>1. hist' = [hist EXCEPT !.crossed = @ \/ b] /\ b \in BOOLEAN
    BY <1>4 DEF Override
  <2> HIDE DEF b
  <2>2. HistGrows
    BY <2>1, CrossedIs DEF HistGrows
  <2>3. faults' \in Nat
    BY <1>4, Faults DEF Override
  <2> QED BY <1>0, <1>4, <2>2, <2>3, StoredIs DEF Override
<1>5. CASE WorkerDies(w) \/ WatcherFails(w)
  <2>1. faults' \in Nat /\ (UNCHANGED hist \/ Note("logged") \/ Note("repeated"))
    BY <1>5, Faults DEF WorkerDies, WatcherFails
  <2>2. HistGrows
    BY <1>0, <2>1, HistKept
  <2> QED BY <1>0, <1>5, <2>1, <2>2, StoredIs DEF WorkerDies, WatcherFails, rows
<1> QED BY <1>1, <1>2, <1>3, <1>4, <1>5

\* The row of the repository is written back, and what came in between is noted.
LEMMA RelicenseIs ==
  ASSUME Typed, NEW w \in W, UpdateLicenseByTag(w)
  PROVE  /\ repo' \in Row /\ repo'.license = wf[w].license /\ HistGrows
         /\ ~hist'.stale => repo'.private = repo.private /\ repo'.status = repo.status
         /\ \A g \in Flags \ {"stale", "crossed"} : hist'[g] = hist[g]
         /\ hist'.crossed = (hist.crossed \/ \E v \in W : v > w /\ ReadForTags(v))
<1> DEFINE a == Outdated(wf[w].row)
           b == \E v \in W : v > w /\ ReadForTags(v)
<1>1. /\ repo' = [wf[w].row EXCEPT !.license = wf[w].license]
      /\ hist' = [hist EXCEPT !.stale = @ \/ a, !.crossed = @ \/ b]
  BY DEF UpdateLicenseByTag
<1>2. /\ repo' \in Row /\ repo'.license = wf[w].license
      /\ repo'.private = wf[w].row.private /\ repo'.status = wf[w].row.status
  BY <1>1, Rows DEF Row, Workflow
<1>3. a \in BOOLEAN /\ b \in BOOLEAN /\ "stale" \in Flags /\ "crossed" \in Flags /\ "stale" # "crossed"
  BY DEF Outdated, Flags
<1>4. ~a => repo.private = wf[w].row.private /\ repo.status = wf[w].row.status
  BY DEF Outdated
<1> HIDE DEF a
<1>5. hist \in [Flags -> BOOLEAN]
  BY DEF Typed, PushTypes
<1>6. HistGrows /\ hist'["stale"] = (hist["stale"] \/ a) /\ hist'["crossed"] = (hist["crossed"] \/ b)
      /\ \A g \in Flags \ {"stale", "crossed"} : hist'[g] = hist[g]
  <2> HIDE DEF b
  <2>1. /\ hist'["stale"] = (hist["stale"] \/ a) /\ hist'["crossed"] = (hist["crossed"] \/ b)
        /\ DOMAIN hist' = Flags /\ hist' = [h \in Flags |-> hist'[h]]
        /\ \A h \in Flags \ {"stale", "crossed"} : hist'[h] = hist[h]
    BY <1>1, <1>3, <1>5
  <2> QED BY <1>3, <2>1, NotedTwo
<1> QED BY <1>2, <1>4, <1>6

LEMMA InfosStored ==
  ASSUME Typed, NEW w \in W, Shape(w), Infos(w)
  PROVE  Stored /\ check' = check
<1>0. /\ known \subseteq Tags /\ repoTags \subseteq Tags /\ Counter
      /\ \A f \in {"logged", "repeated", "skipped", "unread"} : f \in Flags
  BY DEF Typed, PushTypes, Flags
<1>w. wf[w].new \subseteq Tags /\ wf[w].tags \subseteq Tags
  BY Rows DEF Workflow
<1>k. ASSUME UNCHANGED <<checkVars, tree, load, known, repoTags, libRow, libCount>>, UNCHANGED faults \/ Fault,
             UNCHANGED hist \/ \E f \in {"logged", "repeated", "skipped", "unread"} : Note(f)
      PROVE  Stored /\ check' = check
  <2>1. HistGrows /\ faults' \in Nat
    BY <1>0, <1>k, HistKept, Faults
  <2> QED BY <1>0, <1>k, <2>1, StoredIs
<1>1. CASE UpdateRepoInfos(w) \/ SetMetaTags(w) \/ InfoFails(w) \/ getFileRaw(w) \/ InfosUpdated(w)
  <2>1. /\ UNCHANGED <<checkVars, tree, load, known, repoTags, libRow, libCount>> /\ (UNCHANGED faults \/ Fault)
        /\ UNCHANGED hist \/ Note("unread") \/ Note("repeated")
    BY <1>1 DEF UpdateRepoInfos, SetMetaTags, InfoFails, getFileRaw, InfosUpdated, rows
  <2> QED BY <1>k, <2>1
<1>2. CASE ProcessReadme(w)
  <2>1. /\ UNCHANGED <<checkVars, tree, load, known, repoTags, libRow, libCount>> /\ (UNCHANGED faults \/ Fault)
        /\ UNCHANGED hist \/ Note("unread") \/ Note("logged")
    BY <1>2 DEF ProcessReadme, rows
  <2> QED BY <1>k, <2>1
<1>3. CASE SaveTags(w)
  <2>1. UNCHANGED <<hist, checkVars, tree, load, repoTags, libRow, libCount>> /\ faults' \in Nat
    BY <1>3, Faults DEF SaveTags
  <2>2. known' \subseteq Tags
    BY <1>0, <1>3, <1>w DEF SaveTags
  <2>3. HistGrows
    BY <2>1, HistKept
  <2> QED BY <1>0, <2>1, <2>2, <2>3, StoredIs
<1>4. CASE ReplaceMetaTags(w)
  <2>1. UNCHANGED <<checkVars, tree, load, known, libRow, libCount>> /\ faults' \in Nat
    BY <1>4, Faults DEF ReplaceMetaTags
  <2>2. repoTags' \subseteq Tags
    BY <1>0, <1>4, <1>w DEF ReplaceMetaTags
  <2> DEFINE b == \E v \in W : v > w /\ ReadForTags(v)
  <2>3. UNCHANGED hist \/ hist' = [hist EXCEPT !.crossed = @ \/ b]
    BY <1>4 DEF ReplaceMetaTags
  <2>4. b \in BOOLEAN
    OBVIOUS
  <2> HIDE DEF b
  <2>5. HistGrows
    BY <2>3, <2>4, CrossedIs, HistKept DEF HistGrows
  <2> QED BY <1>0, <2>1, <2>2, <2>5, StoredIs
<1>5. CASE SelectLicense(w) \/ FindById(w) \/ LicenseFails(w) \/ SelectLibraryTag(w)
  <2>1. /\ UNCHANGED <<checkVars, tree, load, known, repoTags, libRow, libCount>> /\ (UNCHANGED faults \/ Fault)
        /\ UNCHANGED hist \/ Note("logged")
    BY <1>5 DEF SelectLicense, FindById, LicenseFails, SelectLibraryTag, rows
  <2> QED BY <1>k, <2>1
<1>6. CASE UpdateLicenseByTag(w)
  <2>1. UNCHANGED <<files, check, tree, load, known, repoTags, libRow, libCount>> /\ faults' \in Nat
    BY <1>6, Faults DEF UpdateLicenseByTag, rows
  <2>2. /\ repo' \in Row /\ HistGrows
        /\ ~hist'.stale => repo'.private = repo.private /\ repo'.status = repo.status
    BY <1>6, RelicenseIs
  <2> QED BY <1>0, <2>1, <2>2 DEF Stored, Counter
<1>7. CASE SetLibraryTag(w)
  <2>1. UNCHANGED <<hist, checkVars, tree, load, known, repoTags>> /\ faults' \in Nat
    BY <1>7, Faults DEF SetLibraryTag
  <2>2. HistGrows
    BY <2>1, HistKept
  <2>3. At(w, "UpdateRepoInfos", "update") => libRow
    BY AtIs DEF Shape
  <2>5. \/ UNCHANGED <<libRow, libCount>>
        \/ libRow' = TRUE /\ libCount' = 1
        \/ libRow /\ libRow' = libRow /\ libCount' = libCount + 1
    BY <1>7, <2>3 DEF SetLibraryTag
  <2>4. UNCHANGED <<libRow, libCount>> \/ (Counter' /\ (libRow => libRow'))
    <3>1. CASE libRow' = TRUE /\ libCount' = 1
      BY <3>1 DEF Counter
    <3>2. CASE libRow /\ libRow' = libRow /\ libCount' = libCount + 1
      BY <1>0, <3>2 DEF Counter
    <3> QED BY <2>5, <3>1, <3>2
  <2> QED BY <1>0, <2>1, <2>2, <2>4, StoredIs
<1>8. CASE RemoveLibraryTag(w)
  <2>1. /\ UNCHANGED <<checkVars, tree, load, known, repoTags, libRow>> /\ faults' \in Nat
        /\ UNCHANGED hist \/ Note("skipped")
    BY <1>8, Faults DEF RemoveLibraryTag
  <2>2. HistGrows
    BY <1>0, <2>1, HistKept
  <2>3. Counter' /\ (libRow => libRow')
    BY <1>0, <1>8, <2>1 DEF RemoveLibraryTag, Counter
  <2> QED BY <1>0, <2>1, <2>2, <2>3, StoredIs
<1> QED BY <1>1, <1>2, <1>3, <1>4, <1>5, <1>6, <1>7, <1>8 DEF Infos, LicenseSteps, LibrarySteps

\* The steps of a workflow, with those that fail.
Works(w) == Step(w) \/ WorkerDies(w) \/ WatcherFails(w) \/ CallFails(w) \/ InfoFails(w) \/ LicenseFails(w)

LEMMA WorkCases ==
  ASSUME NEW w, Works(w)
  PROVE  \/ FixHasEntryFile(w) \/ Deploy(w) \/ toRepoIDsFromReadme(w) \/ Override(w)
         \/ SetRepoUpdateTime(w) \/ SensitiveCheck(w)
         \/ WorkerDies(w) \/ WatcherFails(w) \/ CallFails(w)
         \/ Infos(w)
BY DEF Works, Step, Infos, LicenseSteps, LibrarySteps

LEMMA WorkIs ==
  ASSUME Typed, Shapes, NEW w \in W, Works(w)
  PROVE  /\ Moves(w) /\ Shapes' /\ Stored /\ PushTypes'
         /\ check' = check \/ SensitiveCheck(w)
<1>0. Shape(w)
  BY DEF Shapes
<1>1. Stored /\ (check' = check \/ SensitiveCheck(w))
  BY <1>0, WorkCases, WatchStored, InfosStored
<1>2. Moves(w) /\ Shape(w)'
  BY <1>0, <1>1, WorkCases, WatchShape, InfosShape DEF Stored
<1>3. ASSUME NEW v \in W, v # w
      PROVE  Shape(v)'
  <2>1. wf'[v] = wf[v] /\ load' = load /\ Shape(v) /\ (libRow => libRow')
    BY <1>1, <1>2, <1>3 DEF Moves, Stored, Shapes
  <2> QED BY <2>1
      DEF Shape, Fresh, Handling, Nothing, Todo, Tagged, Item, How, First, Group, SetsRelations, ReadmeStatus
<1>4. Shapes' /\ PushTypes'
  BY <1>1, <1>2, <1>3 DEF Shapes, Moves, Stored, HistGrows, PushTypes, Typed
<1> QED BY <1>1, <1>2, <1>4

\* A check that is started is the last one.
LEMMA FullCheckIs ==
  ASSUME Typed, CheckShapes, FullCheck, UNCHANGED files, repo' \in Row
  PROVE  /\ CheckTypes' /\ CheckShapes' /\ C' = C \cup {Len(check) + 1} /\ Len(check) + 1 \notin C
         /\ \A c \in C : check'[c] = check[c]
         /\ check'[Len(check) + 1].st = "run" /\ check'[Len(check) + 1].act = 1
         /\ check'[Len(check) + 1].pc = "start"
<1> DEFINE r == Opened("run", 1, 1)
<1>n. PICK n : n = Len(check) + 1
  OBVIOUS
<1>1. r \in Check /\ r.st = "run" /\ r.act = 1 /\ r.pc = "start"
  <2>1. r \in Check
    BY OpenedIs
  <2> QED BY <2>1 DEF Opened
<1>2. check \in Seq(Check) /\ check' = Append(check, r)
  BY DEF Typed, CheckTypes, FullCheck
<1> HIDE DEF r
<1>3. /\ check' \in Seq(Check) /\ C' = C \cup {n} /\ n \notin C /\ check'[n] = r
      /\ \A c \in C : check'[c] = check[c]
  BY <1>1, <1>2, <1>n DEF C
<1>4. CheckShapes'
  <2>1. ASSUME NEW c \in C
        PROVE  CheckShape(c)'
    BY <1>3 DEF CheckShapes, CheckShape
  <2>2. CheckShape(n)'
    BY <1>1, <1>3 DEF CheckShape
  <2> QED BY <1>3, <2>1, <2>2 DEF CheckShapes
<1>5. CheckTypes'
  BY <1>3 DEF Typed, CheckTypes
<1> QED BY <1>1, <1>3, <1>4, <1>5, <1>n

\* README.md, when it is another one.
Changed(old, new) == IF old.readme = new.readme THEN {} ELSE {"README.md"}

\* The parts d of the difference of two trees.
Parts(d, old, new) ==
    /\ d["Added"] = (new.files \ old.files) \cup IF old.readme = None THEN Changed(old, new) ELSE {}
    /\ d["Removed"] = (old.files \ new.files) \cup IF new.readme = None THEN Changed(old, new) ELSE {}
    /\ d["Modified"] = IF None \in {old.readme, new.readme} THEN {} ELSE Changed(old, new)
    /\ d = [how \in Groups |-> d[how]]

LEMMA DifferenceParts ==
  ASSUME NEW old, NEW new
  PROVE  Parts(GetDiffBetweenTwoCommits(old, new), old, new)
<1> DEFINE d == GetDiffBetweenTwoCommits(old, new)
           readme == Changed(old, new)
           F(how) ==
             CASE how = "Added"    -> (new.files \ old.files) \cup IF old.readme = None THEN readme ELSE {}
               [] how = "Removed"  -> (old.files \ new.files) \cup IF new.readme = None THEN readme ELSE {}
               [] how = "Modified" -> IF None \in {old.readme, new.readme} THEN {} ELSE readme
<1>1. d = [how \in Groups |-> F(how)]
  BY DEF GetDiffBetweenTwoCommits, Changed
<1>2. F("Added") = (new.files \ old.files) \cup IF old.readme = None THEN readme ELSE {}
  OBVIOUS
<1>3. F("Removed") = (old.files \ new.files) \cup IF new.readme = None THEN readme ELSE {}
  OBVIOUS
<1>4. F("Modified") = IF None \in {old.readme, new.readme} THEN {} ELSE readme
  OBVIOUS
<1> HIDE DEF F, d
<1>5. d["Added"] = F("Added") /\ d["Removed"] = F("Removed") /\ d["Modified"] = F("Modified")
      /\ d = [how \in Groups |-> d[how]]
  BY <1>1 DEF Groups
<1>6. Parts(d, old, new)
  BY <1>2, <1>3, <1>4, <1>5 DEF Parts
<1> QED BY <1>6 DEF d

LEMMA DifferenceIs ==
  ASSUME NEW old \in [readme : Contents, files : SUBSET Files], NEW new \in [readme : Contents, files : SUBSET Files]
  PROVE  /\ GetDiffBetweenTwoCommits(old, new) \in Diff
         /\ GetDiffBetweenTwoCommits(old, new).Modified \subseteq {"README.md"}
<1>1. PICK d : d = GetDiffBetweenTwoCommits(old, new)
  OBVIOUS
<1>2. Parts(d, old, new)
  BY <1>1, DifferenceParts
<1>3. d["Added"] \subseteq Names /\ d["Removed"] \subseteq Names /\ d["Modified"] \subseteq {"README.md"}
  BY <1>2 DEF Parts, Changed, Names
<1>4. d = [how \in Groups |-> d[how]]
  BY <1>2 DEF Parts
<1>5. d \in Diff
  BY <1>3, <1>4 DEF Diff, Groups, Names
<1> QED BY <1>1, <1>3, <1>5

LEMMA PostReceiveIs ==
  ASSUME Typed, Shapes, PostReceive
  PROVE  /\ PushTypes' /\ Shapes' /\ W' = W \cup {Len(wf) + 1} /\ Len(wf) + 1 \notin W
         /\ \A w \in W : wf'[w] = wf[w]
         /\ wf'[Len(wf) + 1].st # "done" /\ wf'[Len(wf) + 1].act = 1 /\ wf'[Len(wf) + 1].pc = "start"
         /\ UNCHANGED <<checkVars, hist, load>>
<1>0. /\ tree \in [Refs -> [readme : Contents, files : SUBSET Files]] /\ wf \in Seq(Workflow)
      /\ load \in Loads
  BY DEF Typed, PushTypes
<1>1. PICK b \in load.refs, t \in Trees, st \in {"run", "lost"} :
         /\ tree' = [tree EXCEPT ![b] = t]
         /\ wf' = Append(wf, Begun(st, 1, 1, b, GetDiffBetweenTwoCommits(tree[b], t)))
         /\ Fault \/ UNCHANGED faults
  BY DEF PostReceive
<1>2. b \in Refs /\ t \in [readme : Contents, files : SUBSET Files]
  BY <1>0, PushesAssumption DEF Trees, Contents
<1> DEFINE d == GetDiffBetweenTwoCommits(tree[b], t)
           r == Begun(st, 1, 1, b, d)
<1>n. PICK n : n = Len(wf) + 1
  OBVIOUS
<1>3. d \in Diff /\ d.Modified \subseteq {"README.md"}
  BY <1>0, <1>2, DifferenceIs
<1> HIDE DEF d
<1>4. r \in Workflow
  BY <1>2, <1>3, BegunIs
<1>5. r.st # "done" /\ r.act = 1 /\ r.pc = "start" /\ r.content = None /\ r.err = FALSE /\ r.todo = Nothing /\ r.diff = d
  BY DEF Begun
<1>6. wf' = Append(wf, r)
  BY <1>1 DEF d
<1> HIDE DEF r
<1>7. /\ wf' \in Seq(Workflow) /\ W' = W \cup {n} /\ n \notin W /\ wf'[n] = r
      /\ \A w \in W : wf'[w] = wf[w]
  BY <1>0, <1>4, <1>6, <1>n DEF W
<1>8. UNCHANGED <<checkVars, known, repoTags, libRow, libCount, relations, hasApp, hist, load>> /\ faults' \in Nat
  BY <1>1, Faults DEF PostReceive
<1>9. Shapes'
  <2>1. ASSUME NEW w \in W
        PROVE  Shape(w)'
    <3>1. wf'[w] = wf[w] /\ load' = load /\ Shape(w) /\ libRow' = libRow
      BY <1>7, <1>8 DEF Shapes
    <3> QED BY <3>1
        DEF Shape, Fresh, Handling, Nothing, Todo, Tagged, Item, How, First, Group, SetsRelations, ReadmeStatus
  <2>2. Shape(n)'
    <3>1. Nothing' = Nothing
      BY DEF Nothing
    <3>2. wf'[n] = r
      BY <1>7
    <3> QED BY <1>3, <1>5, <3>1, <3>2 DEF Shape, Fresh
  <2> QED BY <1>7, <2>1, <2>2 DEF Shapes
<1>10. tree' \in [Refs -> [readme : Contents, files : SUBSET Files]]
  BY <1>0, <1>1, <1>2
<1>11. PushTypes'
  BY <1>7, <1>8, <1>10 DEF Typed, PushTypes, Counter
<1> QED BY <1>5, <1>7, <1>8, <1>9, <1>11, <1>n

LEMMA Starts ==
  ASSUME Init
  PROVE  Base /\ wf = << >> /\ check = << >> /\ files = << >>
<1>1. tree \in [Refs -> [readme : Contents, files : SUBSET Files]]
  BY DEF Init, Contents
<1>2. PushTypes
  <2>1. hist \in [Flags -> BOOLEAN]
    BY DEF Init, Flags
  <2>2. load \in Loads /\ faults \in Nat /\ Counter
    BY DEF Init, Counter
  <2>4. wf \in Seq(Workflow)
    BY DEF Init
  <2>3. known \subseteq Tags /\ repoTags \subseteq Tags
    BY PushesAssumption DEF Init
  <2> QED BY <1>1, <2>1, <2>2, <2>3, <2>4 DEF PushTypes
<1>3. CheckTypes
  BY DEF Init, CheckInit, NewRepo, CheckTypes, Row, Verdicts
<1>4. wf = << >> /\ check = << >> /\ files = << >>
  BY DEF Init, CheckInit
<1>5. W = {} /\ C = {}
  BY <1>4 DEF W, C
<1> QED BY <1>2, <1>3, <1>4, <1>5 DEF Base, Typed, Shapes, CheckShapes

LEMMA ShapesStay ==
  ASSUME Shapes, UNCHANGED <<wf, load, libRow>>
  PROVE  Shapes'
<1>1. ASSUME NEW w \in W
      PROVE  Shape(w)'
  <2>1. wf'[w] = wf[w] /\ load' = load /\ Shape(w) /\ libRow' = libRow
    BY DEF Shapes
  <2> QED BY <2>1
      DEF Shape, Fresh, Handling, Nothing, Todo, Tagged, Item, How, First, Group, SetsRelations, ReadmeStatus
<1> QED BY <1>1 DEF Shapes, W

LEMMA StepKeepsBase ==
  ASSUME Base, [Next]_vars
  PROVE  Base'
<1>1. CASE PostReceive
  <2>1. PushTypes' /\ Shapes' /\ UNCHANGED <<checkVars, hist, load>>
    BY <1>1, PostReceiveIs DEF Base
  <2>2. CheckTypes' /\ CheckShapes'
    BY <2>1 DEF Base, Typed, CheckTypes, CheckShapes, CheckShape, checkVars, C
  <2> QED BY <2>1, <2>2 DEF Base, Typed
<1>2. ASSUME NEW w \in W, Works(w)
      PROVE  Base'
  <2>1. Shapes' /\ Stored /\ PushTypes' /\ (check' = check \/ SensitiveCheck(w))
    BY <1>2, WorkIs DEF Base
  <2>2. CheckTypes' /\ CheckShapes'
    <3>1. CASE check' = check
      BY <2>1, <3>1 DEF Base, Typed, CheckTypes, CheckShapes, CheckShape, C, Stored
    <3>2. CASE FullCheck
      BY <2>1, <3>2, FullCheckIs DEF Base, Stored
    <3> QED BY <2>1, <3>1, <3>2 DEF SensitiveCheck
  <2> QED BY <2>1, <2>2 DEF Base, Typed
<1>3. CASE Checking /\ UNCHANGED <<wf, rows>>
  <2>1. PICK c \in C : CheckStep(c) \/ ActivityFails(c)
    BY <1>3 DEF Checking
  <2>2. CheckShapes' /\ CheckTypes'
    BY <2>1, CheckShapesKept DEF Base
  <2>3. PushTypes' /\ load' = load /\ wf' = wf /\ libRow' = libRow
    BY <1>3, <2>1, CheckFrame DEF Base, rows
  <2>4. Shapes'
    BY <2>3, ShapesStay DEF Base
  <2> QED BY <2>2, <2>3, <2>4 DEF Base, Typed
<1>4. CASE UNCHANGED vars
  <2>1. wf' = wf /\ load' = load /\ Shapes'
    BY <1>4, ShapesStay DEF vars, rows, Base
  <2>2. CheckShapes'
    BY <1>4 DEF vars, checkVars, Base, CheckShapes, C, CheckShape
  <2>3. Typed'
    BY <1>4 DEF vars, rows, checkVars, Base, Typed, PushTypes, Counter, CheckTypes
  <2> QED BY <2>1, <2>2, <2>3 DEF Base
<1> QED BY <1>1, <1>2, <1>3, <1>4 DEF Next, Works

\* Every variable keeps its type, through pushes, retries, checks and failures.
THEOREM TypeCorrect == Spec => []Typed
<1>1. Init => Base
  BY Starts
<1>2. Base /\ [Next]_vars => Base'
  BY StepKeepsBase
<1>3. Base => Typed
  BY DEF Base
<1> QED BY <1>1, <1>2, <1>3, PTL DEF Spec

----------------------------------------------------------------------------
(* Sensitive files. *)

Judges(verdict, content) == verdict \in {"pass", "fail"} /\ (verdict = "fail" <=> content \in Sensitive)

\* A record that is no longer pending is judged by its content, and so is what a
\* check is about to write.
Judged ==
    /\ \A i \in DOMAIN files : files[i].status # "pending" => Judges(files[i].status, files[i].content)
    /\ \A c \in C : check[c].pc \in {"hide", "record"} => Judges(check[c].verdict, files[Checked(c)].content)

\* A failed record is one of a hidden repository: it is hidden before the record is
\* written, and its status will be stated by a check that has seen the record.
Failed == ExistsSensitiveCheckRecord("fail")
States(c) == check[c].act = 4 /\ check[c].pc \in {"exceptions", "save"}
Hidden ==
    /\ \A c \in C : check[c].pc = "record" /\ check[c].verdict = "fail" => repo.private
    /\ Failed => /\ repo.private
                 /\ repo.status = "fail" \/ \E c \in C : check[c].st # "done"
                 /\ \A c \in C : States(c) => check[c].pc = "save" /\ check[c].verdict = "fail"

\* A check that will find the README.md of the default branch, or that has given up.
Coming(c) ==
    \/ check[c].st = "failed"
    \/ check[c].st = "run" /\ check[c].act = 1
    \/ check[c].st = "run" /\ check[c].act = 2 /\ check[c].pc = "start"
    \/ check[c].st = "run" /\ check[c].act = 2 /\ check[c].found = tree[Main].readme
    \/ /\ check[c].st = "run" /\ check[c].act = 3
       /\ \E i \in DOMAIN files :
             /\ files[i].content = tree[Main].readme /\ files[i].status = "pending"
             /\ check[c].pc = "start" \/ i \in check[c].todo

\* A sensitive README.md has a failed record, or it will be looked at.
Found == \E i \in DOMAIN files : files[i].content = tree[Main].readme /\ files[i].status = "fail"
Covered ==
    load.checks /\ tree[Main].readme \in Sensitive =>
        Found \/ (\E w \in W : wf[w].st # "done") \/ (\E c \in C : Coming(c))

LEMMA CheckedIs ==
  ASSUME Typed, NEW c \in C, CheckShape(c), check[c].act = 3, check[c].pc # "start"
  PROVE  Checked(c) \in check[c].todo /\ Checked(c) \in DOMAIN files
<1>1. check[c].todo \in SUBSET Nat /\ check[c].todo # {} /\ check[c].todo \subseteq DOMAIN files
  BY Rows DEF Check, CheckShape
<1> QED BY <1>1, Least DEF Checked

LEMMA JudgedKept ==
  ASSUME Typed, CheckShapes, NEW c \in C, CheckStep(c) \/ ActivityFails(c), Trusted', Judged
  PROVE  Judged'
<1>0. CheckShape(c) /\ Stays(c) /\ Recorded
  BY CheckShapesKept DEF CheckShapes
<1>1. ASSUME \A i \in DOMAIN files' : files'[i].status # "pending" => Judges(files'[i].status, files'[i].content),
             check'[c].pc \in {"hide", "record"} => Judges(check'[c].verdict, files'[Checked(c)'].content)
      PROVE  Judged'
  <2>1. ASSUME NEW d \in C, d # c, check'[d].pc \in {"hide", "record"}
        PROVE  Judges(check'[d].verdict, files'[Checked(d)'].content)
    <3>1. check'[d] = check[d] /\ CheckShape(d) /\ check[d] \in Check
      BY <1>0, <2>1, Rows DEF Stays, CheckShapes
    <3>2. check[d].act = 3 /\ check[d].pc # "start"
      BY <2>1, <3>1 DEF CheckShape, Check
    <3>3. Checked(d) \in DOMAIN files /\ Checked(d)' = Checked(d)
      BY <3>1, <3>2, CheckedIs DEF Checked
    <3>4. Judges(check[d].verdict, files[Checked(d)].content)
      BY <2>1, <3>1 DEF Judged
    <3> QED BY <1>0, <3>1, <3>3, <3>4 DEF Recorded
  <2> QED BY <1>0, <1>1, <2>1 DEF Judged, Stays
<1>2. CASE files' = files /\ check'[c].pc \notin {"hide", "record"}
  BY <1>1, <1>2 DEF Judged
<1>3. CASE FindByPath(c) \/ UpdateRepoSensitiveCheckStatus(c) \/ GenRepoFileRecords(c) \/ Exists(c)
  BY <1>2, <1>3, FindByPathIs, PendingIs, GenRepoFileRecordsIs, ExistsIs
<1>4. CASE BatchGetUnchcked(c) \/ DetectFailed(c) \/ DetectException(c) \/ SaveStatus(c)
  BY <1>2, <1>4, BatchGetUnchckedIs, DetectFailedIs, DetectExceptionIs, SaveStatusIs
<1>5. CASE ActivityFails(c)
  BY <1>2, <1>5, FailsIs DEF ActivityFails
<1>6. CASE CreateFile(c)
  <2>1. /\ DOMAIN files' = DOMAIN files \cup {Len(files) + 1}
        /\ \A i \in DOMAIN files : files'[i] = files[i]
        /\ files'[Len(files) + 1].status = "pending"
        /\ check'[c].pc = "start"
    BY <1>0, <1>6, CreateFileIs
  <2> QED BY <1>1, <2>1 DEF Judged
<1>7. CASE processFile(c)
  <2>1. /\ files' = files /\ check'[c].todo = check[c].todo
        /\ check'[c].verdict \in {"pass", "fail", "exception"}
        /\ check'[c].verdict # "exception"
        /\ check'[c].verdict = "fail" <=> files[Checked(c)].content \in Sensitive
    BY <1>7, processFileIs DEF Trusted
  <2>2. Checked(c)' = Checked(c)
    BY <2>1 DEF Checked
  <2> QED BY <1>1, <2>1, <2>2 DEF Judged, Judges
<1>8. CASE hideRepo(c)
  <2>1. /\ files' = files /\ check'[c].todo = check[c].todo /\ check'[c].verdict = check[c].verdict
        /\ check[c].pc = "hide"
    BY <1>0, <1>8, hideRepoIs
  <2>2. Checked(c)' = Checked(c)
    BY <2>1 DEF Checked
  <2> QED BY <1>1, <2>1, <2>2 DEF Judged
<1>9. CASE Upsert(c)
  <2>1. /\ check[c].pc = "record" /\ check'[c].pc \notin {"hide", "record"} /\ Checked(c) \in DOMAIN files
        /\ \/ files' = files
           \/ /\ DOMAIN files' = DOMAIN files
              /\ \A i \in DOMAIN files : files'[i].content = files[i].content
              /\ \A i \in DOMAIN files \ {Checked(c)} : files'[i] = files[i]
              /\ files'[Checked(c)].status = check[c].verdict
    BY <1>0, <1>9, UpsertIs
  <2>2. Judges(check[c].verdict, files[Checked(c)].content)
    BY <2>1 DEF Judged
  <2>3. \A i \in DOMAIN files' : files'[i].status # "pending" => Judges(files'[i].status, files'[i].content)
    BY <2>1, <2>2 DEF Judged
  <2> QED BY <1>1, <2>1, <2>3
<1> QED BY <1>3, <1>4, <1>5, <1>6, <1>7, <1>8, <1>9 DEF CheckStep

LEMMA HiddenKept ==
  ASSUME Typed, CheckShapes, NEW c \in C, CheckStep(c) \/ ActivityFails(c), Trusted', Hidden
  PROVE  Hidden'
<1>0. CheckShape(c) /\ Stays(c)
  BY CheckShapesKept DEF CheckShapes
<1>1. ASSUME repo.private => repo'.private, Failed' => Failed,
             check'[c].pc = "record" /\ check'[c].verdict = "fail" => repo'.private,
             Failed => repo'.status = "fail" \/ check'[c].st # "done",
             Failed /\ States(c)' => check'[c].pc = "save" /\ check'[c].verdict = "fail"
      PROVE  Hidden'
  <2>1. \A d \in C \ {c} : check'[d].pc = "record" /\ check'[d].verdict = "fail" => repo'.private
    BY <1>0, <1>1 DEF Hidden, Stays
  <2>2. ASSUME Failed
        PROVE  /\ repo'.private
               /\ repo'.status = "fail" \/ \E d \in C : check'[d].st # "done"
               /\ \A d \in C : States(d)' => (check'[d].pc = "save" /\ check'[d].verdict = "fail")
    <3>1. \A d \in C : States(d) => (check[d].pc = "save" /\ check[d].verdict = "fail")
      BY <2>2 DEF Hidden
    <3>2. \A d \in C : States(d)' => (check'[d].pc = "save" /\ check'[d].verdict = "fail")
      BY <1>0, <1>1, <2>2, <3>1 DEF States, Stays
    <3> QED BY <1>0, <1>1, <2>2, <3>2 DEF Hidden, Stays
  <2> QED BY <1>0, <1>1, <2>1, <2>2 DEF Hidden, Stays
<1>2. UNCHANGED files => (Failed' <=> Failed)
  BY DEF Failed, ExistsSensitiveCheckRecord
<1>3. CASE FindByPath(c) \/ GenRepoFileRecords(c) \/ Exists(c) \/ BatchGetUnchcked(c)
  BY <1>1, <1>2, <1>3, FindByPathIs, GenRepoFileRecordsIs, ExistsIs, BatchGetUnchckedIs DEF States
<1>4. CASE ActivityFails(c)
  BY <1>1, <1>2, <1>4, FailsIs DEF ActivityFails, States
<1>5. CASE UpdateRepoSensitiveCheckStatus(c)
  BY <1>1, <1>2, <1>5, PendingIs DEF States, Trusted
<1>6. CASE CreateFile(c)
  <2>1. Failed' => Failed
    BY <1>0, <1>6, CreateFileIs DEF Failed, ExistsSensitiveCheckRecord
  <2> QED BY <1>0, <1>1, <1>6, <2>1, CreateFileIs DEF States
<1>7. CASE processFile(c)
  BY <1>1, <1>2, <1>7, processFileIs DEF States
<1>8. CASE hideRepo(c)
  BY <1>0, <1>1, <1>2, <1>8, hideRepoIs DEF States, Trusted
<1>9. CASE DetectFailed(c)
  BY <1>1, <1>2, <1>9, DetectFailedIs DEF States, Failed
<1>10. CASE DetectException(c)
  <2>1. ~Failed
    BY <1>10, DetectExceptionIs DEF Hidden, States
  <2> QED BY <1>1, <1>2, <1>10, <2>1, DetectExceptionIs
<1>11. CASE SaveStatus(c)
  <2>1. Failed => check[c].verdict = "fail"
    BY <1>11, SaveStatusIs DEF Hidden, States
  <2> QED BY <1>1, <1>2, <1>11, <2>1, SaveStatusIs DEF States, Trusted
<1>12. CASE Upsert(c)
  <2>1. /\ repo' = repo /\ check[c].pc = "record" /\ Checked(c) \in DOMAIN files
        /\ \/ /\ DOMAIN files' = DOMAIN files
              /\ \A i \in DOMAIN files \ {Checked(c)} : files'[i] = files[i]
              /\ files'[Checked(c)].status = check[c].verdict
        /\ \A d \in C : ~Decided(d)
        /\ check'[c].st = "run" /\ ~States(c)' /\ check'[c].pc # "record"
    BY <1>0, <1>12, UpsertIs DEF Trusted, States
  <2>2. \A d \in C : ~States(d)
    <3>1. ASSUME NEW d \in C, States(d)
          PROVE  FALSE
      <4>1. CheckShape(d) /\ check[d] \in Check
        BY Rows DEF CheckShapes
      <4>2. check[d].st = "run"
        BY <3>1, <4>1 DEF CheckShape, States, Check
      <4>3. \E pc \in {"exceptions", "save"} : In(d, "DetectRepoSensitiveCheckStatus", pc)
        BY <3>1, <4>2, InIs DEF States
      <4> QED BY <2>1, <4>3 DEF Decided
    <3> QED BY <3>1
  <2>3. \A d \in C : ~States(d)'
    BY <1>0, <2>1, <2>2 DEF States, Stays
  <2>4. \A d \in C : check'[d].pc = "record" /\ check'[d].verdict = "fail" => repo'.private
    BY <1>0, <2>1 DEF Hidden, Stays
  <2>5. Failed' => repo.private
    <3>1. CASE check[c].verdict = "fail"
      BY <2>1, <3>1 DEF Hidden
    <3>2. CASE check[c].verdict # "fail"
      BY <2>1, <3>2 DEF Hidden, Failed, ExistsSensitiveCheckRecord
    <3> QED BY <3>1, <3>2
  <2> QED BY <1>0, <2>1, <2>3, <2>4, <2>5 DEF Hidden, Stays
<1> QED BY <1>3, <1>4, <1>5, <1>6, <1>7, <1>8, <1>9, <1>10, <1>11, <1>12 DEF CheckStep

\* A check that does not move stays on its way; a record of a sensitive file that is
\* no longer pending has failed.
LEMMA ComingStays ==
  ASSUME Typed, NEW d \in C, Coming(d), check'[d] = check[d], tree' = tree, Recorded,
         \A i \in DOMAIN files : files[i].content = tree[Main].readme =>
            files'[i].status = files[i].status \/ files'[i].status = "fail"
  PROVE  Coming(d)' \/ Found'
<1>1. CASE /\ check[d].st = "run" /\ check[d].act = 3
           /\ \E i \in DOMAIN files :
                /\ files[i].content = tree[Main].readme /\ files[i].status = "pending"
                /\ check[d].pc = "start" \/ i \in check[d].todo
  <2>1. PICK i \in DOMAIN files : /\ files[i].content = tree[Main].readme /\ files[i].status = "pending"
                                  /\ check[d].pc = "start" \/ i \in check[d].todo
    BY <1>1
  <2>2. i \in DOMAIN files' /\ files'[i].content = tree'[Main].readme
    BY <2>1 DEF Recorded
  <2>3. CASE files'[i].status = "fail"
    BY <2>2, <2>3 DEF Found
  <2>4. CASE files'[i].status = files[i].status
    BY <1>1, <2>1, <2>2, <2>4 DEF Coming
  <2> QED BY <2>1, <2>3, <2>4
<1>2. CASE ~ (check[d].st = "run" /\ check[d].act = 3)
  BY <1>2 DEF Coming
<1> QED BY <1>1, <1>2 DEF Coming

LEMMA CoveredKept ==
  ASSUME Typed, CheckShapes, NEW c \in C, CheckStep(c) \/ ActivityFails(c), UNCHANGED <<wf, rows>>,
         Trusted', Judged, Covered
  PROVE  Covered'
<1> USE DEF Trusted
<1>0. CheckShape(c) /\ Stays(c) /\ Recorded /\ tree' = tree /\ load' = load /\ W' = W /\ wf' = wf
  BY CheckShapesKept, CheckFrame DEF CheckShapes, W
<1> SUFFICES ASSUME load.checks, tree[Main].readme \in Sensitive
             PROVE  Found' \/ (\E w \in W : wf'[w].st # "done") \/ (\E d \in C : Coming(d)')
  BY <1>0 DEF Covered, Stays
<1>n. tree[Main].readme # None
  BY PushesAssumption
<1>1. \A i \in DOMAIN files : files[i].content = tree[Main].readme =>
            files'[i].status = files[i].status \/ files'[i].status = "fail"
  <2>1. CASE files' = files
    BY <2>1
  <2>2. CASE CreateFile(c)
    BY <1>0, <2>2, CreateFileIs
  <2>3. CASE Upsert(c)
    <3>1. /\ check[c].pc = "record"
          /\ \/ files' = files
             \/ /\ \A i \in DOMAIN files \ {Checked(c)} : files'[i] = files[i]
                /\ files'[Checked(c)].status = check[c].verdict
      BY <1>0, <2>3, UpsertIs
    <3>2. Judges(check[c].verdict, files[Checked(c)].content)
      BY <3>1 DEF Judged
    <3> QED BY <3>1, <3>2 DEF Judges
  <2>4. CASE FindByPath(c) \/ GenRepoFileRecords(c) \/ Exists(c) \/ BatchGetUnchcked(c) \/ processFile(c)
    BY <2>1, <2>4, FindByPathIs, GenRepoFileRecordsIs, ExistsIs, BatchGetUnchckedIs, processFileIs
  <2>5. CASE UpdateRepoSensitiveCheckStatus(c) \/ SaveStatus(c) \/ DetectFailed(c) \/ DetectException(c)
             \/ hideRepo(c) \/ ActivityFails(c)
    BY <1>0, <2>1, <2>5, PendingIs, SaveStatusIs, DetectFailedIs, DetectExceptionIs, hideRepoIs DEF ActivityFails
  <2> QED BY <2>2, <2>3, <2>4, <2>5 DEF CheckStep
<1>2. Found => Found'
  BY <1>0, <1>1 DEF Found, Recorded
<1>3. ASSUME NEW d \in C, d # c, Coming(d)
      PROVE  Coming(d)' \/ Found'
  BY <1>0, <1>1, <1>3, ComingStays DEF Stays
<1>s. ASSUME check'[c].st = "run", check'[c].act \in {1, 2} /\ check'[c].pc = "start"
      PROVE  Coming(c)'
  BY <1>s DEF Coming
<1>f. \A i \in DOMAIN files : files[i].content = tree[Main].readme => files[i].status = "fail" \/ files[i].status = "pending"
  BY DEF Judged, Judges
<1>4. ASSUME Coming(c)
      PROVE  Coming(c)' \/ Found'
  <2>0. check[c] \in Check
    BY Rows
  <2>1. CASE FindByPath(c)
    <3>1. /\ check[c].st = "run" /\ check'[c].st = "run" /\ check'[c].act = check[c].act
          /\ check[c].act = 1 \/ check[c].act = 4
      BY <2>1, FindByPathIs
    <3> QED BY <1>4, <3>1 DEF Coming
  <2>2. CASE UpdateRepoSensitiveCheckStatus(c)
    BY <1>s, <2>2, PendingIs
  <2>3. CASE GenRepoFileRecords(c)
    <3>1. check'[c].st = "run" /\ check'[c].act = 2 /\ check'[c].found = tree'[Main].readme
      BY <1>0, <1>n, <2>3, GenRepoFileRecordsIs
    <3> QED BY <3>1 DEF Coming
  <2>4. CASE Exists(c)
    <3>1. check[c].found = tree[Main].readme
      BY <1>4, <2>4, ExistsIs DEF Coming
    <3>2. CASE check'[c].act = 2 /\ check'[c].found = check[c].found
      BY <1>0, <2>4, <3>1, <3>2, ExistsIs DEF Coming
    <3>3. CASE /\ \E i \in DOMAIN files : files[i].content = check[c].found
               /\ check'[c].act = 3 /\ check'[c].pc = "start"
      <4>1. PICK i \in DOMAIN files : files[i].content = tree[Main].readme
        BY <3>1, <3>3
      <4>2. files' = files /\ check'[c].st = "run"
        BY <2>4, ExistsIs
      <4>3. CASE files[i].status = "fail"
        BY <1>0, <4>1, <4>2, <4>3 DEF Found
      <4>4. CASE files[i].status = "pending"
        BY <1>0, <3>3, <4>1, <4>2, <4>4 DEF Coming
      <4> QED BY <1>f, <4>1, <4>3, <4>4
    <3> QED BY <2>4, <3>2, <3>3, ExistsIs
  <2>5. CASE CreateFile(c)
    <3>1. /\ check[c].st = "run" /\ check[c].act = 2 /\ check[c].pc = "create"
          /\ DOMAIN files' = DOMAIN files \cup {Len(files) + 1}
          /\ files'[Len(files) + 1].content = check[c].found
          /\ files'[Len(files) + 1].status = "pending"
          /\ check'[c].st = "run" /\ check'[c].act = 3 /\ check'[c].pc = "start"
      BY <1>0, <2>5, CreateFileIs
    <3>2. check[c].found = tree'[Main].readme
      BY <1>0, <1>4, <3>1 DEF Coming
    <3>3. \E i \in DOMAIN files' : files'[i].content = tree'[Main].readme /\ files'[i].status = "pending"
      BY <3>1, <3>2
    <3> QED BY <3>1, <3>3 DEF Coming
  <2>6. CASE BatchGetUnchcked(c)
    <3>1. /\ check[c].st = "run" /\ check[c].act = 3 /\ files' = files
      BY <2>6, BatchGetUnchckedIs
    <3>2. PICK i \in DOMAIN files : files[i].content = tree[Main].readme /\ files[i].status = "pending"
      BY <1>4, <3>1 DEF Coming
    <3>3. check'[c].st = "run" /\ check'[c].act = 3 /\ i \in check'[c].todo
      BY <2>6, <3>2, BatchGetUnchckedIs
    <3> QED BY <1>0, <3>1, <3>2, <3>3 DEF Coming
  <2>7. CASE processFile(c) \/ hideRepo(c)
    <3>1. /\ check[c].st = "run" /\ check[c].act = 3 /\ files' = files /\ check[c].pc # "start"
          /\ check'[c].st = "run" /\ check'[c].act = 3 /\ check'[c].todo = check[c].todo
      BY <1>0, <2>7, processFileIs, hideRepoIs
    <3>2. PICK i \in DOMAIN files : /\ files[i].content = tree[Main].readme /\ files[i].status = "pending"
                                    /\ i \in check[c].todo
      BY <1>4, <3>1 DEF Coming
    <3> QED BY <1>0, <3>1, <3>2 DEF Coming
  <2>8. CASE Upsert(c)
    <3>1. /\ check[c].st = "run" /\ check[c].act = 3 /\ check[c].pc = "record"
          /\ DOMAIN files' = DOMAIN files
          /\ \A i \in DOMAIN files : files'[i].content = files[i].content
          /\ \A i \in DOMAIN files \ {Checked(c)} : files'[i] = files[i]
          /\ files'[Checked(c)].status = check[c].verdict
          /\ check'[c].st = "run"
          /\ \/ check[c].todo = {Checked(c)}
             \/ check'[c].act = 3 /\ check'[c].todo = check[c].todo \ {Checked(c)}
      BY <1>0, <2>8, UpsertIs
    <3>2. PICK i \in DOMAIN files : /\ files[i].content = tree[Main].readme /\ files[i].status = "pending"
                                    /\ i \in check[c].todo
      BY <1>4, <3>1 DEF Coming
    <3>3. CASE i = Checked(c)
      <4>1. Judges(check[c].verdict, files[i].content)
        BY <3>1, <3>3 DEF Judged
      <4>2. files'[i].status = "fail"
        BY <3>1, <3>2, <3>3, <4>1 DEF Judges
      <4> QED BY <1>0, <3>1, <3>2, <4>2 DEF Found
    <3>4. CASE i # Checked(c)
      <4>1. files'[i] = files[i] /\ check'[c].act = 3 /\ i \in check'[c].todo
        BY <3>1, <3>2, <3>4
      <4> QED BY <1>0, <3>1, <3>2, <4>1 DEF Coming
    <3> QED BY <3>3, <3>4
  <2>9. CASE DetectFailed(c) \/ DetectException(c) \/ SaveStatus(c)
    <3>1. check[c].st = "run" /\ check[c].act = 4
      BY <2>9, DetectFailedIs, DetectExceptionIs, SaveStatusIs
    <3> QED BY <1>4, <3>1 DEF Coming
  <2>10. CASE ActivityFails(c)
    <3>1. /\ check[c].st = "run" /\ files' = files /\ check'[c].pc = "start"
          /\ check'[c].st \in {"run", "failed"} /\ check'[c].act = check[c].act
      BY <2>10, FailsIs DEF ActivityFails
    <3>2. CASE check[c].act = 3
      <4>1. PICK i \in DOMAIN files : files[i].content = tree[Main].readme /\ files[i].status = "pending"
        BY <1>4, <3>1, <3>2 DEF Coming
      <4> QED BY <1>0, <3>1, <3>2, <4>1 DEF Coming
    <3>3. CASE check[c].act # 3
      BY <1>4, <3>1, <3>3 DEF Coming
    <3> QED BY <3>2, <3>3
  <2> QED BY <2>1, <2>2, <2>3, <2>4, <2>5, <2>6, <2>7, <2>8, <2>9, <2>10 DEF CheckStep
<1> QED BY <1>0, <1>2, <1>3, <1>4 DEF Covered

LEMMA WithIs ==
  ASSUME Typed, NEW w \in W, NEW r, With(w, r)
  PROVE  wf'[w] = r
<1>1. wf \in Seq(Workflow) /\ w \in 1 .. Len(wf)
  BY Rows DEF Typed, PushTypes
<1> QED BY <1>1 DEF With

\* A workflow ends with its last activity.
LEMMA NotYetDone ==
  ASSUME Typed, Shapes, NEW w \in W, Works(w), ~SensitiveCheck(w)
  PROVE  wf[w].st = "run" /\ wf'[w].st # "done"
<1>0. wf[w] \in Workflow /\ Shape(w)
  BY Rows DEF Shapes
<1>g. ASSUME NEW pc, wf[w].st = "run", Goto(w, pc)
      PROVE  wf'[w].st # "done"
  <2>1. wf'[w] = [wf[w] EXCEPT !.pc = pc]
    BY <1>g, WithIs DEF Goto
  <2> QED BY <1>0, <1>g, <2>1 DEF Workflow
<1>b. ASSUME NEW todo, wf[w].st = "run"
      PROVE  Begin(w, todo).st = "run" /\ [Begin(w, todo) EXCEPT !.err = TRUE].st = "run"
  <2>1. Begin(w, todo).st = "run"
    BY <1>0, <1>b DEF Begin, Workflow
  <2>2. "st" \in DOMAIN Begin(w, todo)
    BY <1>0 DEF Begin, Workflow
  <2> QED BY <2>1, <2>2
<1>r. ASSUME wf[w].st = "run", With(w, Rest(w)) \/ FileFails(w)
      PROVE  wf'[w].st # "done"
  <2>1. wf'[w] = Rest(w) \/ wf'[w] = [GroupLeft(w) EXCEPT !.err = TRUE]
    BY <1>r, WithIs DEF FileFails
  <2> QED BY <1>b, <1>r, <2>1 DEF Rest, GroupLeft
<1>c. ASSUME wf[w].act # 5, Completed(w)
      PROVE  wf'[w].st # "done"
  BY <1>c, CompletedIs
<1>t. ASSUME TryAgain(w)
      PROVE  wf'[w].st # "done"
  BY <1>t, TryAgainIs
<1>1. CASE FixHasEntryFile(w)
  BY <1>1, <1>c, <1>g, AtIs DEF FixHasEntryFile
<1>2. CASE Deploy(w) \/ Override(w) \/ SetRepoUpdateTime(w) \/ WatcherFails(w)
  BY <1>2, <1>c, AtIs DEF Deploy, Override, SetRepoUpdateTime, WatcherFails
<1>3. CASE toRepoIDsFromReadme(w)
  <2>1. wf[w].st = "run" /\ wf[w].act = 2
    BY <1>3, AtIs DEF toRepoIDsFromReadme
  <2>2. ASSUME With(w, [wf[w] EXCEPT !.pc = "override", !.content = tree[wf[w].ref].readme])
        PROVE  wf'[w].st # "done"
    <3>1. wf'[w] = [wf[w] EXCEPT !.pc = "override", !.content = tree[wf[w].ref].readme]
      BY <2>2, WithIs
    <3> QED BY <1>0, <2>1, <3>1 DEF Workflow
  <2> QED BY <1>3, <1>c, <1>g, <2>1, <2>2 DEF toRepoIDsFromReadme
<1>4. CASE WorkerDies(w) \/ CallFails(w)
  BY <1>4, <1>t, AtIs DEF WorkerDies, CallFails
<1>5. CASE UpdateRepoInfos(w)
  <2>1. wf[w].st = "run" /\ wf'[w] = Begin(w, Todo(wf[w].diff))
    BY <1>5, WithIs, AtIs DEF UpdateRepoInfos
  <2> QED BY <1>b, <2>1
<1>6. CASE getFileRaw(w)
  <2>1. wf[w].st = "run"
    BY <1>6, AtIs DEF getFileRaw
  <2>2. ASSUME With(w, [wf[w] EXCEPT !.pc = "tags", !.content = tree[wf[w].ref].readme])
        PROVE  wf'[w].st # "done"
    <3>1. wf'[w] = [wf[w] EXCEPT !.pc = "tags", !.content = tree[wf[w].ref].readme]
      BY <2>2, WithIs
    <3> QED BY <1>0, <2>1, <3>1 DEF Workflow
  <2> QED BY <1>6, <1>r, <2>1, <2>2 DEF getFileRaw
<1>7. CASE ProcessReadme(w)
  <2>1. wf[w].st = "run"
    BY <1>7, AtIs DEF ProcessReadme
  <2>2. ASSUME NEW ts, NEW tags, With(w, [wf[w] EXCEPT !.pc = "save", !.new = ts, !.tags = tags])
        PROVE  wf'[w].st # "done"
    <3>1. wf'[w] = [wf[w] EXCEPT !.pc = "save", !.new = ts, !.tags = tags]
      BY <2>2, WithIs
    <3> QED BY <1>0, <2>1, <3>1 DEF Workflow
  <2> QED BY <1>7, <1>r, <2>1, <2>2, ProcessReadmeIs
<1>8. CASE SaveTags(w)
  BY <1>8, <1>g, <1>r, AtIs DEF SaveTags
<1>9. CASE SetMetaTags(w)
  <2>1. wf[w].st = "run" /\ wf'[w] = [wf[w] EXCEPT !.pc = "set", !.old = repoTags]
    BY <1>9, WithIs, AtIs DEF SetMetaTags
  <2> QED BY <1>0, <2>1 DEF Workflow
<1>10. CASE ReplaceMetaTags(w)
  BY <1>10, <1>g, <1>r, AtIs DEF ReplaceMetaTags
<1>11. CASE UpdateLicenseByTag(w) \/ LicenseFails(w) \/ SetLibraryTag(w) \/ RemoveLibraryTag(w) \/ InfoFails(w)
  BY <1>11, <1>r, AtIs DEF UpdateLicenseByTag, LicenseFails, SetLibraryTag, RemoveLibraryTag, InfoFails
<1>13. CASE SelectLibraryTag(w)
  BY <1>13, <1>g, AtIs DEF SelectLibraryTag
<1>14. CASE SelectLicense(w)
  <2>1. wf[w].st = "run"
    BY <1>14, AtIs DEF SelectLicense
  <2>2. ASSUME NEW t, With(w, [wf[w] EXCEPT !.pc = "row", !.license = t])
        PROVE  wf'[w].st # "done"
    <3>1. wf'[w] = [wf[w] EXCEPT !.pc = "row", !.license = t]
      BY <2>2, WithIs
    <3> QED BY <1>0, <2>1, <3>1 DEF Workflow
  <2> QED BY <1>14, <1>r, <2>1, <2>2 DEF SelectLicense
<1>15. CASE FindById(w)
  <2>1. wf[w].st = "run" /\ wf'[w] = [wf[w] EXCEPT !.pc = "relicense", !.row = repo]
    BY <1>15, WithIs, AtIs DEF FindById
  <2> QED BY <1>0, <2>1 DEF Workflow
<1>12. CASE InfosUpdated(w)
  BY <1>12, <1>c, <1>t, AtIs DEF InfosUpdated
<1> QED BY <1>1, <1>2, <1>3, <1>4, <1>5, <1>6, <1>7, <1>8, <1>9, <1>10, <1>11, <1>12, <1>13, <1>14, <1>15 DEF Works, Step

TrustedHold == Trusted => Judged /\ Hidden /\ Covered

LEMMA WorkKeepsTrusted ==
  ASSUME Base, TrustedHold, NEW w \in W, Works(w)
  PROVE  TrustedHold'
<1>0. Moves(w) /\ Stored /\ (check' = check \/ SensitiveCheck(w)) /\ Typed
  BY WorkIs DEF Base
<1>1. Trusted' => Trusted
  BY <1>0 DEF Stored, HistGrows, Trusted, Flags
<1> SUFFICES ASSUME Trusted, Trusted'
             PROVE  Judged' /\ Hidden' /\ Covered'
  BY <1>1 DEF TrustedHold
<1>2. Judged /\ Hidden /\ Covered
  BY DEF TrustedHold
<1>3. /\ \A d \in C : d \in C' /\ check'[d] = check[d]
      /\ \A d \in C' \ C : check'[d].st = "run" /\ check'[d].act = 1 /\ check'[d].pc = "start"
  <2>1. CASE check' = check
    BY <2>1 DEF C
  <2>2. CASE FullCheck
    BY <1>0, <2>2, FullCheckIs DEF Base, Stored
  <2> QED BY <1>0, <2>1, <2>2 DEF SensitiveCheck
<1>4. /\ files' = files /\ tree' = tree /\ load' = load
      /\ repo'.private = repo.private /\ repo'.status = repo.status
  BY <1>0 DEF Stored, Trusted
<1>5. Judged'
  <2>1. \A d \in C : Checked(d)' = Checked(d)
    BY <1>3 DEF Checked
  <2> QED BY <1>2, <1>3, <1>4, <2>1 DEF Judged
<1>6. Hidden'
  <2>1. Failed' <=> Failed
    BY <1>4 DEF Failed, ExistsSensitiveCheckRecord
  <2>2. \A d \in C' : check'[d].pc = "record" /\ check'[d].verdict = "fail" => repo'.private
    BY <1>2, <1>3, <1>4 DEF Hidden
  <2>3. \A d \in C' \ C : ~States(d)'
    BY <1>3 DEF States
  <2>4. \A d \in C : States(d)' <=> States(d)
    BY <1>3 DEF States
  <2>5. ASSUME Failed
        PROVE  \A d \in C' : States(d)' => (check'[d].pc = "save" /\ check'[d].verdict = "fail")
    BY <1>2, <1>3, <2>3, <2>4, <2>5 DEF Hidden
  <2>6. ASSUME Failed
        PROVE  repo'.private /\ (repo'.status = "fail" \/ \E d \in C' : check'[d].st # "done")
    BY <1>2, <1>3, <1>4, <2>6 DEF Hidden
  <2> QED BY <2>1, <2>2, <2>5, <2>6 DEF Hidden
<1>7. Covered'
  <2> SUFFICES ASSUME load.checks, tree[Main].readme \in Sensitive
               PROVE  Found' \/ (\E v \in W' : wf'[v].st # "done") \/ (\E d \in C' : Coming(d)')
    BY <1>4 DEF Covered
  <2>1. Found => Found'
    BY <1>4 DEF Found
  <2>2. ASSUME NEW d \in C, Coming(d)
        PROVE  d \in C' /\ Coming(d)'
    BY <1>3, <1>4, <2>2 DEF Coming
  <2>3. ASSUME NEW v \in W, wf[v].st # "done"
        PROVE  (\E u \in W' : wf'[u].st # "done") \/ (\E d \in C' : Coming(d)')
    <3>1. CASE wf'[v].st # "done"
      BY <1>0, <3>1 DEF Moves
    <3>2. CASE wf'[v].st = "done"
      <4>1. v = w
        BY <1>0, <2>3, <3>2 DEF Moves
      <4>2. SensitiveCheck(w)
        BY <3>2, <4>1, NotYetDone DEF Base
      <4>3. FullCheck
        BY <4>2 DEF SensitiveCheck
      <4>4. \E d \in C' : check'[d].st = "run" /\ check'[d].act = 1
        BY <1>0, <4>3, FullCheckIs DEF Base, Stored
      <4> QED BY <4>4 DEF Coming
    <3> QED BY <3>1, <3>2
  <2> QED BY <1>2, <2>1, <2>2, <2>3 DEF Covered
<1> QED BY <1>5, <1>6, <1>7

LEMMA StepKeepsTrusted ==
  ASSUME Base, TrustedHold, [Next]_vars
  PROVE  TrustedHold'
<1>1. CASE PostReceive
  <2>1. /\ W' = W \cup {Len(wf) + 1} /\ wf'[Len(wf) + 1].st # "done"
        /\ UNCHANGED <<checkVars, hist, load>>
    BY <1>1, PostReceiveIs DEF Base
  <2>2. Covered'
    BY <2>1 DEF Covered
  <2>3. UNCHANGED <<repo, files, check, hist>>
    BY <2>1 DEF checkVars
  <2>4. (Trusted' => Trusted) /\ (Judged => Judged') /\ (Hidden => Hidden')
    BY <2>3 DEF Trusted, Judged, Checked, Hidden, Failed, ExistsSensitiveCheckRecord, States, C
  <2> QED BY <2>2, <2>4 DEF TrustedHold
<1>2. ASSUME NEW w \in W, Works(w)
      PROVE  TrustedHold'
  BY <1>2, WorkKeepsTrusted
<1>3. CASE Checking /\ UNCHANGED <<wf, rows>>
  <2>1. PICK c \in C : CheckStep(c) \/ ActivityFails(c)
    BY <1>3 DEF Checking
  <2>2. Trusted' => Trusted
    BY <1>3, <2>1, CheckFrame DEF Base
  <2>3. ASSUME Trusted'
        PROVE  Judged' /\ Hidden' /\ Covered'
    BY <1>3, <2>1, <2>2, <2>3, JudgedKept, HiddenKept, CoveredKept DEF Base, TrustedHold
  <2> QED BY <2>3 DEF TrustedHold
<1>4. CASE UNCHANGED vars
  BY <1>4 DEF vars, rows, checkVars, TrustedHold, Trusted, Judged, Checked, Hidden, Failed, ExistsSensitiveCheckRecord,
     States, C, Covered, Found, Coming, W
<1> QED BY <1>1, <1>2, <1>3, <1>4 DEF Next, Works

LEMMA StartsTrusted ==
  ASSUME Init
  PROVE  TrustedHold
<1>1. C = {} /\ DOMAIN files = {}
  BY Starts DEF C
<1>2. ~Failed
  BY <1>1 DEF Failed, ExistsSensitiveCheckRecord
<1>3. tree[Main].readme = None
  BY PushesAssumption DEF Init
<1>4. tree[Main].readme \notin Sensitive
  BY <1>3, PushesAssumption
<1> QED BY <1>1, <1>2, <1>4 DEF TrustedHold, Judged, Hidden, Covered

\* A repository whose README.md is sensitive is hidden when all checks have ended, and
\* it passes only without a failed record: the moderation service hides it before it
\* records the file, and a check that has seen the record states the result.
THEOREM SensitiveHidden == Spec => []SensitiveIsHidden
<1>1. Init => Base /\ TrustedHold
  BY Starts, StartsTrusted
<1>2. (Base /\ TrustedHold) /\ [Next]_vars => (Base /\ TrustedHold)'
  BY StepKeepsBase, StepKeepsTrusted
<1>3. Base /\ TrustedHold => SensitiveIsHidden
  <2> SUFFICES ASSUME Base, TrustedHold, load.checks, Quiet, \A w \in W : wf[w].st = "done",
                      \A c \in C : check[c].st = "done", Trusted
               PROVE  /\ tree[Main].readme \in Sensitive => repo.private /\ repo.status = "fail"
                      /\ repo.status = "pass" => ~ExistsSensitiveCheckRecord("fail")
    BY DEF SensitiveIsHidden, Trusted
  <2>1. repo \in Row /\ Hidden /\ Covered
    BY DEF Base, Typed, CheckTypes, TrustedHold
  <2>2. Failed => repo.private /\ repo.status = "fail"
    BY <2>1 DEF Hidden, Row
  <2>3. tree[Main].readme \in Sensitive => Failed
    BY <2>1 DEF Covered, Coming, Found, Failed, ExistsSensitiveCheckRecord
  <2>4. Failed => repo.status = "fail"
    BY <2>2
  <2> QED BY <2>2, <2>3, <2>4 DEF Failed
<1> QED BY <1>1, <1>2, <1>3, PTL DEF Spec

----------------------------------------------------------------------------
(* The count of a library. *)

\* What is still to be counted for a workflow, and for all.
Left(w, how) ==
    IF wf[w].act = 4 /\ wf[w].pc # "start" THEN wf[w].todo[how]
    ELSE IF wf[w].act = 5 THEN {} ELSE Todo(wf[w].diff)[how]
ToCount(how) == {p \in W \X load.files : p[2] \in Left(p[1], how)}

\* Nothing of what LibraryCounted excludes has happened, and no file has failed.
Neat ==
    /\ load.kind = "model" /\ ~hist.repeated /\ ~hist.skipped
    /\ \A w \in W : wf[w].st # "failed" /\ wf[w].ref = Main /\ ~wf[w].err

Balanced ==
    Neat => libCount + Cardinality(ToCount("Added")) = Cardinality(tree[Main].files) + Cardinality(ToCount("Removed"))

Within ==
    /\ \A b \in Refs : tree[b].files \subseteq load.files
    /\ \A w \in W : \A how \in Groups : wf[w].diff[how] \subseteq load.files \cup {"README.md"}

\* The workflow has as much to count as before.
Calm(w) ==
    /\ libCount' = libCount
    /\ \A how \in {"Added", "Removed"} : \A f \in load.files : f \in Left(w, how)' <=> f \in Left(w, how)

LEMMA LoadIs ==
  ASSUME Typed
  PROVE  IsFiniteSet(load.files) /\ load.files \subseteq Files /\ "README.md" \notin load.files
BY PushesAssumption DEF Typed, PushTypes

\* An activity other than UpdateRepoInfos changes nothing of it.
LEMMA WatchCalm ==
  ASSUME Typed, Shapes, NEW w \in W, ~hist'.repeated,
         \/ FixHasEntryFile(w) \/ Deploy(w) \/ toRepoIDsFromReadme(w) \/ Override(w)
         \/ SetRepoUpdateTime(w) \/ SensitiveCheck(w)
         \/ WorkerDies(w) \/ WatcherFails(w) \/ CallFails(w)
  PROVE  Calm(w) /\ ~wf[w].err
<1>0. wf[w] \in Workflow /\ Shape(w) /\ Moves(w) /\ Shape(w)' /\ load' = load
  BY Rows, WorkIs DEF Shapes, Works, Step, Stored, Moves
<1>1. libCount' = libCount
  BY DEF FixHasEntryFile, Deploy, toRepoIDsFromReadme, Override, SetRepoUpdateTime, SensitiveCheck,
         WorkerDies, WatcherFails, CallFails, rows
<1>2. ASSUME wf[w].act # 4, wf'[w].act = wf[w].act \/ wf'[w].act = wf[w].act + 1,
             wf'[w].act = 4 => wf'[w].pc = "start", wf[w].act = 5 => wf'[w].act = 5
      PROVE  Calm(w) /\ ~wf[w].err
  <2>1. wf[w].err = FALSE /\ wf[w].act \in 1 .. 5
    BY <1>0, <1>2 DEF Shape, Workflow
  <2>2. Todo(wf[w].diff)' = Todo(wf[w].diff)
    BY <1>0 DEF Moves, Todo, Tagged
  <2>3. \A how \in {"Added", "Removed"} : Left(w, how)' = Left(w, how)
    BY <1>2, <2>1, <2>2 DEF Left
  <2> QED BY <1>1, <2>1, <2>3 DEF Calm
<1>c. ASSUME wf[w].act # 4, Completed(w)
      PROVE  Calm(w) /\ ~wf[w].err
  BY <1>2, <1>c, CompletedIs DEF Fresh
<1>t. ASSUME wf[w].act # 4, TryAgain(w)
      PROVE  Calm(w) /\ ~wf[w].err
  BY <1>2, <1>t, TryAgainIs DEF Fresh
<1>g. ASSUME wf[w].act # 4, NEW pc, Goto(w, pc)
      PROVE  Calm(w) /\ ~wf[w].err
  <2>1. wf'[w] = [wf[w] EXCEPT !.pc = pc]
    BY <1>g, WithIs DEF Goto
  <2>2. wf'[w].act = wf[w].act
    BY <1>0, <2>1 DEF Workflow
  <2> QED BY <1>2, <1>g, <2>2
<1>3. CASE FixHasEntryFile(w)
  BY <1>3, <1>c, <1>g, AtIs DEF FixHasEntryFile
<1>4. CASE Deploy(w) \/ Override(w) \/ SetRepoUpdateTime(w) \/ WatcherFails(w)
  BY <1>4, <1>c, AtIs DEF Deploy, Override, SetRepoUpdateTime, WatcherFails
<1>5. CASE toRepoIDsFromReadme(w)
  <2>1. wf[w].act = 2
    BY <1>5, AtIs DEF toRepoIDsFromReadme
  <2>2. ASSUME With(w, [wf[w] EXCEPT !.pc = "override", !.content = tree[wf[w].ref].readme])
        PROVE  Calm(w) /\ ~wf[w].err
    <3>1. wf'[w] = [wf[w] EXCEPT !.pc = "override", !.content = tree[wf[w].ref].readme]
      BY <2>2, WithIs
    <3>2. wf'[w].act = wf[w].act
      BY <1>0, <3>1 DEF Workflow
    <3> QED BY <1>2, <2>1, <3>2
  <2> QED BY <1>5, <1>c, <1>g, <2>1, <2>2 DEF toRepoIDsFromReadme
<1>6. CASE WorkerDies(w)
  <2>1. wf[w].act # 4
    <3>1. CASE wf[w].act = 4
      <4>1. Note("repeated")
        BY <1>6, <3>1, Activities DEF WorkerDies
      <4> QED BY <4>1, Noted DEF Flags
    <3> QED BY <3>1
  <2> QED BY <1>6, <1>t, <2>1 DEF WorkerDies
<1>7. CASE CallFails(w)
  BY <1>7, <1>t, AtIs DEF CallFails
<1>8. CASE SensitiveCheck(w)
  BY <1>8, <1>t, <1>c, AtIs DEF SensitiveCheck
<1> QED BY <1>3, <1>4, <1>5, <1>6, <1>7, <1>8

\* UpdateRepoInfos counts a file at a time, and a file that fails is noted.
LEMMA InfosCalm ==
  ASSUME Typed, Shapes, NEW w \in W, ~hist'.repeated, load.kind = "model", ~wf'[w].err,
         Infos(w), ~SetLibraryTag(w), ~RemoveLibraryTag(w)
  PROVE  Calm(w) /\ ~wf[w].err
<1>0. wf[w] \in Workflow /\ Shape(w) /\ Moves(w) /\ Shape(w)' /\ load' = load
  <2>1. Works(w)
    BY DEF Infos, LicenseSteps, LibrarySteps, Works, Step
  <2> QED BY <2>1, Rows, WorkIs DEF Shapes, Stored, Moves
<1>1. libCount' = libCount
  BY DEF Infos, LicenseSteps, LibrarySteps, UpdateRepoInfos, getFileRaw, ProcessReadme, SaveTags, SetMetaTags,
         ReplaceMetaTags, SelectLicense, FindById, UpdateLicenseByTag, LicenseFails, SelectLibraryTag,
         InfosUpdated, InfoFails, rows
<1>t. Todo(wf[w].diff)' = Todo(wf[w].diff) /\ Tagged
  BY <1>0 DEF Moves, Todo, Tagged
<1>r. "README.md" \notin load.files
  BY LoadIs
\* The same file.
<1>e. ASSUME wf[w].act = 4, wf[w].pc # "start", NEW r, With(w, r), r.act = 4, r.pc # "start",
             r.todo = wf[w].todo, r.err = wf[w].err
      PROVE  Calm(w) /\ ~wf[w].err
  <2>1. wf'[w] = r
    BY <1>e, WithIs
  <2>2. \A how \in {"Added", "Removed"} : Left(w, how)' = Left(w, how)
    BY <1>e, <2>1 DEF Left
  <2> QED BY <1>1, <1>e, <2>1, <2>2 DEF Calm
<1>g. ASSUME wf[w].act = 4, wf[w].pc # "start", NEW pc, pc # "start", Goto(w, pc)
      PROVE  Calm(w) /\ ~wf[w].err
  <2> DEFINE r == [wf[w] EXCEPT !.pc = pc]
  <2>1. r.act = wf[w].act /\ r.pc = pc /\ r.todo = wf[w].todo /\ r.err = wf[w].err
    BY <1>0 DEF Workflow
  <2>2. With(w, r)
    BY <1>g DEF Goto
  <2> HIDE DEF r
  <2> QED BY <1>e, <1>g, <2>1, <2>2
\* The next file, after README.md.
<1>n. ASSUME wf[w].st = "run", wf[w].act = 4, wf[w].pc \in TagPcs \cup LicensePcs, With(w, Rest(w))
      PROVE  Calm(w) /\ ~wf[w].err
  <2>0. wf[w].pc \notin {"start", "end"}
    BY <1>n DEF TagPcs, LicensePcs
  <2>1. wf'[w].err = wf[w].err /\ Begins(w, wf'[w], OneLess(w))
    BY <1>0, <1>n, <2>0, RestShape
  <2>2. Item(w) = "README.md" /\ wf[w].todo # Nothing
    BY <1>0, <1>n, <2>0 DEF Shape, Handling
  <2>3. /\ \A how \in Groups \ {How(w)} : OneLess(w)[how] = wf[w].todo[how]
        /\ OneLess(w)[How(w)] = wf[w].todo[How(w)] \ {"README.md"}
    BY <2>2, LessIs
  <2>4. \A how \in {"Added", "Removed"} : Left(w, how)' = OneLess(w)[how] /\ Left(w, how) = wf[w].todo[how]
    BY <1>n, <2>0, <2>1 DEF Left, Begins
  <2>5. \A how \in {"Added", "Removed"} : \A f \in load.files : f \in Left(w, how)' <=> f \in Left(w, how)
    BY <1>r, <2>3, <2>4 DEF Groups
  <2> QED BY <1>1, <2>1, <2>5 DEF Calm
<1>f. ASSUME wf[w].st = "run", wf[w].act = 4, wf[w].pc \notin {"start", "end"}, FileFails(w)
      PROVE  FALSE
  BY <1>0, <1>f, FileFailsShape
<1>2. CASE UpdateRepoInfos(w)
  <2>1. wf[w].st = "run" /\ wf[w].act = 4 /\ wf[w].pc = "start" /\ With(w, Begin(w, Todo(wf[w].diff)))
    BY <1>2, AtIs DEF UpdateRepoInfos
  <2>2. Todo(wf[w].diff) \in Diff
    BY <1>0 DEF Todo, Diff, Workflow
  <2>3. Begins(w, wf'[w], Todo(wf[w].diff)) /\ wf'[w].err = wf[w].err
    BY <2>1, <2>2, BeginIs, WithIs
  <2>4. \A how \in {"Added", "Removed"} : Left(w, how)' = Left(w, how)
    BY <2>1, <2>3 DEF Left, Begins
  <2> QED BY <1>1, <2>3, <2>4 DEF Calm
<1>3. CASE getFileRaw(w)
  <2>1. wf[w].st = "run" /\ wf[w].act = 4 /\ wf[w].pc = "raw"
    BY <1>3, AtIs DEF getFileRaw
  <2>2. With(w, [wf[w] EXCEPT !.pc = "tags", !.content = tree[wf[w].ref].readme])
    BY <1>3, <1>f, <1>t, <2>1 DEF getFileRaw
  <2> DEFINE r == [wf[w] EXCEPT !.pc = "tags", !.content = tree[wf[w].ref].readme]
  <2>3. r.act = wf[w].act /\ r.pc = "tags" /\ r.todo = wf[w].todo /\ r.err = wf[w].err
    BY <1>0 DEF Workflow
  <2>4. With(w, r)
    BY <2>2
  <2> HIDE DEF r
  <2> QED BY <1>e, <2>1, <2>3, <2>4
<1>4. CASE ProcessReadme(w)
  <2>1. wf[w].st = "run" /\ wf[w].act = 4 /\ wf[w].pc = "tags"
    BY <1>4, AtIs DEF ProcessReadme
  <2>2. ASSUME NEW ts, NEW tags, With(w, [wf[w] EXCEPT !.pc = "save", !.new = ts, !.tags = tags])
        PROVE  Calm(w) /\ ~wf[w].err
    <3> DEFINE r == [wf[w] EXCEPT !.pc = "save", !.new = ts, !.tags = tags]
    <3>1. r.act = wf[w].act /\ r.pc = "save" /\ r.todo = wf[w].todo /\ r.err = wf[w].err
      BY <1>0 DEF Workflow
    <3>2. With(w, r)
      BY <2>2
    <3> HIDE DEF r
    <3> QED BY <1>e, <2>1, <3>1, <3>2
  <2> QED BY <1>4, <1>f, <2>1, <2>2, ProcessReadmeIs
<1>5. CASE SaveTags(w)
  BY <1>5, <1>f, <1>g, AtIs DEF SaveTags
<1>6. CASE SetMetaTags(w)
  <2> DEFINE r == [wf[w] EXCEPT !.pc = "set", !.old = repoTags]
  <2>1. wf[w].act = 4 /\ wf[w].pc = "old" /\ With(w, r)
    BY <1>6, AtIs DEF SetMetaTags
  <2>2. r.act = wf[w].act /\ r.pc = "set" /\ r.todo = wf[w].todo /\ r.err = wf[w].err
    BY <1>0 DEF Workflow
  <2> HIDE DEF r
  <2> QED BY <1>e, <2>1, <2>2
<1>7. CASE ReplaceMetaTags(w)
  BY <1>7, <1>f, <1>g, <1>n, AtIs DEF ReplaceMetaTags, TagPcs
<1>8. CASE UpdateLicenseByTag(w) \/ LicenseFails(w)
  BY <1>8, <1>n, AtIs DEF UpdateLicenseByTag, LicenseFails, LicensePcs
<1>11. CASE SelectLicense(w)
  <2>1. wf[w].st = "run" /\ wf[w].act = 4 /\ wf[w].pc = "license"
    BY <1>11, AtIs DEF SelectLicense
  <2>2. ASSUME NEW t, With(w, [wf[w] EXCEPT !.pc = "row", !.license = t])
        PROVE  Calm(w) /\ ~wf[w].err
    <3> DEFINE r == [wf[w] EXCEPT !.pc = "row", !.license = t]
    <3>1. r.act = wf[w].act /\ r.pc = "row" /\ r.todo = wf[w].todo /\ r.err = wf[w].err
      BY <1>0 DEF Workflow
    <3>2. With(w, r)
      BY <2>2
    <3> HIDE DEF r
    <3> QED BY <1>e, <2>1, <3>1, <3>2
  <2> QED BY <1>11, <1>n, <2>1, <2>2 DEF SelectLicense, LicensePcs
<1>12. CASE FindById(w)
  <2> DEFINE r == [wf[w] EXCEPT !.pc = "relicense", !.row = repo]
  <2>1. wf[w].act = 4 /\ wf[w].pc = "row" /\ With(w, r)
    BY <1>12, AtIs DEF FindById
  <2>2. r.act = wf[w].act /\ r.pc = "relicense" /\ r.todo = wf[w].todo /\ r.err = wf[w].err
    BY <1>0 DEF Workflow
  <2> HIDE DEF r
  <2> QED BY <1>e, <2>1, <2>2
<1>13. CASE SelectLibraryTag(w)
  BY <1>13, <1>g, AtIs DEF SelectLibraryTag
<1>9. CASE InfosUpdated(w)
  <2>1. wf[w].act = 4 /\ wf[w].pc = "end"
    BY <1>9, AtIs DEF InfosUpdated
  <2>2. ~wf[w].err /\ Completed(w)
    <3>1. CASE wf[w].err
      <4>1. Note("repeated")
        BY <1>9, <3>1 DEF InfosUpdated
      <4> QED BY <4>1, Noted DEF Flags
    <3> QED BY <1>9, <3>1 DEF InfosUpdated
  <2>3. wf'[w].act = 5
    BY <2>1, <2>2, CompletedIs
  <2>4. wf[w].todo = Nothing
    BY <1>0, <2>1 DEF Shape, Handling
  <2>5. \A how \in {"Added", "Removed"} : Left(w, how)' = {} /\ Left(w, how) = {}
    BY <2>1, <2>3, <2>4, Nothings DEF Left, Groups
  <2> QED BY <1>1, <2>2, <2>5 DEF Calm
<1>10. CASE InfoFails(w)
  BY <1>10, <1>f, AtIs DEF InfoFails
<1> QED BY <1>2, <1>3, <1>4, <1>5, <1>6, <1>7, <1>8, <1>9, <1>10, <1>11, <1>12, <1>13 DEF Infos, LicenseSteps, LibrarySteps

\* A file that is counted is no longer to be counted.
LEMMA LibraryIs ==
  ASSUME Typed, Shapes, Within, NEW w \in W, load.kind = "model", ~hist'.skipped, ~wf'[w].err,
         SetLibraryTag(w) \/ RemoveLibraryTag(w)
  PROVE  /\ wf'[w].err = wf[w].err
         /\ \E how \in {"Added", "Removed"} : \E f \in load.files :
               /\ f \in Left(w, how)
               /\ Left(w, how)' = Left(w, how) \ {f}
               /\ \A other \in {"Added", "Removed"} \ {how} : Left(w, other)' = Left(w, other)
               /\ how = "Added" => libCount' = libCount + 1
               /\ how = "Removed" => libCount' = libCount - 1
<1>0. wf[w] \in Workflow /\ Shape(w) /\ load' = load
  BY Rows DEF Shapes, SetLibraryTag, RemoveLibraryTag
<1>a. wf[w].st = "run" /\ wf[w].act = 4 /\ wf[w].pc \in LibraryPcs
  BY AtIs DEF SetLibraryTag, RemoveLibraryTag, LibraryPcs
<1>p. wf[w].pc \notin {"start", "end"}
  BY <1>a DEF LibraryPcs
<1>b. ~FileFails(w)
  BY <1>0, <1>a, <1>p, FileFailsShape
<1>1. wf[w].st = "run" /\ wf[w].act = 4 /\ wf[w].pc \in LibraryPcs /\ With(w, Rest(w))
  BY <1>a, <1>b DEF SetLibraryTag, RemoveLibraryTag
<1>2. wf'[w].err = wf[w].err /\ Begins(w, wf'[w], OneLess(w))
  BY <1>0, <1>1, <1>p, RestShape
<1>3. /\ Item(w) # "README.md" /\ wf[w].todo # Nothing
      /\ \A how \in Groups : wf[w].todo[how] \subseteq Todo(wf[w].diff)[how]
      /\ wf[w].pc # "library" => How(w) # "Removed"
  BY <1>0, <1>1, <1>p DEF Shape, Handling
<1>4. /\ How(w) \in Groups /\ Item(w) \in wf[w].todo[How(w)]
      /\ OneLess(w)[How(w)] = wf[w].todo[How(w)] \ {Item(w)}
      /\ \A how \in Groups \ {How(w)} : OneLess(w)[how] = wf[w].todo[how]
  BY <1>3, LessIs
<1>5. \A how \in {"Added", "Removed"} : Left(w, how)' = OneLess(w)[how] /\ Left(w, how) = wf[w].todo[how]
  BY <1>1, <1>2, <1>p DEF Left, Begins
<1>6. \A how \in Groups : wf[w].todo[how] \subseteq wf[w].diff[how]
  BY <1>3 DEF Todo, Tagged
<1>7. How(w) \in {"Added", "Removed"}
  <2>1. wf[w].diff["Modified"] \subseteq {"README.md"}
    BY <1>0 DEF Shape
  <2>2. How(w) # "Modified"
    BY <1>3, <1>4, <1>6, <2>1
  <2> QED BY <1>4, <2>2 DEF Groups
<1>8. Item(w) \in load.files
  BY <1>3, <1>4, <1>6 DEF Within
<1>9. /\ How(w) = "Added" => libCount' = libCount + 1
      /\ How(w) = "Removed" => libCount' = libCount - 1
  <2>0. libCount \in Nat /\ (~libRow => libCount = 0)
    BY DEF Typed, PushTypes, Counter
  <2>1. CASE SetLibraryTag(w)
    <3>1. wf[w].pc # "library"
      BY <2>1, AtIs DEF SetLibraryTag
    <3>2. libCount' = libCount + 1
      BY <1>b, <2>0, <2>1 DEF SetLibraryTag
    <3> QED BY <1>3, <3>1, <3>2
  <2>2. CASE RemoveLibraryTag(w)
    <3>1. libCount # 0
      <4>1. CASE libCount = 0
        <5>1. Note("skipped")
          BY <2>2, <4>1 DEF RemoveLibraryTag
        <5> QED BY <5>1, Noted DEF Flags
      <4> QED BY <4>1
    <3> QED BY <2>0, <2>2, <3>1 DEF RemoveLibraryTag
  <2> QED BY <2>1, <2>2
<1> QED BY <1>2, <1>4, <1>5, <1>7, <1>8, <1>9 DEF Groups

\* What a push does.
LEMMA PushIs ==
  ASSUME Typed, PostReceive
  PROVE  \E b \in Refs : \E t \in Trees :
           /\ b \in load.refs /\ t # tree[b] /\ tree' = [tree EXCEPT ![b] = t]
           /\ W' = W \cup {Len(wf) + 1} /\ \A w \in W : wf'[w] = wf[w]
           /\ \E st \in {"run", "lost"} : wf'[Len(wf) + 1] = Begun(st, 1, 1, b, GetDiffBetweenTwoCommits(tree[b], t))
<1>0. wf \in Seq(Workflow) /\ load \in Loads
  BY DEF Typed, PushTypes
<1>1. PICK b \in load.refs, t \in Trees, st \in {"run", "lost"} :
         /\ t # tree[b] /\ tree' = [tree EXCEPT ![b] = t]
         /\ wf' = Append(wf, Begun(st, 1, 1, b, GetDiffBetweenTwoCommits(tree[b], t)))
  BY DEF PostReceive
<1>2. b \in Refs
  BY <1>0, PushesAssumption
<1> DEFINE r == Begun(st, 1, 1, b, GetDiffBetweenTwoCommits(tree[b], t))
<1>3. wf' = Append(wf, r)
  BY <1>1
<1> HIDE DEF r
<1>4. W' = W \cup {Len(wf) + 1} /\ (\A w \in W : wf'[w] = wf[w]) /\ wf'[Len(wf) + 1] = r
  BY <1>0, <1>3 DEF W
<1> QED BY <1>1, <1>2, <1>4 DEF r

LEMMA DifferenceOfFiles ==
  ASSUME NEW old, NEW new, "README.md" \notin old.files \cup new.files
  PROVE  /\ GetDiffBetweenTwoCommits(old, new)["Added"] \ {"README.md"} = new.files \ old.files
         /\ GetDiffBetweenTwoCommits(old, new)["Removed"] \ {"README.md"} = old.files \ new.files
         /\ GetDiffBetweenTwoCommits(old, new)["Modified"] \ {"README.md"} = {}
<1>1. PICK d : d = GetDiffBetweenTwoCommits(old, new)
  OBVIOUS
<1>2. Parts(d, old, new)
  BY <1>1, DifferenceParts
<1>4. /\ d["Added"] \ {"README.md"} = new.files \ old.files
      /\ d["Removed"] \ {"README.md"} = old.files \ new.files
      /\ d["Modified"] \ {"README.md"} = {}
  BY <1>2 DEF Parts, Changed
<1> QED BY <1>1, <1>4

LEMMA WithinKept ==
  ASSUME Base, Within, [Next]_vars
  PROVE  Within'
<1>1. CASE PostReceive
  <2>1. PICK b \in Refs : \E t \in Trees :
           /\ b \in load.refs /\ t # tree[b] /\ tree' = [tree EXCEPT ![b] = t]
           /\ W' = W \cup {Len(wf) + 1} /\ \A w \in W : wf'[w] = wf[w]
           /\ \E st \in {"run", "lost"} : wf'[Len(wf) + 1] = Begun(st, 1, 1, b, GetDiffBetweenTwoCommits(tree[b], t))
    BY <1>1, PushIs DEF Base
  <2>2. PICK t \in Trees :
           /\ tree' = [tree EXCEPT ![b] = t]
           /\ W' = W \cup {Len(wf) + 1} /\ \A w \in W : wf'[w] = wf[w]
           /\ \E st \in {"run", "lost"} : wf'[Len(wf) + 1] = Begun(st, 1, 1, b, GetDiffBetweenTwoCommits(tree[b], t))
    BY <2>1
  <2>3. t.files \subseteq load.files /\ tree[b].files \subseteq load.files /\ load' = load
    BY <1>1, <2>2 DEF Trees, Within, PostReceive
  <2>4. wf'[Len(wf) + 1].diff = GetDiffBetweenTwoCommits(tree[b], t)
    BY <2>2 DEF Begun
  <2>5. "README.md" \notin tree[b].files \cup t.files
    BY <2>3, LoadIs DEF Base
  <2>6. \A how \in Groups : wf'[Len(wf) + 1].diff[how] \subseteq load.files \cup {"README.md"}
    BY <2>3, <2>4, <2>5, DifferenceOfFiles DEF Groups
  <2>7. \A c \in Refs : tree'[c].files \subseteq load.files
    BY <2>2, <2>3 DEF Within, Base, Typed, PushTypes
  <2> QED BY <2>2, <2>3, <2>6, <2>7 DEF Within
<1>2. ASSUME NEW w \in W, Works(w)
      PROVE  Within'
  <2>1. Moves(w) /\ tree' = tree /\ load' = load
    BY <1>2, WorkIs DEF Base, Stored
  <2> QED BY <2>1 DEF Within, Moves
<1>3. CASE Checking /\ UNCHANGED <<wf, rows>>
  <2>1. PICK c \in C : CheckStep(c) \/ ActivityFails(c)
    BY <1>3 DEF Checking
  <2>2. tree' = tree /\ load' = load /\ wf' = wf
    BY <1>3, <2>1, CheckFrame DEF Base
  <2> QED BY <2>2 DEF Within, W
<1>4. CASE UNCHANGED vars
  BY <1>4 DEF vars, Within, W
<1> QED BY <1>1, <1>2, <1>3, <1>4 DEF Next, Works

LEMMA Counted ==
  ASSUME Typed, NEW how
  PROVE  IsFiniteSet(ToCount(how)) /\ Cardinality(ToCount(how)) \in Nat
<1>1. IsFiniteSet(W)
  BY Rows, FS_Interval
<1>2. IsFiniteSet(W \X load.files)
  BY <1>1, LoadIs, FS_Product
<1>3. ToCount(how) \in SUBSET (W \X load.files)
  BY DEF ToCount
<1>4. IsFiniteSet(ToCount(how))
  BY <1>2, <1>3, FS_Subset
<1> QED BY <1>4, FS_CardinalityType

LEMMA WorkKeepsNeat ==
  ASSUME Base, NEW w \in W, Works(w), Neat'
  PROVE  /\ load.kind = "model" /\ load' = load /\ tree' = tree /\ Moves(w)
         /\ ~wf[w].err => Neat
         /\ ~hist'.repeated /\ ~hist'.skipped /\ ~wf'[w].err
<1>1. Moves(w) /\ Stored /\ wf[w].st = "run"
  <2>1. wf[w].st = "run"
    <3>1. CASE SensitiveCheck(w)
      BY <3>1, AtIs DEF SensitiveCheck, Base
    <3> QED BY <3>1, NotYetDone DEF Base
  <2> QED BY <2>1, WorkIs DEF Base
<1>2. load.kind = "model" /\ load' = load /\ tree' = tree /\ ~hist'.repeated /\ ~hist'.skipped
  BY <1>1 DEF Neat, Stored
<1>3. ~hist.repeated /\ ~hist.skipped
  BY <1>1, <1>2 DEF Stored, HistGrows, Flags
<1>4. \A v \in W \ {w} : wf[v].st # "failed" /\ wf[v].ref = Main /\ ~wf[v].err
  BY <1>1 DEF Neat, Moves
<1>5. wf[w].ref = Main /\ ~wf'[w].err
  BY <1>1 DEF Neat, Moves
<1> QED BY <1>1, <1>2, <1>3, <1>4, <1>5 DEF Neat

LEMMA WorkKeepsBalanced ==
  ASSUME Base, Within, Balanced, NEW w \in W, Works(w)
  PROVE  Balanced'
<1> SUFFICES ASSUME Neat'
             PROVE  libCount' + Cardinality(ToCount("Added")')
                      = Cardinality(tree'[Main].files) + Cardinality(ToCount("Removed")')
  BY DEF Balanced
<1>1. /\ load.kind = "model" /\ load' = load /\ tree' = tree /\ Moves(w)
      /\ ~wf[w].err => Neat
      /\ ~hist'.repeated /\ ~hist'.skipped /\ ~wf'[w].err
  BY WorkKeepsNeat
<1>2. ASSUME NEW v \in W, v # w, NEW how
      PROVE  Left(v, how)' = Left(v, how)
  BY <1>1, <1>2 DEF Moves, Left, Todo, Tagged
<1>3. ASSUME NEW how, \A f \in load.files : f \in Left(w, how)' <=> f \in Left(w, how)
      PROVE  ToCount(how)' = ToCount(how)
  <2>1. \A v \in W : \A f \in load.files : f \in Left(v, how)' <=> f \in Left(v, how)
    BY <1>2, <1>3
  <2>2. W' = W
    BY <1>1 DEF Moves
  <2> QED BY <1>1, <2>1, <2>2 DEF ToCount
<1>4. ASSUME NEW how, NEW f \in load.files, f \in Left(w, how), Left(w, how)' = Left(w, how) \ {f}
      PROVE  Cardinality(ToCount(how)') = Cardinality(ToCount(how)) - 1
  <2>1. <<w, f>> \in ToCount(how)
    BY <1>4 DEF ToCount
  <2>2. ToCount(how)' = ToCount(how) \ {<<w, f>>}
    <3>1. W' = W
      BY <1>1 DEF Moves
    <3>2. \A v \in W \ {w} : Left(v, how)' = Left(v, how)
      BY <1>2
    <3> QED BY <1>1, <1>4, <3>1, <3>2 DEF ToCount
  <2>3. IsFiniteSet(ToCount(how))
    BY Counted DEF Base
  <2> QED BY <2>1, <2>2, <2>3, FS_RemoveElement
<1>5. Cardinality(ToCount("Added")) \in Nat /\ Cardinality(ToCount("Removed")) \in Nat /\ libCount \in Nat
  BY Counted DEF Base, Typed, PushTypes, Counter
<1>6. CASE SetLibraryTag(w) \/ RemoveLibraryTag(w)
  <2>1. Neat
    BY <1>1, <1>6, LibraryIs DEF Base
  <2>2. libCount + Cardinality(ToCount("Added")) = Cardinality(tree[Main].files) + Cardinality(ToCount("Removed"))
    BY <2>1 DEF Balanced
  <2>3. PICK how \in {"Added", "Removed"} : \E f \in load.files :
           /\ f \in Left(w, how) /\ Left(w, how)' = Left(w, how) \ {f}
           /\ \A other \in {"Added", "Removed"} \ {how} : Left(w, other)' = Left(w, other)
           /\ how = "Added" => libCount' = libCount + 1
           /\ how = "Removed" => libCount' = libCount - 1
    BY <1>1, <1>6, LibraryIs DEF Base
  <2>4. /\ Cardinality(ToCount(how)') = Cardinality(ToCount(how)) - 1
        /\ \A other \in {"Added", "Removed"} \ {how} : ToCount(other)' = ToCount(other)
    BY <1>3, <1>4, <2>3
  <2>a. Cardinality(tree[Main].files) \in Nat
    BY FS_Subset, FS_CardinalityType, LoadIs, PushesAssumption DEF Within, Base
  <2>5. CASE how = "Added"
    BY <1>1, <1>5, <2>2, <2>3, <2>4, <2>5, <2>a
  <2>6. CASE how = "Removed"
    BY <1>1, <1>5, <2>2, <2>3, <2>4, <2>6, <2>a
  <2> QED BY <2>5, <2>6
<1>7. CASE ~SetLibraryTag(w) /\ ~RemoveLibraryTag(w)
  <2>1. Calm(w) /\ ~wf[w].err
    BY <1>1, <1>7, WorkCases, WatchCalm, InfosCalm DEF Base
  <2>2. libCount + Cardinality(ToCount("Added")) = Cardinality(tree[Main].files) + Cardinality(ToCount("Removed"))
    BY <1>1, <2>1 DEF Balanced
  <2>3. ToCount("Added")' = ToCount("Added") /\ ToCount("Removed")' = ToCount("Removed") /\ libCount' = libCount
    BY <1>3, <2>1 DEF Calm
  <2> QED BY <1>1, <2>2, <2>3
<1> QED BY <1>6, <1>7

LEMMA PushKeepsBalanced ==
  ASSUME Base, Within, Balanced, PostReceive
  PROVE  Balanced'
<1> SUFFICES ASSUME Neat'
             PROVE  libCount' + Cardinality(ToCount("Added")')
                      = Cardinality(tree'[Main].files) + Cardinality(ToCount("Removed")')
  BY DEF Balanced
<1>1. PICK b \in Refs : \E t \in Trees :
         /\ b \in load.refs /\ t # tree[b] /\ tree' = [tree EXCEPT ![b] = t]
         /\ W' = W \cup {Len(wf) + 1} /\ \A w \in W : wf'[w] = wf[w]
         /\ \E st \in {"run", "lost"} : wf'[Len(wf) + 1] = Begun(st, 1, 1, b, GetDiffBetweenTwoCommits(tree[b], t))
  BY PushIs DEF Base
<1>n. PICK n : n = Len(wf) + 1
  OBVIOUS
<1>2. PICK t \in Trees :
         /\ tree' = [tree EXCEPT ![b] = t]
         /\ W' = W \cup {n} /\ \A w \in W : wf'[w] = wf[w]
         /\ \E st \in {"run", "lost"} : wf'[n] = Begun(st, 1, 1, b, GetDiffBetweenTwoCommits(tree[b], t))
  BY <1>1, <1>n
<1>3. n \notin W /\ load' = load /\ hist' = hist /\ libCount' = libCount
  BY <1>n, Rows DEF PostReceive, Base
<1>4. wf'[n].ref = b /\ wf'[n].act = 1 /\ wf'[n].diff = GetDiffBetweenTwoCommits(tree[b], t)
  BY <1>2 DEF Begun
<1>5. b = Main /\ Neat /\ load.kind = "model"
  BY <1>2, <1>3, <1>4 DEF Neat
<1>6. PICK old, new : old = tree[Main].files /\ new = t.files
  OBVIOUS
<1>7. old \subseteq load.files /\ new \subseteq load.files /\ tree'[Main].files = new
  BY <1>2, <1>5, <1>6, PushesAssumption DEF Within, Trees, Base, Typed, PushTypes
<1>8. IsFiniteSet(old) /\ IsFiniteSet(new)
  BY <1>7, LoadIs, FS_Subset DEF Base
\* What the push adds to what is to be counted.
<1>9. ASSUME NEW how \in Groups, NEW D \in SUBSET load.files,
             wf'[n].diff[how] \ {"README.md"} = D
      PROVE  Cardinality(ToCount(how)') = Cardinality(ToCount(how)) + Cardinality(D)
  <2>1. Left(n, how)' = wf'[n].diff[how]
    BY <1>3, <1>4, <1>5, <1>9 DEF Left, Todo, Tagged
  <2>2. \A w \in W : Left(w, how)' = Left(w, how)
    BY <1>2, <1>3 DEF Left, Todo, Tagged
  <2>3. \A f \in load.files : f \in wf'[n].diff[how] <=> f \in D
    BY <1>9, LoadIs DEF Base
  <2>4. ToCount(how)' = ToCount(how) \cup ({n} \X D)
    <3>1. \A p \in (W \cup {n}) \X load.files : p[2] \in Left(p[1], how)' <=> p \in ToCount(how) \cup ({n} \X D)
      <4>1. ASSUME NEW w \in W, NEW f \in load.files
            PROVE  f \in Left(w, how)' <=> <<w, f>> \in ToCount(how) \cup ({n} \X D)
        BY <1>3, <2>2 DEF ToCount
      <4>2. ASSUME NEW f \in load.files
            PROVE  f \in Left(n, how)' <=> <<n, f>> \in ToCount(how) \cup ({n} \X D)
        BY <1>3, <2>1, <2>3 DEF ToCount
      <4> QED BY <4>1, <4>2
    <3>2. ToCount(how) \cup ({n} \X D) \subseteq (W \cup {n}) \X load.files
      BY DEF ToCount
    <3>3. ToCount(how)' = {p \in (W \cup {n}) \X load.files : p[2] \in Left(p[1], how)'}
      BY <1>2, <1>3 DEF ToCount
    <3> QED BY <3>1, <3>2, <3>3
  <2>5. ToCount(how) \cap ({n} \X D) = {}
    BY <1>3 DEF ToCount
  <2>6. IsFiniteSet(D)
    BY LoadIs, FS_Subset DEF Base
  <2>7. IsFiniteSet({n}) /\ Cardinality({n}) = 1 /\ Cardinality(D) \in Nat
    BY <2>6, FS_Singleton, FS_CardinalityType
  <2>8. IsFiniteSet({n} \X D) /\ Cardinality({n} \X D) = Cardinality(D)
    <3>1. IsFiniteSet({n} \X D) /\ Cardinality({n} \X D) = Cardinality({n}) * Cardinality(D)
      BY <2>6, <2>7, FS_Product
    <3> QED BY <2>7, <3>1
  <2>9. IsFiniteSet(ToCount(how)) /\ Cardinality(ToCount(how)) \in Nat
    BY Counted DEF Base
  <2>10. Cardinality(ToCount(how)')
           = Cardinality(ToCount(how)) + Cardinality({n} \X D) - Cardinality({})
    BY <2>4, <2>5, <2>8, <2>9, FS_Union
  <2>11. Cardinality({}) = 0
    BY FS_EmptySet
  <2> QED BY <2>7, <2>8, <2>9, <2>10, <2>11
<1>10. /\ wf'[n].diff["Added"] \ {"README.md"} = new \ old
       /\ wf'[n].diff["Removed"] \ {"README.md"} = old \ new
  BY <1>4, <1>5, <1>6, <1>7, LoadIs, DifferenceOfFiles DEF Base
<1>11. /\ Cardinality(ToCount("Added")') = Cardinality(ToCount("Added")) + Cardinality(new \ old)
       /\ Cardinality(ToCount("Removed")') = Cardinality(ToCount("Removed")) + Cardinality(old \ new)
  BY <1>7, <1>9, <1>10 DEF Groups
<1>12. /\ Cardinality(new \ old) = Cardinality(new) - Cardinality(new \cap old)
       /\ Cardinality(old \ new) = Cardinality(old) - Cardinality(new \cap old)
  <2>1. old \cap new = new \cap old
    OBVIOUS
  <2> QED BY <1>8, <2>1, FS_Difference
<1>13. /\ Cardinality(new) \in Nat /\ Cardinality(old) \in Nat /\ Cardinality(new \cap old) \in Nat
       /\ Cardinality(ToCount("Added")) \in Nat /\ Cardinality(ToCount("Removed")) \in Nat /\ libCount \in Nat
  <2>1. IsFiniteSet(new \cap old)
    BY <1>8, FS_Intersection
  <2> QED BY <1>8, <2>1, FS_CardinalityType, Counted DEF Base, Typed, PushTypes, Counter
<1>14. libCount + Cardinality(ToCount("Added")) = Cardinality(old) + Cardinality(ToCount("Removed"))
  BY <1>5, <1>6 DEF Balanced
<1> QED BY <1>3, <1>7, <1>11, <1>12, <1>13, <1>14

LEMMA StepKeepsBalanced ==
  ASSUME Base, Within, Balanced, [Next]_vars
  PROVE  Balanced'
<1>1. ASSUME wf' = wf, load' = load, tree' = tree, libCount' = libCount, Neat' => Neat
      PROVE  Balanced'
  <2>1. \A how : ToCount(how)' = ToCount(how)
    BY <1>1 DEF ToCount, Left, Todo, Tagged, W
  <2> QED BY <1>1, <2>1 DEF Balanced
<1>2. CASE Checking /\ UNCHANGED <<wf, rows>>
  <2>1. PICK c \in C : CheckStep(c) \/ ActivityFails(c)
    BY <1>2 DEF Checking
  <2>2. tree' = tree /\ load' = load /\ wf' = wf /\ libCount' = libCount
    BY <1>2, <2>1, CheckFrame DEF Base, rows
  <2>3. \A g \in Flags : hist[g] => hist'[g]
    BY <2>1, CheckHist DEF Base, HistGrows
  <2>4. Neat' => Neat
    BY <2>2, <2>3 DEF Neat, W, Flags
  <2> QED BY <1>1, <2>2, <2>4
<1>3. CASE UNCHANGED vars
  BY <1>1, <1>3 DEF vars, rows, Neat, W
<1> QED BY <1>2, <1>3, WorkKeepsBalanced, PushKeepsBalanced DEF Next, Works

\* The count of a library is the number of its files when all has come to rest: what
\* the workflows have not counted yet is the difference, until an activity is
\* repeated or a file is removed before it was counted.
THEOREM LibraryIsCounted == Spec => []LibraryCounted
<1>1. Init => Base /\ Within /\ Balanced
  <2> SUFFICES ASSUME Init
               PROVE  Base /\ Within /\ Balanced
    OBVIOUS
  <2>1. Base /\ W = {}
    BY Starts DEF W
  <2>2. tree[Main].files = {} /\ libCount = 0 /\ \A b \in Refs : tree[b].files = {}
    BY PushesAssumption DEF Init
  <2>3. \A how : ToCount(how) = {}
    BY <2>1 DEF ToCount
  <2>4. Cardinality({}) = 0
    BY FS_EmptySet
  <2> QED BY <2>1, <2>2, <2>3, <2>4 DEF Within, Balanced
<1>2. (Base /\ Within /\ Balanced) /\ [Next]_vars => (Base /\ Within /\ Balanced)'
  BY StepKeepsBase, WithinKept, StepKeepsBalanced
<1>3. Base /\ Within /\ Balanced => LibraryCounted
  <2> SUFFICES ASSUME Base, Within, Balanced, load.kind = "model", ~hist.repeated, ~hist.skipped,
                      \A w \in W : wf[w].st = "done" /\ wf[w].ref = Main
               PROVE  libCount = Cardinality(tree[Main].files)
    BY DEF LibraryCounted
  <2>1. \A w \in W : wf[w].err = FALSE /\ wf[w].act = 5
    BY DEF Base, Shapes, Shape, Fresh
  <2>2. Neat
    BY <2>1 DEF Neat
  <2>3. ToCount("Added") = {} /\ ToCount("Removed") = {}
    BY <2>1 DEF ToCount, Left
  <2>4. Cardinality({}) = 0
    BY FS_EmptySet
  <2>5. libCount \in Nat /\ Cardinality(tree[Main].files) \in Nat
    <3>1. tree[Main].files \in SUBSET load.files
      BY PushesAssumption DEF Within
    <3>2. IsFiniteSet(tree[Main].files)
      BY <3>1, LoadIs, FS_Subset DEF Base
    <3> QED BY <3>2, FS_CardinalityType DEF Base, Typed, PushTypes, Counter
  <2>6. libCount + Cardinality({}) = Cardinality(tree[Main].files) + Cardinality({})
    BY <2>2, <2>3 DEF Balanced
  <2> QED BY <2>4, <2>5, <2>6
<1> QED BY <1>1, <1>2, <1>3, PTL DEF Spec

----------------------------------------------------------------------------
(* What the last push leaves. *)

\* A difference names README.md at most once.  The last one of a branch that does
\* says whether there is one.
ReadmeIn(d) == \E how \in Groups : "README.md" \in d[how]
Once(d) == \A a, b \in Groups : "README.md" \in d[a] /\ "README.md" \in d[b] => a = b
Newest(w) ==
    ReadmeIn(wf[w].diff) /\ \A v \in W : v > w /\ wf[v].ref = wf[w].ref => ~ReadmeIn(wf[v].diff)
Told ==
    \A w \in W : /\ Once(wf[w].diff)
                 /\ Newest(w) => ("README.md" \in wf[w].diff["Removed"] <=> tree[wf[w].ref].readme = None)

LEMMA StatusIs ==
  ASSUME NEW d \in Diff
  PROVE  /\ ReadmeStatus(d) # "" <=> ReadmeIn(d)
         /\ ReadmeStatus(d) = "removed" => "README.md" \in d["Removed"]
         /\ Once(d) /\ "README.md" \in d["Removed"] => ReadmeStatus(d) = "removed"
<1>1. ReadmeIn(d) <=> "README.md" \in d["Modified"] \/ "README.md" \in d["Added"] \/ "README.md" \in d["Removed"]
  BY DEF ReadmeIn, Groups
<1>2. Once(d) /\ "README.md" \in d["Removed"] => "README.md" \notin d["Modified"] /\ "README.md" \notin d["Added"]
  BY DEF Once, Groups
<1> QED BY <1>1, <1>2 DEF ReadmeStatus

\* README.md in the difference of a push.
LEMMA PushReadme ==
  ASSUME Typed, PostReceive
  PROVE  \E b \in Refs :
           /\ W' = W \cup {Len(wf) + 1} /\ Len(wf) + 1 \notin W /\ (\A w \in W : wf'[w] = wf[w] /\ w < Len(wf) + 1)
           /\ wf'[Len(wf) + 1].ref = b /\ wf'[Len(wf) + 1].act = 1
           /\ \A c \in Refs \ {b} : tree'[c] = tree[c]
           /\ Once(wf'[Len(wf) + 1].diff)
           /\ IF ReadmeIn(wf'[Len(wf) + 1].diff)
              THEN "README.md" \in wf'[Len(wf) + 1].diff["Removed"] <=> tree'[b].readme = None
              ELSE tree'[b].readme = tree[b].readme
<1>0. /\ tree \in [Refs -> [readme : Contents, files : SUBSET Files]] /\ W = 1 .. Len(wf) /\ Len(wf) \in Nat
      /\ load \in Loads
  BY Rows DEF Typed, PushTypes
<1>1. PICK b \in Refs, t \in Trees :
         /\ tree' = [tree EXCEPT ![b] = t]
         /\ W' = W \cup {Len(wf) + 1} /\ \A w \in W : wf'[w] = wf[w]
         /\ \E st \in {"run", "lost"} : wf'[Len(wf) + 1] = Begun(st, 1, 1, b, GetDiffBetweenTwoCommits(tree[b], t))
  BY PushIs
<1>n. PICK n : n = Len(wf) + 1
  OBVIOUS
<1>2. PICK d : d = GetDiffBetweenTwoCommits(tree[b], t)
  OBVIOUS
<1>3. wf'[n].ref = b /\ wf'[n].act = 1 /\ wf'[n].diff = d
  BY <1>1, <1>2, <1>n DEF Begun
<1>4. Parts(d, tree[b], t)
  BY <1>2, DifferenceParts
<1>5. "README.md" \notin tree[b].files /\ "README.md" \notin t.files
  BY <1>0, PushesAssumption DEF Trees
<1>6. /\ "README.md" \in d["Added"] <=> tree[b].readme = None /\ tree[b].readme # t.readme
      /\ "README.md" \in d["Removed"] <=> t.readme = None /\ tree[b].readme # t.readme
      /\ "README.md" \in d["Modified"] <=> t.readme # None /\ tree[b].readme # None /\ tree[b].readme # t.readme
  BY <1>4, <1>5 DEF Parts, Changed
<1>7. Once(d) /\ (ReadmeIn(d) <=> tree[b].readme # t.readme)
  BY <1>6 DEF Once, ReadmeIn, Groups
<1>8. tree'[b] = t /\ \A c \in Refs \ {b} : tree'[c] = tree[c]
  BY <1>0, <1>1
<1>9. n \notin W /\ (\A w \in W : w < n)
  BY <1>0, <1>n
<1> QED BY <1>1, <1>3, <1>6, <1>7, <1>8, <1>9, <1>n

LEMMA ToldKept ==
  ASSUME Base, Told, [Next]_vars
  PROVE  Told'
<1>0. \A w \in W : wf[w].ref \in Refs
  BY Rows DEF Base, Workflow
<1>1. CASE PostReceive
  <2>n. PICK n : n = Len(wf) + 1
    OBVIOUS
  <2>1. PICK b \in Refs :
           /\ W' = W \cup {n} /\ n \notin W /\ (\A w \in W : wf'[w] = wf[w] /\ w < n)
           /\ wf'[n].ref = b
           /\ \A c \in Refs \ {b} : tree'[c] = tree[c]
           /\ Once(wf'[n].diff)
           /\ IF ReadmeIn(wf'[n].diff) THEN "README.md" \in wf'[n].diff["Removed"] <=> tree'[b].readme = None
              ELSE tree'[b].readme = tree[b].readme
    BY <1>1, <2>n, PushReadme DEF Base
  <2>2. ASSUME NEW w \in W
        PROVE  /\ Once(wf'[w].diff)
               /\ Newest(w)' => ("README.md" \in wf'[w].diff["Removed"] <=> tree'[wf'[w].ref].readme = None)
    <3>1. wf'[w] = wf[w] /\ n > w /\ w \in W' /\ n \in W' /\ Once(wf[w].diff)
      BY <2>1, Rows DEF Base, Told
    <3>2. ASSUME Newest(w)'
          PROVE  Newest(w) /\ tree'[wf'[w].ref].readme = tree[wf[w].ref].readme
      <4>1. Newest(w)
        BY <2>1, <3>1, <3>2 DEF Newest
      <4>2. CASE wf[w].ref = b
        <5>1. ~ReadmeIn(wf'[n].diff)
          BY <2>1, <3>1, <3>2, <4>2 DEF Newest
        <5> QED BY <2>1, <3>1, <4>1, <4>2, <5>1
      <4> QED BY <1>0, <2>1, <3>1, <4>1, <4>2
    <3> QED BY <3>1, <3>2 DEF Told
  <2>3. Newest(n)' => ("README.md" \in wf'[n].diff["Removed"] <=> tree'[wf'[n].ref].readme = None)
    BY <2>1 DEF Newest
  <2> QED BY <2>1, <2>2, <2>3 DEF Told
<1>2. ASSUME tree' = tree, W' = W, \A w \in W : wf'[w].diff = wf[w].diff /\ wf'[w].ref = wf[w].ref
      PROVE  Told'
  BY <1>2 DEF Told, Newest
<1>3. ASSUME NEW w \in W, Works(w)
      PROVE  Told'
  BY <1>2, <1>3, WorkIs DEF Base, Moves, Stored
<1>4. CASE Checking /\ UNCHANGED <<wf, rows>>
  <2>1. PICK c \in C : CheckStep(c) \/ ActivityFails(c)
    BY <1>4 DEF Checking
  <2>2. tree' = tree /\ wf' = wf
    BY <1>4, <2>1, CheckFrame DEF Base
  <2> QED BY <1>2, <2>2 DEF W
<1>5. CASE UNCHANGED vars
  BY <1>2, <1>5 DEF vars, W
<1> QED BY <1>1, <1>3, <1>4, <1>5 DEF Next, Works

\* The last of the workflows that speak of README.md.
LastIn(w, refs) == w \in ReadmePushes(refs) /\ \A v \in ReadmePushes(refs) : v <= w

LEMMA LastIs ==
  ASSUME Base, Told, NEW refs \in SUBSET Refs, NEW w \in W, LastIn(w, refs)
  PROVE  /\ ReadmeIn(wf[w].diff) /\ wf[w].ref \in refs /\ wf[w].diff \in Diff
         /\ "README.md" \in wf[w].diff["Removed"] <=> tree[wf[w].ref].readme = None
<1>1. W = 1 .. Len(wf) /\ \A v \in W : wf[v].diff \in Diff
  BY Rows DEF Base, Workflow
<1>2. \A v \in W : v \in ReadmePushes(refs) <=> wf[v].ref \in refs /\ ReadmeIn(wf[v].diff)
  BY <1>1, StatusIs DEF ReadmePushes
<1>3. \A v \in ReadmePushes(refs) : v <= w
  BY DEF LastIn
<1>4. wf[w].ref \in refs /\ ReadmeIn(wf[w].diff)
  BY <1>2 DEF LastIn
<1>5. Newest(w)
  BY <1>1, <1>2, <1>3, <1>4 DEF Newest
<1> QED BY <1>1, <1>4, <1>5 DEF Told

\* The steps of a workflow do not change which one it is.
LEMMA LastStays ==
  ASSUME Base, NEW u \in W, Works(u), NEW refs
  PROVE  /\ W' = W /\ \A w \in W : LastIn(w, refs)' <=> LastIn(w, refs)
         /\ tree' = tree /\ load' = load /\ \A w \in W \ {u} : wf'[w] = wf[w]
         /\ \A g \in Flags : hist[g] => hist'[g]
<1>1. Moves(u) /\ Stored
  BY WorkIs DEF Base
<1>2. \A w \in W : wf'[w].ref = wf[w].ref /\ wf'[w].diff = wf[w].diff
  BY <1>1 DEF Moves
<1>3. ReadmePushes(refs)' = ReadmePushes(refs)
  BY <1>1, <1>2 DEF ReadmePushes, Moves, ReadmeStatus
<1> QED BY <1>1, <1>3 DEF LastIn, Moves, Stored, HistGrows

\* A push either is the last one or leaves README.md as it was.
LEMMA LastPushed ==
  ASSUME Base, PostReceive, NEW refs \in SUBSET Refs, NEW w \in W', LastIn(w, refs)'
  PROVE  \/ wf'[w].act = 1
         \/ /\ w \in W /\ wf'[w] = wf[w] /\ LastIn(w, refs)
            /\ \A b \in refs : tree'[b].readme = tree[b].readme
<1>n. PICK n : n = Len(wf) + 1
  OBVIOUS
<1>1. PICK b \in Refs :
         /\ W' = W \cup {n} /\ n \notin W /\ (\A v \in W : wf'[v] = wf[v] /\ v < n)
         /\ wf'[n].ref = b /\ wf'[n].act = 1
         /\ \A c \in Refs \ {b} : tree'[c] = tree[c]
         /\ ~ReadmeIn(wf'[n].diff) => tree'[b].readme = tree[b].readme
  BY <1>n, PushReadme DEF Base
<1>0. W = 1 .. Len(wf) /\ Len(wf) \in Nat
  BY Rows DEF Base
<1>2. ASSUME w \in W
      PROVE  /\ wf'[w] = wf[w] /\ LastIn(w, refs)
             /\ \A c \in refs : tree'[c].readme = tree[c].readme
  <2>1. wf'[n].diff \in Diff
    <3>1. wf' \in Seq(Workflow) /\ n \in DOMAIN wf'
      BY <1>1, PostReceiveIs DEF Base, PushTypes, W
    <3>2. wf'[n] \in Workflow
      BY <3>1
    <3> QED BY <3>2 DEF Workflow
  <2>2. n \notin ReadmePushes(refs)'
    <3>1. \A v \in ReadmePushes(refs)' : v <= w
      BY DEF LastIn
    <3>2. ~(n <= w)
      BY <1>0, <1>2, <1>n
    <3> QED BY <3>1, <3>2
  <2>3. b \in refs => ~ReadmeIn(wf'[n].diff)
    BY <1>1, <2>1, <2>2, StatusIs DEF ReadmePushes
  <2>4. \A v \in W : v \in ReadmePushes(refs)' <=> v \in ReadmePushes(refs)
    BY <1>1 DEF ReadmePushes, ReadmeStatus
  <2>5. ReadmePushes(refs)' \subseteq W' /\ ReadmePushes(refs) \subseteq W
    BY DEF ReadmePushes
  <2>6. LastIn(w, refs)
    BY <1>1, <1>2, <2>2, <2>4, <2>5 DEF LastIn
  <2> QED BY <1>1, <1>2, <2>3, <2>6
<1> QED BY <1>1, <1>2

----------------------------------------------------------------------------
(* Which steps write what, and end an activity. *)

LEMMA WritesOf ==
  ASSUME NEW w, Works(w)
  PROVE  /\ relations' = relations \/ Override(w)
         /\ deployed' = deployed \/ Deploy(w)
         /\ repoTags' = repoTags \/ ReplaceMetaTags(w)
         /\ repo' = repo \/ UpdateLicenseByTag(w)
         /\ known' = known \/ SaveTags(w)
<1>1. CASE \/ FixHasEntryFile(w) \/ Deploy(w) \/ toRepoIDsFromReadme(w) \/ Override(w)
           \/ SetRepoUpdateTime(w) \/ SensitiveCheck(w)
           \/ WorkerDies(w) \/ WatcherFails(w) \/ CallFails(w)
  BY <1>1 DEF FixHasEntryFile, Deploy, toRepoIDsFromReadme, Override, SetRepoUpdateTime, SensitiveCheck,
              WorkerDies, WatcherFails, CallFails, rows, checkVars
<1>2. CASE UpdateRepoInfos(w) \/ getFileRaw(w) \/ ProcessReadme(w) \/ InfosUpdated(w) \/ InfoFails(w)
  BY <1>2 DEF UpdateRepoInfos, getFileRaw, ProcessReadme, InfosUpdated, InfoFails, rows, checkVars
<1>3. CASE SaveTags(w) \/ SetMetaTags(w) \/ ReplaceMetaTags(w)
  BY <1>3 DEF SaveTags, SetMetaTags, ReplaceMetaTags, rows, checkVars
<1>4. CASE LicenseSteps(w)
  BY <1>4 DEF LicenseSteps, SelectLicense, FindById, UpdateLicenseByTag, LicenseFails, rows, checkVars
<1>5. CASE LibrarySteps(w)
  BY <1>5 DEF LibrarySteps, SelectLibraryTag, SetLibraryTag, RemoveLibraryTag, rows, checkVars
<1> QED BY <1>1, <1>2, <1>3, <1>4, <1>5, WorkCases DEF Infos

\* UpdateRepoInfos is the fourth activity.
LEMMA InfosAt ==
  ASSUME Typed, NEW w \in W, Infos(w)
  PROVE  wf[w].st = "run" /\ wf[w].act = 4
<1>1. CASE LicenseSteps(w) \/ LibrarySteps(w)
  BY <1>1, AtIs DEF LicenseSteps, SelectLicense, FindById, UpdateLicenseByTag, LicenseFails,
                    LibrarySteps, SelectLibraryTag, SetLibraryTag, RemoveLibraryTag
<1>2. CASE ~LicenseSteps(w) /\ ~LibrarySteps(w)
  BY <1>2, AtIs DEF Infos, UpdateRepoInfos, getFileRaw, ProcessReadme, SaveTags, SetMetaTags, ReplaceMetaTags,
                    InfosUpdated, InfoFails
<1> QED BY <1>1, <1>2

LEMMA Advances ==
  ASSUME Base, NEW w \in W, Works(w)
  PROVE  /\ wf[w].st = "run"
         /\ \/ wf'[w].act = wf[w].act
            \/ wf[w].act = 1 /\ wf'[w].act = 2 /\ (FixHasEntryFile(w) \/ Deploy(w) \/ WatcherFails(w))
            \/ wf[w].act = 2 /\ wf'[w].act = 3 /\ (toRepoIDsFromReadme(w) \/ Override(w) \/ WatcherFails(w))
            \/ wf[w].act = 3 /\ wf'[w].act = 4 /\ SetRepoUpdateTime(w)
            \/ wf[w].act = 4 /\ wf'[w].act = 5 /\ InfosUpdated(w) /\ wf[w].pc = "end" /\ ~wf[w].err
         /\ wf'[w].act # wf[w].act => Fresh(w)'
<1>0. Typed /\ wf[w] \in Workflow
  BY Rows DEF Base
<1> DEFINE Stay == wf'[w].act = wf[w].act
<1>g. ASSUME NEW pc, Goto(w, pc)
      PROVE  Stay
  <2>1. wf'[w] = [wf[w] EXCEPT !.pc = pc]
    BY <1>0, <1>g, WithIs DEF Goto
  <2> QED BY <1>0, <2>1 DEF Workflow
<1>b. ASSUME NEW todo
      PROVE  Begin(w, todo).act = wf[w].act /\ [Begin(w, todo) EXCEPT !.err = TRUE].act = wf[w].act
  <2>1. Begin(w, todo).act = wf[w].act
    BY <1>0 DEF Begin, Workflow
  <2>2. "act" \in DOMAIN Begin(w, todo)
    BY <1>0 DEF Begin, Workflow
  <2> QED BY <2>1, <2>2
<1>r. ASSUME With(w, Rest(w)) \/ FileFails(w)
      PROVE  Stay
  <2>1. wf'[w] = Rest(w) \/ wf'[w] = [GroupLeft(w) EXCEPT !.err = TRUE]
    BY <1>0, <1>r, WithIs DEF FileFails
  <2> QED BY <1>b, <2>1 DEF Rest, GroupLeft
<1>t. ASSUME TryAgain(w)
      PROVE  Stay
  BY <1>0, <1>t, TryAgainIs
<1>c. ASSUME Completed(w)
      PROVE  (IF wf[w].act = 5 THEN Stay ELSE wf'[w].act = wf[w].act + 1) /\ Fresh(w)'
  BY <1>0, <1>c, CompletedIs
<1>1. CASE FixHasEntryFile(w)
  <2>1. wf[w].st = "run" /\ wf[w].act = 1
    BY <1>0, <1>1, AtIs DEF FixHasEntryFile
  <2> QED BY <1>1, <1>c, <1>g, <2>1 DEF FixHasEntryFile
<1>2. CASE Deploy(w) \/ Override(w) \/ SetRepoUpdateTime(w) \/ WatcherFails(w)
  <2>1. /\ wf[w].st = "run" /\ (Deploy(w) => wf[w].act = 1) /\ (Override(w) => wf[w].act = 2)
        /\ SetRepoUpdateTime(w) => wf[w].act = 3
        /\ WatcherFails(w) => wf[w].act \in {1, 2}
    BY <1>0, <1>2, AtIs DEF Deploy, Override, SetRepoUpdateTime, WatcherFails
  <2>2. Completed(w)
    BY <1>2 DEF Deploy, Override, SetRepoUpdateTime, WatcherFails
  <2> QED BY <1>2, <1>c, <2>1, <2>2
<1>3. CASE toRepoIDsFromReadme(w)
  <2>1. wf[w].st = "run" /\ wf[w].act = 2
    BY <1>0, <1>3, AtIs DEF toRepoIDsFromReadme
  <2>2. ASSUME With(w, [wf[w] EXCEPT !.pc = "override", !.content = tree[wf[w].ref].readme])
        PROVE  Stay
    <3>1. wf'[w] = [wf[w] EXCEPT !.pc = "override", !.content = tree[wf[w].ref].readme]
      BY <1>0, <2>2, WithIs
    <3> QED BY <1>0, <3>1 DEF Workflow
  <2> QED BY <1>3, <1>c, <1>g, <2>1, <2>2 DEF toRepoIDsFromReadme
<1>4. CASE WorkerDies(w) \/ CallFails(w)
  BY <1>0, <1>4, <1>t, AtIs DEF WorkerDies, CallFails
<1>12. CASE SensitiveCheck(w)
  <2>1. wf[w].st = "run" /\ wf[w].act = 5
    BY <1>0, <1>12, AtIs DEF SensitiveCheck
  <2> QED BY <1>12, <1>c, <1>t, <2>1 DEF SensitiveCheck
<1>5. CASE UpdateRepoInfos(w)
  <2>1. wf[w].st = "run" /\ wf'[w] = Begin(w, Todo(wf[w].diff))
    BY <1>0, <1>5, WithIs, AtIs DEF UpdateRepoInfos
  <2> QED BY <1>b, <2>1
<1>6. CASE getFileRaw(w)
  <2>1. wf[w].st = "run"
    BY <1>0, <1>6, AtIs DEF getFileRaw
  <2>2. ASSUME With(w, [wf[w] EXCEPT !.pc = "tags", !.content = tree[wf[w].ref].readme])
        PROVE  Stay
    <3>1. wf'[w] = [wf[w] EXCEPT !.pc = "tags", !.content = tree[wf[w].ref].readme]
      BY <1>0, <2>2, WithIs
    <3> QED BY <1>0, <3>1 DEF Workflow
  <2> QED BY <1>6, <1>r, <2>1, <2>2 DEF getFileRaw
<1>7. CASE ProcessReadme(w)
  <2>1. wf[w].st = "run"
    BY <1>0, <1>7, AtIs DEF ProcessReadme
  <2>2. ASSUME NEW ts, NEW tags, With(w, [wf[w] EXCEPT !.pc = "save", !.new = ts, !.tags = tags])
        PROVE  Stay
    <3>1. wf'[w] = [wf[w] EXCEPT !.pc = "save", !.new = ts, !.tags = tags]
      BY <1>0, <2>2, WithIs
    <3> QED BY <1>0, <3>1 DEF Workflow
  <2> QED BY <1>0, <1>7, <1>r, <2>1, <2>2, ProcessReadmeIs
<1>8. CASE SaveTags(w) \/ ReplaceMetaTags(w)
  BY <1>0, <1>8, <1>g, <1>r, AtIs DEF SaveTags, ReplaceMetaTags
<1>9. CASE SetMetaTags(w)
  <2>1. wf[w].st = "run" /\ wf'[w] = [wf[w] EXCEPT !.pc = "set", !.old = repoTags]
    BY <1>0, <1>9, WithIs, AtIs DEF SetMetaTags
  <2> QED BY <1>0, <2>1 DEF Workflow
<1>10. CASE UpdateLicenseByTag(w) \/ LicenseFails(w) \/ SetLibraryTag(w) \/ RemoveLibraryTag(w) \/ InfoFails(w)
  BY <1>0, <1>10, <1>r, AtIs DEF UpdateLicenseByTag, LicenseFails, SetLibraryTag, RemoveLibraryTag, InfoFails
<1>13. CASE SelectLibraryTag(w)
  BY <1>0, <1>13, <1>g, AtIs DEF SelectLibraryTag
<1>14. CASE SelectLicense(w)
  <2>1. wf[w].st = "run"
    BY <1>0, <1>14, AtIs DEF SelectLicense
  <2>2. ASSUME NEW t, With(w, [wf[w] EXCEPT !.pc = "row", !.license = t])
        PROVE  Stay
    <3>1. wf'[w] = [wf[w] EXCEPT !.pc = "row", !.license = t]
      BY <1>0, <2>2, WithIs
    <3> QED BY <1>0, <3>1 DEF Workflow
  <2> QED BY <1>14, <1>r, <2>1, <2>2 DEF SelectLicense
<1>15. CASE FindById(w)
  <2>1. wf[w].st = "run" /\ wf'[w] = [wf[w] EXCEPT !.pc = "relicense", !.row = repo]
    BY <1>0, <1>15, WithIs, AtIs DEF FindById
  <2> QED BY <1>0, <2>1 DEF Workflow
<1>11. CASE InfosUpdated(w)
  <2>1. wf[w].st = "run" /\ wf[w].act = 4 /\ wf[w].pc = "end"
    BY <1>0, <1>11, AtIs DEF InfosUpdated
  <2>2. CASE wf[w].err
    BY <1>11, <1>t, <2>1, <2>2 DEF InfosUpdated
  <2> QED BY <1>11, <1>c, <2>1, <2>2 DEF InfosUpdated
<1> QED BY <1>1, <1>2, <1>3, <1>4, <1>5, <1>6, <1>7, <1>8, <1>9, <1>10, <1>11, <1>12, <1>13, <1>14, <1>15 DEF Works, Step

----------------------------------------------------------------------------
(* The space of the last push is deployed. *)

LatestDeploy ==
    load.kind = "space" /\ ~hist.logged => \A w \in W :
        (\A v \in W : v <= w) /\ wf[w].act > 1 => deployed \/ tree[Main].files = {}

LEMMA NotLogged ==
  ASSUME Typed, NEW f \in Flags, ~hist'[f]
  PROVE  ~Note(f)
BY Noted

LEMMA WorkKeepsDeploy ==
  ASSUME Base, LatestDeploy, NEW u \in W, Works(u)
  PROVE  LatestDeploy'
<1>0. /\ Typed /\ "logged" \in Flags /\ tree' = tree /\ load' = load /\ W' = W
      /\ \A w \in W \ {u} : wf'[w] = wf[w]
      /\ hist.logged => hist'.logged
  BY LastStays DEF Base, Flags
<1>1. SUFFICES ASSUME load.kind = "space", ~hist'.logged, NEW w \in W, \A v \in W : v <= w, wf'[w].act > 1,
                      tree[Main].files # {}
               PROVE  deployed'
  BY <1>0 DEF LatestDeploy
<1>2. wf[w].act > 1 => deployed
  BY <1>0, <1>1 DEF LatestDeploy
<1>3. CASE Deploy(u)
  BY <1>3 DEF Deploy
<1>4. CASE ~Deploy(u) /\ wf[w].act > 1
  BY <1>2, <1>4, WritesOf
<1>5. CASE ~Deploy(u) /\ ~(wf[w].act > 1)
  <2>1. u = w /\ wf[u].act \in 1 .. 5
    BY <1>0, <1>1, <1>5, Rows DEF Workflow
  <2>2. FixHasEntryFile(u) /\ wf'[u].act # wf[u].act
    <3>1. FixHasEntryFile(u) \/ WatcherFails(u)
      BY <1>1, <1>5, <2>1, Advances
    <3>2. WatcherFails(u) => Note("logged")
      BY DEF WatcherFails
    <3> QED BY <1>0, <1>1, <1>5, <2>1, <3>1, <3>2, NotLogged
  <2>3. ~Note("logged")
    BY <1>0, <1>1, NotLogged
  <2>4. Goto(u, "deploy")
    BY <1>1, <2>2, <2>3 DEF FixHasEntryFile, HasEntryFile
  <2>5. wf'[u] = [wf[u] EXCEPT !.pc = "deploy"] /\ wf[u] \in Workflow
    BY <1>0, <2>4, WithIs, Rows DEF Goto
  <2> QED BY <2>2, <2>5 DEF Workflow
<1> QED BY <1>3, <1>4, <1>5

LEMMA StepKeepsDeploy ==
  ASSUME Base, LatestDeploy, [Next]_vars
  PROVE  LatestDeploy'
<1>1. CASE PostReceive
  <2>n. PICK n : n = Len(wf) + 1
    OBVIOUS
  <2>1. /\ W' = W \cup {n} /\ n \notin W /\ (\A w \in W : w < n) /\ wf'[n].act = 1
    BY <1>1, <2>n, PushReadme DEF Base
  <2>2. W = 1 .. Len(wf) /\ Len(wf) \in Nat
    BY Rows DEF Base
  <2>3. \A w \in W : ~(n <= w)
    BY <2>1, <2>2, <2>n
  <2> QED BY <2>1, <2>3 DEF LatestDeploy
<1>2. ASSUME tree' = tree, load' = load, wf' = wf, deployed' = deployed, hist.logged => hist'.logged
      PROVE  LatestDeploy'
  BY <1>2 DEF LatestDeploy, W
<1>3. CASE Checking /\ UNCHANGED <<wf, rows>>
  <2>1. PICK c \in C : CheckStep(c) \/ ActivityFails(c)
    BY <1>3 DEF Checking
  <2>2. tree' = tree /\ load' = load /\ \A g \in Flags : hist[g] => hist'[g]
    BY <1>3, <2>1, CheckFrame, CheckHist DEF Base, HistGrows
  <2> QED BY <1>2, <1>3, <2>2 DEF Flags, rows
<1>4. CASE UNCHANGED vars
  BY <1>2, <1>4 DEF vars, rows
<1> QED BY <1>1, <1>3, <1>4, WorkKeepsDeploy DEF Next, Works

----------------------------------------------------------------------------
(* Relations are those of the README.md of the default branch. *)

RelationsOf(readme) == IF readme = None THEN {} ELSE LinksOf[readme]
RelationsRight(w) ==
    /\ wf[w].act = 2 /\ wf[w].pc = "override" => wf[w].content = tree[Main].readme
    /\ wf[w].act > 2 /\ tree[Main].readme \notin Unparsed => relations = RelationsOf(tree[Main].readme)
LatestRelations ==
    load.kind # "code" /\ ~hist.crossed /\ ~hist.logged =>
        \A w \in W : LastIn(w, {Main}) => RelationsRight(w)

\* An earlier workflow writes them only before the last one has looked.
LEMMA OthersRelations ==
  ASSUME Base, Told, NEW w \in W, LastIn(w, {Main}), RelationsRight(w), load.kind # "code",
         NEW u \in W \ {w}, Works(u), ~hist'.crossed
  PROVE  RelationsRight(w)'
<1>1. relations' = relations \/ Override(u)
  BY WritesOf
<1>1a. wf'[w] = wf[w] /\ tree' = tree
  BY LastStays
<1>2. CASE relations' = relations
  BY <1>1a, <1>2 DEF RelationsRight, RelationsOf
<1>3. CASE Override(u)
  <2>1. wf[u].st = "run" /\ wf[u].act = 2 /\ wf[u].pc = "override"
    BY <1>3, AtIs DEF Override, Base
  <2>2. SetsRelations(u)
    BY <2>1 DEF Base, Shapes, Shape
  <2>3. u \in ReadmePushes({Main})
    BY <2>2 DEF SetsRelations, ReadmePushes
  <2>4. w > u
    <3>1. u <= w /\ u # w
      BY <2>3 DEF LastIn
    <3>2. W = 1 .. Len(wf) /\ Len(wf) \in Nat
      BY Rows DEF Base
    <3> QED BY <3>1, <3>2
  <2>5. SetsRelations(w)
    BY DEF LastIn, ReadmePushes, SetsRelations
  <2> DEFINE b == \E v \in W : v > u /\ ReadForRelations(v)
  <2>6. hist' = [hist EXCEPT !.crossed = @ \/ b] /\ b \in BOOLEAN
    BY <1>3 DEF Override
  <2>7. b => hist'.crossed
    <3> HIDE DEF b
    <3> QED BY <2>6, CrossedIs DEF Base
  <2>8. ~ReadForRelations(w)
    BY <2>4, <2>7
  <2>9. wf[w].act \in 1 .. 5
    BY Rows DEF Base, Workflow
  <2>10. ~(wf[w].act > 2) /\ ~(wf[w].act = 2 /\ wf[w].pc = "override")
    <3>1. CASE wf[w].st = "lost"
      BY <3>1 DEF Base, Shapes, Shape
    <3>2. CASE wf[w].st # "lost"
      <4>1. wf[w].st = "run" /\ ~(wf[w].act > 2) /\ ~At(w, "WatchRepoRelation", "override")
        BY <2>5, <2>8, <3>2, Rows DEF ReadForRelations, Past, Base, Workflow
      <4> QED BY <4>1, AtIs DEF Base
    <3> QED BY <3>1, <3>2
  <2> QED BY <1>1a, <2>10 DEF RelationsRight
<1> QED BY <1>1, <1>2, <1>3

LEMMA OwnRelations ==
  ASSUME Base, Told, NEW w \in W, LastIn(w, {Main}), RelationsRight(w), load.kind # "code",
         Works(w), ~hist'.logged
  PROVE  RelationsRight(w)'
<1>0. /\ Typed /\ wf[w] \in Workflow /\ Shape(w) /\ tree' = tree /\ "logged" \in Flags
      /\ wf[w].act \in 1 .. 5
  BY LastStays, Rows DEF Base, Shapes, Flags, Workflow
<1>1. /\ ReadmeIn(wf[w].diff) /\ wf[w].ref = Main /\ wf[w].diff \in Diff
      /\ "README.md" \in wf[w].diff["Removed"] <=> tree[Main].readme = None
  BY LastIs, PushesAssumption
<1>2. Once(wf[w].diff)
  BY DEF Told
<1>3. SetsRelations(w) /\ (ReadmeStatus(wf[w].diff) = "removed" <=> tree[Main].readme = None)
  BY <1>1, <1>2, StatusIs DEF SetsRelations
<1>4. ~Note("logged")
  BY <1>0, NotLogged
<1>5. CASE toRepoIDsFromReadme(w)
  <2>1. wf[w].act = 2 /\ wf[w].pc = "start" /\ wf[w].st = "run"
    BY <1>0, <1>5, AtIs DEF toRepoIDsFromReadme
  <2>2. wf[w].content = None
    BY <1>0, <2>1 DEF Shape, Fresh
  <2>3. \/ tree[Main].readme \in Unparsed /\ Completed(w)
        \/ Goto(w, "override") /\ tree[Main].readme = None
        \/ With(w, [wf[w] EXCEPT !.pc = "override", !.content = tree[Main].readme])
    BY <1>1, <1>3, <1>5 DEF toRepoIDsFromReadme
  <2>5. CASE tree[Main].readme \in Unparsed /\ Completed(w)
    <3>1. wf'[w].act = 3
      BY <1>0, <2>1, <2>5, CompletedIs
    <3> QED BY <1>0, <2>5, <3>1 DEF RelationsRight
  <2>4. CASE ~(tree[Main].readme \in Unparsed /\ Completed(w))
    <3>1. wf'[w].content = tree[Main].readme /\ wf'[w].act = 2
      <4>1. CASE Goto(w, "override") /\ tree[Main].readme = None
        <5>1. wf'[w] = [wf[w] EXCEPT !.pc = "override"]
          BY <1>0, <4>1, WithIs DEF Goto
        <5> QED BY <1>0, <2>1, <2>2, <4>1, <5>1 DEF Workflow
      <4>2. CASE With(w, [wf[w] EXCEPT !.pc = "override", !.content = tree[Main].readme])
        <5>1. wf'[w] = [wf[w] EXCEPT !.pc = "override", !.content = tree[Main].readme]
          BY <1>0, <4>2, WithIs
        <5> QED BY <1>0, <2>1, <5>1 DEF Workflow
      <4> QED BY <2>3, <2>4, <4>1, <4>2
    <3> QED BY <1>0, <3>1 DEF RelationsRight
  <2> QED BY <2>4, <2>5
<1>6. CASE Override(w)
  <2>1. wf[w].act = 2 /\ wf[w].pc = "override" /\ Completed(w)
    BY <1>0, <1>6, AtIs DEF Override
  <2>2. relations' = RelationsOf(tree[Main].readme)
    BY <1>6, <2>1 DEF Override, RelationsRight, RelationsOf
  <2>3. wf'[w].act = 3
    BY <1>0, <2>1, CompletedIs
  <2> QED BY <1>0, <2>2, <2>3 DEF RelationsRight, RelationsOf
<1>7. CASE ~toRepoIDsFromReadme(w) /\ ~Override(w)
  <2>1. relations' = relations /\ ~WatcherFails(w)
    BY <1>4, <1>7, WritesOf DEF WatcherFails
  <2>2. ~(wf[w].act = 2 /\ wf'[w].act = 3)
    BY <1>7, <2>1, Advances
  <2>3. CASE wf[w].act > 2
    <3>1. wf'[w].act = wf[w].act \/ wf'[w].act = wf[w].act + 1
      BY Advances
    <3> QED BY <1>0, <2>1, <2>3, <3>1 DEF RelationsRight, RelationsOf
  <2>4. CASE wf[w].act = 1
    <3>1. wf'[w].act = 1 \/ wf'[w].act = 2
      BY <2>4, Advances
    <3>2. wf'[w].act # 1 => Fresh(w)'
      BY <2>4, Advances
    <3> QED BY <3>1, <3>2 DEF RelationsRight, Fresh
  <2>5. CASE wf[w].act = 2
    <3>1. WorkerDies(w)
      <4>1. wf[w].st = "run"
        BY Advances
      <4>2. ~(\E act \in {"WatchSpaceChange", "SetRepoUpdateTime", "SensitiveCheck"} :
                \E pc \in Pcs : At(w, act, pc)) /\ ~Infos(w)
        BY <1>0, <2>5, AtIs, InfosAt
      <4> QED BY <1>7, <2>1, <2>5, <4>2, WorkCases DEF Pcs, FixHasEntryFile, Deploy, SetRepoUpdateTime,
             SensitiveCheck, CallFails
    <3>2. wf'[w].act = 2 /\ wf'[w].pc = "start"
      BY <1>0, <2>5, <3>1, TryAgainIs DEF WorkerDies, Fresh
    <3> QED BY <3>2 DEF RelationsRight
  <2> QED BY <1>0, <2>3, <2>4, <2>5
<1> QED BY <1>5, <1>6, <1>7

LEMMA StepKeepsRelations ==
  ASSUME Base, Told, LatestRelations, [Next]_vars
  PROVE  LatestRelations'
<1>0. /\ "crossed" \in Flags /\ "logged" \in Flags
      /\ \A w \in W : wf[w].ref \in Refs /\ wf[w].act \in 1 .. 5
  BY Rows DEF Flags, Base, Workflow
<1>1. CASE PostReceive
  <2>1. UNCHANGED <<load, hist, relations>>
    BY <1>1 DEF PostReceive
  <2>2. ASSUME NEW w \in W', LastIn(w, {Main})', load.kind # "code", ~hist.crossed, ~hist.logged
        PROVE  RelationsRight(w)'
    <3>1. CASE wf'[w].act = 1
      BY <3>1 DEF RelationsRight
    <3>2. CASE w \in W /\ wf'[w] = wf[w] /\ LastIn(w, {Main}) /\ tree'[Main].readme = tree[Main].readme
      <4>1. RelationsRight(w)
        BY <2>2, <3>2 DEF LatestRelations
      <4> QED BY <2>1, <3>2, <4>1 DEF RelationsRight, RelationsOf
    <3> QED BY <1>1, <2>2, <3>1, <3>2, LastPushed, PushesAssumption
  <2> QED BY <2>1, <2>2 DEF LatestRelations
<1>2. ASSUME NEW u \in W, Works(u)
      PROVE  LatestRelations'
  <2>1. /\ W' = W /\ load' = load /\ (\A w \in W : LastIn(w, {Main})' <=> LastIn(w, {Main}))
        /\ hist.crossed => hist'.crossed
        /\ hist.logged => hist'.logged
    BY <1>0, <1>2, LastStays
  <2>2. ASSUME NEW w \in W, LastIn(w, {Main}), load.kind # "code", ~hist'.crossed, ~hist'.logged
        PROVE  RelationsRight(w)'
    <3>1. RelationsRight(w)
      BY <2>1, <2>2 DEF LatestRelations
    <3> QED BY <1>2, <2>2, <3>1, OwnRelations, OthersRelations
  <2> QED BY <2>1, <2>2 DEF LatestRelations
<1>3. ASSUME tree' = tree, load' = load, wf' = wf, relations' = relations,
             hist.logged => hist'.logged, hist.crossed => hist'.crossed
      PROVE  LatestRelations'
  BY <1>3 DEF LatestRelations, W, LastIn, ReadmePushes, ReadmeStatus, RelationsRight, RelationsOf
<1>4. CASE Checking /\ UNCHANGED <<wf, rows>>
  <2>1. PICK c \in C : CheckStep(c) \/ ActivityFails(c)
    BY <1>4 DEF Checking
  <2>2. tree' = tree /\ load' = load /\ \A g \in Flags : hist[g] => hist'[g]
    BY <1>4, <2>1, CheckFrame, CheckHist DEF Base, HistGrows
  <2> QED BY <1>0, <1>3, <1>4, <2>2 DEF rows
<1>5. CASE UNCHANGED vars
  BY <1>3, <1>5 DEF vars, rows
<1> QED BY <1>1, <1>2, <1>4, <1>5 DEF Next, Works

----------------------------------------------------------------------------
(* Tags and license are those of the README.md that was pushed last. *)

\* Names that the checkers object to get into the table of tags in no way but at first.
Allowed ==
    /\ BuiltIn \subseteq known
    /\ load.checks => known \cap BadTags \subseteq BuiltIn /\ \A w \in W : wf[w].new \cap BadTags = {}

LEMMA NewTags ==
  ASSUME Typed, NEW w \in W, Works(w)
  PROVE  wf'[w].new \subseteq wf[w].new \/ (load.checks => wf'[w].new \cap BadTags = {})
<1>0. wf[w] \in Workflow
  BY Rows
<1> DEFINE Less == wf'[w].new \subseteq wf[w].new
<1>g. ASSUME NEW pc, Goto(w, pc)
      PROVE  Less
  <2>1. wf'[w] = [wf[w] EXCEPT !.pc = pc]
    BY <1>g, WithIs DEF Goto
  <2> QED BY <1>0, <2>1 DEF Workflow
<1>b. ASSUME NEW todo
      PROVE  Begin(w, todo).new = {} /\ [Begin(w, todo) EXCEPT !.err = TRUE].new = {}
  <2>1. Begin(w, todo).new = {}
    BY <1>0 DEF Begin, Workflow
  <2>2. "new" \in DOMAIN Begin(w, todo)
    BY <1>0 DEF Begin, Workflow
  <2> QED BY <2>1, <2>2
<1>r. ASSUME With(w, Rest(w)) \/ FileFails(w)
      PROVE  Less
  <2>1. wf'[w] = Rest(w) \/ wf'[w] = [GroupLeft(w) EXCEPT !.err = TRUE]
    BY <1>r, WithIs DEF FileFails
  <2> QED BY <1>b, <2>1 DEF Rest, GroupLeft
<1>c. ASSUME Completed(w) \/ TryAgain(w)
      PROVE  Less
  <2>1. \A st, act, tries : Clean(w, st, act, tries) => wf'[w].new = {}
    BY WithIs DEF Clean, Begun
  <2> QED BY <1>c, <2>1 DEF Completed, TryAgain
<1>1. CASE FixHasEntryFile(w) \/ Deploy(w) \/ Override(w) \/ SetRepoUpdateTime(w) \/ SensitiveCheck(w)
           \/ WorkerDies(w) \/ WatcherFails(w) \/ CallFails(w) \/ InfosUpdated(w)
  BY <1>1, <1>c, <1>g DEF FixHasEntryFile, Deploy, Override, SetRepoUpdateTime, SensitiveCheck,
                          WorkerDies, WatcherFails, CallFails, InfosUpdated
<1>2. CASE toRepoIDsFromReadme(w) \/ getFileRaw(w)
  <2>1. ASSUME NEW pc, With(w, [wf[w] EXCEPT !.pc = pc, !.content = tree[wf[w].ref].readme])
        PROVE  Less
    <3>1. wf'[w] = [wf[w] EXCEPT !.pc = pc, !.content = tree[wf[w].ref].readme]
      BY <2>1, WithIs
    <3> QED BY <1>0, <3>1 DEF Workflow
  <2> QED BY <1>2, <1>c, <1>g, <1>r, <2>1 DEF toRepoIDsFromReadme, getFileRaw
<1>3. CASE UpdateRepoInfos(w)
  <2>1. wf'[w] = Begin(w, Todo(wf[w].diff))
    BY <1>3, WithIs DEF UpdateRepoInfos
  <2> QED BY <1>b, <2>1
<1>4. CASE ProcessReadme(w)
  <2>1. ASSUME NEW ts, NEW tags, With(w, [wf[w] EXCEPT !.pc = "save", !.new = ts, !.tags = tags])
        PROVE  wf'[w].new = ts
    <3>1. wf'[w] = [wf[w] EXCEPT !.pc = "save", !.new = ts, !.tags = tags]
      BY <2>1, WithIs
    <3> QED BY <1>0, <3>1 DEF Workflow
  <2> QED BY <1>4, <1>r, <2>1, ProcessReadmeIs
<1>5. CASE SaveTags(w) \/ ReplaceMetaTags(w) \/ InfoFails(w)
  BY <1>5, <1>g, <1>r DEF SaveTags, ReplaceMetaTags, InfoFails
<1>6. CASE SetMetaTags(w)
  <2>1. wf'[w] = [wf[w] EXCEPT !.pc = "set", !.old = repoTags]
    BY <1>6, WithIs DEF SetMetaTags
  <2> QED BY <1>0, <2>1 DEF Workflow
<1>7. CASE LicenseSteps(w)
  <2>1. ASSUME NEW t, With(w, [wf[w] EXCEPT !.pc = "row", !.license = t])
        PROVE  Less
    <3>1. wf'[w] = [wf[w] EXCEPT !.pc = "row", !.license = t]
      BY <2>1, WithIs
    <3> QED BY <1>0, <3>1 DEF Workflow
  <2>2. ASSUME With(w, [wf[w] EXCEPT !.pc = "relicense", !.row = repo])
        PROVE  Less
    <3>1. wf'[w] = [wf[w] EXCEPT !.pc = "relicense", !.row = repo]
      BY <2>2, WithIs
    <3> QED BY <1>0, <3>1 DEF Workflow
  <2> QED BY <1>7, <1>r, <2>1, <2>2 DEF LicenseSteps, SelectLicense, FindById, UpdateLicenseByTag, LicenseFails
<1>8. CASE LibrarySteps(w)
  BY <1>8, <1>g, <1>r DEF LibrarySteps, SelectLibraryTag, SetLibraryTag, RemoveLibraryTag
<1> QED BY <1>1, <1>2, <1>3, <1>4, <1>5, <1>6, <1>7, <1>8, WorkCases DEF Infos

LEMMA AllowedKept ==
  ASSUME Base, Allowed, [Next]_vars
  PROVE  Allowed'
<1>1. CASE PostReceive
  <2>1. PICK n : W' = W \cup {n} /\ (\A w \in W : wf'[w] = wf[w]) /\ wf'[n].new = {}
    <3>1. PICK b \in Refs, t \in Trees :
            /\ W' = W \cup {Len(wf) + 1} /\ \A w \in W : wf'[w] = wf[w]
            /\ \E st \in {"run", "lost"} :
                 wf'[Len(wf) + 1] = Begun(st, 1, 1, b, GetDiffBetweenTwoCommits(tree[b], t))
      BY <1>1, PushIs DEF Base
    <3>2. wf'[Len(wf) + 1].new = {}
      BY <3>1 DEF Begun
    <3> QED BY <3>1, <3>2
  <2>2. known' = known /\ load' = load
    BY <1>1 DEF PostReceive
  <2> QED BY <2>1, <2>2 DEF Allowed
<1>2. ASSUME NEW u \in W, Works(u)
      PROVE  Allowed'
  <2>1. W' = W /\ load' = load /\ \A w \in W \ {u} : wf'[w] = wf[w]
    BY <1>2, LastStays
  <2>2. wf'[u].new \subseteq wf[u].new \/ (load.checks => wf'[u].new \cap BadTags = {})
    BY <1>2, NewTags DEF Base
  <2>3. known' = known \/ known' = known \cup wf[u].new
    BY <1>2, WritesOf DEF SaveTags
  <2>4. load.checks => \A w \in W : wf'[w].new \cap BadTags = {}
    BY <2>1, <2>2 DEF Allowed
  <2> QED BY <2>1, <2>3, <2>4 DEF Allowed
<1>3. ASSUME load' = load, wf' = wf, known' = known
      PROVE  Allowed'
  BY <1>3 DEF Allowed, W
<1>4. CASE Checking /\ UNCHANGED <<wf, rows>>
  <2>1. PICK c \in C : CheckStep(c) \/ ActivityFails(c)
    BY <1>4 DEF Checking
  <2> QED BY <1>3, <1>4, <2>1, CheckFrame DEF Base, rows
<1>5. CASE UNCHANGED vars
  BY <1>3, <1>5 DEF vars, rows
<1> QED BY <1>1, <1>2, <1>4, <1>5 DEF Next, Works

\* The workflow has replaced the tags, and will not do so again.
TagsWritten(w) ==
    \/ wf[w].act = 5
    \/ wf[w].act = 4 /\ wf[w].pc \in LicensePcs
    \/ wf[w].act = 4 /\ ~wf[w].err /\ wf[w].pc = "end"
    \/ wf[w].act = 4 /\ ~wf[w].err /\ wf[w].pc \in LibraryPcs /\ ~ReadmeIn(wf[w].todo)
RightTags(w) == MetaTags(tree[wf[w].ref].readme)
LicenseRight == repoTags \cap LicenseTags # {} /\ ~hist.relicensed => repo.license \in repoTags
TagsRight(w) ==
    /\ wf[w].act = 4 /\ wf[w].pc \in {"tags", "save", "old", "set"} => wf[w].content = tree[wf[w].ref].readme
    /\ wf[w].act = 4 /\ wf[w].pc \in {"save", "old", "set"} => wf[w].tags = RightTags(w)
    /\ wf[w].act = 4 /\ wf[w].pc = "set" => wf[w].old = repoTags
    /\ TagsWritten(w) => repoTags = RightTags(w)
    /\ wf[w].act = 4 /\ wf[w].pc \in {"row", "relicense"} => wf[w].license \in repoTags
    /\ TagsWritten(w) /\ wf[w].pc \notin LicensePcs => LicenseRight
LatestTags ==
    load.kind = "model" /\ ~hist.crossed /\ ~hist.logged =>
        \A w \in W : LastIn(w, Refs) => TagsRight(w)

\* Nothing of this depends on anything else.
LEMMA TagsRightStays ==
  ASSUME NEW w, wf'[w] = wf[w], tree'[wf[w].ref].readme = tree[wf[w].ref].readme, load' = load, TagsRight(w),
         hist.relicensed => hist'.relicensed,
         \/ /\ repoTags' = repoTags
            /\ ~hist'.relicensed => repo'.license = repo.license
         \/ ~TagsWritten(w) /\ ~(wf[w].act = 4 /\ wf[w].pc \in {"set", "row", "relicense"})
  PROVE  TagsRight(w)'
<1>1. (TagsWritten(w)' <=> TagsWritten(w)) /\ RightTags(w)' = RightTags(w) /\ LicensePcs' = LicensePcs
  BY DEF TagsWritten, ReadmeIn, RightTags, MetaTags, LicensePcs, LibraryPcs
<1>2. CASE repoTags' = repoTags /\ (~hist'.relicensed => repo'.license = repo.license)
  <2>1. LicenseRight => LicenseRight'
    BY <1>2 DEF LicenseRight
  <2> QED BY <1>1, <1>2, <2>1 DEF TagsRight
<1>3. CASE ~TagsWritten(w) /\ ~(wf[w].act = 4 /\ wf[w].pc \in {"set", "row", "relicense"})
  BY <1>1, <1>3 DEF TagsRight
<1> QED BY <1>2, <1>3

\* An earlier workflow writes them only before the last one has looked.
LEMMA OthersTags ==
  ASSUME Base, Told, NEW w \in W, LastIn(w, Refs), TagsRight(w), load.kind = "model",
         NEW u \in W \ {w}, Works(u), ~hist'.crossed
  PROVE  TagsRight(w)'
<1>1. repoTags' = repoTags \/ ReplaceMetaTags(u)
  BY WritesOf
<1>l. repo' = repo \/ UpdateLicenseByTag(u)
  BY WritesOf
<1>2. wf'[w] = wf[w] /\ tree' = tree /\ load' = load /\ Typed /\ (hist.relicensed => hist'.relicensed)
  BY LastStays DEF Base, Flags
<1>4. CASE repoTags' = repoTags /\ repo' = repo
  BY <1>2, <1>4, TagsRightStays
<1> DEFINE b == \E v \in W : v > u /\ ReadForTags(v)
<1>5. CASE ReplaceMetaTags(u) \/ UpdateLicenseByTag(u)
  <2>1. /\ wf[u].st = "run" /\ wf[u].act = 4 /\ wf[u].pc \in {"set", "relicense"}
    BY <1>2, <1>5, AtIs DEF ReplaceMetaTags, UpdateLicenseByTag
  <2>2. /\ Item(u) = "README.md" /\ wf[u].todo # Nothing /\ wf[u].diff \in Diff /\ wf[u].ref \in Refs
        /\ \A how \in Groups : wf[u].todo[how] \subseteq wf[u].diff[how]
    <3>1. Handling(u) /\ wf[u] \in Workflow
      BY <1>2, <2>1, Rows DEF Base, Shapes, Shape
    <3> QED BY <2>1, <3>1 DEF Handling, Todo, Tagged, Workflow, TagPcs, LicensePcs
  <2>3. ReadmeIn(wf[u].diff)
    BY <1>2, <2>2, LessIs DEF ReadmeIn
  <2>4. u \in ReadmePushes(Refs)
    BY <2>2, <2>3, StatusIs DEF ReadmePushes
  <2>5. w > u
    <3>1. u <= w /\ u # w
      BY <2>4 DEF LastIn
    <3>2. W = 1 .. Len(wf) /\ Len(wf) \in Nat
      BY <1>2, Rows
    <3> QED BY <3>1, <3>2
  <2>6. CASE UNCHANGED <<repoTags, hist>> /\ ReplaceMetaTags(u)
    <3>1. repo' = repo
      BY <2>6 DEF ReplaceMetaTags, checkVars
    <3> QED BY <1>4, <2>6, <3>1
  <2>7. CASE b => hist'.crossed
    <3>1. ~ReadForTags(w)
      BY <2>5, <2>7
    <3>2. CASE wf[w].act # 4 /\ wf[w].act # 5
      BY <1>2, <3>2, TagsRightStays DEF TagsWritten
    <3>3. CASE wf[w].act = 4 \/ wf[w].act = 5
      <4>1. ReadmeStatus(wf[w].diff) # "" /\ wf[w].st \in {"run", "done", "failed"}
        <5>1. wf[w] \in Workflow /\ Shape(w)
          BY <1>2, Rows DEF Base, Shapes
        <5>2. wf[w].st # "lost"
          BY <3>3, <5>1 DEF Shape
        <5> QED BY <5>1, <5>2 DEF LastIn, ReadmePushes, Workflow
      <4>2. /\ wf[w].st = "run" /\ ~(wf[w].act > 4)
            /\ \A pc \in {"set", "license", "row", "relicense", "end"} : ~At(w, "UpdateRepoInfos", pc)
            /\ (\E pc \in {"library", "insert", "update"} : At(w, "UpdateRepoInfos", pc)) => ReadmeIn(wf[w].todo)
        BY <3>1, <4>1 DEF ReadForTags, Past, ReadmeIn
      <4>3. wf[w].act = 4
        BY <3>3, <4>2
      <4>4. \A pc : At(w, "UpdateRepoInfos", pc) <=> wf[w].pc = pc
        BY <1>2, <4>2, <4>3, AtIs
      <4>5. ~TagsWritten(w) /\ wf[w].pc \notin {"set", "row", "relicense"}
        BY <4>2, <4>3, <4>4 DEF TagsWritten, LicensePcs, LibraryPcs
      <4> QED BY <1>2, <4>5, TagsRightStays
    <3> QED BY <3>2, <3>3
  <2>8. (b => hist'.crossed) \/ (UNCHANGED <<repoTags, hist>> /\ ReplaceMetaTags(u))
    <3>1. CASE UpdateLicenseByTag(u)
      <4>1. hist'.crossed = (hist.crossed \/ b)
        BY <1>2, <3>1, RelicenseIs
      <4> QED BY <4>1
    <3>2. CASE ReplaceMetaTags(u)
      <4>1. UNCHANGED <<repoTags, hist>> \/ hist' = [hist EXCEPT !.crossed = @ \/ b]
        BY <3>2 DEF ReplaceMetaTags
      <4>2. b \in BOOLEAN
        OBVIOUS
      <4>3. ASSUME hist' = [hist EXCEPT !.crossed = @ \/ b]
            PROVE  b => hist'.crossed
        <5> HIDE DEF b
        <5> QED BY <1>2, <4>2, <4>3, CrossedIs
      <4> QED BY <3>2, <4>1, <4>3
    <3> QED BY <1>5, <3>1, <3>2
  <2> QED BY <2>6, <2>7, <2>8
<1> QED BY <1>1, <1>l, <1>4, <1>5

\* What the files that are left begin with.
LEMMA BeginsRight ==
  ASSUME Base, Told, NEW w \in W, LastIn(w, Refs), tree' = tree, load' = load, wf'[w].ref = wf[w].ref,
         NEW todo, Begins(w, wf'[w], todo), wf[w].act = 4, load.kind = "model",
         \A how \in Groups : todo[how] \subseteq wf[w].diff[how], todo \in Diff,
         \/ wf'[w].err
         \/ ReadmeIn(todo)
         \/ repoTags' = RightTags(w) /\ LicenseRight'
  PROVE  TagsRight(w)'
<1>1. wf'[w].act = 4 /\ wf'[w].pc \in {"end", "library", "old", "raw"} /\ wf'[w].todo = todo
  BY DEF Begins
<1>2. wf'[w].pc = "old" => wf'[w].content = tree[wf[w].ref].readme /\ wf'[w].tags = RightTags(w)
  <2>1. SUFFICES ASSUME wf'[w].pc = "old"
                 PROVE  wf'[w].content = tree[wf[w].ref].readme /\ wf'[w].tags = RightTags(w)
    OBVIOUS
  <2>2. /\ todo # Nothing /\ First(todo) = "README.md" /\ Group(todo) = "Removed"
        /\ wf'[w].content = None /\ wf'[w].tags = {}
    BY <2>1 DEF Begins
  <2>3. "README.md" \in wf[w].diff["Removed"]
    BY <2>2, FirstIs DEF Groups
  <2>4. tree[wf[w].ref].readme = None
    BY <2>3, LastIs
  <2> QED BY <2>2, <2>4 DEF RightTags, MetaTags
<1>3. ReadmeIn(todo) => wf'[w].pc # "end"
  BY Nothings DEF Begins, ReadmeIn
<1>4. ReadmeIn(wf[w].todo)' <=> ReadmeIn(todo)
  BY <1>1 DEF ReadmeIn
<1>p. wf'[w].pc \notin LicensePcs
  BY <1>1 DEF LicensePcs
<1>5. TagsWritten(w)' => ~wf'[w].err /\ ~ReadmeIn(todo)
  BY <1>1, <1>3, <1>4, <1>p DEF TagsWritten, LicensePcs
<1>6. RightTags(w)' = RightTags(w)
  BY DEF RightTags, MetaTags
<1> QED BY <1>1, <1>2, <1>5, <1>6 DEF TagsRight

\* The steps of UpdateRepoInfos itself.
LEMMA OwnTags ==
  ASSUME Base, Told, Allowed, NEW w \in W, LastIn(w, Refs), TagsRight(w), load.kind = "model",
         ~hist'.logged, Infos(w)
  PROVE  TagsRight(w)'
<1>w. Works(w)
  BY DEF Works, Step, Infos, LicenseSteps, LibrarySteps
<1>0. /\ Typed /\ wf[w] \in Workflow /\ Shape(w) /\ tree' = tree /\ load' = load
      /\ "logged" \in Flags /\ "relicensed" \in Flags
      /\ Moves(w) /\ wf'[w].ref = wf[w].ref
      /\ hist.relicensed => hist'.relicensed
  BY <1>w, LastStays, WorkIs, Rows DEF Base, Shapes, Flags, Moves
<1>a. wf[w].st = "run" /\ wf[w].act = 4
  BY <1>0, InfosAt
<1>1. ReadmeIn(wf[w].diff) /\ wf[w].diff \in Diff
  BY LastIs
<1>2. Todo(wf[w].diff) = wf[w].diff /\ Tagged
  BY <1>1 DEF Todo, Tagged, Diff
<1>3. RightTags(w)' = RightTags(w)
  BY <1>0 DEF RightTags, MetaTags
<1>4. ~Note("logged")
  BY <1>0, NotLogged
<1>h. ASSUME wf[w].pc # "start"
      PROVE  /\ Handling(w) /\ \A how \in Groups : wf[w].todo[how] \subseteq wf[w].diff[how]
             /\ (wf[w].pc # "end" => wf[w].todo # Nothing)
  BY <1>0, <1>a, <1>2, <1>h DEF Shape, Handling
\* To another place with the same file.
<1>m. ASSUME wf'[w].act = 4, wf'[w].pc \in {"tags", "save", "old", "set"}, wf'[w].content = tree[wf[w].ref].readme,
             wf'[w].pc # "tags" => wf'[w].tags = RightTags(w),
             wf'[w].pc = "set" => wf'[w].old = repoTags'
      PROVE  TagsRight(w)'
  <2>1. ~TagsWritten(w)'
    BY <1>m DEF TagsWritten, LicensePcs, LibraryPcs
  <2> QED BY <1>0, <1>3, <1>m, <2>1 DEF TagsRight
<1>l. ASSUME wf'[w].act = 4, wf'[w].pc \in LicensePcs, repoTags' = RightTags(w),
             wf'[w].pc # "license" => wf'[w].license \in repoTags'
      PROVE  TagsRight(w)'
  BY <1>3, <1>l DEF TagsRight, LicensePcs
\* The next file.
<1>n. ASSUME wf[w].pc \notin {"start", "end"}, With(w, Rest(w)),
             \/ wf[w].pc \in LibraryPcs /\ UNCHANGED <<repoTags, repo>>
             \/ repoTags' = RightTags(w) /\ LicenseRight'
      PROVE  TagsRight(w)'
  <2>1. wf'[w].err = wf[w].err /\ Begins(w, wf'[w], OneLess(w))
    BY <1>0, <1>a, <1>n, RestShape
  <2>2. /\ wf[w].todo # Nothing /\ Handling(w)
        /\ \A how \in Groups : wf[w].todo[how] \subseteq wf[w].diff[how]
    BY <1>h, <1>n
  <2>3. /\ How(w) \in Groups
        /\ OneLess(w) \in Diff /\ OneLess(w)[How(w)] = wf[w].todo[How(w)] \ {Item(w)}
        /\ \A how \in Groups \ {How(w)} : OneLess(w)[how] = wf[w].todo[how]
        /\ \A how \in Groups : OneLess(w)[how] \subseteq wf[w].todo[how]
    BY <1>0, <2>2, LessIs
  <2>4. \A how \in Groups : OneLess(w)[how] \subseteq wf[w].diff[how]
    BY <2>2, <2>3
  <2>5. \/ wf'[w].err
        \/ ReadmeIn(OneLess(w))
        \/ repoTags' = RightTags(w) /\ LicenseRight'
    <3>1. SUFFICES ASSUME wf[w].pc \in LibraryPcs, UNCHANGED <<repoTags, repo>>, ~wf[w].err, ~ReadmeIn(OneLess(w))
                   PROVE  repoTags' = RightTags(w) /\ LicenseRight'
      BY <1>n, <2>1
    <3>2. Item(w) # "README.md"
      BY <2>2, <3>1 DEF Handling
    <3>3. ~ReadmeIn(wf[w].todo)
      BY <2>3, <3>1, <3>2 DEF ReadmeIn
    <3>4. TagsWritten(w) /\ wf[w].pc \notin LicensePcs
      BY <1>a, <3>1, <3>3 DEF TagsWritten, LibraryPcs, LicensePcs
    <3>5. repoTags = RightTags(w) /\ LicenseRight
      BY <3>4 DEF TagsRight
    <3> QED BY <1>0, <3>1, <3>5 DEF LicenseRight
  <2> QED BY <1>0, <1>a, <2>1, <2>3, <2>4, <2>5, BeginsRight
\* An error.
<1>f. ASSUME wf[w].pc \notin {"start", "end"}, FileFails(w)
      PROVE  TagsRight(w)'
  <2>1. wf'[w].err /\ Begins(w, wf'[w], GroupLess(w))
    BY <1>0, <1>a, <1>f, FileFailsShape
  <2>2. wf[w].todo # Nothing /\ \A how \in Groups : wf[w].todo[how] \subseteq wf[w].diff[how]
    BY <1>f, <1>h
  <2>3. GroupLess(w) \in Diff /\ \A how \in Groups : GroupLess(w)[how] \subseteq wf[w].todo[how]
    BY <1>0, <2>2, LessIs
  <2>4. \A how \in Groups : GroupLess(w)[how] \subseteq wf[w].diff[how]
    BY <2>2, <2>3
  <2> QED BY <1>0, <1>a, <2>1, <2>3, <2>4, BeginsRight
<1>5. CASE UpdateRepoInfos(w)
  <2>1. With(w, Begin(w, wf[w].diff))
    BY <1>2, <1>5 DEF UpdateRepoInfos
  <2>2. Begins(w, wf'[w], wf[w].diff)
    BY <1>0, <1>1, <2>1, BeginIs, WithIs
  <2> QED BY <1>0, <1>1, <1>a, <2>2, BeginsRight
<1>6. CASE getFileRaw(w)
  <2>1. wf[w].pc = "raw"
    BY <1>0, <1>6, AtIs DEF getFileRaw
  <2>2. ASSUME With(w, [wf[w] EXCEPT !.pc = "tags", !.content = tree[wf[w].ref].readme])
        PROVE  TagsRight(w)'
    <3>1. wf'[w] = [wf[w] EXCEPT !.pc = "tags", !.content = tree[wf[w].ref].readme]
      BY <1>0, <2>2, WithIs
    <3>2. wf'[w].act = 4 /\ wf'[w].pc = "tags" /\ wf'[w].content = tree[wf[w].ref].readme
      BY <1>0, <1>a, <3>1 DEF Workflow
    <3> QED BY <1>m, <3>2
  <2> QED BY <1>2, <1>6, <1>f, <2>1, <2>2 DEF getFileRaw
<1>7. CASE ProcessReadme(w)
  <2>1. wf[w].pc = "tags"
    BY <1>0, <1>7, AtIs DEF ProcessReadme
  <2>2. wf[w].content = tree[wf[w].ref].readme /\ wf[w].content # None
    BY <1>a, <1>h, <2>1 DEF TagsRight, Handling
  <2> DEFINE tags == TagsOf[wf[w].content]
             new == {t \in tags \ known : load.checks => t \notin BadTags}
  <2>3. ASSUME With(w, [wf[w] EXCEPT !.pc = "save", !.new = new, !.tags = (tags \cap known) \cup new])
        PROVE  TagsRight(w)'
    <3>1. (tags \cap known) \cup new = RightTags(w)
      <4>1. RightTags(w) = {t \in tags : load.checks /\ t \in BadTags => t \in BuiltIn}
        BY <2>2 DEF RightTags, MetaTags
      <4>2. BuiltIn \subseteq known /\ (load.checks => known \cap BadTags \subseteq BuiltIn)
        BY DEF Allowed
      <4> QED BY <4>1, <4>2
    <3> HIDE DEF tags, new
    <3>2. wf'[w] = [wf[w] EXCEPT !.pc = "save", !.new = new, !.tags = (tags \cap known) \cup new]
      BY <1>0, <2>3, WithIs
    <3>3. /\ wf'[w].act = 4 /\ wf'[w].pc = "save" /\ wf'[w].content = wf[w].content
          /\ wf'[w].tags = (tags \cap known) \cup new
      BY <1>0, <1>a, <3>2 DEF Workflow
    <3> QED BY <1>m, <2>2, <3>1, <3>3
  <2>4. \/ FileFails(w)
        \/ With(w, [wf[w] EXCEPT !.pc = "save", !.new = new, !.tags = (tags \cap known) \cup new])
    BY <1>0, <1>4, <1>7, ProcessReadmeIs
  <2> QED BY <1>f, <2>1, <2>3, <2>4
<1>8. CASE SaveTags(w)
  <2>1. wf[w].pc = "save"
    BY <1>0, <1>8, AtIs DEF SaveTags
  <2>2. CASE Goto(w, "old")
    <3>1. wf'[w] = [wf[w] EXCEPT !.pc = "old"]
      BY <1>0, <2>2, WithIs DEF Goto
    <3>2. wf'[w].act = 4 /\ wf'[w].pc = "old" /\ wf'[w].content = wf[w].content /\ wf'[w].tags = wf[w].tags
      BY <1>0, <1>a, <3>1 DEF Workflow
    <3> QED BY <1>a, <1>m, <2>1, <3>2 DEF TagsRight
  <2> QED BY <1>8, <1>f, <2>1, <2>2 DEF SaveTags
<1>9. CASE SetMetaTags(w)
  <2>1. wf[w].pc = "old" /\ wf'[w] = [wf[w] EXCEPT !.pc = "set", !.old = repoTags]
    BY <1>0, <1>9, AtIs, WithIs DEF SetMetaTags
  <2>2. /\ wf'[w].act = 4 /\ wf'[w].pc = "set" /\ wf'[w].content = wf[w].content /\ wf'[w].old = repoTags
        /\ wf'[w].tags = wf[w].tags
    BY <1>0, <1>a, <2>1 DEF Workflow
  <2>3. repoTags' = repoTags
    BY <1>9 DEF SetMetaTags, rows
  <2> QED BY <1>a, <1>m, <2>1, <2>2, <2>3 DEF TagsRight
<1>10. CASE ReplaceMetaTags(w)
  <2>1. wf[w].pc = "set"
    BY <1>0, <1>10, AtIs DEF ReplaceMetaTags
  <2>2. wf[w].content = tree[wf[w].ref].readme /\ wf[w].tags = RightTags(w) /\ wf[w].old = repoTags
    BY <1>a, <2>1 DEF TagsRight
  <2>3. /\ repoTags' = RightTags(w)
        /\ IF How(w) = "Removed" THEN With(w, Rest(w)) ELSE Goto(w, "license")
    BY <1>10, <2>2 DEF ReplaceMetaTags
  <2>4. CASE How(w) = "Removed"
    <3>1. wf[w].tags = {}
      BY <1>h, <2>1, <2>4 DEF Handling, TagPcs
    <3>2. LicenseRight'
      BY <2>2, <2>3, <3>1 DEF LicenseRight
    <3> QED BY <1>n, <2>1, <2>3, <2>4, <3>2
  <2>5. CASE How(w) # "Removed"
    <3>1. wf'[w] = [wf[w] EXCEPT !.pc = "license"]
      BY <1>0, <2>3, <2>5, WithIs DEF Goto
    <3>2. wf'[w].act = 4 /\ wf'[w].pc = "license"
      BY <1>0, <1>a, <3>1 DEF Workflow
    <3> QED BY <1>l, <2>3, <3>2 DEF LicensePcs
  <2> QED BY <2>4, <2>5
<1>11. CASE LicenseSteps(w)
  <2>1. wf[w].pc \in LicensePcs /\ repoTags' = repoTags
    BY <1>0, <1>11, AtIs DEF LicenseSteps, SelectLicense, FindById, UpdateLicenseByTag, LicenseFails, LicensePcs, rows
  <2>2. repoTags = RightTags(w)
    BY <1>a, <2>1 DEF TagsRight, TagsWritten
  <2>3. wf[w].pc \notin {"start", "end"}
    BY <2>1 DEF LicensePcs
  <2>4. CASE SelectLicense(w)
    <3>1. CASE repoTags \cap LicenseTags = {} /\ With(w, Rest(w))
      <4>1. LicenseRight'
        BY <2>1, <3>1 DEF LicenseRight
      <4> QED BY <1>n, <2>1, <2>2, <2>3, <3>1, <4>1
    <3>2. ASSUME NEW t \in repoTags, With(w, [wf[w] EXCEPT !.pc = "row", !.license = t])
          PROVE  TagsRight(w)'
      <4>1. wf'[w] = [wf[w] EXCEPT !.pc = "row", !.license = t]
        BY <1>0, <3>2, WithIs
      <4>2. wf'[w].act = 4 /\ wf'[w].pc = "row" /\ wf'[w].license = t
        BY <1>0, <1>a, <4>1 DEF Workflow
      <4> QED BY <1>l, <2>1, <2>2, <4>2 DEF LicensePcs
    <3> QED BY <2>4, <3>1, <3>2 DEF SelectLicense
  <2>5. CASE FindById(w)
    <3>1. wf[w].pc = "row" /\ wf'[w] = [wf[w] EXCEPT !.pc = "relicense", !.row = repo]
      BY <1>0, <2>5, AtIs, WithIs DEF FindById
    <3>2. wf'[w].act = 4 /\ wf'[w].pc = "relicense" /\ wf'[w].license = wf[w].license
      BY <1>0, <1>a, <3>1 DEF Workflow
    <3>3. wf[w].license \in repoTags
      BY <1>a, <3>1 DEF TagsRight
    <3> QED BY <1>l, <2>1, <2>2, <3>2, <3>3 DEF LicensePcs
  <2>6. CASE UpdateLicenseByTag(w)
    <3>1. wf[w].pc = "relicense" /\ With(w, Rest(w))
      BY <1>0, <2>6, AtIs DEF UpdateLicenseByTag
    <3>2. repo'.license = wf[w].license /\ wf[w].license \in repoTags
      BY <1>0, <1>a, <2>6, <3>1, RelicenseIs DEF TagsRight
    <3>3. LicenseRight'
      BY <2>1, <3>2 DEF LicenseRight
    <3> QED BY <1>n, <2>1, <2>2, <2>3, <3>1, <3>3
  <2>7. ~LicenseFails(w)
    BY <1>4 DEF LicenseFails
  <2> QED BY <1>11, <2>4, <2>5, <2>6, <2>7 DEF LicenseSteps
<1>12. CASE LibrarySteps(w)
  <2>1. /\ wf[w].pc \in LibraryPcs /\ UNCHANGED <<repoTags, repo>>
    BY <1>0, <1>12, AtIs DEF LibrarySteps, SelectLibraryTag, SetLibraryTag, RemoveLibraryTag, LibraryPcs, rows, checkVars
  <2>2. wf[w].pc \notin {"start", "end"}
    BY <2>1 DEF LibraryPcs
  <2>3. ASSUME NEW pc \in LibraryPcs, Goto(w, pc)
        PROVE  TagsRight(w)'
    <3>1. wf'[w] = [wf[w] EXCEPT !.pc = pc]
      BY <1>0, <2>3, WithIs DEF Goto
    <3>2. wf'[w].act = 4 /\ wf'[w].pc = pc /\ wf'[w].todo = wf[w].todo /\ wf'[w].err = wf[w].err
      BY <1>0, <1>a, <3>1 DEF Workflow
    <3>3. ReadmeIn(wf[w].todo)' <=> ReadmeIn(wf[w].todo)
      BY <3>2 DEF ReadmeIn
    <3>4. TagsWritten(w)' => TagsWritten(w)
      BY <1>a, <2>1, <2>3, <3>2, <3>3 DEF TagsWritten, LibraryPcs, LicensePcs
    <3>5. wf[w].pc \notin LicensePcs
      BY <2>1 DEF LibraryPcs, LicensePcs
    <3>6. TagsWritten(w)' => repoTags = RightTags(w) /\ LicenseRight
      BY <3>4, <3>5 DEF TagsRight
    <3>7. LicenseRight => LicenseRight'
      BY <1>0, <2>1 DEF LicenseRight
    <3> QED BY <1>3, <2>1, <2>3, <3>2, <3>6, <3>7 DEF TagsRight, LibraryPcs
  <2>4. With(w, Rest(w)) \/ FileFails(w) \/ Goto(w, "insert") \/ Goto(w, "update")
    BY <1>12 DEF LibrarySteps, SelectLibraryTag, SetLibraryTag, RemoveLibraryTag
  <2> QED BY <1>f, <1>n, <2>1, <2>2, <2>3, <2>4 DEF LibraryPcs
<1>13. CASE InfosUpdated(w)
  <2>1. wf[w].pc = "end" /\ UNCHANGED <<repoTags, repo>>
    BY <1>0, <1>13, AtIs DEF InfosUpdated, rows, checkVars
  <2>2. CASE wf[w].err
    <3>1. wf'[w].act = 4 /\ wf'[w].pc = "start"
      BY <1>0, <1>13, <1>a, <2>2, TryAgainIs DEF InfosUpdated, Fresh
    <3> QED BY <3>1 DEF TagsRight, TagsWritten, LicensePcs, LibraryPcs
  <2>3. CASE ~wf[w].err
    <3>1. Completed(w)
      BY <1>13, <2>3 DEF InfosUpdated
    <3>2. Fresh(w)' /\ wf'[w].act = wf[w].act + 1
      BY <1>0, <1>a, <3>1, CompletedIs
    <3>3. wf'[w].act = 5 /\ wf'[w].pc = "start"
      BY <1>a, <3>2 DEF Fresh
    <3>4. TagsWritten(w) /\ wf[w].pc \notin LicensePcs
      BY <1>a, <2>1, <2>3 DEF TagsWritten, LicensePcs
    <3>5. repoTags = RightTags(w) /\ LicenseRight
      BY <3>4 DEF TagsRight
    <3>6. LicenseRight'
      BY <1>0, <2>1, <3>5 DEF LicenseRight
    <3> QED BY <1>3, <2>1, <3>3, <3>5, <3>6 DEF TagsRight
  <2> QED BY <2>2, <2>3
<1>14. CASE InfoFails(w)
  <2>1. wf[w].pc \notin {"start", "end"}
    BY <1>0, <1>14, AtIs DEF InfoFails
  <2> QED BY <1>14, <1>f, <2>1 DEF InfoFails
<1> QED BY <1>5, <1>6, <1>7, <1>8, <1>9, <1>10, <1>11, <1>12, <1>13, <1>14 DEF Infos

\* Other activities: nothing that matters before UpdateRepoInfos has ended, nothing after.
LEMMA WatchTags ==
  ASSUME Base, NEW w \in W, TagsRight(w), Works(w), wf[w].act # 4
  PROVE  TagsRight(w)'
<1>1. UNCHANGED <<repoTags, repo>>
  <2>1. ~ReplaceMetaTags(w) /\ ~UpdateLicenseByTag(w)
    BY AtIs DEF ReplaceMetaTags, UpdateLicenseByTag, Base
  <2> QED BY <2>1, WritesOf
<1>3. /\ tree' = tree /\ load' = load /\ Moves(w) /\ Shape(w) /\ Shape(w)' /\ wf[w].act \in 1 .. 5
      /\ hist.relicensed => hist'.relicensed
  BY LastStays, WorkIs, Rows DEF Base, Shapes, Moves, Workflow, Flags
<1>4. CASE wf[w].act = 5
  <2>1. wf'[w].act = 5
    BY <1>4, Advances
  <2>2. wf'[w].pc = "start" /\ wf[w].pc = "start"
    BY <1>3, <1>4, <2>1 DEF Shape
  <2>3. RightTags(w)' = RightTags(w) /\ (LicenseRight => LicenseRight')
    BY <1>1, <1>3 DEF RightTags, MetaTags, LicenseRight, Moves
  <2>4. repoTags = RightTags(w) /\ LicenseRight
    BY <1>4, <2>2 DEF TagsRight, TagsWritten, LicensePcs
  <2> QED BY <1>1, <2>1, <2>3, <2>4 DEF TagsRight
<1>5. CASE wf[w].act # 5
  <2>1. wf'[w].act \in 1 .. 3 \/ (wf'[w].act = 4 /\ Fresh(w)')
    BY <1>3, <1>5, Advances
  <2>2. wf'[w].act # 5 /\ (wf'[w].act = 4 => wf'[w].pc = "start")
    BY <2>1 DEF Fresh
  <2> QED BY <2>2 DEF TagsRight, TagsWritten, LicensePcs, LibraryPcs
<1> QED BY <1>4, <1>5

LEMMA WorkKeepsTags ==
  ASSUME Base, Told, Allowed, NEW w \in W, LastIn(w, Refs), TagsRight(w), load.kind = "model",
         NEW u \in W, Works(u), ~hist'.crossed, ~hist'.logged
  PROVE  TagsRight(w)'
<1>1. CASE u # w
  BY <1>1, OthersTags
<1>2. CASE u = w /\ wf[w].act # 4
  BY <1>2, WatchTags
<1>3. CASE u = w /\ WorkerDies(w) /\ wf[w].act = 4
  <2>1. TryAgain(w) /\ Typed
    BY <1>3 DEF WorkerDies, Base
  <2>2. Fresh(w)' /\ wf'[w].act = 4
    BY <1>3, <2>1, TryAgainIs
  <2> QED BY <2>2 DEF TagsRight, TagsWritten, Fresh, LicensePcs, LibraryPcs
<1>4. CASE u = w /\ ~WorkerDies(w) /\ wf[w].act = 4
  <2>1. \A pc \in Pcs : \A act \in {"WatchSpaceChange", "WatchRepoRelation", "SetRepoUpdateTime", "SensitiveCheck"} :
          ~At(w, act, pc)
    BY <1>4, AtIs DEF Base
  <2>2. Infos(w)
    BY <1>4, <2>1, WorkCases DEF Pcs, FixHasEntryFile, Deploy, toRepoIDsFromReadme, Override, SetRepoUpdateTime,
                                 SensitiveCheck, WatcherFails, CallFails
  <2> QED BY <2>2, OwnTags
<1> QED BY <1>1, <1>2, <1>3, <1>4

LEMMA StepKeepsTags ==
  ASSUME Base, Told, Allowed, LatestTags, [Next]_vars
  PROVE  LatestTags'
<1>0. /\ "crossed" \in Flags /\ "logged" \in Flags /\ "relicensed" \in Flags
      /\ \A w \in W : wf[w].ref \in Refs
  BY Rows DEF Flags, Base, Workflow
<1>1. CASE PostReceive
  <2>1. UNCHANGED <<load, hist, repoTags, repo>>
    BY <1>1 DEF PostReceive, checkVars
  <2>2. ASSUME NEW w \in W', LastIn(w, Refs)', load.kind = "model", ~hist.crossed, ~hist.logged
        PROVE  TagsRight(w)'
    <3>1. CASE wf'[w].act = 1
      BY <3>1 DEF TagsRight, TagsWritten
    <3>2. CASE w \in W /\ wf'[w] = wf[w] /\ LastIn(w, Refs) /\ \A b \in Refs : tree'[b].readme = tree[b].readme
      <4>1. TagsRight(w) /\ tree'[wf[w].ref].readme = tree[wf[w].ref].readme
        BY <1>0, <2>2, <3>2 DEF LatestTags
      <4> QED BY <2>1, <3>2, <4>1, TagsRightStays
    <3> QED BY <1>1, <2>2, <3>1, <3>2, LastPushed
  <2> QED BY <2>1, <2>2 DEF LatestTags
<1>2. ASSUME NEW u \in W, Works(u)
      PROVE  LatestTags'
  <2>1. /\ W' = W /\ load' = load /\ (\A w \in W : LastIn(w, Refs)' <=> LastIn(w, Refs))
        /\ hist.crossed => hist'.crossed
        /\ hist.logged => hist'.logged
    BY <1>0, <1>2, LastStays
  <2>2. ASSUME NEW w \in W, LastIn(w, Refs), load.kind = "model", ~hist'.crossed, ~hist'.logged
        PROVE  TagsRight(w)'
    <3>1. TagsRight(w)
      BY <2>1, <2>2 DEF LatestTags
    <3> QED BY <1>2, <2>2, <3>1, WorkKeepsTags
  <2> QED BY <2>1, <2>2 DEF LatestTags
<1>3. ASSUME tree' = tree, load' = load, wf' = wf, repoTags' = repoTags, ~hist'.relicensed => repo'.license = repo.license,
             hist.logged => hist'.logged, hist.crossed => hist'.crossed, hist.relicensed => hist'.relicensed
      PROVE  LatestTags'
  <2>1. W' = W /\ \A w \in W : LastIn(w, Refs)' <=> LastIn(w, Refs)
    BY <1>3 DEF W, LastIn, ReadmePushes, ReadmeStatus
  <2>2. \A w \in W : TagsRight(w) => TagsRight(w)'
    BY <1>3, TagsRightStays
  <2> QED BY <1>3, <2>1, <2>2 DEF LatestTags
<1>4. CASE Checking /\ UNCHANGED <<wf, rows>>
  <2>1. PICK c \in C : CheckStep(c) \/ ActivityFails(c)
    BY <1>4 DEF Checking
  <2>2. tree' = tree /\ load' = load /\ LicenseStays /\ \A g \in Flags : hist[g] => hist'[g]
    BY <1>4, <2>1, CheckFrame, CheckHist DEF Base, HistGrows
  <2> QED BY <1>0, <1>3, <1>4, <2>2 DEF rows, LicenseStays
<1>5. CASE UNCHANGED vars
  BY <1>3, <1>5 DEF vars, rows, checkVars
<1> QED BY <1>1, <1>2, <1>4, <1>5 DEF Next, Works

InfosInv == Base /\ Told /\ Allowed /\ LatestTags /\ LatestRelations /\ LatestDeploy

\* When all has come to rest, tags, license, relations and the deploy of a space are
\* those of the last push that concerns them: what a workflow has read is what there is,
\* until a later push, and whoever writes from something older is noted.
THEOREM InfosAreLatest == Spec => []LatestInfos
<1>1. Init => InfosInv
  <2> SUFFICES ASSUME Init
               PROVE  InfosInv
    OBVIOUS
  <2>1. Base /\ W = {}
    BY Starts DEF W
  <2>2. known = BuiltIn
    BY DEF Init
  <2> QED BY <2>1, <2>2 DEF InfosInv, Told, Allowed, LatestTags, LatestRelations, LatestDeploy
<1>2. InfosInv /\ [Next]_vars => InfosInv'
  BY StepKeepsBase, ToldKept, AllowedKept, StepKeepsTags, StepKeepsRelations, StepKeepsDeploy DEF InfosInv
<1>3. InfosInv => LatestInfos
  <2> SUFFICES ASSUME InfosInv, ~hist.crossed, ~hist.logged
               PROVE  /\ load.kind = "model" =>
                          Handled(ReadmePushes(Refs),
                            /\ repoTags = MetaTags(tree[wf[Max(ReadmePushes(Refs))].ref].readme)
                            /\ repoTags \cap LicenseTags # {} /\ ~hist.relicensed => repo.license \in repoTags)
                      /\ load.kind # "code" => Handled(ReadmePushes({Main}), tree[Main].readme \notin Unparsed =>
                            relations = IF tree[Main].readme = None THEN {} ELSE LinksOf[tree[Main].readme])
                      /\ load.kind = "space" => Handled(W, deployed \/ tree[Main].files = {})
    BY DEF LatestInfos
  <2>0. W = 1 .. Len(wf) /\ Len(wf) \in Nat
    BY Rows DEF InfosInv, Base
  <2>1. ASSUME NEW S \in SUBSET W, S # {}, wf[Max(S)].st = "done"
        PROVE  /\ Max(S) \in S /\ \A v \in S : v <= Max(S)
               /\ wf[Max(S)].act = 5 /\ wf[Max(S)].pc = "start"
    <3>1. Max(S) \in S /\ \A v \in S : v <= Max(S)
      BY <2>0, <2>1, Greatest
    <3>2. Shape(Max(S))
      BY <3>1 DEF InfosInv, Base, Shapes
    <3> QED BY <2>1, <3>1, <3>2 DEF Shape, Fresh
  <2>2. ReadmePushes(Refs) \in SUBSET W /\ ReadmePushes({Main}) \in SUBSET W
    BY DEF ReadmePushes
  <2>3. ASSUME load.kind = "model", ReadmePushes(Refs) # {}, wf[Max(ReadmePushes(Refs))].st = "done"
        PROVE  /\ repoTags = MetaTags(tree[wf[Max(ReadmePushes(Refs))].ref].readme)
               /\ repoTags \cap LicenseTags # {} /\ ~hist.relicensed => repo.license \in repoTags
    <3>w. PICK w : w = Max(ReadmePushes(Refs))
      OBVIOUS
    <3>1. w \in W /\ LastIn(w, Refs) /\ wf[w].act = 5 /\ wf[w].pc = "start"
      BY <2>1, <2>2, <2>3, <3>w DEF LastIn
    <3>2. TagsRight(w) /\ TagsWritten(w)
      BY <2>3, <3>1 DEF InfosInv, LatestTags, TagsWritten
    <3>3. wf[w].pc \notin LicensePcs
      BY <3>1 DEF LicensePcs
    <3> QED BY <3>2, <3>3, <3>w DEF TagsRight, RightTags, LicenseRight
  <2>4. ASSUME load.kind # "code", ReadmePushes({Main}) # {}, wf[Max(ReadmePushes({Main}))].st = "done"
        PROVE  tree[Main].readme \notin Unparsed => relations = RelationsOf(tree[Main].readme)
    <3>w. PICK w : w = Max(ReadmePushes({Main}))
      OBVIOUS
    <3>1. w \in W /\ LastIn(w, {Main}) /\ wf[w].act = 5
      BY <2>1, <2>2, <2>4, <3>w DEF LastIn
    <3>2. RelationsRight(w)
      BY <2>4, <3>1 DEF InfosInv, LatestRelations
    <3> QED BY <3>1, <3>2 DEF RelationsRight
  <2>5. ASSUME load.kind = "space", W # {}, wf[Max(W)].st = "done"
        PROVE  deployed \/ tree[Main].files = {}
    <3>1. Max(W) \in W /\ (\A v \in W : v <= Max(W)) /\ wf[Max(W)].act = 5
      BY <2>1, <2>5
    <3> QED BY <2>5, <3>1 DEF InfosInv, LatestDeploy
  <2> QED BY <2>3, <2>4, <2>5 DEF Handled, RelationsOf
<1> QED BY <1>1, <1>2, <1>3, PTL DEF Spec
=============================================================================
