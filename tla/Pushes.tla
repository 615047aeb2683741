------------------------------- MODULE Pushes -------------------------------
(***************************************************************************)
(* What the server does after a push to a repository: the hook of the git  *)
(* server starts a workflow (api/workflow), whose five activities deploy a *)
(* space, set relations, times and tags (component/callback) and ask for a *)
(* check, the workflow of Moderation.  Each activity is tried three times. *)
(* Workflows of pushes that follow each other run at the same time, and    *)
(* they read files as they are then.  One repository that is no mirror.    *)
(***************************************************************************)
EXTENDS Moderation, Integers, FiniteSets

CONSTANTS
    Files,       \* other files: of one library in a model, the entry file of a space
    Tags,        \* meta tags
    TagsOf,      \* the tags in a README.md, of categories that have tags at first
    Unparsed,    \* those README.md whose metadata are no YAML
    BadTags,     \* the names that the checkers object to
    LicenseTags, \* those of category license
    BuiltIn,     \* tags that exist at first
    LinksOf,     \* the repositories that a README.md mentions
    Loads        \* [kind, refs, readmes, files, pushes, faults, checks], see Init

ASSUME PushesAssumption ==
    /\ Main \in Refs /\ Sensitive \subseteq Readmes /\ None \notin Readmes \cup Tags
    /\ TagsOf \in [Readmes -> SUBSET Tags] /\ DOMAIN LinksOf = Readmes
    /\ LicenseTags \subseteq Tags /\ BuiltIn \subseteq Tags /\ Unparsed \subseteq Readmes
    /\ MaxTries \in Nat \ {0}
    /\ "README.md" \notin Files
    /\ \A l \in Loads : /\ l.kind \in {"model", "space", "code"} /\ l.checks \in BOOLEAN
                        /\ l.refs \subseteq Refs /\ l.readmes \subseteq Readmes
                        /\ l.files \subseteq Files /\ IsFiniteSet(l.files)
                        /\ l.pushes \in Nat /\ l.faults \in Nat

VARIABLES
    wf,        \* the workflows, one for each push, in order; one is lost when its hook fails
    known,     \* table tags
    repoTags,  \* table repository_tags: meta tags of the repository
    libRow,    \* it has a row there for its library tag
    libCount,  \* the count in this row
    relations, \* table repo_relations
    hasApp,    \* column has_app_file of spaces
    deployed   \* the latest deploy of the space is younger than the latest push

rows == <<known, repoTags, libRow, libCount, relations, hasApp, deployed>>
vars == <<tree, wf, rows, checkVars, faults, hist, load>>

W == DOMAIN wf
Trees == [readme : load.readmes \cup {None}, files : SUBSET load.files]

\* The tags that a README.md gives a repository: a new one must pass the checkers.
MetaTags(r) == IF r = None THEN {} ELSE {t \in TagsOf[r] : load.checks /\ t \in BadTags => t \in BuiltIn}

Init ==
    /\ load \in Loads
    /\ tree = [b \in Refs |-> [readme |-> None, files |-> {}]]
    /\ wf = << >>
    /\ known = BuiltIn
    /\ repoTags = {} /\ libRow = FALSE /\ libCount = 0
    /\ relations = {}
    /\ hasApp = FALSE /\ deployed = TRUE
    /\ faults = 0
    /\ hist = [f \in {"crossed", "repeated", "skipped", "logged", "unread", "stale", "relicensed", "moved"} |-> FALSE]
    /\ CheckInit

----------------------------------------------------------------------------
\* A push

\* What FindChangedPaths says of two trees.
Groups == {"Modified", "Removed", "Added"}
GetDiffBetweenTwoCommits(old, new) ==
    LET readme == IF old.readme = new.readme THEN {} ELSE {"README.md"} IN
    [how \in Groups |->
        CASE how = "Added"    -> (new.files \ old.files) \cup IF old.readme = None THEN readme ELSE {}
          [] how = "Removed"  -> (old.files \ new.files) \cup IF new.readme = None THEN readme ELSE {}
          [] how = "Modified" -> IF None \in {old.readme, new.readme} THEN {} ELSE readme]

\* Mutation of ReadmeStatus: a README.md that was removed goes unnoticed.
RemovalMissed(d) == IF "README.md" \in d.Modified \cup d.Added THEN "modified" ELSE ""

\* What has become of README.md.
ReadmeStatus(d) ==
    CASE "README.md" \in d.Modified -> "modified"
      [] "README.md" \in d.Added    -> "added"
      [] "README.md" \in d.Removed  -> "removed"
      [] OTHER -> ""

\* What UpdateRepoInfos goes through: modified, removed, added files.  Spaces and codes
\* have no tags: the first file that is no README.md ends each group.
Tagged == load.kind = "model"
Todo(d) == [how \in Groups |-> IF Tagged THEN d[how] ELSE d[how] \cap {"README.md"}]
Nothing == [how \in Groups |-> {}]

Group(todo) ==
    IF todo.Modified # {} THEN "Modified" ELSE IF todo.Removed # {} THEN "Removed" ELSE "Added"
First(todo) == CHOOSE f \in todo[Group(todo)] : TRUE

Activity == <<"WatchSpaceChange", "WatchRepoRelation", "SetRepoUpdateTime", "UpdateRepoInfos", "SensitiveCheck">>

Begun(st, act, tries, ref, diff) ==
    [st |-> st, act |-> act, tries |-> tries, pc |-> "start", ref |-> ref, diff |-> diff,
     todo |-> Nothing, content |-> None, new |-> {}, tags |-> {}, old |-> {}, license |-> None,
     row |-> NewRepo, err |-> FALSE]

\* A push is accepted, and its hook starts a workflow.  The hook may also fail, with
\* the push in the tree: nobody calls it again.
PostReceive ==
    \E b \in load.refs, t \in Trees :
        /\ Len(wf) < load.pushes
        /\ t # tree[b]
        /\ tree' = [tree EXCEPT ![b] = t]
        /\ \E st \in {"run", "lost"} :
             /\ wf' = Append(wf, Begun(st, 1, 1, b, GetDiffBetweenTwoCommits(tree[b], t)))
             /\ IF st = "lost" THEN Fault ELSE UNCHANGED faults
        /\ deployed' = FALSE
        /\ UNCHANGED <<checkVars, known, repoTags, libRow, libCount, relations, hasApp, hist, load>>

----------------------------------------------------------------------------
\* HandlePushWorkflow

At(w, act, pc) == wf[w].st = "run" /\ Activity[wf[w].act] = act /\ wf[w].pc = pc

With(w, r) == wf' = [wf EXCEPT ![w] = r]
Goto(w, pc) == With(w, [wf[w] EXCEPT !.pc = pc])
Clean(w, st, act, tries) == With(w, Begun(st, act, tries, wf[w].ref, wf[w].diff))

\* The activity returns nil: the next one, or the end.
Completed(w) ==
    IF wf[w].act = Len(Activity) THEN Clean(w, "done", wf[w].act, wf[w].tries)
    ELSE Clean(w, "run", wf[w].act + 1, 1)

\* Mutation of TryAgain: there is one attempt.
NeverAgain(w) == Clean(w, "failed", wf[w].act, wf[w].tries)

\* It returns an error or its worker dies: it is tried again, or the workflow ends.
TryAgain(w) ==
    IF wf[w].tries < MaxTries THEN Clean(w, "run", wf[w].act, wf[w].tries + 1)
    ELSE Clean(w, "failed", wf[w].act, wf[w].tries)

\* A worker dies during an activity, or its answer does not arrive.
WorkerDies(w) ==
    /\ wf[w].st = "run"
    /\ Fault
    /\ TryAgain(w)
    /\ IF Activity[wf[w].act] = "UpdateRepoInfos" THEN Note("repeated") ELSE UNCHANGED hist
    /\ UNCHANGED <<checkVars, tree, rows, load>>

\* Relations are those of the README.md of the default branch; a code has none.
SetsRelations(w) == wf[w].ref = Main /\ ReadmeStatus(wf[w].diff) # "" /\ load.kind # "code"

\* The watchers drop the errors of their operations: the activity returns nil.
WatcherFails(w) ==
    /\ \/ At(w, "WatchSpaceChange", "deploy") \/ At(w, "WatchRepoRelation", "override")
       \/ At(w, "WatchRepoRelation", "start") /\ SetsRelations(w)
    /\ Fault
    /\ Completed(w)
    /\ Note("logged")
    /\ UNCHANGED <<checkVars, tree, rows, load>>

\* Other activities return them.
CallFails(w) ==
    /\ At(w, "SetRepoUpdateTime", "start") \/ At(w, "SensitiveCheck", "start")
    /\ Fault
    /\ TryAgain(w)
    /\ UNCHANGED <<checkVars, tree, rows, hist, load>>

\* For the history: the workflow has looked at the README.md, or at the tags, that
\* its writes rely on.
Past(w, act) == wf[w].st \in {"done", "failed"} \/ (wf[w].st = "run" /\ wf[w].act > act)
ReadForRelations(w) ==
    /\ SetsRelations(w)
    /\ Past(w, 2) \/ At(w, "WatchRepoRelation", "override")
ReadForTags(w) ==
    /\ ReadmeStatus(wf[w].diff) # ""
    /\ \/ Past(w, 4)
       \/ \E pc \in {"set", "license", "row", "relicense", "end"} : At(w, "UpdateRepoInfos", pc)
       \/ /\ \E pc \in {"library", "insert", "update"} : At(w, "UpdateRepoInfos", pc)
          /\ \A how \in Groups : "README.md" \notin wf[w].todo[how]

----------------------------------------------------------------------------
\* Activities

\* At the default branch.
HasEntryFile == tree[Main].files # {}

\* Only a space is deployed.  Whether it has an entry file is read at first, and
\* when that fails it has none.
FixHasEntryFile(w) ==
    /\ At(w, "WatchSpaceChange", "start")
    /\ IF load.kind # "space" THEN Completed(w) /\ UNCHANGED <<hasApp, faults, hist>>
       ELSE \/ /\ hasApp' = HasEntryFile
               /\ IF hasApp' THEN Goto(w, "deploy") ELSE Completed(w)
               /\ UNCHANGED <<faults, hist>>
            \/ /\ Fault
               /\ hasApp' = FALSE
               /\ Completed(w)
               /\ Note("logged")
    /\ UNCHANGED <<checkVars, tree, known, repoTags, libRow, libCount, relations, deployed, load>>

Deploy(w) ==
    /\ At(w, "WatchSpaceChange", "deploy")
    /\ deployed' = TRUE
    /\ Completed(w)
    /\ UNCHANGED <<checkVars, tree, known, repoTags, libRow, libCount, relations, hasApp, faults, hist, load>>

\* A README.md that cannot be parsed is an error, dropped like the others.
toRepoIDsFromReadme(w) ==
    /\ At(w, "WatchRepoRelation", "start")
    /\ LET status == ReadmeStatus(wf[w].diff)
           readme == tree[wf[w].ref].readme
       IN  IF ~SetsRelations(w) \/ (status # "removed" /\ readme \in Unparsed \cup {None}) THEN Completed(w)
           ELSE IF status = "removed" THEN Goto(w, "override")
           ELSE With(w, [wf[w] EXCEPT !.pc = "override", !.content = readme])
    /\ UNCHANGED <<tree, rows, checkVars, faults, hist, load>>

\* Deletes and inserts in one transaction.
Override(w) ==
    /\ At(w, "WatchRepoRelation", "override")
    /\ relations' = IF wf[w].content = None THEN {} ELSE LinksOf[wf[w].content]
    /\ Completed(w)
    /\ hist' = [hist EXCEPT !.crossed = @ \/ \E v \in W : v > w /\ ReadForRelations(v)]
    /\ UNCHANGED <<checkVars, tree, known, repoTags, libRow, libCount, hasApp, deployed, faults, load>>

SetRepoUpdateTime(w) ==
    /\ At(w, "SetRepoUpdateTime", "start")
    /\ Completed(w)
    /\ UNCHANGED <<checkVars, tree, rows, faults, hist, load>>

\* Only when there is a moderation service.  Its answer may be lost: then it is
\* asked again.
SensitiveCheck(w) ==
    /\ At(w, "SensitiveCheck", "start")
    /\ IF load.checks THEN FullCheck ELSE UNCHANGED check
    /\ \/ Completed(w) /\ UNCHANGED faults
       \/ load.checks /\ TryAgain(w) /\ Fault
    /\ UNCHANGED <<tree, rows, repo, files, hist, load>>

----------------------------------------------------------------------------
\* UpdateRepoInfos

\* With what the files that are left begin: README.md is read or, when it was
\* removed, its tags are cleared; other files count for the library.
Begin(w, todo) ==
    [wf[w] EXCEPT !.pc = IF todo = Nothing THEN "end"
                         ELSE IF First(todo) # "README.md" THEN "library"
                         ELSE IF Group(todo) = "Removed" THEN "old" ELSE "raw",
                  !.todo = todo, !.content = None, !.new = {}, !.tags = {}, !.old = {},
                  !.license = None, !.row = NewRepo]

UpdateRepoInfos(w) ==
    /\ At(w, "UpdateRepoInfos", "start")
    /\ With(w, Begin(w, Todo(wf[w].diff)))
    /\ UNCHANGED <<checkVars, tree, rows, faults, hist, load>>

Item(w) == First(wf[w].todo)
How(w) == Group(wf[w].todo)
Rest(w) == Begin(w, [wf[w].todo EXCEPT ![How(w)] = @ \ {Item(w)}])
GroupLeft(w) == Begin(w, [wf[w].todo EXCEPT ![How(w)] = {}])

\* Mutation of FileFails: its error is lost, as in the watchers.
FailsSilently(w) == With(w, GroupLeft(w))

\* An error: the files left of this group are given up, the next groups are not.
FileFails(w) == With(w, [GroupLeft(w) EXCEPT !.err = TRUE])

\* README.md is read at the head of the branch, which may be without one by now.
getFileRaw(w) ==
    /\ At(w, "UpdateRepoInfos", "raw")
    /\ IF tree[wf[w].ref].readme # None
       THEN /\ With(w, IF Tagged THEN [wf[w] EXCEPT !.pc = "tags", !.content = tree[wf[w].ref].readme] ELSE Rest(w))
            /\ UNCHANGED hist
       ELSE FileFails(w) /\ Note("unread")
    /\ UNCHANGED <<checkVars, tree, rows, faults, load>>

\* Its tags are looked up.  Of those that are new the checkers take away what they
\* object to, and what they fail to judge.
ProcessReadme(w) ==
    /\ At(w, "UpdateRepoInfos", "tags")
    /\ LET tags == TagsOf[wf[w].content]
           new == {t \in tags \ known : load.checks => t \notin BadTags}
           keep(ts) == With(w, [wf[w] EXCEPT !.pc = "save", !.new = ts, !.tags = (tags \cap known) \cup ts])
       IN  IF wf[w].content \in Unparsed THEN FileFails(w) /\ Note("unread") /\ UNCHANGED faults
           ELSE \/ keep(new) /\ UNCHANGED <<faults, hist>>
                \/ load.checks /\ (\E t \in new : keep(new \ {t})) /\ Fault /\ Note("logged")
    /\ UNCHANGED <<checkVars, tree, rows, load>>

\* Names of tags are unique: one insert for all, which fails if one is there by now.
SaveTags(w) ==
    /\ At(w, "UpdateRepoInfos", "save")
    /\ IF wf[w].new \cap known = {}
       THEN known' = known \cup wf[w].new /\ Goto(w, "old")
       ELSE FileFails(w) /\ UNCHANGED known
    /\ UNCHANGED <<checkVars, tree, repoTags, libRow, libCount, relations, hasApp, deployed, faults, hist, load>>

\* SetMetaTags finds the tags to delete before its transaction.
SetMetaTags(w) ==
    /\ At(w, "UpdateRepoInfos", "old")
    /\ With(w, [wf[w] EXCEPT !.pc = "set", !.old = repoTags])
    /\ UNCHANGED <<checkVars, tree, rows, faults, hist, load>>

\* The transaction; a repository has a tag once.
ReplaceMetaTags(w) ==
    /\ At(w, "UpdateRepoInfos", "set")
    /\ LET rest == repoTags \ wf[w].old
           tags == wf[w].tags
       IN  IF rest \cap tags = {}
           THEN /\ repoTags' = rest \cup tags
                /\ IF How(w) = "Removed" THEN With(w, Rest(w)) ELSE Goto(w, "license")
                /\ hist' = [hist EXCEPT !.crossed = @ \/ \E v \in W : v > w /\ ReadForTags(v)]
           ELSE FileFails(w) /\ UNCHANGED <<repoTags, hist>>
    /\ UNCHANGED <<checkVars, tree, known, libRow, libCount, relations, hasApp, deployed, faults, load>>

\* UpdateLicenseByTag selects a tag, reads the row and writes all of it back.  A
\* README.md without a license leaves the old one.
SelectLicense(w) ==
    /\ At(w, "UpdateRepoInfos", "license")
    /\ LET licenses == repoTags \cap LicenseTags IN
       IF licenses = {} THEN With(w, Rest(w))
       ELSE \E t \in licenses : With(w, [wf[w] EXCEPT !.pc = "row", !.license = t])
    /\ UNCHANGED <<checkVars, tree, rows, faults, hist, load>>

FindById(w) ==
    /\ At(w, "UpdateRepoInfos", "row")
    /\ With(w, [wf[w] EXCEPT !.pc = "relicense", !.row = repo])
    /\ UNCHANGED <<checkVars, tree, rows, faults, hist, load>>

UpdateLicenseByTag(w) ==
    /\ At(w, "UpdateRepoInfos", "relicense")
    /\ repo' = [wf[w].row EXCEPT !.license = wf[w].license]
    /\ With(w, Rest(w))
    /\ hist' = [hist EXCEPT !.stale = @ \/ Outdated(wf[w].row),
                            !.crossed = @ \/ \E v \in W : v > w /\ ReadForTags(v)]
    /\ UNCHANGED <<files, check, tree, rows, faults, load>>

\* Its errors are only logged.
LicenseFails(w) ==
    /\ \E pc \in {"license", "row", "relicense"} : At(w, "UpdateRepoInfos", pc)
    /\ Fault
    /\ With(w, Rest(w))
    /\ Note("logged")
    /\ UNCHANGED <<checkVars, tree, rows, load>>

\* SetLibraryTag looks for the row of the tag, to count it up or to insert it: an
\* index refuses a second one.
SelectLibraryTag(w) ==
    /\ At(w, "UpdateRepoInfos", "library") /\ How(w) # "Removed"
    /\ Goto(w, IF libRow THEN "update" ELSE "insert")
    /\ UNCHANGED <<checkVars, tree, rows, faults, hist, load>>

SetLibraryTag(w) ==
    /\ \/ At(w, "UpdateRepoInfos", "insert") /\ libRow /\ FileFails(w) /\ UNCHANGED <<libRow, libCount>>
       \/ At(w, "UpdateRepoInfos", "insert") /\ ~libRow /\ libRow' = TRUE /\ libCount' = 1 /\ With(w, Rest(w))
       \/ At(w, "UpdateRepoInfos", "update") /\ libCount' = libCount + 1 /\ UNCHANGED libRow /\ With(w, Rest(w))
    /\ UNCHANGED <<checkVars, tree, known, repoTags, relations, hasApp, deployed, faults, hist, load>>

\* One statement, and the count never falls below zero.
RemoveLibraryTag(w) ==
    /\ At(w, "UpdateRepoInfos", "library") /\ How(w) = "Removed"
    /\ libCount' = IF libCount > 0 THEN libCount - 1 ELSE 0
    /\ IF libCount = 0 THEN Note("skipped") ELSE UNCHANGED hist
    /\ With(w, Rest(w))
    /\ UNCHANGED <<checkVars, tree, known, repoTags, libRow, relations, hasApp, deployed, faults, load>>

\* A call of the git server or of the database fails, while a file is handled.
InfoFails(w) ==
    /\ \E pc \in {"raw", "tags", "save", "old", "set", "library", "insert", "update"} : At(w, "UpdateRepoInfos", pc)
    /\ Fault
    /\ FileFails(w)
    /\ UNCHANGED <<checkVars, tree, rows, hist, load>>

\* The errors of all files are joined, and all files are handled again.
InfosUpdated(w) ==
    /\ At(w, "UpdateRepoInfos", "end")
    /\ IF wf[w].err THEN TryAgain(w) /\ Note("repeated") ELSE Completed(w) /\ UNCHANGED hist
    /\ UNCHANGED <<checkVars, tree, rows, faults, load>>

----------------------------------------------------------------------------
Step(w) ==
    \/ FixHasEntryFile(w) \/ Deploy(w)
    \/ toRepoIDsFromReadme(w) \/ Override(w)
    \/ SetRepoUpdateTime(w) \/ SensitiveCheck(w)
    \/ UpdateRepoInfos(w) \/ getFileRaw(w) \/ ProcessReadme(w) \/ SaveTags(w)
    \/ SetMetaTags(w) \/ ReplaceMetaTags(w)
    \/ SelectLicense(w) \/ FindById(w) \/ UpdateLicenseByTag(w)
    \/ SelectLibraryTag(w) \/ SetLibraryTag(w) \/ RemoveLibraryTag(w)
    \/ InfosUpdated(w)

Next ==
    \/ PostReceive
    \/ \E w \in W : Step(w) \/ WorkerDies(w) \/ WatcherFails(w) \/ CallFails(w) \/ InfoFails(w) \/ LicenseFails(w)
    \/ Checking /\ UNCHANGED <<wf, rows>>

\* Temporal keeps a workflow until it has ended.
MaxPushes == CHOOSE n \in {l.pushes : l \in Loads} : \A l \in Loads : l.pushes <= n
Spec == Init /\ [][Next]_vars /\ \A w \in 1 .. MaxPushes : WF_vars(w \in W /\ Step(w))

----------------------------------------------------------------------------
\* Properties

Quiet == \A w \in W : wf[w].st # "run"
ReadmePushes(refs) == {w \in W : wf[w].ref \in refs /\ ReadmeStatus(wf[w].diff) # ""}
Handled(S, P) == S # {} /\ wf[Max(S)].st = "done" => P

\* When everything has come to rest, tags and license are those of the README.md
\* that was pushed last, relations those of the default branch, and a space is
\* deployed as it is: whatever was tried how often, unless an earlier push wrote
\* after a later one had looked, or an error was only logged.  A check that writes
\* back the row it has read may undo the license; no relations come from a README.md
\* that cannot be parsed.
LatestInfos ==
    (Quiet /\ ~hist.crossed /\ ~hist.logged) =>
        /\ load.kind = "model" =>
             Handled(ReadmePushes(Refs),
                /\ repoTags = MetaTags(tree[wf[Max(ReadmePushes(Refs))].ref].readme)
                /\ repoTags \cap LicenseTags # {} /\ ~hist.relicensed => repo.license \in repoTags)
        /\ load.kind # "code" => Handled(ReadmePushes({Main}), tree[Main].readme \notin Unparsed =>
                relations = IF tree[Main].readme = None THEN {} ELSE LinksOf[tree[Main].readme])
        /\ load.kind = "space" => Handled(W, deployed \/ tree[Main].files = {})

\* The count of a library is the number of its files, however the workflows of
\* pushes mix, as long as no activity is repeated, no file is removed before it
\* was counted and only the default branch is pushed to.
LibraryCounted ==
    (Quiet /\ load.kind = "model" /\ \A w \in W : wf[w].st = "done" /\ wf[w].ref = Main) =>
        hist.repeated \/ hist.skipped \/ libCount = Cardinality(tree[Main].files)

\* A repository whose README.md is sensitive is hidden when all pushes were handled and
\* all checks have ended, and it passes only without a sensitive file, whichever
\* attempts failed and whichever worker died: as long as neither a check nor the update
\* of a license wrote back a row that was hidden or judged since it was read, no check
\* stated a result that another one had changed since it looked, no file changed
\* between its record and its check, and no error was only logged.
SensitiveIsHidden ==
    (load.checks /\ Quiet /\ (\A w \in W : wf[w].st = "done") /\ (\A c \in C : check[c].st = "done")
       /\ ~hist.stale /\ ~hist.moved /\ ~hist.logged) =>
        /\ tree[Main].readme \in Sensitive => repo.private /\ repo.status = "fail"
        /\ repo.status = "pass" => ~ExistsSensitiveCheckRecord("fail")

\* Every push whose hook has started a workflow is handled in the end.  Pushes that get
\* into each other's way settle it by trying again: a workflow gives up because of
\* failing calls, because of others that replaced the tags and inserted names of tags
\* or the first row of a library before it, or because the README.md is not there any
\* more or cannot be parsed.
Collisions(w) == 2 * Cardinality(ReadmePushes(Refs) \ {w}) + IF libRow /\ W # {w} THEN 1 ELSE 0
PushHandled ==
    \A w \in 1 .. MaxPushes :
        (w \in W /\ wf[w].st = "run") ~>
            (w \in W /\ \/ wf[w].st = "done"
                        \/ wf[w].st = "failed" /\ (hist.unread \/ faults + Collisions(w) >= MaxTries))
=============================================================================
