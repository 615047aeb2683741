----------------------------- MODULE Moderation -----------------------------
(***************************************************************************)
(* The moderation service: a workflow (moderation/workflow) records the    *)
(* files of a repository, checks those that nobody has checked, hides a    *)
(* repository with a sensitive file and states the result.  Its four       *)
(* activities are tried three times each.  They read the row of the        *)
(* repository and write all of it back.  Pushes starts the workflows; one  *)
(* file, README.md on the default branch, stands for the files.            *)
(***************************************************************************)
EXTENDS Naturals, Sequences, FiniteSetsExt

CONSTANTS
    Refs, Main,  \* branches, and the default one
    Readmes,     \* contents of README.md
    Sensitive,   \* those that the checkers object to
    None,
    MaxTries     \* RetryPolicy.MaximumAttempts

VARIABLES
    tree,   \* the git server: README.md and files at the head of each branch
    repo,   \* table repositories: private, sensitive_check_status and license
    files,  \* tables repository_files and repository_file_checks, joined, by ID
    check,  \* the workflows RepoFullCheckWorkflow, in order
    faults, \* calls and workers that failed
    hist,   \* history, see Pushes; stale, relicensed and moved are set here
    load

checkVars == <<repo, files, check>>
C == DOMAIN check

CheckActivity == <<"RepoSensitiveCheckPending", "GenRepoFileList", "CheckRepoFiles", "DetectRepoSensitiveCheckStatus">>
NewRepo == [private |-> FALSE, status |-> "pending", license |-> None]
Opened(st, act, tries) ==
    [st |-> st, act |-> act, tries |-> tries, pc |-> "start", row |-> NewRepo, todo |-> {},
     found |-> None, verdict |-> "pending"]

CheckInit ==
    /\ repo = NewRepo
    /\ files = << >>
    /\ check = << >>

Note(f) == hist' = [hist EXCEPT ![f] = TRUE]
Fault == faults < load.faults /\ faults' = faults + 1
NoFault == UNCHANGED <<faults, hist>>

\* A request starts a workflow.
FullCheck == check' = Append(check, Opened("run", 1, 1))

----------------------------------------------------------------------------
In(c, act, pc) == check[c].st = "run" /\ CheckActivity[check[c].act] = act /\ check[c].pc = pc
Set(c, r) == check' = [check EXCEPT ![c] = r]
Go(c, pc) == Set(c, [check[c] EXCEPT !.pc = pc])

ActivityDone(c) ==
    Set(c, IF check[c].act = Len(CheckActivity) THEN Opened("done", check[c].act, check[c].tries)
           ELSE Opened("run", check[c].act + 1, 1))

\* An activity returns an error, or its worker dies.
ActivityFails(c) ==
    /\ check[c].st = "run"
    /\ Fault
    /\ Set(c, IF check[c].tries < MaxTries THEN Opened("run", check[c].act, check[c].tries + 1)
              ELSE Opened("failed", check[c].act, check[c].tries))
    /\ UNCHANGED <<tree, repo, files, hist, load>>

\* For the history: what has changed in the row since it was read.
Outdated(row) == repo.private # row.private \/ repo.status # row.status
Relicensed(row) == repo.license # row.license

\* A row is written as it was read, but for its status: what came in between is lost.
UpdateRepo(c, status) ==
    /\ repo' = [check[c].row EXCEPT !.status = status]
    /\ hist' = [hist EXCEPT !.stale = @ \/ Outdated(check[c].row),
                            !.relicensed = @ \/ Relicensed(check[c].row)]

\* The first and the last activity read the row.
FindByPath(c) ==
    /\ \/ In(c, "RepoSensitiveCheckPending", "start") /\ Set(c, [check[c] EXCEPT !.pc = "save", !.row = repo])
       \/ In(c, "DetectRepoSensitiveCheckStatus", "start") /\ Set(c, [check[c] EXCEPT !.pc = "failed", !.row = repo])
    /\ NoFault
    /\ UNCHANGED <<tree, repo, files, load>>

UpdateRepoSensitiveCheckStatus(c) ==
    /\ In(c, "RepoSensitiveCheckPending", "save")
    /\ UpdateRepo(c, "pending")
    /\ ActivityDone(c)
    /\ UNCHANGED <<tree, files, faults, load>>

\* A file is recorded once for each content, as far as Exists can tell.
GenRepoFileRecords(c) ==
    /\ In(c, "GenRepoFileList", "start")
    /\ IF tree[Main].readme = None THEN ActivityDone(c)
       ELSE Set(c, [check[c] EXCEPT !.pc = "exists", !.found = tree[Main].readme])
    /\ NoFault
    /\ UNCHANGED <<tree, repo, files, load>>

\* A file is left out when Exists fails.
Exists(c) ==
    /\ In(c, "GenRepoFileList", "exists")
    /\ \/ /\ IF \E i \in DOMAIN files : files[i].content = check[c].found
             THEN ActivityDone(c) ELSE Go(c, "create")
          /\ NoFault
       \/ ActivityDone(c) /\ Fault /\ Note("logged")
    /\ UNCHANGED <<tree, repo, files, load>>

CreateFile(c) ==
    /\ In(c, "GenRepoFileList", "create")
    /\ files' = Append(files, [content |-> check[c].found, status |-> "pending"])
    /\ ActivityDone(c)
    /\ NoFault
    /\ UNCHANGED <<tree, repo, load>>

----------------------------------------------------------------------------
\* CheckRepoFiles

\* The row of the repository is read along with the files.
BatchGetUnchcked(c) ==
    /\ In(c, "CheckRepoFiles", "start")
    /\ LET ids == {i \in DOMAIN files : files[i].status = "pending"} IN
       IF ids = {} THEN ActivityDone(c) ELSE Set(c, [check[c] EXCEPT !.pc = "run", !.todo = ids, !.row = repo])
    /\ NoFault
    /\ UNCHANGED <<tree, repo, files, load>>

\* In the order of their IDs.
Checked(c) == Min(check[c].todo)

\* Mutation of Results: the record is written first.
RecordFirst(status) == IF status = "fail" THEN <<"record", "hide">> ELSE <<"record">>

\* saveCheckResult hides the repository before it records the result.
Results(status) == IF status = "fail" THEN <<"hide", "record">> ELSE <<"record">>

\* The next step for this file, or the next file.
NextResult(c) ==
    LET rs == Results(check[c].verdict)
        last == rs[Len(rs)] = check[c].pc
        rest == check[c].todo \ {Checked(c)}
    IN  IF ~last THEN Go(c, rs[2])
        ELSE IF rest = {} THEN ActivityDone(c)
        ELSE Set(c, [check[c] EXCEPT !.pc = "run", !.todo = rest])

\* A record is of one content; what is read and judged is the content at the head.
processFile(c) ==
    /\ In(c, "CheckRepoFiles", "run")
    /\ \E v \in {"pass", "fail", "exception"} :
          /\ Set(c, [check[c] EXCEPT !.verdict = v, !.pc = Results(v)[1]])
          /\ IF tree[Main].readme = None THEN v = "exception" /\ Note("moved") /\ UNCHANGED faults
             ELSE IF v = "exception" THEN Fault /\ Note("logged")
             ELSE /\ (v = "fail") = (tree[Main].readme \in Sensitive)
                  /\ IF tree[Main].readme # files[Checked(c)].content THEN Note("moved") ELSE UNCHANGED hist
                  /\ UNCHANGED faults
    /\ UNCHANGED <<tree, repo, files, load>>

\* The errors of both writes are only logged.
hideRepo(c) ==
    /\ In(c, "CheckRepoFiles", "hide")
    /\ \/ /\ repo' = [check[c].row EXCEPT !.private = TRUE, !.status = "fail"]
          /\ IF Relicensed(check[c].row) THEN Note("relicensed") ELSE UNCHANGED hist
          /\ UNCHANGED faults
       \/ UNCHANGED repo /\ Fault /\ Note("logged")
    /\ NextResult(c)
    /\ UNCHANGED <<tree, files, load>>

\* Another workflow has looked for failed records and has not stated its result.
Decided(c) ==
    \E pc \in {"exceptions", "save"} : In(c, "DetectRepoSensitiveCheckStatus", pc)

Upsert(c) ==
    /\ In(c, "CheckRepoFiles", "record")
    /\ \/ /\ files' = [files EXCEPT ![Checked(c)].status = check[c].verdict]
          /\ IF \E d \in C : Decided(d) THEN Note("stale") ELSE UNCHANGED hist
          /\ UNCHANGED faults
       \/ UNCHANGED files /\ Fault /\ Note("logged")
    /\ NextResult(c)
    /\ UNCHANGED <<tree, repo, load>>

----------------------------------------------------------------------------
\* The status of the repository: the worst of any file that was ever recorded.
ExistsSensitiveCheckRecord(status) == \E i \in DOMAIN files : files[i].status = status

DetectFailed(c) ==
    /\ In(c, "DetectRepoSensitiveCheckStatus", "failed")
    /\ IF ExistsSensitiveCheckRecord("fail") THEN Set(c, [check[c] EXCEPT !.pc = "save", !.verdict = "fail"])
       ELSE Go(c, "exceptions")
    /\ NoFault
    /\ UNCHANGED <<tree, repo, files, load>>

DetectException(c) ==
    /\ In(c, "DetectRepoSensitiveCheckStatus", "exceptions")
    /\ Set(c, [check[c] EXCEPT !.pc = "save",
               !.verdict = IF ExistsSensitiveCheckRecord("exception") THEN "exception" ELSE "pass"])
    /\ NoFault
    /\ UNCHANGED <<tree, repo, files, load>>

SaveStatus(c) ==
    /\ In(c, "DetectRepoSensitiveCheckStatus", "save")
    /\ UpdateRepo(c, check[c].verdict)
    /\ ActivityDone(c)
    /\ UNCHANGED <<tree, files, faults, load>>

CheckStep(c) ==
    \/ FindByPath(c) \/ UpdateRepoSensitiveCheckStatus(c)
    \/ GenRepoFileRecords(c) \/ Exists(c) \/ CreateFile(c)
    \/ BatchGetUnchcked(c) \/ processFile(c) \/ hideRepo(c) \/ Upsert(c)
    \/ DetectFailed(c) \/ DetectException(c) \/ SaveStatus(c)

Checking == \E c \in C : CheckStep(c) \/ ActivityFails(c)
=============================================================================
