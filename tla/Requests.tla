------------------------------ MODULE Requests ------------------------------
(***************************************************************************)
(* The requests of the API.  A request runs the program of its route step  *)
(* by step; every call of the database or of another service may fail, and *)
(* every fact that the program asks for may be true or false.  What a      *)
(* request has changed, what it meant to change and could not, and what it *)
(* answered is kept until the next one.  Requests that meet each other are *)
(* the subject of the modules Repos, Accounts, Lfs and Pushes.             *)
(***************************************************************************)
EXTENDS Steps

CONSTANTS
    Routes,     \* the routes: a name, and the handler behind its middleware
    MaxFaults   \* bound: calls that fail in one request

ASSUME RequestsAssumption == MaxFaults \in Nat

VARIABLES
    st,       \* idle, run, after (only goroutines are left) or done
    route,    \* the route of the request, and its handler's answers to errors
    todo,     \* the steps to come
    bg,       \* the steps of its goroutines
    facts,    \* what the request has found out: names of facts, true or false
    did,      \* what it has changed: tables and services, in order
    lost,     \* what it meant to change and failed to, without an error
    answers,  \* the answers it has written
    why,      \* how it ended: by itself, by a refusal, by a failed call or with the process
    faults    \* calls that failed

vars == <<st, route, todo, bg, facts, did, lost, answers, why, faults>>

NoRoute == [name |-> <<"none", "none">>, on |-> Plain]

\* The answers of httpbase, and of gin.
httpbase == [OK |-> 200, BadRequest |-> 400, UnauthorizedError |-> 401,
             Forbidden |-> 403, NotFoundError |-> 404, ServerError |-> 500]

\* Locks of LFS also answer 405 and 409.
Answers == {httpbase[a] : a \in DOMAIN httpbase} \cup {405, 409}

Init ==
    /\ st = "idle"
    /\ route = NoRoute
    /\ todo = << >> /\ bg = << >>
    /\ facts = << >>
    /\ did = << >> /\ lost = {}
    /\ answers = << >>
    /\ why = "none"
    /\ faults = 0

----------------------------------------------------------------------------
\* Facts

\* What a fact about the caller says about others: roles are ordered, and only
\* a user that is logged in has one.
Weaker(f) ==
    CASE f = "admin"  -> {"write", "member", "login"}
      [] f = "write"  -> {"member", "login"}
      [] f = "member" -> {"login"}
      [] OTHER        -> {}

Roles == {"admin", "write", "member", "login"}

\* The facts that follow when f turns out to be true or false.
Told(f, b) ==
    LET also == IF b THEN Weaker(f) ELSE {g \in Roles : f \in Weaker(g)}
        new  == (also \cup {f}) \ DOMAIN facts
    IN  [g \in DOMAIN facts \cup new |-> IF g \in new THEN b ELSE facts[g]]

\* Nobody is logged in without a header or a session.  A public repository can be read by
\* anyone, a private one by members.
\* A repository without a name is not found.
MayBe(f, b) ==
    /\ f \in DOMAIN facts => facts[f] = b
    /\ f \in Roles /\ b /\ "Authorization header" \in DOMAIN facts =>
          facts["Authorization header"] \/ ("session" \in DOMAIN facts /\ facts["session"])
    /\ f = "repositories" /\ b => ("name of a repository" \in DOMAIN facts => facts["name of a repository"])
    /\ f = "read" =>
          /\ "private" \in DOMAIN facts => (facts["private"] \/ b)
          /\ "member" \in DOMAIN facts => (facts["member"] => b)

----------------------------------------------------------------------------
\* The steps of a request

Running(ops) == st \in {"run", "after"} /\ todo # << >> /\ Head(todo).op \in ops

Name == CHOOSE f \in Head(todo).on : TRUE

\* A request begins at its route.
Begin(r) ==
    /\ st = "idle"
    /\ st' = "run"
    /\ route' = [name |-> r.name, on |-> r.h.on]
    /\ todo' = r.h.run
    /\ UNCHANGED <<bg, facts, did, lost, answers, why, faults>>

\* The parts of a step that could still be run: not a branch that contradicts
\* what the request knows, nor what is done after an error.
Parts(s) ==
    CASE s.op \in {"if", "find"} ->
            {s.alts[k] : k \in {j \in 1 .. 2 : \A f \in s.on : MayBe(f, j = 1)}}
      [] s.op = "try" -> {s.alts[1]}
      [] s.op \in {"endtry", "endas"} -> {}
      [] OTHER -> {s.alts[k] : k \in DOMAIN s.alts}

\* What the writes among the steps of p, and in their parts, would have changed.
RECURSIVE Changed(_)
Changed(p) == UNION {IF p[i].op \in Writes THEN p[i].on
                     ELSE UNION {Changed(q) : q \in Parts(p[i])} : i \in DOMAIN p}

Status(e) == IF e \in DOMAIN httpbase THEN httpbase[e]
             ELSE IF e \in DOMAIN route.on THEN route.on[e] ELSE 500

At(op) == {i \in DOMAIN todo : todo[i].op = op}
First(S) == CHOOSE i \in S : \A j \in S : i <= j
Last(S)  == CHOOSE i \in S : \A j \in S : j <= i

\* A step does not succeed: the innermost Try ends, or the request is answered.
\* Nobody answers for a goroutine.
Leave(reason) ==
    IF At("endtry") # {}
    THEN /\ LET i == First(At("endtry")) IN
            /\ todo' = todo[i].alts[1] \o SubSeq(todo, i + 1, Len(todo))
            /\ lost' = lost \cup (Changed(SubSeq(todo, 1, i)) \ Changed(todo[i].alts[1]))
         /\ UNCHANGED <<answers, why>>
    ELSE /\ todo' = << >>
         /\ IF st = "after"
            THEN /\ lost' = lost \cup Changed(todo)
                 /\ UNCHANGED <<answers, why>>
            ELSE LET e == IF At("endas") # {} THEN todo[Last(At("endas"))].err
                          ELSE Head(todo).err
                 IN  /\ answers' = Append(answers, Status(e))
                     /\ why' = reason
                     /\ UNCHANGED lost

\* A condition holds, or the request is refused.
Check ==
    /\ Running({"check"})
    /\ \E b \in BOOLEAN :
          /\ MayBe(Name, b)
          /\ facts' = Told(Name, b)
          /\ IF b THEN todo' = Tail(todo) /\ UNCHANGED <<lost, answers, why>>
                  ELSE Leave("refused")
    /\ UNCHANGED <<st, route, bg, did, faults>>

\* The code returns an error of its own.
Return ==
    /\ Running({"refuse"})
    /\ Leave("refused")
    /\ UNCHANGED <<st, route, bg, facts, did, faults>>

\* A row is found, or it is not there.
Seen(b) ==
    IF Head(todo).op \in {"lookany", "findany"} THEN UNCHANGED facts
    ELSE MayBe(Name, b) /\ facts' = Told(Name, b)

LookUp ==
    /\ Running({"look", "lookany"})
    /\ \E b \in BOOLEAN :
          /\ Seen(b)
          /\ IF b THEN todo' = Tail(todo) /\ UNCHANGED <<lost, answers, why>>
                  ELSE Leave("refused")
    /\ UNCHANGED <<st, route, bg, did, faults>>

\* A branch on a fact or on whether a row is there.
Decide ==
    /\ Running({"if", "find", "findany", "probe"})
    /\ \E b \in BOOLEAN :
          /\ Seen(b)
          /\ todo' = Head(todo).alts[IF b THEN 1 ELSE 2] \o Tail(todo)
    /\ UNCHANGED <<st, route, bg, did, lost, answers, why, faults>>

\* A call that only reads.
Read ==
    /\ Running({"scan", "ask"})
    /\ todo' = Tail(todo)
    /\ UNCHANGED <<st, route, bg, facts, did, lost, answers, why, faults>>

\* A call that changes something: a row is there afterwards, or it is gone.
Write ==
    /\ Running(Writes)
    /\ todo' = Tail(todo)
    /\ did' = Append(did, [op |-> Head(todo).op, on |-> Head(todo).on])
    /\ facts' = [f \in DOMAIN facts \cup Head(todo).on |->
                    IF f \in Head(todo).on THEN Head(todo).op # "delete" ELSE facts[f]]
    /\ UNCHANGED <<st, route, bg, lost, answers, why, faults>>

\* A call that fails; it changes nothing.
Fail ==
    /\ Running({"look", "lookany", "find", "findany", "scan", "ask"} \cup Writes)
    /\ faults < MaxFaults
    /\ faults' = faults + 1
    /\ Leave("fault")
    /\ UNCHANGED <<st, route, bg, facts, did>>

\* The code goes on as if there were no row, whether there is one or not.
Unseen ==
    /\ Running({"probe"})
    /\ faults < MaxFaults
    /\ faults' = faults + 1
    /\ todo' = Head(todo).alts[2] \o Tail(todo)
    /\ \E b \in BOOLEAN :
          /\ Seen(b)
          /\ lost' = IF b THEN lost \cup Changed(Head(todo).alts[1]) ELSE lost
    /\ UNCHANGED <<st, route, bg, did, answers, why>>

\* Branches on data, and the parts of a program whose errors are treated apart.
Branch ==
    /\ Running({"either", "try", "as"})
    /\ LET s == Head(todo) IN
       CASE s.op = "either" -> \E i \in DOMAIN s.alts : todo' = s.alts[i] \o Tail(todo)
         [] s.op = "try" -> todo' = s.alts[1] \o Ends("endtry", "other", s.alts[2]) \o Tail(todo)
         [] s.op = "as"  -> todo' = s.alts[1] \o Ends("endas", s.err, Skip) \o Tail(todo)
    /\ UNCHANGED <<st, route, bg, facts, did, lost, answers, why, faults>>

\* Such a part has come to its end.
EndPart ==
    /\ Running({"endtry", "endas"})
    /\ todo' = Tail(todo)
    /\ UNCHANGED <<st, route, bg, facts, did, lost, answers, why, faults>>

\* A goroutine is started.
Spawn ==
    /\ Running({"go"})
    /\ todo' = Tail(todo)
    /\ bg' = bg \o Head(todo).alts[1]
    /\ UNCHANGED <<st, route, facts, did, lost, answers, why, faults>>

\* An answer after which the code goes on.
Say ==
    /\ Running({"says"})
    /\ todo' = Tail(todo)
    /\ answers' = Append(answers, Status(Head(todo).err))
    /\ UNCHANGED <<st, route, bg, facts, did, lost, why, faults>>

\* The process ends, and nobody answers.
Panic ==
    /\ Running({"crash"})
    /\ st' = "done"
    /\ todo' = << >> /\ bg' = << >>
    /\ why' = "crash"
    /\ lost' = lost \cup Changed(todo) \cup Changed(bg)
    /\ UNCHANGED <<route, facts, did, answers, faults>>

\* The program has ended: the request is answered, and its goroutines go on.
Finish ==
    /\ st = "run"
    /\ todo = << >>
    /\ answers' = IF why = "none" /\ \A i \in DOMAIN answers : answers[i] # httpbase.OK
                  THEN Append(answers, httpbase.OK) ELSE answers
    /\ st' = IF bg = << >> THEN "done" ELSE "after"
    /\ todo' = bg
    /\ bg' = << >>
    /\ UNCHANGED <<route, facts, did, lost, why, faults>>

EndOfGoroutine ==
    /\ st = "after"
    /\ todo = << >>
    /\ st' = "done"
    /\ UNCHANGED <<route, todo, bg, facts, did, lost, answers, why, faults>>

\* The next request finds nothing of this one.
Close ==
    /\ st = "done"
    /\ st' = "idle"
    /\ route' = NoRoute
    /\ facts' = << >> /\ did' = << >> /\ lost' = {} /\ answers' = << >>
    /\ why' = "none" /\ faults' = 0
    /\ UNCHANGED <<todo, bg>>

Next ==
    \/ \E r \in Routes : Begin(r)
    \/ Check \/ Return \/ LookUp \/ Decide \/ Read \/ Write \/ Fail \/ Unseen
    \/ Branch \/ EndPart \/ Spawn \/ Say \/ Panic
    \/ Finish \/ EndOfGoroutine \/ Close

Spec == Init /\ [][Next]_vars

----------------------------------------------------------------------------
\* Properties

\* Routes whose errors are partly only logged, and what they lose then.
MayLose(n) ==
    CASE n \in {<<"repository", "UpdateFile">>, <<"prompts", "UpdatePrompt">>, <<"prompts", "DeletePrompt">>} ->
            {"tags", "repository_tags", "repositories"}
      [] n \in {<<"repository", "CreateFile">>, <<"repository", "UploadFile">>, <<"prompts", "CreatePrompt">>} ->
            {"tags", "repository_tags", "repositories", "git file"}
      [] n[1] \in {"mirror", "repository"} -> {"queue of mirrors"}
      [] n[1] \in {"architecture", "runtime_framework"} ->
            {"runtime_architectures", "repositories_runtime_frameworks", "repository_tags"}
      [] n \in {<<"models", o>> : o \in {"DeployDedicated", "DeployServerless", "FinetuneCreate",
                                         "DeployStart", "FinetuneStart", "ServerlessStart"}}
               \cup {<<"spaces", "Run">>} -> {"deploy_tasks", "queue of tasks"}
      [] n \in {<<"models", o>> : o \in {"DeployStop", "FinetuneStop", "ServerlessStop",
                                         "DeployDelete", "FinetuneDelete"}} -> {"instance"}
      [] n = <<"spaces", "Delete">> -> {"instance", "deploys"}
      [] n = <<"git", "LfsUpload">> -> {"object"}
      [] n \in {<<"runner", "RunService">>, <<"runner", "StopService">>} -> {"pods"}
      [] n = <<"runner", "PurgeService">>  -> {"knative services", "pods"}
      [] n = <<"runner", "UpdateCluster">> -> {"cluster_infos"}
      [] n = <<"user service", "callback/casdoor">> -> {"access_tokens", "gitea token", "users"}
      [] OTHER -> {}

\* A request that was answered 200 has done all it was for.  Where a component
\* only logs an error (tags of files, tasks of a deployment, a git token at the
\* first sign-in, an instance that does not stop, a service that cannot be read
\* and is taken for purged) what is lost is known.
OkMeansDone ==
    (st = "done" /\ answers = <<httpbase.OK>> /\ route.name[1] # "job") => lost \subseteq MayLose(route.name)

\* A request that was answered with one of the 400s has changed nothing: what
\* is asked of the caller and of the request is asked before the first write.
\* Only an upload of several files checks each file when it comes to it, and a
\* service is removed before the request for its successor is checked.
RejectedChangesNothing ==
    \A i \in DOMAIN answers :
        (answers[i] \in 400 .. 499
           /\ route.name \notin {<<"repository", "UploadFile">>, <<"runner", "RunService">>}) => did = << >>

\* The tree of a repository is made before its row and is gone before it: no
\* request leaves a row without a tree, whichever of its calls fails.  Only the
\* copy from another server makes rows first; its trees come with the mirror.
TreeBeforeRow ==
    \A i \in DOMAIN did :
        ("repositories" \in did[i].on /\ did[i].op \in {"insert", "delete"}
           /\ route.name # <<"job", "SyncAsClient">>)
        => \E j \in 1 .. i - 1 : did[j] = [op |-> did[i].op, on |-> {"git repository"}]

\* After an error was answered the request writes nothing more: every handler
\* returns, or what it goes on with cannot succeed.
AnsweredIsOver ==
    [][(\E i \in DOMAIN answers : answers[i] # httpbase.OK) /\ st = "run" => did' = did]_vars
=============================================================================
