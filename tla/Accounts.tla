------------------------------ MODULE Accounts ------------------------------
(***************************************************************************)
(* The user service (user/): sign-in by Casdoor, profiles and user names,  *)
(* namespaces, organizations and their members, access tokens and the      *)
(* workflow that deletes a user.  Requests run at the same time; each      *)
(* reads rows, calls the git server and writes rows back.  The git server  *)
(* is Gitea or Gitaly; with Gitaly it keeps nothing about users.           *)
(***************************************************************************)
EXTENDS Integers, Sequences, FiniteSets, FiniteSetsExt

CONSTANTS
  Clients,   \* requests at the same time
  Persons,   \* the users of Casdoor, by their UUID
  CasName,   \* the user name of a person in Casdoor
  Wechat,    \* those who come by WeChat: a generated name and no email
  Names,     \* user names and names of organizations
  Parts,     \* how many organizations Gitea has for a name (four in the code)
  MaxTries,  \* MaximumAttempts of the deletion workflow (three in the code)
  MaxID,     \* bound on the IDs of rows
  Loads      \* the kinds of behaviour to look at, one of which Init chooses

ASSUME AccountsAssumption ==
  /\ CasName \in [Persons -> Names] /\ Wechat \subseteq Persons
  \* genUniqueName gives names that nobody else has.
  /\ \A p \in Wechat, q \in Persons \ Wechat : CasName[p] # CasName[q]
  /\ Parts \in Nat /\ MaxTries \in Nat \ {0} /\ MaxID \in Nat
  /\ \A l \in Loads : /\ l.clients \subseteq Clients /\ l.known \in Seq(Persons) /\ Len(l.known) <= MaxID
                      /\ \A i, j \in DOMAIN l.known :
                           CasName[l.known[i]] = CasName[l.known[j]] => i = j
                      /\ l.gitea \in BOOLEAN /\ l.calls \in Nat /\ l.faults \in Nat

VARIABLES
  users,     \* table users: mail, admin and rename stand for email # "", CanAdmin
             \* and can_change_user_name
  spaces,    \* table namespaces
  orgs,      \* table organizations
  members,   \* table members, which has no unique index
  tokens,    \* table access_tokens: a token's value is unique, its ID stands for it;
             \* key stands for its name and application
  lastID,    \* the ID given last; the tables' sequences are one here
  git,       \* external: Gitea, <<name, 0>> is a user and <<name, i>> an organization
  gitTokens, \* external: the tokens of Gitea
  req,       \* the requests, and what their goroutines have left to do
  jobs,      \* the runs of UserDeletionWorkflow
  doomed,    \* history: the users whose deletion was accepted
  stale,     \* history: a row of users was written back with a name that it had no more
  refreshed, \* history: the tokens for which a Refresh has given a new one
  claimed,   \* history: the UUIDs that a profile update was to write to the row of another
  load, calls, faults

tables == <<users, spaces, orgs, members, tokens, lastID>>
gitVars == <<git, gitTokens>>
rest == <<load, calls, claimed>>
vars == <<tables, gitVars, req, jobs, doomed, stale, refreshed, load, calls, claimed, faults>>

Idle == [pc |-> "idle"]
Keys == {"auto", "git", "starship"}  \* "auto": the token of the first sign-in
AppGit(k) == k # "starship"
Roles == {"admin", "read"}

Row(id, p, n, mail, rename) ==
  [id |-> id, name |-> n, uuid |-> p, mail |-> mail, admin |-> FALSE, rename |-> rename]

\* Some persons have signed in before; the first is an administrator of the hub.
Init ==
  /\ load \in Loads
  /\ LET known == load.known
         mail(i) == known[i] \notin Wechat
     IN  /\ users = {[Row(i, known[i], CasName[known[i]], mail(i), ~mail(i))
                      EXCEPT !.admin = (i = 1)] : i \in DOMAIN known}
         /\ spaces = {[path |-> CasName[known[i]], user |-> i, kind |-> "user"] : i \in DOMAIN known}
         /\ lastID = Len(known)
         /\ git = IF load.gitea THEN {CasName[known[i]] : i \in {k \in DOMAIN known : mail(k)}} \X (0..Parts)
                  ELSE {}
  /\ orgs = {} /\ members = {} /\ tokens = {}
  /\ gitTokens = {}
  /\ req = [c \in Clients |-> Idle] /\ jobs = {} /\ doomed = {} /\ stale = FALSE /\ refreshed = {}
  /\ claimed = {} /\ calls = 0 /\ faults = 0

NoFault == UNCHANGED faults
Fault == faults < load.faults /\ faults' = faults + 1

Begin(c, op) ==
  /\ req[c].pc = "idle" /\ c \in load.clients
  /\ op \in load.ops /\ calls < load.calls /\ calls' = calls + 1
  /\ NoFault /\ UNCHANGED <<tables, gitVars, jobs, doomed, stale, refreshed, load>>
Start(c, op) == Begin(c, op) /\ UNCHANGED claimed

At(c, pc) == req[c].pc = pc
Then(c, r) == req' = [req EXCEPT ![c] = r]
Goto(c, pc) == req' = [req EXCEPT ![c].pc = pc]
End(c) == Then(c, Idle)

\* The rows that a step does not touch.
OnlyUsers == UNCHANGED <<orgs, members, tokens, gitVars, jobs, doomed, refreshed, rest>>
OnlyOrgs == UNCHANGED <<users, members, tokens, gitVars, jobs, doomed, stale, refreshed, rest>>
OnlyMembers == UNCHANGED <<users, spaces, orgs, tokens, gitVars, jobs, doomed, stale, refreshed, rest>>
OnlyTokens == UNCHANGED <<users, spaces, orgs, members, gitVars, jobs, doomed, stale, rest>>
OnlyGit == UNCHANGED <<tables, jobs, doomed, stale, refreshed, rest>>
OnlyReq == UNCHANGED <<tables, gitVars, jobs, doomed, stale, refreshed, rest>>

NewID == lastID < MaxID /\ lastID' = lastID + 1
FindByUsername(n) == {u \in users : u.name = n}
UserNames == {u.name : u \in users}
Paths == {s.path : s \in spaces}

\* A step that ends the request when the database or the git server fails.
OrFail(c) == End(c) /\ Fault

----------------------------------------------------------------------------
(* The git server.  Gitea has a user and several organizations for a name and      *)
(* refuses what is already there; what was created before a failure stays.         *)

GitCreate(c, name, parts, then) ==
  LET taken == {i \in parts : <<name, i>> \in git}
      made(k) == git' = git \cup ({name} \X {i \in parts : i < k})
  IN  /\ \/ ~load.gitea /\ UNCHANGED git /\ Goto(c, then) /\ NoFault
         \/ load.gitea /\ taken = {} /\ made(Parts + 1) /\ Goto(c, then) /\ NoFault
         \/ load.gitea /\ taken # {} /\ made(Min(taken)) /\ End(c) /\ NoFault
         \/ load.gitea /\ taken = {} /\ (\E k \in 0..(Parts + 1) : made(k)) /\ OrFail(c)
      /\ UNCHANGED gitTokens /\ OnlyGit

----------------------------------------------------------------------------
(* Users. *)

\* A person who has no row gets one, others get the time of their sign-in updated.
Signin(c) ==
  /\ Start(c, "signin")
  /\ \E p \in Persons :
       \/ \E u \in users : u.uuid = p /\ Then(c, [pc |-> "save", row |-> u])
       \/ /\ \A u \in users : u.uuid # p
          /\ \E n \in Names :
               /\ IF p \in Wechat THEN n \notin UserNames \cup {CasName[q] : q \in Persons}
                  ELSE n = CasName[p]
               /\ Then(c, [pc |-> IF p \in Wechat THEN "adduser" ELSE "gituser",
                           row |-> Row(0, p, n, p \notin Wechat, p \in Wechat)])

CreateGitUser(c) ==
  At(c, "gituser") /\ GitCreate(c, req[c].row.name, 0..Parts, "adduser")

\* The indexes idx_users_username and idx_namespaces_path refuse these.
Taken == UserNames \cup Paths

\* Mutant: who comes too late gets another name.
AddUnderOtherName(c) ==
  /\ At(c, "adduser") /\ NewID /\ End(c) /\ NoFault
  /\ \E n \in Names \ Taken :
       /\ req[c].row.name \notin Taken => n = req[c].row.name
       /\ users' = users \cup {[req[c].row EXCEPT !.id = lastID + 1, !.name = n]}
       /\ spaces' = spaces \cup {[path |-> n, user |-> lastID + 1, kind |-> "user"]}
  /\ UNCHANGED stale /\ OnlyUsers

\* A row and its namespace, in one transaction; a token of Gitea comes later.
AddUser(c) ==
  /\ At(c, "adduser") /\ NewID
  /\ LET n == req[c].row.name
         done == /\ n \notin Taken
                 /\ users' = users \cup {[req[c].row EXCEPT !.id = lastID + 1]}
                 /\ spaces' = spaces \cup {[path |-> n, user |-> lastID + 1, kind |-> "user"]}
     IN  \/ done /\ Then(c, [pc |-> "newtoken", name |-> n, key |-> "auto"]) /\ NoFault
         \/ /\ n \in Taken /\ End(c) /\ NoFault
            /\ UNCHANGED <<users, spaces>>
         \/ (done \/ UNCHANGED <<users, spaces>>) /\ OrFail(c)
  /\ UNCHANGED stale /\ OnlyUsers

\* The UUID is that of the request, whoever has it: the column has no unique index.
setChangedProps(u, what, p) ==
  CASE what = "mail" -> [u EXCEPT !.mail = TRUE, !.rename = FALSE]
    [] what = "roles" -> [u EXCEPT !.admin = ~u.admin]
    [] OTHER -> [u EXCEPT !.uuid = p]

\* Users change their own profile and administrators those of others; roles are
\* changed by others only.  A first email creates the user of the git server.
Update(c) ==
  /\ Begin(c, "update")
  /\ \E u, op \in users, what \in {"mail", "roles", "uuid", "other"}, p \in Persons :
       /\ what = "roles" => op # u
       /\ op # u => op.admin
       /\ what # "uuid" => p = u.uuid
       /\ claimed' = claimed \cup ({p} \ {u.uuid})
       /\ Then(c, [pc |-> IF what # "mail" THEN "save"
                          ELSE IF u.mail THEN "gitupdate" ELSE "gitfirst",
                   row |-> setChangedProps(u, what, p)])

upsertGitUser(c) ==
  \/ At(c, "gitfirst") /\ GitCreate(c, req[c].row.name, 0..Parts, "save")
  \/ /\ At(c, "gitupdate")
     /\ \/ (load.gitea => <<req[c].row.name, 0>> \in git) /\ Goto(c, "save") /\ NoFault
        \/ load.gitea /\ <<req[c].row.name, 0>> \notin git /\ End(c) /\ NoFault
        \/ load.gitea /\ OrFail(c)
     /\ OnlyReq

\* The whole row is written, as it was read: the row may have changed since.
SaveUser(c) ==
  /\ At(c, "save")
  /\ LET row == req[c].row
         now == {u \in users : u.id = row.id}
         write == /\ now # {} /\ \A u \in users \ now : u.name # row.name
                  /\ users' = (users \ now) \cup {row}
                  /\ stale' = (stale \/ \E u \in now : u.name # row.name)
     IN  /\ End(c)
         /\ \/ write /\ NoFault
            \/ /\ now = {} \/ \E u \in users \ now : u.name = row.name
               /\ UNCHANGED <<users, stale>> /\ NoFault
            \/ (write \/ UNCHANGED <<users, stale>>) /\ Fault
  /\ UNCHANGED <<spaces, lastID>> /\ OnlyUsers

ChangeUserName(c) ==
  /\ Start(c, "rename")
  /\ \E u \in users, n \in Names :
       /\ u.rename /\ n \notin UserNames
       /\ Then(c, [pc |-> "rename", old |-> u.name, new |-> n])

\* Mutant: the namespace keeps its path.
RenameUserOnly(c) ==
  /\ FindByUsername(req[c].old) # {} /\ req[c].new \notin Taken
  /\ users' = {IF u.name = req[c].old THEN [u EXCEPT !.name = req[c].new, !.rename = FALSE]
               ELSE u : u \in users}
  /\ UNCHANGED spaces

\* Namespace and user, in one transaction: each must be there, and its new name free.
CanRename(c) ==
  /\ req[c].old \in Paths /\ FindByUsername(req[c].old) # {}
  /\ req[c].new \notin Taken

RenameTx(c) ==
  /\ CanRename(c)
  /\ spaces' = {IF s.path = req[c].old THEN [s EXCEPT !.path = req[c].new] ELSE s : s \in spaces}
  /\ users' = {IF u.name = req[c].old THEN [u EXCEPT !.name = req[c].new, !.rename = FALSE]
               ELSE u : u \in users}

Rename(c) ==
  /\ At(c, "rename") /\ End(c)
  /\ \/ RenameTx(c) /\ NoFault
     \/ ~CanRename(c) /\ UNCHANGED <<users, spaces>> /\ NoFault
     \/ (RenameTx(c) \/ UNCHANGED <<users, spaces>>) /\ Fault
  /\ UNCHANGED <<lastID, stale>> /\ OnlyUsers

----------------------------------------------------------------------------
(* Deletion of a user, by a workflow of Temporal.  Deployments and bills, which *)
(* also keep a user from being deleted, are not modelled.                       *)

Delete(c) ==
  /\ req[c].pc = "idle" /\ c \in load.clients
  /\ "delete" \in load.ops /\ calls < load.calls /\ calls' = calls + 1
  /\ \E u, op \in users :
       /\ op.admin /\ ~u.admin /\ \A o \in orgs : o.user # u.id
       /\ jobs' = jobs \cup {[no |-> calls, name |-> u.name, user |-> u.id, tries |-> 0,
                              found |-> 0]}
       /\ doomed' = doomed \cup {u.id}
  /\ NoFault /\ UNCHANGED <<tables, gitVars, req, stale, refreshed, load, claimed>>

\* Mutant: no attempt is repeated.
GiveUp(j) == jobs' = jobs \ {j}

\* An attempt has failed.
Tried(j) ==
  jobs' = (jobs \ {j}) \cup
          (IF j.tries + 1 < MaxTries THEN {[j EXCEPT !.tries = @ + 1, !.found = 0]} ELSE {})

DeleteFind(j) ==
  /\ j.found = 0
  /\ \/ /\ \E u \in FindByUsername(j.name) : jobs' = (jobs \ {j}) \cup {[j EXCEPT !.found = u.id]}
        /\ NoFault
     \/ FindByUsername(j.name) = {} /\ Tried(j) /\ NoFault
     \/ Tried(j) /\ Fault
  /\ UNCHANGED <<tables, gitVars, req, doomed, stale, refreshed, rest>>

\* One transaction.  The attempt fails even so: the client of Casdoor was never made.
DeleteUserAndRelations(j) ==
  /\ j.found # 0 /\ Tried(j)
  /\ LET there == FindByUsername(j.name) # {} /\ \E u \in users : u.id = j.found
         gone == /\ there
                 /\ users' = {u \in users : u.id # j.found}
                 /\ spaces' = {s \in spaces : s.user # j.found}
                 /\ orgs' = {o \in orgs : o.user # j.found}
                 /\ members' = {m \in members : m.user # j.found}
                 /\ tokens' = {t \in tokens : t.user # j.found}
         kept == UNCHANGED <<users, spaces, orgs, members, tokens>>
     IN  \/ gone /\ NoFault
         \/ ~there /\ kept /\ NoFault
         \/ (gone \/ kept) /\ Fault
  /\ UNCHANGED <<lastID, gitVars, req, doomed, stale, refreshed, rest>>

----------------------------------------------------------------------------
(* Organizations. *)

CreateOrg(c) ==
  /\ Start(c, "org")
  /\ \E u \in users, n \in Names \ Paths :
       Then(c, [pc |-> "gitorg", path |-> n, user |-> u.id, name |-> u.name, org |-> 0])

\* In Gitea only a user of it can own an organization.
CreateOrganization(c) ==
  /\ At(c, "gitorg")
  /\ \/ /\ load.gitea => <<req[c].name, 0>> \in git
        /\ GitCreate(c, req[c].path, 1..Parts, "addorg")
     \/ load.gitea /\ <<req[c].name, 0>> \notin git /\ End(c) /\ NoFault /\ OnlyReq

AddOrg(c) ==
  /\ At(c, "addorg") /\ NewID
  /\ LET p == req[c].path
         free == p \notin Paths /\ \A o \in orgs : o.path # p
         done == /\ free
                 /\ orgs' = orgs \cup {[id |-> lastID + 1, path |-> p, user |-> req[c].user]}
                 /\ spaces' = spaces \cup {[path |-> p, user |-> req[c].user, kind |-> "organization"]}
     IN  \/ done /\ Then(c, [req[c] EXCEPT !.pc = "setadmin", !.org = lastID + 1]) /\ NoFault
         \/ ~free /\ End(c) /\ UNCHANGED <<orgs, spaces>> /\ NoFault
         \/ (done \/ UNCHANGED <<orgs, spaces>>) /\ OrFail(c)
  /\ OnlyOrgs

Member(o, u, r) == [id |-> lastID + 1, org |-> o, user |-> u, role |-> r]

\* Roles and member; the organization stays when they cannot be created.
SetAdmin(c) ==
  /\ At(c, "setadmin") /\ End(c) /\ NewID
  /\ LET add == members' = members \cup {Member(req[c].org, req[c].user, "admin")}
     IN  (add /\ NoFault) \/ ((add \/ UNCHANGED members) /\ Fault)
  /\ OnlyMembers

MembersOf(o, u) == {m \in members : m.org = o.id /\ m.user = u.id}
GetMemberRole(o, u, r) == \E m \in MembersOf(o, u) : m.role = r

DeleteOrg(c) ==
  /\ Start(c, "unorg")
  /\ \E o \in orgs, op \in users : /\ GetMemberRole(o, op, "admin")
                                   /\ Then(c, [pc |-> "gitunorg", path |-> o.path])

DeleteOrganization(c) ==
  /\ At(c, "gitunorg")
  /\ LET missing == {i \in 1..Parts : <<req[c].path, i>> \notin git}
         removed(k) == git' = git \ ({req[c].path} \X (1..(k - 1)))
     IN  \/ ~load.gitea /\ Goto(c, "unorg") /\ UNCHANGED git /\ NoFault
         \/ load.gitea /\ missing = {} /\ removed(Parts + 1) /\ Goto(c, "unorg") /\ NoFault
         \/ load.gitea /\ missing # {} /\ removed(Min(missing)) /\ End(c) /\ NoFault
         \/ load.gitea /\ missing = {} /\ (\E k \in 1..(Parts + 1) : removed(k)) /\ OrFail(c)
  /\ UNCHANGED gitTokens /\ OnlyGit

\* Its members stay in their table, and can be found no more.
RemoveOrg(c) ==
  /\ At(c, "unorg") /\ End(c)
  /\ LET p == req[c].path
         there == p \in Paths /\ \E o \in orgs : o.path = p
         gone == /\ there
                 /\ orgs' = {o \in orgs : o.path # p}
                 /\ spaces' = {s \in spaces : s.path # p}
     IN  \/ gone /\ NoFault
         \/ ~there /\ UNCHANGED <<orgs, spaces>> /\ NoFault
         \/ (gone \/ UNCHANGED <<orgs, spaces>>) /\ Fault
  /\ UNCHANGED lastID /\ OnlyOrgs

----------------------------------------------------------------------------
(* Members. *)

\* Administrators of the organization add who is no member yet.
AllowAdd(o, op, u) == GetMemberRole(o, op, "admin") /\ MembersOf(o, u) = {}

AddMembers(c) ==
  /\ Start(c, "member")
  /\ \E o \in orgs, op, u \in users, r \in Roles :
       /\ AllowAdd(o, op, u)
       /\ Then(c, [pc |-> "addmember", org |-> o.id, user |-> u.id, role |-> r])

\* The call of the git server that follows changes nothing here.
AddMember(c) ==
  /\ At(c, "addmember") /\ End(c) /\ NewID
  /\ LET add == members' = members \cup {Member(req[c].org, req[c].user, req[c].role)}
     IN  (add /\ NoFault) \/ ((add \/ UNCHANGED members) /\ Fault)
  /\ OnlyMembers

\* ChangeMemberRole deletes the member and adds it with the new role.
DeleteMember(c) ==
  /\ Start(c, "unmember")
  /\ \E o \in orgs, op, u \in users, old \in Roles, new \in Roles \cup {"none"} :
       /\ GetMemberRole(o, op, "admin")
       /\ Then(c, [pc |-> IF MembersOf(o, u) # {} THEN "delmember"
                          ELSE IF new # "none" THEN "readd" ELSE "idle",
                   path |-> o.path, org |-> o.id, user |-> u.id, name |-> u.name,
                   op |-> op.name, role |-> old, new |-> new])

\* Gitea fails when the user is not in the team of the role.
RemoveMember(c) ==
  /\ At(c, "delmember")
  /\ LET r == req[c]
         match == {m \in members : m.org = r.org /\ m.user = r.user /\ m.role = r.role}
         known == match # {} /\ <<r.name, 0>> \in git
         done == members' = members \ match
     IN  \/ /\ done /\ NoFault
            /\ IF r.new # "none" /\ (load.gitea => known) THEN Goto(c, "readd") ELSE End(c)
         \/ (done \/ UNCHANGED members) /\ OrFail(c)
  /\ UNCHANGED lastID /\ OnlyMembers

\* All of AddMembers: the operator may have removed itself.
ReAdd(c) ==
  /\ At(c, "readd")
  /\ LET r == req[c]
         allowed == \E o \in orgs, op, u \in users :
                      /\ o.path = r.path /\ op.name = r.op /\ u.name = r.name
                      /\ AllowAdd(o, op, u)
                      /\ Then(c, [pc |-> "addmember", org |-> o.id, user |-> u.id,
                                  role |-> r.new])
     IN  \/ allowed /\ NoFault
         \/ /\ \A o \in orgs, op, u \in users :
                 o.path = r.path /\ op.name = r.op /\ u.name = r.name => ~AllowAdd(o, op, u)
            /\ End(c) /\ NoFault
         \/ OrFail(c)
  /\ OnlyReq

----------------------------------------------------------------------------
(* Access tokens. *)

TokensOf(id, k) == {t \in tokens : t.user = id /\ t.key = k}
Active(ts) == {t \in ts : t.active}

CreateToken(c) ==
  /\ Start(c, "token")
  /\ \E u \in users, k \in Keys \ {"auto"} :
       Then(c, [pc |-> "newtoken", name |-> u.name, key |-> k])

\* Of the user and tokens found; Gitea makes the value of a git token.
NewToken(c) ==
  /\ At(c, "newtoken")
  /\ LET n == req[c].name  k == req[c].key
         here == AppGit(k) /\ load.gitea
         bad(u) == \/ TokensOf(u.id, k) # {}
                   \/ here /\ (<<n, 0>> \notin git \/ <<n, k>> \in gitTokens)
         made == gitTokens' = IF here THEN gitTokens \cup {<<n, k>>} ELSE gitTokens
     IN  \/ \E u \in FindByUsername(n) :
              /\ ~bad(u)
              /\ \/ made /\ Then(c, [pc |-> "addtoken", user |-> u.id, key |-> k]) /\ NoFault
                 \/ (made \/ UNCHANGED gitTokens) /\ OrFail(c)
         \/ (\A u \in FindByUsername(n) : bad(u)) /\ End(c) /\ UNCHANGED gitTokens /\ NoFault
  /\ UNCHANGED git /\ OnlyGit

Token(c) == [id |-> lastID + 1, user |-> req[c].user, key |-> req[c].key, active |-> TRUE]

AddToken(c) ==
  /\ At(c, "addtoken") /\ End(c) /\ NewID
  /\ LET add == tokens' = tokens \cup {Token(c)}
     IN  (add /\ NoFault) \/ ((add \/ UNCHANGED tokens) /\ Fault)
  /\ UNCHANGED refreshed /\ OnlyTokens

DeleteToken(c) ==
  /\ Start(c, "untoken")
  /\ \E u \in users, k \in Keys : /\ TokensOf(u.id, k) # {}
                                  /\ Then(c, [pc |-> "gituntoken", name |-> u.name, key |-> k])

DeleteUserToken(c) ==
  /\ At(c, "gituntoken")
  /\ LET t == <<req[c].name, req[c].key>>
         here == AppGit(req[c].key) /\ load.gitea
     IN  \/ (here => t \in gitTokens) /\ gitTokens' = gitTokens \ {t} /\ Goto(c, "untoken") /\ NoFault
         \/ here /\ t \notin gitTokens /\ End(c) /\ UNCHANGED gitTokens /\ NoFault
         \/ here /\ gitTokens' \in {gitTokens, gitTokens \ {t}} /\ OrFail(c)
  /\ UNCHANGED git /\ OnlyGit

RemoveToken(c) ==
  /\ At(c, "untoken") /\ End(c)
  /\ LET gone == tokens' = tokens \ UNION {TokensOf(u.id, req[c].key) : u \in FindByUsername(req[c].name)}
     IN  (gone /\ NoFault) \/ ((gone \/ UNCHANGED tokens) /\ Fault)
  /\ UNCHANGED <<lastID, refreshed>> /\ OnlyTokens

RefreshToken(c) ==
  /\ Start(c, "refresh")
  /\ \E u \in users, k \in Keys : \E t \in Active(TokensOf(u.id, k)) :
       Then(c, [pc |-> "gitrefresh", name |-> u.name, user |-> u.id, key |-> k, token |-> t.id,
                seen |-> {}])

\* Gitea gives a name to one token only: the old one is deleted first.
RefreshUserToken(c) ==
  /\ At(c, "gitrefresh")
  /\ LET t == <<req[c].name, req[c].key>>
         here == AppGit(req[c].key) /\ load.gitea
     IN  \/ (here => t \in gitTokens) /\ Goto(c, "disable") /\ UNCHANGED gitTokens /\ NoFault
         \/ here /\ t \notin gitTokens /\ End(c) /\ UNCHANGED gitTokens /\ NoFault
         \/ here /\ gitTokens' \in {gitTokens, gitTokens \ {t}} /\ OrFail(c)
  /\ UNCHANGED git /\ OnlyGit

\* The first statement of the transaction sees the tokens committed by now.
Disable(c) ==
  /\ At(c, "disable")
  /\ Then(c, [req[c] EXCEPT !.pc = "refresh",
                            !.seen = {t.id : t \in Active(TokensOf(req[c].user, req[c].key))}])
  /\ NoFault /\ OnlyReq

\* Mutant: the old token is left alone.
InsertOnly(c) == tokens

Disabled(c) == {IF t.id \in req[c].seen THEN [t EXCEPT !.active = FALSE] ELSE t : t \in tokens}

\* It is committed, and answered.
Refresh(c) ==
  /\ At(c, "refresh") /\ End(c) /\ NewID
  /\ LET done == tokens' = Disabled(c) \cup {Token(c)}
     IN  \/ done /\ refreshed' = refreshed \cup {req[c].token} /\ NoFault
         \/ (done \/ UNCHANGED tokens) /\ UNCHANGED refreshed /\ Fault
  /\ OnlyTokens

\* The value of a token is accepted.
Check(id) == \E t \in tokens : t.id = id /\ t.active

----------------------------------------------------------------------------
Request(c) ==
  \/ Signin(c) \/ Update(c) \/ ChangeUserName(c) \/ Delete(c) \/ CreateOrg(c) \/ DeleteOrg(c)
  \/ AddMembers(c) \/ DeleteMember(c) \/ CreateToken(c) \/ DeleteToken(c) \/ RefreshToken(c)

Work(c) ==
  \/ CreateGitUser(c) \/ AddUser(c) \/ upsertGitUser(c) \/ SaveUser(c) \/ Rename(c)
  \/ CreateOrganization(c) \/ AddOrg(c) \/ SetAdmin(c) \/ DeleteOrganization(c) \/ RemoveOrg(c)
  \/ AddMember(c) \/ RemoveMember(c) \/ ReAdd(c)
  \/ NewToken(c) \/ AddToken(c) \/ DeleteUserToken(c) \/ RemoveToken(c)
  \/ RefreshUserToken(c) \/ Disable(c) \/ Refresh(c)

UserDeletionWorkflow == \E j \in jobs : DeleteFind(j) \/ DeleteUserAndRelations(j)

Next == (\E c \in Clients : Request(c) \/ Work(c)) \/ UserDeletionWorkflow

Spec == Init /\ [][Next]_vars

\* Temporal goes on with a workflow.
LiveSpec == Spec /\ WF_vars(UserDeletionWorkflow)

----------------------------------------------------------------------------
(* Properties. *)

IDs == 0..MaxID

\* Rows have IDs that were given, and belong to users and organizations that once were.
TypeOK ==
  /\ users \subseteq [id : 1..lastID, name : Names, uuid : Persons, mail : BOOLEAN,
                      admin : BOOLEAN, rename : BOOLEAN]
  /\ spaces \subseteq [path : Names, user : 1..lastID, kind : {"user", "organization"}]
  /\ orgs \subseteq [id : 1..lastID, path : Names, user : 1..lastID]
  /\ members \subseteq [id : 1..lastID, org : 1..lastID, user : 1..lastID, role : Roles]
  /\ tokens \subseteq [id : 1..lastID, user : 1..lastID, key : Keys, active : BOOLEAN]
  /\ lastID \in IDs /\ git \subseteq Names \X (0..Parts) /\ gitTokens \subseteq Names \X Keys
  /\ jobs \subseteq [no : Nat, name : Names, user : 1..lastID, tries : 0..(MaxTries - 1), found : IDs]

\* The name of a user is the path of its namespace, and of nobody else's, and an
\* organization has its namespace, whoever is renamed, created and deleted at the
\* same time, as long as no row of a user was written back with a former name.
NamesAgree ==
  ~stale =>
    /\ \A u \in users : \E s \in spaces : s.path = u.name /\ s.user = u.id /\ s.kind = "user"
    /\ \A o \in orgs : \E s \in spaces : s.path = o.path /\ s.kind = "organization"
    /\ \A s, t \in spaces : s.path = t.path => s = t

\* A person who signs in twice at the same time has one account, except by WeChat:
\* the names of these are generated and nothing tells the sign-ins apart.  Nor does
\* anything keep a profile update from giving the UUID of a person to a second row.
OneAccount ==
  \A u, v \in users : u.uuid = v.uuid /\ u # v => u.uuid \in Wechat \cup claimed

\* A user has one role in an organization when requests come one after the other.
OneRole ==
  Cardinality(load.clients) = 1 =>
    \A m, n \in members : m.org = n.org /\ m.user = n.user => m = n

\* A token that was replaced is never accepted again, whatever else is done with
\* tokens of its name at the same time.
RefreshedIsDead == \A id \in refreshed : ~Check(id)

\* A user whose deletion was accepted is deleted, as long as one of the attempts
\* of the workflow can reach the database, unless users are renamed.
UserGone ==
  "rename" \notin load.ops =>
    []<>((\A u \in users : u.id \notin doomed) \/ faults >= MaxTries)
============================================================================
