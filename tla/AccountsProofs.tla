--------------------------- MODULE AccountsProofs ---------------------------
(***************************************************************************)
(* Proofs about Accounts, for any persons, names, requests at the same     *)
(* time, failures and attempts: a person has one account, a name has one   *)
(* namespace, and a token that was replaced is dead.                       *)
(***************************************************************************)
EXTENDS Accounts, TLAPS

\* A user name of Casdoor stays with the person who has it there, unless a profile
\* update claims the UUID.  Only a person who came by WeChat may change the name,
\* which is then a generated one.
CasNames == {CasName[p] : p \in Persons \ Wechat}
Genuine(u) ==
  /\ u.uuid \notin Wechat \cup claimed => u.name = CasName[u.uuid] /\ ~u.rename
  /\ u.rename => u.name \notin CasNames

\* The rows of the tables and what requests and workflows hold, by the last ID.
UserRow(n) == [id : 1..n, name : Names, uuid : Persons, mail : BOOLEAN,
               admin : BOOLEAN, rename : BOOLEAN]
NewUserRow == [id : {0}, name : Names, uuid : Persons, mail : BOOLEAN,
               admin : BOOLEAN, rename : BOOLEAN]
SpaceRow(n) == [path : Names, user : 1..n, kind : {"user", "organization"}]
OrgRow(n) == [id : 1..n, path : Names, user : 1..n]
MemberRow(n) == [id : 1..n, org : 1..n, user : 1..n, role : Roles]
TokenRow(n) == [id : 1..n, user : 1..n, key : Keys, active : BOOLEAN]
Job(n) == [no : Nat, name : Names, user : 1..n, tries : 0..(MaxTries - 1), found : IDs]

NewUserReq == [pc : {"gituser", "adduser"}, row : NewUserRow]
UserReq(n) == [pc : {"save", "gitfirst", "gitupdate"}, row : UserRow(n)]
RenameReq == [pc : {"rename"}, old : Names, new : Names]
OrgReq(n) == [pc : {"gitorg", "addorg"}, path : Names, user : 1..n, name : Names, org : {0}]
AdminReq(n) == [pc : {"setadmin"}, path : Names, user : 1..n, name : Names, org : 1..n]
UnOrgReq == [pc : {"gitunorg", "unorg"}, path : Names]
MemberReq(n) == [pc : {"addmember"}, org : 1..n, user : 1..n, role : Roles]
UnMemberReq(n) == [pc : {"delmember", "idle"}, path : Names, org : 1..n, user : 1..n,
                   name : Names, op : Names, role : Roles, new : Roles \cup {"none"}]
ReAddReq(n) == [pc : {"readd"}, path : Names, org : 1..n, user : 1..n,
                name : Names, op : Names, role : Roles, new : Roles]
NewTokenReq == [pc : {"newtoken"}, name : Names, key : Keys]
AddTokenReq(n) == [pc : {"addtoken"}, user : 1..n, key : Keys]
UnTokenReq == [pc : {"gituntoken", "untoken"}, name : Names, key : Keys]
RefreshReq(n) == [pc : {"gitrefresh", "disable", "refresh"}, name : Names, user : 1..n,
                  key : Keys, token : 1..n, seen : SUBSET Nat]

ReqState(n) ==
  {Idle} \cup NewUserReq \cup UserReq(n) \cup RenameReq
         \cup OrgReq(n) \cup AdminReq(n) \cup UnOrgReq
         \cup MemberReq(n) \cup UnMemberReq(n) \cup ReAddReq(n)
         \cup NewTokenReq \cup AddTokenReq(n) \cup UnTokenReq \cup RefreshReq(n)

\* A request's record by where the request is.
LEMMA ReqShapes ==
  ASSUME NEW n \in Nat, NEW r \in ReqState(n)
  PROVE  /\ r.pc \in {"gituser", "adduser"} => r \in NewUserReq
         /\ r.pc \in {"save", "gitfirst", "gitupdate"} => r \in UserReq(n)
         /\ r.pc = "rename" => r \in RenameReq
         /\ r.pc \in {"gitorg", "addorg"} => r \in OrgReq(n)
         /\ r.pc = "setadmin" => r \in AdminReq(n)
         /\ r.pc \in {"gitunorg", "unorg"} => r \in UnOrgReq
         /\ r.pc = "addmember" => r \in MemberReq(n)
         /\ r.pc = "delmember" => r \in UnMemberReq(n)
         /\ r.pc = "readd" => r \in ReAddReq(n)
         /\ r.pc = "newtoken" => r \in NewTokenReq
         /\ r.pc = "addtoken" => r \in AddTokenReq(n)
         /\ r.pc \in {"gituntoken", "untoken"} => r \in UnTokenReq
         /\ r.pc \in {"gitrefresh", "disable", "refresh"} => r \in RefreshReq(n)
<1>1. CASE r = Idle
  BY <1>1 DEF Idle
<1>2. CASE r \in NewUserReq
  BY <1>2 DEF NewUserReq
<1>3. CASE r \in UserReq(n)
  BY <1>3 DEF UserReq
<1>4. CASE r \in RenameReq
  BY <1>4 DEF RenameReq
<1>5. CASE r \in OrgReq(n)
  BY <1>5 DEF OrgReq
<1>6. CASE r \in AdminReq(n)
  BY <1>6 DEF AdminReq
<1>7. CASE r \in UnOrgReq
  BY <1>7 DEF UnOrgReq
<1>8. CASE r \in MemberReq(n)
  BY <1>8 DEF MemberReq
<1>9. CASE r \in UnMemberReq(n)
  BY <1>9 DEF UnMemberReq
<1>10. CASE r \in NewTokenReq
  BY <1>10 DEF NewTokenReq
<1>11. CASE r \in AddTokenReq(n)
  BY <1>11 DEF AddTokenReq
<1>12. CASE r \in UnTokenReq
  BY <1>12 DEF UnTokenReq
<1>13. CASE r \in RefreshReq(n)
  BY <1>13 DEF RefreshReq
<1>14. CASE r \in ReAddReq(n)
  BY <1>14 DEF ReAddReq
<1> QED
  BY <1>1, <1>2, <1>3, <1>4, <1>5, <1>6, <1>7, <1>8, <1>9, <1>10, <1>11, <1>12, <1>13, <1>14
  DEF ReqState

\* What was right for an ID stays right for the next ones.
LEMMA RowsGrow ==
  ASSUME NEW n \in Nat, NEW m \in Nat, n <= m
  PROVE  /\ UserRow(n) \subseteq UserRow(m) /\ SpaceRow(n) \subseteq SpaceRow(m)
         /\ OrgRow(n) \subseteq OrgRow(m) /\ MemberRow(n) \subseteq MemberRow(m)
         /\ TokenRow(n) \subseteq TokenRow(m) /\ Job(n) \subseteq Job(m)
         /\ ReqState(n) \subseteq ReqState(m)
<1>1. 1..n \subseteq 1..m
  OBVIOUS
<1>2. /\ UserRow(n) \subseteq UserRow(m) /\ SpaceRow(n) \subseteq SpaceRow(m)
      /\ OrgRow(n) \subseteq OrgRow(m) /\ MemberRow(n) \subseteq MemberRow(m)
      /\ TokenRow(n) \subseteq TokenRow(m)
  BY <1>1 DEF UserRow, SpaceRow, OrgRow, MemberRow, TokenRow
<1>3. Job(n) \subseteq Job(m)
  BY <1>1 DEF Job
<1>4. /\ UserReq(n) \subseteq UserReq(m) /\ OrgReq(n) \subseteq OrgReq(m)
      /\ AdminReq(n) \subseteq AdminReq(m) /\ MemberReq(n) \subseteq MemberReq(m)
      /\ UnMemberReq(n) \subseteq UnMemberReq(m) /\ ReAddReq(n) \subseteq ReAddReq(m)
      /\ AddTokenReq(n) \subseteq AddTokenReq(m) /\ RefreshReq(n) \subseteq RefreshReq(m)
  <2>1. UserReq(n) \subseteq UserReq(m)
    BY <1>2 DEF UserReq
  <2>2. OrgReq(n) \subseteq OrgReq(m) /\ AdminReq(n) \subseteq AdminReq(m)
    BY <1>1 DEF OrgReq, AdminReq
  <2>3. /\ MemberReq(n) \subseteq MemberReq(m) /\ UnMemberReq(n) \subseteq UnMemberReq(m)
        /\ ReAddReq(n) \subseteq ReAddReq(m)
    BY <1>1 DEF MemberReq, UnMemberReq, ReAddReq
  <2>4. AddTokenReq(n) \subseteq AddTokenReq(m) /\ RefreshReq(n) \subseteq RefreshReq(m)
    BY <1>1 DEF AddTokenReq, RefreshReq
  <2> QED BY <2>1, <2>2, <2>3, <2>4
<1> QED BY <1>2, <1>3, <1>4 DEF ReqState

----------------------------------------------------------------------------
(* The inductive invariant. *)

TypeInv ==
  /\ TypeOK
  /\ load \in Loads /\ calls \in Nat
  /\ req \in [Clients -> ReqState(lastID)]

\* Names of users are unique, and those of Casdoor stay where they belong.
UsersInv ==
  /\ \A u \in users : Genuine(u)
  /\ \A u, v \in users : u.name = v.name => u = v

\* NamesAgree, and whoever owns an organization owns its namespace: a deletion of
\* the user takes both.
NamesInv ==
  ~stale =>
    /\ \A u \in users : \E s \in spaces : s.path = u.name /\ s.user = u.id /\ s.kind = "user"
    /\ \A o \in orgs : \E s \in spaces : s.path = o.path /\ s.user = o.user /\ s.kind = "organization"
    /\ \A s, t \in spaces : s.path = t.path => s = t

\* IDs of tokens are given once.
TokensInv ==
  /\ \A s, t \in tokens : s.id = t.id => s = t
  /\ refreshed \subseteq 1..lastID
  /\ RefreshedIsDead

\* A row that will be written is genuine, a late rename can only meet a generated
\* name, and a token that is to be replaced is of the user and the name of the
\* request: its statement will see it, if it is still accepted.
ReqOK(c) ==
  /\ req[c].pc \in {"gituser", "adduser", "save", "gitfirst", "gitupdate"} => Genuine(req[c].row)
  /\ req[c].pc = "rename" => req[c].old \notin CasNames
  /\ req[c].pc \in {"gitrefresh", "disable", "refresh"} =>
       \A t \in tokens : t.id = req[c].token => t.user = req[c].user /\ t.key = req[c].key
  /\ req[c].pc = "refresh" =>
       \A t \in tokens : t.id = req[c].token /\ t.active => t.id \in req[c].seen

ReqsOK == \A c \in Clients : ReqOK(c)

IInv == TypeInv /\ UsersInv /\ NamesInv /\ TokensInv /\ ReqsOK

\* TypeOK, table by table.
TablesTyped ==
  /\ users \subseteq UserRow(lastID) /\ spaces \subseteq SpaceRow(lastID)
  /\ orgs \subseteq OrgRow(lastID) /\ members \subseteq MemberRow(lastID)
  /\ tokens \subseteq TokenRow(lastID) /\ jobs \subseteq Job(lastID)
  /\ lastID \in IDs /\ git \subseteq Names \X (0..Parts) /\ gitTokens \subseteq Names \X Keys

LEMMA TypeOKByTable == TypeOK <=> TablesTyped
  BY DEF TypeOK, TablesTyped, UserRow, SpaceRow, OrgRow, MemberRow, TokenRow, Job

LEMMA IDsNat == IDs \subseteq Nat
  BY AccountsAssumption DEF IDs

----------------------------------------------------------------------------
(* What every step does. *)

\* No token comes back: a token of the table was there, or is new.
TokensStep ==
  \A t \in tokens' :
    \/ t.id > lastID
    \/ \E s \in tokens : /\ s.id = t.id /\ s.user = t.user /\ s.key = t.key
                         /\ t.active => s.active

IDStep == lastID' \in {lastID, lastID + 1} /\ lastID' \in IDs
OwnStep(c) ==
  /\ req' \in [Clients -> ReqState(lastID')]
  /\ \A d \in Clients \ {c} : req'[d] = req[d]

LEMMA IDStepNat ==
  ASSUME TypeInv, IDStep
  PROVE  lastID \in Nat /\ lastID' \in Nat /\ lastID <= lastID'
  BY IDsNat DEF TypeInv, TypeOK, IDStep

LEMMA ThenTyped ==
  ASSUME TypeInv, NEW c \in Clients, IDStep, NEW r \in ReqState(lastID'), Then(c, r)
  PROVE  OwnStep(c) /\ req'[c] = r
<1>1. ReqState(lastID) \subseteq ReqState(lastID')
  BY IDStepNat, RowsGrow
<1> QED BY <1>1 DEF TypeInv, Then, OwnStep

\* A client's record at a step.
LEMMA ReqAt ==
  ASSUME TypeInv, NEW c \in Clients
  PROVE  lastID \in Nat /\ req[c] \in ReqState(lastID)
  BY IDsNat DEF TypeInv, TypeOK

\* A request that is not at any of the steps that ReqOK speaks of.
LEMMA CarelessOK ==
  ASSUME NEW c \in Clients,
         req'[c].pc \notin {"gituser", "adduser", "save", "gitfirst", "gitupdate", "rename",
                            "gitrefresh", "disable", "refresh"}
  PROVE  ReqOK(c)'
  BY DEF ReqOK

LEMMA EndStep ==
  ASSUME TypeInv, NEW c \in Clients, IDStep, End(c)
  PROVE  OwnStep(c) /\ ReqOK(c)'
<1>1. OwnStep(c) /\ req'[c] = Idle
  BY ThenTyped DEF End, ReqState
<1> QED BY <1>1, CarelessOK DEF Idle

LEMMA SameNames ==
  ASSUME IInv, UNCHANGED <<users, spaces, orgs, stale>>, claimed \subseteq claimed'
  PROVE  UsersInv' /\ NamesInv'
  BY DEF IInv, UsersInv, NamesInv, Genuine

LEMMA SameTokens ==
  ASSUME IInv, UNCHANGED tokens
  PROVE  TokensStep
  BY DEF TokensStep

LEMMA EveryStepInv ==
  ASSUME IInv, IDStep, TablesTyped', UNCHANGED load, calls' \in Nat, claimed \subseteq claimed',
         req' \in [Clients -> ReqState(lastID')],
         \A c \in Clients : req'[c] = req[c] \/ ReqOK(c)',
         UsersInv', NamesInv', TokensStep,
         \A s, t \in tokens' : s.id = t.id => s = t,
         \A id \in refreshed' : id \in refreshed \/ (id \in 1..lastID /\ ~Check(id)')
  PROVE  IInv'
<1>1. lastID \in Nat /\ lastID' \in Nat /\ lastID <= lastID'
  BY IDStepNat DEF IInv
<1>2. TypeInv'
  <2>1. TypeOK'
    BY TypeOKByTable, PTL
  <2> QED BY <2>1 DEF TypeInv, IInv
<1>3. TokensInv'
  <2>1. refreshed' \subseteq 1..lastID'
    <3>1. 1..lastID \subseteq 1..lastID' /\ refreshed \subseteq 1..lastID
      BY <1>1 DEF IInv, TokensInv
    <3> QED BY <3>1
  <2>2. ASSUME NEW id \in refreshed', NEW t \in tokens', t.id = id, t.active
        PROVE  FALSE
    <3>1. id \in 1..lastID
      BY DEF IInv, TokensInv
    <3>2. PICK s \in tokens : s.id = id /\ s.active
      BY <1>1, <2>2, <3>1 DEF TokensStep
    <3>3. id \notin refreshed
      BY <3>2 DEF IInv, TokensInv, RefreshedIsDead, Check
    <3>4. ~\E x \in tokens' : x.id = id /\ x.active
      BY <3>3 DEF Check
    <3> QED BY <2>2, <3>4
  <2>3. RefreshedIsDead'
    BY <2>2 DEF RefreshedIsDead, Check
  <2> QED BY <2>1, <2>3 DEF TokensInv
<1>4. ASSUME NEW d \in Clients PROVE ReqOK(d)'
  <2>1. CASE ReqOK(d)'
    BY <2>1
  <2>2. CASE req'[d] = req[d]
    <3>1. req'[d] = req[d] /\ ReqOK(d)
      BY <2>2 DEF IInv, ReqsOK
    <3>2. ASSUME req[d].pc \in {"gitrefresh", "disable", "refresh"}, NEW t \in tokens',
                 t.id = req[d].token
          PROVE  \E s \in tokens : /\ s.id = t.id /\ s.user = t.user /\ s.key = t.key
                                   /\ t.active => s.active
      <4>1. req[d].token \in 1..lastID
        BY <3>2, ReqAt, ReqShapes DEF RefreshReq, IInv
      <4> QED BY <1>1, <3>2, <4>1 DEF TokensStep
    <3> QED BY <3>1, <3>2 DEF ReqOK, Genuine
  <2> QED BY <2>1, <2>2
<1> QED BY <1>2, <1>3, <1>4 DEF IInv, ReqsOK

\* A step of a request.
LEMMA StepInv ==
  ASSUME IInv, NEW c \in Clients, IDStep, TablesTyped', UNCHANGED load, calls' \in Nat,
         claimed \subseteq claimed',
         OwnStep(c), ReqOK(c)', UsersInv', NamesInv', TokensStep,
         \A s, t \in tokens' : s.id = t.id => s = t,
         \A id \in refreshed' : id \in refreshed \/ (id \in 1..lastID /\ ~Check(id)')
  PROVE  IInv'
<1>1. \A d \in Clients : req'[d] = req[d] \/ ReqOK(d)'
  BY DEF OwnStep
<1> QED BY <1>1, EveryStepInv DEF OwnStep

----------------------------------------------------------------------------
(* A request begins. *)

LEMMA BeginInv ==
  ASSUME IInv, NEW c \in Clients, NEW op, Begin(c, op), claimed \subseteq claimed',
         NEW r \in ReqState(lastID), Then(c, r), ReqOK(c)'
  PROVE  IInv'
<1>1. /\ UNCHANGED <<users, spaces, orgs, members, tokens, lastID, git, gitTokens, jobs, stale,
                     refreshed, load>>
      /\ calls' \in Nat
  BY DEF Begin, tables, gitVars, IInv, TypeInv
<1>2. IDStep
  BY <1>1 DEF IDStep, IInv, TypeInv, TypeOK
<1>3. OwnStep(c)
  BY <1>1, <1>2, ThenTyped DEF IInv
<1>4. TablesTyped'
  BY <1>1, TypeOKByTable DEF IInv, TypeInv, TablesTyped
<1>5. UsersInv' /\ NamesInv'
  BY <1>1, SameNames
<1>6. TokensStep /\ \A s, t \in tokens' : s.id = t.id => s = t
  BY <1>1, SameTokens DEF IInv, TokensInv
<1> QED BY <1>1, <1>2, <1>3, <1>4, <1>5, <1>6, StepInv

LEMMA StartInv ==
  ASSUME IInv, NEW c \in Clients, NEW op, Start(c, op), NEW r \in ReqState(lastID), Then(c, r),
         ReqOK(c)'
  PROVE  IInv'
BY BeginInv DEF Start

\* A request that is at none of the steps that ReqOK speaks of.
LEMMA StartCareless ==
  ASSUME IInv, NEW c \in Clients, NEW op, Start(c, op), NEW r \in ReqState(lastID), Then(c, r),
         r.pc \notin {"gituser", "adduser", "save", "gitfirst", "gitupdate", "rename",
                      "gitrefresh", "disable", "refresh"}
  PROVE  IInv'
<1>1. req'[c] = r
  BY DEF Then, IInv, TypeInv
<1> QED BY <1>1, StartInv, CarelessOK

LEMMA UserRows ==
  ASSUME IInv, NEW u \in users
  PROVE  u \in UserRow(lastID) /\ Genuine(u)
  BY TypeOKByTable DEF IInv, TypeInv, UsersInv, TablesTyped

LEMMA SigninInv ==
  ASSUME IInv, NEW c \in Clients, Signin(c)  PROVE IInv'
<1>0. Start(c, "signin")
  BY DEF Signin
<1>a. req \in [Clients -> ReqState(lastID)]
  BY DEF IInv, TypeInv
<1>1. CASE \E u \in users : Then(c, [pc |-> "save", row |-> u])
  <2>1. PICK u \in users : Then(c, [pc |-> "save", row |-> u])
    BY <1>1
  <2>2. [pc |-> "save", row |-> u] \in ReqState(lastID)
    BY UserRows DEF ReqState, UserReq
  <2>3. ReqOK(c)'
    BY <1>a, <1>0, <2>1, UserRows DEF ReqOK, Then, Genuine, Start
  <2> QED BY <1>0, <2>1, <2>2, <2>3, StartInv
<1>2. CASE \E p \in Persons, n \in Names :
             /\ IF p \in Wechat THEN n \notin UserNames \cup {CasName[q] : q \in Persons}
                ELSE n = CasName[p]
             /\ Then(c, [pc |-> IF p \in Wechat THEN "adduser" ELSE "gituser",
                         row |-> Row(0, p, n, p \notin Wechat, p \in Wechat)])
  <2>1. PICK p \in Persons, n \in Names :
             /\ IF p \in Wechat THEN n \notin UserNames \cup {CasName[q] : q \in Persons}
                ELSE n = CasName[p]
             /\ Then(c, [pc |-> IF p \in Wechat THEN "adduser" ELSE "gituser",
                         row |-> Row(0, p, n, p \notin Wechat, p \in Wechat)])
    BY <1>2
  <2> DEFINE row == Row(0, p, n, p \notin Wechat, p \in Wechat)
             pc == IF p \in Wechat THEN "adduser" ELSE "gituser"
  <2>2. /\ row \in NewUserRow /\ row.uuid = p /\ row.name = n /\ row.rename = (p \in Wechat)
    BY DEF Row, NewUserRow
  <2>3. Genuine(row)
    BY <2>1, <2>2 DEF Genuine, CasNames
  <2> HIDE DEF row
  <2>4. [pc |-> pc, row |-> row] \in ReqState(lastID)
    BY <2>2 DEF ReqState, NewUserReq
  <2>5. req'[c] = [pc |-> pc, row |-> row]
    BY <1>a, <2>1 DEF Then, row
  <2>6. ReqOK(c)'
    <3>1. req'[c].pc \in {"adduser", "gituser"} /\ req'[c].row = row
      BY <2>5
    <3> QED BY <1>0, <2>3, <3>1 DEF ReqOK, Genuine, Start
  <2> QED BY <1>0, <2>1, <2>4, <2>6, StartInv DEF row
<1> QED BY <1>1, <1>2 DEF Signin

\* The row keeps its name, or it is given a UUID that is claimed from now on.
LEMMA UpdateInv ==
  ASSUME IInv, NEW c \in Clients, Update(c)  PROVE IInv'
<1>1. PICK u, op \in users, what \in {"mail", "roles", "uuid", "other"}, p \in Persons :
        /\ what # "uuid" => p = u.uuid
        /\ claimed' = claimed \cup ({p} \ {u.uuid})
        /\ Then(c, [pc |-> IF what # "mail" THEN "save"
                           ELSE IF u.mail THEN "gitupdate" ELSE "gitfirst",
                    row |-> setChangedProps(u, what, p)])
  BY DEF Update
<1> DEFINE row == setChangedProps(u, what, p)
           pc == IF what # "mail" THEN "save" ELSE IF u.mail THEN "gitupdate" ELSE "gitfirst"
<1>2. u \in UserRow(lastID) /\ Genuine(u)
  BY UserRows
<1>3. row \in UserRow(lastID) /\ row.uuid = p /\ row.name = u.name /\ (row.rename => u.rename)
  <2>1. CASE what = "mail"
    BY <1>1, <1>2, <2>1 DEF UserRow, setChangedProps
  <2>2. CASE what = "roles"
    BY <1>1, <1>2, <2>2 DEF UserRow, setChangedProps
  <2>3. CASE what \in {"uuid", "other"}
    BY <1>2, <2>3 DEF UserRow, setChangedProps
  <2> QED BY <2>1, <2>2, <2>3
<1>4. Then(c, [pc |-> pc, row |-> row]) /\ claimed \subseteq claimed'
  BY <1>1
<1>5. row.uuid \notin Wechat \cup claimed' => row.name = CasName[row.uuid] /\ ~row.rename
  <2>1. row.rename \in BOOLEAN /\ u.rename \in BOOLEAN
    BY <1>2, <1>3 DEF UserRow
  <2> HIDE DEF row
  <2> QED BY <1>1, <1>2, <1>3, <2>1 DEF Genuine
<1>6. row.rename => row.name \notin CasNames
  BY <1>2, <1>3 DEF Genuine
<1> HIDE DEF row
<1>7. pc \in {"save", "gitfirst", "gitupdate"}
  OBVIOUS
<1> HIDE DEF pc
<1>8. [pc |-> pc, row |-> row] \in ReqState(lastID)
  BY <1>3, <1>7 DEF ReqState, UserReq
<1>9. req'[c].pc = pc /\ req'[c].row = row
  BY <1>4 DEF Then, IInv, TypeInv
<1>10. ReqOK(c)'
  BY <1>5, <1>6, <1>7, <1>9 DEF ReqOK, Genuine
<1>11. Begin(c, "update")
  BY DEF Update
<1> QED BY <1>4, <1>8, <1>10, <1>11, BeginInv

LEMMA ChangeUserNameInv ==
  ASSUME IInv, NEW c \in Clients, ChangeUserName(c)  PROVE IInv'
<1>1. PICK u \in users, n \in Names :
        u.rename /\ Then(c, [pc |-> "rename", old |-> u.name, new |-> n])
  BY DEF ChangeUserName
<1>2. [pc |-> "rename", old |-> u.name, new |-> n] \in ReqState(lastID) /\ u.name \notin CasNames
  BY <1>1, UserRows DEF ReqState, RenameReq, UserRow, Genuine
<1>3. ReqOK(c)'
  BY <1>1, <1>2 DEF ReqOK, Then, IInv, TypeInv
<1> QED BY <1>1, <1>2, <1>3, StartInv DEF ChangeUserName

LEMMA DeleteInv ==
  ASSUME IInv, NEW c \in Clients, Delete(c)  PROVE IInv'
<1>1. /\ UNCHANGED <<users, spaces, orgs, members, tokens, lastID, git, gitTokens, stale, refreshed,
                     req, load, claimed>>
      /\ calls' \in Nat
  BY DEF Delete, tables, gitVars, IInv, TypeInv
<1>2. jobs' \subseteq Job(lastID)
  <2>1. PICK u \in users : jobs' = jobs \cup {[no |-> calls, name |-> u.name, user |-> u.id,
                                               tries |-> 0, found |-> 0]}
    BY DEF Delete
  <2>2. [no |-> calls, name |-> u.name, user |-> u.id, tries |-> 0, found |-> 0] \in Job(lastID)
    BY UserRows, AccountsAssumption DEF IInv, TypeInv, UserRow, Job, IDs
  <2> QED BY <2>1, <2>2, TypeOKByTable DEF IInv, TypeInv, TablesTyped
<1>3. IDStep
  BY <1>1 DEF IDStep, IInv, TypeInv, TypeOK
<1>4. TablesTyped'
  BY <1>1, <1>2, TypeOKByTable DEF IInv, TypeInv, TablesTyped
<1>5. OwnStep(c) /\ ReqOK(c)'
  BY <1>1 DEF OwnStep, IInv, TypeInv, ReqsOK, ReqOK, Genuine
<1>6. UsersInv' /\ NamesInv'
  BY <1>1, SameNames
<1>7. TokensStep /\ \A s, t \in tokens' : s.id = t.id => s = t
  BY <1>1, SameTokens DEF IInv, TokensInv
<1> QED BY <1>1, <1>3, <1>4, <1>5, <1>6, <1>7, StepInv

LEMMA Rows ==
  ASSUME IInv
  PROVE  /\ \A u \in users : u.id \in 1..lastID /\ u.name \in Names
         /\ \A o \in orgs : o.id \in 1..lastID /\ o.path \in Names /\ o.user \in 1..lastID
         /\ \A t \in tokens : t.id \in 1..lastID /\ t.user \in 1..lastID /\ t.key \in Keys
  BY TypeOKByTable DEF IInv, TypeInv, TablesTyped, UserRow, OrgRow, TokenRow

\* The requests about organizations, members and tokens.
LEMMA OtherStartInv ==
  ASSUME IInv, NEW c \in Clients,
         \/ CreateOrg(c) \/ DeleteOrg(c) \/ AddMembers(c) \/ DeleteMember(c)
         \/ CreateToken(c) \/ DeleteToken(c)
  PROVE  IInv'
<1> USE Rows
<1>1. CASE CreateOrg(c)
  <2>1. PICK u \in users, n \in Names \ Paths :
          Then(c, [pc |-> "gitorg", path |-> n, user |-> u.id, name |-> u.name, org |-> 0])
    BY <1>1 DEF CreateOrg
  <2>2. [pc |-> "gitorg", path |-> n, user |-> u.id, name |-> u.name, org |-> 0]
        \in ReqState(lastID)
    BY DEF ReqState, OrgReq
  <2> QED BY <1>1, <2>1, <2>2, StartCareless DEF CreateOrg
<1>2. CASE DeleteOrg(c)
  <2>1. PICK o \in orgs : Then(c, [pc |-> "gitunorg", path |-> o.path])
    BY <1>2 DEF DeleteOrg
  <2>2. [pc |-> "gitunorg", path |-> o.path] \in ReqState(lastID)
    BY DEF ReqState, UnOrgReq
  <2> QED BY <1>2, <2>1, <2>2, StartCareless DEF DeleteOrg
<1>3. CASE AddMembers(c)
  <2>1. PICK o \in orgs, u \in users, r \in Roles :
          Then(c, [pc |-> "addmember", org |-> o.id, user |-> u.id, role |-> r])
    BY <1>3 DEF AddMembers
  <2>2. [pc |-> "addmember", org |-> o.id, user |-> u.id, role |-> r] \in ReqState(lastID)
    BY DEF ReqState, MemberReq
  <2> QED BY <1>3, <2>1, <2>2, StartCareless DEF AddMembers
<1>4. CASE DeleteMember(c)
  <2>1. PICK o \in orgs, op, u \in users, old \in Roles, new \in Roles \cup {"none"},
             pc \in {"delmember", "readd", "idle"} :
          /\ pc = "readd" => new \in Roles
          /\ Then(c, [pc |-> pc, path |-> o.path, org |-> o.id, user |-> u.id, name |-> u.name,
                      op |-> op.name, role |-> old, new |-> new])
    <3>1. PICK o \in orgs, op, u \in users, old \in Roles, new \in Roles \cup {"none"} :
            Then(c, [pc |-> IF MembersOf(o, u) # {} THEN "delmember"
                            ELSE IF new # "none" THEN "readd" ELSE "idle",
                     path |-> o.path, org |-> o.id, user |-> u.id, name |-> u.name,
                     op |-> op.name, role |-> old, new |-> new])
      BY <1>4 DEF DeleteMember
    <3>2. PICK pc \in {"delmember", "readd", "idle"} :
            pc = IF MembersOf(o, u) # {} THEN "delmember" ELSE IF new # "none" THEN "readd" ELSE "idle"
      OBVIOUS
    <3> QED BY <3>1, <3>2
  <2>2. [pc |-> pc, path |-> o.path, org |-> o.id, user |-> u.id, name |-> u.name,
         op |-> op.name, role |-> old, new |-> new] \in UnMemberReq(lastID) \cup ReAddReq(lastID)
    BY <2>1 DEF UnMemberReq, ReAddReq
  <2> QED BY <1>4, <2>1, <2>2, StartCareless DEF DeleteMember, ReqState
<1>5. CASE CreateToken(c)
  <2>1. PICK u \in users, k \in Keys : Then(c, [pc |-> "newtoken", name |-> u.name, key |-> k])
    BY <1>5 DEF CreateToken
  <2>2. [pc |-> "newtoken", name |-> u.name, key |-> k] \in ReqState(lastID)
    BY DEF ReqState, NewTokenReq
  <2> QED BY <1>5, <2>1, <2>2, StartCareless DEF CreateToken
<1>6. CASE DeleteToken(c)
  <2>1. PICK u \in users, k \in Keys : Then(c, [pc |-> "gituntoken", name |-> u.name, key |-> k])
    BY <1>6 DEF DeleteToken
  <2>2. [pc |-> "gituntoken", name |-> u.name, key |-> k] \in ReqState(lastID)
    BY DEF ReqState, UnTokenReq
  <2> QED BY <1>6, <2>1, <2>2, StartCareless DEF DeleteToken
<1> QED BY <1>1, <1>2, <1>3, <1>4, <1>5, <1>6

LEMMA RefreshTokenInv ==
  ASSUME IInv, NEW c \in Clients, RefreshToken(c)  PROVE IInv'
<1>1. PICK u \in users, k \in Keys, t \in tokens :
        /\ t.user = u.id /\ t.key = k
        /\ Then(c, [pc |-> "gitrefresh", name |-> u.name, user |-> u.id, key |-> k, token |-> t.id,
                    seen |-> {}])
  BY DEF RefreshToken, Active, TokensOf
<1>2. [pc |-> "gitrefresh", name |-> u.name, user |-> u.id, key |-> k, token |-> t.id, seen |-> {}]
      \in ReqState(lastID)
  BY Rows DEF ReqState, RefreshReq
<1>3. UNCHANGED tokens
  BY DEF RefreshToken, Start, Begin, tables
<1>4. ReqOK(c)'
  BY <1>1, <1>3 DEF ReqOK, Then, IInv, TypeInv, TokensInv
<1> QED BY <1>1, <1>2, <1>4, StartInv DEF RefreshToken

LEMMA RequestInv ==
  ASSUME IInv, NEW c \in Clients, Request(c)  PROVE IInv'
BY SigninInv, UpdateInv, ChangeUserNameInv, DeleteInv, OtherStartInv, RefreshTokenInv DEF Request

----------------------------------------------------------------------------
(* A request goes on with the record it has. *)

Moves == {<<"gituser", "adduser">>, <<"gitfirst", "save">>, <<"gitupdate", "save">>,
          <<"gitorg", "addorg">>, <<"gitunorg", "unorg">>, <<"gituntoken", "untoken">>,
          <<"gitrefresh", "disable">>}

LEMMA MoveTyped ==
  ASSUME NEW n \in Nat, NEW r \in ReqState(n), NEW to, <<r.pc, to>> \in Moves
  PROVE  [r EXCEPT !.pc = to] \in ReqState(n)
<1>1. CASE <<r.pc, to>> = <<"gituser", "adduser">>
  BY <1>1, ReqShapes DEF NewUserReq, ReqState
<1>2. CASE r.pc \in {"gitfirst", "gitupdate"} /\ to = "save"
  BY <1>2, ReqShapes DEF UserReq, ReqState
<1>3. CASE <<r.pc, to>> = <<"gitorg", "addorg">>
  BY <1>3, ReqShapes DEF OrgReq, ReqState
<1>4. CASE <<r.pc, to>> = <<"gitunorg", "unorg">>
  BY <1>4, ReqShapes DEF UnOrgReq, ReqState
<1>5. CASE <<r.pc, to>> = <<"gituntoken", "untoken">>
  BY <1>5, ReqShapes DEF UnTokenReq, ReqState
<1>6. CASE <<r.pc, to>> = <<"gitrefresh", "disable">>
  BY <1>6, ReqShapes DEF RefreshReq, ReqState
<1> QED BY <1>1, <1>2, <1>3, <1>4, <1>5, <1>6 DEF Moves

\* A move changes nothing but the step.
LEMMA MoveKeeps ==
  ASSUME NEW n \in Nat, NEW r \in ReqState(n), NEW to, <<r.pc, to>> \in Moves,
         NEW q, q = [r EXCEPT !.pc = to]
  PROVE  /\ q.pc = to
         /\ r.pc \in {"gituser", "gitfirst", "gitupdate"} => q.row = r.row
         /\ r.pc = "gitrefresh" => q.token = r.token /\ q.user = r.user /\ q.key = r.key
<1>1. q.pc = to
  BY MoveTyped, ReqShapes DEF Moves, NewUserReq, UserReq, OrgReq, UnOrgReq, UnTokenReq,
     RefreshReq
<1>2. CASE r.pc = "gituser"
  BY <1>1, <1>2, ReqShapes DEF NewUserReq
<1>3. CASE r.pc \in {"gitfirst", "gitupdate"}
  BY <1>1, <1>3, ReqShapes DEF UserReq
<1>4. CASE r.pc = "gitrefresh"
  BY <1>1, <1>4, ReqShapes DEF RefreshReq
<1> QED BY <1>1, <1>2, <1>3, <1>4

LEMMA MoveStep ==
  ASSUME IInv, NEW c \in Clients, IDStep, UNCHANGED <<tokens, claimed>>, NEW to,
         <<req[c].pc, to>> \in Moves, Goto(c, to)
  PROVE  OwnStep(c) /\ ReqOK(c)'
<1> DEFINE q == [req[c] EXCEPT !.pc = to]
<1>0. lastID \in Nat /\ req[c] \in ReqState(lastID) /\ ReqOK(c)
  BY ReqAt DEF IInv, ReqsOK
<1>1. Then(c, q)
  BY DEF Goto, Then
<1>2. q \in ReqState(lastID')
  BY <1>0, MoveTyped, IDStepNat, RowsGrow DEF IInv
<1>3. OwnStep(c) /\ req'[c] = q
  BY <1>1, <1>2, ThenTyped DEF IInv
<1>4. /\ req'[c].pc = to
      /\ req[c].pc \in {"gituser", "gitfirst", "gitupdate"} => req'[c].row = req[c].row
      /\ req[c].pc = "gitrefresh" =>
           req'[c].token = req[c].token /\ req'[c].user = req[c].user /\ req'[c].key = req[c].key
  BY <1>0, <1>3, MoveKeeps
<1> HIDE DEF q
<1>5. ReqOK(c)'
  <2>1. CASE req[c].pc \in {"gituser", "gitfirst", "gitupdate"}
    BY <1>0, <1>4, <2>1 DEF Moves, ReqOK, Genuine
  <2>2. CASE req[c].pc = "gitrefresh"
    BY <1>0, <1>4, <2>2 DEF Moves, ReqOK
  <2>3. CASE req[c].pc \in {"gitorg", "gitunorg", "gituntoken"}
    BY <1>4, <2>3, CarelessOK DEF Moves
  <2> QED BY <2>1, <2>2, <2>3 DEF Moves
<1> QED BY <1>3, <1>5

----------------------------------------------------------------------------
(* The steps that change no table. *)

LEMMA GitStepInv ==
  ASSUME IInv, NEW c \in Clients, UNCHANGED <<tables, jobs, stale, refreshed, load, calls, claimed>>,
         git' \subseteq Names \X (0..Parts), gitTokens' \subseteq Names \X Keys,
         End(c) \/ (\E to : <<req[c].pc, to>> \in Moves /\ Goto(c, to))
                \/ (OwnStep(c) /\ ReqOK(c)')
  PROVE  IInv'
<1>1. UNCHANGED <<users, spaces, orgs, members, tokens, lastID, jobs, stale, refreshed, load, calls,
                 claimed>>
  BY DEF tables
<1>2. IDStep
  BY <1>1 DEF IDStep, IInv, TypeInv, TypeOK
<1>3. OwnStep(c) /\ ReqOK(c)'
  BY <1>1, <1>2, EndStep, MoveStep DEF IInv
<1>4. TablesTyped'
  BY <1>1, TypeOKByTable DEF IInv, TypeInv, TablesTyped
<1>5. UsersInv' /\ NamesInv'
  BY <1>1, SameNames
<1>6. TokensStep /\ \A s, t \in tokens' : s.id = t.id => s = t
  BY <1>1, SameTokens DEF IInv, TokensInv
<1> QED BY <1>1, <1>2, <1>3, <1>4, <1>5, <1>6, StepInv DEF IInv, TypeInv

LEMMA GitTyped ==
  ASSUME IInv
  PROVE  git \subseteq Names \X (0..Parts) /\ gitTokens \subseteq Names \X Keys
  BY DEF IInv, TypeInv, TypeOK

LEMMA GitCreateInv ==
  ASSUME IInv, NEW c \in Clients, NEW name \in Names, NEW parts \in SUBSET (0..Parts), NEW then,
         <<req[c].pc, then>> \in Moves, GitCreate(c, name, parts, then)
  PROVE  IInv'
<1>1. \A k : git \cup ({name} \X {i \in parts : i < k}) \subseteq Names \X (0..Parts)
  BY GitTyped
<1>2. git' \subseteq Names \X (0..Parts) /\ gitTokens' \subseteq Names \X Keys
  BY <1>1, GitTyped DEF GitCreate
<1>3. End(c) \/ Goto(c, then)
  BY DEF GitCreate, OrFail
<1>4. UNCHANGED <<tables, jobs, stale, refreshed, load, calls, claimed>>
  BY DEF GitCreate, OnlyGit, rest
<1> QED BY <1>2, <1>3, <1>4, GitStepInv

LEMMA OnlyReqInv ==
  ASSUME IInv, NEW c \in Clients, OnlyReq,
         End(c) \/ (\E to : <<req[c].pc, to>> \in Moves /\ Goto(c, to))
                \/ (OwnStep(c) /\ ReqOK(c)')
  PROVE  IInv'
BY GitTyped, GitStepInv DEF OnlyReq, rest, gitVars

\* What the record of a request has at its step.
LEMMA ReqFields ==
  ASSUME IInv, NEW c \in Clients
  PROVE  /\ At(c, "gituser") \/ At(c, "adduser") => req[c].row \in NewUserRow
         /\ At(c, "save") \/ At(c, "gitfirst") \/ At(c, "gitupdate") =>
              req[c].row \in UserRow(lastID)
         /\ At(c, "rename") => req[c].old \in Names /\ req[c].new \in Names
         /\ At(c, "gitorg") \/ At(c, "addorg") => req[c] \in OrgReq(lastID)
         /\ At(c, "setadmin") => req[c] \in AdminReq(lastID)
         /\ At(c, "gitunorg") \/ At(c, "unorg") => req[c].path \in Names
         /\ At(c, "addmember") => req[c] \in MemberReq(lastID)
         /\ At(c, "delmember") => req[c] \in UnMemberReq(lastID)
         /\ At(c, "readd") => req[c] \in ReAddReq(lastID)
         /\ At(c, "newtoken") => req[c].name \in Names /\ req[c].key \in Keys
         /\ At(c, "addtoken") => req[c].user \in 1..lastID /\ req[c].key \in Keys
         /\ At(c, "gituntoken") => req[c].name \in Names /\ req[c].key \in Keys
         /\ At(c, "gitrefresh") \/ At(c, "disable") \/ At(c, "refresh") =>
              req[c] \in RefreshReq(lastID)
  BY ReqAt, ReqShapes
  DEF IInv, At, NewUserReq, UserReq, RenameReq, UnOrgReq, NewTokenReq, AddTokenReq, UnTokenReq

LEMMA GitUserInv ==
  ASSUME IInv, NEW c \in Clients, CreateGitUser(c) \/ upsertGitUser(c)  PROVE IInv'
<1>a. 0..Parts \in SUBSET (0..Parts)
  OBVIOUS
<1>1. CASE CreateGitUser(c)
  <2>1. req[c].row.name \in Names /\ <<req[c].pc, "adduser">> \in Moves
    BY <1>1, ReqFields DEF CreateGitUser, At, Moves, NewUserRow
  <2> QED BY <1>1, <1>a, <2>1, GitCreateInv DEF CreateGitUser
<1>2. CASE At(c, "gitfirst") /\ GitCreate(c, req[c].row.name, 0..Parts, "save")
  <2>1. req[c].row.name \in Names /\ <<req[c].pc, "save">> \in Moves
    BY <1>2, ReqFields DEF At, Moves, UserRow
  <2> QED BY <1>2, <1>a, <2>1, GitCreateInv
<1>3. CASE At(c, "gitupdate") /\ (Goto(c, "save") \/ End(c)) /\ OnlyReq
  BY <1>3, OnlyReqInv DEF At, Moves
<1> QED BY <1>1, <1>2, <1>3 DEF upsertGitUser, OrFail

LEMMA GitOrgInv ==
  ASSUME IInv, NEW c \in Clients, CreateOrganization(c) \/ DeleteOrganization(c)  PROVE IInv'
<1>1. CASE CreateOrganization(c)
  <2>1. 1..Parts \in SUBSET (0..Parts)
    BY AccountsAssumption
  <2>2. CASE GitCreate(c, req[c].path, 1..Parts, "addorg")
    <3>1. req[c].path \in Names /\ <<req[c].pc, "addorg">> \in Moves
      BY <1>1, ReqFields DEF CreateOrganization, At, Moves, OrgReq
    <3> QED BY <2>1, <2>2, <3>1, GitCreateInv
  <2>3. CASE End(c) /\ OnlyReq
    BY <2>3, OnlyReqInv
  <2> QED BY <1>1, <2>2, <2>3 DEF CreateOrganization
<1>2. CASE DeleteOrganization(c)
  <2>1. git' \subseteq Names \X (0..Parts) /\ UNCHANGED gitTokens
    BY <1>2, GitTyped DEF DeleteOrganization
  <2>2. At(c, "gitunorg") /\ (Goto(c, "unorg") \/ End(c))
    BY <1>2 DEF DeleteOrganization, OrFail
  <2>3. UNCHANGED <<tables, jobs, stale, refreshed, load, calls, claimed>>
    BY <1>2 DEF DeleteOrganization, OnlyGit, rest
  <2> QED BY <2>1, <2>2, <2>3, GitTyped, GitStepInv DEF At, Moves
<1> QED BY <1>1, <1>2

LEMMA GitTokenInv ==
  ASSUME IInv, NEW c \in Clients,
         NewToken(c) \/ DeleteUserToken(c) \/ RefreshUserToken(c)
  PROVE  IInv'
<1>0. IDStep \/ lastID' # lastID
  BY DEF IDStep, IInv, TypeInv, TypeOK
<1>1. CASE NewToken(c)
  <2>1. UNCHANGED <<tables, jobs, stale, refreshed, load, calls, claimed>> /\ UNCHANGED git
    BY <1>1 DEF NewToken, OnlyGit, rest
  <2>2. gitTokens' \subseteq Names \X Keys
    <3>1. <<req[c].name, req[c].key>> \in Names \X Keys
      BY <1>1, ReqFields DEF NewToken
    <3>2. gitTokens' \subseteq gitTokens \cup {<<req[c].name, req[c].key>>}
      BY <1>1 DEF NewToken
    <3> QED BY <3>1, <3>2, GitTyped
  <2>3. CASE End(c)
    BY <2>1, <2>2, <2>3, GitTyped, GitStepInv
  <2>4. CASE \E u \in users : Then(c, [pc |-> "addtoken", user |-> u.id, key |-> req[c].key])
    <3>1. PICK u \in users : Then(c, [pc |-> "addtoken", user |-> u.id, key |-> req[c].key])
      BY <2>4
    <3>2. [pc |-> "addtoken", user |-> u.id, key |-> req[c].key] \in ReqState(lastID)
      BY <1>1, ReqFields, Rows DEF NewToken, ReqState, AddTokenReq
    <3>3. OwnStep(c) /\ req'[c].pc = "addtoken"
      BY <1>0, <2>1, <3>1, <3>2, ThenTyped DEF IInv, tables
    <3> QED BY <2>1, <2>2, <3>3, CarelessOK, GitTyped, GitStepInv
  <2> QED BY <1>1, <2>3, <2>4 DEF NewToken, OrFail, FindByUsername
<1>2. CASE DeleteUserToken(c)
  <2>1. gitTokens' \subseteq Names \X Keys /\ UNCHANGED git
    BY <1>2, GitTyped DEF DeleteUserToken
  <2>2. At(c, "gituntoken") /\ (Goto(c, "untoken") \/ End(c))
    BY <1>2 DEF DeleteUserToken, OrFail
  <2>3. UNCHANGED <<tables, jobs, stale, refreshed, load, calls, claimed>>
    BY <1>2 DEF DeleteUserToken, OnlyGit, rest
  <2> QED BY <2>1, <2>2, <2>3, GitTyped, GitStepInv DEF At, Moves
<1>3. CASE RefreshUserToken(c)
  <2>1. gitTokens' \subseteq Names \X Keys /\ UNCHANGED git
    BY <1>3, GitTyped DEF RefreshUserToken
  <2>2. At(c, "gitrefresh") /\ (Goto(c, "disable") \/ End(c))
    BY <1>3 DEF RefreshUserToken, OrFail
  <2>3. UNCHANGED <<tables, jobs, stale, refreshed, load, calls, claimed>>
    BY <1>3 DEF RefreshUserToken, OnlyGit, rest
  <2> QED BY <2>1, <2>2, <2>3, GitTyped, GitStepInv DEF At, Moves
<1> QED BY <1>1, <1>2, <1>3

\* The first statement of Refresh sees the token that it will replace.
LEMMA DisableInv ==
  ASSUME IInv, NEW c \in Clients, Disable(c)  PROVE IInv'
<1> DEFINE seen == {t.id : t \in Active(TokensOf(req[c].user, req[c].key))}
           q == [req[c] EXCEPT !.pc = "refresh", !.seen = seen]
<1>1. req[c] \in RefreshReq(lastID) /\ ReqOK(c) /\ req[c].pc = "disable"
  BY ReqFields DEF Disable, At, IInv, ReqsOK
<1>2. seen \subseteq Nat
  BY Rows DEF Active, TokensOf
<1>3. /\ q \in RefreshReq(lastID) /\ q.pc = "refresh" /\ q.seen = seen
      /\ q.token = req[c].token /\ q.user = req[c].user /\ q.key = req[c].key
  <2> HIDE DEF seen
  <2> QED BY <1>1, <1>2 DEF RefreshReq
<1>4. Then(c, q) /\ OnlyReq
  BY DEF Disable
<1>5. \A t \in tokens : t.id = req[c].token /\ t.active => t.id \in seen
  BY <1>1 DEF ReqOK, Active, TokensOf
<1>6. UNCHANGED tokens /\ IDStep
  BY <1>4 DEF OnlyReq, rest, tables, IDStep, IInv, TypeInv, TypeOK
<1>7. OwnStep(c) /\ req'[c] = q
  BY <1>3, <1>4, <1>6, ThenTyped DEF IInv, IDStep, OnlyReq, rest, tables, ReqState
<1> HIDE DEF q, seen
<1>8. ReqOK(c)'
  BY <1>1, <1>3, <1>5, <1>6, <1>7 DEF ReqOK
<1> QED BY <1>4, <1>7, <1>8, OnlyReqInv

LEMMA ReAddInv ==
  ASSUME IInv, NEW c \in Clients, ReAdd(c)  PROVE IInv'
<1>1. OnlyReq /\ At(c, "readd")
  BY DEF ReAdd
<1>2. CASE End(c)
  BY <1>1, <1>2, OnlyReqInv
<1>a. req[c].new \in Roles
  BY <1>1, ReqFields DEF ReAddReq
<1>3. CASE \E o \in orgs, u \in users :
             Then(c, [pc |-> "addmember", org |-> o.id, user |-> u.id, role |-> req[c].new])
  <2>1. PICK o \in orgs, u \in users :
          Then(c, [pc |-> "addmember", org |-> o.id, user |-> u.id, role |-> req[c].new])
    BY <1>3
  <2>2. [pc |-> "addmember", org |-> o.id, user |-> u.id, role |-> req[c].new] \in ReqState(lastID)
    BY <1>a, Rows DEF ReqState, MemberReq
  <2>3. IDStep
    BY <1>1 DEF OnlyReq, rest, tables, IDStep, IInv, TypeInv, TypeOK
  <2>4. OwnStep(c) /\ req'[c].pc = "addmember"
    BY <1>1, <2>1, <2>2, <2>3, ThenTyped DEF IInv, OnlyReq, rest, tables
  <2> QED BY <1>1, <2>4, CarelessOK, OnlyReqInv
<1> QED BY <1>2, <1>3 DEF ReAdd, OrFail

----------------------------------------------------------------------------
(* The steps that change tables. *)

\* The rows that stay keep their types.
LEMMA TablesGrow ==
  ASSUME IInv, IDStep
  PROVE  /\ users \subseteq UserRow(lastID') /\ spaces \subseteq SpaceRow(lastID')
         /\ orgs \subseteq OrgRow(lastID') /\ members \subseteq MemberRow(lastID')
         /\ tokens \subseteq TokenRow(lastID') /\ jobs \subseteq Job(lastID')
         /\ lastID' \in IDs /\ git \subseteq Names \X (0..Parts) /\ gitTokens \subseteq Names \X Keys
<1>1. TablesTyped /\ lastID \in Nat /\ lastID' \in Nat /\ lastID <= lastID'
  BY TypeOKByTable, IDStepNat DEF IInv, TypeInv
<1> QED BY <1>1, RowsGrow DEF TablesTyped, IDStep

LEMMA NewIDStep ==
  ASSUME IInv, NewID
  PROVE  IDStep /\ lastID' = lastID + 1 /\ lastID' \in 1..lastID' /\ 1..lastID \subseteq 1..lastID'
<1>1. lastID \in Nat /\ lastID \in 0..MaxID
  BY AccountsAssumption DEF IInv, TypeInv, TypeOK, IDs
<1> QED BY <1>1, AccountsAssumption DEF NewID, IDStep, IDs

\* A step that leaves the tokens alone.
LEMMA NamesStepInv ==
  ASSUME IInv, NEW c \in Clients, IDStep, TablesTyped', UNCHANGED <<tokens, refreshed, load, calls, claimed>>,
         OwnStep(c), ReqOK(c)', UsersInv', NamesInv'
  PROVE  IInv'
<1>1. TokensStep /\ \A s, t \in tokens' : s.id = t.id => s = t
  BY SameTokens DEF IInv, TokensInv
<1> QED BY <1>1, StepInv DEF IInv, TypeInv

\* A step that leaves users and namespaces alone.
LEMMA TokensStepInv ==
  ASSUME IInv, NEW c \in Clients, IDStep, TablesTyped', UNCHANGED <<users, spaces, orgs, stale, load, calls, claimed>>,
         OwnStep(c), ReqOK(c)', TokensStep,
         \A s, t \in tokens' : s.id = t.id => s = t,
         \A id \in refreshed' : id \in refreshed \/ (id \in 1..lastID /\ ~Check(id)')
  PROVE  IInv'
<1>1. UsersInv' /\ NamesInv'
  BY SameNames
<1> QED BY <1>1, StepInv DEF IInv, TypeInv

LEMMA AddUserInv ==
  ASSUME IInv, NEW c \in Clients, AddUser(c)  PROVE IInv'
<1>1. /\ At(c, "adduser") /\ IDStep /\ lastID' = lastID + 1
      /\ lastID' \in 1..lastID' /\ 1..lastID \subseteq 1..lastID'
      /\ UNCHANGED <<orgs, members, tokens, git, gitTokens, jobs, stale, refreshed, load, calls, claimed>>
  BY NewIDStep DEF AddUser, OnlyUsers, rest, gitVars
<1>2. req[c].row \in NewUserRow /\ Genuine(req[c].row)
  BY <1>1, ReqFields DEF At, IInv, ReqsOK, ReqOK
<1>3. OwnStep(c) /\ ReqOK(c)'
  <2>1. CASE End(c)
    BY <1>1, <2>1, EndStep DEF IInv
  <2>2. CASE Then(c, [pc |-> "newtoken", name |-> req[c].row.name, key |-> "auto"])
    <3>1. [pc |-> "newtoken", name |-> req[c].row.name, key |-> "auto"] \in ReqState(lastID')
      BY <1>2 DEF NewUserRow, ReqState, NewTokenReq, Keys
    <3>2. OwnStep(c) /\ req'[c].pc = "newtoken"
      BY <1>1, <2>2, <3>1, ThenTyped DEF IInv
    <3> QED BY <3>2, CarelessOK
  <2> QED BY <2>1, <2>2 DEF AddUser, OrFail
<1>4. TablesTyped' /\ UsersInv' /\ NamesInv'
  <2>1. CASE UNCHANGED <<users, spaces>>
    BY <1>1, <2>1, TablesGrow, SameNames DEF TablesTyped
  <2>2. CASE /\ req[c].row.name \notin Taken
             /\ users' = users \cup {[req[c].row EXCEPT !.id = lastID + 1]}
             /\ spaces' = spaces \cup {[path |-> req[c].row.name, user |-> lastID + 1,
                                        kind |-> "user"]}
    <3>1. PICK u : u = [req[c].row EXCEPT !.id = lastID + 1]
      OBVIOUS
    <3>2. /\ u \in UserRow(lastID') /\ u.name = req[c].row.name /\ u.id = lastID'
          /\ u.uuid = req[c].row.uuid /\ u.rename = req[c].row.rename
      BY <1>1, <1>2, <3>1 DEF NewUserRow, UserRow
    <3>3. Genuine(u)
      BY <1>2, <3>2 DEF Genuine
    <3>4. PICK s : s = [path |-> req[c].row.name, user |-> lastID + 1, kind |-> "user"]
      OBVIOUS
    <3>5. /\ s \in SpaceRow(lastID') /\ s.path = u.name /\ s.user = u.id /\ s.kind = "user"
      BY <1>1, <1>2, <3>2, <3>4 DEF NewUserRow, SpaceRow
    <3>6. users' = users \cup {u} /\ spaces' = spaces \cup {s}
      BY <2>2, <3>1, <3>4
    <3>7. (\A v \in users : v.name # u.name) /\ \A t \in spaces : t.path # s.path
      BY <2>2, <3>2, <3>5 DEF Taken, UserNames, Paths
    <3>8. TablesTyped'
      BY <1>1, <3>2, <3>5, <3>6, TablesGrow DEF TablesTyped
    <3>9. UsersInv'
      BY <1>1, <3>3, <3>6, <3>7 DEF IInv, UsersInv, Genuine
    <3>10. NamesInv'
      BY <1>1, <3>5, <3>6, <3>7 DEF IInv, NamesInv
    <3> QED BY <3>8, <3>9, <3>10
  <2> QED BY <2>1, <2>2 DEF AddUser
<1> QED BY <1>1, <1>3, <1>4, NamesStepInv

LEMMA SaveUserInv ==
  ASSUME IInv, NEW c \in Clients, SaveUser(c)  PROVE IInv'
<1>1. /\ At(c, "save") /\ End(c) /\ IDStep /\ lastID' = lastID
      /\ UNCHANGED <<spaces, orgs, members, tokens, git, gitTokens, jobs, refreshed, load, calls, claimed>>
  BY DEF SaveUser, OnlyUsers, rest, gitVars, IDStep, IInv, TypeInv, TypeOK
<1>2. OwnStep(c) /\ ReqOK(c)'
  BY <1>1, EndStep DEF IInv
<1>3. CASE UNCHANGED <<users, stale>>
  <2>1. TablesTyped' /\ UsersInv' /\ NamesInv'
    BY <1>1, <1>3, TablesGrow, SameNames DEF TablesTyped
  <2> QED BY <1>1, <1>2, <2>1, NamesStepInv
<1>4. ASSUME NEW row, row = req[c].row, NEW now, now = {u \in users : u.id = row.id},
             now # {}, \A u \in users \ now : u.name # row.name,
             users' = (users \ now) \cup {row},
             stale' = (stale \/ \E u \in now : u.name # row.name)
      PROVE  IInv'
  <2>1. row \in UserRow(lastID) /\ Genuine(row)
    BY <1>1, <1>4, ReqFields DEF At, IInv, ReqsOK, ReqOK
  <2>2. TablesTyped'
    BY <1>1, <1>4, <2>1, TablesGrow DEF TablesTyped
  <2>3. UsersInv'
    BY <1>1, <1>4, <2>1 DEF IInv, UsersInv, Genuine
  <2>4. NamesInv'
    <3> SUFFICES ASSUME ~stale' PROVE NamesInv'
      BY DEF NamesInv
    <3>1. ~stale /\ \A u \in now : u.name = row.name
      BY <1>4
    <3>2. PICK u \in now : u \in users /\ u.name = row.name /\ u.id = row.id
      BY <1>4, <3>1
    <3> QED BY <1>1, <1>4, <3>1, <3>2 DEF IInv, NamesInv
  <2> QED BY <1>1, <1>2, <2>2, <2>3, <2>4, NamesStepInv
<1> QED BY <1>3, <1>4 DEF SaveUser

\* Only a row with a generated name can be met, whatever has happened since the
\* request looked; and its namespace goes along.
LEMMA RenameInv ==
  ASSUME IInv, NEW c \in Clients, Rename(c)  PROVE IInv'
<1>1. /\ At(c, "rename") /\ End(c) /\ IDStep /\ lastID' = lastID
      /\ UNCHANGED <<orgs, members, tokens, git, gitTokens, jobs, refreshed, stale, load, calls, claimed>>
  BY DEF Rename, OnlyUsers, rest, gitVars, IDStep, IInv, TypeInv, TypeOK
<1>2. OwnStep(c) /\ ReqOK(c)'
  BY <1>1, EndStep DEF IInv
<1>3. CASE UNCHANGED <<users, spaces>>
  <2>1. TablesTyped' /\ UsersInv' /\ NamesInv'
    BY <1>1, <1>3, TablesGrow, SameNames DEF TablesTyped
  <2> QED BY <1>1, <1>2, <2>1, NamesStepInv
<1>4. CASE RenameTx(c)
  <2>1. PICK old, new : old = req[c].old /\ new = req[c].new
    OBVIOUS
  <2>2. old \in Names /\ new \in Names /\ old \notin CasNames
    BY <1>1, <2>1, ReqFields DEF At, IInv, ReqsOK, ReqOK
  <2>3. /\ \E u \in users : u.name = old
        /\ \A u \in users : u.name # new
        /\ \A s \in spaces : s.path # new
    BY <1>4, <2>1 DEF RenameTx, CanRename, FindByUsername, Taken, UserNames, Paths
  <2> DEFINE Named(u) == IF u.name = old THEN [u EXCEPT !.name = new, !.rename = FALSE] ELSE u
             Moved(s) == IF s.path = old THEN [s EXCEPT !.path = new] ELSE s
  <2>4. users' = {Named(u) : u \in users} /\ spaces' = {Moved(s) : s \in spaces}
    BY <1>4, <2>1 DEF RenameTx
  <2>5. ASSUME NEW u \in users
        PROVE  /\ Named(u) \in UserRow(lastID) /\ Genuine(Named(u))
               /\ Named(u).id = u.id
               /\ Named(u).name = IF u.name = old THEN new ELSE u.name
    <3>1. u \in UserRow(lastID) /\ Genuine(u)
      BY UserRows
    <3>2. u.name = old => u.uuid \in Wechat \cup claimed
      BY <2>2, <3>1 DEF Genuine, CasNames, UserRow
    <3> QED BY <2>2, <3>1, <3>2 DEF UserRow, Genuine
  <2>6. ASSUME NEW s \in spaces
        PROVE  /\ Moved(s) \in SpaceRow(lastID)
               /\ Moved(s).user = s.user /\ Moved(s).kind = s.kind
               /\ Moved(s).path = IF s.path = old THEN new ELSE s.path
    <3>1. s \in SpaceRow(lastID)
      BY TypeOKByTable DEF IInv, TypeInv, TablesTyped
    <3> QED BY <2>2, <3>1 DEF SpaceRow
  <2> HIDE DEF Named, Moved
  <2>7. TablesTyped'
    BY <1>1, <2>4, <2>5, <2>6, TablesGrow DEF TablesTyped
  <2>8. UsersInv'
    <3>1. \A u \in users' : Genuine(u)
      BY <2>4, <2>5
    <3>2. ASSUME NEW u \in users, NEW v \in users, Named(u).name = Named(v).name
          PROVE  Named(u) = Named(v)
      BY <2>3, <2>5, <3>2 DEF IInv, UsersInv
    <3> QED BY <1>1, <2>4, <3>1, <3>2 DEF UsersInv, Genuine
  <2>9. NamesInv'
    <3> SUFFICES ASSUME ~stale PROVE NamesInv'
      BY <1>1 DEF NamesInv
    <3>1. /\ \A u \in users : \E s \in spaces : s.path = u.name /\ s.user = u.id /\ s.kind = "user"
          /\ \A o \in orgs : \E s \in spaces : /\ s.path = o.path /\ s.user = o.user
                                               /\ s.kind = "organization"
          /\ \A s, t \in spaces : s.path = t.path => s = t
      BY DEF IInv, NamesInv
    <3>2. ASSUME NEW u \in users
          PROVE  \E s \in spaces' : /\ s.path = Named(u).name /\ s.user = Named(u).id
                                    /\ s.kind = "user"
      <4>1. PICK s \in spaces : s.path = u.name /\ s.user = u.id /\ s.kind = "user"
        BY <3>1
      <4>2. /\ Moved(s) \in spaces' /\ Moved(s).path = Named(u).name
            /\ Moved(s).user = Named(u).id /\ Moved(s).kind = "user"
        BY <2>4, <2>5, <2>6, <4>1
      <4> QED BY <4>2
    <3>3. ASSUME NEW o \in orgs
          PROVE  \E s \in spaces' : s.path = o.path /\ s.user = o.user /\ s.kind = "organization"
      <4>1. PICK s \in spaces : s.path = o.path /\ s.user = o.user /\ s.kind = "organization"
        BY <3>1
      <4>2. s.path # old
        BY <2>3, <3>1, <4>1
      <4>3. Moved(s) \in spaces' /\ Moved(s).path = o.path /\ Moved(s).user = o.user
            /\ Moved(s).kind = "organization"
        BY <2>4, <2>6, <4>1, <4>2
      <4> QED BY <4>3
    <3>4. ASSUME NEW s \in spaces, NEW t \in spaces, Moved(s).path = Moved(t).path
          PROVE  Moved(s) = Moved(t)
      BY <2>3, <2>6, <3>1, <3>4
    <3> QED BY <1>1, <2>4, <3>2, <3>3, <3>4 DEF NamesInv
  <2> QED BY <1>1, <1>2, <2>7, <2>8, <2>9, NamesStepInv
<1> QED BY <1>3, <1>4 DEF Rename

LEMMA AddOrgInv ==
  ASSUME IInv, NEW c \in Clients, AddOrg(c)  PROVE IInv'
<1>1. /\ At(c, "addorg") /\ IDStep /\ lastID' = lastID + 1
      /\ lastID' \in 1..lastID' /\ 1..lastID \subseteq 1..lastID'
      /\ UNCHANGED <<users, members, tokens, git, gitTokens, jobs, stale, refreshed, load, calls, claimed>>
  BY NewIDStep DEF AddOrg, OnlyOrgs, rest, gitVars
<1>2. req[c] \in OrgReq(lastID)
  BY <1>1, ReqFields
<1>3. OwnStep(c) /\ ReqOK(c)'
  <2>1. CASE End(c)
    BY <1>1, <2>1, EndStep DEF IInv
  <2>2. CASE Then(c, [req[c] EXCEPT !.pc = "setadmin", !.org = lastID + 1])
    <3> DEFINE q == [req[c] EXCEPT !.pc = "setadmin", !.org = lastID + 1]
    <3>1. q \in AdminReq(lastID') /\ q.pc = "setadmin"
      BY <1>1, <1>2 DEF OrgReq, AdminReq
    <3>2. q \in ReqState(lastID')
      BY <3>1 DEF ReqState
    <3>3. Then(c, q)
      BY <2>2
    <3> HIDE DEF q
    <3>4. OwnStep(c) /\ req'[c].pc = "setadmin"
      BY <1>1, <3>1, <3>2, <3>3, ThenTyped DEF IInv
    <3> QED BY <3>4, CarelessOK
  <2> QED BY <2>1, <2>2 DEF AddOrg, OrFail
<1>4. TablesTyped' /\ UsersInv' /\ NamesInv'
  <2>1. CASE UNCHANGED <<orgs, spaces>>
    BY <1>1, <2>1, TablesGrow, SameNames DEF TablesTyped
  <2>2. ASSUME NEW p, p = req[c].path, p \notin Paths, \A o \in orgs : o.path # p,
               NEW o, o = [id |-> lastID + 1, path |-> p, user |-> req[c].user],
               NEW s, s = [path |-> p, user |-> req[c].user, kind |-> "organization"],
               orgs' = orgs \cup {o}, spaces' = spaces \cup {s}
        PROVE  TablesTyped' /\ UsersInv' /\ NamesInv'
    <3>1. /\ o \in OrgRow(lastID') /\ s \in SpaceRow(lastID')
          /\ o.path = p /\ s.path = p /\ o.user = s.user /\ s.kind = "organization"
      BY <1>1, <1>2, <2>2 DEF OrgReq, OrgRow, SpaceRow
    <3>2. \A t \in spaces : t.path # p
      BY <2>2 DEF Paths
    <3>3. TablesTyped'
      BY <1>1, <2>2, <3>1, TablesGrow DEF TablesTyped
    <3>4. UsersInv'
      BY <1>1 DEF IInv, UsersInv, Genuine
    <3>5. NamesInv'
      BY <1>1, <2>2, <3>1, <3>2 DEF IInv, NamesInv
    <3> QED BY <3>3, <3>4, <3>5
  <2> QED BY <2>1, <2>2 DEF AddOrg
<1> QED BY <1>1, <1>3, <1>4, NamesStepInv

LEMMA RemoveOrgInv ==
  ASSUME IInv, NEW c \in Clients, RemoveOrg(c)  PROVE IInv'
<1>1. /\ At(c, "unorg") /\ End(c) /\ IDStep /\ lastID' = lastID
      /\ UNCHANGED <<users, members, tokens, git, gitTokens, jobs, stale, refreshed, load, calls, claimed>>
  BY DEF RemoveOrg, OnlyOrgs, rest, gitVars, IDStep, IInv, TypeInv, TypeOK
<1>2. OwnStep(c) /\ ReqOK(c)'
  BY <1>1, EndStep DEF IInv
<1>3. CASE UNCHANGED <<orgs, spaces>>
  <2>1. TablesTyped' /\ UsersInv' /\ NamesInv'
    BY <1>1, <1>3, TablesGrow, SameNames DEF TablesTyped
  <2> QED BY <1>1, <1>2, <2>1, NamesStepInv
<1>4. ASSUME NEW p, \E o \in orgs : o.path = p,
             orgs' = {o \in orgs : o.path # p}, spaces' = {s \in spaces : s.path # p}
      PROVE  IInv'
  <2>1. TablesTyped'
    BY <1>1, <1>4, TablesGrow DEF TablesTyped
  <2>2. UsersInv'
    BY <1>1 DEF IInv, UsersInv, Genuine
  <2>3. NamesInv'
    <3> SUFFICES ASSUME ~stale PROVE NamesInv'
      BY <1>1 DEF NamesInv
    <3>1. \A u \in users : u.name # p
      BY <1>4 DEF IInv, NamesInv
    <3> QED BY <1>1, <1>4, <3>1 DEF IInv, NamesInv
  <2> QED BY <1>1, <1>2, <2>1, <2>2, <2>3, NamesStepInv
<1> QED BY <1>3, <1>4 DEF RemoveOrg

LEMMA MembersInv ==
  ASSUME IInv, NEW c \in Clients, SetAdmin(c) \/ AddMember(c)  PROVE IInv'
<1>1. /\ IDStep /\ lastID' = lastID + 1 /\ lastID' \in 1..lastID' /\ 1..lastID \subseteq 1..lastID'
      /\ UNCHANGED <<users, spaces, orgs, tokens, git, gitTokens, jobs, stale, refreshed, load, calls, claimed>>
  BY NewIDStep DEF SetAdmin, AddMember, OnlyMembers, rest, gitVars
<1>2. OwnStep(c) /\ ReqOK(c)'
  BY <1>1, EndStep DEF IInv, SetAdmin, AddMember
<1>3. \E o, u \in 1..lastID, r \in Roles : members' \subseteq members \cup {Member(o, u, r)}
  <2>1. CASE SetAdmin(c)
    <3>1. req[c] \in AdminReq(lastID) /\ "admin" \in Roles
      BY <2>1, ReqFields DEF SetAdmin, Roles
    <3> QED BY <2>1, <3>1 DEF SetAdmin, AdminReq
  <2>2. CASE AddMember(c)
    <3>1. req[c] \in MemberReq(lastID)
      BY <2>2, ReqFields DEF AddMember
    <3> QED BY <2>2, <3>1 DEF AddMember, MemberReq
  <2> QED BY <2>1, <2>2
<1>4. members' \subseteq MemberRow(lastID')
  <2>1. PICK o, u \in 1..lastID, r \in Roles : members' \subseteq members \cup {Member(o, u, r)}
    BY <1>3
  <2>2. Member(o, u, r) \in MemberRow(lastID')
    BY <1>1 DEF Member, MemberRow
  <2> QED BY <1>1, <2>1, <2>2, TablesGrow
<1>5. TablesTyped' /\ UsersInv' /\ NamesInv'
  BY <1>1, <1>4, TablesGrow, SameNames DEF TablesTyped
<1> QED BY <1>1, <1>2, <1>5, NamesStepInv

LEMMA RemoveMemberInv ==
  ASSUME IInv, NEW c \in Clients, RemoveMember(c)  PROVE IInv'
<1>1. /\ At(c, "delmember") /\ IDStep /\ lastID' = lastID /\ members' \subseteq members
      /\ UNCHANGED <<users, spaces, orgs, tokens, git, gitTokens, jobs, stale, refreshed, load, calls, claimed>>
  BY DEF RemoveMember, OnlyMembers, rest, gitVars, IDStep, IInv, TypeInv, TypeOK
<1>2. OwnStep(c) /\ ReqOK(c)'
  <2>1. CASE End(c)
    BY <1>1, <2>1, EndStep DEF IInv
  <2>2. CASE req[c].new # "none" /\ Goto(c, "readd")
    <3> DEFINE q == [req[c] EXCEPT !.pc = "readd"]
    <3>1. req[c] \in UnMemberReq(lastID)
      BY <1>1, ReqFields
    <3>2. q \in ReAddReq(lastID) /\ q.pc = "readd"
      BY <2>2, <3>1 DEF UnMemberReq, ReAddReq
    <3>3. q \in ReqState(lastID')
      BY <1>1, <3>2 DEF ReqState
    <3>4. Then(c, q)
      BY <2>2 DEF Goto, Then
    <3> HIDE DEF q
    <3>5. OwnStep(c) /\ req'[c].pc = "readd"
      BY <1>1, <3>2, <3>3, <3>4, ThenTyped DEF IInv
    <3> QED BY <3>5, CarelessOK
  <2> QED BY <2>1, <2>2 DEF RemoveMember, OrFail
<1>3. TablesTyped' /\ UsersInv' /\ NamesInv'
  BY <1>1, TablesGrow, SameNames DEF TablesTyped
<1> QED BY <1>1, <1>2, <1>3, NamesStepInv

LEMMA TokenRowsInv ==
  ASSUME IInv, NEW c \in Clients, AddToken(c) \/ RemoveToken(c)  PROVE IInv'
<1>1. /\ IDStep /\ End(c)
      /\ UNCHANGED <<users, spaces, orgs, members, git, gitTokens, jobs, stale, refreshed, load, calls, claimed>>
  <2>1. CASE AddToken(c)
    BY <2>1, NewIDStep DEF AddToken, OnlyTokens, rest, gitVars
  <2>2. CASE RemoveToken(c)
    BY <2>2 DEF RemoveToken, OnlyTokens, rest, gitVars, IDStep, IInv, TypeInv, TypeOK
  <2> QED BY <2>1, <2>2
<1>2. OwnStep(c) /\ ReqOK(c)'
  BY <1>1, EndStep DEF IInv
<1>3. /\ tokens' \subseteq TokenRow(lastID') /\ TokensStep
      /\ \A s, t \in tokens' : s.id = t.id => s = t
  <2>1. CASE tokens' \subseteq tokens
    BY <1>1, <2>1, TablesGrow DEF TokensStep, IInv, TokensInv
  <2>2. CASE AddToken(c) /\ tokens' = tokens \cup {Token(c)}
    <3>1. /\ lastID \in Nat /\ lastID' = lastID + 1 /\ lastID' \in 1..lastID'
          /\ 1..lastID \subseteq 1..lastID'
      BY <2>2, NewIDStep, IDStepNat DEF AddToken, IInv
    <3>2. req[c].user \in 1..lastID /\ req[c].key \in Keys
      BY <2>2, ReqFields DEF AddToken
    <3>3. Token(c) \in TokenRow(lastID') /\ Token(c).id = lastID + 1
      BY <3>1, <3>2 DEF Token, TokenRow
    <3>4. \A t \in tokens : t.id # lastID + 1
      BY <3>1, Rows
    <3> HIDE DEF Token
    <3> QED BY <1>1, <2>2, <3>1, <3>3, <3>4, TablesGrow DEF TokensStep, IInv, TokensInv
  <2> QED BY <2>1, <2>2 DEF AddToken, RemoveToken
<1>4. TablesTyped'
  BY <1>1, <1>3, TablesGrow DEF TablesTyped
<1> QED BY <1>1, <1>2, <1>3, <1>4, TokensStepInv

\* The token that is replaced was seen when it was still accepted, so the
\* statement makes it inactive.
LEMMA RefreshInv ==
  ASSUME IInv, NEW c \in Clients, Refresh(c)  PROVE IInv'
<1>1. /\ IDStep /\ End(c) /\ At(c, "refresh")
      /\ lastID \in Nat /\ lastID' = lastID + 1 /\ lastID' \in 1..lastID'
      /\ 1..lastID \subseteq 1..lastID'
      /\ UNCHANGED <<users, spaces, orgs, members, git, gitTokens, jobs, stale, load, calls, claimed>>
  BY NewIDStep, IDStepNat DEF Refresh, OnlyTokens, rest, gitVars, IInv
<1>2. OwnStep(c) /\ ReqOK(c)'
  BY <1>1, EndStep DEF IInv
<1>3. req[c] \in RefreshReq(lastID) /\ ReqOK(c)
  BY <1>1, ReqFields DEF IInv, ReqsOK
<1>4. CASE UNCHANGED <<tokens, refreshed>>
  <2>1. TablesTyped' /\ UsersInv' /\ NamesInv'
    BY <1>1, <1>4, TablesGrow, SameNames DEF TablesTyped
  <2> QED BY <1>1, <1>2, <1>4, <2>1, NamesStepInv
<1>5. CASE tokens' = Disabled(c) \cup {Token(c)} /\ refreshed' \in {refreshed, refreshed \cup {req[c].token}}
  <2> DEFINE Off(t) == IF t.id \in req[c].seen THEN [t EXCEPT !.active = FALSE] ELSE t
  <2>1. Token(c) \in TokenRow(lastID') /\ Token(c).id = lastID + 1
    BY <1>1, <1>3 DEF Token, TokenRow, RefreshReq
  <2>2. tokens' = {Off(t) : t \in tokens} \cup {Token(c)}
    BY <1>5 DEF Disabled
  <2>3. ASSUME NEW t \in tokens
        PROVE  /\ Off(t) \in TokenRow(lastID') /\ Off(t).id = t.id /\ Off(t).id # lastID + 1
               /\ Off(t).user = t.user /\ Off(t).key = t.key
               /\ Off(t).active => t.active /\ t.id \notin req[c].seen
    <3>1. t \in TokenRow(lastID') /\ t.id \in 1..lastID
      BY <1>1, TablesGrow, Rows
    <3>2. t.id # lastID + 1
      BY <1>1, <3>1
    <3>3. CASE t.id \in req[c].seen
      <4>1. Off(t) = [t EXCEPT !.active = FALSE]
        BY <3>3
      <4> HIDE DEF Off
      <4> QED BY <3>1, <3>2, <4>1 DEF TokenRow
    <3>4. CASE t.id \notin req[c].seen
      BY <3>1, <3>2, <3>4
    <3> QED BY <3>3, <3>4
  <2> HIDE DEF Off, Token
  <2>4. tokens' \subseteq TokenRow(lastID')
    BY <2>1, <2>2, <2>3
  <2>5. TokensStep
    BY <1>1, <2>1, <2>2, <2>3 DEF TokensStep
  <2>6. \A s, t \in tokens' : s.id = t.id => s = t
    <3>1. ASSUME NEW s \in tokens, NEW t \in tokens, Off(s).id = Off(t).id PROVE Off(s) = Off(t)
      BY <2>3, <3>1 DEF IInv, TokensInv
    <3> QED BY <2>1, <2>2, <2>3, <3>1
  <2>7. req[c].token \in 1..lastID
    BY <1>3 DEF RefreshReq
  <2>8. ASSUME NEW t \in tokens', t.id = req[c].token PROVE ~t.active
    <3>1. PICK s \in tokens : t = Off(s)
      BY <1>1, <2>1, <2>2, <2>7, <2>8
    <3>2. s.id = req[c].token /\ (s.active => s.id \in req[c].seen)
      BY <1>1, <1>3, <2>3, <2>8, <3>1 DEF ReqOK, At
    <3> QED BY <2>3, <3>1, <3>2
  <2>9. ASSUME NEW id \in refreshed', id \notin refreshed PROVE id \in 1..lastID /\ ~Check(id)'
    <3>1. id = req[c].token
      BY <1>5, <2>9
    <3> QED BY <2>7, <2>8, <3>1 DEF Check
  <2>10. TablesTyped'
    BY <1>1, <2>4, TablesGrow DEF TablesTyped
  <2> QED BY <1>1, <1>2, <2>5, <2>6, <2>9, <2>10, TokensStepInv
<1> QED BY <1>4, <1>5 DEF Refresh

----------------------------------------------------------------------------
(* The workflow that deletes a user. *)

\* The deletion of a user takes all that belongs to its ID, and nothing else.
LEMMA WorkflowInv ==
  ASSUME IInv, UserDeletionWorkflow  PROVE IInv'
<1>1. PICK j \in jobs : DeleteFind(j) \/ DeleteUserAndRelations(j)
  BY DEF UserDeletionWorkflow
<1>2. j \in Job(lastID)
  BY TypeOKByTable DEF IInv, TypeInv, TablesTyped
<1>3. /\ UNCHANGED <<lastID, git, gitTokens, req, stale, refreshed, load, calls, claimed>> /\ IDStep
  BY <1>1 DEF DeleteFind, DeleteUserAndRelations, tables, gitVars, rest, IDStep, IInv, TypeInv, TypeOK
<1>4. jobs' \subseteq Job(lastID')
  <2>1. ASSUME NEW u \in users PROVE [j EXCEPT !.found = u.id] \in Job(lastID)
    <3>1. u.id \in IDs
      BY Rows, AccountsAssumption DEF IInv, TypeInv, TypeOK, IDs
    <3> QED BY <1>2, <3>1 DEF Job
  <2>2. j.tries + 1 < MaxTries => [j EXCEPT !.tries = @ + 1, !.found = 0] \in Job(lastID)
    <3>1. j.tries \in 0..(MaxTries - 1) /\ 0 \in IDs /\ MaxTries \in Nat
      BY <1>2, AccountsAssumption DEF Job, IDs
    <3>2. j.tries + 1 < MaxTries => j.tries + 1 \in 0..(MaxTries - 1)
      BY <3>1
    <3> QED BY <1>2, <3>1, <3>2 DEF Job
  <2>3. Tried(j) => jobs' \subseteq Job(lastID)
    BY <2>2, TypeOKByTable DEF Tried, IInv, TypeInv, TablesTyped
  <2>4. (\E u \in FindByUsername(j.name) : jobs' = (jobs \ {j}) \cup {[j EXCEPT !.found = u.id]})
          => jobs' \subseteq Job(lastID)
    BY <2>1, TypeOKByTable DEF FindByUsername, IInv, TypeInv, TablesTyped
  <2> QED BY <1>1, <1>3, <2>3, <2>4 DEF DeleteFind, DeleteUserAndRelations
<1>5. /\ tokens' \subseteq tokens
      /\ \/ UNCHANGED <<users, spaces, orgs, members, tokens>>
         \/ /\ users' = {u \in users : u.id # j.found}
            /\ spaces' = {s \in spaces : s.user # j.found}
            /\ orgs' = {o \in orgs : o.user # j.found}
            /\ members' \subseteq members
  BY <1>1 DEF DeleteFind, DeleteUserAndRelations, tables
<1>6. TablesTyped'
  BY <1>3, <1>4, <1>5, TablesGrow DEF TablesTyped
<1>7. UsersInv' /\ NamesInv'
  BY <1>3, <1>5 DEF IInv, UsersInv, NamesInv, Genuine
<1>8. TokensStep /\ \A s, t \in tokens' : s.id = t.id => s = t
  BY <1>5 DEF TokensStep, IInv, TokensInv
<1>9. req' \in [Clients -> ReqState(lastID')] /\ UNCHANGED <<load, calls>>
  BY <1>3 DEF IInv, TypeInv
<1> QED BY <1>3, <1>6, <1>7, <1>8, <1>9, EveryStepInv DEF IInv, TypeInv

----------------------------------------------------------------------------
(* Every step. *)

LEMMA InitIInv == Init => IInv
<1> SUFFICES ASSUME Init PROVE IInv
  OBVIOUS
<1> DEFINE known == load.known
           row(i) == [Row(i, known[i], CasName[known[i]], known[i] \notin Wechat,
                          known[i] \in Wechat) EXCEPT !.admin = (i = 1)]
           space(i) == [path |-> CasName[known[i]], user |-> i, kind |-> "user"]
<1>1. /\ load \in Loads /\ known \in Seq(Persons)
      /\ \A i, j \in DOMAIN known : CasName[known[i]] = CasName[known[j]] => i = j
  BY AccountsAssumption DEF Init
<1>2. /\ users = {row(i) : i \in DOMAIN known} /\ spaces = {space(i) : i \in DOMAIN known}
      /\ lastID = Len(known)
      /\ orgs = {} /\ members = {} /\ tokens = {} /\ jobs = {} /\ refreshed = {} /\ gitTokens = {}
      /\ req = [c \in Clients |-> Idle] /\ calls = 0
  BY DEF Init
<1>3. DOMAIN known = 1..lastID /\ \A i \in DOMAIN known : known[i] \in Persons
  BY <1>1, <1>2
<1>4. lastID \in Nat /\ lastID \in IDs
  BY <1>1, <1>2, AccountsAssumption DEF IDs
<1>5. ASSUME NEW i \in DOMAIN known
      PROVE  /\ row(i) \in UserRow(lastID) /\ Genuine(row(i))
             /\ row(i).name = CasName[known[i]] /\ row(i).id = i
             /\ space(i) \in SpaceRow(lastID) /\ space(i).path = CasName[known[i]]
             /\ space(i).user = i /\ space(i).kind = "user"
  <2>1. /\ i \in 1..lastID /\ known[i] \in Persons /\ CasName[known[i]] \in Names
    BY <1>3, AccountsAssumption
  <2>2. /\ row(i) = [id |-> i, name |-> CasName[known[i]], uuid |-> known[i],
                    mail |-> known[i] \notin Wechat, admin |-> (i = 1),
                    rename |-> known[i] \in Wechat]
    BY DEF Row
  <2> HIDE DEF row
  <2>3. row(i) \in UserRow(lastID)
    BY <2>1, <2>2 DEF UserRow
  <2>4. Genuine(row(i))
    <3>1. /\ row(i).uuid = known[i] /\ row(i).name = CasName[known[i]]
          /\ row(i).rename = (known[i] \in Wechat)
      BY <2>2
    <3>2. known[i] \in Wechat => CasName[known[i]] \notin CasNames
      BY <2>1, AccountsAssumption DEF CasNames
    <3> QED BY <3>1, <3>2 DEF Genuine
  <2>5. space(i) \in SpaceRow(lastID)
    BY <2>1 DEF SpaceRow
  <2> QED BY <2>2, <2>3, <2>4, <2>5
<1> HIDE DEF row, space
<1>6. TablesTyped
  <2>1. git \subseteq Names \X (0..Parts)
    BY <1>3, AccountsAssumption DEF Init
  <2> QED BY <1>2, <1>4, <1>5, <2>1 DEF TablesTyped
<1>7. TypeInv
  BY <1>1, <1>2, <1>6, TypeOKByTable DEF TypeInv, ReqState
<1>8. UsersInv
  BY <1>1, <1>2, <1>5 DEF UsersInv
<1>9. NamesInv
  BY <1>1, <1>2, <1>5 DEF NamesInv
<1>10. TokensInv /\ ReqsOK
  BY <1>2 DEF TokensInv, RefreshedIsDead, ReqsOK, ReqOK, Idle
<1> QED BY <1>7, <1>8, <1>9, <1>10 DEF IInv

LEMMA NextIInv == IInv /\ [Next]_vars => IInv'
<1> SUFFICES ASSUME IInv, [Next]_vars PROVE IInv'
  OBVIOUS
<1>1. CASE UNCHANGED vars
  <2>1. /\ UNCHANGED <<users, spaces, orgs, members, tokens, lastID, git, gitTokens, req, jobs, stale,
                       refreshed, load, calls, claimed>>
    BY <1>1 DEF vars, tables, gitVars
  <2>2. IDStep
    BY <2>1 DEF IDStep, IInv, TypeInv, TypeOK
  <2>3. TablesTyped'
    BY <2>1, <2>2, TablesGrow DEF TablesTyped
  <2>4. UsersInv' /\ NamesInv' /\ TokensStep /\ \A s, t \in tokens' : s.id = t.id => s = t
    BY <2>1, SameNames, SameTokens DEF IInv, TokensInv
  <2> QED BY <2>1, <2>2, <2>3, <2>4, EveryStepInv DEF IInv, TypeInv
<1>2. ASSUME NEW c \in Clients, Work(c) PROVE IInv'
  BY <1>2, GitUserInv, AddUserInv, SaveUserInv, RenameInv, GitOrgInv, AddOrgInv, MembersInv,
     RemoveOrgInv, RemoveMemberInv, ReAddInv, GitTokenInv, TokenRowsInv, DisableInv, RefreshInv
  DEF Work
<1> QED BY <1>1, <1>2, RequestInv, WorkflowInv DEF Next

\* Rows have their types and IDs that were given, whatever fails.
THEOREM TypeCorrect == Spec => []TypeOK
<1>1. IInv => TypeOK
  BY DEF IInv, TypeInv
<1> QED BY <1>1, InitIInv, NextIInv, PTL DEF Spec

\* Sign-ins of one person, at the same time as renames by others and rows that are
\* written back late, give it one account, unless it comes by WeChat or a profile
\* update claims its UUID: user names are unique and that of Casdoor never leaves
\* the person's row.
THEOREM OneAccountOnly == Spec => []OneAccount
<1>1. IInv => OneAccount
  BY DEF IInv, UsersInv, Genuine, OneAccount
<1> QED BY <1>1, InitIInv, NextIInv, PTL DEF Spec

\* The name of a user is the path of its namespace and of no other, and every
\* organization has its own, as long as no former name was written back.
THEOREM NamesAlwaysAgree == Spec => []NamesAgree
<1>1. IInv => NamesAgree
  BY DEF IInv, NamesInv, NamesAgree
<1> QED BY <1>1, InitIInv, NextIInv, PTL DEF Spec

\* A token that was replaced is never accepted again, whatever is done with the
\* tokens of its name at the same time.
THEOREM ReplacedTokenIsDead == Spec => []RefreshedIsDead
<1>1. IInv => RefreshedIsDead
  BY DEF IInv, TokensInv
<1> QED BY <1>1, InitIInv, NextIInv, PTL DEF Spec
=============================================================================
