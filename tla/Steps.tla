------------------------------- MODULE Steps -------------------------------
(***************************************************************************)
(* The vocabulary in which the modules Stores, RepoComponent, Components,  *)
(* UserService and Handlers write down what a request does: a program is a *)
(* sequence of steps, in the order of the calls in the code, and Requests  *)
(* says what each step means.  A definition is named after the method it   *)
(* models, with the receiver in front.  What a call computes is left out;  *)
(* what it may change, what makes it fail and where its errors go is kept. *)
(*                                                                         *)
(* A step names an error: what the code returns when it does not succeed.  *)
(* Errors that no handler looks at are called "other".  The names of       *)
(* httpbase are answers: a step of a handler that answers by itself.       *)
(***************************************************************************)
EXTENDS Naturals, Sequences

Step(op, on, err, alts) == << [op |-> op, on |-> on, err |-> err, alts |-> alts] >>

Skip == << >>

\* A condition on the request, on its caller or on rows that were read.  It is
\* a fact that does not change while the request runs.
Valid(what, e) == Step("check", {what}, e, << >>)
Need(right, e) == Step("check", {right}, e, << >>)
Refuse(e)      == Step("refuse", {}, e, << >>)
If(what, p, q) == Step("if", {what}, "other", <<p, q>>)

\* A SELECT that must find its row, and one that returns any number of rows.
Look(t) == Step("look", {t}, "other", << >>)
Scan(t) == Step("scan", {t}, "other", << >>)

\* A lookup whose row need not be there, and one of a row other than before.
IfFound(look, p, q) == [look EXCEPT ![1].op = "find", ![1].alts = <<p, q>>]
\* One whose errors the code takes for a missing row.
Probe(look, p, q) == [look EXCEPT ![1].op = "probe", ![1].alts = <<p, q>>]
Other(look) == [look EXCEPT ![1].op = IF @ = "look" THEN "lookany" ELSE "findany"]

\* Statements that change a table.
Insert(t) == Step("insert", {t}, "other", << >>)
Update(t) == Step("update", {t}, "other", << >>)
Delete(t) == Step("delete", {t}, "other", << >>)

\* A transaction: the statements of p, all or none of them.
Tx(p) == Step("tx", UNION {p[i].on : i \in DOMAIN p}, "other", << >>)

\* Calls of another service, without and with an effect there.
Ask(s)  == Step("ask", {s}, "other", << >>)
Tell(s) == Step("tell", {s}, "other", << >>)

\* Control: a branch on data, a loop, what is done when p fails, errors that are
\* only logged, errors replaced by another, a goroutine, an answer without return.
Either(ps) == Step("either", {}, "other", ps)
Opt(p)     == Either(<<Skip, p>>)
Many(p)    == Either(<<Skip, p, p \o p>>)
OrElse(p, q) == Step("try", {}, "other", <<p, q>>)
Try(p)     == OrElse(p, Skip)
As(p, e)   == Step("as", {}, e, <<p>>)
Go(p)      == Step("go", {}, "other", <<p>>)
Says(e)    == Step("says", {}, e, << >>)
Ends(op, e, q) == Step(op, {}, e, <<q>>)

\* A goroutine that nobody recovers panics, and the process ends.
Crash == Step("crash", {}, "other", << >>)

\* What most handlers ask for first.
Login == Need("login", "UnauthorizedError")
Path  == Valid("path", "BadRequest")
Query == Valid("query", "BadRequest")
Body  == Valid("body", "BadRequest")

IfUser(p)    == If("login", p, Skip)
IfPrivate(p) == If("private", p, Skip)

\* A handler: how it answers the errors it looks for, and what it does.
Handler(on, p) == [on |-> on, run |-> p]
Plain == [other |-> 500]

Writes == {"insert", "update", "delete", "tell", "tx"}
=============================================================================
