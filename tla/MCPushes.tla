------------------------------ MODULE MCPushes ------------------------------
(* Model checking of Pushes on small instances. *)
EXTENDS Pushes, TLC

CONSTANTS r1, r2, r3, task, slur, apache, mit, library, extra, other

\* A task and a name that nobody has used before, and licenses; r3 cannot be parsed.
SomeTags  == r1 :> {task, apache} @@ r2 :> {task, slur, mit} @@ r3 :> {}
SomeLinks == r1 :> {other} @@ r2 :> {} @@ r3 :> {}

Load(kind, refs, rs, fs, n, k, c) ==
    [kind |-> kind, refs |-> refs, readmes |-> rs, files |-> fs, pushes |-> n, faults |-> k, checks |-> c]

\* Models: two pushes of the library or of README.md with a failure, one with all
\* attempts failing, two on two branches, two with two files, two of a README.md that
\* cannot be parsed, some that are checked.  A space, and codes that are checked.
SomeLoads ==
    {Load("model", {Main}, {r1}, {library}, 2, 1, FALSE), Load("model", {Main}, {r1, r2}, {}, 2, 1, FALSE),
     Load("model", {Main}, {r1}, {library}, 1, 3, FALSE), Load("model", Refs, {r1, r2}, {library}, 2, 0, FALSE),
     Load("model", {Main}, {}, {library, extra}, 2, 1, FALSE), Load("model", {Main}, {r1, r3}, {}, 2, 0, FALSE),
     Load("model", {Main}, {r1, r2}, {}, 2, 0, TRUE), Load("model", {Main}, {r1, r2}, {}, 1, 1, TRUE),
     Load("space", {Main}, {r1, r2, r3}, {library}, 2, 1, FALSE),
     Load("code", {Main}, {r1, r2}, {}, 2, 0, TRUE), Load("code", {Main}, {r1, r2}, {}, 1, 2, TRUE)}
=============================================================================
