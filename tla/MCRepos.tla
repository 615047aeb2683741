------------------------------- MODULE MCRepos -------------------------------
(* Model checking of Repos on small instances. *)
EXTENDS Repos, TLC
CONSTANTS u1, u2

MCRights == u1 :> {"read", "write", "admin", "mail"} @@ u2 :> {"site", "mail"}
MCSlots == {[kind |-> k, path |-> "p"] : k \in Kinds}

Load(kind, known, ops, n, f) ==
  LET s == [kind |-> kind, path |-> "p"]
  IN [slots |-> {s}, known |-> IF known THEN {s} ELSE {}, ops |-> ops, calls |-> n, faults |-> f]

\* Creations and deletions of each kind; changes while a repository is deleted;
\* likes of repositories and of collections.
RepoLoads ==
  {Load(k, FALSE, {"create", "update", "delete"}, 3, 1) : k \in Kinds}
    \cup {Load("model", TRUE, {"create", "delete"}, 5, 1),
          Load("space", TRUE, {"update", "click", "clone", "delete", "like"}, 4, 1),
          Load("code", TRUE, {"create", "like", "unlike", "delete"}, 5, 0),
          Load("code", TRUE, {"collect", "edit", "uncollect", "like", "unlike"}, 4, 1),
          Load("code", FALSE, {"collect", "uncollect", "like", "unlike"}, 5, 0)}

Symm == Permutations(Clients)
=============================================================================
