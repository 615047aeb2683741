---------------------------- MODULE MCMirrorSync ----------------------------
(* Model checking of MirrorSync on small instances. *)
EXTENDS MirrorSync, TLC

\* The repositories that exist at first have LFS files, the others have none.
SomePointers == [r \in Repos |-> IF r \in Existing THEN Objs ELSE {}]

AllOps == {"create", "crawl", "saas", "sync", "update", "delete", "edit", "drop"}
Load(team, ops, n, f, k) == [team |-> team, ops |-> ops, calls |-> n, faults |-> f, crashes |-> k]

\* One worker of each kind, and two of one kind.
V == CHOOSE v \in RepoWorkers : TRUE
W == CHOOSE w \in LfsWorkers : TRUE

\* Two workers on one mirror that is triggered twice, nothing failing; every
\* call, with two failures; a crash and a failure.
SomeLoads ==
  {Load(RepoWorkers \cup {W}, {"create", "sync"}, 3, 0, 0),
   Load({V} \cup LfsWorkers, {"create", "sync"}, 2, 0, 0),
   Load({V, W}, AllOps, 2, 2, 0),
   Load({V, W}, {"create", "sync"}, 1, 1, 1)}
=============================================================================
