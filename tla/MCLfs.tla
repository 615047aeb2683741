------------------------------- MODULE MCLfs -------------------------------
(* Model checking of Lfs on small instances. *)
EXTENDS Lfs, TLC
CONSTANTS c1, c2

Load(writers, sizes, p, k, f) ==
  [writers |-> writers, links |-> {"direct", "server"}, sizes |-> sizes,
   pushes |-> p, lockCalls |-> k, faults |-> f]

\* Pushes of pointers with right sizes and with wrong ones, and locks.
LfsLoads ==
  {Load({c1}, {Content}, 2, 0, 2),
   Load({c1}, {1, 2, 3}, 2, 0, 1),
   Load({c1, c2}, {Content}, 0, 4, 1)}
============================================================================
