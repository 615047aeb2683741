----------------------------- MODULE MCAccounts -----------------------------
(* Model checking of Accounts on small instances. *)
EXTENDS Accounts, TLC
CONSTANTS c1, c2, p1, p2, p3, n1, n2, n3, n4

MCCasName == p1 :> n1 @@ p2 :> n2 @@ p3 :> n3

Load(g, known, ops, clients, k, f) ==
  [gitea |-> g, known |-> known, ops |-> ops, clients |-> clients, calls |-> k, faults |-> f]

\* Sign-ins, profiles and names; organizations and their members; tokens; deletion.
AccountLoads ==
  {Load(TRUE, <<p1>>, {"signin", "update", "rename", "org"}, {c1, c2}, 3, 1),
   Load(TRUE, <<p1, p2>>, {"signin", "update", "rename", "org", "unorg"}, {c1, c2}, 4, 0),
   Load(TRUE, <<p1, p2>>, {"org", "unorg", "member", "unmember"}, {c1}, 4, 1),
   Load(FALSE, <<p1, p2>>, {"org", "member", "unmember", "delete"}, {c1, c2}, 3, 1),
   Load(TRUE, <<p1>>, {"token", "untoken", "refresh"}, {c1, c2}, 4, 1),
   Load(FALSE, <<p1, p2>>, {"signin", "token", "delete", "org"}, {c1, c2}, 3, 2)}
=============================================================================
