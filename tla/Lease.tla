------------------------------- MODULE Lease -------------------------------
(***************************************************************************)
(* What a lock with expiration promises: at any time at most one process   *)
(* holds the lease, and it passes to another one only through nobody.      *)
(***************************************************************************)
CONSTANTS Procs, Nobody

VARIABLE holder

Init == holder = Nobody

Grant(p) == holder = Nobody /\ holder' = p

\* The holder is done, crashed, or its lease has run out.
End == holder # Nobody /\ holder' = Nobody

Next == End \/ \E p \in Procs : Grant(p)

Spec == Init /\ [][Next]_holder
=============================================================================
