----------------------------- MODULE PathLocks -----------------------------
(***************************************************************************)
(* What locks of paths promise: a path has one lock at most, and a lock    *)
(* goes only by leave that somebody got for this very lock, as its owner   *)
(* or by force.  Leave for a former lock of a path is no leave for the     *)
(* next one.                                                               *)
(***************************************************************************)
CONSTANTS Users, Locks

VARIABLES
  held,  \* the locks: records with a repository, a path, the user and more
  leave  \* who has leave to remove which lock, and whether by force

Init == held = {} /\ leave = {}

Grant(l) ==
  /\ \A k \in held : k.repo # l.repo \/ k.path # l.path
  /\ \A a \in leave : a.lock # l
  /\ held' = held \cup {l}
  /\ UNCHANGED leave

GetLeave(u, l, force) ==
  /\ l \in held /\ (force \/ l.user = u)
  /\ leave' = leave \cup {[user |-> u, lock |-> l, force |-> force]}
  /\ UNCHANGED held

Remove(a) ==
  /\ a \in leave
  /\ held' = held \ {a.lock} /\ leave' = leave \ {a}

\* Leave may go unused.
Forget(a) ==
  /\ a \in leave
  /\ leave' = leave \ {a}
  /\ UNCHANGED held

Next ==
  \/ \E l \in Locks : Grant(l)
  \/ \E u \in Users, l \in held, force \in BOOLEAN : GetLeave(u, l, force)
  \/ \E a \in leave : Remove(a) \/ Forget(a)

Spec == Init /\ [][Next]_<<held, leave>>
=============================================================================
