------------------------------- MODULE Ledger -------------------------------
(***************************************************************************)
(* What the accounting of intervals promises: an interval is entered once, *)
(* only when it was asked for, and stays entered; a request is settled     *)
(* when its interval is entered or set aside, or when the ledger has given *)
(* up on it, and is never taken up again.                                  *)
(***************************************************************************)
EXTENDS Naturals, Sequences

CONSTANTS
  Events,  \* the intervals, and Junk
  Junk     \* a request that is about no interval

VARIABLES
  asked,    \* the requests, in order
  settled,  \* which of them are settled
  entries,  \* how often each interval is entered
  aside,    \* the intervals that were set aside
  gaveUp    \* those on which the ledger may give up

books == <<asked, settled, entries, aside>>

Init ==
  /\ asked = <<>> /\ settled = {}
  /\ entries = [e \in Events |-> 0]
  /\ aside = {} /\ gaveUp = {}

Asked == {asked[i] : i \in DOMAIN asked}

Ask(e) == asked' = Append(asked, e) /\ UNCHANGED <<settled, entries, aside>>

Enter(e) ==
  /\ e \in Asked \ {Junk} /\ entries[e] = 0
  /\ entries' = [entries EXCEPT ![e] = 1]
  /\ UNCHANGED <<asked, settled, aside>>

SetAside(e) ==
  /\ e \in Asked
  /\ aside' = aside \cup {e}
  /\ UNCHANGED <<asked, settled, entries>>

Settle(i) ==
  /\ i \in DOMAIN asked
  /\ entries[asked[i]] = 1 \/ asked[i] \in aside \cup gaveUp
  /\ settled' = settled \cup {i}
  /\ UNCHANGED <<asked, entries, aside>>

Next ==
  /\ gaveUp \subseteq gaveUp'
  /\ \/ UNCHANGED books
     \/ \E e \in Events : Ask(e) \/ Enter(e) \/ SetAside(e)
     \/ \E i \in DOMAIN asked : Settle(i)

Spec == Init /\ [][Next]_<<asked, settled, entries, aside, gaveUp>>
=============================================================================
