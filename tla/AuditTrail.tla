----------------------------- MODULE AuditTrail -----------------------------
(***************************************************************************)
(* What the audit log promises of the entries it is given: each is taken,  *)
(* or dropped when as many as there is room for are pending, once; those   *)
(* taken are settled (stored, or given up when the INSERT fails) one by    *)
(* one in the order they were taken; and a server that stops in good order *)
(* leaves none behind.  AuditLog implements it.                            *)
(***************************************************************************)
EXTENDS Naturals, Sequences

CONSTANTS
  Entries,
  Room      \* how many may be pending before one is dropped

VARIABLES
  state,    \* of the server
  offered,  \* entries that will not be logged again
  pending,  \* entries taken and not settled, in order
  trail     \* entries stored, in order

vars == <<state, offered, pending, trail>>

Init ==
  /\ state = "running"
  /\ offered = {}
  /\ pending = <<>>
  /\ trail = <<>>

\* An entry is taken or, when there is no room, dropped.
Offer(e) ==
  /\ state = "running"
  /\ e \notin offered
  /\ offered' = offered \cup {e}
  /\ \/ pending' = Append(pending, e)
     \/ Len(pending) >= Room /\ pending' = pending
  /\ UNCHANGED <<state, trail>>

\* The oldest entry taken is stored or given up.
Settle ==
  /\ state = "running"
  /\ pending # <<>>
  /\ pending' = Tail(pending)
  /\ trail' \in {trail, Append(trail, Head(pending))}
  /\ UNCHANGED <<state, offered>>

\* Requests under way when the server ends never log their entries.
LastOffers == offered \subseteq offered' /\ offered' \subseteq Entries

Stop ==
  /\ state = "running"
  /\ pending = <<>>
  /\ state' = "stopped"
  /\ LastOffers
  /\ UNCHANGED <<pending, trail>>

Die ==
  /\ state = "running"
  /\ state' = "dead"
  /\ pending' = <<>>
  /\ LastOffers
  /\ UNCHANGED trail

Start ==
  /\ state # "running"
  /\ state' = "running"
  /\ UNCHANGED <<offered, pending, trail>>

Next == (\E e \in Entries : Offer(e)) \/ Settle \/ Stop \/ Die \/ Start

Spec == Init /\ [][Next]_vars
=============================================================================
