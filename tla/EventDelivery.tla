---------------------------- MODULE EventDelivery ----------------------------
(***************************************************************************)
(* What a transactional outbox promises its consumers: a row is stored     *)
(* once, rows are delivered at least once, no row is delivered for the     *)
(* first time before the rows stored ahead of it, and only a delivered row *)
(* is ever marked as published.                                            *)
(***************************************************************************)
EXTENDS Naturals, Sequences

CONSTANT Event                  \* everything that may be stored

VARIABLES
    stored,                     \* the rows, in the order they were stored
    delivered,                  \* the row numbers on the topic, repeats included
    acknowledged                \* the row numbers marked as published

vars == <<stored, delivered, acknowledged>>

IsDelivered(i) == \E k \in DOMAIN delivered : delivered[k] = i

Init ==
    /\ stored = <<>>
    /\ delivered = <<>>
    /\ acknowledged = {}

Store(e) ==
    /\ \A i \in DOMAIN stored : stored[i] # e
    /\ stored' = Append(stored, e)
    /\ UNCHANGED <<delivered, acknowledged>>

Deliver(i) ==
    /\ i \in DOMAIN stored
    /\ \A j \in 1..(i - 1) : IsDelivered(j)
    /\ delivered' = Append(delivered, i)
    /\ UNCHANGED <<stored, acknowledged>>

Acknowledge(i) ==
    /\ IsDelivered(i)
    /\ acknowledged' = acknowledged \cup {i}
    /\ UNCHANGED <<stored, delivered>>

Next ==
    \/ \E e \in Event : Store(e)
    \/ \E i \in DOMAIN stored : Deliver(i)
    \/ \E i \in DOMAIN stored : Acknowledge(i)

Spec == Init /\ [][Next]_vars
==============================================================================
