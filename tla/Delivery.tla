------------------------------- MODULE Delivery -------------------------------
(***************************************************************************)
(* What one device promises the other about the user's copies: a copy is   *)
(* delivered at most once, only after it was made, and, where no two       *)
(* connections overlap at the receiver, in the order of the copies.  It    *)
(* does not promise that a copy is delivered.                              *)
(***************************************************************************)
EXTENDS Naturals, Sequences

VARIABLES
  ordered,   \* whether the copies arrive in order: it is settled once
  copied,    \* number of copies made so far; they are numbered from 1
  delivered  \* the copies delivered, in the order of delivery

Init == ordered \in BOOLEAN /\ copied = 0 /\ delivered = <<>>

Copy == copied' = copied + 1 /\ UNCHANGED <<ordered, delivered>>

Deliver(i) ==
  /\ \A k \in DOMAIN delivered : delivered[k] # i /\ (ordered => delivered[k] < i)
  /\ delivered' = Append(delivered, i)
  /\ UNCHANGED <<ordered, copied>>

Next == Copy \/ \E i \in 1..copied : Deliver(i)

Spec == Init /\ [][Next]_<<ordered, copied, delivered>>
=============================================================================
