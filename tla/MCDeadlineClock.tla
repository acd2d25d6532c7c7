--------------------------- MODULE MCDeadlineClock ---------------------------
(* A small instance of the deadline clock for TLC, in real hours. *)
EXTENDS DeadlineClock

\* What the theorem about InTime asks of the hours.
ASSUME InstanceFits == HoursFit /\ DeadlinesPrecedeCheckOut

MCOwner == [j \in Jobs |-> CHOOSE u \in Users : TRUE]
MCOriginal == [j \in Jobs |-> 100]
MCCheckOut == [j \in Jobs |-> 100]
MCOffers == {[price |-> 85, link |-> TRUE]}
=============================================================================
