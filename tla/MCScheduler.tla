----------------------------- MODULE MCScheduler -----------------------------
(* Small instances of the worker for TLC.  One time unit stands for the     *)
(* shortest cadence; the thresholds keep the order of the real ones.        *)
EXTENDS Scheduler, TLC

MCOwner == [j \in Jobs |-> CHOOSE u \in Users : TRUE]
MCOriginal == [j \in Jobs |-> 100]
MCCheckOut == [j \in Jobs |-> 5]

\* 95 is within the floor of 100; 85 is a drop; 80 a drop that is no deeper
\* than 85 by the floor; 70 is deeper.
MCPrices == {70, 80, 85, 95}
MCOffers == {[price |-> 95, link |-> TRUE], [price |-> 85, link |-> TRUE],
             [price |-> 80, link |-> TRUE],
             [price |-> 70, link |-> TRUE], [price |-> 70, link |-> FALSE]}
MCFewOffers == {[price |-> 85, link |-> TRUE], [price |-> 70, link |-> TRUE],
                [price |-> 70, link |-> FALSE]}
MCDeeperOffers == {[price |-> 85, link |-> TRUE], [price |-> 80, link |-> TRUE],
                   [price |-> 70, link |-> TRUE]}
MCTwoOffers == {[price |-> 85, link |-> TRUE], [price |-> 70, link |-> TRUE]}

MCDeadlines == {2, 4}

\* For two workers: everything over at 2, and the workers interchangeable.
MCShortStay == [j \in Jobs |-> 2]
MCOneDeadline == {2}
MCSymmetry == Permutations(Workers)
=============================================================================
