------------------------------ MODULE MCJobApi ------------------------------
(* Small instances of the job API for TLC. *)
EXTENDS JobApi, TLC

MCOwner == [j \in Jobs |-> CHOOSE u \in Users : TRUE]
MCOriginal == [j \in Jobs |-> 100]
MCCheckOut == [j \in Jobs |-> 5]
MCSymmetry == Permutations(Clients) \cup Permutations(Hotels)
=============================================================================
