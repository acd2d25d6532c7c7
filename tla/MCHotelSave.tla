----------------------------- MODULE MCHotelSave -----------------------------
(* Small instances of the whole service for TLC. *)
EXTENDS HotelSave, TLC

MCOwner == [j \in Jobs |-> CHOOSE u \in Users : TRUE]
MCOriginal == [j \in Jobs |-> 100]
MCCheckOut == [j \in Jobs |-> 2]
MCOneOffer == {[price |-> 85, link |-> TRUE]}
MCSymmetry == Permutations(Clients)
=============================================================================
