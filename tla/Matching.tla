------------------------------ MODULE Matching ------------------------------
(***************************************************************************)
(* The like-for-like rules of app/services/matching.py: which offered rate *)
(* is the same product as the booking, and when a cheaper one is worth an  *)
(* email.  Prices are integers; the percentage floor is kept exact by      *)
(* comparing hundredths.  A room name is the set of tier words it          *)
(* contains.                                                               *)
(***************************************************************************)
EXTENDS Integers, Sequences

CONSTANTS
    DropFloorAbs,   \* settings.drop_floor_abs
    DropFloorPct,   \* settings.drop_floor_pct, in percent
    None            \* "not stated" / "no offer"

ASSUME FloorAssumption ==
    /\ DropFloorAbs \in Nat
    /\ DropFloorPct \in Nat
    /\ None \notin Int

-----------------------------------------------------------------------------

\* max(absolute floor, percentage of the original), in hundredths.
DropFloor100(original) ==
    LET abs == 100 * DropFloorAbs
        pct == DropFloorPct * original
    IN  IF abs >= pct THEN abs ELSE pct

\* price beats `reference` by more than the booking's floor.
BelowByFloor(price, reference, original) ==
    100 * price < 100 * reference - DropFloor100(original)

\* `best` is None or a record with a price.
IsActionableDrop(best, original) ==
    best # None /\ BelowByFloor(best.price, original, original)

-----------------------------------------------------------------------------

\* The vocabulary in the order the code scans it: the first word found wins.
RoomClasses ==
    <<"presidential", "penthouse", "junior suite", "suite", "executive",
      "premium", "deluxe", "luxury", "superior", "comfort", "classic",
      "standard", "economy", "budget">>

\* The tier a room name states; a name without a tier word states none.
RoomClass(words) ==
    LET hits == {i \in DOMAIN RoomClasses : RoomClasses[i] \in words}
    IN  IF hits = {} THEN None
        ELSE RoomClasses[CHOOSE i \in hits : \A k \in hits : i <= k]

\* Two stated values may not differ; a value nobody stated decides nothing.
Compatible(booked, found) == booked = None \/ found = None \/ booked = found

\* Mutant: a room-only rate passes for a breakfast booking.
MatchesRoom_AnyBoard(cand, booking) ==
    /\ cand.refundable
    /\ \/ booking.deadline = None
       \/ cand.free_until = None
       \/ cand.free_until >= booking.deadline
    /\ Compatible(RoomClass(booking.room), RoomClass(cand.room))
    /\ Compatible(booking.adults, cand.adults)

MatchesRoom(cand, booking) ==
    /\ cand.refundable
    /\ \/ booking.deadline = None
       \/ cand.free_until = None
       \/ cand.free_until >= booking.deadline
    /\ booking.board = None \/ cand.board = booking.board
    /\ Compatible(RoomClass(booking.room), RoomClass(cand.room))
    /\ Compatible(booking.adults, cand.adults)
    /\ Compatible(booking.children, cand.children)

\* Mutant: the first eligible candidate, not the cheapest.
BestLikeForLike_First(cands, booking) ==
    LET eligible == {i \in DOMAIN cands : MatchesRoom(cands[i], booking)}
    IN  IF eligible = {} THEN None
        ELSE cands[CHOOSE i \in eligible : \A k \in eligible : i <= k]

\* Python's min keeps the first of equally cheap candidates.
BestLikeForLike(cands, booking) ==
    LET eligible == {i \in DOMAIN cands : MatchesRoom(cands[i], booking)}
        Cheaper(i, k) == \/ cands[i].price < cands[k].price
                         \/ cands[i].price = cands[k].price /\ i <= k
    IN  IF eligible = {} THEN None
        ELSE cands[CHOOSE i \in eligible : \A k \in eligible : Cheaper(i, k)]

=============================================================================
