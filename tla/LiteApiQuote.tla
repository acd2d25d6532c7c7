---------------------------- MODULE LiteApiQuote ----------------------------
(***************************************************************************)
(* One price check with the LiteAPI source, from the provider's rates to   *)
(* the decision that a drop was found: app/services/price_source/liteapi.py*)
(* reads the rates one by one into candidates, matching.py picks the       *)
(* cheapest like-for-like one and compares it with the booking.            *)
(* A raw rate is what the reply says; a missing value is None.             *)
(***************************************************************************)
EXTENDS Matching, FiniteSetsExt

CONSTANTS
    Bookings,     \* bookings a run prices
    RawRates,     \* rates the provider may return
    MaxRates      \* bound on the rates of one reply

VARIABLES
    booking,      \* the job being checked
    read,         \* the raw rates read so far, in the reply's order
    candidates,   \* the candidates made of them
    phase,        \* "reading", "decided", or "raised"
    best          \* best_like_for_like's answer once decided

vars == <<booking, read, candidates, phase, best>>

-----------------------------------------------------------------------------
(* One raw rate. *)

\* Fees on top of the quoted total; those without an amount are passed over.
Extras(raw) == {i \in DOMAIN raw.fees : ~raw.fees[i].included /\ raw.fees[i].amount # None}

\* A fee that names no currency is in the currency of the total.
ForeignFee(raw) ==
    \E i \in Extras(raw) : raw.fees[i].currency \notin {None, raw.currency}

\* The rate has a total and no fee that cannot be added to it.
Usable(raw) == raw.ours /\ raw.amount # None /\ ~ForeignFee(raw)

\* Mutant: the quoted total is taken as all-in.
AllIn_TotalOnly(raw) == raw.amount

AllIn(raw) == raw.amount + MapThenSumSet(LAMBDA i : raw.fees[i].amount, Extras(raw))

\* The earliest cancellation boundary the reply states in a form that parses.
FreeUntil(raw) ==
    IF raw.boundaries = {} THEN None
    ELSE CHOOSE b \in raw.boundaries : \A c \in raw.boundaries : b <= c

\* Provider codes; an unknown code falls back to the name of the board.
BoardMap == [RO |-> "RO", BI |-> "BB", BB |-> "BB", HB |-> "HB", FB |-> "FB", AI |-> "AI"]
BoardNames == [breakfast |-> "BB", half_board |-> "HB", full_board |-> "FB",
               all_inclusive |-> "AI"]

BoardType(raw) ==
    IF raw.boardCode \in DOMAIN BoardMap THEN BoardMap[raw.boardCode]
    ELSE IF raw.boardName \in DOMAIN BoardNames THEN BoardNames[raw.boardName]
    ELSE IF raw.boardName = "room_only" \/ (raw.boardName = None /\ raw.boardCode # None)
    THEN "RO"
    ELSE None

\* children is never stated by this source, and it has no rebook link.
Candidate(raw) ==
    [price |-> AllIn(raw), currency |-> raw.currency, board |-> BoardType(raw),
     adults |-> raw.occupancy, children |-> None, refundable |-> raw.tag = "RFN",
     room |-> raw.room, free_until |-> FreeUntil(raw), link |-> FALSE]

\* Amounts and moments are numbers, or not stated; a reply names its fees one
\* after the other.
ASSUME QuoteAssumption ==
    /\ \A b \in Bookings : b.original \in Int /\ b.deadline \in Nat \cup {None}
    /\ \A raw \in RawRates :
          /\ raw.amount \in Int \cup {None}
          /\ Len(raw.fees) \in Nat /\ DOMAIN raw.fees = 1 .. Len(raw.fees)
          /\ \A i \in DOMAIN raw.fees : raw.fees[i].amount \in Int \cup {None}
          /\ raw.boundaries \subseteq Nat
          /\ Usable(raw) => Candidate(raw) # None

-----------------------------------------------------------------------------

Init ==
    /\ booking \in Bookings
    /\ read = <<>>
    /\ candidates = <<>>
    /\ phase = "reading"
    /\ best = None

\* The loop of _to_candidates takes the next rate of the reply.
ReadRate(raw) ==
    /\ phase = "reading"
    /\ Len(read) < MaxRates
    /\ read' = Append(read, raw)
    /\ ~(Usable(raw) /\ raw.mixedStamps)
    /\ candidates' = IF Usable(raw) THEN Append(candidates, Candidate(raw)) ELSE candidates
    /\ UNCHANGED <<booking, phase, best>>

\* Boundaries with and without an offset do not compare: the check raises.
ReadRaises(raw) ==
    /\ phase = "reading"
    /\ Len(read) < MaxRates
    /\ read' = Append(read, raw)
    /\ Usable(raw) /\ raw.mixedStamps
    /\ phase' = "raised"
    /\ UNCHANGED <<booking, candidates, best>>

\* The reply is read (an HTTP error reads as an empty reply): matching decides.
Decide ==
    /\ phase = "reading"
    /\ phase' = "decided"
    /\ best' = BestLikeForLike(candidates, booking)
    /\ UNCHANGED <<booking, read, candidates>>

Next == (\E raw \in RawRates : ReadRate(raw) \/ ReadRaises(raw)) \/ Decide

Spec == Init /\ [][Next]_vars

-----------------------------------------------------------------------------
(* Properties. *)

FoundDrop == phase = "decided" /\ IsActionableDrop(best, booking.original)

\* What a traveller who books the rate pays, fee after fee.
Payable(raw) ==
    LET fees == raw.fees
        total[i \in 0 .. Len(fees)] ==
            IF i = 0 THEN raw.amount
            ELSE IF fees[i].included \/ fees[i].amount = None THEN total[i - 1]
            ELSE total[i - 1] + fees[i].amount
    IN  total[Len(fees)]

\* The one tier whose words contain another's.
JuniorSuite(room) == "junior suite" \in room

\* Nothing the reply says of the rate makes it a worse product than the booking:
\* the five rules, read off the reply.  A stated board is kept to the letter; a
\* rate whose board is not known is not that board.
NoWorse(raw) ==
    /\ raw.tag = "RFN"
    /\ booking.deadline # None => \A b \in raw.boundaries : b >= booking.deadline
    /\ booking.board # None => BoardType(raw) = booking.board
    /\ Compatible(RoomClass(booking.room), RoomClass(raw.room))
    /\ booking.room # {} /\ raw.room # {} => (JuniorSuite(booking.room) <=> JuniorSuite(raw.room))
    /\ Compatible(booking.adults, raw.occupancy)

\* Everything the traveller pays on top is in the currency of the quoted total,
\* so that the two may be added.
OneCurrency(raw) ==
    \A k \in DOMAIN raw.fees :
        \/ raw.fees[k].included \/ raw.fees[k].amount = None
        \/ raw.fees[k].currency \in {None, raw.currency}

\* A room name that says anything names a tier, and names of one tier are all
\* of junior suites or none of them is.
OneTierEach ==
    \A b \in Bookings, raw \in RawRates :
        b.room # {} /\ raw.room # {} =>
            /\ RoomClass(b.room) # None /\ RoomClass(raw.room) # None
            /\ RoomClass(b.room) = RoomClass(raw.room) =>
                  (JuniorSuite(b.room) <=> JuniorSuite(raw.room))

\* A drop is never manufactured: whenever one is found, some rate of this hotel
\* in the reply, no worse than the booking (board included), with no fee in
\* another currency, really costs that much with every fee the traveller pays on
\* top, and that is below the original by the floor.
\* (matching.py "correctness is ethics"; liteapi.py on tax-inclusive totals.)
NoPhantomDrop ==
    FoundDrop =>
        \E i \in DOMAIN read :
            /\ read[i].ours /\ read[i].amount # None
            /\ NoWorse(read[i])
            /\ OneCurrency(read[i])
            /\ Payable(read[i]) = best.price
            /\ BelowByFloor(Payable(read[i]), booking.original, booking.original)

\* Nothing is missed either: if the check says nothing was found, no rate of
\* the reply that is no worse than the booking and can be added up beats the
\* booking by the floor.
NothingMissed ==
    phase = "decided" /\ ~FoundDrop =>
        \A i \in DOMAIN read :
            LET raw == read[i]
            IN  raw.ours /\ raw.amount # None /\ NoWorse(raw) /\ OneCurrency(raw)
                => ~BelowByFloor(Payable(raw), booking.original, booking.original)

\* What the templates show: a quoted price comes with the currency of the event,
\* which is the booking's.  Whatever rate is found, drop or not, may become the
\* recorded lowest price, which the deadline email quotes in that currency.
QuotedInBookingCurrency ==
    phase = "decided" /\ best # None => best.currency = booking.currency

=============================================================================
