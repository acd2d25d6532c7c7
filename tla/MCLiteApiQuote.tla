--------------------------- MODULE MCLiteApiQuote ---------------------------
(* Small instances of a LiteAPI price check for TLC: the original is 100, so *)
(* the floor asks for a price under 90.                                      *)
EXTENDS LiteApiQuote

\* What the theorem about drops asks of the room names.
ASSUME InstanceHasOneTierEach == OneTierEach

Fee(amount, included, currency) == [amount |-> amount, included |-> included,
                                    currency |-> currency]

FeeLists == {<<>>, <<Fee(15, FALSE, "EUR")>>, <<Fee(15, TRUE, "EUR"), Fee(2, FALSE, None)>>,
             <<Fee(None, FALSE, "EUR"), Fee(3, FALSE, "USD")>>}

Rate == [ours |-> TRUE, amount |-> 80, currency |-> "EUR", fees |-> <<>>, tag |-> "RFN",
         boundaries |-> {3}, mixedStamps |-> FALSE, boardCode |-> "BI", boardName |-> None,
         occupancy |-> 2, room |-> {}]

\* Every pair of price and fees, every product difference, and odd replies.
MCRawRates ==
    {[Rate EXCEPT !.amount = amount, !.fees = fees, !.boundaries = boundaries] :
        amount \in {70, 80, 95}, fees \in FeeLists, boundaries \in {{}, {1, 3}, {3}}}
    \cup {[Rate EXCEPT !.tag = tag, !.room = room, !.occupancy = occupancy] :
        tag \in {"RFN", "NRFN"}, occupancy \in {None, 1, 2},
        room \in {{"standard"}, {"suite"}, {"suite", "junior suite"}}}
    \cup {[Rate EXCEPT !.boardCode = code, !.boardName = name] :
        code \in {None, "BI", "RO", "XX"}, name \in {None, "breakfast", "room_only", "other"}}
    \cup {[Rate EXCEPT !.ours = FALSE], [Rate EXCEPT !.amount = None],
          [Rate EXCEPT !.boundaries = {1, 3}, !.mixedStamps = TRUE]}

MCBookings ==
    {[original |-> 100, currency |-> "EUR", deadline |-> deadline, board |-> board,
      room |-> room, adults |-> adults, children |-> 0] :
        deadline \in {None, 2}, board \in {None, "BB", "RO"}, adults \in {None, 2},
        room \in {{}, {"standard"}, {"suite", "junior suite"}}}

MCForeignBookings ==
    {[original |-> 100, currency |-> currency, deadline |-> None, board |-> None,
      room |-> {}, adults |-> None, children |-> None] : currency \in {"EUR", "CHF"}}
=============================================================================
