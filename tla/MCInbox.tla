------------------------------- MODULE MCInbox -------------------------------
(* A small instance of the accounts and the inbox for TLC. *)
EXTENDS Inbox, TLC

\* What the search yields: two hotels in Athens, one in Chania, one in Rome.
MCCatalogue ==
    {[id |-> 1, country |-> "GR", city |-> "Athens"],
     [id |-> 2, country |-> "GR", city |-> "Athens"],
     [id |-> 3, country |-> "GR", city |-> "Chania"],
     [id |-> 4, country |-> "IT", city |-> "Rome"]}

\* "Italia" is a country, but no code.
MCBookings ==
    [country : {"GR", "IT", "Italia", None}, city : {"Athens", "Chania", None},
     refundable : {TRUE}, deadline : {TRUE}]
    \cup [country : {"GR"}, city : {"Chania"}, refundable : BOOLEAN, deadline : {FALSE}]

MCSymmetry == Permutations(Servers) \cup Permutations(Visitors)
=============================================================================
