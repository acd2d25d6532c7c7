---------------------------- MODULE AlertPromise ----------------------------
(***************************************************************************)
(* What HotelSave promises the owner of a booking about email, and nothing *)
(* of how it is done: drop alerts that only ever get deeper, at most one   *)
(* deadline warning, one wrap-up, silence after it.                        *)
(***************************************************************************)
EXTENDS Matching

CONSTANTS Jobs, Prices, Original

VARIABLES
    told,      \* told[j]: number of drop alerts
    last,      \* last[j]: the price in the latest of them, None before the first
    warned,    \* warned[j]: number of deadline warnings
    ended      \* ended[j]: number of wrap-ups

promiseVars == <<told, last, warned, ended>>

PromiseInit ==
    /\ told = [j \in Jobs |-> 0]
    /\ last = [j \in Jobs |-> None]
    /\ warned = [j \in Jobs |-> 0]
    /\ ended = [j \in Jobs |-> 0]

\* A saving worth having: real against what was paid, and against the last
\* price the user was told.
TellDrop(j, price) ==
    /\ ended[j] = 0
    /\ BelowByFloor(price, Original[j], Original[j])
    /\ told[j] # 0 => BelowByFloor(price, last[j], Original[j])
    /\ told' = [told EXCEPT ![j] = @ + 1]
    /\ last' = [last EXCEPT ![j] = price]
    /\ UNCHANGED <<warned, ended>>

Warn(j) ==
    /\ ended[j] = 0
    /\ warned[j] = 0
    /\ warned' = [warned EXCEPT ![j] = 1]
    /\ UNCHANGED <<told, last, ended>>

WrapUp(j) ==
    /\ ended[j] = 0
    /\ ended' = [ended EXCEPT ![j] = 1]
    /\ UNCHANGED <<told, last, warned>>

PromiseNext ==
    \E j \in Jobs :
        \/ \E price \in Prices : TellDrop(j, price)
        \/ Warn(j)
        \/ WrapUp(j)

PromiseSpec == PromiseInit /\ [][PromiseNext]_promiseVars

=============================================================================
