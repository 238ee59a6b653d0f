----------------------------- MODULE OrderBook -----------------------------
(***************************************************************************)
(* What the settlement contracts promise of each order, without            *)
(* signatures, tokens, fees or time: an order can be traded from the       *)
(* moment its maker signs it until it is filled or closed, both of which   *)
(* are final; a filled order has sold exactly what it offered, any other   *)
(* order nothing.                                                          *)
(***************************************************************************)
CONSTANTS Orders, SellAmount

VARIABLES
    status,     \* "unsigned", "open", "filled" or "closed"
    sold        \* what the maker has given for the order so far

vars == <<status, sold>>

Init ==
    /\ status \in [Orders -> {"unsigned", "closed"}]
    /\ sold = [o \in Orders |-> 0]

Sign(o) ==
    /\ status[o] = "unsigned"
    /\ status' = [status EXCEPT ![o] = "open"]
    /\ UNCHANGED sold

Fill(o) ==
    /\ status[o] = "open"
    /\ status' = [status EXCEPT ![o] = "filled"]
    /\ sold' = [sold EXCEPT ![o] = SellAmount[o]]

\* A cancellation closes every order of its nonce, the passing of time
\* every order that expires.
Close(S) ==
    /\ \A o \in S : status[o] \in {"unsigned", "open"}
    /\ status' = [o \in Orders |-> IF o \in S THEN "closed" ELSE status[o]]
    /\ UNCHANGED sold

Next ==
    \/ \E o \in Orders : Sign(o) \/ Fill(o)
    \/ \E S \in SUBSET Orders : Close(S)

Spec == Init /\ [][Next]_vars
=============================================================================
