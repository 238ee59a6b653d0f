---------------------------- MODULE HybridRoute ----------------------------
(***************************************************************************)
(* HybridLiquidityRouter: one order is routed to the internal book, to 0x, *)
(* or to both.  The book is read first and not reserved; it moves while 0x *)
(* is asked.  Fractions are kept in tenths of a unit, as the ratio is.     *)
(***************************************************************************)
EXTENDS Integers, FiniteSetsExt

CONSTANTS
    OrderAmounts,   \* sell amounts, in units
    BookDepths,     \* what the internal book can fill, in units
    UsdValues,      \* value of an order; 0 when it is not known
    Ratios,         \* split_ratio, in tenths
    InternalMaxUsd,
    MaxBookMoves    \* bound on changes of the book while an order is routed

VARIABLES
    book,           \* depth of the internal book now
    route,          \* the order being routed and what was decided
    moves           \* changes of the book since it was read

routeVars == <<book, route, moves>>

Decisions == {"none", "internal", "zerox", "split", "failed"}
RouteSteps == {"idle", "read", "quote", "done"}

ASSUME RouteAssumption ==
    /\ OrderAmounts \subseteq Nat \ {0}
    /\ BookDepths \subseteq Nat /\ 0 \in BookDepths
    /\ UsdValues \subseteq Nat /\ 0 \in UsdValues
    /\ Ratios \subseteq Nat
    /\ InternalMaxUsd \in Nat \ {0}
    /\ MaxBookMoves \in Nat

NoRoute == [step |-> "idle", amount |-> 0, ratio |-> 0, read |-> 0, usd |-> 0,
            decision |-> "none", internal |-> 0, zerox |-> 0, asked |-> 0]

\* The parts of a decided route, in tenths; what 0x is asked for, in units.
Parts(decision, internal, zerox, asked) ==
    [route EXCEPT !.step = IF asked = -1 THEN "done" ELSE "quote",
                  !.decision = decision, !.internal = internal,
                  !.zerox = zerox, !.asked = asked]

\* Mutant: the ratio of the order is taken without looking at the book.
RatioOfOrder(read, amount, ratio) == amount * ratio

InternalFill(read, amount, ratio) == Min({10 * read, amount * ratio})

RouteInit == book = 0 /\ route = NoRoute /\ moves = 0

\* The book changes under other orders (external).
BookMoves(depth) ==
    /\ moves < MaxBookMoves /\ depth # book
    /\ book' = depth
    /\ moves' = moves + 1
    /\ UNCHANGED route

\* route_instant_swap, forced or without a book, asks 0x for everything;
\* unforced it calls route_order without a pair, which reads no book.
RouteInstantSwap(amount, forced) ==
    /\ route.step = "idle"
    /\ route' = [NoRoute EXCEPT !.step = IF forced THEN "quote" ELSE "read",
                                !.amount = amount, !.ratio = 6,
                                !.decision = IF forced THEN "zerox" ELSE "none",
                                !.zerox = IF forced THEN 10 * amount ELSE 0,
                                !.asked = IF forced THEN amount ELSE 0]
    /\ moves' = 0
    /\ UNCHANGED book

\* route_order up to its decision; a liquidity or value function that fails
\* counts as 0.
RouteOrder(amount, usd, ratio, fails) ==
    /\ route.step = "idle"
    /\ route' = [NoRoute EXCEPT !.step = "read", !.amount = amount, !.usd = usd,
                                !.read = IF fails THEN 0 ELSE book,
                                !.ratio = ratio]
    /\ moves' = 0
    /\ UNCHANGED book

Decide ==
    LET whole == 10 * route.amount
        internal == InternalFill(route.read, route.amount, route.ratio)
        external == whole - internal
    IN  /\ route.step = "read"
        /\ route' =
              IF route.read >= route.amount
                 /\ (route.usd <= InternalMaxUsd \/ route.usd = 0)
              THEN Parts("internal", whole, 0, -1)
              ELSE IF route.read <= 0
              THEN Parts("zerox", 0, whole, route.amount)
              ELSE IF external <= 0
              THEN Parts("internal", whole, 0, -1)
              ELSE Parts("split", internal, external, external \div 10)
        /\ UNCHANGED <<book, moves>>

\* 0x answers, or its error leaves the router and nothing is routed.
QuoteAnswered(ok) ==
    /\ route.step = "quote"
    /\ route' = IF ok THEN [route EXCEPT !.step = "done"]
                ELSE [NoRoute EXCEPT !.step = "done", !.decision = "failed"]
    /\ UNCHANGED <<book, moves>>

\* The caller takes the result and comes with the next order.
TakeRoute ==
    /\ route.step = "done"
    /\ route' = NoRoute
    /\ moves' = 0
    /\ UNCHANGED book

RouteNext ==
    \/ \E depth \in BookDepths : BookMoves(depth)
    \/ \E a \in OrderAmounts :
          \/ \E forced \in BOOLEAN : RouteInstantSwap(a, forced)
          \/ \E usd \in UsdValues, r \in Ratios, f \in BOOLEAN : RouteOrder(a, usd, r, f)
    \/ Decide
    \/ \E ok \in BOOLEAN : QuoteAnswered(ok)
    \/ TakeRoute

RouteSpec == RouteInit /\ [][RouteNext]_routeVars

----------------------------------------------------------------------------
RouteTypeOK ==
    /\ book \in Nat /\ moves \in Nat
    /\ route.step \in RouteSteps /\ route.decision \in Decisions
    /\ {route.amount, route.ratio, route.read, route.usd, route.internal,
        route.zerox} \subseteq Nat
    /\ route.asked \in Nat \cup {-1}

Routed == route.step = "done" /\ route.decision # "failed"

\* A finished route sends every unit somewhere; its internal part fits into
\* the book, unless the book moved while 0x was asked (it is read once and
\* nothing is reserved); all of an order above the cap stays inside only if
\* its value is unknown or the ratio leaves nothing for 0x; and the quote is
\* for the external part less a fraction of a unit (int() truncates it).
RoutesFit ==
    Routed =>
       /\ route.internal + route.zerox = 10 * route.amount
       /\ moves = 0 => route.internal <= 10 * book
       /\ (route.zerox = 0 /\ route.usd > InternalMaxUsd) => route.ratio >= 10
       /\ route.zerox > 0 => /\ 10 * route.asked <= route.zerox
                             /\ route.zerox < 10 * route.asked + 10
=============================================================================
