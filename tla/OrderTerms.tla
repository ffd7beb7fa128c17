----------------------------- MODULE OrderTerms -----------------------------
(***************************************************************************)
(* What an order's terms allow, which the trading core, the router and the *)
(* book each evaluate for themselves and must agree on.  A request is a    *)
(* record with at least side, type, tif and price; the price of a market   *)
(* order is the reference price stamped on it when it was accepted.        *)
(***************************************************************************)
EXTENDS Money

CONSTANT CollarBps

ASSUME CollarAssumption == CollarBps \in 0 .. BpsScale

\* The worst price an order may execute at: its limit, or the collar's edge.
Bound(r) ==
    IF r.type = "LIMIT" THEN r.price
    ELSE IF r.side = "BUY" THEN ApplyBps(r.price, CollarBps)
                           ELSE SubBps(r.price, CollarBps)

\* A resting order's price is its limit, and it is the price of the fill.
Accepts(r, price) ==
    IF r.side = "BUY" THEN price <= Bound(r) ELSE price >= Bound(r)

\* Whether a remainder may stay in the book.
MayRest(r) == r.type = "LIMIT" /\ r.tif = "GTC"
=============================================================================
