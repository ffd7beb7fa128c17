--------------------------- MODULE MCTradingCore ---------------------------
(***************************************************************************)
(* Small instances of the trading core for TLC.                            *)
(***************************************************************************)
EXTENDS TradingCore, TLC

CONSTANTS a1, a2, p1, p2, o1, o2, o3

MCPartOf == (a1 :> p1) @@ (a2 :> p2)
MCCash   == (a1 :> 12) @@ (a2 :> 4)
MCShares == (a1 :> 0) @@ (a2 :> 2)
MCFunding == {1}

Request(acct, side, type, tif, qty, price) ==
    [acct |-> acct, side |-> side, type |-> type, tif |-> tif,
     qty |-> qty, price |-> price]

\* Two sides, both kinds, a price improvement, a partial fill either way.
MCRequests ==
    { Request(a1, "BUY",  "LIMIT",  "GTC", 2, 2),
      Request(a1, "BUY",  "MARKET", "IOC", 1, 2),
      Request(a2, "SELL", "LIMIT",  "GTC", 1, 1),
      Request(a2, "SELL", "LIMIT",  "GTC", 2, 2),
      Request(a2, "SELL", "LIMIT",  "IOC", 2, 2) }

\* A buy that is filled below its limit first and at its limit next, under a
\* fee of one half: the cumulative fee and the cumulative headroom round at
\* different places.
ImprovedRequests ==
    { Request(a1, "BUY",  "LIMIT", "IOC", 2, 3),
      Request(a2, "SELL", "LIMIT", "GTC", 1, 2),
      Request(a2, "SELL", "LIMIT", "GTC", 1, 3) }

\* The same in halves of a share, where a notional is rounded as well.
FractionalRequests ==
    { Request(a1, "BUY",  "LIMIT", "IOC", 4, 5),
      Request(a2, "SELL", "LIMIT", "GTC", 1, 4),
      Request(a2, "SELL", "LIMIT", "GTC", 3, 5) }

FractionalCash    == (a1 :> 16) @@ (a2 :> 4)
FractionalShares  == (a1 :> 0) @@ (a2 :> 4)
FractionalFunding == {2}

OrderSymmetry == Permutations(Orders)
=============================================================================
