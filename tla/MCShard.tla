------------------------------ MODULE MCShard ------------------------------
(***************************************************************************)
(* Small instances of the shard for TLC: two venues, a few orders.         *)
(***************************************************************************)
EXTENDS Shard

CONSTANTS o1, o2, o3, v1, v2

MCRank == (v1 :> 1) @@ (v2 :> 2)

Request(side, type, tif, qty, price, venue) ==
    [side |-> side, type |-> type, tif |-> tif, qty |-> qty, price |-> price, venue |-> venue]

\* Buyers that sweep both venues, and sellers queued on either.
MCRequests ==
    { Request("BUY",  "LIMIT",  "GTC", 2, 2, v1),
      Request("BUY",  "MARKET", "IOC", 2, 1, v1),
      Request("SELL", "LIMIT",  "GTC", 1, 1, v2),
      Request("SELL", "LIMIT",  "GTC", 1, 2, v1) }

\* The same without the market order, where there are three orders.
FewRequests == {r \in MCRequests : r.type = "LIMIT"}

OrderSymmetry == Permutations(Orders)
=============================================================================
