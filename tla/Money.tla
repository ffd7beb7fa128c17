------------------------------- MODULE Money -------------------------------
(***************************************************************************)
(* Fixed-point money arithmetic (internal/money/money.go).  Every amount   *)
(* on a path that sizes a reservation or settles a fill is non-negative,   *)
(* so the operators are the code's with the sign handling left out.  The   *)
(* two scales are parameters: 1000000 and 10000 in the code, small numbers *)
(* in a model, so that every rounding case occurs among few values.        *)
(***************************************************************************)
EXTENDS Integers, FiniteSetsExt

CONSTANTS QtyScale,   \* quantity units in one share
          BpsScale,   \* basis points in one
          MaxMinor    \* the largest int64 amount

ASSUME MoneyAssumption ==
    /\ QtyScale \in Nat \ {0}
    /\ BpsScale \in Nat \ {0}
    /\ MaxMinor \in Nat

CeilDiv(n, d) == (n + d - 1) \div d

Lesser(a, b)  == IF a < b THEN a ELSE b
Greater(a, b) == IF a < b THEN b ELSE a

\* Whether an amount is representable: the code's "ok" result.
Fits(n) == n <= MaxMinor

\* What a fill settles at: rounded once, towards zero, for both sides.
Notional(qty, price) == (qty * price) \div QtyScale

\* What a reservation is sized with: rounded away from zero.
NotionalCeil(qty, price) == CeilDiv(qty * price, QtyScale)

\* A fee: rounded away from zero.
FeeBps(amount, bps) == CeilDiv(amount * bps, BpsScale)

\* The two edges of the collar around a reference price.
ApplyBps(amount, bps) == amount + FeeBps(amount, bps)
SubBps(amount, bps)   == amount - FeeBps(amount, bps)

\* What the amounts f[x] of the members of a finite set add up to.
SumOver(f, S) == MapThenSumSet(LAMBDA x : f[x], S)
=============================================================================
