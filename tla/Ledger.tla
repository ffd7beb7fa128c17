------------------------------- MODULE Ledger -------------------------------
(***************************************************************************)
(* The double-entry ledger of every account, the balance and the position  *)
(* kept beside it, and the checkpoints an account recovers from (engine.go *)
(* writeTxn, outcomes.go halfFillLegs, position.go, replay.go,             *)
(* snapshot.go).  There is one symbol; money and shares are its two units. *)
(*                                                                         *)
(* What settlement does to orders and reservations is in TradingCore.      *)
(* Here a fill is published with the guarantee TradingCore proves, that    *)
(* both sides can pay for it, each half is an order of its own, and a half *)
(* is applied once, in any order relative to the other halves.             *)
(***************************************************************************)
EXTENDS Money, Sequences, FiniteSets, FiniteSetsExt, SequencesExt

CONSTANTS Accounts, Partitions,
          PartOf,        \* the partition whose database an account lives in
          Fills,
          Trades,        \* what fills are like: quantity, price, taker's side
          Deposits,      \* the amounts deposited
          Openings,      \* the quantities and prices positions are opened at
          TakerFeeBps, MakerFeeBps,
          Word,          \* the number of values of an int64
          Checkpointers, \* the processes that may run Snapshot at one time
          SnapshotsKept,
          MaxDeposits, MaxOpenings,  \* bounds, for each account
          MaxAudits      \* bounds the checkpoints and reconciliations started

ASSUME LedgerAssumption ==
    /\ PartOf \in [Accounts -> Partitions]
    /\ Trades \subseteq [qty : Nat \ {0}, price : Nat \ {0}, takerBuys : BOOLEAN]
    /\ Openings \subseteq [qty : Nat \ {0}, price : Nat \ {0}]
    /\ Deposits \subseteq Nat \ {0}
    /\ {TakerFeeBps, MakerFeeBps} \subseteq 0 .. BpsScale
    /\ IsFiniteSet(Accounts) /\ IsFiniteSet(Fills)
    /\ Word \in Nat \ {0} /\ SnapshotsKept \in Nat \ {0}

VARIABLES fill,      \* the terms of each fill, or none of them yet
          txns,      \* each account's transactions, in the order of account_seq
          balance,   \* account_balances
          position,  \* positions
          settled,   \* the halves settled so far, over all accounts, in order
          snapshots, \* each account's stored checkpoints
          keeper,    \* what each checkpointer is doing
          audits

accountVars  == <<fill, txns, balance, position, settled>>
snapshotVars == <<snapshots, keeper>>

Roles  == {"TAKER", "MAKER"}
Halves == Fills \X Roles
NoFill == [qty |-> 0]

(***************************************************************************)
(* Average cost.  The same operators serve the write path and the replay.  *)
(***************************************************************************)
Flat == [qty |-> 0, basis |-> 0, realized |-> 0]

Wrap(n)    == ((n + Word \div 2) % Word) - Word \div 2
Quot(n, d) == IF n < 0 THEN -((-n) \div d) ELSE n \div d

\* Mutant: whole cents per share, and no case of its own for the last one.
CostOutPerShare(p, qty) ==
    IF p.qty <= 0 THEN 0 ELSE Quot(p.basis, p.qty) * qty

CostOut(p, qty) ==
    IF p.qty <= 0 THEN 0
    ELSE IF qty >= p.qty THEN p.basis
    ELSE Quot(Wrap(p.basis * qty), p.qty)

ApplyBuy(p, qty, cost) ==
    [qty |-> p.qty + qty, basis |-> p.basis + cost, realized |-> p.realized]

ApplySell(p, qty, proceeds) ==
    [qty      |-> p.qty - qty,
     basis    |-> p.basis - CostOut(p, qty),
     realized |-> p.realized + proceeds - CostOut(p, qty)]

Moved(p, shares, cash) ==
    IF shares >= 0 THEN ApplyBuy(p, shares, -cash) ELSE ApplySell(p, -shares, cash)

(***************************************************************************)
(* A transaction is its legs, per kind of ledger account.  Those of the    *)
(* share unit are named apart, as the code tells them apart by symbol.     *)
(***************************************************************************)
MoneyKinds == {"CASH", "FEES", "CLEARING", "EXTERNAL"}
ShareKinds == {"POSITION", "SHARE_CLEARING", "SHARE_EXTERNAL"}
NoLegs     == [k \in MoneyKinds \union ShareKinds |-> 0]

DepositLegs(amount) == [NoLegs EXCEPT !["CASH"] = amount, !["EXTERNAL"] = -amount]

SeedLegs(qty, cost) ==
    [NoLegs EXCEPT !["CASH"] = -cost, !["EXTERNAL"] = cost,
                   !["POSITION"] = qty, !["SHARE_EXTERNAL"] = -qty]

\* Mutant: the fee passes through the clearing account.
HalfFillLegsFeeCleared(sign, qty, notional, fee) ==
    [NoLegs EXCEPT !["CASH"] = -sign * notional - fee,
                   !["CLEARING"] = sign * notional + fee,
                   !["POSITION"] = sign * qty, !["SHARE_CLEARING"] = -sign * qty]

HalfFillLegs(sign, qty, notional, fee) ==
    [NoLegs EXCEPT !["CASH"] = -sign * notional - fee, !["FEES"] = fee,
                   !["CLEARING"] = sign * notional,
                   !["POSITION"] = sign * qty, !["SHARE_CLEARING"] = -sign * qty]

\* The event of a transaction that belongs to no fill is derived from its
\* own sequence number, so that it never repeats and need not be kept.
NoHalf == <<>>
Txn(half, legs) == [half |-> half, legs |-> legs]

WriteTxn(a, half, legs) ==
    /\ txns' = [txns EXCEPT ![a] = Append(@, Txn(half, legs))]
    /\ balance' = [balance EXCEPT ![a] = [cash |-> @.cash + legs["CASH"],
                                          fees |-> @.fees + legs["FEES"]]]

(***************************************************************************)
(* Money and shares in, and fills.                                         *)
(***************************************************************************)
Owner(h)      == IF h[2] = "TAKER" THEN fill[h[1]].taker ELSE fill[h[1]].maker
Buys(h)       == (h[2] = "TAKER") = fill[h[1]].takerBuys
FeeOf(h, n)   == FeeBps(n, IF h[2] = "TAKER" THEN TakerFeeBps ELSE MakerFeeBps)
NotionalOf(h) == Notional(fill[h[1]].qty, fill[h[1]].price)

\* What the account pays, or receives, in all.
CostOf(h) == NotionalOf(h) + FeeOf(h, NotionalOf(h))
ProceedsOf(h) == NotionalOf(h) - FeeOf(h, NotionalOf(h))

Open(a) == {h \in Halves : /\ fill[h[1]] # NoFill /\ Owner(h) = a
                           /\ ~Contains(settled, h)}

\* What open halves may still take: their orders' reservations hold it.
Bought(a)     == {h \in Open(a) : Buys(h)}
Sold(a)       == {h \in Open(a) : ~Buys(h)}
HeldCash(a)   == SumOver([h \in Bought(a) |-> CostOf(h)], Bought(a))
HeldShares(a) == SumOver([h \in Sold(a) |-> fill[h[1]].qty], Sold(a))

\* How often an account was given money, or shares.
Given(a, kind) ==
    Cardinality({i \in DOMAIN txns[a] : txns[a][i].half = NoHalf /\ txns[a][i].legs[kind] > 0})

Deposit(a) ==
    /\ Given(a, "CASH") < MaxDeposits[a]
    /\ \E amount \in Deposits : WriteTxn(a, NoHalf, DepositLegs(amount))
    /\ UNCHANGED <<fill, position, settled, snapshotVars, audits>>

SeedShares(a) ==
    /\ Given(a, "POSITION") < MaxOpenings[a]
    /\ \E t \in Openings :
         LET basis == Notional(t.qty, t.price) IN
         /\ basis <= balance[a].cash - HeldCash(a)
         /\ WriteTxn(a, NoHalf, SeedLegs(t.qty, basis))
         /\ position' = [position EXCEPT ![a] = ApplyBuy(@, t.qty, basis)]
    /\ UNCHANGED <<fill, settled, snapshotVars, audits>>

\* The shard publishes a fill that both of its orders are covered for.
PublishFill(f) ==
    /\ fill[f] = NoFill
    /\ \E t \in Trades, taker, maker \in Accounts :
         fill' = [fill EXCEPT ![f] = [taker |-> taker, maker |-> maker, qty |-> t.qty,
                                      price |-> t.price, takerBuys |-> t.takerBuys]]
    /\ UNCHANGED <<txns, balance, position, settled, snapshotVars, audits>>
    /\ \A a \in Accounts : /\ HeldCash(a)' <= balance[a].cash
                           /\ HeldShares(a)' <= position[a].qty

\* A redelivered half writes nothing: ErrDuplicateEvent.
SettleHalf(h) ==
    LET a    == Owner(h)
        sign == IF Buys(h) THEN 1 ELSE -1
        qty  == fill[h[1]].qty
    IN  /\ fill[h[1]] # NoFill
        /\ ~Contains(settled, h)
        /\ WriteTxn(a, h, HalfFillLegs(sign, qty, NotionalOf(h), FeeOf(h, NotionalOf(h))))
        /\ position' = [position EXCEPT ![a] = IF Buys(h) THEN ApplyBuy(@, qty, CostOf(h))
                                               ELSE ApplySell(@, qty, ProceedsOf(h))]
        /\ settled' = Append(settled, h)
        /\ UNCHANGED <<fill, snapshotVars, audits>>

(***************************************************************************)
(* Replay.  A transaction is applied as a whole: what its shares cost is   *)
(* in its cash leg.  A checkpoint leaves out a position that is zero       *)
(* throughout; that is what an absent one is read back as.                 *)
(***************************************************************************)
Genesis == [seq |-> 0, cash |-> 0, fees |-> 0, clearing |-> 0, position |-> Flat]

Encode(s) ==
    IF s.position # Flat THEN s
    ELSE [seq |-> s.seq, cash |-> s.cash, fees |-> s.fees, clearing |-> s.clearing]

DecodeState(b) ==
    IF "position" \in DOMAIN b THEN b
    ELSE [seq |-> b.seq, cash |-> b.cash, fees |-> b.fees, clearing |-> b.clearing,
          position |-> Flat]

ApplyTxn(s, t) ==
    [seq      |-> s.seq + 1,
     cash     |-> s.cash + t.legs["CASH"],
     fees     |-> s.fees + t.legs["FEES"],
     clearing |-> s.clearing + t.legs["CLEARING"],
     position |-> IF t.legs["POSITION"] = 0 THEN s.position
                  ELSE Moved(s.position, t.legs["POSITION"], t.legs["CASH"])]

\* Mutant: the tail begins with the checkpoint's own transaction.
TailOfInclusive(a, seq) == SubSeq(txns[a], Greater(seq, 1), Len(txns[a]))

TailOf(a, seq) == SubSeq(txns[a], seq + 1, Len(txns[a]))

ReplayAccountFrom(a, s) == FoldLeft(ApplyTxn, s, TailOf(a, s.seq))

Posted(a, kind) ==
    SumOver([i \in DOMAIN txns[a] |-> txns[a][i].legs[kind]], DOMAIN txns[a])

ProjectedState(a) ==
    [seq |-> Len(txns[a]), cash |-> balance[a].cash, fees |-> balance[a].fees,
     clearing |-> Posted(a, "CLEARING"), position |-> position[a]]

(***************************************************************************)
(* Snapshot reads the newest checkpoint, then the tail, then inserts, then *)
(* prunes: four statements, none of which locks the account, by any number *)
(* of processes at once.                                                   *)
(***************************************************************************)
Idle == [at |-> "idle"]

Newest(S) == CHOOSE s \in S : \A t \in S : t.seq <= s.seq

LoadSnapshot(k, a) ==
    /\ keeper[k] = Idle
    /\ audits < MaxAudits
    /\ audits' = audits + 1
    /\ keeper' = [keeper EXCEPT ![k] =
           [at |-> "loaded", account |-> a,
            state |-> IF snapshots[a] = {} THEN Genesis ELSE DecodeState(Newest(snapshots[a]))]]
    /\ UNCHANGED <<accountVars, snapshots>>

RecoverState(k) ==
    /\ keeper[k].at = "loaded"
    /\ LET state == ReplayAccountFrom(keeper[k].account, keeper[k].state)
       IN  keeper' = [keeper EXCEPT ![k] =
               IF state.seq = 0 THEN Idle
               ELSE [at |-> "recovered", account |-> @.account, state |-> state]]
    /\ UNCHANGED <<accountVars, snapshots, audits>>

InsertSnapshot(k) ==
    /\ keeper[k].at = "recovered"
    /\ LET a == keeper[k].account
       IN  snapshots' = [snapshots EXCEPT ![a] =
               IF \E s \in @ : s.seq = keeper[k].state.seq THEN @
               ELSE @ \union {Encode(keeper[k].state)}]
    /\ keeper' = [keeper EXCEPT ![k] = [at |-> "inserted", account |-> @.account]]
    /\ UNCHANGED <<accountVars, audits>>

\* Mutant: the oldest are kept.
PrunedNewest(S) == {s \in S : Cardinality({t \in S : t.seq < s.seq}) < SnapshotsKept}

Pruned(S) == {s \in S : Cardinality({t \in S : t.seq > s.seq}) < SnapshotsKept}

PruneSnapshots(k) ==
    /\ keeper[k].at = "inserted"
    /\ snapshots' = [snapshots EXCEPT ![keeper[k].account] = Pruned(@)]
    /\ keeper' = [keeper EXCEPT ![k] = Idle]
    /\ UNCHANGED <<accountVars, audits>>

\* The process ends, or a statement fails, between two statements.
AbandonSnapshot(k) ==
    /\ keeper[k] # Idle
    /\ keeper' = [keeper EXCEPT ![k] = Idle]
    /\ UNCHANGED <<accountVars, snapshots, audits>>

LedgerInit ==
    /\ fill = [f \in Fills |-> NoFill]
    /\ txns = [a \in Accounts |-> <<>>]
    /\ balance = [a \in Accounts |-> [cash |-> 0, fees |-> 0]]
    /\ position = [a \in Accounts |-> Flat]
    /\ settled = <<>>
    /\ snapshots = [a \in Accounts |-> {}]
    /\ keeper = [k \in Checkpointers |-> Idle]
    /\ audits = 0

LedgerNext ==
    \/ \E a \in Accounts : Deposit(a) \/ SeedShares(a)
    \/ \E f \in Fills : PublishFill(f)
    \/ \E h \in Halves : SettleHalf(h)
    \/ \E k \in Checkpointers :
         \/ \E a \in Accounts : LoadSnapshot(k, a)
         \/ RecoverState(k) \/ InsertSnapshot(k) \/ PruneSnapshots(k) \/ AbandonSnapshot(k)

(***************************************************************************)
(* Properties.                                                             *)
(***************************************************************************)

\* Whichever checkpoint an account is recovered from, the ledger's tail
\* leads to exactly the balance and the position the write path keeps, fees,
\* clearing and sequence number included (RecoverState against
\* ProjectedState), whatever the checkpointers have interleaved.
RecoveryAgrees ==
    \A a \in Accounts : \A s \in snapshots[a] \union {Genesis} :
        ReplayAccountFrom(a, DecodeState(s)) = ProjectedState(a)

\* Recovery never gets longer: a checkpointer that read the ledger long ago
\* may insert an old state late, and any of them may prune, but an account's
\* newest checkpoint is never lost or replaced by an older one (Snapshot).
NewestSurvives ==
    [][\A a \in Accounts : snapshots[a] # {} =>
           /\ snapshots'[a] # {}
           /\ Newest(snapshots[a]).seq <= Newest(snapshots'[a]).seq]_snapshots

\* The transactions that brought money, and nothing else, from outside.
GivenCash(a) ==
    {i \in DOMAIN txns[a] : txns[a][i].half = NoHalf /\ txns[a][i].legs["POSITION"] = 0}

\* An account's cash, with what its shares cost and without what it gained
\* on those it sold, is what was deposited: no fee and no rounding is lost
\* between the ledger and the position (writeTxn, applyPositionDelta). And
\* however a position was bought and sold, none of its basis is left when its
\* last share goes, and none is taken twice before (applySell).
BasisIsWhatWasPaid ==
    \A a \in Accounts :
      /\ balance[a].cash + position[a].basis - position[a].realized =
            SumOver([i \in GivenCash(a) |-> txns[a][i].legs["CASH"]], GivenCash(a))
      /\ position[a].basis >= 0
      /\ position[a].qty = 0 => position[a].basis = 0
=============================================================================
