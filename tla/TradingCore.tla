---------------------------- MODULE TradingCore ----------------------------
(***************************************************************************)
(* The trading core (internal/engine): accept, cancel and settlement, over *)
(* the matching engine of Market.  Every action is one database            *)
(* transaction under the account's row lock, so it is one step; what       *)
(* interleaves are the transactions, the shard and the consumers.          *)
(*                                                                         *)
(* The outbox and its relay are collapsed into "inbound": a row is added   *)
(* by the transaction that writes it and is taken by the shard in order.   *)
(***************************************************************************)
EXTENDS Market, FiniteSetsExt

CONSTANTS Partitions,      \* of the outcome topic
          PartOf,          \* the partition an account's records are keyed to
          Cash0, Shares0,  \* what each account was funded with at the start
          Funding,         \* amounts a later deposit or share seed may have
          MaxFunding,      \* bound on later deposits and seeds
          TakerFeeBps, MakerFeeBps,
          TransientErrors  \* partitions whose settlement transactions may fail

ASSUME CoreAssumption ==
    /\ IsFiniteSet(Accounts)
    /\ PartOf \in [Accounts -> Partitions]
    /\ Cash0 \in [Accounts -> Nat]
    /\ Shares0 \in [Accounts -> Nat]
    /\ Funding \subseteq Nat \ {0}
    /\ MaxFunding \in Nat
    /\ MakerFeeBps \in 0 .. TakerFeeBps
    /\ TakerFeeBps \in 0 .. BpsScale
    /\ TransientErrors \subseteq Partitions

VARIABLES status,     \* orders.status
          filled,     \* orders.filled_qty
          notional,   \* orders.filled_notional
          reserved, consumed, released,  \* the order's reservation
          cash, shares, fees,            \* balances and positions
          deposited, seeded, funded,     \* what entered from outside
          applied,    \* transactions.event_id of settled halves
          next,       \* consumer_offsets.next_offset, durable
          reader      \* where each consumer's reader stands, in memory

orderVars   == <<status, filled, notional, reserved, consumed, released>>
ledgerVars  == <<cash, shares, fees, applied>>
fundingVars == <<deposited, seeded, funded>>
coreVars    == <<orderVars, ledgerVars, fundingVars, next, reader>>
vars        == <<marketVars, coreVars>>

Terminal == {"FILLED", "CANCELLED", "REJECTED"}
Live     == {"ACCEPTED", "PARTIALLY_FILLED", "PENDING_CANCEL"}

AccountOf(o)   == req[o].acct
Outstanding(o) == reserved[o] - consumed[o] - released[o]

\* What an order still holds of its owner's cash, or of its owner's shares.
HeldCash   == [o \in Orders |-> IF Buying(o) THEN Outstanding(o) ELSE 0]
HeldShares == [o \in Orders |-> IF Buying(o) THEN 0 ELSE Outstanding(o)]

\* The abstract account, once for money and once for shares.
Cash == INSTANCE Escrow WITH Holders <- Orders, balance <- cash, held <- HeldCash,
                             owner <- [o \in Orders |-> AccountOf(o)]
Share == INSTANCE Escrow WITH Holders <- Orders, balance <- shares, held <- HeldShares,
                              owner <- [o \in Orders |-> AccountOf(o)]

\* Both derived from the ledger and the reservations, and never stored.
BuyingPower(a)     == Cash!Free(a)
AvailableShares(a) == Share!Free(a)

-----------------------------------------------------------------------------
(* Funding from outside. *)

Deposit(a, x) ==
    /\ funded < MaxFunding
    /\ cash' = [cash EXCEPT ![a] = @ + x]
    /\ deposited' = deposited + x
    /\ funded' = funded + 1
    /\ UNCHANGED <<marketVars, orderVars, shares, fees, applied, seeded, next, reader>>

\* A mutant: shares are granted, and no cash moves.
SeedSharesAsGrant(a, x, price) ==
    /\ funded < MaxFunding
    /\ shares' = [shares EXCEPT ![a] = @ + x]
    /\ deposited' = deposited - Notional(x, price)
    /\ seeded' = seeded + x
    /\ funded' = funded + 1
    /\ UNCHANGED <<marketVars, orderVars, cash, fees, applied, next, reader>>

\* Shares are bought from outside, with buying power that is there.
SeedShares(a, x, price) ==
    /\ funded < MaxFunding
    /\ BuyingPower(a) >= Notional(x, price)
    /\ cash' = [cash EXCEPT ![a] = @ - Notional(x, price)]
    /\ shares' = [shares EXCEPT ![a] = @ + x]
    /\ deposited' = deposited - Notional(x, price)
    /\ seeded' = seeded + x
    /\ funded' = funded + 1
    /\ UNCHANGED <<marketVars, orderVars, fees, applied, next, reader>>

-----------------------------------------------------------------------------
(* Accept: reserve, record and enqueue, or record the refusal. *)

\* A mutant: the fee is left out of the reservation.
OwedWithoutFee(o, q) == NotionalCeil(q, Bound(req[o]))

\* What q of the order costs at its bound, taker fee included.
Owed(o, q) ==
    LET n == NotionalCeil(q, Bound(req[o])) IN n + FeeBps(n, TakerFeeBps)

Reservation(o) == IF Buying(o) THEN Owed(o, req[o].qty) ELSE req[o].qty

\* A mutant: balances are checked, and what other orders hold of them is not.
AffordableUnreserved(o) ==
    IF Buying(o) THEN cash[AccountOf(o)] >= Reservation(o)
                 ELSE shares[AccountOf(o)] >= Reservation(o)

Affordable(o) ==
    IF Buying(o) THEN BuyingPower(AccountOf(o)) >= Reservation(o)
                 ELSE AvailableShares(AccountOf(o)) >= Reservation(o)

\* A retry of the same client order id finds the order and changes nothing.
Submit(o) ==
    /\ status[o] = "NONE"
    /\ Fits(Reservation(o))
    /\ IF Affordable(o)
       THEN /\ status' = [status EXCEPT ![o] = "ACCEPTED"]
            /\ reserved' = [reserved EXCEPT ![o] = Reservation(o)]
            /\ inbound' = Append(inbound, [type |-> "ORDER", order |-> o])
       ELSE /\ status' = [status EXCEPT ![o] = "REJECTED"]
            /\ UNCHANGED <<reserved, inbound>>
    /\ UNCHANGED <<req, taken, open, fills, outcomes, repeats>>
    /\ UNCHANGED <<filled, notional, consumed, released>>
    /\ UNCHANGED <<ledgerVars, fundingVars, next, reader>>

\* A mutant: the reservation is given back when the cancel is asked for.
RequestCancelReleases(o) ==
    /\ status[o] \in Live \ {"PENDING_CANCEL"}
    /\ status' = [status EXCEPT ![o] = "PENDING_CANCEL"]
    /\ released' = [released EXCEPT ![o] = reserved[o] - consumed[o]]
    /\ inbound' = Append(inbound, [type |-> "CANCEL", order |-> o])
    /\ UNCHANGED <<req, taken, open, fills, outcomes, repeats>>
    /\ UNCHANGED <<filled, notional, reserved, consumed>>
    /\ UNCHANGED <<ledgerVars, fundingVars, next, reader>>

\* Asking changes the status and enqueues the question; it releases nothing.
RequestCancel(o) ==
    /\ status[o] \in Live \ {"PENDING_CANCEL"}
    /\ status' = [status EXCEPT ![o] = "PENDING_CANCEL"]
    /\ inbound' = Append(inbound, [type |-> "CANCEL", order |-> o])
    /\ UNCHANGED <<req, taken, open, fills, outcomes, repeats>>
    /\ UNCHANGED <<filled, notional, reserved, consumed, released>>
    /\ UNCHANGED <<ledgerVars, fundingVars, next, reader>>

-----------------------------------------------------------------------------
(* Settlement: one outcome record and its offset in one transaction. *)

Event(h) == <<h.fill, h.role>>

\* A mutant: nobody looks whether the event has settled before.
NeverApplied(h) == FALSE

\* The ledger has a transaction with the half's event id.
Applied(h) == Event(h) \in applied

FeeRate(role) == IF role = "TAKER" THEN TakerFeeBps ELSE MakerFeeBps

HalfQty(h) == fills[h.fill].qty

HalfNotional(h) == Notional(HalfQty(h), fills[h.fill].price)

\* Charged on the order's cumulative notional and billed as the difference.
HalfFee(h) ==
    LET before == notional[h.order] IN
    FeeBps(before + HalfNotional(h), FeeRate(h.role)) - FeeBps(before, FeeRate(h.role))

HalfCost(h) ==
    IF Buying(h.order) THEN HalfNotional(h) + HalfFee(h) ELSE HalfQty(h)

\* Headroom this slice of the order no longer needs, within what is left.
HalfRelease(h) ==
    LET o == h.order
        freed == IF Buying(o)
                 THEN Owed(o, filled[o] + HalfQty(h)) - Owed(o, filled[o]) - HalfCost(h)
                 ELSE 0
    IN Greater(0, Lesser(freed, Outstanding(o) - HalfCost(h)))

\* The row's CHECK (consumed + released <= reserved) would refuse the update.
Overdraws(h) == HalfCost(h) + HalfRelease(h) > Outstanding(h.order)

\* A mutant: nobody gives the rest back.
NoReleaseIfTerminal(o) == UNCHANGED released

\* Releases everything unspent once the order is terminal.
ReleaseIfTerminal(o) ==
    released' = [released EXCEPT ![o] =
        IF status'[o] \in Terminal THEN reserved[o] - consumed'[o] ELSE @]

SettleHalf(h) ==
    LET o == h.order
        a == AccountOf(o)
        done == filled[o] + HalfQty(h)
    IN
    /\ h.type = "HALF"
    /\ ~Applied(h)
    /\ ~Overdraws(h)
    /\ applied' = applied \cup {Event(h)}
    /\ fees' = fees + HalfFee(h)
    /\ cash' = [cash EXCEPT ![a] =
                  @ + (IF Buying(o) THEN -HalfNotional(h) ELSE HalfNotional(h)) - HalfFee(h)]
    /\ shares' = [shares EXCEPT ![a] = @ + (IF Buying(o) THEN HalfQty(h) ELSE -HalfQty(h))]
    /\ filled' = [filled EXCEPT ![o] = done]
    /\ notional' = [notional EXCEPT ![o] = @ + HalfNotional(h)]
    /\ consumed' = [consumed EXCEPT ![o] = @ + HalfCost(h)]
    /\ status' = [status EXCEPT ![o] =
                    IF done >= req[o].qty THEN "FILLED"
                    ELSE IF @ = "PENDING_CANCEL" THEN @ ELSE "PARTIALLY_FILLED"]
    /\ released' = [released EXCEPT ![o] =
                      IF status'[o] \in Terminal THEN reserved[o] - consumed'[o]
                      ELSE @ + HalfRelease(h)]
    /\ UNCHANGED reserved

\* The event has settled before: only the offset moves.
SkipDuplicate(h) ==
    /\ h.type = "HALF"
    /\ Applied(h)
    /\ UNCHANGED <<orderVars, ledgerVars>>

\* A mutant: a disposition overwrites whatever status is there.
DispositionedAlways(o, what) ==
    CASE what = "COMPLETE" -> "FILLED"
      [] what = "RESTED"   -> IF filled[o] > 0 THEN "PARTIALLY_FILLED" ELSE "ACCEPTED"
      [] OTHER             -> "CANCELLED"

Dispositioned(o, what) ==
    IF status[o] \in Terminal \cup {"PENDING_CANCEL"} THEN status[o]
    ELSE CASE what = "COMPLETE" -> "FILLED"
           [] what = "RESTED"   -> IF filled[o] > 0 THEN "PARTIALLY_FILLED" ELSE "ACCEPTED"
           [] OTHER             -> "CANCELLED"

ApplyDisposition(d) ==
    /\ d.type = "DISPOSITION"
    /\ status' = [status EXCEPT ![d.order] = Dispositioned(d.order, d.what)]
    /\ UNCHANGED <<filled, notional, reserved, consumed, ledgerVars>>
    /\ ReleaseIfTerminal(d.order)

\* A mutant: a cancel that came too late is left pending.
CancelSettledIfRemoved(o, removed) == IF removed THEN "CANCELLED" ELSE status[o]

\* The book removed it, or had nothing to remove: only then is a pending
\* cancel settled out of PENDING_CANCEL, to what its fills say it is.
CancelSettled(o, removed) ==
    IF removed
    THEN IF status[o] \in Terminal THEN status[o] ELSE "CANCELLED"
    ELSE IF status[o] # "PENDING_CANCEL" THEN status[o]
    ELSE IF filled[o] >= req[o].qty THEN "FILLED" ELSE "CANCELLED"

ApplyVerdict(v) ==
    /\ v.type = "VERDICT"
    /\ status' = [status EXCEPT ![v.order] = CancelSettled(v.order, v.removed)]
    /\ UNCHANGED <<filled, notional, reserved, consumed, ledgerVars>>
    /\ ReleaseIfTerminal(v.order)

-----------------------------------------------------------------------------
(* The consumers. *)

Pending(p) == {i \in reader[p] .. Len(outcomes) :
                 PartOf[AccountOf(outcomes[i].order)] = p}

IsNext(p, i) == i \in Pending(p) /\ \A j \in Pending(p) : i <= j

\* The record and its offset commit together.
Consume(p) ==
    \E i \in 1 .. Len(outcomes) :
      /\ IsNext(p, i)
      /\ \/ SettleHalf(outcomes[i])
         \/ SkipDuplicate(outcomes[i])
         \/ ApplyDisposition(outcomes[i])
         \/ ApplyVerdict(outcomes[i])
      /\ next' = [next EXCEPT ![p] = i + 1]
      /\ reader' = [reader EXCEPT ![p] = i + 1]
      /\ UNCHANGED <<marketVars, fundingVars>>

\* The transaction fails and nothing of it is kept, but the reader has moved
\* past the batch it fetched, and the loop goes on from there.
ConsumeFails(p) ==
    \E i \in 1 .. Len(outcomes) :
      /\ IsNext(p, i)
      /\ \/ p \in TransientErrors
         \/ /\ outcomes[i].type = "HALF"
            /\ ~Applied(outcomes[i])
            /\ Overdraws(outcomes[i])
      /\ \E j \in i .. Len(outcomes) : reader' = [reader EXCEPT ![p] = j + 1]
      /\ UNCHANGED <<marketVars, orderVars, ledgerVars, fundingVars, next>>

\* A restarted consumer reads from the durable offset.
RestartConsumers ==
    /\ reader # next
    /\ reader' = next
    /\ UNCHANGED <<marketVars, orderVars, ledgerVars, fundingVars, next>>

\* A promoted standby reads from the offset it loaded when it was built, and
\* meets what has settled since then again.
PromoteStandby ==
    /\ repeats < MaxRepeats
    /\ repeats' = repeats + 1
    /\ \E stale \in [Partitions -> 1 .. Len(outcomes) + 1] :
         /\ \A p \in Partitions : stale[p] <= next[p]
         /\ reader' = stale
    /\ UNCHANGED <<req, inbound, taken, open, fills, outcomes>>
    /\ UNCHANGED <<orderVars, ledgerVars, fundingVars, next>>

-----------------------------------------------------------------------------
Init ==
    /\ MarketInit
    /\ status = [o \in Orders |-> "NONE"]
    /\ filled = [o \in Orders |-> 0]
    /\ notional = [o \in Orders |-> 0]
    /\ reserved = [o \in Orders |-> 0]
    /\ consumed = [o \in Orders |-> 0]
    /\ released = [o \in Orders |-> 0]
    /\ cash = Cash0
    /\ shares = Shares0
    /\ fees = 0
    /\ deposited = 0
    /\ seeded = 0
    /\ funded = 0
    /\ applied = {}
    /\ next = [p \in Partitions |-> 1]
    /\ reader = [p \in Partitions |-> 1]

MarketStep == MarketNext /\ UNCHANGED coreVars

Next ==
    \/ MarketStep
    \/ \E o \in Orders : Submit(o) \/ RequestCancel(o)
    \/ \E a \in Accounts, x \in Funding :
         Deposit(a, x) \/ \E price \in Funding : SeedShares(a, x, price)
    \/ \E p \in Partitions : Consume(p) \/ ConsumeFails(p)
    \/ RestartConsumers
    \/ PromoteStandby

Spec == Init /\ [][Next]_vars

\* The loops that pump keep running: the shard's and every consumer's.
Fairness ==
    /\ \A o \in Orders : WF_vars((MatchOrder(o) \/ CancelResting(o)) /\ UNCHANGED coreVars)
    /\ \A p \in Partitions : WF_vars(Consume(p))

FairSpec == Spec /\ Fairness

-----------------------------------------------------------------------------
(* What must hold. *)

Statuses == {"NONE"} \cup Live \cup Terminal
Roles == {"TAKER", "MAKER"}

FillRecord == [taker : Orders, maker : Orders, qty : Nat \ {0}, price : Nat]

OutcomeRecord ==
    [type : {"HALF"}, order : Orders, fill : Nat \ {0}, role : Roles]
      \cup [type : {"DISPOSITION"}, order : Orders,
            what : {"COMPLETE", "RESTED", "CANCELLED"}]
      \cup [type : {"VERDICT"}, order : Orders, removed : BOOLEAN]

\* Every variable holds a value of its kind.
TypeOK ==
    /\ req \in [Orders -> Requests]
    /\ inbound \in Seq([type : {"ORDER", "CANCEL"}, order : Orders])
    /\ taken \in 0 .. Len(inbound)
    /\ open \in [Orders -> Nat]
    /\ fills \in Seq(FillRecord)
    /\ outcomes \in Seq(OutcomeRecord)
    /\ repeats \in Nat
    /\ status \in [Orders -> Statuses]
    /\ filled \in [Orders -> Nat] /\ notional \in [Orders -> Nat]
    /\ reserved \in [Orders -> Nat] /\ consumed \in [Orders -> Nat]
    /\ released \in [Orders -> Nat]
    /\ cash \in [Accounts -> Int] /\ shares \in [Accounts -> Int] /\ fees \in Nat
    /\ deposited \in Int /\ seeded \in Nat /\ funded \in Nat
    /\ applied \subseteq (Nat \X Roles)
    /\ next \in [Partitions -> Nat \ {0}] /\ reader \in [Partitions -> Nat \ {0}]

\* The halves of the executions there are, whose they are, and what they are
\* halves of.
HalvesMade == (1 .. Len(fills)) \X Roles
OrderOf(e) == IF e[2] = "TAKER" THEN fills[e[1]].taker ELSE fills[e[1]].maker
SizeOf     == [e \in HalvesMade |-> fills[e[1]].qty]
WorthOf    == [e \in HalvesMade |-> Notional(fills[e[1]].qty, fills[e[1]].price)]

SettledHalves(o) == {e \in applied : OrderOf(e) = o}

\* An order's filled quantity and notional are those of the distinct halves
\* settled for it, whatever is redelivered, and never exceed its size.
FilledOnce ==
    \A o \in Orders :
      /\ filled[o] = SumOver(SizeOf, SettledHalves(o))
      /\ notional[o] = SumOver(WorthOf, SettledHalves(o))
      /\ filled[o] <= req[o].qty

\* No account's cash or shares are promised twice: buying power and available
\* shares stay non-negative, whatever is settled in which order.
Solvent == Cash!Covered /\ Share!Covered

\* Cash and shares are each an escrow: only what is free is promised, and a
\* settlement spends no more than its order holds.
Escrows == Cash!Spec /\ Share!Spec

\* Everything that is in cash, fees and positions entered from outside, but
\* for fills of which exactly one half has settled.
Conserved ==
    LET lone  == {e \in applied : \E r \in Roles : <<e[1], r>> \notin applied}
        buys  == {e \in lone : Buying(OrderOf(e))}
        sells == lone \ buys
    IN  /\ SumOver(cash, Accounts) + fees
             = SumOver(Cash0, Accounts) + deposited
                 + SumOver(WorthOf, sells) - SumOver(WorthOf, buys)
        /\ SumOver(shares, Accounts)
             = SumOver(Shares0, Accounts) + seeded
                 + SumOver(SizeOf, buys) - SumOver(SizeOf, sells)

\* A terminal order holds nothing back and has nothing left in the book.
TerminalIsSettled ==
    \A o \in Orders : status[o] \in Terminal => Outstanding(o) = 0 /\ open[o] = 0

\* What a half costs more than its order still holds.
Lack(h) == HalfCost(h) - Outstanding(h.order)

\* A reservation may fall short of what its fills cost, for fees are rounded at
\* other places than the headroom that was given back; but by no more than a
\* cent for each half it has paid, so the first half it meets always fits.
ShortByCents ==
    \A i \in 1 .. Len(outcomes) :
      LET h == outcomes[i] IN
        h.type = "HALF" /\ Event(h) \notin applied /\ status[h.order] \in Live
          => Lack(h) <= Cardinality(SettledHalves(h.order))

\* No half below a durable offset is missing from the ledger.
NothingSkipped ==
    \A i \in 1 .. Len(outcomes) :
      /\ outcomes[i].type = "HALF"
      /\ i < next[PartOf[AccountOf(outcomes[i].order)]]
      => Event(outcomes[i]) \in applied

\* Once terminal, an order's status and its fills never change again.
TerminalIsFinal ==
    [][\A o \in Orders : status[o] \in Terminal =>
         status'[o] = status[o] /\ filled'[o] = filled[o]]_vars

\* While a cancel is pending nothing of the reservation is given back but the
\* headroom of a fill.
PendingCancelHolds ==
    [][\A o \in Orders : status'[o] = "PENDING_CANCEL" =>
         released'[o] = released[o] \/ filled'[o] > filled[o]]_vars

\* Every order that was asked to be cancelled, or may not rest, reaches a
\* final status, whatever it meets on its way through the book and through
\* consumers that restart.
OrdersConclude ==
    \A o \in Orders :
      status[o] = "PENDING_CANCEL" \/ (status[o] \in Live /\ ~Rests(o))
        ~> status[o] \in Terminal
=============================================================================
