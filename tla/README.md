# Verification of the trading execution system

TLA+ models, TLC runs and TLAPS proofs for the exchange in `src/`: order entry, matching and
settlement over an event log, with the leases, ledgers and checks around them.

## The system

An order passes through these parts, each with state of its own:

```
client -> Submit ---------> outbox -> relay -> orders.inbound -> matching shard -> orders.outcomes -> consumers -> ledger
          (one txn under                        (key: symbol)    books, router,    (key: account)     (one txn per record,
          the account row)                                       snapshots                            offset included)
```

| part | source | state | operations | what is hard, what makes it correct |
|---|---|---|---|---|
| money | `internal/money` | none | `Notional`, `NotionalCeil`, `FeeBps`, the collar | roundings of reservation and cost must be on the right sides of each other |
| accept | `engine/submit.go`, `cancel.go` | `orders`, `reservations`, `outbox` | `Submit`, `RequestCancel`, `Deposit`, `SeedShares` | cash and shares are promised once, however accepts, fills and cancels interleave |
| settlement | `engine/outcomes.go` | `transactions`, `fills`, `orders`, `reservations`, `consumer_offsets`, the reader's position in memory | one transaction per half fill, disposition, cancel outcome | redelivery, restarts, failures in the middle of a batch: each half once, none skipped, within its reservation |
| ledger | `engine/engine.go`, `position.go`, `replay.go`, `snapshot.go` | `postings`, `account_balances`, `positions`, `snapshots` | `writeTxn`, replay, `Snapshot` | projections, replay from any checkpoint and accounting identities agree |
| outbox relay | `outbox/relay.go` | `published_at`, the log | `PumpOnce` | a crash between produce and mark publishes twice |
| event log | `eventlog` | partitions of records | `Produce`, `Fetch` | order per partition only |
| matching | `matching`, `book` | books per symbol and venue, dedup rings, offset, snapshots | `onOrder`, `onCancel`, `Recover`, `snapshot` | price-time priority over venues, replay that regenerates the same fills, records met twice |
| leases | `engine/lease.go` | `partition_leases`, `service_leases` | acquire, assert, renew, release | stale writers, expiry, standby takeover |
| pipeline | `pipeline`, `cmd/tradectl` | which loops run, where each process stands in the log | start, promotion, `Drain`, the wait for the primary, shutdown | the role and the loops it protects are not one thing; a standby is as old as its start; a report must be true whoever else drives |
| checks | `engine/invariants.go`, `cluster` | none | `CheckInvariants`, `Reconcile` | databases read one after another while halves settle |
| market maker | `mm`, `marketdata` | the cached tick, remembered quotes, a sequence number | `QuoteOnce`: cancel all, place the ladder | every call may fail, while quotes fill and the mark moves: no quote forgotten, none against its own, the ladder follows the mark |
| fill stream | `api/stream.go` | a tail per partition, a channel per subscriber | `dispatch`, subscribe, send | a slow subscriber costs nobody else anything |
| ingester | `analytics/ingester.go` | positions and buffers in memory, two tables elsewhere | `PumpOnce`, `flush`, `Recover` | half-failed flushes: no row lost, none counted twice |
| provisioning | `identity`, `api/auth.go`, `serve.go` | `accounts`, `identity.users` | `Provision`, `ensureParticipants` | racing and failing first logins; one account for each person |
| the rest | `metrics`, `chaos`, the handlers of `api`, sessions, queries | | | see "Not modelled" |

Parts talk through the log and the database only. Every action of the core is one database
transaction under the account's row lock; a shard handles one record at a time under its mutex.
What interleaves is transactions, the relay, the shard, consumers, instances and time. The maker
and the logins call the core like any client; the stream and the ingester only read its outcomes.

## Modules

| module | models | over |
|---|---|---|
| `Money` | the fixed-point operators; the scales are parameters, small in the runs, so that every rounding case occurs among few values | |
| `OrderTerms` | bound, acceptable price and whether a remainder may rest, which core, router and book must agree on | `Money` |
| `Escrow` | the promise: of a balance, only what is free may be promised; with its proof | |
| `Market` | the matching engine as the core sees it: one book, any tie among equal prices, records possibly produced twice | `OrderTerms` |
| `TradingCore` | accept, cancel, settlement, consumers, funding; implements `Escrow` for cash and for shares | `Market` |
| `Book` | one book of one venue: queue order, dedup ring, cancel, what a snapshot saves | `OrderTerms` |
| `Shard` | outbox and relay, routing over venues, `onOrder`, `onCancel`, snapshots, restarts, failing produces; implements `Market` | `Book` |
| `Leases` | partition lease with fenced transactions, service lease with time | |
| `Ledger` | transactions as legs, balances, average-cost positions, replay, checkpoints by concurrent processes | `Money` |
| `Reconciler` | one partition's checks, and the cluster's, read partition by partition | `Ledger` |
| `Pipeline` | servers and commands that take the role or stand by, run the loops or `Drain`, wait, checkpoint, end and crash; an order is a record that each stage hands on | |
| `OutcomeLog` | `orders.outcomes` as its readers see it | |
| `Feed` | the fill stream: tails that find their end, channels, subscribers that come and go | `OutcomeLog` |
| `Ingester` | fetch, buffers, flush of two tables, failures, shutdown, restart | `OutcomeLog` |
| `MarketMaker` | the requote cycle call by call, and the path of the maker's quotes through the core and the book | `Money` |
| `Provision` | first logins, and the accounts `serve` finds or creates | |
| `Money_proofs`, `TradingCore_proofs`, `Shard_proofs`, `Ledger_proofs`, `Leases_proofs`, `Pipeline_proofs` | theorems; those of `Ledger_proofs` are about `Ledger` and `Reconciler`, those of `Shard_proofs` about `Book` and `Shard`, and `Money_proofs` has the lemmas on sums and induction all use | |
| `Surroundings_proofs` | theorems about `Feed`, `Ingester`, `MarketMaker` and `Provision` | |
| `MC*` | instances for TLC | |

`TradingCore` does not contain the shard: it runs over `Market`, and `Shard` is shown to
implement `Market` (run `shard_market`), so each is checked at a size of its own. What the core
takes from it: outcomes of one order are produced fills first, disposition last; a fill names two
orders within their terms; a cancel is answered. `Ledger` in turn takes from the core that every
published half can be paid for.

`Pipeline` is the other composition: all stages and several processes at once, with the orders
reduced to records and the answers of a stage to "one outcome, unless the books remember the
order". It has the books' and the consumers' positions of every process in it, so a standby built
long ago, two drivers at once and a snapshot by either are steps of it. Its role is the lease of
`Leases` without the clock: it may run out at any moment. Records that fail to settle are not in
it: what becomes of those is `core_skip`, and `NothingLost` is about all others.

How state corresponds to code: a variable of `TradingCore` is a column (`status`, `filled`,
`reserved`, ...), with `next` the durable `consumer_offsets` and `reader` the position a consumer
keeps in memory. `Shard.at` is the reader's position, `next` the offset a snapshot would record,
`trace` and `restarts` history no action's outcome depends on.
A book's `resting` is the orders of `byID`; its levels and their queues are the order that price and
`at`, the arrival number, put on them. `Ledger.txns` is `transactions` with their
`postings`, `settled` and `old` stand for `created_at`: the order of commits, and how many of
them the settle window has passed. `Pipeline.stage` is where a process stands in `New`, `Run`,
`Drain` or `waitForPrimary`, `carry` and `sent` are the locals of the relay's `PumpOnce`, `from`
and `at` are the shard's reader, `reader` those of the consumers.
`MarketMaker` keeps the fields of the struct by their names, with `calls` what is left of one
`QuoteOnce`. A variable declared as history is read by properties only.

Mutants (operators commented as such) are plausible bugs of the definition after them. Each
property is shown to fail when its mutant takes the definition's place.

## Runs

| run | what it checks | bounds |
|---|---|---|
| `core_safety` | types; terminal orders are settled; nothing promised twice; conservation; a pending cancel holds its reservation; escrow of cash and of shares; a reservation falls short of a fill by a cent for each earlier half at most | 3 orders in half shares, 2 accounts in 2 partitions, fee of one half, amounts in half cents, one late deposit or seed; a settlement may fail in the buyers' partition |
| `core_liveness` | halves settle once; terminal is final; cancels and immediate orders conclude | 2 orders, limit and market, improvement and partial fills, one duplicate, restart or promotion |
| `shard_faults` | priority, sizes, identities, replay, cancels | 3 orders, 2 venues, 1 fault (republish, restart, failing produce), dedup window 2 |
| `shard_market` | the shard implements `Market`, answers everything | 2 orders with market orders, 2 venues, 1 fault |
| `leases` | fencing, one timely holder, takeover | 3 writers, 2 instances, term of 2 ticks |
| `ledger` | replay from every checkpoint, the basis of a position is what was paid for it, clearing, local checks and reconciler reports | 2 accounts, 2 partitions, 2 fills, then 2 checkpoints by 2 processes or 1 reconciliation, 1 checkpoint kept |
| `pipeline` | no accepted order is lost; `Drain` and the wait report only what is so; a server that runs settles everything | 1 server and 1 command, 2 orders, 1 partition of outcomes |
| `surroundings` | the stream in order and complete; rows counted once and not forgotten; the maker's quotes watched, apart and at the mark; one account for each person | below |
| `core_skip`, `shard_republish`, `shard_rest`, `desk_restart` | one violation each, see "Findings" | |

Why these are enough to be worth something: three orders are the fewest with two makers in
different places of a queue, or two takers of one account; two venues the fewest with a choice;
with one fault a restart can fall between any two steps, and the faults that need each other have
a run of their own (`shard_republish`). A fee of one half and amounts below twelve put every
rounding boundary in reach. Two fills are the fewest with a partial sale and a close of a
position, and with one half-settled fill beside a settled one. A window of two is exceeded by
three orders. A server and a command are two drivers, and the command may crash holding the role,
so that the server stands by for it; two servers exceed what a run can explore, and the theorems
below hold for any number. Deadlock is not checked anywhere: all clients may stop, and what the
system must do by then is stated as liveness.

`surroundings` holds four parts that share nothing but a log none of them writes. Its variable
`awake` chooses one, and the others sleep: their product would say nothing more. The stream has two
subscribers of one account with a channel of one, so that one of them may be slow; its log has
what is for others, what is for nobody, and what cannot be decoded. The ingester has batches of two
over two partitions, one failing write and two lives. The maker has one rung, three marks of which
two are within the threshold of each other, three ticks and one failed call or restart. Three
logins are of two people, beside one instance that starts, with one interruption.

`core_liveness` has no improved prices under a fractional fee and no failing transactions, since
`core_skip` shows what follows from those. `core_safety` has both: a half that meets the
reservation's CHECK, or the failure `TransientErrors` allows, is the step after which the reader
has moved on. Its scales are 2 and 2: an order for 4 half shares at a limit of 5 meets one of them at
4 and three at 5, in either order, so notionals, fees and the headroom given back are all rounded,
each at a place of its own, and there are halves that lack a cent. That is what `ShortByCents` is
about; it says how wrong `submit.go:234` can be (finding 2), and that no first fill is refused.
`shard_market` has no failing produce: the books it leaves ahead of what was produced are no state
of `Market`.

### Fairness

Weak fairness only, and only where a loop of the code retries: the relay's and the consumers'
`Run` (`outbox/relay.go:130`, `engine/outcomes.go:84`), the shard's `Run`, which restarts from its
log position, a standby's poll (`pipeline.go:280`) and time. In `Pipeline` a server's loops are
fair, and so is its claim once no server serves, for nobody renews the lease then; commands
promise nothing. Around the core: the tails and the handler's loop of the stream
(`stream.go:73`, `236`), the ingester's `Run`, the maker's ticker with the calls it makes, and the
book and the consumers its quotes pass. Clients, cancels, faults, snapshots, ticks, takers and
renewals are never fair.

The liveness of the pipeline and of the ingester is a promise of those that keep running: a server
or an ingester that ended owes nothing, and whatever is started next finds the rest.

## Proofs

| theorem | statement | argument |
|---|---|---|
| `EscrowCovered` | held never exceeds the balance, for any finite set of holders | sums as cardinalities of sets of unit tokens; raising one member by what is free keeps the sum covered |
| `TypeCorrect` | `Spec => []TypeOK` of the core | inductive invariant `IInv` |
| `ImplementsEscrow` | every step of the core is a step, or a stutter, of both escrows | per action, under `IInv` |
| `NothingPromisedTwice` | `Spec => []Solvent` | the two above, through the refinement |
| `PendingHolds` | `PendingCancelHolds` | per action |
| `TerminalReleases`, `TerminalStays` | `[]TerminalHoldsNothing`; `TerminalIsFinal`, while no execution rounds to nothing | inductive with `IInv`; what costs something finds nothing reserved, and the CHECK refuses it |
| `HistoryHolds` | the log, the fills, the outcomes and the accounts agree | inductive invariant, below |
| `NeverFilledTwice`, `TerminalSettles`, `BalancesConserved` | `[]FilledOnce`, `[]TerminalIsSettled`, `[]Conserved` of the core | from `HistoryHolds`: sums over sets of halves |
| `ShortfallBounded` | `[]ShortByCents`, while no execution rounds to nothing | inductive invariant `SpentOK`, below |
| `LogKept` | the relay's log is the outbox in order, but for batches read again | `LogOK`, inductive, below |
| `ShardHolds`, `ShardSound` | the inductive invariant of the shard, and the five properties of `shard_faults` together, until a copy of an order arrives behind a restart | below |
| `BooksUncrossed`, `NeverOverfilled`, `FillsNamedOnce`, `RecoveryRebuilds`, `CancelledStaysOut` | `NeverCrossed`, `ExecutedWithinSize`, `SameFill`, `ReplayRebuilds`, `CancelIsFinal` one by one | from `ShardSound` |
| `PriorityKept` | `PriceTimePriority` over all venues | there is one way to give a quantity first come, first served; queues stand in the order in which their orders first arrived |
| `MarketImplemented` | `ImplementsMarket`: every step of the shard is a step of the market the core runs over, or none, for failure-free produces | `RInv`, below |
| `LedgerHolds` | every account's ledger, balance, position, checkpoints and open halves agree | inductive invariant, below |
| `RecoveryExact`, `BasisExact`, `NewestKept` | `[]RecoveryAgrees`, `[]BasisIsWhatWasPaid`, `NewestSurvives` of the ledger | from `LedgerHolds`: what is kept is the replay of all, a checkpoint the replay of a beginning, and a fold of a whole is the fold of the rest after it |
| `AlarmsAreTrue`, `ClearingExplained` | `[]OnlyOpenOrCrossingFillsAlarm`, `[]ClearingNamesOpenFills` of the checks | the rows of two halves of one fill cancel, so what a sum leaves over is the rows without a twin |
| `ReconcilerHolds`, `StuckAreNamed`, `QuietIsSound` | `ReportNamesTheStuck` and `QuietReconciles`, both about a reconciliation that reads one database after another | inductive invariant, below |
| `LeaseTypes`, `FencedTransactions`, `TimelyHoldersAgree` | `[]TypeOK`, `[]TxUnderCurrentEpoch`, `[]OneTimelyHolder` | inductive invariant: a primary within its term knows its row |
| `PipelineTypes` | nobody stands beyond the end of what it reads | inductive alone |
| `NoOrderLost`, `DrainTellsTheTruth` | `[]NothingLost`, `[]ReportsHold` of the pipeline | inductive invariant, below |
| `RowsCountedOnce`, `RowsNotForgotten` | `[]CountedOnce`, `[]NoRowForgotten` of the ingester | a row of this life stands for a record the reader has passed, so what is read next is new; the fills of a batch are in the table before its orders are written and the batch is let go |
| `ProvisionTypes`, `LetInOnce` | types, and `[]OneAccountEach` of provisioning | an account somebody is still funding is nobody else's and not entered, so nobody is led to it before it is funded, and it is not funded twice |
| `StreamInOrder` | `[]FeedInOrder` of the fill stream | `FeedInv`: what a client got and what waits in its channel are, in order, exactly what its tail has passed since it subscribed, less what was dropped |
| `QuotesWatched`, `QuotesApart` | `[]EveryQuoteWatched`, `[]OwnQuotesNeverMeet` of the maker | `WatchInv`: an accepted quote is remembered, about to be cancelled, or slipped in a failed call or a restart, and one in the book has its cancel on the way if it is not accepted; `MeetInv`: quotes stand around one price, and what a quote in the log would meet is cancelled ahead of it |

The invariant of `Pipeline_proofs` follows a record from hand to hand: what is marked, or about to
be, is in the log (`Published`, `Carried`); what any shard or snapshot has passed is answered
(`Matched`); what any consumer or durable offset has passed is settled (`Consumed`). Each process
keeps this for itself, and the log, the answers and the ledger only grow, so it does not matter who
else drives or from how old a position: a slow consumer may set the durable offset back, never
over something unsettled. `Known` adds what a draining process knows in a round in which nothing
has moved; a round that moved something says less. The argument needs no lease: mutual exclusion
of the drivers is not what keeps orders from being lost. What two drivers do to the inside of an
order rests on the deduplication in `Shard` and `TradingCore`.

The history of the core needs four things at once, on top of the types. `LogOK`: an order is
enqueued once, and a cancel only after its order. `FillsOK`: opposite sides trade, what was executed
of an order and what rests of it are within its size, and nothing happens to an order the shard has
not met. `OutcomesOK`: outcomes are of orders the shard has met, a half names its own order, and an
outcome that says an order is out of the book is right. `SettledOK`: what the ledger has applied was
executed, an order's filled quantity and notional are the sums of its settled halves, it is in the
log if and only if it was accepted, and out of the book if it is filled or cancelled. That an order
is never filled beyond its size is thus a fact about matching, the log and the deduplication
together: the orders table has no CHECK on it. `Conserved` needs one more,
`BooksBalance`: cash, fees and positions are what entered from outside, but for the halves whose
counterpart has not settled. It is what `Conserved` says in the form a step preserves.

`SpentOK` relates three roundings. What a live buy has spent and been given back stays below what
its filled quantity owes at its bound (`Owed`, rounded up twice), plus a cent for each settled half
but the first. The step is `SliceCost`: a half's notional is rounded down and its quantity's part of
the bound up (`NotionalGrows`), so the notionals keep their order; the fees of the two are
differences of cumulative amounts rounded up at different places, and such a difference can exceed
the other by one cent (`FeeSlack`). A cent for each half is thus what the clamp in
`settleReservation` leaves open, and less would be false.
It needs `BoughtWithin` (a buyer pays no more than its bound, as taker or maker), `HistoryHolds`
(the halves to come are within the order's size) and `TerminalStays` (no order comes back to life).

The shard's invariant says what the history is: the books after each inbound record follow from the
books after the one before and that record alone (`HistoryIn`), and what is executed is what these
steps execute, each execution numbered past the counter of its venue (`TradesIn`). A shard that
replays its tail walks the same books, so it meets executions that are there already and adds none;
only the first reader of a record adds any. That an order published twice does nothing the second
time is the ring's doing, and an argument about the relay (`LogOK`): the relay publishes a batch
again before it goes on, so between two copies of an order there are only rows of one batch, the
window covers a batch (`WindowCoversBatch`; the defaults are 65536 and 256), and a ring that
forgot the order would hold more different ones than lie in between. The ring is not in a snapshot:
a copy behind a restart meets an empty ring, which is finding 3, and the theorems hold until that
happens (`NoCopyAcrossRestart`). They assume `~ProduceFails`, for a produce that fails leaves books
ahead of what was produced (below, under findings). In return they hold for any number of
republished batches, snapshots and restarts, where the run has one fault, which may be a failed
produce.

`MarketImplemented` closes the gap between the two halves of the project: what `TradingCore` proves
over `Market` holds over a shard with venues, copies and restarts. In the map of one to the other,
`taken` is how much of the outbox was met: the rows met are the first ones (`MetIn`), since a batch
is published again before the next. The first reader of an order takes the market's step
`MatchOrder`, and its plan is what `Route` did over all venues, read in the order of `Listed`: the
makers it met (`MakersIn`) and what was executed after each (`SumsIn`). Four lemmas say that this
is a plan of the market, and that the fills, records and books it leads to are those of the shard
(`PlanHolds`, `FillsPlanned`, `RecordsPlanned`, `BookPlanned`, with `KeptPlanned` for who stays
behind). Whoever reads a record after that is a replay, and `RInv` says why it is harmless: the
answers to every record met stand in the outcomes already, in full (`AnswersStand`), so they are
answered a second time at most, which is the market's `Regenerate` or `CancelAgain`. The hypothesis
on `MarketRepeats` is only the bound `Market` puts on repeats by its constant `MaxRepeats` (100
here, `EnoughRepeats`), which a shard without a bound on its restarts does not keep by itself.

`LedgerInv` turns on `After`, what the first n transactions of an account lead to, defined by
`FoldLeft` over them. `Recorded`: `After` the whole ledger is what the write path keeps; `Stored`
and `Kept`: a checkpoint, in the table or in the hands of a checkpointer, is `After` some n;
`Posts`: balance and position are the sums of the legs; `Entries`: every transaction is a deposit,
an opening, or the only one of a half that settled on its owner's account; `Covered`: what open
halves may still take is there, which is what keeps balances and bases from going below zero.
Nothing in it limits how many checkpointers there are or how stale what they hold may be.

`Tallied` is what a reconciliation knows between two databases. For a fill, its count is the
number of its halves that had settled before it began, over the partitions seen, if both had; if
one has settled to this day, one or none; nothing in between is claimed, since a half that settles
behind the reconciler is missed and one ahead of it is seen. The sums are claimed only
while no half settles: deposits and openings have no clearing legs and may go on.

`TypeOK` of the core is not inductive alone: that a reservation is never overdrawn depends on
what an unaccepted order holds, on the market's open quantities and on fees being monotone in the
cumulative notional (`Money_proofs`). `IInv` is `MarketTypeOK /\ CoreTypeOK`, with those facts in
it. The assumptions are the ASSUMEs of `Money`, `OrderTerms`, `Market` and `TradingCore`: finite
accounts and orders, requests of positive quantity, rates in `0 .. BpsScale`, a maker rate at most
the taker rate (the default configuration has 0 and 5). The theorems hold for every scale, so for
the code's 1000000 and 10000. `Ledger` assumes rates in `0 .. BpsScale` as well (a fee above the
notional would make a seller pay), finitely many accounts and fills, and positive amounts,
quantities and prices (`engine.go` refuses others); it takes any `Word`, so what
`BasisIsWhatWasPaid` says holds where the product in `position.go` wraps: only which part of the basis
a partial sale takes, and with it when a gain is booked and how much, is wrong then.
`Reconciler` assumes that every partition is visited once. `QuotesApart` assumes a positive spread:
with a spread of zero the bid, the ask and the mark would be one price; the default is 20 bps and
nothing in `mm` refuses zero. The assumptions of the other modules only say what the constants are.

Induction over data is done from `LeastNat` (every set of natural numbers that is not empty has a
least member): `Induct` and `SetInduct` in `Money_proofs` take a set of numbers, or of
subsets of a finite set, where the library's theorems take an operator. Sums over sets, folds over
sequences and the replay rest on them.

Only model-checked, and why:

- the shard with failing produces (`ProduceFails`): books that are ahead of what was produced are no
  state of `Market`, so neither the shard's invariant nor the refinement speaks of them;
- `NothingSkipped` and the other findings, which do not hold;
- all liveness, and the leads-to in `StandbyTakesOver`: fairness and ENABLED are outside what the
  prover does.

## Findings

Each is a run that TLC refutes; `PROJECT.json` quotes what the code's own text says.

1. `core_skip`: after an error `PumpOnce` returns, but its reader is past the batch; the failed
   record is never read again and a later commit moves the durable offset over it. The fill is lost.
2. The same run, for the error it meets: BUY 2 @ 20.01 at 5 bps, filled at 20.00 and 20.01, needs
   4006 cents and has 4005 reserved. The second half fails its CHECK for ever (and is skipped).
3. `shard_republish`: the partition snapshot does not hold the dedup ring the architecture
   describes. Republish, restart: the order executes twice.
4. `shard_rest`: a remainder that should rest where a slice executed is dropped as a duplicate
   while the disposition says RESTED.
5. `desk_restart`: a restarted market maker counts from 0 again under the same account, so its
   client order ids repeat; it is answered with old orders at old prices and counts them as placed.

Met while reading or modelling, without a run:

- A produce that fails, as at shutdown, leaves the books ahead of the offset (`matching.go:243`);
  the snapshot `Run` takes on its way out stores both, and after a restart the record executes
  again. That takes a failing produce and a restart; `shard_faults` has one fault, so
  `ReplayRebuilds` does not show it.
- Neither losing nor releasing the service lease stops the loops (`pipeline.go:308`, `320`), though
  `pipeline.go:67` calls a second matching engine corruption. `Pipeline` has such steps.
- `waitForPrimary` reads the outbox and the offsets, not `orders.inbound`: it may return while an
  order is published and not yet matched, although its comment says "caught up". `ReportsHold` says
  of the wait only that the orders are in the log.
- Both tables of the ingester have the time of ingestion in their sort key, so what is read again
  after a restart, or was produced twice, does not collapse as `analytics/schema.sql` and the
  comment on `Ingester` say. `CountedOnce` is about one record in one life for that reason.
- The ingester refuses "to advance past a record this package cannot read" (`ingester.go:194`), but
  its reader is past the whole fetch by then, and what follows the record in it is lost (`lost`).
  While the other database fails, its buffers grow without bound.
- A subscriber that cannot keep up is not "dropped" (`stream.go:173`); its event is. The response
  is flushed before the subscription, so an event in between is missed; a fetch that fails while
  `endOf` looks for the end makes the tail replay history (`since` moves with it).
- `identity.go:59` says the opening balance is made "exactly once per person". A first login that
  races another, or fails after `OpenAccount`, leaves a funded account that nobody owns.
- `ensureParticipants` takes any error of `AccountRef` for a missing account, and labels are not
  unique, so instances that start together open several; one that dies before the deposit leaves
  an account without funds, which every later start finds and does not fund.
- `OnlyOpenOrCrossingFillsAlarm` holds, and cannot be strengthened: a fill settled between two
  partitions counts as an orphan in each of them once the settle window passes
  (`invariants.go:110`), and `GlobalInvariants.OK` requires every local block to be OK
  (`cluster.go:194`). A sound cluster is reported unsound after five seconds; the tests end sooner.
- `position.go:40` multiplies basis by quantity in 64 bits; `Ledger` models the wrap (`Word`), the
  run stays below it. Selling 1000 of the 500000 shares `serve` seeds at $185 wraps.
- The API takes fractions of a share down to a millionth. The notional of a small enough fill rounds
  to nothing (`outcomes.go:151`): shares move and no money, and a buyer's half that costs nothing
  is one no reservation refuses, were it to arrive late. `TerminalStays` and
  `ShortfallBounded` exclude it by `FillsHaveValue`.
- `LoadSnapshot` never falls back to the older checkpoints that are kept for that purpose; nothing
  in the repository corrupts one.
- A maker with `SpreadBps` 0 would quote bid and ask at the mark, and meet itself; no flag or
  constructor refuses it (`mm.go`). `QuotesApart` assumes a positive one.
- Releasing a partition lease deletes its row, so epochs begin at 1 again and an old epoch can
  match a new row; `TxUnderCurrentEpoch` is about epochs for that reason.

What properties that hold do not say:

- `CancelIsFinal` is over an outbox in commit order, so commits of different accounts that cross in
  it (`relay.go:45`) are not seen.
- `NothingLost`, `ReportsHold` and `EverythingSettles` are about whole records: what two drivers do
  inside one order is not, and neither is the bound of 15 seconds on the wait (`pipeline.go:197`).
- `QuotesFollowMark` takes the last mark published as it is. The unlocked read of the books it may
  come from (`serve.go:122`) and ticks that arrive late (`marketdata.go:55`) are outside it.
- `OneAccountEach` is about logins. Instances that start together are in `Provision`, and their
  accounts in no property.
- `ShortByCents` bounds what a fill may lack; that a fill which lacks a cent is lost is `core_skip`.

## Not modelled

- the handlers of `api`, sessions, the OAuth exchange, CORS, the rate limiter: one request at a
  time around a call of the core, or one row read and written by its key.
- the queries of `analytics`, `metrics`, the status page, reports and flags: output.
- `chaos` and the synthetic takers: a test driver and a load. The faults and the orders they make
  are actions of `Shard`, `TradingCore`, `Leases` and `Pipeline`.
- the JSON envelope, UUIDs, DSNs, migrations and the three log implementations one by one: the log
  is what they have in common, ids are tuples of what they are derived from.
- a tail of the fill stream whose reader cannot be opened: it ends for good (`stream.go:66-70`), at
  start-up only. Every tail of `Feed` has its reader.
- several symbols per shard and several shards: they share nothing but the account's row lock,
  which `TradingCore` has.
- outbox ids drawn in an order other than that of commits. It can only swap records of different
  accounts, since an order and its cancel hold the same account's lock.
- parsing and overflow of client input beyond `Fits`; the age of a reference price.

## Plan

Done: the core (`Money`, `OrderTerms`, `Market`, `Escrow`, `TradingCore`); `Book` and `Shard`
implementing `Market`; `Leases`, `Pipeline`; `Ledger` and `Reconciler`; `Feed`, `Ingester`,
`MarketMaker`, `Provision`; proofs of the invariants and action properties of all of these, and
of that refinement.

Left, in this order:

1. A run of the shard with a failing produce and a restart (see "Findings").
2. A run for the wrap in `position.go`, and one for the reconciler's verdict on crossing fills.
3. The contents of books in `Pipeline`: `Shard` once for each process, for one order with a cancel.
