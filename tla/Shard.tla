-------------------------------- MODULE Shard --------------------------------
(***************************************************************************)
(* The path of an order to its fills: the outbox and its relay             *)
(* (internal/outbox), the inbound log, and a matching shard with its       *)
(* router, its books on several venues and its snapshots                   *)
(* (internal/matching).  One symbol, so one partition of the inbound log.  *)
(*                                                                         *)
(* The outcomes are those of Market, which this module implements.         *)
(***************************************************************************)
EXTENDS Book

CONSTANTS Orders,
          Requests,       \* terms, and the venue named for the remainder
          Venues,
          Rank,           \* the venues by latency, ties broken by name
          Batch,          \* rows the relay publishes at a time
          MaxFaults,      \* bound on failures and restarts
          ProduceFails    \* whether producing outcomes may fail

ASSUME ShardAssumption ==
    /\ Requests \subseteq [side : {"BUY", "SELL"}, type : {"LIMIT", "MARKET"},
                           tif : {"GTC", "IOC"}, qty : Nat \ {0}, price : Nat \ {0},
                           venue : Venues]
    /\ IsFiniteSet(Venues) /\ Rank \in [Venues -> Nat]
    /\ \A v, w \in Venues : Rank[v] = Rank[w] => v = w
    /\ Batch \in Nat \ {0}
    /\ MaxFaults \in Nat
    /\ ProduceFails \in BOOLEAN

\* A republished batch is recognised only if the window covers it.
ASSUME WindowCoversBatch == Batch <= Window

VARIABLES req,       \* the terms each order id carries
          outbox,    \* rows in id order, here the order of their commits
          marked,    \* how many of them are marked as published
          inbound,   \* orders.inbound
          at,        \* where the shard's reader stands
          next,      \* the offset a snapshot would record
          seen,      \* the shard's ring of recent order ids
          books,     \* by venue
          saved,     \* the latest snapshot
          fills,     \* the distinct executions, as first produced
          outcomes,  \* orders.outcomes, where a half names its execution
          trace,     \* history: the books after each inbound record
          restarts,  \* history: the offsets the shard was restarted from
          faults

vars == <<req, outbox, marked, inbound, at, next, seen, books, saved, fills, outcomes, trace,
          restarts, faults>>
clientVars == <<req, outbox>>
shardVars  == <<at, next, seen, books, saved, fills, outcomes, trace, restarts>>

Order(o)  == [type |-> "ORDER", order |-> o]
Cancel(o) == [type |-> "CANCEL", order |-> o]

-----------------------------------------------------------------------------
(* The outbox: rows that committed with the accept or the cancel request. *)

Enqueue(o) ==
    /\ Order(o) \notin ToSet(outbox)
    /\ outbox' = Append(outbox, Order(o))
    /\ UNCHANGED <<req, marked, inbound, shardVars, faults>>

EnqueueCancel(o) ==
    /\ Order(o) \in ToSet(outbox)
    /\ Cancel(o) \notin ToSet(outbox)
    /\ outbox' = Append(outbox, Cancel(o))
    /\ UNCHANGED <<req, marked, inbound, shardVars, faults>>

\* A mutant: the batch is read without ORDER BY.
UnpublishedReversed == Reverse(SubSeq(outbox, marked + 1, Lesser(marked + Batch, Len(outbox))))

\* The oldest rows that are not marked.
Unpublished == SubSeq(outbox, marked + 1, Lesser(marked + Batch, Len(outbox)))

\* The whole batch is produced, then marked.  Only the relay looks at marks,
\* so nothing can tell the two steps from one.
Publish ==
    /\ Unpublished # <<>>
    /\ inbound' = inbound \o Unpublished
    /\ marked' = marked + Len(Unpublished)
    /\ UNCHANGED <<clientVars, shardVars, faults>>

\* The produce fails part way, or the mark fails or is never reached: what
\* was produced will be produced again.
PublishUnmarked ==
    /\ faults < MaxFaults
    /\ faults' = faults + 1
    /\ \E n \in 1 .. Len(Unpublished) : inbound' = inbound \o SubSeq(Unpublished, 1, n)
    /\ UNCHANGED <<clientVars, marked, shardVars>>

-----------------------------------------------------------------------------
(* Routing. *)

\* A mutant: only the venue the order names is asked.
OffersAtNamedVenue(bs, r) == {[maker |-> m, venue |-> r.venue] : m \in Crossing(bs[r.venue], r)}

\* Every venue's crossing quotes.
Offers(bs, r) == UNION {{[maker |-> m, venue |-> v] : m \in Crossing(bs[v], r)} : v \in Venues}

\* Best price first, then the faster venue, then time.
Cheaper(r, x, y) ==
    \/ Better(r.side, x.maker.price, y.maker.price)
    \/ /\ x.maker.price = y.maker.price
       /\ \/ Rank[x.venue] < Rank[y.venue]
          \/ x.venue = y.venue /\ x.maker.at < y.maker.at

Preference(bs, r) == {p \in Offers(bs, r) \X Offers(bs, r) : Cheaper(r, p[1], p[2])}

\* What is to be taken of each quote, and at each venue.
Route(bs, r) == Taken([x \in Offers(bs, r) |-> x.maker.left], Preference(bs, r), r.qty)
Planned(bs, r, v) == SumOver(Route(bs, r), {x \in Offers(bs, r) : x.venue = v})
Visited(bs, r) == {v \in Venues : Planned(bs, r, v) > 0}

\* Venues are visited in the order in which the best quotes reach them.
Reached(bs, r) ==
    LET met(v) == {x \in Offers(bs, r) : x.venue = v /\ Route(bs, r)[x] > 0}
    IN {p \in Venues \X Venues :
          \E x \in met(p[1]) : \A y \in met(p[2]) : <<x, y>> \in Preference(bs, r)}

-----------------------------------------------------------------------------
(* What the shard does with one inbound record: its books, its ring and the *)
(* outcomes it produces.                                                    *)

\* An execution is identified by its venue and its number there.
Execution(v, f) == [venue |-> v, seq |-> f.seq, taker |-> f.taker, maker |-> f.maker,
                    qty |-> f.qty, price |-> f.price]
Identity(x) == <<x.venue, x.seq>>

Half(o, k, role) == [type |-> "HALF", order |-> o, fill |-> k, role |-> role]
Disposition(o, what) == [type |-> "DISPOSITION", order |-> o, what |-> what]
Verdict(o, removed) == [type |-> "VERDICT", order |-> o, removed |-> removed]

Total(done) == SumOver([x \in done |-> x.qty], done)
Remainder(o, done) == req[o].qty - Total(done)

\* One slice at each venue that is visited, none of which may stay.
Slice(bs, o, v) == Submitted(bs[v], o, req[o], Planned(bs, req[o], v), FALSE)

Sliced(bs, o) ==
    LET visited == Visited(bs, req[o])
    IN [books |-> [v \in Venues |-> IF v \in visited THEN Slice(bs, o, v).book ELSE bs[v]],
        done  |-> UNION {{Execution(v, f) : f \in Slice(bs, o, v).fills} : v \in visited}]

\* Then the remainder, at the venue the order names.
Posted(o, acc) ==
    LET v == req[o].venue
        posted == Submitted(acc.books[v], o, req[o], Remainder(o, acc.done), TRUE)
    IN IF Remainder(o, acc.done) > 0 /\ MayRest(req[o])
       THEN [books |-> [acc.books EXCEPT ![v] = posted.book],
             done  |-> acc.done \cup {Execution(v, f) : f \in posted.fills}]
       ELSE acc

Executed(bs, o) == Posted(o, Sliced(bs, o))

\* Executions in the order in which they happen.
Listed(bs, o, done) ==
    InOrder(done, {p \in done \X done :
                     IF p[1].venue = p[2].venue THEN p[1].seq < p[2].seq
                     ELSE <<p[1].venue, p[2].venue>> \in Reached(bs, req[o])})

\* The executions known once those of one record are among them: a replayed
\* record brings the ones it brought before.
Known(o, done) == fills \o Listed(books, o, done \ ToSet(fills))

Fate(o, done) ==
    IF Remainder(o, done) = 0 THEN "COMPLETE"
    ELSE IF MayRest(req[o]) THEN "RESTED" ELSE "CANCELLED"

\* Taker half and maker half of each execution.
Halves(o, done) ==
    LET list == Listed(books, o, done)
        number(x) == CHOOSE k \in DOMAIN Known(o, done) : Known(o, done)[k] = x
    IN [i \in 1 .. 2 * Len(list) |->
          LET x == list[(i + 1) \div 2]
          IN IF i % 2 = 1 THEN Half(x.taker, number(x), "TAKER") ELSE Half(x.maker, number(x), "MAKER")]

\* A mutant: the disposition is produced ahead of the halves it follows.
OrderRecordsReversed(o, done) == <<Disposition(o, Fate(o, done))>> \o Halves(o, done)

\* Both halves of each execution, then the disposition, in one produce.
OrderRecords(o, done) == Append(Halves(o, done), Disposition(o, Fate(o, done)))

\* All that follows from an execution.
Reported(o, e) ==
    [books |-> e.books, seen |-> Remember(seen, o), fills |-> Known(o, e.done),
     records |-> OrderRecords(o, e.done)]

\* A mutant: the shard leaves recognising a repeated order to the books.
OnOrderUnchecked(o) == Reported(o, Executed(books, o))

OnOrder(o) ==
    IF o \in ToSet(seen)
    THEN [books |-> books, seen |-> seen, fills |-> fills, records |-> <<>>]
    ELSE Reported(o, Executed(books, o))

\* The first venue that holds the order, if there is one: the venues are asked
\* in a fixed order.
Home(bs, o) ==
    LET holders == {v \in Venues : Holds(bs[v], o)}
    IN IF holders = {} THEN {} ELSE {CHOOSE v \in holders : TRUE}

Withdrawn(bs, o) == [v \in Venues |-> IF v \in Home(bs, o) THEN Without(bs[v], o) ELSE bs[v]]

\* A mutant: a cancel that finds nothing is not answered.
OnCancelSilent(o) ==
    [books |-> Withdrawn(books, o), seen |-> seen, fills |-> fills,
     records |-> IF Home(books, o) # {} THEN <<Verdict(o, TRUE)>> ELSE <<>>]

\* The venue that holds it gives it up.
OnCancel(o) ==
    [books |-> Withdrawn(books, o), seen |-> seen, fills |-> fills,
     records |-> <<Verdict(o, Home(books, o) # {})>>]

Effect(rec) == IF rec.type = "ORDER" THEN OnOrder(rec.order) ELSE OnCancel(rec.order)

Core(bs) == [v \in Venues |-> Saved(bs[v])]

\* The books after inbound records 1 .. i, as they first were.
CoreAfter(i) == IF i = 0 THEN [v \in Venues |-> Saved(EmptyBook)] ELSE trace[i]

\* The history grows only when a record is met for the first time.
Traced(reader, bs) == trace \o [i \in 1 .. reader - 1 - Len(trace) |-> Core(bs)]

Handle ==
    /\ at <= Len(inbound)
    /\ \E e \in {Effect(inbound[at])} :
         /\ books' = e.books
         /\ seen' = e.seen
         /\ fills' = e.fills
         /\ outcomes' = outcomes \o e.records
         /\ trace' = Traced(at + 1, e.books)
    /\ at' = at + 1
    /\ next' = at + 1
    /\ UNCHANGED <<clientVars, marked, inbound, saved, restarts, faults>>

\* The books and the ring have changed when the produce fails; the reader is
\* past the batch it fetched, and the loop goes on from there.
HandleFails ==
    /\ ProduceFails
    /\ faults < MaxFaults
    /\ faults' = faults + 1
    /\ at <= Len(inbound)
    /\ \E e \in {Effect(inbound[at])} :
         /\ e.records # <<>>
         /\ books' = e.books
         /\ seen' = e.seen
         /\ \E i \in at .. Len(inbound) : at' = i + 1 /\ trace' = Traced(i + 1, e.books)
    /\ UNCHANGED <<clientVars, marked, inbound, next, saved, fills, outcomes, restarts>>

-----------------------------------------------------------------------------
(* Snapshots. *)

\* A mutant: the offset of the record last handled, not of the one to read.
SnapshotOneBehind ==
    /\ faults < MaxFaults
    /\ saved' = [next |-> Greater(1, next - 1), books |-> Core(books)]
    /\ saved' # saved
    /\ UNCHANGED <<clientVars, marked, inbound, at, next, seen, books, fills, outcomes, trace,
                   restarts, faults>>

\* Taken between any two records; one that no restart can load is left out.
Snapshot ==
    /\ faults < MaxFaults
    /\ saved' = [next |-> next, books |-> Core(books)]
    /\ saved' # saved
    /\ UNCHANGED <<clientVars, marked, inbound, at, next, seen, books, fills, outcomes, trace,
                   restarts, faults>>

\* A mutant: the number of the last execution is not restored.
RecoveredFromZero(s) == [v \in Venues |-> Loaded([s[v] EXCEPT !.seq = 0])]

Recovered(s) == [v \in Venues |-> Loaded(s[v])]

\* The ring of the shard is not part of a snapshot.
Restart ==
    /\ faults < MaxFaults
    /\ faults' = faults + 1
    /\ books' = Recovered(saved.books)
    /\ seen' = <<>>
    /\ at' = saved.next
    /\ next' = saved.next
    /\ restarts' = restarts \cup {saved.next}
    /\ UNCHANGED <<clientVars, marked, inbound, saved, fills, outcomes, trace>>

-----------------------------------------------------------------------------
Init ==
    /\ req \in [Orders -> Requests]
    /\ outbox = <<>> /\ marked = 0 /\ inbound = <<>>
    /\ at = 1 /\ next = 1 /\ seen = <<>>
    /\ books = [v \in Venues |-> EmptyBook]
    /\ saved = [next |-> 1, books |-> Core(books)]
    /\ fills = <<>> /\ outcomes = <<>> /\ trace = <<>>
    /\ restarts = {} /\ faults = 0

Next ==
    \/ \E o \in Orders : Enqueue(o) \/ EnqueueCancel(o)
    \/ Publish \/ PublishUnmarked
    \/ Handle \/ HandleFails
    \/ Snapshot \/ Restart

Spec == Init /\ [][Next]_vars

\* The relay's loop and the shard's loop keep running.  The second conjunct is
\* WF_vars(Handle) with its enabling condition written out, which TLC can
\* evaluate without computing what the record does.
FairSpec ==
    /\ Spec
    /\ WF_vars(Publish)
    /\ []<>(at > Len(inbound)) \/ []<><<Handle>>_vars

-----------------------------------------------------------------------------
(* The shard implements the market.  The market's view of the book is what   *)
(* the history says it last was, which a shard that replays its tail has     *)
(* still to reach.                                                           *)

\* The inbound records the shard has met so far.
Met == {inbound[i] : i \in 1 .. Len(trace)}

\* What rests of an order, on whatever venues.
Left(core, o) ==
    LET quotes == {q \in Venues \X UNION {core[v].resting : v \in Venues} :
                     q[2] \in core[q[1]].resting /\ q[2].order = o}
    IN SumOver([q \in quotes |-> q[2].left], quotes)

Terms(r) == [acct |-> "account", side |-> r.side, type |-> r.type, tif |-> r.tif,
             qty |-> r.qty, price |-> r.price]

EnoughRepeats == 100

MarketRequests == [o \in Orders |-> Terms(req[o])]
MarketTaken == Cardinality(Met)
MarketOpen == [o \in Orders |-> Left(CoreAfter(Len(trace)), o)]
MarketFills == [i \in DOMAIN fills |-> [taker |-> fills[i].taker, maker |-> fills[i].maker,
                                        qty |-> fills[i].qty, price |-> fills[i].price]]

\* Answers beside the first to each record.
MarketRepeats == Cardinality({i \in DOMAIN outcomes : outcomes[i].type # "HALF"}) - MarketTaken

Mkt == INSTANCE Market WITH
    Accounts   <- {"account"},
    Requests   <- {Terms(r) : r \in Requests},
    MaxRepeats <- EnoughRepeats,
    req        <- MarketRequests,
    inbound    <- outbox,
    taken      <- MarketTaken,
    open       <- MarketOpen,
    fills      <- MarketFills,
    repeats    <- MarketRepeats

\* Republished records, crashes and replays included, the shard does what the
\* trading core takes the market to do (matching.go, onOrder and onCancel).
ImplementsMarket == Mkt!MarketSpec

-----------------------------------------------------------------------------
(* What must hold. *)

\* Whether the shard has caught up with everything it has ever handled.
CaughtUp == at = Len(trace) + 1

\* No two resting orders, on whatever venues, could trade with each other.
NeverCrossed ==
    \A v, w \in Venues : \A m \in books[v].resting, n \in books[w].resting :
      m.side = "BUY" /\ n.side = "SELL" => m.price < n.price

\* What all the executions an order takes part in amount to.
ExecutedOf(o) ==
    LET own == {k \in DOMAIN fills : o \in {fills[k].taker, fills[k].maker}}
    IN SumOver([k \in own |-> fills[k].qty], own)

\* What is executed of an order, republished or not, and what still rests of
\* it, on whatever venues, never exceed its size.
ExecutedWithinSize ==
    \A o \in Orders :
      ExecutedOf(o) + (IF CaughtUp THEN Left(Core(books), o) ELSE 0) <= req[o].qty

\* Two executions with the same identity are the same: a shard that replays
\* its tail never gives the identity of one execution to another.
SameFill == \A i, j \in DOMAIN fills : Identity(fills[i]) = Identity(fills[j]) => i = j

\* Replaying the log from a snapshot rebuilds the books that were there at
\* every offset, resting quantities, queue positions and counters.
ReplayRebuilds == at <= Len(trace) + 1 /\ Core(books) = CoreAfter(at - 1)

\* An order whose cancel was answered is in no book again.
CancelIsFinal ==
    CaughtUp => \A o \in Orders, removed \in BOOLEAN :
      Verdict(o, removed) \in ToSet(outcomes) => \A v \in Venues : ~Holds(books[v], o)

\* Where in the log an order first arrived.
Arrived(o) == SelectInSeq(inbound, LAMBDA rec : rec = Order(o))

\* Whoever trades was first in line: no order is left on the maker's side at a
\* better price on any venue, or at the same price and venue but earlier.
PriceTimePriority ==
    [][\A i \in Len(fills) + 1 .. Len(fills') :
         LET x == fills'[i]
             side == req[x.taker].side
         IN \A v \in Venues : \A m \in books'[v].resting :
              m.side # side /\ m.order # x.maker =>
                /\ ~Better(side, m.price, x.price)
                /\ v = x.venue /\ m.price = x.price => Arrived(x.maker) < Arrived(m.order)]_vars

\* An order reported as resting rests.
RestedRests ==
    [][\A o \in Orders :
         Len(outcomes') > Len(outcomes) /\ outcomes'[Len(outcomes')] = Disposition(o, "RESTED")
           => \E v \in Venues : Holds(books'[v], o)]_vars

\* Every accepted order is disposed of and every cancel is answered.
Answered ==
    \A o \in Orders :
      /\ Order(o) \in ToSet(outbox) ~>
           \E what \in {"COMPLETE", "RESTED", "CANCELLED"} : Disposition(o, what) \in ToSet(outcomes)
      /\ Cancel(o) \in ToSet(outbox) ~>
           \E removed \in BOOLEAN : Verdict(o, removed) \in ToSet(outcomes)
=============================================================================
