------------------------------- MODULE Market -------------------------------
(***************************************************************************)
(* The matching engine as the trading core sees it: inbound records in,    *)
(* outcome records out (internal/matching/matching.go).  One symbol, one   *)
(* shard.  An inbound record is handled whole, in one step, and everything *)
(* it decides is produced by that step.  Which makers an order meets, and  *)
(* in which order, is left open here: price-time priority and routing are  *)
(* the business of the book.  How much trades, at whose price, what is     *)
(* produced in which order, and what stays in the book are not left open.  *)
(*                                                                         *)
(* The outcome topic is one sequence.  A record belongs to the partition   *)
(* of its order's account, so a partition is the subsequence of its        *)
(* records and an offset is a position in the whole sequence.              *)
(***************************************************************************)
EXTENDS OrderTerms, Sequences, FiniteSets

CONSTANTS Accounts,
          Orders,       \* client order ids, and the orders they name
          Requests,     \* what a client may ask for
          MaxRepeats    \* bound on how often something is handled again

ASSUME MarketAssumption ==
    /\ IsFiniteSet(Orders)
    /\ Requests \subseteq [acct : Accounts, side : {"BUY", "SELL"},
                           type : {"LIMIT", "MARKET"}, tif : {"GTC", "IOC"},
                           qty : Nat \ {0}, price : Nat \ {0}]
    /\ MaxRepeats \in Nat

VARIABLES req,       \* the request each client order id carries
          inbound,   \* orders.inbound, in outbox order
          taken,     \* how many inbound records the shard has handled
          open,      \* what each order still has resting in the book
          fills,     \* the executions, by book sequence number
          outcomes,  \* orders.outcomes
          repeats    \* how often something was handled again (bounded)

marketVars == <<req, inbound, taken, open, fills, outcomes, repeats>>

Buying(o) == req[o].side = "BUY"

Crosses(o, m) ==
    req[o].side # req[m].side /\ Accepts(req[o], req[m].price)

Available(o) == {m \in Orders : open[m] > 0 /\ Crosses(o, m)}

\* cum[i] of the order's quantity is done after it has met mk[1], ..., mk[i].
\* Makers are taken whole, but for at most one that completes the order, and
\* none that crosses is passed over while the order is incomplete.
Plan(o, mk, cum) ==
    LET n == Len(mk)
        part == {i \in 1 .. n : cum[i] < cum[i-1] + open[mk[i]]}
    IN
    /\ cum[0] = 0
    /\ \A i \in 1 .. n : cum[i] <= cum[i-1] + open[mk[i]]
    /\ \A i, j \in 0 .. n : i < j => cum[i] < cum[j]
    /\ \A i, j \in part : i = j
    /\ \/ cum[n] = req[o].qty
       \/ part = {} /\ Available(o) \subseteq {mk[i] : i \in 1 .. n}

Half(o, k, role) == [type |-> "HALF", order |-> o, fill |-> k, role |-> role]
Disposition(o, what) == [type |-> "DISPOSITION", order |-> o, what |-> what]
Verdict(o, removed) == [type |-> "VERDICT", order |-> o, removed |-> removed]

\* One record per execution, at the maker's price.
PlannedFills(o, mk, cum) ==
    [i \in 1 .. Len(mk) |->
        [taker |-> o, maker |-> mk[i], qty |-> cum[i] - cum[i-1],
         price |-> req[mk[i]].price]]

\* Taker half, maker half for each fill, then the disposition: one produce.
Produced(o, mk, what) ==
    LET n == Len(mk) IN
    [i \in 1 .. 2 * n + 1 |->
        IF i = 2 * n + 1 THEN Disposition(o, what)
        ELSE IF i % 2 = 1 THEN Half(o, Len(fills) + (i + 1) \div 2, "TAKER")
                          ELSE Half(mk[i \div 2], Len(fills) + i \div 2, "MAKER")]

Rests(o) == MayRest(req[o])

\* What becomes of the order once "done" of it is executed.
Fate(o, done) ==
    IF done = req[o].qty THEN "COMPLETE" ELSE IF Rests(o) THEN "RESTED" ELSE "CANCELLED"

\* A mutant: a maker loses all that the taker has done so far.
BookAfterCumulative(o, mk, cum, kept) ==
    [m \in Orders |->
        IF m = o THEN kept
        ELSE IF \E i \in 1 .. Len(mk) : mk[i] = m
             THEN open[m] - cum[CHOOSE i \in 1 .. Len(mk) : mk[i] = m]
             ELSE open[m]]

\* What mk[1], ... give is taken from the book, and "kept" of the order rests.
BookAfter(o, mk, cum, kept) ==
    [m \in Orders |->
        IF m = o THEN kept
        ELSE IF \E i \in 1 .. Len(mk) : mk[i] = m
             THEN open[m] - (LET i == CHOOSE i \in 1 .. Len(mk) : mk[i] = m
                             IN cum[i] - cum[i-1])
             ELSE open[m]]

\* What may rest.  A venue that executed a slice of the order has its id in
\* the duplicate window, and drops the remainder when it is posted there.
MayKeep(o, n, done) ==
    IF Fate(o, done) = "RESTED"
    THEN {req[o].qty - done} \cup (IF n > 0 THEN {0} ELSE {})
    ELSE {0}

Execute(o, n, mk, cum) ==
    /\ Plan(o, mk, cum)
    /\ fills' = fills \o PlannedFills(o, mk, cum)
    /\ outcomes' = outcomes \o Produced(o, mk, Fate(o, cum[n]))
    /\ \E kept \in MayKeep(o, n, cum[n]) : open' = BookAfter(o, mk, cum, kept)

MatchOrder(o) ==
    /\ taken < Len(inbound)
    /\ inbound[taken + 1] = [type |-> "ORDER", order |-> o]
    /\ \E n \in 0 .. Cardinality(Available(o)) :
       \E mk \in [1 .. n -> Available(o)] :
         /\ \A i, j \in 1 .. n : mk[i] = mk[j] => i = j
         /\ \E cum \in [0 .. n -> 0 .. req[o].qty] : Execute(o, n, mk, cum)
    /\ taken' = taken + 1
    /\ UNCHANGED <<req, inbound, repeats>>

CancelResting(o) ==
    /\ taken < Len(inbound)
    /\ inbound[taken + 1] = [type |-> "CANCEL", order |-> o]
    /\ outcomes' = Append(outcomes, Verdict(o, open[o] > 0))
    /\ open' = [open EXCEPT ![o] = 0]
    /\ taken' = taken + 1
    /\ UNCHANGED <<req, inbound, fills, repeats>>

\* Where the outcomes of one inbound record end and those of the next begin.
Boundaries == {k \in 0 .. Len(outcomes) : k = 0 \/ outcomes[k].type # "HALF"}

\* A shard that restores a snapshot, taken between two inbound records, reads
\* the tail again, or what it reads of it before it crashes once more; and
\* that produces the same outcomes a second time.
Regenerate ==
    /\ repeats < MaxRepeats
    /\ repeats' = repeats + 1
    /\ \E k, m \in Boundaries :
         k < m /\ outcomes' = outcomes \o SubSeq(outcomes, k + 1, m)
    /\ UNCHANGED <<req, inbound, taken, open, fills>>

\* The relay publishes a batch a second time: a repeated order is recognised
\* and nothing happens, a repeated cancel is looked for and answered again.
CancelAgain(o) ==
    /\ repeats < MaxRepeats
    /\ repeats' = repeats + 1
    /\ \E i \in 1 .. taken : inbound[i] = [type |-> "CANCEL", order |-> o]
    /\ outcomes' = Append(outcomes, Verdict(o, open[o] > 0))
    /\ open' = [open EXCEPT ![o] = 0]
    /\ UNCHANGED <<req, inbound, taken, fills>>

MarketInit ==
    /\ req \in [Orders -> Requests]
    /\ inbound = <<>>
    /\ taken = 0
    /\ open = [o \in Orders |-> 0]
    /\ fills = <<>>
    /\ outcomes = <<>>
    /\ repeats = 0

MarketNext ==
    \/ \E o \in Orders : MatchOrder(o) \/ CancelResting(o) \/ CancelAgain(o)
    \/ Regenerate

\* The market by itself: whatever is accepted is appended to its inbound log.
Accepted ==
    /\ Len(inbound') = Len(inbound) + 1
    /\ SubSeq(inbound', 1, Len(inbound)) = inbound
    /\ UNCHANGED <<req, taken, open, fills, outcomes, repeats>>

MarketSpec == MarketInit /\ [][MarketNext \/ Accepted]_marketVars
=============================================================================
