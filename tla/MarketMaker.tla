----------------------------- MODULE MarketMaker -----------------------------
(***************************************************************************)
(* The simulated market maker (internal/mm/mm.go) on the mark price of     *)
(* internal/marketdata, with the path of its own quotes through the        *)
(* engine.  One symbol: the maker visits its symbols one after another.    *)
(*                                                                         *)
(* A call of Submit or Cancel is one transaction, so one step; what it     *)
(* enqueues reaches the book in order (Shard and Pipeline say why), and    *)
(* what the book did reaches the order's status later.  All quotes are of  *)
(* one size, so two that meet fill each other.                             *)
(***************************************************************************)
EXTENDS Money, SequencesExt, FiniteSetsExt

CONSTANTS
    Marks,                         \* prices a tick may carry
    SpreadBps, LevelStep, Levels,  \* the ladder
    RequoteBps,                    \* reprice only after a move of this much
    Backing,                       \* how many unsettled quotes each side can pay for
    MaxSeq,                        \* bound on sequence numbers
    MaxTicks,                      \* bound on ticks
    MaxFaults                      \* bound on failed calls and restarts

ASSUME MarketMakerAssumption ==
    /\ Marks \subseteq Nat \ {0}
    /\ {SpreadBps, LevelStep, RequoteBps, MaxSeq} \subseteq Nat
    /\ Levels \in Nat \ {0}

Sides == {"BUY", "SELL"}

\* Client order ids: the side and a number that starts again with each life.
Quotes == Sides \X (1 .. MaxSeq)

VARIABLES
    mark,      \* the cached tick, 0 before the first
    ticks,
    seq,       \* MarketMaker.seq
    resting,   \* MarketMaker.resting
    lastQuote, \* MarketMaker.lastQuote, 0 if there is none
    ref,       \* the price QuoteOnce works with, 0 outside it
    calls,     \* what is left of its calls
    status,    \* orders.status, by client order id; what is over is "DONE"
    price,     \* orders.limit_price
    inbound,   \* orders and cancels on their way to the book
    book,      \* quotes that rest
    gone,      \* quotes the book is done with
    faults,
    slipped,   \* history: quotes that a failed call or a restart lost track of
    met,       \* history: pairs of the maker's own quotes that traded
    counted    \* history: what place last counted, and the price it asked

makerVars == <<mark, ticks, seq, resting, lastQuote, ref, calls, status, price,
               inbound, book, gone, faults, slipped, met, counted>>
deskVars   == <<seq, resting, lastQuote, ref, calls>>
orderVars  == <<status, price, inbound>>
venueVars  == <<book, gone, met>>
faultVars  == <<faults, slipped>>

-----------------------------------------------------------------------------
(* The mark. *)

\* The simulator's walk and the midpoint of the book, published by two loops of
\* their own; a tick overwrites whatever is there.
PublishMark ==
    /\ ticks < MaxTicks
    /\ mark' \in Marks
    /\ ticks' = ticks + 1
    /\ UNCHANGED <<deskVars, orderVars, venueVars, faultVars, counted>>

-----------------------------------------------------------------------------
(* QuoteOnce. *)

\* A mutant: a price that falls does not count as one that moved.
MovedUp(last, p) == p - last >= FeeBps(last, RequoteBps)

Moved(last, p) == Greater(p - last, last - p) >= FeeBps(last, RequoteBps)

Cancels(ids) == [i \in DOMAIN ids |-> [op |-> "CANCEL", id |-> ids[i]]]

\* How far from the price level i is, and its two quotes.
Offset(i) == SpreadBps + (i - 1) * LevelStep
Bid(p, i) == [op |-> "PLACE", side |-> "BUY", at |-> SubBps(p, Offset(i))]
Ask(p, i) == [op |-> "PLACE", side |-> "SELL", at |-> ApplyBps(p, Offset(i))]

\* Bids and asks alternate, from the inside out; a bid at nothing, which only the
\* outermost can be, is left out.
Ladder(p) ==
    LET bids == Cardinality({i \in 1 .. Levels : Bid(p, i).at > 0})
    IN  [k \in 1 .. Levels + bids |->
            IF k > 2 * bids THEN Ask(p, k - bids)
            ELSE IF k % 2 = 1 THEN Bid(p, (k + 1) \div 2) ELSE Ask(p, k \div 2)]

\* A mutant: the new quotes are out before the old ones are taken back.
PlaceThenCancel(p) == Ladder(p) \o Cancels(resting)

Requote(p) == Cancels(resting) \o Ladder(p)

QuoteOnce ==
    /\ ref = 0 /\ mark > 0
    /\ lastQuote = 0 \/ Moved(lastQuote, mark)
    /\ ref' = mark
    /\ calls' = Requote(mark)
    /\ resting' = <<>>
    /\ UNCHANGED <<mark, ticks, seq, lastQuote, orderVars, venueVars, faultVars, counted>>

\* Whatever became of the calls, the price counts as quoted.
QuoteDone ==
    /\ ref > 0 /\ calls = <<>>
    /\ lastQuote' = ref
    /\ ref' = 0
    /\ UNCHANGED <<mark, ticks, seq, resting, calls, orderVars, venueVars, faultVars, counted>>

Calling(op) == calls # <<>> /\ Head(calls).op = op

\* Engine.RequestCancel: over, or asked before, is an answer.
CancelQuote ==
    /\ Calling("CANCEL")
    /\ LET id == Head(calls).id
       IN  IF status[id] = "ACCEPTED"
           THEN /\ status' = [status EXCEPT ![id] = "PENDING_CANCEL"]
                /\ inbound' = Append(inbound, [op |-> "CANCEL", id |-> id])
           ELSE UNCHANGED <<status, inbound>>
    /\ calls' = Tail(calls)
    /\ UNCHANGED <<mark, ticks, seq, resting, lastQuote, ref, price, venueVars, faultVars, counted>>

\* The error is dropped, and the id with it.
CancelFails ==
    /\ Calling("CANCEL")
    /\ faults < MaxFaults
    /\ faults' = faults + 1
    /\ slipped' = slipped \cup {Head(calls).id}
    /\ calls' = Tail(calls)
    /\ UNCHANGED <<mark, ticks, seq, resting, lastQuote, ref, orderVars, venueVars, counted>>

Unsettled(side) == {q \in Quotes : q[1] = side /\ status[q] \in {"ACCEPTED", "PENDING_CANCEL"}}

\* Engine.Submit: an id that was used before answers with the order it has,
\* whatever its terms and whatever became of it.
Submitted(id, at) ==
    IF status[id] # "NONE" THEN UNCHANGED orderVars
    ELSE /\ price' = [price EXCEPT ![id] = at]
         /\ IF Cardinality(Unsettled(id[1])) < Backing
            THEN /\ status' = [status EXCEPT ![id] = "ACCEPTED"]
                 /\ inbound' = Append(inbound, [op |-> "PLACE", id |-> id])
            ELSE /\ status' = [status EXCEPT ![id] = "REJECTED"]
                 /\ UNCHANGED inbound

NextId == <<Head(calls).side, seq + 1>>

\* A mutant: only the newest quote is remembered.
RememberedLast(id) == <<id>>

Remembered(id) == Append(resting, id)

Place ==
    /\ Calling("PLACE") /\ seq < MaxSeq
    /\ seq' = seq + 1
    /\ Submitted(NextId, Head(calls).at)
    /\ resting' = IF status'[NextId] = "ACCEPTED" THEN Remembered(NextId) ELSE resting
    /\ counted' = IF status'[NextId] = "REJECTED" THEN counted
                                                  ELSE <<NextId, Head(calls).at>>
    /\ calls' = Tail(calls)
    /\ UNCHANGED <<mark, ticks, lastQuote, ref, venueVars, faultVars>>

\* The transaction failed, or its answer was lost.
PlaceFails ==
    /\ Calling("PLACE") /\ seq < MaxSeq
    /\ faults < MaxFaults
    /\ faults' = faults + 1
    /\ seq' = seq + 1
    /\ \/ UNCHANGED <<orderVars, slipped>>
       \/ Submitted(NextId, Head(calls).at) /\ slipped' = slipped \cup {NextId}
    /\ calls' = Tail(calls)
    /\ UNCHANGED <<mark, ticks, resting, lastQuote, ref, venueVars, counted>>

-----------------------------------------------------------------------------
(* The book and what comes back from it. *)

Crossing(id) ==
    {q \in book : \/ id[1] = "BUY" /\ q[1] = "SELL" /\ price[q] <= price[id]
                  \/ id[1] = "SELL" /\ q[1] = "BUY" /\ price[q] >= price[id]}

Better(q, r) ==
    IF q[1] = "BUY" THEN price[q] >= price[r] ELSE price[q] <= price[r]

Match ==
    /\ inbound # <<>>
    /\ inbound' = Tail(inbound)
    /\ LET id   == Head(inbound).id
           best == {q \in Crossing(id) : \A r \in Crossing(id) : Better(q, r)}
       IN  \/ /\ Head(inbound).op = "CANCEL"
              /\ book' = book \ {id} /\ gone' = gone \cup {id}
              /\ UNCHANGED met
           \/ /\ Head(inbound).op = "PLACE" /\ best = {}
              /\ book' = book \cup {id}
              /\ UNCHANGED <<gone, met>>
           \/ /\ Head(inbound).op = "PLACE"
              /\ \E q \in best : /\ book' = book \ {q} /\ gone' = gone \cup {id, q}
                                 /\ met' = met \cup {{id, q}}
    /\ UNCHANGED <<mark, ticks, deskVars, status, price, faultVars, counted>>

\* Somebody else takes it.
Taken(id) ==
    /\ id \in book
    /\ book' = book \ {id} /\ gone' = gone \cup {id}
    /\ UNCHANGED <<mark, ticks, deskVars, orderVars, met, faultVars, counted>>

\* The outcomes of an order settle.
Settled(id) ==
    /\ id \in gone /\ status[id] # "DONE"
    /\ status' = [status EXCEPT ![id] = "DONE"]
    /\ UNCHANGED <<mark, ticks, deskVars, price, inbound, venueVars, faultVars, counted>>

-----------------------------------------------------------------------------
\* Everything the maker knows is in memory; its account and its orders are not.
RestartMaker ==
    /\ faults < MaxFaults
    /\ faults' = faults + 1
    /\ seq' = 0 /\ resting' = <<>> /\ lastQuote' = 0 /\ ref' = 0 /\ calls' = <<>>
    /\ slipped' = slipped \cup {q \in Quotes : status[q] = "ACCEPTED"}
    /\ UNCHANGED <<mark, ticks, orderVars, venueVars, counted>>

MakerInit ==
    /\ mark = 0 /\ ticks = 0
    /\ seq = 0 /\ resting = <<>> /\ lastQuote = 0 /\ ref = 0 /\ calls = <<>>
    /\ status = [q \in Quotes |-> "NONE"] /\ price = [q \in Quotes |-> 0]
    /\ inbound = <<>> /\ book = {} /\ gone = {}
    /\ faults = 0 /\ slipped = {} /\ met = {} /\ counted = <<>>

MakerNext ==
    \/ PublishMark \/ QuoteOnce \/ QuoteDone
    \/ CancelQuote \/ CancelFails \/ Place \/ PlaceFails
    \/ Match \/ RestartMaker
    \/ \E id \in Quotes : Taken(id) \/ Settled(id)

MakerSpec == MakerInit /\ [][MakerNext]_makerVars

-----------------------------------------------------------------------------
(* What must hold. *)

\* The maker never trades with itself: the quotes it takes back are out of the
\* book before those that would meet them are in.  Only a quote it has lost track
\* of can be met.
OwnQuotesNeverMeet == \A pair \in met : pair \cap slipped # {}

ToCancel == {calls[i].id : i \in {j \in DOMAIN calls : calls[j].op = "CANCEL"}}

\* Every live quote is one the maker will take back, or one it lost track of.
EveryQuoteWatched ==
    \A q \in Quotes : status[q] = "ACCEPTED" =>
        q \in Range(resting) \cup ToCancel \cup slipped

\* How far the mark may be from the last quote before it is quoted again.
Wander == FeeBps(lastQuote, RequoteBps)

\* When the mark stops moving, what rests is quoted around a price from which it
\* has not moved, apart from quotes that slipped; and if nothing failed, every
\* rung of the ladder was placed.
QuotesFollowMark ==
    <>[](mark > 0 =>
          /\ mark \in lastQuote - Wander + 1 .. lastQuote + Wander - 1
          /\ \A q \in book \ slipped :
               \E c \in Range(Ladder(lastQuote)) : c.side = q[1] /\ c.at = price[q]
          /\ faults = 0 => \A c \in Range(Ladder(lastQuote)) :
               \E q \in Quotes : c.side = q[1] /\ c.at = price[q])

\* What place counts is an order at the price that was asked.
PlacedAsAsked == counted # <<>> => price[counted[1]] = counted[2]
=============================================================================
