-------------------------------- MODULE Book --------------------------------
(***************************************************************************)
(* One venue's order book (internal/book/book.go) as a value and the       *)
(* operations on it as operators.  The resting orders are a set: price     *)
(* levels and the queues inside them are the order that price and arrival  *)
(* number put on it.                                                       *)
(***************************************************************************)
EXTENDS OrderTerms, SequencesExt

CONSTANT Window    \* how many terminated order ids are remembered

ASSUME WindowAssumption == Window \in Nat \ {0}

-----------------------------------------------------------------------------
(* Queues.  Which of two members of a set comes first is a set of pairs.    *)

\* How many members of S come before each.
Turn(S, first) == [x \in S |-> Cardinality({y \in S : <<y, x>> \in first})]

InOrder(S, first) == [k \in 1 .. Cardinality(S) |-> CHOOSE x \in S : Turn(S, first)[x] = k - 1]

\* How a quantity is spread over a queue of which each member has something
\* left: each gives what it has until the quantity is reached.
Taken(left, first, qty) ==
    [x \in DOMAIN left |->
       Greater(0, Lesser(left[x], qty - SumOver(left, {y \in DOMAIN left : <<y, x>> \in first})))]

-----------------------------------------------------------------------------
EmptyBook == [resting |-> {}, arrival |-> 0, seq |-> 0, recent |-> <<>>]

\* The latest Window of a sequence.
Latest(seq) == SubSeq(seq, Greater(1, Len(seq) - Window + 1), Len(seq))

\* A ring of the latest Window ids, where each id is entered once.
Remember(ring, o) == IF o \in ToSet(ring) THEN ring ELSE Latest(Append(ring, o))

Holds(b, o) == \E m \in b.resting : m.order = o

Seen(b, o) == o \in ToSet(b.recent) \/ Holds(b, o)

\* Which of two prices is the better one for a taker of the given side.
Better(side, p, q) == IF side = "BUY" THEN p < q ELSE p > q

\* A mutant: a newcomer joins its price level at the front.
BeforeNewestFirst(side, m, n) ==
    Better(side, m.price, n.price) \/ (m.price = n.price /\ m.at > n.at)

\* Which of two makers is met first: the one at the better price, and at the
\* same price the one that arrived earlier.
Before(side, m, n) == Better(side, m.price, n.price) \/ (m.price = n.price /\ m.at < n.at)

\* The makers a taker with terms r crosses, and their queue, best first.
Crossing(b, r) == {m \in b.resting : m.side # r.side /\ Accepts(r, m.price)}
Queue(b, r) == {p \in Crossing(b, r) \X Crossing(b, r) : Before(r.side, p[1], p[2])}

\* What each of them gives, which of them give anything, and how much it is.
Given(b, r, qty) == Taken([m \in Crossing(b, r) |-> m.left], Queue(b, r), qty)
Makers(b, r, qty) == {m \in Crossing(b, r) : Given(b, r, qty)[m] > 0}
Done(b, r, qty) == SumOver(Given(b, r, qty), Makers(b, r, qty))

\* What a maker has left keeps its place; one that has nothing left is gone.
Kept(b, r, qty) ==
    {m \in b.resting : m \notin Makers(b, r, qty)}
      \cup {[m EXCEPT !.left = @ - Given(b, r, qty)[m]] :
              m \in {n \in Makers(b, r, qty) : Given(b, r, qty)[n] < n.left}}

Rested(b, o, r, left) ==
    [order |-> o, side |-> r.side, price |-> r.price, left |-> left, at |-> b.arrival + 1]

\* The book once order o has met its makers.
Matched(b, o, r, qty, stays) ==
    [resting |-> Kept(b, r, qty)
                   \cup (IF stays /\ Done(b, r, qty) < qty
                         THEN {Rested(b, o, r, qty - Done(b, r, qty))} ELSE {}),
     arrival |-> b.arrival + 1,
     seq     |-> b.seq + Cardinality(Makers(b, r, qty)),
     recent  |-> Remember(b.recent, o)]

\* The executions, numbered in the order of the queue.
Fills(b, o, r, qty) ==
    {[seq |-> b.seq + 1 + Turn(Makers(b, r, qty), Queue(b, r))[m], taker |-> o, maker |-> m.order,
      qty |-> Given(b, r, qty)[m], price |-> m.price] : m \in Makers(b, r, qty)}

\* A quantity of order o is matched, and the remainder rests if it may stay.
\* An id the book has seen is ignored.
Submitted(b, o, r, qty, stays) ==
    IF Seen(b, o) THEN [book |-> b, fills |-> {}]
    ELSE [book |-> Matched(b, o, r, qty, stays), fills |-> Fills(b, o, r, qty)]

Without(b, o) == [b EXCEPT !.resting = {m \in @ : m.order # o}]

\* What a snapshot keeps of a book: not the duplicate window.
Saved(b) == [resting |-> b.resting, arrival |-> b.arrival, seq |-> b.seq]

\* The window starts again with the resting orders, in order of arrival.
Loaded(s) ==
    LET queue == InOrder(s.resting, {p \in s.resting \X s.resting : p[1].at < p[2].at})
    IN [resting |-> s.resting, arrival |-> s.arrival, seq |-> s.seq,
        recent |-> Latest([k \in DOMAIN queue |-> queue[k].order])]
=============================================================================
