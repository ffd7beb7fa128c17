---------------------------- MODULE Shard_proofs ----------------------------
(***************************************************************************)
(* What routing, matching, the relay and the shard's recovery guarantee,   *)
(* for any orders and terms, venues, window, batch and number of faults:   *)
(* published again, handled again or recovered, an order is executed once, *)
(* within its size, against books that are never crossed.                  *)
(*                                                                         *)
(* The first half is about operators: how a quantity is spread over a      *)
(* queue, over the venues, and what an order and a cancel do to the books. *)
(* The second is about steps.  The history says what the books were after  *)
(* each inbound record, and each of them follows from the one before; so   *)
(* a shard that starts again from a snapshot meets the same books on its   *)
(* way, and executes what it executed.                                     *)
(*                                                                         *)
(* The relay publishes a batch again before it goes on, so between two     *)
(* copies of an order there are only rows of one batch.  The window covers *)
(* a batch, so the ring still knows the order, unless it was emptied in    *)
(* between.  The ring is not in a snapshot: this is where                  *)
(* NoCopyAcrossRestart is needed.                                          *)
(*                                                                         *)
(* Last, the refinement.  The first reader of a record takes the market's  *)
(* step: the makers an order met over all venues are a plan of it.  What   *)
(* was met has its answers in the outcomes, all of them (AnswersStand), so *)
(* another reader changes nothing, or repeats a whole answer.              *)
(***************************************************************************)
EXTENDS Shard, Money_proofs, SequenceTheorems

-----------------------------------------------------------------------------
(* Queues. *)

\* The pairs line the members of S up: one of any two comes first.
Lines(S, first) ==
    /\ \A x \in S : <<x, x>> \notin first
    /\ \A x, y, z \in S : <<x, y>> \in first /\ <<y, z>> \in first => <<x, z>> \in first
    /\ \A x, y \in S : x # y => <<x, y>> \in first \/ <<y, x>> \in first

\* The members of S that come before x.
Prior(S, first, x) == {y \in S : <<y, x>> \in first}

\* A subset of a line is a line.
LEMMA LinesPart ==
    ASSUME NEW S, NEW T \in SUBSET S, NEW first, Lines(S, first)
    PROVE  Lines(T, first)
  BY DEF Lines

\* Turns count from zero, in the order of the line, and no two have the same.
LEMMA TurnProps ==
    ASSUME NEW S, IsFiniteSet(S), NEW first, Lines(S, first)
    PROVE  /\ Turn(S, first) \in [S -> 0 .. Cardinality(S) - 1]
           /\ \A x, y \in S : <<x, y>> \in first => Turn(S, first)[x] < Turn(S, first)[y]
           /\ \A x, y \in S : Turn(S, first)[x] = Turn(S, first)[y] => x = y
  <1>1. Cardinality(S) \in Nat
    BY FS_CardinalityType
  <1>2. ASSUME NEW x \in S
        PROVE  /\ Prior(S, first, x) \in SUBSET S /\ IsFiniteSet(Prior(S, first, x))
               /\ Cardinality(Prior(S, first, x)) \in Nat
               /\ Cardinality(Prior(S, first, x)) < Cardinality(S)
               /\ Turn(S, first)[x] = Cardinality(Prior(S, first, x))
    <2>1. Prior(S, first, x) \in SUBSET S /\ x \notin Prior(S, first, x)
      BY DEF Prior, Lines
    <2>2. IsFiniteSet(Prior(S, first, x)) /\ Cardinality(Prior(S, first, x)) <= Cardinality(S)
          /\ Cardinality(Prior(S, first, x)) # Cardinality(S)
      BY <2>1, FS_Subset
    <2>3. Cardinality(Prior(S, first, x)) \in Nat
      BY <2>2, FS_CardinalityType
    <2>4. Turn(S, first)[x] = Cardinality(Prior(S, first, x))
      BY DEF Turn, Prior
    <2> QED BY <1>1, <2>1, <2>2, <2>3, <2>4
  <1>3. ASSUME NEW x \in S, NEW y \in S, <<x, y>> \in first
        PROVE  Turn(S, first)[x] < Turn(S, first)[y]
    <2>1. Prior(S, first, x) \in SUBSET Prior(S, first, y)
      BY <1>3 DEF Prior, Lines
    <2>2. x \in Prior(S, first, y) /\ x \notin Prior(S, first, x)
      BY <1>3 DEF Prior, Lines
    <2>3. Cardinality(Prior(S, first, x)) <= Cardinality(Prior(S, first, y))
          /\ Cardinality(Prior(S, first, x)) # Cardinality(Prior(S, first, y))
      BY <1>2, <2>1, <2>2, FS_Subset
    <2> QED BY <1>2, <2>3
  <1>4. Turn(S, first) \in [S -> 0 .. Cardinality(S) - 1]
    <2>1. \A x \in S : Turn(S, first)[x] \in 0 .. Cardinality(S) - 1
      BY <1>1, <1>2
    <2> QED BY <2>1 DEF Turn
  <1>5. ASSUME NEW x \in S, NEW y \in S, Turn(S, first)[x] = Turn(S, first)[y], x # y
        PROVE  FALSE
    <2>1. <<x, y>> \in first \/ <<y, x>> \in first
      BY <1>5 DEF Lines
    <2>2. Turn(S, first)[x] \in Int /\ Turn(S, first)[y] \in Int
      BY <1>4
    <2> QED BY <1>3, <1>5, <2>1, <2>2
  <1> QED BY <1>3, <1>4, <1>5

\* A line, written down, has each member once.
LEMMA InOrderProps ==
    ASSUME NEW S, IsFiniteSet(S), NEW first, Lines(S, first)
    PROVE  /\ InOrder(S, first) \in Seq(S)
           /\ Len(InOrder(S, first)) = Cardinality(S)
           /\ \A k \in 1 .. Cardinality(S) : Turn(S, first)[InOrder(S, first)[k]] = k - 1
           /\ \A i, j \in 1 .. Cardinality(S) : InOrder(S, first)[i] = InOrder(S, first)[j] => i = j
           /\ \A x \in S : /\ Turn(S, first)[x] + 1 \in 1 .. Cardinality(S)
                           /\ InOrder(S, first)[Turn(S, first)[x] + 1] = x
  <1> DEFINE n == Cardinality(S)
             t == Turn(S, first)
             s == InOrder(S, first)
  <1>1. n \in Nat
    BY FS_CardinalityType
  <1>2. /\ t \in [S -> 0 .. n - 1]
        /\ \A x, y \in S : t[x] = t[y] => x = y
    BY TurnProps
  <1>3. \A k \in 1 .. n : s[k] = CHOOSE x \in S : t[x] = k - 1
    BY DEF InOrder
  <1>4. s = [k \in 1 .. n |-> s[k]]
    BY DEF InOrder
  <1> HIDE DEF n, t, s
  <1>5. t \in Injection(S, 0 .. n - 1)
    BY <1>2 DEF Injection, IsInjective
  <1>6. IsFiniteSet(0 .. n - 1) /\ Cardinality(0 .. n - 1) = n
    <2>1. 0 \in Int /\ n - 1 \in Int
      BY <1>1
    <2> QED BY <1>1, <2>1, FS_Interval
  <1>7. t \in Surjection(S, 0 .. n - 1)
    BY <1>5, <1>6, FS_Injection DEF n
  <1>8. \A k \in 0 .. n - 1 : \E x \in S : t[x] = k
    BY <1>7 DEF Surjection
  <1>9. \A k \in 1 .. n : s[k] \in S /\ t[s[k]] = k - 1
    <2> SUFFICES ASSUME NEW k \in 1 .. n PROVE s[k] \in S /\ t[s[k]] = k - 1
      OBVIOUS
    <2>1. k - 1 \in 0 .. n - 1
      BY <1>1
    <2>2. \E x \in S : t[x] = k - 1
      BY <1>8, <2>1
    <2>3. s[k] = CHOOSE x \in S : t[x] = k - 1
      BY <1>3
    <2> QED BY <2>2, <2>3
  <1>10. s \in Seq(S) /\ Len(s) = n
    <2>1. s \in [1 .. n -> S]
      BY <1>4, <1>9
    <2> QED BY <1>1, <2>1
  <1>11. \A i, j \in 1 .. n : s[i] = s[j] => i = j
    <2> SUFFICES ASSUME NEW i \in 1 .. n, NEW j \in 1 .. n, s[i] = s[j] PROVE i = j
      OBVIOUS
    <2>1. i - 1 = j - 1 /\ i \in Int /\ j \in Int
      BY <1>1, <1>9
    <2> QED BY <2>1
  <1>12. ASSUME NEW x \in S
         PROVE  t[x] + 1 \in 1 .. n /\ s[t[x] + 1] = x
    <2>1. t[x] \in 0 .. n - 1
      BY <1>2
    <2>2. t[x] + 1 \in 1 .. n
      BY <1>1, <2>1
    <2>3. PICK k \in 1 .. n : k = t[x] + 1
      BY <2>2
    <2>4. s[k] \in S /\ t[s[k]] = k - 1
      BY <1>9
    <2>5. k - 1 = t[x]
      BY <2>1, <2>3
    <2> QED BY <1>2, <2>2, <2>3, <2>4, <2>5
  <1> QED BY <1>9, <1>10, <1>11, <1>12 DEF n, t, s

\* The members before x are those with an earlier turn.
LEMMA PriorByTurn ==
    ASSUME NEW S, IsFiniteSet(S), NEW first, Lines(S, first), NEW x \in S
    PROVE  Prior(S, first, x) = {y \in S : Turn(S, first)[y] < Turn(S, first)[x]}
  <1>1. ASSUME NEW y \in S
        PROVE  <<y, x>> \in first <=> Turn(S, first)[y] < Turn(S, first)[x]
    <2>1. Turn(S, first)[x] \in Int /\ Turn(S, first)[y] \in Int
      BY TurnProps
    <2>2. <<x, y>> \in first => Turn(S, first)[x] < Turn(S, first)[y]
      BY TurnProps
    <2>3. <<y, x>> \in first => Turn(S, first)[y] < Turn(S, first)[x]
      BY TurnProps
    <2>4. x # y => <<x, y>> \in first \/ <<y, x>> \in first
      BY DEF Lines
    <2> QED BY <2>1, <2>2, <2>3, <2>4
  <1> QED BY <1>1 DEF Prior

\* A queue that is asked for a quantity gives that quantity, or all it has;
\* nobody gives anything before all who come earlier have given what they have.
LEMMA TakenProps ==
    ASSUME NEW C, IsFiniteSet(C), NEW left \in [C -> Nat], NEW first, Lines(C, first),
           NEW qty \in Nat
    PROVE  /\ Taken(left, first, qty) \in [C -> Nat]
           /\ \A x \in C : Taken(left, first, qty)[x] <= left[x]
           /\ SumOver(Taken(left, first, qty), C) = Lesser(qty, SumOver(left, C))
           /\ \A x, y \in C : <<y, x>> \in first /\ Taken(left, first, qty)[x] > 0
                                => Taken(left, first, qty)[y] = left[y]
  <1> DEFINE f == Taken(left, first, qty)
             A(x) == SumOver(left, Prior(C, first, x))
             t == Turn(C, first)
             n == Cardinality(C)
             D(k) == {x \in C : t[x] < k}
             M == {k \in Nat : SumOver(f, D(k)) = Lesser(qty, SumOver(left, D(k)))}
  <1>0. n \in Nat /\ t \in [C -> 0 .. n - 1] /\ \A x, y \in C : t[x] = t[y] => x = y
    BY FS_CardinalityType, TurnProps
  <1>1. ASSUME NEW x \in C
        PROVE  IsFiniteSet(Prior(C, first, x)) /\ A(x) \in Nat
    <2>1. Prior(C, first, x) \in SUBSET C
      BY DEF Prior
    <2>2. IsFiniteSet(Prior(C, first, x))
      BY <2>1, FS_Subset
    <2> QED BY <2>1, <2>2, SumType
  <1>2. f = [x \in C |-> Greater(0, Lesser(left[x], qty - A(x)))]
    BY DEF Taken, Prior
  <1>3. ASSUME NEW x \in C
        PROVE  /\ f[x] = Greater(0, Lesser(left[x], qty - A(x)))
               /\ f[x] \in Nat /\ f[x] <= left[x]
    BY <1>1, <1>2 DEF Greater, Lesser
  <1>4. f \in [C -> Nat]
    BY <1>2, <1>3
  <1> HIDE DEF f
  <1>5. ASSUME NEW k \in Nat
        PROVE  IsFiniteSet(D(k)) /\ SumOver(f, D(k)) \in Nat /\ SumOver(left, D(k)) \in Nat
    <2>1. D(k) \in SUBSET C
      OBVIOUS
    <2>2. IsFiniteSet(D(k))
      BY <2>1, FS_Subset
    <2> QED BY <1>4, <2>1, <2>2, SumType
  <1>6. 0 \in M
    <2>1. D(0) = {}
      BY <1>0
    <2> QED BY <2>1, SumEmpty DEF Lesser
  <1>7. ASSUME NEW k \in M
        PROVE  k + 1 \in M
    <2>1. CASE \E x \in C : t[x] = k
      <3>1. PICK x \in C : t[x] = k
        BY <2>1
      <3>2. D(k + 1) = D(k) \cup {x} /\ x \notin D(k)
        BY <1>0, <3>1
      <3>3. Prior(C, first, x) = D(k)
        BY <3>1, PriorByTurn
      <3>4. /\ SumOver(f, D(k) \cup {x}) = SumOver(f, D(k)) + f[x]
            /\ SumOver(left, D(k) \cup {x}) = SumOver(left, D(k)) + left[x]
        <4>1. \A y \in D(k) : f[y] \in Int /\ left[y] \in Int
          BY <1>4
        <4>2. f[x] \in Int /\ left[x] \in Int
          BY <1>4
        <4> QED BY <1>5, <3>2, <4>1, <4>2, SumAdd
      <3>5. SumOver(f, D(k)) = Lesser(qty, SumOver(left, D(k)))
        OBVIOUS
      <3>6. f[x] = Greater(0, Lesser(left[x], qty - SumOver(left, D(k))))
        BY <1>3, <3>3
      <3>7. left[x] \in Nat /\ SumOver(left, D(k)) \in Nat
        BY <1>5
      <3>8. SumOver(f, D(k)) + f[x] = Lesser(qty, SumOver(left, D(k)) + left[x])
        BY <3>5, <3>6, <3>7 DEF Lesser, Greater
      <3>9. SumOver(f, D(k + 1)) = Lesser(qty, SumOver(left, D(k + 1)))
        BY <3>2, <3>4, <3>8
      <3> QED BY <3>9
    <2>2. CASE ~\E x \in C : t[x] = k
      <3>1. D(k + 1) = D(k)
        BY <1>0, <2>2
      <3>2. SumOver(f, D(k)) = Lesser(qty, SumOver(left, D(k)))
        OBVIOUS
      <3>3. SumOver(f, D(k + 1)) = Lesser(qty, SumOver(left, D(k + 1)))
        <4> HIDE DEF D
        <4> QED BY <3>1, <3>2
      <3>4. k + 1 \in Nat
        OBVIOUS
      <3> HIDE DEF D
      <3> QED BY <3>3, <3>4
    <2> QED BY <2>1, <2>2
  <1>8. n \in M
    <2>1. M \in SUBSET Nat
      OBVIOUS
    <2>2. M = Nat
      BY <1>6, <1>7, <2>1, Induct
    <2> QED BY <1>0, <2>2
  <1>9. D(n) = C
    BY <1>0
  <1>10. ASSUME NEW x \in C, NEW y \in C, <<y, x>> \in first, f[x] > 0
         PROVE  f[y] = left[y]
    <2>1. A(x) < qty
      BY <1>1, <1>3, <1>10 DEF Greater, Lesser
    <2>2. Prior(C, first, y) \in SUBSET Prior(C, first, x)
      BY <1>10 DEF Prior, Lines
    <2>3. y \in Prior(C, first, x) \ Prior(C, first, y)
      BY <1>10 DEF Prior, Lines
    <2>4. A(y) + left[y] <= A(x)
      <3>1. \A z \in Prior(C, first, x) : left[z] \in Nat
        BY DEF Prior
      <3> QED BY <1>1, <2>2, <2>3, <3>1, SumWithin
    <2>5. f[y] = Greater(0, Lesser(left[y], qty - A(y))) /\ A(y) \in Nat /\ A(x) \in Nat
      BY <1>1, <1>3
    <2>6. left[y] \in Nat
      OBVIOUS
    <2> QED BY <2>1, <2>4, <2>5, <2>6 DEF Greater, Lesser
  <1>11. SumOver(f, C) = Lesser(qty, SumOver(left, C))
    BY <1>8, <1>9
  <1> QED BY <1>3, <1>4, <1>10, <1>11 DEF f

-----------------------------------------------------------------------------
(* Books. *)

Sides == {"BUY", "SELL"}

Quote == [order : Orders, side : Sides, price : Nat \ {0}, left : Nat \ {0}, at : Nat \ {0}]

\* Resting orders as a book holds them: each once, no two arrived together.
QuotesOK(R) ==
    /\ R \in SUBSET Quote /\ IsFiniteSet(R)
    /\ \A m, n \in R : m.order = n.order \/ m.at = n.at => m = n

\* The makers a taker crosses stand in a line.
LEMMA QueueLines ==
    ASSUME NEW b, QuotesOK(b.resting), NEW r, r.side \in Sides
    PROVE  /\ Crossing(b, r) \in SUBSET b.resting /\ IsFiniteSet(Crossing(b, r))
           /\ Lines(Crossing(b, r), Queue(b, r))
  <1> DEFINE C == Crossing(b, r)
  <1>1. C \in SUBSET b.resting
    BY DEF Crossing
  <1>2. IsFiniteSet(C)
    BY <1>1, FS_Subset DEF QuotesOK
  <1>3. \A m \in C : m.price \in Int /\ m.at \in Int
    BY <1>1 DEF QuotesOK, Quote
  <1>4. \A m, n \in C : m.at = n.at => m = n
    BY <1>1 DEF QuotesOK
  <1>5. \A x, y \in C : <<x, y>> \in Queue(b, r) <=> Before(r.side, x, y)
    BY DEF Queue
  <1> HIDE DEF C
  <1>6. /\ \A x \in C : ~Before(r.side, x, x)
        /\ \A x, y, z \in C : Before(r.side, x, y) /\ Before(r.side, y, z) => Before(r.side, x, z)
        /\ \A x, y \in C : x # y => Before(r.side, x, y) \/ Before(r.side, y, x)
    BY <1>3, <1>4 DEF Before, Better
  <1>7. Lines(C, Queue(b, r))
    BY <1>5, <1>6 DEF Lines
  <1> QED BY <1>1, <1>2, <1>7 DEF C

\* What the crossed makers have left in all.
Depth(b, r) == SumOver([m \in Crossing(b, r) |-> m.left], Crossing(b, r))

\* What the makers give is what is asked for, or all they have.
LEMMA GivenProps ==
    ASSUME NEW b, QuotesOK(b.resting), NEW r, r.side \in Sides, NEW qty \in Nat
    PROVE  /\ Given(b, r, qty) \in [Crossing(b, r) -> Nat]
           /\ \A m \in Crossing(b, r) : Given(b, r, qty)[m] <= m.left
           /\ Depth(b, r) \in Nat
           /\ Done(b, r, qty) = Lesser(qty, Depth(b, r))
           /\ Makers(b, r, qty) \in SUBSET Crossing(b, r)
           /\ IsFiniteSet(Makers(b, r, qty))
           /\ qty >= Depth(b, r) => \A m \in Crossing(b, r) : Given(b, r, qty)[m] = m.left
           /\ \A m, n \in Crossing(b, r) :
                <<n, m>> \in Queue(b, r) /\ Given(b, r, qty)[m] > 0 => Given(b, r, qty)[n] = n.left
  <1> DEFINE C == Crossing(b, r)
             left == [m \in C |-> m.left]
             G == Given(b, r, qty)
  <1>1. C \in SUBSET b.resting /\ IsFiniteSet(C) /\ Lines(C, Queue(b, r))
    BY QueueLines
  <1>2. left \in [C -> Nat]
    BY <1>1 DEF QuotesOK, Quote
  <1>3. G = Taken(left, Queue(b, r), qty)
    BY DEF Given
  <1>4. \A m \in C : left[m] = m.left
    OBVIOUS
  <1>5. Depth(b, r) = SumOver(left, C)
    BY DEF Depth
  <1>6. Makers(b, r, qty) = {m \in C : G[m] > 0}
    BY DEF Makers
  <1>7. Done(b, r, qty) = SumOver(G, {m \in C : G[m] > 0})
    BY <1>6 DEF Done
  <1> HIDE DEF C, left, G
  <1>8. /\ G \in [C -> Nat]
        /\ \A x \in C : G[x] <= left[x]
        /\ SumOver(G, C) = Lesser(qty, SumOver(left, C))
        /\ \A x, y \in C : <<y, x>> \in Queue(b, r) /\ G[x] > 0 => G[y] = left[y]
    <2> DEFINE q == Queue(b, r)
    <2>1. Lines(C, q) /\ G = Taken(left, q, qty)
      BY <1>1, <1>3
    <2> HIDE DEF q
    <2>2. /\ Taken(left, q, qty) \in [C -> Nat]
          /\ \A x \in C : Taken(left, q, qty)[x] <= left[x]
          /\ SumOver(Taken(left, q, qty), C) = Lesser(qty, SumOver(left, C))
          /\ \A x, y \in C : <<y, x>> \in q /\ Taken(left, q, qty)[x] > 0
                               => Taken(left, q, qty)[y] = left[y]
      BY <1>1, <1>2, <2>1, TakenProps
    <2> QED BY <2>1, <2>2 DEF q
  <1>9. SumOver(left, C) \in Nat
    BY <1>1, <1>2, SumType
  <1>10. Done(b, r, qty) = Lesser(qty, SumOver(left, C))
    BY <1>1, <1>7, <1>8, SumPositive
  <1>11. Makers(b, r, qty) \in SUBSET C /\ IsFiniteSet(Makers(b, r, qty))
    <2>1. Makers(b, r, qty) \in SUBSET C
      BY <1>6
    <2> QED BY <1>1, <2>1, FS_Subset
  <1>12. ASSUME qty >= SumOver(left, C)
         PROVE  \A m \in C : G[m] = left[m]
    <2>1. SumOver(G, C) = SumOver(left, C)
      BY <1>8, <1>9, <1>12 DEF Lesser
    <2>2. \A x \in C : G[x] \in Nat /\ left[x] \in Nat /\ G[x] <= left[x]
      BY <1>2, <1>8
    <2> QED BY <1>1, <2>1, <2>2, SumTight
  <1>13. /\ \A m \in C : G[m] <= m.left
         /\ Depth(b, r) \in Nat /\ Done(b, r, qty) = Lesser(qty, Depth(b, r))
         /\ qty >= Depth(b, r) => \A m \in C : G[m] = m.left
    BY <1>4, <1>5, <1>8, <1>9, <1>10, <1>12
  <1>14. \A m, n \in C : <<n, m>> \in Queue(b, r) /\ G[m] > 0 => G[n] = n.left
    BY <1>4, <1>8
  <1> QED BY <1>8, <1>11, <1>13, <1>14 DEF C, G

\* What becomes of a quote: it is out of reach and stays as it is, or it gives
\* something and stays with the rest, or it gives all it has and is gone.
LEMMA KeptProps ==
    ASSUME NEW b, QuotesOK(b.resting), NEW r, r.side \in Sides, NEW qty \in Nat
    PROVE  /\ QuotesOK(Kept(b, r, qty))
           /\ \A k \in Kept(b, r, qty) : \E m \in b.resting :
                /\ k = [m EXCEPT !.left = k.left]
                /\ m \notin Makers(b, r, qty) => k = m
                /\ m \in Makers(b, r, qty) => k.left = m.left - Given(b, r, qty)[m]
           /\ \A m \in b.resting :
                /\ m \notin Makers(b, r, qty) => m \in Kept(b, r, qty)
                /\ m \in Makers(b, r, qty) /\ Given(b, r, qty)[m] < m.left
                     => \E k \in Kept(b, r, qty) :
                          k.order = m.order /\ k.left = m.left - Given(b, r, qty)[m]
                /\ m \in Makers(b, r, qty) /\ Given(b, r, qty)[m] = m.left
                     => \A k \in Kept(b, r, qty) : k.order # m.order
  <1> DEFINE M == Makers(b, r, qty)
             G == Given(b, r, qty)
             K == Kept(b, r, qty)
             P == {n \in M : G[n] < n.left}
             Shrunk == [m \in P |-> [m EXCEPT !.left = m.left - G[m]]]
  <1>1. M \in SUBSET b.resting /\ IsFiniteSet(M) /\ \A m \in M : G[m] \in Nat /\ G[m] <= m.left
    BY GivenProps, QueueLines
  <1>2. b.resting \in SUBSET Quote /\ IsFiniteSet(b.resting)
        /\ \A m, n \in b.resting : m.order = n.order \/ m.at = n.at => m = n
    BY DEF QuotesOK
  <1>3. K = {m \in b.resting : m \notin M} \cup {Shrunk[m] : m \in P}
    BY DEF Kept
  <1>4. ASSUME NEW m \in P
        PROVE  /\ Shrunk[m] \in Quote
               /\ Shrunk[m] = [m EXCEPT !.left = Shrunk[m].left]
               /\ Shrunk[m].order = m.order /\ Shrunk[m].at = m.at
               /\ Shrunk[m].left = m.left - G[m]
    <2>1. m \in Quote /\ G[m] \in Nat /\ G[m] < m.left
      BY <1>1, <1>2
    <2>2. m.left - G[m] \in Nat \ {0}
      BY <2>1 DEF Quote
    <2>3. Shrunk[m] = [m EXCEPT !.left = m.left - G[m]]
      OBVIOUS
    <2> HIDE DEF Shrunk
    <2> QED BY <2>1, <2>2, <2>3 DEF Quote
  <1> HIDE DEF Shrunk
  <1>5. \A k \in K : \E m \in b.resting :
           /\ k \in Quote /\ k = [m EXCEPT !.left = k.left]
           /\ k.order = m.order /\ k.at = m.at
           /\ \/ m \notin M /\ k = m
              \/ m \in P /\ k = Shrunk[m] /\ k.left = m.left - G[m]
    <2> SUFFICES ASSUME NEW k \in K
                 PROVE  \E m \in b.resting :
                          /\ k \in Quote /\ k = [m EXCEPT !.left = k.left]
                          /\ k.order = m.order /\ k.at = m.at
                          /\ \/ m \notin M /\ k = m
                             \/ m \in P /\ k = Shrunk[m] /\ k.left = m.left - G[m]
      OBVIOUS
    <2>1. CASE k \in {m \in b.resting : m \notin M}
      <3>1. k \in b.resting /\ k \notin M /\ k \in Quote
        BY <1>2, <2>1
      <3>2. k = [k EXCEPT !.left = k.left]
        BY <3>1 DEF Quote
      <3> QED BY <3>1, <3>2
    <2>2. CASE \E m \in P : k = Shrunk[m]
      <3>1. PICK m \in P : k = Shrunk[m]
        BY <2>2
      <3>2. m \in b.resting
        BY <1>1
      <3> QED BY <1>4, <3>1, <3>2
    <2> QED BY <1>3, <2>1, <2>2
  <1>6. QuotesOK(K)
    <2>1. K \in SUBSET Quote
      BY <1>5
    <2>2. IsFiniteSet(K)
      <3>1. IsFiniteSet({m \in b.resting : m \notin M})
        <4>1. {m \in b.resting : m \notin M} \in SUBSET b.resting
          OBVIOUS
        <4> QED BY <1>2, <4>1, FS_Subset
      <3>2. IsFiniteSet({Shrunk[m] : m \in P})
        <4>1. P \in SUBSET M
          OBVIOUS
        <4>2. IsFiniteSet(P)
          BY <1>1, <4>1, FS_Subset
        <4> QED BY <4>2, FiniteImage
      <3> QED BY <1>3, <3>1, <3>2, FS_Union
    <2>3. ASSUME NEW j \in K, NEW k \in K, j.order = k.order \/ j.at = k.at
          PROVE  j = k
      <3>1. PICK m \in b.resting : /\ j.order = m.order /\ j.at = m.at
                                   /\ (m \notin M /\ j = m) \/ (m \in P /\ j = Shrunk[m])
        BY <1>5
      <3>2. PICK n \in b.resting : /\ k.order = n.order /\ k.at = n.at
                                   /\ (n \notin M /\ k = n) \/ (n \in P /\ k = Shrunk[n])
        BY <1>5
      <3>3. m = n
        BY <1>2, <2>3, <3>1, <3>2
      <3>4. P \in SUBSET M
        OBVIOUS
      <3>5. CASE m \in M
        <4>1. j = Shrunk[m] /\ k = Shrunk[n]
          <5> HIDE DEF P
          <5> QED BY <3>1, <3>2, <3>3, <3>5
        <4> QED BY <3>3, <4>1
      <3>6. CASE m \notin M
        <4>1. j = m /\ k = n
          <5> HIDE DEF P
          <5> QED BY <3>1, <3>2, <3>3, <3>4, <3>6
        <4> QED BY <3>3, <4>1
      <3> QED BY <3>5, <3>6
    <2> QED BY <2>1, <2>2, <2>3 DEF QuotesOK
  <1>7. ASSUME NEW k \in K
        PROVE  \E m \in b.resting :
                 /\ k = [m EXCEPT !.left = k.left]
                 /\ m \notin M => k = m
                 /\ m \in M => k.left = m.left - G[m]
    <2>1. P \in SUBSET M
      OBVIOUS
    <2> HIDE DEF P
    <2> QED BY <1>5, <2>1
  <1>8. ASSUME NEW m \in b.resting
        PROVE  /\ m \notin M => m \in K
               /\ m \in M /\ G[m] < m.left
                    => \E k \in K : k.order = m.order /\ k.left = m.left - G[m]
               /\ m \in M /\ G[m] = m.left => \A k \in K : k.order # m.order
    <2>1. m \notin M => m \in K
      BY <1>3
    <2>2. ASSUME m \in M, G[m] < m.left
          PROVE  \E k \in K : k.order = m.order /\ k.left = m.left - G[m]
      <3>1. m \in P
        BY <2>2
      <3>2. Shrunk[m] \in K
        BY <1>3, <3>1
      <3> QED BY <1>4, <3>1, <3>2
    <2>3. ASSUME m \in M, G[m] = m.left, NEW k \in K, k.order = m.order
          PROVE  FALSE
      <3>1. PICK n \in b.resting : k.order = n.order /\ (n \notin M \/ n \in P)
        BY <1>5
      <3>2. n = m
        BY <1>2, <2>3, <3>1
      <3>3. G[m] < m.left
        BY <2>3, <3>1, <3>2
      <3>4. m.left \in Int
        BY <1>2 DEF Quote
      <3> QED BY <2>3, <3>3, <3>4
    <2> QED BY <2>1, <2>2, <2>3
  <1> QED BY <1>6, <1>7, <1>8

\* Each maker gives once, and the executions are numbered one after another.
FillsOK(b, o, r, qty) ==
    /\ IsFiniteSet(Fills(b, o, r, qty))
    /\ Cardinality(Makers(b, r, qty)) \in Nat
    /\ \A f \in Fills(b, o, r, qty) :
         /\ f.seq \in b.seq + 1 .. b.seq + Cardinality(Makers(b, r, qty))
         /\ f.taker = o
         /\ \E m \in Makers(b, r, qty) :
              f.maker = m.order /\ f.qty = Given(b, r, qty)[m] /\ f.price = m.price
    /\ \A f, g \in Fills(b, o, r, qty) : f.seq = g.seq \/ f.maker = g.maker => f = g
    /\ \A m \in Makers(b, r, qty) : \E f \in Fills(b, o, r, qty) :
         f.maker = m.order /\ f.qty = Given(b, r, qty)[m]
    /\ Total(Fills(b, o, r, qty)) = Done(b, r, qty)

\* So it is for every taker that a book matches.
LEMMA FillsProps ==
    ASSUME NEW b, QuotesOK(b.resting), b.seq \in Nat, NEW o, NEW r, r.side \in Sides, NEW qty \in Nat
    PROVE  FillsOK(b, o, r, qty)
  <1> DEFINE M == Makers(b, r, qty)
             G == Given(b, r, qty)
             F == Fills(b, o, r, qty)
             t == Turn(M, Queue(b, r))
             e == [m \in M |-> [seq |-> b.seq + 1 + t[m], taker |-> o, maker |-> m.order,
                                qty |-> G[m], price |-> m.price]]
             amount == [f \in F |-> f.qty]
  <1>1. M \in SUBSET b.resting /\ IsFiniteSet(M) /\ \A m \in M : G[m] \in Nat
    BY GivenProps, QueueLines
  <1>2. Lines(M, Queue(b, r))
    <2>1. M \in SUBSET Crossing(b, r)
      BY GivenProps
    <2>2. Lines(Crossing(b, r), Queue(b, r))
      BY QueueLines
    <2> QED BY <2>1, <2>2, LinesPart
  <1>3. Cardinality(M) \in Nat
    BY <1>1, FS_CardinalityType
  <1>4. t \in [M -> 0 .. Cardinality(M) - 1] /\ \A x, y \in M : t[x] = t[y] => x = y
    BY <1>1, <1>2, TurnProps
  <1>5. F = {e[m] : m \in M}
    BY DEF Fills
  <1>6. Done(b, r, qty) = SumOver(G, M)
    BY DEF Done
  <1> HIDE DEF M, G, t
  <1>7. ASSUME NEW m \in M
        PROVE  /\ e[m].seq = b.seq + 1 + t[m]
               /\ e[m].seq \in b.seq + 1 .. b.seq + Cardinality(M)
               /\ e[m].taker = o /\ e[m].maker = m.order /\ e[m].qty = G[m] /\ e[m].price = m.price
    <2>1. e[m].seq = b.seq + 1 + t[m] /\ e[m].taker = o /\ e[m].maker = m.order
          /\ e[m].qty = G[m] /\ e[m].price = m.price
      OBVIOUS
    <2>2. t[m] \in 0 .. Cardinality(M) - 1
      BY <1>4
    <2>3. b.seq + 1 + t[m] \in b.seq + 1 .. b.seq + Cardinality(M)
      BY <1>3, <2>2
    <2> HIDE DEF e
    <2> QED BY <2>1, <2>3
  <1> HIDE DEF e
  <1>8. \A x, y \in M : e[x].seq = e[y].seq \/ e[x].maker = e[y].maker => x = y
    <2> SUFFICES ASSUME NEW x \in M, NEW y \in M, e[x].seq = e[y].seq \/ e[x].maker = e[y].maker
                 PROVE  x = y
      OBVIOUS
    <2>1. CASE e[x].seq = e[y].seq
      <3>1. b.seq + 1 + t[x] = b.seq + 1 + t[y]
        BY <1>7, <2>1
      <3>2. t[x] \in Int /\ t[y] \in Int
        BY <1>4
      <3>3. t[x] = t[y]
        BY <3>1, <3>2
      <3> QED BY <1>4, <3>3
    <2>2. CASE e[x].maker = e[y].maker
      <3>1. x.order = y.order
        BY <1>7, <2>2
      <3> QED BY <1>1, <3>1 DEF QuotesOK
    <2> QED BY <2>1, <2>2
  <1>9. /\ IsFiniteSet({e[m] : m \in M})
        /\ SumOver(amount, {e[m] : m \in M}) = SumOver(G, M)
    <2>1. \A x \in M : amount[e[x]] = G[x] /\ G[x] \in Int
      <3>1. \A x \in M : e[x] \in F
        BY <1>5
      <3> QED BY <1>1, <1>7, <3>1
    <2>2. \A x, y \in M : e[x] = e[y] => x = y
      BY <1>8
    <2> HIDE DEF amount
    <2> QED BY <1>1, <2>1, <2>2, SumRenamed
  <1>10. \A f \in F : \E m \in M : f = e[m]
    BY <1>5
  <1>11. \A f, g \in F : f.seq = g.seq \/ f.maker = g.maker => f = g
    BY <1>8, <1>10
  <1>12. \A m \in M : e[m] \in F
    BY <1>5
  <1> HIDE DEF F
  <1>13. \A f \in F : /\ f.seq \in b.seq + 1 .. b.seq + Cardinality(M)
                      /\ f.taker = o
                      /\ \E m \in M : f.maker = m.order /\ f.qty = G[m] /\ f.price = m.price
    BY <1>7, <1>10
  <1>14. \A m \in M : \E f \in F : f.maker = m.order /\ f.qty = G[m]
    BY <1>7, <1>12
  <1>15. Total(F) = Done(b, r, qty)
    <2>1. Total(F) = SumOver(amount, F)
      BY DEF Total
    <2> HIDE DEF amount
    <2> QED BY <1>5, <1>6, <1>9, <2>1
  <1>16. IsFiniteSet(F)
    BY <1>5, <1>9
  <1> QED BY <1>3, <1>11, <1>13, <1>14, <1>15, <1>16 DEF M, G, F, FillsOK

-----------------------------------------------------------------------------
(* Routing. *)

AllQuotesOK(bs) == \A v \in Venues : QuotesOK(bs[v].resting)

\* The quotes of one venue among the offers.
OffersAt(bs, r, v) == {x \in Offers(bs, r) : x.venue = v}

\* The offers of a venue are its crossing quotes.
LEMMA OffersByVenue ==
    ASSUME NEW bs, NEW r
    PROVE  /\ \A v \in Venues : \A m \in Crossing(bs[v], r) : [maker |-> m, venue |-> v] \in Offers(bs, r)
           /\ \A x \in Offers(bs, r) :
                x.venue \in Venues /\ x.maker \in Crossing(bs[x.venue], r)
                /\ x = [maker |-> x.maker, venue |-> x.venue]
           /\ \A v \in Venues :
                OffersAt(bs, r, v) = {[n \in Crossing(bs[v], r) |-> [maker |-> n, venue |-> v]][m] :
                                        m \in Crossing(bs[v], r)}
  <1>1. \A v \in Venues : \A m \in Crossing(bs[v], r) : [maker |-> m, venue |-> v] \in Offers(bs, r)
    BY DEF Offers
  <1>2. \A x \in Offers(bs, r) : \E v \in Venues : \E m \in Crossing(bs[v], r) : x = [maker |-> m, venue |-> v]
    BY DEF Offers
  <1>3. \A x \in Offers(bs, r) : /\ x.venue \in Venues /\ x.maker \in Crossing(bs[x.venue], r)
                                 /\ x = [maker |-> x.maker, venue |-> x.venue]
    <2> SUFFICES ASSUME NEW x \in Offers(bs, r)
                 PROVE  /\ x.venue \in Venues /\ x.maker \in Crossing(bs[x.venue], r)
                        /\ x = [maker |-> x.maker, venue |-> x.venue]
      OBVIOUS
    <2>1. PICK v \in Venues : \E m \in Crossing(bs[v], r) : x = [maker |-> m, venue |-> v]
      BY <1>2
    <2>2. PICK m \in Crossing(bs[v], r) : x = [maker |-> m, venue |-> v]
      BY <2>1
    <2>3. x.venue = v /\ x.maker = m
      BY <2>2
    <2> QED BY <2>2, <2>3
  <1>4. ASSUME NEW v \in Venues
        PROVE  OffersAt(bs, r, v) = {[n \in Crossing(bs[v], r) |-> [maker |-> n, venue |-> v]][m] :
                                        m \in Crossing(bs[v], r)}
    <2> DEFINE e == [m \in Crossing(bs[v], r) |-> [maker |-> m, venue |-> v]]
    <2>1. \A m \in Crossing(bs[v], r) : e[m] \in OffersAt(bs, r, v)
      BY <1>1 DEF OffersAt
    <2>2. ASSUME NEW x \in OffersAt(bs, r, v)
          PROVE  \E m \in Crossing(bs[v], r) : x = e[m]
      <3>1. x.maker \in Crossing(bs[v], r) /\ x = [maker |-> x.maker, venue |-> v]
        BY <1>3 DEF OffersAt
      <3>2. x = e[x.maker]
        BY <3>1
      <3> QED BY <3>1, <3>2
    <2> HIDE DEF e
    <2>3. OffersAt(bs, r, v) = {e[m] : m \in Crossing(bs[v], r)}
      BY <2>1, <2>2
    <2> QED BY <2>3 DEF e
  <1> QED BY <1>1, <1>3, <1>4

\* What the offers of a venue have left is the depth of its book.
LEMMA DepthAtVenue ==
    ASSUME NEW bs, AllQuotesOK(bs), NEW r, r.side \in Sides, NEW v \in Venues
    PROVE  /\ IsFiniteSet(OffersAt(bs, r, v))
           /\ SumOver([x \in Offers(bs, r) |-> x.maker.left], OffersAt(bs, r, v)) = Depth(bs[v], r)
           /\ Depth(bs[v], r) \in Nat
  <1> DEFINE C == Crossing(bs[v], r)
             e == [m \in C |-> [maker |-> m, venue |-> v]]
             left == [x \in Offers(bs, r) |-> x.maker.left]
             own == [m \in C |-> m.left]
  <1>1. QuotesOK(bs[v].resting)
    BY DEF AllQuotesOK
  <1>2. IsFiniteSet(C) /\ C \in SUBSET bs[v].resting
    BY <1>1, QueueLines
  <1>3. OffersAt(bs, r, v) = {e[m] : m \in C}
    BY OffersByVenue
  <1>4. \A m \in C : e[m] \in Offers(bs, r) /\ e[m].maker = m
    BY OffersByVenue
  <1>5. \A m \in C : left[e[m]] = own[m] /\ own[m] \in Int /\ own[m] \in Nat
    BY <1>1, <1>2, <1>4 DEF QuotesOK, Quote
  <1>6. \A x, y \in C : e[x] = e[y] => x = y
    BY <1>4
  <1>7. Depth(bs[v], r) = SumOver(own, C)
    BY DEF Depth
  <1> HIDE DEF C, e, left, own
  <1>8. /\ IsFiniteSet({e[m] : m \in C})
        /\ SumOver(left, {e[m] : m \in C}) = SumOver(own, C)
    <2>1. \A x \in C : left[e[x]] = own[x] /\ own[x] \in Int
      BY <1>5
    <2> QED BY <1>2, <1>6, <2>1, SumRenamed
  <1>9. SumOver(own, C) \in Nat
    BY <1>2, <1>5, SumType
  <1> QED BY <1>3, <1>7, <1>8, <1>9 DEF left

\* The offers of all venues stand in a line.
LEMMA OffersLine ==
    ASSUME NEW bs, AllQuotesOK(bs), NEW r, r.side \in Sides
    PROVE  /\ IsFiniteSet(Offers(bs, r))
           /\ Lines(Offers(bs, r), Preference(bs, r))
  <1> DEFINE O == Offers(bs, r)
             U(W) == {x \in O : x.venue \in W}
             F == {W \in SUBSET Venues : IsFiniteSet(U(W))}
  <1>1. {} \in F
    <2>1. U({}) = {}
      OBVIOUS
    <2> QED BY <2>1, FS_EmptySet
  <1>2. ASSUME NEW W \in SUBSET Venues, W \in F, NEW v \in Venues \ W
        PROVE  W \cup {v} \in F
    <2>1. U(W \cup {v}) = U(W) \cup OffersAt(bs, r, v)
      BY DEF OffersAt
    <2>2. IsFiniteSet(U(W)) /\ IsFiniteSet(OffersAt(bs, r, v))
      BY <1>2, DepthAtVenue
    <2>3. IsFiniteSet(U(W) \cup OffersAt(bs, r, v))
      <3> HIDE DEF U
      <3> QED BY <2>2, FS_Union
    <2> QED BY <2>1, <2>3
  <1>3. Venues \in F
    <2>1. \A W \in SUBSET Venues : W \in F => \A v \in Venues \ W : W \cup {v} \in F
      BY <1>2
    <2>2. IsFiniteSet(Venues)
      BY ShardAssumption
    <2> HIDE DEF F
    <2> QED BY <1>1, <2>1, <2>2, SetInduct
  <1>4. U(Venues) = O
    BY OffersByVenue
  <1>5. IsFiniteSet(O)
    BY <1>3, <1>4
  <1>6. \A x, y \in O : <<x, y>> \in Preference(bs, r) <=> Cheaper(r, x, y)
    BY DEF Preference
  <1>7. \A x \in O : /\ x.venue \in Venues /\ x = [maker |-> x.maker, venue |-> x.venue]
                     /\ x.maker \in bs[x.venue].resting
                     /\ x.maker.price \in Int /\ x.maker.at \in Int
                     /\ Rank[x.venue] \in Int
    <2> SUFFICES ASSUME NEW x \in O
                 PROVE  /\ x.venue \in Venues /\ x = [maker |-> x.maker, venue |-> x.venue]
                        /\ x.maker \in bs[x.venue].resting
                        /\ x.maker.price \in Int /\ x.maker.at \in Int
                        /\ Rank[x.venue] \in Int
      OBVIOUS
    <2>1. /\ x.venue \in Venues /\ x.maker \in Crossing(bs[x.venue], r)
          /\ x = [maker |-> x.maker, venue |-> x.venue]
      BY OffersByVenue
    <2>2. QuotesOK(bs[x.venue].resting)
      BY <2>1 DEF AllQuotesOK
    <2>3. x.maker \in bs[x.venue].resting
      BY <2>1 DEF Crossing
    <2>4. x.maker.price \in Int /\ x.maker.at \in Int
      BY <2>2, <2>3 DEF QuotesOK, Quote
    <2>5. Rank[x.venue] \in Int
      BY <2>1, ShardAssumption
    <2> QED BY <2>1, <2>3, <2>4, <2>5
  <1>8. \A x, y \in O : x.venue = y.venue /\ x.maker.at = y.maker.at => x = y
    <2> SUFFICES ASSUME NEW x \in O, NEW y \in O, x.venue = y.venue, x.maker.at = y.maker.at
                 PROVE  x = y
      OBVIOUS
    <2>1. QuotesOK(bs[x.venue].resting) /\ x.maker \in bs[x.venue].resting /\ y.maker \in bs[x.venue].resting
      BY <1>7 DEF AllQuotesOK
    <2>2. x.maker = y.maker
      BY <2>1 DEF QuotesOK
    <2> QED BY <1>7, <2>2
  <1>9. \A x, y \in O : Rank[x.venue] = Rank[y.venue] => x.venue = y.venue
    BY <1>7, ShardAssumption
  <1> HIDE DEF O
  <1>10. /\ \A x \in O : ~Cheaper(r, x, x)
         /\ \A x, y \in O : x # y => Cheaper(r, x, y) \/ Cheaper(r, y, x)
    BY <1>7, <1>8, <1>9 DEF Cheaper, Better
  <1>11. \A x, y, z \in O : Cheaper(r, x, y) /\ Cheaper(r, y, z) => Cheaper(r, x, z)
    BY <1>7 DEF Cheaper, Better
  <1> QED BY <1>5, <1>6, <1>10, <1>11 DEF Lines, O

AllPlanned(bs, r) == SumOver([v \in Venues |-> Planned(bs, r, v)], Venues)
AllDepth(bs, r) == SumOver([v \in Venues |-> Depth(bs[v], r)], Venues)

\* What is asked of the venues is the order's quantity, or all there is, and of
\* none more than it has.
LEMMA PlanProps ==
    ASSUME NEW bs, AllQuotesOK(bs), NEW r, r.side \in Sides, r.qty \in Nat
    PROVE  /\ Route(bs, r) \in [Offers(bs, r) -> Nat]
           /\ \A v \in Venues : /\ Planned(bs, r, v) \in Nat
                                /\ Planned(bs, r, v) <= Depth(bs[v], r)
           /\ AllDepth(bs, r) \in Nat
           /\ AllPlanned(bs, r) = Lesser(r.qty, AllDepth(bs, r))
           /\ AllPlanned(bs, r) # r.qty => \A v \in Venues : Planned(bs, r, v) = Depth(bs[v], r)
           /\ \A v \in Visited(bs, r) : \E x \in OffersAt(bs, r, v) : Route(bs, r)[x] > 0
           /\ \A x, y \in Offers(bs, r) :
                <<y, x>> \in Preference(bs, r) /\ Route(bs, r)[x] > 0 => Route(bs, r)[y] = y.maker.left
  <1> DEFINE O == Offers(bs, r)
             q == Preference(bs, r)
             left == [x \in O |-> x.maker.left]
             R == Route(bs, r)
             part == [x \in O |-> x.venue]
             planned == [v \in Venues |-> Planned(bs, r, v)]
             depth == [v \in Venues |-> Depth(bs[v], r)]
  <1>1. IsFiniteSet(O) /\ Lines(O, q)
    BY OffersLine
  <1>2. left \in [O -> Nat]
    <2> SUFFICES ASSUME NEW x \in O PROVE x.maker.left \in Nat
      OBVIOUS
    <2>1. x.venue \in Venues /\ x.maker \in bs[x.venue].resting
      BY OffersByVenue DEF Crossing
    <2> QED BY <2>1 DEF AllQuotesOK, QuotesOK, Quote
  <1>3. R = Taken(left, q, r.qty)
    BY DEF Route
  <1>4. \A x \in O : left[x] = x.maker.left
    OBVIOUS
  <1>5. \A v \in Venues : SumOver(left, {x \in O : part[x] = v}) = depth[v] /\ depth[v] \in Nat
    <2> SUFFICES ASSUME NEW v \in Venues
                 PROVE  SumOver(left, {x \in O : part[x] = v}) = depth[v] /\ depth[v] \in Nat
      OBVIOUS
    <2>1. {x \in O : part[x] = v} = OffersAt(bs, r, v)
      BY DEF OffersAt
    <2> QED BY <2>1, DepthAtVenue
  <1>6. \A v \in Venues : planned[v] = SumOver(R, {x \in O : part[x] = v})
    <2> SUFFICES ASSUME NEW v \in Venues
                 PROVE  planned[v] = SumOver(R, {x \in O : part[x] = v})
      OBVIOUS
    <2>1. {x \in O : part[x] = v} = {x \in O : x.venue = v}
      OBVIOUS
    <2>2. planned[v] = SumOver(R, {x \in O : x.venue = v})
      BY DEF Planned
    <2> QED BY <2>1, <2>2
  <1>7. \A x \in O : part[x] \in Venues /\ part[x] = x.venue
    BY OffersByVenue
  <1>8. AllPlanned(bs, r) = SumOver(planned, Venues) /\ AllDepth(bs, r) = SumOver(depth, Venues)
    BY DEF AllPlanned, AllDepth
  <1>9. /\ \A v \in Venues : planned[v] = Planned(bs, r, v) /\ depth[v] = Depth(bs[v], r)
        /\ planned = [v \in Venues |-> planned[v]] /\ depth = [v \in Venues |-> depth[v]]
    OBVIOUS
  <1>10. IsFiniteSet(Venues)
    BY ShardAssumption
  <1> HIDE DEF O, q, left, R, part, planned, depth
  <1>11. /\ R \in [O -> Nat]
         /\ \A x \in O : R[x] <= left[x]
         /\ SumOver(R, O) = Lesser(r.qty, SumOver(left, O))
         /\ \A x, y \in O : <<y, x>> \in q /\ R[x] > 0 => R[y] = left[y]
    BY <1>1, <1>2, <1>3, TakenProps
  <1>12. \A v \in Venues : planned[v] \in Nat /\ planned[v] <= depth[v]
    <2> SUFFICES ASSUME NEW v \in Venues PROVE planned[v] \in Nat /\ planned[v] <= depth[v]
      OBVIOUS
    <2> DEFINE P == {x \in O : part[x] = v}
    <2>1. P \in SUBSET O /\ IsFiniteSet(P)
      BY <1>1, FS_Subset
    <2>2. \A x \in P : R[x] \in Nat /\ left[x] \in Nat /\ R[x] <= left[x]
      BY <1>2, <1>11
    <2>3. planned[v] = SumOver(R, P) /\ depth[v] = SumOver(left, P)
      BY <1>5, <1>6
    <2> HIDE DEF P
    <2>4. SumOver(R, P) \in Nat /\ SumOver(R, P) <= SumOver(left, P)
      BY <2>1, <2>2, SumType, SumTight
    <2> QED BY <2>3, <2>4
  <1>13. SumOver(planned, Venues) = SumOver(R, O)
    <2> DEFINE g == [v \in Venues |-> SumOver(R, {x \in O : part[x] = v})]
    <2>1. SumOver(g, Venues) = SumOver(R, O)
      <3>1. \A x \in O : R[x] \in Int
        BY <1>11
      <3> QED BY <1>1, <1>7, <1>10, <3>1, SumByPart
    <2>2. g = planned
      BY <1>6, <1>9
    <2> QED BY <2>1, <2>2
  <1>14. SumOver(depth, Venues) = SumOver(left, O)
    <2> DEFINE g == [v \in Venues |-> SumOver(left, {x \in O : part[x] = v})]
    <2>1. SumOver(g, Venues) = SumOver(left, O)
      <3>1. \A x \in O : left[x] \in Int
        BY <1>2
      <3> QED BY <1>1, <1>7, <1>10, <3>1, SumByPart
    <2>2. g = depth
      BY <1>5, <1>9
    <2> QED BY <2>1, <2>2
  <1>15. SumOver(left, O) \in Nat
    BY <1>1, <1>2, SumType
  <1>16. ASSUME SumOver(planned, Venues) # r.qty
         PROVE  \A v \in Venues : planned[v] = depth[v]
    <2>1. SumOver(planned, Venues) = SumOver(depth, Venues)
      BY <1>11, <1>13, <1>14, <1>15, <1>16 DEF Lesser
    <2>2. \A v \in Venues : planned[v] \in Nat /\ depth[v] \in Nat /\ planned[v] <= depth[v]
      BY <1>5, <1>12
    <2> QED BY <1>10, <2>1, <2>2, SumTight
  <1>17. ASSUME NEW v \in Visited(bs, r)
         PROVE  \E x \in OffersAt(bs, r, v) : R[x] > 0
    <2>1. v \in Venues /\ planned[v] > 0
      BY <1>9 DEF Visited
    <2>2. SUFFICES ASSUME \A x \in OffersAt(bs, r, v) : ~(R[x] > 0)
                   PROVE  FALSE
      OBVIOUS
    <2> DEFINE P == {x \in O : part[x] = v}
               none == [x \in P |-> 0]
    <2>3. P = OffersAt(bs, r, v)
      BY <1>7 DEF OffersAt, O
    <2>4. \A x \in P : R[x] \in Nat
      BY <1>11
    <2>5. {x \in P : R[x] > 0} = {}
      BY <2>2, <2>3
    <2>6. IsFiniteSet(P)
      BY <1>1, FS_Subset
    <2>7. planned[v] = SumOver(R, P)
      BY <1>6, <2>1
    <2> HIDE DEF P
    <2>8. SumOver(R, P) = SumOver(R, {x \in P : R[x] > 0})
      BY <2>4, <2>6, SumPositive
    <2>9. SumOver(R, P) = 0
      BY <2>5, <2>8, SumEmpty
    <2> QED BY <2>1, <2>7, <2>9
  <1>18. /\ \A v \in Venues : Planned(bs, r, v) \in Nat /\ Planned(bs, r, v) <= Depth(bs[v], r)
         /\ AllDepth(bs, r) \in Nat
         /\ AllPlanned(bs, r) = Lesser(r.qty, AllDepth(bs, r))
         /\ AllPlanned(bs, r) # r.qty => \A v \in Venues : Planned(bs, r, v) = Depth(bs[v], r)
    BY <1>8, <1>9, <1>11, <1>12, <1>13, <1>14, <1>15, <1>16
  <1>19. \A x, y \in O : <<y, x>> \in q /\ R[x] > 0 => R[y] = y.maker.left
    BY <1>4, <1>11
  <1> QED BY <1>11, <1>17, <1>18, <1>19 DEF O, q, R

-----------------------------------------------------------------------------
(* What an order does to the books. *)

\* Nothing of what an order meets is in the part of a book no snapshot has.
LEMMA SavedSame ==
    ASSUME NEW b, NEW o, NEW r, NEW qty
    PROVE  /\ Crossing(Saved(b), r) = Crossing(b, r)
           /\ Queue(Saved(b), r) = Queue(b, r)
           /\ Given(Saved(b), r, qty) = Given(b, r, qty)
           /\ Makers(Saved(b), r, qty) = Makers(b, r, qty)
           /\ Done(Saved(b), r, qty) = Done(b, r, qty)
           /\ Kept(Saved(b), r, qty) = Kept(b, r, qty)
           /\ Fills(Saved(b), o, r, qty) = Fills(b, o, r, qty)
           /\ Depth(Saved(b), r) = Depth(b, r)
  <1>1. Crossing(Saved(b), r) = Crossing(b, r)
    BY DEF Crossing, Saved
  <1>2. Queue(Saved(b), r) = Queue(b, r)
    BY <1>1 DEF Queue
  <1>3. Given(Saved(b), r, qty) = Given(b, r, qty)
    BY <1>1, <1>2 DEF Given
  <1>4. Makers(Saved(b), r, qty) = Makers(b, r, qty)
    BY <1>1, <1>3 DEF Makers
  <1>5. Saved(b).resting = b.resting /\ Saved(b).seq = b.seq
    BY DEF Saved
  <1>6. Done(Saved(b), r, qty) = Done(b, r, qty)
    BY <1>3, <1>4 DEF Done
  <1>7. Kept(Saved(b), r, qty) = Kept(b, r, qty)
    BY <1>3, <1>4, <1>5 DEF Kept
  <1>8. Fills(Saved(b), o, r, qty) = Fills(b, o, r, qty)
    BY <1>2, <1>3, <1>4, <1>5 DEF Fills
  <1>9. Depth(Saved(b), r) = Depth(b, r)
    BY <1>1 DEF Depth
  <1> QED BY <1>1, <1>2, <1>3, <1>4, <1>6, <1>7, <1>8, <1>9

\* The executions of an order.
FillsAt(bs, o, v) == Fills(bs[v], o, req[o], Planned(bs, req[o], v))
DoneBy(bs, o) == UNION {{Execution(v, f) : f \in FillsAt(bs, o, v)} : v \in Visited(bs, req[o])}

\* Routing and executing look only at the part of the books that a snapshot has.
LEMMA CoreSame ==
    ASSUME NEW bs, NEW o, NEW r
    PROVE  /\ \A v \in Venues : Core(bs)[v] = Saved(bs[v])
           /\ Offers(Core(bs), r) = Offers(bs, r)
           /\ \A v \in Venues : Planned(Core(bs), r, v) = Planned(bs, r, v)
           /\ Visited(Core(bs), r) = Visited(bs, r)
           /\ Reached(Core(bs), r) = Reached(bs, r)
           /\ DoneBy(Core(bs), o) = DoneBy(bs, o)
  <1>1. \A v \in Venues : Core(bs)[v] = Saved(bs[v])
    BY DEF Core
  <1>2. ASSUME NEW t
        PROVE  Offers(Core(bs), t) = Offers(bs, t)
    <2>1. \A v \in Venues : Crossing(Core(bs)[v], t) = Crossing(bs[v], t)
      BY <1>1, SavedSame
    <2> QED BY <2>1 DEF Offers
  <1>3. ASSUME NEW t
        PROVE  Preference(Core(bs), t) = Preference(bs, t) /\ Route(Core(bs), t) = Route(bs, t)
    BY <1>2 DEF Preference, Route
  <1>4. ASSUME NEW t, NEW v \in Venues
        PROVE  Planned(Core(bs), t, v) = Planned(bs, t, v)
    BY <1>2, <1>3 DEF Planned
  <1>5. ASSUME NEW t
        PROVE  Visited(Core(bs), t) = Visited(bs, t)
    BY <1>4 DEF Visited
  <1>6. Reached(Core(bs), r) = Reached(bs, r)
    BY <1>2, <1>3 DEF Reached
  <1>7. DoneBy(Core(bs), o) = DoneBy(bs, o)
    <2>1. Visited(bs, req[o]) \in SUBSET Venues
      BY DEF Visited
    <2>2. \A v \in Venues : FillsAt(Core(bs), o, v) = FillsAt(bs, o, v)
      BY <1>1, <1>4, SavedSame DEF FillsAt
    <2> QED BY <1>5, <2>1, <2>2 DEF DoneBy
  <1> QED BY <1>1, <1>2, <1>4, <1>5, <1>6, <1>7

ReqOK == req \in [Orders -> Requests]

\* What the terms of an order are.
LEMMA TermsOK ==
    ASSUME ReqOK, NEW o \in Orders
    PROVE  /\ req[o] \in Requests /\ req[o].side \in Sides
           /\ req[o].qty \in Nat \ {0} /\ req[o].price \in Nat \ {0} /\ req[o].venue \in Venues
  <1>1. req[o] \in Requests
    BY DEF ReqOK
  <1>2. req[o] \in [side : {"BUY", "SELL"}, type : {"LIMIT", "MARKET"}, tif : {"GTC", "IOC"},
                    qty : Nat \ {0}, price : Nat \ {0}, venue : Venues]
    BY <1>1, ShardAssumption
  <1> QED BY <1>1, <1>2 DEF Sides

\* What the slices execute: numbered venue by venue, one per maker, no more in
\* all than the order's quantity; and if that is not reached, nobody on the
\* other side whose price the order accepts has anything left.
DoneOK(bs, o) ==
    /\ IsFiniteSet(DoneBy(bs, o))
    /\ \A x \in DoneBy(bs, o) :
         /\ x.venue \in Visited(bs, req[o]) /\ x.taker = o
         /\ x.seq \in bs[x.venue].seq + 1
                      .. bs[x.venue].seq + Cardinality(Makers(bs[x.venue], req[o], Planned(bs, req[o], x.venue)))
         /\ \E m \in Makers(bs[x.venue], req[o], Planned(bs, req[o], x.venue)) :
              /\ x.maker = m.order /\ x.price = m.price
              /\ x.qty = Given(bs[x.venue], req[o], Planned(bs, req[o], x.venue))[m]
    /\ \A x, y \in DoneBy(bs, o) :
         x.venue = y.venue /\ (x.seq = y.seq \/ x.maker = y.maker) => x = y
    /\ \A v \in Visited(bs, req[o]) : \A m \in Makers(bs[v], req[o], Planned(bs, req[o], v)) :
         \E x \in DoneBy(bs, o) : /\ x.venue = v /\ x.maker = m.order
                                  /\ x.qty = Given(bs[v], req[o], Planned(bs, req[o], v))[m]
    /\ Total(DoneBy(bs, o)) = AllPlanned(bs, req[o])
    /\ Remainder(o, DoneBy(bs, o)) \in Nat
    /\ Remainder(o, DoneBy(bs, o)) > 0 =>
         \A v \in Venues : \A m \in Crossing(bs[v], req[o]) :
           /\ v \in Visited(bs, req[o])
           /\ Given(bs[v], req[o], Planned(bs, req[o], v))[m] = m.left

\* So it is for every order and all books.
LEMMA DoneProps ==
    ASSUME ReqOK, NEW o \in Orders, NEW bs, AllQuotesOK(bs), \A v \in Venues : bs[v].seq \in Nat
    PROVE  DoneOK(bs, o)
  <1> DEFINE r == req[o]
             V == Visited(bs, r)
             D == DoneBy(bs, o)
             q(v) == Planned(bs, r, v)
             M(v) == Makers(bs[v], r, q(v))
             G(v) == Given(bs[v], r, q(v))
             F(v) == FillsAt(bs, o, v)
             part == [x \in D |-> x.venue]
             amount == [x \in D |-> x.qty]
             P(v) == {x \in D : part[x] = v}
  <1>1. r.side \in Sides /\ r.qty \in Nat
    BY TermsOK
  <1>2. /\ \A v \in Venues : q(v) \in Nat /\ q(v) <= Depth(bs[v], r)
        /\ AllDepth(bs, r) \in Nat
        /\ AllPlanned(bs, r) = Lesser(r.qty, AllDepth(bs, r))
        /\ AllPlanned(bs, r) # r.qty => \A v \in Venues : q(v) = Depth(bs[v], r)
    BY <1>1, PlanProps
  <1>3. \A v \in Venues : QuotesOK(bs[v].resting) /\ bs[v].seq \in Nat /\ Depth(bs[v], r) \in Nat
    BY <1>1, DepthAtVenue DEF AllQuotesOK
  <1>4. V \in SUBSET Venues /\ IsFiniteSet(Venues) /\ \A v \in Venues : v \in V <=> q(v) > 0
    BY ShardAssumption DEF Visited
  <1>5. D = UNION {{Execution(v, f) : f \in F(v)} : v \in V}
    BY DEF DoneBy
  <1>6. ASSUME NEW v \in Venues
        PROVE  /\ IsFiniteSet(F(v)) /\ Cardinality(M(v)) \in Nat
               /\ \A f \in F(v) : /\ f.seq \in bs[v].seq + 1 .. bs[v].seq + Cardinality(M(v))
                                  /\ f.taker = o
                                  /\ \E m \in M(v) : /\ f.maker = m.order
                                                     /\ f.qty = G(v)[m] /\ f.price = m.price
               /\ \A f, g \in F(v) : f.seq = g.seq \/ f.maker = g.maker => f = g
               /\ \A m \in M(v) : \E f \in F(v) : f.maker = m.order /\ f.qty = G(v)[m]
               /\ Total(F(v)) = q(v)
               /\ \A m \in M(v) : G(v)[m] \in Nat
               /\ \A f \in F(v) : f.qty \in Nat
    <2>1. q(v) \in Nat /\ QuotesOK(bs[v].resting) /\ bs[v].seq \in Nat
      BY <1>2, <1>3
    <2>2. Done(bs[v], r, q(v)) = q(v)
      <3>1. Done(bs[v], r, q(v)) = Lesser(q(v), Depth(bs[v], r))
        BY <1>1, <2>1, GivenProps
      <3> QED BY <1>2, <1>3, <2>1, <3>1 DEF Lesser
    <2>3. \A m \in M(v) : G(v)[m] \in Nat
      BY <1>1, <2>1, GivenProps
    <2> DEFINE b == bs[v]
               t == r
               n == q(v)
               L == F(v)
    <2>4. /\ QuotesOK(b.resting) /\ b.seq \in Nat /\ t.side \in Sides /\ n \in Nat
          /\ Done(b, t, n) = n /\ L = Fills(b, o, t, n)
      BY <1>1, <2>1, <2>2 DEF FillsAt
    <2>5. M(v) = Makers(b, t, n) /\ G(v) = Given(b, t, n)
      OBVIOUS
    <2> HIDE DEF b, t, n, L
    <2>6. /\ IsFiniteSet(Fills(b, o, t, n)) /\ Cardinality(Makers(b, t, n)) \in Nat
          /\ \A f \in Fills(b, o, t, n) :
               /\ f.seq \in b.seq + 1 .. b.seq + Cardinality(Makers(b, t, n))
               /\ f.taker = o
               /\ \E m \in Makers(b, t, n) :
                    f.maker = m.order /\ f.qty = Given(b, t, n)[m] /\ f.price = m.price
          /\ \A f, g \in Fills(b, o, t, n) : f.seq = g.seq \/ f.maker = g.maker => f = g
          /\ \A m \in Makers(b, t, n) : \E f \in Fills(b, o, t, n) :
               f.maker = m.order /\ f.qty = Given(b, t, n)[m]
          /\ Total(Fills(b, o, t, n)) = Done(b, t, n)
      <3>1. FillsOK(b, o, t, n)
        BY <2>4, FillsProps
      <3> QED BY <3>1 DEF FillsOK
    <2>7. \A f \in L : f.qty \in Nat
      BY <2>3, <2>4, <2>5, <2>6
    <2>8. F(v) = L /\ n = q(v) /\ L = Fills(b, o, t, n) /\ b = bs[v]
      BY <2>4 DEF L, n, b
    <2> HIDE DEF F, M, G, q
    <2>9. \A f \in F(v) : /\ f.seq \in bs[v].seq + 1 .. bs[v].seq + Cardinality(M(v))
                         /\ f.taker = o
                         /\ \E m \in M(v) : f.maker = m.order /\ f.qty = G(v)[m] /\ f.price = m.price
      BY <2>5, <2>6, <2>8
    <2>10. /\ IsFiniteSet(F(v)) /\ Cardinality(M(v)) \in Nat
           /\ \A f, g \in F(v) : f.seq = g.seq \/ f.maker = g.maker => f = g
           /\ \A m \in M(v) : \E f \in F(v) : f.maker = m.order /\ f.qty = G(v)[m]
      BY <2>5, <2>6, <2>8
    <2>11. Total(F(v)) = q(v)
      BY <2>4, <2>6, <2>8
    <2> QED BY <2>3, <2>7, <2>8, <2>9, <2>10, <2>11
  <1>7. \A x \in D : \E v \in V : \E f \in F(v) : x = Execution(v, f)
    BY <1>5
  <1>8. \A v \in V : \A f \in F(v) : Execution(v, f) \in D
    BY <1>5
  <1> HIDE DEF D, F, V
  <1>9. ASSUME NEW v \in V
        PROVE  /\ IsFiniteSet(P(v)) /\ SumOver(amount, P(v)) = q(v)
               /\ P(v) = {[g \in F(v) |-> Execution(v, g)][f] : f \in F(v)}
    <2> DEFINE e == [f \in F(v) |-> Execution(v, f)]
               own == [f \in F(v) |-> f.qty]
    <2>1. v \in Venues
      BY <1>4
    <2>2. \A f \in F(v) : e[f] \in D /\ e[f].venue = v /\ e[f].qty = f.qty /\ e[f].seq = f.seq
      BY <1>8 DEF Execution
    <2>3. P(v) = {e[f] : f \in F(v)}
      <3>1. \A f \in F(v) : e[f] \in P(v)
        BY <2>2
      <3>2. ASSUME NEW x \in P(v)
            PROVE  \E f \in F(v) : x = e[f]
        <4>1. x \in D /\ x.venue = v
          OBVIOUS
        <4>2. PICK w \in V : \E f \in F(w) : x = Execution(w, f)
          BY <1>7, <4>1
        <4>3. PICK f \in F(w) : x = Execution(w, f)
          BY <4>2
        <4>4. w = v
          BY <4>1, <4>3 DEF Execution
        <4> QED BY <4>3, <4>4
      <3> HIDE DEF P, e
      <3> QED BY <3>1, <3>2
    <2>4. \A f \in F(v) : amount[e[f]] = own[f] /\ own[f] \in Int
      <3>1. \A f \in F(v) : f.qty \in Nat
        BY <1>6, <2>1
      <3> QED BY <2>2, <3>1
    <2>5. \A f, g \in F(v) : e[f] = e[g] => f = g
      <3>1. \A f, g \in F(v) : f.seq = g.seq => f = g
        BY <1>6, <2>1
      <3> HIDE DEF e
      <3> QED BY <2>2, <3>1
    <2>6. IsFiniteSet(F(v)) /\ SumOver(own, F(v)) = q(v)
      <3>1. Total(F(v)) = SumOver(own, F(v))
        BY DEF Total
      <3> QED BY <1>6, <2>1, <3>1
    <2> HIDE DEF P, e, own, amount, q
    <2>7. IsFiniteSet({e[f] : f \in F(v)}) /\ SumOver(amount, {e[f] : f \in F(v)}) = SumOver(own, F(v))
      BY <2>4, <2>5, <2>6, SumRenamed
    <2> QED BY <2>3, <2>6, <2>7 DEF e
  <1>10. ASSUME NEW v \in Venues \ V
         PROVE  IsFiniteSet(P(v)) /\ SumOver(amount, P(v)) = q(v)
    <2>1. P(v) = {}
      <3> SUFFICES ASSUME NEW x \in P(v) PROVE FALSE
        OBVIOUS
      <3>1. PICK w \in V : \E f \in F(w) : x = Execution(w, f)
        BY <1>7
      <3>2. x.venue = w /\ x.venue = v
        BY <3>1 DEF Execution
      <3> QED BY <3>2
    <2>2. q(v) = 0
      BY <1>2, <1>4
    <2> QED BY <2>1, <2>2, SumEmpty, FS_EmptySet
  <1>11. \A x \in D : part[x] \in Venues /\ part[x] \in V
    <2> SUFFICES ASSUME NEW x \in D PROVE part[x] \in V
      BY <1>4
    <2>1. PICK w \in V : \E f \in F(w) : x = Execution(w, f)
      BY <1>7
    <2> QED BY <2>1 DEF Execution
  <1>12. IsFiniteSet(D)
    <2>1. \A v \in Venues : IsFiniteSet({x \in D : part[x] = v})
      BY <1>9, <1>10
    <2>2. \A x \in D : part[x] \in Venues
      BY <1>11
    <2> HIDE DEF part
    <2> QED BY <1>4, <2>1, <2>2, FiniteParts
  <1>13. \A x \in D : \E v \in V : \E f \in F(v) :
           /\ x.venue = v /\ x.seq = f.seq /\ x.taker = f.taker /\ x.maker = f.maker
           /\ x.qty = f.qty /\ x.price = f.price /\ x = Execution(v, f)
    BY <1>7 DEF Execution
  <1>14. \A x \in D :
            /\ x.venue \in V /\ x.taker = o
            /\ x.seq \in bs[x.venue].seq + 1 .. bs[x.venue].seq + Cardinality(M(x.venue))
            /\ \E m \in M(x.venue) : x.maker = m.order /\ x.price = m.price /\ x.qty = G(x.venue)[m]
    <2> SUFFICES ASSUME NEW x \in D
                 PROVE  /\ x.venue \in V /\ x.taker = o
                        /\ x.seq \in bs[x.venue].seq + 1 .. bs[x.venue].seq + Cardinality(M(x.venue))
                        /\ \E m \in M(x.venue) : x.maker = m.order /\ x.price = m.price /\ x.qty = G(x.venue)[m]
      OBVIOUS
    <2> HIDE DEF M, G, F
    <2>1. PICK v \in V : \E f \in F(v) :
           /\ x.venue = v /\ x.seq = f.seq /\ x.taker = f.taker /\ x.maker = f.maker
           /\ x.qty = f.qty /\ x.price = f.price
      BY <1>13
    <2>2. PICK f \in F(v) :
           /\ x.venue = v /\ x.seq = f.seq /\ x.taker = f.taker /\ x.maker = f.maker
           /\ x.qty = f.qty /\ x.price = f.price
      BY <2>1
    <2>3. v \in Venues
      BY <1>4
    <2>4. /\ f.seq \in bs[v].seq + 1 .. bs[v].seq + Cardinality(M(v)) /\ f.taker = o
          /\ \E m \in M(v) : f.maker = m.order /\ f.qty = G(v)[m] /\ f.price = m.price
      BY <1>6, <2>3
    <2>5. PICK m \in M(v) : f.maker = m.order /\ f.qty = G(v)[m] /\ f.price = m.price
      BY <2>4
    <2>6. x.venue = v /\ x.seq = f.seq /\ x.taker = o
          /\ x.maker = m.order /\ x.price = m.price /\ x.qty = G(v)[m]
      BY <2>2, <2>4, <2>5
    <2>7. \E n \in M(x.venue) : x.maker = n.order /\ x.price = n.price /\ x.qty = G(x.venue)[n]
      <3>1. m \in M(x.venue) /\ G(x.venue) = G(v)
        BY <2>5, <2>6
      <3> QED BY <2>6, <3>1
    <2> QED BY <2>4, <2>6, <2>7
  <1>15. \A x, y \in D : x.venue = y.venue /\ (x.seq = y.seq \/ x.maker = y.maker) => x = y
    <2> SUFFICES ASSUME NEW x \in D, NEW y \in D, x.venue = y.venue, x.seq = y.seq \/ x.maker = y.maker
                 PROVE  x = y
      OBVIOUS
    <2>1. PICK v \in V : \E f \in F(v) : /\ x.venue = v /\ x.seq = f.seq /\ x.maker = f.maker
                                         /\ x = Execution(v, f)
      BY <1>13
    <2>2. PICK f \in F(v) : x.venue = v /\ x.seq = f.seq /\ x.maker = f.maker /\ x = Execution(v, f)
      BY <2>1
    <2>3. PICK w \in V : \E g \in F(w) : /\ y.venue = w /\ y.seq = g.seq /\ y.maker = g.maker
                                         /\ y = Execution(w, g)
      BY <1>13
    <2>4. PICK g \in F(w) : y.venue = w /\ y.seq = g.seq /\ y.maker = g.maker /\ y = Execution(w, g)
      BY <2>3
    <2>5. v = w /\ v \in Venues
      BY <1>4, <2>2, <2>4
    <2>6. f = g
      <3>1. \A i, j \in F(v) : i.seq = j.seq \/ i.maker = j.maker => i = j
        BY <1>6, <2>5
      <3>2. g \in F(v) /\ (f.seq = g.seq \/ f.maker = g.maker)
        BY <2>2, <2>4, <2>5
      <3> QED BY <3>1, <3>2
    <2> QED BY <2>2, <2>4, <2>5, <2>6
  <1>16. ASSUME NEW v \in V, NEW m \in M(v)
         PROVE  \E x \in D : x.venue = v /\ x.maker = m.order /\ x.qty = G(v)[m]
    <2>1. v \in Venues
      BY <1>4
    <2>2. PICK f \in F(v) : f.maker = m.order /\ f.qty = G(v)[m]
      BY <1>6, <2>1
    <2>3. Execution(v, f) \in D
      BY <1>8
    <2>4. Execution(v, f).venue = v /\ Execution(v, f).maker = f.maker /\ Execution(v, f).qty = f.qty
      BY DEF Execution
    <2> HIDE DEF M, G
    <2> QED BY <2>2, <2>3, <2>4
  <1>17. Total(D) = AllPlanned(bs, r)
    <2> DEFINE planned == [v \in Venues |-> q(v)]
               g == [v \in Venues |-> SumOver(amount, P(v))]
    <2>1. g = planned
      BY <1>9, <1>10
    <2>2. \A x \in D : amount[x] \in Int
      <3> SUFFICES ASSUME NEW x \in D PROVE amount[x] \in Int
        OBVIOUS
      <3>1. PICK v \in V : \E f \in F(v) : x.qty = f.qty
        BY <1>13
      <3>2. PICK f \in F(v) : x.qty = f.qty
        BY <3>1
      <3>3. v \in Venues
        BY <1>4
      <3>4. f.qty \in Nat
        BY <1>6, <3>3
      <3> QED BY <3>2, <3>4
    <2>3. SumOver(g, Venues) = SumOver(amount, D)
      <3>1. \A x \in D : part[x] \in Venues
        BY <1>11
      <3> HIDE DEF amount, part
      <3> QED BY <1>4, <1>12, <2>2, <3>1, SumByPart
    <2>4. Total(D) = SumOver(amount, D)
      BY DEF Total
    <2>5. AllPlanned(bs, r) = SumOver(planned, Venues)
      BY DEF AllPlanned
    <2> QED BY <2>1, <2>3, <2>4, <2>5
  <1>18. Remainder(o, D) = r.qty - AllPlanned(bs, r)
    BY <1>17 DEF Remainder
  <1>19. Remainder(o, D) \in Nat
    BY <1>1, <1>2, <1>18 DEF Lesser
  <1>20. ASSUME Remainder(o, D) > 0, NEW v \in Venues, NEW m \in Crossing(bs[v], r)
         PROVE  v \in V /\ G(v)[m] = m.left
    <2>1. AllPlanned(bs, r) # r.qty
      BY <1>1, <1>18, <1>20
    <2>2. q(v) = Depth(bs[v], r)
      BY <1>2, <2>1
    <2>3. QuotesOK(bs[v].resting) /\ Depth(bs[v], r) \in Nat
      BY <1>3
    <2>4. G(v)[m] = m.left
      <3>1. q(v) \in Nat /\ q(v) >= Depth(bs[v], r)
        BY <2>2, <2>3
      <3> HIDE DEF q
      <3> QED BY <1>1, <2>3, <3>1, GivenProps
    <2>5. m.left > 0 /\ m.left <= Depth(bs[v], r)
      <3> DEFINE own == [n \in Crossing(bs[v], r) |-> n.left]
      <3>1. Crossing(bs[v], r) \in SUBSET bs[v].resting /\ IsFiniteSet(Crossing(bs[v], r))
        BY <1>1, <2>3, QueueLines
      <3>2. \A n \in Crossing(bs[v], r) : own[n] = n.left /\ own[n] \in Nat /\ n.left > 0
        BY <2>3, <3>1 DEF QuotesOK, Quote
      <3>3. Depth(bs[v], r) = SumOver(own, Crossing(bs[v], r))
        BY DEF Depth
      <3> HIDE DEF own
      <3>4. own[m] <= SumOver(own, Crossing(bs[v], r))
        <4>1. \A n \in Crossing(bs[v], r) : own[n] \in Nat
          BY <3>2
        <4> QED BY <3>1, <4>1, SumMember
      <3> QED BY <3>2, <3>3, <3>4
    <2>6. m.left \in Int
      BY <1>1, <2>3, QueueLines DEF QuotesOK, Quote
    <2>7. q(v) > 0
      BY <2>2, <2>3, <2>5, <2>6
    <2> QED BY <1>4, <2>4, <2>7
  <1> QED BY <1>12, <1>14, <1>15, <1>16, <1>17, <1>19, <1>20 DEF D, V, DoneOK

-----------------------------------------------------------------------------
(* Rings of recent ids. *)

\* The members of a sequence.
LEMMA ToSetOf ==
    ASSUME NEW S, NEW s \in Seq(S)
    PROVE  /\ ToSet(s) \in SUBSET S
           /\ \A x : x \in ToSet(s) <=> \E i \in 1 .. Len(s) : s[i] = x
  BY DEF ToSet

\* The latest of a sequence are its end.
LatestOK(s) ==
    /\ Len(Latest(s)) = Lesser(Len(s), Window)
    /\ \A i \in 1 .. Len(Latest(s)) :
         /\ Len(s) - Len(Latest(s)) + i \in 1 .. Len(s)
         /\ Latest(s)[i] = s[Len(s) - Len(Latest(s)) + i]

\* The latest of a sequence are its end, and nothing that was not in it.
LEMMA LatestProps ==
    ASSUME NEW S, NEW s \in Seq(S)
    PROVE  Latest(s) \in Seq(S) /\ LatestOK(s) /\ ToSet(Latest(s)) \in SUBSET ToSet(s)
  <1> DEFINE m == Greater(1, Len(s) - Window + 1)
             n == Len(s)
             t == SubSeq(s, m, n)
  <1>1. n \in Nat /\ m \in Int /\ Window \in Nat /\ Window > 0
    BY WindowAssumption DEF Greater
  <1>2. t = Latest(s)
    BY DEF Latest
  <1>3. m >= 1 /\ (m <= n => n - m + 1 = Lesser(n, Window)) /\ (m > n => n = 0)
    <2>1. m = Greater(1, n - Window + 1)
      OBVIOUS
    <2> HIDE DEF m, n, t
    <2> QED BY <1>1, <2>1 DEF Greater, Lesser
  <1>4. \A i \in m .. n : s[i] \in S
    BY <1>1, <1>3
  <1>5. /\ t \in Seq(S) /\ Len(t) = (IF m <= n THEN n - m + 1 ELSE 0)
        /\ \A i \in 1 .. n - m + 1 : t[i] = s[m + i - 1]
    <2> HIDE DEF m, n
    <2> QED BY <1>1, <1>4, SubSeqProperties
  <1> HIDE DEF m, t
  <1>6. Len(t) = Lesser(n, Window)
    BY <1>1, <1>3, <1>5 DEF Lesser
  <1>7. \A i \in 1 .. Len(t) : n - Len(t) + i \in 1 .. n /\ t[i] = s[n - Len(t) + i]
    <2> SUFFICES ASSUME NEW i \in 1 .. Len(t)
                 PROVE  n - Len(t) + i \in 1 .. n /\ t[i] = s[n - Len(t) + i]
      OBVIOUS
    <2>1. m <= n /\ Len(t) = n - m + 1
      BY <1>5
    <2>2. i \in 1 .. n - m + 1 /\ n - Len(t) + i = m + i - 1 /\ n - Len(t) + i \in 1 .. n
      BY <1>1, <1>3, <2>1
    <2>3. t[i] = s[m + i - 1]
      BY <1>5, <2>2
    <2> QED BY <2>2, <2>3
  <1>8. ToSet(t) \in SUBSET ToSet(s)
    <2> SUFFICES ASSUME NEW x \in ToSet(t) PROVE x \in ToSet(s)
      OBVIOUS
    <2>1. PICK i \in 1 .. Len(t) : t[i] = x
      BY <1>5, ToSetOf
    <2>2. n - Len(t) + i \in 1 .. Len(s) /\ s[n - Len(t) + i] = x
      BY <1>7, <2>1
    <2> QED BY <2>2, ToSetOf
  <1> QED BY <1>2, <1>5, <1>6, <1>7, <1>8 DEF LatestOK

\* An id that is entered is there, whatever else is forgotten for it.
LEMMA RememberProps ==
    ASSUME NEW S, NEW ring \in Seq(S), NEW o \in S
    PROVE  /\ Remember(ring, o) \in Seq(S)
           /\ o \in ToSet(Remember(ring, o))
           /\ ToSet(Remember(ring, o)) \in SUBSET (ToSet(ring) \cup {o})
  <1>1. CASE o \in ToSet(ring)
    BY <1>1 DEF Remember
  <1>2. CASE o \notin ToSet(ring)
    <2> DEFINE s == Append(ring, o)
               t == Latest(s)
    <2>1. Remember(ring, o) = t
      BY <1>2 DEF Remember
    <2>2. s \in Seq(S) /\ Len(s) = Len(ring) + 1 /\ s[Len(s)] = o
          /\ \A i \in 1 .. Len(ring) : s[i] = ring[i]
      OBVIOUS
    <2> HIDE DEF s
    <2>3. t \in Seq(S) /\ LatestOK(s) /\ ToSet(t) \in SUBSET ToSet(s)
      BY <2>2, LatestProps
    <2>4. ToSet(s) \in SUBSET (ToSet(ring) \cup {o})
      <3> SUFFICES ASSUME NEW x \in ToSet(s) PROVE x \in ToSet(ring) \cup {o}
        OBVIOUS
      <3>1. PICK i \in 1 .. Len(s) : s[i] = x
        BY <2>2, ToSetOf
      <3>2. CASE i \in 1 .. Len(ring)
        BY <2>2, <3>1, <3>2, ToSetOf
      <3>3. CASE i \notin 1 .. Len(ring)
        <4>1. i = Len(s)
          BY <2>2, <3>3
        <4> QED BY <2>2, <3>1, <4>1
      <3> QED BY <3>2, <3>3
    <2>5. o \in ToSet(t)
      <3>1. Len(t) = Lesser(Len(s), Window) /\ Len(s) \in Nat /\ Len(s) > 0
            /\ Window \in Nat /\ Window > 0
        BY <2>2, <2>3, WindowAssumption DEF LatestOK
      <3>2. Len(t) \in Nat /\ Len(t) > 0 /\ Len(t) \in 1 .. Len(t)
        BY <3>1 DEF Lesser
      <3>3. t[Len(t)] = s[Len(s) - Len(t) + Len(t)]
        BY <2>3, <3>2 DEF LatestOK
      <3>4. t[Len(t)] = o
        BY <2>2, <3>1, <3>2, <3>3
      <3> QED BY <2>3, <3>2, <3>4, ToSetOf
    <2> QED BY <2>1, <2>3, <2>4, <2>5
  <1> QED BY <1>1, <1>2

-----------------------------------------------------------------------------
(* An order that no book has seen, on what the books hold. *)

SlicedCore(c, o) ==
    [v \in Venues |->
       IF v \in Visited(c, req[o]) THEN Saved(Matched(c[v], o, req[o], Planned(c, req[o], v), FALSE))
       ELSE c[v]]

WithRested(b, o, r, left) ==
    [resting |-> b.resting \cup {Rested(b, o, r, left)}, arrival |-> b.arrival + 1, seq |-> b.seq]

\* The remainder rests at a venue that no slice has visited, or nowhere.
RestsAt(c, o) ==
    IF Remainder(o, DoneBy(c, o)) > 0 /\ MayRest(req[o]) THEN {req[o].venue} \ Visited(c, req[o]) ELSE {}

OrderCore(c, o) ==
    [v \in Venues |->
       IF v \in RestsAt(c, o) THEN WithRested(c[v], o, req[o], Remainder(o, DoneBy(c, o)))
       ELSE SlicedCore(c, o)[v]]

\* What a match makes of the saved part of a book depends on that part alone.
LEMMA SavedMatched ==
    ASSUME NEW b, NEW o, NEW r, NEW qty
    PROVE  Saved(Matched(b, o, r, qty, FALSE)) = Saved(Matched(Saved(b), o, r, qty, FALSE))
  <1>1. Saved(b).resting = b.resting /\ Saved(b).seq = b.seq /\ Saved(b).arrival = b.arrival
    BY DEF Saved
  <1>2. /\ Kept(Saved(b), r, qty) = Kept(b, r, qty)
        /\ Done(Saved(b), r, qty) = Done(b, r, qty)
        /\ Makers(Saved(b), r, qty) = Makers(b, r, qty)
    BY SavedSame
  <1>3. Rested(Saved(b), o, r, qty - Done(b, r, qty)) = Rested(b, o, r, qty - Done(b, r, qty))
    BY <1>1 DEF Rested
  <1>4. /\ Matched(Saved(b), o, r, qty, FALSE).resting = Matched(b, o, r, qty, FALSE).resting
        /\ Matched(Saved(b), o, r, qty, FALSE).arrival = Matched(b, o, r, qty, FALSE).arrival
        /\ Matched(Saved(b), o, r, qty, FALSE).seq = Matched(b, o, r, qty, FALSE).seq
    BY <1>1, <1>2, <1>3 DEF Matched
  <1> QED BY <1>4 DEF Saved

\* A quantity that meets nobody only rests.
LEMMA MeetsNobody ==
    ASSUME NEW b, b.seq \in Nat, NEW o, NEW r, NEW qty \in Nat, qty > 0, Crossing(b, r) = {}
    PROVE  /\ Fills(b, o, r, qty) = {}
           /\ Saved(Matched(b, o, r, qty, TRUE)) = WithRested(b, o, r, qty)
  <1>1. Makers(b, r, qty) = {}
    BY DEF Makers
  <1>2. Done(b, r, qty) = 0
    BY <1>1, SumEmpty DEF Done
  <1>3. Kept(b, r, qty) = b.resting
    BY <1>1 DEF Kept
  <1>4. Cardinality(Makers(b, r, qty)) = 0
    BY <1>1, FS_EmptySet
  <1>5. Fills(b, o, r, qty) = {}
    BY <1>1 DEF Fills
  <1>6. qty - 0 = qty /\ b.seq + 0 = b.seq /\ 0 < qty
    OBVIOUS
  <1>7. Saved(Matched(b, o, r, qty, TRUE)) = WithRested(b, o, r, qty)
    BY <1>2, <1>3, <1>4, <1>6 DEF Saved, Matched, WithRested
  <1> QED BY <1>5, <1>7

\* What an order that no book has seen does: the executions and the books are
\* those of the saved parts, whatever the books remember beside them.
ExecutedOK(bs, o) ==
    /\ Executed(bs, o).done = DoneBy(bs, o)
    /\ Core(Executed(bs, o).books) = OrderCore(Core(bs), o)
    /\ \A v \in Venues : Executed(bs, o).books[v].recent \in {bs[v].recent, Remember(bs[v].recent, o)}

\* What the executions of an order no book has seen do to the books.
LEMMA ExecutedProps ==
    ASSUME ReqOK, NEW o \in Orders, NEW bs, AllQuotesOK(bs),
           \A v \in Venues : bs[v].seq \in Nat /\ bs[v].recent \in Seq(Orders) /\ ~Seen(bs[v], o)
    PROVE  ExecutedOK(bs, o)
  <1> DEFINE r == req[o]
             V == Visited(bs, r)
             q(v) == Planned(bs, r, v)
             s == Sliced(bs, o)
             rest == Remainder(o, s.done)
             w == r.venue
             c == Core(bs)
  <1>1. DoneOK(bs, o) /\ w \in Venues /\ V \in SUBSET Venues
    BY DoneProps, TermsOK DEF Visited
  <1>2. \A v \in V : /\ Slice(bs, o, v).book = Matched(bs[v], o, r, q(v), FALSE)
                     /\ Slice(bs, o, v).fills = FillsAt(bs, o, v)
    BY <1>1 DEF Slice, Submitted, FillsAt
  <1>3. s.done = DoneBy(bs, o)
    <2> DEFINE here(v) == {Execution(v, f) : f \in Slice(bs, o, v).fills}
               there(v) == {Execution(v, f) : f \in FillsAt(bs, o, v)}
    <2>1. s.done = UNION {here(v) : v \in V}
      BY DEF Sliced
    <2>2. \A v \in V : here(v) = there(v)
      BY <1>2
    <2>3. DoneBy(bs, o) = UNION {there(v) : v \in V}
      BY DEF DoneBy
    <2> HIDE DEF V, s, here, there
    <2>4. {here(v) : v \in V} = {there(v) : v \in V}
      BY <2>2
    <2> QED BY <2>1, <2>3, <2>4
  <1>4. /\ s.books = [v \in Venues |-> s.books[v]]
        /\ \A v \in Venues : s.books[v] = IF v \in V THEN Matched(bs[v], o, r, q(v), FALSE) ELSE bs[v]
    BY <1>2 DEF Sliced
  <1>5. /\ rest = Remainder(o, DoneBy(c, o)) /\ rest = Remainder(o, DoneBy(bs, o))
        /\ Visited(c, r) = V /\ \A v \in Venues : Planned(c, r, v) = q(v) /\ c[v] = Saved(bs[v])
    BY <1>3, CoreSame
  <1>6. rest \in Nat
    BY <1>1, <1>5 DEF DoneOK
  <1>7. \A v \in Venues : SlicedCore(c, o)[v] = Saved(s.books[v])
    <2> SUFFICES ASSUME NEW v \in Venues PROVE SlicedCore(c, o)[v] = Saved(s.books[v])
      OBVIOUS
    <2>1. CASE v \in V
      <3>1. SlicedCore(c, o)[v] = Saved(Matched(Saved(bs[v]), o, r, q(v), FALSE))
        BY <1>5, <2>1 DEF SlicedCore
      <3>2. s.books[v] = Matched(bs[v], o, r, q(v), FALSE)
        BY <1>4, <2>1
      <3>3. Saved(Matched(bs[v], o, r, q(v), FALSE)) = Saved(Matched(Saved(bs[v]), o, r, q(v), FALSE))
        BY SavedMatched
      <3> HIDE DEF s, q, c
      <3> QED BY <3>1, <3>2, <3>3
    <2>2. CASE v \notin V
      <3>1. SlicedCore(c, o)[v] = Saved(bs[v])
        BY <1>5, <2>2 DEF SlicedCore
      <3> QED BY <1>4, <2>2, <3>1
    <2> QED BY <2>1, <2>2
  <1>8. \A v \in Venues : s.books[v].recent = IF v \in V THEN Remember(bs[v].recent, o) ELSE bs[v].recent
    <2>1. \A v \in V : Matched(bs[v], o, r, q(v), FALSE).recent = Remember(bs[v].recent, o)
      BY DEF Matched
    <2> HIDE DEF s, q, V
    <2> QED BY <1>4, <2>1
  <1> HIDE DEF s, V, q, c
  <1>9. CASE ~(rest > 0 /\ MayRest(r))
    <2>1. Executed(bs, o) = s
      BY <1>9 DEF Executed, Posted, s
    <2>2. RestsAt(c, o) = {}
      BY <1>5, <1>9 DEF RestsAt
    <2>3. \A v \in Venues : OrderCore(c, o)[v] = Saved(s.books[v])
      BY <1>7, <2>2 DEF OrderCore
    <2>4. Core(s.books) = OrderCore(c, o)
      BY <2>3 DEF Core, OrderCore
    <2> QED BY <1>3, <1>8, <2>1, <2>4 DEF ExecutedOK, c
  <1>10. CASE rest > 0 /\ MayRest(r) /\ w \in V
    <2> DEFINE b == s.books[w]
    <2>1. Seen(b, o)
      <3>1. b.recent = Remember(bs[w].recent, o) /\ bs[w].recent \in Seq(Orders)
        BY <1>1, <1>8, <1>10
      <3> QED BY <3>1, RememberProps DEF Seen
    <2>2. Submitted(b, o, r, rest, TRUE) = [book |-> b, fills |-> {}]
      BY <2>1 DEF Submitted
    <2>3. Executed(bs, o).books = [s.books EXCEPT ![w] = b] /\ Executed(bs, o).done = s.done
      <3> DEFINE x == Submitted(s.books[w], o, r, Remainder(o, s.done), TRUE)
      <3>1. Executed(bs, o) = Posted(o, s)
        BY DEF Executed, s
      <3>2. x.book = b /\ x.fills = {}
        <4>1. x = [book |-> b, fills |-> {}]
          BY <2>2
        <4> HIDE DEF x
        <4> QED BY <4>1
      <3>3. Posted(o, s) = [books |-> [s.books EXCEPT ![w] = x.book],
                            done |-> s.done \cup {Execution(w, f) : f \in x.fills}]
        BY <1>10 DEF Posted
      <3> HIDE DEF x, b
      <3> QED BY <3>1, <3>2, <3>3
    <2>4. [s.books EXCEPT ![w] = b] = s.books
      BY <1>4
    <2>5. Executed(bs, o).books = s.books /\ Executed(bs, o).done = s.done
      BY <2>3, <2>4
    <2>6. RestsAt(c, o) = {}
      BY <1>5, <1>10 DEF RestsAt
    <2>7. \A v \in Venues : OrderCore(c, o)[v] = Saved(s.books[v])
      BY <1>7, <2>6 DEF OrderCore
    <2>8. Core(s.books) = OrderCore(c, o)
      BY <2>7 DEF Core, OrderCore
    <2> QED BY <1>3, <1>8, <2>5, <2>8 DEF ExecutedOK, c
  <1>11. CASE rest > 0 /\ MayRest(r) /\ w \notin V
    <2> DEFINE b == bs[w]
               n == Matched(b, o, r, rest, TRUE)
    <2>1. s.books[w] = b
      BY <1>1, <1>4, <1>11
    <2>2. Crossing(b, r) = {}
      BY <1>1, <1>5, <1>11 DEF DoneOK, V
    <2>3. Submitted(b, o, r, rest, TRUE) = [book |-> n, fills |-> Fills(b, o, r, rest)]
      BY <1>1 DEF Submitted
    <2>4. Fills(b, o, r, rest) = {} /\ Saved(n) = WithRested(b, o, r, rest)
      BY <1>1, <1>6, <1>11, <2>2, MeetsNobody
    <2>5. n.recent = Remember(b.recent, o)
      BY DEF Matched
    <2> HIDE DEF n, b
    <2>7. /\ Executed(bs, o).books = [s.books EXCEPT ![w] = n]
          /\ Executed(bs, o).done = s.done
      <3> DEFINE x == Submitted(s.books[w], o, r, Remainder(o, s.done), TRUE)
      <3>1. Executed(bs, o) = Posted(o, s)
        BY DEF Executed, s
      <3>2. x.book = n /\ x.fills = {}
        <4>1. x = [book |-> n, fills |-> Fills(b, o, r, rest)]
          BY <2>1, <2>3
        <4> HIDE DEF x
        <4> QED BY <2>4, <4>1
      <3>3. Posted(o, s) = [books |-> [s.books EXCEPT ![w] = x.book],
                            done |-> s.done \cup {Execution(w, f) : f \in x.fills}]
        BY <1>11 DEF Posted
      <3> HIDE DEF x
      <3> QED BY <3>1, <3>2, <3>3
    <2>8. \A v \in Venues : Executed(bs, o).books[v] = IF v = w THEN n ELSE s.books[v]
      BY <1>4, <2>7
    <2>9. RestsAt(c, o) = {w}
      BY <1>5, <1>11 DEF RestsAt
    <2>10. c[w].resting = b.resting /\ c[w].arrival = b.arrival /\ c[w].seq = b.seq
      <3>1. c[w] = Saved(b)
        BY <1>1, <1>5 DEF b
      <3> QED BY <3>1 DEF Saved
    <2>11. WithRested(c[w], o, r, rest) = WithRested(b, o, r, rest)
      BY <2>10 DEF WithRested, Rested
    <2>12. \A v \in Venues : OrderCore(c, o)[v] = Saved(Executed(bs, o).books[v])
      BY <1>1, <1>5, <1>7, <2>4, <2>8, <2>9, <2>11 DEF OrderCore
    <2>13. Core(Executed(bs, o).books) = OrderCore(c, o)
      BY <2>12 DEF Core, OrderCore
    <2>14. \A v \in Venues : Executed(bs, o).books[v].recent \in {bs[v].recent, Remember(bs[v].recent, o)}
      BY <1>8, <2>5, <2>8 DEF b
    <2> QED BY <1>3, <2>7, <2>13, <2>14 DEF ExecutedOK, c
  <1> QED BY <1>9, <1>10, <1>11

-----------------------------------------------------------------------------
(* Books that are in order. *)

\* A quote is what its order asked for, at the venue the order named.
Placed(c) ==
    \A v \in Venues : \A m \in c[v].resting :
      /\ m.at <= c[v].arrival
      /\ req[m.order].venue = v /\ MayRest(req[m.order])
      /\ m.side = req[m.order].side /\ m.price = req[m.order].price

Uncrossed(c) ==
    \A v, w \in Venues : \A m \in c[v].resting, n \in c[w].resting :
      m.side = "BUY" /\ n.side = "SELL" => m.price < n.price

CoreOK(c) ==
    /\ \A v \in Venues : QuotesOK(c[v].resting) /\ c[v].arrival \in Nat /\ c[v].seq \in Nat
    /\ Placed(c)
    /\ Uncrossed(c)

\* One order rests once, on whatever venues.
LEMMA HeldOnce ==
    ASSUME NEW c, CoreOK(c), NEW v \in Venues, NEW w \in Venues,
           NEW m \in c[v].resting, NEW n \in c[w].resting, m.order = n.order
    PROVE  v = w /\ m = n
  <1>1. v = w
    BY DEF CoreOK, Placed
  <1> QED BY <1>1 DEF CoreOK, QuotesOK

\* What rests of an order is what its one quote has left.
LEMMA LeftProps ==
    ASSUME NEW c, CoreOK(c)
    PROVE  /\ \A p : (\A v \in Venues : ~Holds(c[v], p)) => Left(c, p) = 0
           /\ \A v \in Venues : \A m \in c[v].resting : Left(c, m.order) = m.left
  <1> DEFINE Q(p) == {q \in Venues \X UNION {c[v].resting : v \in Venues} :
                        q[2] \in c[q[1]].resting /\ q[2].order = p}
             amount(p) == [q \in Q(p) |-> q[2].left]
  <1>1. \A p : Left(c, p) = SumOver(amount(p), Q(p))
    BY DEF Left
  <1>2. ASSUME NEW p, \A v \in Venues : ~Holds(c[v], p)
        PROVE  Left(c, p) = 0
    <2>1. Q(p) = {}
      <3> SUFFICES ASSUME NEW q \in Q(p) PROVE FALSE
        OBVIOUS
      <3>1. q[1] \in Venues /\ q[2] \in c[q[1]].resting /\ q[2].order = p
        OBVIOUS
      <3> QED BY <1>2, <3>1 DEF Holds
    <2>2. SumOver(amount(p), Q(p)) = 0
      BY <2>1, SumEmpty
    <2> QED BY <1>1, <2>2
  <1>3. ASSUME NEW v \in Venues, NEW m \in c[v].resting
        PROVE  Left(c, m.order) = m.left
    <2> DEFINE p == m.order
               x == <<v, m>>
               f == amount(p)
    <2>1. Q(p) = {x}
      <3>1. x \in Q(p)
        OBVIOUS
      <3>2. ASSUME NEW q \in Q(p) PROVE q = x
        <4>1. /\ q[1] \in Venues /\ q[2] \in c[q[1]].resting /\ q[2].order = m.order
              /\ q = <<q[1], q[2]>>
          OBVIOUS
        <4>2. q[1] = v /\ q[2] = m
          BY <4>1, HeldOnce
        <4> QED BY <4>1, <4>2
      <3> HIDE DEF Q, x
      <3> QED BY <3>1, <3>2
    <2>2. f[x] = m.left
      <3>1. x \in Q(p) /\ x[2] = m
        BY <2>1
      <3> QED BY <3>1
    <2>3. m.left \in Nat
      BY DEF CoreOK, QuotesOK, Quote
    <2> HIDE DEF f, x
    <2>4. SumOver(f, {} \cup {x}) = SumOver(f, {}) + f[x]
      <3>1. IsFiniteSet({}) /\ x \notin {} /\ f[x] \in Int /\ \A y \in {} : f[y] \in Int
        BY <2>2, <2>3, FS_EmptySet
      <3> QED BY <3>1, SumAdd
    <2>5. SumOver(f, {}) = 0 /\ {} \cup {x} = {x}
      BY SumEmpty
    <2>6. SumOver(f, {x}) = m.left
      BY <2>2, <2>3, <2>4, <2>5
    <2> QED BY <1>1, <2>1, <2>6 DEF f
  <1> QED BY <1>2, <1>3

\* What a part of some executions amounts to.
Part(D, p) == {x \in D : p \in {x.taker, x.maker}}

\* What an order that no book holds makes of books that are in order.
OrderOK(c, o) ==
    /\ CoreOK(OrderCore(c, o))
    /\ \A v \in Venues : c[v].seq <= OrderCore(c, o)[v].seq
    /\ \A x \in DoneBy(c, o) : /\ x.venue \in Venues /\ x.taker = o
                               /\ x.seq \in c[x.venue].seq + 1 .. OrderCore(c, o)[x.venue].seq
                               /\ Holds(c[x.venue], x.maker) /\ x.maker \in Orders
                               /\ x.qty \in Nat
    /\ \A v \in Venues, p \in Orders : Holds(OrderCore(c, o)[v], p) => p = o \/ Holds(c[v], p)
    /\ \A p \in Orders \ {o} : Left(OrderCore(c, o), p) + Total(Part(DoneBy(c, o), p)) = Left(c, p)
    /\ Left(OrderCore(c, o), o) + Total(DoneBy(c, o)) <= req[o].qty

\* The venues one by one: one that is not visited and where nothing rests is as
\* it was, one that is visited has matched, and where the order rests nothing
\* else has changed.
LEMMA VenueAfter ==
    ASSUME ReqOK, NEW o \in Orders, NEW c, CoreOK(c), NEW v \in Venues
    PROVE  LET V == Visited(c, req[o])
               n == OrderCore(c, o)[v]
               q == Planned(c, req[o], v)
           IN /\ v \in V => /\ n.resting = Kept(c[v], req[o], q)
                            /\ n.arrival = c[v].arrival + 1
                            /\ n.seq = c[v].seq + Cardinality(Makers(c[v], req[o], q))
                            /\ v \notin RestsAt(c, o)
              /\ v \in RestsAt(c, o) =>
                   /\ v \notin V /\ v = req[o].venue /\ MayRest(req[o])
                   /\ Remainder(o, DoneBy(c, o)) > 0
                   /\ n.resting = c[v].resting \cup {Rested(c[v], o, req[o], Remainder(o, DoneBy(c, o)))}
                   /\ n.arrival = c[v].arrival + 1
                   /\ n.seq = c[v].seq
              /\ v \notin V /\ v \notin RestsAt(c, o) => n = c[v]
  <1> DEFINE V == Visited(c, req[o])
             q == Planned(c, req[o], v)
             n == OrderCore(c, o)[v]
  <1>1. n = IF v \in RestsAt(c, o) THEN WithRested(c[v], o, req[o], Remainder(o, DoneBy(c, o)))
            ELSE SlicedCore(c, o)[v]
    BY DEF OrderCore
  <1>2. SlicedCore(c, o)[v] = IF v \in V THEN Saved(Matched(c[v], o, req[o], q, FALSE)) ELSE c[v]
    BY DEF SlicedCore
  <1>3. \A w \in RestsAt(c, o) : /\ w = req[o].venue /\ w \notin V
                                 /\ MayRest(req[o]) /\ Remainder(o, DoneBy(c, o)) > 0
    BY DEF RestsAt
  <1>4. /\ Saved(Matched(c[v], o, req[o], q, FALSE)).resting = Kept(c[v], req[o], q)
        /\ Saved(Matched(c[v], o, req[o], q, FALSE)).arrival = c[v].arrival + 1
        /\ Saved(Matched(c[v], o, req[o], q, FALSE)).seq = c[v].seq + Cardinality(Makers(c[v], req[o], q))
    BY DEF Saved, Matched
  <1> HIDE DEF V, q, n
  <1>5. v \in V => /\ n.resting = Kept(c[v], req[o], q)
                   /\ n.arrival = c[v].arrival + 1
                   /\ n.seq = c[v].seq + Cardinality(Makers(c[v], req[o], q))
                   /\ v \notin RestsAt(c, o)
    BY <1>1, <1>2, <1>3, <1>4
  <1>6. v \in RestsAt(c, o) =>
           /\ v \notin V /\ v = req[o].venue /\ MayRest(req[o])
           /\ Remainder(o, DoneBy(c, o)) > 0
           /\ n.resting = c[v].resting \cup {Rested(c[v], o, req[o], Remainder(o, DoneBy(c, o)))}
           /\ n.arrival = c[v].arrival + 1
           /\ n.seq = c[v].seq
    BY <1>1, <1>3 DEF WithRested
  <1>7. v \notin V /\ v \notin RestsAt(c, o) => n = c[v]
    BY <1>1, <1>2
  <1> QED BY <1>5, <1>6, <1>7 DEF V, q, n

\* Totals of quantities.
LEMMA TotalProps ==
    /\ Total({}) = 0
    /\ \A x : x.qty \in Nat => Total({x}) = x.qty
    /\ \A D : IsFiniteSet(D) /\ (\A x \in D : x.qty \in Nat) => Total(D) \in Nat
  <1>1. Total({}) = 0
    BY SumEmpty DEF Total
  <1>2. ASSUME NEW x, x.qty \in Nat
        PROVE  Total({x}) = x.qty
    <2> DEFINE f == [y \in {x} |-> y.qty]
    <2>1. f[x] = x.qty /\ IsFiniteSet({}) /\ x \notin {} /\ \A y \in {} : f[y] \in Int
      BY FS_EmptySet
    <2>2. Total({x}) = SumOver(f, {x})
      BY DEF Total
    <2> HIDE DEF f
    <2>3. SumOver(f, {} \cup {x}) = SumOver(f, {}) + f[x] /\ SumOver(f, {}) = 0
      <3>1. f[x] \in Int
        BY <1>2, <2>1
      <3> QED BY <2>1, <3>1, SumAdd, SumEmpty
    <2>4. {} \cup {x} = {x}
      OBVIOUS
    <2> QED BY <1>2, <2>1, <2>2, <2>3, <2>4
  <1>3. ASSUME NEW D, IsFiniteSet(D), \A x \in D : x.qty \in Nat
        PROVE  Total(D) \in Nat
    <2> DEFINE f == [y \in D |-> y.qty]
    <2>1. \A y \in D : f[y] \in Nat
      BY <1>3
    <2>2. Total(D) = SumOver(f, D)
      BY DEF Total
    <2> HIDE DEF f
    <2> QED BY <1>3, <2>1, <2>2, SumType
  <1> QED BY <1>1, <1>2, <1>3

\* Where a quote of the new books comes from.
LEMMA QuotesAfter ==
    ASSUME ReqOK, NEW o \in Orders, NEW c, CoreOK(c), NEW v \in Venues,
           NEW k \in OrderCore(c, o)[v].resting
    PROVE  LET r == req[o]
               q == Planned(c, r, v)
           IN \/ /\ v \in RestsAt(c, o)
                 /\ k = Rested(c[v], o, r, Remainder(o, DoneBy(c, o)))
              \/ \E m \in c[v].resting :
                   /\ k.order = m.order /\ k.side = m.side /\ k.price = m.price /\ k.at = m.at
                   /\ v \in Visited(c, r) => (m \in Makers(c[v], r, q) => Given(c[v], r, q)[m] # m.left)
  <1> DEFINE r == req[o]
             q == Planned(c, r, v)
             M == Makers(c[v], r, q)
             G == Given(c[v], r, q)
             n == OrderCore(c, o)[v]
             V == Visited(c, r)
  <1>1. /\ v \in V => n.resting = Kept(c[v], r, q)
        /\ v \in RestsAt(c, o) =>
             n.resting = c[v].resting \cup {Rested(c[v], o, r, Remainder(o, DoneBy(c, o)))} /\ v \notin V
        /\ v \notin V /\ v \notin RestsAt(c, o) => n = c[v]
    BY VenueAfter
  <1>2. QuotesOK(c[v].resting) /\ r.side \in Sides /\ q \in Nat
    <2>1. AllQuotesOK(c) /\ r.side \in Sides /\ r.qty \in Nat
      BY TermsOK DEF CoreOK, AllQuotesOK
    <2> QED BY <2>1, PlanProps DEF AllQuotesOK
  <1>3. CASE v \in V
    <2>1. k \in Kept(c[v], r, q)
      BY <1>1, <1>3
    <2>2. PICK m \in c[v].resting : k = [m EXCEPT !.left = k.left]
      BY <1>2, <2>1, KeptProps
    <2>3. m \in Quote
      BY <1>2 DEF QuotesOK
    <2>4. k.order = m.order /\ k.side = m.side /\ k.price = m.price /\ k.at = m.at
      BY <2>2, <2>3 DEF Quote
    <2>5. ~(m \in M /\ G[m] = m.left)
      BY <1>2, <2>1, <2>4, KeptProps
    <2> QED BY <2>4, <2>5
  <1>4. CASE v \notin V
    <2> HIDE DEF V, n
    <2>1. k \in c[v].resting \/ (v \in RestsAt(c, o) /\ k = Rested(c[v], o, r, Remainder(o, DoneBy(c, o))))
      BY <1>1, <1>4 DEF n
    <2> QED BY <1>4, <2>1 DEF V
  <1> QED BY <1>3, <1>4

\* The books stay in order.
LEMMA OrderCoreTypes ==
    ASSUME ReqOK, NEW o \in Orders, NEW c, CoreOK(c), \A v \in Venues : ~Holds(c[v], o),
           NEW v \in Venues
    PROVE  /\ QuotesOK(OrderCore(c, o)[v].resting)
           /\ OrderCore(c, o)[v].arrival \in Nat /\ c[v].arrival <= OrderCore(c, o)[v].arrival
           /\ OrderCore(c, o)[v].seq \in Nat /\ c[v].seq <= OrderCore(c, o)[v].seq
           /\ v \in RestsAt(c, o) => OrderCore(c, o)[v].arrival = c[v].arrival + 1
  <1> DEFINE r == req[o]
             q == Planned(c, r, v)
             M == Makers(c[v], r, q)
             n == OrderCore(c, o)[v]
             V == Visited(c, r)
             left == Remainder(o, DoneBy(c, o))
  <1>1. /\ v \in V => /\ n.resting = Kept(c[v], r, q)
                      /\ n.arrival = c[v].arrival + 1 /\ n.seq = c[v].seq + Cardinality(M)
        /\ v \in RestsAt(c, o) =>
             /\ v \notin V /\ left > 0
             /\ n.resting = c[v].resting \cup {Rested(c[v], o, r, left)}
             /\ n.arrival = c[v].arrival + 1 /\ n.seq = c[v].seq
        /\ v \notin V /\ v \notin RestsAt(c, o) => n = c[v]
    BY VenueAfter
  <1>2. /\ QuotesOK(c[v].resting) /\ c[v].arrival \in Nat /\ c[v].seq \in Nat
        /\ r.side \in Sides /\ r.price \in Nat \ {0} /\ q \in Nat /\ left \in Nat
        /\ \A m \in c[v].resting : m.at <= c[v].arrival
    <2>1. /\ AllQuotesOK(c) /\ r.side \in Sides /\ r.price \in Nat \ {0} /\ r.qty \in Nat
          /\ \A w \in Venues : c[w].seq \in Nat
      BY TermsOK DEF CoreOK, AllQuotesOK
    <2>2. q \in Nat
      BY <2>1, PlanProps
    <2>3. left \in Nat
      BY <2>1, DoneProps DEF DoneOK
    <2> QED BY <2>1, <2>2, <2>3 DEF CoreOK, Placed
  <1>3. CASE v \in V
    <2>1. QuotesOK(Kept(c[v], r, q)) /\ Cardinality(M) \in Nat
      BY <1>2, KeptProps, GivenProps, FS_CardinalityType
    <2> QED BY <1>1, <1>2, <1>3, <2>1
  <1>4. CASE v \in RestsAt(c, o)
    <2> DEFINE k == Rested(c[v], o, r, left)
               R == c[v].resting
    <2>1. /\ k \in Quote /\ k.order = o /\ k.at = c[v].arrival + 1
      BY <1>1, <1>2, <1>4 DEF Rested, Quote
    <2>2. \A m \in R : m \in Quote /\ m.order # o /\ m.at # k.at
      <3> SUFFICES ASSUME NEW m \in R PROVE m \in Quote /\ m.order # o /\ m.at # k.at
        OBVIOUS
      <3>1. m \in Quote /\ m.at \in Nat /\ m.at <= c[v].arrival
        BY <1>2 DEF QuotesOK, Quote
      <3>2. m.order # o
        BY DEF Holds
      <3>3. m.at # k.at
        BY <1>2, <2>1, <3>1
      <3> QED BY <3>1, <3>2, <3>3
    <2> HIDE DEF k
    <2>3. IsFiniteSet(R \cup {k})
      BY <1>2, FS_AddElement DEF QuotesOK
    <2>4. QuotesOK(R \cup {k})
      <3>1. R \cup {k} \in SUBSET Quote
        BY <2>1, <2>2
      <3>2. \A x, y \in R : x.order = y.order \/ x.at = y.at => x = y
        BY <1>2 DEF QuotesOK
      <3>3. \A x, y \in R \cup {k} : x.order = y.order \/ x.at = y.at => x = y
        BY <2>1, <2>2, <3>2
      <3> QED BY <2>3, <3>1, <3>3 DEF QuotesOK
    <2>5. n.resting = R \cup {k} /\ n.arrival = c[v].arrival + 1 /\ n.seq = c[v].seq
      BY <1>1, <1>4 DEF k
    <2> HIDE DEF n
    <2>6. /\ QuotesOK(n.resting) /\ n.arrival \in Nat /\ c[v].arrival <= n.arrival
          /\ n.seq \in Nat /\ c[v].seq <= n.seq
      BY <1>2, <2>4, <2>5
    <2> QED BY <2>5, <2>6 DEF n
  <1>5. CASE v \notin V /\ v \notin RestsAt(c, o)
    BY <1>1, <1>2, <1>5
  <1> QED BY <1>3, <1>4, <1>5

\* No two resting orders could trade with each other.
LEMMA OrderCoreUncrossed ==
    ASSUME ReqOK, NEW o \in Orders, NEW c, CoreOK(c), \A v \in Venues : ~Holds(c[v], o)
    PROVE  Uncrossed(OrderCore(c, o)) /\ Placed(OrderCore(c, o))
  <1> DEFINE r == req[o]
             n == OrderCore(c, o)
             left == Remainder(o, DoneBy(c, o))
             Old(v, k) == \E m \in c[v].resting :
                            /\ k.order = m.order /\ k.side = m.side /\ k.price = m.price /\ k.at = m.at
                            /\ v \in Visited(c, r) =>
                                 (m \in Makers(c[v], r, Planned(c, r, v))
                                   => Given(c[v], r, Planned(c, r, v))[m] # m.left)
             New(v, k) == /\ v \in RestsAt(c, o)
                          /\ k = Rested(c[v], o, r, left)
  <1>1. \A v \in Venues : \A k \in n[v].resting : New(v, k) \/ Old(v, k)
    BY QuotesAfter
  <1>2. r.side \in Sides /\ r.price \in Nat /\ AllQuotesOK(c) /\ DoneOK(c, o)
    <2>1. AllQuotesOK(c) /\ \A v \in Venues : c[v].seq \in Nat
      BY DEF CoreOK, AllQuotesOK
    <2> QED BY <2>1, TermsOK, DoneProps
  <1>3. ASSUME NEW v \in Venues, NEW k, New(v, k)
        PROVE  /\ v = r.venue /\ MayRest(r) /\ left > 0
               /\ k.order = o /\ k.side = r.side /\ k.price = r.price /\ k.at = c[v].arrival + 1
    <2>1. k.order = o /\ k.side = r.side /\ k.price = r.price /\ k.at = c[v].arrival + 1
      BY <1>3 DEF Rested
    <2>2. v = r.venue /\ MayRest(r) /\ left > 0
      BY <1>3 DEF RestsAt
    <2> QED BY <2>1, <2>2
  <1>4. Placed(n)
    <2> SUFFICES ASSUME NEW v \in Venues, NEW k \in n[v].resting
                 PROVE  /\ k.at <= n[v].arrival
                        /\ req[k.order].venue = v /\ MayRest(req[k.order])
                        /\ k.side = req[k.order].side /\ k.price = req[k.order].price
      BY DEF Placed
    <2>1. /\ c[v].arrival \in Nat /\ n[v].arrival \in Nat /\ c[v].arrival <= n[v].arrival
          /\ v \in RestsAt(c, o) => n[v].arrival = c[v].arrival + 1
      BY OrderCoreTypes DEF CoreOK
    <2>2. CASE New(v, k)
      <3>1. n[v].arrival = c[v].arrival + 1
        BY <2>1, <2>2
      <3> HIDE DEF New, n
      <3> QED BY <1>3, <2>1, <2>2, <3>1
    <2>3. CASE Old(v, k)
      <3>1. PICK m \in c[v].resting :
              k.order = m.order /\ k.side = m.side /\ k.price = m.price /\ k.at = m.at
        BY <2>3
      <3>2. /\ m.at <= c[v].arrival /\ m.at \in Nat
            /\ req[m.order].venue = v /\ MayRest(req[m.order])
            /\ m.side = req[m.order].side /\ m.price = req[m.order].price
        BY DEF CoreOK, Placed, QuotesOK, Quote
      <3> HIDE DEF n
      <3> QED BY <2>1, <3>1, <3>2
    <2> QED BY <1>1, <2>2, <2>3
  \* What is left on the other side does not accept the price of a newcomer.
  <1>5. ASSUME NEW v \in Venues, NEW k, New(v, k), NEW w \in Venues, NEW j \in n[w].resting,
               j.side # r.side
        PROVE  /\ j.price \in Nat
               /\ r.side = "BUY" => r.price < j.price
               /\ r.side = "SELL" => j.price < r.price
    <2>1. ~New(w, j)
      <3>1. ASSUME New(w, j) PROVE FALSE
        BY <1>3, <1>5, <3>1
      <3> QED BY <3>1
    <2>2. PICK m \in c[w].resting :
            /\ j.order = m.order /\ j.side = m.side /\ j.price = m.price /\ j.at = m.at
            /\ w \in Visited(c, r) =>
                 (m \in Makers(c[w], r, Planned(c, r, w)) => Given(c[w], r, Planned(c, r, w))[m] # m.left)
      BY <1>1, <2>1
    <2>3. left > 0 /\ MayRest(r)
      BY <1>3, <1>5
    <2>4. m \in Quote
      BY <1>2 DEF AllQuotesOK, QuotesOK
    <2>5. m \notin Crossing(c[w], r)
      <3> SUFFICES ASSUME m \in Crossing(c[w], r) PROVE FALSE
        OBVIOUS
      <3>1. w \in Visited(c, r) /\ Given(c[w], r, Planned(c, r, w))[m] = m.left
        BY <1>2, <2>3 DEF DoneOK
      <3>2. m \in Makers(c[w], r, Planned(c, r, w))
        BY <2>4, <3>1 DEF Makers, Quote
      <3> QED BY <2>2, <3>1, <3>2
    <2>6. ~Accepts(r, m.price)
      BY <1>5, <2>2, <2>5 DEF Crossing
    <2>7. Bound(r) = r.price
      BY <2>3 DEF Bound, MayRest
    <2>8. m.price \in Nat
      BY <2>4 DEF Quote
    <2>9. /\ r.side = "BUY" => ~(m.price <= r.price)
          /\ r.side = "SELL" => ~(m.price >= r.price)
      BY <2>6, <2>7 DEF Accepts
    <2> HIDE DEF n
    <2> QED BY <1>2, <2>2, <2>8, <2>9
  <1>6. Uncrossed(n)
    <2> SUFFICES ASSUME NEW v \in Venues, NEW w \in Venues,
                        NEW m \in n[v].resting, NEW k \in n[w].resting,
                        m.side = "BUY", k.side = "SELL"
                 PROVE  m.price < k.price
      BY DEF Uncrossed
    <2>1. CASE New(v, m)
      <3>1. m.side = r.side /\ m.price = r.price
        BY <1>3, <2>1
      <3>2. k.side # r.side /\ r.side = "BUY"
        BY <3>1
      <3>3. r.price < k.price
        BY <1>5, <2>1, <3>2
      <3> QED BY <3>1, <3>3
    <2>2. CASE New(w, k)
      <3>1. k.side = r.side /\ k.price = r.price
        BY <1>3, <2>2
      <3>2. m.side # r.side /\ r.side = "SELL"
        BY <3>1
      <3>3. m.price < r.price
        BY <1>5, <2>2, <3>2
      <3> QED BY <3>1, <3>3
    <2>3. CASE Old(v, m) /\ Old(w, k)
      <3>1. PICK i \in c[v].resting : m.side = i.side /\ m.price = i.price
        BY <2>3
      <3>2. PICK j \in c[w].resting : k.side = j.side /\ k.price = j.price
        BY <2>3
      <3>3. i.price < j.price
        BY <3>1, <3>2 DEF CoreOK, Uncrossed
      <3> QED BY <3>1, <3>2, <3>3
    <2> QED BY <1>1, <2>1, <2>2, <2>3
  <1> QED BY <1>4, <1>6

\* The quantities of the orders that were there: what one gives is executed.
LEMMA OthersLeft ==
    ASSUME ReqOK, NEW o \in Orders, NEW c, CoreOK(c), \A v \in Venues : ~Holds(c[v], o),
           CoreOK(OrderCore(c, o)), DoneOK(c, o), NEW p \in Orders, p # o
    PROVE  /\ \A v \in Venues : Holds(OrderCore(c, o)[v], p) => Holds(c[v], p)
           /\ Left(OrderCore(c, o), p) + Total(Part(DoneBy(c, o), p)) = Left(c, p)
  <1> DEFINE r == req[o]
             n == OrderCore(c, o)
             V == Visited(c, r)
             D == DoneBy(c, o)
             q(v) == Planned(c, r, v)
             M(v) == Makers(c[v], r, q(v))
             G(v) == Given(c[v], r, q(v))
  <1>1. \A v \in Venues : /\ QuotesOK(c[v].resting) /\ q(v) \in Nat /\ r.side \in Sides
                           /\ M(v) \in SUBSET c[v].resting
                           /\ \A m \in M(v) : G(v)[m] \in Nat /\ G(v)[m] <= m.left
    <2> SUFFICES ASSUME NEW v \in Venues
                 PROVE  /\ QuotesOK(c[v].resting) /\ q(v) \in Nat /\ r.side \in Sides
                        /\ M(v) \in SUBSET c[v].resting
                        /\ \A m \in M(v) : G(v)[m] \in Nat /\ G(v)[m] <= m.left
      OBVIOUS
    <2>1. AllQuotesOK(c) /\ r.side \in Sides /\ r.qty \in Nat
      BY TermsOK DEF CoreOK, AllQuotesOK
    <2>2. QuotesOK(c[v].resting) /\ q(v) \in Nat
      BY <2>1, PlanProps DEF AllQuotesOK
    <2> QED BY <2>1, <2>2, GivenProps, QueueLines
  <1>2. \A v \in Venues : \A k \in n[v].resting :
          k.order # o => \E m \in c[v].resting : k.order = m.order
    <2> SUFFICES ASSUME NEW v \in Venues, NEW k \in n[v].resting, k.order # o
                 PROVE  \E m \in c[v].resting : k.order = m.order
      OBVIOUS
    <2>1. k # Rested(c[v], o, r, Remainder(o, D))
      BY DEF Rested
    <2> QED BY <2>1, QuotesAfter
  <1>3. \A v \in Venues : Holds(n[v], p) => Holds(c[v], p)
    BY <1>2 DEF Holds
  <1>4. \A x \in Part(D, p) : /\ x \in D /\ x.maker = p /\ x.venue \in V
                               /\ \E m \in M(x.venue) : p = m.order /\ x.qty = G(x.venue)[m]
    BY DEF DoneOK, Part
  <1>5. V \in SUBSET Venues
    BY DEF Visited
  <1>6. CASE \A v \in Venues : ~Holds(c[v], p)
    <2>1. Part(D, p) = {}
      <3> SUFFICES ASSUME NEW x \in Part(D, p) PROVE FALSE
        OBVIOUS
      <3>1. x.venue \in Venues /\ \E m \in c[x.venue].resting : p = m.order
        BY <1>1, <1>4, <1>5
      <3> QED BY <1>6, <3>1 DEF Holds
    <2>2. Left(c, p) = 0 /\ Left(n, p) = 0
      BY <1>3, <1>6, LeftProps
    <2> QED BY <1>3, <2>1, <2>2, TotalProps
  <1>7. CASE \E v \in Venues : Holds(c[v], p)
    <2>1. PICK v \in Venues : \E m \in c[v].resting : m.order = p
      BY <1>7 DEF Holds
    <2>2. PICK m \in c[v].resting : m.order = p
      BY <2>1
    <2>3. Left(c, p) = m.left /\ m.left \in Nat \ {0}
      BY <1>1, <2>2, LeftProps DEF QuotesOK, Quote
    \* Only this quote can have given anything for it.
    <2>4. \A x \in Part(D, p) : x.venue = v /\ m \in M(v) /\ v \in V /\ x.qty = G(v)[m]
      <3> SUFFICES ASSUME NEW x \in Part(D, p)
                   PROVE  x.venue = v /\ m \in M(v) /\ v \in V /\ x.qty = G(v)[m]
        OBVIOUS
      <3>1. x.venue \in V /\ x.venue \in Venues
        BY <1>4, <1>5
      <3>2. PICK i \in M(x.venue) : p = i.order /\ x.qty = G(x.venue)[i]
        BY <1>4
      <3>3. i \in c[x.venue].resting
        BY <1>1, <3>1
      <3>4. x.venue = v /\ i = m
        BY <2>2, <3>1, <3>2, <3>3, HeldOnce
      <3> QED BY <3>1, <3>2, <3>4
    <2>5. \A w \in Venues : \A k \in n[w].resting : k.order = p => w = v
      <3> SUFFICES ASSUME NEW w \in Venues, NEW k \in n[w].resting, k.order = p PROVE w = v
        OBVIOUS
      <3>1. PICK i \in c[w].resting : i.order = p
        BY <1>2
      <3> QED BY <2>2, <3>1, HeldOnce
    <2>6. CASE v \in V /\ m \in M(v)
      <3>1. n[v].resting = Kept(c[v], r, q(v))
        BY <2>6, VenueAfter
      <3>2. PICK x \in D : x.venue = v /\ x.maker = m.order /\ x.qty = G(v)[m]
        BY <2>6 DEF DoneOK
      <3>3. Part(D, p) = {x}
        <4>1. x \in Part(D, p)
          BY <2>2, <3>2 DEF Part
        <4>2. ASSUME NEW y \in Part(D, p) PROVE y = x
          <5>1. y \in D /\ y.venue = x.venue /\ y.maker = x.maker
            BY <1>4, <2>2, <2>4, <3>2
          <5> QED BY <5>1 DEF DoneOK
        <4> QED BY <4>1, <4>2
      <3>4. G(v)[m] \in Nat /\ G(v)[m] <= m.left
        BY <1>1, <2>6
      <3>5. Total(Part(D, p)) = G(v)[m]
        BY <3>2, <3>3, <3>4, TotalProps
      <3>6. CASE G(v)[m] < m.left
        <4>1. PICK k \in n[v].resting : k.order = m.order /\ k.left = m.left - G(v)[m]
          <5>1. \E k \in Kept(c[v], r, q(v)) : k.order = m.order /\ k.left = m.left - G(v)[m]
            BY <1>1, <2>6, <3>6, KeptProps
          <5> QED BY <3>1, <5>1
        <4>2. Left(n, p) = m.left - G(v)[m]
          BY <2>2, <4>1, LeftProps
        <4> QED BY <1>3, <2>3, <3>4, <3>5, <4>2
      <3>7. CASE G(v)[m] = m.left
        <4>1. \A k \in n[v].resting : k.order # p
          <5>1. \A k \in Kept(c[v], r, q(v)) : k.order # m.order
            BY <1>1, <2>6, <3>7, KeptProps
          <5> QED BY <2>2, <3>1, <5>1
        <4>2. \A w \in Venues : ~Holds(n[w], p)
          BY <2>5, <4>1 DEF Holds
        <4>3. Left(n, p) = 0
          BY <4>2, LeftProps
        <4> QED BY <1>3, <2>3, <3>5, <3>7, <4>3
      <3> QED BY <2>3, <3>4, <3>6, <3>7
    <2>7. CASE ~(v \in V /\ m \in M(v))
      <3>1. Part(D, p) = {}
        BY <2>4, <2>7
      <3>2. m \in n[v].resting
        <4>1. CASE v \in V
          <5>1. n[v].resting = Kept(c[v], r, q(v))
            BY <4>1, VenueAfter
          <5>2. m \notin Makers(c[v], r, q(v))
            BY <2>7, <4>1
          <5>3. QuotesOK(c[v].resting) /\ r.side \in Sides /\ q(v) \in Nat
            BY <1>1
          <5>4. m \in Kept(c[v], r, q(v))
            BY <5>2, <5>3, KeptProps
          <5> QED BY <5>1, <5>4
        <4>2. CASE v \in RestsAt(c, o)
          BY <4>2, VenueAfter
        <4>3. CASE v \notin V /\ v \notin RestsAt(c, o)
          BY <4>3, VenueAfter
        <4> QED BY <4>1, <4>2, <4>3
      <3>3. Left(n, p) = m.left
        BY <2>2, <3>2, LeftProps
      <3> QED BY <1>3, <2>3, <3>1, <3>3, TotalProps
    <2> QED BY <2>6, <2>7
  <1> QED BY <1>6, <1>7

\* An order that no book holds leaves the books in order.
LEMMA OrderCoreProps ==
    ASSUME ReqOK, NEW o \in Orders, NEW c, CoreOK(c), \A v \in Venues : ~Holds(c[v], o)
    PROVE  OrderOK(c, o)
  <1> DEFINE r == req[o]
             n == OrderCore(c, o)
             D == DoneBy(c, o)
             V == Visited(c, r)
  <1>1. DoneOK(c, o) /\ AllQuotesOK(c) /\ r.side \in Sides /\ r.qty \in Nat
    BY DoneProps, TermsOK DEF CoreOK, AllQuotesOK
  <1>2. \A v \in Venues : /\ QuotesOK(n[v].resting)
                           /\ n[v].arrival \in Nat /\ n[v].seq \in Nat /\ c[v].seq <= n[v].seq
    BY OrderCoreTypes
  <1>3. CoreOK(n)
    BY <1>2, OrderCoreUncrossed DEF CoreOK
  <1> HIDE DEF n, D
  <1>4. \A p \in Orders \ {o} : \A v \in Venues : Holds(n[v], p) => Holds(c[v], p)
    BY <1>1, <1>3, OthersLeft DEF n
  <1>10. \A p \in Orders \ {o} : Left(n, p) + Total(Part(D, p)) = Left(c, p)
    BY <1>1, <1>3, OthersLeft, Zenon DEF n, D
  <1> USE DEF n, D
  <1>5. \A x \in D : /\ x.venue \in Venues /\ x.taker = o
                     /\ x.seq \in c[x.venue].seq + 1 .. n[x.venue].seq
                     /\ Holds(c[x.venue], x.maker) /\ x.maker \in Orders
                     /\ x.qty \in Nat
    <2> SUFFICES ASSUME NEW x \in D
                 PROVE  /\ x.venue \in Venues /\ x.taker = o
                        /\ x.seq \in c[x.venue].seq + 1 .. n[x.venue].seq
                        /\ Holds(c[x.venue], x.maker) /\ x.maker \in Orders
                        /\ x.qty \in Nat
      OBVIOUS
    <2> DEFINE v == x.venue
               M == Makers(c[v], r, Planned(c, r, v))
               G == Given(c[v], r, Planned(c, r, v))
    <2>1. v \in V /\ v \in Venues /\ x.taker = o /\ x.seq \in c[v].seq + 1 .. c[v].seq + Cardinality(M)
      BY <1>1 DEF DoneOK, Visited
    <2>2. PICK m \in M : x.maker = m.order /\ x.qty = G[m]
      BY <1>1 DEF DoneOK
    <2>3. QuotesOK(c[v].resting) /\ Planned(c, r, v) \in Nat
      BY <1>1, <2>1, PlanProps DEF AllQuotesOK
    <2>4. m \in c[v].resting /\ G[m] \in Nat
      BY <1>1, <2>3, GivenProps, QueueLines
    <2>5. m.order \in Orders
      BY <2>3, <2>4 DEF QuotesOK, Quote
    <2>6. n[v].seq = c[v].seq + Cardinality(M)
      BY <2>1, VenueAfter
    <2> HIDE DEF M, G, n
    <2> QED BY <2>1, <2>2, <2>4, <2>5, <2>6 DEF Holds
  <1>6. Total(D) \in Nat /\ Remainder(o, D) \in Nat /\ Remainder(o, D) = r.qty - Total(D)
    <2>1. Total(D) \in Nat
      BY <1>1, <1>5, TotalProps DEF DoneOK
    <2> QED BY <1>1, <2>1 DEF DoneOK, Remainder
  <1>7. Left(n, o) + Total(D) <= r.qty
    <2>1. CASE \E v \in Venues : v \in RestsAt(c, o)
      <3>1. PICK v \in Venues : v \in RestsAt(c, o)
        BY <2>1
      <3> DEFINE k == Rested(c[v], o, r, Remainder(o, D))
      <3>2. k \in n[v].resting
        BY <3>1, VenueAfter
      <3>3. k.order = o /\ k.left = Remainder(o, D)
        BY DEF Rested
      <3>4. Left(n, o) = Remainder(o, D)
        BY <1>3, <3>2, <3>3, LeftProps
      <3> QED BY <1>1, <1>6, <3>4
    <2>2. CASE ~\E v \in Venues : v \in RestsAt(c, o)
      <3>1. \A v \in Venues : ~Holds(n[v], o)
        <4> SUFFICES ASSUME NEW v \in Venues, NEW k \in n[v].resting, k.order = o PROVE FALSE
          BY DEF Holds
        <4>1. PICK m \in c[v].resting : k.order = m.order
          BY <2>2, QuotesAfter
        <4> QED BY <4>1 DEF Holds
      <3>2. Left(n, o) = 0
        BY <1>3, <3>1, LeftProps
      <3> QED BY <1>1, <1>6, <3>2
    <2> QED BY <2>1, <2>2
  <1>8. \A v \in Venues, p \in Orders : Holds(n[v], p) => p = o \/ Holds(c[v], p)
    BY <1>4
  <1>9. \A v \in Venues : c[v].seq <= n[v].seq
    BY <1>2
  <1> HIDE DEF n, D
  <1>11. OrderOK(c, o) <=>
           /\ CoreOK(n)
           /\ \A v \in Venues : c[v].seq <= n[v].seq
           /\ \A x \in D : /\ x.venue \in Venues /\ x.taker = o
                           /\ x.seq \in c[x.venue].seq + 1 .. n[x.venue].seq
                           /\ Holds(c[x.venue], x.maker) /\ x.maker \in Orders
                           /\ x.qty \in Nat
           /\ \A v \in Venues, p \in Orders : Holds(n[v], p) => p = o \/ Holds(c[v], p)
           /\ \A p \in Orders \ {o} : Left(n, p) + Total(Part(D, p)) = Left(c, p)
           /\ Left(n, o) + Total(D) <= req[o].qty
    BY Zenon DEF OrderOK, n, D
  <1> QED BY <1>3, <1>5, <1>7, <1>8, <1>9, <1>10, <1>11

-----------------------------------------------------------------------------
(* Cancels, and the shape of books. *)

SavedBook == [resting : SUBSET Quote, arrival : Nat, seq : Nat]
LiveBook == [resting : SUBSET Quote, arrival : Nat, seq : Nat, recent : Seq(Orders)]
Cores == [Venues -> SavedBook]
Books == [Venues -> LiveBook]

\* A saved book without an order.
LEMMA SavedWithout ==
    ASSUME NEW b \in SavedBook, NEW o
    PROVE  /\ b = [resting |-> b.resting, arrival |-> b.arrival, seq |-> b.seq]
           /\ b.resting \in SUBSET Quote /\ b.arrival \in Nat /\ b.seq \in Nat
           /\ Saved(b) = b
           /\ Without(b, o).resting = {m \in b.resting : m.order # o}
           /\ Without(b, o).arrival = b.arrival /\ Without(b, o).seq = b.seq
           /\ Without(b, o) \in SavedBook
  <1>1. /\ b = [resting |-> b.resting, arrival |-> b.arrival, seq |-> b.seq]
        /\ b.resting \in SUBSET Quote /\ b.arrival \in Nat /\ b.seq \in Nat
    BY DEF SavedBook
  <1>2. Saved(b) = b
    BY <1>1 DEF Saved
  <1> DEFINE R == {m \in b.resting : m.order # o}
  <1>3. R \in SUBSET Quote
    BY <1>1
  <1>4. Without(b, o) = [b EXCEPT !.resting = R]
    BY DEF Without
  <1> HIDE DEF R
  <1>5. /\ Without(b, o).resting = R
        /\ Without(b, o).arrival = b.arrival /\ Without(b, o).seq = b.seq
        /\ Without(b, o) \in SavedBook
    BY <1>3, <1>4 DEF SavedBook
  <1> QED BY <1>1, <1>2, <1>5 DEF R

\* A live book without an order, and what is saved of it.
LEMMA LiveWithout ==
    ASSUME NEW b \in LiveBook, NEW o
    PROVE  /\ b.recent \in Seq(Orders)
           /\ Saved(b) \in SavedBook
           /\ Saved(b).resting = b.resting /\ Saved(b).arrival = b.arrival /\ Saved(b).seq = b.seq
           /\ Without(b, o) \in LiveBook
           /\ Without(b, o).recent = b.recent
           /\ Saved(Without(b, o)) = Without(Saved(b), o)
  <1>1. /\ b.resting \in SUBSET Quote /\ b.arrival \in Nat /\ b.seq \in Nat /\ b.recent \in Seq(Orders)
    BY DEF LiveBook
  <1>2. Saved(b) = [resting |-> b.resting, arrival |-> b.arrival, seq |-> b.seq]
    BY DEF Saved
  <1>3. Saved(b) \in SavedBook
    BY <1>1, <1>2 DEF SavedBook
  <1>4. Saved(b).resting = b.resting /\ Saved(b).arrival = b.arrival /\ Saved(b).seq = b.seq
    BY <1>2
  <1> DEFINE R == {m \in b.resting : m.order # o}
             w == Without(b, o)
  <1>5. R \in SUBSET Quote
    BY <1>1
  <1>6. w = [b EXCEPT !.resting = R]
    BY DEF Without
  <1> HIDE DEF R, w
  <1>7. /\ w.resting = R /\ w.arrival = b.arrival /\ w.seq = b.seq /\ w.recent = b.recent
        /\ w \in LiveBook
    BY <1>5, <1>6 DEF LiveBook
  <1>8. Saved(w) = [resting |-> R, arrival |-> b.arrival, seq |-> b.seq]
    BY <1>7 DEF Saved
  <1>9. Without(Saved(b), o) = [resting |-> R, arrival |-> b.arrival, seq |-> b.seq]
    <2>1. Without(Saved(b), o) \in SavedBook
      BY <1>3, SavedWithout
    <2>2. /\ Without(Saved(b), o).resting = {m \in Saved(b).resting : m.order # o}
          /\ Without(Saved(b), o).arrival = Saved(b).arrival /\ Without(Saved(b), o).seq = Saved(b).seq
      BY <1>3, SavedWithout
    <2>3. Without(Saved(b), o) = [resting |-> Without(Saved(b), o).resting,
                                  arrival |-> Without(Saved(b), o).arrival, seq |-> Without(Saved(b), o).seq]
      BY <2>1 DEF SavedBook
    <2>4. Without(Saved(b), o).resting = R
      BY <1>4, <2>2 DEF R
    <2> QED BY <1>4, <2>2, <2>3, <2>4
  <1> QED BY <1>1, <1>3, <1>4, <1>7, <1>8, <1>9 DEF w

\* What a snapshot keeps of books.
LEMMA CoreShape ==
    ASSUME NEW bs \in Books
    PROVE  /\ Core(bs) \in Cores
           /\ \A v \in Venues : /\ bs[v] \in LiveBook /\ bs[v].recent \in Seq(Orders)
                                /\ Core(bs)[v] = Saved(bs[v])
                                /\ Core(bs)[v].resting = bs[v].resting
                                /\ Core(bs)[v].arrival = bs[v].arrival
                                /\ Core(bs)[v].seq = bs[v].seq
                                /\ \A o : Holds(Core(bs)[v], o) <=> Holds(bs[v], o)
  <1>1. \A v \in Venues : bs[v] \in LiveBook
    BY DEF Books
  <1>2. \A v \in Venues : Core(bs)[v] = Saved(bs[v])
    BY DEF Core
  <1>3. \A v \in Venues : /\ Saved(bs[v]) \in SavedBook /\ bs[v].recent \in Seq(Orders)
                           /\ Saved(bs[v]).resting = bs[v].resting
                           /\ Saved(bs[v]).arrival = bs[v].arrival
                           /\ Saved(bs[v]).seq = bs[v].seq
    BY <1>1, LiveWithout
  <1>4. Core(bs) \in Cores
    BY <1>3 DEF Core, Cores
  <1>5. \A v \in Venues : \A o : Holds(Core(bs)[v], o) <=> Holds(bs[v], o)
    BY <1>2, <1>3 DEF Holds
  <1> QED BY <1>1, <1>2, <1>3, <1>4, <1>5

\* Books are saved as they are, and loaded as they were saved.
LEMMA SavedShape ==
    ASSUME NEW c \in Cores
    PROVE  Core(c) = c /\ Core(Recovered(c)) = c
  <1>1. \A v \in Venues : c[v] \in SavedBook
    BY DEF Cores
  <1>2. \A v \in Venues : Saved(c[v]) = c[v]
    BY <1>1, SavedWithout
  <1>3. Core(c) = c
    BY <1>2 DEF Core, Cores
  <1>4. \A v \in Venues : Saved(Loaded(c[v])) = Saved(c[v])
    BY DEF Saved, Loaded
  <1>5. Core(Recovered(c)) = c
    BY <1>2, <1>4 DEF Core, Recovered, Cores
  <1> QED BY <1>3, <1>5

\* The venue that gives an order up is found by what rests there.
LEMMA HomeSame ==
    ASSUME NEW bs \in Books, NEW o
    PROVE  Home(Core(bs), o) = Home(bs, o)
  <1>1. {v \in Venues : Holds(Core(bs)[v], o)} = {v \in Venues : Holds(bs[v], o)}
    BY CoreShape
  <1> QED BY <1>1, Zenon DEF Home

\* A cancel does to books what it does to what is saved of them.
LEMMA WithdrawnSame ==
    ASSUME NEW bs \in Books, NEW o
    PROVE  /\ Withdrawn(bs, o) \in Books
           /\ Core(Withdrawn(bs, o)) = Withdrawn(Core(bs), o)
           /\ \A v \in Venues : Withdrawn(bs, o)[v].recent = bs[v].recent
  <1>1. \A v \in Venues : bs[v] \in LiveBook
    BY DEF Books
  <1>2. \A v \in Venues : /\ Without(bs[v], o) \in LiveBook
                           /\ Without(bs[v], o).recent = bs[v].recent
                           /\ Saved(Without(bs[v], o)) = Without(Saved(bs[v]), o)
    BY <1>1, LiveWithout
  <1> DEFINE H == Home(bs, o)
  <1>3. /\ Withdrawn(bs, o) = [v \in Venues |-> IF v \in H THEN Without(bs[v], o) ELSE bs[v]]
        /\ Withdrawn(Core(bs), o) = [v \in Venues |-> IF v \in H THEN Without(Core(bs)[v], o) ELSE Core(bs)[v]]
    BY HomeSame DEF Withdrawn
  <1> HIDE DEF H
  <1>4. Withdrawn(bs, o) \in Books
    BY <1>1, <1>2, <1>3 DEF Books
  <1>5. \A v \in Venues : Core(Withdrawn(bs, o))[v] = Withdrawn(Core(bs), o)[v]
    <2> TAKE v \in Venues
    <2>1. Core(Withdrawn(bs, o))[v] = Saved(Withdrawn(bs, o)[v]) /\ Core(bs)[v] = Saved(bs[v])
      BY DEF Core
    <2>2. CASE v \in H
      BY <1>2, <1>3, <2>1, <2>2
    <2>3. CASE v \notin H
      BY <1>3, <2>1, <2>3
    <2> QED BY <2>2, <2>3
  <1>6. Core(Withdrawn(bs, o)) = Withdrawn(Core(bs), o)
    BY <1>5 DEF Core, Withdrawn
  <1>7. \A v \in Venues : Withdrawn(bs, o)[v].recent = bs[v].recent
    BY <1>2, <1>3
  <1> QED BY <1>4, <1>6, <1>7

\* After a cancel an order is in no book, and nothing else has changed.
LEMMA WithdrawnVenue ==
    ASSUME NEW c \in Cores, CoreOK(c), NEW o, NEW v \in Venues
    PROVE  /\ Withdrawn(c, o)[v].resting = {m \in c[v].resting : m.order # o}
           /\ Withdrawn(c, o)[v].arrival = c[v].arrival
           /\ Withdrawn(c, o)[v].seq = c[v].seq
  <1> DEFINE holders == {w \in Venues : Holds(c[w], o)}
  <1>1. \A w, x \in holders : w = x
    BY DEF Holds, CoreOK, Placed
  <1>2. Home(c, o) = holders
    <2>1. holders # {} => (CHOOSE w \in holders : TRUE) \in holders
      OBVIOUS
    <2> HIDE DEF holders
    <2>2. holders # {} => {CHOOSE w \in holders : TRUE} = holders
      BY <1>1, <2>1
    <2> QED BY <2>2 DEF Home, holders
  <1>3. c[v] \in SavedBook
    BY DEF Cores
  <1>4. /\ Without(c[v], o).resting = {m \in c[v].resting : m.order # o}
        /\ Without(c[v], o).arrival = c[v].arrival /\ Without(c[v], o).seq = c[v].seq
    BY <1>3, SavedWithout
  <1>5. CASE v \in holders
    BY <1>2, <1>4, <1>5 DEF Withdrawn
  <1>6. CASE v \notin holders
    <2>1. \A m \in c[v].resting : m.order # o
      BY <1>6 DEF Holds
    <2>2. {m \in c[v].resting : m.order # o} = c[v].resting
      BY <2>1
    <2> HIDE DEF holders
    <2> QED BY <1>2, <1>6, <2>2 DEF Withdrawn
  <1> QED BY <1>5, <1>6

CancelOK(c, o) ==
    /\ CoreOK(Withdrawn(c, o))
    /\ \A v \in Venues : Withdrawn(c, o)[v].seq = c[v].seq
    /\ \A v \in Venues, p \in Orders : Holds(Withdrawn(c, o)[v], p) => p # o /\ Holds(c[v], p)
    /\ \A p \in Orders : /\ Left(c, p) \in Nat /\ Left(Withdrawn(c, o), p) \in Nat
                         /\ Left(Withdrawn(c, o), p) <= Left(c, p)

\* What rests of an order is a natural number.
LEMMA LeftType ==
    ASSUME NEW c, CoreOK(c), NEW p \in Orders
    PROVE  Left(c, p) \in Nat
  <1>1. CASE \A v \in Venues : ~Holds(c[v], p)
    BY <1>1, LeftProps
  <1>2. CASE \E v \in Venues : Holds(c[v], p)
    <2>1. PICK v \in Venues : \E m \in c[v].resting : m.order = p
      BY <1>2 DEF Holds
    <2>2. PICK m \in c[v].resting : m.order = p
      BY <2>1
    <2>3. Left(c, p) = m.left
      BY <2>2, LeftProps
    <2> QED BY <2>3 DEF CoreOK, QuotesOK, Quote
  <1> QED BY <1>1, <1>2

\* A cancel takes the order out of every book and leaves the rest as it is.
LEMMA WithdrawnProps ==
    ASSUME NEW c \in Cores, CoreOK(c), NEW o
    PROVE  Withdrawn(c, o) \in Cores /\ CancelOK(c, o)
  <1> DEFINE n == Withdrawn(c, o)
  <1>1. \A v \in Venues : /\ n[v].resting = {m \in c[v].resting : m.order # o}
                          /\ n[v].arrival = c[v].arrival /\ n[v].seq = c[v].seq
    BY WithdrawnVenue
  <1> HIDE DEF n
  <1>2. \A v \in Venues : \A m \in n[v].resting : m \in c[v].resting /\ m.order # o
    BY <1>1
  <1>3. \A v \in Venues : QuotesOK(n[v].resting)
    <2> TAKE v \in Venues
    <2>1. n[v].resting \in SUBSET c[v].resting /\ QuotesOK(c[v].resting)
      BY <1>2 DEF CoreOK
    <2>2. IsFiniteSet(n[v].resting)
      BY <2>1, FS_Subset DEF QuotesOK
    <2> QED BY <2>1, <2>2 DEF QuotesOK
  <1>4. CoreOK(n)
    <2>1. Placed(n)
      BY <1>1, <1>2 DEF CoreOK, Placed
    <2>2. Uncrossed(n)
      BY <1>2 DEF CoreOK, Uncrossed
    <2> QED BY <1>1, <1>3, <2>1, <2>2 DEF CoreOK
  <1>5. \A v \in Venues, p \in Orders : Holds(n[v], p) => p # o /\ Holds(c[v], p)
    BY <1>2 DEF Holds
  <1>6. ASSUME NEW p \in Orders
        PROVE  Left(c, p) \in Nat /\ Left(n, p) \in Nat /\ Left(n, p) <= Left(c, p)
    <2>1. Left(c, p) \in Nat /\ Left(n, p) \in Nat
      BY <1>4, LeftType
    <2>2. CASE \A v \in Venues : ~Holds(n[v], p)
      <3>1. Left(n, p) = 0
        BY <1>4, <2>2, LeftProps
      <3> QED BY <2>1, <3>1
    <2>3. CASE \E v \in Venues : Holds(n[v], p)
      <3>1. PICK v \in Venues : \E m \in n[v].resting : m.order = p
        BY <2>3 DEF Holds
      <3>2. PICK m \in n[v].resting : m.order = p
        BY <3>1
      <3>3. Left(n, p) = m.left
        BY <1>4, <3>2, LeftProps
      <3>4. Left(c, p) = m.left
        BY <1>2, <3>2, LeftProps
      <3> QED BY <2>1, <3>3, <3>4
    <2> QED BY <2>2, <2>3
  <1>7. \A p \in Orders : Left(c, p) \in Nat /\ Left(n, p) \in Nat /\ Left(n, p) <= Left(c, p)
    BY <1>6
  <1>8. \A v \in Venues : n[v].seq = c[v].seq
    BY <1>1
  <1>9. Withdrawn(c, o) \in Cores
    <2>1. \A v \in Venues : c[v] \in SavedBook /\ Without(c[v], o) \in SavedBook
      BY SavedWithout DEF Cores
    <2> QED BY <2>1 DEF Withdrawn, Cores
  <1> QED BY <1>4, <1>5, <1>7, <1>8, <1>9 DEF CancelOK, n

-----------------------------------------------------------------------------
(* The list of what an order executes. *)

\* The offers of a venue that are met.
MetAt(bs, r, v) == {x \in Offers(bs, r) : x.venue = v /\ Route(bs, r)[x] > 0}

\* A line has a first member.
LEMMA FirstInLine ==
    ASSUME NEW S, IsFiniteSet(S), S # {}, NEW first, Lines(S, first)
    PROVE  \E x \in S : \A y \in S : y # x => <<x, y>> \in first
  <1>1. Cardinality(S) \in Nat \ {0}
    BY FS_CardinalityType, FS_EmptySet
  <1> DEFINE x == InOrder(S, first)[1]
  <1>2. InOrder(S, first) \in Seq(S) /\ Len(InOrder(S, first)) = Cardinality(S)
        /\ \A k \in 1 .. Cardinality(S) : Turn(S, first)[InOrder(S, first)[k]] = k - 1
    BY InOrderProps
  <1>3. 1 \in 1 .. Cardinality(S)
    BY <1>1
  <1>4. x \in S /\ Turn(S, first)[x] = 0
    BY <1>2, <1>3
  <1> HIDE DEF x
  <1>5. ASSUME NEW y \in S, y # x
        PROVE  <<x, y>> \in first
    <2>1. Turn(S, first) \in [S -> 0 .. Cardinality(S) - 1]
          /\ (<<y, x>> \in first => Turn(S, first)[y] < Turn(S, first)[x])
      BY <1>4, TurnProps
    <2>2. <<y, x>> \notin first
      BY <1>1, <1>4, <2>1
    <2> QED BY <1>4, <1>5, <2>2 DEF Lines
  <1> QED BY <1>4, <1>5

\* The visited venues stand in a line, by the best quotes met there.
LEMMA ReachedLines ==
    ASSUME NEW bs, AllQuotesOK(bs), NEW r, r.side \in Sides, r.qty \in Nat
    PROVE  Lines(Visited(bs, r), Reached(bs, r))
  <1> DEFINE O == Offers(bs, r)
             P == Preference(bs, r)
             V == Visited(bs, r)
             R == Reached(bs, r)
             met(v) == MetAt(bs, r, v)
  <1>1. IsFiniteSet(O) /\ Lines(O, P)
    BY OffersLine
  <1>2. \A v \in V : v \in Venues /\ met(v) # {} /\ met(v) \in SUBSET O
    <2> TAKE v \in V
    <2>1. \E x \in OffersAt(bs, r, v) : Route(bs, r)[x] > 0
      BY PlanProps
    <2> QED BY <2>1 DEF OffersAt, Visited, MetAt
  <1>3. \A v, w \in Venues : <<v, w>> \in R <=> \E x \in met(v) : \A y \in met(w) : <<x, y>> \in P
    <2> TAKE v, w \in Venues
    <2> DEFINE m(u) == {x \in Offers(bs, r) : x.venue = u /\ Route(bs, r)[x] > 0}
    <2>1. R = {p \in Venues \X Venues : \E x \in m(p[1]) : \A y \in m(p[2]) : <<x, y>> \in P}
      BY DEF Reached
    <2>2. m(v) = met(v) /\ m(w) = met(w)
      BY DEF MetAt
    <2> HIDE DEF m, P, R
    <2>3. <<v, w>> \in R <=> \E x \in m(v) : \A y \in m(w) : <<x, y>> \in P
      BY <2>1
    <2> HIDE DEF met
    <2> QED BY <2>2, <2>3
  <1>4. \A v, w \in V : v # w => \A x \in met(v), y \in met(w) : x # y
    BY DEF MetAt
  <1> HIDE DEF O, P, V, R, met
  <1>5. \A v, w \in V : <<v, w>> \in R => ~(<<w, v>> \in R)
    <2> SUFFICES ASSUME NEW v \in V, NEW w \in V, <<v, w>> \in R, <<w, v>> \in R
                 PROVE  FALSE
      OBVIOUS
    <2>1. PICK x \in met(v) : \A y \in met(w) : <<x, y>> \in P
      BY <1>2, <1>3
    <2>2. PICK z \in met(w) : \A y \in met(v) : <<z, y>> \in P
      BY <1>2, <1>3
    <2>3. x \in O /\ z \in O /\ <<x, z>> \in P /\ <<z, x>> \in P
      BY <1>2, <2>1, <2>2
    <2>4. <<x, x>> \in P
      BY <1>1, <2>3 DEF Lines
    <2> QED BY <1>1, <2>3, <2>4 DEF Lines
  <1>6. \A u, v, w \in V : <<u, v>> \in R /\ <<v, w>> \in R => <<u, w>> \in R
    <2> SUFFICES ASSUME NEW u \in V, NEW v \in V, NEW w \in V, <<u, v>> \in R, <<v, w>> \in R
                 PROVE  <<u, w>> \in R
      OBVIOUS
    <2>1. PICK x \in met(u) : \A y \in met(v) : <<x, y>> \in P
      BY <1>2, <1>3
    <2>2. PICK y \in met(v) : \A z \in met(w) : <<y, z>> \in P
      BY <1>2, <1>3
    <2>3. \A z \in met(w) : <<x, z>> \in P
      <3> TAKE z \in met(w)
      <3>1. x \in O /\ y \in O /\ z \in O /\ <<x, y>> \in P /\ <<y, z>> \in P
        BY <1>2, <2>1, <2>2
      <3> QED BY <1>1, <3>1 DEF Lines
    <2> QED BY <1>2, <1>3, <2>3
  <1>7. \A v, w \in V : v # w => <<v, w>> \in R \/ <<w, v>> \in R
    <2> SUFFICES ASSUME NEW v \in V, NEW w \in V, v # w
                 PROVE  <<v, w>> \in R \/ <<w, v>> \in R
      OBVIOUS
    <2> DEFINE S == met(v) \cup met(w)
    <2>1. S \in SUBSET O /\ S # {}
      BY <1>2
    <2>2. IsFiniteSet(S) /\ Lines(S, P)
      BY <1>1, <2>1, FS_Subset, LinesPart
    <2>3. PICK x \in S : \A y \in S : y # x => <<x, y>> \in P
      <3> HIDE DEF S
      <3> QED BY <2>1, <2>2, FirstInLine
    <2>4. CASE x \in met(v)
      <3>1. \A y \in met(w) : <<x, y>> \in P
        BY <1>4, <2>3, <2>4
      <3> QED BY <1>2, <1>3, <2>4, <3>1
    <2>5. CASE x \in met(w)
      <3>1. \A y \in met(v) : <<x, y>> \in P
        BY <1>4, <2>3, <2>5
      <3> QED BY <1>2, <1>3, <2>5, <3>1
    <2> QED BY <2>3, <2>4, <2>5
  <1>8. Lines(V, R)
    BY <1>5, <1>6, <1>7 DEF Lines
  <1> QED BY <1>8 DEF V, R

\* Written down, some of the executions of an order are there once each.
ListedOK(bs, o, D) ==
    /\ Listed(bs, o, D) \in Seq(D) /\ Len(Listed(bs, o, D)) = Cardinality(D)
    /\ \A i, j \in 1 .. Len(Listed(bs, o, D)) : Listed(bs, o, D)[i] = Listed(bs, o, D)[j] => i = j
    /\ \A x \in D : \E k \in 1 .. Len(Listed(bs, o, D)) : Listed(bs, o, D)[k] = x

\* The list of what is executed has each execution once.
LEMMA ListedProps ==
    ASSUME ReqOK, NEW o \in Orders, NEW bs, AllQuotesOK(bs), \A v \in Venues : bs[v].seq \in Nat,
           NEW D \in SUBSET DoneBy(bs, o)
    PROVE  IsFiniteSet(D) /\ ListedOK(bs, o, D)
  <1> DEFINE r == req[o]
             R == Reached(bs, r)
             V == Visited(bs, r)
             first == {p \in D \X D : IF p[1].venue = p[2].venue THEN p[1].seq < p[2].seq
                                      ELSE <<p[1].venue, p[2].venue>> \in R}
  <1>1. r.side \in Sides /\ r.qty \in Nat /\ DoneOK(bs, o)
    BY TermsOK, DoneProps
  <1>2. IsFiniteSet(D)
    BY <1>1, FS_Subset DEF DoneOK
  <1>3. Lines(V, R)
    BY <1>1, ReachedLines
  <1>4. /\ \A x \in D : x.venue \in V /\ x.seq \in Int
        /\ \A x, y \in D : x.venue = y.venue /\ x.seq = y.seq => x = y
    <2>1. \A x \in D : x.venue \in V
      BY <1>1 DEF DoneOK
    <2>2. \A x \in D : x.seq \in Int
      <3> TAKE x \in D
      <3>1. x.seq \in bs[x.venue].seq + 1
                      .. bs[x.venue].seq + Cardinality(Makers(bs[x.venue], r, Planned(bs, r, x.venue)))
        BY <1>1 DEF DoneOK
      <3> QED BY <3>1
    <2>3. \A x, y \in D : x.venue = y.venue /\ x.seq = y.seq => x = y
      BY <1>1 DEF DoneOK
    <2> QED BY <2>1, <2>2, <2>3
  <1>5. /\ \A x, y \in D : x.venue = y.venue => (<<x, y>> \in first <=> x.seq < y.seq)
        /\ \A x, y \in D : x.venue # y.venue => (<<x, y>> \in first <=> <<x.venue, y.venue>> \in R)
    OBVIOUS
  <1>6. Listed(bs, o, D) = InOrder(D, first)
    BY DEF Listed
  <1> HIDE DEF first, R, V
  <1>7. Lines(D, first)
    <2>1. \A x \in D : <<x, x>> \notin first
      BY <1>4, <1>5
    <2>2. \A x, y \in D : x # y => <<x, y>> \in first \/ <<y, x>> \in first
      <3> SUFFICES ASSUME NEW x \in D, NEW y \in D, x # y
                   PROVE  <<x, y>> \in first \/ <<y, x>> \in first
        OBVIOUS
      <3>1. CASE x.venue = y.venue
        BY <1>4, <1>5, <3>1
      <3>2. CASE x.venue # y.venue
        <4>1. <<x.venue, y.venue>> \in R \/ <<y.venue, x.venue>> \in R
          BY <1>3, <1>4, <3>2 DEF Lines
        <4> QED BY <1>5, <3>2, <4>1
      <3> QED BY <3>1, <3>2
    <2>3. \A x, y, z \in D : <<x, y>> \in first /\ <<y, z>> \in first => <<x, z>> \in first
      <3> SUFFICES ASSUME NEW x \in D, NEW y \in D, NEW z \in D, <<x, y>> \in first, <<y, z>> \in first
                   PROVE  <<x, z>> \in first
        OBVIOUS
      <3>1. CASE x.venue = y.venue /\ y.venue = z.venue
        BY <1>4, <1>5, <3>1
      <3>2. CASE x.venue = y.venue /\ y.venue # z.venue
        BY <1>5, <3>2
      <3>3. CASE x.venue # y.venue /\ y.venue = z.venue
        BY <1>5, <3>3
      <3>4. CASE x.venue # y.venue /\ y.venue # z.venue
        <4>1. <<x.venue, z.venue>> \in R
          BY <1>3, <1>4, <1>5, <3>4 DEF Lines
        <4>2. x.venue # z.venue
          BY <1>3, <1>4, <4>1 DEF Lines
        <4> QED BY <1>5, <4>1, <4>2
      <3> QED BY <3>1, <3>2, <3>3, <3>4
    <2> QED BY <2>1, <2>2, <2>3 DEF Lines
  <1>12. InOrder(D, first) \in Seq(D) /\ Len(InOrder(D, first)) = Cardinality(D)
    BY <1>2, <1>7, InOrderProps
  <1>13. \A i, j \in 1 .. Cardinality(D) : InOrder(D, first)[i] = InOrder(D, first)[j] => i = j
    BY <1>2, <1>7, InOrderProps
  <1>14. \A x \in D : /\ Turn(D, first)[x] + 1 \in 1 .. Cardinality(D)
                       /\ InOrder(D, first)[Turn(D, first)[x] + 1] = x
    BY <1>2, <1>7, InOrderProps
  <1> DEFINE L == InOrder(D, first)
             N == Cardinality(D)
  <1>8. /\ L \in Seq(D) /\ Len(L) = N
        /\ \A i, j \in 1 .. N : L[i] = L[j] => i = j
        /\ \A x \in D : Turn(D, first)[x] + 1 \in 1 .. N /\ L[Turn(D, first)[x] + 1] = x
    BY <1>12, <1>13, <1>14
  <1> HIDE DEF L, N
  <1>9. \A x \in D : \E k \in 1 .. Len(L) : L[k] = x
    BY <1>8
  <1>10. Listed(bs, o, D) = L /\ Cardinality(D) = N
    BY <1>6 DEF L, N
  <1> QED BY <1>2, <1>8, <1>9, <1>10 DEF ListedOK

-----------------------------------------------------------------------------
(* What is executed in all. *)

Trades == [venue : Venues, seq : Nat, taker : Orders, maker : Orders, qty : Nat, price : Nat]

\* The executions of a list that an order takes part in, and what they amount to.
OwnIn(list, p) == {k \in DOMAIN list : p \in {list[k].taker, list[k].maker}}
ExecutedIn(list, p) == SumOver([k \in OwnIn(list, p) |-> list[k].qty], OwnIn(list, p))

\* An order's executions are trades, as many as there are makers met.
LEMMA DoneTrades ==
    ASSUME ReqOK, NEW o \in Orders, NEW bs, AllQuotesOK(bs), \A v \in Venues : bs[v].seq \in Nat
    PROVE  DoneBy(bs, o) \in SUBSET Trades
  <1> DEFINE r == req[o]
  <1>1. DoneOK(bs, o) /\ r.side \in Sides /\ r.qty \in Nat
    BY DoneProps, TermsOK
  <1> SUFFICES ASSUME NEW x \in DoneBy(bs, o) PROVE x \in Trades
    OBVIOUS
  <1> DEFINE v == x.venue
             M == Makers(bs[v], r, Planned(bs, r, v))
             G == Given(bs[v], r, Planned(bs, r, v))
  <1>2. /\ v \in Visited(bs, r) /\ v \in Venues /\ x.taker = o
        /\ x.seq \in bs[v].seq + 1 .. bs[v].seq + Cardinality(M)
    BY <1>1 DEF DoneOK, Visited
  <1>3. PICK m \in M : x.maker = m.order /\ x.price = m.price /\ x.qty = G[m]
    BY <1>1 DEF DoneOK
  <1>4. QuotesOK(bs[v].resting) /\ Planned(bs, r, v) \in Nat
    BY <1>1, <1>2, PlanProps DEF AllQuotesOK
  <1>5. m \in bs[v].resting /\ G[m] \in Nat
    BY <1>1, <1>4, GivenProps, QueueLines
  <1>6. m.order \in Orders /\ m.price \in Nat
    BY <1>4, <1>5 DEF QuotesOK, Quote
  <1>7. x.seq \in Nat
    BY <1>2
  <1>8. x = [venue |-> x.venue, seq |-> x.seq, taker |-> x.taker, maker |-> x.maker,
             qty |-> x.qty, price |-> x.price]
    <2>1. \E w \in Visited(bs, r) : \E f \in FillsAt(bs, o, w) : x = Execution(w, f)
      BY DEF DoneBy
    <2> QED BY <2>1 DEF Execution
  <1> HIDE DEF v, M, G
  <1> QED BY <1>2, <1>3, <1>5, <1>6, <1>7, <1>8 DEF Trades, v

\* The same sum, over a set of places where the members are to be found.
LEMMA SumPlaced ==
    ASSUME NEW S, IsFiniteSet(S), NEW f, NEW g, NEW m, NEW B,
           \A x \in S : m[x] \in B, \A k \in B : \E x \in S : k = m[x],
           \A x \in S : f[m[x]] = g[x] /\ g[x] \in Int,
           \A x, y \in S : m[x] = m[y] => x = y
    PROVE  IsFiniteSet(B) /\ SumOver(f, B) = SumOver(g, S)
  <1>1. B = {m[x] : x \in S}
    OBVIOUS
  <1> QED BY <1>1, SumRenamed

\* A list that gets further executions at its end.
LEMMA ExecutedMore ==
    ASSUME NEW list, list \in Seq(Trades), NEW D, D \in SUBSET Trades, IsFiniteSet(D),
           NEW more, more \in Seq(D),
           \A i, j \in 1 .. Len(more) : more[i] = more[j] => i = j,
           \A x \in D : \E k \in 1 .. Len(more) : more[k] = x,
           NEW p
    PROVE  /\ ExecutedIn(list, p) \in Nat
           /\ ExecutedIn(list \o more, p) = ExecutedIn(list, p) + Total(Part(D, p))
  <1> DEFINE n == Len(list)
             all == list \o more
             A == OwnIn(list, p)
             S == Part(D, p)
             place == [x \in D |-> CHOOSE k \in 1 .. Len(more) : more[k] = x]
             m == [x \in D |-> n + place[x]]
             B == {m[x] : x \in S}
             f == [k \in OwnIn(all, p) |-> all[k].qty]
             old == [k \in A |-> list[k].qty]
             g == [x \in S |-> x.qty]
  <1>1. /\ n \in Nat /\ Len(more) \in Nat
        /\ all \in Seq(Trades) /\ Len(all) = n + Len(more)
        /\ \A k \in 1 .. n : all[k] = list[k]
        /\ \A k \in 1 .. Len(more) : all[n + k] = more[k]
        /\ DOMAIN all = 1 .. n + Len(more) /\ DOMAIN list = 1 .. n
    <2>1. more \in Seq(Trades)
      OBVIOUS
    <2> QED BY <2>1
  <1>2. \A x \in D : place[x] \in 1 .. Len(more) /\ more[place[x]] = x
    OBVIOUS
  <1> HIDE DEF place, n, all
  <1>3. \A x \in D : m[x] \in n + 1 .. n + Len(more) /\ all[m[x]] = x
    <2> TAKE x \in D
    <2> DEFINE k == place[x]
    <2>1. m[x] = n + k
      OBVIOUS
    <2>2. k \in 1 .. Len(more) /\ more[k] = x
      BY <1>2
    <2> HIDE DEF k, m
    <2>3. all[n + k] = x
      BY <1>1, <2>2
    <2>4. n + k \in n + 1 .. n + Len(more)
      BY <1>1, <2>2
    <2> QED BY <2>1, <2>3, <2>4
  <1>4. \A x, y \in D : m[x] = m[y] => x = y
    <2> HIDE DEF m
    <2> QED BY <1>3
  <1>5. \A k \in 1 .. Len(more) : more[k] \in D /\ m[more[k]] = n + k
    <2> TAKE k \in 1 .. Len(more)
    <2>1. more[k] \in D
      OBVIOUS
    <2>2. place[more[k]] = k
      BY <1>2, <2>1
    <2> QED BY <2>1, <2>2
  <1> HIDE DEF m
  <1>6. OwnIn(all, p) = A \cup B
    <2>1. ASSUME NEW k \in OwnIn(all, p) PROVE k \in A \cup B
      <3>1. k \in 1 .. n + Len(more) /\ p \in {all[k].taker, all[k].maker}
        BY <1>1 DEF OwnIn
      <3>2. CASE k \in 1 .. n
        BY <1>1, <3>1, <3>2 DEF OwnIn
      <3>3. CASE k \notin 1 .. n
        <4> DEFINE i == k - n
        <4>1. i \in 1 .. Len(more) /\ k = n + i
          BY <1>1, <3>1, <3>3
        <4>2. more[i] \in D /\ m[more[i]] = k /\ all[k] = more[i]
          BY <1>1, <1>5, <4>1
        <4>3. more[i] \in S
          BY <3>1, <4>2 DEF Part
        <4> QED BY <4>2, <4>3
      <3> QED BY <3>2, <3>3
    <2>2. ASSUME NEW k \in A PROVE k \in OwnIn(all, p)
      <3>1. k \in 1 .. n /\ p \in {list[k].taker, list[k].maker}
        BY <1>1 DEF OwnIn
      <3>2. k \in 1 .. n + Len(more) /\ all[k] = list[k]
        BY <1>1, <3>1
      <3> QED BY <1>1, <3>1, <3>2 DEF OwnIn
    <2>3. ASSUME NEW x \in S PROVE m[x] \in OwnIn(all, p)
      <3>1. x \in D /\ p \in {x.taker, x.maker}
        BY DEF Part
      <3>2. m[x] \in 1 .. n + Len(more) /\ all[m[x]] = x
        <4>1. m[x] \in n + 1 .. n + Len(more) /\ all[m[x]] = x
          BY <1>3, <3>1
        <4> QED BY <1>1, <4>1
      <3> QED BY <1>1, <3>1, <3>2 DEF OwnIn
    <2> QED BY <2>1, <2>2, <2>3
  <1>7. A \cap B = {}
    <2> SUFFICES ASSUME NEW k \in A, k \in B PROVE FALSE
      OBVIOUS
    <2>1. k \in 1 .. n
      BY <1>1 DEF OwnIn
    <2>2. PICK x \in S : k = m[x]
      OBVIOUS
    <2>3. k \in n + 1 .. n + Len(more)
      BY <1>3, <2>2 DEF Part
    <2> QED BY <1>1, <2>1, <2>3
  <1>8. IsFiniteSet(A) /\ IsFiniteSet(S)
    <2>1. A \in SUBSET (1 .. n) /\ S \in SUBSET D
      BY <1>1 DEF OwnIn, Part
    <2>2. IsFiniteSet(1 .. n)
      BY <1>1, FS_Interval
    <2> QED BY <2>1, <2>2, FS_Subset
  <1>9. \A x \in S : /\ x \in D /\ g[x] = x.qty /\ g[x] \in Nat
                     /\ m[x] \in OwnIn(all, p) /\ f[m[x]] = g[x]
    <2> TAKE x \in S
    <2>1. x \in D /\ g[x] = x.qty /\ x \in Trades
      BY DEF Part
    <2>2. m[x] \in OwnIn(all, p)
      BY <1>6
    <2>3. f[m[x]] = all[m[x]].qty
      BY <2>2
    <2> QED BY <1>3, <2>1, <2>2, <2>3 DEF Trades
  <1>10. \A k \in A : /\ f[k] = old[k] /\ f[k] \in Nat
    <2> TAKE k \in A
    <2>1. k \in 1 .. n /\ k \in OwnIn(all, p)
      BY <1>1, <1>6 DEF OwnIn
    <2>2. f[k] = all[k].qty /\ old[k] = list[k].qty
      BY <2>1
    <2>3. all[k] = list[k] /\ list[k] \in Trades
      BY <1>1, <2>1
    <2> QED BY <2>2, <2>3 DEF Trades
  <1> HIDE DEF A, S, f, g, old
  <1>11. /\ IsFiniteSet(B) /\ SumOver(f, B) = SumOver(g, S)
    <2>1. \A x \in S : f[m[x]] = g[x] /\ g[x] \in Int
      BY <1>9
    <2>2. \A x, y \in S : m[x] = m[y] => x = y
      BY <1>4, <1>9
    <2>4. IsFiniteSet(S)
      BY <1>8
    <2>5. (\A x \in S : m[x] \in B) /\ (\A k \in B : \E x \in S : k = m[x])
      OBVIOUS
    <2> HIDE DEF B
    <2>6. IsFiniteSet(B)
      BY ONLY <2>1, <2>2, <2>4, <2>5, SumPlaced
    <2>7. SumOver(f, B) = SumOver(g, S)
      BY ONLY <2>1, <2>2, <2>4, <2>5, SumPlaced
    <2> QED BY <2>6, <2>7
  <1>12. SumOver(f, A) = SumOver(old, A) /\ SumOver(old, A) \in Nat
    <2>1. \A k \in A : f[k] = old[k] /\ f[k] \in Int
      BY <1>10
    <2>2. \A k \in A : old[k] \in Nat
      BY <1>10
    <2> QED BY <1>8, <2>1, <2>2, SumSame, SumType
  <1>13. SumOver(f, A \cup B) = SumOver(f, A) + SumOver(f, B)
    <2>1. \A k \in A \cup B : f[k] \in Int
      <3>1. \A k \in B : f[k] \in Int
        BY <1>9
      <3> QED BY <1>10, <3>1
    <2> HIDE DEF B
    <2> QED BY <1>7, <1>8, <1>11, <2>1, SumUnion
  <1>14. ExecutedIn(list, p) = SumOver(old, A) /\ ExecutedIn(all, p) = SumOver(f, A \cup B)
         /\ Total(Part(D, p)) = SumOver(g, S)
    BY <1>6, Zenon DEF ExecutedIn, Total, A, S, f, g, old
  <1> HIDE DEF B
  <1> QED BY <1>11, <1>12, <1>13, <1>14 DEF all

-----------------------------------------------------------------------------
(* An order that no book has seen, on live books. *)

IsBook(b) == b = [resting |-> b.resting, arrival |-> b.arrival, seq |-> b.seq, recent |-> b.recent]
IsBooks(bs) == /\ bs = [v \in Venues |-> bs[v]]
               /\ \A v \in Venues : IsBook(bs[v])

\* A book stays a book whatever is submitted to it.
LEMMA SubmittedShape ==
    ASSUME NEW b, IsBook(b), NEW o, NEW r, NEW qty, NEW stays \in BOOLEAN
    PROVE  IsBook(Submitted(b, o, r, qty, stays).book)
  <1>1. Submitted(b, o, r, qty, stays).book = b \/ Submitted(b, o, r, qty, stays).book = Matched(b, o, r, qty, stays)
    BY DEF Submitted
  <1> DEFINE n == Matched(b, o, r, qty, stays)
  <1>2. n.arrival = b.arrival + 1 /\ n.recent = Remember(b.recent, o)
        /\ n = [resting |-> n.resting, arrival |-> n.arrival, seq |-> n.seq, recent |-> n.recent]
    BY DEF Matched
  <1>3. IsBook(n)
    BY <1>2 DEF IsBook
  <1> HIDE DEF n
  <1> QED BY <1>1, <1>3 DEF n

\* Executing leaves books.
LEMMA ExecutedShape ==
    ASSUME ReqOK, NEW o \in Orders, NEW bs, IsBooks(bs)
    PROVE  IsBooks(Executed(bs, o).books)
  <1> DEFINE acc == Sliced(bs, o)
             u == req[o].venue
             V == Visited(bs, req[o])
             posted == Submitted(acc.books[u], o, req[o], Remainder(o, acc.done), TRUE)
  <1>1. acc.books = [v \in Venues |-> IF v \in V THEN Slice(bs, o, v).book ELSE bs[v]]
    BY DEF Sliced
  <1>2. \A v \in Venues : IsBook(Slice(bs, o, v).book)
    <2> TAKE v \in Venues
    <2>1. IsBook(bs[v])
      BY DEF IsBooks
    <2> QED BY <2>1, SubmittedShape DEF Slice
  <1>3. \A v \in Venues : IsBook(bs[v])
    BY DEF IsBooks
  <1>4. IsBooks(acc.books)
    <2> DEFINE n == acc.books
    <2>1. n = [v \in Venues |-> n[v]] /\ \A v \in Venues : n[v] \in {Slice(bs, o, v).book, bs[v]}
      BY <1>1
    <2> HIDE DEF n
    <2>2. \A v \in Venues : IsBook(n[v])
      BY <1>2, <1>3, <2>1
    <2>3. IsBooks(n)
      BY <2>1, <2>2 DEF IsBooks
    <2> QED BY <2>3 DEF n
  <1>5. u \in Venues
    BY TermsOK
  <1>6. Executed(bs, o).books = acc.books \/ Executed(bs, o).books = [acc.books EXCEPT ![u] = posted.book]
    BY DEF Executed, Posted
  <1> HIDE DEF acc, V
  <1>7. IsBook(posted.book)
    <2>1. IsBook(acc.books[u])
      BY <1>4, <1>5 DEF IsBooks
    <2> QED BY <2>1, SubmittedShape
  <1> DEFINE n == [acc.books EXCEPT ![u] = posted.book]
  <1> HIDE DEF posted, u
  <1>8. IsBooks(n)
    <2>1. acc.books = [v \in Venues |-> acc.books[v]] /\ \A v \in Venues : IsBook(acc.books[v])
      BY <1>4 DEF IsBooks
    <2>2. n = [v \in Venues |-> n[v]] /\ \A v \in Venues : n[v] = IF v = u THEN posted.book ELSE acc.books[v]
      BY <1>5, <2>1
    <2> HIDE DEF n
    <2>3. \A v \in Venues : IsBook(n[v])
      BY <1>7, <2>1, <2>2
    <2> QED BY <2>2, <2>3 DEF IsBooks
  <1> HIDE DEF n
  <1> QED BY <1>4, <1>6, <1>8 DEF n

\* The executions, the books and the list of an order that no book has seen.
OrderStepOK(bs, o) ==
    /\ Executed(bs, o).done = DoneBy(Core(bs), o)
    /\ Executed(bs, o).books \in Books
    /\ Core(Executed(bs, o).books) = OrderCore(Core(bs), o)
    /\ \A v \in Venues : ToSet(Executed(bs, o).books[v].recent) \in SUBSET (ToSet(bs[v].recent) \cup {o})
    /\ OrderOK(Core(bs), o)
    /\ DoneBy(Core(bs), o) \in SUBSET Trades
    /\ \A D \in SUBSET DoneBy(Core(bs), o) : IsFiniteSet(D) /\ ListedOK(bs, o, D)

\* Handling an order no book has seen takes sound books to sound books.
LEMMA OrderStep ==
    ASSUME ReqOK, NEW o \in Orders, NEW bs \in Books, CoreOK(Core(bs)),
           \A v \in Venues : ~Seen(bs[v], o)
    PROVE  OrderStepOK(bs, o)
  <1> DEFINE c == Core(bs)
             n == Executed(bs, o).books
  <1>1. \A v \in Venues : /\ bs[v] \in LiveBook /\ bs[v].recent \in Seq(Orders)
                          /\ c[v].resting = bs[v].resting /\ c[v].seq = bs[v].seq
                          /\ c[v].arrival = bs[v].arrival
    BY CoreShape
  <1>2. AllQuotesOK(bs) /\ AllQuotesOK(c) /\ \A v \in Venues : bs[v].seq \in Nat /\ c[v].seq \in Nat
    BY <1>1 DEF CoreOK, AllQuotesOK
  <1>3. ExecutedOK(bs, o)
    BY <1>1, <1>2, ExecutedProps
  <1>4. DoneBy(c, o) = DoneBy(bs, o)
    BY CoreSame
  <1>5. OrderOK(c, o)
    <2>1. \A v \in Venues : ~Holds(c[v], o)
      BY <1>1 DEF Seen, Holds
    <2> QED BY <2>1, OrderCoreProps
  <1>6. DoneBy(c, o) \in SUBSET Trades
    BY <1>2, DoneTrades
  <1>7. \A D \in SUBSET DoneBy(c, o) : IsFiniteSet(D) /\ ListedOK(bs, o, D)
    BY <1>2, <1>4, ListedProps
  <1>8. IsBooks(n)
    <2>1. bs = [v \in Venues |-> bs[v]]
      BY DEF Books
    <2>2. \A v \in Venues : IsBook(bs[v])
      BY <1>1 DEF IsBook, LiveBook
    <2>3. IsBooks(bs)
      BY <2>1, <2>2 DEF IsBooks
    <2> QED BY <2>3, ExecutedShape
  <1>9. \A v \in Venues : n[v].recent \in {bs[v].recent, Remember(bs[v].recent, o)}
    BY <1>3 DEF ExecutedOK
  <1>10. Core(n) = OrderCore(c, o)
    BY <1>3 DEF ExecutedOK
  <1> HIDE DEF n, c
  <1>11. \A v \in Venues : /\ n[v].recent \in Seq(Orders)
                           /\ ToSet(n[v].recent) \in SUBSET (ToSet(bs[v].recent) \cup {o})
    <2> TAKE v \in Venues
    <2>1. /\ Remember(bs[v].recent, o) \in Seq(Orders)
          /\ ToSet(Remember(bs[v].recent, o)) \in SUBSET (ToSet(bs[v].recent) \cup {o})
      BY <1>1, RememberProps
    <2> QED BY <1>1, <1>9, <2>1
  <1>12. \A v \in Venues : n[v].resting \in SUBSET Quote /\ n[v].arrival \in Nat /\ n[v].seq \in Nat
    <2> TAKE v \in Venues
    <2>1. CoreOK(Core(n))
      BY <1>5, <1>10 DEF OrderOK
    <2>2. /\ Core(n)[v].resting = n[v].resting /\ Core(n)[v].arrival = n[v].arrival
          /\ Core(n)[v].seq = n[v].seq
      BY DEF Core, Saved
    <2>3. QuotesOK(Core(n)[v].resting) /\ Core(n)[v].arrival \in Nat /\ Core(n)[v].seq \in Nat
      BY <2>1 DEF CoreOK
    <2> QED BY <2>2, <2>3 DEF QuotesOK
  <1>13. n \in Books
    <2>1. \A v \in Venues : n[v] \in LiveBook
      <3> TAKE v \in Venues
      <3>1. n[v] = [resting |-> n[v].resting, arrival |-> n[v].arrival, seq |-> n[v].seq, recent |-> n[v].recent]
        BY <1>8 DEF IsBooks, IsBook
      <3> QED BY <1>11, <1>12, <3>1 DEF LiveBook
    <2>2. n = [v \in Venues |-> n[v]]
      BY <1>8 DEF IsBooks
    <2> QED BY <2>1, <2>2 DEF Books
  <1>14. Executed(bs, o).done = DoneBy(c, o)
    BY <1>3, <1>4 DEF ExecutedOK
  <1> QED BY <1>5, <1>6, <1>7, <1>10, <1>11, <1>13, <1>14 DEF OrderStepOK, n, c

-----------------------------------------------------------------------------
(* The outbox and the inbound log. *)

Records == {Order(o) : o \in Orders} \cup {Cancel(o) : o \in Orders}

\* Rows are published in order, again only while they are not marked, and
\* between two copies of a row there are only rows of one batch.
LogIn(out, in, mark) ==
    /\ out \in Seq(Records) /\ in \in Seq(Records) /\ mark \in 0 .. Len(out)
    /\ \A p, q \in 1 .. Len(out) : out[p] = out[q] => p = q
    /\ \A o \in Orders : \A p \in 1 .. Len(out) :
         out[p] = Cancel(o) => \E q \in 1 .. p - 1 : out[q] = Order(o)
    /\ \A i \in 1 .. Len(in) : \E p \in 1 .. Len(out) : in[i] = out[p]
    /\ \A p \in 1 .. mark : \E i \in 1 .. Len(in) : in[i] = out[p]
    /\ \A i \in 1 .. Len(in), p \in 1 .. Len(out) :
         in[i] = out[p] => \A q \in 1 .. p - 1 : \E j \in 1 .. i - 1 : in[j] = out[q]
    /\ \A i \in 1 .. Len(in), p \in 1 .. Len(out) :
         in[i] = out[p] /\ p > mark =>
           \A k \in i .. Len(in), q \in 1 .. Len(out) :
             in[k] = out[q] => mark < q /\ q <= mark + Batch
    /\ \A i, j \in 1 .. Len(in) :
         i < j /\ in[i] = in[j] =>
           \E w \in 0 .. Len(out) : \A k \in i .. j : \E p \in 1 .. Len(out) :
             w < p /\ p <= w + Batch /\ in[k] = out[p]

LogOK == LogIn(outbox, inbound, marked)

\* An inbound record says of which kind it is, and of which order.
LEMMA RecordProps ==
    /\ \A o, p : Order(o) = Order(p) => o = p
    /\ \A o, p : Cancel(o) = Cancel(p) => o = p
    /\ \A o, p : Order(o) # Cancel(p)
    /\ \A o : /\ Order(o).type = "ORDER" /\ Order(o).order = o
              /\ Cancel(o).type = "CANCEL" /\ Cancel(o).order = o
    /\ \A o \in Orders : Order(o) \in Records /\ Cancel(o) \in Records
    /\ \A rec \in Records : rec.order \in Orders /\ rec.type \in {"ORDER", "CANCEL"}
    /\ \A rec \in Records : rec.type = "ORDER" => rec = Order(rec.order)
    /\ \A rec \in Records : rec.type = "CANCEL" => rec = Cancel(rec.order)
  <1>1. \A o : /\ Order(o).type = "ORDER" /\ Order(o).order = o
               /\ Cancel(o).type = "CANCEL" /\ Cancel(o).order = o
    BY DEF Order, Cancel
  <1>2. \A o \in Orders : Order(o) \in Records /\ Cancel(o) \in Records
    BY DEF Records
  <1>3. \A rec \in Records : \E o \in Orders : rec = Order(o) \/ rec = Cancel(o)
    BY DEF Records
  <1>4. "ORDER" # "CANCEL"
    OBVIOUS
  <1>5. \A rec \in Records : rec.order \in Orders /\ rec.type \in {"ORDER", "CANCEL"}
    BY <1>1, <1>3
  <1>6. \A rec \in Records : rec.type = "ORDER" => rec = Order(rec.order)
    <2> SUFFICES ASSUME NEW rec \in Records, rec.type = "ORDER" PROVE rec = Order(rec.order)
      OBVIOUS
    <2>1. PICK o \in Orders : rec = Order(o) \/ rec = Cancel(o)
      BY <1>3
    <2>2. rec = Order(o)
      BY <1>1, <1>4, <2>1
    <2>3. rec.order = o
      BY <1>1, <2>2
    <2> QED BY <2>2, <2>3, Zenon
  <1>7. \A rec \in Records : rec.type = "CANCEL" => rec = Cancel(rec.order)
    <2> SUFFICES ASSUME NEW rec \in Records, rec.type = "CANCEL" PROVE rec = Cancel(rec.order)
      OBVIOUS
    <2>1. PICK o \in Orders : rec = Order(o) \/ rec = Cancel(o)
      BY <1>3
    <2>2. rec = Cancel(o)
      BY <1>1, <1>4, <2>1
    <2>3. rec.order = o
      BY <1>1, <2>2
    <2> QED BY <2>2, <2>3, Zenon
  <1>8. (\A o, p : Order(o) = Order(p) => o = p) /\ (\A o, p : Cancel(o) = Cancel(p) => o = p)
    BY DEF Order, Cancel
  <1>9. \A o, p : Order(o) # Cancel(p)
    BY <1>4 DEF Order, Cancel
  <1> QED BY <1>1, <1>2, <1>5, <1>6, <1>7, <1>8, <1>9

\* A new row, written after the order it cancels.
LEMMA LogEnqueued ==
    ASSUME NEW out, NEW in, NEW mark, LogIn(out, in, mark), NEW rec \in Records,
           \A p \in 1 .. Len(out) : out[p] # rec,
           \A o \in Orders : rec = Cancel(o) => \E q \in 1 .. Len(out) : out[q] = Order(o)
    PROVE  LogIn(Append(out, rec), in, mark)
  <1> DEFINE new == Append(out, rec)
             L == Len(out)
  <1>1. /\ out \in Seq(Records) /\ in \in Seq(Records) /\ mark \in 0 .. L /\ L \in Nat
        /\ Len(in) \in Nat
    BY DEF LogIn
  <1>2. /\ new \in Seq(Records) /\ Len(new) = L + 1 /\ new[L + 1] = rec
        /\ \A p \in 1 .. L : new[p] = out[p]
    <2>1. out \in Seq(Records)
      BY <1>1
    <2> QED BY <2>1, AppendProperties
  <1> HIDE DEF new, L
  <1>3. \A p, q \in 1 .. Len(new) : new[p] = new[q] => p = q
    <2> SUFFICES ASSUME NEW p \in 1 .. Len(new), NEW q \in 1 .. Len(new), new[p] = new[q]
                 PROVE  p = q
      OBVIOUS
    <2>1. p \in 1 .. L \/ p = L + 1
      BY <1>1, <1>2
    <2>2. q \in 1 .. L \/ q = L + 1
      BY <1>1, <1>2
    <2>3. CASE p \in 1 .. L /\ q \in 1 .. L
      BY <1>2, <2>3 DEF LogIn, L
    <2> QED BY <1>2, <2>1, <2>2, <2>3 DEF L
  <1>4. \A o \in Orders : \A p \in 1 .. Len(new) :
          new[p] = Cancel(o) => \E q \in 1 .. p - 1 : new[q] = Order(o)
    <2> SUFFICES ASSUME NEW o \in Orders, NEW p \in 1 .. Len(new), new[p] = Cancel(o)
                 PROVE  \E q \in 1 .. p - 1 : new[q] = Order(o)
      OBVIOUS
    <2>1. CASE p \in 1 .. L
      <3>1. PICK q \in 1 .. p - 1 : out[q] = Order(o)
        BY <1>2, <2>1 DEF LogIn, L
      <3>2. q \in 1 .. L
        BY <1>1, <2>1
      <3> QED BY <1>2, <3>1, <3>2
    <2>2. CASE p = L + 1
      <3>1. PICK q \in 1 .. L : out[q] = Order(o)
        BY <1>2, <2>2 DEF L
      <3>2. q \in 1 .. p - 1
        BY <1>1, <2>2
      <3> QED BY <1>2, <3>1, <3>2
    <2> QED BY <1>1, <1>2, <2>1, <2>2
  <1>5. \A i \in 1 .. Len(in) : /\ \E p \in 1 .. L : in[i] = out[p]
                                /\ \A p \in 1 .. L : in[i] = new[p] <=> in[i] = out[p]
                                /\ in[i] # new[L + 1]
    <2> TAKE i \in 1 .. Len(in)
    <2>1. \E p \in 1 .. L : in[i] = out[p]
      BY DEF LogIn, L
    <2> QED BY <1>2, <2>1 DEF L
  <1>6. \A i \in 1 .. Len(in), p \in 1 .. Len(new) : in[i] = new[p] => p \in 1 .. L /\ in[i] = out[p]
    <2> TAKE i \in 1 .. Len(in), p \in 1 .. Len(new)
    <2>1. p \in 1 .. L \/ p = L + 1
      BY <1>1, <1>2
    <2> QED BY <1>5, <2>1
  <1>7. 1 .. L \in SUBSET (1 .. Len(new)) /\ mark \in 0 .. Len(new) /\ 1 .. mark \in SUBSET (1 .. L)
        /\ 0 .. L \in SUBSET (0 .. Len(new))
    BY <1>1, <1>2
  <1>8. \A i \in 1 .. Len(in) : \E p \in 1 .. Len(new) : in[i] = new[p]
    BY <1>5, <1>7
  <1>9. \A p \in 1 .. mark : \E i \in 1 .. Len(in) : in[i] = new[p]
    <2> TAKE p \in 1 .. mark
    <2>1. PICK i \in 1 .. Len(in) : in[i] = out[p]
      BY DEF LogIn
    <2>2. p \in 1 .. L
      BY <1>7
    <2> QED BY <1>2, <2>1, <2>2
  <1>10. \A i \in 1 .. Len(in), p \in 1 .. Len(new) :
           in[i] = new[p] => \A q \in 1 .. p - 1 : \E j \in 1 .. i - 1 : in[j] = new[q]
    <2> SUFFICES ASSUME NEW i \in 1 .. Len(in), NEW p \in 1 .. Len(new), in[i] = new[p],
                        NEW q \in 1 .. p - 1
                 PROVE  \E j \in 1 .. i - 1 : in[j] = new[q]
      OBVIOUS
    <2>1. p \in 1 .. L /\ in[i] = out[p]
      BY <1>6
    <2>2. q \in 1 .. L
      BY <1>1, <2>1
    <2>3. \E j \in 1 .. i - 1 : in[j] = out[q]
      BY <2>1 DEF LogIn, L
    <2> QED BY <1>2, <2>2, <2>3
  <1>11. \A i \in 1 .. Len(in), p \in 1 .. Len(new) :
           in[i] = new[p] /\ p > mark =>
             \A k \in i .. Len(in), q \in 1 .. Len(new) :
               in[k] = new[q] => mark < q /\ q <= mark + Batch
    <2> SUFFICES ASSUME NEW i \in 1 .. Len(in), NEW p \in 1 .. Len(new), in[i] = new[p], p > mark,
                        NEW k \in i .. Len(in), NEW q \in 1 .. Len(new), in[k] = new[q]
                 PROVE  mark < q /\ q <= mark + Batch
      OBVIOUS
    <2>1. p \in 1 .. L /\ in[i] = out[p]
      BY <1>6
    <2>2. k \in 1 .. Len(in)
      BY <1>1
    <2>3. q \in 1 .. L /\ in[k] = out[q]
      BY <1>6, <2>2
    <2> QED BY <2>1, <2>3 DEF LogIn, L
  <1>12. \A i, j \in 1 .. Len(in) :
           i < j /\ in[i] = in[j] =>
             \E w \in 0 .. Len(new) : \A k \in i .. j : \E p \in 1 .. Len(new) :
               w < p /\ p <= w + Batch /\ in[k] = new[p]
    <2> SUFFICES ASSUME NEW i \in 1 .. Len(in), NEW j \in 1 .. Len(in), i < j, in[i] = in[j]
                 PROVE  \E w \in 0 .. Len(new) : \A k \in i .. j : \E p \in 1 .. Len(new) :
                          w < p /\ p <= w + Batch /\ in[k] = new[p]
      OBVIOUS
    <2>1. PICK w \in 0 .. L : \A k \in i .. j : \E p \in 1 .. L :
            w < p /\ p <= w + Batch /\ in[k] = out[p]
      BY DEF LogIn, L
    <2>2. \A k \in i .. j : \E p \in 1 .. Len(new) : w < p /\ p <= w + Batch /\ in[k] = new[p]
      <3> TAKE k \in i .. j
      <3>1. PICK p \in 1 .. L : w < p /\ p <= w + Batch /\ in[k] = out[p]
        BY <2>1
      <3> QED BY <1>2, <1>7, <3>1
    <2> QED BY <1>7, <2>2
  <1>13. LogIn(new, in, mark)
    BY <1>1, <1>2, <1>3, <1>4, <1>7, <1>8, <1>9, <1>10, <1>11, <1>12 DEF LogIn
  <1> QED BY <1>13 DEF new

\* Rows published after the mark: some of the batch, and then it stays, or the
\* whole batch, and then it may move past it.
LEMMA LogPublished ==
    ASSUME NEW out, NEW in, NEW mark, LogIn(out, in, mark),
           NEW n \in 1 .. Batch, mark + n <= Len(out),
           NEW more, more \in Seq(Records), Len(more) = n, \A k \in 1 .. n : more[k] = out[mark + k],
           NEW after, after = mark \/ (after = mark + n /\ (n = Batch \/ mark + n = Len(out)))
    PROVE  LogIn(out, in \o more, after)
  <1> DEFINE new == in \o more
             L == Len(out)
             N == Len(in)
  <1>1. /\ out \in Seq(Records) /\ in \in Seq(Records) /\ mark \in 0 .. L /\ L \in Nat /\ N \in Nat
        /\ Batch \in Nat \ {0}
    BY ShardAssumption DEF LogIn
  <1>2. /\ new \in Seq(Records) /\ Len(new) = N + n
        /\ \A i \in 1 .. N : new[i] = in[i]
        /\ \A k \in 1 .. n : new[N + k] = out[mark + k]
    <2>1. /\ new \in Seq(Records) /\ Len(new) = N + n
          /\ \A i \in 1 .. N : new[i] = in[i]
          /\ \A k \in 1 .. n : new[N + k] = more[k]
      BY <1>1
    <2> QED BY <2>1
  <1>3. /\ \A p, q \in 1 .. L : out[p] = out[q] => p = q
        /\ \A o \in Orders : \A p \in 1 .. L : out[p] = Cancel(o) => \E q \in 1 .. p - 1 : out[q] = Order(o)
        /\ \A i \in 1 .. N : \E p \in 1 .. L : in[i] = out[p]
        /\ \A p \in 1 .. mark : \E i \in 1 .. N : in[i] = out[p]
        /\ \A i \in 1 .. N, p \in 1 .. L :
             in[i] = out[p] => \A q \in 1 .. p - 1 : \E j \in 1 .. i - 1 : in[j] = out[q]
        /\ \A i \in 1 .. N, p \in 1 .. L :
             in[i] = out[p] /\ p > mark =>
               \A k \in i .. N, q \in 1 .. L : in[k] = out[q] => mark < q /\ q <= mark + Batch
        /\ \A i, j \in 1 .. N :
             i < j /\ in[i] = in[j] =>
               \E w \in 0 .. L : \A k \in i .. j : \E p \in 1 .. L :
                 w < p /\ p <= w + Batch /\ in[k] = out[p]
    BY DEF LogIn
  <1> HIDE DEF new, L, N
  <1>4. \A k \in 1 .. n : mark + k \in 1 .. L /\ N + k \in 1 .. Len(new) /\ mark < mark + k
                          /\ mark + k <= mark + Batch
    BY <1>1, <1>2 DEF L
  <1>5. \A i \in 1 .. Len(new) : i \in 1 .. N \/ \E k \in 1 .. n : i = N + k
    <2> SUFFICES ASSUME NEW i \in 1 .. Len(new), i \notin 1 .. N
                 PROVE  \E k \in 1 .. n : i = N + k
      OBVIOUS
    <2>1. i - N \in 1 .. n /\ i = N + (i - N)
      BY <1>1, <1>2
    <2> QED BY <2>1
  <1>6. 1 .. N \in SUBSET (1 .. Len(new))
    BY <1>1, <1>2
  <1>7. \A k \in 1 .. n, p \in 1 .. L : new[N + k] = out[p] => p = mark + k
    <2> SUFFICES ASSUME NEW k \in 1 .. n, NEW p \in 1 .. L, new[N + k] = out[p]
                 PROVE  p = mark + k
      OBVIOUS
    <2> DEFINE q == mark + k
    <2>1. q \in 1 .. L /\ out[p] = out[q]
      BY <1>2, <1>4
    <2> HIDE DEF q
    <2>2. p = q
      BY <1>3, <2>1
    <2> QED BY <2>2 DEF q
  <1>8. \A i \in 1 .. Len(new) : \E p \in 1 .. L : new[i] = out[p]
    <2> TAKE i \in 1 .. Len(new)
    <2>1. CASE i \in 1 .. N
      BY <1>2, <1>3, <2>1
    <2>2. CASE \E k \in 1 .. n : i = N + k
      BY <1>2, <1>4, <2>2
    <2> QED BY <1>5, <2>1, <2>2
  <1>9. after \in 0 .. L /\ \A p \in 1 .. after : p \in 1 .. mark \/ \E k \in 1 .. n : p = mark + k
    <2>1. after \in 0 .. L
      BY <1>1 DEF L
    <2>2. ASSUME NEW p \in 1 .. after, p \notin 1 .. mark
          PROVE  \E k \in 1 .. n : p = mark + k
      <3>1. p - mark \in 1 .. n /\ p = mark + (p - mark)
        BY <1>1, <2>2
      <3> QED BY <3>1
    <2> QED BY <2>1, <2>2
  <1>10. \A p \in 1 .. after : \E i \in 1 .. Len(new) : new[i] = out[p]
    <2> TAKE p \in 1 .. after
    <2>1. CASE p \in 1 .. mark
      BY <1>2, <1>3, <1>6, <2>1
    <2>2. CASE \E k \in 1 .. n : p = mark + k
      BY <1>2, <1>4, <2>2
    <2> QED BY <1>9, <2>1, <2>2
  <1>11. \A i \in 1 .. Len(new), p \in 1 .. L :
           new[i] = out[p] => \A q \in 1 .. p - 1 : \E j \in 1 .. i - 1 : new[j] = out[q]
    <2> SUFFICES ASSUME NEW i \in 1 .. Len(new), NEW p \in 1 .. L, new[i] = out[p], NEW q \in 1 .. p - 1
                 PROVE  \E j \in 1 .. i - 1 : new[j] = out[q]
      OBVIOUS
    <2>1. CASE i \in 1 .. N
      <3>1. PICK j \in 1 .. i - 1 : in[j] = out[q]
        BY <1>2, <1>3, <2>1
      <3>2. j \in 1 .. N
        BY <1>1, <2>1
      <3> QED BY <1>2, <3>1, <3>2
    <2>2. CASE \E k \in 1 .. n : i = N + k
      <3>1. PICK k \in 1 .. n : i = N + k
        BY <2>2
      <3>2. p = mark + k
        BY <1>7, <3>1
      <3>3. CASE q \in 1 .. mark
        <4>1. PICK j \in 1 .. N : in[j] = out[q]
          BY <1>3, <3>3
        <4>2. j \in 1 .. i - 1
          BY <1>1, <3>1
        <4> QED BY <1>2, <4>1, <4>2
      <3>4. CASE q \notin 1 .. mark
        <4>1. q - mark \in 1 .. n /\ q - mark < k /\ q = mark + (q - mark)
          BY <1>1, <3>2, <3>4
        <4>2. new[N + (q - mark)] = out[q]
          BY <1>2, <4>1
        <4>3. N + (q - mark) \in 1 .. i - 1
          BY <1>1, <3>1, <4>1
        <4> QED BY <4>2, <4>3
      <3> QED BY <3>3, <3>4
    <2> QED BY <1>5, <2>1, <2>2
  <1>12. \A i \in 1 .. Len(new), p \in 1 .. L :
           new[i] = out[p] /\ p > after =>
             \A k \in i .. Len(new), q \in 1 .. L : new[k] = out[q] => after < q /\ q <= after + Batch
    <2> SUFFICES ASSUME NEW i \in 1 .. Len(new), NEW p \in 1 .. L, new[i] = out[p], p > after,
                        NEW k \in i .. Len(new), NEW q \in 1 .. L, new[k] = out[q]
                 PROVE  after < q /\ q <= after + Batch
      OBVIOUS
    <2>1. CASE after = mark
      <3>1. CASE k \in 1 .. N
        <4>1. i \in 1 .. N /\ k \in i .. N
          BY <1>1, <3>1
        <4>2. in[i] = out[p] /\ in[k] = out[q] /\ p > mark
          BY <1>2, <2>1, <3>1, <4>1
        <4>3. mark < q /\ q <= mark + Batch
          BY <1>3, <4>1, <4>2
        <4> QED BY <2>1, <4>3
      <3>2. CASE \E x \in 1 .. n : k = N + x
        BY <1>4, <1>7, <2>1, <3>2
      <3>3. k \in 1 .. Len(new)
        BY <1>1, <1>2
      <3> QED BY <1>5, <3>1, <3>2, <3>3
    <2>2. CASE after = mark + n /\ (n = Batch \/ mark + n = L)
      <3>1. CASE i \in 1 .. N
        <4>1. in[i] = out[p] /\ p > mark /\ i \in i .. N
          BY <1>1, <1>2, <2>2, <3>1
        <4>2. p <= mark + Batch
          BY <1>3, <3>1, <4>1
        <4> QED BY <1>1, <2>2, <4>2
      <3>2. CASE \E x \in 1 .. n : i = N + x
        <4>1. PICK x \in 1 .. n : i = N + x
          BY <3>2
        <4>2. p = mark + x
          BY <1>7, <4>1
        <4> QED BY <1>1, <2>2, <4>2
      <3> QED BY <1>5, <3>1, <3>2
    <2> QED BY <2>1, <2>2 DEF L
  <1>13. \A i, j \in 1 .. Len(new) :
           i < j /\ new[i] = new[j] =>
             \E w \in 0 .. L : \A k \in i .. j : \E p \in 1 .. L :
               w < p /\ p <= w + Batch /\ new[k] = out[p]
    <2> SUFFICES ASSUME NEW i \in 1 .. Len(new), NEW j \in 1 .. Len(new), i < j, new[i] = new[j]
                 PROVE  \E w \in 0 .. L : \A k \in i .. j : \E p \in 1 .. L :
                          w < p /\ p <= w + Batch /\ new[k] = out[p]
      OBVIOUS
    <2>1. CASE j \in 1 .. N
      <3>1. i \in 1 .. N /\ in[i] = in[j]
        BY <1>1, <1>2, <2>1
      <3>2. PICK w \in 0 .. L : \A k \in i .. j : \E p \in 1 .. L :
              w < p /\ p <= w + Batch /\ in[k] = out[p]
        BY <1>3, <2>1, <3>1
      <3>3. \A k \in i .. j : new[k] = in[k]
        BY <1>1, <1>2, <2>1
      <3> QED BY <3>2, <3>3
    <2>2. CASE \E x \in 1 .. n : j = N + x
      <3>1. PICK x \in 1 .. n : j = N + x
        BY <2>2
      <3>2. new[i] = out[mark + x] /\ mark + x \in 1 .. L
        BY <1>2, <1>4, <3>1
      <3>3. i \in 1 .. N
        <4> SUFFICES ASSUME NEW y \in 1 .. n, i = N + y PROVE FALSE
          BY <1>5
        <4>1. mark + x = mark + y
          BY <1>7, <3>2
        <4> QED BY <1>1, <3>1, <4>1
      <3>4. in[i] = out[mark + x] /\ mark + x > mark
        BY <1>1, <1>2, <3>2, <3>3
      <3>5. \A k \in i .. j : \E p \in 1 .. L : mark < p /\ p <= mark + Batch /\ new[k] = out[p]
        <4> TAKE k \in i .. j
        <4>1. CASE k \in 1 .. N
          <5>1. PICK p \in 1 .. L : in[k] = out[p]
            BY <1>3, <4>1
          <5>2. k \in i .. N
            BY <1>1, <4>1
          <5>3. mark < p /\ p <= mark + Batch
            BY <1>3, <3>2, <3>3, <3>4, <5>1, <5>2
          <5> QED BY <1>2, <4>1, <5>1, <5>3
        <4>2. CASE \E y \in 1 .. n : k = N + y
          BY <1>2, <1>4, <4>2
        <4>3. k \in 1 .. Len(new)
          BY <1>1, <1>2
        <4> QED BY <1>5, <4>1, <4>2, <4>3
      <3>6. mark \in 0 .. L
        BY <1>1
      <3> QED BY <3>5, <3>6
    <2> QED BY <1>5, <2>1, <2>2
  <1>14. LogIn(out, new, after)
    BY <1>1, <1>2, <1>3, <1>8, <1>9, <1>10, <1>11, <1>12, <1>13 DEF LogIn, L
  <1> QED BY <1>14 DEF new

\* The log as it grows.
LEMMA LogInit == Init => LogOK
  <1> SUFFICES ASSUME Init PROVE LogOK
    OBVIOUS
  <1>1. outbox = <<>> /\ marked = 0 /\ inbound = <<>>
    BY DEF Init
  <1>2. <<>> \in Seq(Records) /\ Len(<<>>) = 0
    OBVIOUS
  <1>3. LogIn(<<>>, <<>>, 0)
    BY <1>2 DEF LogIn
  <1> QED BY <1>1, <1>3 DEF LogOK

\* The outbox and the relay keep what is said of the log, which only grows.
LEMMA LogStep ==
    ASSUME LogOK, [Next]_vars
    PROVE  /\ LogOK' /\ inbound' \in Seq(Records)
           /\ Len(inbound) <= Len(inbound')
           /\ \A i \in 1 .. Len(inbound) : inbound'[i] = inbound[i]
  <1>1. /\ LogIn(outbox, inbound, marked) /\ outbox \in Seq(Records) /\ inbound \in Seq(Records)
        /\ marked \in 0 .. Len(outbox) /\ Len(outbox) \in Nat /\ Len(inbound) \in Nat
        /\ Batch \in Nat \ {0}
    BY ShardAssumption DEF LogOK, LogIn
  <1>2. ASSUME NEW rec \in Records, rec \notin ToSet(outbox),
               \A o \in Orders : rec = Cancel(o) => Order(o) \in ToSet(outbox),
               outbox' = Append(outbox, rec), UNCHANGED <<inbound, marked>>
        PROVE  LogOK' /\ inbound' = inbound
    <2>1. \A x : x \in ToSet(outbox) <=> \E p \in 1 .. Len(outbox) : outbox[p] = x
      BY <1>1, ToSetOf
    <2>2. /\ \A p \in 1 .. Len(outbox) : outbox[p] # rec
          /\ \A o \in Orders : rec = Cancel(o) => \E q \in 1 .. Len(outbox) : outbox[q] = Order(o)
      BY <1>2, <2>1
    <2>3. LogIn(Append(outbox, rec), inbound, marked)
      BY <1>1, <2>2, LogEnqueued
    <2> QED BY <1>2, <2>3 DEF LogOK
  <1> DEFINE top == Lesser(marked + Batch, Len(outbox))
             N == Len(Unpublished)
  <1>3. /\ top \in Nat /\ top <= Len(outbox) /\ marked <= top /\ top <= marked + Batch
        /\ (top = Len(outbox) \/ top = marked + Batch)
    BY <1>1 DEF Lesser
  <1>4. /\ Unpublished \in Seq(Records) /\ N = top - marked
        /\ \A k \in 1 .. N : Unpublished[k] = outbox[marked + k]
    <2>1. \A i \in marked + 1 .. top : outbox[i] \in Records
      BY <1>1, <1>3
    <2>2. marked + 1 \in Int /\ top \in Int
      BY <1>1, <1>3
    <2>3. Unpublished = SubSeq(outbox, marked + 1, top)
      BY DEF Unpublished
    <2> HIDE DEF top
    <2>4. /\ Unpublished \in Seq(Records)
          /\ N = IF marked + 1 <= top THEN top - (marked + 1) + 1 ELSE 0
          /\ \A k \in 1 .. top - (marked + 1) + 1 : Unpublished[k] = outbox[marked + 1 + k - 1]
      BY <2>1, <2>2, <2>3, SubSeqProperties
    <2> HIDE DEF N
    <2> QED BY <1>1, <1>3, <2>4
  <1> HIDE DEF top, N
  <1>5. ASSUME NEW more, more \in Seq(Records), Len(more) \in 1 .. N,
               \A k \in 1 .. Len(more) : more[k] = outbox[marked + k],
               inbound' = inbound \o more, outbox' = outbox,
               marked' = marked \/ (marked' = marked + N /\ Len(more) = N)
        PROVE  /\ LogOK' /\ inbound' \in Seq(Records)
               /\ Len(inbound) <= Len(inbound')
               /\ \A i \in 1 .. Len(inbound) : inbound'[i] = inbound[i]
    <2>1. Len(more) \in 1 .. Batch /\ marked + Len(more) <= Len(outbox)
      BY <1>1, <1>3, <1>4, <1>5
    <2>2. marked' = marked \/ (marked' = marked + Len(more)
                               /\ (Len(more) = Batch \/ marked + Len(more) = Len(outbox)))
      BY <1>1, <1>3, <1>4, <1>5
    <2> DEFINE n == Len(more)
    <2>3. LogIn(outbox, inbound \o more, marked')
      <3>1. n \in 1 .. Batch /\ marked + n <= Len(outbox) /\ Len(more) = n
            /\ \A k \in 1 .. n : more[k] = outbox[marked + k]
        BY <1>5, <2>1
      <3>2. marked' = marked \/ (marked' = marked + n /\ (n = Batch \/ marked + n = Len(outbox)))
        BY <2>2
      <3> HIDE DEF n
      <3> QED BY <1>1, <1>5, <3>1, <3>2, LogPublished
    <2>4. /\ inbound \o more \in Seq(Records) /\ Len(inbound \o more) = Len(inbound) + Len(more)
          /\ \A i \in 1 .. Len(inbound) : (inbound \o more)[i] = inbound[i]
      BY <1>1, <1>5
    <2> QED BY <1>1, <1>5, <2>1, <2>3, <2>4 DEF LogOK
  <1>6. ASSUME NEW o \in Orders, Enqueue(o)
        PROVE  LogOK' /\ inbound' = inbound
    <2>1. Order(o) \in Records /\ \A p \in Orders : Order(o) # Cancel(p)
      BY RecordProps
    <2>2. /\ Order(o) \notin ToSet(outbox) /\ outbox' = Append(outbox, Order(o))
          /\ UNCHANGED <<inbound, marked>>
      BY <1>6 DEF Enqueue
    <2> QED BY <1>2, <2>1, <2>2
  <1>7. ASSUME NEW o \in Orders, EnqueueCancel(o)
        PROVE  LogOK' /\ inbound' = inbound
    <2>1. Cancel(o) \in Records /\ \A p \in Orders : Cancel(o) = Cancel(p) => o = p
      BY RecordProps
    <2>2. /\ Cancel(o) \notin ToSet(outbox) /\ Order(o) \in ToSet(outbox)
          /\ outbox' = Append(outbox, Cancel(o)) /\ UNCHANGED <<inbound, marked>>
      BY <1>7 DEF EnqueueCancel
    <2>3. \A p \in Orders : Cancel(o) = Cancel(p) => Order(p) \in ToSet(outbox)
      BY <2>1, <2>2
    <2> QED BY <1>2, <2>1, <2>2, <2>3
  <1>8. CASE Publish
    <2>1. /\ Unpublished # <<>> /\ inbound' = inbound \o Unpublished /\ marked' = marked + N
          /\ outbox' = outbox
      BY <1>8 DEF Publish, clientVars, N
    <2>2. N \in 1 .. N
      <3>1. Len(Unpublished) # 0
        BY <1>4, <2>1, EmptySeq
      <3> QED BY <1>1, <1>3, <1>4, <3>1 DEF N
    <2>3. Len(Unpublished) = N
      BY DEF N
    <2> QED BY <1>4, <1>5, <2>1, <2>2, <2>3
  <1>9. CASE PublishUnmarked
    <2>1. /\ outbox' = outbox /\ marked' = marked
          /\ \E n \in 1 .. N : inbound' = inbound \o SubSeq(Unpublished, 1, n)
      BY <1>9 DEF PublishUnmarked, clientVars, N
    <2>2. PICK n \in 1 .. N : inbound' = inbound \o SubSeq(Unpublished, 1, n)
      BY <2>1
    <2> DEFINE more == SubSeq(Unpublished, 1, n)
    <2>3. /\ more \in Seq(Records) /\ Len(more) = n
          /\ \A k \in 1 .. n : more[k] = Unpublished[k]
      <3>1. \A i \in 1 .. n : Unpublished[i] \in Records
        BY <1>4 DEF N
      <3>2. n \in Int /\ 1 \in Int /\ 1 <= n /\ n - 1 + 1 = n
        OBVIOUS
      <3>3. /\ more \in Seq(Records) /\ Len(more) = (IF 1 <= n THEN n - 1 + 1 ELSE 0)
            /\ \A k \in 1 .. n - 1 + 1 : more[k] = Unpublished[1 + k - 1]
        BY <3>1, <3>2, SubSeqProperties
      <3> HIDE DEF more
      <3> QED BY <3>2, <3>3
    <2>4. \A k \in 1 .. n : more[k] = outbox[marked + k]
      <3> HIDE DEF more
      <3> QED BY <1>4, <2>3
    <2>5. inbound' = inbound \o more
      BY <2>2
    <2> HIDE DEF more
    <2> QED BY <1>5, <2>1, <2>3, <2>4, <2>5
  <1>10. CASE Handle \/ HandleFails \/ Snapshot \/ Restart \/ UNCHANGED vars
    <2>1. outbox' = outbox /\ inbound' = inbound /\ marked' = marked
      BY <1>10 DEF Handle, HandleFails, Snapshot, Restart, vars, clientVars
    <2> QED BY <1>1, <2>1 DEF LogOK
  <1> QED BY <1>1, <1>5, <1>6, <1>7, <1>8, <1>9, <1>10 DEF Next

-----------------------------------------------------------------------------
(* The shard's ring of recent orders, since it was last emptied. *)

\* An order is among the inbound records lo .. hi.
Came(in, o, lo, hi) == \E j \in lo .. hi : in[j] = Order(o)

\* A ring that was emptied before record s and has met the records up to a - 1:
\* what stands behind an entry came after it, and an order that was forgotten
\* came before all that is there, which is as much as there is room for.
RingIn(in, ring, s, a) ==
    /\ ring \in Seq(Orders) /\ Len(ring) <= Window
    /\ \A p, q \in 1 .. Len(ring) : ring[p] = ring[q] => p = q
    /\ \A p \in 1 .. Len(ring) :
         \E j \in s .. a - 1 : /\ in[j] = Order(ring[p])
                               /\ \A q \in p + 1 .. Len(ring) : Came(in, ring[q], j, a - 1)
    /\ \A o \in Orders :
         Came(in, o, s, a - 1) /\ o \notin ToSet(ring) =>
           /\ Len(ring) = Window
           /\ \E j \in s .. a - 1 : /\ in[j] = Order(o)
                                    /\ \A q \in 1 .. Len(ring) : Came(in, ring[q], j, a - 1)

\* An empty ring.
LEMMA RingStart ==
    ASSUME NEW in, NEW s, s \in Nat
    PROVE  RingIn(in, <<>>, s, s)
  <1>1. <<>> \in Seq(Orders) /\ Len(<<>>) = 0 /\ 0 <= Window
    BY WindowAssumption
  <1>2. \A j : j \notin s .. s - 1
    OBVIOUS
  <1>3. \A o : ~Came(in, o, s, s - 1)
    BY <1>2 DEF Came
  <1> QED BY <1>1, <1>3 DEF RingIn

\* Some records later.
LEMMA CameLonger ==
    ASSUME NEW in, NEW o, NEW lo, lo \in Nat, NEW hi, hi \in Int, Came(in, o, lo, hi)
    PROVE  Came(in, o, lo, hi + 1)
  BY DEF Came

\* A record that enters nothing: a cancel, or an order that is there already.
LEMMA RingSkip ==
    ASSUME NEW in, NEW ring, NEW s, NEW a, s \in Nat, a \in Nat, s <= a,
           RingIn(in, ring, s, a),
           \A o \in Orders : in[a] = Order(o) => o \in ToSet(ring)
    PROVE  RingIn(in, ring, s, a + 1)
  <1>1. /\ ring \in Seq(Orders) /\ Len(ring) <= Window
        /\ \A p, q \in 1 .. Len(ring) : ring[p] = ring[q] => p = q
    BY DEF RingIn
  <1>2. a - 1 \in Int /\ (a - 1) + 1 = a /\ (a + 1) - 1 = a /\ \A j \in s .. a - 1 : j \in s .. a /\ j \in Nat
    OBVIOUS
  <1>3. \A o : \A j \in s .. a - 1 : Came(in, o, j, a - 1) => Came(in, o, j, a)
    BY <1>2, CameLonger
  <1>4. \A p \in 1 .. Len(ring) :
          \E j \in s .. a : /\ in[j] = Order(ring[p])
                            /\ \A q \in p + 1 .. Len(ring) : Came(in, ring[q], j, a)
    BY <1>2, <1>3 DEF RingIn
  <1>5. ASSUME NEW o \in Orders, Came(in, o, s, a), o \notin ToSet(ring)
        PROVE  /\ Len(ring) = Window
               /\ \E j \in s .. a : /\ in[j] = Order(o)
                                    /\ \A q \in 1 .. Len(ring) : Came(in, ring[q], j, a)
    <2>1. Came(in, o, s, a - 1)
      BY <1>5 DEF Came
    <2>2. /\ Len(ring) = Window
          /\ \E j \in s .. a - 1 : /\ in[j] = Order(o)
                                   /\ \A q \in 1 .. Len(ring) : Came(in, ring[q], j, a - 1)
      BY <1>5, <2>1 DEF RingIn
    <2> QED BY <1>2, <1>3, <2>2
  <1> QED BY <1>1, <1>2, <1>4, <1>5 DEF RingIn

\* An order is entered.
LEMMA RingRemember ==
    ASSUME NEW in, NEW ring, NEW s, NEW a, s \in Nat, a \in Nat, s <= a,
           RingIn(in, ring, s, a), NEW o \in Orders, in[a] = Order(o)
    PROVE  RingIn(in, Remember(ring, o), s, a + 1)
  <1>1. /\ ring \in Seq(Orders) /\ Len(ring) <= Window /\ Len(ring) \in Nat /\ Window \in Nat \ {0}
        /\ \A p, q \in 1 .. Len(ring) : ring[p] = ring[q] => p = q
    BY WindowAssumption DEF RingIn
  <1>2. \A x : x \in ToSet(ring) <=> \E i \in 1 .. Len(ring) : ring[i] = x
    BY <1>1, ToSetOf
  <1>3. CASE o \in ToSet(ring)
    <2>1. \A p \in Orders : in[a] = Order(p) => p \in ToSet(ring)
      BY <1>3, RecordProps
    <2>2. Remember(ring, o) = ring
      BY <1>3 DEF Remember
    <2> QED BY <2>1, <2>2, RingSkip
  <1>4. CASE o \notin ToSet(ring)
    <2> DEFINE L == Len(ring)
               long == Append(ring, o)
               new == Latest(long)
               d == L + 1 - Len(new)
    <2>1. Remember(ring, o) = new
      BY <1>4 DEF Remember
    <2>2. /\ long \in Seq(Orders) /\ Len(long) = L + 1 /\ long[L + 1] = o
          /\ \A i \in 1 .. L : long[i] = ring[i]
      BY <1>1
    <2>3. /\ new \in Seq(Orders) /\ Len(new) = Lesser(L + 1, Window)
          /\ \A i \in 1 .. Len(new) : d + i \in 1 .. L + 1 /\ new[i] = long[d + i]
      <3> HIDE DEF long
      <3> QED BY <2>2, LatestProps DEF LatestOK
    <2> HIDE DEF long, new
    <2>4. /\ Len(new) \in Nat /\ Len(new) <= Window /\ L \in Nat
          /\ \/ d = 0 /\ Len(new) = L + 1
             \/ d = 1 /\ Len(new) = L /\ L = Window
          /\ d + Len(new) = L + 1
      BY <1>1, <2>3 DEF Lesser
    <2> HIDE DEF d
    <2>5. \A i \in 1 .. Len(new) : d + i \in 1 .. L + 1
                                   /\ new[i] = IF d + i = L + 1 THEN o ELSE ring[d + i]
      BY <1>1, <2>2, <2>3, <2>4 DEF L
    <2>6. \A i \in 1 .. L : ring[i] # o
      BY <1>2, <1>4 DEF L
    <2>7. \A p, q \in 1 .. Len(new) : new[p] = new[q] => p = q
      BY <1>1, <2>4, <2>5, <2>6 DEF L
    <2>8. a - 1 \in Int /\ (a - 1) + 1 = a /\ (a + 1) - 1 = a /\ \A j \in s .. a - 1 : j \in s .. a /\ j \in Nat /\ j <= a
      OBVIOUS
    <2>9. /\ \A x : \A j \in s .. a - 1 : Came(in, x, j, a - 1) => Came(in, x, j, a)
          /\ \A j \in s .. a : Came(in, o, j, a)
      BY <2>8, CameLonger DEF Came
    <2>10. ASSUME NEW p \in 1 .. Len(new)
           PROVE  \E j \in s .. a : /\ in[j] = Order(new[p])
                                    /\ \A q \in p + 1 .. Len(new) : Came(in, new[q], j, a)
      <3>1. CASE d + p = L + 1
        <4>1. new[p] = o /\ \A q \in p + 1 .. Len(new) : FALSE
          BY <2>4, <2>5, <3>1
        <4> QED BY <4>1
      <3>2. CASE d + p # L + 1
        <4>1. d + p \in 1 .. L /\ new[p] = ring[d + p] /\ p + 1 \in Nat
          BY <2>4, <2>5, <3>2
        <4>2. PICK j \in s .. a - 1 : /\ in[j] = Order(ring[d + p])
                                      /\ \A q \in d + p + 1 .. L : Came(in, ring[q], j, a - 1)
          BY <4>1 DEF RingIn, L
        <4>3. ASSUME NEW q \in p + 1 .. Len(new)
              PROVE  Came(in, new[q], j, a)
          <5>1. q \in 1 .. Len(new) /\ d + q \in d + p + 1 .. L + 1
            BY <2>4
          <5>2. CASE d + q = L + 1
            BY <2>5, <2>8, <2>9, <5>1, <5>2
          <5>3. CASE d + q # L + 1
            <6>1. d + q \in d + p + 1 .. L /\ new[q] = ring[d + q]
              BY <2>4, <2>5, <4>1, <5>1, <5>3
            <6> QED BY <2>9, <4>2, <6>1
          <5> QED BY <5>2, <5>3
        <4> QED BY <2>8, <4>1, <4>2, <4>3
      <3> QED BY <3>1, <3>2
    <2>11. \A x : x \in ToSet(new) <=> \E i \in 1 .. Len(new) : new[i] = x
      BY <2>3, ToSetOf
    <2>12. ASSUME NEW x \in Orders, Came(in, x, s, a), x \notin ToSet(new)
           PROVE  /\ Len(new) = Window
                  /\ \E j \in s .. a : /\ in[j] = Order(x)
                                       /\ \A q \in 1 .. Len(new) : Came(in, new[q], j, a)
      <3>1. x # o
        <4>1. Len(new) \in 1 .. Len(new) /\ new[Len(new)] = o
          BY <1>1, <2>4, <2>5
        <4> QED BY <2>11, <2>12, <4>1
      <3>2. Came(in, x, s, a - 1)
        <4>1. PICK j \in s .. a : in[j] = Order(x)
          BY <2>12 DEF Came
        <4>2. j # a
          BY <3>1, <4>1, RecordProps
        <4> QED BY <4>1, <4>2 DEF Came
      <3>3. /\ Len(new) = Window
            /\ \E j \in s .. a - 1 : /\ in[j] = Order(x)
                                     /\ \A q \in 1 .. Len(new) : new[q] # o => Came(in, new[q], j, a - 1)
        <4>1. CASE x \in ToSet(ring)
          <5>1. PICK i \in 1 .. L : ring[i] = x
            BY <1>2, <4>1 DEF L
          <5>2. d = 1 /\ i = 1
            <6>1. CASE i >= d + 1
              <7>1. i - d \in 1 .. Len(new) /\ d + (i - d) = i /\ i # L + 1
                BY <2>4, <6>1
              <7>2. new[i - d] = x
                BY <2>5, <5>1, <7>1
              <7> QED BY <2>11, <2>12, <7>1, <7>2
            <6> QED BY <2>4, <6>1
          <5>3. \E j \in s .. a - 1 : /\ in[j] = Order(x)
                                       /\ \A q \in 2 .. L : Came(in, ring[q], j, a - 1)
            <6>1. 1 \in 1 .. Len(ring) /\ ring[1] = x /\ 1 + 1 = 2
              BY <5>1, <5>2 DEF L
            <6>2. PICK j \in s .. a - 1 : /\ in[j] = Order(ring[1])
                                          /\ \A q \in 1 + 1 .. Len(ring) : Came(in, ring[q], j, a - 1)
              BY <6>1 DEF RingIn
            <6> QED BY <6>1, <6>2 DEF L
          <5>4. \A q \in 1 .. Len(new) : new[q] # o => new[q] = ring[d + q] /\ d + q \in 2 .. L
            BY <2>4, <2>5, <5>2
          <5> QED BY <2>4, <5>2, <5>3, <5>4
        <4>2. CASE x \notin ToSet(ring)
          <5>1. /\ L = Window
                /\ \E j \in s .. a - 1 : /\ in[j] = Order(x)
                                         /\ \A q \in 1 .. L : Came(in, ring[q], j, a - 1)
            BY <3>2, <4>2 DEF RingIn, L
          <5>2. \A q \in 1 .. Len(new) : new[q] # o => new[q] = ring[d + q] /\ d + q \in 1 .. L
            BY <2>4, <2>5
          <5> QED BY <2>4, <5>1, <5>2
        <4> QED BY <4>1, <4>2
      <3> QED BY <2>8, <2>9, <3>3
    <2> QED BY <1>1, <2>1, <2>3, <2>4, <2>7, <2>8, <2>10, <2>12 DEF RingIn
  <1> QED BY <1>3, <1>4

\* Records that are still to be met say nothing of the ring.
LEMMA RingLonger ==
    ASSUME NEW in, NEW more, NEW ring, NEW s, NEW a, RingIn(in, ring, s, a),
           s \in Nat, a \in Nat,
           \A i \in s .. a - 1 : more[i] = in[i]
    PROVE  RingIn(more, ring, s, a)
  <1>1. \A o : \A j \in s .. a - 1 : Came(more, o, j, a - 1) <=> Came(in, o, j, a - 1)
    BY DEF Came
  <1>2. \A o : Came(more, o, s, a - 1) <=> Came(in, o, s, a - 1)
    BY DEF Came
  <1>3. \A p \in 1 .. Len(ring) :
          \E j \in s .. a - 1 : /\ more[j] = Order(ring[p])
                                /\ \A q \in p + 1 .. Len(ring) : Came(more, ring[q], j, a - 1)
    <2> TAKE p \in 1 .. Len(ring)
    <2>1. PICK j \in s .. a - 1 : /\ in[j] = Order(ring[p])
                                  /\ \A q \in p + 1 .. Len(ring) : Came(in, ring[q], j, a - 1)
      BY DEF RingIn
    <2> QED BY <1>1, <2>1
  <1>4. ASSUME NEW o \in Orders, Came(more, o, s, a - 1), o \notin ToSet(ring)
        PROVE  /\ Len(ring) = Window
               /\ \E j \in s .. a - 1 : /\ more[j] = Order(o)
                                        /\ \A q \in 1 .. Len(ring) : Came(more, ring[q], j, a - 1)
    <2>1. /\ Len(ring) = Window
          /\ \E j \in s .. a - 1 : /\ in[j] = Order(o)
                                   /\ \A q \in 1 .. Len(ring) : Came(in, ring[q], j, a - 1)
      BY <1>2, <1>4 DEF RingIn
    <2> QED BY <1>1, <2>1
  <1>5. /\ ring \in Seq(Orders) /\ Len(ring) <= Window
        /\ \A p, q \in 1 .. Len(ring) : ring[p] = ring[q] => p = q
    BY DEF RingIn
  <1> QED BY <1>3, <1>4, <1>5 DEF RingIn

\* The ring knows every order that comes again: what came in between are rows of
\* one batch, which the window covers.
LEMMA RingKnows ==
    ASSUME NEW out, NEW in, NEW mark, LogIn(out, in, mark), NEW ring, NEW s, NEW a,
           s \in Nat \ {0}, a \in 1 .. Len(in), RingIn(in, ring, s, a),
           NEW o \in Orders, in[a] = Order(o), Came(in, o, s, a - 1)
    PROVE  o \in ToSet(ring)
  <1> SUFFICES ASSUME o \notin ToSet(ring) PROVE FALSE
    OBVIOUS
  <1>1. /\ ring \in Seq(Orders) /\ Len(ring) = Window
        /\ \A p, q \in 1 .. Len(ring) : ring[p] = ring[q] => p = q
    BY DEF RingIn
  <1>2. PICK j \in s .. a - 1 : /\ in[j] = Order(o)
                                /\ \A q \in 1 .. Len(ring) : Came(in, ring[q], j, a - 1)
    BY DEF RingIn
  <1>3. /\ in \in Seq(Records) /\ Len(in) \in Nat /\ Len(out) \in Nat
        /\ \A p, q \in 1 .. Len(out) : out[p] = out[q] => p = q
    BY DEF LogIn
  <1>4. j \in 1 .. Len(in) /\ j < a /\ j \in Nat /\ a \in Nat
    BY <1>3
  <1>5. PICK w \in 0 .. Len(out) :
          \A k \in j .. a : \E p \in 1 .. Len(out) : w < p /\ p <= w + Batch /\ in[k] = out[p]
    <2>1. \A i, n \in 1 .. Len(in) :
            i < n /\ in[i] = in[n] =>
              \E w \in 0 .. Len(out) : \A k \in i .. n : \E p \in 1 .. Len(out) :
                w < p /\ p <= w + Batch /\ in[k] = out[p]
      BY DEF LogIn
    <2>2. j \in 1 .. Len(in) /\ a \in 1 .. Len(in) /\ j < a /\ in[j] = in[a]
      BY <1>2, <1>4
    <2> QED BY <2>1, <2>2
  <1>6. \A x : x \in ToSet(ring) <=> \E i \in 1 .. Len(ring) : ring[i] = x
    BY <1>1, ToSetOf
  <1> DEFINE id(q) == IF q = 0 THEN o ELSE ring[q]
             place == [q \in 0 .. Window |-> CHOOSE p \in w + 1 .. w + Batch : p \in 1 .. Len(out) /\ out[p] = Order(id(q))]
  <1>7. Window \in Nat /\ Batch \in Nat /\ Batch <= Window /\ w \in Nat
    BY WindowAssumption, ShardAssumption, WindowCoversBatch
  <1>8. ASSUME NEW q \in 0 .. Window
        PROVE  \E k \in j .. a : in[k] = Order(id(q))
    <2>1. CASE q = 0
      BY <1>2, <1>4, <2>1
    <2>2. CASE q # 0
      <3>1. q \in 1 .. Len(ring) /\ id(q) = ring[q]
        BY <1>1, <1>7, <2>2
      <3>2. PICK k \in j .. a - 1 : in[k] = Order(ring[q])
        BY <1>2, <3>1 DEF Came
      <3>3. k \in j .. a
        BY <1>4, <3>2
      <3> QED BY <3>1, <3>2, <3>3
    <2> QED BY <2>1, <2>2
  <1>9. ASSUME NEW q \in 0 .. Window
        PROVE  place[q] \in w + 1 .. w + Batch /\ place[q] \in 1 .. Len(out) /\ out[place[q]] = Order(id(q))
    <2>1. PICK k \in j .. a : in[k] = Order(id(q))
      BY <1>8
    <2>2. PICK p \in 1 .. Len(out) : w < p /\ p <= w + Batch /\ in[k] = out[p]
      BY <1>5
    <2>3. p \in w + 1 .. w + Batch
      BY <1>7, <2>2
    <2> HIDE DEF id
    <2> QED BY <2>1, <2>2, <2>3
  <1>10. place \in [0 .. Window -> w + 1 .. w + Batch]
    <2>1. \A q \in 0 .. Window : place[q] \in w + 1 .. w + Batch
      BY <1>9
    <2> QED BY <2>1
  <1>11. \A p, q \in 0 .. Window : place[p] = place[q] => p = q
    <2> SUFFICES ASSUME NEW p \in 0 .. Window, NEW q \in 0 .. Window, place[p] = place[q] PROVE p = q
      OBVIOUS
    <2> HIDE DEF place
    <2>1. id(p) = id(q)
      BY <1>9, RecordProps
    <2>2. p # 0 => p \in 1 .. Len(ring) /\ id(p) = ring[p]
      BY <1>1, <1>7
    <2>3. q # 0 => q \in 1 .. Len(ring) /\ id(q) = ring[q]
      BY <1>1, <1>7
    <2>4. (p = 0 => id(p) = o) /\ (q = 0 => id(q) = o)
      OBVIOUS
    <2> HIDE DEF id
    <2> QED BY <1>1, <1>6, <2>1, <2>2, <2>3, <2>4
  <1>12. /\ IsFiniteSet(0 .. Window) /\ Cardinality(0 .. Window) = Window + 1
         /\ IsFiniteSet(w + 1 .. w + Batch) /\ Cardinality(w + 1 .. w + Batch) = Batch
    <2> DEFINE lo == w + 1
               hi == w + Batch
    <2>1. /\ 0 \in Int /\ Window \in Int /\ lo \in Int /\ hi \in Int
          /\ ~(0 > Window) /\ ~(lo > hi) /\ Window - 0 + 1 = Window + 1 /\ hi - lo + 1 = Batch
      BY <1>7, ShardAssumption
    <2>2. IsFiniteSet(0 .. Window)
      BY <2>1, FS_Interval
    <2>3. Cardinality(0 .. Window) = IF 0 > Window THEN 0 ELSE Window - 0 + 1
      BY <2>1, FS_Interval
    <2> HIDE DEF lo, hi
    <2>4. IsFiniteSet(lo .. hi)
      BY <2>1, FS_Interval
    <2>5. Cardinality(lo .. hi) = IF lo > hi THEN 0 ELSE hi - lo + 1
      BY <2>1, FS_Interval
    <2>6. IsFiniteSet(w + 1 .. w + Batch) /\ Cardinality(w + 1 .. w + Batch) = Batch
      BY <2>1, <2>4, <2>5 DEF lo, hi
    <2> QED BY <2>1, <2>2, <2>3, <2>6
  <1> HIDE DEF place, id
  <1>13. Cardinality(w + 1 .. w + Batch) < Cardinality(0 .. Window)
    BY <1>7, <1>12
  <1>14. \E p, q \in 0 .. Window : p # q /\ place[p] = place[q]
    <2> DEFINE S == 0 .. Window
               T == w + 1 .. w + Batch
    <2>1. IsFiniteSet(S) /\ IsFiniteSet(T) /\ Cardinality(T) < Cardinality(S) /\ place \in [S -> T]
      BY <1>10, <1>12, <1>13
    <2> HIDE DEF S, T
    <2>2. \E p, q \in S : p # q /\ place[p] = place[q]
      BY <2>1, FS_PigeonHole
    <2> QED BY <2>2 DEF S
  <1> QED BY <1>11, <1>14

-----------------------------------------------------------------------------
(* The history of the books, and the executions beside it. *)

CoreIn(tr, i) == IF i = 0 THEN [v \in Venues |-> Saved(EmptyBook)] ELSE tr[i]

\* Record i is the first of its order.
FirstIn(in, i) == in[i].type = "ORDER" /\ \A j \in 1 .. i - 1 : in[j] # in[i]

\* What record i makes of books.
StepIn(in, i, c) ==
    IF in[i].type = "CANCEL" THEN Withdrawn(c, in[i].order)
    ELSE IF FirstIn(in, i) THEN OrderCore(c, in[i].order)
    ELSE c

\* The books are in order after every record, each follows from the one before
\* it, they hold only what has come, and never again what was cancelled.
HistoryIn(in, tr) ==
    /\ tr \in Seq(Cores) /\ Len(tr) <= Len(in)
    /\ \A i \in 0 .. Len(tr) :
         /\ CoreOK(CoreIn(tr, i))
         /\ \A v \in Venues, o \in Orders : Holds(CoreIn(tr, i)[v], o) => Came(in, o, 1, i)
    /\ \A i \in 1 .. Len(tr) : CoreIn(tr, i) = StepIn(in, i, CoreIn(tr, i - 1))
    /\ \A i \in 1 .. Len(tr), o \in Orders :
         in[i] = Cancel(o) => \A v \in Venues : ~Holds(CoreIn(tr, Len(tr))[v], o)

\* What record i would execute, were it met now.
DoneIn(in, tr, i) == IF FirstIn(in, i) THEN DoneBy(CoreIn(tr, i - 1), in[i].order) ELSE {}

\* Each execution has a number of its own, the book's counter is past it, it is
\* between orders that have come and within their sizes; and whatever a record
\* that was met would execute has been.
TradesIn(in, tr, list) ==
    /\ list \in Seq(Trades)
    /\ \A i, j \in 1 .. Len(list) : Identity(list[i]) = Identity(list[j]) => i = j
    /\ \A k \in 1 .. Len(list) : /\ list[k].seq <= CoreIn(tr, Len(tr))[list[k].venue].seq
                                 /\ Came(in, list[k].taker, 1, Len(tr))
                                 /\ Came(in, list[k].maker, 1, Len(tr))
    /\ \A o \in Orders : ExecutedIn(list, o) + Left(CoreIn(tr, Len(tr)), o) <= req[o].qty
    /\ \A i \in 1 .. Len(tr) : DoneIn(in, tr, i) \in SUBSET ToSet(list)

-----------------------------------------------------------------------------

\* Books of which nothing has come.
LEMMA CoreZero ==
    /\ CoreIn(<<>>, 0) \in Cores /\ CoreOK(CoreIn(<<>>, 0))
    /\ \A v \in Venues : \A o : ~Holds(CoreIn(<<>>, 0)[v], o)
    /\ \A v \in Venues : CoreIn(<<>>, 0)[v].seq = 0
    /\ \A o \in Orders : Left(CoreIn(<<>>, 0), o) = 0
  <1> DEFINE c == CoreIn(<<>>, 0)
             b == Saved(EmptyBook)
  <1>1. b = [resting |-> {}, arrival |-> 0, seq |-> 0]
    BY DEF Saved, EmptyBook
  <1>2. b \in SavedBook /\ b.resting = {} /\ b.arrival = 0 /\ b.seq = 0
    BY <1>1 DEF SavedBook
  <1>3. c = [v \in Venues |-> b]
    BY DEF CoreIn
  <1> HIDE DEF b, c
  <1>4. \A v \in Venues : c[v] = b
    BY <1>3
  <1>5. c \in Cores
    BY <1>2, <1>3 DEF Cores
  <1>6. \A v \in Venues : c[v].resting = {} /\ c[v].arrival = 0 /\ c[v].seq = 0
    BY <1>2, <1>4
  <1>7. QuotesOK({})
    BY FS_EmptySet DEF QuotesOK
  <1>8. CoreOK(c)
    <2>1. \A v \in Venues : QuotesOK(c[v].resting) /\ c[v].arrival \in Nat /\ c[v].seq \in Nat
      <3> TAKE v \in Venues
      <3>1. QuotesOK(c[v].resting)
        BY <1>6, <1>7, Zenon
      <3>2. c[v].arrival \in Nat /\ c[v].seq \in Nat
        BY <1>6
      <3> QED BY <3>1, <3>2
    <2>2. Placed(c)
      BY <1>6 DEF Placed
    <2>3. Uncrossed(c)
      BY <1>6 DEF Uncrossed
    <2> QED BY <2>1, <2>2, <2>3 DEF CoreOK
  <1>9. \A v \in Venues : \A o : ~Holds(c[v], o)
    BY <1>6 DEF Holds
  <1>10. \A o : Left(c, o) = 0
    BY <1>8, <1>9, LeftProps
  <1> QED BY <1>5, <1>6, <1>8, <1>9, <1>10 DEF c

\* A history in which nothing has happened.
LEMMA HistoryStart ==
    ASSUME ReqOK
    PROVE  HistoryIn(<<>>, <<>>) /\ TradesIn(<<>>, <<>>, <<>>)
  <1>1. /\ <<>> \in Seq(Cores) /\ <<>> \in Seq(Trades) /\ Len(<<>>) = 0
        /\ \A i : i \notin 1 .. 0
        /\ \A i \in 0 .. 0 : i = 0
    OBVIOUS
  <1>2. HistoryIn(<<>>, <<>>)
    BY <1>1, CoreZero DEF HistoryIn
  <1>3. ASSUME NEW o \in Orders
        PROVE  ExecutedIn(<<>>, o) + Left(CoreIn(<<>>, 0), o) <= req[o].qty
    <2>1. OwnIn(<<>>, o) = {}
      BY DEF OwnIn
    <2>2. ExecutedIn(<<>>, o) = 0
      BY <2>1, SumEmpty DEF ExecutedIn
    <2> QED BY <2>2, CoreZero, TermsOK
  <1> QED BY <1>1, <1>2, <1>3 DEF TradesIn

\* The history of a log that has grown.
LEMMA HistoryLonger ==
    ASSUME NEW in, NEW tr, HistoryIn(in, tr), NEW in2, in \in Seq(Records), in2 \in Seq(Records),
           Len(in) <= Len(in2), \A i \in 1 .. Len(in) : in2[i] = in[i]
    PROVE  /\ HistoryIn(in2, tr)
           /\ \A list : TradesIn(in, tr, list) => TradesIn(in2, tr, list)
  <1>1. tr \in Seq(Cores) /\ Len(tr) <= Len(in) /\ Len(in) \in Nat /\ Len(in2) \in Nat /\ Len(tr) \in Nat
    BY DEF HistoryIn
  <1>2. \A i \in 0 .. Len(tr) : \A o : Came(in, o, 1, i) => Came(in2, o, 1, i)
    BY <1>1 DEF Came
  <1>3. \A i \in 1 .. Len(tr) : in2[i] = in[i] /\ (FirstIn(in2, i) <=> FirstIn(in, i))
    <2> TAKE i \in 1 .. Len(tr)
    <2>1. in2[i] = in[i] /\ \A j \in 1 .. i - 1 : in2[j] = in[j]
      BY <1>1
    <2> QED BY <2>1 DEF FirstIn
  <1>4. \A i \in 1 .. Len(tr) : \A c : StepIn(in2, i, c) = StepIn(in, i, c)
    BY <1>3 DEF StepIn
  <1>5. \A i \in 1 .. Len(tr) : DoneIn(in2, tr, i) = DoneIn(in, tr, i)
    BY <1>3 DEF DoneIn
  <1>6. Len(tr) <= Len(in2)
    BY <1>1
  <1>7. HistoryIn(in2, tr)
    BY <1>1, <1>2, <1>3, <1>4, <1>6 DEF HistoryIn
  <1>8. ASSUME NEW list, TradesIn(in, tr, list) PROVE TradesIn(in2, tr, list)
    <2>1. Len(tr) \in 0 .. Len(tr)
      BY <1>1
    <2> QED BY <1>2, <1>5, <1>8, <2>1 DEF TradesIn
  <1> QED BY <1>7, <1>8

-----------------------------------------------------------------------------
(* One record more. *)

\* What a record does to books that are in order.
StepOK(in, i, c) ==
    /\ CoreOK(StepIn(in, i, c))
    /\ \A v \in Venues : c[v].seq <= StepIn(in, i, c)[v].seq
    /\ \A v \in Venues, p \in Orders :
         Holds(StepIn(in, i, c)[v], p) => in[i] # Cancel(p) /\ ((FirstIn(in, i) /\ in[i] = Order(p)) \/ Holds(c[v], p))
    /\ ~FirstIn(in, i) => \A p \in Orders : Left(StepIn(in, i, c), p) <= Left(c, p)
    /\ \A p \in Orders : Left(c, p) \in Nat /\ Left(StepIn(in, i, c), p) \in Nat
    /\ \A v \in Venues : c[v].seq \in Nat /\ StepIn(in, i, c)[v].seq \in Nat
    /\ FirstIn(in, i) => StepIn(in, i, c) = OrderCore(c, in[i].order) /\ OrderOK(c, in[i].order)

\* A record takes sound books to sound books.
LEMMA StepProps ==
    ASSUME ReqOK, NEW in, NEW i, in[i] \in Records, NEW c \in Cores, CoreOK(c),
           \A v \in Venues : FirstIn(in, i) => ~Holds(c[v], in[i].order)
    PROVE  StepOK(in, i, c)
  <1> DEFINE n == StepIn(in, i, c)
  <1>1. in[i].order \in Orders /\ in[i].type \in {"ORDER", "CANCEL"}
    BY RecordProps
  <1>2. PICK o \in Orders : o = in[i].order
    BY <1>1
  <1>3. \A p \in Orders : Left(c, p) \in Nat
    BY LeftType
  <1>4. \A v \in Venues : c[v].seq \in Nat
    BY DEF CoreOK
  <1>5. CASE in[i].type = "CANCEL"
    <2>1. n = Withdrawn(c, o) /\ in[i] = Cancel(o) /\ ~FirstIn(in, i)
      BY <1>2, <1>5, RecordProps DEF StepIn, FirstIn
    <2>2. CancelOK(c, o)
      BY WithdrawnProps
    <2>3. \A p \in Orders : in[i] = Cancel(p) => p = o
      BY <2>1, RecordProps
    <2> HIDE DEF n
    <2>4. CoreOK(n) /\ \A v \in Venues : n[v].seq = c[v].seq
      BY <2>1, <2>2 DEF CancelOK
    <2>5. \A v \in Venues, p \in Orders : Holds(n[v], p) => p # o /\ Holds(c[v], p)
      BY <2>1, <2>2 DEF CancelOK
    <2>6. \A p \in Orders : Left(n, p) \in Nat /\ Left(n, p) <= Left(c, p)
      BY <2>1, <2>2 DEF CancelOK
    <2> QED BY <1>3, <1>4, <2>1, <2>3, <2>4, <2>5, <2>6 DEF n, StepOK
  <1>6. CASE in[i].type = "ORDER"
    <2>1. in[i] = Order(o) /\ \A p \in Orders : in[i] # Cancel(p)
      BY <1>2, <1>6, RecordProps
    <2>2. CASE FirstIn(in, i)
      <3>1. n = OrderCore(c, o)
        BY <1>2, <1>6, <2>2 DEF StepIn
      <3>2. OrderOK(c, o)
        BY <1>2, <2>2, OrderCoreProps
      <3> HIDE DEF n
      <3>3. CoreOK(n) /\ \A v \in Venues : c[v].seq <= n[v].seq
        BY <3>1, <3>2 DEF OrderOK
      <3>4. \A v \in Venues, p \in Orders : Holds(n[v], p) => p = o \/ Holds(c[v], p)
        BY <3>1, <3>2 DEF OrderOK
      <3>5. \A p \in Orders : Left(n, p) \in Nat
        BY <3>3, LeftType
      <3>6. \A v \in Venues : n[v].seq \in Nat
        BY <3>3 DEF CoreOK
      <3> QED BY <1>2, <1>3, <1>4, <2>1, <2>2, <3>1, <3>2, <3>3, <3>4, <3>5, <3>6 DEF n, StepOK
    <2>3. CASE ~FirstIn(in, i)
      <3>1. n = c
        BY <1>6, <2>3 DEF StepIn
      <3> HIDE DEF n
      <3>2. \A v \in Venues : c[v].seq <= n[v].seq
        BY <1>4, <3>1
      <3>3. \A p \in Orders : Left(n, p) <= Left(c, p)
        BY <1>3, <3>1
      <3> QED BY <1>3, <1>4, <2>1, <2>3, <3>1, <3>2, <3>3 DEF n, StepOK
    <2> QED BY <2>2, <2>3
  <1> QED BY <1>1, <1>5, <1>6

\* The history after one record more.
LEMMA CoreLonger ==
    ASSUME NEW tr, tr \in Seq(Cores), NEW n, n \in Cores
    PROVE  /\ Append(tr, n) \in Seq(Cores) /\ Len(Append(tr, n)) = Len(tr) + 1
           /\ \A i \in 0 .. Len(tr) : CoreIn(Append(tr, n), i) = CoreIn(tr, i)
           /\ CoreIn(Append(tr, n), Len(tr) + 1) = n
           /\ \A i \in 0 .. Len(tr) : CoreIn(tr, i) \in Cores
  <1>1. /\ Append(tr, n) \in Seq(Cores) /\ Len(Append(tr, n)) = Len(tr) + 1
        /\ \A i \in 1 .. Len(tr) : Append(tr, n)[i] = tr[i] /\ tr[i] \in Cores
        /\ Append(tr, n)[Len(tr) + 1] = n
        /\ Len(tr) \in Nat
    OBVIOUS
  <1>2. CoreIn(tr, 0) \in Cores
    BY CoreZero DEF CoreIn
  <1>3. \A i \in 0 .. Len(tr) : i = 0 \/ i \in 1 .. Len(tr)
    OBVIOUS
  <1>4. Len(tr) + 1 # 0
    BY <1>1
  <1>5. \A i \in 0 .. Len(tr) : CoreIn(Append(tr, n), i) = CoreIn(tr, i) /\ CoreIn(tr, i) \in Cores
    BY <1>1, <1>2, <1>3 DEF CoreIn
  <1>6. CoreIn(Append(tr, n), Len(tr) + 1) = n
    BY <1>1, <1>4 DEF CoreIn
  <1> QED BY <1>1, <1>5, <1>6

\* What the record after those of a history finds.
LEMMA StepAfter ==
    ASSUME ReqOK, NEW in, in \in Seq(Records), NEW tr, HistoryIn(in, tr), Len(tr) < Len(in)
    PROVE  StepOK(in, Len(tr) + 1, CoreIn(tr, Len(tr)))
  <1> DEFINE T == Len(tr)
             c == CoreIn(tr, T)
  <1>1. tr \in Seq(Cores) /\ T \in Nat /\ T + 1 \in 1 .. Len(in) /\ T \in 0 .. T
    BY DEF HistoryIn
  <1>2. in[T + 1] \in Records /\ CoreOK(c)
    BY <1>1 DEF HistoryIn
  <1>3. c \in Cores
    <2>1. PICK n : n \in Cores
      BY CoreZero
    <2> QED BY <1>1, <2>1, CoreLonger
  <1>4. ASSUME NEW v \in Venues, FirstIn(in, T + 1), Holds(c[v], in[T + 1].order)
        PROVE  FALSE
    <2>1. in[T + 1].order \in Orders /\ in[T + 1] = Order(in[T + 1].order)
      BY <1>2, <1>4, RecordProps DEF FirstIn
    <2>2. Came(in, in[T + 1].order, 1, T)
      BY <1>1, <1>4, <2>1 DEF HistoryIn
    <2>3. PICK j \in 1 .. T : in[j] = in[T + 1]
      BY <2>1, <2>2 DEF Came
    <2>4. j \in 1 .. (T + 1) - 1
      BY <1>1
    <2> QED BY <1>4, <2>3, <2>4 DEF FirstIn
  <1> HIDE DEF c, T
  <1>5. StepOK(in, T + 1, c)
    BY <1>2, <1>3, <1>4, StepProps
  <1> QED BY <1>5 DEF c, T

\* The history after it.
LEMMA HistoryNew ==
    ASSUME ReqOK, NEW out, NEW in, NEW mark, LogIn(out, in, mark), NEW tr, HistoryIn(in, tr),
           Len(tr) < Len(in), NEW n, n \in Cores, n = StepIn(in, Len(tr) + 1, CoreIn(tr, Len(tr)))
    PROVE  HistoryIn(in, Append(tr, n))
  <1> DEFINE T == Len(tr)
             c == CoreIn(tr, T)
             tr2 == Append(tr, n)
  <1>1. tr \in Seq(Cores) /\ T \in Nat /\ T + 1 \in 1 .. Len(in) /\ T \in 0 .. T
        /\ in \in Seq(Records) /\ Len(in) \in Nat /\ Len(out) \in Nat /\ Len(tr) = T
    BY DEF HistoryIn, LogIn
  <1>2. StepOK(in, T + 1, c)
    BY <1>1, StepAfter
  <1>3. /\ tr2 \in Seq(Cores) /\ Len(tr2) = T + 1
        /\ \A i \in 0 .. T : CoreIn(tr2, i) = CoreIn(tr, i)
        /\ CoreIn(tr2, T + 1) = n /\ CoreIn(tr, T) = c
    BY <1>1, CoreLonger
  <1>4. n = StepIn(in, T + 1, c)
    OBVIOUS
  <1>5. \A i \in 0 .. T : \A o : Came(in, o, 1, i) => Came(in, o, 1, T + 1)
    BY <1>1 DEF Came
  <1>6. \A o : in[T + 1] = Order(o) => Came(in, o, 1, T + 1)
    BY <1>1 DEF Came
  <1> HIDE DEF T, c, tr2
  <1>7. ASSUME NEW i \in 0 .. T + 1
        PROVE  /\ CoreOK(CoreIn(tr2, i))
               /\ \A v \in Venues, o \in Orders : Holds(CoreIn(tr2, i)[v], o) => Came(in, o, 1, i)
    <2>1. CASE i \in 0 .. T
      <3>1. CoreIn(tr2, i) = CoreIn(tr, i) /\ i \in 0 .. Len(tr)
        BY <1>1, <1>3, <2>1
      <3>2. /\ CoreOK(CoreIn(tr, i))
            /\ \A v \in Venues, o \in Orders : Holds(CoreIn(tr, i)[v], o) => Came(in, o, 1, i)
        BY <3>1 DEF HistoryIn
      <3> QED BY <3>1, <3>2
    <2>2. CASE i = T + 1
      <3>1. CoreOK(n) /\ \A v \in Venues, p \in Orders :
              Holds(n[v], p) => in[T + 1] = Order(p) \/ Holds(c[v], p)
        BY <1>2, <1>4 DEF StepOK
      <3>2. \A v \in Venues, o \in Orders : Holds(c[v], o) => Came(in, o, 1, T)
        BY <1>1 DEF HistoryIn, c
      <3>3. \A v \in Venues, o \in Orders : Holds(n[v], o) => Came(in, o, 1, T + 1)
        BY <1>1, <1>5, <1>6, <3>1, <3>2
      <3> QED BY <1>3, <2>2, <3>1, <3>3
    <2> QED BY <1>1, <2>1, <2>2
  <1>8. ASSUME NEW i \in 1 .. T + 1
        PROVE  CoreIn(tr2, i) = StepIn(in, i, CoreIn(tr2, i - 1))
    <2>1. CASE i \in 1 .. T
      <3>1. i \in 0 .. T /\ i - 1 \in 0 .. T /\ i \in 1 .. Len(tr)
        BY <1>1, <2>1
      <3>2. CoreIn(tr, i) = StepIn(in, i, CoreIn(tr, i - 1))
        BY <3>1 DEF HistoryIn
      <3> QED BY <1>3, <3>1, <3>2
    <2>2. CASE i = T + 1
      <3>1. i - 1 = T /\ T \in 0 .. T
        BY <1>1, <2>2
      <3> QED BY <1>3, <1>4, <2>2, <3>1
    <2> QED BY <1>1, <2>1, <2>2
  <1>9. ASSUME NEW i \in 1 .. T + 1, NEW o \in Orders, in[i] = Cancel(o), NEW v \in Venues, Holds(n[v], o)
        PROVE  FALSE
    <2>1. in[T + 1] # Cancel(o) /\ ((FirstIn(in, T + 1) /\ in[T + 1] = Order(o)) \/ Holds(c[v], o))
      BY <1>2, <1>4, <1>9 DEF StepOK
    <2>2. i # T + 1
      BY <1>9, <2>1
    <2>3. i \in 1 .. Len(tr)
      BY <1>1, <2>2
    <2>4. ~Holds(c[v], o)
      BY <1>9, <2>3 DEF HistoryIn, c, T
    <2>5. i \in 1 .. Len(in)
      BY <1>1
    <2>6. PICK p \in 1 .. Len(out) : in[i] = out[p]
      BY <2>5 DEF LogIn
    <2>7. PICK q \in 1 .. p - 1 : out[q] = Order(o)
      BY <1>9, <2>6 DEF LogIn
    <2>8. \E j \in 1 .. i - 1 : in[j] = out[q]
      BY <2>5, <2>6 DEF LogIn
    <2>9. PICK j \in 1 .. i - 1 : in[j] = Order(o)
      BY <2>7, <2>8
    <2>10. j \in 1 .. (T + 1) - 1
      BY <1>1
    <2> QED BY <2>1, <2>4, <2>9, <2>10 DEF FirstIn
  <1>10. T + 1 <= Len(in)
    BY <1>1
  <1>11. HistoryIn(in, tr2)
    BY <1>3, <1>7, <1>8, <1>9, <1>10 DEF HistoryIn
  <1> QED BY <1>11 DEF tr2

\* A list that gets the members of D, each once.
AddsAll(more, D) ==
    /\ D \in SUBSET Trades /\ IsFiniteSet(D)
    /\ more \in Seq(D) /\ Len(more) = Cardinality(D)
    /\ \A i, j \in 1 .. Len(more) : more[i] = more[j] => i = j
    /\ \A x \in D : \E k \in 1 .. Len(more) : more[k] = x

\* Parts of some executions.
LEMMA PartProps ==
    ASSUME NEW D, D \in SUBSET Trades, IsFiniteSet(D), NEW p
    PROVE  /\ Total(Part(D, p)) \in Nat
           /\ (\A x \in D : x.taker = p) => Part(D, p) = D
           /\ D = {} => Total(Part(D, p)) = 0
  <1>1. Part(D, p) \in SUBSET D /\ IsFiniteSet(Part(D, p))
    BY FS_Subset DEF Part
  <1>2. \A x \in Part(D, p) : x.qty \in Nat
    BY <1>1 DEF Trades
  <1>3. Total(Part(D, p)) \in Nat
    BY <1>1, <1>2, TotalProps
  <1>4. (\A x \in D : x.taker = p) => Part(D, p) = D
    BY DEF Part
  <1>5. D = {} => Total(Part(D, p)) = 0
    BY <1>1, TotalProps
  <1> QED BY <1>3, <1>4, <1>5

\* What a list has that others are added to.
LEMMA JoinedProps ==
    ASSUME NEW S, NEW a, a \in Seq(S), NEW b, b \in Seq(S)
    PROVE  /\ a \o b \in Seq(S) /\ Len(a \o b) = Len(a) + Len(b)
           /\ \A k \in 1 .. Len(a) : (a \o b)[k] = a[k]
           /\ \A k \in 1 .. Len(b) : (a \o b)[Len(a) + k] = b[k]
           /\ \A k \in 1 .. Len(a) + Len(b) : k \in 1 .. Len(a) \/ k - Len(a) \in 1 .. Len(b)
           /\ ToSet(a \o b) = ToSet(a) \cup ToSet(b)
  <1>1. /\ a \o b \in Seq(S) /\ Len(a \o b) = Len(a) + Len(b)
        /\ \A k \in 1 .. Len(a) : (a \o b)[k] = a[k]
        /\ \A k \in 1 .. Len(b) : (a \o b)[Len(a) + k] = b[k]
        /\ Len(a) \in Nat /\ Len(b) \in Nat
    OBVIOUS
  <1>2. \A k \in 1 .. Len(a) + Len(b) : k \in 1 .. Len(a) \/ k - Len(a) \in 1 .. Len(b)
    BY <1>1
  <1> DEFINE c == a \o b
  <1>3. /\ c \in Seq(S) /\ Len(c) = Len(a) + Len(b)
        /\ \A k \in 1 .. Len(a) : c[k] = a[k]
        /\ \A k \in 1 .. Len(b) : c[Len(a) + k] = b[k]
    BY <1>1
  <1> HIDE DEF c
  <1>4. /\ \A x : x \in ToSet(a) <=> \E i \in 1 .. Len(a) : a[i] = x
        /\ \A x : x \in ToSet(b) <=> \E i \in 1 .. Len(b) : b[i] = x
        /\ \A x : x \in ToSet(c) <=> \E i \in 1 .. Len(c) : c[i] = x
    BY <1>3, ToSetOf
  <1>5. ASSUME NEW x, x \in ToSet(c) PROVE x \in ToSet(a) \cup ToSet(b)
    <2>1. PICK k \in 1 .. Len(a) + Len(b) : c[k] = x
      BY <1>3, <1>4, <1>5
    <2>2. CASE k \in 1 .. Len(a)
      BY <1>3, <1>4, <2>1, <2>2
    <2>3. CASE k - Len(a) \in 1 .. Len(b)
      <3>1. Len(a) + (k - Len(a)) = k
        BY <1>1
      <3>2. b[k - Len(a)] = x
        BY <1>3, <2>1, <2>3, <3>1
      <3> QED BY <1>4, <2>3, <3>2
    <2> QED BY <1>2, <2>2, <2>3
  <1>6. ASSUME NEW x, x \in ToSet(a) PROVE x \in ToSet(c)
    <2>1. PICK k \in 1 .. Len(a) : a[k] = x
      BY <1>4, <1>6
    <2>2. k \in 1 .. Len(c) /\ c[k] = x
      BY <1>1, <1>3, <2>1
    <2> QED BY <1>4, <2>2
  <1>7. ASSUME NEW x, x \in ToSet(b) PROVE x \in ToSet(c)
    <2>1. PICK k \in 1 .. Len(b) : b[k] = x
      BY <1>4, <1>7
    <2>2. Len(a) + k \in 1 .. Len(c) /\ c[Len(a) + k] = x
      BY <1>1, <1>3, <2>1
    <2> QED BY <1>4, <2>2
  <1> QED BY <1>1, <1>2, <1>5, <1>6, <1>7 DEF c

\* What is new of the executions of the record after a history.
NewOK(in, tr, list, D) ==
    LET T == Len(tr)
        c == CoreIn(tr, T)
        n == StepIn(in, T + 1, c)
    IN /\ \A x, y \in D : Identity(x) = Identity(y) => x = y
       /\ \A x \in D : /\ c[x.venue].seq < x.seq /\ x.seq <= n[x.venue].seq
                       /\ Came(in, x.taker, 1, T + 1) /\ Came(in, x.maker, 1, T + 1)
       /\ \A p \in Orders : ExecutedIn(list, p) + Total(Part(D, p)) + Left(n, p) <= req[p].qty
       /\ DoneIn(in, Append(tr, n), T + 1) = D

\* The executions of the record after a history carry identities nothing carries
\* yet.
LEMMA NewProps ==
    ASSUME ReqOK, NEW in, in \in Seq(Records), NEW tr, HistoryIn(in, tr), Len(tr) < Len(in),
           NEW list, TradesIn(in, tr, list),
           StepIn(in, Len(tr) + 1, CoreIn(tr, Len(tr))) \in Cores,
           NEW D, D = DoneIn(in, tr, Len(tr) + 1), D \in SUBSET Trades, IsFiniteSet(D)
    PROVE  NewOK(in, tr, list, D)
  <1> DEFINE T == Len(tr)
             c == CoreIn(tr, T)
             n == StepIn(in, T + 1, c)
             tr2 == Append(tr, n)
  <1>1. tr \in Seq(Cores) /\ T \in Nat /\ T + 1 \in 1 .. Len(in) /\ T \in 0 .. T /\ T + 1 - 1 = T
    BY DEF HistoryIn
  <1>2. StepOK(in, T + 1, c) /\ CoreOK(c)
    BY <1>1, StepAfter DEF HistoryIn
  <1>3. CoreIn(tr2, T) = c
    BY <1>1, CoreLonger
  <1>4. DoneIn(in, tr2, T + 1) = D
    BY <1>1, <1>3 DEF DoneIn
  <1>5. \A o : Came(in, o, 1, T) => Came(in, o, 1, T + 1)
    BY <1>1 DEF Came
  <1>6. \A p \in Orders : /\ ExecutedIn(list, p) + Left(c, p) <= req[p].qty
                          /\ ExecutedIn(list, p) \in Nat
    <2> TAKE p \in Orders
    <2>1. ExecutedIn(list, p) + Left(c, p) <= req[p].qty
      BY DEF TradesIn
    <2>2. list \in Seq(Trades) /\ {} \in SUBSET Trades /\ IsFiniteSet({}) /\ <<>> \in Seq({}) /\ Len(<<>>) = 0
      BY FS_EmptySet DEF TradesIn
    <2>3. ExecutedIn(list, p) \in Nat
      <3> DEFINE E == {}
                 m == <<>>
      <3>1. /\ E \in SUBSET Trades /\ IsFiniteSet(E) /\ m \in Seq(E)
            /\ \A i, j \in 1 .. Len(m) : m[i] = m[j] => i = j
            /\ \A x \in E : \E k \in 1 .. Len(m) : m[k] = x
        BY <2>2
      <3> HIDE DEF E, m
      <3> QED BY <2>2, <3>1, ExecutedMore
    <2> QED BY <2>1, <2>3
  <1>7. \A p \in Orders : req[p].qty \in Nat
    BY TermsOK
  <1>8. \A p \in Orders : Left(c, p) \in Nat /\ Left(n, p) \in Nat
    <2> HIDE DEF n, c, T
    <2> QED BY <1>2 DEF StepOK, n
  <1>9. CASE FirstIn(in, T + 1)
    <2>1. in[T + 1] \in Records
      BY <1>1
    <2>2. PICK o \in Orders : o = in[T + 1].order /\ in[T + 1] = Order(o)
      BY <1>9, <2>1, RecordProps DEF FirstIn
    <2>3. n = OrderCore(c, o) /\ OrderOK(c, o)
      <3> HIDE DEF n, c, T
      <3> QED BY <1>2, <1>9, <2>2 DEF StepOK, n
    <2>4. D = DoneBy(c, o)
      BY <1>1, <1>9, <2>2 DEF DoneIn
    <2>5. DoneOK(c, o)
      <3>1. AllQuotesOK(c) /\ \A v \in Venues : c[v].seq \in Nat
        <4> HIDE DEF c
        <4> QED BY <1>2 DEF CoreOK, AllQuotesOK
      <3> HIDE DEF c
      <3> QED BY <3>1, DoneProps
    <2>6. Came(in, o, 1, T + 1) /\ ~Came(in, o, 1, T)
      <3>1. \A j \in 1 .. T : in[j] # Order(o)
        BY <1>1, <1>9, <2>2 DEF FirstIn
      <3>2. T + 1 \in 1 .. T + 1 /\ in[T + 1] = Order(o)
        BY <1>1, <2>2
      <3> HIDE DEF T
      <3>3. Came(in, o, 1, T + 1)
        BY <3>2 DEF Came
      <3>4. ~Came(in, o, 1, T)
        BY <3>1 DEF Came
      <3> QED BY <3>3, <3>4
    <2>7. \A v \in Venues, p \in Orders : Holds(c[v], p) => Came(in, p, 1, T)
      BY <1>1 DEF HistoryIn
    <2>8. ExecutedIn(list, o) = 0
      <3>1. list \in Seq(Trades)
        BY DEF TradesIn
      <3>2. \A k \in 1 .. Len(list) : list[k].taker # o /\ list[k].maker # o
        <4>1. \A k \in 1 .. Len(list) : Came(in, list[k].taker, 1, T) /\ Came(in, list[k].maker, 1, T)
          BY DEF TradesIn
        <4> QED BY <2>6, <4>1
      <3>3. DOMAIN list = 1 .. Len(list)
        BY <3>1
      <3>4. OwnIn(list, o) = {}
        BY <3>2, <3>3 DEF OwnIn
      <3> QED BY <3>4, SumEmpty DEF ExecutedIn
    <2> HIDE DEF c, n, T, tr2
    <2>9. \A x, y \in D : Identity(x) = Identity(y) => x = y
      BY <2>4, <2>5 DEF DoneOK, Identity
    <2>10. \A x \in D : /\ x.venue \in Venues /\ x.taker = o /\ x.maker \in Orders
                        /\ x.seq \in c[x.venue].seq + 1 .. n[x.venue].seq
                        /\ Holds(c[x.venue], x.maker)
      BY <2>3, <2>4 DEF OrderOK
    <2>11. \A v \in Venues : c[v].seq \in Nat
      BY <1>2 DEF CoreOK
    <2>12. \A x \in D : c[x.venue].seq < x.seq /\ x.seq <= n[x.venue].seq
      <3> TAKE x \in D
      <3>1. x.venue \in Venues /\ x.seq \in c[x.venue].seq + 1 .. n[x.venue].seq
        BY <2>10
      <3>2. c[x.venue].seq \in Nat
        BY <2>11, <3>1
      <3> QED BY <3>1, <3>2
    <2>13. \A x \in D : Came(in, x.taker, 1, T + 1) /\ Came(in, x.maker, 1, T + 1)
      BY <1>5, <2>6, <2>7, <2>10
    <2>14. ASSUME NEW p \in Orders
           PROVE  ExecutedIn(list, p) + Total(Part(D, p)) + Left(n, p) <= req[p].qty
      <3>1. Total(Part(D, p)) \in Nat
        BY PartProps
      <3>2. CASE p = o
        <4>1. Part(D, p) = D
          BY <2>10, <3>2, PartProps
        <4>2. Left(n, o) + Total(D) <= req[o].qty
          BY <2>3, <2>4 DEF OrderOK
        <4> QED BY <1>7, <1>8, <2>8, <3>1, <3>2, <4>1, <4>2
      <3>3. CASE p # o
        <4>1. Left(n, p) + Total(Part(D, p)) = Left(c, p)
          BY <2>3, <2>4, <3>3 DEF OrderOK
        <4> QED BY <1>6, <1>7, <1>8, <3>1, <4>1
      <3> QED BY <3>2, <3>3
    <2>15. NewOK(in, tr, list, D)
      BY <1>4, <2>9, <2>12, <2>13, <2>14 DEF NewOK, T, c, n, tr2
    <2> QED BY <2>15
  <1>10. CASE ~FirstIn(in, T + 1)
    <2>1. D = {}
      BY <1>10 DEF DoneIn
    <2>2. \A p \in Orders : Left(n, p) <= Left(c, p)
      <3> HIDE DEF n, c, T
      <3> QED BY <1>2, <1>10 DEF StepOK, n
    <2>3. ASSUME NEW p \in Orders
          PROVE  ExecutedIn(list, p) + Total(Part(D, p)) + Left(n, p) <= req[p].qty
      <3>1. Total(Part(D, p)) = 0
        BY <2>1, PartProps
      <3> HIDE DEF n, c, T
      <3> QED BY <1>6, <1>7, <1>8, <2>2, <3>1
    <2>4. \A x : x \notin D
      BY <2>1
    <2> HIDE DEF c, n, T, tr2
    <2> QED BY <1>4, <2>3, <2>4 DEF NewOK, T, c, n, tr2
  <1> QED BY <1>9, <1>10

\* The executions after the record after a history: those of the record are
\* new, and they are added.
LEMMA TradesNew ==
    ASSUME ReqOK, NEW in, in \in Seq(Records), NEW tr, HistoryIn(in, tr), Len(tr) < Len(in),
           NEW list, TradesIn(in, tr, list),
           NEW n, n \in Cores, n = StepIn(in, Len(tr) + 1, CoreIn(tr, Len(tr))),
           NEW D, D = DoneIn(in, tr, Len(tr) + 1), D \in SUBSET Trades, IsFiniteSet(D),
           NEW more, AddsAll(more, D \ ToSet(list))
    PROVE  TradesIn(in, Append(tr, n), list \o more)
  <1> DEFINE T == Len(tr)
             c == CoreIn(tr, T)
             tr2 == Append(tr, n)
             list2 == list \o more
  <1>1. tr \in Seq(Cores) /\ T \in Nat /\ T + 1 \in 1 .. Len(in) /\ T \in 0 .. T /\ list \in Seq(Trades)
    BY DEF HistoryIn, TradesIn
  <1>2. /\ tr2 \in Seq(Cores) /\ Len(tr2) = T + 1
        /\ \A i \in 0 .. T : CoreIn(tr2, i) = CoreIn(tr, i)
        /\ CoreIn(tr2, T + 1) = n /\ CoreIn(tr, T) = c
    BY <1>1, CoreLonger
  <1>3. StepOK(in, T + 1, c)
    BY <1>1, StepAfter
  <1>4. /\ \A v \in Venues : c[v].seq \in Nat /\ n[v].seq \in Nat /\ c[v].seq <= n[v].seq
    <2> HIDE DEF c, T
    <2>1. n = StepIn(in, T + 1, c)
      BY DEF c, T
    <2> QED BY <1>3, <2>1 DEF StepOK
  <1>5. NewOK(in, tr, list, D)
    BY NewProps
  <1>6. /\ \A x, y \in D : Identity(x) = Identity(y) => x = y
        /\ \A x \in D : /\ c[x.venue].seq < x.seq /\ x.seq <= n[x.venue].seq
                        /\ Came(in, x.taker, 1, T + 1) /\ Came(in, x.maker, 1, T + 1)
        /\ \A p \in Orders : ExecutedIn(list, p) + Total(Part(D, p)) + Left(n, p) <= req[p].qty
        /\ DoneIn(in, tr2, T + 1) = D
    BY <1>5 DEF NewOK
  <1>7. \A x : x \in ToSet(list) <=> \E i \in 1 .. Len(list) : list[i] = x
    BY <1>1, ToSetOf
  <1>8. \A k \in 1 .. Len(list) : /\ list[k] \in Trades /\ list[k].venue \in Venues /\ list[k].seq \in Nat
                                  /\ list[k].seq <= c[list[k].venue].seq
                                  /\ Came(in, list[k].taker, 1, T) /\ Came(in, list[k].maker, 1, T)
    <2> TAKE k \in 1 .. Len(list)
    <2>1. list[k] \in Trades
      BY <1>1
    <2>2. list[k].venue \in Venues /\ list[k].seq \in Nat
      BY <2>1 DEF Trades
    <2>3. /\ list[k].seq <= c[list[k].venue].seq
          /\ Came(in, list[k].taker, 1, T) /\ Came(in, list[k].maker, 1, T)
      BY DEF TradesIn
    <2> QED BY <2>1, <2>2, <2>3
  <1>9. \A x \in D : x \in Trades /\ x.venue \in Venues /\ x.seq \in Nat
    BY DEF Trades
  <1>10. \A k \in 1 .. Len(list) : \A x \in D : Identity(list[k]) # Identity(x)
    <2> HIDE DEF c, T
    <2> TAKE k \in 1 .. Len(list)
    <2> TAKE x \in D
    <2> SUFFICES ASSUME Identity(list[k]) = Identity(x) PROVE FALSE
      OBVIOUS
    <2>1. list[k].venue = x.venue /\ list[k].seq = x.seq
      BY DEF Identity
    <2>2. list[k].seq <= c[x.venue].seq /\ c[x.venue].seq < x.seq /\ c[x.venue].seq \in Nat /\ x.seq \in Nat
      BY <1>4, <1>6, <1>8, <1>9, <2>1
    <2> QED BY <2>1, <2>2
  <1>11. D \ ToSet(list) = D
    <2>1. \A x \in D : x \notin ToSet(list)
      BY <1>7, <1>10
    <2> QED BY <2>1
  <1>12. /\ more \in Seq(D) /\ \A i, j \in 1 .. Len(more) : more[i] = more[j] => i = j
         /\ \A x \in D : \E k \in 1 .. Len(more) : more[k] = x
    BY <1>11 DEF AddsAll
  <1>13. more \in Seq(Trades) /\ \A k \in 1 .. Len(more) : more[k] \in D
    BY <1>12
  <1>14. /\ list2 \in Seq(Trades) /\ Len(list2) = Len(list) + Len(more)
         /\ \A k \in 1 .. Len(list) : list2[k] = list[k]
         /\ \A k \in 1 .. Len(more) : list2[Len(list) + k] = more[k]
         /\ \A k \in 1 .. Len(list) + Len(more) : k \in 1 .. Len(list) \/ k - Len(list) \in 1 .. Len(more)
         /\ ToSet(list2) = ToSet(list) \cup ToSet(more)
    BY <1>1, <1>13, JoinedProps
  <1>15. \A x : x \in ToSet(more) <=> \E i \in 1 .. Len(more) : more[i] = x
    BY <1>13, ToSetOf
  <1>16. \A p \in Orders : ExecutedIn(list2, p) = ExecutedIn(list, p) + Total(Part(D, p))
    <2> TAKE p \in Orders
    <2> HIDE DEF list2, c, T, tr2
    <2>1. /\ list \in Seq(Trades) /\ D \in SUBSET Trades /\ IsFiniteSet(D) /\ more \in Seq(D)
          /\ \A i, j \in 1 .. Len(more) : more[i] = more[j] => i = j
          /\ \A x \in D : \E k \in 1 .. Len(more) : more[k] = x
      BY <1>1, <1>12
    <2>2. ExecutedIn(list \o more, p) = ExecutedIn(list, p) + Total(Part(D, p))
      BY ONLY <2>1, ExecutedMore
    <2> QED BY <2>2 DEF list2
  <1> HIDE DEF c, T, tr2, list2
  <1>17. \A k \in 1 .. Len(list2) :
           \/ k \in 1 .. Len(list) /\ list2[k] = list[k]
           \/ k - Len(list) \in 1 .. Len(more) /\ list2[k] = more[k - Len(list)] /\ list2[k] \in D
    <2> TAKE k \in 1 .. Len(list2)
    <2>1. k \in 1 .. Len(list) \/ k - Len(list) \in 1 .. Len(more)
      BY <1>14
    <2>2. Len(list) \in Nat /\ k \in Nat /\ Len(list) + (k - Len(list)) = k
      BY <1>1
    <2>3. ASSUME k - Len(list) \in 1 .. Len(more) PROVE list2[k] = more[k - Len(list)] /\ list2[k] \in D
      <3>1. list2[Len(list) + (k - Len(list))] = more[k - Len(list)]
        BY <1>14, <2>3
      <3> QED BY <1>13, <2>2, <2>3, <3>1
    <2> QED BY <1>14, <2>1, <2>3
  <1>18. \A i, j \in 1 .. Len(list2) : Identity(list2[i]) = Identity(list2[j]) => i = j
    <2> SUFFICES ASSUME NEW i \in 1 .. Len(list2), NEW j \in 1 .. Len(list2),
                        Identity(list2[i]) = Identity(list2[j])
                 PROVE  i = j
      OBVIOUS
    <2>1. CASE i \in 1 .. Len(list) /\ j \in 1 .. Len(list)
      <3>1. Identity(list[i]) = Identity(list[j])
        BY <1>14, <2>1
      <3> QED BY <2>1, <3>1 DEF TradesIn
    <2>2. CASE i - Len(list) \in 1 .. Len(more) /\ j - Len(list) \in 1 .. Len(more)
      <3>1. Len(list) \in Nat /\ i \in Nat /\ j \in Nat
        BY <1>1, <1>14
      <3>2. \A k \in 1 .. Len(list2) : k - Len(list) \in 1 .. Len(more) => k \notin 1 .. Len(list)
        BY <1>1
      <3>3. /\ list2[i] = more[i - Len(list)] /\ list2[i] \in D
            /\ list2[j] = more[j - Len(list)] /\ list2[j] \in D
        BY <1>17, <2>2, <3>2
      <3>4. more[i - Len(list)] = more[j - Len(list)]
        BY <1>6, <3>3
      <3>5. i - Len(list) = j - Len(list)
        BY <1>12, <2>2, <3>4
      <3> QED BY <3>1, <3>5
    <2>3. CASE list2[i] = list[i] /\ i \in 1 .. Len(list) /\ list2[j] \in D
      BY <1>10, <2>3
    <2>4. CASE list2[j] = list[j] /\ j \in 1 .. Len(list) /\ list2[i] \in D
      BY <1>10, <2>4
    <2> QED BY <1>17, <2>1, <2>2, <2>3, <2>4
  <1>19. \A o : Came(in, o, 1, T) => Came(in, o, 1, T + 1)
    BY <1>1 DEF Came
  <1>20. ASSUME NEW k \in 1 .. Len(list2)
         PROVE  /\ list2[k].seq <= n[list2[k].venue].seq
                /\ Came(in, list2[k].taker, 1, T + 1)
                /\ Came(in, list2[k].maker, 1, T + 1)
    <2>1. CASE k \in 1 .. Len(list) /\ list2[k] = list[k]
      <3> DEFINE x == list[k]
      <3>1. x.venue \in Venues /\ x.seq \in Nat /\ x.seq <= c[x.venue].seq
            /\ Came(in, x.taker, 1, T) /\ Came(in, x.maker, 1, T)
        BY <1>8, <2>1
      <3>2. list2[k] = x
        BY <2>1
      <3> HIDE DEF x
      <3>3. x.seq <= n[x.venue].seq
        BY <1>4, <3>1
      <3> QED BY <1>19, <3>1, <3>2, <3>3
    <2>2. CASE list2[k] \in D
      BY <1>6, <2>2
    <2> QED BY <1>17, <2>1, <2>2
  <1>21. ASSUME NEW p \in Orders
         PROVE  ExecutedIn(list2, p) + Left(n, p) <= req[p].qty
    BY <1>6, <1>16
  <1>22. ASSUME NEW i \in 1 .. T + 1
         PROVE  DoneIn(in, tr2, i) \in SUBSET ToSet(list2)
    <2>1. CASE i = T + 1
      BY <1>6, <1>12, <1>14, <1>15, <2>1
    <2>2. CASE i \in 1 .. T
      <3>1. i - 1 \in 0 .. T
        BY <1>1, <2>2
      <3>2. DoneIn(in, tr2, i) = DoneIn(in, tr, i)
        BY <1>2, <3>1 DEF DoneIn
      <3>3. DoneIn(in, tr, i) \in SUBSET ToSet(list)
        BY <2>2 DEF TradesIn, T
      <3> QED BY <1>14, <3>2, <3>3
    <2> QED BY <1>1, <2>1, <2>2
  <1>23. TradesIn(in, tr2, list2)
    BY <1>2, <1>14, <1>18, <1>20, <1>21, <1>22 DEF TradesIn
  <1> QED BY <1>23 DEF tr2, list2

-----------------------------------------------------------------------------
(* The shard: what it knows beside the history. *)

\* No order is published both before and after an offset the shard was
\* restarted from.
NoCopyAcrossRestart ==
    \A c \in restarts : \A i \in 1 .. c - 1, j \in c .. Len(inbound) :
      inbound[i].type = "ORDER" => inbound[i] # inbound[j]

\* However often batches are published again and the shard is restarted, all of
\* this holds, until a copy of an order arrives on the other side of a restart
\* (partitionState of matching.go, whose ring no snapshot has).
SoundAcrossRestarts ==
    NoCopyAcrossRestart =>
      NeverCrossed /\ ExecutedWithinSize /\ SameFill /\ ReplayRebuilds /\ CancelIsFinal

\* Where it stands and was restarted.
MarksOK == /\ restarts \in SUBSET (Nat \ {0}) /\ at \in Nat \ {0} /\ next \in Nat \ {0}
           /\ saved.next \in Nat \ {0}

ReaderOK == at \in 1 .. Len(trace) + 1 /\ next = at

\* The ring has been filled since the start or some restart.
RingOK == \E s \in restarts \cup {1} : s <= at /\ RingIn(inbound, seen, s, at)

\* The books are those of the history where the reader stands, and what they
\* remember beside has come.
BooksOK ==
    /\ books \in Books /\ Core(books) = CoreIn(trace, at - 1)
    /\ \A v \in Venues : \A o \in ToSet(books[v].recent) : Came(inbound, o, 1, at - 1)

SavedOK == saved.next \in 1 .. Len(trace) + 1 /\ saved.books = CoreIn(trace, saved.next - 1)

AnswersOK ==
    /\ outcomes \in Seq(ToSet(outcomes))
    /\ \A o \in Orders, removed \in BOOLEAN :
         Verdict(o, removed) \in ToSet(outcomes) => \E i \in 1 .. Len(trace) : inbound[i] = Cancel(o)

ShardOK ==
    /\ HistoryIn(inbound, trace) /\ TradesIn(inbound, trace, fills)
    /\ ReaderOK /\ RingOK /\ BooksOK /\ SavedOK /\ AnswersOK

IInv == ReqOK /\ LogOK /\ MarksOK /\ (NoCopyAcrossRestart => ShardOK)

\* What a record is produced for a record that arrives.
RecordsOK(rs, rec) ==
    /\ rs \in Seq(ToSet(rs))
    /\ \A o \in Orders, removed \in BOOLEAN : Verdict(o, removed) \in ToSet(rs) => rec = Cancel(o)

\* What handling the record the reader stands at makes of everything.
EffectOK(e) ==
    /\ e.books \in Books /\ Core(e.books) = StepIn(inbound, at, CoreIn(trace, at - 1))
    /\ \A v \in Venues : \A o \in ToSet(e.books[v].recent) : Came(inbound, o, 1, at)
    /\ \E s \in restarts \cup {1} : s <= at /\ RingIn(inbound, e.seen, s, at + 1)
    /\ DoneIn(inbound, trace, at) \in SUBSET Trades /\ IsFiniteSet(DoneIn(inbound, trace, at))
    /\ \E more : e.fills = fills \o more /\ AddsAll(more, DoneIn(inbound, trace, at) \ ToSet(fills))
    /\ RecordsOK(e.records, inbound[at])

-----------------------------------------------------------------------------

\* A list is a list of what it holds.
LEMMA OwnMembers ==
    ASSUME NEW S, NEW s, s \in Seq(S)
    PROVE  s \in Seq(ToSet(s)) /\ \A x : x \in ToSet(s) <=> \E k \in 1 .. Len(s) : s[k] = x
  <1>1. \A x : x \in ToSet(s) <=> \E k \in 1 .. Len(s) : s[k] = x
    BY ToSetOf
  <1>2. Len(s) \in Nat /\ s = [k \in 1 .. Len(s) |-> s[k]]
    OBVIOUS
  <1>3. \A k \in 1 .. Len(s) : s[k] \in ToSet(s)
    BY <1>1
  <1> DEFINE A == ToSet(s)
  <1> HIDE DEF A
  <1>4. \A k \in 1 .. Len(s) : s[k] \in A
    BY <1>3 DEF A
  <1>5. s \in Seq(A)
    BY <1>2, <1>4
  <1> QED BY <1>1, <1>5 DEF A

\* The halves and the disposition of an order hold no verdict.
LEMMA OrderRecordsOK ==
    ASSUME NEW o, NEW done, Len(Listed(books, o, done)) \in Nat, NEW rec
    PROVE  RecordsOK(OrderRecords(o, done), rec)
  <1> DEFINE h == Halves(o, done)
             d == Disposition(o, Fate(o, done))
             N == 2 * Len(Listed(books, o, done))
             S == {h[i] : i \in 1 .. N} \cup {d}
  <1>1. N \in Nat
    OBVIOUS
  <1>2. /\ h = [i \in 1 .. N |-> h[i]]
        /\ \A i \in 1 .. N : \E a, k, role : h[i] = Half(a, k, role)
    <2>1. PICK g : g = Halves(o, done)
      OBVIOUS
    <2>2. DOMAIN g = 1 .. N /\ g = [i \in DOMAIN g |-> g[i]]
      BY <2>1 DEF Halves
    <2>3. \A i \in 1 .. N : \E a, k, role : g[i] = Half(a, k, role)
      BY <2>1 DEF Halves
    <2> QED BY <2>1, <2>2, <2>3
  <1>3. \A i \in 1 .. N : h[i].type = "HALF"
    BY <1>2 DEF Half
  <1>4. d.type = "DISPOSITION" /\ \A p, removed : Verdict(p, removed).type = "VERDICT"
    BY DEF Disposition, Verdict
  <1> HIDE DEF h, d, N
  <1>5. h \in Seq(S) /\ Len(h) = N /\ d \in S
    BY <1>1, <1>2
  <1>6. \A x \in S : x.type # "VERDICT"
    BY <1>3, <1>4
  <1> DEFINE rs == Append(h, d)
  <1>7. rs \in Seq(S)
    BY <1>5
  <1> HIDE DEF rs, S
  <1>8. rs \in Seq(ToSet(rs)) /\ \A x \in ToSet(rs) : x \in S
    BY <1>7, OwnMembers
  <1>9. \A p \in Orders, removed \in BOOLEAN : Verdict(p, removed) \notin ToSet(rs)
    BY <1>4, <1>6, <1>8
  <1>10. RecordsOK(rs, rec)
    BY <1>8, <1>9 DEF RecordsOK
  <1> QED BY <1>10 DEF rs, h, d, OrderRecords

\* One verdict, or nothing.
LEMMA CancelRecordsOK ==
    ASSUME NEW o, NEW removed \in BOOLEAN
    PROVE  RecordsOK(<<Verdict(o, removed)>>, Cancel(o)) /\ RecordsOK(<<>>, Cancel(o))
  <1>1. <<Verdict(o, removed)>> \in Seq({Verdict(o, removed)}) /\ Len(<<Verdict(o, removed)>>) = 1
        /\ <<Verdict(o, removed)>>[1] = Verdict(o, removed)
    OBVIOUS
  <1>2. <<>> \in Seq({}) /\ Len(<<>>) = 0
    OBVIOUS
  <1>3. \A p, q, a, b : Verdict(p, a) = Verdict(q, b) => p = q
    <2>1. \A p, a : Verdict(p, a).order = p
      BY DEF Verdict
    <2> QED BY <2>1
  <1> DEFINE rs == <<Verdict(o, removed)>>
  <1>4. rs \in Seq({Verdict(o, removed)}) /\ Len(rs) = 1 /\ rs[1] = Verdict(o, removed)
    BY <1>1
  <1> HIDE DEF rs
  <1>5. rs \in Seq(ToSet(rs)) /\ \A x \in ToSet(rs) : x = Verdict(o, removed)
    BY <1>4, OwnMembers
  <1>6. RecordsOK(rs, Cancel(o))
    BY <1>3, <1>5 DEF RecordsOK
  <1> DEFINE none == <<>>
             E == {}
  <1>7. none \in Seq(E) /\ Len(none) = 0
    BY <1>2
  <1> HIDE DEF none, E
  <1>8. none \in Seq(ToSet(none)) /\ \A x : x \notin ToSet(none)
    <2>1. none \in Seq(ToSet(none))
      BY <1>7, OwnMembers
    <2>2. DOMAIN none = 1 .. 0 /\ \A k : k \notin 1 .. 0
      BY <1>7
    <2>3. \A x : x \notin ToSet(none)
      BY <2>2 DEF ToSet
    <2> QED BY <2>1, <2>3
  <1>9. RecordsOK(none, Cancel(o))
    BY <1>8 DEF RecordsOK
  <1> QED BY <1>6, <1>9 DEF rs, none

\* An order in no ring and no book is new: a copy since the ring was emptied
\* would be in the ring, and one before that is ruled out.
LEMMA FreshOrder ==
    ASSUME LogOK, MarksOK, NoCopyAcrossRestart, RingOK, BooksOK, at <= Len(inbound),
           NEW o \in Orders, inbound[at] = Order(o), o \notin ToSet(seen),
           \A v \in Venues : \A p \in Orders : Holds(Core(books)[v], p) => Came(inbound, p, 1, at - 1)
    PROVE  /\ FirstIn(inbound, at)
           /\ \A v \in Venues : ~Seen(books[v], o)
  <1>1. PICK s \in restarts \cup {1} : s <= at /\ RingIn(inbound, seen, s, at)
    BY DEF RingOK
  <1>2. s \in Nat \ {0} /\ at \in Nat \ {0} /\ inbound \in Seq(Records) /\ LogIn(outbox, inbound, marked)
    <2>1. LogIn(outbox, inbound, marked)
      BY DEF LogOK
    <2>2. inbound \in Seq(Records)
      BY <2>1 DEF LogIn
    <2>3. s \in Nat \ {0} /\ at \in Nat \ {0}
      BY DEF MarksOK
    <2> QED BY <2>1, <2>2, <2>3
  <1>3. at \in 1 .. Len(inbound) /\ Len(inbound) \in Nat
    BY <1>2
  <1>4. ~Came(inbound, o, s, at - 1)
    BY <1>1, <1>2, <1>3, RingKnows
  <1>5. ASSUME NEW j \in 1 .. at - 1, inbound[j] = inbound[at]
        PROVE  FALSE
    <2>1. j < s
      BY <1>2, <1>4, <1>5 DEF Came
    <2>2. s \in restarts /\ j \in 1 .. s - 1 /\ at \in s .. Len(inbound)
      BY <1>1, <1>2, <1>3, <2>1
    <2>3. inbound[j].type = "ORDER"
      BY <1>5, RecordProps
    <2> QED BY <1>5, <2>2, <2>3 DEF NoCopyAcrossRestart
  <1>6. FirstIn(inbound, at)
    BY <1>5, RecordProps DEF FirstIn
  <1>7. ~Came(inbound, o, 1, at - 1)
    BY <1>5 DEF Came
  <1>8. ASSUME NEW v \in Venues, Seen(books[v], o) PROVE FALSE
    <2>1. o \notin ToSet(books[v].recent)
      BY <1>7 DEF BooksOK
    <2>2. Holds(books[v], o)
      BY <1>8, <2>1 DEF Seen
    <2>3. books \in Books
      BY DEF BooksOK
    <2>4. Holds(Core(books)[v], o)
      BY <2>2, <2>3, CoreShape
    <2> QED BY <1>7, <2>4
  <1> QED BY <1>6, <1>8

\* Nothing to add.
LEMMA AddsNothing == /\ AddsAll(<<>>, {}) /\ \A s \in Seq(Trades) : s \o <<>> = s
                     /\ {} \in SUBSET Trades /\ IsFiniteSet({}) /\ \A S : {} \ S = {}
  <1> DEFINE none == <<>>
             E == {}
  <1>1. none \in Seq(E) /\ Len(none) = 0 /\ \A k : k \notin 1 .. 0
    OBVIOUS
  <1>2. E \in SUBSET Trades /\ IsFiniteSet(E) /\ Cardinality(E) = 0 /\ \A x : x \notin E
    BY FS_EmptySet
  <1>3. \A s \in Seq(Trades) : s \o none = s
    OBVIOUS
  <1>4. \A S : E \ S = E
    OBVIOUS
  <1> HIDE DEF none, E
  <1>5. AddsAll(none, E)
    BY <1>1, <1>2 DEF AddsAll
  <1> QED BY <1>2, <1>3, <1>4, <1>5 DEF none, E

\* Where the reader stands.
LEMMA ReaderStands ==
    ASSUME ReqOK, LogOK, MarksOK, ShardOK, at <= Len(inbound)
    PROVE  /\ at \in 1 .. Len(inbound) /\ inbound[at] \in Records /\ at - 1 \in 0 .. Len(trace)
           /\ at \in Nat /\ inbound \in Seq(Records) /\ LogIn(outbox, inbound, marked)
           /\ fills \in Seq(Trades) /\ trace \in Seq(Cores)
           /\ Core(books) = CoreIn(trace, at - 1) /\ CoreOK(Core(books)) /\ books \in Books
           /\ \A v \in Venues : \A p \in Orders : Holds(Core(books)[v], p) => Came(inbound, p, 1, at - 1)
           /\ \A v \in Venues : \A p \in ToSet(books[v].recent) : Came(inbound, p, 1, at)
  <1>1. LogIn(outbox, inbound, marked)
    BY DEF LogOK
  <1>2. inbound \in Seq(Records) /\ Len(inbound) \in Nat
    BY <1>1 DEF LogIn
  <1>3. HistoryIn(inbound, trace) /\ TradesIn(inbound, trace, fills) /\ ReaderOK /\ BooksOK
    BY DEF ShardOK
  <1>4. trace \in Seq(Cores) /\ fills \in Seq(Trades) /\ Len(trace) \in Nat
    <2>1. trace \in Seq(Cores)
      BY <1>3 DEF HistoryIn
    <2>2. fills \in Seq(Trades)
      BY <1>3 DEF TradesIn
    <2> QED BY <2>1, <2>2
  <1>5. at \in Nat /\ at - 1 \in 0 .. Len(trace) /\ at \in 1 .. Len(inbound)
    BY <1>2, <1>3, <1>4 DEF ReaderOK
  <1>6. /\ CoreOK(CoreIn(trace, at - 1))
        /\ \A v \in Venues, p \in Orders : Holds(CoreIn(trace, at - 1)[v], p) => Came(inbound, p, 1, at - 1)
    BY <1>3, <1>5 DEF HistoryIn
  <1>7. /\ books \in Books /\ Core(books) = CoreIn(trace, at - 1)
        /\ \A v \in Venues : \A p \in ToSet(books[v].recent) : Came(inbound, p, 1, at - 1)
    BY <1>3 DEF BooksOK
  <1>8. \A p : Came(inbound, p, 1, at - 1) => Came(inbound, p, 1, at)
    BY <1>5 DEF Came
  <1>9. inbound[at] \in Records
    BY <1>2, <1>5
  <1>10. \A v \in Venues : \A p \in ToSet(books[v].recent) : Came(inbound, p, 1, at)
    BY <1>7, <1>8
  <1> QED BY <1>1, <1>2, <1>4, <1>5, <1>6, <1>7, <1>9, <1>10

\* A cancel.
LEMMA EffectOfCancel ==
    ASSUME ReqOK, LogOK, MarksOK, ShardOK, at <= Len(inbound), NEW o \in Orders, inbound[at] = Cancel(o)
    PROVE  EffectOK(OnCancel(o))
  <1> DEFINE e == OnCancel(o)
             c == CoreIn(trace, at - 1)
  <1>1. /\ at \in Nat /\ fills \in Seq(Trades) /\ Core(books) = c /\ books \in Books
        /\ \A v \in Venues : \A p \in ToSet(books[v].recent) : Came(inbound, p, 1, at)
    BY ReaderStands
  <1>2. /\ e.books = Withdrawn(books, o) /\ e.seen = seen /\ e.fills = fills
        /\ e.records = <<Verdict(o, Home(books, o) # {})>>
    BY DEF OnCancel
  <1>3. inbound[at].type = "CANCEL" /\ inbound[at].order = o /\ \A p : inbound[at] # Order(p)
    BY RecordProps
  <1>4. ~FirstIn(inbound, at) /\ StepIn(inbound, at, c) = Withdrawn(c, o)
    BY <1>3 DEF FirstIn, StepIn
  <1>5. DoneIn(inbound, trace, at) = {}
    BY <1>4 DEF DoneIn
  <1> HIDE DEF e, c
  <1>6. e.books \in Books /\ Core(e.books) = StepIn(inbound, at, c)
    BY <1>1, <1>2, <1>4, WithdrawnSame
  <1>7. \A v \in Venues : \A p \in ToSet(e.books[v].recent) : Came(inbound, p, 1, at)
    BY <1>1, <1>2, WithdrawnSame
  <1>8. \E s \in restarts \cup {1} : s <= at /\ RingIn(inbound, e.seen, s, at + 1)
    <2>1. PICK s \in restarts \cup {1} : s <= at /\ RingIn(inbound, seen, s, at)
      BY DEF ShardOK, RingOK
    <2>2. s \in Nat
      BY DEF MarksOK
    <2>3. RingIn(inbound, seen, s, at + 1)
      BY <1>1, <1>3, <2>1, <2>2, RingSkip
    <2> QED BY <1>2, <2>1, <2>3
  <1>9. RecordsOK(e.records, inbound[at])
    BY <1>2, CancelRecordsOK
  <1>10. /\ DoneIn(inbound, trace, at) \in SUBSET Trades /\ IsFiniteSet(DoneIn(inbound, trace, at))
         /\ \E more : e.fills = fills \o more /\ AddsAll(more, DoneIn(inbound, trace, at) \ ToSet(fills))
    BY <1>1, <1>2, <1>5, AddsNothing
  <1> QED BY <1>6, <1>7, <1>8, <1>9, <1>10 DEF EffectOK, c, e

\* An order the ring knows.
LEMMA EffectOfRepeat ==
    ASSUME ReqOK, LogOK, MarksOK, ShardOK, at <= Len(inbound), NEW o \in Orders,
           inbound[at] = Order(o), o \in ToSet(seen)
    PROVE  EffectOK(OnOrder(o))
  <1> DEFINE e == OnOrder(o)
             c == CoreIn(trace, at - 1)
  <1>1. /\ at \in Nat /\ fills \in Seq(Trades) /\ Core(books) = c /\ books \in Books
        /\ \A v \in Venues : \A p \in ToSet(books[v].recent) : Came(inbound, p, 1, at)
    BY ReaderStands
  <1>2. e.books = books /\ e.seen = seen /\ e.fills = fills /\ e.records = <<>>
    BY DEF OnOrder
  <1>3. inbound[at].type = "ORDER" /\ inbound[at].order = o /\ \A p : inbound[at] = Order(p) => p = o
    BY RecordProps
  <1>4. PICK s \in restarts \cup {1} : s <= at /\ RingIn(inbound, seen, s, at)
    BY DEF ShardOK, RingOK
  <1>5. s \in Nat \ {0}
    BY DEF MarksOK
  <1>6. ~FirstIn(inbound, at)
    <2>1. seen \in Seq(Orders)
      BY <1>4 DEF RingIn
    <2>2. PICK p \in 1 .. Len(seen) : seen[p] = o
      BY <2>1, ToSetOf
    <2>3. PICK j \in s .. at - 1 : inbound[j] = Order(seen[p])
      BY <1>4 DEF RingIn
    <2>4. j \in 1 .. at - 1 /\ inbound[j] = inbound[at]
      BY <1>1, <1>5, <2>2, <2>3
    <2> QED BY <2>4 DEF FirstIn
  <1>7. StepIn(inbound, at, c) = c /\ DoneIn(inbound, trace, at) = {}
    BY <1>3, <1>6 DEF StepIn, DoneIn
  <1> HIDE DEF e, c
  <1>8. RingIn(inbound, e.seen, s, at + 1)
    BY <1>1, <1>2, <1>3, <1>4, <1>5, RingSkip
  <1>9. RecordsOK(e.records, inbound[at])
    <2>1. RecordsOK(<<>>, Cancel(o))
      BY CancelRecordsOK
    <2>2. <<>> \in Seq(ToSet(<<>>)) /\ \A p \in Orders, removed \in BOOLEAN : Verdict(p, removed) \notin ToSet(<<>>)
      BY <2>1, RecordProps DEF RecordsOK, ToSet
    <2> QED BY <1>2, <2>2 DEF RecordsOK
  <1>10. /\ DoneIn(inbound, trace, at) \in SUBSET Trades /\ IsFiniteSet(DoneIn(inbound, trace, at))
         /\ \E more : e.fills = fills \o more /\ AddsAll(more, DoneIn(inbound, trace, at) \ ToSet(fills))
    BY <1>1, <1>2, <1>7, AddsNothing
  <1>11. /\ e.books \in Books /\ Core(e.books) = StepIn(inbound, at, c)
         /\ \A v \in Venues : \A p \in ToSet(e.books[v].recent) : Came(inbound, p, 1, at)
    BY <1>1, <1>2, <1>7
  <1> QED BY <1>4, <1>8, <1>9, <1>10, <1>11 DEF EffectOK, c, e

\* An order that is new.
LEMMA EffectOfOrder ==
    ASSUME ReqOK, LogOK, MarksOK, NoCopyAcrossRestart, ShardOK, at <= Len(inbound), NEW o \in Orders,
           inbound[at] = Order(o), o \notin ToSet(seen)
    PROVE  EffectOK(OnOrder(o))
  <1> DEFINE e == OnOrder(o)
             c == CoreIn(trace, at - 1)
             x == Executed(books, o)
             D == DoneBy(c, o)
             new == Listed(books, o, D \ ToSet(fills))
  <1>1. /\ at \in Nat /\ fills \in Seq(Trades) /\ Core(books) = c /\ books \in Books /\ CoreOK(c)
        /\ \A v \in Venues : \A p \in ToSet(books[v].recent) : Came(inbound, p, 1, at)
        /\ \A v \in Venues : \A p \in Orders : Holds(Core(books)[v], p) => Came(inbound, p, 1, at - 1)
    BY ReaderStands
  <1>2. FirstIn(inbound, at) /\ \A v \in Venues : ~Seen(books[v], o)
    BY <1>1, FreshOrder DEF ShardOK
  <1>3. OrderStepOK(books, o)
    BY <1>1, <1>2, OrderStep
  <1>4. /\ x.done = D /\ x.books \in Books /\ Core(x.books) = OrderCore(c, o)
        /\ \A v \in Venues : ToSet(x.books[v].recent) \in SUBSET (ToSet(books[v].recent) \cup {o})
        /\ D \in SUBSET Trades
        /\ \A E \in SUBSET D : IsFiniteSet(E) /\ ListedOK(books, o, E)
    <2> HIDE DEF c
    <2> QED BY <1>1, <1>3 DEF OrderStepOK
  <1>5. /\ e.books = x.books /\ e.seen = Remember(seen, o) /\ e.fills = Known(o, x.done)
        /\ e.records = OrderRecords(o, x.done)
    BY DEF OnOrder, Reported
  <1>6. inbound[at].type = "ORDER" /\ inbound[at].order = o
    BY RecordProps
  <1>7. StepIn(inbound, at, c) = OrderCore(c, o) /\ DoneIn(inbound, trace, at) = D
    BY <1>2, <1>6 DEF StepIn, DoneIn
  <1> HIDE DEF c, x, D, e
  <1>8. e.fills = fills \o new
    BY <1>4, <1>5 DEF Known
  <1>9. D \ ToSet(fills) \in SUBSET D /\ D \in SUBSET D
    OBVIOUS
  <1>10. AddsAll(new, D \ ToSet(fills))
    <2> DEFINE E == D \ ToSet(fills)
    <2> HIDE DEF E
    <2>1. E \in SUBSET Trades /\ IsFiniteSet(E) /\ ListedOK(books, o, E)
      BY <1>4, <1>9 DEF E
    <2>2. AddsAll(Listed(books, o, E), E)
      BY <2>1 DEF ListedOK, AddsAll
    <2> QED BY <2>2 DEF E
  <1> HIDE DEF new
  <1>11. RecordsOK(e.records, inbound[at])
    <2>1. IsFiniteSet(D) /\ Len(Listed(books, o, D)) = Cardinality(D)
      BY <1>4, <1>9 DEF ListedOK
    <2>2. Len(Listed(books, o, D)) \in Nat
      BY <2>1, FS_CardinalityType
    <2> QED BY <1>4, <1>5, <2>2, OrderRecordsOK
  <1>12. \E s \in restarts \cup {1} : s <= at /\ RingIn(inbound, e.seen, s, at + 1)
    <2>1. PICK s \in restarts \cup {1} : s <= at /\ RingIn(inbound, seen, s, at)
      BY DEF ShardOK, RingOK
    <2>2. s \in Nat
      BY DEF MarksOK
    <2>3. RingIn(inbound, Remember(seen, o), s, at + 1)
      BY <1>1, <2>1, <2>2, RingRemember
    <2> QED BY <1>5, <2>1, <2>3
  <1>13. Came(inbound, o, 1, at)
    <2>1. at \in 1 .. at
      BY <1>1 DEF MarksOK
    <2> QED BY <2>1 DEF Came
  <1>14. \A v \in Venues : \A p \in ToSet(e.books[v].recent) : Came(inbound, p, 1, at)
    BY <1>1, <1>4, <1>5, <1>13
  <1>15. e.books \in Books /\ Core(e.books) = StepIn(inbound, at, c)
    BY <1>4, <1>5, <1>7
  <1>16. /\ DoneIn(inbound, trace, at) \in SUBSET Trades /\ IsFiniteSet(DoneIn(inbound, trace, at))
         /\ \E more : e.fills = fills \o more /\ AddsAll(more, DoneIn(inbound, trace, at) \ ToSet(fills))
    BY <1>4, <1>7, <1>8, <1>9, <1>10
  <1> QED BY <1>11, <1>12, <1>14, <1>15, <1>16 DEF EffectOK, c, e

\* Whatever arrives.
LEMMA EffectProps ==
    ASSUME ReqOK, LogOK, MarksOK, NoCopyAcrossRestart, ShardOK, at <= Len(inbound)
    PROVE  EffectOK(Effect(inbound[at]))
  <1>1. inbound[at] \in Records
    BY ReaderStands
  <1>2. CASE inbound[at].type = "ORDER"
    <2>1. inbound[at].order \in Orders /\ inbound[at] = Order(inbound[at].order)
      BY <1>1, <1>2, RecordProps
    <2>2. Effect(inbound[at]) = OnOrder(inbound[at].order)
      BY <1>2 DEF Effect
    <2>3. PICK o \in Orders : o = inbound[at].order
      BY <2>1
    <2>4. EffectOK(OnOrder(o))
      BY <2>1, <2>3, EffectOfRepeat, EffectOfOrder
    <2> QED BY <2>2, <2>3, <2>4
  <1>3. CASE inbound[at].type = "CANCEL"
    <2>1. inbound[at].order \in Orders /\ inbound[at] = Cancel(inbound[at].order)
      BY <1>1, <1>3, RecordProps
    <2>2. Effect(inbound[at]) = OnCancel(inbound[at].order)
      BY <1>3 DEF Effect
    <2>3. PICK o \in Orders : o = inbound[at].order
      BY <2>1
    <2>4. EffectOK(OnCancel(o))
      BY <2>1, <2>3, EffectOfCancel
    <2> QED BY <2>2, <2>3, <2>4
  <1> QED BY <1>1, <1>2, <1>3, RecordProps

-----------------------------------------------------------------------------
(* The terms of orders never change, and so neither does what follows from them. *)

\* What is executed depends on no variable but the terms.
LEMMA SameDone ==
    ASSUME req' = req, NEW bs, NEW o
    PROVE  DoneBy(bs, o)' = DoneBy(bs, o)
  <1>1. \A v : FillsAt(bs, o, v)' = FillsAt(bs, o, v)
    BY DEF FillsAt
  <1> QED BY <1>1 DEF DoneBy

\* Nor do the books it leaves.
LEMMA SameOrderCore ==
    ASSUME req' = req, NEW c, NEW o
    PROVE  OrderCore(c, o)' = OrderCore(c, o)
  <1>1. DoneBy(c, o)' = DoneBy(c, o)
    BY SameDone
  <1>2. \A D : Remainder(o, D)' = Remainder(o, D)
    BY DEF Remainder
  <1>3. RestsAt(c, o)' = RestsAt(c, o)
    BY <1>1, <1>2 DEF RestsAt
  <1>4. SlicedCore(c, o)' = SlicedCore(c, o)
    BY DEF SlicedCore
  <1> QED BY <1>1, <1>2, <1>3, <1>4 DEF OrderCore

\* Nor does whether books are sound.
LEMMA SameCoreOK ==
    ASSUME req' = req, NEW c
    PROVE  CoreOK(c)' <=> CoreOK(c)
  <1>1. Placed(c)' <=> Placed(c)
    BY DEF Placed
  <1> QED BY <1>1 DEF CoreOK

\* Nor does what a record does.
LEMMA SameStep ==
    ASSUME req' = req, NEW in, NEW tr, NEW i, NEW c
    PROVE  StepIn(in, i, c)' = StepIn(in, i, c) /\ DoneIn(in, tr, i)' = DoneIn(in, tr, i)
  <1>1. \A o : OrderCore(c, o)' = OrderCore(c, o)
    BY SameOrderCore
  <1>2. \A b, o : DoneBy(b, o)' = DoneBy(b, o)
    BY SameDone
  <1>3. StepIn(in, i, c)' = StepIn(in, i, c)
    BY <1>1 DEF StepIn
  <1>4. DoneIn(in, tr, i)' = DoneIn(in, tr, i)
    BY <1>2 DEF DoneIn
  <1> QED BY <1>3, <1>4

\* So what is said of a history stays so.
LEMMA SameHistory ==
    ASSUME req' = req, NEW in, NEW tr
    PROVE  /\ HistoryIn(in, tr) => HistoryIn(in, tr)'
           /\ \A list : TradesIn(in, tr, list) => TradesIn(in, tr, list)'
  <1>1. \A c : CoreOK(c)' <=> CoreOK(c)
    BY SameCoreOK
  <1>2. \A i, c : StepIn(in, i, c)' = StepIn(in, i, c)
    BY SameStep
  <1>3. \A i : DoneIn(in, tr, i)' = DoneIn(in, tr, i)
    BY SameStep
  <1>4. HistoryIn(in, tr) => HistoryIn(in, tr)'
    BY <1>1, <1>2 DEF HistoryIn
  <1>5. \A list : TradesIn(in, tr, list) => TradesIn(in, tr, list)'
    BY <1>3 DEF TradesIn
  <1> QED BY <1>4, <1>5

-----------------------------------------------------------------------------
(* The steps of the shard. *)

\* No step changes the terms.
LEMMA SameReq == [Next]_vars => req' = req
  BY DEF Next, vars, Enqueue, EnqueueCancel, Publish, PublishUnmarked, Handle, HandleFails,
         Snapshot, Restart, clientVars

\* A copy that is on the other side of an offset stays there.
LEMMA NoCopyBefore ==
    ASSUME LogOK, MarksOK, inbound' \in Seq(Records), Len(inbound) <= Len(inbound'),
           \A i \in 1 .. Len(inbound) : inbound'[i] = inbound[i],
           restarts \in SUBSET restarts', NoCopyAcrossRestart'
    PROVE  NoCopyAcrossRestart
  <1> SUFFICES ASSUME NEW c \in restarts, NEW i \in 1 .. c - 1, NEW j \in c .. Len(inbound),
                      inbound[i].type = "ORDER", inbound[i] = inbound[j]
               PROVE  FALSE
    BY DEF NoCopyAcrossRestart
  <1>1. LogIn(outbox, inbound, marked)
    BY DEF LogOK
  <1>2. inbound \in Seq(Records) /\ Len(inbound) \in Nat /\ Len(inbound') \in Nat
    BY <1>1 DEF LogIn
  <1>3. c \in Nat \ {0} /\ c \in restarts'
    BY DEF MarksOK
  <1>4. i \in 1 .. Len(inbound) /\ j \in 1 .. Len(inbound) /\ j \in c .. Len(inbound')
    BY <1>2, <1>3
  <1>5. inbound'[i] = inbound[i] /\ inbound'[j] = inbound[j]
    BY <1>4
  <1> QED BY <1>3, <1>4, <1>5 DEF NoCopyAcrossRestart

\* Where the shard stands is a number, and restarts are never forgotten.
LEMMA MarksStep ==
    ASSUME MarksOK, LogOK, [Next]_vars
    PROVE  MarksOK' /\ restarts \in SUBSET restarts'
  <1>1. CASE Handle
    BY <1>1 DEF Handle, MarksOK
  <1>2. CASE HandleFails
    <2>1. PICK i \in at .. Len(inbound) : at' = i + 1
      BY <1>2 DEF HandleFails
    <2>2. next' = next /\ saved' = saved /\ restarts' = restarts
      BY <1>2 DEF HandleFails
    <2>3. at' \in Nat \ {0}
      BY <2>1 DEF MarksOK
    <2> QED BY <2>2, <2>3 DEF MarksOK
  <1>3. CASE Snapshot
    BY <1>3 DEF Snapshot, MarksOK
  <1>4. CASE Restart
    BY <1>4 DEF Restart, MarksOK
  <1>5. CASE UNCHANGED <<at, next, saved, restarts>>
    BY <1>5 DEF MarksOK
  <1> QED BY <1>1, <1>2, <1>3, <1>4, <1>5
          DEF Next, vars, Enqueue, EnqueueCancel, Publish, PublishUnmarked, clientVars, shardVars

\* The log grows, or nothing happens.
LEMMA GrowthKeeps ==
    ASSUME LogOK, MarksOK, ShardOK, req' = req, inbound' \in Seq(Records),
           Len(inbound) <= Len(inbound'), \A i \in 1 .. Len(inbound) : inbound'[i] = inbound[i],
           UNCHANGED shardVars
    PROVE  ShardOK'
  <1>1. LogIn(outbox, inbound, marked)
    BY DEF LogOK
  <1>2. inbound \in Seq(Records) /\ Len(inbound) \in Nat
    BY <1>1 DEF LogIn
  <1>3. /\ at' = at /\ next' = next /\ seen' = seen /\ books' = books /\ saved' = saved
        /\ fills' = fills /\ outcomes' = outcomes /\ trace' = trace /\ restarts' = restarts
    BY DEF shardVars
  <1>4. HistoryIn(inbound, trace) /\ TradesIn(inbound, trace, fills)
    BY DEF ShardOK
  <1>5. PICK in2 : in2 = inbound'
    OBVIOUS
  <1>6. HistoryIn(in2, trace) /\ TradesIn(in2, trace, fills)
    BY <1>2, <1>4, <1>5, HistoryLonger
  <1>7. PICK tr, list : tr = trace /\ list = fills
    OBVIOUS
  <1>8. HistoryIn(in2, tr)' /\ TradesIn(in2, tr, list)'
    BY <1>6, <1>7, SameHistory
  <1>9. HistoryIn(inbound, trace)' /\ TradesIn(inbound, trace, fills)'
    BY <1>3, <1>5, <1>7, <1>8
  <1>10. trace \in Seq(Cores) /\ Len(trace) \in Nat /\ Len(trace) <= Len(inbound)
    BY <1>4 DEF HistoryIn
  <1>11. at \in Nat /\ at - 1 \in 0 .. Len(trace) /\ ReaderOK
    BY <1>10 DEF ShardOK, ReaderOK
  <1>12. ReaderOK'
    BY <1>3, <1>11 DEF ReaderOK
  <1>13. \A i \in 0 .. Len(trace) : \A o : Came(inbound, o, 1, i) => Came(inbound', o, 1, i)
    BY <1>2, <1>10 DEF Came
  <1>14. RingOK'
    <2>1. PICK s \in restarts \cup {1} : s <= at /\ RingIn(inbound, seen, s, at)
      BY DEF ShardOK, RingOK
    <2>2. s \in Nat \ {0}
      BY DEF MarksOK
    <2>3. \A i \in s .. at - 1 : in2[i] = inbound[i]
      BY <1>2, <1>5, <1>10, <1>11, <2>2
    <2>4. RingIn(in2, seen, s, at)
      BY <1>11, <2>1, <2>2, <2>3, RingLonger
    <2> QED BY <1>3, <1>5, <2>1, <2>4 DEF RingOK
  <1>15. BooksOK'
    BY <1>3, <1>11, <1>13 DEF ShardOK, BooksOK
  <1>16. SavedOK'
    BY <1>3 DEF ShardOK, SavedOK
  <1>17. AnswersOK'
    <2>1. AnswersOK
      BY DEF ShardOK
    <2>2. \A i \in 1 .. Len(trace) : inbound'[i] = inbound[i]
      BY <1>2, <1>10
    <2> QED BY <1>3, <2>1, <2>2 DEF AnswersOK
  <1> QED BY <1>9, <1>12, <1>14, <1>15, <1>16, <1>17 DEF ShardOK

\* A record met again leaves the history, one met first makes it longer by one.
LEMMA TracedProps ==
    ASSUME trace \in Seq(Cores), at \in 1 .. Len(trace) + 1, NEW bs, Core(bs) \in Cores
    PROVE  /\ at <= Len(trace) => Traced(at + 1, bs) = trace
           /\ at = Len(trace) + 1 => Traced(at + 1, bs) = Append(trace, Core(bs))
  <1> DEFINE c == Core(bs)
             m == (at + 1) - 1 - Len(trace)
             more == [i \in 1 .. m |-> c]
  <1>1. Len(trace) \in Nat /\ at \in Nat
    OBVIOUS
  <1>2. Traced(at + 1, bs) = trace \o more
    <2>1. \A r : Traced(r, bs) = trace \o [i \in 1 .. r - 1 - Len(trace) |-> c]
      BY DEF Traced
    <2> HIDE DEF c
    <2> QED BY <2>1, Zenon
  <1>3. ASSUME at <= Len(trace) PROVE trace \o more = trace
    <2>1. m <= 0 /\ m \in Int
      BY <1>1, <1>3
    <2> HIDE DEF m
    <2>2. 1 .. m = {}
      BY <2>1
    <2>3. more = <<>>
      BY <2>2
    <2> HIDE DEF more
    <2> QED BY <2>3
  <1>4. ASSUME at = Len(trace) + 1 PROVE trace \o more = Append(trace, c)
    <2>1. m = 1
      BY <1>1, <1>4
    <2> HIDE DEF m, c
    <2>2. more = <<c>>
      BY <2>1
    <2> HIDE DEF more
    <2>3. c \in Cores
      BY DEF c
    <2>4. trace \o <<c>> = Append(trace, c)
      BY <2>3
    <2> QED BY <2>2, <2>4
  <1> QED BY <1>2, <1>3, <1>4

\* A record that was met before: everything is as it was then.
LEMMA ReplayKeeps ==
    ASSUME ReqOK, LogOK, MarksOK, ShardOK, req' = req, inbound' = inbound, NEW e, EffectOK(e),
           at <= Len(inbound), at <= Len(trace),
           books' = e.books, seen' = e.seen, fills' = e.fills, outcomes' = outcomes \o e.records,
           trace' = Traced(at + 1, e.books), at' = at + 1, next' = at + 1,
           UNCHANGED <<saved, restarts>>
    PROVE  ShardOK'
  <1>1. /\ at \in 1 .. Len(inbound) /\ at \in Nat /\ at - 1 \in 0 .. Len(trace)
        /\ fills \in Seq(Trades) /\ trace \in Seq(Cores) /\ Len(trace) \in Nat
    BY ReaderStands
  <1>2. HistoryIn(inbound, trace) /\ TradesIn(inbound, trace, fills)
    BY DEF ShardOK
  <1>3. at \in 1 .. Len(trace) /\ at \in 1 .. Len(trace) + 1 /\ at + 1 - 1 = at
    BY <1>1
  <1>4. CoreIn(trace, at) = StepIn(inbound, at, CoreIn(trace, at - 1))
    BY <1>2, <1>3 DEF HistoryIn
  <1>5. DoneIn(inbound, trace, at) \in SUBSET ToSet(fills)
    BY <1>2, <1>3 DEF TradesIn
  <1>6. PICK more : e.fills = fills \o more /\ AddsAll(more, DoneIn(inbound, trace, at) \ ToSet(fills))
    BY DEF EffectOK
  <1>7. fills' = fills
    <2>1. DoneIn(inbound, trace, at) \ ToSet(fills) = {}
      BY <1>5
    <2>2. more \in Seq({}) /\ Len(more) = 0
      BY <1>6, <2>1, FS_EmptySet DEF AddsAll
    <2>3. more = <<>>
      BY <2>2
    <2> QED BY <1>1, <1>6, <2>3, AddsNothing
  <1>8. Core(e.books) \in Cores
    <2>1. e.books \in Books
      BY DEF EffectOK
    <2> QED BY <2>1, CoreShape
  <1>9. trace' = trace
    BY <1>1, <1>3, <1>8, TracedProps
  <1>10. PICK in, tr, list : in = inbound /\ tr = trace /\ list = fills
    OBVIOUS
  <1>11. HistoryIn(in, tr)' /\ TradesIn(in, tr, list)'
    BY <1>2, <1>10, SameHistory
  <1>12. HistoryIn(inbound, trace)' /\ TradesIn(inbound, trace, fills)'
    BY <1>7, <1>9, <1>10, <1>11
  <1>13. ReaderOK'
    BY <1>1, <1>3, <1>9 DEF ReaderOK
  <1>14. RingOK'
    <2>1. PICK s \in restarts \cup {1} : s <= at /\ RingIn(inbound, e.seen, s, at + 1)
      BY DEF EffectOK
    <2>2. s \in Nat \ {0} /\ s <= at + 1
      BY <1>1, <2>1 DEF MarksOK
    <2> QED BY <2>1, <2>2 DEF RingOK
  <1>15. BooksOK'
    <2>1. /\ e.books \in Books /\ Core(e.books) = CoreIn(trace, at)
          /\ \A v \in Venues : \A o \in ToSet(e.books[v].recent) : Came(inbound, o, 1, at)
      BY <1>4 DEF EffectOK
    <2> QED BY <1>3, <1>9, <2>1 DEF BooksOK
  <1>16. SavedOK'
    BY <1>9 DEF ShardOK, SavedOK
  <1>17. AnswersOK'
    <2>1. /\ outcomes \in Seq(ToSet(outcomes))
          /\ \A o \in Orders, removed \in BOOLEAN :
               Verdict(o, removed) \in ToSet(outcomes) => \E i \in 1 .. Len(trace) : inbound[i] = Cancel(o)
      BY DEF ShardOK, AnswersOK
    <2>2. /\ e.records \in Seq(ToSet(e.records))
          /\ \A o \in Orders, removed \in BOOLEAN : Verdict(o, removed) \in ToSet(e.records) => inbound[at] = Cancel(o)
      BY DEF EffectOK, RecordsOK
    <2> DEFINE S == ToSet(outcomes) \cup ToSet(e.records)
    <2>3. outcomes \in Seq(S) /\ e.records \in Seq(S)
      BY <2>1, <2>2
    <2>4. /\ outcomes \o e.records \in Seq(S)
          /\ ToSet(outcomes \o e.records) = ToSet(outcomes) \cup ToSet(e.records)
      <3> HIDE DEF S
      <3> QED BY <2>3, JoinedProps
    <2>5. outcomes' \in Seq(ToSet(outcomes')) /\ ToSet(outcomes') = ToSet(outcomes) \cup ToSet(e.records)
      BY <2>4
    <2> QED BY <1>3, <1>9, <2>1, <2>2, <2>5 DEF AnswersOK
  <1> QED BY <1>12, <1>13, <1>14, <1>15, <1>16, <1>17 DEF ShardOK

\* A record that is met for the first time.
LEMMA HandleKeeps ==
    ASSUME ReqOK, LogOK, MarksOK, ShardOK, req' = req, inbound' = inbound, NEW e, EffectOK(e),
           at <= Len(inbound), at = Len(trace) + 1,
           books' = e.books, seen' = e.seen, fills' = e.fills, outcomes' = outcomes \o e.records,
           trace' = Traced(at + 1, e.books), at' = at + 1, next' = at + 1,
           UNCHANGED <<saved, restarts>>
    PROVE  ShardOK'
  <1> DEFINE n == Core(e.books)
             D == DoneIn(inbound, trace, at)
  <1>1. /\ at \in 1 .. Len(inbound) /\ at \in Nat /\ at - 1 \in 0 .. Len(trace)
        /\ fills \in Seq(Trades) /\ trace \in Seq(Cores) /\ Len(trace) \in Nat
        /\ inbound \in Seq(Records) /\ LogIn(outbox, inbound, marked)
    BY ReaderStands
  <1>2. HistoryIn(inbound, trace) /\ TradesIn(inbound, trace, fills)
    BY DEF ShardOK
  <1>3. at \in 1 .. Len(trace) + 1 /\ at + 1 - 1 = at /\ at - 1 = Len(trace) /\ Len(trace) < Len(inbound)
    BY <1>1
  <1>4. n \in Cores
    <2>1. e.books \in Books
      BY DEF EffectOK
    <2> QED BY <2>1, CoreShape
  <1>5. n = StepIn(inbound, Len(trace) + 1, CoreIn(trace, Len(trace)))
    BY <1>3 DEF EffectOK
  <1>6. trace' = Append(trace, n)
    BY <1>1, <1>3, <1>4, TracedProps
  <1>7. PICK more : fills' = fills \o more /\ AddsAll(more, D \ ToSet(fills))
    BY DEF EffectOK
  <1>8. D \in SUBSET Trades /\ IsFiniteSet(D) /\ D = DoneIn(inbound, trace, Len(trace) + 1)
    BY DEF EffectOK
  <1> HIDE DEF n, D
  <1>9. HistoryIn(inbound, Append(trace, n))
    BY <1>1, <1>2, <1>3, <1>4, <1>5, HistoryNew
  <1>10. TradesIn(inbound, Append(trace, n), fills \o more)
    BY <1>1, <1>2, <1>3, <1>4, <1>5, <1>7, <1>8, TradesNew
  <1>11. PICK in, tr, list : in = inbound /\ tr = Append(trace, n) /\ list = fills \o more
    OBVIOUS
  <1>12. HistoryIn(in, tr)' /\ TradesIn(in, tr, list)'
    BY <1>9, <1>10, <1>11, SameHistory
  <1>13. HistoryIn(inbound, trace)' /\ TradesIn(inbound, trace, fills)'
    BY <1>6, <1>7, <1>11, <1>12
  <1>14. /\ trace' \in Seq(Cores) /\ Len(trace') = Len(trace) + 1
         /\ \A i \in 0 .. Len(trace) : CoreIn(trace', i) = CoreIn(trace, i)
         /\ CoreIn(trace', Len(trace) + 1) = n
    <2>1. /\ Append(trace, n) \in Seq(Cores) /\ Len(Append(trace, n)) = Len(trace) + 1
          /\ \A i \in 0 .. Len(trace) : CoreIn(Append(trace, n), i) = CoreIn(trace, i)
          /\ CoreIn(Append(trace, n), Len(trace) + 1) = n
      BY <1>1, <1>4, CoreLonger
    <2> QED BY <1>6, <2>1, Zenon
  <1>15. ReaderOK'
    BY <1>1, <1>3, <1>14 DEF ReaderOK
  <1>16. RingOK'
    <2>1. PICK s \in restarts \cup {1} : s <= at /\ RingIn(inbound, e.seen, s, at + 1)
      BY DEF EffectOK
    <2>2. s \in Nat \ {0} /\ s <= at + 1
      BY <1>1, <2>1 DEF MarksOK
    <2> QED BY <2>1, <2>2 DEF RingOK
  <1>17. BooksOK'
    <2>1. /\ e.books \in Books /\ Core(e.books) = n
          /\ \A v \in Venues : \A o \in ToSet(e.books[v].recent) : Came(inbound, o, 1, at)
      BY DEF EffectOK, n
    <2>2. CoreIn(trace', at' - 1) = n
      BY <1>1, <1>3, <1>14
    <2> QED BY <1>1, <1>3, <2>1, <2>2 DEF BooksOK
  <1>18. SavedOK'
    <2>1. saved.next \in 1 .. Len(trace) + 1 /\ saved.books = CoreIn(trace, saved.next - 1)
      BY DEF ShardOK, SavedOK
    <2>2. saved.next - 1 \in 0 .. Len(trace) /\ saved.next \in 1 .. Len(trace') + 1
      BY <1>1, <1>14, <2>1
    <2> QED BY <1>14, <2>1, <2>2 DEF SavedOK
  <1>19. AnswersOK'
    <2>1. /\ outcomes \in Seq(ToSet(outcomes))
          /\ \A o \in Orders, removed \in BOOLEAN :
               Verdict(o, removed) \in ToSet(outcomes) => \E i \in 1 .. Len(trace) : inbound[i] = Cancel(o)
      BY DEF ShardOK, AnswersOK
    <2>2. /\ e.records \in Seq(ToSet(e.records))
          /\ \A o \in Orders, removed \in BOOLEAN : Verdict(o, removed) \in ToSet(e.records) => inbound[at] = Cancel(o)
      BY DEF EffectOK, RecordsOK
    <2> DEFINE S == ToSet(outcomes) \cup ToSet(e.records)
    <2>3. outcomes \in Seq(S) /\ e.records \in Seq(S)
      BY <2>1, <2>2
    <2>4. /\ outcomes \o e.records \in Seq(S)
          /\ ToSet(outcomes \o e.records) = ToSet(outcomes) \cup ToSet(e.records)
      <3> HIDE DEF S
      <3> QED BY <2>3, JoinedProps
    <2>5. outcomes' \in Seq(ToSet(outcomes')) /\ ToSet(outcomes') = ToSet(outcomes) \cup ToSet(e.records)
      BY <2>4
    <2>6. \A i \in 1 .. Len(trace) : i \in 1 .. Len(trace')
      BY <1>1, <1>14
    <2>7. at \in 1 .. Len(trace')
      BY <1>1, <1>14
    <2> QED BY <2>1, <2>2, <2>5, <2>6, <2>7 DEF AnswersOK
  <1> QED BY <1>13, <1>15, <1>16, <1>17, <1>18, <1>19 DEF ShardOK

\* What is loaded remembers the orders that rest there.
LEMMA LoadedProps ==
    ASSUME NEW b \in SavedBook, QuotesOK(b.resting)
    PROVE  /\ Loaded(b) \in LiveBook
           /\ \A o \in ToSet(Loaded(b).recent) : Holds(b, o)
  <1> DEFINE R == b.resting
             first == {p \in R \X R : p[1].at < p[2].at}
             queue == InOrder(R, first)
             ids == [k \in DOMAIN queue |-> queue[k].order]
             O == {m.order : m \in R}
  <1>1. /\ R \in SUBSET Quote /\ IsFiniteSet(R) /\ \A m, n \in R : m.at = n.at => m = n
        /\ b.arrival \in Nat /\ b.seq \in Nat
    BY SavedWithout DEF QuotesOK
  <1>2. \A m \in R : m.at \in Nat /\ m.order \in Orders
    BY <1>1 DEF Quote
  <1>3. \A x, y \in R : <<x, y>> \in first <=> x.at < y.at
    OBVIOUS
  <1> HIDE DEF R, first
  <1>4. Lines(R, first)
    BY <1>1, <1>2, <1>3 DEF Lines
  <1>5. queue \in Seq(R)
    BY <1>1, <1>4, InOrderProps
  <1> HIDE DEF queue
  <1>6. ids \in Seq(O) /\ O \in SUBSET Orders
    <2>1. DOMAIN queue = 1 .. Len(queue) /\ Len(queue) \in Nat /\ \A k \in 1 .. Len(queue) : queue[k] \in R
      BY <1>5
    <2>2. \A k \in 1 .. Len(queue) : queue[k].order \in O
      BY <2>1
    <2>3. O \in SUBSET Orders
      BY <1>2
    <2> HIDE DEF O
    <2> QED BY <2>1, <2>2, <2>3
  <1> HIDE DEF ids, O
  <1>7. Latest(ids) \in Seq(O) /\ ToSet(Latest(ids)) \in SUBSET ToSet(ids) /\ ToSet(ids) \in SUBSET O
    BY <1>6, LatestProps, ToSetOf
  <1>8. Loaded(b) = [resting |-> b.resting, arrival |-> b.arrival, seq |-> b.seq, recent |-> Latest(ids)]
    BY Zenon DEF Loaded, R, first, queue, ids
  <1> DEFINE r == Latest(ids)
             l == Loaded(b)
  <1>9. r \in Seq(Orders)
    BY <1>6, <1>7
  <1>10. /\ l = [resting |-> b.resting, arrival |-> b.arrival, seq |-> b.seq, recent |-> r]
         /\ b.resting \in SUBSET Quote
    BY <1>1, <1>8 DEF R
  <1> HIDE DEF r, l
  <1>11. l \in LiveBook
    BY <1>1, <1>9, <1>10 DEF LiveBook
  <1>12. l.recent = r
    BY <1>10
  <1>13. \A o \in ToSet(r) : Holds(b, o)
    BY <1>7 DEF r, O, R, Holds
  <1> QED BY <1>11, <1>12, <1>13 DEF l

\* What is recovered is books, which remember only what rests in them.
LEMMA RecoveredProps ==
    ASSUME NEW c \in Cores, CoreOK(c)
    PROVE  /\ Recovered(c) \in Books
           /\ \A v \in Venues : \A o \in ToSet(Recovered(c)[v].recent) : Holds(c[v], o)
  <1>1. \A v \in Venues : c[v] \in SavedBook /\ QuotesOK(c[v].resting)
    BY DEF Cores, CoreOK
  <1>2. \A v \in Venues : Loaded(c[v]) \in LiveBook /\ \A o \in ToSet(Loaded(c[v]).recent) : Holds(c[v], o)
    BY <1>1, LoadedProps
  <1>3. Recovered(c) = [v \in Venues |-> Loaded(c[v])]
    BY DEF Recovered
  <1>4. \A v \in Venues : Recovered(c)[v] = Loaded(c[v])
    BY <1>3
  <1> QED BY <1>2, <1>3, <1>4 DEF Books

\* A restart: the books are those of the history at the offset, and a new ring
\* is filled from there.
LEMMA RestartKeeps ==
    ASSUME ReqOK, LogOK, MarksOK, ShardOK, req' = req, inbound' = inbound, Restart
    PROVE  ShardOK'
  <1> DEFINE c == CoreIn(trace, saved.next - 1)
  <1>1. /\ HistoryIn(inbound, trace) /\ TradesIn(inbound, trace, fills) /\ SavedOK /\ AnswersOK
    BY DEF ShardOK
  <1>2. trace \in Seq(Cores) /\ Len(trace) \in Nat
    BY <1>1 DEF HistoryIn
  <1>3. saved.next \in 1 .. Len(trace) + 1 /\ saved.books = c /\ saved.next - 1 \in 0 .. Len(trace)
        /\ saved.next \in Nat
    BY <1>1, <1>2 DEF SavedOK
  <1>4. c \in Cores
    <2>1. PICK n : n \in Cores
      BY CoreZero
    <2> QED BY <1>2, <1>3, <2>1, CoreLonger
  <1>5. CoreOK(c) /\ \A v \in Venues, o \in Orders : Holds(c[v], o) => Came(inbound, o, 1, saved.next - 1)
    BY <1>1, <1>3 DEF HistoryIn
  <1>6. /\ books' = Recovered(saved.books) /\ seen' = <<>> /\ at' = saved.next /\ next' = saved.next
        /\ restarts' = restarts \cup {saved.next} /\ saved' = saved /\ fills' = fills
        /\ outcomes' = outcomes /\ trace' = trace
    BY DEF Restart
  <1> HIDE DEF c
  <1>7. PICK in, tr, list : in = inbound /\ tr = trace /\ list = fills
    OBVIOUS
  <1>8. HistoryIn(in, tr)' /\ TradesIn(in, tr, list)'
    BY <1>1, <1>7, SameHistory
  <1>9. HistoryIn(inbound, trace)' /\ TradesIn(inbound, trace, fills)'
    BY <1>6, <1>7, <1>8
  <1>10. ReaderOK'
    BY <1>3, <1>6 DEF ReaderOK
  <1>11. RingOK'
    <2>1. RingIn(inbound, <<>>, saved.next, saved.next)
      BY <1>3, RingStart
    <2> QED BY <1>3, <1>6, <2>1 DEF RingOK
  <1>12. BooksOK'
    <2> DEFINE l == Recovered(c)
    <2>1. l \in Books /\ Core(l) = c /\ \A v \in Venues : \A o \in ToSet(l[v].recent) : Holds(c[v], o)
      BY <1>4, <1>5, RecoveredProps, SavedShape
    <2>2. \A v \in Venues : l[v].recent \in Seq(Orders)
      BY <2>1, CoreShape
    <2> HIDE DEF l
    <2>3. \A v \in Venues : \A o \in ToSet(l[v].recent) : o \in Orders
      BY <2>2, ToSetOf
    <2>4. \A v \in Venues : \A o \in ToSet(l[v].recent) : Came(inbound, o, 1, saved.next - 1)
      BY <1>5, <2>1, <2>3
    <2>5. books' = l
      BY <1>3, <1>6 DEF l
    <2>6. Core(books)' = CoreIn(trace, at - 1)'
      BY <1>6, <2>1, <2>5 DEF c
    <2> QED BY <1>6, <2>1, <2>4, <2>5, <2>6 DEF BooksOK
  <1>13. SavedOK'
    BY <1>1, <1>6 DEF SavedOK
  <1>14. AnswersOK'
    BY <1>1, <1>6 DEF AnswersOK
  <1> QED BY <1>9, <1>10, <1>11, <1>12, <1>13, <1>14 DEF ShardOK

\* A snapshot is taken where the reader stands.
LEMMA SnapshotKeeps ==
    ASSUME ReqOK, LogOK, MarksOK, ShardOK, req' = req, inbound' = inbound, Snapshot
    PROVE  ShardOK'
  <1>1. /\ HistoryIn(inbound, trace) /\ TradesIn(inbound, trace, fills)
        /\ ReaderOK /\ RingOK /\ BooksOK /\ AnswersOK
    BY DEF ShardOK
  <1>2. /\ saved' = [next |-> next, books |-> Core(books)]
        /\ at' = at /\ next' = next /\ seen' = seen /\ books' = books
        /\ fills' = fills /\ outcomes' = outcomes /\ trace' = trace /\ restarts' = restarts
    BY DEF Snapshot
  <1>3. PICK in, tr, list : in = inbound /\ tr = trace /\ list = fills
    OBVIOUS
  <1>4. HistoryIn(in, tr)' /\ TradesIn(in, tr, list)'
    BY <1>1, <1>3, SameHistory
  <1>5. HistoryIn(inbound, trace)' /\ TradesIn(inbound, trace, fills)'
    BY <1>2, <1>3, <1>4
  <1>6. ReaderOK' /\ RingOK' /\ AnswersOK'
    BY <1>1, <1>2 DEF ReaderOK, RingOK, AnswersOK
  <1>7. BooksOK'
    BY <1>1, <1>2 DEF BooksOK
  <1>8. saved'.next = at /\ saved'.books = CoreIn(trace, at - 1)
    BY <1>1, <1>2 DEF ReaderOK, BooksOK
  <1>9. SavedOK'
    BY <1>1, <1>2, <1>8 DEF SavedOK, ReaderOK
  <1> QED BY <1>5, <1>6, <1>7, <1>9 DEF ShardOK

\* Initially.
LEMMA IInvInit == Init => IInv
  <1> SUFFICES ASSUME Init PROVE IInv
    OBVIOUS
  <1>1. ReqOK /\ LogOK
    BY LogInit DEF Init, ReqOK
  <1>2. /\ inbound = <<>> /\ at = 1 /\ next = 1 /\ seen = <<>> /\ books = [v \in Venues |-> EmptyBook]
        /\ saved = [next |-> 1, books |-> Core(books)] /\ fills = <<>> /\ outcomes = <<>> /\ trace = <<>>
        /\ restarts = {}
    BY DEF Init
  <1>3. saved.next = 1 /\ saved.books = Core(books)
    BY <1>2
  <1>4. MarksOK
    BY <1>2, <1>3 DEF MarksOK
  <1>5. HistoryIn(inbound, trace) /\ TradesIn(inbound, trace, fills)
    BY <1>1, <1>2, HistoryStart
  <1>6. Len(<<>>) = 0 /\ <<>> \in Seq({}) /\ <<>> \in Seq(Orders) /\ 1 - 1 = 0
    OBVIOUS
  <1>7. ReaderOK
    BY <1>2, <1>6 DEF ReaderOK
  <1>8. RingOK
    <2>1. RingIn(inbound, <<>>, 1, 1)
      BY RingStart
    <2> QED BY <1>2, <2>1 DEF RingOK
  <1>9. \A x : x \notin ToSet(<<>>)
    <2> DEFINE none == <<>>
    <2>1. DOMAIN none = 1 .. 0 /\ \A k : k \notin 1 .. 0
      OBVIOUS
    <2> HIDE DEF none
    <2>2. \A x : x \notin ToSet(none)
      BY <2>1 DEF ToSet
    <2> QED BY <2>2 DEF none
  <1>10. Core(books) = CoreIn(trace, 0)
    <2>1. \A v \in Venues : books[v] = EmptyBook
      BY <1>2
    <2> QED BY <2>1 DEF Core, CoreIn
  <1>11. BooksOK
    <2>1. EmptyBook = [resting |-> {}, arrival |-> 0, seq |-> 0, recent |-> <<>>]
      BY DEF EmptyBook
    <2>2. EmptyBook \in LiveBook /\ EmptyBook.recent = <<>>
      BY <1>6, <2>1 DEF LiveBook
    <2>3. books \in Books /\ \A v \in Venues : books[v].recent = <<>>
      BY <1>2, <2>2 DEF Books
    <2> QED BY <1>2, <1>6, <1>9, <1>10, <2>3 DEF BooksOK
  <1>12. SavedOK
    BY <1>2, <1>3, <1>6, <1>10 DEF SavedOK
  <1>13. AnswersOK
    <2>1. <<>> \in Seq(ToSet(<<>>))
      OBVIOUS
    <2> QED BY <1>2, <1>9, <2>1 DEF AnswersOK
  <1> QED BY <1>1, <1>4, <1>5, <1>7, <1>8, <1>11, <1>12, <1>13 DEF IInv, ShardOK

\* Step by step, where no produce fails.
LEMMA IInvStep ==
    ASSUME ~ProduceFails, IInv, [Next]_vars
    PROVE  IInv'
  <1>1. ReqOK /\ LogOK /\ MarksOK
    BY DEF IInv
  <1>2. req' = req
    BY SameReq
  <1>3. ReqOK'
    BY <1>1, <1>2 DEF ReqOK
  <1>4. /\ LogOK' /\ inbound' \in Seq(Records) /\ Len(inbound) <= Len(inbound')
        /\ \A i \in 1 .. Len(inbound) : inbound'[i] = inbound[i]
    BY <1>1, LogStep
  <1>5. MarksOK' /\ restarts \in SUBSET restarts'
    BY <1>1, MarksStep
  <1>6. ASSUME NoCopyAcrossRestart' PROVE ShardOK'
    <2>1. NoCopyAcrossRestart
      BY <1>1, <1>4, <1>5, <1>6, NoCopyBefore
    <2>2. ShardOK
      BY <2>1 DEF IInv
    <2>3. CASE Handle
      <3>1. PICK e \in {Effect(inbound[at])} :
              /\ books' = e.books /\ seen' = e.seen /\ fills' = e.fills
              /\ outcomes' = outcomes \o e.records /\ trace' = Traced(at + 1, e.books)
        BY <2>3 DEF Handle
      <3>2. /\ at <= Len(inbound) /\ at' = at + 1 /\ next' = at + 1 /\ inbound' = inbound
            /\ UNCHANGED <<saved, restarts>>
        BY <2>3 DEF Handle
      <3>3. EffectOK(e)
        BY <1>1, <2>1, <2>2, <3>1, <3>2, EffectProps
      <3>4. Len(trace) \in Nat /\ at \in 1 .. Len(trace) + 1
        BY <1>1, <2>2, <3>2, ReaderStands DEF ShardOK, ReaderOK
      <3>5. CASE at <= Len(trace)
        BY <1>1, <1>2, <2>2, <3>1, <3>2, <3>3, <3>5, ReplayKeeps
      <3>6. CASE at = Len(trace) + 1
        BY <1>1, <1>2, <2>2, <3>1, <3>2, <3>3, <3>6, HandleKeeps
      <3> QED BY <3>4, <3>5, <3>6
    <2>4. CASE HandleFails
      BY <2>4 DEF HandleFails
    <2>5. CASE Snapshot
      <3>1. inbound' = inbound
        BY <2>5 DEF Snapshot
      <3> QED BY <1>1, <1>2, <2>2, <2>5, <3>1, SnapshotKeeps
    <2>6. CASE Restart
      <3>1. inbound' = inbound
        BY <2>6 DEF Restart
      <3> QED BY <1>1, <1>2, <2>2, <2>6, <3>1, RestartKeeps
    <2>7. CASE UNCHANGED shardVars
      BY <1>1, <1>2, <1>4, <2>2, <2>7, GrowthKeeps
    <2> QED BY <2>3, <2>4, <2>5, <2>6, <2>7
            DEF Next, vars, shardVars, Enqueue, EnqueueCancel, Publish, PublishUnmarked
  <1> QED BY <1>3, <1>4, <1>5, <1>6 DEF IInv

\* What the invariant says of the properties.
LEMMA IInvSound == IInv => SoundAcrossRestarts
  <1> SUFFICES ASSUME IInv, NoCopyAcrossRestart
               PROVE  NeverCrossed /\ ExecutedWithinSize /\ SameFill /\ ReplayRebuilds /\ CancelIsFinal
    BY DEF SoundAcrossRestarts
  <1>1. ReqOK /\ ShardOK
    BY DEF IInv
  <1>2. HistoryIn(inbound, trace) /\ TradesIn(inbound, trace, fills) /\ ReaderOK /\ BooksOK /\ AnswersOK
    BY <1>1 DEF ShardOK
  <1>3. trace \in Seq(Cores) /\ Len(trace) \in Nat /\ at \in Nat /\ at - 1 \in 0 .. Len(trace)
        /\ at <= Len(trace) + 1 /\ Len(trace) \in 0 .. Len(trace) /\ Len(trace) + 1 - 1 = Len(trace)
    <2>1. trace \in Seq(Cores)
      BY <1>2 DEF HistoryIn
    <2> QED BY <1>2, <2>1 DEF ReaderOK
  <1> DEFINE c == Core(books)
             last == CoreIn(trace, Len(trace))
  <1>4. c = CoreIn(trace, at - 1) /\ books \in Books
    BY <1>2 DEF BooksOK
  <1>5. CoreOK(c) /\ CoreOK(last)
    BY <1>2, <1>3, <1>4 DEF HistoryIn
  <1>6. \A v \in Venues : c[v].resting = books[v].resting /\ \A o : Holds(c[v], o) <=> Holds(books[v], o)
    BY <1>4, CoreShape
  <1>7. CaughtUp => c = last
    <2>1. CaughtUp => at - 1 = Len(trace)
      BY <1>3 DEF CaughtUp
    <2> QED BY <1>4, <2>1
  <1> HIDE DEF c, last
  <1>8. NeverCrossed
    BY <1>5, <1>6 DEF CoreOK, Uncrossed, NeverCrossed
  <1>9. ExecutedWithinSize
    <2> SUFFICES ASSUME NEW o \in Orders
                 PROVE  ExecutedOf(o) + (IF CaughtUp THEN Left(c, o) ELSE 0) <= req[o].qty
      BY DEF ExecutedWithinSize, c
    <2>1. ExecutedOf(o) = ExecutedIn(fills, o)
      BY DEF ExecutedOf, ExecutedIn, OwnIn
    <2>2. ExecutedIn(fills, o) + Left(last, o) <= req[o].qty
      BY <1>2 DEF TradesIn, last
    <2>3. Left(last, o) \in Nat /\ req[o].qty \in Nat
      BY <1>1, <1>5, LeftType, TermsOK
    <2>4. ExecutedIn(fills, o) \in Nat
      <3> DEFINE E == {}
                 m == <<>>
      <3>1. E \in SUBSET Trades /\ IsFiniteSet(E) /\ AddsAll(m, E) /\ fills \in Seq(Trades)
        BY <1>2, AddsNothing DEF TradesIn
      <3> HIDE DEF E, m
      <3>2. /\ m \in Seq(E) /\ \A i, j \in 1 .. Len(m) : m[i] = m[j] => i = j
            /\ \A x \in E : \E k \in 1 .. Len(m) : m[k] = x
        BY <3>1 DEF AddsAll
      <3> QED BY <3>1, <3>2, ExecutedMore
    <2> QED BY <1>7, <2>1, <2>2, <2>3, <2>4
  <1>10. SameFill
    <2>1. fills \in Seq(Trades) /\ \A i, j \in 1 .. Len(fills) : Identity(fills[i]) = Identity(fills[j]) => i = j
      BY <1>2 DEF TradesIn
    <2>2. DOMAIN fills = 1 .. Len(fills)
      BY <2>1
    <2> QED BY <2>1, <2>2 DEF SameFill
  <1>11. ReplayRebuilds
    <2>1. \A i : CoreAfter(i) = CoreIn(trace, i)
      BY DEF CoreAfter, CoreIn
    <2> QED BY <1>3, <1>4, <2>1 DEF ReplayRebuilds, c
  <1>12. CancelIsFinal
    <2> SUFFICES ASSUME CaughtUp, NEW o \in Orders, NEW removed \in BOOLEAN,
                        Verdict(o, removed) \in ToSet(outcomes), NEW v \in Venues
                 PROVE  ~Holds(books[v], o)
      BY DEF CancelIsFinal
    <2>1. PICK i \in 1 .. Len(trace) : inbound[i] = Cancel(o)
      BY <1>2 DEF AnswersOK
    <2>2. ~Holds(last[v], o)
      BY <1>2, <2>1 DEF HistoryIn, last
    <2> QED BY <1>6, <1>7, <2>2
  <1> QED BY <1>8, <1>9, <1>10, <1>11, <1>12


-----------------------------------------------------------------------------
(* Price and time. *)

\* Nobody gives anything before all who come earlier have given what they have.
FirstCome(C, left, first, a) ==
    /\ a \in [C -> Nat]
    /\ \A x \in C : a[x] <= left[x]
    /\ \A x, y \in C : <<y, x>> \in first /\ a[x] > 0 => a[y] = left[y]

\* So if one gives less here than there, nobody gives more here.
LEMMA FirstComeLess ==
    ASSUME NEW C, NEW left \in [C -> Nat], NEW first, Lines(C, first),
           NEW a, FirstCome(C, left, first, a), NEW b, FirstCome(C, left, first, b),
           NEW x \in C, a[x] < b[x]
    PROVE  \A y \in C : a[y] <= b[y]
  <1> SUFFICES ASSUME NEW y \in C PROVE a[y] <= b[y]
    OBVIOUS
  <1>1. /\ a[x] \in Nat /\ a[y] \in Nat /\ b[x] \in Nat /\ b[y] \in Nat /\ left[x] \in Nat
        /\ left[y] \in Nat /\ a[y] <= left[y] /\ b[x] <= left[x]
    BY DEF FirstCome
  <1>2. CASE y = x
    BY <1>1, <1>2
  <1>3. CASE <<y, x>> \in first
    <2>1. b[y] = left[y]
      BY <1>1, <1>3 DEF FirstCome
    <2> QED BY <1>1, <2>1
  <1>4. CASE <<x, y>> \in first
    <2>1. a[y] > 0 => a[x] = left[x]
      BY <1>4 DEF FirstCome
    <2>2. ~(a[y] > 0)
      BY <1>1, <2>1
    <2> QED BY <1>1, <2>2
  <1> QED BY <1>2, <1>3, <1>4 DEF Lines

\* There is one way in which a queue gives a quantity.
LEMMA FirstComeUnique ==
    ASSUME NEW C, IsFiniteSet(C), NEW left \in [C -> Nat], NEW first, Lines(C, first),
           NEW a, FirstCome(C, left, first, a), NEW b, FirstCome(C, left, first, b),
           SumOver(a, C) = SumOver(b, C)
    PROVE  \A x \in C : a[x] = b[x]
  <1> SUFFICES ASSUME NEW x \in C, a[x] # b[x] PROVE FALSE
    OBVIOUS
  <1>1. \A y \in C : a[y] \in Nat /\ b[y] \in Nat
    BY DEF FirstCome
  <1>2. CASE a[x] < b[x]
    <2>1. \A y \in C : a[y] <= b[y]
      BY <1>2, FirstComeLess
    <2>2. \A y \in C : a[y] = b[y]
      BY <1>1, <2>1, SumTight
    <2> QED BY <2>2
  <1>3. CASE b[x] < a[x]
    <2>1. \A y \in C : b[y] <= a[y]
      BY <1>3, FirstComeLess
    <2>2. \A y \in C : b[y] = a[y]
      BY <1>1, <2>1, SumTight
    <2> QED BY <2>2
  <1> QED BY <1>1, <1>2, <1>3

\* A venue takes from its quotes what the router has planned to take of them.
LEMMA GivenIsRoute ==
    ASSUME NEW bs, AllQuotesOK(bs), NEW r, r.side \in Sides, r.qty \in Nat, NEW v \in Venues
    PROVE  \A m \in Crossing(bs[v], r) :
             Given(bs[v], r, Planned(bs, r, v))[m] = Route(bs, r)[[maker |-> m, venue |-> v]]
  <1> DEFINE C == Crossing(bs[v], r)
             e == [m \in C |-> [maker |-> m, venue |-> v]]
             own == [m \in C |-> m.left]
             q == Planned(bs, r, v)
             O == Offers(bs, r)
             left == [x \in O |-> x.maker.left]
             R == Route(bs, r)
             a == Given(bs[v], r, q)
             b == [m \in C |-> R[e[m]]]
  <1>1. QuotesOK(bs[v].resting)
    BY DEF AllQuotesOK
  <1>2. C \in SUBSET bs[v].resting /\ IsFiniteSet(C) /\ Lines(C, Queue(bs[v], r))
    BY <1>1, QueueLines
  <1>3. own \in [C -> Nat]
    <2> SUFFICES ASSUME NEW m \in C PROVE m.left \in Nat
      OBVIOUS
    <2> QED BY <1>1, <1>2 DEF QuotesOK, Quote
  <1>4. q \in Nat /\ q <= Depth(bs[v], r) /\ R \in [O -> Nat]
    BY PlanProps
  <1>5. \A m \in C : e[m] \in O /\ e[m].maker = m /\ e[m].venue = v
    BY OffersByVenue
  <1>6. a = Taken(own, Queue(bs[v], r), q)
    BY DEF Given
  <1>7. Depth(bs[v], r) = SumOver(own, C)
    BY DEF Depth
  <1>8. R = Taken(left, Preference(bs, r), r.qty)
    BY DEF Route
  <1>9. \A x \in O : R[x] <= left[x]
    <2>1. IsFiniteSet(O) /\ Lines(O, Preference(bs, r))
      BY OffersLine
    <2>2. left \in [O -> Nat]
      <3> SUFFICES ASSUME NEW x \in O PROVE x.maker.left \in Nat
        OBVIOUS
      <3>1. x.venue \in Venues /\ x.maker \in bs[x.venue].resting
        BY OffersByVenue DEF Crossing
      <3> QED BY <3>1 DEF AllQuotesOK, QuotesOK, Quote
    <2> HIDE DEF O, left
    <2> QED BY <1>8, <2>1, <2>2, TakenProps
  <1>10. \A m, n \in C : <<n, m>> \in Queue(bs[v], r) => <<e[n], e[m]>> \in Preference(bs, r)
    <2> SUFFICES ASSUME NEW m \in C, NEW n \in C, <<n, m>> \in Queue(bs[v], r)
                 PROVE  <<e[n], e[m]>> \in Preference(bs, r)
      OBVIOUS
    <2>1. Before(r.side, n, m)
      BY DEF Queue
    <2>2. Cheaper(r, e[n], e[m])
      BY <1>5, <2>1 DEF Before, Cheaper
    <2> QED BY <1>5, <2>2 DEF Preference
  <1>11. \A m, n \in C : <<n, m>> \in Queue(bs[v], r) /\ R[e[m]] > 0 => R[e[n]] = n.left
    <2>1. \A x, y \in O : <<y, x>> \in Preference(bs, r) /\ R[x] > 0 => R[y] = y.maker.left
      BY PlanProps
    <2> HIDE DEF O, R, e, C
    <2> QED BY <1>5, <1>10, <2>1
  <1>12. \A m \in C : b[m] \in Nat /\ b[m] <= own[m] /\ b[m] = R[e[m]] /\ own[m] = m.left
    <2> TAKE m \in C
    <2>1. R[e[m]] \in Nat /\ R[e[m]] <= left[e[m]] /\ left[e[m]] = m.left
      BY <1>4, <1>5, <1>9
    <2> QED BY <2>1
  <1>13. b \in [C -> Nat]
    BY <1>4, <1>5
  <1>14. SumOver(b, C) = q
    <2>1. OffersAt(bs, r, v) = {e[m] : m \in C}
      <3>1. \A m \in C : e[m] \in OffersAt(bs, r, v)
        BY <1>5 DEF OffersAt
      <3>2. \A x \in OffersAt(bs, r, v) : x.maker \in C /\ x = e[x.maker]
        BY OffersByVenue DEF OffersAt
      <3> HIDE DEF e, C
      <3> QED BY <3>1, <3>2
    <2>2. q = SumOver(R, OffersAt(bs, r, v))
      BY DEF Planned, OffersAt
    <2>3. \A x \in C : R[e[x]] = b[x] /\ b[x] \in Int
      BY <1>12
    <2>4. \A x, y \in C : e[x] = e[y] => x = y
      BY <1>5
    <2>5. SumOver(R, {e[m] : m \in C}) = SumOver(b, C)
      <3>1. IsFiniteSet(C)
        BY <1>2
      <3> HIDE DEF e, b, R, C
      <3> QED BY <2>3, <2>4, <3>1, SumRenamed
    <2> QED BY <2>1, <2>2, <2>5
  <1> HIDE DEF C, e, own, q, O, left, R, a, b
  <1>15. /\ a \in [C -> Nat]
         /\ \A x \in C : a[x] <= own[x]
         /\ SumOver(a, C) = Lesser(q, SumOver(own, C))
         /\ \A x, y \in C : <<y, x>> \in Queue(bs[v], r) /\ a[x] > 0 => a[y] = own[y]
    BY <1>2, <1>3, <1>4, <1>6, TakenProps
  <1>16. FirstCome(C, own, Queue(bs[v], r), a)
    BY <1>15 DEF FirstCome
  <1>17. FirstCome(C, own, Queue(bs[v], r), b)
    BY <1>11, <1>12, <1>13 DEF FirstCome
  <1>18. SumOver(own, C) \in Nat
    BY <1>2, <1>3, SumType
  <1>19. SumOver(a, C) = SumOver(b, C)
    BY <1>4, <1>7, <1>14, <1>15, <1>18 DEF Lesser
  <1>20. \A m \in C : a[m] = b[m]
    BY <1>2, <1>3, <1>16, <1>17, <1>19, FirstComeUnique
  <1> QED BY <1>12, <1>20 DEF C, a, R, e, q, b

\* A price that is better for the taker than one it accepts is accepted too.
LEMMA BetterAccepted ==
    ASSUME ReqOK, NEW o \in Orders, NEW p \in Nat, NEW q \in Nat,
           Accepts(req[o], q), Better(req[o].side, p, q)
    PROVE  Accepts(req[o], p)
  <1>1. /\ req[o].side \in Sides /\ req[o].price \in Nat
    BY TermsOK
  <1>2. Bound(req[o]) \in Int
    <2>1. FeeBps(req[o].price, CollarBps) \in Nat
      <3>1. CollarBps \in Nat
        BY MoneyAssumption, CollarAssumption
      <3> QED BY <1>1, <3>1, FeeType
    <2>2. Bound(req[o]) \in {req[o].price, req[o].price + FeeBps(req[o].price, CollarBps),
                             req[o].price - FeeBps(req[o].price, CollarBps)}
      BY DEF Bound, ApplyBps, SubBps
    <2> QED BY <1>1, <2>1, <2>2
  <1> QED BY <1>1, <1>2 DEF Accepts, Better, Sides

\* Whoever an order trades with was first in line: of the quotes it faced that
\* are still there, none is at a better price on any venue, nor earlier at the
\* same price and venue.
ServedFirst(c, o) ==
    \A x \in DoneBy(c, o) : \A v \in Venues : \A k \in OrderCore(c, o)[v].resting :
      k.side # req[o].side /\ k.order # x.maker =>
        /\ k.order # o /\ \E n \in c[v].resting : n.order = k.order /\ n.at = k.at
        /\ ~Better(req[o].side, k.price, x.price)
        /\ v = x.venue /\ k.price = x.price =>
             \E m \in c[v].resting : m.order = x.maker /\ m.at < k.at

\* So it is for every order that meets sound books.
LEMMA ServedFirstProps ==
    ASSUME ReqOK, NEW o \in Orders, NEW c, CoreOK(c), \A v \in Venues : ~Holds(c[v], o)
    PROVE  ServedFirst(c, o)
  <1> DEFINE r == req[o]
             V == Visited(c, r)
             q(v) == Planned(c, r, v)
             M(v) == Makers(c[v], r, q(v))
             G(v) == Given(c[v], r, q(v))
             C(v) == Crossing(c[v], r)
             K == OrderCore(c, o)
  <1>1. /\ r.side \in Sides /\ r.qty \in Nat
        /\ AllQuotesOK(c) /\ \A v \in Venues : QuotesOK(c[v].resting) /\ c[v].seq \in Nat
    BY TermsOK DEF CoreOK, AllQuotesOK
  <1>2. DoneOK(c, o)
    BY <1>1, DoneProps
  <1>3. \A v \in Venues : q(v) \in Nat
    BY <1>1, PlanProps
  <1>4. \A v \in Venues : \A n \in c[v].resting :
          n.price \in Nat /\ n.at \in Nat /\ n.left \in Nat \ {0} /\ n.side \in Sides /\ n.order # o
    <2> SUFFICES ASSUME NEW v \in Venues, NEW n \in c[v].resting
                 PROVE  n.price \in Nat /\ n.at \in Nat /\ n.left \in Nat \ {0} /\ n.side \in Sides /\ n.order # o
      OBVIOUS
    <2>1. n \in Quote
      BY <1>1 DEF QuotesOK
    <2> QED BY <2>1 DEF Quote, Holds
  \* What remains of a quote on the other side, and that it has not given all.
  <1>5. ASSUME NEW v \in Venues, NEW k \in K[v].resting, k.side # r.side
        PROVE  \E n \in c[v].resting :
                 /\ n.order = k.order /\ n.at = k.at /\ n.price = k.price /\ n.side = k.side
                 /\ ~(n \in M(v) /\ v \in V /\ G(v)[n] = n.left)
    <2>1. k # Rested(c[v], o, r, Remainder(o, DoneBy(c, o)))
      BY <1>5 DEF Rested
    <2> QED BY <2>1, QuotesAfter
  <1> SUFFICES ASSUME NEW x \in DoneBy(c, o), NEW v \in Venues, NEW k \in K[v].resting,
                      k.side # r.side, k.order # x.maker
               PROVE  /\ k.order # o /\ \E n \in c[v].resting : n.order = k.order /\ n.at = k.at
                      /\ ~Better(r.side, k.price, x.price)
                      /\ v = x.venue /\ k.price = x.price =>
                           \E m \in c[v].resting : m.order = x.maker /\ m.at < k.at
    BY DEF ServedFirst
  <1>6. PICK n \in c[v].resting :
          /\ n.order = k.order /\ n.at = k.at /\ n.price = k.price /\ n.side = k.side
          /\ ~(n \in M(v) /\ v \in V /\ G(v)[n] = n.left)
    BY <1>5
  <1>7. PICK w \in Venues : w = x.venue /\ w \in V
    BY <1>2 DEF DoneOK, Visited
  <1>8. PICK m \in M(w) : x.maker = m.order /\ x.price = m.price
    BY <1>2, <1>7 DEF DoneOK
  <1>9. m \in C(w) /\ m \in c[w].resting /\ G(w)[m] > 0 /\ m.side # r.side /\ Accepts(r, m.price)
    BY <1>8 DEF Makers, Crossing
  <1>10. n.left \in Nat \ {0} /\ n.price \in Nat /\ m.price \in Nat /\ n.at \in Nat /\ m.at \in Nat
    BY <1>4, <1>9
  <1>11. Accepts(r, n.price) => n \in C(v)
    BY <1>6 DEF Crossing
  \* A quote that crosses and gives all it has is gone.
  <1>12. ASSUME n \in C(v), G(v)[n] = n.left, v \in V PROVE FALSE
    <2>1. n \in M(v)
      BY <1>10, <1>12 DEF Makers
    <2> QED BY <1>6, <1>12, <2>1
  <1>13. ~Better(r.side, n.price, m.price)
    <2> SUFFICES ASSUME Better(r.side, n.price, m.price) PROVE FALSE
      OBVIOUS
    <2> DEFINE y == [maker |-> n, venue |-> v]
               z == [maker |-> m, venue |-> w]
    <2>1. Accepts(r, n.price)
      BY <1>9, <1>10, BetterAccepted
    <2>2. n \in C(v)
      BY <1>11, <2>1
    <2>3. y \in Offers(c, r) /\ z \in Offers(c, r)
      BY <1>9, <2>2, OffersByVenue
    <2>4. Cheaper(r, y, z)
      BY DEF Cheaper
    <2>5. <<y, z>> \in Preference(c, r)
      BY <2>3, <2>4 DEF Preference
    <2>6. Route(c, r)[z] = G(w)[m] /\ Route(c, r)[y] = G(v)[n]
      BY <1>1, <1>9, <2>2, GivenIsRoute
    <2>7. \A a, b \in Offers(c, r) :
            <<b, a>> \in Preference(c, r) /\ Route(c, r)[a] > 0 => Route(c, r)[b] = b.maker.left
      BY <1>1, PlanProps
    <2>8. y.maker = n /\ G(v)[n] = n.left
      BY <1>9, <2>3, <2>5, <2>6, <2>7
    <2>9. v \in V
      <3>1. QuotesOK(c[v].resting) /\ q(v) \in Nat
        BY <1>1, <1>3
      <3>3. IsFiniteSet(C(v)) /\ \A s \in C(v) : G(v)[s] \in Nat
        BY <1>1, <3>1, GivenProps, QueueLines
      <3>5. Done(c[v], r, q(v)) = Lesser(q(v), Depth(c[v], r)) /\ Depth(c[v], r) \in Nat
        BY <1>1, <3>1, GivenProps
      <3>6. n \in M(v) /\ IsFiniteSet(M(v)) /\ \A s \in M(v) : G(v)[s] \in Nat
        BY <1>10, <2>2, <2>8, <3>3, FS_Subset DEF Makers
      <3>7. SumOver(G(v), M(v)) >= G(v)[n]
        BY <3>6, SumMember
      <3>8. q(v) > 0
        BY <1>10, <2>8, <3>1, <3>5, <3>7 DEF Done, Lesser
      <3> QED BY <3>8 DEF Visited
    <2> QED BY <1>12, <2>2, <2>8, <2>9
  <1>14. ASSUME v = w, n.price = m.price PROVE m.at < n.at
    <2>1. n \in C(v)
      BY <1>9, <1>11, <1>14
    <2>2. m.at # n.at
      BY <1>1, <1>6, <1>8, <1>9, <1>14 DEF QuotesOK
    <2>3. ASSUME n.at < m.at PROVE FALSE
      <3>1. <<n, m>> \in Queue(c[v], r)
        BY <1>9, <1>14, <2>1, <2>3 DEF Queue, Before
      <3>2. G(v)[n] = n.left
        <4>1. q(v) \in Nat /\ QuotesOK(c[v].resting)
          BY <1>1, <1>3
        <4> QED BY <1>1, <1>9, <1>14, <2>1, <3>1, <4>1, GivenProps
      <3> QED BY <1>7, <1>12, <1>14, <2>1, <3>2
    <2> QED BY <1>10, <2>2, <2>3
  <1>15. k.order # o
    BY <1>4, <1>6
  <1> QED BY <1>6, <1>7, <1>8, <1>9, <1>13, <1>14, <1>15

\* Record i is where order o first came.
CameFirst(in, o, i) == in[i] = Order(o) /\ \A j \in 1 .. i - 1 : in[j] # Order(o)

\* Quotes stand in a book in the order in which their orders first came, among
\* the first n records.
QueuedIn(in, c, n) ==
    \A v \in Venues :
      /\ \A m \in c[v].resting : \E i \in 1 .. n : CameFirst(in, m.order, i)
      /\ \A m, k \in c[v].resting : m.at < k.at =>
           \A i, j \in 1 .. n : CameFirst(in, m.order, i) /\ CameFirst(in, k.order, j) => i < j

\* An order comes first once.
LEMMA CameFirstOnce ==
    ASSUME NEW in, NEW o, NEW i \in Nat \ {0}, NEW j \in Nat \ {0},
           CameFirst(in, o, i), CameFirst(in, o, j)
    PROVE  i = j
  <1>1. ~(i \in 1 .. j - 1) /\ ~(j \in 1 .. i - 1)
    BY DEF CameFirst
  <1> QED BY <1>1

\* Records beside the first n are of no account.
LEMMA QueuedSame ==
    ASSUME NEW in, NEW c, NEW n \in Nat, QueuedIn(in, c, n),
           NEW in2, \A i \in 1 .. n : in2[i] = in[i]
    PROVE  QueuedIn(in2, c, n)
  <1>1. \A o : \A i \in 1 .. n : CameFirst(in2, o, i) <=> CameFirst(in, o, i)
    BY DEF CameFirst
  <1> QED BY <1>1 DEF QueuedIn

\* Quotes that were there before, and perhaps one that has just come and stands
\* behind them.
LEMMA QueuedMore ==
    ASSUME NEW in, NEW c, CoreOK(c), NEW n \in Nat, QueuedIn(in, c, n), NEW d, NEW o,
           \A v \in Venues : \A k \in d[v].resting :
             \/ \E m \in c[v].resting : m.order = k.order /\ m.at = k.at
             \/ CameFirst(in, o, n + 1) /\ k.order = o /\ k.at = c[v].arrival + 1
    PROVE  QueuedIn(in, d, n + 1)
  <1> SUFFICES ASSUME NEW v \in Venues
               PROVE  /\ \A m \in d[v].resting : \E i \in 1 .. n + 1 : CameFirst(in, m.order, i)
                      /\ \A m, k \in d[v].resting : m.at < k.at =>
                           \A i, j \in 1 .. n + 1 :
                             CameFirst(in, m.order, i) /\ CameFirst(in, k.order, j) => i < j
    BY DEF QueuedIn
  <1>1. \A m \in c[v].resting : \E i \in 1 .. n : CameFirst(in, m.order, i)
    BY DEF QueuedIn
  <1>2. \A m, k \in c[v].resting : m.at < k.at =>
          \A i, j \in 1 .. n : CameFirst(in, m.order, i) /\ CameFirst(in, k.order, j) => i < j
    BY DEF QueuedIn
  <1>3. \A m \in c[v].resting : m.at \in Nat /\ m.at <= c[v].arrival /\ c[v].arrival \in Nat
    BY DEF CoreOK, Placed, QuotesOK, Quote
  <1>4. n + 1 \in 1 .. n + 1 /\ \A i \in 1 .. n : i \in 1 .. n + 1 /\ i < n + 1
    OBVIOUS
  <1>5. \A p : \A i, j \in 1 .. n + 1 : CameFirst(in, p, i) /\ CameFirst(in, p, j) => i = j
    BY CameFirstOnce
  <1>6. ASSUME NEW m \in d[v].resting PROVE \E i \in 1 .. n + 1 : CameFirst(in, m.order, i)
    <2>1. CASE \E k \in c[v].resting : k.order = m.order
      BY <1>1, <1>4, <2>1
    <2>2. CASE CameFirst(in, o, n + 1) /\ m.order = o
      BY <1>4, <2>2
    <2> QED BY <2>1, <2>2
  <1>7. ASSUME NEW m \in d[v].resting, NEW k \in d[v].resting, m.at < k.at,
               NEW i \in 1 .. n + 1, NEW j \in 1 .. n + 1,
               CameFirst(in, m.order, i), CameFirst(in, k.order, j)
        PROVE  i < j
    <2>1. CASE m.at = c[v].arrival + 1
      <3>1. \/ \E l \in c[v].resting : l.at = k.at
            \/ k.at = c[v].arrival + 1
        OBVIOUS
      <3>2. c[v].arrival \in Nat
        BY DEF CoreOK
      <3> QED BY <1>3, <1>7, <2>1, <3>1, <3>2
    <2>2. CASE \E l \in c[v].resting : l.order = m.order /\ l.at = m.at
      <3>1. PICK l \in c[v].resting : l.order = m.order /\ l.at = m.at
        BY <2>2
      <3>2. PICK i2 \in 1 .. n : CameFirst(in, m.order, i2)
        BY <1>1, <3>1
      <3>3. i = i2 /\ i \in 1 .. n
        BY <1>4, <1>5, <1>7, <3>2
      <3>4. CASE \E h \in c[v].resting : h.order = k.order /\ h.at = k.at
        <4>1. PICK h \in c[v].resting : h.order = k.order /\ h.at = k.at
          BY <3>4
        <4>2. PICK j2 \in 1 .. n : CameFirst(in, k.order, j2)
          BY <1>1, <4>1
        <4>3. j = j2 /\ j \in 1 .. n
          BY <1>4, <1>5, <1>7, <4>2
        <4>4. l.at < h.at
          BY <1>7, <3>1, <4>1
        <4> QED BY <1>2, <1>7, <3>1, <3>3, <4>1, <4>3, <4>4
      <3>5. CASE CameFirst(in, o, n + 1) /\ k.order = o
        <4>1. j = n + 1
          BY <1>4, <1>5, <1>7, <3>5
        <4> QED BY <1>4, <3>3, <4>1
      <3> QED BY <3>4, <3>5
    <2> QED BY <2>1, <2>2
  <1> QED BY <1>6, <1>7

\* A record keeps the queues in the order in which the orders came.
LEMMA QueuedStep ==
    ASSUME ReqOK, NEW in, NEW n \in Nat, in[n + 1] \in Records, NEW c \in Cores, CoreOK(c),
           QueuedIn(in, c, n)
    PROVE  QueuedIn(in, StepIn(in, n + 1, c), n + 1)
  <1> DEFINE d == StepIn(in, n + 1, c)
             rec == in[n + 1]
  <1>1. PICK o \in Orders : o = rec.order
    BY RecordProps
  <1>2. ASSUME NEW v \in Venues, NEW k \in d[v].resting
        PROVE  \/ \E m \in c[v].resting : m.order = k.order /\ m.at = k.at
               \/ CameFirst(in, o, n + 1) /\ k.order = o /\ k.at = c[v].arrival + 1
    <2>1. CASE rec.type = "CANCEL"
      <3>1. d = Withdrawn(c, o)
        BY <1>1, <2>1 DEF StepIn
      <3>2. k \in c[v].resting
        BY <1>2, <3>1, WithdrawnVenue
      <3> QED BY <3>2
    <2>2. CASE rec.type # "CANCEL" /\ FirstIn(in, n + 1)
      <3>1. d = OrderCore(c, o)
        BY <1>1, <2>2 DEF StepIn
      <3>2. CameFirst(in, o, n + 1)
        <4>1. rec = Order(o)
          BY <1>1, <2>2, RecordProps
        <4> QED BY <2>2, <4>1 DEF FirstIn, CameFirst
      <3>3. \/ k = Rested(c[v], o, req[o], Remainder(o, DoneBy(c, o)))
            \/ \E m \in c[v].resting : m.order = k.order /\ m.at = k.at
        BY <1>2, <3>1, QuotesAfter
      <3> QED BY <3>2, <3>3 DEF Rested
    <2>3. CASE rec.type # "CANCEL" /\ ~FirstIn(in, n + 1)
      <3>1. d = c
        BY <2>3 DEF StepIn
      <3> QED BY <1>2, <3>1
    <2> QED BY <2>1, <2>2, <2>3
  <1> HIDE DEF d
  <1> QED BY <1>2, QueuedMore DEF d

\* Where an order is found in the log is where it first came.
LEMMA FoundFirst ==
    ASSUME inbound \in Seq(Records), NEW o, NEW i \in 1 .. Len(inbound), CameFirst(inbound, o, i)
    PROVE  Arrived(o) = i
  <1> DEFINE I == {j \in 1 .. Len(inbound) : inbound[j] = Order(o)}
  <1>1. i \in I /\ \A j \in I : i <= j
    <2>1. Len(inbound) \in Nat
      OBVIOUS
    <2>2. inbound[i] = Order(o) /\ \A j \in 1 .. i - 1 : inbound[j] # Order(o)
      BY DEF CameFirst
    <2> QED BY <2>1, <2>2
  <1>2. \A j \in I : j \in Int
    OBVIOUS
  <1>3. Arrived(o) = IF I # {} THEN Min(I) ELSE 0
    BY DEF Arrived, SelectInSeq
  <1> HIDE DEF I
  <1>4. Min(I) = CHOOSE x \in I : \A y \in I : x <= y
    BY DEF Min
  <1>5. Min(I) \in I /\ \A y \in I : Min(I) <= y
    BY <1>1, <1>4
  <1>6. Min(I) = i
    <2>1. Min(I) <= i /\ i <= Min(I) /\ Min(I) \in Int /\ i \in Int
      BY <1>1, <1>2, <1>5
    <2> QED BY <2>1
  <1> QED BY <1>1, <1>3, <1>6

\* The queues of the history's last books.
QueuedOK == QueuedIn(inbound, CoreIn(trace, Len(trace)), Len(trace))

QInv == NoCopyAcrossRestart => QueuedOK

\* What handling a record adds: nothing, to what was met before; and to the end
\* of the history what the record makes of it, and what it executes.
HandledOK(more) ==
    /\ fills' = fills \o more
    /\ \/ trace' = trace /\ more = <<>>
       \/ /\ at = Len(trace) + 1 /\ at <= Len(inbound)
          /\ more \in Seq(DoneIn(inbound, trace, at))
          /\ CoreIn(trace', Len(trace')) = StepIn(inbound, at, CoreIn(trace, Len(trace)))
          /\ CoreIn(trace', Len(trace')) = Core(books') /\ Len(trace') = Len(trace) + 1

\* What handling a record that is not skipped adds to the history.
LEMMA HandledProps ==
    ASSUME IInv, NoCopyAcrossRestart, Handle
    PROVE  \E more : HandledOK(more)
  <1>1. ReqOK /\ LogOK /\ MarksOK /\ ShardOK
    BY DEF IInv
  <1>2. PICK e \in {Effect(inbound[at])} :
          /\ books' = e.books /\ seen' = e.seen /\ fills' = e.fills
          /\ outcomes' = outcomes \o e.records /\ trace' = Traced(at + 1, e.books)
    BY DEF Handle
  <1>3. at <= Len(inbound) /\ at' = at + 1 /\ inbound' = inbound
    BY DEF Handle
  <1>4. EffectOK(e)
    BY <1>1, <1>2, <1>3, EffectProps
  <1>5. /\ at \in 1 .. Len(trace) + 1 /\ trace \in Seq(Cores) /\ Len(trace) \in Nat
        /\ fills \in Seq(Trades)
    BY <1>1, <1>3, ReaderStands DEF ShardOK, ReaderOK
  <1>6. PICK more : fills' = fills \o more /\ AddsAll(more, DoneIn(inbound, trace, at) \ ToSet(fills))
    BY <1>2, <1>4 DEF EffectOK
  <1>7. Core(e.books) \in Cores
    BY <1>4, CoreShape DEF EffectOK
  <1>8. CASE at <= Len(trace)
    <2>1. trace' = trace
      BY <1>2, <1>5, <1>7, <1>8, TracedProps
    <2>2. DoneIn(inbound, trace, at) \in SUBSET ToSet(fills)
      BY <1>1, <1>5, <1>8 DEF ShardOK, TradesIn
    <2>3. DoneIn(inbound, trace, at) \ ToSet(fills) = {}
      BY <2>2
    <2>4. more \in Seq({}) /\ Len(more) = 0
      BY <1>6, <2>3, FS_EmptySet DEF AddsAll
    <2>5. more = <<>>
      BY <2>4
    <2> QED BY <1>6, <2>1, <2>5 DEF HandledOK
  <1>9. CASE at = Len(trace) + 1
    <2> DEFINE n == Core(e.books)
    <2>1. trace' = Append(trace, n)
      BY <1>2, <1>5, <1>7, <1>9, TracedProps
    <2>2. n = StepIn(inbound, at, CoreIn(trace, Len(trace)))
      <3>1. at - 1 = Len(trace)
        BY <1>5, <1>9
      <3> QED BY <1>4, <3>1 DEF EffectOK
    <2>3. Core(books') = n
      BY <1>2
    <2> HIDE DEF n
    <2>4. Len(trace') = Len(trace) + 1 /\ CoreIn(trace', Len(trace')) = n
      <3>1. Len(Append(trace, n)) = Len(trace) + 1 /\ CoreIn(Append(trace, n), Len(trace) + 1) = n
        BY <1>5, <1>7, CoreLonger DEF n
      <3> QED BY <2>1, <3>1
    <2>5. more \in Seq(DoneIn(inbound, trace, at))
      <3>1. more \in Seq(DoneIn(inbound, trace, at) \ ToSet(fills))
        BY <1>6 DEF AddsAll
      <3> QED BY <3>1
    <2> QED BY <1>3, <1>6, <1>9, <2>2, <2>3, <2>4, <2>5 DEF HandledOK
  <1> QED BY <1>5, <1>8, <1>9

\* A step keeps the queues in the order in which the orders came.
LEMMA QInvStep ==
    ASSUME ~ProduceFails, IInv, QInv, [Next]_vars
    PROVE  QInv'
  <1> SUFFICES ASSUME NoCopyAcrossRestart' PROVE QueuedOK'
    BY DEF QInv
  <1>1. ReqOK /\ LogOK /\ MarksOK
    BY DEF IInv
  <1>2. req' = req
    BY SameReq
  <1>3. /\ inbound' \in Seq(Records) /\ Len(inbound) <= Len(inbound')
        /\ \A i \in 1 .. Len(inbound) : inbound'[i] = inbound[i]
    BY <1>1, LogStep
  <1>4. NoCopyAcrossRestart
    BY <1>1, <1>3, MarksStep, NoCopyBefore
  <1>5. ShardOK /\ QueuedOK
    BY <1>4 DEF IInv, QInv
  <1>6. /\ inbound \in Seq(Records) /\ Len(inbound) \in Nat
        /\ trace \in Seq(Cores) /\ Len(trace) \in Nat /\ Len(trace) <= Len(inbound)
    BY <1>1, <1>5 DEF ShardOK, HistoryIn, LogOK, LogIn
  <1>7. CASE Handle
    <2>1. PICK more : HandledOK(more)
      BY <1>4, <1>7, HandledProps
    <2>2. inbound' = inbound
      BY <1>7 DEF Handle
    <2>3. CASE trace' = trace
      BY <1>5, <2>2, <2>3 DEF QueuedOK
    <2>4. CASE trace' # trace
      <3> DEFINE c == CoreIn(trace, Len(trace))
      <3>1. /\ at = Len(trace) + 1 /\ at <= Len(inbound) /\ Len(trace') = Len(trace) + 1
            /\ CoreIn(trace', Len(trace')) = StepIn(inbound, Len(trace) + 1, c)
        BY <2>1, <2>4 DEF HandledOK
      <3>2. inbound[Len(trace) + 1] \in Records
        BY <1>6, <3>1
      <3>3. CoreOK(c) /\ c \in Cores
        BY <1>5, <1>6, CoreLonger, CoreZero DEF ShardOK, HistoryIn, CoreIn
      <3>4. QueuedIn(inbound, StepIn(inbound, Len(trace) + 1, c), Len(trace) + 1)
        BY <1>1, <1>5, <1>6, <3>2, <3>3, QueuedStep DEF QueuedOK
      <3>5. QueuedIn(inbound, CoreIn(trace', Len(trace')), Len(trace'))
        BY <3>1, <3>4
      <3> QED BY <2>2, <3>5 DEF QueuedOK
    <2> QED BY <2>3, <2>4
  <1>8. CASE trace' = trace
    <2>1. \A i \in 1 .. Len(trace) : inbound'[i] = inbound[i]
      BY <1>3, <1>6
    <2>2. QueuedIn(inbound', CoreIn(trace, Len(trace)), Len(trace))
      BY <1>5, <1>6, <2>1, QueuedSame DEF QueuedOK
    <2> QED BY <1>8, <2>2 DEF QueuedOK
  <1> QED BY <1>7, <1>8 DEF Next, vars, shardVars, Enqueue, EnqueueCancel, Publish, PublishUnmarked,
                            HandleFails, Snapshot, Restart

\* What is executed first is what was first in line.
LEMMA PriorityStep ==
    ASSUME ~ProduceFails, IInv, QInv, NoCopyAcrossRestart, [Next]_vars
    PROVE  \A i \in Len(fills) + 1 .. Len(fills') :
             LET x == fills'[i]
                 side == req[x.taker].side
             IN \A v \in Venues : \A m \in books'[v].resting :
                  m.side # side /\ m.order # x.maker =>
                    /\ ~Better(side, m.price, x.price)
                    /\ v = x.venue /\ m.price = x.price => Arrived(x.maker) < Arrived(m.order)
  <1>1. ReqOK /\ LogOK /\ MarksOK /\ ShardOK /\ QueuedOK
    BY DEF IInv, QInv
  <1>2. /\ inbound \in Seq(Records) /\ Len(inbound) \in Nat /\ fills \in Seq(Trades)
        /\ trace \in Seq(Cores) /\ Len(trace) \in Nat /\ Len(trace) <= Len(inbound)
        /\ HistoryIn(inbound, trace)
    BY <1>1 DEF ShardOK, HistoryIn, TradesIn, LogOK, LogIn
  <1>3. CASE Handle
    <2> SUFFICES ASSUME NEW i \in Len(fills) + 1 .. Len(fills'), NEW v \in Venues,
                        NEW k \in books'[v].resting,
                        k.side # req[fills'[i].taker].side, k.order # fills'[i].maker
                 PROVE  /\ ~Better(req[fills'[i].taker].side, k.price, fills'[i].price)
                        /\ v = fills'[i].venue /\ k.price = fills'[i].price =>
                             Arrived(fills'[i].maker)
                               < Arrived(k.order)
      OBVIOUS
    <2> DEFINE T == Len(trace)
               c == CoreIn(trace, T)
               D == DoneIn(inbound, trace, at)
    <2>1. PICK more : HandledOK(more)
      BY <1>3, HandledProps
    <2>2. more # <<>>
      <3>1. Len(fills') # Len(fills)
        BY <1>2
      <3>2. fills \o <<>> = fills
        BY <1>2
      <3> QED BY <2>1, <3>1, <3>2 DEF HandledOK
    <2>3. /\ fills' = fills \o more /\ at = T + 1 /\ at <= Len(inbound) /\ more \in Seq(D)
          /\ Core(books') = StepIn(inbound, at, c)
      BY <2>1, <2>2 DEF HandledOK
    <2>4. PICK x : x = fills'[i] /\ x \in D
      <3>1. /\ Len(fills) \in Nat /\ Len(more) \in Nat /\ Len(fills') = Len(fills) + Len(more)
            /\ \A j \in Len(fills) + 1 .. Len(fills) + Len(more) : fills'[j] = more[j - Len(fills)]
        BY <1>2, <2>3
      <3>2. i - Len(fills) \in 1 .. Len(more) /\ fills'[i] = more[i - Len(fills)]
        BY <3>1
      <3> QED BY <2>3, <3>2
    <2>5. FirstIn(inbound, at) /\ D = DoneBy(CoreIn(trace, at - 1), inbound[at].order)
      BY <2>4 DEF DoneIn
    <2>6. inbound[at] \in Records /\ at - 1 = T
      BY <1>2, <2>3
    <2>7. PICK o \in Orders : o = inbound[at].order /\ inbound[at] = Order(o)
      BY <2>5, <2>6, RecordProps DEF FirstIn
    <2>8. x \in DoneBy(c, o)
      BY <2>4, <2>5, <2>6, <2>7
    <2>9. CoreOK(c) /\ \A w \in Venues : ~Holds(c[w], o)
      <3>1. CoreOK(c) /\ \A w \in Venues, p \in Orders : Holds(c[w], p) => Came(inbound, p, 1, T)
        BY <1>2 DEF HistoryIn
      <3>2. ~Came(inbound, o, 1, T)
        BY <2>5, <2>6, <2>7 DEF Came, FirstIn
      <3> QED BY <3>1, <3>2
    <2>10. Core(books') = OrderCore(c, o)
      BY <2>3, <2>5, <2>7 DEF StepIn, FirstIn
    <2>11. k \in OrderCore(c, o)[v].resting
      <3>1. Core(books')[v].resting = books'[v].resting
        BY DEF Core, Saved
      <3> QED BY <2>10, <3>1
    <2>12. x.taker = o
      <3>1. \A w \in Venues : c[w].seq \in Nat /\ QuotesOK(c[w].resting)
        BY <2>9 DEF CoreOK
      <3>2. DoneOK(c, o)
        BY <1>1, <3>1, DoneProps DEF AllQuotesOK
      <3> QED BY <2>8, <3>2 DEF DoneOK
    <2> HIDE DEF c, D
    <2>13. ServedFirst(c, o)
      BY <1>1, <2>9, ServedFirstProps
    <2>14. /\ \E n \in c[v].resting : n.order = k.order /\ n.at = k.at
           /\ ~Better(req[o].side, k.price, x.price)
           /\ v = x.venue /\ k.price = x.price =>
                \E m \in c[v].resting : m.order = x.maker /\ m.at < k.at
      BY <2>4, <2>8, <2>11, <2>12, <2>13 DEF ServedFirst
    <2>15. ASSUME v = x.venue, k.price = x.price
           PROVE  Arrived(x.maker)
                    < Arrived(k.order)
      <3>1. PICK n \in c[v].resting : n.order = k.order /\ n.at = k.at
        BY <2>14
      <3>2. PICK m \in c[v].resting : m.order = x.maker /\ m.at < k.at
        BY <2>14, <2>15
      <3>3. QueuedIn(inbound, c, T)
        BY <1>1 DEF QueuedOK, c
      <3>4. PICK a \in 1 .. T : CameFirst(inbound, m.order, a)
        BY <3>3 DEF QueuedIn
      <3>5. PICK b \in 1 .. T : CameFirst(inbound, n.order, b)
        BY <3>3 DEF QueuedIn
      <3>6. a < b
        BY <3>1, <3>2, <3>3, <3>4, <3>5 DEF QueuedIn
      <3>7. a \in 1 .. Len(inbound) /\ b \in 1 .. Len(inbound)
        BY <1>2
      <3>8. Arrived(m.order) = a
        BY <1>2, <3>4, <3>7, FoundFirst
      <3>9. Arrived(n.order) = b
        BY <1>2, <3>5, <3>7, FoundFirst
      <3> QED BY <3>1, <3>2, <3>6, <3>8, <3>9
    <2> QED BY <2>4, <2>12, <2>14, <2>15
  <1>4. CASE fills' = fills
    <2>1. Len(fills) + 1 .. Len(fills') = {}
      BY <1>2, <1>4
    <2> QED BY <2>1
  <1> QED BY <1>3, <1>4 DEF Next, vars, shardVars, clientVars, Enqueue, EnqueueCancel, Publish, PublishUnmarked,
                            HandleFails, Snapshot, Restart

\* At first no order has come, and none is queued.
LEMMA QInvInit == Init => QInv
  <1> SUFFICES ASSUME Init PROVE QueuedOK
    BY DEF QInv
  <1>1. trace = <<>> /\ Len(trace) = 0
    BY DEF Init
  <1>2. \A v \in Venues : CoreIn(<<>>, 0)[v].resting = {}
    BY DEF CoreIn, Saved, EmptyBook
  <1> QED BY <1>1, <1>2 DEF QueuedOK, QueuedIn

-----------------------------------------------------------------------------
(* The market.  What of the outbox has been met. *)

MetIn(in, n) == {in[i] : i \in 1 .. n}

\* The rows met are the first of the outbox, each once: as many as there are.
LEMMA MetRows ==
    ASSUME NEW out, NEW in, NEW mark, LogIn(out, in, mark), NEW n \in 0 .. Len(in)
    PROVE  \E p \in 0 .. Len(out) :
             /\ Cardinality(MetIn(in, n)) = p
             /\ \A q \in 1 .. Len(out) : out[q] \in MetIn(in, n) <=> q <= p
  <1> DEFINE P == {q \in 1 .. Len(out) : out[q] \in MetIn(in, n)}
  <1>1. /\ Len(out) \in Nat /\ Len(in) \in Nat /\ n \in Nat
        /\ \A p, q \in 1 .. Len(out) : out[p] = out[q] => p = q
        /\ \A i \in 1 .. Len(in) : \E p \in 1 .. Len(out) : in[i] = out[p]
        /\ \A i \in 1 .. Len(in), p \in 1 .. Len(out) :
             in[i] = out[p] => \A q \in 1 .. p - 1 : \E j \in 1 .. i - 1 : in[j] = out[q]
    BY DEF LogIn
  <1>2. \A p \in P : \A q \in 1 .. p - 1 : q \in P
    <2> SUFFICES ASSUME NEW p \in P, NEW q \in 1 .. p - 1 PROVE q \in P
      OBVIOUS
    <2>1. PICK i \in 1 .. n : in[i] = out[p]
      BY DEF MetIn
    <2>a. i \in 1 .. Len(in) /\ p \in 1 .. Len(out)
      BY <1>1
    <2>2. PICK j \in 1 .. i - 1 : in[j] = out[q]
      BY <1>1, <2>1, <2>a
    <2>3. j \in 1 .. n /\ q \in 1 .. Len(out)
      BY <1>1
    <2> QED BY <2>2, <2>3 DEF MetIn
  <1>3. \E p \in 0 .. Len(out) : P = 1 .. p
    <2> DEFINE N == {k \in Nat : k + 1 \notin P}
    <2>1. Len(out) \in N
      BY <1>1
    <2>2. PICK p \in N : \A k \in N : p <= k
      BY <2>1, LeastNat
    <2>3. \A q \in 1 .. p : q \in P
      <3> SUFFICES ASSUME NEW q \in 1 .. p PROVE q \in P
        OBVIOUS
      <3>1. q - 1 \in Nat /\ q - 1 \notin N
        BY <2>2
      <3> QED BY <3>1
    <2>4. \A q \in P : q <= p
      <3> SUFFICES ASSUME NEW q \in P, q > p PROVE FALSE
        BY <1>1, <2>2
      <3>1. p + 1 \notin P /\ p \in Nat /\ q \in Nat
        BY <1>1, <2>2
      <3>2. p + 1 \in 1 .. q - 1 \/ p + 1 = q
        BY <3>1
      <3> QED BY <1>2, <3>1, <3>2
    <2>5. P = 1 .. p
      BY <2>3, <2>4, <1>1, <2>2
    <2>6. p <= Len(out)
      BY <2>1, <2>2
    <2> QED BY <2>5, <2>6, <1>1, <2>2
  <1>4. PICK p \in 0 .. Len(out) : P = 1 .. p
    BY <1>3
  <1>5. MetIn(in, n) = {out[q] : q \in 1 .. p}
    <2>1. ASSUME NEW x \in MetIn(in, n) PROVE \E q \in 1 .. p : x = out[q]
      <3>1. PICK i \in 1 .. n : in[i] = x
        BY DEF MetIn
      <3>i. i \in 1 .. Len(in)
        BY <1>1
      <3>2. PICK q \in 1 .. Len(out) : x = out[q]
        BY <1>1, <3>1, <3>i
      <3>3. q \in P
        BY <3>1, <3>2
      <3> HIDE DEF P
      <3> QED BY <1>4, <3>2, <3>3
    <2>2. ASSUME NEW q \in 1 .. p PROVE out[q] \in MetIn(in, n)
      <3>1. q \in P
        BY <1>4
      <3> QED BY <3>1
    <2> HIDE DEF P
    <2> QED BY <2>1, <2>2
  <1>6. Cardinality(MetIn(in, n)) = p
    <2> DEFINE M == MetIn(in, n)
               m == [q \in 1 .. p |-> out[q]]
    <2>1. \A x, y \in 1 .. p : m[x] = m[y] => x = y
      BY <1>1
    <2>2. m \in [1 .. p -> M] /\ \A x \in M : \E q \in 1 .. p : m[q] = x
      BY <1>5
    <2> HIDE DEF M, m
    <2>3. m \in Bijection(1 .. p, M)
      BY <2>1, <2>2 DEF Bijection, Injection, Surjection, IsInjective
    <2>4. ExistsBijection(1 .. p, M)
      BY <2>3 DEF ExistsBijection
    <2> QED BY <2>4, FS_CountingElements DEF M
  <1>7. \A q \in 1 .. Len(out) : out[q] \in MetIn(in, n) <=> q <= p
    <2>1. \A q \in 1 .. Len(out) : out[q] \in MetIn(in, n) <=> q \in P
      OBVIOUS
    <2> HIDE DEF P
    <2> QED BY <1>1, <1>4, <2>1
  <1> QED BY <1>6, <1>7

\* The record after the first n: met before, or the next row of the outbox.
LEMMA MetNext ==
    ASSUME NEW out, NEW in, NEW mark, LogIn(out, in, mark), NEW n \in Nat, n < Len(in)
    PROVE  LET p == Cardinality(MetIn(in, n))
           IN /\ p \in Nat /\ p <= Len(out)
              /\ in[n + 1] \in MetIn(in, n) =>
                   /\ MetIn(in, n + 1) = MetIn(in, n)
                   /\ \E q \in 1 .. p : out[q] = in[n + 1]
              /\ in[n + 1] \notin MetIn(in, n) =>
                   /\ p < Len(out) /\ out[p + 1] = in[n + 1]
                   /\ Cardinality(MetIn(in, n + 1)) = p + 1
  <1> DEFINE rec == in[n + 1]
  <1>1. /\ Len(out) \in Nat /\ Len(in) \in Nat /\ n \in 0 .. Len(in) /\ n + 1 \in 1 .. Len(in)
        /\ \A i \in 1 .. Len(in) : \E p \in 1 .. Len(out) : in[i] = out[p]
        /\ \A i \in 1 .. Len(in), p \in 1 .. Len(out) :
             in[i] = out[p] => \A q \in 1 .. p - 1 : \E j \in 1 .. i - 1 : in[j] = out[q]
    BY DEF LogIn
  <1>2. PICK p \in 0 .. Len(out) :
          /\ Cardinality(MetIn(in, n)) = p
          /\ \A q \in 1 .. Len(out) : out[q] \in MetIn(in, n) <=> q <= p
    BY <1>1, MetRows
  <1>3. PICK s \in 0 .. Len(out) :
          /\ Cardinality(MetIn(in, n + 1)) = s
          /\ \A q \in 1 .. Len(out) : out[q] \in MetIn(in, n + 1) <=> q <= s
    BY <1>1, MetRows
  <1>4. MetIn(in, n + 1) = MetIn(in, n) \cup {rec}
    <2>1. 1 .. n + 1 = (1 .. n) \cup {n + 1}
      BY <1>1
    <2> QED BY <2>1 DEF MetIn
  <1>5. PICK t \in 1 .. Len(out) : rec = out[t]
    BY <1>1
  <1>6. ASSUME rec \in MetIn(in, n)
        PROVE  MetIn(in, n + 1) = MetIn(in, n) /\ \E q \in 1 .. p : out[q] = rec
    <2>1. t \in 1 .. p
      BY <1>2, <1>5, <1>6, <1>1
    <2> QED BY <1>4, <1>5, <1>6, <2>1
  <1>7. ASSUME rec \notin MetIn(in, n)
        PROVE  p < Len(out) /\ out[p + 1] = rec /\ s = p + 1
    <2>1. t > p
      BY <1>1, <1>2, <1>5, <1>7
    <2>2. \A q \in 1 .. t - 1 : q <= p
      <3> SUFFICES ASSUME NEW q \in 1 .. t - 1 PROVE q <= p
        OBVIOUS
      <3>1. PICK j \in 1 .. (n + 1) - 1 : in[j] = out[q]
        BY <1>1, <1>5
      <3>2. out[q] \in MetIn(in, n) /\ q \in 1 .. Len(out)
        BY <1>1, <3>1 DEF MetIn
      <3> QED BY <1>2, <3>2
    <2>3. t = p + 1
      <3>1. t - 1 \in 1 .. t - 1 \/ t - 1 = 0
        OBVIOUS
      <3>2. t - 1 <= p
        BY <2>2, <3>1
      <3> QED BY <2>1, <3>2
    <2>4. t <= s
      BY <1>3, <1>4, <1>5
    <2>5. s <= p + 1
      <3> SUFFICES ASSUME s > p + 1 PROVE FALSE
        BY <1>1
      <3>1. p + 2 \in 1 .. Len(out) /\ p + 2 <= s
        BY <1>1, <1>3
      <3>2. out[p + 2] \in MetIn(in, n) \/ out[p + 2] = rec
        BY <1>3, <1>4, <3>1
      <3>3. out[p + 2] # out[t]
        BY <2>3, <3>1 DEF LogIn
      <3> QED BY <1>2, <1>5, <3>1, <3>2, <3>3
    <2> QED BY <1>1, <1>5, <2>3, <2>4, <2>5
  <1> QED BY <1>1, <1>2, <1>3, <1>6, <1>7

-----------------------------------------------------------------------------
(* What is produced for a record, and produced again. *)

NumberIn(list, x) == CHOOSE k \in DOMAIN list : list[k] = x

\* The halves of some executions, as they are numbered in a list.
HalvesIn(list, known) ==
    [i \in 1 .. 2 * Len(list) |->
       LET x == list[(i + 1) \div 2]
       IN IF i % 2 = 1 THEN Half(x.taker, NumberIn(known, x), "TAKER")
          ELSE Half(x.maker, NumberIn(known, x), "MAKER")]

\* What an order executes against given books, written down.
ListOf(c, o) == Listed(c, o, DoneBy(c, o))

\* What a record is answered with, by the books it met.
Answer(c, rec, first, known) ==
    IF rec.type = "CANCEL" THEN <<Verdict(rec.order, Home(c, rec.order) # {})>>
    ELSE IF first
         THEN Append(HalvesIn(ListOf(c, rec.order), known),
                     Disposition(rec.order, Fate(rec.order, DoneBy(c, rec.order))))
         ELSE <<>>

AnswerIn(in, tr, known, i) == Answer(CoreIn(tr, i - 1), in[i], FirstIn(in, i), known)

\* What the ring knows has come before.
LEMMA RingCame ==
    ASSUME LogOK, MarksOK, RingOK, at <= Len(inbound), NEW o \in Orders, inbound[at] = Order(o),
           o \in ToSet(seen)
    PROVE  ~FirstIn(inbound, at)
  <1>1. PICK s \in restarts \cup {1} : s <= at /\ RingIn(inbound, seen, s, at)
    BY DEF RingOK
  <1>2. s \in Nat \ {0} /\ at \in Nat
    BY DEF MarksOK
  <1>3. seen \in Seq(Orders)
    BY <1>1 DEF RingIn
  <1>4. PICK p \in 1 .. Len(seen) : seen[p] = o
    BY <1>3, ToSetOf
  <1>5. PICK j \in s .. at - 1 : inbound[j] = Order(seen[p])
    BY <1>1 DEF RingIn
  <1>6. j \in 1 .. at - 1 /\ inbound[j] = inbound[at]
    BY <1>2, <1>4, <1>5
  <1> QED BY <1>6 DEF FirstIn

\* Handling a record again produces what the history says it is answered with.
LEMMA EffectAnswers ==
    ASSUME ReqOK, LogOK, MarksOK, NoCopyAcrossRestart, ShardOK, at <= Len(inbound)
    PROVE  LET e == Effect(inbound[at])
           IN e.records = AnswerIn(inbound, trace, e.fills, at)
  <1> DEFINE c == CoreIn(trace, at - 1)
             o == inbound[at].order
             e == Effect(inbound[at])
  <1>1. /\ inbound[at] \in Records /\ at \in Nat /\ Core(books) = c /\ books \in Books
        /\ inbound \in Seq(Records) /\ CoreOK(c)
        /\ \A v \in Venues : \A p \in Orders : Holds(Core(books)[v], p) => Came(inbound, p, 1, at - 1)
    BY ReaderStands
  <1>2. o \in Orders
    BY <1>1, RecordProps
  <1> HIDE DEF c
  <1>3. CASE inbound[at].type = "CANCEL"
    <2>1. e.records = <<Verdict(o, Home(books, o) # {})>>
      BY <1>3 DEF Effect, OnCancel
    <2>2. Home(books, o) = Home(c, o)
      BY <1>1, HomeSame
    <2> QED BY <1>3, <2>1, <2>2 DEF AnswerIn, Answer, c
  <1>4. CASE inbound[at].type = "ORDER" /\ o \in ToSet(seen)
    <2>1. e.records = <<>>
      BY <1>4 DEF Effect, OnOrder
    <2>2. ~FirstIn(inbound, at)
      <3>1. inbound[at] = Order(o)
        BY <1>1, <1>4, RecordProps
      <3> QED BY <1>2, <1>4, <3>1, RingCame DEF ShardOK
    <2> QED BY <1>4, <2>1, <2>2 DEF AnswerIn, Answer
  <1>5. CASE inbound[at].type = "ORDER" /\ o \notin ToSet(seen)
    <2>1. PICK p \in Orders : p = o
      BY <1>2
    <2>2. inbound[at] = Order(p)
      BY <1>1, <1>5, <2>1, RecordProps
    <2>3. FirstIn(inbound, at) /\ \A v \in Venues : ~Seen(books[v], p)
      BY <1>1, <1>5, <2>1, <2>2, FreshOrder DEF ShardOK
    <2>4. OrderStepOK(books, p)
      BY <1>1, <2>3, OrderStep
    <2>5. Executed(books, p).done = DoneBy(c, p)
      BY <1>1, <2>4 DEF OrderStepOK
    <2> DEFINE D == DoneBy(c, p)
    <2>6. e.records = OrderRecords(p, D) /\ e.fills = Known(p, D)
      BY <1>5, <2>1, <2>5 DEF Effect, OnOrder, Reported
    <2>7. Listed(books, p, D) = ListOf(c, p)
      <3>1. Reached(Core(books), req[p]) = Reached(books, req[p])
        BY CoreSame
      <3>2. Reached(c, req[p]) = Reached(books, req[p])
        BY <1>1, <3>1
      <3> QED BY <3>2 DEF ListOf, Listed
    <2> HIDE DEF D, e
    <2>8. Halves(p, D) = HalvesIn(ListOf(c, p), e.fills)
      <3>1. Halves(p, D) = HalvesIn(Listed(books, p, D), Known(p, D))
        BY DEF Halves, HalvesIn, NumberIn
      <3> QED BY <2>6, <2>7, <3>1
    <2>9. e.records = Append(HalvesIn(ListOf(c, p), e.fills), Disposition(p, Fate(p, D)))
      BY <2>6, <2>8 DEF OrderRecords
    <2> QED BY <1>5, <2>1, <2>3, <2>9 DEF AnswerIn, Answer, D, c, e
  <1> QED BY <1>1, <1>3, <1>4, <1>5, RecordProps

\* An execution keeps its number when others are added behind it.
LEMMA NumberKept ==
    ASSUME NEW list \in Seq(Trades), NEW k \in 1 .. Len(list),
           \A i, j \in 1 .. Len(list) : Identity(list[i]) = Identity(list[j]) => i = j
    PROVE  NumberIn(list, list[k]) = k
  <1>1. DOMAIN list = 1 .. Len(list)
    OBVIOUS
  <1>2. \A i \in DOMAIN list : list[i] = list[k] => i = k
    BY <1>1
  <1>3. k \in DOMAIN list /\ list[k] = list[k]
    BY <1>1
  <1> QED BY <1>2, <1>3 DEF NumberIn

\* So its halves stay the same.
LEMMA HalvesKept ==
    ASSUME NEW known \in Seq(Trades), NEW more, known \o more \in Seq(Trades), more \in Seq(Trades),
           \A i, j \in 1 .. Len(known \o more) :
             Identity((known \o more)[i]) = Identity((known \o more)[j]) => i = j,
           NEW D, D \in SUBSET ToSet(known), NEW list \in Seq(D)
    PROVE  HalvesIn(list, known \o more) = HalvesIn(list, known)
  <1>1. ASSUME NEW x \in D PROVE NumberIn(known \o more, x) = NumberIn(known, x)
    <2>1. PICK k \in 1 .. Len(known) : known[k] = x
      BY ToSetOf
    <2>2. /\ Len(known) \in Nat /\ Len(more) \in Nat /\ Len(known \o more) = Len(known) + Len(more)
          /\ \A i \in 1 .. Len(known) : (known \o more)[i] = known[i]
      OBVIOUS
    <2>3. \A i, j \in 1 .. Len(known) : Identity(known[i]) = Identity(known[j]) => i = j
      BY <2>2
    <2>4. NumberIn(known, x) = k
      BY <2>1, <2>3, NumberKept
    <2>5. k \in 1 .. Len(known \o more) /\ (known \o more)[k] = x
      BY <2>1, <2>2
    <2>6. NumberIn(known \o more, (known \o more)[k]) = k
      BY <2>5, NumberKept
    <2> QED BY <2>4, <2>5, <2>6
  <1>2. \A i \in 1 .. 2 * Len(list) : (i + 1) \div 2 \in 1 .. Len(list)
    <2>1. Len(list) \in Nat
      OBVIOUS
    <2> QED BY <2>1
  <1>3. \A i \in 1 .. 2 * Len(list) : list[(i + 1) \div 2] \in D
    BY <1>2
  <1> QED BY <1>1, <1>3 DEF HalvesIn

\* Halves, and at their end what is none.
IsAnswer(rs) ==
    /\ Len(rs) \in Nat \ {0} /\ rs \in Seq(ToSet(rs))
    /\ \A i \in 1 .. Len(rs) : rs[i].type = "HALF" <=> i < Len(rs)

\* Where the answers in the outcomes end.
Ends(outs) == {k \in 0 .. Len(outs) : k = 0 \/ outs[k].type # "HALF"}

\* Some records stand in the outcomes between two ends.
Stands(outs, rs) == \E k, m \in Ends(outs) : k < m /\ SubSeq(outs, k + 1, m) = rs

NoHalves(outs) == {i \in DOMAIN outs : outs[i].type # "HALF"}

\* What a record is answered with is an answer, or nothing.
LEMMA AnswerShape ==
    ASSUME NEW c, NEW rec, NEW first, NEW known, Len(ListOf(c, rec.order)) \in Nat
    PROVE  Answer(c, rec, first, known) = <<>> \/ IsAnswer(Answer(c, rec, first, known))
  <1> DEFINE o == rec.order
             rs == Answer(c, rec, first, known)
  <1>1. CASE rec.type = "CANCEL"
    <2> DEFINE v == Verdict(o, Home(c, o) # {})
    <2>1. rs = <<v>> /\ v.type = "VERDICT"
      BY <1>1 DEF Answer, Verdict
    <2> HIDE DEF v, rs
    <2>2. rs \in Seq({v}) /\ Len(rs) = 1 /\ rs[1].type # "HALF"
      BY <2>1
    <2>3. rs \in Seq(ToSet(rs))
      BY <2>2, OwnMembers
    <2> QED BY <2>2, <2>3 DEF IsAnswer, rs
  <1>2. CASE rec.type # "CANCEL" /\ first
    <2> DEFINE d == Disposition(o, Fate(o, DoneBy(c, o)))
               n == Len(ListOf(c, o))
               h == HalvesIn(ListOf(c, o), known)
               S == {h[i] : i \in 1 .. 2 * n} \cup {d}
    <2>1. rs = Append(h, d) /\ d.type = "DISPOSITION"
      BY <1>2 DEF Answer, Disposition
    <2>2. h = [i \in 1 .. 2 * n |-> h[i]] /\ \A i \in 1 .. 2 * n : h[i].type = "HALF"
      <3>1. PICK g : g = h
        OBVIOUS
      <3>2. DOMAIN g = 1 .. 2 * n /\ g = [i \in DOMAIN g |-> g[i]]
        BY <3>1 DEF HalvesIn
      <3>3. \A i \in 1 .. 2 * n : \E a, k, role : g[i] = Half(a, k, role)
        BY <3>1 DEF HalvesIn
      <3>4. \A a, k, role : Half(a, k, role).type = "HALF"
        BY DEF Half
      <3> QED BY <3>1, <3>2, <3>3, <3>4
    <2> HIDE DEF d, h, rs
    <2>3. n \in Nat
      OBVIOUS
    <2> HIDE DEF n
    <2>4. h \in Seq(S) /\ d \in S /\ Len(h) = 2 * n
      BY <2>2, <2>3
    <2> HIDE DEF S
    <2>5. /\ rs \in Seq(S) /\ Len(rs) = 2 * n + 1
          /\ \A i \in 1 .. 2 * n : rs[i] = h[i]
          /\ rs[2 * n + 1] = d
      BY <2>1, <2>3, <2>4
    <2>6. rs \in Seq(ToSet(rs))
      BY <2>5, OwnMembers
    <2>7. \A i \in 1 .. Len(rs) : rs[i].type = "HALF" <=> i < Len(rs)
      <3> SUFFICES ASSUME NEW i \in 1 .. Len(rs) PROVE rs[i].type = "HALF" <=> i < Len(rs)
        OBVIOUS
      <3>1. i \in 1 .. 2 * n \/ i = 2 * n + 1
        BY <2>3, <2>5
      <3> QED BY <2>1, <2>2, <2>3, <2>5, <3>1
    <2>8. Len(rs) \in Nat \ {0}
      BY <2>3, <2>5
    <2> QED BY <2>6, <2>7, <2>8 DEF IsAnswer, rs
  <1>3. CASE rec.type # "CANCEL" /\ ~first
    BY <1>3 DEF Answer
  <1> QED BY <1>1, <1>2, <1>3

\* Where answers end when there are more outcomes.
LEMMA EndsMore ==
    ASSUME NEW S, NEW outs \in Seq(S), NEW rs \in Seq(S), Len(outs) \in Ends(outs), IsAnswer(rs)
    PROVE  LET all == outs \o rs
           IN /\ Len(all) \in Ends(all) /\ Ends(outs) \in SUBSET Ends(all)
              /\ \A q : Stands(outs, q) => Stands(all, q)
              /\ Stands(all, rs)
              /\ Cardinality(NoHalves(outs)) \in Nat
              /\ Cardinality(NoHalves(all)) = Cardinality(NoHalves(outs)) + 1
  <1> DEFINE all == outs \o rs
             n == Len(outs)
             m == Len(rs)
  <1>1. /\ n \in Nat /\ m \in Nat \ {0} /\ all \in Seq(S) /\ Len(all) = n + m
        /\ \A i \in 1 .. n : all[i] = outs[i]
        /\ \A i \in 1 .. m : all[n + i] = rs[i]
        /\ \A i \in 1 .. m : rs[i].type = "HALF" <=> i < m
    BY DEF IsAnswer
  <1> HIDE DEF all
  <1>2. Ends(outs) \in SUBSET Ends(all)
    BY <1>1 DEF Ends
  <1>3. n + m \in Ends(all)
    BY <1>1 DEF Ends
  <1>4. ASSUME NEW q, Stands(outs, q) PROVE Stands(all, q)
    <2>1. PICK k, j \in Ends(outs) : k < j /\ SubSeq(outs, k + 1, j) = q
      BY <1>4 DEF Stands
    <2>2. k \in Nat /\ j \in Nat /\ j <= n /\ k \in Ends(all) /\ j \in Ends(all)
      BY <1>1, <1>2, <2>1 DEF Ends
    <2>3. SubSeq(all, k + 1, j) = SubSeq(outs, k + 1, j)
      <3>1. \A s \in {all, outs} :
              /\ SubSeq(s, k + 1, j) \in Seq(S) /\ Len(SubSeq(s, k + 1, j)) = j - k
              /\ \A i \in 1 .. j - k : SubSeq(s, k + 1, j)[i] = s[k + i]
        BY <1>1, <2>1, <2>2
      <3>2. \A i \in 1 .. j - k : all[k + i] = outs[k + i]
        BY <1>1, <2>1, <2>2
      <3> QED BY <3>1, <3>2, SeqEqual
    <2> QED BY <2>1, <2>2, <2>3 DEF Stands
  <1>5. Stands(all, rs)
    <2>1. SubSeq(all, n + 1, n + m) = rs
      BY <1>1
    <2>2. n \in Ends(all) /\ n < n + m
      BY <1>1, <1>2
    <2> QED BY <1>3, <2>1, <2>2 DEF Stands
  <1>6. /\ Cardinality(NoHalves(outs)) \in Nat
        /\ Cardinality(NoHalves(all)) = Cardinality(NoHalves(outs)) + 1
    <2>1. DOMAIN outs = 1 .. n /\ DOMAIN all = 1 .. n + m
      BY <1>1
    <2>2. NoHalves(all) = NoHalves(outs) \cup {n + m}
      <3>1. \A i \in 1 .. n + m : all[i].type # "HALF" <=> (i \in 1 .. n /\ outs[i].type # "HALF") \/ i = n + m
        <4> SUFFICES ASSUME NEW i \in 1 .. n + m
                     PROVE  all[i].type # "HALF" <=> (i \in 1 .. n /\ outs[i].type # "HALF") \/ i = n + m
          OBVIOUS
        <4>1. CASE i \in 1 .. n
          <5>1. i # n + m
            BY <1>1, <4>1
          <5> QED BY <1>1, <4>1, <5>1
        <4>2. CASE i - n \in 1 .. m
          <5>1. all[i] = rs[i - n]
            <6>1. n + (i - n) = i
              BY <1>1
            <6> QED BY <1>1, <4>2, <6>1
          <5>2. i \notin 1 .. n /\ (i - n < m <=> i # n + m)
            <6>1. n \in Nat /\ m \in Nat
              BY <1>1
            <6> HIDE DEF n, m
            <6> QED BY <4>2, <6>1
          <5> QED BY <1>1, <4>2, <5>1, <5>2
        <4>3. i \in 1 .. n \/ i - n \in 1 .. m
          BY <1>1
        <4> QED BY <4>1, <4>2, <4>3
      <3> QED BY <1>1, <2>1, <3>1 DEF NoHalves
    <2>3. n + m \notin NoHalves(outs)
      BY <1>1, <2>1 DEF NoHalves
    <2>4. IsFiniteSet(NoHalves(outs))
      <3>1. IsFiniteSet(1 .. n) /\ NoHalves(outs) \in SUBSET (1 .. n)
        BY <1>1, <2>1, FS_Interval DEF NoHalves
      <3> QED BY <3>1, FS_Subset
    <2> QED BY <2>2, <2>3, <2>4, FS_AddElement, FS_CardinalityType
  <1> QED BY <1>1, <1>2, <1>3, <1>4, <1>5, <1>6 DEF all

\* The list of what an order executes.
LEMMA ListOfProps ==
    ASSUME ReqOK, NEW o \in Orders, NEW c, CoreOK(c)
    PROVE  /\ IsFiniteSet(DoneBy(c, o)) /\ Cardinality(DoneBy(c, o)) \in Nat
           /\ ListOf(c, o) \in Seq(DoneBy(c, o)) /\ Len(ListOf(c, o)) = Cardinality(DoneBy(c, o))
           /\ \A i, j \in 1 .. Len(ListOf(c, o)) : ListOf(c, o)[i] = ListOf(c, o)[j] => i = j
           /\ \A x \in DoneBy(c, o) : \E k \in 1 .. Len(ListOf(c, o)) : ListOf(c, o)[k] = x
           /\ DoneBy(c, o) \in SUBSET Trades
  <1> DEFINE D == DoneBy(c, o)
  <1>1. AllQuotesOK(c) /\ \A v \in Venues : c[v].seq \in Nat
    BY DEF CoreOK, AllQuotesOK
  <1>2. D \in SUBSET DoneBy(c, o)
    OBVIOUS
  <1>3. IsFiniteSet(D) /\ ListedOK(c, o, D)
    BY <1>1, <1>2, ListedProps
  <1>4. D \in SUBSET Trades
    BY <1>1, DoneTrades
  <1> QED BY <1>3, <1>4, FS_CardinalityType DEF ListedOK, ListOf

\* What handling a record does to what the market sees.
Handled(rs) ==
    LET c == CoreIn(trace, Len(trace))
    IN /\ rs = AnswerIn(inbound, trace, fills', at) /\ outcomes' = outcomes \o rs
       /\ \/ at \in 1 .. Len(trace) /\ trace' = trace /\ fills' = fills
          \/ /\ at = Len(trace) + 1 /\ at <= Len(inbound)
             /\ StepIn(inbound, at, c) \in Cores /\ trace' = Append(trace, StepIn(inbound, at, c))
             /\ fills' = IF FirstIn(inbound, at) THEN fills \o ListOf(c, inbound[at].order) ELSE fills

\* The executions of an order that is met for the first time are all new.
LEMMA FirstFills ==
    ASSUME IInv, NoCopyAcrossRestart, at <= Len(inbound), at = Len(trace) + 1, FirstIn(inbound, at)
    PROVE  Effect(inbound[at]).fills = fills \o ListOf(CoreIn(trace, Len(trace)), inbound[at].order)
  <1> DEFINE c == CoreIn(trace, Len(trace))
             e == Effect(inbound[at])
  <1>1. ReqOK /\ LogOK /\ MarksOK /\ ShardOK
    BY DEF IInv
  <1>2. /\ inbound[at] \in Records /\ at \in Nat /\ at - 1 = Len(trace) /\ Core(books) = c
        /\ books \in Books /\ inbound \in Seq(Records) /\ CoreOK(c) /\ fills \in Seq(Trades)
        /\ trace \in Seq(Cores) /\ Len(trace) \in Nat
        /\ \A v \in Venues : \A p \in Orders : Holds(Core(books)[v], p) => Came(inbound, p, 1, at - 1)
    <2>1. Len(trace) \in Nat /\ at - 1 = Len(trace)
      BY <1>1, ReaderStands
    <2> QED BY <1>1, <2>1, ReaderStands
  <1>3. PICK o \in Orders : o = inbound[at].order /\ inbound[at] = Order(o)
    BY <1>2, RecordProps DEF FirstIn
  <1>4. o \notin ToSet(seen)
    BY <1>1, <1>3, RingCame DEF ShardOK
  <1> DEFINE D == DoneBy(c, o)
  <1>5. \A v \in Venues : ~Seen(books[v], o)
    BY <1>1, <1>2, <1>3, <1>4, FreshOrder DEF ShardOK
  <1> HIDE DEF c
  <1>6. OrderStepOK(books, o)
    BY <1>1, <1>2, <1>5, OrderStep
  <1>7. Executed(books, o).done = D
    BY <1>2, <1>6 DEF OrderStepOK
  <1>8. e.fills = fills \o Listed(books, o, D \ ToSet(fills))
    <2>1. inbound[at].type = "ORDER"
      BY DEF FirstIn
    <2> QED BY <1>3, <1>4, <1>7, <2>1 DEF Effect, OnOrder, Reported, Known
  <1>9. D \cap ToSet(fills) = {}
    <2> SUFFICES ASSUME NEW x \in D, x \in ToSet(fills) PROVE FALSE
      OBVIOUS
    <2>1. HistoryIn(inbound, trace) /\ TradesIn(inbound, trace, fills)
      BY <1>1 DEF ShardOK
    <2>2. D = DoneIn(inbound, trace, Len(trace) + 1)
      BY <1>2, <1>3 DEF DoneIn, c
    <2>3. D \in SUBSET Trades /\ IsFiniteSet(D)
      BY <1>1, <1>2, ListOfProps
    <2>4. StepIn(inbound, Len(trace) + 1, c) \in Cores
      <3>1. EffectOK(e)
        BY <1>1, EffectProps
      <3>2. Core(e.books) = StepIn(inbound, at, CoreIn(trace, at - 1)) /\ e.books \in Books
        BY <3>1 DEF EffectOK
      <3> QED BY <1>2, <3>2, CoreShape DEF c
    <2> HIDE DEF D
    <2>5. NewOK(inbound, trace, fills, D)
      BY <1>1, <1>2, <2>1, <2>2, <2>3, <2>4, NewProps DEF c
    <2>6. c[x.venue].seq < x.seq
      BY <2>5 DEF NewOK, c
    <2>7. PICK k \in 1 .. Len(fills) : fills[k] = x
      BY <1>2, ToSetOf
    <2>8. x.seq <= c[x.venue].seq
      BY <2>1, <2>7 DEF TradesIn, c
    <2>9. x.seq \in Nat /\ c[x.venue].seq \in Nat
      <3>1. x.venue \in Venues /\ x.seq \in Nat
        BY <2>3 DEF Trades
      <3> QED BY <1>2, <3>1 DEF CoreOK
    <2> QED BY <2>6, <2>8, <2>9
  <1>10. D \ ToSet(fills) = D
    BY <1>9
  <1>11. Listed(books, o, D) = ListOf(c, o)
    <2>1. Reached(Core(books), req[o]) = Reached(books, req[o])
      BY CoreSame
    <2>2. Reached(c, req[o]) = Reached(books, req[o])
      BY <1>2, <2>1
    <2> QED BY <2>2 DEF ListOf, Listed
  <1> QED BY <1>3, <1>8, <1>10, <1>11 DEF c

\* Records are handled so.
LEMMA HandledStep ==
    ASSUME IInv, NoCopyAcrossRestart, Handle
    PROVE  \E rs : Handled(rs)
  <1>1. ReqOK /\ LogOK /\ MarksOK /\ ShardOK
    BY DEF IInv
  <1>2. PICK e \in {Effect(inbound[at])} :
          /\ books' = e.books /\ seen' = e.seen /\ fills' = e.fills
          /\ outcomes' = outcomes \o e.records /\ trace' = Traced(at + 1, e.books)
    BY DEF Handle
  <1>3. at <= Len(inbound) /\ at' = at + 1 /\ inbound' = inbound
    BY DEF Handle
  <1>4. EffectOK(e)
    BY <1>1, <1>2, <1>3, EffectProps
  <1>5. /\ at \in 1 .. Len(trace) + 1 /\ trace \in Seq(Cores) /\ Len(trace) \in Nat
        /\ fills \in Seq(Trades)
    BY <1>1, <1>3, ReaderStands DEF ShardOK, ReaderOK
  <1>6. PICK more : fills' = fills \o more /\ AddsAll(more, DoneIn(inbound, trace, at) \ ToSet(fills))
    BY <1>2, <1>4 DEF EffectOK
  <1>7. Core(e.books) \in Cores
    BY <1>4, CoreShape DEF EffectOK
  <1>8. e.records = AnswerIn(inbound, trace, e.fills, at)
    BY <1>1, <1>2, <1>3, EffectAnswers
  <1>9. ASSUME DoneIn(inbound, trace, at) \ ToSet(fills) = {}
        PROVE  fills' = fills
    <2>1. more \in Seq({}) /\ Len(more) = 0
      BY <1>6, <1>9, FS_EmptySet DEF AddsAll
    <2>2. more = <<>>
      BY <2>1
    <2> QED BY <1>5, <1>6, <2>2
  <1>10. CASE at <= Len(trace)
    <2>1. trace' = trace
      BY <1>2, <1>5, <1>7, <1>10, TracedProps
    <2>2. DoneIn(inbound, trace, at) \in SUBSET ToSet(fills)
      BY <1>1, <1>5, <1>10 DEF ShardOK, TradesIn
    <2>3. fills' = fills
      BY <1>9, <2>2
    <2> QED BY <1>2, <1>5, <1>8, <1>10, <2>1, <2>3 DEF Handled
  <1>11. CASE at = Len(trace) + 1
    <2> DEFINE n == Core(e.books)
    <2>1. trace' = Append(trace, n)
      BY <1>2, <1>5, <1>7, <1>11, TracedProps
    <2>2. n = StepIn(inbound, at, CoreIn(trace, Len(trace)))
      <3>1. at - 1 = Len(trace)
        BY <1>5, <1>11
      <3> QED BY <1>4, <3>1 DEF EffectOK
    <2>5. n \in Cores
      BY <1>7
    <2> HIDE DEF n
    <2>3. FirstIn(inbound, at) => fills' = fills \o ListOf(CoreIn(trace, Len(trace)), inbound[at].order)
      BY <1>2, <1>3, <1>11, FirstFills
    <2>4. ~FirstIn(inbound, at) => fills' = fills
      <3> SUFFICES ASSUME ~FirstIn(inbound, at) PROVE fills' = fills
        OBVIOUS
      <3>1. DoneIn(inbound, trace, at) = {}
        BY DEF DoneIn
      <3> QED BY <1>9, <3>1
    <2> QED BY <1>2, <1>3, <1>8, <1>11, <2>1, <2>2, <2>3, <2>4, <2>5 DEF Handled
  <1> QED BY <1>5, <1>10, <1>11

\* Every record that was met has its answer in the outcomes, as the history has
\* it; and the last outcome ends an answer.
AnswersStand(in, tr, known, outs) ==
    /\ Len(outs) \in Ends(outs)
    /\ \A i \in 1 .. Len(tr) :
         AnswerIn(in, tr, known, i) # <<>> => Stands(outs, AnswerIn(in, tr, known, i))

RInv == NoCopyAcrossRestart => AnswersStand(inbound, trace, fills, outcomes)

\* An answer depends on no variable but the terms.
LEMMA SameAnswers ==
    ASSUME req' = req, NEW in, NEW tr, NEW known, NEW outs, AnswersStand(in, tr, known, outs)
    PROVE  AnswersStand(in, tr, known, outs)'
  <1>1. \A c, o : DoneBy(c, o)' = DoneBy(c, o)
    BY SameDone
  <1>2. \A c, o : ListOf(c, o)' = ListOf(c, o)
    <2>1. \A c, o : Reached(c, req[o])' = Reached(c, req[o])
      OBVIOUS
    <2> QED BY <1>1, <2>1 DEF ListOf, Listed
  <1>3. \A o, D : Fate(o, D)' = Fate(o, D)
    BY DEF Fate, Remainder
  <1>4. \A c, rec, first : Answer(c, rec, first, known)' = Answer(c, rec, first, known)
    BY <1>1, <1>2, <1>3 DEF Answer
  <1>5. \A i : AnswerIn(in, tr, known, i)' = AnswerIn(in, tr, known, i)
    BY <1>4 DEF AnswerIn
  <1> QED BY <1>5 DEF AnswersStand

\* The log, the history and the executions have got further members, if any.
Grown(in, tr, known, in2, tr2, known2) ==
    /\ \A i \in 1 .. Len(tr) : in2[i] = in[i]
    /\ \A i \in 0 .. Len(tr) : CoreIn(tr2, i) = CoreIn(tr, i)
    /\ \E more \in Seq(Trades) : known2 = known \o more
    /\ \A i, j \in 1 .. Len(known2) : Identity(known2[i]) = Identity(known2[j]) => i = j

\* What met records are answered with does not change.
LEMMA AnswersLonger ==
    ASSUME ReqOK, NEW in, in \in Seq(Records), NEW tr, HistoryIn(in, tr),
           NEW known, TradesIn(in, tr, known),
           NEW in2, NEW tr2, NEW known2, Grown(in, tr, known, in2, tr2, known2)
    PROVE  \A i \in 1 .. Len(tr) : AnswerIn(in2, tr2, known2, i) = AnswerIn(in, tr, known, i)
  <1> SUFFICES ASSUME NEW i \in 1 .. Len(tr)
               PROVE  AnswerIn(in2, tr2, known2, i) = AnswerIn(in, tr, known, i)
    OBVIOUS
  <1>0. PICK more \in Seq(Trades) : known2 = known \o more
    BY DEF Grown
  <1>1. Len(tr) \in Nat /\ Len(tr) <= Len(in) /\ CoreOK(CoreIn(tr, i - 1)) /\ known \in Seq(Trades)
    BY DEF HistoryIn, TradesIn
  <1>2. in2[i] = in[i] /\ CoreIn(tr2, i - 1) = CoreIn(tr, i - 1) /\ in[i] \in Records
    BY <1>1 DEF Grown
  <1>3. FirstIn(in2, i) <=> FirstIn(in, i)
    BY <1>1, <1>2 DEF FirstIn, Grown
  <1>4. CASE FirstIn(in, i)
    <2> DEFINE c == CoreIn(tr, i - 1)
    <2>1. PICK o \in Orders : o = in[i].order
      BY <1>2, RecordProps
    <2>2. DoneBy(c, o) \in SUBSET ToSet(known)
      BY <1>4, <2>1 DEF TradesIn, DoneIn
    <2> HIDE DEF c
    <2>3. ListOf(c, o) \in Seq(DoneBy(c, o))
      BY <1>1, ListOfProps DEF c
    <2>4. /\ known \o more \in Seq(Trades)
          /\ \A k, j \in 1 .. Len(known \o more) :
               Identity((known \o more)[k]) = Identity((known \o more)[j]) => k = j
      BY <1>0, <1>1 DEF Grown
    <2>5. HalvesIn(ListOf(c, o), known2) = HalvesIn(ListOf(c, o), known)
      BY <1>0, <1>1, <2>2, <2>3, <2>4, HalvesKept
    <2> QED BY <1>2, <1>3, <2>1, <2>5 DEF AnswerIn, Answer, c
  <1>5. CASE ~FirstIn(in, i)
    BY <1>2, <1>3, <1>5 DEF AnswerIn, Answer
  <1> QED BY <1>4, <1>5

\* The answers stay where they are while the log grows.
LEMMA AnswersKept ==
    ASSUME IInv, RInv, NoCopyAcrossRestart, inbound' \in Seq(Records), req' = req,
           Len(inbound) <= Len(inbound'), \A i \in 1 .. Len(inbound) : inbound'[i] = inbound[i],
           trace' = trace, fills' = fills, outcomes' = outcomes
    PROVE  AnswersStand(inbound, trace, fills, outcomes)'
  <1>1. ReqOK /\ LogOK /\ ShardOK /\ AnswersStand(inbound, trace, fills, outcomes)
    BY DEF IInv, RInv
  <1>2. HistoryIn(inbound, trace) /\ TradesIn(inbound, trace, fills) /\ inbound \in Seq(Records)
    BY <1>1 DEF ShardOK, LogOK, LogIn
  <1>3. PICK in2 : in2 = inbound'
    OBVIOUS
  <1>4. Grown(inbound, trace, fills, in2, trace, fills)
    <2>1. \A i \in 1 .. Len(trace) : in2[i] = inbound[i]
      BY <1>2, <1>3 DEF HistoryIn
    <2>2. fills \o <<>> = fills /\ <<>> \in Seq(Trades)
      BY <1>2, AddsNothing DEF TradesIn
    <2> QED BY <1>2, <2>1, <2>2 DEF Grown, TradesIn
  <1>7. \A i \in 1 .. Len(trace) : AnswerIn(in2, trace, fills, i) = AnswerIn(inbound, trace, fills, i)
    BY <1>1, <1>2, <1>4, AnswersLonger
  <1>8. AnswersStand(in2, trace, fills, outcomes)
    BY <1>1, <1>7 DEF AnswersStand
  <1>9. PICK tr, known, outs : tr = trace /\ known = fills /\ outs = outcomes
    OBVIOUS
  <1>10. AnswersStand(in2, tr, known, outs)'
    BY <1>8, <1>9, SameAnswers
  <1> QED BY <1>3, <1>9, <1>10

\* Handling a record keeps the answers, and adds that of a record met for the
\* first time.
LEMMA AnswersHandled ==
    ASSUME IInv, RInv, NoCopyAcrossRestart, req' = req, inbound' = inbound,
           NEW rs, Handled(rs), ShardOK'
    PROVE  /\ AnswersStand(inbound, trace, fills, outcomes)'
           /\ rs = <<>> \/ IsAnswer(rs)
           /\ at \in 1 .. Len(trace) /\ rs # <<>> => Stands(outcomes, rs)
  <1>1. ReqOK /\ LogOK /\ MarksOK /\ ShardOK /\ AnswersStand(inbound, trace, fills, outcomes)
    BY DEF IInv, RInv
  <1>2. /\ HistoryIn(inbound, trace) /\ TradesIn(inbound, trace, fills) /\ inbound \in Seq(Records)
        /\ outcomes \in Seq(ToSet(outcomes)) /\ Len(inbound) \in Nat
        /\ trace \in Seq(Cores) /\ Len(trace) \in Nat /\ Len(trace) <= Len(inbound)
    BY <1>1 DEF ShardOK, LogOK, LogIn, AnswersOK, HistoryIn
  <1>3. PICK tr, known, outs : tr = trace' /\ known = fills' /\ outs = outcomes'
    OBVIOUS
  <1>4. /\ rs = AnswerIn(inbound, trace, known, at) /\ outs = outcomes \o rs
        /\ \/ at \in 1 .. Len(trace) /\ tr = trace /\ known = fills
           \/ /\ at = Len(trace) + 1 /\ at <= Len(inbound)
              /\ StepIn(inbound, at, CoreIn(trace, Len(trace))) \in Cores
              /\ tr = Append(trace, StepIn(inbound, at, CoreIn(trace, Len(trace))))
              /\ known = IF FirstIn(inbound, at)
                         THEN fills \o ListOf(CoreIn(trace, Len(trace)), inbound[at].order) ELSE fills
    BY <1>3 DEF Handled
  <1>5. rs = <<>> \/ IsAnswer(rs)
    <2> DEFINE c == CoreIn(trace, at - 1)
    <2>1. at \in 1 .. Len(inbound) /\ at - 1 \in 0 .. Len(trace)
      BY <1>2, <1>4
    <2>2. inbound[at].order \in Orders
      BY <1>2, <2>1, RecordProps
    <2>3. CoreOK(c)
      BY <1>2, <2>1 DEF HistoryIn
    <2> HIDE DEF c
    <2>4. Len(ListOf(c, inbound[at].order)) \in Nat
      BY <1>1, <2>2, <2>3, ListOfProps
    <2>5. Answer(c, inbound[at], FirstIn(inbound, at), known) = rs
      BY <1>4 DEF AnswerIn, c
    <2> QED BY <2>4, <2>5, AnswerShape
  <1>6. Grown(inbound, trace, fills, inbound, tr, known)
    <2>1. \A i \in 0 .. Len(trace) : CoreIn(tr, i) = CoreIn(trace, i)
      <3>1. CASE tr = trace
        BY <3>1
      <3>2. CASE tr # trace
        <4> DEFINE n == StepIn(inbound, at, CoreIn(trace, Len(trace)))
        <4>1. n \in Cores /\ tr = Append(trace, n)
          BY <1>4, <3>2
        <4> HIDE DEF n
        <4> QED BY <1>2, <4>1, CoreLonger
      <3> QED BY <3>1, <3>2
    <2>2. \E more \in Seq(Trades) : known = fills \o more
      <3>1. CASE known = fills
        <4>1. fills \o <<>> = fills /\ <<>> \in Seq(Trades)
          BY <1>2, AddsNothing DEF TradesIn
        <4> QED BY <3>1, <4>1
      <3>2. CASE known # fills
        <4> DEFINE c == CoreIn(trace, Len(trace))
        <4>1. /\ at = Len(trace) + 1 /\ at <= Len(inbound)
              /\ known = fills \o ListOf(c, inbound[at].order)
          BY <1>4, <3>2
        <4>2. inbound[at].order \in Orders
          BY <1>2, <4>1, RecordProps
        <4>3. CoreOK(c)
          BY <1>2 DEF HistoryIn
        <4> HIDE DEF c
        <4>4. ListOf(c, inbound[at].order) \in Seq(Trades)
          BY <1>1, <4>2, <4>3, ListOfProps
        <4> QED BY <4>1, <4>4
      <3> QED BY <3>1, <3>2
    <2>3. \A i, j \in 1 .. Len(known) : Identity(known[i]) = Identity(known[j]) => i = j
      BY <1>3 DEF ShardOK, TradesIn
    <2> QED BY <2>1, <2>2, <2>3 DEF Grown
  <1>7. \A i \in 1 .. Len(trace) : AnswerIn(inbound, tr, known, i) = AnswerIn(inbound, trace, fills, i)
    BY <1>1, <1>2, <1>6, AnswersLonger
  <1>8. AnswersStand(inbound, tr, known, outs)
    <2>1. /\ Len(outs) \in Ends(outs)
          /\ \A q : Stands(outcomes, q) => Stands(outs, q)
          /\ rs # <<>> => Stands(outs, rs)
      <3>1. CASE rs = <<>>
        <4>1. outs = outcomes
          BY <1>2, <1>4, <3>1
        <4> QED BY <1>1, <3>1, <4>1 DEF AnswersStand
      <3>2. CASE IsAnswer(rs)
        <4>1. PICK S : S = ToSet(outcomes) \cup ToSet(rs)
          OBVIOUS
        <4>2. outcomes \in Seq(S) /\ rs \in Seq(S)
          BY <1>2, <3>2, <4>1 DEF IsAnswer
        <4>3. Len(outcomes) \in Ends(outcomes)
          BY <1>1 DEF AnswersStand
        <4> QED BY <1>4, <3>2, <4>2, <4>3, EndsMore
      <3> QED BY <1>5, <3>1, <3>2
    <2>2. ASSUME NEW i \in 1 .. Len(tr), AnswerIn(inbound, tr, known, i) # <<>>
          PROVE  Stands(outs, AnswerIn(inbound, tr, known, i))
      <3>1. CASE i \in 1 .. Len(trace)
        BY <1>1, <1>7, <2>1, <2>2, <3>1 DEF AnswersStand
      <3>2. CASE i \notin 1 .. Len(trace)
        <4>1. i = at /\ at = Len(trace) + 1
          BY <1>2, <1>4, <3>2, CoreLonger
        <4>2. CoreIn(tr, i - 1) = CoreIn(trace, i - 1)
          <5>1. i - 1 \in 0 .. Len(trace)
            BY <1>2, <4>1
          <5> QED BY <1>6, <5>1 DEF Grown
        <4>3. AnswerIn(inbound, tr, known, i) = rs
          BY <1>4, <4>1, <4>2 DEF AnswerIn
        <4> QED BY <2>1, <2>2, <4>3
      <3> QED BY <3>1, <3>2
    <2> QED BY <2>1, <2>2 DEF AnswersStand
  <1>9. AnswersStand(inbound, trace, fills, outcomes)'
    <2>1. PICK in : in = inbound
      OBVIOUS
    <2>2. AnswersStand(in, tr, known, outs)'
      BY <1>8, <2>1, SameAnswers
    <2> QED BY <1>3, <2>1, <2>2
  <1>10. ASSUME at \in 1 .. Len(trace), rs # <<>> PROVE Stands(outcomes, rs)
    <2>1. known = fills
      BY <1>2, <1>4, <1>10
    <2> QED BY <1>1, <1>4, <1>10, <2>1 DEF AnswersStand
  <1> QED BY <1>5, <1>9, <1>10

\* Before anything is answered.
LEMMA RInvInit == Init => RInv
  <1> SUFFICES ASSUME Init PROVE AnswersStand(inbound, trace, fills, outcomes)
    BY DEF RInv
  <1>1. outcomes = <<>> /\ trace = <<>> /\ Len(outcomes) = 0 /\ Len(trace) = 0
    BY DEF Init
  <1> QED BY <1>1 DEF AnswersStand, Ends

\* A step keeps the answers where they are.
LEMMA RInvStep ==
    ASSUME ~ProduceFails, IInv, RInv, [Next]_vars
    PROVE  RInv'
  <1> SUFFICES ASSUME NoCopyAcrossRestart'
               PROVE  AnswersStand(inbound, trace, fills, outcomes)'
    BY DEF RInv
  <1>1. ReqOK /\ LogOK /\ MarksOK
    BY DEF IInv
  <1>2. req' = req
    BY SameReq
  <1>3. /\ inbound' \in Seq(Records) /\ Len(inbound) <= Len(inbound')
        /\ \A i \in 1 .. Len(inbound) : inbound'[i] = inbound[i]
    BY <1>1, LogStep
  <1>4. NoCopyAcrossRestart
    BY <1>1, <1>3, MarksStep, NoCopyBefore
  <1>5. ShardOK'
    BY IInvStep DEF IInv
  <1>6. CASE Handle
    <2>1. PICK rs : Handled(rs)
      BY <1>4, <1>6, HandledStep
    <2>2. inbound' = inbound
      BY <1>6 DEF Handle
    <2> QED BY <1>2, <1>4, <1>5, <2>1, <2>2, AnswersHandled
  <1>7. CASE trace' = trace /\ fills' = fills /\ outcomes' = outcomes
    BY <1>2, <1>3, <1>4, <1>7, AnswersKept
  <1>8. HandleFails => FALSE
    BY DEF HandleFails
  <1> QED BY <1>6, <1>7, <1>8 DEF Next, vars, shardVars, Enqueue, EnqueueCancel, Publish, PublishUnmarked,
                                  Snapshot, Restart

-----------------------------------------------------------------------------
(* The market's plan of an order: the makers it met, and what was done of   *)
(* it after each of them.                                                   *)

MakersIn(list) == [i \in 1 .. Len(list) |-> list[i].maker]
QtysIn(list) == [i \in 1 .. Len(list) |-> list[i].qty]
SumsIn(list) == [i \in 0 .. Len(list) |-> SumOver(QtysIn(list), 1 .. i)]

\* What is done grows by what each execution adds, up to what all of them come
\* to.
LEMMA SumsProps ==
    ASSUME NEW D, D \in SUBSET Trades, IsFiniteSet(D), \A x \in D : x.qty > 0,
           NEW list, list \in Seq(D),
           \A i, j \in 1 .. Len(list) : list[i] = list[j] => i = j,
           \A x \in D : \E k \in 1 .. Len(list) : list[k] = x
    PROVE  LET cum == SumsIn(list)
               n == Len(list)
           IN /\ n \in Nat /\ cum[0] = 0 /\ cum[n] = Total(D)
              /\ \A i \in 0 .. n : cum[i] \in Nat /\ cum[i] <= Total(D)
              /\ \A i \in 1 .. n : i - 1 \in 0 .. n /\ cum[i] = cum[i - 1] + list[i].qty
              /\ \A i, j \in 0 .. n : i < j => cum[i] < cum[j]
  <1> DEFINE n == Len(list)
             q == QtysIn(list)
             cum == SumsIn(list)
  <1>1. n \in Nat /\ \A i \in 1 .. n : list[i] \in D
    OBVIOUS
  <1>2. \A i \in 1 .. n : q[i] = list[i].qty /\ q[i] \in Nat /\ q[i] > 0
    <2> TAKE i \in 1 .. n
    <2>1. list[i] \in D
      BY <1>1
    <2>2. list[i].qty \in Nat /\ list[i].qty > 0
      BY <2>1 DEF Trades
    <2> QED BY <2>2 DEF QtysIn
  <1>3. \A i \in 0 .. n : IsFiniteSet(1 .. i) /\ 1 .. i \in SUBSET (1 .. n) /\ cum[i] = SumOver(q, 1 .. i)
    <2> TAKE i \in 0 .. n
    <2>1. IsFiniteSet(1 .. i)
      BY <1>1, FS_Interval
    <2> QED BY <1>1, <2>1 DEF SumsIn
  <1>4. cum[n] = Total(D)
    <2> DEFINE f == [x \in D |-> x.qty]
    <2>1. PICK S : S = 1 .. n
      OBVIOUS
    <2>2. IsFiniteSet(S)
      <3>1. n \in 0 .. n
        BY <1>1
      <3> QED BY <1>3, <2>1, <3>1
    <2>3. \A k \in S : f[list[k]] = q[k] /\ q[k] \in Int
      BY <1>1, <1>2, <2>1
    <2>4. \A i, j \in S : list[i] = list[j] => i = j
      <3>1. S = 1 .. Len(list)
        BY <2>1
      <3> QED BY <3>1
    <2>6. (\A k \in S : list[k] \in D) /\ (\A x \in D : \E k \in S : x = list[k])
      BY <1>1, <2>1
    <2> HIDE DEF f, q, n
    <2>7. SumOver(f, D) = SumOver(q, S)
      BY ONLY <2>2, <2>3, <2>4, <2>6, SumPlaced
    <2>5. n \in 0 .. n
      BY <1>1
    <2> QED BY <1>3, <2>1, <2>5, <2>7 DEF f, Total
  <1> HIDE DEF n, q, cum
  <1>5. \A i \in 0 .. n : cum[i] \in Nat
    <2> TAKE i \in 0 .. n
    <2>1. \A k \in 1 .. i : q[k] \in Nat
      BY <1>1, <1>2
    <2>2. IsFiniteSet(1 .. i) /\ cum[i] = SumOver(q, 1 .. i)
      BY <1>3
    <2>3. SumOver(q, 1 .. i) \in Nat
      BY <2>1, <2>2, SumType
    <2> QED BY <2>2, <2>3
  <1>6. \A i, j \in 0 .. n : i < j => cum[i] + q[j] <= cum[j]
    <2> TAKE i, j \in 0 .. n
    <2> HAVE i < j
    <2>1. \A k \in 1 .. j : q[k] \in Nat
      BY <1>1, <1>2
    <2>2. j \in (1 .. j) \ (1 .. i) /\ 1 .. i \in SUBSET (1 .. j)
      BY <1>1
    <2>3. IsFiniteSet(1 .. j) /\ cum[j] = SumOver(q, 1 .. j) /\ cum[i] = SumOver(q, 1 .. i)
      BY <1>3
    <2>4. SumOver(q, 1 .. i) + q[j] <= SumOver(q, 1 .. j)
      BY <2>1, <2>2, <2>3, SumWithin
    <2> QED BY <2>3, <2>4
  <1>7. \A i \in 1 .. n : i - 1 \in 0 .. n /\ cum[i] = cum[i - 1] + q[i]
    <2> TAKE i \in 1 .. n
    <2>0. i - 1 \in 0 .. n /\ i \in 0 .. n
      BY <1>1
    <2>1. 1 .. i = (1 .. i - 1) \cup {i} /\ i \notin 1 .. i - 1
      BY <1>1
    <2>2. \A k \in 1 .. i - 1 : q[k] \in Int
      BY <1>1, <1>2
    <2>3. PICK A : A = 1 .. i - 1
      OBVIOUS
    <2>4. IsFiniteSet(A) /\ cum[i - 1] = SumOver(q, A) /\ cum[i] = SumOver(q, 1 .. i)
      BY <1>3, <2>0, <2>3
    <2>5. q[i] \in Int /\ \A k \in A : q[k] \in Int
      BY <1>2, <2>2, <2>3
    <2>6. i \notin A /\ 1 .. i = A \cup {i}
      BY <2>1, <2>3
    <2>7. SumOver(q, A \cup {i}) = SumOver(q, A) + q[i]
      BY ONLY <2>4, <2>5, <2>6, SumAdd
    <2>8. cum[i] = SumOver(q, A \cup {i})
      BY <2>4, <2>6
    <2>9. cum[i] = cum[i - 1] + q[i]
      BY <2>4, <2>7, <2>8
    <2> QED BY <2>0, <2>9
  <1>8. cum[0] = 0
    <2>1. 0 \in 0 .. n /\ 1 .. 0 = {}
      BY <1>1
    <2> QED BY <1>3, <2>1, SumEmpty
  <1>9. \A i, j \in 0 .. n : i < j => cum[i] < cum[j]
    <2> TAKE i, j \in 0 .. n
    <2> HAVE i < j
    <2>1. j \in 1 .. n
      BY <1>1
    <2>2. q[j] \in Nat /\ q[j] > 0 /\ cum[i] \in Nat /\ cum[j] \in Nat /\ cum[i] + q[j] <= cum[j]
      BY <1>2, <1>5, <1>6, <2>1
    <2> QED BY <2>2
  <1>10. \A i \in 0 .. n : cum[i] <= Total(D)
    <2> TAKE i \in 0 .. n
    <2>1. n \in 0 .. n
      BY <1>1
    <2>2. i < n => cum[i] < cum[n]
      BY <1>9, <2>1
    <2>3. cum[i] \in Nat /\ cum[n] \in Nat /\ i \in Nat /\ i <= n
      BY <1>1, <1>5, <2>1
    <2> QED BY <1>1, <1>4, <2>2, <2>3
  <1> QED BY <1>1, <1>2, <1>4, <1>5, <1>7, <1>8, <1>9, <1>10 DEF n, cum

\* An execution x of order o is with the quote m.
With(c, o, x, m) ==
    LET y == [maker |-> m, venue |-> x.venue]
    IN /\ x.venue \in Venues /\ m \in Crossing(c[x.venue], req[o]) /\ m \in c[x.venue].resting
       /\ x.maker = m.order /\ x.price = m.price /\ m.left \in Nat \ {0}
       /\ y \in Offers(c, req[o]) /\ x.qty = Route(c, req[o])[y]
       /\ x.qty \in Nat \ {0} /\ x.qty <= m.left

\* Each execution is with a quote, which gives no more than it has.
LEMMA DoneWith ==
    ASSUME ReqOK, NEW o \in Orders, NEW c, CoreOK(c)
    PROVE  \A x \in DoneBy(c, o) : \E m : With(c, o, x, m)
  <1> DEFINE r == req[o]
  <1>1. r.side \in Sides /\ r.qty \in Nat
    BY TermsOK
  <1>2. AllQuotesOK(c) /\ \A v \in Venues : c[v].seq \in Nat /\ QuotesOK(c[v].resting)
    BY DEF CoreOK, AllQuotesOK
  <1>3. DoneOK(c, o)
    BY <1>2, DoneProps
  <1> TAKE x \in DoneBy(c, o)
  <1> DEFINE v == x.venue
             q == Planned(c, r, v)
  <1>4. PICK m \in Makers(c[v], r, q) : x.maker = m.order /\ x.price = m.price /\ x.qty = Given(c[v], r, q)[m]
    BY <1>3 DEF DoneOK
  <1>5. v \in Venues
    BY <1>3 DEF DoneOK, Visited
  <1>6. m \in Crossing(c[v], r) /\ Given(c[v], r, q)[m] > 0
    BY DEF Makers
  <1>7. m \in c[v].resting /\ m.left \in Nat \ {0}
    BY <1>2, <1>5, <1>6 DEF Crossing, QuotesOK, Quote
  <1>8. q \in Nat
    BY <1>1, <1>2, <1>5, PlanProps
  <1>9. Given(c[v], r, q) \in [Crossing(c[v], r) -> Nat] /\ Given(c[v], r, q)[m] <= m.left
    BY <1>1, <1>2, <1>5, <1>6, <1>8, GivenProps
  <1>10. [maker |-> m, venue |-> v] \in Offers(c, r)
    BY <1>5, <1>6, OffersByVenue
  <1>11. Given(c[v], r, q)[m] = Route(c, r)[[maker |-> m, venue |-> v]]
    BY <1>1, <1>2, <1>5, <1>6, GivenIsRoute
  <1>12. x.qty \in Nat /\ x.qty > 0 /\ x.qty <= m.left
    BY <1>4, <1>6, <1>9
  <1> QED BY <1>4, <1>5, <1>6, <1>7, <1>10, <1>11, <1>12 DEF With

\* No two are with the same order; and at most one is with a quote that has
\* something left.
LEMMA WithOnce ==
    ASSUME ReqOK, NEW o \in Orders, NEW c, CoreOK(c),
           NEW x \in DoneBy(c, o), NEW y \in DoneBy(c, o), NEW m, NEW n, With(c, o, x, m), With(c, o, y, n)
    PROVE  /\ x.maker = y.maker => x = y
           /\ x.qty < m.left /\ y.qty < n.left => x = y
  <1> DEFINE r == req[o]
             a == [maker |-> m, venue |-> x.venue]
             b == [maker |-> n, venue |-> y.venue]
  <1>1. r.side \in Sides /\ r.qty \in Nat
    BY TermsOK
  <1>2. AllQuotesOK(c) /\ \A v \in Venues : c[v].seq \in Nat
    BY DEF CoreOK, AllQuotesOK
  <1>3. DoneOK(c, o)
    BY <1>2, DoneProps
  <1>4. x.maker = y.maker => x = y
    <2> HAVE x.maker = y.maker
    <2>1. m.order = n.order
      BY DEF With
    <2>2. x.venue = y.venue
      BY <2>1, HeldOnce DEF With
    <2> QED BY <1>3, <2>2 DEF DoneOK
  <1>5. x.qty < m.left /\ y.qty < n.left => a = b
    <2> SUFFICES ASSUME x.qty < m.left, y.qty < n.left, a # b PROVE FALSE
      OBVIOUS
    <2>1. a \in Offers(c, r) /\ b \in Offers(c, r) /\ a.maker = m /\ b.maker = n
      BY DEF With
    <2>2. <<a, b>> \in Preference(c, r) \/ <<b, a>> \in Preference(c, r)
      BY <1>1, <1>2, <2>1, OffersLine DEF Lines
    <2>3. Route(c, r)[a] = x.qty /\ Route(c, r)[b] = y.qty /\ x.qty > 0 /\ y.qty > 0
      BY DEF With
    <2>4. m.left \in Nat /\ n.left \in Nat /\ x.qty \in Nat /\ y.qty \in Nat
      BY DEF With
    <2>5. Route(c, r)[a] = m.left \/ Route(c, r)[b] = n.left
      BY <1>1, <1>2, <2>1, <2>2, <2>3, PlanProps
    <2> QED BY <2>3, <2>4, <2>5
  <1>6. a = b => x.maker = y.maker
    <2> HAVE a = b
    <2>1. m = n
      OBVIOUS
    <2> QED BY <2>1 DEF With
  <1> QED BY <1>4, <1>5, <1>6

\* If something of the order is left over, whatever it could meet has given all.
LEMMA WithAll ==
    ASSUME ReqOK, NEW o \in Orders, NEW c, CoreOK(c), Remainder(o, DoneBy(c, o)) > 0
    PROVE  /\ \A x \in DoneBy(c, o) : \A m : With(c, o, x, m) => x.qty = m.left
           /\ \A v \in Venues : \A m \in Crossing(c[v], req[o]) :
                \E x \in DoneBy(c, o) : x.maker = m.order
  <1> DEFINE r == req[o]
  <1>1. r.side \in Sides /\ r.qty \in Nat
    BY TermsOK
  <1>2. AllQuotesOK(c) /\ \A v \in Venues : c[v].seq \in Nat /\ QuotesOK(c[v].resting)
    BY DEF CoreOK, AllQuotesOK
  <1>3. DoneOK(c, o)
    BY <1>2, DoneProps
  <1>4. \A v \in Venues : \A m \in Crossing(c[v], r) :
          v \in Visited(c, r) /\ Given(c[v], r, Planned(c, r, v))[m] = m.left
    BY <1>3 DEF DoneOK
  <1>5. \A x \in DoneBy(c, o) : \A m : With(c, o, x, m) => x.qty = m.left
    <2> TAKE x \in DoneBy(c, o)
    <2> TAKE m
    <2> HAVE With(c, o, x, m)
    <2>1. x.venue \in Venues /\ m \in Crossing(c[x.venue], r)
      BY DEF With
    <2>2. Given(c[x.venue], r, Planned(c, r, x.venue))[m] = Route(c, r)[[maker |-> m, venue |-> x.venue]]
      BY <1>1, <1>2, <2>1, GivenIsRoute
    <2>3. x.qty = Route(c, r)[[maker |-> m, venue |-> x.venue]]
      BY DEF With
    <2> QED BY <1>4, <2>1, <2>2, <2>3
  <1>6. \A v \in Venues : \A m \in Crossing(c[v], req[o]) : \E x \in DoneBy(c, o) : x.maker = m.order
    <2> TAKE v \in Venues
    <2> TAKE m \in Crossing(c[v], req[o])
    <2>1. m.left \in Nat \ {0}
      BY <1>2 DEF Crossing, QuotesOK, Quote
    <2>2. m \in Makers(c[v], r, Planned(c, r, v)) /\ v \in Visited(c, r)
      BY <1>4, <2>1 DEF Makers
    <2> QED BY <1>3, <2>2 DEF DoneOK
  <1> QED BY <1>5, <1>6

\* Some of it rests unless something was executed at the venue where it would.
LEMMA NothingMet ==
    ASSUME ReqOK, NEW o \in Orders, NEW c, CoreOK(c), DoneBy(c, o) = {}
    PROVE  Visited(c, req[o]) = {}
  <1> DEFINE r == req[o]
  <1>1. r.side \in Sides /\ r.qty \in Nat
    BY TermsOK
  <1>2. AllQuotesOK(c) /\ \A v \in Venues : c[v].seq \in Nat
    BY DEF CoreOK, AllQuotesOK
  <1>3. DoneOK(c, o)
    BY <1>2, DoneProps
  <1> SUFFICES ASSUME NEW v \in Visited(c, r) PROVE FALSE
    OBVIOUS
  <1>4. v \in Venues
    BY DEF Visited
  <1>5. PICK y \in OffersAt(c, r, v) : Route(c, r)[y] > 0
    BY <1>1, <1>2, PlanProps
  <1>6. y.maker \in Crossing(c[v], r) /\ y = [maker |-> y.maker, venue |-> v]
    BY OffersByVenue DEF OffersAt
  <1>7. Given(c[v], r, Planned(c, r, v))[y.maker] > 0
    BY <1>1, <1>2, <1>4, <1>5, <1>6, GivenIsRoute
  <1>8. y.maker \in Makers(c[v], r, Planned(c, r, v))
    BY <1>6, <1>7 DEF Makers
  <1> QED BY <1>3, <1>8 DEF DoneOK

\* The last books of the history.
Final == CoreIn(trace, Len(trace))

\* What the market sees of them.
LEMMA MarketSees ==
    ASSUME ReqOK, CoreOK(Final)
    PROVE  /\ \A p \in Orders : MarketOpen[p] = Left(Final, p)
           /\ \A v \in Venues : \A m \in Final[v].resting :
                m.order \in Orders /\ MarketOpen[m.order] = m.left /\ MarketRequests[m.order].price = m.price
  <1>1. CoreAfter(Len(trace)) = Final
    BY DEF CoreAfter, CoreIn, Final
  <1>2. \A p \in Orders : MarketOpen[p] = Left(Final, p)
    BY <1>1 DEF MarketOpen
  <1>3. ASSUME NEW v \in Venues, NEW m \in Final[v].resting
        PROVE  m.order \in Orders /\ MarketOpen[m.order] = m.left /\ MarketRequests[m.order].price = m.price
    <2>1. m.order \in Orders
      BY DEF CoreOK, QuotesOK, Quote
    <2>2. Left(Final, m.order) = m.left
      BY LeftProps
    <2>3. m.price = req[m.order].price
      BY DEF CoreOK, Placed
    <2> QED BY <1>2, <2>1, <2>2, <2>3 DEF MarketRequests, Terms
  <1> QED BY <1>2, <1>3

\* The market crosses the orders that the books cross.
LEMMA MarketCrosses ==
    ASSUME NEW o \in Orders, NEW p \in Orders
    PROVE  Mkt!Crosses(o, p) <=> req[o].side # req[p].side /\ Accepts(req[o], req[p].price)
  <1>1. /\ MarketRequests[o].side = req[o].side /\ MarketRequests[o].type = req[o].type
        /\ MarketRequests[o].price = req[o].price
        /\ MarketRequests[p].side = req[p].side /\ MarketRequests[p].price = req[p].price
    BY DEF MarketRequests, Terms
  <1>2. Mkt!Bound(MarketRequests[o]) = Bound(req[o])
    BY <1>1 DEF Mkt!Bound, Bound, Mkt!ApplyBps, ApplyBps, Mkt!SubBps, SubBps, Mkt!FeeBps, FeeBps,
                Mkt!CeilDiv, CeilDiv
  <1>3. Mkt!Accepts(MarketRequests[o], MarketRequests[p].price) <=> Accepts(req[o], req[p].price)
    BY <1>1, <1>2 DEF Mkt!Accepts, Accepts
  <1> QED BY <1>1, <1>3 DEF Mkt!Crosses

\* What is available to an order are the quotes it crosses, finitely many.
LEMMA MarketAvailable ==
    ASSUME ReqOK, CoreOK(Final), NEW o \in Orders
    PROVE  /\ \A p : p \in Mkt!Available(o) <=>
                       \E v \in Venues : \E m \in Crossing(Final[v], req[o]) : m.order = p
           /\ IsFiniteSet(Mkt!Available(o))
  <1> DEFINE r == req[o]
             O == Offers(Final, r)
  <1>1. \A v \in Venues : \A m \in Final[v].resting :
          /\ m.order \in Orders /\ MarketOpen[m.order] = m.left /\ m.left \in Nat \ {0}
          /\ m.side = req[m.order].side /\ m.price = req[m.order].price
    <2> TAKE v \in Venues
    <2> TAKE m \in Final[v].resting
    <2>1. m.order \in Orders /\ m.left \in Nat \ {0}
      BY DEF CoreOK, QuotesOK, Quote
    <2>2. m.side = req[m.order].side /\ m.price = req[m.order].price
      BY DEF CoreOK, Placed
    <2> QED BY <2>1, <2>2, MarketSees
  <1>2. \A p \in Mkt!Available(o) : \E v \in Venues : \E m \in Crossing(Final[v], r) : m.order = p
    <2> TAKE p \in Mkt!Available(o)
    <2>1. p \in Orders /\ MarketOpen[p] > 0 /\ Mkt!Crosses(o, p)
      BY DEF Mkt!Available
    <2>2. Left(Final, p) > 0
      BY <2>1, MarketSees
    <2>3. PICK v \in Venues : Holds(Final[v], p)
      BY <2>2, LeftProps
    <2>4. PICK m \in Final[v].resting : m.order = p
      BY <2>3 DEF Holds
    <2>5. m.side # r.side /\ Accepts(r, m.price)
      BY <1>1, <2>1, <2>4, MarketCrosses
    <2> QED BY <2>4, <2>5 DEF Crossing
  <1>3. \A v \in Venues : \A m \in Crossing(Final[v], r) : m.order \in Mkt!Available(o)
    <2> TAKE v \in Venues
    <2> TAKE m \in Crossing(Final[v], r)
    <2>1. m \in Final[v].resting /\ m.side # r.side /\ Accepts(r, m.price)
      BY DEF Crossing
    <2>2. m.order \in Orders /\ MarketOpen[m.order] = m.left /\ m.left \in Nat \ {0}
          /\ m.side = req[m.order].side /\ m.price = req[m.order].price
      BY <1>1, <2>1
    <2>3. Mkt!Crosses(o, m.order)
      BY <2>1, <2>2, MarketCrosses
    <2>4. MarketOpen[m.order] > 0
      BY <2>2
    <2> QED BY <2>2, <2>3, <2>4 DEF Mkt!Available
  <1>4. IsFiniteSet(Mkt!Available(o))
    <2> DEFINE name == [x \in O |-> x.maker.order]
    <2>1. IsFiniteSet(O)
      BY TermsOK, OffersLine DEF CoreOK, AllQuotesOK
    <2>2. Mkt!Available(o) \in SUBSET {name[x] : x \in O}
      <3> SUFFICES ASSUME NEW p \in Mkt!Available(o) PROVE \E x \in O : name[x] = p
        OBVIOUS
      <3>1. PICK v \in Venues : \E m \in Crossing(Final[v], r) : m.order = p
        BY <1>2
      <3>2. PICK m \in Crossing(Final[v], r) : m.order = p
        BY <3>1
      <3>3. [maker |-> m, venue |-> v] \in O
        BY OffersByVenue
      <3> QED BY <3>2, <3>3
    <2> HIDE DEF O, name
    <2>3. IsFiniteSet({name[x] : x \in O})
      BY <2>1, FiniteImage
    <2> QED BY <2>2, <2>3, FS_Subset
  <1> QED BY <1>2, <1>3, <1>4

\* The plan of an order.
LEMMA PlanHolds ==
    ASSUME ReqOK, CoreOK(Final), NEW o \in Orders
    PROVE  LET L == ListOf(Final, o)
               mk == MakersIn(L)
               cum == SumsIn(L)
           IN /\ Len(L) \in 0 .. Cardinality(Mkt!Available(o))
              /\ mk \in [1 .. Len(L) -> Mkt!Available(o)]
              /\ \A i, j \in 1 .. Len(L) : mk[i] = mk[j] => i = j
              /\ cum \in [0 .. Len(L) -> 0 .. MarketRequests[o].qty]
              /\ Mkt!Plan(o, mk, cum)
  <1> DEFINE D == DoneBy(Final, o)
             L == ListOf(Final, o)
             n == Len(L)
             mk == MakersIn(L)
             cum == SumsIn(L)
             A == Mkt!Available(o)
             qty == req[o].qty
  <1>1. /\ IsFiniteSet(D) /\ L \in Seq(D) /\ n \in Nat /\ D \in SUBSET Trades
        /\ \A i, j \in 1 .. n : L[i] = L[j] => i = j
        /\ \A x \in D : \E k \in 1 .. n : L[k] = x
    BY ListOfProps
  <1>2. \A x \in D : \E m : With(Final, o, x, m)
    BY DoneWith
  <1>3. \A x \in D : x.qty > 0
    <2> TAKE x \in D
    <2>1. PICK m : With(Final, o, x, m)
      BY <1>2
    <2>2. x.qty \in Nat \ {0}
      BY <2>1 DEF With
    <2> QED BY <2>2
  <1>4. DoneOK(Final, o)
    BY DoneProps DEF CoreOK, AllQuotesOK
  <1>5. /\ Total(D) \in Nat /\ Remainder(o, D) \in Nat /\ Remainder(o, D) = qty - Total(D)
        /\ qty \in Nat /\ Total(D) <= qty /\ (Remainder(o, D) = 0 <=> Total(D) = qty)
    <2>1. \A x \in D : x.qty \in Nat
      BY <1>1 DEF Trades
    <2>2. Total(D) \in Nat
      BY <1>1, <2>1, TotalProps
    <2>3. Remainder(o, D) \in Nat
      BY <1>4 DEF DoneOK
    <2>4. Remainder(o, D) = qty - Total(D)
      BY DEF Remainder
    <2>5. qty \in Nat
      BY TermsOK
    <2> HIDE DEF D, qty
    <2> QED BY <2>2, <2>3, <2>4, <2>5
  <1>6. MarketRequests[o].qty = qty
    BY DEF MarketRequests, Terms
  <1> HIDE DEF D, L, qty
  <1>7. /\ cum[0] = 0 /\ cum[n] = Total(D)
        /\ \A i \in 0 .. n : cum[i] \in Nat /\ cum[i] <= Total(D)
        /\ \A i \in 1 .. n : i - 1 \in 0 .. n /\ cum[i] = cum[i - 1] + L[i].qty
        /\ \A i, j \in 0 .. n : i < j => cum[i] < cum[j]
    BY <1>1, <1>3, SumsProps
  <1>8. \A i \in 1 .. n : L[i] \in D /\ mk[i] = L[i].maker
    BY <1>1 DEF MakersIn
  <1>9. \A i \in 1 .. n : \A m : With(Final, o, L[i], m) =>
          /\ m \in Crossing(Final[L[i].venue], req[o]) /\ L[i].venue \in Venues
          /\ mk[i] = m.order /\ MarketOpen[mk[i]] = m.left
          /\ L[i].qty \in Nat \ {0} /\ m.left \in Nat \ {0} /\ L[i].qty <= m.left
    <2> TAKE i \in 1 .. n
    <2> TAKE m
    <2> HAVE With(Final, o, L[i], m)
    <2>1. /\ m \in Crossing(Final[L[i].venue], req[o]) /\ L[i].venue \in Venues
          /\ m \in Final[L[i].venue].resting /\ L[i].maker = m.order
          /\ L[i].qty \in Nat \ {0} /\ m.left \in Nat \ {0} /\ L[i].qty <= m.left
      BY DEF With
    <2>2. MarketOpen[m.order] = m.left
      BY <2>1, MarketSees
    <2> QED BY <1>8, <2>1, <2>2
  <1>10. \A i \in 1 .. n : mk[i] \in A
    <2> TAKE i \in 1 .. n
    <2>1. PICK m : With(Final, o, L[i], m)
      BY <1>2, <1>8
    <2> QED BY <1>9, <2>1, MarketAvailable
  <1>11. mk \in [1 .. n -> A]
    BY <1>10 DEF MakersIn
  <1>12. \A i, j \in 1 .. n : mk[i] = mk[j] => i = j
    <2> TAKE i, j \in 1 .. n
    <2> HAVE mk[i] = mk[j]
    <2>1. PICK m : With(Final, o, L[i], m)
      BY <1>2, <1>8
    <2>2. PICK k : With(Final, o, L[j], k)
      BY <1>2, <1>8
    <2>3. L[i] \in DoneBy(Final, o) /\ L[j] \in DoneBy(Final, o) /\ L[i].maker = L[j].maker
      BY <1>8 DEF D
    <2>4. L[i] = L[j]
      BY <2>1, <2>2, <2>3, WithOnce
    <2> QED BY <1>1, <2>4
  <1>13. n <= Cardinality(A) /\ Cardinality(A) \in Nat
    <2>1. IsFiniteSet(A)
      BY MarketAvailable
    <2>2. Cardinality(A) \in Nat
      BY <2>1, FS_CardinalityType
    <2>3. PICK k \in Nat : k = n
      BY <1>1
    <2>4. Cardinality(1 .. k) = k
      BY FS_Interval
    <2>5. mk \in Injection(1 .. k, A)
      BY <1>11, <1>12, <2>3 DEF Injection, IsInjective
    <2>6. Cardinality(1 .. k) <= Cardinality(A)
      BY <2>1, <2>5, FS_Injection
    <2> QED BY <2>2, <2>3, <2>4, <2>6
  <1>14. cum \in [0 .. n -> 0 .. qty]
    <2>1. \A i \in 0 .. n : cum[i] \in 0 .. qty
      BY <1>5, <1>7
    <2> QED BY <2>1 DEF SumsIn
  <1>15. Mkt!Plan(o, mk, cum)
    <2> DEFINE part == {i \in 1 .. n : cum[i] < cum[i-1] + MarketOpen[mk[i]]}
    <2>1. Len(mk) = n
      BY <1>1 DEF MakersIn
    <2>2. \A i \in 1 .. n : \A m : With(Final, o, L[i], m) =>
            /\ cum[i] <= cum[i-1] + MarketOpen[mk[i]]
            /\ i \in part <=> L[i].qty < m.left
      <3> TAKE i \in 1 .. n
      <3> TAKE m
      <3> HAVE With(Final, o, L[i], m)
      <3>1. /\ MarketOpen[mk[i]] = m.left /\ L[i].qty \in Nat \ {0} /\ m.left \in Nat \ {0}
            /\ L[i].qty <= m.left
        BY <1>9
      <3>2. i - 1 \in 0 .. n /\ cum[i] = cum[i-1] + L[i].qty
        BY <1>7
      <3>3. cum[i-1] \in Nat
        BY <1>7, <3>2
      <3> QED BY <3>1, <3>2, <3>3
    <2>3. \A i \in 1 .. n : cum[i] <= cum[i-1] + MarketOpen[mk[i]]
      BY <1>2, <1>8, <2>2
    <2>4. \A i, j \in part : i = j
      <3> TAKE i, j \in part
      <3>1. PICK m : With(Final, o, L[i], m)
        BY <1>2, <1>8
      <3>2. PICK k : With(Final, o, L[j], k)
        BY <1>2, <1>8
      <3>3. L[i].qty < m.left /\ L[j].qty < k.left
        BY <2>2, <3>1, <3>2
      <3>4. L[i] \in DoneBy(Final, o) /\ L[j] \in DoneBy(Final, o)
        BY <1>8 DEF D
      <3>5. L[i] = L[j]
        BY <3>1, <3>2, <3>3, <3>4, WithOnce
      <3> QED BY <1>1, <3>5
    <2>5. cum[n] = qty \/ (part = {} /\ A \subseteq {mk[i] : i \in 1 .. n})
      <3> SUFFICES ASSUME cum[n] # qty PROVE part = {} /\ A \subseteq {mk[i] : i \in 1 .. n}
        OBVIOUS
      <3>1. Remainder(o, DoneBy(Final, o)) > 0
        BY <1>5, <1>7 DEF D
      <3>2. /\ \A x \in D : \A m : With(Final, o, x, m) => x.qty = m.left
            /\ \A v \in Venues : \A m \in Crossing(Final[v], req[o]) : \E x \in D : x.maker = m.order
        BY <3>1, WithAll DEF D
      <3>3. part = {}
        <4> SUFFICES ASSUME NEW i \in part PROVE FALSE
          OBVIOUS
        <4>1. PICK m : With(Final, o, L[i], m)
          BY <1>2, <1>8
        <4>2. L[i].qty < m.left /\ L[i].qty = m.left /\ m.left \in Nat
          BY <1>8, <1>9, <2>2, <3>2, <4>1
        <4> QED BY <4>2
      <3>4. ASSUME NEW p \in A PROVE \E i \in 1 .. n : mk[i] = p
        <4>1. PICK v \in Venues : \E m \in Crossing(Final[v], req[o]) : m.order = p
          BY MarketAvailable
        <4>2. PICK x \in D : x.maker = p
          BY <3>2, <4>1
        <4>3. PICK i \in 1 .. n : L[i] = x
          BY <1>1
        <4> QED BY <1>8, <4>2, <4>3
      <3> HIDE DEF A, mk, part
      <3> QED BY <3>3, <3>4
    <2> HIDE DEF mk, cum, A
    <2> QED BY <1>6, <1>7, <2>1, <2>3, <2>4, <2>5 DEF Mkt!Plan, A
  <1> QED BY <1>1, <1>6, <1>11, <1>12, <1>13, <1>14, <1>15 DEF L

\* Executions as the market sees them.
FillsOf(list) == [i \in DOMAIN list |-> [taker |-> list[i].taker, maker |-> list[i].maker,
                                         qty |-> list[i].qty, price |-> list[i].price]]

\* What the plan rests on.
LEMMA PlanList ==
    ASSUME ReqOK, CoreOK(Final), NEW o \in Orders
    PROVE  LET D == DoneBy(Final, o)
               L == ListOf(Final, o)
               mk == MakersIn(L)
               cum == SumsIn(L)
           IN /\ Len(L) \in Nat /\ Len(mk) = Len(L) /\ L \in Seq(Trades) /\ IsFiniteSet(D) /\ D \in SUBSET Trades
              /\ cum[Len(L)] = Total(D) /\ Total(D) \in Nat
              /\ \A i \in 1 .. Len(L) :
                   /\ L[i] \in D /\ mk[i] = L[i].maker /\ mk[i] \in Orders
                   /\ cum[i] - cum[i - 1] = L[i].qty
                   /\ L[i].taker = o /\ L[i].price = MarketRequests[mk[i]].price
              /\ \A i, j \in 1 .. Len(L) : L[i] = L[j] => i = j
              /\ \A x \in D : \E k \in 1 .. Len(L) : L[k] = x
  <1> DEFINE D == DoneBy(Final, o)
             L == ListOf(Final, o)
             n == Len(L)
             mk == MakersIn(L)
             cum == SumsIn(L)
  <1>1. /\ IsFiniteSet(D) /\ L \in Seq(D) /\ n \in Nat /\ D \in SUBSET Trades
        /\ \A i, j \in 1 .. n : L[i] = L[j] => i = j
        /\ \A x \in D : \E k \in 1 .. n : L[k] = x
    BY ListOfProps
  <1>2. \A x \in D : \E m : With(Final, o, x, m)
    BY DoneWith
  <1>3. \A x \in D : x.qty > 0 /\ x.qty \in Nat
    <2> TAKE x \in D
    <2>1. PICK m : With(Final, o, x, m)
      BY <1>2
    <2>2. x.qty \in Nat \ {0}
      BY <2>1 DEF With
    <2> QED BY <2>2
  <1>4. DoneOK(Final, o)
    BY DoneProps DEF CoreOK, AllQuotesOK
  <1>5. \A x \in D : x.taker = o /\ x.maker \in Orders /\ x.price = MarketRequests[x.maker].price
    <2> TAKE x \in D
    <2>1. PICK m : With(Final, o, x, m)
      BY <1>2
    <2>2. x.venue \in Venues /\ m \in Final[x.venue].resting /\ x.maker = m.order /\ x.price = m.price
      BY <2>1 DEF With
    <2>3. m.order \in Orders /\ MarketRequests[m.order].price = m.price
      BY <2>2, MarketSees
    <2>4. x.taker = o
      BY <1>4 DEF DoneOK
    <2> QED BY <2>2, <2>3, <2>4
  <1> HIDE DEF D, L
  <1>6. /\ cum[n] = Total(D)
        /\ \A i \in 0 .. n : cum[i] \in Nat
        /\ \A i \in 1 .. n : i - 1 \in 0 .. n /\ cum[i] = cum[i - 1] + L[i].qty
    BY <1>1, <1>3, SumsProps
  <1>7. Total(D) \in Nat
    BY <1>1, <1>3, TotalProps
  <1>8. \A i \in 1 .. n : L[i] \in D /\ mk[i] = L[i].maker
    BY <1>1 DEF MakersIn
  <1>9. \A i \in 1 .. n : cum[i] - cum[i - 1] = L[i].qty
    <2> TAKE i \in 1 .. n
    <2>1. cum[i - 1] \in Nat /\ cum[i] = cum[i - 1] + L[i].qty /\ L[i].qty \in Nat
      BY <1>3, <1>6, <1>8
    <2> QED BY <2>1
  <1>10. Len(mk) = n /\ L \in Seq(Trades)
    BY <1>1 DEF MakersIn
  <1> HIDE DEF n, mk, cum
  <1> QED BY <1>1, <1>5, <1>6, <1>7, <1>8, <1>9, <1>10 DEF D, L, n, mk, cum

\* Executions added are executions added in the market's eyes.
LEMMA FillsJoined ==
    ASSUME NEW s \in Seq(Trades), NEW t \in Seq(Trades)
    PROVE  FillsOf(s \o t) = FillsOf(s) \o FillsOf(t)
  <1> DEFINE rec(x) == [taker |-> x.taker, maker |-> x.maker, qty |-> x.qty, price |-> x.price]
  <1>1. PICK S : S = [taker : Orders, maker : Orders, qty : Nat, price : Nat]
    OBVIOUS
  <1>2. \A x \in Trades : rec(x) \in S
    BY <1>1 DEF Trades
  <1>3. \A l \in Seq(Trades) : FillsOf(l) = [i \in 1 .. Len(l) |-> rec(l[i])]
    <2> TAKE l \in Seq(Trades)
    <2>1. DOMAIN l = 1 .. Len(l)
      OBVIOUS
    <2> QED BY <2>1 DEF FillsOf
  <1> HIDE DEF rec
  <1>4. \A l \in Seq(Trades) : /\ FillsOf(l) \in Seq(S) /\ Len(FillsOf(l)) = Len(l)
                               /\ \A i \in 1 .. Len(l) : FillsOf(l)[i] = rec(l[i])
    <2> TAKE l \in Seq(Trades)
    <2>1. \A i \in 1 .. Len(l) : rec(l[i]) \in S
      BY <1>2
    <2>2. PICK k \in Nat : k = Len(l)
      OBVIOUS
    <2>3. PICK g : g = FillsOf(l)
      OBVIOUS
    <2>4. g = [i \in 1 .. k |-> rec(l[i])] /\ \A i \in 1 .. k : rec(l[i]) \in S
      BY <1>3, <2>1, <2>2, <2>3
    <2>5. g \in [1 .. k -> S]
      BY ONLY <2>4
    <2>6. g \in Seq(S) /\ Len(g) = k
      BY <2>5
    <2> QED BY <2>2, <2>3, <2>4, <2>6
  <1>5. PICK a : a = FillsOf(s)
    OBVIOUS
  <1>6. PICK b : b = FillsOf(t)
    OBVIOUS
  <1>7. PICK all : all = s \o t
    OBVIOUS
  <1>8. PICK w : w = FillsOf(all)
    OBVIOUS
  <1>9. /\ all \in Seq(Trades) /\ Len(all) = Len(s) + Len(t) /\ Len(s) \in Nat /\ Len(t) \in Nat
        /\ \A k \in 1 .. Len(s) : all[k] = s[k]
        /\ \A k \in 1 .. Len(t) : all[Len(s) + k] = t[k]
        /\ \A k \in 1 .. Len(s) + Len(t) : k \in 1 .. Len(s) \/ k - Len(s) \in 1 .. Len(t)
    BY <1>7, JoinedProps
  <1>10. /\ a \in Seq(S) /\ Len(a) = Len(s) /\ \A k \in 1 .. Len(s) : a[k] = rec(s[k])
    BY <1>4, <1>5
  <1>11. /\ b \in Seq(S) /\ Len(b) = Len(t) /\ \A k \in 1 .. Len(t) : b[k] = rec(t[k])
    BY <1>4, <1>6
  <1>12. /\ w \in Seq(S) /\ Len(w) = Len(all) /\ \A k \in 1 .. Len(all) : w[k] = rec(all[k])
    BY <1>4, <1>8, <1>9
  <1>13. /\ a \o b \in Seq(S) /\ Len(a \o b) = Len(a) + Len(b)
         /\ \A k \in 1 .. Len(a) : (a \o b)[k] = a[k]
         /\ \A k \in 1 .. Len(b) : (a \o b)[Len(a) + k] = b[k]
    <2>1. a \in Seq(S) /\ b \in Seq(S)
      BY <1>10, <1>11
    <2> QED BY ONLY <2>1, JoinedProps
  <1>14. \A k \in 1 .. Len(w) : w[k] = (a \o b)[k]
    <2> TAKE k \in 1 .. Len(w)
    <2>1. w[k] = rec(all[k]) /\ k \in 1 .. Len(s) + Len(t)
      BY <1>9, <1>12
    <2>2. CASE k \in 1 .. Len(s)
      BY <1>9, <1>10, <1>13, <2>1, <2>2
    <2>3. CASE k - Len(s) \in 1 .. Len(t)
      <3>1. PICK i \in 1 .. Len(t) : i = k - Len(s)
        BY <2>3
      <3>2. k = Len(s) + i
        BY <1>9, <2>1, <3>1
      <3>3. all[k] = t[i]
        BY <1>9, <3>2
      <3>4. (a \o b)[k] = b[i]
        BY <1>10, <1>11, <1>13, <3>2
      <3> QED BY <1>11, <2>1, <3>3, <3>4
    <2> QED BY <1>9, <2>1, <2>2, <2>3
  <1>15. Len(w) = Len(a \o b)
    BY <1>9, <1>10, <1>11, <1>12, <1>13
  <1>16. w = a \o b
    <2>1. w \in Seq(S) /\ a \o b \in Seq(S)
      BY <1>12, <1>13
    <2> QED BY ONLY <1>14, <1>15, <2>1, SeqEqual
  <1> QED BY <1>5, <1>6, <1>7, <1>8, <1>16

\* The executions are those of the plan.
LEMMA FillsPlanned ==
    ASSUME ReqOK, CoreOK(Final), NEW o \in Orders, fills \in Seq(Trades)
    PROVE  LET L == ListOf(Final, o)
           IN FillsOf(fills \o L) = MarketFills \o Mkt!PlannedFills(o, MakersIn(L), SumsIn(L))
  <1> DEFINE L == ListOf(Final, o)
             n == Len(L)
             mk == MakersIn(L)
             cum == SumsIn(L)
             plan == Mkt!PlannedFills(o, mk, cum)
  <1>1. /\ n \in Nat /\ Len(mk) = n /\ L \in Seq(Trades)
        /\ \A i \in 1 .. n : /\ mk[i] = L[i].maker /\ cum[i] - cum[i - 1] = L[i].qty
                             /\ L[i].taker = o /\ L[i].price = MarketRequests[mk[i]].price
    BY PlanList
  <1> HIDE DEF L, mk, cum
  <1>2. /\ plan = [i \in 1 .. n |-> [taker |-> o, maker |-> mk[i], qty |-> cum[i] - cum[i-1],
                                     price |-> MarketRequests[mk[i]].price]]
    BY <1>1 DEF Mkt!PlannedFills
  <1>3. plan = FillsOf(L)
    <2>1. DOMAIN L = 1 .. n
      BY <1>1
    <2>2. \A i \in 1 .. n : [taker |-> o, maker |-> mk[i], qty |-> cum[i] - cum[i-1],
                             price |-> MarketRequests[mk[i]].price]
                            = [taker |-> L[i].taker, maker |-> L[i].maker,
                               qty |-> L[i].qty, price |-> L[i].price]
      BY <1>1
    <2> QED BY <1>2, <2>1, <2>2 DEF FillsOf
  <1>4. MarketFills = FillsOf(fills)
    BY DEF MarketFills, FillsOf
  <1>5. FillsOf(fills \o L) = FillsOf(fills) \o FillsOf(L)
    BY <1>1, FillsJoined
  <1> QED BY <1>3, <1>4, <1>5 DEF L, mk, cum

\* Two halves of each of n executions.
LEMMA HalfPlaces ==
    ASSUME NEW n \in Nat, NEW i \in 1 .. 2 * n
    PROVE  (i + 1) \div 2 \in 1 .. n /\ (i % 2 # 1 => i \div 2 = (i + 1) \div 2)
  OBVIOUS

\* What becomes of the order is as planned.
LEMMA FatePlanned ==
    ASSUME ReqOK, CoreOK(Final), NEW o \in Orders
    PROVE  LET L == ListOf(Final, o)
           IN Mkt!Fate(o, SumsIn(L)[Len(L)]) = Fate(o, DoneBy(Final, o))
  <1> DEFINE D == DoneBy(Final, o)
             L == ListOf(Final, o)
             n == Len(L)
  <1>1. SumsIn(L)[n] = Total(D) /\ Total(D) \in Nat
    BY PlanList
  <1>2. /\ MarketRequests[o].qty = req[o].qty /\ MarketRequests[o].type = req[o].type
        /\ MarketRequests[o].tif = req[o].tif
    BY DEF MarketRequests, Terms
  <1>3. Mkt!Rests(o) <=> MayRest(req[o])
    BY <1>2 DEF Mkt!Rests, Mkt!MayRest, MayRest
  <1>4. req[o].qty \in Nat
    BY TermsOK
  <1> HIDE DEF D, L, n
  <1>5. SumsIn(L)[n] = req[o].qty <=> Remainder(o, D) = 0
    BY <1>1, <1>4 DEF Remainder
  <1> QED BY <1>2, <1>3, <1>5 DEF Mkt!Fate, Fate, D, L, n

\* The records are those of the plan.
LEMMA RecordsPlanned ==
    ASSUME ReqOK, CoreOK(Final), NEW o \in Orders, fills \in Seq(Trades),
           NEW known, known = fills \o ListOf(Final, o),
           \A i, j \in 1 .. Len(known) : Identity(known[i]) = Identity(known[j]) => i = j
    PROVE  LET L == ListOf(Final, o)
           IN Append(HalvesIn(L, known), Disposition(o, Fate(o, DoneBy(Final, o))))
              = Mkt!Produced(o, MakersIn(L), Mkt!Fate(o, SumsIn(L)[Len(L)]))
  <1> DEFINE L == ListOf(Final, o)
             n == Len(L)
             mk == MakersIn(L)
             what == Fate(o, DoneBy(Final, o))
             h == HalvesIn(L, known)
             last == Disposition(o, what)
             w == Append(h, last)
             p == Mkt!Produced(o, mk, what)
  <1>1. /\ n \in Nat /\ Len(mk) = n /\ L \in Seq(Trades)
        /\ \A i \in 1 .. n : mk[i] = L[i].maker /\ L[i].taker = o
    BY PlanList
  <1>2. Mkt!Fate(o, SumsIn(L)[n]) = what
    BY FatePlanned
  <1> HIDE DEF L, mk, what
  <1>3. /\ known \in Seq(Trades) /\ Len(known) = Len(fills) + n /\ Len(fills) \in Nat
        /\ \A k \in 1 .. n : known[Len(fills) + k] = L[k]
    BY <1>1, JoinedProps DEF L
  <1>4. \A k \in 1 .. n : NumberIn(known, L[k]) = Len(fills) + k
    <2> TAKE k \in 1 .. n
    <2>1. Len(fills) + k \in 1 .. Len(known)
      BY <1>1, <1>3
    <2>2. NumberIn(known, known[Len(fills) + k]) = Len(fills) + k
      BY <1>3, <2>1, NumberKept
    <2> QED BY <1>3, <2>2
  <1>5. Len(MarketFills) = Len(fills)
    <2>1. DOMAIN fills = 1 .. Len(fills) /\ Len(fills) \in Nat
      BY <1>3
    <2> QED BY <2>1 DEF MarketFills
  <1> DEFINE entry(i) == IF i % 2 = 1 THEN Half(o, Len(fills) + (i + 1) \div 2, "TAKER")
                                      ELSE Half(mk[i \div 2], Len(fills) + i \div 2, "MAKER")
  <1>6. \A i \in 1 .. 2 * n : h[i] = entry(i)
    <2> TAKE i \in 1 .. 2 * n
    <2> DEFINE k == (i + 1) \div 2
    <2>1. k \in 1 .. n /\ (i % 2 # 1 => i \div 2 = k)
      BY <1>1, HalfPlaces
    <2>2. h[i] = IF i % 2 = 1 THEN Half(L[k].taker, NumberIn(known, L[k]), "TAKER")
                 ELSE Half(L[k].maker, NumberIn(known, L[k]), "MAKER")
      BY DEF HalvesIn
    <2> HIDE DEF k
    <2>3. L[k].taker = o /\ L[k].maker = mk[k] /\ NumberIn(known, L[k]) = Len(fills) + k
      BY <1>1, <1>4, <2>1
    <2>4. CASE i % 2 = 1
      BY <2>2, <2>3, <2>4 DEF k
    <2>5. CASE i % 2 # 1
      BY <2>1, <2>2, <2>3, <2>5
    <2> QED BY <2>4, <2>5
  <1>7. p = [i \in 1 .. 2 * n + 1 |-> IF i = 2 * n + 1 THEN last ELSE entry(i)]
    BY <1>1, <1>5 DEF Mkt!Produced, Mkt!Half, Mkt!Disposition, Half, Disposition
  <1>8. DOMAIN h = 1 .. 2 * n /\ h = [i \in 1 .. 2 * n |-> h[i]]
    BY DEF HalvesIn
  <1>9. PICK S : S = {h[i] : i \in 1 .. 2 * n} \cup {last}
    OBVIOUS
  <1>10. PICK N \in Nat : N = 2 * n
    BY <1>1
  <1> HIDE DEF entry, h, last, p
  <1>11. h \in Seq(S) /\ Len(h) = N /\ last \in S
    <2>1. h \in [1 .. N -> S]
      BY <1>8, <1>9, <1>10
    <2>2. PICK g : g = h
      OBVIOUS
    <2>3. g \in Seq(S) /\ Len(g) = N
      BY <1>10, <2>1, <2>2
    <2> QED BY <1>9, <2>2, <2>3
  <1>12. /\ w \in Seq(S) /\ Len(w) = N + 1 /\ w[N + 1] = last
         /\ \A i \in 1 .. N : w[i] = h[i]
    BY <1>11
  <1>13. /\ p = [i \in 1 .. N + 1 |-> IF i = N + 1 THEN last ELSE entry(i)]
         /\ \A i \in 1 .. N : h[i] = entry(i)
    BY <1>6, <1>7, <1>10
  <1>14. \A i \in 1 .. N + 1 : p[i] = w[i] /\ p[i] \in S
    <2> TAKE i \in 1 .. N + 1
    <2>1. CASE i = N + 1
      BY <1>11, <1>12, <1>13, <2>1
    <2>2. CASE i \in 1 .. N
      <3>1. h[i] \in S
        BY <1>9, <1>10, <2>2
      <3>2. p[i] = entry(i)
        BY <1>13, <2>2
      <3> QED BY <1>12, <1>13, <2>2, <3>1, <3>2
    <2>3. i = N + 1 \/ i \in 1 .. N
      BY ONLY N \in Nat, i \in 1 .. N + 1
    <2> QED BY <2>1, <2>2, <2>3
  <1>15. p \in Seq(S) /\ Len(p) = N + 1
    <2>1. p \in [1 .. N + 1 -> S]
      BY <1>13, <1>14
    <2>2. PICK g : g = p
      OBVIOUS
    <2>3. PICK m \in Nat : m = N + 1
      BY <1>10
    <2>4. g \in [1 .. m -> S]
      BY <2>1, <2>2, <2>3
    <2>5. g \in Seq(S) /\ Len(g) = m
      BY <2>4
    <2> QED BY <2>2, <2>3, <2>5
  <1> HIDE DEF w
  <1>16. p = w
    BY <1>12, <1>14, <1>15, SeqEqual
  <1> QED BY <1>2, <1>16 DEF p, w, h, last, what, mk, L

\* What rests of the order afterwards.
LEMMA KeptPlanned ==
    ASSUME ReqOK, CoreOK(Final), NEW o \in Orders, \A v \in Venues : ~Holds(Final[v], o)
    PROVE  LET L == ListOf(Final, o)
           IN Left(OrderCore(Final, o), o) \in Mkt!MayKeep(o, Len(L), SumsIn(L)[Len(L)])
  <1> DEFINE c == Final
             d == OrderCore(c, o)
             D == DoneBy(c, o)
             L == ListOf(c, o)
             rest == Remainder(o, D)
  <1>1. CoreOK(d)
    BY OrderCoreProps DEF OrderOK
  <1>2. DoneOK(c, o)
    BY DoneProps DEF CoreOK, AllQuotesOK
  <1>3. SumsIn(L)[Len(L)] = Total(D) /\ Total(D) \in Nat /\ Len(L) \in Nat
        /\ \A x \in D : \E k \in 1 .. Len(L) : L[k] = x
    BY PlanList
  <1>4. rest \in Nat /\ rest = req[o].qty - Total(D) /\ MarketRequests[o].qty = req[o].qty
    BY <1>2 DEF DoneOK, Remainder, MarketRequests, Terms
  <1>5. Mkt!MayKeep(o, Len(L), SumsIn(L)[Len(L)])
          = IF Fate(o, D) = "RESTED" THEN {rest} \cup (IF Len(L) > 0 THEN {0} ELSE {}) ELSE {0}
    BY <1>3, <1>4, FatePlanned DEF Mkt!MayKeep
  <1>6. Fate(o, D) = "RESTED" <=> rest # 0 /\ MayRest(req[o])
    BY DEF Fate
  <1>7. CASE RestsAt(c, o) # {}
    <2>1. PICK v \in RestsAt(c, o) : TRUE
      BY <1>7
    <2>2. v \in Venues /\ rest > 0 /\ MayRest(req[o])
      BY <2>1, TermsOK DEF RestsAt
    <2> DEFINE k == Rested(c[v], o, req[o], rest)
    <2>3. k \in d[v].resting
      BY <2>1, <2>2, VenueAfter
    <2>4. k.order = o /\ k.left = rest
      BY DEF Rested
    <2> HIDE DEF k, d, rest
    <2>5. Left(d, o) = rest
      BY <1>1, <2>2, <2>3, <2>4, LeftProps
    <2>6. rest # 0
      BY <1>4, <2>2
    <2> QED BY <1>5, <1>6, <2>2, <2>5, <2>6 DEF d
  <1>8. CASE RestsAt(c, o) = {}
    <2>1. \A v \in Venues : ~Holds(d[v], o)
      <3> SUFFICES ASSUME NEW v \in Venues, NEW k \in d[v].resting, k.order = o PROVE FALSE
        BY DEF Holds
      <3>1. PICK m \in c[v].resting : k.order = m.order
        BY <1>8, QuotesAfter
      <3> QED BY <3>1 DEF Holds
    <2>2. Left(d, o) = 0
      BY <1>1, <2>1, LeftProps
    <2>3. Fate(o, D) = "RESTED" => Len(L) > 0
      <3> SUFFICES ASSUME Fate(o, D) = "RESTED" PROVE Len(L) > 0
        OBVIOUS
      <3>1. rest > 0 /\ MayRest(req[o])
        BY <1>4, <1>6
      <3>2. req[o].venue \in Visited(c, req[o])
        BY <1>8, <3>1 DEF RestsAt
      <3>3. D # {}
        BY <3>2, NothingMet
      <3>4. PICK x \in D : TRUE
        BY <3>3
      <3>5. PICK k \in 1 .. Len(L) : L[k] = x
        BY <1>3
      <3> QED BY <1>3, <3>5
    <2> HIDE DEF d, rest, D, L
    <2> QED BY <1>5, <2>2, <2>3 DEF d, D, L
  <1> QED BY <1>7, <1>8

\* The book is what the plan leaves.
LEMMA BookPlanned ==
    ASSUME ReqOK, CoreOK(Final), NEW o \in Orders, \A v \in Venues : ~Holds(Final[v], o)
    PROVE  LET L == ListOf(Final, o)
               d == OrderCore(Final, o)
           IN [p \in Orders |-> Left(d, p)] = Mkt!BookAfter(o, MakersIn(L), SumsIn(L), Left(d, o))
  <1> DEFINE c == Final
             d == OrderCore(c, o)
             D == DoneBy(c, o)
             L == ListOf(c, o)
             n == Len(L)
             mk == MakersIn(L)
             cum == SumsIn(L)
             at1(m) == CHOOSE i \in 1 .. n : mk[i] = m
  <1>1. CoreOK(d) /\ \A p \in Orders \ {o} : Left(d, p) + Total(Part(D, p)) = Left(c, p)
    BY OrderCoreProps DEF OrderOK
  <1>2. /\ n \in Nat /\ Len(mk) = n /\ D \in SUBSET Trades
        /\ \A i \in 1 .. n : /\ L[i] \in D /\ mk[i] = L[i].maker
                             /\ cum[i] - cum[i - 1] = L[i].qty /\ L[i].taker = o
        /\ \A x \in D : \E k \in 1 .. n : L[k] = x
    BY PlanList
  <1>3. \A i, j \in 1 .. n : mk[i] = mk[j] => i = j
    BY PlanHolds
  <1>4. \A p \in Orders : MarketOpen[p] = Left(c, p) /\ Left(c, p) \in Nat /\ Left(d, p) \in Nat
    BY <1>1, MarketSees, LeftType
  <1> HIDE DEF D, L, mk, cum, d
  <1>5. ASSUME NEW p \in Orders \ {o}
        PROVE  Left(d, p) = IF \E i \in 1 .. n : mk[i] = p
                            THEN MarketOpen[p] - (LET i == at1(p) IN cum[i] - cum[i - 1])
                            ELSE MarketOpen[p]
    <2>1. CASE \E i \in 1 .. n : mk[i] = p
      <3>1. PICK i \in 1 .. n : i = at1(p) /\ mk[i] = p
        BY <2>1
      <3>2. Part(D, p) = {L[i]}
        <4>1. L[i] \in Part(D, p)
          BY <1>2, <3>1 DEF Part
        <4>2. \A x \in Part(D, p) : x = L[i]
          <5> TAKE x \in Part(D, p)
          <5>1. PICK k \in 1 .. n : L[k] = x
            BY <1>2 DEF Part
          <5>2. mk[k] = p
            BY <1>2, <5>1 DEF Part
          <5>3. k = i
            BY <1>3, <3>1, <5>2
          <5> QED BY <5>1, <5>3
        <4> QED BY <4>1, <4>2
      <3>3. L[i].qty \in Nat
        BY <1>2 DEF Trades
      <3>4. Total(Part(D, p)) = L[i].qty
        BY <3>2, <3>3, TotalProps
      <3>5. Left(d, p) + L[i].qty = MarketOpen[p]
        BY <1>1, <1>4, <3>4
      <3>6. Left(d, p) = MarketOpen[p] - L[i].qty
        BY <1>4, <3>3, <3>5
      <3>7. cum[i] - cum[i - 1] = L[i].qty
        BY <1>2
      <3> QED BY <2>1, <3>1, <3>6, <3>7
    <2>2. CASE ~\E i \in 1 .. n : mk[i] = p
      <3>1. Part(D, p) = {}
        <4> SUFFICES ASSUME NEW x \in Part(D, p) PROVE FALSE
          OBVIOUS
        <4>1. PICK k \in 1 .. n : L[k] = x
          BY <1>2 DEF Part
        <4> QED BY <1>2, <2>2, <4>1 DEF Part
      <3>2. Total(Part(D, p)) = 0
        BY <3>1, TotalProps
      <3>3. Left(d, p) = MarketOpen[p]
        BY <1>1, <1>4, <3>2
      <3> QED BY <2>2, <3>3
    <2> QED BY <2>1, <2>2
  <1>6. Mkt!BookAfter(o, mk, cum, Left(d, o))
          = [p \in Orders |-> IF p = o THEN Left(d, o)
                              ELSE IF \E i \in 1 .. n : mk[i] = p
                                   THEN MarketOpen[p] - (LET i == at1(p) IN cum[i] - cum[i - 1])
                                   ELSE MarketOpen[p]]
    BY <1>2 DEF Mkt!BookAfter
  <1> HIDE DEF at1
  <1>7. [p \in Orders |-> Left(d, p)] = Mkt!BookAfter(o, mk, cum, Left(d, o))
    BY <1>5, <1>6
  <1> QED BY <1>7 DEF L, d, mk, cum

\* What each order has open in given books.
OpenOf(c) == [o \in Orders |-> Left(c, o)]

\* A cancel closes what the order has open, and says whether that was anything.
LEMMA CancelPlanned ==
    ASSUME NEW c \in Cores, CoreOK(c), NEW o \in Orders
    PROVE  /\ OpenOf(Withdrawn(c, o)) = [OpenOf(c) EXCEPT ![o] = 0]
           /\ (Home(c, o) # {}) = (OpenOf(c)[o] > 0)
  <1> DEFINE d == Withdrawn(c, o)
  <1>1. CoreOK(d) /\ \A p \in Orders : Left(c, p) \in Nat
    BY WithdrawnProps DEF CancelOK
  <1>2. \A v \in Venues : d[v].resting = {m \in c[v].resting : m.order # o}
    BY WithdrawnVenue
  <1> HIDE DEF d
  <1>3. \A p \in Orders : Left(d, p) = IF p = o THEN 0 ELSE Left(c, p)
    <2> TAKE p \in Orders
    <2>1. CASE p = o
      <3>1. \A v \in Venues : ~Holds(d[v], p)
        BY <1>2, <2>1 DEF Holds
      <3> QED BY <1>1, <2>1, <3>1, LeftProps
    <2>2. CASE p # o /\ \E v \in Venues : Holds(c[v], p)
      <3>1. PICK v \in Venues : Holds(c[v], p)
        BY <2>2
      <3>2. PICK m \in c[v].resting : m.order = p
        BY <3>1 DEF Holds
      <3>3. m \in d[v].resting
        BY <1>2, <2>2, <3>2
      <3>4. Left(c, p) = m.left
        BY <3>2, LeftProps
      <3>5. Left(d, p) = m.left
        BY <1>1, <3>2, <3>3, LeftProps
      <3> QED BY <2>2, <3>4, <3>5
    <2>3. CASE p # o /\ \A v \in Venues : ~Holds(c[v], p)
      <3>1. \A v \in Venues : ~Holds(d[v], p)
        BY <1>2, <2>3 DEF Holds
      <3> QED BY <1>1, <2>3, <3>1, LeftProps
    <2> QED BY <2>1, <2>2, <2>3
  <1>4. OpenOf(d) = [OpenOf(c) EXCEPT ![o] = 0]
    BY <1>3 DEF OpenOf
  <1>5. Home(c, o) # {} <=> Left(c, o) > 0
    <2>1. CASE \E v \in Venues : Holds(c[v], o)
      <3>1. PICK v \in Venues : Holds(c[v], o)
        BY <2>1
      <3>2. PICK m \in c[v].resting : m.order = o
        BY <3>1 DEF Holds
      <3>3. Left(c, o) = m.left
        BY <3>2, LeftProps
      <3>4. m.left \in Nat \ {0}
        BY DEF CoreOK, QuotesOK, Quote
      <3>5. Home(c, o) # {}
        BY <3>1 DEF Home
      <3> QED BY <3>3, <3>4, <3>5
    <2>2. CASE \A v \in Venues : ~Holds(c[v], o)
      <3>1. Left(c, o) = 0
        BY <2>2, LeftProps
      <3>2. Home(c, o) = {}
        BY <2>2 DEF Home
      <3> QED BY <3>1, <3>2
    <2> QED BY <2>1, <2>2
  <1>6. OpenOf(c)[o] = Left(c, o)
    BY DEF OpenOf
  <1> QED BY <1>4, <1>5, <1>6 DEF d

\* What the market sees, in other words.
LEMMA MarketVars ==
    /\ MarketOpen = OpenOf(Final)
    /\ MarketFills = FillsOf(fills)
    /\ MarketTaken = Cardinality(MetIn(inbound, Len(trace)))
    /\ MarketRepeats = Cardinality(NoHalves(outcomes)) - MarketTaken
    /\ Mkt!Boundaries = Ends(outcomes)
  <1>1. CoreAfter(Len(trace)) = Final
    BY DEF CoreAfter, CoreIn, Final
  <1>2. MarketOpen = OpenOf(Final)
    BY <1>1 DEF MarketOpen, OpenOf
  <1>3. MarketTaken = Cardinality(MetIn(inbound, Len(trace)))
    BY DEF MarketTaken, Met, MetIn
  <1>4. MarketRepeats = Cardinality(NoHalves(outcomes)) - MarketTaken
    BY DEF MarketRepeats, NoHalves
  <1>5. Mkt!Boundaries = Ends(outcomes)
    BY DEF Mkt!Boundaries, Ends
  <1>6. MarketFills = FillsOf(fills)
    BY DEF MarketFills, FillsOf
  <1> QED BY <1>2, <1>3, <1>4, <1>5, <1>6

\* And after a step.
LEMMA MarketVarsNext ==
    /\ MarketOpen' = OpenOf(CoreIn(trace', Len(trace')))
    /\ MarketFills' = FillsOf(fills')
    /\ MarketTaken' = Cardinality(MetIn(inbound', Len(trace')))
    /\ MarketRepeats' = Cardinality(NoHalves(outcomes')) - MarketTaken'
    /\ req' = req => MarketRequests' = MarketRequests
  <1>1. CoreAfter(Len(trace))' = CoreIn(trace', Len(trace'))
    BY DEF CoreAfter, CoreIn
  <1>2. MarketOpen' = OpenOf(CoreIn(trace', Len(trace')))
    BY <1>1 DEF MarketOpen, OpenOf
  <1>3. MarketTaken' = Cardinality(MetIn(inbound', Len(trace')))
    BY DEF MarketTaken, Met, MetIn
  <1>4. MarketRepeats' = Cardinality(NoHalves(outcomes')) - MarketTaken'
    BY DEF MarketRepeats, NoHalves
  <1>5. MarketFills' = FillsOf(fills')
    BY DEF MarketFills, FillsOf
  <1>6. req' = req => MarketRequests' = MarketRequests
    BY DEF MarketRequests
  <1> QED BY <1>2, <1>3, <1>4, <1>5, <1>6

\* While nothing is handled, the market stays as it is or accepts something.
LEMMA StillMarket ==
    ASSUME IInv, NoCopyAcrossRestart, [Next]_vars,
           trace' = trace, fills' = fills, outcomes' = outcomes
    PROVE  Mkt!Accepted \/ UNCHANGED Mkt!marketVars
  <1>1. ReqOK /\ LogOK /\ MarksOK /\ ShardOK
    BY DEF IInv
  <1>2. req' = req
    BY SameReq
  <1>3. /\ inbound' \in Seq(Records) /\ Len(inbound) <= Len(inbound')
        /\ \A i \in 1 .. Len(inbound) : inbound'[i] = inbound[i]
    BY <1>1, LogStep
  <1>4. Len(trace) \in Nat /\ Len(inbound) \in Nat /\ Len(trace) <= Len(inbound) /\ outbox \in Seq(Records)
    BY <1>1 DEF ShardOK, HistoryIn, LogOK, LogIn
  <1>5. \A i \in 1 .. Len(trace) : inbound'[i] = inbound[i]
    BY <1>3, <1>4
  <1>6. MetIn(inbound', Len(trace)) = MetIn(inbound, Len(trace))
    BY <1>5 DEF MetIn
  <1>7. /\ MarketOpen' = MarketOpen /\ MarketFills' = MarketFills /\ MarketTaken' = MarketTaken
        /\ MarketRequests' = MarketRequests
    BY <1>2, <1>6, MarketVars, MarketVarsNext DEF Final
  <1>8. MarketRepeats' = MarketRepeats
    BY <1>7, MarketVars, MarketVarsNext
  <1>9. CASE outbox' = outbox
    BY <1>7, <1>8, <1>9 DEF Mkt!marketVars
  <1>10. ASSUME NEW rec, outbox' = Append(outbox, rec)
         PROVE  Mkt!Accepted
    <2>1. Len(outbox') = Len(outbox) + 1 /\ SubSeq(outbox', 1, Len(outbox)) = outbox
      BY <1>4, <1>10, AppendProperties
    <2> QED BY <1>7, <1>8, <2>1 DEF Mkt!Accepted
  <1>11. ASSUME NEW o \in Orders, Enqueue(o) \/ EnqueueCancel(o)
         PROVE  outbox' = Append(outbox, Order(o)) \/ outbox' = Append(outbox, Cancel(o))
    BY <1>11 DEF Enqueue, EnqueueCancel
  <1>12. CASE \E o \in Orders : Enqueue(o) \/ EnqueueCancel(o)
    BY <1>10, <1>11, <1>12
  <1> QED BY <1>9, <1>12 DEF Next, vars, clientVars, Publish, PublishUnmarked, Handle, HandleFails,
                             Snapshot, Restart

\* Answers that are produced again are produced again.
LEMMA AgainMarket ==
    ASSUME IInv, RInv, NoCopyAcrossRestart, Handle, NEW rs, Handled(rs), ShardOK', MarksOK',
           at \in 1 .. Len(trace), trace' = trace, fills' = fills,
           (MarketRepeats <= EnoughRepeats)'
    PROVE  Mkt!Regenerate \/ UNCHANGED Mkt!marketVars
  <1>1. ReqOK /\ LogOK /\ ShardOK
    BY DEF IInv
  <1>2. req' = req /\ inbound' = inbound /\ outbox' = outbox
    BY DEF Handle, clientVars
  <1>3. /\ MarketOpen' = MarketOpen /\ MarketFills' = MarketFills /\ MarketTaken' = MarketTaken
        /\ MarketRequests' = MarketRequests
    BY <1>2, MarketVars, MarketVarsNext DEF Final
  <1>4. outcomes' = outcomes \o rs /\ outcomes' \in Seq(ToSet(outcomes')) /\ outcomes \in Seq(ToSet(outcomes))
    BY <1>1 DEF Handled, ShardOK, AnswersOK
  <1>5. (rs = <<>> \/ IsAnswer(rs)) /\ (rs # <<>> => Stands(outcomes, rs))
    BY <1>2, AnswersHandled
  <1>6. CASE rs = <<>>
    <2>1. outcomes' = outcomes
      BY <1>4, <1>6
    <2>2. MarketRepeats' = MarketRepeats
      BY <1>3, <2>1, MarketVars, MarketVarsNext
    <2> QED BY <1>2, <1>3, <2>1, <2>2 DEF Mkt!marketVars
  <1>7. CASE rs # <<>>
    <2>1. PICK k \in Ends(outcomes), m \in Ends(outcomes) : k < m /\ SubSeq(outcomes, k + 1, m) = rs
      BY <1>5, <1>7 DEF Stands
    <2>2. /\ Cardinality(NoHalves(outcomes)) \in Nat
          /\ Cardinality(NoHalves(outcomes \o rs)) = Cardinality(NoHalves(outcomes)) + 1
      <3>1. PICK S : S = ToSet(outcomes) \cup ToSet(rs)
        OBVIOUS
      <3>2. rs \in Seq(ToSet(rs)) /\ IsAnswer(rs)
        BY <1>5, <1>7 DEF IsAnswer
      <3>3. outcomes \in Seq(S) /\ rs \in Seq(S)
        BY <1>4, <3>1, <3>2
      <3>4. Len(outcomes) \in Ends(outcomes)
        BY DEF RInv, AnswersStand
      <3> QED BY <3>2, <3>3, <3>4, EndsMore
    <2>3. MarketTaken \in Nat
      <3>1. 0 <= Len(trace) /\ Len(trace) \in 0 .. Len(inbound)
        BY <1>1 DEF ShardOK, HistoryIn, LogOK, LogIn
      <3> QED BY <1>1, <3>1, MetRows, MarketVars DEF LogOK
    <2>4. MarketRepeats' = MarketRepeats + 1 /\ MarketRepeats < EnoughRepeats
      <3>1. MarketRepeats = Cardinality(NoHalves(outcomes)) - MarketTaken
        BY MarketVars
      <3>2. MarketRepeats' = Cardinality(NoHalves(outcomes \o rs)) - MarketTaken
        BY <1>3, <1>4, MarketVarsNext
      <3>3. MarketRepeats' <= EnoughRepeats /\ EnoughRepeats \in Nat
        BY DEF EnoughRepeats
      <3>4. MarketRepeats \in Int
        BY <2>2, <2>3, <3>1
      <3>5. MarketRepeats' = MarketRepeats + 1
        BY <2>2, <2>3, <3>1, <3>2
      <3> QED BY <3>3, <3>4, <3>5
    <2>5. \E i, j \in Mkt!Boundaries : i < j /\ outcomes' = outcomes \o SubSeq(outcomes, i + 1, j)
      BY <1>4, <2>1, MarketVars
    <2> QED BY <1>2, <1>3, <2>4, <2>5 DEF Mkt!Regenerate
  <1> QED BY <1>6, <1>7

\* The record is met for the first time where it stands.
NewlyMet(rs) ==
    /\ rs = AnswerIn(inbound, trace, fills', at) /\ outcomes' = outcomes \o rs
    /\ at = Len(trace) + 1 /\ at <= Len(inbound)
    /\ StepIn(inbound, at, Final) \in Cores /\ trace' = Append(trace, StepIn(inbound, at, Final))
    /\ fills' = IF FirstIn(inbound, at) THEN fills \o ListOf(Final, inbound[at].order) ELSE fills

\* What follows for the market, whatever the record is.
SeenAfter(rs) ==
    LET rec == inbound[at]
        met == MetIn(inbound, Len(trace))
    IN /\ rec \in Records /\ Final \in Cores /\ CoreOK(Final)
       /\ MarketOpen = OpenOf(Final) /\ MarketOpen' = OpenOf(StepIn(inbound, at, Final))
       /\ MarketFills' = FillsOf(fills') /\ MarketRequests' = MarketRequests /\ outbox' = outbox
       /\ rs = Answer(Final, rec, FirstIn(inbound, at), fills')
       /\ FirstIn(inbound, at) <=> rec.type = "ORDER" /\ rec \notin met
       /\ MarketTaken \in Nat /\ MarketRepeats \in Int
       /\ rec \in met => /\ MarketTaken' = MarketTaken
                         /\ \E q \in 1 .. MarketTaken : outbox[q] = rec
       /\ rec \notin met => /\ MarketTaken' = MarketTaken + 1 /\ MarketTaken < Len(outbox)
                            /\ outbox[MarketTaken + 1] = rec
       /\ rs = <<>> => outcomes' = outcomes /\ MarketRepeats' = MarketRepeats - (MarketTaken' - MarketTaken)
       /\ rs # <<>> => MarketRepeats' = MarketRepeats + 1 - (MarketTaken' - MarketTaken)

\* So it is, whatever the record is.
LEMMA SeenAfterProps ==
    ASSUME IInv, RInv, NoCopyAcrossRestart, Handle, NEW rs, NewlyMet(rs)
    PROVE  SeenAfter(rs)
  <1> DEFINE rec == inbound[at]
             T == Len(trace)
             met == MetIn(inbound, T)
  <1>1. ReqOK /\ LogOK /\ MarksOK /\ ShardOK
    BY DEF IInv
  <1>2. req' = req /\ inbound' = inbound /\ outbox' = outbox /\ at <= Len(inbound)
    BY DEF Handle, clientVars
  <1>3. /\ rec \in Records /\ inbound \in Seq(Records) /\ trace \in Seq(Cores) /\ T \in Nat
        /\ at = T + 1 /\ T < Len(inbound) /\ Len(inbound) \in Nat
        /\ HistoryIn(inbound, trace)
    BY <1>1, <1>2, ReaderStands DEF NewlyMet, ShardOK
  <1>4. Final \in Cores /\ CoreOK(Final)
    <2>1. T \in 0 .. T
      BY <1>3
    <2>2. CoreOK(CoreIn(trace, T))
      BY <1>3, <2>1 DEF HistoryIn
    <2>3. CoreIn(trace, T) \in Cores
      BY <1>3, <2>1, CoreLonger, CoreZero DEF CoreIn
    <2> QED BY <2>2, <2>3 DEF Final
  <1>5. /\ Len(trace') = T + 1 /\ CoreIn(trace', T + 1) = StepIn(inbound, at, Final)
    BY <1>3, CoreLonger DEF NewlyMet
  <1>6. /\ MarketOpen = OpenOf(Final) /\ MarketOpen' = OpenOf(StepIn(inbound, at, Final))
        /\ MarketFills' = FillsOf(fills') /\ MarketRequests' = MarketRequests
        /\ MarketTaken = Cardinality(met) /\ MarketTaken' = Cardinality(MetIn(inbound, T + 1))
    BY <1>2, <1>5, MarketVars, MarketVarsNext
  <1>7. at - 1 = T
    BY <1>3
  <1>8. rs = Answer(Final, rec, FirstIn(inbound, at), fills')
    BY <1>7 DEF NewlyMet, AnswerIn, Final
  <1>9. FirstIn(inbound, at) <=> rec.type = "ORDER" /\ rec \notin met
    BY <1>7 DEF FirstIn, MetIn
  <1>10. LET p == Cardinality(met)
         IN /\ p \in Nat /\ p <= Len(outbox)
            /\ rec \in met =>
                 /\ MetIn(inbound, T + 1) = met
                 /\ \E q \in 1 .. p : outbox[q] = rec
            /\ rec \notin met =>
                 /\ p < Len(outbox) /\ outbox[p + 1] = rec
                 /\ Cardinality(MetIn(inbound, T + 1)) = p + 1
    BY <1>1, <1>3, MetNext DEF LogOK
  <1>11. /\ MarketTaken \in Nat /\ MarketTaken' \in Nat
         /\ rec \in met => /\ MarketTaken' = MarketTaken
                           /\ \E q \in 1 .. MarketTaken : outbox[q] = rec
         /\ rec \notin met => /\ MarketTaken' = MarketTaken + 1 /\ MarketTaken < Len(outbox)
                              /\ outbox[MarketTaken + 1] = rec
    BY <1>6, <1>10
  <1>12. outcomes' = outcomes \o rs /\ outcomes \in Seq(ToSet(outcomes)) /\ Len(outcomes) \in Ends(outcomes)
    BY <1>1 DEF NewlyMet, ShardOK, AnswersOK, RInv, AnswersStand
  <1>13. rs = <<>> \/ IsAnswer(rs)
    <2>1. rec.order \in Orders
      BY <1>3, RecordProps
    <2>2. Len(ListOf(Final, rec.order)) \in Nat
      BY <1>1, <1>4, <2>1, ListOfProps
    <2> QED BY <1>8, <2>2, AnswerShape
  <1> DEFINE had == Cardinality(NoHalves(outcomes))
             has == Cardinality(NoHalves(outcomes'))
  <1>14. /\ rs = <<>> => outcomes' = outcomes
         /\ rs # <<>> => has = had + 1
         /\ had \in Nat
    <2>1. rs = <<>> => outcomes' = outcomes
      BY <1>12
    <2>2. had \in Nat
      <3>1. IsFiniteSet(1 .. Len(outcomes)) /\ NoHalves(outcomes) \in SUBSET (1 .. Len(outcomes))
        <4>1. DOMAIN outcomes = 1 .. Len(outcomes) /\ Len(outcomes) \in Nat
          BY <1>12
        <4> QED BY <4>1, FS_Interval DEF NoHalves
      <3> QED BY <3>1, FS_Subset, FS_CardinalityType
    <2>3. ASSUME rs # <<>> PROVE has = had + 1
      <3>1. PICK S : S = ToSet(outcomes) \cup ToSet(rs)
        OBVIOUS
      <3>2. rs \in Seq(ToSet(rs)) /\ IsAnswer(rs)
        BY <1>13, <2>3 DEF IsAnswer
      <3>3. outcomes \in Seq(S) /\ rs \in Seq(S)
        BY <1>12, <3>1, <3>2
      <3> QED BY <1>12, <3>2, <3>3, EndsMore
    <2> QED BY <2>1, <2>2, <2>3
  <1>15. MarketRepeats = had - MarketTaken /\ MarketRepeats' = has - MarketTaken'
    BY MarketVars, MarketVarsNext
  <1> HIDE DEF had, has
  <1>16. MarketRepeats \in Int
    BY <1>11, <1>14, <1>15
  <1>17. /\ rs = <<>> => outcomes' = outcomes /\ MarketRepeats' = MarketRepeats - (MarketTaken' - MarketTaken)
         /\ rs # <<>> => MarketRepeats' = MarketRepeats + 1 - (MarketTaken' - MarketTaken)
    <2>1. CASE rs = <<>>
      <3>1. has = had
        BY <1>14, <2>1 DEF had, has
      <3> QED BY <1>11, <1>14, <1>15, <2>1, <3>1
    <2>2. CASE rs # <<>>
      BY <1>11, <1>14, <1>15, <2>2
    <2> QED BY <2>1, <2>2
  <1> QED BY <1>2, <1>3, <1>4, <1>6, <1>8, <1>9, <1>11, <1>16, <1>17 DEF SeenAfter

\* A cancel, met for the first time or again.
LEMMA CancelMarket ==
    ASSUME NEW rs, outcomes \in Seq(ToSet(outcomes)), outcomes' = outcomes \o rs,
           fills' = IF FirstIn(inbound, at) THEN fills \o ListOf(Final, inbound[at].order) ELSE fills,
           SeenAfter(rs), inbound[at].type = "CANCEL", (MarketRepeats <= EnoughRepeats)'
    PROVE  Mkt!MarketNext
  <1> DEFINE rec == inbound[at]
             met == MetIn(inbound, Len(trace))
  <1>1. PICK o \in Orders : rec = Cancel(o) /\ rec.order = o
    BY RecordProps DEF SeenAfter
  <1>2. rs = <<Verdict(o, MarketOpen[o] > 0)>>
    <2>1. rs = <<Verdict(o, Home(Final, o) # {})>>
      BY <1>1 DEF SeenAfter, Answer
    <2> QED BY <2>1, CancelPlanned DEF SeenAfter
  <1>3. outcomes' = Append(outcomes, Verdict(o, MarketOpen[o] > 0))
    BY <1>2
  <1>4. MarketOpen' = [MarketOpen EXCEPT ![o] = 0]
    <2>1. StepIn(inbound, at, Final) = Withdrawn(Final, o)
      BY <1>1 DEF StepIn
    <2> QED BY <2>1, CancelPlanned DEF SeenAfter
  <1>5. MarketFills' = MarketFills
    <2>1. ~FirstIn(inbound, at)
      BY DEF FirstIn
    <2> QED BY <2>1, MarketVars DEF SeenAfter
  <1>6. rs # <<>>
    BY <1>2
  <1>7. rec = [type |-> "CANCEL", order |-> o]
    BY <1>1 DEF Cancel
  <1>8. Mkt!Verdict(o, MarketOpen[o] > 0) = Verdict(o, MarketOpen[o] > 0)
    BY DEF Mkt!Verdict, Verdict
  <1>9. CASE rec \in met
    <2>1. MarketTaken' = MarketTaken /\ \E q \in 1 .. MarketTaken : outbox[q] = rec
      BY <1>9 DEF SeenAfter
    <2>2. MarketRepeats' = MarketRepeats + 1 /\ MarketRepeats < EnoughRepeats
      <3>1. MarketRepeats \in Int /\ MarketTaken \in Nat
            /\ MarketRepeats' = MarketRepeats + 1 - (MarketTaken' - MarketTaken)
        BY <1>6 DEF SeenAfter
      <3>2. MarketRepeats' <= EnoughRepeats /\ EnoughRepeats \in Nat
        BY DEF EnoughRepeats
      <3> QED BY <2>1, <3>1, <3>2
    <2>3. Mkt!CancelAgain(o)
      BY <1>3, <1>4, <1>5, <1>7, <1>8, <2>1, <2>2 DEF Mkt!CancelAgain, SeenAfter
    <2> QED BY <2>3 DEF Mkt!MarketNext
  <1>10. CASE rec \notin met
    <2>1. MarketTaken' = MarketTaken + 1 /\ MarketTaken < Len(outbox) /\ outbox[MarketTaken + 1] = rec
      BY <1>10 DEF SeenAfter
    <2>2. MarketRepeats' = MarketRepeats
      <3>1. MarketRepeats \in Int /\ MarketTaken \in Nat
            /\ MarketRepeats' = MarketRepeats + 1 - (MarketTaken' - MarketTaken)
        BY <1>6 DEF SeenAfter
      <3> QED BY <2>1, <3>1
    <2>3. Mkt!CancelResting(o)
      BY <1>3, <1>4, <1>5, <1>7, <1>8, <2>1, <2>2 DEF Mkt!CancelResting, SeenAfter
    <2> QED BY <2>3 DEF Mkt!MarketNext
  <1> QED BY <1>9, <1>10

\* A copy of an order that was met.
LEMMA SkipMarket ==
    ASSUME NEW rs, outcomes' = outcomes \o rs,
           fills' = IF FirstIn(inbound, at) THEN fills \o ListOf(Final, inbound[at].order) ELSE fills,
           SeenAfter(rs), inbound[at].type = "ORDER", ~FirstIn(inbound, at)
    PROVE  UNCHANGED Mkt!marketVars
  <1>1. rs = <<>>
    BY DEF SeenAfter, Answer
  <1>2. MarketOpen' = MarketOpen
    BY DEF SeenAfter, StepIn
  <1>3. MarketFills' = MarketFills
    BY MarketVars DEF SeenAfter
  <1>4. MarketTaken' = MarketTaken /\ MarketTaken \in Nat /\ MarketRepeats \in Int
    BY DEF SeenAfter
  <1>5. outcomes' = outcomes /\ MarketRepeats' = MarketRepeats - (MarketTaken' - MarketTaken)
    BY <1>1 DEF SeenAfter
  <1>6. MarketRepeats' = MarketRepeats
    BY <1>4, <1>5
  <1> QED BY <1>2, <1>3, <1>4, <1>5, <1>6 DEF Mkt!marketVars, SeenAfter

\* An order that is met for the first time.
LEMMA OrderMarket ==
    ASSUME ReqOK, fills \in Seq(Trades), NEW rs, outcomes' = outcomes \o rs,
           outcomes \in Seq(ToSet(outcomes)),
           fills' = IF FirstIn(inbound, at) THEN fills \o ListOf(Final, inbound[at].order) ELSE fills,
           SeenAfter(rs), FirstIn(inbound, at), \A v \in Venues : ~Holds(Final[v], inbound[at].order),
           \A i, j \in 1 .. Len(fills') : Identity(fills'[i]) = Identity(fills'[j]) => i = j
    PROVE  Mkt!MarketNext
  <1> DEFINE rec == inbound[at]
             met == MetIn(inbound, Len(trace))
  <1>1. PICK o \in Orders : rec = Order(o) /\ rec.order = o
    BY RecordProps DEF SeenAfter
  <1> DEFINE L == ListOf(Final, o)
             n == Len(L)
             mk == MakersIn(L)
             cum == SumsIn(L)
             what == Fate(o, DoneBy(Final, o))
             d == OrderCore(Final, o)
             kept == Left(d, o)
  <1>2. CoreOK(Final) /\ \A v \in Venues : ~Holds(Final[v], o)
    BY <1>1 DEF SeenAfter
  <1>3. PICK known : known = fills' /\ known = fills \o L
    BY <1>1
  <1>4. \A i, j \in 1 .. Len(known) : Identity(known[i]) = Identity(known[j]) => i = j
    BY <1>3
  <1>5. rs = Append(HalvesIn(L, known), Disposition(o, what))
    BY <1>1, <1>3 DEF SeenAfter, Answer
  <1>6. rs = Mkt!Produced(o, mk, Mkt!Fate(o, cum[n]))
    BY <1>2, <1>3, <1>4, <1>5, RecordsPlanned
  <1>7. MarketFills' = MarketFills \o Mkt!PlannedFills(o, mk, cum)
    <2>1. MarketFills' = FillsOf(fills \o L)
      BY <1>3 DEF SeenAfter
    <2> QED BY <1>2, <2>1, FillsPlanned
  <1>8. MarketOpen' = Mkt!BookAfter(o, mk, cum, kept) /\ kept \in Mkt!MayKeep(o, n, cum[n])
    <2>1. StepIn(inbound, at, Final) = d
      BY <1>1 DEF StepIn, FirstIn
    <2>2. MarketOpen' = [p \in Orders |-> Left(d, p)]
      BY <2>1 DEF SeenAfter, OpenOf
    <2> QED BY <1>2, <2>2, BookPlanned, KeptPlanned
  <1>9. /\ n \in 0 .. Cardinality(Mkt!Available(o))
        /\ mk \in [1 .. n -> Mkt!Available(o)]
        /\ \A i, j \in 1 .. n : mk[i] = mk[j] => i = j
        /\ cum \in [0 .. n -> 0 .. MarketRequests[o].qty]
        /\ Mkt!Plan(o, mk, cum)
    BY <1>2, PlanHolds
  <1>10. rec = [type |-> "ORDER", order |-> o]
    BY <1>1 DEF Order
  <1>11. rs # <<>>
    <2>1. Len(rs) > 0
      <3>1. Len(L) \in Nat
        BY <1>2, ListOfProps
      <3>2. PICK k \in Nat : k = 2 * Len(L)
        BY <3>1
      <3>3. PICK h : h = HalvesIn(L, known)
        OBVIOUS
      <3>4. DOMAIN h = 1 .. k /\ h = [i \in 1 .. k |-> h[i]]
        BY <3>2, <3>3 DEF HalvesIn
      <3>5. PICK S : S = {h[i] : i \in 1 .. k}
        OBVIOUS
      <3>6. h \in Seq(S \cup {Disposition(o, what)})
        BY <3>2, <3>4, <3>5
      <3>7. Len(Append(h, Disposition(o, what))) = Len(h) + 1 /\ Len(h) \in Nat
        BY <3>6, AppendProperties
      <3> QED BY <1>5, <3>3, <3>7
    <2> QED BY <2>1
  <1>12. rec \notin met
    BY DEF SeenAfter
  <1>13. MarketTaken' = MarketTaken + 1 /\ MarketTaken < Len(outbox) /\ outbox[MarketTaken + 1] = rec
    BY <1>12 DEF SeenAfter
  <1>14. MarketRepeats' = MarketRepeats
    <2>1. MarketRepeats \in Int /\ MarketTaken \in Nat
          /\ MarketRepeats' = MarketRepeats + 1 - (MarketTaken' - MarketTaken)
      BY <1>11 DEF SeenAfter
    <2> QED BY <1>13, <2>1
  <1> HIDE DEF L, mk, cum, kept
  <1>15. Mkt!Execute(o, n, mk, cum)
    BY <1>6, <1>7, <1>8, <1>9 DEF Mkt!Execute
  <1>16. Mkt!Cardinality(Mkt!Available(o)) = Cardinality(Mkt!Available(o))
    BY DEF Mkt!Cardinality, Cardinality
  <1>17. MarketRequests' = MarketRequests /\ outbox' = outbox
    BY DEF SeenAfter
  <1> HIDE DEF n
  <1>18. Mkt!MatchOrder(o)
    BY <1>9, <1>10, <1>13, <1>14, <1>15, <1>16, <1>17 DEF Mkt!MatchOrder
  <1> QED BY <1>18 DEF Mkt!MarketNext

\* A record is handled as the market would, or nothing happens there.
LEMMA HandleMarket ==
    ASSUME ~ProduceFails, IInv, RInv, NoCopyAcrossRestart, NoCopyAcrossRestart', Handle,
           (MarketRepeats <= EnoughRepeats)'
    PROVE  Mkt!MarketNext \/ UNCHANGED Mkt!marketVars
  <1>1. ReqOK /\ LogOK /\ MarksOK /\ ShardOK
    BY DEF IInv
  <1>2. [Next]_vars
    BY DEF Next
  <1>3. ShardOK' /\ MarksOK'
    BY <1>2, IInvStep DEF IInv
  <1>4. PICK rs : Handled(rs)
    BY HandledStep
  <1>5. CASE at \in 1 .. Len(trace) /\ trace' = trace /\ fills' = fills
    BY <1>3, <1>4, <1>5, AgainMarket DEF Mkt!MarketNext
  <1>6. CASE NewlyMet(rs)
    <2>1. SeenAfter(rs)
      BY <1>6, SeenAfterProps
    <2>2. /\ outcomes \in Seq(ToSet(outcomes)) /\ outcomes' = outcomes \o rs /\ fills \in Seq(Trades)
          /\ fills' = IF FirstIn(inbound, at) THEN fills \o ListOf(Final, inbound[at].order) ELSE fills
      BY <1>1, <1>6 DEF ShardOK, AnswersOK, TradesIn, NewlyMet
    <2>3. inbound[at].type \in {"ORDER", "CANCEL"} /\ inbound[at].order \in Orders
          /\ (inbound[at].type = "ORDER" => inbound[at] = Order(inbound[at].order))
      BY <2>1, RecordProps DEF SeenAfter
    <2>4. CASE inbound[at].type = "CANCEL"
      BY <2>1, <2>2, <2>4, CancelMarket
    <2>5. CASE inbound[at].type = "ORDER" /\ ~FirstIn(inbound, at)
      BY <2>1, <2>2, <2>5, SkipMarket
    <2>6. CASE inbound[at].type = "ORDER" /\ FirstIn(inbound, at)
      <3>1. \A v \in Venues : ~Holds(Final[v], inbound[at].order)
        <4> SUFFICES ASSUME NEW v \in Venues, Holds(Final[v], inbound[at].order) PROVE FALSE
          OBVIOUS
        <4>1. Len(trace) \in Nat /\ at = Len(trace) + 1 /\ HistoryIn(inbound, trace)
          BY <1>1, <1>6 DEF NewlyMet, ShardOK, HistoryIn
        <4>2. Came(inbound, inbound[at].order, 1, Len(trace))
          <5>1. Len(trace) \in 0 .. Len(trace)
            BY <4>1
          <5> QED BY <2>3, <4>1, <5>1 DEF HistoryIn, Final
        <4>3. PICK j \in 1 .. at - 1 : inbound[j] = inbound[at]
          BY <2>3, <2>6, <4>1, <4>2 DEF Came
        <4> QED BY <2>6, <4>3 DEF FirstIn
      <3>2. \A i, j \in 1 .. Len(fills') : Identity(fills'[i]) = Identity(fills'[j]) => i = j
        BY <1>3 DEF ShardOK, TradesIn, Identity
      <3> QED BY <1>1, <2>1, <2>2, <2>6, <3>1, <3>2, OrderMarket
    <2> QED BY <2>3, <2>4, <2>5, <2>6
  <1> QED BY <1>4, <1>5, <1>6 DEF Handled, NewlyMet, Final

\* Every step is one of the market's, or none.
LEMMA MarketStep ==
    ASSUME ~ProduceFails, IInv, RInv, NoCopyAcrossRestart, NoCopyAcrossRestart', [Next]_vars,
           (MarketRepeats <= EnoughRepeats)'
    PROVE  [Mkt!MarketNext \/ Mkt!Accepted]_(Mkt!marketVars)
  <1>1. CASE Handle
    BY <1>1, HandleMarket
  <1>2. CASE trace' = trace /\ fills' = fills /\ outcomes' = outcomes
    BY <1>2, StillMarket
  <1>3. HandleFails => FALSE
    BY DEF HandleFails
  <1> QED BY <1>1, <1>2, <1>3 DEF Next, vars, shardVars, Enqueue, EnqueueCancel, Publish, PublishUnmarked,
                                  Snapshot, Restart

\* The market's beginning.
LEMMA MarketStart == Init => Mkt!MarketInit
  <1> SUFFICES ASSUME Init PROVE Mkt!MarketInit
    OBVIOUS
  <1>1. trace = <<>> /\ fills = <<>> /\ outcomes = <<>> /\ outbox = <<>> /\ inbound = <<>>
        /\ req \in [Orders -> Requests] /\ Len(trace) = 0
    BY DEF Init
  <1>2. MarketTaken = 0
    <2>1. MetIn(inbound, 0) = {}
      BY DEF MetIn
    <2> QED BY <1>1, <2>1, FS_EmptySet, MarketVars
  <1>3. MarketRepeats = 0
    <2>1. NoHalves(outcomes) = {}
      BY <1>1 DEF NoHalves
    <2> QED BY <1>2, <2>1, FS_EmptySet, MarketVars
  <1>4. MarketOpen = [o \in Orders |-> 0]
    <2>1. Final = CoreIn(<<>>, 0)
      BY <1>1 DEF Final
    <2> QED BY <2>1, CoreZero, MarketVars DEF OpenOf
  <1>5. MarketFills = <<>>
    BY <1>1 DEF MarketFills
  <1>6. MarketRequests \in [Orders -> {Terms(r) : r \in Requests}]
    BY <1>1 DEF MarketRequests
  <1> QED BY <1>1, <1>2, <1>3, <1>4, <1>5, <1>6 DEF Mkt!MarketInit

-----------------------------------------------------------------------------
(* The theorems. *)

\* Whatever fails and however often the shard starts again, the relay keeps
\* the log in the order of the outbox: rows are produced in order, a row is
\* produced again only until its batch is marked, and between two copies of it
\* there are only rows of one batch (relay.go, PumpOnce).
THEOREM LogKept == Spec => []LogOK
  <1>1. LogOK /\ [Next]_vars => LogOK'
    BY LogStep
  <1> QED BY LogInit, <1>1, PTL DEF Spec

\* What the rest follows from: as long as produces succeed, the books are those
\* of the history, which says what was executed (matching.go, partitionState).
THEOREM ShardHolds ==
    ASSUME ~ProduceFails
    PROVE  Spec => []IInv
  <1>1. IInv /\ [Next]_vars => IInv'
    BY IInvStep
  <1> QED BY IInvInit, <1>1, PTL DEF Spec

\* However often batches are published again and the shard is restarted, the
\* properties below hold together, until a copy of an order arrives on the
\* other side of a restart (matching.go, Recover).
THEOREM ShardSound ==
    ASSUME ~ProduceFails
    PROVE  Spec => []SoundAcrossRestarts
  <1>1. IInv => SoundAcrossRestarts
    BY IInvSound
  <1> QED BY ShardHolds, <1>1, PTL

\* No two resting orders, on whatever venues, could trade with each other: the
\* router asks every venue before anything rests (router.go, route).
THEOREM BooksUncrossed ==
    ASSUME ~ProduceFails
    PROVE  Spec => [](NoCopyAcrossRestart => NeverCrossed)
  <1>1. SoundAcrossRestarts => (NoCopyAcrossRestart => NeverCrossed)
    BY DEF SoundAcrossRestarts
  <1> QED BY ShardSound, <1>1, PTL

\* What is executed of an order over all slices, copies and replays, and what
\* rests of it, are within its size (matching.go, onOrder).
THEOREM NeverOverfilled ==
    ASSUME ~ProduceFails
    PROVE  Spec => [](NoCopyAcrossRestart => ExecutedWithinSize)
  <1>1. SoundAcrossRestarts => (NoCopyAcrossRestart => ExecutedWithinSize)
    BY DEF SoundAcrossRestarts
  <1> QED BY ShardSound, <1>1, PTL

\* No execution is given the identity of another, which is what the ledger
\* recognises a replayed fill by (ids.go, FillID).
THEOREM FillsNamedOnce ==
    ASSUME ~ProduceFails
    PROVE  Spec => [](NoCopyAcrossRestart => SameFill)
  <1>1. SoundAcrossRestarts => (NoCopyAcrossRestart => SameFill)
    BY DEF SoundAcrossRestarts
  <1> QED BY ShardSound, <1>1, PTL

\* A snapshot and the tail of the log give the books that were there, with
\* their queues and counters (matching.go, Recover and loadSnapshot).
THEOREM RecoveryRebuilds ==
    ASSUME ~ProduceFails
    PROVE  Spec => [](NoCopyAcrossRestart => ReplayRebuilds)
  <1>1. SoundAcrossRestarts => (NoCopyAcrossRestart => ReplayRebuilds)
    BY DEF SoundAcrossRestarts
  <1> QED BY ShardSound, <1>1, PTL

\* An order whose cancel was answered is in no book again, though its rows may
\* be published again after that (matching.go, onCancel).
THEOREM CancelledStaysOut ==
    ASSUME ~ProduceFails
    PROVE  Spec => [](NoCopyAcrossRestart => CancelIsFinal)
  <1>1. SoundAcrossRestarts => (NoCopyAcrossRestart => CancelIsFinal)
    BY DEF SoundAcrossRestarts
  <1> QED BY ShardSound, <1>1, PTL

\* Price and time: whoever an incoming order trades with was first in line.  No
\* quote that rests afterwards was at a better price on any venue, and none at
\* that price on that venue came before (book.go, Add, and router.go, route).
THEOREM PriorityKept ==
    ASSUME ~ProduceFails
    PROVE  Spec /\ []NoCopyAcrossRestart => PriceTimePriority
  <1>0. IInv /\ [Next]_vars => IInv'
    BY IInvStep
  <1>1. IInv /\ QInv /\ [Next]_vars => QInv'
    BY QInvStep
  <1>2. IInv /\ QInv /\ NoCopyAcrossRestart /\ [Next]_vars =>
          [\A i \in Len(fills) + 1 .. Len(fills') :
             LET x == fills'[i]
                 side == req[x.taker].side
             IN \A v \in Venues : \A m \in books'[v].resting :
                  m.side # side /\ m.order # x.maker =>
                    /\ ~Better(side, m.price, x.price)
                    /\ v = x.venue /\ m.price = x.price => Arrived(x.maker) < Arrived(m.order)]_vars
    BY PriorityStep
  <1> QED BY <1>0, <1>1, <1>2, QInvInit, IInvInit, PTL DEF Spec, PriceTimePriority

\* The shard implements the market the trading core relies on: whatever is
\* published or handled again and however often the shard is restarted, every
\* step is a step of the market or none, as long as answers are not repeated
\* more often than the market allows (matching.go, onOrder and onCancel).
THEOREM MarketImplemented ==
    ASSUME ~ProduceFails
    PROVE  Spec /\ []NoCopyAcrossRestart /\ [](MarketRepeats <= EnoughRepeats) => ImplementsMarket
  <1> DEFINE few == MarketRepeats <= EnoughRepeats
  <1>1. Init => IInv /\ RInv /\ Mkt!MarketInit
    BY IInvInit, RInvInit, MarketStart
  <1>2. IInv /\ RInv /\ [Next]_vars => IInv' /\ RInv'
    BY IInvStep, RInvStep
  <1>3. IInv /\ RInv /\ NoCopyAcrossRestart /\ NoCopyAcrossRestart' /\ [Next]_vars /\ few'
          => [Mkt!MarketNext \/ Mkt!Accepted]_(Mkt!marketVars)
    BY MarketStep
  <1> HIDE DEF few
  <1>4. Spec /\ []NoCopyAcrossRestart /\ []few => ImplementsMarket
    BY <1>1, <1>2, <1>3, PTL DEF Spec, ImplementsMarket, Mkt!MarketSpec
  <1> QED BY <1>4 DEF few
=============================================================================
