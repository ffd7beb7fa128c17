---------------------------- MODULE Ledger_proofs ----------------------------
(***************************************************************************)
(* The ledgers, for every set of accounts, fills, terms and fees, any      *)
(* number of checkpointers and every interleaving of deposits, openings,   *)
(* half-fills, checkpoints and checks of the model.  What a sequence of    *)
(* transactions leads to is one function of it (After), and the inductive  *)
(* invariant ties everything to the ledger: the balance and the position,  *)
(* the checkpoints, what checkpointers carry, the halves that settled.     *)
(* From it: recovery is exact, cost bases are, and what the checks and the *)
(* cluster's reconciler say of the ledgers is the truth.                   *)
(***************************************************************************)
EXTENDS Reconciler, Money_proofs, SequenceTheorems

-----------------------------------------------------------------------------
(* Replay, transaction by transaction. *)

\* What an account is after each of a sequence of transactions.
Replays(h, s, seq) == h[0] = s /\ \A k \in 1 .. Len(seq) : h[k] = ApplyTxn(h[k - 1], seq[k])

\* A set of places has a last one.
LEMMA LastPlace ==
    ASSUME NEW n \in Nat, NEW t \in SUBSET (1 .. n), t # {}
    PROVE  Max(t) \in t /\ \A y \in t : Max(t) >= y
  <1>1. PICK T : T = {n - x : x \in t}
    OBVIOUS
  <1>2. T \in SUBSET Nat /\ T # {}
    <2>1. \A x \in t : x \in 1 .. n
      OBVIOUS
    <2>2. \A x \in t : n - x \in Nat
      BY <2>1
    <2> QED BY <1>1, <2>2
  <1>3. PICK z \in T : \A y \in T : z <= y
    BY <1>2, LeastNat
  <1>4. PICK x \in t : z = n - x
    BY <1>1, <1>3
  <1>5. \A y \in t : x >= y
    <2> SUFFICES ASSUME NEW y \in t PROVE x >= y
      OBVIOUS
    <2>1. n - y \in T
      BY <1>1
    <2>2. x \in Nat /\ y \in Nat
      OBVIOUS
    <2> QED BY <1>3, <1>4, <2>1, <2>2
  <1> QED BY <1>5 DEF Max

\* The recursion of the fold: the last transaction of a set of them is applied last.
Folds(g, s, seq) ==
    g = [t \in SUBSET DOMAIN seq |->
           IF t = {} THEN s ELSE ApplyTxn(g[t \ {Max(t)}], seq[Max(t)])]

\* There is such a function.
LEMMA FoldsExists ==
    ASSUME NEW T, NEW seq \in Seq(T), NEW s
    PROVE  \E g : Folds(g, s, seq)
  <1> DEFINE S == 1 .. Len(seq)
             Body(g, t) == IF t = {} THEN s ELSE ApplyTxn(g[t \ {Max(t)}], seq[Max(t)])
             UpTo(g, n) == \A t \in SUBSET S : Cardinality(t) <= n => g[t] = Body(g, t)
             M == {n \in Nat : \E g : UpTo(g, n)}
  <1>0. DOMAIN seq = S /\ Len(seq) \in Nat /\ IsFiniteSet(S)
    <2>1. Len(seq) \in Nat /\ 1 \in Int /\ Len(seq) \in Int
      OBVIOUS
    <2> QED BY <2>1, FS_Interval
  <1> HIDE DEF S
  <1>a. \A t \in SUBSET S : t # {} => Max(t) \in t
    BY <1>0, LastPlace DEF S
  <1>1. 0 \in M
    <2>1. UpTo([t \in SUBSET S |-> s], 0)
      BY <1>0, Smaller
    <2> QED BY <2>1
  <1>2. ASSUME NEW n \in M
        PROVE  n + 1 \in M
    <2>1. PICK g : UpTo(g, n)
      OBVIOUS
    <2> DEFINE h == [t \in SUBSET S |-> IF Cardinality(t) <= n THEN g[t] ELSE Body(g, t)]
    <2>2. ASSUME NEW t \in SUBSET S, Cardinality(t) <= n + 1
          PROVE  h[t] = Body(h, t)
      <3>1. CASE t = {}
        <4>1. Cardinality(t) <= n
          BY <1>0, <3>1, Smaller
        <4>2. h[t] = g[t]
          BY <4>1
        <4> QED BY <3>1, <4>1, <4>2, <2>1
      <3>2. CASE t # {}
        <4>1. Max(t) \in t
          BY <1>a, <3>2
        <4>2. Cardinality(t \ {Max(t)}) <= n
          BY <1>0, <2>2, <4>1, Smaller
        <4>3. h[t \ {Max(t)}] = g[t \ {Max(t)}]
          BY <4>2
        <4>4. Body(h, t) = Body(g, t)
          BY <4>3
        <4>5. h[t] = Body(g, t)
          BY <2>1
        <4> QED BY <4>4, <4>5
      <3> QED BY <3>1, <3>2
    <2> HIDE DEF h, Body
    <2>3. UpTo(h, n + 1)
      BY <2>2
    <2> QED BY <2>3
  <1> HIDE DEF Body
  <1>3. Cardinality(S) \in M
    <2> HIDE DEF M
    <2>1. M \in SUBSET Nat
      BY DEF M
    <2>2. M = Nat
      BY <1>1, <1>2, <2>1, Induct
    <2> QED BY <1>0, <2>2, FS_CardinalityType
  <1>4. PICK g : UpTo(g, Cardinality(S))
    BY <1>3
  <1>5. \A t \in SUBSET S : g[t] = Body(g, t)
    BY <1>0, <1>4, Smaller
  <1> DEFINE h == [t \in SUBSET S |-> g[t]]
  <1>6. \A t \in SUBSET S : Body(h, t) = Body(g, t)
    BY <1>a DEF Body
  <1>7. h = [t \in SUBSET S |-> Body(h, t)]
    BY <1>5, <1>6
  <1>8. Folds(h, s, seq)
    BY <1>0, <1>7 DEF Folds, Body
  <1> QED BY <1>8

\* A replay is what is left after the last transaction.
LEMMA ReplayFolds ==
    ASSUME NEW T, NEW seq \in Seq(T), NEW s
    PROVE  \E h : Replays(h, s, seq) /\ FoldLeft(ApplyTxn, s, seq) = h[Len(seq)]
  <1> DEFINE g == CHOOSE g : Folds(g, s, seq)
             h == [k \in 0 .. Len(seq) |-> g[1 .. k]]
  <1>1. Folds(g, s, seq)
    BY FoldsExists
  <1>2. FoldLeft(ApplyTxn, s, seq) = g[DOMAIN seq]
    BY DEF FoldLeft, MapThenFoldSet, Folds
  <1> HIDE DEF g
  <1>3. Len(seq) \in Nat /\ DOMAIN seq = 1 .. Len(seq)
    OBVIOUS
  <1>4. h[0] = s
    <2>1. 1 .. 0 = {} /\ {} \in SUBSET DOMAIN seq
      OBVIOUS
    <2>2. g[{}] = s
      BY <1>1, <2>1 DEF Folds
    <2> QED BY <1>3, <2>1, <2>2
  <1>5. ASSUME NEW k \in 1 .. Len(seq)
        PROVE  h[k] = ApplyTxn(h[k - 1], seq[k])
    <2>0. k \in Nat \ {0} /\ k <= Len(seq)
      BY <1>3
    <2>1. 1 .. k \in SUBSET DOMAIN seq /\ 1 .. k # {} /\ k \in 1 .. k
      <3>1. k \in 1 .. k /\ \A i \in 1 .. k : i \in 1 .. Len(seq)
        BY <1>3, <2>0
      <3> QED BY <1>3, <3>1
    <2>2. Max(1 .. k) = k
      <3>1. 1 .. k \in SUBSET (1 .. k)
        OBVIOUS
      <3>2. Max(1 .. k) \in 1 .. k /\ \A y \in 1 .. k : Max(1 .. k) >= y
        BY <2>0, <2>1, <3>1, LastPlace
      <3> QED BY <2>1, <3>2
    <2>3. (1 .. k) \ {k} = 1 .. k - 1
      OBVIOUS
    <2>4. g[1 .. k] = ApplyTxn(g[(1 .. k) \ {Max(1 .. k)}], seq[Max(1 .. k)])
      BY <1>1, <2>1 DEF Folds
    <2>5. k - 1 \in 0 .. Len(seq) /\ k \in 0 .. Len(seq)
      BY <1>3
    <2> QED BY <2>2, <2>3, <2>4, <2>5
  <1>6. h[Len(seq)] = g[DOMAIN seq]
    BY <1>3
  <1> HIDE DEF h
  <1> QED BY <1>2, <1>4, <1>5, <1>6 DEF Replays

-----------------------------------------------------------------------------
(* What a transaction writes. *)

Kinds     == MoneyKinds \union ShareKinds
Legs      == [Kinds -> Int]
Txns      == [half : Halves \union {NoHalf}, legs : Legs]
Positions == [qty : Int, basis : Int, realized : Int]
FillTerms == [taker : Accounts, maker : Accounts, qty : Nat \ {0}, price : Nat \ {0},
              takerBuys : BOOLEAN]

LedgerTypes ==
    /\ fill \in [Fills -> FillTerms \union {NoFill}]
    /\ txns \in [Accounts -> Seq(Txns)]
    /\ balance \in [Accounts -> [cash : Int, fees : Int]]
    /\ position \in [Accounts -> Positions]
    /\ settled \in Seq(Halves)

\* Kind by kind, what the legs of a transaction come to.
Amounts(legs, cash, fees, clearing, external, shares, sharesCleared, sharesOutside) ==
    /\ legs \in Legs
    /\ legs["CASH"] = cash /\ legs["FEES"] = fees
    /\ legs["CLEARING"] = clearing /\ legs["EXTERNAL"] = external
    /\ legs["POSITION"] = shares /\ legs["SHARE_CLEARING"] = sharesCleared
    /\ legs["SHARE_EXTERNAL"] = sharesOutside

\* The position a transaction leaves, which the replay works out from its legs.
PositionAfter(p, legs) ==
    IF legs["POSITION"] = 0 THEN p ELSE Moved(p, legs["POSITION"], legs["CASH"])

\* One transaction on one account, for a half of a fill or for none.
Enters(a, half, legs) ==
    /\ half \in Halves \union {NoHalf} /\ legs \in Legs
    /\ WriteTxn(a, half, legs)
    /\ position' = [position EXCEPT ![a] = PositionAfter(@, legs)]

\* The legs of a deposit.
LEMMA DepositAmounts ==
    ASSUME NEW amount \in Int
    PROVE  Amounts(DepositLegs(amount), amount, 0, 0, -amount, 0, 0, 0)
  BY DEF Amounts, DepositLegs, NoLegs, Legs, Kinds, MoneyKinds, ShareKinds

\* The legs of shares brought in at a cost.
LEMMA SeedAmounts ==
    ASSUME NEW qty \in Int, NEW cost \in Int
    PROVE  Amounts(SeedLegs(qty, cost), -cost, 0, 0, cost, qty, 0, -qty)
  BY DEF Amounts, SeedLegs, NoLegs, Legs, Kinds, MoneyKinds, ShareKinds

\* The legs of a half of a fill.
LEMMA HalfAmounts ==
    ASSUME NEW qty \in Int, NEW notional \in Int, NEW fee \in Int
    PROVE  /\ Amounts(HalfFillLegs(1, qty, notional, fee),
                      -notional - fee, fee, notional, 0, qty, -qty, 0)
           /\ Amounts(HalfFillLegs(-1, qty, notional, fee),
                      notional - fee, fee, -notional, 0, -qty, qty, 0)
  <1>1. ASSUME NEW sign \in {1, -1}
        PROVE  Amounts(HalfFillLegs(sign, qty, notional, fee),
                       -sign * notional - fee, fee, sign * notional, 0,
                       sign * qty, -sign * qty, 0)
    <2>1. /\ -sign * notional - fee \in Int /\ sign * notional \in Int
          /\ sign * qty \in Int /\ -sign * qty \in Int
      BY <1>1
    <2> QED BY <2>1 DEF Amounts, HalfFillLegs, NoLegs, Legs, Kinds, MoneyKinds, ShareKinds
  <1>2. /\ -1 * notional - fee = -notional - fee /\ 1 * notional = notional
        /\ 1 * qty = qty /\ -1 * qty = -qty
        /\ -(-1) * notional - fee = notional - fee /\ -(-1) * qty = qty
    OBVIOUS
  <1> QED BY <1>1, <1>2

\* A half of a fill that was made is for one of its two accounts, at an amount that
\* covers its fee.
LEMMA HalfType ==
    ASSUME LedgerTypes, NEW h \in Halves, fill[h[1]] # NoFill
    PROVE  /\ h[1] \in Fills /\ h[2] \in Roles /\ fill[h[1]] \in FillTerms
           /\ Owner(h) \in Accounts /\ Owner(h) \in {fill[h[1]].taker, fill[h[1]].maker}
           /\ Buys(h) \in BOOLEAN
           /\ NotionalOf(h) \in Nat /\ FeeOf(h, NotionalOf(h)) \in Nat
           /\ FeeOf(h, NotionalOf(h)) <= NotionalOf(h)
           /\ CostOf(h) \in Nat /\ ProceedsOf(h) \in Nat
  <1>1. h[1] \in Fills /\ h[2] \in Roles /\ fill[h[1]] \in FillTerms
    BY DEF Halves, LedgerTypes
  <1>2. Owner(h) \in {fill[h[1]].taker, fill[h[1]].maker} /\ Owner(h) \in Accounts
    BY <1>1 DEF Owner, FillTerms
  <1>3. NotionalOf(h) \in Nat
    BY <1>1, NotionalBound DEF NotionalOf, FillTerms
  <1>4. ASSUME NEW bps \in {TakerFeeBps, MakerFeeBps}
        PROVE  FeeBps(NotionalOf(h), bps) \in Nat /\ FeeBps(NotionalOf(h), bps) <= NotionalOf(h)
    <2>1. bps \in Nat /\ bps <= BpsScale
      BY LedgerAssumption, MoneyAssumption DEF LedgerAssumption, MoneyAssumption
    <2>2. PICK n : n = NotionalOf(h)
      OBVIOUS
    <2>3. /\ FeeBps(0 + n, bps) - FeeBps(0, bps) <= n
          /\ FeeBps(0 + n, bps) \in Nat /\ FeeBps(0, bps) \in Nat
      <3>1. n \in Nat /\ 0 \in Nat /\ 0 + n \in Nat /\ bps \in Nat
        BY <1>3, <2>1, <2>2
      <3>2. FeeBps(0 + n, bps) - FeeBps(0, bps) <= n
        BY <2>1, <3>1, FeeDelta
      <3> QED BY <3>1, <3>2, FeeType
    <2>4. FeeBps(0, bps) = 0
      BY <2>1, MoneyAssumption DEF FeeBps, CeilDiv, MoneyAssumption
    <2> QED BY <1>3, <2>2, <2>3, <2>4
  <1>5. FeeOf(h, NotionalOf(h)) \in Nat /\ FeeOf(h, NotionalOf(h)) <= NotionalOf(h)
    BY <1>4 DEF FeeOf
  <1> QED BY <1>1, <1>2, <1>3, <1>5 DEF Buys, CostOf, ProceedsOf

\* What a sale takes out of the basis is an amount, and never more than there is:
\* a product that wraps around takes out less, or nothing.
LEMMA CostOutType ==
    ASSUME NEW p \in Positions, NEW qty \in Nat
    PROVE  /\ CostOut(p, qty) \in Int
           /\ p.basis >= 0 => CostOut(p, qty) <= p.basis
           /\ p.qty > 0 /\ qty = p.qty => CostOut(p, qty) = p.basis
  <1>1. PICK b, q : b = p.basis /\ q = p.qty
    OBVIOUS
  <1>2. b \in Int /\ q \in Int
    BY <1>1 DEF Positions
  <1>3. CASE q <= 0 \/ qty >= q
    BY <1>1, <1>2, <1>3 DEF CostOut
  <1>4. CASE q > 0 /\ qty < q
    <2>1. PICK n, m : n = b * qty /\ m = Wrap(n)
      OBVIOUS
    <2>2. n \in Int /\ (b >= 0 => n >= 0)
      BY <1>2, <2>1
    <2>3. m \in Int /\ (n >= 0 => m <= n)
      <3>1. PICK w : w = Word
        OBVIOUS
      <3>2. w \in Nat \ {0}
        BY <3>1, LedgerAssumption DEF LedgerAssumption
      <3>3. w \div 2 \in Nat
        BY <3>2
      <3>4. PICK k : k = n + w \div 2
        OBVIOUS
      <3>5. k % w \in Int /\ (k >= 0 => k % w <= k) /\ k \in Int
        BY <2>2, <3>2, <3>3, <3>4
      <3>6. m = (k % w) - w \div 2
        BY <2>1, <3>1, <3>4 DEF Wrap
      <3> QED BY <2>2, <3>3, <3>4, <3>5, <3>6
    <2>4. Quot(m, q) \in Int /\ (b >= 0 => Quot(m, q) <= b)
      <3>1. q \in Nat \ {0}
        BY <1>2, <1>4
      <3>2. CASE m < 0
        <4>1. (-m) \div q \in Nat
          BY <2>3, <3>1, <3>2
        <4> QED BY <1>2, <3>2, <4>1 DEF Quot
      <3>3. CASE m >= 0
        <4>1. m \div q \in Int
          BY <2>3, <3>1, Floor
        <4>2. ASSUME b >= 0
              PROVE  m \div q <= b
          <5>1. m <= b * q
            <6>1. qty \in Nat /\ q \in Nat /\ b \in Nat /\ qty <= q
              BY <1>2, <1>4, <3>1, <4>2
            <6>2. b * qty <= b * q /\ b * q \in Nat
              BY <6>1
            <6> QED BY <2>1, <2>2, <2>3, <4>2, <6>2
          <5>2. m \div q <= (0 + b * q) \div q
            <6>1. m \in Int /\ 0 + b * q \in Int /\ m <= 0 + b * q
              BY <1>2, <2>3, <3>1, <5>1
            <6> QED BY <3>1, <6>1, FloorMonotone
          <5>3. (0 + b * q) \div q = (0 \div q) + b
            BY <1>2, <3>1, FloorShift
          <5>4. 0 \div q = 0
            BY <3>1
          <5> QED BY <1>2, <5>2, <5>3, <5>4
        <4>3. Quot(m, q) = m \div q
          BY <3>3, <2>3 DEF Quot
        <4> QED BY <4>1, <4>2, <4>3
      <3> QED BY <2>3, <3>2, <3>3
    <2>5. CostOut(p, qty) = Quot(m, q)
      BY <1>1, <1>2, <1>4, <2>1 DEF CostOut
    <2> QED BY <1>1, <1>4, <2>4, <2>5
  <1> QED BY <1>2, <1>3, <1>4

\* The position a transaction leaves is one.
LEMMA PositionAfterType ==
    ASSUME NEW p \in Positions, NEW legs \in Legs
    PROVE  PositionAfter(p, legs) \in Positions
  <1>1. legs["POSITION"] \in Int /\ legs["CASH"] \in Int
    BY DEF Legs, Kinds, MoneyKinds, ShareKinds
  <1>2. PICK n, c : n = legs["POSITION"] /\ c = legs["CASH"]
    OBVIOUS
  <1>3. CASE n >= 0
    <2>1. ApplyBuy(p, n, -c) \in Positions
      BY <1>1, <1>2 DEF ApplyBuy, Positions
    <2> QED BY <1>2, <1>3, <2>1 DEF PositionAfter, Moved
  <1>4. CASE ~(n >= 0)
    <2>1. -n \in Nat
      BY <1>1, <1>2, <1>4
    <2>2. CostOut(p, -n) \in Int
      BY <2>1, CostOutType
    <2>3. ApplySell(p, -n, c) \in Positions
      BY <1>1, <1>2, <2>1, <2>2 DEF ApplySell, Positions
    <2> QED BY <1>2, <1>4, <2>3 DEF PositionAfter, Moved
  <1> QED BY <1>3, <1>4

\* What a transaction changes, and what it leaves alone.
LEMMA Entered ==
    ASSUME LedgerTypes, NEW a \in Accounts, NEW half, NEW legs, Enters(a, half, legs)
    PROVE  /\ txns' \in [Accounts -> Seq(Txns)]
           /\ balance' \in [Accounts -> [cash : Int, fees : Int]]
           /\ position' \in [Accounts -> Positions]
           /\ Txn(half, legs) \in Txns /\ txns'[a] = Append(txns[a], Txn(half, legs))
           /\ balance'[a].cash = balance[a].cash + legs["CASH"]
           /\ balance'[a].fees = balance[a].fees + legs["FEES"]
           /\ position'[a] = PositionAfter(position[a], legs)
           /\ \A b \in Accounts \ {a} : /\ txns'[b] = txns[b] /\ balance'[b] = balance[b]
                                        /\ position'[b] = position[b]
  <1>1. legs["CASH"] \in Int /\ legs["FEES"] \in Int
    BY DEF Enters, Legs, Kinds, MoneyKinds
  <1>2. Txn(half, legs) \in Txns
    BY DEF Enters, Txn, Txns
  <1>3. /\ txns' = [txns EXCEPT ![a] = Append(@, Txn(half, legs))]
        /\ balance' = [balance EXCEPT ![a] = [cash |-> @.cash + legs["CASH"],
                                              fees |-> @.fees + legs["FEES"]]]
        /\ position' = [position EXCEPT ![a] = PositionAfter(@, legs)]
    BY DEF Enters, WriteTxn
  <1>4. PositionAfter(position[a], legs) \in Positions
    BY PositionAfterType DEF LedgerTypes, Enters
  <1>5. position' \in [Accounts -> Positions] /\ position'[a] = PositionAfter(position[a], legs)
        /\ \A b \in Accounts \ {a} : position'[b] = position[b]
    BY <1>3, <1>4 DEF LedgerTypes
  <1>6. txns' \in [Accounts -> Seq(Txns)] /\ txns'[a] = Append(txns[a], Txn(half, legs))
        /\ \A b \in Accounts \ {a} : txns'[b] = txns[b]
    BY <1>2, <1>3 DEF LedgerTypes
  <1>7. /\ balance' \in [Accounts -> [cash : Int, fees : Int]]
        /\ balance'[a].cash = balance[a].cash + legs["CASH"]
        /\ balance'[a].fees = balance[a].fees + legs["FEES"]
        /\ \A b \in Accounts \ {a} : balance'[b] = balance[b]
    BY <1>1, <1>3 DEF LedgerTypes
  <1> QED BY <1>2, <1>5, <1>6, <1>7

\* Money in.
LEMMA DepositEnters ==
    ASSUME LedgerTypes, NEW a \in Accounts, Deposit(a)
    PROVE  /\ UNCHANGED <<fill, settled, position, snapshots, keeper>>
           /\ \E amount \in Nat \ {0} : Enters(a, NoHalf, DepositLegs(amount))
  <1>1. PICK amount \in Deposits : WriteTxn(a, NoHalf, DepositLegs(amount))
    BY DEF Deposit
  <1>2. amount \in Nat \ {0}
    BY LedgerAssumption DEF LedgerAssumption
  <1>3. Amounts(DepositLegs(amount), amount, 0, 0, -amount, 0, 0, 0)
    BY <1>2, DepositAmounts
  <1>4. position' = [position EXCEPT ![a] = PositionAfter(@, DepositLegs(amount))]
    BY <1>3 DEF PositionAfter, Amounts, Deposit, LedgerTypes
  <1> QED BY <1>1, <1>2, <1>3, <1>4 DEF Enters, Amounts, Deposit, snapshotVars

\* Shares in, at a cost the account can pay beside what is held.
LEMMA SeedEnters ==
    ASSUME LedgerTypes, NEW a \in Accounts, SeedShares(a)
    PROVE  /\ UNCHANGED <<fill, settled, snapshots, keeper>>
           /\ \E qty \in Nat \ {0}, cost \in Nat :
                /\ Enters(a, NoHalf, SeedLegs(qty, cost))
                /\ cost <= balance[a].cash - HeldCash(a)
                /\ position' = [position EXCEPT ![a] = ApplyBuy(@, qty, cost)]
  <1>1. PICK t \in Openings :
          /\ Notional(t.qty, t.price) <= balance[a].cash - HeldCash(a)
          /\ WriteTxn(a, NoHalf, SeedLegs(t.qty, Notional(t.qty, t.price)))
          /\ position' = [position EXCEPT ![a] = ApplyBuy(@, t.qty, Notional(t.qty, t.price))]
    BY DEF SeedShares
  <1>2. PICK qty, cost : qty = t.qty /\ cost = Notional(t.qty, t.price)
    OBVIOUS
  <1>3. qty \in Nat \ {0} /\ cost \in Nat
    BY <1>2, LedgerAssumption, NotionalBound DEF LedgerAssumption
  <1>4. Amounts(SeedLegs(qty, cost), -cost, 0, 0, cost, qty, 0, -qty)
    BY <1>3, SeedAmounts
  <1>5. -(-cost) = cost /\ qty >= 0 /\ qty # 0
    BY <1>3
  <1>6. PositionAfter(position[a], SeedLegs(qty, cost)) = ApplyBuy(position[a], qty, cost)
    BY <1>4, <1>5 DEF PositionAfter, Amounts, Moved
  <1>7. Enters(a, NoHalf, SeedLegs(qty, cost))
    BY <1>1, <1>2, <1>4, <1>6 DEF Enters, Amounts
  <1> QED BY <1>1, <1>2, <1>3, <1>7 DEF SeedShares, snapshotVars

\* A half of a fill, bought or sold.
LEMMA SettleEnters ==
    ASSUME LedgerTypes, NEW h \in Halves, SettleHalf(h)
    PROVE  /\ UNCHANGED <<fill, snapshots, keeper>> /\ settled' = Append(settled, h)
           /\ fill[h[1]] # NoFill /\ ~Contains(settled, h)
           /\ \E legs :
                /\ Enters(Owner(h), h, legs)
                /\ Buys(h) =>
                     /\ Amounts(legs, -CostOf(h), FeeOf(h, NotionalOf(h)), NotionalOf(h), 0,
                                fill[h[1]].qty, -fill[h[1]].qty, 0)
                     /\ position' = [position EXCEPT ![Owner(h)] = ApplyBuy(@, fill[h[1]].qty, CostOf(h))]
                /\ ~Buys(h) =>
                     /\ Amounts(legs, ProceedsOf(h), FeeOf(h, NotionalOf(h)), -NotionalOf(h), 0,
                                -fill[h[1]].qty, fill[h[1]].qty, 0)
                     /\ position' = [position EXCEPT ![Owner(h)] = ApplySell(@, fill[h[1]].qty, ProceedsOf(h))]
  <1>1. /\ UNCHANGED <<fill, snapshots, keeper>> /\ settled' = Append(settled, h)
        /\ fill[h[1]] # NoFill /\ ~Contains(settled, h)
    BY DEF SettleHalf, snapshotVars
  <1>2. PICK a, q, n, fee : a = Owner(h) /\ q = fill[h[1]].qty /\ n = NotionalOf(h) /\ fee = FeeOf(h, n)
    OBVIOUS
  <1>3. a \in Accounts /\ q \in Nat \ {0} /\ n \in Nat /\ fee \in Nat
    BY <1>1, <1>2, HalfType DEF FillTerms
  <1>4. CostOf(h) = n + fee /\ ProceedsOf(h) = n - fee
    BY <1>2 DEF CostOf, ProceedsOf
  <1>5. -n - fee = -(n + fee) /\ -(-(n + fee)) = n + fee /\ -(-q) = q /\ q # 0 /\ -q # 0 /\ q >= 0 /\ ~(-q >= 0)
    BY <1>3
  <1>6. CASE Buys(h)
    <2>1. PICK legs : legs = HalfFillLegs(1, q, n, fee)
      OBVIOUS
    <2>2. WriteTxn(a, h, legs) /\ position' = [position EXCEPT ![a] = ApplyBuy(@, q, CostOf(h))]
      BY <1>2, <1>6, <2>1 DEF SettleHalf
    <2>3. Amounts(legs, -(n + fee), fee, n, 0, q, -q, 0)
      BY <1>3, <1>5, <2>1, HalfAmounts
    <2>4. PositionAfter(position[a], legs) = ApplyBuy(position[a], q, CostOf(h))
      BY <1>4, <1>5, <2>3 DEF PositionAfter, Amounts, Moved
    <2>5. Enters(a, h, legs)
      BY <2>2, <2>3, <2>4 DEF Enters, Amounts
    <2> QED BY <1>1, <1>2, <1>4, <1>6, <2>2, <2>3, <2>5
  <1>7. CASE ~Buys(h)
    <2>1. PICK legs : legs = HalfFillLegs(-1, q, n, fee)
      OBVIOUS
    <2>2. WriteTxn(a, h, legs) /\ position' = [position EXCEPT ![a] = ApplySell(@, q, ProceedsOf(h))]
      BY <1>2, <1>7, <2>1 DEF SettleHalf
    <2>3. Amounts(legs, n - fee, fee, -n, 0, -q, q, 0)
      BY <1>3, <2>1, HalfAmounts
    <2>4. PositionAfter(position[a], legs) = ApplySell(position[a], q, ProceedsOf(h))
      BY <1>4, <1>5, <2>3 DEF PositionAfter, Amounts, Moved
    <2>5. Enters(a, h, legs)
      BY <2>2, <2>3, <2>4 DEF Enters, Amounts
    <2> QED BY <1>1, <1>2, <1>4, <1>7, <2>2, <2>3, <2>5
  <1> QED BY <1>6, <1>7

\* A published fill has the terms of a trade between two accounts, both of which
\* can pay for it.
LEMMA PublishTypes ==
    ASSUME LedgerTypes, NEW f \in Fills, PublishFill(f)
    PROVE  /\ fill[f] = NoFill /\ fill' \in [Fills -> FillTerms \union {NoFill}]
           /\ \A g \in Fills \ {f} : fill'[g] = fill[g]
           /\ UNCHANGED <<txns, balance, position, settled, snapshots, keeper>>
           /\ \A a \in Accounts : HeldCash(a)' <= balance[a].cash /\ HeldShares(a)' <= position[a].qty
  <1>1. PICK t \in Trades, taker \in Accounts, maker \in Accounts :
          fill' = [fill EXCEPT ![f] = [taker |-> taker, maker |-> maker, qty |-> t.qty,
                                       price |-> t.price, takerBuys |-> t.takerBuys]]
    BY DEF PublishFill
  <1>2. [taker |-> taker, maker |-> maker, qty |-> t.qty, price |-> t.price,
         takerBuys |-> t.takerBuys] \in FillTerms
    BY LedgerAssumption DEF LedgerAssumption, FillTerms
  <1> QED BY <1>1, <1>2 DEF PublishFill, LedgerTypes, snapshotVars

-----------------------------------------------------------------------------
(* An account after each of its transactions. *)

States == [seq : Nat, cash : Int, fees : Int, clearing : Int, position : Positions]

\* The account after the first n of its transactions.
After(seq, n) == FoldLeft(ApplyTxn, Genesis, SubSeq(seq, 1, n))

\* There is one replay of a sequence of transactions.
LEMMA ReplaysAgree ==
    ASSUME NEW T, NEW seq \in Seq(T), NEW s, NEW h, Replays(h, s, seq),
           NEW n \in 0 .. Len(seq), NEW t \in Seq(T), n <= Len(t), NEW g, Replays(g, s, t),
           \A k \in 1 .. n : t[k] = seq[k]
    PROVE  h[n] = g[n]
  <1> DEFINE M == {k \in Nat : k <= n => h[k] = g[k]}
  <1>0. Len(seq) \in Nat /\ Len(t) \in Nat /\ n \in Nat
    OBVIOUS
  <1>1. 0 \in M
    BY DEF Replays
  <1>2. ASSUME NEW k \in M
        PROVE  k + 1 \in M
    <2> SUFFICES ASSUME k + 1 <= n PROVE h[k + 1] = g[k + 1]
      OBVIOUS
    <2>1. k \in Nat /\ k + 1 \in 1 .. n /\ k + 1 \in 1 .. Len(seq) /\ k + 1 \in 1 .. Len(t)
          /\ (k + 1) - 1 = k /\ h[k] = g[k]
      BY <1>0
    <2>2. h[k + 1] = ApplyTxn(h[k], seq[k + 1]) /\ g[k + 1] = ApplyTxn(g[k], t[k + 1])
      BY <2>1 DEF Replays
    <2> QED BY <2>1, <2>2
  <1>3. M = Nat
    <2> HIDE DEF M
    <2>1. M \in SUBSET Nat
      BY DEF M
    <2> QED BY <1>1, <1>2, <2>1, Induct
  <1> QED BY <1>0, <1>3

\* The transactions up to one are a sequence of that many.
LEMMA Prefix ==
    ASSUME NEW T, NEW seq \in Seq(T), NEW n \in 0 .. Len(seq)
    PROVE  /\ SubSeq(seq, 1, n) \in Seq(T) /\ Len(SubSeq(seq, 1, n)) = n
           /\ \A k \in 1 .. n : SubSeq(seq, 1, n)[k] = seq[k]
  <1>1. Len(seq) \in Nat /\ n \in Nat /\ n - 1 + 1 = n /\ 1 \in Int /\ n \in Int
    OBVIOUS
  <1>2. \A k \in 1 .. n : seq[k] \in T /\ 1 + k - 1 = k
    BY <1>1
  <1> QED BY <1>1, <1>2, SubSeqProperties

\* A replay goes through what the account was after each transaction.
LEMMA ReplaysAfter ==
    ASSUME NEW T, NEW seq \in Seq(T)
    PROVE  \E h : Replays(h, Genesis, seq) /\ \A n \in 0 .. Len(seq) : After(seq, n) = h[n]
  <1>1. PICK h : Replays(h, Genesis, seq)
    BY ReplayFolds
  <1>2. ASSUME NEW n \in 0 .. Len(seq)
        PROVE  After(seq, n) = h[n]
    <2>1. PICK t : t = SubSeq(seq, 1, n)
      OBVIOUS
    <2>2. t \in Seq(T) /\ Len(t) = n /\ \A k \in 1 .. n : t[k] = seq[k]
      BY <2>1, Prefix
    <2>3. PICK g : Replays(g, Genesis, t) /\ FoldLeft(ApplyTxn, Genesis, t) = g[Len(t)]
      BY <2>2, ReplayFolds
    <2>4. n <= Len(t)
      BY <2>2
    <2>5. h[n] = g[n]
      BY <1>1, <2>2, <2>3, <2>4, ReplaysAgree
    <2> QED BY <2>1, <2>2, <2>3, <2>5 DEF After
  <1> QED BY <1>1, <1>2

\* One transaction more.
LEMMA AfterNext ==
    ASSUME NEW T, NEW seq \in Seq(T)
    PROVE  /\ After(seq, 0) = Genesis
           /\ \A n \in 1 .. Len(seq) : After(seq, n) = ApplyTxn(After(seq, n - 1), seq[n])
  <1>1. PICK h : Replays(h, Genesis, seq) /\ \A n \in 0 .. Len(seq) : After(seq, n) = h[n]
    BY ReplaysAfter
  <1>2. Len(seq) \in Nat /\ \A n \in 1 .. Len(seq) : n \in 0 .. Len(seq) /\ n - 1 \in 0 .. Len(seq)
    OBVIOUS
  <1> QED BY <1>1, <1>2 DEF Replays

\* What an account was is not changed by what it does next.
LEMMA AfterAppend ==
    ASSUME NEW T, NEW seq \in Seq(T), NEW t \in T
    PROVE  /\ \A n \in 0 .. Len(seq) : After(Append(seq, t), n) = After(seq, n)
           /\ After(Append(seq, t), Len(seq) + 1) = ApplyTxn(After(seq, Len(seq)), t)
  <1>1. PICK q : q = Append(seq, t)
    OBVIOUS
  <1>2. /\ q \in Seq(T) /\ Len(q) = Len(seq) + 1 /\ q[Len(seq) + 1] = t
        /\ \A k \in 1 .. Len(seq) : q[k] = seq[k]
        /\ Len(seq) \in Nat
    BY <1>1
  <1>3. PICK h : Replays(h, Genesis, seq) /\ \A n \in 0 .. Len(seq) : After(seq, n) = h[n]
    BY ReplaysAfter
  <1>4. PICK g : Replays(g, Genesis, q) /\ \A n \in 0 .. Len(q) : After(q, n) = g[n]
    BY <1>2, ReplaysAfter
  <1>5. ASSUME NEW n \in 0 .. Len(seq)
        PROVE  After(q, n) = After(seq, n)
    <2>1. n \in 0 .. Len(q) /\ n <= Len(q) /\ \A k \in 1 .. n : q[k] = seq[k]
      BY <1>2
    <2>2. h[n] = g[n]
      BY <1>2, <1>3, <1>4, <2>1, ReplaysAgree
    <2> QED BY <1>3, <1>4, <2>1, <2>2
  <1>6. After(q, Len(seq) + 1) = ApplyTxn(After(q, Len(seq)), t)
    <2>1. Len(seq) + 1 \in 1 .. Len(q) /\ (Len(seq) + 1) - 1 = Len(seq)
      BY <1>2
    <2> QED BY <1>2, <2>1, AfterNext
  <1>7. Len(seq) \in 0 .. Len(seq)
    BY <1>2
  <1> QED BY <1>1, <1>5, <1>6, <1>7

\* Replaying what comes after a transaction, from what the account was then, gives
\* what the account is.
LEMMA TailReplays ==
    ASSUME NEW T, NEW seq \in Seq(T), NEW n \in 0 .. Len(seq)
    PROVE  FoldLeft(ApplyTxn, After(seq, n), SubSeq(seq, n + 1, Len(seq))) = After(seq, Len(seq))
  <1>1. PICK t : t = SubSeq(seq, n + 1, Len(seq))
    OBVIOUS
  <1>0. Len(seq) \in Nat /\ n \in Nat /\ n <= Len(seq) /\ n + 1 \in Int /\ Len(seq) \in Int
    OBVIOUS
  <1>2. /\ t \in Seq(T) /\ Len(t) = Len(seq) - n
        /\ \A k \in 1 .. Len(seq) - n : t[k] = seq[n + k]
    <2>1. \A i \in n + 1 .. Len(seq) : seq[i] \in T
      BY <1>0
    <2>2. /\ t \in Seq(T)
          /\ Len(t) = IF n + 1 <= Len(seq) THEN Len(seq) - (n + 1) + 1 ELSE 0
          /\ \A k \in 1 .. Len(seq) - (n + 1) + 1 : t[k] = seq[n + 1 + k - 1]
      BY <1>0, <1>1, <2>1, SubSeqProperties
    <2>3. Len(seq) - (n + 1) + 1 = Len(seq) - n /\ \A k \in Int : n + 1 + k - 1 = n + k
      BY <1>0
    <2>4. (IF n + 1 <= Len(seq) THEN Len(seq) - n ELSE 0) = Len(seq) - n
      BY <1>0
    <2>5. \A k \in 1 .. Len(seq) - n : k \in Int
      BY <1>0
    <2> QED BY <2>2, <2>3, <2>4, <2>5
  <1>3. PICK h : Replays(h, After(seq, n), t) /\ FoldLeft(ApplyTxn, After(seq, n), t) = h[Len(t)]
    BY <1>2, ReplayFolds
  <1> DEFINE M == {k \in Nat : k <= Len(t) => h[k] = After(seq, n + k)}
  <1>4. 0 \in M
    <2>1. n + 0 = n
      BY <1>0
    <2> QED BY <1>3, <2>1 DEF Replays
  <1>5. ASSUME NEW k \in M
        PROVE  k + 1 \in M
    <2> SUFFICES ASSUME k + 1 <= Len(t) PROVE h[k + 1] = After(seq, n + (k + 1))
      OBVIOUS
    <2>1. /\ k \in Nat /\ k + 1 \in 1 .. Len(t) /\ k + 1 \in 1 .. Len(seq) - n /\ (k + 1) - 1 = k
          /\ n + (k + 1) \in 1 .. Len(seq) /\ n + (k + 1) - 1 = n + k
      BY <1>0, <1>2
    <2>2. h[k] = After(seq, n + k)
      BY <1>0, <1>2, <2>1
    <2>3. h[k + 1] = ApplyTxn(h[k], t[k + 1])
      BY <1>3, <2>1 DEF Replays
    <2>4. t[k + 1] = seq[n + (k + 1)]
      BY <1>2, <2>1
    <2>5. After(seq, n + (k + 1)) = ApplyTxn(After(seq, n + k), seq[n + (k + 1)])
      BY <2>1, AfterNext
    <2> QED BY <2>2, <2>3, <2>4, <2>5
  <1>6. M = Nat
    <2> HIDE DEF M
    <2>1. M \in SUBSET Nat
      BY DEF M
    <2> QED BY <1>4, <1>5, <2>1, Induct
  <1>7. Len(t) \in Nat /\ n + Len(t) = Len(seq)
    BY <1>0, <1>2
  <1>8. h[Len(t)] = After(seq, n + Len(t))
    <2>1. Len(t) \in M
      <3> HIDE DEF M
      <3> QED BY <1>6, <1>7
    <2>2. Len(t) <= Len(t)
      BY <1>7
    <2> QED BY <2>1, <2>2
  <1> QED BY <1>1, <1>3, <1>7, <1>8

\* An account after n transactions is a state, with n for its sequence number.
LEMMA AfterType ==
    ASSUME NEW seq \in Seq(Txns), NEW n \in 0 .. Len(seq)
    PROVE  After(seq, n) \in States /\ After(seq, n).seq = n
  <1>0. Len(seq) \in Nat /\ n \in Nat /\ n <= Len(seq)
    OBVIOUS
  <1> DEFINE M == {k \in Nat : k <= Len(seq) => After(seq, k) \in States /\ After(seq, k).seq = k}
  <1>1. 0 \in M
    BY AfterNext DEF Genesis, States, Flat, Positions
  <1>2. ASSUME NEW k \in M
        PROVE  k + 1 \in M
    <2> SUFFICES ASSUME k + 1 <= Len(seq)
                 PROVE  After(seq, k + 1) \in States /\ After(seq, k + 1).seq = k + 1
      OBVIOUS
    <2>1. k \in Nat /\ k + 1 \in 1 .. Len(seq) /\ (k + 1) - 1 = k /\ k <= Len(seq)
      BY <1>0
    <2>2. PICK s, legs : s = After(seq, k) /\ legs = seq[k + 1].legs
      OBVIOUS
    <2>3. s \in States /\ s.seq = k
      BY <2>1, <2>2
    <2>4. legs \in Legs
      <3>1. seq[k + 1] \in Txns
        BY <2>1
      <3> QED BY <2>2, <3>1 DEF Txns
    <2>5. After(seq, k + 1) = ApplyTxn(s, seq[k + 1])
      BY <2>1, <2>2, AfterNext
    <2>6. After(seq, k + 1) = [seq |-> s.seq + 1, cash |-> s.cash + legs["CASH"],
                               fees |-> s.fees + legs["FEES"],
                               clearing |-> s.clearing + legs["CLEARING"],
                               position |-> PositionAfter(s.position, legs)]
      BY <2>2, <2>5 DEF ApplyTxn, PositionAfter
    <2>7. PositionAfter(s.position, legs) \in Positions
      BY <2>3, <2>4, PositionAfterType DEF States
    <2>8. legs["CASH"] \in Int /\ legs["FEES"] \in Int /\ legs["CLEARING"] \in Int
      BY <2>4 DEF Legs, Kinds, MoneyKinds
    <2>9. /\ s.seq + 1 = k + 1 /\ k + 1 \in Nat /\ s.cash + legs["CASH"] \in Int
          /\ s.fees + legs["FEES"] \in Int /\ s.clearing + legs["CLEARING"] \in Int
      <3> HIDE DEF M
      <3>1. s.cash \in Int /\ s.fees \in Int /\ s.clearing \in Int
        BY <2>3 DEF States
      <3>2. s.seq + 1 = k + 1
        BY <2>3
      <3>3. k + 1 \in Nat
        BY <2>1
      <3>4. /\ s.cash + legs["CASH"] \in Int /\ s.fees + legs["FEES"] \in Int
            /\ s.clearing + legs["CLEARING"] \in Int
        BY <2>8, <3>1
      <3> QED BY <3>2, <3>3, <3>4
    <2> QED BY <2>6, <2>7, <2>9 DEF States
  <1>3. M = Nat
    <2> HIDE DEF M
    <2>1. M \in SUBSET Nat
      BY DEF M
    <2> QED BY <1>1, <1>2, <2>1, Induct
  <1> QED BY <1>0, <1>3

\* A checkpoint is read back as what was written.
LEMMA DecodeEncode ==
    ASSUME NEW s \in States
    PROVE  DecodeState(Encode(s)) = s /\ Encode(s).seq = s.seq /\ DecodeState(s) = s
  BY DEF DecodeState, Encode, States

-----------------------------------------------------------------------------
(* The inductive invariant. *)

\* What an account's orders may still take is there.
Covered ==
    \A a \in Accounts : HeldCash(a) <= balance[a].cash /\ HeldShares(a) <= position[a].qty

\* The balance and the position are what the ledger adds up to.
Posts ==
    \A a \in Accounts : /\ Posted(a, "CASH") = balance[a].cash
                        /\ Posted(a, "POSITION") = position[a].qty

\* The legs of a transaction that belongs to no fill, and of one that settles a half.
Brings(legs) ==
    Amounts(legs, legs["CASH"], 0, 0, -legs["CASH"], legs["POSITION"], 0, -legs["POSITION"])

Settles(h, legs) ==
    LET n == NotionalOf(h)
        q == fill[h[1]].qty
    IN  IF Buys(h) THEN Amounts(legs, -CostOf(h), FeeOf(h, n), n, 0, q, -q, 0)
        ELSE Amounts(legs, ProceedsOf(h), FeeOf(h, n), -n, 0, -q, q, 0)

\* A transaction of an account is of one of the two kinds.
Entry(a, t) ==
    IF t.half = NoHalf THEN Brings(t.legs)
    ELSE Contains(settled, t.half) /\ Owner(t.half) = a /\ Settles(t.half, t.legs)

\* Every transaction is, and a half that settled has one, on its own account.
Entries ==
    /\ \A a \in Accounts : \A t \in Range(txns[a]) : Entry(a, t)
    /\ \A a \in Accounts : \A i, j \in DOMAIN txns[a] :
         txns[a][i].half = txns[a][j].half /\ txns[a][i].half # NoHalf => i = j
    /\ \A h \in Halves : Contains(settled, h) =>
         fill[h[1]] # NoFill /\ \E i \in DOMAIN txns[Owner(h)] : txns[Owner(h)][i].half = h

\* Replaying an account from nothing gives what is kept of it.
Recorded == \A a \in Accounts : After(txns[a], Len(txns[a])) = ProjectedState(a)

\* Every checkpoint stored, or held by a checkpointer, is what the account was
\* after some transaction.
Was(a, s) == \E n \in 0 .. Len(txns[a]) : s = After(txns[a], n)

Stored ==
    /\ DOMAIN snapshots = Accounts
    /\ \A a \in Accounts : \A s \in snapshots[a] :
         \E n \in 0 .. Len(txns[a]) : s = Encode(After(txns[a], n))

Kept ==
    /\ DOMAIN keeper = Checkpointers
    /\ \A k \in Checkpointers :
         \/ keeper[k] = Idle
         \/ keeper[k].at = "inserted" /\ keeper[k].account \in Accounts
         \/ /\ keeper[k].at \in {"loaded", "recovered"} /\ keeper[k].account \in Accounts
            /\ Was(keeper[k].account, keeper[k].state)

LedgerInv ==
    /\ LedgerTypes /\ Covered /\ Posts /\ Entries
    /\ BasisIsWhatWasPaid /\ Recorded /\ Stored /\ Kept

-----------------------------------------------------------------------------
(* What one more transaction adds. *)

PostedIn(seq, kind) == SumOver([i \in DOMAIN seq |-> seq[i].legs[kind]], DOMAIN seq)

GivenIn(seq) == {i \in DOMAIN seq : seq[i].half = NoHalf /\ seq[i].legs["POSITION"] = 0}
GivenSum(seq) == SumOver([i \in GivenIn(seq) |-> seq[i].legs["CASH"]], GivenIn(seq))

\* The places of a sequence with one transaction more.
LEMMA AppendPlaces ==
    ASSUME NEW seq \in Seq(Txns), NEW t \in Txns
    PROVE  /\ Len(seq) \in Nat /\ DOMAIN seq = 1 .. Len(seq)
           /\ Len(Append(seq, t)) = Len(seq) + 1
           /\ DOMAIN Append(seq, t) = DOMAIN seq \cup {Len(seq) + 1}
           /\ Len(seq) + 1 \notin DOMAIN seq
           /\ Append(seq, t)[Len(seq) + 1] = t
           /\ \A i \in DOMAIN seq : Append(seq, t)[i] = seq[i] /\ seq[i] \in Txns
           /\ Append(seq, t) \in Seq(Txns) /\ IsFiniteSet(DOMAIN seq)
  <1>0. PICK q : q = Append(seq, t)
    OBVIOUS
  <1>1. Len(seq) \in Nat /\ DOMAIN seq = 1 .. Len(seq) /\ 1 \in Int /\ Len(seq) \in Int
    OBVIOUS
  <1>2. IsFiniteSet(DOMAIN seq)
    BY <1>1, FS_Interval
  <1>3. /\ Len(q) = Len(seq) + 1 /\ DOMAIN q = 1 .. (Len(seq) + 1) /\ q \in Seq(Txns)
        /\ q[Len(seq) + 1] = t /\ \A i \in 1 .. Len(seq) : q[i] = seq[i] /\ seq[i] \in Txns
    BY <1>0
  <1>4. 1 .. (Len(seq) + 1) = (1 .. Len(seq)) \cup {Len(seq) + 1} /\ Len(seq) + 1 \notin 1 .. Len(seq)
    BY <1>1
  <1> QED BY <1>0, <1>1, <1>2, <1>3, <1>4

\* A transaction adds its legs to what an account has posted.
LEMMA PostedAppend ==
    ASSUME NEW seq \in Seq(Txns), NEW t \in Txns, NEW kind \in Kinds
    PROVE  /\ PostedIn(Append(seq, t), kind) = PostedIn(seq, kind) + t.legs[kind]
           /\ PostedIn(seq, kind) \in Int /\ t.legs[kind] \in Int
           /\ PostedIn(<<>>, kind) = 0
  <1>1. PICK q, S, n : q = Append(seq, t) /\ S = DOMAIN seq /\ n = Len(seq) + 1
    OBVIOUS
  <1>2. /\ DOMAIN q = S \cup {n} /\ n \notin S /\ q[n] = t /\ IsFiniteSet(S)
        /\ \A i \in S : q[i] = seq[i] /\ seq[i] \in Txns
    BY <1>1, AppendPlaces
  <1>3. PICK f, g : /\ f = [i \in DOMAIN seq |-> seq[i].legs[kind]]
                    /\ g = [i \in DOMAIN q |-> q[i].legs[kind]]
    OBVIOUS
  <1>4. \A u \in Txns : u.legs[kind] \in Int
    BY DEF Txns, Legs
  <1>5. \A i \in S : g[i] = f[i] /\ f[i] \in Int
    BY <1>1, <1>2, <1>3, <1>4
  <1>6. g[n] = t.legs[kind] /\ g[n] \in Int
    BY <1>2, <1>3, <1>4
  <1>7. SumOver(g, S \cup {n}) = SumOver(f, S) + g[n] /\ SumOver(f, S) \in Int
    <2>1. IsFiniteSet(S) /\ n \notin S /\ g[n] \in Int /\ \A i \in S : g[i] \in Int
      BY <1>2, <1>5, <1>6
    <2>2. SumOver(g, S \cup {n}) = SumOver(g, S) + g[n]
      BY <2>1, SumAdd
    <2>3. SumOver(f, S) = SumOver(g, S) /\ SumOver(f, S) \in Int
      BY <1>5, <2>1, SumSame, SumType
    <2> QED BY <2>2, <2>3
  <1>8. PostedIn(seq, kind) = SumOver(f, S) /\ PostedIn(q, kind) = SumOver(g, S \cup {n})
    BY <1>1, <1>2, <1>3 DEF PostedIn
  <1>9. PostedIn(<<>>, kind) = 0
    <2>1. DOMAIN <<>> = {}
      OBVIOUS
    <2>2. PostedIn(<<>>, kind) = SumOver([i \in DOMAIN <<>> |-> <<>>[i].legs[kind]], {})
      BY <2>1 DEF PostedIn
    <2> QED BY <2>2, SumEmpty
  <1> QED BY <1>1, <1>6, <1>7, <1>8, <1>9

\* Money from outside is what deposits add to it.
LEMMA GivenAppend ==
    ASSUME NEW seq \in Seq(Txns), NEW t \in Txns
    PROVE  /\ GivenSum(Append(seq, t)) =
                IF t.half = NoHalf /\ t.legs["POSITION"] = 0 THEN GivenSum(seq) + t.legs["CASH"]
                ELSE GivenSum(seq)
           /\ GivenSum(seq) \in Int /\ t.legs["CASH"] \in Int
           /\ GivenSum(<<>>) = 0
  <1>1. PICK q, S, n : q = Append(seq, t) /\ S = GivenIn(seq) /\ n = Len(seq) + 1
    OBVIOUS
  <1>2. /\ DOMAIN q = DOMAIN seq \cup {n} /\ n \notin DOMAIN seq /\ q[n] = t
        /\ IsFiniteSet(DOMAIN seq) /\ \A i \in DOMAIN seq : q[i] = seq[i] /\ seq[i] \in Txns
    BY <1>1, AppendPlaces
  <1>3. PICK f, g : /\ f = [i \in GivenIn(seq) |-> seq[i].legs["CASH"]]
                    /\ g = [i \in GivenIn(q) |-> q[i].legs["CASH"]]
    OBVIOUS
  <1>4. \A u \in Txns : u.legs["CASH"] \in Int
    BY DEF Txns, Legs, Kinds, MoneyKinds
  <1>5. S \in SUBSET DOMAIN seq /\ IsFiniteSet(S) /\ n \notin S
    <2>1. S \in SUBSET DOMAIN seq
      BY <1>1 DEF GivenIn
    <2> QED BY <1>2, <2>1, FS_Subset
  <1>6. GivenIn(q) = IF t.half = NoHalf /\ t.legs["POSITION"] = 0 THEN S \cup {n} ELSE S
    BY <1>1, <1>2 DEF GivenIn
  <1>7. \A i \in S : g[i] = f[i] /\ f[i] \in Int /\ g[i] \in Int
    BY <1>1, <1>2, <1>3, <1>4, <1>5, <1>6
  <1>8. SumOver(f, S) \in Int
    BY <1>5, <1>7, SumType
  <1>9. GivenSum(seq) = SumOver(f, S) /\ GivenSum(q) = SumOver(g, GivenIn(q))
    BY <1>1, <1>3 DEF GivenSum
  <1>10. ASSUME t.half = NoHalf, t.legs["POSITION"] = 0
         PROVE  GivenSum(q) = GivenSum(seq) + t.legs["CASH"]
    <2>1. g[n] = t.legs["CASH"] /\ g[n] \in Int
      BY <1>2, <1>3, <1>4, <1>6, <1>10
    <2>2. SumOver(g, S) = SumOver(f, S)
      BY <1>5, <1>7, SumSame
    <2>3. SumOver(g, S \cup {n}) = SumOver(g, S) + g[n]
      BY <1>5, <1>7, <2>1, SumAdd
    <2> QED BY <1>1, <1>6, <1>9, <1>10, <2>1, <2>2, <2>3
  <1>11. ASSUME ~(t.half = NoHalf /\ t.legs["POSITION"] = 0)
         PROVE  GivenSum(q) = GivenSum(seq)
    <2>1. SumOver(g, S) = SumOver(f, S)
      BY <1>5, <1>7, SumSame
    <2> QED BY <1>1, <1>6, <1>9, <1>11, <2>1
  <1>12. GivenSum(<<>>) = 0
    <2>1. GivenIn(<<>>) = {}
      BY DEF GivenIn
    <2>2. GivenSum(<<>>) = SumOver([i \in GivenIn(<<>>) |-> <<>>[i].legs["CASH"]], {})
      BY <2>1 DEF GivenSum
    <2> QED BY <2>2, SumEmpty
  <1>13. /\ GivenSum(q) = IF t.half = NoHalf /\ t.legs["POSITION"] = 0
                           THEN GivenSum(seq) + t.legs["CASH"] ELSE GivenSum(seq)
    BY <1>1, <1>10, <1>11
  <1>14. GivenSum(seq) \in Int /\ t.legs["CASH"] \in Int
    BY <1>4, <1>8, <1>9
  <1> QED BY <1>1, <1>12, <1>13, <1>14

-----------------------------------------------------------------------------
(* What is held for the halves of fills that have not settled. *)

\* There are finitely many halves.
LEMMA HalvesFinite == IsFiniteSet(Halves)
  <1>1. IsFiniteSet(Roles)
    <2>1. Roles = {"TAKER"} \cup {"MAKER"}
      BY DEF Roles
    <2>2. IsFiniteSet({"TAKER"}) /\ IsFiniteSet({"MAKER"})
      BY FS_Singleton
    <2> QED BY <2>1, <2>2, FS_Union
  <1>2. IsFiniteSet(Fills)
    BY LedgerAssumption DEF LedgerAssumption
  <1> QED BY <1>1, <1>2, FS_Product DEF Halves

\* What each half costs or brings depends on its fill only.
LEMMA SameTerms ==
    ASSUME NEW h, fill'[h[1]] = fill[h[1]]
    PROVE  /\ Owner(h)' = Owner(h) /\ Buys(h)' = Buys(h) /\ NotionalOf(h)' = NotionalOf(h)
           /\ FeeOf(h, NotionalOf(h))' = FeeOf(h, NotionalOf(h))
           /\ CostOf(h)' = CostOf(h) /\ ProceedsOf(h)' = ProceedsOf(h)
           /\ \A legs : Settles(h, legs)' = Settles(h, legs)
  BY DEF Owner, Buys, NotionalOf, FeeOf, CostOf, ProceedsOf, Settles

\* What is held is an amount, and as much as any one half may take.
LEMMA HeldType ==
    ASSUME LedgerTypes, NEW a \in Accounts
    PROVE  /\ HeldCash(a) \in Nat /\ HeldShares(a) \in Nat
           /\ \A h \in Bought(a) : CostOf(h) <= HeldCash(a)
           /\ \A h \in Sold(a) : fill[h[1]].qty <= HeldShares(a)
  <1>1. Bought(a) \in SUBSET Halves /\ Sold(a) \in SUBSET Halves
    BY DEF Bought, Sold, Open
  <1>2. IsFiniteSet(Bought(a)) /\ IsFiniteSet(Sold(a))
    BY <1>1, HalvesFinite, FS_Subset
  <1>3. \A h \in Bought(a) \cup Sold(a) : h \in Halves /\ fill[h[1]] # NoFill
    BY DEF Bought, Sold, Open
  <1>4. \A h \in Bought(a) \cup Sold(a) : CostOf(h) \in Nat /\ fill[h[1]].qty \in Nat
    BY <1>3, HalfType DEF FillTerms
  <1>5. PICK f, g : /\ f = [h \in Bought(a) |-> CostOf(h)]
                    /\ g = [h \in Sold(a) |-> fill[h[1]].qty]
    OBVIOUS
  <1>6. HeldCash(a) = SumOver(f, Bought(a)) /\ HeldShares(a) = SumOver(g, Sold(a))
    BY <1>5 DEF HeldCash, HeldShares
  <1>7. /\ \A h \in Bought(a) : f[h] = CostOf(h) /\ f[h] \in Nat
        /\ \A h \in Sold(a) : g[h] = fill[h[1]].qty /\ g[h] \in Nat
    BY <1>4, <1>5
  <1>8. SumOver(f, Bought(a)) \in Nat /\ SumOver(g, Sold(a)) \in Nat
    BY <1>2, <1>7, SumType
  <1>9. ASSUME NEW h \in Bought(a) PROVE f[h] <= SumOver(f, Bought(a))
    BY <1>2, <1>7, <1>9, SumMember
  <1>10. ASSUME NEW h \in Sold(a) PROVE g[h] <= SumOver(g, Sold(a))
    BY <1>2, <1>7, <1>10, SumMember
  <1> QED BY <1>6, <1>7, <1>8, <1>9, <1>10

\* Nothing is held or released by a step that neither makes nor settles a fill.
LEMMA HeldSame ==
    ASSUME UNCHANGED <<fill, settled>>
    PROVE  \A a : HeldCash(a)' = HeldCash(a) /\ HeldShares(a)' = HeldShares(a)
  BY DEF HeldCash, HeldShares, Bought, Sold, Open, Owner, Buys, CostOf, NotionalOf, FeeOf

\* What a sequence contains with one member more.
LEMMA AppendContains ==
    ASSUME NEW T, NEW seq \in Seq(T), NEW e \in T, NEW x
    PROVE  Contains(Append(seq, e), x) <=> Contains(seq, x) \/ x = e
  <1>1. PICK n : n = Len(seq)
    OBVIOUS
  <1>2. /\ n \in Nat /\ Len(Append(seq, e)) = n + 1 /\ Append(seq, e)[n + 1] = e
        /\ \A i \in 1 .. n : Append(seq, e)[i] = seq[i]
    BY <1>1
  <1>3. \A i : i \in 1 .. n + 1 <=> i \in 1 .. n \/ i = n + 1
    BY <1>2
  <1> QED BY <1>1, <1>2, <1>3 DEF Contains

\* The halves that are open once one more has settled.
LEMMA OpenSettled ==
    ASSUME LedgerTypes, NEW h \in Halves, UNCHANGED fill, settled' = Append(settled, h), NEW a
    PROVE  Open(a)' = Open(a) \ {h}
  <1>1. \A x : Contains(settled', x) <=> Contains(settled, x) \/ x = h
    BY AppendContains DEF LedgerTypes
  <1> QED BY <1>1 DEF Open, Owner

\* Settling a half releases what was held for it, and nothing else.
LEMMA HeldSettled ==
    ASSUME LedgerTypes, NEW h \in Halves, fill[h[1]] # NoFill, ~Contains(settled, h),
           UNCHANGED fill, settled' = Append(settled, h), NEW a \in Accounts
    PROVE  /\ HeldCash(a)' = IF Owner(h) = a /\ Buys(h) THEN HeldCash(a) - CostOf(h)
                             ELSE HeldCash(a)
           /\ HeldShares(a)' = IF Owner(h) = a /\ ~Buys(h) THEN HeldShares(a) - fill[h[1]].qty
                               ELSE HeldShares(a)
  <1>1. \A x : Buys(x)' = Buys(x) /\ CostOf(x)' = CostOf(x)
    BY DEF Buys, CostOf, NotionalOf, FeeOf
  <1>2. Bought(a)' = Bought(a) \ {h} /\ Sold(a)' = Sold(a) \ {h}
    BY <1>1, OpenSettled DEF Bought, Sold
  <1>3. h \in Bought(a) <=> Owner(h) = a /\ Buys(h)
    BY DEF Bought, Open
  <1>4. h \in Sold(a) <=> Owner(h) = a /\ ~Buys(h)
    BY DEF Sold, Open
  <1>5. Bought(a) \in SUBSET Halves /\ Sold(a) \in SUBSET Halves
    BY DEF Bought, Sold, Open
  <1>6. IsFiniteSet(Bought(a)) /\ IsFiniteSet(Sold(a))
    BY <1>5, HalvesFinite, FS_Subset
  <1>7. \A x \in Bought(a) \cup Sold(a) : x \in Halves /\ fill[x[1]] # NoFill
    BY DEF Bought, Sold, Open
  <1>8. \A x \in Bought(a) \cup Sold(a) : CostOf(x) \in Int /\ fill[x[1]].qty \in Int
    BY <1>7, HalfType DEF FillTerms
  <1>9. PICK f, g : /\ f = [x \in Bought(a) |-> CostOf(x)]
                    /\ g = [x \in Sold(a) |-> fill[x[1]].qty]
    OBVIOUS
  <1>10. PICK S, T : S = Bought(a) \ {h} /\ T = Sold(a) \ {h}
    OBVIOUS
  <1>11. PICK u, v : u = [x \in S |-> CostOf(x)] /\ v = [x \in T |-> fill[x[1]].qty]
    OBVIOUS
  <1>12. /\ HeldCash(a) = SumOver(f, Bought(a)) /\ HeldShares(a) = SumOver(g, Sold(a))
         /\ HeldCash(a)' = SumOver(u, S) /\ HeldShares(a)' = SumOver(v, T)
    BY <1>1, <1>2, <1>9, <1>10, <1>11 DEF HeldCash, HeldShares
  <1>13. /\ \A x \in Bought(a) : f[x] = CostOf(x) /\ f[x] \in Int
         /\ \A x \in Sold(a) : g[x] = fill[x[1]].qty /\ g[x] \in Int
         /\ \A x \in S : u[x] = f[x] /\ u[x] \in Int
         /\ \A x \in T : v[x] = g[x] /\ v[x] \in Int
         /\ IsFiniteSet(S) /\ IsFiniteSet(T)
    BY <1>6, <1>8, <1>9, <1>10, <1>11, FS_Subset
  <1>14. SumOver(u, S) = SumOver(f, S)
    BY <1>13, SumSame
  <1>15. SumOver(v, T) = SumOver(g, T)
    BY <1>13, SumSame
  <1>16. ASSUME h \in Bought(a)
         PROVE  HeldCash(a)' = HeldCash(a) - CostOf(h)
    <2>1. \A x \in Bought(a) : f[x] \in Int
      BY <1>13
    <2>2. /\ SumOver(f, Bought(a)) = SumOver(f, Bought(a) \ {h}) + f[h]
          /\ SumOver(f, Bought(a) \ {h}) \in Int
      BY <1>6, <1>16, <2>1, SumRemove
    <2> QED BY <1>10, <1>12, <1>13, <1>14, <1>16, <2>2
  <1>17. ASSUME h \notin Bought(a)
         PROVE  HeldCash(a)' = HeldCash(a)
    <2>1. S = Bought(a)
      BY <1>10, <1>17
    <2> QED BY <1>12, <1>14, <2>1
  <1>18. ASSUME h \in Sold(a)
         PROVE  HeldShares(a)' = HeldShares(a) - fill[h[1]].qty
    <2>1. \A x \in Sold(a) : g[x] \in Int
      BY <1>13
    <2>2. /\ SumOver(g, Sold(a)) = SumOver(g, Sold(a) \ {h}) + g[h]
          /\ SumOver(g, Sold(a) \ {h}) \in Int
      BY <1>6, <1>18, <2>1, SumRemove
    <2> QED BY <1>10, <1>12, <1>13, <1>15, <1>18, <2>2
  <1>19. ASSUME h \notin Sold(a)
         PROVE  HeldShares(a)' = HeldShares(a)
    <2>1. T = Sold(a)
      BY <1>10, <1>19
    <2> QED BY <1>12, <1>15, <2>1
  <1> QED BY <1>3, <1>4, <1>16, <1>17, <1>18, <1>19

-----------------------------------------------------------------------------
(* Steps. *)

\* The shares a transaction moves.
LEMMA EnteredShares ==
    ASSUME LedgerTypes, NEW a \in Accounts, NEW half, NEW legs, Enters(a, half, legs)
    PROVE  position'[a].qty = position[a].qty + legs["POSITION"]
  <1>1. position'[a] = PositionAfter(position[a], legs)
    BY Entered
  <1>2. legs["POSITION"] \in Int /\ position[a] \in Positions
    BY DEF Enters, Legs, Kinds, ShareKinds, LedgerTypes
  <1>3. PICK p, m : p = position[a] /\ m = legs["POSITION"]
    OBVIOUS
  <1>4. p.qty + 0 = p.qty /\ p.qty - (-m) = p.qty + m
    BY <1>2, <1>3 DEF Positions
  <1>5. PositionAfter(p, legs).qty = p.qty + m
    BY <1>3, <1>4 DEF PositionAfter, Moved, ApplyBuy, ApplySell
  <1> QED BY <1>1, <1>3, <1>5

\* A transaction keeps the ledger, the balance and the position in step, and
\* changes nothing that was recorded before it.
LEMMA RecordsTxn ==
    ASSUME LedgerTypes, Posts, Recorded, Stored, Kept,
           NEW a \in Accounts, NEW half, NEW legs, Enters(a, half, legs),
           UNCHANGED <<snapshots, keeper>>
    PROVE  Posts' /\ Recorded' /\ Stored' /\ Kept'
  <1>1. PICK t, q, n : t = Txn(half, legs) /\ q = txns[a] /\ n = Len(txns[a])
    OBVIOUS
  <1>2. /\ t \in Txns /\ txns'[a] = Append(q, t) /\ t.legs = legs /\ legs \in Legs
        /\ balance'[a].cash = balance[a].cash + legs["CASH"]
        /\ balance'[a].fees = balance[a].fees + legs["FEES"]
        /\ position'[a] = PositionAfter(position[a], legs)
    <2>1. /\ Txn(half, legs) \in Txns /\ txns'[a] = Append(txns[a], Txn(half, legs))
          /\ balance'[a].cash = balance[a].cash + legs["CASH"]
          /\ balance'[a].fees = balance[a].fees + legs["FEES"]
          /\ position'[a] = PositionAfter(position[a], legs)
      BY Entered
    <2>2. legs \in Legs
      BY DEF Enters
    <2>3. t.legs = legs
      BY <1>1 DEF Txn
    <2> QED BY <1>1, <2>1, <2>2, <2>3
  <1>3. \A b \in Accounts \ {a} : txns'[b] = txns[b] /\ balance'[b] = balance[b] /\ position'[b] = position[b]
    BY Entered
  <1>4. q \in Seq(Txns) /\ n \in Nat /\ n = Len(q)
    BY <1>1 DEF LedgerTypes
  <1>5. Len(Append(q, t)) = n + 1
    BY <1>2, <1>4
  <1>6. \A b, kind : Posted(b, kind) = PostedIn(txns[b], kind) /\ Posted(b, kind)' = PostedIn(txns'[b], kind)
    BY DEF Posted, PostedIn
  <1>7. \A kind \in Kinds : Posted(a, kind)' = Posted(a, kind) + legs[kind]
    BY <1>1, <1>2, <1>4, <1>6, PostedAppend
  <1>8. \A b \in Accounts \ {a}, kind \in Kinds : Posted(b, kind)' = Posted(b, kind)
    BY <1>3, <1>6
  <1>9. position'[a].qty = position[a].qty + legs["POSITION"]
    BY EnteredShares
  <1>10. {"CASH", "POSITION", "CLEARING"} \subseteq Kinds
    BY DEF Kinds, MoneyKinds, ShareKinds
  <1>11. Posts'
    <2>1. Posted(a, "CASH")' = balance'[a].cash /\ Posted(a, "POSITION")' = position'[a].qty
      BY <1>2, <1>7, <1>9, <1>10 DEF Posts
    <2>2. \A b \in Accounts \ {a} : /\ Posted(b, "CASH")' = balance'[b].cash
                                    /\ Posted(b, "POSITION")' = position'[b].qty
      BY <1>3, <1>8, <1>10 DEF Posts
    <2> QED BY <2>1, <2>2 DEF Posts
  <1>12. After(txns'[a], n + 1) = ApplyTxn(After(q, n), t) /\ \A k \in 0 .. n : After(txns'[a], k) = After(q, k)
    BY <1>2, <1>4, AfterAppend
  <1>13. After(q, n) = ProjectedState(a)
    BY <1>1 DEF Recorded
  <1>14. ApplyTxn(ProjectedState(a), t) = ProjectedState(a)'
    <2>1. Posted(a, "CLEARING")' = Posted(a, "CLEARING") + legs["CLEARING"]
      BY <1>7, <1>10
    <2>2. ProjectedState(a)' = [seq |-> n + 1, cash |-> balance'[a].cash, fees |-> balance'[a].fees,
                                clearing |-> Posted(a, "CLEARING")', position |-> position'[a]]
      BY <1>2, <1>5 DEF ProjectedState
    <2>3. ApplyTxn(ProjectedState(a), t) =
            [seq |-> n + 1, cash |-> balance[a].cash + legs["CASH"],
             fees |-> balance[a].fees + legs["FEES"],
             clearing |-> Posted(a, "CLEARING") + legs["CLEARING"],
             position |-> PositionAfter(position[a], legs)]
      BY <1>1, <1>2 DEF ApplyTxn, ProjectedState, PositionAfter
    <2> QED BY <1>2, <2>1, <2>2, <2>3
  <1>15. Recorded'
    <2>1. After(txns'[a], Len(txns'[a])) = ProjectedState(a)'
      BY <1>2, <1>5, <1>12, <1>13, <1>14
    <2>2. ASSUME NEW b \in Accounts \ {a}
          PROVE  After(txns'[b], Len(txns'[b])) = ProjectedState(b)'
      <3>1. Posted(b, "CLEARING")' = Posted(b, "CLEARING")
        BY <1>8, <1>10
      <3>2. ProjectedState(b)' = ProjectedState(b)
        BY <1>3, <3>1 DEF ProjectedState
      <3> QED BY <1>3, <3>2 DEF Recorded
    <2> QED BY <2>1, <2>2 DEF Recorded
  <1>16. ASSUME NEW b \in Accounts, NEW k \in 0 .. Len(txns[b])
         PROVE  k \in 0 .. Len(txns'[b]) /\ After(txns'[b], k) = After(txns[b], k)
    <2>1. CASE b = a
      <3>1. k \in 0 .. n /\ n \in Nat
        BY <1>1, <1>4, <2>1
      <3>2. k \in 0 .. n + 1
        BY <3>1
      <3>3. Len(txns'[a]) = n + 1
        BY <1>2, <1>5
      <3>4. After(txns'[a], k) = After(txns[a], k)
        BY <1>1, <1>12, <3>1
      <3> QED BY <2>1, <3>2, <3>3, <3>4
    <2>2. CASE b # a
      BY <1>3, <2>2
    <2> QED BY <2>1, <2>2
  <1>17. Stored'
    <2>1. DOMAIN snapshots' = Accounts
      BY DEF Stored
    <2>2. ASSUME NEW b \in Accounts, NEW s \in snapshots'[b]
          PROVE  \E k \in 0 .. Len(txns'[b]) : s = Encode(After(txns'[b], k))
      <3>1. PICK k \in 0 .. Len(txns[b]) : s = Encode(After(txns[b], k))
        BY DEF Stored
      <3> QED BY <1>16, <3>1
    <2> QED BY <2>1, <2>2 DEF Stored
  <1>18. Kept'
    <2>1. \A b \in Accounts : \A s : Was(b, s) => Was(b, s)'
      BY <1>16 DEF Was
    <2>2. DOMAIN keeper' = Checkpointers /\ keeper' = keeper
      BY DEF Kept
    <2> HIDE DEF Was
    <2>3. ASSUME NEW k \in Checkpointers
          PROVE  \/ keeper'[k] = Idle
                 \/ keeper'[k].at = "inserted" /\ keeper'[k].account \in Accounts
                 \/ /\ keeper'[k].at \in {"loaded", "recovered"} /\ keeper'[k].account \in Accounts
                    /\ Was(keeper[k].account, keeper[k].state)'
      BY <2>1, <2>2 DEF Kept
    <2> QED BY <2>2, <2>3 DEF Kept, Was
  <1> QED BY <1>11, <1>15, <1>17, <1>18

\* Nothing of this is disturbed by a fill that is published.
LEMMA RecordsSame ==
    ASSUME Posts, Recorded, Stored, Kept,
           UNCHANGED <<txns, balance, position, snapshots, keeper>>
    PROVE  Posts' /\ Recorded' /\ Stored' /\ Kept'
  <1>1. \A a, kind : Posted(a, kind)' = Posted(a, kind)
    BY DEF Posted
  <1>2. \A a : ProjectedState(a)' = ProjectedState(a)
    BY <1>1 DEF ProjectedState
  <1>3. Posts' /\ Recorded'
    BY <1>1, <1>2 DEF Posts, Recorded
  <1>4. Stored' /\ Kept'
    BY DEF Stored, Kept, Was
  <1> QED BY <1>3, <1>4

-----------------------------------------------------------------------------
(* Checkpoints. *)

\* A stored checkpoint is read back as what the account was at its number.
LEMMA StoredState ==
    ASSUME LedgerTypes, Stored, NEW a \in Accounts, NEW s \in snapshots[a]
    PROVE  \E n \in 0 .. Len(txns[a]) : /\ DecodeState(s) = After(txns[a], n) /\ s.seq = n
                                        /\ s = Encode(After(txns[a], n))
  <1>1. PICK n \in 0 .. Len(txns[a]) : s = Encode(After(txns[a], n))
    BY DEF Stored
  <1>2. txns[a] \in Seq(Txns)
    BY DEF LedgerTypes
  <1>3. After(txns[a], n) \in States /\ After(txns[a], n).seq = n
    BY <1>2, AfterType
  <1> QED BY <1>1, <1>3, DecodeEncode

\* Of some checkpoints one is the newest.
LEMMA NewestExists ==
    ASSUME NEW n \in Nat, NEW S, S # {}, \A s \in S : s.seq \in 0 .. n
    PROVE  Newest(S) \in S /\ \A t \in S : t.seq <= Newest(S).seq
  <1>1. PICK T : T = {n - s.seq : s \in S}
    OBVIOUS
  <1>2. T \in SUBSET Nat /\ T # {}
    <2>1. \A s \in S : n - s.seq \in Nat
      OBVIOUS
    <2> QED BY <1>1, <2>1
  <1>3. PICK z \in T : \A y \in T : z <= y
    BY <1>2, LeastNat
  <1>4. PICK s \in S : z = n - s.seq
    BY <1>1, <1>3
  <1>5. \A t \in S : t.seq <= s.seq
    <2> SUFFICES ASSUME NEW t \in S PROVE t.seq <= s.seq
      OBVIOUS
    <2>1. n - t.seq \in T
      BY <1>1
    <2>2. n - s.seq <= n - t.seq
      BY <1>3, <1>4, <2>1
    <2>3. t.seq \in Nat /\ s.seq \in Nat
      OBVIOUS
    <2> QED BY <2>2, <2>3
  <1> QED BY <1>5 DEF Newest

\* The checkpoints of an account are numbered like its transactions.
LEMMA StoredNumbers ==
    ASSUME LedgerTypes, Stored, NEW a \in Accounts
    PROVE  Len(txns[a]) \in Nat /\ \A s \in snapshots[a] : s.seq \in 0 .. Len(txns[a])
  BY StoredState DEF LedgerTypes

\* Replaying the tail from what an account was gives what is kept of it now.
LEMMA ReplayReaches ==
    ASSUME LedgerTypes, Recorded, NEW a \in Accounts, NEW n \in 0 .. Len(txns[a])
    PROVE  /\ ReplayAccountFrom(a, After(txns[a], n)) = ProjectedState(a)
           /\ Was(a, ProjectedState(a))
  <1>1. txns[a] \in Seq(Txns)
    BY DEF LedgerTypes
  <1>2. After(txns[a], n).seq = n
    BY <1>1, AfterType
  <1>3. FoldLeft(ApplyTxn, After(txns[a], n), SubSeq(txns[a], n + 1, Len(txns[a]))) = After(txns[a], Len(txns[a]))
    BY <1>1, TailReplays
  <1>4. After(txns[a], Len(txns[a])) = ProjectedState(a)
    BY DEF Recorded
  <1>5. Len(txns[a]) \in 0 .. Len(txns[a])
    BY <1>1
  <1> QED BY <1>2, <1>3, <1>4, <1>5 DEF ReplayAccountFrom, TailOf, Was

\* What an account was before its first transaction.
LEMMA GenesisWas ==
    ASSUME LedgerTypes, NEW a \in Accounts
    PROVE  0 \in 0 .. Len(txns[a]) /\ After(txns[a], 0) = Genesis /\ Was(a, Genesis)
  <1>1. txns[a] \in Seq(Txns) /\ Len(txns[a]) \in Nat
    BY DEF LedgerTypes
  <1>2. After(txns[a], 0) = Genesis
    BY <1>1, AfterNext
  <1> QED BY <1>1, <1>2 DEF Was

\* The steps of the checkpointers.
CheckpointStep(k) ==
    \/ \E a \in Accounts : LoadSnapshot(k, a)
    \/ RecoverState(k) \/ InsertSnapshot(k) \/ PruneSnapshots(k) \/ AbandonSnapshot(k)

\* None of them touches the ledger, and every checkpoint they store or hold is what
\* the account once was.
LEMMA CheckpointKeeps ==
    ASSUME LedgerTypes, Recorded, Stored, Kept, NEW k \in Checkpointers, CheckpointStep(k)
    PROVE  UNCHANGED accountVars /\ Stored' /\ Kept'
  <1>1. UNCHANGED accountVars
    BY DEF CheckpointStep, LoadSnapshot, RecoverState, InsertSnapshot, PruneSnapshots, AbandonSnapshot
  <1>2. txns' = txns
    BY <1>1 DEF accountVars
  <1>3. \A a, s : Was(a, s)' <=> Was(a, s)
    BY <1>2 DEF Was
  <1> DEFINE Good(w) == \/ w = Idle
                        \/ w.at = "inserted" /\ w.account \in Accounts
                        \/ /\ w.at \in {"loaded", "recovered"} /\ w.account \in Accounts
                           /\ Was(w.account, w.state)
  <1>4. ASSUME NEW w, keeper' = [keeper EXCEPT ![k] = w], Good(w)
        PROVE  Kept'
    <2>1. DOMAIN keeper' = Checkpointers
      BY <1>4 DEF Kept
    <2>2. keeper'[k] = w /\ \A i \in Checkpointers \ {k} : keeper'[i] = keeper[i]
      BY <1>4 DEF Kept
    <2> HIDE DEF Was
    <2>3. \A i \in Checkpointers : Good(keeper'[i])
      BY <1>4, <2>2 DEF Kept
    <2>4. \A i \in Checkpointers :
            \/ keeper'[i] = Idle
            \/ keeper'[i].at = "inserted" /\ keeper'[i].account \in Accounts
            \/ /\ keeper'[i].at \in {"loaded", "recovered"} /\ keeper'[i].account \in Accounts
               /\ Was(keeper'[i].account, keeper'[i].state)
      BY <2>3
    <2> QED BY <1>2, <2>1, <2>4 DEF Kept, Was
  <1> HIDE DEF Good
  <1>5. ASSUME UNCHANGED snapshots
        PROVE  Stored'
    BY <1>2, <1>5 DEF Stored
  <1>6. Good(Idle)
    BY DEF Good
  <1>7. CASE \E a \in Accounts : LoadSnapshot(k, a)
    <2>1. PICK a \in Accounts : LoadSnapshot(k, a)
      BY <1>7
    <2>2. PICK s : s = IF snapshots[a] = {} THEN Genesis ELSE DecodeState(Newest(snapshots[a]))
      OBVIOUS
    <2>3. Was(a, s)
      <3>1. CASE snapshots[a] = {}
        BY <2>2, <3>1, GenesisWas
      <3>2. CASE snapshots[a] # {}
        <4>1. Newest(snapshots[a]) \in snapshots[a]
          BY <3>2, StoredNumbers, NewestExists
        <4>2. \E n \in 0 .. Len(txns[a]) : DecodeState(Newest(snapshots[a])) = After(txns[a], n)
          BY <4>1, StoredState
        <4> QED BY <2>2, <3>2, <4>2 DEF Was
      <3> QED BY <3>1, <3>2
    <2>4. PICK w : w = [at |-> "loaded", account |-> a, state |-> s]
      OBVIOUS
    <2>5. Good(w)
      BY <2>3, <2>4 DEF Good
    <2>6. keeper' = [keeper EXCEPT ![k] = w] /\ UNCHANGED snapshots
      BY <2>1, <2>2, <2>4 DEF LoadSnapshot
    <2> QED BY <1>1, <1>4, <1>5, <2>5, <2>6
  <1>8. CASE RecoverState(k)
    <2>1. keeper[k].at = "loaded" /\ UNCHANGED snapshots
      BY <1>8 DEF RecoverState
    <2>2. PICK a : a = keeper[k].account
      OBVIOUS
    <2>3. a \in Accounts /\ Was(a, keeper[k].state)
      BY <2>1, <2>2 DEF Kept, Idle
    <2>4. ReplayAccountFrom(a, keeper[k].state) = ProjectedState(a) /\ Was(a, ProjectedState(a))
      <3>1. PICK n \in 0 .. Len(txns[a]) : keeper[k].state = After(txns[a], n)
        BY <2>3 DEF Was
      <3> QED BY <2>3, <3>1, ReplayReaches
    <2>5. PICK w : w = IF ProjectedState(a).seq = 0 THEN Idle
                       ELSE [at |-> "recovered", account |-> a, state |-> ProjectedState(a)]
      OBVIOUS
    <2>6. Good(w)
      BY <1>6, <2>3, <2>4, <2>5 DEF Good
    <2>7. keeper' = [keeper EXCEPT ![k] = w]
      BY <1>8, <2>2, <2>4, <2>5 DEF RecoverState
    <2> QED BY <1>1, <1>4, <1>5, <2>1, <2>6, <2>7
  <1>9. CASE InsertSnapshot(k)
    <2>1. PICK a, s : a = keeper[k].account /\ s = keeper[k].state
      OBVIOUS
    <2>2. a \in Accounts /\ Was(a, s)
      BY <1>9, <2>1 DEF InsertSnapshot, Kept, Idle
    <2>3. PICK n \in 0 .. Len(txns[a]) : s = After(txns[a], n)
      BY <2>2 DEF Was
    <2>4. /\ DOMAIN snapshots' = Accounts
          /\ snapshots'[a] \subseteq snapshots[a] \cup {Encode(s)}
          /\ \A b \in Accounts \ {a} : snapshots'[b] = snapshots[b]
      BY <1>9, <2>1, <2>2 DEF InsertSnapshot, Stored
    <2>5. ASSUME NEW b \in Accounts, NEW c \in snapshots'[b]
          PROVE  \E m \in 0 .. Len(txns[b]) : c = Encode(After(txns[b], m))
      BY <2>3, <2>4 DEF Stored
    <2>6. Stored'
      BY <1>2, <2>4, <2>5 DEF Stored
    <2>7. PICK w : w = [at |-> "inserted", account |-> a]
      OBVIOUS
    <2>8. Good(w) /\ keeper' = [keeper EXCEPT ![k] = w]
      BY <1>9, <2>1, <2>2, <2>7 DEF Good, InsertSnapshot
    <2> QED BY <1>1, <1>4, <2>6, <2>8
  <1>10. CASE PruneSnapshots(k)
    <2>1. /\ DOMAIN snapshots' = Accounts
          /\ \A b \in Accounts : snapshots'[b] \subseteq snapshots[b]
      BY <1>10 DEF PruneSnapshots, Pruned, Stored
    <2>2. Stored'
      BY <1>2, <2>1 DEF Stored
    <2>3. keeper' = [keeper EXCEPT ![k] = Idle]
      BY <1>10 DEF PruneSnapshots
    <2> QED BY <1>1, <1>4, <1>6, <2>2, <2>3
  <1>11. CASE AbandonSnapshot(k)
    BY <1>1, <1>4, <1>5, <1>6, <1>11 DEF AbandonSnapshot
  <1> QED BY <1>7, <1>8, <1>9, <1>10, <1>11 DEF CheckpointStep

-----------------------------------------------------------------------------
(* The transactions' kinds, and what stays covered. *)

\* A half is not the mark of a transaction that settles none.
LEMMA HalfMarked == \A h \in Halves : h # NoHalf
  <1> SUFFICES ASSUME NEW f \in Fills, NEW r \in Roles PROVE <<f, r>> # <<>>
    BY DEF Halves, NoHalf
  <1>1. Len(<<f, r>>) = 2 /\ Len(<<>>) = 0
    OBVIOUS
  <1> QED BY <1>1

\* A transaction is of one of the two kinds, and the only one of its half.
LEMMA EntersEntry ==
    ASSUME LedgerTypes, Entries, NEW a \in Accounts, NEW half, NEW legs,
           Enters(a, half, legs), UNCHANGED fill,
           \/ half = NoHalf /\ Brings(legs) /\ UNCHANGED settled
           \/ /\ half \in Halves /\ Settles(half, legs) /\ Owner(half) = a /\ fill[half[1]] # NoFill
              /\ ~Contains(settled, half) /\ settled' = Append(settled, half)
    PROVE  Entries'
  <1>1. PICK t, q, n : t = Txn(half, legs) /\ q = txns[a] /\ n = Len(txns[a]) + 1
    OBVIOUS
  <1>2. t.half = half /\ t.legs = legs /\ t \in Txns /\ q \in Seq(Txns) /\ txns'[a] = Append(q, t)
        /\ \A b \in Accounts \ {a} : txns'[b] = txns[b]
    BY <1>1, Entered DEF Txn, LedgerTypes
  <1>3. /\ DOMAIN txns'[a] = DOMAIN q \cup {n} /\ n \notin DOMAIN q /\ txns'[a][n] = t
        /\ \A i \in DOMAIN q : txns'[a][i] = q[i]
    BY <1>1, <1>2, AppendPlaces
  <1>4. \A x : /\ Contains(settled, x) => Contains(settled', x)
               /\ Contains(settled', x) => Contains(settled, x) \/ x = half
               /\ half # NoHalf => Contains(settled', half)
    <2>1. CASE UNCHANGED settled /\ half = NoHalf
      BY <2>1 DEF Contains
    <2>2. CASE settled' = Append(settled, half) /\ half \in Halves
      <3>1. settled \in Seq(Halves)
        BY DEF LedgerTypes
      <3> QED BY <2>2, <3>1, AppendContains
    <2> QED BY <2>1, <2>2
  <1>5. \A x : Owner(x)' = Owner(x) /\ \A u : Settles(x, u)' = Settles(x, u)
    BY SameTerms
  <1>6. ASSUME NEW b \in Accounts, NEW i \in DOMAIN txns[b]
        PROVE  i \in DOMAIN txns'[b] /\ txns'[b][i] = txns[b][i]
    BY <1>1, <1>2, <1>3
  <1>7. ASSUME NEW b \in Accounts, NEW u \in Range(txns[b])
        PROVE  Entry(b, u)'
    <2>1. IF u.half = NoHalf THEN Brings(u.legs)
          ELSE Contains(settled, u.half) /\ Owner(u.half) = b /\ Settles(u.half, u.legs)
      BY DEF Entries, Entry
    <2>2. Brings(u.legs)' = Brings(u.legs)
      BY DEF Brings, Amounts
    <2> QED BY <1>4, <1>5, <2>1, <2>2 DEF Entry
  <1>8. Entry(a, t)'
    <2>1. IF half = NoHalf THEN Brings(legs)
          ELSE Contains(settled', half) /\ Owner(half)' = a /\ Settles(half, legs)'
      BY <1>4, <1>5, HalfMarked
    <2>2. Brings(legs)' = Brings(legs)
      BY DEF Brings, Amounts
    <2> QED BY <1>2, <2>1, <2>2 DEF Entry
  <1>9. ASSUME NEW b \in Accounts, NEW i \in DOMAIN txns'[b], NEW j \in DOMAIN txns'[b],
               txns'[b][i].half = txns'[b][j].half, txns'[b][i].half # NoHalf
        PROVE  i = j
    <2>1. CASE i \in DOMAIN txns[b] /\ j \in DOMAIN txns[b]
      BY <1>6, <1>9, <2>1 DEF Entries
    <2>2. ASSUME NEW k \in DOMAIN txns[b], txns[b][k].half # NoHalf PROVE txns[b][k].half # half
      <3>1. Contains(settled, txns[b][k].half)
        BY <2>2 DEF Entries, Entry, Range
      <3>2. half = NoHalf \/ ~Contains(settled, half)
        OBVIOUS
      <3> QED BY <2>2, <3>1, <3>2
    <2>3. ASSUME NEW k \in DOMAIN txns'[b], k \notin DOMAIN txns[b]
          PROVE  b = a /\ k = n /\ txns'[b][k].half = half
      BY <1>1, <1>2, <1>3, <2>3
    <2> QED BY <1>6, <1>9, <2>1, <2>2, <2>3
  <1>10. ASSUME NEW h \in Halves, Contains(settled', h)
         PROVE  fill'[h[1]] # NoFill /\ \E i \in DOMAIN txns'[Owner(h)'] : txns'[Owner(h)'][i].half = h
    <2>1. CASE Contains(settled, h)
      <3>1. PICK i \in DOMAIN txns[Owner(h)] : txns[Owner(h)][i].half = h
        BY <2>1 DEF Entries
      <3>2. fill[h[1]] # NoFill
        BY <2>1 DEF Entries
      <3>3. Owner(h) \in Accounts
        BY <3>2, HalfType
      <3> QED BY <1>5, <1>6, <3>1, <3>2, <3>3
    <2>2. CASE ~Contains(settled, h)
      <3>1. h = half
        BY <1>4, <1>10, <2>2
      <3>2. h # NoHalf
        BY HalfMarked
      <3>3. Owner(h) = a /\ fill[h[1]] # NoFill
        BY <3>1, <3>2
      <3> QED BY <1>2, <1>3, <1>5, <3>1, <3>3
    <2> QED BY <2>1, <2>2
  <1>11. ASSUME NEW b \in Accounts, NEW u \in Range(txns'[b])
         PROVE  Entry(b, u)'
    <2>1. u \in Range(txns[b]) \/ (b = a /\ u = t)
      <3>1. PICK i \in DOMAIN txns'[b] : u = txns'[b][i]
        BY DEF Range
      <3>2. CASE i \in DOMAIN txns[b]
        BY <1>6, <3>1, <3>2 DEF Range
      <3>3. CASE i \notin DOMAIN txns[b]
        BY <1>1, <1>2, <1>3, <3>1, <3>3
      <3> QED BY <3>2, <3>3
    <2> QED BY <1>7, <1>8, <2>1
  <1> QED BY <1>9, <1>10, <1>11 DEF Entries

\* A fill that is published changes the terms of no half with a transaction.
LEMMA EntriesPublish ==
    ASSUME LedgerTypes, Entries, NEW f \in Fills, fill[f] = NoFill,
           \A g \in Fills \ {f} : fill'[g] = fill[g], UNCHANGED <<txns, settled>>
    PROVE  Entries'
  <1>1. \A h \in Halves : Contains(settled, h) => h[1] # f /\ fill'[h[1]] = fill[h[1]]
    BY DEF Entries, Halves
  <1>2. \A h \in Halves : Contains(settled, h) =>
          Owner(h)' = Owner(h) /\ \A legs : Settles(h, legs)' = Settles(h, legs)
    BY <1>1, SameTerms
  <1>3. ASSUME NEW a \in Accounts, NEW t \in Range(txns[a]), t.half # NoHalf
        PROVE  t.half \in Halves /\ Contains(settled, t.half)
    <2>1. t \in Txns
      BY DEF LedgerTypes, Range
    <2> QED BY <1>3, <2>1 DEF Txns, Entries, Entry
  <1>4. ASSUME NEW a \in Accounts, NEW t \in Range(txns[a])
        PROVE  Entry(a, t)'
    <2>1. Entry(a, t)
      BY DEF Entries
    <2>2. Brings(t.legs)' = Brings(t.legs)
      BY DEF Brings, Amounts
    <2> QED BY <1>2, <1>3, <2>1, <2>2 DEF Entry
  <1>5. ASSUME NEW h \in Halves, Contains(settled, h)
        PROVE  fill'[h[1]] # NoFill /\ \E i \in DOMAIN txns[Owner(h)'] : txns[Owner(h)'][i].half = h
    BY <1>1, <1>2, <1>5 DEF Entries
  <1> QED BY <1>4, <1>5 DEF Entries

\* Money or shares that come in stay beside what is held, and what they are paid
\* with was free.
LEMMA CoveredOutside ==
    ASSUME LedgerTypes, Covered, NEW a \in Accounts, NEW half, NEW legs, Enters(a, half, legs),
           UNCHANGED <<fill, settled>>,
           HeldCash(a) <= balance[a].cash + legs["CASH"], legs["POSITION"] \in Nat
    PROVE  Covered'
  <1>1. \A b : HeldCash(b)' = HeldCash(b) /\ HeldShares(b)' = HeldShares(b)
    BY HeldSame
  <1>2. /\ balance'[a].cash = balance[a].cash + legs["CASH"]
        /\ \A b \in Accounts \ {a} : balance'[b] = balance[b] /\ position'[b] = position[b]
    BY Entered
  <1>3. position'[a].qty = position[a].qty + legs["POSITION"]
    BY EnteredShares
  <1>4. HeldShares(a) <= position[a].qty + legs["POSITION"]
    <2>1. HeldShares(a) \in Nat /\ position[a].qty \in Int /\ HeldShares(a) <= position[a].qty
      BY HeldType DEF Covered, LedgerTypes, Positions
    <2>2. PICK m, n, k : m = HeldShares(a) /\ n = position[a].qty /\ k = legs["POSITION"]
      OBVIOUS
    <2>3. m <= n + k
      BY <2>1, <2>2
    <2> QED BY <2>2, <2>3
  <1>5. \A b \in Accounts : HeldCash(b) <= balance'[b].cash /\ HeldShares(b) <= position'[b].qty
    BY <1>2, <1>3, <1>4 DEF Covered
  <1> QED BY <1>1, <1>5 DEF Covered

\* A half takes no more than was held for it.
LEMMA CoveredSettle ==
    ASSUME LedgerTypes, Covered, NEW h \in Halves, SettleHalf(h)
    PROVE  Covered'
  <1>1. /\ UNCHANGED fill /\ settled' = Append(settled, h)
        /\ fill[h[1]] # NoFill /\ ~Contains(settled, h)
    BY SettleEnters
  <1>2. PICK legs :
          /\ Enters(Owner(h), h, legs)
          /\ Buys(h) => legs["CASH"] = -CostOf(h) /\ legs["POSITION"] = fill[h[1]].qty
          /\ ~Buys(h) => legs["CASH"] = ProceedsOf(h) /\ legs["POSITION"] = -fill[h[1]].qty
    BY SettleEnters DEF Amounts
  <1>3. PICK a, c, r, q : a = Owner(h) /\ c = CostOf(h) /\ r = ProceedsOf(h) /\ q = fill[h[1]].qty
    OBVIOUS
  <1>4. a \in Accounts /\ c \in Nat /\ r \in Nat /\ q \in Nat
    BY <1>1, <1>3, HalfType DEF FillTerms
  <1>5. /\ balance'[a].cash = balance[a].cash + legs["CASH"]
        /\ \A b \in Accounts \ {a} : balance'[b] = balance[b] /\ position'[b] = position[b]
    BY <1>2, <1>3, <1>4, Entered
  <1>6. position'[a].qty = position[a].qty + legs["POSITION"]
    BY <1>2, <1>3, <1>4, EnteredShares
  <1>7. \A b \in Accounts :
          /\ HeldCash(b)' = IF a = b /\ Buys(h) THEN HeldCash(b) - c ELSE HeldCash(b)
          /\ HeldShares(b)' = IF a = b /\ ~Buys(h) THEN HeldShares(b) - q ELSE HeldShares(b)
    BY <1>1, <1>3, HeldSettled
  <1>8. ASSUME NEW b \in Accounts \ {a}
        PROVE  HeldCash(b)' <= balance'[b].cash /\ HeldShares(b)' <= position'[b].qty
    BY <1>5, <1>7 DEF Covered
  <1>9. HeldCash(a)' <= balance'[a].cash /\ HeldShares(a)' <= position'[a].qty
    <2>1. PICK m, n, x, y : m = HeldCash(a) /\ n = HeldShares(a) /\ x = balance[a].cash /\ y = position[a].qty
      OBVIOUS
    <2>2. m \in Nat /\ n \in Nat /\ x \in Int /\ y \in Int /\ m <= x /\ n <= y
      <3>1. balance[a] \in [cash : Int, fees : Int] /\ position[a] \in Positions
        BY <1>4 DEF LedgerTypes
      <3>2. x \in Int /\ y \in Int
        BY <2>1, <3>1 DEF Positions
      <3>3. m <= x /\ n <= y
        BY <1>4, <2>1 DEF Covered
      <3> QED BY <1>4, <2>1, <3>2, <3>3, HeldType
    <2>3. CASE Buys(h)
      <3>1. HeldCash(a)' = m - c /\ HeldShares(a)' = n /\ balance'[a].cash = x + -c /\ position'[a].qty = y + q
        BY <1>2, <1>3, <1>4, <1>5, <1>6, <1>7, <2>1, <2>3
      <3>2. m - c <= x + -c /\ n <= y + q
        BY <1>4, <2>2
      <3> QED BY <3>1, <3>2
    <2>4. CASE ~Buys(h)
      <3>1. HeldCash(a)' = m /\ HeldShares(a)' = n - q /\ balance'[a].cash = x + r /\ position'[a].qty = y + -q
        BY <1>2, <1>3, <1>4, <1>5, <1>6, <1>7, <2>1, <2>4
      <3>2. m <= x + r /\ n - q <= y + -q
        BY <1>4, <2>2
      <3> QED BY <3>1, <3>2
    <2> QED BY <2>3, <2>4
  <1> QED BY <1>8, <1>9 DEF Covered

-----------------------------------------------------------------------------
(* What a position cost. *)

\* The basis of one account.
BasisOf(a) ==
    /\ balance[a].cash + position[a].basis - position[a].realized = GivenSum(txns[a])
    /\ position[a].basis >= 0
    /\ position[a].qty = 0 => position[a].basis = 0

\* A purchase adds its cost; a sale takes a part, and the last one all that is left.
LEMMA BasisMoves ==
    ASSUME NEW p \in Positions, p.basis >= 0, p.qty >= 0, p.qty = 0 => p.basis = 0,
           NEW n \in Nat \ {0}, NEW c \in Nat
    PROVE  /\ ApplyBuy(p, n, c).basis >= 0 /\ ApplyBuy(p, n, c).qty # 0
           /\ ApplyBuy(p, n, c).basis - ApplyBuy(p, n, c).realized = p.basis - p.realized + c
           /\ n <= p.qty =>
                /\ ApplySell(p, n, c).basis >= 0
                /\ ApplySell(p, n, c).qty = 0 => ApplySell(p, n, c).basis = 0
                /\ ApplySell(p, n, c).basis - ApplySell(p, n, c).realized = p.basis - p.realized - c
  <1>1. PICK q, b, r : q = p.qty /\ b = p.basis /\ r = p.realized
    OBVIOUS
  <1>2. q \in Int /\ b \in Int /\ r \in Int /\ b >= 0 /\ q >= 0
    BY <1>1 DEF Positions
  <1>3. ApplyBuy(p, n, c) = [qty |-> q + n, basis |-> b + c, realized |-> r]
    BY <1>1 DEF ApplyBuy
  <1>4. b + c >= 0 /\ q + n # 0 /\ (b + c) - r = b - r + c
    BY <1>2
  <1>5. ASSUME n <= q
        PROVE  /\ ApplySell(p, n, c).basis >= 0
               /\ ApplySell(p, n, c).qty = 0 => ApplySell(p, n, c).basis = 0
               /\ ApplySell(p, n, c).basis - ApplySell(p, n, c).realized = b - r - c
    <2>1. PICK k : k = CostOut(p, n)
      OBVIOUS
    <2>2. k \in Int /\ k <= b /\ (n = q => k = b)
      <3>1. q > 0
        BY <1>2, <1>5
      <3> QED BY <1>1, <1>2, <2>1, <3>1, CostOutType
    <2>3. ApplySell(p, n, c) = [qty |-> q - n, basis |-> b - k, realized |-> r + c - k]
      BY <1>1, <2>1 DEF ApplySell
    <2>4. b - k >= 0 /\ (q - n = 0 => b - k = 0) /\ (b - k) - (r + c - k) = b - r - c
      BY <1>2, <2>2
    <2> QED BY <2>3, <2>4
  <1> QED BY <1>1, <1>3, <1>4, <1>5

\* What is paid for shares goes into their basis, and what they fetch comes out of it
\* or is gained.
LEMMA BasisTxn ==
    ASSUME LedgerTypes, NEW a \in Accounts, NEW half, NEW legs, Enters(a, half, legs),
           position[a].qty >= 0, BasisOf(a),
           \/ half = NoHalf /\ legs["POSITION"] = 0
           \/ \E n \in Nat \ {0}, c \in Nat : /\ legs["CASH"] = -c /\ legs["POSITION"] = n
                                              /\ position'[a] = ApplyBuy(position[a], n, c)
           \/ \E n \in Nat \ {0}, c \in Nat : /\ n <= position[a].qty
                                              /\ legs["CASH"] = c /\ legs["POSITION"] = -n
                                              /\ position'[a] = ApplySell(position[a], n, c)
    PROVE  BasisOf(a)'
  <1>1. PICK p, u, g, x : p = position[a] /\ u = position'[a] /\ g = GivenSum(txns[a]) /\ x = balance[a].cash
    OBVIOUS
  <1>2. p \in Positions /\ u \in Positions /\ x \in Int /\ g \in Int
    <2>1. txns[a] \in Seq(Txns) /\ balance[a] \in [cash : Int, fees : Int] /\ p \in Positions
      BY <1>1 DEF LedgerTypes
    <2>2. u \in Positions /\ Txn(half, legs) \in Txns
      BY <1>1, Entered
    <2>3. g \in Int
      BY <1>1, <2>1, <2>2, GivenAppend
    <2> QED BY <1>1, <2>1, <2>2, <2>3
  <1>3. x + p.basis - p.realized = g /\ p.basis >= 0 /\ p.qty >= 0 /\ (p.qty = 0 => p.basis = 0)
    BY <1>1 DEF BasisOf
  <1>4. balance'[a].cash = x + legs["CASH"]
    BY <1>1, Entered
  <1>5. GivenSum(txns'[a]) = IF half = NoHalf /\ legs["POSITION"] = 0 THEN g + legs["CASH"] ELSE g
    <2>1. txns'[a] = Append(txns[a], Txn(half, legs)) /\ Txn(half, legs) \in Txns
      BY Entered
    <2>2. txns[a] \in Seq(Txns)
      BY DEF LedgerTypes
    <2>3. GivenSum(Append(txns[a], Txn(half, legs))) =
            IF Txn(half, legs).half = NoHalf /\ Txn(half, legs).legs["POSITION"] = 0
            THEN GivenSum(txns[a]) + Txn(half, legs).legs["CASH"] ELSE GivenSum(txns[a])
      BY <2>1, <2>2, GivenAppend
    <2>4. Txn(half, legs).half = half /\ Txn(half, legs).legs = legs
      BY DEF Txn
    <2> QED BY <1>1, <2>1, <2>3, <2>4
  <1>6. p.basis \in Int /\ p.realized \in Int /\ u.basis \in Int /\ u.realized \in Int
    BY <1>2 DEF Positions
  <1>7. CASE half = NoHalf /\ legs["POSITION"] = 0
    <2>1. u = p
      <3>1. position'[a] = PositionAfter(position[a], legs)
        BY Entered
      <3> QED BY <1>1, <1>7, <3>1 DEF PositionAfter
    <2>2. legs["CASH"] \in Int
      BY DEF Enters, Legs, Kinds, MoneyKinds
    <2>3. PICK c : c = legs["CASH"]
      OBVIOUS
    <2>4. (x + c) + p.basis - p.realized = g + c
      BY <1>2, <1>3, <1>6, <2>2, <2>3
    <2> QED BY <1>1, <1>3, <1>4, <1>5, <1>7, <2>1, <2>3, <2>4 DEF BasisOf
  <1>8. CASE \E n \in Nat \ {0}, c \in Nat : /\ legs["CASH"] = -c /\ legs["POSITION"] = n
                                             /\ position'[a] = ApplyBuy(position[a], n, c)
    <2>1. PICK n \in Nat \ {0}, c \in Nat : /\ legs["CASH"] = -c /\ legs["POSITION"] = n
                                            /\ u = ApplyBuy(p, n, c)
      BY <1>1, <1>8
    <2>2. u.basis >= 0 /\ u.qty # 0 /\ u.basis - u.realized = p.basis - p.realized + c
      BY <1>2, <1>3, <2>1, BasisMoves
    <2>3. PICK b, r, bb, rr : b = p.basis /\ r = p.realized /\ bb = u.basis /\ rr = u.realized
      OBVIOUS
    <2>4. (x + -c) + bb - rr = g
      BY <1>2, <1>3, <1>6, <2>2, <2>3
    <2>5. balance'[a].cash = x + -c /\ GivenSum(txns'[a]) = g
      BY <1>4, <1>5, <2>1
    <2> QED BY <1>1, <2>2, <2>3, <2>4, <2>5 DEF BasisOf
  <1>9. CASE \E n \in Nat \ {0}, c \in Nat : /\ n <= position[a].qty
                                             /\ legs["CASH"] = c /\ legs["POSITION"] = -n
                                             /\ position'[a] = ApplySell(position[a], n, c)
    <2>1. PICK n \in Nat \ {0}, c \in Nat : /\ n <= p.qty /\ legs["CASH"] = c /\ legs["POSITION"] = -n
                                            /\ u = ApplySell(p, n, c)
      BY <1>1, <1>9
    <2>2. u.basis >= 0 /\ (u.qty = 0 => u.basis = 0) /\ u.basis - u.realized = p.basis - p.realized - c
      BY <1>2, <1>3, <2>1, BasisMoves
    <2>3. PICK b, r, bb, rr : b = p.basis /\ r = p.realized /\ bb = u.basis /\ rr = u.realized
      OBVIOUS
    <2>4. (x + c) + bb - rr = g
      BY <1>2, <1>3, <1>6, <2>2, <2>3
    <2>5. balance'[a].cash = x + c /\ GivenSum(txns'[a]) = g
      <3>1. -n # 0
        BY <2>1
      <3> QED BY <1>4, <1>5, <2>1, <3>1
    <2> QED BY <1>1, <2>2, <2>3, <2>4, <2>5 DEF BasisOf
  <1> QED BY <1>7, <1>8, <1>9

-----------------------------------------------------------------------------
(* The invariant is kept. *)

\* The basis of every account.
LEMMA BasisOfAll == BasisIsWhatWasPaid <=> \A a \in Accounts : BasisOf(a)
  BY DEF BasisIsWhatWasPaid, BasisOf, GivenSum, GivenIn, GivenCash

\* At first nothing is recorded and nothing is held.
LEMMA InitLedger == LedgerInit => LedgerInv
  <1> SUFFICES ASSUME LedgerInit PROVE LedgerInv
    OBVIOUS
  <1>1. LedgerTypes
    BY DEF LedgerInit, LedgerTypes, Flat, Positions
  <1>2. \A a \in Accounts : /\ txns[a] = <<>> /\ Len(txns[a]) = 0 /\ DOMAIN txns[a] = {}
                            /\ balance[a].cash = 0 /\ balance[a].fees = 0 /\ position[a] = Flat
                            /\ snapshots[a] = {}
    BY DEF LedgerInit
  <1>3. \A a : HeldCash(a) = 0 /\ HeldShares(a) = 0
    <2>1. \A f \in Fills : fill[f] = NoFill
      BY DEF LedgerInit
    <2>2. \A a : Bought(a) = {} /\ Sold(a) = {}
      BY <2>1 DEF Bought, Sold, Open, Halves
    <2> QED BY <2>2, SumEmpty DEF HeldCash, HeldShares
  <1>4. Covered
    BY <1>2, <1>3 DEF Covered, Flat
  <1>5. \A a \in Accounts : \A kind : Posted(a, kind) = 0
    BY <1>2, SumEmpty DEF Posted
  <1>6. Posts
    BY <1>2, <1>5 DEF Posts, Flat
  <1>7. Entries
    <2>1. settled = <<>> /\ \A h : ~Contains(settled, h)
      BY DEF LedgerInit, Contains
    <2> QED BY <1>2, <2>1 DEF Entries, Range
  <1>8. BasisIsWhatWasPaid
    <2>1. \A a \in Accounts : GivenCash(a) = {}
      BY <1>2 DEF GivenCash
    <2>2. \A a \in Accounts : SumOver([i \in GivenCash(a) |-> txns[a][i].legs["CASH"]], GivenCash(a)) = 0
      BY <2>1, SumEmpty
    <2>3. \A a \in Accounts : position[a].basis = 0 /\ position[a].realized = 0 /\ balance[a].cash = 0
      BY <1>2 DEF Flat
    <2> QED BY <2>2, <2>3 DEF BasisIsWhatWasPaid
  <1>9. Recorded
    <2>1. \A a \in Accounts : After(txns[a], 0) = Genesis
      BY <1>1, GenesisWas
    <2>2. \A a \in Accounts : ProjectedState(a) = Genesis
      BY <1>2, <1>5 DEF ProjectedState, Genesis
    <2> QED BY <1>2, <2>1, <2>2 DEF Recorded
  <1>10. Stored
    BY <1>2 DEF LedgerInit, Stored
  <1>11. Kept
    BY DEF LedgerInit, Kept
  <1> QED BY <1>1, <1>4, <1>6, <1>7, <1>8, <1>9, <1>10, <1>11 DEF LedgerInv

\* A transaction on one account leaves the others' basis as it was.
LEMMA BasisOthers ==
    ASSUME LedgerTypes, BasisIsWhatWasPaid, NEW a \in Accounts, NEW half, NEW legs,
           Enters(a, half, legs), BasisOf(a)'
    PROVE  BasisIsWhatWasPaid'
  <1>1. \A b \in Accounts \ {a} : txns'[b] = txns[b] /\ balance'[b] = balance[b] /\ position'[b] = position[b]
    BY Entered
  <1>2. ASSUME NEW b \in Accounts PROVE BasisOf(b)'
    <2>1. CASE b = a
      BY <2>1
    <2>2. CASE b # a
      <3>1. BasisOf(b)
        BY BasisOfAll
      <3>2. GivenSum(txns'[b]) = GivenSum(txns[b])
        BY <1>1, <2>2
      <3> QED BY <1>1, <2>2, <3>1, <3>2 DEF BasisOf
    <2> QED BY <2>1, <2>2
  <1>3. BasisIsWhatWasPaid' <=> \A b \in Accounts : BasisOf(b)'
    BY DEF BasisIsWhatWasPaid, BasisOf, GivenSum, GivenIn, GivenCash
  <1> QED BY <1>2, <1>3

\* Nothing taken away.
LEMMA MinusZero == ASSUME NEW z \in Int, z = 0 PROVE -z = 0
  <1>1. \A y \in Int : -y = 0 - y
    OBVIOUS
  <1>2. -z = 0 - z
    BY <1>1
  <1> QED BY <1>2

\* Money in.
LEMMA DepositKeeps ==
    ASSUME LedgerInv, NEW a \in Accounts, Deposit(a)
    PROVE  LedgerInv'
  <1>0. LedgerTypes /\ Covered /\ Posts /\ Entries /\ BasisIsWhatWasPaid /\ Recorded /\ Stored /\ Kept
    BY DEF LedgerInv
  <1>1. UNCHANGED <<fill, settled, position, snapshots, keeper>>
    BY <1>0, DepositEnters
  <1>2. PICK amount \in Nat \ {0} : Enters(a, NoHalf, DepositLegs(amount))
    BY <1>0, DepositEnters
  <1>3. PICK legs : legs = DepositLegs(amount)
    OBVIOUS
  <1>4. Enters(a, NoHalf, legs) /\ Amounts(legs, amount, 0, 0, -amount, 0, 0, 0)
    BY <1>2, <1>3, DepositAmounts
  <1>5. Brings(legs) /\ legs["CASH"] = amount /\ legs["POSITION"] = 0
    <2>2. legs["POSITION"] = 0 /\ legs["POSITION"] \in Int
      BY <1>4 DEF Amounts, Legs, Kinds, ShareKinds
    <2>3. -legs["POSITION"] = 0
      BY <2>2, MinusZero
    <2> QED BY <1>4, <2>3 DEF Brings, Amounts
  <1>6. LedgerTypes'
    BY <1>0, <1>1, <1>4, Entered DEF LedgerTypes
  <1>7. Covered'
    <2>1. HeldCash(a) <= balance[a].cash + amount
      <3>1. HeldCash(a) \in Nat /\ balance[a].cash \in Int /\ HeldCash(a) <= balance[a].cash
        BY <1>0, HeldType DEF Covered, LedgerTypes
      <3>2. PICK m, n : m = HeldCash(a) /\ n = balance[a].cash
        OBVIOUS
      <3>3. m <= n + amount
        BY <3>1, <3>2
      <3> QED BY <3>2, <3>3
    <2> QED BY <1>0, <1>1, <1>4, <1>5, <2>1, CoveredOutside
  <1>8. Posts' /\ Recorded' /\ Stored' /\ Kept'
    BY <1>0, <1>1, <1>4, RecordsTxn
  <1>9. Entries'
    BY <1>0, <1>1, <1>4, <1>5, EntersEntry
  <1>10. BasisIsWhatWasPaid'
    <2>1. BasisOf(a) /\ position[a].qty >= 0
      <3>1. HeldShares(a) \in Nat /\ position[a].qty \in Int /\ HeldShares(a) <= position[a].qty
        BY <1>0, HeldType DEF Covered, LedgerTypes, Positions
      <3> QED BY <1>0, <3>1, BasisOfAll
    <2>2. BasisOf(a)'
      BY <1>0, <1>4, <1>5, <2>1, BasisTxn
    <2> QED BY <1>0, <1>4, <2>2, BasisOthers
  <1> QED BY <1>6, <1>7, <1>8, <1>9, <1>10 DEF LedgerInv

\* Shares in.
LEMMA SeedKeeps ==
    ASSUME LedgerInv, NEW a \in Accounts, SeedShares(a)
    PROVE  LedgerInv'
  <1>0. LedgerTypes /\ Covered /\ Posts /\ Entries /\ BasisIsWhatWasPaid /\ Recorded /\ Stored /\ Kept
    BY DEF LedgerInv
  <1>1. UNCHANGED <<fill, settled, snapshots, keeper>>
    BY <1>0, SeedEnters
  <1>2. PICK qty \in Nat \ {0}, cost \in Nat :
          /\ Enters(a, NoHalf, SeedLegs(qty, cost))
          /\ cost <= balance[a].cash - HeldCash(a)
          /\ position' = [position EXCEPT ![a] = ApplyBuy(@, qty, cost)]
    BY <1>0, SeedEnters
  <1>3. PICK legs : legs = SeedLegs(qty, cost)
    OBVIOUS
  <1>4. Enters(a, NoHalf, legs) /\ Amounts(legs, -cost, 0, 0, cost, qty, 0, -qty)
    BY <1>2, <1>3, SeedAmounts
  <1>5. Brings(legs) /\ legs["CASH"] = -cost /\ legs["POSITION"] = qty
    <2>1. -(-cost) = cost
      OBVIOUS
    <2> QED BY <1>4, <2>1 DEF Brings, Amounts
  <1>6. LedgerTypes'
    BY <1>0, <1>1, <1>4, Entered DEF LedgerTypes
  <1>7. HeldShares(a) \in Nat /\ position[a].qty \in Int /\ HeldShares(a) <= position[a].qty
        /\ HeldCash(a) \in Nat /\ balance[a].cash \in Int
    BY <1>0, HeldType DEF Covered, LedgerTypes, Positions
  <1>8. Covered'
    <2>1. HeldCash(a) <= balance[a].cash + -cost
      <3>1. PICK m, n : m = HeldCash(a) /\ n = balance[a].cash
        OBVIOUS
      <3>2. m <= n + -cost
        BY <1>2, <1>7, <3>1
      <3> QED BY <3>1, <3>2
    <2> QED BY <1>0, <1>1, <1>4, <1>5, <2>1, CoveredOutside
  <1>9. Posts' /\ Recorded' /\ Stored' /\ Kept'
    BY <1>0, <1>1, <1>4, RecordsTxn
  <1>10. Entries'
    BY <1>0, <1>1, <1>4, <1>5, EntersEntry
  <1>11. BasisIsWhatWasPaid'
    <2>1. BasisOf(a) /\ position[a].qty >= 0
      BY <1>0, <1>7, BasisOfAll
    <2>2. position'[a] = ApplyBuy(position[a], qty, cost)
      BY <1>0, <1>2 DEF LedgerTypes
    <2>3. \E n \in Nat \ {0}, c \in Nat : /\ legs["CASH"] = -c /\ legs["POSITION"] = n
                                          /\ position'[a] = ApplyBuy(position[a], n, c)
      BY <1>5, <2>2
    <2>4. BasisOf(a)'
      BY <1>0, <1>4, <2>1, <2>3, BasisTxn
    <2> QED BY <1>0, <1>4, <2>4, BasisOthers
  <1> QED BY <1>6, <1>8, <1>9, <1>10, <1>11 DEF LedgerInv

\* A half of a fill.
LEMMA SettleKeeps ==
    ASSUME LedgerInv, NEW h \in Halves, SettleHalf(h)
    PROVE  LedgerInv'
  <1>0. LedgerTypes /\ Covered /\ Posts /\ Entries /\ BasisIsWhatWasPaid /\ Recorded /\ Stored /\ Kept
    BY DEF LedgerInv
  <1>1. /\ UNCHANGED <<fill, snapshots, keeper>> /\ settled' = Append(settled, h)
        /\ fill[h[1]] # NoFill /\ ~Contains(settled, h)
    BY <1>0, SettleEnters
  <1>2. PICK a, q, cost, proceeds : /\ a = Owner(h) /\ q = fill[h[1]].qty
                                    /\ cost = CostOf(h) /\ proceeds = ProceedsOf(h)
    OBVIOUS
  <1>3. a \in Accounts /\ q \in Nat \ {0} /\ cost \in Nat /\ proceeds \in Nat /\ Buys(h) \in BOOLEAN
    BY <1>0, <1>1, <1>2, HalfType DEF FillTerms
  <1>4. PICK legs :
          /\ Enters(a, h, legs)
          /\ Buys(h) =>
               /\ Amounts(legs, -cost, FeeOf(h, NotionalOf(h)), NotionalOf(h), 0, q, -q, 0)
               /\ position' = [position EXCEPT ![a] = ApplyBuy(@, q, cost)]
          /\ ~Buys(h) =>
               /\ Amounts(legs, proceeds, FeeOf(h, NotionalOf(h)), -NotionalOf(h), 0, -q, q, 0)
               /\ position' = [position EXCEPT ![a] = ApplySell(@, q, proceeds)]
    BY <1>0, <1>2, SettleEnters
  <1>5. Settles(h, legs)
    BY <1>2, <1>4 DEF Settles
  <1>6. LedgerTypes'
    <2>1. settled' \in Seq(Halves)
      BY <1>0, <1>1 DEF LedgerTypes
    <2> QED BY <1>0, <1>1, <1>3, <1>4, <2>1, Entered DEF LedgerTypes
  <1>7. Covered'
    BY <1>0, CoveredSettle
  <1>8. Posts' /\ Recorded' /\ Stored' /\ Kept'
    BY <1>0, <1>1, <1>3, <1>4, RecordsTxn
  <1>9. Entries'
    BY <1>0, <1>1, <1>2, <1>3, <1>4, <1>5, EntersEntry
  <1>10. BasisIsWhatWasPaid'
    <2>1. HeldShares(a) \in Nat /\ position[a].qty \in Int /\ HeldShares(a) <= position[a].qty
      BY <1>0, <1>3, HeldType DEF Covered, LedgerTypes, Positions
    <2>2. BasisOf(a) /\ position[a].qty >= 0
      BY <1>0, <1>3, <2>1, BasisOfAll
    <2>3. CASE Buys(h)
      <3>1. legs["CASH"] = -cost /\ legs["POSITION"] = q /\ position'[a] = ApplyBuy(position[a], q, cost)
        BY <1>0, <1>3, <1>4, <2>3 DEF Amounts, LedgerTypes
      <3>2. \E n \in Nat \ {0}, c \in Nat : /\ legs["CASH"] = -c /\ legs["POSITION"] = n
                                            /\ position'[a] = ApplyBuy(position[a], n, c)
        BY <1>3, <3>1
      <3>3. BasisOf(a)'
        BY <1>0, <1>3, <1>4, <2>2, <3>2, BasisTxn
      <3> QED BY <1>0, <1>3, <1>4, <3>3, BasisOthers
    <2>4. CASE ~Buys(h)
      <3>1. legs["CASH"] = proceeds /\ legs["POSITION"] = -q
            /\ position'[a] = ApplySell(position[a], q, proceeds)
        BY <1>0, <1>3, <1>4, <2>4 DEF Amounts, LedgerTypes
      <3>2. q <= position[a].qty
        <4>1. h \in Sold(a)
          BY <1>1, <1>2, <2>4 DEF Sold, Open
        <4>2. q <= HeldShares(a)
          BY <1>0, <1>2, <1>3, <4>1, HeldType
        <4> QED BY <1>3, <2>1, <4>2
      <3>3. \E n \in Nat \ {0}, c \in Nat : /\ n <= position[a].qty
                                            /\ legs["CASH"] = c /\ legs["POSITION"] = -n
                                            /\ position'[a] = ApplySell(position[a], n, c)
        BY <1>3, <3>1, <3>2
      <3>4. BasisOf(a)'
        BY <1>0, <1>3, <1>4, <2>2, <3>3, BasisTxn
      <3> QED BY <1>0, <1>3, <1>4, <3>4, BasisOthers
    <2> QED BY <2>3, <2>4
  <1> QED BY <1>6, <1>7, <1>8, <1>9, <1>10 DEF LedgerInv

\* A fill that is published.
LEMMA PublishKeeps ==
    ASSUME LedgerInv, NEW f \in Fills, PublishFill(f)
    PROVE  LedgerInv'
  <1>0. LedgerTypes /\ Covered /\ Posts /\ Entries /\ BasisIsWhatWasPaid /\ Recorded /\ Stored /\ Kept
    BY DEF LedgerInv
  <1>1. /\ fill[f] = NoFill /\ fill' \in [Fills -> FillTerms \union {NoFill}]
        /\ \A g \in Fills \ {f} : fill'[g] = fill[g]
        /\ UNCHANGED <<txns, balance, position, settled, snapshots, keeper>>
        /\ \A a \in Accounts : HeldCash(a)' <= balance[a].cash /\ HeldShares(a)' <= position[a].qty
    BY <1>0, PublishTypes
  <1>2. LedgerTypes'
    BY <1>0, <1>1 DEF LedgerTypes
  <1>3. Covered'
    BY <1>1 DEF Covered
  <1>4. Posts' /\ Recorded' /\ Stored' /\ Kept'
    BY <1>0, <1>1, RecordsSame
  <1>5. Entries'
    BY <1>0, <1>1, EntriesPublish
  <1>6. BasisIsWhatWasPaid'
    BY <1>0, <1>1 DEF BasisIsWhatWasPaid, GivenCash
  <1> QED BY <1>2, <1>3, <1>4, <1>5, <1>6 DEF LedgerInv

\* A step that leaves the accounts alone.
LEMMA AccountsSame ==
    ASSUME LedgerTypes, Covered, Posts, Entries, BasisIsWhatWasPaid, Recorded, UNCHANGED accountVars
    PROVE  LedgerTypes' /\ Covered' /\ Posts' /\ Entries' /\ BasisIsWhatWasPaid' /\ Recorded'
  <1>1. UNCHANGED <<fill, txns, balance, position, settled>>
    BY DEF accountVars
  <1>2. LedgerTypes'
    BY <1>1 DEF LedgerTypes
  <1>3. Covered'
    BY <1>1, HeldSame DEF Covered
  <1>4. \A a, kind : Posted(a, kind)' = Posted(a, kind)
    BY <1>1 DEF Posted
  <1>5. \A a : ProjectedState(a)' = ProjectedState(a)
    BY <1>1, <1>4 DEF ProjectedState
  <1>6. Posts' /\ Recorded'
    BY <1>1, <1>4, <1>5 DEF Posts, Recorded
  <1>7. Entries'
    <2>1. \A h : Owner(h)' = Owner(h) /\ \A legs : Settles(h, legs)' = Settles(h, legs)
      BY <1>1, SameTerms
    <2>2. \A legs : Brings(legs)' = Brings(legs)
      BY DEF Brings, Amounts
    <2>3. \A a, t : Entry(a, t)' = Entry(a, t)
      BY <1>1, <2>1, <2>2 DEF Entry
    <2> QED BY <1>1, <2>1, <2>3 DEF Entries
  <1>8. BasisIsWhatWasPaid'
    BY <1>1 DEF BasisIsWhatWasPaid, GivenCash
  <1> QED BY <1>2, <1>3, <1>6, <1>7, <1>8

\* Every step keeps the invariant.
LEMMA StepLedger == LedgerInv /\ [Next]_vars => LedgerInv'
  <1> SUFFICES ASSUME LedgerInv, [Next]_vars PROVE LedgerInv'
    OBVIOUS
  <1>0. LedgerTypes /\ Covered /\ Posts /\ Entries /\ BasisIsWhatWasPaid /\ Recorded /\ Stored /\ Kept
    BY DEF LedgerInv
  <1>1. ASSUME NEW a \in Accounts, Deposit(a) PROVE LedgerInv'
    BY <1>1, DepositKeeps
  <1>2. ASSUME NEW a \in Accounts, SeedShares(a) PROVE LedgerInv'
    BY <1>2, SeedKeeps
  <1>3. ASSUME NEW f \in Fills, PublishFill(f) PROVE LedgerInv'
    BY <1>3, PublishKeeps
  <1>4. ASSUME NEW h \in Halves, SettleHalf(h) PROVE LedgerInv'
    BY <1>4, SettleKeeps
  <1>5. ASSUME NEW k \in Checkpointers, CheckpointStep(k) PROVE LedgerInv'
    BY <1>0, <1>5, CheckpointKeeps, AccountsSame DEF LedgerInv
  <1>6. ASSUME UNCHANGED <<accountVars, snapshotVars>> PROVE LedgerInv'
    <2>1. UNCHANGED <<txns, snapshots, keeper>>
      BY <1>6 DEF accountVars, snapshotVars
    <2>2. Stored' /\ Kept'
      BY <1>0, <2>1 DEF Stored, Kept, Was
    <2> QED BY <1>0, <1>6, <2>2, AccountsSame DEF LedgerInv
  <1>7. CASE LedgerNext
    BY <1>1, <1>2, <1>3, <1>4, <1>5, <1>7 DEF LedgerNext, CheckpointStep
  <1>8. CASE BeginReconcile \/ ReconcileSlice \/ Report \/ WindowPasses \/ UNCHANGED vars
    BY <1>6, <1>8 DEF BeginReconcile, ReconcileSlice, Report, WindowPasses, vars
  <1> QED BY <1>7, <1>8 DEF Next

\* The invariant holds throughout.
THEOREM LedgerHolds == Spec => []LedgerInv
  <1>1. Init => LedgerInv
    BY InitLedger DEF Init
  <1>2. LedgerInv /\ [Next]_vars => LedgerInv'
    BY StepLedger
  <1> QED BY <1>1, <1>2, PTL DEF Spec

\* Whichever checkpoint an account is recovered from, and whatever checkpointers
\* have interleaved, its ledger's tail leads to the balance and the position that
\* are kept (RecoverState against ProjectedState).
THEOREM RecoveryExact == Spec => []RecoveryAgrees
  <1>1. LedgerInv => RecoveryAgrees
    <2> SUFFICES ASSUME LedgerInv, NEW a \in Accounts, NEW s \in snapshots[a] \union {Genesis}
                 PROVE  ReplayAccountFrom(a, DecodeState(s)) = ProjectedState(a)
      BY DEF RecoveryAgrees
    <2>1. LedgerTypes /\ Recorded /\ Stored
      BY DEF LedgerInv
    <2>2. PICK n \in 0 .. Len(txns[a]) : DecodeState(s) = After(txns[a], n)
      <3>1. CASE s \in snapshots[a]
        BY <2>1, <3>1, StoredState
      <3>2. CASE s = Genesis
        <4>1. Genesis \in States
          BY DEF Genesis, States, Flat, Positions
        <4>2. DecodeState(s) = Genesis
          BY <3>2, <4>1, DecodeEncode
        <4> QED BY <2>1, <4>2, GenesisWas
      <3> QED BY <3>1, <3>2
    <2> QED BY <2>1, <2>2, ReplayReaches
  <1> QED BY <1>1, LedgerHolds, PTL

\* Cash is what was deposited less what the shares held cost and plus what those
\* sold gained, no basis is negative and none outlives the last share (applyBuy,
\* applySell), for every price, rate and width of the product in applySell.
THEOREM BasisExact == Spec => []BasisIsWhatWasPaid
  <1>1. LedgerInv => BasisIsWhatWasPaid
    BY DEF LedgerInv
  <1> QED BY <1>1, LedgerHolds, PTL

\* No account's newest checkpoint is lost to, or replaced by, an older one, though
\* a checkpointer inserts and prunes without a lock (Snapshot).
THEOREM NewestKept == Spec => NewestSurvives
  <1> DEFINE Survives(a) == snapshots[a] # {} => /\ snapshots'[a] # {}
                                                 /\ Newest(snapshots[a]).seq <= Newest(snapshots'[a]).seq
  <1>1. ASSUME LedgerInv, [Next]_vars
        PROVE  [\A a \in Accounts : Survives(a)]_snapshots
    <2>0. LedgerTypes /\ Recorded /\ Stored /\ Kept
      BY <1>1 DEF LedgerInv
    <2>1. ASSUME NEW a \in Accounts, NEW m \in Nat, \A s \in snapshots'[a] : s.seq \in 0 .. m,
                 snapshots[a] # {} => Newest(snapshots[a]) \in snapshots'[a]
          PROVE  Survives(a)
      <3> SUFFICES ASSUME snapshots[a] # {}
                   PROVE  /\ snapshots'[a] # {}
                          /\ Newest(snapshots[a]).seq <= Newest(snapshots'[a]).seq
        OBVIOUS
      <3>1. snapshots'[a] # {}
        BY <2>1
      <3>2. \A t \in snapshots'[a] : t.seq <= Newest(snapshots'[a]).seq
        BY <2>1, <3>1, NewestExists
      <3> QED BY <2>1, <3>1, <3>2
    <2>2. \A a \in Accounts : /\ Len(txns[a]) \in Nat
                              /\ \A s \in snapshots[a] : s.seq \in 0 .. Len(txns[a])
                              /\ snapshots[a] # {} =>
                                   /\ Newest(snapshots[a]) \in snapshots[a]
                                   /\ \A t \in snapshots[a] : t.seq <= Newest(snapshots[a]).seq
      <3> SUFFICES ASSUME NEW a \in Accounts
                   PROVE  /\ Len(txns[a]) \in Nat
                          /\ \A s \in snapshots[a] : s.seq \in 0 .. Len(txns[a])
                          /\ snapshots[a] # {} =>
                               /\ Newest(snapshots[a]) \in snapshots[a]
                               /\ \A t \in snapshots[a] : t.seq <= Newest(snapshots[a]).seq
        OBVIOUS
      <3>1. Len(txns[a]) \in Nat /\ \A s \in snapshots[a] : s.seq \in 0 .. Len(txns[a])
        BY <2>0, StoredNumbers
      <3> QED BY <3>1, NewestExists
    <2> HIDE DEF Survives
    <2>3. ASSUME NEW k \in Checkpointers, InsertSnapshot(k)
          PROVE  \A a \in Accounts : Survives(a)
      <3>1. PICK b, w : b = keeper[k].account /\ w = keeper[k].state
        OBVIOUS
      <3>2. b \in Accounts /\ Was(b, w)
        BY <2>0, <2>3, <3>1 DEF InsertSnapshot, Kept, Idle
      <3>3. Encode(w).seq \in 0 .. Len(txns[b])
        <4>1. PICK n \in 0 .. Len(txns[b]) : w = After(txns[b], n)
          BY <3>2 DEF Was
        <4>2. txns[b] \in Seq(Txns)
          BY <2>0, <3>2 DEF LedgerTypes
        <4>3. w \in States /\ w.seq = n
          BY <4>1, <4>2, AfterType
        <4> QED BY <4>3, DecodeEncode
      <3>4. \A a \in Accounts : /\ snapshots[a] \subseteq snapshots'[a]
                                /\ \A s \in snapshots'[a] : s \in snapshots[a] \/ (a = b /\ s = Encode(w))
        BY <2>0, <2>3, <3>1, <3>2 DEF InsertSnapshot, Stored
      <3>5. \A a \in Accounts : /\ \A s \in snapshots'[a] : s.seq \in 0 .. Len(txns[a])
                                /\ snapshots[a] # {} => Newest(snapshots[a]) \in snapshots'[a]
        BY <2>2, <3>3, <3>4
      <3> QED BY <2>1, <2>2, <3>5
    <2>4. ASSUME NEW k \in Checkpointers, PruneSnapshots(k)
          PROVE  \A a \in Accounts : Survives(a)
      <3>1. \A a \in Accounts : snapshots'[a] \in {snapshots[a], Pruned(snapshots[a])}
        BY <2>0, <2>4 DEF PruneSnapshots, Stored
      <3>2. ASSUME NEW a \in Accounts, snapshots[a] # {}
            PROVE  Newest(snapshots[a]) \in Pruned(snapshots[a])
        <4>1. PICK S, s : S = snapshots[a] /\ s = Newest(snapshots[a])
          OBVIOUS
        <4>2. s \in S /\ \A t \in S : t.seq <= s.seq /\ t.seq \in Nat /\ s.seq \in Nat
          BY <2>2, <3>2, <4>1
        <4>3. {t \in S : t.seq > s.seq} = {}
          <5>1. \A t \in S : ~(t.seq > s.seq)
            BY <4>2
          <5> QED BY <5>1
        <4>4. Cardinality({t \in S : t.seq > s.seq}) < SnapshotsKept
          <5>1. Cardinality({}) = 0
            BY FS_EmptySet
          <5>2. 0 < SnapshotsKept
            BY LedgerAssumption DEF LedgerAssumption
          <5> QED BY <4>3, <5>1, <5>2
        <4> QED BY <4>1, <4>2, <4>4 DEF Pruned
      <3>3. \A a \in Accounts : /\ \A s \in snapshots'[a] : s.seq \in 0 .. Len(txns[a])
                                /\ snapshots[a] # {} => Newest(snapshots[a]) \in snapshots'[a]
        BY <2>2, <3>1, <3>2 DEF Pruned
      <3> QED BY <2>1, <2>2, <3>3
    <2>5. CASE UNCHANGED snapshots
      BY <2>5
    <2>6. CASE \E k \in Checkpointers : InsertSnapshot(k) \/ PruneSnapshots(k)
      BY <2>3, <2>4, <2>6
    <2> QED
      <3>1. UNCHANGED snapshots \/ \E k \in Checkpointers : InsertSnapshot(k) \/ PruneSnapshots(k)
        BY <1>1 DEF Next, LedgerNext, Deposit, SeedShares, PublishFill, SettleHalf, LoadSnapshot,
           RecoverState, AbandonSnapshot, BeginReconcile, ReconcileSlice, Report, WindowPasses,
           vars, snapshotVars
      <3> QED BY <2>5, <2>6, <3>1
  <1> QED BY <1>1, LedgerHolds, PTL DEF Spec, NewestSurvives, Survives

-----------------------------------------------------------------------------
(* The checks that watch the ledgers. *)

\* The rows of some accounts.
RowsOf(A) == UNION {{a} \X DOMAIN txns[a] : a \in A}

Twin(h) == <<h[1], IF h[2] = "TAKER" THEN "MAKER" ELSE "TAKER">>

\* The two halves of a fill are twins.
LEMMA TwinType ==
    ASSUME NEW h \in Halves
    PROVE  /\ Twin(h) \in Halves /\ Twin(Twin(h)) = h /\ Twin(h) # h /\ Twin(h)[1] = h[1]
           /\ h[1] \in Fills /\ h[2] \in Roles
           /\ \A x \in Halves : x[1] = h[1] => x = h \/ x = Twin(h)
  <1>1. PICK f \in Fills, r \in Roles : h = <<f, r>>
    BY DEF Halves
  <1>2. ASSUME NEW x \in Halves, x[1] = h[1]
        PROVE  x = h \/ x = Twin(h)
    <2>1. PICK g \in Fills, s \in Roles : x = <<g, s>>
      BY DEF Halves
    <2> QED BY <1>1, <1>2, <2>1 DEF Twin, Roles
  <1> QED BY <1>1, <1>2 DEF Twin, Roles, Halves

\* Of two twins one buys and the other sells, for the same amount.
LEMMA TwinTerms ==
    ASSUME LedgerTypes, NEW h \in Halves, fill[h[1]] # NoFill
    PROVE  /\ Buys(Twin(h)) = ~Buys(h) /\ NotionalOf(Twin(h)) = NotionalOf(h)
           /\ {Owner(h), Owner(Twin(h))} = {fill[h[1]].taker, fill[h[1]].maker}
  <1>1. Twin(h)[1] = h[1] /\ h[2] \in Roles /\ Twin(h)[2] = IF h[2] = "TAKER" THEN "MAKER" ELSE "TAKER"
    BY TwinType DEF Twin
  <1>2. fill[h[1]].takerBuys \in BOOLEAN
    BY HalfType DEF FillTerms
  <1>3. Buys(Twin(h)) = ~Buys(h)
    <2>1. CASE h[2] = "TAKER"
      BY <1>1, <1>2, <2>1 DEF Buys
    <2>2. CASE h[2] = "MAKER"
      BY <1>1, <1>2, <2>2 DEF Buys
    <2> QED BY <1>1, <2>1, <2>2 DEF Roles
  <1>4. NotionalOf(Twin(h)) = NotionalOf(h)
    BY <1>1 DEF NotionalOf
  <1>5. {Owner(h), Owner(Twin(h))} = {fill[h[1]].taker, fill[h[1]].maker}
    BY <1>1 DEF Owner, Roles
  <1> QED BY <1>3, <1>4, <1>5

\* What a row is, and that there are finitely many.
LEMMA RowType ==
    ASSUME LedgerTypes, Entries, NEW A \in SUBSET Accounts
    PROVE  /\ IsFiniteSet(RowsOf(A))
           /\ \A r \in RowsOf(A) :
                /\ r[1] \in A /\ r[2] \in DOMAIN txns[r[1]] /\ r = <<r[1], r[2]>>
                /\ txns[r[1]][r[2]] \in Txns
                /\ Entry(r[1], txns[r[1]][r[2]])
                /\ \A kind \in Kinds : LegOf(r, kind) \in Int
  <1>1. IsFiniteSet(A)
    BY LedgerAssumption, FS_Subset DEF LedgerAssumption
  <1> DEFINE F == {B \in SUBSET A : IsFiniteSet(RowsOf(B))}
  <1>2. {} \in F
    <2>1. RowsOf({}) = {}
      BY DEF RowsOf
    <2> QED BY <2>1, FS_EmptySet
  <1>3. ASSUME NEW B \in SUBSET A, B \in F, NEW a \in A \ B
        PROVE  B \cup {a} \in F
    <2>1. txns[a] \in Seq(Txns)
      BY DEF LedgerTypes
    <2>2. PICK n \in Nat : DOMAIN txns[a] = 1 .. n
      BY <2>1
    <2>3. IsFiniteSet(DOMAIN txns[a]) /\ IsFiniteSet({a})
      <3>1. 1 \in Int /\ n \in Int
        OBVIOUS
      <3>2. IsFiniteSet(1 .. n)
        BY <3>1, FS_Interval
      <3> QED BY <2>2, <3>2, FS_Singleton
    <2>4. IsFiniteSet({a} \X DOMAIN txns[a])
      BY <2>3, FS_Product
    <2>5. RowsOf(B \cup {a}) = RowsOf(B) \cup ({a} \X DOMAIN txns[a])
      BY DEF RowsOf
    <2>6. IsFiniteSet(RowsOf(B))
      BY <1>3
    <2>7. IsFiniteSet(RowsOf(B \cup {a}))
      <3>1. IsFiniteSet(RowsOf(B) \cup ({a} \X DOMAIN txns[a]))
        BY <2>4, <2>6, FS_Union
      <3> QED BY <2>5, <3>1
    <2> QED BY <2>7
  <1>4. IsFiniteSet(RowsOf(A))
    <2> HIDE DEF F
    <2>1. A \in F
      BY <1>1, <1>2, <1>3, SetInduct
    <2> QED BY <2>1 DEF F
  <1>5. ASSUME NEW r \in RowsOf(A)
        PROVE  /\ r[1] \in A /\ r[2] \in DOMAIN txns[r[1]] /\ r = <<r[1], r[2]>>
               /\ txns[r[1]][r[2]] \in Txns
               /\ Entry(r[1], txns[r[1]][r[2]])
               /\ \A kind \in Kinds : LegOf(r, kind) \in Int
    <2>0. PICK a \in A : r \in {a} \X DOMAIN txns[a]
      BY DEF RowsOf
    <2>1. PICK i \in DOMAIN txns[a] : r = <<a, i>>
      BY <2>0
    <2>2. txns[a] \in Seq(Txns)
      BY DEF LedgerTypes
    <2>3. txns[a][i] \in Txns
      BY <2>2
    <2>4. Entry(a, txns[a][i])
      BY DEF Entries, Range
    <2>5. \A kind \in Kinds : txns[a][i].legs[kind] \in Int
      BY <2>3 DEF Txns, Legs
    <2> QED BY <2>1, <2>3, <2>4, <2>5 DEF LegOf
  <1> QED BY <1>4, <1>5

\* The amount of one member alone.
LEMMA SumSingle ==
    ASSUME NEW f, NEW x, f[x] \in Int
    PROVE  SumOver(f, {x}) = f[x]
  <1>1. IsFiniteSet({}) /\ x \notin {} /\ {} \cup {x} = {x}
    BY FS_EmptySet
  <1>2. SumOver(f, {} \cup {x}) = SumOver(f, {}) + f[x]
    BY <1>1, SumAdd
  <1>3. SumOver(f, {}) = 0
    BY SumEmpty
  <1> QED BY <1>1, <1>2, <1>3

\* There are finitely many kinds of ledger account.
LEMMA KindsFinite == IsFiniteSet(MoneyKinds) /\ IsFiniteSet(ShareKinds)
  <1>1. IsFiniteSet({"EXTERNAL"}) /\ IsFiniteSet({"SHARE_EXTERNAL"})
    BY FS_Singleton
  <1>2. IsFiniteSet({"EXTERNAL"} \cup {"CLEARING"}) /\ IsFiniteSet({"SHARE_EXTERNAL"} \cup {"SHARE_CLEARING"})
    BY <1>1, FS_AddElement
  <1>3. IsFiniteSet(({"EXTERNAL"} \cup {"CLEARING"}) \cup {"FEES"})
    BY <1>2, FS_AddElement
  <1>4. IsFiniteSet((({"EXTERNAL"} \cup {"CLEARING"}) \cup {"FEES"}) \cup {"CASH"})
    BY <1>3, FS_AddElement
  <1>5. IsFiniteSet(({"SHARE_EXTERNAL"} \cup {"SHARE_CLEARING"}) \cup {"POSITION"})
    BY <1>2, FS_AddElement
  <1>6. /\ MoneyKinds = (({"EXTERNAL"} \cup {"CLEARING"}) \cup {"FEES"}) \cup {"CASH"}
        /\ ShareKinds = ({"SHARE_EXTERNAL"} \cup {"SHARE_CLEARING"}) \cup {"POSITION"}
    BY DEF MoneyKinds, ShareKinds
  <1> QED BY <1>4, <1>5, <1>6

\* The legs of a row add up kind by kind.
LEMMA SumKinds ==
    ASSUME NEW legs \in Legs
    PROVE  /\ \A k \in Kinds : SumOver([j \in {k} |-> legs[j]], {k}) = legs[k]
           /\ SumOver([j \in MoneyKinds |-> legs[j]], MoneyKinds) =
                legs["CASH"] + legs["FEES"] + legs["CLEARING"] + legs["EXTERNAL"]
           /\ SumOver([j \in ShareKinds |-> legs[j]], ShareKinds) =
                legs["POSITION"] + legs["SHARE_CLEARING"] + legs["SHARE_EXTERNAL"]
  <1>1. \A k \in Kinds : legs[k] \in Int
    BY DEF Legs
  <1>2. \A k \in Kinds : SumOver([j \in {k} |-> legs[j]], {k}) = legs[k]
    <2> SUFFICES ASSUME NEW k \in Kinds PROVE SumOver([j \in {k} |-> legs[j]], {k}) = legs[k]
      OBVIOUS
    <2>1. PICK f : f = [j \in {k} |-> legs[j]]
      OBVIOUS
    <2>2. f[k] = legs[k] /\ f[k] \in Int
      BY <1>1, <2>1
    <2>3. SumOver(f, {k}) = f[k]
      BY <2>2, SumSingle
    <2> QED BY <2>1, <2>2, <2>3
  <1>4. SumOver([j \in MoneyKinds |-> legs[j]], MoneyKinds) =
          legs["CASH"] + legs["FEES"] + legs["CLEARING"] + legs["EXTERNAL"]
    <2>1. PICK f : f = [j \in MoneyKinds |-> legs[j]]
      OBVIOUS
    <2>2. /\ f["CASH"] = legs["CASH"] /\ f["FEES"] = legs["FEES"]
          /\ f["CLEARING"] = legs["CLEARING"] /\ f["EXTERNAL"] = legs["EXTERNAL"]
          /\ f["CASH"] \in Int /\ f["FEES"] \in Int /\ f["CLEARING"] \in Int /\ f["EXTERNAL"] \in Int
      BY <1>1, <2>1 DEF MoneyKinds, Kinds
    <2> DEFINE R == MoneyKinds \ {"CASH"}
               S == R \ {"FEES"}
               T == S \ {"CLEARING"}
    <2>3. T = {"EXTERNAL"} /\ "CASH" \in MoneyKinds /\ "FEES" \in R /\ "CLEARING" \in S
      BY DEF MoneyKinds
    <2>4. /\ \A k \in MoneyKinds : f[k] \in Int
          /\ \A k \in R : f[k] \in Int
          /\ \A k \in S : f[k] \in Int
      BY <2>2, <2>3 DEF MoneyKinds
    <2>5. IsFiniteSet(MoneyKinds) /\ IsFiniteSet(R) /\ IsFiniteSet(S)
      BY <2>3, KindsFinite, FS_Subset
    <2>6. SumOver(f, MoneyKinds) = SumOver(f, R) + f["CASH"]
      BY <2>3, <2>4, <2>5, SumRemove
    <2>7. SumOver(f, R) = SumOver(f, S) + f["FEES"]
      BY <2>3, <2>4, <2>5, SumRemove
    <2>8. SumOver(f, S) = SumOver(f, T) + f["CLEARING"]
      BY <2>3, <2>4, <2>5, SumRemove
    <2>9. SumOver(f, T) = f["EXTERNAL"]
      BY <2>2, <2>3, SumSingle
    <2>10. SumOver(f, MoneyKinds) = f["CASH"] + f["FEES"] + f["CLEARING"] + f["EXTERNAL"]
      BY <2>2, <2>6, <2>7, <2>8, <2>9
    <2> QED BY <2>1, <2>2, <2>10
  <1>5. SumOver([j \in ShareKinds |-> legs[j]], ShareKinds) =
          legs["POSITION"] + legs["SHARE_CLEARING"] + legs["SHARE_EXTERNAL"]
    <2>1. PICK f : f = [j \in ShareKinds |-> legs[j]]
      OBVIOUS
    <2>2. /\ f["POSITION"] = legs["POSITION"] /\ f["SHARE_CLEARING"] = legs["SHARE_CLEARING"]
          /\ f["SHARE_EXTERNAL"] = legs["SHARE_EXTERNAL"]
          /\ f["POSITION"] \in Int /\ f["SHARE_CLEARING"] \in Int /\ f["SHARE_EXTERNAL"] \in Int
      BY <1>1, <2>1 DEF ShareKinds, Kinds
    <2> DEFINE R == ShareKinds \ {"POSITION"}
               S == R \ {"SHARE_CLEARING"}
    <2>3. S = {"SHARE_EXTERNAL"} /\ "POSITION" \in ShareKinds /\ "SHARE_CLEARING" \in R
      BY DEF ShareKinds
    <2>4. (\A k \in ShareKinds : f[k] \in Int) /\ (\A k \in R : f[k] \in Int)
      BY <2>2, <2>3 DEF ShareKinds
    <2>5. IsFiniteSet(ShareKinds) /\ IsFiniteSet(R)
      BY <2>3, KindsFinite, FS_Subset
    <2>6. SumOver(f, ShareKinds) = SumOver(f, R) + f["POSITION"]
      BY <2>3, <2>4, <2>5, SumRemove
    <2>7. SumOver(f, R) = SumOver(f, S) + f["SHARE_CLEARING"]
      BY <2>3, <2>4, <2>5, SumRemove
    <2>8. SumOver(f, S) = f["SHARE_EXTERNAL"]
      BY <2>2, <2>3, SumSingle
    <2>9. SumOver(f, ShareKinds) = f["POSITION"] + f["SHARE_CLEARING"] + f["SHARE_EXTERNAL"]
      BY <2>2, <2>6, <2>7, <2>8
    <2> QED BY <2>1, <2>2, <2>9
  <1> QED BY <1>2, <1>4, <1>5

\* What one row adds to a sum over some kinds.
RowSum(r, kinds) == SumOver([k \in kinds |-> LegOf(r, k)], kinds)

\* Every transaction balances, in money and in shares.
LEMMA RowBalances ==
    ASSUME LedgerTypes, Entries, NEW A \in SUBSET Accounts, NEW r \in RowsOf(A)
    PROVE  /\ RowSum(r, MoneyKinds) = 0 /\ RowSum(r, ShareKinds) = 0
           /\ \A k \in Kinds : RowSum(r, {k}) = LegOf(r, k)
           /\ HalfOf(r) = NoHalf =>
                /\ LegOf(r, "CLEARING") = 0 /\ LegOf(r, "SHARE_CLEARING") = 0
                /\ LegOf(r, "POSITION") + LegOf(r, "SHARE_EXTERNAL") = 0
           /\ HalfOf(r) # NoHalf =>
                /\ HalfOf(r) \in Halves /\ Contains(settled, HalfOf(r))
                /\ fill[HalfOf(r)[1]] # NoFill /\ Owner(HalfOf(r)) = r[1]
                /\ LegOf(r, "CLEARING") = IF Buys(HalfOf(r)) THEN NotionalOf(HalfOf(r))
                                          ELSE -NotionalOf(HalfOf(r))
                /\ LegOf(r, "SHARE_CLEARING") = IF Buys(HalfOf(r)) THEN -fill[HalfOf(r)[1]].qty
                                                ELSE fill[HalfOf(r)[1]].qty
                /\ LegOf(r, "POSITION") = IF Buys(HalfOf(r)) THEN fill[HalfOf(r)[1]].qty
                                          ELSE -fill[HalfOf(r)[1]].qty
                /\ LegOf(r, "SHARE_EXTERNAL") = 0
  <1>1. PICK t, h, legs : t = txns[r[1]][r[2]] /\ h = t.half /\ legs = t.legs
    OBVIOUS
  <1>2. t \in Txns /\ Entry(r[1], t) /\ r[1] \in Accounts
    BY <1>1, RowType
  <1>3. h \in Halves \union {NoHalf} /\ legs \in Legs
    BY <1>1, <1>2 DEF Txns
  <1>4. HalfOf(r) = h /\ \A k : LegOf(r, k) = legs[k]
    BY <1>1 DEF HalfOf, LegOf
  <1>5. \A kinds : RowSum(r, kinds) = SumOver([k \in kinds |-> legs[k]], kinds)
    BY <1>4 DEF RowSum
  <1>6. /\ RowSum(r, MoneyKinds) = legs["CASH"] + legs["FEES"] + legs["CLEARING"] + legs["EXTERNAL"]
        /\ RowSum(r, ShareKinds) = legs["POSITION"] + legs["SHARE_CLEARING"] + legs["SHARE_EXTERNAL"]
        /\ \A k \in Kinds : RowSum(r, {k}) = legs[k]
    BY <1>3, <1>5, SumKinds
  <1>7. PICK cash, fees, clr, ext, pos, sclr, sext :
          /\ cash = legs["CASH"] /\ fees = legs["FEES"] /\ clr = legs["CLEARING"] /\ ext = legs["EXTERNAL"]
          /\ pos = legs["POSITION"] /\ sclr = legs["SHARE_CLEARING"] /\ sext = legs["SHARE_EXTERNAL"]
    OBVIOUS
  <1>8. cash \in Int /\ fees \in Int /\ clr \in Int /\ pos \in Int
    BY <1>3, <1>7 DEF Legs, Kinds, MoneyKinds, ShareKinds
  <1>9. CASE h = NoHalf
    <2>1. fees = 0 /\ clr = 0 /\ ext = -cash /\ sclr = 0 /\ sext = -pos
      BY <1>1, <1>2, <1>7, <1>9 DEF Entry, Brings, Amounts
    <2>2. cash + fees + clr + ext = 0 /\ pos + sclr + sext = 0 /\ pos + sext = 0
      BY <1>8, <2>1
    <2> QED BY <1>4, <1>6, <1>7, <1>9, <2>1, <2>2
  <1>10. CASE h # NoHalf
    <2>1. h \in Halves /\ Contains(settled, h) /\ Owner(h) = r[1] /\ Settles(h, legs)
      BY <1>1, <1>2, <1>3, <1>10 DEF Entry
    <2>2. fill[h[1]] # NoFill
      BY <2>1 DEF Entries
    <2>3. PICK n, f, q : n = NotionalOf(h) /\ f = FeeOf(h, NotionalOf(h)) /\ q = fill[h[1]].qty
      OBVIOUS
    <2>4. n \in Nat /\ f \in Nat /\ q \in Nat /\ CostOf(h) = n + f /\ ProceedsOf(h) = n - f
      BY <2>1, <2>2, <2>3, HalfType DEF FillTerms, CostOf, ProceedsOf
    <2>5. CASE Buys(h)
      <3>1. cash = -(n + f) /\ fees = f /\ clr = n /\ ext = 0 /\ pos = q /\ sclr = -q /\ sext = 0
        BY <1>7, <2>1, <2>3, <2>4, <2>5 DEF Settles, Amounts
      <3>2. cash + fees + clr + ext = 0 /\ pos + sclr + sext = 0
        BY <2>4, <3>1
      <3> QED BY <1>4, <1>6, <1>7, <1>10, <2>1, <2>2, <2>3, <2>5, <3>1, <3>2
    <2>6. CASE ~Buys(h)
      <3>1. cash = n - f /\ fees = f /\ clr = -n /\ ext = 0 /\ pos = -q /\ sclr = q /\ sext = 0
        BY <1>7, <2>1, <2>3, <2>4, <2>6 DEF Settles, Amounts
      <3>2. cash + fees + clr + ext = 0 /\ pos + sclr + sext = 0
        BY <2>4, <3>1
      <3> QED BY <1>4, <1>6, <1>7, <1>10, <2>1, <2>2, <2>3, <2>6, <3>1, <3>2
    <2> QED BY <2>5, <2>6
  <1> QED BY <1>9, <1>10

\* A half that settled has one row, of the account it belongs to.
LEMMA RowOfHalf ==
    ASSUME LedgerTypes, Entries
    PROVE  /\ \A q, r \in RowsOf(Accounts) : HalfOf(q) = HalfOf(r) /\ HalfOf(r) # NoHalf => q = r
           /\ \A h \in Halves : Contains(settled, h) =>
                /\ fill[h[1]] # NoFill
                /\ \E r \in RowsOf(Accounts) : HalfOf(r) = h /\ r[1] = Owner(h)
  <1>1. ASSUME NEW q \in RowsOf(Accounts), NEW r \in RowsOf(Accounts),
               HalfOf(q) = HalfOf(r), HalfOf(r) # NoHalf
        PROVE  q = r
    <2>1. /\ q[1] \in Accounts /\ q[2] \in DOMAIN txns[q[1]] /\ q = <<q[1], q[2]>>
          /\ r[1] \in Accounts /\ r[2] \in DOMAIN txns[r[1]] /\ r = <<r[1], r[2]>>
      BY RowType
    <2>2. Owner(HalfOf(q)) = q[1] /\ Owner(HalfOf(r)) = r[1]
      BY <1>1, RowBalances
    <2>3. q[1] = r[1]
      BY <1>1, <2>2
    <2>4. q[2] = r[2]
      BY <1>1, <2>1, <2>3 DEF Entries, HalfOf
    <2> QED BY <2>1, <2>3, <2>4
  <1>2. ASSUME NEW h \in Halves, Contains(settled, h)
        PROVE  /\ fill[h[1]] # NoFill
               /\ \E r \in RowsOf(Accounts) : HalfOf(r) = h /\ r[1] = Owner(h)
    <2>1. fill[h[1]] # NoFill /\ \E i \in DOMAIN txns[Owner(h)] : txns[Owner(h)][i].half = h
      BY <1>2 DEF Entries
    <2>2. PICK a : a = Owner(h)
      OBVIOUS
    <2>3. PICK i \in DOMAIN txns[a] : txns[a][i].half = h
      BY <2>1, <2>2
    <2>4. a \in Accounts
      BY <2>1, <2>2, HalfType
    <2>5. <<a, i>> \in RowsOf(Accounts)
      BY <2>3, <2>4 DEF RowsOf
    <2>6. HalfOf(<<a, i>>) = h /\ <<a, i>>[1] = a
      BY <2>3 DEF HalfOf
    <2> QED BY <2>1, <2>2, <2>5, <2>6
  <1> QED BY <1>1, <1>2

\* Rows whose halves come in twos.
Twinned(X) == \A r \in X : HalfOf(r) # NoHalf => \E q \in X : HalfOf(q) = Twin(HalfOf(r))

\* The rows of two twins post opposite amounts.
LEMMA TwinRows ==
    ASSUME LedgerTypes, Entries, NEW r \in RowsOf(Accounts), NEW q \in RowsOf(Accounts),
           HalfOf(r) # NoHalf, HalfOf(q) = Twin(HalfOf(r))
    PROVE  /\ HalfOf(q) # NoHalf /\ HalfOf(r) = Twin(HalfOf(q))
           /\ LegOf(q, "CLEARING") = -LegOf(r, "CLEARING")
           /\ LegOf(q, "SHARE_CLEARING") = -LegOf(r, "SHARE_CLEARING")
           /\ LegOf(q, "POSITION") = -LegOf(r, "POSITION")
  <1>1. PICK h, t : h = HalfOf(r) /\ t = HalfOf(q)
    OBVIOUS
  <1>2. h \in Halves /\ fill[h[1]] # NoFill
    BY <1>1, RowBalances
  <1>3. t = Twin(h) /\ t \in Halves /\ t # NoHalf /\ h = Twin(t) /\ t[1] = h[1]
    BY <1>1, <1>2, TwinType, HalfMarked
  <1>4. Buys(t) = ~Buys(h) /\ NotionalOf(t) = NotionalOf(h)
    BY <1>2, <1>3, TwinTerms
  <1>5. PICK n, s : n = NotionalOf(h) /\ s = fill[h[1]].qty
    OBVIOUS
  <1>6. n \in Nat /\ s \in Nat
    BY <1>2, <1>5, HalfType DEF FillTerms
  <1>7. /\ LegOf(r, "CLEARING") = IF Buys(h) THEN n ELSE -n
        /\ LegOf(r, "SHARE_CLEARING") = IF Buys(h) THEN -s ELSE s
        /\ LegOf(r, "POSITION") = IF Buys(h) THEN s ELSE -s
    BY <1>1, <1>5, RowBalances
  <1>8. /\ LegOf(q, "CLEARING") = IF Buys(h) THEN -n ELSE n
        /\ LegOf(q, "SHARE_CLEARING") = IF Buys(h) THEN s ELSE -s
        /\ LegOf(q, "POSITION") = IF Buys(h) THEN -s ELSE s
    BY <1>1, <1>3, <1>4, <1>5, RowBalances
  <1>9. -(-n) = n /\ -(-s) = s
    BY <1>6
  <1>10. CASE Buys(h)
    BY <1>1, <1>3, <1>7, <1>8, <1>9, <1>10
  <1>11. CASE ~Buys(h)
    BY <1>1, <1>3, <1>7, <1>8, <1>9, <1>11
  <1> QED BY <1>10, <1>11

\* What twins post with opposite signs, and other rows not at all, adds up to zero.
LEMMA TwinsCancel ==
    ASSUME LedgerTypes, Entries, NEW X \in SUBSET RowsOf(Accounts), Twinned(X), NEW f,
           \A r \in X : f[r] \in Int /\ (HalfOf(r) = NoHalf => f[r] = 0),
           \A r, q \in X : HalfOf(r) # NoHalf /\ HalfOf(q) = Twin(HalfOf(r)) => f[q] = -f[r]
    PROVE  SumOver(f, X) = 0
  <1>1. IsFiniteSet(X)
    BY RowType, FS_Subset
  <1>2. PICK m : m = [r \in X |-> IF HalfOf(r) = NoHalf THEN r
                                  ELSE CHOOSE q \in X : HalfOf(q) = Twin(HalfOf(r))]
    OBVIOUS
  <1>3. ASSUME NEW r \in X
        PROVE  f[r] \in Int /\ m[r] \in X /\ m[m[r]] = r /\ f[m[r]] = -f[r]
    <2>1. CASE HalfOf(r) = NoHalf
      <3>1. m[r] = r /\ f[r] = 0
        BY <1>2, <2>1
      <3>2. f[r] = -f[r]
        BY <3>1, MinusZero
      <3> QED BY <3>1, <3>2
    <2>2. CASE HalfOf(r) # NoHalf
      <3>1. PICK q : q = m[r]
        OBVIOUS
      <3>2. q = CHOOSE x \in X : HalfOf(x) = Twin(HalfOf(r))
        BY <1>2, <2>2, <3>1
      <3>3. q \in X /\ HalfOf(q) = Twin(HalfOf(r))
        BY <2>2, <3>2 DEF Twinned
      <3>4. HalfOf(q) # NoHalf /\ HalfOf(r) = Twin(HalfOf(q))
        BY <2>2, <3>3, TwinRows
      <3>5. PICK x : x = m[q]
        OBVIOUS
      <3>6. x = CHOOSE y \in X : HalfOf(y) = Twin(HalfOf(q))
        BY <1>2, <3>3, <3>4, <3>5
      <3>7. x \in X /\ HalfOf(x) = Twin(HalfOf(q))
        BY <3>4, <3>6
      <3>8. x = r
        BY <2>2, <3>4, <3>7, RowOfHalf
      <3>9. f[q] = -f[r] /\ f[r] \in Int
        BY <2>2, <3>3
      <3> QED BY <3>1, <3>3, <3>5, <3>8, <3>9
    <2> QED BY <2>1, <2>2
  <1> QED BY <1>1, <1>3, SumPaired

\* A sum over rows of one kind adds their legs.
LEMMA SumOfKind ==
    ASSUME LedgerTypes, Entries, NEW X \in SUBSET RowsOf(Accounts), NEW k \in Kinds
    PROVE  /\ IsFiniteSet(X)
           /\ \A r \in X : LegOf(r, k) \in Int
           /\ SumOf(X, {k}) = SumOver([r \in X |-> LegOf(r, k)], X)
  <1>1. IsFiniteSet(X) /\ \A r \in X : LegOf(r, k) \in Int
    BY RowType, FS_Subset
  <1>2. \A r \in X : RowSum(r, {k}) = LegOf(r, k)
    BY RowBalances
  <1>3. [r \in X |-> RowSum(r, {k})] = [r \in X |-> LegOf(r, k)]
    BY <1>2
  <1>4. SumOf(X, {k}) = SumOver([r \in X |-> RowSum(r, {k})], X)
    BY DEF SumOf, RowSum
  <1> QED BY <1>1, <1>3, <1>4

\* Rows whose halves come in twos leave nothing in the clearing accounts, and
\* move no shares but those brought from outside.
LEMMA TwinnedSums ==
    ASSUME LedgerTypes, Entries, NEW X \in SUBSET RowsOf(Accounts), Twinned(X)
    PROVE  /\ SumOf(X, {"CLEARING"}) = 0 /\ SumOf(X, {"SHARE_CLEARING"}) = 0
           /\ SumOf(X, {"POSITION"}) + SumOf(X, {"SHARE_EXTERNAL"}) = 0
  <1>0. {"CLEARING", "SHARE_CLEARING", "POSITION", "SHARE_EXTERNAL"} \subseteq Kinds
    BY DEF Kinds, MoneyKinds, ShareKinds
  <1>1. ASSUME NEW k \in {"CLEARING", "SHARE_CLEARING"}
        PROVE  SumOf(X, {k}) = 0
    <2>1. PICK f : f = [r \in X |-> LegOf(r, k)]
      OBVIOUS
    <2>2. \A r \in X : f[r] = LegOf(r, k) /\ f[r] \in Int
      BY <1>0, <2>1, SumOfKind
    <2>3. \A r \in X : f[r] \in Int /\ (HalfOf(r) = NoHalf => f[r] = 0)
      BY <2>2, RowBalances
    <2>4. \A r, q \in X : HalfOf(r) # NoHalf /\ HalfOf(q) = Twin(HalfOf(r)) => f[q] = -f[r]
      BY <2>2, TwinRows
    <2>5. SumOver(f, X) = 0
      BY <2>3, <2>4, TwinsCancel
    <2> QED BY <1>0, <2>1, <2>5, SumOfKind
  <1>2. SumOf(X, {"POSITION"}) + SumOf(X, {"SHARE_EXTERNAL"}) = 0
    <2>1. PICK f, g, h : /\ f = [r \in X |-> LegOf(r, "POSITION")]
                         /\ g = [r \in X |-> LegOf(r, "SHARE_EXTERNAL")]
                         /\ h = [r \in X |-> LegOf(r, "POSITION") + LegOf(r, "SHARE_EXTERNAL")]
      OBVIOUS
    <2>2. \A r \in X : f[r] = LegOf(r, "POSITION") /\ f[r] \in Int
      BY <1>0, <2>1, SumOfKind
    <2>3. \A r \in X : g[r] = LegOf(r, "SHARE_EXTERNAL") /\ g[r] \in Int
      BY <1>0, <2>1, SumOfKind
    <2>4. \A r \in X : h[r] = f[r] + g[r]
      BY <2>1, <2>2, <2>3
    <2>5. \A r \in X : h[r] \in Int /\ (HalfOf(r) = NoHalf => h[r] = 0)
      BY <2>2, <2>3, <2>4, RowBalances
    <2>6. ASSUME NEW r \in X, NEW q \in X, HalfOf(r) # NoHalf, HalfOf(q) = Twin(HalfOf(r))
          PROVE  h[q] = -h[r]
      <3>1. f[q] = -f[r] /\ HalfOf(q) # NoHalf
        BY <2>2, <2>6, TwinRows
      <3>2. g[q] = 0 /\ g[r] = 0
        BY <2>3, <2>6, <3>1, RowBalances
      <3>3. f[r] \in Int /\ f[q] \in Int /\ h[r] = f[r] + g[r] /\ h[q] = f[q] + g[q]
        BY <2>2, <2>4
      <3> QED BY <3>1, <3>2, <3>3
    <2>7. SumOver(h, X) = 0
      BY <2>5, <2>6, TwinsCancel
    <2>8. SumOver(h, X) = SumOver(f, X) + SumOver(g, X)
      <3>1. IsFiniteSet(X)
        BY <1>0, SumOfKind
      <3>2. \A r \in X : f[r] \in Int /\ g[r] \in Int /\ h[r] = f[r] + g[r]
        BY <2>2, <2>3, <2>4
      <3> QED BY <3>1, <3>2, SumPlus
    <2>9. SumOf(X, {"POSITION"}) = SumOver(f, X) /\ SumOf(X, {"SHARE_EXTERNAL"}) = SumOver(g, X)
      BY <1>0, <2>1, SumOfKind
    <2> QED BY <2>7, <2>8, <2>9
  <1> QED BY <1>1, <1>2

-----------------------------------------------------------------------------
(* What the checks find. *)

\* Every amount zero.
LEMMA SumNone ==
    ASSUME NEW S, IsFiniteSet(S), NEW f, \A x \in S : f[x] = 0
    PROVE  SumOver(f, S) = 0
  <1>1. PICK m : m = [x \in S |-> x]
    OBVIOUS
  <1>2. \A x \in S : f[x] = 0 /\ m[x] = x
    BY <1>1
  <1>3. \A x \in S : -f[x] = 0
    BY <1>2, MinusZero
  <1>4. \A x \in S : f[x] \in Int /\ m[x] \in S /\ m[m[x]] = x /\ f[m[x]] = -f[x]
    BY <1>2, <1>3
  <1> QED BY <1>4, SumPaired

\* The rows of the partitions are all the rows there are.
LEMMA RowsSplit ==
    /\ \A p : Rows(p) = RowsOf(AccountsIn(p)) /\ AccountsIn(p) \in SUBSET Accounts
    /\ \A p : Rows(p) \in SUBSET RowsOf(Accounts)
    /\ UNION {Rows(p) : p \in Partitions} = RowsOf(Accounts)
  <1>1. \A a \in Accounts : PartOf[a] \in Partitions
    BY LedgerAssumption DEF LedgerAssumption
  <1>2. \A p : Rows(p) = RowsOf(AccountsIn(p)) /\ AccountsIn(p) \in SUBSET Accounts
    BY DEF Rows, RowsOf, AccountsIn
  <1>3. \A p : Rows(p) \in SUBSET RowsOf(Accounts)
    BY <1>2 DEF RowsOf
  <1>4. \A r \in RowsOf(Accounts) : \E p \in Partitions : r \in Rows(p)
    <2> SUFFICES ASSUME NEW r \in RowsOf(Accounts) PROVE \E p \in Partitions : r \in Rows(p)
      OBVIOUS
    <2>1. PICK a \in Accounts : r \in {a} \X DOMAIN txns[a]
      BY DEF RowsOf
    <2>2. r \in Rows(PartOf[a])
      BY <2>1 DEF Rows, AccountsIn
    <2> QED BY <1>1, <2>2
  <1> QED BY <1>2, <1>3, <1>4

\* The rows of a partition are those of the accounts that live there.
LEMMA RowsWhere ==
    ASSUME LedgerTypes, Entries, NEW p
    PROVE  \A r \in RowsOf(Accounts) : r \in Rows(p) <=> PartOf[r[1]] = p
  <1> SUFFICES ASSUME NEW r \in RowsOf(Accounts) PROVE r \in Rows(p) <=> PartOf[r[1]] = p
    OBVIOUS
  <1>1. PICK a \in Accounts : r \in {a} \X DOMAIN txns[a]
    BY DEF RowsOf
  <1>2. r[1] = a
    BY <1>1
  <1>3. r \in Rows(p) => PartOf[r[1]] = p
    BY DEF Rows, AccountsIn
  <1>4. PartOf[a] = p => r \in Rows(p)
    BY <1>1 DEF Rows, AccountsIn
  <1> QED BY <1>2, <1>3, <1>4

\* A fill is open when one of its halves has settled and the other has not.
LEMMA OpenMeans ==
    ASSUME LedgerTypes, NEW h \in Halves, Contains(settled, h)
    PROVE  HalfOpen(h[1]) <=> ~Contains(settled, Twin(h))
  <1>1. PICK n : n = Len(settled)
    OBVIOUS
  <1>2. settled \in Seq(Halves) /\ n \in Nat /\ n = Len(settled) /\ DOMAIN settled = 1 .. n
    BY <1>1 DEF LedgerTypes
  <1>3. \A x : x \in Range(SubSeq(settled, 1, n)) <=> Contains(settled, x)
    <2>1. SubSeq(settled, 1, n) = settled
      BY <1>2
    <2> QED BY <1>2, <2>1 DEF Range, Contains
  <1>4. \A r \in Roles : <<h[1], r>> = h \/ <<h[1], r>> = Twin(h)
    BY TwinType DEF Halves
  <1>5. /\ h[1] \in Fills /\ h[2] \in Roles /\ h = <<h[1], h[2]>>
        /\ \E r \in Roles : Twin(h) = <<h[1], r>>
    BY DEF Halves, Twin, Roles
  <1>6. Both(h[1], n) <=> Contains(settled, Twin(h))
    BY <1>3, <1>4, <1>5 DEF Both
  <1>7. \E r \in Roles : Contains(settled, <<h[1], r>>)
    BY <1>5
  <1> QED BY <1>1, <1>6, <1>7 DEF HalfOpen

\* The rows of one fill in a partition: one of them, or two that are twins.
LEMMA HalvesCount ==
    ASSUME LedgerTypes, Entries, NEW p, NEW r \in Rows(p), HalfOf(r) # NoHalf
    PROVE  LET n == HalvesIn(p, HalfOf(r)[1])
           IN  IF \E q \in Rows(p) : HalfOf(q) = Twin(HalfOf(r)) THEN n = 2 ELSE n = 1
  <1>1. PICK h, f : h = HalfOf(r) /\ f = h[1]
    OBVIOUS
  <1>2. h \in Halves /\ Twin(h) \in Halves /\ Twin(h) # h /\ Twin(h)[1] = f /\ h # NoHalf
    BY <1>1, RowsSplit, RowBalances, TwinType
  <1>3. PICK H : H = {q \in Rows(p) : HalfOf(q) # NoHalf /\ HalfOf(q)[1] = f}
    OBVIOUS
  <1>4. r \in H /\ HalvesIn(p, f) = Cardinality(H)
    BY <1>1, <1>3 DEF HalvesIn
  <1>5. ASSUME NEW q \in H
        PROVE  q = r \/ HalfOf(q) = Twin(h)
    <2>1. q \in RowsOf(Accounts) /\ r \in RowsOf(Accounts) /\ HalfOf(q) # NoHalf /\ HalfOf(q)[1] = h[1]
      BY <1>1, <1>3, RowsSplit
    <2>2. HalfOf(q) \in Halves
      BY <2>1, RowBalances
    <2>3. HalfOf(q) = h \/ HalfOf(q) = Twin(h)
      BY <1>2, <2>1, <2>2, TwinType
    <2> QED BY <1>1, <2>1, <2>3, RowOfHalf
  <1>6. CASE \E q \in Rows(p) : HalfOf(q) = Twin(h)
    <2>1. PICK q \in Rows(p) : HalfOf(q) = Twin(h)
      BY <1>6
    <2>2. HalfOf(q) # NoHalf /\ HalfOf(q)[1] = f /\ q # r
      BY <1>1, <1>2, <2>1, HalfMarked
    <2>3. \A x \in H : x = r \/ x = q
      <3>1. SUFFICES ASSUME NEW x \in H, HalfOf(x) = Twin(h) PROVE x = q
        BY <1>5
      <3>2. x \in RowsOf(Accounts) /\ q \in RowsOf(Accounts) /\ HalfOf(x) # NoHalf
        BY <1>3, RowsSplit
      <3> QED BY <2>1, <3>1, <3>2, RowOfHalf
    <2>4. H = {r} \cup {q}
      BY <1>3, <1>4, <2>1, <2>2, <2>3
    <2>5. IsFiniteSet({r}) /\ Cardinality({r}) = 1 /\ q \notin {r}
      BY <2>2, FS_Singleton
    <2>6. Cardinality({r} \cup {q}) = 1 + 1
      BY <2>5, FS_AddElement
    <2> QED BY <1>1, <1>4, <1>6, <2>4, <2>6
  <1>7. CASE ~\E q \in Rows(p) : HalfOf(q) = Twin(h)
    <2>1. H = {r}
      BY <1>3, <1>4, <1>5, <1>7
    <2>2. Cardinality(H) = 1
      BY <2>1, FS_Singleton
    <2> QED BY <1>1, <1>4, <1>7, <2>2
  <1> QED BY <1>1, <1>6, <1>7

\* The rows left when half-settled fills are left out come in twos.
LEMMA SettledTwinned ==
    ASSUME LedgerTypes, Entries, NEW p
    PROVE  SettledRows(p) \in SUBSET RowsOf(Accounts) /\ Twinned(SettledRows(p))
  <1>1. SettledRows(p) \in SUBSET RowsOf(Accounts)
    BY RowsSplit DEF SettledRows
  <1>2. ASSUME NEW r \in SettledRows(p), HalfOf(r) # NoHalf
        PROVE  \E q \in SettledRows(p) : HalfOf(q) = Twin(HalfOf(r))
    <2>1. r \in Rows(p) /\ HalvesIn(p, HalfOf(r)[1]) = 2
      BY <1>2 DEF SettledRows
    <2>2. PICK q \in Rows(p) : HalfOf(q) = Twin(HalfOf(r))
      BY <1>2, <2>1, HalvesCount
    <2>3. HalfOf(r) \in Halves
      BY <1>2, <2>1, RowsSplit, RowBalances
    <2>4. HalfOf(q)[1] = HalfOf(r)[1]
      BY <2>2, <2>3, TwinType
    <2>5. q \in SettledRows(p)
      BY <2>1, <2>2, <2>4 DEF SettledRows
    <2> QED BY <2>2, <2>5
  <1> QED BY <1>1, <1>2 DEF Twinned

\* All of one partition's checks but the one for orphans hold at every moment.
LEMMA PartitionSound ==
    ASSUME LedgerInv, NEW p
    PROVE  OtherChecksOK(p)
  <1>1. LedgerTypes /\ Entries /\ Covered /\ Posts
    BY DEF LedgerInv
  <1>2. Rows(p) \in SUBSET RowsOf(Accounts) /\ AccountsIn(p) \in SUBSET Accounts
    BY RowsSplit
  <1>3. \A r \in Rows(p) : RowSum(r, MoneyKinds) = 0 /\ RowSum(r, ShareKinds) = 0
    BY <1>1, <1>2, RowBalances
  <1>4. UnbalancedTxns(p) = {}
    <2> SUFFICES ASSUME NEW r \in Rows(p) PROVE SumOf({r}, MoneyKinds) = 0 /\ SumOf({r}, ShareKinds) = 0
      BY DEF UnbalancedTxns
    <2>1. PICK f, g : /\ f = [x \in {r} |-> RowSum(x, MoneyKinds)]
                      /\ g = [x \in {r} |-> RowSum(x, ShareKinds)]
      OBVIOUS
    <2>2. f[r] = 0 /\ g[r] = 0
      BY <1>3, <2>1
    <2>3. SumOver(f, {r}) = 0 /\ SumOver(g, {r}) = 0
      BY <2>2, SumSingle
    <2> QED BY <2>1, <2>3 DEF SumOf, RowSum
  <1>5. UnpairedClearingUnits(p) = {}
    BY <1>1, SettledTwinned, TwinnedSums DEF UnpairedClearingUnits
  <1>6. SumOf(Rows(p), MoneyKinds) = 0
    <2>1. PICK f : f = [x \in Rows(p) |-> RowSum(x, MoneyKinds)]
      OBVIOUS
    <2>2. \A x \in Rows(p) : f[x] = 0
      BY <1>3, <2>1
    <2>3. IsFiniteSet(Rows(p))
      BY <1>1, <1>2, RowType, FS_Subset
    <2>4. SumOver(f, Rows(p)) = 0
      BY <2>2, <2>3, SumNone
    <2> QED BY <2>1, <2>4 DEF SumOf, RowSum
  <1>7. ShareConservation(p) = 0
    <2>1. PICK S, T : S = SettledRows(p) /\ T = Rows(p) \ SettledRows(p)
      OBVIOUS
    <2>2. S \in SUBSET RowsOf(Accounts) /\ T \in SUBSET RowsOf(Accounts) /\ Twinned(S)
      BY <1>1, <1>2, <2>1, SettledTwinned
    <2>3. Rows(p) = S \cup T /\ S \cap T = {}
      BY <2>1 DEF SettledRows
    <2>4. "SHARE_EXTERNAL" \in Kinds /\ "POSITION" \in Kinds
      BY DEF Kinds, ShareKinds
    <2>5. PICK f : f = [r \in Rows(p) |-> LegOf(r, "SHARE_EXTERNAL")]
      OBVIOUS
    <2>6. \A r \in Rows(p) : f[r] = LegOf(r, "SHARE_EXTERNAL") /\ f[r] \in Int
      BY <1>1, <1>2, <2>4, <2>5, SumOfKind
    <2>7. IsFiniteSet(S) /\ IsFiniteSet(T)
      BY <1>1, <2>2, <2>4, SumOfKind
    <2>8. SumOver(f, S \cup T) = SumOver(f, S) + SumOver(f, T)
      BY <2>3, <2>6, <2>7, SumUnion
    <2>9. SumOver(f, T) = 0
      <3>1. \A r \in T : HalfOf(r) # NoHalf
        BY <2>1 DEF SettledRows
      <3>2. \A r \in T : f[r] = 0
        BY <1>1, <2>2, <2>3, <2>6, <3>1, RowBalances
      <3> QED BY <2>7, <3>2, SumNone
    <2>10. SumOf(Rows(p), {"SHARE_EXTERNAL"}) = SumOver(f, S \cup T)
      BY <1>1, <1>2, <2>3, <2>4, <2>5, SumOfKind
    <2>11. SumOf(S, {"SHARE_EXTERNAL"}) = SumOver(f, S)
      <3>1. PICK g : g = [r \in S |-> LegOf(r, "SHARE_EXTERNAL")]
        OBVIOUS
      <3>2. \A r \in S : g[r] = f[r] /\ g[r] \in Int
        BY <2>3, <2>6, <3>1
      <3>3. SumOver(g, S) = SumOver(f, S)
        BY <2>7, <3>2, SumSame
      <3> QED BY <1>1, <2>2, <2>4, <3>1, <3>3, SumOfKind
    <2>12. SumOver(f, S) \in Int
      BY <2>3, <2>6, <2>7, SumType
    <2>13. SumOf(Rows(p), {"SHARE_EXTERNAL"}) = SumOf(S, {"SHARE_EXTERNAL"})
      BY <2>8, <2>9, <2>10, <2>11, <2>12
    <2>14. SumOf(S, {"POSITION"}) + SumOf(S, {"SHARE_EXTERNAL"}) = 0
      BY <1>1, <2>2, TwinnedSums
    <2> QED BY <2>1, <2>13, <2>14 DEF ShareConservation
  <1>8. LedgerMismatch(p) = {}
    BY <1>1, <1>2 DEF LedgerMismatch, Posts
  <1>9. NegativeCashAccounts(p) = {}
    <2> SUFFICES ASSUME NEW a \in AccountsIn(p) PROVE ~(balance[a].cash < 0)
      BY DEF NegativeCashAccounts
    <2>1. HeldCash(a) \in Nat /\ HeldCash(a) <= balance[a].cash
      BY <1>1, <1>2, HeldType DEF Covered
    <2>2. balance[a].cash \in Int
      BY <1>1, <1>2 DEF LedgerTypes
    <2> QED BY <2>1, <2>2
  <1> QED BY <1>4, <1>5, <1>6, <1>7, <1>8, <1>9 DEF OtherChecksOK

\* A fill that one partition calls out is half settled, or its other half is elsewhere.
LEMMA OrphansOpen ==
    ASSUME LedgerInv, NEW p, NEW f \in OrphanedFillHalves(p)
    PROVE  HalfOpen(f) \/ PartOf[fill[f].taker] # PartOf[fill[f].maker]
  <1>1. LedgerTypes /\ Entries
    BY DEF LedgerInv
  <1>2. f \in Fills /\ HalvesIn(p, f) \notin {0, 2}
    BY DEF OrphanedFillHalves
  <1>3. PICK r \in Rows(p) : HalfOf(r) # NoHalf /\ HalfOf(r)[1] = f
    <2>1. {r \in Rows(p) : HalfOf(r) # NoHalf /\ HalfOf(r)[1] = f} # {}
      BY <1>2, FS_EmptySet DEF HalvesIn
    <2> QED BY <2>1
  <1>4. PICK h : h = HalfOf(r)
    OBVIOUS
  <1>5. /\ r \in RowsOf(Accounts) /\ h \in Halves /\ Contains(settled, h) /\ fill[h[1]] # NoFill
        /\ Owner(h) = r[1] /\ h[1] = f
    BY <1>1, <1>3, <1>4, RowsSplit, RowBalances
  <1>6. ~\E q \in Rows(p) : HalfOf(q) = Twin(h)
    BY <1>1, <1>2, <1>3, <1>4, HalvesCount
  <1>7. CASE ~Contains(settled, Twin(h))
    BY <1>1, <1>5, <1>7, OpenMeans
  <1>8. CASE Contains(settled, Twin(h))
    <2>1. Twin(h) \in Halves
      BY <1>5, TwinType
    <2>2. PICK q \in RowsOf(Accounts) : HalfOf(q) = Twin(h) /\ q[1] = Owner(Twin(h))
      BY <1>1, <1>8, <2>1, RowOfHalf
    <2>3. PartOf[q[1]] # p /\ PartOf[r[1]] = p
      BY <1>1, <1>5, <1>6, <2>2, RowsWhere
    <2>4. {Owner(h), Owner(Twin(h))} = {fill[f].taker, fill[f].maker}
      BY <1>1, <1>5, TwinTerms
    <2>5. PICK x, y : x = fill[f].taker /\ y = fill[f].maker
      OBVIOUS
    <2>6. PartOf[x] # PartOf[y]
      BY <1>5, <2>2, <2>3, <2>4, <2>5
    <2> QED BY <2>5, <2>6
  <1> QED BY <1>7, <1>8

\* A partition's own checks call out no fill that is sound, and fail in no
\* other way, however deposits and halves have interleaved (CheckInvariants).
THEOREM AlarmsAreTrue == Spec => []OnlyOpenOrCrossingFillsAlarm
  <1>1. LedgerInv => OnlyOpenOrCrossingFillsAlarm
    BY PartitionSound, OrphansOpen DEF OnlyOpenOrCrossingFillsAlarm
  <1> QED BY <1>1, LedgerHolds, PTL

\* The clearing accounts of the cluster hold what the half-settled fills have
\* open, however the halves of all the fills have interleaved (halfFillLegs).
THEOREM ClearingExplained == Spec => []ClearingNamesOpenFills
  <1>1. LedgerInv => ClearingNamesOpenFills
    <2> SUFFICES ASSUME LedgerInv PROVE ClearingNamesOpenFills
      OBVIOUS
    <2> DEFINE sign(r) == IF Buys(HalfOf(r)) THEN 1 ELSE -1
    <2>1. LedgerTypes /\ Entries
      BY DEF LedgerInv
    <2>2. PICK R, P, Q : /\ R = RowsOf(Accounts)
                         /\ P = {r \in R : HalfOf(r) # NoHalf /\ HalfOpen(HalfOf(r)[1])}
                         /\ Q = R \ P
      OBVIOUS
    <2>3. Q \in SUBSET RowsOf(Accounts) /\ P \in SUBSET RowsOf(Accounts) /\ R = P \cup Q /\ P \cap Q = {}
      BY <2>2
    <2>4. Twinned(Q)
      <3> SUFFICES ASSUME NEW r \in Q, HalfOf(r) # NoHalf
                   PROVE  \E q \in Q : HalfOf(q) = Twin(HalfOf(r))
        BY DEF Twinned
      <3>1. PICK h : h = HalfOf(r)
        OBVIOUS
      <3>2. h \in Halves /\ Contains(settled, h) /\ ~HalfOpen(h[1])
        BY <2>1, <2>2, <3>1, RowBalances
      <3>3. Contains(settled, Twin(h)) /\ Twin(h) \in Halves /\ Twin(h)[1] = h[1]
        BY <2>1, <3>2, OpenMeans, TwinType
      <3>4. PICK q \in RowsOf(Accounts) : HalfOf(q) = Twin(h)
        BY <2>1, <3>3, RowOfHalf
      <3>5. q \in Q
        BY <2>2, <3>2, <3>3, <3>4
      <3> QED BY <3>1, <3>4, <3>5
    <2>5. SumOf(Q, {"CLEARING"}) = 0 /\ SumOf(Q, {"SHARE_CLEARING"}) = 0
      BY <2>1, <2>3, <2>4, TwinnedSums
    <2>6. ASSUME NEW k \in {"CLEARING", "SHARE_CLEARING"}, NEW g,
                 \A r \in P : g[r] = LegOf(r, k)
          PROVE  SumOf(R, {k}) = SumOver(g, P)
      <3>1. PICK f : f = [r \in R |-> LegOf(r, k)]
        OBVIOUS
      <3>2. k \in Kinds
        BY DEF Kinds, MoneyKinds, ShareKinds
      <3>3. \A r \in P \cup Q : f[r] = LegOf(r, k) /\ f[r] \in Int
        BY <2>1, <2>2, <2>3, <3>1, <3>2, SumOfKind
      <3>4. IsFiniteSet(P) /\ IsFiniteSet(Q)
        BY <2>1, <2>3, <3>2, SumOfKind
      <3>5. SumOver(f, P \cup Q) = SumOver(f, P) + SumOver(f, Q)
        BY <2>3, <3>3, <3>4, SumUnion
      <3>6. SumOver(f, Q) = 0
        <4>1. PICK e : e = [r \in Q |-> LegOf(r, k)]
          OBVIOUS
        <4>2. \A r \in Q : e[r] = f[r] /\ e[r] \in Int
          BY <3>3, <4>1
        <4>3. SumOver(e, Q) = SumOver(f, Q)
          BY <3>4, <4>2, SumSame
        <4>4. SumOf(Q, {k}) = SumOver(e, Q)
          BY <2>1, <2>3, <3>2, <4>1, SumOfKind
        <4> QED BY <2>5, <4>3, <4>4
      <3>7. SumOver(f, P) = SumOver(g, P)
        <4>1. \A r \in P : f[r] = g[r] /\ f[r] \in Int
          BY <2>6, <3>3
        <4> QED BY <3>4, <4>1, SumSame
      <3>8. SumOver(f, P) \in Int
        BY <3>3, <3>4, SumType
      <3>9. SumOf(R, {k}) = SumOver(f, R)
        BY <2>1, <2>2, <3>1, <3>2, SumOfKind
      <3> QED BY <2>3, <3>5, <3>6, <3>7, <3>8, <3>9
    <2>7. PICK f, g : /\ f = [r \in P |-> sign(r) * NotionalOf(HalfOf(r))]
                      /\ g = [r \in P |-> -sign(r) * fill[HalfOf(r)[1]].qty]
      OBVIOUS
    <2>8. ASSUME NEW r \in P
          PROVE  f[r] = LegOf(r, "CLEARING") /\ g[r] = LegOf(r, "SHARE_CLEARING")
      <3>1. PICK h : h = HalfOf(r)
        OBVIOUS
      <3>2. h # NoHalf /\ r \in RowsOf(Accounts)
        BY <2>2, <3>1
      <3>3. h \in Halves /\ fill[h[1]] # NoFill
        BY <2>1, <3>1, <3>2, RowBalances
      <3>4. PICK n, s : n = NotionalOf(h) /\ s = fill[h[1]].qty
        OBVIOUS
      <3>5. n \in Nat /\ s \in Nat
        BY <2>1, <3>3, <3>4, HalfType DEF FillTerms
      <3>6. /\ LegOf(r, "CLEARING") = IF Buys(h) THEN n ELSE -n
            /\ LegOf(r, "SHARE_CLEARING") = IF Buys(h) THEN -s ELSE s
        BY <2>1, <3>1, <3>2, <3>4, RowBalances
      <3>7. PICK one : one = sign(r)
        OBVIOUS
      <3>8. one = IF Buys(h) THEN 1 ELSE -1
        BY <3>1, <3>7
      <3>9. f[r] = one * n /\ g[r] = -one * s
        <4> HIDE DEF sign
        <4> QED BY <2>7, <3>1, <3>4, <3>7
      <3>10. CASE Buys(h)
        <4>1. one = 1 /\ one * n = n /\ -one * s = -s
          BY <3>5, <3>8, <3>10
        <4> QED BY <3>6, <3>9, <3>10, <4>1
      <3>11. CASE ~Buys(h)
        <4>1. one = -1 /\ one * n = -n /\ -one * s = s
          BY <3>5, <3>8, <3>11
        <4> QED BY <3>6, <3>9, <3>11, <4>1
      <3> QED BY <3>10, <3>11
    <2>9. SumOf(R, {"CLEARING"}) = SumOver(f, P) /\ SumOf(R, {"SHARE_CLEARING"}) = SumOver(g, P)
      BY <2>6, <2>8
    <2>10. UNION {Rows(p) : p \in Partitions} = R
      BY <2>2, RowsSplit
    <2> QED BY <2>2, <2>7, <2>9, <2>10 DEF ClearingNamesOpenFills
  <1> QED BY <1>1, LedgerHolds, PTL

-----------------------------------------------------------------------------
(* What the reconciler has added up so far. *)

Seen == {Visits[i] : i \in 1 .. recon.visited}

Early(h) == \E i \in 1 .. recon.began : settled[i] = h

Counted(h) == IF PartOf[Owner(h)] \in Seen THEN 1 ELSE 0

\* Halves settled before it began have been counted where it has been; of a
\* fill with one half, no later half is taken for the first.
TalliedHalf(h) ==
    /\ Early(h) /\ Early(Twin(h)) => recon.halves[h[1]] = Counted(h) + Counted(Twin(h))
    /\ Early(h) /\ ~Contains(settled, Twin(h)) =>
         /\ recon.halves[h[1]] = Counted(h)
         /\ Counted(h) = 1 => recon.first[h[1]] # {}
         /\ \A i \in 1 .. recon.began : settled[i] = h =>
              \A x \in recon.first[h[1]] : x <= i
    /\ ~Contains(settled, h) /\ ~Contains(settled, Twin(h)) => recon.halves[h[1]] = 0

SeenAccounts == {a \in Accounts : PartOf[a] \in Seen}

\* While nothing settles, its sums are those of the partitions it has been to.
TalliedSums ==
    /\ recon.cash = 0 /\ recon.shares = 0
    /\ recon.began = Len(settled) =>
         /\ recon.clearing = SumOf(RowsOf(SeenAccounts), {"CLEARING"})
         /\ recon.shareClearing = SumOf(RowsOf(SeenAccounts), {"SHARE_CLEARING"})

\* And then, with no fill open and none across partitions, it has met no alarm.
Calm ==
    /\ recon.began = Len(settled) /\ ~\E f \in Fills : HalfOpen(f)
    /\ \A f \in Fills : fill[f] # NoFill => PartOf[fill[f].taker] = PartOf[fill[f].maker]

TallyType ==
    /\ recon \in [visited : 0 .. Len(Visits), began : Nat, localOK : BOOLEAN,
                  halves : [Fills -> Nat], first : [Fills -> SUBSET Nat],
                  clearing : Int, shareClearing : Int, cash : Int, shares : Int]
    /\ recon.began <= Len(settled)

Tallied ==
    /\ old \in Nat
    /\ recon # Asleep =>
         /\ TallyType /\ TalliedSums /\ (Calm => recon.localOK)
         /\ \A h \in Halves : TalliedHalf(h)

\* A step of the ledgers settles at most one half, and changes no fill's terms.
LEMMA TermsStay ==
    ASSUME LedgerTypes, LedgerNext
    PROVE  /\ \A f \in Fills : fill[f] # NoFill => fill'[f] = fill[f]
           /\ \/ settled' = settled
              \/ \E h \in Halves : settled' = Append(settled, h)
  <1>1. CASE \E f \in Fills : PublishFill(f)
    <2>1. PICK f \in Fills : PublishFill(f)
      BY <1>1
    <2>2. PICK e : fill' = [fill EXCEPT ![f] = e]
      BY <2>1 DEF PublishFill
    <2>3. fill[f] = NoFill /\ settled' = settled
      BY <2>1 DEF PublishFill
    <2> QED BY <2>2, <2>3 DEF LedgerTypes
  <1>2. CASE \E h \in Halves : SettleHalf(h)
    BY <1>2 DEF SettleHalf
  <1>3. CASE \E a \in Accounts : Deposit(a) \/ SeedShares(a)
    BY <1>3 DEF Deposit, SeedShares
  <1>4. CASE \E k \in Checkpointers :
               \/ \E a \in Accounts : LoadSnapshot(k, a)
               \/ RecoverState(k) \/ InsertSnapshot(k) \/ PruneSnapshots(k) \/ AbandonSnapshot(k)
    BY <1>4 DEF LoadSnapshot, RecoverState, InsertSnapshot, PruneSnapshots, AbandonSnapshot, accountVars
  <1> QED BY <1>1, <1>2, <1>3, <1>4 DEF LedgerNext

\* What was settled stays where it is in the order, and no half leaves it.
LEMMA SettledStays ==
    ASSUME LedgerTypes,
           \/ settled' = settled
           \/ \E h \in Halves : settled' = Append(settled, h)
    PROVE  /\ Len(settled) \in Nat /\ Len(settled)' \in Nat /\ Len(settled) <= Len(settled)'
           /\ \A i \in 1 .. Len(settled) : settled'[i] = settled[i]
           /\ \A h : Contains(settled, h) => Contains(settled', h)
           /\ Len(settled)' = Len(settled) => settled' = settled
  <1>1. PICK n : n = Len(settled)
    OBVIOUS
  <1>2. settled \in Seq(Halves) /\ n \in Nat
    BY <1>1 DEF LedgerTypes
  <1>3. CASE settled' = settled
    BY <1>1, <1>2, <1>3
  <1>4. CASE \E h \in Halves : settled' = Append(settled, h)
    <2>1. PICK h \in Halves : settled' = Append(settled, h)
      BY <1>4
    <2>2. Len(settled') = n + 1 /\ \A i \in 1 .. n : settled'[i] = settled[i]
      BY <1>1, <1>2, <2>1
    <2>3. \A x : Contains(settled', x) <=> Contains(settled, x) \/ x = h
      BY <1>2, <2>1, AppendContains
    <2> QED BY <1>1, <1>2, <2>2, <2>3
  <1> QED BY <1>3, <1>4

\* A half among the first of those settled has settled.
LEMMA EarlySettled ==
    ASSUME LedgerTypes, recon.began \in Nat, recon.began <= Len(settled)
    PROVE  /\ \A h : Early(h) => Contains(settled, h)
           /\ recon.began = Len(settled) => \A h : Contains(settled, h) => Early(h)
           /\ \A i \in 1 .. recon.began : i \in DOMAIN settled /\ settled[i] \in Halves
  <1>1. PICK n, b : n = Len(settled) /\ b = recon.began
    OBVIOUS
  <1>2. n \in Nat /\ DOMAIN settled = 1 .. n /\ \A i \in 1 .. n : settled[i] \in Halves
    BY <1>1 DEF LedgerTypes
  <1>3. \A h : Contains(settled, h) <=> \E i \in 1 .. n : settled[i] = h
    BY <1>1, <1>2 DEF Contains
  <1>4. b \in Nat /\ b <= n
    BY <1>1
  <1>5. \A i \in 1 .. b : i \in 1 .. n
    BY <1>2, <1>4
  <1> QED BY <1>1, <1>2, <1>3, <1>5 DEF Early

\* A partition counts those halves of a fill that settled on its accounts.
LEMMA HalvesHere ==
    ASSUME LedgerTypes, Entries, NEW p, NEW h \in Halves
    PROVE  /\ HalvesIn(p, h[1]) \in Nat
           /\ ~Contains(settled, h) /\ ~Contains(settled, Twin(h)) => HalvesIn(p, h[1]) = 0
           /\ Contains(settled, h) =>
                HalvesIn(p, h[1]) =
                  (IF PartOf[Owner(h)] = p THEN 1 ELSE 0)
                  + (IF Contains(settled, Twin(h)) /\ PartOf[Owner(Twin(h))] = p THEN 1 ELSE 0)
  <1>1. PICK t, f : t = Twin(h) /\ f = h[1]
    OBVIOUS
  <1>2. t \in Halves /\ t # h /\ t[1] = f /\ Twin(t) = h
    BY <1>1, TwinType
  <1>3. PICK H : H = {q \in Rows(p) : HalfOf(q) # NoHalf /\ HalfOf(q)[1] = f}
    OBVIOUS
  <1>4. HalvesIn(p, f) = Cardinality(H)
    BY <1>3 DEF HalvesIn
  <1>5. IsFiniteSet(H)
    <2>1. H \in SUBSET RowsOf(Accounts)
      BY <1>3, RowsSplit
    <2> QED BY <2>1, RowType, FS_Subset
  <1>6. Cardinality(H) \in Nat
    BY <1>5, FS_CardinalityType
  <1>7. ASSUME NEW q \in H
        PROVE  /\ q \in Rows(p) /\ HalfOf(q) \in {h, t}
               /\ Contains(settled, HalfOf(q)) /\ PartOf[Owner(HalfOf(q))] = p
    <2>1. q \in Rows(p) /\ q \in RowsOf(Accounts) /\ HalfOf(q) # NoHalf /\ HalfOf(q)[1] = f
      BY <1>3, RowsSplit
    <2>2. HalfOf(q) \in Halves /\ Contains(settled, HalfOf(q)) /\ Owner(HalfOf(q)) = q[1]
      BY <2>1, RowBalances
    <2>3. HalfOf(q) \in {h, t}
      BY <1>1, <2>1, <2>2, TwinType
    <2>4. PartOf[q[1]] = p
      BY <2>1, RowsWhere
    <2> QED BY <2>1, <2>2, <2>3, <2>4
  <1>8. ASSUME NEW g \in {h, t}, Contains(settled, g), PartOf[Owner(g)] = p
        PROVE  \E q \in H : HalfOf(q) = g
    <2>1. g \in Halves /\ g # NoHalf /\ g[1] = f
      BY <1>1, <1>2, HalfMarked
    <2>2. PICK q \in RowsOf(Accounts) : HalfOf(q) = g /\ q[1] = Owner(g)
      BY <1>8, <2>1, RowOfHalf
    <2>3. q \in Rows(p)
      BY <1>8, <2>2, RowsWhere
    <2> QED BY <1>3, <2>1, <2>2, <2>3
  <1>9. ASSUME NEW q \in H
        PROVE  Cardinality(H) = IF \E x \in H : HalfOf(x) = Twin(HalfOf(q)) THEN 2 ELSE 1
    <2>1. q \in Rows(p) /\ HalfOf(q) # NoHalf /\ HalfOf(q)[1] = f
      BY <1>3
    <2>2. HalvesIn(p, f) = IF \E x \in Rows(p) : HalfOf(x) = Twin(HalfOf(q)) THEN 2 ELSE 1
      BY <2>1, HalvesCount
    <2>3. \A x \in Rows(p) : HalfOf(x) = Twin(HalfOf(q)) => x \in H
      <3>1. Twin(HalfOf(q)) \in {h, t}
        BY <1>1, <1>2, <1>7
      <3>2. Twin(HalfOf(q)) # NoHalf /\ Twin(HalfOf(q))[1] = f
        BY <1>1, <1>2, <3>1, HalfMarked
      <3> QED BY <1>3, <3>2
    <2>4. (\E x \in Rows(p) : HalfOf(x) = Twin(HalfOf(q))) <=> (\E x \in H : HalfOf(x) = Twin(HalfOf(q)))
      BY <1>3, <2>3
    <2> QED BY <1>4, <2>2, <2>4
  <1>10. H = {} => Cardinality(H) = 0
    BY FS_EmptySet
  <1>11. ~Contains(settled, h) /\ ~Contains(settled, t) => H = {}
    BY <1>7
  <1>13. CASE PartOf[Owner(h)] = p /\ Contains(settled, h)
    <2>1. PICK q \in H : HalfOf(q) = h
      BY <1>8, <1>13
    <2>2. Cardinality(H) = IF \E x \in H : HalfOf(x) = t THEN 2 ELSE 1
      BY <1>1, <1>9, <2>1
    <2>3. (\E x \in H : HalfOf(x) = t) <=> Contains(settled, t) /\ PartOf[Owner(t)] = p
      BY <1>7, <1>8
    <2>4. CASE Contains(settled, t) /\ PartOf[Owner(t)] = p
      <3>1. Cardinality(H) = 1 + 1
        BY <2>2, <2>3, <2>4
      <3> QED BY <1>1, <1>4, <1>6, <1>13, <2>4, <3>1
    <2>5. CASE ~(Contains(settled, t) /\ PartOf[Owner(t)] = p)
      <3>1. Cardinality(H) = 1 + 0
        BY <2>2, <2>3, <2>5
      <3> QED BY <1>1, <1>4, <1>6, <1>13, <2>5, <3>1
    <2> QED BY <2>4, <2>5
  <1>14. CASE PartOf[Owner(h)] # p /\ Contains(settled, h)
    <2>1. ~\E x \in H : HalfOf(x) = h
      BY <1>7, <1>14
    <2>2. CASE Contains(settled, t) /\ PartOf[Owner(t)] = p
      <3>1. PICK q \in H : HalfOf(q) = t
        BY <1>8, <2>2
      <3>2. Cardinality(H) = 0 + 1
        BY <1>2, <1>9, <2>1, <3>1
      <3> QED BY <1>1, <1>4, <1>6, <1>14, <2>2, <3>2
    <2>3. CASE ~(Contains(settled, t) /\ PartOf[Owner(t)] = p)
      <3>1. H = {}
        BY <1>7, <2>1, <2>3
      <3>2. Cardinality(H) = 0 + 0
        BY <1>10, <3>1
      <3> QED BY <1>1, <1>4, <1>6, <1>14, <2>3, <3>2
    <2> QED BY <2>2, <2>3
  <1> QED BY <1>1, <1>4, <1>6, <1>10, <1>11, <1>13, <1>14

\* And knows of a fill since the first of them.
LEMMA FirstHere ==
    ASSUME LedgerTypes, Entries, NEW p, NEW f \in Fills
    PROVE  /\ HalvesIn(p, f) # 0 => FirstIn(p, f) \in Nat
           /\ \A i \in DOMAIN settled :
                settled[i][1] = f /\ PartOf[Owner(settled[i])] = p => FirstIn(p, f) <= i
  <1>1. PICK S : S = {i \in DOMAIN settled : settled[i][1] = f /\ PartOf[Owner(settled[i])] = p}
    OBVIOUS
  <1>2. S \in SUBSET Nat
    BY <1>1 DEF LedgerTypes
  <1>3. S # {} => FirstIn(p, f) \in S /\ \A i \in S : FirstIn(p, f) <= i
    <2> SUFFICES ASSUME S # {} PROVE FirstIn(p, f) \in S /\ \A i \in S : FirstIn(p, f) <= i
      OBVIOUS
    <2>1. \E x \in S : \A y \in S : x <= y
      BY <1>2, LeastNat
    <2>2. FirstIn(p, f) = CHOOSE x \in S : \A y \in S : x <= y
      BY <1>1 DEF FirstIn, Min
    <2> QED BY <2>1, <2>2
  <1>4. HalvesIn(p, f) # 0 => S # {}
    <2> SUFFICES ASSUME HalvesIn(p, f) # 0 PROVE S # {}
      OBVIOUS
    <2>1. PICK r \in Rows(p) : HalfOf(r) # NoHalf /\ HalfOf(r)[1] = f
      <3>1. {r \in Rows(p) : HalfOf(r) # NoHalf /\ HalfOf(r)[1] = f} # {}
        BY FS_EmptySet DEF HalvesIn
      <3> QED BY <3>1
    <2>2. r \in RowsOf(Accounts)
      BY RowsSplit
    <2>3. Contains(settled, HalfOf(r)) /\ Owner(HalfOf(r)) = r[1]
      BY <2>1, <2>2, RowBalances
    <2>4. PartOf[r[1]] = p
      BY <2>2, RowsWhere
    <2>5. PICK i \in DOMAIN settled : settled[i] = HalfOf(r)
      BY <2>3 DEF Contains, LedgerTypes
    <2> QED BY <1>1, <2>1, <2>3, <2>4, <2>5
  <1> QED BY <1>1, <1>2, <1>3, <1>4

\* Whose a half is does not change while the terms of its fill do not.
LEMMA CountedStays ==
    ASSUME NEW h, fill'[h[1]] = fill[h[1]], recon' = recon
    PROVE  Counted(h)' = Counted(h)
  BY DEF Counted, Owner, Seen

\* A step of the ledgers leaves the tally of every half right.
LEMMA TalliedLedger ==
    ASSUME LedgerTypes, Entries, LedgerNext, recon' = recon, TallyType,
           NEW h \in Halves, TalliedHalf(h)
    PROVE  TalliedHalf(h)'
  <1>1. PICK t, b : t = Twin(h) /\ b = recon.began
    OBVIOUS
  <1>2. t \in Halves /\ t[1] = h[1] /\ h[1] \in Fills
    BY <1>1, TwinType
  <1>3. b \in Nat /\ b <= Len(settled)
    BY <1>1 DEF TallyType
  <1>4. /\ \A f \in Fills : fill[f] # NoFill => fill'[f] = fill[f]
        /\ \/ settled' = settled
           \/ \E x \in Halves : settled' = Append(settled, x)
    BY TermsStay
  <1>5. /\ Len(settled) \in Nat
        /\ \A i \in 1 .. Len(settled) : settled'[i] = settled[i]
        /\ \A x : Contains(settled, x) => Contains(settled', x)
    BY <1>4, SettledStays
  <1>6. \A i \in 1 .. b : settled'[i] = settled[i]
    BY <1>3, <1>5
  <1>7. (Early(h)' <=> Early(h)) /\ (Early(t)' <=> Early(t))
    BY <1>1, <1>6 DEF Early
  <1>8. \A x : Early(x) => Contains(settled, x)
    BY <1>1, <1>3, EarlySettled
  <1>9. \A x \in Halves : Contains(settled, x) => fill'[x[1]] = fill[x[1]]
    BY <1>4 DEF Entries, Halves
  <1>10. (Early(h) => Counted(h)' = Counted(h)) /\ (Early(t) => Counted(t)' = Counted(t))
    BY <1>2, <1>8, <1>9, CountedStays
  <1>11. recon.began' = b /\ recon.halves' = recon.halves /\ recon.first' = recon.first
    BY <1>1
  <1>12. /\ Early(h) /\ Early(t) => recon.halves[h[1]] = Counted(h) + Counted(t)
         /\ Early(h) /\ ~Contains(settled, t) =>
              /\ recon.halves[h[1]] = Counted(h)
              /\ Counted(h) = 1 => recon.first[h[1]] # {}
              /\ \A i \in 1 .. b : settled[i] = h => \A x \in recon.first[h[1]] : x <= i
         /\ ~Contains(settled, h) /\ ~Contains(settled, t) => recon.halves[h[1]] = 0
    BY <1>1 DEF TalliedHalf
  <1>13. Early(h)' /\ Early(t)' => recon'.halves[h[1]] = Counted(h)' + Counted(t)'
    BY <1>7, <1>10, <1>11, <1>12
  <1>14. Early(h)' /\ ~Contains(settled', t) =>
           /\ recon'.halves[h[1]] = Counted(h)'
           /\ Counted(h)' = 1 => recon'.first[h[1]] # {}
           /\ \A i \in 1 .. b : settled'[i] = h => \A x \in recon'.first[h[1]] : x <= i
    BY <1>5, <1>6, <1>7, <1>10, <1>11, <1>12
  <1>15. ~Contains(settled', h) /\ ~Contains(settled', t) => recon'.halves[h[1]] = 0
    BY <1>5, <1>11, <1>12
  <1> QED BY <1>1, <1>11, <1>13, <1>14, <1>15 DEF TalliedHalf

\* A visit adds to the tally of every half what the partition knows of it.
LEMMA TalliedVisit ==
    ASSUME LedgerTypes, Entries, TallyType, NEW p, p \notin Seen, Seen' = Seen \cup {p},
           UNCHANGED <<fill, settled>>, recon.began' = recon.began,
           NEW h \in Halves, TalliedHalf(h),
           recon.halves[h[1]]' = recon.halves[h[1]] + HalvesIn(p, h[1]),
           recon.first[h[1]]' = IF HalvesIn(p, h[1]) = 0 THEN recon.first[h[1]]
                                ELSE recon.first[h[1]] \union {FirstIn(p, h[1])}
    PROVE  TalliedHalf(h)'
  <1>1. PICK t, b : t = Twin(h) /\ b = recon.began
    OBVIOUS
  <1>2. t \in Halves /\ t[1] = h[1] /\ h[1] \in Fills
    BY <1>1, TwinType
  <1>3. b \in Nat /\ b <= Len(settled)
    BY <1>1 DEF TallyType
  <1>4. PICK n, here, there : /\ n = HalvesIn(p, h[1])
                              /\ here = (IF PartOf[Owner(h)] = p THEN 1 ELSE 0)
                              /\ there = (IF PartOf[Owner(t)] = p THEN 1 ELSE 0)
    OBVIOUS
  <1>5. PICK was, now, ch, ct : /\ was = recon.halves[h[1]] /\ now = recon.halves[h[1]]'
                                /\ ch = Counted(h) /\ ct = Counted(t)
    OBVIOUS
  <1>6. now = was + n
    BY <1>4, <1>5
  <1>7. was \in Nat /\ n \in Nat /\ here \in {0, 1} /\ there \in {0, 1} /\ ch \in {0, 1} /\ ct \in {0, 1}
    <2>1. was \in Nat
      BY <1>2, <1>5 DEF TallyType
    <2>2. n \in Nat
      BY <1>4, HalvesHere
    <2> QED BY <1>4, <1>5, <2>1, <2>2 DEF Counted
  <1>8. Counted(h)' = ch + here /\ Counted(t)' = ct + there
    <2>1. Owner(h)' = Owner(h) /\ Owner(t)' = Owner(t)
      BY DEF Owner
    <2>2. PICK x, y, S : x = PartOf[Owner(h)] /\ y = PartOf[Owner(t)] /\ S = Seen
      OBVIOUS
    <2>3. /\ Counted(h)' = (IF x \in S \cup {p} THEN 1 ELSE 0)
          /\ Counted(t)' = (IF y \in S \cup {p} THEN 1 ELSE 0)
      BY <2>1, <2>2 DEF Counted
    <2>4. ch = (IF x \in S THEN 1 ELSE 0) /\ ct = (IF y \in S THEN 1 ELSE 0)
      BY <1>5, <2>2 DEF Counted
    <2>5. here = (IF x = p THEN 1 ELSE 0) /\ there = (IF y = p THEN 1 ELSE 0) /\ p \notin S
      BY <1>4, <2>2
    <2> QED BY <2>3, <2>4, <2>5
  <1>9. (Early(h)' <=> Early(h)) /\ (Early(t)' <=> Early(t))
    BY DEF Early
  <1>10. \A x : Early(x) => Contains(settled, x)
    BY <1>1, <1>3, EarlySettled
  <1>11. /\ ~Contains(settled, h) /\ ~Contains(settled, t) => n = 0
         /\ Contains(settled, h) =>
              n = here + (IF Contains(settled, t) /\ PartOf[Owner(t)] = p THEN 1 ELSE 0)
    BY <1>1, <1>4, HalvesHere
  <1>12. /\ Contains(settled, h) /\ Contains(settled, t) => n = here + there
         /\ Contains(settled, h) /\ ~Contains(settled, t) => n = here
    BY <1>4, <1>7, <1>11
  <1>13. /\ Early(h) /\ Early(t) => was = ch + ct
         /\ Early(h) /\ ~Contains(settled, t) =>
              /\ was = ch
              /\ ch = 1 => recon.first[h[1]] # {}
              /\ \A i \in 1 .. b : settled[i] = h => \A x \in recon.first[h[1]] : x <= i
         /\ ~Contains(settled, h) /\ ~Contains(settled, t) => was = 0
    BY <1>1, <1>5 DEF TalliedHalf
  <1>14. Early(h) /\ Early(t) => now = (ch + here) + (ct + there)
    <2>1. SUFFICES ASSUME Early(h), Early(t) PROVE now = (ch + here) + (ct + there)
      OBVIOUS
    <2>2. was = ch + ct /\ n = here + there
      BY <1>10, <1>12, <1>13, <2>1
    <2> QED BY <1>6, <1>7, <2>2
  <1>15. ASSUME Early(h), ~Contains(settled, t)
         PROVE  /\ now = ch + here
                /\ ch + here = 1 => recon.first[h[1]]' # {}
                /\ \A i \in 1 .. b : settled[i] = h => \A x \in recon.first[h[1]]' : x <= i
    <2>1. was = ch /\ n = here
      BY <1>10, <1>12, <1>13, <1>15
    <2>2. now = ch + here
      BY <1>6, <2>1
    <2>3. PICK F, G : F = recon.first[h[1]] /\ G = recon.first[h[1]]'
      OBVIOUS
    <2>4. G = IF n = 0 THEN F ELSE F \union {FirstIn(p, h[1])}
      BY <1>4, <2>3
    <2>5. (ch = 1 => F # {}) /\ \A i \in 1 .. b : settled[i] = h => \A x \in F : x <= i
      BY <1>13, <1>15, <2>3
    <2>6. CASE n = 0
      <3>1. G = F /\ ch + here = ch
        BY <1>7, <2>1, <2>4, <2>6
      <3> QED BY <2>2, <2>3, <2>5, <3>1
    <2>7. CASE n # 0
      <3>1. PartOf[Owner(h)] = p /\ G = F \union {FirstIn(p, h[1])}
        BY <1>4, <1>7, <2>1, <2>4, <2>7
      <3>2. \A i \in 1 .. b : settled[i] = h => FirstIn(p, h[1]) <= i
        <4>1. \A i \in 1 .. b : i \in DOMAIN settled
          BY <1>1, <1>3, EarlySettled
        <4> QED BY <1>2, <3>1, <4>1, FirstHere
      <3> QED BY <2>2, <2>3, <2>5, <3>1, <3>2
    <2> QED BY <2>6, <2>7
  <1>16. ~Contains(settled, h) /\ ~Contains(settled, t) => now = 0
    BY <1>6, <1>11, <1>13
  <1>17. /\ settled' = settled /\ recon.began' = b /\ recon.halves[h[1]]' = now
    BY <1>1, <1>5
  <1>18. Early(h)' /\ Early(t)' => recon.halves[h[1]]' = Counted(h)' + Counted(t)'
    BY <1>8, <1>9, <1>14, <1>17
  <1>19. Early(h)' /\ ~Contains(settled', t) =>
           /\ recon.halves[h[1]]' = Counted(h)'
           /\ Counted(h)' = 1 => recon.first[h[1]]' # {}
           /\ \A i \in 1 .. b : settled'[i] = h => \A x \in recon.first[h[1]]' : x <= i
    BY <1>8, <1>9, <1>15, <1>17
  <1>20. ~Contains(settled', h) /\ ~Contains(settled', t) => recon.halves[h[1]]' = 0
    BY <1>16, <1>17
  <1> QED BY <1>1, <1>17, <1>18, <1>19, <1>20 DEF TalliedHalf

\* What the rows of some accounts add up to, in one kind.
RowsIn(T, A) == UNION {{a} \X DOMAIN T[a] : a \in A}
LegSum(t, k) == SumOver([j \in {k} |-> t.legs[j]], {k})
LegsSum(T, A, k) == SumOver([r \in RowsIn(T, A) |-> LegSum(T[r[1]][r[2]], k)], RowsIn(T, A))

\* A transaction without a leg of the kind changes no sum of that kind.
LEMMA SumUntouched ==
    ASSUME LedgerTypes, Entries, NEW A \in SUBSET Accounts, NEW k \in Kinds,
           NEW a \in Accounts, NEW t \in Txns, t.legs[k] = 0,
           NEW U, U = [txns EXCEPT ![a] = Append(@, t)]
    PROVE  LegsSum(U, A, k) = LegsSum(txns, A, k)
  <1>1. PICK T : T = txns
    OBVIOUS
  <1>2. PICK R, S : R = RowsIn(T, A) /\ S = RowsIn(U, A)
    OBVIOUS
  <1>3. R = RowsOf(A) /\ R \in SUBSET RowsOf(Accounts)
    BY <1>1, <1>2 DEF RowsIn, RowsOf
  <1>4. IsFiniteSet(R)
    BY <1>3, RowType
  <1>5. PICK seq, n : seq = T[a] /\ n = Len(seq)
    OBVIOUS
  <1>6. /\ seq \in Seq(Txns) /\ n \in Nat /\ DOMAIN seq = 1 .. n
        /\ DOMAIN Append(seq, t) = 1 .. n + 1 /\ Append(seq, t)[n + 1] = t
        /\ \A i \in 1 .. n : Append(seq, t)[i] = seq[i]
    BY <1>1, <1>5 DEF LedgerTypes
  <1>7. /\ U[a] = Append(seq, t) /\ \A c \in Accounts : c # a => U[c] = T[c]
    BY <1>1, <1>5 DEF LedgerTypes
  <1>8. \A r \in R : U[r[1]][r[2]] = T[r[1]][r[2]]
    <2> SUFFICES ASSUME NEW r \in R PROVE U[r[1]][r[2]] = T[r[1]][r[2]]
      OBVIOUS
    <2>1. r[1] \in Accounts /\ r[2] \in DOMAIN T[r[1]]
      BY <1>1, <1>3, RowType
    <2> QED BY <1>5, <1>6, <1>7, <2>1
  <1>9. PICK f, g :
          /\ f = [r \in R |-> LegSum(T[r[1]][r[2]], k)]
          /\ g = [r \in S |-> LegSum(U[r[1]][r[2]], k)]
    OBVIOUS
  <1>10. LegsSum(txns, A, k) = SumOver(f, R) /\ LegsSum(U, A, k) = SumOver(g, S)
    BY <1>1, <1>2, <1>9 DEF LegsSum
  <1>11. \A r \in R : f[r] \in Int
    <2> SUFFICES ASSUME NEW r \in R PROVE f[r] \in Int
      OBVIOUS
    <2>1. r \in RowsOf(Accounts)
      BY <1>3
    <2>2. RowSum(r, {k}) = LegOf(r, k) /\ LegOf(r, k) \in Int
      BY <2>1, RowBalances, RowType
    <2>3. f[r] = RowSum(r, {k})
      BY <1>1, <1>9 DEF RowSum, LegOf, LegSum
    <2> QED BY <2>2, <2>3
  <1>14. ASSUME NEW r \in R, r \in S
         PROVE  g[r] = f[r]
    <2>1. PICK t1, t2 : t1 = T[r[1]][r[2]] /\ t2 = U[r[1]][r[2]]
      OBVIOUS
    <2>2. t1 = t2
      BY <1>8, <2>1
    <2>3. f[r] = LegSum(t1, k) /\ g[r] = LegSum(t2, k)
      BY <1>9, <1>14, <2>1
    <2> QED BY <2>2, <2>3
  <1>12. CASE a \notin A
    <2>1. S = R
      BY <1>2, <1>7, <1>12 DEF RowsIn
    <2>2. \A r \in R : g[r] = f[r]
      BY <1>14, <2>1
    <2>3. SumOver(f, R) = SumOver(g, R)
      BY <1>4, <1>11, <2>2, SumSame
    <2> QED BY <1>10, <2>1, <2>3
  <1>13. CASE a \in A
    <2>1. PICK x : x = <<a, n + 1>>
      OBVIOUS
    <2>2. S = R \cup {x}
      <3>1. \A i : i \in 1 .. n + 1 <=> i \in 1 .. n \/ i = n + 1
        BY <1>6
      <3>2. \A c \in A : {c} \X DOMAIN U[c] = IF c = a THEN ({c} \X DOMAIN T[c]) \cup {x} ELSE {c} \X DOMAIN T[c]
        BY <1>5, <1>6, <1>7, <2>1, <3>1
      <3> QED BY <1>2, <1>13, <3>2 DEF RowsIn
    <2>3. x \notin R
      <3>1. n + 1 \notin DOMAIN seq
        BY <1>6
      <3> QED BY <1>1, <1>3, <1>5, <2>1, <3>1, RowType
    <2>4. g[x] = 0
      <3>1. x[1] = a /\ x[2] = n + 1 /\ x \in S
        BY <2>1, <2>2
      <3>2. U[x[1]][x[2]] = t
        BY <1>6, <1>7, <3>1
      <3>3. g[x] = LegSum(t, k)
        BY <1>9, <3>1, <3>2
      <3>4. t.legs \in Legs
        BY DEF Txns
      <3> QED BY <3>3, <3>4, SumKinds DEF LegSum
    <2>5. \A r \in R : g[r] = f[r] /\ f[r] \in Int /\ g[r] \in Int
      BY <1>11, <1>14, <2>2
    <2>6. SumOver(f, R) = SumOver(g, R)
      BY <1>4, <2>5, SumSame
    <2>7. SumOver(g, R \cup {x}) = SumOver(g, R) + g[x]
      BY <1>4, <2>3, <2>4, <2>5, SumAdd
    <2>8. SumOver(g, R) \in Int
      BY <1>4, <2>5, SumType
    <2> QED BY <1>10, <2>2, <2>4, <2>6, <2>7, <2>8
  <1> QED BY <1>12, <1>13

\* While no half settles, the clearing sums of any accounts stay as they are.
LEMMA ClearingStays ==
    ASSUME LedgerTypes, Entries, LedgerNext, settled' = settled,
           NEW A \in SUBSET Accounts, NEW k \in {"CLEARING", "SHARE_CLEARING"}
    PROVE  SumOf(RowsOf(A), {k})' = SumOf(RowsOf(A), {k})
  <1>1. SumOf(RowsOf(A), {k}) = LegsSum(txns, A, k)
    BY DEF SumOf, RowsOf, RowsIn, LegOf, LegSum, LegsSum
  <1>2. SumOf(RowsOf(A), {k})' = LegsSum(txns', A, k)
    BY DEF SumOf, RowsOf, RowsIn, LegOf, LegSum, LegsSum
  <1>3. k \in Kinds
    BY DEF Kinds, MoneyKinds, ShareKinds
  <1>4. LegsSum(txns', A, k) = LegsSum(txns, A, k)
    <2>1. CASE txns' = txns
      BY <2>1
    <2>2. CASE \E a \in Accounts : Deposit(a) \/ SeedShares(a)
      <3>1. PICK a \in Accounts : Deposit(a) \/ SeedShares(a)
        BY <2>2
      <3>2. PICK legs : /\ WriteTxn(a, NoHalf, legs) /\ legs \in Legs
                        /\ legs["CLEARING"] = 0 /\ legs["SHARE_CLEARING"] = 0
        <4>1. CASE Deposit(a)
          <5>1. PICK amount \in Nat \ {0} : Enters(a, NoHalf, DepositLegs(amount))
            BY <4>1, DepositEnters
          <5>2. Amounts(DepositLegs(amount), amount, 0, 0, -amount, 0, 0, 0)
            BY DepositAmounts
          <5> QED BY <5>1, <5>2 DEF Enters, Amounts
        <4>2. CASE SeedShares(a)
          <5>1. PICK qty \in Nat \ {0}, cost \in Nat : Enters(a, NoHalf, SeedLegs(qty, cost))
            BY <4>2, SeedEnters
          <5>2. Amounts(SeedLegs(qty, cost), -cost, 0, 0, cost, qty, 0, -qty)
            BY SeedAmounts
          <5> QED BY <5>1, <5>2 DEF Enters, Amounts
        <4> QED BY <3>1, <4>1, <4>2
      <3>3. PICK t, U : t = Txn(NoHalf, legs) /\ U = txns'
        OBVIOUS
      <3>4. t \in Txns /\ t.legs[k] = 0
        BY <3>2, <3>3 DEF Txn, Txns
      <3>5. U = [txns EXCEPT ![a] = Append(@, t)]
        BY <3>2, <3>3 DEF WriteTxn
      <3>6. LegsSum(U, A, k) = LegsSum(txns, A, k)
        BY <1>3, <3>4, <3>5, SumUntouched
      <3> QED BY <3>3, <3>6
    <2>3. CASE \E h \in Halves : SettleHalf(h)
      <3>1. PICK h \in Halves : settled' = Append(settled, h)
        BY <2>3 DEF SettleHalf
      <3>2. Len(Append(settled, h)) = Len(settled) + 1 /\ Len(settled) \in Nat
        BY DEF LedgerTypes
      <3> QED BY <3>1, <3>2
    <2>4. CASE \/ \E f \in Fills : PublishFill(f)
               \/ \E c \in Checkpointers :
                    \/ \E a \in Accounts : LoadSnapshot(c, a)
                    \/ RecoverState(c) \/ InsertSnapshot(c) \/ PruneSnapshots(c) \/ AbandonSnapshot(c)
      BY <2>1, <2>4 DEF PublishFill, LoadSnapshot, RecoverState, InsertSnapshot, PruneSnapshots,
         AbandonSnapshot, accountVars
    <2> QED BY <2>2, <2>3, <2>4 DEF LedgerNext
  <1> QED BY <1>1, <1>2, <1>4

\* The sums of two groups of accounts add up.
LEMMA SumSplits ==
    ASSUME LedgerTypes, Entries, NEW A \in SUBSET Accounts, NEW B \in SUBSET Accounts,
           A \cap B = {}, NEW k \in Kinds
    PROVE  /\ SumOf(RowsOf(A \cup B), {k}) = SumOf(RowsOf(A), {k}) + SumOf(RowsOf(B), {k})
           /\ SumOf(RowsOf(A), {k}) \in Int /\ SumOf(RowsOf(B), {k}) \in Int
  <1>1. PICK R, S : R = RowsOf(A) /\ S = RowsOf(B)
    OBVIOUS
  <1>2. RowsOf(A \cup B) = R \cup S /\ R \in SUBSET RowsOf(Accounts) /\ S \in SUBSET RowsOf(Accounts)
    BY <1>1 DEF RowsOf
  <1>3. R \cap S = {}
    BY <1>1, RowType
  <1>4. PICK e, f, g : /\ e = [r \in R \cup S |-> LegOf(r, k)]
                       /\ f = [r \in R |-> LegOf(r, k)] /\ g = [r \in S |-> LegOf(r, k)]
    OBVIOUS
  <1>5. IsFiniteSet(R) /\ IsFiniteSet(S) /\ \A r \in R \cup S : e[r] = LegOf(r, k) /\ e[r] \in Int
    BY <1>2, <1>4, SumOfKind
  <1>6. (\A r \in R : f[r] = e[r] /\ f[r] \in Int) /\ (\A r \in S : g[r] = e[r] /\ g[r] \in Int)
    BY <1>4, <1>5
  <1>7. SumOver(f, R) = SumOver(e, R) /\ SumOver(g, S) = SumOver(e, S)
    BY <1>5, <1>6, SumSame
  <1>8. SumOver(e, R \cup S) = SumOver(e, R) + SumOver(e, S)
    BY <1>3, <1>5, SumUnion
  <1>9. SumOf(R, {k}) = SumOver(f, R) /\ SumOf(S, {k}) = SumOver(g, S)
    BY <1>2, <1>4, SumOfKind
  <1>10. SumOf(R \cup S, {k}) = SumOver(e, R \cup S)
    <2>1. R \cup S \in SUBSET RowsOf(Accounts)
      BY <1>2
    <2> QED BY <1>4, <2>1, SumOfKind
  <1>11. SumOver(f, R) \in Int /\ SumOver(g, S) \in Int
    BY <1>5, <1>6, SumType
  <1> QED BY <1>1, <1>2, <1>7, <1>8, <1>9, <1>10, <1>11

\* No rows, no sum.
LEMMA SumNoRows ==
    ASSUME NEW k
    PROVE  SumOf(RowsOf({}), {k}) = 0
  <1>1. RowsOf({}) = {}
    BY DEF RowsOf
  <1>2. \A f : SumOver(f, {}) = 0
    BY SumEmpty
  <1> QED BY <1>1, <1>2 DEF SumOf

\* The tally depends on the ledgers, the fills and the order of settlement only.
LEMMA TallySame ==
    ASSUME Tallied, old' \in Nat, UNCHANGED <<fill, txns, settled, recon>>
    PROVE  Tallied'
  <1>1. TallyType' <=> TallyType
    BY DEF TallyType
  <1>2. Seen' = Seen /\ SeenAccounts' = SeenAccounts
    BY DEF Seen, SeenAccounts
  <1>3. \A h : Owner(h)' = Owner(h)
    BY DEF Owner
  <1>4. \A h \in Halves : TalliedHalf(h)' <=> TalliedHalf(h)
    <2> SUFFICES ASSUME NEW h \in Halves PROVE TalliedHalf(h)' <=> TalliedHalf(h)
      OBVIOUS
    <2>1. PICK t : t = Twin(h)
      OBVIOUS
    <2>2. Counted(h)' = Counted(h) /\ Counted(t)' = Counted(t)
      BY <1>2, <1>3 DEF Counted
    <2>3. (Early(h)' <=> Early(h)) /\ (Early(t)' <=> Early(t))
      BY DEF Early
    <2> QED BY <2>1, <2>2, <2>3 DEF TalliedHalf
  <1>5. \A k : SumOf(RowsOf(SeenAccounts), {k})' = SumOf(RowsOf(SeenAccounts), {k})
    BY <1>2 DEF SumOf, RowsOf, LegOf
  <1>6. TalliedSums' <=> TalliedSums
    BY <1>5 DEF TalliedSums
  <1>7. \A f : HalfOpen(f)' <=> HalfOpen(f)
    BY DEF HalfOpen, Both
  <1>8. Calm' <=> Calm
    BY <1>7 DEF Calm
  <1> QED BY <1>1, <1>4, <1>6, <1>8 DEF Tallied

\* The ledgers go on while the reconciler is between two partitions.
LEMMA TallyLedger ==
    ASSUME LedgerInv, Tallied, LedgerNext, UNCHANGED <<old, recon>>
    PROVE  Tallied'
  <1> SUFFICES ASSUME recon # Asleep
               PROVE  /\ TallyType' /\ TalliedSums' /\ (Calm' => recon'.localOK)
                      /\ \A h \in Halves : TalliedHalf(h)'
    BY DEF Tallied
  <1>1. LedgerTypes /\ Entries
    BY DEF LedgerInv
  <1>2. TallyType /\ TalliedSums /\ (Calm => recon.localOK) /\ \A h \in Halves : TalliedHalf(h)
    BY DEF Tallied
  <1>3. /\ \A f \in Fills : fill[f] # NoFill => fill'[f] = fill[f]
        /\ \/ settled' = settled
           \/ \E h \in Halves : settled' = Append(settled, h)
    BY <1>1, TermsStay
  <1>4. /\ Len(settled) \in Nat /\ Len(settled)' \in Nat /\ Len(settled) <= Len(settled)'
        /\ Len(settled)' = Len(settled) => settled' = settled
    BY <1>1, <1>3, SettledStays
  <1>5. PICK b, m, n : b = recon.began /\ m = Len(settled) /\ n = Len(settled)'
    OBVIOUS
  <1>6. b \in Nat /\ m \in Nat /\ n \in Nat /\ b <= m /\ m <= n /\ (n = m => settled' = settled)
    BY <1>2, <1>4, <1>5 DEF TallyType
  <1>7. TallyType'
    <2>1. b <= n
      BY <1>6
    <2>2. recon'.began = b
      BY <1>5
    <2> QED BY <1>2, <1>5, <2>1, <2>2 DEF TallyType
  <1>8. b = n => b = m /\ settled' = settled
    BY <1>6
  <1>9. TalliedSums'
    <2>1. PICK A : A = SeenAccounts
      OBVIOUS
    <2>2. A \in SUBSET Accounts /\ SeenAccounts' = A
      BY <2>1 DEF SeenAccounts, Seen
    <2>3. recon.cash = 0 /\ recon.shares = 0
      BY <1>2 DEF TalliedSums
    <2>4. b = n => /\ recon.clearing = SumOf(RowsOf(A), {"CLEARING"})'
                   /\ recon.shareClearing = SumOf(RowsOf(A), {"SHARE_CLEARING"})'
      <3> SUFFICES ASSUME b = n
                   PROVE  /\ recon.clearing = SumOf(RowsOf(A), {"CLEARING"})'
                          /\ recon.shareClearing = SumOf(RowsOf(A), {"SHARE_CLEARING"})'
        OBVIOUS
      <3>1. b = m /\ settled' = settled
        BY <1>8
      <3>2. /\ recon.clearing = SumOf(RowsOf(A), {"CLEARING"})
            /\ recon.shareClearing = SumOf(RowsOf(A), {"SHARE_CLEARING"})
        BY <1>2, <1>5, <2>1, <3>1 DEF TalliedSums
      <3>3. SumOf(RowsOf(A), {"CLEARING"})' = SumOf(RowsOf(A), {"CLEARING"})
        BY <1>1, <2>2, <3>1, ClearingStays
      <3>4. SumOf(RowsOf(A), {"SHARE_CLEARING"})' = SumOf(RowsOf(A), {"SHARE_CLEARING"})
        BY <1>1, <2>2, <3>1, ClearingStays
      <3> QED BY <3>2, <3>3, <3>4
    <2>5. SumOf(RowsOf(SeenAccounts), {"CLEARING"})' = SumOf(RowsOf(A), {"CLEARING"})'
      BY <2>2 DEF SumOf, RowsOf, LegOf
    <2>6. SumOf(RowsOf(SeenAccounts), {"SHARE_CLEARING"})' = SumOf(RowsOf(A), {"SHARE_CLEARING"})'
      BY <2>2 DEF SumOf, RowsOf, LegOf
    <2> QED BY <1>5, <2>3, <2>4, <2>5, <2>6 DEF TalliedSums
  <1>10. Calm' => recon'.localOK
    <2>1. SUFFICES ASSUME Calm' PROVE Calm
      BY <1>2
    <2>2. b = m /\ settled' = settled
      BY <1>5, <1>8, <2>1 DEF Calm
    <2>3. ~\E f \in Fills : HalfOpen(f)
      BY <2>1, <2>2 DEF Calm, HalfOpen, Both
    <2>4. ASSUME NEW f \in Fills, fill[f] # NoFill
          PROVE  PartOf[fill[f].taker] = PartOf[fill[f].maker]
      <3>1. fill'[f] = fill[f]
        BY <1>3, <2>4
      <3> QED BY <2>1, <2>4, <3>1 DEF Calm
    <2> QED BY <1>5, <2>2, <2>3, <2>4 DEF Calm
  <1>11. \A h \in Halves : TalliedHalf(h)'
    BY <1>1, <1>2, TalliedLedger
  <1> QED BY <1>7, <1>9, <1>10, <1>11

\* It begins with nothing counted.
LEMMA TallyBegins ==
    ASSUME LedgerInv, Tallied, BeginReconcile
    PROVE  Tallied'
  <1>1. LedgerTypes /\ old \in Nat
    BY DEF LedgerInv, Tallied
  <1>2. /\ recon' = [visited |-> 0, began |-> Len(settled), localOK |-> TRUE,
                     halves |-> [f \in Fills |-> 0], first |-> [f \in Fills |-> {}],
                     clearing |-> 0, shareClearing |-> 0, cash |-> 0, shares |-> 0]
        /\ UNCHANGED <<fill, txns, settled, old>>
    BY DEF BeginReconcile, accountVars
  <1>3. Len(settled) \in Nat /\ Len(Visits) \in Nat /\ 0 \in 0 .. Len(Visits)
    BY <1>1, VisitsAssumption DEF LedgerTypes, VisitsAssumption
  <1>4. TallyType'
    BY <1>2, <1>3 DEF TallyType
  <1>5. Seen' = {} /\ SeenAccounts' = {}
    <2>1. recon'.visited = 0 /\ 1 .. 0 = {}
      BY <1>2
    <2> QED BY <2>1 DEF Seen, SeenAccounts
  <1>6. TalliedSums'
    <2>1. \A k : SumOf(RowsOf({}), {k}) = 0
      BY SumNoRows
    <2>2. \A k : SumOf(RowsOf(SeenAccounts), {k})' = SumOf(RowsOf({}), {k})
      BY <1>2, <1>5 DEF SumOf, RowsOf, LegOf
    <2> QED BY <1>2, <2>1, <2>2 DEF TalliedSums
  <1>7. \A h \in Halves : TalliedHalf(h)'
    <2> SUFFICES ASSUME NEW h \in Halves PROVE TalliedHalf(h)'
      OBVIOUS
    <2>1. PICK t : t = Twin(h)
      OBVIOUS
    <2>2. Counted(h)' = 0 /\ Counted(t)' = 0
      BY <1>5 DEF Counted
    <2>3. recon'.halves[h[1]] = 0 /\ recon'.first[h[1]] = {}
      BY <1>2, TwinType
    <2> QED BY <2>1, <2>2, <2>3 DEF TalliedHalf
  <1> QED BY <1>1, <1>2, <1>4, <1>6, <1>7 DEF Tallied

\* It visits a partition that it has not been to.
LEMMA TallyVisits ==
    ASSUME LedgerInv, Tallied, ReconcileSlice
    PROVE  Tallied'
  <1>1. LedgerTypes /\ Entries /\ old \in Nat
    BY DEF LedgerInv, Tallied
  <1>2. TallyType /\ TalliedSums /\ (Calm => recon.localOK) /\ \A h \in Halves : TalliedHalf(h)
    BY DEF Tallied, ReconcileSlice
  <1>3. PICK v, p : v = recon.visited /\ p = Visits[v + 1]
    OBVIOUS
  <1>4. /\ recon' = [visited |-> v + 1, began |-> recon.began,
                     localOK |-> recon.localOK /\ LocalOK(p),
                     halves |-> [f \in Fills |-> recon.halves[f] + HalvesIn(p, f)],
                     first |-> [f \in Fills |->
                                  IF HalvesIn(p, f) = 0 THEN recon.first[f]
                                  ELSE recon.first[f] \union {FirstIn(p, f)}],
                     clearing |-> recon.clearing + SumOf(Rows(p), {"CLEARING"}),
                     shareClearing |-> recon.shareClearing + SumOf(Rows(p), {"SHARE_CLEARING"}),
                     cash |-> recon.cash + SumOf(Rows(p), MoneyKinds),
                     shares |-> recon.shares + SumOf(Rows(p), ShareKinds)]
        /\ v < Len(Visits)
        /\ UNCHANGED <<fill, txns, settled, old>>
    BY <1>3 DEF ReconcileSlice, Plus, accountVars
  <1>5. v \in Nat /\ v + 1 \in 0 .. Len(Visits) /\ Len(Visits) \in Nat /\ v + 1 \in DOMAIN Visits
    <2>1. PICK l : l = Len(Visits)
      OBVIOUS
    <2>2. l \in Nat /\ DOMAIN Visits = 1 .. l
      BY <2>1, VisitsAssumption DEF VisitsAssumption
    <2>3. v \in 0 .. l /\ v < l
      BY <1>2, <1>3, <1>4, <2>1 DEF TallyType
    <2> QED BY <2>1, <2>2, <2>3
  <1>6. p \notin Seen /\ Seen' = Seen \cup {p}
    <2>1. Seen = {Visits[i] : i \in 1 .. v} /\ Seen' = {Visits[i] : i \in 1 .. v + 1}
      BY <1>3, <1>4 DEF Seen
    <2>2. \A i : i \in 1 .. v + 1 <=> i \in 1 .. v \/ i = v + 1
      BY <1>5
    <2>3. \A i \in 1 .. v : i \in DOMAIN Visits /\ i # v + 1
      <3>1. DOMAIN Visits = 1 .. Len(Visits)
        BY VisitsAssumption DEF VisitsAssumption
      <3> QED BY <1>5, <3>1
    <2>4. p \notin Seen
      BY <1>3, <1>5, <2>1, <2>3, VisitsAssumption DEF VisitsAssumption
    <2> QED BY <1>3, <2>1, <2>2, <2>4
  <1>7. \A f \in Fills : HalvesIn(p, f) \in Nat /\ (HalvesIn(p, f) # 0 => FirstIn(p, f) \in Nat)
    <2> SUFFICES ASSUME NEW f \in Fills
                 PROVE  HalvesIn(p, f) \in Nat /\ (HalvesIn(p, f) # 0 => FirstIn(p, f) \in Nat)
      OBVIOUS
    <2>1. PICK h \in Halves : h[1] = f
      <3>1. <<f, "TAKER">> \in Halves /\ <<f, "TAKER">>[1] = f
        BY DEF Halves, Roles
      <3> QED BY <3>1
    <2> QED BY <1>1, <2>1, HalvesHere, FirstHere
  <1>8. Rows(p) = RowsOf(AccountsIn(p)) /\ AccountsIn(p) \in SUBSET Accounts /\ Rows(p) \in SUBSET RowsOf(Accounts)
    BY RowsSplit
  <1>9. SumOf(Rows(p), MoneyKinds) = 0 /\ SumOf(Rows(p), ShareKinds) = 0
    <2>1. SumOf(Rows(p), MoneyKinds) = 0
      BY PartitionSound DEF OtherChecksOK
    <2>2. PICK f : f = [x \in Rows(p) |-> RowSum(x, ShareKinds)]
      OBVIOUS
    <2>3. \A x \in Rows(p) : f[x] = 0
      BY <1>1, <1>8, <2>2, RowBalances
    <2>4. IsFiniteSet(Rows(p))
      BY <1>1, <1>8, RowType
    <2>5. SumOver(f, Rows(p)) = 0
      BY <2>3, <2>4, SumNone
    <2> QED BY <2>1, <2>2, <2>5 DEF SumOf, RowSum
  <1>10. {"CLEARING", "SHARE_CLEARING"} \subseteq Kinds
    BY DEF Kinds, MoneyKinds, ShareKinds
  <1>11. PICK A, B : A = SeenAccounts /\ B = AccountsIn(p)
    OBVIOUS
  <1>16. A \in SUBSET Accounts /\ B \in SUBSET Accounts /\ A \cap B = {} /\ SeenAccounts' = A \cup B
    BY <1>6, <1>11 DEF SeenAccounts, AccountsIn
  <1>17. ASSUME NEW k \in {"CLEARING", "SHARE_CLEARING"}
         PROVE  /\ SumOf(RowsOf(A \cup B), {k}) = SumOf(RowsOf(A), {k}) + SumOf(Rows(p), {k})
                /\ SumOf(Rows(p), {k}) \in Int
    <2>1. k \in Kinds /\ Rows(p) = RowsOf(B)
      BY <1>8, <1>10, <1>11
    <2>2. /\ SumOf(RowsOf(A \cup B), {k}) = SumOf(RowsOf(A), {k}) + SumOf(RowsOf(B), {k})
          /\ SumOf(RowsOf(B), {k}) \in Int
      BY <1>1, <1>16, <2>1, SumSplits
    <2> QED BY <2>1, <2>2
  <1>12. TallyType'
    <2>1. recon'.visited \in 0 .. Len(Visits) /\ recon'.began \in Nat /\ recon'.began <= Len(settled)
      BY <1>2, <1>4, <1>5 DEF TallyType
    <2>2. recon'.localOK \in BOOLEAN
      BY <1>4
    <2>3. recon'.halves \in [Fills -> Nat]
      BY <1>2, <1>4, <1>7 DEF TallyType
    <2>4. recon'.first \in [Fills -> SUBSET Nat]
      BY <1>2, <1>4, <1>7 DEF TallyType
    <2>5. recon'.clearing \in Int /\ recon'.shareClearing \in Int /\ recon'.cash \in Int /\ recon'.shares \in Int
      <3>1. SumOf(Rows(p), {"CLEARING"}) \in Int /\ SumOf(Rows(p), {"SHARE_CLEARING"}) \in Int
        BY <1>17
      <3> QED BY <1>2, <1>4, <1>9, <3>1 DEF TallyType
    <2>6. PICK r : r = recon'
      OBVIOUS
    <2>7. r = [visited |-> r.visited, began |-> r.began, localOK |-> r.localOK, halves |-> r.halves,
               first |-> r.first, clearing |-> r.clearing, shareClearing |-> r.shareClearing,
               cash |-> r.cash, shares |-> r.shares]
      BY <1>4, <2>6
    <2> QED BY <1>4, <2>1, <2>2, <2>3, <2>4, <2>5, <2>6, <2>7 DEF TallyType
  <1>13. TalliedSums'
    <2>3. recon'.cash = 0 /\ recon'.shares = 0
      BY <1>2, <1>4, <1>9 DEF TalliedSums
    <2>4. \A k : SumOf(RowsOf(SeenAccounts), {k})' = SumOf(RowsOf(A \cup B), {k})
      BY <1>4, <1>16 DEF SumOf, RowsOf, LegOf
    <2>5. \A k \in {"CLEARING", "SHARE_CLEARING"} :
            SumOf(RowsOf(A \cup B), {k}) = SumOf(RowsOf(A), {k}) + SumOf(Rows(p), {k})
      BY <1>17
    <2>6. recon'.began = Len(settled') =>
            /\ recon'.clearing = SumOf(RowsOf(SeenAccounts), {"CLEARING"})'
            /\ recon'.shareClearing = SumOf(RowsOf(SeenAccounts), {"SHARE_CLEARING"})'
      <3> SUFFICES ASSUME recon'.began = Len(settled')
                   PROVE  /\ recon'.clearing = SumOf(RowsOf(SeenAccounts), {"CLEARING"})'
                          /\ recon'.shareClearing = SumOf(RowsOf(SeenAccounts), {"SHARE_CLEARING"})'
        OBVIOUS
      <3>1. recon.began = Len(settled)
        BY <1>4
      <3>2. /\ recon.clearing = SumOf(RowsOf(A), {"CLEARING"})
            /\ recon.shareClearing = SumOf(RowsOf(A), {"SHARE_CLEARING"})
        BY <1>2, <1>11, <3>1 DEF TalliedSums
      <3>3. /\ recon'.clearing = recon.clearing + SumOf(Rows(p), {"CLEARING"})
            /\ recon'.shareClearing = recon.shareClearing + SumOf(Rows(p), {"SHARE_CLEARING"})
        BY <1>4
      <3> QED BY <2>4, <2>5, <3>2, <3>3
    <2> QED BY <2>3, <2>6 DEF TalliedSums
  <1>14. Calm' => recon'.localOK
    <2>1. SUFFICES ASSUME Calm' PROVE recon'.localOK
      OBVIOUS
    <2>2. Calm
      <3>1. recon'.began = recon.began
        BY <1>4
      <3> QED BY <1>4, <2>1, <3>1 DEF Calm, HalfOpen, Both
    <2>3. OtherChecksOK(p)
      BY PartitionSound
    <2>4. OrphanedFillHalves(p) = {}
      <3> SUFFICES ASSUME NEW f \in OrphanedFillHalves(p) PROVE FALSE
        OBVIOUS
      <3>1. f \in Fills /\ HalvesIn(p, f) \notin {0, 2}
        BY DEF OrphanedFillHalves
      <3>2. ~HalfOpen(f)
        BY <2>2, <3>1 DEF Calm
      <3>3. PartOf[fill[f].taker] # PartOf[fill[f].maker]
        BY <3>2, OrphansOpen
      <3>4. fill[f] # NoFill
        <4>1. PICK h \in Halves : h[1] = f
          <5>1. <<f, "TAKER">> \in Halves /\ <<f, "TAKER">>[1] = f
            BY <3>1 DEF Halves, Roles
          <5> QED BY <5>1
        <4>2. Contains(settled, h) \/ Contains(settled, Twin(h))
          BY <1>1, <3>1, <4>1, HalvesHere
        <4> QED BY <1>1, <4>1, <4>2, TwinType DEF Entries
      <3> QED BY <2>2, <3>1, <3>3, <3>4 DEF Calm
    <2>5. recon.localOK /\ LocalOK(p)
      BY <1>2, <2>2, <2>3, <2>4 DEF LocalOK
    <2> QED BY <1>4, <2>5
  <1>15. \A h \in Halves : TalliedHalf(h)'
    <2> SUFFICES ASSUME NEW h \in Halves PROVE TalliedHalf(h)'
      OBVIOUS
    <2>1. h[1] \in Fills
      BY TwinType
    <2>2. /\ recon.halves[h[1]]' = recon.halves[h[1]] + HalvesIn(p, h[1])
          /\ recon.first[h[1]]' = IF HalvesIn(p, h[1]) = 0 THEN recon.first[h[1]]
                                  ELSE recon.first[h[1]] \union {FirstIn(p, h[1])}
          /\ recon.began' = recon.began
      BY <1>4, <2>1
    <2>3. TalliedHalf(h) /\ UNCHANGED <<fill, settled>>
      BY <1>2, <1>4
    <2> QED BY <1>1, <1>2, <1>6, <2>2, <2>3, TalliedVisit
  <1> QED BY <1>1, <1>4, <1>12, <1>13, <1>14, <1>15 DEF Tallied

\* So the tally stays right at every step.
LEMMA StepTally ==
    ASSUME LedgerInv, Tallied, [Next]_vars
    PROVE  Tallied'
  <1>1. old \in Nat
    BY DEF Tallied
  <1>2. CASE LedgerNext /\ UNCHANGED <<old, recon>>
    BY <1>2, TallyLedger
  <1>3. CASE BeginReconcile
    BY <1>3, TallyBegins
  <1>4. CASE ReconcileSlice
    BY <1>4, TallyVisits
  <1>5. CASE Report
    BY <1>1, <1>5 DEF Report, Tallied
  <1>6. CASE WindowPasses
    <2>1. old' \in Nat
      BY <1>1, <1>6 DEF WindowPasses
    <2> QED BY <1>6, <2>1, TallySame DEF WindowPasses, accountVars
  <1>7. CASE UNCHANGED vars
    BY <1>1, <1>7, TallySame DEF vars, accountVars
  <1> QED BY <1>2, <1>3, <1>4, <1>5, <1>6, <1>7 DEF Next

\* What the reconciler has added up is right throughout, for the partitions it has
\* been to: that the halves settled before it began are counted once each, whatever
\* settles meanwhile, and that its sums are of the moment if nothing does (Reconcile).
THEOREM ReconcilerHolds == Spec => [](LedgerInv /\ Tallied)
  <1>1. Init => LedgerInv /\ Tallied
    BY InitLedger DEF Init, Tallied
  <1>2. LedgerInv /\ Tallied /\ [Next]_vars => (LedgerInv /\ Tallied)'
    BY StepLedger, StepTally
  <1> QED BY <1>1, <1>2, PTL DEF Spec

\* When it reports, it has been to every partition.
LEMMA SeenAll ==
    ASSUME LedgerTypes, recon.visited = Len(Visits)
    PROVE  /\ Seen = Partitions /\ SeenAccounts = Accounts
           /\ \A h \in Halves : fill[h[1]] # NoFill => Counted(h) = 1
  <1>1. DOMAIN Visits = 1 .. Len(Visits) /\ {Visits[i] : i \in DOMAIN Visits} = Partitions
    BY VisitsAssumption DEF VisitsAssumption, Range
  <1>2. Seen = Partitions
    BY <1>1 DEF Seen
  <1>3. \A a \in Accounts : PartOf[a] \in Partitions
    BY LedgerAssumption DEF LedgerAssumption
  <1>4. \A h \in Halves : fill[h[1]] # NoFill => Owner(h) \in Accounts
    BY HalfType
  <1> QED BY <1>2, <1>3, <1>4 DEF SeenAccounts, Counted

\* Both halves of a fill are among the first n that settled.
LEMMA BothEarly ==
    ASSUME LedgerTypes, TallyType, NEW f \in Fills
    PROVE  Both(f, recon.began) <=> Early(<<f, "TAKER">>) /\ Early(<<f, "MAKER">>)
  <1>1. PICK b, seq : b = recon.began /\ seq = SubSeq(settled, 1, b)
    OBVIOUS
  <1>2. b \in Nat /\ b <= Len(settled) /\ settled \in Seq(Halves)
    BY <1>1 DEF TallyType, LedgerTypes
  <1>3. DOMAIN seq = 1 .. b /\ \A i \in 1 .. b : seq[i] = settled[i]
    BY <1>1, <1>2
  <1>4. \A h : h \in Range(seq) <=> Early(h)
    BY <1>1, <1>3 DEF Range, Early
  <1> QED BY <1>1, <1>4 DEF Both, Roles

\* The fills the report names, of those that settled before it began.
LEMMA Named ==
    ASSUME LedgerInv, Tallied, Report, NEW f \in Fills
    PROVE  /\ Both(f, recon.began) => f \notin OrphanedFills
           /\ (/\ HalfOpen(f)
               /\ \E i \in 1 .. recon.began : settled[i][1] = f /\ i <= old)
              => f \in OrphanedFills
  <1>1. LedgerTypes /\ Entries /\ old \in Nat
    BY DEF LedgerInv, Tallied
  <1>2. TallyType /\ (\A h \in Halves : TalliedHalf(h)) /\ recon.visited = Len(Visits)
    BY DEF Tallied, Report
  <1>3. recon.began \in Nat /\ recon.began <= Len(settled)
    BY <1>2 DEF TallyType
  <1>4. \A h \in Halves : Contains(settled, h) => Counted(h) = 1
    BY <1>1, <1>2, SeenAll DEF Entries
  <1>5. ASSUME Both(f, recon.began) PROVE f \notin OrphanedFills
    <2>1. PICK h, t : h = <<f, "TAKER">> /\ t = <<f, "MAKER">>
      OBVIOUS
    <2>2. h \in Halves /\ t \in Halves /\ t = Twin(h) /\ h[1] = f
      BY <2>1 DEF Halves, Roles, Twin
    <2>3. Early(h) /\ Early(t)
      BY <1>1, <1>2, <1>5, <2>1, BothEarly
    <2>4. Counted(h) = 1 /\ Counted(t) = 1
      BY <1>1, <1>3, <1>4, <2>2, <2>3, EarlySettled
    <2>5. recon.halves[f] = Counted(h) + Counted(t)
      BY <1>2, <2>2, <2>3 DEF TalliedHalf
    <2>6. recon.halves[f] = 2
      BY <2>4, <2>5
    <2> QED BY <2>6 DEF OrphanedFills
  <1>6. ASSUME HalfOpen(f), NEW i \in 1 .. recon.began, settled[i][1] = f, i <= old
        PROVE  f \in OrphanedFills
    <2>1. PICK h : h = settled[i]
      OBVIOUS
    <2>2. i \in DOMAIN settled /\ h \in Halves /\ h[1] = f /\ Early(h)
      BY <1>1, <1>3, <1>6, <2>1, EarlySettled DEF Early
    <2>3. Contains(settled, h)
      BY <1>1, <1>3, <2>2, EarlySettled
    <2>4. ~Contains(settled, Twin(h))
      BY <1>1, <1>6, <2>2, <2>3, OpenMeans
    <2>5. PICK F : F = recon.first[f]
      OBVIOUS
    <2>6. recon.halves[f] = 1 /\ F # {} /\ \A x \in F : x <= i
      BY <1>2, <1>4, <2>1, <2>2, <2>3, <2>4, <2>5 DEF TalliedHalf
    <2>7. F \in SUBSET Nat
      BY <1>2, <2>5 DEF TallyType
    <2>8. Min(F) \in F
      <3>1. \E x \in F : \A y \in F : x <= y
        BY <2>6, <2>7, LeastNat
      <3> QED BY <3>1 DEF Min
    <2>9. Min(F) <= old
      <3>1. PICK m : m = Min(F)
        OBVIOUS
      <3>2. m \in Nat /\ m <= i
        BY <2>6, <2>7, <2>8, <3>1
      <3>3. PICK b : b = recon.began
        OBVIOUS
      <3>4. b \in Nat /\ i \in 1 .. b
        BY <1>3, <3>3
      <3>5. i \in Nat
        BY <3>4
      <3> QED BY <1>1, <1>6, <3>1, <3>2, <3>5
    <2> QED BY <2>5, <2>6, <2>9 DEF OrphanedFills
  <1> QED BY <1>5, <1>6

\* The report names every fill stuck with one half since before it began, and no
\* fill that was sound by then, though each partition is read at another moment and
\* the ledgers go on in between (Reconcile).
THEOREM StuckAreNamed == Spec => ReportNamesTheStuck
  <1>1. LedgerInv /\ Tallied =>
          [Report => \A f \in Fills :
             /\ Both(f, recon.began) => f \notin OrphanedFills
             /\ (/\ HalfOpen(f)
                 /\ \E i \in 1 .. recon.began : settled[i][1] = f /\ i <= old)
                => f \in OrphanedFills]_vars
    BY Named
  <1> QED BY <1>1, ReconcilerHolds, PTL DEF ReportNamesTheStuck

\* With no fill open and none settling while it looks, the sums are zero and no fill is named.
LEMMA Quiet ==
    ASSUME LedgerInv, Tallied, Report, recon.began = Len(settled), ~\E f \in Fills : HalfOpen(f)
    PROVE  /\ SumsToZero /\ OrphanedFills = {}
           /\ (\A f \in {g \in Fills : fill[g] # NoFill} :
                  PartOf[fill[f].taker] = PartOf[fill[f].maker]) => GlobalOK
  <1>1. LedgerTypes /\ Entries
    BY DEF LedgerInv
  <1>2. /\ TallyType /\ TalliedSums /\ (Calm => recon.localOK)
        /\ (\A h \in Halves : TalliedHalf(h)) /\ recon.visited = Len(Visits)
    BY DEF Tallied, Report
  <1>3. SeenAccounts = Accounts /\ \A h \in Halves : Contains(settled, h) => Counted(h) = 1
    BY <1>1, <1>2, SeenAll DEF Entries
  <1>4. \A h \in Halves : Contains(settled, h) => Contains(settled, Twin(h))
    BY <1>1, OpenMeans, TwinType
  <1>5. Twinned(RowsOf(Accounts))
    <2> SUFFICES ASSUME NEW r \in RowsOf(Accounts), HalfOf(r) # NoHalf
                 PROVE  \E q \in RowsOf(Accounts) : HalfOf(q) = Twin(HalfOf(r))
      BY DEF Twinned
    <2>1. HalfOf(r) \in Halves /\ Contains(settled, HalfOf(r))
      BY <1>1, RowBalances
    <2>2. Twin(HalfOf(r)) \in Halves /\ Contains(settled, Twin(HalfOf(r)))
      BY <1>4, <2>1, TwinType
    <2> QED BY <1>1, <2>2, RowOfHalf
  <1>6. SumOf(RowsOf(Accounts), {"CLEARING"}) = 0 /\ SumOf(RowsOf(Accounts), {"SHARE_CLEARING"}) = 0
    BY <1>1, <1>5, TwinnedSums
  <1>7. SumsToZero
    BY <1>2, <1>3, <1>6 DEF SumsToZero, TalliedSums
  <1>8. ASSUME NEW f \in Fills
        PROVE  recon.halves[f] \in {0, 2}
    <2>1. PICK h, t : h = <<f, "TAKER">> /\ t = <<f, "MAKER">>
      OBVIOUS
    <2>2. h \in Halves /\ t \in Halves /\ t = Twin(h) /\ h = Twin(t) /\ h[1] = f
      BY <2>1 DEF Halves, Roles, Twin
    <2>3. CASE Contains(settled, h)
      <3>1. Contains(settled, t)
        BY <1>4, <2>2, <2>3
      <3>2. Early(h) /\ Early(t)
        BY <1>1, <1>2, <2>3, <3>1, EarlySettled DEF TallyType
      <3>3. Counted(h) = 1 /\ Counted(t) = 1
        BY <1>3, <2>2, <2>3, <3>1
      <3>4. recon.halves[f] = Counted(h) + Counted(t)
        BY <1>2, <2>2, <3>2 DEF TalliedHalf
      <3>5. recon.halves[f] = 2
        BY <3>3, <3>4
      <3> QED BY <3>5
    <2>4. CASE ~Contains(settled, h)
      <3>1. ~Contains(settled, t)
        BY <1>4, <2>2, <2>4
      <3> QED BY <1>2, <2>2, <2>4, <3>1 DEF TalliedHalf
    <2> QED BY <2>3, <2>4
  <1>9. OrphanedFills = {}
    BY <1>8 DEF OrphanedFills
  <1>10. (\A f \in {g \in Fills : fill[g] # NoFill} :
            PartOf[fill[f].taker] = PartOf[fill[f].maker]) => recon.localOK
    BY <1>2 DEF Calm
  <1> QED BY <1>7, <1>9, <1>10 DEF GlobalOK

\* Once all has settled, a reconciliation that nothing settles under finds every sum
\* zero and names no fill, and if no fill crosses partitions it finds all sound (OK).
THEOREM QuietIsSound == Spec => QuietReconciles
  <1>1. LedgerInv /\ Tallied =>
          [(Report /\ recon.began = Len(settled) /\ ~\E f \in Fills : HalfOpen(f))
           => /\ SumsToZero /\ OrphanedFills = {}
              /\ (\A f \in {g \in Fills : fill[g] # NoFill} :
                     PartOf[fill[f].taker] = PartOf[fill[f].maker]) => GlobalOK]_vars
    BY Quiet
  <1> QED BY <1>1, ReconcilerHolds, PTL DEF QuietReconciles
=============================================================================
