------------------------ MODULE TradingCore_proofs ------------------------
(*************************************************************************)
(* The trading core, for every set of accounts and orders, every fee     *)
(* schedule, every interleaving, crash, redelivery and failed settlement *)
(* of the model.  First: it keeps its types and implements the escrow,   *)
(* once for money and once for shares, so nothing is ever promised       *)
(* twice.  Then: the log, the executions, the outcomes and the ledger    *)
(* agree with each other, so no order is filled beyond its size or by    *)
(* one half twice, an order that is over is settled in full, and what    *)
(* the accounts hold is what was paid in.  Last: how far a reservation   *)
(* may fall short of what its order's fills cost.                        *)
(*************************************************************************)
EXTENDS TradingCore, Money_proofs, FiniteSetTheorems, SequenceTheorems

\* The book holds no more than was asked for, and every half on the outcome
\* topic is a half of an execution that happened.
MarketTypeOK ==
    /\ req \in [Orders -> Requests]
    /\ inbound \in Seq([type : {"ORDER", "CANCEL"}, order : Orders])
    /\ taken \in 0 .. Len(inbound)
    /\ open \in [Orders -> Nat]
    /\ fills \in Seq(FillRecord)
    /\ outcomes \in Seq(OutcomeRecord)
    /\ repeats \in Nat
    /\ \A o \in Orders : open[o] <= req[o].qty
    /\ \A i \in 1 .. Len(outcomes) :
         outcomes[i].type = "HALF" => outcomes[i].fill \in 1 .. Len(fills)

\* No reservation is overdrawn, and what was never accepted reserves nothing.
CoreTypeOK ==
    /\ status \in [Orders -> Statuses]
    /\ filled \in [Orders -> Nat] /\ notional \in [Orders -> Nat]
    /\ reserved \in [Orders -> Nat] /\ consumed \in [Orders -> Nat]
    /\ released \in [Orders -> Nat]
    /\ cash \in [Accounts -> Int] /\ shares \in [Accounts -> Int] /\ fees \in Nat
    /\ deposited \in Int /\ seeded \in Nat /\ funded \in Nat
    /\ applied \subseteq (Nat \X Roles)
    /\ next \in [Partitions -> Nat \ {0}] /\ reader \in [Partitions -> Nat \ {0}]
    /\ \A o \in Orders : /\ consumed[o] + released[o] <= reserved[o]
                         /\ status[o] = "NONE" => reserved[o] = 0

\* The inductive invariant.
IInv == MarketTypeOK /\ CoreTypeOK

\* A client's request names an account, a quantity and a price.
LEMMA RequestType ==
    ASSUME req \in [Orders -> Requests], NEW o \in Orders
    PROVE  /\ req[o].acct \in Accounts
           /\ req[o].side \in {"BUY", "SELL"}
           /\ req[o].qty \in Nat \ {0}
           /\ req[o].price \in Nat \ {0}
  BY MarketAssumption

\* A function on 1 .. n is a sequence of length n.
LEMMA FunctionIsSeq ==
    ASSUME NEW S, NEW n \in Nat, NEW f \in [1 .. n -> S]
    PROVE  f \in Seq(S) /\ Len(f) = n
  <1>1. f \in Seq(S)
    BY SeqDef
  <1>2. Len(f) \in Nat /\ 1 .. Len(f) = 1 .. n
    BY <1>1, LenProperties
  <1> QED BY <1>1, <1>2

-----------------------------------------------------------------------------
(* The matching engine. *)

\* What a plan takes from each maker is positive and no more than is there.
LEMMA PlanTakes ==
    ASSUME MarketTypeOK, NEW o \in Orders, NEW n \in Nat,
           NEW mk \in [1 .. n -> Orders], NEW cum \in [0 .. n -> 0 .. req[o].qty],
           Plan(o, mk, cum), NEW i \in 1 .. n
    PROVE  /\ cum[i] \in Nat /\ cum[i-1] \in Nat
           /\ cum[i] - cum[i-1] \in Nat \ {0}
           /\ cum[i] - cum[i-1] <= open[mk[i]]
  <1>1. req[o].qty \in Nat
    BY RequestType DEF MarketTypeOK
  <1>2. i \in 0 .. n /\ i - 1 \in 0 .. n /\ i - 1 < i
    OBVIOUS
  <1>3. cum[i] \in Nat /\ cum[i-1] \in Nat
    BY <1>1, <1>2
  <1>4. Len(mk) = n
    OBVIOUS
  <1>5. cum[i-1] < cum[i]
    BY <1>2, <1>4 DEF Plan
  <1>6. cum[i] <= cum[i-1] + open[mk[i]]
    BY <1>4 DEF Plan
  <1>7. open[mk[i]] \in Nat
    BY DEF MarketTypeOK
  <1> QED BY <1>3, <1>5, <1>6, <1>7

\* Handling an order appends executions and outcomes of the right kind, and
\* leaves no order more in the book than it had or asked for.
LEMMA MatchOrderType ==
    ASSUME MarketTypeOK, NEW o \in Orders, MatchOrder(o)
    PROVE  MarketTypeOK'
  <1> USE DEF MarketTypeOK
  <1>1. IsFiniteSet(Available(o)) /\ Cardinality(Available(o)) \in Nat
    <2>1. Available(o) \in SUBSET Orders
      BY DEF Available
    <2> QED BY <2>1, MarketAssumption, FS_Subset, FS_CardinalityType
  <1>a. PICK n \in 0 .. Cardinality(Available(o)) :
          \E mk \in [1 .. n -> Available(o)] :
             /\ \A i, j \in 1 .. n : mk[i] = mk[j] => i = j
             /\ \E cum \in [0 .. n -> 0 .. req[o].qty] : Execute(o, n, mk, cum)
    BY DEF MatchOrder
  <1>b. PICK mk \in [1 .. n -> Available(o)] :
             /\ \A i, j \in 1 .. n : mk[i] = mk[j] => i = j
             /\ \E cum \in [0 .. n -> 0 .. req[o].qty] : Execute(o, n, mk, cum)
    BY <1>a
  <1>2. PICK cum \in [0 .. n -> 0 .. req[o].qty] : Execute(o, n, mk, cum)
    BY <1>b
  <1>3. n \in Nat /\ mk \in [1 .. n -> Orders] /\ Len(mk) = n /\ o \notin Available(o)
    BY <1>1 DEF Available, Crosses
  <1>4. Plan(o, mk, cum)
    BY <1>2 DEF Execute
  <1>5. \A i \in 1 .. n : /\ cum[i] \in Nat /\ cum[i-1] \in Nat
                          /\ cum[i] - cum[i-1] \in Nat \ {0}
                          /\ cum[i] - cum[i-1] <= open[mk[i]]
    BY <1>3, <1>4, PlanTakes
  <1>6. req[o].qty \in Nat /\ cum[n] \in 0 .. req[o].qty
    BY <1>3, RequestType
  <1>7. Fate(o, cum[n]) \in {"COMPLETE", "RESTED", "CANCELLED"}
    BY DEF Fate
  <1>8. /\ fills' \in Seq(FillRecord) /\ Len(fills') = Len(fills) + n
    <2>1. \A i \in 1 .. n : req[mk[i]].price \in Nat
      BY <1>3, RequestType
    <2>2. PlannedFills(o, mk, cum) \in [1 .. n -> FillRecord]
      BY <1>3, <1>5, <2>1 DEF PlannedFills, FillRecord
    <2>3. PlannedFills(o, mk, cum) \in Seq(FillRecord) /\ Len(PlannedFills(o, mk, cum)) = n
      BY <1>3, <2>2, FunctionIsSeq
    <2>4. fills' = fills \o PlannedFills(o, mk, cum)
      BY <1>2 DEF Execute
    <2> QED BY <2>3, <2>4, ConcatProperties
  <1>9. /\ outcomes' \in Seq(OutcomeRecord)
        /\ \A i \in 1 .. Len(outcomes') :
             outcomes'[i].type = "HALF" => outcomes'[i].fill \in 1 .. Len(fills')
    <2> DEFINE P == Produced(o, mk, Fate(o, cum[n]))
    <2>1. \A i \in 1 .. 2 * n + 1 :
             /\ P[i] \in OutcomeRecord
             /\ P[i].type = "HALF" => P[i].fill \in 1 .. Len(fills) + n
      <3> SUFFICES ASSUME NEW i \in 1 .. 2 * n + 1
                   PROVE  /\ P[i] \in OutcomeRecord
                          /\ P[i].type = "HALF" => P[i].fill \in 1 .. Len(fills) + n
        OBVIOUS
      <3>1. CASE i = 2 * n + 1
        <4>1. P[i] = Disposition(o, Fate(o, cum[n]))
          BY <1>3, <3>1 DEF Produced
        <4> QED BY <1>7, <4>1 DEF Disposition, OutcomeRecord
      <3>2. CASE i # 2 * n + 1 /\ i % 2 = 1
        <4>1. P[i] = Half(o, Len(fills) + (i + 1) \div 2, "TAKER")
          BY <1>3, <3>2 DEF Produced
        <4>2. (i + 1) \div 2 \in 1 .. n
          BY <1>3, <3>2
        <4> QED BY <1>3, <4>1, <4>2 DEF Half, OutcomeRecord, Roles
      <3>3. CASE i # 2 * n + 1 /\ i % 2 # 1
        <4>1. P[i] = Half(mk[i \div 2], Len(fills) + i \div 2, "MAKER")
          BY <1>3, <3>3 DEF Produced
        <4>2. i \div 2 \in 1 .. n
          BY <1>3, <3>3
        <4> QED BY <1>3, <4>1, <4>2 DEF Half, OutcomeRecord, Roles
      <3> QED BY <3>1, <3>2, <3>3
    <2>2. P \in Seq(OutcomeRecord) /\ Len(P) = 2 * n + 1
      <3>1. P \in [1 .. 2 * n + 1 -> OutcomeRecord]
        BY <1>3, <2>1 DEF Produced
      <3>2. 2 * n + 1 \in Nat
        BY <1>3
      <3> HIDE DEF P
      <3> QED BY <3>1, <3>2, FunctionIsSeq
    <2>3. outcomes' = outcomes \o P
      BY <1>2 DEF Execute
    <2> HIDE DEF P
    <2>4. outcomes' \in Seq(OutcomeRecord) /\ Len(outcomes') = Len(outcomes) + 2 * n + 1
      <3>1. outcomes' \in Seq(OutcomeRecord) /\ Len(outcomes') = Len(outcomes) + Len(P)
        BY <2>2, <2>3, ConcatProperties
      <3> QED BY <1>3, <2>2, <3>1
    <2>5. ASSUME NEW i \in 1 .. Len(outcomes'), outcomes'[i].type = "HALF"
          PROVE  outcomes'[i].fill \in 1 .. Len(fills) + n
      <3>1. CASE i <= Len(outcomes)
        BY <1>3, <2>3, <2>5, <3>1
      <3>2. CASE i > Len(outcomes)
        <4>1. i - Len(outcomes) \in 1 .. 2 * n + 1
          BY <1>3, <2>4, <3>2
        <4>2. outcomes'[i] = P[i - Len(outcomes)]
          BY <1>3, <2>2, <2>3, <3>2, <4>1
        <4> QED BY <2>1, <2>5, <4>1, <4>2
      <3> QED BY <3>1, <3>2
    <2> QED BY <1>8, <2>4, <2>5
  <1>10. open' \in [Orders -> Nat] /\ \A m \in Orders : open'[m] <= req[m].qty
    <2>1. PICK kept \in MayKeep(o, n, cum[n]) : open' = BookAfter(o, mk, cum, kept)
      BY <1>2 DEF Execute
    <2>2. kept \in 0 .. req[o].qty
      BY <1>6 DEF MayKeep
    <2>3. ASSUME NEW m \in Orders
          PROVE  open'[m] \in Nat /\ open'[m] <= req[m].qty
      <3>1. CASE m = o
        BY <1>6, <2>1, <2>2, <3>1 DEF BookAfter
      <3>2. CASE m # o /\ \E i \in 1 .. n : mk[i] = m
        <4> DEFINE i == CHOOSE i \in 1 .. n : mk[i] = m
        <4>1. i \in 1 .. n /\ mk[i] = m
          BY <3>2
        <4>2. open'[m] = open[m] - (cum[i] - cum[i-1])
          BY <1>3, <2>1, <3>2 DEF BookAfter
        <4> HIDE DEF i
        <4>3. open[m] \in Nat /\ open[m] <= req[m].qty /\ req[m].qty \in Nat
          BY RequestType
        <4>4. cum[i] - cum[i-1] \in Nat /\ cum[i] - cum[i-1] <= open[m]
          BY <1>5, <4>1
        <4> QED BY <4>2, <4>3, <4>4
      <3>3. CASE m # o /\ ~ \E i \in 1 .. n : mk[i] = m
        BY <1>3, <2>1, <3>3 DEF BookAfter
      <3> QED BY <3>1, <3>2, <3>3
    <2>4. open' \in [Orders -> Nat]
      BY <2>1, <2>3 DEF BookAfter
    <2> QED BY <2>3, <2>4
  <1>11. req' = req /\ inbound' = inbound /\ repeats' = repeats /\ taken' \in 0 .. Len(inbound)
    BY DEF MatchOrder
  <1> QED BY <1>8, <1>9, <1>10, <1>11

\* Answering a cancel appends one verdict.
LEMMA CancelRestingType ==
    ASSUME MarketTypeOK, NEW o \in Orders, CancelResting(o) \/ CancelAgain(o)
    PROVE  MarketTypeOK'
  <1> USE DEF MarketTypeOK
  <1>1. Verdict(o, open[o] > 0) \in OutcomeRecord
    BY DEF Verdict, OutcomeRecord
  <1>2. /\ outcomes' = Append(outcomes, Verdict(o, open[o] > 0))
        /\ open' = [open EXCEPT ![o] = 0]
        /\ req' = req /\ inbound' = inbound /\ fills' = fills /\ repeats' \in Nat
        /\ taken' \in 0 .. Len(inbound)
    BY DEF CancelResting, CancelAgain
  <1>3. outcomes' \in Seq(OutcomeRecord)
    BY <1>1, <1>2
  <1>4. \A i \in 1 .. Len(outcomes') :
          outcomes'[i].type = "HALF" => outcomes'[i].fill \in 1 .. Len(fills)
    <2> SUFFICES ASSUME NEW i \in 1 .. Len(outcomes'), outcomes'[i].type = "HALF"
                 PROVE  outcomes'[i].fill \in 1 .. Len(fills)
      OBVIOUS
    <2>1. outcomes'[Len(outcomes) + 1].type = "VERDICT"
      BY <1>2 DEF Verdict
    <2>2. i \in 1 .. Len(outcomes) /\ outcomes'[i] = outcomes[i]
      BY <1>2, <2>1
    <2> QED BY <2>2
  <1>5. open' \in [Orders -> Nat] /\ \A m \in Orders : open'[m] <= req[m].qty
    BY <1>2, RequestType
  <1> QED BY <1>2, <1>3, <1>4, <1>5

\* A crash of the shard produces outcomes that were produced before.
LEMMA Repeats ==
    ASSUME MarketTypeOK, Regenerate
    PROVE  /\ outcomes' \in Seq(OutcomeRecord)
           /\ \A i \in 1 .. Len(outcomes') : \E j \in 1 .. Len(outcomes) : outcomes'[i] = outcomes[j]
  <1>1. PICK k \in Boundaries, m \in Boundaries :
          k < m /\ outcomes' = outcomes \o SubSeq(outcomes, k + 1, m)
    BY DEF Regenerate
  <1> DEFINE T == SubSeq(outcomes, k + 1, m)
  <1>2. k \in Nat /\ m \in Nat /\ k < m /\ m <= Len(outcomes)
    BY <1>1 DEF Boundaries, MarketTypeOK
  <1>3. \A i \in k + 1 .. m : outcomes[i] \in OutcomeRecord
    BY <1>2 DEF MarketTypeOK
  <1>4. /\ T \in Seq(OutcomeRecord) /\ Len(T) = m - k
        /\ \A i \in 1 .. Len(T) : T[i] = outcomes[k + i]
    BY <1>2, <1>3, SubSeqProperties
  <1> HIDE DEF T
  <1>5. /\ outcomes' \in Seq(OutcomeRecord)
        /\ Len(outcomes') = Len(outcomes) + Len(T)
        /\ \A i \in 1 .. Len(outcomes') :
             outcomes'[i] = IF i <= Len(outcomes) THEN outcomes[i] ELSE T[i - Len(outcomes)]
    BY <1>1, <1>4, ConcatProperties DEF T, MarketTypeOK
  <1>6. \A i \in 1 .. Len(outcomes') : \E j \in 1 .. Len(outcomes) : outcomes'[i] = outcomes[j]
    <2> SUFFICES ASSUME NEW i \in 1 .. Len(outcomes')
                 PROVE  \E j \in 1 .. Len(outcomes) : outcomes'[i] = outcomes[j]
      OBVIOUS
    <2>1. CASE i <= Len(outcomes)
      BY <1>5, <2>1
    <2>2. CASE i > Len(outcomes)
      <3> DEFINE d == i - Len(outcomes)
      <3>1. d \in 1 .. Len(T) /\ k + d \in 1 .. Len(outcomes)
        BY <1>2, <1>4, <1>5, <2>2
      <3>2. outcomes'[i] = T[d]
        BY <1>5, <2>2
      <3>3. T[d] = outcomes[k + d]
        BY <1>4, <3>1
      <3> QED BY <3>1, <3>2, <3>3
    <2> QED BY <2>1, <2>2
  <1> QED BY <1>5, <1>6

\* So it keeps the market's types.
LEMMA RegenerateType ==
    ASSUME MarketTypeOK, Regenerate
    PROVE  MarketTypeOK'
  <1>1. /\ req' = req /\ inbound' = inbound /\ taken' = taken /\ open' = open
        /\ fills' = fills /\ repeats' \in Nat
    BY DEF Regenerate, MarketTypeOK
  <1> QED BY <1>1, Repeats DEF MarketTypeOK

LEMMA MarketStepType ==
    ASSUME MarketTypeOK, MarketNext
    PROVE  MarketTypeOK'
  BY MatchOrderType, CancelRestingType, RegenerateType DEF MarketNext

-----------------------------------------------------------------------------
(* What settling a half moves. *)

\* What a quantity of an order owes is a natural number.
LEMMA OwedType ==
    ASSUME IInv, NEW o \in Orders, Buying(o), NEW q \in Nat
    PROVE  Owed(o, q) \in Nat
  <1>1. req[o].price \in Nat
    BY RequestType DEF IInv, MarketTypeOK
  <1>2. CollarBps \in Nat /\ TakerFeeBps \in Nat
    BY MoneyAssumption, CollarAssumption, CoreAssumption
  <1>3. Bound(req[o]) \in Nat
    <2>1. FeeBps(req[o].price, CollarBps) \in Nat
      BY <1>1, <1>2, FeeType
    <2> QED BY <1>1, <2>1 DEF Bound, Buying, ApplyBps
  <1>4. NotionalCeil(q, Bound(req[o])) \in Nat
    BY <1>3, NotionalBound
  <1>5. FeeBps(NotionalCeil(q, Bound(req[o])), TakerFeeBps) \in Nat
    BY <1>2, <1>4, FeeType
  <1> QED BY <1>4, <1>5 DEF Owed

\* What an order reserves when it is accepted is a natural number.
LEMMA ReservationType ==
    ASSUME IInv, NEW o \in Orders
    PROVE  Reservation(o) \in Nat
  <1>1. req[o].qty \in Nat
    BY RequestType DEF IInv, MarketTypeOK
  <1> QED BY <1>1, OwedType DEF Reservation

\* The fee billed on a half is between nothing and the half's notional.
LEMMA HalfType ==
    ASSUME IInv, NEW h \in OutcomeRecord, h.type = "HALF", h.fill \in 1 .. Len(fills)
    PROVE  /\ h.order \in Orders
           /\ Event(h) \in Nat \X Roles
           /\ HalfQty(h) \in Nat \ {0}
           /\ HalfNotional(h) \in Nat
           /\ HalfFee(h) \in Nat /\ HalfFee(h) <= HalfNotional(h)
           /\ HalfCost(h) \in Nat
           /\ HalfRelease(h) \in Nat
  <1>1. h.order \in Orders /\ h.fill \in Nat /\ h.role \in Roles
    BY DEF OutcomeRecord
  <1>2. fills[h.fill] \in FillRecord
    BY DEF IInv, MarketTypeOK
  <1>3. HalfQty(h) \in Nat \ {0} /\ fills[h.fill].price \in Nat
    BY <1>2 DEF FillRecord, HalfQty
  <1>4. HalfNotional(h) \in Nat
    BY <1>3, NotionalBound DEF HalfNotional
  <1>5. notional[h.order] \in Nat /\ filled[h.order] \in Nat /\ Outstanding(h.order) \in Int
    BY <1>1 DEF IInv, CoreTypeOK, Outstanding
  <1>6. FeeRate(h.role) \in Nat /\ FeeRate(h.role) <= BpsScale
    BY MoneyAssumption, CoreAssumption DEF FeeRate
  <1>7. HalfFee(h) \in Nat /\ HalfFee(h) <= HalfNotional(h)
    BY <1>4, <1>5, <1>6, FeeDelta DEF HalfFee
  <1>8. HalfCost(h) \in Nat
    BY <1>3, <1>4, <1>7 DEF HalfCost
  <1>9. HalfRelease(h) \in Nat
    <2>1. CASE Buying(h.order)
      <3>1. /\ Owed(h.order, filled[h.order] + HalfQty(h)) \in Nat
            /\ Owed(h.order, filled[h.order]) \in Nat
        BY <1>1, <1>3, <1>5, <2>1, OwedType
      <3> QED BY <1>5, <1>8, <2>1, <3>1 DEF HalfRelease, Greater, Lesser
    <2>2. CASE ~Buying(h.order)
      BY <1>5, <1>8, <2>2 DEF HalfRelease, Greater, Lesser
    <2> QED BY <2>1, <2>2
  <1>10. Event(h) \in Nat \X Roles
    BY <1>1 DEF Event
  <1> QED BY <1>1, <1>3, <1>4, <1>7, <1>8, <1>9, <1>10

\* Reservations before and after a step that touches those of one order only,
\* which may become terminal and give back all that is unspent.
OneSettled(o, cost) ==
    /\ status' \in [Orders -> Statuses] /\ filled' \in [Orders -> Nat]
    /\ notional' \in [Orders -> Nat]
    /\ reserved' = reserved
    /\ consumed' \in [Orders -> Nat] /\ released' \in [Orders -> Nat]
    /\ \A p \in Orders :
         /\ consumed'[p] + released'[p] <= reserved[p]
         /\ status'[p] = "NONE" => reserved[p] = 0
         /\ p # o => Outstanding(p)' = Outstanding(p)
    /\ Outstanding(o)' \in Nat
    /\ Outstanding(o)' + cost <= Outstanding(o)

\* A settlement leaves no more outstanding than there was less its cost.
LEMMA SettleEffect ==
    ASSUME IInv, NEW h \in OutcomeRecord, h.fill \in 1 .. Len(fills), SettleHalf(h)
    PROVE  OneSettled(h.order, HalfCost(h))
  <1> DEFINE o == h.order
             c == HalfCost(h)
             r == HalfRelease(h)
  <1>1. /\ o \in Orders /\ HalfQty(h) \in Nat /\ HalfNotional(h) \in Nat
        /\ c \in Nat /\ r \in Nat
    BY HalfType DEF SettleHalf
  <1>2. c + r <= Outstanding(o)
    <2>1. ~Overdraws(h)
      BY DEF SettleHalf
    <2>2. Outstanding(o) \in Int
      BY <1>1 DEF IInv, CoreTypeOK, Outstanding
    <2> QED BY <1>1, <2>1, <2>2 DEF Overdraws
  <1>3. /\ consumed' = [consumed EXCEPT ![o] = @ + c]
        /\ released' = [released EXCEPT ![o] =
                          IF status'[o] \in Terminal THEN reserved[o] - consumed'[o]
                          ELSE @ + r]
        /\ filled' = [filled EXCEPT ![o] = filled[o] + HalfQty(h)]
        /\ notional' = [notional EXCEPT ![o] = @ + HalfNotional(h)]
        /\ reserved' = reserved
    BY DEF SettleHalf
  <1>4. status' \in [Orders -> Statuses] /\ \A p \in Orders : status'[p] = "NONE" => status[p] = "NONE"
    BY <1>1 DEF SettleHalf, IInv, CoreTypeOK, Statuses, Live, Terminal
  <1> HIDE DEF o, c, r
  <1>5. consumed' \in [Orders -> Nat] /\ consumed'[o] = consumed[o] + c
    BY <1>1, <1>3 DEF IInv, CoreTypeOK
  <1>6. filled' \in [Orders -> Nat] /\ notional' \in [Orders -> Nat]
    BY <1>1, <1>3 DEF IInv, CoreTypeOK
  <1>7. /\ released'[o] \in Nat
        /\ consumed'[o] + released'[o] <= reserved[o]
        /\ reserved[o] - consumed'[o] - released'[o] + c <= Outstanding(o)
    <2>1. /\ reserved[o] \in Nat /\ consumed[o] \in Nat /\ released[o] \in Nat
          /\ Outstanding(o) = reserved[o] - consumed[o] - released[o]
      BY <1>1 DEF Outstanding, IInv, CoreTypeOK
    <2>2. released'[o] = reserved[o] - consumed'[o] \/ released'[o] = released[o] + r
      BY <1>1, <1>3 DEF IInv, CoreTypeOK
    <2>3. c + r <= reserved[o] - consumed[o] - released[o]
      BY <1>2, <2>1
    <2>4. c \in Nat /\ r \in Nat /\ consumed'[o] = consumed[o] + c
      BY <1>1, <1>5
    <2>5. CASE released'[o] = reserved[o] - consumed'[o]
      BY <2>1, <2>3, <2>4, <2>5
    <2>6. CASE released'[o] = released[o] + r
      <3>1. released'[o] \in Nat
        BY <2>1, <2>4, <2>6
      <3>2. consumed'[o] + released'[o] <= reserved[o]
        BY <2>1, <2>3, <2>4, <2>6
      <3>3. reserved[o] - consumed'[o] - released'[o] + c <= reserved[o] - consumed[o] - released[o]
        BY <2>1, <2>4, <2>6
      <3> QED BY <2>1, <3>1, <3>2, <3>3
    <2> QED BY <2>2, <2>5, <2>6
  <1>8. released' \in [Orders -> Nat]
    BY <1>1, <1>3, <1>7 DEF IInv, CoreTypeOK
  <1>9. \A p \in Orders : p # o => consumed'[p] = consumed[p] /\ released'[p] = released[p]
    BY <1>3 DEF IInv, CoreTypeOK
  <1>10. ASSUME NEW p \in Orders
         PROVE  /\ consumed'[p] + released'[p] <= reserved[p]
                /\ status'[p] = "NONE" => reserved[p] = 0
                /\ p # o => Outstanding(p)' = Outstanding(p)
    BY <1>3, <1>4, <1>7, <1>9 DEF IInv, CoreTypeOK, Outstanding
  <1>11. Outstanding(o)' \in Nat /\ Outstanding(o)' + c <= Outstanding(o)
    <2>1. Outstanding(o)' = reserved[o] - consumed'[o] - released'[o]
      BY <1>3 DEF Outstanding
    <2>2. reserved[o] \in Nat /\ consumed'[o] \in Nat
      BY <1>1, <1>5 DEF IInv, CoreTypeOK
    <2> QED BY <1>7, <2>1, <2>2
  <1>12. OneSettled(o, c)
    BY <1>3, <1>4, <1>5, <1>6, <1>8, <1>10, <1>11 DEF OneSettled
  <1> QED BY <1>12 DEF o, c

\* So does an answer, at no cost.
LEMMA AnswerEffect ==
    ASSUME IInv, NEW o \in Orders, NEW s \in Statuses, s = "NONE" => status[o] = "NONE",
           status' = [status EXCEPT ![o] = s],
           UNCHANGED <<filled, notional, reserved, consumed>>,
           ReleaseIfTerminal(o)
    PROVE  OneSettled(o, 0)
  <1>1. \A p \in Orders : /\ reserved[p] \in Nat /\ consumed[p] \in Nat /\ released[p] \in Nat
                          /\ consumed[p] + released[p] <= reserved[p]
    BY DEF IInv, CoreTypeOK
  <1>2. released' = [released EXCEPT ![o] =
                       IF status'[o] \in Terminal THEN reserved[o] - consumed[o] ELSE @]
    BY DEF ReleaseIfTerminal
  <1>3. released' \in [Orders -> Nat]
    BY <1>1, <1>2 DEF IInv, CoreTypeOK
  <1>4. \A p \in Orders : p # o => released'[p] = released[p]
    BY <1>2 DEF IInv, CoreTypeOK
  <1>5. released'[o] >= released[o] /\ consumed[o] + released'[o] <= reserved[o]
    BY <1>1, <1>2 DEF IInv, CoreTypeOK
  <1>6. ASSUME NEW p \in Orders
        PROVE  /\ consumed'[p] + released'[p] <= reserved[p]
               /\ status'[p] = "NONE" => reserved[p] = 0
               /\ p # o => Outstanding(p)' = Outstanding(p)
    BY <1>1, <1>4, <1>5 DEF IInv, CoreTypeOK, Outstanding
  <1>7. Outstanding(o)' \in Nat /\ Outstanding(o)' + 0 <= Outstanding(o)
    BY <1>1, <1>3, <1>5 DEF Outstanding
  <1>8. status' \in [Orders -> Statuses]
    BY DEF IInv, CoreTypeOK
  <1> QED BY <1>3, <1>6, <1>7, <1>8 DEF OneSettled, IInv, CoreTypeOK

LEMMA NothingEffect ==
    ASSUME IInv, NEW o \in Orders, UNCHANGED orderVars
    PROVE  OneSettled(o, 0)
  <1>1. /\ status' = status /\ filled' = filled /\ notional' = notional
        /\ reserved' = reserved /\ consumed' = consumed /\ released' = released
    BY DEF orderVars
  <1>2. \A p \in Orders : /\ reserved[p] \in Nat /\ consumed[p] \in Nat /\ released[p] \in Nat
                          /\ consumed[p] + released[p] <= reserved[p]
    BY DEF IInv, CoreTypeOK
  <1>3. \A p \in Orders : Outstanding(p)' = Outstanding(p) /\ Outstanding(p) \in Nat
    BY <1>1, <1>2 DEF Outstanding
  <1> QED BY <1>1, <1>3 DEF OneSettled, IInv, CoreTypeOK

-----------------------------------------------------------------------------
(* Every step keeps the types. *)

\* The next record a consumer meets.
LEMMA NextRecord ==
    ASSUME IInv, NEW i \in 1 .. Len(outcomes)
    PROVE  /\ outcomes[i] \in OutcomeRecord
           /\ outcomes[i].order \in Orders
           /\ outcomes[i].type = "HALF" => outcomes[i].fill \in 1 .. Len(fills)
  <1>1. outcomes[i] \in OutcomeRecord
    BY DEF IInv, MarketTypeOK
  <1> QED BY <1>1 DEF IInv, MarketTypeOK, OutcomeRecord

\* The four ways to settle a record.
LEMMA SettleKinds ==
    ASSUME IInv, NEW i \in 1 .. Len(outcomes), NEW h, h = outcomes[i],
           SettleHalf(h) \/ SkipDuplicate(h) \/ ApplyDisposition(h) \/ ApplyVerdict(h)
    PROVE  \/ /\ SettleHalf(h)
              /\ OneSettled(h.order, HalfCost(h))
           \/ /\ OneSettled(h.order, 0)
              /\ UNCHANGED ledgerVars
  <1>1. /\ h \in OutcomeRecord /\ h.order \in Orders
        /\ h.type = "HALF" => h.fill \in 1 .. Len(fills)
    BY NextRecord
  <1>2. CASE SettleHalf(h)
    BY <1>1, <1>2, SettleEffect DEF SettleHalf
  <1>3. CASE SkipDuplicate(h)
    <2>1. UNCHANGED orderVars /\ UNCHANGED ledgerVars
      BY <1>3 DEF SkipDuplicate, orderVars, ledgerVars
    <2> QED BY <1>1, <2>1, NothingEffect
  <1>4. CASE ApplyDisposition(h)
    <2> DEFINE s == Dispositioned(h.order, h.what)
    <2>1. s \in Statuses /\ (s = "NONE" => status[h.order] = "NONE")
      BY <1>1 DEF Dispositioned, Statuses, Live, Terminal, IInv, CoreTypeOK
    <2> HIDE DEF s
    <2>2. /\ status' = [status EXCEPT ![h.order] = s]
          /\ UNCHANGED <<filled, notional, reserved, consumed>>
          /\ UNCHANGED ledgerVars
          /\ ReleaseIfTerminal(h.order)
      BY <1>4 DEF ApplyDisposition, s
    <2> QED BY <1>1, <2>1, <2>2, AnswerEffect
  <1>5. CASE ApplyVerdict(h)
    <2> DEFINE s == CancelSettled(h.order, h.removed)
    <2>1. s \in Statuses /\ (s = "NONE" => status[h.order] = "NONE")
      BY <1>1 DEF CancelSettled, Statuses, Live, Terminal, IInv, CoreTypeOK
    <2> HIDE DEF s
    <2>2. /\ status' = [status EXCEPT ![h.order] = s]
          /\ UNCHANGED <<filled, notional, reserved, consumed>>
          /\ UNCHANGED ledgerVars
          /\ ReleaseIfTerminal(h.order)
      BY <1>5 DEF ApplyVerdict, s
    <2> QED BY <1>1, <2>1, <2>2, AnswerEffect
  <1> QED BY <1>2, <1>3, <1>4, <1>5

\* A consumer's step.
LEMMA ConsumeType ==
    ASSUME IInv, NEW p \in Partitions, Consume(p)
    PROVE  IInv'
  <1>1. PICK i \in 1 .. Len(outcomes) :
          /\ \/ SettleHalf(outcomes[i])
             \/ SkipDuplicate(outcomes[i])
             \/ ApplyDisposition(outcomes[i])
             \/ ApplyVerdict(outcomes[i])
          /\ next' = [next EXCEPT ![p] = i + 1]
          /\ reader' = [reader EXCEPT ![p] = i + 1]
          /\ UNCHANGED <<marketVars, fundingVars>>
    BY DEF Consume
  <1> DEFINE h == outcomes[i]
  <1>2. MarketTypeOK'
    BY <1>1 DEF IInv, MarketTypeOK, marketVars
  <1>3. /\ next' \in [Partitions -> Nat \ {0}] /\ reader' \in [Partitions -> Nat \ {0}]
        /\ deposited' \in Int /\ seeded' \in Nat /\ funded' \in Nat
    BY <1>1 DEF IInv, CoreTypeOK, fundingVars
  <1>4. /\ h \in OutcomeRecord /\ h.order \in Orders
        /\ h.type = "HALF" => h.fill \in 1 .. Len(fills)
    BY NextRecord
  <1>5. \/ SettleHalf(h) /\ OneSettled(h.order, HalfCost(h))
        \/ OneSettled(h.order, 0) /\ UNCHANGED ledgerVars
    <2> HIDE DEF h
    <2>1. h = outcomes[i]
      BY DEF h
    <2> QED BY <1>1, <2>1, SettleKinds
  <1> HIDE DEF h
  <1>6. /\ cash' \in [Accounts -> Int] /\ shares' \in [Accounts -> Int] /\ fees' \in Nat
        /\ applied' \subseteq (Nat \X Roles)
    <2>1. CASE SettleHalf(h)
      <3>1. /\ HalfQty(h) \in Nat /\ HalfNotional(h) \in Nat /\ HalfFee(h) \in Nat
            /\ Event(h) \in Nat \X Roles
        BY <1>4, <2>1, HalfType DEF SettleHalf
      <3>2. applied' \subseteq (Nat \X Roles) /\ fees' \in Nat
        BY <2>1, <3>1 DEF SettleHalf, IInv, CoreTypeOK
      <3>3. PICK c, s : /\ cash' = [cash EXCEPT ![AccountOf(h.order)] = c]
                        /\ shares' = [shares EXCEPT ![AccountOf(h.order)] = s]
                        /\ c = cash[AccountOf(h.order)]
                                 + (IF Buying(h.order) THEN -HalfNotional(h) ELSE HalfNotional(h))
                                 - HalfFee(h)
                        /\ s = shares[AccountOf(h.order)]
                                 + (IF Buying(h.order) THEN HalfQty(h) ELSE -HalfQty(h))
        BY <2>1 DEF SettleHalf
      <3>a. AccountOf(h.order) \in Accounts
        BY <1>4, RequestType DEF AccountOf, IInv, MarketTypeOK
      <3>b. cash[AccountOf(h.order)] \in Int /\ shares[AccountOf(h.order)] \in Int
        BY <3>a DEF IInv, CoreTypeOK
      <3>c. c \in Int /\ s \in Int
        BY <3>1, <3>3, <3>b
      <3>4. cash' \in [Accounts -> Int] /\ shares' \in [Accounts -> Int]
        BY <3>3, <3>c DEF IInv, CoreTypeOK
      <3> QED BY <3>2, <3>4
    <2>2. CASE UNCHANGED ledgerVars
      BY <2>2 DEF ledgerVars, IInv, CoreTypeOK
    <2> QED BY <1>5, <2>1, <2>2
  <1>7. CoreTypeOK'
    <2>1. \E c : OneSettled(h.order, c)
      BY <1>5
    <2>2. /\ status' \in [Orders -> Statuses]
          /\ filled' \in [Orders -> Nat] /\ notional' \in [Orders -> Nat]
          /\ reserved' \in [Orders -> Nat] /\ consumed' \in [Orders -> Nat]
          /\ released' \in [Orders -> Nat]
          /\ \A o \in Orders : /\ consumed'[o] + released'[o] <= reserved'[o]
                               /\ status'[o] = "NONE" => reserved'[o] = 0
      BY <2>1 DEF OneSettled, IInv, CoreTypeOK
    <2> QED BY <1>3, <1>6, <2>2 DEF CoreTypeOK
  <1> QED BY <1>2, <1>7 DEF IInv

\* Accepting or refusing an order, and asking to cancel one.
LEMMA SubmitType ==
    ASSUME IInv, NEW o \in Orders, Submit(o)
    PROVE  IInv'
  <1>1. status' \in [Orders -> Statuses] /\ status'[o] # "NONE"
        /\ \A p \in Orders : p # o => status'[p] = status[p]
    BY DEF Submit, IInv, CoreTypeOK, Statuses, Live, Terminal
  <1>2. /\ reserved' \in [Orders -> Nat]
        /\ \A p \in Orders : reserved'[p] >= reserved[p] /\ (p # o => reserved'[p] = reserved[p])
    <2>1. Reservation(o) \in Nat /\ reserved[o] = 0
      BY ReservationType DEF Submit, IInv, CoreTypeOK
    <2> QED BY <2>1 DEF Submit, IInv, CoreTypeOK
  <1>3. inbound' \in Seq([type : {"ORDER", "CANCEL"}, order : Orders]) /\ Len(inbound') >= Len(inbound)
    <2>1. \/ inbound' = inbound
          \/ inbound' = Append(inbound, [type |-> "ORDER", order |-> o])
      BY DEF Submit
    <2>2. CASE inbound' = inbound
      BY <2>2 DEF IInv, MarketTypeOK
    <2>3. CASE inbound' = Append(inbound, [type |-> "ORDER", order |-> o])
      BY <2>3 DEF IInv, MarketTypeOK
    <2> QED BY <2>1, <2>2, <2>3
  <1>4. MarketTypeOK'
    BY <1>3 DEF Submit, IInv, MarketTypeOK
  <1>5. \A p \in Orders : /\ consumed[p] + released[p] <= reserved'[p]
                         /\ status'[p] = "NONE" => reserved'[p] = 0
    BY <1>1, <1>2 DEF IInv, CoreTypeOK
  <1>6. CoreTypeOK'
    BY <1>1, <1>2, <1>5 DEF Submit, ledgerVars, fundingVars, IInv, CoreTypeOK
  <1> QED BY <1>4, <1>6 DEF IInv

LEMMA RequestCancelType ==
    ASSUME IInv, NEW o \in Orders, RequestCancel(o)
    PROVE  IInv'
  <1>1. status' \in [Orders -> Statuses] /\ \A p \in Orders : status'[p] = "NONE" => status[p] = "NONE"
    BY DEF RequestCancel, IInv, CoreTypeOK, Statuses, Live, Terminal
  <1>2. inbound' \in Seq([type : {"ORDER", "CANCEL"}, order : Orders]) /\ Len(inbound') >= Len(inbound)
    BY DEF RequestCancel, IInv, MarketTypeOK
  <1>3. MarketTypeOK'
    BY <1>2 DEF RequestCancel, IInv, MarketTypeOK
  <1>4. CoreTypeOK'
    BY <1>1 DEF RequestCancel, ledgerVars, fundingVars, IInv, CoreTypeOK
  <1> QED BY <1>3, <1>4 DEF IInv

\* Funding from outside.
LEMMA FundingType ==
    ASSUME IInv, NEW a \in Accounts, NEW x \in Funding, NEW price \in Funding,
           Deposit(a, x) \/ SeedShares(a, x, price)
    PROVE  IInv'
  <1>1. x \in Nat /\ price \in Nat
    BY CoreAssumption
  <1>2. Notional(x, price) \in Nat
    BY <1>1, NotionalBound
  <1>3. MarketTypeOK'
    BY DEF Deposit, SeedShares, IInv, MarketTypeOK, marketVars
  <1>4. CoreTypeOK'
    BY <1>1, <1>2 DEF Deposit, SeedShares, orderVars, IInv, CoreTypeOK
  <1> QED BY <1>3, <1>4 DEF IInv

\* Steps that move readers only.
LEMMA ReaderType ==
    ASSUME IInv,
           RestartConsumers \/ PromoteStandby \/ \E p \in Partitions : ConsumeFails(p)
    PROVE  IInv'
  <1>1. /\ UNCHANGED <<req, inbound, taken, open, fills, outcomes>>
        /\ UNCHANGED <<orderVars, ledgerVars, fundingVars, next>>
        /\ repeats' \in Nat
    BY DEF RestartConsumers, PromoteStandby, ConsumeFails, marketVars, IInv, MarketTypeOK
  <1>2. reader' \in [Partitions -> Nat \ {0}]
    <2>1. Len(outcomes) \in Nat
      BY DEF IInv, MarketTypeOK
    <2>2. CASE RestartConsumers
      BY <2>2 DEF RestartConsumers, IInv, CoreTypeOK
    <2>3. CASE PromoteStandby
      BY <2>1, <2>3 DEF PromoteStandby
    <2>4. CASE \E p \in Partitions : ConsumeFails(p)
      BY <2>1, <2>4 DEF ConsumeFails, IInv, CoreTypeOK
    <2> QED BY <2>2, <2>3, <2>4
  <1>3. MarketTypeOK'
    BY <1>1 DEF IInv, MarketTypeOK
  <1>4. CoreTypeOK'
    BY <1>1, <1>2 DEF orderVars, ledgerVars, fundingVars, IInv, CoreTypeOK
  <1> QED BY <1>3, <1>4 DEF IInv

LEMMA Step ==
    ASSUME IInv, [Next]_vars
    PROVE  IInv'
  <1>1. CASE MarketStep
    <2>1. MarketTypeOK'
      BY <1>1, MarketStepType DEF MarketStep, IInv
    <2>2. CoreTypeOK'
      BY <1>1 DEF MarketStep, coreVars, orderVars, ledgerVars, fundingVars, IInv, CoreTypeOK
    <2> QED BY <2>1, <2>2 DEF IInv
  <1>2. CASE \E o \in Orders : Submit(o) \/ RequestCancel(o)
    BY <1>2, SubmitType, RequestCancelType
  <1>3. CASE \E a \in Accounts, x \in Funding :
               Deposit(a, x) \/ \E price \in Funding : SeedShares(a, x, price)
    BY <1>3, FundingType
  <1>4. CASE \E p \in Partitions : Consume(p)
    BY <1>4, ConsumeType
  <1>5. CASE RestartConsumers \/ PromoteStandby \/ \E p \in Partitions : ConsumeFails(p)
    BY <1>5, ReaderType
  <1>6. CASE UNCHANGED vars
    <2>1. MarketTypeOK'
      BY <1>6 DEF vars, marketVars, IInv, MarketTypeOK
    <2>2. CoreTypeOK'
      BY <1>6 DEF vars, coreVars, orderVars, ledgerVars, fundingVars, IInv, CoreTypeOK
    <2> QED BY <2>1, <2>2 DEF IInv
  <1> QED BY <1>1, <1>2, <1>3, <1>4, <1>5, <1>6 DEF Next

LEMMA Start ==
    ASSUME Init
    PROVE  IInv
  <1>1. MarketTypeOK
    <2>1. \A o \in Orders : req[o].qty \in Nat
      BY RequestType DEF Init, MarketInit
    <2> QED BY <2>1 DEF Init, MarketInit, MarketTypeOK
  <1>2. CoreTypeOK
    BY CoreAssumption DEF Init, CoreTypeOK, Statuses
  <1> QED BY <1>1, <1>2 DEF IInv

\* The inductive invariant holds.
THEOREM Inductive == Spec => []IInv
  <1>1. Init => IInv
    BY Start
  <1>2. IInv /\ [Next]_vars => IInv'
    BY Step
  <1> QED BY <1>1, <1>2, PTL DEF Spec

\* Every variable keeps its type in every reachable state.
THEOREM TypeCorrect == Spec => []TypeOK
  <1>1. IInv => TypeOK
    BY DEF IInv, MarketTypeOK, CoreTypeOK, TypeOK
  <1> QED BY <1>1, Inductive, PTL

-----------------------------------------------------------------------------
(* Every step is a step of the escrow of money, and of that of shares. *)

\* What an order holds is what is outstanding on its side.
LEMMA HeldType ==
    ASSUME IInv
    PROVE  /\ Cash!TypeOK /\ Share!TypeOK
           /\ \A o \in Orders : AccountOf(o) \in Accounts /\ Outstanding(o) \in Nat
  <1>1. \A o \in Orders : AccountOf(o) \in Accounts
    BY RequestType DEF AccountOf, IInv, MarketTypeOK
  <1>2. \A o \in Orders : Outstanding(o) \in Nat
    BY DEF Outstanding, IInv, CoreTypeOK
  <1> QED BY <1>1, <1>2 DEF Cash!TypeOK, Share!TypeOK, HeldCash, HeldShares,
                            IInv, CoreTypeOK

\* A step that leaves requests and reservations alone leaves the holders alone.
LEMMA HeldSame ==
    ASSUME UNCHANGED <<req, reserved, consumed, released>>
    PROVE  /\ HeldCash' = HeldCash /\ HeldShares' = HeldShares
           /\ [o \in Orders |-> AccountOf(o)]' = [o \in Orders |-> AccountOf(o)]
  BY DEF HeldCash, HeldShares, Outstanding, Buying, AccountOf

LEMMA SettleIsEscrow ==
    ASSUME IInv, NEW h \in OutcomeRecord, h.type = "HALF", h.fill \in 1 .. Len(fills),
           SettleHalf(h), OneSettled(h.order, HalfCost(h)), UNCHANGED req
    PROVE  Cash!Next /\ Share!Next
  <1>o. PICK o \in Orders : o = h.order
    BY DEF OutcomeRecord
  <1>a. PICK a \in Accounts : a = AccountOf(o)
    BY HeldType
  <1> DEFINE n == HalfNotional(h)
             f == HalfFee(h)
             q == HalfQty(h)
  <1>1. q \in Nat /\ n \in Nat /\ f \in Nat /\ f <= n
    BY HalfType
  <1>2. /\ Cash!TypeOK /\ Share!TypeOK
        /\ HeldCash \in [Orders -> Nat] /\ HeldShares \in [Orders -> Nat]
    BY HeldType DEF Cash!TypeOK, Share!TypeOK
  <1>3. HeldCash' \in [Orders -> Nat] /\ HeldShares' \in [Orders -> Nat]
    <2>1. \A p \in Orders : Outstanding(p)' \in Nat
      BY <1>o, HeldType DEF OneSettled
    <2> QED BY <2>1 DEF HeldCash, HeldShares
  <1>4. UNCHANGED [p \in Orders |-> AccountOf(p)]
    BY DEF AccountOf
  <1>5. \A p \in Orders : p # o => HeldCash'[p] = HeldCash[p] /\ HeldShares'[p] = HeldShares[p]
    BY <1>o DEF OneSettled, HeldCash, HeldShares, Buying
  <1>6. /\ cash' = [cash EXCEPT ![a] = @ + (IF Buying(o) THEN -n ELSE n) - f]
        /\ shares' = [shares EXCEPT ![a] = @ + (IF Buying(o) THEN q ELSE -q)]
    BY <1>o, <1>a DEF SettleHalf
  <1>7. cash[a] \in Int /\ shares[a] \in Int
    BY <1>1 DEF IInv, CoreTypeOK
  <1>8. [p \in Orders |-> AccountOf(p)][o] = a
    BY <1>a
  <1>9. CASE Buying(o)
    <2>1. HeldCash'[o] + (n + f) <= HeldCash[o]
      BY <1>o, <1>1, <1>9 DEF OneSettled, HeldCash, HalfCost, Buying
    <2>2. HeldShares' = HeldShares
      <3>1. HeldShares'[o] = HeldShares[o]
        BY <1>1, <1>9 DEF HeldShares, Buying
      <3> QED BY <1>2, <1>3, <1>5, <3>1
    <2>3. cash' = [cash EXCEPT ![a] = @ - (n + f)] /\ n + f \in Nat
      <3>1. cash[a] + (-n) - f = cash[a] - (n + f) /\ n + f \in Nat
        BY <1>1, <1>7
      <3>2. cash' = [cash EXCEPT ![a] = cash[a] + (-n) - f]
        BY <1>6, <1>9
      <3> QED BY <3>1, <3>2
    <2>4. shares' = [shares EXCEPT ![a] = @ + q]
      BY <1>6, <1>9
    <2> HIDE DEF n, f, q
    <2>5. Cash!Spend(o)
      BY <1>1, <1>2, <1>3, <1>4, <1>5, <1>8, <2>1, <2>3, Cash!IsSpend
    <2>6. Share!Credit(a)
      BY <1>1, <1>2, <1>4, <2>2, <2>4, Share!IsCredit
    <2>7. Cash!Next
      BY <1>1, <2>5, <2>6 DEF Cash!Next
    <2>8. Share!Next
      BY <1>1, <2>5, <2>6 DEF Share!Next
    <2> QED BY <2>7, <2>8
  <1>10. CASE ~Buying(o)
    <2>1. HeldShares'[o] + q <= HeldShares[o]
      BY <1>o, <1>1, <1>10 DEF OneSettled, HeldShares, HalfCost, Buying
    <2>2. HeldCash' = HeldCash
      <3>1. HeldCash'[o] = HeldCash[o]
        BY <1>1, <1>10 DEF HeldCash, Buying
      <3> QED BY <1>2, <1>3, <1>5, <3>1
    <2>3. cash' = [cash EXCEPT ![a] = @ + (n - f)] /\ n - f \in Nat
      BY <1>1, <1>6, <1>7, <1>10
    <2>4. shares' = [shares EXCEPT ![a] = @ - q]
      BY <1>1, <1>6, <1>7, <1>10
    <2> HIDE DEF n, f, q
    <2>5. Share!Spend(o)
      BY <1>1, <1>2, <1>3, <1>4, <1>5, <1>8, <2>1, <2>4, Share!IsSpend
    <2>6. Cash!Credit(a)
      BY <1>1, <1>2, <1>4, <2>2, <2>3, Cash!IsCredit
    <2>7. Cash!Next
      BY <1>1, <2>5, <2>6 DEF Cash!Next
    <2>8. Share!Next
      BY <1>1, <2>5, <2>6 DEF Share!Next
    <2> QED BY <2>7, <2>8
  <1> QED BY <1>9, <1>10

\* A number: what an account has and has not promised.
LEMMA FreeIsNumber ==
    ASSUME IInv, NEW a \in Accounts
    PROVE  Cash!Free(a) \in Int /\ Share!Free(a) \in Int
  <1>1. Cash!IsFiniteSet(Orders) /\ Share!IsFiniteSet(Orders)
    BY MarketAssumption DEF IsFiniteSet, Cash!IsFiniteSet, Share!IsFiniteSet
  <1>2. Cash!TypeOK /\ Share!TypeOK
    BY HeldType
  <1> QED BY <1>1, <1>2, Cash!FreeType, Share!FreeType

\* Reserving holds what is free, of money or of shares.
LEMMA SubmitIsEscrow ==
    ASSUME IInv, NEW o \in Orders, Submit(o)
    PROVE  /\ Cash!Next \/ UNCHANGED Cash!escrowVars
           /\ Share!Next \/ UNCHANGED Share!escrowVars
  <1>a. PICK a \in Accounts : a = AccountOf(o)
    BY HeldType
  <1>1. /\ Cash!TypeOK /\ Share!TypeOK
        /\ HeldCash \in [Orders -> Nat] /\ HeldShares \in [Orders -> Nat]
        /\ Cash!Free(a) \in Int /\ Share!Free(a) \in Int
    BY HeldType, FreeIsNumber DEF Cash!TypeOK, Share!TypeOK
  <1>2. /\ req' = req /\ consumed' = consumed /\ released' = released
        /\ cash' = cash /\ shares' = shares
    BY DEF Submit, ledgerVars
  <1>3. UNCHANGED [p \in Orders |-> AccountOf(p)]
    BY <1>2 DEF AccountOf
  <1>4. CASE ~Affordable(o)
    <2>1. reserved' = reserved
      BY <1>4 DEF Submit
    <2>2. HeldCash' = HeldCash /\ HeldShares' = HeldShares
      BY <1>2, <2>1, HeldSame
    <2> QED BY <1>2, <1>3, <2>2 DEF Cash!escrowVars, Share!escrowVars
  <1>5. CASE Affordable(o)
    <2> DEFINE x == Reservation(o)
    <2>1. x \in Nat
      BY ReservationType
    <2> HIDE DEF x
    <2>2. reserved' = [reserved EXCEPT ![o] = x]
      BY <1>5 DEF Submit, x
    <2>3. reserved[o] = 0 /\ consumed[o] = 0 /\ released[o] = 0
      BY DEF Submit, IInv, CoreTypeOK
    <2>4. Outstanding(o)' = x /\ Outstanding(o) = 0
      BY <1>2, <2>1, <2>2, <2>3 DEF Outstanding, IInv, CoreTypeOK
    <2>5. \A p \in Orders : p # o => Outstanding(p)' = Outstanding(p)
      BY <1>2, <2>2 DEF Outstanding, IInv, CoreTypeOK
    <2>6. \A p \in Orders : p # o => HeldCash'[p] = HeldCash[p] /\ HeldShares'[p] = HeldShares[p]
      BY <1>2, <2>5 DEF HeldCash, HeldShares, Buying
    <2>7. HeldCash' \in [Orders -> Nat] /\ HeldShares' \in [Orders -> Nat]
      <3>1. \A p \in Orders : Outstanding(p)' \in Nat
        BY <2>1, <2>4, <2>5, HeldType
      <3> QED BY <3>1 DEF HeldCash, HeldShares
    <2>8. [p \in Orders |-> AccountOf(p)][o] = a
      BY <1>a
    <2>9. CASE Buying(o)
      <3>1. HeldCash'[o] = HeldCash[o] + x
        BY <1>2, <2>1, <2>4, <2>9 DEF HeldCash, Buying
      <3>2. HeldShares' = HeldShares
        <4>1. HeldShares'[o] = HeldShares[o]
          BY <1>2, <2>9 DEF HeldShares, Buying
        <4> QED BY <1>1, <2>6, <2>7, <4>1
      <3>3. x <= Cash!Free(a)
        BY <1>a, <1>1, <1>5, <2>1, <2>9 DEF Affordable, BuyingPower, x
      <3>4. Cash!Hold(o)
        BY <1>1, <1>2, <1>3, <2>1, <2>6, <2>7, <2>8, <3>1, <3>3, Cash!IsHold
      <3>5. UNCHANGED Share!escrowVars
        BY <1>2, <1>3, <3>2 DEF Share!escrowVars
      <3> QED BY <3>4, <3>5 DEF Cash!Next
    <2>10. CASE ~Buying(o)
      <3>1. HeldShares'[o] = HeldShares[o] + x
        BY <1>2, <2>1, <2>4, <2>10 DEF HeldShares, Buying
      <3>2. HeldCash' = HeldCash
        <4>1. HeldCash'[o] = HeldCash[o]
          BY <1>2, <2>10 DEF HeldCash, Buying
        <4> QED BY <1>1, <2>6, <2>7, <4>1
      <3>3. x <= Share!Free(a)
        BY <1>a, <1>1, <1>5, <2>1, <2>10 DEF Affordable, AvailableShares, x
      <3>4. Share!Hold(o)
        BY <1>1, <1>2, <1>3, <2>1, <2>6, <2>7, <2>8, <3>1, <3>3, Share!IsHold
      <3>5. UNCHANGED Cash!escrowVars
        BY <1>2, <1>3, <3>2 DEF Cash!escrowVars
      <3> QED BY <3>4, <3>5 DEF Share!Next
    <2> QED BY <2>9, <2>10
  <1> QED BY <1>4, <1>5

\* An answer gives back what its order no longer holds.
LEMMA AnswerIsEscrow ==
    ASSUME IInv, NEW o \in Orders, OneSettled(o, 0), UNCHANGED req, UNCHANGED ledgerVars
    PROVE  /\ Cash!Next \/ UNCHANGED Cash!escrowVars
           /\ Share!Next \/ UNCHANGED Share!escrowVars
  <1>a. PICK a \in Accounts : a = AccountOf(o)
    BY HeldType
  <1>1. /\ Cash!TypeOK /\ Share!TypeOK
        /\ HeldCash \in [Orders -> Nat] /\ HeldShares \in [Orders -> Nat]
    BY HeldType DEF Cash!TypeOK, Share!TypeOK
  <1>2. cash' = cash /\ shares' = shares
    BY DEF ledgerVars
  <1>3. UNCHANGED [p \in Orders |-> AccountOf(p)]
    BY DEF AccountOf
  <1>4. HeldCash' \in [Orders -> Nat] /\ HeldShares' \in [Orders -> Nat]
    <2>1. \A p \in Orders : Outstanding(p)' \in Nat
      BY HeldType DEF OneSettled
    <2> QED BY <2>1 DEF HeldCash, HeldShares
  <1>5. \A p \in Orders : p # o => HeldCash'[p] = HeldCash[p] /\ HeldShares'[p] = HeldShares[p]
    BY DEF OneSettled, HeldCash, HeldShares, Buying
  <1>6. /\ cash' = [cash EXCEPT ![a] = @ - 0] /\ shares' = [shares EXCEPT ![a] = @ - 0]
    BY <1>1, <1>2 DEF IInv, CoreTypeOK
  <1>7. [p \in Orders |-> AccountOf(p)][o] = a
    BY <1>a
  <1>8. HeldCash'[o] + 0 <= HeldCash[o] /\ HeldShares'[o] + 0 <= HeldShares[o]
    <2>1. Outstanding(o)' \in Nat /\ Outstanding(o) \in Nat /\ Outstanding(o)' <= Outstanding(o)
      BY HeldType DEF OneSettled
    <2> QED BY <2>1 DEF HeldCash, HeldShares, Buying
  <1>9. Cash!Spend(o)
    BY <1>1, <1>3, <1>4, <1>5, <1>6, <1>7, <1>8, Cash!IsSpend
  <1>10. Share!Spend(o)
    BY <1>1, <1>3, <1>4, <1>5, <1>6, <1>7, <1>8, Share!IsSpend
  <1> QED BY <1>9, <1>10 DEF Cash!Next, Share!Next

\* Money from outside is credited; shares from outside are bought.
LEMMA FundingIsEscrow ==
    ASSUME IInv, NEW a \in Accounts, NEW x \in Funding, NEW price \in Funding,
           Deposit(a, x) \/ SeedShares(a, x, price)
    PROVE  /\ Cash!Next \/ UNCHANGED Cash!escrowVars
           /\ Share!Next \/ UNCHANGED Share!escrowVars
  <1>1. Cash!TypeOK /\ Share!TypeOK /\ Cash!Free(a) \in Int
    BY HeldType, FreeIsNumber
  <1>2. x \in Nat /\ price \in Nat
    BY CoreAssumption
  <1> DEFINE n == Notional(x, price)
  <1>3. n \in Nat
    BY <1>2, NotionalBound
  <1> HIDE DEF n
  <1>4. UNCHANGED <<req, reserved, consumed, released>>
    BY DEF Deposit, SeedShares, marketVars, orderVars
  <1>5. /\ HeldCash' = HeldCash /\ HeldShares' = HeldShares
        /\ UNCHANGED [o \in Orders |-> AccountOf(o)]
    BY <1>4, HeldSame
  <1>6. CASE Deposit(a, x)
    <2>1. cash' = [cash EXCEPT ![a] = @ + x] /\ shares' = shares
      BY <1>6 DEF Deposit
    <2>2. Cash!Credit(a)
      BY <1>1, <1>2, <1>5, <2>1, Cash!IsCredit
    <2> QED BY <1>5, <2>1, <2>2 DEF Cash!Next, Share!escrowVars
  <1>7. CASE SeedShares(a, x, price)
    <2>1. /\ cash' = [cash EXCEPT ![a] = @ - n]
          /\ shares' = [shares EXCEPT ![a] = @ + x]
          /\ Cash!Free(a) >= n
      BY <1>7 DEF SeedShares, BuyingPower, n
    <2>2. Cash!Debit(a)
      BY <1>1, <1>3, <1>5, <2>1, Cash!IsDebit
    <2>3. Share!Credit(a)
      BY <1>1, <1>2, <1>5, <2>1, Share!IsCredit
    <2> QED BY <2>2, <2>3 DEF Cash!Next, Share!Next
  <1> QED BY <1>6, <1>7

\* Everything else leaves balances and reservations alone.
LEMMA QuietIsEscrow ==
    ASSUME UNCHANGED <<req, reserved, consumed, released, cash, shares>>
    PROVE  UNCHANGED Cash!escrowVars /\ UNCHANGED Share!escrowVars
  BY HeldSame DEF Cash!escrowVars, Share!escrowVars

LEMMA StepIsEscrow ==
    ASSUME IInv, [Next]_vars
    PROVE  [Cash!Next]_Cash!escrowVars /\ [Share!Next]_Share!escrowVars
  <1>1. CASE MarketStep
    <2>1. req' = req
      BY <1>1 DEF MarketStep, MarketNext, MatchOrder, CancelResting, CancelAgain, Regenerate
    <2> QED BY <1>1, <2>1, QuietIsEscrow DEF MarketStep, coreVars, orderVars, ledgerVars
  <1>2. CASE \E o \in Orders : Submit(o)
    BY <1>2, SubmitIsEscrow
  <1>3. CASE \E o \in Orders : RequestCancel(o)
    <2>1. UNCHANGED <<req, reserved, consumed, released, cash, shares>>
      BY <1>3 DEF RequestCancel, ledgerVars
    <2> QED BY <2>1, QuietIsEscrow
  <1>4. CASE \E a \in Accounts, x \in Funding :
               Deposit(a, x) \/ \E price \in Funding : SeedShares(a, x, price)
    BY <1>4, FundingIsEscrow
  <1>5. CASE \E p \in Partitions : Consume(p)
    <2>1. PICK i \in 1 .. Len(outcomes) :
            /\ \/ SettleHalf(outcomes[i])
               \/ SkipDuplicate(outcomes[i])
               \/ ApplyDisposition(outcomes[i])
               \/ ApplyVerdict(outcomes[i])
            /\ UNCHANGED <<marketVars, fundingVars>>
      BY <1>5 DEF Consume
    <2>2. PICK h \in OutcomeRecord : h = outcomes[i]
      BY NextRecord
    <2>3. h.order \in Orders /\ (h.type = "HALF" => h.fill \in 1 .. Len(fills))
      BY <2>2, NextRecord
    <2>4. UNCHANGED req
      BY <2>1 DEF marketVars
    <2>5. \/ SettleHalf(h) /\ OneSettled(h.order, HalfCost(h))
          \/ OneSettled(h.order, 0) /\ UNCHANGED ledgerVars
      BY <2>1, <2>2, SettleKinds
    <2>6. CASE SettleHalf(h) /\ OneSettled(h.order, HalfCost(h))
      <3>1. h.type = "HALF"
        BY <2>6 DEF SettleHalf
      <3> QED BY <2>3, <2>4, <2>6, <3>1, SettleIsEscrow
    <2>7. CASE OneSettled(h.order, 0) /\ UNCHANGED ledgerVars
      BY <2>3, <2>4, <2>7, AnswerIsEscrow
    <2> QED BY <2>5, <2>6, <2>7
  <1>6. CASE RestartConsumers \/ PromoteStandby \/ \E p \in Partitions : ConsumeFails(p)
    <2>1. UNCHANGED req /\ UNCHANGED <<orderVars, ledgerVars>>
      BY <1>6 DEF RestartConsumers, PromoteStandby, ConsumeFails, marketVars
    <2> QED BY <2>1, QuietIsEscrow DEF orderVars, ledgerVars
  <1>7. CASE UNCHANGED vars
    BY <1>7, QuietIsEscrow DEF vars, marketVars, coreVars, orderVars, ledgerVars
  <1> QED BY <1>1, <1>2, <1>3, <1>4, <1>5, <1>6, <1>7 DEF Next

LEMMA StartIsEscrow ==
    ASSUME Init
    PROVE  Cash!Init /\ Share!Init
  <1>1. IInv
    BY Start
  <1>2. /\ HeldCash = [o \in Orders |-> 0] /\ HeldShares = [o \in Orders |-> 0]
    BY DEF Init, HeldCash, HeldShares, Outstanding
  <1>3. [o \in Orders |-> AccountOf(o)] \in [Orders -> Accounts]
    BY <1>1, HeldType
  <1>4. cash \in [Accounts -> Nat] /\ shares \in [Accounts -> Nat]
    BY CoreAssumption DEF Init
  <1> QED BY <1>2, <1>3, <1>4 DEF Cash!Init, Share!Init

\* Settlement, acceptance and funding implement the abstract account, once
\* for money and once for shares.
THEOREM ImplementsEscrow == Spec => Escrows
  <1>1. Init => Cash!Init /\ Share!Init
    BY StartIsEscrow
  <1>2. IInv /\ [Next]_vars => [Cash!Next]_Cash!escrowVars /\ [Share!Next]_Share!escrowVars
    BY StepIsEscrow
  <1> QED BY <1>1, <1>2, Inductive, PTL DEF Spec, Escrows, Cash!Spec, Share!Spec

\* No account's cash or shares are ever promised twice.
THEOREM NothingPromisedTwice == Spec => []Solvent
  <1>1. Cash!IsFiniteSet(Orders) /\ Share!IsFiniteSet(Orders)
    BY MarketAssumption DEF IsFiniteSet, Cash!IsFiniteSet, Share!IsFiniteSet
  <1>2. Cash!Spec => []Cash!Covered
    BY <1>1, Cash!EscrowCovered
  <1>3. Share!Spec => []Share!Covered
    BY <1>1, Share!EscrowCovered
  <1> QED BY <1>2, <1>3, ImplementsEscrow, PTL DEF Escrows, Solvent

-----------------------------------------------------------------------------
(* A pending cancel releases nothing. *)

\* A settled half raises what is filled of its order.
LEMMA SettleRaises ==
    ASSUME IInv, NEW h \in OutcomeRecord, h.type = "HALF", h.fill \in 1 .. Len(fills),
           SettleHalf(h)
    PROVE  /\ filled'[h.order] > filled[h.order]
           /\ \A o \in Orders : o # h.order => released'[o] = released[o]
  <1>1. h.order \in Orders /\ HalfQty(h) \in Nat \ {0}
    BY HalfType
  <1>2. filled' = [filled EXCEPT ![h.order] = filled[h.order] + HalfQty(h)]
    BY DEF SettleHalf
  <1>3. \E x : released' = [released EXCEPT ![h.order] = x]
    BY DEF SettleHalf
  <1> QED BY <1>1, <1>2, <1>3 DEF IInv, CoreTypeOK

\* What is released of an order that is not terminal after an answer is what
\* was released before it.
LEMMA AnswerReleases ==
    ASSUME IInv, NEW o \in Orders, NEW p \in Orders, ReleaseIfTerminal(p),
           status'[o] \notin Terminal
    PROVE  released'[o] = released[o]
  BY DEF ReleaseIfTerminal, IInv, CoreTypeOK

LEMMA ConsumeHolds ==
    ASSUME IInv, NEW p \in Partitions, Consume(p),
           NEW o \in Orders, status'[o] = "PENDING_CANCEL"
    PROVE  released'[o] = released[o] \/ filled'[o] > filled[o]
  <1>1. PICK i \in 1 .. Len(outcomes) :
          \/ SettleHalf(outcomes[i])
          \/ SkipDuplicate(outcomes[i])
          \/ ApplyDisposition(outcomes[i])
          \/ ApplyVerdict(outcomes[i])
    BY DEF Consume
  <1>2. PICK h \in OutcomeRecord : h = outcomes[i]
    BY NextRecord
  <1>3. h.order \in Orders /\ (h.type = "HALF" => h.fill \in 1 .. Len(fills))
    BY <1>2, NextRecord
  <1>4. status'[o] \notin Terminal
    BY DEF Terminal
  <1>5. CASE SettleHalf(h)
    <2>1. h.type = "HALF"
      BY <1>5 DEF SettleHalf
    <2> QED BY <1>3, <1>5, <2>1, SettleRaises
  <1>6. CASE SkipDuplicate(h)
    BY <1>6 DEF SkipDuplicate, orderVars
  <1>7. CASE ApplyDisposition(h)
    BY <1>3, <1>4, <1>7, AnswerReleases DEF ApplyDisposition
  <1>8. CASE ApplyVerdict(h)
    BY <1>3, <1>4, <1>8, AnswerReleases DEF ApplyVerdict
  <1> QED BY <1>1, <1>2, <1>5, <1>6, <1>7, <1>8

LEMMA StepHolds ==
    ASSUME IInv, [Next]_vars, NEW o \in Orders, status'[o] = "PENDING_CANCEL"
    PROVE  released'[o] = released[o] \/ filled'[o] > filled[o]
  <1>1. CASE \E p \in Partitions : Consume(p)
    BY <1>1, ConsumeHolds
  <1>2. CASE MarketStep
    BY <1>2 DEF MarketStep, coreVars, orderVars
  <1>3. CASE \E q \in Orders : Submit(q) \/ RequestCancel(q)
    BY <1>3 DEF Submit, RequestCancel
  <1>4. CASE \E a \in Accounts, x \in Funding :
               Deposit(a, x) \/ \E price \in Funding : SeedShares(a, x, price)
    BY <1>4 DEF Deposit, SeedShares, orderVars
  <1>5. CASE RestartConsumers \/ PromoteStandby \/ \E p \in Partitions : ConsumeFails(p)
    BY <1>5 DEF RestartConsumers, PromoteStandby, ConsumeFails, orderVars
  <1>6. CASE UNCHANGED vars
    BY <1>6 DEF vars, coreVars, orderVars
  <1> QED BY <1>1, <1>2, <1>3, <1>4, <1>5, <1>6 DEF Next

\* While a cancel is pending, nothing of the reservation is given back but
\* the headroom of a fill (cancel.go, RequestCancel; outcomes.go,
\* settleReservation and releaseIfTerminal).
THEOREM PendingHolds == Spec => PendingCancelHolds
  <1>1. IInv /\ [Next]_vars =>
          [\A o \in Orders : status'[o] = "PENDING_CANCEL" =>
             released'[o] = released[o] \/ filled'[o] > filled[o]]_vars
    BY StepHolds
  <1> QED BY <1>1, Inductive, PTL DEF Spec, PendingCancelHolds

-----------------------------------------------------------------------------
(* A terminal order holds nothing, and nothing moves it any more.          *)

\* The part of TerminalIsSettled that is the ledger's.
TerminalHoldsNothing ==
    \A o \in Orders : status[o] \in Terminal => Outstanding(o) = 0

\* No execution is so small that its notional rounds to nothing.
FillsHaveValue ==
    \A k \in 1 .. Len(fills) : Notional(fills[k].qty, fills[k].price) > 0

\* What a record leaves of its order, if that is terminal.
LEMMA SettledEmpties ==
    ASSUME IInv, TerminalHoldsNothing, NEW p \in Partitions, Consume(p)
    PROVE  TerminalHoldsNothing'
  <1>1. PICK i \in 1 .. Len(outcomes) :
          \/ SettleHalf(outcomes[i])
          \/ SkipDuplicate(outcomes[i])
          \/ ApplyDisposition(outcomes[i])
          \/ ApplyVerdict(outcomes[i])
    BY DEF Consume
  <1>2. PICK h \in OutcomeRecord : h = outcomes[i] /\ h.order \in Orders
    BY NextRecord
  <1>3. \/ OneSettled(h.order, HalfCost(h))
        \/ OneSettled(h.order, 0)
    BY <1>1, <1>2, SettleKinds
  <1>4. /\ reserved' = reserved /\ consumed' \in [Orders -> Nat]
        /\ reserved \in [Orders -> Nat]
        /\ \A o \in Orders \ {h.order} : Outstanding(o)' = Outstanding(o)
    BY <1>3 DEF OneSettled, IInv, CoreTypeOK
  <1>5. SkipDuplicate(h) \/ \A o \in Orders \ {h.order} : status'[o] = status[o]
    BY <1>1, <1>2 DEF SettleHalf, ApplyDisposition, ApplyVerdict, IInv, CoreTypeOK
  <1>6. \/ SkipDuplicate(h)
        \/ status'[h.order] \in Terminal =>
             released'[h.order] = reserved[h.order] - consumed'[h.order]
    BY <1>1, <1>2 DEF SettleHalf, ApplyDisposition, ApplyVerdict, ReleaseIfTerminal,
                      IInv, CoreTypeOK
  <1>7. CASE SkipDuplicate(h)
    BY <1>7 DEF SkipDuplicate, orderVars, TerminalHoldsNothing, Outstanding
  <1>8. CASE ~SkipDuplicate(h)
    <2>1. ASSUME NEW o \in Orders, status'[o] \in Terminal
          PROVE  Outstanding(o)' = 0
      <3>1. CASE o = h.order
        <4>1. released'[o] = reserved[o] - consumed'[o]
          BY <1>6, <1>8, <2>1, <3>1
        <4>2. reserved[o] \in Nat /\ consumed'[o] \in Nat /\ reserved'[o] = reserved[o]
          BY <1>4
        <4> QED BY <4>1, <4>2 DEF Outstanding
      <3>2. CASE o # h.order
        BY <1>4, <1>5, <1>8, <2>1, <3>2 DEF TerminalHoldsNothing
      <3> QED BY <3>1, <3>2
    <2> QED BY <2>1 DEF TerminalHoldsNothing, Terminal
  <1> QED BY <1>7, <1>8

\* A refused order never reserved anything, and asking to cancel is not final.
LEMMA RequestsEmpty ==
    ASSUME IInv, TerminalHoldsNothing, NEW o \in Orders, Submit(o) \/ RequestCancel(o)
    PROVE  TerminalHoldsNothing'
  <1>1. consumed' = consumed /\ released' = released
    BY DEF Submit, RequestCancel
  <1>2. ASSUME NEW q \in Orders, status'[q] \in Terminal
        PROVE  Outstanding(q)' = 0
    <2>1. CASE q = o
      <3>1. Submit(o) /\ status[o] = "NONE" /\ reserved' = reserved
        BY <1>2, <2>1 DEF Submit, RequestCancel, Terminal, IInv, CoreTypeOK
      <3>2. /\ reserved[o] = 0 /\ consumed[o] \in Nat /\ released[o] \in Nat
            /\ consumed[o] + released[o] <= reserved[o]
        BY <3>1 DEF IInv, CoreTypeOK
      <3> QED BY <1>1, <2>1, <3>1, <3>2 DEF Outstanding
    <2>2. CASE q # o
      <3>1. status'[q] = status[q] /\ reserved'[q] = reserved[q]
        BY <2>2 DEF Submit, RequestCancel, IInv, CoreTypeOK
      <3> QED BY <1>1, <1>2, <3>1 DEF Outstanding, TerminalHoldsNothing
    <2> QED BY <2>1, <2>2
  <1> QED BY <1>2 DEF TerminalHoldsNothing, Terminal

LEMMA StepEmpties ==
    ASSUME IInv, TerminalHoldsNothing, [Next]_vars
    PROVE  TerminalHoldsNothing'
  <1>1. CASE \E p \in Partitions : Consume(p)
    BY <1>1, SettledEmpties
  <1>2. CASE \E o \in Orders : Submit(o) \/ RequestCancel(o)
    BY <1>2, RequestsEmpty
  <1>3. CASE UNCHANGED orderVars
    BY <1>3 DEF orderVars, TerminalHoldsNothing, Outstanding
  <1>4. \/ \E p \in Partitions : Consume(p)
        \/ \E o \in Orders : Submit(o) \/ RequestCancel(o)
        \/ UNCHANGED orderVars
    BY DEF Next, MarketStep, Deposit, SeedShares, ConsumeFails, RestartConsumers,
           PromoteStandby, vars, coreVars
  <1> QED BY <1>1, <1>2, <1>3, <1>4

\* A terminal order has given back all that it did not spend (outcomes.go,
\* settleReservation and releaseIfTerminal; submit.go, accept).
THEOREM TerminalReleases == Spec => []TerminalHoldsNothing
  <1>1. Init => TerminalHoldsNothing
    BY DEF Init, TerminalHoldsNothing, Terminal
  <1>2. IInv /\ TerminalHoldsNothing /\ [Next]_vars => TerminalHoldsNothing'
    BY StepEmpties
  <1> QED BY <1>1, <1>2, Inductive, PTL DEF Spec

\* A half that costs something finds nothing reserved by a terminal order, and
\* the reservation's CHECK refuses it; an answer leaves a terminal order alone.
LEMMA ConsumeKeepsTerminal ==
    ASSUME IInv, TerminalHoldsNothing, FillsHaveValue, NEW p \in Partitions, Consume(p),
           NEW o \in Orders, status[o] \in Terminal
    PROVE  status'[o] = status[o] /\ filled'[o] = filled[o]
  <1>1. PICK i \in 1 .. Len(outcomes) :
          \/ SettleHalf(outcomes[i])
          \/ SkipDuplicate(outcomes[i])
          \/ ApplyDisposition(outcomes[i])
          \/ ApplyVerdict(outcomes[i])
    BY DEF Consume
  <1>2. PICK h \in OutcomeRecord :
          /\ h = outcomes[i] /\ h.order \in Orders
          /\ h.type = "HALF" => h.fill \in 1 .. Len(fills)
    BY NextRecord
  <1>3. CASE SettleHalf(h)
    <2>1. h.type = "HALF" /\ h.fill \in 1 .. Len(fills) /\ ~Overdraws(h)
      BY <1>2, <1>3 DEF SettleHalf
    <2>2. /\ HalfQty(h) \in Nat \ {0} /\ HalfNotional(h) \in Nat /\ HalfFee(h) \in Nat
          /\ HalfRelease(h) \in Nat
      BY <2>1, HalfType
    <2>3. HalfNotional(h) > 0
      BY <2>1 DEF FillsHaveValue, HalfNotional, HalfQty
    <2>4. HalfCost(h) \in Nat \ {0}
      BY <2>2, <2>3 DEF HalfCost
    <2>5. o # h.order
      BY <2>1, <2>2, <2>4 DEF Overdraws, TerminalHoldsNothing
    <2> QED BY <1>2, <1>3, <2>5 DEF SettleHalf, IInv, CoreTypeOK
  <1>4. CASE SkipDuplicate(h)
    BY <1>4 DEF SkipDuplicate, orderVars
  <1>5. CASE ApplyDisposition(h)
    BY <1>5 DEF ApplyDisposition, Dispositioned, IInv, CoreTypeOK
  <1>6. CASE ApplyVerdict(h)
    <2>1. status[h.order] \in Terminal => CancelSettled(h.order, h.removed) = status[h.order]
      BY DEF CancelSettled, Terminal
    <2> QED BY <1>2, <1>6, <2>1 DEF ApplyVerdict, IInv, CoreTypeOK
  <1> QED BY <1>1, <1>2, <1>3, <1>4, <1>5, <1>6

LEMMA StepKeepsTerminal ==
    ASSUME IInv, TerminalHoldsNothing, FillsHaveValue, [Next]_vars,
           NEW o \in Orders, status[o] \in Terminal
    PROVE  status'[o] = status[o] /\ filled'[o] = filled[o]
  <1>1. CASE \E p \in Partitions : Consume(p)
    BY <1>1, ConsumeKeepsTerminal
  <1>2. CASE \E q \in Orders : Submit(q) \/ RequestCancel(q)
    BY <1>2 DEF Submit, RequestCancel, Live, Terminal, IInv, CoreTypeOK
  <1>3. CASE UNCHANGED orderVars
    BY <1>3 DEF orderVars
  <1>4. \/ \E p \in Partitions : Consume(p)
        \/ \E q \in Orders : Submit(q) \/ RequestCancel(q)
        \/ UNCHANGED orderVars
    BY DEF Next, MarketStep, Deposit, SeedShares, ConsumeFails, RestartConsumers,
           PromoteStandby, vars, coreVars
  <1> QED BY <1>1, <1>2, <1>3, <1>4

\* A terminal order's status and fills never change again, whatever arrives
\* for it and however often, as long as no execution rounds to nothing: a half
\* that costs nothing is one no reservation refuses (outcomes.go, applyHalf).
THEOREM TerminalStays == Spec /\ []FillsHaveValue => TerminalIsFinal
  <1>1. IInv /\ TerminalHoldsNothing /\ FillsHaveValue /\ [Next]_vars =>
          [\A o \in Orders : status[o] \in Terminal =>
             status'[o] = status[o] /\ filled'[o] = filled[o]]_vars
    BY StepKeepsTerminal
  <1> QED BY <1>1, Inductive, TerminalReleases, PTL DEF Spec, TerminalIsFinal

-----------------------------------------------------------------------------
(* The history: executions, outcomes and the ledger agree.                   *)

\* The order's ORDER record is in the inbound log, and the shard is past it.
OrderRecord(o) == [type |-> "ORDER", order |-> o]
Placed(o) == \E i \in 1 .. Len(inbound) : inbound[i] = OrderRecord(o)
Met(o)    == \E i \in 1 .. taken : inbound[i] = OrderRecord(o)

\* The halves of an order, settled or not, and what they amount to.
HalvesOf(o) == {e \in HalvesMade : OrderOf(e) = o}
Executed(o) == SumOver(SizeOf, HalvesOf(o))

\* An order is enqueued once, and a cancel after the order it cancels.
LogOK ==
    /\ \A i, j \in 1 .. Len(inbound) :
         inbound[i] = inbound[j] /\ inbound[i].type = "ORDER" => i = j
    /\ \A j \in 1 .. Len(inbound) : inbound[j].type = "CANCEL" =>
         \E i \in 1 .. j - 1 : inbound[i] = OrderRecord(inbound[j].order)

\* Opposite sides trade; what is executed of an order and what rests of it are
\* within its size; and nothing happens to an order the shard has not met.
FillsOK ==
    /\ \A k \in 1 .. Len(fills) : req[fills[k].taker].side # req[fills[k].maker].side
    /\ \A o \in Orders : Executed(o) + open[o] <= req[o].qty
    /\ \A o \in Orders : ~Met(o) => open[o] = 0 /\ HalvesOf(o) = {}

\* The outcomes that say that an order is out of the book.
Closes(r) == (r.type = "DISPOSITION" /\ r.what # "RESTED") \/ r.type = "VERDICT"

\* Outcomes are of orders the shard has met; one that says that an order is out
\* of the book is right.
OutcomesOK ==
    \A i \in 1 .. Len(outcomes) :
      /\ outcomes[i].type = "HALF" => outcomes[i].order = OrderOf(Event(outcomes[i]))
      /\ Met(outcomes[i].order)
      /\ Closes(outcomes[i]) => open[outcomes[i].order] = 0

\* The ledger's halves exist, an order's totals are those of its halves, it is
\* in the log if it was accepted, and out of the book if it is done.
SettledOK ==
    /\ applied \subseteq HalvesMade
    /\ \A o \in Orders : /\ filled[o] = SumOver(SizeOf, SettledHalves(o))
                         /\ notional[o] = SumOver(WorthOf, SettledHalves(o))
    /\ \A o \in Orders : status[o] \in {"NONE", "REJECTED"} <=> ~Placed(o)
    /\ \A o \in Orders : status[o] \in {"FILLED", "CANCELLED"} => Met(o) /\ open[o] = 0

\* What the log, the executions and the outcomes have to do with each other and
\* with the orders: the second inductive invariant, on top of the types.
HistoryOK == LogOK /\ FillsOK /\ OutcomesOK /\ SettledOK

-----------------------------------------------------------------------------
(* Halves and their sums. *)

\* There are finitely many halves, two of each execution, and a half is of its
\* taker or of its maker and of the execution's size and worth.
HalvesAreHalves ==
    /\ \A T \in SUBSET HalvesMade : IsFiniteSet(T)
    /\ \A e \in HalvesMade : /\ e[1] \in 1 .. Len(fills) /\ e[2] \in Roles
                             /\ e = <<e[1], e[2]>>
                             /\ SizeOf[e] = fills[e[1]].qty /\ SizeOf[e] \in Nat \ {0}
                             /\ WorthOf[e] = Notional(fills[e[1]].qty, fills[e[1]].price)
                             /\ WorthOf[e] \in Nat
                             /\ OrderOf(e) \in Orders

\* The halves are those of the executions, as the types say.
LEMMA HalvesFinite == MarketTypeOK => HalvesAreHalves
  <1> SUFFICES ASSUME MarketTypeOK PROVE HalvesAreHalves
    OBVIOUS
  <1>1. Len(fills) \in Nat
    BY DEF MarketTypeOK
  <1>2. IsFiniteSet(1 .. Len(fills)) /\ IsFiniteSet(Roles)
    <2>1. IsFiniteSet({"TAKER"})
      BY FS_Singleton
    <2>2. IsFiniteSet({"TAKER"} \cup {"MAKER"}) /\ Roles = {"TAKER"} \cup {"MAKER"}
      BY <2>1, FS_AddElement DEF Roles
    <2> QED BY <1>1, <2>2, FS_Interval
  <1>3. IsFiniteSet(HalvesMade)
    BY <1>2, FS_Product DEF HalvesMade
  <1>4. \A k \in 1 .. Len(fills) : fills[k] \in FillRecord
    BY DEF MarketTypeOK
  <1>5. ASSUME NEW e \in HalvesMade
        PROVE  /\ e[1] \in 1 .. Len(fills) /\ e[2] \in Roles
               /\ e = <<e[1], e[2]>>
               /\ SizeOf[e] = fills[e[1]].qty /\ SizeOf[e] \in Nat \ {0}
               /\ WorthOf[e] = Notional(fills[e[1]].qty, fills[e[1]].price)
               /\ WorthOf[e] \in Nat
               /\ OrderOf(e) \in Orders
    <2>1. e[1] \in 1 .. Len(fills) /\ e[2] \in Roles /\ e = <<e[1], e[2]>>
      BY DEF HalvesMade
    <2>2. /\ fills[e[1]].taker \in Orders /\ fills[e[1]].maker \in Orders
          /\ fills[e[1]].qty \in Nat \ {0} /\ fills[e[1]].price \in Nat
      BY <1>4, <2>1 DEF FillRecord
    <2>3. Notional(fills[e[1]].qty, fills[e[1]].price) \in Nat
      BY <2>2, NotionalBound
    <2> QED BY <2>1, <2>2, <2>3 DEF SizeOf, WorthOf, OrderOf
  <1> QED BY <1>3, <1>5, FS_Subset DEF HalvesAreHalves

\* So they are after the step.
LEMMA HalvesFinitePrime == MarketTypeOK' => HalvesAreHalves'
  BY HalvesFinite, PTL

\* What an order is known to have executed is a number, and as much at least
\* as any of its halves amount to.
LEMMA ExecutedType ==
    ASSUME MarketTypeOK, NEW o
    PROVE  /\ Executed(o) \in Nat
           /\ \A T \in SUBSET HalvesOf(o) : SumOver(SizeOf, T) \in Nat /\ SumOver(SizeOf, T) <= Executed(o)
  <1>1. HalvesOf(o) \in SUBSET HalvesMade /\ IsFiniteSet(HalvesOf(o))
    BY HalvesFinite DEF HalvesOf, HalvesAreHalves
  <1>2. \A e \in HalvesOf(o) : SizeOf[e] \in Nat
    BY <1>1, HalvesFinite DEF HalvesAreHalves
  <1>3. Executed(o) \in Nat
    BY <1>1, <1>2, SumType DEF Executed
  <1>4. ASSUME NEW T \in SUBSET HalvesOf(o)
        PROVE  SumOver(SizeOf, T) \in Nat /\ SumOver(SizeOf, T) <= Executed(o)
    <2>1. IsFiniteSet(T)
      BY <1>1, FS_Subset
    <2> QED BY <1>1, <1>2, <2>1, SumType, SumWithin DEF Executed
  <1> QED BY <1>3, <1>4

\* The executions a step leaves alone keep their halves and the sums of these.
LEMMA SumsKept ==
    ASSUME MarketTypeOK, MarketTypeOK', Len(fills) <= Len(fills'),
           \A k \in 1 .. Len(fills) : fills'[k] = fills[k]
    PROVE  /\ HalvesMade \subseteq HalvesMade'
           /\ \A e \in HalvesMade : OrderOf(e)' = OrderOf(e)
           /\ \A T \in SUBSET HalvesMade : /\ SumOver(SizeOf', T) = SumOver(SizeOf, T)
                                           /\ SumOver(WorthOf', T) = SumOver(WorthOf, T)
  <1>1. Len(fills) \in Nat /\ Len(fills') \in Nat
    BY DEF MarketTypeOK
  <1>2. HalvesMade \subseteq HalvesMade'
    BY <1>1 DEF HalvesMade
  <1>3. ASSUME NEW e \in HalvesMade
        PROVE  /\ OrderOf(e)' = OrderOf(e)
               /\ SizeOf'[e] = SizeOf[e] /\ WorthOf'[e] = WorthOf[e]
    <2>1. e[1] \in 1 .. Len(fills) /\ e \in HalvesMade'
      BY <1>2, HalvesFinite DEF HalvesAreHalves
    <2>2. fills'[e[1]] = fills[e[1]]
      BY <2>1
    <2> QED BY <2>1, <2>2 DEF SizeOf, WorthOf, OrderOf
  <1>4. ASSUME NEW T \in SUBSET HalvesMade
        PROVE  /\ SumOver(SizeOf', T) = SumOver(SizeOf, T)
               /\ SumOver(WorthOf', T) = SumOver(WorthOf, T)
    <2>1. IsFiniteSet(T) /\ \A e \in T : SizeOf[e] \in Int /\ WorthOf[e] \in Int
      BY HalvesFinite DEF HalvesAreHalves
    <2>2. \A e \in T : SizeOf[e] = SizeOf'[e] /\ WorthOf[e] = WorthOf'[e]
      BY <1>3
    <2> QED BY <2>1, <2>2, SumSame
  <1> QED BY <1>2, <1>3, <1>4

-----------------------------------------------------------------------------
(* What handling an order does.                                              *)

\* The order met the makers mk[1], .., mk[n], in that order, and cum[k] of it was
\* done after the k-th.
MetMakers(o, n, mk, cum) ==
    /\ n \in Nat /\ mk \in [1 .. n -> Orders \ {o}] /\ cum \in [0 .. n -> Nat]
    /\ \A i, j \in 1 .. n : mk[i] = mk[j] => i = j
    /\ cum[0] = 0 /\ cum[n] <= req[o].qty
    /\ \A i \in 1 .. n : /\ req[o].side # req[mk[i]].side
                         /\ cum[i] - cum[i-1] \in Nat \ {0}
                         /\ cum[i] - cum[i-1] <= open[mk[i]]

\* Each of them traded once, and gave what was taken from it.
Traded(o, n, mk, cum) ==
    /\ fills' \in Seq(FillRecord) /\ Len(fills') = Len(fills) + n
    /\ \A k \in 1 .. Len(fills) : fills'[k] = fills[k]
    /\ \A i \in 1 .. n : /\ fills'[Len(fills) + i].taker = o
                         /\ fills'[Len(fills) + i].maker = mk[i]
                         /\ fills'[Len(fills) + i].qty = cum[i] - cum[i-1]
    /\ open' \in [Orders -> Nat]
    /\ open'[o] + cum[n] <= req[o].qty
    /\ Fate(o, cum[n]) # "RESTED" => open'[o] = 0
    /\ \A i \in 1 .. n : open'[mk[i]] = open[mk[i]] - (cum[i] - cum[i-1])
    /\ \A m \in Orders \ {o} : (\A i \in 1 .. n : mk[i] # m) => open'[m] = open[m]

\* Their halves were announced, and what became of the order.
Announced(o, n, mk, cum) ==
    /\ outcomes' \in Seq(OutcomeRecord) /\ Len(outcomes) <= Len(outcomes')
    /\ \A i \in 1 .. Len(outcomes) : outcomes'[i] = outcomes[i]
    /\ \A i \in Len(outcomes) + 1 .. Len(outcomes') :
         \/ \E k \in 1 .. n : outcomes'[i] = Half(o, Len(fills) + k, "TAKER")
         \/ \E k \in 1 .. n : outcomes'[i] = Half(mk[k], Len(fills) + k, "MAKER")
         \/ outcomes'[i] = Disposition(o, Fate(o, cum[n]))

\* Where the elements of two joined sequences are.
LEMMA Joined ==
    ASSUME NEW S, NEW s \in Seq(S), NEW t \in Seq(S)
    PROVE  /\ Len(s \o t) = Len(s) + Len(t)
           /\ \A i \in 1 .. Len(s) : (s \o t)[i] = s[i]
           /\ \A i \in 1 .. Len(t) : (s \o t)[Len(s) + i] = t[i]
  <1> DEFINE u == s \o t
  <1>1. /\ u \in Seq(S) /\ Len(u) = Len(s) + Len(t)
        /\ \A i \in 1 .. Len(s) + Len(t) : u[i] = IF i <= Len(s) THEN s[i] ELSE t[i - Len(s)]
        /\ Len(s) \in Nat /\ Len(t) \in Nat
    BY ConcatProperties
  <1> HIDE DEF u
  <1>2. ASSUME NEW i \in 1 .. Len(t)
        PROVE  u[Len(s) + i] = t[i]
    <2>1. Len(s) + i \in 1 .. Len(s) + Len(t) /\ ~(Len(s) + i <= Len(s)) /\ (Len(s) + i) - Len(s) = i
      BY <1>1
    <2> QED BY <1>1, <2>1
  <1>3. \A i \in 1 .. Len(s) : i \in 1 .. Len(s) + Len(t) /\ i <= Len(s)
    BY <1>1
  <1>4. /\ Len(u) = Len(s) + Len(t)
        /\ \A i \in 1 .. Len(s) : u[i] = s[i]
        /\ \A i \in 1 .. Len(t) : u[Len(s) + i] = t[i]
    BY <1>1, <1>2, <1>3
  <1> QED BY <1>4 DEF u

\* An order that is handled meets some makers, trades with each of them and is
\* announced.
LEMMA OrderHandled ==
    ASSUME MarketTypeOK, NEW o \in Orders, MatchOrder(o)
    PROVE  \E n, mk, cum : MetMakers(o, n, mk, cum) /\ Traded(o, n, mk, cum) /\ Announced(o, n, mk, cum)
  <1>1. IsFiniteSet(Available(o)) /\ Cardinality(Available(o)) \in Nat
    <2>1. Available(o) \in SUBSET Orders
      BY DEF Available
    <2> QED BY <2>1, MarketAssumption, FS_Subset, FS_CardinalityType
  <1>a. PICK n \in 0 .. Cardinality(Available(o)) :
          \E mk \in [1 .. n -> Available(o)] :
             /\ \A i, j \in 1 .. n : mk[i] = mk[j] => i = j
             /\ \E cum \in [0 .. n -> 0 .. req[o].qty] : Execute(o, n, mk, cum)
    BY DEF MatchOrder
  <1>b. PICK mk \in [1 .. n -> Available(o)] :
             /\ \A i, j \in 1 .. n : mk[i] = mk[j] => i = j
             /\ \E cum \in [0 .. n -> 0 .. req[o].qty] : Execute(o, n, mk, cum)
    BY <1>a
  <1>2. PICK cum \in [0 .. n -> 0 .. req[o].qty] : Execute(o, n, mk, cum)
    BY <1>b
  <1>3. /\ n \in Nat /\ mk \in [1 .. n -> Orders] /\ Len(mk) = n
        /\ \A i \in 1 .. n : mk[i] # o /\ req[o].side # req[mk[i]].side
    BY <1>1 DEF Available, Crosses
  <1>4. Plan(o, mk, cum)
    BY <1>2 DEF Execute
  <1>5. \A i \in 1 .. n : /\ cum[i] - cum[i-1] \in Nat \ {0}
                          /\ cum[i] - cum[i-1] <= open[mk[i]]
    BY <1>3, <1>4, PlanTakes
  <1>6. req[o].qty \in Nat /\ cum[n] \in 0 .. req[o].qty
    BY <1>3, RequestType DEF MarketTypeOK
  <1>7. MetMakers(o, n, mk, cum)
    <2>1. cum[0] = 0
      BY <1>4 DEF Plan
    <2> QED BY <1>b, <1>3, <1>5, <1>6, <2>1 DEF MetMakers
  <1>t. MarketTypeOK'
    BY MatchOrderType
  <1>8. PICK kept \in MayKeep(o, n, cum[n]) : open' = BookAfter(o, mk, cum, kept)
    BY <1>2 DEF Execute
  <1>9. Traded(o, n, mk, cum)
    <2>1. fills' = fills \o PlannedFills(o, mk, cum)
      BY <1>2 DEF Execute
    <2>2. Len(PlannedFills(o, mk, cum)) = n
      BY <1>3 DEF PlannedFills
    <2>3. fills \in Seq(FillRecord) /\ fills' \in Seq(FillRecord)
      BY <1>t DEF MarketTypeOK
    <2>p. PlannedFills(o, mk, cum) \in Seq(FillRecord)
      <3>1. \A i \in 1 .. n : req[mk[i]].price \in Nat
        BY <1>3, RequestType DEF MarketTypeOK
      <3>2. PlannedFills(o, mk, cum) \in [1 .. n -> FillRecord]
        BY <1>3, <1>5, <3>1 DEF PlannedFills, FillRecord
      <3> QED BY <1>3, <3>2, FunctionIsSeq
    <2>4. /\ Len(fills') = Len(fills) + n
          /\ \A k \in 1 .. Len(fills) : fills'[k] = fills[k]
          /\ \A i \in 1 .. n : fills'[Len(fills) + i] = PlannedFills(o, mk, cum)[i]
      <3>1. /\ Len(fills') = Len(fills) + Len(PlannedFills(o, mk, cum))
            /\ \A k \in 1 .. Len(fills) : fills'[k] = fills[k]
            /\ \A i \in 1 .. Len(PlannedFills(o, mk, cum)) :
                 fills'[Len(fills) + i] = PlannedFills(o, mk, cum)[i]
        <4> DEFINE F == PlannedFills(o, mk, cum)
        <4> HIDE DEF F
        <4>1. F \in Seq(FillRecord) /\ fills' = fills \o F
          BY <2>1, <2>p DEF F
        <4>2. /\ Len(fills \o F) = Len(fills) + Len(F)
              /\ \A i \in 1 .. Len(fills) : (fills \o F)[i] = fills[i]
              /\ \A i \in 1 .. Len(F) : (fills \o F)[Len(fills) + i] = F[i]
          BY <2>3, <4>1, Joined
        <4> QED BY <4>1, <4>2 DEF F
      <3> QED BY <2>2, <3>1
    <2>5. \A i \in 1 .. n : /\ fills'[Len(fills) + i].taker = o
                            /\ fills'[Len(fills) + i].maker = mk[i]
                            /\ fills'[Len(fills) + i].qty = cum[i] - cum[i-1]
      <3>1. \A i \in 1 .. n : /\ PlannedFills(o, mk, cum)[i].taker = o
                              /\ PlannedFills(o, mk, cum)[i].maker = mk[i]
                              /\ PlannedFills(o, mk, cum)[i].qty = cum[i] - cum[i-1]
        BY <1>3 DEF PlannedFills
      <3> QED BY <2>4, <3>1
    <2>6. open' \in [Orders -> Nat]
      BY <1>t DEF MarketTypeOK
    <2>7. open'[o] = kept
      BY <1>8 DEF BookAfter
    <2>8. kept + cum[n] <= req[o].qty /\ (Fate(o, cum[n]) # "RESTED" => kept = 0)
      BY <1>6, <1>8 DEF MayKeep
    <2>9. ASSUME NEW i \in 1 .. n
          PROVE  open'[mk[i]] = open[mk[i]] - (cum[i] - cum[i-1])
      <3> DEFINE j == CHOOSE j \in 1 .. n : mk[j] = mk[i]
      <3>1. j = i
        BY <1>b
      <3>2. open'[mk[i]] = open[mk[i]] - (cum[j] - cum[j-1])
        BY <1>3, <1>8 DEF BookAfter
      <3> HIDE DEF j
      <3> QED BY <3>1, <3>2
    <2>10. \A m \in Orders \ {o} : (\A i \in 1 .. n : mk[i] # m) => open'[m] = open[m]
      BY <1>3, <1>8 DEF BookAfter
    <2> QED BY <2>3, <2>4, <2>5, <2>6, <2>7, <2>8, <2>9, <2>10 DEF Traded
  <1>10. Announced(o, n, mk, cum)
    <2> DEFINE P == Produced(o, mk, Fate(o, cum[n]))
    <2>1. outcomes' = outcomes \o P
      BY <1>2 DEF Execute
    <2>2. outcomes \in Seq(OutcomeRecord) /\ outcomes' \in Seq(OutcomeRecord)
      BY <1>t DEF MarketTypeOK
    <2>4. \A i \in 1 .. 2 * n + 1 :
            \/ \E k \in 1 .. n : P[i] = Half(o, Len(fills) + k, "TAKER")
            \/ \E k \in 1 .. n : P[i] = Half(mk[k], Len(fills) + k, "MAKER")
            \/ P[i] = Disposition(o, Fate(o, cum[n]))
      <3> SUFFICES ASSUME NEW i \in 1 .. 2 * n + 1
                   PROVE  \/ \E k \in 1 .. n : P[i] = Half(o, Len(fills) + k, "TAKER")
                          \/ \E k \in 1 .. n : P[i] = Half(mk[k], Len(fills) + k, "MAKER")
                          \/ P[i] = Disposition(o, Fate(o, cum[n]))
        OBVIOUS
      <3>1. CASE i = 2 * n + 1
        BY <1>3, <3>1 DEF Produced
      <3>2. CASE i # 2 * n + 1 /\ i % 2 = 1
        <4>1. P[i] = Half(o, Len(fills) + (i + 1) \div 2, "TAKER")
          BY <1>3, <3>2 DEF Produced
        <4>2. (i + 1) \div 2 \in 1 .. n
          BY <1>3, <3>2
        <4> HIDE DEF P
        <4> QED BY <4>1, <4>2
      <3>3. CASE i # 2 * n + 1 /\ i % 2 # 1
        <4>1. P[i] = Half(mk[i \div 2], Len(fills) + i \div 2, "MAKER")
          BY <1>3, <3>3 DEF Produced
        <4>2. i \div 2 \in 1 .. n
          BY <1>3, <3>3
        <4> HIDE DEF P
        <4> QED BY <4>1, <4>2
      <3> QED BY <3>1, <3>2, <3>3
    <2>3. Len(P) = 2 * n + 1 /\ P \in Seq(OutcomeRecord)
      <3>1. \A i \in 1 .. 2 * n + 1 : P[i] \in OutcomeRecord
        <4>1. \A k \in 1 .. n : /\ Half(o, Len(fills) + k, "TAKER") \in OutcomeRecord
                                /\ Half(mk[k], Len(fills) + k, "MAKER") \in OutcomeRecord
          <5> SUFFICES ASSUME NEW k \in 1 .. n
                       PROVE  /\ Half(o, Len(fills) + k, "TAKER") \in OutcomeRecord
                              /\ Half(mk[k], Len(fills) + k, "MAKER") \in OutcomeRecord
            OBVIOUS
          <5>1. Len(fills) + k \in Nat \ {0} /\ mk[k] \in Orders
            BY <1>3 DEF MarketTypeOK
          <5> QED BY <5>1 DEF Half, OutcomeRecord, Roles
        <4>2. Disposition(o, Fate(o, cum[n])) \in OutcomeRecord
          BY DEF Disposition, Fate, OutcomeRecord
        <4> HIDE DEF P
        <4> QED BY <2>4, <4>1, <4>2
      <3>2. P \in [1 .. 2 * n + 1 -> OutcomeRecord]
        BY <1>3, <3>1 DEF Produced
      <3>3. 2 * n + 1 \in Nat
        BY <1>3
      <3> HIDE DEF P
      <3> QED BY <3>2, <3>3, FunctionIsSeq
    <2> HIDE DEF P
    <2>5. /\ Len(outcomes') = Len(outcomes) + (2 * n + 1)
          /\ \A i \in 1 .. Len(outcomes) : outcomes'[i] = outcomes[i]
          /\ \A i \in 1 .. 2 * n + 1 : outcomes'[Len(outcomes) + i] = P[i]
      <3>1. /\ Len(outcomes') = Len(outcomes) + Len(P)
            /\ \A i \in 1 .. Len(outcomes) : outcomes'[i] = outcomes[i]
            /\ \A i \in 1 .. Len(P) : outcomes'[Len(outcomes) + i] = P[i]
        <4>0. outcomes \in Seq(OutcomeRecord) /\ P \in Seq(OutcomeRecord)
          BY <2>2, <2>3
        <4>1. /\ Len(outcomes \o P) = Len(outcomes) + Len(P)
              /\ \A i \in 1 .. Len(outcomes) : (outcomes \o P)[i] = outcomes[i]
              /\ \A i \in 1 .. Len(P) : (outcomes \o P)[Len(outcomes) + i] = P[i]
          BY <4>0, Joined
        <4> QED BY <2>1, <4>1
      <3> QED BY <2>3, <3>1
    <2>6. ASSUME NEW i \in Len(outcomes) + 1 .. Len(outcomes')
          PROVE  \E d \in 1 .. 2 * n + 1 : outcomes'[i] = P[d]
      <3>1. Len(outcomes) \in Nat
        BY <2>2
      <3>2. i - Len(outcomes) \in 1 .. 2 * n + 1 /\ i = Len(outcomes) + (i - Len(outcomes))
        BY <1>3, <2>5, <3>1
      <3> QED BY <2>5, <3>2
    <2>7. Len(outcomes) <= Len(outcomes')
      BY <1>3, <2>2, <2>5
    <2> QED BY <2>2, <2>4, <2>5, <2>6, <2>7 DEF Announced
  <1> QED BY <1>7, <1>9, <1>10

-----------------------------------------------------------------------------
(* The shard keeps the history.                                              *)

\* What every step of the shard leaves as it was: the log, the executions there
\* were, that an order was met, and that it is out of the book then.
Onward ==
    /\ Len(fills) <= Len(fills') /\ \A k \in 1 .. Len(fills) : fills'[k] = fills[k]
    /\ inbound' = inbound /\ req' = req
    /\ \A o : Met(o) => Met(o)'
    /\ \A o \in Orders : Met(o) /\ open[o] = 0 => open'[o] = 0

\* A half's event is one of the halves made.
LEMMA EventMade ==
    ASSUME MarketTypeOK, NEW i \in 1 .. Len(outcomes), outcomes[i].type = "HALF"
    PROVE  Event(outcomes[i]) \in HalvesMade
  <1>1. outcomes[i] \in OutcomeRecord /\ outcomes[i].fill \in 1 .. Len(fills)
    BY DEF MarketTypeOK
  <1>2. outcomes[i].role \in Roles
    BY <1>1 DEF OutcomeRecord
  <1> QED BY <1>1, <1>2 DEF Event, HalvesMade

\* What an outcome said stays true.
LEMMA OutcomeKept ==
    ASSUME MarketTypeOK, MarketTypeOK', Onward, OutcomesOK, NEW i \in 1 .. Len(outcomes),
           NEW r, r = outcomes[i]
    PROVE  /\ r.type = "HALF" => r.order = OrderOf(Event(r))'
           /\ Met(r.order)'
           /\ Closes(r) => open'[r.order] = 0
  <1>1. /\ r.type = "HALF" => r.order = OrderOf(Event(r))
        /\ Met(r.order)
        /\ Closes(r) => open[r.order] = 0
        /\ r.order \in Orders
    <2>1. outcomes[i] \in OutcomeRecord
      BY DEF MarketTypeOK
    <2> QED BY <2>1 DEF OutcomesOK, OutcomeRecord
  <1>2. r.type = "HALF" => OrderOf(Event(r))' = OrderOf(Event(r))
    <2>1. \A e \in HalvesMade : OrderOf(e)' = OrderOf(e)
      BY SumsKept DEF Onward
    <2> QED BY <2>1, EventMade DEF Event
  <1> QED BY <1>1, <1>2 DEF Onward

\* The ledger's halves are not touched by the shard.
LEMMA SettledKept ==
    ASSUME MarketTypeOK, MarketTypeOK', Onward, SettledOK, UNCHANGED coreVars
    PROVE  SettledOK'
  <1>1. applied' = applied /\ filled' = filled /\ notional' = notional /\ status' = status
    BY DEF coreVars, orderVars, ledgerVars
  <1>2. /\ HalvesMade \subseteq HalvesMade'
        /\ \A e \in HalvesMade : OrderOf(e)' = OrderOf(e)
        /\ \A T \in SUBSET HalvesMade : /\ SumOver(SizeOf', T) = SumOver(SizeOf, T)
                                        /\ SumOver(WorthOf', T) = SumOver(WorthOf, T)
    BY SumsKept DEF Onward
  <1>3. \A o : SettledHalves(o)' = SettledHalves(o) /\ SettledHalves(o) \in SUBSET HalvesMade
    BY <1>1, <1>2 DEF SettledHalves, SettledOK
  <1>4. \A o : Placed(o)' <=> Placed(o)
    BY DEF Placed, Onward
  <1>5. \A o \in Orders : /\ filled'[o] = SumOver(SizeOf', SettledHalves(o)')
                          /\ notional'[o] = SumOver(WorthOf', SettledHalves(o)')
    BY <1>1, <1>2, <1>3 DEF SettledOK
  <1>6. \A o \in Orders : status'[o] \in {"FILLED", "CANCELLED"} => Met(o)' /\ open'[o] = 0
    BY <1>1 DEF SettledOK, Onward
  <1> QED BY <1>1, <1>2, <1>4, <1>5, <1>6 DEF SettledOK

\* An order the shard is about to handle is one it has not met.
LEMMA HandledOnce ==
    ASSUME MarketTypeOK, LogOK, NEW o \in Orders, MatchOrder(o)
    PROVE  /\ ~Met(o)
           /\ \A q : Met(q)' <=> Met(q) \/ q = o
           /\ inbound' = inbound /\ req' = req
  <1>1. /\ taken \in Nat /\ taken + 1 \in 1 .. Len(inbound)
        /\ inbound[taken + 1] = OrderRecord(o)
        /\ inbound' = inbound /\ req' = req /\ taken' = taken + 1
    BY DEF MatchOrder, MarketTypeOK, OrderRecord
  <1>2. ~Met(o)
    <2> SUFFICES ASSUME NEW i \in 1 .. taken, inbound[i] = OrderRecord(o)
                 PROVE  FALSE
      BY DEF Met
    <2>1. i \in 1 .. Len(inbound) /\ i # taken + 1 /\ inbound[i] = inbound[taken + 1]
      BY <1>1 DEF MarketTypeOK
    <2>2. inbound[i].type = "ORDER"
      BY DEF OrderRecord
    <2> QED BY <1>1, <2>1, <2>2 DEF LogOK
  <1>3. ASSUME NEW q
        PROVE  Met(q)' <=> Met(q) \/ q = o
    <2>1. Met(q)' <=> \E i \in 1 .. taken + 1 : inbound[i] = OrderRecord(q)
      BY <1>1 DEF Met, OrderRecord
    <2>2. OrderRecord(q) = OrderRecord(o) <=> q = o
      BY DEF OrderRecord
    <2>3. 1 .. taken + 1 = (1 .. taken) \cup {taken + 1}
      BY <1>1
    <2> QED BY <1>1, <2>1, <2>2, <2>3 DEF Met
  <1> QED BY <1>1, <1>2, <1>3

\* An order that is cancelled is one the shard has met.
LEMMA CancelledIsMet ==
    ASSUME MarketTypeOK, LogOK, NEW o \in Orders, CancelResting(o) \/ CancelAgain(o)
    PROVE  /\ Met(o)
           /\ \A q : Met(q)' <=> Met(q)
           /\ inbound' = inbound /\ req' = req /\ fills' = fills
  <1>1. PICK j \in 1 .. Len(inbound) :
           /\ inbound[j] = [type |-> "CANCEL", order |-> o] /\ j - 1 <= taken
           /\ taken' = taken \/ (taken' = taken + 1 /\ j = taken + 1)
    <2>1. taken \in Nat
      BY DEF MarketTypeOK
    <2>2. CASE CancelResting(o)
      <3>1. /\ taken + 1 \in 1 .. Len(inbound) /\ (taken + 1) - 1 <= taken /\ taken' = taken + 1
            /\ inbound[taken + 1] = [type |-> "CANCEL", order |-> o]
        BY <2>1, <2>2 DEF CancelResting, MarketTypeOK
      <3> QED BY <3>1
    <2>3. CASE CancelAgain(o)
      <3>1. PICK i \in 1 .. taken : inbound[i] = [type |-> "CANCEL", order |-> o]
        BY <2>3 DEF CancelAgain
      <3>2. i \in 1 .. Len(inbound) /\ i - 1 <= taken /\ taken' = taken
        BY <2>1, <2>3 DEF CancelAgain, MarketTypeOK
      <3> QED BY <3>1, <3>2
    <2> QED BY <2>2, <2>3
  <1>2. inbound' = inbound /\ req' = req /\ fills' = fills /\ taken \in Nat
    BY DEF CancelResting, CancelAgain, MarketTypeOK
  <1>3. Met(o)
    <2>1. PICK i \in 1 .. j - 1 : inbound[i] = OrderRecord(o)
      BY <1>1 DEF LogOK
    <2> QED BY <1>1, <1>2, <2>1 DEF Met
  <1>4. ASSUME NEW q
        PROVE  Met(q)' <=> Met(q)
    <2>1. OrderRecord(q) # inbound[j]
      BY <1>1 DEF OrderRecord
    <2>2. Met(q)' <=> \E i \in 1 .. taken' : inbound[i] = OrderRecord(q)
      BY <1>2 DEF Met, OrderRecord
    <2>3. CASE taken' = taken
      BY <2>2, <2>3 DEF Met
    <2>4. CASE taken' = taken + 1 /\ j = taken + 1
      <3>1. 1 .. taken' = (1 .. taken) \cup {j}
        BY <1>2, <2>4
      <3> QED BY <2>1, <2>2, <3>1 DEF Met
    <2> QED BY <1>1, <2>3, <2>4
  <1> QED BY <1>2, <1>3, <1>4

\* A cancel takes the rest out of the book and executes nothing.
LEMMA CancelHistory ==
    ASSUME MarketTypeOK, HistoryOK, NEW o \in Orders, CancelResting(o) \/ CancelAgain(o),
           UNCHANGED coreVars
    PROVE  HistoryOK'
  <1> USE DEF HistoryOK
  <1>1. MarketTypeOK'
    BY CancelRestingType
  <1>2. /\ Met(o) /\ \A q : Met(q)' <=> Met(q)
        /\ inbound' = inbound /\ req' = req /\ fills' = fills
    BY CancelledIsMet
  <1>3. /\ outcomes' = Append(outcomes, Verdict(o, open[o] > 0))
        /\ open' = [open EXCEPT ![o] = 0]
        /\ outcomes \in Seq(OutcomeRecord) /\ open \in [Orders -> Nat] /\ Len(fills) \in Nat
    BY DEF CancelResting, CancelAgain, MarketTypeOK
  <1>4. Onward
    BY <1>2, <1>3 DEF Onward
  <1>5. LogOK'
    BY <1>2 DEF LogOK, OrderRecord
  <1>6. FillsOK'
    <2>1. \A q : HalvesOf(q)' = HalvesOf(q) /\ Executed(q)' = Executed(q)
      BY <1>2 DEF HalvesOf, HalvesMade, OrderOf, Executed, SizeOf
    <2>2. \A q \in Orders : Executed(q) \in Nat /\ req[q].qty \in Nat
      BY ExecutedType, RequestType DEF MarketTypeOK
    <2>3. \A q \in Orders : open'[q] \in Nat /\ open'[q] <= open[q]
      BY <1>3
    <2>4. \A q \in Orders : Executed(q)' + open'[q] <= req[q].qty
      BY <1>3, <2>1, <2>2, <2>3 DEF FillsOK
    <2>5. \A q \in Orders : ~Met(q)' => open'[q] = 0 /\ HalvesOf(q)' = {}
      BY <1>2, <1>3, <2>1 DEF FillsOK
    <2> QED BY <1>2, <2>4, <2>5 DEF FillsOK
  <1>7. OutcomesOK'
    <2>1. ASSUME NEW i \in 1 .. Len(outcomes'), NEW r, r = outcomes'[i]
          PROVE  /\ r.type = "HALF" => r.order = OrderOf(Event(r))'
                 /\ Met(r.order)'
                 /\ Closes(r) => open'[r.order] = 0
      <3>1. CASE i \in 1 .. Len(outcomes)
        <4>1. outcomes'[i] = outcomes[i]
          BY <1>3, <3>1
        <4> QED BY <1>1, <1>4, <2>1, <3>1, <4>1, OutcomeKept
      <3>2. CASE i = Len(outcomes) + 1
        BY <1>2, <1>3, <2>1, <3>2 DEF Verdict
      <3> QED BY <1>3, <3>1, <3>2
    <2> QED BY <2>1 DEF OutcomesOK, Event, Closes
  <1> QED BY <1>1, <1>4, <1>5, <1>6, <1>7, SettledKept

\* Repeating outcomes says nothing new.
LEMMA RegenerateHistory ==
    ASSUME MarketTypeOK, HistoryOK, Regenerate, UNCHANGED coreVars
    PROVE  HistoryOK'
  <1> USE DEF HistoryOK
  <1>1. MarketTypeOK'
    BY RegenerateType
  <1>2. /\ inbound' = inbound /\ req' = req /\ fills' = fills /\ open' = open /\ taken' = taken
        /\ Len(fills) \in Nat
    BY DEF Regenerate, MarketTypeOK
  <1>3. Onward
    BY <1>2 DEF Onward, Met
  <1>4. LogOK' /\ FillsOK'
    BY <1>2 DEF LogOK, FillsOK, OrderRecord, HalvesOf, HalvesMade, OrderOf, Executed, SizeOf, Met
  <1>5. OutcomesOK'
    <2>1. \A i \in 1 .. Len(outcomes') : \E j \in 1 .. Len(outcomes) : outcomes'[i] = outcomes[j]
      BY Repeats
    <2>2. ASSUME NEW i \in 1 .. Len(outcomes'), NEW r, r = outcomes'[i]
          PROVE  /\ r.type = "HALF" => r.order = OrderOf(Event(r))'
                 /\ Met(r.order)'
                 /\ Closes(r) => open'[r.order] = 0
      <3>1. PICK j \in 1 .. Len(outcomes) : r = outcomes[j]
        BY <2>1, <2>2
      <3> QED BY <1>1, <1>3, <3>1, OutcomeKept
    <2> QED BY <2>2 DEF OutcomesOK, Event, Closes
  <1> QED BY <1>1, <1>3, <1>4, <1>5, SettledKept

\* The halves that handling an order makes: the order is the taker of each.
NewHalvesAre(o, n, mk, cum) ==
    /\ \A i \in 1 .. n : \A r \in Roles : \A e : e = <<Len(fills) + i, r>> =>
         /\ e \in HalvesMade' /\ e \notin HalvesMade
         /\ SizeOf'[e] = cum[i] - cum[i-1]
         /\ OrderOf(e)' = IF r = "TAKER" THEN o ELSE mk[i]
    /\ \A e \in HalvesMade' : e \notin HalvesMade =>
         \E i \in 1 .. n : \E r \in Roles : e = <<Len(fills) + i, r>>

\* The executions it makes have two halves each, its own and the maker's.
LEMMA NewHalves ==
    ASSUME MarketTypeOK, MarketTypeOK', NEW o \in Orders, NEW n, NEW mk, NEW cum,
           MetMakers(o, n, mk, cum), Traded(o, n, mk, cum)
    PROVE  NewHalvesAre(o, n, mk, cum)
  <1>1. Len(fills) \in Nat /\ n \in Nat /\ Len(fills') = Len(fills) + n
    BY DEF MarketTypeOK, MetMakers, Traded
  <1>2. ASSUME NEW i \in 1 .. n, NEW r \in Roles, NEW e, e = <<Len(fills) + i, r>>
        PROVE  /\ e \in HalvesMade' /\ e \notin HalvesMade
               /\ SizeOf'[e] = cum[i] - cum[i-1]
               /\ OrderOf(e)' = IF r = "TAKER" THEN o ELSE mk[i]
    <2>1. Len(fills) + i \in 1 .. Len(fills') /\ Len(fills) + i \notin 1 .. Len(fills)
      BY <1>1
    <2>2. e \in HalvesMade' /\ e \notin HalvesMade /\ e[1] = Len(fills) + i /\ e[2] = r
      BY <1>2, <2>1 DEF HalvesMade
    <2>3. /\ fills'[Len(fills) + i].taker = o /\ fills'[Len(fills) + i].maker = mk[i]
          /\ fills'[Len(fills) + i].qty = cum[i] - cum[i-1]
      BY DEF Traded
    <2>4. SizeOf'[e] = fills'[e[1]].qty
      BY <2>2 DEF SizeOf
    <2>5. OrderOf(e)' = IF e[2] = "TAKER" THEN fills'[e[1]].taker ELSE fills'[e[1]].maker
      BY DEF OrderOf
    <2> QED BY <2>2, <2>3, <2>4, <2>5
  <1>3. ASSUME NEW e \in HalvesMade' \ HalvesMade
        PROVE  \E i \in 1 .. n : \E r \in Roles : e = <<Len(fills) + i, r>>
    <2>1. e[1] \in 1 .. Len(fills') /\ e[2] \in Roles /\ e = <<e[1], e[2]>>
      BY DEF HalvesMade
    <2>2. e[1] \notin 1 .. Len(fills)
      BY <2>1 DEF HalvesMade
    <2>3. e[1] - Len(fills) \in 1 .. n /\ e[1] = Len(fills) + (e[1] - Len(fills))
      BY <1>1, <2>1, <2>2
    <2> QED BY <2>1, <2>3
  <1> QED BY <1>2, <1>3 DEF NewHalvesAre

\* What the order has executed is what the plan says: the sizes of its fills add
\* up to it, one after the other.
LEMMA TakerExecuted ==
    ASSUME MarketTypeOK, MarketTypeOK', NEW o \in Orders, NEW n, NEW mk, NEW cum,
           MetMakers(o, n, mk, cum), Traded(o, n, mk, cum), HalvesOf(o) = {}
    PROVE  Executed(o)' = cum[n]
  <1> DEFINE L == Len(fills)
             T(k) == {<<L + j, "TAKER">> : j \in 1 .. k}
             M == {k \in Nat : k <= n => SumOver(SizeOf', T(k)) = cum[k]}
  <1>1. n \in Nat /\ L \in Nat /\ cum[0] = 0 /\ \A k \in 0 .. n : cum[k] \in Nat
    BY DEF MetMakers, MarketTypeOK
  <1>2. "TAKER" \in Roles /\ "MAKER" \in Roles /\ "MAKER" # "TAKER" /\ Roles = {"TAKER", "MAKER"}
    BY DEF Roles
  <1>n. NewHalvesAre(o, n, mk, cum)
    BY NewHalves
  <1>k. \A e \in HalvesMade : OrderOf(e)' = OrderOf(e)
    <2>1. Len(fills) <= Len(fills') /\ \A k \in 1 .. Len(fills) : fills'[k] = fills[k]
      BY <1>1 DEF Traded
    <2> QED BY <2>1, SumsKept
  <1>3. HalvesOf(o)' = T(n)
    <2>1. ASSUME NEW e \in HalvesMade'
          PROVE  OrderOf(e)' = o <=> e \in T(n)
      <3>1. CASE e \in HalvesMade
        <4>1. OrderOf(e)' = OrderOf(e)
          BY <1>k, <3>1
        <4>2. OrderOf(e) # o
          BY <3>1 DEF HalvesOf
        <4>3. e \notin T(n)
          BY <1>2, <3>1, <1>n DEF NewHalvesAre
        <4> QED BY <4>1, <4>2, <4>3
      <3>2. CASE e \notin HalvesMade
        <4>1. PICK i \in 1 .. n, r \in Roles : e = <<L + i, r>>
          BY <3>2, <1>n DEF NewHalvesAre
        <4>2. OrderOf(e)' = IF r = "TAKER" THEN o ELSE mk[i]
          BY <4>1, <1>n DEF NewHalvesAre
        <4>3. mk[i] # o
          BY DEF MetMakers
        <4>4. e \in T(n) <=> r = "TAKER"
          BY <4>1
        <4> QED BY <4>2, <4>3, <4>4
      <3> QED BY <3>1, <3>2
    <2>2. T(n) \subseteq HalvesMade'
      BY <1>2, <1>n DEF NewHalvesAre
    <2> QED BY <2>1, <2>2 DEF HalvesOf
  <1>4. 0 \in M
    <2>1. T(0) = {}
      OBVIOUS
    <2> QED BY <1>1, <2>1, SumEmpty
  <1>5. ASSUME NEW k \in M
        PROVE  k + 1 \in M
    <2> SUFFICES ASSUME k + 1 <= n
                 PROVE  SumOver(SizeOf', T(k + 1)) = cum[k + 1]
      OBVIOUS
    <2>1. k \in Nat /\ k <= n /\ k + 1 \in 1 .. n /\ k \in 0 .. n /\ k + 1 \in 0 .. n
      BY <1>1
    <2>2. SumOver(SizeOf', T(k)) = cum[k]
      BY <2>1
    <2> DEFINE x == <<L + (k + 1), "TAKER">>
    <2>3. T(k + 1) = T(k) \cup {x} /\ x \notin T(k)
      <3>1. 1 .. k + 1 = (1 .. k) \cup {k + 1}
        BY <2>1
      <3>2. T(k + 1) = T(k) \cup {x}
        BY <3>1
      <3>3. \A j \in 1 .. k : L + j # L + (k + 1)
        BY <1>1, <2>1
      <3> QED BY <3>2, <3>3
    <2>4. SizeOf'[x] = cum[k + 1] - cum[k]
      <3>1. SizeOf'[x] = cum[k + 1] - cum[(k + 1) - 1]
        BY <1>2, <2>1, <1>n DEF NewHalvesAre
      <3> QED BY <2>1, <3>1
    <2>5. IsFiniteSet(T(k)) /\ \A e \in T(k) : SizeOf'[e] \in Int
      <3>1. T(k) \in SUBSET HalvesMade'
        <4>1. \A j \in 1 .. k : j \in 1 .. n
          BY <1>1, <2>1
        <4> QED BY <1>2, <4>1, <1>n DEF NewHalvesAre
      <3>2. /\ \A U \in SUBSET HalvesMade' : IsFiniteSet(U)
            /\ \A e \in HalvesMade' : SizeOf'[e] \in Nat \ {0}
        BY HalvesFinitePrime DEF HalvesAreHalves
      <3> QED BY <3>1, <3>2
    <2>6. cum[k] \in Int /\ cum[k + 1] \in Int
      BY <1>1, <2>1
    <2> HIDE DEF x, T
    <2>7. SumOver(SizeOf', T(k) \cup {x}) = SumOver(SizeOf', T(k)) + SizeOf'[x]
      BY <2>3, <2>4, <2>5, <2>6, SumAdd
    <2>8. SumOver(SizeOf', T(k + 1)) = SumOver(SizeOf', T(k)) + SizeOf'[x]
      BY <2>3, <2>7
    <2>9. SumOver(SizeOf', T(k + 1)) = cum[k] + (cum[k + 1] - cum[k])
      BY <2>2, <2>4, <2>8
    <2> QED BY <2>6, <2>9
  <1> HIDE DEF T
  <1>6. M = Nat
    <2>1. M \in SUBSET Nat
      OBVIOUS
    <2> HIDE DEF M
    <2> QED BY <1>4, <1>5, <2>1, Induct
  <1> QED BY <1>1, <1>3, <1>6 DEF Executed

\* A maker has executed what it had, and what the taker took of it; and an order
\* that was not met has executed what it had.
LEMMA MakerExecuted ==
    ASSUME MarketTypeOK, MarketTypeOK', NEW o \in Orders, NEW n, NEW mk, NEW cum,
           MetMakers(o, n, mk, cum), Traded(o, n, mk, cum), NEW m \in Orders \ {o}
    PROVE  /\ \A i \in 1 .. n : mk[i] = m => Executed(m)' = Executed(m) + (cum[i] - cum[i-1])
           /\ (\A i \in 1 .. n : mk[i] # m) =>
                Executed(m)' = Executed(m) /\ HalvesOf(m)' = HalvesOf(m)
  <1>1. NewHalvesAre(o, n, mk, cum)
    BY NewHalves
  <1>2. /\ HalvesMade \subseteq HalvesMade'
        /\ \A e \in HalvesMade : OrderOf(e)' = OrderOf(e)
        /\ \A T \in SUBSET HalvesMade : SumOver(SizeOf', T) = SumOver(SizeOf, T)
    <2>1. Len(fills) <= Len(fills') /\ \A k \in 1 .. Len(fills) : fills'[k] = fills[k]
      BY DEF Traded, MetMakers, MarketTypeOK
    <2> QED BY <2>1, SumsKept
  <1>3. "TAKER" \in Roles /\ "MAKER" \in Roles /\ Roles = {"TAKER", "MAKER"}
    BY DEF Roles
  <1>4. HalvesOf(m) \subseteq HalvesOf(m)' /\ HalvesOf(m) \in SUBSET HalvesMade
    BY <1>2 DEF HalvesOf
  <1>5. ASSUME NEW e \in HalvesOf(m)', e \notin HalvesOf(m)
        PROVE  \E i \in 1 .. n : mk[i] = m /\ e = <<Len(fills) + i, "MAKER">>
    <2>1. e \in HalvesMade' /\ OrderOf(e)' = m
      BY <1>5 DEF HalvesOf
    <2>2. e \notin HalvesMade
      BY <1>2, <1>5, <2>1 DEF HalvesOf
    <2>3. PICK i \in 1 .. n, r \in Roles : e = <<Len(fills) + i, r>>
      BY <1>1, <2>1, <2>2 DEF NewHalvesAre
    <2>4. OrderOf(e)' = IF r = "TAKER" THEN o ELSE mk[i]
      BY <1>1, <2>3 DEF NewHalvesAre
    <2> QED BY <1>3, <2>1, <2>3, <2>4
  <1>6. SumOver(SizeOf', HalvesOf(m)) = Executed(m) /\ Executed(m) \in Nat
    BY <1>2, <1>4, ExecutedType DEF Executed
  <1>7. ASSUME \A i \in 1 .. n : mk[i] # m
        PROVE  Executed(m)' = Executed(m) /\ HalvesOf(m)' = HalvesOf(m)
    <2>1. HalvesOf(m)' = HalvesOf(m)
      BY <1>4, <1>5, <1>7
    <2>2. Executed(m)' = SumOver(SizeOf', HalvesOf(m)')
      BY DEF Executed
    <2> QED BY <1>6, <2>1, <2>2
  <1>8. ASSUME NEW i \in 1 .. n, mk[i] = m
        PROVE  Executed(m)' = Executed(m) + (cum[i] - cum[i-1])
    <2>1. PICK x : x = <<Len(fills) + i, "MAKER">>
      OBVIOUS
    <2>2. /\ x \in HalvesMade' /\ x \notin HalvesMade /\ OrderOf(x)' = m
          /\ SizeOf'[x] = cum[i] - cum[i-1]
      BY <1>1, <1>3, <1>8, <2>1 DEF NewHalvesAre
    <2>3. HalvesOf(m)' = HalvesOf(m) \cup {x} /\ x \notin HalvesOf(m)
      <3>1. x \in HalvesOf(m)' /\ x \notin HalvesOf(m)
        BY <1>4, <2>2 DEF HalvesOf
      <3>2. \A e \in HalvesOf(m)' : e \notin HalvesOf(m) => e = x
        <4>1. \A j \in 1 .. n : mk[j] = m => j = i
          BY <1>8 DEF MetMakers
        <4> QED BY <1>5, <2>1, <4>1
      <3> QED BY <1>4, <3>1, <3>2
    <2>4. IsFiniteSet(HalvesOf(m)) /\ \A e \in HalvesOf(m) \cup {x} : SizeOf'[e] \in Int
      <3>1. /\ IsFiniteSet(HalvesOf(m))
            /\ \A e \in HalvesMade' : SizeOf'[e] \in Nat \ {0}
        BY <1>4, HalvesFinite, HalvesFinitePrime DEF HalvesAreHalves
      <3> QED BY <1>2, <1>4, <2>2, <3>1
    <2>5. SumOver(SizeOf', HalvesOf(m) \cup {x}) = SumOver(SizeOf', HalvesOf(m)) + SizeOf'[x]
      BY <2>3, <2>4, SumAdd
    <2>6. Executed(m)' = SumOver(SizeOf', HalvesOf(m)')
      BY DEF Executed
    <2> QED BY <1>6, <2>2, <2>3, <2>5, <2>6
  <1> QED BY <1>7, <1>8

\* Handling an order keeps the history.
LEMMA MatchHistory ==
    ASSUME MarketTypeOK, HistoryOK, NEW o \in Orders, MatchOrder(o), UNCHANGED coreVars
    PROVE  HistoryOK'
  <1> USE DEF HistoryOK
  <1>1. MarketTypeOK'
    BY MatchOrderType
  <1>2. /\ ~Met(o) /\ \A q : Met(q)' <=> Met(q) \/ q = o
        /\ inbound' = inbound /\ req' = req
    BY HandledOnce
  <1>3. PICK n, mk, cum :
          MetMakers(o, n, mk, cum) /\ Traded(o, n, mk, cum) /\ Announced(o, n, mk, cum)
    BY OrderHandled
  <1>4. /\ n \in Nat /\ \A i \in 1 .. n : mk[i] \in Orders \ {o}
        /\ cum[n] \in Nat
        /\ \A i \in 1 .. n : /\ req[o].side # req[mk[i]].side
                             /\ cum[i] - cum[i-1] \in Nat \ {0}
                             /\ cum[i] - cum[i-1] <= open[mk[i]]
                             /\ open[mk[i]] \in Nat
    BY <1>3 DEF MetMakers, MarketTypeOK
  <1>5. /\ Len(fills) \in Nat /\ Len(fills') = Len(fills) + n
        /\ \A k \in 1 .. Len(fills) : fills'[k] = fills[k]
    BY <1>3 DEF Traded, MarketTypeOK
  <1>6. /\ open'[o] \in Nat /\ open'[o] + cum[n] <= req[o].qty
        /\ \A i \in 1 .. n : open'[mk[i]] = open[mk[i]] - (cum[i] - cum[i-1])
        /\ \A m \in Orders \ {o} : (\A i \in 1 .. n : mk[i] # m) => open'[m] = open[m]
        /\ Fate(o, cum[n]) # "RESTED" => open'[o] = 0
    BY <1>3 DEF Traded
  <1>7. HalvesOf(o) = {} /\ \A i \in 1 .. n : Met(mk[i]) /\ open[mk[i]] # 0
    BY <1>2, <1>4 DEF FillsOK
  <1>8. Onward
    <2>1. \A q \in Orders : Met(q) /\ open[q] = 0 => open'[q] = 0
      BY <1>2, <1>6, <1>7
    <2> QED BY <1>2, <1>4, <1>5, <2>1 DEF Onward
  <1>9. LogOK'
    BY <1>2 DEF LogOK, OrderRecord
  <1>10. FillsOK'
    <2>1. ASSUME NEW k \in 1 .. Len(fills')
          PROVE  req[fills'[k].taker].side # req[fills'[k].maker].side
      <3>1. CASE k \in 1 .. Len(fills)
        BY <1>5, <3>1 DEF FillsOK
      <3>2. CASE k \notin 1 .. Len(fills)
        <4>1. k - Len(fills) \in 1 .. n /\ k = Len(fills) + (k - Len(fills))
          BY <1>4, <1>5, <3>2
        <4>2. fills'[k].taker = o /\ fills'[k].maker = mk[k - Len(fills)]
          BY <1>3, <4>1 DEF Traded
        <4> QED BY <1>4, <4>1, <4>2
      <3> QED BY <3>1, <3>2
    <2>2. ASSUME NEW q \in Orders
          PROVE  /\ Executed(q)' + open'[q] <= req[q].qty
                 /\ ~Met(q)' => open'[q] = 0 /\ HalvesOf(q)' = {}
      <3>1. CASE q = o
        <4>1. Executed(o)' = cum[n]
          BY <1>1, <1>3, <1>7, TakerExecuted
        <4>2. req[o].qty \in Nat
          BY RequestType DEF MarketTypeOK
        <4> QED BY <1>2, <1>4, <1>6, <3>1, <4>1, <4>2
      <3>2. CASE q # o /\ \E i \in 1 .. n : mk[i] = q
        <4>1. PICK i \in 1 .. n : mk[i] = q
          BY <3>2
        <4>2. Executed(q)' = Executed(q) + (cum[i] - cum[i-1])
          BY <1>1, <1>3, <3>2, <4>1, MakerExecuted
        <4>3. open'[q] = open[q] - (cum[i] - cum[i-1]) /\ Met(q)'
          BY <1>2, <1>6, <1>7, <4>1
        <4>4. /\ Executed(q) \in Nat /\ req[q].qty \in Nat /\ open[q] \in Nat
              /\ Executed(q) + open[q] <= req[q].qty
              /\ cum[i] - cum[i-1] \in Nat
          BY <1>4, ExecutedType, RequestType DEF FillsOK, MarketTypeOK
        <4>5. Executed(q)' + open'[q] = Executed(q) + open[q]
          BY <4>2, <4>3, <4>4
        <4> QED BY <4>3, <4>4, <4>5
      <3>3. CASE q # o /\ \A i \in 1 .. n : mk[i] # q
        <4>1. Executed(q)' = Executed(q) /\ HalvesOf(q)' = HalvesOf(q)
          BY <1>1, <1>3, <3>3, MakerExecuted
        <4>2. open'[q] = open[q] /\ (Met(q)' <=> Met(q))
          BY <1>2, <1>6, <3>3
        <4> QED BY <4>1, <4>2 DEF FillsOK
      <3> QED BY <3>1, <3>2, <3>3
    <2> QED BY <1>2, <2>1, <2>2 DEF FillsOK
  <1>11. OutcomesOK'
    <2>1. ASSUME NEW i \in 1 .. Len(outcomes'), NEW r, r = outcomes'[i]
          PROVE  /\ r.type = "HALF" => r.order = OrderOf(Event(r))'
                 /\ Met(r.order)'
                 /\ Closes(r) => open'[r.order] = 0
      <3>1. CASE i \in 1 .. Len(outcomes)
        <4>1. outcomes'[i] = outcomes[i]
          BY <1>3, <3>1 DEF Announced
        <4> QED BY <1>1, <1>8, <2>1, <3>1, <4>1, OutcomeKept
      <3>2. CASE i \in Len(outcomes) + 1 .. Len(outcomes')
        <4>n. NewHalvesAre(o, n, mk, cum)
          BY <1>1, <1>3, NewHalves
        <4>r. "TAKER" \in Roles /\ "MAKER" \in Roles
          BY DEF Roles
        <4>1. CASE \E k \in 1 .. n : r = Half(o, Len(fills) + k, "TAKER")
          <5>1. PICK k \in 1 .. n : r = Half(o, Len(fills) + k, "TAKER")
            BY <4>1
          <5>2. PICK e : e = <<Len(fills) + k, "TAKER">>
            OBVIOUS
          <5>3. OrderOf(e)' = o
            BY <4>n, <4>r, <5>2 DEF NewHalvesAre
          <5>4. Event(r) = e /\ r.order = o /\ r.type = "HALF"
            BY <5>1, <5>2 DEF Half, Event
          <5>5. OrderOf(Event(r))' = OrderOf(e)'
            BY <5>4 DEF OrderOf, Event
          <5> QED BY <1>2, <5>3, <5>4, <5>5 DEF Closes
        <4>2. CASE \E k \in 1 .. n : r = Half(mk[k], Len(fills) + k, "MAKER")
          <5>1. PICK k \in 1 .. n : r = Half(mk[k], Len(fills) + k, "MAKER")
            BY <4>2
          <5>2. PICK e : e = <<Len(fills) + k, "MAKER">>
            OBVIOUS
          <5>3. OrderOf(e)' = mk[k]
            BY <4>n, <4>r, <5>2 DEF NewHalvesAre
          <5>4. Event(r) = e /\ r.order = mk[k] /\ r.type = "HALF"
            BY <5>1, <5>2 DEF Half, Event
          <5>5. OrderOf(Event(r))' = OrderOf(e)'
            BY <5>4 DEF OrderOf, Event
          <5> QED BY <1>2, <1>7, <5>3, <5>4, <5>5 DEF Closes
        <4>3. CASE r = Disposition(o, Fate(o, cum[n]))
          BY <1>2, <1>6, <4>3 DEF Disposition, Closes
        <4> QED BY <1>3, <2>1, <3>2, <4>1, <4>2, <4>3 DEF Announced
      <3>3. Len(outcomes) \in Nat
        BY DEF MarketTypeOK
      <3> QED BY <3>1, <3>2, <3>3
    <2> QED BY <2>1 DEF OutcomesOK, Event, Closes
  <1> QED BY <1>1, <1>8, <1>9, <1>10, <1>11, SettledKept

-----------------------------------------------------------------------------
(* The accounts keep the history.                                            *)

\* What the history is about.
historyVars == <<req, inbound, taken, open, fills, outcomes, status, filled, notional, applied>>

\* What hangs on the executions and the ledger alone.
LEMMA HalvesSame ==
    ASSUME fills' = fills
    PROVE  /\ HalvesMade' = HalvesMade /\ SizeOf' = SizeOf /\ WorthOf' = WorthOf
           /\ \A e : OrderOf(e)' = OrderOf(e)
           /\ \A o : HalvesOf(o)' = HalvesOf(o) /\ Executed(o)' = Executed(o)
           /\ applied' = applied => \A o : SettledHalves(o)' = SettledHalves(o)
  <1>1. /\ HalvesMade' = HalvesMade /\ SizeOf' = SizeOf /\ WorthOf' = WorthOf
        /\ \A e : OrderOf(e)' = OrderOf(e)
    BY DEF HalvesMade, SizeOf, WorthOf, OrderOf
  <1>2. \A o : HalvesOf(o)' = HalvesOf(o)
    BY <1>1 DEF HalvesOf
  <1>3. \A o : Executed(o)' = Executed(o)
    BY <1>1, <1>2 DEF Executed
  <1>4. applied' = applied => \A o : SettledHalves(o)' = SettledHalves(o)
    BY <1>1 DEF SettledHalves
  <1> QED BY <1>1, <1>2, <1>3, <1>4

\* Totals and ledger are as they were, and a status says what it should.
LEMMA SettledSame ==
    ASSUME SettledOK, UNCHANGED <<fills, filled, notional, applied>>,
           \A o \in Orders : status'[o] \in {"NONE", "REJECTED"} <=> ~Placed(o)',
           \A o \in Orders : status'[o] \in {"FILLED", "CANCELLED"} => Met(o)' /\ open'[o] = 0
    PROVE  SettledOK'
  <1>1. /\ HalvesMade' = HalvesMade /\ SizeOf' = SizeOf /\ WorthOf' = WorthOf
        /\ \A o : SettledHalves(o)' = SettledHalves(o)
    BY HalvesSame
  <1> QED BY <1>1 DEF SettledOK

\* The shard has done nothing.
LEMMA MarketSame ==
    ASSUME FillsOK, OutcomesOK, UNCHANGED <<req, fills, open, outcomes>>,
           \A q : Met(q)' <=> Met(q)
    PROVE  FillsOK' /\ OutcomesOK'
  <1>1. \A q : HalvesOf(q)' = HalvesOf(q) /\ Executed(q)' = Executed(q)
    BY HalvesSame
  <1>2. FillsOK'
    BY <1>1 DEF FillsOK
  <1>3. OutcomesOK'
    BY DEF OutcomesOK, Event, Closes, OrderOf
  <1> QED BY <1>2, <1>3

\* Nothing the history is about has changed.
LEMMA HistorySame ==
    ASSUME HistoryOK, UNCHANGED historyVars
    PROVE  HistoryOK'
  <1> USE DEF historyVars, HistoryOK
  <1>1. LogOK'
    BY DEF LogOK, OrderRecord
  <1>2. \A q : (Placed(q)' <=> Placed(q)) /\ (Met(q)' <=> Met(q))
    BY DEF Placed, Met, OrderRecord
  <1>3. FillsOK' /\ OutcomesOK'
    BY <1>2, MarketSame
  <1>4. SettledOK'
    <2>1. \A o \in Orders : status'[o] \in {"NONE", "REJECTED"} <=> ~Placed(o)'
      BY <1>2 DEF SettledOK
    <2>2. \A o \in Orders : status'[o] \in {"FILLED", "CANCELLED"} => Met(o)' /\ open'[o] = 0
      BY <1>2 DEF SettledOK
    <2> QED BY <2>1, <2>2, SettledSame
  <1> QED BY <1>1, <1>3, <1>4

\* A record that is appended to the log is one the shard has not met.
LEMMA LogGrows ==
    ASSUME MarketTypeOK, NEW r \in [type : {"ORDER", "CANCEL"}, order : Orders],
           inbound' = Append(inbound, r),
           UNCHANGED <<req, taken, open, fills, outcomes>>
    PROVE  /\ Len(inbound) \in Nat /\ Len(inbound') = Len(inbound) + 1
           /\ inbound'[Len(inbound) + 1] = r
           /\ \A i \in 1 .. Len(inbound) : inbound'[i] = inbound[i]
           /\ \A q : Met(q)' <=> Met(q)
           /\ \A q : Placed(q)' <=> Placed(q) \/ r = OrderRecord(q)
           /\ FillsOK /\ OutcomesOK => FillsOK' /\ OutcomesOK'
  <1>1. /\ Len(inbound) \in Nat /\ Len(inbound') = Len(inbound) + 1
        /\ inbound'[Len(inbound) + 1] = r
        /\ \A i \in 1 .. Len(inbound) : inbound'[i] = inbound[i]
        /\ taken \in 0 .. Len(inbound)
    BY DEF MarketTypeOK
  <1>2. ASSUME NEW q PROVE Met(q)' <=> Met(q)
    <2>1. \A i \in 1 .. taken : i \in 1 .. Len(inbound)
      BY <1>1
    <2> QED BY <1>1, <2>1 DEF Met, OrderRecord
  <1>3. ASSUME NEW q PROVE Placed(q)' <=> Placed(q) \/ r = OrderRecord(q)
    <2>1. 1 .. Len(inbound') = (1 .. Len(inbound)) \cup {Len(inbound) + 1}
      BY <1>1
    <2> QED BY <1>1, <2>1 DEF Placed, OrderRecord
  <1>4. FillsOK /\ OutcomesOK => FillsOK' /\ OutcomesOK'
    BY <1>2, MarketSame
  <1> QED BY <1>1, <1>2, <1>3, <1>4

\* The shard meets only what is in the log.
LEMMA MetIsPlaced ==
    ASSUME MarketTypeOK, NEW o, Met(o)
    PROVE  Placed(o)
  BY DEF Met, Placed, MarketTypeOK

\* Accepting an order enqueues it, the once; refusing it does not.
LEMMA SubmitHistory ==
    ASSUME IInv, HistoryOK, NEW o \in Orders, Submit(o)
    PROVE  HistoryOK'
  <1> USE DEF HistoryOK
  <1>1. /\ status[o] = "NONE" /\ ~Placed(o)
        /\ UNCHANGED <<req, taken, open, fills, outcomes, filled, notional, applied>>
    BY DEF Submit, SettledOK, ledgerVars
  <1>2. ~Met(o)
    BY <1>1, MetIsPlaced DEF IInv
  <1>3. CASE inbound' = inbound
    <2>1. status' = [status EXCEPT ![o] = "REJECTED"] /\ status \in [Orders -> Statuses]
      <3>1. inbound # Append(inbound, [type |-> "ORDER", order |-> o])
        <4>1. Len(inbound) \in Nat /\ Len(Append(inbound, [type |-> "ORDER", order |-> o])) = Len(inbound) + 1
          BY DEF IInv, MarketTypeOK
        <4> QED BY <4>1
      <3> QED BY <1>3, <3>1 DEF Submit, IInv, CoreTypeOK
    <2>2. LogOK'
      BY <1>3 DEF LogOK, OrderRecord
    <2>3. \A q : (Placed(q)' <=> Placed(q)) /\ (Met(q)' <=> Met(q))
      BY <1>1, <1>3 DEF Placed, Met, OrderRecord
    <2>4. FillsOK' /\ OutcomesOK'
      BY <1>1, <2>3, MarketSame
    <2>5. SettledOK'
      <3>1. \A q \in Orders : status'[q] \in {"NONE", "REJECTED"} <=> ~Placed(q)'
        BY <1>1, <2>1, <2>3 DEF SettledOK
      <3>2. \A q \in Orders : status'[q] \in {"FILLED", "CANCELLED"} => Met(q)' /\ open'[q] = 0
        BY <1>1, <2>1, <2>3 DEF SettledOK
      <3> QED BY <1>1, <3>1, <3>2, SettledSame
    <2> QED BY <2>2, <2>4, <2>5
  <1>4. CASE inbound' # inbound
    <2>1. /\ inbound' = Append(inbound, OrderRecord(o))
          /\ status' = [status EXCEPT ![o] = "ACCEPTED"] /\ status \in [Orders -> Statuses]
      BY <1>4 DEF Submit, OrderRecord, IInv, CoreTypeOK
    <2>2. OrderRecord(o) \in [type : {"ORDER", "CANCEL"}, order : Orders]
      BY DEF OrderRecord
    <2>3. /\ Len(inbound) \in Nat /\ Len(inbound') = Len(inbound) + 1
          /\ inbound'[Len(inbound) + 1] = OrderRecord(o)
          /\ \A i \in 1 .. Len(inbound) : inbound'[i] = inbound[i]
          /\ \A q : Met(q)' <=> Met(q)
          /\ \A q : Placed(q)' <=> Placed(q) \/ OrderRecord(o) = OrderRecord(q)
          /\ FillsOK' /\ OutcomesOK'
      BY <1>1, <2>1, <2>2, LogGrows DEF IInv
    <2>4. LogOK'
      <3>1. \A i \in 1 .. Len(inbound) : inbound[i] # OrderRecord(o)
        BY <1>1 DEF Placed
      <3>2. \A i, j \in 1 .. Len(inbound') :
              inbound'[i] = inbound'[j] /\ inbound'[i].type = "ORDER" => i = j
        <4>1. \A i \in 1 .. Len(inbound') : i \in 1 .. Len(inbound) \/ i = Len(inbound) + 1
          BY <2>3
        <4> QED BY <2>3, <3>1, <4>1 DEF LogOK
      <3>3. ASSUME NEW j \in 1 .. Len(inbound'), inbound'[j].type = "CANCEL"
            PROVE  \E i \in 1 .. j - 1 : inbound'[i] = OrderRecord(inbound'[j].order)
        <4>1. j # Len(inbound) + 1
          BY <2>3, <3>3 DEF OrderRecord
        <4>2. j \in 1 .. Len(inbound) /\ inbound'[j] = inbound[j]
          BY <2>3, <4>1
        <4>3. PICK i \in 1 .. j - 1 : inbound[i] = OrderRecord(inbound[j].order)
          BY <3>3, <4>2 DEF LogOK
        <4>4. i \in 1 .. Len(inbound)
          BY <2>3, <4>2
        <4> QED BY <2>3, <4>2, <4>3, <4>4
      <3> QED BY <3>2, <3>3 DEF LogOK, OrderRecord
    <2>5. \A q : Placed(q)' <=> Placed(q) \/ q = o
      BY <2>3 DEF OrderRecord
    <2>6. SettledOK'
      <3>1. \A q \in Orders : status'[q] \in {"NONE", "REJECTED"} <=> ~Placed(q)'
        BY <1>1, <2>1, <2>5 DEF SettledOK
      <3>2. \A q \in Orders : status'[q] \in {"FILLED", "CANCELLED"} => Met(q)' /\ open'[q] = 0
        BY <1>1, <2>1, <2>3 DEF SettledOK
      <3> QED BY <1>1, <3>1, <3>2, SettledSame
    <2> QED BY <2>3, <2>4, <2>6
  <1> QED BY <1>3, <1>4

\* A cancel is enqueued for an order that is.
LEMMA RequestCancelHistory ==
    ASSUME IInv, HistoryOK, NEW o \in Orders, RequestCancel(o)
    PROVE  HistoryOK'
  <1> USE DEF HistoryOK
  <1> DEFINE r == [type |-> "CANCEL", order |-> o]
  <1>1. /\ status[o] \notin {"NONE", "REJECTED"} /\ status \in [Orders -> Statuses]
        /\ inbound' = Append(inbound, r)
        /\ status' = [status EXCEPT ![o] = "PENDING_CANCEL"]
        /\ UNCHANGED <<req, taken, open, fills, outcomes, filled, notional, applied>>
    BY DEF RequestCancel, Live, ledgerVars, IInv, CoreTypeOK
  <1>2. Placed(o)
    BY <1>1 DEF SettledOK
  <1>3. r \in [type : {"ORDER", "CANCEL"}, order : Orders] /\ \A q : r # OrderRecord(q)
    BY DEF OrderRecord
  <1>r. r.type = "CANCEL" /\ r.order = o
    OBVIOUS
  <1> HIDE DEF r
  <1>4. /\ Len(inbound) \in Nat /\ Len(inbound') = Len(inbound) + 1
        /\ inbound'[Len(inbound) + 1] = r
        /\ \A i \in 1 .. Len(inbound) : inbound'[i] = inbound[i]
        /\ \A q : Met(q)' <=> Met(q)
        /\ \A q : Placed(q)' <=> Placed(q)
        /\ FillsOK' /\ OutcomesOK'
    BY <1>1, <1>3, LogGrows DEF IInv
  <1>5. LogOK'
    <2>1. \A i \in 1 .. Len(inbound') : i \in 1 .. Len(inbound) \/ i = Len(inbound) + 1
      BY <1>4
    <2>2. \A i, j \in 1 .. Len(inbound') :
            inbound'[i] = inbound'[j] /\ inbound'[i].type = "ORDER" => i = j
      BY <1>4, <1>r, <2>1 DEF LogOK
    <2>3. ASSUME NEW j \in 1 .. Len(inbound'), inbound'[j].type = "CANCEL"
          PROVE  \E i \in 1 .. j - 1 : inbound'[i] = OrderRecord(inbound'[j].order)
      <3>1. CASE j = Len(inbound) + 1
        <4>1. PICK i \in 1 .. Len(inbound) : inbound[i] = OrderRecord(o)
          BY <1>2 DEF Placed
        <4>2. i \in 1 .. j - 1
          BY <1>4, <3>1
        <4> QED BY <1>4, <1>r, <3>1, <4>1, <4>2
      <3>2. CASE j \in 1 .. Len(inbound)
        <4>1. PICK i \in 1 .. j - 1 : inbound[i] = OrderRecord(inbound[j].order)
          BY <1>4, <2>3, <3>2 DEF LogOK
        <4>2. i \in 1 .. Len(inbound)
          BY <1>4, <3>2
        <4> QED BY <1>4, <3>2, <4>1, <4>2
      <3> QED BY <2>1, <3>1, <3>2
    <2> QED BY <2>2, <2>3 DEF LogOK, OrderRecord
  <1>6. SettledOK'
    <2>1. \A q \in Orders : status'[q] \in {"NONE", "REJECTED"} <=> ~Placed(q)'
      BY <1>1, <1>2, <1>4 DEF SettledOK
    <2>2. \A q \in Orders : status'[q] \in {"FILLED", "CANCELLED"} => Met(q)' /\ open'[q] = 0
      BY <1>1, <1>4 DEF SettledOK
    <2> QED BY <1>1, <2>1, <2>2, SettledSame
  <1> QED BY <1>4, <1>5, <1>6

\* A half settles once and adds what it is to the totals of its order, which is
\* filled only when nothing of it can be resting.
LEMMA SettleHistory ==
    ASSUME IInv, HistoryOK, NEW i \in 1 .. Len(outcomes), NEW h, h = outcomes[i],
           SettleHalf(h), UNCHANGED marketVars
    PROVE  SettledOK'
  <1> USE DEF HistoryOK
  <1> DEFINE o == h.order
             e == Event(h)
  <1>1. /\ h \in OutcomeRecord /\ o \in Orders /\ h.type = "HALF"
        /\ h.fill \in 1 .. Len(fills) /\ e[1] = h.fill
    BY NextRecord DEF SettleHalf, Event
  <1>2. e \in HalvesMade /\ OrderOf(e) = o /\ Met(o) /\ Placed(o)
    BY <1>1, EventMade, MetIsPlaced DEF IInv, OutcomesOK
  <1>3. /\ SizeOf[e] = HalfQty(h) /\ WorthOf[e] = HalfNotional(h)
        /\ SizeOf[e] \in Nat \ {0} /\ WorthOf[e] \in Nat
    BY <1>1, <1>2, HalvesFinite DEF HalvesAreHalves, HalfQty, HalfNotional, IInv
  <1>4. /\ e \notin applied /\ applied' = applied \cup {e}
        /\ filled' = [filled EXCEPT ![o] = filled[o] + HalfQty(h)]
        /\ notional' = [notional EXCEPT ![o] = notional[o] + HalfNotional(h)]
        /\ status' = [status EXCEPT ![o] =
                         IF filled[o] + HalfQty(h) >= req[o].qty THEN "FILLED"
                         ELSE IF @ = "PENDING_CANCEL" THEN @ ELSE "PARTIALLY_FILLED"]
    BY DEF SettleHalf, Applied
  <1>5. /\ req' = req /\ inbound' = inbound /\ taken' = taken /\ open' = open /\ fills' = fills
        /\ status \in [Orders -> Statuses] /\ filled \in [Orders -> Nat]
        /\ notional \in [Orders -> Nat] /\ open[o] \in Nat /\ req[o].qty \in Nat
    BY <1>1, RequestType DEF marketVars, IInv, CoreTypeOK, MarketTypeOK
  <1>6. /\ HalvesMade' = HalvesMade /\ SizeOf' = SizeOf /\ WorthOf' = WorthOf
        /\ \A d : OrderOf(d)' = OrderOf(d)
        /\ \A q : (Placed(q)' <=> Placed(q)) /\ (Met(q)' <=> Met(q))
    BY <1>5 DEF HalvesMade, SizeOf, WorthOf, OrderOf, Placed, Met, OrderRecord
  <1>7. /\ SettledHalves(o)' = SettledHalves(o) \cup {e} /\ e \notin SettledHalves(o)
        /\ SettledHalves(o) \in SUBSET HalvesMade
        /\ \A q : q # o => SettledHalves(q)' = SettledHalves(q)
    BY <1>2, <1>4, <1>6 DEF SettledHalves, SettledOK
  <1>8. /\ IsFiniteSet(SettledHalves(o))
        /\ \A d \in SettledHalves(o) : SizeOf[d] \in Int /\ WorthOf[d] \in Int
    BY <1>7, HalvesFinite DEF HalvesAreHalves, IInv
  <1> HIDE DEF e, o
  <1>9. /\ SumOver(SizeOf, SettledHalves(o) \cup {e}) = SumOver(SizeOf, SettledHalves(o)) + SizeOf[e]
        /\ SumOver(WorthOf, SettledHalves(o) \cup {e}) = SumOver(WorthOf, SettledHalves(o)) + WorthOf[e]
    BY <1>3, <1>7, <1>8, SumAdd
  <1>10. /\ filled[o] = SumOver(SizeOf, SettledHalves(o))
         /\ notional[o] = SumOver(WorthOf, SettledHalves(o))
    BY <1>1 DEF SettledOK, o
  <1>11. \A q \in Orders : /\ filled'[q] = SumOver(SizeOf', SettledHalves(q)')
                           /\ notional'[q] = SumOver(WorthOf', SettledHalves(q)')
    <2> SUFFICES ASSUME NEW q \in Orders
                 PROVE  /\ filled'[q] = SumOver(SizeOf', SettledHalves(q)')
                        /\ notional'[q] = SumOver(WorthOf', SettledHalves(q)')
      OBVIOUS
    <2>1. CASE q = o
      <3>1. filled'[o] = filled[o] + SizeOf[e] /\ notional'[o] = notional[o] + WorthOf[e]
        BY <1>1, <1>3, <1>4, <1>5 DEF o
      <3> QED BY <1>6, <1>7, <1>9, <1>10, <2>1, <3>1
    <2>2. CASE q # o
      <3>1. filled'[q] = filled[q] /\ notional'[q] = notional[q]
        BY <1>4, <1>5, <2>2
      <3> QED BY <1>6, <1>7, <2>2, <3>1 DEF SettledOK
    <2> QED BY <2>1, <2>2
  <1>12. filled[o] + HalfQty(h) >= req[o].qty => open[o] = 0
    <2>1. SettledHalves(o) \cup {e} \in SUBSET HalvesOf(o)
      BY <1>2, <1>7 DEF HalvesOf, SettledHalves
    <2>2. SumOver(SizeOf, SettledHalves(o) \cup {e}) <= Executed(o) /\ Executed(o) \in Nat
      BY <2>1, ExecutedType DEF IInv
    <2>3. filled[o] + HalfQty(h) <= Executed(o) /\ Executed(o) + open[o] <= req[o].qty
      BY <1>1, <1>3, <1>9, <1>10, <2>2 DEF FillsOK, o
    <2>4. filled[o] + HalfQty(h) \in Nat /\ open[o] \in Nat /\ req[o].qty \in Nat
      BY <1>1, <1>3, <1>5 DEF o
    <2> QED BY <2>2, <2>3, <2>4
  <1>13. ASSUME NEW q \in Orders
         PROVE  /\ status'[q] \in {"NONE", "REJECTED"} <=> ~Placed(q)'
                /\ status'[q] \in {"FILLED", "CANCELLED"} => Met(q)' /\ open'[q] = 0
    <2>1. CASE q = o
      <3>1. status'[o] \in {"FILLED", "PENDING_CANCEL", "PARTIALLY_FILLED"}
        BY <1>1, <1>4, <1>5 DEF o
      <3>2. status'[o] = "FILLED" => filled[o] + HalfQty(h) >= req[o].qty
        BY <1>1, <1>4, <1>5 DEF o
      <3> QED BY <1>2, <1>5, <1>6, <1>12, <2>1, <3>1, <3>2
    <2>2. CASE q # o
      BY <1>4, <1>5, <1>6, <2>2 DEF SettledOK
    <2> QED BY <2>1, <2>2
  <1>14. applied' \subseteq HalvesMade'
    BY <1>2, <1>4, <1>6 DEF SettledOK
  <1> QED BY <1>11, <1>13, <1>14 DEF SettledOK

\* An answer makes an order final only when it is out of the book.
LEMMA AnswerHistory ==
    ASSUME IInv, HistoryOK, NEW i \in 1 .. Len(outcomes), NEW h, h = outcomes[i],
           ApplyDisposition(h) \/ ApplyVerdict(h), UNCHANGED marketVars
    PROVE  SettledOK'
  <1> USE DEF HistoryOK
  <1>1. h \in OutcomeRecord /\ h.order \in Orders
    BY NextRecord
  <1>2. Met(h.order) /\ Placed(h.order) /\ (Closes(h) => open[h.order] = 0)
    BY MetIsPlaced DEF IInv, OutcomesOK
  <1>3. status[h.order] \in Live \cup {"FILLED", "CANCELLED"} /\ status \in [Orders -> Statuses]
    BY <1>1, <1>2 DEF SettledOK, IInv, CoreTypeOK, Statuses, Terminal
  <1>4. PICK s : /\ status' = [status EXCEPT ![h.order] = s]
                 /\ s \in Live \cup {"FILLED", "CANCELLED"}
                 /\ \/ s = status[h.order]
                    \/ s \in {"ACCEPTED", "PARTIALLY_FILLED"}
                    \/ Closes(h)
    <2>1. CASE ApplyDisposition(h)
      <3>1. status' = [status EXCEPT ![h.order] = Dispositioned(h.order, h.what)]
        BY <2>1 DEF ApplyDisposition
      <3>2. /\ Dispositioned(h.order, h.what) \in Live \cup {"FILLED", "CANCELLED"}
            /\ \/ Dispositioned(h.order, h.what) = status[h.order]
               \/ Dispositioned(h.order, h.what) \in {"ACCEPTED", "PARTIALLY_FILLED"}
               \/ Closes(h)
        BY <1>3, <2>1 DEF ApplyDisposition, Dispositioned, Closes, Live
      <3> QED BY <3>1, <3>2
    <2>2. CASE ApplyVerdict(h)
      <3>1. status' = [status EXCEPT ![h.order] = CancelSettled(h.order, h.removed)]
        BY <2>2 DEF ApplyVerdict
      <3>2. CancelSettled(h.order, h.removed) \in Live \cup {"FILLED", "CANCELLED"} /\ Closes(h)
        BY <1>3, <2>2 DEF ApplyVerdict, CancelSettled, Closes
      <3> QED BY <3>1, <3>2
    <2> QED BY <2>1, <2>2
  <1>5. UNCHANGED <<req, inbound, taken, open, fills, filled, notional, applied>>
    BY DEF ApplyDisposition, ApplyVerdict, marketVars, ledgerVars
  <1>6. \A q : (Placed(q)' <=> Placed(q)) /\ (Met(q)' <=> Met(q))
    BY <1>5 DEF Placed, Met, OrderRecord
  <1>7. \A q \in Orders : status'[q] \in {"NONE", "REJECTED"} <=> ~Placed(q)'
    BY <1>2, <1>3, <1>4, <1>6 DEF SettledOK, Live
  <1>8. \A q \in Orders : status'[q] \in {"FILLED", "CANCELLED"} => Met(q)' /\ open'[q] = 0
    BY <1>2, <1>3, <1>4, <1>5, <1>6 DEF SettledOK
  <1> QED BY <1>5, <1>7, <1>8, SettledSame

\* A consumed outcome keeps the history.
LEMMA ConsumeHistory ==
    ASSUME IInv, HistoryOK, NEW p \in Partitions, Consume(p)
    PROVE  HistoryOK'
  <1>1. PICK i \in 1 .. Len(outcomes) :
          /\ \/ SettleHalf(outcomes[i])
             \/ SkipDuplicate(outcomes[i])
             \/ ApplyDisposition(outcomes[i])
             \/ ApplyVerdict(outcomes[i])
          /\ UNCHANGED marketVars
    BY DEF Consume
  <1>2. PICK h : h = outcomes[i]
    OBVIOUS
  <1>3. UNCHANGED <<req, inbound, taken, open, fills, outcomes>>
    BY <1>1 DEF marketVars
  <1>4. CASE SkipDuplicate(h)
    <2>1. UNCHANGED historyVars
      BY <1>3, <1>4 DEF SkipDuplicate, orderVars, ledgerVars, historyVars
    <2> QED BY <2>1, HistorySame
  <1>5. CASE ~SkipDuplicate(h)
    <2>1. SettledOK'
      BY <1>1, <1>2, <1>5, SettleHistory, AnswerHistory
    <2>2. LogOK'
      BY <1>3 DEF HistoryOK, LogOK, OrderRecord
    <2>3. \A q : Met(q)' <=> Met(q)
      BY <1>3 DEF Met, OrderRecord
    <2>4. FillsOK' /\ OutcomesOK'
      BY <1>3, <2>3, MarketSame DEF HistoryOK
    <2> QED BY <2>1, <2>2, <2>4 DEF HistoryOK
  <1> QED BY <1>4, <1>5

\* Every step does.
LEMMA StepHistory ==
    ASSUME IInv, HistoryOK, [Next]_vars
    PROVE  HistoryOK'
  <1>1. CASE MarketStep
    BY <1>1, MatchHistory, CancelHistory, RegenerateHistory DEF MarketStep, MarketNext, IInv
  <1>2. CASE \E o \in Orders : Submit(o) \/ RequestCancel(o)
    BY <1>2, SubmitHistory, RequestCancelHistory
  <1>3. CASE \E p \in Partitions : Consume(p)
    BY <1>3, ConsumeHistory
  <1>4. CASE UNCHANGED historyVars
    BY <1>4, HistorySame
  <1>5. \/ MarketStep
        \/ \E o \in Orders : Submit(o) \/ RequestCancel(o)
        \/ \E p \in Partitions : Consume(p)
        \/ UNCHANGED historyVars
    BY DEF Next, Deposit, SeedShares, ConsumeFails, RestartConsumers, PromoteStandby,
           vars, coreVars, orderVars, ledgerVars, marketVars, historyVars
  <1> QED BY <1>1, <1>2, <1>3, <1>4, <1>5

\* Nothing has happened at the start.
LEMMA StartHistory ==
    ASSUME Init
    PROVE  HistoryOK
  <1> USE DEF Init, MarketInit
  <1>1. Len(inbound) = 0 /\ Len(outcomes) = 0 /\ Len(fills) = 0 /\ taken = 0
    OBVIOUS
  <1>2. HalvesMade = {}
    BY <1>1 DEF HalvesMade
  <1>3. \A o : HalvesOf(o) = {} /\ SettledHalves(o) = {} /\ ~Met(o) /\ ~Placed(o)
    BY <1>1, <1>2 DEF HalvesOf, SettledHalves, Met, Placed
  <1>4. \A o \in Orders : Executed(o) = 0 /\ req[o].qty \in Nat
    BY <1>3, SumEmpty, RequestType DEF Executed
  <1>5. LogOK
    BY <1>1 DEF LogOK
  <1>6. FillsOK
    BY <1>1, <1>3, <1>4 DEF FillsOK
  <1>7. OutcomesOK
    BY <1>1 DEF OutcomesOK
  <1>8. SettledOK
    <2>1. \A o \in Orders : /\ filled[o] = SumOver(SizeOf, SettledHalves(o))
                            /\ notional[o] = SumOver(WorthOf, SettledHalves(o))
      BY <1>3, SumEmpty
    <2> QED BY <1>3, <2>1 DEF SettledOK
  <1> QED BY <1>5, <1>6, <1>7, <1>8 DEF HistoryOK

\* The history holds: an order is enqueued once and cancelled only after, trades
\* no more than it asked for with orders of the other side, and settles halves
\* that exist.
THEOREM HistoryHolds == Spec => []HistoryOK
  <1>1. Init => HistoryOK
    BY StartHistory
  <1>2. IInv /\ HistoryOK /\ [Next]_vars => HistoryOK'
    BY StepHistory
  <1> QED BY <1>1, <1>2, Inductive, PTL DEF Spec

\* Whatever is redelivered, an order's filled quantity and notional are those of
\* the distinct halves settled for it, and it is never filled beyond its size
\* (outcomes.go, applyHalf).
THEOREM NeverFilledTwice == Spec => []FilledOnce
  <1>1. IInv /\ HistoryOK => FilledOnce
    <2> SUFFICES ASSUME IInv, HistoryOK, NEW o \in Orders
                 PROVE  /\ filled[o] = SumOver(SizeOf, SettledHalves(o))
                        /\ notional[o] = SumOver(WorthOf, SettledHalves(o))
                        /\ filled[o] <= req[o].qty
      BY DEF FilledOnce
    <2>1. SettledHalves(o) \in SUBSET HalvesOf(o)
      BY DEF HistoryOK, SettledOK, SettledHalves, HalvesOf
    <2>2. /\ SumOver(SizeOf, SettledHalves(o)) <= Executed(o) /\ Executed(o) \in Nat
          /\ filled[o] = SumOver(SizeOf, SettledHalves(o)) /\ filled[o] \in Nat
      BY <2>1, ExecutedType DEF IInv, CoreTypeOK, HistoryOK, SettledOK
    <2>3. Executed(o) + open[o] <= req[o].qty /\ open[o] \in Nat /\ req[o].qty \in Nat
      BY RequestType DEF IInv, MarketTypeOK, HistoryOK, FillsOK
    <2>4. filled[o] <= req[o].qty
      BY <2>2, <2>3
    <2> QED BY <2>4 DEF HistoryOK, SettledOK
  <1> QED BY <1>1, Inductive, HistoryHolds, PTL

\* A terminal order holds nothing back and has nothing left in the book: what a
\* consumer calls filled or cancelled is what the shard took out, and a refused
\* order never reached it (outcomes.go, settleReservation and releaseIfTerminal).
THEOREM TerminalSettles == Spec => []TerminalIsSettled
  <1>1. IInv /\ HistoryOK /\ TerminalHoldsNothing => TerminalIsSettled
    <2> SUFFICES ASSUME IInv, HistoryOK, TerminalHoldsNothing, NEW o \in Orders, status[o] \in Terminal
                 PROVE  Outstanding(o) = 0 /\ open[o] = 0
      BY DEF TerminalIsSettled
    <2>1. Outstanding(o) = 0
      BY DEF TerminalHoldsNothing
    <2>2. CASE status[o] = "REJECTED"
      BY <2>1, <2>2, MetIsPlaced DEF IInv, HistoryOK, SettledOK, FillsOK
    <2>3. CASE status[o] # "REJECTED"
      BY <2>1, <2>3 DEF HistoryOK, SettledOK, Terminal
    <2> QED BY <2>2, <2>3
  <1> QED BY <1>1, Inductive, HistoryHolds, TerminalReleases, PTL

-----------------------------------------------------------------------------
(* Money and shares are conserved.                                           *)

\* Settled halves whose other half is not, buyers' and sellers'.
Lone      == {e \in applied : \E r \in Roles : <<e[1], r>> \notin applied}
LoneBuys  == {e \in Lone : Buying(OrderOf(e))}
LoneSells == Lone \ LoneBuys

\* What the halves f are of amount to that have come in and not gone out yet.
InTransit(f) == SumOver(f, LoneSells) - SumOver(f, LoneBuys)

\* Cash, shares and fees are what came in, up to what is in transit.
BooksBalance ==
    /\ SumOver(cash, Accounts) + fees = SumOver(Cash0, Accounts) + deposited + InTransit(WorthOf)
    /\ SumOver(shares, Accounts) = SumOver(Shares0, Accounts) + seeded - InTransit(SizeOf)

\* What is in transit are halves, each of one side.
LEMMA LoneType ==
    ASSUME IInv, HistoryOK
    PROVE  /\ Lone \in SUBSET HalvesMade /\ LoneBuys \in SUBSET HalvesMade
           /\ LoneSells \in SUBSET HalvesMade
           /\ IsFiniteSet(LoneBuys) /\ IsFiniteSet(LoneSells)
           /\ \A e \in HalvesMade : SizeOf[e] \in Int /\ WorthOf[e] \in Int
           /\ \A e, d \in HalvesMade : e[1] = d[1] => SizeOf[e] = SizeOf[d] /\ WorthOf[e] = WorthOf[d]
  <1>1. /\ Lone \in SUBSET HalvesMade /\ LoneBuys \in SUBSET HalvesMade
        /\ LoneSells \in SUBSET HalvesMade
    BY DEF Lone, LoneBuys, LoneSells, HistoryOK, SettledOK
  <1> QED BY <1>1, HalvesFinite DEF HalvesAreHalves, IInv

\* What is in transit is a number.
LEMMA TransitType ==
    ASSUME IInv, HistoryOK
    PROVE  InTransit(WorthOf) \in Int /\ InTransit(SizeOf) \in Int
  <1>1. /\ SumOver(WorthOf, LoneSells) \in Int /\ SumOver(WorthOf, LoneBuys) \in Int
        /\ SumOver(SizeOf, LoneSells) \in Int /\ SumOver(SizeOf, LoneBuys) \in Int
    <2>1. /\ \A e \in LoneSells : SizeOf[e] \in Int /\ WorthOf[e] \in Int
          /\ \A e \in LoneBuys : SizeOf[e] \in Int /\ WorthOf[e] \in Int
          /\ IsFiniteSet(LoneBuys) /\ IsFiniteSet(LoneSells)
      BY LoneType
    <2> QED BY <2>1, SumType
  <1> QED BY <1>1 DEF InTransit

\* A half that settles before its other half is in transit from then on; one
\* that settles after it ends that, and is of the other side.
LEMMA LoneMoves ==
    ASSUME IInv, HistoryOK, NEW i \in 1 .. Len(outcomes), NEW h, h = outcomes[i],
           SettleHalf(h), UNCHANGED marketVars, NEW e, e = Event(h)
    PROVE  \/ /\ Buying(h.order) /\ LoneSells' = LoneSells
              /\ e \notin LoneBuys /\ LoneBuys' = LoneBuys \cup {e}
           \/ /\ Buying(h.order) /\ LoneBuys' = LoneBuys
              /\ \E d \in LoneSells : d[1] = e[1] /\ LoneSells' = LoneSells \ {d}
           \/ /\ ~Buying(h.order) /\ LoneBuys' = LoneBuys
              /\ e \notin LoneSells /\ LoneSells' = LoneSells \cup {e}
           \/ /\ ~Buying(h.order) /\ LoneSells' = LoneSells
              /\ \E d \in LoneBuys : d[1] = e[1] /\ LoneBuys' = LoneBuys \ {d}
  <1> USE DEF HistoryOK
  <1>1. /\ h \in OutcomeRecord /\ h.type = "HALF"
        /\ h.fill \in 1 .. Len(fills) /\ h.role \in Roles
        /\ e = <<h.fill, h.role>> /\ e \notin applied /\ applied' = applied \cup {e}
    BY NextRecord DEF SettleHalf, Event, Applied, OutcomeRecord
  <1>2. e \in HalvesMade /\ OrderOf(e) = h.order
    BY <1>1, EventMade DEF IInv, OutcomesOK
  <1>3. fills' = fills /\ req' = req
    BY DEF marketVars
  <1>4. \A d : Buying(OrderOf(d))' <=> Buying(OrderOf(d))
    BY <1>3 DEF Buying, OrderOf
  <1>5. PICK r \in Roles : r # h.role /\ Roles = {h.role, r}
    BY <1>1 DEF Roles
  <1>6. PICK d : d = <<h.fill, r>>
    OBVIOUS
  <1>7. Buying(OrderOf(d)) <=> ~Buying(OrderOf(e))
    <2>1. /\ fills[h.fill].taker \in Orders /\ fills[h.fill].maker \in Orders
          /\ req[fills[h.fill].taker].side # req[fills[h.fill].maker].side
      <3>1. fills[h.fill] \in FillRecord
        BY <1>1 DEF IInv, MarketTypeOK
      <3>2. req[fills[h.fill].taker].side # req[fills[h.fill].maker].side
        BY <1>1 DEF FillsOK
      <3> QED BY <3>1, <3>2 DEF FillRecord
    <2>2. \A o \in Orders : req[o].side \in {"BUY", "SELL"}
      BY RequestType DEF IInv, MarketTypeOK
    <2>3. /\ OrderOf(e) = IF h.role = "TAKER" THEN fills[h.fill].taker ELSE fills[h.fill].maker
          /\ OrderOf(d) = IF r = "TAKER" THEN fills[h.fill].taker ELSE fills[h.fill].maker
      BY <1>1, <1>6 DEF OrderOf
    <2> QED BY <1>1, <1>5, <2>1, <2>2, <2>3 DEF Buying, Roles
  <1>8. \A x \in applied : /\ x = <<x[1], x[2]>> /\ x[2] \in Roles
                           /\ x # e
    BY <1>1, HalvesFinite DEF HalvesAreHalves, IInv, SettledOK
  <1>9. CASE d \in applied
    <2>1. d \in Lone /\ d # e /\ d[1] = e[1]
      BY <1>1, <1>5, <1>6, <1>9 DEF Lone
    <2>2. Lone' = Lone \ {d}
      <3>1. e \notin Lone' /\ d \notin Lone'
        BY <1>1, <1>5, <1>6, <1>9 DEF Lone
      <3>2. ASSUME NEW x \in applied, x # d
            PROVE  x \in Lone' <=> x \in Lone
        <4>1. x[1] # h.fill
          BY <1>1, <1>5, <1>6, <1>8, <3>2
        <4>2. \A y \in Roles : <<x[1], y>> \in applied' <=> <<x[1], y>> \in applied
          BY <1>1, <4>1
        <4> QED BY <1>1, <3>2, <4>2 DEF Lone
      <3>3. Lone \subseteq applied /\ Lone' \subseteq applied \cup {e}
        BY <1>1 DEF Lone
      <3> QED BY <1>8, <2>1, <3>1, <3>2, <3>3
    <2>3. CASE Buying(OrderOf(e))
      <3>1. LoneBuys' = LoneBuys /\ LoneSells' = LoneSells \ {d} /\ d \in LoneSells
        BY <1>4, <1>7, <2>1, <2>2, <2>3 DEF LoneBuys, LoneSells
      <3> QED BY <1>2, <2>1, <2>3, <3>1
    <2>4. CASE ~Buying(OrderOf(e))
      <3>1. LoneSells' = LoneSells /\ LoneBuys' = LoneBuys \ {d} /\ d \in LoneBuys
        BY <1>4, <1>7, <2>1, <2>2, <2>4 DEF LoneBuys, LoneSells
      <3> QED BY <1>2, <2>1, <2>4, <3>1
    <2> QED BY <2>3, <2>4
  <1>10. CASE d \notin applied
    <2>1. Lone' = Lone \cup {e} /\ e \notin Lone
      <3>1. e \in Lone' /\ e \notin Lone
        BY <1>1, <1>5, <1>6, <1>10 DEF Lone
      <3>2. ASSUME NEW x \in applied
            PROVE  x \in Lone' <=> x \in Lone
        <4>1. x[1] # h.fill
          BY <1>1, <1>5, <1>6, <1>8, <1>10, <3>2
        <4>2. \A y \in Roles : <<x[1], y>> \in applied' <=> <<x[1], y>> \in applied
          BY <1>1, <4>1
        <4> QED BY <1>1, <3>2, <4>2 DEF Lone
      <3>3. Lone \subseteq applied /\ Lone' \subseteq applied \cup {e}
        BY <1>1 DEF Lone
      <3> QED BY <3>1, <3>2, <3>3
    <2>2. CASE Buying(OrderOf(e))
      <3>1. LoneBuys' = LoneBuys \cup {e} /\ LoneSells' = LoneSells /\ e \notin LoneBuys
        BY <1>4, <2>1, <2>2 DEF LoneBuys, LoneSells
      <3> QED BY <1>2, <2>2, <3>1
    <2>3. CASE ~Buying(OrderOf(e))
      <3>1. LoneBuys' = LoneBuys /\ LoneSells' = LoneSells \cup {e} /\ e \notin LoneSells
        BY <1>4, <2>1, <2>3 DEF LoneBuys, LoneSells
      <3> QED BY <1>2, <2>3, <3>1
    <2> QED BY <2>2, <2>3
  <1> QED BY <1>9, <1>10

\* Either way what is in transit changes by what the half is of.
LEMMA TransitMoves ==
    ASSUME IInv, HistoryOK, NEW i \in 1 .. Len(outcomes), NEW h, h = outcomes[i],
           SettleHalf(h), UNCHANGED marketVars, NEW e, e = Event(h), e \in HalvesMade,
           NEW f, \A x \in HalvesMade : f[x] \in Int,
           \A x, y \in HalvesMade : x[1] = y[1] => f[x] = f[y]
    PROVE  SumOver(f, LoneSells') - SumOver(f, LoneBuys')
             = SumOver(f, LoneSells) - SumOver(f, LoneBuys) + IF Buying(h.order) THEN -f[e] ELSE f[e]
  <1>1. /\ LoneBuys \in SUBSET HalvesMade /\ LoneSells \in SUBSET HalvesMade
        /\ IsFiniteSet(LoneBuys) /\ IsFiniteSet(LoneSells)
    BY LoneType
  <1>2. \A x \in LoneBuys \cup LoneSells : f[x] \in Int
    BY <1>1
  <1>3. SumOver(f, LoneBuys) \in Int /\ SumOver(f, LoneSells) \in Int /\ f[e] \in Int
    BY <1>1, <1>2, SumType
  <1>4. CASE /\ Buying(h.order) /\ LoneSells' = LoneSells
             /\ e \notin LoneBuys /\ LoneBuys' = LoneBuys \cup {e}
    <2>1. SumOver(f, LoneBuys \cup {e}) = SumOver(f, LoneBuys) + f[e]
      BY <1>1, <1>2, <1>3, <1>4, SumAdd
    <2>2. /\ SumOver(f, LoneBuys') = SumOver(f, LoneBuys) + f[e]
          /\ SumOver(f, LoneSells') = SumOver(f, LoneSells)
      BY <1>4, <2>1
    <2> QED BY <1>3, <1>4, <2>2
  <1>5. CASE /\ Buying(h.order) /\ LoneBuys' = LoneBuys
             /\ \E d \in LoneSells : d[1] = e[1] /\ LoneSells' = LoneSells \ {d}
    <2>1. PICK d \in LoneSells : d[1] = e[1] /\ LoneSells' = LoneSells \ {d}
      BY <1>5
    <2>2. f[d] = f[e]
      BY <1>1, <2>1
    <2>3. /\ SumOver(f, LoneSells) = SumOver(f, LoneSells \ {d}) + f[d]
          /\ SumOver(f, LoneSells \ {d}) \in Int
      BY <1>1, <1>2, SumRemove
    <2>4. /\ SumOver(f, LoneBuys') = SumOver(f, LoneBuys)
          /\ SumOver(f, LoneSells') = SumOver(f, LoneSells \ {d})
      BY <1>5, <2>1
    <2> QED BY <1>3, <1>5, <2>2, <2>3, <2>4
  <1>6. CASE /\ ~Buying(h.order) /\ LoneBuys' = LoneBuys
             /\ e \notin LoneSells /\ LoneSells' = LoneSells \cup {e}
    <2>1. SumOver(f, LoneSells \cup {e}) = SumOver(f, LoneSells) + f[e]
      BY <1>1, <1>2, <1>3, <1>6, SumAdd
    <2>2. /\ SumOver(f, LoneSells') = SumOver(f, LoneSells) + f[e]
          /\ SumOver(f, LoneBuys') = SumOver(f, LoneBuys)
      BY <1>6, <2>1
    <2> QED BY <1>3, <1>6, <2>2
  <1>7. CASE /\ ~Buying(h.order) /\ LoneSells' = LoneSells
             /\ \E d \in LoneBuys : d[1] = e[1] /\ LoneBuys' = LoneBuys \ {d}
    <2>1. PICK d \in LoneBuys : d[1] = e[1] /\ LoneBuys' = LoneBuys \ {d}
      BY <1>7
    <2>2. f[d] = f[e]
      BY <1>1, <2>1
    <2>3. /\ SumOver(f, LoneBuys) = SumOver(f, LoneBuys \ {d}) + f[d]
          /\ SumOver(f, LoneBuys \ {d}) \in Int
      BY <1>1, <1>2, SumRemove
    <2>4. /\ SumOver(f, LoneSells') = SumOver(f, LoneSells)
          /\ SumOver(f, LoneBuys') = SumOver(f, LoneBuys \ {d})
      BY <1>7, <2>1
    <2> QED BY <1>3, <1>7, <2>2, <2>3, <2>4
  <1> QED BY <1>4, <1>5, <1>6, <1>7, LoneMoves

\* What the accounts hold is a number.
LEMMA BalancesType ==
    ASSUME IInv
    PROVE  /\ IsFiniteSet(Accounts) /\ cash \in [Accounts -> Int] /\ shares \in [Accounts -> Int]
           /\ SumOver(cash, Accounts) \in Int /\ SumOver(shares, Accounts) \in Int
           /\ SumOver(Cash0, Accounts) \in Int /\ SumOver(Shares0, Accounts) \in Int
           /\ fees \in Int /\ deposited \in Int /\ seeded \in Int
  <1>1. /\ IsFiniteSet(Accounts) /\ cash \in [Accounts -> Int] /\ shares \in [Accounts -> Int]
        /\ Cash0 \in [Accounts -> Nat] /\ Shares0 \in [Accounts -> Nat]
        /\ fees \in Int /\ deposited \in Int /\ seeded \in Int
    BY CoreAssumption DEF IInv, CoreTypeOK
  <1>2. \A a \in Accounts : /\ cash[a] \in Int /\ shares[a] \in Int
                            /\ Cash0[a] \in Int /\ Shares0[a] \in Int
    BY <1>1
  <1> QED BY <1>1, <1>2, SumType

\* A settled half moves what it is worth and the fee, and as many shares.
LEMMA SettleBalances ==
    ASSUME IInv, HistoryOK, BooksBalance, NEW i \in 1 .. Len(outcomes), NEW h, h = outcomes[i],
           SettleHalf(h), UNCHANGED marketVars, UNCHANGED fundingVars
    PROVE  BooksBalance'
  <1>1. /\ h \in OutcomeRecord /\ h.order \in Orders /\ h.type = "HALF"
        /\ h.fill \in 1 .. Len(fills)
    BY NextRecord DEF SettleHalf
  <1>2. PICK a \in Accounts : a = AccountOf(h.order)
    BY <1>1, RequestType DEF AccountOf, IInv, MarketTypeOK
  <1>3. PICK w \in Int, q \in Int, x \in Int : w = HalfNotional(h) /\ q = HalfQty(h) /\ x = HalfFee(h)
    BY <1>1, HalfType
  <1>4. PICK g \in Int, t \in Int : /\ g = (IF Buying(h.order) THEN -w ELSE w)
                                    /\ t = (IF Buying(h.order) THEN q ELSE -q)
    OBVIOUS
  <1>5. PICK e \in HalvesMade : e = Event(h) /\ WorthOf[e] = w /\ SizeOf[e] = q
    <2>1. PICK e : e = Event(h)
      OBVIOUS
    <2>2. e \in HalvesMade /\ e[1] = h.fill
      BY <1>1, <2>1, EventMade DEF IInv, Event
    <2> QED BY <1>3, <2>1, <2>2 DEF WorthOf, SizeOf, HalfNotional, HalfQty
  <1>6. /\ WorthOf' = WorthOf /\ SizeOf' = SizeOf
        /\ deposited' = deposited /\ seeded' = seeded
    BY HalvesSame DEF marketVars, fundingVars
  <1>7. /\ IsFiniteSet(Accounts) /\ cash \in [Accounts -> Int] /\ shares \in [Accounts -> Int]
        /\ SumOver(cash, Accounts) \in Int /\ SumOver(shares, Accounts) \in Int
        /\ SumOver(Cash0, Accounts) \in Int /\ SumOver(Shares0, Accounts) \in Int
        /\ fees \in Int /\ deposited \in Int /\ seeded \in Int
        /\ InTransit(WorthOf) \in Int /\ InTransit(SizeOf) \in Int
    BY BalancesType, TransitType
  <1>8. /\ InTransit(WorthOf)' = InTransit(WorthOf) + g
        /\ InTransit(SizeOf)' = InTransit(SizeOf) - t
    <2>1. /\ \A y \in HalvesMade : SizeOf[y] \in Int /\ WorthOf[y] \in Int
          /\ \A y, z \in HalvesMade : y[1] = z[1] => SizeOf[y] = SizeOf[z] /\ WorthOf[y] = WorthOf[z]
      BY LoneType
    <2>2. SumOver(WorthOf, LoneSells') - SumOver(WorthOf, LoneBuys')
            = SumOver(WorthOf, LoneSells) - SumOver(WorthOf, LoneBuys)
                + IF Buying(h.order) THEN -WorthOf[e] ELSE WorthOf[e]
      BY <1>5, <2>1, TransitMoves
    <2>3. SumOver(SizeOf, LoneSells') - SumOver(SizeOf, LoneBuys')
            = SumOver(SizeOf, LoneSells) - SumOver(SizeOf, LoneBuys)
                + IF Buying(h.order) THEN -SizeOf[e] ELSE SizeOf[e]
      BY <1>5, <2>1, TransitMoves
    <2>4. /\ InTransit(WorthOf)' = InTransit(WorthOf) + IF Buying(h.order) THEN -w ELSE w
          /\ InTransit(SizeOf)' = InTransit(SizeOf) + IF Buying(h.order) THEN -q ELSE q
      BY <1>5, <1>6, <2>2, <2>3 DEF InTransit
    <2> QED BY <1>4, <1>7, <2>4
  <1>9. /\ cash' = [cash EXCEPT ![a] = @ + (IF Buying(h.order) THEN -w ELSE w) - x]
        /\ shares' = [shares EXCEPT ![a] = @ + (IF Buying(h.order) THEN q ELSE -q)]
        /\ fees' = fees + x
    BY <1>2, <1>3 DEF SettleHalf
  <1>10. /\ cash'[a] = cash[a] + g - x /\ shares'[a] = shares[a] + t
         /\ \A b \in Accounts \ {a} : cash'[b] = cash[b] /\ shares'[b] = shares[b]
         /\ \A b \in Accounts : cash[b] \in Int /\ shares[b] \in Int
    BY <1>4, <1>7, <1>9
  <1>11. \A b \in Accounts : cash'[b] \in Int /\ shares'[b] \in Int
    BY <1>10
  <1>12. /\ SumOver(cash', Accounts) = SumOver(cash, Accounts) + (cash'[a] - cash[a])
         /\ SumOver(shares', Accounts) = SumOver(shares, Accounts) + (shares'[a] - shares[a])
    <2>1. /\ IsFiniteSet(Accounts) /\ a \in Accounts
          /\ \A b \in Accounts : cash[b] \in Int /\ cash'[b] \in Int
          /\ \A b \in Accounts \ {a} : cash'[b] = cash[b]
      BY <1>7, <1>10, <1>11
    <2>2. /\ \A b \in Accounts : shares[b] \in Int /\ shares'[b] \in Int
          /\ \A b \in Accounts \ {a} : shares'[b] = shares[b]
      BY <1>10, <1>11
    <2>3. SumOver(cash', Accounts) = SumOver(cash, Accounts) + (cash'[a] - cash[a])
      BY <2>1, SumChange
    <2>4. SumOver(shares', Accounts) = SumOver(shares, Accounts) + (shares'[a] - shares[a])
      BY <2>1, <2>2, SumChange
    <2> QED BY <2>3, <2>4
  <1>13. cash'[a] - cash[a] = g - x /\ shares'[a] - shares[a] = t
    BY <1>10
  <1>14. SumOver(cash', Accounts) + fees'
           = SumOver(Cash0, Accounts) + deposited' + InTransit(WorthOf)'
    <2>1. SumOver(cash, Accounts) + fees = SumOver(Cash0, Accounts) + deposited + InTransit(WorthOf)
      BY DEF BooksBalance
    <2>2. SumOver(cash', Accounts) = SumOver(cash, Accounts) + (g - x) /\ fees' = fees + x
      BY <1>9, <1>12, <1>13
    <2>3. SumOver(cash', Accounts) + fees' = (SumOver(cash, Accounts) + fees) + g
      BY <1>7, <2>2
    <2>4. SumOver(cash', Accounts) + fees'
            = SumOver(Cash0, Accounts) + deposited + (InTransit(WorthOf) + g)
      BY <1>7, <2>1, <2>3
    <2> QED BY <1>6, <1>8, <2>4
  <1>15. SumOver(shares', Accounts) = SumOver(Shares0, Accounts) + seeded' - InTransit(SizeOf)'
    <2>1. SumOver(shares, Accounts) = SumOver(Shares0, Accounts) + seeded - InTransit(SizeOf)
      BY DEF BooksBalance
    <2>2. SumOver(shares', Accounts) = SumOver(shares, Accounts) + t
      BY <1>12, <1>13
    <2> QED BY <1>6, <1>7, <1>8, <2>1, <2>2
  <1> QED BY <1>14, <1>15 DEF BooksBalance

\* Steps of the shard and of the readers, requests and answers move no balance.
LEMMA QuietBalances ==
    ASSUME IInv, IInv', HistoryOK, BooksBalance,
           UNCHANGED <<req, cash, shares, fees, applied, deposited, seeded>>,
           Len(fills) <= Len(fills'), \A k \in 1 .. Len(fills) : fills'[k] = fills[k]
    PROVE  BooksBalance'
  <1>1. /\ \A e \in HalvesMade : OrderOf(e)' = OrderOf(e)
        /\ \A T \in SUBSET HalvesMade : /\ SumOver(SizeOf', T) = SumOver(SizeOf, T)
                                        /\ SumOver(WorthOf', T) = SumOver(WorthOf, T)
    BY SumsKept DEF IInv
  <1>2. Lone' = Lone /\ LoneBuys \in SUBSET HalvesMade /\ LoneSells \in SUBSET HalvesMade
        /\ Lone \in SUBSET HalvesMade
    BY LoneType DEF Lone
  <1>3. \A e \in HalvesMade : Buying(OrderOf(e))' <=> Buying(OrderOf(e))
    BY <1>1 DEF Buying
  <1>4. LoneBuys' = LoneBuys /\ LoneSells' = LoneSells
    BY <1>2, <1>3 DEF LoneBuys, LoneSells
  <1>5. InTransit(WorthOf)' = InTransit(WorthOf) /\ InTransit(SizeOf)' = InTransit(SizeOf)
    BY <1>1, <1>2, <1>4 DEF InTransit
  <1> QED BY <1>5 DEF BooksBalance

\* What is deposited or seeded is counted as it comes in.
LEMMA FundingBalances ==
    ASSUME IInv, HistoryOK, BooksBalance, NEW a \in Accounts, NEW x \in Funding, NEW price \in Funding,
           Deposit(a, x) \/ SeedShares(a, x, price)
    PROVE  BooksBalance'
  <1>1. x \in Int /\ Notional(x, price) \in Int
    <2>1. x \in Nat /\ price \in Nat
      BY CoreAssumption
    <2> QED BY <2>1, NotionalBound
  <1>2. UNCHANGED marketVars /\ UNCHANGED <<fees, applied>>
    BY DEF Deposit, SeedShares
  <1>3. InTransit(WorthOf)' = InTransit(WorthOf) /\ InTransit(SizeOf)' = InTransit(SizeOf)
    <2>1. fills' = fills /\ req' = req /\ applied' = applied
      BY <1>2 DEF marketVars
    <2>2. WorthOf' = WorthOf /\ SizeOf' = SizeOf
      BY <2>1, HalvesSame
    <2>3. LoneBuys' = LoneBuys /\ LoneSells' = LoneSells
      BY <2>1 DEF LoneBuys, LoneSells, Lone, Buying, OrderOf
    <2> QED BY <2>2, <2>3 DEF InTransit
  <1>4. /\ IsFiniteSet(Accounts) /\ cash \in [Accounts -> Int] /\ shares \in [Accounts -> Int]
        /\ SumOver(cash, Accounts) \in Int /\ SumOver(shares, Accounts) \in Int
        /\ SumOver(Cash0, Accounts) \in Int /\ SumOver(Shares0, Accounts) \in Int
        /\ fees \in Int /\ deposited \in Int /\ seeded \in Int
        /\ InTransit(WorthOf) \in Int /\ InTransit(SizeOf) \in Int
        /\ cash[a] \in Int /\ shares[a] \in Int
    BY BalancesType, TransitType
  <1>5. CASE Deposit(a, x)
    <2>1. /\ cash' = [cash EXCEPT ![a] = cash[a] + x]
          /\ deposited' = deposited + x /\ seeded' = seeded /\ shares' = shares
      BY <1>5 DEF Deposit
    <2>2. /\ cash'[a] = cash[a] + x /\ \A b \in Accounts : cash'[b] \in Int
          /\ \A b \in Accounts \ {a} : cash'[b] = cash[b]
      BY <1>1, <1>4, <2>1
    <2>3. SumOver(cash', Accounts) = SumOver(cash, Accounts) + (cash'[a] - cash[a])
      BY <1>4, <2>2, SumChange
    <2>4. SumOver(cash', Accounts) = SumOver(cash, Accounts) + x
      BY <1>1, <1>4, <2>2, <2>3
    <2>5. SumOver(cash', Accounts) + fees' = SumOver(Cash0, Accounts) + deposited' + InTransit(WorthOf)'
      BY <1>1, <1>2, <1>3, <1>4, <2>1, <2>4 DEF BooksBalance
    <2>6. SumOver(shares', Accounts) = SumOver(Shares0, Accounts) + seeded' - InTransit(SizeOf)'
      BY <1>3, <2>1 DEF BooksBalance
    <2> QED BY <2>5, <2>6 DEF BooksBalance
  <1>6. CASE SeedShares(a, x, price)
    <2> DEFINE y == Notional(x, price)
    <2>1. /\ cash' = [cash EXCEPT ![a] = cash[a] - y]
          /\ shares' = [shares EXCEPT ![a] = shares[a] + x]
          /\ deposited' = deposited - y /\ seeded' = seeded + x
      BY <1>6 DEF SeedShares
    <2>2. y \in Int
      BY <1>1
    <2> HIDE DEF y
    <2>3. /\ cash'[a] = cash[a] - y /\ shares'[a] = shares[a] + x
          /\ \A b \in Accounts : cash'[b] \in Int /\ shares'[b] \in Int
          /\ \A b \in Accounts \ {a} : cash'[b] = cash[b] /\ shares'[b] = shares[b]
      BY <1>1, <1>4, <2>1, <2>2
    <2>4. /\ SumOver(cash', Accounts) = SumOver(cash, Accounts) + (cash'[a] - cash[a])
          /\ SumOver(shares', Accounts) = SumOver(shares, Accounts) + (shares'[a] - shares[a])
      BY <1>4, <2>3, SumChange
    <2>5. /\ SumOver(cash', Accounts) = SumOver(cash, Accounts) - y
          /\ SumOver(shares', Accounts) = SumOver(shares, Accounts) + x
      BY <1>1, <1>4, <2>2, <2>3, <2>4
    <2>6. SumOver(cash', Accounts) + fees' = SumOver(Cash0, Accounts) + deposited' + InTransit(WorthOf)'
      BY <1>2, <1>3, <1>4, <2>1, <2>2, <2>5 DEF BooksBalance
    <2>7. SumOver(shares', Accounts) = SumOver(Shares0, Accounts) + seeded' - InTransit(SizeOf)'
      BY <1>1, <1>3, <1>4, <2>1, <2>5 DEF BooksBalance
    <2> QED BY <2>6, <2>7 DEF BooksBalance
  <1> QED BY <1>5, <1>6

\* Every step keeps the balance.
LEMMA StepBalances ==
    ASSUME IInv, IInv', HistoryOK, BooksBalance, [Next]_vars
    PROVE  BooksBalance'
  <1>0. Len(fills) \in Nat
    BY DEF IInv, MarketTypeOK
  <1>1. CASE MarketStep
    <2>1. UNCHANGED <<req, cash, shares, fees, applied, deposited, seeded>>
      BY <1>1 DEF MarketStep, MarketNext, MatchOrder, CancelResting, CancelAgain, Regenerate,
                  coreVars, ledgerVars, fundingVars
    <2>2. Len(fills) <= Len(fills') /\ \A k \in 1 .. Len(fills) : fills'[k] = fills[k]
      <3>1. CASE \E o \in Orders : MatchOrder(o)
        <4>1. PICK o \in Orders : \E n, mk, cum : MetMakers(o, n, mk, cum) /\ Traded(o, n, mk, cum)
          BY <3>1, OrderHandled DEF IInv
        <4>2. PICK n, mk, cum : MetMakers(o, n, mk, cum) /\ Traded(o, n, mk, cum)
          BY <4>1
        <4> QED BY <1>0, <4>2 DEF MetMakers, Traded
      <3>2. CASE fills' = fills
        BY <1>0, <3>2
      <3> QED BY <1>1, <3>1, <3>2 DEF MarketStep, MarketNext, CancelResting, CancelAgain, Regenerate
    <2> QED BY <2>1, <2>2, QuietBalances
  <1>2. CASE \E a \in Accounts, x \in Funding :
               Deposit(a, x) \/ \E price \in Funding : SeedShares(a, x, price)
    BY <1>2, FundingBalances
  <1>3. CASE \E p \in Partitions : Consume(p)
    <2>1. PICK i \in 1 .. Len(outcomes) :
            /\ \/ SettleHalf(outcomes[i])
               \/ SkipDuplicate(outcomes[i])
               \/ ApplyDisposition(outcomes[i])
               \/ ApplyVerdict(outcomes[i])
            /\ UNCHANGED <<marketVars, fundingVars>>
      BY <1>3 DEF Consume
    <2>2. CASE SettleHalf(outcomes[i])
      BY <2>1, <2>2, SettleBalances
    <2>3. CASE ~SettleHalf(outcomes[i])
      <3>1. /\ UNCHANGED <<req, cash, shares, fees, applied, deposited, seeded>>
            /\ fills' = fills
        BY <2>1, <2>3 DEF SkipDuplicate, ApplyDisposition, ApplyVerdict, ledgerVars, fundingVars, marketVars
      <3> QED BY <1>0, <3>1, QuietBalances
    <2> QED BY <2>2, <2>3
  <1>4. CASE UNCHANGED <<req, fills, cash, shares, fees, applied, deposited, seeded>>
    BY <1>0, <1>4, QuietBalances
  <1>5. \/ MarketStep
        \/ \E a \in Accounts, x \in Funding :
             Deposit(a, x) \/ \E price \in Funding : SeedShares(a, x, price)
        \/ \E p \in Partitions : Consume(p)
        \/ UNCHANGED <<req, fills, cash, shares, fees, applied, deposited, seeded>>
    BY DEF Next, Submit, RequestCancel, ConsumeFails, RestartConsumers, PromoteStandby,
           vars, coreVars, ledgerVars, fundingVars, marketVars
  <1> QED BY <1>1, <1>2, <1>3, <1>4, <1>5

\* Whatever is settled, redelivered or lost on the way, what is in cash, fees and
\* positions is what entered from outside, but for the fills of which one half
\* has settled and the other has not (outcomes.go, applyHalf and settleReservation;
\* ledger.go, Post).
THEOREM BalancesConserved == Spec => []Conserved
  <1>1. Init => BooksBalance
    <2> SUFFICES ASSUME Init PROVE BooksBalance
      OBVIOUS
    <2>1. IInv
      BY Start
    <2>2. LoneBuys = {} /\ LoneSells = {}
      BY DEF Init, Lone, LoneBuys, LoneSells
    <2>3. InTransit(WorthOf) = 0 /\ InTransit(SizeOf) = 0
      BY <2>2, SumEmpty DEF InTransit
    <2>4. SumOver(Cash0, Accounts) \in Int /\ SumOver(Shares0, Accounts) \in Int
      BY <2>1, BalancesType
    <2> QED BY <2>3, <2>4 DEF Init, BooksBalance
  <1>2. IInv /\ IInv' /\ HistoryOK /\ BooksBalance /\ [Next]_vars => BooksBalance'
    BY StepBalances
  <1>3. IInv /\ HistoryOK /\ BooksBalance => Conserved
    <2> SUFFICES ASSUME IInv, HistoryOK, BooksBalance PROVE Conserved
      OBVIOUS
    <2>1. /\ SumOver(WorthOf, LoneSells) \in Int /\ SumOver(WorthOf, LoneBuys) \in Int
          /\ SumOver(SizeOf, LoneSells) \in Int /\ SumOver(SizeOf, LoneBuys) \in Int
      <3>1. /\ \A e \in LoneSells : SizeOf[e] \in Int /\ WorthOf[e] \in Int
            /\ \A e \in LoneBuys : SizeOf[e] \in Int /\ WorthOf[e] \in Int
            /\ IsFiniteSet(LoneBuys) /\ IsFiniteSet(LoneSells)
        BY LoneType
      <3> QED BY <3>1, SumType
    <2>2. /\ SumOver(Cash0, Accounts) \in Int /\ SumOver(Shares0, Accounts) \in Int
          /\ deposited \in Int /\ seeded \in Int
      BY BalancesType
    <2>3. /\ SumOver(cash, Accounts) + fees
               = SumOver(Cash0, Accounts) + deposited
                   + SumOver(WorthOf, LoneSells) - SumOver(WorthOf, LoneBuys)
          /\ SumOver(shares, Accounts)
               = SumOver(Shares0, Accounts) + seeded
                   + SumOver(SizeOf, LoneBuys) - SumOver(SizeOf, LoneSells)
      BY <2>1, <2>2 DEF BooksBalance, InTransit
    <2>4. Conserved <=>
            /\ SumOver(cash, Accounts) + fees
                 = SumOver(Cash0, Accounts) + deposited
                     + SumOver(WorthOf, LoneSells) - SumOver(WorthOf, LoneBuys)
            /\ SumOver(shares, Accounts)
                 = SumOver(Shares0, Accounts) + seeded
                     + SumOver(SizeOf, LoneBuys) - SumOver(SizeOf, LoneSells)
      BY DEF Conserved, LoneBuys, LoneSells, Lone
    <2> QED BY <2>3, <2>4
  <1> QED BY <1>1, <1>2, <1>3, Inductive, HistoryHolds, PTL DEF Spec

-----------------------------------------------------------------------------
(* How far a reservation may fall short.                                     *)

\* A buyer pays no more than its bound, in whichever role.
BoughtWithin ==
    \A k \in 1 .. Len(fills) : \A r \in Roles :
      LET o == OrderOf(<<k, r>>) IN Buying(o) => fills[k].price <= Bound(req[o])

\* What a live order has spent or given back is what its filled quantity owes,
\* and a cent more at most for each half but the first; of shares, exactly that.
Spent(o) == consumed[o] + released[o]

SpentOK ==
    \A o \in Orders : status[o] \in Live =>
      /\ reserved[o] = Reservation(o)
      /\ ~Buying(o) => Spent(o) = filled[o]
      /\ Buying(o) /\ SettledHalves(o) = {} => Spent(o) = 0
      /\ Buying(o) /\ SettledHalves(o) # {} =>
           Spent(o) + 1 <= Owed(o, filled[o]) + Cardinality(SettledHalves(o))

\* The worst price of an order is a price, and a buyer's is no less than the
\* price its request carries.
LEMMA BoundType ==
    ASSUME req \in [Orders -> Requests], NEW o \in Orders, Buying(o)
    PROVE  Bound(req[o]) \in Nat /\ req[o].price <= Bound(req[o])
  <1>1. req[o].price \in Nat
    BY RequestType
  <1>2. CollarBps \in Nat
    BY MoneyAssumption, CollarAssumption
  <1>3. FeeBps(req[o].price, CollarBps) \in Nat
    BY <1>1, <1>2, FeeType
  <1> QED BY <1>1, <1>3 DEF Bound, Buying, ApplyBps

\* What a quantity owes grows with it.
LEMMA OwedGrows ==
    ASSUME IInv, NEW o \in Orders, Buying(o), NEW q \in Nat, NEW x \in Nat
    PROVE  Owed(o, q) <= Owed(o, q + x)
  <1> DEFINE b == Bound(req[o])
  <1>1. b \in Nat /\ TakerFeeBps \in Nat
    BY BoundType, MoneyAssumption, CoreAssumption DEF IInv, MarketTypeOK
  <1>2. q + x \in Nat
    OBVIOUS
  <1> HIDE DEF b
  <1>3. NotionalCeil(q, b) \in Nat /\ NotionalCeil(q + x, b) \in Nat
        /\ NotionalCeil(q, b) <= NotionalCeil(q + x, b)
    <2>1. NotionalCeil(q, b) \in Nat /\ NotionalCeil(q + x, b) \in Nat /\ Notional(x, b) \in Nat
      BY <1>1, <1>2, NotionalBound
    <2>2. NotionalCeil(q, b) + Notional(x, b) <= NotionalCeil(q + x, b)
      BY <1>1, NotionalGrows
    <2> QED BY <2>1, <2>2
  <1>4. FeeBps(NotionalCeil(q, b), TakerFeeBps) <= FeeBps(NotionalCeil(q + x, b), TakerFeeBps)
    BY <1>1, <1>3, FeeGrows
  <1>5. FeeBps(NotionalCeil(q, b), TakerFeeBps) \in Nat
        /\ FeeBps(NotionalCeil(q + x, b), TakerFeeBps) \in Nat
    BY <1>1, <1>3, FeeType
  <1> QED BY <1>3, <1>4, <1>5 DEF Owed, b

\* A half that has not settled is of a quantity its order still has to fill, and
\* of a price within its bound.
LEMMA HalfToCome ==
    ASSUME IInv, HistoryOK, BoughtWithin, NEW i \in 1 .. Len(outcomes), NEW h, h = outcomes[i],
           h.type = "HALF", Event(h) \notin applied
    PROVE  /\ h \in OutcomeRecord /\ h.order \in Orders /\ h.fill \in 1 .. Len(fills)
           /\ HalfQty(h) \in Nat \ {0} /\ fills[h.fill].price \in Nat
           /\ filled[h.order] + HalfQty(h) <= req[h.order].qty
           /\ Buying(h.order) => fills[h.fill].price <= Bound(req[h.order])
           /\ Placed(h.order)
           /\ IsFiniteSet(SettledHalves(h.order)) /\ Event(h) \notin SettledHalves(h.order)
           /\ SettledHalves(h.order) = {} => filled[h.order] = 0 /\ notional[h.order] = 0
  <1> USE DEF HistoryOK
  <1> DEFINE o == h.order
             e == Event(h)
  <1>1. h \in OutcomeRecord /\ o \in Orders /\ h.fill \in 1 .. Len(fills) /\ h.role \in Roles
    <2>1. h \in OutcomeRecord /\ o \in Orders /\ h.fill \in 1 .. Len(fills)
      BY NextRecord
    <2> QED BY <2>1 DEF OutcomeRecord
  <1>2. e \in HalvesMade /\ OrderOf(e) = o /\ Placed(o) /\ e = <<h.fill, h.role>>
    BY <1>1, EventMade, MetIsPlaced DEF IInv, OutcomesOK, Event
  <1>3. SizeOf[e] = HalfQty(h) /\ SizeOf[e] \in Nat \ {0}
    BY <1>1, <1>2, HalvesFinite DEF HalvesAreHalves, HalfQty, IInv
  <1>4. fills[h.fill].price \in Nat
    <2>1. fills[h.fill] \in FillRecord
      BY <1>1 DEF IInv, MarketTypeOK
    <2> QED BY <2>1 DEF FillRecord
  <1>5. Buying(o) => fills[h.fill].price <= Bound(req[o])
    BY <1>1, <1>2 DEF BoughtWithin
  <1>6. /\ SettledHalves(o) \in SUBSET HalvesMade /\ e \notin SettledHalves(o)
        /\ SettledHalves(o) \cup {e} \in SUBSET HalvesOf(o)
    BY <1>2 DEF SettledHalves, SettledOK, HalvesOf
  <1>7. IsFiniteSet(SettledHalves(o)) /\ \A d \in SettledHalves(o) : SizeOf[d] \in Int
    BY <1>6, HalvesFinite DEF HalvesAreHalves, IInv
  <1>8. filled[o] = SumOver(SizeOf, SettledHalves(o)) /\ notional[o] = SumOver(WorthOf, SettledHalves(o))
    BY <1>1 DEF SettledOK
  <1>9. filled[o] + HalfQty(h) <= req[o].qty
    <2> HIDE DEF e, o
    <2>1. SumOver(SizeOf, SettledHalves(o) \cup {e}) = SumOver(SizeOf, SettledHalves(o)) + SizeOf[e]
      BY <1>3, <1>6, <1>7, SumAdd
    <2>2. SumOver(SizeOf, SettledHalves(o) \cup {e}) <= Executed(o) /\ Executed(o) \in Nat
          /\ SumOver(SizeOf, SettledHalves(o) \cup {e}) \in Nat
      BY <1>6, ExecutedType DEF IInv
    <2>3. Executed(o) + open[o] <= req[o].qty /\ open[o] \in Nat /\ req[o].qty \in Nat
      BY <1>1, RequestType DEF FillsOK, IInv, MarketTypeOK, o
    <2> QED BY <1>3, <1>8, <2>1, <2>2, <2>3
  <1>10. SettledHalves(o) = {} => filled[o] = 0 /\ notional[o] = 0
    BY <1>8, SumEmpty
  <1> QED BY <1>1, <1>2, <1>3, <1>4, <1>5, <1>6, <1>7, <1>9, <1>10

\* A half costs a buyer no more than its quantity adds to what is owed, and a
\* cent; the first one not even that cent.
LEMMA SliceCost ==
    ASSUME IInv, HistoryOK, BoughtWithin, NEW i \in 1 .. Len(outcomes), NEW h, h = outcomes[i],
           h.type = "HALF", Event(h) \notin applied, Buying(h.order)
    PROVE  /\ HalfCost(h) <= Owed(h.order, filled[h.order] + HalfQty(h)) - Owed(h.order, filled[h.order]) + 1
           /\ SettledHalves(h.order) = {} => HalfCost(h) <= Owed(h.order, filled[h.order] + HalfQty(h))
  <1> DEFINE o == h.order
             b == Bound(req[o])
             p == fills[h.fill].price
             q == HalfQty(h)
             f == filled[o]
             N == notional[o]
             n == HalfNotional(h)
             O == NotionalCeil(f, b)
             M == NotionalCeil(f + q, b)
             r == FeeRate(h.role)
  <1>1. /\ h \in OutcomeRecord /\ o \in Orders /\ h.fill \in 1 .. Len(fills)
        /\ q \in Nat \ {0} /\ p \in Nat /\ p <= b
        /\ SettledHalves(o) = {} => f = 0 /\ N = 0
    BY HalfToCome
  <1>2. b \in Nat /\ f \in Nat /\ N \in Nat
    BY <1>1, BoundType DEF IInv, MarketTypeOK, CoreTypeOK
  <1>3. r \in Nat /\ TakerFeeBps \in Nat /\ r <= TakerFeeBps
    BY MoneyAssumption, CoreAssumption DEF FeeRate
  <1>4. n = Notional(q, p)
    BY DEF HalfNotional, HalfQty
  <1>5. HalfCost(h) = n + (FeeBps(N + n, r) - FeeBps(N, r))
    BY DEF HalfCost, HalfFee
  <1>6. Owed(o, f) = O + FeeBps(O, TakerFeeBps) /\ Owed(o, f + q) = M + FeeBps(M, TakerFeeBps)
    BY DEF Owed
  <1> HIDE DEF o, b, p, q, f, N, n, r
  <1>7. n \in Nat /\ O \in Nat /\ M \in Nat /\ O + n <= M
    <2>1. f + q \in Nat
      BY <1>1, <1>2
    <2> QED BY <1>1, <1>2, <1>4, <2>1, NotionalBound, NotionalGrows
  <1> HIDE DEF O, M
  <1>8. M - O \in Nat /\ n <= M - O /\ O + (M - O) = M /\ N + n \in Nat
    BY <1>2, <1>7
  <1>9. /\ FeeBps(N + n, r) \in Int /\ FeeBps(N, r) \in Int
        /\ FeeBps(O, TakerFeeBps) \in Int /\ FeeBps(M, TakerFeeBps) \in Int
    <2>1. FeeBps(N + n, r) \in Nat /\ FeeBps(N, r) \in Nat
      BY <1>2, <1>3, <1>8, FeeType
    <2>2. FeeBps(O, TakerFeeBps) \in Nat /\ FeeBps(M, TakerFeeBps) \in Nat
      BY <1>3, <1>7, FeeType
    <2> QED BY <2>1, <2>2
  <1>10. FeeBps(N + n, r) - FeeBps(N, r) <= FeeBps(M, TakerFeeBps) - FeeBps(O, TakerFeeBps) + 1
    <2>1. FeeBps(N + n, r) - FeeBps(N, r)
            <= FeeBps(O + (M - O), TakerFeeBps) - FeeBps(O, TakerFeeBps) + 1
      BY <1>2, <1>3, <1>7, <1>8, FeeSlack
    <2> QED BY <1>8, <2>1
  <1>11. HalfCost(h) <= Owed(o, f + q) - Owed(o, f) + 1
    BY <1>5, <1>6, <1>7, <1>9, <1>10
  <1>12. ASSUME f = 0, N = 0
         PROVE  HalfCost(h) <= Owed(o, f + q)
    <2>1. n <= M /\ FeeBps(n, r) <= FeeBps(M, TakerFeeBps) /\ FeeBps(0, r) = 0
      BY <1>3, <1>7, FeeGrows
    <2> QED BY <1>2, <1>5, <1>6, <1>7, <1>9, <1>12, <2>1
  <1> QED BY <1>1, <1>11, <1>12 DEF o, f, q

\* An execution is at its maker's price, which its taker accepts; the ones there
\* were stay as they are.
LEMMA NewPrices ==
    ASSUME MarketTypeOK, NEW o \in Orders, MatchOrder(o)
    PROVE  /\ \A k \in 1 .. Len(fills) : fills'[k] = fills[k]
           /\ \A k \in 1 .. Len(fills') : k \notin 1 .. Len(fills) =>
                /\ fills'[k].taker = o /\ fills'[k].maker \in Available(o)
                /\ fills'[k].price = req[fills'[k].maker].price
  <1>1. IsFiniteSet(Available(o)) /\ Cardinality(Available(o)) \in Nat
    <2>1. Available(o) \in SUBSET Orders
      BY DEF Available
    <2> QED BY <2>1, MarketAssumption, FS_Subset, FS_CardinalityType
  <1>2. PICK n \in 0 .. Cardinality(Available(o)) : \E mk \in [1 .. n -> Available(o)] :
             \E cum \in [0 .. n -> 0 .. req[o].qty] : Execute(o, n, mk, cum)
    BY DEF MatchOrder
  <1>3. PICK mk \in [1 .. n -> Available(o)] :
             \E cum \in [0 .. n -> 0 .. req[o].qty] : Execute(o, n, mk, cum)
    BY <1>2
  <1>4. PICK cum \in [0 .. n -> 0 .. req[o].qty] : Execute(o, n, mk, cum)
    BY <1>3
  <1>5. n \in Nat /\ mk \in [1 .. n -> Orders] /\ Len(mk) = n
    BY <1>1 DEF Available
  <1> DEFINE F == PlannedFills(o, mk, cum)
  <1>6. /\ F \in Seq(FillRecord) /\ Len(F) = n
        /\ \A j \in 1 .. n : F[j].taker = o /\ F[j].maker = mk[j] /\ F[j].price = req[mk[j]].price
    <2>1. \A j \in 1 .. n : cum[j] - cum[j-1] \in Nat \ {0}
      <3>1. Plan(o, mk, cum) /\ mk \in [1 .. n -> Orders]
        BY <1>4, <1>5 DEF Execute
      <3> QED BY <1>5, <3>1, PlanTakes
    <2>2. \A j \in 1 .. n : req[mk[j]].price \in Nat
      BY <1>5, RequestType DEF MarketTypeOK
    <2>3. F \in [1 .. n -> FillRecord]
      BY <1>5, <2>1, <2>2 DEF PlannedFills, FillRecord
    <2>4. \A j \in 1 .. n : F[j].taker = o /\ F[j].maker = mk[j] /\ F[j].price = req[mk[j]].price
      BY <1>5 DEF PlannedFills
    <2> HIDE DEF F
    <2> QED BY <1>5, <2>3, <2>4, FunctionIsSeq
  <1>7. fills' = fills \o F /\ fills \in Seq(FillRecord) /\ Len(fills) \in Nat
    BY <1>4 DEF Execute, MarketTypeOK
  <1> HIDE DEF F
  <1>8. /\ Len(fills') = Len(fills) + n
        /\ \A k \in 1 .. Len(fills) : fills'[k] = fills[k]
        /\ \A j \in 1 .. n : fills'[Len(fills) + j] = F[j]
    BY <1>6, <1>7, Joined
  <1>9. ASSUME NEW k \in 1 .. Len(fills'), k \notin 1 .. Len(fills)
        PROVE  /\ fills'[k].taker = o /\ fills'[k].maker \in Available(o)
               /\ fills'[k].price = req[fills'[k].maker].price
    <2>1. k - Len(fills) \in 1 .. n /\ k = Len(fills) + (k - Len(fills))
      BY <1>5, <1>7, <1>8, <1>9
    <2>2. fills'[k] = F[k - Len(fills)]
      BY <1>8, <2>1
    <2>3. mk[k - Len(fills)] \in Available(o)
      BY <2>1
    <2> QED BY <1>6, <2>1, <2>2, <2>3
  <1> QED BY <1>8, <1>9

\* What a step leaves alone: the requests, and the executions there were.
FillsGrow ==
    req' = req /\ Len(fills) <= Len(fills') /\ \A k \in 1 .. Len(fills) : fills'[k] = fills[k]

\* Every step leaves them alone.
LEMMA StepGrows ==
    ASSUME IInv, [Next]_vars
    PROVE  FillsGrow
  <1>1. CASE MarketStep
    <2>1. CASE \E o \in Orders : MatchOrder(o)
      <3>1. PICK o \in Orders : MatchOrder(o)
        BY <2>1
      <3>2. PICK n, mk, cum : MetMakers(o, n, mk, cum) /\ Traded(o, n, mk, cum)
        BY <3>1, OrderHandled DEF IInv
      <3>3. n \in Nat /\ Len(fills') = Len(fills) + n /\ Len(fills) \in Nat
            /\ \A k \in 1 .. Len(fills) : fills'[k] = fills[k]
        BY <3>2 DEF MetMakers, Traded, IInv, MarketTypeOK
      <3>4. req' = req
        BY <3>1 DEF MatchOrder
      <3> QED BY <3>3, <3>4 DEF FillsGrow
    <2>2. CASE req' = req /\ fills' = fills
      BY <2>2 DEF IInv, MarketTypeOK, FillsGrow
    <2> QED BY <1>1, <2>1, <2>2 DEF MarketStep, MarketNext, CancelResting, CancelAgain, Regenerate
  <1>2. CASE req' = req /\ fills' = fills
    BY <1>2 DEF IInv, MarketTypeOK, FillsGrow
  <1>3. MarketStep \/ (req' = req /\ fills' = fills)
    BY DEF Next, Submit, RequestCancel, Deposit, SeedShares, Consume, ConsumeFails,
           RestartConsumers, PromoteStandby, vars, marketVars
  <1> QED BY <1>1, <1>2, <1>3

\* No step makes an execution above a buyer's bound.
LEMMA StepBought ==
    ASSUME IInv, BoughtWithin, [Next]_vars
    PROVE  BoughtWithin'
  <1>0. FillsGrow
    BY StepGrows
  <1>1. SUFFICES ASSUME NEW k \in 1 .. Len(fills'), NEW r \in Roles, Buying(OrderOf(<<k, r>>))'
                 PROVE  fills'[k].price <= Bound(req[OrderOf(<<k, r>>)'])
    BY <1>0 DEF BoughtWithin, FillsGrow
  <1>2. CASE k \in 1 .. Len(fills)
    <2>1. OrderOf(<<k, r>>)' = OrderOf(<<k, r>>) /\ fills'[k] = fills[k]
      BY <1>0, <1>2 DEF OrderOf, FillsGrow
    <2> QED BY <1>0, <1>1, <1>2, <2>1 DEF BoughtWithin, Buying, FillsGrow
  <1>3. CASE k \notin 1 .. Len(fills)
    <2>1. PICK o \in Orders : MatchOrder(o)
      <3>1. MarketStep \/ fills' = fills
        BY DEF Next, Submit, RequestCancel, Deposit, SeedShares, Consume, ConsumeFails,
               RestartConsumers, PromoteStandby, vars, marketVars
      <3> QED BY <1>1, <1>3, <3>1 DEF MarketStep, MarketNext, CancelResting, CancelAgain, Regenerate
    <2>2. /\ fills'[k].taker = o /\ fills'[k].maker \in Available(o)
          /\ fills'[k].price = req[fills'[k].maker].price
      BY <1>1, <1>3, <2>1, NewPrices DEF IInv
    <2>3. fills'[k].maker \in Orders /\ Crosses(o, fills'[k].maker)
      BY <2>2 DEF Available
    <2>4. CASE r = "TAKER"
      BY <1>0, <1>1, <2>2, <2>3, <2>4 DEF OrderOf, Buying, Crosses, Accepts, FillsGrow
    <2>5. CASE r # "TAKER"
      <3>1. OrderOf(<<k, r>>)' = fills'[k].maker
        BY <2>5 DEF OrderOf
      <3>2. Buying(fills'[k].maker)
        BY <1>0, <1>1, <3>1 DEF Buying, FillsGrow
      <3> QED BY <2>2, <2>3, <3>1, <3>2, BoundType DEF IInv, MarketTypeOK
    <2> QED BY <2>4, <2>5
  <1> QED BY <1>2, <1>3

\* The settled halves of an order, after a step that settles none.
LEMMA SettledHalvesKept ==
    ASSUME IInv, IInv', HistoryOK, FillsGrow, applied' = applied, NEW o
    PROVE  SettledHalves(o)' = SettledHalves(o)
  <1>1. \A e \in HalvesMade : OrderOf(e)' = OrderOf(e)
    BY SumsKept DEF IInv, FillsGrow
  <1> QED BY <1>1 DEF SettledHalves, HistoryOK, SettledOK

\* What is spent of an order that a step does not settle anything of.
LEMMA SpentKept ==
    ASSUME IInv, IInv', HistoryOK, SpentOK, FillsGrow, NEW o \in Orders,
           status[o] \in Live, SettledHalves(o)' = SettledHalves(o),
           filled'[o] = filled[o], reserved'[o] = reserved[o],
           consumed'[o] = consumed[o], released'[o] = released[o]
    PROVE  /\ reserved'[o] = Reservation(o)'
           /\ ~Buying(o)' => Spent(o)' = filled'[o]
           /\ Buying(o)' /\ SettledHalves(o)' = {} => Spent(o)' = 0
           /\ Buying(o)' /\ SettledHalves(o)' # {} =>
                Spent(o)' + 1 <= Owed(o, filled[o])' + Cardinality(SettledHalves(o)')
  <1>1. Reservation(o)' = Reservation(o) /\ Buying(o)' = Buying(o)
        /\ Owed(o, filled[o])' = Owed(o, filled[o]) /\ Spent(o)' = Spent(o)
    BY DEF FillsGrow, Reservation, Owed, Buying, Spent
  <1> QED BY <1>1 DEF SpentOK

\* A step that settles no half keeps what is spent of the orders that stay live.
LEMMA SpentSame ==
    ASSUME IInv, IInv', HistoryOK, SpentOK, FillsGrow,
           UNCHANGED <<reserved, consumed, filled, applied>>,
           \A o \in Orders : status'[o] \in Live => status[o] \in Live /\ released'[o] = released[o]
    PROVE  SpentOK'
  <1>1. \A o \in Orders : SettledHalves(o)' = SettledHalves(o)
    BY SettledHalvesKept
  <1> QED BY <1>1, SpentKept DEF SpentOK

\* An order that is accepted reserves what it may cost, and has spent nothing.
LEMMA SubmitSpent ==
    ASSUME IInv, IInv', HistoryOK, SpentOK, FillsGrow, NEW o \in Orders, Submit(o)
    PROVE  SpentOK'
  <1>1. /\ status[o] = "NONE" /\ UNCHANGED <<req, fills, filled, consumed, released, applied>>
    BY DEF Submit, ledgerVars
  <1>2. \A q : SettledHalves(q)' = SettledHalves(q)
    BY <1>1, SettledHalvesKept
  <1>3. ASSUME NEW q \in Orders, q # o, status'[q] \in Live
        PROVE  status[q] \in Live /\ reserved'[q] = reserved[q]
    BY <1>3 DEF Submit, IInv, CoreTypeOK
  <1>4. ASSUME status'[o] \in Live
        PROVE  reserved'[o] = Reservation(o)
    BY <1>1, <1>4 DEF Submit, IInv, CoreTypeOK, Live
  <1>5. SettledHalves(o) = {}
    <2>1. ~Placed(o)
      BY <1>1 DEF HistoryOK, SettledOK
    <2>2. ~Met(o)
      BY <2>1, MetIsPlaced DEF IInv
    <2>3. HalvesOf(o) = {}
      BY <2>2 DEF HistoryOK, FillsOK
    <2> QED BY <2>3 DEF HalvesOf, SettledHalves, HistoryOK, SettledOK
  <1>6. filled[o] = 0 /\ Spent(o) = 0
    <2>1. filled[o] = 0
      BY <1>5, SumEmpty DEF HistoryOK, SettledOK
    <2>2. /\ consumed[o] \in Nat /\ released[o] \in Nat /\ reserved[o] = 0
          /\ consumed[o] + released[o] <= reserved[o]
      BY <1>1 DEF IInv, CoreTypeOK
    <2> QED BY <2>1, <2>2 DEF Spent
  <1>7. Spent(o)' = Spent(o) /\ Reservation(o)' = Reservation(o)
    BY <1>1 DEF Spent, Reservation, Owed, Buying
  <1>8. ASSUME NEW q \in Orders, status'[q] \in Live
        PROVE  /\ reserved'[q] = Reservation(q)'
               /\ ~Buying(q)' => Spent(q)' = filled'[q]
               /\ Buying(q)' /\ SettledHalves(q)' = {} => Spent(q)' = 0
               /\ Buying(q)' /\ SettledHalves(q)' # {} =>
                    Spent(q)' + 1 <= Owed(q, filled[q])' + Cardinality(SettledHalves(q)')
    <2>1. CASE q = o
      BY <1>1, <1>2, <1>4, <1>5, <1>6, <1>7, <1>8, <2>1
    <2>2. CASE q # o
      BY <1>1, <1>2, <1>3, <1>8, <2>2, SpentKept
    <2> QED BY <2>1, <2>2
  <1> QED BY <1>8 DEF SpentOK

\* A half adds to what is spent what its quantity adds to what is owed, and a
\* cent more at most, which the first half does not.
LEMMA SettleSpent ==
    ASSUME IInv, IInv', HistoryOK, SpentOK, BoughtWithin, FillsGrow,
           NEW i \in 1 .. Len(outcomes), NEW h, h = outcomes[i], SettleHalf(h), fills' = fills,
           \A o \in Orders : status'[o] \in Live => status[o] \in Live
    PROVE  SpentOK'
  <1> DEFINE o == h.order
             e == Event(h)
             S == SettledHalves(o)
             q == HalfQty(h)
             c == HalfCost(h)
             r == HalfRelease(h)
             f == filled[o]
  <1>1. /\ h \in OutcomeRecord /\ o \in Orders /\ q \in Nat \ {0}
        /\ IsFiniteSet(S) /\ e \notin S /\ (S = {} => f = 0)
        /\ h.type = "HALF" /\ e \notin applied /\ h.fill \in 1 .. Len(fills)
    <2>1. h.type = "HALF" /\ e \notin applied
      BY DEF SettleHalf, Applied
    <2> QED BY <2>1, HalfToCome
  <1>2. c \in Nat /\ r \in Nat /\ f \in Nat
    BY <1>1, HalfType DEF IInv, CoreTypeOK
  <1>3. /\ applied' = applied \cup {e} /\ reserved' = reserved
        /\ filled' = [filled EXCEPT ![o] = f + q]
        /\ consumed' = [consumed EXCEPT ![o] = @ + c]
        /\ released' = [released EXCEPT ![o] =
                          IF status'[o] \in Terminal THEN reserved[o] - consumed'[o] ELSE @ + r]
    BY DEF SettleHalf
  <1>4. /\ filled'[o] = f + q /\ consumed'[o] = consumed[o] + c
        /\ status'[o] \in Live => released'[o] = released[o] + r
        /\ \A p \in Orders : p # o => /\ filled'[p] = filled[p] /\ consumed'[p] = consumed[p]
                                      /\ released'[p] = released[p]
    BY <1>1, <1>3 DEF IInv, CoreTypeOK, Live, Terminal
  <1>5. \A p : OrderOf(e)' = OrderOf(e) /\ SettledHalves(p)' = IF p = o THEN S \cup {e} ELSE SettledHalves(p)
    <2>1. OrderOf(e) = o
      BY <1>1 DEF HistoryOK, OutcomesOK
    <2>2. \A d : OrderOf(d)' = OrderOf(d)
      BY DEF OrderOf
    <2> QED BY <1>3, <2>1, <2>2 DEF SettledHalves
  <1>6. Reservation(o)' = Reservation(o) /\ Buying(o)' = Buying(o)
        /\ Owed(o, filled[o])' = Owed(o, f + q)
    BY <1>4 DEF FillsGrow, Reservation, Owed, Buying
  <1>7. Cardinality(S \cup {e}) = Cardinality(S) + 1 /\ Cardinality(S) \in Nat /\ S \cup {e} # {}
    BY <1>1, FS_AddElement, FS_CardinalityType
  <1>8. ASSUME status'[o] \in Live
        PROVE  /\ reserved'[o] = Reservation(o)'
               /\ ~Buying(o)' => Spent(o)' = filled'[o]
               /\ Buying(o)' /\ SettledHalves(o)' = {} => Spent(o)' = 0
               /\ Buying(o)' /\ SettledHalves(o)' # {} =>
                    Spent(o)' + 1 <= Owed(o, filled[o])' + Cardinality(SettledHalves(o)')
    <2>1. /\ reserved[o] = Reservation(o)
          /\ ~Buying(o) => Spent(o) = f
          /\ Buying(o) /\ S = {} => Spent(o) = 0
          /\ Buying(o) /\ S # {} => Spent(o) + 1 <= Owed(o, f) + Cardinality(S)
      BY <1>1, <1>8 DEF SpentOK
    <2>2. Spent(o) \in Nat /\ Spent(o)' = Spent(o) + c + r /\ Outstanding(o) \in Int
      <3>1. consumed[o] \in Nat /\ released[o] \in Nat /\ reserved[o] \in Nat
        BY <1>1 DEF IInv, CoreTypeOK
      <3>2. consumed'[o] = consumed[o] + c /\ released'[o] = released[o] + r
        BY <1>4, <1>8
      <3>3. Spent(o)' = consumed'[o] + released'[o] /\ Spent(o) = consumed[o] + released[o]
            /\ Outstanding(o) = reserved[o] - consumed[o] - released[o]
        BY DEF Spent, Outstanding
      <3> HIDE DEF o, c, r
      <3>4. c \in Nat /\ r \in Nat
        BY <1>2
      <3>5. consumed'[o] + released'[o] = consumed[o] + released[o] + c + r
        BY <3>1, <3>2, <3>4
      <3>6. Spent(o) \in Nat /\ Outstanding(o) \in Int
        BY <3>1, <3>3
      <3> QED BY <3>3, <3>5, <3>6
    <2>3. CASE ~Buying(o)
      <3>1. c = q /\ r = 0
        BY <1>1, <2>2, <2>3 DEF HalfCost, HalfRelease, Greater, Lesser
      <3> QED BY <1>1, <1>2, <1>3, <1>4, <1>6, <2>1, <2>2, <2>3, <3>1
    <2>4. CASE Buying(o)
      <3> DEFINE was == Owed(o, f)
                 is  == Owed(o, f + q)
      <3>1. was \in Nat /\ is \in Nat
        <4>1. f + q \in Nat
          BY <1>1, <1>2
        <4> QED BY <1>1, <1>2, <2>4, <4>1, OwedType
      <3>2. c <= is - was + 1 /\ (S = {} => c <= is)
        BY <1>1, <2>4, SliceCost
      <3>3. r = 0 \/ r <= is - was - c
        BY <1>2, <2>2, <2>4, <3>1 DEF HalfRelease, Greater, Lesser
      <3>4. S = {} => c + r <= is
        BY <1>2, <3>1, <3>2, <3>3
      <3>5. c + r <= is - was + 1
        <4>1. was <= is
          BY <1>1, <1>2, <2>4, OwedGrows
        <4> QED BY <1>2, <3>1, <3>2, <3>3, <4>1
      <3> HIDE DEF was, is, c, r, S
      <3>6. CASE S = {}
        <4>1. Cardinality(S \cup {e}) >= 1
          BY <1>7
        <4>2. Spent(o)' + 1 <= is + Cardinality(S \cup {e})
          BY <1>2, <1>7, <2>1, <2>2, <2>4, <3>1, <3>4, <3>6, <4>1
        <4> QED BY <1>3, <1>5, <1>6, <1>7, <2>1, <2>4, <4>2 DEF is
      <3>7. CASE S # {}
        <4>1. Spent(o)' + 1 <= is + Cardinality(S \cup {e})
          BY <1>2, <1>7, <2>1, <2>2, <2>4, <3>1, <3>5, <3>7 DEF was
        <4> QED BY <1>3, <1>5, <1>6, <1>7, <2>1, <2>4, <4>1 DEF is
      <3> QED BY <3>6, <3>7
    <2> QED BY <2>3, <2>4
  <1>9. ASSUME NEW p \in Orders, p # o, status'[p] \in Live
        PROVE  /\ reserved'[p] = Reservation(p)'
               /\ ~Buying(p)' => Spent(p)' = filled'[p]
               /\ Buying(p)' /\ SettledHalves(p)' = {} => Spent(p)' = 0
               /\ Buying(p)' /\ SettledHalves(p)' # {} =>
                    Spent(p)' + 1 <= Owed(p, filled[p])' + Cardinality(SettledHalves(p)')
    <2>1. status[p] \in Live /\ SettledHalves(p)' = SettledHalves(p)
      BY <1>5, <1>9
    <2> QED BY <1>3, <1>4, <1>9, <2>1, SpentKept
  <1> QED BY <1>1, <1>8, <1>9 DEF SpentOK

\* Every step keeps what is spent of the live orders within what is owed: what
\* was terminal stays so if every execution is worth something.
LEMMA StepSpent ==
    ASSUME IInv, IInv', HistoryOK, TerminalHoldsNothing, FillsHaveValue, BoughtWithin, SpentOK,
           [Next]_vars
    PROVE  SpentOK'
  <1>1. FillsGrow
    BY StepGrows
  <1>2. \A o \in Orders : status[o] \in Terminal => status'[o] = status[o]
    BY StepKeepsTerminal
  <1>3. CASE \E o \in Orders : Submit(o)
    BY <1>1, <1>3, SubmitSpent
  <1>4. CASE \E o \in Orders : RequestCancel(o)
    <2>1. UNCHANGED <<reserved, consumed, filled, applied, released>>
      BY <1>4 DEF RequestCancel, ledgerVars
    <2>2. \A o \in Orders : status'[o] \in Live => status[o] \in Live
      BY <1>4 DEF RequestCancel, IInv, CoreTypeOK
    <2> QED BY <1>1, <2>1, <2>2, SpentSame
  <1>5. CASE \E p \in Partitions : Consume(p)
    <2>1. PICK i \in 1 .. Len(outcomes) :
            /\ \/ SettleHalf(outcomes[i])
               \/ SkipDuplicate(outcomes[i])
               \/ ApplyDisposition(outcomes[i])
               \/ ApplyVerdict(outcomes[i])
            /\ UNCHANGED marketVars
      BY <1>5 DEF Consume
    <2>2. PICK h : h = outcomes[i]
      OBVIOUS
    <2>3. h.order \in Orders /\ fills' = fills
      BY <2>1, <2>2, NextRecord DEF marketVars
    <2>4. status[h.order] \in Live \cup Terminal
      <3>1. Met(h.order) /\ h.order \in Orders
        BY <2>2, <2>3 DEF HistoryOK, OutcomesOK
      <3>2. Placed(h.order)
        BY <3>1, MetIsPlaced DEF IInv
      <3>3. status[h.order] \in Statuses
        BY <3>1 DEF IInv, CoreTypeOK
      <3> QED BY <3>1, <3>2, <3>3 DEF HistoryOK, SettledOK, Statuses
    <2>5. \A o \in Orders : status'[o] \in Live => status[o] \in Live
      <3>1. \A o \in Orders : o # h.order => status'[o] = status[o]
        BY <2>1, <2>2 DEF SettleHalf, SkipDuplicate, ApplyDisposition, ApplyVerdict, orderVars,
                          IInv, CoreTypeOK
      <3> QED BY <1>2, <2>4, <3>1 DEF Live, Terminal
    <2>6. CASE SettleHalf(h)
      BY <1>1, <2>2, <2>3, <2>5, <2>6, SettleSpent
    <2>7. CASE SkipDuplicate(h)
      <3>1. UNCHANGED <<reserved, consumed, filled, applied, released>>
        BY <2>7 DEF SkipDuplicate, orderVars, ledgerVars
      <3> QED BY <1>1, <2>5, <3>1, SpentSame
    <2>8. CASE ApplyDisposition(h) \/ ApplyVerdict(h)
      <3>1. UNCHANGED <<reserved, consumed, filled, applied>> /\ ReleaseIfTerminal(h.order)
        BY <2>8 DEF ApplyDisposition, ApplyVerdict, ledgerVars
      <3>2. \A o \in Orders : status'[o] \in Live => released'[o] = released[o]
        BY <2>3, <3>1, AnswerReleases DEF Live, Terminal
      <3> QED BY <1>1, <2>5, <3>1, <3>2, SpentSame
    <2> QED BY <2>1, <2>2, <2>6, <2>7, <2>8
  <1>6. CASE UNCHANGED <<orderVars, applied>>
    BY <1>1, <1>6, SpentSame DEF orderVars
  <1>7. \/ \E o \in Orders : Submit(o) \/ RequestCancel(o)
        \/ \E p \in Partitions : Consume(p)
        \/ UNCHANGED <<orderVars, applied>>
    BY DEF Next, MarketStep, Deposit, SeedShares, ConsumeFails, RestartConsumers,
           PromoteStandby, vars, coreVars, ledgerVars
  <1> QED BY <1>3, <1>4, <1>5, <1>6, <1>7

\* A half that is to come is within what the reservation was sized for, and so
\* within what is left of it but for the cents.
LEMMA SpentBounds ==
    ASSUME IInv, HistoryOK, BoughtWithin, SpentOK
    PROVE  ShortByCents
  <1>1. SUFFICES ASSUME NEW i \in 1 .. Len(outcomes), NEW h, h = outcomes[i], h.type = "HALF",
                        Event(h) \notin applied, status[h.order] \in Live
                 PROVE  Lack(h) <= Cardinality(SettledHalves(h.order))
    BY DEF ShortByCents
  <1> DEFINE o == h.order
             S == SettledHalves(o)
             q == HalfQty(h)
             f == filled[o]
             c == HalfCost(h)
             Q == req[o].qty
  <1>2. /\ h \in OutcomeRecord /\ o \in Orders /\ h.fill \in 1 .. Len(fills)
        /\ q \in Nat \ {0} /\ f + q <= Q /\ IsFiniteSet(S)
        /\ S = {} => f = 0
    BY <1>1, HalfToCome
  <1>3. /\ Cardinality(S) \in Nat /\ f \in Nat /\ c \in Nat /\ Q \in Nat
    BY <1>1, <1>2, FS_CardinalityType, HalfType, RequestType DEF IInv, CoreTypeOK, MarketTypeOK
  <1>4. /\ reserved[o] = Reservation(o)
        /\ ~Buying(o) => Spent(o) = f
        /\ Buying(o) /\ S = {} => Spent(o) = 0
        /\ Buying(o) /\ S # {} => Spent(o) + 1 <= Owed(o, f) + Cardinality(S)
    BY <1>1, <1>2 DEF SpentOK
  <1>5. Lack(h) = c - reserved[o] + Spent(o) /\ reserved[o] \in Nat /\ Spent(o) \in Nat
    <2>1. reserved[o] \in Nat /\ consumed[o] \in Nat /\ released[o] \in Nat
      BY <1>2 DEF IInv, CoreTypeOK
    <2>2. Lack(h) = c - (reserved[o] - consumed[o] - released[o])
      BY DEF Lack, Outstanding
    <2> HIDE DEF o, c
    <2> QED BY <1>3, <2>1, <2>2 DEF Spent
  <1>6. CASE ~Buying(o)
    <2>1. c = q /\ reserved[o] = Q
      BY <1>4, <1>6 DEF HalfCost, Reservation
    <2> HIDE DEF o, q, f, c, Q, S
    <2>2. Lack(h) <= 0
      BY <1>2, <1>3, <1>4, <1>5, <1>6, <2>1
    <2>3. Lack(h) \in Int
      BY <1>3, <1>5
    <2> QED BY <1>3, <2>2, <2>3 DEF S, o
  <1>7. CASE Buying(o)
    <2> DEFINE was == Owed(o, f)
               is  == Owed(o, f + q)
               all == Owed(o, Q)
    <2>1. f + q \in Nat /\ Q - (f + q) \in Nat /\ (f + q) + (Q - (f + q)) = Q
      <3> HIDE DEF o, q, f, Q
      <3> QED BY <1>2, <1>3
    <2>2. was \in Nat /\ is \in Nat /\ all \in Nat
      BY <1>2, <1>3, <1>7, <2>1, OwedType
    <2>3. is <= all
      <3>1. Owed(o, f + q) <= Owed(o, (f + q) + (Q - (f + q)))
        BY <1>2, <1>7, <2>1, OwedGrows
      <3> QED BY <2>1, <3>1
    <2>4. c <= is - was + 1 /\ (S = {} => c <= is)
      BY <1>1, <1>7, SliceCost
    <2>5. reserved[o] = all
      BY <1>4, <1>7 DEF Reservation
    <2> HIDE DEF was, is, all, c, q, f, Q, S
    <2>6. Lack(h) <= Cardinality(S)
      <3>1. CASE S = {}
        BY <1>3, <1>4, <1>5, <1>7, <2>2, <2>3, <2>4, <2>5, <3>1
      <3>2. CASE S # {}
        BY <1>3, <1>4, <1>5, <1>7, <2>2, <2>3, <2>4, <2>5, <3>2 DEF was
      <3> QED BY <3>1, <3>2
    <2> QED BY <2>6 DEF S
  <1> QED BY <1>6, <1>7

\* A reservation falls short of what its order's fills cost by no more than a
\* cent for each half already paid, so the first fill always fits: for every fee
\* schedule, scale and price, as long as no execution rounds to nothing
\* (submit.go, reservation; outcomes.go, settleReservation).
THEOREM ShortfallBounded == Spec /\ []FillsHaveValue => []ShortByCents
  <1>1. Init => BoughtWithin /\ SpentOK
    BY DEF Init, MarketInit, BoughtWithin, SpentOK, Live
  <1>2. IInv /\ IInv' /\ HistoryOK /\ TerminalHoldsNothing /\ FillsHaveValue
          /\ BoughtWithin /\ SpentOK /\ [Next]_vars => BoughtWithin' /\ SpentOK'
    BY StepBought, StepSpent
  <1>3. IInv /\ HistoryOK /\ BoughtWithin /\ SpentOK => ShortByCents
    BY SpentBounds
  <1> QED BY <1>1, <1>2, <1>3, Inductive, HistoryHolds, TerminalReleases, PTL DEF Spec
=============================================================================
