------------------------------- MODULE Escrow -------------------------------
(***************************************************************************)
(* What the trading core promises about money and about shares: an account *)
(* has a balance, every holder (an order) may hold part of the balance of  *)
(* its owner, only what is not held may be promised again, and what is     *)
(* spent is taken from what its holder holds.                              *)
(*                                                                         *)
(* The second half of the module proves that nothing is promised twice,    *)
(* for every set of accounts and every finite set of holders.  The         *)
(* argument is about sums: raising one member of a sum by x raises the sum *)
(* by x at most, and lowering a member by x and more lowers it by x at     *)
(* least.                                                                  *)
(***************************************************************************)
EXTENDS Integers, FiniteSets, FiniteSetTheorems, TLAPS

CONSTANTS Accounts, Holders

VARIABLES owner,    \* the account each holder belongs to; never changes
          balance,  \* what an account has
          held      \* what a holder still holds of it

escrowVars == <<owner, balance, held>>

\* The sum of f over S, counted as a set: one token for every unit.
Tokens(f, S) == UNION {{h} \X (1 .. f[h]) : h \in S}
Total(f, S)  == Cardinality(Tokens(f, S))

OwnedBy(a) == {h \in Holders : owner[h] = a}
Free(a)    == balance[a] - Total(held, OwnedBy(a))

Init ==
    /\ owner \in [Holders -> Accounts]
    /\ balance \in [Accounts -> Nat]
    /\ held = [h \in Holders |-> 0]

\* By how much a step raises, or lowers, an account or what a holder holds.
Gain(f, i) == f'[i] - f[i]
Loss(f, i) == f[i] - f'[i]

Credit(a) ==
    /\ Gain(balance, a) \in Nat
    /\ balance' = [balance EXCEPT ![a] = @ + Gain(balance, a)]
    /\ UNCHANGED <<owner, held>>

\* Something bought at once, with what is free.
Debit(a) ==
    /\ Loss(balance, a) \in 0 .. Free(a)
    /\ balance' = [balance EXCEPT ![a] = @ - Loss(balance, a)]
    /\ UNCHANGED <<owner, held>>

Hold(h) ==
    /\ Gain(held, h) \in 0 .. Free(owner[h])
    /\ held' = [held EXCEPT ![h] = @ + Gain(held, h)]
    /\ UNCHANGED <<owner, balance>>

\* Spends some of what is held, and may give back more of it.
Spend(h) ==
    /\ Loss(held, h) \in 0 .. held[h]
    /\ Loss(balance, owner[h]) \in 0 .. Loss(held, h)
    /\ held' = [held EXCEPT ![h] = @ - Loss(held, h)]
    /\ balance' = [balance EXCEPT ![owner[h]] = @ - Loss(balance, owner[h])]
    /\ UNCHANGED owner

Next ==
    \/ \E a \in Accounts : Credit(a) \/ Debit(a)
    \/ \E h \in Holders : Hold(h) \/ Spend(h)

Spec == Init /\ [][Next]_escrowVars

TypeOK ==
    /\ owner \in [Holders -> Accounts]
    /\ balance \in [Accounts -> Int]
    /\ held \in [Holders -> Nat]

\* Nothing is promised twice: every account has what its holders hold.
Covered == \A a \in Accounts : Free(a) >= 0

-----------------------------------------------------------------------------
(* Sums as sets. *)

\* The tokens of a finite set of holders are finitely many.
LEMMA TokensFinite ==
    ASSUME NEW D, NEW S \in SUBSET D, IsFiniteSet(S), NEW f \in [D -> Nat]
    PROVE  IsFiniteSet(Tokens(f, S)) /\ Total(f, S) \in Nat
  <1> DEFINE Of(h) == {h} \X (1 .. f[h])
             G == [h \in S |-> Of(h)]
             T == {Of(h) : h \in S}
  <1>1. \A h \in S : IsFiniteSet(Of(h))
    <2> SUFFICES ASSUME NEW h \in S PROVE IsFiniteSet(Of(h))
      OBVIOUS
    <2>1. IsFiniteSet({h})
      BY FS_Singleton
    <2>2. 1 \in Int /\ f[h] \in Int
      OBVIOUS
    <2>3. IsFiniteSet(1 .. f[h])
      BY <2>2, FS_Interval
    <2> QED BY <2>1, <2>3, FS_Product
  <1>2. G \in Surjection(S, T)
    BY DEF Surjection
  <1>3. IsFiniteSet(T)
    BY <1>2, FS_Surjection
  <1>4. IsFiniteSet(UNION T)
    BY <1>1, <1>3, FS_UNION
  <1> QED BY <1>4, FS_CardinalityType DEF Tokens, Total

\* An interval of one holder's tokens counts as many as it is long.
LEMMA TokensOfOne ==
    ASSUME NEW h, NEW i \in Nat, NEW j \in Nat, i <= j
    PROVE  /\ IsFiniteSet({h} \X (i + 1 .. j))
           /\ Cardinality({h} \X (i + 1 .. j)) = j - i
  <1>1. IsFiniteSet({h}) /\ Cardinality({h}) = 1
    BY FS_Singleton
  <1> DEFINE I == i + 1 .. j
  <1>a. i + 1 \in Int /\ j \in Int
    OBVIOUS
  <1>b. IsFiniteSet(I) /\ Cardinality(I) = IF i + 1 > j THEN 0 ELSE j - (i + 1) + 1
    BY <1>a, FS_Interval
  <1>2. IsFiniteSet(I) /\ Cardinality(I) = j - i
    BY <1>b
  <1>3. /\ IsFiniteSet({h} \X (i + 1 .. j))
        /\ Cardinality({h} \X (i + 1 .. j)) = Cardinality({h}) * Cardinality(I)
    BY <1>1, <1>2, FS_Product
  <1> QED BY <1>1, <1>2, <1>3

\* Holding nothing sums to nothing.
LEMMA TotalZero ==
    ASSUME NEW D, NEW S \in SUBSET D
    PROVE  Total([h \in D |-> 0], S) = 0
  BY FS_EmptySet DEF Total, Tokens

\* A sum depends on the members of its set only.
LEMMA TotalSame ==
    ASSUME NEW S, NEW f, NEW g, \A h \in S : f[h] = g[h]
    PROVE  Total(f, S) = Total(g, S)
  <1>1. Tokens(f, S) = Tokens(g, S)
    BY DEF Tokens
  <1> QED BY <1>1 DEF Total

\* Raising one holder by x raises the sum by x at most.
LEMMA TotalRaise ==
    ASSUME NEW D, NEW S \in SUBSET D, IsFiniteSet(S), NEW f \in [D -> Nat],
           NEW h \in D, NEW x \in Nat
    PROVE  Total([f EXCEPT ![h] = @ + x], S) <= Total(f, S) + x
  <1> DEFINE g == [f EXCEPT ![h] = @ + x]
             New == {h} \X (f[h] + 1 .. f[h] + x)
  <1>1. g \in [D -> Nat]
    OBVIOUS
  <1>a. f[h] \in Nat /\ f[h] + x \in Nat /\ f[h] <= f[h] + x
    OBVIOUS
  <1>b. IsFiniteSet(New) /\ Cardinality(New) = (f[h] + x) - f[h]
    BY <1>a, TokensOfOne
  <1>2. IsFiniteSet(New) /\ Cardinality(New) = x
    BY <1>a, <1>b
  <1>3. Tokens(g, S) \subseteq Tokens(f, S) \cup New
    BY DEF Tokens
  <1>4. IsFiniteSet(Tokens(f, S)) /\ Total(f, S) \in Nat
    BY TokensFinite
  <1>5. /\ IsFiniteSet(Tokens(f, S) \cup New)
        /\ Cardinality(Tokens(f, S) \cup New)
             = Cardinality(Tokens(f, S)) + x - Cardinality(Tokens(f, S) \cap New)
    BY <1>2, <1>4, FS_Union
  <1>6. Cardinality(Tokens(f, S) \cap New) \in Nat
    BY <1>2, FS_Intersection, FS_CardinalityType
  <1>7. Cardinality(Tokens(g, S)) <= Cardinality(Tokens(f, S) \cup New)
    BY <1>3, <1>5, FS_Subset
  <1>8. Total(g, S) \in Nat
    BY <1>1, TokensFinite
  <1> QED BY <1>4, <1>5, <1>6, <1>7, <1>8 DEF Total

\* Lowering one holder of the set by x and more lowers the sum by x at least.
LEMMA TotalLower ==
    ASSUME NEW D, NEW S \in SUBSET D, IsFiniteSet(S), NEW f \in [D -> Nat],
           NEW h \in S, NEW x \in Nat, NEW y \in Nat, x + y <= f[h]
    PROVE  Total([f EXCEPT ![h] = @ - x - y], S) + x <= Total(f, S)
  <1> DEFINE g == [f EXCEPT ![h] = @ - x - y]
             Gone == {h} \X ((f[h] - x) + 1 .. f[h])
  <1>0. f[h] \in Nat /\ f[h] - x \in Nat /\ f[h] - x <= f[h]
    OBVIOUS
  <1>1. g \in [D -> Nat]
    OBVIOUS
  <1>a. IsFiniteSet(Gone) /\ Cardinality(Gone) = f[h] - (f[h] - x)
    BY <1>0, TokensOfOne
  <1>2. IsFiniteSet(Gone) /\ Cardinality(Gone) = x
    BY <1>0, <1>a
  <1>3. Gone \subseteq Tokens(f, S)
    BY <1>0 DEF Tokens
  <1>4. Tokens(g, S) \subseteq Tokens(f, S)
    BY <1>0 DEF Tokens
  <1>5. Tokens(g, S) \cap Gone = {}
    BY <1>0 DEF Tokens
  <1>6. IsFiniteSet(Tokens(f, S)) /\ IsFiniteSet(Tokens(g, S))
    BY <1>1, TokensFinite
  <1>7. Cardinality(Tokens(g, S) \cup Gone)
          = Cardinality(Tokens(g, S)) + x - Cardinality(Tokens(g, S) \cap Gone)
    BY <1>2, <1>6, FS_Union
  <1>8. Cardinality(Tokens(g, S) \cup Gone) <= Cardinality(Tokens(f, S))
    BY <1>3, <1>4, <1>6, FS_Subset
  <1>9. Total(g, S) \in Nat /\ Total(f, S) \in Nat
    BY <1>1, TokensFinite
  <1>10. Cardinality(Tokens(g, S) \cap Gone) = 0
    BY <1>5, FS_EmptySet
  <1> QED BY <1>7, <1>8, <1>9, <1>10 DEF Total

\* One step of the escrow keeps every account covered.
LEMMA CoveredStep ==
    ASSUME IsFiniteSet(Holders), TypeOK, Covered, [Next]_escrowVars
    PROVE  TypeOK' /\ Covered'
  <1> USE DEF TypeOK
  <1>0. \A a \in Accounts : OwnedBy(a) \in SUBSET Holders /\ IsFiniteSet(OwnedBy(a))
    BY FS_Subset DEF OwnedBy
  <1>1. \A a \in Accounts : Total(held, OwnedBy(a)) \in Nat
    BY <1>0, TokensFinite
  <1>2. ASSUME NEW a \in Accounts, Credit(a)
        PROVE  TypeOK' /\ Covered'
    <2> DEFINE x == Gain(balance, a)
    <2>1. /\ owner' = owner /\ held' = held /\ balance' = [balance EXCEPT ![a] = @ + x]
          /\ x \in Nat
      BY <1>2 DEF Credit
    <2> HIDE DEF x
    <2>2. TypeOK'
      BY <2>1
    <2>3. \A b \in Accounts : balance'[b] >= balance[b]
      BY <2>1
    <2>4. \A b \in Accounts : Total(held, OwnedBy(b))' = Total(held, OwnedBy(b))
      BY <2>1 DEF OwnedBy, Total, Tokens
    <2> QED BY <1>1, <2>1, <2>2, <2>3, <2>4 DEF Covered, Free
  <1>3. ASSUME NEW a \in Accounts, Debit(a)
        PROVE  TypeOK' /\ Covered'
    <2> DEFINE x == Loss(balance, a)
    <2>1. /\ owner' = owner /\ held' = held /\ balance' = [balance EXCEPT ![a] = @ - x]
          /\ x \in Int /\ x <= Free(a)
      BY <1>1, <1>3 DEF Debit, Free
    <2> HIDE DEF x
    <2>2. x <= balance[a] - Total(held, OwnedBy(a))
      BY <2>1 DEF Free
    <2>3. \A b \in Accounts : Total(held, OwnedBy(b))' = Total(held, OwnedBy(b))
      BY <2>1 DEF OwnedBy, Total, Tokens
    <2>4. \A b \in Accounts : balance'[b] = IF b = a THEN balance[b] - x ELSE balance[b]
      BY <2>1
    <2> QED BY <1>1, <2>1, <2>2, <2>3, <2>4 DEF Covered, Free
  <1>4. ASSUME NEW h \in Holders, Hold(h)
        PROVE  TypeOK' /\ Covered'
    <2> DEFINE x == Gain(held, h)
    <2>1. owner' = owner /\ balance' = balance
      BY <1>4 DEF Hold
    <2>2. owner[h] \in Accounts /\ Free(owner[h]) \in Int
      BY <1>1 DEF Free
    <2>3. x \in Nat /\ x <= Free(owner[h]) /\ held' = [held EXCEPT ![h] = @ + x]
      BY <1>4, <2>2 DEF Hold
    <2> HIDE DEF x
    <2>4. TypeOK'
      BY <2>1, <2>3
    <2>5. ASSUME NEW b \in Accounts PROVE Free(b)' >= 0
      <3>1. OwnedBy(b)' = OwnedBy(b)
        BY <2>1 DEF OwnedBy
      <3>2. Free(b)' = balance[b] - Total(held', OwnedBy(b))
        BY <2>1, <3>1 DEF Free, Total, Tokens
      <3>3. CASE b = owner[h]
        <4>1. Total(held', OwnedBy(b)) <= Total(held, OwnedBy(b)) + x
          BY <1>0, <2>3, TotalRaise
        <4>2. balance[b] - Total(held, OwnedBy(b)) >= x
          BY <2>3, <3>3 DEF Free
        <4>3. Total(held', OwnedBy(b)) \in Nat
          BY <1>0, <2>4, TokensFinite
        <4> QED BY <1>1, <2>3, <3>2, <4>1, <4>2, <4>3
      <3>4. CASE b # owner[h]
        <4>1. Total(held', OwnedBy(b)) = Total(held, OwnedBy(b))
          BY <2>3, <3>4, TotalSame DEF OwnedBy
        <4> QED BY <3>2, <4>1 DEF Covered, Free
      <3> QED BY <3>3, <3>4
    <2> QED BY <2>4, <2>5 DEF Covered
  <1>5. ASSUME NEW h \in Holders, Spend(h)
        PROVE  TypeOK' /\ Covered'
    <2> DEFINE x == Loss(balance, owner[h])
               z == Loss(held, h)
               y == z - x
    <2>0. held[h] \in Nat
      OBVIOUS
    <2>a. /\ owner' = owner
          /\ balance' = [balance EXCEPT ![owner[h]] = @ - x]
          /\ held' = [held EXCEPT ![h] = @ - z]
          /\ z \in 0 .. held[h] /\ x \in 0 .. z
      BY <1>5 DEF Spend
    <2> HIDE DEF x, z
    <2>b. x \in Nat /\ y \in Nat /\ x + y <= held[h] /\ z = x + y
      BY <2>0, <2>a
    <2> HIDE DEF y
    <2>c. held[h] - z = held[h] - x - y
      BY <2>0, <2>a, <2>b
    <2>1. /\ owner' = owner
          /\ balance' = [balance EXCEPT ![owner[h]] = @ - x]
          /\ held' = [held EXCEPT ![h] = @ - x - y]
          /\ x \in Nat /\ y \in Nat /\ x + y <= held[h]
      BY <2>a, <2>b, <2>c
    <2>2. TypeOK'
      BY <2>1
    <2>3. ASSUME NEW b \in Accounts PROVE Free(b)' >= 0
      <3>1. OwnedBy(b)' = OwnedBy(b)
        BY <2>1 DEF OwnedBy
      <3>2. Free(b)' = balance'[b] - Total(held', OwnedBy(b))
        BY <3>1 DEF Free, Total, Tokens
      <3>3. CASE b = owner[h]
        <4>1. h \in OwnedBy(b)
          BY <3>3 DEF OwnedBy
        <4>2. Total(held', OwnedBy(b)) + x <= Total(held, OwnedBy(b))
          BY <1>0, <2>1, <4>1, TotalLower
        <4>3. Total(held', OwnedBy(b)) \in Nat
          BY <1>0, <2>2, TokensFinite
        <4>4. balance'[b] = balance[b] - x
          BY <2>1, <3>3
        <4> QED BY <1>1, <2>1, <3>2, <4>2, <4>3, <4>4 DEF Covered, Free
      <3>4. CASE b # owner[h]
        <4>1. Total(held', OwnedBy(b)) = Total(held, OwnedBy(b))
          BY <2>1, <3>4, TotalSame DEF OwnedBy
        <4>2. balance'[b] = balance[b]
          BY <2>1, <3>4
        <4> QED BY <3>2, <4>1, <4>2 DEF Covered, Free
      <3> QED BY <3>3, <3>4
    <2> QED BY <2>2, <2>3 DEF Covered
  <1>6. CASE UNCHANGED escrowVars
    BY <1>6 DEF escrowVars, Covered, Free, OwnedBy, Total, Tokens
  <1> QED BY <1>2, <1>3, <1>4, <1>5, <1>6 DEF Next

\* For every set of accounts and every finite set of holders, nothing is ever
\* promised twice.
THEOREM EscrowCovered ==
    ASSUME IsFiniteSet(Holders)
    PROVE  Spec => []Covered
  <1>1. Init => TypeOK /\ Covered
    <2> SUFFICES ASSUME Init PROVE TypeOK /\ Covered
      OBVIOUS
    <2>1. \A a \in Accounts : OwnedBy(a) \in SUBSET Holders
      BY DEF OwnedBy
    <2>2. \A a \in Accounts : Total(held, OwnedBy(a)) = 0
      BY <2>1, TotalZero DEF Init
    <2> QED BY <2>2 DEF Init, TypeOK, Covered, Free
  <1>2. TypeOK /\ Covered /\ [Next]_escrowVars => (TypeOK /\ Covered)'
    BY CoveredStep
  <1> QED BY <1>1, <1>2, PTL DEF Spec

-----------------------------------------------------------------------------
(* What a step of a system has to show to be a step of the escrow. *)

LEMMA IsCredit ==
    ASSUME TypeOK, NEW a \in Accounts, NEW x \in Nat,
           balance' = [balance EXCEPT ![a] = @ + x], UNCHANGED owner, UNCHANGED held
    PROVE  Credit(a)
  <1>1. Gain(balance, a) = x
    BY DEF TypeOK, Gain
  <1> QED BY <1>1 DEF Credit

LEMMA IsDebit ==
    ASSUME TypeOK, NEW a \in Accounts, NEW x \in Nat, x <= Free(a),
           balance' = [balance EXCEPT ![a] = @ - x], UNCHANGED owner, UNCHANGED held,
           Free(a) \in Int
    PROVE  Debit(a)
  <1>1. Loss(balance, a) = x
    BY DEF TypeOK, Loss
  <1> QED BY <1>1 DEF Debit

LEMMA IsHold ==
    ASSUME TypeOK, NEW h \in Holders, NEW x \in Nat, x <= Free(owner[h]),
           held' \in [Holders -> Nat], held'[h] = held[h] + x,
           \A g \in Holders : g # h => held'[g] = held[g],
           UNCHANGED owner, UNCHANGED balance, Free(owner[h]) \in Int
    PROVE  Hold(h)
  <1>1. Gain(held, h) = x
    BY DEF TypeOK, Gain
  <1>2. held' = [held EXCEPT ![h] = @ + x]
    BY DEF TypeOK
  <1> QED BY <1>1, <1>2 DEF Hold

LEMMA IsSpend ==
    ASSUME TypeOK, NEW h \in Holders, NEW x \in Nat, held'[h] + x <= held[h],
           held' \in [Holders -> Nat],
           \A g \in Holders : g # h => held'[g] = held[g],
           balance' = [balance EXCEPT ![owner[h]] = @ - x], UNCHANGED owner
    PROVE  Spend(h)
  <1>1. Loss(balance, owner[h]) = x
    BY DEF TypeOK, Loss
  <1>2. held[h] \in Nat /\ held'[h] \in Nat
    BY DEF TypeOK
  <1>3. Loss(held, h) \in Nat /\ held'[h] = held[h] - Loss(held, h)
    BY <1>2 DEF Loss
  <1>4. Loss(held, h) <= held[h] /\ x <= Loss(held, h)
    BY <1>2 DEF Loss
  <1>5. held' = [held EXCEPT ![h] = @ - Loss(held, h)]
    BY <1>3 DEF TypeOK
  <1> QED BY <1>1, <1>2, <1>3, <1>4, <1>5 DEF Spend

\* What is free is a number.
LEMMA FreeType ==
    ASSUME IsFiniteSet(Holders), TypeOK, NEW a \in Accounts
    PROVE  Free(a) \in Int
  <1>1. OwnedBy(a) \in SUBSET Holders /\ IsFiniteSet(OwnedBy(a))
    BY FS_Subset DEF OwnedBy
  <1>2. Total(held, OwnedBy(a)) \in Nat
    BY <1>1, TokensFinite DEF TypeOK
  <1> QED BY <1>2 DEF Free, TypeOK
=============================================================================
