---------------------------- MODULE Money_proofs ----------------------------
(***************************************************************************)
(* What the money operators return and how they round, for every scale,    *)
(* and how amounts add up over a finite set.                               *)
(*                                                                         *)
(* A sum is a fold, which is a recursive function, and what is proved of   *)
(* it is proved by induction.  The induction theorems of the library take  *)
(* an operator as a parameter; here they are stated for sets, as Induct    *)
(* and SetInduct, and rest on WFMin, which takes none.                     *)
(***************************************************************************)
EXTENDS Money, FiniteSetTheorems, WellFoundedInduction, TLAPS

-----------------------------------------------------------------------------
(* Sums. *)

\* The member a fold takes first.
Pick(s) == CHOOSE x \in s : TRUE

\* g adds up f over every subset of S.
Adds(g, f, S) ==
    g = [s \in SUBSET S |-> IF s = {} THEN 0 ELSE f[Pick(s)] + g[s \ {Pick(s)}]]

\* A set of natural numbers that is not empty has a least member.
LEMMA LeastNat ==
    ASSUME NEW T \in SUBSET Nat, T # {}
    PROVE \E x \in T : \A y \in T : x <= y
  <1>1. PICK R : R = {ss \in Nat \X Nat : ss[1] < ss[2]} /\ IsWellFoundedOn(R, Nat)
     BY NatLessThanWellFounded, Zenon DEF OpToRel
  <1>2. PICK x \in T : \A y \in T : ~ (<<y, x>> \in R)
     BY <1>1, WFMin, Zenon
  <1>3. \A y \in T : ~(y < x)
    <2>1. R = {ss \in Nat \X Nat : ss[1] < ss[2]}
      BY <1>1
    <2> QED BY <2>1, <1>2
  <1> QED BY <1>3

\* Induction over the natural numbers, for the set of those that have a property.
LEMMA Induct ==
    ASSUME NEW S \in SUBSET Nat, 0 \in S, \A n \in S : n + 1 \in S
    PROVE  S = Nat
  <1> SUFFICES ASSUME Nat \ S # {} PROVE FALSE
    OBVIOUS
  <1>1. PICK x \in Nat \ S : \A y \in Nat \ S : x <= y
    BY LeastNat
  <1>2. x # 0 /\ x - 1 \in Nat
    BY <1>1
  <1>3. x - 1 \in S
    BY <1>1, <1>2
  <1>4. (x - 1) + 1 \in S
    BY <1>3
  <1> QED BY <1>1, <1>4

\* What is taken from a set is in it.
LEMMA Choice == ASSUME NEW s, s # {} PROVE Pick(s) \in s
  BY DEF Pick

\* Subsets of a finite set are finite, and smaller by one without a member.
LEMMA Smaller ==
    ASSUME NEW S, IsFiniteSet(S), NEW s \in SUBSET S
    PROVE  /\ Cardinality(s) \in Nat
           /\ Cardinality(s) <= Cardinality(S)
           /\ \A x \in s : Cardinality(s \ {x}) = Cardinality(s) - 1
           /\ Cardinality(s) = 0 <=> s = {}
  BY FS_Subset, FS_CardinalityType, FS_RemoveElement, FS_EmptySet

\* There is such a function: the recursion is on the size of the subset.
LEMMA AddsExists ==
    ASSUME NEW f, NEW S, IsFiniteSet(S)
    PROVE  \E g : Adds(g, f, S)
  <1> DEFINE Body(g, s) == IF s = {} THEN 0 ELSE f[Pick(s)] + g[s \ {Pick(s)}]
             UpTo(g, n) == \A s \in SUBSET S : Cardinality(s) <= n => g[s] = Body(g, s)
             M == {n \in Nat : \E g : UpTo(g, n)}
  <1>1. 0 \in M
    <2>1. UpTo([s \in SUBSET S |-> 0], 0)
      BY Smaller
    <2> QED BY <2>1
  <1>2. ASSUME NEW n \in M
        PROVE  n + 1 \in M
    <2>1. PICK g : UpTo(g, n)
      OBVIOUS
    <2> DEFINE h == [s \in SUBSET S |-> IF Cardinality(s) <= n THEN g[s] ELSE Body(g, s)]
    <2>2. ASSUME NEW s \in SUBSET S, Cardinality(s) <= n + 1
          PROVE  h[s] = Body(h, s)
      <3>1. CASE s = {}
        <4>1. Cardinality(s) <= n
          BY <3>1, Smaller
        <4>2. h[s] = g[s] 
          BY <4>1
        <4> QED BY <3>1, <4>1, <4>2, <2>1
      <3>2. CASE s # {}
        <4>1. Pick(s) \in s
          BY <3>2, Choice
        <4>2. Cardinality(s \ {Pick(s)}) <= n
          BY <2>2, <4>1, Smaller
        <4>3. h[s \ {Pick(s)}] = g[s \ {Pick(s)}]
          BY <4>2
        <4>4. Body(h, s) = Body(g, s)
          BY <4>3
        <4>5. h[s] = Body(g, s)
          BY <2>1
        <4> QED BY <4>4, <4>5
      <3> QED BY <3>1, <3>2
    <2> HIDE DEF h, Body
    <2>3. UpTo(h, n + 1)
      BY <2>2
    <2> QED BY <2>3
  <1> HIDE DEF Body
  <1>3. Cardinality(S) \in M
    <2> HIDE DEF M
    <2>1. M \in SUBSET Nat
      BY DEF M
    <2>2. M = Nat
      BY <1>1, <1>2, <2>1, Induct
    <2> QED BY <2>2, FS_CardinalityType
  <1>4. PICK g : UpTo(g, Cardinality(S))
    BY <1>3
  <1>5. \A s \in SUBSET S : g[s] = Body(g, s)
    BY <1>4, Smaller
  <1> DEFINE h == [s \in SUBSET S |-> g[s]]
  <1>6. \A s \in SUBSET S : Body(h, s) = Body(g, s)
    BY Choice DEF Body
  <1>7. h = [s \in SUBSET S |-> Body(h, s)]
    BY <1>5, <1>6
  <1>8. Adds(h, f, S)
    BY <1>7 DEF Adds, Body
  <1> QED BY <1>8

\* A sum is what such a function gives for the whole set.
LEMMA SumIsAdds ==
    ASSUME NEW f, NEW S, IsFiniteSet(S)
    PROVE  \E g : Adds(g, f, S) /\ SumOver(f, S) = g[S]
  <1> DEFINE g == CHOOSE g : Adds(g, f, S)
  <1>1. Adds(g, f, S)
    BY AddsExists
  <1>2. SumOver(f, S) = g[S]
    BY DEF SumOver, MapThenSumSet, MapThenFoldSet, Adds, Pick
  <1> QED BY <1>1, <1>2

\* Induction over the subsets of a finite set, for the family of those that have
\* a property.
LEMMA SetInduct ==
    ASSUME NEW S, IsFiniteSet(S), NEW F, {} \in F,
           \A T \in SUBSET S : T \in F => \A x \in S \ T : T \cup {x} \in F
    PROVE  S \in F
  <1> DEFINE M == {n \in Nat : \A T \in SUBSET S : Cardinality(T) = n => T \in F}
  <1>1. 0 \in M
    BY Smaller
  <1>2. ASSUME NEW n \in M
        PROVE  n + 1 \in M
    <2>1. ASSUME NEW T \in SUBSET S, Cardinality(T) = n + 1
          PROVE  T \in F
      <3>1. PICK x : x \in T
        BY <2>1, Smaller
      <3>2. Cardinality(T \ {x}) = n
        BY <2>1, <3>1, Smaller
      <3>3. T \ {x} \in F
        BY <3>2
      <3>4. T = (T \ {x}) \cup {x}
        BY <3>1
      <3> QED BY <3>1, <3>3, <3>4
    <2> QED BY <2>1
  <1>3. M = Nat
    <2> HIDE DEF M
    <2>1. M \in SUBSET Nat
      BY DEF M
    <2> QED BY <1>1, <1>2, <2>1, Induct
  <1>4. Cardinality(S) \in M
    BY <1>3, FS_CardinalityType
  <1> QED BY <1>4

\* Integers add up to an integer, and natural numbers to a natural number.
LEMMA AddsType ==
    ASSUME NEW f, NEW S, IsFiniteSet(S), NEW V \in {Nat, Int},
           \A x \in S : f[x] \in V, NEW g, Adds(g, f, S), NEW s \in SUBSET S
    PROVE  g[s] \in V
  <1> DEFINE M == {n \in Nat : \A t \in SUBSET S : Cardinality(t) = n => g[t] \in V}
  <1>1. 0 \in M
    BY Smaller DEF Adds
  <1>2. ASSUME NEW n \in M
        PROVE  n + 1 \in M
    <2>1. ASSUME NEW t \in SUBSET S, Cardinality(t) = n + 1
          PROVE  g[t] \in V
      <3>1. t # {}
        BY <2>1, Smaller
      <3>2. Pick(t) \in t /\ Cardinality(t \ {Pick(t)}) = n
        BY <2>1, <3>1, Smaller, Choice
      <3>3. g[t] = f[Pick(t)] + g[t \ {Pick(t)}]
        BY <3>1 DEF Adds
      <3> QED BY <3>2, <3>3
    <2> QED BY <2>1
  <1>3. M = Nat
    <2> HIDE DEF M
    <2>1. M \in SUBSET Nat
      BY DEF M
    <2> QED BY <1>1, <1>2, <2>1, Induct
  <1>4. Cardinality(s) \in M
    BY <1>3, Smaller
  <1> QED BY <1>4

\* It does not matter which member is taken first.
LEMMA AddsAnyOrder ==
    ASSUME NEW f, NEW S, IsFiniteSet(S), \A x \in S : f[x] \in Int,
           NEW g, Adds(g, f, S), NEW s \in SUBSET S, NEW x \in s
    PROVE  g[s] = f[x] + g[s \ {x}]
  <1> DEFINE M == {n \in Nat : \A t \in SUBSET S, y \in S :
                     Cardinality(t) = n /\ y \in t => g[t] = f[y] + g[t \ {y}]}
  <1>1. 0 \in M
    BY Smaller
  <1>2. ASSUME NEW n \in M
        PROVE  n + 1 \in M
    <2>1. ASSUME NEW t \in SUBSET S, NEW y \in S, Cardinality(t) = n + 1, y \in t
          PROVE  g[t] = f[y] + g[t \ {y}]
      <3> DEFINE p == Pick(t)
      <3>1. p \in t /\ g[t] = f[p] + g[t \ {p}]
        BY <2>1, Choice DEF Adds
      <3> HIDE DEF p
      <3>2. CASE p = y
        BY <3>1, <3>2
      <3>3. CASE p # y
        <4>1. Cardinality(t \ {p}) = n /\ Cardinality(t \ {y}) = n
          BY <2>1, <3>1, Smaller
        <4>2. g[t \ {p}] = f[y] + g[(t \ {p}) \ {y}]
          BY <2>1, <3>1, <3>3, <4>1
        <4>3. g[t \ {y}] = f[p] + g[(t \ {y}) \ {p}]
          BY <2>1, <3>1, <3>3, <4>1
        <4>4. (t \ {p}) \ {y} = (t \ {y}) \ {p}
          OBVIOUS
        <4>5. g[(t \ {p}) \ {y}] \in Int
          BY AddsType
        <4>6. f[p] \in Int /\ f[y] \in Int
          BY <3>1
        <4>7. PICK r \in Int : r = g[(t \ {p}) \ {y}]
          BY <4>5
        <4>8. g[t \ {p}] = f[y] + r /\ g[t \ {y}] = f[p] + r
          BY <4>2, <4>3, <4>4, <4>7
        <4>9. g[t] = f[p] + (f[y] + r)
          BY <3>1, <4>8
        <4> QED BY <4>6, <4>8, <4>9
      <3> QED BY <3>2, <3>3
    <2> QED BY <2>1
  <1>3. M = Nat
    <2> HIDE DEF M
    <2>1. M \in SUBSET Nat
      BY DEF M
    <2> QED BY <1>1, <1>2, <2>1, Induct
  <1>4. Cardinality(s) \in M
    BY <1>3, Smaller
  <1> QED BY <1>4

\* Sums over a subset of what g adds up are those of g.
LEMMA AddsRestrict ==
    ASSUME NEW f, NEW S, IsFiniteSet(S), NEW g, Adds(g, f, S), NEW T \in SUBSET S
    PROVE  SumOver(f, T) = g[T]
  <1>1. IsFiniteSet(T)
    BY FS_Subset
  <1>2. PICK h : Adds(h, f, T) /\ SumOver(f, T) = h[T]
    BY <1>1, SumIsAdds
  <1> DEFINE M == {n \in Nat : \A t \in SUBSET T : Cardinality(t) = n => g[t] = h[t]}
  <1>3. 0 \in M
    BY <1>1, <1>2, Smaller DEF Adds
  <1>4. ASSUME NEW n \in M
        PROVE  n + 1 \in M
    <2>1. ASSUME NEW t \in SUBSET T, Cardinality(t) = n + 1
          PROVE  g[t] = h[t]
      <3>1. t # {}
        BY <1>1, <2>1, Smaller
      <3>2. Pick(t) \in t /\ Cardinality(t \ {Pick(t)}) = n
        <4>1. Pick(t) \in t
          BY <3>1, Choice
        <4>2. Cardinality(t) \in Nat /\ Cardinality(t \ {Pick(t)}) = Cardinality(t) - 1
          BY <1>1, <4>1, Smaller
        <4> QED BY <2>1, <4>1, <4>2
      <3>3. g[t] = f[Pick(t)] + g[t \ {Pick(t)}]
        BY <3>1 DEF Adds
      <3>4. h[t] = f[Pick(t)] + h[t \ {Pick(t)}]
        BY <1>2, <3>1 DEF Adds
      <3> QED BY <3>2, <3>3, <3>4
    <2> QED BY <2>1
  <1>5. M = Nat
    <2> HIDE DEF M
    <2>1. M \in SUBSET Nat
      BY DEF M
    <2> QED BY <1>3, <1>4, <2>1, Induct
  <1>6. Cardinality(T) \in M
    BY <1>1, <1>5, FS_CardinalityType
  <1> QED BY <1>2, <1>6

\* Nothing adds up to nothing.
LEMMA SumEmpty ==
    ASSUME NEW f
    PROVE  SumOver(f, {}) = 0
  <1>1. PICK g : Adds(g, f, {}) /\ SumOver(f, {}) = g[{}]
    BY SumIsAdds, FS_EmptySet
  <1> QED BY <1>1 DEF Adds

\* What a sum is.
LEMMA SumType ==
    ASSUME NEW S, IsFiniteSet(S), NEW f
    PROVE  /\ (\A x \in S : f[x] \in Int) => SumOver(f, S) \in Int
           /\ (\A x \in S : f[x] \in Nat) => SumOver(f, S) \in Nat
  <1>1. PICK g : Adds(g, f, S) /\ SumOver(f, S) = g[S]
    BY SumIsAdds
  <1>2. (\A x \in S : f[x] \in Int) => g[S] \in Int
    BY <1>1, AddsType
  <1>3. (\A x \in S : f[x] \in Nat) => g[S] \in Nat
    BY <1>1, AddsType
  <1> QED BY <1>1, <1>2, <1>3

\* A new member adds its amount.
LEMMA SumAdd ==
    ASSUME NEW S, IsFiniteSet(S), NEW f, \A y \in S : f[y] \in Int,
           NEW x, x \notin S, f[x] \in Int
    PROVE  SumOver(f, S \cup {x}) = SumOver(f, S) + f[x]
  <1> DEFINE T == S \cup {x}
  <1>1. IsFiniteSet(T)
    BY FS_AddElement
  <1>2. PICK g : Adds(g, f, T) /\ SumOver(f, T) = g[T]
    BY <1>1, SumIsAdds
  <1>3. SumOver(f, S) = g[S]
    BY <1>1, <1>2, AddsRestrict
  <1>4. \A y \in T : f[y] \in Int
    OBVIOUS
  <1>5. T \ {x} = S /\ x \in T
    OBVIOUS
  <1>6. g[T] = f[x] + g[S]
    <2> HIDE DEF T
    <2>1. g[T] = f[x] + g[T \ {x}]
      BY <1>1, <1>2, <1>4, <1>5, AddsAnyOrder
    <2> QED BY <1>5, <2>1
  <1>7. SumOver(f, S) \in Int
    BY SumType
  <1> QED BY <1>2, <1>3, <1>6, <1>7

\* A member that is taken out takes its amount with it.
LEMMA SumRemove ==
    ASSUME NEW S, IsFiniteSet(S), NEW f, \A y \in S : f[y] \in Int, NEW x \in S
    PROVE  /\ SumOver(f, S) = SumOver(f, S \ {x}) + f[x]
           /\ SumOver(f, S \ {x}) \in Int
  <1>1. IsFiniteSet(S \ {x}) /\ S = (S \ {x}) \cup {x} /\ x \notin S \ {x}
    BY FS_RemoveElement
  <1>2. SumOver(f, (S \ {x}) \cup {x}) = SumOver(f, S \ {x}) + f[x]
    BY <1>1, SumAdd
  <1> QED BY <1>1, <1>2, SumType

\* Only the amounts of the members matter.
LEMMA SumSame ==
    ASSUME NEW S, IsFiniteSet(S), NEW f, NEW g,
           \A x \in S : f[x] = g[x] /\ f[x] \in Int
    PROVE  SumOver(f, S) = SumOver(g, S)
  <1> DEFINE F == {T \in SUBSET S : SumOver(f, T) = SumOver(g, T)}
  <1>1. {} \in F
    BY SumEmpty
  <1>2. ASSUME NEW T \in SUBSET S, T \in F, NEW x \in S \ T
        PROVE  T \cup {x} \in F
    <2>1. IsFiniteSet(T)
      BY FS_Subset
    <2>2. SumOver(f, T \cup {x}) = SumOver(f, T) + f[x]
      BY <2>1, SumAdd
    <2>3. SumOver(g, T \cup {x}) = SumOver(g, T) + g[x]
      BY <2>1, SumAdd
    <2> QED BY <1>2, <2>2, <2>3
  <1> HIDE DEF F
  <1>3. S \in F
    BY <1>1, <1>2, SetInduct
  <1> QED BY <1>3 DEF F

\* The sum over two sets that have no member in common.
LEMMA SumUnion ==
    ASSUME NEW S, IsFiniteSet(S), NEW T, IsFiniteSet(T), S \cap T = {},
           NEW f, \A x \in S \cup T : f[x] \in Int
    PROVE  SumOver(f, S \cup T) = SumOver(f, S) + SumOver(f, T)
  <1> DEFINE F == {U \in SUBSET T : SumOver(f, S \cup U) = SumOver(f, S) + SumOver(f, U)}
  <1>1. {} \in F
    <2>1. S \cup {} = S /\ SumOver(f, S) \in Int
      BY SumType
    <2> QED BY <2>1, SumEmpty
  <1>2. ASSUME NEW U \in SUBSET T, U \in F, NEW x \in T \ U
        PROVE  U \cup {x} \in F
    <2>1. IsFiniteSet(U) /\ IsFiniteSet(S \cup U)
      BY FS_Subset, FS_Union
    <2>2. SumOver(f, U \cup {x}) = SumOver(f, U) + f[x]
      BY <2>1, SumAdd
    <2>3. SumOver(f, (S \cup U) \cup {x}) = SumOver(f, S \cup U) + f[x]
      BY <2>1, SumAdd
    <2>4. SumOver(f, S) \in Int /\ SumOver(f, U) \in Int /\ f[x] \in Int
      BY <2>1, SumType
    <2>5. S \cup (U \cup {x}) = (S \cup U) \cup {x}
      OBVIOUS
    <2>6. SumOver(f, S \cup U) = SumOver(f, S) + SumOver(f, U)
      BY <1>2
    <2>7. SumOver(f, S \cup (U \cup {x})) = SumOver(f, (S \cup U) \cup {x})
      BY <2>5
    <2> HIDE DEF F
    <2>8. SumOver(f, S \cup (U \cup {x})) = SumOver(f, S) + SumOver(f, U \cup {x})
      BY <2>2, <2>3, <2>4, <2>6, <2>7
    <2> QED BY <2>8 DEF F
  <1> HIDE DEF F
  <1>3. T \in F
    BY <1>1, <1>2, SetInduct
  <1> QED BY <1>3 DEF F

\* Of natural numbers, a part adds up to no more than the whole.
LEMMA SumWithin ==
    ASSUME NEW S, IsFiniteSet(S), NEW T \in SUBSET S, NEW f, \A x \in S : f[x] \in Nat
    PROVE  /\ SumOver(f, T) <= SumOver(f, S)
           /\ \A x \in S \ T : SumOver(f, T) + f[x] <= SumOver(f, S)
  <1>1. IsFiniteSet(T) /\ IsFiniteSet(S \ T) /\ S = T \cup (S \ T)
    BY FS_Subset
  <1>2. SumOver(f, S) = SumOver(f, T) + SumOver(f, S \ T)
    <2>1. SumOver(f, T \cup (S \ T)) = SumOver(f, T) + SumOver(f, S \ T)
      BY <1>1, SumUnion
    <2> QED BY <1>1, <2>1
  <1>3. SumOver(f, T) \in Nat /\ SumOver(f, S \ T) \in Nat
    BY <1>1, SumType
  <1>4. ASSUME NEW x \in S \ T
        PROVE  f[x] <= SumOver(f, S \ T)
    <2>1. SumOver(f, S \ T) = SumOver(f, (S \ T) \ {x}) + f[x]
      BY <1>1, SumRemove
    <2>2. SumOver(f, (S \ T) \ {x}) \in Nat
      BY <1>1, FS_Subset, SumType
    <2> QED BY <2>1, <2>2
  <1> QED BY <1>2, <1>3, <1>4

\* Changing the amount of one member.
LEMMA SumChange ==
    ASSUME NEW S, IsFiniteSet(S), NEW f, NEW g, \A y \in S : f[y] \in Int /\ g[y] \in Int,
           NEW x \in S, \A y \in S \ {x} : g[y] = f[y]
    PROVE  SumOver(g, S) = SumOver(f, S) + (g[x] - f[x])
  <1>1. SumOver(f, S) = SumOver(f, S \ {x}) + f[x] /\ SumOver(f, S \ {x}) \in Int
    BY SumRemove
  <1>2. SumOver(g, S) = SumOver(g, S \ {x}) + g[x] /\ SumOver(g, S \ {x}) \in Int
    BY SumRemove
  <1>3. SumOver(g, S \ {x}) = SumOver(f, S \ {x})
    <2>1. IsFiniteSet(S \ {x})
      BY FS_RemoveElement
    <2> QED BY <2>1, SumSame
  <1>4. f[x] \in Int /\ g[x] \in Int
    OBVIOUS
  <1> QED BY <1>1, <1>2, <1>3, <1>4

\* No member's amount is more than the sum.
LEMMA SumMember ==
    ASSUME NEW S, IsFiniteSet(S), NEW f, \A y \in S : f[y] \in Nat, NEW x \in S
    PROVE  f[x] <= SumOver(f, S)
  <1>1. {} \in SUBSET S /\ x \in S \ {}
    OBVIOUS
  <1>2. SumOver(f, {}) + f[x] <= SumOver(f, S)
    BY <1>1, SumWithin
  <1>3. SumOver(f, {}) = 0
    BY SumEmpty
  <1> QED BY <1>2, <1>3

\* Amounts added member by member.
LEMMA SumPlus ==
    ASSUME NEW S, IsFiniteSet(S), NEW f, NEW g, NEW h,
           \A x \in S : f[x] \in Int /\ g[x] \in Int /\ h[x] = f[x] + g[x]
    PROVE  SumOver(h, S) = SumOver(f, S) + SumOver(g, S)
  <1> DEFINE F == {T \in SUBSET S : SumOver(h, T) = SumOver(f, T) + SumOver(g, T)}
  <1>1. {} \in F
    BY SumEmpty
  <1>2. ASSUME NEW T \in SUBSET S, T \in F, NEW x \in S \ T
        PROVE  T \cup {x} \in F
    <2>1. IsFiniteSet(T) /\ SumOver(f, T) \in Int /\ SumOver(g, T) \in Int
      BY FS_Subset, SumType
    <2>2. \A y \in S : h[y] \in Int
      OBVIOUS
    <2>3. SumOver(h, T \cup {x}) = SumOver(h, T) + h[x]
      BY <2>1, <2>2, SumAdd
    <2>4. SumOver(f, T \cup {x}) = SumOver(f, T) + f[x]
      BY <2>1, SumAdd
    <2>5. SumOver(g, T \cup {x}) = SumOver(g, T) + g[x]
      BY <2>1, SumAdd
    <2>6. SumOver(h, T) = SumOver(f, T) + SumOver(g, T) /\ h[x] = f[x] + g[x]
      BY <1>2
    <2>7. f[x] \in Int /\ g[x] \in Int
      OBVIOUS
    <2>8. SumOver(h, T \cup {x}) = SumOver(f, T \cup {x}) + SumOver(g, T \cup {x})
      BY <2>1, <2>3, <2>4, <2>5, <2>6, <2>7
    <2> QED BY <2>8
  <1> HIDE DEF F
  <1>3. S \in F
    BY <1>1, <1>2, SetInduct
  <1> QED BY <1>3 DEF F

\* Amounts that cancel in pairs add up to nothing: m names the member that each
\* one cancels with, itself when its amount is zero.
LEMMA SumPaired ==
    ASSUME NEW S, IsFiniteSet(S), NEW f, NEW m,
           \A x \in S : /\ f[x] \in Int /\ m[x] \in S
                        /\ m[m[x]] = x /\ f[m[x]] = -f[x]
    PROVE  SumOver(f, S) = 0
  <1> DEFINE Image(T) == {m[x] : x \in T}
             F == {T \in SUBSET S : SumOver(f, Image(T)) = -SumOver(f, T)}
  <1>1. {} \in F
    <2>1. Image({}) = {}
      OBVIOUS
    <2>2. SumOver(f, {}) = 0
      BY SumEmpty
    <2> QED BY <2>1, <2>2
  <1>2. ASSUME NEW T \in SUBSET S, T \in F, NEW x \in S \ T
        PROVE  T \cup {x} \in F
    <2>1. Image(T) \in SUBSET S /\ m[x] \in S \ Image(T) /\ Image(T \cup {x}) = Image(T) \cup {m[x]}
      OBVIOUS
    <2>2. IsFiniteSet(T) /\ IsFiniteSet(Image(T))
      BY <2>1, FS_Subset
    <2>3. SumOver(f, T \cup {x}) = SumOver(f, T) + f[x] /\ SumOver(f, T) \in Int
      BY <2>2, SumAdd, SumType
    <2> HIDE DEF Image
    <2>4. \A y \in Image(T) : f[y] \in Int
      BY <2>1
    <2>5. SumOver(f, Image(T) \cup {m[x]}) = SumOver(f, Image(T)) + f[m[x]]
      BY <2>1, <2>2, <2>4, SumAdd
    <2>6. f[m[x]] = -f[x] /\ f[x] \in Int /\ SumOver(f, Image(T)) = -SumOver(f, T)
      BY <1>2
    <2>7. SumOver(f, Image(T) \cup {m[x]}) = -SumOver(f, T) + -f[x]
      BY <2>5, <2>6
    <2>8. -SumOver(f, T) + -f[x] = -(SumOver(f, T) + f[x])
      BY <2>3, <2>6
    <2>9. SumOver(f, Image(T \cup {x})) = -SumOver(f, T \cup {x})
      BY <2>1, <2>3, <2>7, <2>8
    <2> QED BY <2>9
  <1>3. Image(S) = S
    OBVIOUS
  <1> HIDE DEF F
  <1>4. S \in F
    BY <1>1, <1>2, SetInduct
  <1>5. SumOver(f, S) = -SumOver(f, S) /\ SumOver(f, S) \in Int
    BY <1>3, <1>4, SumType DEF F
  <1> QED BY <1>5

\* Members that add nothing can be left out of a sum.
LEMMA SumPositive ==
    ASSUME NEW S, IsFiniteSet(S), NEW f, \A x \in S : f[x] \in Nat
    PROVE  SumOver(f, {x \in S : f[x] > 0}) = SumOver(f, S)
  <1> DEFINE P == {x \in S : f[x] > 0}
             Z == {x \in S : f[x] = 0}
  <1>1. S = P \cup Z /\ P \cap Z = {} /\ P \in SUBSET S /\ Z \in SUBSET S
    OBVIOUS
  <1>2. IsFiniteSet(P) /\ IsFiniteSet(Z)
    BY <1>1, FS_Subset
  <1>3. SumOver(f, S) = SumOver(f, P) + SumOver(f, Z)
    <2>1. \A x \in P \cup Z : f[x] \in Int
      OBVIOUS
    <2> QED BY <1>1, <1>2, <2>1, SumUnion
  <1>4. SumOver(f, Z) = 0
    <2> DEFINE F == {T \in SUBSET Z : SumOver(f, T) = 0}
    <2>1. {} \in F
      BY SumEmpty
    <2>2. ASSUME NEW T \in SUBSET Z, T \in F, NEW x \in Z \ T
          PROVE  T \cup {x} \in F
      <3>1. IsFiniteSet(T)
        BY <1>2, FS_Subset
      <3>2. (\A y \in T : f[y] \in Int) /\ f[x] = 0 /\ f[x] \in Int
        OBVIOUS
      <3>3. SumOver(f, T \cup {x}) = SumOver(f, T) + f[x]
        BY <3>1, <3>2, SumAdd
      <3> QED BY <2>2, <3>2, <3>3
    <2>3. \A T \in SUBSET Z : T \in F => \A x \in Z \ T : T \cup {x} \in F
      BY <2>2
    <2> HIDE DEF F
    <2>4. Z \in F
      BY <1>2, <2>1, <2>3, SetInduct
    <2> QED BY <2>4 DEF F
  <1>5. SumOver(f, P) \in Int
    BY <1>2, SumType
  <1> QED BY <1>3, <1>4, <1>5

\* If amounts that are each no more than others come to as much, they are equal.
LEMMA SumTight ==
    ASSUME NEW S, IsFiniteSet(S), NEW f, NEW g,
           \A x \in S : f[x] \in Nat /\ g[x] \in Nat /\ f[x] <= g[x]
    PROVE  /\ SumOver(f, S) <= SumOver(g, S)
           /\ SumOver(f, S) = SumOver(g, S) => \A x \in S : f[x] = g[x]
  <1> DEFINE h == [x \in S |-> g[x] - f[x]]
  <1>1. \A x \in S : f[x] \in Int /\ h[x] \in Int /\ h[x] \in Nat /\ g[x] = f[x] + h[x]
    OBVIOUS
  <1> HIDE DEF h
  <1>2. SumOver(g, S) = SumOver(f, S) + SumOver(h, S)
    BY <1>1, SumPlus
  <1>3. SumOver(h, S) \in Nat /\ SumOver(f, S) \in Int
    BY <1>1, SumType
  <1>4. ASSUME NEW x \in S, SumOver(f, S) = SumOver(g, S)
        PROVE  f[x] = g[x]
    <2>1. SumOver(h, S) = 0
      BY <1>2, <1>3, <1>4
    <2>2. h[x] <= SumOver(h, S)
      BY <1>1, SumMember
    <2> QED BY <1>1, <2>1, <2>2
  <1> QED BY <1>2, <1>3, <1>4

\* A sum over a set in parts: by the part each member belongs to.
LEMMA SumByPart ==
    ASSUME NEW V, IsFiniteSet(V), NEW S, IsFiniteSet(S), NEW f, \A x \in S : f[x] \in Int,
           NEW part, \A x \in S : part[x] \in V
    PROVE  SumOver([v \in V |-> SumOver(f, {x \in S : part[x] = v})], V) = SumOver(f, S)
  <1> DEFINE P(v) == {x \in S : part[x] = v}
             g == [v \in V |-> SumOver(f, P(v))]
             U(W) == {x \in S : part[x] \in W}
             F == {W \in SUBSET V : SumOver(g, W) = SumOver(f, U(W))}
  <1>1. {} \in F
    <2>1. U({}) = {}
      OBVIOUS
    <2> QED BY <2>1, SumEmpty
  <1>2. \A v \in V : g[v] = SumOver(f, P(v)) /\ IsFiniteSet(P(v)) /\ g[v] \in Int
    <2> SUFFICES ASSUME NEW v \in V
                 PROVE  g[v] = SumOver(f, P(v)) /\ IsFiniteSet(P(v)) /\ g[v] \in Int
      OBVIOUS
    <2>1. P(v) \in SUBSET S
      OBVIOUS
    <2>2. IsFiniteSet(P(v))
      BY <2>1, FS_Subset
    <2> QED BY <2>2, SumType
  <1> HIDE DEF g
  <1>3. ASSUME NEW W \in SUBSET V, W \in F, NEW v \in V \ W
        PROVE  W \cup {v} \in F
    <2>1. IsFiniteSet(W)
      BY FS_Subset
    <2>2. SumOver(g, W \cup {v}) = SumOver(g, W) + g[v]
      <3>1. (\A w \in W : g[w] \in Int) /\ g[v] \in Int
        BY <1>2
      <3> QED BY <2>1, <3>1, SumAdd
    <2>3. U(W \cup {v}) = U(W) \cup P(v) /\ U(W) \cap P(v) = {}
      OBVIOUS
    <2>4. U(W) \in SUBSET S /\ IsFiniteSet(U(W))
      BY FS_Subset
    <2>5. SumOver(f, U(W) \cup P(v)) = SumOver(f, U(W)) + SumOver(f, P(v))
      <3>1. \A x \in U(W) \cup P(v) : f[x] \in Int
        OBVIOUS
      <3>2. IsFiniteSet(P(v))
        BY <1>2
      <3> HIDE DEF U, P
      <3> QED BY <2>3, <2>4, <3>1, <3>2, SumUnion
    <2>6. SumOver(g, W) = SumOver(f, U(W)) /\ g[v] = SumOver(f, P(v))
      BY <1>2, <1>3
    <2> QED BY <2>2, <2>3, <2>5, <2>6
  <1>4. V \in F
    <2>1. \A W \in SUBSET V : W \in F => \A v \in V \ W : W \cup {v} \in F
      BY <1>3
    <2> HIDE DEF F
    <2> QED BY <1>1, <2>1, SetInduct
  <1>5. U(V) = S
    OBVIOUS
  <1> QED BY <1>4, <1>5 DEF g

\* A sum over the images of the members of a set, no two of which coincide.
LEMMA SumRenamed ==
    ASSUME NEW S, IsFiniteSet(S), NEW f, NEW g, NEW m,
           \A x \in S : f[m[x]] = g[x] /\ g[x] \in Int,
           \A x, y \in S : m[x] = m[y] => x = y
    PROVE  /\ IsFiniteSet({m[x] : x \in S})
           /\ Cardinality({m[x] : x \in S}) = Cardinality(S)
           /\ SumOver(f, {m[x] : x \in S}) = SumOver(g, S)
  <1> DEFINE I(T) == {m[x] : x \in T}
             F == {T \in SUBSET S : /\ IsFiniteSet(I(T)) /\ Cardinality(I(T)) = Cardinality(T)
                                    /\ SumOver(f, I(T)) = SumOver(g, T)}
  <1>1. {} \in F
    <2>1. I({}) = {}
      OBVIOUS
    <2> QED BY <2>1, SumEmpty, FS_EmptySet
  <1>2. ASSUME NEW T \in SUBSET S, T \in F, NEW x \in S \ T
        PROVE  T \cup {x} \in F
    <2>1. I(T \cup {x}) = I(T) \cup {m[x]} /\ m[x] \notin I(T)
      OBVIOUS
    <2>2. IsFiniteSet(T) /\ IsFiniteSet(I(T)) /\ \A y \in I(T) : f[y] \in Int
      <3>1. IsFiniteSet(T)
        BY FS_Subset
      <3> QED BY <3>1, <1>2
    <2>3. /\ IsFiniteSet(I(T) \cup {m[x]})
          /\ Cardinality(I(T) \cup {m[x]}) = Cardinality(I(T)) + 1
          /\ Cardinality(T \cup {x}) = Cardinality(T) + 1
      <3> HIDE DEF I
      <3> QED BY <2>1, <2>2, FS_AddElement
    <2>4. SumOver(f, I(T) \cup {m[x]}) = SumOver(f, I(T)) + g[x]
      <3>1. f[m[x]] = g[x] /\ f[m[x]] \in Int
        OBVIOUS
      <3> HIDE DEF I
      <3> QED BY <2>1, <2>2, <3>1, SumAdd
    <2>5. SumOver(g, T \cup {x}) = SumOver(g, T) + g[x]
      <3>1. (\A y \in T : g[y] \in Int) /\ g[x] \in Int
        OBVIOUS
      <3> QED BY <2>2, <3>1, SumAdd
    <2>6. SumOver(f, I(T)) = SumOver(g, T) /\ Cardinality(I(T)) = Cardinality(T)
      BY <1>2
    <2> QED BY <2>1, <2>3, <2>4, <2>5, <2>6
  <1>3. \A T \in SUBSET S : T \in F => \A x \in S \ T : T \cup {x} \in F
    BY <1>2
  <1>4. S \in F
    <2> HIDE DEF F
    <2> QED BY <1>1, <1>3, SetInduct
  <1> QED BY <1>4

\* The images of the members of a finite set.
LEMMA FiniteImage ==
    ASSUME NEW S, IsFiniteSet(S), NEW m
    PROVE  IsFiniteSet({m[x] : x \in S})
  <1> DEFINE T == {m[x] : x \in S}
             f == [x \in S |-> m[x]]
  <1>1. f \in Surjection(S, T)
    BY DEF Surjection
  <1> HIDE DEF f, T
  <1>2. IsFiniteSet(T)
    BY <1>1, FS_Surjection
  <1> QED BY <1>2 DEF T

\* A set of finitely many finite parts.
LEMMA FiniteParts ==
    ASSUME NEW V, IsFiniteSet(V), NEW S, NEW part, \A x \in S : part[x] \in V,
           \A v \in V : IsFiniteSet({x \in S : part[x] = v})
    PROVE  IsFiniteSet(S)
  <1> DEFINE P(v) == {x \in S : part[x] = v}
             U(W) == {x \in S : part[x] \in W}
             F == {W \in SUBSET V : IsFiniteSet(U(W))}
  <1>1. {} \in F
    <2>1. U({}) = {}
      OBVIOUS
    <2> QED BY <2>1, FS_EmptySet
  <1>2. ASSUME NEW W \in SUBSET V, W \in F, NEW v \in V \ W
        PROVE  W \cup {v} \in F
    <2>1. U(W \cup {v}) = U(W) \cup P(v)
      OBVIOUS
    <2>2. IsFiniteSet(U(W)) /\ IsFiniteSet(P(v))
      BY <1>2
    <2>3. IsFiniteSet(U(W) \cup P(v))
      <3> HIDE DEF U, P
      <3> QED BY <2>2, FS_Union
    <2> QED BY <2>1, <2>3
  <1>3. V \in F
    <2>1. \A W \in SUBSET V : W \in F => \A v \in V \ W : W \cup {v} \in F
      BY <1>2
    <2> HIDE DEF F
    <2> QED BY <1>1, <2>1, SetInduct
  <1>4. U(V) = S
    OBVIOUS
  <1> QED BY <1>3, <1>4

-----------------------------------------------------------------------------
(* Rounding. *)

USE MoneyAssumption

\* Division rounded down, by a positive divisor.
LEMMA Floor ==
    ASSUME NEW d \in Nat \ {0}, NEW n \in Int
    PROVE  /\ n \div d \in Int
           /\ d * (n \div d) <= n
           /\ n < d * (n \div d) + d
           /\ n >= 0 => n \div d \in Nat
  OBVIOUS

\* A whole multiple of the divisor passes through the division.
LEMMA FloorShift ==
    ASSUME NEW d \in Nat \ {0}, NEW n \in Int, NEW k \in Int
    PROVE  (n + k * d) \div d = (n \div d) + k
  <1> DEFINE p == n \div d
             q == (n + k * d) \div d
  <1>1. p \in Int /\ d * p <= n /\ n < d * p + d
    BY Floor
  <1>2. n + k * d \in Int
    OBVIOUS
  <1>3. q \in Int /\ d * q <= n + k * d /\ n + k * d < d * q + d
    BY <1>2, Floor
  <1> HIDE DEF p, q
  <1>4. d * (q - p - k) < d /\ d * (p + k - q) < d
    BY <1>1, <1>3
  <1>5. q - p - k <= 0 /\ p + k - q <= 0
    BY <1>1, <1>3, <1>4
  <1>6. q = p + k
    BY <1>1, <1>3, <1>5
  <1> QED BY <1>6 DEF p, q

\* Division rounded down keeps the order.
LEMMA FloorMonotone ==
    ASSUME NEW d \in Nat \ {0}, NEW m \in Int, NEW n \in Int, m <= n
    PROVE  m \div d <= n \div d
  OBVIOUS

\* What a fill settles at is a natural number, and no more than the amount a
\* reservation is sized with for the same quantity and price.
LEMMA NotionalBound ==
    ASSUME NEW qty \in Nat, NEW price \in Nat
    PROVE  /\ Notional(qty, price) \in Nat
           /\ NotionalCeil(qty, price) \in Nat
           /\ Notional(qty, price) <= NotionalCeil(qty, price)
  <1>1. qty * price \in Nat
    OBVIOUS
  <1>2. qty * price + QtyScale - 1 \in Nat
    BY <1>1
  <1> QED BY <1>1, <1>2, Floor, FloorMonotone DEF Notional, NotionalCeil, CeilDiv

\* A fee is a natural number.
LEMMA FeeType ==
    ASSUME NEW amount \in Nat, NEW bps \in Nat
    PROVE  FeeBps(amount, bps) \in Nat
  <1>1. amount * bps \in Nat
    OBVIOUS
  <1>2. amount * bps + BpsScale - 1 \in Nat
    BY <1>1
  <1> QED BY <1>2, Floor DEF FeeBps, CeilDiv

\* A rate on an amount comes to something, however little.
LEMMA FeePositive ==
    ASSUME NEW amount \in Nat \ {0}, NEW bps \in Nat \ {0}
    PROVE  FeeBps(amount, bps) >= 1
  <1> USE MoneyAssumption DEF MoneyAssumption
  <1>1. PICK n : n = amount * bps
    OBVIOUS
  <1>2. n \in Nat /\ n >= 1
    <2>1. n \in Nat
      BY <1>1
    <2>2. n # 0
      BY <1>1
    <2> QED BY <2>1, <2>2
  <1>3. 0 + 1 * BpsScale <= n + BpsScale - 1 /\ n + BpsScale - 1 \in Int /\ 0 + 1 * BpsScale \in Int
    BY <1>2
  <1>4. (0 + 1 * BpsScale) \div BpsScale <= (n + BpsScale - 1) \div BpsScale
    BY <1>3, FloorMonotone
  <1>5. (0 + 1 * BpsScale) \div BpsScale = (0 \div BpsScale) + 1
    BY FloorShift
  <1>6. 0 \div BpsScale = 0
    OBVIOUS
  <1>7. FeeBps(amount, bps) = (n + BpsScale - 1) \div BpsScale
    BY <1>1 DEF FeeBps, CeilDiv
  <1> QED BY <1>4, <1>5, <1>6, <1>7

\* Billing the fee as the difference between two cumulative fees never bills a
\* negative amount, and never more than what the amount itself grew by.
LEMMA FeeDelta ==
    ASSUME NEW before \in Nat, NEW amount \in Nat, NEW bps \in Nat, bps <= BpsScale
    PROVE  /\ FeeBps(before + amount, bps) - FeeBps(before, bps) \in Nat
           /\ FeeBps(before + amount, bps) - FeeBps(before, bps) <= amount
  <1> DEFINE m == before * bps + BpsScale - 1
             n == (before + amount) * bps + BpsScale - 1
  <1>1. FeeBps(before, bps) = m \div BpsScale
    BY DEF FeeBps, CeilDiv
  <1>2. FeeBps(before + amount, bps) = n \div BpsScale
    BY DEF FeeBps, CeilDiv
  <1>3. amount * bps \in Nat /\ amount * bps <= amount * BpsScale
    OBVIOUS
  <1>4. n = m + amount * bps
    OBVIOUS
  <1>5. m \in Int /\ n \in Int /\ m + amount * BpsScale \in Int
    OBVIOUS
  <1> HIDE DEF m, n
  <1>6. m <= n /\ n <= m + amount * BpsScale
    BY <1>3, <1>4, <1>5
  <1>7. m \div BpsScale <= n \div BpsScale
    BY <1>5, <1>6, FloorMonotone
  <1>8. n \div BpsScale <= (m + amount * BpsScale) \div BpsScale
    BY <1>5, <1>6, FloorMonotone
  <1>9. (m + amount * BpsScale) \div BpsScale = (m \div BpsScale) + amount
    BY <1>5, FloorShift
  <1>10. m \div BpsScale \in Int /\ n \div BpsScale \in Int
    BY <1>5, Floor
  <1> QED BY <1>1, <1>2, <1>7, <1>8, <1>9, <1>10

\* Division rounded up, by a positive divisor.
LEMMA Ceiling ==
    ASSUME NEW d \in Nat \ {0}, NEW n \in Nat
    PROVE  /\ CeilDiv(n, d) \in Nat
           /\ n <= d * CeilDiv(n, d)
           /\ d * CeilDiv(n, d) < n + d
  <1> DEFINE c == (n + d - 1) \div d
  <1>1. n + d - 1 \in Nat
    OBVIOUS
  <1>2. c \in Nat /\ d * c <= n + d - 1 /\ n + d - 1 < d * c + d
    BY <1>1, Floor
  <1> HIDE DEF c
  <1>3. d * c \in Nat
    BY <1>2
  <1>4. n <= d * c /\ d * c < n + d
    BY <1>2, <1>3
  <1> QED BY <1>2, <1>4 DEF CeilDiv, c

\* Multiples of a positive number keep the order.
LEMMA MultiplesInOrder ==
    ASSUME NEW d \in Nat \ {0}, NEW m \in Int, NEW n \in Int, d * m < d * n + d
    PROVE  m <= n
  <1>1. d * (m - n) < d
    OBVIOUS
  <1>2. m - n < 1
    BY <1>1
  <1> QED BY <1>2

\* What a reservation is sized with grows by no less than what a fill within
\* the bound settles at.
LEMMA NotionalGrows ==
    ASSUME NEW done \in Nat, NEW qty \in Nat, NEW bound \in Nat, NEW price \in Nat, price <= bound
    PROVE  NotionalCeil(done, bound) + Notional(qty, price) <= NotionalCeil(done + qty, bound)
  <1> DEFINE D == QtyScale
             x == done * bound
             y == qty * bound
             z == qty * price
             A == CeilDiv(x, D)
             B == z \div D
             C == CeilDiv(x + y, D)
  <1>1. x \in Nat /\ y \in Nat /\ z \in Nat /\ z <= y /\ (done + qty) * bound = x + y
    OBVIOUS
  <1>2. D \in Nat \ {0}
    BY MoneyAssumption
  <1>3. NotionalCeil(done, bound) = A /\ NotionalCeil(done + qty, bound) = C /\ Notional(qty, price) = B
    BY <1>1 DEF NotionalCeil, Notional
  <1> HIDE DEF x, y, z, D
  <1>4. A \in Nat /\ D * A < x + D
    BY <1>1, <1>2, Ceiling
  <1>5. B \in Nat /\ D * B <= z
    BY <1>1, <1>2, Floor
  <1>6. C \in Nat /\ x + y <= D * C
    <2>1. x + y \in Nat
      BY <1>1
    <2> QED BY <1>2, <2>1, Ceiling
  <1> HIDE DEF A, B, C
  <1>7. D * (A + B) = D * A + D * B /\ D * A \in Nat /\ D * B \in Nat /\ D * C \in Nat
    BY <1>2, <1>4, <1>5, <1>6
  <1>8. D * (A + B) < D * C + D
    BY <1>1, <1>2, <1>4, <1>5, <1>6, <1>7
  <1>9. A + B <= C
    <2>1. A + B \in Int /\ C \in Int
      BY <1>4, <1>5, <1>6
    <2> QED BY <1>2, <1>8, <2>1, MultiplesInOrder
  <1> QED BY <1>3, <1>9

\* A smaller amount at a smaller rate grows a cumulative fee by at most one more
\* than a larger amount at a larger rate, wherever the two stand.
LEMMA FeeSlack ==
    ASSUME NEW before \in Nat, NEW amount \in Nat, NEW base \in Nat, NEW more \in Nat,
           amount <= more, NEW rate \in Nat, NEW top \in Nat, rate <= top
    PROVE  FeeBps(before + amount, rate) - FeeBps(before, rate)
             <= FeeBps(base + more, top) - FeeBps(base, top) + 1
  <1> DEFINE D == BpsScale
             x == before * rate
             y == amount * rate
             u == base * top
             w == more * top
             A == CeilDiv(x + y, D)
             B == CeilDiv(x, D)
             C == CeilDiv(u + w, D)
             E == CeilDiv(u, D)
  <1>1. /\ x \in Nat /\ y \in Nat /\ u \in Nat /\ w \in Nat
        /\ (before + amount) * rate = x + y /\ (base + more) * top = u + w
    OBVIOUS
  <1>2. y <= w
    <2>1. amount * rate <= more * rate
      OBVIOUS
    <2>2. more * rate <= more * top
      OBVIOUS
    <2> QED BY <2>1, <2>2
  <1>3. D \in Nat \ {0}
    BY MoneyAssumption
  <1>4. /\ FeeBps(before + amount, rate) = A /\ FeeBps(before, rate) = B
        /\ FeeBps(base + more, top) = C /\ FeeBps(base, top) = E
    BY <1>1 DEF FeeBps
  <1> HIDE DEF x, y, u, w, D
  <1>5. x + y \in Nat /\ u + w \in Nat
    BY <1>1
  <1>6. A \in Nat /\ D * A < x + y + D
    BY <1>3, <1>5, Ceiling
  <1>7. B \in Nat /\ x <= D * B
    BY <1>1, <1>3, Ceiling
  <1>8. C \in Nat /\ u + w <= D * C
    BY <1>3, <1>5, Ceiling
  <1>9. E \in Nat /\ D * E < u + D
    BY <1>1, <1>3, Ceiling
  <1> HIDE DEF A, B, C, E
  <1>10. /\ D * A \in Nat /\ D * B \in Nat /\ D * C \in Nat /\ D * E \in Nat
         /\ D * (A + E) = D * A + D * E
         /\ D * (B + C + 1) = D * B + D * C + D
    BY <1>3, <1>6, <1>7, <1>8, <1>9
  <1>11. D * (A + E) < D * (B + C + 1) + D
    BY <1>1, <1>2, <1>3, <1>6, <1>7, <1>8, <1>9, <1>10
  <1>12. A + E <= B + C + 1
    <2>1. A + E \in Int /\ B + C + 1 \in Int
      BY <1>6, <1>7, <1>8, <1>9
    <2> QED BY <1>3, <1>11, <2>1, MultiplesInOrder
  <1> QED BY <1>4, <1>6, <1>7, <1>8, <1>9, <1>12

\* A smaller amount at a smaller rate costs no larger a fee, and nothing none.
LEMMA FeeGrows ==
    ASSUME NEW amount \in Nat, NEW more \in Nat, amount <= more,
           NEW rate \in Nat, NEW top \in Nat, rate <= top
    PROVE  FeeBps(amount, rate) <= FeeBps(more, top) /\ FeeBps(0, rate) = 0
  <1> DEFINE D == BpsScale
             y == amount * rate
             w == more * top
  <1>1. y \in Nat /\ w \in Nat
    OBVIOUS
  <1>2. y <= w
    <2>1. amount * rate <= more * rate
      OBVIOUS
    <2>2. more * rate <= more * top
      OBVIOUS
    <2> QED BY <2>1, <2>2
  <1>3. D \in Nat \ {0}
    BY MoneyAssumption
  <1>4. FeeBps(amount, rate) = (y + D - 1) \div D /\ FeeBps(more, top) = (w + D - 1) \div D
    BY DEF FeeBps, CeilDiv
  <1>5. FeeBps(0, rate) = CeilDiv(0, D)
    <2>1. 0 * rate = 0
      OBVIOUS
    <2> QED BY <2>1 DEF FeeBps
  <1> HIDE DEF y, w, D
  <1>6. y + D - 1 \in Int /\ w + D - 1 \in Int /\ y + D - 1 <= w + D - 1
    BY <1>1, <1>2, <1>3
  <1>7. CeilDiv(0, D) = 0
    <2>1. CeilDiv(0, D) \in Nat /\ D * CeilDiv(0, D) < 0 + D
      BY <1>3, Ceiling
    <2>2. CeilDiv(0, D) <= 0
      <3>1. D * CeilDiv(0, D) < D * 0 + D
        BY <1>3, <2>1
      <3> QED BY <1>3, <2>1, <3>1, MultiplesInOrder
    <2> QED BY <2>1, <2>2
  <1> QED BY <1>3, <1>4, <1>5, <1>6, <1>7, FloorMonotone
=============================================================================
