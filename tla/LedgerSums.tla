------------------------------ MODULE LedgerSums ------------------------------
(***************************************************************************)
(* Facts about SumFunctionOnSet(f, S), the sum of f[x] over the x of a      *)
(* finite set S, that ledgers kept by differences need: what is left out   *)
(* or changed at one place changes the sum by as much. Sums along a list   *)
(* of transactions, up to a position, are sums over its positions.         *)
(*                                                                         *)
(* Induction over finite sets goes by a smallest counterexample (WFMin).   *)
(***************************************************************************)
EXTENDS Sequences, Functions, FiniteSetTheorems, TLAPS

Pick(T) == CHOOSE x \in T : TRUE

(* g is a table of the sums over all subsets of S.                         *)
Tabulates(g, f, S) ==
    g = [T \in SUBSET S |->
            IF T = {} THEN 0 ELSE f[Pick(T)] + g[T \ {Pick(T)}]]

(* A set that is not empty has an element to pick.                         *)
LEMMA PickInSet == ASSUME NEW T, T # {} PROVE Pick(T) \in T
  BY DEF Pick

(* A set of subsets of a finite set has a smallest element.                *)
LEMMA SmallestSubset ==
  ASSUME NEW S, IsFiniteSet(S), NEW X \in SUBSET (SUBSET S), X # {}
  PROVE  \E T \in X : \A U \in X : U \subseteq T => U = T
<1>1. IsWellFoundedOn(StrictSubsetOrdering(S), FiniteSubsetsOf(S))
  BY FS_StrictSubsetOrderingWellFounded
<1>2. X \subseteq FiniteSubsetsOf(S)
  BY FS_FiniteSubsetsOfFinite
<1>3. PICK T \in X : \A U \in X : <<U, T>> \notin StrictSubsetOrdering(S)
  BY <1>1, <1>2, WFMin
<1>4. ASSUME NEW U \in X, U \subseteq T PROVE U = T
  BY <1>3, <1>4 DEF StrictSubsetOrdering
<1> QED BY <1>4

(* Two tables agree wherever both are defined.                             *)
LEMMA TablesAgree ==
  ASSUME NEW S, IsFiniteSet(S), NEW R, IsFiniteSet(R), NEW f, NEW g, NEW h,
         Tabulates(g, f, S), Tabulates(h, f, R),
         NEW T \in SUBSET S, T \in SUBSET R
  PROVE  g[T] = h[T]
<1> DEFINE X == {U \in SUBSET S : U \in SUBSET R /\ g[U] # h[U]}
<1>1. SUFFICES ASSUME X # {} PROVE FALSE
  OBVIOUS
<1>a. X \in SUBSET (SUBSET S)
  OBVIOUS
<1>2. PICK U \in X : \A V \in X : V \subseteq U => V = U
  <2> HIDE DEF X
  <2> QED BY <1>1, <1>a, SmallestSubset
<1>3. U \subseteq S /\ U \subseteq R /\ g[U] # h[U]
  OBVIOUS
<1>4. U # {}
  BY <1>3 DEF Tabulates
<1> DEFINE V == U \ {Pick(U)}
<1>5. Pick(U) \in U /\ V \subseteq S /\ V \subseteq R /\ V \subseteq U /\ V # U
  BY <1>3, <1>4, PickInSet
<1>6. g[V] = h[V]
  BY <1>2, <1>5
<1>7. g[U] = f[Pick(U)] + g[V] /\ h[U] = f[Pick(U)] + h[V]
  BY <1>3, <1>4 DEF Tabulates
<1> QED BY <1>3, <1>6, <1>7

(* Every finite set has such a table.                                      *)
LEMMA TableExists ==
  ASSUME NEW S, IsFiniteSet(S), NEW f
  PROVE  \E g : Tabulates(g, f, S)
<1> DEFINE X == {T \in SUBSET S : ~ \E g : Tabulates(g, f, T)}
<1>1. SUFFICES ASSUME X # {} PROVE FALSE
  OBVIOUS
<1>a. X \in SUBSET (SUBSET S)
  OBVIOUS
<1>2. PICK T \in X : \A U \in X : U \subseteq T => U = T
  <2> HIDE DEF X
  <2> QED BY <1>1, <1>a, SmallestSubset
<1>3. T \subseteq S /\ IsFiniteSet(T) /\ ~ \E g : Tabulates(g, f, T)
  BY FS_Subset
<1> DEFINE table(U) == CHOOSE g : Tabulates(g, f, U)
           entry(U) == table(U)[U]
           g == [U \in SUBSET T |->
                   IF U = {} THEN 0
                   ELSE f[Pick(U)] + entry(U \ {Pick(U)})]
<1>4. ASSUME NEW U \in SUBSET T, U # T
      PROVE  Tabulates(table(U), f, U)
  <2>1. \E h : Tabulates(h, f, U)
    BY <1>2, <1>3, <1>4
  <2> QED BY <2>1
<1>5. ASSUME NEW U \in SUBSET T, U # T
      PROVE  g[U] = entry(U)
  <2>1. CASE U = {}
    <3>1. Tabulates(table(U), f, U)
      BY <1>4, <1>5
    <3> HIDE DEF table
    <3>2. table(U)[{}] = 0
      BY <3>1 DEF Tabulates
    <3> QED BY <2>1, <3>2
  <2>2. CASE U # {}
    <3> DEFINE V == U \ {Pick(U)}
    <3>1. Pick(U) \in U /\ V \subseteq U /\ V # U /\ V \subseteq T /\ V # T
      BY <2>2, PickInSet, <1>5
    <3>2. Tabulates(table(U), f, U) /\ Tabulates(table(V), f, V)
      BY <1>4, <1>5, <3>1
    <3>3. IsFiniteSet(U) /\ IsFiniteSet(V)
      BY <1>3, <3>1, FS_Subset
    <3> HIDE DEF table
    <3>4. table(U)[V] = table(V)[V]
      BY <3>1, <3>2, <3>3, TablesAgree
    <3>5. table(U)[U] = f[Pick(U)] + table(U)[V]
      BY <2>2, <3>2 DEF Tabulates
    <3>6. g[U] = f[Pick(U)] + table(V)[V]
      BY <2>2, <1>5
    <3> QED BY <3>4, <3>5, <3>6
  <2> QED BY <2>1, <2>2
<1>6. ASSUME NEW U \in SUBSET T, U # {}
      PROVE  g[U] = f[Pick(U)] + g[U \ {Pick(U)}]
  <2>1. Pick(U) \in U
    BY <1>6, PickInSet
  <2>2. U \ {Pick(U)} \in SUBSET T /\ U \ {Pick(U)} # T
    BY <2>1
  <2> HIDE DEF entry
  <2>3. g[U] = f[Pick(U)] + entry(U \ {Pick(U)})
    BY <1>6
  <2> HIDE DEF g
  <2> QED BY <2>2, <2>3, <1>5
<1>7. g = [U \in SUBSET T |-> g[U]] /\ g[{}] = 0
  OBVIOUS
<1> HIDE DEF g, table, entry
<1>8. g = [U \in SUBSET T |->
             IF U = {} THEN 0 ELSE f[Pick(U)] + g[U \ {Pick(U)}]]
  BY <1>6, <1>7
<1>9. Tabulates(g, f, T)
  BY <1>8 DEF Tabulates
<1> QED BY <1>3, <1>9

(* The sum over S is the entry of S in its table.                          *)
LEMMA SumIsTabulated ==
  ASSUME NEW S, IsFiniteSet(S), NEW f
  PROVE  \E g : Tabulates(g, f, S) /\ SumFunctionOnSet(f, S) = g[S]
<1> DEFINE iter == CHOOSE g : g = [T \in SUBSET S |->
             IF T = {} THEN 0 ELSE LET x == CHOOSE x \in T : TRUE
                                  IN  f[x] + g[T \ {x}]]
<1> DEFINE eq(g) == g = [T \in SUBSET S |->
             IF T = {} THEN 0 ELSE LET x == CHOOSE x \in T : TRUE
                                  IN  f[x] + g[T \ {x}]]
<1>1. ASSUME NEW g PROVE Tabulates(g, f, S) <=> eq(g)
  BY DEF Tabulates, Pick
<1>3. PICK g : eq(g)
  <2>1. PICK g : Tabulates(g, f, S)
    BY TableExists
  <2>2. eq(g)
    BY <1>1, <2>1
  <2> QED BY <2>2
<1>4. iter = CHOOSE h : eq(h)
  OBVIOUS
<1>5. eq(iter)
  <2> HIDE DEF eq, iter
  <2> QED BY <1>3, <1>4
<1>6. Tabulates(iter, f, S)
  <2> HIDE DEF eq, iter
  <2> QED BY <1>1, <1>5
<1>2. SumFunctionOnSet(f, S) = iter[S]
  BY DEF SumFunctionOnSet, FoldFunctionOnSet, MapThenFoldSet
<1> QED BY <1>2, <1>6

(* The sum over nothing.                                                   *)
LEMMA SumEmpty == ASSUME NEW f PROVE SumFunctionOnSet(f, {}) = 0
  BY SumIsTabulated, FS_EmptySet DEF Tabulates

(* The element that is picked is added to the sum of the others.           *)
LEMMA SumPick ==
  ASSUME NEW S, IsFiniteSet(S), S # {}, NEW f
  PROVE  SumFunctionOnSet(f, S)
             = f[Pick(S)] + SumFunctionOnSet(f, S \ {Pick(S)})
<1> DEFINE V == S \ {Pick(S)}
<1>1. IsFiniteSet(V) /\ V \subseteq S
  BY FS_Subset
<1>2. PICK g : Tabulates(g, f, S) /\ SumFunctionOnSet(f, S) = g[S]
  BY SumIsTabulated
<1>3. PICK h : Tabulates(h, f, V) /\ SumFunctionOnSet(f, V) = h[V]
  BY <1>1, SumIsTabulated
<1>4. g[V] = h[V]
  BY <1>1, <1>2, <1>3, TablesAgree
<1>5. g[S] = f[Pick(S)] + g[V]
  BY <1>2 DEF Tabulates
<1> QED BY <1>2, <1>3, <1>4, <1>5

(* A sum of integers is an integer, of natural numbers a natural number.   *)
LEMMA SumType ==
  ASSUME NEW S, IsFiniteSet(S), NEW f, NEW D \in {Int, Nat},
         \A x \in S : f[x] \in D
  PROVE  SumFunctionOnSet(f, S) \in D
<1> DEFINE X == {T \in SUBSET S : SumFunctionOnSet(f, T) \notin D}
<1>1. SUFFICES ASSUME X # {} PROVE FALSE
  OBVIOUS
<1>2. X \in SUBSET (SUBSET S)
  OBVIOUS
<1>3. PICK T \in X : \A U \in X : U \subseteq T => U = T
  <2> HIDE DEF X
  <2> QED BY <1>1, <1>2, SmallestSubset
<1>4. T \subseteq S /\ IsFiniteSet(T) /\ SumFunctionOnSet(f, T) \notin D
  BY FS_Subset
<1>5. T # {}
  BY <1>4, SumEmpty
<1>6. Pick(T) \in T
  BY <1>5, PickInSet
<1>7. SumFunctionOnSet(f, T \ {Pick(T)}) \in D
  BY <1>3, <1>4, <1>6
<1>8. SumFunctionOnSet(f, T) = f[Pick(T)] + SumFunctionOnSet(f, T \ {Pick(T)})
  BY <1>4, <1>5, SumPick
<1>9. f[Pick(T)] \in D
  BY <1>4, <1>6
<1> QED BY <1>4, <1>7, <1>8, <1>9

(* Any element can be taken out of a sum first.                            *)
LEMMA SumRemove ==
  ASSUME NEW S, IsFiniteSet(S), NEW f, \A x \in S : f[x] \in Int, NEW y \in S
  PROVE  SumFunctionOnSet(f, S) = f[y] + SumFunctionOnSet(f, S \ {y})
<1> DEFINE Out(T, z) == SumFunctionOnSet(f, T)
                            = f[z] + SumFunctionOnSet(f, T \ {z})
           X == {T \in SUBSET S : \E z \in T : ~ Out(T, z)}
<1>1. SUFFICES ASSUME X # {} PROVE FALSE
  OBVIOUS
<1>2. X \in SUBSET (SUBSET S)
  OBVIOUS
<1>3. PICK T \in X : \A U \in X : U \subseteq T => U = T
  <2> HIDE DEF X
  <2> QED BY <1>1, <1>2, SmallestSubset
<1>4. PICK z \in T : ~ Out(T, z)
  OBVIOUS
<1>5. T \subseteq S /\ IsFiniteSet(T)
  BY FS_Subset
<1> DEFINE p == Pick(T)
<1>6. p \in T /\ Out(T, p)
  BY <1>4, <1>5, PickInSet, SumPick
<1>7. p # z
  BY <1>4, <1>6
<1>8. ASSUME NEW U \in SUBSET T, U # T, NEW w \in U PROVE Out(U, w)
  BY <1>3, <1>5, <1>8
<1> HIDE DEF p, X
<1>9. Out(T \ {p}, z) /\ Out(T \ {z}, p)
  BY <1>4, <1>6, <1>7, <1>8
<1>10. (T \ {p}) \ {z} = (T \ {z}) \ {p}
  OBVIOUS
<1> DEFINE rest == SumFunctionOnSet(f, (T \ {z}) \ {p})
<1>11. rest \in Int
  <2>1. IsFiniteSet((T \ {z}) \ {p})
    BY <1>5, FS_Subset
  <2> QED BY <1>5, <2>1, SumType
<1>12. f[p] \in Int /\ f[z] \in Int
  BY <1>4, <1>5, <1>6
<1>13. /\ SumFunctionOnSet(f, T) = f[p] + SumFunctionOnSet(f, T \ {p})
       /\ SumFunctionOnSet(f, T \ {p}) = f[z] + rest
       /\ SumFunctionOnSet(f, T \ {z}) = f[p] + rest
  BY <1>6, <1>9, <1>10
<1>14. SumFunctionOnSet(f, T) = f[z] + SumFunctionOnSet(f, T \ {z})
  <2> HIDE DEF rest
  <2> QED BY <1>11, <1>12, <1>13
<1> QED BY <1>4, <1>14

(* A sum depends only on the values it adds up, and grows with them.       *)
LEMMA SumMonotone ==
  ASSUME NEW S, IsFiniteSet(S), NEW f, NEW g,
         \A x \in S : f[x] \in Int /\ g[x] \in Int /\ f[x] <= g[x]
  PROVE  SumFunctionOnSet(f, S) <= SumFunctionOnSet(g, S)
<1> DEFINE X == {T \in SUBSET S :
                   ~ (SumFunctionOnSet(f, T) <= SumFunctionOnSet(g, T))}
<1>1. SUFFICES ASSUME X # {} PROVE FALSE
  OBVIOUS
<1>2. X \in SUBSET (SUBSET S)
  OBVIOUS
<1>3. PICK T \in X : \A U \in X : U \subseteq T => U = T
  <2> HIDE DEF X
  <2> QED BY <1>1, <1>2, SmallestSubset
<1>4. /\ T \subseteq S /\ IsFiniteSet(T)
      /\ ~ (SumFunctionOnSet(f, T) <= SumFunctionOnSet(g, T))
  BY FS_Subset
<1>5. T # {}
  BY <1>4, SumEmpty
<1> DEFINE p == Pick(T)
           U == T \ {p}
<1>6. p \in T
  BY <1>5, PickInSet
<1>7. U \subseteq T /\ U # T /\ U \in SUBSET S /\ IsFiniteSet(U)
  BY <1>4, <1>6, FS_Subset
<1>8. SumFunctionOnSet(f, U) <= SumFunctionOnSet(g, U)
  BY <1>3, <1>7
<1>9. /\ SumFunctionOnSet(f, T) = f[p] + SumFunctionOnSet(f, U)
      /\ SumFunctionOnSet(g, T) = g[p] + SumFunctionOnSet(g, U)
  BY <1>4, <1>5, SumPick
<1>10. SumFunctionOnSet(f, U) \in Int /\ SumFunctionOnSet(g, U) \in Int
  BY <1>7, SumType
<1>11. f[p] \in Int /\ g[p] \in Int /\ f[p] <= g[p]
  BY <1>4, <1>6
<1> HIDE DEF U, p
<1> QED BY <1>4, <1>8, <1>9, <1>10, <1>11

(* A sum depends on nothing but the values.                                *)
LEMMA SumEqual ==
  ASSUME NEW S, IsFiniteSet(S), NEW f, NEW g,
         \A x \in S : f[x] \in Int /\ g[x] = f[x]
  PROVE  SumFunctionOnSet(g, S) = SumFunctionOnSet(f, S)
<1>1. SumFunctionOnSet(f, S) <= SumFunctionOnSet(g, S)
  BY SumMonotone
<1>2. SumFunctionOnSet(g, S) <= SumFunctionOnSet(f, S)
  BY SumMonotone
<1>3. SumFunctionOnSet(f, S) \in Int /\ SumFunctionOnSet(g, S) \in Int
  BY SumType
<1> QED BY <1>1, <1>2, <1>3

(* A change at one place changes the sum by as much.                       *)
LEMMA SumChange ==
  ASSUME NEW S, IsFiniteSet(S), NEW f, NEW g, NEW y \in S,
         \A x \in S : f[x] \in Int /\ g[x] \in Int /\ (x # y => g[x] = f[x])
  PROVE  SumFunctionOnSet(g, S) = SumFunctionOnSet(f, S) + (g[y] - f[y])
<1>1. IsFiniteSet(S \ {y})
  BY FS_Subset
<1>2. SumFunctionOnSet(g, S \ {y}) = SumFunctionOnSet(f, S \ {y})
  BY <1>1, SumEqual
<1>3. SumFunctionOnSet(f, S \ {y}) \in Int
  BY <1>1, SumType
<1>4. /\ SumFunctionOnSet(f, S) = f[y] + SumFunctionOnSet(f, S \ {y})
      /\ SumFunctionOnSet(g, S) = g[y] + SumFunctionOnSet(g, S \ {y})
  BY SumRemove
<1> QED BY <1>2, <1>3, <1>4

(* No part of a sum of natural numbers exceeds it.                         *)
LEMMA SumPart ==
  ASSUME NEW S, IsFiniteSet(S), NEW f, \A x \in S : f[x] \in Nat, NEW y \in S
  PROVE  f[y] <= SumFunctionOnSet(f, S)
<1>1. IsFiniteSet(S \ {y})
  BY FS_Subset
<1>2. SumFunctionOnSet(f, S \ {y}) \in Nat
  BY <1>1, SumType
<1>3. SumFunctionOnSet(f, S) = f[y] + SumFunctionOnSet(f, S \ {y})
  BY SumRemove
<1> QED BY <1>2, <1>3

(* A sum of zeros.                                                         *)
LEMMA SumZero ==
  ASSUME NEW S, IsFiniteSet(S), NEW f, \A x \in S : f[x] = 0
  PROVE  SumFunctionOnSet(f, S) = 0
<1> DEFINE X == {T \in SUBSET S : SumFunctionOnSet(f, T) # 0}
<1>1. SUFFICES ASSUME X # {} PROVE FALSE
  OBVIOUS
<1>2. X \in SUBSET (SUBSET S)
  OBVIOUS
<1>3. PICK T \in X : \A U \in X : U \subseteq T => U = T
  <2> HIDE DEF X
  <2> QED BY <1>1, <1>2, SmallestSubset
<1>4. T \subseteq S /\ IsFiniteSet(T) /\ SumFunctionOnSet(f, T) # 0
  BY FS_Subset
<1>5. T # {}
  BY <1>4, SumEmpty
<1>6. Pick(T) \in T
  BY <1>5, PickInSet
<1>7. SumFunctionOnSet(f, T \ {Pick(T)}) = 0
  BY <1>3, <1>4, <1>6
<1>8. SumFunctionOnSet(f, T) = f[Pick(T)] + SumFunctionOnSet(f, T \ {Pick(T)})
  BY <1>4, <1>5, SumPick
<1> QED BY <1>4, <1>6, <1>7, <1>8

(* Sums add up term by term.                                               *)
LEMMA SumAdd ==
  ASSUME NEW S, IsFiniteSet(S), NEW f, NEW g, NEW h,
         \A x \in S : f[x] \in Int /\ g[x] \in Int /\ h[x] = f[x] + g[x]
  PROVE  SumFunctionOnSet(h, S)
             = SumFunctionOnSet(f, S) + SumFunctionOnSet(g, S)
<1> DEFINE Adds(T) == SumFunctionOnSet(h, T)
                          = SumFunctionOnSet(f, T) + SumFunctionOnSet(g, T)
           X == {T \in SUBSET S : ~ Adds(T)}
<1>1. SUFFICES ASSUME X # {} PROVE FALSE
  OBVIOUS
<1>2. X \in SUBSET (SUBSET S)
  OBVIOUS
<1>3. PICK T \in X : \A U \in X : U \subseteq T => U = T
  <2> HIDE DEF X
  <2> QED BY <1>1, <1>2, SmallestSubset
<1>4. T \subseteq S /\ IsFiniteSet(T) /\ ~ Adds(T)
  BY FS_Subset
<1>5. T # {}
  BY <1>4, SumEmpty
<1> DEFINE p == Pick(T)
           U == T \ {p}
<1>6. p \in T
  BY <1>5, PickInSet
<1>7. U \subseteq T /\ U # T /\ U \in SUBSET S /\ IsFiniteSet(U)
  BY <1>4, <1>6, FS_Subset
<1>8. Adds(U)
  BY <1>3, <1>7
<1>9. /\ SumFunctionOnSet(f, T) = f[p] + SumFunctionOnSet(f, U)
      /\ SumFunctionOnSet(g, T) = g[p] + SumFunctionOnSet(g, U)
      /\ SumFunctionOnSet(h, T) = h[p] + SumFunctionOnSet(h, U)
  BY <1>4, <1>5, SumPick
<1>10. SumFunctionOnSet(f, U) \in Int /\ SumFunctionOnSet(g, U) \in Int
  BY <1>7, SumType
<1>11. f[p] \in Int /\ g[p] \in Int /\ h[p] = f[p] + g[p]
  BY <1>4, <1>6
<1> HIDE DEF U, p
<1> QED BY <1>4, <1>8, <1>9, <1>10, <1>11

(* Terms that are zero may be left out of a sum.                           *)
LEMMA SumRestrict ==
  ASSUME NEW S, IsFiniteSet(S), NEW A, NEW f, \A x \in S : f[x] \in Int,
         \A x \in S \ A : f[x] = 0
  PROVE  SumFunctionOnSet(f, S) = SumFunctionOnSet(f, S \cap A)
<1> DEFINE Same(T) == SumFunctionOnSet(f, T) = SumFunctionOnSet(f, T \cap A)
           X == {T \in SUBSET S : ~ Same(T)}
<1>1. SUFFICES ASSUME X # {} PROVE FALSE
  OBVIOUS
<1>2. X \in SUBSET (SUBSET S)
  OBVIOUS
<1>3. PICK T \in X : \A U \in X : U \subseteq T => U = T
  <2> HIDE DEF X
  <2> QED BY <1>1, <1>2, SmallestSubset
<1>4. T \subseteq S /\ IsFiniteSet(T) /\ ~ Same(T)
  BY FS_Subset
<1>5. T # {}
  <2>1. {} \cap A = {}
    OBVIOUS
  <2> QED BY <1>4, <2>1
<1> DEFINE p == Pick(T)
           U == T \ {p}
<1>6. p \in T
  BY <1>5, PickInSet
<1>7. U \subseteq T /\ U # T /\ U \in SUBSET S /\ IsFiniteSet(U)
      /\ IsFiniteSet(U \cap A) /\ IsFiniteSet(T \cap A)
  BY <1>4, <1>6, FS_Subset
<1>8. Same(U)
  BY <1>3, <1>7
<1>9. SumFunctionOnSet(f, T) = f[p] + SumFunctionOnSet(f, U)
  BY <1>4, <1>5, SumPick
<1>10. SumFunctionOnSet(f, U \cap A) \in Int
  BY <1>4, <1>7, SumType
<1>11. CASE p \in A
  <2>1. p \in T \cap A /\ (T \cap A) \ {p} = U \cap A
    BY <1>6, <1>11
  <2>2. SumFunctionOnSet(f, T \cap A) = f[p] + SumFunctionOnSet(f, U \cap A)
    <3>1. SumFunctionOnSet(f, T \cap A)
              = f[p] + SumFunctionOnSet(f, (T \cap A) \ {p})
      <4>1. \A x \in T \cap A : f[x] \in Int
        BY <1>4
      <4>2. p \in T \cap A /\ IsFiniteSet(T \cap A)
        BY <1>7, <2>1
      <4> HIDE DEF p, U, X
      <4> QED BY <4>1, <4>2, SumRemove
    <3> QED BY <2>1, <3>1
  <2> QED BY <1>4, <1>8, <1>9, <2>2
<1>12. CASE p \notin A
  <2>1. T \cap A = U \cap A /\ f[p] = 0
    BY <1>4, <1>6, <1>12
  <2> HIDE DEF p, U, X
  <2>2. SumFunctionOnSet(f, T) = SumFunctionOnSet(f, U \cap A)
    BY <1>8, <1>9, <1>10, <2>1
  <2>3. SumFunctionOnSet(f, T) = SumFunctionOnSet(f, T \cap A)
    BY <2>1, <2>2
  <2> QED BY <1>4, <2>3
<1> QED BY <1>11, <1>12

(* A sum splits into a part and the rest.                                  *)
LEMMA SumSplit ==
  ASSUME NEW S, IsFiniteSet(S), NEW A \in SUBSET S, NEW f,
         \A x \in S : f[x] \in Int
  PROVE  SumFunctionOnSet(f, S)
             = SumFunctionOnSet(f, A) + SumFunctionOnSet(f, S \ A)
<1> DEFINE part == [x \in S |-> IF x \in A THEN f[x] ELSE 0]
           rest == [x \in S |-> IF x \in A THEN 0 ELSE f[x]]
<1>1. /\ \A x \in S : part[x] \in Int /\ rest[x] \in Int
                      /\ f[x] = part[x] + rest[x]
      /\ \A x \in A : f[x] \in Int /\ part[x] = f[x]
      /\ \A x \in S \ A : f[x] \in Int /\ rest[x] = f[x]
      /\ \A x \in S \ A : part[x] = 0
      /\ \A x \in S \ (S \ A) : rest[x] = 0
  OBVIOUS
<1>2. S \cap A = A /\ S \cap (S \ A) = S \ A
  OBVIOUS
<1>3. IsFiniteSet(A) /\ IsFiniteSet(S \ A)
  BY FS_Subset
<1> HIDE DEF part, rest
<1>4. SumFunctionOnSet(f, S)
          = SumFunctionOnSet(part, S) + SumFunctionOnSet(rest, S)
  BY <1>1, SumAdd
<1>5. SumFunctionOnSet(part, S) = SumFunctionOnSet(part, S \cap A)
  BY <1>1, SumRestrict
<1>6. SumFunctionOnSet(rest, S) = SumFunctionOnSet(rest, S \cap (S \ A))
  BY <1>1, SumRestrict
<1>7. /\ SumFunctionOnSet(part, A) = SumFunctionOnSet(f, A)
      /\ SumFunctionOnSet(rest, S \ A) = SumFunctionOnSet(f, S \ A)
  BY <1>1, <1>3, SumEqual
<1> QED BY <1>2, <1>4, <1>5, <1>6, <1>7

(* A common factor comes out of a sum.                                     *)
LEMMA SumScale ==
  ASSUME NEW S, IsFiniteSet(S), NEW f, NEW g, NEW c \in Int,
         \A x \in S : f[x] \in Int /\ g[x] = f[x] * c
  PROVE  SumFunctionOnSet(g, S) = SumFunctionOnSet(f, S) * c
<1> DEFINE Scales(T) == SumFunctionOnSet(g, T) = SumFunctionOnSet(f, T) * c
           X == {T \in SUBSET S : ~ Scales(T)}
<1>1. SUFFICES ASSUME X # {} PROVE FALSE
  OBVIOUS
<1>2. X \in SUBSET (SUBSET S)
  OBVIOUS
<1>3. PICK T \in X : \A U \in X : U \subseteq T => U = T
  <2> HIDE DEF X
  <2> QED BY <1>1, <1>2, SmallestSubset
<1>4. T \subseteq S /\ IsFiniteSet(T) /\ ~ Scales(T)
  BY FS_Subset
<1>5. T # {}
  <2>1. 0 * c = 0
    OBVIOUS
  <2> QED BY <1>4, <2>1, SumEmpty
<1> DEFINE p == Pick(T)
           U == T \ {p}
<1>6. p \in T
  BY <1>5, PickInSet
<1>7. U \subseteq T /\ IsFiniteSet(U) /\ U # T
  BY <1>4, <1>6, FS_Subset
<1>8. Scales(U)
  BY <1>3, <1>4, <1>7
<1>9. /\ SumFunctionOnSet(f, T) = f[p] + SumFunctionOnSet(f, U)
      /\ SumFunctionOnSet(g, T) = g[p] + SumFunctionOnSet(g, U)
  BY <1>4, <1>5, SumPick
<1>10. SumFunctionOnSet(f, U) \in Int /\ f[p] \in Int /\ g[p] = f[p] * c
  BY <1>4, <1>6, <1>7, SumType
<1>11. \A i \in Int, j \in Int : (i + j) * c = i * c + j * c
  OBVIOUS
<1>12. SumFunctionOnSet(g, U) = SumFunctionOnSet(f, U) * c
  BY <1>8
<1>13. SumFunctionOnSet(g, T) # SumFunctionOnSet(f, T) * c
  BY <1>4
<1> HIDE DEF p, U, X, Scales
<1>14. SumFunctionOnSet(g, T) = f[p] * c + SumFunctionOnSet(f, U) * c
  BY <1>9, <1>10, <1>12, Zenon
<1>15. (f[p] + SumFunctionOnSet(f, U)) * c
           = f[p] * c + SumFunctionOnSet(f, U) * c
  BY <1>10, <1>11
<1> QED BY <1>9, <1>13, <1>14, <1>15, Zenon

(* g is f after n has moved to y from z.                                   *)
Moves(S, f, g, y, z, n) ==
    \A x \in S : /\ f[x] \in Int
                 /\ g[x] = f[x] + (IF x = y THEN n ELSE 0)
                                - (IF x = z THEN n ELSE 0)

(* What moves from one place to another stays in the sum.                  *)
LEMMA SumMove ==
  ASSUME NEW S, IsFiniteSet(S), NEW f, NEW g, NEW y \in S, NEW z \in S,
         NEW n \in Int, Moves(S, f, g, y, z, n)
  PROVE  SumFunctionOnSet(g, S) = SumFunctionOnSet(f, S)
<1>1. PICK h : h = [x \in S |-> f[x] + (IF x = y THEN n ELSE 0)]
  OBVIOUS
<1> USE DEF Moves
<1>2. \A x \in S : f[x] \in Int /\ h[x] \in Int /\ (x # y => h[x] = f[x])
  BY <1>1
<1>3. \A x \in S : h[x] \in Int /\ g[x] \in Int /\ (x # z => g[x] = h[x])
  BY <1>1
<1>4. h[y] = f[y] + n /\ g[z] = h[z] - n
  BY <1>1
<1>5. SumFunctionOnSet(h, S) = SumFunctionOnSet(f, S) + (h[y] - f[y])
  BY <1>2, SumChange
<1>6. SumFunctionOnSet(g, S) = SumFunctionOnSet(h, S) + (g[z] - h[z])
  BY <1>3, SumChange
<1>7. SumFunctionOnSet(f, S) \in Int /\ SumFunctionOnSet(h, S) \in Int
  BY <1>2, SumType
<1> QED BY <1>2, <1>3, <1>4, <1>5, <1>6, <1>7

(* A sum with a single term.                                               *)
LEMMA SumOne ==
  ASSUME NEW S, IsFiniteSet(S), NEW f, NEW y \in S, NEW n \in Int,
         \A x \in S : f[x] = IF x = y THEN n ELSE 0
  PROVE  SumFunctionOnSet(f, S) = n
<1>1. SumFunctionOnSet(f, S) = f[y] + SumFunctionOnSet(f, S \ {y})
  BY SumRemove
<1>2. SumFunctionOnSet(f, S \ {y}) = 0
  BY FS_Subset, SumZero
<1> QED BY <1>1, <1>2

(* The same for the sum of all values of a function. One value changes,    *)
Changed(S, f, g, y, n) ==
    /\ f \in [S -> Int] /\ g \in [S -> Int] /\ y \in S /\ n \in Int
    /\ \A x \in S : g[x] = f[x] + (IF x = y THEN n ELSE 0)

(* and so does the sum;                                                    *)
LEMMA TotalChange ==
  ASSUME NEW S, IsFiniteSet(S), NEW f, NEW g, NEW y, NEW n,
         Changed(S, f, g, y, n)
  PROVE  SumFunction(g) = SumFunction(f) + n /\ SumFunction(f) \in Int
<1> USE DEF Changed
<1>1. \A x \in S : f[x] \in Int /\ g[x] \in Int /\ (x # y => g[x] = f[x])
  OBVIOUS
<1>2. SumFunctionOnSet(g, S) = SumFunctionOnSet(f, S) + (g[y] - f[y])
  BY <1>1, SumChange
<1>3. g[y] - f[y] = n
  OBVIOUS
<1>4. SumFunctionOnSet(f, S) \in Int
  BY SumType
<1> QED BY <1>2, <1>3, <1>4 DEF SumFunction

(* or part of a value moves to another,                                    *)
Shifted(S, f, g, y, z, n) ==
    /\ f \in [S -> Int] /\ g \in [S -> Int] /\ y \in S /\ z \in S
    /\ n \in Int /\ Moves(S, f, g, y, z, n)

(* and the sum does not change.                                            *)
LEMMA TotalMove ==
  ASSUME NEW S, IsFiniteSet(S), NEW f, NEW g, NEW y, NEW z, NEW n,
         Shifted(S, f, g, y, z, n)
  PROVE  SumFunction(g) = SumFunction(f)
<1>1. SumFunctionOnSet(g, S) = SumFunctionOnSet(f, S)
  BY SumMove DEF Shifted
<1> QED BY <1>1 DEF SumFunction, Shifted

(* A sum does not depend on what its terms are called: h renames them.     *)
Renames(h, S, R, f, g) ==
    /\ \A x, y \in S : h[x] = h[y] => x = y
    /\ \A x \in S : h[x] \in R /\ f[x] \in Int /\ f[x] = g[h[x]]
    /\ \A z \in R : \E x \in S : z = h[x]
LEMMA SumRenamed ==
  ASSUME NEW S, IsFiniteSet(S), NEW R, NEW h, NEW f, NEW g, Renames(h, S, R, f, g)
  PROVE  SumFunctionOnSet(g, R) = SumFunctionOnSet(f, S)
<1> USE DEF Renames
<1>0. R = {h[x] : x \in S}
  OBVIOUS
<1> DEFINE Image(T) == {h[x] : x \in T}
           Same(T) == SumFunctionOnSet(g, Image(T)) = SumFunctionOnSet(f, T)
           X == {T \in SUBSET S : ~ Same(T)}
<1>1. SUFFICES ASSUME X # {} PROVE FALSE
  BY <1>0
<1>2. X \in SUBSET (SUBSET S)
  OBVIOUS
<1>3. PICK T \in X : \A U \in X : U \subseteq T => U = T
  <2> HIDE DEF X
  <2> QED BY <1>1, <1>2, SmallestSubset
<1>4. T \subseteq S /\ IsFiniteSet(T) /\ ~ Same(T)
  BY <1>3, FS_Subset
<1>5. T # {}
  <2>1. Same({})
    <3>1. Image({}) = {}
      OBVIOUS
    <3> HIDE DEF Image
    <3> QED BY <3>1, SumEmpty
  <2> QED BY <1>4, <2>1
<1> DEFINE p == Pick(T)
           U == T \ {p}
<1>6. p \in T /\ U \subseteq T /\ U # T /\ U \subseteq S
  BY <1>4, <1>5, PickInSet
<1>7. Same(U)
  <2> HIDE DEF Same, p
  <2> QED BY <1>3, <1>6
<1>8. IsFiniteSet(Image(T)) /\ h[p] \in Image(T)
  <2> DEFINE k == [x \in T |-> h[x]]
  <2>1. k \in Surjection(T, Image(T))
    BY DEF Surjection
  <2> HIDE DEF k, Image
  <2>2. IsFiniteSet(Image(T))
    BY <1>4, <2>1, FS_Surjection
  <2>3. h[p] \in Image(T)
    BY <1>6 DEF Image
  <2> QED BY <2>2, <2>3
<1>9. Image(T) \ {h[p]} = Image(U)
  BY <1>4, <1>6
<1>10. \A z \in Image(T) : g[z] \in Int
  BY <1>4
<1>11. SumFunctionOnSet(g, Image(T)) = g[h[p]] + SumFunctionOnSet(g, Image(U))
  <2> HIDE DEF Image, p, U, X
  <2>1. SumFunctionOnSet(g, Image(T))
            = g[h[p]] + SumFunctionOnSet(g, Image(T) \ {h[p]})
    BY <1>8, <1>10, SumRemove
  <2> QED BY <1>9, <2>1
<1>12. SumFunctionOnSet(f, T) = f[p] + SumFunctionOnSet(f, U)
  <2>1. \A x \in T : f[x] \in Int
    BY <1>4
  <2> HIDE DEF p, X
  <2> QED BY <1>4, <1>6, <2>1, SumRemove
<1>13. f[p] = g[h[p]]
  BY <1>4, <1>6
<1> HIDE DEF Image, p, U, X
<1> QED BY <1>4, <1>7, <1>11, <1>12, <1>13

-----------------------------------------------------------------------------
(* Sums along a list: of what f makes of its elements at the positions N,  *)
Along(f, s, N) == SumFunctionOnSet([i \in 1..Len(s) |-> f[s[i]]], N)
(* of those before position i, and of all.                                 *)
Before(f, s, i) == Along(f, s, 1..(i - 1))
Total(f, s) == Along(f, s, 1..Len(s))

LEMMA AlongType ==
  ASSUME NEW T, NEW f \in [T -> Nat], NEW s \in Seq(T), NEW N \in SUBSET (1..Len(s))
  PROVE  Along(f, s, N) \in Nat /\ IsFiniteSet(N)
<1> DEFINE g == [i \in 1..Len(s) |-> f[s[i]]]
<1>1. IsFiniteSet(N)
  <2>1. IsFiniteSet(1..Len(s))
    BY FS_Interval
  <2> QED BY <2>1, FS_Subset
<1>2. \A i \in N : g[i] \in Nat
  OBVIOUS
<1> HIDE DEF g
<1>3. SumFunctionOnSet(g, N) \in Nat
  BY <1>1, <1>2, SumType
<1> QED BY <1>1, <1>3 DEF Along, g

(* What comes before a position counts each element up to it,              *)
LEMMA BeforeBound ==
  ASSUME NEW T, NEW f \in [T -> Nat], NEW s \in Seq(T), NEW i \in 1..Len(s)
  PROVE  /\ Before(f, s, i) \in Nat /\ Total(f, s) \in Nat /\ f[s[i]] \in Nat
         /\ Before(f, s, i) + f[s[i]] <= Total(f, s)
         /\ \A j \in 1..(i - 1) : f[s[j]] <= Before(f, s, i)
<1> DEFINE g == [k \in 1..Len(s) |-> f[s[k]]]
           N == 1..Len(s)
           A == 1..(i - 1)
           R == (N \ A) \ {i}
<1>1. /\ A \subseteq N /\ i \in N \ A /\ R \subseteq N
      /\ \A k \in N : g[k] \in Nat /\ g[k] = f[s[k]] /\ g[k] \in Int
  OBVIOUS
<1>2. /\ IsFiniteSet(N) /\ IsFiniteSet(N \ A) /\ IsFiniteSet(A)
      /\ Along(f, s, N) \in Nat /\ Along(f, s, A) \in Nat /\ Along(f, s, R) \in Nat
  BY <1>1, AlongType
<1>3. /\ Along(f, s, N) = SumFunctionOnSet(g, N)
      /\ Along(f, s, A) = SumFunctionOnSet(g, A)
      /\ Along(f, s, R) = SumFunctionOnSet(g, R)
  BY DEF Along
<1>4. \A k \in A : g[k] <= SumFunctionOnSet(g, A)
  <2> HIDE DEF g, A, N
  <2> QED BY <1>1, <1>2, SumPart
<1>5. SumFunctionOnSet(g, N) = SumFunctionOnSet(g, A) + SumFunctionOnSet(g, N \ A)
  <2>1. A \in SUBSET N /\ \A k \in N : g[k] \in Int
    BY <1>1
  <2> HIDE DEF g, A, N
  <2> QED BY <1>2, <2>1, SumSplit
<1>6. SumFunctionOnSet(g, N \ A) = g[i] + SumFunctionOnSet(g, R)
  <2>1. \A x \in N \ A : g[x] \in Int
    BY <1>1
  <2> HIDE DEF g, A, N
  <2> QED BY <1>1, <1>2, <2>1, SumRemove
<1>7. g[i] = f[s[i]] /\ f[s[i]] \in Nat /\ \A k \in A : g[k] = f[s[k]]
  BY <1>1
<1>8. Before(f, s, i) = Along(f, s, A) /\ Total(f, s) = Along(f, s, N)
  BY DEF Before, Total
<1> HIDE DEF g, A, N, R
<1>9. \A j \in A : f[s[j]] <= Before(f, s, i)
  BY <1>3, <1>4, <1>7, <1>8
<1> QED BY <1>2, <1>3, <1>5, <1>6, <1>7, <1>8, <1>9 DEF A

(* nothing, when f makes nothing of any of them,                           *)
LEMMA BeforeNone ==
  ASSUME NEW T, NEW f \in [T -> Nat], NEW s \in Seq(T), NEW i \in 1..(Len(s) + 1),
         \A j \in 1..(i - 1) : f[s[j]] = 0
  PROVE  Before(f, s, i) = 0
<1> DEFINE g == [k \in 1..Len(s) |-> f[s[k]]]
           A == 1..(i - 1)
<1>1. A \subseteq 1..Len(s) /\ \A k \in A : g[k] = 0
  OBVIOUS
<1>2. IsFiniteSet(A)
  BY <1>1, AlongType
<1> HIDE DEF g, A
<1>3. SumFunctionOnSet(g, A) = 0
  BY <1>1, <1>2, SumZero
<1> QED BY <1>3 DEF Before, Along, g, A

(* and less by its head in the rest of the list.                           *)
LEMMA BeforeTail ==
  ASSUME NEW T, NEW f \in [T -> Nat], NEW s \in Seq(T), s # <<>>,
         NEW u, u = Tail(s), NEW i \in 1..(Len(u) + 1)
  PROVE  /\ Before(f, s, i + 1) = f[s[1]] + Before(f, u, i)
         /\ Before(f, s, i + 1) \in Nat /\ Before(f, u, i) \in Nat /\ f[s[1]] \in Nat
<1>1. /\ u \in Seq(T) /\ Len(s) = Len(u) + 1 /\ Len(u) \in Nat
      /\ \A k \in 1..Len(u) : u[k] = s[k + 1]
  OBVIOUS
<1> DEFINE g == [k \in 1..Len(s) |-> f[s[k]]]
           e == [k \in 1..Len(u) |-> f[u[k]]]
           A == 1..i
           B == 1..(i - 1)
           h == [k \in B |-> k + 1]
<1>2. /\ B \subseteq 1..Len(u) /\ A \subseteq 1..Len(s) /\ 1 \in A
      /\ (i + 1) - 1 = i /\ \A k \in A : g[k] \in Nat /\ g[k] \in Int
      /\ g[1] = f[s[1]] /\ f[s[1]] \in Nat
  BY <1>1
<1>3. /\ Along(f, u, B) \in Nat /\ IsFiniteSet(B)
      /\ Along(f, s, A) \in Nat /\ IsFiniteSet(A)
  <2> HIDE DEF A, B
  <2> QED BY <1>1, <1>2, AlongType
<1>4. SumFunctionOnSet(g, A) = g[1] + SumFunctionOnSet(g, A \ {1})
  <2> HIDE DEF g, A
  <2> QED BY <1>2, <1>3, SumRemove
<1>5. /\ \A x, y \in B : h[x] = h[y] => x = y
      /\ \A x \in B : e[x] \in Int /\ e[x] = g[h[x]]
  BY <1>1
<1>6. /\ \A x \in B : h[x] \in A \ {1}
      /\ \A y \in A \ {1} : \E x \in B : y = h[x]
  <2>1. ASSUME NEW y \in A \ {1} PROVE \E x \in B : y = h[x]
    <3>1. y - 1 \in B /\ h[y - 1] = y
      OBVIOUS
    <3> QED BY <3>1
  <2>2. \A x \in B : h[x] \in A \ {1}
    OBVIOUS
  <2> QED BY <2>1, <2>2
<1>7. SumFunctionOnSet(g, A \ {1}) = SumFunctionOnSet(e, B)
  <2>1. Renames(h, B, A \ {1}, e, g)
    BY <1>5, <1>6 DEF Renames
  <2> HIDE DEF h, g, e, A, B
  <2> QED BY <1>3, <2>1, SumRenamed
<1>8. /\ SumFunctionOnSet(g, A) = Along(f, s, A) /\ SumFunctionOnSet(e, B) = Along(f, u, B)
      /\ Before(f, s, i + 1) = Along(f, s, A) /\ Before(f, u, i) = Along(f, u, B)
  BY <1>2 DEF Along, Before
<1> HIDE DEF A, B, g, e, h
<1> QED BY <1>2, <1>3, <1>4, <1>7, <1>8

(* The sum along two lists, one after the other.                           *)
Joins(u, s, t) == u = s \o t
AddsUp(f, s, t, u) ==
    /\ \A i \in 1..(Len(s) + 1) : Before(f, u, i) = Before(f, s, i)
    /\ \A i \in 1..(Len(t) + 1) : Before(f, u, Len(s) + i) = Total(f, s) + Before(f, t, i)
LEMMA BeforeConcat ==
  ASSUME NEW T, NEW f \in [T -> Nat], NEW s \in Seq(T), NEW t \in Seq(T),
         NEW u, Joins(u, s, t)
  PROVE  AddsUp(f, s, t, u) /\ Total(f, u) = Total(f, s) + Total(f, t)
<1>1. /\ u \in Seq(T) /\ Len(u) = Len(s) + Len(t) /\ Len(s) \in Nat /\ Len(t) \in Nat
      /\ \A k \in 1..Len(s) : u[k] = s[k]
      /\ \A k \in 1..Len(t) : u[Len(s) + k] = t[k]
  BY DEF Joins
<1> DEFINE g == [k \in 1..Len(u) |-> f[u[k]]]
           e == [k \in 1..Len(s) |-> f[s[k]]]
           d == [k \in 1..Len(t) |-> f[t[k]]]
<1>2. ASSUME NEW i \in 1..(Len(s) + 1) PROVE Before(f, u, i) = Before(f, s, i)
  <2> DEFINE A == 1..(i - 1)
  <2>1. /\ A \subseteq 1..Len(s)
        /\ \A k \in A : e[k] \in Int /\ g[k] = e[k]
    <3>1. A \subseteq 1..Len(s) /\ A \subseteq 1..Len(u)
      BY <1>1
    <3>2. ASSUME NEW k \in A PROVE e[k] \in Int /\ g[k] = e[k]
      <4>1. k \in 1..Len(s) /\ k \in 1..Len(u) /\ u[k] = s[k]
        BY <1>1, <3>1
      <4> QED BY <4>1
    <3> QED BY <3>1, <3>2
  <2>2. IsFiniteSet(A)
    <3> HIDE DEF A
    <3> QED BY <1>1, <2>1, AlongType
  <2> HIDE DEF g, e, A
  <2>3. SumFunctionOnSet(g, A) = SumFunctionOnSet(e, A)
    BY <2>1, <2>2, SumEqual
  <2> QED BY <2>3 DEF Before, Along, g, e, A
<1>3. ASSUME NEW i \in 1..(Len(t) + 1)
      PROVE  Before(f, u, Len(s) + i) = Total(f, s) + Before(f, t, i)
  <2> DEFINE A == 1..(Len(s) + i - 1)
             B == 1..(i - 1)
             C == 1..Len(s)
             h == [k \in B |-> Len(s) + k]
  <2>1. /\ A \subseteq 1..Len(u) /\ B \subseteq 1..Len(t) /\ C \subseteq A
        /\ \A k \in A : g[k] \in Int
        /\ \A k \in C : e[k] \in Int /\ g[k] = e[k]
        /\ \A x, y \in B : h[x] = h[y] => x = y
        /\ \A x \in B : d[x] \in Int /\ d[x] = g[h[x]]
    <3>1. A \subseteq 1..Len(u) /\ B \subseteq 1..Len(t) /\ C \subseteq A
      BY <1>1
    <3>2. \A k \in A : g[k] \in Int
      BY <1>1, <3>1
    <3>3. \A k \in C : e[k] \in Int /\ g[k] = e[k]
      BY <1>1, <3>1
    <3>4. \A x, y \in B : h[x] = h[y] => x = y
      BY <1>1
    <3>5. ASSUME NEW x \in B PROVE d[x] \in Int /\ d[x] = g[h[x]]
      <4>1. x \in 1..Len(t) /\ h[x] = Len(s) + x /\ Len(s) + x \in 1..Len(u)
        BY <1>1, <3>1
      <4>2. d[x] = f[t[x]] /\ g[h[x]] = f[u[Len(s) + x]] /\ u[Len(s) + x] = t[x]
        BY <1>1, <4>1
      <4> QED BY <4>1, <4>2
    <3> HIDE DEF A, B, C, g, e, d, h
    <3> QED BY <3>1, <3>2, <3>3, <3>4, <3>5
  <2>2. IsFiniteSet(A) /\ IsFiniteSet(B) /\ IsFiniteSet(C)
    <3>1. IsFiniteSet(A)
      <4> HIDE DEF A
      <4> QED BY <1>1, <2>1, AlongType
    <3>2. IsFiniteSet(B)
      <4> HIDE DEF B
      <4> QED BY <1>1, <2>1, AlongType
    <3> QED BY <2>1, <3>1, <3>2, FS_Subset
  <2>3. /\ \A x \in B : h[x] \in A \ C
        /\ \A y \in A \ C : \E x \in B : y = h[x]
    <3>1. ASSUME NEW y \in A \ C PROVE \E x \in B : y = h[x]
      <4>1. y - Len(s) \in B /\ h[y - Len(s)] = y
        BY <1>1
      <4> QED BY <4>1
    <3>2. \A x \in B : h[x] \in A \ C
      BY <1>1
    <3> QED BY <3>1, <3>2
  <2>4. /\ Before(f, u, Len(s) + i) = SumFunctionOnSet(g, A)
        /\ Total(f, s) = SumFunctionOnSet(e, C)
        /\ Before(f, t, i) = SumFunctionOnSet(d, B)
    <3>1. Before(f, u, Len(s) + i) = SumFunctionOnSet(g, A)
      <4>1. Before(f, u, Len(s) + i) = Along(f, u, A)
        BY DEF Before
      <4>2. Along(f, u, A) = SumFunctionOnSet(g, A)
        BY DEF Along
      <4> QED BY <4>1, <4>2
    <3>2. Total(f, s) = SumFunctionOnSet(e, C)
      BY DEF Total, Along
    <3>3. Before(f, t, i) = SumFunctionOnSet(d, B)
      BY DEF Before, Along
    <3> QED BY <3>1, <3>2, <3>3
  <2> HIDE DEF A, B, C, g, e, d, h
  <2>5. SumFunctionOnSet(g, A) = SumFunctionOnSet(g, C) + SumFunctionOnSet(g, A \ C)
    BY <2>1, <2>2, SumSplit
  <2>6. SumFunctionOnSet(g, C) = SumFunctionOnSet(e, C)
    BY <2>1, <2>2, SumEqual
  <2>7. SumFunctionOnSet(g, A \ C) = SumFunctionOnSet(d, B)
    <3>1. Renames(h, B, A \ C, d, g)
      BY <2>1, <2>3 DEF Renames
    <3> QED BY <2>2, <3>1, SumRenamed
  <2> QED BY <2>4, <2>5, <2>6, <2>7
<1>4. Total(f, u) = Total(f, s) + Total(f, t)
  <2>1. /\ Len(t) + 1 \in 1..(Len(t) + 1) /\ (Len(s) + (Len(t) + 1)) - 1 = Len(u)
        /\ (Len(t) + 1) - 1 = Len(t)
    BY <1>1
  <2>2. Before(f, u, Len(s) + (Len(t) + 1)) = Total(f, s) + Before(f, t, Len(t) + 1)
    BY <1>3, <2>1
  <2>3. /\ Before(f, u, Len(s) + (Len(t) + 1)) = Total(f, u)
        /\ Before(f, t, Len(t) + 1) = Total(f, t)
    BY <2>1 DEF Before, Total
  <2> QED BY <2>2, <2>3
<1> QED BY <1>2, <1>3, <1>4 DEF AddsUp

LEMMA TotalConcat ==
  ASSUME NEW T, NEW f \in [T -> Nat], NEW s \in Seq(T), NEW t \in Seq(T)
  PROVE  Total(f, s \o t) = Total(f, s) + Total(f, t)
<1>1. PICK u : u = s \o t
  OBVIOUS
<1>2. Joins(u, s, t)
  BY <1>1 DEF Joins
<1>3. Total(f, u) = Total(f, s) + Total(f, t)
  BY <1>2, BeforeConcat
<1> QED BY <1>1, <1>3

LEMMA TotalOne ==
  ASSUME NEW T, NEW f \in [T -> Nat], NEW a \in T
  PROVE  Total(f, <<a>>) = f[a]
<1> DEFINE s == <<a>>
           g == [k \in 1..Len(s) |-> f[s[k]]]
<1>1. Len(s) = 1 /\ 1..1 = {1} /\ g[1] = f[a] /\ \A k \in {1} : g[k] = IF k = 1 THEN f[a] ELSE 0
  OBVIOUS
<1>2. IsFiniteSet({1}) /\ f[a] \in Int
  <2>1. IsFiniteSet({1})
    BY FS_Singleton
  <2>2. f[a] \in Int
    OBVIOUS
  <2> QED BY <2>1, <2>2
<1>3. Total(f, s) = SumFunctionOnSet(g, {1})
  BY <1>1 DEF Total, Along
<1> HIDE DEF g, s
<1>4. SumFunctionOnSet(g, {1}) = f[a]
  BY <1>1, <1>2, SumOne
<1> QED BY <1>3, <1>4 DEF s

LEMMA TotalTwo ==
  ASSUME NEW T, NEW f \in [T -> Nat], NEW a \in T, NEW b \in T
  PROVE  Total(f, <<a, b>>) = f[a] + f[b]
<1>1. <<a>> \in Seq(T) /\ <<b>> \in Seq(T)
  OBVIOUS
<1> DEFINE u == <<a>> \o <<b>>
<1>2. <<a, b>> = u
  <2>1. u = [i \in 1..2 |-> IF i = 1 THEN a ELSE b]
    <3>1. u \in Seq(T) /\ Len(u) = 2 /\ u[1] = a /\ u[2] = b
      BY <1>1
    <3>2. u = [i \in 1..2 |-> u[i]]
      BY <3>1
    <3>3. \A i \in 1..2 : u[i] = IF i = 1 THEN a ELSE b
      BY <3>1
    <3> HIDE DEF u
    <3> QED BY <3>2, <3>3
  <2>2. <<a, b>> = [i \in 1..2 |-> IF i = 1 THEN a ELSE b]
    OBVIOUS
  <2> QED BY <2>1, <2>2
<1> HIDE DEF u
<1>3. Total(f, u) = Total(f, <<a>>) + Total(f, <<b>>)
  <2>1. PICK s, t : s = <<a>> /\ t = <<b>>
    OBVIOUS
  <2>2. u = s \o t /\ s \in Seq(T) /\ t \in Seq(T)
    BY <1>1, <2>1 DEF u
  <2>3. Total(f, s \o t) = Total(f, s) + Total(f, t)
    BY <2>2, TotalConcat
  <2> QED BY <2>1, <2>2, <2>3
<1> QED BY <1>2, <1>3, TotalOne
=============================================================================
