------------------------------ MODULE SumProofs ------------------------------
(***************************************************************************)
(* Facts about sums over finite sets, which the amounts of the payroll and *)
(* the months of a subscription are.                                       *)
(*                                                                         *)
(* An induction theorem of the library cannot be used, for it takes the    *)
(* property as a parameter.  The induction is made by hand: among the      *)
(* subsets of a finite set for which something fails there is a smallest.  *)
(***************************************************************************)
EXTENDS Integers, FiniteSets, Functions, FiniteSetTheorems, WellFoundedInduction, TLAPS

Pick(s) == CHOOSE x \in s : TRUE

Without(s) == s \ {Pick(s)}

LEMMA PickIsMember == \A s : s # {} => Pick(s) \in s
BY DEF Pick

\* What fails for some subset fails for one all of whose proper subsets are spared.
LEMMA SmallestSubset ==
    ASSUME NEW S, IsFiniteSet(S), NEW B, B \subseteq SUBSET S, B # {}
    PROVE  \E T \in B : \A U \in SUBSET T : U # T => U \notin B
<1>1. IsWellFoundedOn(StrictSubsetOrdering(S), SUBSET S)
  BY FS_StrictSubsetOrderingWellFounded, FS_FiniteSubsetsOfFinite
<1>2. PICK T \in B : \A U \in B : <<U, T>> \notin StrictSubsetOrdering(S)
  BY <1>1, WFMin
<1>3. ASSUME NEW U \in SUBSET T, U # T, U \in B PROVE FALSE
  <2>1. <<U, T>> \in StrictSubsetOrdering(S)
    BY <1>3 DEF StrictSubsetOrdering
  <2> QED BY <1>2, <1>3, <2>1
<1> QED BY <1>3

(***************************************************************************)
(* The recursion of the fold                                               *)
(***************************************************************************)

Sums(F, it, S) ==
    it = [s \in SUBSET S |-> IF s = {} THEN 0 ELSE F[Pick(s)] + it[Without(s)]]

LEMMA SumsStep ==
    ASSUME NEW F, NEW S, NEW it, Sums(F, it, S), NEW s \in SUBSET S
    PROVE  it[s] = IF s = {} THEN 0 ELSE F[Pick(s)] + it[Without(s)]
<1>1. it = [t \in SUBSET S |-> IF t = {} THEN 0 ELSE F[Pick(t)] + it[Without(t)]]
  BY DEF Sums
<1> QED BY <1>1

\* The recursion determines the sums.
LEMMA SumsAreUnique ==
    ASSUME NEW F, NEW S, IsFiniteSet(S), NEW g, Sums(F, g, S),
           NEW T \in SUBSET S, NEW h, Sums(F, h, T), NEW s \in SUBSET T
    PROVE  g[s] = h[s]
<1> DEFINE B == {u \in SUBSET T : g[u] # h[u]}
<1>1. ASSUME B # {} PROVE FALSE
  <2>1. IsFiniteSet(T)
    BY FS_Subset
  <2>2. PICK u \in B : \A v \in SUBSET u : v # u => v \notin B
    BY <1>1, <2>1, SmallestSubset
  <2>3. u # {}
    BY <2>2, SumsStep
  <2>4. Without(u) \in SUBSET u /\ Without(u) # u
    BY <2>3, PickIsMember DEF Without
  <2>5. g[Without(u)] = h[Without(u)]
    BY <2>2, <2>4
  <2>6. g[u] = F[Pick(u)] + g[Without(u)] /\ h[u] = F[Pick(u)] + h[Without(u)]
    BY <2>2, <2>3, SumsStep
  <2> QED BY <2>2, <2>5, <2>6
<1> QED BY <1>1

\* The sum of the fold over S.
TheSum(F, S) == (CHOOSE it : Sums(F, it, S))[S]

\* There are such sums.
LEMMA SumsExist ==
    ASSUME NEW F, NEW S, IsFiniteSet(S)
    PROVE  \E it : Sums(F, it, S)
<1> DEFINE B == {T \in SUBSET S : ~\E it : Sums(F, it, T)}
<1>1. ASSUME B # {} PROVE FALSE
  <2>0. B \subseteq SUBSET S
    OBVIOUS
  <2>1. PICK T \in B : \A U \in SUBSET T : U # T => U \notin B
    <3> HIDE DEF B
    <3> QED BY <1>1, <2>0, SmallestSubset
  <2>2. ASSUME NEW U \in SUBSET T, U # T
        PROVE  Sums(F, CHOOSE it : Sums(F, it, U), U)
    <3>1. \E it : Sums(F, it, U)
      BY <2>1, <2>2
    <3> QED BY <3>1
  <2> DEFINE g == [s \in SUBSET T |-> IF s = {} THEN 0 ELSE F[Pick(s)] + TheSum(F, Without(s))]
  <2>3. ASSUME NEW U \in SUBSET T, U # T
        PROVE  g[U] = TheSum(F, U)
    <3> DEFINE it == CHOOSE it : Sums(F, it, U)
               less == CHOOSE less : Sums(F, less, Without(U))
    <3>1. Sums(F, it, U)
      BY <2>2, <2>3
    <3>2. it[U] = IF U = {} THEN 0 ELSE F[Pick(U)] + it[Without(U)]
      <4> HIDE DEF it
      <4> QED BY <3>1, SumsStep
    <3>3. CASE U # {}
      <4>1. Without(U) \in SUBSET U /\ Without(U) \in SUBSET T /\ Without(U) # T
        BY <2>3, <3>3, PickIsMember DEF Without
      <4>2. Sums(F, less, Without(U))
        BY <2>2, <4>1
      <4>3. IsFiniteSet(U)
        BY <2>1, FS_Subset
      <4> HIDE DEF it, less
      <4>4. it[Without(U)] = less[Without(U)]
        BY <3>1, <4>1, <4>2, <4>3, SumsAreUnique
      <4>5. g[U] = F[Pick(U)] + TheSum(F, Without(U))
        BY <3>3
      <4> QED BY <3>2, <3>3, <4>4, <4>5 DEF TheSum, it, less
    <3>4. CASE U = {}
      BY <3>2, <3>4 DEF TheSum
    <3> QED BY <3>3, <3>4
  <2>4. Sums(F, g, T)
    <3>1. ASSUME NEW s \in SUBSET T, s # {} PROVE g[Without(s)] = TheSum(F, Without(s))
      <4>1. Without(s) \in SUBSET T /\ Without(s) # T
        BY <3>1, PickIsMember DEF Without
      <4> QED BY <2>3, <4>1
    <3>2. \A s \in SUBSET T : (IF s = {} THEN 0 ELSE F[Pick(s)] + TheSum(F, Without(s)))
                                = (IF s = {} THEN 0 ELSE F[Pick(s)] + g[Without(s)])
      <4> HIDE DEF g
      <4> QED BY <3>1
    <3>3. g = [s \in SUBSET T |-> IF s = {} THEN 0 ELSE F[Pick(s)] + g[Without(s)]]
      <4> DEFINE e(s) == IF s = {} THEN 0 ELSE F[Pick(s)] + TheSum(F, Without(s))
                 f(s) == IF s = {} THEN 0 ELSE F[Pick(s)] + g[Without(s)]
      <4>1. g = [s \in SUBSET T |-> e(s)]
        OBVIOUS
      <4>2. \A s \in SUBSET T : e(s) = f(s)
        BY <3>2
      <4> HIDE DEF e, f, g
      <4>3. g = [s \in SUBSET T |-> f(s)]
        BY <4>1, <4>2
      <4> QED BY <4>3 DEF f
    <3> QED BY <3>3 DEF Sums
  <2> QED BY <2>1, <2>4
<1> QED BY <1>1

\* The operator of the community modules is that sum.
LEMMA SumIsTheSum == \A F, S : SumFunctionOnSet(F, S) = TheSum(F, S)
BY Zenon DEF SumFunctionOnSet, FoldFunctionOnSet, MapThenFoldSet, TheSum, Sums, Pick, Without

LEMMA SumStep ==
    ASSUME NEW F, NEW S, IsFiniteSet(S)
    PROVE  SumFunctionOnSet(F, S) =
               IF S = {} THEN 0 ELSE F[Pick(S)] + SumFunctionOnSet(F, Without(S))
<1> DEFINE it == CHOOSE it : Sums(F, it, S)
           less == CHOOSE less : Sums(F, less, Without(S))
<1>1. Sums(F, it, S)
  BY SumsExist
<1>2. Without(S) \in SUBSET S /\ IsFiniteSet(Without(S))
  BY FS_Subset DEF Without
<1>3. Sums(F, less, Without(S))
  BY <1>2, SumsExist
<1> HIDE DEF it, less
<1>4. it[S] = IF S = {} THEN 0 ELSE F[Pick(S)] + it[Without(S)]
  BY <1>1, SumsStep
<1>5. it[Without(S)] = less[Without(S)]
  BY <1>1, <1>2, <1>3, SumsAreUnique
<1> QED BY <1>4, <1>5, SumIsTheSum DEF TheSum, it, less

(***************************************************************************)
(* Sums of integers                                                        *)
(***************************************************************************)

Ints(F, S) == \A x \in S : F[x] \in Int

LEMMA SumOfNothing == \A F : SumFunctionOnSet(F, {}) = 0
BY FS_EmptySet, SumStep

LEMMA SumIsInt ==
    ASSUME NEW S, IsFiniteSet(S), NEW F, Ints(F, S)
    PROVE  SumFunctionOnSet(F, S) \in Int
<1> DEFINE B == {T \in SUBSET S : SumFunctionOnSet(F, T) \notin Int}
<1>1. ASSUME B # {} PROVE FALSE
  <2>1. B \subseteq SUBSET S
    OBVIOUS
  <2>2. PICK T \in B : \A U \in SUBSET T : U # T => U \notin B
    <3> HIDE DEF B
    <3> QED BY <1>1, <2>1, SmallestSubset
  <2>3. T # {} /\ IsFiniteSet(T)
    <3>1. SumFunctionOnSet(F, {}) \in Int
      BY SumOfNothing
    <3>2. IsFiniteSet(T)
      BY FS_Subset
    <3> QED BY <2>2, <3>1, <3>2
  <2>4. Without(T) \in SUBSET T /\ Without(T) # T /\ Pick(T) \in S
    BY <2>3, PickIsMember DEF Without
  <2>5. SumFunctionOnSet(F, Without(T)) \in Int
    BY <2>2, <2>4
  <2>6. SumFunctionOnSet(F, T) = F[Pick(T)] + SumFunctionOnSet(F, Without(T))
    BY <2>3, SumStep
  <2>7. F[Pick(T)] \in Int
    BY <2>4 DEF Ints
  <2> QED BY <2>2, <2>5, <2>6, <2>7
<1> QED BY <1>1

\* Any element can be taken first.
LEMMA SumTakes ==
    ASSUME NEW S, IsFiniteSet(S), NEW F, Ints(F, S), NEW x \in S
    PROVE  SumFunctionOnSet(F, S) = F[x] + SumFunctionOnSet(F, S \ {x})
<1> DEFINE Sum(T) == SumFunctionOnSet(F, T)
           Takes(T) == \A y \in T : Sum(T) = F[y] + Sum(T \ {y})
           B == {T \in SUBSET S : ~Takes(T)}
<1>1. \A T \in SUBSET S : IsFiniteSet(T) /\ Sum(T) \in Int
  <2> SUFFICES ASSUME NEW T \in SUBSET S PROVE IsFiniteSet(T) /\ Sum(T) \in Int
    OBVIOUS
  <2>1. IsFiniteSet(T) /\ Ints(F, T)
    BY FS_Subset DEF Ints
  <2> QED BY <2>1, SumIsInt
<1>2. \A T \in SUBSET S : T # {} => Sum(T) = F[Pick(T)] + Sum(T \ {Pick(T)})
  BY <1>1, SumStep DEF Without
<1> HIDE DEF Sum
<1>3. ASSUME B # {} PROVE FALSE
  <2>1. B \subseteq SUBSET S
    OBVIOUS
  <2>2. PICK T \in B : \A U \in SUBSET T : U # T => U \notin B
    <3> HIDE DEF B
    <3> QED BY <1>3, <2>1, SmallestSubset
  <2>3. PICK y \in T : Sum(T) # F[y] + Sum(T \ {y})
    BY <2>2
  <2> DEFINE p == Pick(T)
             U == T \ {p}
             V == T \ {y}
  <2>4. p \in T /\ p # y
    BY <1>2, <2>2, <2>3, PickIsMember
  <2> HIDE DEF p
  <2>5. Sum(T) = F[p] + Sum(U)
    BY <1>2, <2>2, <2>3 DEF p
  <2>6. Sum(U) = F[y] + Sum(U \ {y})
    <3>1. U \in SUBSET T /\ U # T /\ U \in SUBSET S /\ y \in U
      BY <2>2, <2>4
    <3>2. Takes(U)
      BY <2>2, <3>1
    <3> QED BY <3>1, <3>2
  <2>7. Sum(V) = F[p] + Sum(V \ {p})
    <3>1. V \in SUBSET T /\ V # T /\ V \in SUBSET S /\ p \in V
      BY <2>2, <2>3, <2>4
    <3>2. Takes(V)
      BY <2>2, <3>1
    <3> QED BY <3>1, <3>2
  <2>8. U \ {y} = V \ {p} /\ U \ {y} \in SUBSET S
    BY <2>2
  <2>9. F[p] \in Int /\ F[y] \in Int /\ Sum(U \ {y}) \in Int
    BY <1>1, <2>2, <2>3, <2>4, <2>8 DEF Ints
  <2>10. Sum(T) # F[y] + Sum(V)
    BY <2>3
  <2>11. Sum(U \ {y}) = Sum(V \ {p})
    BY <2>8
  <2> DEFINE rest == Sum(U \ {y})
             both == Sum(T)
  <2>12. rest \in Int /\ both = F[p] + (F[y] + rest) /\ both # F[y] + (F[p] + rest)
    BY <2>5, <2>6, <2>7, <2>9, <2>10, <2>11
  <2> HIDE DEF rest, both
  <2> QED BY <2>9, <2>12
<1>4. Takes(S)
  BY <1>3
<1> QED BY <1>4 DEF Sum

\* So what grows and shrinks by one element decides what holds of sums.
LEMMA SumOfMore ==
    ASSUME NEW S, IsFiniteSet(S), NEW x, x \notin S, NEW F, Ints(F, S \cup {x})
    PROVE  SumFunctionOnSet(F, S \cup {x}) = F[x] + SumFunctionOnSet(F, S)
<1>1. IsFiniteSet(S \cup {x}) /\ (S \cup {x}) \ {x} = S
  BY FS_AddElement
<1> QED BY <1>1, SumTakes

\* The induction, for a set of subsets.
LEMMA AllSubsets ==
    ASSUME NEW S, IsFiniteSet(S), NEW G, {} \in G,
           ASSUME NEW T \in SUBSET S, T \in G, NEW x \in S \ T, IsFiniteSet(T)
           PROVE  T \cup {x} \in G
    PROVE  S \in G
<1> DEFINE B == {T \in SUBSET S : T \notin G}
<1>1. ASSUME B # {} PROVE FALSE
  <2>1. B \subseteq SUBSET S
    OBVIOUS
  <2>2. PICK T \in B : \A U \in SUBSET T : U # T => U \notin B
    <3> HIDE DEF B
    <3> QED BY <1>1, <2>1, SmallestSubset
  <2>3. PICK x \in T : TRUE
    BY <2>2
  <2>4. T \ {x} \in SUBSET S /\ T \ {x} \in G /\ x \in S \ (T \ {x})
    BY <2>2, <2>3
  <2>5. IsFiniteSet(T \ {x}) /\ (T \ {x}) \cup {x} = T
    BY <2>3, <2>4, FS_Subset
  <2> HIDE DEF B
  <2>6. T \in G
    BY <2>4, <2>5
  <2> QED BY <2>2, <2>6 DEF B
<1> QED BY <1>1

\* What is summed decides the sum.
LEMMA SumOfSame ==
    ASSUME NEW S, IsFiniteSet(S), NEW F, Ints(F, S), NEW H, \A x \in S : H[x] = F[x]
    PROVE  SumFunctionOnSet(H, S) = SumFunctionOnSet(F, S)
<1> DEFINE G == {T \in SUBSET S : SumFunctionOnSet(H, T) = SumFunctionOnSet(F, T)}
<1>1. {} \in G
  BY SumOfNothing
<1>2. ASSUME NEW T \in SUBSET S, T \in G, NEW x \in S \ T, IsFiniteSet(T)
      PROVE  T \cup {x} \in G
  <2>1. Ints(F, T \cup {x}) /\ Ints(H, T \cup {x}) /\ H[x] = F[x] /\ T \cup {x} \in SUBSET S
    BY DEF Ints
  <2>2. SumFunctionOnSet(F, T \cup {x}) = F[x] + SumFunctionOnSet(F, T)
    BY <1>2, <2>1, SumOfMore
  <2>3. SumFunctionOnSet(H, T \cup {x}) = H[x] + SumFunctionOnSet(H, T)
    BY <1>2, <2>1, SumOfMore
  <2> QED BY <1>2, <2>1, <2>2, <2>3
<1> HIDE DEF G
<1>3. S \in G
  BY <1>1, <1>2, AllSubsets
<1> QED BY <1>3 DEF G

\* The sum of the sums of two columns is that of their sum.
LEMMA SumOfSums ==
    ASSUME NEW S, IsFiniteSet(S), NEW F, Ints(F, S), NEW H, Ints(H, S),
           NEW K, \A x \in S : K[x] = F[x] + H[x]
    PROVE  SumFunctionOnSet(K, S) = SumFunctionOnSet(F, S) + SumFunctionOnSet(H, S)
<1> DEFINE Sum(f, T) == SumFunctionOnSet(f, T)
           G == {T \in SUBSET S : Sum(K, T) = Sum(F, T) + Sum(H, T)}
<1>1. {} \in G
  BY SumOfNothing
<1>2. ASSUME NEW T \in SUBSET S, T \in G, NEW x \in S \ T, IsFiniteSet(T)
      PROVE  T \cup {x} \in G
  <2>1. /\ Ints(F, T) /\ Ints(H, T) /\ T \cup {x} \in SUBSET S
        /\ Ints(F, T \cup {x}) /\ Ints(H, T \cup {x}) /\ Ints(K, T \cup {x})
    BY DEF Ints
  <2>2. F[x] \in Int /\ H[x] \in Int /\ K[x] = F[x] + H[x]
    BY DEF Ints
  <2>3. Sum(F, T) \in Int /\ Sum(H, T) \in Int
    BY <1>2, <2>1, SumIsInt
  <2>4. /\ Sum(F, T \cup {x}) = F[x] + Sum(F, T)
        /\ Sum(H, T \cup {x}) = H[x] + Sum(H, T)
        /\ Sum(K, T \cup {x}) = K[x] + Sum(K, T)
    BY <1>2, <2>1, SumOfMore
  <2>5. Sum(K, T) = Sum(F, T) + Sum(H, T)
    BY <1>2
  <2> HIDE DEF Sum
  <2> QED BY <2>1, <2>2, <2>3, <2>4, <2>5
<1> HIDE DEF G
<1>3. S \in G
  BY <1>1, <1>2, AllSubsets
<1> QED BY <1>3 DEF G

\* The sum over two sets without a common element.
LEMMA SumOfBoth ==
    ASSUME NEW A, IsFiniteSet(A), NEW B, IsFiniteSet(B), A \cap B = {},
           NEW F, Ints(F, A \cup B)
    PROVE  SumFunctionOnSet(F, A \cup B) = SumFunctionOnSet(F, A) + SumFunctionOnSet(F, B)
<1> DEFINE Sum(T) == SumFunctionOnSet(F, T)
           G == {T \in SUBSET A : Sum(T \cup B) = Sum(T) + Sum(B)}
<1>1. Sum(B) \in Int
  BY SumIsInt DEF Ints
<1>2. {} \in G
  <2>1. {} \cup B = B
    OBVIOUS
  <2> QED BY <1>1, <2>1, SumOfNothing
<1>3. ASSUME NEW T \in SUBSET A, T \in G, NEW x \in A \ T, IsFiniteSet(T)
      PROVE  T \cup {x} \in G
  <2>1. /\ Ints(F, T) /\ Ints(F, T \cup {x}) /\ Ints(F, (T \cup B) \cup {x})
        /\ F[x] \in Int /\ T \cup {x} \in SUBSET A
    BY DEF Ints
  <2>2. x \notin T /\ x \notin T \cup B /\ IsFiniteSet(T \cup B)
    BY <1>3, FS_Union
  <2>3. Sum(T) \in Int
    BY <1>3, <2>1, SumIsInt
  <2>4. Sum(T \cup {x}) = F[x] + Sum(T)
    BY <1>3, <2>1, <2>2, SumOfMore
  <2>5. Sum((T \cup B) \cup {x}) = F[x] + Sum(T \cup B)
    BY <2>1, <2>2, SumOfMore
  <2>6. (T \cup {x}) \cup B = (T \cup B) \cup {x} /\ Sum(T \cup B) = Sum(T) + Sum(B)
    BY <1>3
  <2>7. Sum((T \cup {x}) \cup B) = Sum((T \cup B) \cup {x})
    BY <2>6
  <2> DEFINE a == Sum(T)
             b == Sum(B)
             c == Sum(T \cup {x})
             d == Sum((T \cup {x}) \cup B)
  <2>8. d = F[x] + (a + b) /\ c = F[x] + a
    BY <2>4, <2>5, <2>6, <2>7
  <2>9. a \in Int /\ b \in Int
    BY <1>1, <2>3
  <2>10. d = c + b
    <3> HIDE DEF a, b, c, d
    <3> QED BY <2>1, <2>8, <2>9
  <2> QED BY <2>1, <2>10
<1> HIDE DEF G
<1>4. A \in G
  BY <1>2, <1>3, AllSubsets
<1> QED BY <1>4 DEF G

\* C[d] is the part of S whose class is d.
Classes(S, class, D, C) ==
    /\ \A d \in D : C[d] \in SUBSET S
    /\ \A x \in S : class[x] \in D
    /\ \A x \in S, d \in D : x \in C[d] <=> class[x] = d

\* Sums over the classes of a set, and their sum.
LEMMA SumByClass ==
    ASSUME NEW S, IsFiniteSet(S), NEW F, Ints(F, S), NEW D, IsFiniteSet(D),
           NEW class, NEW C, Classes(S, class, D, C),
           NEW K, \A d \in D : K[d] = SumFunctionOnSet(F, C[d])
    PROVE  SumFunctionOnSet(K, D) = SumFunctionOnSet(F, S)
<1> DEFINE Sum(f, T) == SumFunctionOnSet(f, T)
           In(E) == {x \in S : class[x] \in E}
           G == {E \in SUBSET D : Sum(K, E) = Sum(F, In(E))}
<1>1. \A T \in SUBSET S : IsFiniteSet(T) /\ Ints(F, T) /\ Sum(F, T) \in Int
  <2> SUFFICES ASSUME NEW T \in SUBSET S PROVE IsFiniteSet(T) /\ Ints(F, T) /\ Sum(F, T) \in Int
    OBVIOUS
  <2>1. IsFiniteSet(T) /\ Ints(F, T)
    BY FS_Subset DEF Ints
  <2> QED BY <2>1, SumIsInt
<1>2. Ints(K, D)
  BY <1>1 DEF Ints, Classes
<1>3. {} \in G
  <2>1. In({}) = {}
    OBVIOUS
  <2> QED BY <2>1, SumOfNothing
<1>4. ASSUME NEW E \in SUBSET D, E \in G, NEW d \in D \ E, IsFiniteSet(E)
      PROVE  E \cup {d} \in G
  <2>1. In(E) \in SUBSET S /\ C[d] \in SUBSET S /\ In(E) \cup C[d] \in SUBSET S /\ In(E) \cap C[d] = {}
        /\ In(E \cup {d}) = In(E) \cup C[d]
    BY DEF Classes
  <2>2. Ints(K, E \cup {d}) /\ E \cup {d} \in SUBSET D /\ d \notin E
    BY <1>2 DEF Ints
  <2>3. Sum(K, E \cup {d}) = K[d] + Sum(K, E)
    BY <1>4, <2>2, SumOfMore
  <2>4. K[d] = Sum(F, C[d]) /\ Sum(K, E) = Sum(F, In(E))
    BY <1>4
  <2> HIDE DEF In
  <2>5. Sum(F, In(E) \cup C[d]) = Sum(F, In(E)) + Sum(F, C[d])
    <3> DEFINE A == In(E)
               B == C[d]
    <3>1. IsFiniteSet(A) /\ IsFiniteSet(B) /\ A \cap B = {} /\ Ints(F, A \cup B)
      BY <1>1, <2>1
    <3> HIDE DEF A, B
    <3>2. SumFunctionOnSet(F, A \cup B) = SumFunctionOnSet(F, A) + SumFunctionOnSet(F, B)
      BY <3>1, SumOfBoth
    <3> QED BY <3>2 DEF A, B
  <2>6. Sum(F, In(E)) \in Int /\ Sum(F, C[d]) \in Int
    BY <1>1, <2>1
  <2>7. Sum(F, In(E \cup {d})) = Sum(F, In(E) \cup C[d])
    BY <2>1
  <2> DEFINE a == Sum(F, In(E))
             b == Sum(F, C[d])
             c == Sum(K, E \cup {d})
             f == Sum(F, In(E \cup {d}))
  <2>8. c = b + a /\ f = a + b
    BY <2>3, <2>4, <2>5, <2>7
  <2>9. c = f
    <3>1. a \in Int /\ b \in Int
      BY <2>6
    <3> HIDE DEF a, b, c, f
    <3> QED BY <2>8, <3>1
  <2> USE DEF In
  <2> QED BY <2>2, <2>9
<1>5. In(D) = S
  BY DEF Classes
<1> HIDE DEF G, In
<1>6. D \in G
  BY <1>3, <1>4, AllSubsets
<1> QED BY <1>5, <1>6 DEF G

\* The same when every class has a member: there are finitely many classes.
LEMMA ClassesAddUp ==
    ASSUME NEW S, IsFiniteSet(S), NEW F, Ints(F, S),
           NEW D, NEW class, NEW C, Classes(S, class, D, C), \A d \in D : C[d] # {},
           NEW K, \A d \in D : K[d] = SumFunctionOnSet(F, C[d])
    PROVE  /\ IsFiniteSet(D) /\ Ints(K, D)
           /\ SumFunctionOnSet(K, D) = SumFunctionOnSet(F, S)
<1>1. IsFiniteSet(D)
  <2> DEFINE f == [x \in S |-> class[x]]
  <2>1. f \in Surjection(S, D)
    BY DEF Surjection, Classes
  <2> QED BY <2>1, FS_Surjection
<1>2. Ints(K, D)
  <2> SUFFICES ASSUME NEW d \in D PROVE K[d] \in Int
    BY DEF Ints
  <2>1. IsFiniteSet(C[d]) /\ Ints(F, C[d])
    BY FS_Subset DEF Ints, Classes
  <2> QED BY <2>1, SumIsInt
<1> QED BY <1>1, <1>2, SumByClass

\* A column that is nowhere above another one does not sum to more.
LEMMA SumOfLess ==
    ASSUME NEW S, IsFiniteSet(S), NEW F, Ints(F, S), NEW H, Ints(H, S),
           \A x \in S : F[x] <= H[x]
    PROVE  SumFunctionOnSet(F, S) <= SumFunctionOnSet(H, S)
<1> DEFINE Sum(f, T) == SumFunctionOnSet(f, T)
           G == {T \in SUBSET S : Sum(F, T) <= Sum(H, T)}
<1>1. {} \in G
  BY SumOfNothing
<1>2. ASSUME NEW T \in SUBSET S, T \in G, NEW x \in S \ T, IsFiniteSet(T)
      PROVE  T \cup {x} \in G
  <2>1. /\ Ints(F, T) /\ Ints(H, T) /\ T \cup {x} \in SUBSET S
        /\ Ints(F, T \cup {x}) /\ Ints(H, T \cup {x})
        /\ F[x] \in Int /\ H[x] \in Int /\ F[x] <= H[x]
    BY DEF Ints
  <2>2. Sum(F, T) \in Int /\ Sum(H, T) \in Int /\ Sum(F, T) <= Sum(H, T)
    BY <1>2, <2>1, SumIsInt
  <2>3. /\ Sum(F, T \cup {x}) = F[x] + Sum(F, T)
        /\ Sum(H, T \cup {x}) = H[x] + Sum(H, T)
    BY <1>2, <2>1, SumOfMore
  <2> HIDE DEF Sum
  <2> QED BY <2>1, <2>2, <2>3
<1> HIDE DEF G
<1>3. S \in G
  BY <1>1, <1>2, AllSubsets
<1> QED BY <1>3 DEF G

LEMMA SumOfOne ==
    ASSUME NEW x, NEW F, F[x] \in Int
    PROVE  SumFunctionOnSet(F, {x}) = F[x]
<1>1. IsFiniteSet({}) /\ Ints(F, {} \cup {x}) /\ {} \cup {x} = {x}
  BY FS_EmptySet DEF Ints
<1>2. SumFunctionOnSet(F, {} \cup {x}) = F[x] + SumFunctionOnSet(F, {})
  BY <1>1, SumOfMore
<1> QED BY <1>1, <1>2, SumOfNothing

\* Where there is nothing the sum does not look.
LEMMA SumOfSupport ==
    ASSUME NEW S, IsFiniteSet(S), NEW T \in SUBSET S, NEW F, Ints(F, T),
           \A x \in S \ T : F[x] = 0
    PROVE  SumFunctionOnSet(F, S) = SumFunctionOnSet(F, T)
<1> DEFINE Sum(U) == SumFunctionOnSet(F, U)
           G == {U \in SUBSET (S \ T) : Sum(U) = 0}
<1>1. {} \in G
  BY SumOfNothing
<1>2. IsFiniteSet(S \ T) /\ IsFiniteSet(T) /\ Ints(F, S)
  BY FS_Subset, FS_Difference DEF Ints
<1>3. ASSUME NEW U \in SUBSET (S \ T), U \in G, NEW x \in (S \ T) \ U, IsFiniteSet(U)
      PROVE  U \cup {x} \in G
  <2>1. Ints(F, U \cup {x}) /\ F[x] = 0 /\ x \notin U /\ U \cup {x} \in SUBSET (S \ T)
    BY DEF Ints
  <2>2. Sum(U \cup {x}) = F[x] + Sum(U)
    BY <1>3, <2>1, SumOfMore
  <2> QED BY <1>3, <2>1, <2>2
<1> HIDE DEF G
<1>4. S \ T \in G
  BY <1>1, <1>2, <1>3, AllSubsets
<1>5. Sum(S \ T) = 0
  BY <1>4 DEF G
<1>6. T \cup (S \ T) = S /\ T \cap (S \ T) = {}
  OBVIOUS
<1>7. Sum(T \cup (S \ T)) = Sum(T) + Sum(S \ T)
  BY <1>2, <1>6, SumOfBoth
<1>8. Sum(T) \in Int
  BY <1>2, SumIsInt
<1>9. Sum(S) = Sum(T) + 0
  BY <1>5, <1>6, <1>7
<1> QED BY <1>8, <1>9

\* M has a row for each member of A, and N is M turned.
Table(A, B, M, N) ==
    /\ \A a \in A : Ints(M[a], B)
    /\ \A a \in A, b \in B : N[b][a] = M[a][b]

\* A table can be summed by its rows or by its columns.
LEMMA SumExchange ==
    ASSUME NEW A, IsFiniteSet(A), NEW B, IsFiniteSet(B),
           NEW M, NEW N, Table(A, B, M, N),
           NEW K, \A a \in A : K[a] = SumFunctionOnSet(M[a], B),
           NEW L, \A b \in B : L[b] = SumFunctionOnSet(N[b], A)
    PROVE  SumFunctionOnSet(K, A) = SumFunctionOnSet(L, B)
<1> DEFINE Sum(F, S) == SumFunctionOnSet(F, S)
           Columns(E) == [b \in B |-> Sum(N[b], E)]
           G == {E \in SUBSET A : Sum(K, E) = Sum(Columns(E), B)}
<1>0. /\ \A a \in A : Ints(M[a], B)
      /\ \A a \in A, b \in B : N[b][a] = M[a][b]
  BY DEF Table
<1>1. {} \in G
  <2>1. \A b \in B \ {} : Columns({})[b] = 0
    BY SumOfNothing
  <2> HIDE DEF Columns
  <2>2. Sum(Columns({}), B) = Sum(Columns({}), {})
    BY <2>1, SumOfSupport DEF Ints
  <2> QED BY <2>2, SumOfNothing
<1>2. Ints(K, A)
  BY <1>0, SumIsInt DEF Ints
<1>3. \A E \in SUBSET A : IsFiniteSet(E) => Ints(Columns(E), B)
  <2> SUFFICES ASSUME NEW E \in SUBSET A, IsFiniteSet(E), NEW b \in B PROVE Sum(N[b], E) \in Int
    BY DEF Ints
  <2>1. Ints(N[b], E)
    BY <1>0 DEF Ints
  <2> QED BY <2>1, SumIsInt
<1>4. ASSUME NEW E \in SUBSET A, E \in G, NEW a \in A \ E, IsFiniteSet(E)
      PROVE  E \cup {a} \in G
  <2>1. E \cup {a} \in SUBSET A /\ IsFiniteSet(E \cup {a}) /\ Ints(K, E \cup {a}) /\ a \notin E
    BY <1>2, <1>4, FS_AddElement DEF Ints
  <2>2. \A b \in B : Columns(E \cup {a})[b] = M[a][b] + Columns(E)[b]
    <3> SUFFICES ASSUME NEW b \in B PROVE Sum(N[b], E \cup {a}) = M[a][b] + Sum(N[b], E)
      OBVIOUS
    <3>1. Ints(N[b], E \cup {a}) /\ N[b][a] = M[a][b]
      BY <1>0, <2>1 DEF Ints
    <3>2. SumFunctionOnSet(N[b], E \cup {a}) = N[b][a] + SumFunctionOnSet(N[b], E)
      <4> HIDE DEF Sum, Columns
      <4> QED BY <1>4, <2>1, <3>1, SumOfMore
    <3> QED BY <3>1, <3>2
  <2>3. Sum(K, E \cup {a}) = K[a] + Sum(K, E)
    BY <1>4, <2>1, SumOfMore
  <2>4. Sum(K, E) = Sum(Columns(E), B) /\ K[a] = Sum(M[a], B)
    BY <1>4
  <2>5. Ints(Columns(E), B)
    BY <1>3, <1>4
  <2> HIDE DEF Columns
  <2>6. Sum(Columns(E \cup {a}), B) = Sum(M[a], B) + Sum(Columns(E), B)
    <3> DEFINE before == Columns(E)
               after == Columns(E \cup {a})
               row == M[a]
    <3>1. Ints(row, B) /\ Ints(before, B) /\ \A b \in B : after[b] = row[b] + before[b]
      BY <1>0, <2>2, <2>5
    <3> HIDE DEF before, after, row
    <3>2. SumFunctionOnSet(after, B) = SumFunctionOnSet(row, B) + SumFunctionOnSet(before, B)
      BY <3>1, SumOfSums
    <3> QED BY <3>2 DEF before, after, row
  <2>7. Sum(K, E \cup {a}) = Sum(Columns(E \cup {a}), B)
    BY <2>3, <2>4, <2>6
  <2> QED BY <2>1, <2>7
<1> HIDE DEF G
<1>5. A \in G
  BY <1>1, <1>4, AllSubsets
<1>6. Sum(K, A) = Sum(Columns(A), B)
  BY <1>5 DEF G
<1>7. \A b \in B : L[b] = Columns(A)[b]
  OBVIOUS
<1>8. Ints(Columns(A), B)
  BY <1>3
<1> HIDE DEF Columns
<1>9. Sum(L, B) = Sum(Columns(A), B)
  BY <1>7, <1>8, SumOfSame
<1> QED BY <1>6, <1>9

=============================================================================
