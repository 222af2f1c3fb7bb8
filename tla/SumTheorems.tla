------------------------------ MODULE SumTheorems ------------------------------
(***************************************************************************)
(* What a sum over a finite set is: SumFunctionOnSet(f, S) of the modules  *)
(* Functions and Folds, which the modules of this project add money and    *)
(* goods up with.                                                          *)
(*                                                                         *)
(* SumFunctionOnSet is a function over the subsets of S that is chosen to  *)
(* satisfy its own recursion.  That one does is proved here (SumsExist),   *)
(* and so what it gives for a set with one member more or less; the other  *)
(* facts follow by SubsetInduction, in which the property is a set of      *)
(* subsets and not an operator.                                            *)
(***************************************************************************)
EXTENDS Integers, FiniteSets, Functions, WellFoundedInduction, FiniteSetTheorems, TLAPS

\* A set of numbers that is not empty has a least member.
LEMMA LeastOf ==
    ASSUME NEW T, T \subseteq Nat, T # {}
    PROVE  \E n \in T : \A m \in T : n <= m
<1>1. \E R : /\ IsWellFoundedOn(R, Nat)
             /\ \A x, y \in Nat : <<y, x>> \in R <=> y < x
  <2>1. IsWellFoundedOn(OpToRel(<, Nat), Nat)
    BY NatLessThanWellFounded
  <2>2. \A x, y \in Nat : <<y, x>> \in OpToRel(<, Nat) <=> y < x
    BY DEF OpToRel
  <2> QED
    BY <2>1, <2>2, Zenon
<1>2. PICK R : /\ IsWellFoundedOn(R, Nat)
               /\ \A x, y \in Nat : <<y, x>> \in R <=> y < x
  BY <1>1
<1>3. PICK x \in T : \A y \in T : ~ (<<y, x>> \in R)
  BY <1>2, WFMin
<1>4. \A y \in T : ~ (y < x)
  BY <1>2, <1>3
<1> QED
  BY <1>4

\* The recursion of a sum over the subsets of S.
Sums(f, S, g) ==
    g = [s \in SUBSET S |-> IF s = {} THEN 0
                            ELSE f[CHOOSE x \in s : TRUE] + g[s \ {CHOOSE x \in s : TRUE}]]

\* The subsets of S of at most n members.
Upto(S, n) == {s \in SUBSET S : Cardinality(s) <= n}

\* The recursion has a solution: one for the subsets of at most n members gives one
\* for those of n + 1.
LEMMA SumsExist ==
    ASSUME NEW f, NEW S, IsFiniteSet(S)
    PROVE  \E g : Sums(f, S, g)
<1> DEFINE pick(s) == CHOOSE x \in s : TRUE
           Solves(g, n) == g = [s \in Upto(S, n) |-> IF s = {} THEN 0 ELSE f[pick(s)] + g[s \ {pick(s)}]]
           bad == {n \in Nat : ~ \E g : Solves(g, n)}
<1>0. \A s \in SUBSET S : IsFiniteSet(s) /\ Cardinality(s) \in Nat /\ (Cardinality(s) = 0 <=> s = {})
  BY FS_Subset, FS_CardinalityType, FS_EmptySet
<1>1. \A s \in SUBSET S : s # {} => pick(s) \in s /\ s \ {pick(s)} \in SUBSET S
                                     /\ Cardinality(s \ {pick(s)}) = Cardinality(s) - 1
  <2> SUFFICES ASSUME NEW s \in SUBSET S, s # {}
               PROVE  pick(s) \in s /\ s \ {pick(s)} \in SUBSET S /\ Cardinality(s \ {pick(s)}) = Cardinality(s) - 1
    OBVIOUS
  <2>1. pick(s) \in s
    OBVIOUS
  <2>2. Cardinality(s \ {pick(s)}) = Cardinality(s) - 1
    BY <1>0, <2>1, FS_RemoveElement
  <2> QED
    BY <2>1, <2>2
<1>2. \E g : Solves(g, 0)
  <2> DEFINE g == [s \in Upto(S, 0) |-> 0]
  <2>1. \A s \in Upto(S, 0) : s = {}
    BY <1>0 DEF Upto
  <2>2. Solves(g, 0)
    BY <2>1
  <2> QED
    BY <2>2
<1>3. ASSUME NEW n \in Nat, NEW g, Solves(g, n)
      PROVE  \E h : Solves(h, n + 1)
  <2> HIDE DEF pick
  <2> DEFINE body(s) == IF s = {} THEN 0 ELSE f[pick(s)] + g[s \ {pick(s)}]
             h == [s \in Upto(S, n + 1) |-> body(s)]
  <2>1. \A s \in Upto(S, n) : g[s] = body(s)
    BY <1>3
  <2>2. \A s \in Upto(S, n) : s \in Upto(S, n + 1)
    BY <1>0 DEF Upto
  <2>3. \A s \in Upto(S, n) : h[s] = g[s]
    BY <2>1, <2>2
  <2>4. \A s \in Upto(S, n + 1) : s # {} => s \ {pick(s)} \in Upto(S, n)
    BY <1>0, <1>1 DEF Upto
  <2>5. \A s \in Upto(S, n + 1) : body(s) = IF s = {} THEN 0 ELSE f[pick(s)] + h[s \ {pick(s)}]
    BY <2>3, <2>4
  <2>6. Solves(h, n + 1)
    BY <2>5
  <2> QED
    BY <2>6
<1>4. bad = {}
  <2> HIDE DEF Solves
  <2> SUFFICES ASSUME bad # {} PROVE FALSE
    OBVIOUS
  <2>1. PICK n \in bad : \A m \in bad : n <= m
    BY LeastOf
  <2>2. n \in Nat /\ n # 0
    BY <1>2
  <2>3. n - 1 \in Nat /\ ~ (n - 1 \in bad)
    BY <2>1, <2>2
  <2>4. \E h : Solves(h, n - 1 + 1)
    BY <1>3, <2>3
  <2>5. n - 1 + 1 = n
    BY <2>2
  <2> QED
    BY <2>1, <2>4, <2>5
<1>5. Upto(S, Cardinality(S)) = SUBSET S
  BY <1>0, FS_Subset DEF Upto
<1>6. Cardinality(S) \in Nat
  BY FS_CardinalityType
<1>7. \E g : Solves(g, Cardinality(S))
  <2> HIDE DEF Solves
  <2> QED
    BY <1>4, <1>6
<1> QED
  BY <1>5, <1>7 DEF Sums

\* A sum is what a solution of the recursion gives for the whole set.
LEMMA Unfold ==
    ASSUME NEW f, NEW S, IsFiniteSet(S)
    PROVE  \E g : Sums(f, S, g) /\ SumFunctionOnSet(f, S) = g[S]
<1> DEFINE g == CHOOSE g : Sums(f, S, g)
<1>1. SumFunctionOnSet(f, S) = g[S]
  BY DEF SumFunctionOnSet, FoldFunctionOnSet, MapThenFoldSet, Sums
<1>2. Sums(f, S, g)
  BY SumsExist
<1> QED
  BY <1>1, <1>2

\* A set that lacks a property has a subset that lacks it while all those with one
\* member less have it.
LEMMA SmallestWithout ==
    ASSUME NEW S, IsFiniteSet(S), NEW P, S \notin P
    PROVE  \E s \in SUBSET S : s \notin P /\ IsFiniteSet(s) /\ \A x \in s : s \ {x} \in P
<1> DEFINE bad == {n \in Nat : \E s \in SUBSET S : Cardinality(s) = n /\ s \notin P}
<1>0. \A s \in SUBSET S : IsFiniteSet(s) /\ Cardinality(s) \in Nat
  BY FS_Subset, FS_CardinalityType
<1>1. Cardinality(S) \in bad
  BY <1>0
<1>2. PICK n \in bad : \A m \in bad : n <= m
  BY <1>1, LeastOf
<1>3. PICK s \in SUBSET S : Cardinality(s) = n /\ s \notin P
  BY <1>2
<1>4. ASSUME NEW x \in s
      PROVE  s \ {x} \in P
  <2>1. Cardinality(s \ {x}) = n - 1 /\ Cardinality(s \ {x}) \in Nat
    BY <1>0, <1>3, FS_RemoveElement
  <2>2. n - 1 < n /\ n - 1 \notin bad
    BY <1>2, <2>1
  <2>3. s \ {x} \in SUBSET S
    BY <1>3
  <2> QED
    BY <2>1, <2>2, <2>3
<1> QED
  BY <1>0, <1>3, <1>4

\* What holds of the empty set, and of a set when it holds of all those with one
\* member less, holds of every finite set.
LEMMA SubsetInduction ==
    ASSUME NEW S, IsFiniteSet(S), NEW P, {} \in P,
           \A t \in SUBSET S : t # {} /\ (\A x \in t : t \ {x} \in P) => t \in P
    PROVE  S \in P
<1> SUFFICES ASSUME S \notin P PROVE FALSE
  OBVIOUS
<1>1. PICK s \in SUBSET S : s \notin P /\ \A x \in s : s \ {x} \in P
  BY SmallestWithout
<1> QED
  BY <1>1

\* Nothing adds up to 0.
LEMMA SumOfNone == ASSUME NEW f PROVE SumFunctionOnSet(f, {}) = 0
<1>1. PICK g : Sums(f, {}, g) /\ SumFunctionOnSet(f, {}) = g[{}]
  BY Unfold, FS_EmptySet
<1> QED
  BY <1>1 DEF Sums

\* The sum over a set does not depend on the set it is taken within.
LEMMA SumsAgree ==
    ASSUME NEW f, NEW h, NEW S, NEW T, NEW g, NEW k, Sums(f, S, g), Sums(h, T, k),
           NEW s, s \in SUBSET S, s \in SUBSET T, IsFiniteSet(s), \A x \in s : f[x] = h[x]
    PROVE  g[s] = k[s]
<1> DEFINE P == {t \in SUBSET s : g[t] = k[t]}
<1>1. {} \in P
  BY DEF Sums
<1>2. ASSUME NEW t \in SUBSET s, \A x \in t : t \ {x} \in P, t # {}
      PROVE  t \in P
  <2>1. PICK x : x = (CHOOSE y \in t : TRUE) /\ x \in t
    BY <1>2
  <2>2. g[t] = f[x] + g[t \ {x}] /\ k[t] = h[x] + k[t \ {x}]
    BY <1>2, <2>1, SMTT(30) DEF Sums
  <2>3. f[x] = h[x] /\ g[t \ {x}] = k[t \ {x}]
    BY <1>2, <2>1
  <2> QED
    BY <2>2, <2>3
<1>3. s \in P
  <2> HIDE DEF P
  <2> QED
    BY <1>1, <1>2, SubsetInduction
<1> QED
  BY <1>3

\* Equal figures have equal sums.
LEMMA SumSame ==
    ASSUME NEW S, IsFiniteSet(S), NEW f, NEW h, \A x \in S : f[x] = h[x]
    PROVE  SumFunctionOnSet(f, S) = SumFunctionOnSet(h, S)
<1>1. PICK g : Sums(f, S, g) /\ SumFunctionOnSet(f, S) = g[S]
  BY Unfold
<1>2. PICK k : Sums(h, S, k) /\ SumFunctionOnSet(h, S) = k[S]
  BY Unfold
<1> QED
  BY <1>1, <1>2, SumsAgree

\* A sum takes out the member that CHOOSE picks.
LEMMA SumPicks ==
    ASSUME NEW S, IsFiniteSet(S), S # {}, NEW f
    PROVE  /\ (CHOOSE x \in S : TRUE) \in S
           /\ SumFunctionOnSet(f, S) = f[CHOOSE x \in S : TRUE]
                                         + SumFunctionOnSet(f, S \ {CHOOSE x \in S : TRUE})
<1>1. PICK g : Sums(f, S, g) /\ SumFunctionOnSet(f, S) = g[S]
  BY Unfold
<1>2. PICK x : x = (CHOOSE y \in S : TRUE) /\ x \in S
  OBVIOUS
<1>3. IsFiniteSet(S \ {x})
  BY FS_RemoveElement
<1>4. PICK k : Sums(f, S \ {x}, k) /\ SumFunctionOnSet(f, S \ {x}) = k[S \ {x}]
  BY <1>3, Unfold
<1>5. g[S \ {x}] = k[S \ {x}]
  BY <1>1, <1>3, <1>4, SumsAgree
<1>6. g[S] = f[x] + g[S \ {x}]
  BY <1>1, <1>2 DEF Sums
<1> QED
  BY <1>1, <1>2, <1>4, <1>5, <1>6

\* Figures that are integers add up to an integer.
LEMMA SumIsInt ==
    ASSUME NEW S, IsFiniteSet(S), NEW f, \A x \in S : f[x] \in Int
    PROVE  SumFunctionOnSet(f, S) \in Int
<1> DEFINE P == {t \in SUBSET S : SumFunctionOnSet(f, t) \in Int}
<1>1. {} \in P
  BY SumOfNone
<1>2. ASSUME NEW t \in SUBSET S, t # {}, \A x \in t : t \ {x} \in P
      PROVE  t \in P
  <2>1. PICK x \in t : SumFunctionOnSet(f, t) = f[x] + SumFunctionOnSet(f, t \ {x})
    BY <1>2, SumPicks, FS_Subset
  <2>2. SumFunctionOnSet(f, t \ {x}) \in Int /\ f[x] \in Int
    BY <1>2
  <2> QED
    BY <2>1, <2>2
<1>3. S \in P
  <2> HIDE DEF P
  <2> QED
    BY <1>1, <1>2, SubsetInduction
<1> QED
  BY <1>3

\* Figures that are not negative add up to one that is not.
LEMMA SumIsNat ==
    ASSUME NEW S, IsFiniteSet(S), NEW f, \A x \in S : f[x] \in Nat
    PROVE  SumFunctionOnSet(f, S) \in Nat
<1> DEFINE P == {t \in SUBSET S : SumFunctionOnSet(f, t) \in Nat}
<1>1. {} \in P
  BY SumOfNone
<1>2. ASSUME NEW t \in SUBSET S, t # {}, \A x \in t : t \ {x} \in P
      PROVE  t \in P
  <2>1. PICK x \in t : SumFunctionOnSet(f, t) = f[x] + SumFunctionOnSet(f, t \ {x})
    BY <1>2, SumPicks, FS_Subset
  <2>2. SumFunctionOnSet(f, t \ {x}) \in Nat /\ f[x] \in Nat
    BY <1>2
  <2> QED
    BY <2>1, <2>2
<1>3. S \in P
  <2> HIDE DEF P
  <2> QED
    BY <1>1, <1>2, SubsetInduction
<1> QED
  BY <1>3

\* Any member may be taken out first.
LEMMA SumWithout ==
    ASSUME NEW S, IsFiniteSet(S), NEW f, \A x \in S : f[x] \in Int
    PROVE  \A x \in S : SumFunctionOnSet(f, S) = f[x] + SumFunctionOnSet(f, S \ {x})
<1> DEFINE P == {t \in SUBSET S : \A y \in t : SumFunctionOnSet(f, t) = f[y] + SumFunctionOnSet(f, t \ {y})}
<1>1. ASSUME NEW t \in SUBSET S, t # {}, \A x \in t : t \ {x} \in P
      PROVE  t \in P
  <2>1. PICK z \in t : SumFunctionOnSet(f, t) = f[z] + SumFunctionOnSet(f, t \ {z})
    <3>1. IsFiniteSet(t)
      BY FS_Subset
    <3>2. /\ (CHOOSE x \in t : TRUE) \in t
          /\ SumFunctionOnSet(f, t) = f[CHOOSE x \in t : TRUE] + SumFunctionOnSet(f, t \ {CHOOSE x \in t : TRUE})
      BY <1>1, <3>1, SumPicks
    <3> QED
      BY <3>2
  <2> SUFFICES ASSUME NEW y \in t, y # z
               PROVE  SumFunctionOnSet(f, t) = f[y] + SumFunctionOnSet(f, t \ {y})
    BY <2>1
  <2>2. SumFunctionOnSet(f, t \ {z}) = f[y] + SumFunctionOnSet(f, (t \ {z}) \ {y})
    BY <1>1
  <2>3. SumFunctionOnSet(f, t \ {y}) = f[z] + SumFunctionOnSet(f, (t \ {y}) \ {z})
    BY <1>1
  <2>4. PICK rest \in SUBSET t : rest = (t \ {z}) \ {y} /\ rest = (t \ {y}) \ {z}
    OBVIOUS
  <2>5. SumFunctionOnSet(f, rest) \in Int
    BY SumIsInt, FS_Subset
  <2>6. f[y] \in Int /\ f[z] \in Int
    OBVIOUS
  <2>7. \A a, b, c \in Int : a + (b + c) = b + (a + c)
    OBVIOUS
  <2>8. /\ SumFunctionOnSet(f, t) = f[z] + (f[y] + SumFunctionOnSet(f, rest))
        /\ SumFunctionOnSet(f, t \ {y}) = f[z] + SumFunctionOnSet(f, rest)
    BY <2>1, <2>2, <2>3, <2>4, Zenon
  <2>9. f[z] + (f[y] + SumFunctionOnSet(f, rest)) = f[y] + (f[z] + SumFunctionOnSet(f, rest))
    BY <2>5, <2>6, <2>7
  <2> QED
    BY <2>8, <2>9, Zenon
<1>2. {} \in P
  OBVIOUS
<1>3. S \in P
  <2> HIDE DEF P
  <2> QED
    BY <1>1, <1>2, SubsetInduction
<1> QED
  BY <1>3

\* One more member adds its own figure.
LEMMA SumWith ==
    ASSUME NEW S, IsFiniteSet(S), NEW x, x \notin S, NEW f, f[x] \in Int, \A y \in S : f[y] \in Int
    PROVE  SumFunctionOnSet(f, S \cup {x}) = SumFunctionOnSet(f, S) + f[x]
<1>1. PICK more : more = S \cup {x} /\ IsFiniteSet(more) /\ more \ {x} = S
  <2>1. IsFiniteSet(S \cup {x})
    BY FS_AddElement
  <2>2. (S \cup {x}) \ {x} = S
    OBVIOUS
  <2> QED
    BY <2>1, <2>2, Zenon
<1>2. SumFunctionOnSet(f, more) = f[x] + SumFunctionOnSet(f, more \ {x})
  BY <1>1, SumWithout
<1>3. SumFunctionOnSet(f, S) \in Int
  BY SumIsInt
<1>4. \A a, b \in Int : a + b = b + a
  OBVIOUS
<1>5. SumFunctionOnSet(f, more) = SumFunctionOnSet(f, S) + f[x]
  BY <1>1, <1>2, <1>3, <1>4, Zenon
<1> QED
  BY <1>1, <1>5, Zenon

\* Where one figure changes, the sum changes by as much.
LEMMA SumMoves ==
    ASSUME NEW S, IsFiniteSet(S), NEW f, NEW g, NEW x \in S,
           \A y \in S : f[y] \in Int /\ g[y] \in Int, \A y \in S : y # x => g[y] = f[y]
    PROVE  SumFunctionOnSet(g, S) = SumFunctionOnSet(f, S) + g[x] - f[x]
<1>1. IsFiniteSet(S \ {x})
  BY FS_RemoveElement
<1>2. SumFunctionOnSet(f, S \ {x}) = SumFunctionOnSet(g, S \ {x})
  BY <1>1, SumSame
<1>3. /\ SumFunctionOnSet(f, S) = f[x] + SumFunctionOnSet(f, S \ {x})
      /\ SumFunctionOnSet(g, S) = g[x] + SumFunctionOnSet(g, S \ {x})
  BY SumWithout
<1>4. SumFunctionOnSet(f, S \ {x}) \in Int
  BY <1>1, SumIsInt
<1> QED
  BY <1>2, <1>3, <1>4

\* A sum of non-negative figures is at least each of them.
LEMMA SumCovers ==
    ASSUME NEW S, IsFiniteSet(S), NEW f, \A y \in S : f[y] \in Nat, NEW x \in S
    PROVE  f[x] <= SumFunctionOnSet(f, S)
<1>1. SumFunctionOnSet(f, S \ {x}) \in Nat
  BY FS_RemoveElement, SumIsNat
<1>2. SumFunctionOnSet(f, S) = f[x] + SumFunctionOnSet(f, S \ {x})
  BY SumWithout
<1> QED
  BY <1>1, <1>2

\* Figures that are no greater add up to no more.
LEMMA SumBelow ==
    ASSUME NEW S, IsFiniteSet(S), NEW f, NEW g, \A y \in S : f[y] \in Int /\ g[y] \in Int /\ f[y] <= g[y]
    PROVE  SumFunctionOnSet(f, S) <= SumFunctionOnSet(g, S)
<1> DEFINE P == {t \in SUBSET S : SumFunctionOnSet(f, t) <= SumFunctionOnSet(g, t)}
<1>1. {} \in P
  BY SumOfNone
<1>2. ASSUME NEW t \in SUBSET S, t # {}, \A x \in t : t \ {x} \in P
      PROVE  t \in P
  <2>1. PICK x : x \in t
    BY <1>2
  <2>2. IsFiniteSet(t) /\ IsFiniteSet(t \ {x})
    BY FS_Subset
  <2>3. /\ SumFunctionOnSet(f, t) = f[x] + SumFunctionOnSet(f, t \ {x})
        /\ SumFunctionOnSet(g, t) = g[x] + SumFunctionOnSet(g, t \ {x})
    BY <2>1, <2>2, SumWithout
  <2>4. SumFunctionOnSet(f, t \ {x}) \in Int /\ SumFunctionOnSet(g, t \ {x}) \in Int
    BY <2>2, SumIsInt
  <2>5. SumFunctionOnSet(f, t \ {x}) <= SumFunctionOnSet(g, t \ {x})
    BY <1>2, <2>1
  <2>6. f[x] \in Int /\ g[x] \in Int /\ f[x] <= g[x]
    BY <2>1
  <2> QED
    BY <2>3, <2>4, <2>5, <2>6
<1>3. S \in P
  <2> HIDE DEF P
  <2> QED
    BY <1>1, <1>2, SubsetInduction
<1> QED
  BY <1>3

\* A sum taken in two parts.
LEMMA SumOfParts ==
    ASSUME NEW S, IsFiniteSet(S), NEW T, T \subseteq S, NEW f, \A y \in S : f[y] \in Int
    PROVE  SumFunctionOnSet(f, S) = SumFunctionOnSet(f, T) + SumFunctionOnSet(f, S \ T)
<1> DEFINE U == S \ T
           P == {t \in SUBSET U : SumFunctionOnSet(f, T \cup t) = SumFunctionOnSet(f, T) + SumFunctionOnSet(f, t)}
<1>0. IsFiniteSet(T) /\ IsFiniteSet(U)
  BY FS_Subset
<1>1. {} \in P
  <2>1. SumFunctionOnSet(f, T) \in Int
    BY <1>0, SumIsInt
  <2>2. T \cup {} = T
    OBVIOUS
  <2> QED
    BY <2>1, <2>2, SumOfNone
<1>2. ASSUME NEW t \in SUBSET U, t # {}, \A x \in t : t \ {x} \in P
      PROVE  t \in P
  <2>1. PICK x : x \in t
    BY <1>2
  <2>2. IsFiniteSet(t) /\ IsFiniteSet(T \cup t) /\ IsFiniteSet(t \ {x})
    BY FS_Subset
  <2>3. PICK less : less = t \ {x} /\ (T \cup t) \ {x} = T \cup less
    <3>1. (T \cup t) \ {x} = T \cup (t \ {x})
      BY <2>1
    <3> QED
      BY <3>1
  <2>4. /\ SumFunctionOnSet(f, T \cup t) = f[x] + SumFunctionOnSet(f, T \cup less)
        /\ SumFunctionOnSet(f, t) = f[x] + SumFunctionOnSet(f, less)
    BY <2>1, <2>2, <2>3, SumWithout
  <2>5. SumFunctionOnSet(f, T \cup less) = SumFunctionOnSet(f, T) + SumFunctionOnSet(f, less)
    BY <1>2, <2>1, <2>3
  <2>6. SumFunctionOnSet(f, T) \in Int /\ SumFunctionOnSet(f, less) \in Int /\ f[x] \in Int
    BY <1>0, <2>1, <2>2, <2>3, SumIsInt
  <2>7. SumFunctionOnSet(f, T \cup t) = SumFunctionOnSet(f, T) + SumFunctionOnSet(f, t)
    BY <2>4, <2>5, <2>6
  <2> QED
    BY <2>7
<1>3. U \in P
  <2> HIDE DEF P, U
  <2> QED
    BY <1>0, <1>1, <1>2, SubsetInduction
<1>4. T \cup U = S
  OBVIOUS
<1> QED
  BY <1>3, <1>4

\* Two sums taken together.
LEMMA SumOfSums ==
    ASSUME NEW S, IsFiniteSet(S), NEW f, NEW g, NEW h,
           \A y \in S : f[y] \in Int /\ g[y] \in Int /\ h[y] = f[y] + g[y]
    PROVE  SumFunctionOnSet(h, S) = SumFunctionOnSet(f, S) + SumFunctionOnSet(g, S)
<1> DEFINE P == {t \in SUBSET S : SumFunctionOnSet(h, t) = SumFunctionOnSet(f, t) + SumFunctionOnSet(g, t)}
<1>1. {} \in P
  BY SumOfNone
<1>2. ASSUME NEW t \in SUBSET S, t # {}, \A x \in t : t \ {x} \in P
      PROVE  t \in P
  <2>1. PICK x : x \in t
    BY <1>2
  <2>2. IsFiniteSet(t) /\ IsFiniteSet(t \ {x})
    BY FS_Subset
  <2>3. /\ SumFunctionOnSet(f, t) = f[x] + SumFunctionOnSet(f, t \ {x})
        /\ SumFunctionOnSet(g, t) = g[x] + SumFunctionOnSet(g, t \ {x})
        /\ SumFunctionOnSet(h, t) = h[x] + SumFunctionOnSet(h, t \ {x})
    BY <2>1, <2>2, SumWithout
  <2>4. SumFunctionOnSet(f, t \ {x}) \in Int /\ SumFunctionOnSet(g, t \ {x}) \in Int
    BY <2>2, SumIsInt
  <2>5. SumFunctionOnSet(h, t \ {x}) = SumFunctionOnSet(f, t \ {x}) + SumFunctionOnSet(g, t \ {x})
    BY <1>2, <2>1
  <2>6. f[x] \in Int /\ g[x] \in Int /\ h[x] = f[x] + g[x]
    BY <2>1
  <2> QED
    BY <2>3, <2>4, <2>5, <2>6
<1>3. S \in P
  <2> HIDE DEF P
  <2> QED
    BY <1>1, <1>2, SubsetInduction
<1> QED
  BY <1>3

\* Figures that are all 0 add up to 0.
LEMMA SumOfZeros ==
    ASSUME NEW S, IsFiniteSet(S), NEW f, \A y \in S : f[y] = 0
    PROVE  SumFunctionOnSet(f, S) = 0
<1> DEFINE P == {t \in SUBSET S : SumFunctionOnSet(f, t) = 0}
<1>1. {} \in P
  BY SumOfNone
<1>2. ASSUME NEW t \in SUBSET S, t # {}, \A x \in t : t \ {x} \in P
      PROVE  t \in P
  <2>1. PICK x \in t : SumFunctionOnSet(f, t) = f[x] + SumFunctionOnSet(f, t \ {x})
    BY <1>2, SumPicks, FS_Subset
  <2> QED
    BY <1>2, <2>1
<1>3. S \in P
  <2> HIDE DEF P
  <2> QED
    BY <1>1, <1>2, SubsetInduction
<1> QED
  BY <1>3

\* A sum over some members is one over all, in which the others count for nothing.
LEMMA SumWhere ==
    ASSUME NEW S, IsFiniteSet(S), NEW T, T \subseteq S, NEW f, NEW g,
           \A y \in S : f[y] \in Int, \A y \in S : g[y] = IF y \in T THEN f[y] ELSE 0
    PROVE  SumFunctionOnSet(f, T) = SumFunctionOnSet(g, S)
<1>1. IsFiniteSet(T) /\ IsFiniteSet(S \ T)
  BY FS_Subset
<1>2. \A y \in S : g[y] \in Int
  OBVIOUS
<1>3. SumFunctionOnSet(g, S) = SumFunctionOnSet(g, T) + SumFunctionOnSet(g, S \ T)
  BY <1>2, SumOfParts
<1>4. SumFunctionOnSet(g, S \ T) = 0
  BY <1>1, SumOfZeros
<1>5. SumFunctionOnSet(f, T) = SumFunctionOnSet(g, T)
  BY <1>1, SumSame
<1>6. SumFunctionOnSet(g, T) \in Int
  BY <1>1, <1>2, SumIsInt
<1> QED
  BY <1>3, <1>4, <1>5, <1>6

\* Figures that are each at most n add up to at most n times as many.
LEMMA SumIsBounded ==
    ASSUME NEW S, IsFiniteSet(S), NEW f, NEW n \in Nat, \A y \in S : f[y] \in Int /\ f[y] <= n
    PROVE  SumFunctionOnSet(f, S) <= n * Cardinality(S)
<1> DEFINE P == {t \in SUBSET S : SumFunctionOnSet(f, t) <= n * Cardinality(t)}
<1>1. {} \in P
  BY SumOfNone, FS_EmptySet
<1>2. ASSUME NEW t \in SUBSET S, t # {}, \A x \in t : t \ {x} \in P
      PROVE  t \in P
  <2>1. PICK x : x \in t
    BY <1>2
  <2>2. IsFiniteSet(t) /\ IsFiniteSet(t \ {x})
    BY FS_Subset
  <2>3. SumFunctionOnSet(f, t) = f[x] + SumFunctionOnSet(f, t \ {x})
    BY <2>1, <2>2, SumWithout
  <2>4. SumFunctionOnSet(f, t \ {x}) \in Int /\ f[x] \in Int /\ f[x] <= n
    BY <2>1, <2>2, SumIsInt
  <2>5. SumFunctionOnSet(f, t \ {x}) <= n * Cardinality(t \ {x})
    BY <1>2, <2>1
  <2>6. PICK m \in Nat : m = Cardinality(t \ {x}) /\ Cardinality(t) = m + 1
    BY <2>1, <2>2, FS_RemoveElement, FS_CardinalityType
  <2>7. n * (m + 1) = n * m + n /\ n * m \in Nat
    OBVIOUS
  <2> QED
    BY <2>3, <2>4, <2>5, <2>6, <2>7
<1>3. S \in P
  <2> HIDE DEF P
  <2> QED
    BY <1>1, <1>2, SubsetInduction
<1> QED
  BY <1>3

\* A sum of multiples is the multiple of the sum.
LEMMA SumTimes ==
    ASSUME NEW S, IsFiniteSet(S), NEW f, NEW g, NEW n \in Int,
           \A y \in S : f[y] \in Int /\ g[y] = f[y] * n
    PROVE  SumFunctionOnSet(g, S) = SumFunctionOnSet(f, S) * n
<1> DEFINE P == {t \in SUBSET S : SumFunctionOnSet(g, t) = SumFunctionOnSet(f, t) * n}
<1>1. {} \in P
  BY SumOfNone
<1>2. ASSUME NEW t \in SUBSET S, t # {}, \A x \in t : t \ {x} \in P
      PROVE  t \in P
  <2>1. PICK x : x \in t
    BY <1>2
  <2>2. IsFiniteSet(t) /\ IsFiniteSet(t \ {x})
    BY FS_Subset
  <2>3. \A y \in t : f[y] \in Int /\ g[y] \in Int
    OBVIOUS
  <2>4. /\ SumFunctionOnSet(f, t) = f[x] + SumFunctionOnSet(f, t \ {x})
        /\ SumFunctionOnSet(g, t) = g[x] + SumFunctionOnSet(g, t \ {x})
    BY <2>1, <2>2, <2>3, SumWithout
  <2>5. PICK m \in Int : m = SumFunctionOnSet(f, t \ {x})
    BY <2>2, SumIsInt
  <2>6. SumFunctionOnSet(g, t \ {x}) = m * n
    BY <1>2, <2>1, <2>5
  <2>7. PICK k \in Int : k = f[x] /\ g[x] = k * n
    BY <2>1
  <2>8. (k + m) * n = k * n + m * n
    OBVIOUS
  <2> QED
    BY <2>4, <2>5, <2>6, <2>7, <2>8
<1>3. S \in P
  <2> HIDE DEF P
  <2> QED
    BY <1>1, <1>2, SubsetInduction
<1> QED
  BY <1>3

\* Every member's share, taken as a quotient and what it leaves.
InQuotients(S, f, n, d, q, r) ==
    /\ f \in [S -> Int] /\ q \in [S -> Int] /\ r \in [S -> Int] /\ n \in Int /\ d \in Int
    /\ \A y \in S : f[y] * n = d * q[y] + r[y]

\* The shares of all members add up.
LEMMA SumOfQuotients ==
    ASSUME NEW S, IsFiniteSet(S), NEW f, NEW n, NEW d, NEW q, NEW r, InQuotients(S, f, n, d, q, r)
    PROVE  SumFunctionOnSet(f, S) * n = d * SumFunctionOnSet(q, S) + SumFunctionOnSet(r, S)
<1> USE DEF InQuotients
<1>1. PICK given : given = [y \in S |-> f[y] * n]
  OBVIOUS
<1>2. PICK kept : kept = [y \in S |-> q[y] * d]
  OBVIOUS
<1>3. \A y \in S : f[y] \in Int /\ given[y] = f[y] * n
  BY <1>1
<1>4. \A y \in S : q[y] \in Int /\ kept[y] = q[y] * d
  BY <1>2
<1>5. SumFunctionOnSet(given, S) = SumFunctionOnSet(f, S) * n
  BY <1>3, SumTimes
<1>6. SumFunctionOnSet(kept, S) = SumFunctionOnSet(q, S) * d
  BY <1>4, SumTimes
<1>7. \A y \in S : kept[y] \in Int /\ r[y] \in Int /\ given[y] = kept[y] + r[y]
  <2>1. SUFFICES ASSUME NEW y \in S PROVE kept[y] \in Int /\ given[y] = kept[y] + r[y]
    OBVIOUS
  <2>2. q[y] * d = d * q[y] /\ q[y] * d \in Int
    OBVIOUS
  <2> QED
    BY <1>3, <1>4, <2>2
<1>8. SumFunctionOnSet(given, S) = SumFunctionOnSet(kept, S) + SumFunctionOnSet(r, S)
  BY <1>7, SumOfSums
<1>9. SumFunctionOnSet(q, S) \in Int
  BY SumIsInt
<1> QED
  BY <1>5, <1>6, <1>8, <1>9

\* Ones add up to as many as there are.
LEMMA SumOfOnes ==
    ASSUME NEW S, IsFiniteSet(S), NEW f, \A y \in S : f[y] = 1
    PROVE  SumFunctionOnSet(f, S) = Cardinality(S)
<1> DEFINE P == {t \in SUBSET S : SumFunctionOnSet(f, t) = Cardinality(t)}
<1>1. {} \in P
  BY SumOfNone, FS_EmptySet
<1>2. ASSUME NEW t \in SUBSET S, t # {}, \A x \in t : t \ {x} \in P
      PROVE  t \in P
  <2>1. PICK x : x \in t
    BY <1>2
  <2>2. IsFiniteSet(t) /\ IsFiniteSet(t \ {x})
    BY FS_Subset
  <2>3. SumFunctionOnSet(f, t) = f[x] + SumFunctionOnSet(f, t \ {x})
    BY <2>1, <2>2, SumWithout
  <2>4. f[x] = 1 /\ SumFunctionOnSet(f, t \ {x}) = Cardinality(t \ {x})
    BY <1>2, <2>1
  <2>5. Cardinality(t \ {x}) \in Nat /\ Cardinality(t) = Cardinality(t \ {x}) + 1
    BY <2>1, <2>2, FS_RemoveElement, FS_CardinalityType
  <2> QED
    BY <2>3, <2>4, <2>5
<1>3. S \in P
  <2> HIDE DEF P
  <2> QED
    BY <1>1, <1>2, SubsetInduction
<1> QED
  BY <1>3

\* So does a count that is taken over more.
LEMMA SumCounts ==
    ASSUME NEW S, IsFiniteSet(S), NEW T, T \subseteq S, NEW g, \A y \in S : g[y] = IF y \in T THEN 1 ELSE 0
    PROVE  SumFunctionOnSet(g, S) = Cardinality(T)
<1> DEFINE f == [y \in S |-> 1]
<1>1. IsFiniteSet(T)
  BY FS_Subset
<1>2. SumFunctionOnSet(f, T) = Cardinality(T)
  BY <1>1, SumOfOnes
<1>3. SumFunctionOnSet(f, T) = SumFunctionOnSet(g, S)
  <2>1. \A y \in S : f[y] = 1
    OBVIOUS
  <2> HIDE DEF f
  <2> QED
    BY <2>1, SumWhere
<1> QED
  BY <1>2, <1>3

-----------------------------------------------------------------------------
(* Ranks.                                                                  *)

\* R puts the members of S in order, each before or after each other.
InOrder(R, S) ==
    /\ \A x \in S : <<x, x>> \notin R
    /\ \A x, y, z \in S : <<x, y>> \in R /\ <<y, z>> \in R => <<x, z>> \in R
    /\ \A x, y \in S : x # y => <<x, y>> \in R \/ <<y, x>> \in R

\* A finite set that is ordered and not empty has a last member.
LEMMA LastOf ==
    ASSUME NEW S, IsFiniteSet(S), NEW R, InOrder(R, S), S # {}
    PROVE  \E x \in S : \A y \in S : y # x => <<y, x>> \in R
<1> DEFINE Ends(t, x) == \A y \in t : y # x => <<y, x>> \in R
           P == {t \in SUBSET S : t # {} => \E x \in t : Ends(t, x)}
<1>1. {} \in P
  OBVIOUS
<1>2. ASSUME NEW t \in SUBSET S, t # {}, \A x \in t : t \ {x} \in P
      PROVE  t \in P
  <2>1. PICK x : x \in t
    BY <1>2
  <2>2. CASE t \ {x} = {}
    BY <2>1, <2>2
  <2>3. CASE t \ {x} # {}
    <3>1. PICK y \in t \ {x} : Ends(t \ {x}, y)
      BY <1>2, <2>1, <2>3
    <3>2. CASE <<x, y>> \in R
      BY <3>1, <3>2
    <3>3. CASE <<y, x>> \in R
      BY <2>1, <3>1, <3>3 DEF InOrder
    <3> QED
      BY <2>1, <3>1, <3>2, <3>3 DEF InOrder
  <2> QED
    BY <2>2, <2>3
<1>3. S \in P
  <2> HIDE DEF P
  <2> QED
    BY <1>1, <1>2, SubsetInduction
<1> QED
  BY <1>3

\* What comes before x among the members of S.
Preceding(R, S, x) == {y \in S : <<y, x>> \in R}

\* In an ordered set, as many members have fewer than n before them as n says.
LEMMA Ranks ==
    ASSUME NEW S, IsFiniteSet(S), NEW R, InOrder(R, S)
    PROVE  \A n \in 0..Cardinality(S) : Cardinality({x \in S : Cardinality(Preceding(R, S, x)) < n}) = n
<1> DEFINE First(t, n) == {x \in t : Cardinality(Preceding(R, t, x)) < n}
           P == {t \in SUBSET S : \A n \in 0..Cardinality(t) : Cardinality(First(t, n)) = n}
<1>1. {} \in P
  <2>1. \A n : First({}, n) = {}
    OBVIOUS
  <2> QED
    BY <2>1, FS_EmptySet
<1>2. ASSUME NEW t \in SUBSET S, t # {}, \A x \in t : t \ {x} \in P
      PROVE  t \in P
  <2>1. IsFiniteSet(t) /\ InOrder(R, t)
    BY FS_Subset DEF InOrder
  <2>2. PICK x \in t : \A y \in t : y # x => <<y, x>> \in R
    BY <1>2, <2>1, LastOf
  <2> DEFINE u == t \ {x}
  <2>3. PICK c \in Nat : c = Cardinality(u) /\ Cardinality(t) = c + 1 /\ IsFiniteSet(u)
    <3>1. IsFiniteSet(u) /\ Cardinality(u) = Cardinality(t) - 1
      BY <2>1, <2>2, FS_RemoveElement
    <3>2. Cardinality(u) \in Nat /\ Cardinality(t) \in Nat
      BY <2>1, <3>1, FS_CardinalityType
    <3> QED
      BY <3>1, <3>2
  <2>4. \A y \in u : Preceding(R, t, y) = Preceding(R, u, y)
    BY <2>1, <2>2 DEF InOrder, Preceding
  <2>5. Preceding(R, t, x) = u
    BY <2>1, <2>2 DEF InOrder, Preceding
  <2>6. SUFFICES ASSUME NEW n \in 0..(c + 1) PROVE Cardinality(First(t, n)) = n
    BY <2>3
  <2>7. CASE n <= c
    <3>1. First(t, n) = First(u, n)
      <4>1. ~ (Cardinality(Preceding(R, t, x)) < n)
        BY <2>3, <2>5, <2>7
      <4>2. \A y \in u : y \in First(t, n) <=> y \in First(u, n)
        BY <2>4
      <4> QED
        BY <4>1, <4>2
    <3>2. Cardinality(First(u, n)) = n
      <4>1. \A m \in 0..Cardinality(u) : Cardinality(First(u, m)) = m
        BY <1>2, <2>2
      <4>2. n \in 0..Cardinality(u)
        BY <2>3, <2>7
      <4> QED
        BY <4>1, <4>2
    <3> QED
      BY <3>1, <3>2
  <2>8. CASE n = c + 1
    <3>1. \A y \in t : Cardinality(Preceding(R, t, y)) \in Nat /\ Cardinality(Preceding(R, t, y)) < c + 1
      <4>1. SUFFICES ASSUME NEW y \in t
                     PROVE  Cardinality(Preceding(R, t, y)) \in Nat /\ Cardinality(Preceding(R, t, y)) < c + 1
        OBVIOUS
      <4>2. Preceding(R, t, y) \subseteq t \ {y}
        BY <2>1 DEF InOrder, Preceding
      <4>3. IsFiniteSet(t \ {y}) /\ Cardinality(t \ {y}) = c
        BY <2>1, <2>3, FS_RemoveElement
      <4> QED
        BY <4>2, <4>3, FS_Subset, FS_CardinalityType
    <3>2. First(t, n) = t
      BY <2>8, <3>1
    <3> QED
      BY <2>3, <2>8, <3>2
  <2> QED
    BY <2>3, <2>7, <2>8
<1>3. S \in P
  <2> HIDE DEF P
  <2> QED
    BY <1>1, <1>2, SubsetInduction
<1> QED
  BY <1>3

=============================================================================
