------------------------------ MODULE Counting ------------------------------
(***************************************************************************)
(* Facts about finite sets that several proofs need: a set of numbers has a *)
(* least and a greatest member, and what FoldFunction makes of a function   *)
(* into the naturals is its sum, in whatever order it is taken.             *)
(*                                                                         *)
(* An induction over the subsets of a finite set is an argument about the   *)
(* smallest one that is an exception (Smallest).                            *)
(***************************************************************************)
EXTENDS Integers, Sequences, FiniteSets, Functions,
        FiniteSetTheorems, NaturalsInduction, WellFoundedInduction, TLAPS

\* A nonempty set of row numbers has a greatest one: of the rows that share a key
\* there is a last.
LEMMA GreatestOf ==
    ASSUME NEW n \in Nat, NEW S, S \subseteq 1..n, S # {}
    PROVE  \E i \in S : \A j \in S : j <= i
  <1> DEFINE fromEnd == {n - i : i \in S}
             less == OpToRel(<, Nat)
  <1>1. fromEnd \subseteq Nat
    OBVIOUS
  <1>2. fromEnd # {}
    OBVIOUS
  <1>3. PICK x \in fromEnd : \A y \in fromEnd : <<y, x>> \notin less
    <2> HIDE DEF fromEnd, less
    <2>1. IsWellFoundedOn(less, Nat)
      BY NatLessThanWellFounded DEF less
    <2> QED  BY <1>1, <1>2, <2>1, WFMin
  <1>4. \A y \in fromEnd : ~ (y < x)
    BY <1>1, <1>3 DEF OpToRel
  <1>5. PICK i \in S : x = n - i
    OBVIOUS
  <1>6. ASSUME NEW j \in S
        PROVE  j <= i
    <2>1. n - j \in fromEnd
      OBVIOUS
    <2>2. i \in 1..n /\ j \in 1..n
      OBVIOUS
    <2> HIDE DEF fromEnd, less
    <2> QED  BY <1>4, <1>5, <2>1, <2>2
  <1> QED  BY <1>6

\* Of the subsets of a finite set that make an exception, one has no smaller
\* exception inside it.
LEMMA Smallest ==
    ASSUME NEW D, IsFiniteSet(D), NEW Bad, Bad \subseteq SUBSET D, Bad # {}
    PROVE  \E s \in Bad : \A t \in SUBSET s : t # s => t \notin Bad
<1>1. FiniteSubsetsOf(D) = SUBSET D
  BY FS_FiniteSubsetsOfFinite
<1>2. IsWellFoundedOn(StrictSubsetOrdering(D), SUBSET D)
  BY <1>1, FS_StrictSubsetOrderingWellFounded
<1>3. PICK s \in Bad : \A t \in Bad : <<t, s>> \notin StrictSubsetOrdering(D)
  BY <1>2, WFMin
<1>4. \A t \in Bad : ~(t \subseteq s /\ t # s)
  BY <1>3 DEF StrictSubsetOrdering
<1> QED BY <1>4

-----------------------------------------------------------------------------
(* Sums.                                                                    *)

One(s) == CHOOSE x \in s : TRUE

\* g holds the sum of f over every subset of S.
IsSum(f, S, g) ==
    g = [s \in SUBSET S |-> IF s = {} THEN 0 ELSE f[One(s)] + g[s \ {One(s)}]]

SumOver(f, S) == (CHOOSE g : IsSum(f, S, g))[S]

LEMMA FoldIsSum == \A f : FoldFunction(+, 0, f) = SumOver(f, DOMAIN f)
  BY Zenon DEF FoldFunction, FoldFunctionOnSet, MapThenFoldSet, SumOver, IsSum, One

LEMMA FoldOfAdditionIsSum ==
    \A f : FoldFunction(LAMBDA n, m : n + m, 0, f) = SumOver(f, DOMAIN f)
  BY Zenon DEF FoldFunction, FoldFunctionOnSet, MapThenFoldSet, SumOver, IsSum, One

LEMMA OneIsIn == \A s : s # {} => One(s) \in s
  BY DEF One

LEMMA SumIsUnique ==
    ASSUME NEW f, NEW S, IsFiniteSet(S), NEW g, IsSum(f, S, g), NEW h, IsSum(f, S, h)
    PROVE  g = h
<1> DEFINE Bad == {s \in SUBSET S : g[s] # h[s]}
<1>1. SUFFICES ASSUME Bad # {} PROVE FALSE
  BY DEF IsSum
<1>2. PICK s \in Bad : \A t \in SUBSET s : t # s => t \notin Bad
  <2> HIDE DEF Bad
  <2>1. Bad \subseteq SUBSET S
    BY DEF Bad
  <2> QED BY <1>1, <2>1, Smallest
<1>3. s # {}
  BY DEF IsSum
<1>4. One(s) \in s
  BY <1>3, OneIsIn
<1>5. g[s \ {One(s)}] = h[s \ {One(s)}]
  BY <1>2, <1>4
<1>6. g[s] = f[One(s)] + g[s \ {One(s)}] /\ h[s] = f[One(s)] + h[s \ {One(s)}]
  BY <1>3 DEF IsSum
<1> QED BY <1>5, <1>6

\* The sums over the subsets of a part are those over the subsets of the whole.
LEMMA SumOfAPart ==
    ASSUME NEW f, NEW S, IsFiniteSet(S), NEW g, IsSum(f, S, g), NEW T \in SUBSET S
    PROVE  g[T] = SumOver(f, T)
<1> DEFINE part == [t \in SUBSET T |-> g[t]]
<1>1. IsSum(f, T, part)
  <2>1. ASSUME NEW t \in SUBSET T
        PROVE  g[t] = IF t = {} THEN 0 ELSE f[One(t)] + part[t \ {One(t)}]
    <3>1. t \in SUBSET S /\ t \ {One(t)} \in SUBSET T
      OBVIOUS
    <3>2. g[t] = IF t = {} THEN 0 ELSE f[One(t)] + g[t \ {One(t)}]
      BY <3>1 DEF IsSum
    <3> QED BY <3>1, <3>2
  <2> QED BY <2>1 DEF IsSum
<1>2. IsFiniteSet(T)
  BY FS_Subset
<1>3. IsSum(f, T, CHOOSE h : IsSum(f, T, h))
  <2> HIDE DEF part
  <2> QED BY Zenon, <1>1
<1>4. part = CHOOSE h : IsSum(f, T, h)
  <2> HIDE DEF part
  <2> QED BY Zenon, <1>1, <1>2, <1>3, SumIsUnique
<1> QED BY <1>4 DEF SumOver

LEMMA SumExists ==
    ASSUME NEW f, NEW D, IsFiniteSet(D)
    PROVE  \A S \in SUBSET D : \E g : IsSum(f, S, g)
<1> DEFINE Bad == {S \in SUBSET D : ~\E g : IsSum(f, S, g)}
<1>1. SUFFICES ASSUME Bad # {} PROVE FALSE
  OBVIOUS
<1>2. PICK S \in Bad : \A t \in SUBSET S : t # S => t \notin Bad
  <2> HIDE DEF Bad
  <2>1. Bad \subseteq SUBSET D
    BY DEF Bad
  <2> QED BY <1>1, <2>1, Smallest
<1>3. \A t \in SUBSET S : t # S => \E g : IsSum(f, t, g)
  BY <1>2
<1> DEFINE g == [t \in SUBSET S |-> IF t = {} THEN 0 ELSE f[One(t)] + SumOver(f, t \ {One(t)})]
<1>4. ASSUME NEW t \in SUBSET S, t # {}
      PROVE  g[t \ {One(t)}] = SumOver(f, t \ {One(t)})
  <2> DEFINE u == t \ {One(t)}
  <2>1. u \in SUBSET S /\ u # S
    BY <1>4, OneIsIn
  <2>2. PICK h : IsSum(f, u, h)
    BY <1>3, <2>1
  <2>3. IsFiniteSet(u)
    BY <2>1, FS_Subset
  <2>4. h[u] = SumOver(f, u) /\ h[u \ {One(u)}] = SumOver(f, u \ {One(u)})
    <3> HIDE DEF u, g
    <3>1. u \in SUBSET u /\ u \ {One(u)} \in SUBSET u
      OBVIOUS
    <3>2. \A T \in SUBSET u : h[T] = SumOver(f, T)
      BY <2>2, <2>3, SumOfAPart
    <3> QED BY Zenon, <3>1, <3>2
  <2>5. h[u] = IF u = {} THEN 0 ELSE f[One(u)] + h[u \ {One(u)}]
    <3> HIDE DEF u
    <3> QED BY <2>2 DEF IsSum
  <2>6. g[u] = IF u = {} THEN 0 ELSE f[One(u)] + SumOver(f, u \ {One(u)})
    <3> HIDE DEF u
    <3> QED BY <2>1
  <2> HIDE DEF u, g
  <2>7. g[u] = SumOver(f, u)
    BY <2>4, <2>5, <2>6
  <2> QED BY <2>7 DEF u
<1>5. IsSum(f, S, g)
  <2>1. ASSUME NEW t \in SUBSET S
        PROVE  g[t] = IF t = {} THEN 0 ELSE f[One(t)] + g[t \ {One(t)}]
    BY <1>4
  <2>2. g = [t \in SUBSET S |-> g[t]]
    OBVIOUS
  <2> HIDE DEF g
  <2> QED BY <2>1, <2>2 DEF IsSum
<1> HIDE DEF g
<1> QED BY <1>5

\* A sum is that of one element and of the others.
LEMMA SumStep ==
    ASSUME NEW f, NEW S, IsFiniteSet(S)
    PROVE  SumOver(f, S) = IF S = {} THEN 0 ELSE f[One(S)] + SumOver(f, S \ {One(S)})
<1>1. PICK g : IsSum(f, S, g)
  BY SumExists
<1>2. g[S] = IF S = {} THEN 0 ELSE f[One(S)] + g[S \ {One(S)}]
  BY <1>1 DEF IsSum
<1>3. \A T \in SUBSET S : g[T] = SumOver(f, T)
  BY <1>1, SumOfAPart
<1>4. S \in SUBSET S /\ S \ {One(S)} \in SUBSET S
  OBVIOUS
<1> QED BY <1>2, <1>3, <1>4

LEMMA SumIsNatural ==
    ASSUME NEW D, IsFiniteSet(D), NEW f, \A x \in D : f[x] \in Nat
    PROVE  \A S \in SUBSET D : SumOver(f, S) \in Nat
<1> DEFINE Bad == {S \in SUBSET D : SumOver(f, S) \notin Nat}
<1>1. SUFFICES ASSUME Bad # {} PROVE FALSE
  OBVIOUS
<1>2. PICK S \in Bad : \A t \in SUBSET S : t # S => t \notin Bad
  <2> HIDE DEF Bad
  <2>1. Bad \subseteq SUBSET D
    BY DEF Bad
  <2> QED BY <1>1, <2>1, Smallest
<1>3. IsFiniteSet(S)
  BY FS_Subset
<1>4. SumOver(f, S) = IF S = {} THEN 0 ELSE f[One(S)] + SumOver(f, S \ {One(S)})
  BY <1>3, SumStep
<1>5. S # {} => f[One(S)] \in Nat /\ SumOver(f, S \ {One(S)}) \in Nat
  BY <1>2, OneIsIn
<1> QED BY <1>4, <1>5

\* The sum of the sums is the sum of what is added place by place.
LEMMA SumAdds ==
    ASSUME NEW D, IsFiniteSet(D), NEW f, NEW g, NEW h,
           \A x \in D : f[x] \in Nat /\ g[x] \in Nat /\ h[x] = f[x] + g[x]
    PROVE  \A S \in SUBSET D : SumOver(h, S) = SumOver(f, S) + SumOver(g, S)
<1> DEFINE Bad == {S \in SUBSET D : SumOver(h, S) # SumOver(f, S) + SumOver(g, S)}
<1>1. SUFFICES ASSUME Bad # {} PROVE FALSE
  OBVIOUS
<1>2. PICK S \in Bad : \A t \in SUBSET S : t # S => t \notin Bad
  <2> HIDE DEF Bad
  <2>1. Bad \subseteq SUBSET D
    BY DEF Bad
  <2> QED BY <1>1, <2>1, Smallest
<1>3. IsFiniteSet(S)
  BY FS_Subset
<1>4. /\ SumOver(f, S) = IF S = {} THEN 0 ELSE f[One(S)] + SumOver(f, S \ {One(S)})
      /\ SumOver(g, S) = IF S = {} THEN 0 ELSE g[One(S)] + SumOver(g, S \ {One(S)})
      /\ SumOver(h, S) = IF S = {} THEN 0 ELSE h[One(S)] + SumOver(h, S \ {One(S)})
  BY <1>3, SumStep
<1>5. CASE S # {}
  <2>1. One(S) \in D /\ S \ {One(S)} \in SUBSET D /\ S \ {One(S)} # S
    BY <1>5, OneIsIn
  <2>2. SumOver(h, S \ {One(S)}) = SumOver(f, S \ {One(S)}) + SumOver(g, S \ {One(S)})
    BY <1>2, <2>1
  <2>3. SumOver(f, S \ {One(S)}) \in Nat /\ SumOver(g, S \ {One(S)}) \in Nat
    BY <2>1, SumIsNatural
  <2>4. f[One(S)] \in Nat /\ g[One(S)] \in Nat /\ h[One(S)] = f[One(S)] + g[One(S)]
    BY <2>1
  <2>5. SumOver(h, S) = SumOver(f, S) + SumOver(g, S)
    <3> HIDE DEF Bad
    <3> QED BY <1>4, <1>5, <2>2, <2>3, <2>4
  <2> QED BY <2>5
<1>6. CASE S = {}
  BY <1>4, <1>6
<1> QED BY <1>5, <1>6

\* Any element may be taken out first.
LEMMA SumWithout ==
    ASSUME NEW D, IsFiniteSet(D), NEW f, \A x \in D : f[x] \in Nat
    PROVE  \A S \in SUBSET D : \A x \in S : SumOver(f, S) = f[x] + SumOver(f, S \ {x})
<1> DEFINE Bad == {S \in SUBSET D : ~\A x \in S : SumOver(f, S) = f[x] + SumOver(f, S \ {x})}
<1>1. SUFFICES ASSUME Bad # {} PROVE FALSE
  OBVIOUS
<1>2. PICK S \in Bad : \A t \in SUBSET S : t # S => t \notin Bad
  <2> HIDE DEF Bad
  <2>1. Bad \subseteq SUBSET D
    BY DEF Bad
  <2> QED BY <1>1, <2>1, Smallest
<1>3. PICK x \in S : SumOver(f, S) # f[x] + SumOver(f, S \ {x})
  OBVIOUS
<1> DEFINE o == One(S)
<1>4. o \in S /\ SumOver(f, S) = f[o] + SumOver(f, S \ {o})
  BY <1>3, FS_Subset, OneIsIn, SumStep
<1> HIDE DEF o
<1>5. o # x
  BY <1>3, <1>4
<1>6. \A t \in SUBSET S : t # S => \A y \in t : SumOver(f, t) = f[y] + SumOver(f, t \ {y})
  BY <1>2
<1>7. SumOver(f, S \ {o}) = f[x] + SumOver(f, (S \ {o}) \ {x})
  BY <1>4, <1>5, <1>6
<1>8. SumOver(f, S \ {x}) = f[o] + SumOver(f, (S \ {x}) \ {o})
  BY <1>4, <1>5, <1>6
<1>9. (S \ {o}) \ {x} = (S \ {x}) \ {o}
  OBVIOUS
<1>10. f[x] \in Nat /\ f[o] \in Nat /\ SumOver(f, (S \ {x}) \ {o}) \in Nat
  BY <1>4, SumIsNatural
<1> HIDE DEF Bad
<1>11. \A a, b, c \in Nat : a + (b + c) = b + (a + c)
  OBVIOUS
<1>12. SumOver(f, S) = f[o] + (f[x] + SumOver(f, (S \ {x}) \ {o}))
  BY Zenon, <1>4, <1>7, <1>9
<1>13. f[x] + SumOver(f, S \ {x}) = f[x] + (f[o] + SumOver(f, (S \ {x}) \ {o}))
  BY Zenon, <1>8
<1> QED BY Zenon, <1>3, <1>10, <1>11, <1>12, <1>13

\* Sums of what agrees agree.
LEMMA SumOfTheSame ==
    ASSUME NEW D, IsFiniteSet(D), NEW f, NEW g, \A x \in D : f[x] = g[x]
    PROVE  \A S \in SUBSET D : SumOver(f, S) = SumOver(g, S)
<1> DEFINE Bad == {S \in SUBSET D : SumOver(f, S) # SumOver(g, S)}
<1>1. SUFFICES ASSUME Bad # {} PROVE FALSE
  OBVIOUS
<1>2. PICK S \in Bad : \A t \in SUBSET S : t # S => t \notin Bad
  <2> HIDE DEF Bad
  <2>1. Bad \subseteq SUBSET D
    BY DEF Bad
  <2> QED BY <1>1, <2>1, Smallest
<1>3. /\ SumOver(f, S) = IF S = {} THEN 0 ELSE f[One(S)] + SumOver(f, S \ {One(S)})
      /\ SumOver(g, S) = IF S = {} THEN 0 ELSE g[One(S)] + SumOver(g, S \ {One(S)})
  BY FS_Subset, SumStep
<1>4. S # {} => f[One(S)] = g[One(S)] /\ SumOver(f, S \ {One(S)}) = SumOver(g, S \ {One(S)})
  BY <1>2, OneIsIn
<1> QED BY <1>3, <1>4

-----------------------------------------------------------------------------
(* Cardinalities.                                                           *)

LEMMA DisjointCardinality ==
    ASSUME NEW A, NEW B, IsFiniteSet(A), IsFiniteSet(B), A \cap B = {}
    PROVE  IsFiniteSet(A \cup B) /\ Cardinality(A \cup B) = Cardinality(A) + Cardinality(B)
<1>1. Cardinality(A \cap B) = 0
  BY FS_EmptySet
<1>2. Cardinality(A) \in Nat /\ Cardinality(B) \in Nat
  BY FS_CardinalityType
<1>3. /\ IsFiniteSet(A \cup B)
      /\ Cardinality(A \cup B) = Cardinality(A) + Cardinality(B) - Cardinality(A \cap B)
  BY FS_Union
<1>4. \A a, b \in Nat : a + b - 0 = a + b
  OBVIOUS
<1> QED BY Zenon, <1>1, <1>2, <1>3, <1>4

\* The members of R are those of each class together.
LEMMA SumOfTheClasses ==
    ASSUME NEW R, IsFiniteSet(R), NEW D, IsFiniteSet(D), NEW class, NEW sizes,
           \A x \in D : sizes[x] = Cardinality({i \in R : class[i] = x})
    PROVE  \A S \in SUBSET D : Cardinality({i \in R : class[i] \in S}) = SumOver(sizes, S)
<1> DEFINE In(S) == {i \in R : class[i] \in S}
           Bad == {S \in SUBSET D : Cardinality(In(S)) # SumOver(sizes, S)}
<1>1. SUFFICES ASSUME Bad # {} PROVE FALSE
  OBVIOUS
<1>2. PICK S \in Bad : \A t \in SUBSET S : t # S => t \notin Bad
  <2> HIDE DEF Bad
  <2>1. Bad \subseteq SUBSET D
    BY DEF Bad
  <2> QED BY <1>1, <2>1, Smallest
<1>3. SumOver(sizes, S) = IF S = {} THEN 0 ELSE sizes[One(S)] + SumOver(sizes, S \ {One(S)})
  BY FS_Subset, SumStep
<1>4. CASE S = {}
  <2>1. In(S) = {}
    BY <1>4
  <2>2. Cardinality(In(S)) = 0
    BY <2>1, FS_EmptySet
  <2> QED BY <1>3, <1>4, <2>2
<1>5. CASE S # {}
  <2> DEFINE o == One(S)
             first == {i \in R : class[i] = o}
  <2>1. o \in S
    BY <1>5, OneIsIn
  <2> HIDE DEF o
  <2>2. In(S) = first \cup In(S \ {o}) /\ first \cap In(S \ {o}) = {}
    BY <2>1
  <2>3. IsFiniteSet(first) /\ IsFiniteSet(In(S \ {o}))
    BY FS_Subset
  <2>4. Cardinality(In(S)) = Cardinality(first) + Cardinality(In(S \ {o}))
    <3> HIDE DEF In, first
    <3> QED BY <2>2, <2>3, DisjointCardinality
  <2>5. Cardinality(In(S \ {o})) = SumOver(sizes, S \ {o})
    BY <1>2, <2>1
  <2>6. sizes[o] = Cardinality(first)
    BY <2>1
  <2>7. SumOver(sizes, S) = sizes[o] + SumOver(sizes, S \ {o})
    BY <1>3, <1>5 DEF o
  <2>8. Cardinality(In(S)) # SumOver(sizes, S)
    OBVIOUS
  <2> HIDE DEF In, Bad, first
  <2> QED BY <2>4, <2>5, <2>6, <2>7, <2>8
<1> QED BY <1>4, <1>5

\* The sum over two sets that have nothing in common.
LEMMA SumOfBoth ==
    ASSUME NEW D, IsFiniteSet(D), NEW f, \A x \in D : f[x] \in Nat, NEW B \in SUBSET D
    PROVE  \A A \in SUBSET D :
               A \cap B = {} => SumOver(f, A \cup B) = SumOver(f, A) + SumOver(f, B)
<1> DEFINE Bad == {A \in SUBSET D : /\ A \cap B = {}
                                    /\ SumOver(f, A \cup B) # SumOver(f, A) + SumOver(f, B)}
<1>1. SUFFICES ASSUME Bad # {} PROVE FALSE
  OBVIOUS
<1>2. PICK A \in Bad : \A t \in SUBSET A : t # A => t \notin Bad
  <2>1. Bad \subseteq SUBSET D
    OBVIOUS
  <2> HIDE DEF Bad
  <2> QED BY <1>1, <2>1, Smallest
<1>3. A \in SUBSET D /\ A \cap B = {} /\ SumOver(f, A \cup B) # SumOver(f, A) + SumOver(f, B)
  BY <1>2
<1>4. /\ \A t \in SUBSET D : SumOver(f, t) \in Nat
      /\ \A t \in SUBSET D : \A x \in t : SumOver(f, t) = f[x] + SumOver(f, t \ {x})
  BY SumIsNatural, SumWithout
<1>5. CASE A = {}
  <2>1. SumOver(f, A) = 0
    BY <1>5, FS_EmptySet, SumStep
  <2>2. A \cup B = B /\ SumOver(f, B) \in Nat
    BY <1>4, <1>5
  <2>3. SumOver(f, A \cup B) = 0 + SumOver(f, B)
    BY <2>2
  <2> HIDE DEF Bad
  <2> QED BY Zenon, <1>3, <2>1, <2>3
<1>6. CASE A # {}
  <2>1. PICK x \in A : TRUE
    BY <1>6
  <2>2. A \ {x} \notin Bad
    BY <1>2, <2>1
  <2>3. SumOver(f, (A \ {x}) \cup B) = SumOver(f, A \ {x}) + SumOver(f, B)
    BY <1>3, <2>2
  <2>4. (A \cup B) \ {x} = (A \ {x}) \cup B /\ x \in A \cup B /\ A \cup B \in SUBSET D
    BY <1>3, <2>1
  <2>5. /\ SumOver(f, A) = f[x] + SumOver(f, A \ {x})
        /\ SumOver(f, A \cup B) = f[x] + SumOver(f, (A \ {x}) \cup B)
    BY <1>3, <1>4, <2>1, <2>4
  <2>6. f[x] \in Nat /\ SumOver(f, A \ {x}) \in Nat /\ SumOver(f, B) \in Nat
    BY <1>3, <1>4, <2>1
  <2> HIDE DEF Bad
  <2>7. \A a, b, c \in Nat : a + (b + c) = (a + b) + c
    OBVIOUS
  <2>8. f[x] + (SumOver(f, A \ {x}) + SumOver(f, B))
            = (f[x] + SumOver(f, A \ {x})) + SumOver(f, B)
    BY Zenon, <2>6, <2>7
  <2> QED BY Zenon, <1>3, <2>3, <2>5, <2>8
<1> QED BY <1>5, <1>6

\* Of natural numbers, fewer have no greater sum.
LEMMA SumOfFewer ==
    ASSUME NEW D, IsFiniteSet(D), NEW f, \A x \in D : f[x] \in Nat,
           NEW A \in SUBSET D, NEW B \in SUBSET D, A \subseteq B
    PROVE  SumOver(f, A) <= SumOver(f, B)
<1>1. (B \ A) \cap A = {} /\ (B \ A) \cup A = B /\ B \ A \in SUBSET D
  OBVIOUS
<1>2. \A C \in SUBSET D : C \cap A = {} => SumOver(f, C \cup A) = SumOver(f, C) + SumOver(f, A)
  BY SumOfBoth
<1>3. SumOver(f, B) = SumOver(f, B \ A) + SumOver(f, A)
  BY <1>1, <1>2
<1>4. SumOver(f, A) \in Nat /\ SumOver(f, B \ A) \in Nat
  <2>1. \A S \in SUBSET D : SumOver(f, S) \in Nat
    BY SumIsNatural
  <2> QED BY <1>1, <2>1
<1> QED BY <1>3, <1>4

LEMMA SumOfNothing ==
    ASSUME NEW D, IsFiniteSet(D), NEW f, \A x \in D : f[x] = 0
    PROVE  \A S \in SUBSET D : SumOver(f, S) = 0
<1> DEFINE Bad == {S \in SUBSET D : SumOver(f, S) # 0}
<1>1. SUFFICES ASSUME Bad # {} PROVE FALSE
  OBVIOUS
<1>2. PICK S \in Bad : \A t \in SUBSET S : t # S => t \notin Bad
  <2>1. Bad \subseteq SUBSET D
    OBVIOUS
  <2> HIDE DEF Bad
  <2> QED BY <1>1, <2>1, Smallest
<1>3. IsFiniteSet(S)
  BY FS_Subset
<1>4. SumOver(f, S) = IF S = {} THEN 0 ELSE f[One(S)] + SumOver(f, S \ {One(S)})
  BY <1>3, SumStep
<1>5. S # {} => f[One(S)] = 0 /\ SumOver(f, S \ {One(S)}) = 0
  BY <1>2, OneIsIn
<1> QED BY <1>4, <1>5

\* A sum over places in a list does not depend on where the list begins.
LEMMA SumShifted ==
    ASSUME NEW m \in Nat, NEW n \in Nat, NEW f, NEW g, \A i \in 1..m + n : f[i] \in Nat,
           \A i \in 1..n : g[i] = f[m + i]
    PROVE  SumOver(g, 1..n) = SumOver(f, (m + 1)..(m + n))
<1> DEFINE moved(S) == {m + i : i \in S}
           Bad == {S \in SUBSET (1..n) : SumOver(g, S) # SumOver(f, moved(S))}
<1>1. Bad = {}
  <2>1. SUFFICES ASSUME Bad # {} PROVE FALSE
    OBVIOUS
  <2>2. IsFiniteSet(1..n) /\ IsFiniteSet(1..m + n)
    BY FS_Interval
  <2>3. PICK S \in Bad : \A t \in SUBSET S : t # S => t \notin Bad
    <3>1. Bad \subseteq SUBSET (1..n)
      OBVIOUS
    <3> HIDE DEF Bad
    <3> QED BY <2>1, <2>2, <3>1, Smallest
  <2>4. S \in SUBSET (1..n) /\ SumOver(g, S) # SumOver(f, moved(S))
    BY <2>3
  <2>5. \A T \in SUBSET (1..n) : moved(T) \in SUBSET (1..m + n)
    OBVIOUS
  <2>6. /\ \A T \in SUBSET (1..n) : \A x \in T : SumOver(g, T) = g[x] + SumOver(g, T \ {x})
        /\ \A T \in SUBSET (1..m + n) : \A x \in T : SumOver(f, T) = f[x] + SumOver(f, T \ {x})
    <3>1. \A i \in 1..n : g[i] \in Nat
      OBVIOUS
    <3>2. \A i \in 1..m + n : f[i] \in Nat
      OBVIOUS
    <3> DEFINE C == 1..n
               D == 1..m + n
    <3>3. IsFiniteSet(C) /\ IsFiniteSet(D)
      BY <2>2
    <3>4. (\A i \in C : g[i] \in Nat) /\ (\A i \in D : f[i] \in Nat)
      BY <3>1, <3>2
    <3> HIDE DEF C, D, Bad, moved
    <3>5. /\ \A T \in SUBSET C : SumOver(g, T) \in Nat
          /\ \A T \in SUBSET C : \A x \in T : SumOver(g, T) = g[x] + SumOver(g, T \ {x})
      BY <3>3, <3>4, SumIsNatural, SumWithout
    <3>6. /\ \A T \in SUBSET D : SumOver(f, T) \in Nat
          /\ \A T \in SUBSET D : \A x \in T : SumOver(f, T) = f[x] + SumOver(f, T \ {x})
      BY <3>3, <3>4, SumIsNatural, SumWithout
    <3> QED BY <3>5, <3>6 DEF C, D
  <2>7. CASE S = {}
    <3>1. SumOver(g, S) = 0 /\ moved(S) = {} /\ SumOver(f, {}) = 0
      BY <2>7, FS_EmptySet, SumStep
    <3> QED BY <2>4, <3>1
  <2>8. CASE S # {}
    <3>1. PICK x \in S : TRUE
      BY <2>8
    <3>2. S \ {x} \notin Bad /\ S \ {x} \in SUBSET (1..n)
      BY <2>3, <2>4, <3>1
    <3>3. SumOver(g, S \ {x}) = SumOver(f, moved(S \ {x}))
      BY <3>2
    <3>4. m + x \in moved(S) /\ moved(S) \ {m + x} = moved(S \ {x})
      <4>1. \A i \in S : m + i = m + x => i = x
        BY <2>4
      <4> QED BY <3>1, <4>1
    <3>5. SumOver(g, S) = g[x] + SumOver(g, S \ {x})
      BY <2>4, <2>6, <3>1
    <3>6. SumOver(f, moved(S)) = f[m + x] + SumOver(f, moved(S) \ {m + x})
      BY <2>4, <2>5, <2>6, <3>4
    <3>7. g[x] = f[m + x]
      BY <2>4, <3>1
    <3> HIDE DEF moved, Bad
    <3> QED BY <2>4, <3>3, <3>4, <3>5, <3>6, <3>7
  <2> QED BY <2>7, <2>8
<1>2. 1..n \notin Bad
  BY <1>1
<1>3. moved(1..n) = (m + 1)..(m + n)
  <2>1. ASSUME NEW j \in (m + 1)..(m + n) PROVE j \in moved(1..n)
    <3>1. j - m \in 1..n /\ j = m + (j - m)
      OBVIOUS
    <3> QED BY <3>1
  <2> QED BY <2>1
<1> QED BY <1>2, <1>3

\* Numbers listed: those of g, then those of h.
Joins(f, g, m, h, n) ==
    /\ \A i \in 1..m + n : f[i] \in Nat
    /\ \A i \in 1..m : g[i] = f[i]
    /\ \A i \in 1..n : h[i] = f[m + i]

\* The sum along two lists, one after the other.
LEMMA SumAlong ==
    ASSUME NEW m \in Nat, NEW n \in Nat, NEW f, NEW g, NEW h, Joins(f, g, m, h, n)
    PROVE  /\ SumOver(g, 1..m) \in Nat /\ SumOver(h, 1..n) \in Nat
           /\ SumOver(f, 1..m + n) = SumOver(g, 1..m) + SumOver(h, 1..n)
<1> DEFINE A == 1..m
           B == (m + 1)..(m + n)
           D == 1..m + n
<1>1. IsFiniteSet(D) /\ IsFiniteSet(A)
  BY FS_Interval
<1>2. A \cap B = {} /\ A \cup B = D /\ A \in SUBSET D /\ B \in SUBSET D
  OBVIOUS
<1>3. SumOver(g, A) = SumOver(f, A)
  <2>1. \A S \in SUBSET A : SumOver(g, S) = SumOver(f, S)
    <3>1. \A i \in A : g[i] = f[i]
      BY DEF Joins
    <3> HIDE DEF A
    <3> QED BY <1>1, <3>1, SumOfTheSame
  <2> QED BY <2>1
<1>4. SumOver(h, 1..n) = SumOver(f, B)
  <2>1. (\A i \in 1..m + n : f[i] \in Nat) /\ \A i \in 1..n : h[i] = f[m + i]
    BY DEF Joins
  <2> QED BY <2>1, SumShifted
<1>5. \A i \in D : f[i] \in Nat
  BY DEF Joins
<1> HIDE DEF A, B, D
<1>6. \A S \in SUBSET D : S \cap B = {} => SumOver(f, S \cup B) = SumOver(f, S) + SumOver(f, B)
  BY <1>1, <1>2, <1>5, SumOfBoth
<1>7. SumOver(f, D) = SumOver(f, A) + SumOver(f, B)
  BY <1>2, <1>6
<1>8. SumOver(f, A) \in Nat /\ SumOver(f, B) \in Nat
  <2>1. \A S \in SUBSET D : SumOver(f, S) \in Nat
    BY <1>1, <1>5, SumIsNatural
  <2> QED BY <1>2, <2>1
<1> QED BY <1>3, <1>4, <1>7, <1>8 DEF A, B, D
=============================================================================
