---------------------------- MODULE FiniteLemmas ----------------------------
(***************************************************************************)
(* What the proofs about the modules use of finite sets: that a family of  *)
(* subsets has a smallest one, that numbers have a least and a greatest    *)
(* one, and what the sum of a function over a finite set is.               *)
(***************************************************************************)
EXTENDS Integers, Functions, FiniteSetTheorems, TLAPS

\* A family of subsets of a finite set has a smallest one.
LEMMA SmallestSet ==
  ASSUME NEW S, IsFiniteSet(S), NEW F, F \subseteq SUBSET S, F # {}
  PROVE  \E T \in F : \A U \in SUBSET T : U # T => U \notin F
<1>1. IsWellFoundedOn(StrictSubsetOrdering(S), SUBSET S)
  BY FS_StrictSubsetOrderingWellFounded, FS_FiniteSubsetsOfFinite
<1>2. PICK T \in F : \A U \in F : <<U, T>> \notin StrictSubsetOrdering(S)
  BY <1>1, WFMin
<1>3. ASSUME NEW U \in SUBSET T, U # T PROVE U \notin F
  BY <1>2, <1>3 DEF StrictSubsetOrdering
<1> QED
  BY <1>3

\* A finite set of numbers has a greatest element.
LEMMA GreatestNumber ==
  ASSUME NEW T, T \subseteq Int, IsFiniteSet(T), T # {}
  PROVE  \E x \in T : \A y \in T : y <= x
<1> DEFINE Above(x) == {y \in T : x < y}
           F == {Above(x) : x \in T}
<1>1. F # {} /\ F \subseteq SUBSET T
  OBVIOUS
<1>2. PICK A \in F : \A U \in SUBSET A : U # A => U \notin F
  <2> HIDE DEF F
  <2> QED
    BY <1>1, SmallestSet
<1>3. PICK x \in T : A = Above(x)
  OBVIOUS
<1>4. ASSUME NEW y \in T, x < y PROVE FALSE
  <2>1. x \in Int /\ y \in Int
    OBVIOUS
  <2>2. \A z \in T : y < z => x < z
    BY <1>4, <2>1
  <2>3. y \in Above(x) /\ y \notin Above(y) /\ Above(y) \in F
    BY <1>4, <2>1
  <2>4. Above(y) \in SUBSET Above(x)
    BY <2>2
  <2> HIDE DEF Above, F
  <2> QED
    BY <1>2, <1>3, <2>3, <2>4
<1>5. \A y \in T : x \in Int /\ y \in Int /\ ~(x < y)
  BY <1>4
<1> QED
  BY <1>5

\* A finite set of numbers has a least element.
LEMMA LeastNumber ==
  ASSUME NEW T, T \subseteq Int, IsFiniteSet(T), T # {}
  PROVE  \E x \in T : \A y \in T : x <= y
<1> DEFINE N == {0 - x : x \in T}
<1>1. N \subseteq Int /\ N # {}
  <2>1. \A x \in T : x \in Int
    OBVIOUS
  <2>2. \A x \in T : 0 - x \in Int
    BY <2>1
  <2>3. PICK x \in T : TRUE
    OBVIOUS
  <2>4. 0 - x \in N
    BY <2>3
  <2> QED
    BY <2>2, <2>4
<1>2. IsFiniteSet(N)
  <2> DEFINE f == [x \in T |-> 0 - x]
  <2>1. f \in Surjection(T, N)
    BY DEF Surjection
  <2> QED
    BY <2>1, FS_Surjection
<1>3. PICK z \in N : \A y \in N : y <= z
  BY <1>1, <1>2, GreatestNumber
<1>4. PICK x \in T : z = 0 - x
  OBVIOUS
<1>5. ASSUME NEW y \in T PROVE x <= y
  <2>1. 0 - y \in N
    OBVIOUS
  <2>2. 0 - y <= 0 - x /\ x \in Int /\ y \in Int
    BY <1>3, <1>4, <2>1
  <2> QED
    BY <2>2
<1> QED
  BY <1>5

-----------------------------------------------------------------------------
(* Sums.  The library's operator recurses over subsets, taking away some    *)
(* element each time: such a recursion is well defined, and the sum does    *)
(* not depend on which element is taken.                                    *)

\* The element that a sum over S takes first.
First(S) == CHOOSE x \in S : TRUE

\* it holds the sums of f over the subsets of S.
Sums(f, S, it) ==
  it = [s \in SUBSET S |-> IF s = {} THEN 0 ELSE f[First(s)] + it[s \ {First(s)}]]

TheSums(f, S) == CHOOSE it : Sums(f, S, it)

\* It is one of them.
LEMMA FirstIn == \A S : S # {} => First(S) \in S
BY DEF First

\* Recursions over different sets agree on the subsets of both.
LEMMA SumsAgree ==
  ASSUME NEW f, NEW A, NEW B, NEW g, NEW h, Sums(f, A, g), Sums(f, B, h), IsFiniteSet(A)
  PROVE  \A s \in (SUBSET A) \cap (SUBSET B) : g[s] = h[s]
<1> DEFINE F == {s \in (SUBSET A) \cap (SUBSET B) : g[s] # h[s]}
<1> SUFFICES ASSUME F # {} PROVE FALSE
  OBVIOUS
<1>1. PICK s \in F : \A u \in SUBSET s : u # s => u \notin F
  <2>1. F \subseteq SUBSET A
    OBVIOUS
  <2> HIDE DEF F
  <2> QED
    BY <2>1, SmallestSet
<1>2. s # {} /\ First(s) \in s
  BY FirstIn DEF Sums
<1>3. g[s \ {First(s)}] = h[s \ {First(s)}]
  BY <1>1, <1>2
<1> QED
  BY <1>2, <1>3 DEF Sums

\* There is such a recursion over every finite set.
LEMMA SumsExist ==
  ASSUME NEW f, NEW S, IsFiniteSet(S)
  PROVE  \A T \in SUBSET S : Sums(f, T, TheSums(f, T))
<1> DEFINE F == {T \in SUBSET S : ~Sums(f, T, TheSums(f, T))}
<1> SUFFICES ASSUME F # {} PROVE FALSE
  OBVIOUS
<1>1. PICK T \in F : \A U \in SUBSET T : U # T => U \notin F
  <2>1. F \subseteq SUBSET S
    OBVIOUS
  <2> HIDE DEF F
  <2> QED
    BY <2>1, SmallestSet
<1>2. \A U \in SUBSET T : U # T => Sums(f, U, TheSums(f, U))
  BY <1>1
<1> DEFINE Smaller(s) == TheSums(f, s)[s]
           it == [s \in SUBSET T |->
                    IF s = {} THEN 0 ELSE f[First(s)] + Smaller(s \ {First(s)})]
<1>3. \A s \in SUBSET T : IsFiniteSet(s)
  <2>1. T \subseteq S
    OBVIOUS
  <2> QED
    BY <2>1, FS_Subset
<1>4. ASSUME NEW s \in SUBSET T, s # T PROVE it[s] = Smaller(s)
  <2>1. Sums(f, s, TheSums(f, s))
    BY <1>2, <1>4
  <2>2. CASE s = {}
    BY <2>1, <2>2 DEF Sums
  <2>3. CASE s # {}
    <3> DEFINE r == s \ {First(s)}
    <3>1. r \in SUBSET T /\ r # T /\ r \in SUBSET s
      BY <2>3, FirstIn
    <3>2. Sums(f, r, TheSums(f, r)) /\ IsFiniteSet(r)
      BY <1>2, <1>3, <3>1
    <3>3. TheSums(f, r)[r] = TheSums(f, s)[r]
      BY <2>1, <3>1, <3>2, SumsAgree
    <3>4. Smaller(s) = f[First(s)] + TheSums(f, s)[r]
      BY <2>1, <2>3 DEF Sums
    <3> QED
      BY <2>3, <3>3, <3>4
  <2> QED
    BY <2>2, <2>3
<1>5. Sums(f, T, it)
  <2>1. ASSUME NEW s \in SUBSET T, s # {} PROVE it[s \ {First(s)}] = Smaller(s \ {First(s)})
    <3>1. s \ {First(s)} # T /\ s \ {First(s)} \in SUBSET T
      BY <2>1, FirstIn
    <3> HIDE DEF it, Smaller
    <3> QED
      BY <1>4, <3>1
  <2>2. it = [s \in SUBSET T |-> IF s = {} THEN 0 ELSE f[First(s)] + it[s \ {First(s)}]]
    <3> DEFINE jt == [s \in SUBSET T |-> IF s = {} THEN 0 ELSE f[First(s)] + it[s \ {First(s)}]]
    <3>1. \A s \in SUBSET T : it[s] = jt[s]
      BY <2>1
    <3> QED
      BY <3>1
  <2> HIDE DEF it
  <2> QED
    BY <2>2 DEF Sums
<1>6. Sums(f, T, TheSums(f, T))
  <2> HIDE DEF it
  <2> QED
    BY <1>5, Zenon DEF TheSums
<1> QED
  BY <1>6

\* The sum of a function is such a recursion.
LEMMA SumIsRecursive ==
  ASSUME NEW f, NEW S
  PROVE  SumFunctionOnSet(f, S) = TheSums(f, S)[S]
BY Zenon DEF SumFunctionOnSet, FoldFunctionOnSet, MapThenFoldSet, TheSums, Sums, First

\* A sum is the first term and the sum of the rest.
LEMMA SumUnfolds ==
  ASSUME NEW f, NEW S, IsFiniteSet(S), S # {}
  PROVE  SumFunctionOnSet(f, S) = f[First(S)] + SumFunctionOnSet(f, S \ {First(S)})
<1> DEFINE R == S \ {First(S)}
<1>1. Sums(f, S, TheSums(f, S)) /\ Sums(f, R, TheSums(f, R))
  BY SumsExist
<1>2. IsFiniteSet(R) /\ R \in (SUBSET S) \cap (SUBSET R)
  BY FS_Subset
<1>3. TheSums(f, S)[R] = TheSums(f, R)[R]
  BY <1>1, <1>2, SumsAgree
<1>4. TheSums(f, S)[S] = f[First(S)] + TheSums(f, S)[R]
  BY <1>1 DEF Sums
<1> QED
  BY <1>3, <1>4, SumIsRecursive

-----------------------------------------------------------------------------
(* What the proofs use                                                      *)

\* The empty sum.
LEMMA SumOfNone == ASSUME NEW f PROVE SumFunctionOnSet(f, {}) = 0
<1>1. Sums(f, {}, TheSums(f, {}))
  BY SumsExist, FS_EmptySet
<1> QED
  BY <1>1, SumIsRecursive DEF Sums

\* A sum of integers is an integer, and any element may be taken first.
LEMMA SumTakes ==
  ASSUME NEW D, NEW f \in [D -> Int], IsFiniteSet(D)
  PROVE  /\ SumFunctionOnSet(f, D) \in Int
         /\ \A x \in D : SumFunctionOnSet(f, D) = f[x] + SumFunctionOnSet(f, D \ {x})
<1> DEFINE Sum(s) == SumFunctionOnSet(f, s)
           F == {s \in SUBSET D : ~(Sum(s) \in Int /\ \A x \in s : Sum(s) = f[x] + Sum(s \ {x}))}
<1>1. Sum({}) = 0
  BY SumOfNone
<1>2. \A s \in SUBSET D : s # {} => Sum(s) = f[First(s)] + Sum(s \ {First(s)})
  BY SumUnfolds, FS_Subset
<1> HIDE DEF Sum
<1> SUFFICES ASSUME F # {} PROVE FALSE
  BY DEF Sum
<1>3. PICK T \in F : \A U \in SUBSET T : U # T => U \notin F
  <2>1. F \subseteq SUBSET D
    OBVIOUS
  <2> HIDE DEF F
  <2> QED
    BY <2>1, SmallestSet
<1>4. \A U \in SUBSET T : U # T => Sum(U) \in Int /\ \A x \in U : Sum(U) = f[x] + Sum(U \ {x})
  BY <1>3
<1>5. ASSUME T = {} PROVE FALSE
  <2>1. Sum(T) = 0 /\ Sum(T) \in Int
    BY <1>1, <1>5
  <2>2. \A x \in T : Sum(T) = f[x] + Sum(T \ {x})
    BY <1>5
  <2> QED
    BY <2>1, <2>2
<1> DEFINE y == First(T)
<1>6. y \in T /\ Sum(T) = f[y] + Sum(T \ {y})
  BY <1>2, <1>5, FirstIn
<1> HIDE DEF y
<1>7. \A x \in T : f[x] \in Int /\ Sum(T \ {x}) \in Int
  <2>1. \A x \in T : T \ {x} \in SUBSET T /\ T \ {x} # T
    OBVIOUS
  <2> QED
    BY <1>4, <2>1
<1>8. ASSUME NEW x \in T PROVE Sum(T) = f[x] + Sum(T \ {x})
  <2>1. CASE x = y
    BY <1>6, <2>1
  <2>2. CASE x # y
    <3> DEFINE P == T \ {x}
               Q == T \ {y}
               R == T \ {x, y}
    <3>1. /\ P \in SUBSET T /\ P # T /\ y \in P /\ P \ {y} = R
          /\ Q \in SUBSET T /\ Q # T /\ x \in Q /\ Q \ {x} = R
          /\ R \in SUBSET T /\ R # T
      BY <1>6, <2>2
    <3> HIDE DEF P, Q, R
    <3>2. Sum(P) = f[y] + Sum(R) /\ Sum(Q) = f[x] + Sum(R) /\ Sum(R) \in Int
      BY <1>4, <3>1
    <3>3. Sum(T) = f[y] + Sum(Q)
      BY <1>6 DEF Q
    <3>4. f[x] \in Int /\ f[y] \in Int
      BY <1>6, <1>7
    <3>5. Sum(T) = f[x] + Sum(P)
      BY <3>2, <3>3, <3>4
    <3> QED
      BY <3>5 DEF P
  <2> QED
    BY <2>1, <2>2
<1>9. Sum(T) \in Int
  BY <1>6, <1>7
<1> QED
  BY <1>8, <1>9

\* Functions that agree on a set have the same sum over it.
LEMMA SumDependsOn ==
  ASSUME NEW D, IsFiniteSet(D), NEW f, NEW g, \A x \in D : f[x] = g[x]
  PROVE  SumFunctionOnSet(f, D) = SumFunctionOnSet(g, D)
<1> DEFINE F == {s \in SUBSET D : SumFunctionOnSet(f, s) # SumFunctionOnSet(g, s)}
<1> SUFFICES ASSUME F # {} PROVE FALSE
  OBVIOUS
<1>1. PICK T \in F : \A U \in SUBSET T : U # T => U \notin F
  <2>1. F \subseteq SUBSET D
    OBVIOUS
  <2> HIDE DEF F
  <2> QED
    BY <2>1, SmallestSet
<1>2. IsFiniteSet(T) /\ T # {}
  BY SumOfNone, FS_Subset
<1>3. First(T) \in T /\ T \ {First(T)} \in SUBSET T /\ T \ {First(T)} # T
  BY <1>2, FirstIn
<1>4. SumFunctionOnSet(f, T \ {First(T)}) = SumFunctionOnSet(g, T \ {First(T)})
  BY <1>1, <1>3
<1> QED
  BY <1>2, <1>3, <1>4, SumUnfolds

\* A sequence of numbers that grows by one: its sum grows by that number.
LEMMA SumAppends ==
  ASSUME NEW n \in Nat, NEW f \in [1 .. n -> Int], NEW g \in [1 .. (n + 1) -> Int],
         \A k \in 1 .. n : g[k] = f[k]
  PROVE  /\ SumFunction(f) \in Int
         /\ SumFunction(g) = SumFunction(f) + g[n + 1]
<1>1. IsFiniteSet(1 .. n) /\ IsFiniteSet(1 .. (n + 1))
  BY FS_Interval
<1>2. n + 1 \in 1 .. (n + 1) /\ (1 .. (n + 1)) \ {n + 1} = 1 .. n /\ g[n + 1] \in Int
  OBVIOUS
<1>3. SumFunctionOnSet(g, 1 .. (n + 1)) = g[n + 1] + SumFunctionOnSet(g, 1 .. n)
  BY <1>1, <1>2, SumTakes
<1>4. SumFunctionOnSet(g, 1 .. n) = SumFunctionOnSet(f, 1 .. n)
  BY <1>1, SumDependsOn
<1>5. SumFunctionOnSet(f, 1 .. n) \in Int
  BY <1>1, SumTakes
<1>6. SumFunction(f) = SumFunctionOnSet(f, 1 .. n) /\ SumFunction(g) = SumFunctionOnSet(g, 1 .. (n + 1))
  BY DEF SumFunction
<1> QED
  BY <1>2, <1>3, <1>4, <1>5, <1>6

\* A sum whose terms but one are 0.
LEMMA SumOfOne ==
  ASSUME NEW D, IsFiniteSet(D), NEW f \in [D -> Int], NEW x \in D, \A y \in D \ {x} : f[y] = 0
  PROVE  SumFunction(f) = f[x]
<1> DEFINE R == D \ {x}
           F == {s \in SUBSET R : SumFunctionOnSet(f, s) # 0}
<1>1. IsFiniteSet(R)
  BY FS_Subset
<1>2. ASSUME F # {} PROVE FALSE
  <2>1. PICK T \in F : \A U \in SUBSET T : U # T => U \notin F
    <3>1. F \subseteq SUBSET R
      OBVIOUS
    <3> HIDE DEF F
    <3> QED
      BY <1>1, <1>2, <3>1, SmallestSet
  <2>2. IsFiniteSet(T) /\ T # {}
    BY <1>1, SumOfNone, FS_Subset
  <2>3. First(T) \in T /\ T \ {First(T)} \in SUBSET T /\ T \ {First(T)} # T
    BY <2>2, FirstIn
  <2>4. SumFunctionOnSet(f, T \ {First(T)}) = 0 /\ f[First(T)] = 0
    BY <2>1, <2>3
  <2> QED
    BY <2>2, <2>4, SumUnfolds
<1>3. SumFunctionOnSet(f, R) = 0
  BY <1>2
<1>4. SumFunctionOnSet(f, D) = f[x] + SumFunctionOnSet(f, R) /\ f[x] \in Int
  BY SumTakes
<1> QED
  BY <1>3, <1>4 DEF SumFunction
=============================================================================
