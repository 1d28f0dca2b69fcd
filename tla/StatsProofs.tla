---------------------------- MODULE StatsProofs -----------------------------
(***************************************************************************)
(* Proofs about Stats, for any number of threads and any width of the      *)
(* counters: no event is lost or counted twice.                            *)
(*                                                                         *)
(* The theorems speak of sums over sets of threads.  What such a sum is    *)
(* follows by induction on the size of the set, from the fact that a set   *)
(* of naturals that is not empty has a least element.                      *)
(***************************************************************************)
EXTENDS Stats, FiniteSetTheorems, WellFoundedInduction, TLAPS

-----------------------------------------------------------------------------
(* Induction, for sets of naturals.                                         *)

NatLess == {p \in Nat \X Nat : p[1] < p[2]}

\* A set that has 0, and n + 1 with n, has every natural number.
LEMMA SetInduction ==
  ASSUME NEW T, 0 \in T, \A n \in Nat : n \in T => n + 1 \in T
  PROVE  \A n \in Nat : n \in T
<1>1. IsWellFoundedOn(NatLess, Nat)
  BY NatLessThanWellFounded DEF OpToRel, NatLess
<1>2. SUFFICES ASSUME Nat \ T # {}
               PROVE  FALSE
  OBVIOUS
<1>3. PICK n \in Nat \ T : \A m \in Nat \ T : <<m, n>> \notin NatLess
  BY <1>1, <1>2, WFMin
<1>4. n # 0 /\ n - 1 \in Nat /\ <<n - 1, n>> \in NatLess
  BY DEF NatLess
<1>5. n - 1 \in T /\ (n - 1) + 1 = n
  BY <1>3, <1>4
<1> QED
  BY <1>4, <1>5

-----------------------------------------------------------------------------
(* Sums.                                                                    *)

\* The element that a sum over s begins with.
First(s) == CHOOSE x \in s : TRUE

\* g[s] is the sum of f over s, for each s in C.
IsSum(g, f, C) ==
  g = [s \in C |-> IF s = {} THEN 0 ELSE f[First(s)] + g[s \ {First(s)}]]

Sums(g, f, S) == IsSum(g, f, SUBSET S)

\* What First returns is an element, and one element less is a smaller set.
LEMMA FirstElement ==
  ASSUME NEW S, IsFiniteSet(S), S # {}
  PROVE  /\ First(S) \in S
         /\ Cardinality(S) \in Nat \ {0}
         /\ Cardinality(S \ {First(S)}) = Cardinality(S) - 1
<1>1. First(S) \in S
  BY DEF First
<1>2. Cardinality(S) \in Nat /\ Cardinality(S) # 0
  BY FS_EmptySet, FS_CardinalityType
<1> QED
  BY <1>1, <1>2, FS_RemoveElement

UpTo(n, S) == {s \in SUBSET S : Cardinality(s) <= n}

\* The recursive equation of a sum has a solution.
LEMMA SumExists ==
  ASSUME NEW S, IsFiniteSet(S), NEW f \in [S -> Int]
  PROVE  \E g \in [SUBSET S -> Int] : Sums(g, f, S)
<1> DEFINE Solved == {n \in Nat : \E g \in [UpTo(n, S) -> Int] : IsSum(g, f, UpTo(n, S))}
<1>1. \A s \in SUBSET S : IsFiniteSet(s) /\ Cardinality(s) \in Nat
  BY FS_Subset, FS_CardinalityType
<1>2. 0 \in Solved
  <2>1. \A s \in UpTo(0, S) : s = {}
    BY <1>1, FS_EmptySet DEF UpTo
  <2> DEFINE g == [s \in UpTo(0, S) |-> 0]
  <2>2. g \in [UpTo(0, S) -> Int]
    OBVIOUS
  <2>3. IsSum(g, f, UpTo(0, S))
    BY <2>1 DEF IsSum
  <2> QED
    BY <2>2, <2>3
<1>3. ASSUME NEW n \in Nat, n \in Solved
      PROVE  n + 1 \in Solved
  <2>1. PICK g \in [UpTo(n, S) -> Int] : IsSum(g, f, UpTo(n, S))
    BY <1>3
  <2> DEFINE h == [s \in UpTo(n + 1, S) |->
                     IF s = {} THEN 0 ELSE f[First(s)] + g[s \ {First(s)}]]
  <2>2. ASSUME NEW s \in UpTo(n + 1, S), s # {}
        PROVE  First(s) \in S /\ s \ {First(s)} \in UpTo(n, S)
    <3>1. s \subseteq S /\ IsFiniteSet(s) /\ Cardinality(s) <= n + 1
      BY <1>1 DEF UpTo
    <3>2. First(s) \in s /\ Cardinality(s) \in Nat \ {0}
          /\ Cardinality(s \ {First(s)}) = Cardinality(s) - 1
      BY <2>2, <3>1, FirstElement
    <3>3. Cardinality(s \ {First(s)}) <= n
      BY <3>1, <3>2
    <3> QED
      BY <3>1, <3>2, <3>3 DEF UpTo
  <2>3. UpTo(n, S) \subseteq UpTo(n + 1, S)
    BY <1>1 DEF UpTo
  <2>4. \A s \in UpTo(n, S) : h[s] = g[s]
    BY <2>1, <2>3 DEF IsSum
  <2>5. h \in [UpTo(n + 1, S) -> Int]
    BY <2>2
  <2>6. IsSum(h, f, UpTo(n + 1, S))
    BY <2>2, <2>4 DEF IsSum
  <2> HIDE DEF h
  <2> QED
    BY <2>5, <2>6
<1>4. Cardinality(S) \in Solved
  <2> HIDE DEF Solved
  <2> QED
    BY <1>1, <1>2, <1>3, SetInduction
<1>5. UpTo(Cardinality(S), S) = SUBSET S
  BY <1>1, FS_Subset DEF UpTo
<1> QED
  BY <1>4, <1>5 DEF Sums

\* A sum over subsets of S depends on the values of the function in S only.
LEMMA SumCongruent ==
  ASSUME NEW S, NEW f, NEW g, \A x \in S : f[x] = g[x],
         NEW F, Sums(F, f, S)
  PROVE  Sums(F, g, S)
<1>1. \A s \in SUBSET S : s # {} => f[First(s)] = g[First(s)]
  BY DEF First
<1> QED
  BY <1>1 DEF Sums, IsSum

\* Sums over the subsets of A and of a finite part S of it agree on S.
LEMMA SumUnique ==
  ASSUME NEW A, NEW S, S \subseteq A, IsFiniteSet(S), NEW f,
         NEW F, Sums(F, f, A),
         NEW G, Sums(G, f, S)
  PROVE  \A s \in SUBSET S : F[s] = G[s]
<1> DEFINE Agree == {n \in Nat : \A s \in SUBSET S : Cardinality(s) = n => F[s] = G[s]}
<1>1. \A s \in SUBSET S : IsFiniteSet(s) /\ Cardinality(s) \in Nat
  BY FS_Subset, FS_CardinalityType
<1>2. 0 \in Agree
  BY <1>1, FS_EmptySet DEF Sums, IsSum
<1>3. ASSUME NEW n \in Nat, n \in Agree
      PROVE  n + 1 \in Agree
  <2> SUFFICES ASSUME NEW s \in SUBSET S, Cardinality(s) = n + 1
               PROVE  F[s] = G[s]
    OBVIOUS
  <2>1. s # {} /\ IsFiniteSet(s)
    BY <1>1, FS_EmptySet
  <2>2. First(s) \in s /\ Cardinality(s \ {First(s)}) = n
    BY <2>1, FirstElement
  <2>3. F[s \ {First(s)}] = G[s \ {First(s)}]
    BY <1>3, <2>2
  <2>4. F[s] = f[First(s)] + F[s \ {First(s)}]
    BY <2>1, s \in SUBSET A DEF Sums, IsSum
  <2>5. G[s] = f[First(s)] + G[s \ {First(s)}]
    BY <2>1, s \in SUBSET S DEF Sums, IsSum
  <2> QED
    BY <2>3, <2>4, <2>5
<1>4. \A n \in Nat : n \in Agree
  <2> HIDE DEF Agree
  <2> QED
    BY <1>2, <1>3, SetInduction
<1> QED
  BY <1>1, <1>4

\* So SumFunctionOnSet has its values.
LEMMA SumSolves ==
  ASSUME NEW D, NEW S, S \subseteq D, IsFiniteSet(S), NEW f \in [D -> Int]
  PROVE  \E g \in [SUBSET S -> Int] :
           Sums(g, f, S) /\ SumFunctionOnSet(f, S) = g[S]
<1> DEFINE g == CHOOSE h : Sums(h, f, S)
           e == [x \in S |-> f[x]]
<1>1. PICK h : h \in [SUBSET S -> Int] /\ Sums(h, e, S)
  <2>1. e \in [S -> Int]
    OBVIOUS
  <2> QED
    BY <2>1, SumExists
<1>2. Sums(h, f, S)
  <2>1. \A x \in S : e[x] = f[x]
    OBVIOUS
  <2> HIDE DEF e
  <2> QED
    BY <1>1, <2>1, SumCongruent
<1>3. Sums(g, f, S)
  BY <1>2
<1>4. SumFunctionOnSet(f, S) = g[S]
  BY DEF SumFunctionOnSet, FoldFunctionOnSet, MapThenFoldSet, Sums, IsSum, First
<1> HIDE DEF g, e
<1>5. \A s \in SUBSET S : g[s] = h[s]
  <2>1. S \subseteq S
    OBVIOUS
  <2> QED
    BY <1>2, <1>3, <2>1, SumUnique
<1>6. g \in [SUBSET S -> Int]
  <2>1. \A s \in SUBSET S : g[s] \in Int
    BY <1>1, <1>5
  <2>2. DOMAIN g = SUBSET S /\ g = [s \in SUBSET S |-> g[s]]
    BY <1>3 DEF Sums, IsSum
  <2> QED
    BY <2>1, <2>2
<1> QED
  BY <1>3, <1>4, <1>6

\* A sum is an integer, and that of the first element and the others.
LEMMA SumSteps ==
  ASSUME NEW D, NEW S, S \subseteq D, IsFiniteSet(S), NEW f \in [D -> Int]
  PROVE  /\ SumFunctionOnSet(f, S) \in Int
         /\ S = {} => SumFunctionOnSet(f, S) = 0
         /\ S # {} => SumFunctionOnSet(f, S) = f[First(S)] + SumFunctionOnSet(f, S \ {First(S)})
<1>1. PICK F : F \in [SUBSET S -> Int] /\ Sums(F, f, S) /\ SumFunctionOnSet(f, S) = F[S]
  BY SumSolves
<1>2. S = {} => SumFunctionOnSet(f, S) = 0
  BY <1>1 DEF Sums, IsSum
<1>3. ASSUME NEW T \in SUBSET S
      PROVE  SumFunctionOnSet(f, T) = F[T]
  <2>1. IsFiniteSet(T) /\ T \in SUBSET D /\ T \subseteq T /\ T \subseteq S
    BY FS_Subset
  <2>2. PICK G : Sums(G, f, T) /\ SumFunctionOnSet(f, T) = G[T]
    BY <2>1, SumSolves
  <2>3. Sums(F, f, S)
    BY <1>1
  <2>4. \A t \in SUBSET T : F[t] = G[t]
    BY <2>1, <2>2, <2>3, SumUnique
  <2> QED
    BY <2>1, <2>2, <2>4
<1>4. ASSUME S # {}
      PROVE  SumFunctionOnSet(f, S) = f[First(S)] + SumFunctionOnSet(f, S \ {First(S)})
  <2>1. F[S] = f[First(S)] + F[S \ {First(S)}]
    BY <1>1, <1>4 DEF Sums, IsSum
  <2>2. SumFunctionOnSet(f, S) = F[S]
    BY <1>1
  <2>3. SumFunctionOnSet(f, S \ {First(S)}) = F[S \ {First(S)}]
    BY <1>3
  <2> QED
    BY <2>1, <2>2, <2>3
<1> QED
  BY <1>1, <1>2, <1>4

\* A sum depends on the values of the function in the set only.
LEMMA SumAgree ==
  ASSUME NEW D, NEW S, S \subseteq D, IsFiniteSet(S)
  PROVE  \A f, g \in [D -> Int] : (\A x \in S : f[x] = g[x]) =>
           SumFunctionOnSet(f, S) = SumFunctionOnSet(g, S)
<1>1. ASSUME NEW f \in [D -> Int]
      PROVE  \E F : Sums(F, f, S) /\ SumFunctionOnSet(f, S) = F[S]
  BY SumSolves
<1> SUFFICES ASSUME NEW f \in [D -> Int], NEW g \in [D -> Int], \A x \in S : f[x] = g[x]
             PROVE  SumFunctionOnSet(f, S) = SumFunctionOnSet(g, S)
  OBVIOUS
<1>2. PICK F : Sums(F, f, S) /\ SumFunctionOnSet(f, S) = F[S]
  BY <1>1
<1>3. PICK G : Sums(G, g, S) /\ SumFunctionOnSet(g, S) = G[S]
  BY <1>1
<1>4. Sums(F, g, S)
  BY <1>2, SumCongruent
<1>5. S \subseteq S
  OBVIOUS
<1>6. \A s \in SUBSET S : F[s] = G[s]
  BY <1>3, <1>4, <1>5, SumUnique
<1> QED
  BY <1>2, <1>3, <1>6

\* One more element adds its value, whichever element the sum begins with.
LEMMA SumWith ==
  ASSUME NEW D, IsFiniteSet(D), NEW f \in [D -> Int],
         NEW S \in SUBSET D, NEW x \in D \ S
  PROVE  SumFunctionOnSet(f, S \cup {x}) = SumFunctionOnSet(f, S) + f[x]
<1> DEFINE Sum(s) == SumFunctionOnSet(f, s)
           Adds == {n \in Nat : \A s \in SUBSET D : Cardinality(s) = n =>
                      \A y \in D \ s : Sum(s \cup {y}) = Sum(s) + f[y]}
<1>0. \A s \in SUBSET D : /\ IsFiniteSet(s) /\ Cardinality(s) \in Nat
                          /\ \A y \in s : Cardinality(s \ {y}) = Cardinality(s) - 1
  BY FS_Subset, FS_CardinalityType, FS_RemoveElement
<1>1. ASSUME NEW s \in SUBSET D
      PROVE  /\ Sum(s) \in Int
             /\ s # {} => First(s) \in s /\ Sum(s) = f[First(s)] + Sum(s \ {First(s)})
  <2>1. s # {} => First(s) \in s
    BY DEF First
  <2> QED
    BY <1>0, <2>1, SumSteps
<1>2. ASSUME NEW s \in SUBSET D, NEW y \in D \ s, First(s \cup {y}) = y
      PROVE  Sum(s \cup {y}) = Sum(s) + f[y]
  <2>1. s \cup {y} \in SUBSET D /\ s \cup {y} # {} /\ (s \cup {y}) \ {y} = s
    OBVIOUS
  <2>2. Sum(s \cup {y}) = f[y] + Sum(s)
    BY <1>1, <1>2, <2>1
  <2>3. Sum(s) \in Int /\ f[y] \in Int
    BY <1>1
  <2> HIDE DEF Sum
  <2> QED
    BY <2>2, <2>3
<1>3. 0 \in Adds
  <2>1. ASSUME NEW s \in SUBSET D, Cardinality(s) = 0, NEW y \in D \ s
        PROVE  First(s \cup {y}) = y
    BY <1>0, <2>1, FS_EmptySet DEF First
  <2> QED
    BY <1>2, <2>1
<1>4. ASSUME NEW n \in Nat, n \in Adds
      PROVE  n + 1 \in Adds
  <2> SUFFICES ASSUME NEW s \in SUBSET D, Cardinality(s) = n + 1, NEW y \in D \ s
               PROVE  Sum(s \cup {y}) = Sum(s) + f[y]
    OBVIOUS
  <2> DEFINE z == First(s \cup {y})
             r == s \ {z}
  <2>1. CASE z = y
    BY <1>2, <2>1
  <2>2. CASE z # y
    <3>1. s \cup {y} \in SUBSET D /\ s \cup {y} # {}
      OBVIOUS
    <3>2. z \in s \cup {y} /\ Sum(s \cup {y}) = f[z] + Sum((s \cup {y}) \ {z})
      BY <1>1, <3>1
    <3>3. z \in s
      BY <2>2, <3>2
    <3> HIDE DEF z
    <3>4. r \in SUBSET D /\ y \in D \ r /\ z \in D \ r
      BY <3>3
    <3>5. (s \cup {y}) \ {z} = r \cup {y}
      BY <2>2, <3>3
    <3>6. r \cup {z} = s
      BY <3>3
    <3>7. Cardinality(r) = n
      BY <1>0, <3>3
    <3>8. Sum(r \cup {y}) = Sum(r) + f[y] /\ Sum(r \cup {z}) = Sum(r) + f[z]
      <4> HIDE DEF Sum, r
      <4> QED
        BY <1>4, <3>4, <3>7
    <3>9. Sum(r) \in Int /\ Sum(s) \in Int /\ f[y] \in Int /\ f[z] \in Int
      BY <1>1, <3>4
    <3>10. Sum(s \cup {y}) = f[z] + Sum(r \cup {y}) /\ Sum(s) = Sum(r) + f[z]
      BY <3>2, <3>5, <3>6, <3>8
    <3> HIDE DEF Sum, r
    <3> QED
      BY <3>8, <3>9, <3>10
  <2> QED
    BY <2>1, <2>2
<1>5. \A n \in Nat : n \in Adds
  <2> HIDE DEF Adds
  <2> QED
    BY <1>3, <1>4, SetInduction
<1> QED
  BY <1>0, <1>5

\* What the threads at one label hold changes by what the thread that steps held
\* there, or holds there now.
LEMMA SumMoves ==
  ASSUME NEW D, IsFiniteSet(D), NEW t \in D,
         NEW P, P \subseteq D, NEW Q, Q \subseteq D, P \ {t} = Q \ {t}
  PROVE  \A f, g \in [D -> Int] : (\A u \in D \ {t} : g[u] = f[u]) =>
           /\ SumFunctionOnSet(f, P) \in Int /\ SumFunctionOnSet(g, Q) \in Int
           /\ SumFunctionOnSet(g, Q) - (IF t \in Q THEN g[t] ELSE 0)
              = SumFunctionOnSet(f, P) - (IF t \in P THEN f[t] ELSE 0)
<1> DEFINE R == P \ {t}
<1>1. R \subseteq D /\ R \in SUBSET D /\ t \in D \ R
      /\ IsFiniteSet(P) /\ IsFiniteSet(Q) /\ IsFiniteSet(R)
  BY FS_Subset
<1>2. /\ t \in P => P = R \cup {t}
      /\ t \notin P => P = R
      /\ t \in Q => Q = R \cup {t}
      /\ t \notin Q => Q = R
  OBVIOUS
<1> HIDE DEF R
<1>3. ASSUME NEW f \in [D -> Int], NEW S, S \in {P, Q}
      PROVE  /\ SumFunctionOnSet(f, R) \in Int /\ SumFunctionOnSet(f, S) \in Int
             /\ SumFunctionOnSet(f, S)
                = SumFunctionOnSet(f, R) + (IF t \in S THEN f[t] ELSE 0)
  <2>1. SumFunctionOnSet(f, R) \in Int
    BY <1>1, SumSteps
  <2>2. SumFunctionOnSet(f, R \cup {t}) = SumFunctionOnSet(f, R) + f[t]
    BY <1>1, SumWith
  <2>3. f[t] \in Int
    OBVIOUS
  <2>4. CASE t \in S
    <3>1. S = R \cup {t}
      BY <1>2, <1>3, <2>4
    <3>2. SumFunctionOnSet(f, S) = SumFunctionOnSet(f, R) + f[t]
      BY <2>2, <3>1, Zenon
    <3> QED
      BY <2>1, <2>3, <2>4, <3>2
  <2>5. CASE t \notin S
    <3>1. S = R
      BY <1>2, <1>3, <2>5
    <3>2. SumFunctionOnSet(f, S) = SumFunctionOnSet(f, R)
      BY <3>1, Zenon
    <3> QED
      BY <2>1, <2>5, <3>2
  <2> QED
    BY <2>4, <2>5
<1>4. \A f, g \in [D -> Int] : (\A x \in R : f[x] = g[x]) =>
        SumFunctionOnSet(f, R) = SumFunctionOnSet(g, R)
  BY <1>1, SumAgree
<1> SUFFICES ASSUME NEW f \in [D -> Int], NEW g \in [D -> Int], \A u \in D \ {t} : g[u] = f[u]
             PROVE  /\ SumFunctionOnSet(f, P) \in Int /\ SumFunctionOnSet(g, Q) \in Int
                    /\ SumFunctionOnSet(g, Q) - (IF t \in Q THEN g[t] ELSE 0)
                       = SumFunctionOnSet(f, P) - (IF t \in P THEN f[t] ELSE 0)
  OBVIOUS
<1>5. SumFunctionOnSet(f, R) = SumFunctionOnSet(g, R)
  BY <1>4 DEF R
<1>6. /\ SumFunctionOnSet(f, R) \in Int /\ SumFunctionOnSet(f, P) \in Int
      /\ SumFunctionOnSet(f, P) = SumFunctionOnSet(f, R) + (IF t \in P THEN f[t] ELSE 0)
  BY <1>3
<1>7. /\ SumFunctionOnSet(g, R) \in Int /\ SumFunctionOnSet(g, Q) \in Int
      /\ SumFunctionOnSet(g, Q) = SumFunctionOnSet(g, R) + (IF t \in Q THEN g[t] ELSE 0)
  BY <1>3
<1>8. f[t] \in Int /\ g[t] \in Int
  OBVIOUS
<1> QED
  BY <1>5, <1>6, <1>7, <1>8

-----------------------------------------------------------------------------
(* Arithmetic of the width of a counter.                                    *)

\* Division leaves one remainder.
LEMMA OneRemainder ==
  ASSUME NEW w \in Nat \ {0}, NEW p \in Int, NEW q \in Int,
         NEW r \in 0..(w - 1), NEW s \in 0..(w - 1), w * p + r = w * q + s
  PROVE  r = s
<1>1. \A m \in Int : m >= 1 => w * m >= w
  OBVIOUS
<1>2. \A m \in Int : w * m < w /\ - w < w * m => m = 0
  BY <1>1
<1>3. w * (p - q) = s - r
  OBVIOUS
<1>4. p - q = 0
  BY <1>2, <1>3
<1> QED
  BY <1>3, <1>4

\* A number is so many times the width, and the remainder.
LEMMA Division ==
  ASSUME NEW w \in Nat \ {0}, NEW a \in Int
  PROVE  \E q \in Int, r \in 0..(w - 1) : a = w * q + r /\ a % w = r
<1>1. a \div w \in Int /\ a % w \in 0..(w - 1)
  OBVIOUS
<1>2. a = w * (a \div w) + (a % w)
  BY Z3
<1> DEFINE q == a \div w
           r == a % w
<1>3. a = w * q + r /\ a % w = r /\ q \in Int /\ r \in 0..(w - 1)
  BY <1>1, <1>2
<1> HIDE DEF q, r
<1> QED
  BY <1>3

\* What is congruent stays so when the same number is added.
LEMMA Congruent ==
  ASSUME NEW w \in Nat \ {0}, NEW a \in Int, NEW b \in Int, a % w = b % w, NEW k \in Int
  PROVE  (a + k) % w = (b + k) % w
<1> DEFINE c == a + k
           d == b + k
<1>1. PICK p \in Int, r \in 0..(w - 1) : a = w * p + r /\ a % w = r
  BY Division
<1>2. PICK q \in Int, s \in 0..(w - 1) : b = w * q + s /\ b % w = s
  BY Division
<1>3. c \in Int /\ d \in Int
  OBVIOUS
<1> HIDE DEF c, d
<1>4. PICK m \in Int, x \in 0..(w - 1) : c = w * m + x /\ c % w = x
  BY <1>3, Division
<1>5. PICK n \in Int, y \in 0..(w - 1) : d = w * n + y /\ d % w = y
  BY <1>3, Division
<1>6. r = s
  BY <1>1, <1>2
<1>7. w * m + x = w * (n + p - q) + y
  <2>1. c - d = w * p - w * q
    BY <1>1, <1>2, <1>6 DEF c, d
  <2> QED
    BY <1>4, <1>5, <2>1
<1>8. n + p - q \in Int
  OBVIOUS
<1>9. x = y
  BY <1>7, <1>8, OneRemainder
<1> QED
  BY <1>4, <1>5, <1>9 DEF c, d

\* A number may be replaced by what it is modulo the width.
LEMMA Wraps ==
  ASSUME NEW w \in Nat \ {0}, NEW a \in Int, NEW k \in Int
  PROVE  (k + (a % w)) % w = (k + a) % w
<1>1. a % w \in 0..(w - 1)
  OBVIOUS
<1>2. a % w \in Int /\ (a % w) % w = a % w
  BY <1>1
<1>3. ((a % w) + k) % w = (a + k) % w
  <2> DEFINE b == a % w
  <2>1. b \in Int /\ b % w = a % w
    BY <1>2
  <2> HIDE DEF b
  <2>2. (b + k) % w = (a + k) % w
    BY <2>1, Congruent
  <2> QED
    BY <2>2 DEF b
<1>4. (a % w) + k = k + (a % w) /\ a + k = k + a
  BY <1>2
<1> QED
  BY <1>3, <1>4

\* So it does when both are counted on.
LEMMA CongruentNext ==
  ASSUME NEW w \in Nat \ {0}, NEW a \in Int, NEW b \in Int, a % w = b % w
  PROVE  (a + 1) % w = (b + 1) % w
<1> DEFINE k == 1
<1>1. k \in Int
  OBVIOUS
<1> HIDE DEF k
<1>2. (a + k) % w = (b + k) % w
  BY <1>1, Congruent
<1> QED
  BY <1>2 DEF k

-----------------------------------------------------------------------------
(* The invariant.                                                           *)

Label == {"out", "reset_deleted", "add_deleted", "take_gets", "add_gets",
          "take_updates", "add_updates"}

\* What a uint holds.
Width == 0..(Uint - 1)

Typing ==
  /\ count \in [Counter -> Width]
  /\ total \in [Counter -> Width]
  /\ pc \in [Thread -> Label]
  /\ ret \in [Thread -> Width]
  /\ expirate \in {"out", "locked", "loaded"}
  /\ loaded \in Width
  /\ happened \in [Counter -> Nat]


\* What is in DHashmap, in Stats and with the threads at label l, of counter c.
Tally(c, l) == (count[c] + InFlight(l) + total[c]) % Uint

\* n events are accounted for.
Counted(n, c, l) == n % Uint = Tally(c, l)

\* Without an overlap, who has read deleted_ still knows its value.
DeletedKnown ==
  ~ overlap =>
    /\ expirate = "loaded" =>
         loaded = count["deleted"] /\ \A t \in Thread : pc[t] # "reset_deleted"
    /\ \A t \in Thread : pc[t] = "reset_deleted" =>
         /\ ret[t] = count["deleted"]
         /\ \A u \in Thread : pc[u] = "reset_deleted" => u = t

IInv == Typing /\ GetsCountedOnce /\ DeletedKnown /\ DeletedCountedOnce

\* What is modulo the width is a uint.
LEMMA WidthFacts ==
  0 \in Width /\ Width \subseteq Int /\ \A n \in Int : n % Uint \in Width
<1>1. 0 \in Width /\ Width \subseteq Int
  BY UintAssumption DEF Width
<1>2. ASSUME NEW n \in Int
      PROVE  n % Uint \in 0..(Uint - 1)
  <2>1. Uint \in Nat /\ Uint > 0
    BY UintAssumption
  <2> QED
    BY <2>1
<1> QED
  BY <1>1, <1>2, Zenon DEF Width

\* The variables keep their types.
LEMMA TypingSteps ==
  ASSUME Typing, [Next]_vars
  PROVE  Typing'
<1> USE DEF Typing, Counter, Label
<1>1. 0 \in Width /\ Width \subseteq Int /\ \A n \in Int : n % Uint \in Width
  BY WidthFacts
<1>2. ASSUME NEW c \in {"gets", "updates"}, CountOne(c)
      PROVE  Typing'
  <2>1. count[c] \in Width /\ happened[c] \in Nat
    OBVIOUS
  <2>2. count[c] + 1 \in Int
    <3>1. count[c] \in Int
      BY <1>1, <2>1, Zenon
    <3> QED
      BY <3>1
  <2>3. (count[c] + 1) % Uint \in Width
    BY <1>1, <2>2, Zenon
  <2> QED
    BY <1>2, <2>1, <2>3 DEF CountOne, Happens
<1>3. CASE LockExpirate
  BY <1>3 DEF LockExpirate
<1>4. CASE LoadDeleted
  BY <1>4 DEF LoadDeleted, Happens
<1>5. CASE StoreDeleted
  <2>1. (loaded + 1) % Uint \in Width
    BY <1>1
  <2> QED
    BY <1>1, <1>5, <2>1 DEF StoreDeleted
<1>6. CASE UnlockExpirate
  BY <1>6 DEF UnlockExpirate
<1>7. ASSUME NEW t \in Thread, ReadDeleted(t)
      PROVE  Typing'
  BY <1>7 DEF ReadDeleted, Step
<1>8. ASSUME NEW t \in Thread, ResetDeleted(t)
      PROVE  Typing'
  BY <1>1, <1>8 DEF ResetDeleted, Step
<1>9. ASSUME NEW t \in Thread, NEW c \in Counter, NEW from \in Label, NEW to \in Label,
             Take(t, c, from, to)
      PROVE  Typing'
  BY <1>1, <1>9 DEF Take, Step
<1>10. ASSUME NEW t \in Thread, NEW c \in Counter, NEW from \in Label, NEW to \in Label,
              Add(t, c, from, to)
       PROVE  Typing'
  <2>1. total[c] \in Width /\ ret[t] \in Width
    OBVIOUS
  <2>2. total[c] + ret[t] \in Int
    <3>1. total[c] \in Int /\ ret[t] \in Int
      BY <1>1, <2>1, Zenon
    <3> QED
      BY <3>1
  <2>3. (total[c] + ret[t]) % Uint \in Width
    BY <1>1, <2>2, Zenon
  <2> QED
    BY <1>1, <1>10, <2>3 DEF Add, Step
<1>11. CASE UNCHANGED vars
  BY <1>11 DEF vars
<1> QED
  BY <1>2, <1>3, <1>4, <1>5, <1>6, <1>7, <1>8, <1>9, <1>10, <1>11 DEF Next, RefreshStats

\* What is on its way at label l changes by what the thread that steps carries.
LEMMA FlightSteps ==
  ASSUME Typing, Typing', NEW t \in Thread, NEW from, NEW to, Step(t, from, to), from # to,
         \A u \in Thread \ {t} : ret'[u] = ret[u], NEW l
  PROVE  /\ InFlight(l) \in Int /\ InFlight(l)' \in Int
         /\ l # from /\ l # to => InFlight(l)' = InFlight(l)
         /\ l = to => InFlight(l)' = InFlight(l) + ret'[t]
         /\ l = from => InFlight(l)' = InFlight(l) - ret[t]
<1> DEFINE P == {u \in Thread : pc[u] = l}
           Q == {u \in Thread : pc'[u] = l}
<1>1. ret \in [Thread -> Int] /\ ret' \in [Thread -> Int]
  BY WidthFacts DEF Typing
<1>2. pc[t] = from /\ pc'[t] = to /\ \A u \in Thread \ {t} : pc'[u] = pc[u]
  BY DEF Step, Typing
<1>3. InFlight(l) = SumFunctionOnSet(ret, P) /\ InFlight(l)' = SumFunctionOnSet(ret', Q)
  BY DEF InFlight
<1>4. P \subseteq Thread /\ Q \subseteq Thread /\ P \ {t} = Q \ {t}
      /\ (t \in P <=> l = from) /\ (t \in Q <=> l = to)
  BY <1>2
<1> HIDE DEF P, Q
<1>5. /\ SumFunctionOnSet(ret, P) \in Int /\ SumFunctionOnSet(ret', Q) \in Int
      /\ SumFunctionOnSet(ret', Q) - (IF t \in Q THEN ret'[t] ELSE 0)
         = SumFunctionOnSet(ret, P) - (IF t \in P THEN ret[t] ELSE 0)
  BY <1>1, <1>4, ThreadAssumption, SumMoves
<1>6. ret[t] \in Int /\ ret'[t] \in Int
  BY <1>1
<1> QED
  BY <1>3, <1>4, <1>5, <1>6

\* The counters and what threads carry are numbers.
LEMMA Numbers ==
  ASSUME Typing, NEW c \in Counter, NEW l
  PROVE  /\ count[c] \in Int /\ total[c] \in Int /\ happened[c] \in Int /\ loaded \in Int
         /\ \A t \in Thread : ret[t] \in Int
         /\ InFlight(l) \in Int
<1>1. count[c] \in Width /\ total[c] \in Width /\ happened[c] \in Nat /\ loaded \in Width
      /\ \A t \in Thread : ret[t] \in Width
  BY DEF Typing
<1>2. happened[c] \in Int
  BY <1>1
<1>3. {u \in Thread : pc[u] = l} \subseteq Thread /\ ret \in [Thread -> Int]
  BY WidthFacts DEF Typing
<1>4. InFlight(l) \in Int
  BY <1>3, ThreadAssumption, FS_Subset, SumSteps DEF InFlight
<1> QED
  BY <1>1, <1>2, <1>4, WidthFacts, Zenon

\* Adding what a thread carries to the total leaves the tally as it was.
LEMMA AddTally ==
  ASSUME Typing, Typing', NEW t \in Thread, NEW c \in Counter, NEW from, NEW to, from # to,
         Add(t, c, from, to)
  PROVE  Tally(c, from)' = Tally(c, from)
<1>1. Step(t, from, to) /\ \A u \in Thread \ {t} : ret'[u] = ret[u]
  BY DEF Add, Typing
<1>2. InFlight(from)' = InFlight(from) - ret[t]
  BY <1>1, FlightSteps
<1>3. count' = count /\ total'[c] = (total[c] + ret[t]) % Uint
  BY DEF Add, Typing
<1>4. count[c] \in Int /\ total[c] \in Int /\ InFlight(from) \in Int /\ ret[t] \in Int
  BY Numbers
<1> DEFINE k == count[c] + (InFlight(from) - ret[t])
           a == total[c] + ret[t]
<1>5. k \in Int /\ a \in Int /\ k + a = count[c] + InFlight(from) + total[c]
  BY <1>4
<1> HIDE DEF k, a
<1>6. (k + (a % Uint)) % Uint = (k + a) % Uint
  BY <1>5, UintAssumption, Wraps
<1>7. (count[c] + (InFlight(from) - ret[t]) + ((total[c] + ret[t]) % Uint)) % Uint
      = (count[c] + InFlight(from) + total[c]) % Uint
  BY <1>5, <1>6 DEF k, a
<1> QED
  BY <1>2, <1>3, <1>7, Zenon DEF Tally

\* Counting one more event keeps the tally in step with the events.
LEMMA CountTally ==
  ASSUME Typing, NEW c \in Counter, NEW l, NEW n \in Int, n % Uint = Tally(c, l)
  PROVE  (n + 1) % Uint = (((count[c] + 1) % Uint) + InFlight(l) + total[c]) % Uint
<1>1. count[c] \in Int /\ total[c] \in Int /\ InFlight(l) \in Int
  BY Numbers
<1> DEFINE a == count[c] + InFlight(l) + total[c]
           k == InFlight(l) + total[c]
           e == count[c] + 1
<1>2. a \in Int /\ k \in Int /\ e \in Int /\ a + 1 = k + e
  BY <1>1
<1>3. n % Uint = a % Uint
  BY DEF Tally
<1>4. \A i \in Int : (e % Uint = i) => ((count[c] + 1) % Uint) + InFlight(l) + total[c] = k + i
  BY <1>1
<1> HIDE DEF a, k, e
<1>5. (n + 1) % Uint = (a + 1) % Uint
  BY <1>2, <1>3, UintAssumption, CongruentNext
<1>6. (k + (e % Uint)) % Uint = (k + e) % Uint
  BY <1>2, UintAssumption, Wraps
<1>7. e % Uint \in Int
  BY <1>2, WidthFacts, Zenon
<1> QED
  BY <1>2, <1>4, <1>5, <1>6, <1>7, Zenon

\* Gets and updates are counted once.
LEMMA CountedSteps ==
  ASSUME Typing, [Next]_vars, Typing', NEW c, NEW l,
         \/ c = "gets" /\ l = "add_gets"
         \/ c = "updates" /\ l = "add_updates",
         Counted(happened[c], c, l)
  PROVE  Counted(happened[c], c, l)'
<1>1. c \in Counter /\ c # "deleted" /\ l \in {"add_gets", "add_updates"}
  BY DEF Counter
<1>2. /\ count[c] \in Int /\ total[c] \in Int /\ happened[c] \in Int
      /\ Uint \in Nat \ {0}
  BY <1>1, UintAssumption, Numbers
<1>3. InFlight(l) \in Int
  BY <1>1, Numbers
<1>4. ASSUME happened'[c] = happened[c], count'[c] = count[c], total'[c] = total[c],
             InFlight(l)' = InFlight(l)
      PROVE  Counted(happened[c], c, l)'
  BY <1>4 DEF Counted, Tally
<1>5. ASSUME pc' = pc, ret' = ret
      PROVE  InFlight(l)' = InFlight(l)
  BY <1>5 DEF InFlight
<1>6. ASSUME NEW d \in {"gets", "updates"}, CountOne(d)
      PROVE  Counted(happened[c], c, l)'
  <2>1. total' = total /\ InFlight(l)' = InFlight(l)
    BY <1>5, <1>6 DEF CountOne
  <2>2. CASE d = c
    <3>1. happened'[c] = happened[c] + 1 /\ count'[c] = (count[c] + 1) % Uint
      BY <1>1, <1>6, <2>2 DEF CountOne, Happens, Typing
    <3>2. (happened[c] + 1) % Uint = (((count[c] + 1) % Uint) + InFlight(l) + total[c]) % Uint
      BY <1>1, <1>2, CountTally DEF Counted
    <3> QED
      BY <2>1, <3>1, <3>2, Zenon DEF Counted, Tally
  <2>3. CASE d # c
    <3>1. happened'[c] = happened[c] /\ count'[c] = count[c]
      BY <1>1, <1>6, <2>3 DEF CountOne, Happens, Typing
    <3> QED
      BY <1>4, <2>1, <3>1
  <2> QED
    BY <2>2, <2>3
<1>7. CASE LockExpirate \/ UnlockExpirate \/ LoadDeleted \/ StoreDeleted \/ UNCHANGED vars
  <2>1. pc' = pc /\ ret' = ret /\ total' = total
    BY <1>7 DEF LockExpirate, UnlockExpirate, LoadDeleted, StoreDeleted, vars
  <2>2. happened'[c] = happened[c] /\ count'[c] = count[c]
    BY <1>1, <1>7 DEF LockExpirate, UnlockExpirate, LoadDeleted, Happens, StoreDeleted, vars, Typing
  <2> QED
    BY <1>4, <1>5, <2>1, <2>2
<1>8. ASSUME NEW t \in Thread, ReadDeleted(t) \/ ResetDeleted(t)
      PROVE  Counted(happened[c], c, l)'
  <2>1. Step(t, "out", "reset_deleted") \/ Step(t, "reset_deleted", "add_deleted")
    BY <1>8 DEF ReadDeleted, ResetDeleted
  <2>2. \A u \in Thread \ {t} : ret'[u] = ret[u]
    BY <1>8 DEF ReadDeleted, ResetDeleted, Typing
  <2>3. InFlight(l)' = InFlight(l)
    BY <1>1, <2>1, <2>2, FlightSteps
  <2>4. happened' = happened /\ total' = total /\ count'[c] = count[c]
    BY <1>1, <1>8 DEF ReadDeleted, ResetDeleted, Typing
  <2> QED
    BY <1>4, <2>3, <2>4
<1>9. ASSUME NEW t \in Thread, NEW d, NEW from, NEW to,
             Take(t, d, from, to), from # to, from # l, d = c <=> to = l
      PROVE  Counted(happened[c], c, l)'
  <2>1. Step(t, from, to) /\ \A u \in Thread \ {t} : ret'[u] = ret[u]
    BY <1>9 DEF Take, Typing
  <2>2. happened' = happened /\ total' = total
    BY <1>9 DEF Take
  <2>3. CASE d = c
    <3>1. ret'[t] = count[c] /\ count'[c] = 0
      BY <1>1, <1>9, <2>3 DEF Take, Typing
    <3>2. InFlight(l)' = InFlight(l) + ret'[t]
      BY <1>9, <2>1, <2>3, FlightSteps
    <3>3. count'[c] + InFlight(l)' + total'[c] = count[c] + InFlight(l) + total[c]
      BY <1>2, <1>3, <2>2, <3>1, <3>2
    <3> QED
      BY <2>2, <3>3 DEF Counted, Tally
  <2>4. CASE d # c
    <3>1. count'[c] = count[c]
      BY <1>1, <1>9, <2>4 DEF Take, Typing
    <3>2. InFlight(l)' = InFlight(l)
      BY <1>9, <2>1, <2>4, FlightSteps
    <3> QED
      BY <1>4, <2>2, <3>1, <3>2
  <2> QED
    BY <2>3, <2>4
<1>10. ASSUME NEW t \in Thread, NEW d, NEW from, NEW to,
              Add(t, d, from, to), from # to, to # l, d = c <=> from = l
       PROVE  Counted(happened[c], c, l)'
  <2>1. Step(t, from, to) /\ \A u \in Thread \ {t} : ret'[u] = ret[u]
    BY <1>10 DEF Add, Typing
  <2>2. happened' = happened /\ count' = count
    BY <1>10 DEF Add
  <2>3. CASE d = c
    <3>1. Tally(c, l)' = Tally(c, l)
      BY <1>1, <1>10, <2>3, AddTally
    <3> QED
      BY <2>2, <3>1, Zenon DEF Counted
  <2>4. CASE d # c
    <3>1. total'[c] = total[c]
      BY <1>1, <1>10, <2>4 DEF Add, Typing
    <3>2. InFlight(l)' = InFlight(l)
      BY <1>10, <2>1, <2>4, FlightSteps
    <3> QED
      BY <1>4, <2>2, <3>1, <3>2
  <2> QED
    BY <2>3, <2>4
<1> QED
  BY <1>6, <1>7, <1>8, <1>9, <1>10 DEF Next, RefreshStats

\* Without an overlap, who has read deleted_ still knows its value.
LEMMA KnownSteps ==
  ASSUME Typing, [Next]_vars, DeletedKnown
  PROVE  DeletedKnown'
<1> USE DEF DeletedKnown, Typing
<1>1. ASSUME NEW c \in {"gets", "updates"}, CountOne(c)
      PROVE  DeletedKnown'
  <2>1. count'["deleted"] = count["deleted"]
    BY <1>1 DEF CountOne, Counter
  <2> QED
    BY <1>1, <2>1 DEF CountOne, Unlocked
<1>2. CASE LockExpirate \/ UnlockExpirate
  BY <1>2 DEF LockExpirate, UnlockExpirate, Unlocked
<1>3. CASE LoadDeleted
  BY <1>3 DEF LoadDeleted
<1>4. CASE StoreDeleted
  BY <1>4 DEF StoreDeleted
<1>5. ASSUME NEW t \in Thread, ReadDeleted(t)
      PROVE  DeletedKnown'
  BY <1>5 DEF ReadDeleted, Step
<1>6. ASSUME NEW t \in Thread, ResetDeleted(t)
      PROVE  DeletedKnown'
  BY <1>6 DEF ResetDeleted, Step
<1>7. ASSUME NEW t \in Thread, NEW c \in {"gets", "updates"}, NEW from, NEW to,
             Take(t, c, from, to), to # "reset_deleted", from # "reset_deleted"
      PROVE  DeletedKnown'
  <2>1. count'["deleted"] = count["deleted"]
    BY <1>7 DEF Take, Counter
  <2> QED
    BY <1>7, <2>1 DEF Take, Step, Unlocked
<1>8. ASSUME NEW t \in Thread, NEW c, NEW from, NEW to,
             Add(t, c, from, to), to # "reset_deleted", from # "reset_deleted"
      PROVE  DeletedKnown'
  BY <1>8 DEF Add, Step
<1>9. CASE UNCHANGED vars
  BY <1>9 DEF vars
<1> QED
  BY <1>1, <1>2, <1>3, <1>4, <1>5, <1>6, <1>7, <1>8, <1>9 DEF Next, RefreshStats

\* Without an overlap deletions are counted once.
LEMMA DeletedSteps ==
  ASSUME Typing, [Next]_vars, Typing', DeletedKnown, DeletedCountedOnce
  PROVE  DeletedCountedOnce'
<1> DEFINE c == "deleted"
           l == "add_deleted"
           n == happened[c] - Uncounted
<1>1. c \in Counter
  BY DEF Counter
<1>2. /\ count[c] \in Int /\ total[c] \in Int /\ happened[c] \in Int /\ loaded \in Int
      /\ InFlight(l) \in Int /\ Uint \in Nat \ {0} /\ n \in Int
  <2>1. Uncounted \in Int
    BY DEF Uncounted
  <2> QED
    BY <1>1, <2>1, UintAssumption, Numbers
<1>3. overlap' \/ (~ overlap /\ n % Uint = Tally(c, l))
  <2>1. overlap => overlap'
    BY DEF Next, vars, RefreshStats, CountOne, LockExpirate, LoadDeleted, StoreDeleted,
           UnlockExpirate, ReadDeleted, ResetDeleted, Take, Add
  <2> QED
    BY <2>1 DEF DeletedCountedOnce, Tally
<1> SUFFICES ASSUME ~ overlap', ~ overlap, n % Uint = Tally(c, l)
             PROVE  n' % Uint = Tally(c, l)'
  BY <1>3 DEF DeletedCountedOnce, Tally
<1>4. ASSUME n' = n, count'[c] = count[c], total'[c] = total[c], InFlight(l)' = InFlight(l)
      PROVE  n' % Uint = Tally(c, l)'
  BY <1>4 DEF Tally
<1>5. ASSUME pc' = pc, ret' = ret
      PROVE  InFlight(l)' = InFlight(l)
  BY <1>5 DEF InFlight
<1>6. ASSUME NEW d \in {"gets", "updates"}, CountOne(d)
      PROVE  n' % Uint = Tally(c, l)'
  <2>1. count'[c] = count[c] /\ happened'[c] = happened[c]
    BY <1>6 DEF CountOne, Happens, Typing
  <2>2. total' = total /\ Uncounted' = Uncounted /\ pc' = pc /\ ret' = ret
    BY <1>6 DEF CountOne, Uncounted
  <2> QED
    BY <1>4, <1>5, <2>1, <2>2
<1>7. CASE LockExpirate \/ UnlockExpirate \/ UNCHANGED vars
  <2>1. count' = count /\ total' = total /\ happened' = happened /\ pc' = pc /\ ret' = ret
    BY <1>7 DEF LockExpirate, UnlockExpirate, vars
  <2>2. Uncounted' = Uncounted
    BY <1>7 DEF LockExpirate, UnlockExpirate, vars, Unlocked, Uncounted
  <2> QED
    BY <1>4, <1>5, <2>1, <2>2
<1>8. CASE LoadDeleted
  <2>1. count' = count /\ total' = total /\ pc' = pc /\ ret' = ret
    BY <1>8 DEF LoadDeleted
  <2>2. happened'[c] = happened[c] + 1 /\ Uncounted = 0 /\ Uncounted' = 1
    BY <1>1, <1>8 DEF LoadDeleted, Happens, Uncounted, Typing
  <2>3. n' = n
    BY <1>2, <2>2
  <2> QED
    BY <1>4, <1>5, <2>1, <2>3
<1>9. CASE StoreDeleted
  <2>1. total' = total /\ pc' = pc /\ ret' = ret /\ happened' = happened
    BY <1>9 DEF StoreDeleted
  <2>2. Uncounted = 1 /\ Uncounted' = 0 /\ loaded = count[c]
    BY <1>9 DEF StoreDeleted, Uncounted, DeletedKnown
  <2>3. count'[c] = (count[c] + 1) % Uint
    BY <1>1, <1>9, <2>2 DEF StoreDeleted, Typing
  <2>4. n' = n + 1
    BY <1>2, <2>1, <2>2
  <2>5. InFlight(l)' = InFlight(l)
    BY <1>5, <2>1
  <2> HIDE DEF n
  <2>6. (n + 1) % Uint = (((count[c] + 1) % Uint) + InFlight(l) + total[c]) % Uint
    BY <1>1, <1>2, CountTally
  <2> QED
    BY <2>1, <2>3, <2>4, <2>5, <2>6, Zenon DEF Tally
<1>10. ASSUME NEW t \in Thread, ReadDeleted(t)
       PROVE  n' % Uint = Tally(c, l)'
  <2>1. Step(t, "out", "reset_deleted") /\ \A u \in Thread \ {t} : ret'[u] = ret[u]
    BY <1>10 DEF ReadDeleted, Typing
  <2>2. InFlight(l)' = InFlight(l)
    BY <2>1, FlightSteps
  <2>3. happened' = happened /\ total' = total /\ count' = count /\ Uncounted' = Uncounted
    BY <1>10 DEF ReadDeleted, Uncounted
  <2> QED
    BY <1>4, <2>2, <2>3
<1>11. ASSUME NEW t \in Thread, ResetDeleted(t)
       PROVE  n' % Uint = Tally(c, l)'
  <2>1. Step(t, "reset_deleted", "add_deleted") /\ \A u \in Thread \ {t} : ret'[u] = ret[u]
    BY <1>11 DEF ResetDeleted
  <2>2. InFlight(l)' = InFlight(l) + ret'[t]
    BY <2>1, FlightSteps
  <2>3. ret'[t] = count[c] /\ count'[c] = 0
    BY <1>1, <1>11 DEF ResetDeleted, Step, DeletedKnown, Typing
  <2>4. total' = total /\ n' = n
    BY <1>11 DEF ResetDeleted, Uncounted
  <2>5. count'[c] + InFlight(l)' + total'[c] = count[c] + InFlight(l) + total[c]
    BY <1>2, <2>2, <2>3, <2>4
  <2> QED
    BY <2>4, <2>5 DEF Tally
<1>12. ASSUME NEW t \in Thread, NEW d \in {"gets", "updates"}, NEW from, NEW to,
              Take(t, d, from, to), from # to, from # l, to # l
       PROVE  n' % Uint = Tally(c, l)'
  <2>1. Step(t, from, to) /\ \A u \in Thread \ {t} : ret'[u] = ret[u]
    BY <1>12 DEF Take, Typing
  <2>2. InFlight(l)' = InFlight(l)
    BY <1>12, <2>1, FlightSteps
  <2>3. happened' = happened /\ total' = total /\ Uncounted' = Uncounted
    BY <1>12 DEF Take, Uncounted
  <2>4. count'[c] = count[c]
    BY <1>1, <1>12 DEF Take, Typing
  <2> QED
    BY <1>4, <2>2, <2>3, <2>4
<1>13. ASSUME NEW t \in Thread, NEW d, NEW from, NEW to,
              Add(t, d, from, to), from # to, to # l, d = c <=> from = l
       PROVE  n' % Uint = Tally(c, l)'
  <2>1. Step(t, from, to) /\ \A u \in Thread \ {t} : ret'[u] = ret[u]
    BY <1>13 DEF Add, Typing
  <2>2. n' = n /\ count' = count
    BY <1>13 DEF Add, Uncounted
  <2>3. CASE d = c
    <3>1. Tally(c, l)' = Tally(c, l)
      BY <1>1, <1>13, <2>3, AddTally
    <3> QED
      BY <2>2, <3>1, Zenon
  <2>4. CASE d # c
    <3>1. total'[c] = total[c]
      BY <1>1, <1>13, <2>4 DEF Add, Typing
    <3>2. InFlight(l)' = InFlight(l)
      BY <1>13, <2>1, <2>4, FlightSteps
    <3> QED
      BY <1>4, <2>2, <3>1, <3>2
  <2> QED
    BY <2>3, <2>4
<1> QED
  BY <1>6, <1>7, <1>8, <1>9, <1>10, <1>11, <1>12, <1>13 DEF Next, RefreshStats

\* The invariant holds initially.
LEMMA InitHolds == Init => IInv
<1> SUFFICES ASSUME Init PROVE IInv
  OBVIOUS
<1>1. Typing
  BY WidthFacts DEF Init, Typing, Label
<1>2. ASSUME NEW l, l # "out" PROVE InFlight(l) = 0
  <2>1. {t \in Thread : pc[t] = l} = {}
    BY <1>2 DEF Init
  <2>2. ret \in [Thread -> Int] /\ {} \subseteq Thread /\ IsFiniteSet({})
    BY FS_EmptySet DEF Init
  <2>3. SumFunctionOnSet(ret, {}) = 0
    BY <2>2, SumSteps
  <2> QED
    BY <2>1, <2>3, Zenon DEF InFlight
<1>3. GetsCountedOnce /\ DeletedCountedOnce
  BY <1>2 DEF Init, Counter, GetsCountedOnce, DeletedCountedOnce, Uncounted
<1> QED
  BY <1>1, <1>3 DEF Init, IInv, DeletedKnown

\* Every step keeps the invariant.
LEMMA NextKeeps == IInv /\ [Next]_vars => IInv'
<1> SUFFICES ASSUME IInv, [Next]_vars
             PROVE  IInv'
  OBVIOUS
<1>1. Typing'
  BY TypingSteps DEF IInv
<1>2. Counted(happened["gets"], "gets", "add_gets")'
  BY <1>1, CountedSteps DEF IInv, GetsCountedOnce, Counted, Tally
<1>3. Counted(happened["updates"], "updates", "add_updates")'
  BY <1>1, CountedSteps DEF IInv, GetsCountedOnce, Counted, Tally
<1>4. DeletedKnown' /\ DeletedCountedOnce'
  BY <1>1, KnownSteps, DeletedSteps DEF IInv
<1> QED
  BY <1>1, <1>2, <1>3, <1>4 DEF IInv, GetsCountedOnce, Counted, Tally

\* The invariant holds throughout.
THEOREM Correct == Spec => []IInv
  BY InitHolds, NextKeeps, PTL DEF Spec

\* However many threads run stats commands at once, every get and every update is in
\* DHashmap, in Stats or on its way (DHashmap::get_gets, get_updates).
THEOREM GetsAreCountedOnce == Spec => []GetsCountedOnce
  BY Correct, PTL DEF IInv

\* Every deletion is, while get_deleted has overlapped neither itself nor the counting
\* of a deletion (DHashmap::get_deleted, expirate).
THEOREM DeletedAreCountedOnce == Spec => []DeletedCountedOnce
  BY Correct, PTL DEF IInv
=============================================================================
