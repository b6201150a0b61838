------------------------------ MODULE Counting ------------------------------
(***************************************************************************)
(* How many failures a counter that is read and set back can miss.         *)
(*                                                                         *)
(* Both failure counters of the program (User.failedLoginAttempts and the  *)
(* Redis key mfa_attempts) are read by a request, and later set to one     *)
(* more than was read.  Requests that overlap write stale values, so the   *)
(* counter may fall back, but not for ever.  A request is worth the value  *)
(* it would write one more than: what it has read, or the counter if that  *)
(* is less (it can always give up and read it).  The profile of a state    *)
(* says, for i = 1 .. m, how many requests are worth less than i.  Every   *)
(* write makes the profile smaller in the lexicographic order, no other    *)
(* step makes it larger, and there are (m+k choose k) profiles of k        *)
(* requests: so many writes, less one, are possible in a row below m.      *)
(*                                                                         *)
(* The module has no state: it holds the lemmas that Login_proofs and      *)
(* SecondFactor_proofs share.                                              *)
(***************************************************************************)
EXTENDS Integers, FiniteSets, Combinatorics, FiniteSetTheorems,
        WellFoundedInduction, TLAPS

----------------------------------------------------------------------------
(* Climbs and how many there are.                                          *)

\* Sequences of m numbers up to k that never go down.
Climbs(m, k) ==
    {g \in [1 .. m -> 0 .. k] : \A i, j \in 1 .. m : i <= j => g[i] <= g[j]}

\* There are (m+k)! / k! m! of them.
Counted(m, k) ==
    /\ IsFiniteSet(Climbs(m, k))
    /\ Cardinality(Climbs(m, k)) * (factorial[k] * factorial[m]) = factorial[m + k]

\* A set of numbers has a least one: the form of induction used below.
LEMMA Least ==
    ASSUME NEW S, S \subseteq Nat, S # {}
    PROVE  \E n \in S : \A m \in S : n <= m
<1>1. IsWellFoundedOn(OpToRel(<, Nat), Nat)
  BY NatLessThanWellFounded
<1>2. PICK n \in S : \A m \in S : ~ (<<m, n>> \in OpToRel(<, Nat))
  BY <1>1, WFMin
<1>3. \A m \in S : ~ (m < n)
  BY <1>2 DEF OpToRel
<1> QED BY <1>3

\* There is a function with the recursion of factorial: the functions on
\* 0 .. n agree, and together they are it.
LEMMA FactorialExists == \E f : f = [n \in Nat |-> IF n = 0 THEN 1 ELSE n * f[n-1]]
<1> DEFINE IsF(f, n) == f \in [0 .. n -> Nat]
             /\ \A i \in 0 .. n : f[i] = IF i = 0 THEN 1 ELSE i * f[i-1]
<1>1. \A n \in Nat : \E f : IsF(f, n)
  <2> DEFINE Bad == {n \in Nat : ~ \E f : IsF(f, n)}
  <2>1. SUFFICES ASSUME Bad # {} PROVE FALSE
    OBVIOUS
  <2>2. PICK n \in Bad : \A m \in Bad : n <= m
    <3> HIDE DEF IsF
    <3> QED BY <2>1, Least
  <2>3. CASE n = 0
    <3>1. IsF([i \in 0 .. 0 |-> 1], 0)
      OBVIOUS
    <3> QED BY <2>2, <2>3, <3>1
  <2>4. CASE n # 0
    <3>1. n \in Nat /\ n-1 \in Nat /\ n-1 \notin Bad
      <4>1. n \in Nat /\ n-1 \in Nat
        BY <2>2, <2>4
      <4> HIDE DEF Bad
      <4> QED BY <4>1, <2>2
    <3>2. PICK f : IsF(f, n-1)
      <4> HIDE DEF IsF
      <4> QED BY <3>1
    <3> DEFINE g == [i \in 0 .. n |-> IF i = n THEN n * f[n-1] ELSE f[i]]
    <3>3. f[n-1] \in Nat /\ n * f[n-1] \in Nat
      BY <3>1, <3>2
    <3>4. g \in [0 .. n -> Nat]
      BY <3>1, <3>2, <3>3
    <3>5. ASSUME NEW i \in 0 .. n PROVE g[i] = IF i = 0 THEN 1 ELSE i * g[i-1]
      <4>1. CASE i = n
        BY <3>1, <3>2, <4>1, <2>4
      <4>2. CASE i # n
        <5>1. i \in 0 .. (n-1) /\ g[i] = f[i]
          BY <3>1, <4>2
        <5>2. i # 0 => g[i-1] = f[i-1]
          BY <3>1, <4>2
        <5> QED BY <5>1, <5>2, <3>2
      <4> QED BY <4>1, <4>2
    <3> QED BY <3>4, <3>5, <2>2
  <2> QED BY <2>3, <2>4
<1>2. ASSUME NEW n \in Nat, NEW m \in Nat, m <= n, NEW f, NEW g, IsF(f, m), IsF(g, n)
      PROVE  f[m] = g[m]
  <2> DEFINE Bad == {i \in 0 .. m : f[i] # g[i]}
  <2>1. CASE Bad # {}
    <3>1. Bad \subseteq Nat
      OBVIOUS
    <3>2. PICK i \in Bad : \A j \in Bad : i <= j
      <4> HIDE DEF Bad
      <4> QED BY <3>1, <2>1, Least
    <3>3. CASE i = 0
      BY <1>2, <3>2, <3>3
    <3>4. CASE i # 0
      <4>1. i-1 \in 0 .. m /\ i-1 \notin Bad
        BY <3>2, <3>4
      <4>2. f[i-1] = g[i-1]
        BY <4>1
      <4>3. f[i] = i * f[i-1] /\ g[i] = i * g[i-1]
        BY <1>2, <3>2, <3>4
      <4> QED BY <4>2, <4>3, <3>2
    <3> QED BY <3>3, <3>4
  <2> QED BY <2>1
<1> DEFINE F == [n \in Nat |-> CHOOSE f : IsF(f, n)]
           h == [n \in Nat |-> F[n][n]]
<1>3. \A n \in Nat : IsF(F[n], n)
  <2> HIDE DEF IsF
  <2> QED BY <1>1
<1>4. ASSUME NEW n \in Nat PROVE h[n] = IF n = 0 THEN 1 ELSE n * h[n-1]
  <2>1. CASE n = 0
    <3>1. F[0][0] = 1
      <4>1. IsF(F[0], 0)
        BY <1>3
      <4> HIDE DEF F
      <4> QED BY <4>1
    <3> HIDE DEF F
    <3> QED BY <3>1, <2>1
  <2>2. CASE n # 0
    <3> HIDE DEF F, IsF
    <3>1. IsF(F[n], n) /\ IsF(F[n-1], n-1) /\ n-1 \in Nat
      <4>1. n-1 \in Nat
        BY <2>2
      <4> QED BY <4>1, <1>3
    <3> USE DEF IsF
    <3>2. IsF(F[n], n) => F[n][n] = n * F[n][n-1]
      BY <2>2
    <3>3. IsF([i \in 0 .. n-1 |-> F[n][i]], n-1)
      <4> DEFINE g == [i \in 0 .. n-1 |-> F[n][i]]
      <4>1. \A i \in 0 .. n-1 :
              i \in 0 .. n /\ (i # 0 => i-1 \in 0 .. n /\ i-1 \in 0 .. n-1)
        BY <3>1
      <4>2. \A i \in 0 .. n-1 : F[n][i] \in Nat
        BY <3>1, <4>1
      <4>3. \A i \in 0 .. n-1 : F[n][i] = IF i = 0 THEN 1 ELSE i * F[n][i-1]
        BY <3>1, <4>1
      <4>4. g \in [0 .. n-1 -> Nat]
        BY <4>2
      <4>5. \A i \in 0 .. n-1 : g[i] = F[n][i] /\ (i # 0 => g[i-1] = F[n][i-1])
        BY <4>1
      <4> HIDE DEF g
      <4>6. \A i \in 0 .. n-1 : g[i] = IF i = 0 THEN 1 ELSE i * g[i-1]
        BY <4>3, <4>5
      <4>7. IsF(g, n-1)
        BY <4>4, <4>6
      <4> QED BY <4>7 DEF g
    <3>4. F[n][n-1] = F[n-1][n-1]
      <4> HIDE DEF IsF
      <4>1. [i \in 0 .. n-1 |-> F[n][i]][n-1] = F[n-1][n-1]
        BY <3>1, <3>3, <1>2
      <4> QED BY <4>1, <3>1
    <3> QED BY <3>1, <3>2, <3>4, <2>2
  <2> QED BY <2>1, <2>2
<1>5. h = [n \in Nat |-> IF n = 0 THEN 1 ELSE n * h[n-1]]
  <2> HIDE DEF F
  <2> QED BY <1>4
<1> HIDE DEF h
<1> QED BY <1>5

\* So that factorial, which is chosen, is such a function.
LEMMA FactorialDef == factorial = [n \in Nat |-> IF n = 0 THEN 1 ELSE n * factorial[n-1]]
  BY FactorialExists, Zenon DEF factorial

\* The recursion, step by step.
LEMMA FactorialStep ==
    /\ factorial[0] = 1
    /\ \A n \in Nat : factorial[n+1] = (n+1) * factorial[n]
  BY FactorialDef

\* No factorial is zero.
LEMMA FactorialPositive == \A n \in Nat : factorial[n] \in Nat \ {0}
<1> DEFINE Bad == {n \in Nat : factorial[n] \notin Nat \ {0}}
<1>1. SUFFICES ASSUME Bad # {} PROVE FALSE
  OBVIOUS
<1>2. PICK n \in Bad : \A m \in Bad : n <= m
  <2>1. Bad \subseteq Nat
    OBVIOUS
  <2> HIDE DEF Bad
  <2> QED BY <1>1, <2>1, Least
<1>3. n # 0
  BY <1>2, FactorialStep
<1>4. n-1 \in Nat /\ n-1 \notin Bad
  <2>1. n \in Nat /\ n-1 \in Nat
    BY <1>2, <1>3
  <2> HIDE DEF Bad
  <2> QED BY <2>1, <1>2
<1>5. factorial[n-1] \in Nat \ {0}
  BY <1>4
<1>6. factorial[n] = n * factorial[n-1]
  BY <1>3, <1>4, FactorialStep
<1>7. n * factorial[n-1] \in Nat \ {0}
  BY <1>2, <1>3, <1>5
<1> QED BY <1>2, <1>6, <1>7

\* One climb has no numbers, and one never leaves 0.
LEMMA CountedBase == \A n \in Nat : Counted(0, n) /\ Counted(n, 0)
<1> TAKE n \in Nat
<1>1. Climbs(0, n) = {[i \in 1 .. 0 |-> 0]}
  <2>1. 1 .. 0 = {}
    OBVIOUS
  <2>2. [i \in 1 .. 0 |-> 0] \in Climbs(0, n)
    BY <2>1 DEF Climbs
  <2>3. ASSUME NEW g \in Climbs(0, n) PROVE g = [i \in 1 .. 0 |-> 0]
    BY <2>1 DEF Climbs
  <2> QED BY <2>2, <2>3
<1>2. Climbs(n, 0) = {[i \in 1 .. n |-> 0]}
  <2>1. [i \in 1 .. n |-> 0] \in Climbs(n, 0)
    BY DEF Climbs
  <2>2. ASSUME NEW g \in Climbs(n, 0) PROVE g = [i \in 1 .. n |-> 0]
    BY DEF Climbs
  <2> QED BY <2>1, <2>2
<1>3. /\ IsFiniteSet(Climbs(0, n)) /\ Cardinality(Climbs(0, n)) = 1
      /\ IsFiniteSet(Climbs(n, 0)) /\ Cardinality(Climbs(n, 0)) = 1
  <2>1. \A x : IsFiniteSet({x}) /\ Cardinality({x}) = 1
    BY FS_Singleton
  <2> QED BY <1>1, <1>2, <2>1
<1>4. factorial[0] = 1 /\ factorial[n] \in Nat
  BY FactorialStep, FactorialPositive
<1> QED BY <1>3, <1>4 DEF Counted

\* A climb ends below k, or it ends with k: Pascal's rule.
LEMMA ClimbsSplit ==
    ASSUME NEW m \in Nat \ {0}, NEW k \in Nat \ {0},
           IsFiniteSet(Climbs(m, k - 1)), IsFiniteSet(Climbs(m - 1, k))
    PROVE  /\ IsFiniteSet(Climbs(m, k))
           /\ Cardinality(Climbs(m, k))
                = Cardinality(Climbs(m, k - 1)) + Cardinality(Climbs(m - 1, k))
<1> DEFINE Top == {g \in Climbs(m, k) : g[m] = k}
           Extend(g) == [i \in 1 .. m |-> IF i = m THEN k ELSE g[i]]
           extend == [g \in Climbs(m - 1, k) |-> Extend(g)]
<1>1. Climbs(m, k) = Climbs(m, k - 1) \cup Top
  <2>1. Climbs(m, k - 1) \subseteq Climbs(m, k)
    BY DEF Climbs
  <2>2. ASSUME NEW g \in Climbs(m, k), g[m] # k PROVE g \in Climbs(m, k - 1)
    <3>1. ASSUME NEW i \in 1 .. m PROVE g[i] \in 0 .. k - 1
      BY <2>2 DEF Climbs
    <3> QED BY <3>1 DEF Climbs
  <2> QED BY <2>1, <2>2
<1>2. Climbs(m, k - 1) \cap Top = {}
  BY DEF Climbs
<1>3. ASSUME NEW g \in Climbs(m - 1, k) PROVE Extend(g) \in Top
  <2>1. \A i \in 1 .. m : i # m => i \in 1 .. m - 1
    OBVIOUS
  <2>2. g \in [1 .. m - 1 -> 0 .. k]
    BY DEF Climbs
  <2>3. \A i \in 1 .. m : Extend(g)[i] \in 0 .. k
    BY <2>1, <2>2
  <2>4. Extend(g) \in [1 .. m -> 0 .. k]
    BY <2>3
  <2>5. ASSUME NEW i \in 1 .. m, NEW j \in 1 .. m, i <= j
        PROVE  Extend(g)[i] <= Extend(g)[j]
    <3>1. CASE j = m
      BY <2>3, <3>1
    <3>2. CASE j # m
      <4>1. i \in 1 .. m - 1 /\ j \in 1 .. m - 1
        BY <2>5, <3>2
      <4>2. g[i] <= g[j]
        BY <4>1, <2>5 DEF Climbs
      <4> QED BY <4>1, <4>2
    <3> QED BY <3>1, <3>2
  <2>6. Extend(g)[m] = k
    OBVIOUS
  <2> HIDE DEF Extend
  <2> QED BY <2>4, <2>5, <2>6 DEF Climbs
<1>4. ASSUME NEW g \in Climbs(m - 1, k), NEW h \in Climbs(m - 1, k),
             Extend(g) = Extend(h)
      PROVE  g = h
  <2>1. ASSUME NEW i \in 1 .. m - 1 PROVE g[i] = h[i]
    <3>1. i \in 1 .. m /\ i # m
      OBVIOUS
    <3>2. Extend(g)[i] = g[i] /\ Extend(h)[i] = h[i]
      BY <3>1
    <3> QED BY <3>2, <1>4
  <2> QED BY <2>1 DEF Climbs
<1>5. ASSUME NEW h \in Top PROVE \E g \in Climbs(m - 1, k) : Extend(g) = h
  <2> DEFINE g == [i \in 1 .. m - 1 |-> h[i]]
  <2>1. h \in [1 .. m -> 0 .. k] /\ h[m] = k
    BY DEF Climbs
  <2>2. g \in Climbs(m - 1, k)
    BY <2>1 DEF Climbs
  <2>3. Extend(g) = h
    <3>1. \A i \in 1 .. m : i # m => i \in 1 .. m - 1
      OBVIOUS
    <3>2. \A i \in 1 .. m : Extend(g)[i] = h[i]
      BY <2>1, <3>1
    <3> QED BY <2>1, <3>2
  <2> HIDE DEF g
  <2> QED BY <2>2, <2>3
<1>6. ExistsBijection(Climbs(m - 1, k), Top)
  <2> HIDE DEF Extend, Top
  <2>1. extend \in [Climbs(m - 1, k) -> Top]
    BY <1>3
  <2>2. \A g, h \in Climbs(m - 1, k) : extend[g] = extend[h] => g = h
    BY <1>4
  <2>3. \A h \in Top : \E g \in Climbs(m - 1, k) : extend[g] = h
    BY <1>5
  <2> HIDE DEF extend
  <2> QED
    BY <2>1, <2>2, <2>3 DEF ExistsBijection, Bijection, Injection, Surjection,
       IsInjective
<1>7. IsFiniteSet(Top) /\ Cardinality(Top) = Cardinality(Climbs(m - 1, k))
  <2> HIDE DEF Top
  <2> QED BY <1>6, FS_Bijection
<1> HIDE DEF Top
<1>8. /\ IsFiniteSet(Climbs(m, k - 1) \cup Top)
      /\ Cardinality(Climbs(m, k - 1) \cup Top) =
           Cardinality(Climbs(m, k - 1)) + Cardinality(Top)
             - Cardinality(Climbs(m, k - 1) \cap Top)
  BY <1>7, FS_Union
<1>9. Cardinality(Climbs(m, k - 1) \cap Top) = 0
  BY <1>2, FS_EmptySet
<1>10. Cardinality(Climbs(m, k - 1)) \in Nat /\ Cardinality(Top) \in Nat
  BY <1>7, FS_CardinalityType
<1> QED BY <1>1, <1>7, <1>8, <1>9, <1>10

\* The same rule for the count.
LEMMA CountedStep ==
    ASSUME NEW m \in Nat \ {0}, NEW k \in Nat \ {0},
           Counted(m, k - 1), Counted(m - 1, k)
    PROVE  Counted(m, k)
<1>1. /\ IsFiniteSet(Climbs(m, k))
      /\ Cardinality(Climbs(m, k))
           = Cardinality(Climbs(m, k - 1)) + Cardinality(Climbs(m - 1, k))
  BY ClimbsSplit DEF Counted
<1> DEFINE a == Cardinality(Climbs(m, k - 1))
           b == Cardinality(Climbs(m - 1, k))
           km == factorial[k - 1]
           mm == factorial[m - 1]
           all == factorial[m + k - 1]
<1>2. a \in Nat /\ b \in Nat
  BY FS_CardinalityType DEF Counted
<1>3. km \in Nat /\ mm \in Nat /\ all \in Nat
  <2>1. k - 1 \in Nat /\ m - 1 \in Nat /\ m + k - 1 \in Nat
    OBVIOUS
  <2> QED BY <2>1, FactorialPositive
<1>4. /\ factorial[k] = k * km
      /\ factorial[m] = m * mm
      /\ factorial[m + k] = (m + k) * all
  <2>1. /\ k - 1 \in Nat /\ (k - 1) + 1 = k
        /\ m - 1 \in Nat /\ (m - 1) + 1 = m
        /\ m + k - 1 \in Nat /\ (m + k - 1) + 1 = m + k
    OBVIOUS
  <2> QED BY <2>1, FactorialStep
<1>5. m + (k - 1) = m + k - 1 /\ (m - 1) + k = m + k - 1
  OBVIOUS
<1>6. a * (km * (m * mm)) = all /\ b * ((k * km) * mm) = all
  BY <1>4, <1>5 DEF Counted
<1> HIDE DEF a, b, km, mm, all
<1>7. (a + b) * ((k * km) * (m * mm)) = (m + k) * all
  <2>1. (a + b) * ((k * km) * (m * mm))
          = k * (a * (km * (m * mm))) + m * (b * ((k * km) * mm))
    BY <1>2, <1>3
  <2>2. k * all + m * all = (m + k) * all
    BY <1>3
  <2> QED BY <1>6, <2>1, <2>2
<1> QED BY <1>1, <1>4, <1>7 DEF Counted, a, b

\* By induction on m + k.
LEMMA CountedAll == \A m, k \in Nat : Counted(m, k)
<1> DEFINE Bad == {n \in Nat : \E m, k \in Nat : m + k = n /\ ~ Counted(m, k)}
<1>1. SUFFICES ASSUME Bad # {} PROVE FALSE
  <2> TAKE m, k \in Nat
  <2>1. m + k \in Nat
    OBVIOUS
  <2>2. m + k \notin Bad
    <3> HIDE DEF Bad
    <3> QED BY <1>1
  <2> QED BY <2>1, <2>2
<1>2. PICK n \in Bad : \A i \in Bad : n <= i
  <2>1. Bad \subseteq Nat
    OBVIOUS
  <2> HIDE DEF Bad
  <2> QED BY <1>1, <2>1, Least
<1>3. PICK m \in Nat, k \in Nat : m + k = n /\ ~ Counted(m, k)
  BY <1>2
<1>4. m # 0 /\ k # 0
  BY <1>3, CountedBase
<1>5. m + (k - 1) \notin Bad /\ (m - 1) + k \notin Bad
  <2>1. m + (k - 1) < n /\ (m - 1) + k < n /\ n \in Nat
    BY <1>3, <1>4
  <2> HIDE DEF Bad
  <2> QED BY <2>1, <1>2, <1>3
<1>6. Counted(m, k - 1) /\ Counted(m - 1, k)
  <2>1. /\ m \in Nat /\ k - 1 \in Nat /\ m + (k - 1) \in Nat
        /\ m - 1 \in Nat /\ k \in Nat /\ (m - 1) + k \in Nat
    BY <1>3, <1>4
  <2> QED BY <2>1, <1>5
<1> QED BY <1>3, <1>4, <1>6, CountedStep

\* There are (m+k choose k) climbs.
THEOREM ClimbsCount ==
    ASSUME NEW m \in Nat, NEW k \in Nat
    PROVE  /\ IsFiniteSet(Climbs(m, k))
           /\ Cardinality(Climbs(m, k)) = choose(m + k, k)
<1>1. /\ IsFiniteSet(Climbs(m, k))
      /\ Cardinality(Climbs(m, k)) * (factorial[k] * factorial[m]) = factorial[m + k]
  BY CountedAll DEF Counted
<1> DEFINE c == Cardinality(Climbs(m, k))
           p == factorial[k] * factorial[m]
<1>2. c \in Nat
  BY <1>1, FS_CardinalityType
<1>3. p \in Nat /\ p > 0
  BY FactorialPositive
<1>4. (m + k) - k = m
  OBVIOUS
<1>5. choose(m + k, k) = (c * p) \div p
  BY <1>1, <1>4 DEF choose
<1> HIDE DEF c, p
<1>6. (c * p) \div p = c
  BY <1>2, <1>3
<1> QED BY <1>1, <1>5, <1>6 DEF c

----------------------------------------------------------------------------
(* Profiles.                                                               *)

\* How many members of R have a value below i, for every i up to m.
Profile(value, R, m) == [i \in 1 .. m |-> Cardinality({r \in R : value[r] < i})]

\* Lexicographic order: less at some place, and not more before it.
Below(f, g, m) ==
    \E i \in 1 .. m : f[i] < g[i] /\ \A j \in 1 .. i - 1 : f[j] <= g[j]

\* How many profiles lie above the one of these values.
Spent(value, R, m) ==
    Cardinality({g \in Climbs(m, Cardinality(R)) : Below(Profile(value, R, m), g, m)})

\* A profile is a climb.
LEMMA ProfileClimbs ==
    ASSUME NEW R, IsFiniteSet(R), NEW value \in [R -> Nat], NEW m \in Nat
    PROVE  /\ Cardinality(R) \in Nat
           /\ Profile(value, R, m) \in Climbs(m, Cardinality(R))
<1> DEFINE Under(i) == {r \in R : value[r] < i}
<1>1. Cardinality(R) \in Nat
  BY FS_CardinalityType
<1>2. ASSUME NEW i \in 1 .. m
      PROVE  IsFiniteSet(Under(i)) /\ Cardinality(Under(i)) \in 0 .. Cardinality(R)
  <2>1. Under(i) \in SUBSET R
    OBVIOUS
  <2> HIDE DEF Under
  <2>2. IsFiniteSet(Under(i)) /\ Cardinality(Under(i)) <= Cardinality(R)
    BY <2>1, FS_Subset
  <2>3. Cardinality(Under(i)) \in Nat
    BY <2>2, FS_CardinalityType
  <2> QED BY <1>1, <2>2, <2>3
<1>3. ASSUME NEW i \in 1 .. m, NEW j \in 1 .. m, i <= j
      PROVE  Cardinality(Under(i)) <= Cardinality(Under(j))
  <2>1. Under(i) \in SUBSET Under(j)
    BY <1>3
  <2>2. IsFiniteSet(Under(j))
    BY <1>2
  <2> HIDE DEF Under
  <2> QED BY <2>1, <2>2, FS_Subset
<1>4. Profile(value, R, m) = [i \in 1 .. m |-> Cardinality(Under(i))]
  BY DEF Profile
<1> HIDE DEF Under
<1> QED BY <1>1, <1>2, <1>3, <1>4 DEF Climbs

\* A profile does not lie above itself, so never all of them do.
LEMMA SpentBound ==
    ASSUME NEW R, IsFiniteSet(R), NEW value \in [R -> Nat], NEW m \in Nat
    PROVE  /\ Spent(value, R, m) \in Nat
           /\ choose(m + Cardinality(R), Cardinality(R)) \in Nat
           /\ Spent(value, R, m) < choose(m + Cardinality(R), Cardinality(R))
<1> DEFINE k == Cardinality(R)
           f == Profile(value, R, m)
           Above == {g \in Climbs(m, k) : Below(f, g, m)}
<1>1. k \in Nat /\ f \in Climbs(m, k)
  BY ProfileClimbs
<1>2. f \notin Above
  BY <1>1 DEF Below, Climbs
<1> HIDE DEF k, f
<1>3. IsFiniteSet(Climbs(m, k)) /\ Cardinality(Climbs(m, k)) = choose(m + k, k)
  BY <1>1, ClimbsCount
<1>4. Above \in SUBSET Climbs(m, k)
  OBVIOUS
<1> HIDE DEF Above
<1>5. /\ IsFiniteSet(Above) /\ Cardinality(Above) <= Cardinality(Climbs(m, k))
      /\ Cardinality(Climbs(m, k)) = Cardinality(Above) => Climbs(m, k) = Above
  BY <1>3, <1>4, FS_Subset
<1>6. Cardinality(Above) \in Nat /\ Cardinality(Climbs(m, k)) \in Nat
  BY <1>3, <1>5, FS_CardinalityType
<1>7. Cardinality(Above) < choose(m + k, k)
  BY <1>1, <1>2, <1>3, <1>5, <1>6
<1> QED BY <1>3, <1>6, <1>7 DEF Spent, Above, f, k

\* Where no value falls, the profile does not rise.
LEMMA SpentStays ==
    ASSUME NEW R, IsFiniteSet(R), NEW m \in Nat,
           NEW old \in [R -> Nat], NEW new \in [R -> Nat],
           \A r \in R : old[r] <= new[r]
    PROVE  Spent(old, R, m) <= Spent(new, R, m)
<1> DEFINE k == Cardinality(R)
           Above(f) == {g \in Climbs(m, k) : Below(f, g, m)}
           f == Profile(old, R, m)
           h == Profile(new, R, m)
<1>1. k \in Nat /\ f \in Climbs(m, k) /\ h \in Climbs(m, k)
  BY ProfileClimbs
<1>2. ASSUME NEW i \in 1 .. m PROVE h[i] <= f[i]
  <2>1. {r \in R : new[r] < i} \in SUBSET {r \in R : old[r] < i}
    OBVIOUS
  <2>2. IsFiniteSet({r \in R : old[r] < i})
    BY FS_Subset
  <2>3. Cardinality({r \in R : new[r] < i}) <= Cardinality({r \in R : old[r] < i})
    BY <2>1, <2>2, FS_Subset
  <2> QED BY <2>3 DEF Profile
<1> HIDE DEF f, h
<1>3. Above(f) \in SUBSET Above(h)
  <2>1. ASSUME NEW g \in Climbs(m, k), Below(f, g, m) PROVE Below(h, g, m)
    <3>1. PICK i \in 1 .. m : f[i] < g[i] /\ \A j \in 1 .. i - 1 : f[j] <= g[j]
      BY <2>1 DEF Below
    <3>2. \A j \in 1 .. m : f[j] \in Nat /\ g[j] \in Nat /\ h[j] \in Nat
      BY <1>1 DEF Climbs
    <3>3. h[i] < g[i]
      BY <1>2, <3>1, <3>2
    <3>4. ASSUME NEW j \in 1 .. i - 1 PROVE h[j] <= g[j]
      <4>1. j \in 1 .. m
        OBVIOUS
      <4> QED BY <4>1, <1>2, <3>1, <3>2
    <3> QED BY <3>3, <3>4 DEF Below
  <2> QED BY <2>1
<1>4. IsFiniteSet(Above(h))
  <2>1. IsFiniteSet(Climbs(m, k))
    BY <1>1, ClimbsCount
  <2>2. Above(h) \in SUBSET Climbs(m, k)
    OBVIOUS
  <2> HIDE DEF Above
  <2> QED BY <2>1, <2>2, FS_Subset
<1>5. Cardinality(Above(f)) <= Cardinality(Above(h))
  <2> HIDE DEF Above
  <2> QED BY <1>3, <1>4, FS_Subset
<1> QED BY <1>5 DEF Spent, f, h

\* Where one value passes v, and none that was above v falls to v or below,
\* the profile falls.
LEMMA SpentGrows ==
    ASSUME NEW R, IsFiniteSet(R), NEW m \in Nat,
           NEW old \in [R -> Nat], NEW new \in [R -> Nat],
           NEW w \in R, NEW v \in 0 .. m - 1, old[w] <= v, new[w] > v,
           \A r \in R : \A i \in 1 .. v + 1 : new[r] < i => old[r] < i
    PROVE  Spent(old, R, m) + 1 <= Spent(new, R, m)
<1> DEFINE k == Cardinality(R)
           Above(f) == {g \in Climbs(m, k) : Below(f, g, m)}
           f == Profile(old, R, m)
           h == Profile(new, R, m)
<1>1. k \in Nat /\ f \in Climbs(m, k) /\ h \in Climbs(m, k)
  BY ProfileClimbs
<1>2. \A j \in 1 .. m : f[j] \in Nat /\ h[j] \in Nat
  <2> HIDE DEF f, h
  <2> QED BY <1>1 DEF Climbs
<1>3. ASSUME NEW i \in 1 .. v + 1 PROVE i \in 1 .. m /\ h[i] <= f[i]
  <2>1. {r \in R : new[r] < i} \in SUBSET {r \in R : old[r] < i}
    OBVIOUS
  <2>2. IsFiniteSet({r \in R : old[r] < i})
    BY FS_Subset
  <2>3. Cardinality({r \in R : new[r] < i}) <= Cardinality({r \in R : old[r] < i})
    BY <2>1, <2>2, FS_Subset
  <2>4. i \in 1 .. m
    OBVIOUS
  <2> QED BY <2>3, <2>4 DEF Profile
<1>4. h[v + 1] < f[v + 1]
  <2> DEFINE O == {r \in R : old[r] < v + 1}
             N == {r \in R : new[r] < v + 1}
  <2>1. N \in SUBSET O /\ w \in O /\ w \notin N
    <3>1. v + 1 \in 1 .. v + 1
      OBVIOUS
    <3> QED BY <3>1
  <2>2. O \in SUBSET R
    OBVIOUS
  <2>3. v + 1 \in 1 .. m
    OBVIOUS
  <2>4. f[v + 1] = Cardinality(O) /\ h[v + 1] = Cardinality(N)
    BY <2>3 DEF Profile
  <2> HIDE DEF O, N
  <2>5. IsFiniteSet(O)
    BY <2>2, FS_Subset
  <2>6. IsFiniteSet(N) /\ Cardinality(N) <= Cardinality(O)
          /\ (Cardinality(O) = Cardinality(N) => O = N)
    BY <2>1, <2>5, FS_Subset
  <2>7. Cardinality(N) \in Nat /\ Cardinality(O) \in Nat
    BY <2>5, <2>6, FS_CardinalityType
  <2>8. Cardinality(N) < Cardinality(O)
    BY <2>1, <2>6, <2>7
  <2> QED BY <2>4, <2>8
<1> HIDE DEF f, h
<1>5. Below(h, f, m)
  <2>1. v + 1 \in 1 .. m
    OBVIOUS
  <2>2. \A j \in 1 .. (v + 1) - 1 : h[j] <= f[j]
    BY <1>3
  <2> QED BY <1>4, <2>1, <2>2 DEF Below
<1>6. ASSUME NEW g \in Climbs(m, k), Below(f, g, m) PROVE Below(h, g, m)
  <2>1. PICK i \in 1 .. m : f[i] < g[i] /\ \A j \in 1 .. i - 1 : f[j] <= g[j]
    BY <1>6 DEF Below
  <2>2. \A j \in 1 .. m : g[j] \in Nat
    BY DEF Climbs
  <2>3. CASE i <= v + 1
    <3>1. h[i] < g[i]
      BY <1>2, <1>3, <2>1, <2>2, <2>3
    <3>2. \A j \in 1 .. i - 1 : h[j] <= g[j]
      <4> TAKE j \in 1 .. i - 1
      <4>1. j \in 1 .. v + 1 /\ j \in 1 .. m
        BY <2>3
      <4> QED BY <1>2, <1>3, <2>1, <2>2, <4>1
    <3> QED BY <3>1, <3>2 DEF Below
  <2>4. CASE i > v + 1
    <3>1. v + 1 \in 1 .. i - 1 /\ v + 1 \in 1 .. m
      BY <2>4
    <3>2. h[v + 1] < g[v + 1]
      BY <1>2, <1>4, <2>1, <2>2, <3>1
    <3>3. \A j \in 1 .. (v + 1) - 1 : h[j] <= g[j]
      <4> TAKE j \in 1 .. (v + 1) - 1
      <4>1. j \in 1 .. v + 1 /\ j \in 1 .. m /\ j \in 1 .. i - 1
        BY <2>4
      <4> QED BY <1>2, <1>3, <2>1, <2>2, <4>1
    <3> QED BY <3>1, <3>2, <3>3 DEF Below
  <2> QED BY <2>3, <2>4
<1>7. ~ Below(f, f, m)
  BY <1>2 DEF Below
<1>8. /\ f \notin Above(f)
      /\ Above(f) \cup {f} \in SUBSET Above(h)
      /\ Above(f) \in SUBSET Climbs(m, k)
      /\ Above(h) \in SUBSET Climbs(m, k)
  BY <1>1, <1>5, <1>6, <1>7
<1>9. IsFiniteSet(Climbs(m, k))
  BY <1>1, ClimbsCount
<1> HIDE DEF Above, k
<1>10. IsFiniteSet(Above(f)) /\ IsFiniteSet(Above(h))
  BY <1>8, <1>9, FS_Subset
<1>11. Cardinality(Above(f) \cup {f}) = Cardinality(Above(f)) + 1
  BY <1>8, <1>10, FS_AddElement
<1>12. Cardinality(Above(f) \cup {f}) <= Cardinality(Above(h))
  BY <1>8, <1>10, FS_Subset
<1> QED BY <1>11, <1>12 DEF Spent, Above, f, h, k

----------------------------------------------------------------------------
(* The counter c, and the requests P that have read it and will write.     *)

\* What each request is worth.
Worth(R, P, read, c) == [r \in R |-> IF r \in P /\ read[r] < c THEN read[r] ELSE c]

\* Worths are numbers.
LEMMA WorthType ==
    ASSUME NEW R, NEW P, NEW read \in [R -> Nat], NEW c \in Nat
    PROVE  Worth(R, P, read, c) \in [R -> Nat]
  BY DEF Worth

\* Requests that read the counter as it is, or give up, spend nothing.
LEMMA ReadSpendsNothing ==
    ASSUME NEW R, IsFiniteSet(R), NEW m \in Nat, NEW c \in Nat,
           NEW P, NEW read \in [R -> Nat], NEW P2, NEW read2 \in [R -> Nat],
           \A r \in R : r \in P2 => read2[r] = c \/ (r \in P /\ read2[r] = read[r])
    PROVE  Spent(Worth(R, P, read, c), R, m) <= Spent(Worth(R, P2, read2, c), R, m)
<1>1. \A r \in R : Worth(R, P, read, c)[r] <= Worth(R, P2, read2, c)[r]
  BY DEF Worth
<1> QED BY <1>1, WorthType, SpentStays

\* A write below m, of one more than was read, spends one.
LEMMA WriteSpendsOne ==
    ASSUME NEW R, IsFiniteSet(R), NEW m \in Nat, NEW c \in Nat,
           NEW P, NEW read \in [R -> Nat], NEW P2, NEW read2 \in [R -> Nat],
           NEW w \in R, w \in P, w \notin P2, read[w] < m,
           \A r \in R : r \in P2 => r \in P /\ read2[r] = read[r]
    PROVE  Spent(Worth(R, P, read, c), R, m) + 1
             <= Spent(Worth(R, P2, read2, read[w] + 1), R, m)
<1> DEFINE old == Worth(R, P, read, c)
           new == Worth(R, P2, read2, read[w] + 1)
<1>1. old \in [R -> Nat] /\ new \in [R -> Nat] /\ read[w] \in 0 .. m - 1
  BY WorthType
<1>2. old[w] <= read[w] /\ new[w] > read[w]
  BY DEF Worth
<1>3. ASSUME NEW r \in R, NEW i \in 1 .. read[w] + 1, new[r] < i
      PROVE  old[r] < i
  BY <1>3 DEF Worth
<1> HIDE DEF old, new
<1>4. Spent(old, R, m) + 1 <= Spent(new, R, m)
  BY <1>1, <1>2, <1>3, SpentGrows
<1> QED BY <1>4 DEF old, new

=============================================================================
