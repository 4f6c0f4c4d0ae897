---------------------------- MODULE NaturalFacts ----------------------------
(***************************************************************************)
(* What the proofs need to know of the natural numbers, stated of sets and *)
(* functions: every nonempty set of them has a least element, a bounded    *)
(* one a greatest; induction; definition by recursion, over numbers and    *)
(* over the subsets of a finite set; and the powers of two.  The library   *)
(* states them with an operator as a parameter, which the provers here     *)
(* cannot instantiate; but for its well-foundedness of the numbers and its *)
(* facts about finite sets they are proved below.                          *)
(***************************************************************************)
EXTENDS Integers, FiniteSets, Functions, FiniteSetTheorems, WellFoundedInduction,
        TLAPS

\* The order of the natural numbers is well founded.
LEMMA LessThanWellFounded ==
    IsWellFoundedOn({ss \in Nat \X Nat : ss[1] < ss[2]}, Nat)
BY NatLessThanWellFounded DEF OpToRel

\* Every nonempty set of numbers has a least element.
LEMMA LeastNumber ==
    ASSUME NEW S, S \subseteq Nat, S # {}
    PROVE  \E n \in S : \A m \in S : n <= m
<1> DEFINE R == {ss \in Nat \X Nat : ss[1] < ss[2]}
<1>1. IsWellFoundedOn(R, Nat)
  BY LessThanWellFounded
<1>2. \A x, y \in Nat : <<y, x>> \in R <=> y < x
  OBVIOUS
<1> HIDE DEF R
<1>3. PICK n \in S : \A m \in S : ~ (<<m, n>> \in R)
  BY <1>1, WFMin
<1>4. ASSUME NEW m \in S
      PROVE  n <= m
  <2>1. n \in Nat /\ m \in Nat /\ ~(m < n)
    BY <1>2, <1>3
  <2> QED BY <2>1
<1> QED BY <1>3, <1>4

\* Every nonempty bounded set of numbers has a greatest element.
LEMMA GreatestNumber ==
    ASSUME NEW n \in Nat, NEW S, S \subseteq 0 .. n, S # {}
    PROVE  \E m \in S : \A k \in S : k <= m
<1> DEFINE T == {t \in 0 .. n : \E k \in S : t = n - k}
<1>1. T # {}
  <2>1. PICK k \in S : TRUE
    OBVIOUS
  <2>2. k \in 0 .. n /\ n - k \in 0 .. n
    OBVIOUS
  <2>3. n - k \in T
    BY <2>2
  <2> QED BY <2>3
<1>2. PICK t \in T : \A u \in T : t <= u
  <2>1. T \subseteq Nat
    OBVIOUS
  <2> HIDE DEF T
  <2> QED BY <1>1, <2>1, LeastNumber
<1>3. PICK m \in S : t = n - m
  OBVIOUS
<1>4. ASSUME NEW k \in S
      PROVE  k <= m
  <2>1. k \in 0 .. n /\ m \in 0 .. n /\ n - k \in 0 .. n
    OBVIOUS
  <2>2. n - k \in T
    BY <2>1
  <2>3. n - m <= n - k
    BY <1>2, <1>3, <2>2
  <2> QED BY <2>1, <2>3
<1> QED BY <1>4

\* Induction, stated of a set: one that holds 0 and with every number the next
\* one, up to m, holds the numbers up to m.
LEMMA SetInduction ==
    ASSUME NEW m \in Nat, NEW S, 0 \in S,
           \A n \in 1 .. m : n - 1 \in S => n \in S
    PROVE  0 .. m \subseteq S
<1> DEFINE T == (0 .. m) \ S
<1>1. SUFFICES ASSUME T # {} PROVE FALSE
  OBVIOUS
<1>2. PICK n \in T : \A k \in T : n <= k
  <2>1. T \subseteq Nat
    OBVIOUS
  <2> HIDE DEF T
  <2> QED BY <1>1, <2>1, LeastNumber
<1>3. n \in 1 .. m /\ n - 1 \in 0 .. m /\ n \notin S /\ ~(n <= n - 1)
  BY <1>2
<1>4. n - 1 \in S
  BY <1>2, <1>3
<1> QED BY <1>3, <1>4

\* There is a sequence of values with a given first one, each the given
\* function of the one before.
LEMMA Recursion ==
    ASSUME NEW m \in Nat, NEW S, NEW first \in S, NEW next \in [1 .. m -> [S -> S]]
    PROVE  \E g \in [0 .. m -> S] :
              /\ g[0] = first
              /\ \A n \in 1 .. m : g[n] = next[n][g[n - 1]]
<1> DEFINE Upto(n, g) == /\ g \in [0 .. n -> S]
                         /\ g[0] = first
                         /\ \A k \in 1 .. n : g[k] = next[k][g[k - 1]]
           Have == {n \in 0 .. m : \E g : Upto(n, g)}
<1>1. 0 \in Have
  <2>1. Upto(0, [k \in 0 .. 0 |-> first])
    OBVIOUS
  <2>2. 0 \in 0 .. m
    OBVIOUS
  <2> HIDE DEF Upto
  <2> QED BY <2>1, <2>2
<1>2. ASSUME NEW n \in 1 .. m, n - 1 \in Have
      PROVE  n \in Have
  <2>1. PICK g : Upto(n - 1, g)
    BY <1>2
  <2> DEFINE h == [k \in 0 .. n |-> IF k = n THEN next[n][g[n - 1]] ELSE g[k]]
  <2>2. n \in Nat /\ n - 1 \in 0 .. (n - 1) /\ n # 0
    OBVIOUS
  <2>3. next[n][g[n - 1]] \in S
    BY <2>1, <2>2
  <2>4. h \in [0 .. n -> S]
    BY <2>1, <2>2, <2>3
  <2>5. h[0] = first
    BY <2>1, <2>2
  <2>6. ASSUME NEW k \in 1 .. n
        PROVE  h[k] = next[k][h[k - 1]]
    <3>1. k \in 0 .. n /\ k - 1 \in 0 .. n /\ k - 1 # n
      BY <2>2
    <3>2. h[k - 1] = g[k - 1]
      BY <3>1
    <3>3. CASE k = n
      BY <3>1, <3>2, <3>3
    <3>4. CASE k # n
      <4>1. k \in 1 .. (n - 1)
        BY <2>2, <3>4
      <4>2. g[k] = next[k][g[k - 1]]
        BY <2>1, <4>1
      <4> QED BY <3>1, <3>2, <3>4, <4>2
    <3> QED BY <3>3, <3>4
  <2>7. Upto(n, h)
    <3> HIDE DEF h
    <3> QED BY <2>4, <2>5, <2>6
  <2>8. n \in 0 .. m
    OBVIOUS
  <2> HIDE DEF Upto, h
  <2> QED BY <2>7, <2>8
<1>3. m \in Have
  <2> HIDE DEF Have
  <2>1. 0 .. m \subseteq Have
    BY <1>1, <1>2, SetInduction
  <2> QED BY <2>1
<1> QED BY <1>3

\* A function of the subsets of a finite set is given by its value for the empty
\* one and by how the value of another follows from that of the set without the
\* element that is taken from it last.
LEMMA SubsetRecursion ==
    ASSUME NEW R, IsFiniteSet(R), NEW V, NEW base \in V,
           NEW last \in [(SUBSET R) \ {{}} -> R],
           \A T \in (SUBSET R) \ {{}} : last[T] \in T,
           NEW then \in [R -> [V -> V]]
    PROVE  \E g \in [SUBSET R -> V] :
              /\ g[{}] = base
              /\ \A T \in (SUBSET R) \ {{}} :
                    g[T] = then[last[T]][g[T \ {last[T]}]]
<1> DEFINE m == Cardinality(R)
           F == [SUBSET R -> V]
           start == [T \in SUBSET R |-> base]
           Then(f) == [T \in SUBSET R |->
                          IF T = {} THEN base ELSE then[last[T]][f[T \ {last[T]}]]]
           step == [n \in 1 .. m |-> [f \in F |-> Then(f)]]
<1>1. m \in Nat
  BY FS_CardinalityType
<1>2. start \in F
  OBVIOUS
<1>3. ASSUME NEW f \in F
      PROVE  Then(f) \in F
  <2>1. ASSUME NEW T \in SUBSET R, T # {}
        PROVE  then[last[T]][f[T \ {last[T]}]] \in V
    <3>1. last[T] \in R /\ T \ {last[T]} \in SUBSET R
      BY <2>1
    <3>2. f[T \ {last[T]}] \in V
      BY <3>1
    <3> QED BY <3>1, <3>2
  <2> QED BY <2>1
<1>4. step \in [1 .. m -> [F -> F]]
  <2> HIDE DEF Then, F, m
  <2> QED BY <1>3
<1>5. PICK h \in [0 .. m -> F] :
              /\ h[0] = start
              /\ \A n \in 1 .. m : h[n] = step[n][h[n - 1]]
  <2> DEFINE Steps(X) == [1 .. m -> [X -> X]]
             Made(X, f, s) == \E h \in [0 .. m -> X] :
                                 h[0] = f /\ \A n \in 1 .. m : h[n] = s[n][h[n - 1]]
  <2> HIDE DEF m, F, start, Then, step
  <2>1. \A X : \A f \in X : \A s \in Steps(X) : Made(X, f, s)
    BY <1>1, Recursion
  <2>2. start \in F /\ step \in Steps(F)
    BY <1>2, <1>4, Zenon
  <2> HIDE DEF Steps, Made
  <2>3. Made(F, start, step)
    BY <2>1, <2>2
  <2> QED BY <2>3 DEF Made
<1>6. \A T \in SUBSET R : Cardinality(T) \in 0 .. m
  <2>1. ASSUME NEW T \in SUBSET R
        PROVE  Cardinality(T) \in 0 .. m
    <3>1. IsFiniteSet(T) /\ Cardinality(T) <= m
      BY FS_Subset
    <3>2. Cardinality(T) \in Nat
      BY <3>1, FS_CardinalityType
    <3> QED BY <1>1, <3>1, <3>2
  <2> QED BY <2>1
<1> DEFINE g == [T \in SUBSET R |-> h[Cardinality(T)][T]]
<1>7. g \in [SUBSET R -> V]
  <2>1. \A T \in SUBSET R : h[Cardinality(T)] \in F
    <3> HIDE DEF F, m
    <3> QED BY <1>5, <1>6
  <2>2. \A T \in SUBSET R : h[Cardinality(T)][T] \in V
    BY <2>1
  <2> QED BY <2>2
<1>8. g[{}] = base
  <2>1. Cardinality({}) = 0 /\ {} \in SUBSET R
    BY FS_EmptySet
  <2>2. g[{}] = start[{}]
    BY <1>5, <2>1
  <2> QED BY <2>1, <2>2
<1>9. ASSUME NEW T \in (SUBSET R) \ {{}}
      PROVE  g[T] = then[last[T]][g[T \ {last[T]}]]
  <2> DEFINE n == Cardinality(T)
             U == T \ {last[T]}
  <2>1. IsFiniteSet(T) /\ T \in SUBSET R /\ last[T] \in T /\ U \in SUBSET R /\ T # {}
    BY FS_Subset
  <2>2. n \in 0 .. m /\ Cardinality(U) = n - 1 /\ Cardinality(U) \in 0 .. m
    <3>1. Cardinality(U) = n - 1
      <4> DEFINE x == last[T]
      <4>1. x \in T /\ U = T \ {x}
        BY <2>1
      <4> HIDE DEF x, U
      <4>2. Cardinality(T \ {x}) = Cardinality(T) - 1
        BY <2>1, <4>1, FS_RemoveElement
      <4> QED BY <4>1, <4>2
    <3>2. n \in 0 .. m /\ Cardinality(U) \in 0 .. m
      <4> HIDE DEF U, m
      <4> QED BY <1>6, <2>1
    <3> QED BY <3>1, <3>2
  <2>3. n \in 1 .. m /\ n - 1 \in 0 .. m
    BY <1>1, <2>2
  <2>4. h[n - 1] \in F
    <3> HIDE DEF F, m, n
    <3> QED BY <1>5, <2>3
  <2>5. h[n] = Then(h[n - 1])
    <3> HIDE DEF F, m, n, Then
    <3>1. h[n] = step[n][h[n - 1]]
      BY <1>5, <2>3
    <3> QED BY <2>3, <2>4, <3>1
  <2>6. Then(h[n - 1])[T] = then[last[T]][h[n - 1][U]]
    BY <2>1
  <2>7. g[U] = h[n - 1][U]
    BY <2>1, <2>2
  <2>8. g[T] = h[n][T]
    BY <2>1
  <2> HIDE DEF g, n, U, Then
  <2> QED BY <2>5, <2>6, <2>7, <2>8 DEF U
<1> HIDE DEF g
<1> QED BY <1>7, <1>8, <1>9

\* Powers of two are numbers, and double: how many subsets 1 .. n has.
LEMMA PowerOfTwo ==
    ASSUME NEW n \in Nat
    PROVE  2 ^ n \in Nat \ {0}
<1>1. IsFiniteSet(1 .. n) /\ Cardinality(1 .. n) = n
  BY FS_Interval
<1>2. IsFiniteSet(SUBSET (1 .. n)) /\ Cardinality(SUBSET (1 .. n)) = 2 ^ n
  BY <1>1, FS_SUBSET
<1>3. Cardinality(SUBSET (1 .. n)) \in Nat
  BY <1>2, FS_CardinalityType
<1>4. Cardinality(SUBSET (1 .. n)) # 0
  BY <1>2, FS_EmptySet
<1> QED BY <1>2, <1>3, <1>4

\* The first is one.
LEMMA FirstPower == 2 ^ 0 = 1
<1>1. Cardinality(SUBSET {}) = 2 ^ 0
  BY FS_EmptySet, FS_SUBSET
<1>2. SUBSET {} = {{}}
  OBVIOUS
<1> QED BY <1>1, <1>2, FS_Singleton

\* Every other is twice the one before.
LEMMA NextPower ==
    ASSUME NEW n \in Nat
    PROVE  2 ^ (n + 1) = 2 * 2 ^ n
<1> DEFINE A == SUBSET (1 .. n)
           B == {s \cup {n + 1} : s \in A}
           f == [s \in A |-> s \cup {n + 1}]
<1>1. IsFiniteSet(1 .. n) /\ Cardinality(1 .. n) = n
  BY FS_Interval
<1>2. IsFiniteSet(1 .. (n + 1)) /\ Cardinality(1 .. (n + 1)) = n + 1
  BY FS_Interval
<1>3. IsFiniteSet(A) /\ Cardinality(A) = 2 ^ n
  BY <1>1, FS_SUBSET
<1>4. Cardinality(SUBSET (1 .. (n + 1))) = 2 ^ (n + 1)
  BY <1>2, FS_SUBSET
<1>5. n + 1 \notin 1 .. n
  OBVIOUS
<1>6. 1 .. (n + 1) = (1 .. n) \cup {n + 1}
  OBVIOUS
<1>7. SUBSET (1 .. (n + 1)) = A \cup B
  <2>1. ASSUME NEW s \in SUBSET (1 .. (n + 1)), n + 1 \in s
        PROVE  s \in B
    <3>1. s \ {n + 1} \in A
      BY <1>6
    <3>2. s = (s \ {n + 1}) \cup {n + 1}
      BY <2>1
    <3> QED BY <3>1, <3>2
  <2>2. ASSUME NEW s \in SUBSET (1 .. (n + 1)), n + 1 \notin s
        PROVE  s \in A
    BY <1>6, <2>2
  <2>3. A \cup B \subseteq SUBSET (1 .. (n + 1))
    BY <1>6
  <2> QED BY <2>1, <2>2, <2>3
<1>8. A \cap B = {}
  BY <1>5
<1>9. f \in Bijection(A, B)
  <2>1. f \in Surjection(A, B)
    BY DEF Surjection
  <2>2. ASSUME NEW s \in A, NEW t \in A, f[s] = f[t]
        PROVE  s = t
    <3>1. s = f[s] \ {n + 1} /\ t = f[t] \ {n + 1}
      BY <1>5
    <3> QED BY <2>2, <3>1
  <2>3. f \in Injection(A, B)
    BY <2>1, <2>2 DEF Surjection, Injection, IsInjective
  <2> QED BY <2>1, <2>3 DEF Bijection
<1> HIDE DEF A, B, f
<1>10. IsFiniteSet(B) /\ Cardinality(B) = 2 ^ n
  BY <1>3, <1>9, FS_Bijection DEF ExistsBijection
<1>11. Cardinality(A \cup B) = 2 ^ n + 2 ^ n - Cardinality(A \cap B)
  BY <1>3, <1>10, FS_Union
<1>12. Cardinality(A \cap B) = 0
  BY <1>8, FS_EmptySet
<1>13. 2 ^ n \in Nat
  BY PowerOfTwo
<1>14. \A k \in Nat : k + k - 0 = 2 * k
  OBVIOUS
<1>15. 2 ^ n + 2 ^ n - 0 = 2 * 2 ^ n
  BY <1>13, <1>14
<1>16. 2 ^ (n + 1) = 2 ^ n + 2 ^ n - 0
  BY <1>4, <1>7, <1>11, <1>12, Zenon
<1> QED BY <1>15, <1>16, Zenon
=============================================================================
