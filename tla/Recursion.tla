----------------------------- MODULE Recursion -----------------------------
(***************************************************************************)
(* Induction on the natural numbers, the least and the greatest element of *)
(* a set of them, and functions defined by recursion, stated of sets and   *)
(* functions, so that the facts can be cited for any of them.  They give   *)
(* the recursive functions and folds of the modules their values.          *)
(***************************************************************************)
EXTENDS Integers, FiniteSetsExt, WellFoundedInduction, TLAPS

(* The relation < is well founded on the natural numbers. *)
LEMMA LessIsWellFounded ==
  \E R : IsWellFoundedOn(R, Nat) /\ \A x, y \in Nat : <<x, y>> \in R <=> x < y
<1> WITNESS OpToRel(<, Nat)
<1>1. IsWellFoundedOn(OpToRel(<, Nat), Nat)  BY NatLessThanWellFounded
<1>2. \A x, y \in Nat : <<x, y>> \in OpToRel(<, Nat) <=> x < y  BY DEF OpToRel
<1> QED  BY Zenon, <1>1, <1>2

(* A set of natural numbers has a least one. *)
LEMMA LeastExists ==
  ASSUME NEW T, T \subseteq Nat, T # {}
  PROVE  \E m \in T : \A k \in T : m <= k
<1>1. \A R : IsWellFoundedOn(R, Nat) => \E x \in T : \A y \in T : ~ (<<y, x>> \in R)
  <2> TAKE R
  <2> HAVE IsWellFoundedOn(R, Nat)
  <2> QED  BY WFMin
<1>2. PICK x \in T : \A y \in T : ~ (y < x)
  BY ONLY <1>1, LessIsWellFounded, T \subseteq Nat, Zenon
<1>3. ASSUME NEW k \in T PROVE x <= k
  <2>1. ~(k < x)  BY <1>2
  <2> QED  BY ONLY <2>1, x \in T, k \in T, T \subseteq Nat
<1> QED  BY <1>3

(* What holds of 0 and of the successor of each number it holds of. *)
LEMMA Induction ==
  ASSUME NEW P, 0 \in P, \A n \in Nat : n \in P => n + 1 \in P
  PROVE  Nat \subseteq P
<1> SUFFICES ASSUME Nat \ P # {} PROVE FALSE
  OBVIOUS
<1>1. PICK m \in Nat \ P : \A k \in Nat \ P : m <= k
  BY LeastExists
<1>2. m # 0 /\ m - 1 \in Nat
  BY <1>1
<1>3. m - 1 \in P
  BY <1>1, <1>2
<1> QED  BY <1>1, <1>2, <1>3

(* What holds of 0 and passes from each number below n to the next. *)
LEMMA InductionUpTo ==
  ASSUME NEW P, NEW n \in Nat, 0 \in P, \A k \in 0..(n - 1) : k \in P => k + 1 \in P
  PROVE  0..n \subseteq P
<1> DEFINE Q == {k \in Nat : k <= n => k \in P}
<1>1. 0 \in Q /\ \A k \in Nat : k \in Q => k + 1 \in Q
  OBVIOUS
<1> HIDE DEF Q
<1>2. Nat \subseteq Q
  BY <1>1, Induction
<1> QED  BY <1>2 DEF Q

(* Min and Max of a set of numbers *)
LEMMA MinIsLeast ==
  ASSUME NEW T, T \subseteq Nat, T # {}
  PROVE  Min(T) \in T /\ \A k \in T : Min(T) <= k
<1>1. \E m \in T : \A k \in T : m <= k
  BY LeastExists
<1> QED  BY <1>1 DEF Min

(* A set of numbers with a bound has a greatest one. *)
LEMMA MaxIsGreatest ==
  ASSUME NEW T, T \subseteq Nat, T # {}, NEW b \in Nat, \A k \in T : k <= b
  PROVE  Max(T) \in T /\ \A k \in T : k <= Max(T)
<1> DEFINE D == {b - k : k \in T}
<1>1. PICK d \in D : \A e \in D : d <= e
  <2>1. \A k \in T : b - k \in Nat
    <3>1. \A k \in Nat : k <= b => b - k \in Nat
      OBVIOUS
    <3> QED  BY <3>1
  <2>2. D \subseteq Nat /\ D # {}
    BY <2>1
  <2> HIDE DEF D
  <2> QED  BY <2>2, LeastExists
<1>2. PICK m \in T : d = b - m
  OBVIOUS
<1>3. ASSUME NEW k \in T PROVE k <= m
  <2>1. b - m <= b - k
    BY <1>1, <1>2
  <2>2. k \in Nat /\ m \in Nat
    OBVIOUS
  <2> QED  BY ONLY <2>1, <2>2, b \in Nat
<1>4. \E x \in T : \A y \in T : x >= y
  BY <1>2, <1>3
<1>5. Max(T) \in T /\ \A y \in T : Max(T) >= y
  BY <1>4, Zenon DEF Max
<1> QED
  <2>1. ASSUME NEW k \in T PROVE k <= Max(T)
    <3>1. Max(T) >= k /\ Max(T) \in Nat /\ k \in Nat  BY <1>5
    <3> QED  BY ONLY <3>1
  <2> QED  BY <1>5, <2>1

-----------------------------------------------------------------------------
(* f follows the step from its first value up to n. *)
Follows(f, first, step, n) ==
  f[0] = first /\ \A k \in 1..n : f[k] = step[<<f[k - 1], k>>]

(* f follows the step from its first value for ever. *)
IsRecursion(f, first, step) ==
  f[0] = first /\ \A k \in Nat \ {0} : f[k] = step[<<f[k - 1], k>>]

(* A step from each value and number gives a function of the numbers. *)
LEMMA RecursionExists ==
  ASSUME NEW S, NEW first \in S, NEW step,
         \A v \in S, k \in Nat : step[<<v, k>>] \in S
  PROVE  \E f \in [Nat -> S] : IsRecursion(f, first, step)
<1> DEFINE P == {n \in Nat : \E f \in [0..n -> S] : Follows(f, first, step, n)}
<1>1. Nat \subseteq P
  <2>1. 0 \in P
    <3>1. [i \in 0..0 |-> first] \in [0..0 -> S]
          /\ Follows([i \in 0..0 |-> first], first, step, 0)
      BY DEF Follows
    <3> QED  BY <3>1
  <2>2. ASSUME NEW n \in Nat, n \in P PROVE n + 1 \in P
    <3>1. PICK f \in [0..n -> S] : Follows(f, first, step, n)
      BY <2>2
    <3> DEFINE g == [i \in 0..(n + 1) |-> IF i = n + 1 THEN step[<<f[n], n + 1>>] ELSE f[i]]
    <3>2. step[<<f[n], n + 1>>] \in S
      OBVIOUS
    <3>3. g \in [0..(n + 1) -> S]
      BY <3>2
    <3>4. g[0] = first
      BY <3>1 DEF Follows
    <3>5. ASSUME NEW k \in 1..(n + 1) PROVE g[k] = step[<<g[k - 1], k>>]
      <4>1. k - 1 \in 0..n /\ k - 1 # n + 1 /\ (k = n + 1 => k - 1 = n)
        OBVIOUS
      <4>2. g[k - 1] = f[k - 1]
        BY <4>1
      <4>3. CASE k = n + 1
        <5>1. g[k] = step[<<f[n], n + 1>>]  BY <4>3
        <5>2. f[k - 1] = f[n]  BY <4>1, <4>3
        <5> HIDE DEF g
        <5> QED  BY <4>2, <4>3, <5>1, <5>2
      <4>4. CASE k \in 1..n
        <5>1. g[k] = f[k]  BY <4>4
        <5>2. f[k] = step[<<f[k - 1], k>>]  BY <3>1, <4>4 DEF Follows
        <5> QED  BY <4>2, <5>1, <5>2
      <4>5. k = n + 1 \/ k \in 1..n
        OBVIOUS
      <4> HIDE DEF g
      <4> QED  BY <4>3, <4>4, <4>5
    <3> HIDE DEF g
    <3>6. Follows(g, first, step, n + 1)
      BY <3>4, <3>5 DEF Follows
    <3> QED  BY <3>3, <3>6
  <2> HIDE DEF P
  <2> QED  BY <2>1, <2>2, Induction
<1>2. \A n \in Nat : \E f \in [0..n -> S] : Follows(f, first, step, n)
  BY <1>1
<1> DEFINE F(n) == CHOOSE f \in [0..n -> S] : Follows(f, first, step, n)
<1>3. \A n \in Nat : F(n) \in [0..n -> S] /\ Follows(F(n), first, step, n)
  BY <1>2
<1> HIDE DEF F
(* Two such functions agree as far as both go. *)
<1>4. ASSUME NEW n \in Nat, NEW m \in Nat, n <= m
      PROVE  F(n)[n] = F(m)[n]
  <2> DEFINE Q == {k \in 0..n : F(n)[k] = F(m)[k]}
  <2>1. 0 \in Q
    BY <1>3 DEF Follows
  <2>2. ASSUME NEW k \in 0..(n - 1), k \in Q PROVE k + 1 \in Q
    <3>1. k + 1 \in 1..n /\ k + 1 \in 1..m /\ k + 1 - 1 = k /\ F(n)[k] = F(m)[k]
      BY <2>2, <1>4
    <3>2. F(n)[k + 1] = step[<<F(n)[k], k + 1>>] /\ F(m)[k + 1] = step[<<F(m)[k], k + 1>>]
      BY <1>3, <3>1 DEF Follows
    <3> QED  BY <3>1, <3>2
  <2> HIDE DEF Q
  <2>3. 0..n \subseteq Q
    BY <2>1, <2>2, InductionUpTo
  <2> QED  BY <2>3 DEF Q
<1> DEFINE f == [n \in Nat |-> F(n)[n]]
<1>5. f \in [Nat -> S] /\ f[0] = first
  BY <1>3 DEF Follows
<1>6. ASSUME NEW k \in Nat \ {0} PROVE f[k] = step[<<f[k - 1], k>>]
  <2>1. k \in 1..k /\ k - 1 \in Nat /\ k - 1 <= k
    OBVIOUS
  <2>2. F(k)[k] = step[<<F(k)[k - 1], k>>]
    BY <1>3, <2>1 DEF Follows
  <2>3. F(k - 1)[k - 1] = F(k)[k - 1]
    BY <1>4, <2>1
  <2> QED  BY <2>1, <2>2, <2>3
<1> HIDE DEF f
<1> QED  BY <1>5, <1>6 DEF IsRecursion

(* A fold from the left over the elements with numbers in s, as a function *)
(* of s: the fold takes off the last of them first.                        *)
IsFold(g, first, step, n) ==
  \A s \in SUBSET (1..n) :
    g[s] = IF s = {} THEN first ELSE step[<<g[s \ {Max(s)}], Max(s)>>]

(* It has a value for all sets of numbers up to n. *)
LEMMA FoldExists ==
  ASSUME NEW S, NEW first \in S, NEW n \in Nat, NEW step,
         \A v \in S, k \in Nat : step[<<v, k>>] \in S
  PROVE  \E g \in [SUBSET (1..n) -> S] : IsFold(g, first, step, n)
<1> DEFINE Below(s, k) == s \cap (0..(k - 1))
           Q == [SUBSET Nat -> S]
           over == [p \in Q \X Nat |->
                      [s \in SUBSET Nat |->
                         IF p[2] \in s THEN step[<<p[1][Below(s, p[2])], p[2]>>]
                         ELSE p[1][Below(s, p[2])]]]
           start == [s \in SUBSET Nat |-> first]
<1>1. start \in Q
  OBVIOUS
<1>2. ASSUME NEW q \in Q, NEW k \in Nat
      PROVE  /\ over[<<q, k>>] \in Q
             /\ \A s \in SUBSET Nat :
                  over[<<q, k>>][s] = IF k \in s THEN step[<<q[Below(s, k)], k>>]
                                      ELSE q[Below(s, k)]
  <2>1. \A s \in SUBSET Nat : q[Below(s, k)] \in S
    OBVIOUS
  <2> QED  BY <2>1
<1>3. \A q \in Q, k \in Nat : over[<<q, k>>] \in Q
  BY <1>2
<1>4. \A k \in Nat \ {0}, q \in Q, s \in SUBSET Nat :
        over[<<q, k>>][s] = IF k \in s THEN step[<<q[s \cap (0..(k - 1))], k>>]
                            ELSE q[s \cap (0..(k - 1))]
  BY <1>2
<1>5. start = [s \in SUBSET Nat |-> first]
  OBVIOUS
<1> HIDE DEF over, start, Q, Below
<1>11. PICK F \in [Nat -> Q] : IsRecursion(F, start, over)
  BY <1>1, <1>3, RecursionExists
<1>6. F[0] = start /\ \A k \in Nat \ {0} : F[k] = over[<<F[k - 1], k>>]
  BY <1>11 DEF IsRecursion
<1>7. \A k \in Nat \ {0}, s \in SUBSET Nat :
        F[k][s] = IF k \in s THEN step[<<F[k - 1][s \cap (0..(k - 1))], k>>]
                  ELSE F[k - 1][s \cap (0..(k - 1))]
  <2> TAKE k \in Nat \ {0}, s \in SUBSET Nat
  <2>1. F[k - 1] \in Q /\ F[k] = over[<<F[k - 1], k>>]
    BY <1>6
  <2>2. over[<<F[k - 1], k>>][s] =
          IF k \in s THEN step[<<F[k - 1][s \cap (0..(k - 1))], k>>]
          ELSE F[k - 1][s \cap (0..(k - 1))]
    BY <1>4, <2>1
  <2> QED  BY <2>1, <2>2
(* Elements above those of a set do not count. *)
<1>8. ASSUME NEW k \in Nat, NEW s \in SUBSET (1..k), NEW j \in Nat, k <= j
      PROVE  F[j][s] = F[k][s]
  <2> DEFINE P == {i \in Nat : F[k + i][s] = F[k][s]}
  <2>1. 0 \in P
    OBVIOUS
  <2>2. ASSUME NEW i \in Nat, i \in P PROVE i + 1 \in P
    <3> DEFINE m == k + (i + 1)
    <3>1. m \in Nat \ {0} /\ m - 1 = k + i /\ m > k
      OBVIOUS
    <3>3. s \in SUBSET Nat /\ \A x \in s : x \in 1..k
      OBVIOUS
    <3> HIDE DEF m
    <3>6. m \notin s /\ \A x \in s : x \in 0..(m - 1)
      BY <3>1, <3>3
    <3>4. m \notin s /\ s \cap (0..(m - 1)) = s
      BY <3>6
    <3>7. F[m][s] = IF m \in s THEN step[<<F[m - 1][s \cap (0..(m - 1))], m>>]
                    ELSE F[m - 1][s \cap (0..(m - 1))]
      BY <1>7, <3>1, <3>3
    <3>2. F[m][s] = F[m - 1][s]
      BY <3>4, <3>7
    <3>5. F[k + (i + 1)][s] = F[k + i][s]
      BY <3>1, <3>2 DEF m
    <3> QED  BY <2>2, <3>5
  <2> HIDE DEF P
  <2>3. j - k \in P
    BY <2>1, <2>2, <1>8, Induction
  <2>4. k + (j - k) = j
    BY <1>8
  <2> QED  BY <2>3, <2>4 DEF P
<1> DEFINE g == [s \in SUBSET (1..n) |-> F[n][s]]
<1>9. g \in [SUBSET (1..n) -> S]
  <2>1. F[n] \in [SUBSET Nat -> S]
    BY <1>6 DEF Q
  <2>2. \A s \in SUBSET (1..n) : s \in SUBSET Nat
    OBVIOUS
  <2> QED  BY <2>1, <2>2
<1>10. ASSUME NEW s \in SUBSET (1..n)
       PROVE  g[s] = IF s = {} THEN first ELSE step[<<g[s \ {Max(s)}], Max(s)>>]
  <2>1. CASE s = {}
    <3>1. F[n][s] = F[0][s]
      <4>1. s \in SUBSET (1..0) /\ 0 <= n  BY <2>1
      <4> QED  BY <1>8, <4>1
    <3>2. F[0][s] = first
      BY <1>5, <1>6
    <3> QED  BY <2>1, <3>1, <3>2
  <2>2. CASE s # {}
    <3> DEFINE m == Max(s)
               t == s \ {m}
    <3>1. m \in s /\ \A x \in s : x <= m
      <4>1. s \subseteq Nat /\ \A x \in s : x <= n  OBVIOUS
      <4> QED  BY <2>2, <4>1, MaxIsGreatest
    <3> HIDE DEF m
    <3>7. m \in 1..n /\ \A x \in s : x \in 1..n /\ x <= m
      BY <3>1
    <3>8. s \in SUBSET (1..m) /\ s \in SUBSET Nat
      BY <3>7
    <3>9. t \in SUBSET (1..(m - 1)) /\ t \in SUBSET (1..n)
      BY <3>7
    <3>10. t = s \cap (0..(m - 1))
      <4>1. \A x \in s : x \in 0..(m - 1) <=> x # m
        BY <3>7
      <4> QED  BY <4>1
    <3>2. /\ m \in 1..n /\ s \in SUBSET (1..m) /\ s \in SUBSET Nat
          /\ t \in SUBSET (1..(m - 1)) /\ t = s \cap (0..(m - 1)) /\ t \in SUBSET (1..n)
      BY <3>7, <3>8, <3>9, <3>10
    <3> HIDE DEF t
    <3>3. F[n][s] = F[m][s]
      BY <1>8, <3>2
    <3>4. F[n][t] = F[m - 1][t]
      <4>1. m - 1 \in Nat /\ m - 1 <= n  BY <3>2
      <4> QED  BY <1>8, <3>2, <4>1
    <3>5. F[m][s] = step[<<F[m - 1][t], m>>]
      BY <1>7, <3>1, <3>2
    <3>6. g[s] = step[<<g[t], m>>]
      BY <3>2, <3>3, <3>4, <3>5
    <3> HIDE DEF g
    <3> QED  BY <2>2, <3>6 DEF t, m
  <2> QED  BY <2>1, <2>2
<1> HIDE DEF g
<1> QED  BY <1>9, <1>10 DEF IsFold

(* The intervals from 1, as a fold takes them apart *)
LEMMA Intervals ==
  /\ 1..0 = {}
  /\ \A k \in Nat \ {0} :
       1..k # {} /\ Max(1..k) = k /\ (1..k) \ {Max(1..k)} = 1..(k - 1)
<1>1. 1..0 = {}
  OBVIOUS
<1>2. ASSUME NEW k \in Nat \ {0}
      PROVE  1..k # {} /\ Max(1..k) = k /\ (1..k) \ {Max(1..k)} = 1..(k - 1)
  <2>1. k \in 1..k /\ 1..k \subseteq Nat /\ \A i \in 1..k : i <= k
    OBVIOUS
  <2>2. Max(1..k) \in 1..k /\ \A i \in 1..k : i <= Max(1..k)
    BY <2>1, MaxIsGreatest
  <2>3. Max(1..k) = k
    BY <2>1, <2>2
  <2> QED  BY <2>1, <2>3
<1> QED  BY <1>1, <1>2
=============================================================================
