-------------------------- MODULE InspectionProofs --------------------------
(***************************************************************************)
(* What Inspection promises, for every program, memory and request: first  *)
(* of the walks and sweeps through memory (Disassembler), then of the      *)
(* values (Values), then of the states. A response is computed from the    *)
(* state it is sent in, so the invariant keeps what each answer was        *)
(* computed from (AnswerMeans) and what memory, entry point and listing    *)
(* came from (LaunchMeans, ListingMeans).                                  *)
(***************************************************************************)
EXTENDS LoaderProofs

(* An instruction has one to four bytes. *)
LEMMA AdvanceRange ==
  ASSUME NEW m \in [Addr -> Byte], NEW a \in Addr
  PROVE  Advance(m, a) \in 1..4
<1>1. m[a] \in 0..(ByteSpace - 1)
  BY DEF Byte
<1>2. LengthOf[m[a]] \in 0..4
  BY <1>1, LengthAssumption
<1> QED  BY <1>2 DEF Advance

(* An address modulo the size of memory is an address, and addresses are the
   numbers below that size. *)
LEMMA AddrRange ==
  /\ Addr \subseteq Nat
  /\ \A x \in Int : x % AddrSpace \in Addr
  /\ \A x \in Int : x \in Addr <=> 0 <= x /\ x < AddrSpace
  /\ \A a \in Addr : a \in Nat /\ 0 <= a /\ a < AddrSpace
<1>1. AddrSpace \in Nat \ {0}
  BY Sizes
<1>2. \A x \in Int : x % AddrSpace \in 0..(AddrSpace - 1)
  BY <1>1, ModRange
<1> QED  BY <1>1, <1>2 DEF Addr

(* The walk goes from instruction to instruction. *)
LEMMA WalkSteps ==
  ASSUME NEW m \in [Addr -> Byte], NEW from \in Addr
  PROVE  /\ Walk(m, from) \in [Nat -> Addr]
         /\ Walk(m, from)[0] = from
         /\ \A n \in Nat : Walk(m, from)[n + 1] =
              (Walk(m, from)[n] + Advance(m, Walk(m, from)[n])) % AddrSpace
<1> DEFINE next(a) == (a + Advance(m, a)) % AddrSpace
           step == [p \in Addr \X Nat |-> next(p[1])]
<1>1. \A a \in Addr : next(a) \in Addr
  <2> TAKE a \in Addr
  <2>1. a + Advance(m, a) \in Int
    BY AdvanceRange, AddrRange
  <2> QED  BY <2>1, AddrRange
<1>2. \A a \in Addr, k \in Nat : step[<<a, k>>] = next(a)
  OBVIOUS
<1> HIDE DEF step, next
<1>3. \A a \in Addr, k \in Nat : step[<<a, k>>] \in Addr
  BY <1>1, <1>2
<1>4. PICK f \in [Nat -> Addr] : IsRecursion(f, from, step)
  BY <1>3, RecursionExists
<1>5. f = [n \in Nat |-> IF n = 0 THEN from ELSE next(f[n - 1])]
  <2>1. ASSUME NEW n \in Nat
        PROVE  f[n] = IF n = 0 THEN from ELSE next(f[n - 1])
    <3>1. CASE n = 0
      BY <1>4, <3>1 DEF IsRecursion
    <3>2. CASE n # 0
      <4>1. n \in Nat \ {0} /\ n - 1 \in Nat
        BY <3>2
      <4>2. f[n] = step[<<f[n - 1], n>>]
        BY <1>4, <4>1 DEF IsRecursion
      <4> QED  BY <1>2, <3>2, <4>1, <4>2
    <3> QED  BY <3>1, <3>2
  <2> QED  BY <2>1
<1>6. PICK g : /\ g = [n \in Nat |-> IF n = 0 THEN from ELSE next(g[n - 1])]
               /\ Walk(m, from) = g
  BY <1>5, Zenon DEF Walk, next
<1>7. g[0] = from
  BY <1>6
<1>8. \A n \in Nat : g[n + 1] = next(g[n])
  <2> TAKE n \in Nat
  <2>1. n + 1 \in Nat /\ n + 1 # 0 /\ n + 1 - 1 = n
    OBVIOUS
  <2>2. g[n + 1] = IF n + 1 = 0 THEN from ELSE next(g[n + 1 - 1])
    BY <1>6, <2>1
  <2> QED  BY <2>1, <2>2
<1>9. g \in [Nat -> Addr]
  <2> DEFINE P == {n \in Nat : g[n] \in Addr}
  <2>1. 0 \in P  BY <1>7
  <2>2. \A n \in Nat : n \in P => n + 1 \in P
    BY <1>1, <1>8
  <2> HIDE DEF P
  <2>3. Nat \subseteq P  BY <2>1, <2>2, Induction
  <2>4. \A n \in Nat : g[n] \in Addr  BY <2>3 DEF P
  <2>5. g = [n \in Nat |-> g[n]]  BY <1>6
  <2> QED  BY <2>4, <2>5
<1> QED  BY <1>6, <1>7, <1>8, <1>9 DEF next

(* A step of the walk: below the top, or to the addresses below three. *)
LEMMA WalkNext ==
  ASSUME NEW m \in [Addr -> Byte], NEW from \in Addr, NEW n \in Nat
  PROVE  LET a == Walk(m, from)[n]
             b == Walk(m, from)[n + 1]
         IN  /\ a \in Addr /\ b \in Addr /\ Advance(m, a) \in 1..4
             /\ a + Advance(m, a) < AddrSpace => b = a + Advance(m, a)
             /\ a + Advance(m, a) >= AddrSpace => b = a + Advance(m, a) - AddrSpace
<1> DEFINE a == Walk(m, from)[n]
           b == Walk(m, from)[n + 1]
<1>1. a \in Addr /\ b \in Addr /\ b = (a + Advance(m, a)) % AddrSpace
  BY WalkSteps
<1> HIDE DEF a, b
<1>2. Advance(m, a) \in 1..4
  BY <1>1, AdvanceRange
<1>3. AddrSpace \in Nat /\ AddrSpace >= 4 /\ a \in Nat /\ a < AddrSpace
  BY <1>1, Sizes, AddrRange
<1>4. PICK s : s = a + Advance(m, a)
  OBVIOUS
<1>5. s \in Int /\ 0 <= s /\ s < AddrSpace + AddrSpace
  BY <1>2, <1>3, <1>4
<1>6. CASE s < AddrSpace
  <2>1. s % AddrSpace = s
    BY ONLY <1>3, <1>5, <1>6, ModNear
  <2> QED  BY ONLY <1>1, <1>2, <1>4, <1>3, <1>5, <1>6, <2>1 DEF a, b
<1>7. CASE s >= AddrSpace
  <2>1. \A k \in Nat \ {0}, x \in Int : k <= x /\ x < k + k => x % k = x - k
    OBVIOUS
  <2>2. AddrSpace <= s => s % AddrSpace = s - AddrSpace
    <3>1. AddrSpace \in Nat \ {0}
      BY ONLY <1>3
    <3> QED  BY ONLY <3>1, <1>5, <2>1
  <2> QED  BY ONLY <1>1, <1>2, <1>4, <1>3, <1>5, <1>7, <2>2 DEF a, b
<1>8. s < AddrSpace \/ s >= AddrSpace
  BY ONLY <1>3, <1>5
<1> QED  BY <1>6, <1>7, <1>8

(* A walk from a place of a walk is the rest of it. *)
LEMMA WalkShift ==
  ASSUME NEW m \in [Addr -> Byte], NEW from \in Addr, NEW i \in Nat, NEW j \in Nat
  PROVE  Walk(m, Walk(m, from)[i])[j] = Walk(m, from)[i + j]
<1> DEFINE w == Walk(m, from)
           v == Walk(m, w[i])
           P == {n \in Nat : v[n] = w[i + n]}
<1>1. w \in [Nat -> Addr] /\ \A n \in Nat : w[n + 1] = (w[n] + Advance(m, w[n])) % AddrSpace
  BY WalkSteps
<1> HIDE DEF w
<1>2. w[i] \in Addr
  BY <1>1
<1>3. v[0] = w[i] /\ \A n \in Nat : v[n + 1] = (v[n] + Advance(m, v[n])) % AddrSpace
  BY <1>2, WalkSteps
<1> HIDE DEF v
<1>4. 0 \in P
  BY <1>3
<1>5. \A n \in Nat : n \in P => n + 1 \in P
  <2> SUFFICES ASSUME NEW n \in Nat, v[n] = w[i + n] PROVE v[n + 1] = w[i + (n + 1)]
    OBVIOUS
  <2>1. i + n \in Nat /\ i + (n + 1) = (i + n) + 1
    OBVIOUS
  <2> QED  BY <1>1, <1>3, <2>1
<1> HIDE DEF P
<1>6. j \in P
  BY <1>4, <1>5, Induction
<1> QED  BY <1>6 DEF P, v, w

(* Until it is past an address a walk from below it goes up. *)
LEMMA WalkGoesUp ==
  ASSUME NEW m \in [Addr -> Byte], NEW from \in Addr, NEW top \in Nat, top + 4 < AddrSpace,
         NEW k \in Nat, \A n \in 0..k : Walk(m, from)[n] <= top
  PROVE  Walk(m, from)[k] >= from + k
<1> DEFINE w == Walk(m, from)
           P == {n \in 0..k : w[n] >= from + n}
<1>1. w \in [Nat -> Addr] /\ w[0] = from /\ from \in Nat /\ AddrSpace \in Nat
  BY WalkSteps, AddrRange, Sizes
<1>2. 0 \in P
  BY <1>1
<1>3. \A n \in 0..(k - 1) : n \in P => n + 1 \in P
  <2> SUFFICES ASSUME NEW n \in 0..(k - 1), w[n] >= from + n PROVE w[n + 1] >= from + (n + 1)
    OBVIOUS
  <2> DEFINE a == w[n]
  <2>1. n \in Nat /\ n \in 0..k
    OBVIOUS
  <2>2. /\ Advance(m, a) \in 1..4
        /\ a + Advance(m, a) < AddrSpace => w[n + 1] = a + Advance(m, a)
    BY <2>1, WalkNext
  <2>3. a \in Nat /\ a <= top /\ a >= from + n
    BY <2>1, <1>1, AddrRange
  <2> HIDE DEF a, w
  <2> QED  BY <1>1, <2>1, <2>2, <2>3
<1> HIDE DEF P
<1>4. k \in P
  <2>1. 0..k \subseteq P  BY <1>2, <1>3, InductionUpTo
  <2> QED  BY <2>1
<1> QED  BY <1>4 DEF P, w

-----------------------------------------------------------------------------
(* Where a sweep starts *)
SweepFrom(addr, backstep) == IF addr < 4 * backstep THEN 0 ELSE addr - 4 * backstep

(* A backward disassembly begins four bytes a row before its address, or at 0. *)
LEMMA SweepStart ==
  ASSUME NEW addr \in Addr, NEW backstep \in Nat
  PROVE  /\ SweepFrom(addr, backstep) \in Addr
         /\ SweepFrom(addr, backstep) <= addr
         /\ addr <= SweepFrom(addr, backstep) + 4 * backstep
         /\ \A m : Sweep(m, addr, backstep) = Walk(m, SweepFrom(addr, backstep))
<1>1. addr \in Nat /\ addr < AddrSpace /\ AddrSpace \in Nat /\ 4 * backstep \in Nat
  BY AddrRange, Sizes
<1>2. \A x \in Nat : x <= addr => x \in Addr
  BY <1>1, AddrRange
<1>3. SweepFrom(addr, backstep) \in Nat /\ SweepFrom(addr, backstep) <= addr
      /\ addr <= SweepFrom(addr, backstep) + 4 * backstep
  BY <1>1 DEF SweepFrom
<1> QED  BY <1>2, <1>3 DEF Sweep, SweepFrom

(* A sweep that never gets past its end is near the top of memory. *)
LEMMA EndlessAtTop ==
  ASSUME NEW m \in [Addr -> Byte], NEW addr \in Addr, NEW backstep \in Nat,
         Endless(m, addr, backstep)
  PROVE  addr >= AddrSpace - 7
<1> DEFINE from == SweepFrom(addr, backstep)
<1>1. from \in Addr /\ Sweep(m, addr, backstep) = Walk(m, from)
  BY SweepStart
<1>2. AddrSpace \in Nat /\ addr \in Nat /\ from \in Nat
  BY <1>1, Sizes, AddrRange
<1> HIDE DEF from
<1>3. Walk(m, from) \in [Nat -> Addr]
  BY <1>1, WalkSteps
<1>4. ASSUME NEW n \in 0..AddrSpace PROVE Walk(m, from)[n] <= addr + 3
  <2>1. n \in Nat /\ n \in 0..AddrSpace
    BY <1>2
  <2>2. ~(Walk(m, from)[n] > addr + 3)
    BY <1>1, <2>1 DEF Endless, Past
  <2>3. Walk(m, from)[n] \in Nat
    BY <1>3, <2>1, AddrRange
  <2> QED  BY <1>2, <2>2, <2>3
<1>5. SUFFICES ASSUME addr + 3 + 4 < AddrSpace PROVE FALSE
  BY <1>2
<1>6. Walk(m, from)[AddrSpace] >= from + AddrSpace
  <2>1. addr + 3 \in Nat
    BY <1>2
  <2> QED  BY <1>1, <1>2, <1>4, <1>5, <2>1, WalkGoesUp
<1>7. Walk(m, from)[AddrSpace] < AddrSpace /\ Walk(m, from)[AddrSpace] \in Nat
  BY <1>2, <1>3, AddrRange
<1> QED  BY <1>2, <1>6, <1>7

(* At the top of memory every sweep is endless. *)
LEMMA EndlessUnless ==
  ASSUME NEW m \in [Addr -> Byte], NEW addr \in Addr, NEW backstep \in Nat,
         ~Endless(m, addr, backstep)
  PROVE  /\ addr < AddrSpace - 4
         /\ Past(m, addr, backstep) \subseteq Nat \ {0}
         /\ Past(m, addr, backstep) # {}
<1> DEFINE from == SweepFrom(addr, backstep)
           past == Past(m, addr, backstep)
<1>1. from \in Addr /\ from <= addr /\ Sweep(m, addr, backstep) = Walk(m, from)
  BY SweepStart
<1>2. AddrSpace \in Nat /\ addr \in Nat /\ from \in Nat
  BY <1>1, Sizes, AddrRange
<1> HIDE DEF from
<1>3. Walk(m, from) \in [Nat -> Addr] /\ Walk(m, from)[0] = from
  BY <1>1, WalkSteps
<1>4. past = {n \in 0..AddrSpace : Walk(m, from)[n] > addr + 3}
  BY <1>1 DEF Past
<1>5. past # {}
  BY DEF Endless
<1> HIDE DEF past
<1>6. 0 \notin past
  BY <1>1, <1>2, <1>3, <1>4
<1>7. PICK n \in 0..AddrSpace : Walk(m, from)[n] > addr + 3
  BY <1>4, <1>5
<1>8. Walk(m, from)[n] \in Nat /\ Walk(m, from)[n] < AddrSpace
  <2>1. Walk(m, from)[n] \in Addr
    <3>1. n \in Nat  BY <1>2
    <3> QED  BY <1>3, <3>1
  <2> QED  BY <2>1, AddrRange
<1>9. addr < AddrSpace - 4
  BY <1>2, <1>7, <1>8
<1>10. past \subseteq Nat \ {0}
  BY <1>2, <1>4, <1>6
<1> QED  BY <1>5, <1>9, <1>10 DEF past

(* What a sweep that ends picks: the place before which it is below the    *)
(* address and at which it is not, at most three bytes beyond; it takes at *)
(* least as many steps as there are four bytes on the way.                 *)
LEMMA TargetReached ==
  ASSUME NEW m \in [Addr -> Byte], NEW addr \in Addr, NEW backstep \in Nat,
         ~Endless(m, addr, backstep)
  PROVE  LET from == SweepFrom(addr, backstep)
             ti   == TargetIndex(m, addr, backstep)
         IN  /\ ti \in Nat
             /\ \A n \in 0..(ti - 1) : Walk(m, from)[n] < addr
             /\ addr <= Walk(m, from)[ti]
             /\ Walk(m, from)[ti] <= addr + 3
             /\ addr <= from + 4 * ti
<1> DEFINE from == SweepFrom(addr, backstep)
           w == Walk(m, from)
           past == Past(m, addr, backstep)
           p == Min(past)
           swept == 0..(p - 1)
           reached == {n \in swept : w[n] >= addr}
           R == {n \in Nat : w[n] >= addr}
<1>1. from \in Addr /\ from <= addr /\ Sweep(m, addr, backstep) = w
  BY SweepStart
<1>2. AddrSpace \in Nat /\ addr \in Nat /\ from \in Nat /\ AddrSpace >= 4
  BY <1>1, Sizes, AddrRange
<1> HIDE DEF from
<1>3. addr < AddrSpace - 4 /\ past \subseteq Nat \ {0} /\ past # {}
  BY EndlessUnless
<1>4. w \in [Nat -> Nat] /\ w[0] = from
  <2>1. Walk(m, from) \in [Nat -> Addr] /\ Walk(m, from)[0] = from
    BY <1>1, WalkSteps
  <2> QED  BY <2>1, AddrRange
<1>5. \A n \in past : w[n] > addr + 3
  BY <1>1 DEF Past
<1>6. ASSUME NEW n \in Nat
      PROVE  LET d == Advance(m, w[n])
             IN  d \in 1..4 /\ (w[n] + d < AddrSpace => w[n + 1] = w[n] + d)
  BY <1>1, WalkNext
<1>7. TargetIndex(m, addr, backstep) = IF reached = {} THEN Max(swept) ELSE Min(reached)
  BY <1>1 DEF TargetIndex
<1> HIDE DEF w, past
<1>8. p \in past /\ p \in Nat \ {0} /\ w[p] > addr + 3
  BY <1>3, <1>5, MinIsLeast
<1> HIDE DEF p
(* The first place that is not below the address *)
<1>9. PICK t \in R : \A n \in R : t <= n
  <2>1. p \in R
    BY <1>2, <1>4, <1>8
  <2> HIDE DEF R
  <2>2. R \subseteq Nat
    BY DEF R
  <2> QED  BY <2>1, <2>2, LeastExists
<1>10. t \in Nat /\ w[t] >= addr /\ \A n \in 0..(t - 1) : w[n] < addr
  <2>1. t \in Nat /\ w[t] >= addr
    BY <1>9
  <2>2. ASSUME NEW n \in 0..(t - 1) PROVE w[n] < addr
    <3>1. n \in Nat /\ ~(t <= n) /\ w[n] \in Nat
      BY <2>1, <1>4
    <3> QED  BY <1>2, <1>9, <3>1
  <2> QED  BY <2>1, <2>2
(* It takes steps of one to four bytes to get there. *)
<1>11. \A n \in 0..(t - 1) : w[n + 1] <= w[n] + 4
  <2> TAKE n \in 0..(t - 1)
  <2>1. n \in Nat /\ w[n] < addr /\ w[n] \in Nat
    BY <1>4, <1>10
  <2> QED  BY <1>2, <1>3, <1>6, <2>1
<1>12. w[t] <= addr + 3
  <2>1. CASE t = 0
    BY <1>1, <1>2, <1>4, <2>1
  <2>2. CASE t # 0
    <3>1. t - 1 \in 0..(t - 1) /\ t - 1 + 1 = t /\ t - 1 \in Nat
      BY <1>10, <2>2
    <3>2. w[t] <= w[t - 1] + 4 /\ w[t - 1] < addr /\ w[t - 1] \in Nat /\ w[t] \in Nat
      BY <1>4, <1>10, <1>11, <3>1
    <3> QED  BY <1>2, <3>2
  <2> QED  BY <2>1, <2>2
<1>13. addr <= from + 4 * t
  <2> DEFINE P == {n \in 0..t : w[n] <= from + 4 * n}
  <2>1. 0 \in P
    BY <1>2, <1>4, <1>10
  <2>2. \A n \in 0..(t - 1) : n \in P => n + 1 \in P
    <3> SUFFICES ASSUME NEW n \in 0..(t - 1), w[n] <= from + 4 * n
                 PROVE  w[n + 1] <= from + 4 * (n + 1) /\ n + 1 \in 0..t
      OBVIOUS
    <3>1. n \in Nat /\ n + 1 \in Nat /\ w[n] \in Nat /\ w[n + 1] \in Nat /\ w[n + 1] <= w[n] + 4
      BY <1>4, <1>10, <1>11
    <3> QED  BY <1>2, <1>10, <3>1
  <2> HIDE DEF P
  <2>3. t \in P
    <3>1. 0..t \subseteq P  BY <1>10, <2>1, <2>2, InductionUpTo
    <3> QED  BY <1>10, <3>1
  <2>4. w[t] <= from + 4 * t /\ w[t] \in Nat
    BY <1>4, <1>10, <2>3 DEF P
  <2> QED  BY <1>2, <1>10, <2>4
(* The sweep sees it before it is past its end. *)
<1>14. t < p
  <2>1. t <= p
    <3>1. p \in R  BY <1>2, <1>4, <1>8
    <3> QED  BY <1>9, <3>1
  <2>2. t # p
    BY <1>2, <1>4, <1>8, <1>12
  <2> QED  BY <1>8, <1>10, <2>1, <2>2
<1>15. t \in reached /\ \A n \in reached : t <= n
  BY <1>8, <1>9, <1>10, <1>14
<1>16. reached \subseteq Nat
  BY <1>8
<1> HIDE DEF reached
<1>17. Min(reached) = t
  <2>1. Min(reached) \in reached /\ \A n \in reached : Min(reached) <= n
    BY <1>15, <1>16, MinIsLeast
  <2>2. Min(reached) \in Nat /\ Min(reached) <= t /\ t <= Min(reached)
    BY <1>15, <1>16, <2>1
  <2> QED  BY <1>10, <2>2
<1>18. TargetIndex(m, addr, backstep) = t
  BY <1>7, <1>15, <1>17
<1> QED  BY <1>10, <1>12, <1>13, <1>18 DEF from, w

(* The address from which a backward disassembly shows its rows *)
LEMMA BackFromTyped ==
  ASSUME NEW m \in [Addr -> Byte], NEW addr \in Addr, NEW backstep \in Nat,
         ~Endless(m, addr, backstep)
  PROVE  BackFrom(m, addr, backstep) \in Addr
<1>1. TargetIndex(m, addr, backstep) \in Nat
  BY TargetReached
<1>2. PICK i \in Nat : BackFrom(m, addr, backstep) = Sweep(m, addr, backstep)[i]
  BY <1>1 DEF BackFrom
<1>3. Sweep(m, addr, backstep) \in [Nat -> Addr]
  <2>1. SweepFrom(addr, backstep) \in Addr
        /\ Sweep(m, addr, backstep) = Walk(m, SweepFrom(addr, backstep))
    BY SweepStart
  <2> QED  BY <2>1, WalkSteps
<1> QED  BY <1>2, <1>3

(* The first row of a disassembly is at an address when its sweep ends. *)
LEMMA FirstRowTyped ==
  ASSUME NEW m \in [Addr -> Byte], NEW base \in Addr, NEW skip \in Int,
         ~(skip < 0 /\ Endless(m, base, -skip))
  PROVE  FirstRow(m, base, skip) \in Addr
<1>1. CASE skip < 0
  <2>1. -skip \in Nat
    BY <1>1
  <2> QED  BY <1>1, <2>1, BackFromTyped DEF FirstRow
<1>2. CASE ~(skip < 0)
  <2>1. skip \in Nat
    BY <1>2
  <2>2. Walk(m, base)[skip] \in Addr
    BY <2>1, WalkSteps
  <2> QED  BY <1>2, <2>2 DEF FirstRow
<1> QED  BY <1>1, <1>2

-----------------------------------------------------------------------------
(* A disassembly from k instructions back shows the row the sweep picked k *)
(* rows on, or earlier if the sweep is shorter than that, and only rows    *)
(* below the address before it.                                            *)
LEMMA BackwardRow ==
  ASSUME NEW m \in [Addr -> Byte], NEW addr \in Addr, NEW k \in Nat,
         ~Endless(m, addr, k)
  PROVE  LET w        == Walk(m, SweepFrom(addr, k))
             shown(j) == Walk(m, BackFrom(m, addr, k))[j]
         IN  \E i \in 0..k :
               /\ i < k => addr < 4 * k /\ shown(0) = 0
               /\ \A j \in 0..(i - 1) : shown(j) < addr
               /\ shown(i) \in addr..(addr + 3)
               /\ \A n \in Nat : w[n] = addr /\ (\A j \in 0..(n - 1) : w[j] < addr)
                                   => shown(i) = addr
<1> DEFINE from == SweepFrom(addr, k)
           w == Walk(m, from)
           ti == TargetIndex(m, addr, k)
           s == IF ti < k THEN 0 ELSE ti - k
           i == IF ti < k THEN ti ELSE k
           shown(j) == Walk(m, BackFrom(m, addr, k))[j]
<1>1. addr \in Nat
  BY AddrRange
<1>2. from \in Addr /\ from \in Nat /\ Sweep(m, addr, k) = w
  BY SweepStart, AddrRange
<1>3. /\ ti \in Nat
      /\ \A n \in 0..(ti - 1) : w[n] < addr
      /\ addr <= w[ti] /\ w[ti] <= addr + 3
      /\ addr <= from + 4 * ti
  BY TargetReached
<1>4. BackFrom(m, addr, k) = w[s]
  BY <1>2, <1>3 DEF BackFrom, ti
<1>5. from = IF addr < 4 * k THEN 0 ELSE addr - 4 * k
  BY DEF SweepFrom
<1>6. w \in [Nat -> Nat] /\ w[0] = from
  <2>1. w \in [Nat -> Addr] /\ w[0] = from
    BY <1>2, WalkSteps
  <2> QED  BY <2>1, AddrRange
<1> HIDE DEF from, ti
<1>7. s \in Nat /\ i \in 0..k /\ s + i = ti
  BY <1>3
<1>8. (ti < k => s = 0) /\ (i < k => ti < k)
  OBVIOUS
<1> HIDE DEF s, i
<1>9. ASSUME NEW j \in Nat  PROVE Walk(m, w[s])[j] = w[s + j]
  BY <1>2, <1>7, <1>9, WalkShift
<1> HIDE DEF w
<1>10. ASSUME NEW j \in Nat  PROVE shown(j) = w[s + j]
  BY <1>4, <1>9
<1> HIDE DEF shown
<1>11. i < k => addr < 4 * k /\ shown(0) = 0
  <2> SUFFICES ASSUME ti < k  PROVE addr < 4 * k /\ shown(0) = 0
    BY <1>8
  <2>1. addr < 4 * k
    BY <1>1, <1>2, <1>3, <1>5
  <2>2. s + 0 = 0 /\ 0 \in Nat  BY <1>8
  <2>3. shown(0) = w[0]  BY <1>10, <2>2
  <2> QED  BY <1>5, <1>6, <2>1, <2>3
<1>12. ASSUME NEW j \in 0..(i - 1)  PROVE shown(j) < addr
  <2>1. j \in Nat /\ s + j \in 0..(ti - 1)
    BY <1>3, <1>7
  <2> QED  BY <1>3, <1>10, <2>1
<1>13. shown(i) = w[ti]
  <2>1. i \in Nat  BY <1>7
  <2> QED  BY <1>7, <1>10, <2>1
<1>14. shown(i) \in addr..(addr + 3)
  BY <1>1, <1>3, <1>6, <1>13
<1>15. ASSUME NEW n \in Nat, w[n] = addr, \A j \in 0..(n - 1) : w[j] < addr
       PROVE  shown(i) = addr
  <2>1. ~(n < ti)
    <3>1. SUFFICES ASSUME n \in 0..(ti - 1) PROVE FALSE
      BY <1>3
    <3> QED  BY <1>1, <1>3, <1>15, <3>1
  <2>2. ~(ti < n)
    <3>1. SUFFICES ASSUME ti \in 0..(n - 1) PROVE FALSE
      BY <1>3
    <3>2. w[ti] < addr /\ w[ti] \in Nat
      BY <1>3, <1>6, <1>15, <3>1
    <3> QED  BY <1>1, <1>3, <3>2
  <2>3. n = ti
    BY <1>3, <2>1, <2>2
  <2> QED  BY <1>13, <1>15, <2>3
<1>16. /\ i < k => addr < 4 * k /\ shown(0) = 0
       /\ \A j \in 0..(i - 1) : shown(j) < addr
       /\ shown(i) \in addr..(addr + 3)
       /\ \A n \in Nat : w[n] = addr /\ (\A j \in 0..(n - 1) : w[j] < addr)
                           => shown(i) = addr
  BY <1>11, <1>12, <1>14, <1>15
<1> QED  BY <1>7, <1>16 DEF shown, w, from

-----------------------------------------------------------------------------
(* The lines of a listing go from instruction to instruction. *)
Steps(s, m) ==
  \A i \in 1..(Len(s) - 1) : s[i + 1] = s[i] + Advance(m, s[i])

(* The listing from an address on *)
IsListing(s, m, a) ==
  /\ s \in Seq(Addr)
  /\ a < AddrSpace => s # << >> /\ s[1] = a
  /\ Steps(s, m)

IsListingFrom(f, m) ==
  f = [a \in Nat |-> IF a >= AddrSpace THEN << >> ELSE <<a>> \o f[a + Advance(m, a)]]

(* The listing goes up from every address by at least one. *)
LEMMA NextAddress ==
  ASSUME NEW m \in [Addr -> Byte]
  PROVE  /\ AddrSpace \in Nat
         /\ \A a \in Nat : a < AddrSpace =>
              /\ a \in Addr /\ Advance(m, a) \in Nat
              /\ a + Advance(m, a) \in Nat /\ a + Advance(m, a) >= a + 1
<1>1. AddrSpace \in Nat
  BY Sizes
<1>2. ASSUME NEW a \in Nat, a < AddrSpace
      PROVE  /\ a \in Addr /\ Advance(m, a) \in Nat
             /\ a + Advance(m, a) \in Nat /\ a + Advance(m, a) >= a + 1
  <2>1. a \in Addr
    BY <1>2, AddrRange
  <2>2. Advance(m, a) \in 1..4
    BY <2>1, AdvanceRange
  <2> QED  BY <2>1, <2>2
<1> QED  BY <1>1, <1>2

(* An address before a listing from the next instruction makes a listing. *)
LEMMA ListingStep ==
  ASSUME NEW m \in [Addr -> Byte], NEW a \in Addr, NEW s,
         IsListing(s, m, a + Advance(m, a)),
         a + Advance(m, a) >= AddrSpace => s = << >>
  PROVE  IsListing(<<a>> \o s, m, a)
<1> DEFINE t == <<a>> \o s
<1>1. s \in Seq(Addr) /\ Len(s) \in Nat /\ \A i \in 1..Len(s) : s[i] \in Addr
  BY DEF IsListing
<1>2. t \in Seq(Addr) /\ Len(t) = Len(s) + 1 /\ t[1] = a /\ \A i \in 1..Len(s) : t[i + 1] = s[i]
  <2>1. <<a>> \in Seq(Addr) /\ Len(<<a>>) = 1 /\ <<a>>[1] = a
    OBVIOUS
  <2>2. t \in Seq(Addr) /\ Len(t) = 1 + Len(s)
    BY <1>1, <2>1
  <2>3. t[1] = a /\ \A i \in 1..Len(s) : t[i + 1] = s[i]
    BY <1>1, <2>1
  <2> QED  BY <1>1, <2>2, <2>3
<1> HIDE DEF t
<1>3. t # << >>
  BY <1>1, <1>2
<1>4. ASSUME NEW i \in 1..(Len(t) - 1) PROVE t[i + 1] = t[i] + Advance(m, t[i])
  <2>1. CASE i = 1
    <3>1. s # << >> /\ 1 \in 1..Len(s)
      BY <1>1, <1>2, <1>4
    <3>2. a + Advance(m, a) < AddrSpace
      <4>1. a \in Nat /\ Advance(m, a) \in Nat /\ AddrSpace \in Nat
        BY AddrRange, NextAddress
      <4> QED  BY <3>1, <4>1
    <3>3. s[1] = a + Advance(m, a)
      BY <3>1, <3>2 DEF IsListing
    <3> QED  BY <1>2, <2>1, <3>1, <3>3
  <2>2. CASE i # 1
    <3>1. i - 1 \in 1..(Len(s) - 1) /\ i \in 1..Len(s) /\ i - 1 \in 1..Len(s) /\ i - 1 + 1 = i
      BY <1>1, <1>2, <2>2
    <3>2. s[i] = s[i - 1] + Advance(m, s[i - 1])
      BY <3>1 DEF IsListing, Steps
    <3>3. t[i + 1] = s[i] /\ t[i] = s[i - 1]
      BY <1>2, <3>1
    <3> QED  BY <3>2, <3>3
  <2> QED  BY <2>1, <2>2
<1> QED  BY <1>2, <1>3, <1>4 DEF IsListing, Steps, t

(* The listing is defined from its end. *)
LEMMA ListingExists ==
  ASSUME NEW m \in [Addr -> Byte]
  PROVE  \E f : IsListingFrom(f, m)
<1> DEFINE S == [Nat -> Seq(Addr)]
           none == [a \in Nat |-> << >>]
           Next1(f) == [a \in Nat |-> IF a >= AddrSpace THEN << >>
                                      ELSE <<a>> \o f[a + Advance(m, a)]]
           step == [p \in S \X Nat |-> Next1(p[1])]
<1>1. /\ AddrSpace \in Nat
      /\ \A a \in Nat : a < AddrSpace =>
           a \in Addr /\ a + Advance(m, a) \in Nat /\ a + Advance(m, a) >= a + 1
  BY NextAddress
<1>2. none \in S
  OBVIOUS
<1>3. \A f \in S : Next1(f) \in S
  <2> TAKE f \in S
  <2>1. ASSUME NEW a \in Nat
        PROVE  (IF a >= AddrSpace THEN << >> ELSE <<a>> \o f[a + Advance(m, a)]) \in Seq(Addr)
    <3>1. CASE a < AddrSpace
      <4>1. a + Advance(m, a) \in Nat /\ a \in Addr
        BY <1>1, <3>1
      <4>2. f[a + Advance(m, a)] \in Seq(Addr) /\ <<a>> \in Seq(Addr)
        BY <4>1
      <4>3. <<a>> \o f[a + Advance(m, a)] \in Seq(Addr)
        BY <4>2
      <4> QED  BY <1>1, <3>1, <4>3
    <3>2. CASE ~(a < AddrSpace)
      BY <1>1, <3>2
    <3> QED  BY <3>1, <3>2
  <2> QED  BY <2>1
<1>4. \A f \in S, k \in Nat : step[<<f, k>>] = Next1(f)
  OBVIOUS
<1> HIDE DEF step
<1>5. \A f \in S, k \in Nat : step[<<f, k>>] \in S
  BY <1>3, <1>4
<1> HIDE DEF none
<1> HIDE DEF S, Next1
<1>6. PICK H \in [Nat -> S] : IsRecursion(H, none, step)
  BY <1>2, <1>5, RecursionExists
<1>7. \A k \in Nat, a \in Nat :
        H[k + 1][a] = IF a >= AddrSpace THEN << >> ELSE <<a>> \o H[k][a + Advance(m, a)]
  <2> TAKE k \in Nat, a \in Nat
  <2>1. k + 1 \in Nat \ {0} /\ k + 1 - 1 = k
    OBVIOUS
  <2>2. H[k + 1] = step[<<H[k], k + 1>>]
    <3>1. \A i \in Nat \ {0} : H[i] = step[<<H[i - 1], i>>]
      BY <1>6 DEF IsRecursion
    <3> QED  BY <2>1, <3>1
  <2>3. H[k + 1] = Next1(H[k])
    BY <1>4, <2>1, <2>2
  <2> QED  BY <2>3 DEF Next1
<1>8. \A a \in Nat : H[0][a] = << >>
  BY <1>6 DEF IsRecursion, none
(* After k steps it is right in the last k places of memory. *)
<1> DEFINE Right(k) == \A a \in Nat : a + k >= AddrSpace => H[k + 1][a] = H[k][a]
           P == {k \in Nat : Right(k)}
<1>9. Right(0)
  <2> SUFFICES ASSUME NEW a \in Nat, a >= AddrSpace PROVE H[0 + 1][a] = H[0][a]
    BY <1>1
  <2> QED  BY <1>7, <1>8
<1>10. ASSUME NEW k \in Nat, Right(k) PROVE Right(k + 1)
  <2> SUFFICES ASSUME NEW a \in Nat, a + (k + 1) >= AddrSpace
               PROVE  H[k + 1 + 1][a] = H[k + 1][a]
    OBVIOUS
  <2>1. CASE a >= AddrSpace
    <3>1. k + 1 \in Nat
      OBVIOUS
    <3> QED  BY <1>7, <2>1, <3>1
  <2>2. CASE a < AddrSpace
    <3> DEFINE b == a + Advance(m, a)
    <3>1. b \in Nat /\ b + k >= AddrSpace
      BY <1>1, <2>2
    <3>2. H[k + 1][b] = H[k][b]
      BY <1>10, <3>1
    <3>3. ~(a >= AddrSpace) /\ k + 1 \in Nat
      BY <1>1, <2>2
    <3>4. H[k + 1][a] = <<a>> \o H[k][b]
      BY <1>7, <3>3
    <3>5. H[k + 1 + 1][a] = <<a>> \o H[k + 1][b]
      BY <1>7, <3>3
    <3> QED  BY <3>2, <3>4, <3>5
  <2> QED  BY <1>1, <2>1, <2>2
<1> HIDE DEF Right
<1>11. Right(AddrSpace)
  <2>1. 0 \in P /\ \A k \in Nat : k \in P => k + 1 \in P
    BY <1>9, <1>10
  <2> HIDE DEF P
  <2>2. AddrSpace \in P
    BY <1>1, <2>1, Induction
  <2> QED  BY <2>2 DEF P
<1>12. H[AddrSpace] = [a \in Nat |-> IF a >= AddrSpace THEN << >>
                                     ELSE <<a>> \o H[AddrSpace][a + Advance(m, a)]]
  <2>1. \A a \in Nat : H[AddrSpace + 1][a] = H[AddrSpace][a]
    BY <1>1, <1>11 DEF Right
  <2>2. \A a \in Nat : H[AddrSpace][a] = IF a >= AddrSpace THEN << >>
                                         ELSE <<a>> \o H[AddrSpace][a + Advance(m, a)]
    BY <1>1, <1>7, <2>1
  <2>3. H[AddrSpace] = [a \in Nat |-> H[AddrSpace][a]]
    BY <1>1 DEF S
  <2> QED  BY <2>2, <2>3
<1> QED  BY <1>12 DEF IsListingFrom

(* build_full_listing starts at 0 and goes from instruction to instruction. *)
LEMMA ListingSteps ==
  ASSUME NEW m \in [Addr -> Byte]
  PROVE  IsListing(Listing(m), m, 0)
<1>1. PICK f : IsListingFrom(f, m) /\ Listing(m) = f[0]
  <2>1. PICK f : f = [a \in Nat |-> IF a >= AddrSpace THEN << >>
                                    ELSE <<a>> \o f[a + Advance(m, a)]]
    BY ListingExists DEF IsListingFrom
  <2> QED  BY <2>1, Zenon DEF Listing, IsListingFrom
<1>2. \A a \in Nat : f[a] = IF a >= AddrSpace THEN << >> ELSE <<a>> \o f[a + Advance(m, a)]
  BY <1>1 DEF IsListingFrom
<1>3. /\ AddrSpace \in Nat
      /\ \A a \in Nat : a < AddrSpace =>
           a \in Addr /\ a + Advance(m, a) \in Nat /\ a + Advance(m, a) >= a + 1
  BY NextAddress
<1>4. \A a \in Nat : a >= AddrSpace => f[a] = << >>
  BY <1>2
<1>5. ASSUME NEW a \in Nat, a >= AddrSpace PROVE IsListing(f[a], m, a)
  <2>1. f[a] = << >> /\ ~(a < AddrSpace) /\ << >> \in Seq(Addr) /\ Len(<< >>) = 0
    BY <1>3, <1>4, <1>5
  <2>2. Steps(<< >>, m)
    BY <2>1 DEF Steps
  <2> QED  BY <2>1, <2>2 DEF IsListing
<1> DEFINE Right(k) == \A a \in Nat : a + k >= AddrSpace => IsListing(f[a], m, a)
           P == {k \in Nat : Right(k)}
<1>6. Right(0)
  <2> SUFFICES ASSUME NEW a \in Nat, a >= AddrSpace PROVE IsListing(f[a], m, a)
    BY <1>3
  <2> QED  BY <1>5
<1>7. ASSUME NEW k \in Nat, Right(k) PROVE Right(k + 1)
  <2> SUFFICES ASSUME NEW a \in Nat, a + (k + 1) >= AddrSpace PROVE IsListing(f[a], m, a)
    OBVIOUS
  <2>1. CASE a >= AddrSpace
    BY <1>5, <2>1
  <2>2. CASE a < AddrSpace
    <3> DEFINE b == a + Advance(m, a)
    <3>1. a \in Addr /\ b \in Nat /\ b + k >= AddrSpace /\ ~(a >= AddrSpace)
      BY <1>3, <2>2
    <3>2. IsListing(f[b], m, b)
      BY <1>7, <3>1
    <3>3. f[a] = <<a>> \o f[b]
      BY <1>2, <3>1
    <3>4. b >= AddrSpace => f[b] = << >>
      BY <1>4, <3>1
    <3> QED  BY <3>1, <3>2, <3>3, <3>4, ListingStep
  <2> QED  BY <1>3, <2>1, <2>2
<1> HIDE DEF Right
<1>8. Right(AddrSpace)
  <2>1. 0 \in P /\ \A k \in Nat : k \in P => k + 1 \in P
    BY <1>6, <1>7
  <2> HIDE DEF P
  <2>2. AddrSpace \in P
    BY <1>3, <2>1, Induction
  <2> QED  BY <2>2 DEF P
<1>9. IsListing(f[0], m, 0)
  BY <1>3, <1>8 DEF Right
<1> QED  BY <1>1, <1>9

(* From a line of the listing on, the walk is the listing. *)
LEMMA ListingIsWalk ==
  ASSUME NEW m \in [Addr -> Byte], NEW i \in DOMAIN Listing(m), NEW j \in Nat,
         i + j <= Len(Listing(m))
  PROVE  Walk(m, Listing(m)[i])[j] = Listing(m)[i + j]
<1> DEFINE s == Listing(m)
           w == Walk(m, s[i])
           P == {n \in 0..j : w[n] = s[i + n]}
<1>1. s \in Seq(Addr) /\ Steps(s, m)
  BY ListingSteps DEF IsListing
<1> HIDE DEF s
<1>2. Len(s) \in Nat /\ i \in 1..Len(s) /\ i + j <= Len(s) /\ \A n \in 1..Len(s) : s[n] \in Addr
  BY <1>1 DEF s
<1>3. w[0] = s[i]
  BY <1>2, WalkSteps
<1>4. \A n \in Nat : w[n] + Advance(m, w[n]) < AddrSpace => w[n + 1] = w[n] + Advance(m, w[n])
  BY <1>2, WalkNext
<1> HIDE DEF w
<1>5. 0 \in P
  BY <1>2, <1>3
<1>6. \A n \in 0..(j - 1) : n \in P => n + 1 \in P
  <2> SUFFICES ASSUME NEW n \in 0..(j - 1), w[n] = s[i + n] PROVE w[n + 1] = s[i + (n + 1)]
    OBVIOUS
  <2>1. i + n \in 1..(Len(s) - 1) /\ i + n + 1 \in 1..Len(s) /\ i + (n + 1) = i + n + 1 /\ n \in Nat
    BY <1>2
  <2>2. s[i + n + 1] = s[i + n] + Advance(m, s[i + n])
    BY <1>1, <2>1 DEF Steps
  <2>3. s[i + n + 1] < AddrSpace
    BY <1>2, <2>1, AddrRange
  <2> QED  BY <1>4, <2>1, <2>2, <2>3
<1> HIDE DEF P
<1>7. j \in P
  <2>1. 0..j \subseteq P  BY <1>5, <1>6, InductionUpTo
  <2> QED  BY <2>1
<1> QED  BY <1>7 DEF P, w, s

-----------------------------------------------------------------------------
(* The smaller and the larger of two numbers *)
LEMMA MinOfTwo ==
  ASSUME NEW x \in Nat, NEW y \in Nat
  PROVE  Min({x, y}) = IF x <= y THEN x ELSE y
<1>1. {x, y} \subseteq Nat /\ {x, y} # {}
  OBVIOUS
<1>2. Min({x, y}) \in {x, y} /\ \A k \in {x, y} : Min({x, y}) <= k
  BY <1>1, MinIsLeast
<1>3. Min({x, y}) \in Nat /\ Min({x, y}) <= x /\ Min({x, y}) <= y /\ (Min({x, y}) = x \/ Min({x, y}) = y)
  BY <1>2
<1> QED  BY <1>3

(* The greater of two numbers *)
LEMMA MaxOfTwo ==
  ASSUME NEW x \in Nat, NEW y \in Nat
  PROVE  Max({x, y}) = IF x <= y THEN y ELSE x
<1>1. {x, y} \subseteq Nat /\ {x, y} # {} /\ x + y \in Nat /\ \A k \in {x, y} : k <= x + y
  OBVIOUS
<1>2. Max({x, y}) \in {x, y} /\ \A k \in {x, y} : k <= Max({x, y})
  BY <1>1, MaxIsGreatest
<1>3. Max({x, y}) \in Nat /\ x <= Max({x, y}) /\ y <= Max({x, y}) /\ (Max({x, y}) = x \/ Max({x, y}) = y)
  BY <1>2
<1> QED  BY <1>3

(* The bytes of a variable add up, high byte first. *)
LEMMA WideExists ==
  ASSUME NEW m \in [Addr -> Byte], NEW a \in Addr, NEW size \in 1..4
  PROVE  LET n == Min({size, AddrSpace - a})
         IN  /\ n \in 1..size /\ n <= AddrSpace - a /\ (n = size \/ n = AddrSpace - a)
             /\ \E F \in [0..n -> Nat] :
                  /\ F[0] = 0
                  /\ \A k \in 1..n : F[k] = F[k - 1] * ByteSpace + m[a + n - k]
                  /\ ReadWide(m, a, size) = F[n]
<1> DEFINE n == Min({size, AddrSpace - a})
           seq == Cells(a, size)
           step == [p \in Nat \X Nat |->
                      IF p[2] \in 1..n THEN p[1] * ByteSpace + m[seq[p[2]]] ELSE p[1]]
<1>1. /\ size \in Nat /\ size >= 1 /\ AddrSpace - a \in Nat /\ AddrSpace - a >= 1
      /\ AddrSpace \in Nat /\ a \in Nat /\ ByteSpace \in Nat
  BY Sizes, AddrRange
<1>2. n = IF size <= AddrSpace - a THEN size ELSE AddrSpace - a
  BY <1>1, MinOfTwo
<1> HIDE DEF n
<1>3. n \in Nat \ {0} /\ n <= size /\ n <= AddrSpace - a /\ (n = size \/ n = AddrSpace - a)
  BY <1>1, <1>2
<1>4. \A k \in 1..n : seq[k] = a + n - k /\ m[seq[k]] \in Nat
  <2> TAKE k \in 1..n
  <2>1. seq[k] = a + n - k
    BY DEF Cells, n
  <2>2. a + n - k \in Int /\ 0 <= a + n - k /\ a + n - k < AddrSpace
    BY <1>1, <1>3
  <2>3. a + n - k \in Addr
    BY <2>2, AddrRange
  <2>4. m[a + n - k] \in Nat
    BY <2>3, Sizes DEF Byte
  <2> QED  BY <2>1, <2>4
<1>5. DOMAIN seq = 1..n
  BY DEF Cells, n
<1> HIDE DEF seq
<1>6. \A v \in Nat, k \in Nat :
        step[<<v, k>>] = IF k \in 1..n THEN v * ByteSpace + m[seq[k]] ELSE v
  OBVIOUS
<1> HIDE DEF step
<1>7. \A v \in Nat, k \in Nat : step[<<v, k>>] \in Nat
  <2> TAKE v \in Nat, k \in Nat
  <2>1. \A x, y, z \in Nat : x * y + z \in Nat
    OBVIOUS
  <2>2. CASE k \in 1..n
    <3>1. v * ByteSpace + m[seq[k]] \in Nat  BY <1>1, <1>4, <2>1, <2>2
    <3> QED  BY <1>6, <2>2, <3>1
  <2>3. CASE k \notin 1..n
    BY <1>6, <2>3
  <2> QED  BY <2>2, <2>3
<1>8. PICK g \in [SUBSET (1..n) -> Nat] : IsFold(g, 0, step, n)
  BY <1>3, <1>7, FoldExists
<1>9. g = [s \in SUBSET DOMAIN seq |->
             IF s = {} THEN 0
             ELSE g[s \ {Max(s)}] * ByteSpace + m[seq[Max(s)]]]
  <2>1. ASSUME NEW s \in SUBSET (1..n)
        PROVE  g[s] = IF s = {} THEN 0 ELSE g[s \ {Max(s)}] * ByteSpace + m[seq[Max(s)]]
    <3>1. g[s] = IF s = {} THEN 0 ELSE step[<<g[s \ {Max(s)}], Max(s)>>]
      BY <1>8 DEF IsFold
    <3>2. CASE s # {}
      <4>1. s \subseteq Nat /\ \A x \in s : x <= n  BY <1>3
      <4>2. Max(s) \in s  BY <1>3, <3>2, <4>1, MaxIsGreatest
      <4>3. Max(s) \in 1..n /\ Max(s) \in Nat
        BY <4>1, <4>2
      <4>4. g[s \ {Max(s)}] \in Nat
        OBVIOUS
      <4> QED  BY <1>6, <3>1, <3>2, <4>3, <4>4
    <3> QED  BY <3>1, <3>2
  <2> QED  BY <1>5, <2>1
<1>10. PICK h : /\ h = [s \in SUBSET DOMAIN seq |->
                         IF s = {} THEN 0
                         ELSE h[s \ {Max(s)}] * ByteSpace + m[seq[Max(s)]]]
                /\ ReadWide(m, a, size) = h[DOMAIN seq]
  BY <1>9, Zenon DEF ReadWide, FoldLeft, MapThenFoldSet, seq
<1> DEFINE F == [k \in 0..n |-> h[1..k]]
<1>11. h[{}] = 0
  BY <1>10
<1>12. ASSUME NEW k \in 1..n PROVE h[1..k] = h[1..(k - 1)] * ByteSpace + m[seq[k]]
  <2>1. 1..k \in SUBSET DOMAIN seq /\ k \in Nat \ {0}
    BY <1>3, <1>5
  <2>2. 1..k # {} /\ Max(1..k) = k /\ (1..k) \ {Max(1..k)} = 1..(k - 1)
    BY <2>1, Intervals
  <2>3. h[1..k] = IF 1..k = {} THEN 0
                  ELSE h[(1..k) \ {Max(1..k)}] * ByteSpace + m[seq[Max(1..k)]]
    BY <1>10, <2>1
  <2> QED  BY <2>2, <2>3
<1>13. F[0] = 0
  <2>1. 0 \in 0..n /\ 1..0 = {}  BY <1>3, Intervals
  <2> QED  BY <1>11, <2>1
<1>14. \A k \in 1..n : F[k] = F[k - 1] * ByteSpace + m[seq[k]]
  <2> TAKE k \in 1..n
  <2>1. k \in 0..n /\ k - 1 \in 0..n  BY <1>3
  <2> QED  BY <1>12, <2>1
<1>15. ReadWide(m, a, size) = F[n]
  <2>1. n \in 0..n  BY <1>3
  <2> QED  BY <1>5, <1>10, <2>1
<1>16. F = [k \in 0..n |-> F[k]]
  OBVIOUS
<1> HIDE DEF F
<1>17. F \in [0..n -> Nat]
  <2> DEFINE P == {k \in 0..n : F[k] \in Nat}
  <2>1. 0 \in P  BY <1>3, <1>13
  <2>2. ASSUME NEW k \in 0..(n - 1), k \in P PROVE k + 1 \in P
    <3>1. k + 1 \in 1..n /\ k + 1 \in 0..n /\ k + 1 - 1 = k  BY <1>3
    <3>2. F[k + 1] = F[k] * ByteSpace + m[seq[k + 1]]  BY <1>14, <3>1
    <3>3. F[k] \in Nat /\ m[seq[k + 1]] \in Nat  BY <1>4, <2>2, <3>1
    <3>4. \A x, y, z \in Nat : x * y + z \in Nat  OBVIOUS
    <3> QED  BY <1>1, <3>1, <3>2, <3>3, <3>4
  <2> HIDE DEF P
  <2>3. 0..n \subseteq P  BY <1>3, <2>1, <2>2, InductionUpTo
  <2> QED  BY <1>16, <2>3 DEF P
<1>18. \A k \in 1..n : F[k] = F[k - 1] * ByteSpace + m[a + n - k]
  BY <1>4, <1>14
<1>19. n \in 1..size
  BY <1>1, <1>3
<1> QED  BY <1>3, <1>13, <1>15, <1>17, <1>18, <1>19 DEF n

(* What is above the second byte of a variable does not count.             *)
LEMMA WideValue ==
  ASSUME NEW m \in [Addr -> Byte], NEW a \in Addr, NEW size \in 1..4
  PROVE  LET n == Min({size, AddrSpace - a})
         IN  /\ n \in 1..size /\ n <= AddrSpace - a
             /\ ReadWide(m, a, size) \in Nat
             /\ ReadWide(m, a, size) % AddrSpace =
                  m[a] + (IF n > 1 THEN m[a + 1] * ByteSpace ELSE 0)
<1> DEFINE n == Min({size, AddrSpace - a})
<1>1. n \in 1..size /\ n <= AddrSpace - a
  BY WideExists
<1>2. PICK F \in [0..n -> Nat] :
        /\ F[0] = 0
        /\ \A k \in 1..n : F[k] = F[k - 1] * ByteSpace + m[a + n - k]
        /\ ReadWide(m, a, size) = F[n]
  BY WideExists
<1> HIDE DEF n
<1>3. /\ n \in Nat \ {0} /\ ByteSpace \in Nat /\ AddrSpace \in Nat \ {0} /\ ByteSpace >= 2
      /\ AddrSpace = ByteSpace * ByteSpace /\ a \in Nat
      /\ \A b \in Byte : b \in Nat /\ b <= ByteSpace - 1
  BY <1>1, SizeAssumption, Sizes, AddrRange DEF Byte
<1>4. m[a] \in Byte
  OBVIOUS
<1>5. F[n] \in Nat /\ F[n - 1] \in Nat /\ F[n] = F[n - 1] * ByteSpace + m[a]
  <2>1. n \in 1..n /\ n \in 0..n /\ n - 1 \in 0..n /\ a + n - n = a
    BY <1>3
  <2> QED  BY <1>2, <2>1
<1>6. \A x \in Nat : x < AddrSpace => x % AddrSpace = x
  <2>1. \A x \in Nat, k \in Nat \ {0} : x < k => x % k = x
    OBVIOUS
  <2> QED  BY <1>3, <2>1
<1>7. ByteSpace <= AddrSpace
  <2>1. \A b \in Nat : b >= 2 => b <= b * b
    OBVIOUS
  <2> QED  BY <1>3, <2>1
<1>8. CASE n = 1
  <2>1. F[n - 1] = 0
    BY <1>2, <1>8
  <2>2. F[n] = m[a]
    <3>1. 0 * ByteSpace = 0  BY <1>3
    <3> QED  BY <1>3, <1>4, <1>5, <2>1, <3>1
  <2>3. m[a] \in Nat /\ m[a] < AddrSpace
    <3>1. m[a] \in Nat /\ m[a] <= ByteSpace - 1
      BY <1>3, <1>4
    <3>2. ByteSpace \in Nat /\ AddrSpace \in Nat
      BY <1>3
    <3> QED  BY ONLY <1>7, <3>1, <3>2
  <2>4. F[n] % AddrSpace = m[a]
    BY <1>6, <2>2, <2>3
  <2> QED  BY <1>1, <1>2, <1>5, <1>8, <2>3, <2>4 DEF n
<1>9. CASE n # 1
  <2>1. n - 1 \in 1..n /\ n - 2 \in 0..n /\ n > 1 /\ n - 1 - 1 = n - 2
        /\ a + n - (n - 1) = a + 1
    BY <1>3, <1>9
  <2>2. F[n - 2] \in Nat /\ F[n - 1] = F[n - 2] * ByteSpace + m[a + 1]
    BY <1>2, <2>1
  <2>3. m[a + 1] \in Byte
    <3>1. a + 1 \in Int /\ 0 <= a + 1 /\ a + 1 < AddrSpace
      BY <1>1, <1>3, <2>1
    <3> QED  BY <3>1, AddrRange
  <2>4. PICK x \in Nat, y \in Nat, w \in Nat : x = m[a] /\ y = m[a + 1] /\ w = F[n - 2]
    BY <1>3, <1>4, <2>2, <2>3
  <2>5. F[n] = (w * ByteSpace + y) * ByteSpace + x
    BY <1>5, <2>2, <2>4
  <2>6. \A b, u, v, z \in Nat : (z * b + v) * b + u = (u + v * b) + z * (b * b)
    OBVIOUS
  <2>7. F[n] = (x + y * ByteSpace) + w * AddrSpace
    BY <1>3, <2>5, <2>6
  <2>8. x + y * ByteSpace \in Nat /\ x + y * ByteSpace < AddrSpace
    <3>1. x <= ByteSpace - 1 /\ y <= ByteSpace - 1
      BY <1>3, <1>4, <2>3, <2>4
    <3>2. \A b, u, v \in Nat : u <= b - 1 /\ v <= b - 1 => u + v * b \in Nat /\ u + v * b < b * b
      <4> TAKE b, u, v \in Nat
      <4>1. v * b \in Nat /\ (b - 1) * b = b * b - b
        OBVIOUS
      <4>2. v <= b - 1 => v * b <= (b - 1) * b
        OBVIOUS
      <4> QED  BY <4>1, <4>2
    <3> QED  BY <1>3, <3>1, <3>2
  <2>9. \A k \in Nat \ {0}, u, z \in Nat : u < k => (u + z * k) % k = u
    OBVIOUS
  <2>10. F[n] % AddrSpace = x + y * ByteSpace
    BY <1>3, <2>7, <2>8, <2>9
  <2> QED  BY <1>1, <1>2, <1>5, <2>1, <2>4, <2>10 DEF n
<1> QED  BY <1>8, <1>9

-----------------------------------------------------------------------------
(* readMemory shows the bytes from an address on, up to the end of memory. *)
LEMMA ReadMemoryIs ==
  ASSUME NEW m \in [Addr -> Byte], NEW a \in Addr, NEW count \in Nat \ {0}
  PROVE  /\ ReadMemory(m, a, count) \in Seq(Byte)
         /\ Len(ReadMemory(m, a, count)) = Min({count, AddrSpace - a})
         /\ \A i \in 1..Min({count, AddrSpace - a}) : ReadMemory(m, a, count)[i] = m[a + i - 1]
<1> DEFINE n == Min({count, AddrSpace - a})
<1>1. AddrSpace - a \in Nat /\ a \in Nat /\ AddrSpace \in Nat
  BY Sizes, AddrRange
<1>2. Max({0, count}) = count
  BY MaxOfTwo
<1>3. n = IF count <= AddrSpace - a THEN count ELSE AddrSpace - a
  BY <1>1, MinOfTwo
<1> HIDE DEF n
<1>4. n \in Nat /\ n <= AddrSpace - a
  BY <1>1, <1>3
<1>5. ReadMemory(m, a, count) = [i \in 1..n |-> m[a + i - 1]]
  BY <1>2 DEF ReadMemory, n
<1>6. \A i \in 1..n : m[a + i - 1] \in Byte
  <2> TAKE i \in 1..n
  <2>1. a + i - 1 \in Int /\ 0 <= a + i - 1 /\ a + i - 1 < AddrSpace
    BY <1>1, <1>4
  <2>2. a + i - 1 \in Addr
    BY <2>1, AddrRange
  <2> QED  BY <2>2
<1>7. [i \in 1..n |-> m[a + i - 1]] \in Seq(Byte) /\ Len([i \in 1..n |-> m[a + i - 1]]) = n
  BY <1>4, <1>6
<1> QED  BY <1>5, <1>7 DEF n

(* Half of a word is a byte, and no half is larger than the word. *)
LEMMA Halves ==
  ASSUME NEW x \in Addr
  PROVE  High(x) \in Addr /\ Low(x) \in Addr
<1>1. x \in Nat /\ x < AddrSpace /\ ByteSpace \in Nat \ {0} /\ AddrSpace \in Nat
  BY Sizes, AddrRange
<1>2. \A b \in Nat \ {0}, y \in Nat : y \div b \in 0..y /\ y % b \in 0..y
  <2> TAKE b \in Nat \ {0}, y \in Nat
  <2>1. y \div b \in Nat /\ y % b \in Nat /\ y = b * (y \div b) + (y % b)
    OBVIOUS
  <2>2. \A q \in Nat : q <= b * q
    OBVIOUS
  <2> QED  BY <2>1, <2>2
<1>3. x \div ByteSpace \in 0..x /\ x % ByteSpace \in 0..x
  BY <1>1, <1>2
<1>4. \A y \in 0..x : y \in Addr
  BY <1>1, AddrRange
<1> QED  BY <1>3, <1>4 DEF High, Low

(* The symbols of a program *)
IsSymbols(s) ==
  \E n \in Nat :
    /\ DOMAIN s = 1..n
    /\ \A i \in 1..n : s[i].addr \in Nat /\ s[i].c \in BOOLEAN

(* A symbol is compared by the low 16 bits of its address, which are in memory. *)
LEMMA WhereTyped ==
  ASSUME NEW s, IsSymbols(s), NEW i \in DOMAIN s
  PROVE  Where(s[i]) \in Addr
<1>1. s[i].addr \in Int
  BY DEF IsSymbols
<1> QED  BY <1>1, AddrRange DEF Where

(* The first and the last of some symbols *)
LEMMA Chosen ==
  ASSUME NEW s, IsSymbols(s), NEW T, T \subseteq DOMAIN s, T # {}
  PROVE  Min(T) \in T /\ Max(T) \in T
<1>1. PICK n \in Nat : DOMAIN s = 1..n
  BY DEF IsSymbols
<1>2. T \subseteq Nat /\ \A k \in T : k <= n
  BY <1>1
<1> QED  BY <1>2, MinIsLeast, MaxIsGreatest

(* Where a variable lies is an address. *)
LEMMA AddressTyped ==
  ASSUME NEW v \in CVariables, NEW r \in [Registers -> Addr], NEW s, IsSymbols(s),
         AddressOf(v, r, s) # Unknown
  PROVE  AddressOf(v, r, s) \in Addr
<1> DEFINE found == Matching(s, Plainly(v.name))
<1>1. CASE v.storage = "stack"
  <2>1. AddressOf(v, r, s) = (r["IX"] + v.offset) % AddrSpace
    BY <1>1 DEF AddressOf
  <2>2. r["IX"] + v.offset \in Int
    <3>1. r["IX"] \in Addr  BY DEF Registers
    <3>2. r["IX"] \in Nat  BY <3>1, AddrRange
    <3>3. v.offset \in Int  BY RequestAssumption
    <3> QED  BY <3>2, <3>3
  <2> QED  BY <2>1, <2>2, AddrRange
<1>2. CASE v.storage = "static" /\ found # {}
  <2>1. AddressOf(v, r, s) = Where(s[Min(found)])
    BY <1>2 DEF AddressOf
  <2>2. Min(found) \in DOMAIN s
    <3>1. found \subseteq DOMAIN s
      BY DEF Matching
    <3> HIDE DEF found
    <3> QED  BY <1>2, <3>1, Chosen
  <2> QED  BY <2>1, <2>2, WhereTyped
<1>3. CASE v.storage # "stack" /\ ~(v.storage = "static" /\ found # {})
  <2>1. AddressOf(v, r, s) = Unknown
    BY <1>3 DEF AddressOf
  <2> QED  BY <2>1
<1> QED  BY <1>1, <1>2, <1>3

(* A C variable shows 16 bits: those at its address, if it has one. *)
LEMMA VariableShows ==
  ASSUME NEW v \in CVariables, NEW m \in [Addr -> Byte], NEW r \in [Registers -> Addr],
         NEW s, IsSymbols(s)
  PROVE  LET a     == AddressOf(v, r, s)
             value == CVariableValue(v, m, r, s)
         IN  /\ value # Unknown => value.hex \in Addr
             /\ a # Unknown => value.hex = ReadWide(m, a, v.size) % AddrSpace
<1> DEFINE a == AddressOf(v, r, s)
           value == CVariableValue(v, m, r, s)
           reg == RegisterValue(v, r)
<1>1. CASE a # Unknown
  <2>1. a \in Addr /\ v.size \in 1..4
    BY <1>1, AddressTyped, RequestAssumption
  <2>2. ReadWide(m, a, v.size) \in Int
    <3> HIDE DEF a
    <3>1. ReadWide(m, a, v.size) \in Nat
      BY <2>1, WideValue
    <3> QED  BY <3>1
  <2>3. ReadWide(m, a, v.size) % AddrSpace \in Addr
    BY <2>2, AddrRange
  <2>4. value.hex = ReadWide(m, a, v.size) % AddrSpace
    BY <1>1 DEF CVariableValue, Shown
  <2> QED  BY <2>3, <2>4
<1>2. CASE a = Unknown /\ reg # Unknown
  <2>1. value.hex = reg
    BY <1>2 DEF CVariableValue
  <2>2. r["BC"] \in Addr
    BY DEF Registers
  <2>3. r["BC"] \in Addr /\ High(r["BC"]) \in Addr /\ Low(r["BC"]) \in Addr
    BY <2>2, Halves
  <2>4. reg \in {r["BC"], High(r["BC"]), Low(r["BC"]), Unknown}
    BY DEF RegisterValue
  <2>5. reg \in Addr
    BY <1>2, <2>3, <2>4
  <2> QED  BY <1>2, <2>1, <2>5
<1>3. CASE a = Unknown /\ reg = Unknown
  BY <1>3 DEF CVariableValue
<1> QED  BY <1>1, <1>2, <1>3

(* A value shows the first two bytes of those readMemory shows at an       *)
(* address, and evaluate the first.                                        *)
SameBytes(hex, m, a, size, r, s) ==
  LET bytes == ReadMemory(m, a, size)
  IN  /\ hex = bytes[1] + (IF Len(bytes) > 1 THEN bytes[2] * ByteSpace ELSE 0)
      /\ Evaluate([value |-> a], m, r, s).result = Low(hex)

(* One byte read as a C value, as memory and as an expression is the same. *)
LEMMA ViewsOfAddress ==
  ASSUME NEW m \in [Addr -> Byte], NEW a \in Addr, NEW size \in 1..4, NEW r, NEW s
  PROVE  SameBytes(ReadWide(m, a, size) % AddrSpace, m, a, size, r, s)
<1> DEFINE bytes == ReadMemory(m, a, size)
           hex == ReadWide(m, a, size) % AddrSpace
           n == Min({size, AddrSpace - a})
<1>1. /\ n \in 1..size /\ n <= AddrSpace - a
      /\ hex = m[a] + (IF n > 1 THEN m[a + 1] * ByteSpace ELSE 0)
  BY WideValue
<1>2. /\ Len(bytes) = n
      /\ \A i \in 1..n : bytes[i] = m[a + i - 1]
  <2>1. size \in Nat \ {0}  OBVIOUS
  <2> QED  BY <2>1, ReadMemoryIs
<1>3. a \in Nat /\ ByteSpace \in Nat \ {0} /\ AddrSpace \in Nat /\ a < AddrSpace
  BY Sizes, AddrRange
<1> HIDE DEF n, bytes, hex
<1>4. bytes[1] = m[a] /\ (n > 1 => bytes[2] = m[a + 1])
  <2>1. 1 \in 1..n /\ a + 1 - 1 = a /\ a + 2 - 1 = a + 1 /\ (n > 1 => 2 \in 1..n)
    BY <1>1, <1>3
  <2> QED  BY <1>2, <2>1
<1>5. hex = bytes[1] + (IF Len(bytes) > 1 THEN bytes[2] * ByteSpace ELSE 0)
  BY <1>1, <1>2, <1>4
<1>6. m[a] \in Nat /\ m[a] < ByteSpace
  BY <1>3 DEF Byte
<1>7. Low(hex) = m[a]
  <2>1. \A k \in Nat \ {0}, u, z \in Nat : u < k => (u + z * k) % k = u
    OBVIOUS
  <2>2. \A k \in Nat \ {0}, u \in Nat : u < k => (u + 0) % k = u
    OBVIOUS
  <2>3. CASE n > 1
    <3>1. m[a + 1] \in Nat
      <4>1. a + 1 \in Int /\ 0 <= a + 1 /\ a + 1 < AddrSpace
        BY <1>1, <1>3, <2>3
      <4>2. a + 1 \in Addr
        BY <4>1, AddrRange
      <4> QED  BY <1>3, <4>2 DEF Byte
    <3>2. hex = m[a] + m[a + 1] * ByteSpace
      BY <1>1, <2>3
    <3> QED  BY <1>3, <1>6, <2>1, <3>1, <3>2 DEF Low
  <2>4. CASE ~(n > 1)
    <3>1. hex = m[a] + 0
      BY <1>1, <2>4
    <3> QED  BY <1>3, <1>6, <2>2, <3>1 DEF Low
  <2> QED  BY <2>3, <2>4
<1>8. Evaluate([value |-> a], m, r, s).result = m[a]
  <2>1. a % AddrSpace = a
    <3>1. \A k \in Nat, x \in Nat : x < k => x % k = x
      OBVIOUS
    <3> QED  BY <1>3, <3>1
  <2>2. "value" \in DOMAIN [value |-> a] /\ [value |-> a].value = a
    OBVIOUS
  <2> QED  BY <2>1, <2>2 DEF Evaluate
<1> QED  BY <1>5, <1>7, <1>8 DEF SameBytes, hex, bytes

(* No two symbols of a program have one name and two places. *)
Unique(s) ==
  \A i, j \in DOMAIN s :
    s[i].name = s[j].name /\ s[i].c = s[j].c => Where(s[i]) = Where(s[j])

(* A symbol leads to its place unless its name is something else, too. *)
LEMMA NameLeads ==
  ASSUME IsSymbols(symbols), Unique(symbols), NEW i \in DOMAIN symbols
  PROVE  LeadsTo(Written(symbols[i]), Where(symbols[i]))
<1> DEFINE n == Written(symbols[i])
           found == Matching(symbols, n)
           j == Min(found)
<1>1. n.name = symbols[i].name /\ n.c = symbols[i].c /\ "value" \notin DOMAIN n
  BY DEF Written
<1>2. symbols[i].c \in BOOLEAN /\ \A k \in DOMAIN symbols : symbols[k].c \in BOOLEAN
  BY DEF IsSymbols
<1> HIDE DEF n
<1>3. found = {k \in DOMAIN symbols : symbols[k].name = n.name /\ (n.c => symbols[k].c)}
  BY DEF Matching
<1>4. i \in found
  BY <1>1, <1>3
<1> HIDE DEF found
<1>5. j \in found
  BY <1>3, <1>4, Chosen
<1>6. CASE Hidden(n)
  BY <1>6 DEF LeadsTo, n
<1>7. CASE ~Hidden(n)
  <2>1. symbols[j].c = n.c
    <3>1. j \in DOMAIN symbols /\ symbols[j].name = n.name /\ (n.c => symbols[j].c)
      BY <1>3, <1>5
    <3>2. ~n.c => ~symbols[j].c
      BY <1>7, <3>1 DEF Hidden
    <3>3. n.c \in BOOLEAN /\ symbols[j].c \in BOOLEAN
      BY <1>1, <1>2, <3>1
    <3> QED  BY <3>1, <3>2, <3>3
  <2>2. Where(symbols[j]) = Where(symbols[i])
    BY <1>1, <1>3, <1>5, <2>1 DEF Unique
  <2>3. ~(n.name \in RegisterNames /\ ~n.c)
    BY <1>7 DEF Hidden
  <2>4. Evaluate(n, memory, registers, symbols) =
          [result |-> Where(symbols[j]), reference |-> Where(symbols[j])]
    BY <1>1, <1>4, <2>3 DEF Evaluate, found
  <2> QED  BY <2>2, <2>4 DEF LeadsTo, n
<1> QED  BY <1>6, <1>7

(* The symbol of an instruction is at its address. *)
LEMMA ExactIsThere ==
  ASSUME IsSymbols(symbols), NEW a, LookupSymbolExact(symbols, a) # Unknown
  PROVE  \E i \in DOMAIN symbols :
           LookupSymbolExact(symbols, a) = Written(symbols[i]) /\ Where(symbols[i]) = a
<1> DEFINE found == {i \in DOMAIN symbols : Where(symbols[i]) = a}
           cs == {i \in found : symbols[i].c}
<1>1. LookupSymbolExact(symbols, a) =
        IF cs # {} THEN Written(symbols[Max(cs)])
        ELSE IF found # {} THEN Written(symbols[Min(found)]) ELSE Unknown
  BY DEF LookupSymbolExact
<1>2. /\ found \subseteq DOMAIN symbols /\ cs \subseteq DOMAIN symbols
      /\ \A i \in found : Where(symbols[i]) = a
      /\ \A i \in cs : Where(symbols[i]) = a
  OBVIOUS
<1> HIDE DEF cs, found
<1>3. CASE cs # {}
  <2>1. Max(cs) \in cs
    BY <1>2, <1>3, Chosen
  <2> QED  BY <1>1, <1>2, <1>3, <2>1
<1>4. CASE cs = {} /\ found # {}
  <2>1. Min(found) \in found
    BY <1>2, <1>4, Chosen
  <2> QED  BY <1>1, <1>2, <1>4, <2>1
<1>5. ~(cs = {} /\ found = {})
  BY <1>1
<1> QED  BY <1>3, <1>4, <1>5

(* The symbol of a frame is as far below PC as its offset says. *)
LEMMA NearestIsThere ==
  ASSUME IsSymbols(symbols), NEW a \in Addr, LookupSymbol(symbols, a) # Unknown
  PROVE  \E i \in DOMAIN symbols :
           /\ LookupSymbol(symbols, a).symbol = Written(symbols[i])
           /\ Where(symbols[i]) = a - LookupSymbol(symbols, a).offset
<1> DEFINE below == {i \in DOMAIN symbols : Where(symbols[i]) <= a}
           places == {Where(symbols[i]) : i \in below}
           highest == Max(places)
           at == {j \in below : Where(symbols[j]) = highest}
<1>1. a \in Nat /\ \A i \in DOMAIN symbols : Where(symbols[i]) \in Nat
  BY WhereTyped, AddrRange
<1>2. below # {}
  BY DEF LookupSymbol
<1>3. LookupSymbol(symbols, a) = [symbol |-> Written(symbols[Min(at)]), offset |-> a - highest]
  BY <1>2 DEF LookupSymbol
<1>4. places \subseteq Nat /\ places # {} /\ \A k \in places : k <= a
  BY <1>1, <1>2
<1>5. highest \in places
  <2> HIDE DEF places
  <2> QED  BY <1>1, <1>4, MaxIsGreatest
<1>6. at # {} /\ at \subseteq DOMAIN symbols /\ \A j \in at : Where(symbols[j]) = highest
  BY <1>5
<1>7. highest \in Nat
  BY <1>4, <1>5
<1> HIDE DEF at, highest
<1>8. Min(at) \in at
  BY <1>6, Chosen
<1>9. a - (a - highest) = highest
  BY <1>1, <1>7
<1> QED  BY <1>3, <1>6, <1>8, <1>9

-----------------------------------------------------------------------------
(* Every variable holds what its type in the code can hold. *)
Typed ==
  /\ memory \in [Addr -> Byte]
  /\ registers \in [Registers -> Addr]
  /\ symbols = << >> \/ \E p \in Programs : symbols = p.symbols
  /\ listing \in Seq(Addr)
  /\ fresh \in BOOLEAN

(* The session thread hangs in a sweep that never gets past its end. *)
HungMeans ==
  hung # None => \E place \in Places, skip \in Skips :
                   hung = Base(place[1], place[2]) /\ Hangs(hung, skip)

(* Until the program runs, the machine is as the launch left it. *)
LaunchMeans ==
  launched # None /\ fresh =>
    \E p \in Programs, start \in StartAddresses :
      /\ launched = [program |-> p, start |-> start]
      /\ memory = Loaded(p)
      /\ registers["PC"] = EntryPoint(p, start)

(* Until the program runs, the listing is that of the memory. *)
ListingMeans == fresh /\ listing # << >> => listing = Listing(memory)

(* A response on its way is what its handler would answer now. *)
AnswerMeans ==
  answer # None =>
    \/ \E place \in Places, skip \in Skips :
         LET base == Base(place[1], place[2])
         IN  ~Hangs(base, skip) /\ answer = Instructions(base, skip)
    \/ \E place \in Places : answer = Contents(MemoryStart(place[1], place[2]))
    \/ \E v \in CVariables : answer = Valued(v)
    \/ \E e \in Expressions : answer = Evaluated(e)
    \/ answer = Frame

IInv == Typed /\ HungMeans /\ LaunchMeans /\ ListingMeans /\ AnswerMeans

-----------------------------------------------------------------------------
(* A place a client asks for is an address. *)
LEMMA PlaceTyped ==
  ASSUME NEW place \in Places
  PROVE  Base(place[1], place[2]) \in Addr /\ MemoryStart(place[1], place[2]) \in Addr
<1>1. place[1] \in Int /\ place[2] \in Int
  BY RequestAssumption
<1>2. place[1] + place[2] \in Int
  BY <1>1
<1> QED  BY <1>2, AddrRange DEF Base, MemoryStart

(* The symbols of a program, and the none there are before a launch *)
LEMMA SymbolsTyped ==
  ASSUME NEW s, s = << >> \/ \E p \in Programs : s = p.symbols
  PROVE  IsSymbols(s)
<1>1. CASE s = << >>
  <2>1. DOMAIN s = 1..0 /\ 0 \in Nat
    BY <1>1
  <2> QED  BY <2>1 DEF IsSymbols
<1>2. CASE \E p \in Programs : s = p.symbols
  <2>1. PICK p \in Programs : s = p.symbols
    BY <1>2
  <2>2. s \in Seq(Range(s)) /\ \A i \in DOMAIN s : s[i].addr \in Nat /\ s[i].c \in BOOLEAN
    BY <2>1, ProgramAssumption
  <2>3. DOMAIN s = 1..Len(s) /\ Len(s) \in Nat
    BY <2>2
  <2> QED  BY <2>2, <2>3 DEF IsSymbols
<1> QED  BY <1>1, <1>2

(* What is loaded are bytes, and the entry point is an address. *)
LEMMA LoadedTyped ==
  ASSUME NEW p \in Programs
  PROVE  Loaded(p) \in [Addr -> Byte]
<1>1. 0 \in Byte
  BY Sizes DEF Byte
<1>2. CASE p.kind = "ihx"
  <2>1. p.records \in Seq(Records)
    BY <1>2, ProgramAssumption
  <2>2. LoadIhx(p.records) \in Loaders
    BY <2>1, LoadIhxAgrees
  <2>3. Loaded(p) = LoadIhx(p.records).memory
    BY <1>2 DEF Loaded
  <2> QED  BY <2>2, <2>3 DEF Loaders
<1>3. CASE p.kind = "binary"
  <2>1. p.bytes \in Seq(Byte)
    BY <1>3, ProgramAssumption
  <2>2. ASSUME NEW a \in Addr
        PROVE  (IF a < Len(p.bytes) THEN p.bytes[a + 1] ELSE 0) \in Byte
    <3>1. a \in Nat
      BY AddrRange
    <3>2. a < Len(p.bytes) => a + 1 \in 1..Len(p.bytes)
      BY <2>1, <3>1
    <3> QED  BY <1>1, <2>1, <3>2
  <2>3. Loaded(p) = [a \in Addr |-> IF a < Len(p.bytes) THEN p.bytes[a + 1] ELSE 0]
    BY <1>3 DEF Loaded
  <2> QED  BY <2>2, <2>3
<1>4. CASE p.kind # "ihx" /\ p.kind # "binary"
  <2>1. Loaded(p) = Zero
    BY <1>4 DEF Loaded
  <2> QED  BY <1>1, <2>1 DEF Zero
<1> QED  BY <1>2, <1>3, <1>4

(* The entry point is in memory, whether given, read from the file or 0. *)
LEMMA EntryTyped ==
  ASSUME NEW p \in Programs, NEW start \in StartAddresses
  PROVE  EntryPoint(p, start) \in Addr
<1>1. CASE start # NoStart
  <2>1. start \in Int
    BY <1>1, StartAssumption
  <2> QED  BY <1>1, <2>1, AddrRange DEF EntryPoint
<1>2. CASE start = NoStart /\ p.kind = "ihx"
  <2>1. p.records \in Seq(Records)
    BY <1>2, ProgramAssumption
  <2>2. LoadIhx(p.records) \in Loaders
    BY <2>1, LoadIhxAgrees
  <2>3. IhxEntry(LoadIhx(p.records)) \in Addr
    BY <2>2, IhxEntryTyped
  <2> QED  BY <1>2, <2>3 DEF EntryPoint
<1>3. CASE start = NoStart /\ p.kind # "ihx"
  <2>1. 0 \in Addr
    BY Sizes, AddrRange
  <2> QED  BY <1>3, <2>1 DEF EntryPoint
<1> QED  BY <1>1, <1>2, <1>3

(* The registers after a reset, with the program counter at the entry point *)
LEMMA ResetTyped ==
  ASSUME NEW r \in Resets, NEW pc \in Addr
  PROVE  Reset(r, pc) \in [Registers -> Addr] /\ Reset(r, pc)["PC"] = pc
<1>1. r.IX \in Addr /\ r.BC \in Addr
  BY RunAssumption
<1>2. AddrSpace - 1 \in Addr
  BY Sizes, AddrRange
<1> QED  BY <1>1, <1>2 DEF Reset, Registers

(* Memory before a launch *)
LEMMA ZeroTyped == Zero \in [Addr -> Byte] /\ 0 \in Addr
<1>1. 0 \in Byte /\ 0 \in Addr
  BY Sizes DEF Byte, Addr
<1> QED  BY <1>1 DEF Zero

(* The listing is a sequence of addresses. *)
LEMMA ListingTyped ==
  ASSUME NEW m \in [Addr -> Byte]
  PROVE  Listing(m) \in Seq(Addr)
BY ListingSteps DEF IsListing

-----------------------------------------------------------------------------
(* Before the first launch memory is empty and there is no listing. *)
LEMMA InitInv == Init => IInv
<1> SUFFICES ASSUME Init PROVE IInv
  OBVIOUS
<1>1. PICK r \in Resets : registers = Reset(r, 0)
  BY DEF Init
<1>2. Typed
  <2>1. registers \in [Registers -> Addr]
    BY <1>1, ResetTyped, ZeroTyped
  <2>2. memory \in [Addr -> Byte] /\ listing \in Seq(Addr)
    BY ZeroTyped DEF Init
  <2> QED  BY <2>1, <2>2 DEF Typed, Init
<1> QED  BY <1>2 DEF IInv, Init, HungMeans, LaunchMeans, ListingMeans, AnswerMeans

(* A handler that only answers *)
LEMMA AnswerInv ==
  ASSUME IInv, NEW a, Answer(a),
         \/ \E place \in Places, skip \in Skips :
              LET base == Base(place[1], place[2])
              IN  ~Hangs(base, skip) /\ a = Instructions(base, skip)
         \/ \E place \in Places : a = Contents(MemoryStart(place[1], place[2]))
         \/ \E v \in CVariables : a = Valued(v)
         \/ \E e \in Expressions : a = Evaluated(e)
         \/ a = Frame
  PROVE  IInv'
<1>1. /\ memory' = memory /\ registers' = registers /\ symbols' = symbols /\ listing' = listing
      /\ hung' = hung /\ launched' = launched /\ fresh' = fresh /\ answer' = a
  BY DEF Answer, machine, program, history
<1>2. Typed' /\ LaunchMeans' /\ ListingMeans'
  BY <1>1 DEF IInv, Typed, LaunchMeans, ListingMeans
<1>3. HungMeans'
  BY <1>1 DEF IInv, HungMeans, Hangs
<1>4. AnswerMeans'
  BY <1>1 DEF AnswerMeans, Hangs, Instructions, WithSymbol, Contents, Valued, Evaluated, Frame
<1> QED  BY <1>2, <1>3, <1>4 DEF IInv

(* One step for each action: a launch makes LaunchMeans and ListingMeans true
   again, a run and an answer leave them alone, an answer is computed from the
   state it is sent in. *)
LEMMA NextInv == IInv /\ [Next]_vars => IInv'
<1> SUFFICES ASSUME IInv, [Next]_vars PROVE IInv'
  OBVIOUS
<1>1. Typed /\ HungMeans /\ LaunchMeans /\ ListingMeans /\ AnswerMeans
  BY DEF IInv
<1>2. ASSUME NEW p \in Programs, NEW start \in StartAddresses, Launch(p, start) PROVE IInv'
  <2>1. /\ memory' = Loaded(p) /\ symbols' = p.symbols /\ fresh' = TRUE
        /\ launched' = [program |-> p, start |-> start] /\ hung' = None /\ answer' = None
        /\ listing' = IF p.kind = "none" THEN << >> ELSE Listing(memory')
    BY <1>2 DEF Launch, LaunchListing
  <2>2. PICK r \in Resets : registers' = Reset(r, EntryPoint(p, start))
    BY <1>2 DEF Launch
  <2>3. memory' \in [Addr -> Byte]
    BY <2>1, LoadedTyped
  <2>4. registers' \in [Registers -> Addr] /\ registers'["PC"] = EntryPoint(p, start)
    BY <2>2, EntryTyped, ResetTyped
  <2>5. listing' \in Seq(Addr)
    BY <2>1, <2>3, ListingTyped
  <2>6. Typed'
    BY <2>1, <2>3, <2>4, <2>5 DEF Typed
  <2>7. LaunchMeans'
    BY <2>1, <2>4 DEF LaunchMeans
  <2>8. ListingMeans'
    BY <2>1 DEF ListingMeans
  <2>9. HungMeans' /\ AnswerMeans'
    BY <2>1 DEF HungMeans, AnswerMeans
  <2> QED  BY <2>6, <2>7, <2>8, <2>9 DEF IInv
<1>3. ASSUME NEW w \in Writes, Run(w) PROVE IInv'
  <2>1. /\ memory' = [memory EXCEPT ![w.address] = w.value] /\ fresh' = FALSE
        /\ answer = None /\ hung = None
        /\ symbols' = symbols /\ listing' = listing /\ hung' = hung /\ answer' = answer
    BY <1>3 DEF Run, program
  <2>2. PICK r \in Resets :
          registers' = [registers EXCEPT
            !["PC"] = (@ + Advance(memory, @)) % AddrSpace, !["IX"] = r.IX, !["BC"] = r.BC]
    BY <1>3 DEF Run
  <2>3. memory' \in [Addr -> Byte]
    BY <1>1, <2>1, RunAssumption DEF Typed
  <2>4. registers' \in [Registers -> Addr]
    <3> DEFINE pc == (registers["PC"] + Advance(memory, registers["PC"])) % AddrSpace
    <3>1. registers \in [Registers -> Addr] /\ registers["PC"] \in Addr
      BY <1>1 DEF Typed, Registers
    <3>2. registers["PC"] + Advance(memory, registers["PC"]) \in Int
      <4>1. registers["PC"] \in Nat /\ Advance(memory, registers["PC"]) \in 1..4
        BY <1>1, <3>1, AddrRange, AdvanceRange DEF Typed
      <4> QED  BY <4>1
    <3>3. pc \in Addr
      BY <3>2, AddrRange
    <3>4. r.IX \in Addr /\ r.BC \in Addr
      BY RunAssumption
    <3>5. registers' = [[[registers EXCEPT !["PC"] = pc] EXCEPT !["IX"] = r.IX] EXCEPT !["BC"] = r.BC]
      BY <2>2
    <3> HIDE DEF pc
    <3> QED  BY <3>1, <3>3, <3>4, <3>5 DEF Registers
  <2>5. Typed'
    BY <1>1, <2>1, <2>3, <2>4 DEF Typed
  <2> QED
    BY <2>1, <2>5 DEF IInv, HungMeans, LaunchMeans, ListingMeans, AnswerMeans
<1>4. ASSUME NEW place \in Places, NEW skip \in Skips, Disassemble(place, skip) PROVE IInv'
  <2> DEFINE base == Base(place[1], place[2])
  <2>1. CASE Hangs(base, skip)
    <3>1. /\ hung' = base /\ answer = None /\ hung = None
          /\ memory' = memory /\ registers' = registers /\ symbols' = symbols
          /\ listing' = listing /\ answer' = answer /\ launched' = launched /\ fresh' = fresh
      BY <1>4, <2>1 DEF Disassemble, machine, program, history
    <3>2. Typed' /\ LaunchMeans' /\ ListingMeans' /\ AnswerMeans'
      BY <1>1, <3>1 DEF Typed, LaunchMeans, ListingMeans, AnswerMeans
    <3>3. Hangs(base, skip)' /\ hung' = base'
      BY <2>1, <3>1 DEF Hangs
    <3>4. HungMeans'
      BY <3>1, <3>3 DEF HungMeans
    <3> QED  BY <3>2, <3>4 DEF IInv
  <2>2. CASE ~Hangs(base, skip)
    <3>1. Answer(Instructions(base, skip))
      BY <1>4, <2>2 DEF Disassemble
    <3> QED  BY <2>2, <3>1, AnswerInv
  <2> QED  BY <2>1, <2>2
<1>5. ASSUME NEW place \in Places, ReadMemoryRequest(place) PROVE IInv'
  BY <1>5, AnswerInv DEF ReadMemoryRequest
<1>6. ASSUME NEW v \in CVariables, Variable(v) PROVE IInv'
  BY <1>6, AnswerInv DEF Variable
<1>7. ASSUME NEW e \in Expressions, EvaluateRequest(e) PROVE IInv'
  BY <1>7, AnswerInv DEF EvaluateRequest
<1>8. ASSUME StackTrace PROVE IInv'
  BY <1>8, AnswerInv DEF StackTrace
<1>9. ASSUME SourceListing PROVE IInv'
  <2>1. /\ listing' = Listing(memory) /\ answer = None /\ hung = None
        /\ memory' = memory /\ registers' = registers /\ symbols' = symbols
        /\ hung' = hung /\ answer' = answer /\ launched' = launched /\ fresh' = fresh
    BY <1>9 DEF SourceListing, machine, history
  <2>2. listing' \in Seq(Addr)
    BY <1>1, <2>1, ListingTyped DEF Typed
  <2> QED
    BY <1>1, <2>1, <2>2 DEF IInv, Typed, HungMeans, LaunchMeans, ListingMeans, AnswerMeans
<1>10. ASSUME Sent PROVE IInv'
  <2>1. /\ answer' = None
        /\ memory' = memory /\ registers' = registers /\ symbols' = symbols /\ listing' = listing
        /\ hung' = hung /\ launched' = launched /\ fresh' = fresh
    BY <1>10 DEF Sent, machine, program, history
  <2>2. HungMeans'
    BY <1>1, <2>1 DEF HungMeans, Hangs
  <2> QED  BY <1>1, <2>1, <2>2 DEF IInv, Typed, LaunchMeans, ListingMeans, AnswerMeans
<1>11. ASSUME UNCHANGED vars PROVE IInv'
  <2>1. /\ memory' = memory /\ registers' = registers /\ symbols' = symbols /\ listing' = listing
        /\ hung' = hung /\ answer' = answer /\ launched' = launched /\ fresh' = fresh
    BY <1>11 DEF vars, machine, program, history
  <2>2. HungMeans'
    BY <1>1, <2>1 DEF HungMeans, Hangs
  <2>3. AnswerMeans'
    BY <1>1, <2>1
    DEF AnswerMeans, Hangs, Instructions, WithSymbol, Contents, Valued, Evaluated, Frame
  <2> QED  BY <1>1, <2>1, <2>2, <2>3 DEF IInv, Typed, LaunchMeans, ListingMeans
<1> QED
  BY <1>2, <1>3, <1>4, <1>5, <1>6, <1>7, <1>8, <1>9, <1>10, <1>11 DEF Next

(* IInv holds in every state. *)
LEMMA Invariant == Spec => []IInv
BY InitInv, NextInv, PTL DEF Spec

-----------------------------------------------------------------------------
(* What an answer of each kind is *)
LEMMA InstructionsShown ==
  ASSUME IInv, Shows("instructions")
  PROVE  /\ answer.base \in Addr /\ answer.skip \in Int
         /\ ~Hangs(answer.base, answer.skip)
         /\ FirstRow(memory, answer.base, answer.skip) \in Addr
         /\ DOMAIN answer.rows = 1..Count
         /\ \A i \in 1..Count :
              LET a == Walk(memory, FirstRow(memory, answer.base, answer.skip))[i - 1]
              IN  /\ a \in Addr
                  /\ answer.rows[i].address = a
                  /\ answer.rows[i].symbol = LookupSymbolExact(symbols, a)
<1>1. PICK place \in Places, skip \in Skips :
        ~Hangs(Base(place[1], place[2]), skip) /\ answer = Instructions(Base(place[1], place[2]), skip)
  BY DEF IInv, AnswerMeans, Shows, Instructions, Contents, Valued, Evaluated, Frame
<1> DEFINE base == Base(place[1], place[2])
           first == FirstRow(memory, base, skip)
           w == Walk(memory, first)
           rows == Rows(memory, first, Count)
<1>2. base \in Addr /\ skip \in Int /\ memory \in [Addr -> Byte]
  BY PlaceTyped, RequestAssumption DEF IInv, Typed
<1> HIDE DEF base
<1>3. first \in Addr
  BY <1>1, <1>2, FirstRowTyped DEF Hangs, base
<1>4. /\ answer.base = base /\ answer.skip = skip
      /\ answer.rows = [i \in DOMAIN rows |-> WithSymbol(rows[i])]
  BY <1>1 DEF Instructions, base
<1> HIDE DEF first
<1>5. w \in [Nat -> Addr]
  BY <1>2, <1>3, WalkSteps
<1>6. rows = [i \in 1..Count |-> [address |-> w[i - 1], bytes |-> Bytes(memory, w[i - 1])]]
  BY DEF Rows
<1> HIDE DEF rows, w
<1>7. ASSUME NEW i \in 1..Count
      PROVE  /\ w[i - 1] \in Addr
             /\ answer.rows[i].address = w[i - 1]
             /\ answer.rows[i].symbol = LookupSymbolExact(symbols, w[i - 1])
  <2>1. i - 1 \in Nat
    BY CountAssumption
  <2>2. rows[i].address = w[i - 1] /\ answer.rows[i] = WithSymbol(rows[i])
    BY <1>4, <1>6
  <2> QED  BY <1>5, <2>1, <2>2 DEF WithSymbol
<1>8. DOMAIN answer.rows = 1..Count
  BY <1>4, <1>6
<1> QED  BY <1>1, <1>2, <1>3, <1>4, <1>7, <1>8 DEF w, first, base

(* What the answer for a C variable was computed from *)
LEMMA VariableShown ==
  ASSUME IInv, Shows("variable")
  PROVE  /\ answer.variable \in CVariables
         /\ answer.value = CVariableValue(answer.variable, memory, registers, symbols)
BY DEF IInv, AnswerMeans, Shows, Instructions, Contents, Valued, Evaluated, Frame

(* What the answer for a piece of memory was computed from *)
LEMMA MemoryShown ==
  ASSUME IInv, Shows("memory")
  PROVE  \E a \in Addr : answer.data = ReadMemory(memory, a, Count)
BY PlaceTyped DEF IInv, AnswerMeans, Shows, Instructions, Contents, Valued, Evaluated, Frame

(* What the name of the frame was computed from *)
LEMMA FrameShown ==
  ASSUME IInv, Shows("frame")
  PROVE  answer.name = LookupSymbol(symbols, registers["PC"])
BY DEF IInv, AnswerMeans, Shows, Instructions, Contents, Valued, Evaluated, Frame

-----------------------------------------------------------------------------
(* What launch, runs and requests compute fits the 16-bit values and bytes *)
(* that z80_target keeps it in: memory, registers, listing, rows, values.  *)
THEOREM InspectionTypeCorrect == Spec => []TypeOK
<1>1. IInv => TypeOK
  <2> SUFFICES ASSUME IInv PROVE TypeOK
    OBVIOUS
  <2>1. Typed /\ IsSymbols(symbols)
    BY SymbolsTyped DEF IInv, Typed
  <2>2. hung \in Addr \cup {None}
    BY PlaceTyped DEF IInv, HungMeans
  <2>3. Shows("instructions") => \A i \in DOMAIN answer.rows : answer.rows[i].address \in Addr
    BY InstructionsShown
  <2>4. Shows("memory") => answer.data \in Seq(Byte)
    BY <2>1, MemoryShown, ReadMemoryIs, CountAssumption DEF Typed
  <2>5. Shows("variable") /\ answer.value # Unknown => answer.value.hex \in Addr
    BY <2>1, VariableShown, VariableShows DEF Typed
  <2> QED  BY <2>1, <2>2, <2>3, <2>4, <2>5 DEF TypeOK, Typed, Registers
<1> QED  BY <1>1, Invariant, PTL

(* After a launch of an IHX file and until the program runs, every address *)
(* holds what the last record that covers it says, and 0 where none does:  *)
(* load_ihx leaves nothing of the program before.                          *)
THEOREM FilesAreLoadedFaithfully == Spec => []LoadedFaithfully
<1>1. IInv => LoadedFaithfully
  <2> SUFFICES ASSUME IInv, JustLaunched, launched.program.kind = "ihx", NEW a \in Addr
               PROVE  memory[a] = Says(launched.program.records, a)
    BY DEF LoadedFaithfully
  <2>1. PICK p \in Programs : launched.program = p /\ memory = Loaded(p)
    BY DEF IInv, LaunchMeans, JustLaunched
  <2>2. p.records \in Seq(Records) /\ memory = LoadIhx(p.records).memory
    BY <2>1, ProgramAssumption DEF Loaded
  <2> QED  BY <2>1, <2>2, LoadIhxSays
<1> QED  BY <1>1, Invariant, PTL

(* A file without a start record, launched without a start address, is     *)
(* entered at the lowest byte it puts in memory, whatever it holds above   *)
(* 64 KB (the end of load_ihx).                                            *)
THEOREM ProgramsAreEntered == Spec => []EntryIsLoaded
<1>1. IInv => EntryIsLoaded
  <2> SUFFICES ASSUME IInv, JustLaunched, launched.program.kind = "ihx", launched.start = NoStart,
                      StartRecords(launched.program.records) = {},
                      Unwrapped(launched.program.records), Covered(launched.program.records) # {}
               PROVE  registers["PC"] = Min(Covered(launched.program.records))
    BY DEF EntryIsLoaded
  <2>1. PICK p \in Programs : launched.program = p /\ registers["PC"] = EntryPoint(p, NoStart)
    BY DEF IInv, LaunchMeans, JustLaunched
  <2>2. p.records \in Seq(Records) /\ registers["PC"] = IhxEntry(LoadIhx(p.records))
    BY <2>1, ProgramAssumption DEF EntryPoint
  <2> QED  BY <2>1, <2>2, IhxEntryLowest
<1> QED  BY <1>1, Invariant, PTL

(* The sweep of a backward disassembly (z80_target::disassemble) fails to  *)
(* end only for addresses within seven bytes of the top of memory, and     *)
(* never ends for the last four.                                           *)
THEOREM SweepsHangAtTopOnly == Spec => []HangsOnlyAtTop
<1>1. IInv => HangsOnlyAtTop
  <2> SUFFICES ASSUME IInv PROVE HangsOnlyAtTop
    OBVIOUS
  <2>1. memory \in [Addr -> Byte]
    BY DEF IInv, Typed
  <2>2. ASSUME hung # None PROVE hung >= AddrSpace - 7
    <3>1. PICK place \in Places, skip \in Skips :
            hung = Base(place[1], place[2]) /\ skip < 0 /\ Endless(memory, hung, -skip)
      BY <2>2 DEF IInv, HungMeans, Hangs
    <3>2. hung \in Addr /\ -skip \in Nat
      BY <3>1, PlaceTyped, RequestAssumption
    <3> QED  BY <2>1, <3>1, <3>2, EndlessAtTop
  <2>3. ASSUME Shows("instructions"), answer.skip < 0 PROVE answer.base < AddrSpace - 4
    <3>1. answer.base \in Addr /\ answer.skip \in Int /\ ~Endless(memory, answer.base, -answer.skip)
      BY <2>3, InstructionsShown DEF Hangs
    <3>2. -answer.skip \in Nat
      BY <2>3, <3>1
    <3> QED  BY <2>1, <3>1, <3>2, EndlessUnless
  <2> QED  BY <2>2, <2>3 DEF HangsOnlyAtTop
<1> QED  BY <1>1, Invariant, PTL

(* The row of a backward disassembly in which the client looks for the     *)
(* address it asked for is there or at most three bytes past it, and right *)
(* there whenever the sweep meets that address; it comes earlier only if   *)
(* the rows begin at the bottom of memory (disassemble).                   *)
THEOREM BackwardDisassemblyLands == Spec => []BackwardLands
<1>1. IInv => BackwardLands
  <2> DEFINE k == -answer.skip
             base == answer.base
             w == Walk(memory, SweepFrom(base, k))
             shown(i) == answer.rows[i + 1].address
             first(i) == Walk(memory, BackFrom(memory, base, k))[i]
  <2> SUFFICES ASSUME IInv, Shows("instructions"), k \in 1..(Count - 1)
               PROVE  \E i \in 0..k :
                        /\ i < k => base < 4 * k /\ shown(0) = 0
                        /\ \A j \in 0..(i - 1) : shown(j) < base
                        /\ shown(i) \in base..(base + 3)
                        /\ (\E n \in 0..(4 * k) :
                              w[n] = base /\ \A j \in 0..(n - 1) : w[j] < base)
                             => shown(i) = base
    BY DEF BackwardLands, SweepFrom
  <2>1. memory \in [Addr -> Byte] /\ base \in Addr /\ answer.skip \in Int
    BY InstructionsShown DEF IInv, Typed
  <2>2. k \in Nat /\ answer.skip < 0 /\ \A i \in 0..k : i + 1 \in 1..Count /\ (i + 1) - 1 = i
    BY <2>1, CountAssumption
  <2>3. ~Endless(memory, base, k)
    BY <2>2, InstructionsShown DEF Hangs
  <2>4. FirstRow(memory, base, answer.skip) = BackFrom(memory, base, k)
    BY <2>2 DEF FirstRow
  <2>5. \A i \in 0..k : shown(i) = first(i)
    BY <2>2, <2>4, InstructionsShown
  <2> HIDE DEF base, k, shown, first
  <2>6. PICK i \in 0..k :
          /\ i < k => base < 4 * k /\ first(0) = 0
          /\ \A j \in 0..(i - 1) : first(j) < base
          /\ first(i) \in base..(base + 3)
          /\ \A n \in Nat : w[n] = base /\ (\A j \in 0..(n - 1) : w[j] < base) => first(i) = base
    BY <2>1, <2>2, <2>3, BackwardRow DEF first
  <2>7. 0..(4 * k) \subseteq Nat /\ 0 \in 0..k /\ 0..(i - 1) \subseteq 0..k
    BY <2>2
  <2>8. /\ i < k => base < 4 * k /\ shown(0) = 0
        /\ \A j \in 0..(i - 1) : shown(j) < base
        /\ shown(i) \in base..(base + 3)
    BY <2>5, <2>6, <2>7
  <2>9. (\E n \in 0..(4 * k) : w[n] = base /\ \A j \in 0..(n - 1) : w[j] < base)
          => shown(i) = base
    BY <2>5, <2>6, <2>7
  <2> QED  BY <2>8, <2>9
<1> QED  BY <1>1, Invariant, PTL

(* A forward disassembly from a line of the listing shows the lines that   *)
(* follow in the listing (disassemble and build_listing).                  *)
THEOREM ListingIsDisassembly == Spec => []ListingAgrees
<1>1. IInv => ListingAgrees
  <2> DEFINE line(i, row) == i + answer.skip + row - 1
  <2> SUFFICES ASSUME IInv, fresh, Shows("instructions"), answer.skip >= 0,
                      NEW i \in DOMAIN listing, NEW row \in 1..Count,
                      listing[i] = answer.base, line(i, row) <= Len(listing)
               PROVE  answer.rows[row].address = listing[line(i, row)]
    BY DEF ListingAgrees
  <2> DEFINE skip == answer.skip
             j == skip + (row - 1)
  <2>1. memory \in [Addr -> Byte] /\ answer.base \in Addr /\ skip \in Nat
    BY InstructionsShown DEF IInv, Typed
  <2>2. listing = Listing(memory)
    BY DEF IInv, ListingMeans
  <2>3. row - 1 \in Nat /\ j \in Nat /\ listing \in Seq(Addr)
    BY <2>1, CountAssumption DEF IInv, Typed
  <2>4. i \in Nat /\ line(i, row) = i + j
    BY <2>1, <2>3
  <2>5. answer.rows[row].address = Walk(memory, Walk(memory, answer.base)[skip])[row - 1]
    <3>1. FirstRow(memory, answer.base, skip) = Walk(memory, answer.base)[skip]
      BY <2>1 DEF FirstRow
    <3> QED  BY <3>1, InstructionsShown
  <2>6. Walk(memory, Walk(memory, answer.base)[skip])[row - 1] = Walk(memory, answer.base)[j]
    BY <2>1, <2>3, WalkShift
  <2>7. Walk(memory, listing[i])[j] = listing[i + j]
    BY <2>1, <2>2, <2>3, <2>4, ListingIsWalk
  <2> QED  BY <2>4, <2>5, <2>6, <2>7
<1> QED  BY <1>1, Invariant, PTL

(* The low word of a C variable, readMemory at its place and evaluate of   *)
(* its address show the same bytes, cut alike at the top of memory         *)
(* (c_variable_value, read_memory, evaluate).                              *)
THEOREM ViewsOfMemoryAgree == Spec => []ViewsAgree
<1>1. IInv => ViewsAgree
  <2> DEFINE v == answer.variable
             a == AddressOf(v, registers, symbols)
  <2> SUFFICES ASSUME IInv, Shows("variable"), a # Unknown
               PROVE  SameBytes(answer.value.hex, memory, a, v.size, registers, symbols)
    BY DEF ViewsAgree, SameBytes
  <2>1. memory \in [Addr -> Byte] /\ registers \in [Registers -> Addr] /\ IsSymbols(symbols)
    BY SymbolsTyped DEF IInv, Typed
  <2>2. v \in CVariables /\ answer.value = CVariableValue(v, memory, registers, symbols)
    BY VariableShown
  <2> HIDE DEF v
  <2>3. a \in Addr /\ v.size \in 1..4
    BY <2>1, <2>2, AddressTyped, RequestAssumption
  <2>4. answer.value.hex = ReadWide(memory, a, v.size) % AddrSpace
    BY <2>1, <2>2, VariableShows
  <2> HIDE DEF a
  <2>5. SameBytes(ReadWide(memory, a, v.size) % AddrSpace, memory, a, v.size, registers, symbols)
    BY <2>1, <2>3, ViewsOfAddress
  <2> QED  BY <2>4, <2>5
<1> QED  BY <1>1, Invariant, PTL

(* No program has one name at two places (a linker gives a global symbol   *)
(* one address; the labels of a MAP file may repeat between modules).      *)
NamesAreUnique == \A p \in Programs : Unique(p.symbols)

(* The name shown for an address (lookup_symbol) leads evaluate back to    *)
(* that address, unless a register or the name of a C object hides it      *)
(* (lookup_symbol_exact and evaluate).                                     *)
THEOREM SymbolsLeadBack == NamesAreUnique => (Spec => []SymbolsAgree)
<1> SUFFICES ASSUME NamesAreUnique PROVE Spec => []SymbolsAgree
  OBVIOUS
<1>1. IInv => SymbolsAgree
  <2> SUFFICES ASSUME IInv PROVE SymbolsAgree
    OBVIOUS
  <2>1. IsSymbols(symbols) /\ registers["PC"] \in Addr
    BY SymbolsTyped DEF IInv, Typed, Registers
  <2>2. Unique(symbols)
    BY DEF NamesAreUnique, Unique, IInv, Typed
  <2>3. ASSUME Shows("instructions"), NEW i \in DOMAIN answer.rows,
               answer.rows[i].symbol # Unknown
        PROVE  LeadsTo(answer.rows[i].symbol, answer.rows[i].address)
    <3>1. answer.rows[i].symbol = LookupSymbolExact(symbols, answer.rows[i].address)
      BY <2>3, InstructionsShown
    <3>2. PICK j \in DOMAIN symbols :
            answer.rows[i].symbol = Written(symbols[j]) /\ Where(symbols[j]) = answer.rows[i].address
      BY <2>1, <2>3, <3>1, ExactIsThere
    <3> QED  BY <2>1, <2>2, <3>2, NameLeads
  <2>4. ASSUME Shows("frame"), answer.name # Unknown
        PROVE  LeadsTo(answer.name.symbol, registers["PC"] - answer.name.offset)
    <3>1. answer.name = LookupSymbol(symbols, registers["PC"])
      BY <2>4, FrameShown
    <3>2. PICK j \in DOMAIN symbols :
            /\ answer.name.symbol = Written(symbols[j])
            /\ Where(symbols[j]) = registers["PC"] - answer.name.offset
      BY <2>1, <2>4, <3>1, NearestIsThere
    <3> QED  BY <2>1, <2>2, <3>2, NameLeads
  <2> QED  BY <2>3, <2>4 DEF SymbolsAgree
<1> QED  BY <1>1, Invariant, PTL
=============================================================================
