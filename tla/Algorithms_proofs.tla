-------------------------- MODULE Algorithms_proofs --------------------------
(***************************************************************************)
(* Proofs about the four parts of MCAlgorithms.  Their loops are recursive *)
(* functions; what such a function has at an index is shown by induction   *)
(* over the indices, and that there is one by building it up to each.      *)
(* The utilities come first (casts, text, buffers), then the checksum, the *)
(* election and the state transfer, and last the run that has them all.    *)
(***************************************************************************)
EXTENDS MCAlgorithms, FiniteSetTheorems, SequenceTheorems, WellFoundedInduction,
        NaturalsInduction, TLAPS

-----------------------------------------------------------------------------
(* Loops *)

\* A nonempty set of naturals has a least element.
LEMMA LeastElement ==
  ASSUME NEW S \in SUBSET Nat, S # {}
  PROVE  \E x \in S : \A y \in S : x <= y
<1> DEFINE R == OpToRel(<, Nat)
<1>1. IsWellFoundedOn(R, Nat)
  BY NatLessThanWellFounded
<1> HIDE DEF R
<1>2. PICK x \in S : \A y \in S : ~ (<<y, x>> \in R)
  BY <1>1, WFMin
<1>3. ASSUME NEW y \in S, y < x PROVE <<y, x>> \in R
  BY <1>3 DEF R, OpToRel
<1>4. \A y \in S : ~(y < x)
  BY <1>2, <1>3
<1> QED
  BY <1>4

\* A set of indices that has 0, and every index whose predecessor it has, has
\* all of them.
LEMMA EveryIndex ==
  ASSUME NEW n \in Nat, NEW P \in SUBSET (0..n), 0 \in P,
         \A i \in 1..n : i - 1 \in P => i \in P
  PROVE  P = 0..n
<1> DEFINE missing == (0..n) \ P
<1> SUFFICES ASSUME missing # {} PROVE FALSE
  OBVIOUS
<1>1. missing \in SUBSET Nat
  OBVIOUS
<1>2. PICK x \in missing : \A y \in missing : x <= y
  BY <1>1, LeastElement
<1>3. x \in 1..n /\ x - 1 \in 0..n /\ ~(x <= x - 1)
  BY <1>2
<1> QED
  BY <1>2, <1>3

\* S has a function from V to V for each of the n passes of a loop; f is what
\* the loop has after each pass, if it starts with v0.
Passes(S, n, V) == S \in [1..n -> [V -> V]]
Results(f, S, n, V, v0) ==
  f \in [0..n -> V] /\ f[0] = v0 /\ \A i \in 1..n : f[i] = S[i][f[i - 1]]

\* Every loop has results.
LEMMA LoopResult ==
  ASSUME NEW n \in Nat, NEW V, NEW S, Passes(S, n, V), NEW v0 \in V
  PROVE  \E f : Results(f, S, n, V, v0)
<1> USE DEF Passes
<1> DEFINE Upto(m, f) == f \in [0..m -> V] /\ f[0] = v0 /\ \A i \in 1..m : f[i] = S[i][f[i - 1]]
           P == {m \in 0..n : \E f : Upto(m, f)}
<1>1. 0 \in P
  <2>1. Upto(0, [i \in 0..0 |-> v0])
    OBVIOUS
  <2> HIDE DEF Upto
  <2> QED
    BY <2>1
<1>2. ASSUME NEW m \in 1..n, m - 1 \in P PROVE m \in P
  <2>1. PICK f : Upto(m - 1, f)
    BY <1>2
  <2> DEFINE g == [i \in 0..m |-> IF i = m THEN S[m][f[m - 1]] ELSE f[i]]
  <2>2. m - 1 \in 0..(m - 1) /\ S[m][f[m - 1]] \in V
    BY <2>1
  <2>3. g \in [0..m -> V] /\ g[0] = v0
    BY <2>1, <2>2
  <2>4. ASSUME NEW i \in 1..m PROVE g[i] = S[i][g[i - 1]]
    <3>1. CASE i = m
      BY <3>1
    <3>2. CASE i # m
      <4>1. i \in 1..(m - 1) /\ i \in 0..m /\ i - 1 \in 0..m /\ i - 1 # m
        BY <3>2
      <4>2. g[i] = f[i] /\ g[i - 1] = f[i - 1]
        BY <3>2, <4>1
      <4> QED
        BY <2>1, <4>1, <4>2
    <3> QED
      BY <3>1, <3>2
  <2>5. Upto(m, g)
    <3> HIDE DEF g
    <3> QED
      BY <2>3, <2>4
  <2> HIDE DEF Upto, g
  <2> QED
    BY <2>5
<1>3. P = 0..n
  <2>1. P \in SUBSET (0..n)
    OBVIOUS
  <2> HIDE DEF P
  <2> QED
    BY <1>1, <1>2, <2>1, EveryIndex
<1>4. PICK f : Upto(n, f)
  BY <1>3
<1>5. Results(f, S, n, V, v0)
  BY <1>4 DEF Results
<1> QED
  BY <1>5

\* A set of numbers that has 0 and the successor of each has all of them.
LEMMA EveryNumber ==
  ASSUME NEW P \in SUBSET Nat, 0 \in P, \A n \in Nat : n \in P => n + 1 \in P
  PROVE  P = Nat
<1> DEFINE missing == Nat \ P
<1> SUFFICES ASSUME missing # {} PROVE FALSE
  OBVIOUS
<1>1. missing \in SUBSET Nat
  OBVIOUS
<1>2. PICK x \in missing : \A y \in missing : x <= y
  BY <1>1, LeastElement
<1>3. x - 1 \in Nat /\ ~(x <= x - 1) /\ (x - 1) + 1 = x
  BY <1>2
<1> QED
  BY <1>2, <1>3

\* A set of numbers that has every number all smaller ones of which it has.
LEMMA EverySmaller ==
  ASSUME NEW P \in SUBSET Nat, \A n \in Nat : (\A m \in 0..(n - 1) : m \in P) => n \in P
  PROVE  P = Nat
<1> DEFINE missing == Nat \ P
<1> SUFFICES ASSUME missing # {} PROVE FALSE
  OBVIOUS
<1>1. missing \in SUBSET Nat
  OBVIOUS
<1>2. PICK x \in missing : \A y \in missing : x <= y
  BY <1>1, LeastElement
<1>3. \A m \in 0..(x - 1) : m \in Nat /\ ~(x <= m)
  BY <1>2
<1> QED
  BY <1>2, <1>3

\* A recursion over the numbers: below k the value is base's, from there on it
\* comes from the value at the smaller number h[v].
Descends(h, k) == k \in Nat \ {0} /\ h \in [Nat -> Nat] /\ \A v \in Nat : v >= k => h[v] < v
Recursion(base, S, V) == base \in [Nat -> V] /\ S \in [Nat -> [V -> V]]
Solves(f, base, S, h, k, V) ==
  f \in [Nat -> V] /\ \A v \in Nat : f[v] = IF v < k THEN base[v] ELSE S[v][f[h[v]]]

\* Every such recursion has a solution.
LEMMA RecursionResult ==
  ASSUME NEW V, NEW base, NEW S, NEW h, NEW k, Descends(h, k), Recursion(base, S, V)
  PROVE  \E f : Solves(f, base, S, h, k, V)
<1> DEFINE Upto(m, f) == /\ f \in [0..m -> V]
                         /\ \A v \in 0..m : f[v] = IF v < k THEN base[v] ELSE S[v][f[h[v]]]
           P == {m \in Nat : \E f : Upto(m, f)}
<1>1. /\ k \in Nat \ {0} /\ \A v \in Nat : h[v] \in Nat /\ (v >= k => h[v] < v)
      /\ \A v \in Nat : base[v] \in V /\ \A x \in V : S[v][x] \in V
  BY DEF Descends, Recursion
<1>2. 0 \in P
  <2>1. Upto(0, [i \in 0..0 |-> base[0]])
    BY <1>1
  <2> HIDE DEF Upto
  <2> QED
    BY <2>1
<1>3. ASSUME NEW n \in Nat, n \in P PROVE n + 1 \in P
  <2>1. PICK f : Upto(n, f)
    BY <1>3
  <2> DEFINE last == IF n + 1 < k THEN base[n + 1] ELSE S[n + 1][f[h[n + 1]]]
             g == [i \in 0..(n + 1) |-> IF i = n + 1 THEN last ELSE f[i]]
  <2>2. last \in V
    <3>1. CASE n + 1 < k
      BY <1>1, <3>1
    <3>2. CASE ~(n + 1 < k)
      <4>1. n + 1 \in Nat /\ h[n + 1] \in 0..n
        BY <1>1, <3>2
      <4>2. f[h[n + 1]] \in V
        BY <2>1, <4>1
      <4> QED
        BY <1>1, <3>2, <4>1, <4>2
    <3> QED
      BY <3>1, <3>2
  <2> HIDE DEF last
  <2>3. g \in [0..(n + 1) -> V]
    BY <2>1, <2>2
  <2>4. ASSUME NEW v \in 0..(n + 1)
        PROVE  g[v] = IF v < k THEN base[v] ELSE S[v][g[h[v]]]
    <3>1. v >= k => h[v] \in 0..n
      BY <1>1
    <3>2. v >= k => g[h[v]] = f[h[v]]
      BY <3>1
    <3>3. CASE v = n + 1
      BY <1>1, <3>2, <3>3 DEF last
    <3>4. CASE v # n + 1
      <4>1. v \in 0..n /\ g[v] = f[v]
        BY <3>4
      <4> QED
        BY <1>1, <2>1, <3>2, <4>1
    <3> QED
      BY <3>3, <3>4
  <2>5. Upto(n + 1, g)
    <3> HIDE DEF g
    <3> QED
      BY <2>3, <2>4
  <2> HIDE DEF Upto, g
  <2> QED
    BY <2>5
<1>4. P = Nat
  <2>1. P \in SUBSET Nat
    OBVIOUS
  <2> HIDE DEF P
  <2> QED
    BY <1>2, <1>3, <2>1, EveryNumber
<1>5. ASSUME NEW m \in Nat, NEW n \in Nat, NEW f, NEW g, Upto(m, f), Upto(n, g)
      PROVE  \A v \in Nat : v <= m /\ v <= n => f[v] = g[v]
  <2> DEFINE Q == {v \in Nat : v <= m /\ v <= n => f[v] = g[v]}
  <2>1. ASSUME NEW v \in Nat, \A u \in 0..(v - 1) : u \in Q PROVE v \in Q
    <3> SUFFICES ASSUME v <= m, v <= n PROVE f[v] = g[v]
      OBVIOUS
    <3>1. v \in 0..m /\ v \in 0..n
      OBVIOUS
    <3>2. /\ f[v] = IF v < k THEN base[v] ELSE S[v][f[h[v]]]
          /\ g[v] = IF v < k THEN base[v] ELSE S[v][g[h[v]]]
      BY <1>5, <3>1
    <3>3. CASE v < k
      BY <3>2, <3>3
    <3>4. CASE ~(v < k)
      <4>1. h[v] \in 0..(v - 1) /\ h[v] \in Nat /\ h[v] <= m /\ h[v] <= n
        BY <1>1, <3>4
      <4>2. f[h[v]] = g[h[v]]
        BY <2>1, <4>1
      <4> QED
        BY <3>2, <3>4, <4>2
    <3> QED
      BY <3>3, <3>4
  <2>2. Q = Nat
    <3>1. Q \in SUBSET Nat
      OBVIOUS
    <3> HIDE DEF Q
    <3> QED
      BY <2>1, <3>1, EverySmaller
  <2> QED
    BY <2>2
<1> DEFINE at(v) == CHOOSE f : Upto(v, f)
           F == [v \in Nat |-> at(v)[v]]
<1>6. ASSUME NEW v \in Nat PROVE Upto(v, at(v))
  <2>1. \E f : Upto(v, f)
    BY <1>4
  <2> HIDE DEF Upto
  <2> QED
    BY <2>1
<1>7. ASSUME NEW v \in Nat
      PROVE  F[v] \in V /\ F[v] = IF v < k THEN base[v] ELSE S[v][F[h[v]]]
  <2> HIDE DEF at
  <2>1. v \in 0..v /\ F[v] = at(v)[v] /\ Upto(v, at(v))
    BY <1>6
  <2>2. F[v] \in V /\ F[v] = IF v < k THEN base[v] ELSE S[v][at(v)[h[v]]]
    BY <2>1
  <2>3. ASSUME v >= k PROVE at(v)[h[v]] = F[h[v]]
    <3>1. h[v] \in Nat /\ h[v] <= v /\ h[v] <= h[v] /\ F[h[v]] = at(h[v])[h[v]]
      BY <1>1, <2>3
    <3>2. Upto(h[v], at(h[v]))
      BY <1>6, <3>1
    <3> HIDE DEF Upto, F
    <3> QED
      BY <1>5, <2>1, <3>1, <3>2
  <2> HIDE DEF F
  <2> QED
    BY <1>1, <2>2, <2>3
<1>8. Solves(F, base, S, h, k, V)
  <2>1. F \in [Nat -> V]
    <3>1. F = [v \in Nat |-> F[v]]
      OBVIOUS
    <3> HIDE DEF F
    <3> QED
      BY <1>7, <3>1
  <2> HIDE DEF F
  <2> QED
    BY <1>7, <2>1 DEF Solves
<1> QED
  BY <1>8

-----------------------------------------------------------------------------
(* Powers of two *)

\* What 2^n is.
LEMMA Pow2Facts ==
  /\ Pow2[0] = 1
  /\ \A n \in Nat : Pow2[n] \in Nat \ {0} /\ Pow2[n + 1] = 2 * Pow2[n]
<1> DEFINE base == [v \in Nat |-> 1]
           S == [v \in Nat |-> [x \in Nat |-> 2 * x]]
           h == [v \in Nat |-> IF v = 0 THEN 0 ELSE v - 1]
<1>1. Descends(h, 1) /\ Recursion(base, S, Nat)
  BY DEF Descends, Recursion
<1>2. PICK f : Solves(f, base, S, h, 1, Nat)
  <2> HIDE DEF base, S, h
  <2> QED
    BY <1>1, RecursionResult
<1>3. f \in [Nat -> Nat] /\ \A v \in Nat : f[v] = IF v = 0 THEN 1 ELSE 2 * f[v - 1]
  <2>1. f \in [Nat -> Nat]
    BY <1>2 DEF Solves
  <2>2. ASSUME NEW v \in Nat PROVE f[v] = IF v = 0 THEN 1 ELSE 2 * f[v - 1]
    <3>1. f[v] = IF v < 1 THEN base[v] ELSE S[v][f[h[v]]]
      <4> HIDE DEF base, S, h
      <4> QED
        BY <1>2 DEF Solves
    <3>2. CASE v = 0
      BY <3>1, <3>2
    <3>3. CASE v # 0
      <4>1. ~(v < 1) /\ h[v] = v - 1 /\ v - 1 \in Nat
        BY <3>3
      <4>2. f[v - 1] \in Nat
        BY <2>1, <4>1
      <4> QED
        BY <3>1, <3>3, <4>1, <4>2
    <3> QED
      BY <3>2, <3>3
  <2> QED
    BY <2>1, <2>2
<1>4. f = [n \in Nat |-> IF n = 0 THEN 1 ELSE 2 * f[n - 1]]
  BY <1>3
<1>5. Pow2 = [n \in Nat |-> IF n = 0 THEN 1 ELSE 2 * Pow2[n - 1]]
  BY <1>4, Zenon DEF Pow2
<1>6. Pow2[0] = 1 /\ \A n \in Nat : Pow2[n + 1] = 2 * Pow2[n]
  <2>1. 0 \in Nat /\ \A n \in Nat : n + 1 \in Nat /\ n + 1 # 0 /\ (n + 1) - 1 = n
    OBVIOUS
  <2>2. \A n \in Nat : Pow2[n] = IF n = 0 THEN 1 ELSE 2 * Pow2[n - 1]
    BY <1>5
  <2> QED
    BY <2>1, <2>2
<1> DEFINE P == {n \in Nat : Pow2[n] \in Nat \ {0}}
<1>7. 0 \in P /\ \A n \in Nat : n \in P => n + 1 \in P
  BY <1>6
<1>8. P = Nat
  <2>1. P \in SUBSET Nat
    OBVIOUS
  <2> HIDE DEF P
  <2> QED
    BY <1>7, <2>1, EveryNumber
<1> QED
  BY <1>6, <1>8

\* It grows with n.
LEMMA Pow2Grows ==
  ASSUME NEW m \in Nat, NEW n \in Nat
  PROVE  Pow2[m] <= Pow2[m + n]
<1> DEFINE P == {d \in Nat : Pow2[m] <= Pow2[m + d]}
<1>1. 0 \in P
  BY Pow2Facts
<1>2. ASSUME NEW d \in Nat, d \in P PROVE d + 1 \in P
  <2>1. m + d \in Nat /\ m + (d + 1) = (m + d) + 1
    OBVIOUS
  <2>2. Pow2[m] \in Nat /\ Pow2[m + d] \in Nat /\ Pow2[(m + d) + 1] = 2 * Pow2[m + d]
    BY <2>1, Pow2Facts
  <2>3. Pow2[m] <= Pow2[(m + d) + 1]
    BY <1>2, <2>2
  <2> QED
    BY <2>1, <2>3
<1>3. P = Nat
  <2>1. P \in SUBSET Nat
    OBVIOUS
  <2> HIDE DEF P
  <2> QED
    BY <1>1, <1>2, <2>1, EveryNumber
<1> QED
  BY <1>3

\* The power of a sum.
LEMMA Pow2Product ==
  ASSUME NEW m \in Nat, NEW n \in Nat
  PROVE  Pow2[m + n] = Pow2[m] * Pow2[n]
<1> DEFINE P == {d \in Nat : Pow2[m + d] = Pow2[m] * Pow2[d]}
<1>1. 0 \in P
  BY Pow2Facts
<1>2. ASSUME NEW d \in Nat, d \in P PROVE d + 1 \in P
  <2>1. m + d \in Nat /\ m + (d + 1) = (m + d) + 1
    OBVIOUS
  <2>2. /\ Pow2[m] \in Nat /\ Pow2[d] \in Nat
        /\ Pow2[(m + d) + 1] = 2 * Pow2[m + d] /\ Pow2[d + 1] = 2 * Pow2[d]
    BY <2>1, Pow2Facts
  <2>3. Pow2[m + d] = Pow2[m] * Pow2[d]
    BY <1>2
  <2>4. \A x, y \in Nat : 2 * (x * y) = x * (2 * y)
    OBVIOUS
  <2>5. Pow2[(m + d) + 1] = Pow2[m] * Pow2[d + 1]
    BY <2>2, <2>3, <2>4
  <2> QED
    BY <2>1, <2>5
<1>3. P = Nat
  <2>1. P \in SUBSET Nat
    OBVIOUS
  <2> HIDE DEF P
  <2> QED
    BY <1>1, <1>2, <2>1, EveryNumber
<1> QED
  BY <1>3

-----------------------------------------------------------------------------
(* Casts *)

\* The sizes of the types, in order.
LEMMA Sizes ==
  /\ \A w \in {W8, W16, W32, W64, WSIZE} :
       /\ w \in Nat \ {0} /\ Pow2[w - 1] \in Nat \ {0} /\ Pow2[w] = 2 * Pow2[w - 1]
  /\ 2 * Pow2[W8 - 1] <= Pow2[W16 - 1]
  /\ 2 * Pow2[W16 - 1] <= Pow2[W32 - 1]
  /\ 2 * Pow2[W32 - 1] <= Pow2[W64 - 1]
  /\ Pow2[W32] * Pow2[W32] <= Pow2[W64]
<1>1. ASSUME NEW w \in Nat \ {0}
      PROVE  w - 1 \in Nat /\ Pow2[w - 1] \in Nat \ {0} /\ Pow2[w] = 2 * Pow2[w - 1]
  <2>1. w - 1 \in Nat /\ (w - 1) + 1 = w
    OBVIOUS
  <2> QED
    BY <2>1, Pow2Facts
<1>2. /\ {W8, W16, W32, W64, WSIZE} \subseteq Nat \ {0}
      /\ W8 < W16 /\ W16 < W32 /\ W32 < W64 /\ 2 * W32 <= W64
  BY WidthAssumption
<1>3. ASSUME NEW v \in Nat \ {0}, NEW w \in Nat \ {0}, v < w
      PROVE  2 * Pow2[v - 1] <= Pow2[w - 1]
  <2>1. v \in Nat /\ (w - 1) - v \in Nat /\ v + ((w - 1) - v) = w - 1
    BY <1>3
  <2>2. Pow2[v] <= Pow2[v + ((w - 1) - v)]
    BY <2>1, Pow2Grows
  <2> QED
    BY <1>1, <2>1, <2>2
<1>4. Pow2[W32] * Pow2[W32] <= Pow2[W64]
  <2>1. W32 \in Nat /\ W32 + W32 \in Nat /\ W64 - (W32 + W32) \in Nat
        /\ (W32 + W32) + (W64 - (W32 + W32)) = W64
    BY <1>2
  <2>2. Pow2[W32 + W32] = Pow2[W32] * Pow2[W32]
    BY <2>1, Pow2Product
  <2>3. Pow2[W32 + W32] <= Pow2[(W32 + W32) + (W64 - (W32 + W32))]
    BY <2>1, Pow2Grows
  <2> QED
    BY <2>1, <2>2, <2>3
<1> QED
  BY <1>1, <1>2, <1>3, <1>4

\* A number below n is its own remainder.
LEMMA ModSmall ==
  ASSUME NEW n \in Nat \ {0}, NEW v \in 0..(n - 1)
  PROVE  v % n = v
  OBVIOUS

\* Every type has 2 * half values, half of them negative if it is signed.
LEMMA Ranges ==
  ASSUME NEW t \in Types
  PROVE  LET half == Pow2[Width[t] - 1]
         IN  /\ half \in Nat \ {0} /\ Pow2[Width[t]] = 2 * half
             /\ MinOf(t) = (IF t \in Signed THEN -half ELSE 0)
             /\ MaxOf(t) = (IF t \in Signed THEN half - 1 ELSE 2 * half - 1)
<1>1. Width[t] \in {W8, W16, W32, W64, WSIZE}
  BY DEF Types, Width
<1>2. Pow2[Width[t] - 1] \in Nat \ {0} /\ Pow2[Width[t]] = 2 * Pow2[Width[t] - 1]
  BY <1>1, Sizes
<1> QED
  BY <1>2 DEF MinOf, MaxOf

\* The ends of a type are integers with 0 between them.
LEMMA RangeTypes ==
  ASSUME NEW t \in Types
  PROVE  /\ MinOf(t) \in Int /\ MaxOf(t) \in Nat /\ MinOf(t) <= 0
         /\ \A v : v \in Values(t) <=> v \in Int /\ MinOf(t) <= v /\ v <= MaxOf(t)
<1>1. MinOf(t) \in Int /\ MaxOf(t) \in Nat /\ MinOf(t) <= 0
  BY Ranges
<1> QED
  BY <1>1 DEF Values

\* The C cast changes no value of its type.
LEMMA CCastExact ==
  ASSUME NEW t \in Types, NEW v \in Values(t)
  PROVE  CCast(v, t) = v
<1> DEFINE half == Pow2[Width[t] - 1]
<1>1. half \in Nat \ {0} /\ Pow2[Width[t]] = 2 * half
  BY Ranges
<1>2. /\ v \in Int /\ (t \in Signed => v \in (-half)..(half - 1))
      /\ (~(t \in Signed) => v \in 0..(2 * half - 1))
  BY Ranges, RangeTypes
<1> HIDE DEF half
<1>3. CASE t \in Signed
  <2>1. v + half \in 0..(2 * half - 1) /\ 2 * half \in Nat \ {0}
    BY <1>1, <1>2, <1>3
  <2>2. (v + half) % (2 * half) = v + half
    BY <2>1, ModSmall
  <2>3. (v + half) - half = v
    BY <1>1, <1>2
  <2> QED
    BY <1>1, <1>3, <2>2, <2>3 DEF CCast, half
<1>4. CASE ~(t \in Signed)
  <2>1. v \in 0..(2 * half - 1) /\ 2 * half \in Nat \ {0}
    BY <1>1, <1>2, <1>4
  <2> QED
    BY <1>1, <1>4, <2>1, ModSmall DEF CCast, half
<1> QED
  BY <1>3, <1>4

\* The ends of every type from the four halves.
LEMMA AllRanges ==
  LET a == Pow2[W8 - 1]
      b == Pow2[W16 - 1]
      c == Pow2[W32 - 1]
      d == Pow2[W64 - 1]
      z == Pow2[WSIZE - 1]
  IN  /\ {a, b, c, d, z} \subseteq Nat \ {0}
      /\ 2 * a <= b /\ 2 * b <= c /\ 2 * c <= d
      /\ (WSIZE = W32 /\ z = c /\ WSIZE < W64) \/ (WSIZE = W64 /\ z = d)
      /\ MinOf("i8") = -a /\ MaxOf("i8") = a - 1
      /\ MinOf("i16") = -b /\ MaxOf("i16") = b - 1
      /\ MinOf("i32") = -c /\ MaxOf("i32") = c - 1
      /\ MinOf("i64") = -d /\ MaxOf("i64") = d - 1
      /\ MinOf("u8") = 0 /\ MaxOf("u8") = 2 * a - 1
      /\ MinOf("u16") = 0 /\ MaxOf("u16") = 2 * b - 1
      /\ MinOf("u32") = 0 /\ MaxOf("u32") = 2 * c - 1
      /\ MinOf("u64") = 0 /\ MaxOf("u64") = 2 * d - 1
      /\ MinOf("size") = 0 /\ MaxOf("size") = 2 * z - 1
<1>1. /\ Width["i8"] = W8 /\ Width["i16"] = W16 /\ Width["i32"] = W32 /\ Width["i64"] = W64
      /\ Width["u8"] = W8 /\ Width["u16"] = W16 /\ Width["u32"] = W32 /\ Width["u64"] = W64
      /\ Width["size"] = WSIZE
  BY DEF Width
<1>2. Types = {"i8", "i16", "i32", "i64", "u8", "u16", "u32", "u64", "size"}
  BY DEF Types
<1>3. (WSIZE = W32 /\ WSIZE < W64) \/ WSIZE = W64
  BY WidthAssumption
<1> QED
  BY <1>1, <1>2, <1>3, Sizes, Ranges DEF Signed

\* A conversion compares with every end of the destination that the source
\* can pass.
Covers(from, to) ==
  /\ "low" \in Comparisons[from][to] \/ MinOf(to) <= MinOf(from)
  /\ "high" \in Comparisons[from][to] \/ MaxOf(from) <= MaxOf(to)

\* Every conversion does, for each of the nine types it may start from.
LEMMA EveryConversionCovers ==
  ASSUME NEW from \in Types, NEW to \in Types \ {from}
  PROVE  Covers(from, to)
<1> USE AllRanges DEF Types, Covers, None, Low, High, Both, IfSizeIsNarrow
<1>1. CASE from = "i8"
  <2>1. Comparisons["i8"] = rte_cast_i8_to
    BY DEF Comparisons
  <2> QED
    BY <1>1, <2>1 DEF rte_cast_i8_to
<1>2. CASE from = "i16"
  <2>1. Comparisons["i16"] = rte_cast_i16_to
    BY DEF Comparisons
  <2> QED
    BY <1>2, <2>1 DEF rte_cast_i16_to
<1>3. CASE from = "i32"
  <2>1. Comparisons["i32"] = rte_cast_i32_to
    BY DEF Comparisons
  <2> QED
    BY <1>3, <2>1 DEF rte_cast_i32_to
<1>4. CASE from = "i64"
  <2>1. Comparisons["i64"] = rte_cast_i64_to
    BY DEF Comparisons
  <2> QED
    BY <1>4, <2>1 DEF rte_cast_i64_to
<1>5. CASE from = "u8"
  <2>1. Comparisons["u8"] = rte_cast_u8_to
    BY DEF Comparisons
  <2> QED
    BY <1>5, <2>1 DEF rte_cast_u8_to
<1>6. CASE from = "u16"
  <2>1. Comparisons["u16"] = rte_cast_u16_to
    BY DEF Comparisons
  <2> QED
    BY <1>6, <2>1 DEF rte_cast_u16_to
<1>7. CASE from = "u32"
  <2>1. Comparisons["u32"] = rte_cast_u32_to
    BY DEF Comparisons
  <2> QED
    BY <1>7, <2>1 DEF rte_cast_u32_to
<1>8. CASE from = "u64"
  <2>1. Comparisons["u64"] = rte_cast_u64_to
    BY DEF Comparisons
  <2> QED
    BY <1>8, <2>1 DEF rte_cast_u64_to
<1>9. CASE from = "size"
  <2>1. Comparisons["size"] = rte_cast_size_to
    BY DEF Comparisons
  <2> QED
    BY <1>9, <2>1 DEF rte_cast_size_to
<1> QED
  BY <1>1, <1>2, <1>3, <1>4, <1>5, <1>6, <1>7, <1>8, <1>9

\* An answer is exact: accepted if and only if what was wanted is a value of
\* the type, and then that value.
Exact(r, want, into) ==
  /\ r.ok \in BOOLEAN
  /\ r.ok <=> want \in Values(into)
  /\ r.ok => r.out = want

\* Every conversion is exact.
LEMMA CastExact ==
  ASSUME NEW from \in Types, NEW to \in Types \ {from}, NEW v \in Values(from)
  PROVE  Exact(cast(from, to, v), v, to)
<1>1. Covers(from, to)
  BY EveryConversionCovers
<1>2. /\ MinOf(from) \in Int /\ MaxOf(from) \in Int /\ MinOf(to) \in Int /\ MaxOf(to) \in Int
      /\ v \in Int /\ MinOf(from) <= v /\ v <= MaxOf(from)
      /\ v \in Values(to) <=> MinOf(to) <= v /\ v <= MaxOf(to)
  BY RangeTypes
<1> DEFINE tests == Comparisons[from][to]
           refused == ("low" \in tests /\ v < MinOf(to)) \/ ("high" \in tests /\ v > MaxOf(to))
<1>3. refused <=> ~(v \in Values(to))
  BY <1>1, <1>2 DEF Covers
<1> HIDE DEF refused
<1>4. CASE refused
  <2>1. cast(from, to, v) = OutOfRange
    BY <1>4 DEF cast, refused
  <2> QED
    BY <1>3, <1>4, <2>1 DEF Exact, OutOfRange, Answer
<1>5. CASE ~refused
  <2>1. cast(from, to, v) = Answer(TRUE, CCast(v, to))
    BY <1>5 DEF cast, refused
  <2>2. CCast(v, to) = v /\ v \in Values(to)
    BY <1>3, <1>5, CCastExact
  <2> QED
    BY <2>1, <2>2 DEF Exact, Answer
<1> QED
  BY <1>4, <1>5

\* A quotient compares as the product does.
LEMMA DivMul ==
  ASSUME NEW a \in Nat \ {0}, NEW b \in Nat, NEW m \in Nat
  PROVE  b <= m \div a <=> a * b <= m
  OBVIOUS

\* The product of two numbers is largest where they are.
LEMMA MulMonotone ==
  ASSUME NEW a \in Nat, NEW b \in Nat, NEW m \in Nat, a <= m, b <= m
  PROVE  a * b \in Nat /\ a * b <= m * m
  OBVIOUS

\* The checked operations on uint32_t are exact: the wider type holds every
\* sum and every product.
LEMMA ArithmeticExact32 ==
  ASSUME NEW a \in Values("u32"), NEW b \in Values("u32")
  PROVE  /\ Exact(checked_add_u32(a, b), a + b, "u32")
         /\ Exact(checked_sub_u32(a, b), a - b, "u32")
         /\ Exact(checked_mul_u32(a, b), a * b, "u32")
<1> DEFINE m == MaxOf("u32")
           M == MaxOf("u64")
<1>1. /\ m \in Nat /\ M \in Nat /\ MinOf("u32") = 0 /\ MinOf("u64") = 0 /\ 2 * m <= M /\ m * m <= M
      /\ "u32" \in Types /\ "u64" \in Types
  <2>1. "u32" \in Types /\ "u64" \in Types /\ m \in Nat /\ M \in Nat
    BY RangeTypes DEF Types
  <2>2. MinOf("u32") = 0 /\ MinOf("u64") = 0 /\ 2 * m <= M
    BY AllRanges
  <2>3. m = Pow2[W32] - 1 /\ M = Pow2[W64] - 1
    BY DEF MaxOf, Signed, Width
  <2> DEFINE p == Pow2[W32]
             q == Pow2[W64]
  <2>4. p \in Nat \ {0} /\ q \in Nat \ {0} /\ p * p <= q
    BY Sizes
  <2> HIDE DEF p, q
  <2>5. (p - 1) * (p - 1) <= q - 1
    BY <2>4
  <2> QED
    BY <2>1, <2>2, <2>3, <2>5 DEF p, q
<1>2. a \in Nat /\ b \in Nat /\ a <= m /\ b <= m
  BY <1>1, RangeTypes
<1>3. \A v \in Int : v \in Values("u32") <=> 0 <= v /\ v <= m
  BY <1>1, RangeTypes
<1>4. \A v \in Nat : v <= M => CCast(v, "u64") = v
  BY <1>1, RangeTypes, CCastExact
<1>5. \A v \in Nat : v <= m => CCast(v, "u32") = v
  BY <1>1, RangeTypes, CCastExact
<1> HIDE DEF m, M
<1>6. Exact(checked_add_u32(a, b), a + b, "u32")
  <2>1. a + b \in Nat /\ a + b <= M
    BY <1>1, <1>2
  <2>2. CCast(a + b, "u64") = a + b
    BY <1>4, <2>1
  <2> QED
    BY <1>1, <1>3, <2>1, <2>2 DEF Exact, checked_add_u32, OutOfRange, Answer, m
<1>7. Exact(checked_sub_u32(a, b), a - b, "u32")
  <2>1. CASE b > a
    BY <1>1, <1>2, <1>3, <2>1 DEF Exact, checked_sub_u32, OutOfRange, Answer
  <2>2. CASE ~(b > a)
    <3>1. a - b \in Nat /\ a - b <= m
      BY <1>1, <1>2, <2>2
    <3> QED
      BY <1>1, <1>3, <1>5, <2>2, <3>1 DEF Exact, checked_sub_u32, OutOfRange, Answer
  <2> QED
    BY <2>1, <2>2
<1>8. Exact(checked_mul_u32(a, b), a * b, "u32")
  <2>1. a * b \in Nat /\ a * b <= M
    BY <1>1, <1>2, MulMonotone
  <2>2. CCast(a * b, "u64") = a * b
    BY <1>4, <2>1
  <2> DEFINE ab == a * b
  <2> HIDE DEF ab
  <2> QED
    BY <1>1, <1>3, <2>1, <2>2 DEF Exact, checked_mul_u32, OutOfRange, Answer, m
<1> QED
  BY <1>6, <1>7, <1>8

\* The ones on size_t compare before they compute.
LEMMA ArithmeticExactSize ==
  ASSUME NEW a \in Values("size"), NEW b \in Values("size")
  PROVE  /\ Exact(checked_add_size(a, b), a + b, "size")
         /\ Exact(checked_sub_size(a, b), a - b, "size")
         /\ Exact(checked_mul_size(a, b), a * b, "size")
<1> DEFINE m == MaxOf("size")
<1>1. m \in Nat /\ MinOf("size") = 0 /\ "size" \in Types
  BY AllRanges, RangeTypes DEF Types
<1>2. a \in Nat /\ b \in Nat /\ a <= m /\ b <= m
  BY <1>1, RangeTypes
<1>3. \A v \in Int : v \in Values("size") <=> 0 <= v /\ v <= m
  BY <1>1, RangeTypes
<1>4. \A v \in Nat : v <= m => CCast(v, "size") = v
  BY <1>1, RangeTypes, CCastExact
<1> HIDE DEF m
<1>5. ASSUME NEW v \in Int, NEW r, r = (IF v \in Values("size") THEN Answer(TRUE, CCast(v, "size"))
                                       ELSE OutOfRange)
      PROVE  Exact(r, v, "size")
  BY <1>3, <1>4, <1>5 DEF Exact, OutOfRange, Answer
<1>6. Exact(checked_add_size(a, b), a + b, "size")
  <2>1. a + b \in Int /\ (b > m - a <=> ~(a + b \in Values("size")))
    BY <1>1, <1>2, <1>3
  <2>2. checked_add_size(a, b) = IF a + b \in Values("size")
                                 THEN Answer(TRUE, CCast(a + b, "size")) ELSE OutOfRange
    BY <2>1 DEF checked_add_size, m
  <2> QED
    BY <1>5, <2>1, <2>2
<1>7. Exact(checked_sub_size(a, b), a - b, "size")
  <2>1. a - b \in Int /\ (b > a <=> ~(a - b \in Values("size")))
    BY <1>1, <1>2, <1>3
  <2>2. checked_sub_size(a, b) = IF a - b \in Values("size")
                                 THEN Answer(TRUE, CCast(a - b, "size")) ELSE OutOfRange
    BY <2>1 DEF checked_sub_size
  <2> QED
    BY <1>5, <2>1, <2>2
<1>8. Exact(checked_mul_size(a, b), a * b, "size")
  <2>1. a * b \in Nat /\ (a = 0 => a * b = 0)
    BY <1>2
  <2>2. (a # 0 /\ b > m \div a) <=> ~(a * b <= m)
    <3>1. CASE a = 0
      BY <1>1, <2>1, <3>1
    <3>2. CASE a # 0
      <4>1. b <= m \div a <=> a * b <= m
        BY <1>1, <1>2, <3>2, DivMul
      <4>2. m \div a \in Int
        BY <1>1, <1>2, <3>2
      <4> QED
        BY <1>2, <3>2, <4>1, <4>2
    <3> QED
      BY <3>1, <3>2
  <2>3. a * b \in Int /\ (a * b <= m <=> a * b \in Values("size"))
    BY <1>1, <1>3, <2>1
  <2>4. checked_mul_size(a, b) = IF a * b \in Values("size")
                                 THEN Answer(TRUE, CCast(a * b, "size")) ELSE OutOfRange
    BY <2>2, <2>3 DEF checked_mul_size, m
  <2> QED
    BY <1>5, <2>3, <2>4
<1> QED
  BY <1>6, <1>7, <1>8

-----------------------------------------------------------------------------
(* Text and numbers *)

\* What the first i characters of s denote.
Sums(s) == CHOOSE f : f = [i \in 0..Len(s) |-> IF i = 0 THEN 0 ELSE 10 * f[i - 1] + s[i]]

\* The recursion of Denoted().
LEMMA SumsFacts ==
  ASSUME NEW s \in Seq(Int)
  PROVE  /\ Sums(s) \in [0..Len(s) -> Int] /\ Sums(s)[0] = 0
         /\ \A i \in 1..Len(s) : Sums(s)[i] = 10 * Sums(s)[i - 1] + s[i]
         /\ Denoted(s) = Sums(s)[Len(s)]
<1> DEFINE n == Len(s)
           V == Int
           S == [i \in 1..n |-> [v \in V |-> 10 * v + s[i]]]
           sum == CHOOSE f : f = [i \in 0..n |-> IF i = 0 THEN 0 ELSE 10 * f[i - 1] + s[i]]
<1>1. n \in Nat /\ \A i \in 1..n : s[i] \in Int
  OBVIOUS
<1>2. Sums(s) = sum /\ Denoted(s) = sum[n]
  BY Zenon DEF Sums, Denoted, sum, n
<1> HIDE DEF n
<1>3. Passes(S, n, V)
  BY <1>1 DEF Passes
<1>4. PICK f : Results(f, S, n, V, 0)
  <2>1. 0 \in V
    OBVIOUS
  <2> HIDE DEF S, V
  <2> QED
    BY <1>1, <1>3, <2>1, LoopResult
<1>5. f \in [0..n -> Int] /\ f[0] = 0
  BY <1>4 DEF Results
<1>6. ASSUME NEW i \in 1..n PROVE f[i] = 10 * f[i - 1] + s[i]
  <2>1. i - 1 \in 0..n
    BY <1>1
  <2> QED
    BY <1>4, <1>5, <2>1 DEF Results
<1>7. f = [i \in 0..n |-> IF i = 0 THEN 0 ELSE 10 * f[i - 1] + s[i]]
  <2> DEFINE g == [i \in 0..n |-> IF i = 0 THEN 0 ELSE 10 * f[i - 1] + s[i]]
  <2>1. ASSUME NEW i \in 0..n PROVE f[i] = g[i]
    <3>1. i = 0 \/ i \in 1..n
      BY <1>1
    <3> QED
      BY <1>5, <1>6, <3>1
  <2> QED
    BY <1>5, <2>1
<1>8. sum = [i \in 0..n |-> IF i = 0 THEN 0 ELSE 10 * sum[i - 1] + s[i]]
  BY <1>7
<1> HIDE DEF sum
<1>9. sum[0] = 0 /\ \A i \in 1..n : sum[i] = 10 * sum[i - 1] + s[i]
  <2>1. 0 \in 0..n /\ \A i \in 1..n : i \in 0..n /\ i # 0
    BY <1>1
  <2> QED
    BY <1>8, <2>1
<1> DEFINE P == {i \in 0..n : sum[i] \in Int}
<1>10. 0 \in P
  BY <1>1, <1>9
<1>11. ASSUME NEW i \in 1..n, i - 1 \in P PROVE i \in P
  BY <1>1, <1>9, <1>11
<1>12. P = 0..n
  <2>1. P \in SUBSET (0..n)
    OBVIOUS
  <2> HIDE DEF P
  <2> QED
    BY <1>1, <1>10, <1>11, <2>1, EveryIndex
<1>13. sum \in [0..n -> Int]
  BY <1>8, <1>12
<1> QED
  BY <1>2, <1>9, <1>13 DEF n

\* One digit more.
LEMMA DenotedAppend ==
  ASSUME NEW s \in Seq(Int), NEW d \in Int
  PROVE  Denoted(s) \in Int /\ Denoted(Append(s, d)) = 10 * Denoted(s) + d
<1> DEFINE n == Len(s)
           t == Append(s, d)
           a == Sums(s)
           b == Sums(t)
<1>1. /\ n \in Nat /\ t \in Seq(Int) /\ Len(t) = n + 1 /\ t[n + 1] = d
      /\ \A i \in 1..n : t[i] = s[i]
  OBVIOUS
<1>2. /\ a \in [0..n -> Int] /\ a[0] = 0 /\ \A i \in 1..n : a[i] = 10 * a[i - 1] + s[i]
      /\ Denoted(s) = a[n]
  BY SumsFacts
<1> HIDE DEF t
<1>3. /\ b[0] = 0 /\ \A i \in 1..(n + 1) : b[i] = 10 * b[i - 1] + t[i]
      /\ Denoted(t) = b[n + 1]
  BY <1>1, SumsFacts
<1> HIDE DEF n, a, b
<1> DEFINE P == {i \in 0..n : b[i] = a[i]}
<1>4. 0 \in P
  BY <1>1, <1>2, <1>3
<1>5. ASSUME NEW i \in 1..n, i - 1 \in P PROVE i \in P
  <2>1. i \in 1..(n + 1) /\ i \in 0..n
    BY <1>1
  <2> QED
    BY <1>1, <1>2, <1>3, <1>5, <2>1
<1>6. P = 0..n
  <2>1. P \in SUBSET (0..n)
    OBVIOUS
  <2> HIDE DEF P
  <2> QED
    BY <1>1, <1>4, <1>5, <2>1, EveryIndex
<1>7. n \in 0..n /\ n + 1 \in 1..(n + 1) /\ (n + 1) - 1 = n
  BY <1>1
<1>8. b[n + 1] = 10 * a[n] + d /\ a[n] \in Int
  BY <1>1, <1>2, <1>3, <1>6, <1>7
<1> QED
  BY <1>2, <1>3, <1>8 DEF t

\* One pass of the accumulation loop.
Accumulated(s, i, acc) ==
  IF acc.status # "OK" THEN acc
  ELSE IF ~IsDigit(s[i]) THEN Fail("INVALID_PARAM")
  ELSE IF acc.out > (MaxOf("u64") - s[i]) \div 10 THEN Fail("OUT_OF_RANGE")
  ELSE [acc EXCEPT !.out = (acc.out * 10) + s[i]]

\* The answers of the loop.
Parsed == [status: {"OK", "INVALID_PARAM", "OUT_OF_RANGE"}, out: Nat]

\* A pass keeps the answer's type.
LEMMA AccumulatedType ==
  ASSUME NEW s \in Seq(Int), NEW i \in 1..Len(s), NEW acc \in Parsed
  PROVE  Accumulated(s, i, acc) \in Parsed
<1>1. Fail("INVALID_PARAM") \in Parsed /\ Fail("OUT_OF_RANGE") \in Parsed
  BY DEF Fail, Parsed
<1>2. ASSUME IsDigit(s[i]) PROVE [acc EXCEPT !.out = (acc.out * 10) + s[i]] \in Parsed
  <2>1. (acc.out * 10) + s[i] \in Nat
    BY <1>2 DEF IsDigit, Parsed
  <2> QED
    BY <2>1 DEF Parsed
<1> QED
  BY <1>1, <1>2 DEF Accumulated

\* UINT64_MAX is a number.
LEMMA MaxU64 == MaxOf("u64") \in Nat
<1>1. "u64" \in Types
  BY DEF Types
<1> QED
  BY <1>1, RangeTypes

\* The overflow test of a pass is exact.
LEMMA AccumulatedExact ==
  ASSUME NEW s \in Seq(Int), NEW i \in 1..Len(s), NEW acc \in Parsed, acc.status = "OK"
  PROVE  LET r == Accumulated(s, i, acc)
             v == 10 * acc.out + s[i]
         IN  /\ r.status = "OK" <=> IsDigit(s[i]) /\ v <= MaxOf("u64")
             /\ r.status = "OK" => r.out = v
<1> DEFINE M == MaxOf("u64")
           c == s[i]
           x == acc.out
<1>1. M \in Nat /\ c \in Int /\ x \in Nat
  BY MaxU64 DEF Parsed
<1>2. CASE ~IsDigit(c)
  BY <1>2 DEF Accumulated, Fail
<1>3. CASE IsDigit(c)
  <2>1. c \in 0..9
    BY <1>3 DEF IsDigit
  <2> HIDE DEF M, c, x
  <2>2. x > (M - c) \div 10 <=> ~(10 * x + c <= M)
    BY <1>1, <2>1
  <2>3. 10 * x + c = (x * 10) + c
    BY <1>1, <2>1
  <2>4. CASE x > (M - c) \div 10
    <3>1. Accumulated(s, i, acc) = Fail("OUT_OF_RANGE")
      BY <1>3, <2>4 DEF Accumulated, M, c, x
    <3> QED
      BY <2>2, <2>4, <3>1 DEF Fail, M, c, x
  <2>5. CASE ~(x > (M - c) \div 10)
    <3>1. Accumulated(s, i, acc) = [acc EXCEPT !.out = (x * 10) + c]
      BY <1>3, <2>5 DEF Accumulated, M, c, x
    <3>2. Accumulated(s, i, acc).status = "OK" /\ Accumulated(s, i, acc).out = (x * 10) + c
      BY <3>1 DEF Parsed
    <3> QED
      BY <1>3, <2>2, <2>3, <2>5, <3>2 DEF M, c, x
  <2> QED
    BY <2>4, <2>5
<1> QED
  BY <1>2, <1>3

\* The loop accepts the decimal numbers up to UINT64_MAX, and those exactly.
LEMMA AccumulateExact ==
  ASSUME NEW s \in Seq(Int)
  PROVE  LET r == Accumulate(s)
             decimal == \A i \in 1..Len(s) : IsDigit(s[i])
         IN  /\ r \in Parsed
             /\ r.status = "OK" <=> decimal /\ Denoted(s) <= MaxOf("u64")
             /\ r.status = "OK" => r.out = Denoted(s)
             /\ decimal => Denoted(s) \in Nat
<1> DEFINE n == Len(s)
           V == Parsed
           S == [i \in 1..n |-> [acc \in V |-> Accumulated(s, i, acc)]]
           v0 == [status |-> "OK", out |-> 0]
           sum == CHOOSE f : f = [i \in 0..n |-> IF i = 0 THEN v0
                                                  ELSE Accumulated(s, i, f[i - 1])]
           a == Sums(s)
           M == MaxOf("u64")
<1>1. n \in Nat /\ M \in Nat /\ \A i \in 1..n : s[i] \in Int
  BY MaxU64
<1>2. Accumulate(s) = sum[n]
  BY Zenon DEF Accumulate, Accumulated, sum, n, v0
<1>3. v0 \in V
  BY DEF Parsed
<1>4. \A i \in 1..n, acc \in V : Accumulated(s, i, acc) \in V
  BY AccumulatedType
<1>5. /\ a \in [0..n -> Int] /\ a[0] = 0 /\ \A i \in 1..n : a[i] = 10 * a[i - 1] + s[i]
      /\ Denoted(s) = a[n]
  BY SumsFacts
<1>6. \A i \in 1..n, acc \in V : acc.status = "OK" =>
        LET r == Accumulated(s, i, acc)
            v == 10 * acc.out + s[i]
        IN  /\ r.status = "OK" <=> IsDigit(s[i]) /\ v <= M
            /\ r.status = "OK" => r.out = v
  BY AccumulatedExact
<1> HIDE DEF n, v0, a, M
<1>7. PICK f : Results(f, S, n, V, v0)
  <2>1. Passes(S, n, V)
    BY <1>4 DEF Passes
  <2> HIDE DEF S, V
  <2> QED
    BY <1>1, <1>3, <2>1, LoopResult
<1> HIDE DEF V
<1>8. f \in [0..n -> V] /\ f[0] = v0
  BY <1>7 DEF Results
<1>9. ASSUME NEW i \in 1..n PROVE f[i] = Accumulated(s, i, f[i - 1])
  <2>1. i - 1 \in 0..n
    BY <1>1
  <2>2. f[i - 1] \in V
    BY <1>8, <2>1
  <2> QED
    BY <1>7, <2>2 DEF Results
<1>10. f = [i \in 0..n |-> IF i = 0 THEN v0 ELSE Accumulated(s, i, f[i - 1])]
  <2> DEFINE g == [i \in 0..n |-> IF i = 0 THEN v0 ELSE Accumulated(s, i, f[i - 1])]
  <2>1. ASSUME NEW i \in 0..n PROVE f[i] = g[i]
    <3>1. i = 0 \/ i \in 1..n
      BY <1>1
    <3> QED
      BY <1>8, <1>9, <3>1
  <2> QED
    BY <1>8, <2>1
<1>11. sum = [i \in 0..n |-> IF i = 0 THEN v0 ELSE Accumulated(s, i, sum[i - 1])]
  BY <1>10
<1> HIDE DEF sum
<1>12. sum[0] = v0 /\ \A i \in 1..n : sum[i] = Accumulated(s, i, sum[i - 1])
  <2>1. 0 \in 0..n /\ \A i \in 1..n : i \in 0..n /\ i # 0
    BY <1>1
  <2> QED
    BY <1>11, <2>1
<1> DEFINE Digits(i) == \A j \in 1..i : IsDigit(s[j])
           Right(i) == /\ sum[i] \in V
                       /\ sum[i].status = "OK" <=> Digits(i) /\ a[i] <= M
                       /\ sum[i].status = "OK" => sum[i].out = a[i]
                       /\ Digits(i) => a[i] \in Nat
           P == {i \in 0..n : Right(i)}
<1>13. 0 \in P
  <2>1. 0 \in 0..n /\ Digits(0) /\ a[0] \in Nat /\ a[0] <= M
    BY <1>1, <1>5
  <2>2. sum[0] \in V /\ sum[0].status = "OK" /\ sum[0].out = a[0]
    BY <1>3, <1>5, <1>12 DEF v0
  <2> QED
    BY <2>1, <2>2
<1>14. ASSUME NEW i \in 1..n, i - 1 \in P PROVE i \in P
  <2> DEFINE acc == sum[i - 1]
             r == sum[i]
  <2>1. i \in 0..n /\ i - 1 \in 0..n /\ Right(i - 1)
    BY <1>1, <1>14
  <2>2. r = Accumulated(s, i, acc) /\ acc \in V
    BY <1>12, <2>1
  <2>3. r \in V
    BY <1>4, <2>2
  <2>4. Digits(i) <=> Digits(i - 1) /\ IsDigit(s[i])
    <3>1. \A j \in 1..i : j = i \/ j \in 1..(i - 1)
      BY <1>1
    <3>2. i \in 1..i /\ \A j \in 1..(i - 1) : j \in 1..i
      BY <1>1
    <3> QED
      BY <3>1, <3>2
  <2>5. a[i] = 10 * a[i - 1] + s[i] /\ a[i] \in Int /\ a[i - 1] \in Int /\ s[i] \in Int
    BY <1>1, <1>5, <2>1
  <2>6. Digits(i) => a[i - 1] \in Nat /\ s[i] \in 0..9 /\ a[i] \in Nat /\ a[i - 1] <= a[i]
    <3> SUFFICES ASSUME Digits(i)
                 PROVE  a[i - 1] \in Nat /\ s[i] \in 0..9 /\ a[i] \in Nat /\ a[i - 1] <= a[i]
      OBVIOUS
    <3>1. a[i - 1] \in Nat /\ s[i] \in 0..9
      BY <2>1, <2>4 DEF IsDigit
    <3>2. \A x \in Nat, d \in 0..9 : 10 * x + d \in Nat /\ x <= 10 * x + d
      OBVIOUS
    <3> HIDE DEF Digits
    <3> QED
      BY <2>5, <3>1, <3>2
  <2> HIDE DEF Digits
  <2>7. CASE acc.status = "OK"
    <3>1. /\ r.status = "OK" <=> IsDigit(s[i]) /\ a[i] <= M
          /\ r.status = "OK" => r.out = a[i]
      BY <1>6, <2>1, <2>2, <2>5, <2>7
    <3> QED
      BY <2>1, <2>3, <2>4, <2>6, <2>7, <3>1
  <2>8. CASE acc.status # "OK"
    <3>1. r = acc
      BY <2>2, <2>8 DEF Accumulated
    <3>2. ~(Digits(i) /\ a[i] <= M)
      BY <1>1, <2>1, <2>4, <2>5, <2>6, <2>8
    <3> QED
      BY <2>1, <2>3, <2>6, <2>8, <3>1, <3>2
  <2> QED
    BY <2>7, <2>8
<1>15. Right(n)
  <2>1. P \in SUBSET (0..n)
    OBVIOUS
  <2>2. P = 0..n
    <3> HIDE DEF P
    <3> QED
      BY <1>1, <1>13, <1>14, <2>1, EveryIndex
  <2> HIDE DEF Right
  <2> QED
    BY <1>1, <2>2
<1> QED
  BY <1>2, <1>5, <1>15 DEF n, V, M

\* The digits of every number in base B.
BaseDigits(B) ==
  CHOOSE f : f = [v \in Nat |-> IF v < B THEN <<v>> ELSE Append(f[v \div B], v % B)]

\* Dividing makes a number smaller and leaves a digit.
LEMMA DivideOnce ==
  ASSUME NEW B \in Nat \ {0, 1}, NEW v \in Nat
  PROVE  /\ v \div B \in Nat /\ v % B \in 0..(B - 1)
         /\ v >= B => v \div B < v
  OBVIOUS

\* The recursion of the formatting loops, and that it ends.
LEMMA BaseDigitsFacts ==
  ASSUME NEW B \in Nat \ {0, 1}
  PROVE  \A v \in Nat :
           /\ BaseDigits(B)[v] \in Seq(0..(B - 1)) /\ BaseDigits(B)[v] # <<>>
           /\ BaseDigits(B)[v] = IF v < B THEN <<v>>
                                 ELSE Append(BaseDigits(B)[v \div B], v % B)
<1> DEFINE D == 0..(B - 1)
           V == Seq(D)
           low(v) == IF v < B THEN v ELSE 0
           base == [v \in Nat |-> <<low(v)>>]
           S == [v \in Nat |-> [s \in V |-> Append(s, v % B)]]
           h == [v \in Nat |-> v \div B]
           digits == CHOOSE f : f = [v \in Nat |-> IF v < B THEN <<v>>
                                                   ELSE Append(f[v \div B], v % B)]
<1>1. \A v \in Nat : v \div B \in Nat /\ v % B \in D /\ (v >= B => v \div B < v) /\ low(v) \in D
  <2>1. \A v \in Nat : low(v) \in D
    OBVIOUS
  <2>2. \A v \in Nat : v \div B \in Nat /\ v % B \in D /\ (v >= B => v \div B < v)
    BY DivideOnce
  <2> QED
    BY <2>1, <2>2
<1>2. BaseDigits(B) = digits
  BY Zenon DEF BaseDigits, digits
<1>3. Descends(h, B)
  BY <1>1 DEF Descends
<1> HIDE DEF D
<1>4. Recursion(base, S, V)
  <2>1. base \in [Nat -> V]
    <3>1. \A x \in D : <<x>> \in V
      OBVIOUS
    <3> HIDE DEF V, low
    <3> QED
      BY <1>1, <3>1
  <2>2. S \in [Nat -> [V -> V]]
    <3>1. \A s \in V, x \in D : Append(s, x) \in V
      OBVIOUS
    <3> HIDE DEF V
    <3> QED
      BY <1>1, <3>1
  <2> QED
    BY <2>1, <2>2 DEF Recursion
<1>5. PICK f : Solves(f, base, S, h, B, V)
  <2> HIDE DEF base, S, h, V
  <2> QED
    BY <1>3, <1>4, RecursionResult
<1>6. f \in [Nat -> V]
  BY <1>5 DEF Solves
<1>7. ASSUME NEW v \in Nat PROVE f[v] = IF v < B THEN <<v>> ELSE Append(f[v \div B], v % B)
  <2>1. f[v] = IF v < B THEN base[v] ELSE S[v][f[h[v]]]
    <3> HIDE DEF base, S, h, V
    <3> QED
      BY <1>5 DEF Solves
  <2>2. h[v] = v \div B /\ f[v \div B] \in V
    BY <1>1, <1>6
  <2> HIDE DEF V
  <2> QED
    BY <2>1, <2>2
<1> HIDE DEF V
<1>8. f = [v \in Nat |-> IF v < B THEN <<v>> ELSE Append(f[v \div B], v % B)]
  <2> DEFINE g == [v \in Nat |-> IF v < B THEN <<v>> ELSE Append(f[v \div B], v % B)]
  <2>1. \A v \in Nat : f[v] = g[v]
    BY <1>7
  <2> HIDE DEF g
  <2>2. f = [v \in Nat |-> f[v]] /\ g = [v \in Nat |-> g[v]]
    BY <1>6 DEF g
  <2>3. f = g
    BY <2>1, <2>2
  <2> QED
    BY <2>3 DEF g
<1>9. digits = [v \in Nat |-> IF v < B THEN <<v>> ELSE Append(digits[v \div B], v % B)]
  BY <1>8, Zenon
<1> HIDE DEF digits
<1>10. \A v \in Nat : digits[v] = IF v < B THEN <<v>> ELSE Append(digits[v \div B], v % B)
  <2> DEFINE g == [v \in Nat |-> IF v < B THEN <<v>> ELSE Append(digits[v \div B], v % B)]
  <2>1. digits = g
    BY <1>9
  <2>2. \A v \in Nat : g[v] = IF v < B THEN <<v>> ELSE Append(digits[v \div B], v % B)
    OBVIOUS
  <2> HIDE DEF g
  <2> QED
    BY <2>1, <2>2
<1> DEFINE P == {v \in Nat : digits[v] \in Seq(D) /\ digits[v] # <<>>}
<1>11. ASSUME NEW v \in Nat, \A u \in 0..(v - 1) : u \in P PROVE v \in P
  <2>1. CASE v < B
    <3>1. digits[v] = <<v>> /\ v \in D
      BY <1>1, <1>10, <2>1
    <3>2. \A x \in D : <<x>> \in Seq(D) /\ <<x>> # <<>>
      OBVIOUS
    <3> QED
      BY <3>1, <3>2
  <2>2. CASE ~(v < B)
    <3>1. v \div B \in 0..(v - 1) /\ v % B \in D
      <4> DEFINE q == v \div B
      <4>1. q \in Nat /\ q < v /\ v % B \in D
        BY <1>1, <2>2
      <4> HIDE DEF q
      <4>2. q \in 0..(v - 1)
        BY <4>1
      <4> QED
        BY <4>1, <4>2 DEF q
    <3>2. digits[v \div B] \in Seq(D)
      BY <1>11, <3>1
    <3>3. digits[v] = Append(digits[v \div B], v % B)
      BY <1>10, <2>2
    <3>4. \A t \in Seq(D), x \in D : Append(t, x) \in Seq(D) /\ Append(t, x) # <<>>
      BY AppendProperties
    <3> QED
      BY <3>1, <3>2, <3>3, <3>4
  <2> QED
    BY <2>1, <2>2
<1>12. P = Nat
  <2>1. P \in SUBSET Nat
    OBVIOUS
  <2> HIDE DEF P
  <2> QED
    BY <1>11, <2>1, EverySmaller
<1>13. \A v \in Nat : digits[v] \in Seq(D) /\ digits[v] # <<>>
  BY <1>12
<1> QED
  BY <1>2, <1>10, <1>13, Zenon DEF D

\* Decimal text is digits and denotes the number.
LEMMA FormatFacts ==
  ASSUME NEW v \in Nat
  PROVE  /\ format_u64_digits[v] \in Seq(0..9) /\ format_u64_digits[v] # <<>>
         /\ Denoted(format_u64_digits[v]) = v
<1>1. format_u64_digits = BaseDigits(10)
  BY Zenon DEF format_u64_digits, BaseDigits
<1> DEFINE d == format_u64_digits
           P == {u \in Nat : Denoted(d[u]) = u}
<1>2. \A u \in Nat : d[u] \in Seq(0..9) /\ d[u] # <<>>
                    /\ d[u] = IF u < 10 THEN <<u>> ELSE Append(d[u \div 10], u % 10)
  <2>1. 10 \in Nat \ {0, 1} /\ 10 - 1 = 9
    OBVIOUS
  <2> QED
    BY <1>1, <2>1, BaseDigitsFacts
<1> HIDE DEF d
<1>3. ASSUME NEW u \in Nat, \A x \in 0..(u - 1) : x \in P PROVE u \in P
  <2>1. CASE u < 10
    <3>1. <<>> \in Seq(Int) /\ Len(<<>>) = 0 /\ <<u>> = Append(<<>>, u)
      OBVIOUS
    <3>2. Denoted(<<>>) = 0
      BY <3>1, SumsFacts
    <3>3. Denoted(Append(<<>>, u)) = 10 * Denoted(<<>>) + u
      <4>1. \A s \in Seq(Int), x \in Int : Denoted(Append(s, x)) = 10 * Denoted(s) + x
        BY DenotedAppend
      <4>2. <<>> \in Seq(Int) /\ u \in Int
        BY <3>1
      <4> DEFINE e == <<>>
      <4> HIDE DEF e
      <4>3. Denoted(Append(e, u)) = 10 * Denoted(e) + u
        BY <4>1, <4>2 DEF e
      <4> QED
        BY <4>3 DEF e
    <3>4. Denoted(<<u>>) = u
      BY <3>1, <3>2, <3>3
    <3> QED
      BY <1>2, <2>1, <3>4
  <2>2. CASE ~(u < 10)
    <3> DEFINE q == u \div 10
               r == u % 10
    <3>1. q \in Nat /\ r \in Int /\ u = 10 * q + r /\ q < u
      BY <2>2
    <3> HIDE DEF q, r
    <3>2. q \in 0..(u - 1)
      BY <3>1
    <3>3. Denoted(d[q]) = q
      BY <1>3, <3>2
    <3>4. d[q] \in Seq(Int)
      <4>1. d[q] \in Seq(0..9)
        BY <1>2, <3>1
      <4>2. 0..9 \subseteq Int
        OBVIOUS
      <4> QED
        BY <4>1, <4>2, SeqMonotonic
    <3>5. Denoted(Append(d[q], r)) = 10 * Denoted(d[q]) + r
      BY <3>1, <3>4, DenotedAppend
    <3>6. d[u] = Append(d[q], r)
      BY <1>2, <2>2 DEF q, r
    <3> QED
      BY <3>1, <3>3, <3>5, <3>6
  <2> QED
    BY <2>1, <2>2
<1>4. P = Nat
  <2>1. P \in SUBSET Nat
    OBVIOUS
  <2> HIDE DEF P
  <2> QED
    BY <1>3, <2>1, EverySmaller
<1> QED
  BY <1>2, <1>4 DEF d

\* rte_buffer_t and rte_string_t, never longer than their storage.
Valid(b) ==
  b \in [data: Seq(Int), length: Nat] /\ b.length <= Len(b.data)

\* What a buffer holds.
LEMMA ContentFacts ==
  ASSUME NEW b, Valid(b)
  PROVE  /\ content(b) \in Seq(Int) /\ Len(content(b)) = b.length
         /\ \A i \in 1..b.length : content(b)[i] = b.data[i] /\ b.data[i] \in Int
<1> DEFINE d == b.data
           n == b.length
<1>1. d \in Seq(Int) /\ n \in Nat /\ n <= Len(d)
  BY DEF Valid
<1> HIDE DEF d, n
<1>2. 1 \in Int /\ n \in Int /\ \A i \in 1..n : d[i] \in Int
  BY <1>1
<1>3. /\ SubSeq(d, 1, n) \in Seq(Int)
      /\ Len(SubSeq(d, 1, n)) = IF 1 <= n THEN n - 1 + 1 ELSE 0
      /\ \A i \in 1..(n - 1 + 1) : SubSeq(d, 1, n)[i] = d[1 + i - 1]
  BY <1>2, SubSeqProperties
<1> DEFINE s == SubSeq(d, 1, n)
<1> HIDE DEF s
<1>4. n - 1 + 1 = n /\ (~(1 <= n) => n = 0) /\ \A i \in 1..n : 1 + i - 1 = i
  BY <1>1
<1>5. s \in Seq(Int) /\ Len(s) = n /\ \A i \in 1..n : s[i] = d[i]
  BY <1>1, <1>3, <1>4 DEF s
<1> QED
  BY <1>2, <1>5 DEF content, s, d, n

\* What the parsers answer, and that an answer is the number the text denotes.
Answered == [status: {"OK", "INVALID_PARAM", "OUT_OF_RANGE"}, out: Int]

\* The answer r to reading the text s as a t.
ReadsAs(r, t, s) ==
  /\ r \in Answered
  /\ r.status = "OK" <=> Reading(t, s) \cap Values(t) # {}
  /\ r.status = "OK" => r.out \in Reading(t, s) \cap Values(t)

\* A text denotes one number at most; a digit is no sign.
LEMMA ReadingFacts ==
  ASSUME NEW t, NEW s
  PROVE  /\ IsDecimal(s) => Reading(t, s) = {Denoted(s)}
         /\ ~IsDecimal(s) /\ t \in Signed /\ s # <<>> /\ s[1] = MINUS /\ IsDecimal(Tail(s))
              => Reading(t, s) = {-Denoted(Tail(s))}
         /\ ~IsDecimal(s) /\ ~(t \in Signed /\ s # <<>> /\ s[1] = MINUS /\ IsDecimal(Tail(s)))
              => Reading(t, s) = {}
<1>1. ASSUME IsDecimal(s) PROVE ~(s # <<>> /\ s[1] = MINUS)
  <2> SUFFICES ASSUME s # <<>>, s[1] = MINUS PROVE FALSE
    OBVIOUS
  <2>1. Len(s) = 0 \/ s[1] \in 0..9
    BY <1>1 DEF IsDecimal, IsDigit
  <2>2. ~(s[1] \in 0..9)
    BY DEF MINUS
  <2> QED
    BY <1>1, <2>1, <2>2 DEF IsDecimal
<1> QED
  BY <1>1 DEF Reading

\* The values of the 64-bit types, from the two's complement's halves.
LEMMA Values64 ==
  \E d \in Nat \ {0} :
    /\ MaxOf("i64") = d - 1 /\ MaxOf("u64") = 2 * d - 1
    /\ \A v : v \in Values("u64") <=> v \in Int /\ 0 <= v /\ v <= 2 * d - 1
    /\ \A v : v \in Values("i64") <=> v \in Int /\ -d <= v /\ v <= d - 1
<1>1. "u64" \in Types /\ "i64" \in Types
  BY DEF Types
<1> DEFINE d == Pow2[W64 - 1]
<1>2. /\ d \in Nat \ {0} /\ MinOf("i64") = -d /\ MaxOf("i64") = d - 1
      /\ MinOf("u64") = 0 /\ MaxOf("u64") = 2 * d - 1
  BY AllRanges
<1> HIDE DEF d
<1>3. \A v : v \in Values("u64") <=> v \in Int /\ 0 <= v /\ v <= 2 * d - 1
  BY <1>1, <1>2, RangeTypes
<1>4. \A v : v \in Values("i64") <=> v \in Int /\ -d <= v /\ v <= d - 1
  BY <1>1, <1>2, RangeTypes
<1> QED
  BY <1>2, <1>3, <1>4

\* An answer that is right about the one number a text denotes, or about
\* there being none, reads it.
LEMMA ReadsOne ==
  ASSUME NEW r \in Answered, NEW t, NEW s, NEW d,
         Reading(t, s) = {d},
         r.status = "OK" <=> d \in Values(t),
         r.status = "OK" => r.out = d
  PROVE  ReadsAs(r, t, s)
<1> QED
  BY DEF ReadsAs

\* The same where it denotes none.
LEMMA ReadsNone ==
  ASSUME NEW r \in Answered, NEW t, NEW s, Reading(t, s) = {}, r.status # "OK"
  PROVE  ReadsAs(r, t, s)
<1> QED
  BY DEF ReadsAs

\* rte_string_to_u64()
LEMMA ParseU64 ==
  ASSUME NEW b, Valid(b), HasStorage(b)
  PROVE  ReadsAs(string_to_u64(b), "u64", content(b))
<1>1. content(b) \in Seq(Int) /\ Len(content(b)) = b.length /\ b.length \in Nat
  BY ContentFacts DEF Valid
<1>2. buffer_is_valid(b)
  BY DEF buffer_is_valid, Valid, capacity
<1>3. CASE b.length = 0
  <2>1. string_to_u64(b) = Fail("INVALID_PARAM") /\ content(b) = <<>>
    BY <1>1, <1>3 DEF string_to_u64
  <2>2. Reading("u64", content(b)) = {}
    BY <2>1, ReadingFacts DEF IsDecimal
  <2> QED
    BY <2>1, <2>2 DEF ReadsAs, Fail, Answered
<1>4. CASE b.length # 0
  <2>1. string_to_u64(b) = Accumulate(content(b)) /\ content(b) # <<>>
    BY <1>1, <1>2, <1>4 DEF string_to_u64
  <2> SUFFICES ASSUME NEW s \in Seq(Int), s # <<>>
               PROVE  ReadsAs(Accumulate(s), "u64", s)
    BY <1>1, <2>1
  <2> DEFINE r == Accumulate(s)
  <2>2. /\ r \in Parsed
        /\ r.status = "OK" <=> IsDecimal(s) /\ Denoted(s) <= MaxOf("u64")
        /\ r.status = "OK" => r.out = Denoted(s)
        /\ IsDecimal(s) => Denoted(s) \in Nat
    BY AccumulateExact DEF IsDecimal
  <2>3. r \in Answered
    BY <2>2 DEF Parsed, Answered
  <2> HIDE DEF r
  <2>4. CASE IsDecimal(s)
    <3>1. Reading("u64", s) = {Denoted(s)}
      BY <2>4, ReadingFacts
    <3>2. Denoted(s) \in Values("u64") <=> Denoted(s) <= MaxOf("u64")
      BY <2>2, <2>4, Values64
    <3> QED
      BY <2>2, <2>3, <2>4, <3>1, <3>2, ReadsOne DEF r
  <2>5. CASE ~IsDecimal(s)
    <3>1. Reading("u64", s) = {}
      BY <2>5, ReadingFacts DEF Signed
    <3> QED
      BY <2>2, <2>3, <2>5, <3>1, ReadsNone DEF r
  <2> QED
    BY <2>4, <2>5
<1> QED
  BY <1>3, <1>4

\* A text that is not empty, without its first character.
LEMMA TailFacts ==
  ASSUME NEW s \in Seq(Int), Len(s) # 0
  PROVE  /\ s # <<>> /\ Tail(s) \in Seq(Int) /\ Len(Tail(s)) = Len(s) - 1
         /\ Tail(s) = <<>> <=> Len(s) = 1
<1>1. s # <<>>
  OBVIOUS
<1>2. Tail(s) \in Seq(Int) /\ Len(Tail(s)) = Len(s) - 1
  BY <1>1, HeadTailProperties
<1>3. \A u \in Seq(Int) : Len(u) = 0 <=> u = <<>>
  OBVIOUS
<1> DEFINE u == Tail(s)
<1> HIDE DEF u
<1>4. u \in Seq(Int) /\ Len(u) = Len(s) - 1 /\ (Len(u) = 0 <=> u = <<>>)
  BY <1>2, <1>3 DEF u
<1>5. Len(u) = Len(s) - 1 /\ u \in Seq(Int) /\ (u = <<>> <=> Len(s) = 1)
  BY <1>4
<1> QED
  BY <1>1, <1>5 DEF u

\* rte_string_to_i64()
LEMMA ParseI64 ==
  ASSUME NEW b, Valid(b), HasStorage(b)
  PROVE  ReadsAs(string_to_i64(b), "i64", content(b))
<1> DEFINE s == content(b)
           r == string_to_i64(b)
<1>1. s \in Seq(Int) /\ Len(s) = b.length /\ b.length \in Nat
  BY ContentFacts DEF Valid
<1>2. buffer_is_valid(b)
  BY DEF buffer_is_valid, Valid, capacity
<1>3. PICK d \in Nat \ {0} :
        /\ MaxOf("i64") = d - 1 /\ MaxOf("u64") = 2 * d - 1
        /\ \A v : v \in Values("i64") <=> v \in Int /\ -d <= v /\ v <= d - 1
  BY Values64
<1>4. "i64" \in Signed
  BY DEF Signed
<1>5. CASE b.length = 0
  <2>1. r = Fail("INVALID_PARAM") /\ s = <<>>
    BY <1>1, <1>5 DEF string_to_i64
  <2> HIDE DEF r, s
  <2>2. Reading("i64", s) = {}
    BY <2>1, ReadingFacts DEF IsDecimal
  <2>3. ReadsAs(r, "i64", s)
    BY <2>1, <2>2 DEF ReadsAs, Fail, Answered
  <2> QED
    BY <2>3 DEF r, s
<1>6. CASE b.length # 0 /\ s[1] # MINUS
  <2>1. s # <<>>
    BY <1>1, <1>6
  <2> DEFINE acc == Accumulate(s)
  <2>2. r = IF acc.status # "OK" THEN acc
            ELSE IF acc.out > MaxOf("i64") THEN Fail("OUT_OF_RANGE")
            ELSE [acc EXCEPT !.out = acc.out]
    BY <1>2, <1>6, <2>1 DEF string_to_i64
  <2>3. /\ acc \in Parsed
        /\ acc.status = "OK" <=> IsDecimal(s) /\ Denoted(s) <= MaxOf("u64")
        /\ acc.status = "OK" => acc.out = Denoted(s)
        /\ IsDecimal(s) => Denoted(s) \in Nat
    BY <1>1, <2>1, AccumulateExact DEF IsDecimal
  <2> HIDE DEF r, s, acc
  <2>4. r \in Answered
    BY <2>2, <2>3 DEF Parsed, Answered, Fail
  <2>5. CASE IsDecimal(s)
    <3> DEFINE x == Denoted(s)
    <3>1. Reading("i64", s) = {x} /\ x \in Nat
      BY <2>3, <2>5, ReadingFacts
    <3>2. /\ acc.status = "OK" <=> x <= 2 * d - 1
          /\ acc.status = "OK" => acc.out = x
      BY <1>3, <2>3, <2>5
    <3> HIDE DEF x
    <3>3. x \in Values("i64") <=> x <= d - 1
      BY <1>3, <3>1
    <3>4. r.status = "OK" <=> x <= d - 1
      BY <1>3, <2>2, <2>3, <3>1, <3>2 DEF Parsed, Fail
    <3>5. r.status = "OK" => r.out = x
      BY <2>2, <2>3, <3>2 DEF Parsed, Fail
    <3>6. ReadsAs(r, "i64", s)
      BY <2>4, <3>1, <3>3, <3>4, <3>5, ReadsOne
    <3> QED
      BY <3>6 DEF r, s
  <2>6. CASE ~IsDecimal(s)
    <3>1. Reading("i64", s) = {}
      <4>1. ~("i64" \in Signed /\ s # <<>> /\ s[1] = MINUS /\ IsDecimal(Tail(s)))
        BY <1>6 DEF s
      <4> QED
        BY <2>6, <4>1, ReadingFacts
    <3>2. r.status # "OK"
      BY <2>2, <2>3, <2>6
    <3>3. ReadsAs(r, "i64", s)
      BY <2>4, <3>1, <3>2, ReadsNone
    <3> QED
      BY <3>3 DEF r, s
  <2> QED
    BY <2>5, <2>6
<1>7. CASE b.length = 1 /\ s[1] = MINUS
  <2>1. s # <<>> /\ Tail(s) = <<>>
    <3> HIDE DEF s
    <3>1. s \in Seq(Int) /\ Len(s) = 1
      BY <1>1, <1>7
    <3> QED
      BY <3>1, TailFacts
  <2>2. r = Fail("INVALID_PARAM")
    BY <1>2, <1>7, <2>1 DEF string_to_i64
  <2>3. ~IsDecimal(Tail(s))
    BY <2>1 DEF IsDecimal
  <2>4. ~IsDecimal(s)
    BY <1>1, <1>7 DEF IsDecimal, IsDigit, MINUS
  <2> HIDE DEF r, s
  <2>5. Reading("i64", s) = {}
    BY <2>3, <2>4, ReadingFacts
  <2>6. ReadsAs(r, "i64", s)
    BY <2>2, <2>5 DEF ReadsAs, Fail, Answered
  <2> QED
    BY <2>6 DEF r, s
<1>8. CASE b.length # 0 /\ b.length # 1 /\ s[1] = MINUS
  <2> DEFINE u == Tail(s)
             acc == Accumulate(u)
  <2>1. s # <<>> /\ u \in Seq(Int) /\ u # <<>>
    <3> HIDE DEF s
    <3>1. s \in Seq(Int) /\ Len(s) # 0 /\ Len(s) # 1
      BY <1>1, <1>8
    <3> QED
      BY <3>1, TailFacts
  <2>2. r = IF acc.status # "OK" THEN acc
            ELSE IF acc.out > MaxOf("i64") + 1 THEN Fail("OUT_OF_RANGE")
            ELSE [acc EXCEPT !.out = -acc.out]
    BY <1>2, <1>8, <2>1 DEF string_to_i64
  <2>3. ~IsDecimal(s)
    BY <1>1, <1>8 DEF IsDecimal, IsDigit, MINUS
  <2>4. /\ IsDecimal(u) => Reading("i64", s) = {-Denoted(u)}
        /\ ~IsDecimal(u) => Reading("i64", s) = {}
    BY <1>4, <1>8, <2>1, <2>3, ReadingFacts
  <2> HIDE DEF u
  <2>5. /\ acc \in Parsed
        /\ acc.status = "OK" <=> IsDecimal(u) /\ Denoted(u) <= MaxOf("u64")
        /\ acc.status = "OK" => acc.out = Denoted(u)
        /\ IsDecimal(u) => Denoted(u) \in Nat
    BY <2>1, AccumulateExact DEF IsDecimal
  <2> HIDE DEF r, s, acc
  <2>6. r \in Answered
    BY <2>2, <2>5 DEF Parsed, Answered, Fail
  <2>7. CASE IsDecimal(u)
    <3> DEFINE x == Denoted(u)
    <3>1. Reading("i64", s) = {-x} /\ x \in Nat
      BY <2>4, <2>5, <2>7
    <3>2. /\ acc.status = "OK" <=> x <= 2 * d - 1
          /\ acc.status = "OK" => acc.out = x
      BY <1>3, <2>5, <2>7
    <3> HIDE DEF x
    <3>3. -x \in Values("i64") <=> x <= d
      BY <1>3, <3>1
    <3>4. r.status = "OK" <=> x <= d
      BY <1>3, <2>2, <2>5, <3>1, <3>2 DEF Parsed, Fail
    <3>5. r.status = "OK" => r.out = -x
      BY <2>2, <2>5, <3>2 DEF Parsed, Fail
    <3>6. ReadsAs(r, "i64", s)
      BY <2>6, <3>1, <3>3, <3>4, <3>5, ReadsOne
    <3> QED
      BY <3>6 DEF r, s
  <2>8. CASE ~IsDecimal(u)
    <3>1. r.status # "OK"
      BY <2>2, <2>5, <2>8
    <3>2. ReadsAs(r, "i64", s)
      BY <2>4, <2>6, <2>8, <3>1, ReadsNone
    <3> QED
      BY <3>2 DEF r, s
  <2> QED
    BY <2>7, <2>8
<1> QED
  BY <1>5, <1>6, <1>7, <1>8

\* A narrower type reads what the wider one reads, where it fits.
LEMMA Narrows ==
  ASSUME NEW from \in Types, NEW to \in Types \ {from}, NEW s, NEW r,
         from \in Signed <=> to \in Signed,
         Values(to) \subseteq Values(from), 0 \in Values(to),
         ReadsAs(r, from, s)
  PROVE  ReadsAs(Narrowed(r, from, to), to, s)
<1> DEFINE c == cast(from, to, r.out)
           n == Narrowed(r, from, to)
<1>1. r \in Answered
  BY DEF ReadsAs
<1>2. Reading(to, s) = Reading(from, s)
  BY DEF Reading
<1>3. CASE r.status # "OK"
  <2>1. n = r
    BY <1>3 DEF Narrowed
  <2>2. Reading(from, s) \cap Values(from) = {}
    BY <1>3 DEF ReadsAs
  <2>3. Reading(to, s) \cap Values(to) = {}
    BY <1>2, <2>2
  <2> QED
    BY <1>1, <1>3, <2>1, <2>3 DEF ReadsAs
<1>4. CASE r.status = "OK"
  <2>1. r.out \in Reading(from, s) /\ r.out \in Values(from)
    BY <1>4 DEF ReadsAs
  <2>2. Exact(c, r.out, to)
    BY <2>1, CastExact
  <2>3. \A x \in Reading(from, s) : x = r.out
    BY <2>1 DEF Reading
  <2>4. n = IF ~c.ok THEN Fail("OUT_OF_RANGE") ELSE [r EXCEPT !.out = c.out]
    BY <1>4 DEF Narrowed
  <2> HIDE DEF c, n
  <2>5. Reading(to, s) = {r.out}
    BY <1>2, <2>1, <2>3
  <2>6. n \in Answered
    BY <1>1, <1>4, <2>1, <2>2, <2>4, RangeTypes DEF Answered, Fail, Exact
  <2>7. n.status = "OK" <=> r.out \in Values(to)
    BY <1>1, <1>4, <2>2, <2>4 DEF Answered, Fail, Exact
  <2>8. n.status = "OK" => n.out = r.out
    BY <1>1, <1>4, <2>2, <2>4 DEF Answered, Fail, Exact
  <2>9. ReadsAs(n, to, s)
    BY <2>5, <2>6, <2>7, <2>8, ReadsOne
  <2> QED
    BY <2>9 DEF n
<1> QED
  BY <1>3, <1>4

\* Whatever a buffer holds, every parser reads it exactly.
LEMMA ParseExact ==
  ASSUME NEW b, Valid(b), HasStorage(b), NEW t \in PrintedTypes
  PROVE  ReadsAs(string_to(t, b), t, content(b))
<1>1. {"u32", "i32", "u64", "i64"} \subseteq Types
  BY DEF Types
<1>2. /\ Values("u32") \subseteq Values("u64") /\ 0 \in Values("u32")
      /\ Values("i32") \subseteq Values("i64") /\ 0 \in Values("i32")
  <2>1. /\ MinOf("u32") = 0 /\ MinOf("u64") = 0 /\ MaxOf("u32") <= MaxOf("u64")
        /\ MinOf("i64") <= MinOf("i32") /\ MaxOf("i32") <= MaxOf("i64")
        /\ MinOf("i32") \in Int /\ MinOf("i64") \in Int /\ MinOf("i32") <= 0
        /\ MaxOf("u32") \in Nat /\ MaxOf("u64") \in Nat
        /\ MaxOf("i32") \in Nat /\ MaxOf("i64") \in Nat
    BY AllRanges
  <2> QED
    BY <2>1 DEF Values
<1>3. CASE t = "u64"
  BY <1>3, ParseU64 DEF string_to
<1>4. CASE t = "i64"
  BY <1>4, ParseI64 DEF string_to
<1>5. CASE t = "u32"
  <2>1. "u64" \in Types /\ "u32" \in Types \ {"u64"} /\ ("u64" \in Signed <=> "u32" \in Signed)
    BY DEF Types, Signed
  <2>2. ReadsAs(Narrowed(string_to_u64(b), "u64", "u32"), "u32", content(b))
    BY <1>2, <2>1, ParseU64, Narrows
  <2> QED
    BY <1>5, <2>2 DEF string_to, string_to_u32
<1>6. CASE t = "i32"
  <2>1. "i64" \in Types /\ "i32" \in Types \ {"i64"} /\ ("i64" \in Signed <=> "i32" \in Signed)
    BY DEF Types, Signed
  <2>2. ReadsAs(Narrowed(string_to_i64(b), "i64", "i32"), "i32", content(b))
    BY <1>2, <2>1, ParseI64, Narrows
  <2> QED
    BY <1>6, <2>2 DEF string_to, string_to_i32
<1> QED
  BY <1>3, <1>4, <1>5, <1>6 DEF PrintedTypes

-----------------------------------------------------------------------------
(* The buffer *)

\* The codes a buffer holds are integers.
LEMMA CellsFacts ==
  /\ Cells \subseteq Int /\ CODES \subseteq Cells /\ BYTES \subseteq Cells
  /\ 0..9 \subseteq Cells /\ 0..(NIBBLE - 1) \subseteq Cells
  /\ NUL \in Cells /\ MINUS \in Cells
<1> QED
  BY BufferAssumption, HexAssumption DEF Cells, NUL, MINUS

\* The buffer a caller holds: without storage, or with all of it.
Sound(b) ==
  /\ b \in [data: Seq(Cells), length: Nat]
  /\ b.length <= Len(b.data)
  /\ Len(b.data) \in {0, CAPACITY}

\* Such a buffer is one the parsers can be given.
LEMMA SoundIsValid ==
  ASSUME NEW b, Sound(b)
  PROVE  Valid(b)
<1>1. b.data \in Seq(Int)
  BY CellsFacts, SeqMonotonic DEF Sound
<1> QED
  BY <1>1 DEF Sound, Valid

\* Storing a text inside the storage.
LEMMA StoredFacts ==
  ASSUME NEW b, Sound(b), NEW s \in Seq(Cells), NEW at \in Nat, at + Len(s) <= Len(b.data),
         NEW n \in 0..Len(b.data)
  PROVE  /\ Sound(Stored(b, at, s, n)) /\ Stored(b, at, s, n).length = n
         /\ Len(Stored(b, at, s, n).data) = Len(b.data)
         /\ \A i \in 1..Len(b.data) :
              Stored(b, at, s, n).data[i] =
                IF i \in (at + 1)..(at + Len(s)) THEN s[i - at] ELSE b.data[i]
<1> DEFINE m == Len(b.data)
           w == b.data
           d == [i \in 1..m |-> IF i \in (at + 1)..(at + Len(s)) THEN s[i - at] ELSE w[i]]
<1>1. m \in Nat /\ w \in Seq(Cells) /\ Len(w) = m
  BY DEF Sound
<1>2. Stored(b, at, s, n) = [data |-> d, length |-> n]
  BY DEF Stored, capacity
<1>3. ASSUME NEW i \in 1..m
      PROVE  (IF i \in (at + 1)..(at + Len(s)) THEN s[i - at] ELSE w[i]) \in Cells
  <2> HIDE DEF m, w
  <2>1. CASE i \in (at + 1)..(at + Len(s))
    <3>1. i - at \in 1..Len(s)
      BY <1>1, <2>1
    <3>2. s[i - at] \in Cells
      BY <3>1
    <3> QED
      BY <2>1, <3>2
  <2>2. CASE ~(i \in (at + 1)..(at + Len(s)))
    <3>1. w[i] \in Cells
      BY <1>1, <1>3
    <3> QED
      BY <2>2, <3>1
  <2> QED
    BY <2>1, <2>2
<1>4. d \in [1..m -> Cells]
  BY <1>3
<1>5. d \in Seq(Cells) /\ Len(d) = m
  <2> HIDE DEF d, m
  <2> QED
    BY <1>1, <1>4
<1>6. \A i \in 1..m : d[i] = IF i \in (at + 1)..(at + Len(s)) THEN s[i - at] ELSE w[i]
  OBVIOUS
<1>7. m \in {0, CAPACITY} /\ n \in Nat /\ n <= m
  BY DEF Sound
<1> DEFINE c == Stored(b, at, s, n)
<1> HIDE DEF d, m, w
<1>8. c.data = d /\ c.length = n /\ c \in [data: Seq(Cells), length: Nat]
  BY <1>2, <1>5, <1>7
<1> HIDE DEF c
<1>9. Sound(c)
  BY <1>5, <1>7, <1>8 DEF Sound
<1> QED
  BY <1>5, <1>6, <1>8, <1>9 DEF m, w, c

\* A text copied to the start of the storage is what the buffer then holds.
LEMMA CopiedContent ==
  ASSUME NEW b, Sound(b), NEW s \in Seq(Cells), Len(s) <= Len(b.data)
  PROVE  content(Stored(b, 0, s, Len(s))) = s
<1> DEFINE c == Stored(b, 0, s, Len(s))
           t == content(c)
           n == Len(s)
<1>1. n \in Nat /\ n \in 0..Len(b.data) /\ Len(b.data) \in Nat /\ 0 + n = n
  BY DEF Sound
<1>2. /\ Sound(c) /\ c.length = n /\ Len(c.data) = Len(b.data)
      /\ \A i \in 1..Len(b.data) : c.data[i] = IF i \in (0 + 1)..(0 + n) THEN s[i - 0] ELSE b.data[i]
  BY <1>1, StoredFacts
<1>3. Valid(c)
  BY <1>2, SoundIsValid
<1> HIDE DEF c
<1>4. /\ t \in Seq(Int) /\ Len(t) = n
      /\ \A i \in 1..n : t[i] = c.data[i]
  BY <1>2, <1>3, ContentFacts
<1>5. \A i \in 1..n : c.data[i] = s[i]
  <2> SUFFICES ASSUME NEW i \in 1..n PROVE c.data[i] = s[i]
    OBVIOUS
  <2>1. i \in 1..Len(b.data) /\ i \in (0 + 1)..(0 + n) /\ i - 0 = i
    BY <1>1
  <2> QED
    BY <1>2, <2>1
<1> HIDE DEF t
<1>6. s \in Seq(Int)
  BY CellsFacts, SeqMonotonic
<1>7. t = s
  BY <1>4, <1>5, <1>6, SeqEqual DEF n
<1> QED
  BY <1>7 DEF t, c

-----------------------------------------------------------------------------
(* Printing *)

\* format_u64_digits() writes decimal text.
LEMMA DigitsText ==
  ASSUME NEW v \in Nat
  PROVE  LET s == format_u64_digits[v]
         IN  s \in Seq(Cells) /\ s \in Seq(Int) /\ IsDecimal(s) /\ Denoted(s) = v
<1> DEFINE s == format_u64_digits[v]
<1>1. s \in Seq(0..9) /\ s # <<>> /\ Denoted(s) = v
  BY FormatFacts
<1> HIDE DEF s
<1>2. s \in Seq(Cells) /\ s \in Seq(Int)
  <2>1. 0..9 \subseteq Int /\ 0..9 \subseteq Cells
    BY CellsFacts
  <2> QED
    BY <1>1, <2>1, SeqMonotonic
<1>3. IsDecimal(s)
  BY <1>1 DEF IsDecimal, IsDigit
<1> QED
  BY <1>1, <1>2, <1>3 DEF s

\* The magnitude of every value of the signed type, the smallest included.
LEMMA MagnitudeExact ==
  ASSUME NEW v \in Values("i64")
  PROVE  v \in Int /\ magnitude(v) = IF v < 0 THEN -v ELSE v
<1>1. "u64" \in Types /\ "i64" \in Types
  BY DEF Types
<1>2. PICK d \in Nat \ {0} :
        /\ \A x : x \in Values("u64") <=> x \in Int /\ 0 <= x /\ x <= 2 * d - 1
        /\ \A x : x \in Values("i64") <=> x \in Int /\ -d <= x /\ x <= d - 1
  BY Values64
<1>3. v \in Int /\ -d <= v
  BY <1>2
<1>4. CASE v < 0
  <2>1. -(v + 1) \in Values("i64") /\ -(v + 1) + 1 = -v
    BY <1>2, <1>3, <1>4
  <2>2. CCast(-(v + 1), "i64") = -(v + 1)
    BY <1>1, <2>1, CCastExact
  <2>3. -v \in Values("u64")
    BY <1>2, <1>3, <1>4
  <2>4. CCast(-v, "u64") = -v
    BY <1>1, <2>3, CCastExact
  <2> QED
    BY <1>3, <1>4, <2>1, <2>2, <2>4 DEF magnitude
<1> QED
  BY <1>3, <1>4 DEF magnitude

\* format_i64() writes a number that the signed types read back.
LEMMA SignedText ==
  ASSUME NEW v \in Values("i64")
  PROVE  LET s == format_i64(v)
         IN  /\ s \in Seq(Cells)
             /\ v >= 0 => s = format_u64_digits[v]
             /\ v < 0 => ~IsDecimal(s) /\ s # <<>> /\ s[1] = MINUS
                         /\ Tail(s) = format_u64_digits[-v]
<1>1. v \in Int /\ magnitude(v) = IF v < 0 THEN -v ELSE v
  BY MagnitudeExact
<1>2. CASE v < 0
  <2> DEFINE u == format_u64_digits[-v]
             m == <<MINUS>>
             s == m \o u
  <2>1. format_i64(v) = s
    BY <1>1, <1>2 DEF format_i64
  <2>2. -v \in Nat
    BY <1>1, <1>2
  <2>3. u \in Seq(Cells)
    BY <2>2, DigitsText
  <2>4. m \in Seq(Cells) /\ Len(m) = 1 /\ m[1] = MINUS
    BY CellsFacts
  <2> HIDE DEF u, m
  <2>5. /\ s \in Seq(Cells) /\ Len(s) = 1 + Len(u)
        /\ \A i \in 1..(1 + Len(u)) : s[i] = IF i <= 1 THEN m[i] ELSE u[i - 1]
    <3>1. /\ s \in Seq(Cells) /\ Len(s) = Len(m) + Len(u)
          /\ \A i \in 1..(Len(m) + Len(u)) :
               s[i] = IF i <= Len(m) THEN m[i] ELSE u[i - Len(m)]
      BY <2>3, <2>4, ConcatProperties
    <3> HIDE DEF s
    <3> QED
      BY <2>4, <3>1
  <2> HIDE DEF s
  <2>6. Len(u) \in Nat
    OBVIOUS
  <2>7. s[1] = MINUS /\ \A i \in 1..Len(u) : s[i + 1] = u[i]
    <3>1. 1 \in 1..(1 + Len(u)) /\ 1 <= 1
      BY <2>6
    <3>2. s[1] = m[1]
      BY <2>5, <3>1
    <3>3. \A i \in 1..Len(u) : i + 1 \in 1..(1 + Len(u)) /\ ~(i + 1 <= 1) /\ i + 1 - 1 = i
      BY <2>6
    <3>4. \A i \in 1..Len(u) : s[i + 1] = u[i]
      BY <2>5, <3>3
    <3> QED
      BY <2>4, <3>2, <3>4
  <2>8. s # <<>>
    BY <2>5, <2>6
  <2>9. /\ Tail(s) \in Seq(Cells) /\ Len(Tail(s)) = Len(s) - 1
        /\ \A i \in 1..Len(Tail(s)) : Tail(s)[i] = s[i + 1]
    BY <2>5, <2>8, HeadTailProperties
  <2>10. Tail(s) = u
    <3> DEFINE t == Tail(s)
    <3> HIDE DEF t
    <3>1. t \in Seq(Cells) /\ Len(t) = Len(s) - 1 /\ \A i \in 1..Len(t) : t[i] = s[i + 1]
      BY <2>9 DEF t
    <3>2. Len(t) = Len(u)
      BY <2>5, <2>6, <3>1
    <3>3. t = u
      BY <2>3, <2>7, <3>1, <3>2, SeqEqual
    <3> QED
      BY <3>3 DEF t
  <2>11. ~IsDecimal(s)
    <3>1. 1 \in 1..Len(s) /\ ~IsDigit(s[1])
      BY <2>5, <2>6, <2>7 DEF IsDigit, MINUS
    <3> QED
      BY <3>1 DEF IsDecimal
  <2> QED
    BY <1>1, <1>2, <2>1, <2>5, <2>7, <2>8, <2>10, <2>11 DEF u
<1>3. CASE ~(v < 0)
  <2> DEFINE u == format_u64_digits[v]
  <2>1. v \in Nat
    BY <1>1, <1>3
  <2>2. u \in Seq(Cells)
    BY <2>1, DigitsText
  <2>3. format_i64(v) = <<>> \o u
    BY <1>1, <1>3 DEF format_i64
  <2> HIDE DEF u
  <2>4. <<>> \o u = u
    BY <2>2, ConcatEmptySeq
  <2> QED
    BY <1>1, <1>3, <2>1, <2>2, <2>3, <2>4 DEF u
<1> QED
  BY <1>2, <1>3

\* The text of a number of one of the printed types.
Text(t, v) == IF t \in Signed THEN format_i64(v) ELSE format_u64_digits[v]

\* The 32-bit types are printed through the 64-bit ones, without loss.
LEMMA Printers ==
  ASSUME NEW t \in PrintedTypes, NEW v \in Values(t), NEW b
  PROVE  /\ string_from(t, b, v) = string_copy_n(b, Text(t, v))
         /\ string_append(t, b, v) = string_append_bytes(b, Text(t, v))
         /\ v \in Int
         /\ t \in Signed => v \in Values("i64")
         /\ t \notin Signed => v \in Nat
<1>1. /\ MinOf("u32") = 0 /\ MinOf("u64") = 0 /\ MaxOf("u32") <= MaxOf("u64")
      /\ MinOf("i64") <= MinOf("i32") /\ MaxOf("i32") <= MaxOf("i64")
      /\ MinOf("i32") \in Int /\ MinOf("i64") \in Int
      /\ MaxOf("u32") \in Nat /\ MaxOf("u64") \in Nat
      /\ MaxOf("i32") \in Nat /\ MaxOf("i64") \in Nat
  BY AllRanges
<1>2. CASE t = "u64"
  BY <1>1, <1>2 DEF string_from, string_append, string_from_u64, string_append_u64, Text,
                    Signed, Values
<1>3. CASE t = "i64"
  BY <1>1, <1>3 DEF string_from, string_append, string_from_i64, string_append_i64, Text,
                    Signed, Values
<1>4. CASE t = "u32"
  <2>1. v \in Nat /\ v \in Values("u64")
    BY <1>1, <1>4 DEF Values
  <2>2. "u32" \in Types /\ "u64" \in Types \ {"u32"}
    BY DEF Types
  <2>3. Exact(cast("u32", "u64", v), v, "u64")
    BY <1>4, <2>2, CastExact
  <2>4. cast("u32", "u64", v).out = v
    BY <2>1, <2>3 DEF Exact
  <2> QED
    BY <1>4, <2>1, <2>4 DEF string_from, string_append, string_from_u64, string_append_u64,
                            string_from_u32, string_append_u32, Text, Signed
<1>5. CASE t = "i32"
  <2>1. v \in Int /\ v \in Values("i64")
    BY <1>1, <1>5 DEF Values
  <2>2. "i32" \in Types /\ "i64" \in Types \ {"i32"}
    BY DEF Types
  <2>3. Exact(cast("i32", "i64", v), v, "i64")
    BY <1>5, <2>2, CastExact
  <2>4. cast("i32", "i64", v).out = v
    BY <2>1, <2>3 DEF Exact
  <2> QED
    BY <1>5, <2>1, <2>4 DEF string_from, string_append, string_from_i64, string_append_i64,
                            string_from_i32, string_append_i32, Text, Signed
<1> QED
  BY <1>2, <1>3, <1>4, <1>5 DEF PrintedTypes

\* What is printed is read as the number that was printed, or by a type that
\* has no such value not at all.
LEMMA TextReads ==
  ASSUME NEW t \in PrintedTypes, NEW v \in Values(t), NEW to \in PrintedTypes
  PROVE  /\ Text(t, v) \in Seq(Cells)
         /\ Reading(to, Text(t, v)) \cap Values(to) = {v} \cap Values(to)
<1> DEFINE s == Text(t, v)
<1>1. /\ v \in Int /\ (t \in Signed => v \in Values("i64"))
      /\ (t \notin Signed => v \in Nat)
  BY Printers
<1>2. CASE v >= 0
  <2>1. v \in Nat
    BY <1>1, <1>2
  <2>2. s = format_u64_digits[v]
    BY <1>1, <1>2, SignedText DEF Text
  <2>3. s \in Seq(Cells) /\ IsDecimal(s) /\ Denoted(s) = v
    BY <2>1, <2>2, DigitsText
  <2> HIDE DEF s
  <2>4. Reading(to, s) = {v}
    BY <2>3, ReadingFacts
  <2> QED
    BY <2>3, <2>4 DEF s
<1>3. CASE v < 0
  <2>1. t \in Signed /\ v \in Values("i64") /\ -v \in Nat
    BY <1>1, <1>3
  <2>2. /\ s \in Seq(Cells) /\ ~IsDecimal(s) /\ s # <<>> /\ s[1] = MINUS
        /\ Tail(s) = format_u64_digits[-v]
    BY <1>3, <2>1, SignedText DEF Text
  <2>3. IsDecimal(format_u64_digits[-v]) /\ Denoted(format_u64_digits[-v]) = -v
    BY <2>1, DigitsText
  <2> HIDE DEF s
  <2>4. IsDecimal(Tail(s)) /\ Denoted(Tail(s)) = -v
    BY <2>2, <2>3
  <2>5. CASE to \in Signed
    <3>1. Reading(to, s) = {-Denoted(Tail(s))}
      BY <2>2, <2>4, <2>5, ReadingFacts
    <3>2. -Denoted(Tail(s)) = v
      BY <1>1, <2>4
    <3>3. Reading(to, s) \cap Values(to) = {v} \cap Values(to)
      BY <3>1, <3>2
    <3> QED
      BY <2>2, <3>3 DEF s
  <2>6. CASE to \notin Signed
    <3>1. Reading(to, s) = {}
      BY <2>2, <2>6, ReadingFacts
    <3>2. MinOf(to) = 0
      BY <2>6 DEF MinOf
    <3>3. to \in Types
      BY DEF PrintedTypes, Types
    <3>4. v \notin Values(to)
      BY <1>1, <1>3, <3>2, <3>3, RangeTypes
    <3>5. Reading(to, s) \cap Values(to) = {v} \cap Values(to)
      BY <3>1, <3>4
    <3> QED
      BY <2>2, <3>5 DEF s
  <2> QED
    BY <2>5, <2>6
<1> QED
  BY <1>1, <1>2, <1>3

-----------------------------------------------------------------------------
(* What the calls on a buffer leave behind *)

\* Appending, by rte_string_concat(), the string's own append_bytes() and
\* rte_buffer's: refused, or the text stands behind what was there.
Appended(r, b, s) ==
  \/ r.status # "OK" /\ r.buf = b
  \/ /\ r.status = "OK" /\ Len(b.data) # 0 /\ b.length + Len(s) <= Len(b.data)
     /\ r.buf = Stored(b, b.length, s, b.length + Len(s))

\* The three appending calls append.
LEMMA Appends ==
  ASSUME NEW b, Sound(b), NEW s \in Seq(Cells)
  PROVE  /\ Appended(string_concat(b, s), b, s)
         /\ Appended(string_append_bytes(b, s), b, s)
         /\ Appended(buffer_append_bytes(b, s), b, s)
<1>1. b.length \in Nat /\ Len(b.data) \in Nat /\ Len(s) \in Nat /\ b.length <= Len(b.data)
  BY DEF Sound
<1> QED
  BY <1>1 DEF Appended, string_concat, string_append_bytes, buffer_append_bytes, Refused, Result,
              buffer_is_valid, HasStorage, capacity, NulWithin

\* Appending leaves a sound buffer.
LEMMA AppendedSound ==
  ASSUME NEW b, Sound(b), NEW s \in Seq(Cells), NEW r, Appended(r, b, s)
  PROVE  Sound(r.buf)
<1>1. b.length \in Nat /\ Len(b.data) \in Nat /\ Len(s) \in Nat /\ b.length <= Len(b.data)
  BY DEF Sound
<1>2. CASE r.buf = b
  BY <1>2
<1>3. CASE /\ b.length + Len(s) <= Len(b.data)
           /\ r.buf = Stored(b, b.length, s, b.length + Len(s))
  <2>1. b.length + Len(s) \in 0..Len(b.data)
    BY <1>1, <1>3
  <2> QED
    BY <1>1, <1>3, <2>1, StoredFacts
<1> QED
  BY <1>2, <1>3 DEF Appended

\* A changed length.
LEMMA LengthSound ==
  ASSUME NEW b, Sound(b), NEW n \in 0..Len(b.data)
  PROVE  Sound([b EXCEPT !.length = n])
<1>1. Len(b.data) \in Nat
  BY DEF Sound
<1> QED
  BY <1>1 DEF Sound

\* rte_buffer_set_length() leaves one, with the length or as it was.
LEMMA SetLengthSound ==
  ASSUME NEW b, Sound(b), NEW n \in Nat
  PROVE  LET r == buffer_set_length(b, n)
         IN  /\ Sound(r.buf)
             /\ r.status # "OK" => r.buf = b
             /\ r.status = "OK" => r.buf = [b EXCEPT !.length = n] /\ n <= Len(b.data)
<1> DEFINE r == buffer_set_length(b, n)
<1>1. Len(b.data) \in Nat
  BY DEF Sound
<1>2. \/ r.status # "OK" /\ r.buf = b
      \/ r.status = "OK" /\ r.buf = [b EXCEPT !.length = n] /\ n <= Len(b.data)
  BY <1>1 DEF buffer_set_length, Refused, Result, HasStorage, capacity
<1> HIDE DEF r
<1>3. ASSUME r.buf = b PROVE Sound(r.buf)
  BY <1>3
<1>4. ASSUME r.buf = [b EXCEPT !.length = n], n <= Len(b.data) PROVE Sound(r.buf)
  <2>1. n \in 0..Len(b.data)
    BY <1>1, <1>4
  <2>2. Sound([b EXCEPT !.length = n])
    BY <2>1, LengthSound
  <2> QED
    BY <1>4, <2>2
<1>5. Sound(r.buf) /\ (r.status # "OK" => r.buf = b)
      /\ (r.status = "OK" => r.buf = [b EXCEPT !.length = n] /\ n <= Len(b.data))
  BY <1>2, <1>3, <1>4
<1> QED
  BY <1>5 DEF r

\* Copying, clearing and terminating.
LEMMA CopySound ==
  ASSUME NEW b, Sound(b), NEW s \in Seq(Cells)
  PROVE  LET r == buffer_copy_in(b, s)
         IN  /\ Sound(r.buf) /\ Sound(string_copy(b, s).buf)
             /\ r.status = "OK" => r.buf = Stored(b, 0, s, Len(s)) /\ Len(s) <= Len(b.data)
                                   /\ Len(b.data) # 0
<1> DEFINE r == buffer_copy_in(b, s)
<1>1. Len(b.data) \in Nat /\ Len(s) \in Nat
  BY DEF Sound
<1>2. \/ r.status # "OK" /\ r.buf = b
      \/ /\ r.status = "OK" /\ r.buf = Stored(b, 0, s, Len(s))
         /\ Len(s) <= Len(b.data) /\ Len(b.data) # 0
  BY <1>1 DEF buffer_copy_in, Refused, Result, HasStorage, capacity
<1>3. string_copy(b, s).buf \in {b, r.buf}
  BY DEF string_copy, string_copy_n, Refused, Result
<1> HIDE DEF r
<1>4. ASSUME Len(s) <= Len(b.data) PROVE Sound(Stored(b, 0, s, Len(s)))
  <2>1. 0 \in Nat /\ 0 + Len(s) <= Len(b.data) /\ Len(s) \in 0..Len(b.data)
    BY <1>1, <1>4
  <2> QED
    BY <2>1, StoredFacts
<1>5. Sound(r.buf)
  BY <1>2, <1>4
<1>6. Sound(string_copy(b, s).buf)
  BY <1>3, <1>5
<1> QED
  BY <1>2, <1>5, <1>6 DEF r

\* rte_string_clear() and the terminator of rte_string_c_str() leave one.
LEMMA ClearSound ==
  ASSUME NEW b, Sound(b)
  PROVE  Sound(string_clear(b).buf) /\ Sound(string_c_str(b).buf)
<1>1. Len(b.data) \in Nat /\ b.length \in Nat /\ b.length <= Len(b.data)
  BY DEF Sound
<1>2. Sound(string_clear(b).buf)
  <2>1. string_clear(b).buf \in {b, [b EXCEPT !.length = 0]}
    BY DEF string_clear, buffer_clear, Refused, Result
  <2>2. 0 \in 0..Len(b.data)
    BY <1>1
  <2>3. Sound([b EXCEPT !.length = 0])
    BY <2>2, LengthSound
  <2> QED
    BY <2>1, <2>3
<1>3. Sound(string_c_str(b).buf)
  <2> DEFINE z == <<NUL>>
  <2>1. z \in Seq(Cells) /\ Len(z) = 1
    BY CellsFacts
  <2>2. \/ string_c_str(b).buf = b
        \/ b.length < Len(b.data) /\ string_c_str(b).buf = Stored(b, b.length, z, b.length)
    BY <1>1 DEF string_c_str, Refused, Result, capacity
  <2> HIDE DEF z
  <2>3. ASSUME b.length < Len(b.data) PROVE Sound(Stored(b, b.length, z, b.length))
    <3>1. b.length + Len(z) <= Len(b.data) /\ b.length \in 0..Len(b.data)
      BY <1>1, <2>1, <2>3
    <3> QED
      BY <1>1, <2>1, <3>1, StoredFacts
  <2> QED
    BY <2>2, <2>3
<1> QED
  BY <1>2, <1>3

\* rte_string_append_hex_u32() appends digits of its base.
LEMMA HexText ==
  ASSUME NEW b, Sound(b), NEW v \in Nat, NEW d \in Nat
  PROVE  Sound(string_append_hex_u32(b, v, d).buf)
<1>1. hex_digits = BaseDigits(NIBBLE)
  BY Zenon DEF hex_digits, BaseDigits
<1> DEFINE digits == hex_digits[v]
           width == CASE d < 1 -> 1 [] d > HEX_DIGITS -> HEX_DIGITS [] OTHER -> d
           pad == IF width > Len(digits) THEN width - Len(digits) ELSE 0
           zeros == [i \in 1..pad |-> 0]
           s == zeros \o digits
<1>2. digits \in Seq(0..(NIBBLE - 1))
  BY <1>1, HexAssumption, BaseDigitsFacts
<1>3. digits \in Seq(Cells)
  <2> HIDE DEF digits
  <2> QED
    BY <1>2, CellsFacts, SeqMonotonic
<1>4. width \in Nat
  BY HexAssumption
<1>5. pad \in Nat
  <2> HIDE DEF width
  <2> QED
    BY <1>3, <1>4
<1>6. zeros \in Seq(Cells)
  <2> HIDE DEF pad
  <2>1. 0 \in Cells
    BY CellsFacts
  <2> QED
    BY <1>5, <2>1
<1>7. s \in Seq(Cells)
  <2> HIDE DEF zeros, digits
  <2> QED
    BY <1>3, <1>6, ConcatProperties
<1>8. string_append_hex_u32(b, v, d) = string_append_bytes(b, s)
  BY DEF string_append_hex_u32
<1> HIDE DEF s
<1> QED
  BY <1>7, <1>8, Appends, AppendedSound

\* The storage the caller hands over.
LEMMA InitSound ==
  ASSUME NEW b, Sound(b)
  PROVE  Sound(string_init(b, [i \in 1..CAPACITY |-> NUL]).buf)
<1> DEFINE z == [i \in 1..CAPACITY |-> NUL]
<1>1. z \in Seq(Cells) /\ Len(z) = CAPACITY /\ CAPACITY \in Nat \ {0}
  BY BufferAssumption, CellsFacts
<1> HIDE DEF z
<1>2. string_init(b, z).buf = [data |-> z, length |-> 0]
  BY <1>1 DEF string_init, buffer_init, Result, Refused
<1>3. Sound([data |-> z, length |-> 0])
  BY <1>1 DEF Sound
<1> QED
  BY <1>2, <1>3 DEF z

-----------------------------------------------------------------------------
(* The number *)

\* The caller's number is one of its type.
NumInv == num.type \in Types /\ num.value \in Values(num.type)

\* A call whose answer is exact keeps the caller's number exact.
LEMMA TakeExact ==
  ASSUME NEW r, NEW want, NEW into \in Types, NumInv, Exact(r, want, into), Take(r, want, into)
  PROVE  NumInv' /\ NumbersStayExact'
<1>1. /\ call' = [want |-> want, into |-> into, ok |-> r.ok]
      /\ num' = IF r.ok THEN [type |-> into, value |-> r.out] ELSE num
  BY DEF Take
<1>2. r.ok \in BOOLEAN /\ (r.ok <=> want \in Values(into)) /\ (r.ok => r.out = want)
  BY DEF Exact
<1>3. call'.ok = r.ok /\ call'.want = want /\ call'.into = into
  BY <1>1
<1>4. CASE r.ok
  <2>1. num' = [type |-> into, value |-> want]
    BY <1>1, <1>2, <1>4
  <2>2. NumInv'
    BY <1>2, <1>4, <2>1 DEF NumInv, Values, MinOf, MaxOf
  <2> QED
    BY <1>2, <1>3, <1>4, <2>1, <2>2 DEF NumbersStayExact, Values, MinOf, MaxOf
<1>5. CASE ~r.ok
  <2>1. num' = num
    BY <1>1, <1>5
  <2>2. NumInv'
    BY <2>1 DEF NumInv, Values, MinOf, MaxOf
  <2> QED
    BY <1>2, <1>3, <1>5, <2>2 DEF NumbersStayExact, Values, MinOf, MaxOf
<1> QED
  BY <1>4, <1>5

\* Conversions, by the functions of rte_cast.h.
LEMMA ConvertExact ==
  ASSUME NumInv, Convert
  PROVE  NumInv' /\ NumbersStayExact'
<1>1. PICK to \in Types \ {num.type} : Take(cast(num.type, to, num.value), num.value, to)
  BY DEF Convert
<1>2. Exact(cast(num.type, to, num.value), num.value, to)
  BY CastExact DEF NumInv
<1> QED
  BY <1>1, <1>2, TakeExact

\* Sums, differences and products of u32 and size numbers.
LEMMA ComputeExact ==
  ASSUME NumInv, Compute
  PROVE  NumInv' /\ NumbersStayExact'
<1> DEFINE a == num.value
<1>1. "u32" \in Types /\ "size" \in Types /\ a \in Values(num.type)
  BY DEF Types, NumInv
<1>2. PICK b \in Values(num.type) :
        IF num.type = "u32"
        THEN \/ Take(checked_add_u32(a, b), a + b, "u32")
             \/ Take(checked_sub_u32(a, b), a - b, "u32")
             \/ Take(checked_mul_u32(a, b), a * b, "u32")
        ELSE \/ Take(checked_add_size(a, b), a + b, "size")
             \/ Take(checked_sub_size(a, b), a - b, "size")
             \/ Take(checked_mul_size(a, b), a * b, "size")
  BY DEF Compute
<1>3. num.type \in {"u32", "size"}
  BY DEF Compute
<1> HIDE DEF a
<1>4. CASE num.type = "u32"
  <2>1. /\ Exact(checked_add_u32(a, b), a + b, "u32")
        /\ Exact(checked_sub_u32(a, b), a - b, "u32")
        /\ Exact(checked_mul_u32(a, b), a * b, "u32")
    BY <1>1, <1>2, <1>4, ArithmeticExact32
  <2>2. CASE Take(checked_add_u32(a, b), a + b, "u32")
    BY <1>1, <2>1, <2>2, TakeExact
  <2>3. CASE Take(checked_sub_u32(a, b), a - b, "u32")
    BY <1>1, <2>1, <2>3, TakeExact
  <2>4. CASE Take(checked_mul_u32(a, b), a * b, "u32")
    BY <1>1, <2>1, <2>4, TakeExact
  <2> QED
    BY <1>2, <1>4, <2>2, <2>3, <2>4
<1>5. CASE num.type = "size"
  <2>1. /\ Exact(checked_add_size(a, b), a + b, "size")
        /\ Exact(checked_sub_size(a, b), a - b, "size")
        /\ Exact(checked_mul_size(a, b), a * b, "size")
    BY <1>1, <1>2, <1>5, ArithmeticExactSize
  <2>2. CASE Take(checked_add_size(a, b), a + b, "size")
    BY <1>1, <2>1, <2>2, TakeExact
  <2>3. CASE Take(checked_sub_size(a, b), a - b, "size")
    BY <1>1, <2>1, <2>3, TakeExact
  <2>4. CASE Take(checked_mul_size(a, b), a * b, "size")
    BY <1>1, <2>1, <2>4, TakeExact
  <2> QED
    BY <1>2, <1>5, <2>2, <2>3, <2>4
<1> QED
  BY <1>3, <1>4, <1>5

\* What is printed is read back exactly, whatever the type it is read as.
LEMMA PrintExact ==
  ASSUME NumInv, Sound(buf), PrintAndParse
  PROVE  NumInv' /\ NumbersStayExact' /\ Sound(buf')
<1> DEFINE v == num.value
           s == Text(num.type, v)
           p == string_from(num.type, buf, v)
<1>1. num.type \in PrintedTypes /\ v \in Values(num.type)
  BY DEF PrintAndParse, NumInv
<1>2. PICK t \in PrintedTypes :
        /\ p.status = "OK" /\ Leave(p)
        /\ Take([ok |-> string_to(t, p.buf).status = "OK", out |-> string_to(t, p.buf).out], v, t)
  BY DEF PrintAndParse
<1> DEFINE r == string_to(t, p.buf)
           a == [ok |-> r.status = "OK", out |-> r.out]
<1>3. p = buffer_copy_in(buf, s)
  BY <1>1, Printers DEF string_copy_n
<1>4. s \in Seq(Cells) /\ Reading(t, s) \cap Values(t) = {v} \cap Values(t)
  BY <1>1, TextReads
<1>5. t \in Types
  BY DEF PrintedTypes, Types
<1> HIDE DEF s, p
<1>6. Sound(p.buf) /\ p.buf = Stored(buf, 0, s, Len(s)) /\ Len(s) <= Len(buf.data) /\ Len(buf.data) # 0
  BY <1>2, <1>3, <1>4, CopySound
<1>7. content(p.buf) = s
  BY <1>4, <1>6, CopiedContent
<1>8. Len(p.buf.data) = Len(buf.data)
  <2>1. 0 \in Nat /\ Len(s) \in 0..Len(buf.data) /\ 0 + Len(s) <= Len(buf.data)
    BY <1>4, <1>6 DEF Sound
  <2> QED
    BY <1>4, <1>6, <2>1, StoredFacts
<1>9. Valid(p.buf) /\ HasStorage(p.buf)
  BY <1>6, <1>8, SoundIsValid DEF HasStorage, capacity, Sound
<1>10. ReadsAs(r, t, s)
  BY <1>7, <1>9, ParseExact
<1>11. Exact(a, v, t)
  <2> HIDE DEF r
  <2>1. r.status = "OK" <=> v \in Values(t)
    BY <1>4, <1>10 DEF ReadsAs
  <2>2. r.status = "OK" => r.out = v
    BY <1>4, <1>10 DEF ReadsAs
  <2>3. a.ok = (r.status = "OK") /\ a.out = r.out
    OBVIOUS
  <2> HIDE DEF a
  <2> QED
    BY <2>1, <2>2, <2>3 DEF Exact
<1>12. Take(a, v, t)
  BY <1>2
<1>13. buf' = p.buf
  BY <1>2 DEF Leave
<1> HIDE DEF a, v
<1> QED
  BY <1>5, <1>6, <1>11, <1>12, <1>13, TakeExact

-----------------------------------------------------------------------------
(* Splitting *)

\* What has been put together after each token: the function in Rejoined().
Joins(tokens) ==
  CHOOSE f : f = [i \in 0..Len(tokens) |->
                    IF i = 0 THEN <<>> ELSE f[i - 1] \o tokens[i] \o <<DELIM>>]

\* The recursion of Rejoined().
LEMMA JoinsFacts ==
  ASSUME NEW s \in Seq(Seq(Int))
  PROVE  /\ Joins(s) \in [0..Len(s) -> Seq(Int)] /\ Joins(s)[0] = <<>>
         /\ \A i \in 1..Len(s) : Joins(s)[i] = Joins(s)[i - 1] \o s[i] \o <<DELIM>>
         /\ Rejoined(s) = Joins(s)[Len(s)]
<1> DEFINE n == Len(s)
           V == Seq(Int)
           S == [i \in 1..n |-> [v \in V |-> v \o s[i] \o <<DELIM>>]]
           text == CHOOSE f : f = [i \in 0..n |-> IF i = 0 THEN <<>> ELSE f[i - 1] \o s[i] \o <<DELIM>>]
<1>1. n \in Nat /\ \A i \in 1..n : s[i] \in V
  OBVIOUS
<1>2. Joins(s) = text /\ Rejoined(s) = text[n]
  BY Zenon DEF Joins, Rejoined, text, n
<1> HIDE DEF n
<1>3. ASSUME NEW v \in V, NEW t \in V PROVE v \o t \o <<DELIM>> \in V
  <2> DEFINE c == <<DELIM>>
  <2>1. c \in V
    BY DEF DELIM
  <2> HIDE DEF c
  <2>2. v \o t \in V
    BY ConcatProperties
  <2> QED
    BY <2>1, <2>2, ConcatProperties DEF c
<1>4. Passes(S, n, V)
  <2> HIDE DEF V
  <2> QED
    BY <1>1, <1>3 DEF Passes
<1>5. PICK f : Results(f, S, n, V, <<>>)
  <2>1. <<>> \in V
    OBVIOUS
  <2> HIDE DEF S, V
  <2> QED
    BY <1>1, <1>4, <2>1, LoopResult
<1>6. f \in [0..n -> V] /\ f[0] = <<>>
  BY <1>5 DEF Results
<1> HIDE DEF V
<1>7. ASSUME NEW i \in 1..n PROVE f[i] = f[i - 1] \o s[i] \o <<DELIM>>
  <2>1. i - 1 \in 0..n
    BY <1>1
  <2>2. f[i] = S[i][f[i - 1]] /\ f[i - 1] \in V
    BY <1>5, <1>6, <2>1 DEF Results
  <2> QED
    BY <2>2
<1>8. f = [i \in 0..n |-> IF i = 0 THEN <<>> ELSE f[i - 1] \o s[i] \o <<DELIM>>]
  <2> DEFINE g == [i \in 0..n |-> IF i = 0 THEN <<>> ELSE f[i - 1] \o s[i] \o <<DELIM>>]
  <2>1. ASSUME NEW i \in 0..n PROVE f[i] = g[i]
    <3>1. i = 0 \/ i \in 1..n
      BY <1>1
    <3>2. CASE i = 0
      BY <1>6, <3>2
    <3>3. CASE i \in 1..n
      <4>1. i # 0
        BY <1>1, <3>3
      <4>2. g[i] = f[i - 1] \o s[i] \o <<DELIM>>
        BY <4>1
      <4> QED
        BY <1>7, <3>3, <4>2
    <3> QED
      BY <3>1, <3>2, <3>3
  <2>2. DOMAIN f = 0..n /\ DOMAIN g = 0..n /\ f = [i \in DOMAIN f |-> f[i]]
    BY <1>6
  <2> QED
    BY <2>1, <2>2
<1>9. text = [i \in 0..n |-> IF i = 0 THEN <<>> ELSE text[i - 1] \o s[i] \o <<DELIM>>]
  BY <1>8, Zenon
<1> HIDE DEF text
<1>10. text[0] = <<>> /\ \A i \in 1..n : text[i] = text[i - 1] \o s[i] \o <<DELIM>>
  <2>1. 0 \in 0..n /\ \A i \in 1..n : i \in 0..n /\ i # 0
    BY <1>1
  <2> QED
    BY <1>9, <2>1, Zenon
<1> DEFINE P == {i \in 0..n : text[i] \in V}
<1>11. 0 \in P
  <2>1. 0 \in 0..n /\ <<>> \in V
    BY <1>1 DEF V
  <2> QED
    BY <1>10, <2>1
<1>12. ASSUME NEW i \in 1..n, i - 1 \in P PROVE i \in P
  <2>1. i \in 0..n /\ text[i - 1] \in V /\ s[i] \in V
    BY <1>1, <1>12
  <2>2. text[i] = text[i - 1] \o s[i] \o <<DELIM>>
    BY <1>10
  <2>3. text[i] \in V
    BY <1>3, <2>1, <2>2
  <2> QED
    BY <2>1, <2>3
<1>13. P = 0..n
  <2>1. P \in SUBSET (0..n)
    OBVIOUS
  <2> HIDE DEF P
  <2> QED
    BY <1>1, <1>11, <1>12, <2>1, EveryIndex
<1>14. text \in [0..n -> V]
  <2>1. DOMAIN text = 0..n /\ text = [i \in 0..n |-> text[i]]
    BY <1>9, Zenon
  <2> QED
    BY <1>13, <2>1
<1> QED
  BY <1>2, <1>10, <1>14 DEF n, V

\* One token more, and none.
LEMMA RejoinedAppend ==
  ASSUME NEW s \in Seq(Seq(Int)), NEW t \in Seq(Int)
  PROVE  /\ Append(s, t) \in Seq(Seq(Int)) /\ Rejoined(s) \in Seq(Int)
         /\ Rejoined(Append(s, t)) = Rejoined(s) \o t \o <<DELIM>>
<1> DEFINE V == Seq(Int)
           n == Len(s)
           u == Append(s, t)
           a == Joins(s)
           b == Joins(u)
<1> HIDE DEF V
<1>1. /\ n \in Nat /\ u \in Seq(V) /\ Len(u) = n + 1 /\ u[n + 1] = t
      /\ \A i \in 1..n : u[i] = s[i]
  <2>1. s \in Seq(V) /\ t \in V
    BY DEF V
  <2> QED
    BY <2>1, AppendProperties
<1>2. /\ a \in [0..n -> V] /\ a[0] = <<>> /\ \A i \in 1..n : a[i] = a[i - 1] \o s[i] \o <<DELIM>>
      /\ Rejoined(s) = a[n]
  BY JoinsFacts DEF V
<1> HIDE DEF u
<1>3. /\ b[0] = <<>> /\ \A i \in 1..Len(u) : b[i] = b[i - 1] \o u[i] \o <<DELIM>>
      /\ Rejoined(u) = b[Len(u)]
  BY <1>1, JoinsFacts DEF V
<1> HIDE DEF n, a, b
<1> DEFINE P == {i \in 0..n : b[i] = a[i]}
<1>4. 0 \in P
  BY <1>1, <1>2, <1>3
<1>5. ASSUME NEW i \in 1..n, i - 1 \in P PROVE i \in P
  <2>1. i \in 1..Len(u) /\ i \in 0..n /\ b[i - 1] = a[i - 1] /\ u[i] = s[i]
    BY <1>1, <1>5
  <2>2. b[i] = b[i - 1] \o u[i] \o <<DELIM>> /\ a[i] = a[i - 1] \o s[i] \o <<DELIM>>
    BY <1>2, <1>3, <2>1
  <2> QED
    BY <2>1, <2>2
<1>6. P = 0..n
  <2>1. P \in SUBSET (0..n)
    OBVIOUS
  <2> HIDE DEF P
  <2> QED
    BY <1>1, <1>4, <1>5, <2>1, EveryIndex
<1>7. n \in 0..n /\ n + 1 \in 1..(n + 1) /\ (n + 1) - 1 = n
  BY <1>1
<1>8. b[n + 1] = a[n] \o t \o <<DELIM>> /\ a[n] \in V
  <2>1. b[n + 1] = b[n] \o u[n + 1] \o <<DELIM>>
    BY <1>1, <1>3, <1>7
  <2>2. b[n] = a[n] /\ a[n] \in V
    BY <1>2, <1>6, <1>7
  <2> QED
    BY <1>1, <2>1, <2>2
<1> QED
  BY <1>1, <1>2, <1>3, <1>8 DEF u, V

\* No tokens make the empty text.
LEMMA RejoinedNone == Rejoined(<<>>) = <<>>
<1>1. <<>> \in Seq(Seq(Int)) /\ Len(<<>>) = 0
  OBVIOUS
<1> QED
  BY <1>1, JoinsFacts

\* One call of rte_string_split_next() that has a token: the text from the
\* cursor up to the next delimiter, or to the end.
LEMMA SplitToken ==
  ASSUME NEW b, Sound(b), NEW c \in 0..b.length,
         string_split_next(b, DELIM, c).has
  PROVE  LET r == string_split_next(b, DELIM, c)
         IN  /\ c < b.length
             /\ \E i \in c..b.length :
                  /\ r.token = SubSeq(b.data, c + 1, i)
                  /\ \A j \in (c + 1)..i : b.data[j] # DELIM
                  /\ \/ i < b.length /\ b.data[i + 1] = DELIM /\ r.cursor = i + 1
                     \/ i = b.length /\ r.cursor = i
<1> DEFINE n == b.length
           d == b.data
           stops == {i \in c..(n - 1) : d[i + 1] = DELIM}
           k == IF stops = {} THEN n ELSE CHOOSE p \in stops : \A q \in stops : p <= q
           r == string_split_next(b, DELIM, c)
<1>1. n \in Nat /\ c \in Nat /\ c <= n
  BY DEF Sound
<1>2. r = IF ~buffer_is_valid(b) \/ c > n
          THEN [status |-> "INVALID_PARAM", has |-> FALSE, token |-> <<>>, cursor |-> c]
          ELSE IF c = n THEN [status |-> "OK", has |-> FALSE, token |-> <<>>, cursor |-> c]
          ELSE [status |-> "OK", has |-> TRUE, token |-> SubSeq(d, c + 1, k),
                cursor |-> IF k < n THEN k + 1 ELSE k]
  BY DEF string_split_next
<1>3. r.has
  OBVIOUS
<1> HIDE DEF r, k, d, n
<1>4. c < n /\ r.token = SubSeq(d, c + 1, k) /\ r.cursor = IF k < n THEN k + 1 ELSE k
  <2>1. ~(~buffer_is_valid(b) \/ c > n)
    BY <1>2, <1>3
  <2>2. c # n
    BY <1>2, <1>3, <2>1
  <2>3. c < n
    BY <1>1, <2>2
  <2>4. r = [status |-> "OK", has |-> TRUE, token |-> SubSeq(d, c + 1, k),
             cursor |-> IF k < n THEN k + 1 ELSE k]
    BY <1>2, <2>1, <2>2
  <2> QED
    BY <2>3, <2>4
<1>5. /\ k \in c..n
      /\ \A j \in (c + 1)..k : d[j] # DELIM
      /\ k < n => d[k + 1] = DELIM
  <2>1. CASE stops = {}
    <3>1. k = n
      BY <2>1 DEF k
    <3>2. ASSUME NEW j \in (c + 1)..n PROVE d[j] # DELIM
      <4>1. j - 1 \in c..(n - 1) /\ (j - 1) + 1 = j
        BY <1>1, <3>2
      <4> QED
        BY <2>1, <4>1
    <3> QED
      BY <1>1, <3>1, <3>2
  <2>2. CASE stops # {}
    <3>1. stops \in SUBSET Nat
      BY <1>1
    <3>2. k \in stops /\ \A q \in stops : k <= q
      <4>1. \E p \in stops : \A q \in stops : p <= q
        BY <2>2, <3>1, LeastElement
      <4>2. k = CHOOSE p \in stops : \A q \in stops : p <= q
        BY <2>2 DEF k
      <4> HIDE DEF stops
      <4> QED
        BY <4>1, <4>2
    <3>3. k \in c..(n - 1) /\ d[k + 1] = DELIM
      BY <3>2
    <3>4. ASSUME NEW j \in (c + 1)..k, d[j] = DELIM PROVE FALSE
      <4>1. j - 1 \in c..(n - 1) /\ (j - 1) + 1 = j /\ ~(k <= j - 1)
        BY <1>1, <3>3, <3>4
      <4>2. j - 1 \in stops
        BY <3>4, <4>1
      <4> QED
        BY <3>2, <4>1, <4>2
    <3> QED
      BY <1>1, <3>3, <3>4
  <2> QED
    BY <2>1, <2>2
<1>6. \/ k < n /\ d[k + 1] = DELIM /\ r.cursor = k + 1
      \/ k = n /\ r.cursor = k
  BY <1>1, <1>4, <1>5
<1>7. \E i \in c..n :
        /\ r.token = SubSeq(d, c + 1, i)
        /\ \A j \in (c + 1)..i : d[j] # DELIM
        /\ \/ i < n /\ d[i + 1] = DELIM /\ r.cursor = i + 1
           \/ i = n /\ r.cursor = i
  BY <1>4, <1>5, <1>6
<1> QED
  BY <1>4, <1>7 DEF r, d, n

\* The tokens so far: none has a delimiter in it, and together with the
\* delimiters they are the text up to the cursor.  The delimiter that is one
\* too many, after the last token, appears only when the cursor has come to
\* the end.
SplitInv ==
  /\ split.cursor \in 0..buf.length
  /\ split.tokens \in Seq(Seq(Int))
  /\ \A i \in 1..Len(split.tokens) : ~Contains(split.tokens[i], DELIM)
  /\ \/ Rejoined(split.tokens) = SubSeq(buf.data, 1, split.cursor)
     \/ /\ split.cursor = buf.length
        /\ Rejoined(split.tokens) = SubSeq(buf.data, 1, split.cursor) \o <<DELIM>>

\* A call of rte_string_split_next() keeps the tokens so.
LEMMA SplitStep ==
  ASSUME Sound(buf), SplitInv, SplitNext
  PROVE  SplitInv'
<1> DEFINE n == buf.length
           d == buf.data
           c == split.cursor
           T == split.tokens
           r == string_split_next(buf, DELIM, c)
           t == r.token
           U == Append(T, t)
<1>1. r.has /\ split' = [cursor |-> r.cursor, tokens |-> Append(T, t)] /\ buf' = buf
  BY DEF SplitNext
<1>2. n \in Nat /\ c \in 0..n /\ n <= Len(d) /\ d \in Seq(Int)
  <2>1. Valid(buf)
    BY SoundIsValid
  <2>2. c \in 0..n
    BY DEF SplitInv
  <2> QED
    BY <2>1, <2>2 DEF Valid
<1>3. c < n /\ \E i \in c..n :
        /\ t = SubSeq(d, c + 1, i)
        /\ \A j \in (c + 1)..i : d[j] # DELIM
        /\ \/ i < n /\ d[i + 1] = DELIM /\ r.cursor = i + 1
           \/ i = n /\ r.cursor = i
  BY <1>1, <1>2, SplitToken
<1>4. /\ T \in Seq(Seq(Int)) /\ Rejoined(T) = SubSeq(d, 1, c)
      /\ \A i \in 1..Len(T) : ~Contains(T[i], DELIM)
  BY <1>2, <1>3 DEF SplitInv
<1> DEFINE e == r.cursor
<1>5. split'.cursor = e /\ split'.tokens = U
  BY <1>1
<1> HIDE DEF n, d, c, T, r, t, e, U
<1>6. PICK i \in c..n :
        /\ t = SubSeq(d, c + 1, i)
        /\ \A j \in (c + 1)..i : d[j] # DELIM
        /\ \/ i < n /\ d[i + 1] = DELIM /\ e = i + 1
           \/ i = n /\ e = i
  BY <1>3 DEF e
<1>7. e \in 0..n /\ i \in Nat /\ i <= n
  BY <1>2, <1>6
<1>8. t \in Seq(Int) /\ ~Contains(t, DELIM)
  <2>1. c + 1 \in Int /\ i \in Int /\ \A j \in (c + 1)..i : d[j] \in Int
    BY <1>2, <1>7
  <2>2. /\ t \in Seq(Int) /\ Len(t) = IF c + 1 <= i THEN i - (c + 1) + 1 ELSE 0
        /\ \A j \in 1..(i - (c + 1) + 1) : t[j] = d[(c + 1) + j - 1]
    BY <1>6, <2>1, SubSeqProperties
  <2>3. ASSUME NEW j \in 1..Len(t) PROVE t[j] # DELIM
    <3>1. j \in 1..(i - (c + 1) + 1) /\ (c + 1) + j - 1 \in (c + 1)..i
      BY <1>2, <1>7, <2>2, <2>3
    <3> QED
      BY <1>6, <2>2, <3>1
  <2> QED
    BY <2>2, <2>3 DEF Contains
<1>9. U \in Seq(Seq(Int)) /\ Rejoined(U) = Rejoined(T) \o t \o <<DELIM>>
  BY <1>4, <1>8, RejoinedAppend DEF U
<1>10. ASSUME NEW j \in 1..Len(U) PROVE ~Contains(U[j], DELIM)
  <2> DEFINE V == Seq(Int)
  <2> HIDE DEF V
  <2>1. /\ Len(U) = Len(T) + 1 /\ U[Len(T) + 1] = t /\ Len(T) \in Nat
        /\ \A k \in 1..Len(T) : U[k] = T[k]
    <3>1. T \in Seq(V) /\ t \in V
      BY <1>4, <1>8 DEF V
    <3> QED
      BY <3>1, AppendProperties DEF U
  <2>2. j \in 1..Len(T) \/ j = Len(T) + 1
    BY <2>1, <1>10
  <2> QED
    BY <1>4, <1>8, <2>1, <2>2
<1>11. Rejoined(T) \o t = SubSeq(d, 1, i)
  <2>1. 1 \in 1..(Len(d) + 1) /\ c \in (1 - 1)..Len(d) /\ i \in c..Len(d)
    BY <1>2, <1>6, <1>7
  <2> QED
    BY <1>2, <1>4, <1>6, <2>1, ConcatAdjacentSubSeq
<1>12. Rejoined(U) = SubSeq(d, 1, i) \o <<DELIM>>
  BY <1>9, <1>11
<1>13. ASSUME e \in 0..n, U \in Seq(Seq(Int)), \A j \in 1..Len(U) : ~Contains(U[j], DELIM),
              \/ Rejoined(U) = SubSeq(d, 1, e)
              \/ e = n /\ Rejoined(U) = SubSeq(d, 1, e) \o <<DELIM>>
       PROVE  SplitInv'
  <2>1. Rejoined(split.tokens)' = Rejoined(U)
    BY <1>5
  <2>2. SubSeq(buf.data, 1, split.cursor)' = SubSeq(d, 1, e)
    BY <1>1, <1>5 DEF d
  <2>3. (split.cursor \in 0..buf.length)' /\ (split.tokens \in Seq(Seq(Int)))'
    BY <1>1, <1>5, <1>13 DEF n
  <2>4. (\A j \in 1..Len(split.tokens) : ~Contains(split.tokens[j], DELIM))'
    BY <1>5, <1>13
  <2>5. (split.cursor = buf.length)' <=> (e = n)
    BY <1>1, <1>5 DEF n
  <2> QED
    BY <1>13, <2>1, <2>2, <2>3, <2>4, <2>5 DEF SplitInv
<1>14. CASE i < n /\ d[i + 1] = DELIM /\ e = i + 1
  <2>1. 1 \in 1..Len(d) /\ e \in 1..Len(d) /\ e - 1 = i /\ d[e] = DELIM
    BY <1>2, <1>7, <1>14
  <2>2. SubSeq(d, 1, e) = SubSeq(d, 1, e - 1) \o <<d[e]>>
    BY <1>2, <2>1, SubSeqRecursiveSecond
  <2>3. Rejoined(U) = SubSeq(d, 1, e)
    BY <1>12, <2>1, <2>2
  <2> QED
    BY <1>7, <1>9, <1>10, <1>13, <2>3
<1>15. CASE i = n /\ e = i
  <2>1. e = n /\ Rejoined(U) = SubSeq(d, 1, e) \o <<DELIM>>
    BY <1>12, <1>15
  <2> QED
    BY <1>7, <1>9, <1>10, <1>13, <2>1
<1> QED
  BY <1>6, <1>14, <1>15

\* A split that starts again.
LEMMA SplitReset ==
  ASSUME NEW b, Sound(b), buf' = b, split' = NoSplit
  PROVE  SplitInv'
<1>1. b.length \in Nat
  BY DEF Sound
<1>2. split'.cursor = 0 /\ split'.tokens = <<>>
  BY DEF NoSplit
<1>3. SubSeq(b.data, 1, 0) = <<>> /\ Len(<<>>) = 0 /\ <<>> \in Seq(Seq(Int))
  BY SubSeqEmpty
<1>4. Rejoined(<<>>) = <<>>
  BY RejoinedNone
<1>5. Rejoined(split.tokens)' = SubSeq(buf.data, 1, split.cursor)'
  BY <1>2, <1>3, <1>4
<1>6. (split.cursor \in 0..buf.length)' /\ (split.tokens \in Seq(Seq(Int)))'
  BY <1>1, <1>2, <1>3
<1>7. (\A j \in 1..Len(split.tokens) : ~Contains(split.tokens[j], DELIM))'
  BY <1>2, <1>3
<1> QED
  BY <1>5, <1>6, <1>7 DEF SplitInv

-----------------------------------------------------------------------------
(* Words in the two byte orders *)

\* A word turned round twice is the word.
LEMMA ReverseFacts ==
  ASSUME NEW S, NEW s \in Seq(S)
  PROVE  /\ Reverse(s) \in Seq(S) /\ Len(Reverse(s)) = Len(s)
         /\ Reverse(Reverse(s)) = s
<1> DEFINE n == Len(s)
           r == Reverse(s)
           q == Reverse(r)
<1>1. n \in Nat /\ \A i \in 1..n : (n - i) + 1 \in 1..n /\ (n - ((n - i) + 1)) + 1 = i
  OBVIOUS
<1>2. r = [i \in 1..n |-> s[(n - i) + 1]]
  BY DEF Reverse
<1>3. r \in [1..n -> S]
  <2>1. \A i \in 1..n : s[(n - i) + 1] \in S
    BY <1>1
  <2> QED
    BY <1>2, <2>1
<1> HIDE DEF r
<1>4. r \in Seq(S) /\ Len(r) = n
  <2> HIDE DEF n
  <2> QED
    BY <1>1, <1>3
<1>5. q = [i \in 1..n |-> r[(n - i) + 1]]
  BY <1>4 DEF Reverse
<1> HIDE DEF q, n
<1>6. ASSUME NEW i \in 1..n PROVE q[i] = s[i]
  <2>1. q[i] = r[(n - i) + 1]
    BY <1>5
  <2>2. r[(n - i) + 1] = s[(n - ((n - i) + 1)) + 1]
    BY <1>1, <1>2
  <2> QED
    BY <1>1, <2>1, <2>2
<1>7. q \in [1..n -> S]
  <2>1. \A i \in 1..n : r[(n - i) + 1] \in S
    BY <1>1, <1>3
  <2> QED
    BY <1>5, <2>1
<1>8. q \in Seq(S) /\ Len(q) = n
  BY <1>1, <1>7
<1>9. q = s
  BY <1>6, <1>8, SeqEqual DEF n
<1> QED
  BY <1>4, <1>9 DEF r, q, n

\* The bytes of a word in the order in which they lie in the buffer.
Laid(order, word) == IF order = "le" THEN Reverse(word) ELSE word

\* b has the word at offset at, inside its length.
HasWord(b, at, order, word) ==
  /\ word \in Seq(Int) /\ Len(word) # 0 /\ at \in Nat
  /\ at + Len(word) <= b.length
  /\ \A j \in 1..Len(word) : b.data[at + j] = Laid(order, word)[j]

\* Either order keeps the word's bytes and their number.
LEMMA LaidFacts ==
  ASSUME NEW S, NEW order, NEW word \in Seq(S)
  PROVE  Laid(order, word) \in Seq(S) /\ Len(Laid(order, word)) = Len(word)
<1> QED
  BY ReverseFacts DEF Laid

\* A word that lies in the buffer reads back in its own order, and reversed
\* in the other.
LEMMA WordReads ==
  ASSUME NEW b, Sound(b), NEW at, NEW order, NEW word, HasWord(b, at, order, word)
  PROVE  LET le == buffer_read_le(b, at, Len(word))
             be == buffer_read_be(b, at, Len(word))
         IN  /\ le.status = "OK" /\ be.status = "OK"
             /\ (IF order = "le" THEN le ELSE be).out = word
             /\ (IF order = "le" THEN be ELSE le).out = Reverse(word)
<1> DEFINE n == Len(word)
           d == b.data
           s == SubSeq(d, at + 1, at + n)
           L == Laid(order, word)
           p == buffer_peek_bytes(b, at, n)
<1>1. /\ word \in Seq(Int) /\ n \in Nat /\ n # 0 /\ at \in Nat /\ at + n <= b.length
      /\ \A j \in 1..n : d[at + j] = L[j]
  BY DEF HasWord
<1>2. b.length \in Nat /\ b.length <= Len(d) /\ d \in Seq(Int)
  <2>1. Valid(b)
    BY SoundIsValid
  <2> QED
    BY <2>1 DEF Valid
<1>3. p = [status |-> "OK", out |-> s]
  <2>1. HasStorage(b) /\ ~(at > b.length \/ b.length - at < n)
    BY <1>1, <1>2 DEF HasStorage, capacity
  <2> QED
    BY <2>1 DEF buffer_peek_bytes
<1>4. L \in Seq(Int) /\ Len(L) = n
  BY <1>1, LaidFacts
<1> HIDE DEF n, d, L, p
<1>5. s = L
  <2>1. at + 1 \in Int /\ at + n \in Int /\ \A i \in (at + 1)..(at + n) : d[i] \in Int
    BY <1>1, <1>2
  <2>2. /\ s \in Seq(Int) /\ Len(s) = IF at + 1 <= at + n THEN (at + n) - (at + 1) + 1 ELSE 0
        /\ \A i \in 1..((at + n) - (at + 1) + 1) : s[i] = d[(at + 1) + i - 1]
    BY <2>1, SubSeqProperties
  <2> HIDE DEF s
  <2>3. /\ (at + n) - (at + 1) + 1 = n /\ at + 1 <= at + n
        /\ \A i \in 1..n : (at + 1) + i - 1 = at + i
    BY <1>1
  <2>4. Len(s) = n /\ \A i \in 1..n : s[i] = L[i]
    BY <1>1, <2>2, <2>3
  <2> QED
    BY <1>4, <2>2, <2>4, SeqEqual
<1> HIDE DEF s
<1>6. /\ buffer_read_be(b, at, n) = [status |-> "OK", out |-> L]
      /\ buffer_read_le(b, at, n) = [status |-> "OK", out |-> Reverse(L)]
  BY <1>3, <1>5 DEF buffer_read_be, buffer_read_le, p
<1>7. CASE order = "le"
  <2>1. L = Reverse(word) /\ Reverse(L) = word
    BY <1>1, <1>7, ReverseFacts DEF L, Laid
  <2> QED
    BY <1>6, <1>7, <2>1 DEF n
<1>8. CASE order # "le"
  <2>1. L = word
    BY <1>8 DEF L, Laid
  <2> QED
    BY <1>6, <1>8, <2>1 DEF n
<1> QED
  BY <1>7, <1>8

\* Every word that is not given back lies in the buffer.
WordsInv ==
  /\ subject # "message" => words = {}
  /\ \A w \in words : HasWord(buf, w.at, w.order, w.word)

\* Then every word reads back.
LEMMA AllWordsRead ==
  ASSUME Sound(buf), WordsInv
  PROVE  WordsReadBack
<1> SUFFICES ASSUME NEW w \in words
             PROVE  LET le == buffer_read_le(buf, w.at, Len(w.word))
                        be == buffer_read_be(buf, w.at, Len(w.word))
                    IN  /\ le.status = "OK" /\ be.status = "OK"
                        /\ (IF w.order = "le" THEN le ELSE be).out = w.word
                        /\ (IF w.order = "le" THEN be ELSE le).out = Reverse(w.word)
  BY DEF WordsReadBack
<1>1. HasWord(buf, w.at, w.order, w.word)
  BY DEF WordsInv
<1> QED
  BY <1>1, WordReads

\* Appending leaves the words where they are, and puts the bytes in place.
LEMMA AppendedWords ==
  ASSUME NEW b, Sound(b), NEW s \in Seq(Cells), b.length + Len(s) <= Len(b.data)
  PROVE  LET c == Stored(b, b.length, s, b.length + Len(s))
         IN  /\ \A at, order, word : HasWord(b, at, order, word) => HasWord(c, at, order, word)
             /\ c.length = b.length + Len(s)
             /\ \A j \in 1..Len(s) : c.data[b.length + j] = s[j]
<1> DEFINE n == b.length
           m == Len(b.data)
           k == Len(s)
           c == Stored(b, n, s, n + k)
<1>1. n \in Nat /\ m \in Nat /\ k \in Nat /\ n + k <= m /\ n + k \in 0..m
  BY DEF Sound
<1>2. /\ c.length = n + k
      /\ \A i \in 1..m : c.data[i] = IF i \in (n + 1)..(n + k) THEN s[i - n] ELSE b.data[i]
  BY <1>1, StoredFacts
<1> HIDE DEF c
<1>3. ASSUME NEW at, NEW order, NEW word, HasWord(b, at, order, word)
      PROVE  HasWord(c, at, order, word)
  <2>1. /\ word \in Seq(Int) /\ Len(word) # 0 /\ at \in Nat /\ at + Len(word) <= n
        /\ \A j \in 1..Len(word) : b.data[at + j] = Laid(order, word)[j]
        /\ Len(word) \in Nat
    BY <1>3 DEF HasWord
  <2> HIDE DEF n, m, k
  <2>2. at + Len(word) <= n + k
    BY <1>1, <2>1
  <2>3. ASSUME NEW j \in 1..Len(word) PROVE c.data[at + j] = b.data[at + j]
    <3>1. at + j \in 1..m /\ at + j \notin (n + 1)..(n + k)
      BY <1>1, <2>1, <2>3
    <3> QED
      BY <1>2, <3>1
  <2> QED
    BY <1>2, <2>1, <2>2, <2>3 DEF HasWord
<1>4. ASSUME NEW j \in 1..k PROVE c.data[n + j] = s[j]
  <2> HIDE DEF n, m, k
  <2>1. n + j \in 1..m /\ n + j \in (n + 1)..(n + k) /\ (n + j) - n = j
    BY <1>1, <1>4
  <2> QED
    BY <1>2, <2>1
<1>5. /\ \A at, order, word : HasWord(b, at, order, word) => HasWord(c, at, order, word)
      /\ c.length = n + k /\ \A j \in 1..k : c.data[n + j] = s[j]
  BY <1>2, <1>3, <1>4
<1> QED
  BY <1>5 DEF c

\* rte_buffer_append_u16_le() and its like keep the words in place.
LEMMA WriteWordStep ==
  ASSUME Sound(buf), WordsInv, WriteWord
  PROVE  Sound(buf') /\ WordsInv' /\ split' = NoSplit
<1>1. PICK n \in {B16, B32, B64}, order \in {"le", "be"} : \E w \in [1..n -> BYTES] :
        LET r == IF order = "le" THEN buffer_write_le(buf, w) ELSE buffer_write_be(buf, w)
        IN  /\ Leave(r)
            /\ words' = IF r.status # "OK" THEN words
                        ELSE words \cup {[at |-> buf.length, order |-> order, word |-> w]}
  BY DEF WriteWord
<1>2. PICK w \in [1..n -> BYTES] :
        LET r == IF order = "le" THEN buffer_write_le(buf, w) ELSE buffer_write_be(buf, w)
        IN  /\ Leave(r)
            /\ words' = IF r.status # "OK" THEN words
                        ELSE words \cup {[at |-> buf.length, order |-> order, word |-> w]}
  BY <1>1
<1> DEFINE s == Laid(order, w)
           r == buffer_append_bytes(buf, s)
           x == [at |-> buf.length, order |-> order, word |-> w]
<1>3. r = IF order = "le" THEN buffer_write_le(buf, w) ELSE buffer_write_be(buf, w)
  BY DEF buffer_write_le, buffer_write_be, Laid
<1>4. /\ buf' = r.buf /\ split' = NoSplit /\ subject' = subject /\ subject = "message"
      /\ words' = IF r.status # "OK" THEN words ELSE words \cup {x}
  BY <1>2, <1>3 DEF Leave, WriteWord
<1>5. n \in Nat \ {0} /\ BYTES \subseteq Cells
  BY BufferAssumption, CellsFacts
<1>6. w \in Seq(Cells) /\ Len(w) = n
  BY <1>5
<1>7. w \in Seq(Int)
  BY <1>6, CellsFacts, SeqMonotonic
<1>8. s \in Seq(Cells) /\ Len(s) = n
  BY <1>6, LaidFacts
<1>9. Appended(r, buf, s)
  BY <1>8, Appends
<1>10. Sound(r.buf)
  BY <1>8, <1>9, AppendedSound
<1> HIDE DEF r
<1>11. \A y \in words' : HasWord(r.buf, y.at, y.order, y.word)
  <2>1. \A y \in words : HasWord(buf, y.at, y.order, y.word)
    BY DEF WordsInv
  <2>2. CASE r.status # "OK" /\ r.buf = buf
    BY <1>4, <2>1, <2>2
  <2>3. CASE /\ r.status = "OK" /\ buf.length + Len(s) <= Len(buf.data)
             /\ r.buf = Stored(buf, buf.length, s, buf.length + Len(s))
    <3>1. /\ \A at, o, v : HasWord(buf, at, o, v) => HasWord(r.buf, at, o, v)
          /\ r.buf.length = buf.length + n
          /\ \A j \in 1..n : r.buf.data[buf.length + j] = s[j]
      BY <1>8, <2>3, AppendedWords
    <3>2. buf.length \in Nat
      BY DEF Sound
    <3>3. HasWord(r.buf, buf.length, order, w)
      <4>1. buf.length + Len(w) <= r.buf.length
        BY <1>5, <1>6, <3>1, <3>2
      <4> QED
        BY <1>5, <1>6, <1>7, <3>1, <3>2, <4>1 DEF HasWord
    <3>4. words' = words \cup {x} /\ x.at = buf.length /\ x.order = order /\ x.word = w
      BY <1>4, <2>3
    <3> HIDE DEF x
    <3> QED
      BY <2>1, <3>1, <3>3, <3>4
  <2> QED
    BY <1>9, <2>2, <2>3 DEF Appended
<1>12. WordsInv'
  BY <1>4, <1>11 DEF WordsInv
<1> QED
  BY <1>4, <1>10, <1>12

\* rte_buffer_set_length() keeps those it does not cut.
LEMMA ShortenStep ==
  ASSUME Sound(buf), WordsInv, Shorten
  PROVE  Sound(buf') /\ WordsInv' /\ split' = NoSplit
<1>1. PICK n \in 0..buf.length :
        LET r == buffer_set_length(buf, n)
        IN  /\ Leave(r)
            /\ words' = {w \in words : r.status # "OK" \/ w.at + Len(w.word) <= n}
  BY DEF Shorten
<1> DEFINE r == buffer_set_length(buf, n)
<1>2. /\ buf' = r.buf /\ split' = NoSplit /\ subject' = subject /\ subject = "message"
      /\ words' = {w \in words : r.status # "OK" \/ w.at + Len(w.word) <= n}
  BY <1>1 DEF Leave, Shorten
<1>3. n \in Nat
  BY DEF Sound
<1>4. /\ Sound(r.buf)
      /\ r.status # "OK" => r.buf = buf
      /\ r.status = "OK" => r.buf = [buf EXCEPT !.length = n]
  BY <1>3, SetLengthSound
<1> HIDE DEF r
<1>5. ASSUME NEW w \in words' PROVE HasWord(r.buf, w.at, w.order, w.word)
  <2>1. w \in words /\ (r.status # "OK" \/ w.at + Len(w.word) <= n)
    BY <1>2, <1>5
  <2>2. HasWord(buf, w.at, w.order, w.word)
    BY <2>1 DEF WordsInv
  <2>3. CASE r.status # "OK"
    BY <1>4, <2>2, <2>3
  <2>4. CASE r.status = "OK"
    <3>1. r.buf.length = n /\ r.buf.data = buf.data
      BY <1>4, <2>4 DEF Sound
    <3> QED
      BY <2>1, <2>2, <2>4, <3>1 DEF HasWord
  <2> QED
    BY <2>3, <2>4
<1>6. WordsInv'
  BY <1>2, <1>5 DEF WordsInv
<1> QED
  BY <1>2, <1>4, <1>6

-----------------------------------------------------------------------------
(* Searching *)

\* The text d has s behind its first i characters.
HasAt(d, i, s) == \A j \in 1..Len(s) : d[i + j] = s[j]

\* A slice equals a text exactly if its characters do.
LEMMA SliceEquals ==
  ASSUME NEW d \in Seq(Int), NEW s \in Seq(Int), NEW i \in Nat, i + Len(s) <= Len(d)
  PROVE  LET t == SubSeq(d, i + 1, i + Len(s))
         IN  /\ t \in Seq(Int) /\ Len(t) = Len(s)
             /\ \A j \in 1..Len(s) : t[j] = d[i + j]
             /\ t = s <=> HasAt(d, i, s)
<1> DEFINE m == Len(s)
           t == SubSeq(d, i + 1, i + m)
<1>1. m \in Nat /\ Len(d) \in Nat
  OBVIOUS
<1>2. i + 1 \in Int /\ i + m \in Int /\ \A k \in (i + 1)..(i + m) : d[k] \in Int
  BY <1>1
<1>3. /\ t \in Seq(Int) /\ Len(t) = IF i + 1 <= i + m THEN (i + m) - (i + 1) + 1 ELSE 0
      /\ \A k \in 1..((i + m) - (i + 1) + 1) : t[k] = d[(i + 1) + k - 1]
  BY <1>2, SubSeqProperties
<1> HIDE DEF t, m
<1>4. /\ (i + m) - (i + 1) + 1 = m /\ (~(i + 1 <= i + m) => m = 0)
      /\ \A k \in 1..m : (i + 1) + k - 1 = i + k
  BY <1>1
<1>5. Len(t) = m /\ \A k \in 1..m : t[k] = d[i + k]
  BY <1>3, <1>4
<1>6. t = s <=> HasAt(d, i, s)
  <2>1. ASSUME HasAt(d, i, s) PROVE t = s
    <3>1. \A k \in 1..Len(t) : t[k] = s[k]
      BY <1>5, <2>1 DEF HasAt, m
    <3> QED
      BY <1>3, <1>5, <3>1, SeqEqual DEF m
  <2> QED
    BY <1>5, <2>1 DEF HasAt, m
<1> QED
  BY <1>3, <1>5, <1>6 DEF t, m

\* rte_string_compare() of two texts of one length is 0 exactly if their
\* characters are the same.
LEMMA CompareEqual ==
  ASSUME NEW a, NEW b, NEW m \in Nat, a.length = m, b.length = m,
         \A i \in 1..m : a.data[i] \in Int /\ b.data[i] \in Int
  PROVE  string_compare(a, b) = 0 <=> \A i \in 1..m : a.data[i] = b.data[i]
<1> DEFINE differ == {i \in 1..m : a.data[i] # b.data[i]}
           sign(x, y) == IF x < y THEN -1 ELSE IF x > y THEN 1 ELSE 0
           k == CHOOSE i \in differ : \A j \in differ : i <= j
<1>1. string_compare(a, b) = IF differ = {} THEN sign(m, m) ELSE sign(a.data[k], b.data[k])
  <2>1. (IF a.length < b.length THEN a.length ELSE b.length) = m
    OBVIOUS
  <2> QED
    BY <2>1 DEF string_compare
<1>2. CASE differ = {}
  <2>1. sign(m, m) = 0
    OBVIOUS
  <2> QED
    BY <1>1, <1>2, <2>1
<1>3. CASE differ # {}
  <2>1. differ \in SUBSET Nat
    OBVIOUS
  <2>2. \E i \in differ : \A j \in differ : i <= j
    BY <1>3, <2>1, LeastElement
  <2>3. k \in differ
    <3> HIDE DEF differ
    <3> QED
      BY <2>2
  <2>4. k \in 1..m /\ a.data[k] # b.data[k] /\ a.data[k] \in Int /\ b.data[k] \in Int
    BY <2>3
  <2> HIDE DEF k
  <2>5. sign(a.data[k], b.data[k]) # 0
    BY <2>4
  <2> QED
    BY <1>1, <1>3, <2>4, <2>5
<1> QED
  BY <1>2, <1>3

\* The places where rte_string_compare() says that the needle is.
LEMMA CompareFinds ==
  ASSUME NEW b, Sound(b), HasStorage(b), NEW s \in Seq(Cells), Len(s) <= Len(b.data),
         NEW i \in Nat, i + Len(s) <= b.length
  PROVE  LET needle == Stored(b, 0, s, Len(s))
             here == Stored(b, 0, SubSeq(content(b), i + 1, i + Len(s)), Len(s))
         IN  string_compare(here, needle) = 0 <=> HasAt(b.data, i, s)
<1> DEFINE m == Len(s)
           n == b.length
           c == content(b)
           t == SubSeq(c, i + 1, i + m)
           needle == Stored(b, 0, s, m)
           here == Stored(b, 0, t, m)
<1>1. /\ m \in Nat /\ n \in Nat /\ n <= Len(b.data) /\ Len(b.data) \in Nat
      /\ 0 \in Nat /\ m \in 0..Len(b.data) /\ 0 + m <= Len(b.data)
  BY DEF Sound
<1>2. Valid(b) /\ s \in Seq(Int)
  BY SoundIsValid, CellsFacts, SeqMonotonic
<1>3. c \in Seq(Int) /\ Len(c) = n /\ \A j \in 1..n : c[j] = b.data[j]
  BY <1>2, ContentFacts
<1>4. c \in Seq(Cells)
  <2>1. \A j \in 1..n : b.data[j] \in Cells
    BY <1>1 DEF Sound
  <2> HIDE DEF c, n
  <2>2. c \in [1..n -> Cells]
    BY <1>3, <2>1
  <2> QED
    BY <1>1, <2>2
<1> HIDE DEF c
<1>5. t \in Seq(Int) /\ Len(t) = m /\ \A j \in 1..m : t[j] = c[i + j]
  BY <1>1, <1>2, <1>3, SliceEquals
<1>6. \A j \in 1..m : i + j \in 1..n
  BY <1>1
<1>7. t \in Seq(Cells)
  <2>1. \A j \in 1..m : c[i + j] \in Cells
    BY <1>3, <1>4, <1>6
  <2> HIDE DEF t, m
  <2>2. t \in [1..m -> Cells]
    BY <1>5, <2>1
  <2> QED
    BY <1>1, <2>2
<1> HIDE DEF t, n
<1>8. /\ needle.length = m /\ here.length = m
      /\ \A j \in 1..Len(b.data) : needle.data[j] = IF j \in (0 + 1)..(0 + m) THEN s[j - 0] ELSE b.data[j]
      /\ \A j \in 1..Len(b.data) : here.data[j] = IF j \in (0 + 1)..(0 + m) THEN t[j - 0] ELSE b.data[j]
  <2>1. Len(t) = Len(s) /\ 0 + Len(t) <= Len(b.data)
    BY <1>1, <1>5
  <2>2. /\ needle.length = m
        /\ \A j \in 1..Len(b.data) : needle.data[j] = IF j \in (0 + 1)..(0 + Len(s)) THEN s[j - 0] ELSE b.data[j]
    BY <1>1, StoredFacts
  <2>3. /\ here.length = m
        /\ \A j \in 1..Len(b.data) : here.data[j] = IF j \in (0 + 1)..(0 + Len(t)) THEN t[j - 0] ELSE b.data[j]
    BY <1>1, <1>7, <2>1, StoredFacts
  <2> QED
    BY <2>1, <2>2, <2>3
<1> HIDE DEF needle, here
<1>9. \A j \in 1..m : needle.data[j] = s[j] /\ here.data[j] = b.data[i + j]
  <2> SUFFICES ASSUME NEW j \in 1..m PROVE needle.data[j] = s[j] /\ here.data[j] = b.data[i + j]
    OBVIOUS
  <2>1. j \in 1..Len(b.data) /\ j \in (0 + 1)..(0 + m) /\ j - 0 = j
    BY <1>1
  <2>2. needle.data[j] = s[j] /\ here.data[j] = t[j]
    BY <1>8, <2>1
  <2> QED
    BY <1>3, <1>5, <1>6, <2>2
<1>10. \A j \in 1..m : needle.data[j] \in Int /\ here.data[j] \in Int
  <2>1. \A j \in 1..m : s[j] \in Int /\ b.data[i + j] \in Int
    BY <1>2, <1>3, <1>6
  <2> QED
    BY <1>9, <2>1
<1>11. string_compare(here, needle) = 0 <=> \A j \in 1..m : here.data[j] = needle.data[j]
  <2> HIDE DEF m
  <2>1. m \in Nat /\ here.length = m /\ needle.length = m
    BY <1>1, <1>8
  <2> QED
    BY <1>10, <2>1, CompareEqual
<1>12. string_compare(here, needle) = 0 <=> HasAt(b.data, i, s)
  BY <1>9, <1>11 DEF HasAt, m
<1> QED
  BY <1>12 DEF here, needle, t, c, m

\* FirstOf() of no place, and of places with 0.
LEMMA FirstOfFacts ==
  /\ FirstOf({}) = [found |-> FALSE, index |-> 0]
  /\ \A P \in SUBSET Nat : 0 \in P => FirstOf(P) = [found |-> TRUE, index |-> 0]
<1>1. FirstOf({}) = [found |-> FALSE, index |-> 0]
  BY DEF FirstOf
<1>2. ASSUME NEW P \in SUBSET Nat, 0 \in P PROVE FirstOf(P) = [found |-> TRUE, index |-> 0]
  <2> DEFINE k == CHOOSE i \in P : \A j \in P : i <= j
  <2>1. \A j \in P : 0 <= j
    OBVIOUS
  <2>2. k \in P /\ \A j \in P : k <= j
    BY <1>2, <2>1
  <2> HIDE DEF k
  <2>3. k = 0
    BY <1>2, <2>2
  <2>4. P # {} /\ (P # {}) = TRUE
    BY <1>2
  <2> QED
    BY <2>3, <2>4 DEF FirstOf, k
<1> QED
  BY <1>1, <1>2

\* The two search functions and the comparison agree.
LEMMA Searches ==
  ASSUME Sound(buf)
  PROVE  SearchAgrees
<1> SUFFICES ASSUME HasStorage(buf), NEW s \in Short, Len(s) <= CAPACITY
             PROVE  LET needle == string_copy(buf, s).buf
                        here(i) == Stored(buf, 0, SubSeq(buffer_as_const(buf).out, i + 1, i + Len(s)), Len(s))
                        hits == {i \in 0..CAPACITY : /\ i = 0 \/ bounds_check(i, buf.length)
                                                     /\ i + Len(s) <= buf.length
                                                     /\ string_compare(here(i), needle) = 0}
                        found == string_find_substr(buf, needle)
                    IN  /\ found = FirstOf(hits)
                        /\ Len(s) = 1 => string_find_char(buf, s[1]) = found
  BY DEF SearchAgrees
<1> DEFINE m == Len(s)
           n == buf.length
           d == buf.data
           needle == Stored(buf, 0, s, m)
           here(i) == Stored(buf, 0, SubSeq(content(buf), i + 1, i + m), m)
           hits == {i \in 0..CAPACITY : /\ i = 0 \/ bounds_check(i, n)
                                        /\ i + m <= n
                                        /\ string_compare(here(i), needle) = 0}
           found == string_find_substr(buf, needle)
<1>1. /\ m \in Nat /\ n \in Nat /\ n <= Len(d) /\ Len(d) = CAPACITY /\ Len(d) # 0
      /\ CAPACITY \in Nat
  BY BufferAssumption DEF Sound, HasStorage, capacity
<1>2. s \in Seq(CODES)
  <2>1. PICK k \in 0..2 : s \in [1..k -> CODES]
    BY DEF Short, BoundedSeq, SeqOf
  <2> QED
    BY <2>1
<1>3. s \in Seq(Cells) /\ s \in Seq(Int) /\ d \in Seq(Int)
  <2>1. s \in Seq(Cells)
    BY <1>2, CellsFacts, SeqMonotonic
  <2>2. Valid(buf)
    BY SoundIsValid
  <2> QED
    BY <2>1, <2>2, CellsFacts, SeqMonotonic DEF Valid
<1>4. string_copy(buf, s).buf = needle
  BY <1>1 DEF string_copy, string_copy_n, buffer_copy_in, buffer_is_valid, NulWithin, HasStorage,
              capacity, Result
<1>5. buffer_as_const(buf).out = content(buf)
  BY <1>1 DEF buffer_as_const, HasStorage, capacity
<1>6. needle.length = m /\ content(needle) = s
  <2>1. needle.length = m
    BY DEF Stored
  <2> QED
    BY <1>1, <1>3, <2>1, CopiedContent
<1>7. hits = {i \in 0..CAPACITY : (i = 0 \/ i < n) /\ i + m <= n /\ HasAt(d, i, s)}
  <2>1. ASSUME NEW i \in 0..CAPACITY, i + m <= n
        PROVE  string_compare(here(i), needle) = 0 <=> HasAt(d, i, s)
    <3>1. i \in Nat
      BY <1>1
    <3> QED
      BY <1>1, <1>3, <2>1, <3>1, CompareFinds
  <2> HIDE DEF here, needle
  <2> QED
    BY <2>1 DEF bounds_check
<1>8. \A i \in Nat : i + m <= n => (SubSeq(d, i + 1, i + m) = s <=> HasAt(d, i, s))
  <2> SUFFICES ASSUME NEW i \in Nat, i + m <= n
               PROVE  SubSeq(d, i + 1, i + m) = s <=> HasAt(d, i, s)
    OBVIOUS
  <2>1. i + m <= Len(d)
    BY <1>1
  <2> HIDE DEF d
  <2> QED
    BY <1>3, <2>1, SliceEquals
<1> HIDE DEF n, d, m, needle
<1>9. found = FirstOf(hits)
  <2>1. CASE m = 0
    <3>1. found = [found |-> TRUE, index |-> 0]
      BY <1>6, <2>1 DEF string_find_substr
    <3>2. HasAt(d, 0, s)
      BY <2>1 DEF HasAt, m
    <3>3. 0 \in hits /\ hits \in SUBSET Nat
      BY <1>1, <1>7, <2>1, <3>2
    <3> HIDE DEF hits, found
    <3> QED
      BY <3>1, <3>3, FirstOfFacts
  <2>2. CASE m # 0 /\ m > n
    <3>1. found = [found |-> FALSE, index |-> 0]
      BY <1>6, <2>2 DEF string_find_substr, n
    <3>2. hits = {}
      BY <1>1, <1>7, <2>2
    <3> HIDE DEF hits, found
    <3> QED
      BY <3>1, <3>2, FirstOfFacts
  <2>3. CASE m # 0 /\ ~(m > n)
    <3> DEFINE places == {i \in 0..(n - m) : SubSeq(d, i + 1, i + m) = s}
    <3>1. found = FirstOf(places)
      BY <1>6, <2>3 DEF string_find_substr, n, d
    <3>2. places = hits
      <4>1. ASSUME NEW i PROVE i \in places <=> i \in hits
        <5>1. i \in 0..(n - m) <=> i \in 0..CAPACITY /\ (i = 0 \/ i < n) /\ i + m <= n
          BY <1>1, <2>3
        <5>2. i \in 0..(n - m) => i \in Nat /\ i + m <= n
          BY <1>1
        <5>3. i \in 0..(n - m) => (SubSeq(d, i + 1, i + m) = s <=> HasAt(d, i, s))
          BY <1>8, <5>2
        <5> HIDE DEF hits
        <5> QED
          BY <1>7, <5>1, <5>3
      <4> HIDE DEF places, hits
      <4> QED
        BY <4>1
    <3> QED
      BY <3>1, <3>2
  <2> QED
    BY <2>1, <2>2, <2>3
<1>10. ASSUME m = 1 PROVE string_find_char(buf, s[1]) = found
  <2> DEFINE places == {i \in 0..(n - 1) : d[i + 1] = s[1]}
  <2>1. string_find_char(buf, s[1]) = FirstOf(places)
    BY DEF string_find_char, n, d
  <2>2. places = hits
    <3>1. ASSUME NEW i PROVE i \in places <=> i \in hits
      <4>1. i \in 0..(n - 1) <=> i \in 0..CAPACITY /\ (i = 0 \/ i < n) /\ i + m <= n
        BY <1>1, <1>10
      <4>2. HasAt(d, i, s) <=> d[i + 1] = s[1]
        <5>1. 1..Len(s) = {1}
          BY <1>10 DEF m
        <5> QED
          BY <5>1 DEF HasAt
      <4> HIDE DEF hits
      <4> QED
        BY <1>7, <4>1, <4>2
    <3> HIDE DEF places, hits
    <3> QED
      BY <3>1
  <2> QED
    BY <1>9, <2>1, <2>2
<1> QED
  BY <1>4, <1>5, <1>9, <1>10 DEF m, n, needle

-----------------------------------------------------------------------------
(* The utilities' inductive invariant *)

\* The buffer is sound, the number one of its type and what the last call
\* said of it true, the tokens those of the text, the words where they were
\* written.
UtilitiesInv ==
  /\ subject \in {"number", "text", "message"}
  /\ Sound(buf)
  /\ NumInv /\ NumbersStayExact
  /\ SplitInv
  /\ WordsInv

\* The buffer before rte_string_init() or rte_buffer_init().
LEMMA NoStorageFacts ==
  /\ Sound(NoStorage) /\ Len(NoStorage.data) = 0 /\ NoStorage.length = 0
<1> QED
  BY DEF NoStorage, Sound

\* It holds before the first call.
LEMMA UtilitiesInitInv == UtilitiesInit => UtilitiesInv
<1> SUFFICES ASSUME UtilitiesInit PROVE UtilitiesInv
  OBVIOUS
<1>1. Sound(buf) /\ buf.length = 0 /\ buf.data = <<>>
  BY NoStorageFacts DEF UtilitiesInit, NoStorage
<1>2. NumInv
  <2>1. CASE subject = "number"
    <3>1. PICK t \in Types : num \in [type: {t}, value: Values(t)]
      BY <2>1 DEF UtilitiesInit
    <3> QED
      BY <3>1 DEF NumInv
  <2>2. CASE subject # "number"
    <3>1. num.type = "u8" /\ num.value = 0
      BY <2>2 DEF UtilitiesInit
    <3>2. "u8" \in Types /\ MinOf("u8") = 0
      BY AllRanges DEF Types
    <3>3. 0 \in Values("u8")
      BY <3>2, RangeTypes
    <3> QED
      BY <3>1, <3>2, <3>3 DEF NumInv
  <2> QED
    BY <2>1, <2>2
<1>3. NumbersStayExact
  <2>1. call = NoCall /\ call.ok = TRUE /\ call.want = 0 /\ call.into = "u64"
    BY DEF UtilitiesInit, NoCall
  <2>2. 0 \in Values("u64")
    BY Values64
  <2> QED
    BY <2>1, <2>2 DEF NumbersStayExact
<1>4. SplitInv
  <2>1. split.cursor = 0 /\ split.tokens = <<>>
    BY DEF UtilitiesInit, NoSplit
  <2>2. SubSeq(buf.data, 1, 0) = <<>> /\ Len(<<>>) = 0 /\ <<>> \in Seq(Seq(Int))
    BY SubSeqEmpty
  <2>3. Rejoined(<<>>) = <<>>
    BY RejoinedNone
  <2>4. Rejoined(split.tokens) = SubSeq(buf.data, 1, split.cursor)
    BY <2>1, <2>2, <2>3
  <2>5. split.cursor \in 0..buf.length /\ split.tokens \in Seq(Seq(Int))
    BY <1>1, <2>1, <2>2
  <2>6. \A i \in 1..Len(split.tokens) : ~Contains(split.tokens[i], DELIM)
    BY <2>1, <2>2
  <2> QED
    BY <2>4, <2>5, <2>6 DEF SplitInv
<1>5. WordsInv
  BY DEF UtilitiesInit, WordsInv
<1> QED
  BY <1>1, <1>2, <1>3, <1>4, <1>5 DEF UtilitiesInv, UtilitiesInit

\* A step that leaves the number alone keeps it exact.
LEMMA NumberKept ==
  ASSUME NumInv, NumbersStayExact, num' = num, call' = call
  PROVE  NumInv' /\ NumbersStayExact'
<1> QED
  BY DEF NumInv, NumbersStayExact, Values, MinOf, MaxOf

\* Words are in a message only.
LEMMA NoWords ==
  ASSUME WordsInv, subject # "message", subject' = subject, words' = words
  PROVE  WordsInv'
<1>1. words' = {}
  BY DEF WordsInv
<1> QED
  BY <1>1 DEF WordsInv

\* A call that edits the text leaves a sound buffer.
LEMMA EditSound ==
  ASSUME Sound(buf), Edit
  PROVE  Sound(buf') /\ split' = NoSplit
<1>1. \E r : Leave(r) /\ Sound(r.buf)
  <2>1. CASE \E s \in Short : Leave(string_copy(buf, s)) \/ Leave(string_concat(buf, s))
    <3>1. PICK s \in Short : Leave(string_copy(buf, s)) \/ Leave(string_concat(buf, s))
      BY <2>1
    <3>2. s \in Seq(Cells)
      <4>1. PICK k \in 0..2 : s \in [1..k -> CODES]
        BY DEF Short, BoundedSeq, SeqOf
      <4>2. s \in Seq(CODES)
        BY <4>1
      <4> QED
        BY <4>2, CellsFacts, SeqMonotonic
    <3>3. Sound(string_copy(buf, s).buf)
      BY <3>2, CopySound
    <3>4. Sound(string_concat(buf, s).buf)
      BY <3>2, Appends, AppendedSound
    <3> QED
      BY <3>1, <3>3, <3>4
  <2>2. CASE \E n \in 0..(CAPACITY + 1) : Leave(buffer_set_length(buf, n))
    <3>1. PICK n \in 0..(CAPACITY + 1) : Leave(buffer_set_length(buf, n))
      BY <2>2
    <3>2. n \in Nat
      BY BufferAssumption
    <3>3. Sound(buffer_set_length(buf, n).buf)
      BY <3>2, SetLengthSound
    <3> QED
      BY <3>1, <3>3
  <2>3. CASE Leave(string_clear(buf)) \/ Leave(string_c_str(buf))
    BY <2>3, ClearSound
  <2>4. CASE \E t \in PrintedTypes : \E v \in Edges(t) : Leave(string_append(t, buf, v))
    <3>1. PICK t \in PrintedTypes : \E v \in Edges(t) : Leave(string_append(t, buf, v))
      BY <2>4
    <3>2. PICK v \in Edges(t) : Leave(string_append(t, buf, v))
      BY <3>1
    <3>3. v \in Values(t)
      BY <3>2 DEF Edges
    <3>4. string_append(t, buf, v) = string_append_bytes(buf, Text(t, v))
      BY <3>3, Printers
    <3>5. Text(t, v) \in Seq(Cells)
      BY <3>3, TextReads
    <3>6. Sound(string_append_bytes(buf, Text(t, v)).buf)
      BY <3>5, Appends, AppendedSound
    <3> QED
      BY <3>2, <3>4, <3>6
  <2>5. CASE \E v \in Edges("u32"), d \in 0..(HEX_DIGITS + 1) :
               Leave(string_append_hex_u32(buf, v, d))
    <3>1. PICK v \in Edges("u32"), d \in 0..(HEX_DIGITS + 1) :
            Leave(string_append_hex_u32(buf, v, d))
      BY <2>5
    <3>2. v \in Values("u32")
      BY <3>1 DEF Edges
    <3>3. "u32" \in PrintedTypes /\ "u32" \notin Signed
      BY DEF PrintedTypes, Signed
    <3>4. v \in Nat /\ d \in Nat
      BY <3>2, <3>3, Printers, HexAssumption
    <3>5. Sound(string_append_hex_u32(buf, v, d).buf)
      BY <3>4, HexText
    <3> QED
      BY <3>1, <3>5
  <2> QED
    BY <2>1, <2>2, <2>3, <2>4, <2>5 DEF Edit
<1> QED
  BY <1>1 DEF Leave

\* Every call keeps it.
LEMMA UtilitiesStepInv == UtilitiesInv /\ [UtilitiesNext]_utilitiesVars => UtilitiesInv'
<1> SUFFICES ASSUME UtilitiesInv, [UtilitiesNext]_utilitiesVars PROVE UtilitiesInv'
  OBVIOUS
<1>1. /\ subject \in {"number", "text", "message"} /\ Sound(buf) /\ NumInv /\ NumbersStayExact
      /\ SplitInv /\ WordsInv
  BY DEF UtilitiesInv
<1>2. ASSUME subject' = subject, Sound(buf'), NumInv', NumbersStayExact', SplitInv', WordsInv'
      PROVE  UtilitiesInv'
  <2>1. Sound(buf)'
    BY <1>2 DEF Sound, Cells, NUL, MINUS
  <2> QED
    BY <1>1, <1>2, <2>1 DEF UtilitiesInv
<1>3. ASSUME Sound(buf'), split' = NoSplit PROVE SplitInv'
  BY <1>3, SplitReset
<1>4. CASE SetUp
  <2> DEFINE r == string_init(buf, [i \in 1..CAPACITY |-> NUL])
  <2>1. Sound(r.buf)
    BY <1>1, InitSound
  <2>2. /\ buf' = r.buf /\ split' = NoSplit /\ subject' = subject /\ words' = words
        /\ num' = num /\ call' = call /\ buf = NoStorage
    BY <1>4 DEF SetUp, Leave
  <2> HIDE DEF r
  <2>3. NumInv' /\ NumbersStayExact'
    BY <1>1, <2>2, NumberKept
  <2>4. words = {}
    <3> SUFFICES ASSUME NEW w \in words PROVE FALSE
      OBVIOUS
    <3>1. HasWord(buf, w.at, w.order, w.word) /\ buf.length = 0
      BY <1>1, <2>2, NoStorageFacts DEF WordsInv
    <3> QED
      BY <3>1 DEF HasWord
  <2>5. WordsInv'
    BY <2>2, <2>4 DEF WordsInv
  <2> QED
    BY <1>2, <1>3, <2>1, <2>2, <2>3, <2>5
<1>5. ASSUME Convert \/ Compute PROVE UtilitiesInv'
  <2>1. /\ subject' = subject /\ buf' = buf /\ split' = split /\ words' = words
        /\ subject # "message"
    BY <1>5 DEF Convert, Compute
  <2>2. NumInv' /\ NumbersStayExact'
    BY <1>1, <1>5, ConvertExact, ComputeExact
  <2>3. SplitInv'
    BY <1>1, <2>1 DEF SplitInv
  <2>4. WordsInv'
    BY <1>1, <2>1, NoWords
  <2> QED
    BY <1>1, <1>2, <2>1, <2>2, <2>3, <2>4
<1>6. CASE PrintAndParse
  <2>1. NumInv' /\ NumbersStayExact' /\ Sound(buf')
    BY <1>1, <1>6, PrintExact
  <2>2. subject' = subject /\ words' = words /\ split' = NoSplit /\ subject # "message"
    BY <1>6 DEF PrintAndParse, Leave
  <2>3. WordsInv'
    BY <1>1, <2>2, NoWords
  <2> QED
    BY <1>2, <1>3, <2>1, <2>2, <2>3
<1>7. CASE Edit
  <2>1. Sound(buf') /\ split' = NoSplit
    BY <1>1, <1>7, EditSound
  <2>2. subject' = subject /\ words' = words /\ num' = num /\ call' = call /\ subject # "message"
    BY <1>7 DEF Edit
  <2>3. WordsInv' /\ NumInv' /\ NumbersStayExact'
    BY <1>1, <2>2, NoWords, NumberKept
  <2> QED
    BY <1>2, <1>3, <2>1, <2>2, <2>3
<1>8. CASE SplitNext
  <2>1. SplitInv'
    BY <1>1, <1>8, SplitStep
  <2>2. /\ subject' = subject /\ words' = words /\ num' = num /\ call' = call /\ buf' = buf
        /\ subject # "message"
    BY <1>8 DEF SplitNext
  <2>3. WordsInv' /\ NumInv' /\ NumbersStayExact'
    BY <1>1, <2>2, NoWords, NumberKept
  <2> QED
    BY <1>1, <1>2, <2>1, <2>2, <2>3
<1>9. ASSUME WriteWord \/ Shorten PROVE UtilitiesInv'
  <2>1. Sound(buf') /\ WordsInv' /\ split' = NoSplit
    BY <1>1, <1>9, WriteWordStep, ShortenStep
  <2>2. subject' = subject /\ num' = num /\ call' = call
    BY <1>9 DEF WriteWord, Shorten
  <2>3. NumInv' /\ NumbersStayExact'
    BY <1>1, <2>2, NumberKept
  <2> QED
    BY <1>2, <1>3, <2>1, <2>2, <2>3
<1>10. CASE UNCHANGED utilitiesVars
  <2>1. /\ subject' = subject /\ words' = words /\ num' = num /\ call' = call /\ buf' = buf
        /\ split' = split
    BY <1>10 DEF utilitiesVars
  <2>2. SplitInv' /\ WordsInv'
    BY <1>1, <2>1 DEF SplitInv, WordsInv
  <2>3. NumInv' /\ NumbersStayExact'
    BY <1>1, <2>1, NumberKept
  <2> QED
    BY <1>1, <1>2, <2>1, <2>2, <2>3
<1> QED
  BY <1>4, <1>5, <1>6, <1>7, <1>8, <1>9, <1>10 DEF UtilitiesNext

\* What the invariant says of the properties.
LEMMA UtilitiesProperties ==
  ASSUME UtilitiesInv
  PROVE  UtilitiesTypeOK /\ NumbersAreExact /\ LayoutIsKept
<1>1. /\ subject \in {"number", "text", "message"} /\ Sound(buf) /\ NumInv /\ NumbersStayExact
      /\ SplitInv /\ WordsInv
  BY DEF UtilitiesInv
<1>2. UtilitiesTypeOK
  <2>1. buf = NoStorage \/ (capacity(buf) = CAPACITY /\ buf.length \in 0..CAPACITY)
    <3>1. CASE Len(buf.data) = 0
      <4>1. buf.data = <<>> /\ buf.length = 0
        BY <1>1, <3>1 DEF Sound
      <4> QED
        BY <1>1, <4>1 DEF Sound, NoStorage
    <3>2. CASE Len(buf.data) = CAPACITY
      BY <1>1, <3>2, BufferAssumption DEF Sound, capacity
    <3> QED
      BY <1>1, <3>1, <3>2 DEF Sound
  <2>2. \A i \in 1..capacity(buf) : buf.data[i] \in Cells
    BY <1>1 DEF Sound, capacity
  <2>3. split.cursor \in 0..buf.length
    BY <1>1 DEF SplitInv
  <2> QED
    BY <1>1, <2>1, <2>2, <2>3 DEF UtilitiesTypeOK, NumInv
<1>3. ParseIsExact
  <2> SUFFICES ASSUME HasStorage(buf), NEW t \in PrintedTypes
               PROVE  LET r == string_to(t, buf)
                          in == Reading(t, content(buf)) \cap Values(t)
                      IN  (r.status = "OK" <=> in # {}) /\ (r.status = "OK" => r.out \in in)
    BY DEF ParseIsExact
  <2>1. Valid(buf)
    BY <1>1, SoundIsValid
  <2>2. ReadsAs(string_to(t, buf), t, content(buf))
    BY <2>1, ParseExact
  <2> QED
    BY <2>2 DEF ReadsAs
<1>4. SplitCoversText
  BY <1>1 DEF SplitInv, SplitCoversText
<1>5. SearchAgrees /\ WordsReadBack
  BY <1>1, Searches, AllWordsRead
<1> QED
  BY <1>1, <1>2, <1>3, <1>4, <1>5 DEF NumbersAreExact, LayoutIsKept

-----------------------------------------------------------------------------
(* The checksum *)

\* Registers of 64 bits stay so under exclusive or and right shift.
LEMMA BitsFacts ==
  ASSUME NEW a \in SUBSET (0..63)
  PROVE  /\ \A b \in SUBSET (0..63) : Xor(a, b) \in SUBSET (0..63)
         /\ \A n \in Nat : ShiftRight(a, n) \in SUBSET (0..63)
<1>1. \A b \in SUBSET (0..63) : Xor(a, b) \in SUBSET (0..63)
  BY DEF Xor
<1>2. ASSUME NEW n \in Nat, NEW x \in ShiftRight(a, n) PROVE x \in 0..63
  <2>1. PICK i \in {j \in a : j >= n} : x = i - n
    BY <1>2 DEF ShiftRight
  <2>2. i \in 0..63 /\ i >= n
    BY <2>1
  <2> QED
    BY <2>1, <2>2
<1> QED
  BY <1>1, <1>2

\* A table entry has 64 bits.
LEMMA EntryBits ==
  ASSUME NEW poly \in SUBSET (0..63), NEW byte \in SUBSET (0..7)
  PROVE  Entry(poly, byte) \in SUBSET (0..63)
<1> DEFINE V == SUBSET (0..63)
           S == [i \in 1..8 |-> [c \in V |-> Divide(poly, c)]]
           crc == CHOOSE f : f = [i \in 0..8 |-> IF i = 0 THEN byte ELSE Divide(poly, f[i - 1])]
<1>1. Entry(poly, byte) = crc[8]
  BY Zenon DEF Entry, crc
<1>2. \A c \in V : Divide(poly, c) \in V
  BY BitsFacts DEF Divide
<1>3. byte \in V
  <2>1. 0..7 \subseteq 0..63
    OBVIOUS
  <2> QED
    BY <2>1
<1> HIDE DEF V
<1>4. PICK f : Results(f, S, 8, V, byte)
  <2>1. Passes(S, 8, V)
    BY <1>2 DEF Passes
  <2> HIDE DEF S
  <2> QED
    BY <1>3, <2>1, LoopResult
<1>5. f = [i \in 0..8 |-> IF i = 0 THEN byte ELSE Divide(poly, f[i - 1])]
  <2>1. f \in [0..8 -> V] /\ f[0] = byte
    BY <1>4 DEF Results
  <2>2. ASSUME NEW i \in 0..8 PROVE f[i] = IF i = 0 THEN byte ELSE Divide(poly, f[i - 1])
    <3>1. CASE i = 0
      BY <2>1, <3>1
    <3>2. CASE i # 0
      <4>1. i \in 1..8 /\ i - 1 \in 0..8
        BY <3>2
      <4>2. f[i - 1] \in V /\ f[i] = S[i][f[i - 1]]
        BY <1>4, <2>1, <4>1 DEF Results
      <4> QED
        BY <3>2, <4>1, <4>2
    <3> QED
      BY <3>1, <3>2
  <2> QED
    BY <2>1, <2>2
<1>6. crc = [i \in 0..8 |-> IF i = 0 THEN byte ELSE Divide(poly, crc[i - 1])]
  BY <1>5, Zenon
<1> HIDE DEF crc
<1> DEFINE P == {i \in 0..8 : crc[i] \in V}
<1>7. 0 \in P
  BY <1>3, <1>6
<1>8. ASSUME NEW i \in 1..8, i - 1 \in P PROVE i \in P
  <2>1. crc[i] = Divide(poly, crc[i - 1]) /\ crc[i - 1] \in V
    BY <1>6, <1>8
  <2> QED
    BY <1>2, <2>1
<1>9. P = 0..8
  <2>1. P \in SUBSET (0..8)
    OBVIOUS
  <2> HIDE DEF P
  <2> QED
    BY <1>7, <1>8, <2>1, EveryIndex
<1>10. crc[8] \in V
  BY <1>9
<1> QED
  BY <1>1, <1>10 DEF V

\* So has every entry of every table.
LEMMA TableBits ==
  ASSUME NEW name \in {"ERTMS", "ISO", "XZ"}, NEW byte \in SUBSET (0..7)
  PROVE  Table(name)[byte] \in SUBSET (0..63)
<1>1. ERTMS \in SUBSET (0..63)
  BY DEF ERTMS
<1>2. ISO \in SUBSET (0..63)
  BY DEF ISO
<1>3. XZ \in SUBSET (0..63)
  BY DEF XZ
<1>4. /\ g_crc64_ertms_table[byte] = Entry(ERTMS, byte)
      /\ g_crc64_iso_table[byte] = Entry(ISO, byte)
      /\ g_crc64_xz_table[byte] = Entry(XZ, byte)
  BY DEF g_crc64_ertms_table, g_crc64_iso_table, g_crc64_xz_table
<1>5. /\ Entry(ERTMS, byte) \in SUBSET (0..63) /\ Entry(ISO, byte) \in SUBSET (0..63)
      /\ Entry(XZ, byte) \in SUBSET (0..63)
  BY <1>1, <1>2, <1>3, EntryBits
<1>6. Table(name)[byte] \in {g_crc64_ertms_table[byte], g_crc64_iso_table[byte], g_crc64_xz_table[byte]}
  BY DEF Table
<1> QED
  BY <1>4, <1>5, <1>6

\* rte_checksum_crc64() has 64 bits, whatever the data.
LEMMA Crc64Bits ==
  ASSUME NEW data, polynomial \in {"none", "ERTMS", "ISO", "XZ"}
  PROVE  crc64(data) \in SUBSET (0..63)
<1> DEFINE V == SUBSET (0..63)
           n == Len(data)
           step(c, i) == Xor(ShiftRight(c, 8), Table(polynomial)[Xor(c, data[i]) \cap 0..7])
           S == [i \in 1..n |-> [c \in V |-> step(c, i)]]
           crc == CHOOSE f : f = [i \in 0..n |-> IF i = 0 THEN AllOnes ELSE step(f[i - 1], i)]
<1>1. crc64(data) = IF polynomial = "none" THEN {} ELSE Xor(AllOnes, crc[n])
  BY Zenon DEF crc64, crc, n, step
<1>2. CASE polynomial = "none"
  BY <1>1, <1>2
<1>3. CASE polynomial # "none"
  <2>1. n \in Nat
    OBVIOUS
  <2>2. \A c \in V, i \in 1..n : step(c, i) \in V
    <3> SUFFICES ASSUME NEW c \in V, NEW i \in 1..n PROVE step(c, i) \in V
      OBVIOUS
    <3>1. Table(polynomial)[Xor(c, data[i]) \cap 0..7] \in V
      <4>1. Xor(c, data[i]) \cap 0..7 \in SUBSET (0..7)
        OBVIOUS
      <4> QED
        BY <1>3, <4>1, TableBits
    <3>2. ShiftRight(c, 8) \in V
      BY BitsFacts
    <3> QED
      BY <3>1, <3>2, BitsFacts
  <2>3. AllOnes \in V
    BY DEF AllOnes
  <2> HIDE DEF V, step, n
  <2>4. PICK f : Results(f, S, n, V, AllOnes)
    <3>1. Passes(S, n, V)
      BY <2>2 DEF Passes
    <3> HIDE DEF S
    <3> QED
      BY <2>1, <2>3, <3>1, LoopResult
  <2>5. f = [i \in 0..n |-> IF i = 0 THEN AllOnes ELSE step(f[i - 1], i)]
    <3>1. f \in [0..n -> V] /\ f[0] = AllOnes
      BY <2>4 DEF Results
    <3>2. ASSUME NEW i \in 0..n PROVE f[i] = IF i = 0 THEN AllOnes ELSE step(f[i - 1], i)
      <4>1. CASE i = 0
        BY <3>1, <4>1
      <4>2. CASE i # 0
        <5>1. i \in 1..n /\ i - 1 \in 0..n
          BY <2>1, <4>2
        <5>2. f[i - 1] \in V /\ f[i] = S[i][f[i - 1]]
          BY <2>4, <3>1, <5>1 DEF Results
        <5> QED
          BY <4>2, <5>1, <5>2
      <4> QED
        BY <4>1, <4>2
    <3> QED
      BY <3>1, <3>2
  <2>6. crc = [i \in 0..n |-> IF i = 0 THEN AllOnes ELSE step(crc[i - 1], i)]
    BY <2>5, Zenon
  <2> HIDE DEF crc
  <2> DEFINE P == {i \in 0..n : crc[i] \in V}
  <2>7. 0 \in P
    BY <2>1, <2>3, <2>6
  <2>8. ASSUME NEW i \in 1..n, i - 1 \in P PROVE i \in P
    <3>1. i \in 0..n /\ i # 0
      BY <2>1
    <3>2. crc[i] = step(crc[i - 1], i) /\ crc[i - 1] \in V
      BY <2>6, <2>8, <3>1
    <3> QED
      BY <2>2, <3>1, <3>2
  <2>9. P = 0..n
    <3>1. P \in SUBSET (0..n)
      OBVIOUS
    <3> HIDE DEF P
    <3> QED
      BY <2>1, <2>7, <2>8, <3>1, EveryIndex
  <2>10. crc[n] \in V
    BY <2>1, <2>9
  <2>11. Xor(AllOnes, crc[n]) \in SUBSET (0..63)
    BY <2>3, <2>10, BitsFacts DEF V
  <2> QED
    BY <1>1, <1>3, <2>11
<1> QED
  BY <1>2, <1>3

\* The message is a record of bytes and a checksum of 64 bits.
Octets == SUBSET (0..7)
ChecksumInv ==
  /\ polynomial \in {"none", "ERTMS", "ISO", "XZ"}
  /\ msg \in [bytes: Seq(Octets), crc: SUBSET (0..63)]
  /\ Len(msg.bytes) = PAYLOAD + 2

\* The bytes that are checked, for a payload of any length.
LEMMA LayoutFacts ==
  ASSUME NEW sequence, NEW payload \in Seq(Octets)
  PROVE  Layout(sequence, payload) \in Seq(Octets) /\ Len(Layout(sequence, payload)) = PAYLOAD + 2
<1> DEFINE head == <<Byte(sequence), Byte(Len(payload))>>
           body == [i \in 1..PAYLOAD |-> IF i <= Len(payload) THEN payload[i] ELSE {}]
<1>1. Byte(sequence) \in Octets /\ Byte(Len(payload)) \in Octets
  BY DEF Byte, Octets
<1>2. head \in Seq(Octets) /\ Len(head) = 2
  BY <1>1
<1>3. PAYLOAD \in Nat
  BY ChecksumAssumption
<1>4. body \in [1..PAYLOAD -> Octets]
  <2>1. ASSUME NEW i \in 1..PAYLOAD PROVE (IF i <= Len(payload) THEN payload[i] ELSE {}) \in Octets
    <3>1. {} \in Octets
      BY DEF Octets
    <3>2. ASSUME i <= Len(payload) PROVE payload[i] \in Octets
      <4>1. i \in 1..Len(payload)
        BY <1>3, <3>2
      <4> QED
        BY <4>1
    <3> QED
      BY <3>1, <3>2
  <2> QED
    BY <2>1
<1> HIDE DEF head, body
<1>5. body \in Seq(Octets) /\ Len(body) = PAYLOAD
  BY <1>3, <1>4
<1>6. head \o body \in Seq(Octets) /\ Len(head \o body) = Len(head) + Len(body)
  BY <1>2, <1>5, ConcatProperties
<1>7. Len(head) + Len(body) = PAYLOAD + 2
  BY <1>2, <1>3, <1>5
<1>8. Layout(sequence, payload) = head \o body
  BY DEF Layout, head, body
<1> QED
  BY <1>6, <1>7, <1>8

\* The zeroed message is one.
LEMMA ChecksumInitInv == ChecksumInit => ChecksumInv
<1> SUFFICES ASSUME ChecksumInit PROVE ChecksumInv
  OBVIOUS
<1>1. <<>> \in Seq(Octets)
  OBVIOUS
<1>2. Layout(0, <<>>) \in Seq(Octets) /\ Len(Layout(0, <<>>)) = PAYLOAD + 2
  BY <1>1, LayoutFacts
<1> QED
  BY <1>2 DEF ChecksumInit, ChecksumInv, Zeroed

\* A change of bits keeps the size.
LEMMA DamagedFacts ==
  ASSUME NEW m \in [bytes: Seq(Octets), crc: SUBSET (0..63)],
         NEW change, change.crc \in SUBSET (0..63),
         \A i \in 1..Len(m.bytes) : change.bytes[i] \in Octets
  PROVE  /\ Damaged(m, change) \in [bytes: Seq(Octets), crc: SUBSET (0..63)]
         /\ Len(Damaged(m, change).bytes) = Len(m.bytes)
<1> DEFINE n == Len(m.bytes)
           d == [i \in 1..n |-> Xor(m.bytes[i], change.bytes[i])]
           c == Xor(m.crc, change.crc)
<1>1. n \in Nat /\ \A i \in 1..n : m.bytes[i] \in Octets
  OBVIOUS
<1>2. \A a, b \in Octets : Xor(a, b) \in Octets
  BY DEF Octets, Xor
<1>3. d \in [1..n -> Octets]
  <2> HIDE DEF n
  <2> QED
    BY <1>1, <1>2 DEF n
<1>4. c \in SUBSET (0..63)
  BY BitsFacts
<1>5. Damaged(m, change) = [bytes |-> d, crc |-> c]
  BY DEF Damaged
<1> HIDE DEF n, d, c
<1>6. d \in Seq(Octets) /\ Len(d) = n
  BY <1>1, <1>3
<1> QED
  BY <1>4, <1>5, <1>6 DEF n

\* The change of one bit, of the bytes or of the checksum.
LEMMA BitFacts ==
  ASSUME NEW n \in Nat, Len(msg.bytes) = n, NEW p \in 0..(8 * n + 63)
  PROVE  /\ Bit(p).crc \in SUBSET (0..63)
         /\ \A i \in 1..n : Bit(p).bytes[i] \in Octets
<1>1. CASE p < 8 * n
  <2>1. Bit(p).crc = {} /\ Bit(p).bytes = [i \in 1..n |-> IF i = p \div 8 + 1 THEN {p % 8} ELSE {}]
    BY <1>1 DEF Bit
  <2>2. {p % 8} \in Octets /\ {} \in Octets
    BY DEF Octets
  <2> QED
    BY <2>1, <2>2
<1>2. CASE ~(p < 8 * n)
  <2>1. Bit(p).crc = {p - 8 * n} /\ Bit(p).bytes = [i \in 1..n |-> {}]
    BY <1>2 DEF Bit
  <2>2. p - 8 * n \in 0..63 /\ {} \in Octets
    BY <1>2 DEF Octets
  <2> QED
    BY <2>1, <2>2
<1> QED
  BY <1>1, <1>2

\* Damage on the way keeps the message's size.
LEMMA DamageInv ==
  ASSUME ChecksumInv, Damage
  PROVE  ChecksumInv'
<1> DEFINE M == [bytes: Seq(Octets), crc: SUBSET (0..63)]
           n == Len(msg.bytes)
<1>1. /\ polynomial' = polynomial /\ polynomial \in {"none", "ERTMS", "ISO", "XZ"}
      /\ msg \in M /\ n = PAYLOAD + 2 /\ n \in Nat
  BY DEF ChecksumInv, Damage
<1>2. msg' \in M /\ Len(msg'.bytes) = n
  <2>1. CASE \E k \in 1..n, pattern \in SUBSET (0..7) \ {{}} :
               msg' = [msg EXCEPT !.bytes[k] = Xor(@, pattern)]
    <3>1. PICK k \in 1..n, pattern \in SUBSET (0..7) \ {{}} :
            msg' = [msg EXCEPT !.bytes[k] = Xor(@, pattern)]
      BY <2>1
    <3> DEFINE old == msg.bytes
               new == [old EXCEPT ![k] = Xor(@, pattern)]
    <3>2. old \in Seq(Octets) /\ Xor(old[k], pattern) \in Octets
      <4>1. old \in Seq(Octets) /\ old[k] \in Octets
        BY <1>1
      <4> HIDE DEF old
      <4> QED
        BY <4>1 DEF Xor, Octets
    <3>3. new \in Seq(Octets) /\ Len(new) = n
      BY <3>2, ExceptSeq
    <3>4. msg' = [msg EXCEPT !.bytes = new]
      BY <1>1, <3>1
    <3> HIDE DEF new
    <3>5. msg'.bytes = new /\ msg'.crc = msg.crc /\ msg' \in M
      BY <1>1, <3>3, <3>4
    <3> QED
      BY <3>3, <3>5
  <2>2. CASE \E k \in 0..7, pattern \in SUBSET (0..7) \ {{}} :
               msg' = [msg EXCEPT !.crc = Xor(@, ByteOfCrc(k, pattern))]
    <3>1. PICK k \in 0..7, pattern \in SUBSET (0..7) \ {{}} :
            msg' = [msg EXCEPT !.crc = Xor(@, ByteOfCrc(k, pattern))]
      BY <2>2
    <3>2. ByteOfCrc(k, pattern) \in SUBSET (0..63)
      BY DEF ByteOfCrc
    <3>3. Xor(msg.crc, ByteOfCrc(k, pattern)) \in SUBSET (0..63)
      BY <1>1, <3>2, BitsFacts
    <3> QED
      BY <1>1, <3>1, <3>3
  <2>3. CASE \E p, q \in 0..(8 * n + 63) : msg' = Damaged(Damaged(msg, Bit(p)), Bit(q))
    <3>1. PICK p \in 0..(8 * n + 63), q \in 0..(8 * n + 63) :
            msg' = Damaged(Damaged(msg, Bit(p)), Bit(q))
      BY <2>3
    <3>2. /\ Bit(p).crc \in SUBSET (0..63) /\ \A i \in 1..n : Bit(p).bytes[i] \in Octets
          /\ Bit(q).crc \in SUBSET (0..63) /\ \A i \in 1..n : Bit(q).bytes[i] \in Octets
      BY <1>1, BitFacts
    <3> DEFINE m == Damaged(msg, Bit(p))
    <3>3. m \in M /\ Len(m.bytes) = n
      BY <1>1, <3>2, DamagedFacts
    <3> HIDE DEF m
    <3>4. Damaged(m, Bit(q)) \in M /\ Len(Damaged(m, Bit(q)).bytes) = n
      BY <3>2, <3>3, DamagedFacts
    <3> QED
      BY <3>1, <3>4 DEF m
  <2> QED
    BY <2>1, <2>2, <2>3 DEF Damage
<1> QED
  BY <1>1, <1>2 DEF ChecksumInv

\* Every step of the checksum's run keeps it.
LEMMA ChecksumStepInv == ChecksumInv /\ [ChecksumNext]_checksumVars => ChecksumInv'
<1> SUFFICES ASSUME ChecksumInv, [ChecksumNext]_checksumVars PROVE ChecksumInv'
  OBVIOUS
<1>1. CASE Crc64Init
  BY <1>1 DEF Crc64Init, ChecksumInv
<1>2. CASE Create
  <2>1. PICK sequence \in SEQUENCES, payload \in PAYLOADS :
          msg' = [bytes |-> Layout(sequence, payload), crc |-> crc64(Layout(sequence, payload))]
    BY <1>2 DEF Create
  <2>2. payload \in Seq(Octets)
    BY ChecksumAssumption DEF Octets
  <2>3. Layout(sequence, payload) \in Seq(Octets) /\ Len(Layout(sequence, payload)) = PAYLOAD + 2
    BY <2>2, LayoutFacts
  <2>4. crc64(Layout(sequence, payload)) \in SUBSET (0..63)
    BY Crc64Bits DEF ChecksumInv
  <2>5. polynomial' = polynomial
    BY <1>2 DEF Create
  <2> QED
    BY <2>1, <2>3, <2>4, <2>5 DEF ChecksumInv
<1>3. CASE Damage
  BY <1>3, DamageInv
<1>4. CASE Verify
  BY <1>4 DEF Verify, ChecksumInv
<1>5. CASE UNCHANGED checksumVars
  BY <1>5 DEF checksumVars, ChecksumInv
<1> QED
  BY <1>1, <1>2, <1>3, <1>4, <1>5 DEF ChecksumNext

-----------------------------------------------------------------------------
(* The election *)

\* rte_election_candidate_t.
Candidate == [id: Nat, time: Nat, degraded: BOOLEAN]

\* One pass of the loop: the winner among one more candidate.
BetterOf(list, i, w) == IF Before(list[i], list[w]) THEN i ELSE w

\* find_winner_index() returns a candidate that no other one comes before.
LEMMA WinnerFacts ==
  ASSUME NEW list \in Seq(Candidate), list # <<>>
  PROVE  LET w == find_winner_index(list)
         IN  w \in 1..Len(list) /\ \A j \in 1..Len(list) : ~Before(list[j], list[w])
<1> DEFINE n == Len(list)
           V == 1..n
           S == [i \in 1..n |-> [w \in V |-> BetterOf(list, i, w)]]
           winner_of == CHOOSE f : f = [i \in 0..n |-> IF i = 0 THEN 1
                                                       ELSE BetterOf(list, i, f[i - 1])]
<1>1. n \in Nat \ {0} /\ \A i \in 1..n : list[i] \in Candidate
  OBVIOUS
<1> HIDE DEF n
<1>2. winner_of = [i \in 0..n |-> IF i = 0 THEN 1 ELSE BetterOf(list, i, winner_of[i - 1])]
  <2>1. 1 \in V
    BY <1>1
  <2>2. \A i \in 1..n, w \in V : BetterOf(list, i, w) \in V
    BY DEF BetterOf
  <2>3. Passes(S, n, V)
    BY <2>2 DEF Passes
  <2>4. PICK f : Results(f, S, n, V, 1)
    <3> HIDE DEF S, V
    <3> QED
      BY <1>1, <2>1, <2>3, LoopResult
  <2>5. ASSUME NEW i \in 1..n PROVE f[i] = BetterOf(list, i, f[i - 1])
    <3>1. f[i - 1] \in V
      BY <1>1, <2>4 DEF Results
    <3> QED
      BY <2>4, <3>1 DEF Results
  <2>6. f = [i \in 0..n |-> IF i = 0 THEN 1 ELSE BetterOf(list, i, f[i - 1])]
    <3> DEFINE g == [i \in 0..n |-> IF i = 0 THEN 1 ELSE BetterOf(list, i, f[i - 1])]
    <3>1. f \in [0..n -> V] /\ f[0] = 1
      BY <2>4 DEF Results
    <3>2. ASSUME NEW i \in 0..n PROVE f[i] = g[i]
      <4>1. i = 0 \/ i \in 1..n
        BY <1>1
      <4> QED
        BY <2>5, <3>1, <4>1
    <3> QED
      BY <3>1, <3>2
  <2> QED
    BY <2>6
<1> HIDE DEF winner_of
<1> DEFINE Least(i) == /\ winner_of[i] \in V
                       /\ \A j \in 1..i : ~Before(list[j], list[winner_of[i]])
           P == {i \in 0..n : Least(i)}
<1>3. 0 \in P
  BY <1>1, <1>2
<1>4. ASSUME NEW i \in 1..n, i - 1 \in P PROVE i \in P
  <2> DEFINE w == winner_of[i - 1]
  <2>1. winner_of[i] = BetterOf(list, i, w)
    BY <1>1, <1>2
  <2>2. w \in 1..n /\ \A j \in 1..(i - 1) : ~Before(list[j], list[w])
    BY <1>4
  <2>3. \A j \in 1..i : j \in 1..n /\ (j = i \/ j \in 1..(i - 1))
    BY <1>1
  <2> HIDE DEF w
  <2>4. CASE Before(list[i], list[w])
    <3>1. winner_of[i] = i
      BY <2>1, <2>4 DEF BetterOf
    <3>2. ASSUME NEW j \in 1..i PROVE ~Before(list[j], list[i])
      <4>1. list[j] \in Candidate /\ list[i] \in Candidate /\ list[w] \in Candidate
        BY <1>1, <2>2, <2>3
      <4>2. \A k \in {i, j, w} : list[k].id \in Nat /\ list[k].time \in Nat
        BY <4>1 DEF Candidate
      <4>3. CASE j = i
        BY <4>2, <4>3 DEF Before
      <4>4. CASE j \in 1..(i - 1)
        <5>1. ~Before(list[j], list[w])
          BY <2>2, <4>4
        <5> QED
          BY <2>4, <4>2, <5>1 DEF Before
      <4> QED
        BY <2>3, <4>3, <4>4
    <3> QED
      BY <1>1, <3>1, <3>2
  <2>5. CASE ~Before(list[i], list[w])
    <3>1. winner_of[i] = w
      BY <2>1, <2>5 DEF BetterOf
    <3> QED
      BY <1>1, <2>2, <2>3, <2>5, <3>1
  <2> QED
    BY <2>4, <2>5
<1>5. n \in P
  <2>1. P \in SUBSET (0..n)
    OBVIOUS
  <2> HIDE DEF P
  <2>2. P = 0..n
    BY <1>1, <1>3, <1>4, <2>1, EveryIndex
  <2> QED
    BY <1>1, <2>2
<1>6. find_winner_index(list) = winner_of[n]
  BY Zenon DEF find_winner_index, BetterOf, winner_of, n
<1> QED
  BY <1>5, <1>6 DEF n

\* The inductive invariant of the election: a node that decided names a
\* candidate it heard of that none of the others comes before, and is ONLINE
\* exactly if that is the node itself.
WinnerIsLeast(n) ==
  /\ \A c \in heard[n] : c.id \in Nat /\ c.time \in Nat
  /\ \E c \in heard[n] : c.id = winner[n] /\ \A d \in heard[n] : ~Before(d, c)
  /\ own_state[n] = "ONLINE" <=> winner[n] = n

ElectionInv ==
  /\ ElectionTypeOK /\ DOMAIN heard = NODES
  /\ \A n \in NODES : Decided(n) => WinnerIsLeast(n)

\* No node has decided at first.
LEMMA ElectionInitInv == ElectionInit => ElectionInv
  BY DEF ElectionInit, ElectionInv, ElectionTypeOK, Decided

\* The lists a node can be given.
LEMMA ListFacts ==
  ASSUME NEW ids \in Lists
  PROVE  /\ ids \in Seq(NODES)
         /\ \A i, j \in 1..Len(ids) : ids[i] = ids[j] => i = j
<1>1. PICK some \in SUBSET NODES : ids \in SetToSeqs(some)
  BY DEF Lists
<1>2. Cardinality(some) \in Nat
  BY ElectionAssumption, FS_Subset, FS_CardinalityType
<1> DEFINE D == 1..Cardinality(some)
<1>3. ids \in [D -> some] /\ \A i, j \in D : i # j => ids[i] # ids[j]
  BY <1>1 DEF SetToSeqs
<1>4. Len(ids) = Cardinality(some) /\ ids \in Seq(some)
  BY <1>2, <1>3
<1> QED
  BY <1>3, <1>4

\* A decision names the least of the candidates.
LEMMA ExecuteInv ==
  ASSUME ElectionInv, NEW n \in NODES, Execute(n)
  PROVE  ElectionInv'
<1> DEFINE Same(m) == /\ own_state'[m] = own_state[m] /\ winner'[m] = winner[m]
                      /\ heard'[m] = heard[m]
<1>1. PICK ids \in Lists :
        /\ heard' = [heard EXCEPT ![n] = {candidate(m) : m \in ToSet(ids)}]
        /\ LET list == [i \in 1..Len(ids) |-> candidate(ids[i])]
               own == find_own_index(list, n) IN
           IF own = {}
           THEN /\ own_state' = [own_state EXCEPT ![n] = "UNKNOWN"]
                /\ UNCHANGED winner
           ELSE /\ winner' = [winner EXCEPT ![n] = list[find_winner_index(list)].id]
                /\ \E i \in own : own_state' = [own_state EXCEPT ![n] = state_of(list, i)]
        /\ UNCHANGED started
  BY DEF Execute
<1> DEFINE list == [i \in 1..Len(ids) |-> candidate(ids[i])]
           own == find_own_index(list, n)
           w == find_winner_index(list)
<1>2. ids \in Seq(NODES) /\ \A i, j \in 1..Len(ids) : ids[i] = ids[j] => i = j
  BY ListFacts
<1>3. /\ \A m \in NODES : candidate(m) \in Candidate /\ candidate(m).id = m
      /\ list \in Seq(Candidate) /\ Len(list) = Len(ids)
      /\ \A i \in 1..Len(ids) : list[i] = candidate(ids[i]) /\ list[i].id = ids[i]
  <2>1. ASSUME NEW m \in NODES PROVE candidate(m) \in Candidate /\ candidate(m).id = m
    <3>1. (m \in DEGRADED) \in BOOLEAN
      <4>1. CASE m \in DEGRADED
        <5>1. (m \in DEGRADED) = TRUE
          BY <4>1
        <5> QED
          BY <5>1
      <4>2. CASE ~(m \in DEGRADED)
        <5>1. (m \in DEGRADED) = FALSE
          BY <4>2
        <5> QED
          BY <5>1
      <4> QED
        BY <4>1, <4>2
    <3>2. m \in Nat /\ started[m] \in Nat
      BY ElectionAssumption DEF ElectionInv, ElectionTypeOK
    <3>3. \A d \in BOOLEAN : LET c == [id |-> m, time |-> started[m], degraded |-> d]
                              IN  c \in Candidate /\ c.id = m
      BY <3>2 DEF Candidate
    <3> QED
      BY <3>1, <3>3, Zenon DEF candidate
  <2>2. \A i \in 1..Len(ids) : ids[i] \in NODES
    BY <1>2
  <2> QED
    BY <1>2, <2>1, <2>2
<1>4. heard'[n] = {list[i] : i \in 1..Len(ids)}
  BY <1>1, <1>2 DEF ElectionInv, ToSet
<1> HIDE DEF list
<1>5. CASE own = {}
  <2>1. own_state' = [own_state EXCEPT ![n] = "UNKNOWN"] /\ winner' = winner /\ started' = started
    BY <1>1, <1>5 DEF list
  <2>2. ElectionTypeOK' /\ DOMAIN heard' = NODES
    BY <1>1, <2>1 DEF ElectionInv, ElectionTypeOK
  <2>3. ASSUME NEW m \in NODES, Decided(m)' PROVE WinnerIsLeast(m)'
    <3>1. m # n /\ Same(m) /\ Decided(m)
      BY <1>1, <2>1, <2>3 DEF ElectionInv, ElectionTypeOK, Decided
    <3> QED
      BY <3>1 DEF ElectionInv, WinnerIsLeast
  <2> QED
    BY <2>2, <2>3 DEF ElectionInv
<1>6. CASE own # {}
  <2>1. PICK i \in own : /\ own_state' = [own_state EXCEPT ![n] = state_of(list, i)]
                         /\ winner' = [winner EXCEPT ![n] = list[w].id]
                         /\ started' = started
    BY <1>1, <1>6 DEF list
  <2>2. i \in 1..Len(ids) /\ list[i].id = n
    BY <1>3, <2>1 DEF find_own_index
  <2>3. list # <<>>
    BY <1>3, <2>2
  <2>4. w \in 1..Len(ids) /\ \A j \in 1..Len(ids) : ~Before(list[j], list[w])
    BY <1>3, <2>3, WinnerFacts
  <2> HIDE DEF w, own
  <2>5. /\ state_of(list, i) \in {"ONLINE", "COLDSTANDBY", "HOTSTANDBY"}
        /\ state_of(list, i) = "ONLINE" <=> w = i
    BY DEF state_of, w
  <2>6. w = i <=> list[w].id = n
    BY <1>2, <1>3, <2>2, <2>4
  <2>7. list[w].id \in NODES
    BY <1>2, <1>3, <2>4
  <2>8. ElectionTypeOK' /\ DOMAIN heard' = NODES
    <3>1. own_state' \in [NODES -> {"IDLE", "UNKNOWN", "ONLINE", "COLDSTANDBY", "HOTSTANDBY"}]
      BY <2>1, <2>5 DEF ElectionInv, ElectionTypeOK
    <3>2. winner' \in [NODES -> NODES \cup {NoWinner}]
      BY <2>1, <2>7 DEF ElectionInv, ElectionTypeOK
    <3> QED
      BY <1>1, <2>1, <3>1, <3>2 DEF ElectionInv, ElectionTypeOK
  <2>9. WinnerIsLeast(n)'
    <3>1. winner'[n] = list[w].id /\ own_state'[n] = state_of(list, i)
      BY <2>1 DEF ElectionInv, ElectionTypeOK
    <3>2. \A c \in heard'[n] : c.id \in Nat /\ c.time \in Nat
      BY <1>2, <1>3, <1>4 DEF Candidate
    <3>3. list[w] \in heard'[n] /\ \A d \in heard'[n] : ~Before(d, list[w])
      BY <1>4, <2>4
    <3> QED
      BY <2>5, <2>6, <3>1, <3>2, <3>3 DEF WinnerIsLeast
  <2>10. ASSUME NEW m \in NODES, m # n, Decided(m)' PROVE WinnerIsLeast(m)'
    <3>1. Same(m) /\ Decided(m)
      BY <1>1, <2>1, <2>10 DEF ElectionInv, ElectionTypeOK, Decided
    <3> QED
      BY <3>1 DEF ElectionInv, WinnerIsLeast
  <2> QED
    BY <2>8, <2>9, <2>10 DEF ElectionInv
<1> QED
  BY <1>5, <1>6

\* A restarted node has decided nothing.
LEMMA RestartInv ==
  ASSUME ElectionInv, NEW n \in NODES, Restart(n)
  PROVE  ElectionInv'
<1>1. ElectionTypeOK' /\ DOMAIN heard' = NODES
  BY DEF Restart, ElectionInv, ElectionTypeOK
<1>2. ASSUME NEW m \in NODES, Decided(m)' PROVE WinnerIsLeast(m)'
  <2>1. /\ m # n /\ Decided(m)
        /\ own_state'[m] = own_state[m] /\ winner'[m] = winner[m] /\ heard'[m] = heard[m]
    BY <1>2 DEF Restart, ElectionInv, ElectionTypeOK, Decided
  <2> QED
    BY <2>1 DEF ElectionInv, WinnerIsLeast
<1> QED
  BY <1>1, <1>2 DEF ElectionInv

\* Every step of the election preserves it.
LEMMA ElectionStepInv == ElectionInv /\ [ElectionNext]_electionVars => ElectionInv'
<1> SUFFICES ASSUME ElectionInv, [ElectionNext]_electionVars PROVE ElectionInv'
  OBVIOUS
<1>1. CASE UNCHANGED electionVars
  BY <1>1 DEF electionVars, ElectionInv, ElectionTypeOK, Decided, WinnerIsLeast
<1>2. CASE ElectionNext
  BY <1>2, ElectionAssumption, ExecuteInv, RestartInv DEF ElectionNext
<1> QED
  BY <1>1, <1>2

\* Of two least candidates of the same set there is only one.
LEMMA ElectionAgrees == ElectionInv => SameCandidatesSameWinner
<1> SUFFICES ASSUME ElectionInv, NEW m \in NODES, NEW n \in NODES, m # n,
                    Decided(m), Decided(n), heard[m] = heard[n]
             PROVE  /\ winner[m] = winner[n]
                    /\ ~(own_state[m] = "ONLINE" /\ own_state[n] = "ONLINE")
                    /\ own_state[m] = "ONLINE" <=> winner[n] = m
  BY DEF SameCandidatesSameWinner
<1>1. WinnerIsLeast(m) /\ WinnerIsLeast(n)
  BY DEF ElectionInv
<1>2. PICK c \in heard[m] : c.id = winner[m] /\ \A d \in heard[m] : ~Before(d, c)
  BY <1>1 DEF WinnerIsLeast
<1>3. PICK e \in heard[m] : e.id = winner[n] /\ \A d \in heard[m] : ~Before(d, e)
  BY <1>1 DEF WinnerIsLeast
<1>4. c.id = e.id
  <2>1. c.id \in Nat /\ c.time \in Nat /\ e.id \in Nat /\ e.time \in Nat
    BY <1>1 DEF WinnerIsLeast
  <2> QED
    BY <1>2, <1>3, <2>1 DEF Before
<1> QED
  BY <1>1, <1>2, <1>3, <1>4 DEF WinnerIsLeast

-----------------------------------------------------------------------------
(* The state transfer *)

\* What a field can hold, and an encoded byte.
Value == VERSIONS \cup {0}
Cell == FIELDS \X Value

\* ends() has the sum of the sizes up to every field.
LEMMA EndsFacts ==
  ASSUME NEW fields \in Seq(FIELDS)
  PROVE  /\ ends(fields) \in [0..Len(fields) -> Nat] /\ ends(fields)[0] = 0
         /\ \A i \in 1..Len(fields) :
              ends(fields)[i] = ends(fields)[i - 1] + SIZE[fields[i]]
<1> DEFINE n == Len(fields)
           V == Nat
           S == [i \in 1..n |-> [v \in V |-> v + SIZE[fields[i]]]]
           end == CHOOSE f : f = [i \in 0..n |-> IF i = 0 THEN 0
                                                  ELSE f[i - 1] + SIZE[fields[i]]]
<1>1. n \in Nat /\ \A i \in 1..n : SIZE[fields[i]] \in Nat
  BY TransferAssumption
<1>2. ends(fields) = end
  BY Zenon DEF ends, end, n
<1> HIDE DEF n
<1>3. Passes(S, n, V)
  BY <1>1 DEF Passes
<1>4. PICK f : Results(f, S, n, V, 0)
  <2>1. 0 \in V
    OBVIOUS
  <2> HIDE DEF S, V
  <2> QED
    BY <1>1, <1>3, <2>1, LoopResult
<1>5. f \in [0..n -> Nat] /\ f[0] = 0
  BY <1>4 DEF Results
<1>6. ASSUME NEW i \in 1..n PROVE f[i] = f[i - 1] + SIZE[fields[i]]
  <2>1. i - 1 \in 0..n
    BY <1>1
  <2> QED
    BY <1>4, <1>5, <2>1 DEF Results
<1>7. f = [i \in 0..n |-> IF i = 0 THEN 0 ELSE f[i - 1] + SIZE[fields[i]]]
  <2> DEFINE g == [i \in 0..n |-> IF i = 0 THEN 0 ELSE f[i - 1] + SIZE[fields[i]]]
  <2>1. ASSUME NEW i \in 0..n PROVE f[i] = g[i]
    <3>1. i = 0 \/ i \in 1..n
      BY <1>1
    <3> QED
      BY <1>5, <1>6, <3>1
  <2> QED
    BY <1>5, <2>1
<1>8. end = [i \in 0..n |-> IF i = 0 THEN 0 ELSE end[i - 1] + SIZE[fields[i]]]
  BY <1>7
<1> HIDE DEF end
<1> DEFINE P == {i \in 0..n : end[i] \in Nat}
<1>9. 0 \in P
  BY <1>1, <1>8
<1>10. ASSUME NEW i \in 1..n, i - 1 \in P PROVE i \in P
  BY <1>1, <1>8, <1>10
<1>11. P = 0..n
  <2>1. P \in SUBSET (0..n)
    OBVIOUS
  <2> HIDE DEF P
  <2> QED
    BY <1>1, <1>9, <1>10, <2>1, EveryIndex
<1>12. end \in [0..n -> Nat]
  BY <1>8, <1>11
<1>13. end[0] = 0 /\ \A i \in 1..n : end[i] = end[i - 1] + SIZE[fields[i]]
  <2>1. 0 \in 0..n /\ \A i \in 1..n : i \in 0..n /\ i # 0
    BY <1>1
  <2> HIDE DEF n
  <2> QED
    BY <1>8, <2>1
<1> QED
  BY <1>2, <1>12, <1>13 DEF n

\* No field ends behind a later one, and every field has a byte.
LEMMA EndsGrow ==
  ASSUME NEW fields \in Seq(FIELDS)
  PROVE  \A i \in 0..Len(fields) : \A j \in 0..i : ends(fields)[j] <= ends(fields)[i]
<1> DEFINE n == Len(fields)
           e == ends(fields)
           P == {i \in 0..n : \A j \in 0..i : e[j] <= e[i]}
<1>1. /\ n \in Nat /\ e \in [0..n -> Nat]
      /\ \A i \in 1..n : e[i] = e[i - 1] + SIZE[fields[i]] /\ SIZE[fields[i]] \in Nat
  BY EndsFacts, TransferAssumption
<1> HIDE DEF n, e
<1>2. 0 \in P
  BY <1>1
<1>3. ASSUME NEW i \in 1..n, i - 1 \in P PROVE i \in P
  <2>1. i \in 0..n /\ i - 1 \in 0..n /\ e[i - 1] <= e[i]
    <3>1. i \in 0..n /\ i - 1 \in 0..n
      BY <1>1
    <3>2. e[i - 1] \in Nat /\ SIZE[fields[i]] \in Nat /\ e[i] = e[i - 1] + SIZE[fields[i]]
      BY <1>1, <3>1
    <3> QED
      BY <3>1, <3>2
  <2>2. ASSUME NEW j \in 0..i PROVE e[j] <= e[i]
    <3>1. j = i \/ j \in 0..(i - 1)
      OBVIOUS
    <3>2. j \in 0..n
      BY <1>1
    <3>3. CASE j \in 0..(i - 1)
      <4>1. e[j] <= e[i - 1]
        BY <1>3, <3>3
      <4> QED
        BY <1>1, <2>1, <3>2, <4>1
    <3> QED
      BY <1>1, <2>1, <3>1, <3>3
  <2> QED
    BY <2>1, <2>2
<1>4. P = 0..n
  <2>1. P \in SUBSET (0..n)
    OBVIOUS
  <2> HIDE DEF P
  <2> QED
    BY <1>1, <1>2, <1>3, <2>1, EveryIndex
<1> QED
  BY <1>4 DEF n, e

\* Every field starts inside the encoded form.
LEMMA OffsetInside ==
  ASSUME NEW fields \in Seq(FIELDS), NEW i \in 1..Len(fields)
  PROVE  /\ encoded_size(fields) \in Nat /\ offset(fields, i) \in Nat
         /\ offset(fields, i) + 1 \in 1..encoded_size(fields)
<1> DEFINE n == Len(fields)
           e == ends(fields)
<1>1. n \in Nat /\ i \in 0..n /\ i - 1 \in 0..n /\ n \in 0..n /\ fields[i] \in FIELDS
  OBVIOUS
<1>2. e \in [0..n -> Nat] /\ e[i] = e[i - 1] + SIZE[fields[i]] /\ e[i] <= e[n]
  BY <1>1, EndsFacts, EndsGrow
<1>3. SIZE[fields[i]] \in Nat \ {0}
  BY <1>1, TransferAssumption
<1> HIDE DEF n, e
<1>4. e[i - 1] \in Nat /\ e[n] \in Nat /\ e[i - 1] + 1 \in 1..e[n]
  BY <1>1, <1>2, <1>3
<1> QED
  BY <1>4 DEF encoded_size, offset, n, e

\* The bytes of a field.
LEMMA BytesFacts ==
  ASSUME NEW f \in FIELDS, NEW v \in Value
  PROVE  /\ Bytes(f, v) \in Seq(Cell) /\ Len(Bytes(f, v)) = SIZE[f]
         /\ 1 \in 1..SIZE[f] /\ Bytes(f, v)[1] = <<f, v>>
<1>1. SIZE[f] \in Nat \ {0}
  BY TransferAssumption
<1>2. <<f, v>> \in Cell
  BY DEF Cell
<1> DEFINE k == SIZE[f]
           c == <<f, v>>
           b == [i \in 1..k |-> c]
<1> HIDE DEF k, c
<1>3. k \in Nat \ {0} /\ c \in Cell
  BY <1>1, <1>2 DEF k, c
<1>4. b \in Seq(Cell) /\ Len(b) = k /\ 1 \in 1..k /\ b[1] = c
  BY <1>3
<1> QED
  BY <1>4 DEF Bytes, k, c

\* What is known of the encoded form once i fields are in it.
Formed(fields, mem, i, s) ==
  /\ s \in Seq(Cell) /\ Len(s) = ends(fields)[i]
  /\ \A j \in 1..i : s[offset(fields, j) + 1] = <<fields[j], mem[fields[j]]>>

\* Another field leaves the ones before it where they are.
LEMMA FormedNext ==
  ASSUME NEW fields \in Seq(FIELDS), NEW mem \in [FIELDS -> Value],
         NEW i \in 1..Len(fields), NEW s, Formed(fields, mem, i - 1, s)
  PROVE  Formed(fields, mem, i, s \o Bytes(fields[i], mem[fields[i]]))
<1> DEFINE e == ends(fields)
           b == Bytes(fields[i], mem[fields[i]])
<1>1. fields[i] \in FIELDS /\ mem[fields[i]] \in Value /\ i - 1 \in 0..Len(fields)
  OBVIOUS
<1>2. /\ b \in Seq(Cell) /\ Len(b) = SIZE[fields[i]] /\ 1 \in 1..Len(b)
      /\ b[1] = <<fields[i], mem[fields[i]]>>
  BY <1>1, BytesFacts
<1>3. e \in [0..Len(fields) -> Nat] /\ e[i] = e[i - 1] + SIZE[fields[i]]
  BY EndsFacts
<1>4. s \in Seq(Cell) /\ Len(s) = e[i - 1]
  BY DEF Formed
<1> HIDE DEF b, e
<1>c. /\ s \o b \in Seq(Cell) /\ Len(s \o b) = Len(s) + Len(b)
      /\ \A k \in 1..(Len(s) + Len(b)) :
           (s \o b)[k] = IF k <= Len(s) THEN s[k] ELSE b[k - Len(s)]
  BY <1>2, <1>4, ConcatProperties
<1>5. s \o b \in Seq(Cell) /\ Len(s \o b) = e[i]
  BY <1>2, <1>3, <1>4, <1>c
<1>n. Len(s) \in Nat /\ Len(b) \in Nat \ {0}
  <2>1. SIZE[fields[i]] \in Nat \ {0}
    BY <1>1, TransferAssumption
  <2> QED
    BY <1>2, <1>4, <2>1
<1>6. ASSUME NEW j \in 1..i
      PROVE  (s \o b)[offset(fields, j) + 1] = <<fields[j], mem[fields[j]]>>
  <2>1. CASE j = i
    <3>1. offset(fields, j) = Len(s)
      BY <1>4, <2>1 DEF offset, e
    <3>2. (s \o b)[Len(s) + 1] = b[1]
      <4>1. /\ Len(s) \in Nat /\ Len(s) + 1 \in 1..(Len(s) + Len(b))
            /\ ~(Len(s) + 1 <= Len(s)) /\ (Len(s) + 1) - Len(s) = 1
        BY <1>n
      <4> QED
        BY <1>c, <4>1
    <3> QED
      BY <1>2, <2>1, <3>1, <3>2
  <2>2. CASE j \in 1..(i - 1)
    <3>1. j \in 1..Len(fields) /\ j \in 0..(i - 1) /\ j \in 0..Len(fields) /\ j - 1 \in 0..Len(fields)
      BY <1>1, <2>2
    <3>2. e[j] = e[j - 1] + SIZE[fields[j]] /\ e[j] <= e[i - 1]
      BY <1>1, <3>1, EndsFacts, EndsGrow DEF e
    <3>3. SIZE[fields[j]] \in Nat \ {0}
      BY <3>1, TransferAssumption
    <3>4. e[j - 1] \in Nat /\ e[j - 1] + 1 \in 1..Len(s)
      BY <1>1, <1>3, <1>4, <3>1, <3>2, <3>3
    <3>5. (s \o b)[e[j - 1] + 1] = s[e[j - 1] + 1]
      <4>1. e[j - 1] + 1 \in 1..(Len(s) + Len(b)) /\ e[j - 1] + 1 <= Len(s)
        BY <1>n, <3>4
      <4> QED
        BY <1>c, <4>1
    <3>6. s[e[j - 1] + 1] = <<fields[j], mem[fields[j]]>>
      BY <2>2 DEF Formed, offset, e
    <3> QED
      BY <3>5, <3>6 DEF offset, e
  <2>3. j = i \/ j \in 1..(i - 1)
    OBVIOUS
  <2> QED
    BY <2>1, <2>2, <2>3
<1> QED
  BY <1>5, <1>6 DEF Formed, b, e

\* The encoded form has every field's value at the field's place.
LEMMA EncodedForm ==
  ASSUME NEW fields \in Seq(FIELDS), NEW mem \in [FIELDS -> Value]
  PROVE  Formed(fields, mem, Len(fields), encoded_form(fields, mem))
<1> DEFINE n == Len(fields)
           V == Seq(Cell)
           b(i) == Bytes(fields[i], mem[fields[i]])
           S == [i \in 1..n |-> [s \in V |-> s \o b(i)]]
           form == CHOOSE f : f = [i \in 0..n |-> IF i = 0 THEN <<>>
                                                   ELSE f[i - 1] \o Bytes(fields[i], mem[fields[i]])]
<1>1. n \in Nat /\ \A i \in 1..n : b(i) \in Seq(Cell)
  <2>1. ASSUME NEW i \in 1..n PROVE b(i) \in Seq(Cell)
    BY BytesFacts
  <2> QED
    BY <2>1
<1>2. encoded_form(fields, mem) = form[n]
  BY Zenon DEF encoded_form, form, n
<1> HIDE DEF n, b
<1>3. Passes(S, n, V)
  BY <1>1 DEF Passes
<1>4. PICK f : Results(f, S, n, V, <<>>)
  <2>1. <<>> \in V
    OBVIOUS
  <2> HIDE DEF S, V
  <2> QED
    BY <1>1, <1>3, <2>1, LoopResult
<1>5. f \in [0..n -> V] /\ f[0] = <<>>
  BY <1>4 DEF Results
<1>6. ASSUME NEW i \in 1..n PROVE f[i] = f[i - 1] \o b(i)
  <2>1. f[i - 1] \in V
    <3>1. i - 1 \in 0..n
      BY <1>1
    <3> HIDE DEF V
    <3> QED
      BY <1>5, <3>1
  <2> QED
    BY <1>4, <2>1 DEF Results
<1>7. form = [i \in 0..n |-> IF i = 0 THEN <<>> ELSE form[i - 1] \o b(i)]
  <2> DEFINE g == [i \in 0..n |-> IF i = 0 THEN <<>> ELSE f[i - 1] \o b(i)]
  <2>1. ASSUME NEW i \in 0..n PROVE f[i] = g[i]
    <3>1. i = 0 \/ i \in 1..n
      BY <1>1
    <3> QED
      BY <1>5, <1>6, <3>1
  <2>2. f = g
    <3> HIDE DEF V
    <3> QED
      BY <1>5, <2>1
  <2> QED
    BY <2>2, Zenon DEF b
<1> HIDE DEF form
<1>f. \A i \in 0..n : form[i] = IF i = 0 THEN <<>> ELSE form[i - 1] \o b(i)
  <2> DEFINE g == [i \in 0..n |-> IF i = 0 THEN <<>> ELSE form[i - 1] \o b(i)]
  <2>1. \A i \in 0..n : g[i] = IF i = 0 THEN <<>> ELSE form[i - 1] \o b(i)
    OBVIOUS
  <2>2. form = g
    BY <1>7
  <2> HIDE DEF g
  <2> QED
    BY <2>1, <2>2
<1> DEFINE P == {i \in 0..n : Formed(fields, mem, i, form[i])}
<1>8. 0 \in P
  <2>1. 0 \in 0..n /\ form[0] = <<>> /\ ends(fields)[0] = 0
    BY <1>1, <1>f, EndsFacts
  <2>2. Formed(fields, mem, 0, <<>>)
    BY <2>1 DEF Formed
  <2> QED
    BY <2>1, <2>2
<1>9. ASSUME NEW i \in 1..n, i - 1 \in P PROVE i \in P
  <2>1. i \in 0..n /\ i # 0 /\ form[i] = form[i - 1] \o b(i)
    <3>1. i \in 0..n /\ i # 0
      BY <1>1
    <3> QED
      BY <1>f, <3>1
  <2>2. Formed(fields, mem, i, form[i - 1] \o b(i))
    BY <1>9, FormedNext DEF n, b
  <2> QED
    BY <2>1, <2>2
<1>10. P = 0..n
  <2>1. P \in SUBSET (0..n)
    OBVIOUS
  <2> HIDE DEF P
  <2> QED
    BY <1>1, <1>8, <1>9, <2>1, EveryIndex
<1>11. Formed(fields, mem, n, form[n])
  BY <1>1, <1>10
<1> QED
  BY <1>2, <1>11 DEF n

\* Storing the first n fields keeps the memory's type, and where every place
\* read has the value of one memory, so have the fields stored.
LEMMA DecodedFields ==
  ASSUME NEW fields \in Seq(FIELDS), NEW n \in 0..Len(fields), NEW in,
         NEW before \in [FIELDS -> Value],
         \A i \in 1..n : Read(fields, i, in) \in Value
  PROVE  /\ decoded(fields, n, in, before) \in [FIELDS -> Value]
         /\ \A mem : (\A i \in 1..n : Read(fields, i, in) = mem[fields[i]])
                  => \A i \in 1..n : decoded(fields, n, in, before)[fields[i]] = mem[fields[i]]
<1> DEFINE V == [FIELDS -> Value]
           set(i, m) == [m EXCEPT ![fields[i]] = Read(fields, i, in)]
           S == [i \in 1..n |-> [m \in V |-> set(i, m)]]
           data == CHOOSE f : f = [i \in 0..n |-> IF i = 0 THEN before
                                ELSE [f[i - 1] EXCEPT ![fields[i]] = Read(fields, i, in)]]
<1>1. n \in Nat /\ \A i \in 1..n : fields[i] \in FIELDS
  OBVIOUS
<1>2. decoded(fields, n, in, before) = data[n]
  BY Zenon DEF decoded, data
<1>3. \A i \in 1..n, m \in V : set(i, m) \in V
  BY <1>1
<1> HIDE DEF set
<1>4. Passes(S, n, V)
  <2> HIDE DEF V
  <2> QED
    BY <1>3 DEF Passes
<1> HIDE DEF V
<1>5. PICK f : Results(f, S, n, V, before)
  <2>1. before \in V
    BY DEF V
  <2> HIDE DEF S
  <2> QED
    BY <1>1, <1>4, <2>1, LoopResult
<1>6. f \in [0..n -> V] /\ f[0] = before
  BY <1>5 DEF Results
<1>7. ASSUME NEW i \in 1..n PROVE f[i] = set(i, f[i - 1])
  <2>1. i - 1 \in 0..n
    BY <1>1
  <2>2. f[i - 1] \in V
    BY <1>6, <2>1
  <2> QED
    BY <1>5, <2>2 DEF Results
<1>8. f = [i \in 0..n |-> IF i = 0 THEN before ELSE set(i, f[i - 1])]
  <2> DEFINE g == [i \in 0..n |-> IF i = 0 THEN before ELSE set(i, f[i - 1])]
  <2>1. ASSUME NEW i \in 0..n PROVE f[i] = g[i]
    <3>1. i = 0 \/ i \in 1..n
      BY <1>1
    <3> QED
      BY <1>6, <1>7, <3>1
  <2> QED
    BY <1>6, <2>1
<1>9. data = [i \in 0..n |-> IF i = 0 THEN before ELSE set(i, data[i - 1])]
  BY <1>8, Zenon DEF set, data
<1> HIDE DEF data
<1>10. data[0] = before /\ \A i \in 1..n : data[i] = set(i, data[i - 1])
  <2>1. 0 \in 0..n /\ \A i \in 1..n : i \in 0..n /\ i # 0
    BY <1>1
  <2> QED
    BY <1>9, <2>1
<1> DEFINE Good(i) ==
             /\ data[i] \in [FIELDS -> Value]
             /\ \A mem : (\A j \in 1..n : Read(fields, j, in) = mem[fields[j]])
                      => \A j \in 1..i : data[i][fields[j]] = mem[fields[j]]
           P == {i \in 0..n : Good(i)}
<1>11. 0 \in P
  BY <1>1, <1>10
<1>12. ASSUME NEW i \in 1..n, i - 1 \in P PROVE i \in P
  <2>1. Good(i - 1) /\ i \in 0..n
    BY <1>1, <1>12
  <2>2. data[i] = [data[i - 1] EXCEPT ![fields[i]] = Read(fields, i, in)]
    BY <1>10 DEF set
  <2>3. data[i] \in [FIELDS -> Value]
    BY <1>1, <2>1, <2>2
  <2>4. ASSUME NEW mem, \A j \in 1..n : Read(fields, j, in) = mem[fields[j]], NEW j \in 1..i
        PROVE  data[i][fields[j]] = mem[fields[j]]
    <3>1. j \in 1..n /\ fields[j] \in FIELDS /\ (j = i \/ j \in 1..(i - 1))
      BY <1>1
    <3>2. Read(fields, i, in) = mem[fields[i]]
      BY <2>4
    <3>3. CASE fields[j] = fields[i]
      BY <1>1, <2>1, <2>2, <3>2, <3>3
    <3>4. CASE fields[j] # fields[i]
      <4>1. j \in 1..(i - 1)
        BY <3>1, <3>4
      <4>2. data[i - 1][fields[j]] = mem[fields[j]]
        BY <2>1, <2>4, <4>1
      <4> QED
        BY <1>1, <2>1, <2>2, <3>1, <3>4, <4>2
    <3> QED
      BY <3>3, <3>4
  <2>5. Good(i)
    BY <2>3, <2>4
  <2> QED
    BY <2>1, <2>5
<1>13. Good(n)
  <2>1. P \in SUBSET (0..n)
    OBVIOUS
  <2>2. P = 0..n
    <3> HIDE DEF P
    <3> QED
      BY <1>1, <1>11, <1>12, <2>1, EveryIndex
  <2> HIDE DEF Good
  <2> QED
    BY <1>1, <2>2
<1> QED
  BY <1>2, <1>13

\* The inductive invariant of the transfer: the bytes under way are the head
\* of the encoded form of what the sender held when it encoded them.
BufferIsEncoded ==
  encoded # <<>> =>
    /\ encoded.fields \in Seq(FIELDS) /\ encoded.memory \in [FIELDS -> Value]
    /\ Len(buffer) <= encoded_size(encoded.fields)
    /\ \A k \in 1..Len(buffer) :
         buffer[k] = encoded_form(encoded.fields, encoded.memory)[k]

TransferInv ==
  /\ registry \in [Sides -> Seq(FIELDS)]
  /\ \A s \in Sides : Len(registry[s]) <= MAX_FIELDS
  /\ memory \in [Sides -> [FIELDS -> Value]]
  /\ buffer \in Seq(Cell)
  /\ BufferIsEncoded
  /\ StandbyHoldsOneMoment

\* At first nothing is registered, encoded or accepted.
LEMMA TransferInitInv == TransferInit => TransferInv
<1> SUFFICES ASSUME TransferInit PROVE TransferInv
  OBVIOUS
<1> USE DEF TransferInit
<1>1. registry \in [Sides -> Seq(FIELDS)] /\ \A s \in Sides : Len(registry[s]) <= MAX_FIELDS
  BY TransferAssumption
<1>2. memory \in [Sides -> [FIELDS -> Value]]
  BY DEF Value
<1>3. buffer \in Seq(Cell) /\ BufferIsEncoded /\ StandbyHoldsOneMoment
  BY DEF BufferIsEncoded, StandbyHoldsOneMoment
<1> QED
  BY <1>1, <1>2, <1>3 DEF TransferInv

\* A field registered meanwhile changes neither the buffer nor what was taken.
LEMMA RegisterInv ==
  ASSUME TransferInv, NEW s \in Sides, NEW f \in FIELDS, Register(s, f)
  PROVE  TransferInv'
<1>1. registry' \in [Sides -> Seq(FIELDS)] /\ \A t \in Sides : Len(registry'[t]) <= MAX_FIELDS
  <2>1. registry[s] \in Seq(FIELDS) /\ Len(registry[s]) < MAX_FIELDS
    BY DEF Register, TransferInv
  <2> DEFINE longer == Append(registry[s], f)
  <2>2. longer \in Seq(FIELDS) /\ Len(longer) <= MAX_FIELDS
    BY <2>1, TransferAssumption
  <2> HIDE DEF longer
  <2>3. registry' = [registry EXCEPT ![s] = longer]
    BY DEF Register, longer
  <2> QED
    BY <2>2, <2>3 DEF TransferInv
<1>2. UNCHANGED <<memory, buffer, encoded, accepted>>
  BY DEF Register
<1> QED
  BY <1>1, <1>2 DEF TransferInv, BufferIsEncoded, StandbyHoldsOneMoment

\* The sender's own work is not seen by the standby.
LEMMA WorkInv ==
  ASSUME TransferInv, NEW f \in FIELDS, Work(f)
  PROVE  TransferInv'
<1>1. PICK v \in VERSIONS : memory' = [memory EXCEPT !["online"][f] = v]
  BY DEF Work
<1>2. memory' \in [Sides -> [FIELDS -> Value]] /\ memory'["standby"] = memory["standby"]
  BY <1>1 DEF TransferInv, Sides, Value
<1>3. UNCHANGED <<registry, buffer, encoded, accepted>>
  BY DEF Work
<1> QED
  BY <1>2, <1>3 DEF TransferInv, BufferIsEncoded, StandbyHoldsOneMoment

\* Encoding starts a new buffer with the whole form.
LEMMA EncodeInv ==
  ASSUME TransferInv, Encode
  PROVE  TransferInv'
<1> DEFINE fields == registry["online"]
           mem == memory["online"]
           form == encoded_form(fields, mem)
<1>1. fields \in Seq(FIELDS) /\ mem \in [FIELDS -> Value]
  BY DEF TransferInv, Sides
<1>2. form \in Seq(Cell) /\ Len(form) = encoded_size(fields)
  BY <1>1, EncodedForm DEF Formed, encoded_size
<1>3. encoded_size(fields) \in Nat
  BY <1>2
<1>4. buffer' = form /\ encoded' = [fields |-> fields, memory |-> mem]
  BY DEF Encode
<1>5. UNCHANGED <<registry, memory, accepted>>
  BY DEF Encode
<1>6. BufferIsEncoded'
  <2>1. encoded'.fields = fields /\ encoded'.memory = mem
    BY <1>4
  <2> HIDE DEF fields, mem
  <2> QED
    BY <1>1, <1>2, <1>3, <1>4, <2>1 DEF BufferIsEncoded
<1> QED
  BY <1>2, <1>4, <1>5, <1>6 DEF TransferInv, StandbyHoldsOneMoment

\* What is left of a buffer is still the head of its form.
LEMMA TruncateInv ==
  ASSUME TransferInv, Truncate
  PROVE  TransferInv'
<1>1. buffer \in Seq(Cell) /\ buffer # <<>> /\ buffer' = SubSeq(buffer, 1, Len(buffer) - 1)
  BY DEF Truncate, TransferInv
<1>2. /\ buffer' \in Seq(Cell) /\ Len(buffer') = Len(buffer) - 1
      /\ \A k \in 1..Len(buffer') : k \in 1..Len(buffer) /\ buffer'[k] = buffer[k]
  <2> DEFINE n == Len(buffer)
  <2>1. n \in Nat \ {0}
    BY <1>1
  <2>2. 1 \in Int /\ n - 1 \in Int /\ \A k \in 1..(n - 1) : buffer[k] \in Cell
    BY <1>1, <2>1
  <2>3. buffer' \in Seq(Cell) /\ Len(buffer') = IF 1 <= n - 1 THEN (n - 1) - 1 + 1 ELSE 0
    <3> DEFINE last == n - 1
    <3>1. last \in Int /\ \A k \in 1..last : buffer[k] \in Cell
      BY <2>2
    <3> HIDE DEF last
    <3>2. SubSeq(buffer, 1, last) \in Seq(Cell) /\ Len(SubSeq(buffer, 1, last)) =
            IF 1 <= last THEN last - 1 + 1 ELSE 0
      BY <3>1, SubSeqProperties
    <3> QED
      BY <1>1, <3>2 DEF last
  <2>4. \A k \in 1..(n - 1) : k \in 1..n /\ buffer'[k] = buffer[k]
    BY <1>1, <2>1
  <2>5. Len(buffer') = n - 1
    <3> DEFINE m == Len(buffer')
    <3>1. m = IF 1 <= n - 1 THEN (n - 1) - 1 + 1 ELSE 0
      BY <2>3
    <3> HIDE DEF m, n
    <3>2. m = n - 1
      BY <2>1, <3>1
    <3> QED
      BY <3>2 DEF m
  <2> QED
    BY <2>3, <2>4, <2>5
<1>3. UNCHANGED <<registry, memory, encoded, accepted>>
  BY DEF Truncate
<1>4. BufferIsEncoded'
  <2> SUFFICES ASSUME encoded # <<>> PROVE BufferIsEncoded'
    BY <1>3 DEF BufferIsEncoded
  <2>1. /\ encoded.fields \in Seq(FIELDS) /\ encoded.memory \in [FIELDS -> Value]
        /\ Len(buffer) <= encoded_size(encoded.fields)
        /\ \A k \in 1..Len(buffer) :
             buffer[k] = encoded_form(encoded.fields, encoded.memory)[k]
    BY DEF TransferInv, BufferIsEncoded
  <2>2. encoded_size(encoded.fields) \in Nat
    BY <2>1, EndsFacts DEF encoded_size
  <2>3. Len(buffer') <= encoded_size(encoded.fields)
    BY <1>1, <1>2, <2>1, <2>2
  <2> QED
    BY <1>2, <1>3, <2>1, <2>3 DEF BufferIsEncoded
<1> QED
  BY <1>2, <1>3, <1>4 DEF TransferInv, StandbyHoldsOneMoment

\* A buffer with room for every field is read inside its bytes.
LEMMA ReadsInside ==
  ASSUME NEW fields \in Seq(FIELDS), NEW in \in Seq(Cell), Enough(fields, in)
  PROVE  \A i \in 1..Len(fields) : Read(fields, i, in) \in Value
<1> SUFFICES ASSUME NEW i \in 1..Len(fields) PROVE Read(fields, i, in) \in Value
  OBVIOUS
<1>1. offset(fields, i) + 1 \in 1..Len(in)
  BY OffsetInside DEF Enough
<1>2. in[offset(fields, i) + 1] \in Cell
  BY <1>1
<1> QED
  BY <1>2 DEF Read, Cell

\* Decoding: only a whole buffer of the same fields is taken as a moment.
LEMMA DecodeInv ==
  ASSUME TransferInv, Decode
  PROVE  TransferInv'
<1> DEFINE fields == registry["standby"]
           before == memory["standby"]
<1>1. /\ fields \in Seq(FIELDS) /\ before \in [FIELDS -> Value]
      /\ buffer \in Seq(Cell) /\ Len(fields) \in Nat
  BY DEF TransferInv, Sides
<1>2. encoded # <<>> /\ UNCHANGED <<registry, buffer, encoded>>
  BY DEF Decode
<1>3. CASE UNCHANGED <<memory, accepted>>
  BY <1>2, <1>3 DEF TransferInv, BufferIsEncoded, StandbyHoldsOneMoment
<1>4. ASSUME Enough(fields, buffer), NEW n \in 0..Len(fields),
             memory' = [memory EXCEPT !["standby"] = decoded(fields, n, buffer, before)],
             StandbyHoldsOneMoment'
      PROVE  TransferInv'
  <2>1. decoded(fields, n, buffer, before) \in [FIELDS -> Value]
    <3>1. \A i \in 1..n : Read(fields, i, buffer) \in Value
      BY <1>1, <1>4, ReadsInside
    <3> HIDE DEF fields, before
    <3> QED
      BY <1>1, <3>1, DecodedFields
  <2>2. memory' \in [Sides -> [FIELDS -> Value]]
    BY <1>4, <2>1 DEF TransferInv
  <2> QED
    BY <1>2, <1>4, <2>2 DEF TransferInv, BufferIsEncoded
<1>5. ASSUME Enough(fields, buffer),
             memory' = [memory EXCEPT !["standby"] = decoded(fields, Len(fields), buffer, before)],
             accepted' = [by |-> encoded.fields, into |-> fields, memory |-> encoded.memory]
      PROVE  StandbyHoldsOneMoment'
  <2> DEFINE data == decoded(fields, Len(fields), buffer, before)
             mem == encoded.memory
  <2>1. accepted'.by = encoded.fields /\ accepted'.into = fields /\ accepted'.memory = mem
    BY <1>5
  <2>2. memory'["standby"] = data
    BY <1>5 DEF TransferInv, Sides
  <2> SUFFICES ASSUME encoded.fields = fields, NEW i \in 1..Len(fields)
               PROVE  data[fields[i]] = mem[fields[i]]
    BY <2>1, <2>2 DEF StandbyHoldsOneMoment
  <2>3. /\ mem \in [FIELDS -> Value] /\ Len(buffer) <= encoded_size(fields)
        /\ \A k \in 1..Len(buffer) : buffer[k] = encoded_form(fields, mem)[k]
    BY <1>2 DEF TransferInv, BufferIsEncoded
  <2> HIDE DEF fields, before, mem
  <2>4. \A j \in 1..Len(fields) : Read(fields, j, buffer) = mem[fields[j]]
    <3> SUFFICES ASSUME NEW j \in 1..Len(fields) PROVE Read(fields, j, buffer) = mem[fields[j]]
      OBVIOUS
    <3> DEFINE o == offset(fields, j) + 1
    <3>1. o \in 1..Len(buffer)
      BY <1>1, <1>5, OffsetInside DEF Enough
    <3>2. encoded_form(fields, mem)[o] = <<fields[j], mem[fields[j]]>>
      BY <1>1, <2>3, EncodedForm DEF Formed
    <3>3. buffer[o] = <<fields[j], mem[fields[j]]>>
      BY <2>3, <3>1, <3>2
    <3> QED
      BY <3>3 DEF Read
  <2>5. \A j \in 1..Len(fields) : Read(fields, j, buffer) \in Value
    BY <1>1, <1>5, ReadsInside
  <2>6. Len(fields) \in 0..Len(fields)
    BY <1>1
  <2>7. \A m : (\A j \in 1..Len(fields) : Read(fields, j, buffer) = m[fields[j]])
             => \A j \in 1..Len(fields) : data[fields[j]] = m[fields[j]]
    BY <1>1, <2>5, <2>6, DecodedFields
  <2> HIDE DEF data
  <2> QED
    BY <2>4, <2>7
<1>6. ASSUME accepted' = <<>> PROVE StandbyHoldsOneMoment'
  BY <1>6 DEF StandbyHoldsOneMoment
<1>7. ASSUME ~UNCHANGED <<memory, accepted>> PROVE TransferInv'
  <2>1. Enough(fields, buffer)
    BY <1>7 DEF Decode
  <2>2. CASE /\ memory' = [memory EXCEPT !["standby"] =
                             decoded(fields, Len(fields), buffer, before)]
             /\ accepted' = [by |-> encoded.fields, into |-> fields,
                             memory |-> encoded.memory]
    <3>1. Len(fields) \in 0..Len(fields)
      BY <1>1
    <3>2. StandbyHoldsOneMoment'
      BY <1>5, <2>1, <2>2
    <3> QED
      BY <1>4, <2>1, <2>2, <3>1, <3>2
  <2>3. ASSUME NEW i \in 1..Len(fields),
               memory' = [memory EXCEPT !["standby"] = decoded(fields, i - 1, buffer, before)],
               accepted' = <<>>
        PROVE  TransferInv'
    <3>1. i - 1 \in 0..Len(fields)
      BY <1>1
    <3> QED
      BY <1>4, <1>6, <2>1, <2>3, <3>1
  <2> QED
    BY <1>7, <2>1, <2>2, <2>3 DEF Decode
<1> QED
  BY <1>3, <1>7

\* Every step of the transfer preserves it.
LEMMA TransferStepInv == TransferInv /\ [TransferNext]_transferVars => TransferInv'
<1> SUFFICES ASSUME TransferInv, [TransferNext]_transferVars PROVE TransferInv'
  OBVIOUS
<1>1. CASE UNCHANGED transferVars
  BY <1>1 DEF transferVars, TransferInv, BufferIsEncoded, StandbyHoldsOneMoment
<1>2. CASE TransferNext
  BY <1>2, RegisterInv, WorkInv, EncodeInv, TruncateInv, DecodeInv DEF TransferNext
<1> QED
  BY <1>1, <1>2

-----------------------------------------------------------------------------
(* The run *)

\* What the parts keep.
AlgorithmsInv == UtilitiesInv /\ ChecksumInv /\ ElectionInv /\ TransferInv

\* They have it at the start.
LEMMA AlgorithmsInitInv == Init => AlgorithmsInv
<1> QED
  BY UtilitiesInitInv, ChecksumInitInv, ElectionInitInv, TransferInitInv DEF Init, AlgorithmsInv

\* The parts share no variable: a step of one leaves the others' invariants.
LEMMA AlgorithmsStepInv == AlgorithmsInv /\ [Next]_vars => AlgorithmsInv'
<1> SUFFICES ASSUME UtilitiesInv, ChecksumInv, ElectionInv, TransferInv, [Next]_vars
             PROVE  UtilitiesInv' /\ ChecksumInv' /\ ElectionInv' /\ TransferInv'
  BY DEF AlgorithmsInv
<1>1. /\ [UtilitiesNext]_utilitiesVars /\ [ChecksumNext]_checksumVars
      /\ [ElectionNext]_electionVars /\ [TransferNext]_transferVars
  BY DEF Next, vars
<1> QED
  BY <1>1, UtilitiesStepInv, ChecksumStepInv, ElectionStepInv, TransferStepInv

\* So it holds throughout.
LEMMA Invariant == Spec => []AlgorithmsInv
<1> QED
  BY AlgorithmsInitInv, AlgorithmsStepInv, PTL DEF Spec

\* Every part keeps its types (the buffers of rte_string.c and rte_buffer.c,
\* the message of rte_checksum.c, the lists of rte_election.c, the registry of
\* rte_state_transfer.c), for any capacity, group and registry.
THEOREM TypeCorrect == Spec => []TypeOK
<1>1. ASSUME AlgorithmsInv PROVE TypeOK
  <2>1. UtilitiesTypeOK
    BY <1>1, UtilitiesProperties DEF AlgorithmsInv
  <2>2. ChecksumTypeOK
    BY <1>1 DEF AlgorithmsInv, ChecksumInv, ChecksumTypeOK
  <2>3. ElectionTypeOK
    BY <1>1 DEF AlgorithmsInv, ElectionInv
  <2>4. TransferTypeOK
    BY <1>1 DEF AlgorithmsInv, TransferInv, TransferTypeOK, Value
  <2> QED
    BY <2>1, <2>2, <2>3, <2>4 DEF TypeOK
<1> QED
  BY <1>1, Invariant, PTL

\* Conversions and checked arithmetic (rte_cast.h, rte_utils_*()), and numbers
\* printed and parsed again (rte_string.c), are exact or refused, for integers
\* of any widths.
THEOREM NumbersExact == Spec => []NumbersAreExact
<1>1. AlgorithmsInv => NumbersAreExact
  BY UtilitiesProperties DEF AlgorithmsInv
<1> QED
  BY <1>1, Invariant, PTL

\* Texts and messages keep their layout: the tokens and delimiters are the
\* text, searches find what is there, words read back where they were written
\* (rte_string_split_next(), rte_string_find(), rte_buffer_read_u16_le() ...),
\* for any capacity and any alphabet.
THEOREM LayoutKept == Spec => []LayoutIsKept
<1>1. AlgorithmsInv => LayoutIsKept
  BY UtilitiesProperties DEF AlgorithmsInv
<1> QED
  BY <1>1, Invariant, PTL

\* Nodes that decided on the same candidates agree (rte_election_execute()),
\* for any group, any time stamps and any order of the lists.
THEOREM SameWinner == Spec => []SameCandidatesSameWinner
<1>1. AlgorithmsInv => SameCandidatesSameWinner
  BY ElectionAgrees DEF AlgorithmsInv
<1> QED
  BY <1>1, Invariant, PTL

\* The standby holds one moment of the sender (rte_state_transfer_decode()),
\* for any fields, sizes and registries.
THEOREM OneMoment == Spec => []StandbyHoldsOneMoment
<1>1. AlgorithmsInv => StandbyHoldsOneMoment
  BY DEF AlgorithmsInv, TransferInv
<1> QED
  BY <1>1, Invariant, PTL

=============================================================================
