----------------------------- MODULE Positions_proofs -----------------------------
(* Lemmas about natural numbers, sequences and finite sets that the proofs     *)
(* about the components share: minima, induction, what Picked returns, and     *)
(* sums.                                                                       *)
EXTENDS Positions, FiniteSetsExt, FiniteSetTheorems, WellFoundedInduction, TLAPS

(* The least of some natural numbers.                                          *)
LEMMA MinOfNaturals ==
  ASSUME NEW S \in SUBSET Nat, S # {}
  PROVE  Min(S) \in S /\ \A y \in S : Min(S) <= y
<1> DEFINE Less == OpToRel(<, Nat)
<1>1. IsWellFoundedOn(Less, Nat)
  BY NatLessThanWellFounded, Zenon
<1>2. \A x, y \in Nat : y < x => <<y, x>> \in Less
  BY DEF OpToRel
<1> HIDE DEF Less
<1>3. PICK x \in S : \A y \in S : ~(<<y, x>> \in Less)
  BY <1>1, WFMin
<1>4. ASSUME NEW y \in S PROVE x <= y
  <2>1. x \in Nat /\ y \in Nat
    OBVIOUS
  <2>2. ~(y < x)
    BY <1>2, <1>3, <2>1, Zenon
  <2> QED BY <2>1, <2>2
<1>5. \E m \in S : \A y \in S : m <= y
  BY <1>4
<1> QED BY <1>5 DEF Min

(* A set that has 0, and with a number the next one, has all.                  *)
LEMMA Induction ==
  ASSUME NEW S, 0 \in S, \A n \in Nat : n \in S => n + 1 \in S
  PROVE  \A n \in Nat : n \in S
<1> DEFINE T == {n \in Nat : n \notin S}
<1> SUFFICES ASSUME T # {} PROVE FALSE
  OBVIOUS
<1>1. Min(T) \in T /\ \A y \in T : Min(T) <= y
  BY MinOfNaturals
<1> DEFINE m == Min(T)
<1> HIDE DEF m
<1>2. m \in Nat /\ m \notin S /\ \A y \in T : m <= y
  BY <1>1 DEF m
<1>3. m # 0 /\ m - 1 \in Nat /\ m - 1 \notin T
  BY <1>2
<1> QED BY <1>2, <1>3

(* What is defined from 0 on, a number at a time, is a function.               *)
Defined(f, n, V, base, step) ==
  f \in [0 .. n -> V] /\ f[0] = base /\ \A i \in 1 .. n : f[i] = step[<< i, f[i - 1] >>]

LEMMA Recursion ==
  ASSUME NEW V, NEW n \in Nat, NEW base \in V, NEW step \in [(1 .. n) \X V -> V]
  PROVE  \E f : Defined(f, n, V, base, step)
<1> DEFINE Good(f, k) == f \in [0 .. k -> V] /\ f[0] = base /\ \A i \in 1 .. k : f[i] = step[<< i, f[i - 1] >>]
           S == {k \in Nat : k <= n => \E f : Good(f, k)}
<1>1. 0 \in S
  <2>1. Good([i \in 0 .. 0 |-> base], 0)
    OBVIOUS
  <2> QED BY <2>1
<1>2. ASSUME NEW k \in Nat, k \in S PROVE k + 1 \in S
  <2> SUFFICES ASSUME k + 1 <= n PROVE \E f : Good(f, k + 1)
    OBVIOUS
  <2>1. PICK f : Good(f, k)
    BY <1>2
  <2> DEFINE g == [i \in 0 .. k + 1 |-> IF i <= k THEN f[i] ELSE step[<< k + 1, f[k] >>]]
  <2>2. f[k] \in V /\ step[<< k + 1, f[k] >>] \in V
    BY <2>1
  <2>3. g \in [0 .. k + 1 -> V] /\ g[0] = base
    BY <2>1, <2>2
  <2>4. ASSUME NEW i \in 1 .. k + 1 PROVE g[i] = step[<< i, g[i - 1] >>]
    <3>1. CASE i = k + 1
      BY <3>1
    <3>2. CASE i # k + 1
      <4>1. i \in 1 .. k /\ i - 1 \in 0 .. k /\ g[i] = f[i] /\ g[i - 1] = f[i - 1]
        BY <3>2
      <4> QED BY <2>1, <4>1
    <3> QED BY <3>1, <3>2
  <2> QED BY <2>3, <2>4
<1> HIDE DEF S
<1>3. n \in S
  BY <1>1, <1>2, Induction
<1> QED BY <1>3 DEF S, Defined

-------------------------------------------------------------------------------
(* A function that says of itself what the next value is has the right values. *)
LEMMA RuleFollowed ==
  ASSUME NEW V, NEW n \in Nat, NEW base \in V, NEW step \in [(1 .. n) \X V -> V],
         NEW F, NEW R, F = [k \in 0 .. n |-> IF k = 0 THEN base ELSE R[k]],
         \A k \in 1 .. n : F[k - 1] \in V => R[k] = step[<< k, F[k - 1] >>]
  PROVE  Defined(F, n, V, base, step)
<1>1. F[0] = base /\ (\A k \in 1 .. n : F[k] = R[k]) /\ F = [k \in 0 .. n |-> F[k]]
  <2> DEFINE G == [k \in 0 .. n |-> IF k = 0 THEN base ELSE R[k]]
  <2>1. G[0] = base /\ (\A k \in 1 .. n : G[k] = R[k]) /\ G = [k \in 0 .. n |-> G[k]]
    OBVIOUS
  <2>2. F = G
    OBVIOUS
  <2> HIDE DEF G
  <2> QED BY <2>1, <2>2
<1> DEFINE S == {k \in Nat : k <= n => F[k] \in V}
<1>2. 0 \in S
  BY <1>1
<1>3. ASSUME NEW k \in Nat, k \in S PROVE k + 1 \in S
  <2> SUFFICES ASSUME k + 1 <= n PROVE F[k + 1] \in V
    OBVIOUS
  <2>1. k + 1 \in 1 .. n /\ F[k] \in V /\ (k + 1) - 1 = k
    BY <1>3
  <2>2. F[k + 1] = step[<< k + 1, F[k] >>]
    BY <1>1, <2>1
  <2> QED BY <2>1, <2>2
<1>4. \A k \in Nat : k \in S
  <2> HIDE DEF S
  <2> QED BY <1>2, <1>3, Induction
<1>5. \A k \in 0 .. n : F[k] \in V
  BY <1>4
<1>6. F \in [0 .. n -> V]
  BY <1>1, <1>5
<1>7. ASSUME NEW k \in 1 .. n PROVE F[k] = step[<< k, F[k - 1] >>]
  <2>1. k - 1 \in 0 .. n
    OBVIOUS
  <2> QED BY <1>1, <1>5, <2>1
<1> QED BY <1>1, <1>6, <1>7 DEF Defined

-------------------------------------------------------------------------------
(* The rule by which Picked goes on.                                           *)
PickedSoFar(s, K, f) ==
  [n \in 0 .. Len(s) |-> IF n = 0 THEN << >> ELSE IF n \in K THEN Append(f[n - 1], s[n]) ELSE f[n - 1]]

(* f[n] is what is picked of the first n elements.                             *)
Picks(f, V, s, K) ==
  /\ f \in [0 .. Len(s) -> Seq(V)] /\ f[0] = << >>
  /\ \A i \in 1 .. Len(s) : f[i] = IF i \in K THEN Append(f[i - 1], s[i]) ELSE f[i - 1]
  /\ Picked(s, K) = f[Len(s)]

LEMMA PickedRule ==
  ASSUME NEW V, NEW s \in Seq(V), NEW K
  PROVE  \E f : Picks(f, V, s, K)
<1> DEFINE N == Len(s)
           W == Seq(V)
           empty == << >>
           Step(i, p) == IF i \in K THEN Append(p, s[i]) ELSE p
           Rule(f) == [i \in 0 .. N |-> IF i = 0 THEN empty ELSE Step(i, f[i - 1])]
           step == [x \in (1 .. N) \X W |-> Step(x[1], x[2])]
<1>1. N \in Nat /\ empty \in W /\ \A i \in 1 .. N : \A p \in W : Step(i, p) \in W
  OBVIOUS
<1>2. ASSUME NEW f PROVE Rule(f) = PickedSoFar(s, K, f)
  BY DEF PickedSoFar
<1>3. Picked(s, K) = (CHOOSE f : f = PickedSoFar(s, K, f))[N]
  BY DEF Picked, PickedSoFar
<1> HIDE DEF N, W, empty, Step
<1>4. step \in [(1 .. N) \X W -> W] /\ \A i \in 1 .. N : \A p \in W : step[<< i, p >>] = Step(i, p)
  BY <1>1
<1> HIDE DEF step
<1>5. PICK g \in [0 .. N -> W] : g[0] = empty /\ \A i \in 1 .. N : g[i] = step[<< i, g[i - 1] >>]
  <2> HIDE DEF Rule
  <2>1. N \in Nat /\ empty \in W /\ step \in [(1 .. N) \X W -> W]
    BY <1>1, <1>4
  <2>2. PICK f : Defined(f, N, W, empty, step)
    BY <2>1, Recursion, Zenon
  <2> QED BY <2>2 DEF Defined
<1>6. \A i \in 1 .. N : g[i] = Step(i, g[i - 1])
  <2> TAKE i \in 1 .. N
  <2>1. i - 1 \in 0 .. N
    BY <1>1
  <2> QED BY <1>4, <1>5, <2>1
<1>7. g = Rule(g)
  <2>1. \A i \in 0 .. N : g[i] = IF i = 0 THEN empty ELSE Step(i, g[i - 1])
    BY <1>1, <1>5, <1>6
  <2> QED BY <1>5, <2>1
<1> DEFINE F == CHOOSE f : f = PickedSoFar(s, K, f)
<1>8. F = Rule(F)
  <2>1. g = PickedSoFar(s, K, g)
    BY <1>2, <1>7
  <2>2. F = PickedSoFar(s, K, F)
    BY <2>1
  <2> QED BY <1>2, <2>2
<1> HIDE DEF F
<1>9. F[0] = empty /\ (\A i \in 1 .. N : F[i] = Step(i, F[i - 1])) /\ F = [i \in 0 .. N |-> F[i]]
  <2> DEFINE R == Rule(F)
  <2>1. R[0] = empty /\ (\A i \in 1 .. N : R[i] = Step(i, F[i - 1])) /\ R = [i \in 0 .. N |-> R[i]]
    BY <1>1
  <2> HIDE DEF R
  <2>2. F = R
    BY <1>8 DEF R
  <2> QED BY <2>1, <2>2
<1>10. \A k \in 0 .. N : F[k] \in W
  <2> DEFINE S == {k \in Nat : k <= N => F[k] \in W}
  <2>1. 0 \in S
    BY <1>1, <1>9
  <2>2. ASSUME NEW k \in Nat, k \in S PROVE k + 1 \in S
    <3> SUFFICES ASSUME k + 1 <= N PROVE F[k + 1] \in W
      OBVIOUS
    <3>1. k + 1 \in 1 .. N /\ F[k] \in W /\ (k + 1) - 1 = k
      BY <1>1, <2>2
    <3> QED BY <1>1, <1>9, <3>1
  <2> HIDE DEF S
  <2>3. \A n \in Nat : n \in S
    BY <2>1, <2>2, Induction
  <2> QED BY <1>1, <2>3 DEF S
<1>11. F \in [0 .. N -> W]
  BY <1>9, <1>10
<1>12. Picked(s, K) = F[N]
  BY <1>3 DEF F
<1>13. Picks(F, V, s, K)
  BY <1>9, <1>11, <1>12 DEF N, W, empty, Step, Picks
<1> QED BY <1>13

-------------------------------------------------------------------------------
(* What Picked returns.                                                        *)

(* h tells the position of each element picked.                                *)
Tells(h, s, K, p) ==
  /\ h \in [1 .. Len(p) -> K] /\ \A i \in 1 .. Len(p) : p[i] = s[h[i]]
  /\ \A i, j \in 1 .. Len(p) : i < j => h[i] < h[j]
  /\ \A k \in K : \E i \in 1 .. Len(p) : h[i] = k

(* The elements at the positions, each once and in their order.                *)
LEMMA PickedTells ==
  ASSUME NEW V, NEW s \in Seq(V), NEW K \in SUBSET (1 .. Len(s))
  PROVE  Picked(s, K) \in Seq(V) /\ \E h : Tells(h, s, K, Picked(s, K))
<1> DEFINE N == Len(s)
           Below(n) == {k \in K : k <= n}
<1>0. PICK f : Picks(f, V, s, K)
  BY PickedRule
<1>1. /\ f \in [0 .. N -> Seq(V)] /\ f[0] = << >> /\ Picked(s, K) = f[N]
      /\ \A i \in 1 .. N : f[i] = IF i \in K THEN Append(f[i - 1], s[i]) ELSE f[i - 1]
  BY <1>0 DEF Picks
<1>2. N \in Nat /\ K \subseteq 1 .. N
  OBVIOUS
<1>3. \A i \in 1 .. N : s[i] \in V
  OBVIOUS
<1> HIDE DEF N
<1>4. \A k \in K : k \in Nat /\ k >= 1 /\ k <= N
  BY <1>2
<1>5. Below(N) = K /\ Below(0) = {} /\ \A n : \A k \in Below(n) : k \in Nat /\ k <= n
  <2>1. \A k \in K : ~(k <= 0)
    BY <1>4
  <2> QED BY <1>4, <2>1
<1>6. ASSUME NEW n \in Nat PROVE Below(n + 1) = IF n + 1 \in K THEN Below(n) \cup {n + 1} ELSE Below(n)
  <2>1. \A k \in K : k <= n + 1 <=> k <= n \/ k = n + 1
    BY <1>4
  <2> QED BY <2>1
<1> HIDE DEF Below
<1> DEFINE S == {n \in Nat : n <= N => \E h : Tells(h, s, Below(n), f[n])}
<1>7. 0 \in S
  <2> DEFINE h == [i \in 1 .. 0 |-> 1]
  <2>1. 1 .. Len(<< >>) = {}
    OBVIOUS
  <2>2. h \in [1 .. Len(<< >>) -> {}]
    OBVIOUS
  <2>3. Tells(h, s, {}, << >>)
    BY <2>1, <2>2 DEF Tells
  <2> QED BY <1>1, <1>5, <2>3
<1>8. ASSUME NEW n \in Nat, n \in S PROVE n + 1 \in S
  <2> SUFFICES ASSUME n + 1 <= N PROVE \E h : Tells(h, s, Below(n + 1), f[n + 1])
    OBVIOUS
  <2>1. n + 1 \in 1 .. N /\ n \in 0 .. N /\ n <= N /\ (n + 1) - 1 = n
    BY <1>2
  <2>2. f[n] \in Seq(V) /\ s[n + 1] \in V
    BY <1>1, <1>3, <2>1
  <2>3. PICK h : Tells(h, s, Below(n), f[n])
    BY <1>8, <2>1
  <2>4. CASE n + 1 \notin K
    BY <1>1, <1>6, <2>1, <2>3, <2>4
  <2>5. CASE n + 1 \in K
    <3> DEFINE p == f[n]
               q == f[n + 1]
               m == Len(p)
               g == [i \in 1 .. m + 1 |-> IF i <= m THEN h[i] ELSE n + 1]
    <3>1. q = Append(p, s[n + 1])
      BY <1>1, <2>1, <2>5
    <3>2. Below(n + 1) = Below(n) \cup {n + 1} /\ \A k \in Below(n) : k \in Nat /\ k < n + 1
      <4>1. \A k \in Below(n) : k \in Nat /\ k <= n
        BY <1>5
      <4>2. \A k \in Nat : k <= n => k < n + 1
        OBVIOUS
      <4> QED BY <1>6, <2>5, <4>1, <4>2
    <3>3. m \in Nat /\ Len(q) = m + 1 /\ q[m + 1] = s[n + 1] /\ \A i \in 1 .. m : q[i] = p[i]
      BY <2>2, <3>1
    <3>4. /\ h \in [1 .. m -> Below(n)] /\ \A i \in 1 .. m : p[i] = s[h[i]]
          /\ \A i, j \in 1 .. m : i < j => h[i] < h[j]
          /\ \A k \in Below(n) : \E i \in 1 .. m : h[i] = k
      BY <2>3 DEF Tells
    <3> HIDE DEF p, q, m
    <3>5. g[m + 1] = n + 1 /\ (\A i \in 1 .. m : g[i] = h[i]) /\ g = [i \in 1 .. m + 1 |-> g[i]]
      BY <3>3
    <3> HIDE DEF g
    <3>6. \A i \in 1 .. m + 1 : i = m + 1 \/ i \in 1 .. m
      BY <3>3
    <3>7. \A i \in 1 .. m + 1 : g[i] \in Below(n + 1) /\ q[i] = s[g[i]]
      BY <3>2, <3>3, <3>4, <3>5, <3>6
    <3>8. ASSUME NEW i \in 1 .. m + 1, NEW j \in 1 .. m + 1, i < j PROVE g[i] < g[j]
      <4>1. i \in 1 .. m
        BY <3>3, <3>8
      <4>2. h[i] < n + 1 /\ g[i] = h[i]
        BY <3>2, <3>4, <3>5, <4>1
      <4>3. CASE j = m + 1
        BY <3>5, <4>3, <4>2
      <4>4. CASE j \in 1 .. m
        BY <3>4, <3>5, <3>8, <4>1, <4>4
      <4> QED BY <3>6, <4>3, <4>4
    <3>9. ASSUME NEW k \in Below(n + 1) PROVE \E i \in 1 .. m + 1 : g[i] = k
      <4>1. CASE k = n + 1
        BY <3>3, <3>5, <4>1
      <4>2. CASE k \in Below(n)
        <5>1. PICK i \in 1 .. m : h[i] = k
          BY <3>4, <4>2
        <5>2. i \in 1 .. m + 1
          BY <3>3
        <5> QED BY <3>5, <5>1, <5>2
      <4> QED BY <3>2, <4>1, <4>2
    <3>10. g \in [1 .. m + 1 -> Below(n + 1)]
      BY <3>5, <3>7
    <3>11. Tells(g, s, Below(n + 1), q)
      BY <3>3, <3>7, <3>8, <3>9, <3>10 DEF Tells
    <3> QED BY <3>11 DEF q
  <2> QED BY <2>4, <2>5
<1>9. \A n \in Nat : n \in S
  <2> HIDE DEF S
  <2> QED BY <1>7, <1>8, Induction
<1>10. N \in 0 .. N
  BY <1>2
<1> QED BY <1>1, <1>2, <1>5, <1>9, <1>10

(* So that it has the elements at the positions, and no other.                 *)
LEMMA PickedElements ==
  ASSUME NEW V, NEW s \in Seq(V), NEW K \in SUBSET (1 .. Len(s))
  PROVE  LET p == Picked(s, K)
         IN /\ p \in Seq(V)
            /\ \A i \in 1 .. Len(p) : \E k \in K : p[i] = s[k]
            /\ \A k \in K : \E i \in 1 .. Len(p) : p[i] = s[k]
<1> DEFINE p == Picked(s, K)
<1>1. p \in Seq(V) /\ \E h : Tells(h, s, K, p)
  BY PickedTells
<1> HIDE DEF p
<1>2. PICK h : Tells(h, s, K, p)
  BY <1>1
<1>3. \A i \in 1 .. Len(p) : h[i] \in K /\ p[i] = s[h[i]]
  BY <1>2 DEF Tells
<1>4. \A k \in K : \E i \in 1 .. Len(p) : h[i] = k
  BY <1>2 DEF Tells
<1> QED BY <1>1, <1>3, <1>4, ZenonT(40) DEF p

-------------------------------------------------------------------------------
(* Numbers in rising order: which they are says which sequence it is.          *)
RisesTo(s, m) == \A i, j \in 1 .. m : i < j => s[i] < s[j]
Rising(s) == RisesTo(s, Len(s))
Among(s, m, t, n) == \A i \in 1 .. m : \E j \in 1 .. n : s[i] = t[j]

LEMMA SameRisingFunctions ==
  ASSUME NEW m \in Nat, NEW n \in Nat, NEW s \in [1 .. m -> Nat], NEW t \in [1 .. n -> Nat],
         RisesTo(s, m), RisesTo(t, n), Among(s, m, t, n), Among(t, n, s, m)
  PROVE  m = n /\ s = t
<1>1. /\ \A i, j \in 1 .. m : i < j => s[i] < s[j]
      /\ \A i, j \in 1 .. n : i < j => t[i] < t[j]
      /\ \A i \in 1 .. m : \E j \in 1 .. n : s[i] = t[j]
      /\ \A j \in 1 .. n : \E i \in 1 .. m : s[i] = t[j]
  BY DEF RisesTo, Among
<1> DEFINE D == {i \in Nat : i \in 1 .. m /\ i \in 1 .. n /\ s[i] # t[i]}
<1>2. D = {}
  <2> SUFFICES ASSUME D # {} PROVE FALSE
    OBVIOUS
  <2> DEFINE d == Min(D)
  <2>1. d \in D /\ \A y \in D : d <= y
    BY MinOfNaturals
  <2> HIDE DEF d
  <2>2. d \in 1 .. m /\ d \in 1 .. n /\ s[d] # t[d] /\ d \in Nat
    BY <1>1, <2>1
  <2>3. \A i \in 1 .. d - 1 : i \in 1 .. m /\ i \in 1 .. n /\ s[i] = t[i]
    <3> TAKE i \in 1 .. d - 1
    <3>1. i \in 1 .. m /\ i \in 1 .. n /\ i \in Nat /\ ~(d <= i)
      BY <1>1, <2>2
    <3> QED BY <2>1, <3>1
  <2> HIDE DEF D
  <2>4. PICK j \in 1 .. n : s[d] = t[j]
    BY <1>1, <2>2
  <2>5. PICK i \in 1 .. m : s[i] = t[d]
    BY <1>1, <2>2
  <2>6. s[d] \in Nat /\ t[d] \in Nat /\ j # d /\ i # d
    BY <2>2, <2>4, <2>5
  <2>7. \A x, y \in Nat : ~(x < x) /\ ~(x < y /\ y < x)
    OBVIOUS
  <2>8. ~(j < d)
    <3> SUFFICES ASSUME j < d PROVE FALSE
      OBVIOUS
    <3>1. j \in 1 .. d - 1
      BY <1>1, <2>2
    <3>2. s[j] = s[d] /\ s[j] < s[d]
      BY <1>1, <2>2, <2>3, <2>4, <3>1
    <3> QED BY <2>6, <2>7, <3>2, Zenon
  <2>9. ~(i < d)
    <3> SUFFICES ASSUME i < d PROVE FALSE
      OBVIOUS
    <3>1. i \in 1 .. d - 1
      BY <1>1, <2>2
    <3>2. t[i] = t[d] /\ t[i] < t[d]
      BY <1>1, <2>2, <2>3, <2>5, <3>1
    <3> QED BY <2>6, <2>7, <3>2, Zenon
  <2>10. d < j /\ d < i
    BY <2>2, <2>6, <2>8, <2>9
  <2>11. t[d] < s[d] /\ s[d] < t[d]
    BY <1>1, <2>2, <2>4, <2>5, <2>10
  <2> QED BY <2>6, <2>11, <2>7, Zenon
<1>3. \A i \in 1 .. m : i \in 1 .. n => s[i] = t[i]
  <2> TAKE i \in 1 .. m
  <2>1. i \in Nat
    OBVIOUS
  <2>2. i \notin D
    BY <1>2, Zenon
  <2> QED BY <2>1, <2>2
<1> HIDE DEF D
<1>4. ~(m < n)
  <2> SUFFICES ASSUME m < n PROVE FALSE
    OBVIOUS
  <2>1. m + 1 \in 1 .. n
    OBVIOUS
  <2>2. PICK i \in 1 .. m : s[i] = t[m + 1]
    BY <1>1, <2>1
  <2>3. i \in 1 .. n /\ i < m + 1
    OBVIOUS
  <2>4. t[i] = t[m + 1] /\ t[i] < t[m + 1] /\ t[i] \in Nat
    BY <1>1, <1>3, <2>1, <2>2, <2>3
  <2> QED BY <2>4
<1>5. ~(n < m)
  <2> SUFFICES ASSUME n < m PROVE FALSE
    OBVIOUS
  <2>1. n + 1 \in 1 .. m
    OBVIOUS
  <2>2. PICK j \in 1 .. n : s[n + 1] = t[j]
    BY <1>1, <2>1
  <2>3. j \in 1 .. m /\ j < n + 1
    OBVIOUS
  <2>4. s[j] = s[n + 1] /\ s[j] < s[n + 1] /\ s[j] \in Nat
    BY <1>1, <1>3, <2>1, <2>2, <2>3
  <2> QED BY <2>4
<1>6. m = n
  BY <1>4, <1>5
<1> QED BY <1>3, <1>6

LEMMA SeqFunction ==
  ASSUME NEW V, NEW q \in Seq(V)
  PROVE  q \in [1 .. Len(q) -> V]
OBVIOUS

LEMMA SameRising ==
  ASSUME NEW s \in Seq(Nat), NEW t \in Seq(Nat), Rising(s), Rising(t),
         Among(s, Len(s), t, Len(t)), Among(t, Len(t), s, Len(s))
  PROVE  s = t
<1> DEFINE m == Len(s)
           n == Len(t)
<1>1. m \in Nat /\ n \in Nat
  OBVIOUS
<1>2. s \in [1 .. m -> Nat]
  BY SeqFunction
<1>3. t \in [1 .. n -> Nat]
  BY SeqFunction
<1>4. RisesTo(s, m) /\ RisesTo(t, n) /\ Among(s, m, t, n) /\ Among(t, n, s, m)
  BY DEF Rising
<1> HIDE DEF m, n
<1> QED BY <1>1, <1>2, <1>3, <1>4, SameRisingFunctions, Zenon

-------------------------------------------------------------------------------
(* Sums.                                                                       *)
TotalSoFar(s, f) == [n \in 0 .. Len(s) |-> IF n = 0 THEN 0 ELSE f[n - 1] + s[n]]

(* Numbers that can be added.                                                  *)
ClosedByAdding(V) == 0 \in V /\ \A x, y \in V : x + y \in V

LEMMA TotalRuleOf ==
  ASSUME NEW V, ClosedByAdding(V), NEW s \in Seq(V)
  PROVE  \E f \in [0 .. Len(s) -> V] :
           /\ f[0] = 0 /\ \A i \in 1 .. Len(s) : f[i] = f[i - 1] + s[i]
           /\ Total(s) = f[Len(s)]
<1> DEFINE N == Len(s)
           step == [x \in (1 .. N) \X V |-> x[2] + s[x[1]]]
           F == CHOOSE f : f = TotalSoFar(s, f)
<1>1. N \in Nat /\ 0 \in V /\ \A i \in 1 .. N : s[i] \in V
  BY DEF ClosedByAdding
<1>2. Total(s) = F[N]
  BY DEF Total, TotalSoFar
<1>3. ASSUME NEW f PROVE TotalSoFar(s, f) = [n \in 0 .. N |-> IF n = 0 THEN 0 ELSE f[n - 1] + s[n]]
  BY DEF TotalSoFar
<1> HIDE DEF N, F
<1>4. step \in [(1 .. N) \X V -> V] /\ \A i \in 1 .. N : \A x \in V : step[<< i, x >>] = x + s[i]
  BY <1>1 DEF ClosedByAdding
<1> HIDE DEF step
<1>5. PICK g : Defined(g, N, V, 0, step)
  BY <1>1, <1>4, Recursion, Zenon
<1>6. g = TotalSoFar(s, g)
  <2>1. g \in [0 .. N -> V] /\ g[0] = 0 /\ \A i \in 1 .. N : g[i] = step[<< i, g[i - 1] >>]
    BY <1>5 DEF Defined
  <2>2. \A i \in 1 .. N : g[i] = g[i - 1] + s[i]
    <3> TAKE i \in 1 .. N
    <3>1. i - 1 \in 0 .. N
      BY <1>1
    <3> QED BY <1>4, <2>1, <3>1
  <2>3. \A i \in 0 .. N : g[i] = IF i = 0 THEN 0 ELSE g[i - 1] + s[i]
    BY <1>1, <2>1, <2>2
  <2> DEFINE G == [n \in 0 .. N |-> IF n = 0 THEN 0 ELSE g[n - 1] + s[n]]
  <2>4. g = G
    BY <2>1, <2>3
  <2>5. TotalSoFar(s, g) = G
    BY <1>3
  <2> QED BY <2>4, <2>5
<1>7. F = TotalSoFar(s, F)
  BY <1>6 DEF F
<1> DEFINE R == [k \in 1 .. N |-> F[k - 1] + s[k]]
<1>8. F = [k \in 0 .. N |-> IF k = 0 THEN 0 ELSE R[k]]
  <2>1. \A k \in 0 .. N : k # 0 => k \in 1 .. N
    BY <1>1
  <2> QED BY <1>3, <1>7, <2>1
<1>9. \A k \in 1 .. N : F[k - 1] \in V => R[k] = step[<< k, F[k - 1] >>]
  BY <1>4
<1> HIDE DEF R
<1>10. Defined(F, N, V, 0, step)
  BY <1>1, <1>4, <1>8, <1>9, RuleFollowed
<1>11. F \in [0 .. N -> V] /\ F[0] = 0 /\ \A i \in 1 .. N : F[i] = step[<< i, F[i - 1] >>]
  BY <1>10 DEF Defined
<1>12. \A i \in 1 .. N : F[i] = F[i - 1] + s[i]
  <2> TAKE i \in 1 .. N
  <2>1. i - 1 \in 0 .. N
    BY <1>1
  <2> QED BY <1>4, <1>11, <2>1
<1> QED BY <1>2, <1>11, <1>12 DEF N

LEMMA TotalRule ==
  ASSUME NEW s \in Seq(Nat)
  PROVE  \E f \in [0 .. Len(s) -> Nat] :
           /\ f[0] = 0 /\ \A i \in 1 .. Len(s) : f[i] = f[i - 1] + s[i]
           /\ Total(s) = f[Len(s)]
<1>1. ClosedByAdding(Nat)
  BY DEF ClosedByAdding
<1> QED BY <1>1, TotalRuleOf

LEMMA TotalOfFew ==
  /\ Total(<< >>) = 0
  /\ \A x \in Nat : Total(<< x >>) = x
<1>1. Total(<< >>) = 0
  <2>1. << >> \in Seq(Nat) /\ Len(<< >>) = 0
    OBVIOUS
  <2> QED BY <2>1, TotalRule
<1>2. ASSUME NEW x \in Nat PROVE Total(<< x >>) = x
  <2> DEFINE s == << x >>
  <2>1. s \in Seq(Nat) /\ Len(s) = 1 /\ s[1] = x
    OBVIOUS
  <2> HIDE DEF s
  <2>2. PICK f \in [0 .. Len(s) -> Nat] :
          /\ f[0] = 0 /\ \A i \in 1 .. Len(s) : f[i] = f[i - 1] + s[i]
          /\ Total(s) = f[Len(s)]
    BY <2>1, TotalRule
  <2>3. Total(s) = x
    BY <2>1, <2>2
  <2> QED BY <2>3 DEF s
<1> QED BY <1>1, <1>2

LEMMA TotalConcat ==
  ASSUME NEW s \in Seq(Nat), NEW t \in Seq(Nat)
  PROVE  Total(s) \in Nat /\ Total(t) \in Nat /\ Total(s \o t) = Total(s) + Total(t)
<1> DEFINE u == s \o t
           m == Len(s)
           n == Len(t)
<1>1. /\ u \in Seq(Nat) /\ m \in Nat /\ n \in Nat /\ Len(u) = m + n
      /\ (\A i \in 1 .. m : u[i] = s[i]) /\ \A i \in 1 .. n : u[m + i] = t[i]
  OBVIOUS
<1>2. PICK f \in [0 .. m -> Nat] :
        f[0] = 0 /\ (\A i \in 1 .. m : f[i] = f[i - 1] + s[i]) /\ Total(s) = f[m]
  BY TotalRule
<1>3. PICK g \in [0 .. n -> Nat] :
        g[0] = 0 /\ (\A i \in 1 .. n : g[i] = g[i - 1] + t[i]) /\ Total(t) = g[n]
  BY TotalRule
<1>4. PICK h \in [0 .. Len(u) -> Nat] :
        h[0] = 0 /\ (\A i \in 1 .. Len(u) : h[i] = h[i - 1] + u[i]) /\ Total(u) = h[Len(u)]
  BY <1>1, TotalRule
<1>5. (\A i \in 1 .. m : s[i] \in Nat) /\ \A i \in 1 .. n : t[i] \in Nat
  OBVIOUS
<1> HIDE DEF u, m, n
<1> DEFINE S == {k \in Nat : k <= m => h[k] = f[k]}
           T == {k \in Nat : k <= n => h[m + k] = f[m] + g[k]}
<1>6. 0 \in S /\ \A k \in Nat : k \in S => k + 1 \in S
  <2>1. ASSUME NEW k \in Nat, k \in S, k + 1 <= m PROVE h[k + 1] = f[k + 1]
    <3>1. k + 1 \in 1 .. m /\ k + 1 \in 1 .. Len(u) /\ h[k] = f[k] /\ (k + 1) - 1 = k
      BY <1>1, <2>1
    <3> QED BY <1>1, <1>2, <1>4, <3>1
  <2> QED BY <1>2, <1>4, <2>1
<1>7. \A k \in Nat : k \in S
  <2> HIDE DEF S
  <2> QED BY <1>6, Induction
<1>8. h[m] = f[m] /\ f[m] \in Nat
  BY <1>1, <1>2, <1>7
<1>9. 0 \in T /\ \A k \in Nat : k \in T => k + 1 \in T
  <2>1. 0 \in T
    BY <1>1, <1>3, <1>8
  <2>2. ASSUME NEW k \in Nat, k \in T, k + 1 <= n PROVE h[m + (k + 1)] = f[m] + g[k + 1]
    <3>1. /\ k + 1 \in 1 .. n /\ m + (k + 1) \in 1 .. Len(u) /\ h[m + k] = f[m] + g[k] /\ k \in 0 .. n
          /\ (k + 1) - 1 = k /\ (m + (k + 1)) - 1 = m + k
      BY <1>1, <2>2
    <3>2. g[k] \in Nat /\ t[k + 1] \in Nat /\ u[m + (k + 1)] = t[k + 1] /\ g[k + 1] = g[k] + t[k + 1]
      BY <1>1, <1>3, <1>5, <3>1
    <3>3. h[m + (k + 1)] = h[m + k] + u[m + (k + 1)]
      BY <1>4, <3>1
    <3> HIDE DEF S, T
    <3>4. h[m + (k + 1)] = (f[m] + g[k]) + t[k + 1]
      BY <3>1, <3>2, <3>3
    <3> QED BY <1>8, <3>2, <3>4
  <2> QED BY <2>1, <2>2
<1>10. \A k \in Nat : k \in T
  <2> HIDE DEF T
  <2> QED BY <1>9, Induction
<1>11. h[m + n] = f[m] + g[n] /\ g[n] \in Nat
  BY <1>1, <1>3, <1>10
<1> QED BY <1>1, <1>2, <1>3, <1>4, <1>8, <1>11 DEF u

(* Sums of the first values of a function, which may be negative.              *)
SumTo(f, n) == Total([i \in 1 .. n |-> f[i]])
IntValues(f, n) == \A i \in 1 .. n : f[i] \in Int
SumsUp(F, f, n) == F[0] = 0 /\ \A i \in 1 .. n : F[i] = F[i - 1] + f[i]

LEMMA SumToRule ==
  ASSUME NEW n \in Nat, NEW f, IntValues(f, n)
  PROVE  \E F \in [0 .. n -> Int] : SumsUp(F, f, n) /\ SumTo(f, n) = F[n]
<1> DEFINE s == [i \in 1 .. n |-> f[i]]
<1>1. s \in Seq(Int) /\ Len(s) = n /\ \A i \in 1 .. n : s[i] = f[i]
  BY DEF IntValues
<1>2. SumTo(f, n) = Total(s)
  BY DEF SumTo
<1>3. ClosedByAdding(Int)
  BY DEF ClosedByAdding
<1> HIDE DEF s
<1>4. PICK F \in [0 .. Len(s) -> Int] :
        /\ F[0] = 0 /\ \A i \in 1 .. Len(s) : F[i] = F[i - 1] + s[i]
        /\ Total(s) = F[Len(s)]
  BY <1>1, <1>3, TotalRuleOf
<1> QED BY <1>1, <1>2, <1>4 DEF SumsUp

LEMMA SumStep ==
  ASSUME NEW n \in Nat, NEW f, IntValues(f, n + 1)
  PROVE  /\ SumTo(f, 0) = 0 /\ SumTo(f, n) \in Int
         /\ SumTo(f, n + 1) = SumTo(f, n) + f[n + 1]
<1>1. SumTo(f, 0) = 0
  <2>1. IntValues(f, 0)
    BY DEF IntValues
  <2>2. PICK F \in [0 .. 0 -> Int] : SumsUp(F, f, 0) /\ SumTo(f, 0) = F[0]
    BY <2>1, SumToRule
  <2> QED BY <2>2 DEF SumsUp
<1>2. n + 1 \in Nat /\ IntValues(f, n)
  BY DEF IntValues
<1>3. PICK F \in [0 .. n -> Int] : SumsUp(F, f, n) /\ SumTo(f, n) = F[n]
  BY <1>2, SumToRule
<1>4. PICK G \in [0 .. n + 1 -> Int] : SumsUp(G, f, n + 1) /\ SumTo(f, n + 1) = G[n + 1]
  BY <1>2, SumToRule
<1> DEFINE S == {k \in Nat : k <= n => G[k] = F[k]}
<1>5. 0 \in S /\ \A k \in Nat : k \in S => k + 1 \in S
  <2>1. ASSUME NEW k \in Nat, k \in S, k + 1 <= n PROVE G[k + 1] = F[k + 1]
    <3>1. k + 1 \in 1 .. n /\ k + 1 \in 1 .. n + 1 /\ G[k] = F[k] /\ (k + 1) - 1 = k
      BY <2>1
    <3> QED BY <1>3, <1>4, <3>1 DEF SumsUp
  <2> QED BY <1>3, <1>4, <2>1 DEF SumsUp
<1>6. \A k \in Nat : k \in S
  <2> HIDE DEF S
  <2> QED BY <1>5, Induction
<1>7. G[n] = F[n] /\ F[n] \in Int
  BY <1>3, <1>6
<1>8. G[n + 1] = G[n] + f[n + 1]
  <2>1. n + 1 \in 1 .. n + 1 /\ (n + 1) - 1 = n
    OBVIOUS
  <2> QED BY <1>4, <2>1 DEF SumsUp
<1> QED BY <1>1, <1>3, <1>4, <1>7, <1>8

(* A sum is that of each function by which one adds up, one value at a time.   *)
LEMMA SumIs ==
  ASSUME NEW n \in Nat, NEW f, IntValues(f, n), NEW F, SumsUp(F, f, n)
  PROVE  \A k \in 0 .. n : SumTo(f, k) = F[k]
<1> DEFINE S == {k \in Nat : k <= n => SumTo(f, k) = F[k]}
<1>1. 0 \in S
  <2>1. IntValues(f, 0)
    BY DEF IntValues
  <2>2. PICK G \in [0 .. 0 -> Int] : SumsUp(G, f, 0) /\ SumTo(f, 0) = G[0]
    BY <2>1, SumToRule
  <2> QED BY <2>2 DEF SumsUp
<1>2. ASSUME NEW k \in Nat, k \in S, k + 1 <= n PROVE SumTo(f, k + 1) = F[k + 1]
  <2>1. k + 1 \in 1 .. n /\ SumTo(f, k) = F[k] /\ (k + 1) - 1 = k
    BY <1>2
  <2>2. IntValues(f, k + 1)
    BY <1>2 DEF IntValues
  <2>3. SumTo(f, k) \in Int /\ SumTo(f, k + 1) = SumTo(f, k) + f[k + 1]
    BY <2>2, SumStep
  <2>4. F[k + 1] = F[k] + f[k + 1]
    BY <2>1 DEF SumsUp
  <2> QED BY <2>1, <2>3, <2>4
<1>3. \A k \in Nat : k \in S => k + 1 \in S
  BY <1>2
<1> HIDE DEF S
<1>4. \A k \in Nat : k \in S
  BY <1>1, <1>3, Induction
<1> QED BY <1>4 DEF S

LEMMA SumScaled ==
  ASSUME NEW n \in Nat, NEW f, NEW g, NEW c \in Int, IntValues(f, n), \A i \in 1 .. n : g[i] = c * f[i]
  PROVE  SumTo(g, n) = c * SumTo(f, n)
<1>1. \A x, y \in Int : c * x \in Int /\ c * (x + y) = c * x + c * y
  OBVIOUS
<1>2. c * 0 = 0
  OBVIOUS
<1> DEFINE prod == [x \in Int |-> c * x]
<1>3. \A x \in Int : prod[x] = c * x
  OBVIOUS
<1>4. prod[0] = 0 /\ \A x, y \in Int : prod[x] \in Int /\ prod[x + y] = prod[x] + prod[y]
  BY <1>1, <1>2
<1>5. \A i \in 1 .. n : f[i] \in Int /\ g[i] = prod[f[i]]
  BY <1>3 DEF IntValues
<1> HIDE DEF prod
<1>6. PICK F \in [0 .. n -> Int] : SumsUp(F, f, n) /\ SumTo(f, n) = F[n]
  BY SumToRule
<1> DEFINE G == [k \in 0 .. n |-> prod[F[k]]]
<1>7. G[0] = 0 /\ G[n] = prod[F[n]]
  <2>1. 0 \in 0 .. n /\ n \in 0 .. n /\ F[0] = 0
    BY <1>6 DEF SumsUp
  <2> QED BY <1>4, <2>1
<1>8. ASSUME NEW i \in 1 .. n PROVE G[i] = G[i - 1] + g[i]
  <2>1. i \in 0 .. n /\ i - 1 \in 0 .. n
    OBVIOUS
  <2>2. G[i] = prod[F[i]] /\ G[i - 1] = prod[F[i - 1]]
    BY <2>1
  <2>3. F[i] = F[i - 1] + f[i] /\ F[i - 1] \in Int /\ f[i] \in Int /\ g[i] = prod[f[i]]
    BY <1>5, <1>6, <2>1 DEF SumsUp
  <2> HIDE DEF G
  <2>4. prod[F[i - 1] + f[i]] = prod[F[i - 1]] + prod[f[i]]
    BY <1>4, <2>3
  <2> QED BY <2>2, <2>3, <2>4
<1>9. IntValues(g, n)
  BY <1>4, <1>5 DEF IntValues
<1> HIDE DEF G
<1>10. SumsUp(G, g, n)
  BY <1>7, <1>8 DEF SumsUp
<1>11. n \in 0 .. n /\ \A k \in 0 .. n : SumTo(g, k) = G[k]
  BY <1>9, <1>10, SumIs
<1>12. F[n] \in Int
  BY <1>6
<1> QED BY <1>3, <1>6, <1>7, <1>11, <1>12

LEMMA SumOfBoth ==
  ASSUME NEW n \in Nat, NEW f, NEW g, NEW h, IntValues(f, n), IntValues(g, n),
         \A i \in 1 .. n : h[i] = f[i] + g[i]
  PROVE  SumTo(h, n) = SumTo(f, n) + SumTo(g, n)
<1>1. PICK F \in [0 .. n -> Int] : SumsUp(F, f, n) /\ SumTo(f, n) = F[n]
  BY SumToRule
<1>2. PICK G \in [0 .. n -> Int] : SumsUp(G, g, n) /\ SumTo(g, n) = G[n]
  BY SumToRule
<1> DEFINE H == [k \in 0 .. n |-> F[k] + G[k]]
<1>3. H[0] = 0 /\ H[n] = F[n] + G[n]
  <2>1. 0 \in 0 .. n /\ n \in 0 .. n /\ F[0] = 0 /\ G[0] = 0
    BY <1>1, <1>2 DEF SumsUp
  <2> QED BY <2>1
<1>4. ASSUME NEW i \in 1 .. n PROVE H[i] = H[i - 1] + h[i]
  <2>1. i \in 0 .. n /\ i - 1 \in 0 .. n
    OBVIOUS
  <2>2. H[i] = F[i] + G[i] /\ H[i - 1] = F[i - 1] + G[i - 1]
    BY <2>1
  <2>3. /\ F[i] = F[i - 1] + f[i] /\ F[i - 1] \in Int /\ G[i] = G[i - 1] + g[i] /\ G[i - 1] \in Int
        /\ f[i] \in Int /\ g[i] \in Int /\ h[i] = f[i] + g[i]
    BY <1>1, <1>2, <2>1 DEF SumsUp, IntValues
  <2> HIDE DEF H
  <2> QED BY <2>2, <2>3
<1>5. IntValues(h, n)
  <2> HIDE DEF H
  <2>1. \A i \in 1 .. n : f[i] \in Int /\ g[i] \in Int
    BY DEF IntValues
  <2>2. \A i \in 1 .. n : f[i] + g[i] \in Int
    BY <2>1
  <2>3. \A i \in 1 .. n : h[i] \in Int
    BY <2>2
  <2> QED BY <2>3 DEF IntValues
<1> HIDE DEF H
<1>6. SumsUp(H, h, n)
  BY <1>3, <1>4 DEF SumsUp
<1>7. n \in 0 .. n /\ \A k \in 0 .. n : SumTo(h, k) = H[k]
  BY <1>5, <1>6, SumIs
<1> QED BY <1>1, <1>2, <1>3, <1>7

(* By rows or by columns, the sum is the same.                                 *)
Exchanges(a, rows, cols, n, m) ==
  /\ \A i \in 1 .. n : IntValues(a[i], m) /\ rows[i] = SumTo(a[i], m)
  /\ \A j \in 1 .. m : cols[j] = SumTo([i \in 1 .. n |-> a[i][j]], n)

LEMMA SumExchanged ==
  ASSUME NEW n \in Nat, NEW m \in Nat, NEW a, NEW rows, NEW cols, Exchanges(a, rows, cols, n, m)
  PROVE  SumTo(rows, n) = SumTo(cols, m)
<1>0. /\ \A i \in 1 .. n : IntValues(a[i], m) /\ rows[i] = SumTo(a[i], m)
      /\ \A j \in 1 .. m : cols[j] = SumTo([i \in 1 .. n |-> a[i][j]], n)
  BY DEF Exchanges
<1> DEFINE part == [k \in 0 .. n |-> [j \in 1 .. m |-> SumTo([i \in 1 .. n |-> a[i][j]], k)]]
<1>1. ASSUME NEW j \in 1 .. m
      PROVE  /\ part[0][j] = 0 /\ part[n][j] = cols[j]
             /\ \A k \in 1 .. n : /\ part[k - 1][j] \in Int /\ part[k][j] \in Int
                                  /\ part[k][j] = part[k - 1][j] + a[k][j]
  <2> DEFINE col == [i \in 1 .. n |-> a[i][j]]
  <2>1. IntValues(col, n) /\ \A i \in 1 .. n : col[i] = a[i][j]
    BY <1>0 DEF IntValues
  <2>2. \A k \in 0 .. n : part[k][j] = SumTo(col, k)
    OBVIOUS
  <2>3. 0 \in 0 .. n /\ n \in 0 .. n /\ \A k \in 1 .. n : k \in 0 .. n /\ k - 1 \in 0 .. n
    OBVIOUS
  <2>4. cols[j] = SumTo(col, n)
    BY <1>0
  <2> HIDE DEF part, col
  <2>5. PICK F \in [0 .. n -> Int] : SumsUp(F, col, n) /\ SumTo(col, n) = F[n]
    BY <2>1, SumToRule
  <2>6. \A k \in 0 .. n : SumTo(col, k) = F[k]
    BY <2>1, <2>5, SumIs
  <2> QED BY <2>1, <2>2, <2>3, <2>4, <2>5, <2>6 DEF SumsUp
<1> DEFINE F == [k \in 0 .. n |-> SumTo(part[k], m)]
<1>2. F[0] = 0
  <2>1. \A j \in 1 .. m : part[0][j] = 0
    BY <1>1
  <2>2. F[0] = SumTo(part[0], m)
    OBVIOUS
  <2> HIDE DEF part, F
  <2>3. 0 \in Int /\ IntValues(part[0], m) /\ \A j \in 1 .. m : part[0][j] = 0 * part[0][j]
    BY <2>1 DEF IntValues
  <2>4. SumTo(part[0], m) = 0 * SumTo(part[0], m)
    BY <2>3, SumScaled
  <2>5. PICK G \in [0 .. m -> Int] : SumsUp(G, part[0], m) /\ SumTo(part[0], m) = G[m]
    BY <2>3, SumToRule
  <2>6. SumTo(part[0], m) \in Int
    BY <2>5
  <2> QED BY <2>2, <2>4, <2>6
<1>3. ASSUME NEW k \in 1 .. n PROVE F[k] = F[k - 1] + rows[k] /\ rows[k] \in Int
  <2>1. F[k] = SumTo(part[k], m) /\ F[k - 1] = SumTo(part[k - 1], m) /\ rows[k] = SumTo(a[k], m)
    BY <1>0
  <2>2. IntValues(a[k], m)
    BY <1>0
  <2>3. IntValues(part[k - 1], m) /\ \A j \in 1 .. m : part[k][j] = part[k - 1][j] + a[k][j]
    <3> HIDE DEF part, F
    <3> QED BY <1>1 DEF IntValues
  <2> HIDE DEF part, F
  <2>4. SumTo(part[k], m) = SumTo(part[k - 1], m) + SumTo(a[k], m)
    BY <2>2, <2>3, SumOfBoth
  <2>5. PICK G \in [0 .. m -> Int] : SumsUp(G, a[k], m) /\ SumTo(a[k], m) = G[m]
    BY <2>2, SumToRule
  <2>6. SumTo(a[k], m) \in Int
    BY <2>5
  <2> QED BY <2>1, <2>4, <2>6
<1>4. F[n] = SumTo(cols, m)
  <2>1. F[n] = SumTo(part[n], m)
    OBVIOUS
  <2>2. [j \in 1 .. m |-> part[n][j]] = [j \in 1 .. m |-> cols[j]]
    <3> HIDE DEF part
    <3> QED BY <1>1
  <2> HIDE DEF part, F
  <2> QED BY <2>1, <2>2 DEF SumTo
<1> HIDE DEF part, F
<1>5. IntValues(rows, n) /\ SumsUp(F, rows, n)
  BY <1>2, <1>3 DEF IntValues, SumsUp
<1>6. n \in 0 .. n /\ \A k \in 0 .. n : SumTo(rows, k) = F[k]
  BY <1>5, SumIs
<1> QED BY <1>4, <1>6

(* The greatest of some numbers up to n, and of some positions.                *)
LEMMA MaxOfNaturals ==
  ASSUME NEW n \in Nat, NEW S \in SUBSET (0 .. n), S # {}
  PROVE  Max(S) \in S /\ \A y \in S : Max(S) >= y
<1> DEFINE B == {b \in Nat : \A y \in S : y <= b}
<1>1. \A y \in S : y \in Nat /\ y <= n
  OBVIOUS
<1>2. n \in B
  BY <1>1
<1>3. Min(B) \in B /\ \A y \in B : Min(B) <= y
  BY <1>2, MinOfNaturals
<1> DEFINE b == Min(B)
<1> HIDE DEF b
<1>4. b \in Nat /\ (\A y \in S : y <= b) /\ \A y \in B : b <= y
  BY <1>3 DEF b
<1>5. b \in S
  <2> SUFFICES ASSUME b \notin S PROVE FALSE
    OBVIOUS
  <2>1. PICK y \in S : TRUE
    OBVIOUS
  <2>2. \A x \in S : x <= b - 1
    BY <1>1, <1>4
  <2>3. b - 1 \in Nat
    BY <1>1, <1>4, <2>1, <2>2
  <2>4. b - 1 \in B
    BY <2>2, <2>3
  <2> QED BY <1>4, <2>4
<1>6. \E x \in S : \A y \in S : x >= y
  BY <1>1, <1>4, <1>5
<1> QED BY <1>6 DEF Max

LEMMA MaxOfPositions ==
  ASSUME NEW n \in Nat, NEW S \in SUBSET (1 .. n), S # {}
  PROVE  Max(S) \in S /\ \A y \in S : Max(S) >= y
<1>1. S \in SUBSET (0 .. n)
  OBVIOUS
<1> QED BY <1>1, MaxOfNaturals

-------------------------------------------------------------------------------
(* Sequences without the elements from k to e, and with one more at k.         *)
LEMMA CutOut ==
  ASSUME NEW V, NEW s \in Seq(V), NEW k \in Nat, NEW e \in Nat, 1 <= k, k <= e + 1, e <= Len(s)
  PROVE  LET t == SubSeq(s, 1, k - 1) \o SubSeq(s, e + 1, Len(s))
         IN /\ t \in Seq(V) /\ Len(t) = Len(s) - (e - (k - 1))
            /\ \A i \in 1 .. Len(t) : t[i] = IF i < k THEN s[i] ELSE s[i + (e - (k - 1))]
<1> DEFINE m == Len(s)
           a == SubSeq(s, 1, k - 1)
           b == SubSeq(s, e + 1, m)
           t == a \o b
<1>1. m \in Nat /\ e <= m /\ k - 1 \in Nat /\ k - 1 <= m
  OBVIOUS
<1>2. a \in Seq(V) /\ Len(a) = k - 1 /\ \A i \in 1 .. k - 1 : a[i] = s[i]
  BY <1>1
<1>3. b \in Seq(V) /\ Len(b) = m - e /\ \A i \in 1 .. m - e : b[i] = s[e + i]
  BY <1>1
<1> HIDE DEF a, b, m
<1>4. t \in Seq(V) /\ Len(t) = (k - 1) + (m - e)
  <2>1. a \in Seq(V) /\ b \in Seq(V)
    BY <1>2, <1>3
  <2>2. t \in Seq(V) /\ Len(t) = Len(a) + Len(b)
    BY <2>1
  <2> QED BY <1>2, <1>3, <2>2
<1>5. ASSUME NEW i \in 1 .. Len(t) PROVE t[i] = IF i < k THEN s[i] ELSE s[i + (e - (k - 1))]
  <2>1. CASE i < k
    <3>1. i \in 1 .. Len(a)
      BY <1>2, <2>1
    <3> QED BY <1>2, <1>3, <2>1, <3>1
  <2>2. CASE ~(i < k)
    <3>1. /\ i - (k - 1) \in 1 .. Len(b) /\ i \in Len(a) + 1 .. Len(a) + Len(b)
          /\ e + (i - (k - 1)) = i + (e - (k - 1))
      BY <1>1, <1>2, <1>3, <1>4, <2>2
    <3>2. \A j \in Len(a) + 1 .. Len(a) + Len(b) : t[j] = b[j - Len(a)]
      <4>1. a \in Seq(V) /\ b \in Seq(V)
        BY <1>2, <1>3
      <4> QED BY <4>1
    <3>3. t[i] = b[i - (k - 1)]
      <4>1. t[i] = b[i - Len(a)]
        BY <3>1, <3>2
      <4> QED BY <1>2, <4>1
    <3> QED BY <1>3, <2>2, <3>1, <3>3
  <2> QED BY <2>1, <2>2
<1>6. Len(t) = m - (e - (k - 1))
  BY <1>1, <1>4
<1> HIDE DEF t
<1> QED BY <1>4, <1>5, <1>6 DEF t, a, b, m

-------------------------------------------------------------------------------
(* Sums over finite sets.  g = Adding(S, f, g) adds up the values of f as      *)
(* MapThenSumSet does, taking out whichever element CHOOSE picks; the sum of   *)
(* a set is that of the set without any one element, plus that element's.      *)
AnyOf(s) == CHOOSE x \in s : TRUE

Adding(S, f, g) == [s \in SUBSET S |-> IF s = {} THEN 0 ELSE f[AnyOf(s)] + g[s \ {AnyOf(s)}]]

AddsUp(g, S, f) ==
  /\ g[{}] = 0
  /\ \A s \in SUBSET S : s # {} => g[s] = f[AnyOf(s)] + g[s \ {AnyOf(s)}]

LEMMA AnyOfIn == ASSUME NEW s, s # {} PROVE AnyOf(s) \in s
BY DEF AnyOf

LEMMA OneLess ==
  ASSUME NEW S, IsFiniteSet(S), NEW x \in S
  PROVE  IsFiniteSet(S \ {x}) /\ Cardinality(S) \in Nat /\ Cardinality(S \ {x}) \in Nat
         /\ Cardinality(S) = Cardinality(S \ {x}) + 1
<1>1. IsFiniteSet(S \ {x}) /\ Cardinality(S \ {x}) = Cardinality(S) - 1
  BY FS_RemoveElement
<1>2. Cardinality(S) \in Nat /\ Cardinality(S \ {x}) \in Nat
  BY <1>1, FS_CardinalityType
<1> QED BY <1>1, <1>2

LEMMA NoneLeft ==
  ASSUME NEW S, IsFiniteSet(S), Cardinality(S) = 0 PROVE S = {}
BY FS_EmptySet

LEMMA PartFinite ==
  ASSUME NEW S, IsFiniteSet(S), NEW s \in SUBSET S PROVE IsFiniteSet(s)
BY FS_Subset

(* What is true of the empty set, and of a set when of all it has without one. *)
LEMMA FiniteInduction ==
  ASSUME NEW S, IsFiniteSet(S), NEW T,
         \A s \in SUBSET S : (\A x \in s : s \ {x} \in T) => s \in T
  PROVE  \A s \in SUBSET S : s \in T
<1> DEFINE N == {n \in Nat : \A s \in SUBSET S : Cardinality(s) = n => s \in T}
<1>1. 0 \in N
  <2> SUFFICES ASSUME NEW s \in SUBSET S, Cardinality(s) = 0 PROVE s \in T
    OBVIOUS
  <2>1. s = {}
    BY PartFinite, NoneLeft
  <2> QED BY <2>1
<1>2. ASSUME NEW n \in Nat, n \in N PROVE n + 1 \in N
  <2> SUFFICES ASSUME NEW s \in SUBSET S, Cardinality(s) = n + 1 PROVE s \in T
    OBVIOUS
  <2>1. ASSUME NEW x \in s PROVE s \ {x} \in T
    <3>1. IsFiniteSet(s)
      BY PartFinite
    <3>2. Cardinality(s \ {x}) = n
      BY <3>1, OneLess
    <3> QED BY <1>2, <3>2
  <2> QED BY <2>1
<1> HIDE DEF N
<1>3. \A n \in Nat : n \in N
  BY <1>1, <1>2, Induction
<1> SUFFICES ASSUME NEW s \in SUBSET S PROVE s \in T
  OBVIOUS
<1>4. Cardinality(s) \in Nat
  BY PartFinite, FS_CardinalityType
<1> QED BY <1>3, <1>4 DEF N

LEMMA AddsType ==
  ASSUME NEW S, IsFiniteSet(S), NEW f, \A x \in S : f[x] \in Nat, NEW g, AddsUp(g, S, f)
  PROVE  \A s \in SUBSET S : g[s] \in Nat
<1> DEFINE T == {s \in SUBSET S : g[s] \in Nat}
<1>1. ASSUME NEW s \in SUBSET S, \A x \in s : s \ {x} \in T PROVE s \in T
  <2>1. CASE s = {}
    BY <2>1 DEF AddsUp
  <2>2. CASE s # {}
    <3>1. AnyOf(s) \in s /\ g[s] = f[AnyOf(s)] + g[s \ {AnyOf(s)}]
      BY <2>2, AnyOfIn DEF AddsUp
    <3> QED BY <1>1, <3>1
  <2> QED BY <2>1, <2>2
<1> HIDE DEF T
<1>2. \A s \in SUBSET S : s \in T
  BY <1>1, FiniteInduction
<1> QED BY <1>2 DEF T

(* Whatever element is taken out first.                                        *)
LEMMA AddsWithout ==
  ASSUME NEW S, IsFiniteSet(S), NEW f, \A x \in S : f[x] \in Nat, NEW g, AddsUp(g, S, f)
  PROVE  \A s \in SUBSET S : \A x \in s : g[s] = f[x] + g[s \ {x}]
<1> DEFINE T == {s \in SUBSET S : \A x \in s : g[s] = f[x] + g[s \ {x}]}
<1>0. \A s \in SUBSET S : g[s] \in Nat
  BY AddsType
<1>1. ASSUME NEW s \in SUBSET S, \A x \in s : s \ {x} \in T PROVE s \in T
  <2> SUFFICES ASSUME NEW x \in s PROVE g[s] = f[x] + g[s \ {x}]
    OBVIOUS
  <2> DEFINE c == AnyOf(s)
             a == s \ {c}
             b == s \ {x}
             r == s \ {c, x}
  <2>1. c \in s /\ g[s] = f[c] + g[a]
    BY AnyOfIn DEF AddsUp
  <2>2. CASE x = c
    BY <2>1, <2>2
  <2>3. CASE x # c
    <3>1. a \in T /\ b \in T /\ x \in a /\ c \in b
      BY <1>1, <2>1, <2>3
    <3>2. a \ {x} = r /\ b \ {c} = r
      OBVIOUS
    <3>3. g[a] = f[x] + g[r] /\ g[b] = f[c] + g[r]
      BY <3>1, <3>2
    <3>4. g[r] \in Nat /\ f[x] \in Nat /\ f[c] \in Nat
      BY <1>0, <2>1
    <3> HIDE DEF c, a, b, r
    <3>5. g[s] = f[x] + g[b]
      BY <2>1, <3>3, <3>4
    <3> QED BY <3>5 DEF b
  <2> QED BY <2>2, <2>3
<1> HIDE DEF T
<1>2. \A s \in SUBSET S : s \in T
  BY <1>1, FiniteInduction
<1> QED BY <1>2 DEF T

(* The same values give the same sum, on whatever set they are given.          *)
LEMMA AddsAgree ==
  ASSUME NEW S, IsFiniteSet(S), NEW f, NEW g, AddsUp(g, S, f),
         NEW R \in SUBSET S, NEW e, NEW h, AddsUp(h, R, e), \A x \in R : e[x] = f[x]
  PROVE  \A s \in SUBSET R : h[s] = g[s]
<1> DEFINE T == {s \in SUBSET R : h[s] = g[s]}
<1>1. ASSUME NEW s \in SUBSET R, \A x \in s : s \ {x} \in T PROVE s \in T
  <2>1. CASE s = {}
    BY <2>1 DEF AddsUp
  <2>2. CASE s # {}
    <3>1. /\ AnyOf(s) \in s /\ g[s] = f[AnyOf(s)] + g[s \ {AnyOf(s)}]
          /\ h[s] = e[AnyOf(s)] + h[s \ {AnyOf(s)}]
      BY <2>2, AnyOfIn DEF AddsUp
    <3> QED BY <1>1, <3>1
  <2> QED BY <2>1, <2>2
<1> HIDE DEF T
<1>2. IsFiniteSet(R)
  BY PartFinite
<1>3. \A s \in SUBSET R : s \in T
  BY <1>1, <1>2, FiniteInduction
<1> QED BY <1>3 DEF T

LEMMA AddingExists ==
  ASSUME NEW S, IsFiniteSet(S), NEW f
  PROVE  \E g : g = Adding(S, f, g)
<1> DEFINE Upto(n) == {s \in SUBSET S : Cardinality(s) <= n}
           Good(g, n) == g = [s \in Upto(n) |-> IF s = {} THEN 0 ELSE f[AnyOf(s)] + g[s \ {AnyOf(s)}]]
           N == {n \in Nat : \E g : Good(g, n)}
<1>0. ASSUME NEW n \in Nat, NEW s \in Upto(n + 1), s # {} PROVE s \ {AnyOf(s)} \in Upto(n)
  <2>1. IsFiniteSet(s) /\ AnyOf(s) \in s
    BY <1>0, PartFinite, AnyOfIn
  <2>2. Cardinality(s) \in Nat /\ Cardinality(s \ {AnyOf(s)}) \in Nat /\ Cardinality(s) = Cardinality(s \ {AnyOf(s)}) + 1
    BY <2>1, OneLess
  <2> QED BY <1>0, <2>2
<1>1. 0 \in N
  <2> DEFINE g == [s \in Upto(0) |-> 0]
  <2>1. \A s \in Upto(0) : s = {}
    <3> SUFFICES ASSUME NEW s \in SUBSET S, Cardinality(s) <= 0 PROVE s = {}
      OBVIOUS
    <3>1. IsFiniteSet(s) /\ Cardinality(s) \in Nat
      BY PartFinite, FS_CardinalityType
    <3> QED BY <3>1, NoneLeft
  <2>2. g = [s \in Upto(0) |-> IF s = {} THEN 0 ELSE f[AnyOf(s)] + g[s \ {AnyOf(s)}]]
    BY <2>1
  <2> QED BY <2>2
<1>2. ASSUME NEW n \in Nat, n \in N PROVE n + 1 \in N
  <2>1. PICK g : Good(g, n)
    BY <1>2
  <2> DEFINE V(s) == IF s = {} THEN 0 ELSE f[AnyOf(s)] + g[s \ {AnyOf(s)}]
             h == [s \in Upto(n + 1) |-> V(s)]
  <2>2. \A s \in Upto(n) : g[s] = V(s) /\ s \in Upto(n + 1)
    <3> SUFFICES ASSUME NEW s \in Upto(n) PROVE g[s] = V(s) /\ s \in Upto(n + 1)
      OBVIOUS
    <3>1. Cardinality(s) \in Nat
      BY PartFinite, FS_CardinalityType
    <3>2. s \in Upto(n + 1)
      BY <3>1
    <3>3. g[s] = V(s)
      BY <2>1
    <3> QED BY <3>2, <3>3
  <2> HIDE DEF Upto
  <2>3. \A s \in Upto(n) : h[s] = g[s]
    BY <2>2
  <2>4. \A s \in Upto(n + 1) : s # {} => h[s \ {AnyOf(s)}] = g[s \ {AnyOf(s)}]
    BY <1>0, <2>3
  <2>5. Good(h, n + 1)
    BY <2>4
  <2> HIDE DEF V, h, Good
  <2>6. \E k : Good(k, n + 1)
    BY <2>5
  <2> QED BY <2>6
<1>3. Cardinality(S) \in N
  <2> HIDE DEF N
  <2>1. \A n \in Nat : n \in N
    BY <1>1, <1>2, Induction
  <2> QED BY <2>1, FS_CardinalityType
<1>4. Upto(Cardinality(S)) = SUBSET S
  <2> SUFFICES ASSUME NEW s \in SUBSET S PROVE Cardinality(s) <= Cardinality(S)
    OBVIOUS
  <2> QED BY FS_Subset
<1>5. PICK g : Good(g, Cardinality(S))
  BY <1>3
<1> HIDE DEF Upto
<1>6. g = Adding(S, f, g)
  BY <1>4, <1>5 DEF Adding
<1> QED BY <1>6

LEMMA AddingAdds ==
  ASSUME NEW S, NEW f, NEW g, g = Adding(S, f, g)
  PROVE  AddsUp(g, S, f)
<1> DEFINE V(s) == IF s = {} THEN 0 ELSE f[AnyOf(s)] + g[s \ {AnyOf(s)}]
           h == [s \in SUBSET S |-> V(s)]
<1>1. \A s \in SUBSET S : h[s] = V(s)
  OBVIOUS
<1>2. g = h
  BY DEF Adding
<1> HIDE DEF h
<1>3. \A s \in SUBSET S : g[s] = V(s)
  BY <1>1, <1>2
<1>4. {} \in SUBSET S
  OBVIOUS
<1> QED BY <1>3, <1>4 DEF AddsUp

(* The sum of the values of f on the finite set S.                             *)
SumOver(f, S) == (CHOOSE g : g = Adding(S, f, g))[S]

LEMMA SameSum ==
  ASSUME NEW S, IsFiniteSet(S), NEW f, NEW g, AddsUp(g, S, f)
  PROVE  SumOver(f, S) = g[S]
<1> DEFINE G == CHOOSE h : h = Adding(S, f, h)
<1>1. G = Adding(S, f, G)
  BY AddingExists
<1>2. SumOver(f, S) = G[S]
  BY DEF SumOver
<1> HIDE DEF G
<1>3. AddsUp(G, S, f)
  BY <1>1, AddingAdds
<1>4. S \in SUBSET S
  OBVIOUS
<1>5. G[S] = g[S]
  BY <1>3, <1>4, AddsAgree
<1> QED BY <1>2, <1>5

LEMMA SumRule ==
  ASSUME NEW S, IsFiniteSet(S), NEW f, \A x \in S : f[x] \in Nat
  PROVE  /\ SumOver(f, S) \in Nat
         /\ S = {} => SumOver(f, S) = 0
         /\ \A x \in S : \A e : (\A y \in S \ {x} : e[y] = f[y]) => SumOver(f, S) = f[x] + SumOver(e, S \ {x})
<1> DEFINE G(T, e) == CHOOSE g : g = Adding(T, e, g)
<1>1. ASSUME NEW T, IsFiniteSet(T), NEW e PROVE AddsUp(G(T, e), T, e)
  <2>1. G(T, e) = Adding(T, e, G(T, e))
    BY <1>1, AddingExists
  <2> QED BY <2>1, AddingAdds
<1>2. \A T, e : SumOver(e, T) = G(T, e)[T]
  BY DEF SumOver
<1>3. AddsUp(G(S, f), S, f)
  BY <1>1
<1> HIDE DEF G
<1>4. SumOver(f, S) \in Nat
  BY <1>2, <1>3, AddsType
<1>5. S = {} => SumOver(f, S) = 0
  BY <1>2, <1>3 DEF AddsUp
<1>6. ASSUME NEW x \in S, NEW e, \A y \in S \ {x} : e[y] = f[y]
      PROVE  SumOver(f, S) = f[x] + SumOver(e, S \ {x})
  <2> DEFINE R == S \ {x}
  <2>1. R \in SUBSET S /\ S \in SUBSET S /\ R \in SUBSET R /\ IsFiniteSet(R)
    BY PartFinite
  <2>2. AddsUp(G(R, e), R, e)
    BY <1>1, <2>1
  <2>3. G(R, e)[R] = G(S, f)[R]
    <3> HIDE DEF R
    <3>1. \A y \in R : e[y] = f[y]
      BY <1>6 DEF R
    <3> QED BY <1>3, <2>1, <2>2, <3>1, AddsAgree
  <2>4. G(S, f)[S] = f[x] + G(S, f)[R]
    BY <1>3, <2>1, AddsWithout
  <2> QED BY <1>2, <2>3, <2>4
<1> QED BY <1>4, <1>5, <1>6

(* One for each element.                                                       *)
LEMMA SumOfOnes ==
  ASSUME NEW S, IsFiniteSet(S), NEW f, \A x \in S : f[x] = 1
  PROVE  SumOver(f, S) = Cardinality(S)
<1> DEFINE g == [s \in SUBSET S |-> Cardinality(s)]
<1>1. g[{}] = 0
  BY FS_EmptySet
<1>2. ASSUME NEW s \in SUBSET S, s # {} PROVE g[s] = f[AnyOf(s)] + g[s \ {AnyOf(s)}]
  <2>1. IsFiniteSet(s) /\ AnyOf(s) \in s
    BY <1>2, PartFinite, AnyOfIn
  <2>2. /\ Cardinality(s \ {AnyOf(s)}) \in Nat
        /\ Cardinality(s) = Cardinality(s \ {AnyOf(s)}) + 1
    BY <2>1, OneLess
  <2> QED BY <2>1, <2>2
<1>3. g[S] = Cardinality(S)
  OBVIOUS
<1> HIDE DEF g
<1>4. AddsUp(g, S, f)
  BY <1>1, <1>2 DEF AddsUp
<1> QED BY <1>3, <1>4, SameSum
-------------------------------------------------------------------------------
(* The elements of a finite set in an order, each once.                        *)
IsOrderOf(S, before) ==
  /\ \A x \in S : << x, x >> \notin before
  /\ \A x, y \in S : x # y => << x, y >> \in before \/ << y, x >> \in before
  /\ \A x, y, z \in S : << x, y >> \in before /\ << y, z >> \in before => << x, z >> \in before

HasForemost(s, before) == \E a \in s : \A b \in s \ {a} : << a, b >> \in before

LEMMA ForemostExists ==
  ASSUME NEW S, IsFiniteSet(S), NEW before, IsOrderOf(S, before), S # {}
  PROVE  HasForemost(S, before)
<1> DEFINE T == {s \in SUBSET S : s = {} \/ HasForemost(s, before)}
<1>1. ASSUME NEW s \in SUBSET S, \A x \in s : s \ {x} \in T PROVE s \in T
  <2> SUFFICES ASSUME s # {} PROVE HasForemost(s, before)
    OBVIOUS
  <2>1. PICK x \in s : TRUE
    OBVIOUS
  <2>2. CASE s \ {x} = {}
    BY <2>1, <2>2 DEF HasForemost
  <2>3. CASE s \ {x} # {}
    <3>1. PICK a \in s \ {x} : \A b \in (s \ {x}) \ {a} : << a, b >> \in before
      BY <1>1, <2>1, <2>3 DEF HasForemost
    <3>2. CASE << a, x >> \in before
      <4>1. \A b \in s \ {a} : << a, b >> \in before
        BY <3>1, <3>2
      <4> QED BY <3>1, <4>1 DEF HasForemost
    <3>3. CASE << x, a >> \in before
      <4>1. \A b \in s \ {x} : << x, b >> \in before
        BY <2>1, <3>1, <3>3 DEF IsOrderOf
      <4> QED BY <2>1, <4>1 DEF HasForemost
    <3> QED BY <2>1, <3>1, <3>2, <3>3 DEF IsOrderOf
  <2> QED BY <2>2, <2>3
<1> HIDE DEF T
<1>2. \A s \in SUBSET S : s \in T
  BY <1>1, FiniteInduction
<1> QED BY <1>2 DEF T

LEMMA ForemostIn ==
  ASSUME NEW S, IsFiniteSet(S), NEW before, IsOrderOf(S, before), NEW R \in SUBSET S, R # {}
  PROVE  Foremost(R, before) \in R /\ \A b \in R \ {Foremost(R, before)} : << Foremost(R, before), b >> \in before
<1>1. IsFiniteSet(R)
  BY PartFinite
<1>2. IsOrderOf(R, before)
  BY DEF IsOrderOf
<1>3. HasForemost(R, before)
  BY <1>1, <1>2, ForemostExists
<1> QED BY <1>3 DEF HasForemost, Foremost

(* What is left of a set when some have been listed.                           *)
LeftOf(S, done) == {a \in S : \A i \in DOMAIN done : done[i] # a}

ArrangedSoFar(S, before, f) ==
  [k \in 0 .. Cardinality(S) |->
     IF k = 0 THEN << >>
     ELSE LET done == f[k - 1]
          IN Append(done, Foremost({a \in S : \A i \in DOMAIN done : done[i] # a}, before))]

LEMMA ArrangedRule ==
  ASSUME NEW S, IsFiniteSet(S), NEW before, IsOrderOf(S, before)
  PROVE  \E f \in [0 .. Cardinality(S) -> Seq(S \cup {Foremost({}, before)})] :
           /\ f[0] = << >> /\ Arranged(S, before) = f[Cardinality(S)]
           /\ \A i \in 1 .. Cardinality(S) : f[i] = Append(f[i - 1], Foremost(LeftOf(S, f[i - 1]), before))
<1> DEFINE N == Cardinality(S)
           W == Seq(S \cup {Foremost({}, before)})
           first == << >>
           Step(m, i) == Append(m, Foremost(LeftOf(S, m), before))
           step == [x \in (1 .. N) \X W |-> Step(x[2], x[1])]
           F == CHOOSE f : f = ArrangedSoFar(S, before, f)
<1>1. N \in Nat /\ first \in W /\ \A i \in 1 .. N : \A m \in W : Step(m, i) \in W
  <2>1. N \in Nat
    BY FS_CardinalityType
  <2>2. ASSUME NEW m \in W, NEW i \in 1 .. N PROVE Step(m, i) \in W
    <3>1. LeftOf(S, m) \in SUBSET S
      BY DEF LeftOf
    <3>2. Foremost(LeftOf(S, m), before) \in S \cup {Foremost({}, before)}
      <4>1. CASE LeftOf(S, m) = {}
        BY <4>1
      <4>2. CASE LeftOf(S, m) # {}
        BY <3>1, <4>2, ForemostIn
      <4> QED BY <4>1, <4>2
    <3> QED BY <3>2
  <2>3. first \in W
    OBVIOUS
  <2> HIDE DEF N, W, first, Step
  <2> QED BY <2>1, <2>2, <2>3
<1>2. Arranged(S, before) = F[N]
  BY DEF Arranged, ArrangedSoFar, LeftOf
<1>3. ASSUME NEW f PROVE ArrangedSoFar(S, before, f) = [n \in 0 .. N |-> IF n = 0 THEN first ELSE Step(f[n - 1], n)]
  BY DEF ArrangedSoFar, LeftOf
<1> HIDE DEF N, W, F, first, Step
<1>4. step \in [(1 .. N) \X W -> W] /\ \A i \in 1 .. N : \A m \in W : step[<< i, m >>] = Step(m, i)
  BY <1>1
<1> HIDE DEF step
<1>5. PICK g : Defined(g, N, W, first, step)
  BY <1>1, <1>4, Recursion, Zenon
<1>6. g = ArrangedSoFar(S, before, g)
  <2>1. g \in [0 .. N -> W] /\ g[0] = first /\ \A i \in 1 .. N : g[i] = step[<< i, g[i - 1] >>]
    BY <1>5 DEF Defined
  <2>2. \A i \in 1 .. N : g[i] = Step(g[i - 1], i)
    <3> TAKE i \in 1 .. N
    <3>1. i - 1 \in 0 .. N
      BY <1>1
    <3> QED BY <1>4, <2>1, <3>1
  <2>3. \A i \in 0 .. N : g[i] = IF i = 0 THEN first ELSE Step(g[i - 1], i)
    BY <1>1, <2>1, <2>2
  <2> DEFINE G == [n \in 0 .. N |-> IF n = 0 THEN first ELSE Step(g[n - 1], n)]
  <2>4. g = G
    BY <2>1, <2>3
  <2>5. ArrangedSoFar(S, before, g) = G
    BY <1>3
  <2> QED BY <2>4, <2>5
<1>7. F = ArrangedSoFar(S, before, F)
  BY <1>6 DEF F
<1> DEFINE R == [k \in 1 .. N |-> Step(F[k - 1], k)]
<1>8. F = [k \in 0 .. N |-> IF k = 0 THEN first ELSE R[k]]
  <2>1. \A k \in 0 .. N : k # 0 => k \in 1 .. N
    BY <1>1
  <2> QED BY <1>3, <1>7, <2>1
<1>9. \A k \in 1 .. N : F[k - 1] \in W => R[k] = step[<< k, F[k - 1] >>]
  BY <1>4
<1> HIDE DEF R
<1>10. Defined(F, N, W, first, step)
  BY <1>1, <1>4, <1>8, <1>9, RuleFollowed
<1>11. F \in [0 .. N -> W] /\ F[0] = first /\ \A i \in 1 .. N : F[i] = step[<< i, F[i - 1] >>]
  BY <1>10 DEF Defined
<1>12. \A i \in 1 .. N : F[i] = Step(F[i - 1], i)
  <2> TAKE i \in 1 .. N
  <2>1. i - 1 \in 0 .. N
    BY <1>1
  <2> QED BY <1>4, <1>11, <2>1
<1> QED BY <1>2, <1>11, <1>12 DEF N, W, first, Step

LEMMA ArrangedIs ==
  ASSUME NEW S, IsFiniteSet(S), NEW before, IsOrderOf(S, before)
  PROVE  LET p == Arranged(S, before)
         IN /\ p \in Seq(S) /\ Len(p) = Cardinality(S)
            /\ \A x \in S : \E i \in 1 .. Len(p) : p[i] = x
            /\ \A i, j \in 1 .. Len(p) : i < j => << p[i], p[j] >> \in before
<1> DEFINE N == Cardinality(S)
           V == S \cup {Foremost({}, before)}
           Elements(q) == {q[i] : i \in 1 .. Len(q)}
           Good(q) == /\ q \in Seq(S) /\ IsFiniteSet(Elements(q)) /\ Cardinality(Elements(q)) = Len(q)
                      /\ \A i, j \in 1 .. Len(q) : i < j => << q[i], q[j] >> \in before
                      /\ \A i \in 1 .. Len(q) : \A x \in LeftOf(S, q) : << q[i], x >> \in before
<1>1. PICK f \in [0 .. N -> Seq(V)] :
        /\ f[0] = << >> /\ Arranged(S, before) = f[N]
        /\ \A i \in 1 .. N : f[i] = Append(f[i - 1], Foremost(LeftOf(S, f[i - 1]), before))
  BY ArrangedRule
<1>2. N \in Nat
  BY FS_CardinalityType
<1> HIDE DEF N
<1> DEFINE T == {k \in Nat : k <= N => Len(f[k]) = k /\ Good(f[k])}
<1>3. 0 \in T
  <2>1. << >> \in Seq(S) /\ Len(<< >>) = 0 /\ Elements(<< >>) = {}
    OBVIOUS
  <2>2. IsFiniteSet({}) /\ Cardinality({}) = 0
    BY FS_EmptySet
  <2>3. Good(<< >>)
    BY <2>1, <2>2
  <2>4. Len(f[0]) = 0 /\ Good(f[0])
    BY <1>1, <2>3
  <2> HIDE DEF Good
  <2> QED BY <2>4
<1>4. ASSUME NEW k \in Nat, k \in T PROVE k + 1 \in T
  <2> SUFFICES ASSUME k + 1 <= N PROVE Len(f[k + 1]) = k + 1 /\ Good(f[k + 1])
    OBVIOUS
  <2> DEFINE q == f[k]
             R == LeftOf(S, q)
             x == Foremost(R, before)
             t == Append(q, x)
  <2>1. Len(q) = k /\ Good(q)
    BY <1>2, <1>4
  <2>2. f[k + 1] = t
    <3>1. k + 1 \in 1 .. N /\ (k + 1) - 1 = k
      BY <1>2
    <3> QED BY <1>1, <3>1
  <2> HIDE DEF q, T
  <2>3. R = S \ Elements(q) /\ Elements(q) \subseteq S
    BY <2>1 DEF LeftOf
  <2>4. R # {}
    <3> SUFFICES ASSUME R = {} PROVE FALSE
      OBVIOUS
    <3>1. Elements(q) = S
      BY <2>3
    <3>2. k = N
      BY <1>2, <2>1, <3>1 DEF N
    <3> QED BY <1>2, <3>2
  <2>5. x \in R /\ \A b \in R \ {x} : << x, b >> \in before
    BY <2>3, <2>4, ForemostIn
  <2> HIDE DEF x, R
  <2>6. /\ t \in Seq(S) /\ Len(t) = k + 1 /\ t[k + 1] = x /\ \A i \in 1 .. k : t[i] = q[i]
    BY <2>1, <2>3, <2>5
  <2>7. Elements(t) = Elements(q) \cup {x}
    <3>1. \A i \in 1 .. k + 1 : i \in 1 .. k \/ i = k + 1
      OBVIOUS
    <3>2. k + 1 \in 1 .. k + 1 /\ \A i \in 1 .. k : i \in 1 .. k + 1
      OBVIOUS
    <3> HIDE DEF t
    <3> QED BY <2>1, <2>6, <3>1, <3>2
  <2> HIDE DEF t
  <2>8. IsFiniteSet(Elements(t)) /\ Cardinality(Elements(t)) = k + 1
    <3>1. IsFiniteSet(Elements(q)) /\ Cardinality(Elements(q)) = k /\ x \notin Elements(q)
      BY <2>1, <2>3, <2>5
    <3> HIDE DEF Elements
    <3> QED BY <2>7, <3>1, FS_AddElement
  <2>9. ASSUME NEW i \in 1 .. k + 1, NEW j \in 1 .. k + 1, i < j PROVE << t[i], t[j] >> \in before
    <3>1. i \in 1 .. k /\ t[i] = q[i]
      BY <2>6, <2>9
    <3>2. CASE j = k + 1
      <4>1. << q[i], x >> \in before
        BY <2>1, <2>5, <3>1 DEF R
      <4> QED BY <2>6, <3>1, <3>2, <4>1
    <3>3. CASE j # k + 1
      <4>1. j \in 1 .. k /\ t[j] = q[j]
        BY <2>6, <3>3
      <4> QED BY <2>1, <2>9, <3>1, <4>1
    <3> QED BY <3>2, <3>3
  <2>10. ASSUME NEW i \in 1 .. k + 1, NEW y \in LeftOf(S, t) PROVE << t[i], y >> \in before
    <3>1. y \in S /\ y # x /\ y \notin Elements(q)
      <4>1. DOMAIN t = 1 .. Len(t)
        BY <2>6
      <4>2. y \in S /\ y \notin Elements(t)
        BY <4>1 DEF LeftOf
      <4> HIDE DEF Elements
      <4> QED BY <2>7, <4>2
    <3>2. y \in R
      BY <2>3, <3>1
    <3>3. CASE i = k + 1
      BY <2>5, <2>6, <3>1, <3>2, <3>3
    <3>4. CASE i # k + 1
      <4>1. i \in 1 .. k
        BY <3>4
      <4> QED BY <2>1, <2>6, <3>2, <4>1 DEF R
    <3> QED BY <3>3, <3>4
  <2> QED BY <2>2, <2>6, <2>8, <2>9, <2>10
<1> HIDE DEF T
<1>5. \A k \in Nat : k \in T
  BY <1>3, <1>4, Induction
<1>6. Len(f[N]) = N /\ Good(f[N])
  <2> HIDE DEF Good
  <2> QED BY <1>2, <1>5 DEF T
<1>7. Elements(f[N]) \subseteq S /\ Cardinality(Elements(f[N])) = N
  BY <1>6
<1>8. Elements(f[N]) = S
  <2> HIDE DEF Elements
  <2> QED BY <1>7, FS_Subset DEF N
<1> QED BY <1>1, <1>6, <1>8 DEF N

(* Sequences put one after the other, as FlattenSeq does it.                   *)
FlattenSoFar(ss, f) == [i \in 1 .. Len(ss) |-> IF i = 1 THEN ss[i] ELSE f[i - 1] \o ss[i]]

Glued(ss) == (CHOOSE f : f = FlattenSoFar(ss, f))[Len(ss)]

LEMMA GluedRule ==
  ASSUME NEW V, NEW ss \in Seq(Seq(V)), Len(ss) > 0
  PROVE  \E f \in [1 .. Len(ss) -> Seq(V)] :
           /\ f[1] = ss[1] /\ Glued(ss) = f[Len(ss)]
           /\ \A i \in 2 .. Len(ss) : f[i] = f[i - 1] \o ss[i]
<1> DEFINE N == Len(ss)
           W == Seq(V)
           step == [x \in (1 .. N - 1) \X W |-> x[2] \o ss[x[1] + 1]]
           F == CHOOSE f : f = FlattenSoFar(ss, f)
<1>1. N \in Nat /\ N - 1 \in Nat /\ N >= 1 /\ (\A i \in 1 .. N : ss[i] \in W) /\ \A x, y \in W : x \o y \in W
  OBVIOUS
<1>2. Glued(ss) = F[N]
  BY DEF Glued
<1>3. ASSUME NEW f PROVE FlattenSoFar(ss, f) = [i \in 1 .. N |-> IF i = 1 THEN ss[i] ELSE f[i - 1] \o ss[i]]
  BY DEF FlattenSoFar
<1> HIDE DEF N, W, F
<1>4. step \in [(1 .. N - 1) \X W -> W] /\ \A i \in 1 .. N - 1 : \A x \in W : step[<< i, x >>] = x \o ss[i + 1]
  <2>1. \A i \in 1 .. N - 1 : i + 1 \in 1 .. N
    BY <1>1
  <2>2. \A i \in 1 .. N - 1 : \A x \in W : x \o ss[i + 1] \in W
    BY <1>1, <2>1
  <2> QED BY <2>2
<1>5. ss[1] \in W
  BY <1>1
<1> HIDE DEF step
<1>6. PICK g : Defined(g, N - 1, W, ss[1], step)
  BY <1>1, <1>4, <1>5, Recursion, Zenon
<1>7. g \in [0 .. N - 1 -> W] /\ g[0] = ss[1] /\ \A i \in 1 .. N - 1 : g[i] = step[<< i, g[i - 1] >>]
  BY <1>6 DEF Defined
<1> DEFINE G == [i \in 1 .. N |-> g[i - 1]]
<1>8. G = FlattenSoFar(ss, G)
  <2>1. \A i \in 1 .. N : i # 1 => G[i] = G[i - 1] \o ss[i]
    <3> SUFFICES ASSUME NEW i \in 1 .. N, i # 1 PROVE G[i] = G[i - 1] \o ss[i]
      OBVIOUS
    <3> DEFINE j == i - 1
    <3>1. j \in 1 .. N - 1 /\ j - 1 \in 0 .. N - 1 /\ i = j + 1 /\ j \in 1 .. N
      BY <1>1
    <3>2. g[j] = g[j - 1] \o ss[j + 1]
      BY <1>4, <1>7, <3>1
    <3>3. G[i] = g[j] /\ G[j] = g[j - 1]
      BY <3>1
    <3> QED BY <3>1, <3>2, <3>3
  <2>2. 1 \in 1 .. N /\ G[1] = ss[1]
    BY <1>1, <1>7
  <2> DEFINE H == [i \in 1 .. N |-> IF i = 1 THEN ss[i] ELSE G[i - 1] \o ss[i]]
  <2>3. FlattenSoFar(ss, G) = H
    BY <1>3
  <2>4. \A i \in 1 .. N : G[i] = IF i = 1 THEN ss[i] ELSE G[i - 1] \o ss[i]
    BY <2>1, <2>2
  <2>5. G = [i \in 1 .. N |-> G[i]]
    OBVIOUS
  <2> HIDE DEF G
  <2> QED BY <2>3, <2>4, <2>5
<1> HIDE DEF G
<1>9. F = FlattenSoFar(ss, F)
  BY <1>8 DEF F
<1>10. F = [i \in 1 .. N |-> F[i]] /\ F[1] = ss[1] /\ \A i \in 2 .. N : F[i] = F[i - 1] \o ss[i]
  <2> DEFINE H == [i \in 1 .. N |-> IF i = 1 THEN ss[i] ELSE F[i - 1] \o ss[i]]
  <2>1. H = [i \in 1 .. N |-> H[i]] /\ H[1] = ss[1] /\ \A i \in 2 .. N : H[i] = F[i - 1] \o ss[i]
    <3>1. 1 \in 1 .. N /\ \A i \in 2 .. N : i \in 1 .. N /\ i # 1
      BY <1>1
    <3> QED BY <3>1
  <2>2. F = H
    BY <1>3, <1>9
  <2> HIDE DEF H
  <2> QED BY <2>1, <2>2
<1>11. \A i \in 1 .. N : F[i] \in W
  <2> DEFINE S == {k \in Nat : k + 1 <= N => F[k + 1] \in W}
  <2>1. 0 \in S
    BY <1>1, <1>5, <1>10
  <2>2. ASSUME NEW k \in Nat, k \in S PROVE k + 1 \in S
    <3> SUFFICES ASSUME (k + 1) + 1 <= N PROVE F[(k + 1) + 1] \in W
      OBVIOUS
    <3>1. (k + 1) + 1 \in 2 .. N /\ ((k + 1) + 1) - 1 = k + 1 /\ k + 1 <= N /\ (k + 1) + 1 \in 1 .. N
      BY <1>1
    <3>2. F[k + 1] \in W /\ ss[(k + 1) + 1] \in W
      BY <1>1, <2>2, <3>1
    <3>3. F[(k + 1) + 1] = F[k + 1] \o ss[(k + 1) + 1]
      BY <1>10, <3>1
    <3> QED BY <1>1, <3>2, <3>3
  <2> HIDE DEF S
  <2>3. \A k \in Nat : k \in S
    BY <2>1, <2>2, Induction
  <2> TAKE i \in 1 .. N
  <2>4. i - 1 \in Nat /\ (i - 1) + 1 = i /\ i <= N
    BY <1>1
  <2>5. i - 1 \in S
    BY <2>3, <2>4
  <2> QED BY <2>4, <2>5 DEF S
<1>12. F \in [1 .. N -> W]
  BY <1>10, <1>11
<1> QED BY <1>2, <1>10, <1>12 DEF N, W

================================================================================
