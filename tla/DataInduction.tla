--------------------------- MODULE DataInduction ---------------------------
(***************************************************************************)
(* Induction over data without an operator parameter, and what follows from  *)
(* it for recursive functions, for folds and for the joins of sequences.      *)
(* An induction is over the set of the numbers for which a statement holds.  *)
(***************************************************************************)
EXTENDS SequencesExt, WellFoundedInduction, TLAPS

LEMMA LeastNumber ==
  ASSUME NEW T, T \subseteq Nat, T # {}
  PROVE  \E n \in T : \A m \in T : n <= m
<1> DEFINE R == {ss \in Nat \X Nat : ss[1] < ss[2]}
<1>1. IsWellFoundedOn(R, Nat)
  BY NatLessThanWellFounded, Zenon DEF OpToRel
<1>2. \A n, m \in Nat : <<n, m>> \in R <=> n < m
  BY Z3
<1> HIDE DEF R
<1>3. PICK x \in T : \A y \in T : ~ (<<y, x>> \in R)
  BY <1>1, WFMin
<1>4. \A y \in T : x <= y
  <2> TAKE y \in T
  <2>1. x \in Nat /\ y \in Nat
    OBVIOUS
  <2>2. ~ (y < x)
    BY <1>2, <1>3, <2>1
  <2> QED BY <2>1, <2>2
<1> QED BY <1>4

LEMMA Inductively ==
  ASSUME NEW S, 0 \in S, \A n \in Nat : n \in S => n + 1 \in S
  PROVE  \A n \in Nat : n \in S
<1> SUFFICES ASSUME Nat \ S # {} PROVE FALSE
  OBVIOUS
<1>1. PICK n \in Nat \ S : \A m \in Nat \ S : n <= m
  BY LeastNumber
<1>2. n # 0 /\ n - 1 \in Nat /\ n - 1 \in S
  BY <1>1
<1>3. (n - 1) + 1 \in S
  BY <1>2
<1> QED BY <1>1, <1>2, <1>3

-----------------------------------------------------------------------------
(* A function defined by recursion on a number exists.                        *)
Steps(g, n, V, base, step) ==
    g \in [0 .. n -> V] /\ g[0] = base /\ \A k \in 1 .. n : g[k] = step[<<g[k - 1], k>>]

LEMMA StepRecursion ==
  ASSUME NEW n \in Nat, NEW V, NEW base \in V, NEW step \in [V \X (1 .. n) -> V]
  PROVE  \E g : Steps(g, n, V, base, step)
<1> DEFINE Upto(g, m) == g[0] = base /\ \A k \in 1 .. m : g[k] = step[<<g[k - 1], k>>]
           S == {m \in Nat : m <= n => \E g \in [0 .. m -> V] : Upto(g, m)}
<1>1. 0 \in S
  <2>1. [k \in 0 .. 0 |-> base] \in [0 .. 0 -> V] /\ Upto([k \in 0 .. 0 |-> base], 0)
    OBVIOUS
  <2> QED BY <2>1
<1>2. ASSUME NEW m \in Nat, m \in S, m + 1 <= n
      PROVE  \E g \in [0 .. m + 1 -> V] : Upto(g, m + 1)
  <2>1. PICK g \in [0 .. m -> V] : Upto(g, m)
    BY <1>2
  <2> DEFINE h == [k \in 0 .. m + 1 |-> IF k = m + 1 THEN step[<<g[m], m + 1>>] ELSE g[k]]
  <2>2. h \in [0 .. m + 1 -> V]
    BY <1>2
  <2>3. \A k \in 0 .. m : h[k] = g[k]
    OBVIOUS
  <2>4. h[m + 1] = step[<<g[m], m + 1>>]
    OBVIOUS
  <2> HIDE DEF h
  <2>5. Upto(h, m + 1)
    <3>1. h[0] = base
      BY <2>1, <2>3
    <3>2. ASSUME NEW k \in 1 .. m + 1
          PROVE  h[k] = step[<<h[k - 1], k>>]
      <4>1. CASE k = m + 1
        BY <2>3, <2>4, <4>1
      <4>2. CASE k \in 1 .. m
        BY <2>1, <2>3, <4>2
      <4> QED BY <4>1, <4>2
    <3> QED BY <3>1, <3>2
  <2> QED BY <2>2, <2>5
<1>3. \A m \in Nat : m \in S => m + 1 \in S
  <2> HIDE DEF Upto
  <2> SUFFICES ASSUME NEW m \in Nat, m \in S, m + 1 <= n
               PROVE  \E g \in [0 .. m + 1 -> V] : Upto(g, m + 1)
    OBVIOUS
  <2> QED BY <1>2
<1>4. n \in S
  BY <1>1, <1>3, Inductively
<1> QED BY <1>4 DEF S, Steps

(* A fold takes the elements of a sequence from the last: its sets are the     *)
(* subsets of its domain, and those that matter the intervals from 1.         *)
LEMMA IntervalMax ==
  ASSUME NEW k \in Nat \ {0}
  PROVE  /\ 1 .. k # {} /\ Max(1 .. k) = k /\ (1 .. k) \ {Max(1 .. k)} = 1 .. k - 1
  BY DEF Max

LEMMA BoundedMax ==
  ASSUME NEW n \in Nat, NEW s \in SUBSET (1 .. n), s # {}
  PROVE  Max(s) \in s /\ \A x \in s : x <= Max(s)
<1> DEFINE T == {n - x : x \in s}
<1>1. T \subseteq Nat /\ T # {}
  <2>1. \A x \in s : n - x \in Nat
    OBVIOUS
  <2> QED BY <2>1
<1>2. PICK d \in T : \A e \in T : d <= e
  <2> HIDE DEF T
  <2> QED BY <1>1, LeastNumber
<1>3. PICK x \in s : d = n - x
  BY <1>2
<1>4. \A y \in s : x >= y
  <2> TAKE y \in s
  <2>1. n - y \in T
    OBVIOUS
  <2> HIDE DEF T
  <2>2. n - x <= n - y
    BY <1>2, <1>3, <2>1
  <2>3. x \in 1 .. n /\ y \in 1 .. n
    OBVIOUS
  <2> QED BY <2>2, <2>3
<1> QED BY <1>4 DEF Max

Unfolds(h, n, V, base, step) ==
    h \in [SUBSET (1 .. n) -> V] /\ \A s \in SUBSET (1 .. n) :
        h[s] = IF s = {} THEN base ELSE step[<<h[s \ {Max(s)}], Max(s)>>]

LEMMA FoldRecursion ==
  ASSUME NEW n \in Nat, NEW V, NEW base \in V, NEW step \in [V \X (1 .. n) -> V]
  PROVE  \E h : Unfolds(h, n, V, base, step)
<1> DEFINE Upto(h, m) == \A s \in SUBSET (1 .. m) :
                            h[s] = IF s = {} THEN base ELSE step[<<h[s \ {Max(s)}], Max(s)>>]
           Reached(m) == \E h \in [SUBSET (1 .. m) -> V] : Upto(h, m)
           S == {m \in Nat : m <= n => Reached(m)}
<1>1. 0 \in S
  <2> DEFINE z == [s \in SUBSET (1 .. 0) |-> base]
  <2>1. z \in [SUBSET (1 .. 0) -> V] /\ Upto(z, 0)
    OBVIOUS
  <2> QED BY <2>1
<1>2. ASSUME NEW m \in Nat, m \in S, m + 1 <= n
      PROVE  Reached(m + 1)
  <2>1. PICK g \in [SUBSET (1 .. m) -> V] : Upto(g, m)
    <3> HIDE DEF Reached
    <3>1. Reached(m)
      BY <1>2
    <3> QED BY <3>1 DEF Reached
  <2> DEFINE h == [s \in SUBSET (1 .. m + 1) |->
                     IF m + 1 \in s THEN step[<<g[s \ {m + 1}], m + 1>>] ELSE g[s]]
  <2>2. \A s \in SUBSET (1 .. m + 1) : s \ {m + 1} \in SUBSET (1 .. m)
    OBVIOUS
  <2>3. \A s \in SUBSET (1 .. m) : s \in SUBSET (1 .. m + 1) /\ m + 1 \notin s /\ h[s] = g[s]
    OBVIOUS
  <2>4. \A s \in SUBSET (1 .. m + 1) : m + 1 \in s => h[s] = step[<<g[s \ {m + 1}], m + 1>>]
    OBVIOUS
  <2>5. h \in [SUBSET (1 .. m + 1) -> V]
    <3>1. ASSUME NEW s \in SUBSET (1 .. m + 1)
          PROVE  (IF m + 1 \in s THEN step[<<g[s \ {m + 1}], m + 1>>] ELSE g[s]) \in V
      <4>1. CASE m + 1 \in s
        <5>1. g[s \ {m + 1}] \in V
          BY <2>2
        <5>2. <<g[s \ {m + 1}], m + 1>> \in V \X (1 .. n)
          BY <1>2, <5>1
        <5> QED BY <4>1, <5>2
      <4>2. CASE m + 1 \notin s
        <5>1. s \in SUBSET (1 .. m)
          BY <4>2
        <5> QED BY <4>2, <5>1
      <4> QED BY <4>1, <4>2
    <3> QED BY <3>1
  <2> HIDE DEF h
  <2>6. ASSUME NEW s \in SUBSET (1 .. m + 1)
        PROVE  h[s] = IF s = {} THEN base ELSE step[<<h[s \ {Max(s)}], Max(s)>>]
    <3>1. CASE m + 1 \in s
      <4>1. Max(s) = m + 1
        <5>1. m + 1 \in s /\ \A y \in s : m + 1 >= y
          BY <3>1
        <5>2. \A x \in s : (\A y \in s : x >= y) => x = m + 1
          BY <5>1
        <5> QED BY <5>1, <5>2 DEF Max
      <4>2. h[s \ {m + 1}] = g[s \ {m + 1}]
        BY <2>2, <2>3
      <4> QED BY <2>4, <3>1, <4>1, <4>2
    <3>2. CASE m + 1 \notin s
      <4>1. s \in SUBSET (1 .. m)
        BY <3>2
      <4> HIDE DEF Upto
      <4>3. s \ {Max(s)} \in SUBSET (1 .. m)
        BY <4>1
      <4>2. h[s] = g[s] /\ h[s \ {Max(s)}] = g[s \ {Max(s)}]
        BY <2>3, <4>1, <4>3
      <4> QED BY <2>1, <4>1, <4>2 DEF Upto
    <3> QED BY <3>1, <3>2
  <2> QED BY <2>5, <2>6
<1>3. \A m \in Nat : m \in S => m + 1 \in S
  <2> HIDE DEF Reached
  <2> SUFFICES ASSUME NEW m \in Nat, m \in S, m + 1 <= n
               PROVE  Reached(m + 1)
    OBVIOUS
  <2> QED BY <1>2
<1>4. n \in S
  BY <1>1, <1>3, Inductively
<1>5. PICK h \in [SUBSET (1 .. n) -> V] : Upto(h, n)
  <2> HIDE DEF Reached
  <2>1. Reached(n)
    BY <1>4
  <2> QED BY <2>1 DEF Reached
<1> QED BY <1>5 DEF Unfolds

(* Over the interval from 1 to k such a fold has made k steps.                *)
FoldSteps(h, n, V, step) ==
    \A k \in 1 .. n : h[1 .. k - 1] \in V => h[1 .. k] = step[<<h[1 .. k - 1], k>>]

LEMMA FoldOfInterval ==
  ASSUME NEW n \in Nat, NEW V, NEW base, NEW step,
         NEW h, h[{}] = base, FoldSteps(h, n, V, step),
         NEW g, Steps(g, n, V, base, step)
  PROVE  \A k \in 0 .. n : h[1 .. k] = g[k]
<1> USE DEF FoldSteps, Steps
<1> DEFINE S == {k \in Nat : k <= n => h[1 .. k] = g[k]}
<1>1. 0 \in S
  <2>1. 1 .. 0 = {}
    OBVIOUS
  <2> QED BY <2>1
<1>2. ASSUME NEW k \in Nat, k \in S
      PROVE  k + 1 \in S
  <2> SUFFICES ASSUME k + 1 <= n
               PROVE  h[1 .. k + 1] = g[k + 1]
    OBVIOUS
  <2>1. k + 1 \in 1 .. n /\ (k + 1) - 1 = k /\ k \in 0 .. n
    OBVIOUS
  <2>2. h[1 .. k] = g[k] /\ g[k] \in V
    BY <1>2, <2>1
  <2>3. h[1 .. k + 1] = step[<<h[1 .. k], k + 1>>]
    BY <2>1, <2>2
  <2>4. g[k + 1] = step[<<g[k], k + 1>>]
    BY <2>1
  <2> QED BY <2>2, <2>3, <2>4
<1> HIDE DEF S
<1>3. \A k \in Nat : k \in S
  BY <1>1, <1>2, Inductively
<1> QED BY <1>3 DEF S

-----------------------------------------------------------------------------
(* Sequences.                                                               *)
LEMMA SeqSlice ==
  ASSUME NEW S, NEW s \in Seq(S), NEW a \in Nat, NEW b \in Nat,
         1 <= a, a <= b + 1, b <= Len(s)
  PROVE  /\ SubSeq(s, a, b) \in Seq(S) /\ Len(SubSeq(s, a, b)) = b - a + 1
         /\ \A k \in 1 .. b - a + 1 : SubSeq(s, a, b)[k] = s[a + k - 1]
OBVIOUS

LEMMA SeqSame ==
  ASSUME NEW S, NEW s \in Seq(S), NEW t \in Seq(S), Len(s) = Len(t),
         \A k \in 1 .. Len(s) : s[k] = t[k]
  PROVE  s = t
OBVIOUS

LEMMA SeqJoined ==
  ASSUME NEW S, NEW s \in Seq(S), NEW t \in Seq(S)
  PROVE  /\ s \o t \in Seq(S) /\ Len(s \o t) = Len(s) + Len(t)
         /\ \A k \in 1 .. Len(s) : (s \o t)[k] = s[k]
         /\ \A k \in 1 .. Len(t) : (s \o t)[Len(s) + k] = t[k]
OBVIOUS

LEMMA SeqSliceOfSlice ==
  ASSUME NEW S, NEW s \in Seq(S), NEW a \in Nat, NEW b \in Nat, NEW c \in Nat, NEW d \in Nat,
         1 <= a, a <= b + 1, b <= Len(s), 1 <= c, c <= d + 1, d <= b - a + 1
  PROVE  SubSeq(SubSeq(s, a, b), c, d) = SubSeq(s, a + c - 1, a + d - 1)
<1> DEFINE t == SubSeq(s, a, b)
           u == SubSeq(t, c, d)
           v == SubSeq(s, a + c - 1, a + d - 1)
<1>1. t \in Seq(S) /\ Len(t) = b - a + 1 /\ \A k \in 1 .. b - a + 1 : t[k] = s[a + k - 1]
  BY SeqSlice
<1>2. u \in Seq(S) /\ Len(u) = d - c + 1 /\ \A k \in 1 .. d - c + 1 : u[k] = t[c + k - 1]
  <2> HIDE DEF t
  <2> QED BY <1>1, SeqSlice
<1>3. v \in Seq(S) /\ Len(v) = d - c + 1 /\ \A k \in 1 .. d - c + 1 : v[k] = s[a + c - 1 + k - 1]
  BY SeqSlice
<1>4. \A k \in 1 .. d - c + 1 : u[k] = v[k]
  <2> HIDE DEF u, v
  <2> TAKE k \in 1 .. d - c + 1
  <2>1. c + k - 1 \in 1 .. b - a + 1
    OBVIOUS
  <2>2. u[k] = s[a + (c + k - 1) - 1]
    BY <1>1, <1>2, <2>1
  <2> QED BY <1>3, <2>2
<1> HIDE DEF u, v
<1>5. u = v
  BY <1>2, <1>3, <1>4, SeqSame
<1> QED BY <1>5 DEF t, u, v

\* Slices that meet.
LEMMA SeqSlicesMeet ==
  ASSUME NEW S, NEW s \in Seq(S), NEW a \in Nat, NEW b \in Nat, NEW c \in Nat,
         1 <= a, a <= b + 1, b <= c, c <= Len(s)
  PROVE  SubSeq(s, a, b) \o SubSeq(s, b + 1, c) = SubSeq(s, a, c)
<1> DEFINE t == SubSeq(s, a, b)
           u == SubSeq(s, b + 1, c)
           v == SubSeq(s, a, c)
           w == t \o u
<1>1. t \in Seq(S) /\ Len(t) = b - a + 1 /\ \A k \in 1 .. b - a + 1 : t[k] = s[a + k - 1]
  BY SeqSlice
<1>2. u \in Seq(S) /\ Len(u) = c - b /\ \A k \in 1 .. c - b : u[k] = s[b + k]
  <2>1. /\ u \in Seq(S) /\ Len(u) = c - (b + 1) + 1
        /\ \A k \in 1 .. c - (b + 1) + 1 : u[k] = s[(b + 1) + k - 1]
    BY SeqSlice
  <2>2. c - (b + 1) + 1 = c - b /\ \A k \in Nat : (b + 1) + k - 1 = b + k
    OBVIOUS
  <2> HIDE DEF u
  <2> QED BY <2>1, <2>2
<1>3. v \in Seq(S) /\ Len(v) = c - a + 1 /\ \A k \in 1 .. c - a + 1 : v[k] = s[a + k - 1]
  BY SeqSlice
<1> HIDE DEF t, u, v
<1>8. t \in Seq(S) /\ u \in Seq(S)
  BY <1>1, <1>2
<1>4. /\ w \in Seq(S) /\ Len(w) = Len(t) + Len(u)
      /\ \A k \in 1 .. Len(t) : w[k] = t[k]
      /\ \A k \in 1 .. Len(u) : w[Len(t) + k] = u[k]
  BY ONLY <1>8, SeqJoined
<1> HIDE DEF w
<1>5. \A k \in 1 .. Len(v) : w[k] = v[k]
  <2> TAKE k \in 1 .. Len(v)
  <2>1. CASE k <= b - a + 1
    <3>1. k \in 1 .. Len(t) /\ k \in 1 .. b - a + 1 /\ k \in 1 .. c - a + 1
      BY <1>1, <1>3, <2>1
    <3>2. w[k] = t[k]
      BY <1>4, <3>1
    <3>3. t[k] = s[a + k - 1]
      BY <1>1, <3>1
    <3>4. v[k] = s[a + k - 1]
      BY <1>3, <3>1
    <3> QED BY <3>2, <3>3, <3>4
  <2>2. CASE k > b - a + 1
    <3> DEFINE j == k - (b - a + 1)
    <3>1. j \in 1 .. c - b /\ Len(t) + j = k /\ b + j = a + k - 1
      BY <1>1, <1>3, <2>2
    <3> HIDE DEF j
    <3>2. w[Len(t) + j] = u[j] /\ u[j] = s[b + j]
      BY <1>2, <1>4, <3>1
    <3>3. v[k] = s[a + k - 1]
      BY <1>3
    <3> QED BY <3>1, <3>2, <3>3
  <2> QED BY <1>3, <2>1, <2>2
<1>6. Len(w) = Len(v)
  BY <1>1, <1>2, <1>3, <1>4
<1>7. w = v
  BY <1>3, <1>4, <1>5, <1>6, SeqSame
<1> QED BY <1>7 DEF t, u, v, w

\* The joins of the first k sequences of p.
Joins(f, S, p) ==
    /\ f \in [0 .. Len(p) -> Seq(S)] /\ f[0] = <<>>
    /\ \A k \in 1 .. Len(p) : f[k] = f[k - 1] \o p[k]

LEMMA FlattenJoins ==
  ASSUME NEW S, NEW p \in Seq(Seq(S))
  PROVE  \E f : Joins(f, S, p) /\ FlattenSeq(p) = f[Len(p)]
<1> DEFINE n == Len(p)
           V == Seq(S)
           step == [x \in V \X (1 .. n) |-> x[1] \o p[x[2]]]
           body(g, i) == IF i = 1 THEN p[i] ELSE g[i - 1] \o p[i]
           flatten == CHOOSE g : g = [i \in 1 .. n |-> body(g, i)]
<1>1. n \in Nat /\ <<>> \in V /\ \A k \in 1 .. n : p[k] \in V
  OBVIOUS
<1> HIDE DEF n
<1>2. step \in [V \X (1 .. n) -> V] /\ \A t \in V, k \in 1 .. n : step[<<t, k>>] = t \o p[k]
  <2>1. \A t \in V, k \in 1 .. n : t \o p[k] \in V
    BY <1>1
  <2> HIDE DEF V
  <2> QED BY <2>1
<1> HIDE DEF step, V
<1>3. PICK f : Steps(f, n, V, <<>>, step)
  BY ONLY <1>1, <1>2, StepRecursion
<1>4. f \in [0 .. n -> V] /\ f[0] = <<>> /\ \A k \in 1 .. n : f[k - 1] \in V /\ f[k] = f[k - 1] \o p[k]
  <2>1. \A k \in 1 .. n : k - 1 \in 0 .. n
    BY <1>1
  <2> QED BY <1>2, <1>3, <2>1 DEF Steps
<1>5. Joins(f, S, p)
  BY <1>4 DEF Joins, V, n
<1>6. CASE n = 0
  <2>1. p = <<>>
    BY <1>6 DEF n
  <2>2. FlattenSeq(p) = p
    BY <1>6 DEF FlattenSeq, n
  <2> QED BY <1>4, <1>5, <1>6, <2>1, <2>2 DEF n
<1>7. CASE n # 0
  <2>1. FlattenSeq(p) = flatten[n]
    BY <1>7 DEF FlattenSeq, n
  <2> DEFINE h == [k \in 1 .. n |-> f[k]]
  <2>2. \A k \in 1 .. n : f[k] = IF k = 1 THEN p[k] ELSE h[k - 1] \o p[k]
    <3> TAKE k \in 1 .. n
    <3>1. CASE k = 1
      <4>1. f[1] = <<>> \o p[1] /\ p[1] \in Seq(S)
        <5>1. 1 \in 1 .. n /\ 1 - 1 = 0
          BY <3>1
        <5> QED BY <1>1, <1>4, <5>1 DEF V
      <4> QED BY <3>1, <4>1
    <3>2. CASE k # 1
      <4>1. k - 1 \in 1 .. n
        BY <1>1, <3>2
      <4> QED BY <1>4, <3>2, <4>1
    <3> QED BY <3>1, <3>2
  <2>3. h = [k \in 1 .. n |-> body(h, k)]
    <3>1. \A k \in 1 .. n : f[k] = body(h, k)
      BY <2>2
    <3> HIDE DEF body
    <3> QED BY <3>1
  <2>4. flatten = [k \in 1 .. n |-> body(flatten, k)]
    <3> HIDE DEF body, h
    <3> QED BY <2>3
  <2> HIDE DEF flatten
  <2> DEFINE T == {k \in Nat : k + 1 <= n => flatten[k + 1] = f[k + 1]}
  <2>5. 0 \in T
    <3>1. 1 \in 1 .. n
      BY <1>1, <1>7
    <3>2. flatten[1] = p[1] /\ f[1] = p[1]
      BY <2>2, <2>4, <3>1
    <3> QED BY <3>2
  <2>6. ASSUME NEW k \in Nat, k \in T
        PROVE  k + 1 \in T
    <3> SUFFICES ASSUME (k + 1) + 1 <= n PROVE flatten[(k + 1) + 1] = f[(k + 1) + 1]
      OBVIOUS
    <3> DEFINE m == (k + 1) + 1
    <3>1. m \in 1 .. n /\ m # 1 /\ m - 1 = k + 1 /\ k + 1 \in 1 .. n
      BY <1>1
    <3>2. flatten[k + 1] = f[k + 1]
      BY <2>6, <3>1
    <3> HIDE DEF m
    <3>3. flatten[m] = flatten[m - 1] \o p[m]
      BY <2>4, <3>1
    <3>4. f[m] = f[m - 1] \o p[m]
      BY <1>4, <3>1
    <3>5. flatten[m] = f[m]
      BY <3>1, <3>2, <3>3, <3>4
    <3> QED BY <3>5 DEF m
  <2>7. n - 1 \in T
    <3>1. n - 1 \in Nat
      BY <1>1, <1>7
    <3> HIDE DEF T
    <3> QED BY <2>5, <2>6, <3>1, Inductively
  <2>8. flatten[n] = f[n]
    BY <1>1, <1>7, <2>7
  <2> QED BY <1>5, <2>1, <2>8 DEF n
<1> QED BY <1>6, <1>7

LEMMA JoinsUnique ==
  ASSUME NEW S, NEW p, NEW q, NEW f, NEW g, Joins(f, S, p), Joins(g, S, q),
         Len(p) \in Nat, Len(q) \in Nat, Len(q) <= Len(p), \A k \in 1 .. Len(q) : p[k] = q[k]
  PROVE  \A k \in 0 .. Len(q) : f[k] = g[k]
<1> DEFINE T == {k \in Nat : k <= Len(q) => f[k] = g[k]}
<1>1. 0 \in T
  BY DEF Joins
<1>2. ASSUME NEW k \in Nat, k \in T, k + 1 <= Len(q)
      PROVE  f[k + 1] = g[k + 1]
  <2>1. k + 1 \in 1 .. Len(q) /\ k + 1 \in 1 .. Len(p) /\ (k + 1) - 1 = k
    BY <1>2
  <2>2. f[k + 1] = f[k] \o p[k + 1]
    BY <2>1 DEF Joins
  <2>3. g[k + 1] = g[k] \o q[k + 1]
    BY <2>1 DEF Joins
  <2>4. f[k] = g[k] /\ p[k + 1] = q[k + 1]
    BY <1>2, <2>1
  <2> QED BY ONLY <2>2, <2>3, <2>4
<1>3. \A k \in Nat : k \in T
  <2>1. \A k \in Nat : k \in T => k + 1 \in T
    BY <1>2
  <2> HIDE DEF T
  <2> QED BY <1>1, <2>1, Inductively
<1> QED BY <1>3

\* The join of no sequences, and of one more.
LEMMA FlattenEmpty == FlattenSeq(<<>>) = <<>>
BY DEF FlattenSeq

LEMMA FlattenMore ==
  ASSUME NEW S, NEW p \in Seq(Seq(S)), NEW x \in Seq(S)
  PROVE  FlattenSeq(Append(p, x)) = FlattenSeq(p) \o x
<1> DEFINE q == Append(p, x)
<1>1. q \in Seq(Seq(S)) /\ Len(q) = Len(p) + 1 /\ Len(p) \in Nat
      /\ (\A k \in 1 .. Len(p) : q[k] = p[k]) /\ q[Len(p) + 1] = x
  OBVIOUS
<1> HIDE DEF q
<1>2. PICK f : Joins(f, S, p) /\ FlattenSeq(p) = f[Len(p)]
  BY FlattenJoins
<1>3. PICK g : Joins(g, S, q) /\ FlattenSeq(q) = g[Len(q)]
  BY <1>1, FlattenJoins
<1>4. g[Len(p)] = f[Len(p)]
  <2>1. \A k \in 0 .. Len(p) : g[k] = f[k]
    <3>1. Len(p) \in Nat /\ Len(q) \in Nat /\ Len(p) <= Len(q)
      BY <1>1
    <3>2. Joins(f, S, p) /\ Joins(g, S, q) /\ \A k \in 1 .. Len(p) : q[k] = p[k]
      BY <1>1, <1>2, <1>3
    <3> QED BY ONLY <3>1, <3>2, JoinsUnique
  <2> QED BY <1>1, <2>1
<1>5. g[Len(q)] = g[Len(p)] \o x
  <2>1. Len(q) \in 1 .. Len(q) /\ Len(q) - 1 = Len(p)
    BY <1>1
  <2>2. g[Len(q)] = g[Len(q) - 1] \o q[Len(q)]
    BY <1>3, <2>1 DEF Joins
  <2> QED BY <1>1, <2>1, <2>2
<1> QED BY <1>2, <1>3, <1>4, <1>5 DEF q

LEMMA FlattenTyped ==
  ASSUME NEW S, NEW p \in Seq(Seq(S))
  PROVE  FlattenSeq(p) \in Seq(S) /\ Len(FlattenSeq(p)) \in Nat
<1>1. PICK f : Joins(f, S, p) /\ FlattenSeq(p) = f[Len(p)]
  BY FlattenJoins
<1>2. f[Len(p)] \in Seq(S)
  <2>1. Len(p) \in 0 .. Len(p)
    OBVIOUS
  <2> QED BY <1>1, <2>1 DEF Joins
<1> QED BY <1>1, <1>2

LEMMA FlattenJoined ==
  ASSUME NEW S, NEW p \in Seq(Seq(S)), NEW q \in Seq(Seq(S))
  PROVE  FlattenSeq(p \o q) = FlattenSeq(p) \o FlattenSeq(q)
<1> DEFINE n == Len(q)
           b(k) == SubSeq(q, 1, k)
           T == {k \in Nat : k <= n => FlattenSeq(p \o b(k)) = FlattenSeq(p) \o FlattenSeq(b(k))}
<1>1. n \in Nat
  OBVIOUS
<1>2. 0 \in T
  <2>1. b(0) = <<>> /\ p \o b(0) = p
    OBVIOUS
  <2>2. FlattenSeq(p) \in Seq(S)
    BY FlattenTyped
  <2>3. FlattenSeq(p) \o <<>> = FlattenSeq(p)
    BY ONLY <2>2
  <2> QED BY <2>1, <2>3, FlattenEmpty
<1>3. ASSUME NEW k \in Nat, k \in T, k + 1 <= n
      PROVE  FlattenSeq(p \o b(k + 1)) = FlattenSeq(p) \o FlattenSeq(b(k + 1))
  <2> DEFINE x == q[k + 1]
             c == b(k)
             e == p \o c
  <2>1. c \in Seq(Seq(S)) /\ x \in Seq(S) /\ b(k + 1) = Append(c, x)
    BY <1>1, <1>3
  <2>2. p \o Append(c, x) = Append(e, x) /\ e \in Seq(Seq(S))
    <3> HIDE DEF c, x
    <3> QED BY SMTT(20), <2>1
  <2>3. FlattenSeq(e) = FlattenSeq(p) \o FlattenSeq(c)
    BY <1>1, <1>3
  <2> HIDE DEF e, c, x, b
  <2>4. FlattenSeq(Append(e, x)) = FlattenSeq(e) \o x
    BY ONLY <2>1, <2>2, FlattenMore
  <2>5. FlattenSeq(Append(c, x)) = FlattenSeq(c) \o x
    BY ONLY <2>1, FlattenMore
  <2>6. FlattenSeq(p) \in Seq(S) /\ FlattenSeq(c) \in Seq(S)
    BY <2>1, FlattenTyped
  <2> DEFINE fp == FlattenSeq(p)
             fc == FlattenSeq(c)
  <2> HIDE DEF fp, fc
  <2>7. (fp \o fc) \o x = fp \o (fc \o x)
    BY ONLY SMTT(20), <2>1, <2>6 DEF fp, fc
  <2> QED BY <2>1, <2>2, <2>3, <2>4, <2>5, <2>7 DEF fp, fc
<1>4. n \in T
  <2>1. ASSUME NEW k \in Nat, k \in T
        PROVE  k + 1 \in T
    <3>1. CASE k + 1 <= n
      <4>1. FlattenSeq(p \o b(k + 1)) = FlattenSeq(p) \o FlattenSeq(b(k + 1))
        BY <1>3, <2>1, <3>1
      <4> HIDE DEF b
      <4> QED BY <4>1
    <3>2. CASE ~ (k + 1 <= n)
      <4> HIDE DEF b
      <4> QED BY <3>2
    <3> HIDE DEF T
    <3> QED BY <3>1, <3>2
  <2> HIDE DEF T
  <2>2. \A k \in Nat : k \in T
    BY ONLY <1>2, <2>1, Inductively
  <2> QED BY <1>1, <2>2
<1>5. b(n) = q
  OBVIOUS
<1> HIDE DEF b
<1>6. FlattenSeq(p \o b(n)) = FlattenSeq(p) \o FlattenSeq(b(n))
  BY <1>1, <1>4
<1> QED BY <1>5, <1>6

-----------------------------------------------------------------------------
(* Slices and joins of sequences.                                           *)

(* One element more of a sequence.                                          *)
LEMMA SubSeqStep ==
  ASSUME NEW S, NEW s \in Seq(S), NEW n \in Nat, n < Len(s)
  PROVE  /\ Append(SubSeq(s, 1, n), s[n + 1]) = SubSeq(s, 1, n + 1)
         /\ SubSeq(s, 1, n) \o <<s[n + 1]>> = SubSeq(s, 1, n + 1)
  OBVIOUS

(* All of a sequence, and nothing of it.                                     *)
LEMMA SubSeqWhole ==
  ASSUME NEW S, NEW s \in Seq(S)
  PROVE  SubSeq(s, 1, Len(s)) = s /\ SubSeq(s, 1, 0) = <<>>
  OBVIOUS

(* The first n elements are a prefix.                                        *)
LEMMA SubSeqIsPrefix ==
  ASSUME NEW S, NEW s \in Seq(S), NEW n \in 0 .. Len(s)
  PROVE  IsPrefix(SubSeq(s, 1, n), s)
  BY DEF IsPrefix

(* A sequence that is not empty has a first element.                         *)
LEMMA NotEmpty ==
  ASSUME NEW S, NEW s \in Seq(S), s # <<>>
  PROVE  Len(s) \in Nat \ {0}
  OBVIOUS

(* A slice with one element more; with none.                                 *)
LEMMA SliceMore ==
  ASSUME NEW S, NEW s \in Seq(S), NEW a \in Nat, NEW m \in Nat, a <= m, m < Len(s)
  PROVE  /\ SubSeq(s, a + 1, m + 1) = Append(SubSeq(s, a + 1, m), s[m + 1])
         /\ SubSeq(s, a + 1, m) \in Seq(S) /\ s[m + 1] \in S
<1> DEFINE b == a + 1
<1>1. b \in Nat \ {0} /\ b <= m + 1
  OBVIOUS
<1> HIDE DEF b
<1>2. SubSeq(s, b, m + 1) = Append(SubSeq(s, b, m), s[m + 1]) /\ SubSeq(s, b, m) \in Seq(S) /\ s[m + 1] \in S
  BY <1>1
<1> QED BY <1>2 DEF b

LEMMA SliceEmpty ==
  ASSUME NEW S, NEW s \in Seq(S), NEW a \in Nat
  PROVE  SubSeq(s, a + 1, a) = <<>>
  OBVIOUS

(* The whole of a sequence is a slice of it.                                 *)
LEMMA WholeSlice ==
  ASSUME NEW S, NEW s \in Seq(S)
  PROVE  SubSeq(s, 1, Len(s)) = s /\ <<>> \o s = s
  OBVIOUS

LEMMA FirstOne ==
  ASSUME NEW S, NEW s \in Seq(S), NEW m \in Nat, m + 1 \in 1 .. Len(s)
  PROVE  SubSeq(s, m + 1, m + 1) = Append(<<>>, s[m + 1])
<1>1. SubSeq(s, m + 1, m) = <<>>
  BY SliceEmpty
<1>2. m < Len(s)
  OBVIOUS
<1>3. SubSeq(s, m + 1, m + 1) = Append(SubSeq(s, m + 1, m), s[m + 1])
  BY <1>2, SliceMore
<1> QED BY <1>1, <1>3

(* A sequence of two.                                                        *)
LEMMA TwoInRow ==
  ASSUME NEW S, NEW x \in Seq(S), NEW y \in Seq(S), NEW z \in Seq(S), Len(x) = 1, Len(y) = 1, Len(z) = 2,
         z[1] = x[1], z[2] = y[1]
  PROVE  z = x \o y
<1>1. /\ x \o y \in Seq(S) /\ Len(x \o y) = 2
      /\ \A i \in 1 .. 1 : (x \o y)[i] = x[i]
      /\ \A i \in 1 .. 1 : (x \o y)[1 + i] = y[i]
  BY SeqJoined
<1> DEFINE w == x \o y
<1> HIDE DEF w
<1>2. w[1] = x[1] /\ w[2] = y[1] /\ w \in Seq(S) /\ Len(w) = 2
  BY <1>1 DEF w
<1>3. \A i \in 1 .. 2 : z[i] = w[i]
  <2>1. \A i \in 1 .. 2 : i = 1 \/ i = 2
    OBVIOUS
  <2> QED BY <1>2, <2>1
<1>4. z = w
  BY <1>2, <1>3, SeqSame
<1> QED BY <1>4 DEF w

LEMMA Pair ==
  ASSUME NEW S, NEW a \in S, NEW b \in S
  PROVE  <<a, b>> = <<a>> \o <<b>>
<1>1. /\ <<a>> \in Seq(S) /\ <<b>> \in Seq(S) /\ <<a, b>> \in Seq(S)
      /\ Len(<<a>>) = 1 /\ Len(<<b>>) = 1 /\ Len(<<a, b>>) = 2
      /\ <<a, b>>[1] = <<a>>[1] /\ <<a, b>>[2] = <<b>>[1]
  OBVIOUS
<1> QED BY ONLY <1>1, TwoInRow

(* A function on 1 .. n is a sequence.                                       *)
LEMMA SeqFromFunction ==
  ASSUME NEW S, NEW n \in Nat, NEW f, f \in [1 .. n -> S]
  PROVE  f \in Seq(S) /\ Len(f) = n
  OBVIOUS

\* The length of the first k sequences of p, joined.
Upto(p, k) == Len(FlattenSeq(SubSeq(p, 1, k)))

(* A join, around its k-th sequence.                                         *)
LEMMA FlattenSplit ==
  ASSUME NEW S, NEW p \in Seq(Seq(S)), NEW k \in 1 .. Len(p)
  PROVE  /\ FlattenSeq(SubSeq(p, 1, k - 1)) \in Seq(S) /\ p[k] \in Seq(S)
         /\ FlattenSeq(SubSeq(p, k + 1, Len(p))) \in Seq(S)
         /\ FlattenSeq(SubSeq(p, 1, k)) = FlattenSeq(SubSeq(p, 1, k - 1)) \o p[k]
         /\ FlattenSeq(p) = FlattenSeq(SubSeq(p, 1, k)) \o FlattenSeq(SubSeq(p, k + 1, Len(p)))
<1> DEFINE a == SubSeq(p, 1, k - 1)
           b == SubSeq(p, 1, k)
           c == SubSeq(p, k + 1, Len(p))
<1>1. a \in Seq(Seq(S)) /\ b \in Seq(Seq(S)) /\ c \in Seq(Seq(S)) /\ p[k] \in Seq(S)
  OBVIOUS
<1>2. b = Append(a, p[k])
  OBVIOUS
<1>3. b \o c = p
  <2>1. SubSeq(p, 1, k) \o SubSeq(p, k + 1, Len(p)) = SubSeq(p, 1, Len(p))
    <3>1. k \in Nat /\ 1 <= k + 1 /\ k <= Len(p) /\ Len(p) \in Nat
      OBVIOUS
    <3> QED BY <3>1, SeqSlicesMeet
  <2> QED BY <2>1
<1> HIDE DEF a, b, c
<1>4. FlattenSeq(b) = FlattenSeq(a) \o p[k]
  BY <1>1, <1>2, FlattenMore
<1>5. FlattenSeq(p) = FlattenSeq(b) \o FlattenSeq(c)
  BY <1>1, <1>3, FlattenJoined
<1>6. FlattenSeq(a) \in Seq(S) /\ FlattenSeq(c) \in Seq(S)
  BY <1>1, FlattenTyped
<1> QED BY <1>1, <1>4, <1>5, <1>6 DEF a, b, c

(* One sequence more is its length more.                                     *)
LEMMA UptoFacts ==
  ASSUME NEW S, NEW p \in Seq(Seq(S))
  PROVE  /\ Upto(p, 0) = 0 /\ Upto(p, Len(p)) = Len(FlattenSeq(p))
         /\ \A k \in 0 .. Len(p) : Upto(p, k) \in Nat
         /\ \A k \in 1 .. Len(p) : Upto(p, k) = Upto(p, k - 1) + Len(p[k])
<1>1. Upto(p, 0) = 0
  <2>1. SubSeq(p, 1, 0) = <<>> /\ Len(<<>>) = 0
    OBVIOUS
  <2> QED BY ONLY <2>1, FlattenEmpty DEF Upto
<1>2. Upto(p, Len(p)) = Len(FlattenSeq(p))
  <2>1. SubSeq(p, 1, Len(p)) = p
    OBVIOUS
  <2> QED BY <2>1 DEF Upto
<1>3. ASSUME NEW k \in 0 .. Len(p) PROVE Upto(p, k) \in Nat
  <2>1. SubSeq(p, 1, k) \in Seq(Seq(S))
    OBVIOUS
  <2> QED BY <2>1, FlattenTyped DEF Upto
<1>4. ASSUME NEW k \in 1 .. Len(p) PROVE Upto(p, k) = Upto(p, k - 1) + Len(p[k])
  <2> DEFINE a == FlattenSeq(SubSeq(p, 1, k - 1))
  <2>1. FlattenSeq(SubSeq(p, 1, k)) = a \o p[k] /\ a \in Seq(S) /\ p[k] \in Seq(S)
    BY FlattenSplit
  <2> HIDE DEF a
  <2>2. Len(a \o p[k]) = Len(a) + Len(p[k])
    BY <2>1
  <2> QED BY <2>1, <2>2 DEF Upto, a
<1> QED BY <1>1, <1>2, <1>3, <1>4

LEMMA UptoRises ==
  ASSUME NEW S, NEW p \in Seq(Seq(S)), NEW i \in 0 .. Len(p), NEW j \in 0 .. Len(p), i <= j
  PROVE  Upto(p, i) <= Upto(p, j)
<1> DEFINE T == {k \in Nat : k <= Len(p) /\ i <= k => Upto(p, i) <= Upto(p, k)}
<1>0. Len(p) \in Nat /\ \A k \in 0 .. Len(p) : Upto(p, k) \in Nat
  BY UptoFacts
<1>1. 0 \in T
  BY <1>0
<1>2. ASSUME NEW k \in Nat, k \in T PROVE k + 1 \in T
  <2> SUFFICES ASSUME k + 1 <= Len(p), i <= k + 1 PROVE Upto(p, i) <= Upto(p, k + 1)
    OBVIOUS
  <2>1. CASE i = k + 1
    BY <1>0, <2>1
  <2>2. CASE i # k + 1
    <3>1. k \in 0 .. Len(p) /\ k + 1 \in 1 .. Len(p) /\ (k + 1) - 1 = k /\ i <= k
      BY <2>2
    <3>2. Upto(p, i) <= Upto(p, k)
      BY <1>2, <3>1
    <3>3. Upto(p, k + 1) = Upto(p, k) + Len(p[k + 1])
      BY <3>1, UptoFacts
    <3>4. p[k + 1] \in Seq(S)
      BY <3>1
    <3>5. Len(p[k + 1]) \in Nat
      BY <3>4
    <3> QED BY <1>0, <3>1, <3>2, <3>3, <3>5
  <2> QED BY <2>1, <2>2
<1> HIDE DEF T
<1>3. \A k \in Nat : k \in T
  BY <1>1, <1>2, Inductively
<1>4. j \in T
  BY <1>3
<1> QED BY <1>4 DEF T

(* It depends on the lengths alone.                                          *)
LEMMA UptoSame ==
  ASSUME NEW S, NEW p \in Seq(Seq(S)), NEW R, NEW q \in Seq(Seq(R)), Len(p) = Len(q),
         \A k \in 1 .. Len(p) : Len(p[k]) = Len(q[k])
  PROVE  \A k \in 0 .. Len(p) : Upto(p, k) = Upto(q, k)
<1> DEFINE T == {k \in Nat : k <= Len(p) => Upto(p, k) = Upto(q, k)}
<1>1. 0 \in T
  BY UptoFacts
<1>2. ASSUME NEW k \in Nat, k \in T PROVE k + 1 \in T
  <2> SUFFICES ASSUME k + 1 <= Len(p) PROVE Upto(p, k + 1) = Upto(q, k + 1)
    OBVIOUS
  <2>1. k + 1 \in 1 .. Len(p) /\ (k + 1) - 1 = k /\ k <= Len(p)
    OBVIOUS
  <2>2. Upto(p, k + 1) = Upto(p, k) + Len(p[k + 1]) /\ Upto(q, k + 1) = Upto(q, k) + Len(q[k + 1])
    BY <2>1, UptoFacts
  <2> QED BY <1>2, <2>1, <2>2
<1> HIDE DEF T
<1>3. \A k \in Nat : k \in T
  BY <1>1, <1>2, Inductively
<1> QED BY <1>3 DEF T

(* Where the elements of the k-th sequence are in the join.                  *)
LEMMA FlattenAt ==
  ASSUME NEW S, NEW p \in Seq(Seq(S)), NEW k \in 1 .. Len(p)
  PROVE  /\ Upto(p, k - 1) \in Nat /\ Upto(p, k) \in Nat
         /\ Upto(p, k) = Upto(p, k - 1) + Len(p[k]) /\ Upto(p, k) <= Len(FlattenSeq(p))
         /\ Len(p[k]) \in Nat
         /\ \A j \in 1 .. Len(p[k]) : FlattenSeq(p)[Upto(p, k - 1) + j] = p[k][j]
         /\ SubSeq(FlattenSeq(p), Upto(p, k - 1) + 1, Upto(p, k)) = p[k]
<1> DEFINE a == FlattenSeq(SubSeq(p, 1, k - 1))
           b == FlattenSeq(SubSeq(p, 1, k))
           c == FlattenSeq(SubSeq(p, k + 1, Len(p)))
           x == p[k]
           w == FlattenSeq(p)
           n == Upto(p, k - 1)
           m == Upto(p, k)
<1>1. a \in Seq(S) /\ x \in Seq(S) /\ c \in Seq(S) /\ b = a \o x /\ w = b \o c
  BY FlattenSplit
<1>2. n = Len(a) /\ m = Len(b)
  BY DEF Upto
<1> HIDE DEF a, b, c, x, w, n, m
<1>3. /\ b \in Seq(S) /\ Len(b) = Len(a) + Len(x) /\ Len(a) \in Nat /\ Len(x) \in Nat
      /\ \A j \in 1 .. Len(x) : b[Len(a) + j] = x[j]
  BY <1>1, SeqJoined
<1>4. /\ w \in Seq(S) /\ Len(w) = Len(b) + Len(c) /\ Len(c) \in Nat
      /\ \A j \in 1 .. Len(b) : w[j] = b[j]
  BY <1>1, <1>3, SeqJoined
<1>5. ASSUME NEW j \in 1 .. Len(x) PROVE w[n + j] = x[j]
  <2>1. Len(a) + j \in 1 .. Len(b)
    BY <1>3
  <2> QED BY <1>2, <1>3, <1>4, <2>1
<1>6. SubSeq(w, n + 1, m) = x
  <2> DEFINE i == n + 1
             v == SubSeq(w, i, m)
  <2>1. i \in Nat /\ m \in Nat /\ 1 <= i /\ i <= m + 1 /\ m <= Len(w) /\ m - i + 1 = Len(x)
        /\ \A j \in Nat : i + j - 1 = n + j
    BY <1>2, <1>3, <1>4
  <2> HIDE DEF i
  <2>2. /\ v \in Seq(S) /\ Len(v) = m - i + 1
        /\ \A j \in 1 .. m - i + 1 : v[j] = w[i + j - 1]
    <3>1. w \in Seq(S)
      BY <1>4
    <3> QED BY ONLY <3>1, <2>1, SeqSlice
  <2> HIDE DEF v
  <2>3. Len(v) = Len(x) /\ \A j \in 1 .. Len(v) : v[j] = x[j]
    <3>1. ASSUME NEW j \in 1 .. Len(x) PROVE v[j] = w[n + j]
      <4>1. j \in Nat /\ j \in 1 .. m - i + 1
        BY <1>3, <2>1
      <4>2. v[j] = w[i + j - 1] /\ i + j - 1 = n + j
        BY <2>1, <2>2, <4>1
      <4> QED BY <4>2
    <3> QED BY <1>5, <2>1, <2>2, <3>1
  <2>4. v = x
    BY <1>1, <2>2, <2>3, SeqSame
  <2> QED BY <2>4 DEF v, i
<1>7. n \in Nat /\ m \in Nat /\ m = n + Len(x) /\ m <= Len(w) /\ Len(x) \in Nat
  BY <1>2, <1>3, <1>4
<1> QED BY <1>5, <1>6, <1>7 DEF x, w, n, m

(* Every place of a join is in one of the sequences.                         *)
LEMMA FlattenFind ==
  ASSUME NEW S, NEW p \in Seq(Seq(S)), NEW i \in 1 .. Len(FlattenSeq(p))
  PROVE  \E k \in 1 .. Len(p) : \E j \in 1 .. Len(p[k]) : i = Upto(p, k - 1) + j
<1> DEFINE T == {k \in Nat : k <= Len(p) /\ i <= Upto(p, k)}
<1>0. /\ Len(p) \in Nat /\ Upto(p, 0) = 0 /\ Upto(p, Len(p)) = Len(FlattenSeq(p))
      /\ \A k \in 0 .. Len(p) : Upto(p, k) \in Nat
  BY UptoFacts
<1>1. i \in Nat \ {0}
  BY <1>0
<1>2. Len(p) \in T
  BY <1>0
<1>3. PICK k \in T : \A m \in T : k <= m
  <2>1. T \subseteq Nat /\ T # {}
    BY <1>2
  <2> HIDE DEF T
  <2> QED BY <2>1, LeastNumber
<1>4. k # 0 /\ k \in 1 .. Len(p) /\ k - 1 \in 0 .. Len(p)
  BY <1>0, <1>1
<1>5. Upto(p, k - 1) < i
  <2>1. k - 1 \notin T
    <3> HIDE DEF T
    <3>1. k \in Nat /\ ~ (k <= k - 1)
      BY <1>4
    <3> QED BY <1>3, <3>1
  <2> QED BY <1>0, <1>1, <1>4, <2>1
<1>6. Upto(p, k) = Upto(p, k - 1) + Len(p[k]) /\ Upto(p, k - 1) \in Nat /\ Len(p[k]) \in Nat
  BY <1>4, FlattenAt
<1> DEFINE j == i - Upto(p, k - 1)
<1>7. j \in 1 .. Len(p[k]) /\ i = Upto(p, k - 1) + j
  BY <1>1, <1>5, <1>6
<1> QED BY <1>4, <1>7

\* O with its i-th element taken out or doubled.
Altered(F, O, i) == F = RemoveAt(O, i) \/ F = InsertAt(O, i, O[i])

\* Two sequences, one after the other; the first r elements of one, and the others.
Glue(x, y) == x \o y
Lower(s, r) == SubSeq(s, 1, r)
Upper(s, r) == SubSeq(s, r + 1, Len(s))

LEMMA GlueFacts ==
  ASSUME NEW S, NEW x \in Seq(S), NEW y \in Seq(S)
  PROVE  /\ Glue(x, y) \in Seq(S) /\ Len(Glue(x, y)) = Len(x) + Len(y)
         /\ \A k \in 1 .. Len(x) : Glue(x, y)[k] = x[k]
         /\ \A k \in Len(x) + 1 .. Len(x) + Len(y) : Glue(x, y)[k] = y[k - Len(x)]
         /\ Len(x) \in Nat /\ Len(y) \in Nat
  BY DEF Glue

LEMMA GlueIs ==
  ASSUME NEW S, NEW x \in Seq(S), NEW y \in Seq(S), NEW s \in Seq(S), Len(s) = Len(x) + Len(y),
         \A k \in 1 .. Len(x) : s[k] = x[k],
         \A k \in Len(x) + 1 .. Len(x) + Len(y) : s[k] = y[k - Len(x)]
  PROVE  s = Glue(x, y)
<1> DEFINE g == Glue(x, y)
<1>1. /\ g \in Seq(S) /\ Len(g) = Len(x) + Len(y)
      /\ \A k \in 1 .. Len(x) : g[k] = x[k]
      /\ \A k \in Len(x) + 1 .. Len(x) + Len(y) : g[k] = y[k - Len(x)]
      /\ Len(x) \in Nat /\ Len(y) \in Nat
  BY GlueFacts
<1> HIDE DEF g
<1>2. \A k \in 1 .. Len(s) : s[k] = g[k]
  <2> TAKE k \in 1 .. Len(s)
  <2>1. k \in 1 .. Len(x) \/ k \in Len(x) + 1 .. Len(x) + Len(y)
    BY <1>1
  <2> QED BY <1>1, <2>1
<1>3. s = g
  BY <1>1, <1>2, SeqSame
<1> QED BY <1>3 DEF g

LEMMA GlueAssociates ==
  ASSUME NEW S, NEW x \in Seq(S), NEW y \in Seq(S), NEW z \in Seq(S)
  PROVE  Glue(Glue(x, y), z) = Glue(x, Glue(y, z))
  BY DEF Glue

LEMMA SliceFacts ==
  ASSUME NEW S, NEW s \in Seq(S), NEW r, r \in 0 .. Len(s)
  PROVE  /\ Lower(s, r) \in Seq(S) /\ Upper(s, r) \in Seq(S)
         /\ Len(Lower(s, r)) = r /\ Len(Upper(s, r)) = Len(s) - r
         /\ r \in Nat /\ Len(s) \in Nat /\ r <= Len(s)
         /\ \A k \in 1 .. r : Lower(s, r)[k] = s[k]
         /\ \A k \in 1 .. Len(s) - r : Upper(s, r)[k] = s[r + k]
<1> DEFINE n == Len(s)
           a == SubSeq(s, 1, r)
           b == SubSeq(s, r + 1, n)
<1>1. r \in Nat /\ n \in Nat /\ r <= n /\ r + 1 \in Nat /\ n <= Len(s)
  OBVIOUS
<1>2. a \in Seq(S) /\ Len(a) = r /\ \A k \in 1 .. r : a[k] = s[k]
  <2>1. a \in Seq(S) /\ Len(a) = r - 1 + 1 /\ \A k \in 1 .. r - 1 + 1 : a[k] = s[1 + k - 1]
    BY <1>1, SeqSlice
  <2> HIDE DEF a
  <2> QED BY <1>1, <2>1
<1>3. b \in Seq(S) /\ Len(b) = n - r /\ \A k \in 1 .. n - r : b[k] = s[r + k]
  <2>1. b \in Seq(S) /\ Len(b) = n - (r + 1) + 1 /\ \A k \in 1 .. n - (r + 1) + 1 : b[k] = s[(r + 1) + k - 1]
    <3> HIDE DEF n
    <3> QED BY <1>1, SeqSlice
  <2> HIDE DEF b, n
  <2>2. n - (r + 1) + 1 = n - r /\ \A k \in 1 .. n - r : (r + 1) + k - 1 = r + k
    BY <1>1
  <2> QED BY <2>1, <2>2
<1> HIDE DEF a, b
<1> QED BY <1>1, <1>2, <1>3 DEF Lower, Upper, a, b

(* Cut and joined again.                                                     *)
LEMMA GlueOfSlices ==
  ASSUME NEW S, NEW s \in Seq(S), NEW r, r \in 0 .. Len(s)
  PROVE  Glue(Lower(s, r), Upper(s, r)) = s
<1> DEFINE a == Lower(s, r)
           b == Upper(s, r)
<1>1. /\ a \in Seq(S) /\ b \in Seq(S) /\ Len(a) = r /\ Len(b) = Len(s) - r
      /\ r \in Nat /\ Len(s) \in Nat /\ r <= Len(s)
      /\ \A k \in 1 .. r : a[k] = s[k]
      /\ \A k \in 1 .. Len(s) - r : b[k] = s[r + k]
  BY SliceFacts
<1> HIDE DEF a, b
<1>2. Len(s) = Len(a) + Len(b)
  BY <1>1
<1>3. \A k \in Len(a) + 1 .. Len(a) + Len(b) : s[k] = b[k - Len(a)]
  <2> TAKE k \in Len(a) + 1 .. Len(a) + Len(b)
  <2>1. k - r \in 1 .. Len(s) - r /\ r + (k - r) = k
    BY <1>1
  <2> QED BY <1>1, <2>1
<1>4. \A k \in 1 .. Len(a) : s[k] = a[k]
  BY <1>1
<1>5. s = Glue(a, b)
  BY <1>1, <1>2, <1>3, <1>4, GlueIs
<1> QED BY <1>5 DEF a, b

LEMMA SlicesOfGlue ==
  ASSUME NEW S, NEW x \in Seq(S), NEW y \in Seq(S)
  PROVE  Lower(Glue(x, y), Len(x)) = x /\ Upper(Glue(x, y), Len(x)) = y
<1> DEFINE g == Glue(x, y)
           l == Len(x)
           a == Lower(g, l)
           b == Upper(g, l)
<1>1. /\ g \in Seq(S) /\ Len(g) = l + Len(y)
      /\ \A k \in 1 .. l : g[k] = x[k]
      /\ \A k \in l + 1 .. l + Len(y) : g[k] = y[k - l]
      /\ l \in Nat /\ Len(y) \in Nat
  BY GlueFacts
<1> HIDE DEF g, l
<1>2. l \in 0 .. Len(g)
  BY <1>1
<1>3. /\ a \in Seq(S) /\ b \in Seq(S) /\ Len(a) = l /\ Len(b) = Len(g) - l
      /\ l \in Nat /\ Len(g) \in Nat /\ l <= Len(g)
      /\ \A k \in 1 .. l : a[k] = g[k]
      /\ \A k \in 1 .. Len(g) - l : b[k] = g[l + k]
  <2>1. g \in Seq(S)
    BY <1>1
  <2>2. a \in Seq(S) /\ b \in Seq(S) /\ Len(a) = l /\ Len(b) = Len(g) - l
    BY ONLY <1>2, <2>1, SliceFacts
  <2>3. \A k \in 1 .. l : a[k] = g[k]
    BY ONLY <1>2, <2>1, SliceFacts
  <2>4. \A k \in 1 .. Len(g) - l : b[k] = g[l + k]
    BY ONLY <1>2, <2>1, SliceFacts
  <2> QED BY <1>1, <2>2, <2>3, <2>4
<1> HIDE DEF a, b
<1>4. Len(g) - l = Len(y)
  BY <1>1
<1>5. a = x
  <2>1. Len(a) = Len(x) /\ \A k \in 1 .. Len(a) : a[k] = x[k]
    BY <1>1, <1>3 DEF l
  <2> QED BY <1>3, <2>1, SeqSame
<1>6. b = y
  <2>1. Len(b) = Len(y) /\ \A k \in 1 .. Len(b) : b[k] = y[k]
    <3>1. \A k \in 1 .. Len(y) : l + k \in l + 1 .. l + Len(y) /\ (l + k) - l = k
      BY <1>1
    <3> QED BY <1>1, <1>3, <1>4, <3>1
  <2> QED BY <1>3, <2>1, SeqSame
<1> QED BY <1>5, <1>6 DEF a, b, g, l

(* Cut inside the second of three.                                           *)
LEMMA SlicesOfJoin ==
  ASSUME NEW S, NEW x \in Seq(S), NEW y \in Seq(S), NEW z \in Seq(S), NEW r, r \in 0 .. Len(y)
  PROVE  LET o == Glue(Glue(x, y), z)
         IN  /\ Lower(o, Len(x) + r) = Glue(x, Lower(y, r))
             /\ Upper(o, Len(x) + r) = Glue(Upper(y, r), z)
<1> DEFINE a == Lower(y, r)
           b == Upper(y, r)
           p == Glue(x, a)
           w == Glue(b, z)
<1>1. a \in Seq(S) /\ b \in Seq(S) /\ Glue(a, b) = y /\ Len(a) = r
  BY SliceFacts, GlueOfSlices
<1> HIDE DEF a, b
<1>2. p \in Seq(S) /\ w \in Seq(S) /\ Len(p) = Len(x) + r
  BY <1>1, GlueFacts
<1>3. Glue(Glue(x, y), z) = Glue(p, w)
  <2>1. Glue(x, y) = Glue(p, b)
    BY <1>1, GlueAssociates
  <2> HIDE DEF p
  <2> QED BY <1>1, <1>2, <2>1, GlueAssociates
<1> HIDE DEF p, w
<1>4. Lower(Glue(p, w), Len(p)) = p /\ Upper(Glue(p, w), Len(p)) = w
  BY <1>2, SlicesOfGlue
<1> QED BY <1>2, <1>3, <1>4 DEF p, w, a, b

\* F is x, z and between them elements of y.
Within3(S, F, x, y, z) ==
    \E w \in Seq(S) : /\ F = Glue(Glue(x, w), z)
                      /\ \A k \in 1 .. Len(w) : \E m \in 1 .. Len(y) : w[k] = y[m]

(* What is taken out of the second of three, or doubled, leaves the others alone.*)
LEMMA AlteredWithin ==
  ASSUME NEW S, NEW x \in Seq(S), NEW y \in Seq(S), NEW z \in Seq(S), NEW r, r \in 1 .. Len(y),
         NEW F, NEW i, i = Len(x) + r, Altered(F, Glue(Glue(x, y), z), i)
  PROVE  Within3(S, F, x, y, z)
<1> DEFINE xy == Glue(x, y)
           o == Glue(xy, z)
           h == r - 1
           a == Lower(y, h)
           b == Upper(y, r)
           bb == Upper(y, h)
           e == <<y[r]>>
           Of(w) == \A k \in 1 .. Len(w) : \E m \in 1 .. Len(y) : w[k] = y[m]
<1>1. Len(x) \in Nat /\ r \in Nat /\ Len(y) \in Nat /\ h \in 0 .. Len(y) /\ r \in 0 .. Len(y)
      /\ Len(x) + h = i - 1 /\ h + 1 = r /\ h \in Nat /\ 1 <= r /\ r <= Len(y) /\ (i - 1) + 1 = i
  OBVIOUS
<1> HIDE DEF h
<1>2. Lower(o, i - 1) = Glue(x, a) /\ Upper(o, i - 1) = Glue(bb, z)
  <2>1. Lower(o, Len(x) + h) = Glue(x, Lower(y, h)) /\ Upper(o, Len(x) + h) = Glue(Upper(y, h), z)
    BY <1>1, SlicesOfJoin
  <2> HIDE DEF o
  <2> QED BY <1>1, <2>1
<1>3. Upper(o, i) = Glue(b, z)
  <2>1. r \in 0 .. Len(y)
    BY <1>1
  <2>2. Upper(o, Len(x) + r) = Glue(b, z)
    BY ONLY x \in Seq(S), y \in Seq(S), z \in Seq(S), <2>1, SlicesOfJoin
  <2> HIDE DEF o
  <2> QED BY <2>2
<1>4. /\ a \in Seq(S) /\ Len(a) = h /\ bb \in Seq(S) /\ Len(bb) = Len(y) - h
      /\ \A k \in 1 .. h : a[k] = y[k]
      /\ \A k \in 1 .. Len(y) - h : bb[k] = y[h + k]
  BY <1>1, SliceFacts
<1>5. /\ b \in Seq(S) /\ Len(b) = Len(y) - r
      /\ \A k \in 1 .. Len(y) - r : b[k] = y[r + k]
  <2>1. r \in 0 .. Len(y)
    BY <1>1
  <2> QED BY ONLY y \in Seq(S), <2>1, SliceFacts
<1>6. e \in Seq(S) /\ Len(e) = 1 /\ e[1] = y[r]
  OBVIOUS
<1> HIDE DEF e
<1>7. o[i] = y[r]
  <2>1. /\ xy \in Seq(S) /\ Len(xy) = Len(x) + Len(y)
        /\ \A k \in Len(x) + 1 .. Len(x) + Len(y) : xy[k] = y[k - Len(x)]
    BY GlueFacts
  <2>2. i \in Len(x) + 1 .. Len(x) + Len(y) /\ i - Len(x) = r /\ i \in 1 .. Len(x) + Len(y)
    BY <1>1
  <2> HIDE DEF xy
  <2>3. \A k \in 1 .. Len(xy) : o[k] = xy[k]
    <3>1. xy \in Seq(S)
      BY <2>1
    <3> QED BY ONLY z \in Seq(S), <3>1, GlueFacts
  <2> HIDE DEF o
  <2> QED BY <2>1, <2>2, <2>3
<1> HIDE DEF a, b, bb
<1>8. Of(a) /\ Of(b) /\ Of(bb) /\ Of(e)
  <2>1. Of(a)
    <3>1. \A k \in 1 .. h : k \in 1 .. Len(y)
      BY <1>1
    <3> QED BY <1>4, <3>1
  <2>2. Of(b)
    <3>1. \A k \in 1 .. Len(y) - r : r + k \in 1 .. Len(y)
      BY <1>1
    <3> QED BY <1>5, <3>1
  <2>3. Of(bb)
    <3>1. \A k \in 1 .. Len(y) - h : h + k \in 1 .. Len(y)
      BY <1>1
    <3> QED BY <1>4, <3>1
  <2>4. Of(e)
    <3> SUFFICES ASSUME NEW k \in 1 .. Len(e) PROVE e[k] = y[r] /\ r \in 1 .. Len(y)
      OBVIOUS
    <3>1. k = 1
      BY <1>6
    <3> QED BY <1>6, <3>1
  <2> QED BY <2>1, <2>2, <2>3, <2>4
<1>9. ASSUME NEW v \in Seq(S), NEW w \in Seq(S), Of(v), Of(w)
      PROVE  Of(Glue(v, w)) /\ Glue(v, w) \in Seq(S)
  <2> DEFINE u == Glue(v, w)
  <2>1. /\ u \in Seq(S) /\ Len(u) = Len(v) + Len(w)
        /\ \A k \in 1 .. Len(v) : u[k] = v[k]
        /\ \A k \in Len(v) + 1 .. Len(v) + Len(w) : u[k] = w[k - Len(v)]
        /\ Len(v) \in Nat /\ Len(w) \in Nat
    BY GlueFacts
  <2> HIDE DEF u
  <2>2. Of(u)
    <3> SUFFICES ASSUME NEW k \in 1 .. Len(u) PROVE \E m \in 1 .. Len(y) : u[k] = y[m]
      OBVIOUS
    <3>1. CASE k \in 1 .. Len(v)
      BY <1>9, <2>1, <3>1
    <3>2. CASE k \in Len(v) + 1 .. Len(v) + Len(w)
      <4>1. k - Len(v) \in 1 .. Len(w) /\ u[k] = w[k - Len(v)]
        BY <2>1, <3>2
      <4> QED BY <1>9, <4>1
    <3> QED BY <2>1, <3>1, <3>2
  <2> QED BY <2>1, <2>2 DEF u
<1>10. ASSUME F = RemoveAt(o, i)
       PROVE  \E w \in Seq(S) : F = Glue(Glue(x, w), z) /\ Of(w)
  <2>1. F = Glue(Glue(x, a), Glue(b, z))
    <3>1. F = Glue(Lower(o, i - 1), Upper(o, i))
      BY ONLY <1>10 DEF RemoveAt, Glue, Lower, Upper
    <3> HIDE DEF o
    <3> QED BY <1>2, <1>3, <3>1
  <2> HIDE DEF o
  <2>2. Glue(x, a) \in Seq(S) /\ Of(Glue(a, b)) /\ Glue(a, b) \in Seq(S)
    BY <1>4, <1>5, <1>8, <1>9, GlueFacts
  <2> HIDE DEF Of
  <2>3. F = Glue(Glue(Glue(x, a), b), z)
    BY <1>5, <2>1, <2>2, GlueAssociates
  <2>4. F = Glue(Glue(x, Glue(a, b)), z)
    BY <1>4, <1>5, <2>3, GlueAssociates
  <2> QED BY <2>2, <2>4
<1>11. ASSUME F = InsertAt(o, i, o[i])
       PROVE  \E w \in Seq(S) : F = Glue(Glue(x, w), z) /\ Of(w)
  <2>1. F = Glue(Glue(Glue(x, a), e), Glue(bb, z))
    <3>1. F = Glue(Glue(Lower(o, i - 1), <<o[i]>>), Upper(o, i - 1))
      <4> HIDE DEF o
      <4>1. F = SubSeq(o, 1, i - 1) \o <<o[i]>> \o SubSeq(o, i, Len(o))
        BY ONLY <1>11 DEF InsertAt
      <4>2. SubSeq(o, i, Len(o)) = Upper(o, i - 1)
        BY <1>1 DEF Upper
      <4> QED BY ONLY <4>1, <4>2 DEF Glue, Lower
    <3> HIDE DEF o
    <3> QED BY <1>2, <1>7, <3>1 DEF e
  <2> HIDE DEF o
  <2>2. Glue(x, a) \in Seq(S) /\ Of(Glue(a, e)) /\ Glue(a, e) \in Seq(S)
    BY <1>4, <1>6, <1>8, <1>9, GlueFacts
  <2>3. Of(Glue(Glue(a, e), bb)) /\ Glue(Glue(a, e), bb) \in Seq(S) /\ Glue(Glue(x, a), e) \in Seq(S)
    BY <1>4, <1>6, <1>8, <1>9, <2>2, GlueFacts
  <2> HIDE DEF Of
  <2>4. F = Glue(Glue(Glue(Glue(x, a), e), bb), z)
    BY <1>4, <2>1, <2>3, GlueAssociates
  <2>5. Glue(Glue(x, a), e) = Glue(x, Glue(a, e))
    BY <1>4, <1>6, GlueAssociates
  <2>6. Glue(Glue(x, Glue(a, e)), bb) = Glue(x, Glue(Glue(a, e), bb))
    BY <1>4, <2>2, GlueAssociates
  <2> QED BY <2>3, <2>4, <2>5, <2>6
<1>12. F = RemoveAt(o, i) \/ F = InsertAt(o, i, o[i])
  BY DEF Altered
<1>13. \E w \in Seq(S) : F = Glue(Glue(x, w), z) /\ Of(w)
  BY <1>10, <1>11, <1>12
<1> QED BY <1>13 DEF Within3

(* The last element first.                                                   *)
LEMMA ReverseFacts ==
  ASSUME NEW S, NEW s \in Seq(S)
  PROVE  /\ Reverse(s) \in Seq(S) /\ Len(Reverse(s)) = Len(s) /\ Len(s) \in Nat
         /\ \A j \in 1 .. Len(s) : Reverse(s)[j] = s[(Len(s) - j) + 1]
<1>1. Len(s) \in Nat /\ \A j \in 1 .. Len(s) : (Len(s) - j) + 1 \in 1 .. Len(s)
  OBVIOUS
<1>2. Reverse(s) = [j \in 1 .. Len(s) |-> s[(Len(s) - j) + 1]]
  BY DEF Reverse
<1>3. Reverse(s) \in [1 .. Len(s) -> S]
  BY <1>1, <1>2
<1>4. Reverse(s) \in Seq(S) /\ Len(Reverse(s)) = Len(s)
  BY <1>1, <1>3
<1> QED BY <1>1, <1>2, <1>4

LEMMA LowerAt ==
  ASSUME NEW S, NEW s, s \in Seq(S), NEW r, r \in 0 .. Len(s)
  PROVE  \A k \in 1 .. r : Lower(s, r)[k] = s[k]
  BY SliceFacts

(* What remains of a sequence is a suffix of it.                              *)
LEMMA SuffixIs ==
  ASSUME NEW S, NEW s \in Seq(S), NEW r \in 0 .. Len(s)
  PROVE  IsSuffix(SubSeq(s, r + 1, Len(s)), s)
<1> DEFINE y == Upper(s, r)
           a == Reverse(y)
           b == Reverse(s)
           n == Len(s) - r
<1>1. r \in 0 .. Len(s)
  OBVIOUS
<1>2. y \in Seq(S) /\ Len(y) = n
  BY ONLY s \in Seq(S), <1>1, SliceFacts
<1>3. \A j \in 1 .. n : y[j] = s[r + j]
  BY ONLY s \in Seq(S), <1>1, SliceFacts
<1>4. n \in Nat /\ n <= Len(s) /\ Len(s) \in Nat /\ r \in Nat /\ n + r = Len(s) /\ n \in 0 .. Len(s) /\ n = Len(s) - r
  OBVIOUS
<1> HIDE DEF y, n
<1>5. a \in Seq(S) /\ Len(a) = n /\ \A j \in 1 .. n : a[j] = y[(n - j) + 1]
  <2>1. a \in Seq(S) /\ Len(a) = Len(y) /\ \A j \in 1 .. Len(y) : a[j] = y[(Len(y) - j) + 1]
    BY <1>2, ReverseFacts
  <2> HIDE DEF a
  <2> QED BY <1>2, <2>1
<1>6. b \in Seq(S) /\ Len(b) = Len(s) /\ \A j \in 1 .. Len(s) : b[j] = s[(Len(s) - j) + 1]
  BY ReverseFacts
<1> HIDE DEF a, b
<1>7. Lower(a, n) \in Seq(S) /\ Len(Lower(a, n)) = n /\ Lower(b, n) \in Seq(S) /\ Len(Lower(b, n)) = n
      /\ \A j \in 1 .. n : Lower(a, n)[j] = a[j] /\ Lower(b, n)[j] = b[j]
  <2>1. n \in 0 .. Len(a) /\ n \in 0 .. Len(b)
    BY <1>4, <1>5, <1>6
  <2>2. Lower(a, n) \in Seq(S) /\ Len(Lower(a, n)) = n
    BY ONLY <1>5, <2>1, SliceFacts
  <2>3. Lower(b, n) \in Seq(S) /\ Len(Lower(b, n)) = n
    BY ONLY <1>6, <2>1, SliceFacts
  <2>6. a \in Seq(S) /\ b \in Seq(S)
    BY <1>5, <1>6
  <2>4. \A j \in 1 .. n : Lower(a, n)[j] = a[j]
    BY ONLY <2>6, <2>1, LowerAt
  <2>5. \A j \in 1 .. n : Lower(b, n)[j] = b[j]
    BY ONLY <2>6, <2>1, LowerAt
  <2> QED BY ONLY <2>2, <2>3, <2>4, <2>5
<1>8. \A j \in 1 .. n : a[j] = b[j]
  <2> TAKE j \in 1 .. n
  <2>1. (n - j) + 1 \in 1 .. n /\ r + ((n - j) + 1) = (Len(s) - j) + 1 /\ j \in 1 .. Len(s)
    BY <1>4
  <2>2. y[(n - j) + 1] = s[r + ((n - j) + 1)]
    BY <1>3, <2>1
  <2> QED BY <1>5, <1>6, <2>1, <2>2
<1>9. Lower(a, n) = Lower(b, n)
  <2> DEFINE u == Lower(a, n)
             v == Lower(b, n)
  <2>1. u \in Seq(S) /\ v \in Seq(S) /\ Len(u) = Len(v) /\ Len(u) = n /\ \A j \in 1 .. n : u[j] = v[j]
    BY <1>7, <1>8
  <2> HIDE DEF u, v
  <2>2. u = v
    BY <2>1, SeqSame
  <2> QED BY <2>2 DEF u, v
<1>10. IsPrefix(a, b)
  BY <1>4, <1>5, <1>6, <1>9 DEF IsPrefix, Lower
<1>11. IsSuffix(y, s)
  BY <1>10 DEF IsSuffix, a, b
<1> QED BY <1>11 DEF y, Upper

(* How long the rest of a sequence is.                                       *)
LEMMA SuffixLen ==
  ASSUME NEW S, NEW s \in Seq(S), NEW r \in 0 .. Len(s)
  PROVE  Len(SubSeq(s, r + 1, Len(s))) = Len(s) - r /\ Len(s) \in Nat
<1>1. r \in 0 .. Len(s) /\ Len(s) \in Nat
  OBVIOUS
<1>2. Len(Upper(s, r)) = Len(s) - r
  BY ONLY s \in Seq(S), <1>1, SliceFacts
<1> QED BY <1>1, <1>2 DEF Upper
=============================================================================
