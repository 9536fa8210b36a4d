------------------------------ MODULE KeyProofs ------------------------------
(***************************************************************************)
(* Proofs about keys: the keystream and the integers drawn from it, and      *)
(* which key a command uses.                                                *)
(*                                                                         *)
(* Reads of any sizes, over blocks of any length, are given consecutive      *)
(* bytes; randbelow is unbiased; permutation shuffles a list of any length,  *)
(* and each arrangement of it is what one sequence of draws gives.           *)
(*                                                                         *)
(* For any secrets, identities, options at both ends and damage on the way,  *)
(* a file opens only under the key it was locked with and with its manifest  *)
(* as it was sent; what was given to lock, or the identity of any recipient, *)
(* opens it again, on the page and on the command line; and the labels of    *)
(* the recipients' entries do not matter.  The invariant remembers how the   *)
(* lock chose its key (Chosen), that damage touches the recipients' entries  *)
(* and nothing else (Arrived), and how the unlock came to its outcome        *)
(* (Decided).  Sealing and the order of trying are folds over lists of any   *)
(* length (SealEntries, OrderedTriesAll).                                    *)
(***************************************************************************)
EXTENDS Draws, KeyResolution, FiniteSetTheorems, DataInduction

(* Reading.  The invariant adds to the property which byte comes next: it      *)
(* follows the last one handed out, whether it is in the buffer or the first  *)
(* of a block not generated yet.                                              *)
NextByte == IF pos < len THEN [block |-> counter - 1, at |-> pos]
                         ELSE [block |-> counter, at |-> 0]

BufferIsBlock == IF len = 0 THEN counter = 0 ELSE counter > 0

NextFollows ==
    /\ handed = <<>> => NextByte = [block |-> 0, at |-> 0]
    /\ handed # <<>> => Follows(handed[Len(handed)], NextByte)

Inv == TypeOK /\ BufferIsBlock /\ ReadsAreContiguous /\ NextFollows

-----------------------------------------------------------------------------
\* The elements of two sequences put together.
LEMMA ConcatFacts ==
    ASSUME NEW S, NEW s \in Seq(S), NEW t \in Seq(S)
    PROVE  /\ s \o t \in Seq(S) /\ Len(s \o t) = Len(s) + Len(t)
           /\ Len(s) \in Nat /\ Len(t) \in Nat
           /\ \A k \in 1 .. Len(s) : (s \o t)[k] = s[k]
           /\ \A k \in 1 .. Len(t) : (s \o t)[Len(s) + k] = t[k]
OBVIOUS

\* Handing out n >= 1 bytes of the buffer keeps the history contiguous.
LEMMA HandOut ==
    ASSUME Inv, NEW n \in Nat, n >= 1, pos + n <= len,
           handed' = handed \o Buffered(n), pos' = pos + n,
           counter' = counter, len' = len
    PROVE  /\ handed' \in Seq([block : Nat, at : 0 .. BlockLen - 1])
           /\ pos' \in 0 .. len'
           /\ BufferIsBlock' /\ ReadsAreContiguous' /\ NextFollows'
<1> DEFINE B == [block : Nat, at : 0 .. BlockLen - 1]
<1>1. /\ counter \in Nat /\ pos \in Nat /\ len = BlockLen /\ BlockLen \in Nat
      /\ counter - 1 \in Nat /\ handed \in Seq(B)
    BY KeyStreamAssumption DEF Inv, TypeOK, BufferIsBlock
<1>2. \A k \in 1 .. n : pos + k - 1 \in 0 .. BlockLen - 1 BY <1>1
<1>3. Buffered(n) \in Seq(B) /\ Len(Buffered(n)) = n
    BY <1>1, <1>2 DEF Buffered
<1>4. \A k \in 1 .. n : Buffered(n)[k] = [block |-> counter - 1, at |-> pos + k - 1]
    BY DEF Buffered
<1>5. /\ handed' \in Seq(B) /\ Len(handed') = Len(handed) + n /\ Len(handed) \in Nat
      /\ \A k \in 1 .. Len(handed) : handed'[k] = handed[k]
      /\ \A k \in 1 .. n : handed'[Len(handed) + k] = Buffered(n)[k]
  <2> HIDE DEF B
  <2>1. handed' = handed \o Buffered(n) OBVIOUS
  <2>2. handed \in Seq(B) /\ Buffered(n) \in Seq(B) BY <1>1, <1>3
  <2>3. /\ handed' \in Seq(B) /\ Len(handed') = Len(handed) + Len(Buffered(n))
        /\ Len(handed) \in Nat
        /\ \A k \in 1 .. Len(handed) : handed'[k] = handed[k]
        /\ \A k \in 1 .. Len(Buffered(n)) : handed'[Len(handed) + k] = Buffered(n)[k]
    <3>1. /\ handed \o Buffered(n) \in Seq(B)
          /\ Len(handed \o Buffered(n)) = Len(handed) + Len(Buffered(n))
          /\ Len(handed) \in Nat
          /\ \A k \in 1 .. Len(handed) : (handed \o Buffered(n))[k] = handed[k]
          /\ \A k \in 1 .. Len(Buffered(n)) :
                (handed \o Buffered(n))[Len(handed) + k] = Buffered(n)[k]
        BY ONLY <2>2, ConcatFacts
    <3> QED BY ONLY <3>1, <2>1
  <2>4. Len(Buffered(n)) = n BY <1>3
  <2> QED BY ONLY <2>3, <2>4
<1>6. /\ handed # <<>> => Follows(handed[Len(handed)], [block |-> counter - 1, at |-> pos])
      /\ handed = <<>> => counter - 1 = 0 /\ pos = 0
    BY <1>1 DEF Inv, NextFollows, NextByte
<1>7. ReadsAreContiguous'
  <2>1. handed # <<>> <=> Len(handed) > 0 BY <1>1
  <2>2. handed'[1] = [block |-> 0, at |-> 0]
    <3>1. CASE handed = <<>>
      <4>1. Len(handed) = 0 BY <3>1, <2>1, <1>5
      <4>2. handed'[1] = Buffered(n)[1] BY <4>1, <1>5
      <4> QED BY <4>2, <3>1, <1>4, <1>6, <1>1
    <3>2. CASE handed # <<>>
      <4>1. handed'[1] = handed[1] BY <3>2, <2>1, <1>5
      <4> QED BY <4>1, <3>2 DEF Inv, ReadsAreContiguous
    <3> QED BY <3>1, <3>2
  <2>3. ASSUME NEW k \in 1 .. Len(handed') - 1
        PROVE  Follows(handed'[k], handed'[k + 1])
    <3>1. CASE k < Len(handed)
      <4>1. k \in 1 .. Len(handed) - 1 /\ k \in 1 .. Len(handed) /\ k + 1 \in 1 .. Len(handed)
        <5>1. k \in Nat /\ k >= 1 /\ Len(handed) \in Nat BY <1>5
        <5> QED BY ONLY <3>1, <5>1
      <4>2. handed'[k] = handed[k] /\ handed'[k + 1] = handed[k + 1] BY <4>1, <1>5
      <4> QED BY <4>1, <4>2 DEF Inv, ReadsAreContiguous
    <3>2. CASE k = Len(handed)
      <4>1. handed # <<>> /\ handed'[k] = handed[Len(handed)] BY <3>2, <2>1, <1>5
      <4>2. handed'[k + 1] = [block |-> counter - 1, at |-> pos]
        <5>1. handed'[k + 1] = Buffered(n)[1] BY <3>2, <1>5
        <5> QED BY <5>1, <1>4, <1>1
      <4> QED BY <4>1, <4>2, <1>6
    <3>3. CASE k > Len(handed)
      <4> DEFINE m == k - Len(handed)
      <4>1. k = Len(handed) + m /\ m \in 1 .. n - 1 BY <3>3, <1>5
      <4>2. handed'[k] = Buffered(n)[m] /\ handed'[k + 1] = Buffered(n)[m + 1]
        <5>1. k + 1 = Len(handed) + (m + 1) /\ m \in 1 .. n /\ m + 1 \in 1 .. n BY <4>1, <1>5
        <5> QED BY <5>1, <4>1, <1>5
      <4>3. /\ Buffered(n)[m] = [block |-> counter - 1, at |-> pos + m - 1]
            /\ Buffered(n)[m + 1] = [block |-> counter - 1, at |-> pos + (m + 1) - 1]
          BY <4>1, <1>4
      <4> QED BY <4>2, <4>3, <1>1 DEF Follows
    <3>4. k \in Int /\ Len(handed) \in Int BY <1>5
    <3> QED BY <3>1, <3>2, <3>3, <3>4
  <2> QED BY <2>2, <2>3 DEF ReadsAreContiguous
<1>8. NextFollows'
  <2>1. Len(handed') = Len(handed) + n /\ Len(handed') >= 1 BY <1>5
  <2>2. handed' # <<>> BY <2>1, <1>5
  <2>3. handed'[Len(handed')] = [block |-> counter - 1, at |-> pos + n - 1]
    <3>1. handed'[Len(handed')] = Buffered(n)[n] BY <1>5
    <3> QED BY <3>1, <1>4
  <2>4. Follows(handed'[Len(handed')], NextByte')
    <3>1. CASE pos + n < len
      BY <3>1, <2>3, <1>1 DEF NextByte, Follows
    <3>2. CASE pos + n = len
      <4>1. NextByte' = [block |-> counter, at |-> 0] BY <3>2, <1>1 DEF NextByte
      <4>2. pos + n - 1 = BlockLen - 1 BY <3>2, <1>1
      <4> QED BY <4>1, <4>2, <2>3, <1>1 DEF Follows
    <3>3. pos + n < len \/ pos + n = len BY <1>1
    <3> QED BY <3>1, <3>2, <3>3
  <2> QED BY <2>2, <2>4 DEF NextFollows
<1>9. pos' \in 0 .. len' /\ BufferIsBlock' BY <1>1 DEF Inv, BufferIsBlock
<1> QED BY <1>5, <1>7, <1>8, <1>9

\* The first bytes are still to come: the next one is byte 0 of block 0.
LEMMA InitInv == Init => Inv
BY KeyStreamAssumption
   DEF Init, Inv, TypeOK, BufferIsBlock, ReadsAreContiguous, NextFollows, NextByte

\* A read begins: all of it is in the buffer, or none is handed out yet.
LEMMA ReadHolds ==
    ASSUME Inv, NEW count \in 1 .. MaxRead, ReadFast(count) \/ ReadSlow(count)
    PROVE  Inv'
<1>0. counter \in Nat /\ len \in Nat /\ pos \in Nat /\ want \in 0 .. MaxRead /\ MaxRead \in Nat
    BY KeyStreamAssumption DEF Inv, TypeOK
<1>1. CASE ReadFast(count)
  <2>1. count \in Nat /\ count >= 1 BY <1>0
  <2> QED BY <1>1, <2>1, HandOut DEF ReadFast, Inv, TypeOK
<1>2. CASE ReadSlow(count)
    BY <1>2, <1>0 DEF ReadSlow, Inv, TypeOK, BufferIsBlock, ReadsAreContiguous, NextFollows, NextByte
<1> QED BY <1>1, <1>2

\* Every step of a read keeps the invariant; only Take and ReadFast hand out.
LEMMA StepInv == Inv /\ [Next]_vars => Inv'
<1> SUFFICES ASSUME Inv, [Next]_vars PROVE Inv'
    OBVIOUS
<1>0. counter \in Nat /\ len \in Nat /\ pos \in Nat /\ want \in 0 .. MaxRead /\ MaxRead \in Nat
    BY KeyStreamAssumption DEF Inv, TypeOK
<1>1. ASSUME NEW count \in 1 .. MaxRead, ReadFast(count) \/ ReadSlow(count) PROVE Inv'
    BY <1>1, ReadHolds
<1>3. CASE Refill
  <2>1. TypeOK' /\ BufferIsBlock'
      BY <1>3, <1>0, KeyStreamAssumption DEF Refill, Inv, TypeOK, BufferIsBlock
  <2>2. NextByte' = NextByte
      BY <1>3, <1>0, KeyStreamAssumption DEF Refill, NextByte
  <2>3. ReadsAreContiguous' /\ NextFollows'
      BY <1>3, <2>2 DEF Refill, Inv, ReadsAreContiguous, NextFollows
  <2> QED BY <2>1, <2>3 DEF Inv
<1>4. CASE Take
  <2> DEFINE n == IF want < len - pos THEN want ELSE len - pos
  <2>1. n \in Nat /\ n >= 1 /\ pos + n <= len /\ want - n \in 0 .. MaxRead
      BY <1>4, <1>0 DEF Take
  <2>2. handed' = handed \o Buffered(n) /\ pos' = pos + n /\ want' = want - n
        /\ counter' = counter /\ len' = len
      BY <1>4 DEF Take
  <2> HIDE DEF n
  <2> QED BY <2>1, <2>2, HandOut DEF Inv, TypeOK
<1>5. CASE UNCHANGED vars
    BY <1>5 DEF vars, Inv, TypeOK, BufferIsBlock, ReadsAreContiguous, NextFollows, NextByte
<1> QED BY <1>1, <1>3, <1>4, <1>5 DEF Next

\* For every block length and all read sizes, no byte of the keystream is given
\* twice and none is skipped.
THEOREM KeyStreamIsContiguous == Spec => []ReadsAreContiguous
<1>1. Init => Inv BY InitInv
<1>2. Inv /\ [Next]_vars => Inv' BY StepInv
<1>3. Inv => ReadsAreContiguous BY DEF Inv
<1> QED BY <1>1, <1>2, <1>3, PTL DEF Spec

-----------------------------------------------------------------------------
(* The powers of two behind randbelow.                                        *)
Doubles(p, n) == p[0] = 1 /\ \A k \in 1 .. n : p[k] = 2 * p[k - 1]

LEMMA DoublesAgree ==
  ASSUME NEW n \in Nat, NEW m \in Nat, NEW p, Doubles(p, n), NEW q, Doubles(q, m)
  PROVE  \A k \in Nat : k <= n /\ k <= m => p[k] = q[k]
<1> DEFINE S == {k \in Nat : k <= n /\ k <= m => p[k] = q[k]}
<1>1. 0 \in S
  BY DEF Doubles
<1>2. ASSUME NEW k \in Nat, k \in S PROVE k + 1 \in S
  <2> SUFFICES ASSUME k + 1 <= n, k + 1 <= m PROVE p[k + 1] = q[k + 1]
    OBVIOUS
  <2>1. k + 1 \in 1 .. n /\ k + 1 \in 1 .. m /\ (k + 1) - 1 = k
    OBVIOUS
  <2>2. p[k] = q[k]
    BY <1>2
  <2>3. p[k + 1] = 2 * p[k] /\ q[k + 1] = 2 * q[k]
    BY <2>1 DEF Doubles
  <2> QED BY ONLY <2>2, <2>3
<1> HIDE DEF S
<1>3. \A k \in Nat : k \in S
  BY <1>1, <1>2, Inductively
<1> QED BY <1>3 DEF S

LEMMA Pow2Doubles ==
  ASSUME NEW n \in Nat
  PROVE  \E p \in [0 .. n -> Nat] : Doubles(p, n) /\ Pow2(n) = p[n]
<1> DEFINE Step(x) == 2 * x[1]
           step == [x \in Nat \X (1 .. n) |-> Step(x)]
           body(g, k) == IF k = 0 THEN 1 ELSE 2 * g[k - 1]
           pow == CHOOSE g : g = [k \in 0 .. n |-> body(g, k)]
<1>1. step \in [Nat \X (1 .. n) -> Nat]
  OBVIOUS
<1>2. \A x \in Nat, k \in 1 .. n : step[<<x, k>>] = 2 * x
  OBVIOUS
<1> HIDE DEF step
<1>3. PICK g : Steps(g, n, Nat, 1, step)
  BY <1>1, StepRecursion
<1>4. g \in [0 .. n -> Nat] /\ g[0] = 1 /\ \A k \in 1 .. n : g[k] = step[<<g[k - 1], k>>]
  BY <1>3 DEF Steps
<1>5. ASSUME NEW k \in 1 .. n PROVE k - 1 \in 0 .. n /\ g[k] = 2 * g[k - 1]
  <2>1. k - 1 \in 0 .. n
    OBVIOUS
  <2>2. g[k - 1] \in Nat
    BY <1>4, <2>1
  <2>3. step[<<g[k - 1], k>>] = 2 * g[k - 1]
    BY <1>2, <2>2
  <2> QED BY <1>4, <2>1, <2>3
<1>6. g = [k \in 0 .. n |-> body(g, k)]
  <2>1. ASSUME NEW k \in 0 .. n PROVE g[k] = body(g, k)
    <3>1. k = 0 \/ k \in 1 .. n
      OBVIOUS
    <3> QED BY <1>4, <1>5, <3>1
  <2> HIDE DEF body
  <2> QED BY <1>4, <2>1
<1>7. pow = [k \in 0 .. n |-> body(pow, k)]
  <2> HIDE DEF body
  <2> QED BY <1>6
<1>8. Pow2(n) = pow[n]
  BY DEF Pow2
<1> HIDE DEF pow
<1>9. Doubles(pow, n)
  <2>1. pow[0] = 1
    BY <1>7
  <2>2. ASSUME NEW k \in 1 .. n PROVE pow[k] = 2 * pow[k - 1]
    <3>1. k \in 0 .. n /\ k # 0
      OBVIOUS
    <3> QED BY <1>7, <3>1
  <2> QED BY <2>1, <2>2 DEF Doubles
<1>10. Doubles(g, n)
  BY <1>4, <1>5 DEF Doubles
<1>11. pow[n] = g[n]
  BY <1>9, <1>10, DoublesAgree
<1> QED BY <1>4, <1>8, <1>10, <1>11

LEMMA Pow2Facts ==
  /\ Pow2(0) = 1
  /\ \A k \in Nat : Pow2(k) \in Nat /\ Pow2(k + 1) = 2 * Pow2(k)
<1>1. Pow2(0) = 1
  <2>1. PICK p \in [0 .. 0 -> Nat] : Doubles(p, 0) /\ Pow2(0) = p[0]
    BY Pow2Doubles
  <2> QED BY <2>1 DEF Doubles
<1>2. ASSUME NEW k \in Nat PROVE Pow2(k) \in Nat /\ Pow2(k + 1) = 2 * Pow2(k)
  <2>1. PICK p \in [0 .. k -> Nat] : Doubles(p, k) /\ Pow2(k) = p[k]
    BY Pow2Doubles
  <2>2. k + 1 \in Nat
    OBVIOUS
  <2>3. PICK q \in [0 .. k + 1 -> Nat] : Doubles(q, k + 1) /\ Pow2(k + 1) = q[k + 1]
    BY <2>2, Pow2Doubles
  <2>4. p[k] = q[k]
    BY <2>1, <2>2, <2>3, DoublesAgree
  <2>5. k + 1 \in 1 .. k + 1 /\ (k + 1) - 1 = k
    OBVIOUS
  <2>6. q[k + 1] = 2 * q[k]
    BY <2>3, <2>5 DEF Doubles
  <2> QED BY <2>1, <2>3, <2>4, <2>6
<1> QED BY <1>1, <1>2

LEMMA Pow2Exceeds == \A k \in Nat : Pow2(k) \in Nat /\ Pow2(k) > k
<1> DEFINE S == {k \in Nat : Pow2(k) > k}
<1>1. 0 \in S
  BY Pow2Facts
<1>2. ASSUME NEW k \in Nat, k \in S PROVE k + 1 \in S
  <2>1. Pow2(k) \in Nat /\ Pow2(k) > k /\ Pow2(k + 1) = 2 * Pow2(k)
    BY <1>2, Pow2Facts
  <2>2. Pow2(k + 1) > k + 1
    BY ONLY <2>1, k \in Nat
  <2> QED BY <2>2
<1> HIDE DEF S
<1>3. \A k \in Nat : k \in S
  BY <1>1, <1>2, Inductively
<1> QED BY <1>3, Pow2Facts DEF S

LEMMA Pow2Sum == \A a, b \in Nat : Pow2(a + b) = Pow2(a) * Pow2(b)
<1> SUFFICES ASSUME NEW a \in Nat PROVE \A b \in Nat : Pow2(a + b) = Pow2(a) * Pow2(b)
  OBVIOUS
<1> DEFINE S == {b \in Nat : Pow2(a + b) = Pow2(a) * Pow2(b)}
<1>1. 0 \in S
  <2>1. a + 0 = a /\ Pow2(a) \in Nat /\ Pow2(0) = 1
    BY Pow2Facts
  <2>2. Pow2(a) * Pow2(0) = Pow2(a)
    BY ONLY <2>1
  <2> QED BY <2>1, <2>2
<1>2. ASSUME NEW b \in Nat, b \in S PROVE b + 1 \in S
  <2>1. Pow2(a) \in Nat /\ Pow2(b) \in Nat /\ Pow2(b + 1) = 2 * Pow2(b)
    BY Pow2Facts
  <2>2. Pow2((a + b) + 1) = 2 * Pow2(a + b)
    BY Pow2Facts
  <2>3. Pow2(a + b) = Pow2(a) * Pow2(b)
    BY <1>2
  <2>4. a + (b + 1) = (a + b) + 1
    OBVIOUS
  <2> DEFINE x == Pow2(a)
             y == Pow2(b)
  <2> HIDE DEF x, y
  <2>5. x \in Nat /\ y \in Nat
    BY <2>1 DEF x, y
  <2>6. 2 * (x * y) = x * (2 * y)
    BY ONLY <2>5
  <2>7. Pow2(a + (b + 1)) = x * (2 * y)
    BY ONLY <2>2, <2>3, <2>4, <2>6 DEF x, y
  <2>8. Pow2(a + (b + 1)) = Pow2(a) * Pow2(b + 1)
    BY ONLY <2>1, <2>7 DEF x, y
  <2> QED BY <2>8
<1> HIDE DEF S
<1>3. \A b \in Nat : b \in S
  BY <1>1, <1>2, Inductively
<1> QED BY <1>3 DEF S

LEMMA Divided ==
  ASSUME NEW a \in Nat, NEW m \in Nat, m >= 1
  PROVE  /\ a \div m \in Nat /\ a % m \in Nat /\ a % m < m
         /\ a = m * (a \div m) + (a % m)
OBVIOUS

\* Of two multiples of m that differ by less than m, neither is larger.
LEMMA SameMultiple ==
  ASSUME NEW m \in Nat, m >= 1, NEW c \in Nat, NEW d \in Nat,
         NEW r \in Nat, NEW v \in Nat, r < m, v < m, m * c + v = m * d + r
  PROVE  c = d /\ v = r
<1>1. ASSUME NEW x \in Nat, NEW y \in Nat, x < y
      PROVE  m * y >= m * x + m
  <2>1. PICK z \in Nat : y = x + 1 + z
    <3>1. y - x - 1 \in Nat /\ y = x + 1 + (y - x - 1)
      BY <1>1
    <3> QED BY <3>1
  <2>2. m * y = m * x + m + m * z
    BY <2>1
  <2>3. m * z \in Nat /\ m * x \in Nat
    OBVIOUS
  <2> QED BY <2>2, <2>3
<1>2. m * c \in Nat /\ m * d \in Nat
  OBVIOUS
<1>3. ~ (c < d)
  <2> SUFFICES ASSUME c < d PROVE FALSE
    OBVIOUS
  <2>1. m * d >= m * c + m
    BY <1>1
  <2> QED BY <1>2, <2>1
<1>4. ~ (d < c)
  <2> SUFFICES ASSUME d < c PROVE FALSE
    OBVIOUS
  <2>1. m * c >= m * d + m
    BY <1>1
  <2> QED BY <1>2, <2>1
<1>5. c = d
  BY <1>3, <1>4
<1>6. m * c = m * d
  BY <1>5
<1>7. v = r
  BY <1>2, <1>6
<1> QED BY <1>5, <1>7

LEMMA BitLengthFacts ==
  ASSUME NEW n \in Nat
  PROVE  /\ BitLength(n) \in Nat /\ Pow2(BitLength(n)) > n
         /\ \A j \in 0 .. BitLength(n) - 1 : Pow2(j) <= n
<1> DEFINE T == {k \in Nat : Pow2(k) > n}
           Fits(k) == Pow2(k) > n /\ \A j \in 0 .. k - 1 : Pow2(j) <= n
<1>1. n \in T
  BY Pow2Exceeds
<1>2. T \subseteq Nat /\ T # {}
  BY <1>1
<1>3. PICK k \in T : \A m \in T : k <= m
  <2> HIDE DEF T
  <2> QED BY <1>2, LeastNumber
<1>4. k \in 0 .. n
  <2>1. k \in Nat /\ k <= n
    BY <1>1, <1>3
  <2> QED BY <2>1
<1>5. Fits(k)
  <2>1. ASSUME NEW j \in 0 .. k - 1 PROVE Pow2(j) <= n
    <3>1. j \in Nat /\ ~ (k <= j)
      BY <1>4
    <3>2. ~ (Pow2(j) > n)
      BY <1>3, <3>1
    <3> QED BY <3>1, <3>2, Pow2Facts
  <2> QED BY <2>1
<1>6. BitLength(n) = CHOOSE x \in 0 .. n : Fits(x)
  BY DEF BitLength
<1> HIDE DEF Fits
<1>7. BitLength(n) \in 0 .. n /\ Fits(BitLength(n))
  BY <1>4, <1>5, <1>6
<1> QED BY <1>7 DEF Fits

\* The mask covers n and is less than twice as wide; the bytes cover the mask.
LEMMA MaskFacts ==
  ASSUME NEW n \in Nat, n >= 2
  PROVE  /\ Bits(n) \in Nat /\ Bits(n) >= 1
         /\ Pow2(Bits(n)) \in Nat /\ Pow2(Bits(n)) >= n /\ Pow2(Bits(n)) < 2 * n
         /\ NBytes(n) \in Nat /\ NBytes(n) >= 1
         /\ ByteBits * NBytes(n) \in Nat /\ ByteBits * NBytes(n) >= Bits(n)
<1> DEFINE b == Bits(n)
           e == ByteBits
           y == NBytes(n)
<1>1. n - 1 \in Nat
  OBVIOUS
<1>2. b \in Nat /\ Pow2(b) > n - 1 /\ \A j \in 0 .. b - 1 : Pow2(j) <= n - 1
  BY <1>1, BitLengthFacts DEF Bits
<1>3. Pow2(0) = 1 /\ Pow2(b) \in Nat
  BY <1>2, Pow2Facts
<1>4. b >= 1
  <2>1. b # 0
    BY <1>2, <1>3
  <2> HIDE DEF b
  <2> QED BY <1>2, <2>1
<1>5. Pow2(b) >= n
  BY <1>2, <1>3
<1>6. Pow2(b) < 2 * n
  <2> DEFINE j == b - 1
  <2>1. j \in Nat /\ b = j + 1 /\ j \in 0 .. b - 1
    BY <1>2, <1>4
  <2> HIDE DEF j, b
  <2>2. Pow2(b) = 2 * Pow2(j) /\ Pow2(j) \in Nat /\ Pow2(j) <= n - 1
    BY <1>2, <2>1, Pow2Facts
  <2> QED BY <2>2
<1>7. e \in Nat /\ e >= 1
  BY DrawsAssumption
<1>8. y = (b + e - 1) \div e
  BY DEF NBytes
<1> HIDE DEF b, e, y
<1>9. b + e - 1 \in Nat
  BY <1>2, <1>7
<1> DEFINE r == (b + e - 1) % e
<1>10. y \in Nat /\ r \in Nat /\ r < e /\ b + e - 1 = e * y + r
  BY <1>7, <1>8, <1>9, Divided
<1> HIDE DEF r
<1>11. e * y \in Nat
  BY <1>7, <1>10
<1>12. e * y >= b
  BY ONLY <1>2, <1>7, <1>10, <1>11
<1>13. y >= 1
  <2>1. y # 0
    <3> SUFFICES ASSUME y = 0 PROVE FALSE
      OBVIOUS
    <3>1. e * y = 0
      BY <1>7
    <3> QED BY <1>2, <1>4, <1>12, <3>1
  <2> QED BY <1>10, <2>1
<1> QED BY <1>2, <1>3, <1>4, <1>5, <1>6, <1>10, <1>11, <1>12, <1>13 DEF b, e, y

-----------------------------------------------------------------------------
\* As many words are masked to one value below n as to another.
LEMMA WordsFor ==
  ASSUME NEW n \in Nat, n >= 2, NEW v \in 0 .. n - 1
  PROVE  Cardinality({w \in Words(n) : Masked(n, w) = v})
           = Pow2(ByteBits * NBytes(n) - Bits(n))
<1> DEFINE b == Bits(n)
           l == ByteBits * NBytes(n)
           M == Pow2(b)
           q == Pow2(l - b)
           F == {w \in Words(n) : Masked(n, w) = v}
           At(k) == M * k + v
           map == [k \in 0 .. q - 1 |-> At(k)]
<1>1. b \in Nat /\ l \in Nat /\ l >= b /\ M \in Nat /\ M >= n
  BY MaskFacts
<1>2. l - b \in Nat /\ b + (l - b) = l
  <2> HIDE DEF b, l
  <2> QED BY <1>1
<1>3. q \in Nat /\ Pow2(l) = M * q
  <2> HIDE DEF b, l
  <2>1. Pow2(b + (l - b)) = M * q
    BY <1>1, <1>2, Pow2Sum
  <2> QED BY <1>2, <2>1, Pow2Facts
<1>4. \A w : w \in F <=> w \in Nat /\ w < M * q /\ w % M = v
  <2>1. Words(n) = 0 .. M * q - 1
    BY <1>3 DEF Words
  <2>2. \A w \in Words(n) : Masked(n, w) = w % M
    BY DEF Masked
  <2>3. M * q \in Nat
    BY <1>1, <1>3
  <2> HIDE DEF M, q
  <2>4. \A w : w \in 0 .. M * q - 1 <=> w \in Nat /\ w < M * q
    BY <2>3
  <2> QED BY <2>1, <2>2, <2>4
<1>5. v \in Nat /\ v < M
  BY <1>1
<1> HIDE DEF b, l, M, q, F
<1>6. ASSUME NEW k \in 0 .. q - 1 PROVE At(k) \in F
  <2>1. k \in Nat /\ k + 1 <= q
    BY <1>3
  <2>2. M * k \in Nat /\ At(k) \in Nat
    BY <1>1, <1>5, <2>1
  <2>3. At(k) < M * q
    <3>1. PICK z \in Nat : q = k + 1 + z
      <4>1. q - k - 1 \in Nat /\ q = k + 1 + (q - k - 1)
        BY <1>3, <2>1
      <4> QED BY <4>1
    <3>2. M * q = M * k + M + M * z /\ M * z \in Nat
      BY <1>1, <2>1, <3>1
    <3> QED BY <1>1, <1>5, <2>2, <3>2
  <2>4. At(k) % M = v
    <3> DEFINE x == At(k)
               d == x \div M
               r == x % M
    <3> HIDE DEF x
    <3>1. M >= 1 /\ x \in Nat
      BY <1>1, <1>5, <2>2 DEF x
    <3>2. d \in Nat /\ r \in Nat /\ r < M /\ x = M * d + r
      BY <1>1, <3>1, Divided
    <3> HIDE DEF d, r
    <3>3. M * k + v = M * d + r
      BY <3>2 DEF x
    <3>4. v = r
      BY ONLY <1>1, <1>5, <2>1, <3>1, <3>2, <3>3, SameMultiple
    <3> QED BY <3>4 DEF r, x
  <2> QED BY <1>4, <2>2, <2>3, <2>4
<1>7. ASSUME NEW k \in 0 .. q - 1, NEW m \in 0 .. q - 1, At(k) = At(m)
      PROVE  k = m
  <2>1. k \in Nat /\ m \in Nat /\ M >= 1 /\ M * k + v = M * m + v
    BY <1>1, <1>3, <1>5, <1>7
  <2> QED BY ONLY <1>1, <1>5, <2>1, SameMultiple
<1>8. ASSUME NEW w \in F PROVE \E k \in 0 .. q - 1 : At(k) = w
  <2> DEFINE d == w \div M
  <2>1. w \in Nat /\ w < M * q /\ w % M = v /\ M >= 1
    BY <1>1, <1>4, <1>5
  <2>2. d \in Nat /\ w = M * d + v
    BY <1>1, <2>1, Divided
  <2> HIDE DEF d
  <2>3. d < q
    <3> SUFFICES ASSUME ~ (d < q) PROVE FALSE
      OBVIOUS
    <3>1. PICK z \in Nat : d = q + z
      <4>1. d - q \in Nat /\ d = q + (d - q)
        BY <1>3, <2>2
      <4> QED BY <4>1
    <3>2. M * d = M * q + M * z /\ M * z \in Nat /\ M * q \in Nat
      BY <1>1, <1>3, <3>1
    <3> QED BY <1>5, <2>1, <2>2, <3>2
  <2>4. d \in 0 .. q - 1 /\ At(d) = w
    BY <1>3, <2>2, <2>3
  <2> QED BY <2>4
<1> HIDE DEF At
<1>9. map \in Bijection(0 .. q - 1, F)
  <2>1. map \in [0 .. q - 1 -> F]
    BY <1>6
  <2>2. IsInjective(map)
    BY <1>7 DEF IsInjective
  <2>3. \A w \in F : \E k \in 0 .. q - 1 : map[k] = w
    BY <1>8
  <2> HIDE DEF map
  <2> QED BY <2>1, <2>2, <2>3 DEF Bijection, Injection, Surjection
<1>10. IsFiniteSet(0 .. q - 1) /\ Cardinality(0 .. q - 1) = q
  <2>1. 0 \in Int /\ q - 1 \in Int
    BY <1>3
  <2>2. IsFiniteSet(0 .. q - 1)
          /\ Cardinality(0 .. q - 1) = IF 0 > q - 1 THEN 0 ELSE (q - 1) - 0 + 1
    BY <2>1, FS_Interval
  <2> QED BY <1>3, <2>2
<1>11. ExistsBijection(0 .. q - 1, F)
  BY <1>9 DEF ExistsBijection
<1>12. Cardinality(F) = q
  BY <1>10, <1>11, FS_Bijection
<1> QED BY <1>12 DEF F, q, l, b

LEMMA BelowHolds == size \in Nat => BelowIsUniform
<1> SUFFICES ASSUME size \in Nat, NEW n \in 2 .. size
             PROVE  /\ \A v \in 0 .. n - 1 :
                         Cardinality({w \in Words(n) : Masked(n, w) = v})
                           = Cardinality({w \in Words(n) : Masked(n, w) = 0})
                    /\ 2 * n * Cardinality({w \in Words(n) : Masked(n, w) = 0})
                         > Cardinality(Words(n))
  BY DEF BelowIsUniform
<1> DEFINE b == Bits(n)
           l == ByteBits * NBytes(n)
           M == Pow2(b)
           q == Pow2(l - b)
           c(v) == Cardinality({w \in Words(n) : Masked(n, w) = v})
<1>1. n \in Nat /\ n >= 2
  OBVIOUS
<1>2. \A v \in 0 .. n - 1 : c(v) = q
  BY <1>1, WordsFor
<1>3. c(0) = q
  <2>1. 0 \in 0 .. n - 1
    BY <1>1
  <2> HIDE DEF c
  <2> QED BY <1>2, <2>1
<1>4. b \in Nat /\ l \in Nat /\ l >= b /\ M \in Nat /\ M >= n /\ M < 2 * n
  BY <1>1, MaskFacts
<1>5. l - b \in Nat /\ b + (l - b) = l
  <2> HIDE DEF b, l
  <2> QED BY <1>4
<1>6. q \in Nat /\ q >= 1 /\ Pow2(l) = M * q
  <2> HIDE DEF b, l
  <2>1. q \in Nat /\ q > l - b
    BY <1>5, Pow2Exceeds
  <2>2. Pow2(b + (l - b)) = M * q
    BY <1>4, <1>5, Pow2Sum
  <2> QED BY <1>5, <2>1, <2>2
<1>7. Cardinality(Words(n)) = M * q
  <2>1. Words(n) = 0 .. M * q - 1
    BY <1>6 DEF Words
  <2> HIDE DEF M, q
  <2>2. M * q \in Nat
    BY <1>4, <1>6
  <2>3. 0 \in Int /\ M * q - 1 \in Int
    BY <2>2
  <2>4. Cardinality(0 .. M * q - 1) = IF 0 > M * q - 1 THEN 0 ELSE (M * q - 1) - 0 + 1
    BY <2>3, FS_Interval
  <2> QED BY <2>1, <2>2, <2>4
<1>8. 2 * n * q > M * q
  <2> HIDE DEF M, q
  <2>1. PICK z \in Nat : 2 * n = M + 1 + z
    <3>1. 2 * n - M - 1 \in Nat /\ 2 * n = M + 1 + (2 * n - M - 1)
      BY <1>1, <1>4
    <3> QED BY <3>1
  <2>2. (M + 1 + z) * q = M * q + q + z * q /\ z * q \in Nat /\ M * q \in Nat
    BY <1>4, <1>6
  <2>3. (2 * n) * q = M * q + q + z * q
    BY <2>1, <2>2
  <2> QED BY <1>6, <2>2, <2>3
<1> HIDE DEF q, M
<1>9. \A v \in 0 .. n - 1 : c(v) = c(0)
  BY <1>2, <1>3
<1>10. 2 * n * c(0) > Cardinality(Words(n))
  BY <1>3, <1>7, <1>8
<1> QED BY <1>9, <1>10

-----------------------------------------------------------------------------
(* The shuffle: the lists it goes through, and what a swap does to one.       *)
LastIndex(sz) == IF sz > 0 THEN sz - 1 ELSE 0

LegalDraws(ds, sz) ==
    /\ ds \in Seq(0 .. sz) /\ Len(ds) <= LastIndex(sz)
    /\ \A k \in 1 .. Len(ds) : ds[k] <= sz - k

Shuffled(p, sz) ==
    /\ p \in [0 .. sz - 1 -> 0 .. sz - 1] /\ IsArrangement(p)
    /\ \A y \in 0 .. sz - 1 : \E x \in 0 .. sz - 1 : p[x] = y

Trace(h, ds, sz) ==
    /\ h \in [0 .. Len(ds) -> [0 .. sz - 1 -> 0 .. sz - 1]]
    /\ h[0] = [x \in 0 .. sz - 1 |-> x]
    /\ \A k \in 1 .. Len(ds) : h[k] = Swap(h[k - 1], sz - k, ds[k])

LEMMA SwapAt ==
  ASSUME NEW sz \in Nat, NEW f \in [0 .. sz - 1 -> 0 .. sz - 1],
         NEW a \in 0 .. sz - 1, NEW b \in 0 .. sz - 1
  PROVE  /\ Swap(f, a, b) \in [0 .. sz - 1 -> 0 .. sz - 1]
         /\ Swap(f, a, b)[a] = f[b] /\ Swap(f, a, b)[b] = f[a]
         /\ \A x \in 0 .. sz - 1 : x # a /\ x # b => Swap(f, a, b)[x] = f[x]
  BY DEF Swap

LEMMA SwapShuffles ==
  ASSUME NEW sz \in Nat, NEW f, Shuffled(f, sz), NEW a \in 0 .. sz - 1, NEW b \in 0 .. sz - 1
  PROVE  Shuffled(Swap(f, a, b), sz)
<1> DEFINE D == 0 .. sz - 1
           g == Swap(f, a, b)
<1>1. f \in [D -> D] /\ a \in D /\ b \in D
  BY DEF Shuffled
<1>2. \A x, y \in D : f[x] = f[y] => x = y
  BY <1>1 DEF Shuffled, IsArrangement
<1>3. \A y \in D : \E x \in D : f[x] = y
  BY DEF Shuffled
<1>4. /\ g \in [D -> D] /\ g[a] = f[b] /\ g[b] = f[a]
      /\ \A x \in D : x # a /\ x # b => g[x] = f[x]
  <2>1. g \in [D -> D]
    BY <1>1, SwapAt
  <2>2. g[a] = f[b]
    BY <1>1, SwapAt
  <2>3. g[b] = f[a]
    BY <1>1, SwapAt
  <2>4. \A x \in D : x # a /\ x # b => g[x] = f[x]
    BY <1>1, SwapAt
  <2> QED BY <2>1, <2>2, <2>3, <2>4
<1> HIDE DEF D, g
<1>5. IsArrangement(g)
  <2> SUFFICES ASSUME NEW x \in D, NEW y \in D, g[x] = g[y] PROVE x = y
    BY <1>4 DEF IsArrangement
  <2> QED BY <1>1, <1>2, <1>4
<1>6. ASSUME NEW y \in D PROVE \E x \in D : g[x] = y
  <2>1. PICK x \in D : f[x] = y
    BY <1>3
  <2>2. CASE x = a
    BY <1>1, <1>4, <2>1, <2>2
  <2>3. CASE x = b
    BY <1>1, <1>4, <2>1, <2>3
  <2>4. CASE x # a /\ x # b
    BY <1>4, <2>1, <2>4
  <2> QED BY <2>2, <2>3, <2>4
<1> QED BY <1>4, <1>5, <1>6 DEF Shuffled, D, g

LEMMA LegalAt ==
  ASSUME NEW sz \in Nat, NEW ds, LegalDraws(ds, sz)
  PROVE  /\ Len(ds) \in Nat
         /\ \A k \in 1 .. Len(ds) : /\ k \in Nat /\ k < sz /\ k - 1 \in 0 .. Len(ds)
                                    /\ sz - k \in 0 .. sz - 1
                                    /\ ds[k] \in 0 .. sz - 1 /\ ds[k] <= sz - k
<1>1. Len(ds) \in Nat
  BY DEF LegalDraws
<1>2. ASSUME NEW k \in 1 .. Len(ds)
      PROVE  /\ k \in Nat /\ k < sz /\ k - 1 \in 0 .. Len(ds) /\ sz - k \in 0 .. sz - 1
             /\ ds[k] \in 0 .. sz - 1 /\ ds[k] <= sz - k
  <2>1. ds[k] \in 0 .. sz /\ ds[k] <= sz - k
    BY DEF LegalDraws
  <2>2. k \in Nat /\ k >= 1 /\ k <= Len(ds) /\ k - 1 \in 0 .. Len(ds)
    BY <1>1
  <2>3. k < sz
    BY <1>1, <2>2 DEF LegalDraws, LastIndex
  <2> QED BY <2>1, <2>2, <2>3
<1> QED BY <1>1, <1>2

LEMMA TraceExists ==
  ASSUME NEW sz \in Nat, NEW ds, LegalDraws(ds, sz)
  PROVE  \E h : Trace(h, ds, sz)
<1> DEFINE n == Len(ds)
           V == [0 .. sz - 1 -> 0 .. sz - 1]
           Then(p, k) == Swap(p, sz - k, ds[k])
           step == [x \in V \X (1 .. n) |-> Then(x[1], x[2])]
           base == [x \in 0 .. sz - 1 |-> x]
<1>1. n \in Nat /\ base \in V
  BY LegalAt
<1>2. ASSUME NEW p \in V, NEW k \in 1 .. n PROVE Then(p, k) \in V
  <2>1. sz - k \in 0 .. sz - 1 /\ ds[k] \in 0 .. sz - 1
    BY LegalAt
  <2> QED BY <2>1, SwapAt
<1> HIDE DEF n, V, Then, base
<1>3. step \in [V \X (1 .. n) -> V]
  BY <1>2
<1>4. \A p \in V, k \in 1 .. n : step[<<p, k>>] = Then(p, k)
  OBVIOUS
<1> HIDE DEF step
<1>5. PICK h : Steps(h, n, V, base, step)
  BY <1>1, <1>3, StepRecursion
<1>6. h \in [0 .. n -> V] /\ h[0] = base
  BY <1>5 DEF Steps
<1>7. ASSUME NEW k \in 1 .. n PROVE h[k] = Then(h[k - 1], k)
  <2>1. k - 1 \in 0 .. n
    BY <1>1
  <2>2. h[k - 1] \in V
    BY <1>6, <2>1
  <2>3. h[k] = step[<<h[k - 1], k>>]
    BY <1>5 DEF Steps
  <2> QED BY <1>4, <2>2, <2>3
<1>8. Trace(h, ds, sz)
  BY <1>6, <1>7 DEF Trace, n, V, base, Then
<1> QED BY <1>8

\* The list after n draws depends on those draws alone.
LEMMA TracesAgree ==
  ASSUME NEW sz, NEW a, NEW b, NEW g, NEW h, Trace(g, a, sz), Trace(h, b, sz),
         Len(a) \in Nat, Len(b) \in Nat
  PROVE  \A n \in Nat : n <= Len(a) /\ n <= Len(b) /\ (\A k \in 1 .. n : a[k] = b[k])
                          => g[n] = h[n]
<1> DEFINE Same(n) == \A k \in 1 .. n : a[k] = b[k]
           S == {n \in Nat : n <= Len(a) /\ n <= Len(b) /\ Same(n) => g[n] = h[n]}
<1>1. 0 \in S
  BY DEF Trace
<1>2. ASSUME NEW n \in Nat, n \in S PROVE n + 1 \in S
  <2> SUFFICES ASSUME n + 1 <= Len(a), n + 1 <= Len(b), Same(n + 1) PROVE g[n + 1] = h[n + 1]
    OBVIOUS
  <2>1. n + 1 \in 1 .. Len(a) /\ n + 1 \in 1 .. Len(b) /\ (n + 1) - 1 = n
    OBVIOUS
  <2>2. a[n + 1] = b[n + 1]
    OBVIOUS
  <2>3. g[n] = h[n]
    BY <1>2
  <2>4. g[n + 1] = Swap(g[n], sz - (n + 1), a[n + 1])
    BY <2>1 DEF Trace
  <2>5. h[n + 1] = Swap(h[n], sz - (n + 1), b[n + 1])
    BY <2>1 DEF Trace
  <2> QED BY <2>2, <2>3, <2>4, <2>5
<1> HIDE DEF S
<1>3. \A n \in Nat : n \in S
  BY <1>1, <1>2, Inductively
<1> QED BY <1>3 DEF S

LEMMA TraceShuffles ==
  ASSUME NEW sz \in Nat, NEW ds, LegalDraws(ds, sz), NEW h, Trace(h, ds, sz)
  PROVE  \A k \in 0 .. Len(ds) : Shuffled(h[k], sz)
<1> DEFINE S == {k \in Nat : k <= Len(ds) => Shuffled(h[k], sz)}
<1>1. 0 \in S
  BY DEF Trace, Shuffled, IsArrangement
<1>2. ASSUME NEW k \in Nat, k \in S PROVE k + 1 \in S
  <2> SUFFICES ASSUME k + 1 <= Len(ds) PROVE Shuffled(h[k + 1], sz)
    OBVIOUS
  <2>1. k + 1 \in 1 .. Len(ds) /\ (k + 1) - 1 = k /\ Shuffled(h[k], sz)
    BY <1>2, LegalAt
  <2>2. h[k + 1] = Swap(h[k], sz - (k + 1), ds[k + 1])
    BY <2>1 DEF Trace
  <2>3. sz - (k + 1) \in 0 .. sz - 1 /\ ds[k + 1] \in 0 .. sz - 1
    BY <2>1, LegalAt
  <2> QED BY <2>1, <2>2, <2>3, SwapShuffles
<1> HIDE DEF S
<1>3. \A k \in Nat : k \in S
  BY <1>1, <1>2, Inductively
<1> QED BY <1>3, LegalAt DEF S

\* A draw settles one position, which no later draw disturbs.
LEMMA DrawSettles ==
  ASSUME NEW sz \in Nat, NEW ds, LegalDraws(ds, sz), NEW h, Trace(h, ds, sz),
         NEW k \in 1 .. Len(ds)
  PROVE  h[Len(ds)][sz - k] = h[k - 1][ds[k]]
<1> DEFINE S == {j \in Nat : k + j <= Len(ds) => h[k + j][sz - k] = h[k - 1][ds[k]]}
<1>0. /\ Len(ds) \in Nat /\ k \in Nat /\ k < sz /\ k - 1 \in 0 .. Len(ds)
      /\ sz - k \in 0 .. sz - 1 /\ ds[k] \in 0 .. sz - 1
  BY LegalAt
<1>1. 0 \in S
  <2>1. h[k] = Swap(h[k - 1], sz - k, ds[k]) /\ h[k - 1] \in [0 .. sz - 1 -> 0 .. sz - 1]
    BY <1>0 DEF Trace
  <2> DEFINE p == h[k - 1]
             x == sz - k
             y == ds[k]
  <2>2. p \in [0 .. sz - 1 -> 0 .. sz - 1] /\ x \in 0 .. sz - 1 /\ y \in 0 .. sz - 1
    BY <1>0, <2>1
  <2>3. h[k] = Swap(p, x, y)
    BY <2>1
  <2> HIDE DEF p, x, y
  <2>4. Swap(p, x, y)[x] = p[y]
    BY <2>2, SwapAt
  <2>5. h[k][sz - k] = h[k - 1][ds[k]]
    BY <2>3, <2>4 DEF p, x, y
  <2>6. k + 0 = k
    BY <1>0
  <2> QED BY <2>5, <2>6
<1>2. ASSUME NEW j \in Nat, j \in S PROVE j + 1 \in S
  <2> SUFFICES ASSUME k + (j + 1) <= Len(ds) PROVE h[k + (j + 1)][sz - k] = h[k - 1][ds[k]]
    OBVIOUS
  <2> DEFINE l == k + (j + 1)
  <2>1. l \in 1 .. Len(ds) /\ l - 1 = k + j /\ l > k /\ l \in Nat
    BY <1>0
  <2>2. h[k + j][sz - k] = h[k - 1][ds[k]]
    BY <1>0, <1>2
  <2> HIDE DEF l
  <2>3. /\ sz - l \in 0 .. sz - 1 /\ ds[l] \in 0 .. sz - 1 /\ ds[l] <= sz - l
        /\ l - 1 \in 0 .. Len(ds)
    BY <2>1, LegalAt
  <2>4. h[l] = Swap(h[l - 1], sz - l, ds[l]) /\ h[l - 1] \in [0 .. sz - 1 -> 0 .. sz - 1]
    BY <2>1, <2>3 DEF Trace
  <2>5. sz - k # sz - l /\ sz - k # ds[l]
    BY <1>0, <2>1, <2>3
  <2>6. \A x \in 0 .. sz - 1 : x # sz - l /\ x # ds[l]
          => Swap(h[l - 1], sz - l, ds[l])[x] = h[l - 1][x]
    BY <2>3, <2>4, SwapAt
  <2>7. h[l][sz - k] = h[l - 1][sz - k]
    BY <1>0, <2>4, <2>5, <2>6
  <2> QED BY <2>1, <2>2, <2>7 DEF l
<1> HIDE DEF S
<1>3. \A j \in Nat : j \in S
  BY <1>1, <1>2, Inductively
<1>4. Len(ds) - k \in Nat /\ k + (Len(ds) - k) = Len(ds)
  BY <1>0
<1> QED BY <1>0, <1>3, <1>4 DEF S

\* Two full sequences of draws that end in the same list are the same.
LEMMA DrawsTold ==
  ASSUME NEW sz \in Nat, NEW a, NEW b, LegalDraws(a, sz), LegalDraws(b, sz), Len(a) = Len(b),
         NEW g, NEW h, Trace(g, a, sz), Trace(h, b, sz), g[Len(a)] = h[Len(b)]
  PROVE  a = b
<1> DEFINE n == Len(a)
           S == {m \in Nat : m <= n => \A k \in 1 .. m : a[k] = b[k]}
<1>0. n \in Nat /\ n = Len(b)
  BY LegalAt
<1>1. 0 \in S
  OBVIOUS
<1>2. ASSUME NEW m \in Nat, m \in S PROVE m + 1 \in S
  <2> SUFFICES ASSUME m + 1 <= n PROVE \A k \in 1 .. m + 1 : a[k] = b[k]
    OBVIOUS
  <2>1. m <= n /\ m + 1 \in 1 .. n /\ (m + 1) - 1 = m /\ \A k \in 1 .. m : a[k] = b[k]
    BY <1>0, <1>2
  <2>2. g[m] = h[m]
    BY <1>0, <2>1, TracesAgree
  <2>3. g[n][sz - (m + 1)] = g[m][a[m + 1]]
    BY <2>1, DrawSettles
  <2>4. h[n][sz - (m + 1)] = h[m][b[m + 1]]
    <3>1. m + 1 \in 1 .. Len(b)
      BY <1>0, <2>1
    <3> DEFINE k == m + 1
    <3> HIDE DEF k
    <3>2. k \in 1 .. Len(b) /\ k - 1 = m
      BY <2>1, <3>1 DEF k
    <3>3. h[Len(b)][sz - k] = h[k - 1][b[k]]
      BY ONLY sz \in Nat, LegalDraws(b, sz), Trace(h, b, sz), <3>2, DrawSettles
    <3> QED BY <1>0, <3>2, <3>3 DEF k
  <2>5. g[m][a[m + 1]] = g[m][b[m + 1]]
    BY <1>0, <2>2, <2>3, <2>4
  <2>6. a[m + 1] \in 0 .. sz - 1 /\ b[m + 1] \in 0 .. sz - 1
    BY <1>0, <2>1, LegalAt
  <2>7. m \in 0 .. Len(a)
    BY <1>0, <2>1
  <2>8. Shuffled(g[m], sz)
    BY <2>7, TraceShuffles
  <2>9. a[m + 1] = b[m + 1]
    <3>1. DOMAIN g[m] = 0 .. sz - 1 /\ \A x, y \in DOMAIN g[m] : g[m][x] = g[m][y] => x = y
      BY <2>8 DEF Shuffled, IsArrangement
    <3> QED BY ONLY <2>5, <2>6, <3>1
  <2> QED BY <2>1, <2>9
<1> HIDE DEF S
<1>3. n \in S
  BY <1>0, <1>1, <1>2, Inductively
<1>4. \A k \in 1 .. n : a[k] = b[k]
  BY <1>0, <1>3 DEF S
<1>5. a \in Seq(0 .. sz) /\ b \in Seq(0 .. sz)
  BY DEF LegalDraws
<1> QED BY <1>0, <1>4, <1>5

\* Every arrangement is the end of some full sequence of draws: each draw finds
\* the element that belongs at the position it settles.
LEMMA DrawsExist ==
  ASSUME NEW sz \in Nat, NEW f \in [0 .. sz - 1 -> 0 .. sz - 1], IsArrangement(f)
  PROVE  \E ds, h : LegalDraws(ds, sz) /\ Len(ds) = LastIndex(sz)
                      /\ Trace(h, ds, sz) /\ h[LastIndex(sz)] = f
<1> DEFINE D == 0 .. sz - 1
           n == LastIndex(sz)
           V == {p \in [D -> D] : Shuffled(p, sz)}
           At(p, y) == CHOOSE x \in D : p[x] = y
           Then(p, k) == Swap(p, sz - k, At(p, f[sz - k]))
           step == [x \in V \X (1 .. n) |-> Then(x[1], x[2])]
           base == [x \in D |-> x]
<1>1. n \in Nat /\ (sz > 0 => n = sz - 1) /\ (sz = 0 => n = 0)
  BY DEF LastIndex
<1>2. \A k \in 1 .. n : k \in Nat /\ k - 1 \in 0 .. n /\ k \in 0 .. n /\ sz - k \in D
  BY <1>1
<1>3. \A x \in D : f[x] \in D
  OBVIOUS
<1>4. \A x, y \in D : f[x] = f[y] => x = y
  BY DEF IsArrangement
<1>5. base \in V
  BY DEF Shuffled, IsArrangement
<1> HIDE DEF n
<1>6. ASSUME NEW p \in V, NEW y \in D PROVE At(p, y) \in D /\ p[At(p, y)] = y
  <2>1. \E x \in D : p[x] = y
    BY DEF Shuffled
  <2> HIDE DEF D
  <2> QED BY <2>1
<1>7. ASSUME NEW p \in V, NEW k \in 1 .. n PROVE Then(p, k) \in V
  <2> DEFINE a == sz - k
             b == At(p, f[sz - k])
  <2>1. a \in D /\ b \in D
    <3> HIDE DEF At, V
    <3> QED BY <1>2, <1>3, <1>6
  <2>2. Shuffled(p, sz)
    OBVIOUS
  <2> HIDE DEF a, b
  <2>3. Shuffled(Swap(p, a, b), sz)
    BY <2>1, <2>2, SwapShuffles
  <2>4. Swap(p, a, b) \in V
    BY <2>3 DEF Shuffled
  <2> QED BY <2>4 DEF a, b
<1> HIDE DEF V, At, Then, base
<1>8. step \in [V \X (1 .. n) -> V]
  BY <1>7
<1>9. \A p \in V, k \in 1 .. n : step[<<p, k>>] = Then(p, k)
  OBVIOUS
<1> HIDE DEF step
<1>10. PICK h : Steps(h, n, V, base, step)
  BY <1>1, <1>5, <1>8, StepRecursion
<1>11. h \in [0 .. n -> V] /\ h[0] = base
  BY <1>10 DEF Steps
<1>12. ASSUME NEW k \in 1 .. n PROVE h[k - 1] \in V /\ h[k] = Then(h[k - 1], k)
  <2>1. h[k - 1] \in V
    BY <1>2, <1>11
  <2>2. h[k] = step[<<h[k - 1], k>>]
    BY <1>10 DEF Steps
  <2> QED BY <1>9, <2>1, <2>2
<1> DEFINE ds == [k \in 1 .. n |-> At(h[k - 1], f[sz - k])]
           Found(k) == \A x \in D : x >= sz - k => h[k][x] = f[x]
           S == {k \in Nat : k <= n => Found(k) /\ \A j \in 1 .. k : ds[j] <= sz - j}
<1>13. ASSUME NEW k \in 1 .. n
       PROVE  ds[k] \in D /\ h[k - 1][ds[k]] = f[sz - k] /\ h[k] = Swap(h[k - 1], sz - k, ds[k])
  <2>1. ds[k] = At(h[k - 1], f[sz - k])
    OBVIOUS
  <2>2. f[sz - k] \in D
    BY <1>2, <1>3
  <2>3. h[k - 1] \in V /\ h[k] = Then(h[k - 1], k)
    BY <1>12
  <2> HIDE DEF ds, D
  <2> QED BY <1>6, <2>1, <2>2, <2>3 DEF Then
<1>14. \A p \in V : p \in [D -> D] /\ Shuffled(p, sz)
  BY DEF V
<1>15. ds \in Seq(0 .. sz) /\ Len(ds) = n
  <2>1. \A k \in 1 .. n : ds[k] \in 0 .. sz
    <3> HIDE DEF ds
    <3> QED BY <1>13
  <2>2. \A k \in 1 .. n : At(h[k - 1], f[sz - k]) \in 0 .. sz
    BY <2>1
  <2> QED BY <1>1, <2>2
<1> HIDE DEF ds
<1>16. 0 \in S
  <2>1. Found(0)
    OBVIOUS
  <2> QED BY <2>1
<1>17. ASSUME NEW k \in Nat, k \in S PROVE k + 1 \in S
  <2> SUFFICES ASSUME k + 1 <= n
               PROVE  Found(k + 1) /\ \A j \in 1 .. k + 1 : ds[j] <= sz - j
    OBVIOUS
  <2> DEFINE l == k + 1
             a == sz - l
             p == h[k]
             b == ds[l]
  <2>1. l \in 1 .. n /\ l - 1 = k /\ l \in Nat
    BY <1>1
  <2>2. a \in D /\ a = sz - k - 1
    BY <1>2, <2>1
  <2>3. k <= n /\ Found(k) /\ \A j \in 1 .. k : ds[j] <= sz - j
    BY <1>1, <1>17
  <2> HIDE DEF l
  <2>4. b \in D /\ p[b] = f[a] /\ h[l] = Swap(p, a, b)
    BY <1>13, <2>1
  <2>5. p \in [D -> D]
    BY <1>12, <1>14, <2>1
  <2> HIDE DEF a, b, S
  <2>6. b <= a
    <3> SUFFICES ASSUME ~ (b <= a) PROVE FALSE
      OBVIOUS
    <3>1. b >= sz - k
      BY <2>2, <2>4
    <3>2. p[b] = f[b]
      BY <2>3, <2>4, <3>1
    <3>3. b = a
      <4> HIDE DEF p, D
      <4> QED BY <1>4, <2>2, <2>4, <3>2
    <3> QED BY <2>2, <3>3
  <2> DEFINE q == Swap(p, a, b)
  <2>7. q[a] = p[b] /\ \A x \in 0 .. sz - 1 : x # a /\ x # b => q[x] = p[x]
    <3> HIDE DEF p
    <3>1. Swap(p, a, b)[a] = p[b]
      BY <2>2, <2>4, <2>5, SwapAt
    <3>2. \A x \in DOMAIN p : x # a /\ x # b => Swap(p, a, b)[x] = p[x]
      BY DEF Swap
    <3>3. DOMAIN p = 0 .. sz - 1
      BY <2>5
    <3> QED BY <3>1, <3>2, <3>3
  <2> HIDE DEF q
  <2>8. ASSUME NEW x \in D, x >= sz - l PROVE h[l][x] = f[x]
    <3>0. h[l] = q
      BY <2>4 DEF q
    <3>1. CASE x = a
      BY <2>4, <2>7, <3>0, <3>1
    <3>2. CASE x # a
      <4>1. x >= sz - k /\ x # b
        BY <2>1, <2>2, <2>4, <2>6, <2>8, <3>2 DEF a
      <4>2. q[x] = p[x]
        BY <2>7, <3>2, <4>1
      <4>3. p[x] = f[x]
        BY <2>3, <4>1
      <4> QED BY <3>0, <4>2, <4>3
    <3> QED BY <3>1, <3>2
  <2>9. \A j \in 1 .. l : ds[j] <= sz - j
    <3> TAKE j \in 1 .. l
    <3>1. j \in 1 .. k \/ j = l
      BY <2>1 DEF l
    <3> QED BY <2>3, <2>6, <3>1 DEF a, b
  <2> QED BY <2>8, <2>9 DEF l
<1> HIDE DEF S
<1>18. n \in S
  BY <1>1, <1>16, <1>17, Inductively
<1>19. Found(n) /\ \A j \in 1 .. n : ds[j] <= sz - j
  BY <1>1, <1>18 DEF S
<1>20. h[n] \in [D -> D] /\ Shuffled(h[n], sz)
  <2>1. n \in 0 .. n
    BY <1>1
  <2>2. h[n] \in V
    BY <1>11, <2>1
  <2> QED BY <1>14, <2>2
<1>21. ASSUME NEW x \in D PROVE h[n][x] = f[x]
  <2>1. CASE x >= sz - n
    BY <1>19, <2>1
  <2>2. CASE x < sz - n
    <3>1. x = 0 /\ sz > 0 /\ n = sz - 1
      BY <1>1, <2>2
    <3>2. PICK y \in D : h[n][y] = f[x]
      <4>1. \A v \in D : \E y \in D : h[n][y] = v
        BY <1>20 DEF Shuffled
      <4> HIDE DEF D
      <4> QED BY <1>3, <4>1
    <3>3. y = x
      <4> SUFFICES ASSUME y # x PROVE FALSE
        OBVIOUS
      <4>1. y >= sz - n
        BY <3>1
      <4>2. f[y] = f[x]
        BY <1>19, <3>2, <4>1
      <4> HIDE DEF D
      <4> QED BY <1>4, <4>2
    <3> QED BY <3>2, <3>3
  <2>3. x \in Int /\ sz - n \in Int
    BY <1>1
  <2> QED BY <2>1, <2>2, <2>3
<1>22. h[n] = f
  <2> HIDE DEF D
  <2>1. f \in [D -> D]
    BY DEF D
  <2> QED BY <1>20, <1>21, <2>1
<1>23. LegalDraws(ds, sz)
  <2>1. n <= LastIndex(sz)
    BY <1>1 DEF n
  <2> QED BY <1>15, <1>19, <2>1 DEF LegalDraws
<1>24. Trace(h, ds, sz)
  <2>1. h \in [0 .. n -> [D -> D]]
    BY <1>11, <1>14
  <2>2. h[0] = [x \in D |-> x]
    BY <1>11 DEF base
  <2>3. \A k \in 1 .. n : h[k] = Swap(h[k - 1], sz - k, ds[k])
    BY <1>13
  <2>4. \A k \in 1 .. Len(ds) : h[k] = Swap(h[k - 1], sz - k, ds[k])
    BY <1>15, <2>3
  <2>5. h \in [0 .. Len(ds) -> [D -> D]]
    BY <1>15, <2>1
  <2> QED BY <2>2, <2>4, <2>5 DEF Trace
<1> QED BY <1>15, <1>22, <1>23, <1>24 DEF n

LEMMA ShuffleTrace ==
  ASSUME size \in Nat, NEW ds, LegalDraws(ds, size)
  PROVE  \E h : Trace(h, ds, size) /\ ShuffleOf(ds) = h[Len(ds)]
<1> DEFINE n == Len(ds)
           Then(p, k) == Swap(p, size - k, ds[k])
           base == [x \in 0 .. size - 1 |-> x]
           body(g, k) == IF k = 0 THEN base ELSE Then(g[k - 1], k)
           after == CHOOSE g : g = [k \in 0 .. n |-> body(g, k)]
<1>1. PICK h : Trace(h, ds, size)
  BY TraceExists
<1>2. n \in Nat
  BY LegalAt
<1>3. \A k \in 1 .. n : k \in 0 .. n /\ k # 0
  BY <1>2
<1>4. \A k \in 0 .. n : k = 0 \/ k \in 1 .. n
  BY <1>2
<1>5. ShuffleOf(ds) = after[n]
  BY DEF ShuffleOf
<1>6. h = [k \in 0 .. n |-> h[k]] /\ h[0] = base /\ \A k \in 1 .. n : h[k] = Then(h[k - 1], k)
  <2>1. h \in [0 .. n -> [0 .. size - 1 -> 0 .. size - 1]] /\ h[0] = base
    BY <1>1 DEF Trace
  <2>2. \A k \in 1 .. n : h[k] = Then(h[k - 1], k)
    BY <1>1 DEF Trace
  <2> QED BY <2>1, <2>2
<1> HIDE DEF Then, base, n
<1>7. h = [k \in 0 .. n |-> body(h, k)]
  <2>1. ASSUME NEW k \in 0 .. n PROVE h[k] = body(h, k)
    BY <1>4, <1>6
  <2> HIDE DEF body
  <2> QED BY <1>6, <2>1
<1>8. after = [k \in 0 .. n |-> body(after, k)]
  <2> HIDE DEF body
  <2> QED BY <1>7
<1> HIDE DEF after
<1> DEFINE S == {k \in Nat : k <= n => after[k] = h[k]}
<1>9. 0 \in S
  <2>1. 0 \in 0 .. n
    BY <1>2
  <2>2. after[0] = base
    BY <1>8, <2>1
  <2> QED BY <1>6, <2>2
<1>10. ASSUME NEW k \in Nat, k \in S PROVE k + 1 \in S
  <2> SUFFICES ASSUME k + 1 <= n PROVE after[k + 1] = h[k + 1]
    OBVIOUS
  <2>1. k + 1 \in 1 .. n /\ k + 1 \in 0 .. n /\ k + 1 # 0 /\ (k + 1) - 1 = k
    BY <1>2
  <2>2. after[k] = h[k]
    BY <1>2, <1>10
  <2>3. after[k + 1] = Then(after[k], k + 1)
    BY <1>8, <2>1
  <2>4. h[k + 1] = Then(h[k], k + 1)
    BY <1>6, <2>1
  <2> QED BY <2>2, <2>3, <2>4
<1> HIDE DEF S
<1>11. n \in S
  BY <1>2, <1>9, <1>10, Inductively
<1>12. after[n] = h[n]
  BY <1>2, <1>11 DEF S
<1> QED BY <1>1, <1>5, <1>12 DEF n

\* A full sequence of draws is one of DrawSequences.
LEMMA FullDraws ==
  ASSUME size \in Nat, NEW ds
  PROVE  ds \in DrawSequences <=> LegalDraws(ds, size) /\ Len(ds) = LastIndex(size)
<1> DEFINE n == LastIndex(size)
<1>1. n \in Nat /\ 1 .. size - 1 = 1 .. n /\ n <= size
  BY DEF LastIndex
<1>2. DrawSequences = {d \in [1 .. n -> 0 .. size] : \A k \in 1 .. n : d[k] < size - k + 1}
  BY <1>1 DEF DrawSequences, DrawBound
<1> HIDE DEF n
<1>3. ASSUME ds \in DrawSequences PROVE LegalDraws(ds, size) /\ Len(ds) = n
  <2>1. ds \in [1 .. n -> 0 .. size] /\ \A k \in 1 .. n : ds[k] < size - k + 1
    BY <1>2, <1>3
  <2>2. ds \in Seq(0 .. size) /\ Len(ds) = n
    BY <1>1, <2>1
  <2>3. \A k \in 1 .. n : ds[k] <= size - k
    <3> TAKE k \in 1 .. n
    <3>1. ds[k] \in 0 .. size /\ ds[k] < size - k + 1 /\ k \in Nat
      BY <1>1, <2>1
    <3> QED BY <3>1
  <2> QED BY <1>1, <2>2, <2>3 DEF LegalDraws, n
<1>4. ASSUME LegalDraws(ds, size), Len(ds) = n PROVE ds \in DrawSequences
  <2>1. ds \in Seq(0 .. size) /\ \A k \in 1 .. n : ds[k] <= size - k
    BY <1>4 DEF LegalDraws
  <2>2. ds \in [1 .. n -> 0 .. size]
    BY <1>4, <2>1
  <2>3. \A k \in 1 .. n : ds[k] < size - k + 1
    <3> TAKE k \in 1 .. n
    <3>1. ds[k] \in 0 .. size /\ ds[k] <= size - k /\ k \in Nat
      BY <1>1, <2>1, <2>2
    <3> QED BY <3>1
  <2> QED BY <1>2, <2>2, <2>3
<1> QED BY <1>3, <1>4 DEF n

\* There are finitely many: each is told by the set of its places and values.
LEMMA DrawsFinite == size \in Nat => IsFiniteSet(DrawSequences)
<1> SUFFICES ASSUME size \in Nat PROVE IsFiniteSet(DrawSequences)
  OBVIOUS
<1> DEFINE P == 1 .. size - 1
           Q == 0 .. size
           F == [P -> Q]
           Graph(d) == {<<k, d[k]>> : k \in P}
           G == [d \in F |-> Graph(d)]
<1>1. IsFiniteSet(P) /\ IsFiniteSet(Q)
  BY FS_Interval
<1>2. IsFiniteSet(SUBSET (P \X Q))
  <2> HIDE DEF P, Q
  <2>1. IsFiniteSet(P \X Q)
    BY <1>1, FS_Product
  <2> HIDE DEF F, Graph
  <2> QED BY <2>1, FS_SUBSET
<1>3. DrawSequences \in SUBSET F
  BY DEF DrawSequences
<1> HIDE DEF P, Q
<1>4. ASSUME NEW d \in F PROVE Graph(d) \in SUBSET (P \X Q)
  OBVIOUS
<1>5. ASSUME NEW c \in F, NEW d \in F, Graph(c) = Graph(d) PROVE c = d
  <2>1. ASSUME NEW k \in P PROVE c[k] = d[k]
    <3>1. <<k, c[k]>> \in Graph(d)
      <4>1. <<k, c[k]>> \in Graph(c)
        OBVIOUS
      <4> QED BY <1>5, <4>1
    <3>2. PICK j \in P : <<k, c[k]>> = <<j, d[j]>>
      BY <3>1
    <3> QED BY <3>2
  <2> HIDE DEF Graph
  <2> QED BY <2>1
<1> HIDE DEF Graph
<1>6. G \in Injection(F, SUBSET (P \X Q))
  <2>1. G \in [F -> SUBSET (P \X Q)]
    BY <1>4
  <2>2. IsInjective(G)
    <3>1. \A c, d \in F : G[c] = G[d] => c = d
      <4> HIDE DEF F
      <4> QED BY <1>5
    <3>2. DOMAIN G = F
      OBVIOUS
    <3> HIDE DEF G, F
    <3> QED BY <3>1, <3>2 DEF IsInjective
  <2> HIDE DEF G, F
  <2> QED BY <2>1, <2>2 DEF Injection
<1> HIDE DEF F, G
<1>7. IsFiniteSet(F)
  BY <1>2, <1>6, FS_Injection
<1> QED BY <1>3, <1>7, FS_Subset

\* What a full sequence of draws makes is an arrangement, and tells the draws.
LEMMA ShuffleOfDraws ==
  ASSUME size \in Nat, NEW a, LegalDraws(a, size), Len(a) = LastIndex(size)
  PROVE  /\ ShuffleOf(a) \in Arrangements
         /\ \A b : LegalDraws(b, size) /\ Len(b) = LastIndex(size) /\ ShuffleOf(a) = ShuffleOf(b)
                     => a = b
<1>1. PICK g : Trace(g, a, size) /\ ShuffleOf(a) = g[Len(a)]
  BY ShuffleTrace
<1>2. Shuffled(g[Len(a)], size)
  <2>1. Len(a) \in Nat
    BY LegalAt
  <2>2. Len(a) \in 0 .. Len(a)
    BY <2>1
  <2> QED BY <1>1, <2>2, TraceShuffles
<1>3. ASSUME NEW b, LegalDraws(b, size), Len(b) = LastIndex(size), ShuffleOf(a) = ShuffleOf(b)
      PROVE  a = b
  <2>1. PICK h : Trace(h, b, size) /\ ShuffleOf(b) = h[Len(b)]
    BY <1>3, ShuffleTrace
  <2>2. Len(a) = Len(b) /\ g[Len(a)] = h[Len(b)]
    BY <1>1, <1>3, <2>1
  <2> QED BY ONLY <1>1, <1>3, <2>1, <2>2, size \in Nat, LegalDraws(a, size), DrawsTold
<1> QED BY <1>1, <1>2, <1>3 DEF Arrangements, Shuffled

LEMMA ShufflesCount ==
  size \in Nat => Cardinality(DrawSequences) = Cardinality(Arrangements)
<1> SUFFICES ASSUME size \in Nat PROVE Cardinality(DrawSequences) = Cardinality(Arrangements)
  OBVIOUS
<1> DEFINE map == [ds \in DrawSequences |-> ShuffleOf(ds)]
<1>1. \A ds \in DrawSequences : LegalDraws(ds, size) /\ Len(ds) = LastIndex(size)
  BY FullDraws
<1>2. map \in [DrawSequences -> Arrangements]
  BY <1>1, ShuffleOfDraws
<1>3. ASSUME NEW a \in DrawSequences, NEW b \in DrawSequences, ShuffleOf(a) = ShuffleOf(b)
      PROVE  a = b
  BY <1>1, <1>3, ShuffleOfDraws
<1>4. ASSUME NEW f \in Arrangements PROVE \E ds \in DrawSequences : ShuffleOf(ds) = f
  <2>1. f \in [0 .. size - 1 -> 0 .. size - 1] /\ IsArrangement(f)
    BY DEF Arrangements
  <2>2. PICK ds, h : /\ LegalDraws(ds, size) /\ Len(ds) = LastIndex(size)
                     /\ Trace(h, ds, size) /\ h[LastIndex(size)] = f
    BY <2>1, DrawsExist
  <2>3. PICK g : Trace(g, ds, size) /\ ShuffleOf(ds) = g[Len(ds)]
    BY <2>2, ShuffleTrace
  <2>4. g[Len(ds)] = h[Len(ds)]
    <3>1. Len(ds) \in Nat
      BY <2>2, LegalAt
    <3> QED BY <2>2, <2>3, <3>1, TracesAgree
  <2>5. ds \in DrawSequences
    BY <2>2, FullDraws
  <2> QED BY <2>2, <2>3, <2>4, <2>5
<1>5. map \in Bijection(DrawSequences, Arrangements)
  <2>1. DOMAIN map = DrawSequences /\ \A ds \in DrawSequences : map[ds] = ShuffleOf(ds)
    OBVIOUS
  <2> HIDE DEF map
  <2>2. IsInjective(map)
    BY <1>3, <2>1 DEF IsInjective
  <2>3. \A f \in Arrangements : \E ds \in DrawSequences : map[ds] = f
    BY <1>4, <2>1
  <2> QED BY <1>2, <2>2, <2>3 DEF Bijection, Injection, Surjection
<1>6. ExistsBijection(DrawSequences, Arrangements)
  BY <1>5 DEF ExistsBijection
<1> QED BY <1>6, DrawsFinite, FS_Bijection

-----------------------------------------------------------------------------
(* The shuffle as it runs: the list is where its draws so far have taken it.  *)
DrawInv ==
    /\ Inv
    /\ pc \in {"plan", "ask", "read"}
    /\ size \in 0 .. MaxSize /\ i \in 0 .. size
    /\ i + Len(draws) = LastIndex(size) /\ LegalDraws(draws, size)
    /\ \E h : Trace(h, draws, size) /\ h[Len(draws)] = perm

LEMMA DrawInitInv == DrawInit => DrawInv
<1> SUFFICES ASSUME DrawInit PROVE DrawInv
  OBVIOUS
<1>1. Inv /\ pc = "plan"
  BY InitInv DEF DrawInit
<1>2. size \in 0 .. MaxSize /\ size \in Nat /\ i = LastIndex(size) /\ i \in 0 .. size
  BY DrawsAssumption DEF DrawInit, LastIndex
<1>3. draws = <<>> /\ Len(draws) = 0 /\ i + Len(draws) = LastIndex(size)
  BY <1>2 DEF DrawInit
<1>4. LegalDraws(draws, size)
  BY <1>2, <1>3 DEF LegalDraws, LastIndex
<1>5. PICK h : Trace(h, draws, size)
  BY <1>2, <1>4, TraceExists
<1>6. h[Len(draws)] = perm
  BY <1>3, <1>5 DEF Trace, DrawInit
<1> QED BY <1>1, <1>2, <1>3, <1>4, <1>5, <1>6 DEF DrawInv

LEMMA DrawStepInv == DrawInv /\ [DrawNext]_drawVars => DrawInv'
<1> SUFFICES ASSUME DrawInv, [DrawNext]_drawVars PROVE DrawInv'
  OBVIOUS
<1>0. /\ size \in Nat /\ MaxSize \in Nat /\ size <= MaxSize /\ i \in 0 .. size /\ i \in Nat
      /\ Inv /\ LegalDraws(draws, size) /\ i + Len(draws) = LastIndex(size) /\ Len(draws) \in Nat
  BY DrawsAssumption, LegalAt DEF DrawInv
<1>1. ASSUME UNCHANGED shuffle, Inv', pc' \in {"plan", "ask", "read"} PROVE DrawInv'
  <2>1. size' = size /\ i' = i /\ perm' = perm /\ draws' = draws
    BY <1>1 DEF shuffle
  <2> QED BY <1>1, <2>1 DEF DrawInv
<1>2. UNCHANGED vars => Inv'
  BY <1>0, StepInv
<1>3. CASE EarlierDraw
  <2>1. Inv'
    BY <1>0, <1>3, StepInv DEF EarlierDraw
  <2> QED BY <1>1, <1>3, <2>1 DEF EarlierDraw
<1>4. CASE Begin
  BY <1>1, <1>2, <1>4 DEF Begin
<1>5. CASE Ask
  <2> DEFINE n == DrawBound(i)
  <2>1. n \in 2 .. MaxSize /\ n \in Nat /\ n >= 2
    <3>1. i <= size - 1 /\ i > 0
      BY <1>0, <1>5 DEF Ask, LastIndex
    <3> QED BY <1>0, <3>1 DEF DrawBound
  <2>2. ReadFast(NBytes(n)) \/ ReadSlow(NBytes(n))
    BY <1>5 DEF Ask
  <2>3. UNCHANGED shuffle /\ pc' = "read"
    BY <1>5 DEF Ask
  <2> HIDE DEF n
  <2>4. NBytes(n) \in 1 .. MaxRead
    <3>1. NBytes(n) \in Nat /\ NBytes(n) >= 1
      BY <2>1, MaskFacts
    <3>2. NBytes(n) <= MaxRead /\ MaxRead \in Nat
      BY <2>1, DrawsAssumption, KeyStreamAssumption
    <3> QED BY <3>1, <3>2
  <2>5. Inv'
    BY <1>0, <2>2, <2>4, ReadHolds
  <2> QED BY <1>1, <2>3, <2>5
<1>6. CASE Fill
  <2>1. [Next]_vars
    BY <1>6 DEF Fill, Next
  <2>2. Inv'
    BY <1>0, <2>1, StepInv
  <2> QED BY <1>1, <1>6, <2>2 DEF Fill, DrawInv
<1>7. ASSUME NEW word \in Words(DrawBound(i)), i > 0, Draw(word) PROVE DrawInv'
  <2> DEFINE b == DrawBound(i)
             j == Masked(b, word)
             n == Len(draws)
             c == Append(draws, j)
  <2>1. /\ j < b /\ perm' = Swap(perm, i, j) /\ draws' = c /\ i' = i - 1 /\ size' = size
        /\ pc' = "ask" /\ UNCHANGED vars
    BY <1>7 DEF Draw, Accepted
  <2>2. b = i + 1 /\ b \in Nat /\ b >= 2
    BY <1>0, <1>7 DEF DrawBound
  <2>3. j \in Nat
    <3>1. Pow2(Bits(b)) \in Nat /\ Pow2(Bits(b)) >= b
      BY <2>2, MaskFacts
    <3>2. word \in Nat
      BY DEF Words
    <3> DEFINE m == Pow2(Bits(b))
    <3> HIDE DEF m
    <3>3. m \in Nat /\ m >= 1
      BY <2>2, <3>1 DEF m
    <3>4. word % m \in Nat
      BY <3>2, <3>3, Divided
    <3> QED BY <3>4 DEF Masked, m
  <2> HIDE DEF j, b
  <2>4. size > 0 /\ i + n = size - 1 /\ n \in Nat /\ n + 1 <= size - 1
        /\ j <= i /\ j \in 0 .. size /\ i = size - (n + 1) /\ i - 1 \in 0 .. size
    <3>1. size > 0 /\ i + n = size - 1
      BY <1>0, <1>7 DEF LastIndex
    <3> QED BY <1>0, <1>7, <2>1, <2>2, <2>3, <3>1
  <2>5. draws \in Seq(0 .. size) /\ \A k \in 1 .. n : draws[k] <= size - k
    BY <1>0 DEF LegalDraws
  <2>6. /\ c \in Seq(0 .. size) /\ Len(c) = n + 1 /\ c[n + 1] = j
        /\ \A k \in 1 .. n : c[k] = draws[k]
    BY <2>4, <2>5
  <2>7. LegalDraws(c, size)
    <3>1. \A k \in 1 .. n + 1 : c[k] <= size - k
      <4> TAKE k \in 1 .. n + 1
      <4>1. k = n + 1 \/ k \in 1 .. n
        BY <2>4
      <4> QED BY <2>4, <2>5, <2>6, <4>1
    <3>2. LastIndex(size) = size - 1
      BY <2>4 DEF LastIndex
    <3> HIDE DEF c, n
    <3> QED BY <2>4, <2>6, <3>1, <3>2 DEF LegalDraws
  <2>8. PICK g : Trace(g, draws, size) /\ g[n] = perm
    BY DEF DrawInv
  <2>9. PICK h : Trace(h, c, size)
    BY <1>0, <2>7, TraceExists
  <2> HIDE DEF c
  <2>10. g[n] = h[n]
    <3>1. Len(c) \in Nat /\ n <= Len(c) /\ n <= Len(draws) /\ n \in Nat
      BY <2>4, <2>6
    <3>2. \A k \in 1 .. n : draws[k] = c[k]
      BY <2>6
    <3> HIDE DEF n
    <3> QED BY <1>0, <2>8, <2>9, <3>1, <3>2, TracesAgree
  <2>11. h[n + 1] = Swap(h[n], size - (n + 1), c[n + 1])
    <3>1. n + 1 \in 1 .. Len(c) /\ (n + 1) - 1 = n
      BY <2>4, <2>6
    <3> HIDE DEF n
    <3> QED BY <2>9, <3>1 DEF Trace
  <2>12. h[Len(c)] = perm'
    BY <2>1, <2>4, <2>6, <2>8, <2>10, <2>11
  <2>13. i' + Len(draws') = LastIndex(size')
    BY <1>0, <2>1, <2>4, <2>6 DEF LastIndex
  <2>14. Inv'
    BY <1>2, <2>1
  <2>15. size' \in 0 .. MaxSize /\ i' \in 0 .. size' /\ pc' \in {"plan", "ask", "read"}
    BY <1>0, <2>1, <2>4
  <2>16. LegalDraws(draws', size')
    BY <2>1, <2>7
  <2>17. Trace(h, draws', size') /\ h[Len(draws')] = perm'
    BY <2>1, <2>9, <2>12
  <2> QED BY <2>13, <2>14, <2>15, <2>16, <2>17 DEF DrawInv
<1>8. ASSUME NEW word \in Words(DrawBound(i)), i > 0, Reject(word) PROVE DrawInv'
  BY <1>1, <1>2, <1>8 DEF Reject
<1>9. CASE UNCHANGED drawVars
  <2>1. UNCHANGED vars /\ UNCHANGED shuffle /\ pc' = pc
    BY <1>9 DEF drawVars
  <2> QED BY <1>1, <1>2, <2>1 DEF DrawInv
<1> QED BY <1>3, <1>4, <1>5, <1>6, <1>7, <1>8, <1>9 DEF DrawNext

\* Where the draws have taken the list is an arrangement of it.
LEMMA DrawInvType == DrawInv => DrawTypeOK
<1> SUFFICES ASSUME DrawInv PROVE DrawTypeOK
  OBVIOUS
<1>1. size \in Nat /\ LegalDraws(draws, size) /\ Len(draws) \in Nat
  BY DrawsAssumption, LegalAt DEF DrawInv
<1>2. PICK h : Trace(h, draws, size) /\ h[Len(draws)] = perm
  BY DEF DrawInv
<1>3. Shuffled(perm, size)
  <2>1. Len(draws) \in 0 .. Len(draws)
    BY <1>1
  <2> QED BY <1>1, <1>2, <2>1, TraceShuffles
<1>4. draws \in Seq(0 .. size)
  BY <1>1 DEF LegalDraws
<1> QED BY <1>3, <1>4 DEF DrawInv, DrawTypeOK, Shuffled, Inv

\* When all draws are made they are the only ones that give the list.
LEMMA DrawInvUniform == DrawInv => DrawsAreUniform
<1> SUFFICES ASSUME DrawInv PROVE DrawsAreUniform
  OBVIOUS
<1>1. size \in Nat /\ LegalDraws(draws, size) /\ Len(draws) \in Nat
  BY DrawsAssumption, LegalAt DEF DrawInv
<1>2. ASSUME Done PROVE {ds \in DrawSequences : ShuffleOf(ds) = perm} = {draws}
  <2>1. Len(draws) = LastIndex(size)
    BY <1>1, <1>2 DEF Done, DrawInv
  <2>2. PICK h : Trace(h, draws, size) /\ h[Len(draws)] = perm
    BY DEF DrawInv
  <2>3. PICK g : Trace(g, draws, size) /\ ShuffleOf(draws) = g[Len(draws)]
    BY <1>1, ShuffleTrace
  <2>4. g[Len(draws)] = h[Len(draws)]
    BY <1>1, <2>2, <2>3, TracesAgree
  <2>5. ShuffleOf(draws) = perm
    BY <2>2, <2>3, <2>4
  <2>6. draws \in DrawSequences
    BY <1>1, <2>1, FullDraws
  <2>7. ASSUME NEW ds \in DrawSequences, ShuffleOf(ds) = perm PROVE ds = draws
    <3>1. LegalDraws(ds, size) /\ Len(ds) = LastIndex(size)
      BY <1>1, FullDraws
    <3> QED BY <1>1, <2>1, <2>5, <2>7, <3>1, ShuffleOfDraws
  <2> QED BY <2>5, <2>6, <2>7
<1>3. ShuffleIsUniform
  BY <1>1, <1>2, ShufflesCount DEF ShuffleIsUniform
<1> QED BY <1>1, <1>3, BelowHolds DEF DrawsAreUniform

\* randbelow is unbiased and every permutation is the result of exactly one
\* sequence of draws, for lists of any length and keystream bytes of any width.
THEOREM DrawsUniform == DrawSpec => []DrawsAreUniform
<1>1. DrawInit => DrawInv BY DrawInitInv
<1>2. DrawInv /\ [DrawNext]_drawVars => DrawInv' BY DrawStepInv
<1>3. DrawInv => DrawsAreUniform BY DrawInvUniform
<1> QED BY <1>1, <1>2, <1>3, PTL DEF DrawSpec

\* The list permutation shuffles is an arrangement of the indices at every step,
\* whatever the keystream holds and wherever in a block the shuffle begins.
THEOREM ListStaysArranged == DrawSpec => []DrawTypeOK
<1>1. DrawInit => DrawInv BY DrawInitInv
<1>2. DrawInv /\ [DrawNext]_drawVars => DrawInv' BY DrawStepInv
<1>3. DrawInv => DrawTypeOK BY DrawInvType
<1> QED BY <1>1, <1>2, <1>3, PTL DEF DrawSpec

\* The reads randbelow makes for a shuffle are contiguous too: a rejected word is
\* thrown away, not given again.
THEOREM DrawsReadOn == DrawSpec => []ReadsAreContiguous
<1>1. DrawInit => DrawInv BY DrawInitInv
<1>2. DrawInv /\ [DrawNext]_drawVars => DrawInv' BY DrawStepInv
<1>3. DrawInv => ReadsAreContiguous BY DEF DrawInv, Inv
<1> QED BY <1>1, <1>2, <1>3, PTL DEF DrawSpec

-----------------------------------------------------------------------------
(* Recipients.                                                              *)

(* Sorting entries by their label keeps each of them on one side.            *)
LEMMA LabelledEntries ==
  ASSUME NEW kem \in Seq(Entries), NEW identity, NEW own \in BOOLEAN
  PROVE  /\ Labelled(kem, identity, own) \in Seq(Entries)
         /\ ToSet(Labelled(kem, identity, own)) = {e \in ToSet(kem) : (e.fp = identity) = own}
<1> DEFINE n == Len(kem)
           V == Seq(Entries)
           Kept(es, e) == IF (e.fp = identity) = own THEN Append(es, e) ELSE es
           step == [p \in V \X (1 .. n) |-> Kept(p[1], kem[p[2]])]
           iter[t \in SUBSET DOMAIN kem] ==
               IF t = {} THEN <<>> ELSE Kept(iter[t \ {Max(t)}], kem[Max(t)])
<1>1. Labelled(kem, identity, own) = iter[DOMAIN kem]
  BY DEF Labelled, FoldLeft, MapThenFoldSet
<1>2. n \in Nat /\ DOMAIN kem = 1 .. n /\ \A k \in 1 .. n : kem[k] \in Entries
  OBVIOUS
<1> HIDE DEF n
<1>3. \A es \in V, k \in 1 .. n : Kept(es, kem[k]) \in V
  BY <1>2
<1>a. \A es \in V, e \in Entries :
          ToSet(Kept(es, e)) = ToSet(es) \cup (IF (e.fp = identity) = own THEN {e} ELSE {})
  <2> SUFFICES ASSUME NEW es \in V, NEW e \in Entries
               PROVE  ToSet(Append(es, e)) = ToSet(es) \cup {e}
    OBVIOUS
  <2>1. /\ Len(Append(es, e)) = Len(es) + 1 /\ Append(es, e)[Len(es) + 1] = e
        /\ \A x \in 1 .. Len(es) : Append(es, e)[x] = es[x]
        /\ DOMAIN Append(es, e) = 1 .. Len(es) + 1 /\ DOMAIN es = 1 .. Len(es)
        /\ Len(es) \in Nat
    OBVIOUS
  <2> QED BY <2>1 DEF ToSet
<1>b. <<>> \in V
  OBVIOUS
<1> HIDE DEF Kept, V
<1>4. step \in [V \X (1 .. n) -> V] /\ \A es \in V, k \in 1 .. n : step[<<es, k>>] = Kept(es, kem[k])
  BY <1>3
<1> HIDE DEF step
<1>5. PICK g : Steps(g, n, V, <<>>, step)
  BY ONLY <1>2, <1>4, <1>b, StepRecursion
<1>6. PICK h : Unfolds(h, n, V, <<>>, step)
  BY ONLY <1>2, <1>4, <1>b, FoldRecursion
<1>7. h = [t \in SUBSET DOMAIN kem |-> IF t = {} THEN <<>> ELSE Kept(h[t \ {Max(t)}], kem[Max(t)])]
  <2>1. ASSUME NEW t \in SUBSET (1 .. n), t # {}
        PROVE  h[t] = Kept(h[t \ {Max(t)}], kem[Max(t)])
    <3>1. Max(t) \in 1 .. n
      BY <1>2, <2>1, BoundedMax
    <3>2. h[t \ {Max(t)}] \in V
      BY <1>6 DEF Unfolds
    <3> QED BY <1>4, <1>6, <2>1, <3>1, <3>2 DEF Unfolds
  <2>2. \A t \in SUBSET (1 .. n) : h[t] = IF t = {} THEN <<>> ELSE Kept(h[t \ {Max(t)}], kem[Max(t)])
    BY <1>6, <2>1 DEF Unfolds
  <2> QED BY <1>2, <1>6, <2>2 DEF Unfolds
<1>8. iter = [t \in SUBSET DOMAIN kem |-> IF t = {} THEN <<>> ELSE Kept(iter[t \ {Max(t)}], kem[Max(t)])]
  BY <1>7
<1> HIDE DEF iter
<1>9. iter[{}] = <<>>
  BY <1>2, <1>8
<1>10. FoldSteps(iter, n, V, step)
  <2> SUFFICES ASSUME NEW k \in 1 .. n, iter[1 .. k - 1] \in V
               PROVE  iter[1 .. k] = step[<<iter[1 .. k - 1], k>>]
    BY DEF FoldSteps
  <2>1. 1 .. k \in SUBSET (1 .. n) /\ k \in Nat \ {0}
    BY <1>2
  <2>2. 1 .. k # {} /\ Max(1 .. k) = k /\ (1 .. k) \ {Max(1 .. k)} = 1 .. k - 1
    BY <2>1, IntervalMax
  <2>3. iter[1 .. k] = Kept(iter[1 .. k - 1], kem[k])
    BY <1>2, <1>8, <2>1, <2>2
  <2> QED BY <1>4, <2>3
<1>11. iter[1 .. n] = g[n]
  <2>1. \A k \in 0 .. n : iter[1 .. k] = g[k]
    BY ONLY <1>2, <1>5, <1>9, <1>10, FoldOfInterval
  <2> QED BY <1>2, <2>1
<1>12. /\ g \in [0 .. n -> V] /\ g[0] = <<>>
       /\ \A k \in 1 .. n : g[k] = Kept(g[k - 1], kem[k]) /\ g[k - 1] \in V
  <2>1. \A k \in 1 .. n : k - 1 \in 0 .. n
    BY <1>2
  <2> QED BY <1>4, <1>5, <2>1 DEF Steps
<1> DEFINE Right(k) == ToSet(g[k]) = {e \in {kem[j] : j \in 1 .. k} : (e.fp = identity) = own}
           S == {k \in Nat : k <= n => Right(k)}
<1>13. 0 \in S
  <2>1. ToSet(g[0]) = {} /\ 1 .. 0 = {}
    BY <1>12 DEF ToSet
  <2> QED BY <2>1
<1>14. ASSUME NEW k \in Nat, k \in S
       PROVE  k + 1 \in S
  <2> SUFFICES ASSUME k + 1 <= n PROVE Right(k + 1)
    OBVIOUS
  <2>1. k + 1 \in 1 .. n /\ (k + 1) - 1 = k /\ 1 .. k + 1 = (1 .. k) \cup {k + 1} /\ Right(k)
    BY <1>2, <1>14
  <2>2. g[k + 1] = Kept(g[k], kem[k + 1]) /\ g[k] \in V /\ kem[k + 1] \in Entries
    BY <1>2, <1>12, <2>1
  <2>3. ToSet(g[k + 1]) = ToSet(g[k]) \cup (IF (kem[k + 1].fp = identity) = own THEN {kem[k + 1]} ELSE {})
    BY <1>a, <2>2
  <2>4. {kem[j] : j \in 1 .. k + 1} = {kem[j] : j \in 1 .. k} \cup {kem[k + 1]}
    BY <2>1
  <2> QED BY <2>1, <2>3, <2>4
<1>15. n \in S
  <2> HIDE DEF S
  <2> QED BY <1>2, <1>13, <1>14, Inductively
<1>16. Right(n)
  BY <1>2, <1>15
<1>17. ToSet(kem) = {kem[j] : j \in 1 .. n} /\ n \in 0 .. n
  BY <1>2 DEF ToSet
<1> QED BY <1>1, <1>2, <1>11, <1>12, <1>16, <1>17 DEF V

(* An identity is tried on every entry, whatever the labels say.             *)
LEMMA OrderedTriesAll ==
  ASSUME NEW kem \in Seq(Entries), NEW identity
  PROVE  ToSet(Ordered(kem, identity)) = ToSet(kem)
<1>1. PICK a, b : a = Labelled(kem, identity, TRUE) /\ b = Labelled(kem, identity, FALSE)
  OBVIOUS
<1>2. /\ a \in Seq(Entries) /\ b \in Seq(Entries)
      /\ ToSet(a) = {e \in ToSet(kem) : e.fp = identity}
      /\ ToSet(b) = {e \in ToSet(kem) : e.fp # identity}
  <2>1. PICK yes \in BOOLEAN, no \in BOOLEAN : yes = TRUE /\ no = FALSE
    OBVIOUS
  <2>2. a = Labelled(kem, identity, yes) /\ b = Labelled(kem, identity, no)
    BY <1>1, <2>1
  <2>3. a \in Seq(Entries) /\ ToSet(a) = {e \in ToSet(kem) : (e.fp = identity) = yes}
    BY <2>2, LabelledEntries
  <2>4. b \in Seq(Entries) /\ ToSet(b) = {e \in ToSet(kem) : (e.fp = identity) = no}
    BY <2>2, LabelledEntries
  <2> QED BY <2>1, <2>3, <2>4
<1>3. ToSet(a \o b) = ToSet(a) \cup ToSet(b)
  <2>1. /\ Len(a) \in Nat /\ Len(b) \in Nat /\ DOMAIN a = 1 .. Len(a) /\ DOMAIN b = 1 .. Len(b)
        /\ DOMAIN (a \o b) = 1 .. Len(a) + Len(b)
    BY <1>2
  <2>2. \A x \in 1 .. Len(a) + Len(b) :
            (a \o b)[x] = IF x <= Len(a) THEN a[x] ELSE b[x - Len(a)]
    BY <1>2
  <2>3. \A x \in 1 .. Len(b) : (a \o b)[x + Len(a)] = b[x] /\ x + Len(a) \in 1 .. Len(a) + Len(b)
    BY <2>1, <2>2
  <2>4. \A x \in 1 .. Len(a) : (a \o b)[x] = a[x] /\ x \in 1 .. Len(a) + Len(b)
    BY <2>1, <2>2
  <2>5. \A x \in 1 .. Len(a) + Len(b) : x <= Len(a) \/ x - Len(a) \in 1 .. Len(b)
    BY <2>1
  <2>6. \A x \in 1 .. Len(a) + Len(b) : (a \o b)[x] \in ToSet(a) \cup ToSet(b)
    BY <2>1, <2>2, <2>5 DEF ToSet
  <2>7. ToSet(a) \subseteq ToSet(a \o b) /\ ToSet(b) \subseteq ToSet(a \o b)
    BY <2>1, <2>3, <2>4 DEF ToSet
  <2>8. ToSet(a \o b) \subseteq ToSet(a) \cup ToSet(b)
    BY <2>1, <2>6 DEF ToSet
  <2> QED BY <2>7, <2>8
<1>4. ToSet(Ordered(kem, identity)) = ToSet(a) \cup ToSet(b)
  BY <1>1, <1>3 DEF Ordered
<1> QED BY <1>2, <1>4

LEMMA RecipientsListed ==
  ASSUME NEW o \in LockOptions \cup WebLockOptions
  PROVE  o.recipients \in Seq(Identities)
<1>1. o.recipients \in SeqOf(Identities, MaxRecipients)
  BY DEF LockOptions, WebLockOptions
<1>2. PICK m \in 0 .. MaxRecipients : o.recipients \in [1 .. m -> Identities]
  BY <1>1 DEF SeqOf
<1> QED BY <1>2, KeyResolutionAssumption

(* Everyone a file is locked to has an entry that is theirs.                  *)
HasEntry(kem, r) ==
    \E k \in 1 .. Len(kem) : kem[k].wrappedFor = r /\ kem[k].readable

LEMMA SealEntries ==
  ASSUME NEW recipients \in Seq(Identities)
  PROVE  /\ Seal(recipients) \in Seq(Entries)
         /\ \A r \in ToSet(recipients) : HasEntry(Seal(recipients), r)
<1> DEFINE n == Len(recipients)
           V == Seq(Entries)
           Entry(r) == [fp |-> r, wrappedFor |-> r, readable |-> TRUE]
           Wrapped(es, r) == IF \E k \in 1 .. Len(es) : es[k].wrappedFor = r
                             THEN es ELSE Append(es, Entry(r))
           step == [p \in V \X (1 .. n) |-> Wrapped(p[1], recipients[p[2]])]
           iter[t \in SUBSET DOMAIN recipients] ==
               IF t = {} THEN <<>> ELSE Wrapped(iter[t \ {Max(t)}], recipients[Max(t)])
           Readable(es) == \A k \in 1 .. Len(es) : es[k].readable
<1>1. Seal(recipients) = iter[DOMAIN recipients]
  BY DEF Seal, FoldLeft, MapThenFoldSet
<1>2. n \in Nat /\ DOMAIN recipients = 1 .. n /\ \A k \in 1 .. n : recipients[k] \in Identities
  OBVIOUS
<1> HIDE DEF n
<1>3. ASSUME NEW es \in V, NEW r \in Identities
      PROVE  /\ Wrapped(es, r) \in V
             /\ Readable(es) => Readable(Wrapped(es, r)) /\ HasEntry(Wrapped(es, r), r)
             /\ \A q : HasEntry(es, q) => HasEntry(Wrapped(es, r), q)
  <2>1. CASE \E k \in 1 .. Len(es) : es[k].wrappedFor = r
    BY <2>1 DEF HasEntry
  <2>2. CASE ~\E k \in 1 .. Len(es) : es[k].wrappedFor = r
    <3>1. PICK e, a : e = Entry(r) /\ a = Append(es, e)
      OBVIOUS
    <3>2. e \in Entries /\ e.wrappedFor = r /\ e.readable
      BY <3>1 DEF Entries
    <3>3. /\ a \in V /\ Len(a) = Len(es) + 1 /\ Len(es) \in Nat /\ a[Len(es) + 1] = e
          /\ \A k \in 1 .. Len(es) : a[k] = es[k]
      BY <3>1, <3>2
    <3>4. Wrapped(es, r) = a
      BY <2>2, <3>1
    <3>5. \A k \in 1 .. Len(a) : k \in 1 .. Len(es) \/ k = Len(es) + 1
      BY <3>3
    <3>6. Readable(es) => Readable(a)
      BY <3>2, <3>3, <3>5
    <3>7. HasEntry(a, r)
      <4>1. Len(es) + 1 \in 1 .. Len(a)
        BY <3>3
      <4> QED BY <3>2, <3>3, <4>1 DEF HasEntry
    <3>8. \A q : HasEntry(es, q) => HasEntry(a, q)
      <4>1. \A k \in 1 .. Len(es) : k \in 1 .. Len(a)
        BY <3>3
      <4> QED BY <3>3, <4>1 DEF HasEntry
    <3> QED BY <3>3, <3>4, <3>6, <3>7, <3>8
  <2> QED BY <2>1, <2>2
<1>b. <<>> \in V /\ Readable(<<>>)
  OBVIOUS
<1> HIDE DEF Wrapped, V, Readable
<1>4. step \in [V \X (1 .. n) -> V]
      /\ \A es \in V, k \in 1 .. n : step[<<es, k>>] = Wrapped(es, recipients[k])
  BY <1>2, <1>3
<1> HIDE DEF step
<1>5. PICK g : Steps(g, n, V, <<>>, step)
  BY ONLY <1>2, <1>4, <1>b, StepRecursion
<1>6. PICK h : Unfolds(h, n, V, <<>>, step)
  BY ONLY <1>2, <1>4, <1>b, FoldRecursion
<1>7. h = [t \in SUBSET DOMAIN recipients |->
              IF t = {} THEN <<>> ELSE Wrapped(h[t \ {Max(t)}], recipients[Max(t)])]
  <2>1. ASSUME NEW t \in SUBSET (1 .. n), t # {}
        PROVE  h[t] = Wrapped(h[t \ {Max(t)}], recipients[Max(t)])
    <3>1. Max(t) \in 1 .. n
      BY <1>2, <2>1, BoundedMax
    <3>2. h[t \ {Max(t)}] \in V
      BY <1>6 DEF Unfolds
    <3> QED BY <1>4, <1>6, <2>1, <3>1, <3>2 DEF Unfolds
  <2>2. \A t \in SUBSET (1 .. n) :
            h[t] = IF t = {} THEN <<>> ELSE Wrapped(h[t \ {Max(t)}], recipients[Max(t)])
    BY <1>6, <2>1 DEF Unfolds
  <2> QED BY <1>2, <1>6, <2>2 DEF Unfolds
<1>8. iter = [t \in SUBSET DOMAIN recipients |->
                 IF t = {} THEN <<>> ELSE Wrapped(iter[t \ {Max(t)}], recipients[Max(t)])]
  BY <1>7
<1> HIDE DEF iter
<1>9. iter[{}] = <<>>
  BY <1>2, <1>8
<1>10. FoldSteps(iter, n, V, step)
  <2> SUFFICES ASSUME NEW k \in 1 .. n, iter[1 .. k - 1] \in V
               PROVE  iter[1 .. k] = step[<<iter[1 .. k - 1], k>>]
    BY DEF FoldSteps
  <2>1. 1 .. k \in SUBSET (1 .. n) /\ k \in Nat \ {0}
    BY <1>2
  <2>2. 1 .. k # {} /\ Max(1 .. k) = k /\ (1 .. k) \ {Max(1 .. k)} = 1 .. k - 1
    BY <2>1, IntervalMax
  <2>3. iter[1 .. k] = Wrapped(iter[1 .. k - 1], recipients[k])
    BY <1>2, <1>8, <2>1, <2>2
  <2> QED BY <1>4, <2>3
<1>11. iter[1 .. n] = g[n]
  <2>1. \A k \in 0 .. n : iter[1 .. k] = g[k]
    BY ONLY <1>2, <1>5, <1>9, <1>10, FoldOfInterval
  <2> QED BY <1>2, <2>1
<1>12. /\ g \in [0 .. n -> V] /\ g[0] = <<>>
       /\ \A k \in 1 .. n : g[k] = Wrapped(g[k - 1], recipients[k]) /\ g[k - 1] \in V
  <2>1. \A k \in 1 .. n : k - 1 \in 0 .. n
    BY <1>2
  <2> QED BY <1>4, <1>5, <2>1 DEF Steps
<1> DEFINE Right(k) == Readable(g[k]) /\ \A j \in 1 .. k : HasEntry(g[k], recipients[j])
           S == {k \in Nat : k <= n => Right(k)}
<1>13. 0 \in S
  <2>1. 1 .. 0 = {}
    OBVIOUS
  <2> QED BY <1>b, <1>12, <2>1
<1>14. ASSUME NEW k \in Nat, k \in S
       PROVE  k + 1 \in S
  <2> SUFFICES ASSUME k + 1 <= n PROVE Right(k + 1)
    OBVIOUS
  <2>1. k + 1 \in 1 .. n /\ (k + 1) - 1 = k /\ Right(k)
        /\ \A j \in 1 .. k + 1 : j \in 1 .. k \/ j = k + 1
    BY <1>2, <1>14
  <2>2. g[k + 1] = Wrapped(g[k], recipients[k + 1]) /\ g[k] \in V /\ recipients[k + 1] \in Identities
    BY <1>2, <1>12, <2>1
  <2> QED BY <1>3, <2>1, <2>2
<1>15. n \in S
  <2> HIDE DEF S
  <2> QED BY <1>2, <1>13, <1>14, Inductively
<1>16. Right(n) /\ n \in 0 .. n
  BY <1>2, <1>15
<1> QED BY <1>1, <1>2, <1>11, <1>12, <1>16 DEF V, ToSet

(* Who has a readable entry gets the content key.                             *)
LEMMA UnsealFinds ==
  ASSUME NEW kem \in Seq(Entries), NEW identity, HasEntry(kem, identity)
  PROVE  Unseal(kem, identity) = ContentKey
<1>1. PICK k \in 1 .. Len(kem) : kem[k].wrappedFor = identity /\ kem[k].readable
  BY DEF HasEntry
<1>2. kem[k] \in ToSet(kem)
  BY DEF ToSet
<1> QED BY <1>1, <1>2, OrderedTriesAll DEF Unseal

-----------------------------------------------------------------------------
(* The invariant.                                                           *)

IsRecord(m) ==
    m = [algo |-> m.algo, salt |-> m.salt, keyless |-> m.keyless, seed |-> m.seed,
         kem |-> m.kem, mac |-> m.mac]

\* What a lock with options o records in m.
Chosen(o, m) ==
    \/ /\ o.recipients # <<>> /\ m.algo = "x25519-kem"
       /\ m.kem = Seal(o.recipients) /\ m.mac.key = ContentKey
    \/ /\ m.kem = <<>>
       /\ \/ /\ ByKeyless(o) /\ m.keyless /\ m.algo = "keyless"
             /\ m.mac.key = Scrypt(m.seed, "glitchlock-keyless")
          \/ /\ ByKeyFile(o) /\ ~m.keyless /\ m.algo = "key-file-sha256"
             /\ m.mac.key = LoadKeyFile(o.keyFile)
          \/ /\ ByEnv(o) /\ ~m.keyless /\ m.algo = "env-sha256"
             /\ m.mac.key = Sha256(o.env)
          \/ /\ ByPassphrase(o) /\ o.passphrase # Empty /\ ~m.keyless /\ m.algo = "scrypt"
             /\ m.mac.key = Scrypt(o.passphrase, m.salt)

Algos == {"x25519-kem", "keyless", "key-file-sha256", "env-sha256", "scrypt"}

\* What Issue saves: a record with its tag.
Signed(m, key) == [m EXCEPT !.mac = Tag(m, key)]

IsIssue(s, algo, salt, seed, kem, key) == s = Signed(Unsigned(algo, salt, seed, kem), key)

Locked ==
    issued # None =>
        /\ IsRecord(issued) /\ Verify(issued, issued.mac.key)
        /\ issued.mac.key # None
        /\ Chosen(given, issued)

Arrived ==
    issued # None =>
        /\ IsRecord(manifest)
        /\ manifest = [issued EXCEPT !.kem = manifest.kem]
        /\ issued.kem = <<>> => manifest = issued

Resolved(m, u) == IF u.site = "web" THEN ResolveOnWeb(m, u) ELSE ResolveForUnlock(m, u)

Decided ==
    outcome # None =>
        /\ issued # None
        /\ outcome.key = Resolved(manifest, outcome.with)
        /\ outcome.open <=> outcome.key # None /\ Verify(manifest, outcome.key)

Typed ==
    /\ given \in LockOptions \cup WebLockOptions \cup {None}
    /\ issued \in Manifests \cup {None} /\ (issued = None <=> given = None)
    /\ issued # None => manifest.kem \in Seq(Entries)
    /\ outcome # None => outcome.with \in UnlockOptions \cup WebUnlockOptions

ResolutionInv == Locked /\ Arrived /\ Decided /\ Typed

-----------------------------------------------------------------------------
LEMMA ResolutionInitInv == ResolutionInit => ResolutionInv
  BY DEF ResolutionInit, ResolutionInv, Locked, Arrived, Decided, Typed

(* The tag a lock makes is that of the record it saves.                       *)
LEMMA IssuedFacts ==
  ASSUME NEW algo, NEW salt, NEW seed, NEW kem, NEW key, NEW s,
         IsIssue(s, algo, salt, seed, kem, key)
  PROVE  /\ IsRecord(s) /\ Verify(s, s.mac.key) /\ s.mac.key = key
         /\ s.algo = algo /\ s.salt = salt /\ s.seed = seed /\ s.kem = kem
         /\ s.keyless <=> algo = "keyless"
         /\ key \in KeysOf(Secrets \cup {Fresh}) /\ algo \in Algos
            /\ {salt, seed} \subseteq {None, Fresh} /\ kem \in Seq(Entries) => s \in Manifests
<1> DEFINE b == [algo |-> algo, salt |-> salt, keyless |-> (algo = "keyless"),
                 seed |-> seed, kem |-> kem, mac |-> None]
           g == [algo |-> algo, salt |-> salt, keyless |-> (algo = "keyless"),
                 seed |-> seed, kem |-> kem, mac |-> [key |-> key, body |-> b]]
<1>1. Unsigned(algo, salt, seed, kem) = b
  BY DEF Unsigned
<1>2. Body(b) = b
  BY DEF Body
<1>3. s = [b EXCEPT !.mac = [key |-> key, body |-> b]]
  BY <1>1, <1>2 DEF IsIssue, Signed, Tag
<1>4. s = g
  BY <1>3
<1>5. Body(g) = b
  BY DEF Body
<1>6. g.mac = [key |-> key, body |-> b] /\ g.mac.key = key
  OBVIOUS
<1>7. Verify(g, g.mac.key)
  BY <1>5, <1>6 DEF Verify, Tag
<1>8. IsRecord(g) /\ g.algo = algo /\ g.salt = salt /\ g.seed = seed /\ g.kem = kem
      /\ (g.keyless <=> algo = "keyless")
  BY DEF IsRecord
<1>9. key \in KeysOf(Secrets \cup {Fresh}) /\ algo \in Algos
      /\ {salt, seed} \subseteq {None, Fresh} /\ kem \in Seq(Entries) => g \in Manifests
  BY DEF Manifests, Records, Algos
<1> QED BY <1>4, <1>6, <1>7, <1>8, <1>9

LEMMA IssueInv ==
  ASSUME ResolutionInv, issued = None, NEW o \in LockOptions \cup WebLockOptions,
         NEW key \in KeysOf(Secrets \cup {Fresh}), NEW algo \in Algos,
         NEW salt \in {None, Fresh}, NEW seed \in {None, Fresh}, NEW kem \in Seq(Entries),
         Issue(o, key, Unsigned(algo, salt, seed, kem)),
         \A s : s.algo = algo /\ s.salt = salt /\ s.seed = seed /\ s.kem = kem
                /\ (s.keyless <=> algo = "keyless") /\ s.mac.key = key => Chosen(o, s)
  PROVE  ResolutionInv'
<1>1. PICK s : s = Signed(Unsigned(algo, salt, seed, kem), key)
  OBVIOUS
<1>2. given' = o /\ issued' = s /\ manifest' = s /\ outcome' = outcome
  BY <1>1 DEF Issue, Signed
<1>3. IsIssue(s, algo, salt, seed, kem, key)
  BY <1>1 DEF IsIssue
<1>4. /\ IsRecord(s) /\ Verify(s, s.mac.key) /\ s.mac.key = key
      /\ s.algo = algo /\ s.salt = salt /\ s.seed = seed /\ s.kem = kem
      /\ (s.keyless <=> algo = "keyless")
      /\ (key \in KeysOf(Secrets \cup {Fresh}) /\ algo \in Algos
          /\ {salt, seed} \subseteq {None, Fresh} /\ kem \in Seq(Entries) => s \in Manifests)
  BY ONLY <1>3, IssuedFacts
<1>9. s \in Manifests
  BY <1>4
<1>5. Chosen(o, s)
  BY <1>4
<1>6. s = [s EXCEPT !.kem = s.kem]
  BY <1>4 DEF IsRecord
<1>7. outcome = None
  BY DEF ResolutionInv, Decided
<1>8. key # None /\ s # None /\ o # None
  BY <1>9, KeyResolutionAssumption DEF KeysOf
<1> QED BY <1>2, <1>4, <1>5, <1>6, <1>7, <1>8, <1>9 DEF ResolutionInv, Locked, Arrived, Decided, Typed

LEMMA LockInv ==
  ASSUME ResolutionInv, Lock
  PROVE  ResolutionInv'
<1>1. PICK o \in LockOptions \cup WebLockOptions :
          \/ LockToRecipients(o) \/ LockKeyless(o) \/ LockKeyFile(o) \/ LockEnv(o)
          \/ LockPassphrase(o)
  BY DEF Lock
<1>2. issued = None
  BY DEF Lock
<1>3. /\ o.keyFile \in Secrets \cup {None, Empty} /\ o.env \in Secrets \cup {None}
      /\ o.passphrase \in Secrets \cup {Empty}
  BY DEF LockOptions, WebLockOptions
<1>a. o.recipients \in Seq(Identities)
  BY RecipientsListed
<1>4. CASE LockToRecipients(o)
  <2>1. Issue(o, ContentKey, Unsigned("x25519-kem", None, None, Seal(o.recipients)))
        /\ o.recipients # <<>>
    BY <1>4 DEF LockToRecipients
  <2>2. ContentKey \in KeysOf(Secrets \cup {Fresh})
    BY DEF ContentKey, KeysOf
  <2>3. Seal(o.recipients) \in Seq(Entries)
    BY <1>a, SealEntries
  <2> QED BY <1>2, <2>1, <2>2, <2>3, IssueInv DEF Chosen, Algos
<1>b. <<>> \in Seq(Entries)
  OBVIOUS
<1>5. CASE LockKeyless(o)
  <2>1. /\ ByKeyless(o)
        /\ Issue(o, Scrypt(Fresh, "glitchlock-keyless"), Unsigned("keyless", None, Fresh, <<>>))
    BY <1>5 DEF LockKeyless
  <2>2. Scrypt(Fresh, "glitchlock-keyless") \in KeysOf(Secrets \cup {Fresh})
    BY DEF Scrypt, KeysOf
  <2> QED BY <1>b, <1>2, <2>1, <2>2, IssueInv DEF Chosen, Algos
<1>6. CASE LockKeyFile(o)
  <2>1. /\ ByKeyFile(o) /\ LoadKeyFile(o.keyFile) # None
        /\ Issue(o, LoadKeyFile(o.keyFile), Unsigned("key-file-sha256", None, None, <<>>))
    BY <1>6 DEF LockKeyFile
  <2>2. o.keyFile \in Secrets /\ LoadKeyFile(o.keyFile) = Sha256(o.keyFile)
    BY <1>3, <2>1 DEF LoadKeyFile, ByKeyFile
  <2>3. LoadKeyFile(o.keyFile) \in KeysOf(Secrets \cup {Fresh})
    BY <2>2 DEF Sha256, KeysOf
  <2> QED BY <1>b, <1>2, <2>1, <2>3, IssueInv DEF Chosen, Algos
<1>7. CASE LockEnv(o)
  <2>1. /\ ByEnv(o) /\ o.env # None
        /\ Issue(o, Sha256(o.env), Unsigned("env-sha256", None, None, <<>>))
    BY <1>7 DEF LockEnv, ByEnv
  <2>2. Sha256(o.env) \in KeysOf(Secrets \cup {Fresh})
    BY <1>3, <2>1 DEF Sha256, KeysOf
  <2> QED BY <1>b, <1>2, <2>1, <2>2, IssueInv DEF Chosen, Algos
<1>8. CASE LockPassphrase(o)
  <2>1. /\ ByPassphrase(o) /\ o.passphrase # Empty
        /\ Issue(o, Scrypt(o.passphrase, Fresh), Unsigned("scrypt", Fresh, None, <<>>))
    BY <1>8 DEF LockPassphrase
  <2>2. Scrypt(o.passphrase, Fresh) \in KeysOf(Secrets \cup {Fresh})
    BY <1>3, <2>1 DEF Scrypt, KeysOf
  <2> QED BY <1>b, <1>2, <2>1, <2>2, IssueInv DEF Chosen, Algos
<1> QED BY <1>1, <1>4, <1>5, <1>6, <1>7, <1>8

(* Damage leaves entries.                                                     *)
LEMMA DamagedEntries ==
  ASSUME NEW kem \in Seq(Entries)
  PROVE  /\ Reverse(kem) \in Seq(Entries)
         /\ \A k \in 1 .. Len(kem) :
               /\ RemoveAt(kem, k) \in Seq(Entries)
               /\ \A fp \in Identities \cup {None} : [kem EXCEPT ![k].fp = fp] \in Seq(Entries)
               /\ [kem EXCEPT ![k].readable = FALSE] \in Seq(Entries)
<1>1. Len(kem) \in Nat /\ \A k \in 1 .. Len(kem) : kem[k] \in Entries
  OBVIOUS
<1>2. Reverse(kem) \in Seq(Entries)
  <2>1. \A x \in 1 .. Len(kem) : (Len(kem) - x) + 1 \in 1 .. Len(kem)
    BY <1>1
  <2> QED BY <1>1, <2>1 DEF Reverse
<1>3. ASSUME NEW k \in 1 .. Len(kem)
      PROVE  RemoveAt(kem, k) \in Seq(Entries)
  <2>1. SubSeq(kem, 1, k - 1) \in Seq(Entries) /\ SubSeq(kem, k + 1, Len(kem)) \in Seq(Entries)
    OBVIOUS
  <2> QED BY <2>1 DEF RemoveAt
<1>4. ASSUME NEW k \in 1 .. Len(kem), NEW e \in Entries
      PROVE  [kem EXCEPT ![k] = e] \in Seq(Entries)
  OBVIOUS
<1>5. ASSUME NEW k \in 1 .. Len(kem), NEW fp \in Identities \cup {None}
      PROVE  [kem EXCEPT ![k].fp = fp] \in Seq(Entries)
  <2>1. [kem[k] EXCEPT !.fp = fp] \in Entries
    BY <1>1 DEF Entries
  <2> QED BY <1>4, <2>1
<1>6. ASSUME NEW k \in 1 .. Len(kem)
      PROVE  [kem EXCEPT ![k].readable = FALSE] \in Seq(Entries)
  <2>1. [kem[k] EXCEPT !.readable = FALSE] \in Entries
    BY <1>1 DEF Entries
  <2> QED BY <1>4, <2>1
<1> QED BY <1>2, <1>3, <1>5, <1>6

LEMMA DamageInv ==
  ASSUME ResolutionInv, Damage
  PROVE  ResolutionInv'
<1>1. /\ issued # None /\ manifest = issued /\ outcome = None /\ manifest.kem # <<>>
      /\ UNCHANGED <<given, issued, outcome>>
  BY DEF Damage
<1>2. PICK kem : manifest' = [manifest EXCEPT !.kem = kem] /\ kem \in Seq(Entries)
  <2>1. PICK m, old : m = manifest /\ old = m.kem
    OBVIOUS
  <2>2. IsRecord(m) /\ old \in Seq(Entries)
    BY <1>1, <2>1 DEF ResolutionInv, Typed, Locked
  <2> DEFINE Arrives(kem) == manifest' = [m EXCEPT !.kem = kem]
  <2>3. \/ Arrives(Reverse(old)) \/ Arrives(<<>>)
        \/ \E k \in 1 .. Len(old) : Arrives(RemoveAt(old, k))
        \/ \E k \in 1 .. Len(old), fp \in Identities \cup {None} :
              Arrives([old EXCEPT ![k].fp = fp])
        \/ \E k \in 1 .. Len(old) : Arrives([old EXCEPT ![k].readable = FALSE])
    BY <2>1 DEF Damage
  <2>4. <<>> \in Seq(Entries)
    OBVIOUS
  <2> HIDE DEF Arrives
  <2>5. \E kem \in Seq(Entries) : Arrives(kem)
    BY <2>2, <2>3, <2>4, DamagedEntries, Zenon
  <2> QED BY <2>1, <2>5 DEF Arrives
<1>3. PICK s : s = issued
  OBVIOUS
<1>4. IsRecord(s) /\ s.kem # <<>>
  BY <1>1, <1>3 DEF ResolutionInv, Locked
<1>5. manifest' = [algo |-> s.algo, salt |-> s.salt, keyless |-> s.keyless, seed |-> s.seed,
                   kem |-> kem, mac |-> s.mac]
  BY <1>1, <1>2, <1>3, <1>4 DEF IsRecord
<1>6. IsRecord(manifest') /\ manifest'.kem = kem
  BY <1>5 DEF IsRecord
<1>7. manifest' = [s EXCEPT !.kem = manifest'.kem]
  BY <1>1, <1>2, <1>3, <1>6
<1>8. Locked'
  BY <1>1 DEF ResolutionInv, Locked, Chosen
<1>9. Arrived' /\ Decided' /\ Typed'
  BY <1>1, <1>2, <1>3, <1>4, <1>6, <1>7 DEF Arrived, Decided, Typed, ResolutionInv
<1> QED BY <1>8, <1>9 DEF ResolutionInv

LEMMA UnlockInv ==
  ASSUME ResolutionInv, Unlock
  PROVE  ResolutionInv'
<1>1. issued # None /\ UNCHANGED <<given, issued, manifest>>
  BY DEF Unlock
<1>a. PICK u \in UnlockOptions \cup WebUnlockOptions :
         outcome' = [with |-> u, key |-> Resolved(manifest, u),
                     open |-> /\ Resolved(manifest, u) # None
                              /\ Verify(manifest, Resolved(manifest, u))]
  BY DEF Unlock, Resolved
<1>2. PICK key : /\ key = Resolved(manifest, u)
                 /\ outcome' = [with |-> u, key |-> key,
                                open |-> key # None /\ Verify(manifest, key)]
  BY <1>a
<1>3. outcome'.with = u /\ outcome'.key = key
      /\ (outcome'.open <=> key # None /\ Verify(manifest, key))
  BY <1>2
<1>4. Decided' /\ Typed'
  BY <1>1, <1>2, <1>3 DEF Decided, Typed, ResolutionInv
<1> QED BY <1>1, <1>4 DEF ResolutionInv, Locked, Arrived

LEMMA NextInv == ResolutionInv /\ [ResolutionNext]_resolutionVars => ResolutionInv'
<1> SUFFICES ASSUME ResolutionInv, [ResolutionNext]_resolutionVars PROVE ResolutionInv'
  OBVIOUS
<1>1. CASE UNCHANGED resolutionVars
  BY <1>1 DEF resolutionVars, ResolutionInv, Locked, Arrived, Decided, Typed
<1> QED BY <1>1, LockInv, DamageInv, UnlockInv DEF ResolutionNext

LEMMA SpecInv == ResolutionSpec => []ResolutionInv
  BY ResolutionInitInv, NextInv, PTL DEF ResolutionSpec

-----------------------------------------------------------------------------
LEMMA TagFixesRecord ==
  ASSUME ResolutionInv, issued # None, NEW key, Verify(manifest, key)
  PROVE  manifest = issued /\ key = issued.mac.key
<1>1. PICK m, s : m = manifest /\ s = issued
  OBVIOUS
<1>2. /\ IsRecord(s) /\ IsRecord(m) /\ Verify(s, s.mac.key) /\ m = [s EXCEPT !.kem = m.kem]
      /\ Verify(m, key)
  BY <1>1 DEF ResolutionInv, Locked, Arrived
<1>3. m.mac = s.mac
  BY <1>2 DEF IsRecord
<1>4. key = s.mac.key /\ Body(m) = Body(s)
  <2>1. m.mac.key = key /\ m.mac.body = Body(m)
    BY <1>2 DEF Verify, Tag
  <2>2. s.mac.body = Body(s)
    BY <1>2 DEF Verify, Tag
  <2> QED BY <1>3, <2>1, <2>2
<1>5. Body(m).kem = m.kem /\ Body(s).kem = s.kem
  BY <1>2 DEF Body, IsRecord
<1>6. m = s
  BY <1>2, <1>4, <1>5 DEF IsRecord
<1> QED BY <1>1, <1>4, <1>6

(* A file that opens is opened under the key it was locked with, and its      *)
(* manifest arrived as it was sent: the tag covers the recipients' entries,    *)
(* which the choice of a key goes by (manifest.sign, pubkey.unseal).          *)
THEOREM OpensAsIssued == ResolutionSpec => []OpenedAsIssued
<1>1. ResolutionInv => OpenedAsIssued
  BY TagFixesRecord DEF ResolutionInv, Decided, OpenedAsIssued
<1> QED BY <1>1, SpecInv, PTL

(* What was issued, seen from an unlock of it as it was.                      *)
LEMMA Reached ==
  ASSUME ResolutionInv, outcome # None, manifest = issued, NEW o, NEW u, NEW m,
         o = given, u = outcome.with, m = issued
  PROVE  /\ Verify(m, m.mac.key) /\ m.mac.key # None /\ Chosen(o, m)
         /\ outcome.key = Resolved(m, u)
         /\ outcome.open <=> outcome.key # None /\ Verify(m, outcome.key)
         /\ o \in LockOptions \cup WebLockOptions /\ o.recipients \in Seq(Identities)
         /\ m.kem \in Seq(Entries)
<1>1. issued # None /\ Verify(m, m.mac.key) /\ m.mac.key # None /\ Chosen(o, m)
      /\ outcome.key = Resolved(m, u)
      /\ (outcome.open <=> outcome.key # None /\ Verify(m, outcome.key))
      /\ m.kem \in Seq(Entries)
  BY DEF ResolutionInv, Locked, Decided, Typed
<1>2. o \in LockOptions \cup WebLockOptions
  BY <1>1 DEF ResolutionInv, Typed
<1>3. o.recipients \in Seq(Identities)
  BY <1>2, RecipientsListed
<1> QED BY <1>1, <1>2, <1>3

(* A recipient finds the key of the lock in the manifest, at either end.      *)
LEMMA RecipientResolves ==
  ASSUME NEW o, NEW u, NEW m, o.recipients \in Seq(Identities), o.recipients # <<>>,
         Chosen(o, m), u.identity \in ToSet(o.recipients)
  PROVE  Resolved(m, u) = m.mac.key
<1>1. m.kem = Seal(o.recipients) /\ m.mac.key = ContentKey
  BY DEF Chosen, ByKeyless, ByKeyFile, ByEnv, ByPassphrase
<1>2. m.kem \in Seq(Entries) /\ HasEntry(m.kem, u.identity)
  BY <1>1, SealEntries
<1>3. Unseal(m.kem, u.identity) = m.mac.key
  BY <1>1, <1>2, UnsealFinds
<1>4. m.kem # <<>>
  BY <1>2 DEF HasEntry
<1>5. u.identity # None
  <2>1. ToSet(o.recipients) \subseteq Identities
    BY DEF ToSet
  <2> QED BY <2>1, KeyResolutionAssumption
<1> QED BY <1>3, <1>4, <1>5 DEF Resolved, ResolveOnWeb, ResolveForUnlock

(* The options that locked a file, used or not, open it again on the command   *)
(* line, or the identity of one recipient: the two lists of precedence of      *)
(* cli.py agree (_resolve_key_for_lock, _resolve_key_for_unlock).             *)
THEOREM OptionsReopen == ResolutionSpec => []SameOptionsReopen
<1>1. ResolutionInv => SameOptionsReopen
  <2> SUFFICES ASSUME ResolutionInv, outcome # None,
                      manifest = issued, outcome.with.site = "cli", SameKeyMaterial,
                      outcome.with.env = given.env \/ given.env = None
               PROVE  outcome.open
    BY DEF SameOptionsReopen, Untouched
  <2>1. PICK o, u, m : o = given /\ u = outcome.with /\ m = issued
    OBVIOUS
  <2>2. /\ Verify(m, m.mac.key) /\ m.mac.key # None
        /\ Chosen(o, m) /\ o.recipients \in Seq(Identities)
        /\ outcome.key = Resolved(m, u)
        /\ (outcome.open <=> outcome.key # None /\ Verify(m, outcome.key))
    BY <2>1, Reached
  <2>3. /\ u.keyFile = o.keyFile /\ u.passphrase = o.passphrase /\ u.site = "cli"
        /\ (u.env = o.env \/ o.env = None)
        /\ o.recipients # <<>> => u.identity \in ToSet(o.recipients)
    BY <2>1 DEF SameKeyMaterial
  <2>4. Resolved(m, u) = m.mac.key
    <3>1. CASE o.recipients = <<>>
      BY <2>2, <2>3, <3>1
      DEF Chosen, Resolved, ResolveForUnlock, ByKeyless, ByKeyFile, ByEnv, ByPassphrase
    <3>2. CASE o.recipients # <<>>
      BY <2>2, <2>3, <3>2, RecipientResolves
    <3> QED BY <3>1, <3>2
  <2> QED BY <2>2, <2>4
<1> QED BY <1>1, SpecInv, PTL

(* What one of the page and the command line locks with a passphrase or to a   *)
(* public key opens at the other (server.py _lock and _unlock, cli.py).       *)
THEOREM PageAndLineAgree == ResolutionSpec => []SitesAgree
<1>1. ResolutionInv => SitesAgree
  <2> SUFFICES ASSUME ResolutionInv, outcome # None, manifest = issued, outcome.with.keyFile = None,
                      \/ /\ issued.algo = "scrypt"
                         /\ outcome.with.passphrase = given.passphrase
                         /\ outcome.with.identity = None
                      \/ /\ issued.algo = "x25519-kem"
                         /\ outcome.with.identity \in ToSet(given.recipients)
               PROVE  outcome.open
    BY DEF SitesAgree, Untouched
  <2>1. PICK o, u, m : o = given /\ u = outcome.with /\ m = issued
    OBVIOUS
  <2>2. /\ Verify(m, m.mac.key) /\ m.mac.key # None
        /\ Chosen(o, m) /\ o.recipients \in Seq(Identities)
        /\ outcome.key = Resolved(m, u)
        /\ (outcome.open <=> outcome.key # None /\ Verify(m, outcome.key))
    BY <2>1, Reached
  <2>3. CASE m.algo = "scrypt"
    <3>1. u.keyFile = None /\ u.passphrase = o.passphrase /\ u.identity = None
      BY <2>1, <2>3
    <3>2. m.kem = <<>> /\ o.passphrase # Empty /\ ~m.keyless
          /\ m.mac.key = Scrypt(o.passphrase, m.salt)
      BY <2>2, <2>3 DEF Chosen
    <3>3. Resolved(m, u) = m.mac.key
      BY <2>3, <3>1, <3>2 DEF Resolved, ResolveForUnlock, ResolveOnWeb
    <3> QED BY <2>2, <3>3
  <2>4. CASE m.algo = "x25519-kem"
    <3>1. o.recipients # <<>>
      BY <2>2, <2>4 DEF Chosen
    <3>2. u.identity \in ToSet(o.recipients)
      BY <2>1, <2>4
    <3> QED BY <2>2, <3>1, <3>2, RecipientResolves
  <2> QED BY <2>1, <2>3, <2>4
<1> QED BY <1>1, SpecInv, PTL

(* Whatever became of the labels, the order and the other entries, who has a   *)
(* readable entry recovers the content key: unseal tries every entry.         *)
THEOREM LabelsAreHints == ResolutionSpec => []FingerprintIsOnlyAHint
<1>1. ResolutionInv => FingerprintIsOnlyAHint
  <2> SUFFICES ASSUME ResolutionInv, outcome # None, HasEntry(manifest.kem, outcome.with.identity)
               PROVE  outcome.key = ContentKey
    BY DEF FingerprintIsOnlyAHint, HasEntry
  <2>1. PICK u, m : u = outcome.with /\ m = manifest
    OBVIOUS
  <2>2. m.kem \in Seq(Entries) /\ outcome.key = Resolved(m, u) /\ HasEntry(m.kem, u.identity)
    BY <2>1 DEF ResolutionInv, Decided, Typed
  <2>3. Unseal(m.kem, u.identity) = ContentKey
    BY <2>2, UnsealFinds
  <2>4. m.kem # <<>> /\ u.identity # None
    <3>1. PICK k \in 1 .. Len(m.kem) : m.kem[k].wrappedFor = u.identity
      BY <2>2 DEF HasEntry
    <3>2. m.kem[k] \in Entries
      BY <2>2
    <3>3. u.identity \in Identities
      BY <3>1, <3>2 DEF Entries
    <3> QED BY <3>1, <3>3, KeyResolutionAssumption
  <2> QED BY <2>2, <2>3, <2>4 DEF Resolved, ResolveOnWeb, ResolveForUnlock
<1> QED BY <1>1, SpecInv, PTL

(* Every lock issues a typed manifest under a key that no empty secret went    *)
(* into, and damage is for manifests with recipients only.                    *)
THEOREM KeysAreTyped == ResolutionSpec => []ResolutionTypeOK
<1>1. ResolutionInv => ResolutionTypeOK
  <2> SUFFICES ASSUME ResolutionInv, issued # None PROVE manifest = issued \/ issued.algo = "x25519-kem"
    BY DEF ResolutionInv, Typed, ResolutionTypeOK
  <2> QED BY DEF ResolutionInv, Locked, Arrived, Chosen
<1> QED BY <1>1, SpecInv, PTL
=============================================================================
